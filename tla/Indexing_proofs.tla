-------------------------- MODULE Indexing_proofs --------------------------
(***************************************************************************)
(* Theorems about Indexing for any number of resources, ticks, edits,      *)
(* ingestions of others and faults, and any lease longer than a tick.      *)
(***************************************************************************)
EXTENDS Indexing, TLAPS

USE DurationAssumption, BoundAssumption

-----------------------------------------------------------------------------
(* Values. *)

LEMMA RevisionValues ==
    /\ NoRevision \in Revision /\ Absent \in Source
    /\ \A s \in Source : Readable(s) => s \in Revision /\ s.kind \in Outcomes
    /\ \A rev \in Revision : Readable(rev) => rev.kind \in Outcomes
    /\ \A s \in Source : s # Unavailable /\ s # NoRevision
    /\ ~Readable(NoRevision) /\ ~Readable(Unavailable)
<1>1. NoRevision \in Revision /\ Absent \in Source
  BY DEF Revision, NoRevision, Absent, Source, Outcomes
<1>2. \A s \in Source : Readable(s) => s \in Revision /\ s.kind \in Outcomes
  BY DEF Revision, Source, Readable
<1>3. \A s \in Source : s # Unavailable /\ s # NoRevision
  BY DEF Source, Outcomes, Unavailable, NoRevision
<1>4. ~Readable(NoRevision) /\ ~Readable(Unavailable)
  BY DEF Readable, Outcomes, NoRevision, Unavailable
<1> QED
  BY <1>1, <1>2, <1>3, <1>4 DEF Readable

\* The fields of a job.
LEMMA JobFields ==
    ASSUME NEW j \in Job
    PROVE  /\ j.state \in {"none", "PENDING", "PREPARING", "WAITING_SYNC", "FAILED"} \cup Outcomes
           /\ j.desired \in Revision /\ j.rev \in Revision /\ j.run \in Runs \cup {0}
           /\ j.keys \in SUBSET Key /\ j.pending \in SUBSET Key /\ j.removed \in SUBSET Key
  BY DEF Job

\* The members a reconciliation collects.
LEMMA BatchMoves ==
    ASSUME NEW b \in Batch, NEW r \in Resources, NEW m \in {NewMember, NoMember}
    PROVE  [b EXCEPT ![r] = m] \in Batch
<1>1. m \in Member
  BY RevisionValues DEF NoMember, NewMember, Member
<1> QED
  BY <1>1 DEF Batch

LEMMA ControlFields ==
    ASSUME NEW c \in Control
    PROVE  /\ c.owner \in Ticks \cup {"none"} /\ c.lease \in 0 .. Lease /\ c.lease \in Nat
           /\ c.phase \in {"IDLE", "EXPORTING", "PREPARED", "RUNNING", "FINALIZING"}
           /\ c.batch \in Batch /\ c.succeeded \in BOOLEAN
  BY DEF Control

LEMMA TickFields ==
    ASSUME NEW e \in Tick
    PROVE  /\ e.pc \in Step /\ e.age \in 0 .. TickTimeout /\ e.age \in Nat
           /\ e.r \in Resources \cup {"none"} /\ e.todo \in SUBSET Resources /\ e.batch \in Batch
           /\ e.failed \in BOOLEAN /\ e.seen \in Job
           /\ e.snap \in Source \cup {NoRevision, Unavailable}
           /\ e.mode \in {"publish", "purge", "defer"} /\ e.success \in BOOLEAN /\ e.gone \in BOOLEAN
  BY DEF Tick

LEMMA OffTick == Off \in Tick /\ Off.pc = "off"
<1>1. NoBatch \in Batch
  BY RevisionValues DEF NoBatch, Batch, NoMember, Member
<1>2. NoJob \in Job
  BY RevisionValues DEF NoJob, Job
<1> QED
  BY <1>1, <1>2 DEF Off, Tick, Step

-----------------------------------------------------------------------------
(* Moves of a tick. *)

TickType == tick \in [Ticks -> Tick]
Others(t) == \A u \in Ticks : u # t => tick'[u] = tick[u]

LEMMA GotoStep ==
    ASSUME TickType, NEW t \in Ticks, NEW e \in Tick, NEW pc \in Step, Goto(t, e, pc)
    PROVE  /\ TickType' /\ Others(t) /\ tick'[t].pc = pc
           /\ tick'[t].age = e.age /\ tick'[t].r = e.r /\ tick'[t].todo = e.todo
           /\ tick'[t].batch = e.batch /\ tick'[t].failed = e.failed /\ tick'[t].seen = e.seen
           /\ tick'[t].snap = e.snap /\ tick'[t].mode = e.mode
           /\ tick'[t].success = e.success /\ tick'[t].gone = e.gone
<1>1. [e EXCEPT !.pc = pc] \in Tick
  BY DEF Tick
<1>2. tick' = [tick EXCEPT ![t] = [e EXCEPT !.pc = pc]]
  BY DEF Goto
<1>3. TickType' /\ Others(t) /\ tick'[t] = [e EXCEPT !.pc = pc]
  BY <1>1, <1>2 DEF TickType, Others
<1> QED
  BY <1>3 DEF Tick

\* A tick that goes on with the next member has forgotten the one before.
Fresh(x) == /\ x.mode = "publish" /\ x.success = FALSE /\ x.gone = FALSE
            /\ x.seen = NoJob /\ x.snap = NoRevision

LEMMA OnwardStep ==
    ASSUME TickType, NEW t \in Ticks, NEW e \in Tick, NEW first \in Step \ {"close"},
           Onward(t, e, first)
    PROVE  /\ TickType' /\ Others(t) /\ tick'[t].pc \in {first, "close"}
           /\ tick'[t].age = e.age /\ tick'[t].batch = e.batch /\ Fresh(tick'[t])
           /\ tick'[t].pc = first => tick'[t].r \in e.todo /\ tick'[t].r \in Resources
<1> DEFINE clean == [e EXCEPT !.r = "none", !.seen = NoJob, !.snap = NoRevision,
                              !.mode = "publish", !.success = FALSE, !.gone = FALSE]
<1>1. NoJob \in Job
  BY RevisionValues DEF NoJob, Job
<1>2. clean \in Tick /\ clean.age = e.age /\ clean.batch = e.batch /\ Fresh(clean)
  BY <1>1 DEF Tick, Fresh
<1>3. clean.todo = e.todo /\ e.todo \subseteq Resources
  BY DEF Tick
<1>4. "close" \in Step
  BY DEF Step
<1>5. CASE e.todo = {}
  <2>1. Goto(t, clean, "close")
    BY <1>5 DEF Onward
  <2> HIDE DEF clean
  <2>2. /\ TickType' /\ Others(t) /\ tick'[t].pc = "close" /\ tick'[t].age = clean.age
        /\ tick'[t].batch = clean.batch /\ tick'[t].seen = clean.seen
        /\ tick'[t].snap = clean.snap /\ tick'[t].mode = clean.mode
        /\ tick'[t].success = clean.success /\ tick'[t].gone = clean.gone
    BY <1>2, <1>4, <2>1, GotoStep
  <2> QED
    BY <1>2, <2>2 DEF Fresh
<1>6. CASE e.todo # {}
  <2>1. PICK r \in e.todo : Goto(t, [clean EXCEPT !.r = r, !.todo = @ \ {r}], first)
    BY <1>6 DEF Onward
  <2> DEFINE x == [clean EXCEPT !.r = r, !.todo = @ \ {r}]
  <2> HIDE DEF clean
  <2>2. x \in Tick /\ x.age = clean.age /\ x.batch = clean.batch /\ Fresh(x) /\ x.r = r
    BY <1>2, <1>3 DEF Tick, Fresh
  <2>3. Goto(t, x, first)
    BY <2>1
  <2> HIDE DEF x
  <2>4. /\ TickType' /\ Others(t) /\ tick'[t].pc = first /\ tick'[t].age = x.age
        /\ tick'[t].batch = x.batch /\ tick'[t].seen = x.seen /\ tick'[t].snap = x.snap
        /\ tick'[t].mode = x.mode /\ tick'[t].success = x.success /\ tick'[t].gone = x.gone
        /\ tick'[t].r = x.r
    BY <2>2, <2>3, GotoStep
  <2> QED
    BY <1>2, <1>3, <2>2, <2>4 DEF Fresh
<1> QED
  BY <1>5, <1>6

LEMMA OnErrorLeads ==
    ASSUME NEW e \in Tick
    PROVE  /\ OnError(e) \in {"retry", "tally", "return"} /\ OnError(e) \in Step
           /\ OnError(e) = "retry" => e.pc \in {"take", "begin", "read", "plan", "verify", "track",
                                                "sweep", "ready", "fail"}
           /\ OnError(e) = "tally" => e.pc \in {"find", "docs", "reread", "settle"}
<1>1. {"retry", "tally", "return"} \subseteq Step
  BY DEF Step, Exporting, Finishing
<1> QED
  BY <1>1 DEF OnError

LEMMA WrittenStep ==
    ASSUME TickType, NEW t \in Ticks, NEW e \in Tick, NEW pc \in Step, Written(t, e, pc)
    PROVE  /\ TickType' /\ Others(t)
           /\ \/ tick'[t].pc = pc
              \/ tick'[t].pc = OnError(e)
              \/ tick'[t].pc = "defer" /\ e.pc \in {"begin", "track", "fail"} /\ e.mode # "defer"
           /\ tick'[t].age = e.age /\ tick'[t].r = e.r /\ tick'[t].batch = e.batch
           /\ tick'[t].seen = e.seen /\ tick'[t].snap = e.snap /\ tick'[t].mode = e.mode
<1>1. "defer" \in Step /\ OnError(e) \in Step
  BY OnErrorLeads DEF Step, Exporting
<1>2. CASE Goto(t, e, pc)
  BY <1>2, GotoStep
<1>3. CASE Goto(t, e, OnError(e))
  BY <1>1, <1>3, GotoStep
<1>4. CASE e.pc \in {"begin", "track", "fail"} /\ e.mode # "defer" /\ Goto(t, e, "defer")
  BY <1>1, <1>4, GotoStep
<1> QED
  BY <1>2, <1>3, <1>4 DEF Written

RowsType ==
    /\ job \in [Resources -> Job] /\ jobLease \in [Resources -> 0 .. Lease]
    /\ cooling \in [Resources -> BOOLEAN]
OtherJobs(r) == \A q \in Resources : q # r => job'[q] = job[q]

\* Two rows that differ at most in what is asked for and in their state.
Same(k, j) ==
    /\ k.keys = j.keys /\ k.pending = j.pending /\ k.removed = j.removed
    /\ k.run = j.run /\ k.rev = j.rev
Asked(j, k) == k = j \/ (k.state = "PENDING" /\ Same(k, j))

\* A request changes what a job is asked for and its state, and nothing else of it.
LEMMA RequestStep ==
    ASSUME RowsType, NEW r \in Resources, NEW rev \in Revision, RequestIndexResource(r, rev)
    PROVE  RowsType' /\ jobLease' = jobLease /\ OtherJobs(r) /\ Asked(job[r], job'[r])
<1> DEFINE want == IF rev = NoRevision THEN job[r].desired ELSE rev
<1>1. CASE Answered(r, rev)
  BY <1>1 DEF RequestIndexResource, rows, Asked, RowsType, OtherJobs
<1>2. CASE ~Answered(r, rev)
  <2>1. job[r] \in Job /\ want \in Revision
    BY JobFields DEF RowsType
  <2>2. job' = [job EXCEPT ![r] = [job[r] EXCEPT !.state = "PENDING", !.desired = want]]
    BY <1>2 DEF RequestIndexResource
  <2>3. cooling' = [cooling EXCEPT ![r] = FALSE] /\ jobLease' = jobLease
    BY <1>2 DEF RequestIndexResource
  <2> DEFINE k == [job[r] EXCEPT !.state = "PENDING", !.desired = want]
  <2> HIDE DEF want
  <2>4. k \in Job
    BY <2>1, RevisionValues DEF Job
  <2>5. Asked(job[r], k)
    BY <2>1 DEF Asked, Same, Job
  <2> QED
    BY <2>2, <2>3, <2>4, <2>5 DEF RowsType, OtherJobs
<1> QED
  BY <1>1, <1>2

LEMMA SaveStep ==
    ASSUME RowsType, NEW r \in Resources, NEW next \in Job, SaveIndexJob(r, next)
    PROVE  job' \in [Resources -> Job] /\ job'[r] = next /\ OtherJobs(r)
  BY DEF RowsType, SaveIndexJob, OtherJobs

LEMMA FailStep ==
    ASSUME RowsType, NEW r \in Resources, NEW next \in Job, FailJob(r, next)
    PROVE  RowsType' /\ job'[r].state = "FAILED" /\ Same(job'[r], next) /\ OtherJobs(r)
<1> DEFINE k == [next EXCEPT !.state = "FAILED"]
<1>1. k \in Job /\ k.state = "FAILED" /\ Same(k, next)
  BY DEF Job, Same
<1>2. job' = [job EXCEPT ![r] = k] /\ cooling' = [cooling EXCEPT ![r] = TRUE]
      /\ jobLease' = [jobLease EXCEPT ![r] = 0]
  BY DEF FailJob, SaveIndexJob
<1> QED
  BY <1>1, <1>2 DEF RowsType, OtherJobs

-----------------------------------------------------------------------------
(* Type correctness. *)

\* A tick that handles a member has one; a source is readable where it becomes a revision,
\* and there is a key where it is put.
Equipped(e) ==
    /\ e.pc \in Exporting \cup Finishing \cup {"look", "choose"} => e.r \in Resources
    /\ e.pc \in {"plan", "settle"} => Readable(e.snap)
    /\ e.pc \in Parts => e.seen.pending # {}

TypeInv == TypeOK /\ \A t \in Ticks : Equipped(tick[t])

\* What every action of a tick does, besides claiming, to ticks and the control row.
Coarse(t) ==
    /\ tick[t].pc # "off" /\ Others(t)
    /\ tick'[t].pc = "off" \/ (tick'[t].age = tick[t].age /\ late' = late)
    /\ control'.owner = control.owner /\ control'.lease = control.lease

\* ... and where it goes, if it does not close a phase.
Idling == {"busy", "look", "choose"}
Stays(t) ==
    /\ control' = control
    /\ \/ tick'[t].pc \in {"return", "off"}
       \/ \E class \in {Idling, Exporting, Finishing} :
             tick[t].pc \in class /\ tick'[t].pc \in class \cup {"close"}

LEMMA TypeFacts ==
    ASSUME TypeInv, NEW t \in Ticks
    PROVE  /\ TickType /\ RowsType /\ tick[t] \in Tick /\ Equipped(tick[t])
           /\ source \in [Resources -> Source] /\ control \in Control
           /\ store \in [Resources -> SUBSET (Key \X Parts)]
           /\ vectors \in [Resources -> SUBSET Key]
  BY DEF TypeInv, TypeOK, TickType, RowsType

\* The tick's part of the type, where one tick moves.
LEMMA TickTyped ==
    ASSUME TypeInv, NEW t \in Ticks, TickType', Others(t), Equipped(tick'[t])
    PROVE  tick' \in [Ticks -> Tick] /\ \A u \in Ticks : Equipped(tick'[u])
<1>1. \A u \in Ticks : u # t => Equipped(tick'[u])
  BY DEF TypeInv, Others
<1> QED
  BY <1>1 DEF TickType

LEMMA OnwardEquipped ==
    ASSUME TickType, NEW t \in Ticks, NEW e \in Tick, NEW first \in {"look", "take", "find"},
           Onward(t, e, first)
    PROVE  /\ TickType' /\ Others(t) /\ Equipped(tick'[t]) /\ tick'[t].age = e.age
           /\ tick'[t].pc \in {first, "close"}
<1>1. first \in Step \ {"close"}
  BY DEF Step, Exporting, Finishing
<1>2. /\ TickType' /\ Others(t) /\ tick'[t].age = e.age /\ tick'[t].pc \in {first, "close"}
      /\ tick'[t].pc = first => tick'[t].r \in Resources
  BY <1>1, OnwardStep
<1> QED
  BY <1>2 DEF Equipped, Exporting, Finishing, Parts

LEMMA BusyType ==
    ASSUME TypeInv, NEW t \in Ticks, Busy(t)
    PROVE  TypeInv' /\ Coarse(t) /\ Stays(t)
<1>1. tick[t] \in Tick /\ TickType /\ tick[t].pc = "busy"
  BY TypeFacts DEF Busy
<1>2. /\ TickType' /\ Others(t) /\ Equipped(tick'[t]) /\ tick'[t].age = tick[t].age
      /\ tick'[t].pc \in {"return", "look", "close"}
  <2>1. CASE Goto(t, tick[t], "return")
    BY <1>1, <2>1, GotoStep DEF Step, Equipped, Exporting, Finishing, Parts
  <2>2. CASE Onward(t, [tick[t] EXCEPT !.todo = Resources, !.batch = NoBatch], "look")
    <3> DEFINE x == [tick[t] EXCEPT !.todo = Resources, !.batch = NoBatch]
    <3>1. NoBatch \in Batch
      BY OffTick, TickFields DEF Off
    <3>2. x \in Tick /\ x.age = tick[t].age
      BY <1>1, <3>1 DEF Tick
    <3>3. Onward(t, x, "look")
      BY <2>2
    <3> HIDE DEF x
    <3> QED
      BY <1>1, <3>2, <3>3, OnwardEquipped
  <2> QED
    BY <2>1, <2>2 DEF Busy
<1>3. tick' \in [Ticks -> Tick] /\ \A u \in Ticks : Equipped(tick'[u])
  BY <1>2, TickTyped
<1>4. TypeInv'
  BY <1>3 DEF TypeInv, TypeOK, Busy, rows
<1> QED
  BY <1>1, <1>2, <1>4 DEF Busy, Coarse, Stays, Idling

LEMMA LookType ==
    ASSUME TypeInv, NEW t \in Ticks, Look(t)
    PROVE  TypeInv' /\ Coarse(t) /\ Stays(t)
<1>1. tick[t] \in Tick /\ TickType /\ tick[t].pc = "look" /\ tick[t].r \in Resources
  BY TypeFacts DEF Look, Equipped
<1>2. PICK s \in Source \cup {Unavailable} : Goto(t, [tick[t] EXCEPT !.snap = s], "choose")
  BY <1>1, TypeFacts DEF Look
<1> DEFINE x == [tick[t] EXCEPT !.snap = s]
<1>3. x \in Tick /\ x.age = tick[t].age /\ x.r = tick[t].r
  BY <1>1 DEF Tick
<1>4. Goto(t, x, "choose")
  BY <1>2
<1> HIDE DEF x
<1>5. /\ TickType' /\ Others(t) /\ Equipped(tick'[t]) /\ tick'[t].age = tick[t].age
      /\ tick'[t].pc = "choose"
  BY <1>1, <1>3, <1>4, GotoStep DEF Step, Equipped, Exporting, Finishing, Parts
<1>6. tick' \in [Ticks -> Tick] /\ \A u \in Ticks : Equipped(tick'[u])
  BY <1>5, TickTyped
<1>7. spent' \in [edits: Nat, notes: Nat, externals: Nat, faults: Nat]
  BY DEF Look, Fault, Spend, TypeInv, TypeOK
<1>8. TypeInv'
  BY <1>6, <1>7 DEF TypeInv, TypeOK, Look, rows
<1> QED
  BY <1>1, <1>5, <1>8 DEF Look, Coarse, Stays, Idling

LEMMA ChooseType ==
    ASSUME TypeInv, NEW t \in Ticks, Choose(t)
    PROVE  TypeInv' /\ Coarse(t) /\ Stays(t)
<1> DEFINE r == tick[t].r
<1>1. tick[t] \in Tick /\ TickType /\ tick[t].pc = "choose" /\ r \in Resources /\ RowsType
  BY TypeFacts DEF Choose, Equipped
<1>2. RowsType'
  <2>1. CASE UNCHANGED rows
    BY <1>1, <2>1 DEF rows, RowsType
  <2>2. ASSUME NEW rev \in {tick[t].snap, NoRevision}, RequestIndexResource(r, rev),
               rev = tick[t].snap => Readable(tick[t].snap)
        PROVE  RowsType'
    <3>1. rev \in Revision
      BY <1>1, <2>2, TickFields, RevisionValues
    <3> QED
      BY <1>1, <2>2, <3>1, RequestStep
  <2>3. tick[t].snap = NoRevision => ~Readable(tick[t].snap)
    BY RevisionValues
  <2>4. CASE RequestIndexResource(r, NoRevision)
    BY <1>1, <2>4, RequestStep, RevisionValues
  <2>5. CASE Readable(tick[t].snap) /\ RequestIndexResource(r, tick[t].snap)
    BY <2>2, <2>5
  <2> QED
    BY <2>1, <2>4, <2>5 DEF Choose
<1>3. PICK m \in {NewMember, NoMember} : Onward(t, [tick[t] EXCEPT !.batch[r] = m], "look")
  BY DEF Choose
<1> DEFINE x == [tick[t] EXCEPT !.batch[r] = m]
<1>4. x \in Tick /\ x.age = tick[t].age
  <2>1. tick[t].batch \in Batch /\ tick[t].seen \in Job
    BY <1>1, TickFields
  <2>2. [tick[t].batch EXCEPT ![r] = m] \in Batch
    BY <1>1, <2>1, BatchMoves
  <2>3. x = [tick[t] EXCEPT !.batch = [tick[t].batch EXCEPT ![r] = m]]
    OBVIOUS
  <2> QED
    BY <1>1, <2>2, <2>3 DEF Tick
<1>5. Onward(t, x, "look")
  BY <1>3
<1> HIDE DEF x
<1>6. /\ TickType' /\ Others(t) /\ Equipped(tick'[t]) /\ tick'[t].age = tick[t].age
      /\ tick'[t].pc \in {"look", "close"}
  BY <1>1, <1>4, <1>5, OnwardEquipped
<1>7. tick' \in [Ticks -> Tick] /\ \A u \in Ticks : Equipped(tick'[u])
  BY <1>6, TickTyped
<1>8. TypeInv'
  BY <1>2, <1>7 DEF TypeInv, TypeOK, Choose, RowsType
<1> QED
  BY <1>1, <1>6, <1>8 DEF Choose, Coarse, Stays, Idling

LEMMA CloseReconcileType ==
    ASSUME TypeInv, NEW t \in Ticks, CloseReconcile(t)
    PROVE  TypeInv' /\ Coarse(t)
<1>1. tick[t] \in Tick /\ TickType /\ tick[t].pc = "close" /\ control \in Control
  BY TypeFacts DEF CloseReconcile
<1>b. NoBatch \in Batch /\ tick[t].batch \in Batch /\ Live(tick[t].batch) \subseteq Resources
  BY <1>1, OffTick, TickFields DEF Off, Live
<1>2. control' \in Control /\ control'.owner = control.owner /\ control'.lease = control.lease
  <2>1. CASE control' = [control EXCEPT !.batch = NoBatch]
    BY <1>1, <1>b, <2>1 DEF Control
  <2>2. CASE control' = [control EXCEPT !.batch = tick[t].batch, !.phase = "EXPORTING"]
    BY <1>1, <1>b, <2>2 DEF Control
  <2> QED
    BY <2>1, <2>2 DEF CloseReconcile, SaveIndexControl
<1>3. /\ TickType' /\ Others(t) /\ Equipped(tick'[t]) /\ tick'[t].age = tick[t].age
  <2>1. CASE Goto(t, tick[t], "return")
    BY <1>1, <2>1, GotoStep DEF Step, Equipped, Exporting, Finishing, Parts
  <2>2. CASE Onward(t, [tick[t] EXCEPT !.todo = Live(tick[t].batch)], "take")
    <3> DEFINE x == [tick[t] EXCEPT !.todo = Live(tick[t].batch)]
    <3>1. x \in Tick /\ x.age = tick[t].age
      BY <1>1, <1>b DEF Tick
    <3>2. Onward(t, x, "take")
      BY <2>2
    <3> HIDE DEF x
    <3> QED
      BY <1>1, <3>1, <3>2, OnwardEquipped
  <2> QED
    BY <2>1, <2>2 DEF CloseReconcile
<1>4. tick' \in [Ticks -> Tick] /\ \A u \in Ticks : Equipped(tick'[u])
  BY <1>3, TickTyped
<1>5. TypeInv'
  BY <1>2, <1>4 DEF TypeInv, TypeOK, CloseReconcile, rows
<1> QED
  BY <1>1, <1>2, <1>3, <1>5 DEF CloseReconcile, Coarse

LEMMA CloseExportType ==
    ASSUME TypeInv, NEW t \in Ticks, CloseExport(t)
    PROVE  TypeInv' /\ Coarse(t)
<1>1. tick[t] \in Tick /\ TickType /\ tick[t].pc = "close" /\ control \in Control
      /\ tick[t].batch \in Batch
  BY TypeFacts, TickFields DEF CloseExport
<1>2. control' \in Control /\ control'.owner = control.owner /\ control'.lease = control.lease
  <2>1. CASE control' = [control EXCEPT !.batch = tick[t].batch]
    BY <1>1, <2>1 DEF Control
  <2>2. CASE control' = [control EXCEPT !.batch = tick[t].batch, !.phase = "PREPARED"]
    BY <1>1, <2>2 DEF Control
  <2> QED
    BY <2>1, <2>2 DEF CloseExport, SaveIndexControl
<1>3. /\ TickType' /\ Others(t) /\ Equipped(tick'[t]) /\ tick'[t].age = tick[t].age
  <2>1. \E pc \in {"return", "start"} : Goto(t, tick[t], pc)
    BY DEF CloseExport
  <2> QED
    BY <1>1, <2>1, GotoStep DEF Step, Equipped, Exporting, Finishing, Parts
<1>4. tick' \in [Ticks -> Tick] /\ \A u \in Ticks : Equipped(tick'[u])
  BY <1>3, TickTyped
<1>5. sync' \in [ours: {"none", "running", "complete", "failed"}, external: BOOLEAN,
                 seen: [Resources -> SUBSET (Key \X Parts)]]
  BY DEF CloseExport, TypeInv, TypeOK
<1>6. TypeInv'
  BY <1>2, <1>4, <1>5 DEF TypeInv, TypeOK, CloseExport, rows
<1> QED
  BY <1>1, <1>2, <1>3, <1>6 DEF CloseExport, Coarse

LEMMA CloseFinalType ==
    ASSUME TypeInv, NEW t \in Ticks, CloseFinal(t)
    PROVE  TypeInv' /\ Coarse(t)
<1>1. tick[t] \in Tick /\ TickType /\ tick[t].pc = "close" /\ control \in Control
      /\ tick[t].batch \in Batch /\ NoBatch \in Batch
  BY TypeFacts, TickFields, OffTick DEF CloseFinal, Off
<1>2. control' \in Control /\ control'.owner = control.owner /\ control'.lease = control.lease
  <2>1. CASE control' = [control EXCEPT !.batch = tick[t].batch]
    BY <1>1, <2>1 DEF Control
  <2>2. CASE control' = [control EXCEPT !.batch = NoBatch, !.phase = "IDLE", !.succeeded = FALSE]
    BY <1>1, <2>2 DEF Control
  <2> QED
    BY <2>1, <2>2 DEF CloseFinal, SaveIndexControl
<1>3. /\ TickType' /\ Others(t) /\ Equipped(tick'[t]) /\ tick'[t].age = tick[t].age
  BY <1>1, GotoStep DEF CloseFinal, Step, Equipped, Exporting, Finishing, Parts
<1>4. tick' \in [Ticks -> Tick] /\ \A u \in Ticks : Equipped(tick'[u])
  BY <1>3, TickTyped
<1>5. TypeInv'
  BY <1>2, <1>4 DEF TypeInv, TypeOK, CloseFinal, rows
<1> QED
  BY <1>1, <1>2, <1>3, <1>5 DEF CloseFinal, Coarse

-----------------------------------------------------------------------------
(* What the actions on one member do. *)

OtherMembers(b, c, r) == \A q \in Resources : q # r => b[q] = c[q]

\* The tick goes on to another member, and writes m for this one.
Moves(t, r, first) ==
    /\ TickType' /\ Others(t) /\ Equipped(tick'[t]) /\ Fresh(tick'[t])
    /\ tick'[t].age = tick[t].age /\ tick'[t].pc \in {first, "close"}
    /\ OtherMembers(tick'[t].batch, tick[t].batch, r)

LEMMA OnwardMember ==
    ASSUME TickType, NEW t \in Ticks, NEW r \in Resources, NEW m \in Member,
           NEW first \in {"look", "take", "find"},
           Onward(t, [tick[t] EXCEPT !.batch[r] = m], first)
    PROVE  Moves(t, r, first) /\ tick'[t].batch[r] = m
<1>1. tick[t] \in Tick /\ tick[t].batch \in Batch
  BY TickFields DEF TickType
<1> DEFINE b == [tick[t].batch EXCEPT ![r] = m]
           y == [tick[t] EXCEPT !.batch = b]
<1>2. b \in Batch /\ b[r] = m /\ OtherMembers(b, tick[t].batch, r)
  BY <1>1 DEF Batch, OtherMembers
<1>3. first \in Step \ {"close"}
  BY DEF Step, Exporting, Finishing
<1>4. Onward(t, y, first)
  OBVIOUS
<1>5. y \in Tick /\ y.age = tick[t].age /\ y.batch = b
  BY <1>1, <1>2 DEF Tick
<1> HIDE DEF y, b
<1>6. TickType' /\ Others(t) /\ Equipped(tick'[t]) /\ tick'[t].age = y.age
  BY <1>4, <1>5, OnwardEquipped
<1>7. tick'[t].pc \in {first, "close"} /\ tick'[t].batch = y.batch /\ Fresh(tick'[t])
  BY <1>3, <1>4, <1>5, OnwardStep
<1> QED
  BY <1>2, <1>5, <1>6, <1>7 DEF Moves

LEMMA OnwardCounting ==
    ASSUME TickType, NEW t \in Ticks, NEW r \in Resources, NEW m \in Member, NEW y \in Tick,
           NEW first \in {"look", "take", "find"}, Onward(t, y, first),
           y.age = tick[t].age, y.batch = [tick[t].batch EXCEPT ![r] = m]
    PROVE  Moves(t, r, first) /\ tick'[t].batch[r] = m
<1>1. tick[t] \in Tick /\ tick[t].batch \in Batch
  BY TickFields DEF TickType
<1>2. y.batch[r] = m /\ OtherMembers(y.batch, tick[t].batch, r)
  BY <1>1 DEF Batch, OtherMembers
<1>3. first \in Step \ {"close"}
  BY DEF Step, Exporting, Finishing
<1>4. TickType' /\ Others(t) /\ Equipped(tick'[t]) /\ tick'[t].age = y.age
  BY OnwardEquipped
<1>5. tick'[t].pc \in {first, "close"} /\ tick'[t].batch = y.batch /\ Fresh(tick'[t])
  BY <1>3, OnwardStep
<1> QED
  BY <1>2, <1>4, <1>5 DEF Moves

\* The tick goes on with the same member and the same batch.
Holds(t) ==
    /\ TickType' /\ Others(t) /\ tick'[t].age = tick[t].age /\ tick'[t].r = tick[t].r
    /\ tick'[t].batch = tick[t].batch

MemberRun(x, r, run) == x.batch[r].run = run

\* ... and with what it holds of it.
Keeps(t) ==
    /\ Holds(t) /\ tick'[t].seen = tick[t].seen /\ tick'[t].snap = tick[t].snap
    /\ tick'[t].mode = tick[t].mode

\* The tick read the row as it is, and writes it.
Fenced(t, r) ==
    /\ Unchanged(tick[t]) /\ RowsType' /\ OtherJobs(r)
Unwritten == UNCHANGED rows /\ RowsType'

LEMMA KeepsStep ==
    ASSUME TypeInv, NEW t \in Ticks, NEW pc \in Step, Goto(t, tick[t], pc)
    PROVE  Keeps(t) /\ tick'[t].pc = pc
  BY TypeFacts, GotoStep DEF Keeps, Holds

LEMMA UnwrittenStep ==
    ASSUME TypeInv, UNCHANGED rows
    PROVE  RowsType'
  BY DEF rows, RowsType, TypeInv, TypeOK

\* Take reads the row.
TakeEffect(t, r) ==
    /\ Unwritten
    /\ \/ /\ Moves(t, r, "take")
          /\ \/ MemberRun(tick'[t], r, 0)
             \/ /\ job[r].state = "WAITING_SYNC" /\ MemberRun(tick'[t], r, job[r].run)
                /\ tick'[t].batch[r].rev = job[r].rev
       \/ Holds(t) /\ tick'[t].pc = "return"
       \/ /\ Holds(t) /\ tick'[t].seen = job[r] /\ tick'[t].pc = "begin"
          /\ tick'[t].mode = tick[t].mode

LEMMA TakeMoves ==
    ASSUME TypeInv, NEW t \in Ticks, Take(t)
    PROVE  TakeEffect(t, tick[t].r) /\ tick[t].r \in Resources
<1> DEFINE e == tick[t]
           r == e.r
           j == job[r]
           y == [e EXCEPT !.seen = j]
<1>1. e \in Tick /\ TickType /\ e.pc = "take" /\ r \in Resources /\ j \in Job
  BY TypeFacts DEF Take, Equipped, Exporting, RowsType
<1>2. Unwritten
  BY UnwrittenStep DEF Take, Unwritten
<1>3. CASE Onward(t, [e EXCEPT !.batch[r] = Detached], "take")
  <2>1. Detached \in Member /\ Detached.run = 0
    BY RevisionValues DEF Detached, NoMember, Member
  <2>2. Moves(t, r, "take") /\ tick'[t].batch[r] = Detached
    BY <1>1, <1>3, <2>1, OnwardMember
  <2> QED
    BY <1>1, <1>2, <2>1, <2>2 DEF TakeEffect, MemberRun
<1>4. CASE j.state = "WAITING_SYNC" /\ Onward(t, [e EXCEPT !.batch[r] = MemberOf(j)], "take")
  <2>1. MemberOf(j) \in Member /\ MemberOf(j).run = j.run /\ MemberOf(j).rev = j.rev
    BY <1>1, JobFields DEF MemberOf, Member, NewMember, NoMember
  <2>2. Moves(t, r, "take") /\ tick'[t].batch[r] = MemberOf(j)
    BY <1>1, <1>4, <2>1, OnwardMember
  <2> QED
    BY <1>1, <1>2, <1>4, <2>1, <2>2 DEF TakeEffect, MemberRun
<1>5. CASE Goto(t, e, "return")
  <2>1. Holds(t) /\ tick'[t].pc = "return"
    BY <1>1, <1>5, GotoStep DEF Holds, Step
  <2> QED
    BY <1>1, <1>2, <2>1 DEF TakeEffect
<1>6. CASE Goto(t, y, "begin")
  <2>1. y \in Tick /\ y.age = e.age /\ y.r = r /\ y.batch = e.batch /\ y.seen = j /\ y.mode = e.mode
    BY <1>1 DEF Tick
  <2>2. "begin" \in Step
    BY DEF Step, Exporting
  <2> HIDE DEF y
  <2>3. Holds(t) /\ tick'[t].seen = j /\ tick'[t].pc = "begin" /\ tick'[t].mode = e.mode
    BY <1>1, <1>6, <2>1, <2>2, GotoStep DEF Holds
  <2> QED
    BY <1>1, <1>2, <2>3 DEF TakeEffect
<1> QED
  BY <1>3, <1>4, <1>5, <1>6 DEF Take

\* Begin prepares the row it read under a run nobody knows, unless it is another by now.
BeginEffect(t, r) ==
    \/ /\ RowsType' /\ OtherJobs(r) /\ job[r] = tick[t].seen
       /\ job'[r].state = "PREPARING" /\ job'[r].run \in Runs \ InUse(r)
       /\ job'[r].keys = job[r].keys /\ job'[r].removed = job[r].removed
       /\ Holds(t) /\ tick'[t].seen = job'[r] /\ tick'[t].pc \in {"read", "retry", "defer"}
       /\ tick'[t].mode = tick[t].mode
    \/ /\ Unwritten /\ Keeps(t) /\ tick'[t].pc = "defer"
       /\ job[r] # tick[t].seen \/ job[r].state = "PREPARING"

LEMMA BeginMoves ==
    ASSUME TypeInv, NEW t \in Ticks, Begin(t)
    PROVE  BeginEffect(t, tick[t].r) /\ tick[t].r \in Resources
<1> DEFINE e == tick[t]
           r == e.r
           next == [e.seen EXCEPT !.state = "PREPARING", !.run = NewRun(r)]
<1>1. /\ e \in Tick /\ TickType /\ e.pc = "begin" /\ r \in Resources /\ RowsType
      /\ e.seen \in Job
  BY TypeFacts, TickFields DEF Begin, Equipped, Exporting, RowsType
<1>2. CASE /\ job[r] = e.seen /\ Runs \ InUse(r) # {} /\ SaveIndexJob(r, next)
           /\ jobLease' = [jobLease EXCEPT ![r] = Lease] /\ UNCHANGED cooling
           /\ Written(t, [e EXCEPT !.seen = next], "read")
  <2>1. NewRun(r) \in Runs \ InUse(r)
    BY <1>2 DEF NewRun
  <2>2. /\ next \in Job /\ next.state = "PREPARING" /\ next.run \in Runs \ InUse(r)
        /\ next.keys = e.seen.keys /\ next.removed = e.seen.removed
    BY <1>1, <2>1 DEF Job
  <2> DEFINE x == [e EXCEPT !.seen = next]
  <2>3. Written(t, x, "read") /\ SaveIndexJob(r, next)
    BY <1>2
  <2> HIDE DEF next
  <2>4. /\ x \in Tick /\ x.pc = "begin" /\ x.age = e.age /\ x.r = r /\ x.batch = e.batch
        /\ x.seen = next /\ x.mode = e.mode
    BY <1>1, <2>2 DEF Tick
  <2> HIDE DEF x
  <2>5. OnError(x) = "retry" /\ "read" \in Step
    BY <2>4 DEF OnError, Step, Exporting
  <2>6. Holds(t) /\ tick'[t].seen = next /\ tick'[t].pc \in {"read", "retry", "defer"}
        /\ tick'[t].mode = e.mode
    BY <1>1, <2>3, <2>4, <2>5, WrittenStep DEF Holds
  <2>7. job' \in [Resources -> Job] /\ job'[r] = next /\ OtherJobs(r)
    BY <1>1, <2>2, <2>3, SaveStep
  <2>8. Lease \in 0 .. Lease
    BY DurationAssumption
  <2>9. jobLease' \in [Resources -> 0 .. Lease] /\ cooling' \in [Resources -> BOOLEAN]
    BY <1>1, <1>2, <2>8 DEF RowsType
  <2>10. RowsType'
    BY <2>7, <2>9 DEF RowsType
  <2> QED
    BY <1>1, <1>2, <2>2, <2>6, <2>7, <2>10 DEF BeginEffect
<1>3. CASE /\ ~(job[r] = e.seen /\ (e.seen.state = "PREPARING" => jobLease[r] = 0))
           /\ Goto(t, e, "defer") /\ UNCHANGED rows
  <2>1. "defer" \in Step
    BY DEF Step, Exporting
  <2>2. Unwritten /\ Keeps(t) /\ tick'[t].pc = "defer"
    BY <1>3, <2>1, KeepsStep, UnwrittenStep DEF Unwritten
  <2>3. job[r] # e.seen \/ job[r].state = "PREPARING"
    BY <1>3
  <2> QED
    BY <1>1, <2>2, <2>3 DEF BeginEffect
<1> QED
  BY <1>2, <1>3 DEF Begin

ReadEffect(t, r) ==
    /\ Holds(t) /\ tick'[t].seen = tick[t].seen /\ tick'[t].snap = source[r]
    /\ \/ tick'[t].pc = "plan" /\ Readable(source[r]) /\ tick'[t].mode = tick[t].mode
       \/ tick'[t].pc = "track" /\ tick'[t].mode = "purge"

LEMMA ReadMoves ==
    ASSUME TypeInv, NEW t \in Ticks, ReadSource(t)
    PROVE  ReadEffect(t, tick[t].r) /\ tick[t].r \in Resources
<1> DEFINE r == tick[t].r
           y == [tick[t] EXCEPT !.snap = source[r]]
           z == [y EXCEPT !.mode = "purge"]
<1>1. /\ tick[t] \in Tick /\ TickType /\ r \in Resources /\ source[r] \in Source
  BY TypeFacts DEF ReadSource, Equipped, Exporting
<1>2. /\ y \in Tick /\ y.age = tick[t].age /\ y.r = r /\ y.batch = tick[t].batch
      /\ y.seen = tick[t].seen /\ y.snap = source[r] /\ y.mode = tick[t].mode
  BY <1>1 DEF Tick
<1>3. /\ z \in Tick /\ z.age = tick[t].age /\ z.r = r /\ z.batch = tick[t].batch
      /\ z.seen = tick[t].seen /\ z.snap = source[r] /\ z.mode = "purge"
  BY <1>1 DEF Tick
<1>4. \/ Readable(y.snap) /\ Goto(t, y, "plan")
      \/ Goto(t, z, "track")
  BY DEF ReadSource
<1>5. {"plan", "track"} \subseteq Step
  BY DEF Step, Exporting
<1> HIDE DEF y, z
<1>6. CASE Readable(y.snap) /\ Goto(t, y, "plan")
  BY <1>1, <1>2, <1>5, <1>6, GotoStep DEF ReadEffect, Holds
<1>7. CASE Goto(t, z, "track")
  BY <1>1, <1>3, <1>5, <1>7, GotoStep DEF ReadEffect, Holds
<1> QED
  BY <1>1, <1>4, <1>6, <1>7

\* The projection of a source under a run.
KeysOf(rev, run) == IF rev.kind = "INDEXED" THEN {[run |-> run, rev |-> rev]} ELSE {}

LEMMA KeysOfType ==
    ASSUME NEW rev \in Revision, NEW run \in Runs \cup {0}
    PROVE  KeysOf(rev, run) \in SUBSET Key
  BY DEF KeysOf, Key

PlanEffect(t, r) ==
    \/ Keeps(t) /\ Unwritten /\ tick'[t].pc = "defer"
    \/ /\ Fenced(t, r) /\ Holds(t) /\ tick'[t].seen = job'[r] /\ tick'[t].snap = tick[t].snap
       /\ tick'[t].mode = tick[t].mode
       /\ job'[r].state = job[r].state /\ job'[r].keys = job[r].keys
       /\ job'[r].removed = job[r].removed /\ job'[r].run = job[r].run
       /\ job'[r].rev = tick[t].snap /\ job'[r].pending = KeysOf(tick[t].snap, job[r].run)
       /\ \/ tick'[t].pc = "retry"
          \/ tick'[t].pc = "sidecar" /\ tick[t].snap.kind = "INDEXED"
          \/ tick'[t].pc = "verify" /\ job'[r].pending = {}

LEMMA PlanMoves ==
    ASSUME TypeInv, NEW t \in Ticks, Plan(t)
    PROVE  PlanEffect(t, tick[t].r) /\ tick[t].r \in Resources
<1> DEFINE e == tick[t]
           r == e.r
           keys == KeysOf(e.snap, e.seen.run)
           next == [e.seen EXCEPT !.pending = keys, !.rev = e.snap, !.desired = e.snap]
           y == [e EXCEPT !.seen = next]
<1>1. e \in Tick /\ TickType /\ e.pc = "plan" /\ r \in Resources /\ RowsType /\ e.seen \in Job
      /\ Readable(e.snap)
  BY TypeFacts, TickFields DEF Plan, Equipped, Exporting
<1>2. e.snap \in Revision
  BY <1>1, TickFields, RevisionValues
<1>3. CASE Goto(t, e, "defer") /\ UNCHANGED rows
  <2>1. "defer" \in Step
    BY DEF Step, Exporting
  <2> QED
    BY <1>1, <1>3, <2>1, KeepsStep, UnwrittenStep DEF PlanEffect, Unwritten
<1>4. CASE /\ Unchanged(e) /\ SaveIndexJob(r, next) /\ UNCHANGED <<jobLease, cooling>>
           /\ Written(t, y, IF keys = {} THEN "verify" ELSE "sidecar")
  <2>1. keys \in SUBSET Key /\ (keys # {} => e.snap.kind = "INDEXED")
    BY <1>1, <1>2, KeysOfType, JobFields DEF KeysOf
  <2>2. /\ next \in Job /\ next.state = e.seen.state /\ next.keys = e.seen.keys
        /\ next.removed = e.seen.removed /\ next.run = e.seen.run /\ next.rev = e.snap
        /\ next.pending = keys
    <3> HIDE DEF keys
    <3> QED
      BY <1>1, <1>2, <2>1 DEF Job
  <2>3. SaveIndexJob(r, next) /\ job[r] = e.seen
    BY <1>4 DEF Unchanged
  <2>4. PICK pc \in {"verify", "sidecar"} :
           /\ Written(t, y, pc)
           /\ pc = "sidecar" => e.snap.kind = "INDEXED"
           /\ pc = "verify" => keys = {}
    BY <1>4, <2>1
  <2> HIDE DEF next
  <2>5. /\ y \in Tick /\ y.pc = "plan" /\ y.age = e.age /\ y.r = r /\ y.batch = e.batch
        /\ y.seen = next /\ y.snap = e.snap /\ y.mode = e.mode
    BY <1>1, <2>2 DEF Tick
  <2> HIDE DEF y
  <2>6. OnError(y) = "retry" /\ pc \in Step
    BY <2>5 DEF OnError, Step, Exporting
  <2>7. Holds(t) /\ tick'[t].seen = next /\ tick'[t].pc \in {pc, "retry"}
        /\ tick'[t].mode = e.mode /\ tick'[t].snap = e.snap
    BY <1>1, <2>4, <2>5, <2>6, WrittenStep DEF Holds
  <2>8. job' \in [Resources -> Job] /\ job'[r] = next /\ OtherJobs(r)
    BY <1>1, <2>2, <2>3, SaveStep
  <2>9. RowsType'
    BY <1>1, <1>4, <2>8 DEF RowsType
  <2> HIDE DEF keys
  <2>10. job'[r].pending = KeysOf(e.snap, job[r].run)
    BY <2>2, <2>3, <2>8 DEF keys
  <2> QED
    BY <1>1, <1>4, <2>2, <2>3, <2>4, <2>7, <2>8, <2>9, <2>10 DEF PlanEffect, Fenced
<1> QED
  BY <1>1, <1>3, <1>4 DEF Plan, KeysOf

VerifyEffect(t) == Keeps(t) /\ tick'[t].pc \in {"retry", "defer", "track"}

LEMMA VerifyMoves ==
    ASSUME TypeInv, NEW t \in Ticks, Verify(t)
    PROVE  VerifyEffect(t) /\ tick[t].r \in Resources
<1>1. tick[t].r \in Resources
  BY TypeFacts DEF Verify, Equipped, Exporting
<1>2. PICK pc \in {"retry", "defer", "track"} : Goto(t, tick[t], pc)
  BY DEF Verify
<1>3. pc \in Step
  BY DEF Step, Exporting
<1> QED
  BY <1>1, <1>2, <1>3, KeepsStep DEF VerifyEffect

TrackEffect(t, r) ==
    \/ /\ Keeps(t) /\ Unwritten
       /\ tick'[t].pc = "return" \/ (tick'[t].pc = "defer" /\ tick[t].mode # "defer")
    \/ /\ Fenced(t, r) /\ Holds(t) /\ tick'[t].seen = job'[r] /\ tick'[t].snap = tick[t].snap
       /\ tick'[t].mode = tick[t].mode
       /\ job'[r].state = job[r].state /\ job'[r].run = job[r].run /\ job'[r].rev = job[r].rev
       /\ job'[r].keys = (IF tick[t].mode = "publish" THEN job[r].pending ELSE {})
       /\ job'[r].removed = Removed(r, job[r], job'[r].keys)
       /\ \/ tick'[t].pc \in {"sweep", "retry", "return"}
          \/ tick'[t].pc = "defer" /\ tick[t].mode # "defer"

LEMMA DataType ==
    ASSUME TypeInv, NEW r \in Resources
    PROVE  Data(r) \in SUBSET Key
  BY DEF TypeInv, TypeOK, Data

LEMMA LegacyKey == Legacy \in Key
  BY RevisionValues DEF Legacy, Key

LEMMA TrackMoves ==
    ASSUME TypeInv, NEW t \in Ticks, Track(t)
    PROVE  TrackEffect(t, tick[t].r) /\ tick[t].r \in Resources
<1> DEFINE e == tick[t]
           r == e.r
           keep == IF e.mode = "publish" THEN e.seen.pending ELSE {}
           gone == Removed(r, e.seen, keep)
           next == [e.seen EXCEPT !.keys = keep, !.pending = {}, !.removed = gone]
           y == [e EXCEPT !.seen = next]
<1>1. e \in Tick /\ TickType /\ e.pc = "track" /\ r \in Resources /\ RowsType /\ e.seen \in Job
  BY TypeFacts, TickFields DEF Track, Equipped, Exporting
<1>2. keep \in SUBSET Key /\ gone \in SUBSET Key
  BY <1>1, DataType, LegacyKey, JobFields DEF Removed
<1>3. CASE \E pc \in {"return", "defer"} :
              Goto(t, e, pc) /\ UNCHANGED rows /\ (pc = "defer" => e.mode # "defer")
  <2>1. {"return", "defer"} \subseteq Step
    BY DEF Step, Exporting
  <2> QED
    BY <1>1, <1>3, <2>1, KeepsStep, UnwrittenStep DEF TrackEffect, Unwritten
<1>4. CASE /\ Unchanged(e) /\ SaveIndexJob(r, next) /\ UNCHANGED <<jobLease, cooling>>
           /\ Written(t, y, "sweep")
  <2>1. SaveIndexJob(r, next) /\ Written(t, y, "sweep") /\ job[r] = e.seen
    BY <1>4 DEF Unchanged
  <2> HIDE DEF keep, gone
  <2>2. /\ next \in Job /\ next.state = e.seen.state /\ next.run = e.seen.run
        /\ next.rev = e.seen.rev /\ next.keys = keep /\ next.removed = gone
    BY <1>1, <1>2 DEF Job
  <2> HIDE DEF next
  <2>3. /\ y \in Tick /\ y.pc = "track" /\ y.age = e.age /\ y.r = r /\ y.batch = e.batch
        /\ y.seen = next /\ y.snap = e.snap /\ y.mode = e.mode
    BY <1>1, <2>2 DEF Tick
  <2> HIDE DEF y
  <2>4. OnError(y) \in {"retry", "return"} /\ "sweep" \in Step
    BY <2>3 DEF OnError, Step, Exporting
  <2>5. /\ Holds(t) /\ tick'[t].seen = next /\ tick'[t].mode = e.mode /\ tick'[t].snap = e.snap
        /\ tick'[t].pc \in {"sweep", "retry", "return"}
           \/ (tick'[t].pc = "defer" /\ e.mode # "defer")
    BY <1>1, <2>1, <2>3, <2>4, WrittenStep DEF Holds
  <2>6. job' \in [Resources -> Job] /\ job'[r] = next /\ OtherJobs(r)
    BY <1>1, <2>1, <2>2, SaveStep
  <2>7. RowsType'
    BY <1>1, <1>4, <2>6 DEF RowsType
  <2>8. job'[r].removed = Removed(r, job[r], job'[r].keys)
    BY <2>1, <2>2, <2>6 DEF gone
  <2>9. job'[r].keys = (IF e.mode = "publish" THEN job[r].pending ELSE {})
    BY <2>1, <2>2, <2>6 DEF keep
  <2> QED
    BY <1>1, <1>4, <2>1, <2>2, <2>5, <2>6, <2>7, <2>8, <2>9 DEF TrackEffect, Fenced
<1> QED
  BY <1>1, <1>3, <1>4 DEF Track

\* One object more or less of one resource.
OtherStores(r) == \A q \in Resources : q # r => store'[q] = store[q]
StoreType == store \in [Resources -> SUBSET (Key \X Parts)]

PutEffect(t, r) ==
    \E k \in tick[t].seen.pending :
        LET o == <<k, tick[t].pc>>
        IN  /\ o \in Key \X Parts /\ StoreType' /\ OtherStores(r) /\ Others(t)
            /\ \/ /\ Keeps(t) /\ store'[r] = store[r] \cup {o} /\ late' = late
                  /\ tick'[t].pc = (IF tick[t].pc = "sidecar" THEN "data" ELSE "verify")
               \/ TickType' /\ tick'[t] = Off /\ store'[r] = store[r] \cup {o} /\ late' = late
               \/ TickType' /\ tick'[t] = Off /\ store' = store
                  /\ late' = late \cup {<<r, k, tick[t].pc>>}

LEMMA PutMoves ==
    ASSUME TypeInv, NEW t \in Ticks, Put(t)
    PROVE  PutEffect(t, tick[t].r) /\ tick[t].r \in Resources
<1> DEFINE e == tick[t]
           r == e.r
           k == CHOOSE x \in e.seen.pending : TRUE
           o == <<k, e.pc>>
<1>1. /\ e \in Tick /\ TickType /\ e.pc \in Parts /\ r \in Resources /\ e.seen \in Job
      /\ e.seen.pending # {} /\ StoreType
  BY TypeFacts, TickFields DEF Put, Equipped, Exporting, Parts, StoreType
<1>2. k \in e.seen.pending /\ k \in Key /\ o \in Key \X Parts
  BY <1>1, JobFields
<1> HIDE DEF k
<1>3. store' = [store EXCEPT ![r] = @ \cup {o}] =>
         StoreType' /\ store'[r] = store[r] \cup {o} /\ OtherStores(r)
  <2> SUFFICES ASSUME store' = [store EXCEPT ![r] = @ \cup {o}]
               PROVE  StoreType' /\ store'[r] = store[r] \cup {o} /\ OtherStores(r)
    OBVIOUS
  <2>1. store[r] \cup {o} \in SUBSET (Key \X Parts)
    BY <1>1, <1>2 DEF StoreType
  <2> HIDE DEF o
  <2> QED
    BY <1>1, <2>1 DEF StoreType, OtherStores
<1>4. CASE /\ store' = [store EXCEPT ![r] = @ \cup {o}] /\ late' = late
           /\ Goto(t, e, IF e.pc = "sidecar" THEN "data" ELSE "verify")
  <2>1. (IF e.pc = "sidecar" THEN "data" ELSE "verify") \in Step
    BY DEF Step, Exporting
  <2>2. Keeps(t) /\ tick'[t].pc = (IF e.pc = "sidecar" THEN "data" ELSE "verify") /\ Others(t)
    BY <1>1, <1>4, <2>1, KeepsStep DEF Keeps, Holds
  <2> QED
    BY <1>1, <1>2, <1>3, <1>4, <2>2 DEF PutEffect
<1>5. ASSUME tick' = [tick EXCEPT ![t] = Off]
      PROVE  TickType' /\ Others(t) /\ tick'[t] = Off
  BY <1>1, <1>5, OffTick DEF TickType, Others
<1>6. CASE /\ tick' = [tick EXCEPT ![t] = Off]
           /\ store' = [store EXCEPT ![r] = @ \cup {o}] /\ late' = late
  BY <1>1, <1>2, <1>3, <1>5, <1>6 DEF PutEffect
<1>7. CASE /\ tick' = [tick EXCEPT ![t] = Off]
           /\ store' = store /\ late' = late \cup {<<r, k, e.pc>>}
  <2>1. StoreType' /\ OtherStores(r)
    BY <1>1, <1>7 DEF StoreType, OtherStores
  <2> QED
    BY <1>1, <1>2, <1>5, <1>7, <2>1 DEF PutEffect
<1> QED
  BY <1>1, <1>4, <1>6, <1>7 DEF Put, k

\* A deletion.
DeleteEffect(r, keep) ==
    /\ StoreType' /\ OtherStores(r)
    /\ \E o \in store[r] : /\ o[1] \notin keep /\ store'[r] = store[r] \ {o}
                           /\ o[2] = "sidecar" => <<o[1], "data">> \notin store[r]

LEMMA DeleteStep ==
    ASSUME TypeInv, NEW r \in Resources, NEW keep, \E o \in store[r] : Delete(r, keep, o)
    PROVE  DeleteEffect(r, keep)
<1>1. PICK o \in store[r] : Delete(r, keep, o)
  OBVIOUS
<1>2. StoreType
  BY DEF StoreType, TypeInv, TypeOK
<1>3. store' = [store EXCEPT ![r] = @ \ {o}]
  BY <1>1 DEF Delete
<1>4. StoreType' /\ OtherStores(r) /\ store'[r] = store[r] \ {o}
  BY <1>2, <1>3 DEF StoreType, OtherStores
<1> QED
  BY <1>1, <1>4 DEF DeleteEffect, Delete

SweepEffect(t, r) ==
    \/ tick' = tick /\ DeleteEffect(r, tick[t].seen.keys)
    \/ /\ store' = store /\ Keeps(t) /\ \A o \in store[r] : o[1] \in tick[t].seen.keys
       /\ tick[t].mode = "publish" => tick'[t].pc = "ready"
       /\ tick[t].mode = "purge" => tick'[t].pc = "fail"
       /\ tick[t].mode = "defer" => tick'[t].pc = "deferred"

LEMMA SweepMoves ==
    ASSUME TypeInv, NEW t \in Ticks, Sweep(t)
    PROVE  SweepEffect(t, tick[t].r) /\ tick[t].r \in Resources
<1>1. tick[t].r \in Resources
  BY TypeFacts DEF Sweep, Equipped, Exporting
<1> DEFINE pc == CASE tick[t].mode = "publish" -> "ready" [] tick[t].mode = "purge" -> "fail"
                   [] OTHER -> "deferred"
<1>2. pc \in Step
  BY DEF Step, Exporting
<1>3. \/ (\E o \in store[tick[t].r] : Delete(tick[t].r, tick[t].seen.keys, o)) /\ tick' = tick
      \/ /\ \A o \in store[tick[t].r] : o[1] \in tick[t].seen.keys
         /\ Goto(t, tick[t], pc) /\ store' = store
  BY DEF Sweep
<1>4. CASE (\E o \in store[tick[t].r] : Delete(tick[t].r, tick[t].seen.keys, o)) /\ tick' = tick
  BY <1>1, <1>4, DeleteStep DEF SweepEffect
<1> HIDE DEF pc
<1>5. CASE /\ \A o \in store[tick[t].r] : o[1] \in tick[t].seen.keys
           /\ Goto(t, tick[t], pc) /\ store' = store
  <2>1. Keeps(t) /\ tick'[t].pc = pc
    BY <1>2, <1>5, KeepsStep
  <2>2. /\ tick[t].mode = "publish" => pc = "ready"
        /\ tick[t].mode = "purge" => pc = "fail"
        /\ tick[t].mode = "defer" => pc = "deferred"
    BY DEF pc
  <2> QED
    BY <1>1, <1>5, <2>1, <2>2 DEF SweepEffect
<1> QED
  BY <1>1, <1>3, <1>4, <1>5

ReadyEffect(t, r) ==
    \/ Keeps(t) /\ Unwritten /\ tick'[t].pc = "defer"
    \/ /\ Fenced(t, r) /\ job'[r].state = "WAITING_SYNC" /\ Same(job'[r], job[r])
       /\ \/ Keeps(t) /\ tick'[t].pc = "retry"
          \/ /\ Moves(t, r, "take") /\ MemberRun(tick'[t], r, job[r].run)
             /\ tick'[t].batch[r].rev = job[r].rev

LEMMA ReadyMoves ==
    ASSUME TypeInv, NEW t \in Ticks, Ready(t)
    PROVE  ReadyEffect(t, tick[t].r) /\ tick[t].r \in Resources
<1> DEFINE e == tick[t]
           r == e.r
           next == [e.seen EXCEPT !.state = "WAITING_SYNC"]
<1>1. e \in Tick /\ TickType /\ e.pc = "ready" /\ r \in Resources /\ RowsType /\ e.seen \in Job
  BY TypeFacts, TickFields DEF Ready, Equipped, Exporting
<1>p. "defer" \in Step /\ "retry" \in Step
  BY DEF Step, Exporting
<1>2. CASE Goto(t, e, "defer") /\ UNCHANGED rows
  BY <1>1, <1>2, <1>p, KeepsStep, UnwrittenStep DEF ReadyEffect, Unwritten
<1>3. CASE /\ Unchanged(e) /\ SaveIndexJob(r, next) /\ jobLease' = [jobLease EXCEPT ![r] = 0]
           /\ UNCHANGED cooling
           /\ \/ Onward(t, [e EXCEPT !.batch[r] = MemberOf(next)], "take")
              \/ Goto(t, e, OnError(e))
  <2>1. next \in Job /\ next.state = "WAITING_SYNC" /\ Same(next, e.seen) /\ job[r] = e.seen
    BY <1>1, <1>3 DEF Job, Same, Unchanged
  <2>2. SaveIndexJob(r, next)
    BY <1>3
  <2> HIDE DEF next
  <2>3. job' \in [Resources -> Job] /\ job'[r] = next /\ OtherJobs(r)
    BY <1>1, <2>1, <2>2, SaveStep
  <2>4. RowsType'
    <3>1. jobLease' = [jobLease EXCEPT ![r] = 0] /\ cooling' = cooling
      BY <1>3
    <3> QED
      BY <1>1, <2>3, <3>1 DEF RowsType
  <2>5. CASE Onward(t, [e EXCEPT !.batch[r] = MemberOf(next)], "take")
    <3>1. MemberOf(next) \in Member /\ MemberOf(next).run = next.run /\ MemberOf(next).rev = next.rev
      BY <2>1, JobFields DEF MemberOf, Member, NewMember, NoMember
    <3>2. Moves(t, r, "take") /\ tick'[t].batch[r] = MemberOf(next)
      BY <1>1, <2>5, <3>1, OnwardMember
    <3> QED
      BY <1>1, <1>3, <2>1, <2>3, <2>4, <3>1, <3>2 DEF ReadyEffect, Fenced, MemberRun, Same
  <2>6. CASE Goto(t, e, OnError(e))
    <3>1. OnError(e) = "retry"
      BY <1>1 DEF OnError
    <3>2. Keeps(t) /\ tick'[t].pc = "retry"
      BY <1>p, <2>6, <3>1, KeepsStep
    <3> QED
      BY <1>1, <1>3, <2>1, <2>3, <2>4, <3>2 DEF ReadyEffect, Fenced
  <2> QED
    BY <1>3, <2>5, <2>6
<1> QED
  BY <1>1, <1>2, <1>3 DEF Ready

\* A failed job keeps nothing that is to be published.
Emptied(r) ==
    /\ job'[r].state = "FAILED" /\ job'[r].keys = {} /\ job'[r].removed = job[r].removed
    /\ job'[r].run = job[r].run /\ job'[r].rev = job[r].rev

LEMMA EmptiedStep ==
    ASSUME TypeInv, NEW t \in Ticks, tick[t].r \in Resources, Unchanged(tick[t]),
           FailJob(tick[t].r, [tick[t].seen EXCEPT !.keys = {}, !.pending = {}])
    PROVE  Fenced(t, tick[t].r) /\ Emptied(tick[t].r)
<1> DEFINE r == tick[t].r
           next == [tick[t].seen EXCEPT !.keys = {}, !.pending = {}]
<1>1. tick[t].seen \in Job /\ RowsType /\ job[r] = tick[t].seen
  BY TypeFacts, TickFields DEF Unchanged
<1>2. /\ next \in Job /\ next.keys = {} /\ next.removed = job[r].removed
      /\ next.run = job[r].run /\ next.rev = job[r].rev
  BY <1>1 DEF Job
<1>3. FailJob(r, next)
  OBVIOUS
<1> HIDE DEF next
<1>4. RowsType' /\ job'[r].state = "FAILED" /\ Same(job'[r], next) /\ OtherJobs(r)
  BY <1>1, <1>2, <1>3, FailStep
<1> QED
  BY <1>2, <1>4 DEF Fenced, Emptied, Same

FailEffect(t, r) ==
    \/ Keeps(t) /\ Unwritten /\ tick'[t].pc = "defer"
    \/ /\ Fenced(t, r) /\ Emptied(r)
       /\ \/ Keeps(t) /\ tick'[t].pc \in {"retry", "defer"}
          \/ Moves(t, r, "take") /\ MemberRun(tick'[t], r, job[r].run)

LEMMA FailMoves ==
    ASSUME TypeInv, NEW t \in Ticks, FailPurged(t)
    PROVE  FailEffect(t, tick[t].r) /\ tick[t].r \in Resources
<1> DEFINE e == tick[t]
           r == e.r
           next == [e.seen EXCEPT !.keys = {}, !.pending = {}]
           m == [NewMember EXCEPT !.run = next.run]
<1>1. e \in Tick /\ TickType /\ e.pc = "fail" /\ r \in Resources /\ e.seen \in Job
  BY TypeFacts, TickFields DEF FailPurged, Equipped, Exporting
<1>p. "defer" \in Step /\ "retry" \in Step
  BY DEF Step, Exporting
<1>2. CASE Goto(t, e, "defer") /\ UNCHANGED rows
  BY <1>1, <1>2, <1>p, KeepsStep, UnwrittenStep DEF FailEffect, Unwritten
<1>3. CASE Unchanged(e) /\ FailJob(r, next) /\ Onward(t, [e EXCEPT !.batch[r] = m], "take")
  <2>1. next.run = e.seen.run /\ e.seen = job[r] /\ e.seen.run \in Runs \cup {0}
    BY <1>1, <1>3, JobFields DEF Unchanged, Job
  <2>2. m \in Member /\ m.run = job[r].run
    BY <2>1, RevisionValues DEF Member, NewMember, NoMember
  <2>3. Onward(t, [e EXCEPT !.batch[r] = m], "take")
    BY <1>3
  <2> HIDE DEF m
  <2>4. Moves(t, r, "take") /\ tick'[t].batch[r] = m
    BY <1>1, <2>2, <2>3, OnwardMember
  <2> QED
    BY <1>1, <1>3, <2>2, <2>4, EmptiedStep DEF FailEffect, MemberRun
<1>4. CASE Unchanged(e) /\ FailJob(r, next) /\ \E pc \in {OnError(e), "defer"} : Goto(t, e, pc)
  <2>1. OnError(e) = "retry"
    BY <1>1 DEF OnError
  <2>2. Keeps(t) /\ tick'[t].pc \in {"retry", "defer"}
    BY <1>p, <1>4, <2>1, KeepsStep
  <2> QED
    BY <1>1, <1>4, <2>2, EmptiedStep DEF FailEffect
<1> QED
  BY <1>1, <1>2, <1>3, <1>4 DEF FailPurged

DeferEffect(t, r) ==
    /\ Holds(t) /\ tick'[t].seen = job[r] /\ tick'[t].mode = "defer" /\ tick'[t].pc = "track"

LEMMA DeferMoves ==
    ASSUME TypeInv, NEW t \in Ticks, Defer(t)
    PROVE  DeferEffect(t, tick[t].r) /\ tick[t].r \in Resources
<1> DEFINE y == [tick[t] EXCEPT !.seen = job[tick[t].r], !.mode = "defer"]
<1>1. tick[t] \in Tick /\ TickType /\ tick[t].r \in Resources /\ job[tick[t].r] \in Job
  BY TypeFacts DEF Defer, Equipped, Exporting, RowsType
<1>2. /\ y \in Tick /\ y.age = tick[t].age /\ y.r = tick[t].r /\ y.batch = tick[t].batch
      /\ y.seen = job[tick[t].r] /\ y.mode = "defer"
  BY <1>1 DEF Tick
<1>3. Goto(t, y, "track") /\ "track" \in Step
  BY DEF Defer, Step, Exporting
<1> HIDE DEF y
<1> QED
  BY <1>1, <1>2, <1>3, GotoStep DEF DeferEffect, Holds

DeferredEffect(t, r) ==
    \/ Unwritten /\ Moves(t, r, "take") /\ MemberRun(tick'[t], r, 0)
    \/ /\ Fenced(t, r) /\ Emptied(r)
       /\ \/ Keeps(t) /\ tick'[t].pc = "return"
          \/ Moves(t, r, "take") /\ MemberRun(tick'[t], r, 0)

LEMMA DeferredMoves ==
    ASSUME TypeInv, NEW t \in Ticks, FailDeferred(t)
    PROVE  DeferredEffect(t, tick[t].r) /\ tick[t].r \in Resources
<1> DEFINE e == tick[t]
           r == e.r
<1>1. e \in Tick /\ TickType /\ e.pc = "deferred" /\ r \in Resources
  BY TypeFacts DEF FailDeferred, Equipped, Exporting
<1>2. ASSUME Onward(t, [e EXCEPT !.batch[r] = Detached], "take")
      PROVE  Moves(t, r, "take") /\ MemberRun(tick'[t], r, 0)
  <2>1. Detached \in Member /\ Detached.run = 0
    BY RevisionValues DEF Detached, NoMember, Member
  <2> QED
    BY <1>1, <1>2, <2>1, OnwardMember DEF MemberRun
<1>3. Goto(t, e, OnError(e)) => Keeps(t) /\ tick'[t].pc = "return"
  <2>1. OnError(e) = "return" /\ "return" \in Step
    BY <1>1 DEF OnError, Step
  <2> QED
    BY <2>1, KeepsStep
<1>4. CASE Unchanged(e) /\ FailJob(r, [e.seen EXCEPT !.keys = {}, !.pending = {}])
  <2>1. Onward(t, [e EXCEPT !.batch[r] = Detached], "take") \/ Goto(t, e, OnError(e))
    <3>1. Unchanged(e)
      BY <1>4
    <3> QED
      BY <3>1 DEF FailDeferred
  <2> QED
    BY <1>1, <1>2, <1>3, <1>4, <2>1, EmptiedStep DEF DeferredEffect
<1>5. CASE UNCHANGED rows /\ Onward(t, [e EXCEPT !.batch[r] = Detached], "take")
  BY <1>1, <1>2, <1>5, UnwrittenStep DEF DeferredEffect, Unwritten
<1> QED
  BY <1>4, <1>5 DEF FailDeferred

RetryEffect(t, r) ==
    \/ Unwritten /\ Keeps(t) /\ tick'[t].pc \in {"count", "return"}
    \/ /\ job[r].state = "PREPARING" /\ RowsType' /\ OtherJobs(r) /\ Holds(t)
       /\ tick'[t].seen = job'[r] /\ tick'[t].pc = "dispose"
       /\ job'[r].state = "PREPARING" /\ job'[r].keys = job[r].keys /\ job'[r].run = job[r].run
       /\ job'[r].removed = job[r].removed \cup (Data(r) \ (job[r].keys \cup {Legacy}))

LEMMA RetryMoves ==
    ASSUME TypeInv, NEW t \in Ticks, Retry(t)
    PROVE  RetryEffect(t, tick[t].r) /\ tick[t].r \in Resources
<1> DEFINE e == tick[t]
           r == e.r
           j == job[r]
           gone == j.removed \cup (Data(r) \ (j.keys \cup {Legacy}))
           next == [j EXCEPT !.removed = gone]
           y == [e EXCEPT !.seen = next]
<1>1. e \in Tick /\ TickType /\ e.pc = "retry" /\ r \in Resources /\ RowsType /\ j \in Job
  BY TypeFacts DEF Retry, Equipped, Exporting, RowsType
<1>p. {"count", "return", "dispose"} \subseteq Step
  BY DEF Step, Exporting
<1>2. CASE UNCHANGED rows /\ (Goto(t, e, "count") \/ Goto(t, e, "return"))
  BY <1>1, <1>2, <1>p, KeepsStep, UnwrittenStep DEF RetryEffect, Unwritten
<1>3. CASE /\ j.state = "PREPARING" /\ SaveIndexJob(r, next) /\ UNCHANGED <<jobLease, cooling>>
           /\ Goto(t, y, "dispose")
  <2>1. gone \in SUBSET Key
    BY <1>1, DataType, JobFields
  <2> HIDE DEF gone
  <2>2. /\ next \in Job /\ next.state = "PREPARING" /\ next.keys = j.keys /\ next.run = j.run
        /\ next.removed = gone
    BY <1>1, <1>3, <2>1 DEF Job
  <2>3. SaveIndexJob(r, next) /\ Goto(t, y, "dispose")
    BY <1>3
  <2> HIDE DEF next
  <2>4. y \in Tick /\ y.age = e.age /\ y.r = r /\ y.batch = e.batch /\ y.seen = next
    BY <1>1, <2>2 DEF Tick
  <2> HIDE DEF y
  <2>5. Holds(t) /\ tick'[t].seen = next /\ tick'[t].pc = "dispose"
    BY <1>1, <1>p, <2>3, <2>4, GotoStep DEF Holds
  <2>6. job' \in [Resources -> Job] /\ job'[r] = next /\ OtherJobs(r)
    BY <1>1, <2>2, <2>3, SaveStep
  <2>7. RowsType'
    BY <1>1, <1>3, <2>6 DEF RowsType
  <2>8. job'[r].removed = job[r].removed \cup (Data(r) \ (job[r].keys \cup {Legacy}))
    BY <2>2, <2>6 DEF gone
  <2> QED
    BY <1>1, <1>3, <2>2, <2>5, <2>6, <2>7, <2>8 DEF RetryEffect
<1> QED
  BY <1>2, <1>3 DEF Retry

DisposeEffect(t, r) ==
    \/ tick' = tick /\ DeleteEffect(r, tick[t].seen.keys \cup {Legacy})
    \/ store' = store /\ Keeps(t) /\ tick'[t].pc = "requeue"

LEMMA DisposeMoves ==
    ASSUME TypeInv, NEW t \in Ticks, Dispose(t)
    PROVE  DisposeEffect(t, tick[t].r) /\ tick[t].r \in Resources
<1>1. tick[t].r \in Resources /\ "requeue" \in Step
  BY TypeFacts DEF Dispose, Equipped, Exporting, Step
<1>2. \/ /\ \E o \in store[tick[t].r] : Delete(tick[t].r, tick[t].seen.keys \cup {Legacy}, o)
         /\ tick' = tick
      \/ Goto(t, tick[t], "requeue") /\ store' = store
  BY DEF Dispose
<1>3. CASE /\ \E o \in store[tick[t].r] : Delete(tick[t].r, tick[t].seen.keys \cup {Legacy}, o)
           /\ tick' = tick
  BY <1>1, <1>3, DeleteStep DEF DisposeEffect
<1>4. CASE Goto(t, tick[t], "requeue") /\ store' = store
  BY <1>1, <1>4, KeepsStep DEF DisposeEffect
<1> QED
  BY <1>2, <1>3, <1>4

RequeueEffect(t, r) ==
    \/ Unwritten /\ Keeps(t) /\ tick'[t].pc = "return"
    \/ /\ Fenced(t, r) /\ Keeps(t) /\ tick'[t].pc = "count"
       /\ job'[r].state = "PENDING" /\ job'[r].keys = job[r].keys
       /\ job'[r].removed = job[r].removed /\ job'[r].run = job[r].run
       /\ job'[r].rev = job[r].rev

LEMMA RequeueMoves ==
    ASSUME TypeInv, NEW t \in Ticks, Requeue(t)
    PROVE  RequeueEffect(t, tick[t].r) /\ tick[t].r \in Resources
<1> DEFINE e == tick[t]
           r == e.r
           next == [e.seen EXCEPT !.state = "PENDING", !.pending = {}]
<1>1. e \in Tick /\ TickType /\ r \in Resources /\ RowsType /\ e.seen \in Job
  BY TypeFacts, TickFields DEF Requeue, Equipped, Exporting
<1>p. "count" \in Step /\ "return" \in Step
  BY DEF Step, Exporting
<1>2. CASE Goto(t, e, "return") /\ UNCHANGED rows
  BY <1>1, <1>2, <1>p, KeepsStep, UnwrittenStep DEF RequeueEffect, Unwritten
<1>3. CASE /\ Unchanged(e) /\ SaveIndexJob(r, next) /\ jobLease' = [jobLease EXCEPT ![r] = 0]
           /\ UNCHANGED cooling /\ Goto(t, e, "count")
  <2>1. /\ next \in Job /\ next.state = "PENDING" /\ next.keys = e.seen.keys
        /\ next.removed = e.seen.removed /\ next.run = e.seen.run /\ next.rev = e.seen.rev
    BY <1>1 DEF Job
  <2>2. SaveIndexJob(r, next) /\ job[r] = e.seen
    BY <1>3 DEF Unchanged
  <2> HIDE DEF next
  <2>3. job' \in [Resources -> Job] /\ job'[r] = next /\ OtherJobs(r)
    BY <1>1, <2>1, <2>2, SaveStep
  <2>4. RowsType'
    <3>1. jobLease' = [jobLease EXCEPT ![r] = 0] /\ cooling' = cooling
      BY <1>3
    <3> QED
      BY <1>1, <2>3, <3>1 DEF RowsType
  <2>5. Keeps(t) /\ tick'[t].pc = "count"
    BY <1>3, <1>p, KeepsStep
  <2> QED
    BY <1>1, <1>3, <2>1, <2>2, <2>3, <2>4, <2>5 DEF RequeueEffect, Fenced
<1> QED
  BY <1>2, <1>3 DEF Requeue

\* A member is tried again, or leaves the batch.
TallyEffect(t, r, first) ==
    /\ Moves(t, r, first)
    /\ \/ /\ Unwritten /\ MemberRun(tick'[t], r, tick[t].batch[r].run)
          /\ tick'[t].batch[r].rev = tick[t].batch[r].rev
       \/ Unwritten /\ MemberRun(tick'[t], r, 0)
       \/ /\ RowsType' /\ OtherJobs(r) /\ job'[r].state = "FAILED" /\ Same(job'[r], job[r])
          /\ MemberRun(tick'[t], r, 0)

LEMMA TallyMoves ==
    ASSUME TypeInv, NEW t \in Ticks, NEW first \in {"take", "find"}, NEW mine,
           tick[t].r \in Resources, MemberFailure(t, first, mine)
    PROVE  TallyEffect(t, tick[t].r, first)
<1> DEFINE e == tick[t]
           r == e.r
           m == [e.batch[r] EXCEPT !.attempts = @ + 1]
<1>1. e \in Tick /\ TickType /\ r \in Resources /\ RowsType /\ e.batch[r] \in Member
      /\ job[r] \in Job
  BY TypeFacts, TickFields DEF Batch, RowsType
<1>2. CASE /\ Onward(t, [e EXCEPT !.batch[r].attempts = @ + 1, !.failed = TRUE], first)
           /\ UNCHANGED rows
  <2> DEFINE y == [e EXCEPT !.batch[r].attempts = @ + 1, !.failed = TRUE]
  <2>1. Onward(t, y, first)
    BY <1>2
  <2>2. m \in Member /\ m.run = e.batch[r].run /\ m.rev = e.batch[r].rev
    BY <1>1 DEF Member
  <2>3. y \in Tick /\ y.age = e.age /\ y.batch = [e.batch EXCEPT ![r] = m]
    <3>1. [e.batch EXCEPT ![r] = m] \in Batch
      BY <1>1, <2>2, TickFields DEF Batch
    <3> QED
      BY <1>1, <3>1 DEF Tick
  <2> HIDE DEF m, y
  <2>4. Moves(t, r, first) /\ tick'[t].batch[r] = m
    BY <1>1, <2>1, <2>2, <2>3, OnwardCounting
  <2> QED
    BY <1>2, <2>2, <2>4, UnwrittenStep DEF TallyEffect, MemberRun, Unwritten
<1>3. CASE /\ FailJob(r, job[r]) \/ UNCHANGED rows
           /\ Onward(t, [e EXCEPT !.batch[r] = Detached], first)
  <2>1. Detached \in Member /\ Detached.run = 0
    BY RevisionValues DEF Detached, NoMember, Member
  <2>2. Moves(t, r, first) /\ tick'[t].batch[r] = Detached
    BY <1>1, <1>3, <2>1, OnwardMember
  <2>3. CASE FailJob(r, job[r])
    BY <1>1, <2>1, <2>2, <2>3, FailStep DEF TallyEffect, MemberRun
  <2>4. CASE UNCHANGED rows
    BY <2>1, <2>2, <2>4, UnwrittenStep DEF TallyEffect, MemberRun, Unwritten
  <2> QED
    BY <1>3, <2>3, <2>4
<1> QED
  BY <1>2, <1>3 DEF MemberFailure

FindEffect(t, r) ==
    \/ /\ Holds(t) /\ tick'[t].seen = job[r] /\ tick'[t].success = control.succeeded
       /\ tick'[t].gone = tick[t].gone /\ Mine(tick[t])
       /\ tick'[t].pc = (IF control.succeeded THEN "reread" ELSE "docs")
    \/ Moves(t, r, "find") /\ tick'[t].batch = tick[t].batch

LEMMA FindMoves ==
    ASSUME TypeInv, NEW t \in Ticks, Find(t)
    PROVE  FindEffect(t, tick[t].r) /\ tick[t].r \in Resources
<1> DEFINE e == tick[t]
           r == e.r
           y == [e EXCEPT !.seen = job[r], !.success = control.succeeded]
<1>1. /\ e \in Tick /\ TickType /\ r \in Resources /\ job[r] \in Job /\ control.succeeded \in BOOLEAN
  BY TypeFacts, ControlFields DEF Find, Equipped, Finishing, RowsType
<1>2. CASE Mine(e) /\ Goto(t, y, IF control.succeeded THEN "reread" ELSE "docs")
  <2>1. y \in Tick /\ y.age = e.age /\ y.r = r /\ y.batch = e.batch /\ y.seen = job[r]
        /\ y.success = control.succeeded /\ y.gone = e.gone
    BY <1>1 DEF Tick
  <2>2. (IF control.succeeded THEN "reread" ELSE "docs") \in Step
    BY DEF Step, Finishing
  <2> HIDE DEF y
  <2> QED
    BY <1>1, <1>2, <2>1, <2>2, GotoStep DEF FindEffect, Holds
<1>3. CASE Onward(t, e, "find")
  <2>1. "find" \in Step \ {"close"} /\ "find" \in {"look", "take", "find"}
    BY DEF Step, Finishing
  <2>2. /\ TickType' /\ Others(t) /\ Equipped(tick'[t]) /\ tick'[t].age = e.age
        /\ tick'[t].pc \in {"find", "close"} /\ tick'[t].batch = e.batch /\ Fresh(tick'[t])
    BY <1>1, <1>3, <2>1, OnwardStep, OnwardEquipped
  <2> QED
    BY <1>1, <2>2 DEF FindEffect, Moves, OtherMembers
<1> QED
  BY <1>2, <1>3 DEF Find

DocsEffect(t, r) ==
    /\ Keeps(t) /\ tick'[t].pc = "reread"
    /\ tick'[t].gone = (tick[t].seen.removed \cap vectors[r] = {})
    /\ tick'[t].success = (tick'[t].gone /\ tick[t].seen.keys \subseteq vectors[r])

LEMMA DocsMoves ==
    ASSUME TypeInv, NEW t \in Ticks, Docs(t)
    PROVE  DocsEffect(t, tick[t].r) /\ tick[t].r \in Resources
<1> DEFINE e == tick[t]
           gone == e.seen.removed \cap vectors[e.r] = {}
           success == gone /\ e.seen.keys \subseteq vectors[e.r]
           y == [e EXCEPT !.gone = gone, !.success = success]
<1>1. e \in Tick /\ TickType /\ e.r \in Resources /\ "reread" \in Step
  BY TypeFacts DEF Docs, Equipped, Finishing, Step
<1>2. Goto(t, y, "reread")
  BY DEF Docs
<1>3. gone \in BOOLEAN /\ success \in BOOLEAN
  OBVIOUS
<1> HIDE DEF gone, success
<1>4. y \in Tick /\ y.age = e.age /\ y.r = e.r /\ y.batch = e.batch /\ y.seen = e.seen
      /\ y.snap = e.snap /\ y.mode = e.mode /\ y.gone = gone /\ y.success = success
  BY <1>1, <1>3 DEF Tick
<1> HIDE DEF y
<1>5. Keeps(t) /\ tick'[t].pc = "reread" /\ tick'[t].gone = gone /\ tick'[t].success = success
  BY <1>1, <1>2, <1>4, GotoStep DEF Keeps, Holds
<1> QED
  BY <1>1, <1>5 DEF DocsEffect, gone, success

LEMMA OnwardSame ==
    ASSUME TypeInv, NEW t \in Ticks, NEW r \in Resources, Onward(t, tick[t], "find")
    PROVE  Moves(t, r, "find") /\ tick'[t].batch = tick[t].batch
<1>1. tick[t] \in Tick /\ TickType /\ "find" \in Step \ {"close"} /\ "find" \in {"look", "take", "find"}
  BY TypeFacts DEF Step, Finishing
<1>2. /\ TickType' /\ Others(t) /\ Equipped(tick'[t]) /\ tick'[t].age = tick[t].age
      /\ tick'[t].pc \in {"find", "close"} /\ tick'[t].batch = tick[t].batch /\ Fresh(tick'[t])
  BY <1>1, OnwardStep, OnwardEquipped
<1> QED
  BY <1>2 DEF Moves, OtherMembers

AskedAgain(t, r) ==
    /\ RowsType' /\ OtherJobs(r) /\ Asked(job[r], job'[r])
    /\ Moves(t, r, "find") /\ tick'[t].batch = tick[t].batch

RereadEffect(t, r) ==
    \/ /\ Unwritten /\ Holds(t) /\ tick'[t].seen = tick[t].seen /\ tick'[t].gone = tick[t].gone
       /\ tick'[t].success = tick[t].success /\ tick'[t].snap = source[r]
       /\ Readable(source[r]) /\ tick'[t].pc = "settle"
    \/ AskedAgain(t, r)

LEMMA RereadMoves ==
    ASSUME TypeInv, NEW t \in Ticks, Reread(t)
    PROVE  RereadEffect(t, tick[t].r) /\ tick[t].r \in Resources
<1> DEFINE e == tick[t]
           r == e.r
           y == [e EXCEPT !.snap = source[r]]
<1>1. /\ e \in Tick /\ TickType /\ RowsType /\ r \in Resources /\ source[r] \in Source
  BY TypeFacts DEF Reread, Equipped, Finishing
<1>2. CASE Readable(source[r]) /\ Goto(t, y, "settle") /\ UNCHANGED rows
  <2>1. /\ y \in Tick /\ y.age = e.age /\ y.r = r /\ y.batch = e.batch /\ y.seen = e.seen
        /\ y.gone = e.gone /\ y.success = e.success /\ y.snap = source[r]
    BY <1>1 DEF Tick
  <2>2. "settle" \in Step
    BY DEF Step, Finishing
  <2> HIDE DEF y
  <2> QED
    BY <1>1, <1>2, <2>1, <2>2, GotoStep, UnwrittenStep DEF RereadEffect, Holds, Unwritten
<1>3. CASE RequestIndexResource(r, NoRevision) /\ Onward(t, e, "find")
  BY <1>1, <1>3, RequestStep, OnwardSame, RevisionValues DEF RereadEffect, AskedAgain
<1> QED
  BY <1>1, <1>2, <1>3 DEF Reread

\* Settle writes the outcome only over the row it read, of the revision it projected, with
\* the objects in place and the record unchanged.
SettleEffect(t, r) ==
    \/ AskedAgain(t, r)
    \/ Unwritten /\ Keeps(t) /\ tick'[t].pc = "tally"
    \/ /\ Fenced(t, r) /\ tick[t].snap = tick[t].batch[r].rev
       /\ store[r] = Objects(job[r].keys) /\ source[r].rec = tick[t].snap.rec
       /\ job'[r].keys = job[r].keys /\ job'[r].run = job[r].run /\ job'[r].rev = job[r].rev
       /\ \/ tick[t].success /\ job'[r].state = tick[t].snap.kind /\ job'[r].removed = {}
          \/ /\ tick[t].success = FALSE /\ job'[r].state = "FAILED"
             /\ job'[r].removed = (IF tick[t].gone THEN {} ELSE job[r].removed)
       /\ \/ Moves(t, r, "find") /\ tick'[t].batch = tick[t].batch
          \/ Keeps(t) /\ tick'[t].pc = "tally"

LEMMA SettleMoves ==
    ASSUME TypeInv, NEW t \in Ticks, Settle(t)
    PROVE  SettleEffect(t, tick[t].r) /\ tick[t].r \in Resources
<1> DEFINE e == tick[t]
           r == e.r
           won == [e.seen EXCEPT !.state = e.snap.kind, !.removed = {}]
           left == IF e.gone THEN {} ELSE e.seen.removed
           lost == [e.seen EXCEPT !.removed = left]
<1>1. /\ e \in Tick /\ TickType /\ RowsType /\ r \in Resources /\ e.seen \in Job
      /\ e.snap.kind \in Outcomes /\ e.pc = "settle" /\ e.success \in BOOLEAN
  BY TypeFacts, TickFields DEF Settle, Equipped, Finishing, Readable
<1>2. "tally" \in Step /\ OnError(e) = "tally"
  BY <1>1 DEF Step, Finishing, OnError
<1>3. Goto(t, e, "tally") => Keeps(t) /\ tick'[t].pc = "tally"
  BY <1>2, KeepsStep
<1>4. Onward(t, e, "find") => Moves(t, r, "find") /\ tick'[t].batch = e.batch
  BY <1>1, OnwardSame
<1>5. CASE RequestIndexResource(r, NoRevision) /\ Onward(t, e, "find")
  BY <1>1, <1>4, <1>5, RequestStep, RevisionValues DEF SettleEffect, AskedAgain
<1>6. CASE Goto(t, e, "tally") /\ UNCHANGED rows
  BY <1>1, <1>3, <1>6, UnwrittenStep DEF SettleEffect, Unwritten
<1>7. CASE /\ e.snap = e.batch[r].rev /\ InventoryMatches(r, e.seen.keys)
           /\ Unchanged(e) /\ SourceUnchanged(e)
           /\ IF e.success THEN /\ SaveIndexJob(r, won) /\ cooling' = [cooling EXCEPT ![r] = FALSE]
                                /\ UNCHANGED jobLease
              ELSE FailJob(r, lost)
           /\ Onward(t, e, "find") \/ Goto(t, e, OnError(e))
  <2>1. job[r] = e.seen /\ store[r] = Objects(job[r].keys) /\ source[r].rec = e.snap.rec
    BY <1>7 DEF Unchanged, InventoryMatches, SourceUnchanged
  <2>2. \/ Moves(t, r, "find") /\ tick'[t].batch = e.batch
        \/ Keeps(t) /\ tick'[t].pc = "tally"
    BY <1>2, <1>3, <1>4, <1>7
  <2>3. CASE e.success /\ SaveIndexJob(r, won) /\ cooling' = [cooling EXCEPT ![r] = FALSE]
             /\ UNCHANGED jobLease
    <3>1. /\ won \in Job /\ won.state = e.snap.kind /\ won.removed = {} /\ won.keys = e.seen.keys
          /\ won.run = e.seen.run /\ won.rev = e.seen.rev
      BY <1>1 DEF Job
    <3>2. SaveIndexJob(r, won)
      BY <2>3
    <3> HIDE DEF won
    <3>3. job' \in [Resources -> Job] /\ job'[r] = won /\ OtherJobs(r)
      BY <1>1, <3>1, <3>2, SaveStep
    <3>4. RowsType'
      <4>1. cooling' = [cooling EXCEPT ![r] = FALSE] /\ jobLease' = jobLease
        BY <2>3
      <4> QED
        BY <1>1, <3>3, <4>1 DEF RowsType
    <3> QED
      BY <1>1, <1>7, <2>1, <2>2, <2>3, <3>1, <3>3, <3>4 DEF SettleEffect, Fenced
  <2>4. CASE e.success = FALSE /\ FailJob(r, lost)
    <3>1. left \in SUBSET Key
      BY <1>1, JobFields
    <3>2. left = IF e.gone THEN {} ELSE job[r].removed
      BY <2>1
    <3> HIDE DEF left
    <3>3. /\ lost \in Job /\ lost.removed = left /\ lost.keys = e.seen.keys
          /\ lost.run = e.seen.run /\ lost.rev = e.seen.rev
      BY <1>1, <3>1 DEF Job
    <3>4. FailJob(r, lost)
      BY <2>4
    <3> HIDE DEF lost
    <3>5. RowsType' /\ job'[r].state = "FAILED" /\ Same(job'[r], lost) /\ OtherJobs(r)
      BY <1>1, <3>3, <3>4, FailStep
    <3> QED
      BY <1>1, <1>7, <2>1, <2>2, <2>4, <3>2, <3>3, <3>5 DEF SettleEffect, Fenced, Same
  <2> QED
    BY <1>1, <1>7, <2>3, <2>4
<1> QED
  <2>1. \/ RequestIndexResource(r, NoRevision) /\ Onward(t, e, "find")
        \/ Goto(t, e, "tally") /\ UNCHANGED rows
        \/ /\ e.snap = e.batch[r].rev /\ InventoryMatches(r, e.seen.keys)
           /\ Unchanged(e) /\ SourceUnchanged(e)
           /\ IF e.success THEN /\ SaveIndexJob(r, won) /\ cooling' = [cooling EXCEPT ![r] = FALSE]
                                /\ UNCHANGED jobLease
              ELSE FailJob(r, lost)
           /\ Onward(t, e, "find") \/ Goto(t, e, OnError(e))
    BY Zenon DEF Settle
  <2> QED
    BY <1>1, <1>5, <1>6, <1>7, <2>1

-----------------------------------------------------------------------------
(* Type correctness of the phases that handle members. *)

Spent == spent \in [edits: Nat, notes: Nat, externals: Nat, faults: Nat]
LateType == late \subseteq Resources \X Key \X Parts

LEMMA FaultStep ==
    ASSUME TypeInv, UNCHANGED spent \/ Fault
    PROVE  Spent'
  BY DEF TypeInv, TypeOK, Fault, Spend, Spent

\* The tick stays in its phase, with what its next step needs, or ends.
Lands(t, class) ==
    /\ TickType' /\ Others(t) /\ Equipped(tick'[t])
    /\ tick'[t].pc = "off" \/ (tick'[t].age = tick[t].age /\ late' = late)
    /\ tick'[t].pc \in class \cup {"close", "return", "off"}

LEMMA HoldsLands ==
    ASSUME NEW t \in Ticks, NEW class, Holds(t), tick[t].r \in Resources, late' = late,
           tick'[t].pc \in class \cup {"return"},
           tick'[t].pc \in {"plan", "settle"} => Readable(tick'[t].snap),
           tick'[t].pc \in Parts => tick'[t].seen.pending # {}
    PROVE  Lands(t, class)
  BY DEF Holds, Lands, Equipped

LEMMA MovesLands ==
    ASSUME NEW t \in Ticks, NEW class, NEW r, NEW first \in class, Moves(t, r, first), late' = late
    PROVE  Lands(t, class)
  BY DEF Moves, Lands

LEMMA MemberType ==
    ASSUME TypeInv, NEW t \in Ticks, NEW class \in {Exporting, Finishing},
           tick[t].pc \in class, Lands(t, class), RowsType', StoreType', LateType', Spent',
           UNCHANGED <<source, control, note, vectors, sync>>
    PROVE  TypeInv' /\ Coarse(t) /\ Stays(t)
<1>1. tick' \in [Ticks -> Tick] /\ \A u \in Ticks : Equipped(tick'[u])
  BY TickTyped DEF Lands
<1>2. TypeInv'
  BY <1>1 DEF TypeInv, TypeOK, RowsType, StoreType, LateType, Spent
<1>3. tick[t].pc # "off"
  BY DEF Exporting, Finishing
<1> QED
  BY <1>2, <1>3 DEF Lands, Coarse, Stays

\* A call that leaves the bucket alone.
LEMMA CallType ==
    ASSUME TypeInv, NEW t \in Ticks, NEW class \in {Exporting, Finishing},
           tick[t].pc \in class, Lands(t, class), RowsType', UNCHANGED spent \/ Fault,
           UNCHANGED <<source, control, note, store, late, vectors, sync>>
    PROVE  TypeInv' /\ Coarse(t) /\ Stays(t)
<1>1. StoreType' /\ LateType'
  BY DEF TypeInv, TypeOK, StoreType, LateType
<1> QED
  BY <1>1, FaultStep, MemberType

LEMMA TakeType ==
    ASSUME TypeInv, NEW t \in Ticks, Take(t)
    PROVE  TypeInv' /\ Coarse(t) /\ Stays(t)
<1>1. TakeEffect(t, tick[t].r) /\ tick[t].r \in Resources
  BY TakeMoves
<1>2. tick[t].pc \in Exporting /\ "take" \in Exporting
  BY DEF Take, Exporting
<1>3. UNCHANGED <<source, control, note, store, late, vectors, sync, spent>>
  BY DEF Take
<1>4. Lands(t, Exporting)
  <2>1. CASE Moves(t, tick[t].r, "take")
    BY <1>2, <1>3, <2>1, MovesLands
  <2>2. CASE Holds(t) /\ tick'[t].pc \in {"return", "begin"}
    BY <1>1, <1>3, <2>2, HoldsLands DEF Exporting, Parts
  <2> QED
    BY <1>1, <2>1, <2>2 DEF TakeEffect
<1> QED
  BY <1>1, <1>2, <1>3, <1>4, CallType DEF TakeEffect, Unwritten

LEMMA BeginType ==
    ASSUME TypeInv, NEW t \in Ticks, Begin(t)
    PROVE  TypeInv' /\ Coarse(t) /\ Stays(t)
<1>1. BeginEffect(t, tick[t].r) /\ tick[t].r \in Resources
  BY BeginMoves
<1>2. tick[t].pc \in Exporting
  BY DEF Begin, Exporting
<1>3. UNCHANGED <<source, control, note, store, late, vectors, sync>> /\ (UNCHANGED spent \/ Fault)
  BY DEF Begin, Written
<1>4. RowsType' /\ Holds(t) /\ tick'[t].pc \in {"read", "retry", "defer"}
  BY <1>1 DEF BeginEffect, Keeps, Unwritten
<1>5. Lands(t, Exporting)
  BY <1>1, <1>3, <1>4, HoldsLands DEF Exporting, Parts
<1> QED
  BY <1>2, <1>3, <1>4, <1>5, CallType

LEMMA ReadType ==
    ASSUME TypeInv, NEW t \in Ticks, ReadSource(t)
    PROVE  TypeInv' /\ Coarse(t) /\ Stays(t)
<1>1. ReadEffect(t, tick[t].r) /\ tick[t].r \in Resources
  BY ReadMoves
<1>2. tick[t].pc \in Exporting
  BY DEF ReadSource, Exporting
<1>3. UNCHANGED <<source, control, note, store, late, vectors, sync>> /\ UNCHANGED spent /\ RowsType'
  BY UnwrittenStep DEF ReadSource
<1>4. Lands(t, Exporting)
  BY <1>1, <1>3, HoldsLands DEF ReadEffect, Exporting, Parts
<1> QED
  BY <1>2, <1>3, <1>4, CallType

LEMMA PlanType ==
    ASSUME TypeInv, NEW t \in Ticks, Plan(t)
    PROVE  TypeInv' /\ Coarse(t) /\ Stays(t)
<1>1. PlanEffect(t, tick[t].r) /\ tick[t].r \in Resources
  BY PlanMoves
<1>2. tick[t].pc \in Exporting
  BY DEF Plan, Exporting
<1>3. UNCHANGED <<source, control, note, store, late, vectors, sync>> /\ (UNCHANGED spent \/ Fault)
  BY DEF Plan, Written
<1>4. RowsType' /\ Holds(t) /\ tick'[t].pc \in {"defer", "retry", "sidecar", "verify"}
  BY <1>1 DEF PlanEffect, Keeps, Unwritten, Fenced
<1>5. tick'[t].pc \in Parts => tick'[t].seen.pending # {}
  BY <1>1, <1>4 DEF PlanEffect, Parts, KeysOf
<1>6. Lands(t, Exporting)
  BY <1>1, <1>3, <1>4, <1>5, HoldsLands DEF Exporting
<1> QED
  BY <1>2, <1>3, <1>4, <1>6, CallType

LEMMA VerifyType ==
    ASSUME TypeInv, NEW t \in Ticks, Verify(t)
    PROVE  TypeInv' /\ Coarse(t) /\ Stays(t)
<1>1. VerifyEffect(t) /\ tick[t].r \in Resources
  BY VerifyMoves
<1>2. tick[t].pc \in Exporting
  BY DEF Verify, Exporting
<1>3. UNCHANGED <<source, control, note, store, late, vectors, sync>> /\ UNCHANGED spent /\ RowsType'
  BY UnwrittenStep DEF Verify
<1>4. Lands(t, Exporting)
  BY <1>1, <1>3, HoldsLands DEF VerifyEffect, Keeps, Exporting, Parts
<1> QED
  BY <1>2, <1>3, <1>4, CallType

LEMMA TrackType ==
    ASSUME TypeInv, NEW t \in Ticks, Track(t)
    PROVE  TypeInv' /\ Coarse(t) /\ Stays(t)
<1>1. TrackEffect(t, tick[t].r) /\ tick[t].r \in Resources
  BY TrackMoves
<1>2. tick[t].pc \in Exporting
  BY DEF Track, Exporting
<1>3. UNCHANGED <<source, control, note, store, late, vectors, sync>> /\ (UNCHANGED spent \/ Fault)
  BY DEF Track, Written
<1>4. RowsType' /\ Holds(t) /\ tick'[t].pc \in {"return", "defer", "sweep", "retry"}
  BY <1>1 DEF TrackEffect, Keeps, Unwritten, Fenced
<1>5. Lands(t, Exporting)
  BY <1>1, <1>3, <1>4, HoldsLands DEF Exporting, Parts
<1> QED
  BY <1>2, <1>3, <1>4, <1>5, CallType

LEMMA PutType ==
    ASSUME TypeInv, NEW t \in Ticks, Put(t)
    PROVE  TypeInv' /\ Coarse(t) /\ Stays(t)
<1>1. PutEffect(t, tick[t].r) /\ tick[t].r \in Resources
  BY PutMoves
<1>2. tick[t].pc \in Exporting /\ tick[t].pc \in Parts /\ tick[t].seen.pending # {}
  BY TypeFacts DEF Put, Exporting, Equipped, Parts
<1>3. UNCHANGED <<source, rows, control, note, vectors, sync>> /\ (UNCHANGED spent \/ Fault)
  BY DEF Put
<1>4. PICK k \in tick[t].seen.pending :
         /\ <<k, tick[t].pc>> \in Key \X Parts /\ StoreType' /\ Others(t)
         /\ \/ Keeps(t) /\ late' = late /\ tick'[t].pc \in {"data", "verify"}
            \/ TickType' /\ tick'[t] = Off /\ late' = late
            \/ TickType' /\ tick'[t] = Off /\ late' = late \cup {<<tick[t].r, k, tick[t].pc>>}
  BY <1>1 DEF PutEffect
<1>5. LateType'
  BY <1>1, <1>4 DEF LateType, TypeInv, TypeOK
<1>6. Lands(t, Exporting)
  <2>1. CASE Keeps(t) /\ late' = late /\ tick'[t].pc \in {"data", "verify"}
    BY <1>1, <1>2, <2>1, HoldsLands DEF Keeps, Exporting
  <2>2. CASE TickType' /\ tick'[t] = Off
    BY <1>4, <2>2, OffTick DEF Lands, Equipped, Exporting, Finishing, Parts
  <2> QED
    BY <1>4, <2>1, <2>2
<1>7. RowsType' /\ Spent'
  BY <1>3, UnwrittenStep, FaultStep
<1> QED
  BY <1>2, <1>3, <1>4, <1>5, <1>6, <1>7, MemberType

LEMMA SweepType ==
    ASSUME TypeInv, NEW t \in Ticks, Sweep(t)
    PROVE  TypeInv' /\ Coarse(t) /\ Stays(t)
<1>1. SweepEffect(t, tick[t].r) /\ tick[t].r \in Resources
  BY SweepMoves
<1>2. tick[t].pc \in Exporting /\ TickType /\ Equipped(tick[t]) /\ tick[t].pc = "sweep"
      /\ tick[t].mode \in {"publish", "purge", "defer"}
  BY TypeFacts, TickFields DEF Sweep, Exporting
<1>3. UNCHANGED <<source, rows, control, note, late, vectors, sync, spent>>
  BY DEF Sweep
<1>4. Lands(t, Exporting)
  <2>1. CASE tick' = tick
    BY <1>2, <1>3, <2>1 DEF Lands, TickType, Others
  <2>2. CASE Keeps(t) /\ tick'[t].pc \in {"ready", "fail", "deferred"}
    BY <1>1, <1>3, <2>2, HoldsLands DEF Keeps, Exporting, Parts
  <2> QED
    BY <1>1, <1>2, <2>1, <2>2 DEF SweepEffect
<1>5. StoreType' /\ LateType' /\ RowsType' /\ Spent'
  BY <1>1, <1>3, UnwrittenStep, FaultStep
     DEF SweepEffect, DeleteEffect, StoreType, LateType, TypeInv, TypeOK
<1> QED
  BY <1>2, <1>3, <1>4, <1>5, MemberType

LEMMA DisposeType ==
    ASSUME TypeInv, NEW t \in Ticks, Dispose(t)
    PROVE  TypeInv' /\ Coarse(t) /\ Stays(t)
<1>1. DisposeEffect(t, tick[t].r) /\ tick[t].r \in Resources
  BY DisposeMoves
<1>2. tick[t].pc \in Exporting /\ TickType /\ Equipped(tick[t])
  BY TypeFacts DEF Dispose, Exporting
<1>3. UNCHANGED <<source, rows, control, note, late, vectors, sync, spent>>
  BY DEF Dispose
<1>4. Lands(t, Exporting)
  <2>1. CASE tick' = tick
    BY <1>2, <1>3, <2>1 DEF Lands, TickType, Others
  <2>2. CASE Keeps(t) /\ tick'[t].pc = "requeue"
    BY <1>1, <1>3, <2>2, HoldsLands DEF Keeps, Exporting, Parts
  <2> QED
    BY <1>1, <2>1, <2>2 DEF DisposeEffect
<1>5. StoreType' /\ LateType' /\ RowsType' /\ Spent'
  BY <1>1, <1>3, UnwrittenStep, FaultStep
     DEF DisposeEffect, DeleteEffect, StoreType, LateType, TypeInv, TypeOK
<1> QED
  BY <1>2, <1>3, <1>4, <1>5, MemberType

LEMMA ReadyType ==
    ASSUME TypeInv, NEW t \in Ticks, Ready(t)
    PROVE  TypeInv' /\ Coarse(t) /\ Stays(t)
<1>1. ReadyEffect(t, tick[t].r) /\ tick[t].r \in Resources
  BY ReadyMoves
<1>2. tick[t].pc \in Exporting /\ "take" \in Exporting
  BY DEF Ready, Exporting
<1>3. UNCHANGED <<source, control, note, store, late, vectors, sync>> /\ (UNCHANGED spent \/ Fault)
  BY DEF Ready
<1>4. \/ Keeps(t) /\ tick'[t].pc \in {"defer", "retry"}
      \/ Moves(t, tick[t].r, "take")
  BY <1>1 DEF ReadyEffect
<1>5. Lands(t, Exporting)
  BY <1>1, <1>2, <1>3, <1>4, HoldsLands, MovesLands DEF Keeps, Exporting, Parts
<1>6. RowsType'
  BY <1>1 DEF ReadyEffect, Unwritten, Fenced
<1> QED
  BY <1>2, <1>3, <1>5, <1>6, CallType

LEMMA FailType ==
    ASSUME TypeInv, NEW t \in Ticks, FailPurged(t)
    PROVE  TypeInv' /\ Coarse(t) /\ Stays(t)
<1>1. FailEffect(t, tick[t].r) /\ tick[t].r \in Resources
  BY FailMoves
<1>2. tick[t].pc \in Exporting /\ "take" \in Exporting
  BY DEF FailPurged, Exporting
<1>3. UNCHANGED <<source, control, note, store, late, vectors, sync>> /\ (UNCHANGED spent \/ Fault)
  BY DEF FailPurged
<1>4. \/ Keeps(t) /\ tick'[t].pc \in {"defer", "retry"}
      \/ Moves(t, tick[t].r, "take")
  BY <1>1 DEF FailEffect
<1>5. Lands(t, Exporting)
  BY <1>1, <1>2, <1>3, <1>4, HoldsLands, MovesLands DEF Keeps, Exporting, Parts
<1>6. RowsType'
  BY <1>1 DEF FailEffect, Unwritten, Fenced
<1> QED
  BY <1>2, <1>3, <1>5, <1>6, CallType

LEMMA DeferType ==
    ASSUME TypeInv, NEW t \in Ticks, Defer(t)
    PROVE  TypeInv' /\ Coarse(t) /\ Stays(t)
<1>1. DeferEffect(t, tick[t].r) /\ tick[t].r \in Resources
  BY DeferMoves
<1>2. tick[t].pc \in Exporting
  BY DEF Defer, Exporting
<1>3. UNCHANGED <<source, control, note, store, late, vectors, sync>> /\ UNCHANGED spent /\ RowsType'
  BY UnwrittenStep DEF Defer
<1>4. Lands(t, Exporting)
  BY <1>1, <1>3, HoldsLands DEF DeferEffect, Exporting, Parts
<1> QED
  BY <1>2, <1>3, <1>4, CallType

LEMMA DeferredType ==
    ASSUME TypeInv, NEW t \in Ticks, FailDeferred(t)
    PROVE  TypeInv' /\ Coarse(t) /\ Stays(t)
<1>1. DeferredEffect(t, tick[t].r) /\ tick[t].r \in Resources
  BY DeferredMoves
<1>2. tick[t].pc \in Exporting /\ "take" \in Exporting
  BY DEF FailDeferred, Exporting
<1>3. UNCHANGED <<source, control, note, store, late, vectors, sync>> /\ (UNCHANGED spent \/ Fault)
  BY DEF FailDeferred
<1>4. \/ Keeps(t) /\ tick'[t].pc = "return"
      \/ Moves(t, tick[t].r, "take")
  BY <1>1 DEF DeferredEffect
<1>5. Lands(t, Exporting)
  BY <1>1, <1>2, <1>3, <1>4, HoldsLands, MovesLands DEF Keeps, Exporting, Parts
<1>6. RowsType'
  BY <1>1 DEF DeferredEffect, Unwritten, Fenced
<1> QED
  BY <1>2, <1>3, <1>5, <1>6, CallType

LEMMA RetryType ==
    ASSUME TypeInv, NEW t \in Ticks, Retry(t)
    PROVE  TypeInv' /\ Coarse(t) /\ Stays(t)
<1>1. RetryEffect(t, tick[t].r) /\ tick[t].r \in Resources
  BY RetryMoves
<1>2. tick[t].pc \in Exporting
  BY DEF Retry, Exporting
<1>3. UNCHANGED <<source, control, note, store, late, vectors, sync>> /\ UNCHANGED spent
  BY DEF Retry
<1>4. RowsType' /\ Holds(t) /\ tick'[t].pc \in {"count", "return", "dispose"}
  BY <1>1 DEF RetryEffect, Keeps, Unwritten
<1>5. Lands(t, Exporting)
  BY <1>1, <1>3, <1>4, HoldsLands DEF Exporting, Parts
<1> QED
  BY <1>2, <1>3, <1>4, <1>5, CallType

LEMMA RequeueType ==
    ASSUME TypeInv, NEW t \in Ticks, Requeue(t)
    PROVE  TypeInv' /\ Coarse(t) /\ Stays(t)
<1>1. RequeueEffect(t, tick[t].r) /\ tick[t].r \in Resources
  BY RequeueMoves
<1>2. tick[t].pc \in Exporting
  BY DEF Requeue, Exporting
<1>3. UNCHANGED <<source, control, note, store, late, vectors, sync>> /\ UNCHANGED spent
  BY DEF Requeue
<1>4. RowsType' /\ Holds(t) /\ tick'[t].pc \in {"count", "return"}
  BY <1>1 DEF RequeueEffect, Keeps, Unwritten, Fenced
<1>5. Lands(t, Exporting)
  BY <1>1, <1>3, <1>4, HoldsLands DEF Exporting, Parts
<1> QED
  BY <1>2, <1>3, <1>4, <1>5, CallType

LEMMA TallyType ==
    ASSUME TypeInv, NEW t \in Ticks, Count(t) \/ Tally(t)
    PROVE  TypeInv' /\ Coarse(t) /\ Stays(t)
<1>1. PICK first \in {"take", "find"}, mine \in BOOLEAN :
         /\ MemberFailure(t, first, mine)
         /\ first = "take" => tick[t].pc = "count"
         /\ first = "find" => tick[t].pc = "tally"
  BY DEF Count, Tally, Mine
<1>2. tick[t].r \in Resources
  BY TypeFacts DEF Count, Tally, Equipped, Exporting, Finishing
<1>3. TallyEffect(t, tick[t].r, first)
  BY <1>1, <1>2, TallyMoves
<1>4. UNCHANGED <<source, control, note, store, late, vectors, sync>> /\ UNCHANGED spent
  BY <1>1 DEF MemberFailure
<1>5. PICK class \in {Exporting, Finishing} : tick[t].pc \in class /\ first \in class
  BY <1>1 DEF Exporting, Finishing
<1>6. Lands(t, class)
  BY <1>3, <1>4, <1>5, MovesLands DEF TallyEffect
<1> QED
  BY <1>3, <1>4, <1>5, <1>6, CallType DEF TallyEffect, Unwritten

LEMMA FindType ==
    ASSUME TypeInv, NEW t \in Ticks, Find(t)
    PROVE  TypeInv' /\ Coarse(t) /\ Stays(t)
<1>1. FindEffect(t, tick[t].r) /\ tick[t].r \in Resources
  BY FindMoves
<1>2. tick[t].pc \in Finishing /\ "find" \in Finishing
  BY DEF Find, Finishing
<1>3. UNCHANGED <<source, control, note, store, late, vectors, sync>> /\ UNCHANGED spent /\ RowsType'
  BY UnwrittenStep DEF Find
<1>4. \/ Holds(t) /\ tick'[t].pc \in {"reread", "docs"}
      \/ Moves(t, tick[t].r, "find")
  BY <1>1 DEF FindEffect
<1>5. Lands(t, Finishing)
  BY <1>1, <1>2, <1>3, <1>4, HoldsLands, MovesLands DEF Finishing, Parts
<1> QED
  BY <1>2, <1>3, <1>5, CallType

LEMMA DocsType ==
    ASSUME TypeInv, NEW t \in Ticks, Docs(t)
    PROVE  TypeInv' /\ Coarse(t) /\ Stays(t)
<1>1. DocsEffect(t, tick[t].r) /\ tick[t].r \in Resources
  BY DocsMoves
<1>2. tick[t].pc \in Finishing
  BY DEF Docs, Finishing
<1>3. UNCHANGED <<source, control, note, store, late, vectors, sync>> /\ UNCHANGED spent /\ RowsType'
  BY UnwrittenStep DEF Docs
<1>4. Lands(t, Finishing)
  BY <1>1, <1>3, HoldsLands DEF DocsEffect, Keeps, Finishing, Parts
<1> QED
  BY <1>2, <1>3, <1>4, CallType

LEMMA RereadType ==
    ASSUME TypeInv, NEW t \in Ticks, Reread(t)
    PROVE  TypeInv' /\ Coarse(t) /\ Stays(t)
<1>1. RereadEffect(t, tick[t].r) /\ tick[t].r \in Resources
  BY RereadMoves
<1>2. tick[t].pc \in Finishing /\ "find" \in Finishing
  BY DEF Reread, Finishing
<1>3. UNCHANGED <<source, control, note, store, late, vectors, sync>> /\ UNCHANGED spent
  BY DEF Reread
<1>4. RowsType' /\ \/ Holds(t) /\ tick'[t].pc = "settle" /\ Readable(tick'[t].snap)
                   \/ Moves(t, tick[t].r, "find")
  BY <1>1 DEF RereadEffect, AskedAgain, Unwritten
<1>5. Lands(t, Finishing)
  BY <1>1, <1>2, <1>3, <1>4, HoldsLands, MovesLands DEF Finishing, Parts
<1> QED
  BY <1>2, <1>3, <1>4, <1>5, CallType

LEMMA SettleType ==
    ASSUME TypeInv, NEW t \in Ticks, Settle(t)
    PROVE  TypeInv' /\ Coarse(t) /\ Stays(t)
<1>1. SettleEffect(t, tick[t].r) /\ tick[t].r \in Resources
  BY SettleMoves
<1>2. tick[t].pc \in Finishing /\ "find" \in Finishing
  BY DEF Settle, Finishing
<1>3. UNCHANGED <<source, control, note, store, late, vectors, sync>> /\ (UNCHANGED spent \/ Fault)
  BY DEF Settle
<1>4. RowsType' /\ \/ Keeps(t) /\ tick'[t].pc = "tally"
                   \/ Moves(t, tick[t].r, "find")
  BY <1>1 DEF SettleEffect, AskedAgain, Unwritten, Fenced
<1>5. Lands(t, Finishing)
  BY <1>1, <1>2, <1>3, <1>4, HoldsLands, MovesLands DEF Keeps, Finishing, Parts
<1> QED
  BY <1>2, <1>3, <1>4, <1>5, CallType

-----------------------------------------------------------------------------
(* Type correctness of the other steps of a tick. *)

LEMMA StartType ==
    ASSUME TypeInv, NEW t \in Ticks, Start(t)
    PROVE  /\ TypeInv' /\ Coarse(t) /\ control' = control
           /\ tick'[t].batch = tick[t].batch
           /\ tick'[t].pc = "return" \/ (tick'[t].pc = "run" /\ sync'.ours # "none")
           /\ \/ sync' = sync
              \/ /\ sync.ours = "none" /\ sync.external = FALSE
                 /\ sync'.ours = "running" /\ sync'.external = FALSE /\ sync'.seen = store
<1> DEFINE Sync == [ours: {"none", "running", "complete", "failed"}, external: BOOLEAN,
                    seen: [Resources -> SUBSET (Key \X Parts)]]
<1>1. tick[t] \in Tick /\ TickType /\ tick[t].pc = "start" /\ sync \in Sync
  BY TypeFacts DEF Start, TypeInv, TypeOK
<1>2. OnError(tick[t]) = "return" /\ "return" \in Step /\ "run" \in Step
  BY <1>1 DEF OnError, Step
<1>3. /\ TickType' /\ Others(t) /\ tick'[t].age = tick[t].age /\ tick'[t].batch = tick[t].batch
      /\ sync' \in Sync /\ (UNCHANGED spent \/ Fault)
      /\ tick'[t].pc = "return" \/ (tick'[t].pc = "run" /\ sync'.ours # "none")
      /\ \/ sync' = sync
         \/ /\ sync.ours = "none" /\ sync.external = FALSE
            /\ sync'.ours = "running" /\ sync'.external = FALSE /\ sync'.seen = store
  <2>1. CASE Goto(t, tick[t], "return") /\ UNCHANGED <<sync, spent>>
    BY <1>1, <1>2, <2>1, GotoStep
  <2>2. CASE /\ sync.ours = "none" /\ ~sync.external
             /\ sync' = [sync EXCEPT !.ours = "running", !.seen = store]
             /\ Written(t, tick[t], "run")
    <3>1. /\ sync' \in Sync /\ sync'.ours = "running" /\ sync'.external = sync.external
          /\ sync'.seen = store
      BY <1>1, <2>2 DEF TypeInv, TypeOK
    <3>2. sync.external = FALSE /\ sync.ours = "none"
      BY <1>1, <2>2
    <3>3. /\ TickType' /\ Others(t) /\ tick'[t].age = tick[t].age
          /\ tick'[t].batch = tick[t].batch /\ tick'[t].pc \in {"return", "run"}
      BY <1>1, <1>2, <2>2, WrittenStep
    <3>4. UNCHANGED spent \/ Fault
      BY <2>2 DEF Written
    <3> HIDE DEF Sync
    <3> QED
      BY <3>1, <3>2, <3>3, <3>4
  <2>3. CASE sync.ours # "none" /\ Goto(t, tick[t], "run") /\ UNCHANGED <<sync, spent>>
    BY <1>1, <1>2, <2>3, GotoStep
  <2> QED
    BY <2>1, <2>2, <2>3 DEF Start
<1>4. Equipped(tick'[t])
  BY <1>3 DEF Equipped, Exporting, Finishing, Parts
<1>5. tick' \in [Ticks -> Tick] /\ (\A u \in Ticks : Equipped(tick'[u])) /\ Spent'
  BY <1>3, <1>4, TickTyped, FaultStep
<1>6. UNCHANGED <<source, rows, control, note, store, late, vectors>>
  BY DEF Start
<1>7. TypeInv'
  BY <1>3, <1>5, <1>6 DEF TypeInv, TypeOK, rows, Spent
<1> QED
  BY <1>1, <1>3, <1>6, <1>7 DEF Coarse

LEMMA RunType ==
    ASSUME TypeInv, NEW t \in Ticks, Run(t)
    PROVE  /\ TypeInv' /\ Coarse(t) /\ tick'[t].pc = "return" /\ tick'[t].batch = tick[t].batch
           /\ control'.phase = "RUNNING" /\ control'.batch = control.batch
           /\ control'.succeeded = control.succeeded
<1>1. tick[t] \in Tick /\ TickType /\ tick[t].pc = "run" /\ control \in Control /\ "return" \in Step
  BY TypeFacts DEF Run, Step
<1>2. /\ TickType' /\ Others(t) /\ tick'[t].age = tick[t].age /\ tick'[t].pc = "return"
      /\ tick'[t].batch = tick[t].batch
  BY <1>1, GotoStep DEF Run
<1>3. /\ control' \in Control /\ control'.phase = "RUNNING" /\ control'.owner = control.owner
      /\ control'.lease = control.lease /\ control'.batch = control.batch
      /\ control'.succeeded = control.succeeded
  <2>1. control' = [control EXCEPT !.phase = "RUNNING"]
    BY DEF Run, SaveIndexControl
  <2> QED
    BY <1>1, <2>1 DEF Control
<1>4. Equipped(tick'[t])
  BY <1>2 DEF Equipped, Exporting, Finishing, Parts
<1>5. tick' \in [Ticks -> Tick] /\ \A u \in Ticks : Equipped(tick'[u])
  BY <1>2, <1>4, TickTyped
<1>6. UNCHANGED <<source, rows, note, store, late, vectors, sync, spent>>
  BY DEF Run
<1>7. TypeInv'
  BY <1>3, <1>5, <1>6 DEF TypeInv, TypeOK, rows
<1> QED
  BY <1>1, <1>2, <1>3, <1>6, <1>7 DEF Coarse

LEMMA GetType ==
    ASSUME TypeInv, NEW t \in Ticks, Get(t)
    PROVE  /\ TypeInv' /\ Coarse(t) /\ tick'[t].batch = tick[t].batch
           /\ \/ control' = control /\ tick'[t].pc = "return"
              \/ /\ sync.ours # "running" /\ tick'[t].pc \in {"find", "close"} /\ Fresh(tick'[t])
                 /\ control'.phase = "FINALIZING" /\ control'.batch = control.batch
                 /\ control'.succeeded = (sync.ours = "complete")
<1>1. tick[t] \in Tick /\ TickType /\ tick[t].pc = "get" /\ control \in Control
      /\ tick[t].batch \in Batch
  BY TypeFacts, TickFields DEF Get
<1> DEFINE won == sync.ours = "complete"
           x == [tick[t] EXCEPT !.todo = Live(tick[t].batch)]
<1>2. CASE control' = control /\ Goto(t, tick[t], "return")
  <2>1. "return" \in Step
    BY DEF Step
  <2>2. /\ TickType' /\ Others(t) /\ tick'[t].age = tick[t].age /\ tick'[t].pc = "return"
        /\ tick'[t].batch = tick[t].batch
    BY <1>1, <1>2, <2>1, GotoStep
  <2>3. Equipped(tick'[t])
    BY <2>2 DEF Equipped, Exporting, Finishing, Parts
  <2>4. tick' \in [Ticks -> Tick] /\ \A u \in Ticks : Equipped(tick'[u])
    BY <2>2, <2>3, TickTyped
  <2>5. TypeInv'
    BY <1>2, <2>4 DEF TypeInv, TypeOK, rows, Get
  <2> QED
    BY <1>1, <1>2, <2>2, <2>5 DEF Coarse, Get
<1>3. CASE /\ sync.ours # "running" /\ Onward(t, x, "find")
           /\ control' = [control EXCEPT !.phase = "FINALIZING", !.succeeded = won]
  <2>1. x \in Tick /\ x.age = tick[t].age /\ x.batch = tick[t].batch
    BY <1>1 DEF Tick, Live
  <2>2. won \in BOOLEAN /\ "find" \in Step \ {"close"} /\ "find" \in {"look", "take", "find"}
    BY DEF Step, Finishing
  <2> HIDE DEF won, x
  <2>3. /\ control' \in Control /\ control'.phase = "FINALIZING" /\ control'.owner = control.owner
        /\ control'.lease = control.lease /\ control'.batch = control.batch
        /\ control'.succeeded = won
    BY <1>1, <1>3, <2>2 DEF Control
  <2>4. /\ TickType' /\ Others(t) /\ tick'[t].age = x.age /\ tick'[t].pc \in {"find", "close"}
        /\ tick'[t].batch = x.batch /\ Equipped(tick'[t]) /\ Fresh(tick'[t])
    BY <1>1, <1>3, <2>1, <2>2, OnwardEquipped, OnwardStep
  <2>5. tick' \in [Ticks -> Tick] /\ \A u \in Ticks : Equipped(tick'[u])
    BY <2>4, TickTyped
  <2>6. TypeInv'
    BY <2>3, <2>5 DEF TypeInv, TypeOK, rows, Get
  <2>7. late' = late
    BY DEF Get
  <2> QED
    BY <1>1, <1>3, <2>1, <2>3, <2>4, <2>6, <2>7 DEF Coarse, won
<1> QED
  BY <1>2, <1>3 DEF Get, SaveIndexControl

LEMMA ClaimType ==
    ASSUME TypeInv, NEW t \in Ticks, Claim(t)
    PROVE  /\ TypeInv' /\ Others(t) /\ tick[t].pc = "off" /\ control.lease = 0
           /\ control'.owner = t /\ control'.lease = Lease /\ control'.phase = control.phase
           /\ control'.batch = control.batch /\ control'.succeeded = control.succeeded
           /\ tick'[t].age = 0 /\ tick'[t].batch = control.batch /\ Fresh(tick'[t])
           /\ \/ tick'[t].pc = Entry(control.phase)
              \/ tick'[t].pc = "close" /\ control.phase \in {"EXPORTING", "FINALIZING"}
<1>1. /\ TickType /\ control \in Control /\ control.batch \in Batch /\ Off \in Tick
      /\ control.phase \in {"IDLE", "EXPORTING", "PREPARED", "RUNNING", "FINALIZING"}
  BY TypeFacts, ControlFields, OffTick
<1>2. /\ control' \in Control /\ control'.owner = t /\ control'.lease = Lease
      /\ control'.phase = control.phase /\ control'.batch = control.batch
      /\ control'.succeeded = control.succeeded
  <2>1. control' = [control EXCEPT !.owner = t, !.lease = Lease]
    BY DEF Claim
  <2>2. Lease \in 0 .. Lease /\ t \in Ticks \cup {"none"}
    OBVIOUS
  <2> QED
    BY <1>1, <2>1, <2>2 DEF Control
<1> DEFINE x == [Off EXCEPT !.batch = control.batch, !.todo = Live(control.batch)]
           y == [x EXCEPT !.todo = {}]
<1>3. x \in Tick /\ x.age = 0 /\ x.batch = control.batch /\ Fresh(x)
  BY <1>1 DEF Tick, Live, Off, Fresh
<1>4. y \in Tick /\ y.age = 0 /\ y.batch = control.batch /\ Fresh(y)
  BY <1>1 DEF Tick, Live, Off, Fresh
<1>5. IF control.phase \in {"EXPORTING", "FINALIZING"} THEN Onward(t, x, Entry(control.phase))
      ELSE Goto(t, y, Entry(control.phase))
  BY DEF Claim
<1> HIDE DEF x, y
<1>6. /\ TickType' /\ Others(t) /\ tick'[t].age = 0 /\ tick'[t].batch = control.batch
      /\ Fresh(tick'[t]) /\ Equipped(tick'[t])
      /\ \/ tick'[t].pc = Entry(control.phase)
         \/ tick'[t].pc = "close" /\ control.phase \in {"EXPORTING", "FINALIZING"}
  <2>1. CASE control.phase \in {"EXPORTING", "FINALIZING"}
    <3>1. Entry(control.phase) \in {"look", "take", "find"} /\ Entry(control.phase) \in Step \ {"close"}
      BY <2>1 DEF Entry, Step, Exporting, Finishing
    <3> QED
      BY <1>1, <1>3, <1>5, <2>1, <3>1, OnwardEquipped, OnwardStep
  <2>2. CASE control.phase \notin {"EXPORTING", "FINALIZING"}
    <3>1. Entry(control.phase) \in {"busy", "start", "get"} /\ Entry(control.phase) \in Step
      BY <1>1, <2>2 DEF Entry, Step
    <3>2. /\ TickType' /\ Others(t) /\ tick'[t].age = 0 /\ tick'[t].batch = control.batch
          /\ Fresh(tick'[t]) /\ tick'[t].pc = Entry(control.phase)
      BY <1>1, <1>4, <1>5, <2>2, <3>1, GotoStep DEF Fresh
    <3> QED
      BY <3>1, <3>2 DEF Equipped, Exporting, Finishing, Parts
  <2> QED
    BY <2>1, <2>2
<1>7. tick' \in [Ticks -> Tick] /\ \A u \in Ticks : Equipped(tick'[u])
  BY <1>6, TickTyped
<1>8. TypeInv'
  BY <1>2, <1>7 DEF TypeInv, TypeOK, rows, Claim
<1> QED
  BY <1>2, <1>6, <1>8 DEF Claim

LEMMA OffStep ==
    ASSUME TypeInv, NEW t \in Ticks, tick' = [tick EXCEPT ![t] = Off]
    PROVE  /\ TickType' /\ Others(t) /\ tick'[t] = Off /\ tick' \in [Ticks -> Tick]
           /\ \A u \in Ticks : Equipped(tick'[u])
<1>1. TickType' /\ Others(t) /\ tick'[t] = Off
  BY TypeFacts, OffTick DEF TickType, Others
<1>2. Equipped(Off)
  BY OffTick DEF Equipped, Exporting, Finishing, Parts
<1> QED
  BY <1>1, <1>2, TickTyped

LEMMA ReleaseType ==
    ASSUME TypeInv, NEW t \in Ticks, Release(t)
    PROVE  /\ TypeInv' /\ Others(t) /\ tick[t].pc = "return" /\ tick'[t] = Off
           /\ control'.owner = control.owner /\ control'.lease = 0
           /\ control'.phase = control.phase
           /\ control'.batch = control.batch /\ control'.succeeded = control.succeeded
<1>1. /\ control' \in Control /\ control'.owner = control.owner /\ control'.lease = 0
      /\ control'.phase = control.phase /\ control'.batch = control.batch
      /\ control'.succeeded = control.succeeded
  <2>1. control' = [control EXCEPT !.lease = 0]
    BY DEF Release, SaveIndexControl
  <2> QED
    BY <2>1, TypeFacts DEF Control
<1>2. /\ Others(t) /\ tick'[t] = Off /\ tick' \in [Ticks -> Tick]
      /\ \A u \in Ticks : Equipped(tick'[u])
  BY OffStep DEF Release
<1>3. TypeInv'
  BY <1>1, <1>2 DEF TypeInv, TypeOK, rows, Release
<1> QED
  BY <1>1, <1>2, <1>3 DEF Release

LEMMA CrashType ==
    ASSUME TypeInv, NEW t \in Ticks, Crash(t)
    PROVE  TypeInv' /\ Coarse(t) /\ Stays(t) /\ tick'[t] = Off
<1>1. /\ Others(t) /\ tick'[t] = Off /\ tick' \in [Ticks -> Tick]
      /\ \A u \in Ticks : Equipped(tick'[u])
  BY OffStep DEF Crash
<1>2. Spent'
  BY FaultStep DEF Crash
<1>3. TypeInv'
  BY <1>1, <1>2 DEF TypeInv, TypeOK, Spent, rows, Crash
<1> QED
  BY <1>1, <1>3, OffTick DEF Crash, Coarse, Stays

LEMMA CallFailsType ==
    ASSUME TypeInv, NEW t \in Ticks, CallFails(t)
    PROVE  /\ TypeInv' /\ Coarse(t) /\ Stays(t) /\ Keeps(t)
           /\ tick'[t].pc \in {"retry", "tally", "return"}
<1>1. tick[t] \in Tick /\ Equipped(tick[t])
  BY TypeFacts
<1>2. OnError(tick[t]) \in Step
  BY <1>1, OnErrorLeads
<1>3. Keeps(t) /\ tick'[t].pc = OnError(tick[t])
  BY <1>2, KeepsStep DEF CallFails
<1>4. /\ tick'[t].pc \in {"retry", "tally", "return"}
      /\ tick'[t].pc = "retry" => tick[t].pc \in Exporting
      /\ tick'[t].pc = "tally" => tick[t].pc \in Finishing
  BY <1>1, <1>3, OnErrorLeads DEF Exporting, Finishing
<1>5. Equipped(tick'[t])
  BY <1>1, <1>3, <1>4 DEF Equipped, Keeps, Holds, Exporting, Finishing, Parts
<1>6. tick' \in [Ticks -> Tick] /\ \A u \in Ticks : Equipped(tick'[u])
  BY <1>3, <1>5, TickTyped DEF Keeps, Holds
<1>7. Spent'
  BY FaultStep DEF CallFails
<1>8. TypeInv'
  BY <1>6, <1>7 DEF TypeInv, TypeOK, Spent, rows, CallFails
<1>9. Stays(t)
  BY <1>4 DEF Stays, CallFails, Exporting, Finishing
<1> QED
  BY <1>3, <1>4, <1>8, <1>9 DEF CallFails, Coarse, Keeps, Holds

-----------------------------------------------------------------------------
(* Type correctness of requests, of the provider and of time. *)

LEMMA ReadForNoteType ==
    ASSUME TypeInv, NEW r \in Resources, ReadForNote(r)
    PROVE  TypeInv' /\ UNCHANGED <<rows, control, tick, store, late, vectors, sync>>
<1> DEFINE rev == IF Readable(source[r]) THEN source[r] ELSE NoRevision
<1>1. rev \in Revision
  BY RevisionValues DEF TypeInv, TypeOK
<1>2. note' = {[r |-> r, rev |-> rev]}
  BY DEF ReadForNote
<1> HIDE DEF rev
<1>3. note' \subseteq [r: Resources, rev: Revision]
  BY <1>1, <1>2
<1>4. UNCHANGED <<source, rows, control, tick, store, late, vectors, sync>>
  BY DEF ReadForNote
<1>5. Spent'
  BY DEF ReadForNote, Spend, Spent, TypeInv, TypeOK
<1> QED
  BY <1>3, <1>4, <1>5 DEF TypeInv, TypeOK, Spent, rows

LEMMA EnqueueType ==
    ASSUME TypeInv, Enqueue
    PROVE  /\ TypeInv' /\ UNCHANGED <<source, control, tick, store, late, vectors, sync>>
           /\ \E r \in Resources : OtherJobs(r) /\ Asked(job[r], job'[r])
<1>1. PICK n \in note : RequestIndexResource(n.r, n.rev) /\ note' = {}
  BY DEF Enqueue
<1>2. n.r \in Resources /\ n.rev \in Revision /\ RowsType
  BY DEF TypeInv, TypeOK, RowsType
<1>3. RowsType' /\ OtherJobs(n.r) /\ Asked(job[n.r], job'[n.r])
  BY <1>1, <1>2, RequestStep
<1>4. UNCHANGED <<source, control, tick, store, late, vectors, sync, spent>>
  BY DEF Enqueue
<1>5. TypeInv'
  BY <1>1, <1>3, <1>4 DEF TypeInv, TypeOK, RowsType
<1> QED
  BY <1>2, <1>3, <1>4, <1>5

LEMMA CoolsDownType ==
    ASSUME TypeInv, NEW r \in Resources, CoolsDown(r)
    PROVE  TypeInv' /\ UNCHANGED <<job, control, tick, store, late, vectors, sync>>
<1>1. cooling' \in [Resources -> BOOLEAN]
  BY DEF TypeInv, TypeOK, CoolsDown
<1> QED
  BY <1>1 DEF TypeInv, TypeOK, CoolsDown

LEMMA EditType ==
    ASSUME TypeInv, NEW r \in Resources, Edit(r)
    PROVE  TypeInv' /\ UNCHANGED <<rows, control, tick, store, late, vectors, sync>>
<1> DEFINE n == spent.edits + 2
<1>1. PICK kind \in Kinds :
         source' = [source EXCEPT ![r] = CASE kind = "DELETED" -> Absent
                                          [] kind = "file" -> [@ EXCEPT !.kind = "INDEXED", !.n = n]
                                          [] OTHER -> [kind |-> kind, rec |-> n, n |-> n]]
  BY DEF Edit
<1>2. n \in Nat /\ source \in [Resources -> Source]
  BY DEF TypeInv, TypeOK
<1> HIDE DEF n
<1>3. PICK s : s \in Source /\ source' = [source EXCEPT ![r] = s]
  <2>1. CASE kind = "DELETED"
    BY <1>1, <2>1, RevisionValues
  <2>2. CASE kind = "file"
    <3>1. [source[r] EXCEPT !.kind = "INDEXED", !.n = n] \in Source
      BY <1>2 DEF Source, Outcomes
    <3> QED
      BY <1>1, <2>2, <3>1
  <2>3. CASE kind \notin {"DELETED", "file"}
    <3>1. [kind |-> kind, rec |-> n, n |-> n] \in Source
      BY <1>2, <2>3 DEF Source, Outcomes
    <3> QED
      BY <1>1, <2>3, <3>1
  <2> QED
    BY <2>1, <2>2, <2>3
<1>4. source' \in [Resources -> Source]
  BY <1>2, <1>3
<1>5. Spent'
  BY DEF Edit, Spend, Spent, TypeInv, TypeOK
<1>6. UNCHANGED <<rows, control, tick, note, store, late, vectors, sync>>
  BY DEF Edit
<1> QED
  BY <1>4, <1>5, <1>6 DEF TypeInv, TypeOK, Spent, rows

\* A late put lands, or is lost for good.
LEMMA ResolveType ==
    ASSUME TypeInv, Resolve
    PROVE  /\ TypeInv' /\ UNCHANGED <<source, rows, control, tick, note, vectors, sync>>
           /\ \E r \in Resources, k \in Key, part \in Parts :
                 /\ <<r, k, part>> \in late /\ late' = late \ {<<r, k, part>>}
                 /\ OtherStores(r)
                 /\ store'[r] = store[r] \cup {<<k, part>>} \/ store'[r] = store[r]
<1>1. PICK o \in late :
         /\ late' = late \ {o}
         /\ store' = [store EXCEPT ![o[1]] = @ \cup {<<o[2], o[3]>>}] \/ UNCHANGED store
  BY DEF Resolve
<1>2. PICK r \in Resources, k \in Key, part \in Parts : o = <<r, k, part>>
  BY DEF TypeInv, TypeOK
<1>3. <<k, part>> \in Key \X Parts /\ StoreType /\ LateType
  BY DEF TypeInv, TypeOK, StoreType, LateType
<1> DEFINE put == <<k, part>>
<1>4. store' = [store EXCEPT ![r] = @ \cup {put}] \/ store' = store
  BY <1>1, <1>2
<1>5. /\ StoreType' /\ OtherStores(r)
      /\ store'[r] = store[r] \cup {put} \/ store'[r] = store[r]
  <2>1. store[r] \cup {put} \in SUBSET (Key \X Parts)
    BY <1>3 DEF StoreType
  <2> HIDE DEF put
  <2> QED
    BY <1>3, <1>4, <2>1 DEF StoreType, OtherStores
<1>6. UNCHANGED <<source, rows, control, tick, note, vectors, sync, spent>>
  BY DEF Resolve
<1>7. TypeInv'
  BY <1>1, <1>3, <1>5, <1>6 DEF TypeInv, TypeOK, StoreType, LateType, rows
<1> QED
  BY <1>1, <1>2, <1>5, <1>6, <1>7

DataIn(objects) == {o[1] : o \in {p \in objects : p[2] = "data"}}

\* What an ingestion leaves of a resource, and what it leaves when it succeeds.
Mixes(r) ==
    /\ DataIn(sync.seen[r]) \cap Data(r) \cap vectors[r] \subseteq vectors'[r]
    /\ vectors'[r] \subseteq DataIn(sync.seen[r]) \cup Data(r) \cup vectors[r]
Replaces(r) ==
    /\ DataIn(sync.seen[r]) \cap Data(r) \subseteq vectors'[r]
    /\ vectors'[r] \subseteq DataIn(sync.seen[r]) \cup Data(r)
IngestedEffect(complete) ==
    \A r \in Resources : Mixes(r) /\ (complete => Replaces(r))

LEMMA IngestedStep ==
    ASSUME TypeInv, NEW complete \in BOOLEAN, vectors' \in Ingested(complete)
    PROVE  vectors' \in [Resources -> SUBSET Key] /\ IngestedEffect(complete)
<1>1. IngestedEffect(complete)
  BY DEF Ingested, IngestedEffect, Mixes, Replaces, DataIn
<1>2. \A r \in Resources : DataIn(sync.seen[r]) \subseteq Key /\ Data(r) \subseteq Key
                           /\ vectors[r] \subseteq Key
  BY DEF TypeInv, TypeOK, DataIn, Data
<1>3. \A r \in Resources : vectors'[r] \in SUBSET Key
  BY <1>1, <1>2 DEF IngestedEffect, Mixes
<1>4. vectors' = [r \in Resources |-> vectors'[r]]
  BY DEF Ingested
<1> QED
  BY <1>1, <1>3, <1>4

LEMMA SeenFields ==
    ASSUME TypeInv, NEW ours \in {"none", "running", "complete", "failed"}, NEW external \in BOOLEAN,
           NEW seen \in [Resources -> SUBSET (Key \X Parts)],
           \/ sync' = [sync EXCEPT !.ours = ours, !.seen = seen] /\ external = sync.external
           \/ sync' = [sync EXCEPT !.external = external, !.seen = seen] /\ ours = sync.ours
    PROVE  /\ sync' \in [ours: {"none", "running", "complete", "failed"}, external: BOOLEAN,
                         seen: [Resources -> SUBSET (Key \X Parts)]]
           /\ sync'.ours = ours /\ sync'.external = external /\ sync'.seen = seen
  BY DEF TypeInv, TypeOK

LEMMA IngestionEndsType ==
    ASSUME TypeInv, IngestionEnds
    PROVE  /\ TypeInv' /\ UNCHANGED <<source, rows, control, tick, note, store, late>>
           /\ sync.ours = "running" /\ sync'.ours \in {"complete", "failed"}
           /\ sync'.external = sync.external /\ sync'.seen = [r \in Resources |-> {}]
           /\ IngestedEffect(sync'.ours = "complete")
<1> DEFINE nothing == [r \in Resources |-> {}]
<1>1. nothing \in [Resources -> SUBSET (Key \X Parts)] /\ sync.external \in BOOLEAN
  BY DEF TypeInv, TypeOK
<1>2. PICK ours \in {"complete", "failed"} :
         /\ sync' = [sync EXCEPT !.ours = ours, !.seen = nothing]
         /\ vectors' \in Ingested(ours = "complete") /\ (UNCHANGED spent \/ Fault)
  BY DEF IngestionEnds
<1> HIDE DEF nothing
<1>3. /\ sync' \in [ours: {"none", "running", "complete", "failed"}, external: BOOLEAN,
                    seen: [Resources -> SUBSET (Key \X Parts)]]
      /\ sync'.ours = ours /\ sync'.external = sync.external /\ sync'.seen = nothing
  BY <1>1, <1>2, SeenFields
<1>4. vectors' \in [Resources -> SUBSET Key] /\ IngestedEffect(ours = "complete")
  BY <1>2, IngestedStep
<1>5. UNCHANGED <<source, rows, control, tick, note, store, late>> /\ sync.ours = "running" /\ Spent'
  BY <1>2, FaultStep DEF IngestionEnds
<1>6. TypeInv'
  BY <1>3, <1>4, <1>5 DEF TypeInv, TypeOK, Spent, rows
<1> QED
  BY <1>3, <1>4, <1>5, <1>6 DEF nothing

LEMMA ExternalStartsType ==
    ASSUME TypeInv, ExternalStarts
    PROVE  /\ TypeInv' /\ UNCHANGED <<source, rows, control, tick, note, store, late, vectors>>
           /\ sync.ours # "running" /\ sync.external = FALSE
           /\ sync'.ours = sync.ours /\ sync'.external = TRUE /\ sync'.seen = store
<1>1. /\ sync' = [sync EXCEPT !.external = TRUE, !.seen = store]
      /\ sync.ours # "running" /\ sync.external = FALSE
      /\ sync.ours \in {"none", "running", "complete", "failed"}
      /\ store \in [Resources -> SUBSET (Key \X Parts)]
  BY DEF ExternalStarts, TypeInv, TypeOK
<1>2. /\ sync' \in [ours: {"none", "running", "complete", "failed"}, external: BOOLEAN,
                    seen: [Resources -> SUBSET (Key \X Parts)]]
      /\ sync'.ours = sync.ours /\ sync'.external = TRUE /\ sync'.seen = store
  BY <1>1 DEF TypeInv, TypeOK
<1>3. UNCHANGED <<source, rows, control, tick, note, store, late, vectors>> /\ Spent'
  BY DEF ExternalStarts, Spend, Spent, TypeInv, TypeOK
<1>4. TypeInv'
  BY <1>2, <1>3 DEF TypeInv, TypeOK, Spent, rows
<1> QED
  BY <1>1, <1>2, <1>3, <1>4

LEMMA ExternalEndsType ==
    ASSUME TypeInv, ExternalEnds
    PROVE  /\ TypeInv' /\ UNCHANGED <<source, rows, control, tick, note, store, late>>
           /\ sync.external = TRUE /\ sync'.ours = sync.ours /\ sync'.external = FALSE
           /\ sync'.seen = [r \in Resources |-> {}] /\ IngestedEffect(FALSE)
<1> DEFINE nothing == [r \in Resources |-> {}]
<1>1. /\ sync' = [sync EXCEPT !.external = FALSE, !.seen = nothing] /\ sync.external = TRUE
      /\ nothing \in [Resources -> SUBSET (Key \X Parts)]
  BY DEF ExternalEnds, TypeInv, TypeOK
<1> HIDE DEF nothing
<1>2. /\ sync' \in [ours: {"none", "running", "complete", "failed"}, external: BOOLEAN,
                    seen: [Resources -> SUBSET (Key \X Parts)]]
      /\ sync'.ours = sync.ours /\ sync'.external = FALSE /\ sync'.seen = nothing
  BY <1>1 DEF TypeInv, TypeOK
<1>3. vectors' \in [Resources -> SUBSET Key] /\ IngestedEffect(FALSE)
  BY IngestedStep DEF ExternalEnds
<1>4. UNCHANGED <<source, rows, control, tick, note, store, late, spent>>
  BY DEF ExternalEnds
<1>5. TypeInv'
  BY <1>2, <1>3, <1>4 DEF TypeInv, TypeOK, rows
<1> QED
  BY <1>1, <1>2, <1>3, <1>4, <1>5 DEF nothing

\* Older by one, and otherwise the same.
Ages(t) ==
    /\ tick'[t].pc = tick[t].pc /\ tick'[t].r = tick[t].r /\ tick'[t].batch = tick[t].batch
    /\ tick'[t].seen = tick[t].seen /\ tick'[t].snap = tick[t].snap
    /\ tick'[t].mode = tick[t].mode /\ tick'[t].success = tick[t].success
    /\ tick'[t].gone = tick[t].gone
    /\ tick[t].pc # "off" => tick'[t].age = tick[t].age + 1

LEMMA TimePassesType ==
    ASSUME TypeInv, TimePasses
    PROVE  /\ TypeInv' /\ UNCHANGED <<source, job, cooling, note, store, late, vectors, sync>>
           /\ late = {} /\ \A t \in Ticks : Ages(t)
           /\ control'.owner = control.owner /\ control'.phase = control.phase
           /\ control'.lease = Minus(control.lease)
           /\ control'.batch = control.batch /\ control'.succeeded = control.succeeded
<1>1. \A n \in 0 .. Lease : Minus(n) \in 0 .. Lease
  BY DEF Minus
<1>2. /\ control' \in Control /\ control'.owner = control.owner /\ control'.phase = control.phase
      /\ control'.lease = Minus(control.lease)
      /\ control'.batch = control.batch /\ control'.succeeded = control.succeeded
  <2>1. control' = [control EXCEPT !.lease = Minus(@)] /\ control \in Control
    BY TypeFacts DEF TimePasses, TypeInv, TypeOK
  <2>2. Minus(control.lease) \in 0 .. Lease
    BY <1>1, <2>1 DEF Control
  <2> QED
    BY <2>1, <2>2 DEF Control
<1>3. jobLease' \in [Resources -> 0 .. Lease]
  BY <1>1 DEF TimePasses, TypeInv, TypeOK
<1>4. ASSUME NEW t \in Ticks
      PROVE  tick'[t] \in Tick /\ Ages(t)
  <2>1. tick[t] \in Tick
    BY TypeFacts
  <2>2. CASE tick[t].pc = "off"
    <3>1. tick'[t] = tick[t]
      BY <2>2 DEF TimePasses
    <3> QED
      BY <2>1, <2>2, <3>1 DEF Ages
  <2>3. CASE tick[t].pc # "off"
    <3>1. tick'[t] = [tick[t] EXCEPT !.age = @ + 1] /\ tick[t].age < TickTimeout
      BY <2>3 DEF TimePasses
    <3>2. tick[t].age + 1 \in 0 .. TickTimeout
      BY <2>1, <3>1, TickFields
    <3> QED
      BY <2>1, <3>1, <3>2 DEF Ages, Tick
  <2> QED
    BY <2>2, <2>3
<1>5. tick' \in [Ticks -> Tick]
  BY <1>4 DEF TimePasses
<1>6. \A t \in Ticks : Equipped(tick'[t])
  BY <1>4 DEF Equipped, Ages, TypeInv
<1>7. UNCHANGED <<source, job, cooling, note, store, late, vectors, sync, spent>> /\ late = {}
  BY DEF TimePasses
<1>8. TypeInv'
  BY <1>2, <1>3, <1>5, <1>6, <1>7 DEF TypeInv, TypeOK
<1> QED
  BY <1>2, <1>4, <1>7, <1>8

-----------------------------------------------------------------------------

LEMMA InitType ==
    ASSUME Init
    PROVE  /\ TypeInv /\ late = {} /\ sync.ours = "none" /\ sync.external = FALSE
           /\ sync.seen = store /\ control.phase = "IDLE" /\ control.batch = NoBatch
           /\ \A t \in Ticks : tick[t] = Off
           /\ \A r \in Resources :
                 /\ job[r] = NoJob /\ vectors[r] \subseteq {Legacy}
                 /\ store[r] \in {{}, Objects({Legacy})}
<1>1. PICK legacy \in [Resources -> Legacies] :
         /\ store = [r \in Resources |-> IF legacy[r] = "object" THEN Objects({Legacy}) ELSE {}]
         /\ vectors = [r \in Resources |-> IF legacy[r] = "nothing" THEN {} ELSE {Legacy}]
  BY DEF Init
<1>2. Objects({Legacy}) \in SUBSET (Key \X Parts) /\ {Legacy} \in SUBSET Key
  BY LegacyKey DEF Objects
<1>3. /\ store \in [Resources -> SUBSET (Key \X Parts)] /\ vectors \in [Resources -> SUBSET Key]
      /\ \A r \in Resources : /\ vectors[r] \subseteq {Legacy}
                              /\ store[r] \in {{}, Objects({Legacy})}
  <2> DEFINE both == Objects({Legacy})
             one == {Legacy}
  <2> HIDE DEF both, one
  <2>1. /\ store = [r \in Resources |-> IF legacy[r] = "object" THEN both ELSE {}]
        /\ vectors = [r \in Resources |-> IF legacy[r] = "nothing" THEN {} ELSE one]
    BY <1>1 DEF both, one
  <2>2. both \in SUBSET (Key \X Parts) /\ one \in SUBSET Key
    BY <1>2 DEF both, one
  <2>3. /\ store \in [Resources -> SUBSET (Key \X Parts)] /\ vectors \in [Resources -> SUBSET Key]
        /\ \A r \in Resources : vectors[r] \subseteq one /\ store[r] \in {{}, both}
    BY <2>1, <2>2
  <2> QED
    BY <2>3 DEF both, one
<1>4. NoJob \in Job /\ NoBatch \in Batch /\ Off \in Tick /\ Equipped(Off)
  <2>1. Off \in Tick
    BY OffTick
  <2>2. NoJob \in Job /\ NoBatch \in Batch
    BY <2>1, TickFields DEF Off
  <2> QED
    BY <2>1, <2>2, OffTick DEF Equipped, Exporting, Finishing, Parts
<1>5. source \in [Resources -> Source]
  BY DEF Init, Source, Outcomes
<1>6. control \in Control /\ control.phase = "IDLE" /\ control.batch = NoBatch
  BY <1>4 DEF Init, Control
<1>7. /\ sync \in [ours: {"none", "running", "complete", "failed"}, external: BOOLEAN,
                   seen: [Resources -> SUBSET (Key \X Parts)]]
      /\ sync.ours = "none" /\ sync.external = FALSE /\ sync.seen = store
  BY <1>3 DEF Init
<1>8. spent \in [edits: Nat, notes: Nat, externals: Nat, faults: Nat]
  BY DEF Init
<1>9. /\ job = [r \in Resources |-> NoJob] /\ jobLease = [r \in Resources |-> 0]
      /\ cooling = [r \in Resources |-> FALSE] /\ tick = [t \in Ticks |-> Off]
      /\ note = {} /\ late = {}
  BY DEF Init
<1>10. /\ job \in [Resources -> Job] /\ jobLease \in [Resources -> 0 .. Lease]
       /\ cooling \in [Resources -> BOOLEAN] /\ tick \in [Ticks -> Tick]
       /\ note \subseteq [r: Resources, rev: Revision] /\ late \subseteq Resources \X Key \X Parts
       /\ \A t \in Ticks : tick[t] = Off
       /\ \A r \in Resources : job[r] = NoJob
  BY <1>4, <1>9
<1>11. TypeInv
  BY <1>3, <1>4, <1>5, <1>6, <1>7, <1>8, <1>10 DEF TypeInv, TypeOK
<1> QED
  BY <1>3, <1>6, <1>7, <1>9, <1>10, <1>11

\* The actions of a tick that stay within a phase.
Within(t) ==
    \/ Busy(t) \/ Look(t) \/ Choose(t)
    \/ Take(t) \/ Begin(t) \/ ReadSource(t) \/ Plan(t) \/ Put(t) \/ Verify(t) \/ Track(t)
    \/ Sweep(t) \/ Ready(t) \/ FailPurged(t) \/ Defer(t) \/ FailDeferred(t)
    \/ Retry(t) \/ Dispose(t) \/ Requeue(t) \/ Count(t)
    \/ Find(t) \/ Docs(t) \/ Reread(t) \/ Settle(t) \/ Tally(t) \/ CallFails(t) \/ Crash(t)

LEMMA WithinType ==
    ASSUME TypeInv, NEW t \in Ticks, Within(t)
    PROVE  TypeInv' /\ Coarse(t) /\ Stays(t)
<1>1. CASE Busy(t) \/ Look(t) \/ Choose(t)
  BY <1>1, BusyType, LookType, ChooseType
<1>2. CASE \/ Take(t) \/ Begin(t) \/ ReadSource(t) \/ Plan(t) \/ Put(t) \/ Verify(t) \/ Track(t)
           \/ Sweep(t)
  BY <1>2, TakeType, BeginType, ReadType, PlanType, PutType, VerifyType, TrackType, SweepType
<1>3. CASE Ready(t) \/ FailPurged(t) \/ Defer(t) \/ FailDeferred(t)
  BY <1>3, ReadyType, FailType, DeferType, DeferredType
<1>4. CASE Retry(t) \/ Dispose(t) \/ Requeue(t) \/ Count(t) \/ Tally(t)
  BY <1>4, RetryType, DisposeType, RequeueType, TallyType
<1>5. CASE Find(t) \/ Docs(t) \/ Reread(t) \/ Settle(t)
  BY <1>5, FindType, DocsType, RereadType, SettleType
<1>6. CASE CallFails(t) \/ Crash(t)
  BY <1>6, CallFailsType, CrashType
<1> QED
  BY <1>1, <1>2, <1>3, <1>4, <1>5, <1>6 DEF Within

\* The cases of a step.
Outside ==
    \/ \E r \in Resources : ReadForNote(r) \/ CoolsDown(r) \/ Edit(r)
    \/ Enqueue \/ Resolve \/ IngestionEnds \/ ExternalStarts \/ ExternalEnds \/ TimePasses

LEMMA Steps ==
    ASSUME Next
    PROVE  \/ \E t \in Ticks :
                 \/ Within(t) \/ Claim(t) \/ Release(t)
                 \/ CloseReconcile(t) \/ CloseExport(t) \/ CloseFinal(t)
                 \/ Start(t) \/ Run(t) \/ Get(t)
           \/ Outside
  BY DEF Next, Work, Within, Outside

LEMMA StepType ==
    ASSUME TypeInv, Next
    PROVE  TypeInv'
<1>1. ASSUME NEW t \in Ticks, \/ Within(t) \/ Claim(t) \/ Release(t)
                              \/ CloseReconcile(t) \/ CloseExport(t) \/ CloseFinal(t)
                              \/ Start(t) \/ Run(t) \/ Get(t)
      PROVE  TypeInv'
  BY <1>1, WithinType, ClaimType, ReleaseType, CloseReconcileType, CloseExportType, CloseFinalType,
     StartType, RunType, GetType
<1>2. CASE Outside
  <2>1. ASSUME NEW r \in Resources, ReadForNote(r) \/ CoolsDown(r) \/ Edit(r)
        PROVE  TypeInv'
    BY <2>1, ReadForNoteType, CoolsDownType, EditType
  <2>2. CASE Enqueue \/ Resolve \/ IngestionEnds \/ ExternalStarts \/ ExternalEnds \/ TimePasses
    BY <2>2, EnqueueType, ResolveType, IngestionEndsType, ExternalStartsType, ExternalEndsType,
       TimePassesType
  <2> QED
    BY <1>2, <2>1, <2>2 DEF Outside
<1> QED
  BY <1>1, <1>2, Steps

LEMMA StutterType ==
    ASSUME TypeInv, UNCHANGED vars
    PROVE  TypeInv'
<1>1. UNCHANGED <<source, job, jobLease, cooling, control, tick, note, store, late, vectors, sync,
                  spent>>
  BY DEF vars
<1> QED
  BY <1>1 DEF TypeInv, TypeOK

\* Every row, object, ingestion and tick is always what its type says, and a tick that
\* handles a member has one (the shapes service/indexing.go reads back unchecked).
THEOREM TypeCorrect == Spec => []TypeOK
<1>1. Init => TypeInv
  BY InitType
<1>2. TypeInv /\ [Next]_vars => TypeInv'
  BY StepType, StutterType
<1>3. TypeInv => TypeOK
  BY DEF TypeInv
<1> QED
  BY <1>1, <1>2, <1>3, PTL DEF Spec

-----------------------------------------------------------------------------
(* One tick at a time, and what each phase allows. *)

\* A live tick owns the control row, whose lease outlives it; so does every late put.
LeaseHeld ==
    /\ \A t \in Ticks : tick[t].pc # "off" =>
          control.owner = t /\ control.lease + tick[t].age >= Lease
    /\ late # {} => control.lease > 0 /\ \A t \in Ticks : tick[t].pc = "off"

\* The phase of the control row is the one the tick works in.
PhaseOfStep ==
    \A t \in Ticks :
        /\ tick[t].pc \in Idling => control.phase = "IDLE"
        /\ tick[t].pc \in Exporting => control.phase = "EXPORTING"
        /\ tick[t].pc \in {"start", "run"} => control.phase = "PREPARED"
        /\ tick[t].pc = "run" => sync.ours # "none"
        /\ tick[t].pc = "get" => control.phase = "RUNNING"
        /\ tick[t].pc \in Finishing => control.phase = "FINALIZING"
        /\ tick[t].pc = "close" => control.phase \in {"IDLE", "EXPORTING", "FINALIZING"}

Ingesting == sync.ours = "running" \/ sync.external = TRUE

\* ... and what the provider's job may be in it.
PhaseOfSync ==
    /\ late # {} => control.phase = "EXPORTING"
    /\ sync.ours = "running" => control.phase \in {"PREPARED", "RUNNING"} /\ sync.external = FALSE
    /\ control.phase = "RUNNING" => sync.ours # "none"
    /\ sync.ours # "none" /\ ~Ingesting => \A r \in Resources : sync.seen[r] = {}
    /\ control.phase = "FINALIZING" =>
          sync.ours \in {"complete", "failed"} /\ (control.succeeded => sync.ours = "complete")

Phases == LeaseHeld /\ PhaseOfStep /\ PhaseOfSync

LEMMA Alone ==
    ASSUME TypeInv, LeaseHeld, NEW t \in Ticks, tick[t].pc # "off"
    PROVE  /\ late = {} /\ control.lease > 0
           /\ \A u \in Ticks : u # t => tick[u].pc = "off"
<1>1. tick[t].age \in 0 .. TickTimeout /\ control.lease \in Nat
  BY TypeFacts, TickFields, ControlFields
<1>2. control.lease + tick[t].age >= Lease /\ control.owner = t
  BY DEF LeaseHeld
<1>3. control.lease > 0
  BY <1>1, <1>2
<1> QED
  BY <1>2, <1>3 DEF LeaseHeld

\* Nobody claims while a tick lives or a put may land.
LEMMA ClaimAlone ==
    ASSUME TypeInv, LeaseHeld, NEW t \in Ticks, Claim(t)
    PROVE  late = {} /\ \A u \in Ticks : tick[u].pc = "off"
<1>1. control.lease = 0
  BY DEF Claim
<1>2. \A u \in Ticks : tick[u].pc = "off"
  BY <1>1, Alone
<1> QED
  BY <1>1, <1>2 DEF LeaseHeld

\* What the steps of a tick do to the provider and the bucket.
LEMMA WithinSync ==
    ASSUME NEW t \in Ticks, Within(t)
    PROVE  /\ sync' = sync /\ vectors' = vectors
           /\ late' = late \/ tick[t].pc \in Parts
           /\ store' = store \/ tick[t].pc \in Exporting
<1>1. CASE \/ Busy(t) \/ Look(t) \/ Choose(t) \/ Take(t) \/ Begin(t) \/ ReadSource(t) \/ Plan(t)
           \/ Verify(t)
  BY <1>1 DEF Busy, Look, Choose, Take, Begin, ReadSource, Plan, Verify
<1>2. CASE Put(t) \/ Sweep(t) \/ Dispose(t)
  BY <1>2 DEF Put, Sweep, Dispose, Parts, Exporting
<1>3. CASE Track(t) \/ Ready(t) \/ FailPurged(t) \/ Defer(t) \/ FailDeferred(t) \/ Retry(t)
  BY <1>3 DEF Track, Ready, FailPurged, Defer, FailDeferred, Retry
<1>4. CASE Requeue(t) \/ Count(t) \/ Tally(t) \/ Find(t) \/ Docs(t) \/ Reread(t) \/ Settle(t)
  BY <1>4 DEF Requeue, Count, Tally, MemberFailure, Find, Docs, Reread, Settle
<1>5. CASE CallFails(t) \/ Crash(t)
  BY <1>5 DEF CallFails, Crash
<1> QED
  BY <1>1, <1>2, <1>3, <1>4, <1>5 DEF Within

\* The closings of a phase.
CloseEffect(t) ==
    /\ tick[t].pc = "close" /\ tick'[t].batch = tick[t].batch
    /\ UNCHANGED <<source, rows, note, store, late, vectors>>
    /\ \/ /\ control.phase = "IDLE" /\ sync' = sync /\ control'.phase = "IDLE"
          /\ control'.batch = NoBatch /\ tick'[t].pc = "return"
       \/ /\ control.phase = "IDLE" /\ sync' = sync /\ control'.phase = "EXPORTING"
          /\ control'.batch = tick[t].batch /\ tick'[t].pc \in {"take", "close"}
          /\ Fresh(tick'[t])
       \/ /\ control.phase = "EXPORTING" /\ sync' = sync /\ control'.phase = "EXPORTING"
          /\ control'.batch = tick[t].batch /\ tick'[t].pc = "return"
       \/ /\ control.phase = "EXPORTING" /\ control'.phase = "PREPARED"
          /\ control'.batch = tick[t].batch /\ tick'[t].pc = "start"
          /\ sync'.ours = "none" /\ sync'.external = sync.external /\ sync'.seen = sync.seen
       \/ /\ control.phase = "FINALIZING" /\ sync' = sync /\ control'.phase = "FINALIZING"
          /\ control'.batch = tick[t].batch /\ control'.succeeded = control.succeeded
          /\ tick'[t].pc = "return"
       \/ /\ control.phase = "FINALIZING" /\ sync' = sync /\ control'.phase = "IDLE"
          /\ control'.batch = NoBatch /\ tick'[t].pc = "return"

LEMMA CloseMoves ==
    ASSUME TypeInv, NEW t \in Ticks, CloseReconcile(t) \/ CloseExport(t) \/ CloseFinal(t)
    PROVE  CloseEffect(t)
<1> DEFINE e == tick[t]
           x == [e EXCEPT !.todo = Live(e.batch)]
<1>1. /\ e \in Tick /\ TickType /\ control \in Control /\ e.batch \in Batch
      /\ "return" \in Step /\ "start" \in Step
  BY TypeFacts, TickFields DEF Step
<1>2. Goto(t, e, "return") => tick'[t].pc = "return" /\ tick'[t].batch = e.batch
  BY <1>1, GotoStep
<1>3. CASE CloseReconcile(t)
  <2>1. CASE control' = [control EXCEPT !.batch = NoBatch] /\ Goto(t, e, "return")
    <3>1. control'.batch = NoBatch /\ control'.phase = control.phase
      BY <1>1, <2>1 DEF Control
    <3> QED
      BY <1>2, <1>3, <2>1, <3>1 DEF CloseReconcile, CloseEffect
  <2>2. CASE /\ control' = [control EXCEPT !.batch = e.batch, !.phase = "EXPORTING"]
             /\ Onward(t, x, "take")
    <3>1. control'.batch = e.batch /\ control'.phase = "EXPORTING"
      BY <1>1, <2>2 DEF Control
    <3>2. x \in Tick /\ x.batch = e.batch
      BY <1>1 DEF Tick, Live
    <3>3. "take" \in Step \ {"close"}
      BY DEF Step, Exporting
    <3> HIDE DEF x
    <3>4. tick'[t].pc \in {"take", "close"} /\ tick'[t].batch = e.batch /\ Fresh(tick'[t])
      BY <1>1, <2>2, <3>2, <3>3, OnwardStep
    <3> QED
      BY <1>3, <3>1, <3>4 DEF CloseReconcile, CloseEffect
  <2> QED
    BY <1>3, <2>1, <2>2 DEF CloseReconcile, SaveIndexControl
<1>4. CASE CloseExport(t)
  <2>1. CASE /\ control' = [control EXCEPT !.batch = e.batch]
             /\ Goto(t, e, "return") /\ UNCHANGED sync
    <3>1. control'.batch = e.batch /\ control'.phase = control.phase
      BY <1>1, <2>1 DEF Control
    <3> QED
      BY <1>2, <1>4, <2>1, <3>1 DEF CloseExport, CloseEffect
  <2>2. CASE /\ control' = [control EXCEPT !.batch = e.batch, !.phase = "PREPARED"]
             /\ Goto(t, e, "start") /\ sync' = [sync EXCEPT !.ours = "none"]
    <3>1. control'.batch = e.batch /\ control'.phase = "PREPARED"
      BY <1>1, <2>2 DEF Control
    <3>2. sync'.ours = "none" /\ sync'.external = sync.external /\ sync'.seen = sync.seen
      BY <2>2 DEF TypeInv, TypeOK
    <3>3. tick'[t].pc = "start" /\ tick'[t].batch = e.batch
      BY <1>1, <2>2, GotoStep
    <3> QED
      BY <1>4, <3>1, <3>2, <3>3 DEF CloseExport, CloseEffect
  <2> QED
    BY <1>4, <2>1, <2>2 DEF CloseExport, SaveIndexControl
<1>5. CASE CloseFinal(t)
  <2>1. CASE control' = [control EXCEPT !.batch = e.batch]
    <3>1. control'.batch = e.batch /\ control'.phase = control.phase
          /\ control'.succeeded = control.succeeded
      BY <1>1, <2>1 DEF Control
    <3> QED
      BY <1>2, <1>5, <3>1 DEF CloseFinal, CloseEffect
  <2>2. CASE control' = [control EXCEPT !.batch = NoBatch, !.phase = "IDLE", !.succeeded = FALSE]
    <3>1. control'.batch = NoBatch /\ control'.phase = "IDLE"
      BY <1>1, <2>2 DEF Control
    <3> QED
      BY <1>2, <1>5, <3>1 DEF CloseFinal, CloseEffect
  <2> QED
    BY <1>5, <2>1, <2>2 DEF CloseFinal, SaveIndexControl
<1> QED
  BY <1>3, <1>4, <1>5

LEMMA CloseType ==
    ASSUME TypeInv, NEW t \in Ticks, CloseReconcile(t) \/ CloseExport(t) \/ CloseFinal(t)
    PROVE  TypeInv' /\ Coarse(t)
  BY CloseReconcileType, CloseExportType, CloseFinalType

\* The lease survives each step: a step of a live tick, a claim, the rest.
LEMMA CoarseLease ==
    ASSUME TypeInv, LeaseHeld, NEW t \in Ticks, Coarse(t)
    PROVE  LeaseHeld'
<1>1. /\ tick[t].pc # "off" /\ control.owner = t /\ control.lease + tick[t].age >= Lease
      /\ late = {} /\ control.lease > 0
      /\ \A u \in Ticks : u # t => tick'[u].pc = "off"
  BY Alone DEF LeaseHeld, Coarse, Others
<1>2. \/ tick'[t].pc = "off"
      \/ tick'[t].age = tick[t].age /\ late' = {}
  BY <1>1 DEF Coarse
<1>3. control'.owner = t /\ control'.lease = control.lease
  BY <1>1 DEF Coarse
<1> QED
  BY <1>1, <1>2, <1>3 DEF LeaseHeld

LEMMA ClaimLease ==
    ASSUME TypeInv, LeaseHeld, NEW t \in Ticks, Claim(t)
    PROVE  LeaseHeld'
<1>1. late' = {} /\ \A u \in Ticks : u # t => tick'[u].pc = "off"
  <2>1. late' = late
    BY DEF Claim
  <2>2. Others(t)
    BY ClaimType
  <2> QED
    BY <2>1, <2>2, ClaimAlone DEF Others
<1>2. control'.owner = t /\ control'.lease = Lease /\ tick'[t].age = 0
  BY ClaimType
<1> QED
  BY <1>1, <1>2 DEF LeaseHeld

LEMMA ReleaseLease ==
    ASSUME TypeInv, LeaseHeld, NEW t \in Ticks, Release(t)
    PROVE  LeaseHeld'
<1>1. tick[t].pc # "off" /\ tick'[t].pc = "off" /\ Others(t) /\ late' = late
  BY ReleaseType, OffTick DEF Release
<1>2. late = {} /\ \A u \in Ticks : tick'[u].pc = "off"
  BY <1>1, Alone DEF Others
<1> QED
  BY <1>1, <1>2 DEF LeaseHeld

\* What nobody but a tick does.
LEMMA OutsideMoves ==
    ASSUME TypeInv, Outside
    PROVE  /\ control'.phase = control.phase /\ control'.batch = control.batch
           /\ control'.succeeded = control.succeeded /\ late' \subseteq late
           /\ \A t \in Ticks : /\ tick'[t].pc = tick[t].pc /\ tick'[t].r = tick[t].r
                               /\ tick'[t].batch = tick[t].batch /\ tick'[t].seen = tick[t].seen
                               /\ tick'[t].snap = tick[t].snap /\ tick'[t].mode = tick[t].mode
                               /\ tick'[t].success = tick[t].success
                               /\ tick'[t].gone = tick[t].gone
           /\ TimePasses \/ (tick' = tick /\ control' = control)
<1>1. ASSUME NEW r \in Resources, ReadForNote(r) \/ CoolsDown(r) \/ Edit(r)
      PROVE  tick' = tick /\ control' = control /\ late' = late
  BY <1>1, ReadForNoteType, CoolsDownType, EditType
<1>2. CASE Enqueue \/ IngestionEnds \/ ExternalStarts \/ ExternalEnds
  BY <1>2, EnqueueType, IngestionEndsType, ExternalStartsType, ExternalEndsType
<1>3. CASE Resolve
  BY <1>3, ResolveType
<1>4. CASE TimePasses
  BY <1>4, TimePassesType DEF Ages
<1> QED
  BY <1>1, <1>2, <1>3, <1>4 DEF Outside

LEMMA OutsideLease ==
    ASSUME TypeInv, LeaseHeld, Outside
    PROVE  LeaseHeld'
<1>1. CASE TimePasses
  <2>1. late' = {} /\ control'.lease = Minus(control.lease) /\ control'.owner = control.owner
    <3>1. late' = {}
      BY <1>1 DEF TimePasses
    <3> QED
      BY <1>1, <3>1, TimePassesType
  <2>2. control.lease \in Nat
    BY ControlFields DEF TypeInv, TypeOK
  <2>3. ASSUME NEW t \in Ticks, tick'[t].pc # "off"
        PROVE  control'.owner = t /\ control'.lease + tick'[t].age >= Lease
    <3>1. Ages(t) /\ tick[t].age \in Nat
      BY <1>1, TimePassesType, TypeFacts, TickFields
    <3>2. /\ tick[t].pc # "off" /\ control.owner = t /\ control.lease + tick[t].age >= Lease
          /\ control.lease > 0
      BY <2>3, <3>1, Alone DEF Ages, LeaseHeld
    <3>3. tick'[t].age = tick[t].age + 1 /\ Minus(control.lease) = control.lease - 1
      BY <2>2, <3>1, <3>2 DEF Ages, Minus
    <3> QED
      BY <2>1, <2>2, <3>1, <3>2, <3>3
  <2> QED
    BY <2>1, <2>3 DEF LeaseHeld
<1>2. CASE tick' = tick /\ control' = control
  <2>1. late' \subseteq late
    BY OutsideMoves
  <2> QED
    BY <1>2, <2>1 DEF LeaseHeld
<1> QED
  BY <1>1, <1>2, OutsideMoves

\* The phase, where the only live tick moves.
LEMMA OnePhase ==
    ASSUME NEW t \in Ticks, \A u \in Ticks : u # t => tick'[u].pc = "off",
           /\ tick'[t].pc \in Idling => control'.phase = "IDLE"
           /\ tick'[t].pc \in Exporting => control'.phase = "EXPORTING"
           /\ tick'[t].pc \in {"start", "run"} => control'.phase = "PREPARED"
           /\ tick'[t].pc = "run" => sync'.ours # "none"
           /\ tick'[t].pc = "get" => control'.phase = "RUNNING"
           /\ tick'[t].pc \in Finishing => control'.phase = "FINALIZING"
           /\ tick'[t].pc = "close" => control'.phase \in {"IDLE", "EXPORTING", "FINALIZING"}
    PROVE  PhaseOfStep'
<1>1. "off" \notin Idling \cup Exporting \cup Finishing \cup {"start", "run", "get", "close"}
  BY DEF Idling, Exporting, Finishing
<1> QED
  BY <1>1 DEF PhaseOfStep, Idling, Exporting, Finishing

\* The sets of steps are disjoint.
LEMMA StepClasses ==
    /\ \A pc \in Idling : pc \notin Exporting \cup Finishing \cup {"start", "run", "get", "close", "off", "return"}
    /\ \A pc \in Exporting : pc \notin Finishing \cup {"start", "run", "get", "close", "off", "return"}
    /\ \A pc \in Finishing : pc \notin {"start", "run", "get", "close", "off", "return"}
    /\ Parts \subseteq Exporting /\ "take" \in Exporting /\ "find" \in Finishing /\ "busy" \in Idling
  BY DEF Idling, Exporting, Finishing, Parts

LEMMA WithinPhases ==
    ASSUME TypeInv, Phases, NEW t \in Ticks, Within(t)
    PROVE  Phases'
<1>1. TypeInv' /\ Coarse(t) /\ Stays(t)
  BY WithinType
<1>2. LeaseHeld'
  BY <1>1, CoarseLease DEF Phases
<1>3. \A u \in Ticks : u # t => tick'[u].pc = "off"
  BY <1>1, Alone DEF Coarse, Others, Phases
<1>4. control' = control /\ sync' = sync
  BY <1>1, WithinSync DEF Stays
<1>5. late' # {} => control.phase = "EXPORTING"
  BY WithinSync, StepClasses DEF Phases, PhaseOfSync, PhaseOfStep
<1>6. PhaseOfSync'
  BY <1>4, <1>5 DEF Phases, PhaseOfSync, Ingesting
<1>7. PhaseOfStep'
  <2>1. CASE tick'[t].pc \in {"return", "off"}
    BY <1>3, <2>1, StepClasses, OnePhase
  <2>2. ASSUME NEW class \in {Idling, Exporting, Finishing}, tick[t].pc \in class,
               tick'[t].pc \in class \cup {"close"}
        PROVE  PhaseOfStep'
    <3>1. control.phase = (IF class = Idling THEN "IDLE"
                           ELSE IF class = Exporting THEN "EXPORTING" ELSE "FINALIZING")
      BY <2>2 DEF Phases, PhaseOfStep
    <3>2. CASE class = Idling
      BY <1>3, <1>4, <2>2, <3>1, <3>2, StepClasses, OnePhase
    <3>3. CASE class = Exporting
      BY <1>3, <1>4, <2>2, <3>3, StepClasses, OnePhase DEF Phases, PhaseOfStep
    <3>4. CASE class = Finishing
      BY <1>3, <1>4, <2>2, <3>4, StepClasses, OnePhase DEF Phases, PhaseOfStep
    <3> QED
      BY <3>2, <3>3, <3>4
  <2> QED
    BY <1>1, <2>1, <2>2 DEF Stays
<1> QED
  BY <1>2, <1>6, <1>7 DEF Phases

LEMMA ClosePhases ==
    ASSUME TypeInv, Phases, NEW t \in Ticks, CloseReconcile(t) \/ CloseExport(t) \/ CloseFinal(t)
    PROVE  Phases'
<1>1. Coarse(t) /\ CloseEffect(t)
  BY CloseType, CloseMoves
<1>2. LeaseHeld'
  BY <1>1, CoarseLease DEF Phases
<1>3. late' = {} /\ \A u \in Ticks : u # t => tick'[u].pc = "off"
  BY <1>1, Alone DEF Coarse, CloseEffect, Others, Phases
<1>4. PhaseOfSync'
  BY <1>1, <1>3 DEF CloseEffect, Phases, PhaseOfSync, Ingesting
<1>5. PhaseOfStep'
  BY <1>1, <1>3, StepClasses, OnePhase DEF CloseEffect
<1> QED
  BY <1>2, <1>4, <1>5 DEF Phases

LEMMA RunPhases ==
    ASSUME TypeInv, Phases, NEW t \in Ticks, Start(t) \/ Run(t) \/ Get(t)
    PROVE  Phases'
<1>1. Coarse(t)
  BY StartType, RunType, GetType
<1>2. LeaseHeld'
  BY <1>1, CoarseLease DEF Phases
<1>3. late' = {} /\ \A u \in Ticks : u # t => tick'[u].pc = "off"
  BY <1>1, Alone DEF Coarse, Others, Phases, Start, Run, Get
<1>4. CASE Start(t)
  <2>1. /\ control' = control /\ control.phase = "PREPARED"
        /\ tick'[t].pc = "return" \/ (tick'[t].pc = "run" /\ sync'.ours # "none")
        /\ \/ sync' = sync
           \/ sync'.ours = "running" /\ sync'.external = FALSE
    BY <1>4, StartType DEF Start, Phases, PhaseOfStep
  <2>2. PhaseOfStep'
    BY <1>3, <2>1, StepClasses, OnePhase
  <2>3. PhaseOfSync'
    BY <1>3, <2>1 DEF Phases, PhaseOfSync, Ingesting
  <2> QED
    BY <1>2, <2>2, <2>3 DEF Phases
<1>5. CASE Run(t)
  <2>1. /\ control'.phase = "RUNNING" /\ control.phase = "PREPARED" /\ sync' = sync
        /\ tick'[t].pc = "return" /\ sync.ours # "none"
    BY <1>5, RunType DEF Run, Phases, PhaseOfStep
  <2>2. PhaseOfStep'
    BY <1>3, <2>1, StepClasses, OnePhase
  <2>3. PhaseOfSync'
    BY <1>3, <2>1 DEF Phases, PhaseOfSync, Ingesting
  <2> QED
    BY <1>2, <2>2, <2>3 DEF Phases
<1>6. CASE Get(t)
  <2>1. /\ control.phase = "RUNNING" /\ sync' = sync
        /\ \/ control' = control /\ tick'[t].pc = "return"
           \/ /\ sync.ours # "running" /\ tick'[t].pc \in {"find", "close"}
              /\ control'.phase = "FINALIZING" /\ control'.succeeded = (sync.ours = "complete")
    BY <1>6, GetType DEF Get, Phases, PhaseOfStep
  <2>2. PhaseOfStep'
    BY <1>3, <2>1, StepClasses, OnePhase
  <2>3. sync.ours \in {"none", "running", "complete", "failed"}
    BY DEF TypeInv, TypeOK
  <2>4. PhaseOfSync'
    BY <1>3, <2>1, <2>3 DEF Phases, PhaseOfSync, Ingesting
  <2> QED
    BY <1>2, <2>2, <2>4 DEF Phases
<1> QED
  BY <1>4, <1>5, <1>6

LEMMA ClaimPhases ==
    ASSUME TypeInv, Phases, NEW t \in Ticks, Claim(t)
    PROVE  Phases'
<1>1. LeaseHeld' /\ UNCHANGED <<sync, late>> /\ late = {}
  BY ClaimLease, ClaimAlone DEF Claim, Phases
<1>2. /\ Others(t) /\ control'.phase = control.phase /\ control'.succeeded = control.succeeded
      /\ \/ tick'[t].pc = Entry(control.phase)
         \/ tick'[t].pc = "close" /\ control.phase \in {"EXPORTING", "FINALIZING"}
  BY ClaimType
<1>3. \A u \in Ticks : u # t => tick'[u].pc = "off"
  BY <1>2, ClaimAlone DEF Others, Phases
<1>4. control.phase \in {"IDLE", "EXPORTING", "PREPARED", "RUNNING", "FINALIZING"}
  BY TypeFacts, ControlFields
<1>5. PhaseOfStep'
  BY <1>2, <1>3, <1>4, StepClasses, OnePhase DEF Entry
<1>6. PhaseOfSync'
  BY <1>1, <1>2 DEF Phases, PhaseOfSync, Ingesting
<1> QED
  BY <1>1, <1>5, <1>6 DEF Phases

LEMMA ReleasePhases ==
    ASSUME TypeInv, Phases, NEW t \in Ticks, Release(t)
    PROVE  Phases'
<1>1. /\ Others(t) /\ tick[t].pc = "return" /\ tick'[t].pc = "off"
      /\ control'.phase = control.phase /\ control'.succeeded = control.succeeded
  BY ReleaseType, OffTick
<1>2. LeaseHeld' /\ UNCHANGED <<sync, late>>
  BY ReleaseLease DEF Release, Phases
<1>3. \A u \in Ticks : u # t => tick'[u].pc = "off"
  BY <1>1, Alone DEF Others, Phases
<1>4. PhaseOfStep'
  BY <1>1, <1>3, StepClasses, OnePhase
<1>5. PhaseOfSync'
  BY <1>1, <1>2 DEF Phases, PhaseOfSync, Ingesting
<1> QED
  BY <1>2, <1>4, <1>5 DEF Phases

LEMMA OutsidePhases ==
    ASSUME TypeInv, Phases, Outside
    PROVE  Phases'
<1>1. LeaseHeld'
  BY OutsideLease DEF Phases
<1>2. /\ control'.phase = control.phase /\ control'.succeeded = control.succeeded
      /\ late' \subseteq late /\ \A t \in Ticks : tick'[t].pc = tick[t].pc
  BY OutsideMoves
<1>3. \/ sync' = sync
      \/ /\ sync.ours = "running" /\ sync'.ours \in {"complete", "failed"}
         /\ sync'.external = sync.external /\ sync'.seen = [r \in Resources |-> {}]
      \/ sync.ours # "running" /\ sync'.ours = sync.ours /\ sync'.external = TRUE
      \/ /\ sync.external = TRUE /\ sync'.ours = sync.ours /\ sync'.external = FALSE
         /\ sync'.seen = [r \in Resources |-> {}]
  <2>1. ASSUME NEW r \in Resources, ReadForNote(r) \/ CoolsDown(r) \/ Edit(r)
        PROVE  sync' = sync
    BY <2>1, ReadForNoteType, CoolsDownType, EditType
  <2>2. CASE Enqueue \/ Resolve \/ TimePasses
    BY <2>2, EnqueueType, ResolveType, TimePassesType
  <2>3. CASE IngestionEnds \/ ExternalStarts \/ ExternalEnds
    BY <2>3, IngestionEndsType, ExternalStartsType, ExternalEndsType
  <2> QED
    BY <2>1, <2>2, <2>3 DEF Outside
<1>4. PhaseOfStep'
  BY <1>2, <1>3 DEF Phases, PhaseOfStep
<1>5. PhaseOfSync'
  BY <1>2, <1>3 DEF Phases, PhaseOfSync, Ingesting
<1> QED
  BY <1>1, <1>4, <1>5 DEF Phases

LEMMA StepPhases ==
    ASSUME TypeInv, Phases, Next
    PROVE  Phases'
  BY WithinPhases, ClaimPhases, ReleasePhases, ClosePhases, RunPhases, OutsidePhases, Steps

LEMMA InitPhases ==
    ASSUME Init
    PROVE  TypeInv /\ Phases
<1>1. /\ TypeInv /\ late = {} /\ sync.ours = "none" /\ control.phase = "IDLE"
      /\ \A t \in Ticks : tick[t].pc = "off"
  BY InitType, OffTick
<1> QED
  BY <1>1, StepClasses DEF Phases, LeaseHeld, PhaseOfStep, PhaseOfSync, Ingesting

LEMMA StutterPhases ==
    ASSUME TypeInv, Phases, UNCHANGED vars
    PROVE  Phases'
<1>1. UNCHANGED <<control, tick, late, sync>>
  BY DEF vars
<1> QED
  BY <1>1 DEF Phases, LeaseHeld, PhaseOfStep, PhaseOfSync, Ingesting

\* The bucket changes where a tick exports, or where a late put lands.
LEMMA StoreSteps ==
    ASSUME TypeInv, Next, store' # store
    PROVE  (\E t \in Ticks : tick[t].pc \in Exporting /\ Within(t)) \/ late # {}
<1>1. ASSUME NEW t \in Ticks, Within(t)
      PROVE  tick[t].pc \in Exporting
  BY <1>1, WithinSync
<1>2. ASSUME NEW t \in Ticks, \/ Claim(t) \/ Release(t)
                              \/ CloseReconcile(t) \/ CloseExport(t) \/ CloseFinal(t)
                              \/ Start(t) \/ Run(t) \/ Get(t)
      PROVE  FALSE
  BY <1>2 DEF Claim, Release, CloseReconcile, CloseExport, CloseFinal, Start, Run, Get
<1>3. CASE Outside
  <2>1. ASSUME NEW r \in Resources, ReadForNote(r) \/ CoolsDown(r) \/ Edit(r)
        PROVE  FALSE
    BY <2>1, ReadForNoteType, CoolsDownType, EditType
  <2>2. CASE Enqueue \/ IngestionEnds \/ ExternalStarts \/ ExternalEnds \/ TimePasses
    BY <2>2, EnqueueType, IngestionEndsType, ExternalStartsType, ExternalEndsType, TimePassesType
  <2>3. CASE Resolve
    BY <2>3 DEF Resolve
  <2> QED
    BY <1>3, <2>1, <2>2, <2>3 DEF Outside
<1> QED
  BY <1>1, <1>2, <1>3, Steps

\* While the ingestion of a batch is at work nobody changes the bucket: a tick that would
\* has lost its lease, and a put too late has landed or is lost
\* (service/indexing.go:88, "A durable batch freezes S3 mutations").
THEOREM BucketFrozen == Spec => Frozen
<1>1. Init => TypeInv /\ Phases
  BY InitPhases
<1>2. TypeInv /\ Phases /\ [Next]_vars => (TypeInv /\ Phases)'
  BY StepType, StepPhases, StutterType, StutterPhases
<1>3. TypeInv /\ Phases /\ [Next]_vars => [sync.ours = "running" => store' = store]_vars
  <2> SUFFICES ASSUME TypeInv, Phases, Next, sync.ours = "running", store' # store
               PROVE  FALSE
    BY DEF vars
  <2>1. control.phase = "EXPORTING"
    BY StoreSteps DEF Phases, PhaseOfStep, PhaseOfSync
  <2> QED
    BY <2>1 DEF Phases, PhaseOfSync
<1> QED
  BY <1>1, <1>2, <1>3, PTL DEF Spec, Frozen

-----------------------------------------------------------------------------
(* The inductive invariant of the members. *)

Exposed == Outcomes \cup {"WAITING_SYNC"}
Closed == {"PREPARED", "RUNNING", "FINALIZING"}

\* A tick that prepares a member holds the row as its own last write left it, except that
\* somebody may have asked for it again; and nobody has exposed it.  Before its first write
\* it holds the row it read.
Held == {"read", "plan", "sidecar", "data", "verify", "track", "sweep", "ready", "fail",
         "deferred", "dispose", "requeue"}
Holding(e) ==
    /\ e.pc \in Held => /\ Same(job[e.r], e.seen) /\ e.seen.state \notin Exposed
                        /\ job[e.r].state \in {e.seen.state, "PENDING"}
    /\ e.pc = "begin" => job[e.r] = e.seen \/ job[e.r].state = "PENDING"
    /\ e.pc = "defer" => job[e.r].state \notin Exposed

Publishing(e) ==
    e.pc \in {"read", "plan", "sidecar", "data", "verify", "ready"}
    \/ (e.pc \in {"track", "sweep"} /\ e.mode = "publish")
Modes(e) ==
    /\ e.pc \in {"take", "begin", "read", "plan", "sidecar", "data", "verify", "ready"} =>
          e.mode = "publish"
    /\ Publishing(e) => e.seen.state = "PREPARING" /\ e.seen.run \in Runs
    /\ e.pc = "fail" => e.mode = "purge"

\* What is planned, then put, then alone in the bucket.
Planned(e) == e.pc \in {"sidecar", "data", "verify"} \/ (e.pc = "track" /\ e.mode = "publish")
Complete(e) == e.pc = "ready" \/ (e.pc = "sweep" /\ e.mode = "publish")
Staging(e) ==
    /\ Planned(e) => /\ Readable(e.snap) /\ e.seen.rev = e.snap
                     /\ e.seen.pending = KeysOf(e.snap, e.seen.run)
    /\ e.pc = "data" => \A k \in e.seen.pending : <<k, "sidecar">> \in store[e.r]
    /\ e.pc = "verify" \/ (e.pc = "track" /\ e.mode = "publish") =>
          Objects(e.seen.pending) \subseteq store[e.r]
    /\ Complete(e) =>
          /\ Objects(e.seen.keys) \subseteq store[e.r] /\ Readable(e.seen.rev)
          /\ e.seen.keys = KeysOf(e.seen.rev, e.seen.run)
          /\ Legacy \in e.seen.removed /\ e.seen.keys \cap e.seen.removed = {}
    /\ e.pc = "ready" => store[e.r] \subseteq Objects(e.seen.keys)
    /\ (e.pc = "sweep" /\ e.mode # "publish") \/ e.pc \in {"fail", "deferred"} => e.seen.keys = {}
    /\ e.pc = "sweep" => Data(e.r) \subseteq e.seen.keys \cup e.seen.removed
    /\ e.pc = "dispose" => Data(e.r) \subseteq e.seen.keys \cup e.seen.removed \cup {Legacy}

\* What the provider said of a member is true as long as its row is the one read.
Judged(e) ==
    job[e.r] = e.seen => /\ e.success => vectors[e.r] = e.seen.keys
                         /\ e.gone => e.seen.removed \cap vectors[e.r] = {}
Finalizing(e) ==
    /\ e.pc = "find" => e.gone = FALSE
    /\ e.pc \in {"docs", "reread", "settle"} =>
          e.seen.state = "WAITING_SYNC" /\ e.seen.run = e.batch[e.r].run /\ Judged(e)

Local(e) == Holding(e) /\ Modes(e) /\ Staging(e) /\ Finalizing(e)

\* An exposed row has its projection, and nothing else, in the bucket.
Exposures(r) ==
    job[r].state \in Exposed =>
        /\ store[r] = Objects(job[r].keys) /\ job[r].keys = KeysOf(job[r].rev, job[r].run)
        /\ Readable(job[r].rev) /\ job[r].run \in Runs

\* ... which the ingestion of its batch finds, and leaves.
Waiting(r) ==
    job[r].state = "WAITING_SYNC" =>
        /\ Legacy \in job[r].removed /\ job[r].keys \cap job[r].removed = {}
        /\ control.phase \in Closed /\ sync.ours # "none" =>
              /\ Ingesting => sync.seen[r] = Objects(job[r].keys)
              /\ sync.ours = "complete" => vectors[r] = job[r].keys
Served(r) ==
    job[r].state \in Outcomes =>
        /\ job[r].state = job[r].rev.kind /\ vectors[r] = job[r].keys
        /\ Ingesting => sync.seen[r] = Objects(job[r].keys)

\* No document is forgotten before it is gone.
Tracked(r) ==
    vectors[r] \cup DataIn(sync.seen[r])
        \subseteq job[r].keys \cup job[r].removed \cup {Legacy} \cup Data(r)
RowInv(r) == Exposures(r) /\ Waiting(r) /\ Served(r) /\ Tracked(r)

Late == \A o \in late : /\ job[o[1]].state \notin Exposed
                        /\ o[3] = "data" => <<o[2], "sidecar">> \in store[o[1]]

\* A member of a batch is the job the batch prepared, or is no longer.
MemberFits(b, r) ==
    b[r].run = job[r].run /\ b[r].run # 0 =>
        job[r].state # "PREPARING" /\ (job[r].state = "WAITING_SYNC" => b[r].rev = job[r].rev)
MembersFit ==
    \A r \in Resources : MemberFits(control.batch, r) /\ \A t \in Ticks : MemberFits(tick[t].batch, r)

Members ==
    /\ MembersFit /\ Late /\ SidecarFirst
    /\ \A t \in Ticks : Local(tick[t])
    /\ \A r \in Resources : RowInv(r)

IInv == Phases /\ Members

-----------------------------------------------------------------------------

\* A tick that holds nothing promises nothing.
Free == {"off", "busy", "look", "choose", "close", "start", "run", "get", "return",
         "retry", "count", "tally"}

LEMMA FreeLocal ==
    ASSUME NEW t \in Ticks,
           tick'[t].pc \in Free \/ (tick'[t].pc \in {"take", "find"} /\ Fresh(tick'[t]))
    PROVE  Local(tick[t])'
  BY DEF Free, Fresh, Local, Holding, Held, Modes, Publishing, Staging, Planned, Complete, Finalizing

LEMMA OneLocal ==
    ASSUME NEW t \in Ticks, \A u \in Ticks : u # t => tick'[u].pc = "off", Local(tick[t])'
    PROVE  \A u \in Ticks : Local(tick[u])'
<1>1. ASSUME NEW u \in Ticks, u # t
      PROVE  Local(tick[u])'
  BY <1>1, FreeLocal DEF Free
<1> QED
  BY <1>1

\* The rows, where one row, or the bucket under it, changes.
Framed == sync' = sync /\ vectors' = vectors /\ control' = control

LEMMA OneRow ==
    ASSUME Framed, NEW r \in Resources, OtherJobs(r), OtherStores(r),
           \A q \in Resources : RowInv(q), RowInv(r)'
    PROVE  \A q \in Resources : RowInv(q)'
<1>1. ASSUME NEW q \in Resources, q # r
      PROVE  RowInv(q)'
  <2>1. job'[q] = job[q] /\ store'[q] = store[q] /\ vectors'[q] = vectors[q] /\ sync' = sync
        /\ control' = control
    BY <1>1 DEF OtherJobs, OtherStores, Framed
  <2>2. RowInv(q)
    OBVIOUS
  <2> QED
    BY <2>1, <2>2 DEF RowInv, Exposures, Waiting, Served, Tracked, Ingesting, Data
<1> QED
  BY <1>1

LEMMA SameRows ==
    ASSUME Framed, job' = job, store' = store, \A q \in Resources : RowInv(q)
    PROVE  \A q \in Resources : RowInv(q)'
  BY DEF Framed, RowInv, Exposures, Waiting, Served, Tracked, Ingesting, Data

\* A row nobody is shown only has to be tracked.
LEMMA HiddenRow ==
    ASSUME NEW r \in Resources, job'[r].state \notin Exposed, Tracked(r)'
    PROVE  RowInv(r)'
  BY DEF RowInv, Exposures, Waiting, Served, Exposed

LEMMA TrackedMore ==
    ASSUME Framed, NEW r \in Resources, Tracked(r), Data(r)' = Data(r),
           job[r].keys \cup job[r].removed \subseteq job'[r].keys \cup job'[r].removed
    PROVE  Tracked(r)'
  BY DEF Framed, Tracked

LEMMA SameData ==
    ASSUME NEW r, store' = store
    PROVE  Data(r)' = Data(r)
  BY DEF Data

\* A request leaves the row as it is, or hidden and as well tracked.
LEMMA AskedRow ==
    ASSUME Framed, store' = store, NEW r \in Resources, OtherJobs(r), Asked(job[r], job'[r]),
           \A q \in Resources : RowInv(q)
    PROVE  \A q \in Resources : RowInv(q)'
<1>1. OtherStores(r) /\ Data(r)' = Data(r)
  BY SameData DEF OtherStores
<1>2. CASE job'[r] = job[r]
  <2>1. RowInv(r)'
    BY <1>1, <1>2 DEF Framed, RowInv, Exposures, Waiting, Served, Tracked, Ingesting
  <2> QED
    BY <1>1, <2>1, OneRow
<1>3. CASE job'[r].state = "PENDING" /\ Same(job'[r], job[r])
  <2>1. Tracked(r)'
    BY <1>1, <1>3, TrackedMore DEF Same, RowInv
  <2>2. RowInv(r)'
    BY <1>3, <2>1, HiddenRow DEF Exposed, Outcomes
  <2> QED
    BY <1>1, <2>2, OneRow
<1> QED
  BY <1>2, <1>3 DEF Asked

\* The members keep fitting, where one job and one member of the live tick change.
LEMMA FitStep ==
    ASSUME MembersFit, control' = control, NEW t \in Ticks, NEW r \in Resources,
           Others(t), OtherJobs(r), OtherMembers(tick'[t].batch, tick[t].batch, r),
           \/ job'[r] = job[r]
           \/ job'[r].state \notin {"PREPARING", "WAITING_SYNC"}
           \/ job'[r].run \in Runs \ InUse(r)
           \/ job[r].state = "PREPARING" /\ job'[r].run = job[r].run
           \/ job'[r].state = job[r].state /\ job'[r].run = job[r].run /\ job'[r].rev = job[r].rev,
           \/ /\ MemberRun(tick'[t], r, tick[t].batch[r].run)
              /\ tick'[t].batch[r].rev = tick[t].batch[r].rev
           \/ MemberRun(tick'[t], r, 0)
           \/ /\ MemberRun(tick'[t], r, job'[r].run) /\ job'[r].state # "PREPARING"
              /\ job'[r].state = "WAITING_SYNC" => tick'[t].batch[r].rev = job'[r].rev
    PROVE  MembersFit'
<1>1. ASSUME NEW m, m = control.batch \/ \E u \in Ticks : m = tick[u].batch
      PROVE  MemberFits(m, r)'
  <2>1. MemberFits(m, r)
    BY <1>1 DEF MembersFit
  <2>2. m[r].run \in InUse(r)
    BY <1>1 DEF InUse
  <2> QED
    BY <2>1, <2>2 DEF MemberFits
<1>2. ASSUME NEW q \in Resources, q # r
      PROVE  MemberFits(control.batch, q)' /\ \A u \in Ticks : MemberFits(tick[u].batch, q)'
  <2>1. job'[q] = job[q] /\ tick'[t].batch[q] = tick[t].batch[q]
        /\ \A u \in Ticks : u # t => tick'[u] = tick[u]
    BY <1>2 DEF OtherJobs, OtherMembers, Others
  <2>2. MemberFits(control.batch, q) /\ \A u \in Ticks : MemberFits(tick[u].batch, q)
    BY DEF MembersFit
  <2> QED
    BY <2>1, <2>2 DEF MemberFits
<1>3. MemberFits(control.batch, r)'
  BY <1>1 DEF MemberFits
<1>4. ASSUME NEW u \in Ticks, u # t
      PROVE  MemberFits(tick[u].batch, r)'
  <2>1. tick'[u] = tick[u]
    BY <1>4 DEF Others
  <2>2. MemberFits(tick[u].batch, r) /\ tick[u].batch[r].run \in InUse(r)
    BY DEF MembersFit, InUse
  <2> QED
    BY <2>1, <2>2 DEF MemberFits
<1>5. MemberFits(tick[t].batch, r)'
  <2>1. MemberFits(tick[t].batch, r) /\ tick[t].batch[r].run \in InUse(r)
    BY DEF MembersFit, InUse
  <2> QED
    BY <2>1 DEF MemberFits, MemberRun
<1> QED
  BY <1>2, <1>3, <1>4, <1>5 DEF MembersFit

LEMMA WithinFrame ==
    ASSUME TypeInv, IInv, NEW t \in Ticks, Within(t)
    PROVE  /\ Framed /\ Others(t) /\ late = {} /\ \A u \in Ticks : u # t => tick'[u].pc = "off"
           /\ tick[t].pc \in Exporting => control.phase = "EXPORTING"
           /\ tick[t].pc \in Finishing => control.phase = "FINALIZING"
<1>1. Coarse(t) /\ Stays(t)
  BY WithinType
<1>2. sync' = sync /\ vectors' = vectors
  BY WithinSync
<1> QED
  BY <1>1, <1>2, Alone DEF Coarse, Stays, Others, Framed, IInv, Members, Phases, PhaseOfStep

\* A step of a tick that leaves the bucket alone.
LEMMA MembersStep ==
    ASSUME TypeInv, IInv, NEW t \in Ticks, Within(t), store' = store, late' = late,
           Local(tick[t])', \A r \in Resources : RowInv(r)', MembersFit'
    PROVE  Members'
<1>1. late' = {} /\ \A u \in Ticks : u # t => tick'[u].pc = "off"
  BY WithinFrame
<1>2. Late'
  BY <1>1 DEF Late
<1>3. \A u \in Ticks : Local(tick[u])'
  BY <1>1, OneLocal
<1>4. SidecarFirst'
  BY DEF IInv, Members, SidecarFirst, Data
<1> QED
  BY <1>2, <1>3, <1>4 DEF Members

\* ... and the rows.
LEMMA QuietStep ==
    ASSUME TypeInv, IInv, NEW t \in Ticks, Within(t), store' = store, late' = late, job' = job,
           NEW r \in Resources, Local(tick[t])', OtherMembers(tick'[t].batch, tick[t].batch, r),
           \/ /\ MemberRun(tick'[t], r, tick[t].batch[r].run)
              /\ tick'[t].batch[r].rev = tick[t].batch[r].rev
           \/ MemberRun(tick'[t], r, 0)
           \/ /\ MemberRun(tick'[t], r, job[r].run) /\ job[r].state # "PREPARING"
              /\ job[r].state = "WAITING_SYNC" => tick'[t].batch[r].rev = job[r].rev
    PROVE  Members'
<1>1. Framed /\ Others(t)
  BY WithinFrame
<1>2. \A q \in Resources : RowInv(q)'
  BY <1>1, SameRows DEF IInv, Members
<1>3. OtherJobs(r) /\ job'[r] = job[r] /\ control' = control
  BY <1>1 DEF OtherJobs, Framed
<1>4. MembersFit'
  BY <1>1, <1>3, FitStep DEF IInv, Members
<1> QED
  BY <1>2, <1>4, MembersStep

\* The tick keeps its batch.
LEMMA SameBatch ==
    ASSUME NEW t \in Ticks, NEW r, tick'[t].batch = tick[t].batch
    PROVE  /\ OtherMembers(tick'[t].batch, tick[t].batch, r)
           /\ MemberRun(tick'[t], r, tick[t].batch[r].run)
           /\ tick'[t].batch[r].rev = tick[t].batch[r].rev
  BY DEF OtherMembers, MemberRun

-----------------------------------------------------------------------------
(* The members, while a tick reads, plans and verifies. *)

LEMMA ReadMembers ==
    ASSUME TypeInv, IInv, NEW t \in Ticks, ReadSource(t)
    PROVE  Members'
<1> DEFINE r == tick[t].r
<1>1. ReadEffect(t, r) /\ r \in Resources /\ Within(t) /\ Local(tick[t])
  BY ReadMoves DEF Within, IInv, Members
<1>2. job' = job /\ store' = store /\ late' = late /\ tick[t].pc = "read"
  BY DEF ReadSource, rows
<1>3. Local(tick[t])'
  <2>1. Holding(tick[t])'
    BY <1>1, <1>2 DEF ReadEffect, Holds, Local, Holding, Held, Same
  <2>2. Modes(tick[t])'
    BY <1>1, <1>2 DEF ReadEffect, Holds, Local, Modes, Publishing
  <2>3. Staging(tick[t])'
    BY <1>1, <1>2 DEF ReadEffect, Holds, Staging, Planned, Complete
  <2>4. Finalizing(tick[t])'
    BY <1>1 DEF ReadEffect, Finalizing
  <2> QED
    BY <2>1, <2>2, <2>3, <2>4 DEF Local
<1> QED
  BY <1>1, <1>2, <1>3, SameBatch, QuietStep DEF ReadEffect, Holds

LEMMA VerifyMembers ==
    ASSUME TypeInv, IInv, NEW t \in Ticks, Verify(t)
    PROVE  Members'
<1> DEFINE r == tick[t].r
<1>1. VerifyEffect(t) /\ r \in Resources /\ Within(t) /\ Local(tick[t])
  BY VerifyMoves DEF Within, IInv, Members
<1>2. job' = job /\ store' = store /\ late' = late /\ tick[t].pc = "verify"
  BY DEF Verify, rows
<1>3. Local(tick[t])'
  <2>1. Holding(tick[t])'
    BY <1>1, <1>2 DEF VerifyEffect, Keeps, Holds, Local, Holding, Held, Same, Exposed, Outcomes
  <2>2. Modes(tick[t])'
    BY <1>1, <1>2 DEF VerifyEffect, Keeps, Holds, Local, Modes, Publishing
  <2>3. Staging(tick[t])'
    BY <1>1, <1>2 DEF VerifyEffect, Keeps, Holds, Local, Modes, Staging, Planned, Complete
  <2>4. Finalizing(tick[t])'
    BY <1>1 DEF VerifyEffect, Finalizing
  <2> QED
    BY <2>1, <2>2, <2>3, <2>4 DEF Local
<1> QED
  BY <1>1, <1>2, <1>3, SameBatch, QuietStep DEF VerifyEffect, Keeps, Holds

LEMMA PlanMembers ==
    ASSUME TypeInv, IInv, NEW t \in Ticks, Plan(t)
    PROVE  Members'
<1>0. PICK r \in Resources : r = tick[t].r /\ PlanEffect(t, r)
  BY PlanMoves
<1>1. Within(t) /\ Local(tick[t]) /\ Readable(tick[t].snap)
  BY TypeFacts DEF Within, IInv, Members, Equipped, Plan
<1>2. store' = store /\ late' = late /\ tick[t].pc = "plan"
  BY DEF Plan
<1>3. Framed /\ Others(t) /\ OtherStores(r)
  BY <1>1, <1>2, WithinFrame DEF OtherStores
<1>4. CASE Keeps(t) /\ Unwritten /\ tick'[t].pc = "defer"
  <2>1. Local(tick[t])'
    BY <1>0, <1>1, <1>2, <1>4
       DEF Keeps, Holds, Unwritten, rows, Local, Holding, Held, Modes, Publishing, Staging,
           Planned, Complete, Finalizing, Exposed, Outcomes
  <2> QED
    BY <1>1, <1>2, <1>4, <2>1, SameBatch, QuietStep DEF Keeps, Holds, Unwritten, rows
<1>5. CASE /\ Fenced(t, r) /\ Holds(t) /\ tick'[t].seen = job'[r] /\ tick'[t].snap = tick[t].snap
           /\ tick'[t].mode = tick[t].mode
           /\ job'[r].state = job[r].state /\ job'[r].keys = job[r].keys
           /\ job'[r].removed = job[r].removed /\ job'[r].run = job[r].run
           /\ job'[r].rev = tick[t].snap /\ job'[r].pending = KeysOf(tick[t].snap, job[r].run)
           /\ \/ tick'[t].pc = "retry"
              \/ tick'[t].pc = "sidecar" /\ tick[t].snap.kind = "INDEXED"
              \/ tick'[t].pc = "verify" /\ job'[r].pending = {}
  <2>1. /\ job[r] = tick[t].seen /\ job[r].state = "PREPARING" /\ job[r].run \in Runs
        /\ tick[t].mode = "publish"
    BY <1>0, <1>1, <1>2, <1>5 DEF Fenced, Unchanged, Local, Modes, Publishing
  <2>2. Local(tick[t])'
    <3>1. Holding(tick[t])'
      BY <1>0, <1>5, <2>1 DEF Holds, Holding, Held, Same, Exposed, Outcomes
    <3>2. Modes(tick[t])'
      BY <1>0, <1>5, <2>1 DEF Holds, Modes, Publishing
    <3>3. Staging(tick[t])'
      <4>1. Objects({}) = {}
        BY DEF Objects
      <4> QED
        BY <1>0, <1>1, <1>5, <2>1, <4>1 DEF Holds, Staging, Planned, Complete
    <3>4. Finalizing(tick[t])'
      BY <1>5 DEF Finalizing
    <3> QED
      BY <3>1, <3>2, <3>3, <3>4 DEF Local
  <2>3. OtherJobs(r)
    BY <1>5 DEF Fenced
  <2>4. \A q \in Resources : RowInv(q)'
    <3>1. Tracked(r) /\ \A q \in Resources : RowInv(q)
      BY <1>1 DEF IInv, Members, RowInv
    <3>2. Tracked(r)'
      BY <1>1, <1>2, <1>3, <1>5, <3>1, SameData, TrackedMore
    <3>3. RowInv(r)'
      BY <1>1, <1>5, <2>1, <3>2, HiddenRow DEF Exposed, Outcomes
    <3> QED
      BY <1>1, <1>3, <2>3, <3>1, <3>3, OneRow
  <2>5. MembersFit'
    BY <1>1, <1>3, <1>5, <2>1, <2>3, SameBatch, FitStep DEF IInv, Members, Framed, Holds
  <2> QED
    BY <1>1, <1>2, <2>2, <2>4, <2>5, MembersStep
<1> QED
  BY <1>0, <1>4, <1>5 DEF PlanEffect

-----------------------------------------------------------------------------
(* The members, while a tick writes a row nobody is shown. *)

LEMMA HiddenStep ==
    ASSUME TypeInv, IInv, NEW t \in Ticks, Within(t), store' = store, late' = late,
           NEW r \in Resources, OtherJobs(r), job'[r].state \notin Exposed,
           job[r].keys \cup job[r].removed \subseteq job'[r].keys \cup job'[r].removed,
           Local(tick[t])', OtherMembers(tick'[t].batch, tick[t].batch, r),
           \/ job'[r].state # "PREPARING"
           \/ job'[r].run \in Runs \ InUse(r)
           \/ job[r].state = "PREPARING" /\ job'[r].run = job[r].run
           \/ job'[r].state = job[r].state /\ job'[r].run = job[r].run /\ job'[r].rev = job[r].rev,
           \/ /\ MemberRun(tick'[t], r, tick[t].batch[r].run)
              /\ tick'[t].batch[r].rev = tick[t].batch[r].rev
           \/ MemberRun(tick'[t], r, 0)
           \/ MemberRun(tick'[t], r, job'[r].run) /\ job'[r].state # "PREPARING"
    PROVE  Members'
<1>1. Framed /\ Others(t) /\ OtherStores(r)
  BY WithinFrame DEF OtherStores
<1>2. \A q \in Resources : RowInv(q)'
  <2>1. Tracked(r) /\ \A q \in Resources : RowInv(q)
    BY DEF IInv, Members, RowInv
  <2>2. Tracked(r)'
    BY <1>1, <2>1, SameData, TrackedMore
  <2>3. RowInv(r)'
    BY <2>2, HiddenRow
  <2> QED
    BY <1>1, <2>1, <2>3, OneRow
<1>3. MembersFit'
  <2>1. MembersFit /\ control' = control
    BY <1>1 DEF IInv, Members, Framed
  <2>2. job'[r].state # "WAITING_SYNC"
    BY DEF Exposed
  <2> QED
    BY <1>1, <2>1, <2>2, FitStep
<1> QED
  BY <1>2, <1>3, MembersStep

LEMMA TakeMembers ==
    ASSUME TypeInv, IInv, NEW t \in Ticks, Take(t)
    PROVE  Members'
<1>0. PICK r \in Resources : r = tick[t].r /\ TakeEffect(t, r)
  BY TakeMoves
<1>1. Within(t) /\ Local(tick[t])
  BY DEF Within, IInv, Members
<1>2. store' = store /\ late' = late /\ job' = job /\ tick[t].mode = "publish"
  BY <1>1 DEF Take, Local, Modes, rows
<1>3. CASE /\ Moves(t, r, "take")
           /\ \/ MemberRun(tick'[t], r, 0)
              \/ /\ job[r].state = "WAITING_SYNC" /\ MemberRun(tick'[t], r, job[r].run)
                 /\ tick'[t].batch[r].rev = job[r].rev
  <2>1. Local(tick[t])'
    BY <1>3, FreeLocal DEF Moves, Free
  <2>2. OtherMembers(tick'[t].batch, tick[t].batch, r)
    BY <1>3 DEF Moves
  <2> QED
    BY <1>1, <1>2, <1>3, <2>1, <2>2, QuietStep
<1>4. CASE Holds(t) /\ tick'[t].pc = "return"
  <2>1. Local(tick[t])'
    BY <1>4, FreeLocal DEF Free
  <2> QED
    BY <1>1, <1>2, <1>4, <2>1, SameBatch, QuietStep DEF Holds
<1>5. CASE /\ Holds(t) /\ tick'[t].seen = job[r] /\ tick'[t].pc = "begin"
           /\ tick'[t].mode = tick[t].mode
  <2>1. Local(tick[t])'
    BY <1>0, <1>2, <1>5
       DEF Holds, Local, Holding, Held, Modes, Publishing, Staging, Planned, Complete, Finalizing
  <2> QED
    BY <1>1, <1>2, <1>5, <2>1, SameBatch, QuietStep DEF Holds
<1> QED
  BY <1>0, <1>3, <1>4, <1>5 DEF TakeEffect

LEMMA BeginMembers ==
    ASSUME TypeInv, IInv, NEW t \in Ticks, Begin(t)
    PROVE  Members'
<1>0. PICK r \in Resources : r = tick[t].r /\ BeginEffect(t, r)
  BY BeginMoves
<1>1. Within(t) /\ Local(tick[t])
  BY DEF Within, IInv, Members
<1>2. /\ store' = store /\ late' = late /\ tick[t].pc = "begin" /\ tick[t].mode = "publish"
      /\ job[r] = tick[t].seen \/ job[r].state = "PENDING"
  BY <1>0, <1>1 DEF Begin, Local, Modes, Holding
<1>3. CASE /\ RowsType' /\ OtherJobs(r) /\ job[r] = tick[t].seen
           /\ job'[r].state = "PREPARING" /\ job'[r].run \in Runs \ InUse(r)
           /\ job'[r].keys = job[r].keys /\ job'[r].removed = job[r].removed
           /\ Holds(t) /\ tick'[t].seen = job'[r] /\ tick'[t].pc \in {"read", "retry", "defer"}
           /\ tick'[t].mode = tick[t].mode
  <2>1. Local(tick[t])'
    BY <1>0, <1>2, <1>3
       DEF Holds, Local, Holding, Held, Same, Modes, Publishing, Staging, Planned, Complete,
           Finalizing, Exposed, Outcomes
  <2>2. job'[r].state \notin Exposed
    BY <1>3 DEF Exposed, Outcomes
  <2>3. tick'[t].batch = tick[t].batch
    BY <1>3 DEF Holds
  <2> QED
    BY <1>1, <1>2, <1>3, <2>1, <2>2, <2>3, SameBatch, HiddenStep
<1>4. CASE /\ Unwritten /\ Keeps(t) /\ tick'[t].pc = "defer"
           /\ job[r] # tick[t].seen \/ job[r].state = "PREPARING"
  <2>1. job' = job /\ job[r].state \notin Exposed /\ tick'[t].r = r
    BY <1>0, <1>2, <1>4 DEF Unwritten, rows, Exposed, Outcomes, Keeps, Holds
  <2>2. Local(tick[t])'
    BY <1>4, <2>1
       DEF Local, Holding, Held, Modes, Publishing, Staging, Planned, Complete, Finalizing
  <2> QED
    BY <1>1, <1>2, <1>4, <2>1, <2>2, SameBatch, QuietStep DEF Keeps, Holds
<1> QED
  BY <1>0, <1>3, <1>4 DEF BeginEffect

LEMMA TrackMembers ==
    ASSUME TypeInv, IInv, NEW t \in Ticks, Track(t)
    PROVE  Members'
<1>0. PICK r \in Resources : r = tick[t].r /\ TrackEffect(t, r)
  BY TrackMoves
<1>1. Within(t) /\ Local(tick[t]) /\ job[r] \in Job
  BY TypeFacts DEF Within, IInv, Members, RowsType
<1>2. store' = store /\ late' = late /\ tick[t].pc = "track"
  BY DEF Track
<1>3. CASE /\ Keeps(t) /\ Unwritten
           /\ tick'[t].pc = "return" \/ (tick'[t].pc = "defer" /\ tick[t].mode # "defer")
  <2>1. Local(tick[t])'
    BY <1>0, <1>1, <1>2, <1>3
       DEF Keeps, Holds, Unwritten, rows, Local, Holding, Held, Modes, Publishing, Staging,
           Planned, Complete, Finalizing, Exposed, Outcomes
  <2> QED
    BY <1>1, <1>2, <1>3, <2>1, SameBatch, QuietStep DEF Keeps, Holds, Unwritten, rows
<1>4. CASE /\ Fenced(t, r) /\ Holds(t) /\ tick'[t].seen = job'[r] /\ tick'[t].snap = tick[t].snap
           /\ tick'[t].mode = tick[t].mode
           /\ job'[r].state = job[r].state /\ job'[r].run = job[r].run /\ job'[r].rev = job[r].rev
           /\ job'[r].keys = (IF tick[t].mode = "publish" THEN job[r].pending ELSE {})
           /\ job'[r].removed = Removed(r, job[r], job'[r].keys)
           /\ \/ tick'[t].pc \in {"sweep", "retry", "return"}
              \/ tick'[t].pc = "defer" /\ tick[t].mode # "defer"
  <2>1. job[r] = tick[t].seen /\ job[r].state \notin Exposed
    BY <1>0, <1>1, <1>2, <1>4 DEF Fenced, Unchanged, Local, Holding, Held
  <2>2. ASSUME tick[t].mode = "publish"
        PROVE  /\ job[r].state = "PREPARING" /\ job[r].run \in Runs /\ Readable(job[r].rev)
               /\ job'[r].keys = KeysOf(job[r].rev, job[r].run)
               /\ Objects(job'[r].keys) \subseteq store[r]
    BY <1>0, <1>1, <1>2, <1>4, <2>1, <2>2 DEF Local, Modes, Publishing, Staging, Planned
  <2>3. /\ job'[r].keys \cap job'[r].removed = {} /\ Data(r) \subseteq job'[r].keys \cup job'[r].removed
        /\ job[r].keys \cup job[r].removed \subseteq job'[r].keys \cup job'[r].removed
    BY <1>4 DEF Removed
  <2>4. tick[t].mode = "publish" => Legacy \in job'[r].removed
    BY <1>4, <2>2, BoundAssumption DEF Removed, KeysOf, Legacy
  <2>5. Local(tick[t])'
    <3>1. Holding(tick[t])'
      BY <1>0, <1>4, <2>1 DEF Holds, Holding, Held, Same
    <3>2. Modes(tick[t])'
      BY <1>4, <2>2 DEF Holds, Modes, Publishing
    <3>3. Staging(tick[t])'
      <4>1. Data(r)' = Data(r)
        BY <1>2, SameData
      <4>2. /\ tick'[t].pc \in {"sweep", "retry", "return", "defer"} /\ tick'[t].seen = job'[r]
            /\ tick'[t].r = r /\ tick'[t].mode = tick[t].mode
        BY <1>0, <1>4 DEF Holds
      <4> QED
        BY <1>2, <1>4, <2>2, <2>3, <2>4, <4>1, <4>2 DEF Staging, Planned, Complete
    <3>4. Finalizing(tick[t])'
      BY <1>4 DEF Finalizing
    <3> QED
      BY <3>1, <3>2, <3>3, <3>4 DEF Local
  <2>6. OtherJobs(r) /\ tick'[t].batch = tick[t].batch /\ job'[r].state \notin Exposed
    BY <1>4, <2>1 DEF Fenced, Holds
  <2> QED
    BY <1>1, <1>2, <1>4, <2>3, <2>5, <2>6, SameBatch, HiddenStep
<1> QED
  BY <1>0, <1>3, <1>4 DEF TrackEffect

LEMMA FailMembers ==
    ASSUME TypeInv, IInv, NEW t \in Ticks, FailPurged(t)
    PROVE  Members'
<1>0. PICK r \in Resources : r = tick[t].r /\ FailEffect(t, r)
  BY FailMoves
<1>1. Within(t) /\ Local(tick[t])
  BY DEF Within, IInv, Members
<1>2. store' = store /\ late' = late /\ tick[t].pc = "fail"
  BY DEF FailPurged
<1>3. CASE Keeps(t) /\ Unwritten /\ tick'[t].pc = "defer"
  <2>1. Local(tick[t])'
    BY <1>0, <1>1, <1>2, <1>3
       DEF Keeps, Holds, Unwritten, rows, Local, Holding, Held, Modes, Publishing, Staging,
           Planned, Complete, Finalizing, Exposed, Outcomes
  <2> QED
    BY <1>1, <1>2, <1>3, <2>1, SameBatch, QuietStep DEF Keeps, Holds, Unwritten, rows
<1>4. CASE /\ Fenced(t, r) /\ Emptied(r)
           /\ \/ Keeps(t) /\ tick'[t].pc \in {"retry", "defer"}
              \/ Moves(t, r, "take") /\ MemberRun(tick'[t], r, job[r].run)
  <2>1. job[r].keys = {} /\ job'[r].state = "FAILED" /\ OtherJobs(r)
        /\ job'[r].removed = job[r].removed /\ job'[r].run = job[r].run
    BY <1>0, <1>1, <1>2, <1>4 DEF Fenced, Unchanged, Emptied, Local, Staging
  <2>2. Local(tick[t])'
    <3>1. CASE tick'[t].pc = "defer" /\ Keeps(t)
      BY <1>0, <2>1, <3>1
         DEF Keeps, Holds, Local, Holding, Held, Modes, Publishing, Staging, Planned, Complete,
             Finalizing, Exposed, Outcomes
    <3> QED
      BY <1>4, <3>1, FreeLocal DEF Free, Moves
  <2>3. job'[r].state \notin Exposed /\ job'[r].state # "PREPARING"
    BY <2>1 DEF Exposed, Outcomes
  <2>4. CASE Keeps(t)
    BY <1>1, <1>2, <2>1, <2>2, <2>3, <2>4, SameBatch, HiddenStep DEF Keeps, Holds
  <2>5. CASE Moves(t, r, "take") /\ MemberRun(tick'[t], r, job'[r].run)
    BY <1>1, <1>2, <2>1, <2>2, <2>3, <2>5, HiddenStep DEF Moves
  <2> QED
    BY <1>4, <2>1, <2>4, <2>5
<1> QED
  BY <1>0, <1>3, <1>4 DEF FailEffect

LEMMA DeferMembers ==
    ASSUME TypeInv, IInv, NEW t \in Ticks, Defer(t)
    PROVE  Members'
<1>0. PICK r \in Resources : r = tick[t].r /\ DeferEffect(t, r)
  BY DeferMoves
<1>1. Within(t) /\ Local(tick[t])
  BY DEF Within, IInv, Members
<1>2. store' = store /\ late' = late /\ job' = job /\ tick[t].pc = "defer"
  BY DEF Defer, rows
<1>3. Local(tick[t])'
  BY <1>0, <1>1, <1>2
     DEF DeferEffect, Holds, Local, Holding, Held, Same, Modes, Publishing, Staging, Planned,
         Complete, Finalizing
<1>4. tick'[t].batch = tick[t].batch
  BY <1>0 DEF DeferEffect, Holds
<1> QED
  BY <1>1, <1>2, <1>3, <1>4, SameBatch, QuietStep

LEMMA DeferredMembers ==
    ASSUME TypeInv, IInv, NEW t \in Ticks, FailDeferred(t)
    PROVE  Members'
<1>0. PICK r \in Resources : r = tick[t].r /\ DeferredEffect(t, r)
  BY DeferredMoves
<1>1. Within(t) /\ Local(tick[t])
  BY DEF Within, IInv, Members
<1>2. store' = store /\ late' = late /\ tick[t].pc = "deferred"
  BY DEF FailDeferred
<1>3. Local(tick[t])'
  BY <1>0, FreeLocal DEF DeferredEffect, Free, Moves
<1>4. CASE Unwritten /\ Moves(t, r, "take") /\ MemberRun(tick'[t], r, 0)
  BY <1>1, <1>2, <1>3, <1>4, QuietStep DEF Moves, Unwritten, rows
<1>5. CASE /\ Fenced(t, r) /\ Emptied(r)
           /\ \/ Keeps(t) /\ tick'[t].pc = "return"
              \/ Moves(t, r, "take") /\ MemberRun(tick'[t], r, 0)
  <2>1. job[r].keys = {} /\ OtherJobs(r) /\ job'[r].removed = job[r].removed
        /\ job'[r].state \notin Exposed /\ job'[r].state # "PREPARING"
    BY <1>0, <1>1, <1>2, <1>5
       DEF Fenced, Unchanged, Emptied, Local, Staging, Exposed, Outcomes
  <2>2. CASE Keeps(t)
    BY <1>1, <1>2, <1>3, <2>1, <2>2, SameBatch, HiddenStep DEF Keeps, Holds
  <2>3. CASE Moves(t, r, "take") /\ MemberRun(tick'[t], r, 0)
    BY <1>1, <1>2, <1>3, <2>1, <2>3, HiddenStep DEF Moves
  <2> QED
    BY <1>5, <2>2, <2>3
<1> QED
  BY <1>0, <1>4, <1>5 DEF DeferredEffect

LEMMA RetryMembers ==
    ASSUME TypeInv, IInv, NEW t \in Ticks, Retry(t)
    PROVE  Members'
<1>0. PICK r \in Resources : r = tick[t].r /\ RetryEffect(t, r)
  BY RetryMoves
<1>1. Within(t) /\ Local(tick[t])
  BY DEF Within, IInv, Members
<1>2. store' = store /\ late' = late /\ tick[t].pc = "retry"
  BY DEF Retry
<1>3. CASE Unwritten /\ Keeps(t) /\ tick'[t].pc \in {"count", "return"}
  <2>1. Local(tick[t])'
    BY <1>3, FreeLocal DEF Free
  <2> QED
    BY <1>1, <1>2, <1>3, <2>1, SameBatch, QuietStep DEF Keeps, Holds, Unwritten, rows
<1>4. CASE /\ job[r].state = "PREPARING" /\ RowsType' /\ OtherJobs(r) /\ Holds(t)
           /\ tick'[t].seen = job'[r] /\ tick'[t].pc = "dispose"
           /\ job'[r].state = "PREPARING" /\ job'[r].keys = job[r].keys
           /\ job'[r].run = job[r].run
           /\ job'[r].removed = job[r].removed \cup (Data(r) \ (job[r].keys \cup {Legacy}))
  <2>1. Data(r)' = Data(r) /\ job'[r].state \notin Exposed /\ tick'[t].r = r
        /\ tick'[t].batch = tick[t].batch
    BY <1>0, <1>2, <1>4, SameData DEF Exposed, Outcomes, Holds
  <2>2. Local(tick[t])'
    BY <1>4, <2>1
       DEF Local, Holding, Held, Same, Modes, Publishing, Staging, Planned, Complete, Finalizing
  <2> QED
    BY <1>1, <1>2, <1>4, <2>1, <2>2, SameBatch, HiddenStep
<1> QED
  BY <1>0, <1>3, <1>4 DEF RetryEffect

LEMMA RequeueMembers ==
    ASSUME TypeInv, IInv, NEW t \in Ticks, Requeue(t)
    PROVE  Members'
<1>0. PICK r \in Resources : r = tick[t].r /\ RequeueEffect(t, r)
  BY RequeueMoves
<1>1. Within(t) /\ store' = store /\ late' = late
  BY DEF Within, Requeue
<1>2. Local(tick[t])' /\ tick'[t].batch = tick[t].batch
  BY <1>0, FreeLocal DEF RequeueEffect, Keeps, Holds, Free
<1>3. CASE Unwritten
  BY <1>1, <1>2, <1>3, SameBatch, QuietStep DEF Unwritten, rows
<1>4. CASE /\ Fenced(t, r) /\ job'[r].state = "PENDING" /\ job'[r].keys = job[r].keys
           /\ job'[r].removed = job[r].removed
  <2>1. OtherJobs(r) /\ job'[r].state \notin Exposed /\ job'[r].state # "PREPARING"
    BY <1>4 DEF Fenced, Exposed, Outcomes
  <2> QED
    BY <1>1, <1>2, <1>4, <2>1, SameBatch, HiddenStep
<1> QED
  BY <1>0, <1>3, <1>4 DEF RequeueEffect

LEMMA TallyMembers ==
    ASSUME TypeInv, IInv, NEW t \in Ticks, Count(t) \/ Tally(t)
    PROVE  Members'
<1>0. PICK r \in Resources, first \in {"take", "find"} : r = tick[t].r /\ TallyEffect(t, r, first)
  <2>1. tick[t].r \in Resources
    BY TypeFacts DEF Equipped, Count, Tally, Exporting, Finishing
  <2>2. CASE Count(t)
    BY <2>1, <2>2, TallyMoves DEF Count
  <2>3. CASE Tally(t)
    BY <2>1, <2>3, TallyMoves DEF Tally
  <2> QED
    BY <2>1, <2>2, <2>3
<1>1. Within(t) /\ store' = store /\ late' = late
  BY DEF Within, Count, Tally, MemberFailure
<1>2. Local(tick[t])' /\ OtherMembers(tick'[t].batch, tick[t].batch, r)
  BY <1>0, FreeLocal DEF TallyEffect, Moves, Free
<1>3. CASE /\ Unwritten
           /\ \/ /\ MemberRun(tick'[t], r, tick[t].batch[r].run)
                 /\ tick'[t].batch[r].rev = tick[t].batch[r].rev
              \/ MemberRun(tick'[t], r, 0)
  BY <1>1, <1>2, <1>3, QuietStep DEF Unwritten, rows
<1>4. CASE /\ OtherJobs(r) /\ job'[r].state = "FAILED" /\ Same(job'[r], job[r])
           /\ MemberRun(tick'[t], r, 0)
  <2>1. job'[r].state \notin Exposed /\ job'[r].state # "PREPARING"
        /\ job'[r].keys = job[r].keys /\ job'[r].removed = job[r].removed
    BY <1>4 DEF Exposed, Outcomes, Same
  <2> QED
    BY <1>1, <1>2, <1>4, <2>1, HiddenStep
<1> QED
  BY <1>0, <1>3, <1>4 DEF TallyEffect

\* Batches that are only passed on, or emptied.
Passed(b) == b \in {NoBatch, control.batch} \/ \E u \in Ticks : b = tick[u].batch

LEMMA FitsAnew ==
    ASSUME MembersFit, job' = job, Passed(control'.batch), \A t \in Ticks : Passed(tick'[t].batch)
    PROVE  MembersFit'
<1>1. ASSUME NEW b, Passed(b), NEW r \in Resources
      PROVE  MemberFits(b, r)
  BY <1>1 DEF Passed, MembersFit, MemberFits, NoBatch, NoMember
<1>2. ASSUME NEW r \in Resources
      PROVE  MemberFits(control'.batch, r) /\ \A t \in Ticks : MemberFits(tick'[t].batch, r)
  BY <1>1
<1> QED
  BY <1>2 DEF MembersFit, MemberFits

-----------------------------------------------------------------------------
(* The members, while a tick puts and deletes objects. *)

\* An object of a row that nobody is shown, and that stays as it is.
LEMMA BucketStep ==
    ASSUME TypeInv, IInv, NEW t \in Ticks, Within(t), job' = job, NEW r \in Resources,
           OtherStores(r), job[r].state \notin Exposed, Tracked(r)', Passed(tick'[t].batch),
           Local(tick[t])', \A k \in Data(r)' : <<k, "sidecar">> \in store'[r],
           \A o \in late' : o[1] = r /\ (o[3] = "data" => <<o[2], "sidecar">> \in store'[r])
    PROVE  Members'
<1>1. Framed /\ Others(t) /\ \A u \in Ticks : u # t => tick'[u].pc = "off"
  BY WithinFrame
<1>2. \A q \in Resources : RowInv(q)'
  <2>1. \A q \in Resources : RowInv(q)
    BY DEF IInv, Members
  <2>2. RowInv(r)'
    BY HiddenRow
  <2> QED
    BY <1>1, <2>1, <2>2, OneRow DEF OtherJobs
<1>3. MembersFit'
  <2>1. \A u \in Ticks : Passed(tick'[u].batch)
    BY <1>1 DEF Others, Passed
  <2>2. Passed(control'.batch)
    BY <1>1 DEF Framed, Passed
  <2> QED
    BY <2>1, <2>2, FitsAnew DEF IInv, Members
<1>4. Late'
  BY DEF Late
<1>5. SidecarFirst'
  <2>1. ASSUME NEW q \in Resources, q # r
        PROVE  \A k \in Data(q)' : <<k, "sidecar">> \in store'[q]
    <3>1. store'[q] = store[q]
      BY <2>1 DEF OtherStores
    <3> QED
      BY <3>1 DEF Data, IInv, Members, SidecarFirst
  <2> QED
    BY <2>1 DEF SidecarFirst
<1> QED
  BY <1>1, <1>2, <1>3, <1>4, <1>5, OneLocal DEF Members

LEMMA PutMembers ==
    ASSUME TypeInv, IInv, NEW t \in Ticks, Put(t)
    PROVE  Members'
<1>0. PICK r \in Resources : r = tick[t].r /\ PutEffect(t, r)
  BY PutMoves
<1>1. Within(t) /\ Local(tick[t]) /\ SidecarFirst /\ Tracked(r) /\ late = {}
  BY WithinFrame DEF Within, IInv, Members, RowInv
<1>2. job' = job /\ tick[t].pc \in Parts /\ Framed
  BY <1>1, WithinFrame DEF Put, rows
<1>3. PICK k \in tick[t].seen.pending :
         LET o == <<k, tick[t].pc>>
         IN  /\ o \in Key \X Parts /\ OtherStores(r)
             /\ \/ /\ Keeps(t) /\ store'[r] = store[r] \cup {o} /\ late' = late
                   /\ tick'[t].pc = (IF tick[t].pc = "sidecar" THEN "data" ELSE "verify")
                \/ tick'[t] = Off /\ store'[r] = store[r] \cup {o} /\ late' = late
                \/ /\ tick'[t] = Off /\ store' = store
                   /\ late' = late \cup {<<r, k, tick[t].pc>>}
  BY <1>0 DEF PutEffect
<1>4. /\ Same(job[r], tick[t].seen) /\ tick[t].seen.state \notin Exposed
      /\ job[r].state \notin Exposed
  BY <1>0, <1>1, <1>2 DEF Local, Holding, Held, Parts, Exposed, Outcomes
<1>5. tick[t].seen.pending = {k}
  BY <1>1, <1>2, <1>3 DEF Local, Staging, Planned, Parts, KeysOf
<1>6. tick[t].pc = "data" => <<k, "sidecar">> \in store[r]
  BY <1>0, <1>1, <1>3 DEF Local, Staging
<1>7. store[r] \subseteq store'[r] /\ store'[r] \subseteq store[r] \cup {<<k, tick[t].pc>>}
  BY <1>3
<1>8. Tracked(r)'
  <2>1. Data(r) \subseteq Data(r)'
    BY <1>7 DEF Data
  <2> QED
    BY <1>1, <1>2, <2>1 DEF Tracked, Framed
<1>9. \A q \in Data(r)' : <<q, "sidecar">> \in store'[r]
  <2>1. ASSUME NEW q \in Data(r)'
        PROVE  q \in Data(r) \/ (q = k /\ tick[t].pc = "data")
    BY <1>7, <2>1 DEF Data
  <2>2. \A q \in Data(r) : <<q, "sidecar">> \in store[r]
    BY <1>1 DEF SidecarFirst
  <2> QED
    BY <1>6, <1>7, <2>1, <2>2
<1>10. \A o \in late' : o[1] = r /\ (o[3] = "data" => <<o[2], "sidecar">> \in store'[r])
  BY <1>1, <1>3, <1>6, <1>7
<1>11. Passed(tick'[t].batch)
  BY <1>3 DEF Passed, Keeps, Holds, Off
<1>12. Local(tick[t])'
  <2>1. CASE tick'[t] = Off
    BY <2>1, FreeLocal DEF Free, Off
  <2>2. CASE /\ Keeps(t) /\ store'[r] = store[r] \cup {<<k, tick[t].pc>>}
             /\ tick'[t].pc = (IF tick[t].pc = "sidecar" THEN "data" ELSE "verify")
    <3>1. /\ tick'[t].r = r /\ tick'[t].seen = tick[t].seen /\ tick'[t].snap = tick[t].snap
          /\ tick'[t].mode = tick[t].mode
      BY <1>0, <2>2 DEF Keeps, Holds
    <3>2. Holding(tick[t])' /\ Modes(tick[t])' /\ Finalizing(tick[t])'
      BY <1>0, <1>1, <1>2, <2>2, <3>1
         DEF Local, Holding, Held, Modes, Publishing, Finalizing, Parts
    <3>3. tick'[t].pc = "data" => <<k, "sidecar">> \in store'[r]
      BY <1>2, <2>2 DEF Parts
    <3>4. tick'[t].pc = "verify" => Objects(tick'[t].seen.pending) \subseteq store'[r]
      BY <1>2, <1>5, <1>6, <1>7, <2>2, <3>1 DEF Parts, Objects
    <3>5. Staging(tick[t])'
      BY <1>1, <1>2, <1>5, <2>2, <3>1, <3>3, <3>4
         DEF Local, Staging, Planned, Complete, Parts
    <3> QED
      BY <3>2, <3>5 DEF Local
  <2> QED
    BY <1>3, <2>1, <2>2
<1>13. OtherStores(r)
  BY <1>3
<1> QED
  BY <1>1, <1>2, <1>4, <1>8, <1>9, <1>10, <1>11, <1>12, <1>13, BucketStep

\* One deletion keeps the data with their sidecars.
LEMMA DeletedOrder ==
    ASSUME StoreType, SidecarFirst, NEW r \in Resources, NEW keep, DeleteEffect(r, keep)
    PROVE  /\ \A k \in Data(r)' : <<k, "sidecar">> \in store'[r]
           /\ Data(r)' \subseteq Data(r) /\ Objects(keep) \cap store[r] \subseteq store'[r]
           /\ store'[r] \subseteq store[r]
<1>1. PICK o \in store[r] : /\ o[1] \notin keep /\ store'[r] = store[r] \ {o}
                            /\ o[2] = "sidecar" => <<o[1], "data">> \notin store[r]
  BY DEF DeleteEffect
<1>2. Data(r)' \subseteq Data(r)
  BY <1>1 DEF Data
<1>3. \A k \in Data(r) : <<k, "sidecar">> \in store[r]
  BY DEF SidecarFirst
<1>4. ASSUME NEW k \in Data(r)'
      PROVE  <<k, "sidecar">> \in store'[r]
  <2>1. PICK p \in store'[r] : p[2] = "data" /\ p[1] = k
    BY <1>4 DEF Data
  <2>2. <<k, "sidecar">> \in store[r]
    BY <1>2, <1>3, <1>4
  <2>3. p = <<k, "data">> /\ p \in store[r]
    BY <1>1, <2>1 DEF StoreType
  <2> QED
    BY <1>1, <2>1, <2>2, <2>3
<1>5. Objects(keep) \cap store[r] \subseteq store'[r]
  BY <1>1 DEF Objects
<1> QED
  BY <1>1, <1>2, <1>4, <1>5

LEMMA SweepMembers ==
    ASSUME TypeInv, IInv, NEW t \in Ticks, Sweep(t)
    PROVE  Members'
<1>0. PICK r \in Resources : r = tick[t].r /\ SweepEffect(t, r)
  BY SweepMoves
<1>1. Within(t) /\ Local(tick[t]) /\ SidecarFirst /\ Tracked(r) /\ late = {} /\ StoreType
  BY WithinFrame, TypeFacts DEF Within, IInv, Members, RowInv, StoreType
<1>2. job' = job /\ late' = late /\ tick[t].pc = "sweep" /\ Framed
  BY <1>1, WithinFrame DEF Sweep, rows
<1>3. /\ Same(job[r], tick[t].seen) /\ tick[t].seen.state \notin Exposed
      /\ job[r].state \in {tick[t].seen.state, "PENDING"}
      /\ Data(r) \subseteq tick[t].seen.keys \cup tick[t].seen.removed
  BY <1>0, <1>1, <1>2 DEF Local, Holding, Held, Staging
<1>4. CASE tick' = tick /\ DeleteEffect(r, tick[t].seen.keys)
  <2>1. /\ \A k \in Data(r)' : <<k, "sidecar">> \in store'[r]
        /\ Data(r)' \subseteq Data(r) /\ Objects(tick[t].seen.keys) \cap store[r] \subseteq store'[r]
    BY <1>1, <1>4, DeletedOrder
  <2>2. Tracked(r)'
    BY <1>1, <1>2, <1>3, <2>1 DEF Tracked, Framed, Same
  <2>3. Local(tick[t])'
    <3>1. Holding(tick[t])' /\ Modes(tick[t])' /\ Finalizing(tick[t])'
      BY <1>0, <1>1, <1>2, <1>4 DEF Local, Holding, Held, Modes, Publishing, Finalizing
    <3>2. Staging(tick[t])'
      BY <1>0, <1>1, <1>2, <1>3, <1>4, <2>1 DEF Local, Staging, Planned, Complete
    <3> QED
      BY <3>1, <3>2 DEF Local
  <2>4. OtherStores(r) /\ Passed(tick'[t].batch) /\ job[r].state \notin Exposed
    BY <1>3, <1>4 DEF DeleteEffect, Passed, Exposed, Outcomes
  <2> QED
    BY <1>1, <1>2, <2>1, <2>2, <2>3, <2>4, BucketStep
<1>5. CASE /\ store' = store /\ Keeps(t) /\ \A o \in store[r] : o[1] \in tick[t].seen.keys
           /\ tick[t].mode = "publish" => tick'[t].pc = "ready"
           /\ tick[t].mode = "purge" => tick'[t].pc = "fail"
           /\ tick[t].mode = "defer" => tick'[t].pc = "deferred"
  <2>1. /\ tick'[t].r = r /\ tick'[t].seen = tick[t].seen /\ tick'[t].snap = tick[t].snap
        /\ tick'[t].mode = tick[t].mode /\ tick[t].mode \in {"publish", "purge", "defer"}
    BY <1>0, <1>5, TypeFacts, TickFields DEF Keeps, Holds, Tick
  <2>2. Local(tick[t])'
    <3>1. store[r] \subseteq Objects(tick[t].seen.keys)
      BY <1>1, <1>5 DEF StoreType, Objects
    <3>2. Holding(tick[t])' /\ Modes(tick[t])' /\ Finalizing(tick[t])'
      BY <1>0, <1>1, <1>2, <1>3, <1>5, <2>1 DEF Local, Holding, Held, Modes, Publishing, Finalizing
    <3>3. Staging(tick[t])'
      BY <1>0, <1>1, <1>2, <1>5, <2>1, <3>1 DEF Local, Staging, Planned, Complete
    <3> QED
      BY <3>2, <3>3 DEF Local
  <2> QED
    BY <1>1, <1>2, <1>5, <2>2, SameBatch, QuietStep DEF Keeps, Holds
<1> QED
  BY <1>0, <1>4, <1>5 DEF SweepEffect

LEMMA DisposeMembers ==
    ASSUME TypeInv, IInv, NEW t \in Ticks, Dispose(t)
    PROVE  Members'
<1>0. PICK r \in Resources : r = tick[t].r /\ DisposeEffect(t, r)
  BY DisposeMoves
<1>1. Within(t) /\ Local(tick[t]) /\ SidecarFirst /\ Tracked(r) /\ late = {} /\ StoreType
  BY WithinFrame, TypeFacts DEF Within, IInv, Members, RowInv, StoreType
<1>2. job' = job /\ late' = late /\ tick[t].pc = "dispose" /\ Framed
  BY <1>1, WithinFrame DEF Dispose, rows
<1>3. /\ Same(job[r], tick[t].seen) /\ tick[t].seen.state \notin Exposed
      /\ job[r].state \in {tick[t].seen.state, "PENDING"}
      /\ Data(r) \subseteq tick[t].seen.keys \cup tick[t].seen.removed \cup {Legacy}
  BY <1>0, <1>1, <1>2 DEF Local, Holding, Held, Staging
<1>4. CASE tick' = tick /\ DeleteEffect(r, tick[t].seen.keys \cup {Legacy})
  <2>1. (\A k \in Data(r)' : <<k, "sidecar">> \in store'[r]) /\ Data(r)' \subseteq Data(r)
    BY <1>1, <1>4, DeletedOrder
  <2>2. Tracked(r)'
    BY <1>1, <1>2, <1>3, <2>1 DEF Tracked, Framed, Same
  <2>3. Local(tick[t])'
    BY <1>0, <1>1, <1>2, <1>3, <1>4, <2>1
       DEF Local, Holding, Held, Modes, Publishing, Finalizing, Staging, Planned, Complete
  <2>4. OtherStores(r) /\ Passed(tick'[t].batch) /\ job[r].state \notin Exposed
    BY <1>3, <1>4 DEF DeleteEffect, Passed, Exposed, Outcomes
  <2> QED
    BY <1>1, <1>2, <2>1, <2>2, <2>3, <2>4, BucketStep
<1>5. CASE store' = store /\ Keeps(t) /\ tick'[t].pc = "requeue"
  <2>1. Local(tick[t])'
    BY <1>0, <1>1, <1>2, <1>5
       DEF Keeps, Holds, Local, Holding, Held, Modes, Publishing, Finalizing, Staging, Planned,
           Complete
  <2> QED
    BY <1>1, <1>2, <1>5, <2>1, SameBatch, QuietStep DEF Keeps, Holds
<1> QED
  BY <1>0, <1>4, <1>5 DEF DisposeEffect

-----------------------------------------------------------------------------
(* The members, while a tick exposes, judges and settles them. *)

LEMMA ReadyMembers ==
    ASSUME TypeInv, IInv, NEW t \in Ticks, Ready(t)
    PROVE  Members'
<1>0. PICK r \in Resources : r = tick[t].r /\ ReadyEffect(t, r)
  BY ReadyMoves
<1>1. Within(t) /\ Local(tick[t]) /\ \A q \in Resources : RowInv(q)
  BY DEF Within, IInv, Members
<1>2. store' = store /\ late' = late /\ tick[t].pc = "ready"
  BY DEF Ready
<1>3. Framed /\ Others(t) /\ control.phase = "EXPORTING"
  BY <1>1, <1>2, WithinFrame DEF Exporting
<1>4. CASE Keeps(t) /\ Unwritten /\ tick'[t].pc = "defer"
  <2>1. Local(tick[t])'
    BY <1>0, <1>1, <1>2, <1>4
       DEF Keeps, Holds, Unwritten, rows, Local, Holding, Held, Modes, Publishing, Staging,
           Planned, Complete, Finalizing, Exposed, Outcomes
  <2> QED
    BY <1>1, <1>2, <1>4, <2>1, SameBatch, QuietStep DEF Keeps, Holds, Unwritten, rows
<1>5. CASE /\ Fenced(t, r) /\ job'[r].state = "WAITING_SYNC" /\ Same(job'[r], job[r])
           /\ \/ Keeps(t) /\ tick'[t].pc = "retry"
              \/ /\ Moves(t, r, "take") /\ MemberRun(tick'[t], r, job[r].run)
                 /\ tick'[t].batch[r].rev = job[r].rev
  <2>1. job[r] = tick[t].seen /\ job[r].state = "PREPARING" /\ job[r].run \in Runs
    BY <1>0, <1>1, <1>2, <1>5 DEF Fenced, Unchanged, Local, Modes, Publishing
  <2>2. /\ store[r] = Objects(job[r].keys) /\ job[r].keys = KeysOf(job[r].rev, job[r].run)
        /\ Readable(job[r].rev) /\ Legacy \in job[r].removed
        /\ job[r].keys \cap job[r].removed = {}
    BY <1>0, <1>1, <1>2, <2>1 DEF Local, Staging, Complete
  <2>3. Local(tick[t])'
    BY <1>5, FreeLocal DEF Free, Moves
  <2>4. /\ job'[r].keys = job[r].keys /\ job'[r].removed = job[r].removed
        /\ job'[r].run = job[r].run /\ job'[r].rev = job[r].rev
    BY <1>5 DEF Same
  <2>5. RowInv(r)'
    <3>1. Tracked(r)'
      BY <1>1, <1>2, <1>3, <2>4, SameData, TrackedMore DEF RowInv
    <3>2. Exposures(r)'
      BY <1>2, <2>1, <2>2, <2>4 DEF Exposures
    <3>3. Waiting(r)'
      BY <1>3, <2>2, <2>4 DEF Waiting, Closed, Framed
    <3>4. Served(r)'
      BY <1>5 DEF Served, Outcomes
    <3> QED
      BY <3>1, <3>2, <3>3, <3>4 DEF RowInv
  <2>6. \A q \in Resources : RowInv(q)'
    BY <1>1, <1>2, <1>3, <1>5, <2>5, OneRow DEF OtherStores, Fenced
  <2>7. MembersFit /\ control' = control /\ OtherJobs(r) /\ job'[r].state # "PREPARING"
    BY <1>3, <1>5 DEF IInv, Members, Framed, Fenced
  <2>8. MembersFit'
    <3>1. CASE Keeps(t)
      BY <1>3, <2>1, <2>4, <2>7, <3>1, SameBatch, FitStep DEF Keeps, Holds
    <3>2. CASE /\ Moves(t, r, "take") /\ MemberRun(tick'[t], r, job[r].run)
               /\ tick'[t].batch[r].rev = job[r].rev
      BY <1>3, <2>1, <2>4, <2>7, <3>2, FitStep DEF Moves
    <3> QED
      BY <1>5, <3>1, <3>2
  <2> QED
    BY <1>1, <1>2, <2>3, <2>6, <2>8, MembersStep
<1> QED
  BY <1>0, <1>4, <1>5 DEF ReadyEffect

LEMMA FindMembers ==
    ASSUME TypeInv, IInv, NEW t \in Ticks, Find(t)
    PROVE  Members'
<1>0. PICK r \in Resources : r = tick[t].r /\ FindEffect(t, r)
  BY FindMoves
<1>1. Within(t) /\ Local(tick[t]) /\ Waiting(r)
  BY DEF Within, IInv, Members, RowInv
<1>2. store' = store /\ late' = late /\ job' = job /\ tick[t].pc = "find"
  BY DEF Find, rows
<1>3. Framed /\ control.phase = "FINALIZING"
  BY <1>1, <1>2, WithinFrame DEF Finishing
<1>4. Local(tick[t])'
  <2>1. CASE Moves(t, r, "find")
    BY <2>1, FreeLocal DEF Moves, Free
  <2>2. CASE /\ Holds(t) /\ tick'[t].seen = job[r] /\ tick'[t].success = control.succeeded
             /\ tick'[t].gone = tick[t].gone /\ Mine(tick[t])
             /\ tick'[t].pc = (IF control.succeeded THEN "reread" ELSE "docs")
    <3>1. tick'[t].r = r /\ tick'[t].batch = tick[t].batch /\ tick'[t].pc \in {"reread", "docs"}
      BY <1>0, <2>2 DEF Holds
    <3>2. job[r].state = "WAITING_SYNC" /\ job[r].run = tick'[t].batch[r].run
      BY <1>0, <2>2, <3>1 DEF Mine
    <3>3. tick'[t].gone = FALSE
      BY <1>1, <1>2, <2>2 DEF Local, Finalizing
    <3>4. tick'[t].success => vectors[r] = job[r].keys
      <4>1. control.succeeded => sync.ours = "complete"
        BY <1>3 DEF IInv, Phases, PhaseOfSync
      <4> QED
        BY <1>1, <1>3, <2>2, <3>2, <4>1 DEF Waiting, Closed
    <3>5. Judged(tick[t])'
      BY <1>2, <1>3, <2>2, <3>1, <3>3, <3>4 DEF Judged, Framed
    <3>6. Finalizing(tick[t])'
      BY <2>2, <3>1, <3>2, <3>5 DEF Finalizing
    <3> QED
      BY <3>1, <3>6
         DEF Local, Holding, Held, Modes, Publishing, Staging, Planned, Complete
  <2> QED
    BY <1>0, <2>1, <2>2 DEF FindEffect
<1>5. tick'[t].batch = tick[t].batch
  BY <1>0 DEF FindEffect, Holds
<1> QED
  BY <1>1, <1>2, <1>4, <1>5, SameBatch, QuietStep

LEMMA DocsMembers ==
    ASSUME TypeInv, IInv, NEW t \in Ticks, Docs(t)
    PROVE  Members'
<1>0. PICK r \in Resources : r = tick[t].r /\ DocsEffect(t, r)
  BY DocsMoves
<1>1. Within(t) /\ Local(tick[t]) /\ Waiting(r) /\ Exposures(r) /\ Tracked(r)
  BY DEF Within, IInv, Members, RowInv
<1>2. store' = store /\ late' = late /\ job' = job /\ tick[t].pc = "docs"
  BY DEF Docs, rows
<1>3. Framed
  BY <1>1, WithinFrame
<1>4. /\ tick'[t].r = r /\ tick'[t].seen = tick[t].seen /\ tick'[t].batch = tick[t].batch
      /\ tick'[t].pc = "reread"
  BY <1>0 DEF DocsEffect, Keeps, Holds
<1>5. tick[t].seen.state = "WAITING_SYNC" /\ tick[t].seen.run = tick[t].batch[r].run
  BY <1>0, <1>1, <1>2 DEF Local, Finalizing
<1>6. ASSUME job[r] = tick[t].seen, tick[t].seen.removed \cap vectors[r] = {},
             tick[t].seen.keys \subseteq vectors[r]
      PROVE  vectors[r] = tick[t].seen.keys
  <2>1. Legacy \in job[r].removed /\ store[r] = Objects(job[r].keys)
    BY <1>1, <1>5, <1>6 DEF Waiting, Exposures, Exposed
  <2>2. Data(r) \subseteq job[r].keys
    BY <2>1 DEF Data, Objects
  <2> QED
    BY <1>1, <1>6, <2>1, <2>2 DEF Tracked
<1>7. Judged(tick[t])'
  <2>1. tick'[t].gone => tick[t].seen.removed \cap vectors[r] = {}
    BY <1>0 DEF DocsEffect
  <2>2. tick'[t].success => tick'[t].gone /\ tick[t].seen.keys \subseteq vectors[r]
    BY <1>0 DEF DocsEffect
  <2> QED
    BY <1>2, <1>3, <1>4, <1>6, <2>1, <2>2 DEF Judged, Framed
<1>8. Local(tick[t])'
  BY <1>4, <1>5, <1>7
     DEF Local, Finalizing, Holding, Held, Modes, Publishing, Staging, Planned, Complete
<1> QED
  BY <1>1, <1>2, <1>4, <1>8, SameBatch, QuietStep

LEMMA AskedMembers ==
    ASSUME TypeInv, IInv, NEW t \in Ticks, Within(t), store' = store, late' = late,
           NEW r \in Resources, AskedAgain(t, r)
    PROVE  Members'
<1>1. /\ OtherJobs(r) /\ Asked(job[r], job'[r]) /\ Moves(t, r, "find")
      /\ tick'[t].batch = tick[t].batch
  BY DEF AskedAgain
<1>2. Framed /\ Others(t)
  BY WithinFrame
<1>3. Local(tick[t])'
  BY <1>1, FreeLocal DEF Moves, Free
<1>4. \A q \in Resources : RowInv(q)'
  BY <1>1, <1>2, AskedRow DEF IInv, Members
<1>5. MembersFit'
  <2>1. job'[r] = job[r] \/ job'[r].state \notin {"PREPARING", "WAITING_SYNC"}
    BY <1>1 DEF Asked
  <2>2. MembersFit /\ control' = control
    BY <1>2 DEF IInv, Members, Framed
  <2> QED
    BY <1>1, <1>2, <2>1, <2>2, SameBatch, FitStep
<1> QED
  BY <1>3, <1>4, <1>5, MembersStep

LEMMA RereadMembers ==
    ASSUME TypeInv, IInv, NEW t \in Ticks, Reread(t)
    PROVE  Members'
<1>0. PICK r \in Resources : r = tick[t].r /\ RereadEffect(t, r)
  BY RereadMoves
<1>1. Within(t) /\ Local(tick[t])
  BY DEF Within, IInv, Members
<1>2. store' = store /\ late' = late /\ tick[t].pc = "reread" /\ Framed
  BY <1>1, WithinFrame DEF Reread
<1>3. CASE AskedAgain(t, r)
  BY <1>1, <1>2, <1>3, AskedMembers
<1>4. CASE /\ Unwritten /\ Holds(t) /\ tick'[t].seen = tick[t].seen
           /\ tick'[t].gone = tick[t].gone /\ tick'[t].success = tick[t].success
           /\ tick'[t].snap = source[r] /\ tick'[t].pc = "settle"
  <2>1. job' = job /\ vectors' = vectors /\ tick'[t].r = r /\ tick'[t].batch = tick[t].batch
    BY <1>0, <1>2, <1>4 DEF Unwritten, rows, Holds, Framed
  <2>2. Local(tick[t])'
    BY <1>0, <1>1, <1>2, <1>4, <2>1
       DEF Local, Finalizing, Judged, Holding, Held, Modes, Publishing, Staging, Planned, Complete
  <2> QED
    BY <1>1, <1>2, <2>1, <2>2, SameBatch, QuietStep
<1> QED
  BY <1>0, <1>3, <1>4 DEF RereadEffect

\* What a tick knows when it settles a member whose row is the one it read.
LEMMA SettledMember ==
    ASSUME TypeInv, IInv, NEW t \in Ticks, NEW r \in Resources, r = tick[t].r,
           tick[t].pc = "settle", job[r] = tick[t].seen, tick[t].snap = tick[t].batch[r].rev
    PROVE  /\ job[r].state = "WAITING_SYNC" /\ job[r].rev = tick[t].snap
           /\ job[r].rev.kind \in Outcomes
           /\ tick[t].success => vectors[r] = job[r].keys
           /\ tick[t].gone => job[r].removed \cap vectors[r] = {}
           /\ Ingesting => sync.seen[r] = Objects(job[r].keys)
           /\ ~Ingesting => sync.seen[r] = {}
<1>1. Local(tick[t]) /\ Waiting(r) /\ Exposures(r) /\ Equipped(tick[t])
  BY TypeFacts DEF IInv, Members, RowInv
<1>2. job[r].state = "WAITING_SYNC" /\ job[r].run = tick[t].batch[r].run /\ Judged(tick[t])
  BY <1>1 DEF Local, Finalizing
<1>3. job[r].run # 0
  BY <1>1, <1>2, BoundAssumption DEF Exposures, Exposed
<1>4. job[r].rev = tick[t].snap
  BY <1>2, <1>3 DEF IInv, Members, MembersFit, MemberFits
<1>5. job[r].rev.kind \in Outcomes
  BY <1>1, <1>4 DEF Equipped, Readable
<1>6. control.phase = "FINALIZING" /\ sync.ours \in {"complete", "failed"}
  BY DEF IInv, Phases, PhaseOfStep, PhaseOfSync, Finishing
<1>7. /\ Ingesting => sync.seen[r] = Objects(job[r].keys)
      /\ ~Ingesting => sync.seen[r] = {}
  BY <1>1, <1>2, <1>6 DEF Waiting, Closed, IInv, Phases, PhaseOfSync
<1> QED
  BY <1>2, <1>4, <1>5, <1>7 DEF Judged

LEMMA SettleMembers ==
    ASSUME TypeInv, IInv, NEW t \in Ticks, Settle(t)
    PROVE  Members'
<1>0. PICK r \in Resources : r = tick[t].r /\ SettleEffect(t, r)
  BY SettleMoves
<1>1. Within(t) /\ Local(tick[t]) /\ \A q \in Resources : RowInv(q)
  BY DEF Within, IInv, Members
<1>2. store' = store /\ late' = late /\ tick[t].pc = "settle" /\ Framed /\ Others(t)
  BY <1>1, WithinFrame DEF Settle
<1>3. CASE AskedAgain(t, r)
  BY <1>1, <1>2, <1>3, AskedMembers
<1>4. CASE Unwritten /\ Keeps(t) /\ tick'[t].pc = "tally"
  <2>1. Local(tick[t])'
    BY <1>4, FreeLocal DEF Free
  <2> QED
    BY <1>1, <1>2, <1>4, <2>1, SameBatch, QuietStep DEF Keeps, Holds, Unwritten, rows
<1>5. CASE /\ Fenced(t, r) /\ tick[t].snap = tick[t].batch[r].rev
           /\ store[r] = Objects(job[r].keys) /\ source[r].rec = tick[t].snap.rec
           /\ job'[r].keys = job[r].keys /\ job'[r].run = job[r].run /\ job'[r].rev = job[r].rev
           /\ \/ tick[t].success /\ job'[r].state = tick[t].snap.kind /\ job'[r].removed = {}
              \/ /\ tick[t].success = FALSE /\ job'[r].state = "FAILED"
                 /\ job'[r].removed = (IF tick[t].gone THEN {} ELSE job[r].removed)
           /\ \/ Moves(t, r, "find") /\ tick'[t].batch = tick[t].batch
              \/ Keeps(t) /\ tick'[t].pc = "tally"
  <2>1. job[r] = tick[t].seen
    BY <1>0, <1>5 DEF Fenced, Unchanged
  <2>2. /\ job[r].state = "WAITING_SYNC" /\ job[r].rev = tick[t].snap
        /\ job[r].rev.kind \in Outcomes
        /\ tick[t].success => vectors[r] = job[r].keys
        /\ tick[t].gone => job[r].removed \cap vectors[r] = {}
        /\ Ingesting => sync.seen[r] = Objects(job[r].keys)
        /\ ~Ingesting => sync.seen[r] = {}
    <3>1. r = tick[t].r /\ tick[t].pc = "settle" /\ tick[t].snap = tick[t].batch[r].rev
      BY <1>0, <1>2, <1>5
    <3> QED
      BY <2>1, <3>1, SettledMember, Zenon
  <2>3. DataIn(sync.seen[r]) \subseteq job[r].keys
    BY <2>2 DEF DataIn, Objects
  <2>4. Data(r)' = Data(r) /\ vectors' = vectors /\ sync' = sync /\ control' = control
    BY <1>2, SameData DEF Framed
  <2>5. Tracked(r)'
    <3>1. Tracked(r)
      BY <1>1 DEF RowInv
    <3>2. CASE tick[t].success
      BY <1>5, <2>2, <2>3, <2>4, <3>2 DEF Tracked
    <3>3. CASE tick[t].success = FALSE
      BY <1>5, <2>2, <2>3, <2>4, <3>1, <3>3 DEF Tracked
    <3> QED
      BY <1>5, <3>2, <3>3
  <2>6. RowInv(r)'
    <3>1. CASE job'[r].state = "FAILED"
      BY <2>5, <3>1, HiddenRow DEF Exposed, Outcomes
    <3>2. CASE tick[t].success /\ job'[r].state = tick[t].snap.kind
      <4>1. Exposures(r)'
        BY <1>1, <1>2, <1>5, <2>2 DEF RowInv, Exposures, Exposed
      <4>2. Served(r)'
        BY <1>5, <2>2, <2>4, <3>2 DEF Served, Ingesting
      <4>3. Waiting(r)'
        BY <2>2, <3>2 DEF Waiting, Outcomes
      <4> QED
        BY <2>5, <4>1, <4>2, <4>3 DEF RowInv
    <3> QED
      BY <1>5, <3>1, <3>2
  <2>7. \A q \in Resources : RowInv(q)'
    BY <1>1, <1>2, <1>5, <2>6, OneRow DEF OtherStores, Fenced
  <2>8. Local(tick[t])' /\ tick'[t].batch = tick[t].batch
    BY <1>5, FreeLocal DEF Moves, Free, Keeps, Holds
  <2>9. MembersFit'
    <3>1. job'[r].state \notin {"PREPARING", "WAITING_SYNC"} /\ OtherJobs(r)
      BY <1>5, <2>2 DEF Outcomes, Fenced
    <3> QED
      BY <1>2, <2>4, <2>8, <3>1, SameBatch, FitStep DEF IInv, Members
  <2> QED
    BY <1>1, <1>2, <2>7, <2>8, <2>9, MembersStep
<1> QED
  BY <1>0, <1>3, <1>4, <1>5 DEF SettleEffect

-----------------------------------------------------------------------------
(* The members, while a tick is between them. *)

\* A step that leaves rows and bucket alone, and lets go of its member.
LEMMA FreeMembers ==
    ASSUME TypeInv, IInv, NEW t \in Ticks, Within(t), store' = store, late' = late, job' = job,
           tick'[t].pc \in Free, Passed(tick'[t].batch)
    PROVE  Members'
<1>1. Framed /\ Others(t) /\ Local(tick[t])'
  BY WithinFrame, FreeLocal
<1>2. \A q \in Resources : RowInv(q)'
  BY <1>1, SameRows DEF IInv, Members
<1>3. MembersFit'
  <2>1. Passed(control'.batch) /\ \A u \in Ticks : Passed(tick'[u].batch)
    BY <1>1 DEF Framed, Others, Passed
  <2> QED
    BY <2>1, FitsAnew DEF IInv, Members
<1> QED
  BY <1>1, <1>2, <1>3, MembersStep

LEMMA BusyMembers ==
    ASSUME TypeInv, IInv, NEW t \in Ticks, Busy(t)
    PROVE  Members'
<1>1. TickType /\ tick[t] \in Tick
  BY TypeFacts
<1>2. Within(t) /\ store' = store /\ late' = late /\ job' = job
  BY DEF Within, Busy, rows
<1>3. tick'[t].pc \in Free /\ Passed(tick'[t].batch)
  <2>1. CASE Goto(t, tick[t], "return")
    BY <1>1, <2>1, GotoStep DEF Step, Free, Passed
  <2>2. CASE Onward(t, [tick[t] EXCEPT !.todo = Resources, !.batch = NoBatch], "look")
    <3> DEFINE x == [tick[t] EXCEPT !.todo = Resources, !.batch = NoBatch]
    <3>1. NoBatch \in Batch /\ "look" \in Step \ {"close"}
      BY OffTick, TickFields DEF Off, Step
    <3>2. x \in Tick /\ x.batch = NoBatch
      BY <1>1, <3>1 DEF Tick
    <3>3. Onward(t, x, "look")
      BY <2>2
    <3> HIDE DEF x
    <3> QED
      BY <1>1, <3>1, <3>2, <3>3, OnwardStep DEF Free, Passed
  <2> QED
    BY <2>1, <2>2 DEF Busy
<1> QED
  BY <1>2, <1>3, FreeMembers

LEMMA LookMembers ==
    ASSUME TypeInv, IInv, NEW t \in Ticks, Look(t)
    PROVE  Members'
<1>1. TickType /\ tick[t] \in Tick /\ tick[t].r \in Resources
  BY TypeFacts DEF Look, Equipped
<1>2. Within(t) /\ store' = store /\ late' = late /\ job' = job
  BY DEF Within, Look, rows
<1>3. PICK s \in Source \cup {Unavailable} : Goto(t, [tick[t] EXCEPT !.snap = s], "choose")
  BY <1>1, TypeFacts DEF Look
<1> DEFINE x == [tick[t] EXCEPT !.snap = s]
<1>4. x \in Tick /\ x.batch = tick[t].batch
  BY <1>1 DEF Tick
<1>5. Goto(t, x, "choose")
  BY <1>3
<1> HIDE DEF x
<1>6. tick'[t].pc \in Free /\ Passed(tick'[t].batch)
  BY <1>1, <1>4, <1>5, GotoStep DEF Step, Free, Passed
<1> QED
  BY <1>2, <1>6, FreeMembers

LEMMA ChooseMoves ==
    ASSUME TypeInv, NEW t \in Ticks, Choose(t)
    PROVE  \E r \in Resources : /\ Moves(t, r, "look") /\ MemberRun(tick'[t], r, 0)
                                /\ OtherJobs(r) /\ Asked(job[r], job'[r])
<1> DEFINE r == tick[t].r
<1>1. tick[t] \in Tick /\ TickType /\ r \in Resources /\ RowsType
  BY TypeFacts DEF Choose, Equipped
<1>2. OtherJobs(r) /\ Asked(job[r], job'[r])
  <2>1. CASE UNCHANGED rows
    BY <2>1 DEF rows, OtherJobs, Asked
  <2>2. CASE RequestIndexResource(r, NoRevision)
    BY <1>1, <2>2, RequestStep, RevisionValues
  <2>3. CASE Readable(tick[t].snap) /\ RequestIndexResource(r, tick[t].snap)
    <3>1. tick[t].snap \in Revision
      BY <1>1, <2>3, TickFields, RevisionValues
    <3> QED
      BY <1>1, <2>3, <3>1, RequestStep
  <2> QED
    BY <2>1, <2>2, <2>3 DEF Choose
<1>3. PICK m \in {NewMember, NoMember} : Onward(t, [tick[t] EXCEPT !.batch[r] = m], "look")
  BY DEF Choose
<1>4. m \in Member /\ m.run = 0
  BY RevisionValues DEF NewMember, NoMember, Member
<1>5. Moves(t, r, "look") /\ tick'[t].batch[r] = m
  BY <1>1, <1>3, <1>4, OnwardMember
<1> QED
  BY <1>1, <1>2, <1>4, <1>5 DEF MemberRun

LEMMA ChooseMembers ==
    ASSUME TypeInv, IInv, NEW t \in Ticks, Choose(t)
    PROVE  Members'
<1>0. PICK r \in Resources : /\ Moves(t, r, "look") /\ MemberRun(tick'[t], r, 0)
                             /\ OtherJobs(r) /\ Asked(job[r], job'[r])
  BY ChooseMoves
<1>1. Within(t) /\ store' = store /\ late' = late
  BY DEF Within, Choose
<1>2. Framed /\ Others(t)
  BY <1>1, WithinFrame
<1>3. Local(tick[t])' /\ OtherMembers(tick'[t].batch, tick[t].batch, r)
  BY <1>0, FreeLocal DEF Moves, Free
<1>4. \A q \in Resources : RowInv(q)'
  BY <1>0, <1>1, <1>2, AskedRow DEF IInv, Members
<1>5. MembersFit'
  <2>1. job'[r] = job[r] \/ job'[r].state \notin {"PREPARING", "WAITING_SYNC"}
    BY <1>0 DEF Asked
  <2>2. MembersFit /\ control' = control
    BY <1>2 DEF IInv, Members, Framed
  <2> QED
    BY <1>0, <1>2, <1>3, <2>1, <2>2, FitStep
<1> QED
  BY <1>1, <1>3, <1>4, <1>5, MembersStep

LEMMA FaultMembers ==
    ASSUME TypeInv, IInv, NEW t \in Ticks, CallFails(t) \/ Crash(t)
    PROVE  Members'
<1>1. Within(t) /\ store' = store /\ late' = late /\ job' = job
  BY DEF Within, CallFails, Crash, rows
<1>2. tick'[t].pc \in Free /\ Passed(tick'[t].batch)
  <2>1. CASE CallFails(t)
    BY <2>1, CallFailsType DEF Keeps, Holds, Free, Passed
  <2>2. CASE Crash(t)
    BY <2>2, CrashType DEF Off, Free, Passed
  <2> QED
    BY <2>1, <2>2
<1> QED
  BY <1>1, <1>2, FreeMembers

LEMMA WithinMembers ==
    ASSUME TypeInv, IInv, NEW t \in Ticks, Within(t)
    PROVE  Members'
  BY BusyMembers, LookMembers, ChooseMembers, TakeMembers, BeginMembers, ReadMembers, PlanMembers,
     PutMembers, VerifyMembers, TrackMembers, SweepMembers, ReadyMembers, FailMembers, DeferMembers,
     DeferredMembers, RetryMembers, DisposeMembers, RequeueMembers, TallyMembers, FindMembers,
     DocsMembers, RereadMembers, SettleMembers, FaultMembers
     DEF Within

-----------------------------------------------------------------------------
(* The members, while a phase is closed, an ingestion started, a lease taken or released. *)

\* Rows, bucket and sources stay; so does what a live tick promises.
LEMMA StillMembers ==
    ASSUME TypeInv, IInv, job' = job, store' = store, late' = late,
           \A t \in Ticks : Local(tick[t])', \A r \in Resources : Waiting(r)',
           \A r \in Resources : Served(r)', \A r \in Resources : Tracked(r)',
           Passed(control'.batch), \A t \in Ticks : Passed(tick'[t].batch)
    PROVE  Members'
<1>1. MembersFit'
  BY FitsAnew DEF IInv, Members
<1>2. Late' /\ SidecarFirst'
  BY DEF IInv, Members, Late, SidecarFirst, Data
<1>3. \A r \in Resources : Exposures(r)'
  BY DEF IInv, Members, RowInv, Exposures
<1> QED
  BY <1>1, <1>2, <1>3 DEF Members, RowInv

LEMMA CloseMembers ==
    ASSUME TypeInv, IInv, NEW t \in Ticks, CloseReconcile(t) \/ CloseExport(t) \/ CloseFinal(t)
    PROVE  Members'
<1>1. CloseEffect(t) /\ Coarse(t)
  BY CloseMoves, CloseType
<1>2. /\ job' = job /\ store' = store /\ late' = late /\ vectors' = vectors
      /\ sync'.external = sync.external /\ sync'.seen = sync.seen
      /\ sync'.ours = sync.ours \/ (sync'.ours = "none" /\ control.phase = "EXPORTING")
      /\ control'.phase \in Closed => sync'.ours = "none" \/ control.phase \in Closed
  BY <1>1 DEF CloseEffect, rows, Closed
<1>3. \A u \in Ticks : u # t => tick'[u] = tick[u] /\ tick'[u].pc = "off"
  BY <1>1, Alone DEF Coarse, Others, IInv, Phases, CloseEffect
<1>4. \A u \in Ticks : Local(tick[u])'
  <2>1. Local(tick[t])'
    BY <1>1, FreeLocal DEF CloseEffect, Free
  <2> QED
    BY <1>3, <2>1, OneLocal
<1>5. Passed(control'.batch) /\ \A u \in Ticks : Passed(tick'[u].batch)
  BY <1>1, <1>3 DEF CloseEffect, Passed
<1>6. sync'.ours = "running" => sync.ours = "running"
  BY <1>2
<1>7. ASSUME NEW r \in Resources
      PROVE  Waiting(r)' /\ Served(r)' /\ Tracked(r)'
  <2>1. Waiting(r) /\ Served(r) /\ Tracked(r) /\ Data(r)' = Data(r)
    BY <1>2, SameData DEF IInv, Members, RowInv
  <2>2. Tracked(r)'
    BY <1>2, <2>1 DEF Tracked
  <2>3. Served(r)'
    BY <1>2, <1>6, <2>1 DEF Served, Ingesting
  <2>4. Waiting(r)'
    BY <1>2, <1>6, <2>1 DEF Waiting, Ingesting
  <2> QED
    BY <2>2, <2>3, <2>4
<1> QED
  BY <1>2, <1>4, <1>5, <1>7, StillMembers

LEMMA RunMembers ==
    ASSUME TypeInv, IInv, NEW t \in Ticks, Run(t) \/ Get(t)
    PROVE  Members'
<1>1. /\ Coarse(t) /\ tick'[t].batch = tick[t].batch /\ control'.batch = control.batch
      /\ \/ control'.phase = control.phase
         \/ control.phase \in Closed
      /\ tick'[t].pc = "return" \/ (tick'[t].pc \in {"find", "close"} /\ Fresh(tick'[t]))
  <2>1. CASE Run(t)
    <3>1. control.phase = "PREPARED"
      BY <2>1 DEF Run, IInv, Phases, PhaseOfStep
    <3> QED
      BY <2>1, <3>1, RunType DEF Closed
  <2>2. CASE Get(t)
    <3>1. control.phase = "RUNNING"
      BY <2>2 DEF Get, IInv, Phases, PhaseOfStep
    <3> QED
      BY <2>2, <3>1, GetType DEF Closed
  <2> QED
    BY <2>1, <2>2
<1>2. job' = job /\ store' = store /\ late' = late /\ vectors' = vectors /\ sync' = sync
      /\ tick[t].pc # "off"
  BY DEF Run, Get, rows
<1>3. \A u \in Ticks : u # t => tick'[u] = tick[u] /\ tick'[u].pc = "off"
  BY <1>1, <1>2, Alone DEF Coarse, Others, IInv, Phases
<1>4. \A u \in Ticks : Local(tick[u])'
  <2>1. Local(tick[t])'
    BY <1>1, FreeLocal DEF Free
  <2> QED
    BY <1>3, <2>1, OneLocal
<1>5. Passed(control'.batch) /\ \A u \in Ticks : Passed(tick'[u].batch)
  BY <1>1, <1>3 DEF Passed
<1>6. ASSUME NEW r \in Resources
      PROVE  Waiting(r)' /\ Served(r)' /\ Tracked(r)'
  <2>1. Waiting(r) /\ Served(r) /\ Tracked(r) /\ Data(r)' = Data(r)
    BY <1>2, SameData DEF IInv, Members, RowInv
  <2>2. Tracked(r)' /\ Served(r)'
    BY <1>2, <2>1 DEF Tracked, Served, Ingesting
  <2>3. Waiting(r)'
    BY <1>1, <1>2, <2>1 DEF Waiting, Ingesting
  <2> QED
    BY <2>2, <2>3
<1> QED
  BY <1>2, <1>4, <1>5, <1>6, StillMembers

LEMMA StartMembers ==
    ASSUME TypeInv, IInv, NEW t \in Ticks, Start(t)
    PROVE  Members'
<1>1. /\ Coarse(t) /\ control' = control /\ tick'[t].batch = tick[t].batch
      /\ tick'[t].pc \in {"return", "run"}
      /\ \/ sync' = sync
         \/ /\ sync.ours = "none" /\ sync.external = FALSE
            /\ sync'.ours = "running" /\ sync'.external = FALSE /\ sync'.seen = store
  BY StartType
<1>2. job' = job /\ store' = store /\ late' = late /\ vectors' = vectors /\ tick[t].pc # "off"
  BY DEF Start, rows
<1>3. \A u \in Ticks : u # t => tick'[u] = tick[u] /\ tick'[u].pc = "off"
  BY <1>1, <1>2, Alone DEF Coarse, Others, IInv, Phases
<1>4. \A u \in Ticks : Local(tick[u])'
  <2>1. Local(tick[t])'
    BY <1>1, FreeLocal DEF Free
  <2> QED
    BY <1>3, <2>1, OneLocal
<1>5. Passed(control'.batch) /\ \A u \in Ticks : Passed(tick'[u].batch)
  BY <1>1, <1>3 DEF Passed
<1>6. ASSUME NEW r \in Resources
      PROVE  Waiting(r)' /\ Served(r)' /\ Tracked(r)'
  <2>1. Waiting(r) /\ Served(r) /\ Tracked(r) /\ Exposures(r) /\ Data(r)' = Data(r)
    BY <1>2, SameData DEF IInv, Members, RowInv
  <2>2. CASE sync' = sync
    BY <1>1, <1>2, <2>1, <2>2 DEF Tracked, Served, Waiting, Ingesting
  <2>3. CASE sync'.ours = "running" /\ sync'.seen = store
    <3>1. DataIn(sync'.seen[r]) = Data(r)
      BY <2>3 DEF DataIn, Data
    <3>2. Tracked(r)'
      BY <1>2, <2>1, <3>1 DEF Tracked
    <3>3. job[r].state \in Exposed => sync'.seen[r] = Objects(job[r].keys)
      BY <2>1, <2>3 DEF Exposures
    <3>4. Served(r)'
      BY <1>2, <2>1, <3>3 DEF Served, Exposed
    <3>5. Waiting(r)'
      BY <1>1, <1>2, <2>1, <2>3, <3>3 DEF Waiting, Exposed
    <3> QED
      BY <3>2, <3>4, <3>5
  <2> QED
    BY <1>1, <2>2, <2>3
<1> QED
  BY <1>2, <1>4, <1>5, <1>6, StillMembers

LEMMA LeaseMembers ==
    ASSUME TypeInv, IInv, NEW t \in Ticks, Claim(t) \/ Release(t)
    PROVE  Members'
<1>1. /\ Others(t) /\ control'.phase = control.phase /\ control'.batch = control.batch
      /\ tick'[t].batch \in {control.batch, NoBatch}
      /\ \A u \in Ticks : u # t => tick[u].pc = "off"
  <2>1. CASE Claim(t)
    BY <2>1, ClaimType, ClaimAlone DEF IInv, Phases
  <2>2. CASE Release(t)
    <3>1. tick[t].pc # "off"
      BY <2>2 DEF Release
    <3> QED
      BY <2>2, <3>1, ReleaseType, Alone DEF IInv, Phases, Off
  <2> QED
    BY <2>1, <2>2
<1>2. Local(tick[t])'
  <2>1. CASE Claim(t)
    <3>1. Fresh(tick'[t]) /\ tick'[t].pc \in {"busy", "take", "start", "get", "find", "close"}
      BY <2>1, ClaimType DEF Entry
    <3> QED
      BY <3>1, FreeLocal DEF Free
  <2>2. CASE Release(t)
    BY <2>2, ReleaseType, FreeLocal DEF Off, Free
  <2> QED
    BY <2>1, <2>2
<1>3. job' = job /\ store' = store /\ late' = late /\ vectors' = vectors /\ sync' = sync
  BY DEF Claim, Release, rows
<1>4. \A u \in Ticks : Local(tick[u])'
  BY <1>1, <1>2, OneLocal DEF Others
<1>5. Passed(control'.batch) /\ \A u \in Ticks : Passed(tick'[u].batch)
  BY <1>1 DEF Passed, Others
<1>6. ASSUME NEW r \in Resources
      PROVE  Waiting(r)' /\ Served(r)' /\ Tracked(r)'
  <2>1. Waiting(r) /\ Served(r) /\ Tracked(r) /\ Data(r)' = Data(r)
    BY <1>3, SameData DEF IInv, Members, RowInv
  <2> QED
    BY <1>1, <1>3, <2>1 DEF Tracked, Served, Waiting, Ingesting
<1> QED
  BY <1>3, <1>4, <1>5, <1>6, StillMembers

-----------------------------------------------------------------------------
(* The members, while sources, requests, the provider and time go on. *)

Unmoved(t) ==
    /\ tick'[t].pc = tick[t].pc /\ tick'[t].r = tick[t].r /\ tick'[t].batch = tick[t].batch
    /\ tick'[t].seen = tick[t].seen /\ tick'[t].snap = tick[t].snap /\ tick'[t].mode = tick[t].mode
    /\ tick'[t].success = tick[t].success /\ tick'[t].gone = tick[t].gone

LEMMA LocalSame ==
    ASSUME NEW t \in Ticks, Unmoved(t), Local(tick[t]), store' = store,
           Holding(tick[t])', tick[t].pc \in {"docs", "reread", "settle"} => Judged(tick[t])'
    PROVE  Local(tick[t])'
<1>1. Modes(tick[t])'
  BY DEF Unmoved, Local, Modes, Publishing
<1>2. Staging(tick[t])'
  BY DEF Unmoved, Local, Staging, Planned, Complete, Data
<1>3. Finalizing(tick[t])'
  BY DEF Unmoved, Local, Finalizing
<1> QED
  BY <1>1, <1>2, <1>3 DEF Local

LEMMA StillOutside ==
    ASSUME TypeInv, IInv, Outside, job' = job, store' = store, late' = late, vectors' = vectors,
           sync' = sync
    PROVE  Members'
<1>1. /\ control'.phase = control.phase /\ control'.batch = control.batch
      /\ \A t \in Ticks : Unmoved(t)
  BY OutsideMoves DEF Unmoved
<1>2. ASSUME NEW t \in Ticks
      PROVE  Local(tick[t])'
  <2>1. Unmoved(t) /\ Local(tick[t])
    BY <1>1 DEF IInv, Members
  <2>2. Holding(tick[t])'
    BY <2>1 DEF Unmoved, Local, Holding
  <2>3. tick[t].pc \in {"docs", "reread", "settle"} => Judged(tick[t])'
    BY <2>1 DEF Unmoved, Local, Finalizing, Judged
  <2> QED
    BY <2>1, <2>2, <2>3, LocalSame
<1>3. Passed(control'.batch) /\ \A t \in Ticks : Passed(tick'[t].batch)
  BY <1>1 DEF Passed, Unmoved
<1>4. ASSUME NEW r \in Resources
      PROVE  Waiting(r)' /\ Served(r)' /\ Tracked(r)'
  <2>1. Waiting(r) /\ Served(r) /\ Tracked(r) /\ Data(r)' = Data(r)
    BY SameData DEF IInv, Members, RowInv
  <2> QED
    BY <1>1, <2>1 DEF Tracked, Served, Waiting, Ingesting
<1> QED
  BY <1>2, <1>3, <1>4, StillMembers

LEMMA EnqueueMembers ==
    ASSUME TypeInv, IInv, Enqueue
    PROVE  Members'
<1>1. UNCHANGED <<source, control, tick, store, late, vectors, sync>>
  BY EnqueueType
<1>2. PICK r \in Resources : OtherJobs(r) /\ Asked(job[r], job'[r])
  BY EnqueueType
<1>3. ASSUME NEW q \in Resources
      PROVE  job'[q] = job[q] \/ (job'[q].state = "PENDING" /\ Same(job'[q], job[q]))
  BY <1>2 DEF OtherJobs, Asked
<1>4. \A q \in Resources : RowInv(q)'
  BY <1>1, <1>2, AskedRow DEF IInv, Members, Framed
<1>5. MembersFit'
  <2>1. ASSUME NEW b, NEW q \in Resources, MemberFits(b, q)
        PROVE  b[q].run = job'[q].run /\ b[q].run # 0 =>
                  job'[q].state # "PREPARING" /\ (job'[q].state = "WAITING_SYNC" => b[q].rev = job'[q].rev)
    BY <1>3, <2>1 DEF MemberFits
  <2> QED
    BY <1>1, <2>1 DEF IInv, Members, MembersFit, MemberFits
<1>6. ASSUME NEW t \in Ticks
      PROVE  Local(tick[t])'
  <2>1. Unmoved(t) /\ Local(tick[t]) /\ tick' = tick /\ vectors' = vectors
    BY <1>1 DEF IInv, Members, Unmoved
  <2>2. Holding(tick[t])'
    <3>1. CASE tick[t].pc \in Held \cup {"begin", "defer"}
      <4>1. PICK q \in Resources : q = tick[t].r
        BY <3>1, TypeFacts DEF Equipped, Held, Exporting
      <4>2. job'[q] = job[q] \/ (job'[q].state = "PENDING" /\ Same(job'[q], job[q]))
        BY <1>3
      <4> QED
        BY <2>1, <4>1, <4>2 DEF Local, Holding, Same, Exposed, Outcomes
    <3> QED
      BY <2>1, <3>1 DEF Holding
  <2>3. ASSUME tick[t].pc \in {"docs", "reread", "settle"}
        PROVE  Judged(tick[t])'
    <3>1. PICK q \in Resources : q = tick[t].r
      BY <2>3, TypeFacts DEF Equipped, Finishing
    <3>2. job'[q] = job[q] \/ job'[q].state = "PENDING"
      BY <1>3
    <3>3. tick[t].seen.state = "WAITING_SYNC" /\ Judged(tick[t])
      BY <2>1, <2>3 DEF Local, Finalizing
    <3> QED
      BY <2>1, <3>1, <3>2, <3>3 DEF Judged
  <2> QED
    BY <1>1, <2>1, <2>2, <2>3, LocalSame
<1>7. Late'
  <2>1. ASSUME NEW o \in late
        PROVE  job'[o[1]].state \notin Exposed /\ (o[3] = "data" => <<o[2], "sidecar">> \in store[o[1]])
    <3>1. o[1] \in Resources
      BY DEF TypeInv, TypeOK
    <3> QED
      BY <1>3, <2>1, <3>1 DEF IInv, Members, Late, Exposed, Outcomes
  <2> QED
    BY <1>1, <2>1 DEF Late
<1>8. SidecarFirst'
  BY <1>1 DEF IInv, Members, SidecarFirst, Data
<1> QED
  BY <1>4, <1>5, <1>6, <1>7, <1>8 DEF Members

LEMMA ResolveMembers ==
    ASSUME TypeInv, IInv, Resolve
    PROVE  Members'
<1>1. UNCHANGED <<source, rows, control, tick, note, vectors, sync>>
  BY ResolveType
<1>2. PICK r \in Resources, k \in Key, part \in Parts :
         /\ <<r, k, part>> \in late /\ late' = late \ {<<r, k, part>>} /\ OtherStores(r)
         /\ store'[r] = store[r] \cup {<<k, part>>} \/ store'[r] = store[r]
  BY ResolveType
<1>3. Late /\ SidecarFirst /\ \A q \in Resources : RowInv(q)
  BY DEF IInv, Members
<1>4. job[r].state \notin Exposed /\ (part = "data" => <<k, "sidecar">> \in store[r])
  BY <1>2, <1>3 DEF Late
<1>5. store[r] \subseteq store'[r] /\ store'[r] \subseteq store[r] \cup {<<k, part>>}
  BY <1>2
<1>6. Framed /\ job' = job /\ OtherJobs(r)
  BY <1>1 DEF Framed, rows, OtherJobs
<1>7. RowInv(r)'
  <2>1. Tracked(r) /\ Data(r) \subseteq Data(r)'
    BY <1>3, <1>5 DEF RowInv, Data
  <2>2. Tracked(r)'
    BY <1>6, <2>1 DEF Tracked, Framed
  <2> QED
    BY <1>4, <1>6, <2>2, HiddenRow
<1>8. \A q \in Resources : RowInv(q)'
  BY <1>2, <1>3, <1>6, <1>7, OneRow
<1>9. SidecarFirst'
  <2>1. ASSUME NEW q \in Resources, NEW d \in Data(q)'
        PROVE  <<d, "sidecar">> \in store'[q]
    <3>1. CASE q # r
      BY <1>2, <1>3, <2>1, <3>1 DEF OtherStores, Data, SidecarFirst
    <3>2. CASE q = r
      <4>1. d \in Data(r) \/ (d = k /\ part = "data")
        BY <1>5, <2>1, <3>2 DEF Data
      <4> QED
        BY <1>3, <1>4, <1>5, <3>2, <4>1 DEF SidecarFirst
    <3> QED
      BY <3>1, <3>2
  <2> QED
    BY <2>1 DEF SidecarFirst
<1>10. Late'
  <2>1. ASSUME NEW o \in late
        PROVE  store[o[1]] \subseteq store'[o[1]]
    <3>1. o[1] \in Resources
      BY DEF TypeInv, TypeOK
    <3> QED
      BY <1>2, <1>5, <3>1 DEF OtherStores
  <2> QED
    BY <1>2, <1>3, <1>6, <2>1 DEF Late
<1>11. MembersFit'
  BY <1>1, <1>6 DEF IInv, Members, MembersFit, MemberFits
<1>12. \A t \in Ticks : Local(tick[t])'
  <2>1. \A t \in Ticks : tick'[t].pc = "off"
    BY <1>1, <1>2 DEF IInv, Phases, LeaseHeld
  <2> QED
    BY <2>1, FreeLocal DEF Free
<1> QED
  BY <1>8, <1>9, <1>10, <1>11, <1>12 DEF Members

\* An ingestion that finds exactly the keys of a row keeps, or restores, just their vectors.
LEMMA IngestedKeys ==
    ASSUME NEW r \in Resources, NEW keys, Mixes(r), sync.seen[r] = Objects(keys),
           store[r] = Objects(keys)
    PROVE  /\ Replaces(r) \/ vectors[r] = keys => vectors'[r] = keys
           /\ vectors'[r] \subseteq keys \cup vectors[r]
<1>1. DataIn(sync.seen[r]) = keys /\ Data(r) = keys
  <2>1. DataIn(Objects(keys)) \subseteq keys
    BY DEF DataIn, Objects
  <2>2. ASSUME NEW k \in keys
        PROVE  k \in DataIn(Objects(keys))
    <3>1. <<k, "data">> \in {p \in Objects(keys) : p[2] = "data"} /\ <<k, "data">>[1] = k
      BY DEF Objects, Parts
    <3> QED
      BY <3>1 DEF DataIn
  <2>3. Data(r) = DataIn(store[r])
    BY DEF DataIn, Data
  <2> QED
    BY <2>1, <2>2, <2>3
<1> QED
  BY <1>1 DEF Mixes, Replaces

LEMMA IngestedTracked ==
    ASSUME NEW r \in Resources, Mixes(r), Tracked(r), job' = job, store' = store, sync'.seen[r] = {}
    PROVE  Tracked(r)'
<1>1. DataIn(sync'.seen[r]) = {}
  BY DEF DataIn
<1>2. vectors'[r] \subseteq DataIn(sync.seen[r]) \cup Data(r) \cup vectors[r]
  BY DEF Mixes
<1>3. Data(r)' = Data(r)
  BY SameData
<1> QED
  BY <1>1, <1>2, <1>3 DEF Tracked

LEMMA IngestionEndsMembers ==
    ASSUME TypeInv, IInv, IngestionEnds
    PROVE  Members'
<1>1. /\ UNCHANGED <<source, rows, control, tick, note, store, late>>
      /\ sync.ours = "running" /\ sync'.ours \in {"complete", "failed"}
      /\ sync'.external = sync.external /\ sync'.seen = [r \in Resources |-> {}]
  BY IngestionEndsType
<1>0. \A r \in Resources : Mixes(r) /\ (sync'.ours = "complete" => Replaces(r))
  BY IngestionEndsType DEF IngestedEffect
<1>2. job' = job /\ control.phase \in {"PREPARED", "RUNNING"} /\ sync.external = FALSE
  BY <1>1 DEF rows, IInv, Phases, PhaseOfSync
<1>3. \A t \in Ticks : Local(tick[t])'
  <2>1. ASSUME NEW t \in Ticks
        PROVE  tick'[t].pc \in Free
    <3>1. tick[t].pc \in Step /\ tick[t].pc \notin Exporting \cup Finishing
      BY <1>2, TypeFacts, TickFields DEF IInv, Phases, PhaseOfStep
    <3> QED
      BY <1>1, <3>1 DEF Step, Exporting, Finishing, Free
  <2> QED
    BY <2>1, FreeLocal
<1>4. Passed(control'.batch) /\ \A t \in Ticks : Passed(tick'[t].batch)
  BY <1>1 DEF Passed
<1>5. ASSUME NEW r \in Resources
      PROVE  Waiting(r)' /\ Served(r)' /\ Tracked(r)'
  <2>1. Exposures(r) /\ Waiting(r) /\ Served(r) /\ Tracked(r) /\ sync'.seen[r] = {}
    BY <1>1 DEF IInv, Members, RowInv
  <2>2. Tracked(r)'
    BY <1>0, <1>1, <1>2, <2>1, IngestedTracked
  <2>3. ASSUME job[r].state \in Exposed
        PROVE  /\ store[r] = Objects(job[r].keys) /\ sync.seen[r] = Objects(job[r].keys)
    BY <1>1, <1>2, <2>1, <2>3 DEF Exposures, Waiting, Served, Exposed, Closed, Ingesting
  <2>4. ASSUME job[r].state \in Exposed
        PROVE  sync'.ours = "complete" \/ vectors[r] = job[r].keys => vectors'[r] = job[r].keys
    <3>1. sync.seen[r] = Objects(job[r].keys) /\ store[r] = Objects(job[r].keys)
      BY <2>3, <2>4
    <3> QED
      BY <1>0, <3>1, IngestedKeys
  <2>5. Served(r)'
    BY <1>1, <1>2, <2>1, <2>4 DEF Served, Ingesting, Exposed
  <2>6. Waiting(r)'
    BY <1>0, <1>1, <1>2, <2>1, <2>4 DEF Waiting, Ingesting, Exposed
  <2> QED
    BY <2>2, <2>5, <2>6
<1> QED
  BY <1>1, <1>2, <1>3, <1>4, <1>5, StillMembers

LEMMA ExternalStartsMembers ==
    ASSUME TypeInv, IInv, ExternalStarts
    PROVE  Members'
<1>1. /\ UNCHANGED <<source, rows, control, tick, note, store, late, vectors>>
      /\ sync'.ours = sync.ours /\ sync'.external = TRUE /\ sync'.seen = store
  BY ExternalStartsType
<1>2. job' = job
  BY <1>1 DEF rows
<1>3. ASSUME NEW t \in Ticks
      PROVE  Local(tick[t])'
  <2>1. Unmoved(t) /\ Local(tick[t])
    BY <1>1 DEF Unmoved, IInv, Members
  <2>2. Holding(tick[t])'
    BY <1>1, <1>2, <2>1 DEF Local, Holding
  <2>3. tick[t].pc \in {"docs", "reread", "settle"} => Judged(tick[t])'
    BY <1>1, <1>2, <2>1 DEF Local, Finalizing, Judged
  <2> QED
    BY <1>1, <2>1, <2>2, <2>3, LocalSame
<1>4. Passed(control'.batch) /\ \A t \in Ticks : Passed(tick'[t].batch)
  BY <1>1 DEF Passed
<1>5. ASSUME NEW r \in Resources
      PROVE  Waiting(r)' /\ Served(r)' /\ Tracked(r)'
  <2>1. Exposures(r) /\ Waiting(r) /\ Served(r) /\ Tracked(r) /\ Data(r)' = Data(r)
    BY <1>1, SameData DEF IInv, Members, RowInv
  <2>2. DataIn(sync'.seen[r]) = Data(r)
    BY <1>1 DEF DataIn, Data
  <2>3. Tracked(r)'
    BY <1>1, <1>2, <2>1, <2>2 DEF Tracked
  <2>4. job[r].state \in Exposed => sync'.seen[r] = Objects(job[r].keys)
    BY <1>1, <2>1 DEF Exposures
  <2>5. Served(r)' /\ Waiting(r)'
    BY <1>1, <1>2, <2>1, <2>4 DEF Served, Waiting, Exposed
  <2> QED
    BY <2>3, <2>5
<1> QED
  BY <1>1, <1>2, <1>3, <1>4, <1>5, StillMembers

LEMMA ExternalEndsMembers ==
    ASSUME TypeInv, IInv, ExternalEnds
    PROVE  Members'
<1>1. /\ UNCHANGED <<source, rows, control, tick, note, store, late>>
      /\ sync.external = TRUE /\ sync'.ours = sync.ours /\ sync'.external = FALSE
      /\ sync'.seen = [r \in Resources |-> {}] /\ \A r \in Resources : Mixes(r)
  BY ExternalEndsType DEF IngestedEffect
<1>2. job' = job /\ sync.ours # "running" /\ Ingesting
  BY <1>1 DEF rows, IInv, Phases, PhaseOfSync, Ingesting
<1>3. ASSUME NEW r \in Resources
      PROVE  /\ Exposures(r) /\ Waiting(r) /\ Served(r) /\ Tracked(r) /\ sync'.seen[r] = {}
             /\ job[r].state \in Outcomes \/ (/\ job[r].state = "WAITING_SYNC"
                                             /\ control.phase \in Closed /\ sync.ours # "none") =>
                   /\ vectors[r] = job[r].keys => vectors'[r] = job[r].keys
                   /\ vectors'[r] \subseteq job[r].keys \cup vectors[r]
  <2>1. Exposures(r) /\ Waiting(r) /\ Served(r) /\ Tracked(r) /\ sync'.seen[r] = {}
    BY <1>1 DEF IInv, Members, RowInv
  <2>2. ASSUME job[r].state \in Outcomes \/ (/\ job[r].state = "WAITING_SYNC"
                                            /\ control.phase \in Closed /\ sync.ours # "none")
        PROVE  store[r] = Objects(job[r].keys) /\ sync.seen[r] = Objects(job[r].keys)
    BY <1>2, <2>1, <2>2 DEF Exposures, Waiting, Served, Exposed
  <2> QED
    BY <1>1, <2>1, <2>2, IngestedKeys
<1>4. ASSUME NEW t \in Ticks
      PROVE  Local(tick[t])'
  <2>1. Unmoved(t) /\ Local(tick[t])
    BY <1>1 DEF Unmoved, IInv, Members
  <2>2. Holding(tick[t])'
    BY <1>1, <1>2, <2>1 DEF Local, Holding
  <2>3. ASSUME tick[t].pc \in {"docs", "reread", "settle"}
        PROVE  Judged(tick[t])'
    <3>1. PICK r \in Resources : r = tick[t].r
      BY <2>3, TypeFacts DEF Equipped, Finishing
    <3>2. tick[t].seen.state = "WAITING_SYNC" /\ Judged(tick[t])
      BY <2>1, <2>3 DEF Local, Finalizing
    <3>3. control.phase \in Closed /\ sync.ours # "none"
      BY <2>3 DEF IInv, Phases, PhaseOfStep, PhaseOfSync, Finishing, Closed
    <3>4. ASSUME job[r] = tick[t].seen
          PROVE  /\ vectors[r] = job[r].keys => vectors'[r] = job[r].keys
                 /\ vectors'[r] \subseteq job[r].keys \cup vectors[r]
                 /\ job[r].keys \cap job[r].removed = {}
      BY <1>3, <3>2, <3>3, <3>4 DEF Waiting
    <3> QED
      BY <1>1, <1>2, <3>1, <3>2, <3>4 DEF Judged
  <2> QED
    BY <1>1, <2>1, <2>2, <2>3, LocalSame
<1>5. Passed(control'.batch) /\ \A t \in Ticks : Passed(tick'[t].batch)
  BY <1>1 DEF Passed
<1>6. ASSUME NEW r \in Resources
      PROVE  Waiting(r)' /\ Served(r)' /\ Tracked(r)'
  <2>1. Tracked(r)'
    BY <1>1, <1>2, <1>3, IngestedTracked
  <2>2. Served(r)'
    BY <1>1, <1>2, <1>3 DEF Served, Ingesting
  <2>3. Waiting(r)'
    BY <1>1, <1>2, <1>3 DEF Waiting, Ingesting
  <2> QED
    BY <2>1, <2>2, <2>3
<1> QED
  BY <1>1, <1>2, <1>4, <1>5, <1>6, StillMembers

LEMMA OutsideMembers ==
    ASSUME TypeInv, IInv, Outside
    PROVE  Members'
<1>1. ASSUME NEW r \in Resources, ReadForNote(r) \/ CoolsDown(r) \/ Edit(r)
      PROVE  Members'
  <2>1. job' = job /\ store' = store /\ late' = late /\ vectors' = vectors /\ sync' = sync
    BY <1>1, ReadForNoteType, CoolsDownType, EditType DEF rows
  <2> QED
    BY <2>1, StillOutside
<1>2. CASE TimePasses
  <2>1. job' = job /\ store' = store /\ late' = late /\ vectors' = vectors /\ sync' = sync
    BY <1>2, TimePassesType
  <2> QED
    BY <2>1, StillOutside
<1> QED
  BY <1>1, <1>2, EnqueueMembers, ResolveMembers, IngestionEndsMembers, ExternalStartsMembers,
     ExternalEndsMembers DEF Outside

LEMMA StepMembers ==
    ASSUME TypeInv, IInv, Next
    PROVE  Members'
<1>1. \/ \E t \in Ticks :
            \/ Within(t) \/ Claim(t) \/ Release(t)
            \/ CloseReconcile(t) \/ CloseExport(t) \/ CloseFinal(t)
            \/ Start(t) \/ Run(t) \/ Get(t)
      \/ Outside
  BY Steps
<1> QED
  BY <1>1, WithinMembers, LeaseMembers, CloseMembers, StartMembers, RunMembers, OutsideMembers

LEMMA InitMembers ==
    ASSUME Init
    PROVE  Members
<1>1. /\ late = {} /\ sync.ours = "none" /\ sync.seen = store /\ control.batch = NoBatch
      /\ \A t \in Ticks : tick[t] = Off
      /\ \A r \in Resources : /\ job[r] = NoJob /\ vectors[r] \subseteq {Legacy}
                              /\ store[r] \in {{}, Objects({Legacy})}
  BY InitType
<1>2. MembersFit
  BY <1>1 DEF MembersFit, MemberFits, NoBatch, NoMember, Off
<1>3. Late
  BY <1>1 DEF Late
<1>4. SidecarFirst
  <2>1. ASSUME NEW r \in Resources, NEW k \in Data(r)
        PROVE  <<k, "sidecar">> \in store[r]
    <3>1. PICK o \in store[r] : o[2] = "data" /\ o[1] = k
      BY <2>1 DEF Data
    <3>2. store[r] = Objects({Legacy})
      BY <1>1, <3>1
    <3> QED
      BY <3>1, <3>2 DEF Objects, Parts
  <2> QED
    BY <2>1 DEF SidecarFirst
<1>5. \A t \in Ticks : Local(tick[t])
  BY <1>1 DEF Off, Local, Holding, Held, Modes, Publishing, Staging, Planned, Complete, Finalizing
<1>6. ASSUME NEW r \in Resources
      PROVE  RowInv(r)
  <2>1. job[r].state = "none" /\ vectors[r] \subseteq {Legacy} /\ sync.seen = store
    BY <1>1 DEF NoJob
  <2>2. Tracked(r)
    BY <2>1 DEF Tracked, DataIn, Data
  <2> QED
    BY <2>1, <2>2 DEF RowInv, Exposures, Waiting, Served, Exposed, Outcomes
<1> QED
  BY <1>2, <1>3, <1>4, <1>5, <1>6 DEF Members

LEMMA StutterMembers ==
    ASSUME TypeInv, IInv, UNCHANGED vars
    PROVE  Members'
<1>1. \A t \in Ticks : Unmoved(t)
  BY DEF vars, Unmoved
<1>2. ASSUME NEW t \in Ticks
      PROVE  Local(tick[t])'
  BY <1>1 DEF IInv, Members, vars, rows, Local, Holding, Modes, Publishing, Staging, Planned,
              Complete, Data, Finalizing, Judged
<1>3. Passed(control'.batch) /\ \A t \in Ticks : Passed(tick'[t].batch)
  BY DEF vars, Passed
<1>4. \A r \in Resources : Waiting(r)' /\ Served(r)' /\ Tracked(r)'
  BY DEF IInv, Members, RowInv, vars, rows, Waiting, Served, Tracked, Ingesting, Data
<1> QED
  BY <1>2, <1>3, <1>4, StillMembers DEF vars, rows

\* The rows, the bucket, the knowledge base, the batches and the ticks agree in every state,
\* whatever is interleaved, lost or late.
THEOREM Inductive == Spec => [](TypeInv /\ IInv)
<1>1. Init => TypeInv /\ IInv
  BY InitPhases, InitMembers DEF IInv
<1>2. TypeInv /\ IInv /\ [Next]_vars => (TypeInv /\ IInv)'
  <2>1. CASE Next
    BY <2>1, StepType, StepPhases, StepMembers DEF IInv
  <2>2. CASE UNCHANGED vars
    BY <2>2, StutterType, StutterPhases, StutterMembers DEF IInv
  <2> QED
    BY <2>1, <2>2
<1> QED
  BY <1>1, <1>2, PTL DEF Spec

-----------------------------------------------------------------------------
(* What the invariant shows. *)

\* No ingestion, ours or another's, can find data without its sidecar, whatever part of a
\* put or of a deletion was done when it looks (service/indexing.go:557-558).
THEOREM SidecarsFirst == Spec => []SidecarFirst
<1>1. IInv => SidecarFirst
  BY DEF IInv, Members
<1> QED
  BY <1>1, Inductive, PTL

\* A settled job has its projection in the knowledge base and nothing else of the resource
\* (service/indexing.go:696-790).
THEOREM SettledServed == Spec => []SettledIsServed
<1>1. ASSUME IInv, NEW r \in Resources, job[r].state \in Outcomes
      PROVE  /\ vectors[r] = job[r].keys
             /\ {k.rev : k \in job[r].keys}
                   = IF job[r].state = "INDEXED" THEN {job[r].rev} ELSE {}
  <2>1. Exposures(r) /\ Served(r)
    BY <1>1 DEF IInv, Members, RowInv
  <2>2. /\ vectors[r] = job[r].keys /\ job[r].state = job[r].rev.kind
        /\ job[r].keys = KeysOf(job[r].rev, job[r].run)
    BY <1>1, <2>1 DEF Exposures, Served, Exposed
  <2>3. CASE job[r].state = "INDEXED"
    <3>1. job[r].keys = {[run |-> job[r].run, rev |-> job[r].rev]}
      BY <2>2, <2>3 DEF KeysOf
    <3> QED
      BY <2>2, <2>3, <3>1
  <2>4. CASE job[r].state # "INDEXED"
    BY <2>2, <2>4 DEF KeysOf
  <2> QED
    BY <2>3, <2>4
<1>2. IInv => SettledIsServed
  BY <1>1 DEF SettledIsServed
<1> QED
  BY <1>2, Inductive, PTL

\* Only Settle settles a job.
Unsettled == \A r \in Resources : job'[r].state \in Outcomes => job[r].state \in Outcomes

LEMMA OneUnsettled ==
    ASSUME NEW r \in Resources, OtherJobs(r),
           job'[r].state \in Outcomes => job[r].state \in Outcomes
    PROVE  Unsettled
  BY DEF OtherJobs, Unsettled

LEMMA WithinUnsettled ==
    ASSUME TypeInv, NEW t \in Ticks, Within(t), ~Settle(t)
    PROVE  Unsettled
<1>1. ASSUME NEW r \in Resources, OtherJobs(r),
             \/ job'[r].state \in {"PREPARING", "PENDING", "WAITING_SYNC", "FAILED"}
             \/ job'[r].state = job[r].state
      PROVE  Unsettled
  BY <1>1, OneUnsettled DEF Outcomes
<1>2. CASE job' = job
  BY <1>2 DEF Unsettled
<1>3. CASE Choose(t)
  BY <1>1, <1>3, ChooseMoves DEF Asked
<1>4. CASE Begin(t)
  BY <1>1, <1>2, <1>4, BeginMoves DEF BeginEffect, Unwritten, rows
<1>5. CASE Plan(t)
  BY <1>1, <1>2, <1>5, PlanMoves DEF PlanEffect, Unwritten, rows, Fenced
<1>6. CASE Track(t)
  BY <1>1, <1>2, <1>6, TrackMoves DEF TrackEffect, Unwritten, rows, Fenced
<1>7. CASE Ready(t)
  BY <1>1, <1>2, <1>7, ReadyMoves DEF ReadyEffect, Unwritten, rows, Fenced
<1>8. CASE FailPurged(t)
  BY <1>1, <1>2, <1>8, FailMoves DEF FailEffect, Unwritten, rows, Fenced, Emptied
<1>9. CASE FailDeferred(t)
  BY <1>1, <1>2, <1>9, DeferredMoves DEF DeferredEffect, Unwritten, rows, Fenced, Emptied
<1>10. CASE Retry(t)
  BY <1>1, <1>2, <1>10, RetryMoves DEF RetryEffect, Unwritten, rows
<1>11. CASE Requeue(t)
  BY <1>1, <1>2, <1>11, RequeueMoves DEF RequeueEffect, Unwritten, rows, Fenced
<1>12. CASE Count(t) \/ Tally(t)
  <2>1. tick[t].r \in Resources
    BY <1>12, TypeFacts DEF Equipped, Count, Tally, Exporting, Finishing
  <2>2. PICK first \in {"take", "find"} : TallyEffect(t, tick[t].r, first)
    <3>1. CASE Count(t)
      BY <2>1, <3>1, TallyMoves DEF Count
    <3>2. CASE Tally(t)
      BY <2>1, <3>2, TallyMoves DEF Tally
    <3> QED
      BY <1>12, <3>1, <3>2
  <2> QED
    BY <1>1, <1>2, <2>1, <2>2 DEF TallyEffect, Unwritten, rows
<1>13. CASE Reread(t)
  BY <1>1, <1>2, <1>13, RereadMoves DEF RereadEffect, Unwritten, rows, AskedAgain, Asked
<1>14. CASE \/ Busy(t) \/ Look(t) \/ Take(t) \/ ReadSource(t) \/ Put(t) \/ Verify(t) \/ Sweep(t)
            \/ Defer(t) \/ Dispose(t) \/ Find(t) \/ Docs(t) \/ CallFails(t) \/ Crash(t)
  <2>1. job' = job
    BY <1>14
       DEF Busy, Look, Take, ReadSource, Put, Verify, Sweep, Defer, Dispose, Find, Docs, CallFails,
           Crash, rows
  <2> QED
    BY <1>2, <2>1
<1> QED
  BY <1>3, <1>4, <1>5, <1>6, <1>7, <1>8, <1>9, <1>10, <1>11, <1>12, <1>13, <1>14 DEF Within

LEMMA StepUnsettled ==
    ASSUME TypeInv, Next
    PROVE  Unsettled \/ \E t \in Ticks : Settle(t)
<1>1. ASSUME NEW t \in Ticks, \/ Claim(t) \/ Release(t)
                              \/ CloseReconcile(t) \/ CloseExport(t) \/ CloseFinal(t)
                              \/ Start(t) \/ Run(t) \/ Get(t)
      PROVE  job' = job
  BY <1>1 DEF Claim, Release, CloseReconcile, CloseExport, CloseFinal, Start, Run, Get, rows
<1>2. CASE Outside
  <2>1. CASE Enqueue
    <3>1. PICK r \in Resources : OtherJobs(r) /\ Asked(job[r], job'[r])
      BY <2>1, EnqueueType
    <3> QED
      BY <3>1, OneUnsettled DEF Asked, Outcomes
  <2>2. ASSUME NEW r \in Resources, ReadForNote(r) \/ CoolsDown(r) \/ Edit(r)
        PROVE  job' = job
    BY <2>2 DEF ReadForNote, CoolsDown, Edit, rows
  <2>3. CASE Resolve \/ IngestionEnds \/ ExternalStarts \/ ExternalEnds \/ TimePasses
    BY <2>3 DEF Resolve, IngestionEnds, ExternalStarts, ExternalEnds, TimePasses, rows, Unsettled
  <2> QED
    BY <1>2, <2>1, <2>2, <2>3 DEF Outside, Unsettled
<1> QED
  BY <1>1, <1>2, WithinUnsettled, Steps DEF Unsettled

\* A job is settled only on the record its source has at that moment, although the tick read
\* it some calls before and edits go on meanwhile (service/indexing.go:762-785).
THEOREM SettledCurrently == Spec => SettlesOnCurrentSource
<1>1. ASSUME TypeInv, IInv, NEW t \in Ticks, Settle(t), NEW q \in Resources,
             job'[q].state \in Outcomes, job[q].state \notin Outcomes
      PROVE  job'[q].rev.rec = source[q].rec
  <2>1. PICK r \in Resources : r = tick[t].r /\ SettleEffect(t, r)
    BY <1>1, SettleMoves
  <2>2. ~AskedAgain(t, r)
    BY <1>1 DEF AskedAgain, OtherJobs, Asked, Outcomes
  <2>3. ~Unwritten
    BY <1>1 DEF Unwritten, rows
  <2>4. /\ Fenced(t, r) /\ tick[t].snap = tick[t].batch[r].rev
        /\ source[r].rec = tick[t].snap.rec /\ job'[r].rev = job[r].rev
    BY <2>1, <2>2, <2>3 DEF SettleEffect
  <2>5. q = r
    BY <1>1, <2>4 DEF Fenced, OtherJobs
  <2>6. tick[t].pc = "settle" /\ job[r] = tick[t].seen
    BY <1>1, <2>1, <2>4 DEF Settle, Fenced, Unchanged
  <2>7. job[r].rev = tick[t].snap
    BY <1>1, <2>1, <2>4, <2>6, SettledMember
  <2> QED
    BY <2>4, <2>5, <2>7
<1>2. TypeInv /\ IInv /\ [Next]_vars =>
         [\A r \in Resources : job'[r].state \in Outcomes /\ job[r].state \notin Outcomes =>
             job'[r].rev.rec = source[r].rec]_vars
  BY <1>1, StepUnsettled DEF Unsettled
<1> QED
  BY <1>2, Inductive, PTL DEF Spec, SettlesOnCurrentSource
=============================================================================
