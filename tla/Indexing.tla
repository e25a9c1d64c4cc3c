------------------------------ MODULE Indexing ------------------------------
(***************************************************************************)
(* The coordinator that projects meetings and documents into the knowledge *)
(* base.                                                                   *)
(*                                                                         *)
(* A stream record or the coordinator's own scan requests a resource; a    *)
(* scheduled tick claims the control row under a lease, collects a batch,  *)
(* writes a projection of each source to S3, asks the provider to ingest   *)
(* the bucket, and in a later tick settles each job by what the provider   *)
(* reports.  Sources change at any time, a tick dies or loses replies at   *)
(* any call, a put can land after its caller gave up, and somebody else    *)
(* may ingest the same bucket.                                             *)
(*                                                                         *)
(* A revision is the source itself: its outcome, its record and its files. *)
(* The version of a row, which every write increments, is the row: a       *)
(* writer holds the row it read and its write is conditioned on the row    *)
(* being that one.                                                         *)
(***************************************************************************)
EXTENDS Naturals, FiniteSets

CONSTANTS
    Resources,       \* the indexed meetings and documents
    Ticks,           \* invocations of the tick that can be alive together
    Runs,            \* run identities (uuid.NewString)
    Lease,           \* indexLease
    TickTimeout,     \* longest life of a tick
    MemberAttempts,  \* indexMemberAttempts
    Kinds,           \* bound: what an edit can make of a source
    Legacies,        \* bound: what the indexer before this one may have left
    MaxEdits,        \* bound: edits of sources
    MaxNotes,        \* bound: stream records handled, repeated ones included
    MaxExternals,    \* bound: ingestion jobs somebody else starts
    MaxFaults        \* bound: failing calls, lost replies, killed ticks, failing ingestions

\* 20 minutes and 10: "Longer than a Lambda invocation, including its final network
\* operations" (service/indexing.go:28).
ASSUME DurationAssumption ==
    Lease \in Nat /\ TickTimeout \in Nat /\ TickTimeout < Lease

ASSUME BoundAssumption ==
    /\ Runs \subseteq Nat \ {0} /\ MemberAttempts \in Nat \ {0}
    /\ Kinds \subseteq {"INDEXED", "DELETED", "WAITING_SOURCE", "invalid", "file"}
    /\ Legacies \subseteq {"nothing", "object", "vector"}
    /\ MaxEdits \in Nat /\ MaxNotes \in Nat /\ MaxExternals \in Nat /\ MaxFaults \in Nat
    /\ "none" \notin Ticks /\ "none" \notin Resources

VARIABLES
    source,    \* the record and the files of each resource
    job,       \* the job rows
    jobLease,  \* what is left of their leases
    cooling,   \* retryAfter is in the future
    control,   \* the control row
    tick,      \* the local state of each tick
    note,      \* a stream record being handled
    store,     \* the projected objects in the knowledge bucket
    late,      \* puts whose caller gave up, and that may still land
    vectors,   \* the documents in the knowledge base
    sync,      \* the provider's ingestion jobs
    spent      \* what is used of the bounds

vars == <<source, job, jobLease, cooling, control, tick, note, store, late, vectors, sync, spent>>
rows == <<job, jobLease, cooling>>

Outcomes == {"INDEXED", "DELETED", "WAITING_SOURCE"}   \* the settled states
Absent == [kind |-> "DELETED", rec |-> 0, n |-> 0]
NoRevision == [kind |-> "none", rec |-> 0, n |-> 0]
Unavailable == [kind |-> "unavailable", rec |-> 0, n |-> 0]
Source == [kind: Outcomes \cup {"invalid"}, rec: Nat, n: Nat]
Readable(s) == s.kind \in Outcomes
Revision == [kind: Outcomes, rec: Nat, n: Nat] \cup {NoRevision}

\* A projection: the data objects of one run, named by revision and run.  Legacy is the
\* flat object of the indexer before this one.
Key == [run: Runs \cup {0}, rev: Revision]
Legacy == [run |-> 0, rev |-> NoRevision]
Parts == {"sidecar", "data"}
Objects(keys) == keys \X Parts

Job == [state: {"none", "PENDING", "PREPARING", "WAITING_SYNC", "FAILED"} \cup Outcomes,
        desired: Revision, rev: Revision, run: Runs \cup {0},
        keys: SUBSET Key, pending: SUBSET Key, removed: SUBSET Key]
NoJob == [state |-> "none", desired |-> NoRevision, rev |-> NoRevision, run |-> 0,
          keys |-> {}, pending |-> {}, removed |-> {}]

Member == [at: {"out", "in", "detached"}, run: Runs \cup {0}, rev: Revision, attempts: Nat]
NoMember == [at |-> "out", run |-> 0, rev |-> NoRevision, attempts |-> 0]
NewMember == [NoMember EXCEPT !.at = "in"]
Detached == [NoMember EXCEPT !.at = "detached"]
Batch == [Resources -> Member]
NoBatch == [r \in Resources |-> NoMember]
Live(batch) == {r \in Resources : batch[r].at = "in"}

Control == [owner: Ticks \cup {"none"}, lease: 0 .. Lease,
            phase: {"IDLE", "EXPORTING", "PREPARED", "RUNNING", "FINALIZING"},
            batch: Batch, succeeded: BOOLEAN]

\* Where a tick is: the call that comes next.
Exporting == {"take", "begin", "read", "plan", "sidecar", "data", "verify", "track", "sweep",
              "ready", "fail", "defer", "deferred", "retry", "dispose", "requeue", "count"}
Finishing == {"find", "docs", "reread", "settle", "tally"}
Step == {"off", "busy", "look", "choose", "close", "start", "run", "get", "return"}
        \cup Exporting \cup Finishing

Tick == [pc: Step, age: 0 .. TickTimeout, r: Resources \cup {"none"}, todo: SUBSET Resources,
         batch: Batch, failed: BOOLEAN, seen: Job, snap: Source \cup {NoRevision, Unavailable},
         mode: {"publish", "purge", "defer"}, success: BOOLEAN, gone: BOOLEAN]
Off == [pc |-> "off", age |-> 0, r |-> "none", todo |-> {}, batch |-> NoBatch, failed |-> FALSE,
        seen |-> NoJob, snap |-> NoRevision, mode |-> "publish", success |-> FALSE, gone |-> FALSE]

Init ==
    /\ source = [r \in Resources |-> [kind |-> "INDEXED", rec |-> 1, n |-> 1]]
    /\ job = [r \in Resources |-> NoJob] /\ jobLease = [r \in Resources |-> 0]
    /\ cooling = [r \in Resources |-> FALSE]
    /\ control = [owner |-> "none", lease |-> 0, phase |-> "IDLE", batch |-> NoBatch,
                  succeeded |-> FALSE]
    /\ tick = [t \in Ticks |-> Off] /\ note = {} /\ late = {}
    /\ \E legacy \in [Resources -> Legacies] :
          /\ store = [r \in Resources |->
                         IF legacy[r] = "object" THEN Objects({Legacy}) ELSE {}]
          /\ vectors = [r \in Resources |->
                           IF legacy[r] = "nothing" THEN {} ELSE {Legacy}]
    /\ sync = [ours |-> "none", external |-> FALSE, seen |-> store]
    /\ spent = [edits |-> 0, notes |-> 0, externals |-> 0, faults |-> 0]
-----------------------------------------------------------------------------
(* The repository and the helpers of the service. *)

Spend(what, max) ==
    spent[what] < max /\ spent' = [spent EXCEPT ![what] = @ + 1]
Fault == Spend("faults", MaxFaults)

Data(r) == {o[1] : o \in {p \in store[r] : p[2] = "data"}}
InventoryMatches(r, keys) == store[r] = Objects(keys)

\* A request the job's state already answers: its cooldown, or the same revision.
Answered(r, rev) ==
    \/ job[r].state = "FAILED" /\ cooling[r] /\ rev \in {NoRevision, job[r].desired}
    \/ /\ rev # NoRevision
       /\ \/ job[r].state = "PENDING" /\ job[r].desired = rev
          \/ job[r].state = "PREPARING" /\ job[r].desired = rev /\ jobLease[r] > 0
          \/ job[r].state \in Outcomes \cup {"WAITING_SYNC"} /\ job[r].rev = rev

\* RequestIndexResource reads and writes in a loop until the row it writes is the one it
\* read, so it acts on the row as it is.  It leaves run, keys and lease alone.
RequestIndexResource(r, rev) ==
    IF Answered(r, rev) THEN UNCHANGED rows
    ELSE /\ job' = [job EXCEPT ![r].state = "PENDING",
                               ![r].desired = IF rev = NoRevision THEN @ ELSE rev]
         /\ cooling' = [cooling EXCEPT ![r] = FALSE]
         /\ UNCHANGED jobLease

\* The condition of SaveIndexJob: the row is the one read, and an active preparation
\* still holds its lease.
Unchanged(e) ==
    job[e.r] = e.seen /\ (e.seen.state = "PREPARING" => jobLease[e.r] > 0)
\* Mutant: the save does not look at the source record again.
SourceUnchangedSurely(e) == e.snap = e.snap

\* ... and its condition check on the source record, which does not see the files.
SourceUnchanged(e) == source[e.r].rec = e.snap.rec

SaveIndexJob(r, next) == job' = [job EXCEPT ![r] = next]

\* failJob: FAILED with a cooldown.
FailJob(r, next) ==
    /\ SaveIndexJob(r, [next EXCEPT !.state = "FAILED"])
    /\ cooling' = [cooling EXCEPT ![r] = TRUE] /\ jobLease' = [jobLease EXCEPT ![r] = 0]

\* Only the owner of an unexpired lease writes the control row.
SaveIndexControl(t, next) ==
    control.owner = t /\ control.lease > 0 /\ control' = next

Goto(t, e, pc) == tick' = [tick EXCEPT ![t] = [e EXCEPT !.pc = pc]]

\* On to the next member of the batch (or source, while reconciling), in any order.
Onward(t, e, first) ==
    LET clean == [e EXCEPT !.r = "none", !.seen = NoJob, !.snap = NoRevision, !.mode = "publish",
                           !.success = FALSE, !.gone = FALSE]
    IN  IF e.todo = {} THEN Goto(t, clean, "close")
        ELSE \E r \in e.todo : Goto(t, [clean EXCEPT !.r = r, !.todo = @ \ {r}], first)

\* Where an error of the call at e.pc leads.
OnError(e) ==
    CASE e.pc \in {"take", "begin", "read", "plan", "verify", "ready", "fail"} -> "retry"
      [] e.pc \in {"track", "sweep"} -> IF e.mode = "defer" THEN "return" ELSE "retry"
      [] e.pc \in {"find", "docs", "reread", "settle"} -> "tally"
      [] OTHER -> "return"

\* A write was applied: the tick learns it, or gets an error instead.  A repeated update
\* whose first reply was lost is refused, which looks like a concurrent change.
Written(t, e, pc) ==
    \/ Goto(t, e, pc) /\ UNCHANGED spent
    \/ Fault /\ Goto(t, e, OnError(e))
    \/ /\ Fault /\ e.pc \in {"begin", "track", "fail"} /\ e.mode # "defer"
       /\ Goto(t, e, "defer")
-----------------------------------------------------------------------------
(* Requests: the stream handler. *)

\* Mutant: a permanent defect of the source is taken for a revision.
ReadForNoteAnyway(r) ==
    /\ note = {} /\ Spend("notes", MaxNotes)
    /\ note' = {[r |-> r, rev |-> source[r]]}
    /\ UNCHANGED <<source, rows, control, tick, store, late, vectors, sync>>

\* Enqueue reads the source as it is now, whatever the record says; records are
\* delivered late, twice or in another order.
ReadForNote(r) ==
    /\ note = {} /\ Spend("notes", MaxNotes)
    /\ note' = {[r |-> r, rev |-> IF Readable(source[r]) THEN source[r] ELSE NoRevision]}
    /\ UNCHANGED <<source, rows, control, tick, store, late, vectors, sync>>

Enqueue ==
    \E n \in note :
        /\ RequestIndexResource(n.r, n.rev) /\ note' = {}
        /\ UNCHANGED <<source, control, tick, store, late, vectors, sync, spent>>
-----------------------------------------------------------------------------
(* A tick: claim, reconcile, close a phase. *)

Entry(phase) ==
    CASE phase = "IDLE" -> "busy" [] phase = "EXPORTING" -> "take" [] phase = "PREPARED" -> "start"
      [] phase = "RUNNING" -> "get" [] OTHER -> "find"

\* Tick: nothing while the lease of another is unexpired.
Claim(t) ==
    /\ tick[t].pc = "off" /\ control.lease = 0
    /\ control' = [control EXCEPT !.owner = t, !.lease = Lease]
    /\ LET e == [Off EXCEPT !.batch = control.batch, !.todo = Live(control.batch)]
       IN  IF control.phase \in {"EXPORTING", "FINALIZING"}
           THEN Onward(t, e, Entry(control.phase))
           ELSE Goto(t, [e EXCEPT !.todo = {}], Entry(control.phase))
    /\ UNCHANGED <<source, rows, note, store, late, vectors, sync, spent>>

\* The deferred release.
Release(t) ==
    /\ tick[t].pc = "return"
    /\ SaveIndexControl(t, [control EXCEPT !.lease = 0])
    /\ tick' = [tick EXCEPT ![t] = Off]
    /\ UNCHANGED <<source, rows, note, store, late, vectors, sync, spent>>

Busy(t) ==
    /\ tick[t].pc = "busy"
    /\ IF sync.ours = "running" \/ sync.external
       THEN Goto(t, tick[t], "return")
       ELSE Onward(t, [tick[t] EXCEPT !.todo = Resources, !.batch = NoBatch], "look")
    /\ UNCHANGED <<source, rows, control, note, store, late, vectors, sync, spent>>

\* reconcile reads each source; one that cannot be read is no evidence of anything.
Look(t) ==
    /\ tick[t].pc = "look"
    /\ \/ /\ Goto(t, [tick[t] EXCEPT !.snap = source[tick[t].r]], "choose") /\ UNCHANGED spent
       \/ Fault /\ Goto(t, [tick[t] EXCEPT !.snap = Unavailable], "choose")
    /\ UNCHANGED <<source, rows, control, note, store, late, vectors, sync>>

\* Mutant: a failed job is not tried again once its cooldown is over.
EligibleUnlessFailed(r, unavailable) ==
    \/ job'[r].state \in {"PENDING", "WAITING_SYNC"}
    \/ job'[r].state = "PREPARING" /\ jobLease[r] = 0
    \/ unavailable /\ job'[r].state \in Outcomes

Eligible(r, unavailable) ==
    \/ job'[r].state \in {"PENDING", "WAITING_SYNC"}
    \/ job'[r].state = "FAILED" /\ ~cooling'[r]
    \/ job'[r].state = "PREPARING" /\ jobLease[r] = 0
    \/ unavailable /\ job'[r].state \in Outcomes

\* The scan lists the sources there are, and of those that cannot be read only the ones
\* without a job; the page of the former indexer's objects lists what has one.
Listed(r, snap) ==
    \/ snap = Unavailable /\ source[r] # Absent /\ job[r].state = "none"
    \/ snap \notin {Unavailable, Absent}
    \/ (\E o \in store[r] : o[1] = Legacy) /\ (snap = Unavailable => job[r].state = "none")

\* reconcile requests what is listed, whatever its job is at, and of the known jobs those
\* whose source is another or is gone, and those whose objects are not theirs; then it
\* adds to the batch what is to be done.  Where both apply to a revision, the second
\* request finds the first.
Choose(t) ==
    LET e == tick[t]
        r == e.r
        unavailable == e.snap = Unavailable
        stale == ~unavailable /\ e.snap # job[r].rev
        extra == ~stale /\ job[r].state \in Outcomes /\ ~InventoryMatches(r, job[r].keys)
        known == job[r].state \notin {"none", "PREPARING", "WAITING_SYNC"}
    IN  /\ e.pc = "choose"
        /\ IF extra \/ Listed(r, e.snap) \/ (stale /\ known)
           THEN RequestIndexResource(r, IF Readable(e.snap) /\ ~extra THEN e.snap ELSE NoRevision)
           ELSE UNCHANGED rows
        /\ Onward(t, [e EXCEPT !.batch[r] = IF Eligible(r, unavailable) THEN NewMember
                                            ELSE NoMember], "look")
        /\ UNCHANGED <<source, control, note, store, late, vectors, sync, spent>>

CloseReconcile(t) ==
    LET e == tick[t]
    IN  /\ e.pc = "close" /\ control.phase = "IDLE"
        /\ IF Live(e.batch) = {}
           THEN /\ SaveIndexControl(t, [control EXCEPT !.batch = NoBatch])
                /\ Goto(t, e, "return")
           ELSE /\ SaveIndexControl(t, [control EXCEPT !.batch = e.batch, !.phase = "EXPORTING"])
                /\ Onward(t, [e EXCEPT !.todo = Live(e.batch)], "take")
        /\ UNCHANGED <<source, rows, note, store, late, vectors, sync, spent>>

\* A batch with members to try again stays EXPORTING; otherwise it is PREPARED, under a
\* client token of its own, and frozen.
CloseExport(t) ==
    LET e == tick[t]
    IN  /\ e.pc = "close" /\ control.phase = "EXPORTING"
        /\ IF e.failed
           THEN /\ SaveIndexControl(t, [control EXCEPT !.batch = e.batch])
                /\ Goto(t, e, "return") /\ UNCHANGED sync
           ELSE /\ SaveIndexControl(t, [control EXCEPT !.batch = e.batch, !.phase = "PREPARED"])
                /\ Goto(t, e, "start") /\ sync' = [sync EXCEPT !.ours = "none"]
        /\ UNCHANGED <<source, rows, note, store, late, vectors, spent>>

CloseFinal(t) ==
    LET e == tick[t]
    IN  /\ e.pc = "close" /\ control.phase = "FINALIZING"
        /\ IF e.failed
           THEN SaveIndexControl(t, [control EXCEPT !.batch = e.batch])
           ELSE SaveIndexControl(t, [control EXCEPT !.batch = NoBatch, !.phase = "IDLE",
                                                    !.succeeded = FALSE])
        /\ Goto(t, e, "return")
        /\ UNCHANGED <<source, rows, note, store, late, vectors, sync, spent>>
-----------------------------------------------------------------------------
(* prepare: one member's projection. *)

InUse(r) ==
    LET keys == job[r].keys \cup job[r].pending \cup job[r].removed \cup vectors[r]
                \cup {o[1] : o \in store[r]} \cup {o[2] : o \in late}
    IN  {k.run : k \in keys} \cup {job[r].run, control.batch[r].run}
        \cup {tick[t].batch[r].run : t \in Ticks} \cup {tick[t].seen.run : t \in Ticks}
NewRun(r) == CHOOSE run \in Runs \ InUse(r) : TRUE

MemberOf(j) == [NewMember EXCEPT !.run = j.run, !.rev = j.rev]

\* Reads the job and goes on to prepare it, unless it cools down, is staged already, or is
\* being prepared by somebody else.
Take(t) ==
    LET e == tick[t]
        r == e.r
        j == job[r]
        cools == j.state = "FAILED" /\ cooling[r]
        leased == j.state = "PREPARING" /\ jobLease[r] > 0
        staged == j.state = "WAITING_SYNC" /\ source[r] = j.rev /\ InventoryMatches(r, j.keys)
    IN  /\ e.pc = "take"
        /\ \/ cools /\ Onward(t, [e EXCEPT !.batch[r] = Detached], "take")
           \/ staged /\ Onward(t, [e EXCEPT !.batch[r] = MemberOf(j)], "take")
           \/ leased /\ Goto(t, e, "return")
           \/ ~(cools \/ staged \/ leased) /\ Goto(t, [e EXCEPT !.seen = j], "begin")
        /\ UNCHANGED <<source, rows, control, note, store, late, vectors, sync, spent>>

\* ... under a run of its own, if nobody wrote the row meanwhile.  A preparation of
\* another run is taken over once its lease is over.
Begin(t) ==
    LET e == tick[t]
        r == e.r
        next == [e.seen EXCEPT !.state = "PREPARING", !.run = NewRun(r)]
        free == job[r] = e.seen /\ (e.seen.state = "PREPARING" => jobLease[r] = 0)
    IN  /\ e.pc = "begin"
        /\ \/ /\ free /\ Runs \ InUse(r) # {}
              /\ SaveIndexJob(r, next) /\ jobLease' = [jobLease EXCEPT ![r] = Lease]
              /\ UNCHANGED cooling
              /\ Written(t, [e EXCEPT !.seen = next], "read")
           \/ ~free /\ Goto(t, e, "defer") /\ UNCHANGED <<rows, spent>>
        /\ UNCHANGED <<source, control, note, store, late, vectors, sync>>

ReadSource(t) ==
    LET e == [tick[t] EXCEPT !.snap = source[tick[t].r]]
    IN  /\ tick[t].pc = "read"
        /\ IF Readable(e.snap) THEN Goto(t, e, "plan")
           ELSE Goto(t, [e EXCEPT !.mode = "purge"], "track")
        /\ UNCHANGED <<source, rows, control, note, store, late, vectors, sync, spent>>

\* The keys are recorded before anything is written under them, if the source still is
\* what was read.
Plan(t) ==
    LET e == tick[t]
        keys == IF e.snap.kind = "INDEXED" THEN {[run |-> e.seen.run, rev |-> e.snap]} ELSE {}
        next == [e.seen EXCEPT !.pending = keys, !.rev = e.snap, !.desired = e.snap]
    IN  /\ e.pc = "plan"
        /\ IF Unchanged(e) /\ SourceUnchanged(e)
           THEN /\ SaveIndexJob(e.r, next) /\ UNCHANGED <<jobLease, cooling>>
                /\ Written(t, [e EXCEPT !.seen = next], IF keys = {} THEN "verify" ELSE "sidecar")
           ELSE Goto(t, e, "defer") /\ UNCHANGED <<rows, spent>>
        /\ UNCHANGED <<source, control, note, store, late, vectors, sync>>

\* Mutant: a put that fails is retried like any other call.
PutRetried(t) ==
    LET e == tick[t]
        o == <<CHOOSE k \in e.seen.pending : TRUE, e.pc>>
        lands == store' = [store EXCEPT ![e.r] = @ \cup {o}]
    IN  /\ e.pc \in Parts
        /\ \/ /\ lands /\ Goto(t, e, IF e.pc = "sidecar" THEN "data" ELSE "verify")
              /\ UNCHANGED <<late, spent>>
           \/ /\ Fault /\ Goto(t, e, "retry")
              /\ late' = late \cup {<<e.r, o[1], o[2]>>} /\ UNCHANGED store
        /\ UNCHANGED <<source, rows, control, note, vectors, sync>>

\* The sidecar goes before its data.  A put that fails may have landed, or land later;
\* the tick then ends and keeps its lease.
Put(t) ==
    LET e == tick[t]
        o == <<CHOOSE k \in e.seen.pending : TRUE, e.pc>>
        lands == store' = [store EXCEPT ![e.r] = @ \cup {o}]
    IN  /\ e.pc \in Parts
        /\ \/ /\ lands /\ Goto(t, e, IF e.pc = "sidecar" THEN "data" ELSE "verify")
              /\ UNCHANGED <<late, spent>>
           \/ /\ Fault /\ tick' = [tick EXCEPT ![t] = Off]
              /\ \/ lands /\ UNCHANGED late
                 \/ late' = late \cup {<<e.r, o[1], o[2]>>} /\ UNCHANGED store
        /\ UNCHANGED <<source, rows, control, note, vectors, sync>>

Resolve ==
    \E o \in late :
        /\ late' = late \ {o}
        /\ \/ store' = [store EXCEPT ![o[1]] = @ \cup {<<o[2], o[3]>>}]
           \/ UNCHANGED store
        /\ UNCHANGED <<source, rows, control, tick, note, vectors, sync, spent>>

Verify(t) ==
    LET e == tick[t]
    IN  /\ e.pc = "verify"
        /\ Goto(t, e, IF ~Readable(source[e.r]) THEN "retry"
                      ELSE IF source[e.r] # e.snap THEN "defer" ELSE "track")
        /\ UNCHANGED <<source, rows, control, note, store, late, vectors, sync, spent>>

\* cleanupTracked records every document that is to disappear before it deletes the first.
Removed(r, j, keep) ==
    (Data(r) \cup j.keys \cup j.pending \cup j.removed \cup {Legacy}) \ keep

Track(t) ==
    LET e == tick[t]
        keep == IF e.mode = "publish" THEN e.seen.pending ELSE {}
        next == [e.seen EXCEPT !.keys = keep, !.pending = {},
                               !.removed = Removed(e.r, e.seen, keep)]
    IN  /\ e.pc = "track"
        /\ IF Unchanged(e)
           THEN /\ SaveIndexJob(e.r, next) /\ UNCHANGED <<jobLease, cooling>>
                /\ Written(t, [e EXCEPT !.seen = next], "sweep")
           ELSE /\ Goto(t, e, IF e.mode = "defer" THEN "return" ELSE "defer")
                /\ UNCHANGED <<rows, spent>>
        /\ UNCHANGED <<source, control, note, store, late, vectors, sync>>

\* Mutant: the sidecar may go first.
DeleteAnyOrder(r, keep, o) ==
    o \in store[r] /\ o[1] \notin keep /\ store' = [store EXCEPT ![r] = @ \ {o}]

\* Objects are deleted in the order they are listed, the data before its sidecar.
Delete(r, keep, o) ==
    /\ o \in store[r] /\ o[1] \notin keep
    /\ o[2] = "sidecar" => <<o[1], "data">> \notin store[r]
    /\ store' = [store EXCEPT ![r] = @ \ {o}]

Sweep(t) ==
    LET e == tick[t]
    IN  /\ e.pc = "sweep"
        /\ \/ (\E o \in store[e.r] : Delete(e.r, e.seen.keys, o)) /\ UNCHANGED tick
           \/ /\ \A o \in store[e.r] : o[1] \in e.seen.keys
              /\ Goto(t, e, CASE e.mode = "publish" -> "ready" [] e.mode = "purge" -> "fail"
                              [] OTHER -> "deferred")
              /\ UNCHANGED store
        /\ UNCHANGED <<source, rows, control, note, late, vectors, sync, spent>>

Ready(t) ==
    LET e == tick[t]
        next == [e.seen EXCEPT !.state = "WAITING_SYNC"]
    IN  /\ e.pc = "ready"
        /\ IF Unchanged(e) /\ SourceUnchanged(e)
           THEN /\ SaveIndexJob(e.r, next) /\ jobLease' = [jobLease EXCEPT ![e.r] = 0]
                /\ UNCHANGED cooling
                /\ \/ /\ Onward(t, [e EXCEPT !.batch[e.r] = MemberOf(next)], "take")
                      /\ UNCHANGED spent
                   \/ Fault /\ Goto(t, e, OnError(e))
           ELSE Goto(t, e, "defer") /\ UNCHANGED <<rows, spent>>
        /\ UNCHANGED <<source, control, note, store, late, vectors, sync>>

\* An invalid source keeps no projection; its vectors go with the batch's ingestion.
FailPurged(t) ==
    LET e == tick[t]
        next == [e.seen EXCEPT !.keys = {}, !.pending = {}]
    IN  /\ e.pc = "fail"
        /\ IF Unchanged(e)
           THEN /\ FailJob(e.r, next)
                /\ \/ /\ Onward(t, [e EXCEPT !.batch[e.r] = [NewMember EXCEPT !.run = next.run]],
                                "take")
                      /\ UNCHANGED spent
                   \/ Fault /\ \E pc \in {OnError(e), "defer"} : Goto(t, e, pc)
           ELSE Goto(t, e, "defer") /\ UNCHANGED <<rows, spent>>
        /\ UNCHANGED <<source, control, note, store, late, vectors, sync>>

\* deferChangingSource: everything staged is removed and the member leaves the batch.
Defer(t) ==
    /\ tick[t].pc = "defer"
    /\ Goto(t, [tick[t] EXCEPT !.seen = job[tick[t].r], !.mode = "defer"], "track")
    /\ UNCHANGED <<source, rows, control, note, store, late, vectors, sync, spent>>

FailDeferred(t) ==
    LET e == tick[t]
        onward == Onward(t, [e EXCEPT !.batch[e.r] = Detached], "take") /\ UNCHANGED spent
    IN  /\ e.pc = "deferred"
        /\ IF Unchanged(e)
           THEN /\ FailJob(e.r, [e.seen EXCEPT !.keys = {}, !.pending = {}])
                /\ onward \/ (Fault /\ Goto(t, e, OnError(e)))
           ELSE onward /\ UNCHANGED rows
        /\ UNCHANGED <<source, control, note, store, late, vectors, sync>>

\* retryPreparation: what this attempt wrote is recorded, deleted, and the job queued again.
\* The save of a preparation whose lease is over is refused, and the tick ends.
Retry(t) ==
    LET e == tick[t]
        j == job[e.r]
        next == [j EXCEPT !.removed = @ \cup (Data(e.r) \ (j.keys \cup {Legacy}))]
    IN  /\ e.pc = "retry"
        /\ \/ /\ j.state # "PREPARING" /\ Goto(t, e, "count") /\ UNCHANGED rows
           \/ /\ j.state = "PREPARING" /\ jobLease[e.r] = 0
              /\ Goto(t, e, "return") /\ UNCHANGED rows
           \/ /\ j.state = "PREPARING" /\ jobLease[e.r] > 0
              /\ SaveIndexJob(e.r, next) /\ UNCHANGED <<jobLease, cooling>>
              /\ Goto(t, [e EXCEPT !.seen = next], "dispose")
        /\ UNCHANGED <<source, control, note, store, late, vectors, sync, spent>>

Dispose(t) ==
    LET e == tick[t]
        keep == e.seen.keys \cup {Legacy}
    IN  /\ e.pc = "dispose"
        /\ \/ (\E o \in store[e.r] : Delete(e.r, keep, o)) /\ UNCHANGED tick
           \/ /\ \A o \in store[e.r] : o[1] \in keep
              /\ Goto(t, e, "requeue") /\ UNCHANGED store
        /\ UNCHANGED <<source, rows, control, note, late, vectors, sync, spent>>

Requeue(t) ==
    LET e == tick[t]
    IN  /\ e.pc = "requeue"
        /\ IF Unchanged(e)
           THEN /\ SaveIndexJob(e.r, [e.seen EXCEPT !.state = "PENDING", !.pending = {}])
                /\ jobLease' = [jobLease EXCEPT ![e.r] = 0] /\ UNCHANGED cooling
                /\ Goto(t, e, "count")
           ELSE Goto(t, e, "return") /\ UNCHANGED rows
        /\ UNCHANGED <<source, control, note, store, late, vectors, sync, spent>>

\* memberFailure: the batch tries a member MemberAttempts times, then goes on without it.
\* After an export the job is failed whatever it has become; after a finalization only
\* if it still is the member's.
MemberFailure(t, first, mine) ==
    LET e == tick[t]
        m == e.batch[e.r]
    IN  /\ \/ /\ m.attempts + 1 < MemberAttempts
              /\ Onward(t, [e EXCEPT !.batch[e.r].attempts = @ + 1, !.failed = TRUE], first)
              /\ UNCHANGED rows
           \/ /\ m.attempts + 1 >= MemberAttempts
              /\ IF mine THEN FailJob(e.r, job[e.r]) ELSE UNCHANGED rows
              /\ Onward(t, [e EXCEPT !.batch[e.r] = Detached], first)
        /\ UNCHANGED <<source, control, note, store, late, vectors, sync, spent>>

Count(t) == tick[t].pc = "count" /\ MemberFailure(t, "take", TRUE)
-----------------------------------------------------------------------------
(* The provider, and the phases that wait for it. *)

\* A repeated token returns the job it started; another job at work is a conflict.
Start(t) ==
    LET e == tick[t]
    IN  /\ e.pc = "start"
        /\ \/ /\ sync.ours = "none" /\ sync.external
              /\ Goto(t, e, "return") /\ UNCHANGED <<sync, spent>>
           \/ /\ sync.ours = "none" /\ ~sync.external
              /\ sync' = [sync EXCEPT !.ours = "running", !.seen = store]
              /\ Written(t, e, "run")
           \/ sync.ours # "none" /\ Goto(t, e, "run") /\ UNCHANGED <<sync, spent>>
        /\ UNCHANGED <<source, rows, control, note, store, late, vectors>>

Run(t) ==
    /\ tick[t].pc = "run"
    /\ SaveIndexControl(t, [control EXCEPT !.phase = "RUNNING"])
    /\ Goto(t, tick[t], "return")
    /\ UNCHANGED <<source, rows, note, store, late, vectors, sync, spent>>

Get(t) ==
    LET e == tick[t]
    IN  /\ e.pc = "get"
        /\ IF sync.ours = "running" THEN Goto(t, e, "return") /\ UNCHANGED control
           ELSE /\ SaveIndexControl(t, [control EXCEPT !.phase = "FINALIZING",
                                                       !.succeeded = sync.ours = "complete"])
                /\ Onward(t, [e EXCEPT !.todo = Live(e.batch)], "find")
        /\ UNCHANGED <<source, rows, note, store, late, vectors, sync, spent>>

\* An ingestion leaves what was in the bucket all the while, perhaps what was there some
\* of the time and, where it failed, perhaps what was indexed before.
Ingested(complete) ==
    {v \in [Resources -> SUBSET UNION {Data(r) \cup vectors[r]
                                       \cup {o[1] : o \in sync.seen[r]} : r \in Resources}] :
        \A r \in Resources :
            LET before == {o[1] : o \in {p \in sync.seen[r] : p[2] = "data"}}
                always == before \cap Data(r)
                ever == before \cup Data(r)
            IN  IF complete THEN always \subseteq v[r] /\ v[r] \subseteq ever
                ELSE (always \cap vectors[r]) \subseteq v[r] /\ v[r] \subseteq (ever \cup vectors[r])}

IngestionEnds ==
    /\ sync.ours = "running"
    /\ \/ /\ sync' = [sync EXCEPT !.ours = "complete", !.seen = [r \in Resources |-> {}]]
          /\ vectors' \in Ingested(TRUE) /\ UNCHANGED spent
       \/ /\ Fault /\ sync' = [sync EXCEPT !.ours = "failed", !.seen = [r \in Resources |-> {}]]
          /\ vectors' \in Ingested(FALSE)
    /\ UNCHANGED <<source, rows, control, tick, note, store, late>>

ExternalStarts ==
    /\ sync.ours # "running" /\ ~sync.external /\ Spend("externals", MaxExternals)
    /\ sync' = [sync EXCEPT !.external = TRUE, !.seen = store]
    /\ UNCHANGED <<source, rows, control, tick, note, store, late, vectors>>

ExternalEnds ==
    /\ sync.external
    /\ sync' = [sync EXCEPT !.external = FALSE, !.seen = [r \in Resources |-> {}]]
    /\ vectors' \in Ingested(FALSE)
    /\ UNCHANGED <<source, rows, control, tick, note, store, late, spent>>
-----------------------------------------------------------------------------
(* finish: one member's outcome. *)

Mine(e) == job[e.r].state = "WAITING_SYNC" /\ job[e.r].run = e.batch[e.r].run

Find(t) ==
    LET e == tick[t]
    IN  /\ e.pc = "find"
        /\ IF Mine(e)
           THEN Goto(t, [e EXCEPT !.seen = job[e.r], !.success = control.succeeded],
                     IF control.succeeded THEN "reread" ELSE "docs")
           ELSE Onward(t, e, "find")
        /\ UNCHANGED <<source, rows, control, note, store, late, vectors, sync, spent>>

\* Mutant: only what should be there is asked for, not what should be gone.
DocsOfKeys(t) ==
    LET e == tick[t]
    IN  /\ e.pc = "docs"
        /\ Goto(t, [e EXCEPT !.gone = TRUE, !.success = e.seen.keys \subseteq vectors[e.r]], "reread")
        /\ UNCHANGED <<source, rows, control, note, store, late, vectors, sync, spent>>

\* documentsSucceeded: after a failed ingestion each document is asked for by name.
Docs(t) ==
    LET e == tick[t]
        gone == e.seen.removed \cap vectors[e.r] = {}
    IN  /\ e.pc = "docs"
        /\ Goto(t, [e EXCEPT !.gone = gone, !.success = gone /\ e.seen.keys \subseteq vectors[e.r]],
                "reread")
        /\ UNCHANGED <<source, rows, control, note, store, late, vectors, sync, spent>>

Reread(t) ==
    LET e == tick[t]
    IN  /\ e.pc = "reread"
        /\ IF Readable(source[e.r])
           THEN Goto(t, [e EXCEPT !.snap = source[e.r]], "settle") /\ UNCHANGED rows
           ELSE RequestIndexResource(e.r, NoRevision) /\ Onward(t, e, "find")
        /\ UNCHANGED <<source, control, note, store, late, vectors, sync, spent>>

\* The job is settled if the source still is what was projected, and requested again if not.
Settle(t) ==
    LET e == tick[t]
        current == e.snap = e.batch[e.r].rev /\ InventoryMatches(e.r, e.seen.keys)
        saved == Unchanged(e) /\ SourceUnchanged(e)
        onward == Onward(t, e, "find") /\ UNCHANGED spent
    IN  /\ e.pc = "settle"
        /\ \/ /\ ~current \/ (e.success /\ ~saved)
              /\ RequestIndexResource(e.r, NoRevision) /\ onward
           \/ /\ current /\ saved
              /\ IF e.success
                 THEN /\ SaveIndexJob(e.r, [e.seen EXCEPT !.state = e.snap.kind, !.removed = {}])
                      /\ cooling' = [cooling EXCEPT ![e.r] = FALSE] /\ UNCHANGED jobLease
                 ELSE FailJob(e.r, [e.seen EXCEPT !.removed = IF e.gone THEN {} ELSE @])
              /\ onward \/ (Fault /\ Goto(t, e, OnError(e)))
           \/ current /\ ~saved /\ ~e.success /\ Goto(t, e, "tally") /\ UNCHANGED <<rows, spent>>
        /\ UNCHANGED <<source, control, note, store, late, vectors, sync>>

Tally(t) == tick[t].pc = "tally" /\ MemberFailure(t, "find", Mine(tick[t]))
-----------------------------------------------------------------------------
(* Faults, time, and the owners of the sources. *)

\* A call fails and has no effect.
CallFails(t) ==
    /\ tick[t].pc \notin {"off", "return"} \cup Parts
    /\ Fault /\ Goto(t, tick[t], OnError(tick[t]))
    /\ UNCHANGED <<source, rows, control, note, store, late, vectors, sync>>

Crash(t) ==
    /\ tick[t].pc # "off" /\ Fault
    /\ tick' = [tick EXCEPT ![t] = Off]
    /\ UNCHANGED <<source, rows, control, note, store, late, vectors, sync>>

Minus(n) == IF n = 0 THEN 0 ELSE n - 1

\* No tick outlives its timeout, and no put its operation's.
TimePasses ==
    /\ late = {} /\ \A t \in Ticks : tick[t].pc # "off" => tick[t].age < TickTimeout
    /\ tick' = [t \in Ticks |->
                   IF tick[t].pc = "off" THEN tick[t] ELSE [tick[t] EXCEPT !.age = @ + 1]]
    /\ control' = [control EXCEPT !.lease = Minus(@)]
    /\ jobLease' = [r \in Resources |-> Minus(jobLease[r])]
    /\ UNCHANGED <<source, job, cooling, note, store, late, vectors, sync, spent>>

\* The cooldowns are 1 to 30 minutes.
CoolsDown(r) ==
    /\ cooling[r] /\ cooling' = [cooling EXCEPT ![r] = FALSE]
    /\ UNCHANGED <<source, job, jobLease, control, tick, note, store, late, vectors, sync, spent>>

\* A file is replaced under its key, or arrives at last, without a write of the record.
Edit(r) ==
    /\ Spend("edits", MaxEdits)
    /\ \E kind \in Kinds :
          LET n == spent.edits + 2
          IN  /\ kind = "file" => source[r].kind \in {"INDEXED", "WAITING_SOURCE"}
              /\ source' = [source EXCEPT ![r] =
                               CASE kind = "DELETED" -> Absent
                                 [] kind = "file" -> [@ EXCEPT !.kind = "INDEXED", !.n = n]
                                 [] OTHER -> [kind |-> kind, rec |-> n, n |-> n]]
    /\ UNCHANGED <<rows, control, tick, note, store, late, vectors, sync>>

Work(t) ==
    \/ Claim(t) \/ Release(t) \/ Busy(t) \/ Look(t) \/ Choose(t)
    \/ CloseReconcile(t) \/ CloseExport(t) \/ CloseFinal(t)
    \/ Take(t) \/ Begin(t) \/ ReadSource(t) \/ Plan(t) \/ Put(t) \/ Verify(t) \/ Track(t)
    \/ Sweep(t) \/ Ready(t) \/ FailPurged(t) \/ Defer(t) \/ FailDeferred(t)
    \/ Retry(t) \/ Dispose(t) \/ Requeue(t) \/ Count(t)
    \/ Start(t) \/ Run(t) \/ Get(t) \/ Find(t) \/ Docs(t) \/ Reread(t) \/ Settle(t) \/ Tally(t)

Next ==
    \/ \E t \in Ticks : Work(t) \/ CallFails(t) \/ Crash(t)
    \/ \E r \in Resources : ReadForNote(r) \/ CoolsDown(r) \/ Edit(r)
    \/ Enqueue \/ Resolve \/ IngestionEnds \/ ExternalStarts \/ ExternalEnds \/ TimePasses

Spec == Init /\ [][Next]_vars

\* Ticks are scheduled and go on, the provider ends what it started, time passes between
\* ticks and cooldowns end; faults are bounded, so from some point on nothing fails.
\* Stream records owe nothing: reconciliation has to do without them.  They are bounded,
\* as the edits they tell of: a record that found the tick between Take and Begin each
\* time would keep it from ever preparing the job.
FairSpec ==
    /\ Spec /\ SF_vars(TimePasses) /\ WF_vars(Resolve)
    /\ WF_vars(IngestionEnds) /\ WF_vars(ExternalEnds)
    /\ \A t \in Ticks : WF_vars(Work(t))
    /\ \A r \in Resources : WF_vars(CoolsDown(r))
-----------------------------------------------------------------------------
(* Properties. *)

TypeOK ==
    /\ source \in [Resources -> Source] /\ job \in [Resources -> Job]
    /\ jobLease \in [Resources -> 0 .. Lease] /\ cooling \in [Resources -> BOOLEAN]
    /\ control \in Control /\ tick \in [Ticks -> Tick]
    /\ note \subseteq [r: Resources, rev: Revision]
    /\ store \in [Resources -> SUBSET (Key \X Parts)]
    /\ late \subseteq Resources \X Key \X Parts
    /\ vectors \in [Resources -> SUBSET Key]
    /\ sync \in [ours: {"none", "running", "complete", "failed"}, external: BOOLEAN,
                 seen: [Resources -> SUBSET (Key \X Parts)]]
    /\ spent \in [edits: Nat, notes: Nat, externals: Nat, faults: Nat]

\* While a job says INDEXED, the knowledge base holds the projection of the job's revision
\* and nothing else of the resource; while it says DELETED or WAITING_SOURCE, nothing at
\* all.  Older runs, objects put too late and vectors of the former indexer are gone
\* (service/indexing.go:696-790).
SettledIsServed ==
    \A r \in Resources : job[r].state \in Outcomes =>
        /\ vectors[r] = job[r].keys
        /\ {k.rev : k \in job[r].keys} = IF job[r].state = "INDEXED" THEN {job[r].rev} ELSE {}

\* A job is settled only on the record its source has at that moment, although it was
\* last read some calls before (service/indexing.go:762-785).  Of files replaced in place
\* only a later reconciliation can know.
SettlesOnCurrentSource ==
    [][\A r \in Resources : job'[r].state \in Outcomes /\ job[r].state \notin Outcomes =>
           job'[r].rev.rec = source[r].rec]_vars

\* While the ingestion of a batch is at work nobody changes the bucket
\* (service/indexing.go:88, "A durable batch freezes S3 mutations").
Frozen == [][sync.ours = "running" => store' = store]_vars

\* An ingestion, whoever started it, never finds data without its sidecar
\* (service/indexing.go:557-558).
SidecarFirst ==
    \A r \in Resources : \A k \in Data(r) : <<k, "sidecar">> \in store[r]

\* When sources stop changing, each ends settled on its last revision; one that cannot be
\* projected ends without vectors.  One deleted before it had a job leaves no object that a
\* scan could find.
Right(r) ==
    \/ Readable(source[r]) /\ job[r].state \in Outcomes /\ job[r].rev = source[r]
    \/ ~Readable(source[r]) /\ vectors[r] = {}
    \/ source[r] = Absent /\ job[r].state = "none" /\ store[r] = {}
Settles == \A r \in Resources : <>[]Right(r)
=============================================================================
