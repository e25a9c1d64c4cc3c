------------------------- MODULE SummaryAnalyses -------------------------
(***************************************************************************)
(* The two analyses of a finished meeting: the re-summary that replaces    *)
(* its summary, and the extraction of its action items.                    *)
(*                                                                         *)
(* Each has a row of its own with a run, a status and a lease.  A request  *)
(* claims the row and publishes an event that may arrive any number of     *)
(* times; a worker starts the run, asks the model, and writes the result   *)
(* and "succeeded" in one transaction conditioned on what it read.         *)
(* Meanwhile people edit, tick tasks, revoke a grant, and the pipeline     *)
(* summarizes afresh; a worker may die anywhere.                           *)
(*                                                                         *)
(* One meeting, where the privacy writers are on: every write of the       *)
(* content stamps a new generation, which stands for the content here.     *)
(***************************************************************************)
EXTENDS Naturals

CONSTANTS
    Tasks,        \* what a task says: text, assignee and due date
    Clients,      \* API requests in flight
    Editors,      \* the people, other than the owner, the meeting may be shared with for editing
    Summarizers,  \* worker invocations for a re-summary
    Extractors,   \* worker invocations for an extraction of tasks
    MaxGens,      \* bound: generations of the content
    MaxRuns       \* bound: runs of each analysis

Kinds == {"rs", "aa"}
Requester == {"owner"} \cup Editors

ASSUME BoundAssumption == MaxGens \in Nat \ {0} /\ MaxRuns \in [Kinds -> Nat]

VARIABLES
    meeting,   \* the meeting's row
    gens,      \* how many generations were stamped
    shares,    \* the editors with a direct edit share
    run,       \* the rows ANALYSIS#summary and ANALYSIS#actionItems
    lease,     \* the analyses whose lease still runs
    issued,    \* runs drawn so far, of each analysis
    events,    \* runs whose event was published, of each analysis
    client, summarizer, extractor,   \* the local state of each process
    source,    \* history: the generation the saved tasks were extracted from, or 0
    ticked     \* history: the remembered tasks of which a person last said "completed"

rows  == <<meeting, gens>>
runs  == <<run, lease, issued>>
procs == <<client, summarizer, extractor>>
past  == <<source, ticked>>
vars  == <<rows, shares, runs, events, procs, past>>

Gen == 1 .. MaxGens

\* Saved tasks and those of them that are completed.
Marks == {m \in [said: SUBSET Tasks, done: SUBSET Tasks] : m.done \subseteq m.said}

NoTasks == [said |-> {}, done |-> {}]

\* kept: actionItemContinuity.
Meeting == [status: {"done", "error", "summarizing"}, gen: Gen, items: Marks, kept: Marks]

Status == {"queued", "running", "succeeded", "failed"}
NoRun  == [run |-> 0, status |-> "absent"]

ActionRun == [run: Nat, status: Status, gen: Gen]

\* The snapshot of CaptureResummary: the meeting, the task analysis, the requester's share.
Snapshot == [meeting: Meeting, aa: ActionRun \cup {NoRun}, share: SUBSET Editors]

SummaryRun == [run: Nat, status: Status, by: Requester,
               mode: {"plain", "safe"}, hash: Snapshot]

Idle == [pc |-> "idle"]

Client == {Idle}
    \cup [pc: {"queue summary"}, prior: SummaryRun \cup {NoRun}, by: Requester,
          mode: {"plain", "safe"}, hash: Snapshot]
    \cup [pc: {"queue actions"}, prior: ActionRun \cup {NoRun}, gen: Gen]
    \cup [pc: {"publish", "fail"}, k: {"rs"}, held: SummaryRun]
    \cup [pc: {"publish", "fail"}, k: {"aa"}, held: ActionRun]
    \cup [pc: {"tick"}, items: Marks, task: Tasks, next: Marks]
    \cup [pc: {"answer"}, held: ActionRun \cup {NoRun}]
    \cup [pc: {"told"}, gen: 0 .. MaxGens, source: 0 .. MaxGens]

Summarizer == {Idle}
    \cup [pc: {"capture", "start", "prepare", "generate", "complete", "fail"}, held: SummaryRun]

Extractor == {Idle}
    \cup [pc: {"read", "fail"}, held: ActionRun]
    \cup [pc: {"start", "extract"}, held: ActionRun, items: Marks, kept: Marks]
    \cup [pc: {"complete"}, held: ActionRun, items: Marks, result: Marks]

\* A meeting whose tasks, if any, were extracted from its summary before either row existed.
Init ==
    /\ \E said \in SUBSET Tasks :
          meeting = [status |-> "done", gen |-> 1,
                     items |-> [said |-> said, done |-> {}], kept |-> NoTasks]
    /\ gens = 1
    /\ shares \in SUBSET Editors
    /\ run = [rs |-> NoRun, aa |-> NoRun]
    /\ lease = {}
    /\ issued = [k \in Kinds |-> 0]
    /\ events = [k \in Kinds |-> {}]
    /\ client = [c \in Clients |-> Idle]
    /\ summarizer = [w \in Summarizers |-> Idle]
    /\ extractor = [w \in Extractors |-> Idle]
    /\ source = 1
    /\ ticked = {}
-----------------------------------------------------------------------------
(* The rows of the two analyses. *)

Pending(row) == row.status \in {"queued", "running"}

\* state and Describe: an expired run is failed before the row is used.
Expired(k) == Pending(run[k]) /\ k \notin lease

Captured(by) == [meeting |-> meeting, aa |-> run.aa, share |-> shares \cap {by}]

Claim(k, row) ==
    /\ issued' = [issued EXCEPT ![k] = @ + 1]
    /\ run' = [run EXCEPT ![k] = row]
    /\ lease' = lease \cup {k}

Started(row) == [row EXCEPT !.status = "running"]

Begin(k, row) ==
    /\ run' = [run EXCEPT ![k] = Started(row)]
    /\ lease' = lease \cup {k}
    /\ UNCHANGED issued

\* Mutant: a failure written without its condition.
FailRunAnyway(k, row) ==
    /\ run' = [run EXCEPT ![k].status = "failed"]
    /\ lease' = lease \ {k}
    /\ UNCHANGED issued

\* FailResummary and FailActionAnalysis: only the run, status and lease that were read.
FailRun(k, row) ==
    /\ IF run[k] = row
       THEN /\ run' = [run EXCEPT ![k] = [row EXCEPT !.status = "failed"]]
            /\ lease' = lease \ {k}
       ELSE UNCHANGED <<run, lease>>
    /\ UNCHANGED issued

\* Time passes.
LeaseRunsOut(k) ==
    /\ k \in lease
    /\ lease' = lease \ {k}
    /\ UNCHANGED <<rows, shares, run, issued, events, procs, past>>
-----------------------------------------------------------------------------
(* The API: requests, ticks and reads. *)

Local(c, state) == client' = [client EXCEPT ![c] = state]

\* Request up to its transaction, which repeats every read it made.
RequestResummary(c, by, mode) ==
    /\ client[c] = Idle
    /\ by = "owner" \/ (by \in shares /\ mode = "plain")
    /\ ~Pending(run.rs)
    /\ meeting.status \in {"done", "error"}
    /\ issued.rs < MaxRuns.rs
    /\ Local(c, [pc |-> "queue summary", prior |-> run.rs, by |-> by, mode |-> mode,
                 hash |-> Captured(by)])
    /\ UNCHANGED <<rows, shares, runs, events, summarizer, extractor, past>>

RequestActions(c) ==
    /\ client[c] = Idle
    /\ meeting.status = "done"
    /\ ~Pending(run.aa) \/ Expired("aa")
    /\ issued.aa < MaxRuns.aa
    /\ Local(c, [pc |-> "queue actions", prior |-> run.aa, gen |-> meeting.gen])
    /\ UNCHANGED <<rows, shares, runs, events, summarizer, extractor, past>>

QueueResummary(c) ==
    /\ client[c].pc = "queue summary"
    /\ LET q == client[c]
           next == [run |-> issued.rs + 1, status |-> "queued", by |-> q.by,
                    mode |-> q.mode, hash |-> q.hash] IN
       IF run.rs = q.prior /\ q.hash = Captured(q.by)
       THEN Claim("rs", next) /\ Local(c, [pc |-> "publish", k |-> "rs", held |-> next])
       ELSE Local(c, Idle) /\ UNCHANGED runs
    /\ UNCHANGED <<rows, shares, events, summarizer, extractor, past>>

QueueActionAnalysis(c) ==
    /\ client[c].pc = "queue actions"
    /\ LET q == client[c]
           next == [run |-> issued.aa + 1, status |-> "queued", gen |-> q.gen] IN
       IF run.aa = q.prior /\ meeting.status = "done" /\ meeting.gen = q.gen
       THEN Claim("aa", next) /\ Local(c, [pc |-> "publish", k |-> "aa", held |-> next])
       ELSE Local(c, Idle) /\ UNCHANGED runs
    /\ UNCHANGED <<rows, shares, events, summarizer, extractor, past>>

\* The call may fail although the event went out; a failure marks the run.
Publish(c) ==
    /\ client[c].pc = "publish"
    /\ LET sent == [events EXCEPT ![client[c].k] = @ \cup {client[c].held.run}]
           failed == Local(c, [client[c] EXCEPT !.pc = "fail"]) IN
       \/ events' = sent /\ Local(c, Idle)
       \/ events' = sent /\ failed
       \/ UNCHANGED events /\ failed
    /\ UNCHANGED <<rows, shares, runs, summarizer, extractor, past>>

\* A read that finds a pending run whose lease ran out.
FindExpired(c, k) ==
    /\ client[c] = Idle
    /\ Expired(k)
    /\ Local(c, [pc |-> "fail", k |-> k, held |-> run[k]])
    /\ UNCHANGED <<rows, shares, runs, events, summarizer, extractor, past>>

ClientFails(c) ==
    /\ client[c].pc = "fail"
    /\ FailRun(client[c].k, client[c].held)
    /\ Local(c, Idle)
    /\ UNCHANGED <<rows, shares, events, summarizer, extractor, past>>

\* SetCompleted: a saved task is marked or unmarked.
ReadTasks(c, t) ==
    /\ client[c] = Idle
    /\ t \in meeting.items.said
    /\ \E done \in {meeting.items.done \cup {t}, meeting.items.done \ {t}} :
          Local(c, [pc |-> "tick", items |-> meeting.items, task |-> t,
                    next |-> [meeting.items EXCEPT !.done = done]])
    /\ UNCHANGED <<rows, shares, runs, events, summarizer, extractor, past>>

\* On a conflict the request reads again, or gives up after three.
SetCompleted(c) ==
    /\ client[c].pc = "tick"
    /\ LET q == client[c] IN
       IF meeting.items = q.items
       THEN /\ meeting' = [meeting EXCEPT !.items = q.next]
            /\ ticked' = (ticked \ {q.task}) \cup ({q.task} \cap q.next.done)
       ELSE UNCHANGED <<meeting, ticked>>
    /\ Local(c, Idle)
    /\ UNCHANGED <<gens, shares, runs, events, summarizer, extractor, source>>

Describe(c) ==
    /\ client[c] = Idle
    /\ ~Expired("aa")
    /\ Local(c, [pc |-> "answer", held |-> run.aa])
    /\ UNCHANGED <<rows, shares, runs, events, summarizer, extractor, past>>

\* Mutant: the generation is not compared.
SucceededEver(row) == row.status = "succeeded"

Succeeded(row) == row.status = "succeeded" /\ row.gen = meeting.gen

\* The rest of response: the items are read after the status. What the caller is told: the
\* generation it sees, or 0 when the analysis is not said to have succeeded; and the items.
Response(c) ==
    /\ client[c].pc = "answer"
    /\ Local(c, [pc |-> "told",
                 gen |-> IF Succeeded(client[c].held) THEN meeting.gen ELSE 0,
                 source |-> source])
    /\ UNCHANGED <<rows, shares, runs, events, summarizer, extractor, past>>

\* A request that has answered, or that died before its transaction or its event.
ClientEnds(c) ==
    /\ client[c] # Idle
    /\ Local(c, Idle)
    /\ UNCHANGED <<rows, shares, runs, events, summarizer, extractor, past>>
-----------------------------------------------------------------------------
(* The worker of a re-summary: ResummaryService.Process. *)

At(w, pc) == summarizer[w].pc = pc
Work(w, state) == summarizer' = [summarizer EXCEPT ![w] = state]
Step(w, pc) == Work(w, [pc |-> pc, held |-> summarizer[w].held])

SummaryRequested(w) ==
    /\ summarizer[w] = Idle
    /\ run.rs.run \in events.rs /\ run.rs.status = "queued"
    /\ Work(w, [pc |-> "capture", held |-> run.rs])
    /\ UNCHANGED <<rows, shares, runs, events, client, extractor, past>>

\* The sources are those of the request.
Unchanged(row) == Captured(row.by) = row.hash

CaptureResummary(w) ==
    /\ At(w, "capture")
    /\ Step(w, IF "rs" \in lease /\ Unchanged(summarizer[w].held) THEN "start" ELSE "fail")
    /\ UNCHANGED <<rows, shares, runs, events, client, extractor, past>>

\* Mutant: the start looks at the sources only.
StartResummaryAnyway(w) ==
    /\ At(w, "start")
    /\ LET held == summarizer[w].held IN
       IF Unchanged(held)
       THEN Begin("rs", held) /\ Work(w, [pc |-> "prepare", held |-> Started(held)])
       ELSE Step(w, "fail") /\ UNCHANGED runs
    /\ UNCHANGED <<rows, shares, events, client, extractor, past>>

\* The clock of the lease condition was read before the transaction.
StartResummary(w) ==
    /\ At(w, "start")
    /\ LET held == summarizer[w].held IN
       IF run.rs = held /\ Unchanged(held)
       THEN Begin("rs", held) /\ Work(w, [pc |-> "prepare", held |-> Started(held)])
       ELSE Step(w, "fail") /\ UNCHANGED runs
    /\ UNCHANGED <<rows, shares, events, client, extractor, past>>

\* prepare, the object check and the second capture; any of them may fail.
Prepare(w) ==
    /\ At(w, "prepare")
    /\ \/ Unchanged(summarizer[w].held) /\ Step(w, "generate")
       \/ Step(w, "fail")
    /\ UNCHANGED <<rows, shares, runs, events, client, extractor, past>>

\* The model's answer, the third capture and the object check; then the clock is read.
GenerateResummary(w) ==
    /\ At(w, "generate")
    /\ \/ Unchanged(summarizer[w].held) /\ "rs" \in lease /\ Step(w, "complete")
       \/ Step(w, "fail")
    /\ UNCHANGED <<rows, shares, runs, events, client, extractor, past>>

\* summaryActionContinuity: what was kept comes first, then the saved tasks.
Continuity ==
    [said |-> meeting.kept.said \cup meeting.items.said,
     done |-> meeting.kept.done \cup (meeting.items.done \ meeting.kept.said)]

Publication(mode) ==
    /\ gens' = gens + 1
    /\ IF mode = "safe"
       THEN /\ meeting' = [status |-> "done", gen |-> gens + 1,
                           items |-> NoTasks, kept |-> Continuity]
            /\ source' = 0
       ELSE /\ meeting' = [meeting EXCEPT !.status = "done", !.gen = gens + 1]
            /\ UNCHANGED source

\* The row of the summary, and in the safe mode the deletion of the task analysis.
Completion(held) ==
    /\ run' = [rs |-> [held EXCEPT !.status = "succeeded"],
               aa |-> IF held.mode = "safe" THEN NoRun ELSE run.aa]
    /\ lease' = lease \ (IF held.mode = "safe" THEN Kinds ELSE {"rs"})

\* Mutant: a completion that trusts the last capture.
CompleteResummaryUnchecked(w) ==
    /\ At(w, "complete")
    /\ gens < MaxGens
    /\ LET held == summarizer[w].held IN
       IF run.rs = held
       THEN Publication(held.mode) /\ Completion(held) /\ Work(w, Idle)
       ELSE Step(w, "fail") /\ UNCHANGED <<rows, run, lease, source>>
    /\ UNCHANGED <<shares, issued, events, client, extractor, ticked>>

\* A transaction whose answer may be lost; then the worker marks the run it held.
CompleteResummary(w) ==
    /\ At(w, "complete")
    /\ gens < MaxGens
    /\ LET held == summarizer[w].held IN
       IF run.rs = held /\ Unchanged(held)
       THEN /\ Publication(held.mode) /\ Completion(held)
            /\ Work(w, Idle) \/ Step(w, "fail")
       ELSE Step(w, "fail") /\ UNCHANGED <<rows, run, lease, source>>
    /\ UNCHANGED <<shares, issued, events, client, extractor, ticked>>

SummarizerFails(w) ==
    /\ At(w, "fail")
    /\ FailRun("rs", summarizer[w].held)
    /\ Work(w, Idle)
    /\ UNCHANGED <<rows, shares, events, client, extractor, past>>

SummarizerDies(w) ==
    /\ summarizer[w] # Idle
    /\ Work(w, Idle)
    /\ UNCHANGED <<rows, shares, runs, events, client, extractor, past>>
-----------------------------------------------------------------------------
(* The worker of an extraction: ActionItemsAnalysisService.Process. *)

On(w, pc) == extractor[w].pc = pc
Keep(w, state) == extractor' = [extractor EXCEPT ![w] = state]
GiveUp(w) == Keep(w, [pc |-> "fail", held |-> extractor[w].held])

ActionItemsRequested(w) ==
    /\ extractor[w] = Idle
    /\ run.aa.run \in events.aa /\ run.aa.status = "queued"
    /\ Keep(w, [pc |-> "read", held |-> run.aa])
    /\ UNCHANGED <<rows, shares, runs, events, client, summarizer, past>>

ReadMeeting(w) ==
    /\ On(w, "read")
    /\ LET held == extractor[w].held IN
       IF meeting.status = "done" /\ meeting.gen = held.gen /\ "aa" \in lease
       THEN Keep(w, [pc |-> "start", held |-> held,
                     items |-> meeting.items, kept |-> meeting.kept])
       ELSE GiveUp(w)
    /\ UNCHANGED <<rows, shares, runs, events, client, summarizer, past>>

\* Mutant: a start without its condition.
StartActionAnalysisAnyway(w) ==
    /\ On(w, "start")
    /\ LET held == extractor[w].held IN
       /\ Begin("aa", held)
       /\ Keep(w, [extractor[w] EXCEPT !.pc = "extract", !.held = Started(held)])
    /\ UNCHANGED <<rows, shares, events, client, summarizer, past>>

StartActionAnalysis(w) ==
    /\ On(w, "start")
    /\ LET held == extractor[w].held IN
       IF run.aa = held
       THEN /\ Begin("aa", held)
            /\ Keep(w, [pc |-> "extract", held |-> Started(held),
                        items |-> extractor[w].items, kept |-> extractor[w].kept])
       ELSE Keep(w, Idle) /\ UNCHANGED runs
    /\ UNCHANGED <<rows, shares, events, client, summarizer, past>>

\* reconcileActionItemsWithContinuity: a task said before keeps its mark, that of the saved
\* tasks first.
Reconciled(found, items, kept) ==
    [said |-> found, done |-> found \cap (items.done \cup (kept.done \ items.said))]

\* The model finds any set of tasks, or fails; then the clock is read.
ExtractActionItems(w) ==
    /\ On(w, "extract")
    /\ \/ \E found \in SUBSET Tasks :
             /\ "aa" \in lease
             /\ Keep(w, [pc |-> "complete", held |-> extractor[w].held,
                         items |-> extractor[w].items,
                         result |-> Reconciled(found, extractor[w].items, extractor[w].kept)])
       \/ GiveUp(w)
    /\ UNCHANGED <<rows, shares, runs, events, client, summarizer, past>>

\* Mutant: the tasks are written over whatever is saved.
ActionItemsMatchAnything(w) == On(w, "complete")

\* The saved tasks are those the worker read.
ActionItemsMatch(w) == meeting.items = extractor[w].items

CompleteActionAnalysis(w) ==
    /\ On(w, "complete")
    /\ LET held == extractor[w].held  result == extractor[w].result IN
       IF /\ run.aa = held
          /\ meeting.status = "done" /\ meeting.gen = held.gen
          /\ ActionItemsMatch(w)
       THEN /\ meeting' = [meeting EXCEPT !.items = result, !.kept = NoTasks]
            /\ run' = [run EXCEPT !.aa = [held EXCEPT !.status = "succeeded"]]
            /\ lease' = lease \ {"aa"}
            /\ source' = held.gen
            /\ ticked' = ticked \cap result.said
            /\ Keep(w, Idle) \/ GiveUp(w)
       ELSE GiveUp(w) /\ UNCHANGED <<meeting, run, lease, past>>
    /\ UNCHANGED <<gens, shares, issued, events, client, summarizer>>

ExtractorFails(w) ==
    /\ On(w, "fail")
    /\ FailRun("aa", extractor[w].held)
    /\ Keep(w, Idle)
    /\ UNCHANGED <<rows, shares, events, client, summarizer, past>>

ExtractorDies(w) ==
    /\ extractor[w] # Idle
    /\ Keep(w, Idle)
    /\ UNCHANGED <<rows, shares, runs, events, client, summarizer, past>>
-----------------------------------------------------------------------------
(* The rest of the system. *)

Fresh == gens < MaxGens /\ gens' = gens + 1

\* A person edits the summary.  With the privacy writers on, the checked update of the
\* fields stamps a fresh generation; only with them off is the generation removed.
EditContent ==
    /\ Fresh
    /\ meeting' = [meeting EXCEPT !.gen = gens']
    /\ UNCHANGED <<shares, runs, events, procs, past>>

\* The owner shares with a requester, or stops sharing.
ShareOrRevoke ==
    /\ \E e \in Editors : shares' \in {shares \cup {e}, shares \ {e}}
    /\ UNCHANGED <<rows, runs, events, procs, past>>

\* The pipeline summarizes the recording afresh, and succeeds or not.
BeginPipeline ==
    /\ meeting.status # "summarizing"
    /\ meeting' = [meeting EXCEPT !.status = "summarizing"]
    /\ UNCHANGED <<gens, shares, runs, events, procs, past>>

PublishMeetingSummary ==
    /\ meeting.status = "summarizing"
    /\ Fresh
    /\ meeting' = [meeting EXCEPT !.status = "done", !.gen = gens']
    /\ UNCHANGED <<shares, runs, events, procs, past>>

PipelineFails ==
    /\ meeting.status = "summarizing"
    /\ meeting' = [meeting EXCEPT !.status = "error"]
    /\ UNCHANGED <<gens, shares, runs, events, procs, past>>

Request(c) ==
    \/ \E by \in Requester, mode \in {"plain", "safe"} : RequestResummary(c, by, mode)
    \/ RequestActions(c) \/ QueueResummary(c) \/ QueueActionAnalysis(c) \/ Publish(c)
    \/ \E k \in Kinds : FindExpired(c, k)
    \/ ClientFails(c)
    \/ \E t \in Tasks : ReadTasks(c, t)
    \/ SetCompleted(c) \/ Describe(c) \/ Response(c) \/ ClientEnds(c)

Summarize(w) ==
    \/ SummaryRequested(w) \/ CaptureResummary(w) \/ StartResummary(w) \/ Prepare(w)
    \/ GenerateResummary(w) \/ CompleteResummary(w) \/ SummarizerFails(w)
    \/ SummarizerDies(w)

Extract(w) ==
    \/ ActionItemsRequested(w) \/ ReadMeeting(w) \/ StartActionAnalysis(w)
    \/ ExtractActionItems(w) \/ CompleteActionAnalysis(w) \/ ExtractorFails(w)
    \/ ExtractorDies(w)

Environment ==
    \/ \E k \in Kinds : LeaseRunsOut(k)
    \/ EditContent \/ ShareOrRevoke \/ BeginPipeline \/ PublishMeetingSummary
    \/ PipelineFails

Next ==
    \/ \E c \in Clients : Request(c)
    \/ \E w \in Summarizers : Summarize(w)
    \/ \E w \in Extractors : Extract(w)
    \/ Environment

Spec == Init /\ [][Next]_vars
-----------------------------------------------------------------------------
(* Properties. *)

\* Every variable keeps its type; what a worker or a request holds is a row that was read.
TypeOK ==
    /\ meeting \in Meeting /\ gens \in Gen /\ shares \subseteq Editors
    /\ run \in [rs: SummaryRun \cup {NoRun}, aa: ActionRun \cup {NoRun}]
    /\ lease \subseteq Kinds
    /\ issued \in [Kinds -> Nat] /\ events \in [Kinds -> SUBSET Nat]
    /\ client \in [Clients -> Client]
    /\ summarizer \in [Summarizers -> Summarizer]
    /\ extractor \in [Extractors -> Extractor]
    /\ source \in 0 .. MaxGens /\ ticked \subseteq Tasks

\* A tick a person made is never lost: a saved task carries what was last said of it, through
\* a new extraction that finds it again and through the reset of a sharing-safe re-summary.
TicksKept ==
    /\ meeting.items.done = ticked \cap meeting.items.said
    /\ meeting.kept.done = ticked \cap meeting.kept.said

\* A reader that is told "succeeded" is given the tasks extracted from the summary it sees:
\* an empty list then means there are none.
AnsweredForThisSummary ==
    \A c \in Clients : client[c].pc = "told" /\ client[c].gen # 0
                          => client[c].source = client[c].gen

Summarizing == {w \in Summarizers : summarizer[w].pc \in {"prepare", "generate", "complete"}}
Extracting == {w \in Extractors : extractor[w].pc \in {"extract", "complete"}}

\* However often an event is delivered, one worker at most is past the start of a run.
OneWorkerPerRun ==
    /\ \A v, w \in Summarizing :
          summarizer[v].held.run = summarizer[w].held.run => v = w
    /\ \A v, w \in Extracting :
          extractor[v].held.run = extractor[w].held.run => v = w

\* A re-summary replaces a summary only when everything fingerprinted at the request still
\* holds: the summary, the status, the tasks, their analysis and the requester's grant.
ReplacesWhatWasRead ==
    [][run.rs.status = "running" /\ run'.rs.status = "succeeded"
          => Unchanged(run.rs)]_vars

Row(k) == [run |-> run[k].run, status |-> run[k].status,
           lease |-> IF k \in lease THEN "live" ELSE "out"]

Resummary == INSTANCE AnalysisRun WITH row <- Row("rs"), issued <- issued.rs
ActionItems == INSTANCE AnalysisRun WITH row <- Row("aa"), issued <- issued.aa

\* Both rows keep the promise of AnalysisRun.
ResummaryIsARun == Resummary!Spec
ActionItemsIsARun == ActionItems!Spec
=============================================================================
