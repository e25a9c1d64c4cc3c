---------------------- MODULE SummaryAnalyses_proofs ----------------------
(***************************************************************************)
(* Theorems about SummaryAnalyses for any tasks, people, requests and      *)
(* workers, and any number of generations and runs.                        *)
(***************************************************************************)
EXTENDS SummaryAnalyses, TLAPS

USE BoundAssumption

-----------------------------------------------------------------------------
(* The inductive invariant. *)

\* A copy of a row: its run was drawn, and a run once seen past its queue is not queued again.
Old(k, old) ==
    /\ old.run <= issued[k]
    /\ old.status # "queued" => ~(run[k].run = old.run /\ run[k].status = "queued")

SharedTypes ==
    /\ meeting \in Meeting /\ gens \in Gen /\ shares \subseteq Editors
    /\ run \in [rs: SummaryRun \cup {NoRun}, aa: ActionRun \cup {NoRun}]
    /\ lease \subseteq Kinds
    /\ issued \in [Kinds -> Nat] /\ events \in [Kinds -> SUBSET Nat]
    /\ source \in 0 .. MaxGens /\ ticked \subseteq Tasks

\* The rows: their numbers were drawn, their generations stamped, and an extraction that
\* succeeded for the current summary left the tasks of that summary.
RowsInv ==
    /\ meeting.gen = gens
    /\ \A k \in Kinds : run[k].run <= issued[k] /\ (run[k].status = "queued" => run[k].run > 0)
    /\ run.aa # NoRun => run.aa.gen <= gens
    /\ run.aa.status = "succeeded" /\ run.aa.gen = gens => source = gens

\* The ticks are all in the saved tasks or in those kept, and never in both.
MarksInv ==
    /\ TicksKept
    /\ ticked \subseteq meeting.items.said \cup meeting.kept.said
    /\ meeting.items.said = {} \/ meeting.kept.said = {}

SharedInv == SharedTypes /\ RowsInv /\ MarksInv

ClientInv(q) ==
    /\ q.pc = "queue summary" => ~Pending(q.prior)
    /\ q.pc = "queue actions" =>
          /\ Old("aa", q.prior)
          /\ Pending(q.prior) /\ run.aa = q.prior => "aa" \notin lease
    /\ q.pc \in {"publish", "fail"} => Pending(q.held)
    /\ q.pc = "answer" /\ q.held.status = "succeeded" =>
          q.held.gen <= gens /\ (q.held.gen = gens => source = gens)
    /\ q.pc = "tick" =>
          /\ q.task \in q.items.said /\ q.next.said = q.items.said
          /\ q.next.done \in {q.items.done \cup {q.task}, q.items.done \ {q.task}}
    /\ q.pc = "told" /\ q.gen # 0 => q.source = q.gen

SummarizerInv(q) ==
    /\ q.pc \in {"capture", "start"} => q.held.status = "queued"
    /\ q.pc \in {"prepare", "generate", "complete"} =>
          q.held.status = "running" /\ Old("rs", q.held)
    /\ q.pc = "fail" => Pending(q.held)

\* While the run and the summary are those the worker read, so are the tasks kept.
ExtractorInv(q) ==
    /\ q.pc \in {"read", "start"} => q.held.status = "queued"
    /\ q.pc \in {"extract", "complete"} => q.held.status = "running"
    /\ q.pc = "fail" => Pending(q.held)
    /\ q # Idle => Old("aa", q.held)
    /\ q.pc \in {"start", "extract"} /\ run.aa = q.held /\ gens = q.held.gen =>
          q.kept = meeting.kept
    /\ q.pc = "complete" /\ run.aa = q.held /\ gens = q.held.gen =>
          q.result.done = q.result.said
              \cap (q.items.done \cup (meeting.kept.done \ q.items.said))

ProcsInv ==
    /\ \A c \in Clients, q \in Client : q = client[c] => ClientInv(q)
    /\ \A w \in Summarizers, q \in Summarizer : q = summarizer[w] => SummarizerInv(q)
    /\ \A w \in Extractors, q \in Extractor : q = extractor[w] => ExtractorInv(q)

IInv == TypeOK /\ RowsInv /\ MarksInv /\ ProcsInv

\* What a step may do to a row.
RowKept(k) ==
    run'[k] = run[k] /\ issued'[k] = issued[k] /\ (k \in lease' => k \in lease)

RowClaimed(k) ==
    /\ ~(Pending(run[k]) /\ k \in lease)
    /\ issued'[k] = issued[k] + 1
    /\ run'[k].run = issued[k] + 1 /\ run'[k].status = "queued"
    /\ k \in lease'

RowStarted(k) ==
    /\ run[k].status = "queued" /\ run'[k] = Started(run[k])
    /\ issued'[k] = issued[k] /\ k \in lease'

RowEnded(k) ==
    /\ Pending(run[k])
    /\ run'[k].run = run[k].run
    /\ run'[k].status = "failed" \/ (run[k].status = "running" /\ run'[k].status = "succeeded")
    /\ issued'[k] = issued[k] /\ k \notin lease'

RowDropped(k) ==
    run'[k] = NoRun /\ issued'[k] = issued[k] /\ k \notin lease'

RowStep(k) ==
    RowKept(k) \/ RowClaimed(k) \/ RowStarted(k) \/ RowEnded(k) \/ RowDropped(k)

\* What a step may do to the shared state.
SharedStep ==
    /\ \A k \in Kinds : RowStep(k)
    /\ gens' \in {gens, gens + 1}
    /\ gens' = gens => source' = source \/ source' = gens
    /\ gens' = gens /\ Pending(run.aa)' => meeting'.kept = meeting.kept
    /\ run.rs.status = "running" /\ run'.rs.status = "succeeded" => Unchanged(run.rs)

-----------------------------------------------------------------------------
(* Copies of rows. *)

LEMMA RunTypes ==
    ASSUME SharedTypes
    PROVE  /\ run.rs = run["rs"] /\ run.aa = run["aa"]
           /\ run["rs"] \in SummaryRun \cup {NoRun} /\ run["aa"] \in ActionRun \cup {NoRun}
           /\ \A k \in Kinds : run[k].run \in Nat /\ issued[k] \in Nat
BY DEF SharedTypes, Kinds, SummaryRun, ActionRun, NoRun

\* A copy stays one.
LEMMA OldStays ==
    ASSUME SharedTypes, RowsInv, NEW k \in Kinds, RowStep(k), NEW old, old.run \in Nat, Old(k, old)
    PROVE  Old(k, old)'
<1>1. run[k].run \in Nat /\ issued[k] \in Nat /\ run[k].run <= issued[k]
  BY RunTypes DEF RowsInv
<1>2. CASE RowKept(k)
  BY <1>1, <1>2 DEF RowKept, Old
<1>3. CASE RowClaimed(k)
  BY <1>1, <1>3 DEF RowClaimed, Old
<1>4. CASE RowStarted(k)
  <2>1. run'[k].status # "queued"
    BY <1>4, RunTypes DEF RowStarted, Started, SummaryRun, ActionRun, NoRun, Kinds
  <2> QED
    BY <1>4, <2>1 DEF RowStarted, Old
<1>5. CASE RowEnded(k)
  BY <1>5 DEF RowEnded, Old
<1>6. CASE RowDropped(k)
  BY <1>6 DEF RowDropped, Old, NoRun
<1> QED
  BY <1>2, <1>3, <1>4, <1>5, <1>6 DEF RowStep

\* A row that equals a pending copy after a step did so before it, unless the step started it.
LEMMA PendingStays ==
    ASSUME SharedTypes, RowsInv, NEW k \in Kinds, RowStep(k), NEW old, old.run \in Nat,
           Old(k, old), Pending(old), run'[k] = old
    PROVE  run[k] = old /\ RowKept(k)
<1>1. run[k].run \in Nat /\ issued[k] \in Nat
  BY RunTypes
<1>2. ~RowClaimed(k)
  BY <1>1 DEF RowClaimed, Old
<1>3. ~RowStarted(k)
  <2> SUFFICES ASSUME RowStarted(k) PROVE FALSE
    OBVIOUS
  <2>1. run'[k].status # "queued" /\ run'[k].run = run[k].run
    BY RunTypes DEF RowStarted, Started, SummaryRun, ActionRun, NoRun, Kinds
  <2> QED
    BY <2>1 DEF RowStarted, Old
<1>4. ~RowEnded(k)
  BY DEF RowEnded, Pending
<1>5. ~RowDropped(k)
  BY DEF RowDropped, Pending, NoRun
<1> QED
  BY <1>2, <1>3, <1>4, <1>5 DEF RowStep, RowKept

LEMMA ClientFields ==
    ASSUME NEW q \in Client
    PROVE  /\ q.pc = "queue summary" =>
                 /\ q.prior \in SummaryRun \cup {NoRun} /\ q.by \in Requester
                 /\ q.mode \in {"plain", "safe"} /\ q.hash \in Snapshot
           /\ q.pc = "queue actions" => q.prior \in ActionRun \cup {NoRun} /\ q.gen \in Gen
           /\ q.pc \in {"publish", "fail"} =>
                 \/ q.k = "rs" /\ q.held \in SummaryRun
                 \/ q.k = "aa" /\ q.held \in ActionRun
           /\ q.pc = "tick" => q.items \in Marks /\ q.task \in Tasks /\ q.next \in Marks
           /\ q.pc = "answer" => q.held \in ActionRun \cup {NoRun}
           /\ q.pc = "told" => q.gen \in 0 .. MaxGens /\ q.source \in 0 .. MaxGens
<1>1. CASE q \in {Idle}
  <2>1. q.pc = "idle"
    BY <1>1 DEF Idle
  <2> QED
    BY <2>1
<1>2. CASE q \in [pc: {"queue summary"}, prior: SummaryRun \cup {NoRun}, by: Requester,
            mode: {"plain", "safe"}, hash: Snapshot]
  BY <1>2
<1>3. CASE q \in [pc: {"queue actions"}, prior: ActionRun \cup {NoRun}, gen: Gen]
  BY <1>3
<1>4. CASE q \in [pc: {"publish", "fail"}, k: {"rs"}, held: SummaryRun]
  BY <1>4
<1>5. CASE q \in [pc: {"publish", "fail"}, k: {"aa"}, held: ActionRun]
  BY <1>5
<1>6. CASE q \in [pc: {"tick"}, items: Marks, task: Tasks, next: Marks]
  BY <1>6
<1>7. CASE q \in [pc: {"answer"}, held: ActionRun \cup {NoRun}]
  BY <1>7
<1>8. CASE q \in [pc: {"told"}, gen: 0 .. MaxGens, source: 0 .. MaxGens]
  BY <1>8
<1> QED
  BY <1>1, <1>2, <1>3, <1>4, <1>5, <1>6, <1>7, <1>8 DEF Client

LEMMA PublishingClient ==
    ASSUME NEW q \in Client, q.pc \in {"publish", "fail"}
    PROVE  \/ q \in [pc: {"publish", "fail"}, k: {"rs"}, held: SummaryRun]
           \/ q \in [pc: {"publish", "fail"}, k: {"aa"}, held: ActionRun]
<1>1. q # Idle
  BY DEF Idle
<1>2. q \notin [pc: {"queue summary"}, prior: SummaryRun \cup {NoRun}, by: Requester,
                mode: {"plain", "safe"}, hash: Snapshot]
  OBVIOUS
<1>3. q \notin [pc: {"queue actions"}, prior: ActionRun \cup {NoRun}, gen: Gen]
  OBVIOUS
<1>4. q \notin [pc: {"tick"}, items: Marks, task: Tasks, next: Marks]
  OBVIOUS
<1>5. q \notin [pc: {"answer"}, held: ActionRun \cup {NoRun}]
  OBVIOUS
<1>6. q \notin [pc: {"told"}, gen: 0 .. MaxGens, source: 0 .. MaxGens]
  OBVIOUS
<1> QED
  BY <1>1, <1>2, <1>3, <1>4, <1>5, <1>6 DEF Client

LEMMA SummarizerFields ==
    ASSUME NEW q \in Summarizer, q # Idle
    PROVE  /\ q.held \in SummaryRun
           /\ q.pc \in {"capture", "start", "prepare", "generate", "complete", "fail"}
BY DEF Summarizer

LEMMA ExtractorFields ==
    ASSUME NEW q \in Extractor, q # Idle
    PROVE  /\ q.held \in ActionRun
           /\ q.pc \in {"read", "start", "extract", "complete", "fail"}
           /\ q.pc \in {"start", "extract"} => q.items \in Marks /\ q.kept \in Marks
           /\ q.pc = "complete" => q.items \in Marks /\ q.result \in Marks
BY DEF Extractor

LEMMA RunFields ==
    /\ \A x \in SummaryRun :
          /\ x.run \in Nat /\ x.status \in Status /\ x.by \in Requester
          /\ x.mode \in {"plain", "safe"} /\ x.hash \in Snapshot
    /\ \A x \in ActionRun : x.run \in Nat /\ x.status \in Status /\ x.gen \in Gen
    /\ NoRun.run = 0 /\ NoRun.status = "absent"
BY DEF SummaryRun, ActionRun, NoRun

\* What the requests know outlasts the steps of others.
LEMMA ClientStays ==
    ASSUME SharedInv, SharedStep, NEW q \in Client, ClientInv(q)
    PROVE  ClientInv(q)'
<1> USE DEF SharedInv
<1>1. gens \in Nat
  BY DEF SharedTypes, Gen
<1>2. ASSUME q.pc = "queue actions"
      PROVE  Old("aa", q.prior)' /\ (Pending(q.prior) /\ run'.aa = q.prior => "aa" \notin lease')
  <2>1. q.prior.run \in Nat /\ Old("aa", q.prior) /\ RowStep("aa")
    <3>1. q.prior \in ActionRun \cup {NoRun}
      BY <1>2, ClientFields
    <3>2. q.prior.run \in Nat
      BY <3>1, RunFields
    <3>3. Old("aa", q.prior)
      BY <1>2 DEF ClientInv
    <3>4. RowStep("aa")
      BY DEF SharedStep, Kinds
    <3> QED
      BY <3>2, <3>3, <3>4
  <2>2. Old("aa", q.prior)'
    BY <2>1, OldStays DEF Kinds
  <2>3. ASSUME Pending(q.prior), run'.aa = q.prior PROVE "aa" \notin lease'
    <3>1. run["aa"] = q.prior /\ RowKept("aa")
      BY <2>1, <2>3, PendingStays DEF Kinds
    <3> QED
      BY <1>2, <2>3, <3>1 DEF ClientInv, RowKept
  <2> QED
    BY <2>2, <2>3
<1>3. ASSUME q.pc = "answer", q.held.status = "succeeded"
      PROVE  q.held.gen <= gens' /\ (q.held.gen = gens' => source' = source \/ source' = gens')
             /\ (q.held.gen = gens' => q.held.gen = gens)
  <2>1. q.held.gen \in Nat
    <3>1. q.held \in ActionRun \cup {NoRun}
      BY <1>3, ClientFields
    <3> QED
      BY <1>3, <3>1, RunFields DEF Gen
  <2> QED
    BY <1>1, <1>3, <2>1 DEF ClientInv, SharedStep
<1>4. ASSUME q.pc = "answer", q.held.status = "succeeded"
      PROVE  q.held.gen <= gens' /\ (q.held.gen = gens' => source' = gens')
  BY <1>3, <1>4 DEF ClientInv
<1> QED
  BY <1>2, <1>4 DEF ClientInv, Pending

LEMMA SummarizerStays ==
    ASSUME SharedInv, SharedStep, NEW q \in Summarizer, SummarizerInv(q)
    PROVE  SummarizerInv(q)'
<1>1. ASSUME q.pc \in {"prepare", "generate", "complete"} PROVE Old("rs", q.held)'
  <2>1. q # Idle
    BY <1>1 DEF Idle
  <2>2. q.held.run \in Nat /\ Old("rs", q.held) /\ RowStep("rs")
    BY <1>1, <2>1, SummarizerFields, RunFields DEF SummarizerInv, SharedStep, Kinds
  <2> QED
    BY <2>2, OldStays DEF Kinds, SharedInv
<1> QED
  BY <1>1 DEF SummarizerInv, Pending

LEMMA ExtractorStays ==
    ASSUME SharedInv, SharedStep, NEW q \in Extractor, ExtractorInv(q)
    PROVE  ExtractorInv(q)'
<1> USE DEF SharedInv
<1>1. CASE q = Idle
  BY <1>1 DEF Idle, ExtractorInv
<1>2. CASE q # Idle
  <2>1. /\ q.held \in ActionRun /\ q.held.run \in Nat /\ q.held.gen \in Nat
        /\ Old("aa", q.held) /\ RowStep("aa")
    BY <1>2, ExtractorFields, RunFields DEF ExtractorInv, SharedStep, Kinds, Gen
  <2>2. Old("aa", q.held)'
    BY <2>1, OldStays DEF Kinds
  <2>3. ASSUME q.pc \in {"start", "extract", "complete"}, run'.aa = q.held, gens' = q.held.gen
        PROVE  run.aa = q.held /\ gens = q.held.gen /\ meeting'.kept = meeting.kept
    <3>1. Pending(q.held)
      BY <2>3 DEF ExtractorInv, Pending
    <3>2. run.aa = q.held
      BY <2>1, <2>3, <3>1, PendingStays DEF Kinds
    <3>3. gens \in Nat /\ q.held.gen <= gens
      BY <2>1, <3>2, <3>1 DEF SharedTypes, Gen, RowsInv, NoRun, Pending
    <3>4. gens' = gens
      BY <2>3, <3>3 DEF SharedStep
    <3>5. Pending(run.aa)'
      BY <2>3, <3>1 DEF Pending
    <3> QED
      BY <2>3, <3>2, <3>4, <3>5 DEF SharedStep
  <2> QED
    BY <1>2, <2>2, <2>3 DEF ExtractorInv, Pending
<1> QED
  BY <1>1, <1>2

\* The invariant after a step of one process, or of none.
LEMMA OthersStay ==
    ASSUME IInv, SharedInv', SharedStep
    PROVE  /\ UNCHANGED client =>
                 \A c \in Clients, q \in Client : q = client'[c] => ClientInv(q)'
           /\ UNCHANGED summarizer =>
                 \A w \in Summarizers, q \in Summarizer : q = summarizer'[w] => SummarizerInv(q)'
           /\ UNCHANGED extractor =>
                 \A w \in Extractors, q \in Extractor : q = extractor'[w] => ExtractorInv(q)'
<1>1. SharedInv
  BY DEF IInv, TypeOK, SharedInv, SharedTypes
<1> QED
  BY <1>1, ClientStays, SummarizerStays, ExtractorStays DEF IInv, ProcsInv

LEMMA Joined ==
    ASSUME SharedInv', client' \in [Clients -> Client],
           summarizer' \in [Summarizers -> Summarizer], extractor' \in [Extractors -> Extractor],
           \A c \in Clients, q \in Client : q = client'[c] => ClientInv(q)',
           \A w \in Summarizers, q \in Summarizer : q = summarizer'[w] => SummarizerInv(q)',
           \A w \in Extractors, q \in Extractor : q = extractor'[w] => ExtractorInv(q)'
    PROVE  IInv'
BY DEF IInv, TypeOK, SharedInv, SharedTypes, ProcsInv

LEMMA OneClient ==
    ASSUME IInv, SharedInv', SharedStep, NEW c \in Clients, NEW q \in Client, Local(c, q),
           ClientInv(q)', UNCHANGED <<summarizer, extractor>>
    PROVE  IInv'
<1>1. SharedInv
  BY DEF IInv, TypeOK, SharedInv, SharedTypes
<1>2. ASSUME NEW x \in Clients, NEW p \in Client, p = client'[x] PROVE ClientInv(p)'
  <2>1. CASE x = c
    BY <1>2, <2>1 DEF IInv, TypeOK, Local
  <2>2. CASE x # c
    BY <1>1, <1>2, <2>2, ClientStays DEF IInv, TypeOK, ProcsInv, Local
  <2> QED
    BY <2>1, <2>2
<1>3. client' \in [Clients -> Client]
  BY DEF IInv, TypeOK, Local
<1> QED
  BY <1>2, <1>3, OthersStay, Joined DEF IInv, TypeOK

LEMMA OneSummarizer ==
    ASSUME IInv, SharedInv', SharedStep, NEW w \in Summarizers, NEW q \in Summarizer, Work(w, q),
           SummarizerInv(q)', UNCHANGED <<client, extractor>>
    PROVE  IInv'
<1>1. SharedInv
  BY DEF IInv, TypeOK, SharedInv, SharedTypes
<1>2. ASSUME NEW x \in Summarizers, NEW p \in Summarizer, p = summarizer'[x]
      PROVE  SummarizerInv(p)'
  <2>1. CASE x = w
    BY <1>2, <2>1 DEF IInv, TypeOK, Work
  <2>2. CASE x # w
    BY <1>1, <1>2, <2>2, SummarizerStays DEF IInv, TypeOK, ProcsInv, Work
  <2> QED
    BY <2>1, <2>2
<1>3. summarizer' \in [Summarizers -> Summarizer]
  BY DEF IInv, TypeOK, Work
<1> QED
  BY <1>2, <1>3, OthersStay, Joined DEF IInv, TypeOK

LEMMA OneExtractor ==
    ASSUME IInv, SharedInv', SharedStep, NEW w \in Extractors, NEW q \in Extractor, Keep(w, q),
           ExtractorInv(q)', UNCHANGED <<client, summarizer>>
    PROVE  IInv'
<1>1. SharedInv
  BY DEF IInv, TypeOK, SharedInv, SharedTypes
<1>2. ASSUME NEW x \in Extractors, NEW p \in Extractor, p = extractor'[x]
      PROVE  ExtractorInv(p)'
  <2>1. CASE x = w
    BY <1>2, <2>1 DEF IInv, TypeOK, Keep
  <2>2. CASE x # w
    BY <1>1, <1>2, <2>2, ExtractorStays DEF IInv, TypeOK, ProcsInv, Keep
  <2> QED
    BY <2>1, <2>2
<1>3. extractor' \in [Extractors -> Extractor]
  BY DEF IInv, TypeOK, Keep
<1> QED
  BY <1>2, <1>3, OthersStay, Joined DEF IInv, TypeOK

LEMMA NoProcess ==
    ASSUME IInv, SharedInv', SharedStep, UNCHANGED procs
    PROVE  IInv'
BY OthersStay, Joined DEF IInv, TypeOK, procs

\* A step that leaves the rows, but for a lease that may run out.
LEMMA QuietStep ==
    ASSUME IInv, UNCHANGED <<rows, run, issued, past>>, lease' \subseteq lease,
           shares' \subseteq Editors, events' \in [Kinds -> SUBSET Nat]
    PROVE  SharedInv' /\ SharedStep
<1> USE DEF rows, past
<1>1. SharedInv
  BY DEF IInv, TypeOK, SharedInv, SharedTypes
<1>2. SharedTypes'
  BY <1>1 DEF SharedInv, SharedTypes
<1>3. RowsInv' /\ MarksInv'
  BY <1>1 DEF SharedInv, RowsInv, MarksInv, TicksKept
<1>4. SharedStep
  <2>1. ASSUME NEW k \in Kinds PROVE RowStep(k)
    BY DEF RowStep, RowKept
  <2>2. run.rs.status = "running" => ~(run'.rs.status = "succeeded")
    OBVIOUS
  <2> QED
    BY <2>1, <2>2 DEF SharedStep
<1> QED
  BY <1>2, <1>3, <1>4 DEF SharedInv

LEMMA StillStep ==
    ASSUME IInv, UNCHANGED <<rows, shares, runs, events, past>>
    PROVE  SharedInv' /\ SharedStep
BY QuietStep DEF runs, IInv, TypeOK

-----------------------------------------------------------------------------
(* The steps of a request. *)

LEMMA SharedFacts ==
    ASSUME IInv
    PROVE  /\ SharedInv
           /\ meeting \in Meeting /\ meeting.items \in Marks /\ meeting.kept \in Marks
           /\ meeting.gen = gens /\ gens \in Nat /\ gens \in Gen /\ source \in 0 .. MaxGens
           /\ run.rs \in SummaryRun \cup {NoRun} /\ run.aa \in ActionRun \cup {NoRun}
           /\ issued.rs \in Nat /\ issued.aa \in Nat
<1>1. SharedInv
  BY DEF IInv, TypeOK, SharedInv, SharedTypes
<1>2. meeting \in Meeting /\ meeting.items \in Marks /\ meeting.kept \in Marks
  BY DEF IInv, TypeOK, Meeting
<1>3. meeting.gen = gens /\ gens \in Nat /\ gens \in Gen /\ source \in 0 .. MaxGens
  BY DEF IInv, TypeOK, RowsInv, Gen
<1>4. /\ run.rs \in SummaryRun \cup {NoRun} /\ run.aa \in ActionRun \cup {NoRun}
      /\ issued.rs \in Nat /\ issued.aa \in Nat
  BY DEF IInv, TypeOK, Kinds
<1> QED
  BY <1>1, <1>2, <1>3, <1>4

LEMMA ClientFacts ==
    ASSUME IInv, NEW c \in Clients
    PROVE  client[c] \in Client /\ ClientInv(client[c])
BY DEF IInv, TypeOK, ProcsInv

LEMMA CapturedType ==
    ASSUME IInv, NEW by PROVE Captured(by) \in Snapshot
BY DEF IInv, TypeOK, Captured, Snapshot

LEMMA IdleClient == Idle \in Client /\ ClientInv(Idle)'
BY DEF Idle, Client, ClientInv

\* A request that ends, whatever it changed.
LEMMA ClientIdles ==
    ASSUME IInv, SharedInv', SharedStep, NEW c \in Clients, Local(c, Idle),
           UNCHANGED <<summarizer, extractor>>
    PROVE  IInv'
BY OneClient, IdleClient

LEMMA RequestSummaryStep ==
    ASSUME IInv, NEW c \in Clients, NEW by \in Requester, NEW mode \in {"plain", "safe"},
           RequestResummary(c, by, mode)
    PROVE  IInv' /\ SharedStep
<1>0. PICK q : q = [pc |-> "queue summary", prior |-> run.rs, by |-> by, mode |-> mode,
                    hash |-> Captured(by)]
  OBVIOUS
<1>1. SharedInv' /\ SharedStep
  BY StillStep DEF RequestResummary
<1>2. q \in Client
  BY <1>0, SharedFacts, CapturedType DEF Client
<1>3. ~Pending(q.prior) /\ q.pc = "queue summary"
  BY <1>0 DEF RequestResummary
<1>4. ClientInv(q)'
  BY <1>3 DEF ClientInv, Pending
<1>5. Local(c, q) /\ UNCHANGED <<summarizer, extractor>>
  BY <1>0 DEF RequestResummary
<1> QED
  BY <1>1, <1>2, <1>4, <1>5, OneClient

LEMMA RequestActionsStep ==
    ASSUME IInv, NEW c \in Clients, RequestActions(c)
    PROVE  IInv' /\ SharedStep
<1>0. PICK q : q = [pc |-> "queue actions", prior |-> run.aa, gen |-> meeting.gen]
  OBVIOUS
<1>1. SharedInv' /\ SharedStep
  BY StillStep DEF RequestActions
<1>2. q \in Client
  BY <1>0, SharedFacts DEF Client
<1>3. UNCHANGED runs /\ (Pending(run.aa) => "aa" \notin lease)
  BY DEF RequestActions, Expired
<1>4. run.aa.run <= issued.aa
  BY DEF IInv, RowsInv, Kinds
<1>5. q.pc = "queue actions" /\ q.prior = run.aa
  BY <1>0
<1>6. ClientInv(q)'
  BY <1>3, <1>4, <1>5 DEF ClientInv, Pending, Old, runs
<1>7. Local(c, q) /\ UNCHANGED <<summarizer, extractor>>
  BY <1>0 DEF RequestActions
<1> QED
  BY <1>1, <1>2, <1>6, <1>7, OneClient

LEMMA PublishStep ==
    ASSUME IInv, NEW c \in Clients, Publish(c)
    PROVE  IInv' /\ SharedStep
<1> DEFINE q == client[c]
<1>1. /\ q \in Client /\ ClientInv(q) /\ q.pc = "publish"
      /\ (q.k = "rs" /\ q.held \in SummaryRun) \/ (q.k = "aa" /\ q.held \in ActionRun)
  BY ClientFacts, ClientFields DEF Publish
<1>2. q.k \in Kinds /\ q.held.run \in Nat
  BY <1>1, RunFields DEF Kinds
<1>3. events' \in [Kinds -> SUBSET Nat]
  BY <1>2 DEF Publish, IInv, TypeOK
<1>4. SharedInv' /\ SharedStep
  <2>1. UNCHANGED <<rows, shares, run, issued, lease, past>>
    BY DEF Publish, runs
  <2> QED
    BY <1>3, <2>1, QuietStep DEF IInv, TypeOK
<1>5. CASE Local(c, Idle)
  BY <1>4, <1>5, ClientIdles DEF Publish
<1>6. CASE Local(c, [q EXCEPT !.pc = "fail"])
  <2>0. PICK f : f = [q EXCEPT !.pc = "fail"]
    OBVIOUS
  <2>1. f \in Client /\ f.held = q.held /\ f.pc = "fail"
    <3>1. \/ q \in [pc: {"publish", "fail"}, k: {"rs"}, held: SummaryRun]
          \/ q \in [pc: {"publish", "fail"}, k: {"aa"}, held: ActionRun]
      BY <1>1, PublishingClient
    <3>2. \/ f \in [pc: {"publish", "fail"}, k: {"rs"}, held: SummaryRun]
          \/ f \in [pc: {"publish", "fail"}, k: {"aa"}, held: ActionRun]
      BY <2>0, <3>1
    <3>3. f.held = q.held /\ f.pc = "fail"
      BY <2>0, <3>1
    <3> QED
      BY <3>2, <3>3 DEF Client
  <2>2. Pending(f.held)
    BY <1>1, <2>1 DEF ClientInv
  <2>3. ClientInv(f)'
    BY <2>1, <2>2 DEF ClientInv, Pending
  <2>4. Local(c, f) /\ UNCHANGED <<summarizer, extractor>>
    BY <1>6, <2>0 DEF Publish
  <2> QED
    BY <1>4, <2>1, <2>3, <2>4, OneClient
<1> QED
  BY <1>5, <1>6 DEF Publish

LEMMA FindExpiredStep ==
    ASSUME IInv, NEW c \in Clients, NEW k \in Kinds, FindExpired(c, k)
    PROVE  IInv' /\ SharedStep
<1>0. PICK q : q = [pc |-> "fail", k |-> k, held |-> run[k]]
  OBVIOUS
<1>1. SharedInv' /\ SharedStep
  BY StillStep DEF FindExpired
<1>2. Pending(run[k])
  BY DEF FindExpired, Expired
<1>3. q \in Client
  <2>1. (k = "rs" /\ run[k] \in SummaryRun) \/ (k = "aa" /\ run[k] \in ActionRun)
    BY <1>2, SharedFacts DEF Pending, NoRun, Kinds
  <2> QED
    BY <1>0, <2>1 DEF Client
<1>4. q.pc = "fail" /\ Pending(q.held)
  BY <1>0, <1>2
<1>5. ClientInv(q)'
  BY <1>4 DEF ClientInv, Pending
<1>6. Local(c, q) /\ UNCHANGED <<summarizer, extractor>>
  BY <1>0 DEF FindExpired
<1> QED
  BY <1>1, <1>3, <1>5, <1>6, OneClient

LEMMA ReadTasksStep ==
    ASSUME IInv, NEW c \in Clients, NEW t \in Tasks, ReadTasks(c, t)
    PROVE  IInv' /\ SharedStep
<1>1. SharedInv' /\ SharedStep
  BY StillStep DEF ReadTasks
<1>2. PICK done \in {meeting.items.done \cup {t}, meeting.items.done \ {t}} :
          Local(c, [pc |-> "tick", items |-> meeting.items, task |-> t,
                    next |-> [meeting.items EXCEPT !.done = done]])
  BY DEF ReadTasks
<1>3. PICK q : q = [pc |-> "tick", items |-> meeting.items, task |-> t,
                    next |-> [meeting.items EXCEPT !.done = done]]
  OBVIOUS
<1>4. meeting.items \in Marks /\ t \in meeting.items.said
  BY SharedFacts DEF ReadTasks
<1>5. q.next \in Marks /\ q.next.said = meeting.items.said /\ q.next.done = done
  BY <1>3, <1>4 DEF Marks
<1>6. q \in Client
  BY <1>3, <1>4, <1>5 DEF Client
<1>7. q.pc = "tick" /\ q.items = meeting.items /\ q.task = t
  BY <1>3
<1>8. ClientInv(q)'
  BY <1>2, <1>4, <1>5, <1>7 DEF ClientInv
<1>9. Local(c, q) /\ UNCHANGED <<summarizer, extractor>>
  BY <1>2, <1>3 DEF ReadTasks
<1> QED
  BY <1>1, <1>6, <1>8, <1>9, OneClient

LEMMA DescribeStep ==
    ASSUME IInv, NEW c \in Clients, Describe(c)
    PROVE  IInv' /\ SharedStep
<1>0. PICK q : q = [pc |-> "answer", held |-> run.aa]
  OBVIOUS
<1>1. SharedInv' /\ SharedStep
  BY StillStep DEF Describe
<1>2. q \in Client /\ q.pc = "answer" /\ q.held = run.aa
  BY <1>0, SharedFacts DEF Client
<1>3. run.aa.status = "succeeded" =>
          run.aa.gen <= gens /\ (run.aa.gen = gens => source = gens)
  BY RunFields DEF IInv, RowsInv
<1>4. UNCHANGED <<gens, source>>
  BY DEF Describe, rows, past
<1>5. ClientInv(q)'
  BY <1>2, <1>3, <1>4 DEF ClientInv, Pending
<1>6. Local(c, q) /\ UNCHANGED <<summarizer, extractor>>
  BY <1>0 DEF Describe
<1> QED
  BY <1>1, <1>2, <1>5, <1>6, OneClient

LEMMA ResponseStep ==
    ASSUME IInv, NEW c \in Clients, Response(c)
    PROVE  IInv' /\ SharedStep
<1>0. PICK q : q = [pc |-> "told",
                    gen |-> IF Succeeded(client[c].held) THEN meeting.gen ELSE 0,
                    source |-> source]
  OBVIOUS
<1>1. SharedInv' /\ SharedStep
  BY StillStep DEF Response
<1>2. q.gen \in 0 .. MaxGens
  BY <1>0, SharedFacts DEF Gen
<1>3. q \in Client /\ q.pc = "told" /\ q.source = source
  BY <1>0, <1>2, SharedFacts DEF Client
<1>4. q.gen # 0 => q.source = q.gen
  <2> SUFFICES ASSUME q.gen # 0 PROVE q.source = q.gen
    OBVIOUS
  <2>1. Succeeded(client[c].held) /\ q.gen = meeting.gen
    BY <1>0
  <2> QED
    BY <1>3, <2>1, ClientFacts, SharedFacts DEF Response, ClientInv, Succeeded
<1>5. ClientInv(q)'
  BY <1>3, <1>4 DEF ClientInv
<1>6. Local(c, q) /\ UNCHANGED <<summarizer, extractor>>
  BY <1>0 DEF Response
<1> QED
  BY <1>1, <1>3, <1>5, <1>6, OneClient

LEMMA ClientEndsStep ==
    ASSUME IInv, NEW c \in Clients, ClientEnds(c)
    PROVE  IInv' /\ SharedStep
BY StillStep, ClientIdles DEF ClientEnds

\* A claim of a row that no live run holds.
LEMMA ClaimStep ==
    ASSUME IInv, NEW k \in Kinds, NEW row, Claim(k, row), ~(Pending(run[k]) /\ k \in lease),
           row.run = issued[k] + 1, row.status = "queued",
           (k = "rs" /\ row \in SummaryRun) \/ (k = "aa" /\ row \in ActionRun /\ row.gen <= gens),
           UNCHANGED <<rows, shares, events, past>>
    PROVE  SharedInv' /\ SharedStep
<1> USE DEF rows, past
<1>1. SharedTypes /\ RowsInv /\ MarksInv /\ issued[k] \in Nat
  BY SharedFacts DEF SharedInv, IInv, TypeOK
<1>2. /\ run'[k] = row /\ issued'[k] = issued[k] + 1 /\ lease' = lease \cup {k}
      /\ \A j \in Kinds \ {k} : run'[j] = run[j] /\ issued'[j] = issued[j]
  BY <1>1 DEF Claim, SharedTypes, Kinds
<1>3. SharedTypes'
  <2>1. run' \in [rs: SummaryRun \cup {NoRun}, aa: ActionRun \cup {NoRun}]
    BY <1>1 DEF Claim, SharedTypes, Kinds
  <2> QED
    BY <1>1, <2>1 DEF Claim, SharedTypes, Kinds
<1>4. RowsInv'
  <2>1. ASSUME NEW j \in Kinds
        PROVE  run'[j].run <= issued'[j] /\ (run'[j].status = "queued" => run'[j].run > 0)
    BY <1>1, <1>2 DEF RowsInv
  <2>2. meeting'.gen = gens'
    BY <1>1 DEF RowsInv
  <2>3. run'.aa = run.aa \/ (run'.aa.gen <= gens' /\ run'.aa.status = "queued")
    BY <1>2 DEF Kinds
  <2> QED
    BY <1>1, <2>1, <2>2, <2>3 DEF RowsInv
<1>5. MarksInv'
  BY <1>1 DEF MarksInv, TicksKept
<1>6. SharedStep
  <2>1. ASSUME NEW j \in Kinds PROVE RowStep(j)
    <3>1. CASE j = k
      BY <1>1, <1>2, <3>1 DEF RowStep, RowClaimed
    <3>2. CASE j # k
      BY <1>2, <3>2 DEF RowStep, RowKept
    <3> QED
      BY <3>1, <3>2
  <2>2. ~(run.rs.status = "running" /\ run'.rs.status = "succeeded")
    BY <1>2 DEF Kinds
  <2> QED
    BY <2>1, <2>2 DEF SharedStep
<1> QED
  BY <1>3, <1>4, <1>5, <1>6 DEF SharedInv

\* A failure of the row that was read, which was pending.
LEMMA FailStep ==
    ASSUME IInv, NEW k \in Kinds, NEW row, Pending(row), FailRun(k, row),
           UNCHANGED <<rows, shares, events, past>>
    PROVE  SharedInv' /\ SharedStep
<1>1. SharedTypes /\ RowsInv /\ MarksInv
  BY SharedFacts DEF SharedInv
<1>2. CASE run[k] = row
  <2> USE DEF rows, past
  <2>1. /\ run' = [run EXCEPT ![k] = [row EXCEPT !.status = "failed"]]
        /\ lease' = lease \ {k} /\ issued' = issued
    BY <1>2 DEF FailRun
  <2>2. \/ k = "rs" /\ row \in SummaryRun
        \/ k = "aa" /\ row \in ActionRun
    BY <1>1, <1>2, SharedFacts DEF Pending, NoRun, Kinds
  <2>3. PICK end : end = [row EXCEPT !.status = "failed"]
    OBVIOUS
  <2>4. /\ end.run = row.run /\ end.status = "failed"
        /\ (k = "rs" /\ end \in SummaryRun)
            \/ (k = "aa" /\ end \in ActionRun /\ end.gen = row.gen)
    BY <2>2, <2>3 DEF SummaryRun, ActionRun, Status
  <2>5. run'[k] = end /\ \A j \in Kinds \ {k} : run'[j] = run[j]
    BY <1>1, <2>1, <2>3 DEF SharedTypes, Kinds
  <2>6. SharedTypes'
    <3>1. run' \in [rs: SummaryRun \cup {NoRun}, aa: ActionRun \cup {NoRun}]
      BY <1>1, <2>1, <2>3, <2>4 DEF SharedTypes, Kinds
    <3> QED
      BY <1>1, <2>1, <3>1 DEF SharedTypes
  <2>7. RowsInv'
    <3>1. ASSUME NEW j \in Kinds
          PROVE  run'[j].run <= issued'[j] /\ (run'[j].status = "queued" => run'[j].run > 0)
      BY <1>1, <1>2, <2>1, <2>4, <2>5 DEF RowsInv
    <3>2. run'.aa = run.aa \/ (run.aa # NoRun /\ run'.aa.gen = run.aa.gen /\ run'.aa.status = "failed")
      BY <1>2, <2>2, <2>4, <2>5 DEF Kinds, ActionRun, NoRun
    <3> QED
      BY <1>1, <3>1, <3>2 DEF RowsInv
  <2>8. MarksInv'
    BY <1>1 DEF MarksInv, TicksKept
  <2>9. SharedStep
    <3>1. ASSUME NEW j \in Kinds PROVE RowStep(j)
      <4>1. CASE j = k
        BY <1>2, <2>1, <2>4, <2>5, <4>1 DEF RowStep, RowEnded
      <4>2. CASE j # k
        BY <2>1, <2>5, <4>2 DEF RowStep, RowKept
      <4> QED
        BY <4>1, <4>2
    <3>2. ~(run.rs.status = "running" /\ run'.rs.status = "succeeded")
      BY <2>4, <2>5 DEF Kinds
    <3> QED
      BY <3>1, <3>2 DEF SharedStep
  <2> QED
    BY <2>6, <2>7, <2>8, <2>9 DEF SharedInv
<1>3. CASE run[k] # row
  BY <1>3, StillStep DEF FailRun, runs
<1> QED
  BY <1>2, <1>3

\* The request that claimed a run goes on to publish it.
LEMMA ClaimedClient ==
    ASSUME IInv, SharedInv', SharedStep, NEW c \in Clients, NEW k \in Kinds, NEW row,
           row.status = "queued",
           (k = "rs" /\ row \in SummaryRun) \/ (k = "aa" /\ row \in ActionRun),
           Local(c, [pc |-> "publish", k |-> k, held |-> row]),
           UNCHANGED <<summarizer, extractor>>
    PROVE  IInv'
<1>0. PICK q : q = [pc |-> "publish", k |-> k, held |-> row]
  OBVIOUS
<1>1. q \in Client
  BY <1>0 DEF Client
<1>2. q.pc = "publish" /\ Pending(q.held)
  BY <1>0 DEF Pending
<1>3. ClientInv(q)'
  BY <1>2 DEF ClientInv, Pending
<1> QED
  BY <1>0, <1>1, <1>3, OneClient

LEMMA QueueResummaryStep ==
    ASSUME IInv, NEW c \in Clients, QueueResummary(c)
    PROVE  IInv' /\ SharedStep
<1> DEFINE q == client[c]
<1>1. /\ q.prior \in SummaryRun \cup {NoRun} /\ q.by \in Requester
      /\ q.mode \in {"plain", "safe"} /\ q.hash \in Snapshot /\ ~Pending(q.prior)
  BY ClientFacts, ClientFields DEF QueueResummary, ClientInv
<1>2. PICK next : next = [run |-> issued.rs + 1, status |-> "queued", by |-> q.by,
                          mode |-> q.mode, hash |-> q.hash]
  OBVIOUS
<1>3. next \in SummaryRun /\ next.run = issued["rs"] + 1 /\ next.status = "queued"
  BY <1>1, <1>2, SharedFacts DEF SummaryRun, Status
<1>4. CASE run.rs = q.prior /\ q.hash = Captured(q.by)
  <2>1. Claim("rs", next) /\ Local(c, [pc |-> "publish", k |-> "rs", held |-> next])
    BY <1>2, <1>4 DEF QueueResummary
  <2>2. ~(Pending(run["rs"]) /\ "rs" \in lease)
    BY <1>1, <1>4
  <2>3. SharedInv' /\ SharedStep
    BY <1>3, <2>1, <2>2, ClaimStep DEF QueueResummary, Kinds
  <2> QED
    BY <1>3, <2>1, <2>3, ClaimedClient DEF QueueResummary, Kinds
<1>5. CASE ~(run.rs = q.prior /\ q.hash = Captured(q.by))
  <2>1. Local(c, Idle) /\ UNCHANGED runs
    BY <1>5 DEF QueueResummary
  <2> QED
    BY <2>1, StillStep, ClientIdles DEF QueueResummary
<1> QED
  BY <1>4, <1>5

LEMMA QueueActionsStep ==
    ASSUME IInv, NEW c \in Clients, QueueActionAnalysis(c)
    PROVE  IInv' /\ SharedStep
<1> DEFINE q == client[c]
<1>1. /\ q.prior \in ActionRun \cup {NoRun} /\ q.gen \in Gen
      /\ Pending(q.prior) /\ run.aa = q.prior => "aa" \notin lease
  BY ClientFacts, ClientFields DEF QueueActionAnalysis, ClientInv
<1>2. PICK next : next = [run |-> issued.aa + 1, status |-> "queued", gen |-> q.gen]
  OBVIOUS
<1>3. /\ next \in ActionRun /\ next.run = issued["aa"] + 1 /\ next.status = "queued"
      /\ next.gen = q.gen
  BY <1>1, <1>2, SharedFacts DEF ActionRun, Status
<1>4. CASE run.aa = q.prior /\ meeting.status = "done" /\ meeting.gen = q.gen
  <2>1. Claim("aa", next) /\ Local(c, [pc |-> "publish", k |-> "aa", held |-> next])
    BY <1>2, <1>4 DEF QueueActionAnalysis
  <2>2. ~(Pending(run["aa"]) /\ "aa" \in lease)
    BY <1>1, <1>4
  <2>3. next.gen <= gens
    BY <1>3, <1>4, SharedFacts
  <2>4. SharedInv' /\ SharedStep
    BY <1>3, <2>1, <2>2, <2>3, ClaimStep DEF QueueActionAnalysis, Kinds
  <2> QED
    BY <1>3, <2>1, <2>4, ClaimedClient DEF QueueActionAnalysis, Kinds
<1>5. CASE ~(run.aa = q.prior /\ meeting.status = "done" /\ meeting.gen = q.gen)
  <2>1. Local(c, Idle) /\ UNCHANGED runs
    BY <1>5 DEF QueueActionAnalysis
  <2> QED
    BY <2>1, StillStep, ClientIdles DEF QueueActionAnalysis
<1> QED
  BY <1>4, <1>5

LEMMA ClientFailsStep ==
    ASSUME IInv, NEW c \in Clients, ClientFails(c)
    PROVE  IInv' /\ SharedStep
<1>1. Pending(client[c].held) /\ client[c].k \in Kinds
  BY ClientFacts, ClientFields DEF ClientFails, ClientInv, Kinds
<1>2. SharedInv' /\ SharedStep
  BY <1>1, FailStep DEF ClientFails
<1> QED
  BY <1>2, ClientIdles DEF ClientFails

LEMMA SetCompletedStep ==
    ASSUME IInv, NEW c \in Clients, SetCompleted(c)
    PROVE  IInv' /\ SharedStep
<1> DEFINE q == client[c]
<1>1. /\ q.items \in Marks /\ q.next \in Marks /\ q.task \in Tasks
      /\ q.task \in q.items.said /\ q.next.said = q.items.said
      /\ q.next.done \in {q.items.done \cup {q.task}, q.items.done \ {q.task}}
  BY ClientFacts, ClientFields DEF SetCompleted, ClientInv
<1>2. CASE meeting.items = q.items
  <2>1. /\ meeting' = [meeting EXCEPT !.items = q.next]
        /\ ticked' = (ticked \ {q.task}) \cup ({q.task} \cap q.next.done)
        /\ UNCHANGED <<gens, shares, runs, events, source>>
    BY <1>2 DEF SetCompleted
  <2>2. SharedTypes /\ RowsInv /\ MarksInv /\ meeting \in Meeting
    BY SharedFacts DEF SharedInv
  <2>3. /\ meeting' \in Meeting /\ meeting'.items = q.next /\ meeting'.kept = meeting.kept
        /\ meeting'.gen = meeting.gen
    BY <1>1, <2>1, <2>2 DEF Meeting
  <2>4. SharedTypes'
    BY <1>1, <2>1, <2>2, <2>3 DEF SharedTypes, runs
  <2>5. RowsInv'
    BY <2>1, <2>2, <2>3 DEF RowsInv, runs
  <2>6. MarksInv'
    <3> DEFINE t == q.task
    <3>1. meeting.kept.said = {} /\ meeting.kept.done = {}
      BY <1>1, <1>2, <2>2 DEF MarksInv, TicksKept
    <3>2. ticked \subseteq q.items.said /\ q.items.done = ticked \cap q.items.said
      BY <1>2, <2>2, <3>1 DEF MarksInv, TicksKept
    <3>3. q.next.done = ticked' \cap q.next.said
      BY <1>1, <2>1, <3>2
    <3>4. ticked' \subseteq q.next.said
      BY <1>1, <2>1, <3>2
    <3> QED
      BY <2>3, <3>1, <3>3, <3>4 DEF MarksInv, TicksKept
  <2>7. SharedStep
    <3>1. ASSUME NEW k \in Kinds PROVE RowStep(k)
      BY <2>1 DEF RowStep, RowKept, runs
    <3>2. ~(run.rs.status = "running" /\ run'.rs.status = "succeeded")
      BY <2>1 DEF runs
    <3> QED
      BY <2>1, <2>3, <3>1, <3>2 DEF SharedStep
  <2> QED
    BY <2>4, <2>5, <2>6, <2>7, ClientIdles DEF SetCompleted, SharedInv
<1>3. CASE meeting.items # q.items
  BY <1>3, StillStep, ClientIdles DEF SetCompleted, rows, past
<1> QED
  BY <1>2, <1>3

LEMMA RequestStep ==
    ASSUME IInv, NEW c \in Clients, Request(c)
    PROVE  IInv' /\ SharedStep
BY RequestSummaryStep, RequestActionsStep, QueueResummaryStep, QueueActionsStep, PublishStep,
   FindExpiredStep, ClientFailsStep, ReadTasksStep, SetCompletedStep, DescribeStep,
   ResponseStep, ClientEndsStep DEF Request

-----------------------------------------------------------------------------
(* The steps of a worker of a re-summary. *)

LEMMA SummarizerFacts ==
    ASSUME IInv, NEW w \in Summarizers, summarizer[w] # Idle
    PROVE  /\ summarizer[w] \in Summarizer /\ SummarizerInv(summarizer[w])
           /\ summarizer[w].held \in SummaryRun /\ summarizer[w].held.run \in Nat
BY SummarizerFields, RunFields DEF IInv, TypeOK, ProcsInv

\* A worker that goes on with the row it holds, or gives up.
LEMMA WorkerGoesOn ==
    ASSUME IInv, SharedInv', SharedStep, NEW w \in Summarizers, NEW pc, NEW held \in SummaryRun,
           Work(w, [pc |-> pc, held |-> held]), UNCHANGED <<client, extractor>>,
           \/ pc \in {"capture", "start"} /\ held.status = "queued"
           \/ pc \in {"prepare", "generate", "complete"} /\ held.status = "running"
                 /\ Old("rs", held)'
           \/ pc = "fail" /\ Pending(held)
    PROVE  IInv'
<1>0. PICK q : q = [pc |-> pc, held |-> held]
  OBVIOUS
<1>1. q \in Summarizer
  BY <1>0 DEF Summarizer
<1>2. q.pc = pc /\ q.held = held
  BY <1>0
<1>3. SummarizerInv(q)'
  BY <1>2 DEF SummarizerInv, Pending
<1> QED
  BY <1>0, <1>1, <1>3, OneSummarizer

LEMMA WorkerIdles ==
    ASSUME IInv, SharedInv', SharedStep, NEW w \in Summarizers, Work(w, Idle),
           UNCHANGED <<client, extractor>>
    PROVE  IInv'
<1>1. Idle \in Summarizer /\ SummarizerInv(Idle)'
  BY DEF Idle, Summarizer, SummarizerInv
<1> QED
  BY <1>1, OneSummarizer

\* The copy a worker past its start holds outlasts the step.
LEMMA HeldStays ==
    ASSUME IInv, SharedStep, NEW held \in SummaryRun, Old("rs", held)
    PROVE  Old("rs", held)'
BY SharedFacts, RunFields, OldStays DEF SharedInv, SharedStep, Kinds

LEMMA SummarizerQuietSteps ==
    ASSUME IInv, NEW w \in Summarizers,
           \/ SummaryRequested(w) \/ CaptureResummary(w) \/ Prepare(w) \/ GenerateResummary(w)
           \/ SummarizerDies(w)
    PROVE  IInv' /\ SharedStep
<1>0. PICK held : held = summarizer[w].held
  OBVIOUS
<1>1. SharedInv' /\ SharedStep
  BY StillStep DEF SummaryRequested, CaptureResummary, Prepare, GenerateResummary, SummarizerDies
<1>2. CASE SummaryRequested(w)
  <2>1. run.rs \in SummaryRun /\ run.rs.status = "queued"
    BY <1>2, SharedFacts DEF SummaryRequested, NoRun
  <2> QED
    BY <1>1, <1>2, <2>1, WorkerGoesOn DEF SummaryRequested
<1>3. CASE CaptureResummary(w)
  <2>1. held \in SummaryRun /\ held.status = "queued"
    BY <1>0, <1>3, SummarizerFacts DEF CaptureResummary, At, Idle, SummarizerInv
  <2>2. PICK pc \in {"start", "fail"} : Work(w, [pc |-> pc, held |-> held])
    BY <1>0, <1>3 DEF CaptureResummary, Step
  <2> QED
    BY <1>1, <1>3, <2>1, <2>2, WorkerGoesOn DEF CaptureResummary, Pending
<1>4. CASE Prepare(w) \/ GenerateResummary(w)
  <2>1. held \in SummaryRun /\ held.status = "running" /\ Old("rs", held)
    BY <1>0, <1>4, SummarizerFacts DEF Prepare, GenerateResummary, At, Idle, SummarizerInv
  <2>2. PICK pc \in {"generate", "complete", "fail"} : Work(w, [pc |-> pc, held |-> held])
    BY <1>0, <1>4 DEF Prepare, GenerateResummary, Step
  <2>3. UNCHANGED <<client, extractor>>
    BY <1>4 DEF Prepare, GenerateResummary
  <2>4. Old("rs", held)'
    BY <1>1, <2>1, HeldStays
  <2> QED
    BY <1>1, <2>1, <2>2, <2>3, <2>4, WorkerGoesOn DEF Pending
<1>5. CASE SummarizerDies(w)
  BY <1>1, <1>5, WorkerIdles DEF SummarizerDies
<1> QED
  BY <1>2, <1>3, <1>4, <1>5

\* The start of a row that is still the queued one that was read.
LEMMA BeginStep ==
    ASSUME IInv, NEW k \in Kinds, NEW held, run[k] = held, held.status = "queued",
           Begin(k, held), UNCHANGED <<rows, shares, events, past>>
    PROVE  SharedInv' /\ SharedStep
<1> USE DEF rows, past
<1>1. SharedTypes /\ RowsInv /\ MarksInv
  BY SharedFacts DEF SharedInv
<1>2. PICK next : next = Started(held)
  OBVIOUS
<1>3. \/ k = "rs" /\ held \in SummaryRun
      \/ k = "aa" /\ held \in ActionRun
  BY <1>1, SharedFacts DEF NoRun, Kinds
<1>4. /\ next.run = held.run /\ next.status = "running"
      /\ (k = "rs" /\ next \in SummaryRun)
          \/ (k = "aa" /\ next \in ActionRun /\ next.gen = held.gen)
  BY <1>2, <1>3 DEF Started, SummaryRun, ActionRun, Status
<1>5. /\ run' = [run EXCEPT ![k] = next] /\ issued' = issued /\ lease' = lease \cup {k}
  BY <1>2 DEF Begin
<1>6. run'[k] = next /\ \A j \in Kinds \ {k} : run'[j] = run[j]
  BY <1>1, <1>5 DEF SharedTypes, Kinds
<1>7. SharedTypes'
  <2>1. run' \in [rs: SummaryRun \cup {NoRun}, aa: ActionRun \cup {NoRun}]
    BY <1>1, <1>4, <1>5 DEF SharedTypes, Kinds
  <2> QED
    BY <1>1, <1>5, <2>1 DEF SharedTypes
<1>8. RowsInv'
  <2>1. ASSUME NEW j \in Kinds
        PROVE  run'[j].run <= issued'[j] /\ (run'[j].status = "queued" => run'[j].run > 0)
    BY <1>1, <1>4, <1>5, <1>6 DEF RowsInv
  <2>2. run'.aa = run.aa \/ (run.aa # NoRun /\ run'.aa.gen = run.aa.gen /\ run'.aa.status = "running")
    BY <1>3, <1>4, <1>6 DEF Kinds, ActionRun, NoRun
  <2> QED
    BY <1>1, <2>1, <2>2 DEF RowsInv
<1>9. MarksInv'
  BY <1>1 DEF MarksInv, TicksKept
<1>10. SharedStep
  <2>1. ASSUME NEW j \in Kinds PROVE RowStep(j)
    <3>1. CASE j = k
      BY <1>2, <1>5, <1>6, <3>1 DEF RowStep, RowStarted
    <3>2. CASE j # k
      BY <1>5, <1>6, <3>2 DEF RowStep, RowKept
    <3> QED
      BY <3>1, <3>2
  <2>2. ~(run.rs.status = "running" /\ run'.rs.status = "succeeded")
    BY <1>4, <1>6 DEF Kinds
  <2> QED
    BY <2>1, <2>2 DEF SharedStep
<1> QED
  BY <1>7, <1>8, <1>9, <1>10 DEF SharedInv

\* What is started is a copy from then on.
LEMMA StartedIsOld ==
    ASSUME IInv, NEW k \in Kinds, NEW held, run[k] = held, Begin(k, held), held.status = "queued",
           NEW next, next = Started(held)
    PROVE  Old(k, next)' /\ run'[k] = next
<1>1. SharedTypes /\ RowsInv
  BY SharedFacts DEF SharedInv
<1>2. \/ k = "rs" /\ held \in SummaryRun
      \/ k = "aa" /\ held \in ActionRun
  BY <1>1, SharedFacts DEF NoRun, Kinds
<1>3. next.run = held.run /\ next.status = "running"
  BY <1>2 DEF Started, SummaryRun, ActionRun
<1>4. run'[k] = next /\ issued' = issued
  BY <1>1 DEF Begin, SharedTypes, Kinds
<1> QED
  BY <1>1, <1>3, <1>4 DEF Old, RowsInv

LEMMA StartResummaryStep ==
    ASSUME IInv, NEW w \in Summarizers, StartResummary(w)
    PROVE  IInv' /\ SharedStep
<1>0. PICK held : held = summarizer[w].held
  OBVIOUS
<1>1. held \in SummaryRun /\ held.status = "queued"
  BY <1>0, SummarizerFacts DEF StartResummary, At, Idle, SummarizerInv
<1>2. CASE run.rs = held /\ Unchanged(held)
  <2>1. PICK next : next = Started(held)
    OBVIOUS
  <2>2. Begin("rs", held) /\ Work(w, [pc |-> "prepare", held |-> next])
    BY <1>0, <1>2, <2>1 DEF StartResummary
  <2>3. SharedInv' /\ SharedStep
    BY <1>1, <1>2, <2>2, BeginStep DEF StartResummary, Kinds
  <2>4. Old("rs", next)'
    BY <1>1, <1>2, <2>1, <2>2, StartedIsOld DEF Kinds
  <2>5. next \in SummaryRun /\ next.status = "running"
    BY <1>1, <2>1 DEF Started, SummaryRun, Status
  <2> QED
    BY <2>2, <2>3, <2>4, <2>5, WorkerGoesOn DEF StartResummary
<1>3. CASE ~(run.rs = held /\ Unchanged(held))
  <2>1. Work(w, [pc |-> "fail", held |-> held]) /\ UNCHANGED runs
    BY <1>0, <1>3 DEF StartResummary, Step
  <2> QED
    BY <1>1, <2>1, StillStep, WorkerGoesOn DEF StartResummary, Pending
<1> QED
  BY <1>2, <1>3

\* The transaction of a re-summary, in either mode.
LEMMA CompletionStep ==
    ASSUME IInv, NEW held \in SummaryRun, held.status = "running", run.rs = held,
           Unchanged(held), gens < MaxGens, Publication(held.mode), Completion(held),
           UNCHANGED <<shares, issued, events, ticked>>
    PROVE  SharedInv' /\ SharedStep
<1>1. SharedTypes /\ RowsInv /\ MarksInv
  BY SharedFacts DEF SharedInv
<1>2. PICK end : end = [held EXCEPT !.status = "succeeded"]
  OBVIOUS
<1>3. end \in SummaryRun /\ end.run = held.run /\ end.status = "succeeded"
  BY <1>2 DEF SummaryRun, Status
<1>4. /\ gens' = gens + 1 /\ gens' \in Gen /\ gens \in Nat
  BY <1>1 DEF Publication, SharedTypes, Gen
<1>5. CASE held.mode = "safe"
  <2>1. /\ meeting' = [status |-> "done", gen |-> gens + 1, items |-> NoTasks, kept |-> Continuity]
        /\ source' = 0 /\ run' = [rs |-> end, aa |-> NoRun] /\ lease' = {}
    BY <1>1, <1>2, <1>5 DEF Publication, Completion, SharedTypes
  <2>2. meeting.items \in Marks /\ meeting.kept \in Marks
    BY SharedFacts
  <2>3. /\ Continuity \in Marks
        /\ Continuity.said = meeting.kept.said \cup meeting.items.said
        /\ Continuity.done = meeting.kept.done \cup (meeting.items.done \ meeting.kept.said)
    BY <2>2 DEF Continuity, Marks
  <2>4. NoTasks \in Marks /\ NoTasks.said = {} /\ NoTasks.done = {}
    BY DEF NoTasks, Marks
  <2>5. SharedTypes'
    <3>1. meeting' \in Meeting
      BY <1>4, <2>1, <2>3, <2>4 DEF Meeting
    <3>2. run' \in [rs: SummaryRun \cup {NoRun}, aa: ActionRun \cup {NoRun}]
      BY <1>3, <2>1
    <3> QED
      BY <1>1, <1>4, <2>1, <3>1, <3>2 DEF SharedTypes
  <2>6. RowsInv'
    <3>1. run'["rs"] = end /\ run'["aa"] = NoRun /\ run'.aa = NoRun /\ meeting'.gen = gens'
      BY <1>4, <2>1
    <3> QED
      BY <1>1, <1>3, <3>1, RunTypes DEF RowsInv, NoRun, Kinds
  <2>7. MarksInv'
    <3>1. meeting'.items = NoTasks /\ meeting'.kept = Continuity
      BY <2>1
    <3> QED
      BY <1>1, <2>3, <2>4, <3>1 DEF MarksInv, TicksKept
  <2>8. SharedStep
    <3>1. RowStep("rs") /\ RowStep("aa")
      BY <1>3, <2>1 DEF RowStep, RowEnded, RowDropped, Pending
    <3> QED
      BY <1>4, <3>1 DEF SharedStep, Kinds
  <2> QED
    BY <2>5, <2>6, <2>7, <2>8 DEF SharedInv
<1>6. CASE held.mode # "safe"
  <2>1. /\ meeting' = [meeting EXCEPT !.status = "done", !.gen = gens + 1]
        /\ source' = source /\ run' = [rs |-> end, aa |-> run.aa] /\ lease' = lease \ {"rs"}
    BY <1>2, <1>6 DEF Publication, Completion
  <2>2. /\ meeting' \in Meeting /\ meeting'.gen = gens' /\ meeting'.items = meeting.items
        /\ meeting'.kept = meeting.kept
    BY <1>1, <1>4, <2>1 DEF SharedTypes, Meeting
  <2>3. SharedTypes'
    <3>1. run' \in [rs: SummaryRun \cup {NoRun}, aa: ActionRun \cup {NoRun}]
      BY <1>1, <1>3, <2>1 DEF SharedTypes
    <3> QED
      BY <1>1, <1>4, <2>1, <2>2, <3>1 DEF SharedTypes
  <2>4. RowsInv'
    <3>1. run'["rs"] = end /\ run'["aa"] = run["aa"] /\ run'.aa = run.aa
      BY <2>1
    <3>2. run.aa # NoRun => run.aa.gen \in Nat
      BY SharedFacts, RunFields DEF Gen
    <3>3. run'.aa # NoRun => run'.aa.gen <= gens' /\ run'.aa.gen # gens'
      BY <1>1, <1>4, <3>1, <3>2 DEF RowsInv
    <3>4. ASSUME NEW j \in Kinds
          PROVE  run'[j].run <= issued'[j] /\ (run'[j].status = "queued" => run'[j].run > 0)
      BY <1>1, <1>3, <3>1 DEF RowsInv, Kinds
    <3>5. run'.aa = NoRun => run'.aa.status # "succeeded"
      BY DEF NoRun
    <3> QED
      BY <2>2, <3>3, <3>4, <3>5 DEF RowsInv
  <2>5. MarksInv'
    BY <1>1, <2>2 DEF MarksInv, TicksKept
  <2>6. SharedStep
    <3>1. RowStep("rs") /\ RowStep("aa")
      BY <1>3, <2>1 DEF RowStep, RowEnded, RowKept, Pending
    <3> QED
      BY <1>4, <3>1 DEF SharedStep, Kinds
  <2> QED
    BY <2>3, <2>4, <2>5, <2>6 DEF SharedInv
<1> QED
  BY <1>5, <1>6

LEMMA CompleteResummaryStep ==
    ASSUME IInv, NEW w \in Summarizers, CompleteResummary(w)
    PROVE  IInv' /\ SharedStep
<1>0. PICK held : held = summarizer[w].held
  OBVIOUS
<1>1. held \in SummaryRun /\ held.status = "running" /\ Pending(held)
  BY <1>0, SummarizerFacts DEF CompleteResummary, At, Idle, SummarizerInv, Pending
<1>2. SharedInv' /\ SharedStep /\ UNCHANGED <<client, extractor>>
  <2>1. CASE run.rs = held /\ Unchanged(held)
    BY <1>0, <1>1, <2>1, CompletionStep DEF CompleteResummary
  <2>2. CASE ~(run.rs = held /\ Unchanged(held))
    <3>1. UNCHANGED <<rows, shares, run, lease, source, issued, events, ticked, client, extractor>>
      BY <1>0, <2>2 DEF CompleteResummary
    <3> QED
      BY <3>1, StillStep DEF runs, past
  <2> QED
    BY <2>1, <2>2
<1>3. Work(w, Idle) \/ Work(w, [pc |-> "fail", held |-> held])
  BY <1>0 DEF CompleteResummary, Step
<1> QED
  BY <1>1, <1>2, <1>3, WorkerIdles, WorkerGoesOn

LEMMA SummarizerFailsStep ==
    ASSUME IInv, NEW w \in Summarizers, SummarizerFails(w)
    PROVE  IInv' /\ SharedStep
<1>1. Pending(summarizer[w].held)
  BY SummarizerFacts DEF SummarizerFails, At, Idle, SummarizerInv
<1>2. SharedInv' /\ SharedStep
  BY <1>1, FailStep DEF SummarizerFails, Kinds
<1> QED
  BY <1>2, WorkerIdles DEF SummarizerFails

LEMMA SummarizeStep ==
    ASSUME IInv, NEW w \in Summarizers, Summarize(w)
    PROVE  IInv' /\ SharedStep
BY SummarizerQuietSteps, StartResummaryStep, CompleteResummaryStep, SummarizerFailsStep
   DEF Summarize

-----------------------------------------------------------------------------
(* The steps of a worker of an extraction. *)

LEMMA ExtractorFacts ==
    ASSUME IInv, NEW w \in Extractors, extractor[w] # Idle
    PROVE  /\ extractor[w] \in Extractor /\ ExtractorInv(extractor[w])
           /\ extractor[w].held \in ActionRun /\ Pending(extractor[w].held)
           /\ Old("aa", extractor[w].held)
<1>1. extractor[w] \in Extractor /\ ExtractorInv(extractor[w])
  BY DEF IInv, TypeOK, ProcsInv
<1> QED
  BY <1>1, ExtractorFields DEF ExtractorInv, Pending

LEMMA ActionCopyStays ==
    ASSUME IInv, SharedStep, NEW held \in ActionRun, Old("aa", held)
    PROVE  Old("aa", held)'
BY SharedFacts, RunFields, OldStays DEF SharedInv, SharedStep, Kinds

LEMMA ExtractorIdles ==
    ASSUME IInv, SharedInv', SharedStep, NEW w \in Extractors, Keep(w, Idle),
           UNCHANGED <<client, summarizer>>
    PROVE  IInv'
<1>1. Idle \in Extractor /\ ExtractorInv(Idle)'
  BY DEF Idle, Extractor, ExtractorInv
<1> QED
  BY <1>1, OneExtractor

LEMMA ExtractorGivesUp ==
    ASSUME IInv, SharedInv', SharedStep, NEW w \in Extractors, extractor[w] # Idle, GiveUp(w),
           UNCHANGED <<client, summarizer>>
    PROVE  IInv'
<1>0. PICK held : held = extractor[w].held
  OBVIOUS
<1>1. held \in ActionRun /\ Pending(held) /\ Old("aa", held)
  BY <1>0, ExtractorFacts
<1>2. PICK q : q = [pc |-> "fail", held |-> held]
  OBVIOUS
<1>3. q \in Extractor /\ q.pc = "fail" /\ q.held = held
  BY <1>1, <1>2 DEF Extractor
<1>4. Old("aa", held)'
  BY <1>1, ActionCopyStays
<1>5. ExtractorInv(q)'
  BY <1>1, <1>3, <1>4 DEF ExtractorInv, Pending
<1>6. Keep(w, q)
  BY <1>0, <1>2 DEF GiveUp
<1> QED
  BY <1>3, <1>5, <1>6, OneExtractor

LEMMA ActionItemsRequestedStep ==
    ASSUME IInv, NEW w \in Extractors, ActionItemsRequested(w)
    PROVE  IInv' /\ SharedStep
<1>0. PICK q : q = [pc |-> "read", held |-> run.aa]
  OBVIOUS
<1>1. SharedInv' /\ SharedStep /\ UNCHANGED runs
  BY StillStep DEF ActionItemsRequested
<1>2. run.aa \in ActionRun /\ run.aa.status = "queued"
  BY SharedFacts DEF ActionItemsRequested, NoRun
<1>3. q \in Extractor /\ q.pc = "read" /\ q.held = run.aa
  BY <1>0, <1>2 DEF Extractor
<1>4. run.aa.run <= issued.aa
  BY DEF IInv, RowsInv, Kinds
<1>5. ExtractorInv(q)'
  BY <1>1, <1>2, <1>3, <1>4 DEF ExtractorInv, Old, Pending, runs
<1>6. Keep(w, q)
  BY <1>0 DEF ActionItemsRequested
<1> QED
  BY <1>1, <1>3, <1>5, <1>6, OneExtractor DEF ActionItemsRequested

LEMMA ReadMeetingStep ==
    ASSUME IInv, NEW w \in Extractors, ReadMeeting(w)
    PROVE  IInv' /\ SharedStep
<1>0. PICK held : held = extractor[w].held
  OBVIOUS
<1>1. SharedInv' /\ SharedStep /\ UNCHANGED meeting /\ extractor[w] # Idle
  BY StillStep DEF ReadMeeting, On, Idle, rows
<1>2. held \in ActionRun /\ held.status = "queued" /\ Old("aa", held)'
  BY <1>0, <1>1, ExtractorFacts, ActionCopyStays DEF ReadMeeting, On, ExtractorInv
<1>3. CASE GiveUp(w)
  BY <1>1, <1>3, ExtractorGivesUp DEF ReadMeeting
<1>4. CASE ~GiveUp(w)
  <2>0. PICK q : q = [pc |-> "start", held |-> held, items |-> meeting.items,
                      kept |-> meeting.kept]
    OBVIOUS
  <2>1. q \in Extractor
    BY <1>2, <2>0, SharedFacts DEF Extractor
  <2>2. q.pc = "start" /\ q.held = held /\ q.kept = meeting.kept
    BY <2>0
  <2>3. ExtractorInv(q)'
    BY <1>1, <1>2, <2>2 DEF ExtractorInv
  <2>4. Keep(w, q)
    BY <1>0, <1>4, <2>0 DEF ReadMeeting
  <2> QED
    BY <1>1, <2>1, <2>3, <2>4, OneExtractor DEF ReadMeeting
<1> QED
  BY <1>3, <1>4

LEMMA StartActionAnalysisStep ==
    ASSUME IInv, NEW w \in Extractors, StartActionAnalysis(w)
    PROVE  IInv' /\ SharedStep
<1>0. PICK held, items, kept : /\ held = extractor[w].held /\ items = extractor[w].items
                               /\ kept = extractor[w].kept
  OBVIOUS
<1>1. /\ held \in ActionRun /\ held.status = "queued" /\ extractor[w] # Idle
      /\ items \in Marks /\ kept \in Marks
      /\ run.aa = held /\ gens = held.gen => kept = meeting.kept
  BY <1>0, ExtractorFacts, ExtractorFields DEF StartActionAnalysis, On, Idle, ExtractorInv
<1>2. CASE run.aa = held
  <2>1. PICK next : next = Started(held)
    OBVIOUS
  <2>2. PICK q : q = [pc |-> "extract", held |-> next, items |-> items, kept |-> kept]
    OBVIOUS
  <2>3. Begin("aa", held) /\ Keep(w, q) /\ UNCHANGED rows
    BY <1>0, <1>2, <2>1, <2>2 DEF StartActionAnalysis
  <2>4. SharedInv' /\ SharedStep
    BY <1>1, <1>2, <2>3, BeginStep DEF StartActionAnalysis, Kinds
  <2>5. Old("aa", next)'
    BY <1>1, <1>2, <2>1, <2>3, StartedIsOld DEF Kinds
  <2>6. next \in ActionRun /\ next.status = "running" /\ next.gen = held.gen
    BY <1>1, <2>1 DEF Started, ActionRun, Status
  <2>7. q \in Extractor /\ q.pc = "extract" /\ q.held = next /\ q.kept = kept
    BY <1>1, <2>2, <2>6 DEF Extractor
  <2>8. gens' = q.held.gen => q.kept = meeting'.kept
    BY <1>1, <1>2, <2>3, <2>6, <2>7 DEF rows
  <2>9. ExtractorInv(q)'
    BY <2>5, <2>6, <2>7, <2>8 DEF ExtractorInv
  <2> QED
    BY <2>3, <2>4, <2>7, <2>9, OneExtractor DEF StartActionAnalysis
<1>3. CASE run.aa # held
  BY <1>0, <1>3, StillStep, ExtractorIdles DEF StartActionAnalysis
<1> QED
  BY <1>2, <1>3

LEMMA ReconciledMarks ==
    ASSUME NEW found \in SUBSET Tasks, NEW items, NEW kept, NEW r, r = Reconciled(found, items, kept)
    PROVE  /\ r \in Marks /\ r.said = found
           /\ r.done = found \cap (items.done \cup (kept.done \ items.said))
BY DEF Reconciled, Marks

LEMMA ExtractActionItemsStep ==
    ASSUME IInv, NEW w \in Extractors, ExtractActionItems(w)
    PROVE  IInv' /\ SharedStep
<1>0. PICK held, items, kept : /\ held = extractor[w].held /\ items = extractor[w].items
                               /\ kept = extractor[w].kept
  OBVIOUS
<1>1. /\ SharedInv' /\ SharedStep /\ UNCHANGED <<meeting, gens, run>> /\ extractor[w] # Idle
  BY StillStep DEF ExtractActionItems, On, Idle, rows, runs
<1>2. /\ held \in ActionRun /\ held.status = "running" /\ items \in Marks
      /\ run.aa = held /\ gens = held.gen => kept = meeting.kept
  BY <1>0, ExtractorFacts, ExtractorFields DEF ExtractActionItems, On, Idle, ExtractorInv
<1>3. Old("aa", held)'
  BY <1>0, <1>1, <1>2, ExtractorFacts, ActionCopyStays
<1>4. CASE GiveUp(w)
  BY <1>1, <1>4, ExtractorGivesUp DEF ExtractActionItems
<1>5. CASE ~GiveUp(w)
  <2>1. PICK found \in SUBSET Tasks :
            Keep(w, [pc |-> "complete", held |-> held, items |-> items,
                     result |-> Reconciled(found, items, kept)])
    BY <1>0, <1>5 DEF ExtractActionItems
  <2>2. PICK r : r = Reconciled(found, items, kept)
    OBVIOUS
  <2>3. PICK q : q = [pc |-> "complete", held |-> held, items |-> items, result |-> r]
    OBVIOUS
  <2>4. /\ r \in Marks /\ r.said = found
        /\ r.done = found \cap (items.done \cup (kept.done \ items.said))
    BY <2>2, ReconciledMarks
  <2>5. /\ q \in Extractor /\ q.pc = "complete" /\ q.held = held /\ q.items = items
        /\ q.result = r
    BY <1>2, <2>3, <2>4 DEF Extractor
  <2>6. ExtractorInv(q)'
    BY <1>1, <1>2, <1>3, <2>4, <2>5 DEF ExtractorInv
  <2> QED
    BY <1>1, <2>1, <2>2, <2>3, <2>5, <2>6, OneExtractor DEF ExtractActionItems
<1> QED
  BY <1>4, <1>5

\* The transaction of an extraction.
LEMMA ExtractionStep ==
    ASSUME IInv, NEW held \in ActionRun, NEW items \in Marks, NEW result \in Marks,
           held.status = "running", run.aa = held, meeting.gen = held.gen, meeting.items = items,
           result.done = result.said \cap (items.done \cup (meeting.kept.done \ items.said)),
           meeting' = [meeting EXCEPT !.items = result, !.kept = NoTasks],
           run' = [run EXCEPT !.aa = [held EXCEPT !.status = "succeeded"]],
           lease' = lease \ {"aa"}, source' = held.gen, ticked' = ticked \cap result.said,
           UNCHANGED <<gens, shares, issued, events>>
    PROVE  SharedInv' /\ SharedStep
<1>1. SharedTypes /\ RowsInv /\ MarksInv
  BY SharedFacts DEF SharedInv
<1>2. PICK end : end = [held EXCEPT !.status = "succeeded"]
  OBVIOUS
<1>3. end \in ActionRun /\ end.run = held.run /\ end.status = "succeeded" /\ end.gen = held.gen
  BY <1>2 DEF ActionRun, Status
<1>4. run'["aa"] = end /\ run'["rs"] = run["rs"] /\ run'.aa = end /\ run'.rs = run.rs
  BY <1>1, <1>2 DEF SharedTypes
<1>5. NoTasks \in Marks /\ NoTasks.said = {} /\ NoTasks.done = {}
  BY DEF NoTasks, Marks
<1>6. /\ meeting' \in Meeting /\ meeting'.items = result /\ meeting'.kept = NoTasks
      /\ meeting'.gen = meeting.gen
  BY <1>1, <1>5 DEF SharedTypes, Meeting
<1>7. SharedTypes'
  <2>1. run' \in [rs: SummaryRun \cup {NoRun}, aa: ActionRun \cup {NoRun}]
    BY <1>1, <1>2, <1>3 DEF SharedTypes
  <2>2. source' \in 0 .. MaxGens
    BY RunFields DEF Gen
  <2> QED
    BY <1>1, <1>6, <2>1, <2>2 DEF SharedTypes
<1>8. RowsInv'
  <2>1. ASSUME NEW j \in Kinds
        PROVE  run'[j].run <= issued'[j] /\ (run'[j].status = "queued" => run'[j].run > 0)
    BY <1>1, <1>3, <1>4, RunTypes DEF RowsInv, Kinds
  <2>2. end.gen = gens
    BY <1>1, <1>3 DEF RowsInv
  <2> QED
    BY <1>1, <1>3, <1>4, <1>6, <2>1, <2>2, SharedFacts DEF RowsInv
<1>9. MarksInv'
  <2>1. result.done = ticked' \cap result.said
    BY <1>1 DEF MarksInv, TicksKept
  <2> QED
    BY <1>5, <1>6, <2>1 DEF MarksInv, TicksKept
<1>10. SharedStep
  <2>1. RowStep("rs") /\ RowStep("aa")
    BY <1>3, <1>4 DEF RowStep, RowEnded, RowKept, Pending
  <2>2. source' = gens /\ ~Pending(run.aa)'
    BY <1>1, <1>3, <1>4 DEF RowsInv, Pending
  <2>3. ~(run.rs.status = "running" /\ run'.rs.status = "succeeded")
    BY <1>4
  <2> QED
    BY <2>1, <2>2, <2>3 DEF SharedStep, Kinds
<1> QED
  BY <1>7, <1>8, <1>9, <1>10 DEF SharedInv

LEMMA CompleteActionAnalysisStep ==
    ASSUME IInv, NEW w \in Extractors, CompleteActionAnalysis(w)
    PROVE  IInv' /\ SharedStep
<1>0. PICK held, items, result : /\ held = extractor[w].held /\ items = extractor[w].items
                                 /\ result = extractor[w].result
  OBVIOUS
<1>1. /\ held \in ActionRun /\ held.status = "running" /\ extractor[w] # Idle
      /\ items \in Marks /\ result \in Marks
      /\ run.aa = held /\ gens = held.gen =>
            result.done = result.said \cap (items.done \cup (meeting.kept.done \ items.said))
  BY <1>0, ExtractorFacts, ExtractorFields DEF CompleteActionAnalysis, On, Idle, ExtractorInv
<1> DEFINE match == /\ run.aa = held /\ meeting.status = "done" /\ meeting.gen = held.gen
                    /\ meeting.items = items
<1>2. UNCHANGED <<gens, shares, issued, events, client, summarizer>>
  BY DEF CompleteActionAnalysis
<1>3. CASE match
  <2>1. /\ meeting' = [meeting EXCEPT !.items = result, !.kept = NoTasks]
        /\ run' = [run EXCEPT !.aa = [held EXCEPT !.status = "succeeded"]]
        /\ lease' = lease \ {"aa"} /\ source' = held.gen /\ ticked' = ticked \cap result.said
        /\ Keep(w, Idle) \/ GiveUp(w)
    BY <1>0, <1>3 DEF CompleteActionAnalysis, ActionItemsMatch
  <2>2. result.done = result.said \cap (items.done \cup (meeting.kept.done \ items.said))
    BY <1>1, <1>3, SharedFacts
  <2>3. SharedInv' /\ SharedStep
    BY <1>1, <1>2, <1>3, <2>1, <2>2, ExtractionStep
  <2> QED
    BY <1>1, <1>2, <2>1, <2>3, ExtractorIdles, ExtractorGivesUp
<1>4. CASE ~match
  <2>1. GiveUp(w) /\ UNCHANGED <<meeting, run, lease, past>>
    BY <1>0, <1>4 DEF CompleteActionAnalysis, ActionItemsMatch
  <2>2. SharedInv' /\ SharedStep
    BY <1>2, <2>1, StillStep DEF rows, runs
  <2> QED
    BY <1>1, <1>2, <2>1, <2>2, ExtractorGivesUp
<1> QED
  BY <1>3, <1>4

LEMMA ExtractStep ==
    ASSUME IInv, NEW w \in Extractors, Extract(w)
    PROVE  IInv' /\ SharedStep
<1>1. CASE ExtractorFails(w)
  <2>1. Pending(extractor[w].held)
    BY <1>1, ExtractorFacts DEF ExtractorFails, On, Idle
  <2>2. SharedInv' /\ SharedStep
    BY <1>1, <2>1, FailStep DEF ExtractorFails, Kinds
  <2> QED
    BY <1>1, <2>2, ExtractorIdles DEF ExtractorFails
<1>2. CASE ExtractorDies(w)
  BY <1>2, StillStep, ExtractorIdles DEF ExtractorDies
<1> QED
  BY <1>1, <1>2, ActionItemsRequestedStep, ReadMeetingStep, StartActionAnalysisStep,
     ExtractActionItemsStep, CompleteActionAnalysisStep DEF Extract

-----------------------------------------------------------------------------
(* The rest of the system, and the invariant. *)

\* A step of the meeting's status or generation, apart from the two analyses.
LEMMA ContentStep ==
    ASSUME IInv, NEW st \in {"done", "error", "summarizing"}, gens' \in {gens, gens + 1},
           gens' \in Gen, meeting' = [meeting EXCEPT !.status = st, !.gen = gens'],
           UNCHANGED <<shares, runs, events, procs, past>>
    PROVE  IInv' /\ SharedStep
<1> USE DEF runs, past
<1>1. SharedTypes /\ RowsInv /\ MarksInv /\ gens \in Nat
  BY SharedFacts DEF SharedInv
<1>2. /\ meeting' \in Meeting /\ meeting'.gen = gens' /\ meeting'.items = meeting.items
      /\ meeting'.kept = meeting.kept
  BY <1>1 DEF SharedTypes, Meeting
<1>3. SharedTypes'
  BY <1>1, <1>2 DEF SharedTypes
<1>4. RowsInv'
  <2>1. run.aa # NoRun => run.aa.gen \in Nat
    BY SharedFacts, RunFields DEF Gen
  <2>2. run.aa = NoRun => run.aa.status # "succeeded"
    BY DEF NoRun
  <2> QED
    BY <1>1, <1>2, <2>1, <2>2 DEF RowsInv
<1>5. MarksInv'
  BY <1>1, <1>2 DEF MarksInv, TicksKept
<1>6. SharedStep
  <2>1. ASSUME NEW k \in Kinds PROVE RowStep(k)
    BY DEF RowStep, RowKept
  <2>2. ~(run.rs.status = "running" /\ run'.rs.status = "succeeded")
    OBVIOUS
  <2> QED
    BY <1>2, <2>1, <2>2 DEF SharedStep
<1> QED
  BY <1>3, <1>4, <1>5, <1>6, NoProcess DEF SharedInv

LEMMA EnvironmentStep ==
    ASSUME IInv, Environment
    PROVE  IInv' /\ SharedStep
<1>0. gens \in Gen /\ gens \in Nat /\ meeting \in Meeting /\ meeting.gen = gens
  BY SharedFacts
<1>1. CASE \E k \in Kinds : LeaseRunsOut(k)
  <2>1. /\ lease' \subseteq lease
        /\ UNCHANGED <<rows, shares, run, issued, events, procs, past>>
    BY <1>1 DEF LeaseRunsOut
  <2> QED
    BY <2>1, QuietStep, NoProcess DEF IInv, TypeOK
<1>2. CASE EditContent
  <2>1. meeting' = [meeting EXCEPT !.status = meeting.status, !.gen = gens']
    BY <1>0, <1>2 DEF EditContent, Meeting
  <2>2. gens' = gens + 1 /\ gens' \in Gen /\ meeting.status \in {"done", "error", "summarizing"}
    BY <1>0, <1>2 DEF EditContent, Fresh, Gen, Meeting
  <2> QED
    BY <1>2, <2>1, <2>2, ContentStep DEF EditContent
<1>3. CASE ShareOrRevoke
  <2>1. shares' \subseteq Editors
    BY <1>3 DEF ShareOrRevoke, IInv, TypeOK
  <2>2. UNCHANGED <<rows, run, lease, issued, events, procs, past>>
    BY <1>3 DEF ShareOrRevoke, runs
  <2> QED
    BY <2>1, <2>2, QuietStep, NoProcess DEF IInv, TypeOK
<1>4. CASE BeginPipeline
  <2>1. meeting' = [meeting EXCEPT !.status = "summarizing", !.gen = gens'] /\ gens' = gens
    BY <1>0, <1>4 DEF BeginPipeline, Meeting
  <2> QED
    BY <1>0, <1>4, <2>1, ContentStep DEF BeginPipeline
<1>5. CASE PublishMeetingSummary
  <2>1. gens' = gens + 1 /\ gens' \in Gen
    BY <1>0, <1>5 DEF PublishMeetingSummary, Fresh, Gen
  <2> QED
    BY <1>5, <2>1, ContentStep DEF PublishMeetingSummary
<1>6. CASE PipelineFails
  <2>1. meeting' = [meeting EXCEPT !.status = "error", !.gen = gens'] /\ gens' = gens
    BY <1>0, <1>6 DEF PipelineFails, Meeting
  <2> QED
    BY <1>0, <1>6, <2>1, ContentStep DEF PipelineFails
<1> QED
  BY <1>1, <1>2, <1>3, <1>4, <1>5, <1>6 DEF Environment

LEMMA InvInit == Init => IInv
<1> SUFFICES ASSUME Init PROVE IInv
  OBVIOUS
<1>1. PICK said \in SUBSET Tasks :
          meeting = [status |-> "done", gen |-> 1,
                     items |-> [said |-> said, done |-> {}], kept |-> NoTasks]
  BY DEF Init
<1>2. NoTasks \in Marks /\ NoTasks.said = {} /\ NoTasks.done = {} /\ 1 \in Gen
  BY DEF NoTasks, Marks, Gen
<1>3. /\ meeting \in Meeting /\ meeting.gen = 1 /\ meeting.items = [said |-> said, done |-> {}]
      /\ meeting.kept = NoTasks
  BY <1>1, <1>2 DEF Meeting, Marks
<1>4. run.rs = NoRun /\ run.aa = NoRun /\ run["rs"] = NoRun /\ run["aa"] = NoRun
  BY DEF Init
<1>5. /\ run \in [rs: SummaryRun \cup {NoRun}, aa: ActionRun \cup {NoRun}]
      /\ issued \in [Kinds -> Nat] /\ events \in [Kinds -> SUBSET Nat]
  BY DEF Init
<1>6. /\ client \in [Clients -> Client] /\ summarizer \in [Summarizers -> Summarizer]
      /\ extractor \in [Extractors -> Extractor]
  BY DEF Init, Client, Summarizer, Extractor
<1>7. TypeOK
  BY <1>2, <1>3, <1>5, <1>6 DEF Init, TypeOK, Gen
<1>8. RowsInv
  BY <1>3, <1>4 DEF Init, RowsInv, NoRun, Kinds
<1>9. MarksInv
  BY <1>2, <1>3 DEF Init, MarksInv, TicksKept
<1>10. ClientInv(Idle) /\ SummarizerInv(Idle) /\ ExtractorInv(Idle)
  BY DEF Idle, ClientInv, SummarizerInv, ExtractorInv
<1>11. ProcsInv
  BY <1>10 DEF Init, ProcsInv
<1> QED
  BY <1>7, <1>8, <1>9, <1>11 DEF IInv

LEMMA InvStep == IInv /\ [Next]_vars => IInv' /\ SharedStep
<1> SUFFICES ASSUME IInv, [Next]_vars PROVE IInv' /\ SharedStep
  OBVIOUS
<1>1. CASE Next
  BY <1>1, RequestStep, SummarizeStep, ExtractStep, EnvironmentStep DEF Next
<1>2. CASE UNCHANGED vars
  BY <1>2, StillStep, NoProcess DEF vars
<1> QED
  BY <1>1, <1>2

\* The inductive invariant holds in every reachable state.
LEMMA InvHolds == Spec => []IInv
  BY InvInit, InvStep, PTL DEF Spec

\* Every variable keeps its type, whatever the numbers of requests, workers and runs.
THEOREM TypeCorrect == Spec => []TypeOK
<1>1. IInv => TypeOK
  BY DEF IInv
<1> QED
  BY <1>1, InvHolds, PTL

\* The ticks a person made survive every extraction, re-summary and reset.
THEOREM TicksAreKept == Spec => []TicksKept
<1>1. IInv => TicksKept
  BY DEF IInv, MarksInv
<1> QED
  BY <1>1, InvHolds, PTL

\* A caller that is told "succeeded" is given the tasks of the summary it sees.
THEOREM AnswersAreCurrent == Spec => []AnsweredForThisSummary
<1>1. IInv => AnsweredForThisSummary
  BY DEF IInv, TypeOK, ProcsInv, ClientInv, AnsweredForThisSummary
<1> QED
  BY <1>1, InvHolds, PTL

\* A re-summary replaces only what it was asked to replace.
THEOREM ResummaryIsCurrent == Spec => ReplacesWhatWasRead
<1>1. IInv /\ [Next]_vars =>
          [run.rs.status = "running" /\ run'.rs.status = "succeeded" => Unchanged(run.rs)]_vars
  BY InvStep DEF SharedStep
<1> QED
  BY <1>1, InvHolds, PTL DEF Spec, ReplacesWhatWasRead

-----------------------------------------------------------------------------
(* One worker per run. *)

\* A worker past the start that was not there before the step started a queued row.
Joins(w) == /\ run.rs = summarizer[w].held /\ run.rs.status = "queued"

LEMMA SummarizerJoins ==
    ASSUME IInv, NEW w \in Summarizers, Summarize(w), w \in Summarizing'
    PROVE  /\ summarizer'[w].held.run = summarizer[w].held.run
           /\ w \in Summarizing \/ Joins(w)
<1>1. CASE StartResummary(w)
  <2>1. PICK held : held = summarizer[w].held
    OBVIOUS
  <2>2. held \in SummaryRun /\ held.status = "queued"
    BY <1>1, <2>1, SummarizerFacts DEF StartResummary, At, Idle, SummarizerInv
  <2>3. CASE run.rs = held /\ Unchanged(held)
    <3>1. summarizer'[w] = [pc |-> "prepare", held |-> Started(held)]
      BY <1>1, <2>1, <2>3 DEF StartResummary, Work, IInv, TypeOK
    <3> QED
      BY <2>1, <2>2, <2>3, <3>1 DEF Started, SummaryRun, Joins
  <2>4. CASE ~(run.rs = held /\ Unchanged(held))
    <3>1. summarizer'[w] = [pc |-> "fail", held |-> held]
      BY <1>1, <2>1, <2>4 DEF StartResummary, Work, Step, IInv, TypeOK
    <3> QED
      BY <3>1 DEF Summarizing
  <2> QED
    BY <2>3, <2>4
<1>2. CASE Prepare(w) \/ GenerateResummary(w)
  <2>1. w \in Summarizing
    BY <1>2 DEF Prepare, GenerateResummary, At, Summarizing
  <2>2. PICK pc : summarizer'[w] = [pc |-> pc, held |-> summarizer[w].held]
    BY <1>2 DEF Prepare, GenerateResummary, Step, Work, IInv, TypeOK
  <2> QED
    BY <2>1, <2>2
<1>3. CASE CompleteResummary(w)
  <2>1. summarizer'[w] \in {Idle, [pc |-> "fail", held |-> summarizer[w].held]}
    BY <1>3 DEF CompleteResummary, Step, Work, IInv, TypeOK
  <2> QED
    BY <2>1 DEF Idle, Summarizing
<1>4. CASE SummaryRequested(w) \/ CaptureResummary(w)
  <2>1. summarizer'[w].pc \in {"capture", "start", "fail"}
    BY <1>4 DEF SummaryRequested, CaptureResummary, Step, Work, IInv, TypeOK
  <2> QED
    BY <2>1 DEF Summarizing
<1>5. CASE SummarizerFails(w) \/ SummarizerDies(w)
  <2>1. summarizer'[w] = Idle
    BY <1>5 DEF SummarizerFails, SummarizerDies, Work, IInv, TypeOK
  <2> QED
    BY <2>1 DEF Idle, Summarizing
<1> QED
  BY <1>1, <1>2, <1>3, <1>4, <1>5 DEF Summarize

LEMMA ExtractorJoins ==
    ASSUME IInv, NEW w \in Extractors, Extract(w), w \in Extracting'
    PROVE  /\ extractor'[w].held.run = extractor[w].held.run
           /\ w \in Extracting \/ (run.aa = extractor[w].held /\ run.aa.status = "queued")
<1>1. CASE StartActionAnalysis(w)
  <2>1. PICK held : held = extractor[w].held
    OBVIOUS
  <2>2. held \in ActionRun /\ held.status = "queued"
    BY <1>1, <2>1, ExtractorFacts DEF StartActionAnalysis, On, Idle, ExtractorInv
  <2>3. CASE run.aa = held
    <3>1. extractor'[w] = [pc |-> "extract", held |-> Started(held),
                           items |-> extractor[w].items, kept |-> extractor[w].kept]
      BY <1>1, <2>1, <2>3 DEF StartActionAnalysis, Keep, IInv, TypeOK
    <3> QED
      BY <2>1, <2>2, <2>3, <3>1 DEF Started, ActionRun
  <2>4. CASE run.aa # held
    <3>1. extractor'[w] = Idle
      BY <1>1, <2>1, <2>4 DEF StartActionAnalysis, Keep, IInv, TypeOK
    <3> QED
      BY <3>1 DEF Idle, Extracting
  <2> QED
    BY <2>3, <2>4
<1>2. CASE ExtractActionItems(w)
  <2>1. w \in Extracting
    BY <1>2 DEF ExtractActionItems, On, Extracting
  <2>2. extractor'[w].held = extractor[w].held
    BY <1>2 DEF ExtractActionItems, GiveUp, Keep, IInv, TypeOK
  <2> QED
    BY <2>1, <2>2
<1>3. CASE CompleteActionAnalysis(w)
  <2>1. extractor'[w] \in {Idle, [pc |-> "fail", held |-> extractor[w].held]}
    BY <1>3 DEF CompleteActionAnalysis, GiveUp, Keep, IInv, TypeOK
  <2> QED
    BY <2>1 DEF Idle, Extracting
<1>4. CASE ActionItemsRequested(w) \/ ReadMeeting(w)
  <2>1. extractor'[w].pc \in {"read", "start", "fail"}
    BY <1>4 DEF ActionItemsRequested, ReadMeeting, GiveUp, Keep, IInv, TypeOK
  <2> QED
    BY <2>1 DEF Extracting
<1>5. CASE ExtractorFails(w) \/ ExtractorDies(w)
  <2>1. extractor'[w] = Idle
    BY <1>5 DEF ExtractorFails, ExtractorDies, Keep, IInv, TypeOK
  <2> QED
    BY <2>1 DEF Idle, Extracting
<1> QED
  BY <1>1, <1>2, <1>3, <1>4, <1>5 DEF Extract

\* A worker past its start holds a copy that is running: no other can start that run.
LEMMA PastStart ==
    ASSUME IInv
    PROVE  /\ \A v \in Summarizing :
                 ~(run.rs.run = summarizer[v].held.run /\ run.rs.status = "queued")
           /\ \A v \in Extracting :
                 ~(run.aa.run = extractor[v].held.run /\ run.aa.status = "queued")
<1>1. ASSUME NEW v \in Summarizing
      PROVE  ~(run.rs.run = summarizer[v].held.run /\ run.rs.status = "queued")
  <2>1. v \in Summarizers /\ summarizer[v] # Idle
    BY DEF Summarizing, Idle
  <2> QED
    BY <2>1, SummarizerFacts DEF Summarizing, SummarizerInv, Old
<1>2. ASSUME NEW v \in Extracting
      PROVE  ~(run.aa.run = extractor[v].held.run /\ run.aa.status = "queued")
  <2>1. v \in Extractors /\ extractor[v] # Idle
    BY DEF Extracting, Idle
  <2> QED
    BY <2>1, ExtractorFacts DEF Extracting, ExtractorInv, Old
<1> QED
  BY <1>1, <1>2

LEMMA OneWorkerStep ==
    ASSUME IInv, OneWorkerPerRun, [Next]_vars
    PROVE  OneWorkerPerRun'
<1>1. CASE UNCHANGED <<summarizer, extractor>>
  BY <1>1 DEF OneWorkerPerRun, Summarizing, Extracting
<1>2. ASSUME NEW x \in Summarizers, Summarize(x) PROVE OneWorkerPerRun'
  <2>1. /\ UNCHANGED extractor
        /\ \A v \in Summarizers : v # x => summarizer'[v] = summarizer[v]
    BY <1>2 DEF IInv, TypeOK, Summarize, SummaryRequested, CaptureResummary, StartResummary,
       Prepare, GenerateResummary, CompleteResummary, SummarizerFails, SummarizerDies, Work, Step
  <2>2. ASSUME NEW v \in Summarizing'
        PROVE  /\ v \in Summarizers /\ summarizer'[v].held.run = summarizer[v].held.run
               /\ v \in Summarizing \/ (v = x /\ Joins(x))
    BY <1>2, <2>1, <2>2, SummarizerJoins DEF Summarizing
  <2>3. ASSUME NEW v \in Summarizing', NEW w \in Summarizing',
               summarizer'[v].held.run = summarizer'[w].held.run
        PROVE  v = w
    BY <2>2, <2>3, PastStart DEF Joins, OneWorkerPerRun
  <2>4. \A v, w \in Extracting' : extractor'[v].held.run = extractor'[w].held.run => v = w
    BY <2>1 DEF OneWorkerPerRun, Extracting
  <2> QED
    BY <2>3, <2>4 DEF OneWorkerPerRun
<1>3. ASSUME NEW x \in Extractors, Extract(x) PROVE OneWorkerPerRun'
  <2>1. /\ UNCHANGED summarizer
        /\ \A v \in Extractors : v # x => extractor'[v] = extractor[v]
    BY <1>3 DEF IInv, TypeOK, Extract, ActionItemsRequested, ReadMeeting, StartActionAnalysis,
       ExtractActionItems, CompleteActionAnalysis, ExtractorFails, ExtractorDies, Keep, GiveUp
  <2>2. ASSUME NEW v \in Extracting'
        PROVE  /\ v \in Extractors /\ extractor'[v].held.run = extractor[v].held.run
               /\ \/ v \in Extracting
                  \/ v = x /\ run.aa = extractor[x].held /\ run.aa.status = "queued"
    BY <1>3, <2>1, <2>2, ExtractorJoins DEF Extracting
  <2>3. ASSUME NEW v \in Extracting', NEW w \in Extracting',
               extractor'[v].held.run = extractor'[w].held.run
        PROVE  v = w
    BY <2>2, <2>3, PastStart DEF OneWorkerPerRun
  <2>4. \A v, w \in Summarizing' : summarizer'[v].held.run = summarizer'[w].held.run => v = w
    BY <2>1 DEF OneWorkerPerRun, Summarizing
  <2> QED
    BY <2>3, <2>4 DEF OneWorkerPerRun
<1>4. ASSUME NEW c \in Clients, Request(c) PROVE UNCHANGED <<summarizer, extractor>>
  BY <1>4 DEF Request, RequestResummary, RequestActions, QueueResummary, QueueActionAnalysis,
     Publish, FindExpired, ClientFails, ReadTasks, SetCompleted, Describe, Response, ClientEnds
<1>5. CASE Environment
  BY <1>1, <1>5 DEF Environment, LeaseRunsOut, EditContent, ShareOrRevoke, BeginPipeline,
     PublishMeetingSummary, PipelineFails, procs
<1>6. CASE UNCHANGED vars
  BY <1>1, <1>6 DEF vars, procs
<1> QED
  BY <1>1, <1>2, <1>3, <1>4, <1>5, <1>6 DEF Next

\* However often the event of a run is delivered, one worker at most is past its start.
THEOREM OneWorkerHolds == Spec => []OneWorkerPerRun
<1>1. Init => OneWorkerPerRun
  BY DEF Init, OneWorkerPerRun, Summarizing, Extracting, Idle
<1> QED
  BY <1>1, InvHolds, OneWorkerStep, PTL DEF Spec

-----------------------------------------------------------------------------
(* Both rows implement AnalysisRun. *)

\* A step of a row, seen through its run, status and lease.
LEMMA AbstractStep ==
    ASSUME SharedTypes, NEW k \in Kinds, RowStep(k), NEW r, NEW s, r = Row(k), s = Row(k)'
    PROVE  \/ s = r /\ issued'[k] = issued[k]
           \/ /\ ~(r.status \in {"queued", "running"} /\ r.lease = "live")
              /\ issued'[k] = issued[k] + 1
              /\ s = [run |-> issued[k] + 1, status |-> "queued", lease |-> "live"]
           \/ /\ r.status = "queued" /\ issued'[k] = issued[k]
              /\ s = [run |-> r.run, status |-> "running", lease |-> "live"]
           \/ /\ r.status = "running" /\ issued'[k] = issued[k]
              /\ s = [run |-> r.run, status |-> "succeeded", lease |-> "out"]
           \/ /\ r.status \in {"queued", "running"} /\ issued'[k] = issued[k]
              /\ s = [run |-> r.run, status |-> "failed", lease |-> "out"]
           \/ r.lease = "live" /\ s = [run |-> r.run, status |-> r.status, lease |-> "out"] /\ issued'[k] = issued[k]
           \/ /\ s = [run |-> 0, status |-> "absent", lease |-> "out"]
              /\ issued'[k] = issued[k]
<1>1. /\ r = [run |-> run[k].run, status |-> run[k].status,
              lease |-> IF k \in lease THEN "live" ELSE "out"]
      /\ s = [run |-> run'[k].run, status |-> run'[k].status,
              lease |-> IF k \in lease' THEN "live" ELSE "out"]
  BY DEF Row
<1>2. /\ r.run = run[k].run /\ r.status = run[k].status
      /\ r.lease = IF k \in lease THEN "live" ELSE "out"
  BY <1>1
<1>3. CASE RowKept(k)
  BY <1>1, <1>2, <1>3 DEF RowKept
<1>4. CASE RowClaimed(k)
  BY <1>1, <1>2, <1>4 DEF RowClaimed, Pending
<1>5. CASE RowStarted(k)
  <2>1. run'[k].run = run[k].run /\ run'[k].status = "running"
    BY <1>5, RunTypes DEF RowStarted, Started, SummaryRun, ActionRun, NoRun, Kinds
  <2>2. s = [run |-> r.run, status |-> "running", lease |-> "live"]
    BY <1>1, <1>2, <1>5, <2>1 DEF RowStarted
  <2> QED
    BY <1>2, <1>5, <2>2 DEF RowStarted
<1>6. CASE RowEnded(k)
  <2>1. s = [run |-> r.run, status |-> run'[k].status, lease |-> "out"]
    BY <1>1, <1>2, <1>6 DEF RowEnded
  <2>2. CASE run'[k].status = "failed"
    BY <1>2, <1>6, <2>1, <2>2 DEF RowEnded, Pending
  <2>3. CASE run[k].status = "running" /\ run'[k].status = "succeeded"
    BY <1>2, <1>6, <2>1, <2>3 DEF RowEnded
  <2> QED
    BY <1>6, <2>2, <2>3 DEF RowEnded
<1>7. CASE RowDropped(k)
  BY <1>1, <1>7 DEF RowDropped, NoRun
<1> QED
  BY <1>3, <1>4, <1>5, <1>6, <1>7 DEF RowStep

\* The row of the re-summary is a run of AnalysisRun.
THEOREM ResummaryImplementsRun == Spec => ResummaryIsARun
<1>1. Init => Resummary!Init
  BY DEF Init, Resummary!Init, Resummary!Absent, Row, NoRun, Kinds
<1>2. IInv /\ [Next]_vars => [Resummary!Next]_<<Row("rs"), issued.rs>>
  <2> SUFFICES ASSUME IInv, [Next]_vars PROVE [Resummary!Next]_<<Row("rs"), issued.rs>>
    OBVIOUS
  <2>1. SharedTypes /\ RowStep("rs")
    BY InvStep, SharedFacts DEF SharedInv, SharedStep, Kinds
  <2> QED
    BY <2>1, AbstractStep DEF Kinds, Resummary!Next, Resummary!Claim, Resummary!Start,
       Resummary!Succeed, Resummary!Fail, Resummary!LeaseRunsOut, Resummary!Drop,
       Resummary!Pending, Resummary!As, Resummary!Absent
<1> QED
  BY <1>1, <1>2, InvHolds, PTL DEF Spec, ResummaryIsARun, Resummary!Spec

\* So is the row of the extraction of action items.
THEOREM ActionItemsImplementsRun == Spec => ActionItemsIsARun
<1>1. Init => ActionItems!Init
  BY DEF Init, ActionItems!Init, ActionItems!Absent, Row, NoRun, Kinds
<1>2. IInv /\ [Next]_vars => [ActionItems!Next]_<<Row("aa"), issued.aa>>
  <2> SUFFICES ASSUME IInv, [Next]_vars PROVE [ActionItems!Next]_<<Row("aa"), issued.aa>>
    OBVIOUS
  <2>1. SharedTypes /\ RowStep("aa")
    BY InvStep, SharedFacts DEF SharedInv, SharedStep, Kinds
  <2> QED
    BY <2>1, AbstractStep DEF Kinds, ActionItems!Next, ActionItems!Claim, ActionItems!Start,
       ActionItems!Succeed, ActionItems!Fail, ActionItems!LeaseRunsOut, ActionItems!Drop,
       ActionItems!Pending, ActionItems!As, ActionItems!Absent
<1> QED
  BY <1>1, <1>2, InvHolds, PTL DEF Spec, ActionItemsIsARun, ActionItems!Spec
=============================================================================
