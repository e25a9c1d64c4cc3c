------------------------ MODULE MultipartUpload_proofs ------------------------
(***************************************************************************)
(* Theorems about MultipartUpload for any number of invocations, batches,  *)
(* files and retries.                                                      *)
(***************************************************************************)
EXTENDS MultipartUpload, FiniteSetTheorems, TLAPS

USE BoundAssumption

-----------------------------------------------------------------------------
(* Types of the values the actions build. *)

\* The constant values have their types.
LEMMA Constants ==
    /\ MaxParts \in Nat /\ Parts \subseteq Nat
    /\ FreshRow \in Row /\ Captured(FreshRow) \in Snapshot /\ NoKeys \in [Parts -> Key]
    /\ NoKey \in Key /\ 0 \in Parts
<1>1. NoKey \in Key /\ NoKeys \in [Parts -> Key]
  BY DEF Key, NoKey, NoKeys
<1>2. FreshRow \in Row /\ Captured(FreshRow) \in Snapshot
  BY <1>1 DEF FreshRow, Row, Captured, Snapshot, Statuses
<1> QED
  BY <1>1, <1>2 DEF Parts

\* Where there is a slot there is a first one.
LEMMA FirstPart == ASSUME NEW n \in PartCounts PROVE 0 \in Parts /\ n \in 2 .. MaxParts
  BY DEF Parts

\* What a row records stays within its type when one field changes.
LEMMA RowMoves ==
    ASSUME NEW r \in Row
    PROVE  /\ r.keys \in [Parts -> Key] /\ r.parts \in 0 .. MaxParts /\ r.ready \subseteq Parts
           /\ Captured(r) \in Snapshot
           /\ \A s \in Statuses : [r EXCEPT !.status = s] \in Row
           /\ \A e \in {"no", "fresh", "stale"} : [r EXCEPT !.emitted = e] \in Row
           /\ \A p \in Parts : [r EXCEPT !.ready = @ \cup {p}] \in Row
           /\ \A p \in Parts, k \in Key :
                 [r EXCEPT !.keys[p] = k, !.status = "transcribing"] \in Row
<1>1. /\ r.keys \in [Parts -> Key] /\ r.parts \in 0 .. MaxParts /\ r.ready \subseteq Parts
      /\ Captured(r) \in Snapshot
  BY DEF Row, Captured, Snapshot
<1>2. \A p \in Parts, k \in Key : [r.keys EXCEPT ![p] = k] \in [Parts -> Key]
  BY <1>1
<1>3. \A s \in Statuses : [r EXCEPT !.status = s] \in Row
  BY DEF Row, Statuses
<1>4. \A e \in {"no", "fresh", "stale"} : [r EXCEPT !.emitted = e] \in Row
  BY DEF Row
<1>5. \A p \in Parts : [r EXCEPT !.ready = @ \cup {p}] \in Row
  BY DEF Row
<1>6. ASSUME NEW p \in Parts, NEW k \in Key
      PROVE  [r EXCEPT !.keys[p] = k, !.status = "transcribing"] \in Row
  BY <1>2, <1>6 DEF Row, Statuses
<1> QED
  BY <1>1, <1>3, <1>4, <1>5, <1>6

\* What an invocation remembers stays within its type.
LEMMA WorkerMoves ==
    ASSUME NEW x \in Worker, NEW s \in Steps
    PROVE  /\ [x EXCEPT !.pc = s] \in Worker
           /\ \A n \in 0 .. MaxParts : [x EXCEPT !.pc = s, !.parts = n] \in Worker
           /\ \A t \in Snapshot : [x EXCEPT !.pc = s, !.snap = t] \in Worker
           /\ \A o \in [Parts -> Key] : [x EXCEPT !.pc = s, !.merged = o] \in Worker
           /\ \A m \in Message : [x EXCEPT !.msg = m, !.pc = s] \in Worker
  BY DEF Worker
-----------------------------------------------------------------------------
(* What the shared steps do to an invocation. *)

\* Goto only moves the program counter.
LEMMA GotoEffect ==
    ASSUME TypeOK, NEW w \in Workers, NEW s \in Steps, Goto(w, s)
    PROVE  /\ wk' \in [Workers -> Worker] /\ msgs' = msgs
           /\ wk' = [wk EXCEPT ![w] = [wk[w] EXCEPT !.pc = s]]
<1>1. wk \in [Workers -> Worker] /\ wk[w] \in Worker
  BY DEF TypeOK
<1>2. [wk[w] EXCEPT !.pc = s] \in Worker
  BY <1>1, WorkerMoves
<1> QED
  BY <1>1, <1>2 DEF Goto

\* Return forgets the invocation and puts back at most its own delivery.
LEMMA ReturnEffect ==
    ASSUME TypeOK, NEW w \in Workers, Return(w, TRUE) \/ Return(w, FALSE)
    PROVE  /\ wk' \in [Workers -> Worker] /\ wk' = [wk EXCEPT ![w] = Idle]
           /\ msgs' \subseteq Message
           /\ \/ msgs' = msgs
              \/ msgs' = msgs \cup {[wk[w].msg EXCEPT !.try = @ + 1]}
<1>1. Idle \in Worker
  BY Constants DEF Idle, Worker, Message, PartMessage, Steps, Parts
<1>2. wk' = [wk EXCEPT ![w] = Idle] /\ wk \in [Workers -> Worker] /\ msgs \subseteq Message
  BY DEF Return, TypeOK
<1>3. \/ msgs' = msgs
      \/ wk[w].msg.try < AsyncRetries /\ msgs' = msgs \cup {[wk[w].msg EXCEPT !.try = @ + 1]}
  <2>1. wk[w].msg.try \in 0 .. AsyncRetries
    BY <1>2 DEF Worker, Message
  <2> QED
    BY <2>1 DEF Return
<1>4. wk[w].msg.try < AsyncRetries => [wk[w].msg EXCEPT !.try = @ + 1] \in Message
  <2>1. wk[w].msg \in Message
    BY <1>2 DEF Worker
  <2> QED
    BY <2>1 DEF Message
<1> QED
  BY <1>1, <1>2, <1>3, <1>4
-----------------------------------------------------------------------------
(* Type correctness. *)

\* The browser, the transcriptions and the passing of time keep the types.
LEMMA TypeOutside ==
    ASSUME TypeOK, Browser \/ Transcription \/ EmitClaimAges \/ ReadExpiresStuck \/ SummaryEnds
    PROVE  TypeOK'
<1> USE DEF TypeOK
<1>0. "error" \in Statuses /\ "done" \in Statuses /\ "transcribing" \in Statuses
  BY DEF Statuses
<1>r. [row EXCEPT !.status = "error"] \in Row /\ [row EXCEPT !.status = "done"] \in Row
  BY <1>0, RowMoves
<1>1. CASE StartBatch
  <2>1. PICK n \in PartCounts :
          client' = [client EXCEPT !.batch = @ + 1, !.parts = n, !.todo = 0 .. n - 1,
                                   !.first = uploads + 1]
    BY <1>1 DEF StartBatch
  <2>2. n \in 0 .. MaxParts /\ 0 .. n - 1 \subseteq Parts
    BY FirstPart DEF Parts
  <2>3. client.batch < MaxBatches
    BY <1>1 DEF StartBatch
  <2>4. client' \in Client
    <3>1. client.batch + 1 \in 0 .. MaxBatches /\ uploads + 1 \in Nat
      BY <2>3 DEF Client
    <3> HIDE DEF Parts
    <3> QED
      BY <2>1, <2>2, <3>1 DEF Client
  <2> QED
    BY <1>1, <2>4 DEF StartBatch
<1>2. CASE PutAudio
  <2>1. PICK p \in client.todo :
          /\ uploads' = uploads + 1
          /\ tasks' = tasks \cup {[part |-> p, key |-> uploads + 1]}
          /\ client' = [client EXCEPT !.step = "allocate", !.part = p, !.key = uploads + 1]
    BY <1>2 DEF PutAudio
  <2>2. p \in Parts /\ uploads + 1 \in 1 .. MaxUploads /\ uploads + 1 \in Key
    BY <1>2 DEF PutAudio, Client, Key
  <2>3. client' \in Client
    BY <2>1, <2>2 DEF Client
  <2> QED
    BY <1>2, <2>1, <2>2, <2>3 DEF PutAudio
<1>3. CASE PreAllocateAudioKeys
  <2>1. client' \in Client
    BY <1>3 DEF PreAllocateAudioKeys, Client
  <2>2. FreshBatch(client.parts) \in Row
    BY Constants DEF FreshBatch, Row, Client, Statuses
  <2>3. row' \in Row /\ started' \in BOOLEAN
    BY <1>3, <2>2 DEF PreAllocateAudioKeys
  <2> QED
    BY <1>3, <2>1, <2>3 DEF PreAllocateAudioKeys
<1>4. CASE SetAudioKeyAtIndex
  <2>1. client.part \in Parts /\ client.key \in Key
    BY DEF Client
  <2>2. row' \in Row
    <3>1. [row EXCEPT !.keys[client.part] = client.key, !.status = "transcribing"] \in Row
      BY <2>1, RowMoves
    <3> QED
      BY <1>4, <3>1 DEF SetAudioKeyAtIndex
  <2>3. client' \in Client
    <3>1. \/ client' = [client EXCEPT !.step = "idle"]
          \/ \E done : client' = [client EXCEPT !.step = "idle", !.todo = @ \ done]
      BY <1>4 DEF SetAudioKeyAtIndex
    <3>2. CASE client' = [client EXCEPT !.step = "idle"]
      BY <3>2 DEF Client
    <3>3. ASSUME NEW done, client' = [client EXCEPT !.step = "idle", !.todo = @ \ done]
          PROVE  client' \in Client
      BY <3>3 DEF Client
    <3> QED
      BY <3>1, <3>2, <3>3
  <2> QED
    BY <1>4, <2>2, <2>3 DEF SetAudioKeyAtIndex
<1>5. CASE RequestFails
  BY <1>5 DEF RequestFails, Client
<1>6. CASE StartTaskFails
  <2>1. row' \in Row
    BY <1>r, <1>6 DEF StartTaskFails
  <2> QED
    BY <1>6, <2>1 DEF StartTaskFails, Spend
<1>7. CASE MarkFailure
  <2>1. row' \in Row
    BY <1>r, <1>7 DEF MarkFailure
  <2> QED
    BY <1>7, <2>1 DEF MarkFailure
<1>8. ASSUME NEW p \in Parts PROVE PartMessage(p, 0) \in Message
  BY <1>8 DEF PartMessage, Message
<1>9. CASE TranscriptUploaded
  <2>1. PICK t \in tasks : /\ tasks' = tasks \ {t}
                           /\ object' = [object EXCEPT ![t.part] = t.key]
                           /\ msgs' = msgs \cup {PartMessage(t.part, 0)}
    BY <1>9 DEF TranscriptUploaded
  <2>2. t.part \in Parts /\ t.key \in Key
    BY DEF Key
  <2> QED
    BY <1>8, <1>9, <2>1, <2>2 DEF TranscriptUploaded
<1>10. CASE Redeliver
  BY <1>8, <1>10 DEF Redeliver, Spend
<1>11. CASE EmitClaimAges
  BY <1>11, RowMoves DEF EmitClaimAges, Upload
<1>12. CASE ReadExpiresStuck \/ SummaryEnds
  <2>1. row' \in Row
    BY <1>r, <1>12 DEF ReadExpiresStuck, SummaryEnds
  <2> QED
    BY <1>12, <2>1 DEF ReadExpiresStuck, SummaryEnds, Upload
<1> QED
  BY <1>1, <1>2, <1>3, <1>4, <1>5, <1>6, <1>7, <1>9, <1>10, <1>11, <1>12
  DEF Browser, Transcription

\* The calls before the merge keep the types.
LEMMA TypePart ==
    ASSUME TypeOK, NEW w \in Workers,
           \/ Invoke(w) \/ Read(w) \/ IncrementAudioPartsReady(w) \/ ClaimAllPartsEmit(w)
           \/ Emit(w) \/ ReleaseAllPartsEmit(w)
    PROVE  TypeOK'
<1> USE DEF TypeOK
<1>0. wk[w] \in Worker /\ wk[w].msg \in Message /\ wk[w].parts \in 0 .. MaxParts
  BY DEF Worker
<1>1. Idle \in Worker /\ {"read", "readAll", "increment", "emit", "claim", "release"} \subseteq Steps
  BY Constants DEF Idle, Worker, Message, PartMessage, Steps
<1>2. CASE Invoke(w)
  <2>1. PICK m \in msgs :
          /\ msgs' = msgs \ {m}
          /\ wk' = [wk EXCEPT ![w] = [Idle EXCEPT !.msg = m,
                       !.pc = IF m.kind = "part" THEN "read" ELSE "readAll"]]
    BY <1>2 DEF Invoke
  <2>2. \A s \in {"read", "readAll"} : [Idle EXCEPT !.msg = m, !.pc = s] \in Worker
    <3>1. ASSUME NEW s \in {"read", "readAll"} PROVE [Idle EXCEPT !.msg = m, !.pc = s] \in Worker
      BY <1>1, WorkerMoves
    <3> QED
      BY <3>1
  <2>3. [Idle EXCEPT !.msg = m, !.pc = IF m.kind = "part" THEN "read" ELSE "readAll"] \in Worker
    BY <2>2
  <2>4. wk' \in [Workers -> Worker]
    BY <2>1, <2>3
  <2> QED
    BY <1>2, <2>1, <2>4 DEF Invoke, Upload
<1>3. CASE Read(w)
  BY <1>1, <1>3, GotoEffect, ReturnEffect DEF Read, Upload
<1>4. CASE IncrementAudioPartsReady(w)
  <2>1. row' \in Row /\ row.parts \in 0 .. MaxParts
    <3>1. wk[w].msg.part \in Parts
      BY <1>0 DEF Message
    <3>2. [row EXCEPT !.ready = @ \cup {wk[w].msg.part}] \in Row
      BY <3>1, RowMoves
    <3> QED
      BY <1>4, <3>2, RowMoves DEF IncrementAudioPartsReady, Counted
  <2>2. \/ Return(w, TRUE)
        \/ wk' = [wk EXCEPT ![w].pc = "claim", ![w].parts = row.parts] /\ msgs' = msgs
    BY <1>4 DEF IncrementAudioPartsReady
  <2>3. [wk[w] EXCEPT !.pc = "claim", !.parts = row.parts] \in Worker
    BY <1>0, <1>1, <2>1, WorkerMoves
  <2>4. wk' \in [Workers -> Worker] /\ msgs' \subseteq Message
    BY <2>2, <2>3, ReturnEffect
  <2> QED
    BY <1>4, <2>1, <2>4 DEF IncrementAudioPartsReady, Upload
<1>5. CASE ClaimAllPartsEmit(w)
  <2>1. row' \in Row
    BY <1>5, RowMoves DEF ClaimAllPartsEmit
  <2>2. wk' \in [Workers -> Worker] /\ msgs' \subseteq Message
    BY <1>1, <1>5, GotoEffect, ReturnEffect DEF ClaimAllPartsEmit
  <2> QED
    BY <1>5, <2>1, <2>2 DEF ClaimAllPartsEmit, Upload
<1>6. CASE Emit(w)
  <2>1. PICK error \in BOOLEAN :
          /\ wk' = [wk EXCEPT ![w] = IF error THEN [@ EXCEPT !.pc = "release"] ELSE Idle]
          /\ msgs' = msgs \cup {AllMessage(wk[w].parts)}
    BY <1>6 DEF Emit
  <2>2. AllMessage(wk[w].parts) \in Message
    BY <1>0, Constants DEF AllMessage, Message
  <2>3. [wk[w] EXCEPT !.pc = "release"] \in Worker
    BY <1>0, <1>1, WorkerMoves
  <2>4. wk' \in [Workers -> Worker]
    BY <1>1, <2>1, <2>3
  <2> QED
    BY <1>6, <2>1, <2>2, <2>4 DEF Emit, Upload
<1>7. CASE ReleaseAllPartsEmit(w)
  <2>1. row' \in Row
    BY <1>7, RowMoves DEF ReleaseAllPartsEmit
  <2> QED
    BY <1>7, <2>1, ReturnEffect DEF ReleaseAllPartsEmit, Upload
<1> QED
  BY <1>2, <1>3, <1>4, <1>5, <1>6, <1>7

\* The merge, the publication and the failures keep the types.
LEMMA TypeMerge ==
    ASSUME TypeOK, NEW w \in Workers,
           \/ ReadAll(w) \/ Capture(w) \/ Merge(w) \/ FailTranscriptSnapshot(w)
           \/ CheckTranscriptObjects(w) \/ MarkSttNoSpeech(w) \/ Start(w) \/ Recapture(w)
           \/ CallFails(w) \/ Crash(w)
    PROVE  TypeOK'
<1> USE DEF TypeOK
<1>0. wk[w] \in Worker
  OBVIOUS
<1>1. {"capture", "merge", "fail", "check", "start", "recapture", "release"} \subseteq Steps
  BY DEF Steps
<1>2. CASE ReadAll(w)
  BY <1>1, <1>2, GotoEffect, ReturnEffect DEF ReadAll, Upload
<1>3. CASE Capture(w)
  <2>1. Captured(row) \in Snapshot
    BY RowMoves
  <2>2. [wk[w] EXCEPT !.pc = "merge", !.snap = Captured(row)] \in Worker
    BY <1>0, <1>1, <2>1, WorkerMoves
  <2>3. \/ wk' = [wk EXCEPT ![w].pc = "merge", ![w].snap = Captured(row)] /\ msgs' = msgs
        \/ Return(w, TRUE)
    BY <1>3 DEF Capture
  <2>4. wk' \in [Workers -> Worker] /\ msgs' \subseteq Message
    BY <2>2, <2>3, ReturnEffect
  <2> QED
    BY <1>3, <2>4 DEF Capture, Upload
<1>4. CASE Merge(w)
  <2>1. [wk[w] EXCEPT !.pc = "check", !.merged = object] \in Worker
    BY <1>0, <1>1, WorkerMoves
  <2>2. \/ wk' = [wk EXCEPT ![w].pc = "check", ![w].merged = object] /\ msgs' = msgs
        \/ Goto(w, "fail")
    BY <1>4 DEF Merge
  <2>3. wk' \in [Workers -> Worker] /\ msgs' \subseteq Message
    BY <1>1, <2>1, <2>2, GotoEffect
  <2> QED
    BY <1>4, <2>3 DEF Merge, Upload
<1>5. /\ [row EXCEPT !.status = "error"] \in Row
      /\ [row EXCEPT !.status = "summarizing"] \in Row
  <2>1. "error" \in Statuses /\ "summarizing" \in Statuses
    BY DEF Statuses
  <2> QED
    BY <2>1, RowMoves
<1>6. CASE FailTranscriptSnapshot(w) \/ MarkSttNoSpeech(w)
  <2>1. row' \in Row
    BY <1>5, <1>6 DEF FailTranscriptSnapshot, MarkSttNoSpeech
  <2> QED
    BY <1>6, <2>1, ReturnEffect DEF FailTranscriptSnapshot, MarkSttNoSpeech, Upload
<1>7. CASE CheckTranscriptObjects(w)
  BY <1>1, <1>7, GotoEffect, ReturnEffect DEF CheckTranscriptObjects, Upload
<1>8. CASE Start(w)
  <2>1. row' \in Row /\ started' \in BOOLEAN
    BY <1>5, <1>8 DEF Start
  <2> QED
    BY <1>1, <1>8, <2>1, GotoEffect, ReturnEffect DEF Start, Upload
<1>9. CASE Recapture(w)
  <2>1. Return(w, TRUE) \/ Return(w, FALSE)
    BY <1>9 DEF Recapture, Return
  <2> QED
    BY <1>9, <2>1, ReturnEffect DEF Recapture, Upload
<1>10. CASE CallFails(w)
  <2>1. \/ Return(w, TRUE) \/ Return(w, FALSE) \/ Goto(w, "release") \/ Goto(w, "fail")
    BY <1>10 DEF CallFails
  <2> QED
    BY <1>1, <1>10, <2>1, GotoEffect, ReturnEffect DEF CallFails, Upload
<1>11. CASE Crash(w)
  BY <1>11, ReturnEffect DEF Crash, Upload
<1> QED
  BY <1>2, <1>3, <1>4, <1>6, <1>7, <1>8, <1>9, <1>10, <1>11

\* Every reachable state is well typed.
THEOREM TypeCorrect == Spec => []TypeOK
<1>1. Init => TypeOK
  <2> SUFFICES ASSUME Init PROVE TypeOK
    OBVIOUS
  <2>1. Idle \in Worker
    BY Constants DEF Idle, Worker, Message, PartMessage, Steps
  <2>2. client \in Client
    BY Constants DEF Init, Client
  <2>3. object \in [Parts -> Key] /\ uploads \in 0 .. MaxUploads
    BY Constants DEF Init
  <2>4. wk \in [Workers -> Worker] /\ row \in Row
    BY <2>1, Constants DEF Init
  <2>5. tasks = {} /\ msgs = {} /\ started = FALSE /\ events \in 0 .. MaxEvents
    BY DEF Init
  <2> QED
    BY <2>2, <2>3, <2>4, <2>5 DEF TypeOK
<1>2. TypeOK /\ [Next]_vars => TypeOK'
  <2> SUFFICES ASSUME TypeOK, [Next]_vars PROVE TypeOK'
    OBVIOUS
  <2>1. CASE UNCHANGED vars
    BY <2>1 DEF TypeOK, vars
  <2>2. CASE Next
    BY <2>2, TypeOutside, TypePart, TypeMerge DEF Next, Summarize
  <2> QED
    BY <2>1, <2>2
<1> QED
  BY <1>1, <1>2, PTL DEF Spec
-----------------------------------------------------------------------------
(* One publication for one allocation of slots. *)

Active == {"recording", "transcribing"}

\* What makes the fence exclusive: a summarized allocation has left the active
\* statuses, and a merge is only ever captured in one of them.
PublishedInv ==
    /\ started => row.status \notin Active
    /\ \A w \in Workers :
          wk[w].pc \in {"merge", "fail", "check", "start", "recapture"}
              => wk[w].snap.status = "transcribing"

\* Only a new allocation brings a summarized row back to an active status.
LEMMA StartedStep ==
    ASSUME TypeOK, PublishedInv, [Next]_vars
    PROVE  started' => row'.status \notin Active
<1> SUFFICES ASSUME started' PROVE row'.status \notin Active
  OBVIOUS
<1> USE DEF Active
<1>1. /\ \A x \in Statuses : [row EXCEPT !.status = x].status = x
      /\ \A e \in {"no", "fresh"} : [row EXCEPT !.emitted = e].status = row.status
      /\ [row EXCEPT !.emitted = "stale"].status = row.status
      /\ \A S : [row EXCEPT !.ready = S].status = row.status
  BY DEF TypeOK, Row
<1>2. /\ [row EXCEPT !.status = "error"].status = "error"
      /\ [row EXCEPT !.status = "done"].status = "done"
      /\ [row EXCEPT !.status = "summarizing"].status = "summarizing"
  BY <1>1 DEF Statuses
<1>3. started => row.status \notin Active
  BY DEF PublishedInv
<1>4. CASE Browser
  <2>1. CASE PreAllocateAudioKeys
    BY <1>3, <2>1 DEF PreAllocateAudioKeys
  <2>2. CASE SetAudioKeyAtIndex
    BY <1>3, <2>2 DEF SetAudioKeyAtIndex, Slottable
  <2>3. CASE StartBatch \/ PutAudio \/ RequestFails
    BY <1>3, <2>3 DEF StartBatch, PutAudio, RequestFails
  <2> QED
    BY <1>4, <2>1, <2>2, <2>3 DEF Browser
<1>5. CASE Transcription
  <2>1. \/ row' = row /\ started' = started
        \/ row' = [row EXCEPT !.status = "error"]
    BY <1>5 DEF Transcription, StartTaskFails, MarkFailure, TranscriptUploaded, Redeliver
  <2> QED
    BY <1>2, <1>3, <2>1
<1>6. CASE EmitClaimAges \/ ReadExpiresStuck \/ SummaryEnds
  BY <1>1, <1>2, <1>3, <1>6 DEF EmitClaimAges, ReadExpiresStuck, SummaryEnds
<1>7. ASSUME NEW w \in Workers, Summarize(w) \/ CallFails(w) \/ Crash(w)
      PROVE  row'.status \notin Active
  <2>1. CASE IncrementAudioPartsReady(w)
    BY <1>1, <1>3, <2>1 DEF IncrementAudioPartsReady
  <2>2. CASE ClaimAllPartsEmit(w) \/ ReleaseAllPartsEmit(w)
    BY <1>1, <1>3, <2>2 DEF ClaimAllPartsEmit, ReleaseAllPartsEmit
  <2>3. CASE FailTranscriptSnapshot(w) \/ MarkSttNoSpeech(w)
    BY <1>2, <1>3, <2>3 DEF FailTranscriptSnapshot, MarkSttNoSpeech
  <2>4. CASE Start(w)
    BY <1>2, <1>3, <2>4 DEF Start
  <2>5. CASE \/ Invoke(w) \/ Read(w) \/ Emit(w) \/ ReadAll(w) \/ Capture(w) \/ Merge(w)
    BY <1>3, <2>5 DEF Invoke, Read, Emit, ReadAll, Capture, Merge
  <2>6. CASE CheckTranscriptObjects(w) \/ Recapture(w) \/ CallFails(w) \/ Crash(w)
    BY <1>3, <2>6 DEF CheckTranscriptObjects, Recapture, CallFails, Crash
  <2> QED
    BY <1>7, <2>1, <2>2, <2>3, <2>4, <2>5, <2>6 DEF Summarize
<1>8. CASE UNCHANGED vars
  BY <1>3, <1>8 DEF vars
<1> QED
  BY <1>4, <1>5, <1>6, <1>7, <1>8 DEF Next

Capturing == {"merge", "fail", "check", "start", "recapture"}

\* An invocation works only with a snapshot it took of a transcribing row.
LEMMA SnapshotStep ==
    ASSUME TypeOK, PublishedInv, [Next]_vars, NEW v \in Workers, wk'[v].pc \in Capturing
    PROVE  wk'[v].snap.status = "transcribing"
<1> USE DEF Capturing
<1>1. wk \in [Workers -> Worker] /\ wk[v] \in Worker
  BY DEF TypeOK
<1>2. wk[v].pc \in Capturing => wk[v].snap.status = "transcribing"
  BY DEF PublishedInv
<1>3. CASE wk'[v] = wk[v]
  BY <1>2, <1>3
<1>4. ASSUME Return(v, TRUE) \/ Return(v, FALSE) PROVE FALSE
  <2>1. wk'[v] = Idle
    BY <1>1, <1>4 DEF Return
  <2> QED
    BY <2>1 DEF Idle
<1>5. ASSUME NEW s \in Steps, Goto(v, s), wk[v].pc \in Capturing \/ s \notin Capturing
      PROVE  wk'[v].snap.status = "transcribing"
  <2>1. wk'[v] = [wk[v] EXCEPT !.pc = s]
    BY <1>1, <1>5 DEF Goto
  <2>2. wk'[v].pc = s /\ wk'[v].snap = wk[v].snap
    BY <1>1, <2>1 DEF Worker
  <2> QED
    BY <1>2, <1>5, <2>2
<1>6. ASSUME Summarize(v) \/ CallFails(v) \/ Crash(v)
      PROVE  wk'[v].snap.status = "transcribing"
  <2> USE <1>4
  <2>0. Capturing \cup {"increment", "emit", "release", "capture"} \subseteq Steps
    BY DEF Steps
  <2>1. CASE Invoke(v)
    <3>1. PICK m \in msgs : wk'[v] = [Idle EXCEPT !.msg = m,
                                !.pc = IF m.kind = "part" THEN "read" ELSE "readAll"]
      BY <1>1, <2>1 DEF Invoke
    <3>2. wk'[v].pc = IF m.kind = "part" THEN "read" ELSE "readAll"
      BY <3>1 DEF Idle
    <3> QED
      BY <3>2
  <2>2. CASE Read(v)
    BY <1>5, <2>0, <2>2 DEF Read
  <2>3. CASE IncrementAudioPartsReady(v)
    <3>1. \/ Return(v, TRUE)
          \/ wk' = [wk EXCEPT ![v].pc = "claim", ![v].parts = row.parts]
      BY <2>3 DEF IncrementAudioPartsReady
    <3>2. [wk[v] EXCEPT !.pc = "claim", !.parts = row.parts].pc = "claim"
      BY <1>1 DEF Worker
    <3> QED
      BY <1>1, <3>1, <3>2
  <2>4. CASE ClaimAllPartsEmit(v)
    BY <1>5, <2>0, <2>4 DEF ClaimAllPartsEmit
  <2>5. CASE Emit(v)
    <3>1. wk'[v] = [wk[v] EXCEPT !.pc = "release"] \/ wk'[v] = Idle
      BY <1>1, <2>5 DEF Emit
    <3>2. [wk[v] EXCEPT !.pc = "release"].pc = "release" /\ Idle.pc = "idle"
      BY <1>1 DEF Worker, Idle
    <3> QED
      BY <3>1, <3>2
  <2>6. CASE ReadAll(v)
    BY <1>5, <2>0, <2>6 DEF ReadAll
  <2>7. CASE Capture(v)
    <3>1. \/ Return(v, TRUE)
          \/ /\ row.status = "transcribing"
             /\ wk' = [wk EXCEPT ![v].pc = "merge", ![v].snap = Captured(row)]
      BY <2>7 DEF Capture
    <3>2. [wk[v] EXCEPT !.pc = "merge", !.snap = Captured(row)].snap = Captured(row)
      BY <1>1 DEF Worker
    <3>3. Captured(row).status = row.status
      BY DEF Captured
    <3>4. CASE /\ row.status = "transcribing"
               /\ wk' = [wk EXCEPT ![v].pc = "merge", ![v].snap = Captured(row)]
      <4>1. wk'[v] = [wk[v] EXCEPT !.pc = "merge", !.snap = Captured(row)]
        BY <1>1, <3>4
      <4> QED
        BY <3>2, <3>3, <3>4, <4>1
    <3> QED
      BY <3>1, <3>4
  <2>8. CASE Merge(v)
    <3>1. \/ wk' = [wk EXCEPT ![v].pc = "check", ![v].merged = object]
          \/ Goto(v, "fail")
      BY <2>8 DEF Merge
    <3>2. [wk[v] EXCEPT !.pc = "check", !.merged = object].snap = wk[v].snap
      BY <1>1 DEF Worker
    <3>3. wk[v].pc \in Capturing
      BY <2>8 DEF Merge
    <3> QED
      BY <1>1, <1>2, <1>5, <2>0, <3>1, <3>2, <3>3
  <2>9. CASE \/ ReleaseAllPartsEmit(v) \/ FailTranscriptSnapshot(v) \/ MarkSttNoSpeech(v)
             \/ Crash(v)
    BY <2>9 DEF ReleaseAllPartsEmit, FailTranscriptSnapshot, MarkSttNoSpeech, Crash
  <2>10. CASE CheckTranscriptObjects(v)
    BY <1>5, <2>0, <2>10 DEF CheckTranscriptObjects
  <2>11. CASE Start(v)
    BY <1>5, <2>0, <2>11 DEF Start
  <2>12. CASE Recapture(v)
    BY <2>12 DEF Recapture, Return
  <2>13. CASE CallFails(v)
    <3>1. \/ Return(v, TRUE) \/ Return(v, FALSE)
          \/ Goto(v, "release")
          \/ Goto(v, "fail") /\ wk[v].pc = "merge"
      BY <2>13 DEF CallFails
    <3> QED
      BY <1>5, <2>0, <3>1
  <2> QED
    BY <1>6, <2>1, <2>2, <2>3, <2>4, <2>5, <2>6, <2>7, <2>8, <2>9, <2>10, <2>11, <2>12, <2>13
    DEF Summarize
<1>7. ASSUME NEW w \in Workers, w # v, Summarize(w) \/ CallFails(w) \/ Crash(w)
      PROVE  wk'[v] = wk[v]
  <2>1. \E x : wk' = [wk EXCEPT ![w] = x]
    <3>1. CASE \/ Invoke(w) \/ IncrementAudioPartsReady(w) \/ Emit(w) \/ Capture(w)
               \/ Read(w) \/ ReadAll(w) \/ Merge(w)
      BY <3>1 DEF Invoke, IncrementAudioPartsReady, Emit, Capture, Read, ReadAll, Merge,
                  Goto, Return
    <3>2. CASE \/ ClaimAllPartsEmit(w) \/ ReleaseAllPartsEmit(w) \/ FailTranscriptSnapshot(w)
               \/ CheckTranscriptObjects(w) \/ MarkSttNoSpeech(w) \/ Start(w) \/ Recapture(w)
      BY <3>2 DEF ClaimAllPartsEmit, ReleaseAllPartsEmit, FailTranscriptSnapshot,
                  CheckTranscriptObjects, MarkSttNoSpeech, Start, Recapture, Goto, Return
    <3>3. CASE CallFails(w) \/ Crash(w)
      BY <3>3 DEF CallFails, Crash, Goto, Return
    <3> QED
      BY <1>7, <3>1, <3>2, <3>3 DEF Summarize
  <2> QED
    BY <1>1, <1>7, <2>1
<1>8. CASE Browser \/ Transcription
  BY <1>3, <1>8 DEF Browser, Transcription, StartBatch, PutAudio, PreAllocateAudioKeys,
     SetAudioKeyAtIndex, RequestFails, StartTaskFails, MarkFailure, TranscriptUploaded, Redeliver
<1>9. CASE EmitClaimAges \/ ReadExpiresStuck \/ SummaryEnds \/ UNCHANGED vars
  BY <1>3, <1>9 DEF EmitClaimAges, ReadExpiresStuck, SummaryEnds, vars
<1> QED
  BY <1>3, <1>6, <1>7, <1>8, <1>9 DEF Next

\* The history and the snapshots stay as PublishedInv says.
LEMMA PublishedInvHolds == Spec => []PublishedInv
<1>1. Init => PublishedInv
  BY DEF Init, PublishedInv, Idle
<1>2. TypeOK /\ PublishedInv /\ [Next]_vars => PublishedInv'
  BY StartedStep, SnapshotStep DEF PublishedInv, Capturing
<1> QED
  BY <1>1, <1>2, TypeCorrect, PTL DEF Spec

\* One allocation of slots is published at most once, for any number of emitters and
\* of AllPartsTranscribed deliveries (main.go:586-613).
THEOREM PublicationIsOnce == Spec => PublishedOnce
<1>1. PublishedInv /\ [Next]_vars
          => [\A w \in Workers : Start(w) /\ row' # row => ~started]_vars
  <2> SUFFICES ASSUME PublishedInv, NEW w \in Workers, Start(w), row' # row PROVE ~started
    OBVIOUS
  <2>1. wk[w].snap.status = "transcribing" /\ Fence(wk[w].snap)
    BY DEF Start, PublishedInv
  <2>2. row.status = "transcribing"
    BY <2>1 DEF Fence, Captured
  <2> QED
    BY <2>2 DEF PublishedInv, Active
<1> QED
  BY <1>1, PublishedInvHolds, PTL DEF Spec, PublishedOnce
-----------------------------------------------------------------------------
(* A complete batch behind every emission. *)

Counting == {"read", "increment"}
Emitting == {"claim", "emit", "release"}

\* Each part below k has a transcript among the stored objects o.
StoredTo(o, k) == \A p \in Parts : p < k => o[p] # NoKey

\* What a delivery says has happened.
Truthful(o, m, n) ==
    /\ m.kind = "part" => m.part < n /\ o[m.part] # NoKey
    /\ m.kind = "all" => StoredTo(o, m.parts)

\* With batches of n files: only parts below n exist, a part is counted after it was
\* stored, and whoever saw the full count saw n of them.
EmitInv(n) ==
    /\ client.parts \in {0, n} /\ row.parts \in {0, n}
    /\ \A p \in client.todo : p < n
    /\ \A t \in tasks : t.part < n
    /\ \A p \in Parts : object[p] # NoKey => p < n
    /\ \A p \in row.ready : object[p] # NoKey
    /\ \A m \in msgs : Truthful(object, m, n)
    /\ \A w \in Workers : Running(w) => Truthful(object, wk[w].msg, n)
    /\ \A w \in Workers : wk[w].pc \in Counting => wk[w].msg.kind = "part"
    /\ \A w \in Workers : wk[w].pc \in Emitting => StoredTo(object, wk[w].parts)

\* n different parts below n are all of them.
LEMMA AllCounted ==
    ASSUME NEW n \in Nat, NEW ready, ready \subseteq 0 .. n - 1, Cardinality(ready) >= n
    PROVE  ready = 0 .. n - 1
<1>1. IsFiniteSet(0 .. n - 1) /\ Cardinality(0 .. n - 1) = n
  BY FS_Interval
<1>2. /\ IsFiniteSet(ready) /\ Cardinality(ready) <= n
      /\ Cardinality(0 .. n - 1) = Cardinality(ready) => 0 .. n - 1 = ready
  BY <1>1, FS_Subset
<1>3. Cardinality(ready) \in Nat
  BY <1>2, FS_CardinalityType
<1> QED
  BY <1>1, <1>2, <1>3

\* A stored part is never removed.
LEMMA ObjectsStay ==
    ASSUME TypeOK, [Next]_vars
    PROVE  \A p \in Parts : object[p] # NoKey => object'[p] # NoKey
<1>1. CASE object' = object
  BY <1>1
<1>2. CASE TranscriptUploaded
  <2>1. PICK t \in tasks : object' = [object EXCEPT ![t.part] = t.key]
    BY <1>2 DEF TranscriptUploaded
  <2>2. t.key \in 1 .. MaxUploads /\ object \in [Parts -> Key]
    BY DEF TypeOK
  <2> QED
    BY <2>1, <2>2 DEF NoKey
<1>3. CASE UNCHANGED vars \/ Browser \/ EmitClaimAges \/ ReadExpiresStuck \/ SummaryEnds
  BY <1>1, <1>3 DEF vars, Upload, Browser, StartBatch, PutAudio, PreAllocateAudioKeys,
     SetAudioKeyAtIndex, RequestFails, EmitClaimAges, ReadExpiresStuck, SummaryEnds
<1>4. CASE StartTaskFails \/ MarkFailure \/ Redeliver
  BY <1>1, <1>4 DEF StartTaskFails, MarkFailure, Redeliver
<1>5. ASSUME NEW w \in Workers, Summarize(w) \/ CallFails(w) \/ Crash(w)
      PROVE  object' = object
  BY <1>5 DEF Upload, Summarize, CallFails, Crash, Invoke, Read, IncrementAudioPartsReady,
     ClaimAllPartsEmit, Emit, ReleaseAllPartsEmit, ReadAll, Capture, Merge,
     FailTranscriptSnapshot, CheckTranscriptObjects, MarkSttNoSpeech, Start, Recapture
<1> QED
  BY <1>1, <1>2, <1>3, <1>4, <1>5 DEF Next, Transcription

\* An invocation takes over a delivery, goes on with its own, or ends. It gets to the
\* emission only through the full count.
Moved(w) ==
    /\ \E x : wk' = [wk EXCEPT ![w] = x]
    /\ \/ wk'[w].pc = "idle"
       \/ /\ wk'[w].pc \notin Emitting /\ wk'[w].msg \in msgs
          /\ wk'[w].pc \in Counting => wk'[w].msg.kind = "part"
       \/ /\ Running(w) /\ wk'[w].msg = wk[w].msg
          /\ wk'[w].pc \in Counting => wk[w].pc \in Counting
          /\ \/ wk'[w].pc \notin Emitting
             \/ wk[w].pc \in Emitting /\ wk'[w].parts = wk[w].parts
             \/ /\ IncrementAudioPartsReady(w) /\ wk'[w].parts = row.parts
                /\ row.parts > 0 /\ Cardinality(row'.ready) >= row.parts
    /\ \/ msgs' \subseteq msgs
       \/ Running(w) /\ msgs' = msgs \cup {[wk[w].msg EXCEPT !.try = @ + 1]}
       \/ wk[w].pc \in Emitting /\ msgs' = msgs \cup {AllMessage(wk[w].parts)}

\* Each step of the invocation w moves it that way.
LEMMA InvocationStep ==
    ASSUME TypeOK, NEW w \in Workers, Summarize(w) \/ CallFails(w) \/ Crash(w)
    PROVE  Moved(w)
<1>1. wk \in [Workers -> Worker] /\ wk[w] \in Worker
  BY DEF TypeOK
<1>2. /\ \A s : LET x == [wk[w] EXCEPT !.pc = s]
                IN  x.pc = s /\ x.msg = wk[w].msg /\ x.parts = wk[w].parts
      /\ \A s, t : LET x == [wk[w] EXCEPT !.pc = s, !.snap = t]
                   IN  x.pc = s /\ x.msg = wk[w].msg
      /\ \A s, o : LET x == [wk[w] EXCEPT !.pc = s, !.merged = o]
                   IN  x.pc = s /\ x.msg = wk[w].msg
      /\ \A s, k : LET x == [wk[w] EXCEPT !.pc = s, !.parts = k]
                   IN  x.pc = s /\ x.msg = wk[w].msg /\ x.parts = k
  BY <1>1 DEF Worker
<1>3. Idle.pc = "idle"
  BY DEF Idle
<1>4. ASSUME Running(w), Return(w, TRUE) \/ Return(w, FALSE) PROVE Moved(w)
  BY <1>1, <1>3, <1>4, ReturnEffect DEF Moved
<1>5. ASSUME Running(w), NEW s \in Steps, Goto(w, s), s \in Emitting => wk[w].pc \in Emitting,
             s \in Counting => wk[w].pc \in Counting
      PROVE  Moved(w)
  <2>1. /\ wk' = [wk EXCEPT ![w] = [wk[w] EXCEPT !.pc = s]] /\ msgs' = msgs
        /\ wk'[w] = [wk[w] EXCEPT !.pc = s]
    BY <1>1, <1>5 DEF Goto
  <2>2. wk'[w].pc = s /\ wk'[w].msg = wk[w].msg /\ wk'[w].parts = wk[w].parts
    BY <1>1, <2>1 DEF Worker
  <2> QED
    BY <1>5, <2>1, <2>2 DEF Moved
<1>6. {"increment", "capture", "fail", "start", "recapture"} \cup Emitting \subseteq Steps
  BY DEF Steps, Emitting
<1>7. CASE Invoke(w)
  <2>1. PICK m \in msgs :
          /\ msgs' = msgs \ {m}
          /\ wk' = [wk EXCEPT ![w] = [Idle EXCEPT !.msg = m,
                       !.pc = IF m.kind = "part" THEN "read" ELSE "readAll"]]
    BY <1>7 DEF Invoke
  <2>2. /\ wk'[w].pc = IF m.kind = "part" THEN "read" ELSE "readAll"
        /\ wk'[w].msg = m
    BY <1>1, <2>1 DEF Idle
  <2>3. /\ msgs' \subseteq msgs /\ wk'[w].msg \in msgs /\ wk'[w].pc \notin Emitting
        /\ wk'[w].pc \in Counting => wk'[w].msg.kind = "part"
    BY <2>1, <2>2 DEF Emitting, Counting
  <2>4. \E x : wk' = [wk EXCEPT ![w] = x]
    BY <2>1
  <2> QED
    BY <2>3, <2>4 DEF Moved
<1>8. CASE Read(w) \/ ReadAll(w) \/ CheckTranscriptObjects(w)
  <2>1. Running(w)
    BY <1>8 DEF Read, ReadAll, CheckTranscriptObjects, Running
  <2> QED
    BY <1>4, <1>5, <1>6, <1>8, <2>1 DEF Read, ReadAll, CheckTranscriptObjects, Emitting, Counting
<1>9. CASE IncrementAudioPartsReady(w)
  <2>1. Running(w)
    BY <1>9 DEF IncrementAudioPartsReady, Running
  <2>2. CASE Return(w, TRUE)
    BY <1>4, <2>1, <2>2
  <2>3. CASE /\ Cardinality(row'.ready) >= row.parts /\ row.parts > 0
             /\ wk' = [wk EXCEPT ![w].pc = "claim", ![w].parts = row.parts] /\ msgs' = msgs
    <3>1. wk' = [wk EXCEPT ![w] = [wk[w] EXCEPT !.pc = "claim", !.parts = row.parts]]
      BY <1>1, <2>3
    <3>2. wk'[w] = [wk[w] EXCEPT !.pc = "claim", !.parts = row.parts]
      BY <1>1, <3>1
    <3>3. wk'[w].msg = wk[w].msg /\ wk'[w].parts = row.parts /\ wk'[w].pc \notin Counting
      BY <1>2, <3>2 DEF Counting
    <3> QED
      BY <1>9, <2>1, <2>3, <3>1, <3>3 DEF Moved
  <2> QED
    BY <1>9, <2>2, <2>3 DEF IncrementAudioPartsReady
<1>10. CASE ClaimAllPartsEmit(w)
  <2>1. Running(w) /\ wk[w].pc \in Emitting
    BY <1>10 DEF ClaimAllPartsEmit, Running, Emitting
  <2> QED
    BY <1>4, <1>5, <1>6, <1>10, <2>1 DEF ClaimAllPartsEmit, Emitting, Counting
<1>11. CASE Emit(w)
  <2>1. Running(w) /\ wk[w].pc \in Emitting
    BY <1>11 DEF Emit, Running, Emitting
  <2>2. PICK x \in {[wk[w] EXCEPT !.pc = "release"], Idle} : wk' = [wk EXCEPT ![w] = x]
    BY <1>1, <1>11 DEF Emit
  <2>3. wk'[w] = x
    BY <1>1, <2>2
  <2>4. \/ wk'[w].pc = "idle"
        \/ /\ wk'[w].msg = wk[w].msg /\ wk'[w].parts = wk[w].parts
           /\ wk'[w].pc = "release"
    <3>1. CASE x = Idle
      BY <1>3, <2>3, <3>1
    <3>2. CASE x = [wk[w] EXCEPT !.pc = "release"]
      BY <1>1, <2>3, <3>2 DEF Worker
    <3> QED
      BY <2>2, <3>1, <3>2
  <2> QED
    BY <1>11, <2>1, <2>2, <2>4 DEF Moved, Emit, Counting
<1>12. CASE Capture(w)
  <2>1. Running(w)
    BY <1>12 DEF Capture, Running
  <2>2. ASSUME /\ wk' = [wk EXCEPT ![w].pc = "merge", ![w].snap = Captured(row)]
               /\ msgs' = msgs
        PROVE  Moved(w)
    <3>1. wk' = [wk EXCEPT ![w] = [wk[w] EXCEPT !.pc = "merge", !.snap = Captured(row)]]
      BY <1>1, <2>2
    <3>2. wk'[w].pc = "merge" /\ wk'[w].msg = wk[w].msg
      BY <1>1, <1>2, <3>1
    <3> QED
      BY <2>1, <2>2, <3>1, <3>2 DEF Moved, Emitting, Counting
  <2> QED
    BY <1>4, <1>12, <2>1, <2>2 DEF Capture
<1>13. CASE Merge(w)
  <2>1. Running(w)
    BY <1>13 DEF Merge, Running
  <2>2. ASSUME wk' = [wk EXCEPT ![w].pc = "check", ![w].merged = object], msgs' = msgs
        PROVE  Moved(w)
    <3>1. wk' = [wk EXCEPT ![w] = [wk[w] EXCEPT !.pc = "check", !.merged = object]]
      BY <1>1, <2>2
    <3>2. wk'[w].pc = "check" /\ wk'[w].msg = wk[w].msg
      BY <1>1, <1>2, <3>1
    <3> QED
      BY <2>1, <2>2, <3>1, <3>2 DEF Moved, Emitting, Counting
  <2> QED
    BY <1>5, <1>6, <1>13, <2>1, <2>2 DEF Merge, Emitting, Counting
<1>14. CASE \/ ReleaseAllPartsEmit(w) \/ FailTranscriptSnapshot(w) \/ MarkSttNoSpeech(w)
            \/ Recapture(w) \/ Crash(w)
  <2>1. Running(w) /\ (Return(w, TRUE) \/ Return(w, FALSE))
    BY <1>14 DEF ReleaseAllPartsEmit, FailTranscriptSnapshot, MarkSttNoSpeech, Recapture,
       Crash, Running, Return
  <2> QED
    BY <1>4, <2>1
<1>15. CASE Start(w)
  <2>1. Running(w)
    BY <1>15 DEF Start, Running
  <2> QED
    BY <1>4, <1>5, <1>6, <1>15, <2>1 DEF Start, Emitting, Counting
<1>16. CASE CallFails(w)
  <2>1. /\ Running(w)
        /\ \/ Return(w, TRUE) \/ Return(w, FALSE)
           \/ Goto(w, "release") /\ wk[w].pc = "emit"
           \/ Goto(w, "fail")
    BY <1>16 DEF CallFails
  <2> QED
    BY <1>4, <1>5, <1>6, <2>1 DEF Emitting, Counting
<1> QED
  BY <1>7, <1>8, <1>9, <1>10, <1>11, <1>12, <1>13, <1>14, <1>15, <1>16 DEF Summarize

\* The counted parts of a row below n, and what a completed count therefore says.
LEMMA CountIsStored ==
    ASSUME TypeOK, NEW n \in Nat, EmitInv(n), row.parts = n,
           NEW p \in Parts, object[p] # NoKey, Cardinality(Counted(row.ready, p)) >= n
    PROVE  StoredTo(object, n)
<1>1. row.ready \subseteq Parts /\ Parts \subseteq Nat /\ p < n
  BY RowMoves, Constants DEF TypeOK, EmitInv
<1>2. \A q \in Counted(row.ready, p) : q \in Parts /\ object[q] # NoKey /\ q < n
  BY <1>1 DEF EmitInv, Counted
<1>3. Counted(row.ready, p) \subseteq 0 .. n - 1
  <2>1. \A q \in Nat : q < n => q \in 0 .. n - 1
    OBVIOUS
  <2> QED
    BY <1>1, <1>2, <2>1
<1>4. Counted(row.ready, p) = 0 .. n - 1
  BY <1>3, AllCounted
<1>5. ASSUME NEW q \in Parts, q < n PROVE object[q] # NoKey
  BY <1>1, <1>2, <1>4, <1>5
<1> QED
  BY <1>5 DEF StoredTo

\* What a delivery says stays true.
LEMMA TruthStays ==
    ASSUME TypeOK, [Next]_vars, NEW n, NEW m \in Message, Truthful(object, m, n)
    PROVE  Truthful(object', m, n)
<1>1. m.part \in Parts
  BY DEF Message
<1>2. \A k : StoredTo(object, k) => StoredTo(object', k)
  BY ObjectsStay DEF StoredTo
<1> QED
  BY <1>1, <1>2, ObjectsStay DEF Truthful

\* Batches, slots, tasks and stored parts stay below n.
LEMMA SizesStep ==
    ASSUME TypeOK, [Next]_vars, NEW n \in Nat, PartCounts = {n}, EmitInv(n)
    PROVE  /\ client'.parts \in {0, n} /\ row'.parts \in {0, n}
           /\ \A p \in client'.todo : p < n
           /\ \A t \in tasks' : t.part < n
           /\ \A p \in Parts : object'[p] # NoKey => p < n
<1> DEFINE Small ==
        /\ client'.parts \in {0, n} /\ row'.parts \in {0, n}
        /\ \A p \in client'.todo : p < n
        /\ \A t \in tasks' : t.part < n
        /\ \A p \in Parts : object'[p] # NoKey => p < n
<1>1. /\ client.parts \in {0, n} /\ row.parts \in {0, n}
      /\ \A p \in client.todo : p < n
      /\ \A t \in tasks : t.part < n
      /\ \A p \in Parts : object[p] # NoKey => p < n
  BY DEF EmitInv
<1>2. /\ \A s : [row EXCEPT !.status = s].parts = row.parts
      /\ \A e : [row EXCEPT !.emitted = e].parts = row.parts
      /\ \A S : [row EXCEPT !.ready = S].parts = row.parts
      /\ \A f, s : [row EXCEPT !.keys = f, !.status = s].parts = row.parts
  BY DEF TypeOK, Row
<1>3. ASSUME UNCHANGED <<client, row, tasks, object>> PROVE Small
  BY <1>1, <1>3
<1>4. ASSUME row'.parts = row.parts, UNCHANGED <<client, object>>, tasks' \subseteq tasks
      PROVE  Small
  BY <1>1, <1>4
<1>5. CASE StartBatch
  <2>1. client' = [client EXCEPT !.batch = @ + 1, !.parts = n, !.todo = 0 .. n - 1,
                                 !.first = uploads + 1]
    BY <1>5 DEF StartBatch
  <2>2. client'.parts = n /\ client'.todo = 0 .. n - 1
    BY <2>1 DEF TypeOK, Client
  <2>3. \A p \in client'.todo : p < n
    BY <2>2
  <2> QED
    BY <1>1, <1>5, <2>2, <2>3 DEF StartBatch
<1>6. CASE PutAudio
  <2>1. PICK p \in client.todo :
          /\ tasks' = tasks \cup {[part |-> p, key |-> uploads + 1]}
          /\ client' = [client EXCEPT !.step = "allocate", !.part = p, !.key = uploads + 1]
    BY <1>6 DEF PutAudio
  <2>2. client'.parts = client.parts /\ client'.todo = client.todo
    BY <2>1 DEF TypeOK, Client
  <2> QED
    BY <1>1, <1>6, <2>1, <2>2 DEF PutAudio
<1>7. CASE PreAllocateAudioKeys
  <2>1. client'.parts = client.parts /\ client'.todo = client.todo
    BY <1>7 DEF PreAllocateAudioKeys, TypeOK, Client
  <2>2. row' = row \/ row'.parts = client.parts
    BY <1>7 DEF PreAllocateAudioKeys, FreshBatch
  <2> QED
    BY <1>1, <1>7, <2>1, <2>2 DEF PreAllocateAudioKeys
<1>8. CASE SetAudioKeyAtIndex
  <2>1. \/ client' = [client EXCEPT !.step = "idle"]
        \/ \E done : client' = [client EXCEPT !.step = "idle", !.todo = @ \ done]
    BY <1>8 DEF SetAudioKeyAtIndex
  <2>2. client'.parts = client.parts /\ client'.todo \subseteq client.todo
    <3>1. CASE client' = [client EXCEPT !.step = "idle"]
      BY <3>1 DEF TypeOK, Client
    <3>2. ASSUME NEW done, client' = [client EXCEPT !.step = "idle", !.todo = @ \ done]
          PROVE  client'.parts = client.parts /\ client'.todo \subseteq client.todo
      BY <3>2 DEF TypeOK, Client
    <3> QED
      BY <2>1, <3>1, <3>2
  <2>3. row'.parts = row.parts
    <3>1. [row EXCEPT !.keys[client.part] = client.key, !.status = "transcribing"].parts
             = row.parts
      BY DEF TypeOK, Row
    <3> QED
      BY <1>8, <3>1 DEF SetAudioKeyAtIndex
  <2> QED
    BY <1>1, <1>8, <2>2, <2>3 DEF SetAudioKeyAtIndex
<1>9. CASE RequestFails
  <2>1. client'.parts = client.parts /\ client'.todo = client.todo
    BY <1>9 DEF RequestFails, TypeOK, Client
  <2> QED
    BY <1>1, <1>9, <2>1 DEF RequestFails
<1>10. CASE StartTaskFails
  <2>1. row'.parts = row.parts /\ tasks' \subseteq tasks
    BY <1>2, <1>10 DEF StartTaskFails
  <2> QED
    BY <1>4, <1>10, <2>1 DEF StartTaskFails
<1>11. CASE MarkFailure
  <2>1. row'.parts = row.parts /\ tasks' \subseteq tasks
    BY <1>2, <1>11 DEF MarkFailure
  <2> QED
    BY <1>4, <1>11, <2>1 DEF MarkFailure
<1>12. CASE TranscriptUploaded
  <2>1. PICK t \in tasks : /\ tasks' = tasks \ {t}
                           /\ object' = [object EXCEPT ![t.part] = t.key]
    BY <1>12 DEF TranscriptUploaded
  <2>2. t.part < n /\ object \in [Parts -> Key]
    BY <1>1 DEF TypeOK
  <2>3. \A p \in Parts : object'[p] # NoKey => p < n
    BY <1>1, <2>1, <2>2
  <2> QED
    BY <1>1, <1>12, <2>1, <2>3 DEF TranscriptUploaded
<1>13. CASE Redeliver \/ UNCHANGED vars
  BY <1>3, <1>13 DEF Redeliver, vars
<1>14. CASE EmitClaimAges \/ ReadExpiresStuck \/ SummaryEnds
  <2>1. row'.parts = row.parts
    BY <1>2, <1>14 DEF EmitClaimAges, ReadExpiresStuck, SummaryEnds
  <2> QED
    BY <1>4, <1>14, <2>1 DEF EmitClaimAges, ReadExpiresStuck, SummaryEnds, Upload
<1>15. ASSUME NEW w \in Workers, Summarize(w) \/ CallFails(w) \/ Crash(w)
       PROVE  Small
  <2>1. row'.parts = row.parts
    <3>1. CASE \/ IncrementAudioPartsReady(w) \/ ClaimAllPartsEmit(w)
               \/ ReleaseAllPartsEmit(w)
      BY <1>2, <3>1 DEF IncrementAudioPartsReady, ClaimAllPartsEmit, ReleaseAllPartsEmit
    <3>2. CASE FailTranscriptSnapshot(w) \/ MarkSttNoSpeech(w) \/ Start(w)
      BY <1>2, <3>2 DEF FailTranscriptSnapshot, MarkSttNoSpeech, Start
    <3>3. CASE row' = row
      BY <3>3
    <3> QED
      BY <1>15, <3>1, <3>2, <3>3 DEF Summarize, Invoke, Read, Emit, ReadAll, Capture, Merge,
         CheckTranscriptObjects, Recapture, CallFails, Crash
  <2>2. UNCHANGED <<client, object, tasks>>
    BY <1>15 DEF Upload, Summarize, CallFails, Crash, Invoke, Read, IncrementAudioPartsReady,
       ClaimAllPartsEmit, Emit, ReleaseAllPartsEmit, ReadAll, Capture, Merge,
       FailTranscriptSnapshot, CheckTranscriptObjects, MarkSttNoSpeech, Start, Recapture
  <2> QED
    BY <1>4, <2>1, <2>2
<1> QED
  BY <1>5, <1>6, <1>7, <1>8, <1>9, <1>10, <1>11, <1>12, <1>13, <1>14, <1>15
  DEF Next, Browser, Transcription

\* A part is counted after it was stored.
LEMMA ReadyStep ==
    ASSUME TypeOK, [Next]_vars, NEW n \in Nat, PartCounts = {n}, EmitInv(n)
    PROVE  \A p \in row'.ready : object'[p] # NoKey
<1>1. /\ \A p \in row.ready : p \in Parts /\ object[p] # NoKey
      /\ \A p \in row.ready : object'[p] # NoKey
  BY ObjectsStay, RowMoves DEF TypeOK, EmitInv
<1>2. /\ \A s : [row EXCEPT !.status = s].ready = row.ready
      /\ \A e : [row EXCEPT !.emitted = e].ready = row.ready
      /\ \A S : [row EXCEPT !.ready = S].ready = S
      /\ [row EXCEPT !.keys[client.part] = client.key, !.status = "transcribing"].ready
            = row.ready
  BY DEF TypeOK, Row
<1>3. CASE row'.ready \subseteq row.ready
  BY <1>1, <1>3
<1>4. CASE Browser
  <2>1. row' = row \/ row' = FreshBatch(client.parts) \/ row'.ready = row.ready
    BY <1>2, <1>4 DEF Browser, StartBatch, PutAudio, PreAllocateAudioKeys, SetAudioKeyAtIndex,
       RequestFails
  <2> QED
    BY <1>3, <2>1 DEF FreshBatch
<1>5. CASE Transcription
  <2>1. row'.ready = row.ready
    BY <1>2, <1>5 DEF Transcription, StartTaskFails, MarkFailure, TranscriptUploaded, Redeliver
  <2> QED
    BY <1>3, <2>1
<1>6. CASE EmitClaimAges \/ ReadExpiresStuck \/ SummaryEnds \/ UNCHANGED vars
  <2>1. row'.ready = row.ready
    BY <1>2, <1>6 DEF EmitClaimAges, ReadExpiresStuck, SummaryEnds, vars
  <2> QED
    BY <1>3, <2>1
<1>7. ASSUME NEW w \in Workers, Summarize(w) \/ CallFails(w) \/ Crash(w),
             ~IncrementAudioPartsReady(w)
      PROVE  row'.ready = row.ready
  <2>1. CASE ClaimAllPartsEmit(w) \/ ReleaseAllPartsEmit(w)
    BY <1>2, <2>1 DEF ClaimAllPartsEmit, ReleaseAllPartsEmit
  <2>2. CASE FailTranscriptSnapshot(w) \/ MarkSttNoSpeech(w) \/ Start(w)
    BY <1>2, <2>2 DEF FailTranscriptSnapshot, MarkSttNoSpeech, Start
  <2>3. CASE row' = row
    BY <2>3
  <2> QED
    BY <1>7, <2>1, <2>2, <2>3 DEF Summarize, Invoke, Read, Emit, ReadAll, Capture, Merge,
       CheckTranscriptObjects, Recapture, CallFails, Crash
<1>8. ASSUME NEW w \in Workers, IncrementAudioPartsReady(w)
      PROVE  \A p \in row'.ready : object'[p] # NoKey
  <2>1. row' = [row EXCEPT !.ready = Counted(@, wk[w].msg.part)] /\ object' = object
    BY <1>8 DEF IncrementAudioPartsReady, Upload
  <2>2. row'.ready = row.ready \cup {wk[w].msg.part}
    BY <1>2, <2>1 DEF Counted
  <2>3. object[wk[w].msg.part] # NoKey
    <3>1. Truthful(object, wk[w].msg, n)
      BY <1>8 DEF IncrementAudioPartsReady, EmitInv, Running
    <3>2. wk[w].msg.kind = "part"
      BY <1>8 DEF IncrementAudioPartsReady, EmitInv, Counting
    <3> QED
      BY <3>1, <3>2 DEF Truthful
  <2> QED
    BY <1>1, <2>1, <2>2, <2>3
<1> QED
  BY <1>3, <1>4, <1>5, <1>6, <1>7, <1>8 DEF Next

\* What deliveries and invocations say stays true.
LEMMA DeliveriesStep ==
    ASSUME TypeOK, [Next]_vars, NEW n \in Nat, PartCounts = {n}, EmitInv(n)
    PROVE  /\ \A m \in msgs' : Truthful(object', m, n)
           /\ \A v \in Workers : wk'[v].pc # "idle" => Truthful(object', wk'[v].msg, n)
           /\ \A v \in Workers : wk'[v].pc \in Counting => wk'[v].msg.kind = "part"
           /\ \A v \in Workers : wk'[v].pc \in Emitting => StoredTo(object', wk'[v].parts)
<1> DEFINE Kept(x) ==
        /\ x.pc # "idle" => Truthful(object', x.msg, n)
        /\ x.pc \in Counting => x.msg.kind = "part"
        /\ x.pc \in Emitting => StoredTo(object', x.parts)
<1>1. /\ msgs \subseteq Message
      /\ \A v \in Workers : wk[v] \in Worker /\ wk[v].msg \in Message
  BY DEF TypeOK, Worker
<1>2. \A m \in msgs : Truthful(object', m, n)
  BY <1>1, TruthStays DEF EmitInv
<1>3. \A k : StoredTo(object, k) => StoredTo(object', k)
  BY ObjectsStay DEF StoredTo
<1>4. ASSUME NEW v \in Workers PROVE Kept(wk[v])
  BY <1>1, <1>3, TruthStays DEF EmitInv, Running
<1>5. CASE msgs' \subseteq msgs /\ wk' = wk
  BY <1>2, <1>4, <1>5 DEF Running
<1>6. ASSUME NEW p \in Parts, object'[p] # NoKey, p < n, wk' = wk,
             msgs' = msgs \cup {PartMessage(p, 0)}
      PROVE  (\A m \in msgs' : Truthful(object', m, n)) /\ \A v \in Workers : Kept(wk'[v])
  <2>1. Truthful(object', PartMessage(p, 0), n)
    BY <1>6 DEF Truthful, PartMessage
  <2> QED
    BY <1>2, <1>4, <1>6, <2>1
<1>7. CASE TranscriptUploaded
  <2>1. PICK t \in tasks : /\ object' = [object EXCEPT ![t.part] = t.key]
                           /\ msgs' = msgs \cup {PartMessage(t.part, 0)}
    BY <1>7 DEF TranscriptUploaded
  <2>2. t.part \in Parts /\ t.key # NoKey /\ t.part < n /\ object \in [Parts -> Key]
    BY DEF TypeOK, NoKey, EmitInv
  <2>3. object'[t.part] # NoKey /\ wk' = wk
    BY <1>7, <2>1, <2>2 DEF TranscriptUploaded
  <2> QED
    BY <1>6, <2>1, <2>2, <2>3 DEF Running
<1>8. CASE Redeliver
  <2>1. PICK p \in Parts : object[p] # NoKey /\ msgs' = msgs \cup {PartMessage(p, 0)}
    BY <1>8 DEF Redeliver
  <2>2. object'[p] # NoKey /\ p < n /\ wk' = wk
    BY <1>8, <2>1 DEF Redeliver, EmitInv
  <2> QED
    BY <1>6, <2>1, <2>2 DEF Running
<1>9. ASSUME NEW w \in Workers, Summarize(w) \/ CallFails(w) \/ Crash(w)
      PROVE  (\A m \in msgs' : Truthful(object', m, n)) /\ \A v \in Workers : Kept(wk'[v])
  <2>1. Moved(w)
    BY <1>9, InvocationStep
  <2>2. \A v \in Workers \ {w} : wk'[v] = wk[v]
    BY <2>1 DEF Moved, TypeOK
  <2>3. \A m \in msgs' : Truthful(object', m, n)
    <3>1. ASSUME Running(w) PROVE Truthful(object', [wk[w].msg EXCEPT !.try = @ + 1], n)
      <4>1. Truthful(object', wk[w].msg, n) /\ wk[w].msg \in Message
        BY <1>1, <1>4, <3>1 DEF Running
      <4>2. LET m == [wk[w].msg EXCEPT !.try = @ + 1]
            IN  m.kind = wk[w].msg.kind /\ m.part = wk[w].msg.part /\ m.parts = wk[w].msg.parts
        BY <4>1 DEF Message
      <4> QED
        BY <4>1, <4>2 DEF Truthful
    <3>2. ASSUME wk[w].pc \in Emitting PROVE Truthful(object', AllMessage(wk[w].parts), n)
      BY <1>4, <3>2 DEF Truthful, AllMessage
    <3> QED
      BY <1>2, <2>1, <3>1, <3>2 DEF Moved
  <2>4. Kept(wk'[w])
    <3>1. wk'[w].pc # "idle" => Truthful(object', wk'[w].msg, n)
      BY <1>2, <1>4, <2>1 DEF Moved, Running
    <3>2. wk'[w].pc \in Counting => wk'[w].msg.kind = "part"
      BY <1>4, <2>1 DEF Moved, Counting
    <3>3. ASSUME IncrementAudioPartsReady(w), row.parts > 0, Cardinality(row'.ready) >= row.parts
          PROVE  StoredTo(object', row.parts)
      <4>1. row.parts = n
        BY <3>3 DEF EmitInv
      <4>2. /\ wk[w].msg.part \in Parts
            /\ object[wk[w].msg.part] # NoKey
        BY <1>1, <3>3 DEF IncrementAudioPartsReady, EmitInv, Running, Truthful, Counting, Message
      <4>3. row'.ready = Counted(row.ready, wk[w].msg.part)
        BY <3>3 DEF IncrementAudioPartsReady, TypeOK, Row
      <4> QED
        BY <1>3, <3>3, <4>1, <4>2, <4>3, CountIsStored
    <3>4. wk'[w].pc \in Emitting => StoredTo(object', wk'[w].parts)
      BY <1>4, <2>1, <3>3 DEF Moved, Emitting
    <3> QED
      BY <3>1, <3>2, <3>4
  <2> QED
    BY <1>4, <2>2, <2>3, <2>4
<1>10. CASE Browser \/ StartTaskFails \/ MarkFailure
  BY <1>5, <1>10 DEF Browser, StartBatch, PutAudio, PreAllocateAudioKeys, SetAudioKeyAtIndex,
     RequestFails, StartTaskFails, MarkFailure
<1>11. CASE EmitClaimAges \/ ReadExpiresStuck \/ SummaryEnds \/ UNCHANGED vars
  BY <1>5, <1>11 DEF EmitClaimAges, ReadExpiresStuck, SummaryEnds, vars
<1> QED
  BY <1>7, <1>8, <1>9, <1>10, <1>11 DEF Next, Transcription, Running

\* With batches of one size the invariant is inductive.
LEMMA EmitInvHolds == ASSUME NEW CONSTANT n, PartCounts = {n} PROVE Spec => []EmitInv(n)
<1>0. n \in Nat /\ 2 <= n
  OBVIOUS
<1>1. Init => EmitInv(n)
  BY <1>0 DEF Init, EmitInv, FreshRow, NoKeys, Idle, Running, Counting, Emitting
<1>2. TypeOK /\ EmitInv(n) /\ [Next]_vars => EmitInv(n)'
  <2> SUFFICES ASSUME TypeOK, EmitInv(n), [Next]_vars PROVE EmitInv(n)'
    OBVIOUS
  <2>1. /\ client'.parts \in {0, n} /\ row'.parts \in {0, n}
        /\ \A p \in client'.todo : p < n
        /\ \A t \in tasks' : t.part < n
        /\ \A p \in Parts : object'[p] # NoKey => p < n
    BY <1>0, SizesStep
  <2>2. \A p \in row'.ready : object'[p] # NoKey
    BY <1>0, ReadyStep
  <2>3. /\ \A m \in msgs' : Truthful(object', m, n)
        /\ \A v \in Workers : wk'[v].pc # "idle" => Truthful(object', wk'[v].msg, n)
        /\ \A v \in Workers : wk'[v].pc \in Counting => wk'[v].msg.kind = "part"
        /\ \A v \in Workers : wk'[v].pc \in Emitting => StoredTo(object', wk'[v].parts)
    BY <1>0, DeliveriesStep
  <2> QED
    BY <2>1, <2>2, <2>3 DEF EmitInv, Running
<1> QED
  BY <1>1, <1>2, TypeCorrect, PTL DEF Spec

\* When all batches of a meeting have the same size, AllPartsTranscribed is only sent for
\* parts whose transcripts are stored (main.go:529-560): whatever is redelivered, put
\* again, re-initialized or retried, and for any number of concurrent invocations.
THEOREM EmissionIsComplete ==
    ASSUME NEW CONSTANT n, PartCounts = {n} PROVE Spec => []EmitComplete
<1>1. EmitInv(n) => EmitComplete
  BY DEF EmitInv, EmitComplete, Truthful, StoredTo
<1> QED
  BY <1>1, EmitInvHolds, PTL
=============================================================================
