------------------------ MODULE MeetingSummary_proofs ------------------------
(***************************************************************************)
(* Theorems about MeetingSummary for any number of invocations, any retry  *)
(* limits and all durations that satisfy DurationAssumption.               *)
(***************************************************************************)
EXTENDS MeetingSummary, TLAPS

USE BoundAssumption, DurationAssumption

-----------------------------------------------------------------------------
(* What the shared calls do to an invocation and to the row. *)

\* The constant records have their types.
LEMMA Constants ==
    /\ NoText \in Text /\ NoHash \in Text /\ NoClaim \in Nat
    /\ FreshRow \in Row /\ LegacyRow \in Row /\ Idle \in Worker
<1>1. NoText \in Text /\ NoHash \in Text /\ <<"asr", 1>> \in Text /\ NoClaim \in Nat
  BY DEF Text, NoText, NoHash, NoClaim
<1>2. FreshRow \in Row
  BY <1>1 DEF FreshRow, Row, Statuses
<1>3. LegacyRow \in Row
  BY <1>1, <1>2 DEF LegacyRow, Row, Statuses
<1>4. Idle \in Worker
  BY <1>1, <1>2 DEF Idle, Worker, Statuses, Steps
<1> QED
  BY <1>1, <1>2, <1>3, <1>4

\* The parts of the type invariant that arithmetic needs.
LEMMA Facts ==
    ASSUME TypeOK
    PROVE  /\ claimAge \in Nat /\ idle \in Nat /\ lastClaim \in Nat
           /\ row \in Row /\ row.claim \in Nat /\ row.status \in Statuses
           /\ row.pending \in BOOLEAN /\ row.attempts \in Nat /\ row.audio \in Nat
           /\ \A w \in Workers : wk[w].age \in Nat /\ wk[w].mine \in Nat
  BY DEF TypeOK, Row, Worker

\* Goto only moves the program counter of the invocation.
LEMMA GotoEffect ==
    ASSUME TypeOK, NEW w \in Workers, NEW s \in Steps, Goto(w, s)
    PROVE  /\ wk' \in [Workers -> Worker] /\ msgs' = msgs
           /\ \A v \in Workers \ {w} : wk'[v] = wk[v]
           /\ wk'[w].pc = s /\ wk'[w].mine = wk[w].mine /\ wk'[w].age = wk[w].age
           /\ wk'[w].snap = wk[w].snap /\ wk'[w].seen = wk[w].seen
  BY DEF TypeOK, Goto, Worker

\* Own keeps the age and drops everything but the claim it is given.
LEMMA OwnEffect ==
    ASSUME TypeOK, NEW w \in Workers, NEW s \in Steps, NEW c \in Nat, NEW e \in BOOLEAN,
           Own(w, s, c, e)
    PROVE  /\ wk' \in [Workers -> Worker]
           /\ \A v \in Workers \ {w} : wk'[v] = wk[v]
           /\ wk'[w].pc = s /\ wk'[w].mine = c /\ wk'[w].age = wk[w].age
  <1>1. wk' \in [Workers -> Worker]
    BY Constants DEF TypeOK, Own, Worker
  <1> QED
    BY <1>1 DEF TypeOK, Own, Idle

\* Leave goes to the release call with the claim the invocation wrote.
LEMMA LeaveEffect ==
    ASSUME TypeOK, NEW w \in Workers, NEW e \in BOOLEAN, Leave(w, e)
    PROVE  /\ wk' \in [Workers -> Worker] /\ msgs' = msgs
           /\ \A v \in Workers \ {w} : wk'[v] = wk[v]
           /\ wk'[w].pc = "release" /\ wk'[w].mine = wk[w].mine
           /\ wk'[w].age = wk[w].age
  <1>1. wk[w].mine \in Nat /\ "release" \in Steps
    BY DEF TypeOK, Worker, Steps
  <1> QED
    BY <1>1, OwnEffect DEF Leave

\* Return forgets the invocation and never redelivers past the limit.
LEMMA ReturnEffect ==
    ASSUME TypeOK, NEW w \in Workers, Return(w, TRUE) \/ Return(w, FALSE)
    PROVE  /\ wk' \in [Workers -> Worker]
           /\ msgs' \subseteq [etag : Nat, try : 0 .. AsyncRetries]
           /\ \A v \in Workers \ {w} : wk'[v] = wk[v]
           /\ wk'[w].pc = "idle" /\ wk'[w].mine = NoClaim /\ wk'[w].age = 0
  <1>1. wk' = [wk EXCEPT ![w] = Idle]
    BY DEF Return
  <1>2. msgs' \subseteq [etag : Nat, try : 0 .. AsyncRetries]
    BY DEF TypeOK, Return, Message, Worker
  <1> QED
    BY <1>1, <1>2, Constants DEF TypeOK, Idle

\* Invoke starts from the read step, without a claim.
LEMMA InvokeEffect ==
    ASSUME TypeOK, NEW w \in Workers, Invoke(w)
    PROVE  /\ \A v \in Workers \ {w} : wk'[v] = wk[v]
           /\ wk'[w].pc = "read" /\ wk'[w].mine = NoClaim /\ wk'[w].age = 0
<1>1. PICK m : wk' = [wk EXCEPT ![w] = [Idle EXCEPT !.pc = "read", !.etag = m.etag,
                                                    !.try = m.try]]
  BY DEF Invoke
<1>2. DOMAIN wk = Workers
  BY DEF TypeOK
<1>3. wk'[w] = [Idle EXCEPT !.pc = "read", !.etag = m.etag, !.try = m.try]
  BY <1>1, <1>2
<1>4. /\ wk'[w].pc = "read" /\ wk'[w].mine = NoClaim /\ wk'[w].age = 0
  BY <1>3 DEF Idle
<1> QED
  BY <1>1, <1>2, <1>4

\* Changing status, audio, marker and claim keeps the row's type.
LEMMA RowMoves ==
    ASSUME NEW r \in Row, NEW s \in Statuses, NEW p \in BOOLEAN, NEW c \in Nat
    PROVE  /\ [r EXCEPT !.status = s] \in Row
           /\ [r EXCEPT !.status = s, !.audio = c] \in Row
           /\ [r EXCEPT !.claim = c] \in Row
           /\ [r EXCEPT !.claim = c, !.pending = p] \in Row
           /\ [r EXCEPT !.status = s, !.pending = p, !.claim = c] \in Row
  BY DEF Row
-----------------------------------------------------------------------------
(* Type correctness. *)

\* Each step of an invocation keeps the types of the row and of the claim.
LEMMA RowType ==
    ASSUME TypeOK, NEW w \in Workers, Summarize(w)
    PROVE  row' \in Row
<1> USE Facts, Constants
<1>0. "error" \in Statuses /\ "done" \in Statuses /\ "summarizing" \in Statuses
  BY DEF Statuses
<1>1. ASSUME NEW new \in Row, WriteClaim(new) PROVE row' \in Row
  <2>1. lastClaim + 1 \in Nat
    OBVIOUS
  <2> QED
    BY <1>1, <2>1, RowMoves DEF WriteClaim
<1>2. CASE ClaimSummaryRetry(w)
  <2>1. RetryLeft => [row EXCEPT !.attempts = @ + 1] \in Row
    BY DEF Row, RetryLeft
  <2> QED
    BY <1>1, <1>2, <2>1 DEF ClaimSummaryRetry, Kept
<1>3. CASE Expire(w)
  BY <1>0, <1>3, RowMoves DEF Expire, ExpireSummaryRetry, Set
<1>4. CASE ClaimSummarizeRetry(w)
  BY <1>1, <1>4 DEF ClaimSummarizeRetry, Kept
<1>5. CASE FailTranscriptSnapshot(w) \/ MarkSttNoSpeech(w)
  <2>1. row' = row \/ row' = [row EXCEPT !.status = "error"]
    BY <1>5 DEF FailTranscriptSnapshot, MarkSttNoSpeech, Write, Set, Kept
  <2>2. [row EXCEPT !.status = "error"] \in Row
    BY <1>0 DEF Row
  <2> QED
    BY <2>1, <2>2
<1>6. ASSUME NEW t \in Text, StartTranscriptSummary(w, t) PROVE row' \in Row
  <2>1. wk[w].snap.content \in Text /\ 0 \in 0 .. MaxSummaryRetries
    BY DEF TypeOK, Worker, Row
  <2>2. [row EXCEPT !.status = "summarizing", !.pending = TRUE, !.attempts = 0,
                    !.hash = wk[w].snap.content, !.transcript = t] \in Row
    BY <1>0, <2>1 DEF Row
  <2> QED
    BY <1>1, <1>6, <2>2 DEF StartTranscriptSummary
<1>7. CASE Start(w)
  <2>1. <<"asr", wk[w].etag>> \in Text
    BY DEF TypeOK, Worker, Text
  <2> QED
    BY <1>6, <1>7, <2>1 DEF Start, Kept
<1>8. CASE Restart(w)
  <2>1. row.transcript \in Text
    BY DEF Row
  <2> QED
    BY <1>6, <1>8, <2>1 DEF Restart, Kept
<1>9. Finished(row) \in Row
  BY <1>0, RowMoves DEF Finished
<1>10. CASE Preserve(w)
  BY <1>9, <1>10 DEF Preserve, Write, Set, Kept
<1>11. CASE Publish(w)
  <2>1. <<"auto", wk[w].mine>> \in Text /\ 0 \in 0 .. MaxSummaryRetries
    BY DEF Text
  <2>2. [Finished(row) EXCEPT !.attempts = 0, !.content = <<"auto", wk[w].mine>>] \in Row
    BY <1>9, <2>1 DEF Row
  <2> QED
    BY <1>11, <2>2 DEF Publish, Write, Set, Kept
<1>12. CASE MarkSummaryConflict(w)
  <2>1. ASSUME NEW x \in BOOLEAN,
               row' = [row EXCEPT !.pending = ~x, !.claim = NoClaim,
                                  !.status = IF x THEN "error" ELSE @]
        PROVE  row' \in Row
    <3>1. CASE x
      BY <1>0, <2>1, <3>1 DEF Row
    <3>2. CASE ~x
      BY <2>1, <3>2 DEF Row
    <3> QED
      BY <3>1, <3>2
  <2>2. (wk[w].snap.attempts >= MaxSummaryRetries) \in BOOLEAN
    OBVIOUS
  <2> QED
    BY <1>12, <2>1, <2>2 DEF MarkSummaryConflict, Write, Set, Kept
<1>13. CASE ReleaseSummaryRetryClaim(w)
  <2>1. ASSUME NEW x \in BOOLEAN,
               row' = [row EXCEPT !.claim = NoClaim, !.pending = x,
                                  !.status = IF x THEN @ ELSE "error"]
        PROVE  row' \in Row
    <3>1. CASE x
      BY <2>1, <3>1 DEF Row
    <3>2. CASE ~x
      BY <1>0, <2>1, <3>2 DEF Row
    <3> QED
      BY <3>1, <3>2
  <2>2. CASE row' = [row EXCEPT !.claim = NoClaim, !.pending = FALSE]
    BY <2>2, RowMoves
  <2>3. RetryLeft \in BOOLEAN
    BY DEF RetryLeft
  <2> QED
    BY <1>13, <2>1, <2>2, <2>3 DEF ReleaseSummaryRetryClaim, Write, Set, Kept
<1> QED
  BY <1>2, <1>3, <1>4, <1>5, <1>7, <1>8, <1>10, <1>11, <1>12, <1>13
     DEF Summarize, Read, Reread, Verify, Capture, Download, HandleNoSpeech,
         CheckTranscriptObjects, Recapture, Begun, Snapshot, Kept

\* Each step of an invocation keeps the types of its local state and of the
\* waiting deliveries.
LEMMA WorkerType ==
    ASSUME TypeOK, NEW w \in Workers,
           Invoke(w) \/ Summarize(w) \/ CallFails(w) \/ Crash(w)
    PROVE  /\ wk' \in [Workers -> Worker]
           /\ msgs' \subseteq [etag : Nat, try : 0 .. AsyncRetries]
<1> USE Facts, Constants
<1> DEFINE Good == /\ wk' \in [Workers -> Worker]
                   /\ msgs' \subseteq [etag : Nat, try : 0 .. AsyncRetries]
<1>1. msgs \subseteq [etag : Nat, try : 0 .. AsyncRetries]
  BY DEF TypeOK
<1>2. ASSUME Return(w, TRUE) \/ Return(w, FALSE) PROVE Good
  BY <1>2, ReturnEffect
<1>3. ASSUME Leave(w, TRUE) \/ Leave(w, FALSE) PROVE Good
  BY <1>1, <1>3, LeaveEffect
<1>4. ASSUME NEW s \in Steps, Goto(w, s) PROVE Good
  BY <1>1, <1>4, GotoEffect
<1>5. ASSUME NEW s \in Steps, NEW e \in BOOLEAN, Own(w, s, lastClaim + 1, e),
             UNCHANGED msgs
      PROVE  Good
  BY <1>1, <1>5, OwnEffect
<1>6. CASE Invoke(w)
  <2>1. PICK m \in msgs :
           /\ msgs' = msgs \ {m}
           /\ wk' = [wk EXCEPT ![w] = [Idle EXCEPT !.pc = "read", !.etag = m.etag,
                                                   !.try = m.try]]
    BY <1>6 DEF Invoke
  <2>2. [Idle EXCEPT !.pc = "read", !.etag = m.etag, !.try = m.try] \in Worker
    BY <1>1 DEF Worker, Steps
  <2> QED
    BY <1>1, <2>1, <2>2 DEF TypeOK
<1>7. CASE ClaimSummaryRetry(w)
  BY <1>4, <1>5, <1>7 DEF ClaimSummaryRetry, Steps
<1>8. CASE Verify(w) \/ Begun(w)
  BY <1>3, <1>4, <1>8 DEF Verify, Begun, Steps
<1>9. ASSUME NEW t, StartTranscriptSummary(w, t) PROVE Good
  BY <1>2, <1>5, <1>9 DEF StartTranscriptSummary, Steps
<1>10. CASE Start(w)
  BY <1>4, <1>9, <1>10 DEF Start, Steps
<1>11. CASE Restart(w)
  BY <1>2, <1>9, <1>11 DEF Restart
<1>12. CASE Snapshot(w)
  <2>1. ASSUME NEW s \in Steps, wk' = [wk EXCEPT ![w].snap = row, ![w].pc = s]
        PROVE  wk' \in [Workers -> Worker]
    BY <2>1 DEF TypeOK, Worker
  <2>2. (IF row.hash # row.content THEN "preserve" ELSE "generate") \in Steps
    BY DEF Steps
  <2> QED
    BY <1>1, <1>3, <1>12, <2>1, <2>2 DEF Snapshot
<1>13. CASE Preserve(w)
  BY <1>2, <1>3, <1>13 DEF Preserve
<1>14. CASE Publish(w)
  BY <1>2, <1>3, <1>4, <1>14 DEF Publish, Steps
<1>15. CASE MarkSummaryConflict(w) \/ ReleaseSummaryRetryClaim(w)
  <2>1. wk[w].err \in BOOLEAN
    BY DEF TypeOK, Worker
  <2> QED
    BY <1>2, <1>3, <1>15, <2>1 DEF MarkSummaryConflict, ReleaseSummaryRetryClaim
<1>16. CASE CallFails(w) \/ Crash(w)
  BY <1>2, <1>3, <1>16 DEF CallFails, Crash
<1>17. CASE Read(w)
  BY <1>17 DEF Read, TypeOK, Worker, Steps, Goto, Return, Message
<1>18. CASE Expire(w) \/ Reread(w)
  BY <1>2, <1>4, <1>18 DEF Expire, Reread, Steps
<1>19. CASE ClaimSummarizeRetry(w)
  <2>1. ASSUME NEW s \in Steps, NEW c \in Nat,
               wk' = [wk EXCEPT ![w].pc = s, ![w].mine = c]
        PROVE  wk' \in [Workers -> Worker]
    BY <2>1 DEF TypeOK, Worker
  <2>2. "capture" \in Steps /\ lastClaim + 1 \in Nat
    BY DEF Steps
  <2>3. CASE Return(w, TRUE) \/ Return(w, FALSE)
    BY <1>2, <2>3
  <2>4. CASE /\ wk' = [wk EXCEPT ![w].pc = "capture", ![w].mine = lastClaim + 1]
             /\ UNCHANGED msgs
    BY <1>1, <2>1, <2>2, <2>4
  <2> QED
    BY <1>19, <2>3, <2>4 DEF ClaimSummarizeRetry
<1>20. CASE Capture(w)
  <2>1. ASSUME NEW s \in Steps, NEW r \in Row, NEW n \in Nat,
               wk' = [wk EXCEPT ![w].pc = s, ![w].snap = r, ![w].edits = n]
        PROVE  wk' \in [Workers -> Worker]
    BY <2>1 DEF TypeOK, Worker
  <2>2. "download" \in Steps /\ edits \in Nat
    BY DEF Steps, TypeOK
  <2> QED
    BY <1>1, <1>2, <1>20, <2>1, <2>2 DEF Capture
<1>21. CASE Download(w)
  BY <1>2, <1>4, <1>21 DEF Download, Steps
<1>22. CASE FailTranscriptSnapshot(w) \/ MarkSttNoSpeech(w)
  BY <1>2, <1>22 DEF FailTranscriptSnapshot, MarkSttNoSpeech
<1>23. CASE HandleNoSpeech(w) \/ CheckTranscriptObjects(w)
  BY <1>2, <1>4, <1>23 DEF HandleNoSpeech, CheckTranscriptObjects, Steps
<1>24. CASE Recapture(w)
  <2>1. BatchSource(wk[w].snap) \in Row
    BY DEF BatchSource, TypeOK, Worker, Row
  <2>2. ASSUME NEW s \in Steps, NEW r \in Row,
               wk' = [wk EXCEPT ![w].pc = s, ![w].snap = r]
        PROVE  wk' \in [Workers -> Worker]
    BY <2>2 DEF TypeOK, Worker
  <2>3. "restart" \in Steps
    BY DEF Steps
  <2> QED
    BY <1>1, <1>2, <1>24, <2>1, <2>2, <2>3 DEF Recapture
<1> QED
  BY <1>6, <1>7, <1>8, <1>10, <1>11, <1>12, <1>13, <1>14, <1>15, <1>16, <1>17,
     <1>18, <1>19, <1>20, <1>21, <1>22, <1>23, <1>24 DEF Summarize

\* Each step of an invocation keeps the types of the ages and of the histories.
LEMMA AgesType ==
    ASSUME TypeOK, NEW w \in Workers,
           Invoke(w) \/ Summarize(w) \/ CallFails(w) \/ Crash(w)
    PROVE  /\ claimAge' \in Nat /\ idle' \in Nat /\ lastClaim' \in Nat
           /\ object' = object /\ editor' = editor /\ events' = events
           /\ edits' \in Nat /\ baseEdits' \in Nat /\ gens' \in Nat
<1> USE Facts DEF Kept, History, World
<1>1. edits \in Nat /\ baseEdits \in Nat /\ gens \in Nat /\ wk[w].edits \in Nat
  BY DEF TypeOK, Worker
<1>2. ASSUME NEW new, Set(new) PROVE claimAge' \in Nat /\ lastClaim' \in Nat
  BY <1>2 DEF Set
<1>3. ASSUME NEW new, Write(new)
      PROVE  claimAge' \in Nat /\ lastClaim' \in Nat /\ idle' \in Nat
  BY <1>2, <1>3 DEF Write
<1>4. ASSUME NEW new, WriteClaim(new)
      PROVE  claimAge' \in Nat /\ lastClaim' \in Nat /\ idle' \in Nat
  BY <1>4 DEF WriteClaim
<1>5. CASE Invoke(w) \/ CallFails(w) \/ Crash(w)
  BY <1>1, <1>5 DEF Invoke, CallFails, Crash
<1>6. ASSUME NEW t, StartTranscriptSummary(w, t)
      PROVE  /\ claimAge' \in Nat /\ lastClaim' \in Nat /\ idle' \in Nat
             /\ edits' \in Nat /\ baseEdits' \in Nat /\ gens' \in Nat
             /\ UNCHANGED World
  BY <1>1, <1>4, <1>6 DEF StartTranscriptSummary
<1>7. CASE Start(w) \/ Restart(w)
  BY <1>1, <1>6, <1>7 DEF Start, Restart
<1>8. CASE Expire(w)
  BY <1>1, <1>2, <1>8 DEF Expire, ExpireSummaryRetry
<1>9. CASE ClaimSummaryRetry(w) \/ ClaimSummarizeRetry(w)
  BY <1>1, <1>4, <1>9 DEF ClaimSummaryRetry, ClaimSummarizeRetry
<1>10. CASE \/ FailTranscriptSnapshot(w) \/ MarkSttNoSpeech(w) \/ Preserve(w)
            \/ Publish(w) \/ MarkSummaryConflict(w)
  BY <1>1, <1>3, <1>10 DEF FailTranscriptSnapshot, MarkSttNoSpeech, Preserve, Publish,
     MarkSummaryConflict
<1>11. CASE ReleaseSummaryRetryClaim(w)
  BY <1>1, <1>2, <1>3, <1>11 DEF ReleaseSummaryRetryClaim
<1>12. CASE Snapshot(w)
  <2>1. gens' \in {gens, gens + 1}
    BY <1>12 DEF Snapshot
  <2>2. UNCHANGED <<Kept, World, edits, baseEdits>>
    BY <1>12 DEF Snapshot
  <2> QED
    BY <1>1, <2>1, <2>2
<1>13. CASE \/ Read(w) \/ Reread(w) \/ Verify(w) \/ Capture(w) \/ Download(w)
            \/ HandleNoSpeech(w) \/ CheckTranscriptObjects(w) \/ Recapture(w) \/ Begun(w)
  BY <1>1, <1>13 DEF Read, Reread, Verify, Capture, Download, HandleNoSpeech,
     CheckTranscriptObjects, Recapture, Begun
<1> QED
  BY <1>5, <1>7, <1>8, <1>9, <1>10, <1>11, <1>12, <1>13 DEF Summarize

\* The row's other writers keep every type.
LEMMA EnvironmentType ==
    ASSUME TypeOK, Transcription \/ Owner \/ DetailRead PROVE TypeOK'
<1> USE Facts, Constants DEF Kept, History, World
<1>1. /\ wk \in [Workers -> Worker] /\ editor \in BOOLEAN /\ events \in Nat
      /\ edits \in Nat /\ baseEdits \in Nat /\ gens \in Nat
      /\ object \in [etag : Nat, speech : BOOLEAN]
      /\ msgs \subseteq [etag : Nat, try : 0 .. AsyncRetries]
  BY DEF TypeOK
<1>2. "error" \in Statuses /\ "transcribing" \in Statuses
  BY DEF Statuses
<1>3. ASSUME NEW new \in Row, Set(new)
      PROVE  row' \in Row /\ claimAge' \in Nat /\ lastClaim' \in Nat
  BY <1>3 DEF Set
<1>4. ASSUME NEW new \in Row, Write(new)
      PROVE  row' \in Row /\ claimAge' \in Nat /\ lastClaim' \in Nat /\ idle' \in Nat
  BY <1>3, <1>4 DEF Write
<1>5. Spend => events' \in Nat
  BY <1>1 DEF Spend
<1>6. CASE TranscriptUploaded
  <2>1. /\ object.etag + 1 \in Nat /\ 0 \in 0 .. AsyncRetries
        /\ object' \in [etag : Nat, speech : BOOLEAN]
    BY <1>1, <1>6 DEF TranscriptUploaded
  <2>2. msgs' \subseteq [etag : Nat, try : 0 .. AsyncRetries]
    BY <1>1, <1>6, <2>1 DEF TranscriptUploaded, Message
  <2> QED
    BY <1>1, <1>6, <2>1, <2>2 DEF TranscriptUploaded, TypeOK
<1>7. CASE Redeliver
  BY <1>1, <1>5, <1>7 DEF Redeliver, Message, TypeOK
<1>8. CASE MarkFailure \/ StartTaskFails
  BY <1>1, <1>2, <1>4, <1>5, <1>8, RowMoves DEF MarkFailure, StartTaskFails, TypeOK
<1>9. CASE RediarizeMeeting
  <2>1. PICK a \in {row.audio, row.audio + 1} :
           Write([row EXCEPT !.status = "transcribing", !.audio = a])
    BY <1>9 DEF RediarizeMeeting
  <2>2. a \in Nat
    OBVIOUS
  <2>3. [row EXCEPT !.status = "transcribing", !.audio = a] \in Row
    BY <1>2, <2>2, RowMoves
  <2> QED
    BY <1>1, <1>4, <1>5, <1>9, <2>1, <2>3 DEF RediarizeMeeting, TypeOK
<1>10. CASE BindMeetingAudioKey
  <2>1. row.audio + 1 \in Nat
    OBVIOUS
  <2>2. [row EXCEPT !.status = "transcribing", !.audio = row.audio + 1] \in Row
    BY <1>2, <2>1, RowMoves
  <2> QED
    BY <1>1, <1>4, <1>5, <1>10, <2>2 DEF BindMeetingAudioKey, TypeOK
<1>11. CASE EditContent \/ UpdateSpeakers
  <2>1. <<"human", events + 1>> \in Text
    BY <1>1 DEF Text
  <2>2. ASSUME NEW t \in Text
        PROVE  /\ [row EXCEPT !.content = t] \in Row /\ [row EXCEPT !.transcript = t] \in Row
               /\ [row EXCEPT !.transcript = t, !.content = t] \in Row
    BY <2>2 DEF Row
  <2> DEFINE t == <<"human", events + 1>>
  <2> HIDE DEF t
  <2>3. /\ [row EXCEPT !.content = t] \in Row /\ [row EXCEPT !.transcript = t] \in Row
        /\ [row EXCEPT !.transcript = t, !.content = t] \in Row
    BY <2>1, <2>2 DEF t
  <2>4. CASE EditContent
    <3>1. Write([row EXCEPT !.content = t]) /\ edits' = edits + 1 /\ Spend
          /\ UNCHANGED <<msgs, wk, object, editor, baseEdits, gens>>
      BY <2>4 DEF EditContent, t
    <3> QED
      BY <1>1, <1>4, <1>5, <2>3, <3>1 DEF TypeOK
  <2>5. CASE UpdateSpeakers
    <3>1. /\ \/ Write([row EXCEPT !.transcript = t])
             \/ Write([row EXCEPT !.transcript = t, !.content = t])
          /\ edits' \in {edits, edits + 1} /\ Spend
          /\ UNCHANGED <<msgs, wk, object, editor, baseEdits, gens>>
      BY <2>5 DEF UpdateSpeakers, t
    <3> QED
      BY <1>1, <1>4, <1>5, <2>3, <3>1 DEF TypeOK
  <2> QED
    BY <1>11, <2>4, <2>5
<1>12. CASE CheckTranscriptEdit
  BY <1>1, <1>5, <1>12 DEF CheckTranscriptEdit, TypeOK
<1>13. CASE EditTranscript
  <2>1. <<"human", events>> \in Text
    BY <1>1 DEF Text
  <2>2. [row EXCEPT !.transcript = <<"human", events>>] \in Row
    BY <2>1 DEF Row
  <2> QED
    BY <1>1, <1>4, <1>13, <2>2 DEF EditTranscript, TypeOK
<1>14. CASE ReadExpiresRetry
  BY <1>1, <1>2, <1>3, <1>14, RowMoves DEF ReadExpiresRetry, ExpireSummaryRetry, TypeOK
<1>15. CASE ReadExpiresStuck
  BY <1>1, <1>2, <1>4, <1>15, RowMoves DEF ReadExpiresStuck, TypeOK
<1>16. CASE SaveRecording
  BY <1>1, <1>2, <1>4, <1>5, <1>16, RowMoves DEF SaveRecording, TypeOK
<1> QED
  BY <1>16, <1>6, <1>7, <1>8, <1>9, <1>10, <1>11, <1>12, <1>13, <1>14, <1>15
     DEF Transcription, Owner, DetailRead

\* Time keeps every type.
LEMMA TickType == ASSUME TypeOK, Tick PROVE TypeOK'
<1>1. wk' \in [Workers -> Worker]
  BY DEF Tick, TypeOK, Worker
<1> QED
  BY <1>1, Facts DEF Tick, TypeOK, World, History

\* Every variable keeps its type, for any constants (a step of the program never
\* leaves the states the source's types and conditions describe): in particular no
\* batch is retried more than MaxSummaryRetries times.
THEOREM TypeCorrect == Spec => []TypeOK
<1>1. Init => TypeOK
  <2> SUFFICES ASSUME Init PROVE TypeOK
    OBVIOUS
  <2>1. row \in Row /\ object \in [etag : Nat, speech : BOOLEAN]
    <3>1. CASE row = FreshRow /\ object = [etag |-> 0, speech |-> FALSE]
      BY <3>1, Constants
    <3>2. CASE row = LegacyRow /\ object = [etag |-> 1, speech |-> TRUE]
      BY <3>2, Constants
    <3> QED
      BY <3>1, <3>2 DEF Init
  <2>2. wk \in [Workers -> Worker]
    BY Constants DEF Init
  <2> QED
    BY <2>1, <2>2 DEF Init, TypeOK
<1>2. TypeOK /\ [Next]_vars => TypeOK'
  <2> SUFFICES ASSUME TypeOK, [Next]_vars PROVE TypeOK'
    OBVIOUS
  <2>1. ASSUME NEW w \in Workers, Invoke(w) \/ Summarize(w) \/ CallFails(w) \/ Crash(w)
        PROVE  TypeOK'
    <3>1. row' \in Row
      BY <2>1, RowType DEF Invoke, CallFails, Crash, Kept, TypeOK
    <3> QED
      BY <2>1, <3>1, WorkerType, AgesType DEF TypeOK
  <2>2. CASE Tick
    BY <2>2, TickType
  <2>3. CASE Transcription \/ Owner \/ DetailRead
    BY <2>3, EnvironmentType
  <2>4. CASE UNCHANGED vars
    BY <2>4 DEF vars, TypeOK
  <2> QED
    BY <2>1, <2>2, <2>3, <2>4 DEF Next
<1> QED
  BY <1>1, <1>2, PTL DEF Spec
-----------------------------------------------------------------------------
(* The lease. *)

\* A step that takes no claim and does not enter the preparation of a batch keeps
\* the lease invariant: it may drop claims and restart ages.
LEMMA Quiet ==
    ASSUME TypeOK, LeaseInv, NEW w \in Workers,
           \A v \in Workers \ {w} : wk'[v] = wk[v],
           lastClaim' = lastClaim, row'.claim \in {row.claim, NoClaim},
           claimAge' \in {claimAge, 0}, idle' \in {idle, 0},
           Legacy(row') => Legacy(row) /\ row'.claim = row.claim,
           wk'[w].mine \in {wk[w].mine, NoClaim}, wk'[w].age \in {wk[w].age, 0},
           wk'[w].mine # NoClaim => wk'[w].pc # "idle" /\ wk'[w].age = wk[w].age,
           wk'[w].pc \in Releasing => wk'[w].mine # NoClaim,
           wk'[w].pc \notin Preparing,
           wk'[w].pc \in {"preserve", "generate", "conflict"} =>
              wk'[w].snap.claim = wk'[w].mine
    PROVE  LeaseInv'
<1> USE Facts DEF NoClaim
<1>1. Owned'
  <2>1. row'.claim <= lastClaim'
    BY DEF LeaseInv, Owned
  <2>2. ASSUME NEW v \in Workers
        PROVE  wk'[v].mine <= lastClaim' /\ (wk'[v].mine # NoClaim => wk'[v].pc # "idle")
    BY <2>2 DEF LeaseInv, Owned, Running
  <2>3. ASSUME NEW v \in Workers, wk'[v].mine # NoClaim PROVE wk'[v].mine = wk[v].mine
    BY <2>3
  <2>4. ASSUME NEW u \in Workers, NEW v \in Workers,
               wk'[u].mine = wk'[v].mine, wk'[u].mine # NoClaim
        PROVE  u = v
    BY <2>3, <2>4 DEF LeaseInv, Owned
  <2> QED
    BY <2>1, <2>2, <2>4 DEF Owned, Running
<1>2. Young'
  <2>1. ASSUME NEW v \in Workers PROVE wk'[v].age <= LambdaTimeout
    BY DEF LeaseInv, Young
  <2>2. ASSUME NEW v \in Workers, Holds(v)'
        PROVE  claimAge' <= wk'[v].age /\ idle' <= wk'[v].age
    <3>1. Holds(v) /\ wk'[v].age = wk[v].age
      BY <2>2 DEF Holds, Running, LeaseInv, Owned
    <3> QED
      BY <3>1 DEF LeaseInv, Young
  <2> QED
    BY <2>1, <2>2 DEF Young
<1>3. Fenced'
  <2>1. ASSUME NEW v \in Workers, v # w, wk'[v].pc \in Preparing,
               wk'[v].seen = "summarizing", Legacy(row')
        PROVE  wk'[v].mine # NoClaim /\ row'.claim = wk'[v].mine
    BY <2>1 DEF LeaseInv, Fenced
  <2> QED
    BY <2>1 DEF LeaseInv, Fenced, Legacy
<1> QED
  BY <1>1, <1>2, <1>3 DEF LeaseInv

\* Taking a new claim keeps the lease invariant when the row it leaves behind
\* carries the retry marker or the invocation goes on preparing a legacy row.
LEMMA Takes ==
    ASSUME TypeOK, LeaseInv, NEW w \in Workers, Running(w),
           \A v \in Workers \ {w} : wk'[v] = wk[v],
           lastClaim' = lastClaim + 1, row'.claim = lastClaim + 1,
           claimAge' = 0, idle' = 0, ~Legacy(row'),
           wk'[w].mine \in {lastClaim + 1, NoClaim}, wk'[w].age \in {wk[w].age, 0},
           wk'[w].mine # NoClaim => wk'[w].pc # "idle",
           wk'[w].pc \in Releasing => wk'[w].mine # NoClaim,
           wk'[w].pc \notin Preparing,
           wk'[w].pc \notin {"preserve", "generate", "conflict"}
    PROVE  LeaseInv'
<1> USE Facts DEF NoClaim
<1>1. Owned'
  <2>1. row'.claim <= lastClaim'
    OBVIOUS
  <2>2. ASSUME NEW v \in Workers
        PROVE  wk'[v].mine <= lastClaim' /\ (wk'[v].mine # NoClaim => wk'[v].pc # "idle")
    BY <2>2 DEF LeaseInv, Owned, Running
  <2>3. ASSUME NEW v \in Workers, v # w, wk'[v].mine # NoClaim
        PROVE  wk'[v].mine = wk[v].mine /\ wk[v].mine <= lastClaim
    BY <2>3 DEF LeaseInv, Owned
  <2>4. ASSUME NEW u \in Workers, NEW v \in Workers,
               wk'[u].mine = wk'[v].mine, wk'[u].mine # NoClaim
        PROVE  u = v
    BY <2>3, <2>4 DEF LeaseInv, Owned
  <2> QED
    BY <2>1, <2>2, <2>4 DEF Owned, Running
<1>2. Young'
  <2>1. ASSUME NEW v \in Workers PROVE wk'[v].age <= LambdaTimeout /\ wk'[v].age \in Nat
    BY DEF LeaseInv, Young
  <2>2. claimAge' <= 0 /\ idle' <= 0
    OBVIOUS
  <2> QED
    BY <2>1, <2>2 DEF Young
<1>3. Fenced'
  BY DEF LeaseInv, Fenced, Legacy
<1> QED
  BY <1>1, <1>2, <1>3 DEF LeaseInv

\* The steps that only leave, or go on with a claim already taken.
LEMMA LeaseQuiet ==
    ASSUME TypeOK, LeaseInv, NEW w \in Workers,
           \/ Verify(w) \/ Begun(w) \/ Preserve(w) \/ Publish(w)
           \/ MarkSummaryConflict(w) \/ ReleaseSummaryRetryClaim(w)
           \/ CallFails(w) \/ Crash(w)
    PROVE  LeaseInv'
<1> USE Facts
<1> DEFINE RowQuiet == /\ lastClaim' = lastClaim /\ row'.claim \in {row.claim, NoClaim}
                       /\ claimAge' \in {claimAge, 0} /\ idle' \in {idle, 0}
                       /\ Legacy(row') => Legacy(row) /\ row'.claim = row.claim
<1>1. wk[w].pc \in Releasing => wk[w].mine # NoClaim
  BY DEF LeaseInv, Fenced
<1>2. ASSUME Return(w, TRUE) \/ Return(w, FALSE), RowQuiet PROVE LeaseInv'
  BY <1>2, ReturnEffect, Quiet DEF Preparing, Releasing
<1>3. ASSUME Leave(w, TRUE) \/ Leave(w, FALSE), RowQuiet PROVE LeaseInv'
  BY <1>3, LeaveEffect, Quiet DEF Preparing, Releasing
<1>4. ASSUME Goto(w, "snapshot") \/ Goto(w, "conflict"), wk[w].pc \in Releasing, RowQuiet,
             wk[w].pc = "generate" \/ Goto(w, "snapshot")
      PROVE  LeaseInv'
  <2>1. CASE Goto(w, "snapshot")
    BY <1>1, <1>4, <2>1, GotoEffect, Quiet DEF Preparing, Releasing, Steps
  <2>2. CASE Goto(w, "conflict") /\ wk[w].pc = "generate"
    <3>1. wk[w].snap.claim = wk[w].mine
      BY <2>2 DEF LeaseInv, Fenced
    <3> QED
      BY <1>1, <1>4, <2>2, <3>1, GotoEffect, Quiet DEF Preparing, Releasing, Steps
  <2> QED
    BY <1>4, <2>1, <2>2
<1>5. UNCHANGED Kept => RowQuiet
  BY DEF Kept
<1>6. CASE Verify(w) \/ Begun(w)
  BY <1>3, <1>4, <1>5, <1>6 DEF Verify, Begun, Releasing
<1>7. ASSUME NEW r, Write(r), r.claim \in {row.claim, NoClaim},
             ~Legacy(r)
      PROVE  RowQuiet
  BY <1>7 DEF Write, Set
<1>8. CASE Preserve(w)
  <2>1. Finished(row).claim = NoClaim /\ ~Legacy(Finished(row))
    BY DEF Finished, Row, Legacy
  <2> QED
    BY <1>2, <1>3, <1>5, <1>7, <1>8, <2>1 DEF Preserve
<1>9. CASE Publish(w)
  <2> DEFINE new == [Finished(row) EXCEPT !.attempts = 0, !.content = <<"auto", wk[w].mine>>]
  <2>1. new.claim = NoClaim /\ ~Legacy(new)
    BY DEF Finished, Row, Legacy
  <2>2. CASE SameSummaryFence(wk[w].snap)
    BY <1>2, <1>3, <1>7, <1>9, <2>1, <2>2 DEF Publish
  <2>3. CASE Goto(w, "conflict") /\ UNCHANGED Kept
    BY <1>4, <1>5, <1>9, <2>3 DEF Publish, Releasing
  <2> QED
    BY <1>9, <2>2, <2>3 DEF Publish
<1>10. CASE MarkSummaryConflict(w)
  <2>1. ASSUME NEW x \in BOOLEAN,
               Write([row EXCEPT !.pending = ~x, !.claim = NoClaim,
                                 !.status = IF x THEN "error" ELSE @])
        PROVE  RowQuiet
    <3> DEFINE new == [row EXCEPT !.pending = ~x, !.claim = NoClaim,
                                  !.status = IF x THEN "error" ELSE @]
    <3>1. new.claim = NoClaim /\ ~Legacy(new)
      BY DEF Row, Legacy
    <3> QED
      BY <1>7, <2>1, <3>1
  <2>2. (wk[w].snap.attempts >= MaxSummaryRetries) \in BOOLEAN
    OBVIOUS
  <2>3. Leave(w, TRUE)
    BY <1>10 DEF MarkSummaryConflict
  <2>4. RowQuiet
    BY <1>5, <1>10, <2>1, <2>2 DEF MarkSummaryConflict
  <2> QED
    BY <1>3, <2>3, <2>4
<1>11. CASE ReleaseSummaryRetryClaim(w)
  <2>1. ASSUME NEW x \in BOOLEAN,
               Write([row EXCEPT !.claim = NoClaim, !.pending = x,
                                 !.status = IF x THEN @ ELSE "error"])
        PROVE  RowQuiet
    <3> DEFINE new == [row EXCEPT !.claim = NoClaim, !.pending = x,
                                  !.status = IF x THEN @ ELSE "error"]
    <3>1. new.claim = NoClaim /\ ~Legacy(new)
      BY DEF Row, Legacy
    <3> QED
      BY <1>7, <2>1, <3>1
  <2>2. ASSUME row.status # "summarizing", UNCHANGED idle,
               Set([row EXCEPT !.claim = NoClaim, !.pending = FALSE])
        PROVE  RowQuiet
    <3> DEFINE new == [row EXCEPT !.claim = NoClaim, !.pending = FALSE]
    <3>1. new.claim = NoClaim /\ ~Legacy(new)
      BY <2>2 DEF Row, Legacy
    <3>2. row' = new
      BY <2>2 DEF Set
    <3> HIDE DEF new
    <3> QED
      BY <2>2, <3>1, <3>2 DEF Set
  <2>3. RowQuiet
    <3> HIDE DEF RowQuiet
    <3>1. RetryLeft \in BOOLEAN
      BY DEF RetryLeft
    <3> QED
      BY <1>5, <1>11, <2>1, <2>2, <3>1 DEF ReleaseSummaryRetryClaim
  <2>4. Return(w, TRUE) \/ Return(w, FALSE)
    <3>1. wk[w].err \in BOOLEAN
      BY DEF TypeOK, Worker
    <3> QED
      BY <1>11, <3>1 DEF ReleaseSummaryRetryClaim
  <2> QED
    BY <1>2, <2>3, <2>4
<1>12. CASE CallFails(w) \/ Crash(w)
  BY <1>2, <1>3, <1>5, <1>12 DEF CallFails, Crash
<1> QED
  BY <1>6, <1>8, <1>9, <1>10, <1>11, <1>12

\* The steps that take the claim of a batch.
LEMMA LeaseTakes ==
    ASSUME TypeOK, LeaseInv, NEW w \in Workers,
           ClaimSummaryRetry(w) \/ Start(w) \/ Restart(w)
    PROVE  LeaseInv'
<1> USE Facts
<1>0. ASSUME NEW s \in {"release", "verify", "begun"}, NEW e \in BOOLEAN,
             Own(w, s, lastClaim + 1, e), Running(w),
             lastClaim' = lastClaim + 1, row'.claim = lastClaim + 1,
             claimAge' = 0, idle' = 0, ~Legacy(row')
      PROVE  LeaseInv'
  <2>1. s \in Steps /\ lastClaim + 1 \in Nat
    BY DEF Steps
  <2>2. /\ \A v \in Workers \ {w} : wk'[v] = wk[v]
        /\ wk'[w].pc = s /\ wk'[w].mine = lastClaim + 1 /\ wk'[w].age = wk[w].age
    BY <1>0, <2>1, OwnEffect
  <2>3. lastClaim + 1 # NoClaim /\ s # "idle" /\ s \notin Preparing
        /\ s \notin {"preserve", "generate", "conflict"}
    BY DEF NoClaim, Preparing
  <2> QED
    BY <1>0, <2>2, <2>3, Takes
<1>1. CASE ClaimSummaryRetry(w)
  <2>1. CASE Goto(w, "expire") /\ UNCHANGED Kept
    BY <2>1, GotoEffect, Quiet, <1>1 DEF Kept, Preparing, Releasing, Steps, ClaimSummaryRetry,
       LeaseInv, Owned, Running
  <2>2. CASE WriteClaim([row EXCEPT !.attempts = @ + 1]) /\ row.pending
    <3>1. PICK lost \in BOOLEAN :
             Own(w, IF lost THEN "release" ELSE "verify", lastClaim + 1, lost)
      BY <1>1, <2>2 DEF ClaimSummaryRetry, WriteClaim, Kept
    <3>2. PICK s \in {"release", "verify"} : Own(w, s, lastClaim + 1, lost)
      BY <3>1
    <3>3. lastClaim' = lastClaim + 1 /\ row'.claim = lastClaim + 1 /\ claimAge' = 0
          /\ idle' = 0 /\ ~Legacy(row')
      BY <2>2 DEF WriteClaim, Row, Legacy
    <3>4. Running(w)
      BY <1>1 DEF ClaimSummaryRetry, Running
    <3> QED
      BY <1>0, <3>2, <3>3, <3>4
  <2> QED
    BY <1>1, <2>1, <2>2 DEF ClaimSummaryRetry
<1>2. ASSUME NEW t, StartTranscriptSummary(w, t), Running(w) PROVE LeaseInv'
  <2>1. lastClaim' = lastClaim + 1 /\ row'.claim = lastClaim + 1 /\ claimAge' = 0
        /\ idle' = 0 /\ ~Legacy(row')
    BY <1>2 DEF StartTranscriptSummary, WriteClaim, Row, Legacy
  <2>2. CASE Own(w, "begun", lastClaim + 1, FALSE)
    BY <1>0, <1>2, <2>1, <2>2
  <2>3. CASE Return(w, FALSE)
    BY <1>2, <2>1, <2>3, ReturnEffect, Takes DEF Preparing, Releasing
  <2> QED
    BY <1>2, <2>2, <2>3 DEF StartTranscriptSummary
<1>3. CASE Start(w)
  <2>1. CASE Goto(w, "recapture") /\ UNCHANGED Kept
    BY <1>3, <2>1 DEF Start, Goto, Kept, Holds, Running, Preparing, Legacy, Releasing,
       TypeOK, Worker, LeaseInv, Owned, Young, Fenced
  <2> QED
    BY <1>2, <1>3, <2>1 DEF Start, Running
<1>4. CASE Restart(w)
  <2>1. CASE Return(w, FALSE) /\ UNCHANGED Kept
    BY <2>1, ReturnEffect, Quiet DEF Kept, Preparing, Releasing
  <2> QED
    BY <1>2, <1>4, <2>1 DEF Restart, Running
<1> QED
  BY <1>1, <1>3, <1>4

\* The steps that prepare a batch. Only ClaimSummarizeRetry leaves a row without the
\* retry marker under a new claim, which the invocation then carries.
LEMMA LeasePrepares ==
    ASSUME TypeOK, LeaseInv, NEW w \in Workers,
           \/ Invoke(w) \/ Read(w) \/ Expire(w) \/ Reread(w) \/ ClaimSummarizeRetry(w)
           \/ Capture(w) \/ Download(w) \/ FailTranscriptSnapshot(w) \/ HandleNoSpeech(w)
           \/ MarkSttNoSpeech(w) \/ CheckTranscriptObjects(w) \/ Recapture(w)
           \/ Snapshot(w)
    PROVE  LeaseInv'
<1> USE Facts
<1> USE DEF Kept, Holds, Running, Preparing, Releasing, Legacy, LeaseInv, Owned, Young, Fenced
<1>1. ASSUME Return(w, TRUE) \/ Return(w, FALSE), UNCHANGED Kept PROVE LeaseInv'
  BY <1>1, ReturnEffect, Quiet
<1>2. ASSUME NEW s \in Preparing \ {"capture"}, Goto(w, s), UNCHANGED Kept,
             wk[w].pc \in Preparing \ {"capture"}
      PROVE  LeaseInv'
  <2>1. s \in Steps
    BY DEF Steps
  <2>2. Owned' /\ Young'
    BY <1>2, <2>1, GotoEffect
  <2>3. Fenced'
    BY <1>2, <2>1, GotoEffect
  <2> QED
    BY <2>2, <2>3
<1>3. CASE Invoke(w)
  <2>1. UNCHANGED Kept
    BY <1>3 DEF Invoke
  <2> QED
    BY <1>3, <2>1, InvokeEffect, Quiet
<1>4. CASE Read(w)
  <2>1. CASE Goto(w, "claimRetry")
    BY <1>4, <2>1, GotoEffect, Quiet DEF Read, Steps
  <2>2. CASE Return(w, TRUE)
    BY <1>1, <1>4, <2>2 DEF Read
  <2>3. ASSUME NEW s \in {"capture", "reclaim"},
               wk' = [wk EXCEPT ![w].pc = s, ![w].seen = row.status],
               s = "capture" => row.status = "transcribing"
        PROVE  LeaseInv'
    <3>1. Owned'
      BY <1>4, <2>3 DEF Read, TypeOK, Worker
    <3>2. Young'
      BY <1>4, <2>3 DEF Read, TypeOK, Worker
    <3>3. Fenced'
      BY <1>4, <2>3 DEF Read, TypeOK, Worker
    <3> QED
      BY <3>1, <3>2, <3>3
  <2> QED
    BY <1>4, <2>1, <2>2, <2>3 DEF Read
<1>5. CASE Expire(w)
  <2>1. Goto(w, "reread") /\ UNCHANGED <<lastClaim, idle>>
    BY <1>5 DEF Expire, ExpireSummaryRetry, Set
  <2>2. row'.claim \in {row.claim, NoClaim} /\ claimAge' \in {claimAge, 0}
        /\ (Legacy(row') => Legacy(row) /\ row'.claim = row.claim)
    BY <1>5 DEF Expire, ExpireSummaryRetry, Set, Row
  <2> QED
    BY <1>5, <2>1, <2>2, GotoEffect, Quiet DEF Expire, Steps
<1>6. CASE Reread(w)
  BY <1>1, <1>6 DEF Reread
<1>7. CASE ClaimSummarizeRetry(w)
  <2>1. CASE Return(w, TRUE) /\ UNCHANGED Kept
    BY <1>1, <2>1
  <2>2. CASE /\ ClaimStale /\ WriteClaim(row)
             /\ wk' = [wk EXCEPT ![w].pc = "capture", ![w].mine = lastClaim + 1]
    <3>1. Owned'
      BY <1>7, <2>2 DEF ClaimSummarizeRetry, ClaimStale, WriteClaim, TypeOK, Worker, Row, NoClaim
    <3>2. Young'
      BY <1>7, <2>2 DEF ClaimSummarizeRetry, ClaimStale, WriteClaim, TypeOK, Worker, Row, NoClaim
    <3>3. Fenced'
      BY <1>7, <2>2 DEF ClaimSummarizeRetry, ClaimStale, WriteClaim, TypeOK, Worker, Row, NoClaim
    <3> QED
      BY <3>1, <3>2, <3>3
  <2>3. CASE /\ ClaimStale /\ WriteClaim(row) /\ wk' = [wk EXCEPT ![w] = Idle]
    <3>1. Owned'
      BY <1>7, <2>3 DEF ClaimSummarizeRetry, ClaimStale, WriteClaim, TypeOK, Idle, Row, NoClaim
    <3>2. Young'
      BY <1>7, <2>3 DEF ClaimSummarizeRetry, ClaimStale, WriteClaim, TypeOK, Idle, Row, NoClaim
    <3>3. Fenced'
      BY <1>7, <2>3 DEF ClaimSummarizeRetry, ClaimStale, WriteClaim, TypeOK, Idle, Row, NoClaim
    <3> QED
      BY <3>1, <3>2, <3>3
  <2> QED
    BY <1>7, <2>1, <2>2, <2>3 DEF ClaimSummarizeRetry, Return
<1>8. CASE Capture(w)
  <2>1. CASE Return(w, TRUE)
    BY <1>1, <1>8, <2>1 DEF Capture
  <2>2. CASE /\ row.status = wk[w].seen
             /\ wk' = [wk EXCEPT ![w].pc = "download", ![w].snap = row, ![w].edits = edits]
    <3>1. Owned'
      BY <1>8, <2>2 DEF Capture, TypeOK, Worker, Row
    <3>2. Young'
      BY <1>8, <2>2 DEF Capture, TypeOK, Worker, Row
    <3>3. Fenced'
      BY <1>8, <2>2 DEF Capture, TypeOK, Worker, Row
    <3> QED
      BY <3>1, <3>2, <3>3
  <2> QED
    BY <1>8, <2>1, <2>2 DEF Capture
<1>9. CASE Download(w)
  BY <1>1, <1>2, <1>9 DEF Download
<1>10. CASE FailTranscriptSnapshot(w) \/ MarkSttNoSpeech(w)
  BY <1>1, <1>10, ReturnEffect, Quiet
     DEF FailTranscriptSnapshot, MarkSttNoSpeech, Write, Set, Row
<1>11. CASE HandleNoSpeech(w) \/ CheckTranscriptObjects(w)
  BY <1>1, <1>2, <1>11 DEF HandleNoSpeech, CheckTranscriptObjects
<1>12. CASE Recapture(w)
  <2>1. CASE wk' = [wk EXCEPT ![w].pc = "restart", ![w].snap = BatchSource(wk[w].snap)]
    <3>1. Owned'
      BY <1>12, <2>1 DEF Recapture, BatchSource, TypeOK, Worker, Row
    <3>2. Young'
      BY <1>12, <2>1 DEF Recapture, BatchSource, TypeOK, Worker, Row
    <3>3. Fenced'
      BY <1>12, <2>1 DEF Recapture, BatchSource, TypeOK, Worker, Row
    <3> QED
      BY <3>1, <3>2, <3>3
  <2> QED
    BY <1>1, <1>12, <2>1 DEF Recapture
<1>13. CASE Snapshot(w)
  <2>1. CASE Leave(w, TRUE)
    BY <1>13, <2>1, LeaveEffect, Quiet DEF Snapshot
  <2>2. ASSUME NEW s \in {"preserve", "generate"}, row.claim = wk[w].mine,
               wk' = [wk EXCEPT ![w].snap = row, ![w].pc = s]
        PROVE  LeaseInv'
    <3>1. Owned'
      BY <1>13, <2>2 DEF Snapshot, TypeOK, Worker
    <3>2. Young'
      BY <1>13, <2>2 DEF Snapshot, TypeOK, Worker
    <3>3. Fenced'
      BY <1>13, <2>2 DEF Snapshot, TypeOK, Worker
    <3> QED
      BY <3>1, <3>2, <3>3
  <2> QED
    BY <1>13, <2>1, <2>2 DEF Snapshot
<1> QED
  BY <1>3, <1>4, <1>5, <1>6, <1>7, <1>8, <1>9, <1>10, <1>11, <1>12, <1>13

\* The row's other writers, and time.
LEMMA LeaseEnvironment ==
    ASSUME TypeOK, LeaseInv, Transcription \/ Owner \/ DetailRead \/ Tick
    PROVE  LeaseInv'
<1> USE Facts
<1> USE DEF Kept, Holds, Running, Preparing, Releasing, Legacy, LeaseInv, Owned, Young, Fenced,
            Write, Set, TypeOK, Row
<1>1. CASE TranscriptUploaded \/ Redeliver \/ CheckTranscriptEdit
  BY <1>1 DEF TranscriptUploaded, Redeliver, CheckTranscriptEdit
<1>2. CASE MarkFailure
  BY <1>2 DEF MarkFailure
<1>3. CASE StartTaskFails
  BY <1>3 DEF StartTaskFails
<1>4. CASE RediarizeMeeting
  BY <1>4 DEF RediarizeMeeting
<1>5. CASE BindMeetingAudioKey
  BY <1>5 DEF BindMeetingAudioKey
<1>6. CASE EditContent
  BY <1>6 DEF EditContent
<1>7. CASE EditTranscript
  BY <1>7 DEF EditTranscript
<1>11. CASE SaveRecording
  BY <1>11 DEF SaveRecording
<1>12. CASE UpdateSpeakers
  <2>1. /\ row'.claim = row.claim /\ row'.status = row.status /\ row'.pending = row.pending
        /\ idle' = 0 /\ claimAge' \in {claimAge, 0} /\ lastClaim' = lastClaim /\ wk' = wk
    BY <1>12 DEF UpdateSpeakers
  <2> QED
    BY <2>1
<1>8. CASE ReadExpiresRetry
  BY <1>8 DEF ReadExpiresRetry, ExpireSummaryRetry, Expirable, NoClaim
<1>9. CASE ReadExpiresStuck
  BY <1>9 DEF ReadExpiresStuck
<1>10. CASE Tick
  BY <1>10 DEF Tick, Worker
<1> QED
  BY <1>1, <1>2, <1>3, <1>4, <1>5, <1>6, <1>7, <1>8, <1>9, <1>10, <1>11, <1>12
     DEF Transcription, Owner, DetailRead

\* The lease invariant holds in every reachable state, for any number of invocations
\* and all durations with LambdaTimeout <= ClaimTTL (summary_retry.go,
\* transcript_update.go and the 15 minute timeout of the summarize Lambda).
THEOREM LeaseHolds == Spec => []LeaseInv
<1>1. Init => LeaseInv
  <2> SUFFICES ASSUME Init PROVE LeaseInv
    OBVIOUS
  <2>1. \A w \in Workers : wk[w].pc = "idle" /\ wk[w].mine = 0 /\ wk[w].age = 0
    BY DEF Init, Idle, NoClaim
  <2>2. row.claim = 0 /\ lastClaim = 0
    <3>1. FreshRow.claim = 0 /\ LegacyRow.claim = 0
      BY DEF FreshRow, LegacyRow, NoClaim
    <3> QED
      BY <3>1 DEF Init
  <2>3. Owned
    BY <2>1, <2>2 DEF Owned, NoClaim
  <2>4. Young
    BY <2>1 DEF Young, Holds, Running
  <2>5. Fenced
    BY <2>1 DEF Fenced, Preparing, Releasing
  <2> QED
    BY <2>3, <2>4, <2>5 DEF LeaseInv
<1>2. TypeOK /\ LeaseInv /\ [Next]_vars => LeaseInv'
  <2> SUFFICES ASSUME TypeOK, LeaseInv, [Next]_vars PROVE LeaseInv'
    OBVIOUS
  <2>1. ASSUME NEW w \in Workers, Invoke(w) \/ Summarize(w) \/ CallFails(w) \/ Crash(w)
        PROVE  LeaseInv'
    BY <2>1, LeaseQuiet, LeaseTakes, LeasePrepares DEF Summarize
  <2>2. CASE Tick \/ Transcription \/ Owner \/ DetailRead
    BY <2>2, LeaseEnvironment
  <2>3. CASE UNCHANGED vars
    BY <2>3 DEF vars, LeaseInv, Owned, Young, Fenced, Legacy, Holds, Running
  <2> QED
    BY <2>1, <2>2, <2>3 DEF Next
<1> QED
  BY <1>1, <1>2, TypeCorrect, PTL DEF Spec

\* A detail read never fails a summarizing row that a live invocation holds, whatever
\* the durations: the holder's age bounds the age of updatedAt (meeting.go:588-631).
THEOREM LiveBatchSafe == Spec => []LiveBatchNotExpired
<1>1. TypeOK /\ LeaseInv => LiveBatchNotExpired
  BY Facts DEF LeaseInv, Young, LiveBatchNotExpired
<1> QED
  BY <1>1, TypeCorrect, LeaseHolds, PTL

\* Every step of an invocation moves its program counter.
LEMMA StepMoves ==
    ASSUME TypeOK, NEW w \in Workers, Summarize(w)
    PROVE  wk'[w] # wk[w]
<1>1. ASSUME Return(w, TRUE) \/ Return(w, FALSE) PROVE wk'[w].pc = "idle"
  BY <1>1, ReturnEffect
<1>2. ASSUME Leave(w, TRUE) \/ Leave(w, FALSE) PROVE wk'[w].pc = "release"
  BY <1>2, LeaveEffect
<1>3. ASSUME NEW s, Goto(w, s) PROVE wk'[w].pc = s
  BY <1>3 DEF Goto, TypeOK, Worker
<1>4. ASSUME NEW s, NEW c, NEW e, Own(w, s, c, e) PROVE wk'[w].pc = s
  BY <1>4 DEF Own, Idle, TypeOK
<1>5. CASE Read(w) \/ Capture(w) \/ ClaimSummarizeRetry(w)
  <2>1. CASE Read(w)
    <3>1. DOMAIN wk = Workers /\ wk[w] \in Worker
      BY DEF TypeOK
    <3>2. ASSUME NEW s, wk' = [wk EXCEPT ![w].pc = s, ![w].seen = row.status]
          PROVE  wk'[w].pc = s
      BY <3>1, <3>2 DEF Worker
    <3> QED
      BY <1>1, <1>3, <2>1, <3>2 DEF Read
  <2>2. CASE Capture(w)
    <3>1. CASE Return(w, TRUE)
      BY <1>1, <2>2, <3>1 DEF Capture
    <3>2. CASE wk' = [wk EXCEPT ![w].pc = "download", ![w].snap = row, ![w].edits = edits]
      BY <2>2, <3>2 DEF Capture, TypeOK, Worker
    <3> QED
      BY <2>2, <3>1, <3>2 DEF Capture
  <2>3. CASE ClaimSummarizeRetry(w)
    BY <1>1, <1>3, <2>3 DEF ClaimSummarizeRetry, TypeOK, Worker
  <2> QED
    BY <1>5, <2>1, <2>2, <2>3
<1>6. CASE Recapture(w) \/ Snapshot(w)
  BY <1>1, <1>2, <1>6 DEF Recapture, Snapshot, TypeOK, Worker
<1>7. CASE \/ ClaimSummaryRetry(w) \/ Expire(w) \/ Reread(w) \/ Verify(w) \/ Download(w)
           \/ FailTranscriptSnapshot(w) \/ HandleNoSpeech(w) \/ MarkSttNoSpeech(w)
           \/ CheckTranscriptObjects(w)
  BY <1>1, <1>2, <1>3, <1>4, <1>7 DEF ClaimSummaryRetry, Expire, Reread, Verify, Download,
     FailTranscriptSnapshot, HandleNoSpeech, MarkSttNoSpeech, CheckTranscriptObjects
<1>8. CASE Start(w) \/ Restart(w) \/ Begun(w)
  BY <1>1, <1>2, <1>3, <1>4, <1>8 DEF Start, Restart, Begun, StartTranscriptSummary
<1>9. CASE Preserve(w) \/ Publish(w) \/ MarkSummaryConflict(w)
  BY <1>1, <1>2, <1>3, <1>9 DEF Preserve, Publish, MarkSummaryConflict
<1>10. CASE ReleaseSummaryRetryClaim(w)
  <2>1. wk[w].err \in BOOLEAN
    BY DEF TypeOK, Worker
  <2> QED
    BY <1>1, <1>10, <2>1 DEF ReleaseSummaryRetryClaim
<1> QED
  BY <1>5, <1>6, <1>7, <1>8, <1>9, <1>10 DEF Summarize

\* An invocation changes the claim of a summarizing row only when the claim is stale
\* or its own.
LEMMA ClaimChange ==
    ASSUME TypeOK, LeaseInv, NEW u \in Workers, Summarize(u),
           row.status = "summarizing", row'.claim # row.claim
    PROVE  ClaimStale \/ (wk[u].mine # NoClaim /\ row.claim = wk[u].mine)
<1> USE DEF Kept
<1>1. CASE ClaimSummaryRetry(u) \/ ClaimSummarizeRetry(u)
  BY <1>1 DEF ClaimSummaryRetry, ClaimSummarizeRetry
<1>2. CASE Expire(u)
  BY <1>2 DEF Expire, ExpireSummaryRetry, Expirable, Set
<1>3. ASSUME wk[u].pc \in {"start", "restart"}, Startable(wk[u].snap)
      PROVE  wk[u].mine # NoClaim /\ row.claim = wk[u].mine
  BY <1>3 DEF Startable, SameTranscriptFence, LeaseInv, Fenced, Preparing, Legacy
<1>4. CASE Start(u) \/ Restart(u)
  BY <1>3, <1>4 DEF Start, Restart
<1>5. CASE Preserve(u) \/ Publish(u) \/ MarkSummaryConflict(u)
  BY <1>5 DEF Preserve, Publish, MarkSummaryConflict, SameSummaryFence, LeaseInv, Fenced,
     Releasing
<1>6. CASE ReleaseSummaryRetryClaim(u)
  BY <1>6 DEF ReleaseSummaryRetryClaim
<1>7. CASE FailTranscriptSnapshot(u) \/ MarkSttNoSpeech(u)
  BY <1>7 DEF FailTranscriptSnapshot, MarkSttNoSpeech, Write, Set, TypeOK, Row
<1> QED
  BY <1>1, <1>2, <1>4, <1>5, <1>6, <1>7 DEF Summarize, Read, Reread, Verify, Capture,
     Download, HandleNoSpeech, CheckTranscriptObjects, Recapture, Begun, Snapshot

\* The row's other writers change the claim only when it is stale.
LEMMA ClaimKept ==
    ASSUME TypeOK, Transcription \/ Owner \/ DetailRead, row'.claim # row.claim
    PROVE  ClaimStale
<1> USE DEF Kept, Write, Set, TypeOK, Row
<1>1. CASE Transcription
  BY <1>1 DEF Transcription, TranscriptUploaded, Redeliver, MarkFailure, StartTaskFails
<1>2. CASE Owner
  BY <1>2 DEF Owner, RediarizeMeeting, BindMeetingAudioKey, SaveRecording, UpdateSpeakers, EditContent,
     CheckTranscriptEdit, EditTranscript
<1>3. CASE DetailRead
  BY <1>3 DEF DetailRead, ReadExpiresRetry, ReadExpiresStuck, Expirable
<1> QED
  BY <1>1, <1>2, <1>3

\* No step of another invocation, of an owner or of a detail read takes the claim of a
\* summarizing row away from a live holder (ClaimSummaryRetry, ClaimSummarizeRetry,
\* ExpireSummaryRetry and the fenced writes), for any number of invocations and any
\* ClaimTTL that outlasts LambdaTimeout.
THEOREM LeaseIsRespected == Spec => LeaseRespected
<1>1. TypeOK /\ LeaseInv /\ [Next]_vars =>
         [\A w \in Workers :
             /\ Holds(w) /\ row.status = "summarizing" /\ row'.claim # row.claim
             => wk'[w] # wk[w]]_vars
  <2> SUFFICES ASSUME TypeOK, LeaseInv, Next, NEW w \in Workers,
                      Holds(w), row.status = "summarizing", row'.claim # row.claim
               PROVE  wk'[w] # wk[w]
    OBVIOUS
  <2>1. ~ClaimStale
    BY Facts DEF ClaimStale, Holds, LeaseInv, Young
  <2>2. ASSUME NEW u \in Workers, Summarize(u) PROVE wk'[w] # wk[w]
    <3>1. wk[u].mine # NoClaim /\ row.claim = wk[u].mine
      BY <2>1, <2>2, ClaimChange
    <3>2. u = w
      BY <3>1 DEF Holds, LeaseInv, Owned
    <3> QED
      BY <2>2, <3>2, StepMoves
  <2>3. ASSUME NEW u \in Workers, Invoke(u) \/ CallFails(u) \/ Crash(u) PROVE FALSE
    BY <2>3 DEF Invoke, CallFails, Crash, Kept
  <2>4. CASE Tick
    BY <2>4 DEF Tick
  <2>5. CASE Transcription \/ Owner \/ DetailRead
    BY <2>1, <2>5, ClaimKept
  <2> QED
    BY <2>2, <2>3, <2>4, <2>5 DEF Next
<1> QED
  BY <1>1, TypeCorrect, LeaseHolds, PTL DEF Spec, LeaseRespected
-----------------------------------------------------------------------------
(* The cost of a batch. *)

\* An invocation spends a generation only under a claim that has not spent one.
LEMMA SpendStep ==
    ASSUME TypeOK, LeaseInv, SpendInv, NEW w \in Workers, Summarize(w)
    PROVE  SpendInv'
<1> USE Facts DEF SpendInv, GenerationsBounded
<1>0. gens \in Nat /\ row.attempts <= MaxSummaryRetries
  BY DEF TypeOK, Row
<1>1. ASSUME UNCHANGED gens,
             \/ row'.status # "summarizing"
             \/ /\ row.status = "summarizing" /\ row'.attempts = row.attempts
                /\ row'.claim \in {row.claim, NoClaim},
             \A v \in Workers \ {w} : wk'[v] = wk[v],
             wk'[w].mine \in {wk[w].mine, NoClaim},
             wk'[w].pc \in {"verify", "begun", "snapshot"} =>
                wk[w].pc \in {"verify", "begun", "snapshot"} /\ wk'[w].mine = wk[w].mine
      PROVE  SpendInv'
  <2>1. ASSUME NEW v \in Workers, wk'[v].pc \in {"verify", "begun", "snapshot"}
        PROVE  /\ wk[v].pc \in {"verify", "begun", "snapshot"} /\ wk'[v].mine = wk[v].mine
               /\ wk[v].mine # NoClaim
    BY <1>1, <2>1 DEF LeaseInv, Fenced, Releasing
  <2> QED
    BY <1>0, <1>1, <2>1
<1>2. ASSUME Return(w, TRUE) \/ Return(w, FALSE)
      PROVE  /\ \A v \in Workers \ {w} : wk'[v] = wk[v]
             /\ wk'[w].mine = NoClaim /\ wk'[w].pc = "idle"
  BY <1>2, ReturnEffect
<1>3. ASSUME Leave(w, TRUE) \/ Leave(w, FALSE)
      PROVE  /\ \A v \in Workers \ {w} : wk'[v] = wk[v]
             /\ wk'[w].mine = wk[w].mine /\ wk'[w].pc = "release"
  BY <1>3, LeaveEffect
<1>4. ASSUME NEW s \in Steps, Goto(w, s)
      PROVE  /\ \A v \in Workers \ {w} : wk'[v] = wk[v]
             /\ wk'[w].mine = wk[w].mine /\ wk'[w].pc = s
  BY <1>4, GotoEffect
<1>5. CASE Verify(w) \/ Begun(w)
  BY <1>1, <1>3, <1>4, <1>5 DEF Verify, Begun, Kept, History, Steps
<1>6. CASE Reread(w) \/ Download(w) \/ HandleNoSpeech(w) \/ CheckTranscriptObjects(w)
  BY <1>1, <1>2, <1>4, <1>6 DEF Reread, Download, HandleNoSpeech, CheckTranscriptObjects,
     Kept, History, Steps
<1>7. CASE Read(w)
  <2>1. UNCHANGED <<row, gens>>
    BY <1>7 DEF Read, Kept, History
  <2>2. CASE Goto(w, "claimRetry")
    BY <1>1, <1>4, <2>1, <2>2 DEF Steps
  <2>3. CASE Return(w, TRUE)
    BY <1>1, <1>2, <2>1, <2>3
  <2>4. ASSUME NEW s \in {"capture", "reclaim"},
               wk' = [wk EXCEPT ![w].pc = s, ![w].seen = row.status]
        PROVE  SpendInv'
    <3>1. /\ \A v \in Workers \ {w} : wk'[v] = wk[v]
          /\ wk'[w].pc = s /\ wk'[w].mine = wk[w].mine
      BY <2>4 DEF TypeOK, Worker
    <3> QED
      BY <1>1, <2>1, <2>4, <3>1
  <2> QED
    BY <1>7, <2>2, <2>3, <2>4 DEF Read
<1>8. CASE Capture(w)
  <2>1. CASE Return(w, TRUE)
    BY <1>1, <1>2, <1>8, <2>1 DEF Capture, Kept, History
  <2>2. CASE wk' = [wk EXCEPT ![w].pc = "download", ![w].snap = row, ![w].edits = edits]
    BY <1>1, <1>8, <2>2 DEF Capture, Kept, History, TypeOK, Worker
  <2> QED
    BY <1>8, <2>1, <2>2 DEF Capture
<1>9. CASE Recapture(w)
  <2>1. UNCHANGED <<row, gens>>
    BY <1>9 DEF Recapture, Kept, History
  <2>2. CASE Return(w, TRUE) \/ Return(w, FALSE)
    BY <1>1, <1>2, <2>1, <2>2
  <2>3. ASSUME NEW s, wk' = [wk EXCEPT ![w].pc = "restart", ![w].snap = s]
        PROVE  SpendInv'
    <3>1. /\ \A v \in Workers \ {w} : wk'[v] = wk[v]
          /\ wk'[w].pc = "restart" /\ wk'[w].mine = wk[w].mine
      BY <2>3 DEF TypeOK, Worker
    <3> QED
      BY <1>1, <2>1, <3>1
  <2> QED
    BY <1>9, <2>2, <2>3 DEF Recapture
<1>10. CASE Expire(w)
  <2>1. gens' = gens
    BY <1>10 DEF Expire, History
  <2>2. \/ row'.status # "summarizing"
        \/ row' = row
    BY <1>10 DEF Expire, ExpireSummaryRetry, Set, Row
  <2>3. Goto(w, "reread")
    BY <1>10 DEF Expire
  <2> QED
    BY <1>1, <1>4, <2>1, <2>2, <2>3 DEF Steps
<1>11. CASE ClaimSummaryRetry(w)
  <2>1. CASE Goto(w, "expire") /\ UNCHANGED Kept
    BY <1>1, <1>4, <1>11, <2>1 DEF ClaimSummaryRetry, Kept, History, Steps
  <2>2. CASE /\ row.status = "summarizing" /\ RetryLeft
             /\ WriteClaim([row EXCEPT !.attempts = @ + 1])
    <3>1. gens' = gens /\ row'.attempts = row.attempts + 1 /\ row.attempts < MaxSummaryRetries
      BY <1>11, <2>2 DEF ClaimSummaryRetry, WriteClaim, History, Row, RetryLeft
    <3> QED
      BY <1>0, <2>2, <3>1
  <2> QED
    BY <1>11, <2>1, <2>2 DEF ClaimSummaryRetry
<1>12. CASE ClaimSummarizeRetry(w)
  <2>1. CASE Return(w, TRUE) /\ UNCHANGED Kept
    BY <1>1, <1>2, <1>12, <2>1 DEF ClaimSummarizeRetry, Kept, History
  <2>2. CASE row.status = "summarizing" /\ WriteClaim(row)
    <3>1. gens' = gens /\ row'.attempts = row.attempts /\ row'.claim = lastClaim + 1
      BY <1>12, <2>2 DEF ClaimSummarizeRetry, WriteClaim, History, Row
    <3>2. /\ \A v \in Workers \ {w} : wk'[v] = wk[v]
          /\ wk'[w].pc \in {"capture", "idle"}
      BY <1>2, <1>12 DEF ClaimSummarizeRetry, TypeOK, Worker
    <3>3. \A v \in Workers : wk[v].mine < lastClaim + 1
      BY DEF LeaseInv, Owned
    <3> QED
      BY <1>0, <2>2, <3>1, <3>2, <3>3
  <2> QED
    BY <1>12, <2>1, <2>2 DEF ClaimSummarizeRetry
<1>13. ASSUME NEW t, StartTranscriptSummary(w, t) PROVE SpendInv'
  <2>1. gens' = 0 /\ row'.attempts = 0
    BY <1>13 DEF StartTranscriptSummary, WriteClaim, Row
  <2> QED
    BY <2>1
<1>14. CASE Start(w)
  <2>1. CASE Goto(w, "recapture") /\ UNCHANGED <<Kept, World, History>>
    BY <1>1, <1>4, <2>1 DEF Kept, History, Steps
  <2> QED
    BY <1>13, <1>14, <2>1 DEF Start
<1>15. CASE Restart(w)
  <2>1. CASE Return(w, FALSE) /\ UNCHANGED <<Kept, World, History>>
    BY <1>1, <1>2, <2>1 DEF Kept, History
  <2> QED
    BY <1>13, <1>15, <2>1 DEF Restart
<1>16. CASE Snapshot(w)
  <2>1. CASE Leave(w, TRUE) /\ UNCHANGED gens
    BY <1>1, <1>3, <1>16, <2>1 DEF Snapshot, Kept
  <2>2. CASE /\ row.status = "summarizing" /\ row.claim = wk[w].mine
             /\ gens' \in {gens, gens + 1}
             /\ \A v \in Workers \ {w} : wk'[v] = wk[v]
             /\ wk'[w].pc \in {"preserve", "generate"}
    <3>1. row' = row /\ wk[w].mine # NoClaim /\ wk[w].pc = "snapshot"
      BY <1>16 DEF Snapshot, Kept, LeaseInv, Fenced, Releasing
    <3>2. \A v \in Workers \ {w} : wk[v].mine # row.claim
      BY <2>2, <3>1 DEF LeaseInv, Owned
    <3>3. gens <= row.attempts
      BY <2>2, <3>1
    <3> QED
      BY <1>0, <2>2, <3>1, <3>2, <3>3
  <2>3. ASSUME NEW s \in {"preserve", "generate"},
               wk' = [wk EXCEPT ![w].snap = row, ![w].pc = s]
        PROVE  /\ \A v \in Workers \ {w} : wk'[v] = wk[v]
               /\ wk'[w].pc \in {"preserve", "generate"}
    BY <2>3 DEF TypeOK, Worker
  <2>4. (IF row.hash # row.content THEN "preserve" ELSE "generate") \in {"preserve", "generate"}
    OBVIOUS
  <2>5. (IF row.hash # row.content THEN gens ELSE gens + 1) \in {gens, gens + 1}
    OBVIOUS
  <2> QED
    BY <1>16, <2>1, <2>2, <2>3, <2>4, <2>5 DEF Snapshot
<1>17. ASSUME NEW r, Write(r), r.status # "summarizing" PROVE row'.status # "summarizing"
  BY <1>17 DEF Write, Set
<1>18. CASE FailTranscriptSnapshot(w) \/ MarkSttNoSpeech(w)
  BY <1>1, <1>2, <1>17, <1>18 DEF FailTranscriptSnapshot, MarkSttNoSpeech, Kept, History, Row
<1>19. CASE Preserve(w)
  <2>1. Finished(row).status # "summarizing"
    BY DEF Finished, Row
  <2> QED
    BY <1>1, <1>2, <1>3, <1>17, <1>19, <2>1 DEF Preserve, Kept, History
<1>20. CASE Publish(w)
  <2>1. ([Finished(row) EXCEPT !.attempts = 0,
                               !.content = <<"auto", wk[w].mine>>]).status # "summarizing"
    BY DEF Finished, Row
  <2> QED
    BY <1>1, <1>2, <1>3, <1>4, <1>17, <1>20, <2>1 DEF Publish, Kept, History, Steps
<1>21. CASE MarkSummaryConflict(w)
  <2>1. \/ UNCHANGED Kept
        \/ /\ row.status = "summarizing" /\ row'.attempts = row.attempts
           /\ row'.claim = NoClaim
    BY <1>21 DEF MarkSummaryConflict, Write, Set, Row
  <2> QED
    BY <1>1, <1>3, <1>21, <2>1 DEF MarkSummaryConflict, Kept, History
<1>22. CASE ReleaseSummaryRetryClaim(w)
  <2>1. \/ UNCHANGED Kept
        \/ /\ row.status = "summarizing" /\ row'.attempts = row.attempts
           /\ row'.claim = NoClaim
        \/ row'.status # "summarizing"
    BY <1>22 DEF ReleaseSummaryRetryClaim, Write, Set, Row
  <2>2. Return(w, TRUE) \/ Return(w, FALSE)
    <3>1. wk[w].err \in BOOLEAN
      BY DEF TypeOK, Worker
    <3> QED
      BY <1>22, <3>1 DEF ReleaseSummaryRetryClaim
  <2> QED
    BY <1>1, <1>2, <1>22, <2>1, <2>2 DEF ReleaseSummaryRetryClaim, Kept, History
<1> QED
  BY <1>5, <1>6, <1>7, <1>8, <1>9, <1>10, <1>11, <1>12, <1>14, <1>15, <1>16, <1>18, <1>19,
     <1>20, <1>21, <1>22 DEF Summarize

\* The other writers never start a batch and never set its attempts back.
LEMMA SpendOthers ==
    ASSUME TypeOK, LeaseInv, SpendInv,
           \/ Tick \/ Transcription \/ Owner \/ DetailRead
           \/ \E w \in Workers : Invoke(w) \/ CallFails(w) \/ Crash(w)
    PROVE  SpendInv'
<1> USE Facts DEF SpendInv, GenerationsBounded, Kept, History
<1>1. ASSUME UNCHANGED gens,
             \/ row'.status # "summarizing"
             \/ /\ row.status = "summarizing" /\ row'.attempts = row.attempts
                /\ row'.claim \in {row.claim, NoClaim},
             \A v \in Workers :
                /\ wk'[v].pc \in {"verify", "begun", "snapshot"} => wk'[v].pc = wk[v].pc
                /\ wk'[v].mine \in {wk[v].mine, NoClaim}
                /\ wk'[v].pc \in {"verify", "begun", "snapshot"} => wk'[v].mine = wk[v].mine
      PROVE  SpendInv'
  <2>1. ASSUME NEW v \in Workers, wk'[v].pc \in {"verify", "begun", "snapshot"}
        PROVE  wk[v].pc = wk'[v].pc /\ wk'[v].mine = wk[v].mine /\ wk[v].mine # NoClaim
    BY <1>1, <2>1 DEF LeaseInv, Fenced, Releasing
  <2> QED
    BY <1>1, <2>1
<1>2. CASE Tick
  BY <1>1, <1>2 DEF Tick, TypeOK, Worker
<1>3. CASE Transcription
  BY <1>1, <1>3 DEF Transcription, TranscriptUploaded, Redeliver, MarkFailure, StartTaskFails,
     Write, Set, Row
<1>4. CASE Owner
  BY <1>1, <1>4 DEF Owner, RediarizeMeeting, BindMeetingAudioKey, SaveRecording, UpdateSpeakers, EditContent,
     CheckTranscriptEdit, EditTranscript, Write, Set, Row
<1>5. CASE DetailRead
  BY <1>1, <1>5 DEF DetailRead, ReadExpiresRetry, ReadExpiresStuck, ExpireSummaryRetry,
     Expirable, Write, Set, Row
<1>6. ASSUME NEW w \in Workers, Invoke(w) \/ CallFails(w) \/ Crash(w) PROVE SpendInv'
  <2>1. /\ \A v \in Workers \ {w} : wk'[v] = wk[v]
        /\ wk'[w].pc \in {"read", "idle", "release"}
        /\ wk'[w].mine \in {wk[w].mine, NoClaim}
    <3>1. CASE Invoke(w)
      BY <3>1, InvokeEffect
    <3>2. CASE CallFails(w) \/ Crash(w)
      BY <3>2, ReturnEffect, LeaveEffect DEF CallFails, Crash
    <3> QED
      BY <1>6, <3>1, <3>2
  <2> QED
    BY <1>1, <1>6, <2>1 DEF Invoke, CallFails, Crash
<1> QED
  BY <1>2, <1>3, <1>4, <1>5, <1>6

\* A batch costs at most one model generation per claim, the first and each retry, for
\* any number of concurrent invocations and any MaxSummaryRetries (summary_retry.go).
THEOREM SpendHolds == Spec => []SpendInv
<1>1. Init => SpendInv
  <2> SUFFICES ASSUME Init PROVE SpendInv
    OBVIOUS
  <2>1. \A w \in Workers : wk[w].pc = "idle"
    BY DEF Init, Idle
  <2>2. row.attempts = 0
    <3>1. FreshRow.attempts = 0 /\ LegacyRow.attempts = 0
      BY DEF FreshRow, LegacyRow
    <3> QED
      BY <3>1 DEF Init
  <2>3. gens = 0
    BY DEF Init
  <2> QED
    BY <2>1, <2>2, <2>3 DEF SpendInv, GenerationsBounded
<1>2. TypeOK /\ LeaseInv /\ SpendInv /\ [Next]_vars => SpendInv'
  <2> SUFFICES ASSUME TypeOK, LeaseInv, SpendInv, [Next]_vars PROVE SpendInv'
    OBVIOUS
  <2>1. CASE UNCHANGED vars
    BY <2>1 DEF vars, SpendInv, GenerationsBounded
  <2> QED
    BY <2>1, SpendStep, SpendOthers DEF Next
<1> QED
  BY <1>1, <1>2, TypeCorrect, LeaseHolds, PTL DEF Spec

\* A finished meeting never keeps the retry marker, so no delivery resumes it.
THEOREM DoneIsNotPending == Spec => []DoneNotPending
<1>1. Init => DoneNotPending
  <2>1. FreshRow.status # "done" /\ LegacyRow.status # "done"
    BY DEF FreshRow, LegacyRow
  <2> QED
    BY <2>1 DEF Init, DoneNotPending
<1>2. TypeOK /\ DoneNotPending /\ [Next]_vars => DoneNotPending'
  <2> SUFFICES ASSUME TypeOK, DoneNotPending, [Next]_vars, row' # row,
                      row'.status = "done"
               PROVE  ~row'.pending
    BY DEF DoneNotPending
  <2> USE DEF Kept, Write, Set, WriteClaim, TypeOK, Row, DoneNotPending
  <2>1. ASSUME NEW w \in Workers, Preserve(w) \/ Publish(w) PROVE ~row'.pending
    BY <2>1 DEF Preserve, Publish, Finished
  <2>2. ASSUME NEW w \in Workers,
               \/ ClaimSummaryRetry(w) \/ Expire(w) \/ ClaimSummarizeRetry(w)
               \/ FailTranscriptSnapshot(w) \/ MarkSttNoSpeech(w)
        PROVE  ~row'.pending
    BY <2>2 DEF ClaimSummaryRetry, Expire, ExpireSummaryRetry, ClaimSummarizeRetry,
       FailTranscriptSnapshot, MarkSttNoSpeech
  <2>3. ASSUME NEW w \in Workers, NEW t, StartTranscriptSummary(w, t) PROVE FALSE
    BY <2>3 DEF StartTranscriptSummary
  <2>4. ASSUME NEW w \in Workers, Start(w) \/ Restart(w) PROVE FALSE
    BY <2>3, <2>4 DEF Start, Restart
  <2>5. ASSUME NEW w \in Workers, MarkSummaryConflict(w) PROVE FALSE
    BY <2>5 DEF MarkSummaryConflict
  <2>6. ASSUME NEW w \in Workers, ReleaseSummaryRetryClaim(w) PROVE ~row'.pending
    BY <2>6 DEF ReleaseSummaryRetryClaim
  <2>7. ASSUME NEW w \in Workers, Invoke(w) \/ Summarize(w) \/ CallFails(w) \/ Crash(w)
        PROVE  ~row'.pending
    BY <2>1, <2>2, <2>4, <2>5, <2>6, <2>7 DEF Invoke, CallFails, Crash, Summarize, Read,
       Reread, Verify, Capture, Download, HandleNoSpeech, CheckTranscriptObjects,
       Recapture, Begun, Snapshot
  <2>8. CASE Transcription \/ DetailRead \/ Tick
    BY <2>8 DEF Transcription, TranscriptUploaded, Redeliver, MarkFailure, StartTaskFails,
       DetailRead, ReadExpiresRetry, ReadExpiresStuck, ExpireSummaryRetry, Tick
  <2>9. CASE Owner
    BY <2>9 DEF Owner, RediarizeMeeting, BindMeetingAudioKey, SaveRecording, UpdateSpeakers, EditContent,
       CheckTranscriptEdit, EditTranscript
  <2> QED
    BY <2>7, <2>8, <2>9 DEF Next, vars
<1> QED
  BY <1>1, <1>2, TypeCorrect, PTL DEF Spec
-----------------------------------------------------------------------------
(* The content and the transcript a summary is of. *)

\* No text is of the future: human texts are numbered by events, generated ones by claims.
Dated(t) ==
    /\ t[1] = "human" => t[2] <= events
    /\ t[1] = "auto" => t[2] <= lastClaim

Captured == Preparing \ {"capture"}

\* A claim that may still publish has published nothing that anybody has seen.
Unpublished(w) ==
    wk[w].mine # NoClaim /\ wk[w].pc # "release" =>
        /\ row.content # <<"auto", wk[w].mine>>
        /\ \A v \in Workers : wk[v].snap.content # <<"auto", wk[w].mine>>

\* While content equals what was captured nobody edited it since: for a batch that is
\* being prepared and for one that runs; a generation starts only on such content.
EditInv ==
    /\ Dated(row.content) /\ Dated(row.hash)
    /\ \A w \in Workers : Dated(wk[w].snap.content) /\ Unpublished(w)
    /\ \A w \in Workers : wk[w].pc \in Captured /\ wk[w].snap.content = row.content
                          => wk[w].edits = edits
    /\ row.status = "summarizing" /\ row.hash = row.content => edits = baseEdits
    /\ \A w \in Workers : wk[w].pc = "generate" =>
          wk[w].snap.status = "summarizing" /\ wk[w].snap.hash = wk[w].snap.content

\* What a step does to the invocation: it returns, leaves or begins with a new claim; it
\* goes on; it reclaims; it captures the row; or it takes the snapshot to generate from.
Forgets(w) ==
    /\ wk'[w].snap.content = NoText /\ wk'[w].pc \notin Captured \cup {"generate"}
    /\ \/ wk'[w].mine = NoClaim
       \/ wk'[w].mine = lastClaim + 1 /\ lastClaim' = lastClaim + 1
       \/ wk'[w].mine = wk[w].mine /\ wk'[w].pc = "release"

GoesOn(w) ==
    /\ wk'[w].snap.content = wk[w].snap.content /\ wk'[w].edits = wk[w].edits
    /\ wk'[w].mine = wk[w].mine /\ wk[w].pc # "release" /\ wk'[w].pc # "generate"
    /\ wk'[w].pc \in Captured => wk[w].pc \in Captured

Reclaims(w) ==
    /\ wk'[w].snap.content = wk[w].snap.content /\ wk'[w].pc = "capture"
    /\ wk'[w].mine = lastClaim + 1 /\ lastClaim' = lastClaim + 1

Captures(w) ==
    /\ wk'[w].snap.content = row.content /\ wk'[w].edits = edits /\ wk'[w].pc = "download"
    /\ wk'[w].mine = wk[w].mine /\ wk[w].pc # "release"

Snaps(w) ==
    /\ wk'[w].snap = row /\ wk'[w].pc \in {"preserve", "generate"}
    /\ wk'[w].mine = wk[w].mine /\ wk[w].pc # "release"
    /\ wk'[w].pc = "generate" => row.status = "summarizing" /\ row.hash = row.content

\* What it does to the content, and to the batch's account of it.
ContentKept ==
    /\ row'.content = row.content /\ row'.hash = row.hash /\ baseEdits' = baseEdits
    /\ row'.status = "summarizing" => row.status = "summarizing"

BatchBegins(w) ==
    /\ wk[w].pc \in Captured /\ row'.content = row.content
    /\ row'.hash = wk[w].snap.content /\ baseEdits' = wk[w].edits

Publishes(w) ==
    /\ wk[w].pc = "generate" /\ SameSummaryFence(wk[w].snap) /\ Forgets(w)
    /\ row'.content = <<"auto", wk[w].mine>> /\ row'.hash = row.hash
    /\ row'.status = "done" /\ row'.transcript = row.transcript

BatchStep(w) ==
    /\ \A v \in Workers \ {w} : wk'[v] = wk[v]
    /\ edits' = edits /\ events' = events /\ lastClaim' \in {lastClaim, lastClaim + 1}
    /\ Forgets(w) \/ GoesOn(w) \/ Reclaims(w) \/ Captures(w) \/ Snaps(w)
    /\ ContentKept \/ BatchBegins(w) \/ Publishes(w)

\* An invocation that returns forgets its snapshot and its claim.
LEMMA ForgetsReturning ==
    ASSUME TypeOK, NEW w \in Workers, Return(w, TRUE) \/ Return(w, FALSE)
    PROVE  Forgets(w) /\ \A v \in Workers \ {w} : wk'[v] = wk[v]
<1>1. wk' = [wk EXCEPT ![w] = Idle]
  BY DEF Return
<1>2. wk'[w] = Idle /\ \A v \in Workers \ {w} : wk'[v] = wk[v]
  BY <1>1 DEF TypeOK
<1> QED
  BY <1>2 DEF Forgets, Idle, FreshRow, Captured, Preparing

\* So does one that goes on under a new claim, or leaves under its own.
LEMMA ForgetsOwning ==
    ASSUME TypeOK, NEW w \in Workers, NEW s \in {"release", "verify", "begun"}, NEW c, NEW e,
           Own(w, s, c, e),
           \/ c = lastClaim + 1 /\ lastClaim' = lastClaim + 1
           \/ c = wk[w].mine /\ s = "release"
    PROVE  Forgets(w) /\ \A v \in Workers \ {w} : wk'[v] = wk[v]
<1>1. wk' = [wk EXCEPT ![w] = [Idle EXCEPT !.pc = s, !.mine = c, !.err = e,
                               !.age = wk[w].age, !.etag = wk[w].etag, !.try = wk[w].try]]
  BY DEF Own
<1>2. /\ wk'[w] = [Idle EXCEPT !.pc = s, !.mine = c, !.err = e,
                               !.age = wk[w].age, !.etag = wk[w].etag, !.try = wk[w].try]
      /\ \A v \in Workers \ {w} : wk'[v] = wk[v]
  BY <1>1 DEF TypeOK
<1>3. wk'[w].pc = s /\ wk'[w].mine = c /\ wk'[w].snap = FreshRow
  BY <1>2 DEF Idle
<1> QED
  BY <1>2, <1>3 DEF Forgets, FreshRow, Captured, Preparing

\* Goto keeps the snapshot, the claim and the edits that were captured.
LEMMA GoesOnGoto ==
    ASSUME TypeOK, NEW w \in Workers, NEW s \in Steps \ {"generate"}, Goto(w, s),
           wk[w].pc # "release", s \in Captured => wk[w].pc \in Captured
    PROVE  GoesOn(w) /\ \A v \in Workers \ {w} : wk'[v] = wk[v]
<1>1. wk'[w] = [wk[w] EXCEPT !.pc = s] /\ \A v \in Workers \ {w} : wk'[v] = wk[v]
  BY DEF Goto, TypeOK
<1>2. /\ wk'[w].pc = s /\ wk'[w].mine = wk[w].mine /\ wk'[w].snap = wk[w].snap
      /\ wk'[w].edits = wk[w].edits
  BY <1>1 DEF TypeOK, Worker
<1> QED
  BY <1>1, <1>2 DEF GoesOn

\* The steps that leave the row as it is.
LEMMA ReadingBatchStep ==
    ASSUME TypeOK, NEW w \in Workers,
           \/ Invoke(w) \/ CallFails(w) \/ Crash(w) \/ Read(w) \/ Reread(w) \/ Verify(w)
           \/ Capture(w) \/ Download(w) \/ HandleNoSpeech(w) \/ CheckTranscriptObjects(w)
           \/ Recapture(w) \/ Begun(w) \/ Snapshot(w)
    PROVE  BatchStep(w)
<1>0. row' = row /\ lastClaim' = lastClaim /\ edits' = edits /\ baseEdits' = baseEdits /\ events' = events
  BY DEF Invoke, CallFails, Crash, Read, Reread, Verify, Capture, Download, HandleNoSpeech,
         CheckTranscriptObjects, Recapture, Begun, Snapshot, Kept, World, History
<1>1. ContentKept
  BY <1>0 DEF ContentKept
<1>2. ASSUME Forgets(w) \/ GoesOn(w) \/ Reclaims(w) \/ Captures(w) \/ Snaps(w),
             \A v \in Workers \ {w} : wk'[v] = wk[v]
      PROVE  BatchStep(w)
  BY <1>0, <1>1, <1>2 DEF BatchStep
<1>3. CASE Return(w, TRUE) \/ Return(w, FALSE)
  BY <1>2, <1>3, ForgetsReturning
<1>4. CASE Leave(w, TRUE) \/ Leave(w, FALSE)
  BY <1>2, <1>4, ForgetsOwning DEF Leave
<1>5. wk[w] \in Worker
  BY DEF TypeOK
<1>6. CASE Invoke(w)
  <2>1. PICK m : wk' = [wk EXCEPT ![w] = [Idle EXCEPT !.pc = "read", !.etag = m.etag, !.try = m.try]]
    BY <1>6 DEF Invoke
  <2>2. /\ wk'[w] = [Idle EXCEPT !.pc = "read", !.etag = m.etag, !.try = m.try]
        /\ \A v \in Workers \ {w} : wk'[v] = wk[v]
    BY <2>1 DEF TypeOK
  <2>3. wk'[w].pc = "read" /\ wk'[w].mine = NoClaim /\ wk'[w].snap = FreshRow
    BY <2>2 DEF Idle
  <2> QED
    BY <1>2, <2>2, <2>3 DEF Forgets, FreshRow, Captured, Preparing
<1>7. CASE Read(w)
  <2>1. CASE Goto(w, "claimRetry")
    BY <1>2, <1>7, <2>1, GoesOnGoto DEF Read, Steps, Captured, Preparing
  <2>2. ASSUME NEW s \in {"capture", "reclaim"}, wk[w].pc = "read",
               wk' = [wk EXCEPT ![w].pc = s, ![w].seen = row.status]
        PROVE  BatchStep(w)
    <3>1. /\ wk'[w].pc = s /\ wk'[w].mine = wk[w].mine /\ wk'[w].snap = wk[w].snap
          /\ wk'[w].edits = wk[w].edits /\ \A v \in Workers \ {w} : wk'[v] = wk[v]
      BY <1>5, <2>2 DEF TypeOK, Worker
    <3> QED
      BY <1>2, <2>2, <3>1 DEF GoesOn, Captured, Preparing
  <2> QED
    BY <1>3, <1>7, <2>1, <2>2 DEF Read
<1>8. CASE Capture(w)
  <2>1. CASE wk[w].pc = "capture" /\ wk' = [wk EXCEPT ![w].pc = "download", ![w].snap = row, ![w].edits = edits]
    <3>1. /\ wk'[w].pc = "download" /\ wk'[w].mine = wk[w].mine /\ wk'[w].snap = row
          /\ wk'[w].edits = edits /\ \A v \in Workers \ {w} : wk'[v] = wk[v]
      BY <1>5, <2>1 DEF TypeOK, Worker
    <3> QED
      BY <1>2, <2>1, <3>1 DEF Captures
  <2> QED
    BY <1>3, <1>8, <2>1 DEF Capture
<1>9. CASE Download(w) \/ HandleNoSpeech(w) \/ CheckTranscriptObjects(w)
  <2>1. ASSUME NEW s \in {"fail", "noSpeech", "check", "mark", "start"}, Goto(w, s),
               wk[w].pc \in {"download", "noSpeech", "check"}
        PROVE  BatchStep(w)
    <3>1. s \in Steps \ {"generate"} /\ wk[w].pc # "release" /\ wk[w].pc \in Captured
      BY <2>1 DEF Steps, Captured, Preparing
    <3> QED
      BY <1>2, <2>1, <3>1, GoesOnGoto
  <2> QED
    BY <1>3, <1>9, <2>1 DEF Download, HandleNoSpeech, CheckTranscriptObjects
<1>10. CASE Recapture(w)
  <2>1. CASE wk[w].pc = "recapture" /\ wk' = [wk EXCEPT ![w].pc = "restart", ![w].snap = BatchSource(wk[w].snap)]
    <3>1. /\ wk'[w].pc = "restart" /\ wk'[w].mine = wk[w].mine
          /\ wk'[w].snap = BatchSource(wk[w].snap)
          /\ wk'[w].edits = wk[w].edits /\ \A v \in Workers \ {w} : wk'[v] = wk[v]
      BY <1>5, <2>1 DEF TypeOK, Worker
    <3>2. BatchSource(wk[w].snap).content = wk[w].snap.content
      BY DEF BatchSource, TypeOK, Row
    <3> QED
      BY <1>2, <2>1, <3>1, <3>2 DEF GoesOn, Captured, Preparing
  <2> QED
    BY <1>3, <1>10, <2>1 DEF Recapture
<1>11. CASE Verify(w) \/ Begun(w)
  <2>1. CASE Goto(w, "snapshot")
    BY <1>2, <1>11, <2>1, GoesOnGoto DEF Verify, Begun, Steps, Captured, Preparing
  <2> QED
    BY <1>4, <1>11, <2>1 DEF Verify, Begun
<1>12. CASE Snapshot(w)
  <2>1. CASE /\ row.status = "summarizing" /\ wk[w].pc = "snapshot"
             /\ wk' = [wk EXCEPT ![w].snap = row,
                                 ![w].pc = IF row.hash # row.content THEN "preserve" ELSE "generate"]
    <3>1. /\ wk'[w].pc = (IF row.hash # row.content THEN "preserve" ELSE "generate")
          /\ wk'[w].mine = wk[w].mine /\ wk'[w].snap = row
          /\ \A v \in Workers \ {w} : wk'[v] = wk[v]
      BY <1>5, <2>1 DEF TypeOK, Worker
    <3>2. /\ wk'[w].pc \in {"preserve", "generate"}
          /\ wk'[w].pc = "generate" => row.hash = row.content
      BY <3>1
    <3>3. Snaps(w)
      BY <2>1, <3>1, <3>2 DEF Snaps
    <3> QED
      BY <1>2, <3>1, <3>3
  <2> QED
    BY <1>4, <1>12, <2>1 DEF Snapshot
<1>13. CASE CallFails(w) \/ Crash(w) \/ Reread(w)
  BY <1>3, <1>4, <1>13 DEF CallFails, Crash, Reread
<1> QED
  BY <1>6, <1>7, <1>8, <1>9, <1>10, <1>11, <1>12, <1>13

\* The steps that write it.
LEMMA WritingBatchStep ==
    ASSUME TypeOK, NEW w \in Workers,
           \/ ClaimSummaryRetry(w) \/ Expire(w) \/ ClaimSummarizeRetry(w)
           \/ FailTranscriptSnapshot(w) \/ MarkSttNoSpeech(w) \/ Start(w) \/ Restart(w)
           \/ Preserve(w) \/ Publish(w) \/ MarkSummaryConflict(w) \/ ReleaseSummaryRetryClaim(w)
    PROVE  BatchStep(w)
<1>0. row \in Row /\ wk[w] \in Worker /\ lastClaim \in Nat
  BY DEF TypeOK
<1>1. edits' = edits /\ events' = events
  BY DEF ClaimSummaryRetry, Expire, ClaimSummarizeRetry, FailTranscriptSnapshot, MarkSttNoSpeech,
         Start, Restart, StartTranscriptSummary, Preserve, Publish, MarkSummaryConflict,
         ReleaseSummaryRetryClaim, History, World
<1>2. ASSUME Forgets(w) \/ GoesOn(w) \/ Reclaims(w) \/ Captures(w) \/ Snaps(w),
             \A v \in Workers \ {w} : wk'[v] = wk[v],
             ContentKept \/ BatchBegins(w) \/ Publishes(w),
             lastClaim' \in {lastClaim, lastClaim + 1}
      PROVE  BatchStep(w)
  BY <1>1, <1>2 DEF BatchStep
<1>3. CASE ClaimSummaryRetry(w)
  <2>1. CASE /\ WriteClaim([row EXCEPT !.attempts = @ + 1]) /\ row.status = "summarizing"
             /\ \E lost \in BOOLEAN : Own(w, IF lost THEN "release" ELSE "verify", lastClaim + 1, lost)
    <3>1. lastClaim' = lastClaim + 1 /\ ContentKept
      BY <1>0, <1>3, <2>1 DEF WriteClaim, Row, ContentKept, ClaimSummaryRetry, History
    <3>2. Forgets(w) /\ \A v \in Workers \ {w} : wk'[v] = wk[v]
      <4>1. PICK lost \in BOOLEAN :
               Own(w, IF lost THEN "release" ELSE "verify", lastClaim + 1, lost)
        BY <2>1
      <4>2. (IF lost THEN "release" ELSE "verify") \in {"release", "verify", "begun"}
        OBVIOUS
      <4> QED
        BY <3>1, <4>1, <4>2, ForgetsOwning
    <3> QED
      BY <1>2, <3>1, <3>2
  <2>2. CASE Goto(w, "expire") /\ UNCHANGED Kept
    <3>1. GoesOn(w) /\ \A v \in Workers \ {w} : wk'[v] = wk[v]
      BY <1>3, <2>2, GoesOnGoto DEF ClaimSummaryRetry, Steps, Captured, Preparing
    <3>2. ContentKept /\ lastClaim' = lastClaim
      BY <1>3, <2>2 DEF ContentKept, Kept, ClaimSummaryRetry, History
    <3> QED
      BY <1>2, <3>1, <3>2
  <2> QED
    BY <1>3, <2>1, <2>2 DEF ClaimSummaryRetry
<1>4. CASE Expire(w)
  <2>1. ContentKept /\ lastClaim' = lastClaim
    BY <1>0, <1>4 DEF Expire, ExpireSummaryRetry, Set, ContentKept, Row, History
  <2>2. GoesOn(w) /\ \A v \in Workers \ {w} : wk'[v] = wk[v]
    BY <1>4, GoesOnGoto DEF Expire, Steps, Captured, Preparing
  <2> QED
    BY <1>2, <2>1, <2>2
<1>5. CASE ClaimSummarizeRetry(w)
  <2>1. CASE WriteClaim(row)
    <3>1. lastClaim' = lastClaim + 1 /\ ContentKept
      BY <1>0, <1>5, <2>1 DEF WriteClaim, Row, ContentKept, ClaimSummarizeRetry, History
    <3>2. CASE wk' = [wk EXCEPT ![w].pc = "capture", ![w].mine = lastClaim + 1]
      <4>1. /\ wk'[w].pc = "capture" /\ wk'[w].mine = lastClaim + 1
            /\ wk'[w].snap = wk[w].snap /\ \A v \in Workers \ {w} : wk'[v] = wk[v]
        BY <1>0, <3>2 DEF TypeOK, Worker
      <4> QED
        BY <1>2, <3>1, <4>1 DEF Reclaims
    <3>3. CASE Return(w, TRUE) \/ Return(w, FALSE)
      BY <1>2, <3>1, <3>3, ForgetsReturning
    <3> QED
      BY <1>5, <3>2, <3>3 DEF ClaimSummarizeRetry
  <2>2. CASE Return(w, TRUE) /\ UNCHANGED Kept
    <3>1. ContentKept /\ lastClaim' = lastClaim
      BY <1>5, <2>2 DEF ContentKept, Kept, ClaimSummarizeRetry, History
    <3> QED
      BY <1>2, <2>2, <3>1, ForgetsReturning
  <2> QED
    BY <1>5, <2>1, <2>2 DEF ClaimSummarizeRetry
<1>6. CASE FailTranscriptSnapshot(w) \/ MarkSttNoSpeech(w)
  <2>1. ContentKept /\ lastClaim' = lastClaim
    BY <1>0, <1>6 DEF FailTranscriptSnapshot, MarkSttNoSpeech, Write, Set, Kept, ContentKept, Row, History
  <2> QED
    BY <1>2, <1>6, <2>1, ForgetsReturning DEF FailTranscriptSnapshot, MarkSttNoSpeech
<1>7. ASSUME NEW t, StartTranscriptSummary(w, t), wk[w].pc \in Captured PROVE BatchStep(w)
  <2>1. lastClaim' = lastClaim + 1 /\ BatchBegins(w)
    BY <1>0, <1>7 DEF StartTranscriptSummary, WriteClaim, BatchBegins, Row
  <2>2. Forgets(w) /\ \A v \in Workers \ {w} : wk'[v] = wk[v]
    BY <1>7, <2>1, ForgetsOwning, ForgetsReturning DEF StartTranscriptSummary
  <2> QED
    BY <1>2, <2>1, <2>2
<1>8. CASE Start(w)
  <2>1. wk[w].pc = "start" /\ wk[w].pc \in Captured /\ wk[w].pc # "release"
    BY <1>8 DEF Start, Captured, Preparing
  <2>2. CASE Goto(w, "recapture") /\ UNCHANGED <<Kept, World, History>>
    <3>1. GoesOn(w) /\ \A v \in Workers \ {w} : wk'[v] = wk[v]
      BY <2>1, <2>2, GoesOnGoto DEF Steps
    <3>2. ContentKept /\ lastClaim' = lastClaim
      BY <2>2 DEF ContentKept, Kept, History
    <3> QED
      BY <1>2, <3>1, <3>2
  <2> QED
    BY <1>7, <1>8, <2>1, <2>2 DEF Start
<1>9. CASE Restart(w)
  <2>1. wk[w].pc \in Captured
    BY <1>9 DEF Restart, Captured, Preparing
  <2>2. CASE Return(w, FALSE) /\ UNCHANGED <<Kept, World, History>>
    <3>1. ContentKept /\ lastClaim' = lastClaim
      BY <2>2 DEF ContentKept, Kept, History
    <3> QED
      BY <1>2, <2>2, <3>1, ForgetsReturning
  <2> QED
    BY <1>7, <1>9, <2>1, <2>2 DEF Restart
<1>10. CASE Preserve(w)
  <2>1. ContentKept /\ lastClaim' = lastClaim
    BY <1>0, <1>10 DEF Preserve, Write, Set, Kept, Finished, ContentKept, Row, History
  <2>2. Forgets(w) /\ \A v \in Workers \ {w} : wk'[v] = wk[v]
    BY <1>10, ForgetsOwning, ForgetsReturning DEF Preserve, Leave
  <2> QED
    BY <1>2, <2>1, <2>2
<1>11. CASE Publish(w)
  <2>1. wk[w].pc = "generate"
    BY <1>11 DEF Publish
  <2>2. CASE /\ SameSummaryFence(wk[w].snap)
             /\ Write([Finished(row) EXCEPT !.attempts = 0, !.content = <<"auto", wk[w].mine>>])
             /\ Return(w, TRUE) \/ Leave(w, TRUE)
    <3>1. Forgets(w) /\ \A v \in Workers \ {w} : wk'[v] = wk[v]
      BY <2>2, ForgetsOwning, ForgetsReturning DEF Leave
    <3>2. /\ row'.content = <<"auto", wk[w].mine>> /\ row'.hash = row.hash
          /\ row'.status = "done" /\ row'.transcript = row.transcript /\ lastClaim' = lastClaim
      BY <1>0, <2>2 DEF Write, Set, Finished, Row
    <3> QED
      BY <1>2, <2>1, <2>2, <3>1, <3>2 DEF Publishes
  <2>3. CASE Goto(w, "conflict") /\ UNCHANGED Kept
    <3>1. GoesOn(w) /\ \A v \in Workers \ {w} : wk'[v] = wk[v]
      BY <2>1, <2>3, GoesOnGoto DEF Steps, Captured, Preparing
    <3>2. ContentKept /\ lastClaim' = lastClaim
      BY <1>11, <2>3 DEF ContentKept, Kept, Publish, History
    <3> QED
      BY <1>2, <3>1, <3>2
  <2> QED
    BY <1>11, <2>2, <2>3 DEF Publish
<1>12. CASE MarkSummaryConflict(w)
  <2>1. ContentKept /\ lastClaim' = lastClaim
    BY <1>0, <1>12 DEF MarkSummaryConflict, Write, Set, Kept, ContentKept, Row, History
  <2>2. Forgets(w) /\ \A v \in Workers \ {w} : wk'[v] = wk[v]
    BY <1>12, ForgetsOwning DEF MarkSummaryConflict, Leave
  <2> QED
    BY <1>2, <2>1, <2>2
<1>13. CASE ReleaseSummaryRetryClaim(w)
  <2>1. ContentKept /\ lastClaim' = lastClaim
    BY <1>0, <1>13 DEF ReleaseSummaryRetryClaim, Write, Set, Kept, ContentKept, Row, History
  <2>2. wk[w].err \in BOOLEAN
    BY <1>0 DEF Worker
  <2>3. Forgets(w) /\ \A v \in Workers \ {w} : wk'[v] = wk[v]
    BY <1>13, <2>2, ForgetsReturning DEF ReleaseSummaryRetryClaim
  <2> QED
    BY <1>2, <2>1, <2>3
<1> QED
  BY <1>3, <1>4, <1>5, <1>6, <1>8, <1>9, <1>10, <1>11, <1>12, <1>13

\* Every step of an invocation is one of these.
LEMMA AnyBatchStep ==
    ASSUME TypeOK, NEW w \in Workers, Invoke(w) \/ Summarize(w) \/ CallFails(w) \/ Crash(w)
    PROVE  BatchStep(w)
  BY ReadingBatchStep, WritingBatchStep DEF Summarize

\* The other writers: an owner edits the content, under a number of its own, or it stays.
Elsewhere ==
    /\ events' \in {events, events + 1} /\ lastClaim' = lastClaim
    /\ baseEdits' = baseEdits /\ row'.hash = row.hash
    /\ \A w \in Workers :
          /\ wk'[w].pc = wk[w].pc /\ wk'[w].snap = wk[w].snap
          /\ wk'[w].mine = wk[w].mine /\ wk'[w].edits = wk[w].edits
    /\ \/ row'.content = row.content /\ edits' = edits
          /\ (row'.status = "summarizing" => row.status = "summarizing")
       \/ row'.content = <<"human", events + 1>> /\ events' = events + 1

\* Every step of the other writers is such a step.
LEMMA ElsewhereStep ==
    ASSUME TypeOK, Tick \/ Transcription \/ Owner \/ DetailRead
    PROVE  Elsewhere
<1>0. row \in Row
  BY DEF TypeOK
<1>1. CASE Tick
  BY <1>1 DEF Tick, TypeOK, Worker, World, History, Elsewhere
<1>2. CASE Transcription
  BY <1>0, <1>2 DEF Transcription, TranscriptUploaded, Redeliver, MarkFailure, StartTaskFails,
     Write, Set, Row, Kept, World, History, Spend, Elsewhere
<1>3. CASE UpdateSpeakers \/ EditContent
  BY <1>0, <1>3 DEF UpdateSpeakers, EditContent, Write, Set, Row, Spend, Elsewhere
<1>4. CASE RediarizeMeeting \/ BindMeetingAudioKey \/ SaveRecording
  BY <1>0, <1>4 DEF RediarizeMeeting, BindMeetingAudioKey, SaveRecording, Write, Set, Row,
     History, Spend, Elsewhere
<1>5. CASE CheckTranscriptEdit \/ EditTranscript
  BY <1>0, <1>5 DEF CheckTranscriptEdit, EditTranscript, Write, Set, Row, Kept, History, Spend,
     Elsewhere
<1>6. CASE DetailRead
  BY <1>0, <1>6 DEF DetailRead, ReadExpiresRetry, ReadExpiresStuck, ExpireSummaryRetry, Write,
     Set, Row, World, History, Elsewhere
<1> QED
  BY <1>1, <1>2, <1>3, <1>4, <1>5, <1>6 DEF Owner

\* No batch has begun on a new row, nor on one an older build left.
LEMMA EditInit == Init => EditInv
<1> SUFFICES ASSUME Init PROVE EditInv
  OBVIOUS
<1>1. /\ FreshRow.content = NoText /\ FreshRow.hash = NoHash
      /\ LegacyRow.content = NoText /\ LegacyRow.hash = NoHash
  BY DEF FreshRow, LegacyRow
<1>2. row.content = NoText /\ row.hash = NoHash
  BY <1>1 DEF Init
<1>3. \A w \in Workers : /\ wk[w].pc = "idle" /\ wk[w].mine = NoClaim
                         /\ wk[w].snap.content = NoText
  BY <1>1 DEF Init, Idle
<1>4. Dated(NoText) /\ Dated(NoHash) /\ NoText # NoHash
  BY DEF Dated, NoText, NoHash
<1> QED
  BY <1>2, <1>3, <1>4 DEF EditInv, Unpublished, Captured, Preparing

\* Dated at the next step, for a text that need not be one of the next step.
DatedNext(t) ==
    /\ t[1] = "human" => t[2] <= events'
    /\ t[1] = "auto" => t[2] <= lastClaim'

\* A text stays dated, and no text that exists is a new one.
LEMMA DatedKept ==
    ASSUME TypeOK, NEW t \in Text, Dated(t), events' \in {events, events + 1},
           lastClaim' \in {lastClaim, lastClaim + 1}
    PROVE  /\ DatedNext(t)
           /\ t # <<"human", events + 1>> /\ t # <<"auto", lastClaim + 1>>
<1>1. events \in Nat /\ lastClaim \in Nat /\ t[2] \in Nat
  BY DEF TypeOK, Text
<1>2. \A k, n : <<k, n>>[1] = k /\ <<k, n>>[2] = n
  OBVIOUS
<1> QED
  BY <1>1, <1>2 DEF Dated, DatedNext

\* An invocation's step keeps the account of the edits.
LEMMA EditStep ==
    ASSUME TypeOK, LeaseInv, EditInv, NEW w \in Workers, BatchStep(w)
    PROVE  EditInv'
<1>0. /\ row.content \in Text /\ row.hash \in Text
      /\ \A v \in Workers : wk[v].snap.content \in Text /\ wk[v].mine \in Nat
      /\ lastClaim \in Nat
  BY DEF TypeOK, Row, Worker
<1>1. /\ edits' = edits /\ events' = events /\ lastClaim' \in {lastClaim, lastClaim + 1}
      /\ \A v \in Workers \ {w} : wk'[v] = wk[v]
      /\ ContentKept \/ BatchBegins(w) \/ Publishes(w)
      /\ Forgets(w) \/ GoesOn(w) \/ Reclaims(w) \/ Captures(w) \/ Snaps(w)
  BY DEF BatchStep
<1>2. /\ Dated(row.content) /\ Dated(row.hash)
      /\ \A v \in Workers : Dated(wk[v].snap.content)
      /\ \A v \in Workers : Unpublished(v)
  BY DEF EditInv
<1>3. ASSUME NEW t \in Text, Dated(t) PROVE DatedNext(t) /\ t # <<"auto", lastClaim + 1>>
  BY <1>1, <1>3, DatedKept
<1>4. wk[w].pc = "generate" => wk[w].mine # NoClaim /\ wk[w].mine <= lastClaim
  BY DEF LeaseInv, Fenced, Owned, Releasing
<1>5. NoText \in Text /\ Dated(NoText) /\ \A n : NoText # <<"auto", n>>
  BY Constants DEF Dated, NoText
<1>6. /\ \/ row'.content = row.content
         \/ Publishes(w) /\ row'.content = <<"auto", wk[w].mine>>
      /\ row'.hash \in {row.hash, wk[w].snap.content}
  <2>1. CASE ContentKept
    BY <2>1 DEF ContentKept
  <2>2. CASE BatchBegins(w)
    BY <2>2 DEF BatchBegins
  <2>3. CASE Publishes(w)
    <3>1. row'.content = <<"auto", wk[w].mine>> /\ row'.hash = row.hash
      BY <2>3 DEF Publishes
    <3> QED
      BY <2>3, <3>1
  <2> QED
    BY <1>1, <2>1, <2>2, <2>3
<1>7. wk'[w].snap.content \in {wk[w].snap.content, row.content, NoText}
  BY <1>1 DEF Forgets, GoesOn, Reclaims, Captures, Snaps
<1>8. DatedNext(row'.content) /\ DatedNext(row'.hash)
  <2>1. ASSUME Publishes(w) PROVE DatedNext(<<"auto", wk[w].mine>>)
    <3>1. wk[w].mine <= lastClaim'
      BY <1>0, <1>1, <1>4, <2>1 DEF Publishes
    <3>2. <<"auto", wk[w].mine>>[1] = "auto" /\ <<"auto", wk[w].mine>>[2] = wk[w].mine
      OBVIOUS
    <3> QED
      BY <3>1, <3>2 DEF DatedNext
  <2>2. DatedNext(row.content) /\ DatedNext(row.hash) /\ DatedNext(wk[w].snap.content)
    BY <1>0, <1>2, <1>3
  <2>3. DatedNext(row'.content)
    BY <1>6, <2>1, <2>2
  <2>4. DatedNext(row'.hash)
    BY <1>6, <2>2
  <2> QED
    BY <2>3, <2>4
<1>9. ASSUME NEW v \in Workers PROVE DatedNext(wk'[v].snap.content)
  <2>1. DatedNext(row.content) /\ DatedNext(NoText) /\ DatedNext(wk[v].snap.content)
    BY <1>0, <1>2, <1>3, <1>5
  <2>2. CASE v = w
    <3>1. DatedNext(wk[w].snap.content)
      BY <2>1, <2>2
    <3> QED
      BY <1>7, <2>1, <2>2, <3>1
  <2>3. CASE v # w
    BY <1>1, <2>1, <2>3
  <2> QED
    BY <2>2, <2>3
<1>10. ASSUME NEW v \in Workers, wk'[v].mine # NoClaim, wk'[v].pc # "release"
       PROVE  /\ wk'[v].mine = lastClaim + 1 \/ (wk'[v].mine = wk[v].mine /\ wk[v].pc # "release")
  <2>1. CASE v # w
    BY <1>1, <1>10, <2>1
  <2>2. CASE v = w
    BY <1>1, <1>10, <2>2 DEF Forgets, GoesOn, Reclaims, Captures, Snaps
  <2> QED
    BY <2>1, <2>2
<1>11. \A m, n : <<"auto", m>> = <<"auto", n>> => m = n
  OBVIOUS
<1>12. ASSUME NEW v \in Workers, wk'[v].mine # NoClaim, wk'[v].pc # "release"
       PROVE  row'.content # <<"auto", wk'[v].mine>>
  <2>1. row.content # <<"auto", wk'[v].mine>>
    BY <1>0, <1>2, <1>3, <1>10, <1>12 DEF Unpublished
  <2>2. ASSUME Publishes(w) PROVE wk'[v].mine # wk[w].mine
    <3>1. wk[w].mine # NoClaim /\ wk[w].mine <= lastClaim /\ wk[w].pc = "generate"
      BY <1>4, <2>2 DEF Publishes
    <3>2. CASE wk'[v].mine = lastClaim + 1
      BY <1>0, <3>1, <3>2
    <3>3. CASE wk'[v].mine = wk[v].mine /\ v # w
      BY <3>1, <3>3 DEF LeaseInv, Owned
    <3>4. CASE v = w
      <4>1. wk'[w].mine = NoClaim \/ wk'[w].mine = lastClaim + 1 \/ wk'[w].pc = "release"
        BY <2>2 DEF Publishes, Forgets
      <4> QED
        BY <1>12, <3>2, <3>4, <4>1
    <3> QED
      BY <1>10, <1>12, <3>2, <3>3, <3>4
  <2> QED
    BY <1>6, <1>11, <2>1, <2>2
<1>13. ASSUME NEW v \in Workers, wk'[v].mine # NoClaim, wk'[v].pc # "release",
              NEW u \in Workers
       PROVE  wk'[u].snap.content # <<"auto", wk'[v].mine>>
  <2>1. /\ row.content # <<"auto", wk'[v].mine>> /\ NoText # <<"auto", wk'[v].mine>>
        /\ wk[u].snap.content # <<"auto", wk'[v].mine>>
    BY <1>0, <1>2, <1>3, <1>5, <1>10, <1>13 DEF Unpublished
  <2>2. CASE u = w
    BY <1>7, <2>1, <2>2
  <2>3. CASE u # w
    BY <1>1, <2>1, <2>3
  <2> QED
    BY <2>2, <2>3
<1>14. ASSUME NEW v \in Workers, wk'[v].pc \in Captured, wk'[v].snap.content = row'.content
       PROVE  wk'[v].edits = edits'
  <2>1. CASE row'.content = row.content
    <3>1. CASE v # w
      BY <1>1, <1>14, <2>1, <3>1 DEF EditInv
    <3>2. CASE v = w /\ GoesOn(w)
      BY <1>1, <1>14, <2>1, <3>2 DEF EditInv, GoesOn
    <3>3. CASE v = w /\ Captures(w)
      BY <1>1, <3>3 DEF Captures
    <3>4. CASE v = w /\ (Forgets(w) \/ Reclaims(w) \/ Snaps(w))
      BY <1>14, <3>4 DEF Forgets, Reclaims, Snaps, Captured, Preparing
    <3> QED
      BY <1>1, <3>1, <3>2, <3>3, <3>4
  <2>2. CASE Publishes(w) /\ row'.content = <<"auto", wk[w].mine>>
    <3>1. wk[w].mine # NoClaim /\ wk[w].pc = "generate"
      BY <1>4, <2>2 DEF Publishes
    <3>2. CASE v # w
      BY <1>1, <1>2, <1>14, <2>2, <3>1, <3>2 DEF Unpublished
    <3>3. CASE v = w
      BY <1>14, <2>2, <3>3 DEF Publishes, Forgets
    <3> QED
      BY <3>2, <3>3
  <2> QED
    BY <1>6, <2>1, <2>2
<1>15. ASSUME row'.status = "summarizing", row'.hash = row'.content
       PROVE  edits' = baseEdits'
  <2>1. CASE ContentKept
    BY <1>1, <1>15, <2>1 DEF ContentKept, EditInv
  <2>2. CASE BatchBegins(w)
    BY <1>1, <1>15, <2>2 DEF BatchBegins, EditInv
  <2>3. CASE Publishes(w)
    BY <1>15, <2>3 DEF Publishes
  <2> QED
    BY <1>1, <2>1, <2>2, <2>3
<1>16. ASSUME NEW v \in Workers, wk'[v].pc = "generate"
       PROVE  wk'[v].snap.status = "summarizing" /\ wk'[v].snap.hash = wk'[v].snap.content
  <2>1. CASE v # w
    BY <1>1, <1>16, <2>1 DEF EditInv
  <2>2. CASE v = w
    BY <1>1, <1>16, <2>2 DEF Forgets, GoesOn, Reclaims, Captures, Snaps
  <2> QED
    BY <2>1, <2>2
<1>17. \A v \in Workers : Unpublished(v)'
  BY <1>12, <1>13 DEF Unpublished
<1>18. Dated(row.content)' /\ Dated(row.hash)' /\ \A v \in Workers : Dated(wk[v].snap.content)'
  BY <1>8, <1>9 DEF Dated, DatedNext
<1> QED
  BY <1>14, <1>15, <1>16, <1>17, <1>18 DEF EditInv

\* The other writers keep it: an edit is a text nobody captured.
LEMMA EditElsewhere ==
    ASSUME TypeOK, EditInv, Elsewhere
    PROVE  EditInv'
<1>0. /\ row.content \in Text /\ row.hash \in Text /\ events \in Nat
      /\ \A v \in Workers : wk[v].snap.content \in Text
  BY DEF TypeOK, Row, Worker
<1>1. /\ events' \in {events, events + 1} /\ lastClaim' = lastClaim
      /\ baseEdits' = baseEdits /\ row'.hash = row.hash
      /\ \A v \in Workers : /\ wk'[v].pc = wk[v].pc /\ wk'[v].snap = wk[v].snap
                            /\ wk'[v].mine = wk[v].mine /\ wk'[v].edits = wk[v].edits
  BY DEF Elsewhere
<1>2. ASSUME NEW t \in Text, Dated(t) PROVE DatedNext(t) /\ t # <<"human", events + 1>>
  BY <1>1, <1>2, DatedKept
<1>3. /\ DatedNext(row.content) /\ DatedNext(row.hash) /\ row.hash # <<"human", events + 1>>
      /\ \A v \in Workers : /\ DatedNext(wk[v].snap.content)
                            /\ wk[v].snap.content # <<"human", events + 1>>
  BY <1>0, <1>2 DEF EditInv
<1>4. Dated(row.hash)' /\ \A v \in Workers : Dated(wk[v].snap.content)'
  BY <1>1, <1>3 DEF Dated, DatedNext
<1>5. \A v \in Workers : /\ wk'[v].pc = "generate" =>
                               /\ wk'[v].snap.status = "summarizing"
                               /\ wk'[v].snap.hash = wk'[v].snap.content
  BY <1>1 DEF EditInv
<1>6. CASE row'.content = row.content /\ edits' = edits
           /\ (row'.status = "summarizing" => row.status = "summarizing")
  <2>1. Dated(row.content)'
    BY <1>3, <1>6 DEF Dated, DatedNext
  <2>2. \A v \in Workers : Unpublished(v)'
    BY <1>1, <1>6 DEF EditInv, Unpublished
  <2> QED
    BY <1>1, <1>4, <1>5, <1>6, <2>1, <2>2 DEF EditInv
<1>7. CASE row'.content = <<"human", events + 1>> /\ events' = events + 1
  <2>1. DatedNext(<<"human", events + 1>>)
    <3>1. <<"human", events + 1>>[1] = "human" /\ <<"human", events + 1>>[2] = events + 1
      OBVIOUS
    <3> QED
      BY <1>0, <1>7, <3>1 DEF DatedNext
  <2>2. Dated(row.content)'
    BY <1>7, <2>1 DEF Dated, DatedNext
  <2>3. \A n : <<"human", events + 1>> # <<"auto", n>>
    OBVIOUS
  <2>4. \A v \in Workers : Unpublished(v)'
    BY <1>1, <1>7, <2>3 DEF EditInv, Unpublished
  <2> QED
    BY <1>1, <1>3, <1>4, <1>5, <1>7, <2>2, <2>4 DEF EditInv
<1> QED
  BY <1>6, <1>7 DEF Elsewhere

\* So every step keeps it.
LEMMA EditNext ==
    ASSUME TypeOK, LeaseInv, EditInv, [Next]_vars
    PROVE  EditInv'
<1>1. CASE UNCHANGED vars
  BY <1>1 DEF vars, EditInv, Unpublished, Dated
<1> QED
  BY <1>1, AnyBatchStep, EditStep, ElsewhereStep, EditElsewhere DEF Next

\* A step that puts a generated summary in the row publishes it.
LEMMA OnlyPublishes ==
    ASSUME TypeOK, [Next]_vars, row'.content # row.content, row'.content[1] = "auto"
    PROVE  \E w \in Workers : Publishes(w)
<1>1. Next
  BY DEF vars
<1>2. ~Elsewhere
  <2>1. <<"human", events + 1>>[1] = "human"
    OBVIOUS
  <2> QED
    BY <2>1 DEF Elsewhere
<1>3. PICK w \in Workers : BatchStep(w)
  BY <1>1, <1>2, AnyBatchStep, ElsewhereStep DEF Next
<1> QED
  BY <1>3 DEF BatchStep, ContentKept, BatchBegins

\* A generated summary never overwrites content the owner wrote after the batch captured
\* its transcript, for any number of invocations, of resumed attempts and of edits: the
\* batch's content hash and the publication fence stand for "nobody edited since".
THEOREM OwnerContentIsKept == Spec => OwnerContentKept
<1>1. TypeOK /\ LeaseInv /\ EditInv /\ [Next]_vars => EditInv'
  BY EditNext
<1>2. TypeOK /\ EditInv /\ [Next]_vars
      => [row'.content # row.content /\ row'.content[1] = "auto" => edits = baseEdits]_vars
  <2> SUFFICES ASSUME TypeOK, EditInv, [Next]_vars,
                      row'.content # row.content, row'.content[1] = "auto"
               PROVE  edits = baseEdits
    OBVIOUS
  <2>1. PICK w \in Workers : Publishes(w)
    BY OnlyPublishes
  <2>2. wk[w].snap.status = "summarizing" /\ wk[w].snap.hash = wk[w].snap.content
    BY <2>1 DEF Publishes, EditInv
  <2>3. row.status = "summarizing" /\ row.hash = row.content
    BY <2>1, <2>2 DEF Publishes, SameSummaryFence
  <2> QED
    BY <2>3 DEF EditInv
<1> QED
  BY <1>1, <1>2, EditInit, TypeCorrect, LeaseHolds, PTL DEF Spec, OwnerContentKept

\* The summary that is published was generated from the transcript the row holds at that
\* moment, for any number of invocations and of transcript writers: only the claim's owner
\* publishes under that claim, and its fence pins the transcript it read.
THEOREM SummariesMatch == Spec => SummaryMatchesTranscript
<1>1. TypeOK /\ LeaseInv /\ [Next]_vars
      => [\A w \in Workers : row'.content = <<"auto", wk[w].mine>>
                             /\ row.content # row'.content
                             => wk[w].snap.transcript = row'.transcript]_vars
  <2> SUFFICES ASSUME TypeOK, LeaseInv, [Next]_vars, NEW w \in Workers,
                      row'.content = <<"auto", wk[w].mine>>, row.content # row'.content
               PROVE  wk[w].snap.transcript = row'.transcript
    OBVIOUS
  <2>1. PICK v \in Workers : Publishes(v)
    BY OnlyPublishes
  <2>2. wk[v].mine = wk[w].mine /\ wk[v].mine # NoClaim
    BY <2>1 DEF Publishes, LeaseInv, Fenced, Releasing
  <2>3. v = w
    BY <2>2 DEF LeaseInv, Owned
  <2> QED
    BY <2>1, <2>3 DEF Publishes, SameSummaryFence
<1> QED
  BY <1>1, TypeCorrect, LeaseHolds, PTL DEF Spec, SummaryMatchesTranscript
=============================================================================
