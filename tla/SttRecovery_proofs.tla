------------------------ MODULE SttRecovery_proofs ------------------------
(***************************************************************************)
(* Theorems about SttRecovery for any number of overlapping ticks, audio   *)
(* files, owner actions and faults, and any durations in their order.      *)
(***************************************************************************)
EXTENDS SttRecovery, TLAPS

USE DurationAssumption, BoundAssumption

\* What a tick may do besides the scan and a crash does not concern these.
Outside ==
    \/ StartTranscription \/ (\E run \in Runs : TaskEnds(run)) \/ Summarize
    \/ PutAudio \/ (\E a \in Audio : BindMeetingAudioKey(a)) \/ RediarizeMeeting
    \/ CopyForRediarize \/ UpdateMeeting \/ Relate \/ ReadExpiresStuck

\* What a tick decided is still within the budgets and concerns a bound recording, and
\* the recovery starts no task through an event.
Pending ==
    /\ \A run \in starts : run[2] # "recovery"
    /\ \A t \in Ticks :
          /\ tick[t].pc \in {"cluster", "claim", "redrive", "run"} => tick[t].seen.audio # 0
          /\ tick[t].pc \in {"cluster", "claim"} => BudgetLeft(Attempts(tick[t].seen))
          /\ tick[t].pc = "redrive" => BudgetLeft(Redrives(tick[t].seen))
          /\ tick[t].pc = "release" => tick[t].code # "none"

TypeInv == TypeOK /\ Pending

-----------------------------------------------------------------------------
(* Values. *)

\* The fields of a row.
LEMMA RowFields ==
    ASSUME NEW r \in Row
    PROVE  /\ r.audio \in 0 .. MaxAudios /\ r.updatedAt \in Nat /\ r.idle \in Nat
           /\ r.failedAt \in Nat /\ r.attempts \in 0 .. MaxAttempts
           /\ r.recoveryKey \in 0 .. MaxAudios /\ r.claimedAt \in Nat /\ r.claimAge \in Nat
           /\ r.redrives \in 0 .. MaxAttempts /\ r.redrivenAt \in Nat /\ r.redriveAge \in Nat
           /\ Attempts(r) \in 0 .. MaxAttempts /\ Redrives(r) \in 0 .. MaxAttempts
<1>1. /\ r.audio \in 0 .. MaxAudios /\ r.updatedAt \in Nat /\ r.idle \in Nat
      /\ r.failedAt \in Nat /\ r.attempts \in 0 .. MaxAttempts
      /\ r.recoveryKey \in 0 .. MaxAudios /\ r.claimedAt \in Nat /\ r.claimAge \in Nat
      /\ r.redrives \in 0 .. MaxAttempts /\ r.redrivenAt \in Nat /\ r.redriveAge \in Nat
  BY DEF Row
<1> QED
  BY <1>1 DEF Attempts, Redrives, OfKey

\* Rows as the actions build them.
LEMMA RowMoves ==
    ASSUME NEW r \in Row, NEW n \in Nat
    PROVE  /\ FreshRow \in Row
           /\ [r EXCEPT !.updatedAt = n, !.idle = 0] \in Row
           /\ \A s \in {"transcribing", "error", "done", "gone"} : [r EXCEPT !.status = s] \in Row
           /\ \A a \in 0 .. MaxAudios : [FreshRow EXCEPT !.audio = a] \in Row
           /\ \A a \in 0 .. MaxAudios :
                 [r EXCEPT !.status = "transcribing", !.audio = a] \in Row
           /\ [r EXCEPT !.status = "transcribing", !.hint = TRUE] \in Row
           /\ \A code \in Retryable \cup Terminal :
                 [r EXCEPT !.status = "error", !.code = code, !.failedAt = n,
                           !.updatedAt = n, !.idle = 0] \in Row
<1>1. FreshRow \in Row
  BY DEF FreshRow, Row
<1>2. [r EXCEPT !.updatedAt = n, !.idle = 0] \in Row
  BY DEF Row
<1>3. \A s \in {"transcribing", "error", "done", "gone"} : [r EXCEPT !.status = s] \in Row
  BY DEF Row
<1>4. \A a \in 0 .. MaxAudios : [FreshRow EXCEPT !.audio = a] \in Row
  BY <1>1 DEF Row
<1>5. \A a \in 0 .. MaxAudios : [r EXCEPT !.status = "transcribing", !.audio = a] \in Row
  BY DEF Row
<1>6. [r EXCEPT !.status = "transcribing", !.hint = TRUE] \in Row
  BY DEF Row
<1>7. \A code \in Retryable \cup Terminal :
        [r EXCEPT !.status = "error", !.code = code, !.failedAt = n,
                  !.updatedAt = n, !.idle = 0] \in Row
  BY DEF Row
<1> QED
  BY <1>1, <1>2, <1>3, <1>4, <1>5, <1>6, <1>7

\* Age adds at most one unit to the three ages of a row and changes nothing else.
LEMMA AgedRow ==
    ASSUME NEW r \in Row
    PROVE  /\ Aged(r) \in Row
           /\ Aged(r).status = r.status /\ Aged(r).audio = r.audio /\ Aged(r).hint = r.hint
           /\ Aged(r).code = r.code /\ Aged(r).updatedAt = r.updatedAt
           /\ Aged(r).failedAt = r.failedAt /\ Aged(r).attempts = r.attempts
           /\ Aged(r).recoveryKey = r.recoveryKey /\ Aged(r).claimedAt = r.claimedAt
           /\ Aged(r).redrives = r.redrives /\ Aged(r).redrivenAt = r.redrivenAt
           /\ Aged(r).idle = Older(r.idle, Grace)
           /\ Aged(r).claimAge = Older(r.claimAge, Deadline)
           /\ Attempts(Aged(r)) = Attempts(r) /\ Redrives(Aged(r)) = Redrives(r)
<1>1. \A n, m \in Nat : Older(n, m) \in Nat
  BY DEF Older
<1>2. Grace \in Nat /\ Deadline \in Nat /\ MinAge \in Nat
  OBVIOUS
<1>3. /\ Older(r.idle, Grace) \in Nat /\ Older(r.claimAge, Deadline) \in Nat
      /\ Older(r.redriveAge, MinAge) \in Nat
  BY <1>1, <1>2, RowFields
<1>4. Aged(r) \in Row
  BY <1>3 DEF Aged, Row
<1>5. /\ Aged(r).status = r.status /\ Aged(r).audio = r.audio /\ Aged(r).hint = r.hint
      /\ Aged(r).code = r.code /\ Aged(r).updatedAt = r.updatedAt
      /\ Aged(r).failedAt = r.failedAt /\ Aged(r).attempts = r.attempts
      /\ Aged(r).recoveryKey = r.recoveryKey /\ Aged(r).claimedAt = r.claimedAt
      /\ Aged(r).redrives = r.redrives /\ Aged(r).redrivenAt = r.redrivenAt
      /\ Aged(r).idle = Older(r.idle, Grace)
      /\ Aged(r).claimAge = Older(r.claimAge, Deadline)
  BY DEF Aged, Row
<1> QED
  BY <1>4, <1>5 DEF Attempts, Redrives, OfKey

\* Older adds at most one, and respects the order.
LEMMA OlderGrows ==
    ASSUME NEW n \in Nat, NEW limit \in Nat
    PROVE  Older(n, limit) \in Nat /\ n <= Older(n, limit) /\ Older(n, limit) <= n + 1
  BY DEF Older

LEMMA OlderMonotone ==
    ASSUME NEW n \in Nat, NEW m \in Nat, NEW limit \in Nat, n <= m
    PROVE  Older(n, limit) <= Older(m, limit)
  BY DEF Older

-----------------------------------------------------------------------------
(* What the shared writes do to the row. *)

RowKept == row' = row /\ touched' = touched /\ stamp' \in {stamp, now}

RowWritten ==
    /\ row' \in Row /\ stamp' = now /\ touched' = TRUE
    /\ row'.updatedAt = now /\ row'.idle = 0 /\ row'.failedAt = row.failedAt
    /\ row'.claimedAt = row.claimedAt /\ row'.claimAge = row.claimAge
    /\ row'.attempts = row.attempts /\ row'.status # "gone"

RowMarked ==
    /\ row' \in Row /\ stamp' = now /\ touched' = FALSE
    /\ row'.updatedAt = now /\ row'.idle = 0 /\ row'.failedAt = now
    /\ row'.claimedAt = row.claimedAt /\ row'.claimAge = row.claimAge
    /\ row'.attempts = row.attempts /\ row'.status # "gone"

\* A write of a row that differs in status, audio or hint only.
LEMMA WriteEffect ==
    ASSUME TypeOK, NEW r \in Row, Write(r), r.status # "gone", r.failedAt = row.failedAt,
           r.claimedAt = row.claimedAt, r.claimAge = row.claimAge, r.attempts = row.attempts
    PROVE  RowWritten
<1>1. now \in Nat
  BY DEF TypeOK, now
<1>2. row' = [r EXCEPT !.updatedAt = now, !.idle = 0] /\ stamp' = now /\ touched' = TRUE
  BY DEF Write
<1>3. row' \in Row
  BY <1>1, <1>2, RowMoves
<1> QED
  BY <1>2, <1>3 DEF Row, RowWritten

\* A failure mark.
LEMMA MarkEffect ==
    ASSUME TypeOK, NEW code \in Retryable \cup Terminal, markSttFailure(code)
    PROVE  RowMarked
<1>1. now \in Nat /\ row \in Row
  BY DEF TypeOK, now
<1>2. /\ row' = [row EXCEPT !.status = "error", !.code = code, !.failedAt = now,
                            !.updatedAt = now, !.idle = 0]
      /\ stamp' = now /\ touched' = FALSE
  BY DEF markSttFailure
<1>3. row' \in Row
  BY <1>1, <1>2, RowMoves
<1> QED
  BY <1>1, <1>2, <1>3 DEF Row, RowMarked

-----------------------------------------------------------------------------
(* The actions of Whisper, the Lambdas, the owner and detail reads. *)

\* A task of an upload or a copy is not the recovery's.
LEMMA RunParts ==
    ASSUME NEW run \in Runs
    PROVE  /\ run[1] \in Audio /\ run[2] \in {"upload", "copy", "recovery"}
           /\ run[1] \in 0 .. MaxAudios
  BY DEF Runs, Audio

\* One task more, or one less where there is one.
LEMMA TaskCounts ==
    ASSUME TypeOK, NEW run \in Runs
    PROVE  /\ [tasks EXCEPT ![run] = @ + 1] \in [Runs -> Nat]
           /\ tasks[run] > 0 => [tasks EXCEPT ![run] = @ - 1] \in [Runs -> Nat]
           /\ \A r \in Runs : [tasks EXCEPT ![run] = @ - 1][r] <= tasks[r]
           /\ \A r \in Runs : r # run => [tasks EXCEPT ![run] = @ + 1][r] = tasks[r]
<1>1. tasks \in [Runs -> Nat]
  BY DEF TypeOK
<1>2. tasks[run] \in Nat /\ \A r \in Runs : tasks[r] \in Nat
  BY <1>1
<1> QED
  BY <1>1, <1>2

\* What these actions leave to the proofs about the tick.
OutsideEffect ==
    /\ tick' = tick /\ claims' = claims /\ (RowKept \/ RowWritten \/ RowMarked)
    /\ bucket'.audio = bucket.audio /\ (row.status = "gone" => row' = row)
    /\ \A run \in starts' : run[2] # "recovery"
    /\ \A run \in Runs : run[2] = "recovery" => tasks'[run] <= tasks[run]

LEMMA OutsideTranscription ==
    ASSUME TypeInv, StartTranscription \/ (\E run \in Runs : TaskEnds(run))
    PROVE  TypeOK' /\ OutsideEffect
<1> USE DEF TypeInv, TypeOK, Unwritten, Others, Fault
<1>0. row \in Row /\ now \in Nat /\ tasks \in [Runs -> Nat] /\ (\A run \in Runs : tasks[run] \in Nat)
  BY DEF now
<1>k. Unwritten => RowKept
  BY DEF RowKept
<1>1. CASE StartTranscription
  <2>1. PICK run \in starts :
          \/ /\ tasks' = [tasks EXCEPT ![run] = @ + 1] /\ starts' = starts \ {run}
             /\ Unwritten /\ UNCHANGED faults
          \/ /\ Fault /\ Write([row EXCEPT !.status = "error"])
             /\ starts' \in {starts, starts \ {run}} /\ UNCHANGED tasks
    BY <1>1 DEF StartTranscription
  <2>2. run \in Runs /\ run[2] # "recovery" /\ starts' \subseteq Runs
    BY <2>1 DEF Pending
  <2>3. \A r \in starts' : r[2] # "recovery"
    BY <2>1 DEF Pending
  <2>4. UNCHANGED <<bucket, event, tick, Others, claims>> /\ row.status # "gone"
    BY <1>1 DEF StartTranscription, Open
  <2>5. CASE Unwritten /\ UNCHANGED faults /\ tasks' = [tasks EXCEPT ![run] = @ + 1]
    BY <1>k, <2>2, <2>3, <2>4, <2>5, TaskCounts DEF OutsideEffect
  <2>6. CASE Fault /\ Write([row EXCEPT !.status = "error"]) /\ UNCHANGED tasks
    <3>1. [row EXCEPT !.status = "error"] \in Row
      BY <1>0, RowMoves
    <3>2. RowWritten
      BY <1>0, <2>6, <3>1, WriteEffect DEF Row
    <3>3. row' \in Row /\ stamp' \in Nat /\ touched' \in BOOLEAN
      BY <1>0, <3>2 DEF RowWritten
    <3> QED
      BY <1>0, <2>2, <2>3, <2>4, <2>6, <3>2, <3>3 DEF OutsideEffect
  <2> QED
    BY <2>1, <2>5, <2>6
<1>2. ASSUME NEW run \in Runs, TaskEnds(run) PROVE TypeOK' /\ OutsideEffect
  <2>1. TaskDone(run)
    BY <1>2 DEF TaskEnds, UploadTranscript, MarkFailure, TaskLost
  <2>2. tasks' \in [Runs -> Nat] /\ (\A r \in Runs : tasks'[r] <= tasks[r]) /\ row.status # "gone"
    BY <2>1, TaskCounts DEF TaskDone, Open
  <2>3. CASE UploadTranscript(run)
    <3>1. bucket' = [bucket EXCEPT !.etag = now, !.from = run[1], !.modified = now, !.age = 0,
                                   !.speech = sound[run[1]] = "speech"]
      BY <2>3 DEF UploadTranscript
    <3>2. bucket' \in Bucket /\ bucket'.audio = bucket.audio
      BY <1>0, <3>1, RunParts DEF Bucket
    <3>3. RowKept
      BY <2>3 DEF UploadTranscript, RowKept
    <3> QED
      BY <1>0, <2>2, <2>3, <3>2, <3>3 DEF UploadTranscript, OutsideEffect, Pending
  <2>4. CASE MarkFailure(run)
    <3>1. FailureCode(sound[run[1]] = "corrupt") \in Retryable \cup Terminal
      BY DEF FailureCode, Retryable, Terminal, Deletable
    <3>2. \/ markSttFailure(FailureCode(sound[run[1]] = "corrupt")) \/ Unwritten
      BY <2>4 DEF MarkFailure
    <3>3. RowMarked \/ Unwritten
      BY <3>1, <3>2, MarkEffect
    <3>4. row' \in Row /\ stamp' \in Nat /\ touched' \in BOOLEAN
      BY <1>0, <3>3 DEF RowMarked
    <3>5. faults' \in Nat
      BY <2>4 DEF MarkFailure
    <3> QED
      BY <1>k, <2>2, <2>4, <3>3, <3>4, <3>5 DEF MarkFailure, OutsideEffect, Pending
  <2>5. CASE TaskLost(run)
    BY <1>k, <2>2, <2>5 DEF TaskLost, OutsideEffect, Pending
  <2> QED
    BY <1>2, <2>3, <2>4, <2>5 DEF TaskEnds
<1> QED
  BY <1>1, <1>2

LEMMA OutsideSummarize ==
    ASSUME TypeInv, Summarize
    PROVE  TypeOK' /\ OutsideEffect
<1> USE DEF TypeInv, TypeOK, Unwritten, Quiet, Fault
<1>0. row \in Row /\ now \in Nat /\ tasks \in [Runs -> Nat] /\ (\A run \in Runs : tasks[run] \in Nat)
  BY DEF now
<1>k. Unwritten => RowKept
  BY DEF RowKept
<1>h. NoHandler \in Handler
  BY DEF NoHandler, Handler
<1>1. CASE CaptureTranscript
  <2>1. bucket.etag \in Nat /\ bucket.speech \in BOOLEAN /\ row.audio \in 0 .. MaxAudios
    BY <1>0, RowFields DEF Bucket
  <2>2. handler' \in Handler
    BY <1>1, <2>1 DEF CaptureTranscript, Handler
  <2>3. faults' \in Nat /\ event' = FALSE /\ Unwritten
    BY <1>1 DEF CaptureTranscript
  <2>4. UNCHANGED <<bucket, starts, tasks, tick, sound, puts, copying, related, acts,
                    bound, claims>>
    BY <1>1 DEF CaptureTranscript
  <2>5. TypeOK'
    BY <2>2, <2>3, <2>4
  <2> QED
    BY <1>0, <1>k, <2>3, <2>4, <2>5 DEF OutsideEffect, Pending
<1>2. CASE CheckTranscriptObjects
  <2>1. handler' \in Handler
    BY <1>2, <1>h DEF CheckTranscriptObjects, Handler
  <2> QED
    BY <1>0, <1>2, <1>k, <2>1 DEF CheckTranscriptObjects, OutsideEffect, Pending
<1>3. CASE FinishTranscript
  <2>1. \/ row.status = "transcribing" /\ Write([row EXCEPT !.status = "done"])
        \/ row.status = "transcribing" /\ Write([row EXCEPT !.status = "error"])
        \/ row.status = "transcribing" /\ markSttFailure("NO_SPEECH")
        \/ Unwritten
    BY <1>3 DEF FinishTranscript
  <2>2. [row EXCEPT !.status = "done"] \in Row /\ [row EXCEPT !.status = "error"] \in Row
    BY <1>0, RowMoves
  <2>3. \/ row.status = "transcribing" /\ RowWritten
        \/ row.status = "transcribing" /\ RowMarked
        \/ Unwritten
    <3>1. "NO_SPEECH" \in Retryable \cup Terminal
      BY DEF Terminal, Deletable
    <3>2. CASE row.status = "transcribing" /\ Write([row EXCEPT !.status = "done"])
      BY <1>0, <2>2, <3>2, WriteEffect DEF Row
    <3>3. CASE row.status = "transcribing" /\ Write([row EXCEPT !.status = "error"])
      BY <1>0, <2>2, <3>3, WriteEffect DEF Row
    <3>4. CASE row.status = "transcribing" /\ markSttFailure("NO_SPEECH")
      BY <3>1, <3>4, MarkEffect
    <3> QED
      BY <2>1, <3>2, <3>3, <3>4
  <2>4. row' \in Row /\ stamp' \in Nat /\ touched' \in BOOLEAN
    BY <1>0, <2>3 DEF RowMarked, RowWritten
  <2>5. faults' \in Nat /\ handler' \in Handler
    BY <1>3, <1>h DEF FinishTranscript
  <2> QED
    BY <1>0, <1>3, <1>k, <2>3, <2>4, <2>5 DEF FinishTranscript, OutsideEffect, Pending
<1> QED
  BY <1>1, <1>2, <1>3 DEF Summarize

LEMMA OutsideOwner ==
    ASSUME TypeInv, \/ PutAudio \/ (\E a \in Audio : BindMeetingAudioKey(a)) \/ RediarizeMeeting
                    \/ CopyForRediarize \/ UpdateMeeting \/ Relate \/ ReadExpiresStuck
    PROVE  TypeOK' /\ OutsideEffect
<1> USE DEF TypeInv, TypeOK, Unwritten, Rest
<1>0. row \in Row /\ now \in Nat /\ tasks \in [Runs -> Nat] /\ (\A run \in Runs : tasks[run] \in Nat)
  BY DEF now
<1>a. \A kind : Act(kind) => acts' \in Nat /\ row.status # "gone"
  BY DEF Act, Open
<1>1. CASE PutAudio
  <2>1. puts + 1 \in Audio /\ puts' \in 0 .. MaxAudios /\ <<puts + 1, "upload">> \in Runs
    BY <1>1 DEF PutAudio, Audio, Runs
  <2>2. PICK s \in Sounds : sound' = [sound EXCEPT ![puts + 1] = s]
    BY <1>1 DEF PutAudio
  <2>3. sound' \in [Audio -> {"speech", "silence", "corrupt"}]
    BY <2>1, <2>2
  <2>4. bucket' \in Bucket /\ bucket'.audio = bucket.audio
    BY <1>0, <1>1 DEF PutAudio, Bucket
  <2>5. acts' \in Nat
    BY <1>1, <1>a DEF PutAudio
  <2>6. starts' \subseteq Runs /\ \A run \in starts' : run[2] # "recovery"
    BY <1>1, <2>1 DEF PutAudio, Pending
  <2>7. UNCHANGED <<row, touched, copying, related, bound, Rest>> /\ stamp' = now
    BY <1>1 DEF PutAudio
  <2> QED
    BY <1>0, <2>1, <2>3, <2>4, <2>5, <2>6, <2>7 DEF OutsideEffect, RowKept
<1>2. ASSUME NEW a \in Audio, BindMeetingAudioKey(a) PROVE TypeOK' /\ OutsideEffect
  <2>0. BindMeetingAudioKey(a) /\ a \in 1 .. MaxAudios
    BY <1>2 DEF Audio
  <2>o. Open
    BY <2>0 DEF BindMeetingAudioKey
  <2>1. a \in 0 .. MaxAudios /\ row.status # "gone"
    BY <2>0, <2>o DEF Open
  <2>2. [row EXCEPT !.status = "transcribing", !.audio = a] \in Row
    BY <1>0, <2>1, RowMoves
  <2>3. RowWritten
    BY <1>0, <1>2, <2>2, WriteEffect DEF BindMeetingAudioKey, Row
  <2>4. acts' \in Nat /\ bound' \subseteq Audio
    BY <1>0, <1>2, <1>a DEF BindMeetingAudioKey
  <2>5. row' \in Row /\ stamp' \in Nat /\ touched' \in BOOLEAN
    BY <1>0, <2>3 DEF RowWritten
  <2>6. UNCHANGED <<bucket, sound, puts, starts, copying, related, Rest>>
    BY <1>2 DEF BindMeetingAudioKey
  <2> QED
    BY <1>0, <2>1, <2>3, <2>4, <2>5, <2>6 DEF OutsideEffect, Pending
<1>3. CASE RediarizeMeeting
  <2>1. Act("rediarize") /\ row.status # "gone" /\ acts' \in Nat
    BY <1>3, <1>a DEF RediarizeMeeting
  <2>2. [row EXCEPT !.status = "transcribing", !.hint = TRUE] \in Row
    BY <1>0, RowMoves
  <2>3. RowWritten
    BY <1>0, <1>3, <2>2, WriteEffect DEF RediarizeMeeting, Row
  <2>4. copying' \in 0 .. MaxAudios
    BY <1>0, <1>3, RowFields DEF RediarizeMeeting
  <2>5. row' \in Row /\ stamp' \in Nat /\ touched' \in BOOLEAN
    BY <1>0, <2>3 DEF RowWritten
  <2>6. UNCHANGED <<bucket, sound, puts, starts, related, bound, Rest>>
    BY <1>3 DEF RediarizeMeeting
  <2> QED
    BY <1>0, <2>1, <2>3, <2>4, <2>5, <2>6 DEF OutsideEffect, Pending
<1>4. CASE CopyForRediarize
  <2>1. copying \in Audio /\ <<copying, "copy">> \in Runs /\ copying' \in 0 .. MaxAudios
    BY <1>4 DEF CopyForRediarize, Audio, Runs
  <2>2. bucket' \in Bucket /\ bucket'.audio = bucket.audio
    BY <1>0, <1>4 DEF CopyForRediarize, Bucket
  <2>3. starts' \subseteq Runs /\ \A run \in starts' : run[2] # "recovery"
    BY <1>4, <2>1 DEF CopyForRediarize, Pending
  <2>4. /\ UNCHANGED <<row, touched, sound, puts, related, acts, bound, Rest>>
        /\ stamp' = now
    BY <1>4 DEF CopyForRediarize
  <2> QED
    BY <1>0, <2>1, <2>2, <2>3, <2>4 DEF OutsideEffect, RowKept
<1>5. CASE UpdateMeeting
  <2>1. RowWritten /\ row.status # "gone" /\ acts' \in Nat
    BY <1>0, <1>5, <1>a, WriteEffect DEF UpdateMeeting
  <2>2. row' \in Row /\ stamp' \in Nat /\ touched' \in BOOLEAN
    BY <1>0, <2>1 DEF RowWritten
  <2> QED
    BY <1>0, <1>5, <2>1, <2>2 DEF UpdateMeeting, OutsideEffect, Pending
<1>6. CASE Relate
  <2>1. acts' \in Nat /\ related' \subseteq {"reference", "child", "field"}
    BY <1>6, <1>a DEF Relate
  <2> QED
    BY <1>0, <1>6, <2>1 DEF Relate, OutsideEffect, Pending, RowKept
<1>7. CASE ReadExpiresStuck
  <2>1. [row EXCEPT !.status = "error"] \in Row /\ row.status # "gone"
    BY <1>0, <1>7, RowMoves DEF ReadExpiresStuck
  <2>2. RowWritten
    BY <1>0, <1>7, <2>1, WriteEffect DEF ReadExpiresStuck, Row
  <2>3. row' \in Row /\ stamp' \in Nat /\ touched' \in BOOLEAN
    BY <1>0, <2>2 DEF RowWritten
  <2> QED
    BY <1>0, <1>7, <2>1, <2>2, <2>3 DEF ReadExpiresStuck, OutsideEffect, Pending
<1> QED
  BY <1>1, <1>2, <1>3, <1>4, <1>5, <1>6, <1>7

LEMMA OutsideStep ==
    ASSUME TypeInv, Outside
    PROVE  TypeOK' /\ OutsideEffect
  BY OutsideTranscription, OutsideSummarize, OutsideOwner DEF Outside

-----------------------------------------------------------------------------
(* The steps of a tick. *)

Alone(t) == \A u \in Ticks : u # t => tick'[u] = tick[u]

\* The tick is done with the row, or has only its claim to give back.
Halts(t) ==
    /\ Alone(t) /\ tick'[t].pc \in {"idle", "release"} /\ tick'[t].seen = FreshRow
    /\ tick'[t].life \in {0, tick[t].life}
    /\ tick'[t].pc = "release" => tick'[t].code # "none"

Scans(t) ==
    /\ Alone(t) /\ tick'[t].pc = "facts" /\ tick'[t].seen = row /\ tick'[t].life = 0
    /\ row.status # "gone"

Decides(t) ==
    /\ Alone(t) /\ tick[t].pc = "facts" /\ Decision(tick[t].seen) # "idle"
    /\ tick'[t].pc = Decision(tick[t].seen) /\ tick'[t].seen = tick[t].seen
    /\ tick'[t].life = tick[t].life
    /\ tick'[t].pc \in {"cluster", "redrive"} => tick'[t].claim = claimNow

Advances(t) ==
    /\ Alone(t) /\ tick'[t].seen = tick[t].seen /\ tick'[t].life = tick[t].life
    /\ tick'[t].claim = tick[t].claim
    /\ \/ tick[t].pc = "cluster" /\ tick'[t].pc = "claim" /\ NoTasks
       \/ tick[t].pc = "refs" /\ tick'[t].pc = "children"
       \/ tick[t].pc = "children" /\ tick'[t].pc = "delete"

Cleans(t) ==
    /\ Alone(t) /\ tick[t].pc = "delete" /\ tick'[t].pc = "objects"
    /\ tick'[t].seen = tick[t].seen /\ tick'[t].life = tick[t].life /\ row'.status = "gone"

Claims(t) ==
    /\ Alone(t)
    /\ \/ tick'[t] = NoTick
       \/ /\ tick'[t].seen = [FreshRow EXCEPT !.audio = row.audio]
          /\ tick'[t].life = tick[t].life
          /\ \/ tick[t].pc = "claim" /\ tick'[t].pc = "run"
             \/ tick[t].pc = "redrive" /\ tick'[t].pc = "copy"

RowDeleted(t) ==
    /\ tick[t].pc = "delete" /\ sttFailedMeetingDeleteCondition(tick[t].seen)
    /\ row' = [row EXCEPT !.status = "gone"] /\ UNCHANGED <<stamp, touched>>

MarkedByTick(t) == RowMarked /\ row.status \in {"transcribing", tick[t].seen.status}

RowClaimed(t) ==
    /\ tick[t].pc \in {"claim", "redrive"}
    /\ row' \in Row /\ stamp' = now /\ touched' = TRUE
    /\ row.status = tick[t].seen.status /\ row.updatedAt = tick[t].seen.updatedAt
    /\ row.audio = tick[t].seen.audio
    /\ row'.updatedAt = tick[t].claim /\ row'.idle = 0 /\ row'.failedAt = 0
    /\ tick[t].pc = "claim" => row'.claimedAt = tick[t].claim /\ row'.claimAge = 0
    /\ tick[t].pc = "redrive" => row'.claimedAt = row.claimedAt /\ row'.claimAge = row.claimAge
    /\ row'.status # "gone"
    /\ row.attempts = claims => row'.attempts = claims'

\* The row, the tick and the tasks: one of these together.
TickEffect(t) ==
    \/ Halts(t) /\ (RowKept \/ MarkedByTick(t) \/ RowDeleted(t)) /\ UNCHANGED <<claims, tasks>>
    \/ /\ Halts(t) /\ RowKept /\ UNCHANGED claims /\ tick[t].pc = "run"
       /\ tasks' = [tasks EXCEPT ![<<tick[t].seen.audio, "recovery">>] = @ + 1]
    \/ (Scans(t) \/ Decides(t) \/ Advances(t)) /\ row' = row /\ UNCHANGED <<stamp, touched, claims, tasks>>
    \/ Cleans(t) /\ ((row' = row /\ UNCHANGED <<stamp, touched>>) \/ RowDeleted(t)) /\ UNCHANGED <<claims, tasks>>
    \/ Claims(t) /\ RowClaimed(t) /\ UNCHANGED tasks

\* A tick put in the place of t's.
LEMMA TickMoves ==
    ASSUME TypeOK, NEW t \in Ticks, NEW k \in Tick, tick' = [tick EXCEPT ![t] = k]
    PROVE  tick' \in [Ticks -> Tick] /\ tick'[t] = k /\ Alone(t)
  BY DEF TypeOK, Alone

\* What a tick remembers stays within its type.
LEMMA TickValues ==
    ASSUME NEW k \in Tick, NEW r \in Row, NEW n \in Nat, NEW m \in Nat
    PROVE  /\ NoTick \in Tick /\ [NoTick EXCEPT !.pc = "facts", !.seen = r] \in Tick
           /\ k.seen \in Row /\ k.claim \in Nat /\ k.life \in Nat
           /\ k.code \in {"none", "RUNTASK_FAILED", "REDRIVE_FAILED"}
           /\ \A s \in Steps : [k EXCEPT !.pc = s] \in Tick
           /\ \A s \in Steps : [k EXCEPT !.pc = s, !.seen = r] \in Tick
           /\ \A s \in Steps : [k EXCEPT !.pc = s, !.claim = n, !.etag = m] \in Tick
           /\ \A c \in {"RUNTASK_FAILED", "REDRIVE_FAILED"} :
                 [k EXCEPT !.pc = "release", !.code = c, !.seen = r, !.etag = 0] \in Tick
<1>1. FreshRow \in Row
  BY RowMoves
<1>2. NoTick \in Tick
  BY <1>1 DEF NoTick, Tick, Steps
<1>3. [NoTick EXCEPT !.pc = "facts", !.seen = r] \in Tick
  BY <1>2 DEF Tick, Steps
<1>4. /\ k.seen \in Row /\ k.claim \in Nat /\ k.life \in Nat
      /\ k.code \in {"none", "RUNTASK_FAILED", "REDRIVE_FAILED"}
      /\ \A s \in Steps : [k EXCEPT !.pc = s] \in Tick
      /\ \A s \in Steps : [k EXCEPT !.pc = s, !.seen = r] \in Tick
      /\ \A s \in Steps : [k EXCEPT !.pc = s, !.claim = n, !.etag = m] \in Tick
  BY DEF Tick
<1>5. \A c \in {"RUNTASK_FAILED", "REDRIVE_FAILED"} :
         [k EXCEPT !.pc = "release", !.code = c, !.seen = r, !.etag = 0] \in Tick
  BY DEF Tick, Steps
<1> QED
  BY <1>2, <1>3, <1>4, <1>5

\* The tick leaves the row.
LEMMA StopEffect ==
    ASSUME TypeOK, NEW t \in Ticks, Stop(t)
    PROVE  tick' \in [Ticks -> Tick] /\ tick'[t] = NoTick /\ Halts(t)
<1>1. tick[t] \in Tick /\ row \in Row
  BY DEF TypeOK
<1>2. NoTick \in Tick
  BY <1>1, TickValues
<1>3. tick' \in [Ticks -> Tick] /\ tick'[t] = NoTick /\ Alone(t)
  BY <1>2, TickMoves DEF Stop
<1> QED
  BY <1>3 DEF Halts, NoTick

\* Its claim is to be given back.
LEMMA ReleaseEffect ==
    ASSUME TypeOK, NEW t \in Ticks, NEW c \in {"RUNTASK_FAILED", "REDRIVE_FAILED"}, Release(t, c)
    PROVE  tick' \in [Ticks -> Tick] /\ Halts(t)
<1>1. tick[t] \in Tick /\ row \in Row /\ FreshRow \in Row
  BY RowMoves DEF TypeOK
<1> DEFINE k == [tick[t] EXCEPT !.pc = "release", !.code = c, !.seen = FreshRow, !.etag = 0]
<1>2. k \in Tick
  BY <1>1, TickValues
<1>3. tick' = [tick EXCEPT ![t] = k]
  BY <1>1 DEF Release, TypeOK
<1>4. k.pc = "release" /\ k.seen = FreshRow /\ k.life = tick[t].life /\ k.code = c
  BY <1>1 DEF Tick
<1> HIDE DEF k
<1>5. tick' \in [Ticks -> Tick] /\ tick'[t] = k /\ Alone(t)
  BY <1>2, <1>3, TickMoves
<1> QED
  BY <1>4, <1>5 DEF Halts

\* Only the step of the tick changes.
LEMMA GotoEffect ==
    ASSUME TypeOK, NEW t \in Ticks, NEW s \in Steps, Goto(t, s)
    PROVE  /\ tick' \in [Ticks -> Tick] /\ Alone(t) /\ tick'[t].pc = s
           /\ tick'[t].seen = tick[t].seen /\ tick'[t].life = tick[t].life
           /\ tick'[t].claim = tick[t].claim
<1>1. tick[t] \in Tick /\ row \in Row
  BY DEF TypeOK
<1> DEFINE k == [tick[t] EXCEPT !.pc = s]
<1>2. k \in Tick
  BY <1>1, TickValues
<1>3. tick' = [tick EXCEPT ![t] = k]
  BY <1>1 DEF Goto, TypeOK
<1>4. k.pc = s /\ k.seen = tick[t].seen /\ k.life = tick[t].life /\ k.claim = tick[t].claim
  BY <1>1 DEF Tick
<1> HIDE DEF k
<1>5. tick' \in [Ticks -> Tick] /\ tick'[t] = k /\ Alone(t)
  BY <1>2, <1>3, TickMoves
<1> QED
  BY <1>4, <1>5

\* The scan takes the row as it is; the classification keeps it and remembers a timestamp.
LEMMA ReadingSteps ==
    ASSUME TypeInv, NEW t \in Ticks,
           \/ ScanSttRecoveryRows(t) \/ Classify(t) \/ clusterBusy(t)
           \/ ScanSttDeletionReferences(t) \/ QueryChildren(t) \/ Crash(t)
    PROVE  TypeOK' /\ TickEffect(t) /\ UNCHANGED <<starts, bucket>>
<1> USE DEF TypeInv
<1>0. TypeOK /\ tick[t] \in Tick /\ row \in Row /\ tick[t].seen \in Row /\ tick[t].claim \in Nat
      /\ stamp \in Nat /\ bucket.etag \in Nat
  <2>1. TypeOK /\ tick[t] \in Tick /\ row \in Row /\ stamp \in Nat /\ bucket \in Bucket
    BY DEF TypeOK
  <2> QED
    BY <2>1, TickValues DEF Bucket
<1>1. Unwritten /\ UNCHANGED <<Objects, Others, claims>>
  BY DEF ScanSttRecoveryRows, Classify, clusterBusy, ScanSttDeletionReferences, QueryChildren, Crash
<1>2. /\ RowKept /\ row' = row /\ UNCHANGED <<stamp, touched>>
      /\ UNCHANGED <<claims, tasks, starts, bucket>>
  BY <1>1 DEF Unwritten, Objects, RowKept
<1>3. faults' \in Nat
  BY <1>0 DEF ScanSttRecoveryRows, Classify, clusterBusy, ScanSttDeletionReferences, QueryChildren,
              Crash, Fault, TypeOK
<1>4. tick' \in [Ticks -> Tick] => TypeOK'
  BY <1>0, <1>1, <1>3 DEF TypeOK, Unwritten, Objects, Others
<1>5. CASE Stop(t)
  BY <1>0, <1>2, <1>4, <1>5, StopEffect DEF TickEffect
<1>6. CASE ScanSttRecoveryRows(t)
  <2> DEFINE k == [NoTick EXCEPT !.pc = "facts", !.seen = row]
  <2>1. k \in Tick
    BY <1>0, TickValues
  <2>2. tick' = [tick EXCEPT ![t] = k]
    BY <1>6 DEF ScanSttRecoveryRows
  <2>3. k.pc = "facts" /\ k.seen = row /\ k.life = 0
    BY DEF NoTick
  <2> HIDE DEF k
  <2>4. tick' \in [Ticks -> Tick] /\ tick'[t] = k /\ Alone(t)
    BY <1>0, <2>1, <2>2, TickMoves
  <2>5. row.status # "gone"
    BY <1>6 DEF ScanSttRecoveryRows
  <2> QED
    BY <1>2, <1>4, <2>3, <2>4, <2>5 DEF TickEffect, Scans
<1>7. CASE Classify(t) /\ ~Stop(t)
  <2> DEFINE s == Decision(tick[t].seen)
             n == IF s \in {"cluster", "redrive"} THEN claimNow ELSE 0
             m == IF RedriveSummary(tick[t].seen) THEN bucket.etag ELSE 0
             k == [tick[t] EXCEPT !.pc = s, !.claim = n, !.etag = m]
  <2>1. s # "idle" /\ tick' = [tick EXCEPT ![t].pc = s, ![t].claim = n, ![t].etag = m]
    BY <1>7 DEF Classify
  <2>2. s \in Steps /\ n \in Nat /\ m \in Nat
    BY <1>0 DEF Decision, Steps, claimNow
  <2>3. k \in Tick
    <3> HIDE DEF s, n, m
    <3> QED
      BY <1>0, <2>2, TickValues
  <2>4. tick' = [tick EXCEPT ![t] = k]
    <3> HIDE DEF s, n, m
    <3> QED
      BY <1>0, <2>1 DEF TypeOK
  <2>5. k.pc = s /\ k.seen = tick[t].seen /\ k.life = tick[t].life /\ k.claim = n
    <3> HIDE DEF s, n, m
    <3> QED
      BY <1>0 DEF Tick
  <2>6. tick' \in [Ticks -> Tick] /\ tick'[t] = k /\ Alone(t)
    <3> HIDE DEF k
    <3> QED
      BY <1>0, <2>3, <2>4, TickMoves
  <2>7. Decides(t)
    <3> HIDE DEF k
    <3> QED
      BY <1>7, <2>1, <2>5, <2>6 DEF Decides, Classify
  <2> QED
    BY <1>2, <1>4, <2>6, <2>7 DEF TickEffect
<1>8. CASE clusterBusy(t) /\ ~Stop(t)
  <2>1. tick[t].pc = "cluster" /\ NoTasks /\ Goto(t, "claim")
    BY <1>8 DEF clusterBusy
  <2>2. tick' \in [Ticks -> Tick] /\ Advances(t)
    BY <1>0, <2>1, GotoEffect DEF Steps, Advances
  <2> QED
    BY <1>2, <1>4, <2>2 DEF TickEffect
<1>9. CASE ScanSttDeletionReferences(t) /\ ~Stop(t)
  <2>1. tick[t].pc = "refs" /\ Goto(t, "children")
    BY <1>9 DEF ScanSttDeletionReferences
  <2>2. tick' \in [Ticks -> Tick] /\ Advances(t)
    BY <1>0, <2>1, GotoEffect DEF Steps, Advances
  <2> QED
    BY <1>2, <1>4, <2>2 DEF TickEffect
<1>10. CASE QueryChildren(t) /\ ~Stop(t)
  <2>1. tick[t].pc = "children" /\ Goto(t, "delete")
    BY <1>10 DEF QueryChildren
  <2>2. tick' \in [Ticks -> Tick] /\ Advances(t)
    BY <1>0, <2>1, GotoEffect DEF Steps, Advances
  <2> QED
    BY <1>2, <1>4, <2>2 DEF TickEffect
<1>11. CASE Crash(t)
  BY <1>5, <1>11 DEF Crash
<1> QED
  BY <1>5, <1>6, <1>7, <1>8, <1>9, <1>10, <1>11

\* A claim is written only over the row that was seen, and is charged once.
LEMMA ClaimWrite ==
    ASSUME TypeInv, NEW t \in Ticks, NEW r \in Row,
           tick[t].pc \in {"claim", "redrive"}, sttRecoveryBaseCondition(tick[t].seen),
           sttClaimUpdate(r, tick[t].claim)
    PROVE  /\ row' \in Row /\ stamp' = now /\ touched' = TRUE
           /\ row'.updatedAt = tick[t].claim /\ row'.idle = 0 /\ row'.failedAt = 0
           /\ row'.claimedAt = r.claimedAt /\ row'.claimAge = r.claimAge
           /\ row'.attempts = r.attempts /\ row'.status # "gone"
           /\ row.status = tick[t].seen.status /\ row.updatedAt = tick[t].seen.updatedAt
           /\ row.audio = tick[t].seen.audio /\ row.audio \in Audio
           /\ Attempts(row) = Attempts(tick[t].seen)
<1>1. TypeOK /\ tick[t] \in Tick /\ row \in Row /\ tick[t].seen.audio # 0
  BY DEF TypeInv, TypeOK, Pending
<1>2. tick[t].claim \in Nat /\ row.audio \in 0 .. MaxAudios
  BY <1>1, TickValues, RowFields
<1>3. /\ row' = [r EXCEPT !.status = "transcribing", !.recoveryKey = row.audio, !.code = "none",
                          !.failedAt = 0, !.updatedAt = tick[t].claim, !.idle = 0]
      /\ stamp' = now /\ touched' = TRUE
  BY DEF sttClaimUpdate
<1>4. /\ row' \in Row /\ row'.updatedAt = tick[t].claim /\ row'.idle = 0 /\ row'.failedAt = 0
      /\ row'.claimedAt = r.claimedAt /\ row'.claimAge = r.claimAge
      /\ row'.attempts = r.attempts /\ row'.status # "gone"
  BY <1>2, <1>3 DEF Row
<1>5. /\ row.status = tick[t].seen.status /\ row.updatedAt = tick[t].seen.updatedAt
      /\ row.audio = tick[t].seen.audio /\ row.attempts = tick[t].seen.attempts
      /\ row.recoveryKey = tick[t].seen.recoveryKey
  BY DEF sttRecoveryBaseCondition
<1>6. row.audio \in Audio
  BY <1>1, <1>2, <1>5 DEF Audio
<1> QED
  BY <1>3, <1>4, <1>5, <1>6 DEF Attempts, OfKey

\* The tick after a claim.
LEMMA ClaimedEffect ==
    ASSUME TypeInv, NEW t \in Ticks, NEW s \in {"run", "copy"}, Claimed(t, s),
           \/ tick[t].pc = "claim" /\ s = "run"
           \/ tick[t].pc = "redrive" /\ s = "copy"
    PROVE  tick' \in [Ticks -> Tick] /\ Claims(t) /\ faults' \in Nat
<1>0. TypeOK /\ tick[t] \in Tick /\ row \in Row
  BY DEF TypeInv, TypeOK
<1>1. CASE Stop(t) /\ Fault
  BY <1>0, <1>1, StopEffect DEF Claims, Halts, Fault, TypeOK
<1>2. CASE UNCHANGED faults /\ tick' = [tick EXCEPT ![t].pc = s,
                                           ![t].seen = [FreshRow EXCEPT !.audio = row.audio]]
  <2> DEFINE r == [FreshRow EXCEPT !.audio = row.audio]
             k == [tick[t] EXCEPT !.pc = s, !.seen = r]
  <2>1. r \in Row
    BY <1>0, RowMoves, RowFields
  <2>2. k \in Tick
    <3> HIDE DEF r
    <3> QED
      BY <1>0, <2>1, TickValues DEF Steps
  <2>3. tick' = [tick EXCEPT ![t] = k]
    <3> HIDE DEF r
    <3> QED
      BY <1>0, <1>2 DEF TypeOK, r
  <2>4. k.pc = s /\ k.seen = r /\ k.life = tick[t].life
    <3> HIDE DEF r
    <3> QED
      BY <1>0 DEF Tick
  <2>5. tick' \in [Ticks -> Tick] /\ tick'[t] = k /\ Alone(t)
    <3> HIDE DEF k
    <3> QED
      BY <1>0, <2>2, <2>3, TickMoves
  <2> HIDE DEF k
  <2> QED
    BY <1>0, <1>2, <2>4, <2>5 DEF Claims, TypeOK
<1> QED
  BY <1>1, <1>2 DEF Claimed

\* Both claims.
LEMMA ClaimingSteps ==
    ASSUME TypeInv, NEW t \in Ticks, ClaimSttRecovery(t) \/ ClaimSttSummaryRedrive(t)
    PROVE  TypeOK' /\ TickEffect(t) /\ UNCHANGED <<starts, bucket>>
<1> USE DEF TypeInv
<1>0. /\ TypeOK /\ tick[t] \in Tick /\ row \in Row /\ tick[t].seen \in Row /\ claims \in Nat
      /\ tick[t].claim \in Nat /\ now \in Nat /\ stamp \in Nat
  <2>1. TypeOK /\ tick[t] \in Tick /\ row \in Row /\ stamp \in Nat /\ claims \in Nat
    BY DEF TypeOK
  <2>2. now \in Nat
    BY <2>1 DEF now
  <2> QED
    BY <2>1, <2>2, TickValues
<1>1. UNCHANGED <<Objects, Others>> /\ UNCHANGED <<starts, bucket, tasks>>
  BY DEF ClaimSttRecovery, ClaimSttSummaryRedrive, Objects
<1>2. ASSUME tick' \in [Ticks -> Tick], row' \in Row, stamp' \in Nat, touched' \in BOOLEAN,
             claims' \in Nat, faults' \in Nat
      PROVE  TypeOK'
  BY <1>0, <1>1, <1>2 DEF TypeOK, Objects, Others
<1>3. ASSUME Stop(t), Unwritten, UNCHANGED claims, faults' \in Nat
      PROVE  TypeOK' /\ TickEffect(t)
  <2>1. RowKept /\ row' \in Row /\ stamp' \in Nat /\ touched' \in BOOLEAN /\ claims' \in Nat
    BY <1>0, <1>3 DEF Unwritten, RowKept, TypeOK
  <2> QED
    BY <1>0, <1>1, <1>2, <1>3, <2>1, StopEffect DEF TickEffect
<1>5. CASE ClaimSttRecovery(t)
  <2> DEFINE seen == tick[t].seen
             r == [row EXCEPT !.attempts = Attempts(seen) + 1, !.redrives = Redrives(row),
                              !.claimedAt = tick[t].claim, !.claimAge = 0]
  <2>1. tick[t].pc = "claim"
    BY <1>5 DEF ClaimSttRecovery
  <2>2. CASE /\ sttRecoveryBaseCondition(seen) /\ Claimed(t, "run")
             /\ sttClaimUpdate(r, tick[t].claim) /\ claims' = ClaimsOfKey + 1
    <3>1. Attempts(seen) + 1 \in 0 .. MaxAttempts /\ Redrives(row) \in 0 .. MaxAttempts
      <4>1. Attempts(seen) \in 0 .. MaxAttempts /\ BudgetLeft(Attempts(seen))
        BY <1>0, <2>1, RowFields DEF Pending
      <4> QED
        BY <1>0, <4>1, RowFields DEF BudgetLeft
    <3>2. /\ r \in Row /\ r.claimedAt = tick[t].claim /\ r.claimAge = 0
          /\ r.attempts = Attempts(seen) + 1
      <4> HIDE DEF seen
      <4> QED
        BY <1>0, <3>1 DEF Row
    <3>3. tick' \in [Ticks -> Tick] /\ Claims(t) /\ faults' \in Nat
      BY <2>1, <2>2, ClaimedEffect
    <3> HIDE DEF r
    <3>4. /\ row' \in Row /\ stamp' = now /\ touched' = TRUE
          /\ row'.updatedAt = tick[t].claim /\ row'.idle = 0 /\ row'.failedAt = 0
          /\ row'.claimedAt = r.claimedAt /\ row'.claimAge = r.claimAge
          /\ row'.attempts = r.attempts /\ row'.status # "gone"
          /\ row.status = seen.status /\ row.updatedAt = seen.updatedAt
          /\ row.audio = seen.audio /\ Attempts(row) = Attempts(seen)
      BY <2>1, <2>2, <3>2, ClaimWrite
    <3>5. row.attempts = claims => row'.attempts = claims'
      BY <2>2, <3>2, <3>4 DEF Attempts, OfKey, ClaimsOfKey
    <3>6. RowClaimed(t)
      BY <2>1, <3>2, <3>4, <3>5 DEF RowClaimed
    <3>7. claims' \in Nat
      BY <1>0, <2>2 DEF ClaimsOfKey
    <3> QED
      BY <1>0, <1>1, <1>2, <3>3, <3>4, <3>6, <3>7 DEF TickEffect
  <2>3. CASE NotClaimed(t, sttRecoveryBaseCondition(seen))
    <3>1. faults' \in Nat /\ Stop(t) /\ Unwritten /\ UNCHANGED claims
      BY <1>0, <2>3 DEF NotClaimed, Fault, TypeOK
    <3> QED
      BY <1>1, <1>3, <3>1
  <2> QED
    BY <1>1, <1>5, <2>2, <2>3 DEF ClaimSttRecovery
<1>6. CASE ClaimSttSummaryRedrive(t)
  <2> DEFINE seen == tick[t].seen
             holds == sttRecoveryBaseCondition(seen) /\ row.redrives = seen.redrives
             r == [row EXCEPT !.redrives = Redrives(seen) + 1, !.attempts = Attempts(row),
                              !.redriveAge = 0, !.redrivenAt = tick[t].claim]
  <2>1. tick[t].pc = "redrive"
    BY <1>6 DEF ClaimSttSummaryRedrive
  <2>2. CASE /\ holds /\ Claimed(t, "copy")
             /\ sttClaimUpdate(r, tick[t].claim) /\ claims' = ClaimsOfKey
    <3>1. Redrives(seen) + 1 \in 0 .. MaxAttempts /\ Attempts(row) \in 0 .. MaxAttempts
      <4>1. Redrives(seen) \in 0 .. MaxAttempts /\ BudgetLeft(Redrives(seen))
        BY <1>0, <2>1, RowFields DEF Pending
      <4> QED
        BY <1>0, <4>1, RowFields DEF BudgetLeft
    <3>2. /\ r \in Row /\ r.attempts = Attempts(row)
          /\ r.claimedAt = row.claimedAt /\ r.claimAge = row.claimAge
      <4> HIDE DEF seen
      <4> QED
        BY <1>0, <3>1 DEF Row
    <3>3. tick' \in [Ticks -> Tick] /\ Claims(t) /\ faults' \in Nat
      BY <2>1, <2>2, ClaimedEffect
    <3> HIDE DEF r
    <3>4. /\ row' \in Row /\ stamp' = now /\ touched' = TRUE
          /\ row'.updatedAt = tick[t].claim /\ row'.idle = 0 /\ row'.failedAt = 0
          /\ row'.claimedAt = r.claimedAt /\ row'.claimAge = r.claimAge
          /\ row'.attempts = r.attempts /\ row'.status # "gone"
          /\ row.status = seen.status /\ row.updatedAt = seen.updatedAt
          /\ row.audio = seen.audio
      BY <2>1, <2>2, <3>2, ClaimWrite
    <3>5. row.attempts = claims => row'.attempts = claims'
      BY <2>2, <3>2, <3>4 DEF Attempts, OfKey, ClaimsOfKey
    <3>6. RowClaimed(t)
      BY <2>1, <3>2, <3>4, <3>5 DEF RowClaimed
    <3>7. claims' \in Nat
      BY <1>0, <2>2 DEF ClaimsOfKey
    <3> QED
      BY <1>0, <1>1, <1>2, <3>3, <3>4, <3>6, <3>7 DEF TickEffect
  <2>3. CASE NotClaimed(t, holds)
    <3>1. faults' \in Nat /\ Stop(t) /\ Unwritten /\ UNCHANGED claims
      BY <1>0, <2>3 DEF NotClaimed, Fault, TypeOK
    <3> QED
      BY <1>1, <1>3, <3>1
  <2> QED
    BY <1>1, <1>6, <2>2, <2>3 DEF ClaimSttSummaryRedrive
<1> QED
  BY <1>1, <1>5, <1>6

\* What follows a claim.
LEMMA StartingSteps ==
    ASSUME TypeInv, NEW t \in Ticks, RunTask(t) \/ CopyObject(t)
    PROVE  TypeOK' /\ TickEffect(t) /\ starts' = starts /\ bucket'.audio = bucket.audio
<1> USE DEF TypeInv
<1>0. TypeOK /\ tick[t] \in Tick /\ row \in Row /\ stamp \in Nat /\ now \in Nat
  BY DEF TypeOK, now
<1>1. tick' \in [Ticks -> Tick] /\ Halts(t)
  BY <1>0, StopEffect, ReleaseEffect DEF RunTask, CopyObject
<1>2. faults' \in Nat
  BY <1>0 DEF RunTask, CopyObject, Fault, TypeOK
<1>3. CASE RunTask(t)
  <2> DEFINE run == <<tick[t].seen.audio, "recovery">>
  <2>1. tick[t].seen.audio \in Audio
    <3>1. tick[t].pc = "run" /\ tick[t].seen.audio # 0 /\ tick[t].seen \in Row
      BY <1>0, <1>3, TickValues DEF RunTask, Pending
    <3>2. tick[t].seen.audio \in 0 .. MaxAudios
      BY <3>1, RowFields
    <3> QED
      BY <3>1, <3>2 DEF Audio
  <2>2. run \in Runs
    BY <2>1 DEF Runs
  <2>3. tick[t].pc = "run" /\ tasks' \in {tasks, [tasks EXCEPT ![run] = @ + 1]}
    BY <1>3 DEF RunTask
  <2>4. tasks' \in [Runs -> Nat]
    BY <1>0, <2>2, <2>3, TaskCounts DEF TypeOK
  <2>5. Unwritten /\ UNCHANGED <<bucket, starts, event, Others, claims>>
    BY <1>3 DEF RunTask
  <2>6. TypeOK'
    BY <1>0, <1>1, <1>2, <2>4, <2>5 DEF TypeOK, Unwritten, Others
  <2> QED
    BY <1>1, <2>3, <2>5, <2>6 DEF TickEffect, Unwritten, RowKept
<1>4. CASE CopyObject(t)
  <2>1. UNCHANGED <<row, touched, starts, tasks, Others, claims>>
    BY <1>4 DEF CopyObject
  <2>2. bucket' \in Bucket /\ bucket'.audio = bucket.audio
    <3>1. bucket' = bucket \/ bucket' = [bucket EXCEPT !.modified = now, !.age = 0]
      BY <1>4 DEF CopyObject
    <3>2. bucket \in Bucket
      BY <1>0 DEF TypeOK
    <3>3. [bucket EXCEPT !.modified = now, !.age = 0] \in Bucket
      BY <1>0, <3>2 DEF Bucket
    <3>4. [bucket EXCEPT !.modified = now, !.age = 0].audio = bucket.audio
      BY <3>2 DEF Bucket
    <3> QED
      BY <3>1, <3>2, <3>3, <3>4
  <2>3. stamp' \in {stamp, now} /\ event' \in BOOLEAN
    BY <1>0, <1>4 DEF CopyObject, TypeOK
  <2>4. stamp' \in Nat
    BY <1>0, <2>3
  <2>5. TypeOK'
    BY <1>0, <1>1, <1>2, <2>1, <2>2, <2>3, <2>4 DEF TypeOK, Others
  <2> QED
    BY <1>1, <2>1, <2>2, <2>3, <2>5 DEF TickEffect, RowKept
<1> QED
  BY <1>3, <1>4

\* Marks, deletion and cleanup.
LEMMA EndingSteps ==
    ASSUME TypeInv, NEW t \in Ticks,
           \/ MarkSttFailureForClaim(t) \/ MarkSttFailureObserved(t)
           \/ DeleteSttFailedMeeting(t) \/ DeleteSttFailedMeetingObjects(t)
    PROVE  /\ TypeOK' /\ TickEffect(t) /\ starts' = starts
           /\ bucket'.audio = bucket.audio \/ tick[t].pc = "objects"
<1> USE DEF TypeInv
<1>0. TypeOK /\ tick[t] \in Tick /\ row \in Row /\ stamp \in Nat /\ now \in Nat /\ bucket \in Bucket
  BY DEF TypeOK, now
<1>k. Unwritten => RowKept /\ row' = row /\ UNCHANGED <<stamp, touched>>
  BY DEF Unwritten, RowKept
<1>1. faults' \in Nat
  BY <1>0 DEF MarkSttFailureForClaim, MarkSttFailureObserved, DeleteSttFailedMeeting,
              DeleteSttFailedMeetingObjects, Fault, TypeOK
<1>2. UNCHANGED <<starts, tasks, event, Others, claims>>
  BY DEF MarkSttFailureForClaim, MarkSttFailureObserved, DeleteSttFailedMeeting,
         DeleteSttFailedMeetingObjects, Objects
<1>3. bucket' \in Bucket
  <2>1. bucket' = bucket \/ bucket' = [bucket EXCEPT !.audio = FALSE, !.etag = 0]
    BY DEF MarkSttFailureForClaim, MarkSttFailureObserved, DeleteSttFailedMeeting,
           DeleteSttFailedMeetingObjects, Objects
  <2>2. [bucket EXCEPT !.audio = FALSE, !.etag = 0] \in Bucket
    BY <1>0 DEF Bucket
  <2> QED
    BY <1>0, <2>1, <2>2
<1>4. ASSUME tick' \in [Ticks -> Tick], row' \in Row, stamp' \in Nat, touched' \in BOOLEAN
      PROVE  TypeOK'
  BY <1>0, <1>1, <1>2, <1>3, <1>4 DEF TypeOK, Others
<1>5. CASE MarkSttFailureForClaim(t) \/ MarkSttFailureObserved(t)
  <2>1. Stop(t) /\ bucket' = bucket
    BY <1>5 DEF MarkSttFailureForClaim, MarkSttFailureObserved, Objects
  <2>2. Unwritten \/ \E code \in Retryable \cup Terminal : markSttFailure(code)
    <3>1. CASE MarkSttFailureForClaim(t)
      <4>1. tick[t].code \in Retryable \cup Terminal
        <5>1. tick[t].code \in {"none", "RUNTASK_FAILED", "REDRIVE_FAILED"} /\ tick[t].code # "none"
          BY <1>0, <3>1, TickValues DEF MarkSttFailureForClaim, Pending
        <5> QED
          BY <5>1 DEF Retryable
      <4> QED
        BY <3>1, <4>1 DEF MarkSttFailureForClaim
    <3>2. CASE MarkSttFailureObserved(t)
      BY <3>2 DEF MarkSttFailureObserved, Terminal
    <3> QED
      BY <1>5, <3>1, <3>2
  <2>3. RowKept \/ MarkedByTick(t)
    <3>1. RowKept \/ RowMarked
      BY <1>0, <1>k, <2>2, MarkEffect
    <3>2. Unwritten \/ row.status \in {"transcribing", tick[t].seen.status}
      BY <1>5 DEF MarkSttFailureForClaim, MarkSttFailureObserved
    <3> QED
      BY <1>k, <3>1, <3>2 DEF MarkedByTick
  <2>4. row' \in Row /\ stamp' \in Nat /\ touched' \in BOOLEAN
    BY <1>0, <2>3 DEF RowKept, RowMarked, MarkedByTick, TypeOK
  <2> QED
    BY <1>0, <1>2, <1>4, <2>1, <2>3, <2>4, StopEffect DEF TickEffect
<1>6. CASE DeleteSttFailedMeeting(t)
  <2>1. tick[t].pc = "delete" /\ bucket' = bucket
    BY <1>6 DEF DeleteSttFailedMeeting, Objects
  <2>2. (Unwritten \/ RowDeleted(t)) /\ (Stop(t) \/ (Goto(t, "objects") /\ row'.status = "gone"))
    <3>1. [row EXCEPT !.status = "gone"].status = "gone"
      BY <1>0 DEF Row
    <3> QED
      BY <1>6, <3>1 DEF DeleteSttFailedMeeting, RowDeleted, Cleanup, Unwritten
  <2>3. [row EXCEPT !.status = "gone"] \in Row
    BY <1>0, RowMoves
  <2>4. row' \in Row /\ stamp' \in Nat /\ touched' \in BOOLEAN
    BY <1>0, <2>2, <2>3 DEF Unwritten, RowDeleted, TypeOK
  <2>5. CASE Stop(t)
    BY <1>0, <1>k, <1>2, <1>4, <2>1, <2>2, <2>4, <2>5, StopEffect DEF TickEffect
  <2>6. CASE Goto(t, "objects") /\ row'.status = "gone"
    <3>1. tick' \in [Ticks -> Tick] /\ Cleans(t)
      BY <1>0, <2>1, <2>6, GotoEffect DEF Cleans, Steps
    <3> QED
      BY <1>k, <1>2, <1>4, <2>1, <2>2, <2>4, <3>1 DEF TickEffect
  <2> QED
    BY <2>2, <2>5, <2>6
<1>7. CASE DeleteSttFailedMeetingObjects(t)
  <2>1. tick[t].pc = "objects" /\ Stop(t) /\ Unwritten
    BY <1>7 DEF DeleteSttFailedMeetingObjects
  <2>2. row' \in Row /\ stamp' \in Nat /\ touched' \in BOOLEAN
    BY <1>0, <2>1 DEF Unwritten, TypeOK
  <2> QED
    BY <1>0, <1>k, <1>2, <1>4, <2>1, <2>2, StopEffect DEF TickEffect
<1> QED
  BY <1>5, <1>6, <1>7

\* Every step of a tick.
LEMMA TickStep ==
    ASSUME TypeInv, NEW t \in Ticks, ScanSttRecoveryRows(t) \/ HandleRow(t) \/ Crash(t)
    PROVE  /\ TypeOK' /\ TickEffect(t) /\ starts' = starts
           /\ bucket'.audio = bucket.audio \/ tick[t].pc = "objects"
  BY ReadingSteps, ClaimingSteps, StartingSteps, EndingSteps DEF HandleRow

\* Time ages the row, and the tick's copy of it with the tick.
LEMMA TimeStep ==
    ASSUME TypeOK, TimePasses
    PROVE  /\ TypeOK' /\ row' = Aged(row) /\ bucket'.audio = bucket.audio
           /\ UNCHANGED <<stamp, touched, claims, tasks, starts>>
           /\ \A t \in Ticks :
                 /\ tick'[t].pc = tick[t].pc /\ tick'[t].claim = tick[t].claim
                 /\ tick'[t].code = tick[t].code
                 /\ tick'[t].seen \in {tick[t].seen, Aged(tick[t].seen)}
                 /\ tick[t].pc = "idle" => tick'[t] = tick[t]
                 /\ tick[t].pc # "idle" => /\ tick[t].life < LambdaTimeout
                                           /\ tick'[t].seen = Aged(tick[t].seen)
                                           /\ tick'[t].life = tick[t].life + 1
<1>1. /\ row' = Aged(row) /\ UNCHANGED <<stamp, touched, starts, tasks, event, Others, faults, claims>>
      /\ bucket' = [bucket EXCEPT !.newestAge = Older(@, Deadline), !.age = Older(@, MinAge)]
  BY DEF TimePasses
<1>2. row \in Row /\ bucket \in Bucket /\ tick \in [Ticks -> Tick]
  BY DEF TypeOK
<1>3. row' \in Row
  BY <1>1, <1>2, AgedRow
<1>4. bucket' \in Bucket /\ bucket'.audio = bucket.audio
  <2>1. bucket.newestAge \in Nat /\ bucket.age \in Nat /\ Deadline \in Nat /\ MinAge \in Nat
    BY <1>2 DEF Bucket
  <2>2. Older(bucket.newestAge, Deadline) \in Nat /\ Older(bucket.age, MinAge) \in Nat
    BY <2>1 DEF Older
  <2> QED
    BY <1>1, <1>2, <2>2 DEF Bucket
<1>5. ASSUME NEW t \in Ticks
      PROVE  /\ tick'[t] \in Tick
             /\ tick'[t].pc = tick[t].pc /\ tick'[t].claim = tick[t].claim
             /\ tick'[t].code = tick[t].code
             /\ tick'[t].seen \in {tick[t].seen, Aged(tick[t].seen)}
             /\ tick[t].pc = "idle" => tick'[t] = tick[t]
             /\ tick[t].pc # "idle" => /\ tick[t].life < LambdaTimeout
                                       /\ tick'[t].seen = Aged(tick[t].seen)
                                       /\ tick'[t].life = tick[t].life + 1
  <2> DEFINE r == Aged(tick[t].seen)
             n == tick[t].life + 1
             k == [tick[t] EXCEPT !.seen = r, !.life = n]
  <2>1. tick'[t] = IF tick[t].pc = "idle" THEN tick[t] ELSE k
    BY DEF TimePasses
  <2>2. tick[t].pc # "idle" => tick[t].life < LambdaTimeout
    BY DEF TimePasses
  <2>3. tick[t] \in Tick /\ Aged(tick[t].seen) \in Row /\ tick[t].life \in Nat
    BY <1>2, AgedRow, TickValues DEF Tick
  <2>4. /\ k \in Tick /\ k.pc = tick[t].pc /\ k.claim = tick[t].claim /\ k.code = tick[t].code
        /\ k.seen = Aged(tick[t].seen) /\ k.life = tick[t].life + 1
    <3>1. tick[t] \in Tick /\ r \in Row /\ n \in Nat
      BY <2>3
    <3> HIDE DEF r, n
    <3>2. k \in Tick
      BY <3>1 DEF Tick
    <3>3. /\ k.pc = tick[t].pc /\ k.claim = tick[t].claim /\ k.code = tick[t].code
          /\ k.seen = r /\ k.life = n
      BY <3>1 DEF Tick
    <3> QED
      BY <3>2, <3>3 DEF r, n
  <2> HIDE DEF k
  <2> QED
    BY <2>1, <2>2, <2>3, <2>4
<1>6. tick' \in [Ticks -> Tick]
  <2>1. tick' = [t \in Ticks |-> tick'[t]]
    BY DEF TimePasses
  <2> QED
    BY <1>5, <2>1
<1>7. TypeOK'
  BY <1>1, <1>3, <1>4, <1>6 DEF TypeOK, Others
<1> QED
  BY <1>1, <1>4, <1>5, <1>7

\* Every step of the system.
LEMMA AnyStep ==
    ASSUME [Next]_vars
    PROVE  \/ \E t \in Ticks : ScanSttRecoveryRows(t) \/ HandleRow(t) \/ Crash(t)
           \/ TimePasses \/ Outside \/ UNCHANGED vars
  BY DEF Next, Outside

-----------------------------------------------------------------------------
(* Type correctness, with what is decided within the budgets. *)

LEMMA TypeInvInit == Init => TypeInv
<1> SUFFICES ASSUME Init PROVE TypeInv
  OBVIOUS
<1>1. FreshRow \in Row /\ NoTick.pc = "idle"
  BY DEF FreshRow, Row, NoTick
<1>2. NoTick \in Tick /\ NoHandler \in Handler
  BY <1>1 DEF NoTick, Tick, Steps, NoHandler, Handler
<1>3. bucket \in Bucket
  BY DEF Init, Bucket
<1>4. /\ row \in Row /\ tick \in [Ticks -> Tick] /\ handler \in Handler
      /\ sound \in [Audio -> {"speech", "silence", "corrupt"}] /\ tasks \in [Runs -> Nat]
  BY <1>1, <1>2 DEF Init
<1>5. /\ stamp = 0 /\ puts = 0 /\ copying = 0 /\ acts = 0 /\ faults = 0 /\ claims = 0
  BY DEF Init
<1>6. starts \subseteq Runs /\ bound \subseteq Audio /\ related \subseteq {"reference", "child", "field"}
  BY DEF Init
<1>7. event \in BOOLEAN /\ touched \in BOOLEAN
  BY DEF Init
<1>8. /\ stamp \in Nat /\ puts \in 0 .. MaxAudios /\ copying \in 0 .. MaxAudios /\ acts \in Nat
      /\ faults \in Nat /\ claims \in Nat
  BY <1>5
<1>9. TypeOK
  BY <1>3, <1>4, <1>6, <1>7, <1>8 DEF TypeOK
<1> QED
  BY <1>1, <1>9 DEF TypeInv, Pending, Init

LEMMA TypeInvNext == TypeInv /\ [Next]_vars => TypeInv'
<1> SUFFICES ASSUME TypeInv, [Next]_vars PROVE TypeInv'
  OBVIOUS
<1> USE DEF TypeInv
<1>0. row \in Row /\ tick \in [Ticks -> Tick]
  BY DEF TypeOK
<1>1. ASSUME NEW t \in Ticks, ScanSttRecoveryRows(t) \/ HandleRow(t) \/ Crash(t)
      PROVE  TypeInv'
  <2>1. TypeOK' /\ TickEffect(t) /\ starts' = starts
    BY <1>1, TickStep
  <2>2. \A u \in Ticks : u # t => tick'[u] = tick[u]
    BY <2>1 DEF TickEffect, Halts, Scans, Decides, Advances, Cleans, Claims, Alone
  <2>3. /\ tick'[t].pc \in {"cluster", "claim", "redrive", "run"} => tick'[t].seen.audio # 0
        /\ tick'[t].pc \in {"cluster", "claim"} => BudgetLeft(Attempts(tick'[t].seen))
        /\ tick'[t].pc = "redrive" => BudgetLeft(Redrives(tick'[t].seen))
        /\ tick'[t].pc = "release" => tick'[t].code # "none"
    <3>1. CASE Halts(t) \/ Scans(t) \/ Cleans(t)
      BY <3>1 DEF Halts, Scans, Cleans
    <3>2. CASE Decides(t)
      <4>1. tick'[t].pc = Decision(tick[t].seen) /\ tick'[t].seen = tick[t].seen
        BY <3>2 DEF Decides
      <4>2. tick'[t].pc = "redrive" => RedriveSummary(tick[t].seen)
        BY <4>1 DEF Decision
      <4>3. tick'[t].pc = "cluster" => RedriveSTT(tick[t].seen)
        BY <4>1 DEF Decision
      <4>4. tick'[t].pc \notin {"claim", "run", "release"}
        BY <4>1 DEF Decision
      <4> QED
        BY <4>1, <4>2, <4>3, <4>4 DEF RedriveSummary, RedriveSTT, Candidate
    <3>3. CASE Advances(t)
      BY <3>3 DEF Advances, Pending
    <3>4. CASE Claims(t) /\ RowClaimed(t)
      <4>1. tick[t].seen.audio # 0 /\ row.audio = tick[t].seen.audio
        BY <3>4 DEF RowClaimed, Pending
      <4>2. [FreshRow EXCEPT !.audio = row.audio].audio = row.audio
        BY DEF FreshRow
      <4>3. CASE tick'[t] = NoTick
        BY <4>3 DEF NoTick
      <4>4. CASE /\ tick'[t].seen = [FreshRow EXCEPT !.audio = row.audio]
                 /\ tick'[t].pc \in {"run", "copy"}
        BY <4>1, <4>2, <4>4
      <4> QED
        BY <3>4, <4>3, <4>4 DEF Claims
    <3> QED
      BY <2>1, <3>1, <3>2, <3>3, <3>4 DEF TickEffect
  <2> QED
    BY <2>1, <2>2, <2>3 DEF Pending
<1>2. CASE TimePasses
  <2>1. TypeOK' /\ starts' = starts
    BY <1>2, TimeStep
  <2>2. ASSUME NEW t \in Ticks
        PROVE  /\ tick'[t].pc = tick[t].pc /\ tick'[t].code = tick[t].code
               /\ tick'[t].seen.audio = tick[t].seen.audio
               /\ Attempts(tick'[t].seen) = Attempts(tick[t].seen)
               /\ Redrives(tick'[t].seen) = Redrives(tick[t].seen)
    <3>1. tick'[t].seen \in {tick[t].seen, Aged(tick[t].seen)} /\ tick[t].seen \in Row
      BY <1>0, <1>2, TimeStep, TickValues
    <3> QED
      BY <1>2, <3>1, TimeStep, AgedRow
  <2> QED
    BY <2>1, <2>2 DEF Pending
<1>3. CASE Outside
  BY <1>3, OutsideStep DEF OutsideEffect, Pending
<1>4. CASE UNCHANGED vars
  BY <1>4 DEF vars, TypeOK, Pending, Attempts, Redrives, OfKey
<1> QED
  BY <1>1, <1>2, <1>3, <1>4, AnyStep

\* Every reachable state is well typed: neither budget is ever exceeded, however ticks
\* overlap (stt_recovery.go:185-199, model/stt_recovery.go).
THEOREM TypeCorrect == Spec => []TypeOK
<1>1. TypeInv => TypeOK
  BY DEF TypeInv
<1> QED
  BY <1>1, TypeInvInit, TypeInvNext, PTL DEF Spec

LEMMA ChargesNext == TypeInv /\ AttemptsCharged /\ [Next]_vars => AttemptsCharged'
<1> SUFFICES ASSUME TypeInv, AttemptsCharged, [Next]_vars PROVE AttemptsCharged'
  OBVIOUS
<1> USE DEF AttemptsCharged
<1>0. row \in Row
  BY DEF TypeInv, TypeOK
<1>1. ASSUME NEW t \in Ticks, TickEffect(t) PROVE AttemptsCharged'
  <2>1. RowDeleted(t) => row'.attempts = row.attempts
    BY <1>0 DEF RowDeleted, Row
  <2> QED
    BY <1>1, <2>1 DEF TickEffect, RowKept, MarkedByTick, RowMarked, RowClaimed
<1>2. CASE TimePasses
  BY <1>0, <1>2, TimeStep, AgedRow DEF TypeInv
<1>3. CASE Outside
  BY <1>3, OutsideStep DEF OutsideEffect, RowKept, RowWritten, RowMarked
<1>4. CASE UNCHANGED vars
  BY <1>4 DEF vars
<1> QED
  BY <1>1, <1>2, <1>3, <1>4, AnyStep, TickStep

\* Every claim of a run is charged to its audio's budget once, for any number of ticks,
\* files and faults (stt_recovery.go:185-199).
THEOREM ChargesHold == Spec => []AttemptsCharged
<1>1. Init => AttemptsCharged
  BY DEF Init, FreshRow, AttemptsCharged
<1> QED
  BY <1>1, ChargesNext, TypeInvInit, TypeInvNext, PTL DEF Spec

-----------------------------------------------------------------------------
(* The order of what a tick saw, the row, and the timestamps. *)

Stale(t) == tick[t].seen.updatedAt < row.updatedAt

\* No timestamp of the row lies ahead of the clock, and a current mark means that nobody
\* wrote the row since.
RowOrdered ==
    /\ row.updatedAt <= stamp /\ row.failedAt <= stamp
    /\ row.failedAt # 0 /\ row.updatedAt = row.failedAt => ~touched

\* The row's audio and what was spent on it.
Budget(r) == <<r.audio, r.attempts, r.recoveryKey>>

\* A tick saw the row as it is or as it was before its last write, and takes the
\* timestamp of its claim after that.
TickOrdered(t) ==
    /\ tick[t].seen.updatedAt <= row.updatedAt
    /\ ~Stale(t) => tick[t].seen.idle <= row.idle
    /\ tick[t].pc = "facts" /\ ~Stale(t) => /\ tick[t].seen.claimedAt = row.claimedAt
                                            /\ tick[t].seen.claimAge <= row.claimAge
    /\ tick[t].pc \in {"facts", "exhaust"} /\ ~Stale(t) => Budget(tick[t].seen) = Budget(row)
    /\ tick[t].pc \in {"cluster", "claim", "redrive"} =>
          tick[t].seen.updatedAt < tick[t].claim /\ tick[t].claim <= claimNow

\* What is about to be deleted was due when it was seen.
DeletionsDue ==
    \A t \in Ticks : tick[t].pc \in {"refs", "children", "delete"} => DeletionDue(tick[t].seen)

\* What is about to be given up had spent its budget when it was seen.
ExhaustionsDue == \A t \in Ticks : tick[t].pc = "exhaust" => ~BudgetLeft(Attempts(tick[t].seen))

OrderInv == RowOrdered /\ (\A t \in Ticks : TickOrdered(t)) /\ DeletionsDue

\* Nobody cleans up after a row that is still there.
CleanupInv ==
    /\ ~bucket.audio => row.status = "gone"
    /\ \A t \in Ticks : /\ tick[t].pc = "objects" => row.status = "gone"
                        /\ tick[t].seen.status # "gone"

\* While a tick is about to start a task the claim is younger than the tick, so every
\* other tick saw the row before the claim or does not find it overdue; and a tick that
\* found the cluster idle before a task ran has seen an older row.
SoloInv ==
    /\ \A t \in Ticks :
          /\ tick[t].life <= LambdaTimeout
          /\ tick[t].pc = "run" =>
                /\ row.claimedAt # 0 /\ row.claimAge <= tick[t].life /\ row.idle <= tick[t].life
                /\ \A u \in Ticks \ {t} : /\ tick[u].pc # "run"
                                          /\ tick[u].pc \in {"cluster", "claim"} => Stale(u)
    /\ \A run \in Runs : run[2] = "recovery" /\ tasks[run] > 0 =>
          \A t \in Ticks : tick[t].pc # "run" /\ (tick[t].pc = "claim" => Stale(t))

\* How a row changes without a tick's looking: it stays, ages, or gets a later updatedAt.
RowForward ==
    /\ row' \in Row /\ stamp' \in Nat /\ stamp <= stamp' /\ RowOrdered'
    /\ \/ row.updatedAt < row'.updatedAt
       \/ /\ row'.updatedAt = row.updatedAt /\ row.idle <= row'.idle
          /\ row'.claimedAt = row.claimedAt /\ row.claimAge <= row'.claimAge
          /\ Budget(row') = Budget(row)

LEMMA RowGoesForward ==
    ASSUME TypeInv, RowOrdered, RowKept \/ RowWritten \/ RowMarked
    PROVE  RowForward
<1>1. /\ row \in Row /\ stamp \in Nat /\ now \in Nat /\ stamp < now
      /\ row.updatedAt <= stamp /\ row.failedAt <= stamp
      /\ row.failedAt # 0 /\ row.updatedAt = row.failedAt => ~touched
  BY DEF TypeInv, TypeOK, now, RowOrdered
<1>2. /\ row.updatedAt \in Nat /\ row.failedAt \in Nat /\ row.idle \in Nat /\ row.claimAge \in Nat
  BY <1>1, RowFields
<1>3. CASE RowKept
  BY <1>1, <1>2, <1>3 DEF RowKept, RowForward, RowOrdered
<1>4. CASE RowWritten
  <2>1. row'.updatedAt = now /\ row'.failedAt = row.failedAt /\ stamp' = now /\ row' \in Row
    BY <1>4 DEF RowWritten
  <2> QED
    BY <1>1, <1>2, <2>1 DEF RowForward, RowOrdered
<1>5. CASE RowMarked
  <2>1. /\ row'.updatedAt = now /\ row'.failedAt = now /\ stamp' = now /\ row' \in Row
        /\ touched' = FALSE
    BY <1>5 DEF RowMarked
  <2> QED
    BY <1>1, <1>2, <2>1 DEF RowForward, RowOrdered
<1> QED
  BY <1>3, <1>4, <1>5

LEMMA TickMovesRowForward ==
    ASSUME TypeInv, RowOrdered, NEW t \in Ticks, TickOrdered(t), RowDeleted(t) \/ RowClaimed(t)
    PROVE  RowForward
<1>1. /\ row \in Row /\ stamp \in Nat /\ now \in Nat /\ stamp < now /\ tick[t] \in Tick
      /\ row.updatedAt <= stamp /\ row.failedAt <= stamp
      /\ row.failedAt # 0 /\ row.updatedAt = row.failedAt => ~touched
  BY DEF TypeInv, TypeOK, now, RowOrdered
<1>2. /\ row.updatedAt \in Nat /\ row.failedAt \in Nat /\ row.idle \in Nat /\ row.claimAge \in Nat
      /\ tick[t].claim \in Nat
  BY <1>1, RowFields, TickValues
<1>3. CASE RowDeleted(t)
  <2>1. row' = [row EXCEPT !.status = "gone"] /\ UNCHANGED <<stamp, touched>>
    BY <1>3 DEF RowDeleted
  <2>2. row' \in Row
    BY <1>1, <2>1, RowMoves
  <2>3. /\ row'.updatedAt = row.updatedAt /\ row'.failedAt = row.failedAt
        /\ row'.idle = row.idle /\ row'.claimedAt = row.claimedAt /\ row'.claimAge = row.claimAge
        /\ Budget(row') = Budget(row)
    BY <1>1, <2>1 DEF Row, Budget
  <2> QED
    BY <1>1, <1>2, <2>1, <2>2, <2>3 DEF RowForward, RowOrdered
<1>4. CASE RowClaimed(t)
  <2>1. /\ row'.updatedAt = tick[t].claim /\ row'.failedAt = 0 /\ stamp' = now /\ row' \in Row
        /\ row.updatedAt = tick[t].seen.updatedAt /\ tick[t].pc \in {"claim", "redrive"}
    BY <1>4 DEF RowClaimed
  <2>2. row.updatedAt < tick[t].claim /\ tick[t].claim <= claimNow
    BY <2>1 DEF TickOrdered
  <2> QED
    BY <1>1, <1>2, <2>1, <2>2 DEF RowForward, RowOrdered, now, claimNow
<1> QED
  BY <1>3, <1>4

LEMMA AgingGoesForward ==
    ASSUME TypeInv, RowOrdered, row' = Aged(row), UNCHANGED <<stamp, touched>>
    PROVE  RowForward
<1>1. row \in Row /\ stamp \in Nat
  BY DEF TypeInv, TypeOK
<1>2. /\ row' \in Row /\ row'.updatedAt = row.updatedAt /\ row'.failedAt = row.failedAt
      /\ row'.idle = Older(row.idle, Grace) /\ row'.claimedAt = row.claimedAt
      /\ row'.claimAge = Older(row.claimAge, Deadline) /\ Budget(row') = Budget(row)
  BY <1>1, AgedRow DEF Budget
<1>3. row.idle <= Older(row.idle, Grace) /\ row.claimAge <= Older(row.claimAge, Deadline)
  BY <1>1, RowFields, OlderGrows
<1> QED
  BY <1>1, <1>2, <1>3 DEF RowForward, RowOrdered

\* A tick at rest keeps its order to a row that goes forward.
LEMMA TickKeepsOrder ==
    ASSUME TypeInv, NEW t \in Ticks, TickOrdered(t), RowForward, tick'[t] = tick[t]
    PROVE  TickOrdered(t)' /\ (Stale(t) => Stale(t)')
<1>1. row \in Row /\ row' \in Row /\ tick[t] \in Tick /\ stamp \in Nat
  BY DEF TypeInv, TypeOK, RowForward
<1>2. tick[t].seen \in Row /\ tick[t].claim \in Nat
  BY <1>1, TickValues
<1>3. /\ tick[t].seen.updatedAt \in Nat /\ tick[t].seen.idle \in Nat /\ tick[t].seen.claimAge \in Nat
      /\ row.updatedAt \in Nat /\ row.idle \in Nat /\ row.claimAge \in Nat
      /\ row'.updatedAt \in Nat /\ row'.idle \in Nat /\ row'.claimAge \in Nat
  BY <1>1, <1>2, RowFields
<1>4. stamp <= stamp' /\ stamp' \in Nat /\ row.updatedAt <= row'.updatedAt
  BY <1>3 DEF RowForward
<1>5. CASE row.updatedAt < row'.updatedAt
  <2>1. Stale(t)'
    BY <1>3, <1>5 DEF TickOrdered, Stale
  <2> QED
    BY <1>1, <1>2, <1>3, <1>4, <2>1 DEF TickOrdered, Stale, claimNow
<1>6. CASE ~(row.updatedAt < row'.updatedAt)
  <2>1. /\ row'.updatedAt = row.updatedAt /\ row.idle <= row'.idle
        /\ row'.claimedAt = row.claimedAt /\ row.claimAge <= row'.claimAge
        /\ Budget(row') = Budget(row)
    BY <1>6 DEF RowForward
  <2>2. Stale(t)' <=> Stale(t)
    BY <2>1 DEF Stale
  <2> QED
    BY <1>1, <1>2, <1>3, <1>4, <2>1, <2>2 DEF TickOrdered, claimNow
<1> QED
  BY <1>5, <1>6

\* The tick that steps keeps its order, too: it looks at the row, or at nothing.
LEMMA SteppingTickOrder ==
    ASSUME TypeInv, RowOrdered, NEW t \in Ticks, TickOrdered(t), TickEffect(t), RowForward
    PROVE  TickOrdered(t)'
<1>1. row \in Row /\ row' \in Row /\ tick[t] \in Tick /\ stamp \in Nat
  BY DEF TypeInv, TypeOK, RowForward
<1>2. tick[t].seen \in Row /\ tick[t].claim \in Nat
  BY <1>1, TickValues
<1>3. /\ tick[t].seen.updatedAt \in Nat /\ tick[t].seen.idle \in Nat /\ row.updatedAt \in Nat
      /\ row.idle \in Nat /\ row.claimAge \in Nat /\ row'.updatedAt \in Nat /\ row'.idle \in Nat
      /\ row.updatedAt <= stamp
  BY <1>1, <1>2, RowFields DEF RowOrdered
<1>4. CASE /\ tick'[t].seen.updatedAt = 0 /\ tick'[t].seen.idle = 0
           /\ tick'[t].pc \in {"idle", "release", "run", "copy"}
  BY <1>3, <1>4 DEF TickOrdered, Stale
<1>5. CASE Halts(t)
  BY <1>4, <1>5 DEF Halts, FreshRow
<1>6. CASE Scans(t) /\ row' = row
  BY <1>3, <1>6 DEF Scans, TickOrdered, Stale
<1>7. CASE Decides(t) /\ row' = row /\ stamp' = stamp
  <2>1. /\ tick[t].pc = "facts" /\ tick'[t].seen = tick[t].seen
        /\ tick'[t].pc = Decision(tick[t].seen)
        /\ tick'[t].pc \in {"cluster", "redrive"} => tick'[t].claim = claimNow
    BY <1>7 DEF Decides
  <2>2. tick'[t].pc \notin {"facts", "claim"}
    BY <2>1 DEF Decision
  <2> QED
    BY <1>1, <1>3, <1>7, <2>1, <2>2 DEF TickOrdered, Stale, claimNow
<1>8. CASE Advances(t) /\ row' = row /\ stamp' = stamp
  BY <1>1, <1>3, <1>8 DEF Advances, TickOrdered, Stale, claimNow
<1>9. CASE Cleans(t)
  <2>1. tick'[t].seen = tick[t].seen /\ tick'[t].pc = "objects"
    BY <1>9 DEF Cleans
  <2> QED
    BY <1>1, <1>3, <2>1 DEF TickOrdered, Stale, RowForward
<1>10. CASE Claims(t)
  <2>1. [FreshRow EXCEPT !.audio = row.audio].updatedAt = 0 /\ [FreshRow EXCEPT !.audio = row.audio].idle = 0
    BY DEF FreshRow
  <2>2. NoTick.seen.updatedAt = 0 /\ NoTick.seen.idle = 0 /\ NoTick.pc = "idle"
    BY DEF NoTick, FreshRow
  <2> QED
    BY <1>4, <1>10, <2>1, <2>2 DEF Claims
<1> QED
  BY <1>5, <1>6, <1>7, <1>8, <1>9, <1>10 DEF TickEffect

\* As time passes the copy of the row ages with the row.
LEMMA AgingTickOrder ==
    ASSUME TypeInv, NEW t \in Ticks, TickOrdered(t), RowForward, row' = Aged(row),
           tick'[t].seen \in {tick[t].seen, Aged(tick[t].seen)},
           tick'[t].pc = tick[t].pc, tick'[t].claim = tick[t].claim, stamp' = stamp
    PROVE  TickOrdered(t)' /\ (Stale(t)' <=> Stale(t))
<1>1. row \in Row /\ tick[t] \in Tick /\ tick[t].seen \in Row
  BY TickValues DEF TypeInv, TypeOK
<1>2. /\ row'.updatedAt = row.updatedAt /\ row'.claimedAt = row.claimedAt
      /\ row'.idle = Older(row.idle, Grace) /\ row'.claimAge = Older(row.claimAge, Deadline)
      /\ Budget(row') = Budget(row) /\ Budget(tick'[t].seen) = Budget(tick[t].seen)
  BY <1>1, AgedRow DEF Budget
<1>3. /\ tick'[t].seen.updatedAt = tick[t].seen.updatedAt
      /\ tick'[t].seen.claimedAt = tick[t].seen.claimedAt
      /\ tick'[t].seen.idle \in {tick[t].seen.idle, Older(tick[t].seen.idle, Grace)}
      /\ tick'[t].seen.claimAge \in {tick[t].seen.claimAge, Older(tick[t].seen.claimAge, Deadline)}
  BY <1>1, AgedRow
<1>4. /\ row.idle \in Nat /\ row.claimAge \in Nat /\ tick[t].seen.idle \in Nat
      /\ tick[t].seen.claimAge \in Nat
  BY <1>1, RowFields
<1>5. tick[t].seen.idle <= row.idle => tick'[t].seen.idle <= row'.idle
  <2>1. row.idle <= Older(row.idle, Grace) /\ Older(row.idle, Grace) \in Nat
    BY <1>4, OlderGrows
  <2>2. ASSUME tick[t].seen.idle <= row.idle
        PROVE  Older(tick[t].seen.idle, Grace) <= Older(row.idle, Grace)
    BY <1>4, <2>2, OlderMonotone
  <2> QED
    BY <1>2, <1>3, <1>4, <2>1, <2>2
<1>6. tick[t].seen.claimAge <= row.claimAge => tick'[t].seen.claimAge <= row'.claimAge
  <2>1. row.claimAge <= Older(row.claimAge, Deadline) /\ Older(row.claimAge, Deadline) \in Nat
    BY <1>4, OlderGrows
  <2>2. ASSUME tick[t].seen.claimAge <= row.claimAge
        PROVE  Older(tick[t].seen.claimAge, Deadline) <= Older(row.claimAge, Deadline)
    BY <1>4, <2>2, OlderMonotone
  <2> QED
    BY <1>2, <1>3, <1>4, <2>1, <2>2
<1>7. Stale(t)' <=> Stale(t)
  BY <1>2, <1>3 DEF Stale
<1> QED
  BY <1>2, <1>3, <1>5, <1>6, <1>7 DEF TickOrdered, claimNow

\* What each step of the system does to the row and the ticks, for the proofs that follow.
LEMMA StepGoesForward ==
    ASSUME TypeInv, OrderInv, [Next]_vars
    PROVE  RowForward /\ \A t \in Ticks : TickOrdered(t)'
<1> USE DEF OrderInv
<1>1. ASSUME NEW t \in Ticks, TickEffect(t)
      PROVE  RowForward /\ \A u \in Ticks : TickOrdered(u)'
  <2>1. RowKept \/ RowMarked \/ RowDeleted(t) \/ RowClaimed(t)
    BY <1>1 DEF TickEffect, MarkedByTick, RowKept
  <2>2. RowForward
    BY <2>1, RowGoesForward, TickMovesRowForward
  <2>3. TickOrdered(t)'
    BY <1>1, <2>2, SteppingTickOrder
  <2>4. \A u \in Ticks : u # t => tick'[u] = tick[u]
    BY <1>1 DEF TickEffect, Halts, Scans, Decides, Advances, Cleans, Claims, Alone
  <2> QED
    BY <2>2, <2>3, <2>4, TickKeepsOrder
<1>2. CASE TimePasses
  <2>1. RowForward
    BY <1>2, TimeStep, AgingGoesForward DEF TypeInv
  <2> QED
    BY <1>2, <2>1, TimeStep, AgingTickOrder DEF TypeInv
<1>3. CASE Outside
  <2>1. tick' = tick /\ RowForward
    BY <1>3, OutsideStep, RowGoesForward DEF OutsideEffect
  <2> QED
    BY <2>1, TickKeepsOrder
<1>4. CASE UNCHANGED vars
  <2>1. tick' = tick /\ RowForward
    BY <1>4, RowGoesForward DEF vars, RowKept
  <2> QED
    BY <2>1, TickKeepsOrder
<1> QED
  BY <1>1, <1>2, <1>3, <1>4, AnyStep, TickStep

LEMMA OrderInit == Init => OrderInv
<1> SUFFICES ASSUME Init PROVE OrderInv
  OBVIOUS
<1>1. row = FreshRow /\ stamp = 0 /\ touched = FALSE /\ \A t \in Ticks : tick[t] = NoTick
  BY DEF Init
<1>2. /\ FreshRow.updatedAt = 0 /\ FreshRow.failedAt = 0 /\ FreshRow.idle = 0
      /\ NoTick.pc = "idle" /\ NoTick.seen = FreshRow
  BY DEF FreshRow, NoTick
<1> QED
  BY <1>1, <1>2 DEF OrderInv, RowOrdered, TickOrdered, DeletionsDue, Stale

LEMMA OrderNext == TypeInv /\ OrderInv /\ [Next]_vars => OrderInv'
<1> SUFFICES ASSUME TypeInv, OrderInv, [Next]_vars PROVE OrderInv'
  OBVIOUS
<1>1. RowOrdered' /\ \A t \in Ticks : TickOrdered(t)'
  BY StepGoesForward DEF RowForward
<1>2. ASSUME NEW t \in Ticks, tick'[t].pc \in {"refs", "children", "delete"}
      PROVE  DeletionDue(tick'[t].seen)
  <2>1. ASSUME NEW u \in Ticks, TickEffect(u) PROVE DeletionDue(tick'[t].seen)
    <3>1. CASE u # t
      <4>1. tick'[t] = tick[t]
        BY <2>1, <3>1 DEF TickEffect, Halts, Scans, Decides, Advances, Cleans, Claims, Alone
      <4> QED
        BY <1>2, <4>1 DEF OrderInv, DeletionsDue
    <3>2. CASE u = t /\ Decides(t)
      <4>1. tick'[t].pc = Decision(tick[t].seen) /\ tick'[t].seen = tick[t].seen
        BY <3>2 DEF Decides
      <4> QED
        BY <1>2, <4>1 DEF Decision
    <3>3. CASE u = t /\ Advances(t)
      BY <1>2, <3>3 DEF Advances, OrderInv, DeletionsDue
    <3>4. NoTick.pc = "idle"
      BY DEF NoTick
    <3> QED
      BY <1>2, <2>1, <3>1, <3>2, <3>3, <3>4 DEF TickEffect, Halts, Scans, Cleans, Claims
  <2>2. CASE TimePasses
    <3>1. /\ tick'[t].pc = tick[t].pc /\ tick'[t].seen \in {tick[t].seen, Aged(tick[t].seen)}
          /\ DeletionDue(tick[t].seen) /\ tick[t].seen \in Row
      BY <1>2, <2>2, TimeStep, TickValues DEF TypeInv, TypeOK, OrderInv, DeletionsDue
    <3> DEFINE r == tick[t].seen
    <3>2. /\ Aged(r).status = r.status /\ Aged(r).hint = r.hint /\ Aged(r).code = r.code
          /\ Aged(r).updatedAt = r.updatedAt /\ Aged(r).failedAt = r.failedAt
          /\ Aged(r).idle = Older(r.idle, Grace) /\ r.idle \in Nat
      BY <3>1, AgedRow, RowFields
    <3>3. r.idle >= Grace => Older(r.idle, Grace) >= Grace
      BY <3>2, OlderGrows
    <3> QED
      BY <3>1, <3>2, <3>3 DEF DeletionDue, SttFailureMarkCurrent
  <2>3. CASE tick' = tick
    BY <1>2, <2>3 DEF OrderInv, DeletionsDue
  <2> QED
    BY <2>1, <2>2, <2>3, AnyStep, TickStep, OutsideStep DEF OutsideEffect, vars
<1> QED
  BY <1>1, <1>2 DEF OrderInv, DeletionsDue

\* A tick deletes only what carries a deletable mark that stood the whole grace period
\* with nobody writing the row, for any number of ticks and owner actions
\* (stt_recovery.go:347-349, service/stt_recovery.go:253-256).
THEOREM DeletionsHold == Spec => DeletesOnlyQuietFailures
<1>1. TypeInv /\ OrderInv /\ [Next]_vars =>
         [row'.status = "gone" /\ row.status # "gone" =>
             /\ row.code \in Deletable /\ ~touched /\ row.idle >= Grace
             /\ ~row.hint /\ "field" \notin related]_vars
  <2> SUFFICES ASSUME TypeInv, OrderInv, [Next]_vars, row'.status = "gone", row.status # "gone"
               PROVE  /\ row.code \in Deletable /\ ~touched /\ row.idle >= Grace
                      /\ ~row.hint /\ "field" \notin related
    OBVIOUS
  <2>0. row \in Row
    BY DEF TypeInv, TypeOK
  <2>1. ~TimePasses
    BY <2>0, TimeStep, AgedRow DEF TypeInv
  <2>2. ~Outside
    BY OutsideStep DEF OutsideEffect, RowKept, RowWritten, RowMarked
  <2>3. ~UNCHANGED vars
    BY DEF vars
  <2>4. PICK t \in Ticks : TickEffect(t)
    BY <2>1, <2>2, <2>3, AnyStep, TickStep
  <2>5. RowDeleted(t)
    BY <2>4 DEF TickEffect, RowKept, MarkedByTick, RowMarked, RowClaimed
  <2> DEFINE mark == tick[t].seen
  <2>6. /\ row.code = mark.code /\ row.failedAt = mark.failedAt /\ row.updatedAt = mark.failedAt
        /\ ~row.hint /\ "field" \notin related /\ tick[t].pc = "delete"
    BY <2>5 DEF RowDeleted, sttFailedMeetingDeleteCondition
  <2>7. /\ mark.code \in Deletable /\ mark.failedAt # 0 /\ mark.updatedAt = mark.failedAt
        /\ mark.idle >= Grace
    BY <2>6 DEF OrderInv, DeletionsDue, DeletionDue, SttFailureMarkCurrent
  <2>8. ~touched
    BY <2>6, <2>7 DEF OrderInv, RowOrdered
  <2>9. row.idle >= Grace
    <3>1. tick[t].seen \in Row
      BY TickValues, <2>0 DEF TypeInv, TypeOK
    <3>2. mark.idle \in Nat /\ row.idle \in Nat /\ row.updatedAt \in Nat
      BY <2>0, <3>1, RowFields
    <3>3. ~Stale(t)
      BY <2>6, <2>7, <3>2 DEF Stale
    <3>4. mark.idle <= row.idle
      BY <3>3 DEF OrderInv, TickOrdered
    <3> QED
      BY <2>7, <3>2, <3>4
  <2> QED
    BY <2>6, <2>7, <2>8, <2>9
<1> QED
  BY <1>1, TypeInvInit, TypeInvNext, OrderInit, OrderNext, PTL DEF Spec, DeletesOnlyQuietFailures

-----------------------------------------------------------------------------
(* Giving up. *)

LEMMA ExhaustionsInit == Init => ExhaustionsDue
<1>1. NoTick.pc = "idle"
  BY DEF NoTick
<1> QED
  BY <1>1 DEF Init, ExhaustionsDue

LEMMA ExhaustionsNext == TypeInv /\ ExhaustionsDue /\ [Next]_vars => ExhaustionsDue'
<1> SUFFICES ASSUME TypeInv, ExhaustionsDue, [Next]_vars,
                    NEW t \in Ticks, tick'[t].pc = "exhaust"
             PROVE  ~BudgetLeft(Attempts(tick'[t].seen))
  BY DEF ExhaustionsDue, BudgetLeft, Attempts, OfKey
<1>1. ASSUME NEW u \in Ticks, TickEffect(u) PROVE ~BudgetLeft(Attempts(tick'[t].seen))
  <2>1. CASE u # t
    <3>1. tick'[t] = tick[t]
      BY <1>1, <2>1 DEF TickEffect, Halts, Scans, Decides, Advances, Cleans, Claims, Alone
    <3> QED
      BY <3>1 DEF ExhaustionsDue
  <2>2. CASE u = t /\ Decides(t)
    <3>1. tick'[t].pc = Decision(tick[t].seen) /\ tick'[t].seen = tick[t].seen
      BY <2>2 DEF Decides
    <3>2. MarkExhausted(tick[t].seen)
      BY <3>1 DEF Decision
    <3> QED
      BY <3>1, <3>2 DEF MarkExhausted
  <2>3. NoTick.pc = "idle"
    BY DEF NoTick
  <2> QED
    BY <1>1, <2>1, <2>2, <2>3 DEF TickEffect, Halts, Scans, Advances, Cleans, Claims
<1>2. CASE TimePasses
  <2>1. /\ tick'[t].pc = tick[t].pc /\ tick'[t].seen \in {tick[t].seen, Aged(tick[t].seen)}
        /\ tick[t].seen \in Row
    BY <1>2, TimeStep, TickValues DEF TypeInv, TypeOK
  <2>2. Attempts(Aged(tick[t].seen)) = Attempts(tick[t].seen)
    BY <2>1, AgedRow
  <2> QED
    BY <2>1, <2>2 DEF ExhaustionsDue
<1>3. CASE tick' = tick
  BY <1>3 DEF ExhaustionsDue
<1> QED
  BY <1>1, <1>2, <1>3, AnyStep, TickStep, OutsideStep DEF OutsideEffect, vars

\* RECOVERY_EXHAUSTED is written only on a row whose present audio was claimed as often
\* as the budget allows, for any number of ticks and audio files
\* (service/stt_recovery.go:220-224).
THEOREM GivingUpHolds == Spec => GivesUpOnOwnBudget
<1>1. TypeInv /\ OrderInv /\ ExhaustionsDue /\ AttemptsCharged /\ [Next]_vars =>
         [\A t \in Ticks : MarkSttFailureObserved(t) /\ row' # row =>
             claims = MaxAttempts /\ row.recoveryKey = row.audio]_vars
  <2> SUFFICES ASSUME TypeInv, OrderInv, ExhaustionsDue, AttemptsCharged,
                      NEW t \in Ticks, MarkSttFailureObserved(t), row' # row
               PROVE  claims = MaxAttempts /\ row.recoveryKey = row.audio
    OBVIOUS
  <2>1. row \in Row /\ tick[t] \in Tick /\ tick[t].seen \in Row
    BY TickValues DEF TypeInv, TypeOK
  <2>2. tick[t].pc = "exhaust" /\ row.updatedAt = tick[t].seen.updatedAt
    BY DEF MarkSttFailureObserved, Unwritten
  <2>3. ~Stale(t)
    BY <2>1, <2>2, RowFields DEF Stale
  <2>4. Budget(tick[t].seen) = Budget(row)
    BY <2>2, <2>3 DEF OrderInv, TickOrdered
  <2>5. Attempts(tick[t].seen) = Attempts(row)
    BY <2>4 DEF Budget, Attempts, OfKey
  <2>6. ~BudgetLeft(Attempts(row))
    BY <2>2, <2>5 DEF ExhaustionsDue
  <2>7. Attempts(row) = MaxAttempts
    BY <2>1, <2>6, RowFields DEF BudgetLeft
  <2> QED
    BY <2>7 DEF Attempts, OfKey, AttemptsCharged
<1>2. Init => AttemptsCharged
  BY DEF Init, FreshRow, AttemptsCharged
<1> QED
  BY <1>1, <1>2, ChargesNext, TypeInvInit, TypeInvNext, OrderInit, OrderNext,
     ExhaustionsInit, ExhaustionsNext, PTL DEF Spec, GivesUpOnOwnBudget

-----------------------------------------------------------------------------
(* The objects and the row. *)

LEMMA CleanupInit == Init => CleanupInv
<1>1. /\ FreshRow.status # "gone" /\ NoTick.pc = "idle" /\ NoTick.seen = FreshRow
  BY DEF FreshRow, NoTick
<1>2. Init => bucket.audio
  BY DEF Init
<1>3. Init => \A t \in Ticks : tick[t] = NoTick
  BY DEF Init
<1> QED
  BY <1>1, <1>2, <1>3 DEF CleanupInv

\* A deleted row stays deleted: every other write refuses it.
LEMMA GoneForGood ==
    ASSUME TypeInv, CleanupInv, [Next]_vars, row.status = "gone"
    PROVE  row'.status = "gone"
<1>0. row \in Row
  BY DEF TypeInv, TypeOK
<1>1. ASSUME NEW t \in Ticks, TickEffect(t) PROVE row'.status = "gone"
  <2>1. tick[t].seen.status # "gone"
    BY DEF CleanupInv
  <2>2. ~RowClaimed(t) /\ ~MarkedByTick(t)
    BY <2>1 DEF RowClaimed, MarkedByTick
  <2>3. RowDeleted(t) => row'.status = "gone"
    BY <1>0 DEF RowDeleted, Row
  <2> QED
    BY <1>1, <2>2, <2>3 DEF TickEffect, RowKept
<1>2. CASE TimePasses
  BY <1>0, <1>2, TimeStep, AgedRow DEF TypeInv
<1>3. CASE Outside
  BY <1>3, OutsideStep DEF OutsideEffect
<1>4. CASE UNCHANGED vars
  BY <1>4 DEF vars
<1> QED
  BY <1>1, <1>2, <1>3, <1>4, AnyStep, TickStep

LEMMA CleanupNext == TypeInv /\ CleanupInv /\ [Next]_vars => CleanupInv'
<1> SUFFICES ASSUME TypeInv, CleanupInv, [Next]_vars PROVE CleanupInv'
  OBVIOUS
<1>0. row \in Row /\ \A t \in Ticks : tick[t] \in Tick /\ tick[t].seen \in Row
  BY TickValues DEF TypeInv, TypeOK
<1>1. ASSUME NEW t \in Ticks, TickEffect(t), bucket'.audio = bucket.audio \/ tick[t].pc = "objects"
      PROVE  CleanupInv'
  <2>1. \A u \in Ticks : u # t => tick'[u] = tick[u]
    BY <1>1 DEF TickEffect, Halts, Scans, Decides, Advances, Cleans, Claims, Alone
  <2>2. ~bucket'.audio => row'.status = "gone"
    BY <1>1, GoneForGood DEF CleanupInv
  <2>3. \A u \in Ticks : u # t /\ tick'[u].pc = "objects" => row'.status = "gone"
    BY <2>1, GoneForGood DEF CleanupInv
  <2>4. tick'[t].seen.status # "gone" /\ (tick'[t].pc = "objects" => row'.status = "gone")
    <3>1. /\ FreshRow.status # "gone" /\ NoTick.pc = "idle" /\ NoTick.seen = FreshRow
          /\ [FreshRow EXCEPT !.audio = row.audio].status # "gone"
      BY DEF FreshRow, NoTick
    <3>2. CASE Halts(t)
      BY <3>1, <3>2 DEF Halts
    <3>3. CASE Scans(t) /\ row' = row
      BY <3>3 DEF Scans
    <3>4. CASE Decides(t)
      BY <3>4 DEF Decides, Decision, CleanupInv
    <3>5. CASE Advances(t)
      BY <3>5 DEF Advances, CleanupInv
    <3>6. CASE Cleans(t)
      BY <3>6 DEF Cleans, CleanupInv
    <3>7. CASE Claims(t)
      BY <3>1, <3>7 DEF Claims
    <3> QED
      BY <1>1, <3>2, <3>3, <3>4, <3>5, <3>6, <3>7 DEF TickEffect
  <2> QED
    BY <2>1, <2>2, <2>3, <2>4 DEF CleanupInv
<1>2. CASE TimePasses
  <2>1. row'.status = row.status /\ bucket'.audio = bucket.audio
    BY <1>0, <1>2, TimeStep, AgedRow DEF TypeInv
  <2>2. \A t \in Ticks : tick'[t].pc = tick[t].pc /\ tick'[t].seen.status = tick[t].seen.status
    BY <1>0, <1>2, TimeStep, AgedRow DEF TypeInv
  <2> QED
    BY <2>1, <2>2 DEF CleanupInv
<1>3. CASE Outside \/ UNCHANGED vars
  <2>1. tick' = tick /\ bucket'.audio = bucket.audio
    BY <1>3, OutsideStep DEF OutsideEffect, vars
  <2> QED
    BY <2>1, GoneForGood DEF CleanupInv
<1> QED
  BY <1>1, <1>2, <1>3, AnyStep, TickStep

\* The audio and the transcript are removed only once the row is gone, whichever replies
\* of the transaction are lost (stt_recovery.go:441-446).
THEOREM ObjectsHold == Spec => []ObjectsOutliveRow
<1>1. CleanupInv => ObjectsOutliveRow
  BY DEF CleanupInv, ObjectsOutliveRow
<1> QED
  BY <1>1, TypeInvInit, TypeInvNext, CleanupInit, CleanupNext, PTL DEF Spec

-----------------------------------------------------------------------------
(* One recovery task at a time. *)

LEMMA SoloInit == Init => SoloInv
<1> SUFFICES ASSUME Init PROVE SoloInv
  OBVIOUS
<1>1. NoTick.pc = "idle" /\ NoTick.life = 0
  BY DEF NoTick
<1>2. (\A t \in Ticks : tick[t] = NoTick) /\ (\A run \in Runs : tasks[run] = 0)
  BY DEF Init
<1> QED
  BY <1>1, <1>2 DEF SoloInv

\* A row that a running tick claimed is not overdue to any tick that saw the claim.
LEMMA ClaimedNotOverdue ==
    ASSUME TypeInv, OrderInv, SoloInv, NEW t \in Ticks, NEW u \in Ticks,
           tick[t].pc = "run", tick[u].pc = "facts", ~Stale(u)
    PROVE  Decision(tick[u].seen) # "cluster"
<1> DEFINE seen == tick[u].seen
<1>1. seen \in Row /\ row \in Row /\ tick[t] \in Tick
  BY TickValues DEF TypeInv, TypeOK
<1>2. /\ seen.idle \in Nat /\ seen.claimAge \in Nat /\ row.idle \in Nat /\ row.claimAge \in Nat
      /\ tick[t].life \in Nat
  BY <1>1, RowFields, TickValues
<1>3. seen.idle <= row.idle /\ seen.claimAge <= row.claimAge /\ seen.claimedAt = row.claimedAt
  BY DEF OrderInv, TickOrdered
<1>4. /\ row.claimedAt # 0 /\ row.claimAge <= tick[t].life /\ row.idle <= tick[t].life
      /\ tick[t].life <= LambdaTimeout
  BY DEF SoloInv
<1>5. seen.claimedAt # 0 /\ seen.claimAge < Deadline /\ seen.idle < RetryDelay
  BY <1>2, <1>3, <1>4
<1>6. ~Overdue(seen)
  BY <1>2, <1>5 DEF Overdue
<1> QED
  BY <1>6 DEF Decision, RedriveSTT

\* What a step of a tick means for the others.
LEMMA SoloTick ==
    ASSUME TypeInv, OrderInv, SoloInv, NEW t \in Ticks, TickEffect(t), RowForward,
           \A u \in Ticks : u # t => (Stale(u) => Stale(u)')
    PROVE  SoloInv'
<1>0. /\ row \in Row /\ row' \in Row /\ stamp \in Nat /\ tick[t].life \in Nat
      /\ \A u \in Ticks : tick[u] \in Tick /\ tick[u].seen \in Row /\ tick[u].life \in Nat
      /\ \A run \in Runs : tasks[run] \in Nat
  BY TickValues DEF TypeInv, TypeOK, RowForward
<1>1. \A u \in Ticks : u # t => tick'[u] = tick[u]
  BY DEF TickEffect, Halts, Scans, Decides, Advances, Cleans, Claims, Alone
<1>2. \A u \in Ticks : tick'[u].life <= LambdaTimeout
  <2>1. tick'[t].life \in {0, tick[t].life}
    BY DEF TickEffect, Halts, Scans, Decides, Advances, Cleans, Claims, NoTick
  <2>2. tick'[t].life <= LambdaTimeout
    BY <1>0, <2>1 DEF SoloInv
  <2> QED
    BY <1>1, <2>2 DEF SoloInv
<1>3. CASE Claims(t) /\ RowClaimed(t) /\ tasks' = tasks /\ tick[t].pc = "claim"
  <2>1. ~Stale(t) /\ tick[t].seen.updatedAt < tick[t].claim
    <3>1. tick[t].seen.updatedAt \in Nat /\ row.updatedAt = tick[t].seen.updatedAt
      BY <1>0, <1>3, RowFields DEF RowClaimed
    <3> QED
      BY <1>3, <3>1 DEF OrderInv, TickOrdered, Stale
  <2>2. /\ \A u \in Ticks : u # t => tick[u].pc # "run"
        /\ \A run \in Runs : run[2] = "recovery" => tasks[run] = 0
    BY <1>0, <1>3, <2>1 DEF SoloInv
  <2>3. /\ row'.claimedAt = tick[t].claim /\ row'.claimAge = 0 /\ row'.idle = 0
        /\ row'.updatedAt = tick[t].claim /\ row.updatedAt = tick[t].seen.updatedAt
    BY <1>3 DEF RowClaimed
  <2>4. /\ tick[t].claim \in Nat /\ row.updatedAt \in Nat
        /\ \A u \in Ticks : tick[u].seen.updatedAt \in Nat
    BY <1>0, RowFields, TickValues
  <2>5. \A u \in Ticks : u # t => Stale(u)'
    <3> SUFFICES ASSUME NEW u \in Ticks, u # t PROVE Stale(u)'
      OBVIOUS
    <3>1. tick[u].seen.updatedAt <= row.updatedAt
      BY DEF OrderInv, TickOrdered
    <3> QED
      BY <1>1, <2>1, <2>3, <2>4, <3>1 DEF Stale
  <2>6. tick'[t].pc \in {"run", "idle"} /\ tick'[t].life \in Nat
    BY <1>0, <1>3 DEF Claims, NoTick
  <2> QED
    BY <1>0, <1>1, <1>2, <1>3, <2>1, <2>2, <2>3, <2>4, <2>5, <2>6 DEF SoloInv
<1>4. CASE Claims(t) /\ RowClaimed(t) /\ tasks' = tasks /\ tick[t].pc = "redrive"
  <2>1. row'.claimedAt = row.claimedAt /\ row'.claimAge = row.claimAge /\ row'.idle = 0
    BY <1>4 DEF RowClaimed
  <2>2. tick'[t].pc \in {"copy", "idle"}
    BY <1>4 DEF Claims, NoTick
  <2> QED
    BY <1>0, <1>1, <1>2, <1>4, <2>1, <2>2 DEF SoloInv
<1>5. CASE ~Claims(t) \/ ~RowClaimed(t)
  <2>1. Halts(t) \/ Scans(t) \/ Decides(t) \/ Advances(t) \/ Cleans(t)
    BY <1>5 DEF TickEffect
  <2>2. row'.claimedAt = row.claimedAt /\ row'.claimAge = row.claimAge /\ row'.idle \in {0, row.idle}
    <3>1. RowKept \/ MarkedByTick(t) \/ RowDeleted(t) \/ row' = row
      BY <1>5 DEF TickEffect
    <3>2. RowDeleted(t) => /\ row'.claimedAt = row.claimedAt /\ row'.claimAge = row.claimAge
                           /\ row'.idle = row.idle
      BY <1>0 DEF RowDeleted, Row
    <3> QED
      BY <3>1, <3>2 DEF RowKept, MarkedByTick, RowMarked
  <2>3. tick'[t].pc # "run"
    <3>1. CASE Decides(t)
      BY <3>1 DEF Decides, Decision
    <3> QED
      BY <2>1, <3>1 DEF Halts, Scans, Advances, Cleans
  <2>4. tick'[t].pc \in {"cluster", "claim"} =>
          \/ Advances(t) /\ tick'[t].pc = "claim" /\ tick[t].pc = "cluster" /\ NoTasks
          \/ Decides(t) /\ tick'[t].pc = "cluster"
    <3>1. CASE Decides(t)
      <4>1. tick'[t].pc = Decision(tick[t].seen)
        BY <3>1 DEF Decides
      <4>2. tick'[t].pc # "claim"
        BY <4>1 DEF Decision
      <4> QED
        BY <3>1, <4>2
    <3> QED
      BY <2>1, <3>1 DEF Halts, Scans, Advances, Cleans
  <2>5. ASSUME NEW u \in Ticks, tick'[u].pc = "run"
        PROVE  /\ row'.claimedAt # 0 /\ row'.claimAge <= tick'[u].life /\ row'.idle <= tick'[u].life
               /\ \A v \in Ticks \ {u} : /\ tick'[v].pc # "run"
                                         /\ tick'[v].pc \in {"cluster", "claim"} => Stale(v)'
    <3>1. u # t /\ tick'[u] = tick[u] /\ tick[u].pc = "run"
      BY <1>1, <2>3, <2>5
    <3>2. row'.claimedAt # 0 /\ row'.claimAge <= tick'[u].life /\ row'.idle <= tick'[u].life
      BY <1>0, <2>2, <3>1 DEF SoloInv
    <3>3. tick'[t].pc \in {"cluster", "claim"} => Stale(t)'
      <4>1. ASSUME tick'[t].pc \in {"cluster", "claim"} PROVE Stale(t)
        <5>1. CASE Advances(t) /\ tick[t].pc = "cluster"
          BY <3>1, <5>1 DEF SoloInv
        <5>2. CASE Decides(t) /\ tick'[t].pc = "cluster"
          BY <3>1, <5>2, ClaimedNotOverdue DEF Decides
        <5> QED
          BY <2>4, <4>1, <5>1, <5>2
      <4>2. ASSUME tick'[t].pc \in {"cluster", "claim"}
            PROVE  tick'[t].seen = tick[t].seen /\ row.updatedAt <= row'.updatedAt
        <5>1. row.updatedAt \in Nat /\ row'.updatedAt \in Nat
          BY <1>0, RowFields
        <5> QED
          BY <2>4, <4>2, <5>1 DEF Advances, Decides, RowForward
      <4>3. row.updatedAt \in Nat /\ row'.updatedAt \in Nat /\ tick[t].seen.updatedAt \in Nat
        BY <1>0, RowFields
      <4> QED
        BY <4>1, <4>2, <4>3 DEF Stale
    <3>4. \A v \in Ticks \ {u, t} : /\ tick'[v].pc # "run"
                                    /\ tick'[v].pc \in {"cluster", "claim"} => Stale(v)'
      BY <1>1, <3>1 DEF SoloInv
    <3> QED
      BY <2>3, <3>2, <3>3, <3>4
  <2>6. ASSUME NEW run \in Runs, run[2] = "recovery", tasks'[run] > 0, NEW u \in Ticks
        PROVE  tick'[u].pc # "run" /\ (tick'[u].pc = "claim" => Stale(u)')
    <3>1. CASE tasks' = tasks /\ u # t
      BY <1>1, <2>6, <3>1 DEF SoloInv
    <3>2. CASE tasks' = tasks /\ u = t
      <4>1. ~NoTasks
        BY <1>0, <2>6, <3>2 DEF NoTasks
      <4> QED
        BY <2>3, <2>4, <3>2, <4>1
    <3>3. CASE Halts(t) /\ tick[t].pc = "run"
      BY <1>1, <3>3 DEF SoloInv, Halts
    <3> QED
      BY <1>5, <3>1, <3>2, <3>3 DEF TickEffect
  <2> QED
    BY <1>2, <2>5, <2>6 DEF SoloInv
<1> QED
  BY <1>3, <1>4, <1>5 DEF TickEffect, RowClaimed

\* As time passes, a tick lives no shorter than the row waits.
LEMMA SoloTime ==
    ASSUME TypeInv, OrderInv, SoloInv, TimePasses, RowForward
    PROVE  SoloInv'
<1>1. /\ row \in Row /\ \A t \in Ticks : tick[t] \in Tick /\ tick[t].seen \in Row /\ tick[t].life \in Nat
  BY TickValues DEF TypeInv, TypeOK
<1>2. /\ row'.claimedAt = row.claimedAt /\ row'.claimAge \in Nat /\ row'.claimAge <= row.claimAge + 1
      /\ row'.idle \in Nat /\ row'.idle <= row.idle + 1 /\ row.idle \in Nat /\ row.claimAge \in Nat
  <2>1. /\ row'.claimedAt = row.claimedAt /\ row'.idle = Older(row.idle, Grace)
        /\ row'.claimAge = Older(row.claimAge, Deadline)
    BY <1>1, TimeStep, AgedRow DEF TypeInv
  <2>2. row.idle \in Nat /\ row.claimAge \in Nat
    BY <1>1, RowFields
  <2>3. Older(row.idle, Grace) \in Nat /\ Older(row.idle, Grace) <= row.idle + 1
    BY <2>2, OlderGrows
  <2>4. Older(row.claimAge, Deadline) \in Nat /\ Older(row.claimAge, Deadline) <= row.claimAge + 1
    BY <2>2, OlderGrows
  <2> QED
    BY <2>1, <2>2, <2>3, <2>4
<1>3. ASSUME NEW t \in Ticks
      PROVE  /\ tick'[t].pc = tick[t].pc /\ tick'[t].life <= LambdaTimeout
             /\ tick[t].pc = "run" => tick'[t].life = tick[t].life + 1
             /\ Stale(t)' <=> Stale(t)
  <2>1. /\ tick'[t].pc = tick[t].pc /\ tick'[t].claim = tick[t].claim /\ stamp' = stamp
        /\ tick'[t].seen \in {tick[t].seen, Aged(tick[t].seen)} /\ row' = Aged(row)
        /\ tick[t].pc = "idle" => tick'[t] = tick[t]
        /\ tick[t].pc # "idle" => tick[t].life < LambdaTimeout /\ tick'[t].life = tick[t].life + 1
    BY TimeStep DEF TypeInv
  <2>2. tick'[t].life <= LambdaTimeout
    BY <1>1, <2>1 DEF SoloInv
  <2>3. Stale(t)' <=> Stale(t)
    BY <2>1, AgingTickOrder DEF OrderInv
  <2> QED
    BY <2>1, <2>2, <2>3
<1>4. tasks' = tasks
  BY TimeStep DEF TypeInv
<1> QED
  BY <1>1, <1>2, <1>3, <1>4 DEF SoloInv

LEMMA SoloOutside ==
    ASSUME TypeInv, OrderInv, SoloInv, Outside, RowForward
    PROVE  SoloInv'
<1>1. /\ tick' = tick /\ (RowKept \/ RowWritten \/ RowMarked)
      /\ \A run \in Runs : run[2] = "recovery" => tasks'[run] <= tasks[run]
  BY OutsideStep DEF OutsideEffect
<1>2. \A t \in Ticks : Stale(t) => Stale(t)'
  BY <1>1, TickKeepsOrder DEF OrderInv
<1>3. row'.claimedAt = row.claimedAt /\ row'.claimAge = row.claimAge /\ row'.idle \in {0, row.idle}
  BY <1>1 DEF RowKept, RowWritten, RowMarked
<1>4. \A t \in Ticks : tick[t].life \in Nat
  BY TickValues, RowMoves DEF TypeInv, TypeOK
<1>5. \A run \in Runs : run[2] = "recovery" /\ tasks'[run] > 0 => tasks[run] > 0
  BY <1>1, OutsideStep DEF TypeInv, TypeOK
<1> QED
  BY <1>1, <1>2, <1>3, <1>4, <1>5 DEF SoloInv

LEMMA SoloNext == TypeInv /\ OrderInv /\ SoloInv /\ [Next]_vars => SoloInv'
<1> SUFFICES ASSUME TypeInv, OrderInv, SoloInv, [Next]_vars PROVE SoloInv'
  OBVIOUS
<1>0. RowForward
  BY StepGoesForward
<1>1. ASSUME NEW t \in Ticks, TickEffect(t) PROVE SoloInv'
  <2>1. \A u \in Ticks : u # t => tick'[u] = tick[u]
    BY <1>1 DEF TickEffect, Halts, Scans, Decides, Advances, Cleans, Claims, Alone
  <2>2. \A u \in Ticks : u # t => (Stale(u) => Stale(u)')
    BY <1>0, <2>1, TickKeepsOrder DEF OrderInv
  <2> QED
    BY <1>0, <1>1, <2>2, SoloTick
<1>2. CASE TimePasses
  BY <1>0, <1>2, SoloTime
<1>3. CASE Outside
  BY <1>0, <1>3, SoloOutside
<1>4. CASE UNCHANGED vars
  <2>1. tick' = tick /\ row' = row /\ tasks' = tasks
    BY <1>4 DEF vars
  <2> QED
    BY <2>1 DEF SoloInv, Stale
<1> QED
  BY <1>1, <1>2, <1>3, <1>4, AnyStep, TickStep

\* However many ticks overlap, however they are delayed, killed or lose replies, at most
\* one recovery task of the meeting runs: a claim is younger than the ticks that could
\* still act on what they saw before it (recovery.go:327-329, 362-391).
THEOREM OneRunHolds == Spec => []OneRecoveryRun
<1>1. Init => OneRecoveryRun
  BY DEF Init, OneRecoveryRun
<1>2. TypeInv /\ OrderInv /\ SoloInv /\ OneRecoveryRun /\ [Next]_vars => OneRecoveryRun'
  <2> SUFFICES ASSUME TypeInv, OrderInv, SoloInv, OneRecoveryRun, [Next]_vars
               PROVE  OneRecoveryRun'
    OBVIOUS
  <2>0. tasks \in [Runs -> Nat]
    BY DEF TypeInv, TypeOK
  <2>1. CASE \A run \in Runs : run[2] = "recovery" => tasks'[run] <= tasks[run] /\ tasks'[run] \in Nat
    BY <2>0, <2>1 DEF OneRecoveryRun
  <2>2. ASSUME NEW t \in Ticks, TickEffect(t) PROVE OneRecoveryRun'
    <3>1. CASE tasks' = tasks
      BY <2>0, <2>1, <3>1
    <3>2. CASE /\ tick[t].pc = "run"
               /\ tasks' = [tasks EXCEPT ![<<tick[t].seen.audio, "recovery">>] = @ + 1]
      <4>1. \A run \in Runs : run[2] = "recovery" => tasks[run] = 0
        BY <2>0, <3>2 DEF SoloInv
      <4> DEFINE new == <<tick[t].seen.audio, "recovery">>
      <4>2. \A run \in Runs : run # new => tasks'[run] = tasks[run]
        BY <2>0, <3>2
      <4>3. new \in Runs => tasks'[new] = tasks[new] + 1
        BY <2>0, <3>2
      <4> QED
        BY <2>0, <4>1, <4>2, <4>3 DEF OneRecoveryRun
    <3> QED
      BY <2>2, <3>1, <3>2 DEF TickEffect
  <2>3. CASE Outside
    BY <2>1, <2>3, OutsideStep DEF OutsideEffect, TypeOK
  <2>4. CASE TimePasses \/ UNCHANGED vars
    BY <2>0, <2>1, <2>4, TimeStep DEF TypeInv, vars
  <2> QED
    BY <2>2, <2>3, <2>4, AnyStep, TickStep
<1> QED
  BY <1>1, <1>2, TypeInvInit, TypeInvNext, OrderInit, OrderNext, SoloInit, SoloNext, PTL DEF Spec

-----------------------------------------------------------------------------
(* One audio file, and what it holds. *)

\* The row is bound to an uploaded file, and a deletable code is right about it.
RowSound ==
    /\ row.audio # 0 => puts = 1
    /\ row.status = "transcribing" => row.audio # 0
    /\ row.code \in Deletable => row.audio # 0 /\ sound[1] # "speech"
    /\ row.status = "gone" => row.code \in Deletable

\* Nothing works on a file that was not uploaded.
WorkSound ==
    /\ starts # {} \/ copying # 0 => puts = 1
    /\ \A run \in Runs : tasks[run] > 0 => puts = 1
    /\ \A t \in Ticks : tick[t].seen.audio # 0 => puts = 1

\* A transcript, stored or about to be judged, is without speech only if its file is.
TranscriptSound ==
    /\ bucket.etag # 0 \/ event => bucket.from # 0
    /\ \A t \in Ticks : tick[t].pc \in {"redrive", "copy"} => bucket.from # 0
    /\ bucket.from # 0 => puts = 1 /\ (bucket.speech \/ sound[1] # "speech")
    /\ handler.pc # "idle" => puts = 1 /\ (handler.speech \/ sound[1] # "speech")

SpeechInv == RowSound /\ WorkSound /\ TranscriptSound

LEMMA SpeechInit == Init => SpeechInv
<1>1. /\ FreshRow.audio = 0 /\ FreshRow.status = "recording" /\ FreshRow.code = "none"
      /\ NoTick.pc = "idle" /\ NoTick.seen = FreshRow /\ NoHandler.pc = "idle"
  BY DEF FreshRow, NoTick, NoHandler
<1> QED
  BY <1>1 DEF Init, SpeechInv, RowSound, WorkSound, TranscriptSound, Deletable

\* Starts, tasks and the marks of the worker.
LEMMA SpeechTranscription ==
    ASSUME MaxAudios = 1, TypeInv, SpeechInv,
           StartTranscription \/ (\E run \in Runs : TaskEnds(run))
    PROVE  SpeechInv'
<1> USE DEF SpeechInv
<1>0. /\ row \in Row /\ bucket \in Bucket /\ now \in Nat /\ tasks \in [Runs -> Nat]
      /\ starts \subseteq Runs /\ stamp \in Nat
  BY DEF TypeInv, TypeOK, now
<1>1. CASE StartTranscription
  <2>1. PICK run \in starts :
          \/ /\ tasks' = [tasks EXCEPT ![run] = @ + 1] /\ starts' = starts \ {run}
             /\ Unwritten /\ UNCHANGED faults
          \/ /\ Fault /\ Write([row EXCEPT !.status = "error"])
             /\ starts' \in {starts, starts \ {run}} /\ UNCHANGED tasks
    BY <1>1 DEF StartTranscription
  <2>2. UNCHANGED <<bucket, event, tick, Others, claims>>
    BY <1>1 DEF StartTranscription
  <2>3. puts = 1 /\ starts' \subseteq starts
    BY <2>1 DEF WorkSound
  <2>4. RowSound'
    <3>1. row' = row \/ row' = [[row EXCEPT !.status = "error"] EXCEPT !.updatedAt = now, !.idle = 0]
      BY <2>1 DEF Unwritten, Write
    <3>2. row'.audio = row.audio /\ row'.code = row.code /\ row'.status \in {row.status, "error"}
      BY <1>0, <3>1 DEF Row
    <3> QED
      BY <2>2, <3>2 DEF RowSound, Others
  <2> QED
    BY <2>2, <2>3, <2>4 DEF Others, WorkSound, TranscriptSound
<1>2. ASSUME NEW run \in Runs, TaskEnds(run) PROVE SpeechInv'
  <2>1. tasks' = [tasks EXCEPT ![run] = @ - 1] /\ tasks[run] > 0
    BY <1>2 DEF TaskEnds, UploadTranscript, MarkFailure, TaskLost, TaskDone
  <2>2. puts = 1 /\ run[1] = 1 /\ run[1] # 0
    <3>1. run[1] \in 1 .. 1
      BY RunParts DEF Audio
    <3> QED
      BY <2>1, <3>1 DEF WorkSound
  <2>3. UNCHANGED <<starts, tick, Others, claims>>
    BY <1>2 DEF TaskEnds, UploadTranscript, MarkFailure, TaskLost
  <2>4. WorkSound'
    BY <2>2, <2>3 DEF WorkSound, Others
  <2>5. CASE UploadTranscript(run)
    <3>1. /\ bucket' = [bucket EXCEPT !.etag = now, !.from = run[1], !.modified = now, !.age = 0,
                                      !.speech = sound[run[1]] = "speech"]
          /\ row' = row
      BY <2>5 DEF UploadTranscript
    <3>2. bucket'.from = 1 /\ bucket'.speech = (sound[1] = "speech")
      BY <1>0, <2>2, <3>1 DEF Bucket
    <3>3. TranscriptSound'
      BY <2>2, <2>3, <3>2 DEF TranscriptSound, Others
    <3>4. RowSound'
      BY <2>3, <3>1 DEF RowSound, Others
    <3> QED
      BY <2>4, <3>3, <3>4
  <2>6. CASE MarkFailure(run)
    <3>1. UNCHANGED <<bucket, event>>
      BY <2>6 DEF MarkFailure
    <3>2. TranscriptSound'
      BY <2>3, <3>1 DEF TranscriptSound, Others
    <3>3. CASE Unwritten
      BY <2>3, <2>4, <3>2, <3>3 DEF RowSound, Others, Unwritten
    <3>4. CASE ~Unwritten
      <4>1. /\ row.status = "transcribing"
            /\ markSttFailure(FailureCode(sound[run[1]] = "corrupt"))
        BY <2>6, <3>4 DEF MarkFailure, MarkFailureFence
      <4>2. /\ row'.audio = row.audio /\ row'.status = "error"
            /\ row'.code = FailureCode(sound[1] = "corrupt")
        BY <1>0, <2>2, <4>1 DEF markSttFailure, Row
      <4>3. row'.code \in Deletable => sound[1] # "speech"
        BY <4>2 DEF FailureCode, Deletable
      <4>4. RowSound'
        BY <2>3, <4>1, <4>2, <4>3 DEF RowSound, Others
      <4> QED
        BY <2>4, <3>2, <4>4
    <3> QED
      BY <3>3, <3>4
  <2>7. CASE TaskLost(run)
    <3>1. UNCHANGED <<bucket, event, row>>
      BY <2>7 DEF TaskLost, Unwritten
    <3> QED
      BY <2>3, <2>4, <3>1 DEF RowSound, TranscriptSound, Others
  <2> QED
    BY <1>2, <2>5, <2>6, <2>7 DEF TaskEnds
<1> QED
  BY <1>1, <1>2

\* The summarize Lambda judges what is stored.
LEMMA SpeechSummarize ==
    ASSUME TypeInv, SpeechInv, Summarize
    PROVE  SpeechInv'
<1> USE DEF SpeechInv
<1>0. row \in Row /\ now \in Nat /\ handler \in Handler
  BY DEF TypeInv, TypeOK, now
<1>1. UNCHANGED <<bucket, starts, tasks, tick, sound, puts, copying>>
  BY DEF Summarize, CaptureTranscript, CheckTranscriptObjects, FinishTranscript, Quiet
<1>2. WorkSound'
  BY <1>1 DEF WorkSound
<1>3. NoHandler.pc = "idle"
  BY DEF NoHandler
<1>4. CASE CaptureTranscript
  <2>1. /\ event /\ event' = FALSE /\ row' = row
        /\ \/ handler' = [pc |-> "check", audio |-> row.audio, etag |-> bucket.etag,
                          speech |-> bucket.speech]
           \/ handler' = handler
    BY <1>4 DEF CaptureTranscript, Unwritten
  <2>2. puts = 1 /\ (bucket.speech \/ sound[1] # "speech")
    BY <2>1 DEF TranscriptSound
  <2>3. handler'.pc # "idle" => handler'.speech \/ sound[1] # "speech"
    BY <2>1, <2>2 DEF TranscriptSound
  <2> QED
    BY <1>1, <1>2, <2>1, <2>2, <2>3 DEF RowSound, TranscriptSound
<1>5. CASE CheckTranscriptObjects
  <2>1. /\ handler' = NoHandler \/ handler' = [handler EXCEPT !.pc = "write"]
        /\ handler.pc = "check" /\ row' = row /\ event' = event
    BY <1>5 DEF CheckTranscriptObjects, Unwritten
  <2>2. handler'.pc # "idle" => handler'.speech = handler.speech
    BY <1>0, <1>3, <2>1 DEF Handler
  <2> QED
    BY <1>1, <1>2, <2>1, <2>2 DEF RowSound, TranscriptSound
<1>6. CASE FinishTranscript
  <2>1. handler' = NoHandler /\ event' = event /\ handler.pc = "write"
    BY <1>6 DEF FinishTranscript
  <2>2. TranscriptSound'
    BY <1>1, <1>3, <2>1 DEF TranscriptSound
  <2>3. \/ row' = row
        \/ /\ row.status = "transcribing"
           /\ \/ Write([row EXCEPT !.status = "done"]) \/ Write([row EXCEPT !.status = "error"])
              \/ ~handler.speech /\ markSttFailure("NO_SPEECH")
    BY <1>6 DEF FinishTranscript, Unwritten
  <2>4. \/ row' = row
        \/ /\ row.status = "transcribing" /\ row'.audio = row.audio
           /\ row'.status \in {"done", "error"}
           /\ row'.code = row.code \/ ~handler.speech
    BY <1>0, <2>3 DEF Write, markSttFailure, Row
  <2>5. RowSound'
    BY <1>1, <2>1, <2>4 DEF RowSound, TranscriptSound
  <2> QED
    BY <1>2, <2>2, <2>5
<1> QED
  BY <1>4, <1>5, <1>6 DEF Summarize

\* The owner and detail reads.
LEMMA SpeechOwner ==
    ASSUME MaxAudios = 1, TypeInv, SpeechInv,
           \/ PutAudio \/ (\E a \in Audio : BindMeetingAudioKey(a)) \/ RediarizeMeeting
           \/ CopyForRediarize \/ UpdateMeeting \/ Relate \/ ReadExpiresStuck
    PROVE  SpeechInv'
<1> USE DEF SpeechInv
<1>0. row \in Row /\ now \in Nat /\ bucket \in Bucket /\ puts \in 0 .. 1
  BY DEF TypeInv, TypeOK, now
<1>1. UNCHANGED <<tick, tasks, event, handler>>
  BY DEF PutAudio, BindMeetingAudioKey, RediarizeMeeting, CopyForRediarize, UpdateMeeting,
         Relate, ReadExpiresStuck, Rest
<1>2. CASE PutAudio
  <2>1. puts = 0 /\ puts' = 1 /\ row' = row
    BY <1>0, <1>2 DEF PutAudio
  <2>2. bucket'.etag = bucket.etag /\ bucket'.from = bucket.from
    BY <1>0, <1>2 DEF PutAudio, Bucket
  <2> QED
    BY <1>1, <2>1, <2>2 DEF RowSound, WorkSound, TranscriptSound
<1>3. CASE CopyForRediarize
  <2>1. copying # 0 /\ UNCHANGED <<row, sound, puts>>
    BY <1>3 DEF CopyForRediarize
  <2>2. bucket'.etag = bucket.etag /\ bucket'.from = bucket.from /\ bucket'.speech = bucket.speech
    BY <1>0, <1>3 DEF CopyForRediarize, Bucket
  <2> QED
    BY <1>1, <2>1, <2>2 DEF RowSound, WorkSound, TranscriptSound
<1>4. CASE ~PutAudio /\ ~CopyForRediarize
  <2>1. UNCHANGED <<bucket, sound, puts, starts>>
    BY <1>4 DEF BindMeetingAudioKey, RediarizeMeeting, UpdateMeeting, Relate, ReadExpiresStuck, Rest
  <2>2. TranscriptSound'
    BY <1>1, <2>1 DEF TranscriptSound
  <2>3. copying' = copying \/ row.audio # 0
    BY <1>4 DEF BindMeetingAudioKey, RediarizeMeeting, UpdateMeeting, Relate, ReadExpiresStuck, Rest
  <2>4. WorkSound'
    BY <1>1, <2>1, <2>3 DEF WorkSound, RowSound
  <2>5. ASSUME NEW a \in Audio, BindMeetingAudioKey(a) PROVE RowSound'
    <3>1. a # 0 /\ puts = 1
      BY <1>0, <2>5 DEF BindMeetingAudioKey, Audio
    <3>2. row'.audio = a /\ row'.code = row.code /\ row'.status = "transcribing"
      BY <1>0, <2>5 DEF BindMeetingAudioKey, Write, Row
    <3> QED
      BY <2>1, <3>1, <3>2 DEF RowSound
  <2>6. CASE RediarizeMeeting
    <3>1. /\ row.audio # 0 /\ row'.audio = row.audio /\ row'.code = row.code
          /\ row'.status = "transcribing"
      BY <1>0, <2>6 DEF RediarizeMeeting, Write, Row
    <3> QED
      BY <2>1, <2>2, <2>4, <3>1 DEF RowSound
  <2>7. CASE UpdateMeeting \/ Relate \/ ReadExpiresStuck
    <3>1. row'.audio = row.audio /\ row'.code = row.code /\ row'.status \in {row.status, "error"}
      BY <1>0, <2>7 DEF UpdateMeeting, Relate, ReadExpiresStuck, Unwritten, Write, Row
    <3> QED
      BY <2>1, <2>2, <2>4, <3>1 DEF RowSound
  <2> QED
    BY <1>4, <2>2, <2>4, <2>5, <2>6, <2>7
<1> QED
  BY <1>2, <1>3, <1>4

\* What the steps of a tick do to the row.
LEMMA TickRowSound ==
    ASSUME TypeInv, OrderInv, SpeechInv, NEW t \in Ticks,
           ScanSttRecoveryRows(t) \/ HandleRow(t) \/ Crash(t)
    PROVE  RowSound' /\ UNCHANGED <<sound, puts, handler, copying, starts>>
<1> USE DEF SpeechInv
<1>0. row \in Row /\ tick[t] \in Tick /\ now \in Nat
  BY DEF TypeInv, TypeOK, now
<1>1. UNCHANGED <<sound, puts, handler, copying, starts>>
  BY DEF HandleRow, ScanSttRecoveryRows, Classify, clusterBusy, ClaimSttRecovery, RunTask,
         ClaimSttSummaryRedrive, CopyObject, MarkSttFailureForClaim, MarkSttFailureObserved,
         ScanSttDeletionReferences, QueryChildren, DeleteSttFailedMeeting,
         DeleteSttFailedMeetingObjects, Crash, Others, Objects
<1>2. CASE row' = row
  BY <1>1, <1>2 DEF RowSound
<1>3. CASE /\ tick[t].pc \in {"claim", "redrive"} /\ sttRecoveryBaseCondition(tick[t].seen)
           /\ \E r \in Row : r.audio = row.audio /\ sttClaimUpdate(r, tick[t].claim)
  <2>1. PICK r \in Row : r.audio = row.audio /\ sttClaimUpdate(r, tick[t].claim)
    BY <1>3
  <2>2. row'.audio = row.audio /\ row'.status = "transcribing" /\ row'.code = "none"
    BY <2>1 DEF sttClaimUpdate, Row
  <2>3. row.audio # 0
    BY <1>3 DEF sttRecoveryBaseCondition, TypeInv, Pending
  <2> QED
    BY <1>1, <2>2, <2>3 DEF RowSound, Deletable
<1>4. CASE \E code \in Retryable \cup {"RECOVERY_EXHAUSTED"} : markSttFailure(code)
  <2>1. row'.audio = row.audio /\ row'.status = "error" /\ row'.code \notin Deletable
    BY <1>0, <1>4 DEF markSttFailure, Row, Retryable, Deletable
  <2> QED
    BY <1>1, <2>1 DEF RowSound
<1>5. CASE RowDeleted(t)
  <2>1. row.code = tick[t].seen.code /\ tick[t].pc = "delete" /\ row' = [row EXCEPT !.status = "gone"]
    BY <1>5 DEF RowDeleted, sttFailedMeetingDeleteCondition
  <2>2. row.code \in Deletable
    BY <2>1 DEF OrderInv, DeletionsDue, DeletionDue
  <2>3. row'.audio = row.audio /\ row'.code = row.code /\ row'.status = "gone"
    BY <1>0, <2>1 DEF Row
  <2> QED
    BY <1>1, <2>2, <2>3 DEF RowSound
<1>6. CASE ClaimSttRecovery(t)
  <2> DEFINE seen == tick[t].seen
             r == [row EXCEPT !.attempts = Attempts(seen) + 1, !.redrives = Redrives(row),
                              !.claimedAt = tick[t].claim, !.claimAge = 0]
  <2>1. tick[t].pc = "claim" /\ \/ row' = row
                                \/ sttRecoveryBaseCondition(seen) /\ sttClaimUpdate(r, tick[t].claim)
    BY <1>6 DEF ClaimSttRecovery, NotClaimed, Unwritten
  <2>2. r \in Row /\ r.audio = row.audio
    <3>1. Attempts(seen) + 1 \in 0 .. MaxAttempts
      <4>1. BudgetLeft(Attempts(seen)) /\ seen \in Row
        BY <1>0, <2>1, TickValues DEF TypeInv, Pending
      <4>2. Attempts(seen) \in 0 .. MaxAttempts
        BY <4>1, RowFields
      <4> QED
        BY <4>1, <4>2 DEF BudgetLeft
    <3>2. Redrives(row) \in 0 .. MaxAttempts /\ tick[t].claim \in Nat
      BY <1>0, RowFields, TickValues
    <3> DEFINE n == Attempts(seen) + 1
               m == Redrives(row)
    <3> HIDE DEF n, m
    <3> QED
      BY <1>0, <3>1, <3>2 DEF Row, n, m
  <2> HIDE DEF r
  <2> QED
    BY <1>2, <1>3, <2>1, <2>2
<1>7. CASE ClaimSttSummaryRedrive(t)
  <2> DEFINE seen == tick[t].seen
             r == [row EXCEPT !.redrives = Redrives(seen) + 1, !.attempts = Attempts(row),
                              !.redriveAge = 0, !.redrivenAt = tick[t].claim]
  <2>1. tick[t].pc = "redrive" /\ \/ row' = row
                                  \/ sttRecoveryBaseCondition(seen) /\ sttClaimUpdate(r, tick[t].claim)
    BY <1>7 DEF ClaimSttSummaryRedrive, NotClaimed, Unwritten
  <2>2. r \in Row /\ r.audio = row.audio
    <3>1. Redrives(seen) + 1 \in 0 .. MaxAttempts
      <4>1. BudgetLeft(Redrives(seen)) /\ seen \in Row
        BY <1>0, <2>1, TickValues DEF TypeInv, Pending
      <4>2. Redrives(seen) \in 0 .. MaxAttempts
        BY <4>1, RowFields
      <4> QED
        BY <4>1, <4>2 DEF BudgetLeft
    <3>2. Attempts(row) \in 0 .. MaxAttempts /\ tick[t].claim \in Nat
      BY <1>0, RowFields, TickValues
    <3> DEFINE n == Redrives(seen) + 1
               m == Attempts(row)
    <3> HIDE DEF n, m
    <3> QED
      BY <1>0, <3>1, <3>2 DEF Row, n, m
  <2> HIDE DEF r
  <2> QED
    BY <1>2, <1>3, <2>1, <2>2
<1>8. CASE MarkSttFailureForClaim(t)
  <2>1. tick[t].code \in Retryable
    <3>1. tick[t].code \in {"none", "RUNTASK_FAILED", "REDRIVE_FAILED"} /\ tick[t].code # "none"
      BY <1>0, <1>8, TickValues DEF MarkSttFailureForClaim, TypeInv, Pending
    <3> QED
      BY <3>1 DEF Retryable
  <2> QED
    BY <1>2, <1>4, <1>8, <2>1 DEF MarkSttFailureForClaim, Unwritten
<1>9. CASE MarkSttFailureObserved(t)
  BY <1>2, <1>4, <1>9 DEF MarkSttFailureObserved, Unwritten
<1>10. CASE DeleteSttFailedMeeting(t)
  BY <1>2, <1>5, <1>10 DEF DeleteSttFailedMeeting, Unwritten, RowDeleted
<1> QED
  BY <1>2, <1>6, <1>7, <1>8, <1>9, <1>10
     DEF HandleRow, ScanSttRecoveryRows, Classify, clusterBusy, RunTask, CopyObject,
         ScanSttDeletionReferences, QueryChildren, DeleteSttFailedMeetingObjects, Crash, Unwritten

\* What they do to the tick, the tasks and the objects.
LEMMA TickWorkSound ==
    ASSUME TypeInv, SpeechInv, NEW t \in Ticks,
           ScanSttRecoveryRows(t) \/ HandleRow(t) \/ Crash(t),
           UNCHANGED <<sound, puts, handler, copying, starts>>
    PROVE  WorkSound' /\ TranscriptSound'
<1> USE DEF SpeechInv
<1>0. /\ row \in Row /\ tick[t] \in Tick /\ tick[t].seen \in Row /\ bucket \in Bucket
      /\ tasks \in [Runs -> Nat]
  BY TickValues DEF TypeInv, TypeOK
<1>1. TickEffect(t)
  BY TickStep
<1>2. Alone(t)
  BY <1>1 DEF TickEffect, Halts, Scans, Decides, Advances, Cleans, Claims
<1>3. FreshRow.audio = 0 /\ [FreshRow EXCEPT !.audio = row.audio].audio = row.audio /\ NoTick.seen = FreshRow
      /\ NoTick.pc = "idle"
  BY DEF FreshRow, NoTick
<1>4. tick'[t].seen.audio # 0 => puts = 1
  BY <1>1, <1>3 DEF TickEffect, Halts, Scans, Decides, Advances, Cleans, Claims, RowSound, WorkSound
<1>5. \A run \in Runs : tasks'[run] > 0 => puts = 1
  <2>1. CASE tasks' = tasks
    BY <2>1 DEF WorkSound
  <2>2. CASE tick[t].pc = "run"
    BY <2>2 DEF WorkSound, TypeInv, Pending
  <2> QED
    BY <1>1, <2>1, <2>2 DEF TickEffect
<1>6. WorkSound'
  BY <1>2, <1>4, <1>5 DEF WorkSound, Alone
<1>7. /\ bucket'.from = bucket.from /\ bucket'.speech = bucket.speech
      /\ bucket'.etag \in {0, bucket.etag}
      /\ event' = event \/ tick[t].pc = "copy"
  <2>1. \/ bucket' = bucket \/ bucket' = [bucket EXCEPT !.audio = FALSE, !.etag = 0]
        \/ bucket' = [bucket EXCEPT !.modified = now, !.age = 0]
    BY DEF HandleRow, ScanSttRecoveryRows, Classify, clusterBusy, ClaimSttRecovery, RunTask,
         ClaimSttSummaryRedrive, CopyObject, MarkSttFailureForClaim, MarkSttFailureObserved,
         ScanSttDeletionReferences, QueryChildren, DeleteSttFailedMeeting,
         DeleteSttFailedMeetingObjects, Crash, Objects
  <2>2. event' = event \/ tick[t].pc = "copy"
    BY DEF HandleRow, ScanSttRecoveryRows, Classify, clusterBusy, ClaimSttRecovery, RunTask,
         ClaimSttSummaryRedrive, CopyObject, MarkSttFailureForClaim, MarkSttFailureObserved,
         ScanSttDeletionReferences, QueryChildren, DeleteSttFailedMeeting,
         DeleteSttFailedMeetingObjects, Crash, Objects
  <2> QED
    BY <1>0, <2>1, <2>2 DEF Bucket
<1>8. tick'[t].pc \in {"redrive", "copy"} => bucket.from # 0
  <2>1. CASE Decides(t)
    <3>1. tick'[t].pc = "redrive" => RedriveSummary(tick[t].seen)
      BY <2>1 DEF Decides, Decision
    <3>2. tick'[t].pc # "copy"
      BY <2>1 DEF Decides, Decision
    <3> QED
      BY <3>1, <3>2 DEF RedriveSummary, TranscriptCurrent, TranscriptSound
  <2>2. CASE ~Decides(t)
    BY <1>1, <1>3, <2>2 DEF TickEffect, Halts, Scans, Advances, Cleans, Claims, TranscriptSound
  <2> QED
    BY <2>1, <2>2
<1>9. TranscriptSound'
  BY <1>2, <1>7, <1>8 DEF TranscriptSound, Alone
<1> QED
  BY <1>6, <1>9

LEMMA SpeechNext ==
    ASSUME MaxAudios = 1
    PROVE  TypeInv /\ OrderInv /\ SpeechInv /\ [Next]_vars => SpeechInv'
<1> SUFFICES ASSUME TypeInv, OrderInv, SpeechInv, [Next]_vars PROVE SpeechInv'
  OBVIOUS
<1>1. ASSUME NEW t \in Ticks, ScanSttRecoveryRows(t) \/ HandleRow(t) \/ Crash(t) PROVE SpeechInv'
  BY <1>1, TickRowSound, TickWorkSound DEF SpeechInv
<1>2. CASE TimePasses
  <2>1. row \in Row /\ bucket \in Bucket
    BY DEF TypeInv, TypeOK
  <2>2. /\ row' = Aged(row)
        /\ bucket' = [bucket EXCEPT !.newestAge = Older(@, Deadline), !.age = Older(@, MinAge)]
        /\ UNCHANGED <<event, starts, tasks, sound, puts, handler, copying>>
    BY <1>2 DEF TimePasses, Others
  <2>3. /\ row'.audio = row.audio /\ row'.code = row.code /\ row'.status = row.status
        /\ bucket'.etag = bucket.etag /\ bucket'.from = bucket.from /\ bucket'.speech = bucket.speech
    BY <2>1, <2>2, AgedRow DEF Bucket
  <2>4. \A t \in Ticks : tick'[t].pc = tick[t].pc /\ tick'[t].seen.audio = tick[t].seen.audio
    <3>1. \A t \in Ticks : tick[t].seen \in Row
      BY <2>1, TickValues DEF TypeInv, TypeOK
    <3> QED
      BY <1>2, <3>1, TimeStep, AgedRow DEF TypeInv
  <2> QED
    BY <2>2, <2>3, <2>4 DEF SpeechInv, RowSound, WorkSound, TranscriptSound
<1>3. CASE Outside
  BY <1>3, SpeechTranscription, SpeechSummarize, SpeechOwner DEF Outside
<1>4. CASE UNCHANGED vars
  BY <1>4 DEF vars, SpeechInv, RowSound, WorkSound, TranscriptSound
<1> QED
  BY <1>1, <1>2, <1>3, <1>4, AnyStep

\* A meeting whose only recording holds speech is never deleted, for any number of ticks,
\* owner actions and faults (whisper/transcribe.py's codes and the fence of their marks,
\* stt_recovery.go:347-349).
THEOREM SpeechIsKept ==
    ASSUME MaxAudios = 1 PROVE Spec => []SpeechNeverDeleted
<1>1. TypeInv /\ SpeechInv => SpeechNeverDeleted
  <2> SUFFICES ASSUME TypeInv, SpeechInv, row.status = "gone" PROVE sound[row.audio] # "speech"
    BY DEF SpeechNeverDeleted
  <2>1. row.audio \in 0 .. 1
    BY RowFields DEF TypeInv, TypeOK
  <2>2. row.audio # 0 /\ sound[1] # "speech"
    BY DEF SpeechInv, RowSound
  <2> QED
    BY <2>1, <2>2
<1> QED
  BY <1>1, SpeechInit, SpeechNext, TypeInvInit, TypeInvNext, OrderInit, OrderNext, PTL DEF Spec
=============================================================================
