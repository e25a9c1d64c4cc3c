---------------------------- MODULE SttRecovery ----------------------------
(***************************************************************************)
(* The scheduled recovery of one single-file meeting whose transcription   *)
(* got stuck.                                                              *)
(*                                                                         *)
(* Every 15 minutes a tick scans the rows, looks at the meeting's S3       *)
(* objects and decides: start Whisper again, re-emit a transcript nobody   *)
(* published, give up, or delete a recording marked as failed whose grace  *)
(* period passed.  Ticks can overlap.  Whisper tasks finish, fail, die     *)
(* without a trace or take very long; the summarize Lambda publishes what  *)
(* they write; detail reads fail rows that stopped moving; owners upload   *)
(* again, re-run the diarization and edit.  Nobody holds a lock: every     *)
(* write of a tick is conditioned on the row as its scan saw it.           *)
(*                                                                         *)
(* Timestamps are serial numbers, which gives their order; how long ago    *)
(* they were is an age that grows with TimePasses and saturates.           *)
(***************************************************************************)
EXTENDS Naturals

CONSTANTS
    Ticks,           \* invocations of the recovery tick that can overlap
    MaxAttempts,     \* MaxSttRecoveryAttempts
    LambdaTimeout,   \* longest life of a tick
    RetryDelay,      \* SttRecoveryRetryDelay
    MinAge,          \* SttSummaryRedriveMinAge
    StuckAfter,      \* stuckTranscribingThreshold
    Deadline,        \* SttRecoveryBaseWindow + SttRecoveryMargin + the audio's share
    Grace,           \* SttFailureDeletionGrace
    MaxAudios,       \* bound: audio files the owner uploads
    Sounds,          \* bound: what an audio file can hold
    Acts,            \* bound: the kinds of further owner actions
    MaxActs,         \* bound: how many of them
    MaxFaults        \* bound: failing calls, dying tasks, killed invocations

\* 5, 15, 20, 60 and at least 75 minutes, and 7 days.
ASSUME DurationAssumption ==
    /\ LambdaTimeout \in Nat /\ RetryDelay \in Nat /\ MinAge \in Nat
    /\ StuckAfter \in Nat /\ Deadline \in Nat /\ Grace \in Nat
    /\ LambdaTimeout < RetryDelay /\ RetryDelay <= MinAge /\ MinAge <= StuckAfter
    /\ StuckAfter <= Deadline /\ Deadline <= Grace

ASSUME BoundAssumption ==
    /\ Sounds \subseteq {"speech", "silence", "corrupt"}
    /\ MaxAttempts \in Nat \ {0} /\ MaxAudios \in Nat /\ MaxActs \in Nat /\ MaxFaults \in Nat

VARIABLES
    row,       \* the meeting item
    bucket,    \* the meeting's S3 objects
    stamp,     \* the last timestamp handed out
    sound,     \* what each audio file holds
    puts,      \* audio files uploaded so far
    starts,    \* audio events on their way to the transcribe Lambda
    tasks,     \* Whisper tasks ECS wants running, by run
    event,     \* an event of the stored transcript is on its way to the summarize Lambda
    handler,   \* the summarize invocation at work
    tick,      \* the local state of each tick
    copying,   \* the source key of a rediarization whose copy is still to come
    related,   \* what makes the meeting user data, by the place that shows it
    acts,      \* owner actions so far (bound)
    faults,    \* faults so far (bound)
    bound,     \* history: the audio files that were bound once
    claims,    \* history: the recovery claims made for the row's recoveryKey
    touched    \* history: the row was written since its last failure mark

vars == <<row, bucket, stamp, sound, puts, starts, tasks, event, handler, tick,
          copying, related, acts, faults, bound, claims, touched>>

Audio == 1 .. MaxAudios
Retryable == {"WORKER_FAILED", "RUNTASK_FAILED", "REDRIVE_FAILED"}
Deletable == {"AUDIO_CORRUPT", "NO_SPEECH"}
Terminal  == Deletable \cup {"RECOVERY_EXHAUSTED"}

\* How a task came to run: an upload, a rediarize_ copy, or a tick.
Runs == Audio \X {"upload", "copy", "recovery"}

\* Once a transcript field is written the scan's filter hides the row, and what becomes
\* of it is MeetingSummary's: done is final here, and stands for all of that.
Row == [status: {"recording", "transcribing", "error", "done", "gone"},
        audio: 0 .. MaxAudios, hint: BOOLEAN,
        code: {"none"} \cup Retryable \cup Terminal,
        updatedAt: Nat, idle: Nat, failedAt: Nat,
        attempts: 0 .. MaxAttempts, recoveryKey: 0 .. MaxAudios,
        claimedAt: Nat, claimAge: Nat,
        redrives: 0 .. MaxAttempts, redrivenAt: Nat, redriveAge: Nat]

FreshRow == [status |-> "recording", audio |-> 0, hint |-> FALSE, code |-> "none",
             updatedAt |-> 0, idle |-> 0, failedAt |-> 0,
             attempts |-> 0, recoveryKey |-> 0, claimedAt |-> 0, claimAge |-> 0,
             redrives |-> 0, redrivenAt |-> 0, redriveAge |-> 0]

\* The newest audio object, and the transcript: the bytes' identity, the audio they
\* came from, whether they hold speech, and the object's last modification.
Bucket == [audio: BOOLEAN, newest: Nat, newestAge: Nat, etag: Nat, from: 0 .. MaxAudios,
           speech: BOOLEAN, modified: Nat, age: Nat]

Steps == {"idle", "facts", "cluster", "claim", "run", "redrive", "copy",
          "exhaust", "release", "refs", "children", "delete", "objects"}

Tick == [pc: Steps, seen: Row, etag: Nat, claim: Nat, life: Nat,
         code: {"none", "RUNTASK_FAILED", "REDRIVE_FAILED"}]

NoTick == [pc |-> "idle", seen |-> FreshRow, etag |-> 0, claim |-> 0, life |-> 0,
           code |-> "none"]

\* A running summarize invocation, with the fields its snapshot pins.
Handler == [pc: {"idle", "check", "write"}, audio: 0 .. MaxAudios, etag: Nat, speech: BOOLEAN]
NoHandler == [pc |-> "idle", audio |-> 0, etag |-> 0, speech |-> FALSE]

Init ==
    /\ row = FreshRow
    /\ bucket = [audio |-> TRUE, newest |-> 0, newestAge |-> 0, etag |-> 0, from |-> 0,
                 speech |-> FALSE, modified |-> 0, age |-> 0]
    /\ stamp = 0 /\ sound = [a \in Audio |-> "speech"] /\ puts = 0
    /\ starts = {} /\ tasks = [r \in Runs |-> 0] /\ event = FALSE /\ handler = NoHandler
    /\ tick = [t \in Ticks |-> NoTick] /\ copying = 0 /\ related = {}
    /\ acts = 0 /\ faults = 0 /\ bound = {} /\ claims = 0 /\ touched = FALSE

-----------------------------------------------------------------------------
(* What the calls share. *)

\* A claim's timestamp is taken when the row is classified and written later: it lies
\* between the last timestamp then and the next.
now == stamp + 2
claimNow == stamp + 1

\* A write of the row, which stamps updatedAt.
Write(r) ==
    /\ row' = [r EXCEPT !.updatedAt = now, !.idle = 0]
    /\ stamp' = now /\ touched' = TRUE

\* status error, a code, and one timestamp in sttFailedAt and updatedAt.
markSttFailure(code) ==
    /\ row' = [row EXCEPT !.status = "error", !.code = code, !.failedAt = now,
                          !.updatedAt = now, !.idle = 0]
    /\ stamp' = now /\ touched' = FALSE

Unwritten == UNCHANGED <<row, stamp, touched>>

Fault == faults < MaxFaults /\ faults' = faults + 1

\* What happens to a meeting the recovery cannot see any more is left out.
Open == row.status \notin {"done", "gone"}

\* One more owner action.
Act(kind) == Open /\ kind \in Acts /\ acts < MaxActs /\ acts' = acts + 1

Older(age, limit) == IF age < limit THEN age + 1 ELSE age
Aged(r) == [r EXCEPT !.idle = Older(@, Grace), !.claimAge = Older(@, Deadline),
                     !.redriveAge = Older(@, MinAge)]

\* What a tick leaves alone, most of the time.
Objects == <<bucket, starts, tasks, event>>
Others == <<sound, puts, handler, copying, related, acts, bound>>
-----------------------------------------------------------------------------
(* The decision, a function of the scanned row and the S3 objects. *)

SttFailureMarkCurrent(r) ==
    /\ r.code # "none" /\ r.status = "error" /\ r.failedAt # 0
    /\ r.updatedAt = r.failedAt

RetryMarked(r) == r.code \in Retryable /\ SttFailureMarkCurrent(r)

\* SttRecoveryDeadline has passed: the youngest of the times it takes the latest of.
Overdue(r) ==
    \/ RetryMarked(r) /\ r.idle >= RetryDelay
    \/ /\ ~RetryMarked(r) /\ bucket.newestAge >= Deadline
       /\ r.claimedAt # 0 => r.claimAge >= Deadline
       /\ r.status = "transcribing" => r.idle >= Deadline

\* The restarts of the pipeline the transcript has to be newer than.
SttPipelineRestarts(r) ==
    {bucket.newest, r.claimedAt}
    \cup {u \in {r.updatedAt} : r.status = "transcribing" /\ u # r.redrivenAt}

TranscriptCurrent(r) ==
    bucket.etag # 0 /\ \A restart \in SttPipelineRestarts(r) : bucket.modified > restart

\* Neither excluded nor inside the short delay of a current retryable mark.
CandidateWhileTranscribing(r) ==
    r.audio # 0 /\ r.status = "transcribing"
Candidate(r) ==
    /\ r.audio # 0 /\ r.status \in {"transcribing", "error"}
    /\ r.code \in Terminal => r.status = "transcribing"
    /\ RetryMarked(r) => r.idle >= RetryDelay

\* Both budgets belong to the audio key they were spent on.
OfKeyWhateverTheKey(r, n) == n
OfKey(r, n) == IF r.recoveryKey = r.audio THEN n ELSE 0
Attempts(r) == OfKey(r, r.attempts)
Redrives(r) == OfKey(r, r.redrives)

BudgetLeftOnceMore(n) == n <= MaxAttempts
BudgetLeft(n) == n < MaxAttempts

DeletionDue(r) ==
    r.code \in Deletable /\ SttFailureMarkCurrent(r) /\ ~r.hint /\ r.idle >= Grace

RedriveSummary(r) ==
    /\ Candidate(r) /\ TranscriptCurrent(r) /\ bucket.age >= MinAge
    /\ r.redrivenAt # 0 => r.redriveAge >= MinAge
    /\ BudgetLeft(Redrives(r))

MarkExhausted(r) ==
    Candidate(r) /\ ~TranscriptCurrent(r) /\ Overdue(r) /\ ~BudgetLeft(Attempts(r))

RedriveSTT(r) ==
    Candidate(r) /\ ~TranscriptCurrent(r) /\ Overdue(r) /\ BudgetLeft(Attempts(r))

\* ClassifySttRecovery: the step each decision leads to.
Decision(r) ==
    CASE DeletionDue(r)    -> "refs"
      [] RedriveSummary(r) -> "redrive"
      [] MarkExhausted(r)  -> "exhaust"
      [] RedriveSTT(r)     -> "cluster"
      [] OTHER             -> "idle"
-----------------------------------------------------------------------------
(* The tick: one row of its loop. *)

Goto(t, step) == tick' = [tick EXCEPT ![t].pc = step]
Stop(t) == tick' = [tick EXCEPT ![t] = NoTick]
Release(t, code) ==
    tick' = [tick EXCEPT ![t].pc = "release", ![t].code = code, ![t].seen = FreshRow, ![t].etag = 0]

\* The row passes the filter of the scan.
ScanSttRecoveryRows(t) ==
    /\ tick[t].pc = "idle" /\ row.status \in {"recording", "transcribing", "error"}
    /\ tick' = [tick EXCEPT ![t] = [NoTick EXCEPT !.pc = "facts", !.seen = row]]
    /\ Unwritten /\ UNCHANGED <<Objects, Others, faults, claims>>

\* The facts are read and the row is classified.
Classify(t) ==
    /\ tick[t].pc = "facts"
    /\ \/ Decision(tick[t].seen) = "idle" /\ Stop(t) /\ UNCHANGED faults
       \/ /\ Decision(tick[t].seen) # "idle" /\ UNCHANGED faults
          /\ tick' = [tick EXCEPT ![t].pc = Decision(tick[t].seen),
                ![t].claim = IF Decision(tick[t].seen) \in {"cluster", "redrive"}
                              THEN claimNow ELSE 0,
                ![t].etag = IF RedriveSummary(tick[t].seen) THEN bucket.etag ELSE 0]
       \/ Fault /\ Stop(t)
    /\ Unwritten /\ UNCHANGED <<Objects, Others, claims>>

\* The single-flight rule. Another meeting's task, like a failed check, is a fault.
NoTasksButRecovery == \A r \in Runs : r[2] # "recovery" => tasks[r] = 0
NoTasks == \A r \in Runs : tasks[r] = 0
clusterBusy(t) ==
    /\ tick[t].pc = "cluster"
    /\ \/ NoTasks /\ Goto(t, "claim") /\ UNCHANGED faults
       \/ ~NoTasks /\ Stop(t) /\ UNCHANGED faults
       \/ Fault /\ Stop(t)
    /\ Unwritten /\ UNCHANGED <<Objects, Others, claims>>

\* The row is still the one the scan saw.
sttRecoveryStatusCondition(seen) == row.status = seen.status /\ row.audio = seen.audio
sttRecoveryBaseCondition(seen) ==
    /\ row.status = seen.status /\ row.updatedAt = seen.updatedAt
    /\ row.audio = seen.audio /\ row.code = seen.code
    /\ row.attempts = seen.attempts /\ row.recoveryKey = seen.recoveryKey

\* Back to transcribing under a new claim, which is also updatedAt.
sttClaimUpdate(r, claim) ==
    /\ row' = [r EXCEPT !.status = "transcribing", !.recoveryKey = row.audio, !.code = "none",
                        !.failedAt = 0, !.updatedAt = claim, !.idle = 0]
    /\ stamp' = now /\ touched' = TRUE

ClaimsOfKey == IF row.recoveryKey = row.audio THEN claims ELSE 0

\* The claim is known to be ours, unless its reply and the read-back both failed.
Claimed(t, step) ==
    \/ /\ tick' = [tick EXCEPT ![t].pc = step,
                         ![t].seen = [FreshRow EXCEPT !.audio = row.audio]]
       /\ UNCHANGED faults
    \/ Fault /\ Stop(t)

\* The write was refused, or it failed and the read-back does not show it.
NotClaimed(t, holds) ==
    /\ IF holds THEN Fault ELSE UNCHANGED faults
    /\ Stop(t) /\ Unwritten /\ UNCHANGED claims

\* redriveSTT. Its GetMeeting only stops earlier what the condition refuses as well.
ClaimSttRecovery(t) ==
    LET seen == tick[t].seen
        holds == sttRecoveryBaseCondition(seen)
    IN
    /\ tick[t].pc = "claim"
    /\ \/ /\ holds /\ Claimed(t, "run")
          /\ sttClaimUpdate([row EXCEPT !.attempts = Attempts(seen) + 1, !.redrives = Redrives(row),
                                        !.claimedAt = tick[t].claim, !.claimAge = 0], tick[t].claim)
          /\ claims' = ClaimsOfKey + 1
       \/ NotClaimed(t, holds)
    /\ UNCHANGED <<Objects, Others>>

\* RunTask. An error can hide a task that was started.
RunTask(t) ==
    LET run == <<tick[t].seen.audio, "recovery">> IN
    /\ tick[t].pc = "run"
    /\ \/ tasks' = [tasks EXCEPT ![run] = @ + 1] /\ Stop(t) /\ UNCHANGED faults
       \/ /\ Fault /\ Release(t, "RUNTASK_FAILED")
          /\ tasks' \in {tasks, [tasks EXCEPT ![run] = @ + 1]}
    /\ Unwritten /\ UNCHANGED <<bucket, starts, event, Others, claims>>

ClaimSttSummaryRedrive(t) ==
    LET seen == tick[t].seen
        holds == sttRecoveryBaseCondition(seen) /\ row.redrives = seen.redrives
    IN
    /\ tick[t].pc = "redrive"
    /\ \/ /\ holds /\ Claimed(t, "copy")
          /\ sttClaimUpdate([row EXCEPT !.redrives = Redrives(seen) + 1,
                                        !.attempts = Attempts(row), !.redriveAge = 0,
                                        !.redrivenAt = tick[t].claim], tick[t].claim)
          /\ claims' = ClaimsOfKey
       \/ NotClaimed(t, holds)
    /\ UNCHANGED <<Objects, Others>>

\* The transcript onto itself, pinned to the observed ETag, emits its event again. The
\* call can fail, and fail after it was done.
CopyObject(t) ==
    /\ tick[t].pc = "copy"
    /\ \/ /\ bucket.etag = tick[t].etag
          /\ bucket' = [bucket EXCEPT !.modified = now, !.age = 0]
          /\ stamp' = now /\ event' = TRUE
          /\ \/ Stop(t) /\ UNCHANGED faults
             \/ Fault /\ Release(t, "REDRIVE_FAILED")
       \/ /\ IF bucket.etag = tick[t].etag THEN Fault ELSE UNCHANGED faults
          /\ Release(t, "REDRIVE_FAILED")
          /\ UNCHANGED <<bucket, stamp, event>>
    /\ UNCHANGED <<row, touched, starts, tasks, Others, claims>>

\* The tick gives its own claim back.
MarkSttFailureForClaim(t) ==
    LET holds == /\ tick[t].claim \in {row.claimedAt, row.redrivenAt}
                 /\ row.status = "transcribing" /\ row.updatedAt = tick[t].claim
    IN
    /\ tick[t].pc = "release" /\ Stop(t)
    /\ \/ holds /\ markSttFailure(tick[t].code) /\ UNCHANGED faults
       \/ Unwritten /\ IF holds THEN Fault ELSE UNCHANGED faults
    /\ UNCHANGED <<Objects, Others, claims>>

MarkSttFailureObserved(t) ==
    LET holds == row.status = tick[t].seen.status /\ row.updatedAt = tick[t].seen.updatedAt IN
    /\ tick[t].pc = "exhaust" /\ Stop(t)
    /\ \/ holds /\ markSttFailure("RECOVERY_EXHAUSTED") /\ UNCHANGED faults
       \/ Unwritten /\ IF holds THEN Fault ELSE UNCHANGED faults
    /\ UNCHANGED <<Objects, Others, claims>>

\* deletePass: the scan for references, then the query of the child rows and the
\* listing of checkpoints.
ScanSttDeletionReferences(t) ==
    /\ tick[t].pc = "refs"
    /\ \/ "reference" \notin related /\ Goto(t, "children") /\ UNCHANGED faults
       \/ "reference" \in related /\ Stop(t) /\ UNCHANGED faults
       \/ Fault /\ Stop(t)
    /\ Unwritten /\ UNCHANGED <<Objects, Others, claims>>

QueryChildren(t) ==
    /\ tick[t].pc = "children"
    /\ \/ "child" \notin related /\ Goto(t, "delete") /\ UNCHANGED faults
       \/ "child" \in related /\ Stop(t) /\ UNCHANGED faults
       \/ Fault /\ Stop(t)
    /\ Unwritten /\ UNCHANGED <<Objects, Others, claims>>

\* The mark is still the current one, and no attribute makes the row user data.
DeleteConditionWithoutUpdatedAt(mark) ==
    /\ row.status = "error" /\ row.code = mark.code /\ row.failedAt = mark.failedAt
    /\ ~row.hint /\ "field" \notin related
sttFailedMeetingDeleteCondition(mark) ==
    /\ row.status = "error" /\ row.code = mark.code
    /\ row.failedAt = mark.failedAt /\ row.updatedAt = mark.failedAt
    /\ ~row.hint /\ "field" \notin related

\* After a failed transaction the row is read back: only its absence lets the cleanup
\* of the objects run.
CleanupWhateverReadBack(exists) == TRUE
Cleanup(exists) == ~exists

DeleteSttFailedMeeting(t) ==
    LET holds == sttFailedMeetingDeleteCondition(tick[t].seen) IN
    /\ tick[t].pc = "delete"
    /\ \/ /\ holds
          /\ row' = [row EXCEPT !.status = "gone"] /\ UNCHANGED <<stamp, touched>>
          /\ \/ Goto(t, "objects") /\ UNCHANGED faults
             \/ Fault /\ Stop(t)
       \/ Fault /\ Unwritten /\ IF Cleanup(row.status # "gone") THEN Goto(t, "objects") ELSE Stop(t)
       \/ ~holds /\ Unwritten /\ Stop(t) /\ UNCHANGED faults
    /\ UNCHANGED <<Objects, Others, claims>>

DeleteSttFailedMeetingObjects(t) ==
    /\ tick[t].pc = "objects" /\ Stop(t)
    /\ \/ /\ bucket' = [bucket EXCEPT !.audio = FALSE, !.etag = 0] /\ UNCHANGED faults
       \/ Fault /\ UNCHANGED bucket
    /\ Unwritten /\ UNCHANGED <<starts, tasks, event, Others, claims>>

\* The invocation is killed, at its timeout or before.
Crash(t) ==
    /\ tick[t].pc # "idle" /\ Fault /\ Stop(t)
    /\ Unwritten /\ UNCHANGED <<Objects, Others, claims>>

\* Time stops for no tick beyond its timeout.
TimePasses ==
    /\ \A t \in Ticks : tick[t].pc # "idle" => tick[t].life < LambdaTimeout
    /\ row' = Aged(row)
    /\ bucket' = [bucket EXCEPT !.newestAge = Older(@, Deadline), !.age = Older(@, MinAge)]
    /\ tick' = [t \in Ticks |->
          IF tick[t].pc = "idle" THEN tick[t]
          ELSE [tick[t] EXCEPT !.seen = Aged(@), !.life = @ + 1]]
    /\ UNCHANGED <<stamp, touched, starts, tasks, event, Others, faults, claims>>
-----------------------------------------------------------------------------
(* Transcription: the transcribe Lambda, Whisper, and the summarize Lambda. *)

\* The Lambda that takes an audio event starts a task, or fails the row whatever it has
\* become and leaves the event to its retry.
StartTranscription ==
    /\ Open
    /\ \E run \in starts :
          \/ /\ tasks' = [tasks EXCEPT ![run] = @ + 1] /\ starts' = starts \ {run}
             /\ Unwritten /\ UNCHANGED faults
          \/ /\ Fault /\ Write([row EXCEPT !.status = "error"])
             /\ starts' \in {starts, starts \ {run}} /\ UNCHANGED tasks
    /\ UNCHANGED <<bucket, event, tick, Others, claims>>

TaskDone(run) == Open /\ tasks[run] > 0 /\ tasks' = [tasks EXCEPT ![run] = @ - 1]

UploadTranscript(run) ==
    /\ TaskDone(run) /\ sound[run[1]] # "corrupt"
    /\ bucket' = [bucket EXCEPT !.etag = now, !.from = run[1], !.modified = now, !.age = 0,
                                !.speech = sound[run[1]] = "speech"]
    /\ stamp' = now /\ event' = TRUE
    /\ UNCHANGED <<row, touched, starts, tick, Others, faults, claims>>

\* A corrupt file, or any other exception; the mark is for the bound audio, except that
\* a copy is never bound.
MarkFailureFence(run) ==
    row.status = "transcribing" /\ (run[2] = "copy" \/ row.audio = run[1])

FailureCodeWhateverFailed(corrupt) == "AUDIO_CORRUPT"
FailureCode(corrupt) == IF corrupt THEN "AUDIO_CORRUPT" ELSE "WORKER_FAILED"

MarkFailure(run) ==
    LET corrupt == sound[run[1]] = "corrupt" IN
    /\ TaskDone(run)
    /\ IF corrupt THEN UNCHANGED faults ELSE Fault
    /\ IF MarkFailureFence(run) THEN markSttFailure(FailureCode(corrupt)) ELSE Unwritten
    /\ UNCHANGED <<bucket, starts, event, tick, Others, claims>>

\* The host goes away.
TaskLost(run) ==
    /\ TaskDone(run) /\ Fault /\ Unwritten
    /\ UNCHANGED <<bucket, starts, event, tick, Others, claims>>

Quiet == UNCHANGED <<bucket, starts, tasks, tick, sound, puts, copying, related, acts,
                     bound, claims>>

\* The summarize Lambda takes the event while the row transcribes. An event of older
\* bytes is ignored by its ETag, so only one of the stored bytes counts.
CaptureTranscript ==
    /\ Open /\ handler.pc = "idle" /\ event /\ event' = FALSE /\ Unwritten /\ Quiet
    /\ \/ /\ row.status = "transcribing" /\ UNCHANGED faults
          /\ handler' = [pc |-> "check", audio |-> row.audio, etag |-> bucket.etag,
                         speech |-> bucket.speech]
       \/ row.status # "transcribing" /\ UNCHANGED <<handler, faults>>
       \/ Fault /\ UNCHANGED handler

CheckTranscriptObjects ==
    /\ handler.pc = "check" /\ Unwritten /\ Quiet /\ UNCHANGED <<event, faults>>
    /\ handler' = IF bucket.etag = handler.etag THEN [handler EXCEPT !.pc = "write"]
                  ELSE NoHandler

\* The transcript is published, or marked as empty, under the snapshot's fence; a
\* failure on the way fails the row under the same fence.
FinishTranscript ==
    /\ handler.pc = "write" /\ handler' = NoHandler /\ Quiet /\ UNCHANGED event
    /\ \/ /\ row.status = "transcribing" /\ row.audio = handler.audio
          /\ \/ handler.speech /\ Write([row EXCEPT !.status = "done"]) /\ UNCHANGED faults
             \/ ~handler.speech /\ markSttFailure("NO_SPEECH") /\ UNCHANGED faults
             \/ Write([row EXCEPT !.status = "error"]) /\ Fault
       \/ /\ ~(row.status = "transcribing" /\ row.audio = handler.audio)
          /\ Unwritten /\ UNCHANGED faults
-----------------------------------------------------------------------------
(* The owner, and detail reads. *)

Rest == <<tick, tasks, event, handler, faults, claims>>

\* A new file reaches the bucket, which is all the transcription waits for.
PutAudio ==
    /\ Open /\ puts < MaxAudios /\ puts' = puts + 1
    /\ IF row.audio # puts THEN Act("ahead") ELSE UNCHANGED acts
    /\ \E s \in Sounds : sound' = [sound EXCEPT ![puts + 1] = s]
    /\ bucket' = [bucket EXCEPT !.newest = now, !.newestAge = 0] /\ stamp' = now
    /\ starts' = starts \cup {<<puts + 1, "upload">>}
    /\ UNCHANGED <<row, touched, copying, related, bound, Rest>>

\* Upload-complete, in any order and more than once; a key that is bound already is
\* left alone.
BindMeetingAudioKey(a) ==
    /\ Open /\ a <= puts /\ row.audio # a
    /\ IF a \in bound THEN Act("complete") ELSE UNCHANGED acts
    /\ Write([row EXCEPT !.status = "transcribing", !.audio = a])
    /\ bound' = bound \cup {a}
    /\ UNCHANGED <<bucket, sound, puts, starts, copying, related, Rest>>

\* The conditional write of RediarizeMeeting, then its copy, which may fail.
RediarizeMeeting ==
    /\ Act("rediarize") /\ row.audio # 0 /\ row.status \in {"recording", "error"}
    /\ Write([row EXCEPT !.status = "transcribing", !.hint = TRUE])
    /\ copying' = row.audio
    /\ UNCHANGED <<bucket, sound, puts, starts, related, bound, Rest>>

CopyForRediarize ==
    /\ Open /\ copying # 0 /\ copying' = 0
    /\ bucket' = [bucket EXCEPT !.newest = now, !.newestAge = 0] /\ stamp' = now
    /\ starts' = starts \cup {<<copying, "copy">>}
    /\ UNCHANGED <<row, touched, sound, puts, related, acts, bound, Rest>>

\* Any other write of the row, such as a new title.
UpdateMeeting ==
    /\ Act("update") /\ Write(row)
    /\ UNCHANGED <<bucket, sound, puts, starts, copying, related, bound, Rest>>

\* A link from another meeting or a pending share; an attachment, share or checkpoint;
\* a project or another attribute. None of them stamps updatedAt.
Relate ==
    /\ Act("relate") /\ Unwritten
    /\ \E place \in {"reference", "child", "field"} : related' = related \cup {place}
    /\ UNCHANGED <<bucket, sound, puts, starts, copying, bound, Rest>>

ReadExpiresStuck ==
    /\ row.status = "transcribing" /\ row.idle > StuckAfter
    /\ Write([row EXCEPT !.status = "error"])
    /\ UNCHANGED <<bucket, sound, puts, starts, copying, related, acts, bound, Rest>>
-----------------------------------------------------------------------------
HandleRow(t) ==
    \/ Classify(t) \/ clusterBusy(t) \/ ClaimSttRecovery(t) \/ RunTask(t)
    \/ ClaimSttSummaryRedrive(t) \/ CopyObject(t) \/ MarkSttFailureForClaim(t)
    \/ MarkSttFailureObserved(t) \/ ScanSttDeletionReferences(t) \/ QueryChildren(t)
    \/ DeleteSttFailedMeeting(t) \/ DeleteSttFailedMeetingObjects(t)

TaskEnds(run) == UploadTranscript(run) \/ MarkFailure(run) \/ TaskLost(run)
Summarize == CaptureTranscript \/ CheckTranscriptObjects \/ FinishTranscript

Next ==
    \/ \E t \in Ticks : ScanSttRecoveryRows(t) \/ HandleRow(t) \/ Crash(t)
    \/ TimePasses \/ StartTranscription \/ (\E run \in Runs : TaskEnds(run)) \/ Summarize
    \/ PutAudio \/ (\E a \in Audio : BindMeetingAudioKey(a)) \/ RediarizeMeeting
    \/ CopyForRediarize \/ UpdateMeeting \/ Relate \/ ReadExpiresStuck

Spec == Init /\ [][Next]_vars

\* Ticks keep coming and what is started ends; ticks are 15 minutes apart, so time passes
\* between them; faults are bounded, so from some point on nothing fails.  Owners and
\* detail reads owe nothing.
FairSpec ==
    /\ Spec /\ SF_vars(TimePasses) /\ WF_vars(StartTranscription) /\ WF_vars(Summarize)
    /\ \A t \in Ticks : WF_vars(ScanSttRecoveryRows(t)) /\ WF_vars(HandleRow(t))
    /\ \A run \in Runs : WF_vars(TaskEnds(run))
-----------------------------------------------------------------------------
(* Properties. *)

TypeOK ==
    /\ row \in Row /\ bucket \in Bucket /\ stamp \in Nat
    /\ sound \in [Audio -> {"speech", "silence", "corrupt"}] /\ puts \in 0 .. MaxAudios
    /\ starts \subseteq Runs /\ tasks \in [Runs -> Nat] /\ event \in BOOLEAN
    /\ handler \in Handler /\ tick \in [Ticks -> Tick] /\ copying \in 0 .. MaxAudios
    /\ related \subseteq {"reference", "child", "field"} /\ acts \in Nat /\ faults \in Nat
    /\ bound \subseteq Audio /\ claims \in Nat /\ touched \in BOOLEAN

\* However ticks overlap, replies get lost and audio is replaced, every claim of a run is
\* charged to the budget of the audio it was claimed for, once (stt_recovery.go:185-199).
AttemptsCharged == row.attempts = claims

\* The recovery gives up on a recording only after as many runs as its budget allows were
\* claimed for the very audio the row is bound to: an upload is not charged for the one
\* it replaced (service/stt_recovery.go:220-224).
GivesUpOnOwnBudget ==
    [][\A t \in Ticks : MarkSttFailureObserved(t) /\ row' # row =>
          claims = MaxAttempts /\ row.recoveryKey = row.audio]_vars

\* However ticks overlap, at most one recovery task of the meeting runs at a time: the
\* claim and the single-flight rule keep it from occupying several GPU hosts
\* (recovery.go:327-329).
OneRecoveryRun ==
    \A r, q \in Runs : r[2] = "recovery" /\ q[2] = "recovery" /\ tasks[r] > 0 /\ tasks[q] > 0
                       => r = q /\ tasks[r] = 1

\* A tick deletes only a meeting that carries a deletable mark, that nobody wrote since
\* for the whole grace period, and whose row shows no user data
\* (stt_recovery.go:347-349, service/stt_recovery.go:253-256).
DeletesOnlyQuietFailures ==
    [][row'.status = "gone" /\ row.status # "gone" =>
          /\ row.code \in Deletable /\ ~touched /\ row.idle >= Grace
          /\ ~row.hint /\ "field" \notin related]_vars

\* Objects are removed only once the row is gone: a transaction of unknown outcome is
\* never followed by the cleanup while the row might still exist (stt_recovery.go:441-446).
ObjectsOutliveRow == ~bucket.audio => row.status = "gone"

\* A meeting whose only recording holds speech is never deleted, whatever run of it
\* failed and however often.
SpeechNeverDeleted == row.status = "gone" => sound[row.audio] # "speech"

\* A recording that was bound does not stay stuck: it is published, deleted, marked for
\* good, or its re-drives are spent.
Settled ==
    \/ row.audio = 0 \/ row.status \in {"done", "gone"}
    \/ row.status = "error" /\ row.code \in Terminal
    \/ Redrives(row) = MaxAttempts
Settles == <>[]Settled
=============================================================================
