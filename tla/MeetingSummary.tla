--------------------------- MODULE MeetingSummary ---------------------------
(***************************************************************************)
(* One meeting row and the summarize Lambda invocations that race for it.  *)
(*                                                                         *)
(* An S3 object-created event for transcripts/{id}.json is delivered at    *)
(* least once and retried when the invocation fails.  An invocation        *)
(* publishes the transcript, takes the row's summary claim in the same     *)
(* conditional write, generates a summary from a snapshot and publishes it *)
(* under the snapshot's fence.  An interrupted batch is resumed by a later *)
(* delivery through a retry claim that has a time to live.  Owners edit    *)
(* the row, re-run transcription or replace the audio at any moment, and   *)
(* detail reads expire rows that stopped moving.                           *)
(*                                                                         *)
(* Every action of an invocation is one DynamoDB or S3 call together with  *)
(* the local decisions up to the next call.  Time is a set of ages that    *)
(* grow with Tick and saturate, so runs are unbounded in time.             *)
(***************************************************************************)
EXTENDS Naturals, FiniteSets

CONSTANTS
    Workers,            \* summarize invocations that can be in flight at once
    MaxSummaryRetries,  \* summary_retry.go:14
    AsyncRetries,       \* redeliveries of a failed asynchronous invocation
    LambdaTimeout,      \* longest life of one invocation
    ClaimTTL,           \* SummarizeRetryClaimTTL
    RetryEligible,      \* summarizeRetryEligibleThreshold
    StuckAfter,         \* stuckTranscribingThreshold
    MaxUploads,         \* bound: transcript objects written by STT workers
    MaxEvents           \* bound: owner actions, STT start failures, redeliveries

\* The three durations the lease argument depends on: 15, 16 and 60 minutes.
ASSUME DurationAssumption ==
    /\ LambdaTimeout \in Nat \ {0} /\ ClaimTTL \in Nat
    /\ RetryEligible \in Nat /\ StuckAfter \in Nat
    /\ LambdaTimeout <= ClaimTTL /\ LambdaTimeout <= StuckAfter

ASSUME BoundAssumption ==
    /\ MaxSummaryRetries \in Nat /\ AsyncRetries \in Nat
    /\ MaxUploads \in Nat /\ MaxEvents \in Nat

VARIABLES
    row,        \* the meeting item, without its two timestamps
    claimAge,   \* now - summarizeRetryClaimedAt
    idle,       \* now - updatedAt
    lastClaim,  \* the last claim timestamp handed out, as a serial number
    object,     \* transcripts/{id}.json: its ETag and whether it holds speech
    msgs,       \* deliveries waiting for an invocation
    wk,         \* the local state of each invocation
    editor,     \* an owner's PUT of the transcript passed its status check
    events,     \* owner actions and environment events so far (bound)
    edits,      \* history: owner writes of the content so far
    baseEdits,  \* history: edits when the current batch captured the content
    gens        \* history: model generations of the current batch

vars == <<row, claimAge, idle, lastClaim, object, msgs, wk, editor, events,
          edits, baseEdits, gens>>

Statuses == {"transcribing", "summarizing", "done", "error"}

NoClaim == 0    \* absent, or the "" FinishSummaryPreservingContent leaves
NoHash  == <<"none", 1>>   \* no summaryBatchContentHash; absent content has one
NoText  == <<"none", 0>>

Text == {"none", "asr", "human", "auto"} \X Nat

Row == [status: Statuses, pending: BOOLEAN, attempts: 0 .. MaxSummaryRetries, claim: Nat,
        hash: Text, content: Text, transcript: Text, audio: Nat]

FreshRow == [status |-> "transcribing", pending |-> FALSE, attempts |-> 0,
             claim |-> NoClaim, hash |-> NoHash, content |-> NoText,
             transcript |-> NoText, audio |-> 1]

\* A row an older build left in summarizing, without the retry marker.
LegacyRow == [FreshRow EXCEPT !.status = "summarizing", !.transcript = <<"asr", 1>>]

Steps == {"idle", "read", "claimRetry", "expire", "reread", "verify", "reclaim",
          "capture", "download", "fail", "noSpeech", "mark", "check", "start",
          "recapture", "restart", "begun", "snapshot", "preserve", "generate",
          "conflict", "release"}

Worker == [pc: Steps, age: Nat, mine: Nat, seen: Statuses, snap: Row,
           edits: Nat, err: BOOLEAN, etag: Nat, try: 0 .. AsyncRetries]

Idle == [pc |-> "idle", age |-> 0, mine |-> NoClaim, seen |-> "transcribing",
         snap |-> FreshRow, edits |-> 0, err |-> FALSE, etag |-> 0, try |-> 0]

Running(w) == wk[w].pc # "idle"

\* Invocation w wrote the claim the row holds now.
Holds(w) == Running(w) /\ wk[w].mine # NoClaim /\ row.claim = wk[w].mine

Message(etag, try) == [etag |-> etag, try |-> try]

Init ==
    /\ \/ row = FreshRow /\ object = [etag |-> 0, speech |-> FALSE]
       \/ row = LegacyRow /\ object = [etag |-> 1, speech |-> TRUE]
    /\ claimAge = 0 /\ idle = 0 /\ lastClaim = 0
    /\ msgs = {} /\ wk = [w \in Workers |-> Idle] /\ editor = FALSE
    /\ events = 0 /\ edits = 0 /\ baseEdits = 0 /\ gens = 0

-----------------------------------------------------------------------------
(* What the calls share. *)

Goto(w, step) == wk' = [wk EXCEPT ![w].pc = step] /\ UNCHANGED msgs

\* The invocation returns; an error puts the delivery back while retries last.
Return(w, ok) ==
    /\ wk' = [wk EXCEPT ![w] = Idle]
    /\ msgs' = IF ok \/ wk[w].try >= AsyncRetries THEN msgs
               ELSE msgs \cup {Message(wk[w].etag, wk[w].try + 1)}

\* Go on with a claim and without the snapshot, which is not read again.
Own(w, step, claim, err) ==
    wk' = [wk EXCEPT ![w] = [Idle EXCEPT !.pc = step, !.mine = claim, !.err = err,
                             !.age = wk[w].age, !.etag = wk[w].etag, !.try = wk[w].try]]

\* Leave through ReleaseSummaryRetryClaim, returning an error when err.
Leave(w, err) ==
    /\ Own(w, "release", wk[w].mine, err)
    /\ UNCHANGED msgs

Kept == <<row, claimAge, idle, lastClaim>>
History == <<edits, baseEdits, gens>>
World == <<object, editor, events>>

\* A write of the row; an absent claim has no age.
Set(new) ==
    /\ row' = new /\ UNCHANGED lastClaim
    /\ claimAge' = IF new.claim = NoClaim THEN 0 ELSE claimAge

\* A write that also stamps updatedAt, as all but the two named below do.
Write(new) == Set(new) /\ idle' = 0

WriteClaimWithoutUpdatedAt(new) ==
    /\ row' = [new EXCEPT !.claim = lastClaim + 1]
    /\ lastClaim' = lastClaim + 1 /\ claimAge' = 0 /\ UNCHANGED idle

\* A write that also sets summarizeRetryClaimedAt to a new timestamp.
WriteClaim(new) ==
    /\ row' = [new EXCEPT !.claim = lastClaim + 1]
    /\ lastClaim' = lastClaim + 1 /\ claimAge' = 0 /\ idle' = 0

ClaimStaleTooEarly == row.claim = NoClaim \/ claimAge >= ClaimTTL
ClaimStale == row.claim = NoClaim \/ claimAge > ClaimTTL

\* The fields CaptureTranscriptUpdate and CaptureMeetingSummary pin.
SameTranscriptFence(s) ==
    /\ row.status = s.status /\ row.audio = s.audio /\ row.claim = s.claim
    /\ row.hash = s.hash /\ row.transcript = s.transcript

SameSummaryFenceWithoutTranscript(s) ==
    /\ row.status = s.status /\ row.content = s.content /\ row.claim = s.claim
    /\ row.attempts = s.attempts /\ row.pending = s.pending /\ row.hash = s.hash

SameSummaryFence(s) ==
    /\ row.status = s.status /\ row.content = s.content
    /\ row.transcript = s.transcript /\ row.claim = s.claim
    /\ row.attempts = s.attempts /\ row.pending = s.pending /\ row.hash = s.hash
RetryLeftOnceMore == row.attempts <= MaxSummaryRetries
RetryLeft == row.attempts < MaxSummaryRetries

\* The batch ends: what publication and preservation write alike.
FinishedStillPending(r) == [r EXCEPT !.status = "done", !.claim = NoClaim]
Finished(r) == [r EXCEPT !.status = "done", !.pending = FALSE, !.claim = NoClaim]
-----------------------------------------------------------------------------
(* handleSingleTranscript: the guards, and resumeSummaryRetry. *)

\* The event source hands a waiting delivery to a free invocation.
Invoke(w) ==
    /\ ~Running(w)
    /\ \E m \in msgs :
          /\ msgs' = msgs \ {m}
          /\ wk' = [wk EXCEPT ![w] = [Idle EXCEPT !.pc = "read", !.etag = m.etag,
                                                  !.try = m.try]]
    /\ UNCHANGED <<Kept, World, History>>

\* GetMeeting, then resumeSummaryRetry's test and the status whitelist.
Read(w) ==
    /\ wk[w].pc = "read"
    /\ \/ /\ row.status = "summarizing" /\ row.pending
          /\ Goto(w, "claimRetry")
       \/ /\ row.status = "transcribing"
          /\ wk' = [wk EXCEPT ![w].pc = "capture", ![w].seen = row.status]
          /\ UNCHANGED msgs
       \/ /\ row.status = "summarizing" /\ ~row.pending /\ idle > RetryEligible
          /\ wk' = [wk EXCEPT ![w].pc = "reclaim", ![w].seen = row.status]
          /\ UNCHANGED msgs
       \/ /\ \/ row.status \in {"done", "error"}
             \/ row.status = "summarizing" /\ ~row.pending /\ idle <= RetryEligible
          /\ Return(w, TRUE)
    /\ UNCHANGED <<Kept, World, History>>

\* ClaimSummaryRetry. A lost reply releases the claim it may have written.
ClaimSummaryRetry(w) ==
    /\ wk[w].pc = "claimRetry"
    /\ IF row.status = "summarizing" /\ row.pending /\ RetryLeft /\ ClaimStale
       THEN /\ WriteClaim([row EXCEPT !.attempts = @ + 1])
            /\ \E lost \in BOOLEAN :
                  Own(w, IF lost THEN "release" ELSE "verify", lastClaim + 1, lost)
            /\ UNCHANGED msgs
       ELSE Goto(w, "expire") /\ UNCHANGED Kept
    /\ UNCHANGED <<World, History>>

\* ExpireSummaryRetry's conditional write; it leaves updatedAt alone.
Expirable ==
    row.status = "summarizing" /\ row.pending /\ ~RetryLeft /\ ClaimStale

ExpireSummaryRetry ==
    /\ Set(IF Expirable
           THEN [row EXCEPT !.status = "error", !.pending = FALSE, !.claim = NoClaim]
           ELSE row)
    /\ UNCHANGED idle

Expire(w) ==
    /\ wk[w].pc = "expire"
    /\ ExpireSummaryRetry
    /\ Goto(w, "reread")
    /\ UNCHANGED <<World, History>>

\* A row still pending is busy: the error makes Lambda deliver again.
Reread(w) ==
    /\ wk[w].pc = "reread"
    /\ Return(w, ~(row.status = "summarizing" /\ row.pending))
    /\ UNCHANGED <<Kept, World, History>>

Verify(w) ==
    /\ wk[w].pc = "verify"
    /\ IF row.status = "summarizing" /\ row.pending /\ row.claim = wk[w].mine
       THEN Goto(w, "snapshot")
       ELSE Leave(w, FALSE)
    /\ UNCHANGED <<Kept, World, History>>

\* ClaimSummarizeRetry, for a summarizing row without the retry marker. The
\* SDK resends after a lost reply, and the resend loses to its own claim.
ClaimSummarizeRetry(w) ==
    /\ wk[w].pc = "reclaim"
    /\ IF row.status = "summarizing" /\ ClaimStale
       THEN /\ WriteClaim(row)
            /\ \/ /\ wk' = [wk EXCEPT ![w].pc = "capture", ![w].mine = lastClaim + 1]
                  /\ UNCHANGED msgs
               \/ \E ok \in BOOLEAN : Return(w, ok)
       ELSE Return(w, TRUE) /\ UNCHANGED Kept
    /\ UNCHANGED <<World, History>>
-----------------------------------------------------------------------------
(* The transcript: capture, download and beginTranscriptSummary. *)

Capture(w) ==
    /\ wk[w].pc = "capture"
    /\ IF row.status = wk[w].seen
       THEN /\ wk' = [wk EXCEPT ![w].pc = "download", ![w].snap = row,
                                ![w].edits = edits]
            /\ UNCHANGED msgs
       ELSE Return(w, TRUE)
    /\ UNCHANGED <<Kept, World, History>>

\* downloadAndParseTranscript may fail; a superseded delivery stops here.
Download(w) ==
    /\ wk[w].pc = "download"
    /\ \/ Goto(w, "fail")
       \/ object.etag # wk[w].etag /\ Return(w, TRUE)
       \/ object.etag = wk[w].etag /\ Goto(w, IF object.speech THEN "check" ELSE "noSpeech")
    /\ UNCHANGED <<Kept, World, History>>

\* failTranscriptSnapshot: the error mark is fenced, the error is returned.
FailTranscriptSnapshot(w) ==
    /\ wk[w].pc = "fail"
    /\ IF SameTranscriptFence(wk[w].snap)
       THEN Write([row EXCEPT !.status = "error"])
       ELSE UNCHANGED Kept
    /\ Return(w, FALSE)
    /\ UNCHANGED <<World, History>>

\* handleNoSpeech: revalidate the object, then mark the row under its fence.
HandleNoSpeech(w) ==
    /\ wk[w].pc = "noSpeech"
    /\ IF object.etag = wk[w].etag THEN Goto(w, "mark") ELSE Return(w, TRUE)
    /\ UNCHANGED <<Kept, World, History>>

MarkSttNoSpeech(w) ==
    /\ wk[w].pc = "mark"
    /\ IF SameTranscriptFence(wk[w].snap)
       THEN Write([row EXCEPT !.status = "error"])
       ELSE UNCHANGED Kept
    /\ Return(w, TRUE)
    /\ UNCHANGED <<World, History>>

CheckTranscriptObjects(w) ==
    /\ wk[w].pc = "check"
    /\ IF object.etag = wk[w].etag THEN Goto(w, "start") ELSE Return(w, FALSE)
    /\ UNCHANGED <<Kept, World, History>>

\* StartTranscriptSummary: publish the transcript (or keep the one a human
\* saved) and take ownership in one write. After a lost reply the read-back
\* finds the claim, or fails and leaves it to its time to live.
StartTranscriptSummary(w, transcript) ==
    /\ WriteClaim([row EXCEPT !.status = "summarizing", !.pending = TRUE, !.attempts = 0,
                              !.hash = wk[w].snap.content, !.transcript = transcript])
    /\ baseEdits' = wk[w].edits /\ gens' = 0
    /\ \/ Own(w, "begun", lastClaim + 1, FALSE) /\ UNCHANGED msgs
       \/ Return(w, FALSE)
    /\ UNCHANGED <<edits, World>>

Startable(s) ==
    /\ \/ s.status = "transcribing"
       \/ s.status = "summarizing" /\ ~s.pending
    /\ SameTranscriptFence(s)

Start(w) ==
    /\ wk[w].pc = "start"
    /\ \/ /\ Startable(wk[w].snap)
          /\ StartTranscriptSummary(w, <<"asr", wk[w].etag>>)
       \/ /\ ~Startable(wk[w].snap)
          /\ Goto(w, "recapture")
          /\ UNCHANGED <<Kept, World, History>>

RehashedSource(old) == row
BatchSource(old) == [row EXCEPT !.content = old.content]

\* Only a human transcript edit under an otherwise unmoved row is summarized;
\* the batch keeps the content hash of the first capture.
Recapture(w) ==
    /\ wk[w].pc = "recapture"
    /\ LET old == wk[w].snap
           moved == \/ row.status # old.status \/ row.audio # old.audio
                    \/ row.claim # old.claim
       IN \/ moved /\ Return(w, TRUE)
          \/ ~moved /\ row.transcript = old.transcript /\ Return(w, FALSE)
          \/ /\ ~moved /\ row.transcript # old.transcript
             /\ wk' = [wk EXCEPT ![w].pc = "restart", ![w].snap = BatchSource(old)]
             /\ UNCHANGED msgs
    /\ UNCHANGED <<Kept, World, History>>

Restart(w) ==
    /\ wk[w].pc = "restart"
    /\ \/ /\ Startable(wk[w].snap)
          /\ StartTranscriptSummary(w, row.transcript)
       \/ /\ ~Startable(wk[w].snap)
          /\ Return(w, FALSE)
          /\ UNCHANGED <<Kept, World, History>>

Begun(w) ==
    /\ wk[w].pc = "begun"
    /\ IF row.status = "summarizing" /\ row.pending /\ row.claim = wk[w].mine
       THEN Goto(w, "snapshot")
       ELSE Leave(w, TRUE)
    /\ UNCHANGED <<Kept, World, History>>
-----------------------------------------------------------------------------
(* generateClaimedSummary and generateResumedSummary: one generation. *)

\* CaptureMeetingSummary and the checks that precede the model call.
Snapshot(w) ==
    /\ wk[w].pc = "snapshot"
    /\ \/ /\ ~(row.status = "summarizing" /\ row.pending /\ row.claim = wk[w].mine)
          /\ Leave(w, TRUE) /\ UNCHANGED gens
       \/ /\ row.status = "summarizing" /\ row.pending /\ row.claim = wk[w].mine
          /\ wk' = [wk EXCEPT ![w].snap = row,
                              ![w].pc = IF row.hash # row.content THEN "preserve"
                                                                 ELSE "generate"]
          /\ gens' = IF row.hash # row.content THEN gens ELSE gens + 1
          /\ UNCHANGED msgs
    /\ UNCHANGED <<Kept, World, edits, baseEdits>>

\* FinishSummaryPreservingContent: end the batch, keep what the owner wrote.
Preserve(w) ==
    /\ wk[w].pc = "preserve"
    /\ LET s == wk[w].snap
           same == /\ row.status = s.status /\ row.content = s.content
                   /\ row.pending = s.pending /\ row.claim = s.claim /\ row.hash = s.hash
       IN \/ /\ same
             /\ Write(Finished(row))
             /\ Return(w, TRUE)
          \/ ~same /\ UNCHANGED Kept /\ Leave(w, TRUE)
    /\ UNCHANGED <<World, History>>

\* publishMeetingSummary. A lost reply takes the error path after the fact.
Publish(w) ==
    /\ wk[w].pc = "generate"
    /\ \/ /\ SameSummaryFence(wk[w].snap)
          /\ Write([Finished(row) EXCEPT !.attempts = 0,
                                         !.content = <<"auto", wk[w].mine>>])
          /\ \/ Return(w, TRUE)
             \/ Leave(w, TRUE)
       \/ /\ ~SameSummaryFence(wk[w].snap)
          /\ Goto(w, "conflict") /\ UNCHANGED Kept
    /\ UNCHANGED <<World, History>>

\* MarkSummaryConflict, with the attempts of the snapshot.
MarkSummaryConflict(w) ==
    /\ wk[w].pc = "conflict"
    /\ LET s == wk[w].snap
           exhausted == s.attempts >= MaxSummaryRetries
       IN IF row.status = "summarizing" /\ row.claim = s.claim
          THEN Write([row EXCEPT !.pending = ~exhausted, !.claim = NoClaim,
                                 !.status = IF exhausted THEN "error" ELSE @])
          ELSE UNCHANGED Kept
    /\ Leave(w, TRUE)
    /\ UNCHANGED <<World, History>>

\* ReleaseSummaryRetryClaim: three writes whose conditions exclude each other
\* and all pin the claim, so the one that applies is the call's only effect.
\* The third leaves updatedAt alone.
ReleaseSummaryRetryClaim(w) ==
    /\ wk[w].pc = "release"
    /\ \/ /\ row.claim # wk[w].mine \/ row.claim = NoClaim
          /\ UNCHANGED Kept
       \/ /\ row.claim = wk[w].mine /\ row.claim # NoClaim /\ row.status = "summarizing"
          /\ Write([row EXCEPT !.claim = NoClaim, !.pending = RetryLeft,
                               !.status = IF RetryLeft THEN @ ELSE "error"])
       \/ /\ row.claim = wk[w].mine /\ row.claim # NoClaim /\ row.status # "summarizing"
          /\ Set([row EXCEPT !.claim = NoClaim, !.pending = FALSE])
          /\ UNCHANGED idle
    /\ Return(w, ~wk[w].err)
    /\ UNCHANGED <<World, History>>
-----------------------------------------------------------------------------
(* Failures of an invocation. *)

Releasing == {"verify", "begun", "snapshot", "preserve", "generate", "conflict"}

\* A call (the model call included) fails without an effect.
CallFails(w) ==
    /\ Running(w)
    /\ IF wk[w].pc \in Releasing THEN Leave(w, TRUE) ELSE Return(w, FALSE)
    /\ UNCHANGED <<Kept, World, History>>

\* The invocation dies: out of memory, or at the latest by its timeout.
Crash(w) ==
    /\ Running(w)
    /\ Return(w, FALSE)
    /\ UNCHANGED <<Kept, World, History>>

\* Time passes only while every invocation is within its timeout.
Tick ==
    /\ \A w \in Workers : Running(w) => wk[w].age < LambdaTimeout
    /\ claimAge' = IF row.claim = NoClaim \/ claimAge > ClaimTTL THEN claimAge
                   ELSE claimAge + 1
    /\ idle' = IF idle > StuckAfter /\ idle > RetryEligible THEN idle ELSE idle + 1
    /\ wk' = [w \in Workers |-> IF Running(w) THEN [wk[w] EXCEPT !.age = @ + 1] ELSE wk[w]]
    /\ UNCHANGED <<row, lastClaim, msgs, World, History>>
-----------------------------------------------------------------------------
(* The row's other writers. *)

Spend == events < MaxEvents /\ events' = events + 1

\* An STT worker stores a transcript; nothing binds it to the current audio.
TranscriptUploaded ==
    /\ object.etag < MaxUploads
    /\ \E speech \in BOOLEAN : object' = [etag |-> object.etag + 1, speech |-> speech]
    /\ msgs' = msgs \cup {Message(object.etag + 1, 0)}
    /\ UNCHANGED <<Kept, wk, editor, events, History>>

\* EventBridge delivers again, or recovery copies the object onto itself.
Redeliver ==
    /\ Spend
    /\ \E etag \in 1 .. object.etag : msgs' = msgs \cup {Message(etag, 0)}
    /\ UNCHANGED <<Kept, wk, object, editor, History>>

\* The STT worker's _mark_failure.
MarkFailure ==
    /\ row.status = "transcribing"
    /\ Write([row EXCEPT !.status = "error"])
    /\ UNCHANGED <<msgs, wk, World, History>>

\* The transcribe Lambda could not start a task for an audio event: the error
\* status is written whatever the row has become.
StartTaskFails ==
    /\ Spend
    /\ Write([row EXCEPT !.status = "error"])
    /\ UNCHANGED <<msgs, wk, object, editor, History>>

\* RediarizeMeeting; the speaker hint may or may not differ from the last one.
RediarizeMeeting ==
    /\ Spend
    /\ row.status \in {"done", "error"}
    /\ \E audio \in {row.audio, row.audio + 1} :
          Write([row EXCEPT !.status = "transcribing", !.audio = audio])
    /\ UNCHANGED <<msgs, wk, object, editor, History>>

\* CompleteUpload of a different single file, whatever the status is.
BindMeetingAudioKey ==
    /\ Spend
    /\ Write([row EXCEPT !.status = "transcribing", !.audio = @ + 1])
    /\ UNCHANGED <<msgs, wk, object, editor, History>>

\* The recording page saves its meeting with status transcribing before it
\* uploads, whatever the row has become.
SaveRecording ==
    /\ Spend
    /\ Write([row EXCEPT !.status = "transcribing"])
    /\ UNCHANGED <<msgs, wk, object, editor, History>>

\* UpdateSpeakers renames speakers in the transcript, and in the content when it
\* names them; its condition on updatedAt makes the read and the write one step.
UpdateSpeakers ==
    /\ Spend /\ row.transcript # NoText
    /\ \/ /\ Write([row EXCEPT !.transcript = <<"human", events + 1>>])
          /\ UNCHANGED edits
       \/ /\ row.content # NoText
          /\ Write([row EXCEPT !.transcript = <<"human", events + 1>>,
                               !.content = <<"human", events + 1>>])
          /\ edits' = edits + 1
    /\ UNCHANGED <<msgs, wk, object, editor, baseEdits, gens>>

\* UpdateMeeting with content.
EditContent ==
    /\ Spend
    /\ Write([row EXCEPT !.content = <<"human", events + 1>>])
    /\ edits' = edits + 1
    /\ UNCHANGED <<msgs, wk, object, editor, baseEdits, gens>>

\* UpdateMeeting with transcriptA checks the status it read, then writes
\* without a condition.
CheckTranscriptEdit ==
    /\ Spend /\ ~editor /\ row.status # "transcribing"
    /\ editor' = TRUE
    /\ UNCHANGED <<Kept, msgs, wk, object, History>>

EditTranscript ==
    /\ editor /\ editor' = FALSE
    /\ Write([row EXCEPT !.transcript = <<"human", events>>])
    /\ UNCHANGED <<msgs, wk, object, events, History>>

\* GetMeetingDetail expires an exhausted retry, then a row that stopped
\* moving; each is one conditional write, so the reads before it add nothing.
ReadExpiresRetry ==
    /\ Expirable /\ ExpireSummaryRetry
    /\ UNCHANGED <<msgs, wk, World, History>>

ReadExpiresStuckTranscription ==
    /\ row.status = "transcribing" /\ idle > StuckAfter
    /\ Write([row EXCEPT !.status = "error"])
    /\ UNCHANGED <<msgs, wk, World, History>>

ReadExpiresStuck ==
    /\ row.status \in {"transcribing", "summarizing"} /\ idle > StuckAfter
    /\ Write([row EXCEPT !.status = "error"])
    /\ UNCHANGED <<msgs, wk, World, History>>
-----------------------------------------------------------------------------
Summarize(w) ==
    \/ Read(w) \/ ClaimSummaryRetry(w) \/ Expire(w) \/ Reread(w) \/ Verify(w)
    \/ ClaimSummarizeRetry(w) \/ Capture(w) \/ Download(w)
    \/ FailTranscriptSnapshot(w) \/ HandleNoSpeech(w) \/ MarkSttNoSpeech(w)
    \/ CheckTranscriptObjects(w) \/ Start(w) \/ Recapture(w) \/ Restart(w) \/ Begun(w) \/ Snapshot(w)
    \/ Preserve(w) \/ Publish(w) \/ MarkSummaryConflict(w)
    \/ ReleaseSummaryRetryClaim(w)

DetailRead == ReadExpiresRetry \/ ReadExpiresStuck

Owner == RediarizeMeeting \/ BindMeetingAudioKey \/ SaveRecording \/ UpdateSpeakers
         \/ EditContent \/ CheckTranscriptEdit \/ EditTranscript

Transcription == TranscriptUploaded \/ Redeliver \/ MarkFailure \/ StartTaskFails

Next ==
    \/ \E w \in Workers : Invoke(w) \/ Summarize(w) \/ CallFails(w) \/ Crash(w)
    \/ Tick \/ Transcription \/ Owner \/ DetailRead

Spec == Init /\ [][Next]_vars

\* Lambda kills an invocation at its timeout, and somebody goes on opening the
\* meeting; nothing else has to happen.
TimesOut(w) == wk[w].age >= LambdaTimeout /\ Crash(w)

FairSpec ==
    /\ Spec /\ WF_vars(Tick) /\ WF_vars(DetailRead)
    /\ \A w \in Workers : WF_vars(TimesOut(w))
-----------------------------------------------------------------------------
(* Properties. *)

TypeOK ==
    /\ row \in Row /\ claimAge \in Nat /\ idle \in Nat /\ lastClaim \in Nat
    /\ object \in [etag : Nat, speech : BOOLEAN]
    /\ msgs \subseteq [etag : Nat, try : 0 .. AsyncRetries]
    /\ wk \in [Workers -> Worker] /\ editor \in BOOLEAN /\ events \in Nat
    /\ edits \in Nat /\ baseEdits \in Nat /\ gens \in Nat

\* The steps between the status guard and the batch's claim.
Preparing == {"capture", "download", "fail", "noSpeech", "mark", "check", "start",
              "recapture", "restart"}

Legacy(r) == r.status = "summarizing" /\ ~r.pending

\* Claims are owned by one invocation.
Owned ==
    /\ row.claim <= lastClaim
    /\ \A w \in Workers : wk[w].mine <= lastClaim /\ (wk[w].mine # NoClaim => Running(w))
    /\ \A v, w \in Workers : wk[v].mine = wk[w].mine /\ wk[v].mine # NoClaim => v = w

\* Nothing about a held claim is older than its holder.
Young ==
    \A w \in Workers :
       /\ wk[w].age <= LambdaTimeout
       /\ Holds(w) => claimAge <= wk[w].age /\ idle <= wk[w].age

\* A snapshot taken under a claim carries it, and a row without the retry marker
\* is only prepared by the invocation that reclaimed it.
Fenced ==
    \A w \in Workers :
       /\ wk[w].pc \in Releasing => wk[w].mine # NoClaim
       /\ wk[w].pc \in {"preserve", "generate", "conflict"} =>
             wk[w].snap.claim = wk[w].mine
       /\ wk[w].pc \in Preparing /\ wk[w].seen = "summarizing" /\ Legacy(row) =>
             wk[w].mine # NoClaim /\ row.claim = wk[w].mine
       /\ wk[w].pc \in Preparing \ {"capture"} =>
             /\ wk[w].snap.status = wk[w].seen
             /\ Legacy(wk[w].snap) =>
                   wk[w].mine # NoClaim /\ wk[w].snap.claim = wk[w].mine

\* The inductive invariant behind the lease: an invocation that holds the claim of
\* a summarizing row is younger than the claim's time to live, and whoever could
\* replace the claim by a fence rather than by age owns it already.
LeaseInv == Owned /\ Young /\ Fenced

\* While the invocation that holds the claim of a summarizing row is alive, no
\* other invocation and no detail read takes that claim away: the claim's time
\* to live outlasts the Lambda timeout (dynamodb.go:1621-1627).
LeaseRespected ==
    [][\A w \in Workers :
          /\ Holds(w) /\ row.status = "summarizing" /\ row'.claim # row.claim
          => wk'[w] # wk[w]]_vars

\* A detail read never fails a summarizing row whose batch is still being worked on
\* by a live holder (meeting.go:588-631): each claim write moves updatedAt.
LiveBatchNotExpired ==
    \A w \in Workers : Holds(w) /\ row.status = "summarizing" =>
        idle <= StuckAfter /\ claimAge <= ClaimTTL

\* A generated summary never overwrites content the owner wrote after the batch
\* captured its transcript, through any number of resumed attempts.
OwnerContentKept ==
    [][row'.content # row.content /\ row'.content[1] = "auto" => edits = baseEdits]_vars

\* A batch costs at most one generation per claim: the first and each retry.
GenerationsBounded == gens <= 1 + MaxSummaryRetries

\* Its inductive form: a batch has spent at most one generation per claim, and an
\* invocation that holds the claim before its generation has not spent this one.
SpendInv ==
    /\ GenerationsBounded
    /\ row.status = "summarizing" => gens <= row.attempts + 1
    /\ \A w \in Workers :
          /\ wk[w].pc \in {"verify", "begun", "snapshot"} /\ row.status = "summarizing"
          /\ row.claim = wk[w].mine
          => gens <= row.attempts

\* The retry marker never survives on a finished meeting.
DoneNotPending == row.status = "done" => ~row.pending

\* However invocations die and deliveries are lost, the row does not stay in an active
\* status for ever (meeting.go:35-72): detail reads are the last resort.
Settles == <>[](row.status \in {"done", "error"})

\* The published summary was generated from the transcript the row holds.
SummaryMatchesTranscript ==
    [][\A w \in Workers : row'.content = <<"auto", wk[w].mine>> /\ row.content # row'.content
          => wk[w].snap.transcript = row'.transcript]_vars
=============================================================================
