-------------------------- MODULE MultipartUpload --------------------------
(***************************************************************************)
(* A meeting whose audio is uploaded as several files.                     *)
(*                                                                         *)
(* The owner's browser puts each file in the bucket and then completes it  *)
(* with two row writes: one allocates the slots, one fills this file's     *)
(* slot.  Every put starts a transcription task of its own, and every      *)
(* finished task stores transcripts/{id}_part_NNN.json.  The summarize     *)
(* Lambda counts these parts; whoever completes the count claims the right *)
(* to send AllPartsTranscribed, and a later invocation merges the parts    *)
(* and starts the summary.  From there MeetingSummary takes over.          *)
(*                                                                         *)
(* A meeting can be given another batch of files when one has ended, so    *)
(* puts, tasks, stored parts and deliveries of two batches overlap.        *)
(***************************************************************************)
EXTENDS Naturals, FiniteSets

CONSTANTS
    Workers,        \* summarize invocations that can be in flight at once
    MaxParts,       \* model.MaxAudioParts
    PartCounts,     \* the batch sizes an owner uploads
    AsyncRetries,   \* redeliveries of a failed asynchronous invocation
    MaxBatches,     \* bound: batches the owner starts
    MaxUploads,     \* bound: audio objects put, repeated parts included
    MaxEvents       \* bound: duplicated deliveries and failed task starts

ASSUME BoundAssumption ==
    /\ MaxParts \in Nat \ {0} /\ PartCounts \subseteq 2 .. MaxParts
    /\ AsyncRetries \in Nat /\ MaxBatches \in Nat
    /\ MaxUploads \in Nat /\ MaxEvents \in Nat

VARIABLES
    row,        \* the meeting item
    client,     \* the browser: what is left of the batch it uploads
    uploads,    \* audio objects put so far; an object's key is its number
    tasks,      \* transcriptions of audio objects that have not ended
    object,     \* transcripts/{id}_part_{p}.json: the key it transcribes, or 0
    msgs,       \* deliveries waiting for a summarize invocation
    wk,         \* the local state of each invocation
    started,    \* history: this batch's allocation was already summarized
    events      \* environment events so far (bound)

vars == <<row, client, uploads, tasks, object, msgs, wk, started, events>>

Parts == 0 .. MaxParts - 1
NoKey == 0
Key   == 0 .. MaxUploads

Statuses == {"recording", "transcribing", "summarizing", "done", "error"}

Row == [status: Statuses,
        keys: [Parts -> Key], parts: 0 .. MaxParts, ready: SUBSET Parts,
        emitted: {"no", "fresh", "stale"}]

NoKeys == [p \in Parts |-> NoKey]

FreshRow == [status |-> "recording", keys |-> NoKeys, parts |-> 0, ready |-> {},
             emitted |-> "no"]

\* The fields of CaptureTranscriptUpdate that an upload changes.
Snapshot == [status: Statuses,
             keys: [Parts -> Key], parts: 0 .. MaxParts, ready: SUBSET Parts]

Captured(r) == [status |-> r.status, keys |-> r.keys, parts |-> r.parts, ready |-> r.ready]

Client == [batch: 0 .. MaxBatches, parts: 0 .. MaxParts, todo: SUBSET Parts,
           step: {"idle", "allocate", "set"}, part: Parts, key: Key, first: Nat]

Message == [kind: {"part", "all"}, part: Parts, parts: 0 .. MaxParts, try: 0 .. AsyncRetries]

Steps == {"idle", "read", "increment", "claim", "emit", "release",
          "readAll", "capture", "merge", "fail", "check", "start", "recapture"}

Worker == [pc: Steps, msg: Message, parts: 0 .. MaxParts, snap: Snapshot,
           merged: [Parts -> Key]]

PartMessage(p, try) == [kind |-> "part", part |-> p, parts |-> 0, try |-> try]
AllMessage(n) == [kind |-> "all", part |-> 0, parts |-> n, try |-> 0]

Idle == [pc |-> "idle", msg |-> PartMessage(0, 0), parts |-> 0, snap |-> Captured(FreshRow),
         merged |-> NoKeys]

Running(w) == wk[w].pc # "idle"

Init ==
    /\ row = FreshRow /\ uploads = 0 /\ tasks = {} /\ object = NoKeys
    /\ client = [batch |-> 0, parts |-> 0, todo |-> {}, step |-> "idle", part |-> 0,
                 key |-> NoKey, first |-> 1]
    /\ msgs = {} /\ wk = [w \in Workers |-> Idle] /\ started = FALSE /\ events = 0

Spend == events < MaxEvents /\ events' = events + 1

\* A key the browser put for the batch it is uploading now.
OfThisBatch(key) == key >= client.first
-----------------------------------------------------------------------------
(* The browser and the completion handler it calls. *)

\* The uploader is offered for a new meeting and for one that has ended. Files the
\* owner selects again after an interrupted attempt are puts of the same batch.
StartBatch ==
    /\ client.step = "idle" /\ client.batch < MaxBatches
    /\ row.status \in {"done", "error"} \/ client.batch = 0
    /\ \E n \in PartCounts :
          client' = [client EXCEPT !.batch = @ + 1, !.parts = n, !.todo = 0 .. n - 1,
                                   !.first = uploads + 1]
    /\ UNCHANGED <<row, uploads, tasks, object, msgs, wk, started, events>>

\* uploadToS3: the stored object starts a task, whatever becomes of the completion
\* request. A file that failed is put again, under a new key.
PutAudio ==
    /\ client.step = "idle" /\ uploads < MaxUploads
    /\ \E p \in client.todo :
          /\ uploads' = uploads + 1
          /\ tasks' = tasks \cup {[part |-> p, key |-> uploads + 1]}
          /\ client' = [client EXCEPT !.step = "allocate", !.part = p, !.key = uploads + 1]
    /\ UNCHANGED <<row, object, msgs, wk, started, events>>

FreshBatch(n) == [status |-> "transcribing", keys |-> NoKeys, parts |-> n, ready |-> {},
                  emitted |-> "no"]

\* PreAllocateAudioKeys; a failed condition counts as already allocated.
PreAllocateAudioKeys ==
    /\ client.step = "allocate"
    /\ client' = [client EXCEPT !.step = "set"]
    /\ IF row.parts = 0 \/ row.status \in {"done", "error"}
       THEN row' = FreshBatch(client.parts) /\ started' = FALSE
       ELSE UNCHANGED <<row, started>>
    /\ UNCHANGED <<uploads, tasks, object, msgs, wk, events>>

Slottable(p) == row.parts > p /\ row.status \in {"recording", "transcribing"}

\* SetAudioKeyAtIndex; after a refused write or a lost reply the file is still
\* to be uploaded as far as the browser knows.
SetAudioKeyAtIndex ==
    /\ client.step = "set"
    /\ IF Slottable(client.part)
       THEN /\ row' = [row EXCEPT !.keys[client.part] = client.key, !.status = "transcribing"]
            /\ \E done \in {{client.part}, {}} :
                  client' = [client EXCEPT !.step = "idle", !.todo = @ \ done]
       ELSE client' = [client EXCEPT !.step = "idle"] /\ UNCHANGED row
    /\ UNCHANGED <<uploads, tasks, object, msgs, wk, started, events>>

\* The put's reply is lost, or the completion request fails before its next write.
RequestFails ==
    /\ client.step # "idle"
    /\ client' = [client EXCEPT !.step = "idle"]
    /\ UNCHANGED <<row, uploads, tasks, object, msgs, wk, started, events>>
-----------------------------------------------------------------------------
(* Transcription of one audio object. *)

\* The task could not be started: error status whatever the row has become;
\* the audio event is retried or given up.
StartTaskFails ==
    /\ Spend
    /\ \E t \in tasks : tasks' \in {tasks, tasks \ {t}}
    /\ row' = [row EXCEPT !.status = "error"]
    /\ UNCHANGED <<client, uploads, object, msgs, wk, started>>

\* _mark_failure: only a transcribing meeting still bound to this audio.
MarkFailure ==
    /\ \E t \in tasks :
          /\ tasks' = tasks \ {t}
          /\ IF row.status = "transcribing" /\ \E p \in Parts : row.keys[p] = t.key
             THEN row' = [row EXCEPT !.status = "error"]
             ELSE UNCHANGED row
    /\ UNCHANGED <<client, uploads, object, msgs, wk, started, events>>

TranscriptUploaded ==
    /\ \E t \in tasks :
          /\ tasks' = tasks \ {t}
          /\ object' = [object EXCEPT ![t.part] = t.key]
          /\ msgs' = msgs \cup {PartMessage(t.part, 0)}
    /\ UNCHANGED <<row, client, uploads, wk, started, events>>

\* Object events are delivered at least once.
Redeliver ==
    /\ Spend
    /\ \E p \in Parts : object[p] # NoKey /\ msgs' = msgs \cup {PartMessage(p, 0)}
    /\ UNCHANGED <<row, client, uploads, tasks, object, wk, started>>
-----------------------------------------------------------------------------
(* A summarize invocation. *)

Goto(w, step) == wk' = [wk EXCEPT ![w].pc = step] /\ UNCHANGED msgs

\* The invocation returns; an error puts the delivery back while retries last.
Return(w, ok) ==
    /\ wk' = [wk EXCEPT ![w] = Idle]
    /\ msgs' = IF ok \/ wk[w].msg.try >= AsyncRetries THEN msgs
               ELSE msgs \cup {[wk[w].msg EXCEPT !.try = @ + 1]}

Upload == <<client, uploads, tasks, object>>

Invoke(w) ==
    /\ ~Running(w)
    /\ \E m \in msgs :
          /\ msgs' = msgs \ {m}
          /\ wk' = [wk EXCEPT ![w] = [Idle EXCEPT !.msg = m,
                                        !.pc = IF m.kind = "part" THEN "read" ELSE "readAll"]]
    /\ UNCHANGED <<row, Upload, started, events>>

\* handlePartTranscript's status guard.
Read(w) ==
    /\ wk[w].pc = "read"
    /\ IF row.status \in {"done", "error", "summarizing"}
       THEN Return(w, TRUE) ELSE Goto(w, "increment")
    /\ UNCHANGED <<row, Upload, started, events>>

CountedByNumber(ready, p) == ready \cup {Cardinality(ready)}
Counted(ready, p) == ready \cup {p}

\* IncrementAudioPartsReady adds the part to the row's set, whatever the status
\* is by now, and returns the new item.
IncrementAudioPartsReady(w) ==
    /\ wk[w].pc = "increment"
    /\ row' = [row EXCEPT !.ready = Counted(@, wk[w].msg.part)]
    /\ IF Cardinality(row'.ready) >= row.parts /\ row.parts > 0
       THEN /\ wk' = [wk EXCEPT ![w].pc = "claim", ![w].parts = row.parts]
            /\ UNCHANGED msgs
       ELSE Return(w, TRUE)
    /\ UNCHANGED <<Upload, started, events>>

\* ClaimAllPartsEmit. A resend after a lost reply finds its own claim fresh and
\* takes the emission for somebody else's.
ClaimAllPartsEmit(w) ==
    /\ wk[w].pc = "claim"
    /\ IF row.emitted = "fresh"
       THEN Return(w, TRUE) /\ UNCHANGED row
       ELSE /\ row' = [row EXCEPT !.emitted = "fresh"]
            /\ Goto(w, "emit") \/ Return(w, TRUE)
    /\ UNCHANGED <<Upload, started, events>>

\* PutEvents, with the count IncrementAudioPartsReady returned; an error reply may
\* still have sent the event.
Emit(w) ==
    /\ wk[w].pc = "emit"
    /\ \E error \in BOOLEAN :
          /\ wk' = [wk EXCEPT ![w] = IF error THEN [@ EXCEPT !.pc = "release"] ELSE Idle]
          /\ msgs' = msgs \cup {AllMessage(wk[w].parts)}
    /\ UNCHANGED <<row, Upload, started, events>>

\* ReleaseAllPartsEmit removes the claim, whoever holds it now.
ReleaseAllPartsEmit(w) ==
    /\ wk[w].pc = "release"
    /\ row' = [row EXCEPT !.emitted = "no"]
    /\ Return(w, FALSE)
    /\ UNCHANGED <<Upload, started, events>>

\* handleAllPartsTranscribed's guard.  A row that is being summarized is MeetingSummary's
\* to resume, and the delivery ends as its resumption does: every such row here carries the
\* retry marker Start's write sets, so the reclaim of a row without one does not arise.
ReadAll(w) ==
    /\ wk[w].pc = "readAll"
    /\ \/ row.status = "transcribing" /\ Goto(w, "capture")
       \/ row.status = "summarizing" /\ \E resumed \in BOOLEAN : Return(w, resumed)
       \/ row.status \notin {"transcribing", "summarizing"} /\ Return(w, TRUE)
    /\ UNCHANGED <<row, Upload, started, events>>

Capture(w) ==
    /\ wk[w].pc = "capture"
    /\ IF row.status = "transcribing"
       THEN /\ wk' = [wk EXCEPT ![w].pc = "merge", ![w].snap = Captured(row)]
            /\ UNCHANGED msgs
       ELSE Return(w, TRUE)
    /\ UNCHANGED <<row, Upload, started, events>>

Stored == {p \in Parts : object[p] # NoKey}

\* mergePartTranscripts: the listed parts must be exactly the announced ones.
Merge(w) ==
    /\ wk[w].pc = "merge"
    /\ \/ /\ Stored = 0 .. wk[w].msg.parts - 1
          /\ wk' = [wk EXCEPT ![w].pc = "check", ![w].merged = object]
          /\ UNCHANGED msgs
       \/ /\ Stored # 0 .. wk[w].msg.parts - 1
          /\ Goto(w, "fail")
    /\ UNCHANGED <<row, Upload, started, events>>

\* The condition every write of the captured update carries.
FenceWithoutStatus(s) == Captured(row) = [s EXCEPT !.status = row.status]
Fence(s) == Captured(row) = s

\* failTranscriptSnapshot: the error mark is fenced, the error is returned.
FailTranscriptSnapshot(w) ==
    /\ wk[w].pc = "fail"
    /\ row' = IF Fence(wk[w].snap) THEN [row EXCEPT !.status = "error"] ELSE row
    /\ Return(w, FALSE)
    /\ UNCHANGED <<Upload, started, events>>

\* Parts replaced since they were read: the delivery is retried, or dropped when the
\* merge was empty.
CheckTranscriptObjects(w) ==
    /\ wk[w].pc = "check"
    /\ \/ object = wk[w].merged /\ Goto(w, "start")
       \/ object # wk[w].merged /\ \E empty \in BOOLEAN : Return(w, empty)
    /\ UNCHANGED <<row, Upload, started, events>>

\* An empty merge is marked instead of summarized.
MarkSttNoSpeech(w) ==
    /\ wk[w].pc = "start"
    /\ row' = IF Fence(wk[w].snap) THEN [row EXCEPT !.status = "error"] ELSE row
    /\ Return(w, TRUE)
    /\ UNCHANGED <<Upload, started, events>>

\* StartTranscriptSummary publishes the merged transcript under the fence; its reply
\* may be lost.
Start(w) ==
    /\ wk[w].pc = "start"
    /\ IF Fence(wk[w].snap)
       THEN /\ row' = [row EXCEPT !.status = "summarizing"] /\ started' = TRUE
            /\ \E replied \in BOOLEAN : Return(w, replied)
       ELSE Goto(w, "recapture") /\ UNCHANGED <<row, started>>
    /\ UNCHANGED <<Upload, events>>

\* After a lost fence: other audio or another status drops the delivery, a
\* changed count alone has it retried.
Recapture(w) ==
    /\ wk[w].pc = "recapture"
    /\ Return(w, \/ row.status # wk[w].snap.status \/ row.keys # wk[w].snap.keys
                 \/ row.parts # wk[w].snap.parts)
    /\ UNCHANGED <<row, Upload, started, events>>

\* A call fails without an effect. Both handlers drop the delivery when they
\* cannot read the meeting; a failed download or listing fails the merge.
CallFails(w) ==
    /\ Running(w)
    /\ CASE wk[w].pc \in {"read", "readAll"} -> Return(w, TRUE)
         [] wk[w].pc = "emit" -> Goto(w, "release")
         [] wk[w].pc = "merge" -> Goto(w, "fail")
         [] OTHER -> Return(w, FALSE)
    /\ UNCHANGED <<row, Upload, started, events>>

Crash(w) ==
    /\ Running(w)
    /\ Return(w, FALSE)
    /\ UNCHANGED <<row, Upload, started, events>>
-----------------------------------------------------------------------------
(* Time, and the rest of the row's life. *)

\* AllPartsEmitClaimTTL passes.
EmitClaimAges ==
    /\ row.emitted = "fresh"
    /\ row' = [row EXCEPT !.emitted = "stale"]
    /\ UNCHANGED <<Upload, msgs, wk, started, events>>

\* A detail read expires a row that stopped moving; the threshold outlasts every
\* request and invocation, but not a task that waits for a GPU.
ReadExpiresStuck ==
    /\ row.status \in {"recording", "transcribing", "summarizing"}
    /\ client.step = "idle" /\ \A w \in Workers : ~Running(w)
    /\ row' = [row EXCEPT !.status = "error"]
    /\ UNCHANGED <<Upload, msgs, wk, started, events>>

\* The outcomes of MeetingSummary.
SummaryEnds ==
    /\ row.status = "summarizing"
    /\ row' \in {[row EXCEPT !.status = "done"], [row EXCEPT !.status = "error"]}
    /\ UNCHANGED <<Upload, msgs, wk, started, events>>
-----------------------------------------------------------------------------
Browser == StartBatch \/ PutAudio \/ PreAllocateAudioKeys \/ SetAudioKeyAtIndex \/ RequestFails

Transcription == StartTaskFails \/ MarkFailure \/ TranscriptUploaded \/ Redeliver

Summarize(w) ==
    \/ Invoke(w) \/ Read(w) \/ IncrementAudioPartsReady(w) \/ ClaimAllPartsEmit(w)
    \/ Emit(w) \/ ReleaseAllPartsEmit(w) \/ ReadAll(w) \/ Capture(w) \/ Merge(w)
    \/ FailTranscriptSnapshot(w) \/ CheckTranscriptObjects(w) \/ MarkSttNoSpeech(w)
    \/ Start(w) \/ Recapture(w)

Next ==
    \/ Browser \/ Transcription
    \/ \E w \in Workers : Summarize(w) \/ CallFails(w) \/ Crash(w)
    \/ EmitClaimAges \/ ReadExpiresStuck \/ SummaryEnds

Spec == Init /\ [][Next]_vars
-----------------------------------------------------------------------------
(* Properties. *)

TypeOK ==
    /\ row \in Row /\ client \in Client /\ uploads \in 0 .. MaxUploads
    /\ tasks \subseteq [part: Parts, key: 1 .. MaxUploads]
    /\ object \in [Parts -> Key] /\ msgs \subseteq Message
    /\ wk \in [Workers -> Worker] /\ started \in BOOLEAN /\ events \in 0 .. MaxEvents

\* AllPartsTranscribed announces a batch only when each of its parts has a stored
\* transcript, however often parts are delivered, put again or the count restarted
\* (main.go:529-560). True while all batches of a meeting have the same size.
EmitComplete ==
    \A m \in msgs : m.kind = "all" => \A p \in Parts : p < m.parts => object[p] # NoKey

\* An allocation of slots is summarized at most once, however many emissions and
\* deliveries of AllPartsTranscribed race for it (main.go:586-613).
PublishedOnce == [][\A w \in Workers : Start(w) /\ row' # row => ~started]_vars
=============================================================================
