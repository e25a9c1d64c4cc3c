# Ttobak: a TLA+ model of the meeting pipeline and of its sharing

Ttobak records meetings, transcribes them on spot GPUs and turns the transcripts
into notes. A meeting is one DynamoDB item, and almost everything that makes the
product hard happens to that item: a browser, an S3 event, several Lambda
functions, a GPU worker, a recovery tick every 15 minutes and any number of readers
write it, none of them waits for another, and each of them may be delivered twice,
late or never, or die half way. The only thing that keeps them apart is the
condition on each write. This directory models those writes and their
conditions, checks the models with TLC and proves the properties that matter
most with TLAPS.

Paths below are relative to `src/`; `B/` stands for `backend/`.

## 1. Inventory of the system

`PROJECT.json` lists every part with its files. These are the parts with control
worth modelling, in the order of how much can go wrong in them.

| Part | State | Operations | What makes it correct |
|---|---|---|---|
| Meeting summary pipeline (`B/cmd/summarize`, `B/internal/repository/summary_*.go`, `transcript_update.go`) | the meeting item: status, retry marker, attempts, claim, hash of the batch's content, content, transcript | deliver, claim, capture, start, snapshot, generate, publish, preserve, conflict, release, expire | one live holder per claim; a resumed batch never overwrites the owner; a bounded number of model calls; a row never stays active for ever |
| Multi-part upload (`B/internal/service/upload.go`, `B/cmd/summarize/merge.go`) | slots of audio keys, parts counter, emit claim, one stored transcript per part | allocate, fill a slot, count a part, claim and send AllPartsTranscribed, merge, start | a batch is announced when it is complete and summarized once |
| STT recovery (`B/cmd/transcribe/recovery.go`, `B/internal/repository/stt_recovery.go`, `B/internal/service/stt_recovery.go`) | failure mark, two claims and two budgets bound to an audio key; the tasks of the Whisper cluster; the objects in S3 | scan, classify, check the cluster, claim, start a task, re-emit a transcript, release, give up, delete | one recovery task at a time; every claim is charged, and to the right audio; only a quiet failure is deleted, its objects after its row; a stuck row gets somewhere |
| Resummary and action items (`B/internal/service/resummary.go`, `action_analysis.go` and their repositories) | one row per analysis: run, status, lease, fingerprint; the meeting's content, tasks and remembered ticks | request, queue, publish, start, generate, complete, fail, tick, read | a result replaces only what it was made from; a tick is never lost; an answer and its tasks belong together; one worker per run |
| Account hierarchy (`B/internal/repository/account_hierarchy.go`, `account_children.go`, `B/cmd/account-hierarchy-bootstrap`) | parent links, members, child references | move, create, add, remove, edit through an ancestor, bootstrap | no cycle under concurrent moves; the index agrees with the links; an edit needs a grant at its commit |
| Project invitations and rollback (`B/internal/repository/project_invitation.go`, `B/cmd/prepare-project-invite-rollback`) | queue, owner's and subject's row of an invitation, control row with a revision | invite, revoke, claim, remove, expire; pause, drain, resume | what was revoked never becomes a membership; a drained queue stays drained; nothing crosses a pause |
| Shares and pending shares (`B/internal/repository/member_fences.go`, `dynamodb.go`) | share and mirror items, pending shares, membership fences | share, revoke, claim at first login, backfill | both sides of a share agree; a removed member keeps nothing |
| Knowledge indexing (`B/internal/service/indexing.go`, `index_provider.go`, `B/internal/repository/indexing.go`, `B/cmd/kb`) | one job row per source, one control row with lease, phase and batch; projections in S3; the documents of the knowledge base | request, claim, reconcile, prepare, ingest, finish | what a job says is indexed is what can be retrieved; nobody changes the bucket while it is ingested; a changed source gets there without help |
| Attachment text (`B/internal/repository/attachment_text.go`, `B/python/document-extract`) | extraction job with a lease, shared by Go and Python | queue, claim, finish, fail | the two implementations keep one lease protocol |
| Terms analysis, dictionary, research, simulator jobs | a job status per item | queue, run, finish | as the analyses, on smaller items |
| Connector grants (`B/internal/connector`, `B/python/qa/connector_grants.py`, `mcp-server`) | grants and versions | approve, revoke, delegate | three implementations of one contract agree |

The other parts (HTTP handlers, frontend presentation, macOS bridge, crawler,
document conversion, translation and export, infrastructure) are request or data
transformations with one writer; they are listed with the reason in `PROJECT.json`.

How the parts meet: the browser puts audio in S3 and completes the upload with
writes of the item; the put starts a transcription task through the transcribe
Lambda; the task stores a transcript in S3; the put of the transcript starts a
summarize invocation (asynchronous, at least once, two retries); a multi-part
batch adds one EventBridge event; recovery copies a transcript onto itself to
produce the S3 event again; every detail read of a meeting may expire it. All of
them share the item and nothing else, so a composition of two modules is a
composition of their writes to the item. When the meeting is done, people edit it, and two
analyses run on it under rows of their own; who may ask for them is decided by shares,
memberships of accounts above the meeting's, and projects. These parts use transactions: a
writer reads freely, without locks, and its one transaction repeats as a condition
everything the decision rested on. What is modelled of them is whether it repeats enough.

## 2. Modules

### MeetingSummary

One meeting row and the summarize invocations of a single transcript object.
Everything an invocation does is split at its calls: an action is one DynamoDB,
S3 or Bedrock call with the decisions up to the next, and `wk[w].pc` names the
call that comes next.

| Model | Code |
|---|---|
| `Invoke`, `Read`, `ClaimSummaryRetry`, `Expire`, `Reread`, `Verify`, `ClaimSummarizeRetry` | `handleSingleTranscript`'s guards, `resumeSummaryRetry`, the retry claim and the older claim of rows without the retry marker |
| `Capture`, `Download`, `FailTranscriptSnapshot`, `HandleNoSpeech`, `MarkSttNoSpeech`, `CheckTranscriptObjects`, `Start`, `Recapture`, `Restart`, `Begun` | the transcript fence, `beginTranscriptSummary` and its one re-capture after a human edit |
| `Snapshot`, `Preserve`, `Publish`, `MarkSummaryConflict`, `ReleaseSummaryRetryClaim` | the generation under the claim and its four ends |
| `CallFails`, `Crash`, lost replies inside the actions | an error of any call, the Lambda's death, a write that was applied although its reply was lost |
| `TranscriptUploaded`, `Redeliver`, `MarkFailure`, `StartTaskFails` | the STT side, as writers of the row and sources of deliveries |
| `RediarizeMeeting`, `BindMeetingAudioKey`, `SaveRecording`, `UpdateSpeakers`, `EditContent`, `CheckTranscriptEdit`, `EditTranscript` | the owner; an edit of the transcript is two steps because the code checks the status it read earlier |
| `ReadExpiresRetry`, `ReadExpiresStuck` | what `GetMeetingDetail` writes |

`row` is the item without its timestamps. The timestamps are ages
(`claimAge`, `idle`, and an age per invocation) that grow with `Tick` and saturate
one past the threshold that reads them, so behaviours are unbounded in time with a
finite state space. A claim, which the code makes unique with its timestamp, is the
serial number `lastClaim`. A text is its origin and a number (`<<"human", 2>>`);
the content hash is the content itself. Nobody compares prompts, models or
wording, so none of them is in the model.

### MultipartUpload

A meeting whose audio arrives as several files, up to the start of the summary;
after that `SummaryEnds` stands for MeetingSummary.

| Model | Code |
|---|---|
| `StartBatch`, `PutAudio`, `RequestFails` | `AudioUploader.tsx`: each file is put, then completed, and a failed file can be selected again |
| `PreAllocateAudioKeys`, `SetAudioKeyAtIndex` | the two row writes of `CompleteUpload` for a part |
| `StartTaskFails`, `MarkFailure`, `TranscriptUploaded`, `Redeliver` | the task of one audio object; a transcript's key carries the part's index and nothing about the batch |
| `Read`, `IncrementAudioPartsReady`, `ClaimAllPartsEmit`, `Emit`, `ReleaseAllPartsEmit` | `handlePartTranscript` |
| `ReadAll`, `Capture`, `Merge`, `FailTranscriptSnapshot`, `CheckTranscriptObjects`, `MarkSttNoSpeech`, `Start`, `Recapture` | `handleAllPartsTranscribed` |
| `EmitClaimAges`, `ReadExpiresStuck`, `SummaryEnds` | the claim's five minutes, the detail read, the rest of the row's life |

`ReadAll` has the three ways of a delivered event: a transcribing row is captured; of a summarizing one the resumption
belongs to MeetingSummary, and here it is whether the invocation counts as done or is tried again; anything else is skipped. The older claim of a
summarizing row without the retry marker (`B/cmd/summarize/main.go:603-611`) does not arise: every start that is modelled sets the marker, and a
summarizing row keeps it until it is done or failed.

Audio keys are numbered in the order of the puts, which is what lets a property say
whether a part belongs to the present batch (`OfThisBatch`). `started` is a
history variable: this allocation has already been summarized.

### SttRecovery

One single-file meeting and the ticks of its recovery, which can overlap: each tick
scans the row, classifies it and then acts on what it saw, and `tick[t].seen` is
that observation. As in the other modules an action is one call.

| Model | Code |
|---|---|
| `ScanSttRecoveryRows`, `Classify` | the scan's filter; the S3 facts and `ClassifySttRecovery`, whose outcome is `Decision` |
| `SttFailureMarkCurrent`, `Overdue`, `SttPipelineRestarts`, `Candidate`, `Attempts`, `Redrives`, `DeletionDue` | the predicates of `B/internal/service/stt_recovery.go`, under their names where it has them |
| `clusterBusy`, `ClaimSttRecovery`, `RunTask` | the single-flight check and `redriveSTT`; a claim's lost reply, its read-back, and a RunTask error that hides a started task |
| `ClaimSttSummaryRedrive`, `CopyObject` | `redriveSummary` |
| `MarkSttFailureForClaim`, `MarkSttFailureObserved` | the release of the tick's own claim; giving up |
| `ScanSttDeletionReferences`, `QueryChildren`, `DeleteSttFailedMeeting`, `DeleteSttFailedMeetingObjects` | the delete pass: references, children and checkpoints, the transaction with its read-back, the objects |
| `Crash`, `TimePasses` | the Lambda is killed; no tick outlives its timeout |
| `StartTranscription`, `UploadTranscript`, `MarkFailure`, `TaskLost` | the transcribe Lambda and the Whisper task: three ways to end, and a failure mark with its fence and code |
| `CaptureTranscript`, `CheckTranscriptObjects`, `FinishTranscript` | the summarize Lambda as far as recovery sees it: it publishes, marks `NO_SPEECH`, or fails the row, under its fence |
| `PutAudio`, `BindMeetingAudioKey`, `RediarizeMeeting`, `CopyForRediarize`, `UpdateMeeting`, `Relate`, `ReadExpiresStuck` | the owner and detail reads; a relation is a reference found by the scan, a child row found by the query, or an attribute of the row, and none of the three moves `updatedAt` |

The code compares timestamps in two ways: for their order and equality (is the mark the
last write, is the transcript newer than the restart) and for how long ago they were. The
model keeps the two apart: a timestamp is a serial number (`stamp`), and its distance to now
an age that grows with `TimePasses` and saturates at the largest threshold that reads it. A
claim's timestamp is taken when the row is classified, before the write that stores it, and
the model keeps that order: it can be older than another writer's.
`done` is final, because the scan's filter hides a row with transcript
fields and what happens to it is MeetingSummary's. `claims`, `bound` and `touched`
are history variables; no guard but those of the bounds reads them.

### AccountHierarchy

Any number of requests, one per process that may be in flight, over accounts that are never
deleted. A request is a record: who asks what, how far its walk is (`obs`, the links it
saw) and how many attempts are left. An action is one read, or the transaction.

| Model | Code |
|---|---|
| `Begin`, `ReadChild`, `ObserveAncestor` | `UpdateAccountParent` and the creations of `B/internal/service`: the account itself, then one turn of `observeAccountAncestors` per ancestor |
| `UpdateAccountParent`, `CreateAccount`, `Retry` | the transactions with `MoveChecks`, `CreateChecks`, `ParentChecks`, and the loop around them. `CreateAccount` is the most general of the three creations: the owner may be another user, and the requester may or may not stay as a member |
| `ObserveGrant`, `Edit` | `accountTeamMemberChecks`, which stops at the nearest ancestor that grants, and the transaction of an edit that carries its checks |
| `AddMember`, `RemoveMember` | one row each |
| `StartJob`, `ScanAccountHierarchyPage`, `EnsureAccountChildReference`, `EndJob`, `JobFails` | the bootstrap command with `-apply`: pages of any size in any order, each row repaired on its own |

`role` stands for a member row and for `ownerUserId`, which is written once, with the owner's
row, and changes no more than that row does. The model checks the parent's member row by
existence, as the code does for moves; for an edit the code also pins its `addedAt`, which only refuses more.
Descendant reads (`ACCOUNT_DESCENDANT_READS_ENABLED`) are taken to be on. A lost reply needs no
action of its own: after it the code reads and answers, or tries again. A pass of the job that met concurrent
changes asks for a rerun; `BootstrapComplete` holds even after such a pass.

### ProjectInvitation

One project, whose owner never changes. An invitation is a serial number (`createdAt`), and what it
says is in `letter`; three rows carry it: in the queue of its address, in the owner's list, and
under the subject Cognito answered.

| Model | Code |
|---|---|
| `AddMember`, `ReadControl`, `PutPendingProjectShare`, `PutRegisteredProjectMember` | the two paths of adding a member; the control row is read before the transaction, and `FenceOf` is the check in it |
| `ReadPending`, `RevokePendingProjectShare`, `ListPendingProjectShares`, `RemoveMember`, `ListProjectMembers`, `DeleteProject` | what the owner does, each read apart from its transaction |
| `Bootstrap`, `ReadQueue`, `MaterializePendingProjectGrant`, `Retire` | a session's claims: one row as it was listed, the transaction, the cleanup of a row that is dead |
| `Expire`, `Reap` | an invitation passes its expiry; the table drops its rows one by one, in any order and late |
| `Prepare`, `Resume`, `SetProjectInvitationControl`, `ConfirmFence`, `Check`, `ScanPage`, `RemovePending`, `ScanEmpty`, `LastCheck`, `Interrupt` | the rollback command, by any number of operators |
| `Return` | a failing call, or the end of the Lambda, anywhere |

`Identities` are the pairs of address and subject Cognito may answer over time: an address that is
deleted and registered again has another subject. `PROJECT_INVITATIONS_ENABLED` is taken to be on;
the serving-alias checks of the commands and their dry run are left out, so the model's operators
act in more states than the real ones.

### SummaryAnalyses and AnalysisRun

`SummaryAnalyses` is one finished meeting with its two analyses. `AnalysisRun` is what the row of
either promises: a run is claimed under a new identity, and only where no live run is; it starts
once and ends once; an ended run stays ended until the next claim. Both rows are shown to implement it
(`Row(k)` is the refinement mapping), by TLC and by TLAPS.

| Model | Code |
|---|---|
| `RequestResummary`, `QueueResummary`, `RequestActions`, `QueueActionAnalysis`, `Publish` | a request up to its transaction, the transaction, and the event, which may go out although the call failed |
| `SummaryRequested`, `CaptureResummary`, `StartResummary`, `Prepare`, `GenerateResummary`, `CompleteResummary`, `SummarizerFails` | `ResummaryService.Process`, call by call; `Publication` and `Completion` are the meeting's and the row's part of the last transaction, in the plain and the sharing-safe mode |
| `ActionItemsRequested`, `ReadMeeting`, `StartActionAnalysis`, `ExtractActionItems`, `CompleteActionAnalysis`, `ExtractorFails` | `ActionItemsAnalysisService.Process`; `Reconciled` and `Continuity` carry the ticks over |
| `ReadTasks`, `SetCompleted` | a person ticks a task: read, then write if the tasks are still those |
| `Describe`, `Response` | the two reads of an answer |
| `FindExpired`, `ClientFails`, `LeaseRunsOut` | a read that finds an expired run fails it |
| `SummarizerDies`, `ExtractorDies`, `ClientEnds` | an invocation dies anywhere |
| `EditContent`, `ShareOrRevoke`, `BeginPipeline`, `PublishMeetingSummary`, `PipelineFails` | the others who write the meeting, among them MeetingSummary's pipeline |

The privacy writers (`SUMMARY_PRIVACY_WRITER_ENABLED`) are on: then each write of the content stamps a
new generation, which stands for the content. A person's edit does too: `updateMeetingFieldsChecked` puts a fresh `GenerationID` into its
revision, and `summaryContentRevisionUpdate` removes the generation only when it gets none, which is with the switch off
(`B/internal/repository/dynamodb.go:1056-1068`, `summary_privacy.go:269-286`). The fingerprint is the snapshot itself. A lease is a flag: the
clock that a worker compares it with was read before its transaction, and the model keeps that order.
`RunInline` is a request whose event goes straight to a worker, one of the model's behaviours.

### Indexing

Any number of sources (meetings and documents), the stream handler, and the ticks of the coordinator. As elsewhere an
action is one call, and `tick[t].pc` names the one that comes next; the members of a batch are taken one by one in any order.

| Model | Code |
|---|---|
| `ReadForNote`, `Enqueue`, `RequestIndexResource` | a stream record: the source as it is now, and the request, which coalesces with what the job already answers |
| `Claim`, `Release`, `SaveIndexControl` | the lease of `Tick`, its deferred release, and the condition on each write of the control row |
| `Busy`, `Look`, `Listed`, `Choose`, `CloseReconcile` | `reconcile`: a scan requests the sources there are and those with an object of the former indexer (`Listed`); then every known job is compared with its source, and with the bucket if it is settled |
| `Take`, `Begin`, `ReadSource`, `Plan`, `Put`, `Verify`, `Track`, `Sweep`, `Ready` | `prepare` with `cleanupTracked`, write by write |
| `FailPurged`, `Defer`, `FailDeferred`, `Retry`, `Dispose`, `Requeue`, `Count` | its ways out: an invalid source, a source that changes (`deferChangingSource`), an error (`retryPreparation`, which gives up on a preparation whose lease is over, and `memberFailure`) |
| `Start`, `Run`, `Get` | the phases that wait for the provider; a repeated client token returns the job it started |
| `Find`, `Docs`, `Reread`, `Settle`, `Tally` | `finish` and `documentsSucceeded` |
| `IngestionEnds`, `ExternalStarts`, `ExternalEnds` | Bedrock: a job leaves what was in the bucket all the while and may leave what was there some of the time; a failed one may leave what was indexed before |
| `CallFails`, `Crash`, `Resolve`, lost replies in `Written` | an error of any call, a killed tick, a put that lands after its caller gave up |

A revision is the source itself: the outcome it leads to, its record (`rec`) and its files. Writes pin the record, as the
code's condition does, so a file replaced under its key escapes them until the next comparison (kind `"file"`). The
version of a row is the row. A projection has one data object with its sidecar, and `Legacy` is the flat object of the
indexer before this one. Time is counted in units of the tick's timeout; a cooldown is a flag. `Choose` reads the job, lists the bucket and requests in
one step: what it gets wrong in between is a member too many or too few, and the preparation looks again. `Take` reads and `Begin` writes: a row that was
written in between refuses the new run, and the tick goes on to `deferChangingSource`. A source that waits
for its file takes the path of a deleted one, which `Outcomes` has as a case of its own.

### Proof and MC modules

A module `X_proofs` holds the theorems of `X`. A module `MC_X` adds what TLC needs: the symmetry of
processes, which is sound because no definition tells one from another, and, for ProjectInvitation, of the
subjects under a set of identities that is itself symmetric. The liveness runs use no symmetry.

## 3. Runs

### What holds

| Run | Question | Bounds |
|---|---|---|
| `summary_owner` | Is the claim a lease, is its spending bounded, does the owner's content survive, with an owner and the environment racing the batch? | 2 invocations, 2 resumptions, 2 redeliveries, 1 transcript, 2 owner or environment events; 1.6 million states |
| `summary_superseded` | Is a summary always of the transcript the row holds, and does a row always leave its active statuses? | 2 invocations, 2 transcript objects, 1 resumption, 1 event, with fairness; 2.3 million states |
| `upload_parts` | Is a batch announced only when complete, and summarized once? | 2 invocations, one batch of two files, 1 redelivery, 1 event; 2.6 million states |
| `recovery_claims` | Is every claim charged once, and is there one recovery task at a time? | 2 overlapping ticks, budget 2, one audio file of speech, detail reads, 1 fault; 3.6 million states |
| `recovery_delete` | What does the delete pass delete, and in which order, and does a stuck recording get somewhere? | 1 tick, budget 1, one audio file of any kind, one owner action, 1 fault, with fairness; 1.2 million states |
| `recovery_replaced` | Is the budget that is spent the one of the bound audio? | 1 tick, budget 1, 2 audio files whose uploads may overlap; 1.1 million states |
| `accounts_hierarchy` | Do concurrent moves, creations and the bootstrap job keep the tree and its index, and is an edit through an ancestor entitled when it commits? | 2 accounts, 2 users who add and remove each other, 2 requests that move, create or edit, 2 attempts, the job; 1.2 million states |
| `invitation` | Does anything that was revoked, removed or drained come back? | 1 address with two subjects, 2 invitations, 2 requests, 1 operator, 2 control revisions; 4.6 million states |
| `analyses` | Are ticks kept, and do answer and tasks belong together? | 1 task, 1 client, 1 worker of each kind, 2 generations; 4.3 million states |
| `indexing` | Is what is said to be indexed what the knowledge base holds, and is the bucket left alone while it is ingested? | 2 resources with an object of the former indexer, 2 ticks, a deletion or a replaced file, 2 stream records, 1 fault; 3.3 million states |
| `indexing_settles` | Does a source get to be indexed without a stream record? | 1 resource with a vector of the former indexer, 1 tick, an edit, valid or not, or a deletion, 1 ingestion of somebody else, 1 stream record, 1 fault, with fairness; 0.9 million states |
| `analyses_redelivered` | Is there one worker per run, and does a re-summary replace only its source? | no task, 1 client, 2 workers for re-summaries, 1 editor; 918 thousand states |

The properties, by what they say about the code:

* `LeaseInv`, `LeaseRespected`, `LiveBatchNotExpired`: a claim's time to live (16
  minutes) outlasts the Lambda timeout (15), so whoever finds the claim stale finds its
  holder dead, and a detail read (60 minutes, on another timestamp) never fails a
  batch at work. It needs every claim write to move `updatedAt`, which the mutant
  of `LiveBatchNotExpired` forgets.
* `SpendInv`: each generation is paid for by a claim, the first or a counted retry,
  through conflicts, releases, crashes and lost replies.
* `DoneNotPending`: however a batch ends, the retry marker goes with it. A row that
  keeps it would be summarized again by the next stray delivery.
* `OwnerContentKept`: content the owner wrote after the batch captured its source is
  not replaced by the batch, also when it is resumed by an invocation that never
  saw the source. It rests on the hash stored with the *first* capture; the
  mutant takes the re-capture's.
* `SummaryMatchesTranscript`: nothing published was generated from a transcript the
  row no longer holds.
* `Settles`: under the fairness below every row ends in `done` or `error` for good.
* `EmitComplete`: AllPartsTranscribed means that each announced part has a stored
  transcript.
* `PublishedOnce`: several emissions, each delivered several times, start one summary
  per allocation.
* `AttemptsCharged`: the number of attempts on the row is the number of claims that were
  made for its audio, although two ticks may claim on the same observation, a claim's reply
  may be lost, and another file may be bound in between. The mutant drops the observed timestamp
  and counters from the condition.
* `OneRecoveryRun`: check, claim and start are three calls, and RunTask may start a task and
  report an error. What keeps two tasks apart is a chain: only one tick's claim is fresh,
  every other one is refused, and the next may come only after the retry
  delay, by which time the tick in question has ended and its task is visible to the check.
* `GivesUpOnOwnBudget`: `RECOVERY_EXHAUSTED` is final for the owner, so it must mean that
  *this* file was tried as often as promised.
* `DeletesOnlyQuietFailures`, `SpeechNeverDeleted`, `ObjectsOutliveRow`: what may be deleted, what never
  may, and in which order. The first speaks about the row when the transaction commits and not when it
  was scanned. It says nothing about references and children created after
  their check, which is the window ADR-031 documents. The second spans
  the worker's classification of its failure, the mark, the grace period and the transaction.
* `Settles` (of SttRecovery): a bound recording ends published, deleted, marked for good, or with its
  re-drives spent. The last case is the code's: such a row is only reported.
* `Acyclic`: no walk sees the whole tree at once, yet no two moves close a cycle, because each
  transaction repeats every link it walked. The mutant drops the links and keeps the membership.
* `NoStaleReference`, `BootstrapComplete`: the child index has no reference too many at any time, and
  none too few once the job came to its end. The first rests on the pinned parent of a move: the
  mutant deletes the reference of a parent read earlier.
* `EditsEntitled`: the granting membership *and* the way to it hold in the transaction of the edit.
* `NoResurrection`: an invitation that was revoked, or queued for a member who was removed, never becomes a
  membership, whichever request had read it. Removing a member leaves the queue row in place; what stops it is the subject's row, which the mutant ignores.
* `VisibleToOwner`: whatever can be claimed is in the list the owner revokes from, although the three
  rows are cleared by different writers and by the table's own expiry.
* `QueueOfThisEpoch`, `DrainHolds`: a request that read the control row before a pause cannot write after the
  drain, nor after the resumption; and when the command says "drained" it is so until somebody resumes.
  The checks between pages are not what this rests on; the revision in the writers' transaction and the final
  look through the queue are.
* `TicksKept`: a saved task carries what was last said of it, and a task remembered through a
  sharing-safe re-summary too.
* `AnsweredForThisSummary`: "succeeded" is only said to a reader together with the tasks of the summary it sees,
  so an empty list means there are none (`docs/API-SPEC.md`: "Only `succeeded` plus an empty array means no tasks").
* `ReplacesWhatWasRead`, `OneWorkerPerRun`, and the refinements `ResummaryIsARun` and `ActionItemsIsARun`.
* `SettledIsServed`: while a job is settled, the knowledge base holds its projection and no other document of the
  resource. An ingestion can fail for some documents, whoever started it, and leave old ones behind; what
  makes this hold is the list of documents to disappear, recorded before the first deletion, and
  asked for one by one before the job is settled. The mutant asks only for what should be there.
* `SettlesOnCurrentSource`: the write that settles a job repeats the source record as a condition.
* `Frozen`: from the start of an ingestion to its end the bucket does not change. An uncertain put is the hard
  case: its tick dies without releasing the lease, which outlasts the put. The mutant retries it like any other call.
* `SidecarFirst`: somebody else's ingestion may start at any time and never finds data without its identity.
* `Settles` (of Indexing): through lost records, killed ticks, failed ingestions and exhausted members a source ends
  settled on its last revision; one that cannot be projected, or was deleted, ends without vectors. A source that is deleted before it ever had a job is
  left out: no scan lists it, so a vector of the former indexer without an object in the bucket stays. Its stream record finds it, if it arrives.

Each property is refuted by at least one mutated definition in `PROJECT.json`, under the
same configuration.

What a run leaves to the theorems or leaves open:

* `upload_parts` has one batch, so it does not show that a late part of an earlier batch stays uncounted; the code counts it (below).
* `analyses_redelivered` has two workers for re-summaries and one extractor: of `OneWorkerPerRun` it exercises the half of the re-summary.
  `OneWorkerHolds` has any number of either.
* `indexing` has no ingestion of somebody else, which with two resources and two ticks is too large for a run. `SettledServed`,
  `BucketFrozen` and `SidecarsFirst` are proved with any number of them.

### Where a comment and the code disagree

The models have behaviours that a comment, a decision record or a document of the repository excludes. They
have no run: a run of this project asks what holds.

* After a batch of several files a shorter batch on the same meeting never merges: the old last part is still listed, and
  `mergePartTranscripts` wants exactly the announced number (`B/cmd/summarize/merge.go:65-70`), while
  `B/internal/repository/dynamodb.go:1334-1335` says that a new batch reprocesses "cleanly";
* the completion of a file of a finished batch, sent again after a lost reply, resets the meeting to transcribing: the gate of
  `PreAllocateAudioKeys` looks at the status only (`dynamodb.go:1352`; the comment above it speaks of "only an intentional re-upload");
* a merge that fails marks the row as error before it returns the error that is meant to be retried
  (`B/cmd/summarize/main.go:622`, `merge.go:61-64`); the retry is refused by the status guard;
* giving up does not ask whether a task still runs: a run slower than its deadline is marked `RECOVERY_EXHAUSTED`, and its
  transcript, when it comes, is skipped (`B/cmd/transcribe/recovery.go:239`; ADR-031, line 49);
* a late repeat of the first file's completion, after a second file was bound, binds the first one again and resets the
  meeting (`dynamodb.go:1402`, against the comment at 1388-1391);
* moving an account checks the depth above it and not below: its descendants can end up deeper than the 64 levels of
  `docs/API-SPEC.md:691` (`B/internal/repository/account_hierarchy.go:20`), which no later move of theirs can walk;
* "recheck expiry ... at commit time" (`B/internal/repository/project_invitation.go:171`) compares the expiry with a clock read
  before the transaction;
* a transcript edit that passed its status check is written after the row went back to transcribing
  (`B/internal/service/meeting.go:851-858`);
* the no-speech mark is a call after the object check, and its condition pins only the row: a
  transcript replaced in between leaves the row marked from the old bytes (`B/cmd/summarize/transcript_quality.go:338-342`);
* a transcript without speech of an earlier file, delivered after another file was bound, marks the newer row `NO_SPEECH`: the mark is
  fenced by the row and not by the audio of the transcript (`B/cmd/summarize/transcript_quality.go:338-342`). The transcript of the newer file is then skipped, and
  its recording, speech or not, is deleted after the grace period;
* a part of a previous batch that is transcribed late is counted and merged as the new batch's, and an error
  mark between two files of one batch lets the second file's completion erase the first one's slot (`B/internal/repository/dynamodb.go:1334-1352`);
* a rediarized meeting whose restarted run dies is hidden from recovery by the terminal mark of the run
  before, once a read has flipped it to `error` (`B/internal/service/stt_recovery.go:185`; ADR-031, Failure codes);
* a failing rediarization task marks the row of a newer upload, since a copy's mark is not fenced by the
  audio key (`B/whisper/transcribe.py:408-419`);
* an audio file bound between the re-drive's claim and its copy: the old audio's transcript is emitted
  again on a row that waits for the new one's (`B/cmd/transcribe/recovery.go:399-412`).

### Bounds, and why they are enough

* Two invocations: every race in the code is between a holder and one other writer,
  and workers that have returned are reused, so a behaviour contains any number of
  invocations, two at a time. The theorems cover more.
* `MaxSummaryRetries` 2 is the code's own number, `AsyncRetries` 2 Lambda's. The smaller runs use
  1, which still has a first attempt, a resumption and an exhausted budget.
* Durations. Only their order matters: the Lambda timeout is within the claim's time to live,
  within the legacy threshold, and well within the stuck threshold. They become 1, 1, 1 and 2.
* `MaxEvents` and `MaxUploads` bound owner actions, duplicated deliveries and stored objects. Two
  owner actions are enough to move a row away and back, which is the shape of every fence
  failure known here; two objects are enough for one to supersede the other.
* Multi-part: two parts already have an incomplete and a complete count and two invocations that
  race for the claim.
  `EmitComplete` is checked and proved for batches of one size; with mixed sizes it
  is false in the code, because nothing in a part's key or count says which batch it is of.
* Recovery's durations: only their order matters to the code (timeout 5 minutes < retry delay 15 <= re-drive
  age 20 <= stuck threshold 60 <= deadline 75 <= grace of 7 days), and `DurationAssumption` says just that. They become 0, 1, 1, 1, 1 or 2, and
  1 or 2; the theorems hold for every choice. `MaxFaults` counts failing calls, dying
  tasks and killed ticks together, also another meeting's task in the cluster; one suffices for every known
  violation; the theorems have any number. `Acts` names the owner actions a run
  is about, so that a run on deletion is not spent on re-uploads.
* `recovery_replaced` has no failing call: two files, their tasks and a tick that reads between them are the
  case it is about; `recovery_claims` has the faults, with one file.
* AccountHierarchy: a cycle needs two moves that overlap, and two accounts are enough for one; entitlement that is lost between a walk and
  its commit needs a second user. Longer chains of ancestors are in the theorems, which have any number of accounts.
* ProjectInvitation: a second invitation is needed to replace the first, a second subject to take over an
  address, two revisions to pause and resume. Operators act one after another, or interrupted, in the run; the theorems have any number.
* SummaryAnalyses: a tick is at risk between the extraction a meeting begins with and one more, over one change of the summary: two generations and one run of each. `analyses` has one worker of a kind, `analyses_redelivered` two.
* Indexing: a tick may live 1 unit and the lease is 2 (10 minutes and 20), a member has 2 attempts instead of 3. Two ticks overlap
  only while one has nothing to say any more, which is what `Frozen` is about. One fault suffices to fail a batch or
  an ingestion; identities of runs are reused when nothing names them any more, so behaviours are unbounded with 5 of them. One
  resource is enough for `Settles`: members wait for each other only in the batch, whose attempts are counted per member.
* MultipartUpload's run does not check for deadlock: a meeting whose uploads are spent
  legitimately stops. The others do: time never stops in MeetingSummary and SttRecovery, and requests keep coming in the rest
  (`SummaryAnalyses` and `ProjectInvitation` stay able to read when their bounds are spent).

### Fairness

`FairSpec` assumes as little as the product can promise. Time passes; Lambda kills
an invocation at its timeout (`TimesOut`); and somebody keeps opening the meeting
(`DetailRead`; the detail page polls an active meeting for five minutes at a time, and is where the user looks for it again).
No delivery has to arrive and no call has to succeed: an invocation may crash at each
attempt. Detail reads being the only thing to rely on is what the comments at
`B/internal/service/meeting.go:35-72` claim for them.

`FairSpec` of SttRecovery: ticks keep being scheduled, a tick, a task, a start and a summarize
invocation that were begun end in some way (weak fairness of each as a whole, not of its
success), and time passes. Time needs strong fairness because it may not pass while a tick is
at its timeout, and 15 minutes between ticks are what justifies it. Failures are bounded by
`MaxFaults`, which says that from some point on calls succeed; without that a
cluster that is always busy defers recovery for ever, as ADR-031 says. Nothing is expected of the
owner or of detail reads.

`FairSpec` of Indexing: ticks keep being scheduled and go on (weak fairness of a tick's work as a whole), an ingestion
ends, an uncertain put lands or does not, cooldowns pass, and time passes (strongly, for the same reason). Faults, edits, stream records and foreign
ingestions are bounded: a record that is repeated for ever may each time rewrite a job between the read and the write that begins its preparation. Nothing is expected of the stream: its records may all be lost, as they are after 24 hours, and
reconciliation has to find every change by itself.

## 4. Proofs

TLAPS checks the seven proof modules to the last leaf. Assumptions on constants are
`BoundAssumption` (the bounds are naturals, and SttRecovery's re-drive budget is positive) and `DurationAssumption` (the Lambda timeout is
positive and within the claim's time to live and the stuck threshold, both true of the deployed
values; for SttRecovery the order of its six durations; for Indexing a tick's timeout below the lease). AccountHierarchy needs `None` and `Unread` to be no accounts,
ProjectInvitation its identities to be pairs of an address and a subject, Indexing that "none" is neither a tick nor a resource and that a member has at least one attempt. Workers, ticks, requests, accounts, users, operators, tasks, resources and run identities are any
sets; nothing assumes them finite.

| Theorem | Argument |
|---|---|
| `MeetingSummary_proofs!TypeCorrect` | one lemma for the row, one for the invocations, one for the ages |
| `LeaseHolds` | `LeaseInv` is inductive as it stands: `Owned` (claims are unique and never reissued), `Young` (nothing about a held claim is older than its holder, because the claim was written by it and time stops for no one) and `Fenced` (a row without the retry marker is prepared only by the invocation that reclaimed it). The last part is the one that a proof of `Young` alone lacks: `Start` replaces a claim by a fence and not by its age, and `Fenced` says that the claim it replaces is its own |
| `LiveBatchSafe` | from `Young` and `DurationAssumption` |
| `LeaseIsRespected` | a claim of a summarizing row is changed by its holder, or by age, and then nobody alive holds it |
| `SpendHolds` | `SpendInv` relative to `LeaseInv`: an invocation that holds the claim before its generation has not spent it yet |
| `DoneIsNotPending` | relative to the type invariant |
| `OwnerContentIsKept` | `EditInv`: while the content is what a batch captured (its hash, or the snapshot of an invocation that prepares one) nobody has edited it since; every text carries a number, so an edit is never a text somebody captured; a claim that can still publish has its text nowhere yet; and a generation starts only from a snapshot whose content is its hash. The steps are first reduced to a few effects on row and snapshot (`BatchStep`, `Elsewhere`) |
| `SummariesMatch` | only a holder publishes under its claim, and its fence pins the transcript of its snapshot |
| `MultipartUpload_proofs!TypeCorrect` | by the part path, the merge path and the rest |
| `PublicationIsOnce` | `PublishedInv`: once an allocation is started its status is neither recording nor transcribing until the next allocation, and a snapshot in use was taken while transcribing; so the fence, which pins the status, refuses the second start |
| `EmissionIsComplete` | for batches of one size n. `EmitInv(n)`: only parts below n exist; a part is in the ready set, and an invocation is about to count it, only after its transcript was stored; whoever saw the counter full saw a set of n of the n possible parts, which is all of them (the cardinality step) |
| `SttRecovery_proofs!TypeCorrect` | together with `Pending`, which says what a tick at a step has seen: whoever is about to claim saw budget left, which is what keeps the counters within it when the claim's condition pins them |
| `ChargesHold` | a claim writes what the tick saw plus one, and its condition says that the row still holds what the tick saw |
| `DeletionsHold` | `OrderInv`: timestamps never exceed the clock; a current mark means the row is untouched since it; a tick's observation is the row as it is or older than its last write; and a tick in the delete pass saw a deletable mark past its grace period. The transaction's condition pins the mark, so the observation was not older, and ages only grow |
| `ObjectsHold` | `CleanupInv`: whoever is at the object cleanup knows the row is gone, and gone is for good |
| `OneRunHolds` | `SoloInv`, on top of `OrderInv`: while a tick is between its claim and RunTask, the claim is no older than the tick, hence not overdue for another tick, and the observation of every tick on its way to a claim is stale; while a recovery task exists nobody is at RunTask. It uses that the timeout is shorter than the retry delay |
| `GivingUpHolds` | `ExhaustionsDue`: whoever is about to give up saw a spent budget; the mark's condition pins what it saw, and `AttemptsCharged` says that the attempts on the row are the claims of its audio. With a budget of zero there would be no claim to compare with, hence the positive bound |
| `SpeechIsKept` | for one audio file. `SpeechInv`: a deletable code is only on a row that has the file, and only when the file has no speech; the same of every code a task or a summarizer holds, and of every transcript without text. With several files it does not hold: see the disagreements |
| `AccountHierarchy_proofs!HierarchyIsAcyclic` | acyclicity is stated as "every nonempty set of accounts has a member whose parent is outside", which needs no induction. Relative to it: the accounts on a checked walk are above the new parent and none is the moved one, so a set closed under the new links would have been closed before |
| `ReferencesAreCurrent`, `BootstrapIsComplete` | a move pins the parent whose reference it removes; for the job, a link without reference is of an account still to be scanned, or on the page with its present parent |
| `EditsAreEntitled` | the accounts walked, with their checked links, lead from the account to the one that grants: any set closed upwards from the account contains the granting one |
| `ProjectInvitation_proofs!NothingResurrects` | `GInv`: a dead invitation is in no queue, or its subject's row names another, and a removed subject's row is gone before anything newer takes its place |
| `PendingIsVisible` | the queue row and the owner's row are written together and cleared together, by writers that compare the version; only expiry separates them |
| `OldEpochIsGone`, `DrainIsLasting` | `CInv`: revisions are never reused; a scanning operator whose pause still stands has seen every address outside `todo` empty, and while paused nobody can fill it |
| `SummaryAnalyses_proofs!TicksAreKept`, `AnswersAreCurrent`, `ResummaryIsCurrent` | `IInv` of four parts: types, rows (a row's run was issued; a lease belongs to a pending run), marks (`TicksKept` and what a worker read of the tasks), processes (what each holds was once in the row) |
| `OneWorkerHolds` | a worker past the start holds the run as "running", and the step that let it in found it "queued", which it never is again |
| `ResummaryImplementsRun`, `ActionItemsImplementsRun` | initial states map to `Absent`; every action of the module maps to one of AnalysisRun's or a stutter, case by case |
| `Indexing_proofs!TypeCorrect` | `TypeInv` adds what a tick needs at its step (`Equipped`): a member it handles, a readable revision where it plans or settles, a key where it puts |
| `BucketFrozen` | `Phases`: a live tick owns the lease, and what is left of it plus the tick's age is at least the whole lease, which is longer than a tick may live; so at most one tick lives, and while a put may still land none does (`LeaseHeld`). Its step fixes the phase of the control row (`PhaseOfStep`) and the phase what the provider's job may be (`PhaseOfSync`): who could change the bucket is exporting, and the job of the batch is not at work then |
| `Inductive` | `Phases` and `Members`, described below |
| `SidecarsFirst` | a conjunct of `Members` |
| `SettledServed` | `Served`, of every settled job, is a conjunct of `Members` |
| `SettledCurrently` | only `Settle` makes a job settled, and its condition repeats the record that the tick read; every other step leaves it settled or unsettles it |

`Members` of Indexing, the invariant with the most to it, says what each party may rely on while the others work:

* `Local`, of a tick: the row it holds is its own last write, except that somebody may have asked for the job again,
  and nobody is shown it (`Holding`, `Modes`); how far its projection is in the bucket at each step, and that
  what it has recorded to disappear covers all data it did not mean to keep, before the first deletion (`Staging`); and what the provider told it of a
  member is still true as long as the row is the one it read (`Finalizing`).
* `RowInv`, of a row: a row that waits for the provider or is settled has exactly its projection in the bucket (`Exposures`);
  an ingestion at work found exactly that, and a complete one left it (`Waiting`, `Served`); and every document in the knowledge base, or that an ingestion
  at work may leave there, is a key of the row, recorded to disappear, the former indexer's, or still in the bucket (`Tracked`). Without the last part an ingestion of somebody else,
  begun before a deletion and ended after it, could bring back a document nobody asks for any more.
* `MembersFit`: a member of a batch, in the control row or carried by a tick, is the job the batch prepared or one that
  has moved on; a new run is new because `InUse` names these places.
* `Late` and `SidecarFirst`: a put that may still land is of a row nobody is shown, and its sidecar is there before its data.

The proof first reduces every action to its effect on ticks, row, bucket and provider (`TakeEffect` and `BeginEffect` to `SettleEffect`), then
shows each part from the effects, with one lemma for each part an effect can disturb.

TLC checked `TypeInv /\ IInv` before the proof: to the end with the constants of `indexing_settles` (0.9 million states) and of `indexing` with one stream record (1.0 million). An
earlier form of the module, in which `Take` and `Begin` were one step, was searched over 14.6 million states, not to the end, of one resource and one tick with two edits, two faults, an ingestion of somebody else and every
legacy.

The inductive invariants `IInv` of SummaryAnalyses, `TInv`, `GInv`, `CInv` of ProjectInvitation and
`EditInv` of MeetingSummary were checked by TLC before they were proved.

Only model-checked: `Settles` of MeetingSummary, SttRecovery and Indexing, since liveness under fairness is outside what the
prover does. Every invariant, action property and refinement that a run checks is also a theorem (`EmitComplete` for batches of one size, `SpeechNeverDeleted` for one audio file, as the table says). `TypeOK` of AccountHierarchy, ProjectInvitation and SummaryAnalyses
is proved and has no run of its own.

## 5. Not modelled

* Of STT recovery: report mode, rows that are only reported (several files, checkpoint only, other providers),
  the budgets of one tick over several meetings, and the owner's `RecoverMeeting`. Rows in a summary
  state or with an audio crop are excluded by the code before anything else and do not occur in
  the model. MeetingSummary has only the delivery that a redrive causes; the two modules meet in the
  row's status, and each has the other's writes as environment actions.
* MeetingSummary has no re-summary among its writers: a re-summary is refused unless the meeting is done or failed, and SummaryAnalyses has the
  pipeline's writes in their place.
* Of the analyses: notes, transcripts, attachments and their S3 objects, which are further parts of the same fingerprint and checks;
  renamed speakers; the deletion of the meeting; a grant through an account team; tasks that cannot be told apart; the terms queue and the simulator's run row.
* Of accounts: reads, which resolve a grant and look at it again after; the verify pass of the bootstrap job; role changes, invitations, documents and insights.
* Of invitations: links of meetings and research to a project (they only make `DeleteProject` refuse), list cursors, the mail.
* Of indexing: the rollout modes and their check against the control row, `Status`, private and shared knowledge-base sources (whose projections
  sit beside an original that is never touched), the version a request without a revision adds to a pending row it leaves as it was (a save the code
  then refuses succeeds in the model, with the outcomes of one that came first), cursors and pages of at most four jobs, projections of several parts.
* Shares and pending shares of meetings and accounts, attachment text, dictionary, research, simulator, Q&A, connectors: see the plan, and the notes in `PROJECT.json`.
* `DeleteMeeting`: every condition on a deleted item fails, so it only removes behaviour.
* Audio crop's row writes, which happen on meetings that have ended and re-bind the audio as `BindMeetingAudioKey` does.
* Transcript refinement, account context, dictionary, the action and terms hooks, the prompt, retries inside the
  model call: data, or calls whose failure is the failure of the generation.
* Presigned URLs, validation, and the merge's arithmetic of offsets and speakers.
* Consistency. Reads by key are strongly consistent or take part in a condition, as in
  the code; the one read through a secondary index (`handlePartTranscript`'s owner lookup) may fail, which drops the delivery.
* S3 ETags are unique per put. The code treats them so.

## 6. Plan

Done: the three modules of the pipeline, AccountHierarchy, ProjectInvitation, SummaryAnalyses with the refinement of AnalysisRun, Indexing,
each with the theorems of section 4.
What is next, in order of what is at stake:

1. `SummaryLease`, an abstract specification (a batch is idle, held, or interrupted; a holder publishes, preserves or
   gives up; a budget is spent), implemented by MeetingSummary under a refinement mapping of `row` and `wk`.
2. Shares and pending shares of meetings and accounts (`B/internal/service/meeting.go`, `B/internal/repository/dynamodb.go`), which claim at first login as
   project invitations do, and the cascade of `RemoveMember`; then reads of the hierarchy.
3. `AttachmentText` (one lease, two implementations), as a further row under AnalysisRun; the private and shared sources of Indexing.
4. MultipartUpload: liveness of a batch (a crash between the emit claim and the emission
   with every retry inside the claim's time to live), under the fairness of the event source.
5. The budgets of a recovery tick over two meetings and the one cluster they share.
