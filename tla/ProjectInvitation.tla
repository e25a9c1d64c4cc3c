------------------------- MODULE ProjectInvitation -------------------------
(***************************************************************************)
(* Invitations to a project, and the pause an operator puts on them.       *)
(*                                                                         *)
(* An invitation is three rows, written in one transaction: the queue of   *)
(* the invited address, the reverse row the owner lists, and the subject   *)
(* row that binds the invited identity.  The first verified login of that  *)
(* identity turns it into a membership; the owner may revoke it, invite    *)
(* again, add or remove the member by hand, or delete the project, and     *)
(* every row expires on its own.  Before a rollback an operator pauses     *)
(* invitations with a control row that each write checks, and drains the   *)
(* queue; after it another command resumes on an empty queue.              *)
(*                                                                         *)
(* One project. Its owner never changes.                                   *)
(***************************************************************************)
EXTENDS Naturals, Sequences, FiniteSets

CONSTANTS
    Emails, Subs,
    Identities,     \* the pairs of address and sub Cognito may answer, over time
    Requests,       \* API requests that can be in flight at once
    Operators,      \* runs of prepare-project-invite-rollback at once
    MaxInvites,     \* bound: invitations
    MaxRevs         \* bound: writes of the control row

ASSUME IdentityAssumption == Identities \subseteq Emails \X Subs
ASSUME BoundAssumption == MaxInvites \in Nat /\ MaxRevs \in Nat

VARIABLES
    live,      \* the project has a CONFIG row
    member,    \* the subs with a MEMBER row
    queue,     \* the queue row of each address: the invitation, or 0
    reverse,   \* the owner's row for each address
    subject,   \* the INVITE_SUB row of each sub
    letter,    \* the invitations, whose number stands for createdAt: what each says, and
               \* the control revision it was made under
    expired,   \* invitations past their TTL
    control,   \* the control row; revision 0 when there is none yet
    revs,      \* how many revisions were written
    req,       \* the local state of each request
    op,        \* the local state of each operator command
    granted,   \* history: the invitations that became a membership
    dead       \* history: those that were revoked, or queued for a member when removed

rows  == <<queue, reverse, subject>>
stamp == <<letter, expired>>
pause == <<control, revs>>
past  == <<granted, dead>>
vars  == <<live, member, rows, stamp, pause, req, op, past>>

Id  == 1 .. MaxInvites
Rev == 0 .. MaxRevs

Letter == [email: Emails, sub: Subs, rev: Rev]

Request == [pc: {"idle"}]
      \cup [pc: {"control"}, email: Emails, sub: Subs]
      \cup [pc: {"list"}, email: Emails, sub: Subs]
      \cup [pc: {"put", "claim", "retire", "revoke"}, n: Id]
      \cup [pc: {"delete"}]

Operator ==
    [pc: {"off", "fence", "confirm", "check", "act", "verify", "last", "done"},
     on: BOOLEAN, rev: Rev, todo: SUBSET Emails, page: SUBSET Id]

Idle == [pc |-> "idle"]
Off  == [pc |-> "off", on |-> FALSE, rev |-> 0, todo |-> {}, page |-> {}]

Init ==
    /\ live = TRUE /\ member \in SUBSET Subs
    /\ queue = [e \in Emails |-> 0] /\ reverse = [e \in Emails |-> 0]
    /\ subject = [s \in Subs |-> 0]
    /\ letter = <<>> /\ expired = {}
    /\ control = [on |-> TRUE, rev |-> 0] /\ revs = 0
    /\ req = [r \in Requests |-> Idle] /\ op = [o \in Operators |-> Off]
    /\ granted = {} /\ dead = {}
-----------------------------------------------------------------------------
(* The three rows. *)

Sent == 1 .. Len(letter)

\* projectPendingDeletes: this version, and a reverse row of it or none.
Matches(n) == LET e == letter[n].email IN queue[e] = n /\ reverse[e] \in {0, n}

ClearPair(n) == /\ queue' = [queue EXCEPT ![letter[n].email] = 0]
                /\ reverse' = [reverse EXCEPT ![letter[n].email] = 0]

\* Mutants: a writer that only looked at the control row before its transaction, and one
\* that takes the fence of a claim.
FenceOfNobody(k) == k \in Rev
FenceOfAnyRevision(k) == control.on /\ k \in Rev

\* projectInvitationFence of a writer that read revision k.
FenceOf(k) == control.on /\ control.rev = k

\* projectInvitationFence(nil)
FenceOpen == control.on

\* Mutant: the reverse row goes whatever its version.
DeleteIfMatchAndReverse(n) ==
    /\ queue' = IF Matches(n) THEN [queue EXCEPT ![letter[n].email] = 0] ELSE queue
    /\ reverse' = [reverse EXCEPT ![letter[n].email] = 0]

\* DeletePendingProjectShareIfMatch
DeleteIfMatch(n) == IF Matches(n) THEN ClearPair(n) ELSE UNCHANGED <<queue, reverse>>
-----------------------------------------------------------------------------
(* The owner. *)

Start(r, q) == req[r] = Idle /\ req' = [req EXCEPT ![r] = q]
Become(r, q) == req' = [req EXCEPT ![r] = q]
Answer(r) == Become(r, Idle)

\* AddMember, up to the lookups.
AddMember(r) ==
    /\ live
    /\ \E i \in Identities :
          i[2] \notin member /\ Start(r, [pc |-> "control", email |-> i[1], sub |-> i[2]])
    /\ UNCHANGED <<live, member, rows, stamp, pause, op, past>>

\* GetProjectInvitationControl, then the rows are made out.
ReadControl(r) ==
    /\ req[r].pc = "control"
    /\ IF control.on
       THEN /\ Len(letter) < MaxInvites
            /\ letter' = Append(letter, [email |-> req[r].email, sub |-> req[r].sub,
                                         rev |-> control.rev])
            /\ Become(r, [pc |-> "put", n |-> Len(letter) + 1])
       ELSE Answer(r) /\ UNCHANGED letter
    /\ UNCHANGED <<live, member, rows, expired, pause, op, past>>

\* The transaction of PutPendingProjectShare replaces what the address had. A recipient
\* who is registered and verified gets the membership in the same request.
PutPendingProjectShare(r) ==
    /\ req[r].pc = "put"
    /\ LET n == req[r].n
           l == letter[n] IN
       IF live /\ l.sub \notin member /\ FenceOf(l.rev)
       THEN /\ queue' = [queue EXCEPT ![l.email] = n]
            /\ reverse' = [reverse EXCEPT ![l.email] = n]
            /\ subject' = [subject EXCEPT ![l.sub] = n]
            /\ Answer(r) \/ (n \notin expired /\ Become(r, [pc |-> "claim", n |-> n]))
       ELSE Answer(r) /\ UNCHANGED rows
    /\ UNCHANGED <<live, member, stamp, pause, op, past>>

\* AddMember of a client that knows no pending members: one transaction, which checks
\* what was looked up.
PutRegisteredProjectMember ==
    /\ live
    /\ \E i \in Identities :
          /\ i[2] \notin member /\ queue[i[1]] = 0
          /\ member' = member \cup {i[2]} /\ subject' = [subject EXCEPT ![i[2]] = 0]
    /\ UNCHANGED <<live, queue, reverse, stamp, pause, req, op, past>>

QueuedFor(s) == {n \in Sent : letter[n].sub = s /\ queue[letter[n].email] = n}

\* DeleteProjectMember, whether there is such a member or not. It is not conditional: the
\* project may be gone since its owner was read.
RemoveMember ==
    /\ \E s \in Subs :
          /\ member' = member \ {s} /\ subject' = [subject EXCEPT ![s] = 0]
          /\ dead' = dead \cup QueuedFor(s)
    /\ UNCHANGED <<live, queue, reverse, stamp, pause, req, op, granted>>

\* RevokePendingMember reads the row, then the transaction.
ReadPending(r) ==
    /\ live /\ \E e \in Emails : queue[e] # 0 /\ Start(r, [pc |-> "revoke", n |-> queue[e]])
    /\ UNCHANGED <<live, member, rows, stamp, pause, op, past>>

RevokePendingProjectShare(r) ==
    /\ req[r].pc = "revoke"
    /\ LET n == req[r].n IN
       IF live /\ Matches(n) /\ letter[n].sub \notin member
       THEN ClearPair(n) /\ dead' = dead \cup {n}
       ELSE UNCHANGED <<queue, reverse, dead>>
    /\ Answer(r) /\ UNCHANGED <<live, member, subject, stamp, pause, op, granted>>

\* ListPendingProjectShares comes to a row that expired.
ListPendingProjectShares(r) ==
    /\ live
    /\ \E e \in Emails : /\ queue[e] # 0 /\ reverse[e] = queue[e] /\ queue[e] \in expired
                         /\ Start(r, [pc |-> "retire", n |-> queue[e]])
    /\ UNCHANGED <<live, member, rows, stamp, pause, op, past>>

\* DeleteProject: the list of members is read well before the CONFIG row goes.
ListProjectMembers(r) ==
    /\ live /\ member = {} /\ Start(r, [pc |-> "delete"])
    /\ UNCHANGED <<live, member, rows, stamp, pause, op, past>>

DeleteProject(r) ==
    /\ req[r].pc = "delete" /\ live' = FALSE /\ Answer(r)
    /\ UNCHANGED <<member, rows, stamp, pause, op, past>>
-----------------------------------------------------------------------------
(* The invited person. *)

\* BootstrapSession, when invitations are allowed.
Bootstrap(r) ==
    /\ control.on
    /\ \E i \in Identities : Start(r, [pc |-> "list", email |-> i[1], sub |-> i[2]])
    /\ UNCHANGED <<live, member, rows, stamp, pause, op, past>>

\* bootstrapProjectInvitations: the row as read; an expired one is cleaned, another
\* identity's is left.
ReadQueue(r) ==
    /\ req[r].pc = "list"
    /\ LET n == queue[req[r].email] IN
       IF n \in expired THEN Become(r, [pc |-> "retire", n |-> n])
       ELSE IF n # 0 /\ letter[n].sub = req[r].sub THEN Become(r, [pc |-> "claim", n |-> n])
       ELSE Answer(r)
    /\ UNCHANGED <<live, member, rows, stamp, pause, op, past>>

\* Mutant: a claim that does not look at the subject row.
GrantHoldsForAnySubject(n) == Matches(n)

\* What the transaction asks of the row itself. Its expiry was compared with a clock read
\* before, as the row was.
GrantHolds(n) == Matches(n) /\ subject[letter[n].sub] = n

\* MaterializePendingProjectGrant
MaterializePendingProjectGrant(r) ==
    /\ req[r].pc = "claim"
    /\ LET n == req[r].n
           s == letter[n].sub IN
       IF live /\ s \notin member /\ GrantHolds(n) /\ FenceOpen
       THEN /\ member' = member \cup {s} /\ ClearPair(n)
            /\ granted' = granted \cup {n} /\ Answer(r)
       ELSE /\ IF FenceOpen /\ (~live \/ s \in member \/ subject[s] # n)
               THEN Become(r, [pc |-> "retire", n |-> n])
               ELSE Answer(r)
            /\ UNCHANGED <<member, queue, reverse, granted>>
    /\ UNCHANGED <<live, subject, stamp, pause, op, dead>>

Retire(r) ==
    /\ req[r].pc = "retire" /\ DeleteIfMatch(req[r].n) /\ Answer(r)
    /\ UNCHANGED <<live, member, subject, stamp, pause, op, past>>

\* A failing call, or the end of the Lambda.
Return(r) ==
    /\ req[r] # Idle /\ Answer(r)
    /\ UNCHANGED <<live, member, rows, stamp, pause, op, past>>
-----------------------------------------------------------------------------
(* Time: the table drops the rows of an expired invitation one by one, at leisure. *)

Expire ==
    /\ \E n \in Sent \ expired : expired' = expired \cup {n}
    /\ UNCHANGED <<live, member, rows, letter, pause, req, op, past>>

Reap ==
    /\ \/ \E e \in Emails : queue[e] \in expired /\ queue' = [queue EXCEPT ![e] = 0]
                            /\ UNCHANGED <<reverse, subject>>
       \/ \E e \in Emails : reverse[e] \in expired /\ reverse' = [reverse EXCEPT ![e] = 0]
                            /\ UNCHANGED <<queue, subject>>
       \/ \E s \in Subs : subject[s] \in expired /\ subject' = [subject EXCEPT ![s] = 0]
                          /\ UNCHANGED <<queue, reverse>>
    /\ UNCHANGED <<live, member, stamp, pause, req, op, past>>
-----------------------------------------------------------------------------
(* The operator's command. *)

Apart == <<live, member, stamp, req, past>>

Move(o, c) == op' = [op EXCEPT ![o] = c]
Stop(o) == Move(o, Off)

\* ops.fence at the beginning: prepare takes any revision, resume only a paused one and
\* looks through the queue first.
Prepare(o) ==
    /\ op[o].pc \in {"off", "done"}
    /\ Move(o, [Off EXCEPT !.pc = "fence", !.rev = control.rev])
    /\ UNCHANGED <<Apart, rows, pause>>

Resume(o) ==
    /\ op[o].pc \in {"off", "done"} /\ ~control.on
    /\ Move(o, [Off EXCEPT !.pc = "verify", !.on = TRUE, !.rev = control.rev, !.todo = Emails])
    /\ UNCHANGED <<Apart, rows, pause>>

Scanning(c, k) == [c EXCEPT !.pc = IF c.on THEN "done" ELSE "check",
                            !.rev = k, !.todo = IF c.on THEN {} ELSE Emails]

\* SetProjectInvitationControl on the revision that was read. When the reply is lost the
\* command compares the row with what it wrote.
SetProjectInvitationControl(o) ==
    /\ op[o].pc = "fence" /\ revs < MaxRevs
    /\ IF control.rev = op[o].rev
       THEN /\ control' = [on |-> op[o].on, rev |-> revs + 1] /\ revs' = revs + 1
            /\ \/ Move(o, Scanning(op[o], revs + 1))
               \/ Move(o, [op[o] EXCEPT !.pc = "confirm", !.rev = revs + 1])
       ELSE Stop(o) /\ UNCHANGED pause
    /\ UNCHANGED <<Apart, rows>>

ConfirmFence(o) ==
    /\ op[o].pc = "confirm"
    /\ IF control = [on |-> op[o].on, rev |-> op[o].rev]
       THEN Move(o, Scanning(op[o], op[o].rev)) ELSE Stop(o)
    /\ UNCHANGED <<Apart, rows, pause>>

Paused(o) == ~control.on /\ control.rev = op[o].rev

\* check(), before a page and before a removal.
Check(o) ==
    /\ op[o].pc = "check"
    /\ IF Paused(o) THEN Move(o, [op[o] EXCEPT !.pc = "act"]) ELSE Stop(o)
    /\ UNCHANGED <<Apart, rows, pause>>

\* The rows of the page are gone: read another, or look through the queue from the start.
Turn(c) == IF c.page # {} \/ c.todo # {}
           THEN [c EXCEPT !.pc = "check"]
           ELSE [c EXCEPT !.pc = "verify", !.todo = Emails]

ScanPage(o) ==
    /\ op[o].pc = "act" /\ op[o].page = {}
    /\ \E S \in SUBSET op[o].todo \ {{}} :
          Move(o, Turn([op[o] EXCEPT !.todo = @ \ S, !.page = {queue[e] : e \in S} \ {0}]))
    /\ UNCHANGED <<Apart, rows, pause>>

\* A row that changed since the page was read ends the command.
RemovePending(o) ==
    /\ op[o].pc = "act"
    /\ \E n \in op[o].page :
          /\ DeleteIfMatch(n)
          /\ IF Matches(n) THEN Move(o, Turn([op[o] EXCEPT !.page = @ \ {n}])) ELSE Stop(o)
    /\ UNCHANGED <<Apart, subject, pause>>

\* scanEmpty, and the last check of prepare.
ScanEmpty(o) ==
    /\ op[o].pc = "verify"
    /\ \E e \in op[o].todo :
          IF queue[e] # 0 THEN Stop(o)
          ELSE LET c == [op[o] EXCEPT !.todo = @ \ {e}] IN
               Move(o, IF c.todo # {} THEN c
                       ELSE [c EXCEPT !.pc = IF c.on THEN "fence" ELSE "last"])
    /\ UNCHANGED <<Apart, rows, pause>>

LastCheck(o) ==
    /\ op[o].pc = "last"
    /\ IF Paused(o) THEN Move(o, [op[o] EXCEPT !.pc = "done"]) ELSE Stop(o)
    /\ UNCHANGED <<Apart, rows, pause>>

\* A failing call, or the operator's interrupt.
Interrupt(o) ==
    /\ op[o].pc \notin {"off", "done"} /\ Stop(o)
    /\ UNCHANGED <<Apart, rows, pause>>
-----------------------------------------------------------------------------
Next ==
    \/ \E r \in Requests :
          \/ AddMember(r) \/ ReadControl(r) \/ PutPendingProjectShare(r)
          \/ ReadPending(r) \/ RevokePendingProjectShare(r) \/ ListPendingProjectShares(r)
          \/ ListProjectMembers(r) \/ DeleteProject(r)
          \/ Bootstrap(r) \/ ReadQueue(r) \/ MaterializePendingProjectGrant(r)
          \/ Retire(r) \/ Return(r)
    \/ PutRegisteredProjectMember \/ RemoveMember \/ Expire \/ Reap
    \/ \E o \in Operators :
          \/ Prepare(o) \/ Resume(o) \/ SetProjectInvitationControl(o) \/ ConfirmFence(o)
          \/ Check(o) \/ ScanPage(o) \/ RemovePending(o) \/ ScanEmpty(o) \/ LastCheck(o)
          \/ Interrupt(o)

Spec == Init /\ [][Next]_vars
-----------------------------------------------------------------------------
TypeOK ==
    /\ live \in BOOLEAN /\ member \subseteq Subs
    /\ letter \in Seq(Letter) /\ Len(letter) <= MaxInvites /\ expired \subseteq Sent
    /\ queue \in [Emails -> Sent \cup {0}] /\ reverse \in [Emails -> Sent \cup {0}]
    /\ subject \in [Subs -> Sent \cup {0}]
    /\ control \in [on: BOOLEAN, rev: Rev] /\ revs \in Rev
    /\ req \in [Requests -> Request] /\ op \in [Operators -> Operator]
    /\ granted \subseteq Sent /\ dead \subseteq Sent

\* An invitation the owner revoked, or that was queued for a member who was removed, never
\* makes a member, whoever read it before (project_invitation.go:196).
NoResurrection == granted \cap dead = {}

\* While invitations are open, the queue holds only invitations made since they were last
\* opened: a request delayed over a pause and a resumption does not publish, and no
\* drain is left half done (project_invitation.go:409, runbook of the rollback).
QueueOfThisEpoch ==
    control.on => \A e \in Emails : queue[e] # 0 => letter[queue[e]].rev = control.rev

\* When the command reported that the queue is drained, it stays so for as long as its
\* pause does.
DrainHolds ==
    \A o \in Operators :
        op[o].pc = "done" /\ ~op[o].on /\ Paused(o) => \A e \in Emails : queue[e] = 0

\* What can still be claimed is on the owner's list, to be seen and revoked.
VisibleToOwner ==
    \A e \in Emails : queue[e] # 0 /\ queue[e] \notin expired => reverse[e] = queue[e]
=============================================================================
