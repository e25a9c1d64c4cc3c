---------------------- MODULE ProjectInvitation_proofs ----------------------
(***************************************************************************)
(* Theorems about ProjectInvitation for any addresses, identities, requests*)
(* and operators, and any number of invitations and pauses.                *)
(***************************************************************************)
EXTENDS ProjectInvitation, SequenceTheorems, TLAPS

USE IdentityAssumption, BoundAssumption

-----------------------------------------------------------------------------
(* Types. *)

\* A request that goes on to work on an invitation holds one that was made.
Knows(q, k) == q.pc \in {"put", "claim", "retire", "revoke"} => q.n \in 1 .. k

Known == \A r \in Requests : Knows(req[r], Len(letter))

TInv == TypeOK /\ Known

LEMMA RequestFields ==
    ASSUME NEW q \in Request
    PROVE  /\ q.pc \in {"control", "list"} => q.email \in Emails /\ q.sub \in Subs
           /\ q.pc \in {"put", "claim", "retire", "revoke"} => q.n \in Id
BY DEF Request

Fits(q, k) == q \in Request /\ Knows(q, k)

LEMMA LookupFits ==
    ASSUME NEW e \in Emails, NEW s \in Subs, NEW c \in {"control", "list"}, NEW k
    PROVE  Fits([pc |-> c, email |-> e, sub |-> s], k)
<1> DEFINE q == [pc |-> c, email |-> e, sub |-> s]
<1>1. q \in Request
  BY DEF Request
<1>2. q.pc = c
  OBVIOUS
<1> QED
  BY <1>1, <1>2 DEF Fits, Knows

LEMMA WorkFits ==
    ASSUME NEW n \in Id, NEW k \in Nat, n \in 1 .. k,
           NEW c \in {"put", "claim", "retire", "revoke"}
    PROVE  Fits([pc |-> c, n |-> n], k)
<1> DEFINE q == [pc |-> c, n |-> n]
<1>1. q \in Request
  BY DEF Request
<1>2. q.n = n
  OBVIOUS
<1> QED
  BY <1>1, <1>2 DEF Fits, Knows

LEMMA PlainFits ==
    ASSUME NEW k
    PROVE  Fits(Idle, k) /\ Fits([pc |-> "delete"], k)
BY DEF Request, Idle, Fits, Knows

\* The requests' part of a step of r, while the invitations only grow in number.
LEMMA OneRequest ==
    ASSUME req \in [Requests -> Request], Known, NEW r \in Requests, NEW q,
           Become(r, q), Len(letter) \in Nat, Len(letter') \in Nat, Len(letter) <= Len(letter'),
           Fits(q, Len(letter'))
    PROVE  req' \in [Requests -> Request] /\ Known'
<1>1. req' \in [Requests -> Request]
  BY DEF Become, Fits
<1>2. ASSUME NEW x \in Requests PROVE Knows(req'[x], Len(letter'))
  BY DEF Become, Known, Knows, Fits
<1> QED
  BY <1>1, <1>2 DEF Known

LEMMA NothingNew ==
    ASSUME TInv, UNCHANGED <<req, letter>>
    PROVE  req' \in [Requests -> Request] /\ Known'
BY DEF TInv, TypeOK, Known

\* The rows' part of a step that clears the pair of an invitation, or leaves it.
LEMMA PairCleared ==
    ASSUME TInv, NEW n \in Sent, ClearPair(n) \/ UNCHANGED <<queue, reverse>>,
           UNCHANGED letter
    PROVE  queue' \in [Emails -> Sent' \cup {0}] /\ reverse' \in [Emails -> Sent' \cup {0}]
BY DEF TInv, TypeOK, ClearPair, Sent

LEMMA LetterFields ==
    ASSUME TypeOK, NEW n \in Sent
    PROVE  letter[n] \in Letter /\ n \in Id /\ letter[n].email \in Emails /\ letter[n].sub \in Subs
<1>1. Len(letter) \in Nat /\ n \in 1 .. Len(letter)
  BY DEF TypeOK, Sent
<1>2. letter[n] \in Letter
  BY <1>1 DEF TypeOK
<1> QED
  BY <1>1, <1>2 DEF Letter, TypeOK, Id

\* The command's part of a step of o.
LEMMA OneOperator ==
    ASSUME op \in [Operators -> Operator], NEW o \in Operators, NEW c \in Operator, Move(o, c)
    PROVE  op' \in [Operators -> Operator]
BY DEF Move

LEMMA TypeInit == Init => TInv
<1> SUFFICES ASSUME Init PROVE TInv
  OBVIOUS
<1>1. letter \in Seq(Letter) /\ Len(letter) = 0
  BY DEF Init
<1>2. Off \in Operator
  BY DEF Off, Operator, Rev
<1> QED
  BY <1>1, <1>2, PlainFits DEF Init, TInv, TypeOK, Known, Fits, Rev, Sent

LEMMA TypeRequest ==
    ASSUME TInv, NEW r \in Requests,
           \/ AddMember(r) \/ ReadControl(r) \/ PutPendingProjectShare(r)
           \/ ReadPending(r) \/ RevokePendingProjectShare(r) \/ ListPendingProjectShares(r)
           \/ ListProjectMembers(r) \/ DeleteProject(r)
           \/ Bootstrap(r) \/ ReadQueue(r) \/ MaterializePendingProjectGrant(r)
           \/ Retire(r) \/ Return(r)
    PROVE  TInv'
<1> USE DEF TInv, vars, rows, stamp, pause, past
<1>0. /\ req[r] \in Request /\ Len(letter) \in Nat /\ Knows(req[r], Len(letter))
      /\ Fits(Idle, Len(letter'))
  BY PlainFits DEF TypeOK, Known
<1>1. CASE AddMember(r)
  <2>1. PICK i \in Identities : Start(r, [pc |-> "control", email |-> i[1], sub |-> i[2]])
    BY <1>1 DEF AddMember
  <2>2. i[1] \in Emails /\ i[2] \in Subs
    OBVIOUS
  <2>3. req' \in [Requests -> Request] /\ Known'
    <3>1. Fits([pc |-> "control", email |-> i[1], sub |-> i[2]], Len(letter'))
      BY <2>2, LookupFits
    <3>2. Become(r, [pc |-> "control", email |-> i[1], sub |-> i[2]]) /\ letter' = letter
      BY <1>1, <2>1 DEF AddMember, Start, Become
    <3> QED
      BY <1>0, <3>1, <3>2, OneRequest DEF TypeOK
  <2> QED
    BY <1>1, <2>3 DEF AddMember, TypeOK, Sent
<1>2. CASE ReadControl(r)
  <2>1. CASE control.on
    <3> DEFINE l == [email |-> req[r].email, sub |-> req[r].sub, rev |-> control.rev]
    <3>1. l \in Letter
      BY <1>0, <1>2, RequestFields DEF ReadControl, TypeOK, Letter
    <3>2. letter' = Append(letter, l) /\ Len(letter) < MaxInvites
      BY <1>2, <2>1 DEF ReadControl
    <3>3. letter' \in Seq(Letter) /\ Len(letter') = Len(letter) + 1
      BY <3>1, <3>2, AppendProperties DEF TypeOK
    <3>4. /\ Sent \subseteq Sent' /\ Len(letter) + 1 \in Id /\ Len(letter') \in Nat
          /\ Len(letter) + 1 \in 1 .. Len(letter')
      BY <1>0, <3>2, <3>3 DEF Sent, Id
    <3>5. req' \in [Requests -> Request] /\ Known'
      <4>1. Fits([pc |-> "put", n |-> Len(letter) + 1], Len(letter'))
        BY <1>0, <3>3, <3>4, WorkFits
      <4> QED
        BY <1>0, <1>2, <2>1, <3>3, <4>1, OneRequest DEF ReadControl, TypeOK
    <3> QED
      BY <1>0, <1>2, <3>2, <3>3, <3>4, <3>5 DEF ReadControl, TypeOK
  <2>2. CASE ~control.on
    <3>1. req' \in [Requests -> Request] /\ Known'
      BY <1>0, <1>2, <2>2, OneRequest DEF ReadControl, TypeOK, Answer
    <3> QED
      BY <1>2, <2>2, <3>1 DEF ReadControl, TypeOK, Sent
  <2> QED
    BY <2>1, <2>2
<1>3. CASE PutPendingProjectShare(r)
  <2> DEFINE n == req[r].n
  <2>1. n \in Sent /\ n \in Id
    BY <1>0, <1>3, RequestFields DEF PutPendingProjectShare, Knows, Sent
  <2>2. req' \in [Requests -> Request] /\ Known'
    <3>1. Fits([pc |-> "claim", n |-> n], Len(letter')) /\ letter' = letter
      BY <1>0, <1>3, <2>1, WorkFits DEF PutPendingProjectShare, Sent
    <3>2. Answer(r) \/ Become(r, [pc |-> "claim", n |-> n])
      BY <1>3 DEF PutPendingProjectShare
    <3> QED
      BY <1>0, <3>1, <3>2, OneRequest DEF TypeOK, Answer
  <2>3. /\ queue' \in [Emails -> Sent \cup {0}] /\ reverse' \in [Emails -> Sent \cup {0}]
        /\ subject' \in [Subs -> Sent \cup {0}]
    BY <1>3, <2>1 DEF PutPendingProjectShare, TypeOK
  <2> QED
    BY <1>3, <2>2, <2>3 DEF PutPendingProjectShare, TypeOK, Sent
<1>4. CASE ReadPending(r)
  <2>1. PICK e \in Emails : queue[e] # 0 /\ Start(r, [pc |-> "revoke", n |-> queue[e]])
    BY <1>4 DEF ReadPending
  <2>2. queue[e] \in Sent /\ queue[e] \in Id
    BY <1>0, <2>1 DEF TypeOK, Sent, Id
  <2>3. req' \in [Requests -> Request] /\ Known'
    <3>1. Fits([pc |-> "revoke", n |-> queue[e]], Len(letter')) /\ letter' = letter
      BY <1>0, <1>4, <2>2, WorkFits DEF ReadPending, Sent
    <3>2. Become(r, [pc |-> "revoke", n |-> queue[e]])
      BY <2>1 DEF Start, Become
    <3> QED
      BY <1>0, <3>1, <3>2, OneRequest DEF TypeOK
  <2> QED
    BY <1>4, <2>3 DEF ReadPending, TypeOK, Sent
<1>5. CASE RevokePendingProjectShare(r)
  <2> DEFINE n == req[r].n
  <2>1. n \in Sent
    BY <1>0, <1>5 DEF RevokePendingProjectShare, Knows, Sent
  <2>2. req' \in [Requests -> Request] /\ Known'
    BY <1>0, <1>5, OneRequest DEF RevokePendingProjectShare, TypeOK, Answer
  <2>3. queue' \in [Emails -> Sent' \cup {0}] /\ reverse' \in [Emails -> Sent' \cup {0}]
    BY <1>5, <2>1, PairCleared DEF RevokePendingProjectShare
  <2>4. dead' \subseteq Sent
    BY <1>5, <2>1 DEF RevokePendingProjectShare, TypeOK
  <2> QED
    BY <1>5, <2>2, <2>3, <2>4 DEF RevokePendingProjectShare, TypeOK, Sent
<1>6. CASE ListPendingProjectShares(r)
  <2>1. PICK e \in Emails : queue[e] # 0 /\ Start(r, [pc |-> "retire", n |-> queue[e]])
    BY <1>6 DEF ListPendingProjectShares
  <2>2. queue[e] \in Sent /\ queue[e] \in Id
    BY <1>0, <2>1 DEF TypeOK, Sent, Id
  <2>3. req' \in [Requests -> Request] /\ Known'
    <3>1. Fits([pc |-> "retire", n |-> queue[e]], Len(letter')) /\ letter' = letter
      BY <1>0, <1>6, <2>2, WorkFits DEF ListPendingProjectShares, Sent
    <3>2. Become(r, [pc |-> "retire", n |-> queue[e]])
      BY <2>1 DEF Start, Become
    <3> QED
      BY <1>0, <3>1, <3>2, OneRequest DEF TypeOK
  <2> QED
    BY <1>6, <2>3 DEF ListPendingProjectShares, TypeOK, Sent
<1>7. CASE ListProjectMembers(r)
  <2>1. req' \in [Requests -> Request] /\ Known'
    <3>1. Become(r, [pc |-> "delete"]) /\ letter' = letter
      BY <1>7 DEF ListProjectMembers, Start, Become
    <3> QED
      BY <1>0, <3>1, PlainFits, OneRequest DEF TypeOK
  <2> QED
    BY <1>7, <2>1 DEF ListProjectMembers, TypeOK, Sent
<1>8. CASE DeleteProject(r)
  <2>1. req' \in [Requests -> Request] /\ Known'
    BY <1>0, <1>8, OneRequest DEF DeleteProject, TypeOK, Answer
  <2> QED
    BY <1>8, <2>1 DEF DeleteProject, TypeOK, Sent
<1>9. CASE Bootstrap(r)
  <2>1. PICK i \in Identities : Start(r, [pc |-> "list", email |-> i[1], sub |-> i[2]])
    BY <1>9 DEF Bootstrap
  <2>2. i[1] \in Emails /\ i[2] \in Subs
    OBVIOUS
  <2>3. req' \in [Requests -> Request] /\ Known'
    <3>1. Fits([pc |-> "list", email |-> i[1], sub |-> i[2]], Len(letter'))
      BY <2>2, LookupFits
    <3>2. Become(r, [pc |-> "list", email |-> i[1], sub |-> i[2]]) /\ letter' = letter
      BY <1>9, <2>1 DEF Bootstrap, Start, Become
    <3> QED
      BY <1>0, <3>1, <3>2, OneRequest DEF TypeOK
  <2> QED
    BY <1>9, <2>3 DEF Bootstrap, TypeOK, Sent
<1>10. CASE ReadQueue(r)
  <2> DEFINE n == queue[req[r].email]
  <2>1. n \in Sent \cup {0} /\ expired \subseteq Sent /\ (n # 0 => n \in Id)
    BY <1>0, <1>10, RequestFields DEF ReadQueue, TypeOK, Sent, Id
  <2>2. \/ Answer(r)
        \/ /\ n # 0
           /\ \E c \in {"retire", "claim"} : Become(r, [pc |-> c, n |-> n])
    BY <1>0, <1>10, <2>1 DEF ReadQueue, Sent
  <2>3. req' \in [Requests -> Request] /\ Known'
    <3>1. n # 0 => \A c \in {"retire", "claim"} : Fits([pc |-> c, n |-> n], Len(letter'))
      BY <1>0, <1>10, <2>1, WorkFits DEF ReadQueue, Sent
    <3>2. letter' = letter
      BY <1>10 DEF ReadQueue
    <3> QED
      BY <1>0, <2>2, <3>1, <3>2, OneRequest DEF TypeOK, Answer
  <2> QED
    BY <1>10, <2>3 DEF ReadQueue, TypeOK, Sent
<1>11. CASE MaterializePendingProjectGrant(r)
  <2> DEFINE n == req[r].n
  <2>1. n \in Sent /\ n \in Id
    BY <1>0, <1>11, RequestFields DEF MaterializePendingProjectGrant, Knows, Sent
  <2>2. letter[n].sub \in Subs
    BY <2>1, LetterFields
  <2>3. req' \in [Requests -> Request] /\ Known'
    <3>1. Fits([pc |-> "retire", n |-> n], Len(letter')) /\ letter' = letter
      BY <1>0, <1>11, <2>1, WorkFits DEF MaterializePendingProjectGrant, Sent
    <3>2. Answer(r) \/ Become(r, [pc |-> "retire", n |-> n])
      BY <1>11 DEF MaterializePendingProjectGrant
    <3> QED
      BY <1>0, <3>1, <3>2, OneRequest DEF TypeOK, Answer
  <2>4. queue' \in [Emails -> Sent' \cup {0}] /\ reverse' \in [Emails -> Sent' \cup {0}]
    BY <1>11, <2>1, PairCleared DEF MaterializePendingProjectGrant
  <2>5. member' \subseteq Subs /\ granted' \subseteq Sent
    BY <1>11, <2>1, <2>2 DEF MaterializePendingProjectGrant, TypeOK
  <2> QED
    BY <1>11, <2>3, <2>4, <2>5 DEF MaterializePendingProjectGrant, TypeOK, Sent
<1>12. CASE Retire(r)
  <2>1. req[r].n \in Sent
    BY <1>0, <1>12 DEF Retire, Knows, Sent
  <2>2. req' \in [Requests -> Request] /\ Known'
    BY <1>0, <1>12, OneRequest DEF Retire, TypeOK, Answer
  <2>3. queue' \in [Emails -> Sent' \cup {0}] /\ reverse' \in [Emails -> Sent' \cup {0}]
    BY <1>12, <2>1, PairCleared DEF Retire, DeleteIfMatch
  <2> QED
    BY <1>12, <2>2, <2>3 DEF Retire, TypeOK, Sent
<1>13. CASE Return(r)
  <2>1. req' \in [Requests -> Request] /\ Known'
    BY <1>0, <1>13, OneRequest DEF Return, TypeOK, Answer
  <2> QED
    BY <1>13, <2>1 DEF Return, TypeOK, Sent
<1> QED
  BY <1>1, <1>2, <1>3, <1>4, <1>5, <1>6, <1>7, <1>8, <1>9, <1>10, <1>11, <1>12, <1>13

LEMMA TypeOther ==
    ASSUME TInv, PutRegisteredProjectMember \/ RemoveMember \/ Expire \/ Reap
    PROVE  TInv'
<1> USE DEF TInv, rows, stamp, pause, past
<1>1. CASE PutRegisteredProjectMember
  <2>1. member' \subseteq Subs /\ subject' \in [Subs -> Sent \cup {0}]
    BY <1>1 DEF PutRegisteredProjectMember, TypeOK
  <2> QED
    BY <1>1, <2>1, NothingNew DEF PutRegisteredProjectMember, TypeOK, Sent
<1>2. CASE RemoveMember
  <2>1. /\ member' \subseteq Subs /\ subject' \in [Subs -> Sent \cup {0}]
        /\ dead' \subseteq Sent
    BY <1>2 DEF RemoveMember, TypeOK, QueuedFor
  <2> QED
    BY <1>2, <2>1, NothingNew DEF RemoveMember, TypeOK, Sent
<1>3. CASE Expire
  <2>1. expired' \subseteq Sent
    BY <1>3 DEF Expire, TypeOK
  <2> QED
    BY <1>3, <2>1, NothingNew DEF Expire, TypeOK, Sent
<1>4. CASE Reap
  <2>1. /\ queue' \in [Emails -> Sent \cup {0}] /\ reverse' \in [Emails -> Sent \cup {0}]
        /\ subject' \in [Subs -> Sent \cup {0}]
    BY <1>4 DEF Reap, TypeOK
  <2> QED
    BY <1>4, <2>1, NothingNew DEF Reap, TypeOK, Sent
<1> QED
  BY <1>1, <1>2, <1>3, <1>4

LEMMA TypeOperator ==
    ASSUME TInv, NEW o \in Operators,
           \/ Prepare(o) \/ Resume(o) \/ SetProjectInvitationControl(o) \/ ConfirmFence(o)
           \/ Check(o) \/ ScanPage(o) \/ RemovePending(o) \/ ScanEmpty(o) \/ LastCheck(o)
           \/ Interrupt(o)
    PROVE  TInv'
<1> USE DEF TInv, rows, stamp, pause, past, Apart
<1>0. op[o] \in Operator /\ Off \in Operator /\ control.rev \in Rev /\ Len(letter) \in Nat
  BY DEF TypeOK, Operator, Off, Rev
<1>1. CASE Prepare(o) \/ Resume(o)
  <2>1. /\ [Off EXCEPT !.pc = "fence", !.rev = control.rev] \in Operator
        /\ [Off EXCEPT !.pc = "verify", !.on = TRUE, !.rev = control.rev, !.todo = Emails] \in Operator
    BY <1>0 DEF Operator
  <2>2. op' \in [Operators -> Operator]
    BY <1>1, <2>1, OneOperator DEF Prepare, Resume, TypeOK
  <2> QED
    BY <1>1, <2>2, NothingNew DEF Prepare, Resume, TypeOK, Sent
<1>2. CASE SetProjectInvitationControl(o)
  <2>1. op' \in [Operators -> Operator]
    <3>1. ASSUME revs < MaxRevs
          PROVE  /\ Scanning(op[o], revs + 1) \in Operator
                 /\ [op[o] EXCEPT !.pc = "confirm", !.rev = revs + 1] \in Operator
      <4>1. revs + 1 \in Rev
        BY <3>1 DEF TypeOK, Rev
      <4> QED
        BY <1>0, <4>1 DEF Scanning, Operator
    <3> QED
      BY <1>0, <1>2, <3>1, OneOperator DEF SetProjectInvitationControl, Stop, TypeOK
  <2>2. control' \in [on: BOOLEAN, rev: Rev] /\ revs' \in Rev
    BY <1>0, <1>2 DEF SetProjectInvitationControl, TypeOK, Operator, Rev
  <2> QED
    BY <1>2, <2>1, <2>2, NothingNew DEF SetProjectInvitationControl, TypeOK, Sent
<1>3. CASE ConfirmFence(o) \/ Check(o) \/ LastCheck(o) \/ Interrupt(o)
  <2>1. /\ Scanning(op[o], op[o].rev) \in Operator
        /\ [op[o] EXCEPT !.pc = "act"] \in Operator /\ [op[o] EXCEPT !.pc = "done"] \in Operator
    BY <1>0 DEF Scanning, Operator
  <2>2. op' \in [Operators -> Operator]
    BY <1>0, <1>3, <2>1, OneOperator DEF ConfirmFence, Check, LastCheck, Interrupt, Stop, TypeOK
  <2> QED
    BY <1>3, <2>2, NothingNew DEF ConfirmFence, Check, LastCheck, Interrupt, TypeOK, Sent
<1>4. ASSUME NEW c \in Operator PROVE Turn(c) \in Operator
  BY <1>4 DEF Turn, Operator
<1>5. CASE ScanPage(o)
  <2>1. PICK S \in SUBSET op[o].todo \ {{}} :
           Move(o, Turn([op[o] EXCEPT !.todo = @ \ S, !.page = {queue[e] : e \in S} \ {0}]))
    BY <1>5 DEF ScanPage
  <2>2. {queue[e] : e \in S} \ {0} \subseteq Id
    BY <1>0 DEF TypeOK, Operator, Sent, Id
  <2>3. [op[o] EXCEPT !.todo = @ \ S, !.page = {queue[e] : e \in S} \ {0}] \in Operator
    BY <1>0, <2>2 DEF Operator
  <2>4. op' \in [Operators -> Operator]
    BY <1>4, <2>1, <2>3, OneOperator DEF TypeOK
  <2> QED
    BY <1>5, <2>4, NothingNew DEF ScanPage, TypeOK, Sent
<1>6. CASE RemovePending(o)
  <2>1. PICK n \in op[o].page :
          /\ DeleteIfMatch(n)
          /\ IF Matches(n) THEN Move(o, Turn([op[o] EXCEPT !.page = @ \ {n}])) ELSE Stop(o)
    BY <1>6 DEF RemovePending
  <2>2. [op[o] EXCEPT !.page = @ \ {n}] \in Operator
    BY <1>0 DEF Operator
  <2>3. op' \in [Operators -> Operator]
    BY <1>0, <1>4, <2>1, <2>2, OneOperator DEF TypeOK, Stop
  <2>4. queue' \in [Emails -> Sent \cup {0}] /\ reverse' \in [Emails -> Sent \cup {0}]
    BY <2>1 DEF DeleteIfMatch, ClearPair, TypeOK
  <2> QED
    BY <1>6, <2>3, <2>4, NothingNew DEF RemovePending, TypeOK, Sent
<1>7. CASE ScanEmpty(o)
  <2>1. PICK e \in op[o].todo :
          IF queue[e] # 0 THEN Stop(o)
          ELSE LET c == [op[o] EXCEPT !.todo = @ \ {e}] IN
               Move(o, IF c.todo # {} THEN c
                       ELSE [c EXCEPT !.pc = IF c.on THEN "fence" ELSE "last"])
    BY <1>7 DEF ScanEmpty
  <2> DEFINE c == [op[o] EXCEPT !.todo = @ \ {e}]
  <2>2. c \in Operator /\ [c EXCEPT !.pc = IF c.on THEN "fence" ELSE "last"] \in Operator
    BY <1>0 DEF Operator
  <2>3. op' \in [Operators -> Operator]
    BY <1>0, <2>1, <2>2, OneOperator DEF TypeOK, Stop
  <2> QED
    BY <1>7, <2>3, NothingNew DEF ScanEmpty, TypeOK, Sent
<1> QED
  BY <1>1, <1>2, <1>3, <1>5, <1>6, <1>7

LEMMA TypeStep == TInv /\ [Next]_vars => TInv'
<1> SUFFICES ASSUME TInv, [Next]_vars PROVE TInv'
  OBVIOUS
<1>1. CASE UNCHANGED vars
  BY <1>1 DEF vars, rows, stamp, pause, past, TInv, TypeOK, Known, Sent
<1>2. CASE Next
  BY <1>2, TypeRequest, TypeOther, TypeOperator DEF Next
<1> QED
  BY <1>1, <1>2

\* The type invariant of the invitations' state.
THEOREM TypeCorrect == Spec => []TypeOK
<1>1. TInv => TypeOK
  BY DEF TInv
<1> QED
  BY <1>1, TypeInit, TypeStep, PTL DEF Spec

-----------------------------------------------------------------------------
(* Revoked and removed. *)

RowsFit ==
    /\ \A e \in Emails : queue[e] # 0 => letter[queue[e]].email = e
    /\ \A s \in Subs : subject[s] # 0 => letter[subject[s]].sub = s

\* An invitation that is still to be written is nowhere yet, and one request has it.
Unused(n) ==
    /\ n \notin granted /\ n \notin dead
    /\ \A e \in Emails : queue[e] # n
    /\ \A s \in Subs : subject[s] # n

PutOnce ==
    /\ \A r \in Requests : req[r].pc = "put" => Unused(req[r].n)
    /\ \A r, t \in Requests :
          req[r].pc = "put" /\ req[t].pc = "put" /\ req[r].n = req[t].n => r = t

\* A granted invitation has left the queue, and a dead one has left it or its subject row.
Spent ==
    /\ \A n \in granted : queue[letter[n].email] # n
    /\ \A n \in dead : queue[letter[n].email] = n => subject[letter[n].sub] # n

GInv == RowsFit /\ PutOnce /\ Spent /\ NoResurrection

LEMMA SentFacts ==
    ASSUME TInv
    PROVE  /\ Len(letter) \in Nat /\ granted \subseteq Sent /\ dead \subseteq Sent /\ 0 \notin Sent
           /\ \A r \in Requests :
                 req[r].pc \in {"put", "claim", "retire", "revoke"} => req[r].n \in Sent
           /\ \A e \in Emails : queue[e] \in Sent \cup {0}
           /\ \A s \in Subs : subject[s] \in Sent \cup {0}
           /\ \A n \in Sent : letter[n].email \in Emails /\ letter[n].sub \in Subs
<1>1. Len(letter) \in Nat
  BY DEF TInv, TypeOK
<1>2. \A n \in Sent : letter[n].email \in Emails /\ letter[n].sub \in Subs
  BY LetterFields DEF TInv
<1>3. \A r \in Requests :
         req[r].pc \in {"put", "claim", "retire", "revoke"} => req[r].n \in Sent
  BY DEF TInv, Known, Knows, Sent
<1> QED
  BY <1>1, <1>2, <1>3 DEF TInv, TypeOK, Sent

RowsShrink ==
    /\ \A e \in Emails : queue'[e] \in {queue[e], 0}
    /\ \A s \in Subs : subject'[s] \in {subject[s], 0}

NoPutAdded == \A x \in Requests : req'[x].pc = "put" => req'[x] = req[x]

\* A step that takes rows away, and begins no invitation.
LEMMA GrantFrame ==
    ASSUME TInv, GInv, RowsShrink, NoPutAdded, UNCHANGED <<letter, granted, dead>>
    PROVE  GInv'
<1>1. RowsFit'
  BY DEF GInv, RowsFit, RowsShrink
<1>2. PutOnce'
  BY SentFacts DEF GInv, PutOnce, Unused, RowsShrink, NoPutAdded
<1>3. Spent'
  <2>1. ASSUME NEW n \in granted PROVE queue'[letter[n].email] # n
    BY SentFacts DEF GInv, Spent, RowsShrink
  <2>2. ASSUME NEW n \in dead, queue'[letter[n].email] = n PROVE subject'[letter[n].sub] # n
    BY <2>2, SentFacts DEF GInv, Spent, RowsShrink
  <2> QED
    BY <2>1, <2>2 DEF Spent
<1> QED
  BY <1>1, <1>2, <1>3 DEF GInv, NoResurrection

LEMMA NoPut ==
    ASSUME TInv, NEW r \in Requests, NEW q, Become(r, q), q.pc # "put"
    PROVE  NoPutAdded
BY DEF TInv, TypeOK, Become, NoPutAdded

LEMMA Clearing ==
    ASSUME TInv, NEW n, ClearPair(n) \/ UNCHANGED <<queue, reverse>>
    PROVE  \A e \in Emails : queue'[e] \in {queue[e], 0}
BY DEF TInv, TypeOK, ClearPair

LEMMA GrantRequest ==
    ASSUME TInv, TInv', GInv, NEW r \in Requests,
           \/ AddMember(r) \/ ReadControl(r) \/ PutPendingProjectShare(r)
           \/ ReadPending(r) \/ RevokePendingProjectShare(r) \/ ListPendingProjectShares(r)
           \/ ListProjectMembers(r) \/ DeleteProject(r)
           \/ Bootstrap(r) \/ ReadQueue(r) \/ MaterializePendingProjectGrant(r)
           \/ Retire(r) \/ Return(r)
    PROVE  GInv'
<1> USE DEF rows, stamp, pause, past
<1>0. Idle.pc # "put"
  BY DEF Idle
<1>1. CASE AddMember(r) \/ Bootstrap(r)
  <2>1. PICK i \in Identities, c \in {"control", "list"} :
           Become(r, [pc |-> c, email |-> i[1], sub |-> i[2]])
    BY <1>1 DEF AddMember, Bootstrap, Start, Become
  <2>2. NoPutAdded
    BY <2>1, NoPut
  <2> QED
    BY <1>1, <2>2, GrantFrame DEF AddMember, Bootstrap, RowsShrink
<1>2. CASE ReadPending(r) \/ ListPendingProjectShares(r)
  <2>1. PICK e \in Emails, c \in {"revoke", "retire"} : Become(r, [pc |-> c, n |-> queue[e]])
    BY <1>2 DEF ReadPending, ListPendingProjectShares, Start, Become
  <2>2. NoPutAdded
    BY <2>1, NoPut
  <2> QED
    BY <1>2, <2>2, GrantFrame DEF ReadPending, ListPendingProjectShares, RowsShrink
<1>3. CASE ListProjectMembers(r)
  <2>1. Become(r, [pc |-> "delete"])
    BY <1>3 DEF ListProjectMembers, Start, Become
  <2>2. NoPutAdded
    BY <2>1, NoPut
  <2> QED
    BY <1>3, <2>2, GrantFrame DEF ListProjectMembers, RowsShrink
<1>4. CASE DeleteProject(r) \/ Return(r)
  <2>1. NoPutAdded
    BY <1>0, <1>4, NoPut DEF DeleteProject, Return, Answer
  <2> QED
    BY <1>4, <2>1, GrantFrame DEF DeleteProject, Return, RowsShrink
<1>5. CASE ReadQueue(r)
  <2>1. \/ Answer(r)
        \/ \E c \in {"retire", "claim"} : Become(r, [pc |-> c, n |-> queue[req[r].email]])
    BY <1>5 DEF ReadQueue
  <2>2. NoPutAdded
    BY <1>0, <2>1, NoPut DEF Answer
  <2> QED
    BY <1>5, <2>2, GrantFrame DEF ReadQueue, RowsShrink
<1>6. CASE Retire(r)
  <2>1. NoPutAdded
    BY <1>0, <1>6, NoPut DEF Retire, Answer
  <2>2. RowsShrink
    BY <1>6, Clearing DEF Retire, DeleteIfMatch, RowsShrink
  <2> QED
    BY <1>6, <2>1, <2>2, GrantFrame DEF Retire
<1>7. CASE ReadControl(r)
  <2>1. CASE control.on
    <3> DEFINE k == Len(letter) + 1
               l == [email |-> req[r].email, sub |-> req[r].sub, rev |-> control.rev]
    <3>1. /\ letter' = Append(letter, l) /\ Become(r, [pc |-> "put", n |-> k])
          /\ UNCHANGED <<rows, past>>
      BY <1>7, <2>1 DEF ReadControl
    <3>2. l \in Letter
      BY <1>7, RequestFields DEF ReadControl, Letter, TInv, TypeOK
    <3>3. k \notin Sent /\ k # 0 /\ \A n \in Sent : letter'[n] = letter[n]
      BY <3>1, <3>2, SentFacts, AppendProperties DEF TInv, TypeOK, Sent
    <3>4. RowsFit' /\ Spent'
      BY <3>1, <3>3, SentFacts DEF GInv, RowsFit, Spent
    <3>5. /\ req'[r].pc = "put" /\ req'[r].n = k
          /\ \A x \in Requests \ {r} : req'[x] = req[x]
      BY <3>1 DEF Become, TInv, TypeOK
    <3>6. ASSUME NEW j, j = k PROVE Unused(j)'
      BY <3>1, <3>3, <3>6, SentFacts DEF Unused
    <3>7. ASSUME NEW j, NEW x \in Requests, req[x].pc = "put", j = req[x].n PROVE Unused(j)'
      <4>1. Unused(j)
        BY <3>7 DEF GInv, PutOnce
      <4> QED
        BY <3>1, <4>1 DEF Unused
    <3>8. \A x \in Requests : req[x].pc = "put" => req[x].n # k
      BY <3>3, SentFacts
    <3>9. PutOnce'
      BY <3>5, <3>6, <3>7, <3>8 DEF GInv, PutOnce
    <3> QED
      BY <3>1, <3>4, <3>9 DEF GInv, NoResurrection
  <2>2. CASE ~control.on
    <3>1. NoPutAdded
      BY <1>0, <1>7, <2>2, NoPut DEF ReadControl, Answer
    <3> QED
      BY <1>7, <2>2, <3>1, GrantFrame DEF ReadControl, RowsShrink
  <2> QED
    BY <2>1, <2>2
<1>8. CASE PutPendingProjectShare(r)
  <2> DEFINE n == req[r].n
             l == letter[n]
  <2>1. Answer(r) \/ Become(r, [pc |-> "claim", n |-> n])
    BY <1>8 DEF PutPendingProjectShare
  <2>2. NoPutAdded
    BY <1>0, <2>1, NoPut DEF Answer
  <2>3. CASE live /\ l.sub \notin member /\ FenceOf(l.rev)
    <3>1. /\ queue' = [queue EXCEPT ![l.email] = n] /\ subject' = [subject EXCEPT ![l.sub] = n]
          /\ UNCHANGED <<letter, granted, dead>>
      BY <1>8, <2>3 DEF PutPendingProjectShare
    <3>2. n \in Sent /\ l.email \in Emails /\ l.sub \in Subs /\ Unused(n)
      BY <1>8, SentFacts DEF PutPendingProjectShare, GInv, PutOnce
    <3>3. queue \in [Emails -> Sent \cup {0}] /\ subject \in [Subs -> Sent \cup {0}]
      BY DEF TInv, TypeOK
    <3>4. RowsFit'
      BY <3>1, <3>2, <3>3 DEF GInv, RowsFit
    <3>5. req'[r].pc # "put"
      BY <1>0, <2>1 DEF Answer, Become, TInv, TypeOK
    <3>6. \A x \in Requests : req'[x].pc = "put" => x # r /\ req[x].pc = "put" /\ req'[x].n = req[x].n
      BY <2>2, <3>5 DEF NoPutAdded
    <3>7. \A x \in Requests : req'[x].pc = "put" => req[x].n # n
      BY <1>8, <3>6 DEF GInv, PutOnce, PutPendingProjectShare
    <3>8. PutOnce'
      BY <3>1, <3>2, <3>3, <3>6, <3>7 DEF GInv, PutOnce, Unused
    <3>9. Spent'
      <4>1. ASSUME NEW g \in granted PROVE queue'[letter[g].email] # g
        BY <3>1, <3>2, <3>3, SentFacts DEF GInv, Spent, Unused
      <4>2. ASSUME NEW d \in dead, queue'[letter[d].email] = d PROVE subject'[letter[d].sub] # d
        BY <3>1, <3>2, <3>3, <4>2, SentFacts DEF GInv, Spent, Unused
      <4> QED
        BY <3>1, <4>1, <4>2 DEF Spent
    <3> QED
      BY <3>1, <3>4, <3>8, <3>9 DEF GInv, NoResurrection
  <2>4. CASE ~(live /\ l.sub \notin member /\ FenceOf(l.rev))
    BY <1>8, <2>2, <2>4, GrantFrame DEF PutPendingProjectShare, RowsShrink
  <2> QED
    BY <2>3, <2>4
<1>9. CASE RevokePendingProjectShare(r)
  <2> DEFINE n == req[r].n
             e == letter[n].email
  <2>1. NoPutAdded
    BY <1>0, <1>9, NoPut DEF RevokePendingProjectShare, Answer
  <2>2. CASE live /\ Matches(n) /\ letter[n].sub \notin member
    <3>1. ClearPair(n) /\ dead' = dead \cup {n} /\ UNCHANGED <<letter, subject, granted>>
      BY <1>9, <2>2 DEF RevokePendingProjectShare
    <3>2. n \in Sent /\ e \in Emails
      BY <1>9, SentFacts DEF RevokePendingProjectShare
    <3>3. queue[e] = n /\ queue' = [queue EXCEPT ![e] = 0] /\ queue \in [Emails -> Sent \cup {0}]
      BY <2>2, <3>1 DEF Matches, ClearPair, TInv, TypeOK
    <3>4. RowsFit'
      BY <3>1, <3>3 DEF GInv, RowsFit
    <3>5. PutOnce'
      <4>1. ASSUME NEW j, NEW x \in Requests, req'[x].pc = "put", j = req'[x].n
            PROVE  Unused(j)'
        <5>1. req'[x] = req[x] /\ Unused(j) /\ j \in Sent
          BY <2>1, <4>1, SentFacts DEF NoPutAdded, GInv, PutOnce
        <5>2. j # n
          BY <3>2, <3>3, <5>1 DEF Unused
        <5> QED
          BY <3>1, <3>3, <5>1, <5>2, SentFacts DEF Unused
      <4> QED
        BY <2>1, <4>1 DEF NoPutAdded, GInv, PutOnce
    <3>6. Spent'
      <4>1. ASSUME NEW g \in granted PROVE queue'[letter[g].email] # g
        BY <3>3, SentFacts DEF GInv, Spent
      <4>2. ASSUME NEW d \in dead', queue'[letter[d].email] = d PROVE subject[letter[d].sub] # d
        BY <3>1, <3>2, <3>3, <4>2, SentFacts DEF GInv, Spent
      <4> QED
        BY <3>1, <4>1, <4>2 DEF Spent
    <3>7. n \notin granted
      BY <3>3 DEF GInv, Spent
    <3> QED
      BY <3>1, <3>4, <3>5, <3>6, <3>7 DEF GInv, NoResurrection
  <2>3. CASE ~(live /\ Matches(n) /\ letter[n].sub \notin member)
    BY <1>9, <2>1, <2>3, GrantFrame DEF RevokePendingProjectShare, RowsShrink
  <2> QED
    BY <2>2, <2>3
<1>10. CASE MaterializePendingProjectGrant(r)
  <2> DEFINE n == req[r].n
             s == letter[n].sub
             e == letter[n].email
  <2>1. Answer(r) \/ Become(r, [pc |-> "retire", n |-> n])
    BY <1>10 DEF MaterializePendingProjectGrant
  <2>2. NoPutAdded
    BY <1>0, <2>1, NoPut DEF Answer
  <2>3. CASE live /\ s \notin member /\ GrantHolds(n) /\ FenceOpen
    <3>1. ClearPair(n) /\ granted' = granted \cup {n} /\ UNCHANGED <<letter, subject, dead>>
      BY <1>10, <2>3 DEF MaterializePendingProjectGrant
    <3>2. n \in Sent /\ e \in Emails /\ s \in Subs
      BY <1>10, SentFacts DEF MaterializePendingProjectGrant
    <3>3. /\ queue[e] = n /\ subject[s] = n /\ queue' = [queue EXCEPT ![e] = 0]
          /\ queue \in [Emails -> Sent \cup {0}]
      BY <2>3, <3>1 DEF GrantHolds, Matches, ClearPair, TInv, TypeOK
    <3>4. RowsFit'
      BY <3>1, <3>3 DEF GInv, RowsFit
    <3>5. PutOnce'
      <4>1. ASSUME NEW j, NEW x \in Requests, req'[x].pc = "put", j = req'[x].n
            PROVE  Unused(j)'
        <5>1. req'[x] = req[x] /\ Unused(j) /\ j \in Sent
          BY <2>2, <4>1, SentFacts DEF NoPutAdded, GInv, PutOnce
        <5>2. j # n
          BY <3>2, <3>3, <5>1 DEF Unused
        <5> QED
          BY <3>1, <3>3, <5>1, <5>2, SentFacts DEF Unused
      <4> QED
        BY <2>2, <4>1 DEF NoPutAdded, GInv, PutOnce
    <3>6. Spent'
      <4>1. ASSUME NEW g \in granted' PROVE queue'[letter[g].email] # g
        BY <3>1, <3>2, <3>3, SentFacts DEF GInv, Spent
      <4>2. ASSUME NEW d \in dead, queue'[letter[d].email] = d PROVE subject[letter[d].sub] # d
        BY <3>2, <3>3, <4>2, SentFacts DEF GInv, Spent
      <4> QED
        BY <3>1, <4>1, <4>2 DEF Spent
    <3>7. n \notin dead
      BY <3>3 DEF GInv, Spent
    <3> QED
      BY <3>1, <3>4, <3>5, <3>6, <3>7 DEF GInv, NoResurrection
  <2>4. CASE ~(live /\ s \notin member /\ GrantHolds(n) /\ FenceOpen)
    BY <1>10, <2>2, <2>4, GrantFrame DEF MaterializePendingProjectGrant, RowsShrink
  <2> QED
    BY <2>3, <2>4
<1> QED
  BY <1>1, <1>2, <1>3, <1>4, <1>5, <1>6, <1>7, <1>8, <1>9, <1>10

LEMMA GrantOther ==
    ASSUME TInv, GInv, PutRegisteredProjectMember \/ RemoveMember \/ Expire \/ Reap
    PROVE  GInv'
<1> USE DEF rows, stamp, pause, past
<1>1. CASE PutRegisteredProjectMember
  <2>1. RowsShrink
    BY <1>1 DEF PutRegisteredProjectMember, RowsShrink, TInv, TypeOK
  <2> QED
    BY <1>1, <2>1, GrantFrame DEF PutRegisteredProjectMember, NoPutAdded
<1>2. CASE RemoveMember
  <2>1. PICK s \in Subs : /\ subject' = [subject EXCEPT ![s] = 0]
                          /\ dead' = dead \cup QueuedFor(s)
    BY <1>2 DEF RemoveMember
  <2>2. UNCHANGED <<queue, letter, req, granted>> /\ subject \in [Subs -> Sent \cup {0}]
    BY <1>2 DEF RemoveMember, TInv, TypeOK
  <2>3. RowsFit'
    BY <2>1, <2>2 DEF GInv, RowsFit
  <2>4. PutOnce'
    <3>1. ASSUME NEW j, NEW x \in Requests, req[x].pc = "put", j = req[x].n PROVE Unused(j)'
      <4>1. Unused(j) /\ j \in Sent
        BY <3>1, SentFacts DEF GInv, PutOnce
      <4>2. j \notin QueuedFor(s)
        BY <4>1, SentFacts DEF Unused, QueuedFor
      <4> QED
        BY <2>1, <2>2, <4>1, <4>2, SentFacts DEF Unused
    <3> QED
      BY <2>2, <3>1 DEF GInv, PutOnce
  <2>5. Spent'
    <3>1. ASSUME NEW d \in dead', queue[letter[d].email] = d PROVE subject'[letter[d].sub] # d
      BY <2>1, <2>2, <3>1, SentFacts DEF GInv, Spent, QueuedFor
    <3> QED
      BY <2>2, <3>1 DEF GInv, Spent
  <2>6. granted \cap QueuedFor(s) = {}
    BY DEF GInv, Spent, QueuedFor
  <2> QED
    BY <2>1, <2>2, <2>3, <2>4, <2>5, <2>6 DEF GInv, NoResurrection
<1>3. CASE Expire
  BY <1>3, GrantFrame DEF Expire, NoPutAdded, RowsShrink
<1>4. CASE Reap
  <2>1. RowsShrink
    BY <1>4 DEF Reap, RowsShrink, TInv, TypeOK
  <2> QED
    BY <1>4, <2>1, GrantFrame DEF Reap, NoPutAdded
<1> QED
  BY <1>1, <1>2, <1>3, <1>4

\* What a command does to the rows.
LEMMA OperatorRows ==
    ASSUME TInv, NEW o \in Operators,
           \/ Prepare(o) \/ Resume(o) \/ SetProjectInvitationControl(o) \/ ConfirmFence(o)
           \/ Check(o) \/ ScanPage(o) \/ RemovePending(o) \/ ScanEmpty(o) \/ LastCheck(o)
           \/ Interrupt(o)
    PROVE  /\ UNCHANGED <<letter, granted, dead, req, subject, expired>>
           /\ \A e \in Emails : /\ queue'[e] \in {queue[e], 0}
                                /\ reverse'[e] = reverse[e] \/ queue'[e] = 0
<1> USE DEF rows, stamp, pause, past, Apart
<1>1. CASE RemovePending(o)
  <2>1. PICK n \in op[o].page : DeleteIfMatch(n)
    BY <1>1 DEF RemovePending
  <2> QED
    BY <1>1, <2>1 DEF RemovePending, DeleteIfMatch, ClearPair, TInv, TypeOK
<1>2. CASE ~RemovePending(o)
  BY <1>2 DEF Prepare, Resume, SetProjectInvitationControl, ConfirmFence, Check, ScanPage,
     ScanEmpty, LastCheck, Interrupt
<1> QED
  BY <1>1, <1>2

LEMMA GrantStep == TInv /\ TInv' /\ GInv /\ [Next]_vars => GInv'
<1> SUFFICES ASSUME TInv, TInv', GInv, [Next]_vars PROVE GInv'
  OBVIOUS
<1>1. CASE UNCHANGED vars
  BY <1>1, GrantFrame DEF vars, rows, stamp, pause, past, RowsShrink, NoPutAdded
<1>2. ASSUME NEW o \in Operators,
             \/ Prepare(o) \/ Resume(o) \/ SetProjectInvitationControl(o) \/ ConfirmFence(o)
             \/ Check(o) \/ ScanPage(o) \/ RemovePending(o) \/ ScanEmpty(o) \/ LastCheck(o)
             \/ Interrupt(o)
      PROVE  GInv'
  BY <1>2, OperatorRows, GrantFrame DEF RowsShrink, NoPutAdded
<1>3. CASE Next
  BY <1>2, <1>3, GrantRequest, GrantOther DEF Next
<1> QED
  BY <1>1, <1>3

\* An invitation that was revoked, or was queued for a member at the removal, is not granted.
THEOREM NothingResurrects == Spec => []NoResurrection
<1>1. Init => GInv
  BY DEF Init, GInv, RowsFit, PutOnce, Spent, NoResurrection, Idle
<1>2. GInv => NoResurrection
  BY DEF GInv
<1> QED
  BY <1>1, <1>2, TypeInit, TypeStep, GrantStep, PTL DEF Spec

-----------------------------------------------------------------------------
(* The owner's list. *)

LEMMA VisibleStep == TInv /\ VisibleToOwner /\ [Next]_vars => VisibleToOwner'
<1> SUFFICES ASSUME TInv, VisibleToOwner, [Next]_vars PROVE VisibleToOwner'
  OBVIOUS
<1> USE DEF rows, stamp, pause, past
<1>0. queue \in [Emails -> Sent \cup {0}] /\ reverse \in [Emails -> Sent \cup {0}]
  BY DEF TInv, TypeOK
<1>1. CASE UNCHANGED vars \/ UNCHANGED <<rows, expired>>
  BY <1>1 DEF VisibleToOwner, vars
<1>2. ASSUME NEW n, ClearPair(n), UNCHANGED expired PROVE VisibleToOwner'
  BY <1>0, <1>2 DEF VisibleToOwner, ClearPair
<1>3. ASSUME NEW r \in Requests, PutPendingProjectShare(r) PROVE VisibleToOwner'
  BY <1>0, <1>3 DEF VisibleToOwner, PutPendingProjectShare
<1>4. ASSUME NEW r \in Requests, RevokePendingProjectShare(r) \/ MaterializePendingProjectGrant(r) \/ Retire(r)
      PROVE  VisibleToOwner'
  <2>1. UNCHANGED expired /\ (ClearPair(req[r].n) \/ UNCHANGED <<queue, reverse>>)
    BY <1>4 DEF RevokePendingProjectShare, MaterializePendingProjectGrant, Retire, DeleteIfMatch
  <2> QED
    BY <1>2, <2>1 DEF VisibleToOwner
<1>5. ASSUME NEW r \in Requests,
             \/ AddMember(r) \/ ReadControl(r) \/ ReadPending(r) \/ ListPendingProjectShares(r)
             \/ ListProjectMembers(r) \/ DeleteProject(r) \/ Bootstrap(r) \/ ReadQueue(r) \/ Return(r)
      PROVE  VisibleToOwner'
  BY <1>1, <1>5 DEF AddMember, ReadControl, ReadPending, ListPendingProjectShares,
     ListProjectMembers, DeleteProject, Bootstrap, ReadQueue, Return
<1>6. CASE PutRegisteredProjectMember \/ RemoveMember
  BY <1>6 DEF PutRegisteredProjectMember, RemoveMember, VisibleToOwner
<1>7. CASE Expire
  BY <1>7 DEF Expire, VisibleToOwner
<1>8. CASE Reap
  BY <1>0, <1>8 DEF Reap, VisibleToOwner
<1>9. ASSUME NEW o \in Operators,
             \/ Prepare(o) \/ Resume(o) \/ SetProjectInvitationControl(o) \/ ConfirmFence(o)
             \/ Check(o) \/ ScanPage(o) \/ RemovePending(o) \/ ScanEmpty(o) \/ LastCheck(o)
             \/ Interrupt(o)
      PROVE  VisibleToOwner'
  <2>1. /\ UNCHANGED expired
        /\ \A e \in Emails : queue'[e] \in {queue[e], 0}
        /\ \A e \in Emails : reverse'[e] = reverse[e] \/ queue'[e] = 0
    BY <1>9, OperatorRows
  <2> QED
    BY <2>1 DEF VisibleToOwner
<1>10. CASE Next
  BY <1>3, <1>4, <1>5, <1>6, <1>7, <1>8, <1>9, <1>10 DEF Next
<1> QED
  BY <1>1, <1>10

\* What can still be claimed is on the owner's list.
THEOREM PendingIsVisible == Spec => []VisibleToOwner
<1>1. Init => VisibleToOwner
  BY DEF Init, VisibleToOwner
<1> QED
  BY <1>1, TypeInit, TypeStep, VisibleStep, PTL DEF Spec

-----------------------------------------------------------------------------
(* The pause. *)

Revisions == control.rev <= revs /\ \A o \in Operators : op[o].rev <= revs

\* What a resumption saw of the control row is so while the revision is.
ResumeSaw ==
    \A o \in Operators :
        op[o].on /\ op[o].pc \in {"verify", "fence"} /\ control.rev = op[o].rev => ~control.on

Looked(c) == \/ c.pc = "verify"
             \/ (c.pc = "fence" /\ c.on)
             \/ (c.pc \in {"last", "done"} /\ ~c.on)

\* What a command found empty stays empty while its pause lasts.
Seen ==
    \A o \in Operators :
        Looked(op[o]) /\ Paused(o) => \A e \in Emails \ op[o].todo : queue[e] = 0

Through ==
    \A o \in Operators : /\ op[o].pc \in {"fence", "last", "done"} => op[o].todo = {}
                         /\ op[o].pc \in {"check", "act"} => ~op[o].on

CInv == Revisions /\ ResumeSaw /\ Seen /\ Through /\ QueueOfThisEpoch

\* A step of anyone but a command: it leaves the control row alone, and puts an invitation
\* only under the revision it was made under.
LEMMA PauseFrame ==
    ASSUME TInv, CInv, UNCHANGED <<control, revs, op>>,
           \A n \in Sent : letter'[n] = letter[n],
           \A e \in Emails : \/ queue'[e] \in {queue[e], 0}
                             \/ control.on /\ letter'[queue'[e]].rev = control.rev
    PROVE  CInv'
<1>1. \A e \in Emails : queue[e] # 0 => letter'[queue[e]] = letter[queue[e]]
  BY SentFacts
<1>2. QueueOfThisEpoch'
  BY <1>1 DEF CInv, QueueOfThisEpoch
<1>3. Seen'
  BY DEF CInv, Seen, Looked, Paused
<1> QED
  BY <1>2, <1>3 DEF CInv, Revisions, ResumeSaw, Through

LEMMA PauseRequest ==
    ASSUME TInv, CInv, NEW r \in Requests,
           \/ AddMember(r) \/ ReadControl(r) \/ PutPendingProjectShare(r)
           \/ ReadPending(r) \/ RevokePendingProjectShare(r) \/ ListPendingProjectShares(r)
           \/ ListProjectMembers(r) \/ DeleteProject(r)
           \/ Bootstrap(r) \/ ReadQueue(r) \/ MaterializePendingProjectGrant(r)
           \/ Retire(r) \/ Return(r)
    PROVE  CInv'
<1> USE DEF rows, stamp, pause, past
<1>1. CASE ReadControl(r)
  <2>1. \A n \in Sent : letter'[n] = letter[n]
    <3>1. CASE control.on
      <4> DEFINE l == [email |-> req[r].email, sub |-> req[r].sub, rev |-> control.rev]
      <4>1. l \in Letter
        BY <1>1, RequestFields DEF ReadControl, Letter, TInv, TypeOK
      <4>2. letter' = Append(letter, l)
        BY <1>1, <3>1 DEF ReadControl
      <4> QED
        BY <4>1, <4>2, SentFacts, AppendProperties DEF TInv, TypeOK, Sent
    <3> QED
      BY <1>1, <3>1 DEF ReadControl
  <2> QED
    BY <1>1, <2>1, PauseFrame DEF ReadControl
<1>2. CASE PutPendingProjectShare(r)
  <2>1. queue \in [Emails -> Sent \cup {0}]
    BY DEF TInv, TypeOK
  <2>2. ASSUME NEW e \in Emails
        PROVE  queue'[e] \in {queue[e], 0} \/ (control.on /\ letter[queue'[e]].rev = control.rev)
    BY <1>2, <2>1 DEF PutPendingProjectShare, FenceOf
  <2> QED
    BY <1>2, <2>2, PauseFrame DEF PutPendingProjectShare
<1>3. CASE RevokePendingProjectShare(r) \/ MaterializePendingProjectGrant(r) \/ Retire(r)
  <2>1. ClearPair(req[r].n) \/ UNCHANGED <<queue, reverse>>
    BY <1>3 DEF RevokePendingProjectShare, MaterializePendingProjectGrant, Retire, DeleteIfMatch
  <2> QED
    BY <1>3, <2>1, Clearing, PauseFrame
       DEF RevokePendingProjectShare, MaterializePendingProjectGrant, Retire
<1>4. CASE \/ AddMember(r) \/ ReadPending(r) \/ ListPendingProjectShares(r)
           \/ ListProjectMembers(r) \/ DeleteProject(r) \/ Bootstrap(r) \/ ReadQueue(r) \/ Return(r)
  BY <1>4, PauseFrame DEF AddMember, ReadPending, ListPendingProjectShares,
     ListProjectMembers, DeleteProject, Bootstrap, ReadQueue, Return
<1> QED
  BY <1>1, <1>2, <1>3, <1>4

LEMMA PauseOther ==
    ASSUME TInv, CInv, PutRegisteredProjectMember \/ RemoveMember \/ Expire \/ Reap
    PROVE  CInv'
<1> USE DEF rows, stamp, pause, past
<1>1. \A e \in Emails : queue'[e] \in {queue[e], 0}
  BY DEF PutRegisteredProjectMember, RemoveMember, Expire, Reap, TInv, TypeOK
<1> QED
  BY <1>1, PauseFrame DEF PutRegisteredProjectMember, RemoveMember, Expire, Reap

\* A step of a command o that leaves the control row alone.
LEMMA CommandFrame ==
    ASSUME TInv, CInv, NEW o \in Operators, NEW c, Move(o, c),
           UNCHANGED <<control, revs, letter>>,
           \A e \in Emails : queue'[e] \in {queue[e], 0},
           c.rev <= revs,
           c.on /\ c.pc \in {"verify", "fence"} /\ control.rev = c.rev => ~control.on,
           Looked(c) /\ ~control.on /\ control.rev = c.rev => \A e \in Emails \ c.todo : queue[e] = 0,
           c.pc \in {"fence", "last", "done"} => c.todo = {},
           c.pc \in {"check", "act"} => ~c.on
    PROVE  CInv'
<1>1. op'[o] = c /\ \A x \in Operators \ {o} : op'[x] = op[x]
  BY DEF Move, TInv, TypeOK
<1>2. QueueOfThisEpoch'
  BY SentFacts DEF CInv, QueueOfThisEpoch
<1>3. Seen'
  BY <1>1 DEF CInv, Seen, Paused
<1>4. Revisions' /\ ResumeSaw' /\ Through'
  BY <1>1 DEF CInv, Revisions, ResumeSaw, Through
<1> QED
  BY <1>2, <1>3, <1>4 DEF CInv

LEMMA ScanningFields ==
    ASSUME NEW c \in Operator, NEW k \in Rev
    PROVE  LET d == Scanning(c, k) IN
           /\ d.rev = k /\ d.on = c.on /\ d.pc \in {"done", "check"}
           /\ d.pc = "done" => c.on /\ d.todo = {}
           /\ d.pc = "check" => ~c.on
<1>1. CASE c.on
  BY <1>1 DEF Scanning, Operator
<1>2. CASE ~c.on
  BY <1>2 DEF Scanning, Operator
<1> QED
  BY <1>1, <1>2

LEMMA PauseOperator ==
    ASSUME TInv, CInv, NEW o \in Operators,
           \/ Prepare(o) \/ Resume(o) \/ SetProjectInvitationControl(o) \/ ConfirmFence(o)
           \/ Check(o) \/ ScanPage(o) \/ RemovePending(o) \/ ScanEmpty(o) \/ LastCheck(o)
           \/ Interrupt(o)
    PROVE  CInv'
<1> USE DEF rows, stamp, pause, past, Apart
<1> DEFINE c == op[o]
<1>0. /\ c \in Operator /\ revs \in Nat /\ control.rev \in Nat /\ c.rev \in Nat
      /\ control.rev <= revs /\ c.rev <= revs
  BY DEF TInv, TypeOK, CInv, Revisions, Rev, Operator
<1>1. \A e \in Emails : queue'[e] \in {queue[e], 0}
  BY OperatorRows
<1>2. ASSUME Stop(o), UNCHANGED <<control, revs, letter>> PROVE CInv'
  <2>1. Off.rev <= revs /\ Off.pc = "off"
    BY <1>0 DEF Off
  <2> QED
    BY <1>1, <1>2, <2>1, CommandFrame DEF Stop, Looked
<1>3. CASE Prepare(o)
  <2> DEFINE d == [Off EXCEPT !.pc = "fence", !.rev = control.rev]
  <2>1. d.pc = "fence" /\ d.on = FALSE /\ d.rev = control.rev /\ d.todo = {}
    BY DEF Off
  <2>2. Move(o, d) /\ UNCHANGED <<control, revs, letter>>
    BY <1>3 DEF Prepare
  <2> HIDE DEF d
  <2> QED
    BY <1>0, <1>1, <2>1, <2>2, CommandFrame DEF Looked
<1>4. CASE Resume(o)
  <2> DEFINE d == [Off EXCEPT !.pc = "verify", !.on = TRUE, !.rev = control.rev, !.todo = Emails]
  <2>1. d.pc = "verify" /\ d.rev = control.rev /\ d.todo = Emails
    BY DEF Off
  <2>2. Move(o, d) /\ ~control.on /\ UNCHANGED <<control, revs, letter>>
    BY <1>4 DEF Resume
  <2> HIDE DEF d
  <2> QED
    BY <1>0, <1>1, <2>1, <2>2, CommandFrame
<1>5. CASE SetProjectInvitationControl(o)
  <2>1. CASE control.rev = c.rev
    <3>1. /\ control' = [on |-> c.on, rev |-> revs + 1] /\ revs' = revs + 1
          /\ UNCHANGED <<queue, letter>> /\ c.pc = "fence"
          /\ \/ Move(o, Scanning(c, revs + 1))
             \/ Move(o, [c EXCEPT !.pc = "confirm", !.rev = revs + 1])
      BY <1>5, <2>1 DEF SetProjectInvitationControl
    <3>2. control'.on = c.on /\ control'.rev = revs + 1
      BY <3>1
    <3>3. \A x \in Operators \ {o} : op'[x] = op[x] /\ op[x].rev <= revs /\ op[x].rev \in Nat
      BY <3>1 DEF Move, TInv, TypeOK, CInv, Revisions, Operator, Rev
    <3>4. /\ op'[o].pc \in {"confirm", "done", "check"} /\ op'[o].rev = revs + 1
          /\ op'[o].on = c.on /\ (op'[o].pc = "done" => c.on /\ op'[o].todo = {})
          /\ op'[o].pc = "check" => ~c.on
      <4>1. revs + 1 \in Rev
        BY <1>5 DEF SetProjectInvitationControl, TInv, TypeOK, Rev
      <4>2. CASE Move(o, Scanning(c, revs + 1))
        <5>1. op'[o] = Scanning(c, revs + 1)
          BY <4>2 DEF Move, TInv, TypeOK
        <5> QED
          BY <1>0, <4>1, <5>1, ScanningFields
      <4>3. CASE Move(o, [c EXCEPT !.pc = "confirm", !.rev = revs + 1])
        BY <1>0, <4>3 DEF Move, TInv, TypeOK, Operator
      <4> QED
        BY <3>1, <4>2, <4>3
    <3>5. QueueOfThisEpoch'
      <4>1. c.on => \A e \in Emails : queue[e] = 0
        BY <2>1, <3>1 DEF CInv, Seen, Looked, Paused, ResumeSaw, Through
      <4> QED
        BY <3>1, <3>2, <4>1 DEF QueueOfThisEpoch
    <3>6. Revisions'
      BY <1>0, <3>1, <3>2, <3>3, <3>4 DEF Revisions
    <3>7. ResumeSaw'
      BY <1>0, <3>2, <3>3, <3>4 DEF ResumeSaw
    <3>8. Seen'
      BY <1>0, <3>2, <3>3, <3>4 DEF Seen, Looked, Paused
    <3>9. Through'
      BY <3>3, <3>4 DEF CInv, Through
    <3> QED
      BY <3>5, <3>6, <3>7, <3>8, <3>9 DEF CInv
  <2> QED
    BY <1>2, <1>5, <2>1 DEF SetProjectInvitationControl
<1>6. CASE ConfirmFence(o)
  <2>1. CASE Move(o, Scanning(c, c.rev))
    <3> DEFINE d == Scanning(c, c.rev)
    <3>1. /\ d.pc \in {"done", "check"} /\ d.rev = c.rev /\ d.on = c.on
          /\ (d.pc = "done" => c.on /\ d.todo = {})
          /\ d.pc = "check" => ~c.on
      BY <1>0, ScanningFields DEF Operator
    <3>2. Move(o, d) /\ UNCHANGED <<control, revs, letter>>
      BY <1>6, <2>1 DEF ConfirmFence
    <3> HIDE DEF d
    <3> QED
      BY <1>0, <1>1, <3>1, <3>2, CommandFrame DEF Looked
  <2> QED
    BY <1>2, <1>6, <2>1 DEF ConfirmFence
<1>7. CASE Check(o)
  <2>1. CASE Paused(o)
    <3> DEFINE d == [c EXCEPT !.pc = "act"]
    <3>1. d.pc = "act" /\ d.rev = c.rev /\ d.on = c.on
      BY <1>0 DEF Operator
    <3>2. Move(o, d) /\ ~c.on /\ UNCHANGED <<control, revs, letter>>
      BY <1>7, <2>1 DEF Check, CInv, Through
    <3> HIDE DEF d
    <3> QED
      BY <1>0, <1>1, <3>1, <3>2, CommandFrame DEF Looked
  <2> QED
    BY <1>2, <1>7, <2>1 DEF Check
<1>8. ASSUME NEW d \in Operator, d.rev = c.rev, d.on = FALSE, Move(o, Turn(d)),
             UNCHANGED <<control, revs, letter>>
      PROVE  CInv'
  <2> DEFINE t == Turn(d)
  <2>1. /\ t.pc \in {"check", "verify"} /\ t.rev = c.rev /\ t.on = FALSE
        /\ t.pc = "verify" => t.todo = Emails
    BY <1>8 DEF Turn, Operator
  <2>2. Move(o, t)
    BY <1>8
  <2> HIDE DEF t
  <2> QED
    BY <1>0, <1>1, <1>8, <2>1, <2>2, CommandFrame DEF Looked
<1>9. CASE ScanPage(o)
  <2>1. PICK S \in SUBSET c.todo \ {{}} :
           Move(o, Turn([c EXCEPT !.todo = @ \ S, !.page = {queue[e] : e \in S} \ {0}]))
    BY <1>9 DEF ScanPage
  <2> DEFINE d == [c EXCEPT !.todo = @ \ S, !.page = {queue[e] : e \in S} \ {0}]
  <2>2. {queue[e] : e \in S} \ {0} \subseteq Id
    BY <1>0 DEF TInv, TypeOK, Operator, Sent, Id
  <2>3. d \in Operator /\ d.rev = c.rev /\ d.on = c.on
    BY <1>0, <2>2 DEF Operator
  <2>4. d.on = FALSE
    BY <1>0, <1>9, <2>3 DEF ScanPage, CInv, Through, Operator
  <2>5. UNCHANGED <<control, revs, letter>>
    BY <1>9 DEF ScanPage
  <2> QED
    BY <1>8, <2>1, <2>3, <2>4, <2>5
<1>10. CASE RemovePending(o)
  <2>1. PICK n \in c.page :
          IF Matches(n) THEN Move(o, Turn([c EXCEPT !.page = @ \ {n}])) ELSE Stop(o)
    BY <1>10 DEF RemovePending
  <2> DEFINE d == [c EXCEPT !.page = @ \ {n}]
  <2>2. d \in Operator /\ d.rev = c.rev /\ d.on = c.on
    BY <1>0 DEF Operator
  <2>3. d.on = FALSE
    BY <1>0, <1>10, <2>2 DEF RemovePending, CInv, Through, Operator
  <2>4. UNCHANGED <<control, revs, letter>>
    BY <1>10 DEF RemovePending
  <2> QED
    BY <1>2, <1>8, <2>1, <2>2, <2>3, <2>4
<1>11. CASE ScanEmpty(o)
  <2>1. PICK e \in c.todo :
          IF queue[e] # 0 THEN Stop(o)
          ELSE LET d == [c EXCEPT !.todo = @ \ {e}] IN
               Move(o, IF d.todo # {} THEN d
                       ELSE [d EXCEPT !.pc = IF d.on THEN "fence" ELSE "last"])
    BY <1>11 DEF ScanEmpty
  <2>2. UNCHANGED <<control, revs, letter>> /\ c.pc = "verify"
    BY <1>11 DEF ScanEmpty
  <2>3. CASE queue[e] = 0
    <3> DEFINE d == [c EXCEPT !.todo = @ \ {e}]
               t == IF d.todo # {} THEN d ELSE [d EXCEPT !.pc = IF d.on THEN "fence" ELSE "last"]
    <3>1. Move(o, t)
      BY <2>1, <2>3
    <3>2. /\ t.rev = c.rev /\ t.on = c.on /\ t.todo = c.todo \ {e}
          /\ t.pc \in {"verify", "fence", "last"} /\ (t.pc = "verify" \/ t.todo = {})
      BY <1>0, <2>2 DEF Operator
    <3> HIDE DEF t
    <3>3. c.on /\ control.rev = c.rev => ~control.on
      BY <2>2 DEF CInv, ResumeSaw
    <3>4. ~control.on /\ control.rev = c.rev => \A x \in Emails \ c.todo : queue[x] = 0
      BY <2>2 DEF CInv, Seen, Looked, Paused
    <3> QED
      BY <1>0, <1>1, <2>2, <2>3, <3>1, <3>2, <3>3, <3>4, CommandFrame
  <2> QED
    BY <1>2, <2>1, <2>2, <2>3
<1>12. CASE LastCheck(o)
  <2>1. CASE Paused(o)
    <3> DEFINE d == [c EXCEPT !.pc = "done"]
    <3>1. d.pc = "done" /\ d.rev = c.rev /\ d.on = c.on /\ d.todo = c.todo
      BY <1>0 DEF Operator
    <3>2. Move(o, d) /\ c.pc = "last" /\ UNCHANGED <<control, revs, letter>>
      BY <1>12, <2>1 DEF LastCheck
    <3> HIDE DEF d
    <3>3. c.todo = {}
      BY <3>2 DEF CInv, Through
    <3>4. ~c.on /\ ~control.on /\ control.rev = c.rev => \A x \in Emails : queue[x] = 0
      BY <3>2, <3>3 DEF CInv, Seen, Looked, Paused
    <3> QED
      BY <1>0, <1>1, <3>1, <3>2, <3>3, <3>4, CommandFrame DEF Looked
  <2> QED
    BY <1>2, <1>12, <2>1 DEF LastCheck
<1>13. CASE Interrupt(o)
  BY <1>2, <1>13 DEF Interrupt
<1> QED
  BY <1>3, <1>4, <1>5, <1>6, <1>7, <1>9, <1>10, <1>11, <1>12, <1>13

LEMMA PauseInit == Init => CInv
<1> SUFFICES ASSUME Init PROVE CInv
  OBVIOUS
<1>1. \A o \in Operators : op[o] = Off
  BY DEF Init
<1>2. Off.pc = "off" /\ Off.rev = 0 /\ Off.on = FALSE
  BY DEF Off
<1>3. control.rev = 0 /\ revs = 0 /\ \A e \in Emails : queue[e] = 0
  BY DEF Init
<1> QED
  BY <1>1, <1>2, <1>3 DEF CInv, Revisions, ResumeSaw, Seen, Looked, Through, QueueOfThisEpoch

LEMMA PauseStep == TInv /\ CInv /\ [Next]_vars => CInv'
<1> SUFFICES ASSUME TInv, CInv, [Next]_vars PROVE CInv'
  OBVIOUS
<1>1. CASE UNCHANGED vars
  BY <1>1, PauseFrame DEF vars, rows, stamp, pause, past
<1>2. CASE Next
  BY <1>2, PauseRequest, PauseOther, PauseOperator DEF Next
<1> QED
  BY <1>1, <1>2

\* While invitations are open, the queue holds those made since they were opened.
THEOREM OldEpochIsGone == Spec => []QueueOfThisEpoch
<1>1. CInv => QueueOfThisEpoch
  BY DEF CInv
<1> QED
  BY <1>1, TypeInit, TypeStep, PauseInit, PauseStep, PTL DEF Spec

\* The queue that was reported drained stays empty for as long as the pause.
THEOREM DrainIsLasting == Spec => []DrainHolds
<1>1. CInv => DrainHolds
  BY DEF CInv, DrainHolds, Seen, Looked, Through
<1> QED
  BY <1>1, TypeInit, TypeStep, PauseInit, PauseStep, PTL DEF Spec
=============================================================================
