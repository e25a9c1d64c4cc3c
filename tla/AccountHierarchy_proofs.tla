---------------------- MODULE AccountHierarchy_proofs ----------------------
(***************************************************************************)
(* Theorems about AccountHierarchy for any accounts, users, requests and   *)
(* any limit on the ancestors.                                             *)
(***************************************************************************)
EXTENDS AccountHierarchy, FiniteSetTheorems, TLAPS

USE NoAccountAssumption, BoundAssumption

-----------------------------------------------------------------------------
(* What a request knows. *)

\* Going up the observed links from c one cannot avoid n.
Upward(obs, c, n) ==
    \A S \in SUBSET Accounts :
        c \in S /\ (\A a \in S : obs[a] \in Accounts => obs[a] \in S) => n \in S

\* The walk of a move is a path from the new parent to where it stands, and the account
\* itself is not on it; the walk of an edit leads from its account to where it stands.
Walked(q) ==
    /\ q.pc = "child" => q.obs = NoLinks
    /\ q.pc = "commit" /\ q.kind # "edit" => q.next = None
    /\ q.pc \in {"walk", "commit"} /\ q.kind # "edit" =>
          /\ q.obs[q.child] = Unread
          /\ q.to = q.next \/ q.to \in Observed(q)
          /\ \A a \in Observed(q) : q.obs[a] = q.next \/ q.obs[a] \in Observed(q)
    /\ q.pc \in {"walk", "commit"} /\ q.kind = "edit" => Upward(q.obs, q.child, q.next)

Good(q) == q = Idle \/ (q \in Request /\ Walked(q))

WalkInv == \A r \in Requests : Good(req[r])

\* The requests' part of a step of r.
LEMMA OneRequest ==
    ASSUME req \in [Requests -> Request \cup {Idle}], WalkInv, NEW r \in Requests,
           NEW q, Good(q), req' = [req EXCEPT ![r] = q]
    PROVE  req' \in [Requests -> Request \cup {Idle}] /\ WalkInv'
<1>1. q \in Request \cup {Idle}
  BY DEF Good
<1>2. req' \in [Requests -> Request \cup {Idle}]
  BY <1>1
<1>3. ASSUME NEW x \in Requests PROVE Good(req'[x])
  BY DEF WalkInv
<1> QED
  BY <1>2, <1>3 DEF WalkInv

\* An observation of the account the walk of an edit stands at extends the walk.
LEMMA UpwardExtends ==
    ASSUME NEW obs \in [Accounts -> Link], NEW c \in Accounts, NEW n \in Accounts,
           NEW p \in Accounts, Upward(obs, c, n), obs[n] = Unread
    PROVE  Upward([obs EXCEPT ![n] = p], c, p)
<1> DEFINE new == [obs EXCEPT ![n] = p]
<1> SUFFICES ASSUME NEW S \in SUBSET Accounts, c \in S,
                    \A a \in S : new[a] \in Accounts => new[a] \in S
             PROVE  p \in S
  BY DEF Upward
<1>1. \A a \in S : obs[a] \in Accounts => obs[a] \in S
  <2> SUFFICES ASSUME NEW a \in S, obs[a] \in Accounts PROVE obs[a] \in S
    OBVIOUS
  <2>1. a # n
    OBVIOUS
  <2>2. new[a] = obs[a]
    BY <2>1
  <2> QED
    BY <2>2
<1>2. n \in S
  BY <1>1 DEF Upward
<1>3. new[n] = p
  BY DEF Link, Parent
<1> QED
  BY <1>2, <1>3

\* The members of a request.
LEMMA Fields ==
    ASSUME NEW q \in Request
    PROVE  /\ q.by \in Users /\ q.child \in Accounts /\ q.to \in Parent /\ q.expected \in Parent
           /\ q.next \in Parent /\ q.obs \in [Accounts -> Link] /\ q.left \in 1 .. MaxAttempts
           /\ q.kind \in {"move", "create", "edit"}
           /\ q.pc \in {"child", "walk", "commit", "answered"}
  BY DEF Request

\* A walk that starts is good.
LEMMA WalkingGood ==
    ASSUME NEW q \in Request, q.kind # "edit", NEW e \in Parent
    PROVE  /\ Good(Walking(q)) /\ Good([Walking(q) EXCEPT !.expected = e])
<1>1. NoLinks \in [Accounts -> Link]
  BY DEF NoLinks, Link
<1>2. Walking(q) \in Request /\ [Walking(q) EXCEPT !.expected = e] \in Request
  BY <1>1, Fields DEF Walking, Request
<1>3. ASSUME NEW x \in {Walking(q), [Walking(q) EXCEPT !.expected = e]} PROVE Walked(x)
  <2>1. x.obs = NoLinks /\ x.next = x.to /\ x.pc = "walk" /\ x.kind # "edit" /\ x.child \in Accounts
    BY Fields DEF Walking, Request
  <2>2. Observed(x) = {}
    BY <2>1 DEF Observed, NoLinks
  <2> QED
    BY <2>1, <2>2 DEF Walked, NoLinks
<1> QED
  BY <1>2, <1>3 DEF Good
-----------------------------------------------------------------------------
(* The steps of a request. *)

LEMMA BeginStep ==
    ASSUME TypeOK, WalkInv, NEW r \in Requests, Begin(r)
    PROVE  req' \in [Requests -> Request \cup {Idle}] /\ WalkInv'
<1>1. PICK k \in Kinds, u \in Users, a \in Accounts, p \in Parent :
          req' = [req EXCEPT ![r] = [pc |-> "child", kind |-> k, by |-> u, child |-> a,
                                     to |-> p, expected |-> None, next |-> None,
                                     obs |-> NoLinks, left |-> MaxAttempts]]
  BY DEF Begin
<1> DEFINE q == [pc |-> "child", kind |-> k, by |-> u, child |-> a, to |-> p, expected |-> None,
                 next |-> None, obs |-> NoLinks, left |-> MaxAttempts]
<1>2. NoLinks \in [Accounts -> Link] /\ MaxAttempts \in 1 .. MaxAttempts
  BY DEF NoLinks, Link
<1>3. q \in Request
  BY <1>2 DEF Request, Parent
<1>4. Walked(q)
  BY DEF Walked
<1>5. Good(q)
  BY <1>3, <1>4 DEF Good
<1> HIDE DEF q
<1> QED
  BY <1>1, <1>5, OneRequest DEF TypeOK, q

LEMMA ActiveRequest ==
    ASSUME req \in [Requests -> Request \cup {Idle}], WalkInv, NEW r \in Requests, Active(r)
    PROVE  req[r] \in Request /\ Walked(req[r]) /\ Good(Idle)
  BY DEF Active, WalkInv, Good

LEMMA ReadChildStep ==
    ASSUME TypeOK, WalkInv, NEW r \in Requests, ReadChild(r)
    PROVE  req' \in [Requests -> Request \cup {Idle}] /\ WalkInv'
<1> DEFINE q == req[r]
<1>1. q \in Request /\ Walked(q) /\ Good(Idle) /\ q.pc = "child"
  BY ActiveRequest DEF ReadChild, TypeOK
<1>2. CASE req' = [req EXCEPT ![r] = Idle]
  BY <1>1, <1>2, OneRequest DEF TypeOK
<1>3. CASE q.kind # "edit" /\ req' = [req EXCEPT ![r] = [Walking(q) EXCEPT !.expected = parent[q.child]]]
  <2>1. parent[q.child] \in Parent
    BY <1>1, Fields DEF TypeOK
  <2>2. Good([Walking(q) EXCEPT !.expected = parent[q.child]])
    BY <1>1, <1>3, <2>1, WalkingGood
  <2> QED
    BY <1>3, <2>2, OneRequest DEF TypeOK
<1>4. CASE q.kind # "edit" /\ req' = [req EXCEPT ![r] = Walking(q)]
  <2>1. Good(Walking(q))
    BY <1>1, <1>4, WalkingGood, Fields
  <2> QED
    BY <1>4, <2>1, OneRequest DEF TypeOK
<1>5. ASSUME NEW s \in {"commit", "walk"}, q.kind = "edit",
             req' = [req EXCEPT ![r] = [q EXCEPT !.pc = s, !.next = q.child]]
      PROVE  req' \in [Requests -> Request \cup {Idle}] /\ WalkInv'
  <2> DEFINE x == [q EXCEPT !.pc = s, !.next = q.child]
  <2>1. q.child \in Parent
    BY <1>1, Fields DEF Parent
  <2>2. x \in Request /\ x.next = q.child /\ x.kind = "edit" /\ x.child = q.child /\ x.pc = s
    BY <1>1, <1>5, <2>1, Fields DEF Request
  <2>3. Walked(x)
    BY <1>5, <2>2 DEF Walked, Upward
  <2>4. Good(x)
    BY <2>2, <2>3 DEF Good
  <2> HIDE DEF x
  <2> QED
    BY <1>5, <2>4, OneRequest DEF TypeOK, x
<1> QED
  BY <1>2, <1>3, <1>4, <1>5 DEF ReadChild, Answer

LEMMA ObserveAncestorStep ==
    ASSUME TypeOK, WalkInv, NEW r \in Requests, ObserveAncestor(r)
    PROVE  req' \in [Requests -> Request \cup {Idle}] /\ WalkInv'
<1> DEFINE q == req[r]
<1>1. q \in Request /\ Walked(q) /\ Good(Idle) /\ q.pc = "walk" /\ q.kind # "edit"
  BY ActiveRequest DEF ObserveAncestor, TypeOK
<1>2. CASE req' = [req EXCEPT ![r] = Idle]
  BY <1>1, <1>2, OneRequest DEF TypeOK
<1>3. CASE q.next = None /\ req' = [req EXCEPT ![r].pc = "commit"]
  <2> DEFINE x == [q EXCEPT !.pc = "commit"]
  <2>1. x \in Request
    BY <1>1, Fields DEF Request
  <2>2. x.pc = "commit" /\ x.kind = q.kind /\ x.next = q.next /\ x.obs = q.obs /\ x.to = q.to
        /\ x.child = q.child /\ Observed(x) = Observed(q)
    BY <1>1, Fields DEF Request, Observed
  <2>3. Walked(x)
    BY <1>1, <1>3, <2>2 DEF Walked
  <2>4. Good(x)
    BY <2>1, <2>3 DEF Good
  <2>5. req' = [req EXCEPT ![r] = x]
    BY <1>3
  <2> HIDE DEF x
  <2> QED
    BY <2>4, <2>5, OneRequest DEF TypeOK
<1>4. CASE /\ q.next # None /\ q.next # q.child /\ q.next \notin Observed(q)
           /\ req' = [req EXCEPT ![r].obs[q.next] = parent[q.next], ![r].next = parent[q.next]]
  <2> DEFINE up == parent[q.next]
             new == [q.obs EXCEPT ![q.next] = up]
             x == [q EXCEPT !.obs = new, !.next = up]
  <2>1. q.next \in Accounts /\ q.obs \in [Accounts -> Link] /\ q.child \in Accounts /\ q.to \in Parent
    BY <1>1, <1>4, Fields DEF Parent
  <2>2. up \in Parent /\ up # Unread /\ new \in [Accounts -> Link]
    BY <2>1 DEF TypeOK, Link, Parent
  <2>3. x \in Request /\ x.pc = "walk" /\ x.kind = q.kind /\ x.next = up /\ x.obs = new
        /\ x.to = q.to /\ x.child = q.child
    BY <1>1, <2>2, Fields DEF Request
  <2>4. Observed(x) = Observed(q) \cup {q.next}
    BY <2>1, <2>2, <2>3 DEF Observed
  <2>5. /\ q.obs[q.child] = Unread /\ (q.to = q.next \/ q.to \in Observed(q))
        /\ \A a \in Observed(q) : q.obs[a] = q.next \/ q.obs[a] \in Observed(q)
    BY <1>1 DEF Walked
  <2>6. x.obs[x.child] = Unread
    BY <1>4, <2>1, <2>3, <2>5
  <2>7. \A a \in Observed(x) : x.obs[a] = x.next \/ x.obs[a] \in Observed(x)
    BY <1>4, <2>1, <2>3, <2>4, <2>5 DEF Observed
  <2>8. Walked(x)
    BY <1>1, <2>3, <2>4, <2>5, <2>6, <2>7 DEF Walked
  <2>9. Good(x)
    BY <2>3, <2>8 DEF Good
  <2>10. req' = [req EXCEPT ![r] = x]
    BY <1>4
  <2> HIDE DEF x
  <2> QED
    BY <2>9, <2>10, OneRequest DEF TypeOK
<1> QED
  BY <1>2, <1>3, <1>4 DEF ObserveAncestor, Answer

LEMMA ObserveGrantStep ==
    ASSUME TypeOK, WalkInv, NEW r \in Requests, ObserveGrant(r)
    PROVE  req' \in [Requests -> Request \cup {Idle}] /\ WalkInv'
<1> DEFINE q == req[r]
<1>1. q \in Request /\ Walked(q) /\ Good(Idle) /\ q.pc = "walk" /\ q.kind = "edit"
  BY ActiveRequest DEF ObserveGrant, TypeOK
<1>2. CASE req' = [req EXCEPT ![r] = Idle]
  BY <1>1, <1>2, OneRequest DEF TypeOK
<1>3. ASSUME NEW s \in {"commit", "walk"}, live \subseteq Accounts,
             q.next \notin Observed(q), q.next \in live, parent[q.next] # None,
             req' = [req EXCEPT ![r].obs[q.next] = parent[q.next], ![r].next = parent[q.next],
                                ![r].pc = s]
      PROVE  req' \in [Requests -> Request \cup {Idle}] /\ WalkInv'
  <2> DEFINE up == parent[q.next]
             new == [q.obs EXCEPT ![q.next] = up]
             x == [q EXCEPT !.obs = new, !.next = up, !.pc = s]
  <2>1. q.next \in Accounts /\ q.obs \in [Accounts -> Link] /\ q.child \in Accounts
    BY <1>1, <1>3, Fields
  <2>2. up \in Accounts /\ new \in [Accounts -> Link]
    BY <1>3, <2>1 DEF TypeOK, Link, Parent
  <2>3. x \in Request /\ x.pc = s /\ x.kind = "edit" /\ x.next = up /\ x.obs = new
        /\ x.child = q.child
    BY <1>1, <1>3, <2>2, Fields DEF Request, Parent
  <2>4. q.obs[q.next] = Unread /\ Upward(q.obs, q.child, q.next)
    BY <1>1, <1>3, <2>1 DEF Observed, Walked
  <2>5. Upward(new, q.child, up)
    BY <2>1, <2>2, <2>4, UpwardExtends
  <2>6. Walked(x)
    BY <1>3, <2>3, <2>5 DEF Walked
  <2>7. Good(x)
    BY <2>3, <2>6 DEF Good
  <2>8. req' = [req EXCEPT ![r] = x]
    BY <1>3
  <2> HIDE DEF x
  <2> QED
    BY <2>7, <2>8, OneRequest DEF TypeOK
<1>4. live \subseteq Accounts
  BY DEF TypeOK
<1>5. \/ req' = [req EXCEPT ![r] = Idle]
      \/ /\ q.next \notin Observed(q) /\ q.next \in live /\ parent[q.next] # None
         /\ \E s \in {"commit", "walk"} :
               req' = [req EXCEPT ![r].obs[q.next] = parent[q.next], ![r].next = parent[q.next],
                                  ![r].pc = s]
  BY DEF ObserveGrant, Answer
<1> QED
  BY <1>2, <1>3, <1>4, <1>5

\* The end of an attempt: an answer, or another attempt.
LEMMA EndStep ==
    ASSUME TypeOK, WalkInv, NEW r \in Requests, Active(r), req[r].pc = "commit",
           Answered(r) \/ Retry(r) \/ Answer(r)
    PROVE  req' \in [Requests -> Request \cup {Idle}] /\ WalkInv'
<1> DEFINE q == req[r]
<1>1. q \in Request /\ Walked(q) /\ Good(Idle)
  BY ActiveRequest DEF TypeOK
<1>2. CASE req' = [req EXCEPT ![r] = Idle]
  BY <1>1, <1>2, OneRequest DEF TypeOK
<1>3. CASE Answered(r)
  <2> DEFINE x == [q EXCEPT !.pc = "answered"]
  <2>1. x \in Request /\ x.pc = "answered"
    BY <1>1, Fields DEF Request
  <2>2. Good(x)
    BY <2>1 DEF Good, Walked
  <2>3. req' = [req EXCEPT ![r] = x]
    BY <1>3 DEF Answered
  <2> HIDE DEF x
  <2> QED
    BY <2>2, <2>3, OneRequest DEF TypeOK
<1>4. CASE q.left # 1 /\ req' = [req EXCEPT ![r].pc = "child", ![r].left = @ - 1,
                                            ![r].obs = NoLinks, ![r].next = None]
  <2> DEFINE x == [q EXCEPT !.pc = "child", !.left = @ - 1, !.obs = NoLinks, !.next = None]
  <2>1. NoLinks \in [Accounts -> Link] /\ q.left - 1 \in 1 .. MaxAttempts /\ None \in Parent
    BY <1>1, <1>4, Fields DEF NoLinks, Link, Parent
  <2>2. x \in Request /\ x.pc = "child" /\ x.obs = NoLinks
    BY <1>1, <2>1, Fields DEF Request
  <2>3. Good(x)
    BY <2>2 DEF Good, Walked
  <2>4. req' = [req EXCEPT ![r] = x]
    BY <1>4
  <2> HIDE DEF x
  <2> QED
    BY <2>3, <2>4, OneRequest DEF TypeOK
<1> QED
  BY <1>2, <1>3, <1>4 DEF Retry, Answer
-----------------------------------------------------------------------------
(* Types. *)

RequestStep(r) ==
    \/ Begin(r) \/ ReadChild(r) \/ ObserveAncestor(r) \/ ObserveGrant(r)
    \/ UpdateAccountParent(r) \/ CreateAccount(r) \/ Edit(r) \/ Return(r)

Job_ == StartJob \/ ScanAccountHierarchyPage \/ EnsureAccountChildReference \/ EndJob \/ JobFails

LEMMA RequestsStep ==
    ASSUME TypeOK, WalkInv, [Next]_vars
    PROVE  req' \in [Requests -> Request \cup {Idle}] /\ WalkInv'
<1>1. ASSUME NEW r \in Requests, UpdateAccountParent(r) \/ CreateAccount(r) \/ Edit(r)
      PROVE  req' \in [Requests -> Request \cup {Idle}] /\ WalkInv'
  <2>1. Active(r) /\ req[r].pc = "commit"
    BY <1>1 DEF UpdateAccountParent, CreateAccount, Edit
  <2>2. Answered(r) \/ Retry(r) \/ Answer(r)
    BY <1>1 DEF UpdateAccountParent, CreateAccount, Edit
  <2> QED
    BY <2>1, <2>2, EndStep
<1>2. ASSUME NEW r \in Requests, Return(r)
      PROVE  req' \in [Requests -> Request \cup {Idle}] /\ WalkInv'
  BY <1>2, OneRequest DEF Return, Answer, Good, TypeOK
<1>3. ASSUME UNCHANGED req
      PROVE  req' \in [Requests -> Request \cup {Idle}] /\ WalkInv'
  BY <1>3 DEF TypeOK, WalkInv
<1>4. CASE AddMember \/ RemoveMember \/ Job_ \/ UNCHANGED vars
  BY <1>3, <1>4 DEF AddMember, RemoveMember, Job_, StartJob, ScanAccountHierarchyPage,
     EnsureAccountChildReference, EndJob, JobFails, vars
<1> QED
  BY <1>1, <1>2, <1>4, BeginStep, ReadChildStep, ObserveAncestorStep, ObserveGrantStep
  DEF Next, Job_

\* What is written about accounts by someone other than a move or a creation.
LEMMA QuietSteps ==
    ASSUME NEW r \in Requests,
           Begin(r) \/ ReadChild(r) \/ ObserveAncestor(r) \/ ObserveGrant(r) \/ Edit(r) \/ Return(r)
    PROVE  UNCHANGED <<live, parent, role, refs, job>>
  BY DEF Begin, ReadChild, ObserveAncestor, ObserveGrant, Edit, Return

\* A committing request has its fields.
LEMMA Committing ==
    ASSUME TypeOK, WalkInv, NEW r \in Requests, UpdateAccountParent(r) \/ CreateAccount(r)
    PROVE  /\ req[r] \in Request /\ Walked(req[r])
           /\ req[r].child \in Accounts /\ req[r].to \in Parent /\ req[r].by \in Users
           /\ req[r].expected \in Parent
           /\ req[r].pc = "commit" /\ req[r].kind # "edit"
<1>1. Active(r) /\ req[r].pc = "commit" /\ req[r].kind # "edit"
  BY DEF UpdateAccountParent, CreateAccount
<1>2. req[r] \in Request /\ Walked(req[r])
  BY <1>1, ActiveRequest DEF TypeOK
<1> QED
  BY <1>1, <1>2, Fields

LEMMA DataTypes ==
    ASSUME TypeOK, WalkInv, NoStaleReference, [Next]_vars
    PROVE  /\ live' \subseteq Accounts /\ parent' \in [Accounts -> Parent]
           /\ role' \in [Accounts -> [Users -> Role]] /\ refs' \subseteq Accounts \X Accounts
<1> USE DEF TypeOK
<1>0. \A p \in Parent, a \in Accounts : Reference(p, a) \subseteq Accounts \X Accounts
  BY DEF Reference, Parent
<1>1. ASSUME NEW r \in Requests, UpdateAccountParent(r)
      PROVE  /\ live' \subseteq Accounts /\ parent' \in [Accounts -> Parent]
             /\ role' \in [Accounts -> [Users -> Role]] /\ refs' \subseteq Accounts \X Accounts
  <2>1. req[r].child \in Accounts /\ req[r].to \in Parent
    BY <1>1, Committing
  <2>2. Reference(req[r].to, req[r].child) \subseteq Accounts \X Accounts
    BY <1>0, <2>1
  <2> QED
    BY <1>1, <2>1, <2>2 DEF UpdateAccountParent
<1>2. ASSUME NEW r \in Requests, CreateAccount(r)
      PROVE  /\ live' \subseteq Accounts /\ parent' \in [Accounts -> Parent]
             /\ role' \in [Accounts -> [Users -> Role]] /\ refs' \subseteq Accounts \X Accounts
  <2>1. req[r].child \in Accounts /\ req[r].to \in Parent /\ req[r].by \in Users
    BY <1>2, Committing
  <2>2. Reference(req[r].to, req[r].child) \subseteq Accounts \X Accounts
    BY <1>0, <2>1
  <2>3. live' \subseteq Accounts /\ parent' \in [Accounts -> Parent] /\ refs' \subseteq Accounts \X Accounts
    BY <1>2, <2>1, <2>2 DEF CreateAccount
  <2>4. ASSUME NEW o \in Users, NEW keep \in {"none", "member"}
        PROVE  [[u \in Users |-> "none"] EXCEPT ![req[r].by] = keep, ![o] = "owner"] \in [Users -> Role]
    BY <2>1 DEF Role
  <2>5. role' \in [Accounts -> [Users -> Role]]
    <3>1. CASE UNCHANGED role
      BY <3>1
    <3>2. CASE \E o \in Users, keep \in {"none", "member"} :
                  role' = [role EXCEPT ![req[r].child] =
                              [[u \in Users |-> "none"] EXCEPT ![req[r].by] = keep, ![o] = "owner"]]
      BY <2>1, <2>4, <3>2
    <3> QED
      BY <1>2, <3>1, <3>2 DEF CreateAccount
  <2> QED
    BY <2>3, <2>5
<1>3. ASSUME NEW r \in Requests,
             Begin(r) \/ ReadChild(r) \/ ObserveAncestor(r) \/ ObserveGrant(r) \/ Edit(r) \/ Return(r)
      PROVE  /\ live' \subseteq Accounts /\ parent' \in [Accounts -> Parent]
             /\ role' \in [Accounts -> [Users -> Role]] /\ refs' \subseteq Accounts \X Accounts
  BY <1>3, QuietSteps
<1>4. ASSUME AddMember \/ RemoveMember
      PROVE  /\ live' \subseteq Accounts /\ parent' \in [Accounts -> Parent]
             /\ role' \in [Accounts -> [Users -> Role]] /\ refs' \subseteq Accounts \X Accounts
  BY <1>4 DEF AddMember, RemoveMember, Role
<1>5. ASSUME EnsureAccountChildReference
      PROVE  /\ live' \subseteq Accounts /\ parent' \in [Accounts -> Parent]
             /\ role' \in [Accounts -> [Users -> Role]] /\ refs' \subseteq Accounts \X Accounts
  <2>1. PICK a \in OnPage :
           refs' = IF parent[a] = job.page[a] THEN refs \cup Reference(parent[a], a) ELSE refs
    BY <1>5 DEF EnsureAccountChildReference
  <2>2. a \in Accounts /\ parent[a] \in Parent
    BY DEF OnPage
  <2>3. Reference(parent[a], a) \subseteq Accounts \X Accounts
    BY <1>0, <2>2
  <2> QED
    BY <1>5, <2>1, <2>3 DEF EnsureAccountChildReference
<1>6. ASSUME StartJob \/ ScanAccountHierarchyPage \/ EndJob \/ JobFails \/ UNCHANGED vars
      PROVE  /\ live' \subseteq Accounts /\ parent' \in [Accounts -> Parent]
             /\ role' \in [Accounts -> [Users -> Role]] /\ refs' \subseteq Accounts \X Accounts
  BY <1>6 DEF StartJob, ScanAccountHierarchyPage, EndJob, JobFails, vars
<1> QED
  BY <1>1, <1>2, <1>3, <1>4, <1>5, <1>6 DEF Next

LEMMA JobType == ASSUME TypeOK, [Next]_vars PROVE job' \in Job
<1>0. job \in Job /\ job.page \in [Accounts -> Link] /\ job.todo \subseteq Accounts
  BY DEF TypeOK, Job
<1>1. NoLinks \in [Accounts -> Link]
  BY DEF NoLinks, Link
<1>2. CASE StartJob
  BY <1>1, <1>2 DEF StartJob, Job
<1>3. CASE ScanAccountHierarchyPage
  <2>1. PICK S \in SUBSET job.todo :
           job' = [job EXCEPT !.todo = @ \ S,
                              !.page = [a \in Accounts |->
                                           IF a \in S /\ parent[a] # None THEN parent[a] ELSE Unread]]
    BY <1>3 DEF ScanAccountHierarchyPage
  <2> DEFINE page == [a \in Accounts |-> IF a \in S /\ parent[a] # None THEN parent[a] ELSE Unread]
  <2>2. page \in [Accounts -> Link]
    BY DEF TypeOK, Link
  <2>3. job.todo \ S \subseteq Accounts
    BY <1>0
  <2> HIDE DEF page
  <2>4. [job EXCEPT !.todo = @ \ S, !.page = page] \in Job
    BY <1>0, <2>2, <2>3 DEF Job
  <2> QED
    BY <2>1, <2>4 DEF page
<1>4. CASE EnsureAccountChildReference
  <2>1. PICK a \in OnPage : job' = [job EXCEPT !.page[a] = Unread]
    BY <1>4 DEF EnsureAccountChildReference
  <2>2. [job.page EXCEPT ![a] = Unread] \in [Accounts -> Link]
    BY <1>0 DEF Link
  <2> QED
    BY <1>0, <2>1, <2>2 DEF Job
<1>5. CASE EndJob
  BY <1>0, <1>5 DEF EndJob, Job
<1>6. CASE JobFails
  BY <1>1, <1>6 DEF JobFails, NoJob, Job
<1>7. CASE UNCHANGED job
  BY <1>0, <1>7
<1>8. ASSUME NEW r \in Requests, RequestStep(r) PROVE UNCHANGED job
  BY <1>8, QuietSteps DEF RequestStep, UpdateAccountParent, CreateAccount
<1>9. ASSUME AddMember \/ RemoveMember \/ UNCHANGED vars PROVE UNCHANGED job
  BY <1>9 DEF AddMember, RemoveMember, vars
<1> QED
  BY <1>2, <1>3, <1>4, <1>5, <1>6, <1>7, <1>8, <1>9 DEF Next, RequestStep
-----------------------------------------------------------------------------
(* A link that is written, seen from the hierarchy and from its index. *)

Placed(c, p) ==
    /\ parent' = [parent EXCEPT ![c] = p]
    /\ refs' = (refs \ {<<parent[c], c>>}) \cup Reference(p, c)

\* The links that were walked hold when the transaction commits, and the account is not on
\* the path: a set of accounts closed under the new links that contains the account
\* contains its new parent, and its part on the path is closed under the old links.
LEMMA PlacedForest ==
    ASSUME TypeOK, Forest(parent), NEW q \in Request, Walked(q), q.pc = "commit",
           q.kind # "edit", ParentChecks(q), parent' = [parent EXCEPT ![q.child] = q.to]
    PROVE  Forest(parent')
<1>1. q.child \in Accounts /\ q.to \in Parent /\ q.obs \in [Accounts -> Link]
  BY Fields
<1>2. /\ q.next = None /\ q.obs[q.child] = Unread /\ (q.to = None \/ q.to \in Observed(q))
      /\ \A a \in Observed(q) : q.obs[a] = None \/ q.obs[a] \in Observed(q)
  BY DEF Walked
<1> SUFFICES ASSUME NEW S \in SUBSET Accounts, S # {}, \A a \in S : parent'[a] \in S
             PROVE  FALSE
  BY DEF Forest
<1>3. \A a \in Accounts : a # q.child => parent'[a] = parent[a]
  BY DEF TypeOK
<1>4. CASE q.child \notin S
  <2>1. \A a \in S : parent[a] \in S
    BY <1>3, <1>4
  <2> QED
    BY <2>1 DEF Forest
<1>5. CASE q.child \in S
  <2>1. parent'[q.child] = q.to
    BY <1>1 DEF TypeOK
  <2>2. q.to \in S /\ q.to # None
    BY <1>5, <2>1
  <2> DEFINE T == S \cap Observed(q)
  <2>3. q.to \in T
    BY <1>2, <2>2
  <2>4. ASSUME NEW a \in T PROVE parent[a] \in T
    <3>1. a # q.child
      BY <1>2 DEF Observed
    <3>2. parent[a] = q.obs[a]
      BY <2>2 DEF ParentChecks, LinksHold
    <3>3. parent[a] \in S
      BY <1>3, <3>1
    <3> QED
      BY <1>2, <3>2, <3>3
  <2>5. T \in SUBSET Accounts /\ T # {}
    BY <2>3
  <2> QED
    BY <2>4, <2>5 DEF Forest
<1> QED
  BY <1>4, <1>5

\* The index follows the link, and no other account's reference is touched.
LEMMA PlacedRefs ==
    ASSUME TypeOK, NoStaleReference, NEW c \in Accounts, NEW p \in Parent, Placed(c, p)
    PROVE  /\ NoStaleReference'
           /\ p # None => <<p, c>> \in refs'
           /\ \A a \in Accounts : a # c => /\ parent'[a] = parent[a]
                                           /\ <<parent[a], a>> \in refs => <<parent[a], a>> \in refs'
<1>1. parent'[c] = p /\ \A a \in Accounts : a # c => parent'[a] = parent[a]
  BY DEF Placed, TypeOK
<1>2. ASSUME NEW x \in refs' PROVE x \in Links'
  <2>1. CASE x \in Reference(p, c)
    BY <1>1, <2>1 DEF Reference, Links
  <2>2. CASE x \in refs /\ x # <<parent[c], c>>
    <3>1. PICK a \in Accounts : parent[a] # None /\ x = <<parent[a], a>>
      BY <2>2 DEF NoStaleReference, Links
    <3>2. a # c
      BY <2>2, <3>1
    <3> QED
      BY <1>1, <3>1, <3>2 DEF Links
  <2> QED
    BY <2>1, <2>2 DEF Placed
<1>3. p # None => <<p, c>> \in refs'
  BY DEF Placed, Reference
<1>4. ASSUME NEW a \in Accounts, a # c, <<parent[a], a>> \in refs PROVE <<parent[a], a>> \in refs'
  BY <1>4 DEF Placed
<1> QED
  BY <1>1, <1>2, <1>3, <1>4 DEF NoStaleReference

\* What has no META row has no parent either.
Rooted == \A a \in Accounts \ live : parent[a] = None

\* A link without a reference is still ahead of the job.
Ahead(a) ==
    \/ job.pc = "off"
    \/ <<parent[a], a>> \in refs
    \/ job.pc = "scan" /\ (a \in job.todo \/ job.page[a] = parent[a])

AheadInv == \A a \in Accounts : parent[a] # None => Ahead(a)

HierarchyInv == Acyclic /\ NoStaleReference /\ Rooted /\ AheadInv

LEMMA PlacedInv ==
    ASSUME TypeOK, HierarchyInv, NEW q \in Request, Walked(q), q.pc = "commit", q.kind # "edit",
           ParentChecks(q), Placed(q.child, q.to), q.child \in live', live \subseteq live',
           UNCHANGED job
    PROVE  HierarchyInv'
<1>1. q.child \in Accounts /\ q.to \in Parent
  BY Fields
<1>2. Acyclic'
  BY PlacedForest DEF HierarchyInv, Acyclic, Placed
<1>3. /\ NoStaleReference'
      /\ q.to # None => <<q.to, q.child>> \in refs'
      /\ \A a \in Accounts : a # q.child =>
            /\ parent'[a] = parent[a]
            /\ <<parent[a], a>> \in refs => <<parent[a], a>> \in refs'
  BY <1>1, PlacedRefs DEF HierarchyInv
<1>4. Rooted'
  BY <1>3 DEF HierarchyInv, Rooted
<1>5. parent'[q.child] = q.to
  BY <1>1 DEF Placed, TypeOK
<1>6. ASSUME NEW a \in Accounts, parent'[a] # None PROVE Ahead(a)'
  <2>1. CASE a = q.child
    BY <1>3, <1>5, <1>6, <2>1 DEF Ahead
  <2>2. CASE a # q.child
    BY <1>3, <1>6, <2>2 DEF Ahead, HierarchyInv, AheadInv
  <2> QED
    BY <2>1, <2>2
<1> QED
  BY <1>2, <1>3, <1>4, <1>6 DEF HierarchyInv, AheadInv

LEMMA JobStep ==
    ASSUME TypeOK, HierarchyInv, Job_ PROVE HierarchyInv'
<1>0. job \in Job /\ job.page \in [Accounts -> Link] /\ job.todo \subseteq Accounts
      /\ parent \in [Accounts -> Parent]
  BY DEF TypeOK, Job
<1>1. UNCHANGED <<live, parent>>
  BY DEF Job_, StartJob, ScanAccountHierarchyPage, EnsureAccountChildReference, EndJob, JobFails
<1>2. Acyclic' /\ Rooted'
  BY <1>1 DEF HierarchyInv, Acyclic, Rooted
<1>3. CASE EnsureAccountChildReference
  <2>1. PICK a \in OnPage :
           /\ refs' = IF parent[a] = job.page[a] THEN refs \cup Reference(parent[a], a) ELSE refs
           /\ job' = [job EXCEPT !.page[a] = Unread]
    BY <1>3 DEF EnsureAccountChildReference
  <2>2. a \in Accounts /\ Reference(parent[a], a) \subseteq Links
    BY DEF OnPage, Reference, Links
  <2>3. NoStaleReference'
    BY <1>1, <2>1, <2>2 DEF HierarchyInv, NoStaleReference, Links
  <2>4. /\ job'.pc = job.pc /\ job'.todo = job.todo
        /\ \A x \in Accounts : x # a => job'.page[x] = job.page[x]
    BY <1>0, <2>1 DEF Job
  <2>5. ASSUME NEW x \in Accounts, parent'[x] # None PROVE Ahead(x)'
    <3>1. Ahead(x) /\ parent'[x] = parent[x] /\ refs \subseteq refs'
      BY <1>1, <2>1, <2>5 DEF HierarchyInv, AheadInv
    <3>2. CASE x = a /\ job.page[a] = parent[a]
      BY <1>1, <2>1, <2>5, <3>2 DEF Ahead, Reference
    <3>3. CASE x # a \/ job.page[a] # parent[a]
      BY <2>4, <3>1, <3>3 DEF Ahead
    <3> QED
      BY <3>2, <3>3
  <2> QED
    BY <1>2, <2>3, <2>5 DEF HierarchyInv, AheadInv
<1>4. CASE ~EnsureAccountChildReference
  <2>1. UNCHANGED refs
    BY <1>4 DEF Job_, StartJob, ScanAccountHierarchyPage, EndJob, JobFails
  <2>2. NoStaleReference'
    BY <1>1, <2>1 DEF HierarchyInv, NoStaleReference, Links
  <2>3. ASSUME NEW x \in Accounts, parent'[x] # None PROVE Ahead(x)'
    <3>1. Ahead(x) /\ parent'[x] = parent[x] /\ parent[x] # None
      BY <1>1, <2>3 DEF HierarchyInv, AheadInv
    <3>2. CASE StartJob
      BY <3>2 DEF StartJob, Ahead
    <3>3. CASE ScanAccountHierarchyPage
      <4>1. PICK S \in SUBSET job.todo :
               job' = [job EXCEPT !.todo = @ \ S,
                                  !.page = [a \in Accounts |->
                                              IF a \in S /\ parent[a] # None THEN parent[a] ELSE Unread]]
        BY <3>3 DEF ScanAccountHierarchyPage
      <4>2. /\ job'.todo = job.todo \ S /\ job'.pc = job.pc
            /\ job'.page[x] = IF x \in S /\ parent[x] # None THEN parent[x] ELSE Unread
        BY <1>0, <4>1 DEF Job
      <4>3. job.page[x] = Unread
        BY <3>3 DEF ScanAccountHierarchyPage, OnPage
      <4>4. parent[x] # Unread
        BY <1>0 DEF Parent
      <4> QED
        BY <1>1, <2>1, <3>1, <4>2, <4>3, <4>4 DEF Ahead
    <3>4. CASE EndJob
      <4>1. job.page[x] = Unread /\ x \notin job.todo /\ parent[x] # Unread
        BY <1>0, <3>4 DEF EndJob, OnPage, Parent
      <4> QED
        BY <1>0, <1>1, <2>1, <3>1, <3>4, <4>1 DEF Ahead, EndJob
    <3>5. CASE JobFails
      BY <3>5 DEF JobFails, NoJob, Ahead
    <3> QED
      BY <1>4, <3>2, <3>3, <3>4, <3>5 DEF Job_
  <2> QED
    BY <1>2, <2>2, <2>3 DEF HierarchyInv, AheadInv
<1> QED
  BY <1>3, <1>4
-----------------------------------------------------------------------------
(* The theorems. *)

Inv == TypeOK /\ WalkInv /\ HierarchyInv

LEMMA InitInv == Init => Inv
<1> SUFFICES ASSUME Init PROVE Inv
  OBVIOUS
<1>1. TypeOK
  BY DEF Init, TypeOK, Links, NoJob, Job, NoLinks, Link, Role, Idle, Parent
<1>2. WalkInv
  BY DEF Init, WalkInv, Good
<1>3. HierarchyInv
  BY DEF Init, HierarchyInv, Acyclic, NoStaleReference, Rooted, AheadInv, Ahead, NoJob
<1> QED
  BY <1>1, <1>2, <1>3 DEF Inv

LEMMA StepInv == Inv /\ [Next]_vars => Inv'
<1> SUFFICES ASSUME TypeOK, WalkInv, HierarchyInv, [Next]_vars PROVE Inv'
  BY DEF Inv
<1>1. TypeOK' /\ WalkInv'
  <2>1. req' \in [Requests -> Request \cup {Idle}] /\ WalkInv'
    BY RequestsStep
  <2>2. /\ live' \subseteq Accounts /\ parent' \in [Accounts -> Parent]
        /\ role' \in [Accounts -> [Users -> Role]] /\ refs' \subseteq Accounts \X Accounts
    BY DataTypes DEF HierarchyInv
  <2>3. job' \in Job
    BY JobType
  <2> QED
    BY <2>1, <2>2, <2>3 DEF TypeOK
<1>2. ASSUME UNCHANGED <<live, parent, refs, job>> PROVE HierarchyInv'
  BY <1>2 DEF HierarchyInv, Acyclic, NoStaleReference, Links, Rooted, AheadInv, Ahead
<1>3. ASSUME NEW r \in Requests, UpdateAccountParent(r) PROVE HierarchyInv'
  <2>1. req[r] \in Request /\ Walked(req[r]) /\ req[r].child \in Accounts
        /\ req[r].pc = "commit" /\ req[r].kind # "edit"
    BY <1>3, Committing
  <2>2. CASE UNCHANGED <<parent, refs>>
    BY <1>2, <1>3, <2>2 DEF UpdateAccountParent
  <2>3. CASE /\ MoveChecks(req[r])
             /\ parent' = [parent EXCEPT ![req[r].child] = req[r].to]
             /\ refs' = (refs \ {<<req[r].expected, req[r].child>>})
                        \cup Reference(req[r].to, req[r].child)
    <3>1. ParentChecks(req[r]) /\ Placed(req[r].child, req[r].to) /\ req[r].child \in live
      BY <2>3 DEF MoveChecks, Placed
    <3>2. UNCHANGED <<live, job>>
      BY <1>3 DEF UpdateAccountParent
    <3> QED
      BY <2>1, <3>1, <3>2, PlacedInv
  <2> QED
    BY <1>3, <2>2, <2>3 DEF UpdateAccountParent
<1>4. ASSUME NEW r \in Requests, CreateAccount(r) PROVE HierarchyInv'
  <2>1. req[r] \in Request /\ Walked(req[r]) /\ req[r].child \in Accounts
        /\ req[r].pc = "commit" /\ req[r].kind # "edit"
    BY <1>4, Committing
  <2>2. CASE UNCHANGED <<live, parent, refs>>
    BY <1>2, <1>4, <2>2 DEF CreateAccount
  <2>3. CASE /\ CreateChecks(req[r]) /\ live' = live \cup {req[r].child}
             /\ parent' = [parent EXCEPT ![req[r].child] = req[r].to]
             /\ refs' = refs \cup Reference(req[r].to, req[r].child)
    <3>1. parent[req[r].child] = None
      BY <2>1, <2>3 DEF CreateChecks, HierarchyInv, Rooted
    <3>2. <<None, req[r].child>> \notin refs
      BY DEF TypeOK
    <3>3. Placed(req[r].child, req[r].to)
      BY <2>3, <3>1, <3>2 DEF Placed
    <3>4. ParentChecks(req[r]) /\ req[r].child \in live' /\ live \subseteq live'
      BY <2>3 DEF CreateChecks
    <3>5. UNCHANGED job
      BY <1>4 DEF CreateAccount
    <3> QED
      BY <2>1, <3>3, <3>4, <3>5, PlacedInv
  <2> QED
    BY <1>4, <2>2, <2>3 DEF CreateAccount
<1>5. ASSUME NEW r \in Requests,
             Begin(r) \/ ReadChild(r) \/ ObserveAncestor(r) \/ ObserveGrant(r) \/ Edit(r) \/ Return(r)
      PROVE  HierarchyInv'
  BY <1>2, <1>5, QuietSteps
<1>6. ASSUME Job_ PROVE HierarchyInv'
  BY <1>6, JobStep
<1>7. ASSUME AddMember \/ RemoveMember \/ UNCHANGED vars PROVE HierarchyInv'
  BY <1>2, <1>7 DEF AddMember, RemoveMember, vars
<1>8. HierarchyInv'
  BY <1>3, <1>4, <1>5, <1>6, <1>7 DEF Next, Job_
<1> QED
  BY <1>1, <1>8 DEF Inv

LEMMA InvHolds == Spec => []Inv
  BY InitInv, StepInv, PTL DEF Spec

\* Every reachable state is well typed; no request makes a fourth attempt.
THEOREM TypeCorrect == Spec => []TypeOK
<1>1. Inv => TypeOK
  BY DEF Inv
<1> QED
  BY <1>1, InvHolds, PTL

\* account_hierarchy.go:105-155: whatever moves and creations overlap, for any number of
\* accounts and requests, the accounts stay a forest.
THEOREM HierarchyIsAcyclic == Spec => []Acyclic
<1>1. Inv => Acyclic
  BY DEF Inv, HierarchyInv
<1> QED
  BY <1>1, InvHolds, PTL

\* account_children.go:57-98: no CHILDREF row names a parent the account does not have.
THEOREM ReferencesAreCurrent == Spec => []NoStaleReference
<1>1. Inv => NoStaleReference
  BY DEF Inv, HierarchyInv
<1> QED
  BY <1>1, InvHolds, PTL

\* account-hierarchy-bootstrap/main.go:28-111: when the job has ended no reference is
\* missing, whatever was moved or created during its scan.
THEOREM BootstrapIsComplete == Spec => []BootstrapComplete
<1>1. Inv => BootstrapComplete
  <2> SUFFICES ASSUME Inv, job.pc = "done", NEW x \in Links PROVE x \in refs
    BY DEF BootstrapComplete
  <2>1. PICK a \in Accounts : parent[a] # None /\ x = <<parent[a], a>>
    BY DEF Links
  <2> QED
    BY <2>1 DEF Inv, HierarchyInv, AheadInv, Ahead
<1> QED
  BY <1>1, InvHolds, PTL

\* resummary.go:436-501: an edit commits only for a member of the account or of an account
\* above it at that moment.
THEOREM EditsAreEntitled == Spec => EditsEntitled
<1> DEFINE Fenced == \A r \in Requests :
          req'[r].pc = "answered" /\ req[r].pc = "commit" /\ req[r].kind = "edit"
          => Entitled(req[r].by, req[r].child)
<1>1. Inv /\ [Next]_vars => [Fenced]_vars
  <2> SUFFICES ASSUME Inv, Next, NEW r \in Requests,
                      req'[r].pc = "answered", req[r].pc = "commit", req[r].kind = "edit"
               PROVE  Entitled(req[r].by, req[r].child)
    BY DEF vars
  <2>1. req \in [Requests -> Request \cup {Idle}] /\ Idle.pc = "idle"
    BY DEF Inv, TypeOK, Idle
  <2>2. Active(r)
    BY <2>1 DEF Active
  <2>3. req[r] \in Request /\ Walked(req[r])
    BY <2>1, <2>2, ActiveRequest DEF Inv
  <2>4. Edit(r)
    <3>1. ASSUME NEW s \in Requests, RequestStep(s), s # r PROVE req'[r] = req[r]
      BY <2>1, <3>1 DEF RequestStep, Begin, ReadChild, ObserveAncestor, ObserveGrant,
         UpdateAccountParent, CreateAccount, Edit, Return, Answer, Answered, Retry
    <3>2. ASSUME Return(r) PROVE FALSE
      BY <2>1, <3>2 DEF Return, Answer
    <3>3. ASSUME Begin(r) \/ ReadChild(r) \/ ObserveAncestor(r) \/ ObserveGrant(r)
                 \/ UpdateAccountParent(r) \/ CreateAccount(r) PROVE FALSE
      BY <2>2, <3>3 DEF Begin, ReadChild, ObserveAncestor, ObserveGrant, UpdateAccountParent,
         CreateAccount
    <3>4. ASSUME AddMember \/ RemoveMember \/ Job_ PROVE FALSE
      BY <3>4 DEF AddMember, RemoveMember, Job_, StartJob, ScanAccountHierarchyPage,
         EnsureAccountChildReference, EndJob, JobFails
    <3> QED
      BY <3>1, <3>2, <3>3, <3>4 DEF Next, RequestStep, Job_
  <2>5. Member(req[r].next, req[r].by) /\ LinksHold(req[r])
    BY <2>1, <2>4 DEF Edit, Answer
  <2>6. Upward(req[r].obs, req[r].child, req[r].next)
    BY <2>3 DEF Walked
  <2>7. ASSUME NEW S \in SUBSET Accounts, req[r].child \in S,
               \A x \in S : parent[x] # None => parent[x] \in S
        PROVE  \E x \in S : Member(x, req[r].by)
    <3>1. \A x \in S : req[r].obs[x] \in Accounts => req[r].obs[x] \in S
      BY <2>5, <2>7 DEF LinksHold, Observed
    <3>2. req[r].next \in S
      BY <2>6, <2>7, <3>1 DEF Upward
    <3> QED
      BY <2>5, <3>2
  <2> QED
    BY <2>7 DEF Entitled
<1>2. Spec => [][Fenced]_vars
  BY <1>1, InvHolds, PTL DEF Spec
<1> QED
  BY <1>2 DEF EditsEntitled
=============================================================================
