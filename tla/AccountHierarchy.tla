-------------------------- MODULE AccountHierarchy --------------------------
(***************************************************************************)
(* Accounts that hang below accounts.                                      *)
(*                                                                         *)
(* An account's META row names its parent.  A move, or a creation below a  *)
(* parent, walks from the new parent to the root with one read per         *)
(* ancestor and then writes in one transaction that checks every link it   *)
(* saw.  The same transaction keeps the CHILDREF rows, the index from a    *)
(* parent to its children; an operator's job writes those that are missing *)
(* for links of older versions.  An edit by a member of an ancestor        *)
(* account walks up until it meets the grant and fences what it walked.    *)
(*                                                                         *)
(* Requests run concurrently, and nothing is locked between a read and the *)
(* transaction.  Accounts are never deleted.                               *)
(***************************************************************************)
EXTENDS Naturals, FiniteSets

CONSTANTS
    Accounts, Users,
    Requests,       \* requests that can be in flight at once
    None,           \* no parent
    Unread,         \* no observation
    MaxAncestors,   \* AccountHierarchyMaxAncestors
    MaxAttempts,    \* accountHierarchyAttempts
    Kinds,          \* bound: the kinds of requests
    Jobs            \* bound: the bootstrap job runs

ASSUME NoAccountAssumption ==
    /\ None \notin Accounts /\ Unread \notin Accounts /\ Unread # None
ASSUME BoundAssumption ==
    /\ MaxAncestors \in Nat /\ MaxAttempts \in Nat \ {0}
    /\ Kinds \subseteq {"move", "create", "edit"} /\ Jobs \in BOOLEAN

VARIABLES
    live,     \* the accounts that have a META row
    parent,   \* parentAccountId of the META rows
    role,     \* the role in the MEMBER row of an account and a user
    refs,     \* the CHILDREF rows <<parent, child>>
    req,      \* the local state of each request
    job       \* the bootstrap job

vars == <<live, parent, role, refs, req, job>>

Parent == Accounts \cup {None}
Link   == Parent \cup {Unread}
NoLinks == [a \in Accounts |-> Unread]

\* ownerUserId is written once, with the owner's MEMBER row, and neither changes again:
\* the role stands for both.
Role == {"none", "member", "owner"}

Member(a, u) == role[a][u] # "none"
Owner(a, u)  == role[a][u] = "owner"

Request == [pc: {"child", "walk", "commit", "answered"}, kind: {"move", "create", "edit"},
            by: Users, child: Accounts, to: Parent, expected: Parent, next: Parent,
            obs: [Accounts -> Link], left: 1 .. MaxAttempts]

Idle == [pc |-> "idle"]

Observed(q) == {a \in Accounts : q.obs[a] # Unread}

Job == [pc: {"off", "scan", "done"}, todo: SUBSET Accounts, page: [Accounts -> Link]]

NoJob == [pc |-> "off", todo |-> {}, page |-> NoLinks]

Links == {<<parent[a], a>> : a \in {b \in Accounts : parent[b] # None}}

\* Every nonempty set of accounts has one whose parent is outside it.
Forest(up) == \A S \in SUBSET Accounts : S # {} => \E a \in S : up[a] \notin S

\* Rows of before the index may lack their reference.
Init ==
    /\ live \in SUBSET Accounts
    /\ parent \in [Accounts -> Parent] /\ Forest(parent)
    /\ \A a \in Accounts : /\ a \notin live => parent[a] = None
                           /\ parent[a] \in live \cup {None}
    /\ role \in [Accounts -> [Users -> {"none", "owner"}]]
    /\ \A a \in Accounts : /\ a \in live <=> \E u \in Users : Owner(a, u)
                           /\ \A u, v \in Users : Owner(a, u) /\ Owner(a, v) => u = v
    /\ refs \in SUBSET Links
    /\ req = [r \in Requests |-> Idle] /\ job = NoJob
-----------------------------------------------------------------------------
(* Requests. *)

Active(r) == req[r] # Idle

Answer(r) == req' = [req EXCEPT ![r] = Idle]

\* A request is made by anyone about anything: the code asks for no reason.
Begin(r) ==
    /\ ~Active(r)
    /\ \E k \in Kinds, u \in Users, a \in Accounts, p \in Parent :
          /\ k = "edit" => p = None
          /\ req' = [req EXCEPT ![r] = [pc |-> "child", kind |-> k, by |-> u, child |-> a,
                                        to |-> p, expected |-> None, next |-> None,
                                        obs |-> NoLinks, left |-> MaxAttempts]]
    /\ UNCHANGED <<live, parent, role, refs, job>>

Walking(q) == [q EXCEPT !.pc = "walk", !.next = q.to, !.obs = NoLinks]

\* What an attempt reads of the account itself: a move its META and the owner's row, a
\* creation whether the identifier is taken, an edit the requester's own MEMBER row.
ReadChild(r) ==
    LET q == req[r] IN
    /\ Active(r) /\ q.pc = "child"
    /\ \/ /\ q.kind = "move"
          /\ IF q.child \in live /\ Owner(q.child, q.by)
             THEN req' = [req EXCEPT ![r] = [Walking(q) EXCEPT !.expected = parent[q.child]]]
             ELSE Answer(r)
       \/ /\ q.kind = "create"
          /\ IF q.child \notin live THEN req' = [req EXCEPT ![r] = Walking(q)] ELSE Answer(r)
       \/ /\ q.kind = "edit"
          /\ req' = [req EXCEPT ![r] =
                        IF Member(q.child, q.by)
                        THEN [q EXCEPT !.pc = "commit", !.next = q.child]
                        ELSE [q EXCEPT !.pc = "walk", !.next = q.child]]
    /\ UNCHANGED <<live, parent, role, refs, job>>

\* One turn of observeAccountAncestors. The membership in the new parent is read with
\* its META; the transaction checks both again.
ObserveAncestor(r) ==
    LET q == req[r] IN
    /\ Active(r) /\ q.pc = "walk" /\ q.kind # "edit"
    /\ IF q.next = None
       THEN req' = [req EXCEPT ![r].pc = "commit"]
       ELSE IF \/ q.next = q.child \/ q.next \in Observed(q)
               \/ Cardinality(Observed(q)) >= MaxAncestors
               \/ q.next \notin live
               \/ q.next = q.to /\ ~Member(q.to, q.by)
            THEN Answer(r)
            ELSE req' = [req EXCEPT ![r].obs[q.next] = parent[q.next],
                                    ![r].next = parent[q.next]]
    /\ UNCHANGED <<live, parent, role, refs, job>>

\* One turn of accountTeamMemberChecks, which stops at the nearest ancestor that grants.
ObserveGrant(r) ==
    LET q == req[r] IN
    /\ Active(r) /\ q.pc = "walk" /\ q.kind = "edit"
    /\ IF \/ q.next \in Observed(q) \/ Cardinality(Observed(q)) > MaxAncestors
          \/ q.next \notin live \/ parent[q.next] = None
       THEN Answer(r)
       ELSE req' = [req EXCEPT ![r].obs[q.next] = parent[q.next],
                               ![r].next = parent[q.next],
                               ![r].pc = IF Member(parent[q.next], q.by) THEN "commit" ELSE "walk"]
    /\ UNCHANGED <<live, parent, role, refs, job>>

\* Mutant: the fence of an edit covers the granting row and not the way to it.
LinksHoldInMoves(q) == q.kind # "edit" => \A a \in Observed(q) : a \in live /\ parent[a] = q.obs[a]

\* Every link that was walked, checked in the transaction.
LinksHold(q) == \A a \in Observed(q) : a \in live /\ parent[a] = q.obs[a]

\* Mutant: the ancestors are only checked while they are walked.
ParentChecksWithoutLinks(q) == q.to # None => Member(q.to, q.by)

\* hierarchyParentChecks: nothing for a root.
ParentChecks(q) == q.to # None => Member(q.to, q.by) /\ LinksHold(q)

\* A refused or conflicting transaction starts the attempt again, three times in all.
Retry(r) ==
    IF req[r].left = 1
    THEN Answer(r)
    ELSE req' = [req EXCEPT ![r].pc = "child", ![r].left = @ - 1, ![r].obs = NoLinks,
                            ![r].next = None]

\* The answer to an edit that went through.
Answered(r) == req' = [req EXCEPT ![r].pc = "answered"]

\* Mutant: the move does not pin the parent it read.
MoveChecksUnpinned(q) == q.child \in live /\ Owner(q.child, q.by) /\ ParentChecks(q)

MoveChecks(q) == /\ q.child \in live /\ parent[q.child] = q.expected
                 /\ Owner(q.child, q.by) /\ ParentChecks(q)

Reference(p, a) == {<<p, a>>} \ {<<None, a>>}

\* UpdateAccountParent
UpdateAccountParent(r) ==
    LET q == req[r] IN
    /\ Active(r) /\ q.pc = "commit" /\ q.kind = "move"
    /\ \/ /\ MoveChecks(q)
          /\ parent' = [parent EXCEPT ![q.child] = q.to]
          /\ refs' = (refs \ {<<q.expected, q.child>>}) \cup Reference(q.to, q.child)
          /\ Answer(r)
       \/ Retry(r) /\ UNCHANGED <<parent, refs>>
    /\ UNCHANGED <<live, role, job>>

CreateChecks(q) == q.child \notin live /\ ParentChecks(q)

\* CreateAccountWithInitialMembers: the parent checks are about the requester, who need
\* not become the owner, nor stay as a member. CreateAccountWithParent is the case without
\* another owner, CreateAccount the one without a parent.
CreateAccount(r) ==
    LET q == req[r] IN
    /\ Active(r) /\ q.pc = "commit" /\ q.kind = "create"
    /\ \/ /\ CreateChecks(q)
          /\ live' = live \cup {q.child}
          /\ parent' = [parent EXCEPT ![q.child] = q.to]
          /\ \E o \in Users, keep \in {"none", "member"} :
                role' = [role EXCEPT ![q.child] =
                            [[u \in Users |-> "none"] EXCEPT ![q.by] = keep, ![o] = "owner"]]
          /\ refs' = refs \cup Reference(q.to, q.child)
          /\ Answer(r)
       \/ Retry(r) /\ UNCHANGED <<live, parent, role, refs>>
    /\ UNCHANGED job

\* An edit of a meeting of the account, with the grant fenced in its transaction.
Edit(r) ==
    LET q == req[r] IN
    /\ Active(r) /\ q.pc = "commit" /\ q.kind = "edit"
    /\ IF Member(q.next, q.by) /\ LinksHold(q) THEN Answered(r) ELSE Answer(r)
    /\ UNCHANGED <<live, parent, role, refs, job>>

\* The response, a failing call, or the end of the Lambda.
Return(r) ==
    /\ Active(r) /\ Answer(r)
    /\ UNCHANGED <<live, parent, role, refs, job>>
-----------------------------------------------------------------------------
(* Members. *)

\* AddMember: any member may; the owner's row is there from the beginning.
AddMember ==
    /\ \E a \in live, u, v \in Users :
          /\ Member(a, u) /\ ~Member(a, v)
          /\ role' = [role EXCEPT ![a][v] = "member"]
    /\ UNCHANGED <<live, parent, refs, req, job>>

\* RemoveMember: the owner may; the owner stays.
RemoveMember ==
    /\ \E a \in live, u, v \in Users :
          /\ Owner(a, u) /\ role[a][v] = "member"
          /\ role' = [role EXCEPT ![a][v] = "none"]
    /\ UNCHANGED <<live, parent, refs, req, job>>
-----------------------------------------------------------------------------
(* The bootstrap job, with -apply. *)

StartJob ==
    /\ Jobs /\ job.pc # "scan"
    /\ job' = [pc |-> "scan", todo |-> Accounts, page |-> NoLinks]
    /\ UNCHANGED <<live, parent, role, refs, req>>

OnPage == {a \in Accounts : job.page[a] # Unread}

\* A page holds the links as the scan met them; a row it met before it was created is
\* not on any page.
ScanAccountHierarchyPage ==
    /\ job.pc = "scan" /\ OnPage = {} /\ job.todo # {}
    /\ \E S \in SUBSET job.todo \ {{}} :
          job' = [job EXCEPT !.todo = @ \ S,
                             !.page = [a \in Accounts |->
                                          IF a \in S /\ parent[a] # None THEN parent[a] ELSE Unread]]
    /\ UNCHANGED <<live, parent, role, refs, req>>

\* EnsureAccountChildReference; a link that changed since is counted and skipped.
EnsureAccountChildReference ==
    /\ \E a \in OnPage :
          /\ refs' = IF parent[a] = job.page[a] THEN refs \cup Reference(parent[a], a) ELSE refs
          /\ job' = [job EXCEPT !.page[a] = Unread]
    /\ UNCHANGED <<live, parent, role, req>>

\* Mutant: the job ends with the last page it read.
EndJobEarly ==
    /\ job.pc = "scan" /\ job.todo = {}
    /\ job' = [job EXCEPT !.pc = "done"]
    /\ UNCHANGED <<live, parent, role, refs, req>>

EndJob ==
    /\ job.pc = "scan" /\ job.todo = {} /\ OnPage = {}
    /\ job' = [job EXCEPT !.pc = "done"]
    /\ UNCHANGED <<live, parent, role, refs, req>>

\* A failing call ends the job.
JobFails ==
    /\ job.pc = "scan" /\ job' = NoJob
    /\ UNCHANGED <<live, parent, role, refs, req>>
-----------------------------------------------------------------------------
Next ==
    \/ \E r \in Requests :
          \/ Begin(r) \/ ReadChild(r) \/ ObserveAncestor(r) \/ ObserveGrant(r)
          \/ UpdateAccountParent(r) \/ CreateAccount(r) \/ Edit(r) \/ Return(r)
    \/ AddMember \/ RemoveMember
    \/ StartJob \/ ScanAccountHierarchyPage \/ EnsureAccountChildReference
    \/ EndJob \/ JobFails

Spec == Init /\ [][Next]_vars
-----------------------------------------------------------------------------
TypeOK ==
    /\ live \subseteq Accounts /\ parent \in [Accounts -> Parent]
    /\ role \in [Accounts -> [Users -> Role]] /\ refs \subseteq Accounts \X Accounts
    /\ req \in [Requests -> Request \cup {Idle}] /\ job \in Job

\* Moves and creations that overlap never close a cycle, however their walks interleave
\* with each other's transactions.
Acyclic == Forest(parent)

\* The index never points from an account to one that is not its child: a member of the
\* old parent would go on discovering it.
NoStaleReference == refs \subseteq Links

\* Once the job has come to its end every account can be found from its parent, although
\* accounts were created and moved while it scanned.
BootstrapComplete == job.pc = "done" => Links \subseteq refs

\* The user is a member of the account or of an account above it.
Entitled(u, a) ==
    \A S \in SUBSET Accounts :
        a \in S /\ (\A x \in S : parent[x] # None => parent[x] \in S)
        => \E x \in S : Member(x, u)

\* An edit goes through only for who is entitled to it at that moment, also when the
\* account, or one between it and the granting one, moved away during the walk.
EditsEntitled ==
    [][\A r \in Requests :
          req'[r].pc = "answered" /\ req[r].pc = "commit" /\ req[r].kind = "edit"
          => Entitled(req[r].by, req[r].child)]_vars
=============================================================================
