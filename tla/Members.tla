------------------------------ MODULE Members ------------------------------
(***************************************************************************)
(* Membership and ownership of one workspace: MemberService, WorkspaceGuard *)
(* as it protects the member and workspace routes, TransactionService.run  *)
(* around changeOwner, and the members rows of the workspace.  Every query *)
(* names the workspace, so workspaces do not interact and one is enough.   *)
(*                                                                         *)
(* A request performs one awaited query per step.  Inside a transaction an *)
(* UPDATE holds its row and stays invisible until COMMIT (read committed): *)
(* writes[r] is what r has written and not committed, and a write to a row *)
(* another transaction holds waits.  PostgreSQL ends a cycle of waits by   *)
(* aborting one of the transactions.                                       *)
(***************************************************************************)
CONSTANTS Users, Requests, NoUser

ASSUME Sentinel == NoUser \notin Users

Roles == {"owner", "admin", "member"}
\* DELETE .../members/:id, DELETE .../workspaces/:id, or the role of a PUT.
Ops == {"remove", "deleteWorkspace"} \cup Roles

VARIABLES
  workspace,  \* "unborn", "live" or "deleted"
  role,       \* committed role of every user, "none" without a row
  writes,     \* uncommitted writes of every request, "none" where it has none
  pc,         \* the query a request performs next
  op, actor, target,  \* what the request asks for, and who asks
  userRole,   \* removeMember's userRole
  heir,       \* changeOwner's ownerId
  shared,     \* history: requests that were not alone while in flight
  everOwner,  \* history: users who have been owners
  crossed     \* history: two transfers of ownership have been under way at once

history == <<everOwner, crossed>>
table == <<workspace, role, history>>
request == <<op, actor, target, shared>>
locals == <<userRole, heir>>
vars == <<table, writes, pc, request, locals>>

NoWrites == [u \in Users |-> "none"]
Locked(u, r) == \E s \in Requests \ {r} : writes[s][u] # "none"
Owners == {u \in Users : role[u] = "owner"}

\* From the read that finds the caller an owner to the COMMIT.
InTransfer == {"selectAdmin", "checkHeir", "promote", "demote", "commit"}
Transferring(r) ==
  \/ pc[r] \in InTransfer
  \/ pc[r] = "readMemberRole" /\ userRole[r] = "owner" /\ actor[r] = target[r]
NoteCrossing(r) ==
  crossed' = (crossed \/ /\ Transferring(r)'
                         /\ \E s \in Requests \ {r} : Transferring(s))

Init ==
  /\ workspace = "unborn"
  /\ role = [u \in Users |-> "none"]
  /\ writes = [r \in Requests |-> NoWrites]
  /\ pc = [r \in Requests |-> "idle"]
  /\ op = [r \in Requests |-> "remove"]
  /\ actor = [r \in Requests |-> NoUser]
  /\ target = [r \in Requests |-> NoUser]
  /\ userRole = [r \in Requests |-> "none"]
  /\ heir = [r \in Requests |-> NoUser]
  /\ shared = {}
  /\ everOwner = {}
  /\ crossed = FALSE

Goto(r, label) == pc' = [pc EXCEPT ![r] = label]

\* The request is over: an answer, or an exception and a ROLLBACK.
Finish(r) ==
  /\ Goto(r, "idle")
  /\ writes' = [writes EXCEPT ![r] = NoWrites]
  /\ op' = [op EXCEPT ![r] = "remove"]
  /\ actor' = [actor EXCEPT ![r] = NoUser]
  /\ target' = [target EXCEPT ![r] = NoUser]
  /\ shared' = shared \ {r}
  /\ userRole' = [userRole EXCEPT ![r] = "none"]
  /\ heir' = [heir EXCEPT ![r] = NoUser]

-----------------------------------------------------------------------------
(* The rest of the program                                                 *)

\* Both INSERTs become visible at the COMMIT.
CreateWorkspace(u) ==
  /\ workspace = "unborn"
  /\ workspace' = "live"
  /\ role' = [role EXCEPT ![u] = "owner"]
  /\ everOwner' = everOwner \cup {u}
  /\ UNCHANGED <<crossed, writes, pc, request, locals>>

\* addMember for an accepted invitation; the unique constraint refuses a row
\* that exists, the foreign key a workspace that does not.
AddMember(u) ==
  /\ workspace = "live" /\ role[u] = "none"
  /\ role' = [role EXCEPT ![u] = "member"]
  /\ UNCHANGED <<workspace, history, writes, pc, request, locals>>

-----------------------------------------------------------------------------
(* A request arrives: WorkspaceGuard reads the caller's role, and the       *)
(* handler branches on what was asked.  A refusal changes nothing.         *)

GuardAllows(u, o) ==
  IF o = "remove" THEN role[u] # "none" ELSE role[u] = "owner"

\* updateRole's branches: a given heir, a random admin, or a plain UPDATE.
FirstQuery(o, u, m) ==
  CASE o = "remove" -> "readUserRole"
    [] o = "deleteWorkspace" -> "deleteWorkspace"
    [] o = "owner" -> "checkHeir"
    [] o \in {"admin", "member"} /\ u = m -> "selectAdmin"
    [] o \in {"admin", "member"} /\ u # m -> "setRole"

Arrive(r) ==
  /\ pc[r] = "idle"
  /\ \E u \in Users, m \in Users, o \in Ops :
       /\ GuardAllows(u, o)
       /\ o = "deleteWorkspace" => m = u    \* no :memberId on that route
       /\ op' = [op EXCEPT ![r] = o]
       /\ actor' = [actor EXCEPT ![r] = u]
       /\ target' = [target EXCEPT ![r] = m]
       /\ heir' = [heir EXCEPT ![r] = IF o = "owner" THEN m ELSE NoUser]
       /\ Goto(r, FirstQuery(o, u, m))
  /\ LET busy == {s \in Requests : pc[s] # "idle"}
     IN shared' = IF busy = {} THEN shared ELSE shared \cup busy \cup {r}
  /\ NoteCrossing(r)
  /\ UNCHANGED <<workspace, role, everOwner, writes, userRole>>

-----------------------------------------------------------------------------
(* removeMember                                                            *)

ReadUserRole(r) ==
  /\ pc[r] = "readUserRole"
  /\ userRole' = [userRole EXCEPT ![r] = role[actor[r]]]
  /\ Goto(r, "readMemberRole")
  /\ UNCHANGED <<workspace, role, everOwner, writes, request, heir>>
  /\ NoteCrossing(r)

\* Mutant: admins may remove the owner (member.service.ts:112 dropped).
ForbiddenButOwner(mine, theirs, self) ==
  \/ mine = "admin" /\ theirs = "admin" /\ ~self
  \/ mine = "member" /\ theirs \in {"owner", "admin"}
  \/ mine = "member" /\ theirs = "member" /\ ~self

\* The two conditions that throw ForbiddenException.
Forbidden(mine, theirs, self) ==
  \/ mine = "admin" /\ theirs = "admin" /\ ~self
  \/ mine = "admin" /\ theirs = "owner"
  \/ mine = "member" /\ theirs \in {"owner", "admin"}
  \/ mine = "member" /\ theirs = "member" /\ ~self

\* Mutant: an owner who leaves appoints nobody (lines 125-127 dropped).
ReadMemberRoleNoHeir(r) ==
  /\ pc[r] = "readMemberRole"
  /\ IF role[target[r]] = "none"
        \/ Forbidden(userRole[r], role[target[r]], actor[r] = target[r])
     THEN Finish(r)
     ELSE Goto(r, "delete") /\ UNCHANGED <<writes, request, locals>>
  /\ UNCHANGED table

ReadMemberRole(r) ==
  LET self == actor[r] = target[r]
      theirs == role[target[r]]
  IN /\ pc[r] = "readMemberRole"
     /\ IF theirs = "none" \/ Forbidden(userRole[r], theirs, self)
        THEN Finish(r)
        ELSE /\ Goto(r, IF userRole[r] = "owner" /\ self THEN "selectAdmin"
                                                         ELSE "delete")
             /\ UNCHANGED <<writes, request, locals>>
     /\ UNCHANGED table

DeleteMember(r) ==
  /\ pc[r] = "delete"
  /\ ~Locked(target[r], r)
  /\ role' = [role EXCEPT ![target[r]] = "none"]
  /\ Finish(r)
  /\ UNCHANGED <<workspace, history>>

-----------------------------------------------------------------------------
(* changeOwner, in a transaction                                           *)

\* SELECT ... LIMIT 1 without an order: any admin.
SelectRandomAdmin(r) ==
  /\ pc[r] = "selectAdmin"
  /\ \/ /\ \E a \in Users :
             /\ role[a] = "admin"
             /\ heir' = [heir EXCEPT ![r] = a]
        /\ Goto(r, "checkHeir")
        /\ UNCHANGED <<writes, request, userRole>>
     \/ /\ \A a \in Users : role[a] # "admin"
        /\ Finish(r)
  /\ UNCHANGED table

CheckHeir(r) ==
  /\ pc[r] = "checkHeir"
  /\ IF role[heir[r]] = "none"
     THEN Finish(r)
     ELSE Goto(r, "promote") /\ UNCHANGED <<writes, request, locals>>
  /\ UNCHANGED table

\* UPDATE members SET role = v WHERE member = u, on the transaction's client;
\* no row, no effect, and the row count is not looked at.
Write(r, u, v) ==
  /\ ~Locked(u, r)
  /\ writes' = IF role[u] = "none" THEN writes
                                   ELSE [writes EXCEPT ![r][u] = v]

PromoteHeir(r) ==
  /\ pc[r] = "promote"
  /\ Write(r, heir[r], "owner")
  /\ Goto(r, "demote")
  /\ UNCHANGED <<table, request, locals>>

\* Mutant: the old owner is not demoted (lines 88-91 dropped).
KeepOwner(r) ==
  /\ pc[r] = "demote"
  /\ Goto(r, "commit")
  /\ UNCHANGED <<table, writes, request, locals>>

\* Mutant: the demotion names the workspace and no member (line 90 cut short).
DemoteEveryone(r) ==
  /\ pc[r] = "demote"
  /\ writes' = [writes EXCEPT ![r] = [u \in Users |->
       IF u = heir[r] \/ role[u] = "none" THEN writes[r][u] ELSE "admin"]]
  /\ Goto(r, "commit")
  /\ UNCHANGED <<table, request, locals>>

DemoteOwner(r) ==
  /\ pc[r] = "demote"
  /\ Write(r, actor[r], "admin")
  /\ Goto(r, "commit")
  /\ UNCHANGED <<table, request, locals>>

\* Mutant: the transaction is left open on a connection nobody uses any more
\* (Transaction.service.ts:14 dropped).
ReturnUncommitted(r) ==
  /\ pc[r] = "commit"
  /\ Goto(r, "idle")
  /\ UNCHANGED <<table, writes, request, locals>>

Commit(r) ==
  /\ pc[r] = "commit"
  /\ role' = [u \in Users |-> IF writes[r][u] = "none" THEN role[u]
                                                       ELSE writes[r][u]]
  /\ everOwner' = everOwner \cup {u \in Users : writes[r][u] = "owner"}
  /\ IF op[r] = "remove"
     THEN /\ writes' = [writes EXCEPT ![r] = NoWrites]
          /\ Goto(r, "delete")
          /\ UNCHANGED <<request, locals>>
     ELSE Finish(r)
  /\ UNCHANGED <<workspace, crossed>>

-----------------------------------------------------------------------------

\* updateRole's plain UPDATE; a missing row is a 404.
SetRole(r) ==
  /\ pc[r] = "setRole"
  /\ ~Locked(target[r], r)
  /\ role' = IF role[target[r]] = "none" THEN role
             ELSE [role EXCEPT ![target[r]] = op[r]]
  /\ Finish(r)
  /\ UNCHANGED <<workspace, history>>

\* The cascade to members waits for every row a transaction holds.
DeleteWorkspace(r) ==
  /\ pc[r] = "deleteWorkspace"
  /\ \A u \in Users : ~Locked(u, r)
  /\ workspace' = "deleted"
  /\ role' = [u \in Users |-> "none"]
  /\ Finish(r)
  /\ UNCHANGED history

\* A query fails, or the process stops and its connections are closed.
Fail(r) == pc[r] # "idle" /\ Finish(r) /\ UNCHANGED table

\* The rows the next query of a request has to lock.
Needs(r) ==
  CASE pc[r] = "promote" -> {heir[r]}
    [] pc[r] = "demote" -> {actor[r]}
    [] pc[r] \in {"delete", "setRole"} -> {target[r]}
    [] pc[r] = "deleteWorkspace" -> Users
    [] OTHER -> {}
WaitsFor(r, s) == r # s /\ \E u \in Needs(r) : writes[s][u] # "none"

\* Every member of a set of requests waits for, and holds up, another one.
Deadlocked(S) ==
  /\ S # {}
  /\ \A r \in S : (\E s \in S : WaitsFor(r, s)) /\ (\E s \in S : WaitsFor(s, r))
AbortVictim(r) ==
  /\ \E S \in SUBSET Requests : r \in S /\ Deadlocked(S)
  /\ Finish(r)
  /\ UNCHANGED table

\* What a request does once it has arrived, failures apart.
Proceed(r) ==
  \/ ReadUserRole(r) \/ ReadMemberRole(r) \/ DeleteMember(r)
  \/ SelectRandomAdmin(r) \/ CheckHeir(r)
  \/ PromoteHeir(r) \/ DemoteOwner(r) \/ Commit(r)
  \/ SetRole(r) \/ DeleteWorkspace(r) \/ AbortVictim(r)

Next ==
  \/ \E u \in Users : CreateWorkspace(u) \/ AddMember(u)
  \/ \E r \in Requests : Arrive(r) \/ Proceed(r) \/ Fail(r)

Spec == Init /\ [][Next]_vars

\* Each handler runs on while its queries can, and PostgreSQL serves the
\* waiters of a row in turn, so a query that can often run does run.
FairSpec == Spec /\ \A r \in Requests : SF_vars(Proceed(r))

-----------------------------------------------------------------------------
Labels == {"idle", "readUserRole", "readMemberRole", "delete", "selectAdmin",
           "checkHeir", "promote", "demote", "commit", "setRole",
           "deleteWorkspace"}
MaybeRole == Roles \cup {"none"}
MaybeUser == Users \cup {NoUser}

\* The shape of every variable; the roles are those the schema's CHECK allows.
TypeOK ==
  /\ workspace \in {"unborn", "live", "deleted"}
  /\ role \in [Users -> MaybeRole]
  /\ writes \in [Requests -> [Users -> MaybeRole]]
  /\ pc \in [Requests -> Labels]
  /\ op \in [Requests -> Ops]
  /\ actor \in [Requests -> MaybeUser]
  /\ target \in [Requests -> MaybeUser]
  /\ userRole \in [Requests -> MaybeRole]
  /\ heir \in [Requests -> MaybeUser]
  /\ shared \subseteq Requests
  /\ everOwner \subseteq Users
  /\ crossed \in BOOLEAN

\* Whatever requests overlap, nobody becomes an owner except by the commit of
\* someone who has been one: stale role reads never let an outsider, member or
\* admin hand out ownership (workspace.guard.ts:25-36, member.service.ts:125).
OwnershipGivenByOwners ==
  [][\A u \in Owners' \ Owners :
       \/ workspace = "unborn"
       \/ \E r \in Requests : pc[r] = "commit" /\ actor[r] \in everOwner]_vars

\* A removed user comes back as a plain member or not at all: no transfer that
\* was under way at the removal writes the row again
\* (member.service.ts:83-91, 129-132).
RemovedStaysOut ==
  [][\A u \in Users : role[u] = "none" /\ role'[u] # "none" =>
       workspace = "unborn" \/ role'[u] = "member"]_vars

\* No membership outlives its workspace, whatever was under way when it was
\* deleted (workspace.service.ts:77-80, schema.sql:62).
DeletedIsEmpty == workspace = "deleted" => \A u \in Users : role[u] = "none"

\* Membership read without its requests, transactions and locks: however they
\* interleave, the rows change as Roster says they may, and a transfer touches
\* the heir's row and its actor's and no third one (member.service.ts:83-91).
Roster == INSTANCE Roster WITH phase <- workspace, rank <- role,
                               trusted <- everOwner
ImplementsRoster == Roster!Spec

\* Every request is answered, also when transfers in opposite directions wait
\* for each other's rows (member.service.ts:83-91, Transaction.service.ts:9-22).
Answered == \A r \in Requests : pc[r] # "idle" ~> pc[r] = "idle"

-----------------------------------------------------------------------------
(* What the documentation promises of ownership and removal, where the      *)
(* requests that read the same roles do not overlap.                       *)

\* README.md:198, "transfer ownership": the old owner gives up what the new
\* one gets, so there are never two, whatever else is under way, as long as no
\* two transfers have been: both would find the same owner (workspace.guard.ts:25,
\* member.service.ts:83-91).
UncrossedOneOwner == crossed \/ \A u, v \in Owners : u = v

\* The messages of member.service.ts:115 and 123, "Admins cannot remove other
\* admins or the owner" and "Members can only remove themselves", told by the
\* roles of the two when the row goes; for a request that was alone, since the
\* roles are read before the DELETE.
LoneRemovalRespectsRank ==
  [][\A r \in Requests :
       DeleteMember(r) /\ r \notin shared /\ actor[r] # target[r] =>
         /\ role[actor[r]] = "admin" => role[target[r]] \notin {"owner", "admin"}
         /\ role[actor[r]] = "member" => role[target[r]] = "none"]_vars

\* README.md:106, "Automated owner succession to active admins or selected
\* members upon owner departure": a live workspace that has an owner keeps one,
\* unless requests overlap or an owner transfers ownership to himself and is
\* promoted, then demoted (member.service.ts:83-91).  Succession covers every
\* other way to leave, also after the earlier ones (lines 125-127, 141-144).
LoneOwnerReplaced ==
  [][/\ workspace = "live" /\ workspace' = "live"
     /\ Owners # {} /\ Owners' = {} /\ shared = {}
     => \E r \in Requests : pc[r] = "commit" /\ heir[r] = actor[r]]_vars
=============================================================================
