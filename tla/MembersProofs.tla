--------------------------- MODULE MembersProofs ---------------------------
(* Proofs about Members, for any sets of users and requests.               *)
EXTENDS Members, TLAPS

\* The users a request has at hand are users when it needs them.
LocalsFit ==
  \A r \in Requests :
    /\ pc[r] # "idle" => actor[r] \in Users /\ target[r] \in Users
    /\ pc[r] \in {"checkHeir", "promote", "demote", "commit"} => heir[r] \in Users
    /\ pc[r] = "setRole" => op[r] \in {"admin", "member"}

\* A row with an uncommitted write exists, and one transaction holds it.
RowsHeld ==
  \A r \in Requests : \A u \in Users :
    writes[r][u] # "none" =>
      /\ role[u] # "none"
      /\ pc[r] \in {"demote", "commit"}
      /\ \A s \in Requests : s # r => writes[s][u] = "none"

\* There are members only while the workspace is live.
MembersOfLive == workspace # "live" => \A u \in Users : role[u] = "none"

\* Who is transferring ownership, or about to, has had it.
OwnersRecorded ==
  /\ Owners \subseteq everOwner
  /\ \A r \in Requests :
       pc[r] \in InTransfer \/ (pc[r] = "readMemberRole" /\ userRole[r] = "owner")
         => actor[r] \in everOwner

\* A request that meets another is noted; a request is sent to a workspace
\* that exists, and only its own removal leaves through a transfer.
MeetingsNoted ==
  \A r \in Requests :
    /\ \A s \in Requests : pc[r] # "idle" /\ pc[s] # "idle" /\ r # s => r \in shared
    /\ pc[r] # "idle" => workspace # "unborn"
    /\ pc[r] \in InTransfer /\ op[r] = "remove" => actor[r] = target[r]

\* A request that is alone decides on the roles as they are.
LoneReads ==
  \A r \in Requests \ shared :
    /\ pc[r] = "readUserRole" => role[actor[r]] # "none"
    /\ pc[r] = "readMemberRole" =>
         userRole[r] # "none" /\ userRole[r] = role[actor[r]]
    /\ pc[r] = "delete" /\ actor[r] # target[r] =>
         /\ userRole[r] # "none" /\ userRole[r] = role[actor[r]]
         /\ role[target[r]] # "none"
         /\ ~Forbidden(userRole[r], role[target[r]], FALSE)

\* Until two transfers cross, a transfer runs while no one but its actor is an
\* owner, and its two writes are the heir's and the actor's.
TransferAlone ==
  crossed \/
  \A r \in Requests :
    /\ \A s \in Requests : Transferring(r) /\ Transferring(s) => r = s
    /\ Transferring(r) => Owners \subseteq {actor[r]}
    /\ \A u \in Users : writes[r][u] = "owner" => u = heir[r]
    /\ pc[r] = "commit" =>
         writes[r][actor[r]] = "admin" \/ role[actor[r]] # "owner"

IInv ==
  /\ TypeOK /\ LocalsFit /\ RowsHeld /\ MembersOfLive /\ OwnersRecorded
  /\ MeetingsNoted /\ LoneReads /\ TransferAlone /\ UncrossedOneOwner

-----------------------------------------------------------------------------
\* Every step keeps the types.
LEMMA TypeStep ==
  ASSUME TypeOK, LocalsFit, [Next]_vars
  PROVE  TypeOK'
<1> USE Sentinel DEF TypeOK, MaybeRole, MaybeUser, Roles, Ops, LocalsFit, Labels, vars, table, history, request, locals
<1>1. ASSUME NEW u \in Users, CreateWorkspace(u) PROVE TypeOK'
  BY <1>1 DEF CreateWorkspace
<1>2. ASSUME NEW u \in Users, AddMember(u) PROVE TypeOK'
  BY <1>2 DEF AddMember
<1>3. ASSUME NEW r \in Requests, Arrive(r) PROVE TypeOK'
  BY <1>3 DEF Arrive, NoteCrossing, Goto, GuardAllows, FirstQuery, Ops, Roles
<1>4. ASSUME NEW r \in Requests, ReadUserRole(r) PROVE TypeOK'
  BY <1>4 DEF ReadUserRole, NoteCrossing, Goto
<1>5. ASSUME NEW r \in Requests, ReadMemberRole(r) PROVE TypeOK'
  <2>1. UNCHANGED table /\ (Finish(r) \/ (pc[r] = "readMemberRole" /\ UNCHANGED <<writes, request, locals>> /\ \E l \in {"selectAdmin", "delete"} : Goto(r, l)))
    BY <1>5 DEF ReadMemberRole
  <2>2. CASE Finish(r)
    BY <2>1, <2>2 DEF Finish, Goto, NoWrites
  <2>3. CASE pc[r] = "readMemberRole" /\ UNCHANGED <<writes, request, locals>> /\ \E l \in {"selectAdmin", "delete"} : Goto(r, l)
    BY <2>1, <2>3 DEF Goto
  <2> QED
    BY <2>1, <2>2, <2>3
<1>6. ASSUME NEW r \in Requests, DeleteMember(r) PROVE TypeOK'
  BY <1>6 DEF DeleteMember, Finish, Goto, NoWrites, Locked
<1>7. ASSUME NEW r \in Requests, SelectRandomAdmin(r) PROVE TypeOK'
  <2>1. UNCHANGED table /\ (Finish(r) \/ (UNCHANGED <<writes, request, userRole>> /\ Goto(r, "checkHeir") /\ \E a \in Users : heir' = [heir EXCEPT ![r] = a]))
    BY <1>7 DEF SelectRandomAdmin
  <2>2. CASE Finish(r)
    BY <2>1, <2>2 DEF Finish, Goto, NoWrites
  <2>3. CASE UNCHANGED <<writes, request, userRole>> /\ Goto(r, "checkHeir") /\ \E a \in Users : heir' = [heir EXCEPT ![r] = a]
    BY <2>1, <2>3 DEF Goto
  <2> QED
    BY <2>1, <2>2, <2>3
<1>8. ASSUME NEW r \in Requests, CheckHeir(r) PROVE TypeOK'
  <2>1. UNCHANGED table /\ (Finish(r) \/ (UNCHANGED <<writes, request, locals>> /\ Goto(r, "promote")))
    BY <1>8 DEF CheckHeir
  <2>2. CASE Finish(r)
    BY <2>1, <2>2 DEF Finish, Goto, NoWrites
  <2>3. CASE UNCHANGED <<writes, request, locals>> /\ Goto(r, "promote")
    BY <2>1, <2>3 DEF Goto
  <2> QED
    BY <2>1, <2>2, <2>3
<1>9. ASSUME NEW r \in Requests, PromoteHeir(r) PROVE TypeOK'
  BY <1>9 DEF PromoteHeir, Write, Goto, Locked
<1>10. ASSUME NEW r \in Requests, DemoteOwner(r) PROVE TypeOK'
  BY <1>10 DEF DemoteOwner, Write, Goto, Locked
<1>11. ASSUME NEW r \in Requests, Commit(r) PROVE TypeOK'
  <2>1. /\ workspace' = workspace
        /\ role' = [u \in Users |-> IF writes[r][u] = "none" THEN role[u]
                                                             ELSE writes[r][u]]
        /\ everOwner' = everOwner \cup {u \in Users : writes[r][u] = "owner"}
        /\ crossed' = crossed
        /\ \/ Finish(r)
           \/ /\ writes' = [writes EXCEPT ![r] = NoWrites]
              /\ Goto(r, "delete")
              /\ UNCHANGED <<request, locals>>
    BY <1>11 DEF Commit
  <2>2. CASE Finish(r)
    BY <2>1, <2>2 DEF Finish, Goto, NoWrites
  <2>3. CASE /\ writes' = [writes EXCEPT ![r] = NoWrites]
              /\ Goto(r, "delete")
              /\ UNCHANGED <<request, locals>>
    BY <2>1, <2>3 DEF Goto, NoWrites
  <2> QED
    BY <2>1, <2>2, <2>3
<1>12. ASSUME NEW r \in Requests, SetRole(r) PROVE TypeOK'
  BY <1>12 DEF SetRole, Finish, Goto, NoWrites, Locked
<1>13. ASSUME NEW r \in Requests, DeleteWorkspace(r) PROVE TypeOK'
  BY <1>13 DEF DeleteWorkspace, Finish, Goto, NoWrites, Locked
<1>14. ASSUME NEW r \in Requests, AbortVictim(r) PROVE TypeOK'
  BY <1>14 DEF AbortVictim, Finish, Goto, NoWrites
<1>15. ASSUME NEW r \in Requests, Fail(r) PROVE TypeOK'
  BY <1>15 DEF Fail, Finish, Goto, NoWrites
<1>16. CASE UNCHANGED vars
  BY <1>16
<1> QED
  BY <1>1, <1>2, <1>3, <1>4, <1>5, <1>6, <1>7, <1>8, <1>9, <1>10, <1>11, <1>12, <1>13, <1>14, <1>15, <1>16 DEF Next, Proceed

\* Requests keep carrying users.
LEMMA LocalsStep ==
  ASSUME TypeOK, LocalsFit, [Next]_vars
  PROVE  LocalsFit'
<1> USE Sentinel DEF TypeOK, MaybeRole, MaybeUser, Roles, Ops, LocalsFit, vars, table, history, request, locals
<1>1. ASSUME NEW u \in Users, CreateWorkspace(u) PROVE LocalsFit'
  BY <1>1 DEF CreateWorkspace
<1>2. ASSUME NEW u \in Users, AddMember(u) PROVE LocalsFit'
  BY <1>2 DEF AddMember
<1>3. ASSUME NEW r \in Requests, Arrive(r) PROVE LocalsFit'
  BY <1>3 DEF Arrive, NoteCrossing, Goto, GuardAllows, FirstQuery, Ops, Roles
<1>4. ASSUME NEW r \in Requests, ReadUserRole(r) PROVE LocalsFit'
  BY <1>4 DEF ReadUserRole, NoteCrossing, Goto
<1>5. ASSUME NEW r \in Requests, ReadMemberRole(r) PROVE LocalsFit'
  BY <1>5 DEF ReadMemberRole, Finish, Goto, NoWrites
<1>6. ASSUME NEW r \in Requests, DeleteMember(r) PROVE LocalsFit'
  BY <1>6 DEF DeleteMember, Finish, Goto, NoWrites, Locked
<1>7. ASSUME NEW r \in Requests, SelectRandomAdmin(r) PROVE LocalsFit'
  BY <1>7 DEF SelectRandomAdmin, Finish, Goto, NoWrites
<1>8. ASSUME NEW r \in Requests, CheckHeir(r) PROVE LocalsFit'
  BY <1>8 DEF CheckHeir, Finish, Goto, NoWrites
<1>9. ASSUME NEW r \in Requests, PromoteHeir(r) PROVE LocalsFit'
  BY <1>9 DEF PromoteHeir, Write, Goto, Locked
<1>10. ASSUME NEW r \in Requests, DemoteOwner(r) PROVE LocalsFit'
  BY <1>10 DEF DemoteOwner, Write, Goto, Locked
<1>11. ASSUME NEW r \in Requests, Commit(r) PROVE LocalsFit'
  BY <1>11 DEF Commit, Finish, Goto, NoWrites
<1>12. ASSUME NEW r \in Requests, SetRole(r) PROVE LocalsFit'
  BY <1>12 DEF SetRole, Finish, Goto, NoWrites, Locked
<1>13. ASSUME NEW r \in Requests, DeleteWorkspace(r) PROVE LocalsFit'
  BY <1>13 DEF DeleteWorkspace, Finish, Goto, NoWrites, Locked
<1>14. ASSUME NEW r \in Requests, AbortVictim(r) PROVE LocalsFit'
  BY <1>14 DEF AbortVictim, Finish, Goto, NoWrites
<1>15. ASSUME NEW r \in Requests, Fail(r) PROVE LocalsFit'
  BY <1>15 DEF Fail, Finish, Goto, NoWrites
<1>16. CASE UNCHANGED vars
  BY <1>16
<1> QED
  BY <1>1, <1>2, <1>3, <1>4, <1>5, <1>6, <1>7, <1>8, <1>9, <1>10, <1>11, <1>12, <1>13, <1>14, <1>15, <1>16 DEF Next, Proceed

\* Locks stay exclusive, and on rows that exist.
LEMMA HeldStep ==
  ASSUME TypeOK, LocalsFit, RowsHeld, [Next]_vars
  PROVE  RowsHeld'
<1> USE Sentinel DEF TypeOK, MaybeRole, MaybeUser, Roles, Ops, LocalsFit, RowsHeld, vars, table, history, request, locals
<1>1. ASSUME NEW u \in Users, CreateWorkspace(u) PROVE RowsHeld'
  BY <1>1 DEF CreateWorkspace
<1>2. ASSUME NEW u \in Users, AddMember(u) PROVE RowsHeld'
  BY <1>2 DEF AddMember
<1>3. ASSUME NEW r \in Requests, Arrive(r) PROVE RowsHeld'
  BY <1>3 DEF Arrive, NoteCrossing, Goto, GuardAllows, FirstQuery, Ops, Roles
<1>4. ASSUME NEW r \in Requests, ReadUserRole(r) PROVE RowsHeld'
  BY <1>4 DEF ReadUserRole, NoteCrossing, Goto
<1>5. ASSUME NEW r \in Requests, ReadMemberRole(r) PROVE RowsHeld'
  <2>1. UNCHANGED table /\ (Finish(r) \/ (pc[r] = "readMemberRole" /\ UNCHANGED <<writes, request, locals>> /\ \E l \in {"selectAdmin", "delete"} : Goto(r, l)))
    BY <1>5 DEF ReadMemberRole
  <2>2. CASE Finish(r)
    BY <2>1, <2>2 DEF Finish, Goto, NoWrites
  <2>3. CASE pc[r] = "readMemberRole" /\ UNCHANGED <<writes, request, locals>> /\ \E l \in {"selectAdmin", "delete"} : Goto(r, l)
    BY <2>1, <2>3 DEF Goto
  <2> QED
    BY <2>1, <2>2, <2>3
<1>6. ASSUME NEW r \in Requests, DeleteMember(r) PROVE RowsHeld'
  BY <1>6 DEF DeleteMember, Finish, Goto, NoWrites, Locked
<1>7. ASSUME NEW r \in Requests, SelectRandomAdmin(r) PROVE RowsHeld'
  <2>1. UNCHANGED table /\ pc[r] = "selectAdmin" /\ (Finish(r) \/ (UNCHANGED <<writes, request, userRole>> /\ Goto(r, "checkHeir") /\ \E a \in Users : heir' = [heir EXCEPT ![r] = a]))
    BY <1>7 DEF SelectRandomAdmin
  <2>2. CASE Finish(r)
    BY <2>1, <2>2 DEF Finish, Goto, NoWrites
  <2>3. CASE UNCHANGED <<writes, request, userRole>> /\ Goto(r, "checkHeir") /\ \E a \in Users : heir' = [heir EXCEPT ![r] = a]
    BY <2>1, <2>3 DEF Goto
  <2> QED
    BY <2>1, <2>2, <2>3
<1>8. ASSUME NEW r \in Requests, CheckHeir(r) PROVE RowsHeld'
  <2>1. UNCHANGED table /\ pc[r] = "checkHeir" /\ (Finish(r) \/ (UNCHANGED <<writes, request, locals>> /\ Goto(r, "promote")))
    BY <1>8 DEF CheckHeir
  <2>2. CASE Finish(r)
    BY <2>1, <2>2 DEF Finish, Goto, NoWrites
  <2>3. CASE UNCHANGED <<writes, request, locals>> /\ Goto(r, "promote")
    BY <2>1, <2>3 DEF Goto
  <2> QED
    BY <2>1, <2>2, <2>3
<1>9. ASSUME NEW r \in Requests, PromoteHeir(r) PROVE RowsHeld'
  BY <1>9 DEF PromoteHeir, Write, Goto, Locked
<1>10. ASSUME NEW r \in Requests, DemoteOwner(r) PROVE RowsHeld'
  BY <1>10 DEF DemoteOwner, Write, Goto, Locked
<1>11. ASSUME NEW r \in Requests, Commit(r) PROVE RowsHeld'
  <2>1. /\ workspace' = workspace
        /\ role' = [u \in Users |-> IF writes[r][u] = "none" THEN role[u]
                                                             ELSE writes[r][u]]
        /\ everOwner' = everOwner \cup {u \in Users : writes[r][u] = "owner"}
        /\ crossed' = crossed
        /\ \/ Finish(r)
           \/ /\ writes' = [writes EXCEPT ![r] = NoWrites]
              /\ Goto(r, "delete")
              /\ UNCHANGED <<request, locals>>
    BY <1>11 DEF Commit
  <2>2. CASE Finish(r)
    BY <2>1, <2>2 DEF Finish, Goto, NoWrites
  <2>3. CASE /\ writes' = [writes EXCEPT ![r] = NoWrites]
              /\ Goto(r, "delete")
              /\ UNCHANGED <<request, locals>>
    BY <2>1, <2>3 DEF Goto, NoWrites
  <2> QED
    BY <2>1, <2>2, <2>3
<1>12. ASSUME NEW r \in Requests, SetRole(r) PROVE RowsHeld'
  BY <1>12 DEF SetRole, Finish, Goto, NoWrites, Locked
<1>13. ASSUME NEW r \in Requests, DeleteWorkspace(r) PROVE RowsHeld'
  BY <1>13 DEF DeleteWorkspace, Finish, Goto, NoWrites, Locked
<1>14. ASSUME NEW r \in Requests, AbortVictim(r) PROVE RowsHeld'
  BY <1>14 DEF AbortVictim, Finish, Goto, NoWrites
<1>15. ASSUME NEW r \in Requests, Fail(r) PROVE RowsHeld'
  BY <1>15 DEF Fail, Finish, Goto, NoWrites
<1>16. CASE UNCHANGED vars
  BY <1>16
<1> QED
  BY <1>1, <1>2, <1>3, <1>4, <1>5, <1>6, <1>7, <1>8, <1>9, <1>10, <1>11, <1>12, <1>13, <1>14, <1>15, <1>16 DEF Next, Proceed

\* Only a live workspace gets members.
LEMMA LiveStep ==
  ASSUME TypeOK, LocalsFit, RowsHeld, MembersOfLive, [Next]_vars
  PROVE  MembersOfLive'
<1> USE Sentinel DEF TypeOK, MaybeRole, MaybeUser, Roles, Ops, LocalsFit, RowsHeld, MembersOfLive, vars, table, history, request, locals
<1>1. ASSUME NEW u \in Users, CreateWorkspace(u) PROVE MembersOfLive'
  BY <1>1 DEF CreateWorkspace
<1>2. ASSUME NEW u \in Users, AddMember(u) PROVE MembersOfLive'
  BY <1>2 DEF AddMember
<1>3. ASSUME NEW r \in Requests, Arrive(r) PROVE MembersOfLive'
  BY <1>3 DEF Arrive, NoteCrossing, Goto, GuardAllows, FirstQuery, Ops, Roles
<1>4. ASSUME NEW r \in Requests, ReadUserRole(r) PROVE MembersOfLive'
  BY <1>4 DEF ReadUserRole, NoteCrossing, Goto
<1>5. ASSUME NEW r \in Requests, ReadMemberRole(r) PROVE MembersOfLive'
  BY <1>5 DEF ReadMemberRole, Finish, Goto, NoWrites
<1>6. ASSUME NEW r \in Requests, DeleteMember(r) PROVE MembersOfLive'
  BY <1>6 DEF DeleteMember, Finish, Goto, NoWrites, Locked
<1>7. ASSUME NEW r \in Requests, SelectRandomAdmin(r) PROVE MembersOfLive'
  BY <1>7 DEF SelectRandomAdmin, Finish, Goto, NoWrites
<1>8. ASSUME NEW r \in Requests, CheckHeir(r) PROVE MembersOfLive'
  BY <1>8 DEF CheckHeir, Finish, Goto, NoWrites
<1>9. ASSUME NEW r \in Requests, PromoteHeir(r) PROVE MembersOfLive'
  BY <1>9 DEF PromoteHeir, Write, Goto, Locked
<1>10. ASSUME NEW r \in Requests, DemoteOwner(r) PROVE MembersOfLive'
  BY <1>10 DEF DemoteOwner, Write, Goto, Locked
<1>11. ASSUME NEW r \in Requests, Commit(r) PROVE MembersOfLive'
  BY <1>11 DEF Commit, Finish, Goto, NoWrites
<1>12. ASSUME NEW r \in Requests, SetRole(r) PROVE MembersOfLive'
  BY <1>12 DEF SetRole, Finish, Goto, NoWrites, Locked
<1>13. ASSUME NEW r \in Requests, DeleteWorkspace(r) PROVE MembersOfLive'
  BY <1>13 DEF DeleteWorkspace, Finish, Goto, NoWrites, Locked
<1>14. ASSUME NEW r \in Requests, AbortVictim(r) PROVE MembersOfLive'
  BY <1>14 DEF AbortVictim, Finish, Goto, NoWrites
<1>15. ASSUME NEW r \in Requests, Fail(r) PROVE MembersOfLive'
  BY <1>15 DEF Fail, Finish, Goto, NoWrites
<1>16. CASE UNCHANGED vars
  BY <1>16
<1> QED
  BY <1>1, <1>2, <1>3, <1>4, <1>5, <1>6, <1>7, <1>8, <1>9, <1>10, <1>11, <1>12, <1>13, <1>14, <1>15, <1>16 DEF Next, Proceed

\* Owners are recorded, and only they transfer.
LEMMA OwnersStep ==
  ASSUME TypeOK, LocalsFit, OwnersRecorded, [Next]_vars
  PROVE  OwnersRecorded'
<1> USE Sentinel DEF TypeOK, MaybeRole, MaybeUser, Roles, Ops, LocalsFit, OwnersRecorded, Owners, InTransfer, vars, table, history, request, locals
<1>1. ASSUME NEW u \in Users, CreateWorkspace(u) PROVE OwnersRecorded'
  BY <1>1 DEF CreateWorkspace
<1>2. ASSUME NEW u \in Users, AddMember(u) PROVE OwnersRecorded'
  BY <1>2 DEF AddMember
<1>3. ASSUME NEW r \in Requests, Arrive(r) PROVE OwnersRecorded'
  BY <1>3 DEF Arrive, NoteCrossing, Goto, GuardAllows, FirstQuery, Ops, Roles
<1>4. ASSUME NEW r \in Requests, ReadUserRole(r) PROVE OwnersRecorded'
  BY <1>4 DEF ReadUserRole, NoteCrossing, Goto
<1>5. ASSUME NEW r \in Requests, ReadMemberRole(r) PROVE OwnersRecorded'
  BY <1>5 DEF ReadMemberRole, Finish, Goto, NoWrites
<1>6. ASSUME NEW r \in Requests, DeleteMember(r) PROVE OwnersRecorded'
  BY <1>6 DEF DeleteMember, Finish, Goto, NoWrites, Locked
<1>7. ASSUME NEW r \in Requests, SelectRandomAdmin(r) PROVE OwnersRecorded'
  <2>1. UNCHANGED table /\ pc[r] = "selectAdmin" /\ (Finish(r) \/ (UNCHANGED <<writes, request, userRole>> /\ Goto(r, "checkHeir") /\ \E a \in Users : heir' = [heir EXCEPT ![r] = a]))
    BY <1>7 DEF SelectRandomAdmin
  <2>2. CASE Finish(r)
    BY <2>1, <2>2 DEF Finish, Goto, NoWrites
  <2>3. CASE UNCHANGED <<writes, request, userRole>> /\ Goto(r, "checkHeir") /\ \E a \in Users : heir' = [heir EXCEPT ![r] = a]
    BY <2>1, <2>3 DEF Goto
  <2> QED
    BY <2>1, <2>2, <2>3
<1>8. ASSUME NEW r \in Requests, CheckHeir(r) PROVE OwnersRecorded'
  <2>1. UNCHANGED table /\ pc[r] = "checkHeir" /\ (Finish(r) \/ (UNCHANGED <<writes, request, locals>> /\ Goto(r, "promote")))
    BY <1>8 DEF CheckHeir
  <2>2. CASE Finish(r)
    BY <2>1, <2>2 DEF Finish, Goto, NoWrites
  <2>3. CASE UNCHANGED <<writes, request, locals>> /\ Goto(r, "promote")
    BY <2>1, <2>3 DEF Goto
  <2> QED
    BY <2>1, <2>2, <2>3
<1>9. ASSUME NEW r \in Requests, PromoteHeir(r) PROVE OwnersRecorded'
  BY <1>9 DEF PromoteHeir, Write, Goto, Locked
<1>10. ASSUME NEW r \in Requests, DemoteOwner(r) PROVE OwnersRecorded'
  BY <1>10 DEF DemoteOwner, Write, Goto, Locked
<1>11. ASSUME NEW r \in Requests, Commit(r) PROVE OwnersRecorded'
  BY <1>11 DEF Commit, Finish, Goto, NoWrites
<1>12. ASSUME NEW r \in Requests, SetRole(r) PROVE OwnersRecorded'
  BY <1>12 DEF SetRole, Finish, Goto, NoWrites, Locked
<1>13. ASSUME NEW r \in Requests, DeleteWorkspace(r) PROVE OwnersRecorded'
  BY <1>13 DEF DeleteWorkspace, Finish, Goto, NoWrites, Locked
<1>14. ASSUME NEW r \in Requests, AbortVictim(r) PROVE OwnersRecorded'
  BY <1>14 DEF AbortVictim, Finish, Goto, NoWrites
<1>15. ASSUME NEW r \in Requests, Fail(r) PROVE OwnersRecorded'
  BY <1>15 DEF Fail, Finish, Goto, NoWrites
<1>16. CASE UNCHANGED vars
  BY <1>16
<1> QED
  BY <1>1, <1>2, <1>3, <1>4, <1>5, <1>6, <1>7, <1>8, <1>9, <1>10, <1>11, <1>12, <1>13, <1>14, <1>15, <1>16 DEF Next, Proceed

\* Meetings stay noted.
LEMMA MeetingsStep ==
  ASSUME TypeOK, LocalsFit, MembersOfLive, MeetingsNoted, [Next]_vars
  PROVE  MeetingsNoted'
<1> USE Sentinel DEF TypeOK, MaybeRole, MaybeUser, Roles, Ops, LocalsFit, MembersOfLive, MeetingsNoted, InTransfer, vars, table, history, request, locals
<1>1. ASSUME NEW u \in Users, CreateWorkspace(u) PROVE MeetingsNoted'
  BY <1>1 DEF CreateWorkspace
<1>2. ASSUME NEW u \in Users, AddMember(u) PROVE MeetingsNoted'
  BY <1>2 DEF AddMember
<1>3. ASSUME NEW r \in Requests, Arrive(r) PROVE MeetingsNoted'
  BY <1>3 DEF Arrive, NoteCrossing, Goto, GuardAllows, FirstQuery, Ops, Roles
<1>4. ASSUME NEW r \in Requests, ReadUserRole(r) PROVE MeetingsNoted'
  BY <1>4 DEF ReadUserRole, NoteCrossing, Goto
<1>5. ASSUME NEW r \in Requests, ReadMemberRole(r) PROVE MeetingsNoted'
  BY <1>5 DEF ReadMemberRole, Finish, Goto, NoWrites
<1>6. ASSUME NEW r \in Requests, DeleteMember(r) PROVE MeetingsNoted'
  BY <1>6 DEF DeleteMember, Finish, Goto, NoWrites, Locked
<1>7. ASSUME NEW r \in Requests, SelectRandomAdmin(r) PROVE MeetingsNoted'
  BY <1>7 DEF SelectRandomAdmin, Finish, Goto, NoWrites
<1>8. ASSUME NEW r \in Requests, CheckHeir(r) PROVE MeetingsNoted'
  BY <1>8 DEF CheckHeir, Finish, Goto, NoWrites
<1>9. ASSUME NEW r \in Requests, PromoteHeir(r) PROVE MeetingsNoted'
  BY <1>9 DEF PromoteHeir, Write, Goto, Locked
<1>10. ASSUME NEW r \in Requests, DemoteOwner(r) PROVE MeetingsNoted'
  BY <1>10 DEF DemoteOwner, Write, Goto, Locked
<1>11. ASSUME NEW r \in Requests, Commit(r) PROVE MeetingsNoted'
  BY <1>11 DEF Commit, Finish, Goto, NoWrites
<1>12. ASSUME NEW r \in Requests, SetRole(r) PROVE MeetingsNoted'
  BY <1>12 DEF SetRole, Finish, Goto, NoWrites, Locked
<1>13. ASSUME NEW r \in Requests, DeleteWorkspace(r) PROVE MeetingsNoted'
  BY <1>13 DEF DeleteWorkspace, Finish, Goto, NoWrites, Locked
<1>14. ASSUME NEW r \in Requests, AbortVictim(r) PROVE MeetingsNoted'
  BY <1>14 DEF AbortVictim, Finish, Goto, NoWrites
<1>15. ASSUME NEW r \in Requests, Fail(r) PROVE MeetingsNoted'
  BY <1>15 DEF Fail, Finish, Goto, NoWrites
<1>16. CASE UNCHANGED vars
  BY <1>16
<1> QED
  BY <1>1, <1>2, <1>3, <1>4, <1>5, <1>6, <1>7, <1>8, <1>9, <1>10, <1>11, <1>12, <1>13, <1>14, <1>15, <1>16 DEF Next, Proceed

\* No one changes a role between the reads of a lone request and its DELETE.
LEMMA ReadsStep ==
  ASSUME TypeOK, LocalsFit, MembersOfLive, MeetingsNoted, LoneReads, [Next]_vars
  PROVE  LoneReads'
<1> USE Sentinel DEF TypeOK, MaybeRole, MaybeUser, Roles, Ops, LocalsFit, MembersOfLive, MeetingsNoted, LoneReads, Forbidden, InTransfer, vars, table, history, request, locals
<1>1. ASSUME NEW u \in Users, CreateWorkspace(u) PROVE LoneReads'
  BY <1>1 DEF CreateWorkspace
<1>2. ASSUME NEW u \in Users, AddMember(u) PROVE LoneReads'
  BY <1>2 DEF AddMember
<1>3. ASSUME NEW r \in Requests, Arrive(r) PROVE LoneReads'
  BY <1>3 DEF Arrive, NoteCrossing, Goto, GuardAllows, FirstQuery, Ops, Roles
<1>4. ASSUME NEW r \in Requests, ReadUserRole(r) PROVE LoneReads'
  BY <1>4 DEF ReadUserRole, NoteCrossing, Goto
<1>5. ASSUME NEW r \in Requests, ReadMemberRole(r) PROVE LoneReads'
  BY <1>5 DEF ReadMemberRole, Finish, Goto, NoWrites
<1>6. ASSUME NEW r \in Requests, DeleteMember(r) PROVE LoneReads'
  BY <1>6 DEF DeleteMember, Finish, Goto, NoWrites, Locked
<1>7. ASSUME NEW r \in Requests, SelectRandomAdmin(r) PROVE LoneReads'
  <2>1. UNCHANGED table /\ pc[r] = "selectAdmin" /\ (Finish(r) \/ (UNCHANGED <<writes, request, userRole>> /\ Goto(r, "checkHeir") /\ \E a \in Users : heir' = [heir EXCEPT ![r] = a]))
    BY <1>7 DEF SelectRandomAdmin
  <2>2. CASE Finish(r)
    BY <2>1, <2>2 DEF Finish, Goto, NoWrites
  <2>3. CASE UNCHANGED <<writes, request, userRole>> /\ Goto(r, "checkHeir") /\ \E a \in Users : heir' = [heir EXCEPT ![r] = a]
    BY <2>1, <2>3 DEF Goto
  <2> QED
    BY <2>1, <2>2, <2>3
<1>8. ASSUME NEW r \in Requests, CheckHeir(r) PROVE LoneReads'
  <2>1. UNCHANGED table /\ pc[r] = "checkHeir" /\ (Finish(r) \/ (UNCHANGED <<writes, request, locals>> /\ Goto(r, "promote")))
    BY <1>8 DEF CheckHeir
  <2>2. CASE Finish(r)
    BY <2>1, <2>2 DEF Finish, Goto, NoWrites
  <2>3. CASE UNCHANGED <<writes, request, locals>> /\ Goto(r, "promote")
    BY <2>1, <2>3 DEF Goto
  <2> QED
    BY <2>1, <2>2, <2>3
<1>9. ASSUME NEW r \in Requests, PromoteHeir(r) PROVE LoneReads'
  BY <1>9 DEF PromoteHeir, Write, Goto, Locked
<1>10. ASSUME NEW r \in Requests, DemoteOwner(r) PROVE LoneReads'
  BY <1>10 DEF DemoteOwner, Write, Goto, Locked
<1>11. ASSUME NEW r \in Requests, Commit(r) PROVE LoneReads'
  <2>1. /\ pc[r] = "commit"
        /\ workspace' = workspace
        /\ role' = [u \in Users |-> IF writes[r][u] = "none" THEN role[u]
                                                             ELSE writes[r][u]]
        /\ everOwner' = everOwner \cup {u \in Users : writes[r][u] = "owner"}
        /\ crossed' = crossed
        /\ \/ Finish(r)
           \/ /\ op[r] = "remove"
              /\ writes' = [writes EXCEPT ![r] = NoWrites]
              /\ Goto(r, "delete")
              /\ UNCHANGED <<request, locals>>
    BY <1>11 DEF Commit
  <2>2. CASE Finish(r)
    BY <2>1, <2>2 DEF Finish, Goto, NoWrites
  <2>3. CASE /\ op[r] = "remove"
              /\ writes' = [writes EXCEPT ![r] = NoWrites]
              /\ Goto(r, "delete")
              /\ UNCHANGED <<request, locals>>
    BY <2>1, <2>3 DEF Goto, NoWrites
  <2> QED
    BY <2>1, <2>2, <2>3
<1>12. ASSUME NEW r \in Requests, SetRole(r) PROVE LoneReads'
  BY <1>12 DEF SetRole, Finish, Goto, NoWrites, Locked
<1>13. ASSUME NEW r \in Requests, DeleteWorkspace(r) PROVE LoneReads'
  BY <1>13 DEF DeleteWorkspace, Finish, Goto, NoWrites, Locked
<1>14. ASSUME NEW r \in Requests, AbortVictim(r) PROVE LoneReads'
  BY <1>14 DEF AbortVictim, Finish, Goto, NoWrites
<1>15. ASSUME NEW r \in Requests, Fail(r) PROVE LoneReads'
  BY <1>15 DEF Fail, Finish, Goto, NoWrites
<1>16. CASE UNCHANGED vars
  BY <1>16
<1> QED
  BY <1>1, <1>2, <1>3, <1>4, <1>5, <1>6, <1>7, <1>8, <1>9, <1>10, <1>11, <1>12, <1>13, <1>14, <1>15, <1>16 DEF Next, Proceed

\* A transfer stays alone until it is crossed.
LEMMA AloneStep ==
  ASSUME TypeOK, LocalsFit, RowsHeld, MembersOfLive, MeetingsNoted, UncrossedOneOwner, TransferAlone, [Next]_vars
  PROVE  TransferAlone'
<1> USE Sentinel DEF TypeOK, MaybeRole, MaybeUser, Roles, Ops, LocalsFit, RowsHeld, MembersOfLive, MeetingsNoted, UncrossedOneOwner, TransferAlone, Transferring, Owners, InTransfer, vars, table, history, request, locals
<1>1. ASSUME NEW u \in Users, CreateWorkspace(u) PROVE TransferAlone'
  BY <1>1 DEF CreateWorkspace
<1>2. ASSUME NEW u \in Users, AddMember(u) PROVE TransferAlone'
  BY <1>2 DEF AddMember
<1>3. ASSUME NEW r \in Requests, Arrive(r) PROVE TransferAlone'
  <2>1. CASE crossed'
    BY <2>1
  <2>2. CASE ~crossed'
    <3>1. /\ ~crossed
          /\ Transferring(r)' => \A s \in Requests \ {r} : ~Transferring(s)
      BY <1>3, <2>2 DEF Arrive, NoteCrossing
    <3>2. PICK u \in Users, o \in Ops :
            /\ GuardAllows(u, o)
            /\ actor' = [actor EXCEPT ![r] = u]
            /\ \E m \in Users : Goto(r, FirstQuery(o, u, m))
            /\ \E h \in MaybeUser : heir' = [heir EXCEPT ![r] = h]
      BY <1>3 DEF Arrive
    <3>3. pc[r] = "idle" /\ UNCHANGED <<role, writes, userRole>>
      BY <1>3 DEF Arrive
    <3>4. \A s \in Requests \ {r} : UNCHANGED <<pc[s], actor[s], target[s], heir[s]>>
      BY <1>3 DEF Arrive, Goto
    <3>5. \A s \in Requests \ {r} : Transferring(s)' <=> Transferring(s)
      BY <3>3, <3>4
    <3>6. Transferring(r)' => Owners \subseteq {actor'[r]}
      <4>1. ASSUME Transferring(r)' PROVE role[u] = "owner"
        <5>1. pc'[r] # "readMemberRole" /\ pc'[r] # "readUserRole"
          BY <3>2, <4>1 DEF Goto, FirstQuery
        <5>2. o # "remove"
          BY <3>2, <5>1 DEF Goto, FirstQuery
        <5> QED
          BY <3>2, <5>2 DEF GuardAllows
      <4>2. actor'[r] = u
        BY <3>2
      <4> QED
        BY <3>1, <4>1, <4>2
    <3>7. pc'[r] # "commit"
      BY <3>2 DEF Goto, FirstQuery
    <3> QED
      <4>1. ASSUME NEW q \in Requests, NEW s \in Requests, Transferring(q)', Transferring(s)'
            PROVE  q = s
        BY <3>1, <3>5, <4>1
      <4>2. ASSUME NEW q \in Requests, Transferring(q)' PROVE Owners' \subseteq {actor'[q]}
        BY <3>1, <3>3, <3>4, <3>5, <3>6, <4>2
      <4>3. ASSUME NEW q \in Requests, NEW v \in Users, writes'[q][v] = "owner"
            PROVE  v = heir'[q]
        BY <3>1, <3>3, <3>4, <4>3
      <4>4. ASSUME NEW q \in Requests, pc'[q] = "commit"
            PROVE  writes'[q][actor'[q]] = "admin" \/ role'[actor'[q]] # "owner"
        BY <3>1, <3>3, <3>4, <3>7, <4>4
      <4> QED
        BY <4>1, <4>2, <4>3, <4>4
  <2> QED
    BY <2>1, <2>2
<1>4. ASSUME NEW r \in Requests, ReadUserRole(r) PROVE TransferAlone'
  <2>1. CASE crossed'
    BY <2>1
  <2>2. CASE ~crossed'
    <3>1. /\ ~crossed
          /\ Transferring(r)' => \A s \in Requests \ {r} : ~Transferring(s)
      <4> HIDE DEF Transferring
      <4>1. NoteCrossing(r)
        BY <1>4 DEF ReadUserRole
      <4> QED
        BY <2>2, <4>1, Zenon DEF NoteCrossing
    <3>2. /\ UNCHANGED <<role, writes, actor, target, heir>>
          /\ pc[r] = "readUserRole" /\ pc'[r] = "readMemberRole"
          /\ userRole'[r] = role[actor[r]]
          /\ \A s \in Requests \ {r} : UNCHANGED <<pc[s], userRole[s]>>
      BY <1>4 DEF ReadUserRole, Goto
    <3>3. \A s \in Requests \ {r} : Transferring(s)' <=> Transferring(s)
      BY <3>2
    <3>4. Transferring(r)' => Owners \subseteq {actor[r]}
      BY <3>1, <3>2
    <3> QED
      <4>1. ASSUME NEW q \in Requests, NEW s \in Requests, Transferring(q)', Transferring(s)'
            PROVE  q = s
        BY <3>1, <3>3, <4>1
      <4>2. ASSUME NEW q \in Requests, Transferring(q)' PROVE Owners' \subseteq {actor'[q]}
        BY <3>1, <3>2, <3>3, <3>4, <4>2
      <4>3. ASSUME NEW q \in Requests, NEW v \in Users, writes'[q][v] = "owner"
            PROVE  v = heir'[q]
        BY <3>1, <3>2, <4>3
      <4>4. ASSUME NEW q \in Requests, pc'[q] = "commit"
            PROVE  writes'[q][actor'[q]] = "admin" \/ role'[actor'[q]] # "owner"
        BY <3>1, <3>2, <4>4
      <4> QED
        BY <4>1, <4>2, <4>3, <4>4
  <2> QED
    BY <2>1, <2>2
<1>5. ASSUME NEW r \in Requests, ReadMemberRole(r) PROVE TransferAlone'
  BY <1>5 DEF ReadMemberRole, Finish, Goto, NoWrites
<1>6. ASSUME NEW r \in Requests, DeleteMember(r) PROVE TransferAlone'
  BY <1>6 DEF DeleteMember, Finish, Goto, NoWrites, Locked
<1>7. ASSUME NEW r \in Requests, SelectRandomAdmin(r) PROVE TransferAlone'
  <2>1. UNCHANGED table /\ pc[r] = "selectAdmin" /\ (Finish(r) \/ (UNCHANGED <<writes, request, userRole>> /\ Goto(r, "checkHeir") /\ \E a \in Users : heir' = [heir EXCEPT ![r] = a]))
    BY <1>7 DEF SelectRandomAdmin
  <2>2. CASE Finish(r)
    BY <2>1, <2>2 DEF Finish, Goto, NoWrites
  <2>3. CASE UNCHANGED <<writes, request, userRole>> /\ Goto(r, "checkHeir") /\ \E a \in Users : heir' = [heir EXCEPT ![r] = a]
    BY <2>1, <2>3 DEF Goto
  <2> QED
    BY <2>1, <2>2, <2>3
<1>8. ASSUME NEW r \in Requests, CheckHeir(r) PROVE TransferAlone'
  <2>1. UNCHANGED table /\ pc[r] = "checkHeir" /\ (Finish(r) \/ (UNCHANGED <<writes, request, locals>> /\ Goto(r, "promote")))
    BY <1>8 DEF CheckHeir
  <2>2. CASE Finish(r)
    BY <2>1, <2>2 DEF Finish, Goto, NoWrites
  <2>3. CASE UNCHANGED <<writes, request, locals>> /\ Goto(r, "promote")
    BY <2>1, <2>3 DEF Goto
  <2> QED
    BY <2>1, <2>2, <2>3
<1>9. ASSUME NEW r \in Requests, PromoteHeir(r) PROVE TransferAlone'
  BY <1>9 DEF PromoteHeir, Write, Goto, Locked
<1>10. ASSUME NEW r \in Requests, DemoteOwner(r) PROVE TransferAlone'
  BY <1>10 DEF DemoteOwner, Write, Goto, Locked
<1>11. ASSUME NEW r \in Requests, Commit(r) PROVE TransferAlone'
  BY <1>11 DEF Commit, Finish, Goto, NoWrites
<1>12. ASSUME NEW r \in Requests, SetRole(r) PROVE TransferAlone'
  BY <1>12 DEF SetRole, Finish, Goto, NoWrites, Locked
<1>13. ASSUME NEW r \in Requests, DeleteWorkspace(r) PROVE TransferAlone'
  BY <1>13 DEF DeleteWorkspace, Finish, Goto, NoWrites, Locked
<1>14. ASSUME NEW r \in Requests, AbortVictim(r) PROVE TransferAlone'
  BY <1>14 DEF AbortVictim, Finish, Goto, NoWrites
<1>15. ASSUME NEW r \in Requests, Fail(r) PROVE TransferAlone'
  BY <1>15 DEF Fail, Finish, Goto, NoWrites
<1>16. CASE UNCHANGED vars
  BY <1>16
<1> QED
  BY <1>1, <1>2, <1>3, <1>4, <1>5, <1>6, <1>7, <1>8, <1>9, <1>10, <1>11, <1>12, <1>13, <1>14, <1>15, <1>16 DEF Next, Proceed

\* Until transfers cross, no step makes a second owner.
LEMMA OneOwnerStep ==
  ASSUME TypeOK, LocalsFit, RowsHeld, MembersOfLive, MeetingsNoted, UncrossedOneOwner, TransferAlone, [Next]_vars
  PROVE  UncrossedOneOwner'
<1> USE Sentinel DEF TypeOK, MaybeRole, MaybeUser, Roles, Ops, LocalsFit, RowsHeld, MembersOfLive, MeetingsNoted, UncrossedOneOwner, TransferAlone, Transferring, Owners, InTransfer, vars, table, history, request, locals
<1>1. ASSUME NEW u \in Users, CreateWorkspace(u) PROVE UncrossedOneOwner'
  BY <1>1 DEF CreateWorkspace
<1>2. ASSUME NEW u \in Users, AddMember(u) PROVE UncrossedOneOwner'
  BY <1>2 DEF AddMember
<1>3. ASSUME NEW r \in Requests, Arrive(r) PROVE UncrossedOneOwner'
  BY <1>3 DEF Arrive, NoteCrossing, Goto, GuardAllows, FirstQuery, Ops, Roles
<1>4. ASSUME NEW r \in Requests, ReadUserRole(r) PROVE UncrossedOneOwner'
  BY <1>4 DEF ReadUserRole, NoteCrossing, Goto
<1>5. ASSUME NEW r \in Requests, ReadMemberRole(r) PROVE UncrossedOneOwner'
  BY <1>5 DEF ReadMemberRole, Finish, Goto, NoWrites
<1>6. ASSUME NEW r \in Requests, DeleteMember(r) PROVE UncrossedOneOwner'
  BY <1>6 DEF DeleteMember, Finish, Goto, NoWrites, Locked
<1>7. ASSUME NEW r \in Requests, SelectRandomAdmin(r) PROVE UncrossedOneOwner'
  BY <1>7 DEF SelectRandomAdmin, Finish, Goto, NoWrites
<1>8. ASSUME NEW r \in Requests, CheckHeir(r) PROVE UncrossedOneOwner'
  BY <1>8 DEF CheckHeir, Finish, Goto, NoWrites
<1>9. ASSUME NEW r \in Requests, PromoteHeir(r) PROVE UncrossedOneOwner'
  BY <1>9 DEF PromoteHeir, Write, Goto, Locked
<1>10. ASSUME NEW r \in Requests, DemoteOwner(r) PROVE UncrossedOneOwner'
  BY <1>10 DEF DemoteOwner, Write, Goto, Locked
<1>11. ASSUME NEW r \in Requests, Commit(r) PROVE UncrossedOneOwner'
  BY <1>11 DEF Commit, Finish, Goto, NoWrites
<1>12. ASSUME NEW r \in Requests, SetRole(r) PROVE UncrossedOneOwner'
  <2>1. /\ pc[r] = "setRole" /\ target[r] \in Users /\ op[r] \in {"admin", "member"}
        /\ UNCHANGED crossed
    BY <1>12 DEF SetRole
  <2>2. role' \in {role, [role EXCEPT ![target[r]] = op[r]]}
    BY <1>12 DEF SetRole
  <2>3. \A u \in Users : role'[u] = "owner" => role[u] = "owner"
    BY <2>1, <2>2
  <2>4. \A u \in Users : u \in Owners' => u \in Owners
    BY <2>3
  <2> HIDE DEF Owners
  <2> QED
    BY <2>1, <2>4 DEF Owners
<1>13. ASSUME NEW r \in Requests, DeleteWorkspace(r) PROVE UncrossedOneOwner'
  BY <1>13 DEF DeleteWorkspace, Finish, Goto, NoWrites, Locked
<1>14. ASSUME NEW r \in Requests, AbortVictim(r) PROVE UncrossedOneOwner'
  BY <1>14 DEF AbortVictim, Finish, Goto, NoWrites
<1>15. ASSUME NEW r \in Requests, Fail(r) PROVE UncrossedOneOwner'
  BY <1>15 DEF Fail, Finish, Goto, NoWrites
<1>16. CASE UNCHANGED vars
  BY <1>16
<1> QED
  BY <1>1, <1>2, <1>3, <1>4, <1>5, <1>6, <1>7, <1>8, <1>9, <1>10, <1>11, <1>12, <1>13, <1>14, <1>15, <1>16 DEF Next, Proceed

-----------------------------------------------------------------------------
\* The inductive invariant holds initially.
LEMMA InitInv == Init => IInv
<1> USE Sentinel DEF Init, NoWrites
<1>1. Init => TypeOK
  <2>1. Init => crossed \in BOOLEAN
    BY Zenon
  <2> QED
    BY <2>1 DEF TypeOK, Labels, MaybeRole, MaybeUser, Ops, Roles
<1>2. Init => LocalsFit /\ RowsHeld /\ MembersOfLive
  BY DEF LocalsFit, RowsHeld, MembersOfLive
<1>3. Init => OwnersRecorded /\ MeetingsNoted /\ LoneReads
  BY DEF OwnersRecorded, Owners, InTransfer, MeetingsNoted, LoneReads
<1>4. Init => TransferAlone
  BY DEF TransferAlone, Transferring, InTransfer
<1>5. Init => UncrossedOneOwner
  BY DEF UncrossedOneOwner, Owners
<1> QED
  BY <1>1, <1>2, <1>3, <1>4, <1>5 DEF IInv

\* Every step preserves it.
LEMMA StepInv == IInv /\ [Next]_vars => IInv'
BY TypeStep, LocalsStep, HeldStep, LiveStep, OwnersStep, MeetingsStep,
   ReadsStep, AloneStep, OneOwnerStep DEF IInv

\* The inductive invariant holds in every reachable state.
THEOREM Invariance == Spec => []IInv
BY InitInv, StepInv, PTL DEF Spec

\* TypeOK holds in every reachable state.
THEOREM TypeCorrect == Spec => []TypeOK
<1>1. IInv => TypeOK
  BY DEF IInv
<1> QED
  BY <1>1, Invariance, PTL

\* No membership outlives its workspace, for any number of users and requests.
THEOREM NoOrphans == Spec => []DeletedIsEmpty
<1>1. IInv => DeletedIsEmpty
  BY DEF IInv, MembersOfLive, DeletedIsEmpty
<1> QED
  BY <1>1, Invariance, PTL

\* Only someone who has been an owner makes an owner, however requests overlap.
THEOREM OwnersMakeOwners == Spec => OwnershipGivenByOwners
<1> DEFINE Given(u) ==
      \/ workspace = "unborn"
      \/ \E r \in Requests : pc[r] = "commit" /\ actor[r] \in everOwner
<1>1. ASSUME IInv, [Next]_vars, NEW u \in Owners' \ Owners PROVE Given(u)
  <2> USE <1>1 DEF IInv, TypeOK, MaybeRole, MaybeUser, Roles, Ops, LocalsFit,
                   OwnersRecorded, Owners, InTransfer, vars, table, history, request, locals
  <2>1. CASE \E v \in Users : CreateWorkspace(v) \/ AddMember(v)
    BY <2>1 DEF CreateWorkspace, AddMember
  <2>2. CASE \E r \in Requests : Commit(r)
    BY <2>2 DEF Commit
  <2>3. CASE \E r \in Requests : SetRole(r)
    BY <2>3 DEF SetRole
  <2>4. CASE \E r \in Requests : DeleteMember(r) \/ DeleteWorkspace(r)
    BY <2>4 DEF DeleteMember, DeleteWorkspace
  <2>5. CASE UNCHANGED role
    BY <2>5
  <2> QED
    BY <2>1, <2>2, <2>3, <2>4, <2>5
       DEF Next, Proceed, Arrive, ReadUserRole, ReadMemberRole,
           SelectRandomAdmin, CheckHeir, PromoteHeir, DemoteOwner, AbortVictim,
           Fail
<1>2. IInv /\ [Next]_vars => [\A u \in Owners' \ Owners : Given(u)]_vars
  BY <1>1
<1> QED
  BY <1>2, Invariance, PTL DEF Spec, OwnershipGivenByOwners

\* A removed user is written back by no transfer that was under way.
THEOREM NoResurrection == Spec => RemovedStaysOut
<1> DEFINE Back(u) == role[u] = "none" /\ role'[u] # "none" =>
                        workspace = "unborn" \/ role'[u] = "member"
<1>1. ASSUME IInv, [Next]_vars, NEW u \in Users PROVE Back(u)
  <2> USE <1>1 DEF IInv, TypeOK, MaybeRole, MaybeUser, Roles, Ops, LocalsFit,
                   RowsHeld, vars, table, history, request, locals
  <2>1. CASE \E v \in Users : CreateWorkspace(v) \/ AddMember(v)
    BY <2>1 DEF CreateWorkspace, AddMember
  <2>2. CASE \E r \in Requests : Commit(r)
    BY <2>2 DEF Commit
  <2>3. CASE \E r \in Requests : SetRole(r)
    BY <2>3 DEF SetRole
  <2>4. CASE \E r \in Requests : DeleteMember(r) \/ DeleteWorkspace(r)
    BY <2>4 DEF DeleteMember, DeleteWorkspace
  <2>5. CASE UNCHANGED role
    BY <2>5
  <2> QED
    BY <2>1, <2>2, <2>3, <2>4, <2>5
       DEF Next, Proceed, Arrive, ReadUserRole, ReadMemberRole,
           SelectRandomAdmin, CheckHeir, PromoteHeir, DemoteOwner, AbortVictim,
           Fail
<1>2. IInv /\ [Next]_vars => [\A u \in Users : Back(u)]_vars
  BY <1>1
<1> QED
  BY <1>2, Invariance, PTL DEF Spec, RemovedStaysOut

\* There are never two owners until two transfers cross, whatever other
\* requests overlap them.
THEOREM OneOwnerUntilCrossed == Spec => []UncrossedOneOwner
<1>1. IInv => UncrossedOneOwner
  BY DEF IInv
<1> QED
  BY <1>1, Invariance, PTL

\* A request that is alone removes no one the messages say it may not.
THEOREM RankRespected == Spec => LoneRemovalRespectsRank
<1> DEFINE Allowed(r) ==
      DeleteMember(r) /\ r \notin shared /\ actor[r] # target[r] =>
        /\ role[actor[r]] = "admin" => role[target[r]] \notin {"owner", "admin"}
        /\ role[actor[r]] = "member" => role[target[r]] = "none"
<1>1. ASSUME IInv, NEW r \in Requests PROVE Allowed(r)
  BY <1>1 DEF IInv, TypeOK, MaybeRole, Roles, LocalsFit, LoneReads, Forbidden, DeleteMember
<1>2. IInv /\ [Next]_vars => [\A r \in Requests : Allowed(r)]_vars
  BY <1>1
<1> QED
  BY <1>2, Invariance, PTL DEF Spec, LoneRemovalRespectsRank
-----------------------------------------------------------------------------
(* Members implements Roster.                                              *)

\* A transfer writes "owner" to the heir's row and "admin" to its actor's, the
\* second over the first when the two are one.
WritesFit ==
  \A r \in Requests : \A u \in Users :
    /\ writes[r][u] \in {"none", "owner", "admin"}
    /\ writes[r][u] = "owner" =>
         u = heir[r] /\ (pc[r] = "commit" => u # actor[r])
    /\ writes[r][u] = "admin" => u = actor[r]

\* No step writes another row, or another role.
LEMMA WritesStep ==
  ASSUME IInv, WritesFit, [Next]_vars
  PROVE  WritesFit'
<1> USE Sentinel DEF IInv, TypeOK, MaybeRole, MaybeUser, Roles, Ops, LocalsFit, RowsHeld, WritesFit, vars, table, history, request, locals
<1>1. CASE \E u \in Users : CreateWorkspace(u) \/ AddMember(u)
  BY <1>1 DEF CreateWorkspace, AddMember
<1>2. ASSUME NEW r \in Requests, Arrive(r) PROVE WritesFit'
  BY <1>2 DEF Arrive, NoteCrossing, Goto, FirstQuery
<1>3. ASSUME NEW r \in Requests, ReadUserRole(r) PROVE WritesFit'
  BY <1>3 DEF ReadUserRole, NoteCrossing, Goto
<1>4. ASSUME NEW r \in Requests, Finish(r) PROVE WritesFit'
  BY <1>4 DEF Finish, Goto, NoWrites
<1>5. ASSUME NEW r \in Requests, ReadMemberRole(r), ~Finish(r) PROVE WritesFit'
  BY <1>5 DEF ReadMemberRole, Goto
<1>6. ASSUME NEW r \in Requests, SelectRandomAdmin(r), ~Finish(r) PROVE WritesFit'
  BY <1>6 DEF SelectRandomAdmin, Goto
<1>7. ASSUME NEW r \in Requests, CheckHeir(r), ~Finish(r) PROVE WritesFit'
  BY <1>7 DEF CheckHeir, Goto
<1>8. ASSUME NEW r \in Requests, PromoteHeir(r) PROVE WritesFit'
  BY <1>8 DEF PromoteHeir, Write, Goto, Locked
<1>9. ASSUME NEW r \in Requests, DemoteOwner(r) PROVE WritesFit'
  BY <1>9 DEF DemoteOwner, Write, Goto, Locked
<1>10. ASSUME NEW r \in Requests, Commit(r), ~Finish(r) PROVE WritesFit'
  <2>1. /\ writes' = [writes EXCEPT ![r] = NoWrites]
        /\ Goto(r, "delete")
        /\ UNCHANGED <<actor, heir>>
    BY <1>10 DEF Commit
  <2>2. \A u \in Users : writes'[r][u] = "none"
    BY <2>1 DEF NoWrites
  <2>3. \A s \in Requests \ {r} : writes'[s] = writes[s] /\ pc'[s] = pc[s]
    BY <2>1 DEF Goto
  <2> QED
    BY <2>1, <2>2, <2>3
<1>11. CASE UNCHANGED vars
  BY <1>11
<1> QED
  BY <1>1, <1>2, <1>3, <1>4, <1>5, <1>6, <1>7, <1>8, <1>9, <1>10, <1>11
     DEF Next, Proceed, DeleteMember, SetRole, DeleteWorkspace, AbortVictim, Fail

\* A COMMIT hands the workspace over as Roster says, or changes nothing.
LEMMA CommitHandsOver ==
  ASSUME IInv, WritesFit, NEW r \in Requests, Commit(r)
  PROVE  Roster!HandOver(actor[r])
<1> DEFINE up == {u \in Users : writes[r][u] = "owner"}
           down == {u \in Users : writes[r][u] = "admin"}
<1>1. pc[r] = "commit" /\ actor[r] \in Users
  BY DEF Commit, IInv, LocalsFit
<1>2. actor[r] \in everOwner
  BY <1>1 DEF IInv, OwnersRecorded, InTransfer
<1>3. up \subseteq Roster!Present \ {actor[r]} /\ \A v, w \in up : v = w
  BY <1>1 DEF IInv, RowsHeld, WritesFit, Roster!Present
<1>4. down \subseteq Roster!Present \cap {actor[r]}
  BY DEF IInv, RowsHeld, WritesFit, Roster!Present
<1>5. role' = [u \in Users |-> CASE u \in up -> "owner"
                                 [] u \in down -> "admin"
                                 [] OTHER -> role[u]]
  <2>1. role' = [u \in Users |-> IF writes[r][u] = "none" THEN role[u]
                                                          ELSE writes[r][u]]
    BY DEF Commit
  <2>2. \A u \in Users : writes[r][u] \in {"none", "owner", "admin"}
    BY DEF WritesFit
  <2> QED
    BY <2>1, <2>2
<1>6. everOwner' = everOwner \cup up /\ workspace' = workspace
  BY DEF Commit
<1> HIDE DEF up, down
<1> QED
  BY <1>2, <1>3, <1>4, <1>5, <1>6 DEF Roster!HandOver

\* Every step is a step of Roster or changes nothing it sees.
LEMMA RosterStep ==
  ASSUME IInv, WritesFit, [Next]_vars
  PROVE  [Roster!Next]_(Roster!vars)
<1> USE DEF IInv, TypeOK, MaybeRole, Roles, LocalsFit, MembersOfLive, MeetingsNoted, table, history, Roster!vars
<1>1. ASSUME NEW u \in Users, CreateWorkspace(u) PROVE Roster!Found(u)
  BY <1>1 DEF CreateWorkspace, Roster!Found
<1>2. ASSUME NEW u \in Users, AddMember(u) PROVE Roster!Join(u)
  BY <1>2 DEF AddMember, Roster!Join, Roster!Present
<1>3. ASSUME NEW r \in Requests, DeleteMember(r)
      PROVE  Roster!Leave(target[r]) \/ UNCHANGED Roster!vars
  BY <1>3 DEF DeleteMember, Roster!Leave, Roster!Present
<1>4. ASSUME NEW r \in Requests, Commit(r)
      PROVE  actor[r] \in Users /\ Roster!HandOver(actor[r])
  BY <1>4, CommitHandsOver DEF Commit
<1>5. ASSUME NEW r \in Requests, SetRole(r)
      PROVE  Roster!Assign(target[r], op[r]) \/ UNCHANGED Roster!vars
  BY <1>5 DEF SetRole, Roster!Assign, Roster!Present
<1>6. ASSUME NEW r \in Requests, DeleteWorkspace(r)
      PROVE  Roster!Close \/ UNCHANGED Roster!vars
  BY <1>6 DEF DeleteWorkspace, Roster!Close
<1>7. ASSUME NEW r \in Requests,
             \/ Arrive(r) \/ ReadUserRole(r) \/ ReadMemberRole(r)
             \/ SelectRandomAdmin(r) \/ CheckHeir(r) \/ PromoteHeir(r)
             \/ DemoteOwner(r) \/ AbortVictim(r) \/ Fail(r)
      PROVE  UNCHANGED <<workspace, role, everOwner>>
  BY <1>7 DEF Arrive, ReadUserRole, ReadMemberRole, SelectRandomAdmin, CheckHeir,
              PromoteHeir, DemoteOwner, AbortVictim, Fail
<1>8. CASE UNCHANGED vars
  BY <1>8 DEF vars
<1>9. ASSUME NEW r \in Requests, DeleteMember(r) PROVE target[r] \in Users
  BY <1>9 DEF DeleteMember
<1>10. ASSUME NEW r \in Requests, SetRole(r)
       PROVE  target[r] \in Users /\ op[r] \in {"admin", "member"}
  BY <1>10 DEF SetRole
<1> QED
  BY <1>1, <1>2, <1>3, <1>4, <1>5, <1>6, <1>7, <1>8, <1>9, <1>10
     DEF Next, Proceed, Roster!Next

\* However requests interleave, fail and deadlock, the rows of a workspace
\* change as Roster says: no third row is touched by a transfer, no role is
\* ever written to somebody who has left.
THEOREM MembersImplementRoster == Spec => ImplementsRoster
<1>1. Init => WritesFit
  <2>1. Init => \A r \in Requests : \A u \in Users : writes[r][u] = "none"
    <3>1. Init => writes = [r \in Requests |-> NoWrites]
      BY Zenon DEF Init
    <3> QED
      BY <3>1 DEF NoWrites
  <2> QED
    BY <2>1 DEF WritesFit
<1>2. Spec => []WritesFit
  BY <1>1, WritesStep, Invariance, PTL DEF Spec
<1>3. Init => Roster!Init
  BY DEF Init, Roster!Init
<1> QED
  BY <1>2, <1>3, RosterStep, Invariance, PTL DEF Spec, ImplementsRoster, Roster!Spec
-----------------------------------------------------------------------------
(* A lone request leaves the workspace an owner.                           *)

\* A transfer that is alone finds its actor the owner and its heir a member,
\* and writes both rows unless they are one; a lone DELETE or UPDATE that is
\* no transfer leaves the row of its owner as it is.
LoneTransfer ==
  \A r \in Requests \ shared :
    /\ pc[r] = "setRole" => role[actor[r]] = "owner" /\ target[r] # actor[r]
    /\ pc[r] \in {"selectAdmin", "checkHeir", "promote", "demote"} =>
         role[actor[r]] = "owner"
    /\ op[r] = "remove" /\ pc[r] \in {"checkHeir", "promote", "demote", "commit"}
         => heir[r] # actor[r]
    /\ pc[r] = "promote" => role[heir[r]] # "none"
    /\ pc[r] = "demote" => writes[r][heir[r]] = "owner"
    /\ pc[r] = "commit" =>
         \/ heir[r] = actor[r]
         \/ writes[r][heir[r]] = "owner" /\ writes[r][actor[r]] = "admin"
    /\ pc[r] = "delete" /\ actor[r] = target[r] => role[target[r]] # "owner"

\* Nothing else runs, so what a lone request has found stays as it was.
LEMMA LoneStep ==
  ASSUME IInv, LoneTransfer, [Next]_vars
  PROVE  LoneTransfer'
<1> USE Sentinel DEF IInv, TypeOK, MaybeRole, MaybeUser, Roles, Ops, LocalsFit, RowsHeld, MembersOfLive, MeetingsNoted, LoneReads, LoneTransfer, InTransfer, vars, table, history, request, locals
<1>1. CASE \E u \in Users : CreateWorkspace(u) \/ AddMember(u)
  BY <1>1 DEF CreateWorkspace, AddMember
<1>2. ASSUME NEW r \in Requests, Arrive(r) PROVE LoneTransfer'
  BY <1>2 DEF Arrive, NoteCrossing, Goto, GuardAllows, FirstQuery
<1>3. ASSUME NEW r \in Requests, ReadUserRole(r) PROVE LoneTransfer'
  BY <1>3 DEF ReadUserRole, NoteCrossing, Goto
<1>4. ASSUME NEW r \in Requests, pc[r] # "idle", Finish(r) PROVE LoneTransfer'
  BY <1>4 DEF Finish, Goto, NoWrites
<1>5. ASSUME NEW r \in Requests, ReadMemberRole(r), ~Finish(r) PROVE LoneTransfer'
  <2>1. PICK l \in {"selectAdmin", "delete"} :
          /\ pc[r] = "readMemberRole" /\ pc' = [pc EXCEPT ![r] = l]
          /\ l = "selectAdmin" <=> userRole[r] = "owner" /\ actor[r] = target[r]
    BY <1>5 DEF ReadMemberRole, Goto
  <2>2. UNCHANGED <<role, writes, op, actor, target, shared, heir>>
    BY <1>5 DEF ReadMemberRole
  <2>3. r \notin shared => userRole[r] = role[actor[r]]
    BY <2>1
  <2>4. \A s \in Requests \ {r} : pc'[s] = pc[s]
    BY <2>1
  <2> QED
    BY <2>1, <2>2, <2>3, <2>4
<1>6. ASSUME NEW r \in Requests, SelectRandomAdmin(r), ~Finish(r) PROVE LoneTransfer'
  BY <1>6 DEF SelectRandomAdmin, Goto
<1>7. ASSUME NEW r \in Requests, CheckHeir(r), ~Finish(r) PROVE LoneTransfer'
  BY <1>7 DEF CheckHeir, Goto
<1>8. ASSUME NEW r \in Requests, PromoteHeir(r) PROVE LoneTransfer'
  BY <1>8 DEF PromoteHeir, Write, Goto, Locked
<1>9. ASSUME NEW r \in Requests, DemoteOwner(r) PROVE LoneTransfer'
  BY <1>9 DEF DemoteOwner, Write, Goto, Locked
<1>10. ASSUME NEW r \in Requests, Commit(r), ~Finish(r) PROVE LoneTransfer'
  <2>1. /\ pc[r] = "commit" /\ op[r] = "remove" /\ Goto(r, "delete")
        /\ writes' = [writes EXCEPT ![r] = NoWrites]
        /\ role' = [u \in Users |-> IF writes[r][u] = "none" THEN role[u]
                                                             ELSE writes[r][u]]
        /\ UNCHANGED <<op, actor, target, shared, heir>>
    BY <1>10 DEF Commit
  <2>2. pc'[r] = "delete" /\ \A s \in Requests \ {r} : pc'[s] = pc[s]
    BY <2>1 DEF Goto
  <2>3. \A s \in Requests \ {r} : pc[s] # "idle" => s \in shared
    BY <2>1
  <2>4. actor[r] \in Users /\ heir[r] \in Users
    BY <2>1
  <2>5. r \notin shared => role'[actor[r]] = "admin"
    BY <2>1, <2>4
  <2> QED
    BY <2>1, <2>2, <2>3, <2>5
<1>11. CASE UNCHANGED vars
  BY <1>11
<1> HIDE DEF IInv, TypeOK, MaybeRole, MaybeUser, Roles, Ops, LocalsFit, RowsHeld, MembersOfLive, MeetingsNoted, LoneReads, LoneTransfer, InTransfer, vars, table, history, request, locals
<1>12. ASSUME NEW r \in Requests, \/ DeleteMember(r) \/ SetRole(r)
                                  \/ DeleteWorkspace(r) \/ AbortVictim(r)
                                  \/ Fail(r)
       PROVE  Finish(r)
  BY <1>12 DEF DeleteMember, SetRole, DeleteWorkspace, AbortVictim, Fail
<1>13. ASSUME NEW r \in Requests, Proceed(r) \/ Fail(r) PROVE LoneTransfer'
  <2>1. CASE pc[r] = "idle"
    <3>1. AbortVictim(r)
      BY <1>13, <2>1 DEF Proceed, ReadUserRole, ReadMemberRole, DeleteMember,
         SelectRandomAdmin, CheckHeir, PromoteHeir, DemoteOwner, Commit, SetRole,
         DeleteWorkspace, Fail
    <3>2. FALSE
      BY <2>1, <3>1 DEF AbortVictim, Deadlocked, WaitsFor, Needs
    <3> QED
      BY <3>2
  <2>2. CASE pc[r] # "idle"
    BY <1>3, <1>4, <1>5, <1>6, <1>7, <1>8, <1>9, <1>10, <1>12, <1>13, <2>2 DEF Proceed
  <2> QED
    BY <2>1, <2>2
<1> QED
  BY <1>1, <1>2, <1>11, <1>13 DEF Next

\* With nothing else under way, a workspace loses its last owner only to a
\* transfer whose heir is its actor: succession covers every other departure.
THEOREM SuccessionCoversDepartures == Spec => LoneOwnerReplaced
<1> DEFINE Lost == /\ workspace = "live" /\ workspace' = "live"
                   /\ Owners # {} /\ Owners' = {} /\ shared = {}
           ToSelf == \E r \in Requests : pc[r] = "commit" /\ heir[r] = actor[r]
<1>1. ASSUME IInv, LoneTransfer, [Next]_vars, Lost PROVE ToSelf
  <2> USE <1>1 DEF IInv, TypeOK, MaybeRole, MaybeUser, Roles, LocalsFit,
                   LoneReads, LoneTransfer, Forbidden, Owners, table, history
  <2>1. PICK u \in Users : role[u] = "owner" /\ role'[u] # "owner"
    OBVIOUS
  <2>2. CASE \E v \in Users : CreateWorkspace(v) \/ AddMember(v)
    BY <2>1, <2>2 DEF CreateWorkspace, AddMember
  <2>3. CASE \E r \in Requests : Commit(r)
    <3>1. PICK r \in Requests : Commit(r)
      BY <2>3
    <3>2. pc[r] = "commit" /\ r \notin shared /\ heir[r] \in Users
      BY <3>1 DEF Commit
    <3>3. writes[r][heir[r]] = "owner" => role'[heir[r]] = "owner"
      BY <3>1, <3>2 DEF Commit
    <3>4. role'[heir[r]] # "owner"
      BY <3>2
    <3> QED
      BY <3>2, <3>3, <3>4
  <2>4. CASE \E r \in Requests : SetRole(r)
    BY <2>1, <2>4 DEF SetRole
  <2>5. CASE \E r \in Requests : DeleteMember(r)
    BY <2>1, <2>5 DEF DeleteMember
  <2>6. CASE \E r \in Requests : DeleteWorkspace(r)
    BY <2>6 DEF DeleteWorkspace
  <2>7. CASE UNCHANGED role
    BY <2>1, <2>7
  <2> QED
    BY <2>2, <2>3, <2>4, <2>5, <2>6, <2>7
       DEF Next, Proceed, Arrive, ReadUserRole, ReadMemberRole, vars,
           SelectRandomAdmin, CheckHeir, PromoteHeir, DemoteOwner, AbortVictim,
           Fail
<1>2. Init => LoneTransfer
  <2>1. Init => \A r \in Requests : pc[r] = "idle"
    BY DEF Init
  <2> QED
    BY <2>1 DEF LoneTransfer
<1>3. Spec => []LoneTransfer
  BY <1>2, LoneStep, Invariance, PTL DEF Spec
<1>4. IInv /\ LoneTransfer /\ [Next]_vars => [Lost => ToSelf]_vars
  BY <1>1
<1> QED
  BY <1>3, <1>4, Invariance, PTL DEF Spec, LoneOwnerReplaced
=============================================================================
