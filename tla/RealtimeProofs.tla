--------------------------- MODULE RealtimeProofs ---------------------------
(***************************************************************************)
(* Proofs about Realtime, for any users, workspaces, sockets and requests. *)
(*                                                                         *)
(* Why nobody hears of a workspace he was never in: every socket in a room *)
(* has a user who has been a member there, and so has every socket on its  *)
(* way in, unless it is gone.  Why nobody hears of a workspace that is not *)
(* committed: nobody has been a member of one, and a workspace that is     *)
(* being created has one creator, so that no other request ends it.        *)
(***************************************************************************)
EXTENDS Realtime, TLAPS

Creating(r) == pc[r] = "commit" \/ (pc[r] = "emit" /\ event[r] = "created")

MembersRecorded == members \subseteq everMember

\* A workspace that has had members has been committed.
MembersOfReal == \A m \in everMember : state[m[2]] \in {"live", "deleted"}

RoomsOfMembers ==
  \A e \in rooms : <<userOf[e[1]], e[2]>> \in everMember
JoiningMembers ==
  \A e \in joining : userOf[e[1]] # None => <<userOf[e[1]], e[2]>> \in everMember

\* Where requests are, and that a workspace has one creator.
WritersKnow ==
  /\ \A r \in Requests : pc[r] # "idle" => ws[r] \in Workspaces
  /\ \A r \in Requests : pc[r] = "commit" => event[r] = "created"
  /\ \A r \in Requests : Creating(r) =>
       creator[r] \in Users /\ state[ws[r]] = "inserted"
OneCreator ==
  \A r, s \in Requests : Creating(r) /\ Creating(s) /\ ws[r] = ws[s] => r = s

IInv ==
  /\ TypeOK
  /\ MembersRecorded /\ MembersOfReal
  /\ RoomsOfMembers /\ JoiningMembers
  /\ WritersKnow /\ OneCreator
  /\ HeardByInsiders /\ HeardAreCommitted

\* Its parts that say who is in, and who writes.
SocketInv == MembersRecorded /\ MembersOfReal /\ RoomsOfMembers /\ JoiningMembers
WriterInv == WritersKnow /\ OneCreator
HeardInv == HeardByInsiders /\ HeardAreCommitted

\* The invariant holds initially.
LEMMA Initially == Init => IInv
  BY DEF Init, IInv, TypeOK, MembersRecorded, MembersOfReal, RoomsOfMembers,
     JoiningMembers, WritersKnow, OneCreator, Creating, HeardByInsiders,
     HeardAreCommitted, Kinds

\* A room has sockets of present and past members only, and only the rooms of
\* committed workspaces have any.
LEMMA RoomContents ==
  ASSUME IInv, NEW w \in Workspaces, NEW s \in Room(w)
  PROVE  /\ userOf[s] \in Users /\ <<userOf[s], w>> \in everMember
         /\ state[w] \in {"live", "deleted"}
<1>1. <<s, w>> \in rooms  BY DEF Room
<1>2. <<userOf[s], w>> \in everMember
  BY <1>1 DEF IInv, RoomsOfMembers
<1>. QED  BY <1>2 DEF IInv, TypeOK, MembersOfReal

\* Every step keeps the invariant.
LEMMA Preservation == IInv /\ [Next]_vars => IInv'
<1> SUFFICES ASSUME IInv, [Next]_vars PROVE IInv'
  OBVIOUS
<1> USE Sentinel
<1>0. TypeOK /\ SocketInv /\ WriterInv /\ HeardInv
  BY DEF IInv, SocketInv, WriterInv, HeardInv
<1>a. SUFFICES TypeOK' /\ SocketInv' /\ WriterInv' /\ HeardInv'
  BY DEF IInv, SocketInv, WriterInv, HeardInv
<1>1. ASSUME NEW s \in Sockets, HandleConnection(s)
      PROVE  TypeOK' /\ SocketInv' /\ WriterInv' /\ HeardInv'
  <2>1. TypeOK'
    BY <1>0, <1>1 DEF HandleConnection, data, sockets, requests, TypeOK, Kinds
  <2>2. SocketInv'
    <3>1. \A e \in rooms : e[1] # s
      <4> SUFFICES ASSUME NEW e \in rooms, e[1] = s PROVE FALSE
        OBVIOUS
      <4>1. <<None, e[2]>> \in Users \X Workspaces
        BY <1>0, <1>1 DEF HandleConnection, SocketInv, RoomsOfMembers, TypeOK
      <4>. QED  BY <4>1
    <3>2. \A e \in joining : e[1] # s
      BY <1>0, <1>1 DEF HandleConnection, TypeOK
    <3>3. RoomsOfMembers' /\ JoiningMembers'
      BY <1>0, <1>1, <3>1, <3>2 DEF HandleConnection, data, sockets, requests,
         SocketInv, MembersRecorded, MembersOfReal, RoomsOfMembers,
         JoiningMembers, TypeOK
    <3>. QED
      BY <1>0, <1>1, <3>3 DEF HandleConnection, data, sockets, requests, SocketInv,
         MembersRecorded, MembersOfReal, RoomsOfMembers, JoiningMembers, TypeOK
  <2>3. WriterInv'
    BY <1>0, <1>1 DEF HandleConnection, data, sockets, requests, WriterInv,
       WritersKnow, OneCreator, Creating, TypeOK
  <2>4. HeardInv'
    BY <1>0, <1>1 DEF HandleConnection, data, sockets, requests, HeardInv,
       HeardByInsiders, HeardAreCommitted, TypeOK
  <2> QED  BY <2>1, <2>2, <2>3, <2>4
<1>2. ASSUME NEW s \in Sockets, HandleJoinWorkspace(s)
      PROVE  TypeOK' /\ SocketInv' /\ WriterInv' /\ HeardInv'
  <2>1. TypeOK'
    BY <1>0, <1>2 DEF HandleJoinWorkspace, data, sockets, requests, TypeOK, Kinds
  <2>2. SocketInv'
    BY <1>0, <1>2 DEF HandleJoinWorkspace, data, sockets, requests, SocketInv,
       MembersRecorded, MembersOfReal, RoomsOfMembers, JoiningMembers, TypeOK
  <2>3. WriterInv'
    BY <1>0, <1>2 DEF HandleJoinWorkspace, data, sockets, requests, WriterInv,
       WritersKnow, OneCreator, Creating, TypeOK
  <2>4. HeardInv'
    BY <1>0, <1>2 DEF HandleJoinWorkspace, data, sockets, requests, HeardInv,
       HeardByInsiders, HeardAreCommitted, TypeOK
  <2> QED  BY <2>1, <2>2, <2>3, <2>4
<1>3. ASSUME NEW s \in Sockets, EnterRoom(s)
      PROVE  TypeOK' /\ SocketInv' /\ WriterInv' /\ HeardInv'
  <2>1. TypeOK'
    BY <1>0, <1>3 DEF EnterRoom, data, sockets, requests, TypeOK, Kinds
  <2>2. SocketInv'
    BY <1>0, <1>3 DEF EnterRoom, data, sockets, requests, SocketInv,
       MembersRecorded, MembersOfReal, RoomsOfMembers, JoiningMembers, TypeOK
  <2>3. WriterInv'
    BY <1>0, <1>3 DEF EnterRoom, data, sockets, requests, WriterInv, WritersKnow,
       OneCreator, Creating, TypeOK
  <2>4. HeardInv'
    BY <1>0, <1>3 DEF EnterRoom, data, sockets, requests, HeardInv, HeardByInsiders,
       HeardAreCommitted, TypeOK
  <2> QED  BY <2>1, <2>2, <2>3, <2>4
<1>4. ASSUME NEW s \in Sockets, Disconnect(s)
      PROVE  TypeOK' /\ SocketInv' /\ WriterInv' /\ HeardInv'
  <2>1. TypeOK'
    BY <1>0, <1>4 DEF Disconnect, data, sockets, requests, TypeOK, Kinds
  <2>2. SocketInv'
    BY <1>0, <1>4 DEF Disconnect, data, sockets, requests, SocketInv,
       MembersRecorded, MembersOfReal, RoomsOfMembers, JoiningMembers, TypeOK
  <2>3. WriterInv'
    BY <1>0, <1>4 DEF Disconnect, data, sockets, requests, WriterInv, WritersKnow,
       OneCreator, Creating, TypeOK
  <2>4. HeardInv'
    BY <1>0, <1>4 DEF Disconnect, data, sockets, requests, HeardInv,
       HeardByInsiders, HeardAreCommitted, TypeOK
  <2> QED  BY <2>1, <2>2, <2>3, <2>4
<1>5. ASSUME NEW r \in Requests, InsertWorkspace(r)
      PROVE  TypeOK' /\ SocketInv' /\ WriterInv' /\ HeardInv'
  <2>1. TypeOK'
    BY <1>0, <1>5 DEF InsertWorkspace, data, sockets, requests, TypeOK, Kinds
  <2>2. SocketInv'
    BY <1>0, <1>5 DEF InsertWorkspace, data, sockets, requests, SocketInv,
       MembersRecorded, MembersOfReal, RoomsOfMembers, JoiningMembers, TypeOK
  <2>3. WriterInv'
    BY <1>0, <1>5 DEF InsertWorkspace, data, sockets, requests, WriterInv,
       WritersKnow, OneCreator, Creating, TypeOK
  <2>4. HeardInv'
    BY <1>0, <1>5 DEF InsertWorkspace, data, sockets, requests, HeardInv,
       HeardByInsiders, HeardAreCommitted, TypeOK
  <2> QED  BY <2>1, <2>2, <2>3, <2>4
<1>6. ASSUME NEW r \in Requests, CommitWorkspace(r)
      PROVE  TypeOK' /\ SocketInv' /\ WriterInv' /\ HeardInv'
  <2>1. TypeOK'
    BY <1>0, <1>6 DEF CommitWorkspace, data, sockets, requests, TypeOK, Kinds,
       WriterInv,
       WritersKnow, Creating
  <2>2. SocketInv'
    <3>1. creator[r] \in Users /\ ws[r] \in Workspaces /\ state[ws[r]] = "inserted"
      BY <1>0, <1>6 DEF CommitWorkspace, WriterInv, WritersKnow, Creating
    <3>2. MembersOfReal'
      <4> SUFFICES ASSUME NEW m \in everMember' PROVE state'[m[2]] \in {"live", "deleted"}
        BY DEF MembersOfReal
      <4>1. CASE m \in everMember
        BY <1>0, <1>6, <3>1, <4>1 DEF CommitWorkspace, SocketInv, MembersOfReal, TypeOK
      <4>2. CASE m \notin everMember
        BY <1>0, <1>6, <3>1, <4>2 DEF CommitWorkspace, TypeOK
      <4>. QED  BY <4>1, <4>2
    <3>3. MembersRecorded' /\ RoomsOfMembers' /\ JoiningMembers'
      BY <1>0, <1>6 DEF CommitWorkspace, data, sockets, requests, SocketInv,
         MembersRecorded,
         RoomsOfMembers, JoiningMembers
    <3>. QED  BY <3>2, <3>3 DEF SocketInv
  <2>3. WriterInv'
    BY <1>0, <1>6 DEF CommitWorkspace, data, sockets, requests, WriterInv,
       WritersKnow, OneCreator, Creating, TypeOK
  <2>4. HeardInv'
    BY <1>0, <1>6 DEF CommitWorkspace, HeardInv, HeardByInsiders,
       HeardAreCommitted, TypeOK, WriterInv, WritersKnow, Creating
  <2> QED  BY <2>1, <2>2, <2>3, <2>4
<1>7. ASSUME NEW r \in Requests, Change(r)
      PROVE  TypeOK' /\ SocketInv' /\ WriterInv' /\ HeardInv'
  <2>1. TypeOK'
    BY <1>0, <1>7 DEF Change, data, sockets, requests, TypeOK, Kinds
  <2>2. SocketInv'
    BY <1>0, <1>7 DEF Change, data, sockets, requests, SocketInv, MembersRecorded,
       MembersOfReal, RoomsOfMembers, JoiningMembers, TypeOK
  <2>3. WriterInv'
    BY <1>0, <1>7 DEF Change, data, sockets, requests, WriterInv, WritersKnow,
       OneCreator, Creating, TypeOK
  <2>4. HeardInv'
    BY <1>0, <1>7 DEF Change, data, sockets, requests, HeardInv, HeardByInsiders,
       HeardAreCommitted, TypeOK
  <2> QED  BY <2>1, <2>2, <2>3, <2>4
<1>8. ASSUME NEW r \in Requests, DeleteWorkspace(r)
      PROVE  TypeOK' /\ SocketInv' /\ WriterInv' /\ HeardInv'
  <2>1. TypeOK'
    BY <1>0, <1>8 DEF DeleteWorkspace, data, sockets, requests, TypeOK, Kinds
  <2>2. SocketInv'
    BY <1>0, <1>8 DEF DeleteWorkspace, data, sockets, requests, SocketInv,
       MembersRecorded, MembersOfReal, RoomsOfMembers, JoiningMembers, TypeOK
  <2>3. WriterInv'
    BY <1>0, <1>8 DEF DeleteWorkspace, data, sockets, requests, WriterInv,
       WritersKnow, OneCreator, Creating, TypeOK
  <2>4. HeardInv'
    BY <1>0, <1>8 DEF DeleteWorkspace, data, sockets, requests, HeardInv,
       HeardByInsiders, HeardAreCommitted, TypeOK
  <2> QED  BY <2>1, <2>2, <2>3, <2>4
<1>9. ASSUME NEW r \in Requests, Emit(r)
      PROVE  TypeOK' /\ SocketInv' /\ WriterInv' /\ HeardInv'
  <2>1. TypeOK'
    <3>1. ws[r] \in Workspaces
      BY <1>0, <1>9 DEF Emit, WriterInv, WritersKnow
    <3>2. \A s \in Room(ws[r]) : userOf[s] \in Users
      BY <3>1, RoomContents
    <3>3. heard' \subseteq Users \X Workspaces \X Kinds
      BY <1>0, <1>9, <3>1, <3>2 DEF Emit, TypeOK, Kinds
    <3>. QED  BY <1>0, <1>9, <3>3 DEF Emit, data, sockets, requests, TypeOK, Kinds
  <2>2. SocketInv'
    BY <1>0, <1>9 DEF Emit, data, sockets, requests, SocketInv, MembersRecorded,
       MembersOfReal, RoomsOfMembers, JoiningMembers, TypeOK
  <2>3. WriterInv'
    BY <1>0, <1>9 DEF Emit, data, sockets, requests, WriterInv, WritersKnow,
       OneCreator, Creating, TypeOK
  <2>4. HeardInv'
    <3>1. ws[r] \in Workspaces
      BY <1>0, <1>9 DEF Emit, WriterInv, WritersKnow
    <3>2. \A s \in Room(ws[r]) : /\ <<userOf[s], ws[r]>> \in everMember
                                 /\ state[ws[r]] \in {"live", "deleted"}
      BY <3>1, RoomContents
    <3>4. ASSUME NEW h \in heard'
          PROVE  <<h[1], h[2]>> \in everMember' /\ state'[h[2]] \in {"live", "deleted"}
      <4>1. CASE h \in heard
        BY <1>0, <1>9, <4>1 DEF Emit, data, HeardInv, HeardByInsiders, HeardAreCommitted
      <4>2. CASE h \notin heard
        <5>1. PICK s \in Room(ws[r]) : h = <<userOf[s], ws[r], event[r]>>
          BY <1>9, <4>2 DEF Emit
        <5>. QED  BY <1>9, <3>2, <5>1 DEF Emit, data
      <4>. QED  BY <4>1, <4>2
    <3>. QED  BY <3>4 DEF HeardInv, HeardByInsiders, HeardAreCommitted
  <2> QED  BY <2>1, <2>2, <2>3, <2>4
<1>10. ASSUME NEW r \in Requests, Fail(r)
      PROVE  TypeOK' /\ SocketInv' /\ WriterInv' /\ HeardInv'
  <2>0. \/ state' = state
        \/ /\ ws[r] \in Workspaces /\ state[ws[r]] = "inserted"
           /\ state' = [state EXCEPT ![ws[r]] = "aborted"]
    BY <1>0, <1>10 DEF Fail, WriterInv, WritersKnow, Creating
  <2>1. TypeOK'
    BY <1>0, <1>10 DEF Fail, data, sockets, requests, TypeOK, Kinds
  <2>2. SocketInv'
    BY <1>0, <1>10, <2>0 DEF Fail, data, sockets, requests, SocketInv,
       MembersRecorded, MembersOfReal, RoomsOfMembers, JoiningMembers, TypeOK
  <2>3. WriterInv'
    BY <1>0, <1>10 DEF Fail, data, sockets, requests, WriterInv, WritersKnow,
       OneCreator, Creating, TypeOK
  <2>4. HeardInv'
    BY <1>0, <1>10, <2>0 DEF Fail, HeardInv, HeardByInsiders,
       HeardAreCommitted, TypeOK
  <2> QED  BY <2>1, <2>2, <2>3, <2>4
<1>11. ASSUME NEW u \in Users, NEW w \in Workspaces, AddMember(u, w)
      PROVE  TypeOK' /\ SocketInv' /\ WriterInv' /\ HeardInv'
  BY <1>0, <1>11 DEF AddMember, data, sockets, requests, SocketInv,
     MembersRecorded, MembersOfReal, RoomsOfMembers, JoiningMembers, TypeOK,
     WriterInv, WritersKnow, OneCreator, Creating, HeardInv, HeardByInsiders,
     HeardAreCommitted
<1>12. ASSUME NEW u \in Users, NEW w \in Workspaces, RemoveMember(u, w)
      PROVE  TypeOK' /\ SocketInv' /\ WriterInv' /\ HeardInv'
  BY <1>0, <1>12 DEF RemoveMember, data, sockets, requests, SocketInv,
     MembersRecorded, MembersOfReal, RoomsOfMembers, JoiningMembers, TypeOK,
     WriterInv, WritersKnow, OneCreator, Creating, HeardInv, HeardByInsiders,
     HeardAreCommitted
<1>13. CASE UNCHANGED vars
  BY <1>0, <1>13 DEF vars, data, sockets, requests, SocketInv, MembersRecorded,
     MembersOfReal, RoomsOfMembers, JoiningMembers, TypeOK, WriterInv,
     WritersKnow, OneCreator, Creating, HeardInv, HeardByInsiders,
     HeardAreCommitted, Kinds
<1>. QED
  BY <1>1, <1>2, <1>3, <1>4, <1>5, <1>6, <1>7, <1>8, <1>9, <1>10, <1>11, <1>12,
     <1>13 DEF Next

\* The inductive invariant holds in every reachable state.
THEOREM Invariance == Spec => []IInv
  BY Initially, Preservation, PTL DEF Spec

\* Type correctness of Realtime.
THEOREM TypeCorrect == Spec => []TypeOK
<1>1. IInv => TypeOK  BY DEF IInv
<1>. QED  BY Invariance, <1>1, PTL

\* Events of a workspace are heard by its present and past members only.
THEOREM InsidersHear == Spec => []HeardByInsiders
<1>1. IInv => HeardByInsiders  BY DEF IInv
<1>. QED  BY Invariance, <1>1, PTL

\* Nobody hears of a workspace that is not committed.
THEOREM NothingUncommittedHeard == Spec => []HeardAreCommitted
<1>1. IInv => HeardAreCommitted  BY DEF IInv
<1>. QED  BY Invariance, <1>1, PTL
=============================================================================
