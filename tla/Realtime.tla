------------------------------ MODULE Realtime ------------------------------
(***************************************************************************)
(* RealtimeGateway: sockets, the rooms they join, and who hears the events *)
(* that WorkspaceService, ProjectService and TaskService emit.             *)
(*                                                                         *)
(* A join looks the membership up, awaits the answer, and then enters the  *)
(* room; a handler writes, awaits the answer, and then emits.  Membership  *)
(* may change between the two.  Nothing but a disconnection takes a socket *)
(* out of a room.  What an event says is the business of Board.            *)
(***************************************************************************)
CONSTANTS Users, Workspaces, Requests, None,
          Sockets   \* socket ids (never used by two connections at once)

ASSUME Sentinel == None \notin Users \cup Workspaces

VARIABLES
  state,     \* of a workspace: "unborn", "inserted", "live", "deleted", or
             \* "aborted" when its INSERT was rolled back
  members,   \* committed <<user, workspace>> rows
  userOf,    \* socket.data.userId, None when not connected
  joining,   \* <<socket, workspace>> joins that have seen a membership
  rooms,     \* <<socket, workspace>>: the socket is in the room
  pc,        \* a request's next step
  creator, ws, event,  \* who creates, where, and the event to be emitted
  heard,     \* history: <<user, workspace, event>> deliveries
  everMember \* history: every membership there has been

data == <<state, members, everMember>>
sockets == <<userOf, joining, rooms>>
requests == <<pc, creator, ws, event>>
vars == <<data, sockets, requests, heard>>

Kinds == {"created", "changed", "deleted"}

Init ==
  /\ state = [w \in Workspaces |-> "unborn"]
  /\ members = {} /\ everMember = {}
  /\ userOf = [s \in Sockets |-> None]
  /\ joining = {} /\ rooms = {}
  /\ pc = [r \in Requests |-> "idle"]
  /\ creator = [r \in Requests |-> None]
  /\ ws = [r \in Requests |-> None]
  /\ event = [r \in Requests |-> "changed"]
  /\ heard = {}

-----------------------------------------------------------------------------
(* Sockets                                                                 *)

\* handleConnection, with a token that verifies; without one the socket is
\* disconnected, which leaves things as they were.
HandleConnection(s) ==
  /\ userOf[s] = None
  /\ \A w \in Workspaces : <<s, w>> \notin joining
  /\ \E u \in Users : userOf' = [userOf EXCEPT ![s] = u]
  /\ UNCHANGED <<data, joining, rooms, requests, heard>>

\* Mutant: the role found is not looked at (realtime.gateway.ts:79-81 dropped).
JoinAnyone(s) ==
  /\ userOf[s] # None
  /\ \E w \in Workspaces : joining' = joining \cup {<<s, w>>}
  /\ UNCHANGED <<data, userOf, rooms, requests, heard>>

\* handleJoinWorkspace up to its second await; who is no member is refused.
HandleJoinWorkspace(s) ==
  /\ userOf[s] # None
  /\ \E w \in Workspaces :
       /\ <<userOf[s], w>> \in members
       /\ joining' = joining \cup {<<s, w>>}
  /\ UNCHANGED <<data, userOf, rooms, requests, heard>>

\* socket.join, which does nothing for a socket that is gone.
EnterRoom(s) ==
  /\ \E w \in Workspaces :
       /\ <<s, w>> \in joining
       /\ joining' = joining \ {<<s, w>>}
       /\ rooms' = IF userOf[s] = None THEN rooms ELSE rooms \cup {<<s, w>>}
  /\ UNCHANGED <<data, userOf, requests, heard>>

Disconnect(s) ==
  /\ userOf[s] # None
  /\ userOf' = [userOf EXCEPT ![s] = None]
  /\ rooms' = {e \in rooms : e[1] # s}
  /\ UNCHANGED <<data, joining, requests, heard>>

-----------------------------------------------------------------------------
(* Requests that write and then emit                                       *)

\* Mutant: the creator's sockets are put into the room with the INSERTs, so
\* that they hear workspace.created.
InsertAndJoin(r) ==
  /\ pc[r] = "idle"
  /\ \E w \in Workspaces, u \in Users :
       /\ state[w] = "unborn"
       /\ state' = [state EXCEPT ![w] = "inserted"]
       /\ rooms' = rooms \cup {<<s, w>> : s \in {t \in Sockets : userOf[t] = u}}
       /\ creator' = [creator EXCEPT ![r] = u]
       /\ ws' = [ws EXCEPT ![r] = w]
       /\ event' = [event EXCEPT ![r] = "created"]
  /\ pc' = [pc EXCEPT ![r] = "emit"]
  /\ UNCHANGED <<members, everMember, userOf, joining, heard>>

\* createWorkspace: BEGIN and both INSERTs, which nobody sees before COMMIT.
InsertWorkspace(r) ==
  /\ pc[r] = "idle"
  /\ \E w \in Workspaces, u \in Users :
       /\ state[w] = "unborn"
       /\ state' = [state EXCEPT ![w] = "inserted"]
       /\ creator' = [creator EXCEPT ![r] = u]
       /\ ws' = [ws EXCEPT ![r] = w]
       /\ event' = [event EXCEPT ![r] = "created"]
  /\ pc' = [pc EXCEPT ![r] = "emit"]
  /\ UNCHANGED <<members, everMember, sockets, heard>>

\* The event went out before this; the COMMIT may fail, the id is then spent.
CommitWorkspace(r) ==
  /\ pc[r] = "commit"
  /\ LET row == <<creator[r], ws[r]>> IN
       \/ /\ state' = [state EXCEPT ![ws[r]] = "live"]
          /\ members' = members \cup {row}
          /\ everMember' = everMember \cup {row}
       \/ /\ state' = [state EXCEPT ![ws[r]] = "aborted"]
          /\ UNCHANGED <<members, everMember>>
  /\ pc' = [pc EXCEPT ![r] = "idle"]
  /\ UNCHANGED <<sockets, creator, ws, event, heard>>

\* updateWorkspace, and every handler of a project or a task.
Change(r) ==
  /\ pc[r] = "idle"
  /\ \E w \in Workspaces :
       /\ state[w] = "live"
       /\ ws' = [ws EXCEPT ![r] = w]
       /\ event' = [event EXCEPT ![r] = "changed"]
  /\ pc' = [pc EXCEPT ![r] = "emit"]
  /\ UNCHANGED <<data, sockets, creator, heard>>

DeleteWorkspace(r) ==
  /\ pc[r] = "idle"
  /\ \E w \in Workspaces :
       /\ state[w] = "live"
       /\ state' = [state EXCEPT ![w] = "deleted"]
       /\ members' = {m \in members : m[2] # w}
       /\ ws' = [ws EXCEPT ![r] = w]
       /\ event' = [event EXCEPT ![r] = "deleted"]
  /\ pc' = [pc EXCEPT ![r] = "emit"]
  /\ UNCHANGED <<everMember, sockets, creator, heard>>

\* server.to(room).emit: one of the nine handlers of the gateway.
Room(w) == {s \in Sockets : <<s, w>> \in rooms}

Emit(r) ==
  /\ pc[r] = "emit"
  /\ heard' = heard \cup {<<userOf[s], ws[r], event[r]>> : s \in Room(ws[r])}
  /\ pc' = [pc EXCEPT ![r] = IF event[r] = "created" THEN "commit" ELSE "idle"]
  /\ UNCHANGED <<data, sockets, creator, ws, event>>

\* The process stops between a write and its event, or an INSERT fails.
Fail(r) ==
  /\ pc[r] \in {"emit", "commit"}
  /\ state' = IF event[r] = "created" THEN [state EXCEPT ![ws[r]] = "aborted"]
                                      ELSE state
  /\ pc' = [pc EXCEPT ![r] = "idle"]
  /\ UNCHANGED <<members, everMember, sockets, creator, ws, event, heard>>

\* MemberService and InvitationService.
AddMember(u, w) ==
  /\ state[w] = "live" /\ <<u, w>> \notin members
  /\ members' = members \cup {<<u, w>>}
  /\ everMember' = everMember \cup {<<u, w>>}
  /\ UNCHANGED <<state, sockets, requests, heard>>

RemoveMember(u, w) ==
  /\ <<u, w>> \in members
  /\ members' = members \ {<<u, w>>}
  /\ UNCHANGED <<state, everMember, sockets, requests, heard>>

Next ==
  \/ \E s \in Sockets : \/ HandleConnection(s) \/ HandleJoinWorkspace(s)
                        \/ EnterRoom(s) \/ Disconnect(s)
  \/ \E r \in Requests : \/ InsertWorkspace(r) \/ CommitWorkspace(r) \/ Change(r)
                         \/ DeleteWorkspace(r) \/ Emit(r) \/ Fail(r)
  \/ \E u \in Users, w \in Workspaces : AddMember(u, w) \/ RemoveMember(u, w)

Spec == Init /\ [][Next]_vars

-----------------------------------------------------------------------------
\* The shape of every variable.
TypeOK ==
  /\ state \in [Workspaces -> {"unborn", "inserted", "live", "deleted", "aborted"}]
  /\ members \subseteq Users \X Workspaces
  /\ userOf \in [Sockets -> Users \cup {None}]
  /\ joining \subseteq Sockets \X Workspaces
  /\ rooms \subseteq Sockets \X Workspaces
  /\ pc \in [Requests -> {"idle", "emit", "commit"}]
  /\ creator \in [Requests -> Users \cup {None}]
  /\ ws \in [Requests -> Workspaces \cup {None}]
  /\ event \in [Requests -> Kinds]
  /\ heard \subseteq Users \X Workspaces \X Kinds
  /\ everMember \subseteq Users \X Workspaces

\* Nobody ever hears of a workspace he has not been a member of, whatever
\* joins, disconnections, removals and events overlap
\* (realtime.gateway.ts:67-93, 95-197).
HeardByInsiders == \A h \in heard : <<h[1], h[2]>> \in everMember

\* Nobody hears of a workspace that is not committed, and may never be:
\* workspace.created goes out before the COMMIT, so it must find the room empty,
\* whatever joins, reconnections and failed commits overlap
\* (workspace.service.ts:35-55, realtime.gateway.ts:67-93).
HeardAreCommitted == \A h \in heard : state[h[2]] \in {"live", "deleted"}
=============================================================================
