---------------------------- MODULE Invitations ----------------------------
(***************************************************************************)
(* InvitationService: inviting, accepting and declining, the invitations   *)
(* table, the members rows it adds, and the emails it queues.              *)
(*                                                                         *)
(* A link is named by the row it was made for.  It signs only (email,      *)
(* workspace), and the row it is compared with is looked up by that pair.  *)
(* bcrypt hashes the first 72 bytes of a token: the JWT header and the     *)
(* beginning of the address.  The comparison therefore never tells two     *)
(* links for one address apart, and is left out.                           *)
(***************************************************************************)

CONSTANTS Ids,         \* row ids of invitations
          Users, Workspaces, Emails,
          Requests,    \* requests the server may be handling at one time
          None         \* no id, user, workspace or email

ASSUME Sentinel == None \notin Ids \cup Users \cup Workspaces \cup Emails

VARIABLES
  live,        \* workspaces that exist
  members,     \* <<user, workspace>> rows
  rows,        \* ids of the invitations that exist
  wsOf, emailOf,  \* what an id was stored for
  status,      \* status column, "none" before the INSERT
  expired,     \* invitations whose expires_at (and link's exp) has passed
  queued,      \* invitations whose email job was added to the queue
  pc, ws, email,  \* a request, and the workspace and email it works for
  user, inv,   \* who accepts, and the invitationId being answered
  joined,      \* history: <<user, invitation>> memberships given
  contested,   \* history: invitations two requests have held at one time
  interrupted  \* history: invitations whose accept failed half-way

table == <<live, members, rows, wsOf, emailOf, status, expired>>
locals == <<ws, email, user, inv>>
history == <<joined, contested, interrupted>>
vars == <<table, queued, pc, locals, history>>

\* Rows stored for an email; those of them pending for a workspace.
Stored(e) == {i \in rows : emailOf[i] = e}
Pending(e, w) == {i \in Stored(e) : wsOf[i] = w /\ status[i] = "pending"}

Init ==
  /\ live = Workspaces /\ members = {}
  /\ rows = {} /\ expired = {} /\ queued = {}
  /\ wsOf = [i \in Ids |-> None] /\ emailOf = [i \in Ids |-> None]
  /\ status = [i \in Ids |-> "none"]
  /\ pc = [r \in Requests |-> "idle"]
  /\ ws = [r \in Requests |-> None] /\ email = [r \in Requests |-> None]
  /\ user = [r \in Requests |-> None] /\ inv = [r \in Requests |-> None]
  /\ joined = {} /\ contested = {} /\ interrupted = {}

Goto(r, label) == pc' = [pc EXCEPT ![r] = label]

Finish(r) ==
  /\ Goto(r, "idle")
  /\ ws' = [ws EXCEPT ![r] = None]
  /\ email' = [email EXCEPT ![r] = None]
  /\ user' = [user EXCEPT ![r] = None]
  /\ inv' = [inv EXCEPT ![r] = None]

-----------------------------------------------------------------------------
(* generateInvitation                                                      *)

\* POST :workspaceId/invitations, past the guard.
Invite(r) ==
  /\ pc[r] = "idle"
  /\ \E w \in live, e \in Emails :
       /\ ws' = [ws EXCEPT ![r] = w]
       /\ email' = [email EXCEPT ![r] = e]
  /\ Goto(r, "checkExisting")
  /\ UNCHANGED <<table, queued, user, inv, history>>

\* existInvitation: any row of the address, whatever its workspace or status.
Exists(e, w) == Stored(e) # {}

ExistInvitation(r) ==
  /\ pc[r] = "checkExisting"
  /\ IF Exists(email[r], ws[r])
     THEN Finish(r)
     ELSE Goto(r, "store") /\ UNCHANGED locals
  /\ UNCHANGED <<table, queued, history>>

\* storeInvitation: the INSERT fails when the workspace is gone, or when the
\* partial unique index finds another pending row for the pair.
StoreInvitation(r) ==
  /\ pc[r] = "store"
  /\ IF ws[r] \notin live \/ Pending(email[r], ws[r]) # {}
     THEN Finish(r) /\ UNCHANGED table
     ELSE \E i \in Ids :
            /\ status[i] = "none"
            /\ rows' = rows \cup {i}
            /\ wsOf' = [wsOf EXCEPT ![i] = ws[r]]
            /\ emailOf' = [emailOf EXCEPT ![i] = email[r]]
            /\ status' = [status EXCEPT ![i] = "pending"]
            /\ inv' = [inv EXCEPT ![r] = i]
            /\ Goto(r, "context")
            /\ UNCHANGED <<live, members, expired, ws, email, user>>
  /\ UNCHANGED <<queued, history>>

\* A workspace deleted in the meantime is a 404, after the row was stored.
GetInviteContext(r) ==
  /\ pc[r] = "context"
  /\ IF ws[r] \in live THEN Goto(r, "enqueue") /\ UNCHANGED locals
                             ELSE Finish(r)
  /\ UNCHANGED <<table, queued, history>>

EnqueueEmail(r) ==
  /\ pc[r] = "enqueue"
  /\ queued' = queued \cup {inv[r]}
  /\ Finish(r)
  /\ UNCHANGED <<table, history>>

-----------------------------------------------------------------------------
(* acceptInvitation and declineInvitation                                  *)

\* Mutants: getHashToken without "AND workspace_id", or without "AND status".
MatchesAnywhere(i) ==
  {j \in rows : emailOf[j] = emailOf[i] /\ status[j] = "pending"}
MatchesDecided(i) == {j \in rows : emailOf[j] = emailOf[i] /\ wsOf[j] = wsOf[i]}

\* getHashToken: the pending row of the link's address and workspace.
Matches(i) == {j \in rows : /\ emailOf[j] = emailOf[i] /\ wsOf[j] = wsOf[i]
                            /\ status[j] = "pending"}

\* verifyToken: a link that is not valid is refused and changes nothing.  A link
\* is in the hands of anyone, any number of times, as soon as its email is
\* queued; how it gets there, or does not, is the business of EmailQueue.
Follow(r, u, label) ==
  /\ pc[r] = "idle"
  /\ \E i \in queued \ expired : \E j \in Matches(i) \ expired :
       /\ inv' = [inv EXCEPT ![r] = j]
       /\ ws' = [ws EXCEPT ![r] = wsOf[i]]
       /\ contested' = IF \E s \in Requests : inv[s] = j THEN contested \cup {j}
                                                         ELSE contested
  /\ user' = [user EXCEPT ![r] = u]
  /\ Goto(r, label)
  /\ UNCHANGED <<table, queued, email, joined, interrupted>>

Accept(r) == \E u \in Users : Follow(r, u, "addMember")
Decline(r) == Follow(r, None, "markDeclined")

\* Mutant: the status is set before the member is added (lines 244-249 swapped).
AcceptBeforeJoining(r) ==
  /\ pc[r] = "addMember"
  /\ status' = [status EXCEPT ![inv[r]] = "accepted"]
  /\ Goto(r, "markAccepted")
  /\ UNCHANGED <<live, members, rows, wsOf, emailOf, expired, queued, locals,
                 history>>

\* addMember runs on the pool, not on the transaction's client: it commits at
\* once.  The unique constraint or a foreign key may refuse it: ROLLBACK.
AddMember(r) ==
  /\ pc[r] = "addMember"
  /\ LET row == <<user[r], wsOf[inv[r]]>> IN
       IF row \in members \/ row[2] \notin live
       THEN Finish(r) /\ UNCHANGED <<members, joined>>
       ELSE /\ members' = members \cup {row}
            /\ joined' = joined \cup {<<user[r], inv[r]>>}
            /\ Goto(r, "markAccepted")
            /\ UNCHANGED locals
  /\ UNCHANGED <<live, rows, wsOf, emailOf, status, expired, queued, contested,
                 interrupted>>

\* UPDATE ... WHERE id, whatever the status is by now.
SetStatus(i, s) ==
  status' = IF i \in rows THEN [status EXCEPT ![i] = s] ELSE status

\* Mutant: the transaction ends without the UPDATE (lines 246-249 dropped).
LeavePending(r) ==
  /\ pc[r] = "markAccepted"
  /\ Finish(r)
  /\ UNCHANGED <<table, queued, history>>

\* The UPDATE and the COMMIT are one step: nothing is done between them.
MarkAccepted(r) ==
  /\ pc[r] = "markAccepted"
  /\ SetStatus(inv[r], "accepted")
  /\ Finish(r)
  /\ UNCHANGED <<live, members, rows, wsOf, emailOf, expired, queued, history>>

MarkDeclined(r) ==
  /\ pc[r] = "markDeclined"
  /\ SetStatus(inv[r], "declined")
  /\ Finish(r)
  /\ UNCHANGED <<live, members, rows, wsOf, emailOf, expired, queued, history>>

-----------------------------------------------------------------------------
(* Failures, time, and the rest of the program                             *)

\* A query or the queue fails, or the process stops.  At "idle" nothing runs; at
\* "markAccepted" the membership is committed and the UPDATE is not.
Fail(r) ==
  /\ pc[r] # "idle"
  /\ interrupted' = IF pc[r] = "markAccepted" THEN interrupted \cup {inv[r]}
                                              ELSE interrupted
  /\ Finish(r)
  /\ UNCHANGED <<table, queued, joined, contested>>

Expire(i) ==
  /\ i \in rows \ expired
  /\ expired' = expired \cup {i}
  /\ UNCHANGED <<live, members, rows, wsOf, emailOf, status, queued, pc, locals,
                 history>>

\* MemberService.removeMember, and the DELETE cascade of a workspace.
RemoveMember(u, w) ==
  /\ <<u, w>> \in members
  /\ members' = members \ {<<u, w>>}
  /\ UNCHANGED <<live, rows, wsOf, emailOf, status, expired, queued, pc, locals,
                 history>>

DeleteWorkspace(w) ==
  /\ w \in live
  /\ live' = live \ {w}
  /\ members' = {m \in members : m[2] # w}
  /\ rows' = {i \in rows : wsOf[i] # w}
  /\ UNCHANGED <<wsOf, emailOf, status, expired, queued, pc, locals, history>>

Step(r) ==
  \/ Invite(r) \/ ExistInvitation(r) \/ StoreInvitation(r)
  \/ GetInviteContext(r) \/ EnqueueEmail(r)
  \/ Accept(r) \/ Decline(r)
  \/ AddMember(r) \/ MarkAccepted(r) \/ MarkDeclined(r) \/ Fail(r)

Next ==
  \/ \E r \in Requests : Step(r)
  \/ \E i \in Ids : Expire(i)
  \/ \E w \in Workspaces : DeleteWorkspace(w) \/ \E u \in Users : RemoveMember(u, w)

Spec == Init /\ [][Next]_vars

-----------------------------------------------------------------------------
\* The shape of every variable; the statuses are those the schema allows.
TypeOK ==
  /\ live \subseteq Workspaces /\ members \subseteq Users \X Workspaces
  /\ rows \subseteq Ids /\ expired \subseteq Ids
  /\ queued \subseteq Ids
  /\ wsOf \in [Ids -> Workspaces \cup {None}]
  /\ emailOf \in [Ids -> Emails \cup {None}]
  /\ status \in [Ids -> {"none", "pending", "accepted", "declined"}]
  /\ pc \in [Requests -> {"idle", "checkExisting", "store", "context", "enqueue",
                          "addMember", "markAccepted", "markDeclined"}]
  /\ ws \in [Requests -> Workspaces \cup {None}]
  /\ email \in [Requests -> Emails \cup {None}]
  /\ user \in [Requests -> Users \cup {None}]
  /\ inv \in [Requests -> Ids \cup {None}]
  /\ joined \subseteq Users \X Ids
  /\ contested \subseteq Ids /\ interrupted \subseteq Ids

\* An invitation that reads accepted has made somebody a member, whatever
\* failed, expired or was declined meanwhile (invitation.service.ts:244-249).
AcceptedWasJoined ==
  \A i \in Ids : status[i] = "accepted" => \E u \in Users : <<u, i>> \in joined

\* A link gives membership of the workspace it was signed for and of no other,
\* also when the address has links for several (lines 168-174, 244).
JoinMatchesLink ==
  [][\A m \in members' \ members : \E r \in Requests :
       pc[r] = "addMember" /\ m = <<user[r], ws[r]>>]_vars

\* A membership given and an invitation still pending are seen together only
\* while its accept is running.
AtomicFor(m) ==
  m[2] \in rows /\ status[m[2]] = "pending" =>
    \E r \in Requests : pc[r] = "markAccepted" /\ inv[r] = m[2]

\* README.md:33, "executes atomic multi-table transactions", and
\* invitation.service.spec.ts:237, "add member, and update invitation status to
\* accepted in transaction": accepting is atomic for every invitation no accept
\* of which failed between its two writes (lines 244-249), whatever else runs.
\* For the others it is not: addMember's INSERT is not part of the transaction,
\* so a failure after it does not undo it.
UninterruptedAcceptIsAtomic ==
  \A m \in joined : m[2] \notin interrupted => AtomicFor(m)

\* One invitation makes one member, over any sequence of links, declines and
\* expiries, unless two requests answered it at one time or one failed half-way
\* (lines 168-174 find only pending rows).
OneMemberPerInvitation ==
  \A m, n \in joined :
    m[2] = n[2] /\ m[2] \notin contested \cup interrupted => m[1] = n[1]

\* An invitation that was accepted is not declined afterwards, nor the other
\* way round, unless two requests answered it at one time (lines 246-249, 256-259).
DecisionIsFinal ==
  [][\A i \in Ids \ contested : status[i] \in {"accepted", "declined"} =>
       status'[i] = status[i]]_vars
=============================================================================
