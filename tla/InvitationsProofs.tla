------------------------- MODULE InvitationsProofs -------------------------
(* Proofs about Invitations, for any sets of ids, users, workspaces, emails *)
(* and requests.                                                           *)
EXTENDS Invitations, TLAPS

\* An id is stored for a workspace before anything refers to it, and its row
\* goes only with that workspace.
StoredFit ==
  /\ \A i \in Ids : status[i] # "none" => wsOf[i] \in Workspaces
  /\ \A i \in rows : status[i] # "none" /\ wsOf[i] \in live
  /\ \A i \in Ids : status[i] # "none" /\ wsOf[i] \in live => i \in rows
  /\ \A i \in Ids : \A u \in Users : <<u, i>> \in joined => status[i] # "none"

\* What a request carries when it needs it.
LocalsFit ==
  \A r \in Requests :
    /\ pc[r] \in {"checkExisting", "store", "context", "enqueue"} =>
         ws[r] \in Workspaces /\ email[r] \in Emails
    /\ pc[r] \in {"context", "enqueue"} => ws[r] = wsOf[inv[r]]
    /\ pc[r] \in {"context", "enqueue", "addMember", "markAccepted",
                  "markDeclined"} => inv[r] \in Ids /\ status[inv[r]] # "none"
    /\ pc[r] \in {"addMember", "markAccepted"} =>
         user[r] \in Users /\ ws[r] = wsOf[inv[r]]
    /\ pc[r] = "markAccepted" => <<user[r], inv[r]>> \in joined

\* Two requests that hold one invitation make it contested.
AnswersNoted ==
  \A r \in Requests :
    /\ pc[r] \in {"idle", "checkExisting", "store"} => inv[r] = None
    /\ \A s \in Requests : r # s /\ inv[r] = inv[s] /\ inv[r] # None => inv[r] \in contested

\* What a request alone with its invitation found pending is pending still.
StillPending ==
  \A r \in Requests :
    pc[r] \in {"addMember", "markAccepted", "markDeclined"} /\ inv[r] \notin contested
      => status[inv[r]] = "pending"

Promises ==
  /\ AcceptedWasJoined /\ UninterruptedAcceptIsAtomic
  /\ OneMemberPerInvitation
IInv ==
  /\ TypeOK /\ StoredFit /\ LocalsFit
  /\ AnswersNoted /\ StillPending /\ Promises

-----------------------------------------------------------------------------
\* Every step keeps the types.
LEMMA TypeStep ==
  ASSUME TypeOK, LocalsFit, StoredFit, [Next]_vars
  PROVE  TypeOK'
<1> USE Sentinel DEF TypeOK, LocalsFit, StoredFit, vars, table, history, locals
<1>1. ASSUME NEW r \in Requests, Invite(r) PROVE TypeOK'
  BY <1>1 DEF Invite, Goto
<1>2. ASSUME NEW r \in Requests, ExistInvitation(r) PROVE TypeOK'
  BY <1>2 DEF ExistInvitation, Finish, Goto
<1>3. ASSUME NEW r \in Requests, StoreInvitation(r) PROVE TypeOK'
  BY <1>3 DEF StoreInvitation, Finish, Goto
<1>4. ASSUME NEW r \in Requests, GetInviteContext(r) PROVE TypeOK'
  BY <1>4 DEF GetInviteContext, Finish, Goto
<1>5. ASSUME NEW r \in Requests, EnqueueEmail(r) PROVE TypeOK'
  BY <1>5 DEF EnqueueEmail, Finish, Goto
<1>6. ASSUME NEW r \in Requests, Accept(r) PROVE TypeOK'
  BY <1>6 DEF Accept, Follow, Matches, Goto
<1>7. ASSUME NEW r \in Requests, Decline(r) PROVE TypeOK'
  BY <1>7 DEF Decline, Follow, Matches, Goto
<1>8. ASSUME NEW r \in Requests, AddMember(r) PROVE TypeOK'
  <2>1. <<user[r], wsOf[inv[r]]>> \in Users \X Workspaces
    BY <1>8 DEF AddMember
  <2>2. /\ members' \subseteq members \cup {<<user[r], wsOf[inv[r]]>>}
        /\ joined' \subseteq joined \cup {<<user[r], inv[r]>>}
        /\ Finish(r) \/ (Goto(r, "markAccepted") /\ UNCHANGED locals)
        /\ UNCHANGED <<live, rows, wsOf, emailOf, status, expired, queued, contested,
                       interrupted>>
    BY <1>8 DEF AddMember
  <2>3. user[r] \in Users /\ inv[r] \in Ids
    BY <1>8 DEF AddMember
  <2> QED
    BY <2>1, <2>2, <2>3 DEF Finish, Goto
<1>9. ASSUME NEW r \in Requests, MarkAccepted(r) PROVE TypeOK'
  BY <1>9 DEF MarkAccepted, SetStatus, Finish, Goto
<1>10. ASSUME NEW r \in Requests, MarkDeclined(r) PROVE TypeOK'
  BY <1>10 DEF MarkDeclined, SetStatus, Finish, Goto
<1>11. ASSUME NEW r \in Requests, Fail(r) PROVE TypeOK'
  BY <1>11 DEF Fail, Finish, Goto
<1>13. ASSUME NEW i \in Ids, Expire(i) PROVE TypeOK'
  BY <1>13 DEF Expire
<1>14. ASSUME NEW w \in Workspaces, DeleteWorkspace(w) PROVE TypeOK'
  BY <1>14 DEF DeleteWorkspace
<1>15. ASSUME NEW u \in Users, NEW w \in Workspaces, RemoveMember(u, w) PROVE TypeOK'
  BY <1>15 DEF RemoveMember
<1>16. CASE UNCHANGED vars
  BY <1>16
<1> QED
  BY <1>1, <1>2, <1>3, <1>4, <1>5, <1>6, <1>7, <1>8, <1>9, <1>10, <1>11, <1>13, <1>14, <1>15, <1>16 DEF Next, Step

\* Rows stay with their workspaces.
LEMMA StoredStep ==
  ASSUME TypeOK, LocalsFit, StoredFit, [Next]_vars
  PROVE  StoredFit'
<1> USE Sentinel DEF TypeOK, LocalsFit, StoredFit, vars, table, history, locals
<1>1. ASSUME NEW r \in Requests, Invite(r) PROVE StoredFit'
  BY <1>1 DEF Invite, Goto
<1>2. ASSUME NEW r \in Requests, ExistInvitation(r) PROVE StoredFit'
  BY <1>2 DEF ExistInvitation, Finish, Goto
<1>3. ASSUME NEW r \in Requests, StoreInvitation(r) PROVE StoredFit'
  <2>1. CASE Finish(r) /\ UNCHANGED <<table, queued, history>>
    BY <1>3, <2>1 DEF StoreInvitation, Finish, Goto
  <2>2. CASE ~(Finish(r) /\ UNCHANGED <<table, queued, history>>)
    <3>1. PICK i \in Ids :
            /\ status[i] = "none" /\ pc[r] = "store" /\ ws[r] \in live
            /\ rows' = rows \cup {i}
            /\ wsOf' = [wsOf EXCEPT ![i] = ws[r]]
            /\ status' = [status EXCEPT ![i] = "pending"]
            /\ inv' = [inv EXCEPT ![r] = i]
            /\ Goto(r, "context")
            /\ UNCHANGED <<live, ws, email, user, queued, history>>
      BY <1>3, <2>2 DEF StoreInvitation
    <3> QED
      BY <3>1 DEF Goto
  <2> QED
    BY <2>1, <2>2
<1>4. ASSUME NEW r \in Requests, GetInviteContext(r) PROVE StoredFit'
  BY <1>4 DEF GetInviteContext, Finish, Goto
<1>5. ASSUME NEW r \in Requests, EnqueueEmail(r) PROVE StoredFit'
  BY <1>5 DEF EnqueueEmail, Finish, Goto
<1>6. ASSUME NEW r \in Requests, Accept(r) PROVE StoredFit'
  BY <1>6 DEF Accept, Follow, Matches, Goto
<1>7. ASSUME NEW r \in Requests, Decline(r) PROVE StoredFit'
  BY <1>7 DEF Decline, Follow, Matches, Goto
<1>8. ASSUME NEW r \in Requests, AddMember(r) PROVE StoredFit'
  BY <1>8 DEF AddMember, Finish, Goto
<1>9. ASSUME NEW r \in Requests, MarkAccepted(r) PROVE StoredFit'
  BY <1>9 DEF MarkAccepted, SetStatus, Finish, Goto
<1>10. ASSUME NEW r \in Requests, MarkDeclined(r) PROVE StoredFit'
  BY <1>10 DEF MarkDeclined, SetStatus, Finish, Goto
<1>11. ASSUME NEW r \in Requests, Fail(r) PROVE StoredFit'
  BY <1>11 DEF Fail, Finish, Goto
<1>13. ASSUME NEW i \in Ids, Expire(i) PROVE StoredFit'
  BY <1>13 DEF Expire
<1>14. ASSUME NEW w \in Workspaces, DeleteWorkspace(w) PROVE StoredFit'
  BY <1>14 DEF DeleteWorkspace
<1>15. ASSUME NEW u \in Users, NEW w \in Workspaces, RemoveMember(u, w) PROVE StoredFit'
  BY <1>15 DEF RemoveMember
<1>16. CASE UNCHANGED vars
  BY <1>16
<1> QED
  BY <1>1, <1>2, <1>3, <1>4, <1>5, <1>6, <1>7, <1>8, <1>9, <1>10, <1>11, <1>13, <1>14, <1>15, <1>16 DEF Next, Step

\* Requests carry what they need.
LEMMA LocalsStep ==
  ASSUME TypeOK, LocalsFit, StoredFit, [Next]_vars
  PROVE  LocalsFit'
<1> USE Sentinel DEF TypeOK, LocalsFit, StoredFit, vars, table, history, locals
<1>1. ASSUME NEW r \in Requests, Invite(r) PROVE LocalsFit'
  BY <1>1 DEF Invite, Goto
<1>2. ASSUME NEW r \in Requests, ExistInvitation(r) PROVE LocalsFit'
  BY <1>2 DEF ExistInvitation, Finish, Goto
<1>3. ASSUME NEW r \in Requests, StoreInvitation(r) PROVE LocalsFit'
  <2>1. CASE Finish(r) /\ UNCHANGED <<table, queued, history>>
    BY <2>1 DEF Finish, Goto
  <2>2. CASE ~(Finish(r) /\ UNCHANGED <<table, queued, history>>)
    <3>1. PICK i \in Ids :
            /\ status[i] = "none" /\ pc[r] = "store"
            /\ wsOf' = [wsOf EXCEPT ![i] = ws[r]]
            /\ status' = [status EXCEPT ![i] = "pending"]
            /\ inv' = [inv EXCEPT ![r] = i]
            /\ Goto(r, "context")
            /\ UNCHANGED <<ws, email, user, history>>
      BY <1>3, <2>2 DEF StoreInvitation
    <3> QED
      BY <3>1 DEF Goto
  <2> QED
    BY <2>1, <2>2
<1>4. ASSUME NEW r \in Requests, GetInviteContext(r) PROVE LocalsFit'
  BY <1>4 DEF GetInviteContext, Finish, Goto
<1>5. ASSUME NEW r \in Requests, EnqueueEmail(r) PROVE LocalsFit'
  BY <1>5 DEF EnqueueEmail, Finish, Goto
<1>6. ASSUME NEW r \in Requests, Accept(r) PROVE LocalsFit'
  BY <1>6 DEF Accept, Follow, Matches, Goto
<1>7. ASSUME NEW r \in Requests, Decline(r) PROVE LocalsFit'
  BY <1>7 DEF Decline, Follow, Matches, Goto
<1>8. ASSUME NEW r \in Requests, AddMember(r) PROVE LocalsFit'
  BY <1>8 DEF AddMember, Finish, Goto
<1>9. ASSUME NEW r \in Requests, MarkAccepted(r) PROVE LocalsFit'
  BY <1>9 DEF MarkAccepted, SetStatus, Finish, Goto
<1>10. ASSUME NEW r \in Requests, MarkDeclined(r) PROVE LocalsFit'
  BY <1>10 DEF MarkDeclined, SetStatus, Finish, Goto
<1>11. ASSUME NEW r \in Requests, Fail(r) PROVE LocalsFit'
  BY <1>11 DEF Fail, Finish, Goto
<1>13. ASSUME NEW i \in Ids, Expire(i) PROVE LocalsFit'
  BY <1>13 DEF Expire
<1>14. ASSUME NEW w \in Workspaces, DeleteWorkspace(w) PROVE LocalsFit'
  BY <1>14 DEF DeleteWorkspace
<1>15. ASSUME NEW u \in Users, NEW w \in Workspaces, RemoveMember(u, w) PROVE LocalsFit'
  BY <1>15 DEF RemoveMember
<1>16. CASE UNCHANGED vars
  BY <1>16
<1> QED
  BY <1>1, <1>2, <1>3, <1>4, <1>5, <1>6, <1>7, <1>8, <1>9, <1>10, <1>11, <1>13, <1>14, <1>15, <1>16 DEF Next, Step

\* Whatever is marked accepted has made a member.
LEMMA JoinedStep ==
  ASSUME TypeOK, LocalsFit, StoredFit, AcceptedWasJoined, [Next]_vars
  PROVE  AcceptedWasJoined'
<1> USE Sentinel DEF TypeOK, LocalsFit, StoredFit, AcceptedWasJoined, vars, table, history, locals
<1>1. ASSUME NEW r \in Requests, Invite(r) PROVE AcceptedWasJoined'
  BY <1>1 DEF Invite, Goto
<1>2. ASSUME NEW r \in Requests, ExistInvitation(r) PROVE AcceptedWasJoined'
  BY <1>2 DEF ExistInvitation, Finish, Goto
<1>3. ASSUME NEW r \in Requests, StoreInvitation(r) PROVE AcceptedWasJoined'
  <2>1. CASE Finish(r) /\ UNCHANGED <<table, queued, history>>
    BY <1>3, <2>1 DEF StoreInvitation, Finish, Goto
  <2>2. CASE ~(Finish(r) /\ UNCHANGED <<table, queued, history>>)
    <3>1. PICK i \in Ids :
            /\ status[i] = "none" /\ pc[r] = "store" /\ ws[r] \in live
            /\ rows' = rows \cup {i}
            /\ wsOf' = [wsOf EXCEPT ![i] = ws[r]]
            /\ status' = [status EXCEPT ![i] = "pending"]
            /\ inv' = [inv EXCEPT ![r] = i]
            /\ Goto(r, "context")
            /\ UNCHANGED <<live, ws, email, user, queued, history>>
      BY <1>3, <2>2 DEF StoreInvitation
    <3> QED
      BY <3>1 DEF Goto
  <2> QED
    BY <2>1, <2>2
<1>4. ASSUME NEW r \in Requests, GetInviteContext(r) PROVE AcceptedWasJoined'
  BY <1>4 DEF GetInviteContext, Finish, Goto
<1>5. ASSUME NEW r \in Requests, EnqueueEmail(r) PROVE AcceptedWasJoined'
  BY <1>5 DEF EnqueueEmail, Finish, Goto
<1>6. ASSUME NEW r \in Requests, Accept(r) PROVE AcceptedWasJoined'
  BY <1>6 DEF Accept, Follow, Matches, Goto
<1>7. ASSUME NEW r \in Requests, Decline(r) PROVE AcceptedWasJoined'
  BY <1>7 DEF Decline, Follow, Matches, Goto
<1>8. ASSUME NEW r \in Requests, AddMember(r) PROVE AcceptedWasJoined'
  BY <1>8 DEF AddMember, Finish, Goto
<1>9. ASSUME NEW r \in Requests, MarkAccepted(r) PROVE AcceptedWasJoined'
  BY <1>9 DEF MarkAccepted, SetStatus, Finish, Goto
<1>10. ASSUME NEW r \in Requests, MarkDeclined(r) PROVE AcceptedWasJoined'
  BY <1>10 DEF MarkDeclined, SetStatus, Finish, Goto
<1>11. ASSUME NEW r \in Requests, Fail(r) PROVE AcceptedWasJoined'
  BY <1>11 DEF Fail, Finish, Goto
<1>13. ASSUME NEW i \in Ids, Expire(i) PROVE AcceptedWasJoined'
  BY <1>13 DEF Expire
<1>14. ASSUME NEW w \in Workspaces, DeleteWorkspace(w) PROVE AcceptedWasJoined'
  BY <1>14 DEF DeleteWorkspace
<1>15. ASSUME NEW u \in Users, NEW w \in Workspaces, RemoveMember(u, w) PROVE AcceptedWasJoined'
  BY <1>15 DEF RemoveMember
<1>16. CASE UNCHANGED vars
  BY <1>16
<1> QED
  BY <1>1, <1>2, <1>3, <1>4, <1>5, <1>6, <1>7, <1>8, <1>9, <1>10, <1>11, <1>13, <1>14, <1>15, <1>16 DEF Next, Step

\* The invitation a request works on has been stored.
LEMMA HeldIsStored ==
  ASSUME TypeOK, LocalsFit, AnswersNoted, NEW s \in Requests, inv[s] \in Ids
  PROVE  status[inv[s]] # "none"
<1>1. pc[s] \notin {"idle", "checkExisting", "store"}
  BY Sentinel DEF AnswersNoted
<1>2. pc[s] \in {"context", "enqueue", "addMember", "markAccepted", "markDeclined"}
  BY <1>1 DEF TypeOK
<1>. QED
  BY <1>2 DEF LocalsFit

\* Contests are noted.
LEMMA NotedStep ==
  ASSUME TypeOK, LocalsFit, StoredFit, AnswersNoted, [Next]_vars
  PROVE  AnswersNoted'
<1> USE Sentinel DEF TypeOK, LocalsFit, StoredFit, AnswersNoted, vars, table, history, locals
<1>1. ASSUME NEW r \in Requests, Invite(r) PROVE AnswersNoted'
  BY <1>1 DEF Invite, Goto
<1>2. ASSUME NEW r \in Requests, ExistInvitation(r) PROVE AnswersNoted'
  BY <1>2 DEF ExistInvitation, Finish, Goto
<1>3. ASSUME NEW r \in Requests, StoreInvitation(r) PROVE AnswersNoted'
  <2>1. CASE Finish(r) /\ UNCHANGED <<table, queued, history>>
    BY <1>3, <2>1 DEF StoreInvitation, Finish, Goto
  <2>2. CASE ~(Finish(r) /\ UNCHANGED <<table, queued, history>>)
    <3>1. PICK i \in Ids :
            /\ status[i] = "none" /\ pc[r] = "store" /\ ws[r] \in live
            /\ rows' = rows \cup {i}
            /\ wsOf' = [wsOf EXCEPT ![i] = ws[r]]
            /\ status' = [status EXCEPT ![i] = "pending"]
            /\ inv' = [inv EXCEPT ![r] = i]
            /\ Goto(r, "context")
            /\ UNCHANGED <<live, ws, email, user, queued, history>>
      BY <1>3, <2>2 DEF StoreInvitation
    <3>2. \A s \in Requests \ {r} : UNCHANGED <<pc[s], inv[s]>> /\ inv[s] # i
      <4> SUFFICES ASSUME NEW s \in Requests \ {r}
                   PROVE  UNCHANGED <<pc[s], inv[s]>> /\ inv[s] # i
        OBVIOUS
      <4>1. UNCHANGED <<pc[s], inv[s]>>
        BY <3>1 DEF Goto
      <4>2. inv[s] \in Ids => status[inv[s]] # "none"
        BY HeldIsStored
      <4> QED
        BY <3>1, <4>1, <4>2
    <3>3. pc'[r] = "context" /\ inv'[r] = i /\ i # None
      BY <3>1 DEF Goto
    <3> QED
      BY <3>1, <3>2, <3>3
  <2> QED
    BY <2>1, <2>2
<1>4. ASSUME NEW r \in Requests, GetInviteContext(r) PROVE AnswersNoted'
  BY <1>4 DEF GetInviteContext, Finish, Goto
<1>5. ASSUME NEW r \in Requests, EnqueueEmail(r) PROVE AnswersNoted'
  BY <1>5 DEF EnqueueEmail, Finish, Goto
<1>6. ASSUME NEW r \in Requests, Accept(r) PROVE AnswersNoted'
  BY <1>6 DEF Accept, Follow, Matches, Goto
<1>7. ASSUME NEW r \in Requests, Decline(r) PROVE AnswersNoted'
  BY <1>7 DEF Decline, Follow, Matches, Goto
<1>8. ASSUME NEW r \in Requests, AddMember(r) PROVE AnswersNoted'
  BY <1>8 DEF AddMember, Finish, Goto
<1>9. ASSUME NEW r \in Requests, MarkAccepted(r) PROVE AnswersNoted'
  BY <1>9 DEF MarkAccepted, SetStatus, Finish, Goto
<1>10. ASSUME NEW r \in Requests, MarkDeclined(r) PROVE AnswersNoted'
  BY <1>10 DEF MarkDeclined, SetStatus, Finish, Goto
<1>11. ASSUME NEW r \in Requests, Fail(r) PROVE AnswersNoted'
  BY <1>11 DEF Fail, Finish, Goto
<1>13. ASSUME NEW i \in Ids, Expire(i) PROVE AnswersNoted'
  BY <1>13 DEF Expire
<1>14. ASSUME NEW w \in Workspaces, DeleteWorkspace(w) PROVE AnswersNoted'
  BY <1>14 DEF DeleteWorkspace
<1>15. ASSUME NEW u \in Users, NEW w \in Workspaces, RemoveMember(u, w) PROVE AnswersNoted'
  BY <1>15 DEF RemoveMember
<1>16. CASE UNCHANGED vars
  BY <1>16
<1> QED
  BY <1>1, <1>2, <1>3, <1>4, <1>5, <1>6, <1>7, <1>8, <1>9, <1>10, <1>11, <1>13, <1>14, <1>15, <1>16 DEF Next, Step

\* Without a contest, what was found pending stays pending.
LEMMA PendingStep ==
  ASSUME TypeOK, LocalsFit, StoredFit, AnswersNoted, StillPending, [Next]_vars
  PROVE  StillPending'
<1> USE Sentinel DEF TypeOK, LocalsFit, StoredFit, AnswersNoted, StillPending, vars, table, history, locals
<1>1. ASSUME NEW r \in Requests, Invite(r) PROVE StillPending'
  BY <1>1 DEF Invite, Goto
<1>2. ASSUME NEW r \in Requests, ExistInvitation(r) PROVE StillPending'
  BY <1>2 DEF ExistInvitation, Finish, Goto
<1>3. ASSUME NEW r \in Requests, StoreInvitation(r) PROVE StillPending'
  <2>1. CASE Finish(r) /\ UNCHANGED <<table, queued, history>>
    BY <1>3, <2>1 DEF StoreInvitation, Finish, Goto
  <2>2. CASE ~(Finish(r) /\ UNCHANGED <<table, queued, history>>)
    <3>1. PICK i \in Ids :
            /\ status[i] = "none" /\ pc[r] = "store" /\ ws[r] \in live
            /\ rows' = rows \cup {i}
            /\ wsOf' = [wsOf EXCEPT ![i] = ws[r]]
            /\ status' = [status EXCEPT ![i] = "pending"]
            /\ inv' = [inv EXCEPT ![r] = i]
            /\ Goto(r, "context")
            /\ UNCHANGED <<live, ws, email, user, queued, history>>
      BY <1>3, <2>2 DEF StoreInvitation
    <3> QED
      BY <3>1 DEF Goto
  <2> QED
    BY <2>1, <2>2
<1>4. ASSUME NEW r \in Requests, GetInviteContext(r) PROVE StillPending'
  BY <1>4 DEF GetInviteContext, Finish, Goto
<1>5. ASSUME NEW r \in Requests, EnqueueEmail(r) PROVE StillPending'
  BY <1>5 DEF EnqueueEmail, Finish, Goto
<1>6. ASSUME NEW r \in Requests, Accept(r) PROVE StillPending'
  BY <1>6 DEF Accept, Follow, Matches, Goto
<1>7. ASSUME NEW r \in Requests, Decline(r) PROVE StillPending'
  BY <1>7 DEF Decline, Follow, Matches, Goto
<1>8. ASSUME NEW r \in Requests, AddMember(r) PROVE StillPending'
  BY <1>8 DEF AddMember, Finish, Goto
<1>9. ASSUME NEW r \in Requests, MarkAccepted(r) PROVE StillPending'
  BY <1>9 DEF MarkAccepted, SetStatus, Finish, Goto
<1>10. ASSUME NEW r \in Requests, MarkDeclined(r) PROVE StillPending'
  BY <1>10 DEF MarkDeclined, SetStatus, Finish, Goto
<1>11. ASSUME NEW r \in Requests, Fail(r) PROVE StillPending'
  BY <1>11 DEF Fail, Finish, Goto
<1>13. ASSUME NEW i \in Ids, Expire(i) PROVE StillPending'
  BY <1>13 DEF Expire
<1>14. ASSUME NEW w \in Workspaces, DeleteWorkspace(w) PROVE StillPending'
  BY <1>14 DEF DeleteWorkspace
<1>15. ASSUME NEW u \in Users, NEW w \in Workspaces, RemoveMember(u, w) PROVE StillPending'
  BY <1>15 DEF RemoveMember
<1>16. CASE UNCHANGED vars
  BY <1>16
<1> QED
  BY <1>1, <1>2, <1>3, <1>4, <1>5, <1>6, <1>7, <1>8, <1>9, <1>10, <1>11, <1>13, <1>14, <1>15, <1>16 DEF Next, Step

\* Unless it fails, a membership given is soon marked.
LEMMA AtomicStep ==
  ASSUME TypeOK, LocalsFit, StoredFit, UninterruptedAcceptIsAtomic, [Next]_vars
  PROVE  UninterruptedAcceptIsAtomic'
<1> USE Sentinel DEF TypeOK, LocalsFit, StoredFit, UninterruptedAcceptIsAtomic, AtomicFor, vars, table, history, locals
<1>1. ASSUME NEW r \in Requests, Invite(r) PROVE UninterruptedAcceptIsAtomic'
  BY <1>1 DEF Invite, Goto
<1>2. ASSUME NEW r \in Requests, ExistInvitation(r) PROVE UninterruptedAcceptIsAtomic'
  BY <1>2 DEF ExistInvitation, Finish, Goto
<1>3. ASSUME NEW r \in Requests, StoreInvitation(r) PROVE UninterruptedAcceptIsAtomic'
  <2>1. CASE Finish(r) /\ UNCHANGED <<table, queued, history>>
    BY <1>3, <2>1 DEF StoreInvitation, Finish, Goto
  <2>2. CASE ~(Finish(r) /\ UNCHANGED <<table, queued, history>>)
    <3>1. PICK i \in Ids :
            /\ status[i] = "none" /\ pc[r] = "store" /\ ws[r] \in live
            /\ rows' = rows \cup {i}
            /\ wsOf' = [wsOf EXCEPT ![i] = ws[r]]
            /\ status' = [status EXCEPT ![i] = "pending"]
            /\ inv' = [inv EXCEPT ![r] = i]
            /\ Goto(r, "context")
            /\ UNCHANGED <<live, ws, email, user, queued, history>>
      BY <1>3, <2>2 DEF StoreInvitation
    <3> QED
      BY <3>1 DEF Goto
  <2> QED
    BY <2>1, <2>2
<1>4. ASSUME NEW r \in Requests, GetInviteContext(r) PROVE UninterruptedAcceptIsAtomic'
  BY <1>4 DEF GetInviteContext, Finish, Goto
<1>5. ASSUME NEW r \in Requests, EnqueueEmail(r) PROVE UninterruptedAcceptIsAtomic'
  BY <1>5 DEF EnqueueEmail, Finish, Goto
<1>6. ASSUME NEW r \in Requests, Accept(r) PROVE UninterruptedAcceptIsAtomic'
  BY <1>6 DEF Accept, Follow, Matches, Goto
<1>7. ASSUME NEW r \in Requests, Decline(r) PROVE UninterruptedAcceptIsAtomic'
  BY <1>7 DEF Decline, Follow, Matches, Goto
<1>8. ASSUME NEW r \in Requests, AddMember(r) PROVE UninterruptedAcceptIsAtomic'
  BY <1>8 DEF AddMember, Finish, Goto
<1>9. ASSUME NEW r \in Requests, MarkAccepted(r) PROVE UninterruptedAcceptIsAtomic'
  BY <1>9 DEF MarkAccepted, SetStatus, Finish, Goto
<1>10. ASSUME NEW r \in Requests, MarkDeclined(r) PROVE UninterruptedAcceptIsAtomic'
  BY <1>10 DEF MarkDeclined, SetStatus, Finish, Goto
<1>11. ASSUME NEW r \in Requests, Fail(r) PROVE UninterruptedAcceptIsAtomic'
  BY <1>11 DEF Fail, Finish, Goto
<1>13. ASSUME NEW i \in Ids, Expire(i) PROVE UninterruptedAcceptIsAtomic'
  BY <1>13 DEF Expire
<1>14. ASSUME NEW w \in Workspaces, DeleteWorkspace(w) PROVE UninterruptedAcceptIsAtomic'
  BY <1>14 DEF DeleteWorkspace
<1>15. ASSUME NEW u \in Users, NEW w \in Workspaces, RemoveMember(u, w) PROVE UninterruptedAcceptIsAtomic'
  BY <1>15 DEF RemoveMember
<1>16. CASE UNCHANGED vars
  BY <1>16
<1> QED
  BY <1>1, <1>2, <1>3, <1>4, <1>5, <1>6, <1>7, <1>8, <1>9, <1>10, <1>11, <1>13, <1>14, <1>15, <1>16 DEF Next, Step

\* Nobody follows the link of an invitation that has made a member.
LEMMA OneMemberStep ==
  ASSUME TypeOK, LocalsFit, StoredFit, AnswersNoted, StillPending, UninterruptedAcceptIsAtomic, OneMemberPerInvitation, [Next]_vars
  PROVE  OneMemberPerInvitation'
<1> USE Sentinel DEF TypeOK, LocalsFit, StoredFit, AnswersNoted, StillPending, UninterruptedAcceptIsAtomic, AtomicFor, OneMemberPerInvitation, vars, table, history, locals
<1>1. ASSUME NEW r \in Requests, Invite(r) PROVE OneMemberPerInvitation'
  BY <1>1 DEF Invite, Goto
<1>2. ASSUME NEW r \in Requests, ExistInvitation(r) PROVE OneMemberPerInvitation'
  BY <1>2 DEF ExistInvitation, Finish, Goto
<1>3. ASSUME NEW r \in Requests, StoreInvitation(r) PROVE OneMemberPerInvitation'
  <2>1. CASE Finish(r) /\ UNCHANGED <<table, queued, history>>
    BY <1>3, <2>1 DEF StoreInvitation, Finish, Goto
  <2>2. CASE ~(Finish(r) /\ UNCHANGED <<table, queued, history>>)
    <3>1. PICK i \in Ids :
            /\ status[i] = "none" /\ pc[r] = "store" /\ ws[r] \in live
            /\ rows' = rows \cup {i}
            /\ wsOf' = [wsOf EXCEPT ![i] = ws[r]]
            /\ status' = [status EXCEPT ![i] = "pending"]
            /\ inv' = [inv EXCEPT ![r] = i]
            /\ Goto(r, "context")
            /\ UNCHANGED <<live, ws, email, user, queued, history>>
      BY <1>3, <2>2 DEF StoreInvitation
    <3> QED
      BY <3>1 DEF Goto
  <2> QED
    BY <2>1, <2>2
<1>4. ASSUME NEW r \in Requests, GetInviteContext(r) PROVE OneMemberPerInvitation'
  BY <1>4 DEF GetInviteContext, Finish, Goto
<1>5. ASSUME NEW r \in Requests, EnqueueEmail(r) PROVE OneMemberPerInvitation'
  BY <1>5 DEF EnqueueEmail, Finish, Goto
<1>6. ASSUME NEW r \in Requests, Accept(r) PROVE OneMemberPerInvitation'
  BY <1>6 DEF Accept, Follow, Matches, Goto
<1>7. ASSUME NEW r \in Requests, Decline(r) PROVE OneMemberPerInvitation'
  BY <1>7 DEF Decline, Follow, Matches, Goto
<1>8. ASSUME NEW r \in Requests, AddMember(r) PROVE OneMemberPerInvitation'
  BY <1>8 DEF AddMember, Finish, Goto
<1>9. ASSUME NEW r \in Requests, MarkAccepted(r) PROVE OneMemberPerInvitation'
  BY <1>9 DEF MarkAccepted, SetStatus, Finish, Goto
<1>10. ASSUME NEW r \in Requests, MarkDeclined(r) PROVE OneMemberPerInvitation'
  BY <1>10 DEF MarkDeclined, SetStatus, Finish, Goto
<1>11. ASSUME NEW r \in Requests, Fail(r) PROVE OneMemberPerInvitation'
  BY <1>11 DEF Fail, Finish, Goto
<1>13. ASSUME NEW i \in Ids, Expire(i) PROVE OneMemberPerInvitation'
  BY <1>13 DEF Expire
<1>14. ASSUME NEW w \in Workspaces, DeleteWorkspace(w) PROVE OneMemberPerInvitation'
  BY <1>14 DEF DeleteWorkspace
<1>15. ASSUME NEW u \in Users, NEW w \in Workspaces, RemoveMember(u, w) PROVE OneMemberPerInvitation'
  BY <1>15 DEF RemoveMember
<1>16. CASE UNCHANGED vars
  BY <1>16
<1> QED
  BY <1>1, <1>2, <1>3, <1>4, <1>5, <1>6, <1>7, <1>8, <1>9, <1>10, <1>11, <1>13, <1>14, <1>15, <1>16 DEF Next, Step

-----------------------------------------------------------------------------
\* The inductive invariant holds initially.
LEMMA InitInv == Init => IInv
BY Sentinel
   DEF Init, IInv, TypeOK, StoredFit, LocalsFit, AnswersNoted,
       StillPending, Promises, AcceptedWasJoined, UninterruptedAcceptIsAtomic,
       OneMemberPerInvitation

\* Every step preserves it.
LEMMA StepInv == IInv /\ [Next]_vars => IInv'
BY TypeStep, StoredStep, LocalsStep, JoinedStep, NotedStep, PendingStep,
   AtomicStep, OneMemberStep DEF IInv, Promises

\* The inductive invariant holds in every reachable state.
THEOREM Invariance == Spec => []IInv
BY InitInv, StepInv, PTL DEF Spec

\* TypeOK holds in every reachable state.
THEOREM TypeCorrect == Spec => []TypeOK
<1>1. IInv => TypeOK
  BY DEF IInv
<1> QED
  BY <1>1, Invariance, PTL

\* An invitation that reads accepted has made a member, failures included.
THEOREM AcceptedMadeMember == Spec => []AcceptedWasJoined
<1>1. IInv => AcceptedWasJoined
  BY DEF IInv, Promises
<1> QED
  BY <1>1, Invariance, PTL

\* A link gives membership of its own workspace only.
THEOREM JoinsMatchLinks == Spec => JoinMatchesLink
<1> DEFINE Joins(m) == \E r \in Requests :
                         pc[r] = "addMember" /\ m = <<user[r], ws[r]>>
<1>1. ASSUME IInv, Next, NEW m \in members' \ members PROVE Joins(m)
  <2>1. CASE \E r \in Requests : AddMember(r)
    <3>1. PICK r \in Requests : AddMember(r)
      BY <2>1
    <3>2. pc[r] = "addMember" /\ ws[r] = wsOf[inv[r]]
      BY <1>1, <3>1 DEF AddMember, IInv, LocalsFit
    <3>3. members' \subseteq members \cup {<<user[r], wsOf[inv[r]]>>}
      BY <3>1 DEF AddMember
    <3> QED
      BY <1>1, <3>2, <3>3
  <2>2. CASE \E w \in Workspaces : DeleteWorkspace(w) \/ \E u \in Users : RemoveMember(u, w)
    BY <1>1, <2>2 DEF DeleteWorkspace, RemoveMember
  <2>3. CASE UNCHANGED members
    BY <1>1, <2>3
  <2> QED
    BY <1>1, <2>1, <2>2, <2>3
       DEF Next, Step, table, Invite, ExistInvitation, StoreInvitation,
           GetInviteContext, EnqueueEmail, Accept, Decline, Follow,
           MarkAccepted, MarkDeclined, Fail, Expire
<1>2. IInv /\ [Next]_vars => [\A m \in members' \ members : Joins(m)]_vars
  BY <1>1
<1> QED
  BY <1>2, Invariance, PTL DEF Spec, JoinMatchesLink

\* The documented atomicity of accepting holds for every invitation no request
\* for which failed half-way, for any number of requests in flight.
THEOREM AtomicUnlessInterrupted == Spec => []UninterruptedAcceptIsAtomic
<1>1. IInv => UninterruptedAcceptIsAtomic
  BY DEF IInv, Promises
<1> QED
  BY <1>1, Invariance, PTL

\* An invitation makes one member, unless it is contested or interrupted.
THEOREM OneMember == Spec => []OneMemberPerInvitation
<1>1. IInv => OneMemberPerInvitation
  BY DEF IInv, Promises
<1> QED
  BY <1>1, Invariance, PTL

\* A decision is final, unless the invitation is contested.
THEOREM DecisionsAreFinal == Spec => DecisionIsFinal
<1> DEFINE Final(i) == status[i] \in {"accepted", "declined"} => status'[i] = status[i]
<1>1. ASSUME IInv, Next, NEW i \in Ids \ contested PROVE Final(i)
  <2> USE <1>1 DEF IInv, TypeOK, LocalsFit, StillPending
  <2>1. CASE \E r \in Requests : StoreInvitation(r)
    BY <2>1 DEF StoreInvitation, table
  <2>2. CASE \E r \in Requests : MarkAccepted(r) \/ MarkDeclined(r)
    BY <2>2 DEF MarkAccepted, MarkDeclined, SetStatus
  <2>3. CASE UNCHANGED status
    BY <2>3
  <2> QED
    BY <2>1, <2>2, <2>3
       DEF Next, Step, table, Invite, ExistInvitation, GetInviteContext,
           EnqueueEmail, Accept, Decline, Follow, AddMember, Fail,
           Expire, DeleteWorkspace, RemoveMember
<1>2. IInv /\ [Next]_vars => [\A i \in Ids \ contested : Final(i)]_vars
  BY <1>1
<1> QED
  BY <1>2, Invariance, PTL DEF Spec, DecisionIsFinal
=============================================================================
