------------------------ MODULE RefreshTokensProofs ------------------------
(* Proofs about RefreshTokens, for any sets of ids, families and requests. *)
EXTENDS RefreshTokens, TLAPS

Allocated(i) == familyOf[i] # NoFamily

\* Rows, marks and tokens exist only for ids the INSERT has handed out, and
\* no request holds one that was not.
IdsAllocated ==
  /\ \A i \in rows \cup issued \cup revoked \cup used : Allocated(i)
  /\ \A r \in Requests : \A i \in Ids : <<r, i>> \in accepted => Allocated(i)
  /\ \A f \in loggedOut : \E i \in Ids : familyOf[i] = f

\* What a request knows at each query: the family is the presented token's,
\* and the row it reserved exists (as an id) until it answers.
LocalsFit ==
  \A r \in Requests :
    /\ pc[r] = "idle" => fam[r] = NoFamily
    /\ pc[r] # "idle" => fam[r] \in Families
    /\ pc[r] \in {"getRow", "checkRevoked", "revoke", "markUsed",
                  "deleteFamily"} =>
         tok[r] \in Ids /\ familyOf[tok[r]] = fam[r]
    /\ pc[r] \in {"setHash", "respond"} =>
         newId[r] \in Ids /\ Allocated(newId[r])

\* The used column tells which of the rows still there have been accepted.
AcceptedIsMarked ==
  \A r \in Requests : \A i \in rows : <<r, i>> \in accepted => i \in used
AcceptedIds == {i \in Ids : \E s \in Requests : <<s, i>> \in accepted}
MarkedWasAccepted == used \subseteq AcceptedIds

\* What a request has read of the used column is still true of what it did
\* itself, and a mark it has seen came from an acceptance.
UnusedAsRead ==
  \A r \in Requests :
    pc[r] = "checkRevoked" /\ ~sawUsed[r] => <<r, tok[r]>> \notin accepted
UsedAsRead ==
  \A r \in Requests :
    (pc[r] = "checkRevoked" /\ sawUsed[r]) \/ pc[r] = "revoke" =>
      tok[r] \in AcceptedIds

\* A request about to answer has stored the hash, if the row is still there.
HashedBeforeAnswer ==
  \A r \in Requests : pc[r] = "respond" /\ newId[r] \in rows => newId[r] \in hashed

IInv ==
  /\ TypeOK
  /\ IdsAllocated
  /\ LocalsFit
  /\ AcceptedIsMarked
  /\ MarkedWasAccepted
  /\ UnusedAsRead
  /\ UsedAsRead
  /\ HashedBeforeAnswer
  /\ OncePerRequest
  /\ IssuedIsVerifiable

\* Two requests at work on one family have been noted.
Noted ==
  \A r, s \in Requests :
    r # s /\ pc[r] # "idle" /\ fam[r] = fam[s] => fam[r] \in contested

\* In a family that is not contested, what validateRefreshToken has read and
\* checked still holds when it acts: the token was never accepted, no row is
\* revoked, and no logout has taken place.
PastCheck == {"revoke", "markUsed", "reserve"}
ReadsHold ==
  \A r \in Requests :
    fam[r] \notin contested /\ pc[r] = "checkRevoked" /\ ~sawUsed[r] =>
      \A s \in Requests : <<s, tok[r]>> \notin accepted
ChecksHold ==
  \A r \in Requests : fam[r] \notin contested =>
    /\ pc[r] \in PastCheck => RowsOf(fam[r]) \cap revoked = {}
    /\ pc[r] \in PastCheck \cup {"checkRevoked"} => fam[r] \notin loggedOut

\* An uncontested family is a chain: one of its rows at most is unused, and none
\* is when the next one is to be made; what a request has read is still there.
ChainHolds ==
  /\ \A f \in Families \ contested : \A i, j \in RowsOf(f) \ used : i = j
  /\ \A r \in Requests : fam[r] \notin contested =>
       /\ pc[r] \in {"checkRevoked", "revoke", "markUsed"} => tok[r] \in rows
       /\ pc[r] = "reserve" =>
            /\ RowsOf(fam[r]) \subseteq used
            /\ RowsOf(fam[r]) # {} \/ Made(fam[r]) = {}

Promises == UncontestedSingleUse /\ WholeFamilyRevoked /\ LogoutEndsFamily
FamilyInv == Noted /\ ReadsHold /\ ChecksHold /\ ChainHolds /\ Promises

-----------------------------------------------------------------------------
\* Every step keeps the types.
LEMMA TypeStep ==
  ASSUME TypeOK, IdsAllocated, LocalsFit, [Next]_vars
  PROVE  TypeOK'
<1> USE Sentinels DEF TypeOK, Labels, LocalsFit, vars, table, locals, history
<1>1. ASSUME NEW r \in Requests, Login(r) PROVE TypeOK'
  BY <1>1 DEF Login, Goto
<1>2. ASSUME NEW r \in Requests, Refresh(r) PROVE TypeOK'
  BY <1>2 DEF Refresh, Present, Goto, IdsAllocated, Allocated
<1>3. ASSUME NEW r \in Requests, Logout(r) PROVE TypeOK'
  BY <1>3 DEF Logout, Present, Goto, IdsAllocated, Allocated
<1>4. ASSUME NEW r \in Requests, GetTokenRow(r) PROVE TypeOK'
  <2>1. CASE tok[r] \notin rows \cap hashed
    <3>1. Finish(r) /\ UNCHANGED <<table, expired, issued, history>>
      BY <1>4, <2>1, Zenon DEF GetTokenRow
    <3> QED
      BY <3>1 DEF Finish, Goto
  <2>2. CASE tok[r] \in rows \cap hashed
    <3>1. PICK b \in BOOLEAN : b <=> tok[r] \in used
      OBVIOUS
    <3>2. b = (tok[r] \in used)
      BY <3>1, Zenon
    <3>3. /\ sawUsed' = [sawUsed EXCEPT ![r] = b]
          /\ pc[r] = "getRow" /\ Goto(r, "checkRevoked")
          /\ UNCHANGED <<tok, fam, newId, table, expired, issued, history>>
      BY <1>4, <2>2, <3>2, Zenon DEF GetTokenRow
    <3> QED
      BY <2>2, <3>1, <3>3 DEF Goto
  <2> QED
    BY <2>1, <2>2
<1>5. ASSUME NEW r \in Requests, CheckRevoked(r) PROVE TypeOK'
  BY <1>5 DEF CheckRevoked, Finish, Goto, ReadsRevoked, ReadsNotRevoked, RowsOf
<1>6. ASSUME NEW r \in Requests, RevokeTokenFamily(r) PROVE TypeOK'
  BY <1>6 DEF RevokeTokenFamily, Finish, Goto, RowsOf
<1>7. ASSUME NEW r \in Requests, MarkRefreshTokenAsUsed(r) PROVE TypeOK'
  BY <1>7 DEF MarkRefreshTokenAsUsed, Goto
<1>8. ASSUME NEW r \in Requests, ReserveTokenRow(r) PROVE TypeOK'
  BY <1>8 DEF ReserveTokenRow, Goto
<1>9. ASSUME NEW r \in Requests, SetTokenHash(r) PROVE TypeOK'
  BY <1>9 DEF SetTokenHash, Goto
<1>10. ASSUME NEW r \in Requests, SetCookie(r) PROVE TypeOK'
  BY <1>10 DEF SetCookie, Finish, Goto
<1>11. ASSUME NEW r \in Requests, DeleteToken(r) PROVE TypeOK'
  BY <1>11 DEF DeleteToken, Finish, Goto, RowsOf
<1>12. ASSUME NEW r \in Requests, Fail(r) PROVE TypeOK'
  BY <1>12 DEF Fail, Finish, Goto
<1>13. ASSUME NEW i \in Ids, Expire(i) PROVE TypeOK'
  BY <1>13 DEF Expire
<1>14. CASE UNCHANGED vars
  BY <1>14
<1> QED
  BY <1>1, <1>2, <1>3, <1>4, <1>5, <1>6, <1>7, <1>8, <1>9, <1>10, <1>11, <1>12, <1>13, <1>14 DEF Next, Step

\* Ids stay allocated, and only allocated ids are written down.
LEMMA AllocatedStep ==
  ASSUME TypeOK, IdsAllocated, LocalsFit, [Next]_vars
  PROVE  IdsAllocated'
<1> USE Sentinels DEF TypeOK, IdsAllocated, LocalsFit, Allocated, vars, table, locals, history
<1>1. ASSUME NEW r \in Requests, Login(r) PROVE IdsAllocated'
  BY <1>1 DEF Login, Goto
<1>2. ASSUME NEW r \in Requests, Refresh(r) PROVE IdsAllocated'
  BY <1>2 DEF Refresh, Present, Goto
<1>3. ASSUME NEW r \in Requests, Logout(r) PROVE IdsAllocated'
  BY <1>3 DEF Logout, Present, Goto
<1>4. ASSUME NEW r \in Requests, GetTokenRow(r) PROVE IdsAllocated'
  BY <1>4 DEF GetTokenRow, Finish, Goto
<1>5. ASSUME NEW r \in Requests, CheckRevoked(r) PROVE IdsAllocated'
  BY <1>5 DEF CheckRevoked, Finish, Goto, ReadsRevoked, ReadsNotRevoked, RowsOf
<1>6. ASSUME NEW r \in Requests, RevokeTokenFamily(r) PROVE IdsAllocated'
  BY <1>6 DEF RevokeTokenFamily, Finish, Goto, RowsOf
<1>7. ASSUME NEW r \in Requests, MarkRefreshTokenAsUsed(r) PROVE IdsAllocated'
  BY <1>7 DEF MarkRefreshTokenAsUsed, Goto
<1>8. ASSUME NEW r \in Requests, ReserveTokenRow(r) PROVE IdsAllocated'
  BY <1>8 DEF ReserveTokenRow, Goto
<1>9. ASSUME NEW r \in Requests, SetTokenHash(r) PROVE IdsAllocated'
  BY <1>9 DEF SetTokenHash, Goto
<1>10. ASSUME NEW r \in Requests, SetCookie(r) PROVE IdsAllocated'
  BY <1>10 DEF SetCookie, Finish, Goto
<1>11. ASSUME NEW r \in Requests, DeleteToken(r) PROVE IdsAllocated'
  BY <1>11 DEF DeleteToken, Finish, Goto, RowsOf
<1>12. ASSUME NEW r \in Requests, Fail(r) PROVE IdsAllocated'
  BY <1>12 DEF Fail, Finish, Goto
<1>13. ASSUME NEW i \in Ids, Expire(i) PROVE IdsAllocated'
  BY <1>13 DEF Expire
<1>14. CASE UNCHANGED vars
  BY <1>14
<1> QED
  BY <1>1, <1>2, <1>3, <1>4, <1>5, <1>6, <1>7, <1>8, <1>9, <1>10, <1>11, <1>12, <1>13, <1>14 DEF Next, Step

\* Requests keep a consistent view of the token they carry.
LEMMA LocalsStep ==
  ASSUME TypeOK, IdsAllocated, LocalsFit, [Next]_vars
  PROVE  LocalsFit'
<1> USE Sentinels DEF TypeOK, IdsAllocated, LocalsFit, Allocated, vars, table, locals, history
<1>1. ASSUME NEW r \in Requests, Login(r) PROVE LocalsFit'
  BY <1>1 DEF Login, Goto
<1>2. ASSUME NEW r \in Requests, Refresh(r) PROVE LocalsFit'
  BY <1>2 DEF Refresh, Present, Goto
<1>3. ASSUME NEW r \in Requests, Logout(r) PROVE LocalsFit'
  BY <1>3 DEF Logout, Present, Goto
<1>4. ASSUME NEW r \in Requests, GetTokenRow(r) PROVE LocalsFit'
  BY <1>4 DEF GetTokenRow, Finish, Goto
<1>5. ASSUME NEW r \in Requests, CheckRevoked(r) PROVE LocalsFit'
  BY <1>5 DEF CheckRevoked, Finish, Goto, ReadsRevoked, ReadsNotRevoked, RowsOf
<1>6. ASSUME NEW r \in Requests, RevokeTokenFamily(r) PROVE LocalsFit'
  BY <1>6 DEF RevokeTokenFamily, Finish, Goto, RowsOf
<1>7. ASSUME NEW r \in Requests, MarkRefreshTokenAsUsed(r) PROVE LocalsFit'
  BY <1>7 DEF MarkRefreshTokenAsUsed, Goto
<1>8. ASSUME NEW r \in Requests, ReserveTokenRow(r) PROVE LocalsFit'
  BY <1>8 DEF ReserveTokenRow, Goto
<1>9. ASSUME NEW r \in Requests, SetTokenHash(r) PROVE LocalsFit'
  BY <1>9 DEF SetTokenHash, Goto
<1>10. ASSUME NEW r \in Requests, SetCookie(r) PROVE LocalsFit'
  BY <1>10 DEF SetCookie, Finish, Goto
<1>11. ASSUME NEW r \in Requests, DeleteToken(r) PROVE LocalsFit'
  BY <1>11 DEF DeleteToken, Finish, Goto, RowsOf
<1>12. ASSUME NEW r \in Requests, Fail(r) PROVE LocalsFit'
  BY <1>12 DEF Fail, Finish, Goto
<1>13. ASSUME NEW i \in Ids, Expire(i) PROVE LocalsFit'
  BY <1>13 DEF Expire
<1>14. CASE UNCHANGED vars
  BY <1>14
<1> QED
  BY <1>1, <1>2, <1>3, <1>4, <1>5, <1>6, <1>7, <1>8, <1>9, <1>10, <1>11, <1>12, <1>13, <1>14 DEF Next, Step

\* What was accepted stays recorded.
LEMMA GrowStep ==
  ASSUME TypeOK, [Next]_vars
  PROVE  AcceptedIds \subseteq AcceptedIds'
<1> USE Sentinels DEF AcceptedIds, vars, table, locals, history
<1>1. ASSUME NEW r \in Requests, Login(r) PROVE AcceptedIds \subseteq AcceptedIds'
  BY <1>1 DEF Login, Goto
<1>2. ASSUME NEW r \in Requests, Refresh(r) PROVE AcceptedIds \subseteq AcceptedIds'
  BY <1>2 DEF Refresh, Present, Goto
<1>3. ASSUME NEW r \in Requests, Logout(r) PROVE AcceptedIds \subseteq AcceptedIds'
  BY <1>3 DEF Logout, Present, Goto
<1>4. ASSUME NEW r \in Requests, GetTokenRow(r) PROVE AcceptedIds \subseteq AcceptedIds'
  BY <1>4 DEF GetTokenRow, Finish, Goto
<1>5. ASSUME NEW r \in Requests, CheckRevoked(r) PROVE AcceptedIds \subseteq AcceptedIds'
  BY <1>5 DEF CheckRevoked, Finish, Goto, ReadsRevoked, ReadsNotRevoked, RowsOf
<1>6. ASSUME NEW r \in Requests, RevokeTokenFamily(r) PROVE AcceptedIds \subseteq AcceptedIds'
  BY <1>6 DEF RevokeTokenFamily, Finish, Goto, RowsOf
<1>7. ASSUME NEW r \in Requests, MarkRefreshTokenAsUsed(r) PROVE AcceptedIds \subseteq AcceptedIds'
  BY <1>7 DEF MarkRefreshTokenAsUsed, Goto
<1>8. ASSUME NEW r \in Requests, ReserveTokenRow(r) PROVE AcceptedIds \subseteq AcceptedIds'
  BY <1>8 DEF ReserveTokenRow, Goto
<1>9. ASSUME NEW r \in Requests, SetTokenHash(r) PROVE AcceptedIds \subseteq AcceptedIds'
  BY <1>9 DEF SetTokenHash, Goto
<1>10. ASSUME NEW r \in Requests, SetCookie(r) PROVE AcceptedIds \subseteq AcceptedIds'
  BY <1>10 DEF SetCookie, Finish, Goto
<1>11. ASSUME NEW r \in Requests, DeleteToken(r) PROVE AcceptedIds \subseteq AcceptedIds'
  BY <1>11 DEF DeleteToken, Finish, Goto, RowsOf
<1>12. ASSUME NEW r \in Requests, Fail(r) PROVE AcceptedIds \subseteq AcceptedIds'
  BY <1>12 DEF Fail, Finish, Goto
<1>13. ASSUME NEW i \in Ids, Expire(i) PROVE AcceptedIds \subseteq AcceptedIds'
  BY <1>13 DEF Expire
<1>14. CASE UNCHANGED vars
  BY <1>14
<1> QED
  BY <1>1, <1>2, <1>3, <1>4, <1>5, <1>6, <1>7, <1>8, <1>9, <1>10, <1>11, <1>12, <1>13, <1>14 DEF Next, Step

\* Every acceptance is marked in the table.
LEMMA MarkStep ==
  ASSUME TypeOK, IdsAllocated, LocalsFit, AcceptedIsMarked, [Next]_vars
  PROVE  AcceptedIsMarked'
<1> USE Sentinels DEF TypeOK, IdsAllocated, LocalsFit, Allocated, AcceptedIsMarked, vars, table, locals, history
<1>1. ASSUME NEW r \in Requests, Login(r) PROVE AcceptedIsMarked'
  BY <1>1 DEF Login, Goto
<1>2. ASSUME NEW r \in Requests, Refresh(r) PROVE AcceptedIsMarked'
  BY <1>2 DEF Refresh, Present, Goto
<1>3. ASSUME NEW r \in Requests, Logout(r) PROVE AcceptedIsMarked'
  BY <1>3 DEF Logout, Present, Goto
<1>4. ASSUME NEW r \in Requests, GetTokenRow(r) PROVE AcceptedIsMarked'
  BY <1>4 DEF GetTokenRow, Finish, Goto
<1>5. ASSUME NEW r \in Requests, CheckRevoked(r) PROVE AcceptedIsMarked'
  BY <1>5 DEF CheckRevoked, Finish, Goto, ReadsRevoked, ReadsNotRevoked, RowsOf
<1>6. ASSUME NEW r \in Requests, RevokeTokenFamily(r) PROVE AcceptedIsMarked'
  BY <1>6 DEF RevokeTokenFamily, Finish, Goto, RowsOf
<1>7. ASSUME NEW r \in Requests, MarkRefreshTokenAsUsed(r) PROVE AcceptedIsMarked'
  BY <1>7 DEF MarkRefreshTokenAsUsed, Goto
<1>8. ASSUME NEW r \in Requests, ReserveTokenRow(r) PROVE AcceptedIsMarked'
  BY <1>8 DEF ReserveTokenRow, Goto
<1>9. ASSUME NEW r \in Requests, SetTokenHash(r) PROVE AcceptedIsMarked'
  BY <1>9 DEF SetTokenHash, Goto
<1>10. ASSUME NEW r \in Requests, SetCookie(r) PROVE AcceptedIsMarked'
  BY <1>10 DEF SetCookie, Finish, Goto
<1>11. ASSUME NEW r \in Requests, DeleteToken(r) PROVE AcceptedIsMarked'
  BY <1>11 DEF DeleteToken, Finish, Goto, RowsOf
<1>12. ASSUME NEW r \in Requests, Fail(r) PROVE AcceptedIsMarked'
  BY <1>12 DEF Fail, Finish, Goto
<1>13. ASSUME NEW i \in Ids, Expire(i) PROVE AcceptedIsMarked'
  BY <1>13 DEF Expire
<1>14. CASE UNCHANGED vars
  BY <1>14
<1> QED
  BY <1>1, <1>2, <1>3, <1>4, <1>5, <1>6, <1>7, <1>8, <1>9, <1>10, <1>11, <1>12, <1>13, <1>14 DEF Next, Step

\* Every mark comes from an acceptance.
LEMMA MarkedStep ==
  ASSUME TypeOK, IdsAllocated, LocalsFit, AcceptedIds \subseteq AcceptedIds', MarkedWasAccepted, [Next]_vars
  PROVE  MarkedWasAccepted'
<1> USE Sentinels DEF TypeOK, LocalsFit, MarkedWasAccepted, vars, table, locals, history
<1>1. ASSUME NEW r \in Requests, Login(r) PROVE MarkedWasAccepted'
  BY <1>1 DEF Login, Goto
<1>2. ASSUME NEW r \in Requests, Refresh(r) PROVE MarkedWasAccepted'
  BY <1>2 DEF Refresh, Present, Goto
<1>3. ASSUME NEW r \in Requests, Logout(r) PROVE MarkedWasAccepted'
  BY <1>3 DEF Logout, Present, Goto
<1>4. ASSUME NEW r \in Requests, GetTokenRow(r) PROVE MarkedWasAccepted'
  BY <1>4 DEF GetTokenRow, Finish, Goto
<1>5. ASSUME NEW r \in Requests, CheckRevoked(r) PROVE MarkedWasAccepted'
  BY <1>5 DEF CheckRevoked, Finish, Goto, ReadsRevoked, ReadsNotRevoked, RowsOf
<1>6. ASSUME NEW r \in Requests, RevokeTokenFamily(r) PROVE MarkedWasAccepted'
  BY <1>6 DEF RevokeTokenFamily, Finish, Goto, RowsOf
<1>7. ASSUME NEW r \in Requests, MarkRefreshTokenAsUsed(r) PROVE MarkedWasAccepted'
  BY <1>7 DEF MarkRefreshTokenAsUsed, Goto, AcceptedIds
<1>8. ASSUME NEW r \in Requests, ReserveTokenRow(r) PROVE MarkedWasAccepted'
  BY <1>8 DEF ReserveTokenRow, Goto
<1>9. ASSUME NEW r \in Requests, SetTokenHash(r) PROVE MarkedWasAccepted'
  BY <1>9 DEF SetTokenHash, Goto
<1>10. ASSUME NEW r \in Requests, SetCookie(r) PROVE MarkedWasAccepted'
  BY <1>10 DEF SetCookie, Finish, Goto
<1>11. ASSUME NEW r \in Requests, DeleteToken(r) PROVE MarkedWasAccepted'
  BY <1>11 DEF DeleteToken, Finish, Goto, RowsOf
<1>12. ASSUME NEW r \in Requests, Fail(r) PROVE MarkedWasAccepted'
  BY <1>12 DEF Fail, Finish, Goto
<1>13. ASSUME NEW i \in Ids, Expire(i) PROVE MarkedWasAccepted'
  BY <1>13 DEF Expire
<1>14. CASE UNCHANGED vars
  BY <1>14
<1> QED
  BY <1>1, <1>2, <1>3, <1>4, <1>5, <1>6, <1>7, <1>8, <1>9, <1>10, <1>11, <1>12, <1>13, <1>14 DEF Next, Step

\* A request that read an unused row has not had it accepted itself.
LEMMA UnusedStep ==
  ASSUME TypeOK, IdsAllocated, LocalsFit, AcceptedIsMarked, UnusedAsRead, OncePerRequest, [Next]_vars
  PROVE  UnusedAsRead' /\ OncePerRequest'
<1> USE Sentinels DEF TypeOK, IdsAllocated, LocalsFit, Allocated, AcceptedIsMarked, UnusedAsRead, OncePerRequest, vars, table, locals, history
<1>1. ASSUME NEW r \in Requests, Login(r) PROVE UnusedAsRead' /\ OncePerRequest'
  BY <1>1 DEF Login, Goto
<1>2. ASSUME NEW r \in Requests, Refresh(r) PROVE UnusedAsRead' /\ OncePerRequest'
  BY <1>2 DEF Refresh, Present, Goto
<1>3. ASSUME NEW r \in Requests, Logout(r) PROVE UnusedAsRead' /\ OncePerRequest'
  BY <1>3 DEF Logout, Present, Goto
<1>4. ASSUME NEW r \in Requests, GetTokenRow(r) PROVE UnusedAsRead' /\ OncePerRequest'
  <2>1. CASE tok[r] \notin rows \cap hashed
    BY <1>4, <2>1 DEF GetTokenRow, Finish, Goto
  <2>2. CASE tok[r] \in rows \cap hashed
    <3>1. PICK b \in BOOLEAN : b <=> tok[r] \in used
      OBVIOUS
    <3>2. b = (tok[r] \in used)
      BY <3>1, Zenon
    <3>3. /\ sawUsed' = [sawUsed EXCEPT ![r] = b]
          /\ pc[r] = "getRow" /\ Goto(r, "checkRevoked")
          /\ UNCHANGED <<tok, fam, newId, table, expired, issued, history>>
      BY <1>4, <2>2, <3>2, Zenon DEF GetTokenRow
    <3> QED
      BY <2>2, <3>1, <3>3 DEF Goto
  <2> QED
    BY <2>1, <2>2
<1>5. ASSUME NEW r \in Requests, CheckRevoked(r) PROVE UnusedAsRead' /\ OncePerRequest'
  BY <1>5 DEF CheckRevoked, Finish, Goto, ReadsRevoked, ReadsNotRevoked, RowsOf
<1>6. ASSUME NEW r \in Requests, RevokeTokenFamily(r) PROVE UnusedAsRead' /\ OncePerRequest'
  BY <1>6 DEF RevokeTokenFamily, Finish, Goto, RowsOf
<1>7. ASSUME NEW r \in Requests, MarkRefreshTokenAsUsed(r) PROVE UnusedAsRead' /\ OncePerRequest'
  BY <1>7 DEF MarkRefreshTokenAsUsed, Goto
<1>8. ASSUME NEW r \in Requests, ReserveTokenRow(r) PROVE UnusedAsRead' /\ OncePerRequest'
  BY <1>8 DEF ReserveTokenRow, Goto
<1>9. ASSUME NEW r \in Requests, SetTokenHash(r) PROVE UnusedAsRead' /\ OncePerRequest'
  BY <1>9 DEF SetTokenHash, Goto
<1>10. ASSUME NEW r \in Requests, SetCookie(r) PROVE UnusedAsRead' /\ OncePerRequest'
  BY <1>10 DEF SetCookie, Finish, Goto
<1>11. ASSUME NEW r \in Requests, DeleteToken(r) PROVE UnusedAsRead' /\ OncePerRequest'
  BY <1>11 DEF DeleteToken, Finish, Goto, RowsOf
<1>12. ASSUME NEW r \in Requests, Fail(r) PROVE UnusedAsRead' /\ OncePerRequest'
  BY <1>12 DEF Fail, Finish, Goto
<1>13. ASSUME NEW i \in Ids, Expire(i) PROVE UnusedAsRead' /\ OncePerRequest'
  BY <1>13 DEF Expire
<1>14. CASE UNCHANGED vars
  BY <1>14
<1> QED
  BY <1>1, <1>2, <1>3, <1>4, <1>5, <1>6, <1>7, <1>8, <1>9, <1>10, <1>11, <1>12, <1>13, <1>14 DEF Next, Step

\* A request that read a used row knows of an acceptance.
LEMMA UsedStep ==
  ASSUME TypeOK, IdsAllocated, LocalsFit, AcceptedIds \subseteq AcceptedIds', MarkedWasAccepted, UsedAsRead, [Next]_vars
  PROVE  UsedAsRead'
<1> USE Sentinels DEF TypeOK, MarkedWasAccepted, UsedAsRead, vars, table, locals, history
<1>1. ASSUME NEW r \in Requests, Login(r) PROVE UsedAsRead'
  BY <1>1 DEF Login, Goto
<1>2. ASSUME NEW r \in Requests, Refresh(r) PROVE UsedAsRead'
  BY <1>2 DEF Refresh, Present, Goto
<1>3. ASSUME NEW r \in Requests, Logout(r) PROVE UsedAsRead'
  BY <1>3 DEF Logout, Present, Goto
<1>4. ASSUME NEW r \in Requests, GetTokenRow(r) PROVE UsedAsRead'
  <2>1. CASE tok[r] \notin rows \cap hashed
    BY <1>4, <2>1 DEF GetTokenRow, Finish, Goto
  <2>2. CASE tok[r] \in rows \cap hashed
    <3>1. PICK b \in BOOLEAN : b <=> tok[r] \in used
      OBVIOUS
    <3>2. b = (tok[r] \in used)
      BY <3>1, Zenon
    <3>3. /\ sawUsed' = [sawUsed EXCEPT ![r] = b]
          /\ pc[r] = "getRow" /\ Goto(r, "checkRevoked")
          /\ UNCHANGED <<tok, fam, newId, table, expired, issued, history>>
      BY <1>4, <2>2, <3>2, Zenon DEF GetTokenRow
    <3> QED
      BY <2>2, <3>1, <3>3 DEF Goto
  <2> QED
    BY <2>1, <2>2
<1>5. ASSUME NEW r \in Requests, CheckRevoked(r) PROVE UsedAsRead'
  BY <1>5 DEF CheckRevoked, Finish, Goto, ReadsRevoked, ReadsNotRevoked, RowsOf
<1>6. ASSUME NEW r \in Requests, RevokeTokenFamily(r) PROVE UsedAsRead'
  BY <1>6 DEF RevokeTokenFamily, Finish, Goto, RowsOf
<1>7. ASSUME NEW r \in Requests, MarkRefreshTokenAsUsed(r) PROVE UsedAsRead'
  BY <1>7 DEF MarkRefreshTokenAsUsed, Goto
<1>8. ASSUME NEW r \in Requests, ReserveTokenRow(r) PROVE UsedAsRead'
  BY <1>8 DEF ReserveTokenRow, Goto
<1>9. ASSUME NEW r \in Requests, SetTokenHash(r) PROVE UsedAsRead'
  BY <1>9 DEF SetTokenHash, Goto
<1>10. ASSUME NEW r \in Requests, SetCookie(r) PROVE UsedAsRead'
  BY <1>10 DEF SetCookie, Finish, Goto
<1>11. ASSUME NEW r \in Requests, DeleteToken(r) PROVE UsedAsRead'
  BY <1>11 DEF DeleteToken, Finish, Goto, RowsOf
<1>12. ASSUME NEW r \in Requests, Fail(r) PROVE UsedAsRead'
  BY <1>12 DEF Fail, Finish, Goto
<1>13. ASSUME NEW i \in Ids, Expire(i) PROVE UsedAsRead'
  BY <1>13 DEF Expire
<1>14. CASE UNCHANGED vars
  BY <1>14
<1> QED
  BY <1>1, <1>2, <1>3, <1>4, <1>5, <1>6, <1>7, <1>8, <1>9, <1>10, <1>11, <1>12, <1>13, <1>14 DEF Next, Step

\* Families are revoked for reuse only: nothing but RevokeTokenFamily writes
\* revoked_at, and it is reached with the used column read as true.
ReuseOnly ==
  \A i \in revoked' \ revoked : \E r, s \in Requests :
    /\ pc[r] \in {"getRow", "checkRevoked", "revoke"} /\ pc'[r] # pc[r]
    /\ <<s, tok[r]>> \in accepted
    /\ familyOf[tok[r]] = familyOf[i]

LEMMA RevokedStep ==
  ASSUME TypeOK, LocalsFit, UsedAsRead, [Next]_vars
  PROVE  ReuseOnly
<1>1. ASSUME NEW r \in Requests, RevokeTokenFamily(r) PROVE ReuseOnly
  <2>1. pc[r] = "revoke" /\ pc'[r] = "idle"
    BY <1>1 DEF RevokeTokenFamily, Finish, Goto, TypeOK
  <2>2. familyOf[tok[r]] = fam[r]
    BY <2>1 DEF LocalsFit
  <2>3. PICK s \in Requests : <<s, tok[r]>> \in accepted
    BY <2>1 DEF UsedAsRead, AcceptedIds
  <2>4. \A i \in revoked' \ revoked : familyOf[i] = fam[r]
    BY <1>1 DEF RevokeTokenFamily, RowsOf
  <2>. QED  BY <2>1, <2>2, <2>3, <2>4 DEF ReuseOnly
<1>2. CASE revoked' = revoked
  BY <1>2 DEF ReuseOnly
<1>. QED
  BY <1>1, <1>2, Zenon
  DEF Next, Step, Login, Refresh, Logout, Present, GetTokenRow, CheckRevoked,
      MarkRefreshTokenAsUsed, ReserveTokenRow, SetTokenHash, SetCookie,
      DeleteToken, Fail, Expire, vars, table

\* Hashes are stored before answers are sent.
LEMMA HashedStep ==
  ASSUME TypeOK, IdsAllocated, LocalsFit, HashedBeforeAnswer, IssuedIsVerifiable, [Next]_vars
  PROVE  HashedBeforeAnswer' /\ IssuedIsVerifiable'
<1> USE Sentinels DEF TypeOK, IdsAllocated, LocalsFit, Allocated, HashedBeforeAnswer, IssuedIsVerifiable, vars, table, locals, history
<1>1. ASSUME NEW r \in Requests, Login(r) PROVE HashedBeforeAnswer' /\ IssuedIsVerifiable'
  BY <1>1 DEF Login, Goto
<1>2. ASSUME NEW r \in Requests, Refresh(r) PROVE HashedBeforeAnswer' /\ IssuedIsVerifiable'
  BY <1>2 DEF Refresh, Present, Goto
<1>3. ASSUME NEW r \in Requests, Logout(r) PROVE HashedBeforeAnswer' /\ IssuedIsVerifiable'
  BY <1>3 DEF Logout, Present, Goto
<1>4. ASSUME NEW r \in Requests, GetTokenRow(r) PROVE HashedBeforeAnswer' /\ IssuedIsVerifiable'
  BY <1>4 DEF GetTokenRow, Finish, Goto
<1>5. ASSUME NEW r \in Requests, CheckRevoked(r) PROVE HashedBeforeAnswer' /\ IssuedIsVerifiable'
  BY <1>5 DEF CheckRevoked, Finish, Goto, ReadsRevoked, ReadsNotRevoked, RowsOf
<1>6. ASSUME NEW r \in Requests, RevokeTokenFamily(r) PROVE HashedBeforeAnswer' /\ IssuedIsVerifiable'
  BY <1>6 DEF RevokeTokenFamily, Finish, Goto, RowsOf
<1>7. ASSUME NEW r \in Requests, MarkRefreshTokenAsUsed(r) PROVE HashedBeforeAnswer' /\ IssuedIsVerifiable'
  BY <1>7 DEF MarkRefreshTokenAsUsed, Goto
<1>8. ASSUME NEW r \in Requests, ReserveTokenRow(r) PROVE HashedBeforeAnswer' /\ IssuedIsVerifiable'
  BY <1>8 DEF ReserveTokenRow, Goto
<1>9. ASSUME NEW r \in Requests, SetTokenHash(r) PROVE HashedBeforeAnswer' /\ IssuedIsVerifiable'
  BY <1>9 DEF SetTokenHash, Goto
<1>10. ASSUME NEW r \in Requests, SetCookie(r) PROVE HashedBeforeAnswer' /\ IssuedIsVerifiable'
  BY <1>10 DEF SetCookie, Finish, Goto
<1>11. ASSUME NEW r \in Requests, DeleteToken(r) PROVE HashedBeforeAnswer' /\ IssuedIsVerifiable'
  BY <1>11 DEF DeleteToken, Finish, Goto, RowsOf
<1>12. ASSUME NEW r \in Requests, Fail(r) PROVE HashedBeforeAnswer' /\ IssuedIsVerifiable'
  BY <1>12 DEF Fail, Finish, Goto
<1>13. ASSUME NEW i \in Ids, Expire(i) PROVE HashedBeforeAnswer' /\ IssuedIsVerifiable'
  BY <1>13 DEF Expire
<1>14. CASE UNCHANGED vars
  BY <1>14
<1> QED
  BY <1>1, <1>2, <1>3, <1>4, <1>5, <1>6, <1>7, <1>8, <1>9, <1>10, <1>11, <1>12, <1>13, <1>14 DEF Next, Step

\* A family that is closed stays closed.
LEMMA ClosedStep ==
  ASSUME TypeOK, IdsAllocated, LocalsFit, NEW f \in Families, Closed(f), [Next]_vars
  PROVE  Closed(f)'
<1> USE Sentinels DEF TypeOK, IdsAllocated, LocalsFit, Allocated, Closed, RowsOf, vars, table, locals, history
<1>1. ASSUME NEW r \in Requests, Login(r) PROVE Closed(f)'
  BY <1>1 DEF Login, Goto
<1>2. ASSUME NEW r \in Requests, Refresh(r) PROVE Closed(f)'
  BY <1>2 DEF Refresh, Present, Goto
<1>3. ASSUME NEW r \in Requests, Logout(r) PROVE Closed(f)'
  BY <1>3 DEF Logout, Present, Goto
<1>4. ASSUME NEW r \in Requests, GetTokenRow(r) PROVE Closed(f)'
  BY <1>4 DEF GetTokenRow, Finish, Goto
<1>5. ASSUME NEW r \in Requests, CheckRevoked(r) PROVE Closed(f)'
  BY <1>5 DEF CheckRevoked, Finish, Goto, ReadsRevoked, ReadsNotRevoked, RowsOf
<1>6. ASSUME NEW r \in Requests, RevokeTokenFamily(r) PROVE Closed(f)'
  BY <1>6 DEF RevokeTokenFamily, Finish, Goto, RowsOf
<1>7. ASSUME NEW r \in Requests, MarkRefreshTokenAsUsed(r) PROVE Closed(f)'
  BY <1>7 DEF MarkRefreshTokenAsUsed, Goto
<1>8. ASSUME NEW r \in Requests, ReserveTokenRow(r) PROVE Closed(f)'
  BY <1>8 DEF ReserveTokenRow, Goto
<1>9. ASSUME NEW r \in Requests, SetTokenHash(r) PROVE Closed(f)'
  BY <1>9 DEF SetTokenHash, Goto
<1>10. ASSUME NEW r \in Requests, SetCookie(r) PROVE Closed(f)'
  BY <1>10 DEF SetCookie, Finish, Goto
<1>11. ASSUME NEW r \in Requests, DeleteToken(r) PROVE Closed(f)'
  BY <1>11 DEF DeleteToken, Finish, Goto, RowsOf
<1>12. ASSUME NEW r \in Requests, Fail(r) PROVE Closed(f)'
  BY <1>12 DEF Fail, Finish, Goto
<1>13. ASSUME NEW i \in Ids, Expire(i) PROVE Closed(f)'
  BY <1>13 DEF Expire
<1>14. CASE UNCHANGED vars
  BY <1>14
<1> QED
  BY <1>1, <1>2, <1>3, <1>4, <1>5, <1>6, <1>7, <1>8, <1>9, <1>10, <1>11, <1>12, <1>13, <1>14 DEF Next, Step

\* A family that is sealed stays sealed until it is deleted.
LEMMA SealedStep ==
  ASSUME TypeOK, IdsAllocated, LocalsFit, NEW f \in Families, Sealed(f), [Next]_vars
  PROVE  Sealed(f)' \/ RowsOf(f)' = {}
<1> USE Sentinels DEF TypeOK, IdsAllocated, LocalsFit, Allocated, Sealed, RowsOf, vars, table, locals, history
<1>1. ASSUME NEW r \in Requests, Login(r) PROVE Sealed(f)' \/ RowsOf(f)' = {}
  BY <1>1 DEF Login, Goto
<1>2. ASSUME NEW r \in Requests, Refresh(r) PROVE Sealed(f)' \/ RowsOf(f)' = {}
  BY <1>2 DEF Refresh, Present, Goto
<1>3. ASSUME NEW r \in Requests, Logout(r) PROVE Sealed(f)' \/ RowsOf(f)' = {}
  BY <1>3 DEF Logout, Present, Goto
<1>4. ASSUME NEW r \in Requests, GetTokenRow(r) PROVE Sealed(f)' \/ RowsOf(f)' = {}
  BY <1>4 DEF GetTokenRow, Finish, Goto
<1>5. ASSUME NEW r \in Requests, CheckRevoked(r) PROVE Sealed(f)' \/ RowsOf(f)' = {}
  BY <1>5 DEF CheckRevoked, Finish, Goto, ReadsRevoked, ReadsNotRevoked, RowsOf
<1>6. ASSUME NEW r \in Requests, RevokeTokenFamily(r) PROVE Sealed(f)' \/ RowsOf(f)' = {}
  BY <1>6 DEF RevokeTokenFamily, Finish, Goto, RowsOf
<1>7. ASSUME NEW r \in Requests, MarkRefreshTokenAsUsed(r) PROVE Sealed(f)' \/ RowsOf(f)' = {}
  BY <1>7 DEF MarkRefreshTokenAsUsed, Goto
<1>8. ASSUME NEW r \in Requests, ReserveTokenRow(r) PROVE Sealed(f)' \/ RowsOf(f)' = {}
  BY <1>8 DEF ReserveTokenRow, Goto
<1>9. ASSUME NEW r \in Requests, SetTokenHash(r) PROVE Sealed(f)' \/ RowsOf(f)' = {}
  BY <1>9 DEF SetTokenHash, Goto
<1>10. ASSUME NEW r \in Requests, SetCookie(r) PROVE Sealed(f)' \/ RowsOf(f)' = {}
  BY <1>10 DEF SetCookie, Finish, Goto
<1>11. ASSUME NEW r \in Requests, DeleteToken(r) PROVE Sealed(f)' \/ RowsOf(f)' = {}
  BY <1>11 DEF DeleteToken, Finish, Goto, RowsOf
<1>12. ASSUME NEW r \in Requests, Fail(r) PROVE Sealed(f)' \/ RowsOf(f)' = {}
  BY <1>12 DEF Fail, Finish, Goto
<1>13. ASSUME NEW i \in Ids, Expire(i) PROVE Sealed(f)' \/ RowsOf(f)' = {}
  BY <1>13 DEF Expire
<1>14. CASE UNCHANGED vars
  BY <1>14
<1> QED
  BY <1>1, <1>2, <1>3, <1>4, <1>5, <1>6, <1>7, <1>8, <1>9, <1>10, <1>11, <1>12, <1>13, <1>14 DEF Next, Step

\* Who joins a request at work on a family is noted.
LEMMA NotedStep ==
  ASSUME TypeOK, IdsAllocated, LocalsFit, Noted, [Next]_vars
  PROVE  Noted'
<1> USE Sentinels DEF TypeOK, IdsAllocated, LocalsFit, Allocated, Noted, RowsOf,
               vars, table, locals, history
<1>1. ASSUME NEW r \in Requests, Login(r) PROVE Noted'
  BY <1>1 DEF Login, Goto
<1>2. ASSUME NEW r \in Requests, Refresh(r) PROVE Noted'
  BY <1>2 DEF Refresh, Present, Goto
<1>3. ASSUME NEW r \in Requests, Logout(r) PROVE Noted'
  BY <1>3 DEF Logout, Present, Goto
<1>4. ASSUME NEW r \in Requests, GetTokenRow(r) PROVE Noted'
  BY <1>4 DEF GetTokenRow, Finish, Goto
<1>5. ASSUME NEW r \in Requests, CheckRevoked(r) PROVE Noted'
  BY <1>5 DEF CheckRevoked, Finish, Goto, ReadsRevoked, ReadsNotRevoked, RowsOf
<1>6. ASSUME NEW r \in Requests, RevokeTokenFamily(r) PROVE Noted'
  BY <1>6 DEF RevokeTokenFamily, Finish, Goto, RowsOf
<1>7. ASSUME NEW r \in Requests, MarkRefreshTokenAsUsed(r) PROVE Noted'
  BY <1>7 DEF MarkRefreshTokenAsUsed, Goto
<1>8. ASSUME NEW r \in Requests, ReserveTokenRow(r) PROVE Noted'
  BY <1>8 DEF ReserveTokenRow, Goto
<1>9. ASSUME NEW r \in Requests, SetTokenHash(r) PROVE Noted'
  BY <1>9 DEF SetTokenHash, Goto
<1>10. ASSUME NEW r \in Requests, SetCookie(r) PROVE Noted'
  BY <1>10 DEF SetCookie, Finish, Goto
<1>11. ASSUME NEW r \in Requests, DeleteToken(r) PROVE Noted'
  BY <1>11 DEF DeleteToken, Finish, Goto, RowsOf
<1>12. ASSUME NEW r \in Requests, Fail(r) PROVE Noted'
  BY <1>12 DEF Fail, Finish, Goto
<1>13. ASSUME NEW i \in Ids, Expire(i) PROVE Noted'
  BY <1>13 DEF Expire
<1>14. CASE UNCHANGED vars
  BY <1>14
<1> QED
  BY <1>1, <1>2, <1>3, <1>4, <1>5, <1>6, <1>7, <1>8, <1>9, <1>10, <1>11, <1>12, <1>13, <1>14 DEF Next, Step

\* In an uncontested family a token is accepted once, by whatever request.
LEMMA ReadsStep ==
  ASSUME TypeOK, IdsAllocated, LocalsFit, Noted, AcceptedIsMarked, ReadsHold,
         UncontestedSingleUse, [Next]_vars
  PROVE  ReadsHold' /\ UncontestedSingleUse'
<1> USE Sentinels DEF TypeOK, LocalsFit, Noted, AcceptedIsMarked, ReadsHold,
               UncontestedSingleUse, vars, table, locals, history
<1>1. ASSUME NEW r \in Requests, Login(r) PROVE ReadsHold' /\ UncontestedSingleUse'
  BY <1>1 DEF Login, Goto
<1>2. ASSUME NEW r \in Requests, Refresh(r) PROVE ReadsHold' /\ UncontestedSingleUse'
  BY <1>2 DEF Refresh, Present, Goto
<1>3. ASSUME NEW r \in Requests, Logout(r) PROVE ReadsHold' /\ UncontestedSingleUse'
  BY <1>3 DEF Logout, Present, Goto
<1>4. ASSUME NEW r \in Requests, GetTokenRow(r) PROVE ReadsHold' /\ UncontestedSingleUse'
  <2>1. CASE tok[r] \notin rows \cap hashed
    BY <1>4, <2>1 DEF GetTokenRow, Finish, Goto
  <2>2. CASE tok[r] \in rows \cap hashed
    <3>1. PICK b \in BOOLEAN : b <=> tok[r] \in used
      OBVIOUS
    <3>2. b = (tok[r] \in used)
      BY <3>1, Zenon
    <3>3. /\ sawUsed' = [sawUsed EXCEPT ![r] = b]
          /\ pc[r] = "getRow" /\ Goto(r, "checkRevoked")
          /\ UNCHANGED <<tok, fam, newId, table, expired, issued, history>>
      BY <1>4, <2>2, <3>2, Zenon DEF GetTokenRow
    <3> QED
      BY <2>2, <3>1, <3>3 DEF Goto
  <2> QED
    BY <2>1, <2>2
<1>5. ASSUME NEW r \in Requests, CheckRevoked(r) PROVE ReadsHold' /\ UncontestedSingleUse'
  BY <1>5 DEF CheckRevoked, Finish, Goto, ReadsRevoked, ReadsNotRevoked, RowsOf
<1>6. ASSUME NEW r \in Requests, RevokeTokenFamily(r) PROVE ReadsHold' /\ UncontestedSingleUse'
  BY <1>6 DEF RevokeTokenFamily, Finish, Goto, RowsOf
<1>7. ASSUME NEW r \in Requests, MarkRefreshTokenAsUsed(r) PROVE ReadsHold' /\ UncontestedSingleUse'
  BY <1>7 DEF MarkRefreshTokenAsUsed, Goto
<1>8. ASSUME NEW r \in Requests, ReserveTokenRow(r) PROVE ReadsHold' /\ UncontestedSingleUse'
  BY <1>8 DEF ReserveTokenRow, Goto
<1>9. ASSUME NEW r \in Requests, SetTokenHash(r) PROVE ReadsHold' /\ UncontestedSingleUse'
  BY <1>9 DEF SetTokenHash, Goto
<1>10. ASSUME NEW r \in Requests, SetCookie(r) PROVE ReadsHold' /\ UncontestedSingleUse'
  BY <1>10 DEF SetCookie, Finish, Goto
<1>11. ASSUME NEW r \in Requests, DeleteToken(r) PROVE ReadsHold' /\ UncontestedSingleUse'
  BY <1>11 DEF DeleteToken, Finish, Goto, RowsOf
<1>12. ASSUME NEW r \in Requests, Fail(r) PROVE ReadsHold' /\ UncontestedSingleUse'
  BY <1>12 DEF Fail, Finish, Goto
<1>13. ASSUME NEW i \in Ids, Expire(i) PROVE ReadsHold' /\ UncontestedSingleUse'
  BY <1>13 DEF Expire
<1>14. CASE UNCHANGED vars
  BY <1>14
<1> QED
  BY <1>1, <1>2, <1>3, <1>4, <1>5, <1>6, <1>7, <1>8, <1>9, <1>10, <1>11, <1>12, <1>13, <1>14 DEF Next, Step

\* An uncontested family is revoked as a whole.
LEMMA WholeStep ==
  ASSUME TypeOK, IdsAllocated, LocalsFit, Noted, WholeFamilyRevoked, ChecksHold,
         [Next]_vars
  PROVE  WholeFamilyRevoked'
<1> USE Sentinels DEF TypeOK, IdsAllocated, LocalsFit, Allocated, Noted, RowsOf,
               vars, table, locals, history,
               WholeFamilyRevoked, ChecksHold, PastCheck
<1>1. ASSUME NEW r \in Requests, Login(r) PROVE WholeFamilyRevoked'
  BY <1>1 DEF Login, Goto
<1>2. ASSUME NEW r \in Requests, Refresh(r) PROVE WholeFamilyRevoked'
  BY <1>2 DEF Refresh, Present, Goto
<1>3. ASSUME NEW r \in Requests, Logout(r) PROVE WholeFamilyRevoked'
  BY <1>3 DEF Logout, Present, Goto
<1>4. ASSUME NEW r \in Requests, GetTokenRow(r) PROVE WholeFamilyRevoked'
  BY <1>4 DEF GetTokenRow, Finish, Goto
<1>5. ASSUME NEW r \in Requests, CheckRevoked(r) PROVE WholeFamilyRevoked'
  BY <1>5 DEF CheckRevoked, Finish, Goto, ReadsRevoked, ReadsNotRevoked, RowsOf
<1>6. ASSUME NEW r \in Requests, RevokeTokenFamily(r) PROVE WholeFamilyRevoked'
  BY <1>6 DEF RevokeTokenFamily, Finish, Goto, RowsOf
<1>7. ASSUME NEW r \in Requests, MarkRefreshTokenAsUsed(r) PROVE WholeFamilyRevoked'
  BY <1>7 DEF MarkRefreshTokenAsUsed, Goto
<1>8. ASSUME NEW r \in Requests, ReserveTokenRow(r) PROVE WholeFamilyRevoked'
  BY <1>8 DEF ReserveTokenRow, Goto
<1>9. ASSUME NEW r \in Requests, SetTokenHash(r) PROVE WholeFamilyRevoked'
  BY <1>9 DEF SetTokenHash, Goto
<1>10. ASSUME NEW r \in Requests, SetCookie(r) PROVE WholeFamilyRevoked'
  BY <1>10 DEF SetCookie, Finish, Goto
<1>11. ASSUME NEW r \in Requests, DeleteToken(r) PROVE WholeFamilyRevoked'
  BY <1>11 DEF DeleteToken, Finish, Goto, RowsOf
<1>12. ASSUME NEW r \in Requests, Fail(r) PROVE WholeFamilyRevoked'
  BY <1>12 DEF Fail, Finish, Goto
<1>13. ASSUME NEW i \in Ids, Expire(i) PROVE WholeFamilyRevoked'
  BY <1>13 DEF Expire
<1>14. CASE UNCHANGED vars
  BY <1>14
<1> QED
  BY <1>1, <1>2, <1>3, <1>4, <1>5, <1>6, <1>7, <1>8, <1>9, <1>10, <1>11, <1>12, <1>13, <1>14 DEF Next, Step

\* An uncontested family that was logged out stays empty.
LEMMA LogoutStep ==
  ASSUME TypeOK, IdsAllocated, LocalsFit, Noted, LogoutEndsFamily, ChecksHold,
         [Next]_vars
  PROVE  LogoutEndsFamily'
<1> USE Sentinels DEF TypeOK, IdsAllocated, LocalsFit, Allocated, Noted, RowsOf,
               vars, table, locals, history,
               LogoutEndsFamily, ChecksHold, PastCheck
<1>1. ASSUME NEW r \in Requests, Login(r) PROVE LogoutEndsFamily'
  BY <1>1 DEF Login, Goto
<1>2. ASSUME NEW r \in Requests, Refresh(r) PROVE LogoutEndsFamily'
  BY <1>2 DEF Refresh, Present, Goto
<1>3. ASSUME NEW r \in Requests, Logout(r) PROVE LogoutEndsFamily'
  BY <1>3 DEF Logout, Present, Goto
<1>4. ASSUME NEW r \in Requests, GetTokenRow(r) PROVE LogoutEndsFamily'
  BY <1>4 DEF GetTokenRow, Finish, Goto
<1>5. ASSUME NEW r \in Requests, CheckRevoked(r) PROVE LogoutEndsFamily'
  BY <1>5 DEF CheckRevoked, Finish, Goto, ReadsRevoked, ReadsNotRevoked, RowsOf
<1>6. ASSUME NEW r \in Requests, RevokeTokenFamily(r) PROVE LogoutEndsFamily'
  BY <1>6 DEF RevokeTokenFamily, Finish, Goto, RowsOf
<1>7. ASSUME NEW r \in Requests, MarkRefreshTokenAsUsed(r) PROVE LogoutEndsFamily'
  BY <1>7 DEF MarkRefreshTokenAsUsed, Goto
<1>8. ASSUME NEW r \in Requests, ReserveTokenRow(r) PROVE LogoutEndsFamily'
  BY <1>8 DEF ReserveTokenRow, Goto
<1>9. ASSUME NEW r \in Requests, SetTokenHash(r) PROVE LogoutEndsFamily'
  BY <1>9 DEF SetTokenHash, Goto
<1>10. ASSUME NEW r \in Requests, SetCookie(r) PROVE LogoutEndsFamily'
  BY <1>10 DEF SetCookie, Finish, Goto
<1>11. ASSUME NEW r \in Requests, DeleteToken(r) PROVE LogoutEndsFamily'
  BY <1>11 DEF DeleteToken, Finish, Goto, RowsOf
<1>12. ASSUME NEW r \in Requests, Fail(r) PROVE LogoutEndsFamily'
  BY <1>12 DEF Fail, Finish, Goto
<1>13. ASSUME NEW i \in Ids, Expire(i) PROVE LogoutEndsFamily'
  BY <1>13 DEF Expire
<1>14. CASE UNCHANGED vars
  BY <1>14
<1> QED
  BY <1>1, <1>2, <1>3, <1>4, <1>5, <1>6, <1>7, <1>8, <1>9, <1>10, <1>11, <1>12, <1>13, <1>14 DEF Next, Step

\* In an uncontested family, what was checked still holds at the next step.
LEMMA ChecksStep ==
  ASSUME TypeOK, IdsAllocated, LocalsFit, Noted, ChecksHold, WholeFamilyRevoked,
         LogoutEndsFamily, [Next]_vars
  PROVE  ChecksHold'
<1> USE Sentinels DEF TypeOK, IdsAllocated, LocalsFit, Allocated, Noted, RowsOf,
               vars, table, locals, history,
               WholeFamilyRevoked, LogoutEndsFamily, ChecksHold, PastCheck
<1>1. ASSUME NEW r \in Requests, Login(r) PROVE ChecksHold'
  BY <1>1 DEF Login, Goto
<1>2. ASSUME NEW r \in Requests, Refresh(r) PROVE ChecksHold'
  BY <1>2 DEF Refresh, Present, Goto
<1>3. ASSUME NEW r \in Requests, Logout(r) PROVE ChecksHold'
  BY <1>3 DEF Logout, Present, Goto
<1>4. ASSUME NEW r \in Requests, GetTokenRow(r) PROVE ChecksHold'
  BY <1>4 DEF GetTokenRow, Finish, Goto
<1>5. ASSUME NEW r \in Requests, CheckRevoked(r) PROVE ChecksHold'
  BY <1>5 DEF CheckRevoked, Finish, Goto, ReadsRevoked, ReadsNotRevoked, RowsOf
<1>6. ASSUME NEW r \in Requests, RevokeTokenFamily(r) PROVE ChecksHold'
  BY <1>6 DEF RevokeTokenFamily, Finish, Goto, RowsOf
<1>7. ASSUME NEW r \in Requests, MarkRefreshTokenAsUsed(r) PROVE ChecksHold'
  BY <1>7 DEF MarkRefreshTokenAsUsed, Goto
<1>8. ASSUME NEW r \in Requests, ReserveTokenRow(r) PROVE ChecksHold'
  BY <1>8 DEF ReserveTokenRow, Goto
<1>9. ASSUME NEW r \in Requests, SetTokenHash(r) PROVE ChecksHold'
  BY <1>9 DEF SetTokenHash, Goto
<1>10. ASSUME NEW r \in Requests, SetCookie(r) PROVE ChecksHold'
  BY <1>10 DEF SetCookie, Finish, Goto
<1>11. ASSUME NEW r \in Requests, DeleteToken(r) PROVE ChecksHold'
  BY <1>11 DEF DeleteToken, Finish, Goto, RowsOf
<1>12. ASSUME NEW r \in Requests, Fail(r) PROVE ChecksHold'
  BY <1>12 DEF Fail, Finish, Goto
<1>13. ASSUME NEW i \in Ids, Expire(i) PROVE ChecksHold'
  BY <1>13 DEF Expire
<1>14. CASE UNCHANGED vars
  BY <1>14
<1> QED
  BY <1>1, <1>2, <1>3, <1>4, <1>5, <1>6, <1>7, <1>8, <1>9, <1>10, <1>11, <1>12, <1>13, <1>14 DEF Next, Step

\* An uncontested family stays a chain.
LEMMA ChainStep ==
  ASSUME TypeOK, IdsAllocated, LocalsFit, Noted, MarkedWasAccepted,
         UncontestedSingleUse, ChainHolds, [Next]_vars
  PROVE  ChainHolds'
<1> USE Sentinels DEF TypeOK, IdsAllocated, LocalsFit, Allocated, Noted, RowsOf,
               vars, table, locals, history, ChainHolds, Made
<1>1. ASSUME NEW r \in Requests, Login(r) PROVE ChainHolds'
  BY <1>1 DEF Login, Goto
<1>2. ASSUME NEW r \in Requests, Refresh(r) PROVE ChainHolds'
  BY <1>2 DEF Refresh, Present, Goto
<1>3. ASSUME NEW r \in Requests, Logout(r) PROVE ChainHolds'
  BY <1>3 DEF Logout, Present, Goto
<1>4. ASSUME NEW r \in Requests, GetTokenRow(r) PROVE ChainHolds'
  BY <1>4 DEF GetTokenRow, Finish, Goto
<1>5. ASSUME NEW r \in Requests, CheckRevoked(r) PROVE ChainHolds'
  BY <1>5 DEF CheckRevoked, Finish, Goto
<1>6. ASSUME NEW r \in Requests, RevokeTokenFamily(r) PROVE ChainHolds'
  BY <1>6 DEF RevokeTokenFamily, Finish, Goto
<1>7. ASSUME NEW r \in Requests, MarkRefreshTokenAsUsed(r) PROVE ChainHolds'
  <2>1. /\ pc[r] = "markUsed" /\ UNCHANGED <<rows, familyOf, contested, tok, fam>>
        /\ used' = used \cup ({tok[r]} \cap rows)
        /\ pc' = [pc EXCEPT ![r] = "reserve"]
    BY <1>7 DEF MarkRefreshTokenAsUsed, Goto
  <2>2. fam[r] \notin contested => tok[r] \in RowsOf(fam[r]) \ used
    BY <2>1 DEF MarkedWasAccepted, AcceptedIds, UncontestedSingleUse
  <2>3. \A f \in Families \ contested : \A i, j \in RowsOf(f) \ used' : i = j
    BY <2>1
  <2>4. fam[r] \in Families
    BY <2>1
  <2>5. fam[r] \notin contested => RowsOf(fam[r]) \subseteq used' /\ RowsOf(fam[r]) # {}
    BY <2>1, <2>2, <2>4
  <2>6. ASSUME NEW s \in Requests, s # r, fam[s] \notin contested
        PROVE  /\ pc[s] \in {"checkRevoked", "revoke", "markUsed"} => tok[s] \in rows
               /\ pc[s] = "reserve" =>
                    /\ RowsOf(fam[s]) \subseteq used'
                    /\ RowsOf(fam[s]) # {} \/ Made(fam[s]) = {}
    BY <2>1, <2>6
  <2>7. \A f : RowsOf(f)' = RowsOf(f) /\ Made(f)' = Made(f)
    BY <2>1
  <2> QED
    BY <2>1, <2>3, <2>5, <2>6, <2>7
<1>8. ASSUME NEW r \in Requests, ReserveTokenRow(r) PROVE ChainHolds'
  BY <1>8 DEF ReserveTokenRow, Goto
<1>9. ASSUME NEW r \in Requests, SetTokenHash(r) PROVE ChainHolds'
  BY <1>9 DEF SetTokenHash, Goto
<1>10. ASSUME NEW r \in Requests, SetCookie(r) PROVE ChainHolds'
  BY <1>10 DEF SetCookie, Finish, Goto
<1>11. ASSUME NEW r \in Requests, DeleteToken(r) PROVE ChainHolds'
  BY <1>11 DEF DeleteToken, Finish, Goto
<1>12. ASSUME NEW r \in Requests, Fail(r) PROVE ChainHolds'
  BY <1>12 DEF Fail, Finish, Goto
<1>13. ASSUME NEW i \in Ids, Expire(i) PROVE ChainHolds'
  BY <1>13 DEF Expire
<1>14. CASE UNCHANGED vars
  BY <1>14
<1> QED
  BY <1>1, <1>2, <1>3, <1>4, <1>5, <1>6, <1>7, <1>8, <1>9, <1>10, <1>11, <1>12, <1>13, <1>14 DEF Next, Step

-----------------------------------------------------------------------------
\* The inductive invariant holds initially.
LEMMA InitInv == Init => IInv
BY Sentinels
   DEF Init, IInv, TypeOK, Labels, IdsAllocated, LocalsFit, Allocated,
       AcceptedIsMarked, MarkedWasAccepted, UnusedAsRead, UsedAsRead,
       HashedBeforeAnswer, OncePerRequest, IssuedIsVerifiable

\* Every step of the server preserves it.
LEMMA StepInv == IInv /\ [Next]_vars => IInv'
<1> SUFFICES ASSUME IInv, [Next]_vars PROVE IInv'
  OBVIOUS
<1>1. TypeOK'
  BY TypeStep DEF IInv
<1>2. IdsAllocated' /\ LocalsFit'
  BY AllocatedStep, LocalsStep DEF IInv
<1>3. AcceptedIds \subseteq AcceptedIds'
  BY GrowStep DEF IInv
<1>4. AcceptedIsMarked' /\ MarkedWasAccepted'
  BY <1>3, MarkStep, MarkedStep DEF IInv
<1>5. UnusedAsRead' /\ OncePerRequest' /\ UsedAsRead'
  BY <1>3, UnusedStep, UsedStep DEF IInv
<1>6. HashedBeforeAnswer' /\ IssuedIsVerifiable'
  BY HashedStep DEF IInv
<1> QED
  BY <1>1, <1>2, <1>4, <1>5, <1>6 DEF IInv

\* The inductive invariant holds in every reachable state.
THEOREM Invariance == Spec => []IInv
BY InitInv, StepInv, PTL DEF Spec

\* TypeOK holds in every reachable state.
THEOREM TypeCorrect == Spec => []TypeOK
<1>1. IInv => TypeOK
  BY DEF IInv
<1> QED
  BY <1>1, Invariance, PTL

\* A client that waits for each answer never has a token accepted twice, for
\* any number of requests, tokens and families, failures included.
THEOREM AcceptedOncePerRequest == Spec => []OncePerRequest
<1>1. IInv => OncePerRequest
  BY DEF IInv
<1> QED
  BY <1>1, Invariance, PTL

\* A row is revoked only by a request that presents again a token of its family.
THEOREM NoSpuriousRevocation == Spec => RevokedOnlyForReuse
<1>1. IInv /\ [Next]_vars => [ReuseOnly]_vars
  BY RevokedStep DEF IInv
<1> QED
  BY <1>1, Invariance, PTL DEF Spec, RevokedOnlyForReuse, ReuseOnly

\* Every token a client holds can be verified while its row exists.
THEOREM Verifiable == Spec => []IssuedIsVerifiable
<1>1. IInv => IssuedIsVerifiable
  BY DEF IInv
<1> QED
  BY <1>1, Invariance, PTL

\* Revocation is final once no refresh of the family is past its check.
THEOREM FinalRevocation == Spec => RevocationIsFinal
<1>1. IInv /\ [Next]_vars =>
        [\A f \in Families : Sealed(f) => Sealed(f)' \/ RowsOf(f)' = {}]_vars
  BY SealedStep DEF IInv
<1> QED
  BY <1>1, Invariance, PTL DEF Spec, RevocationIsFinal

\* Logout is final once no refresh that read a row of the family is in flight.
THEOREM FinalLogout == Spec => LogoutIsFinal
<1>1. IInv /\ [Next]_vars => [\A f \in Families : Closed(f) => Closed(f)']_vars
  BY ClosedStep DEF IInv
<1> QED
  BY <1>1, Invariance, PTL DEF Spec, LogoutIsFinal

\* What holds of the families whose requests do not overlap, at every step.
LEMMA UncontestedPromises == Spec => []FamilyInv
<1>1. Init => FamilyInv
  BY Sentinels DEF Init, FamilyInv, Noted, ReadsHold, ChecksHold, PastCheck,
                   ChainHolds, RowsOf, Promises, UncontestedSingleUse, WholeFamilyRevoked, LogoutEndsFamily
<1>2. IInv /\ FamilyInv /\ [Next]_vars => FamilyInv'
  BY NotedStep, ReadsStep, WholeStep, LogoutStep, ChecksStep, ChainStep
  DEF IInv, FamilyInv, Promises
<1> QED
  BY <1>1, <1>2, Invariance, PTL DEF Spec

\* As long as no two requests work on a family at one time, each of its tokens
\* is accepted once, whatever happens in other families and whatever fails.
THEOREM AcceptedOnce == Spec => []UncontestedSingleUse
<1>1. FamilyInv => UncontestedSingleUse
  BY DEF FamilyInv, Promises
<1> QED
  BY <1>1, UncontestedPromises, PTL

\* A family whose requests do not overlap is revoked as a whole or not at all.
THEOREM RevokedAsAWhole == Spec => []WholeFamilyRevoked
<1>1. FamilyInv => WholeFamilyRevoked
  BY DEF FamilyInv, Promises
<1> QED
  BY <1>1, UncontestedPromises, PTL

\* A family whose requests do not overlap ends with its logout: no refresh
\* that went before it leaves a row behind.
THEOREM EndedByLogout == Spec => []LogoutEndsFamily
<1>1. FamilyInv => LogoutEndsFamily
  BY DEF FamilyInv, Promises
<1> QED
  BY <1>1, UncontestedPromises, PTL


-----------------------------------------------------------------------------
(* Refinement of Sessions                                                  *)

\* Nothing of a session shows but the rows, their marks and who contests it.
LEMMA SessionsSame ==
  ASSUME UNCHANGED <<rows, familyOf, used, revoked, contested>>
  PROVE  UNCHANGED Sessions!vars
BY DEF Sessions!vars, Standing, Current, Made, RowsOf

\* What is seen of one session does not depend on the rows of the others.
LEMMA OtherSessions ==
  ASSUME NEW g \in Families, contested' \cap {g} = contested \cap {g},
         \A i \in Ids : familyOf'[i] = g <=> familyOf[i] = g,
         RowsOf(g)' = RowsOf(g),
         RowsOf(g) \cap used' = RowsOf(g) \cap used,
         RowsOf(g) \cap revoked' = RowsOf(g) \cap revoked
  PROVE  Standing(g)' = Standing(g) /\ Current(g)' = Current(g) /\ Made(g)' = Made(g)
<1>1. g \in contested' <=> g \in contested
  OBVIOUS
<1>2. Made(g)' = Made(g)
  BY <1>1 DEF Made
<1>3. Standing(g)' = Standing(g)
  BY <1>1 DEF Standing
<1>4. RowsOf(g) \ (used' \cup revoked') = RowsOf(g) \ (used \cup revoked)
  OBVIOUS
<1>5. Current(g)' = Current(g)
  BY <1>1, <1>4 DEF Current
<1> QED
  BY <1>2, <1>3, <1>5

\* To present a token may contest its session, and does no more.
LEMMA PresentSession ==
  ASSUME IInv, NEW r \in Requests, NEW label, Present(r, label)
  PROVE  [Sessions!Next]_(Sessions!vars)
<1>1. PICK i \in issued \ expired :
        contested' = contested \cup ({fam[s] : s \in Requests} \cap {familyOf[i]})
  BY DEF Present
<1>2. UNCHANGED <<rows, familyOf, used, revoked>>
  BY DEF Present, table
<1>3. i \in Ids /\ familyOf[i] \in Families
  BY DEF IInv, TypeOK, IdsAllocated, Allocated
<1> PICK f \in Families : f = familyOf[i]
  BY <1>3
<1>4. CASE contested' = contested
  BY <1>2, <1>4, SessionsSame
<1>5. CASE contested' # contested
  <2>1. f \notin contested /\ contested' = contested \cup {f}
    BY <1>1, <1>5
  <2>2. Standing(f) \in {"live", "revoked", "ended"}
    BY <1>3, <2>1 DEF Standing
  <2>3. Standing(f)' = "contested" /\ Current(f)' = {} /\ Made(f)' = {}
    BY <2>1 DEF Standing, Current, Made
  <2>4. \A g \in Families \ {f} :
          Standing(g)' = Standing(g) /\ Current(g)' = Current(g) /\ Made(g)' = Made(g)
    BY <1>2, <2>1 DEF Standing, Current, Made, RowsOf
  <2>5. Sessions!Contest(f)
    BY <2>2, <2>3, <2>4 DEF Sessions!Contest, Sessions!Close
  <2> QED
    BY <2>2, <2>3, <2>5 DEF Sessions!Next
<1> QED
  BY <1>4, <1>5

\* To mark a token as used is to spend the one that is worth something.
LEMMA SpendSession ==
  ASSUME IInv, FamilyInv, NEW r \in Requests, MarkRefreshTokenAsUsed(r)
  PROVE  [Sessions!Next]_(Sessions!vars)
<1>0. pc[r] = "markUsed" /\ fam[r] \in Families
  BY DEF MarkRefreshTokenAsUsed, IInv, LocalsFit
<1> PICK f \in Families : f = fam[r]
  BY <1>0
<1>1. /\ pc[r] = "markUsed" /\ UNCHANGED <<rows, familyOf, revoked, contested>>
      /\ used' = used \cup ({tok[r]} \cap rows)
  BY DEF MarkRefreshTokenAsUsed
<1>2. f \in Families /\ tok[r] \in Ids /\ familyOf[tok[r]] = f
  BY <1>0, <1>1 DEF IInv, LocalsFit
<1>3. \A g \in Families :
        /\ Made(g)' = Made(g) /\ RowsOf(g)' = RowsOf(g)
        /\ \A i \in Ids : familyOf'[i] = g <=> familyOf[i] = g
        /\ RowsOf(g) \cap revoked' = RowsOf(g) \cap revoked
        /\ contested' \cap {g} = contested \cap {g}
  BY <1>1 DEF Made, RowsOf
<1>4. \A g \in Families \ {f} : Standing(g)' = Standing(g) /\ Current(g)' = Current(g)
  <2>1. \A g \in Families \ {f} : RowsOf(g) \cap used' = RowsOf(g) \cap used
    BY <1>1, <1>2 DEF RowsOf
  <2> QED
    BY <1>3, <2>1, OtherSessions
<1>5. Standing(f)' = Standing(f)
  BY <1>1 DEF Standing, RowsOf
<1>6. CASE f \in contested
  <2>1. Current(f)' = Current(f)
    BY <1>1, <1>6 DEF Current
  <2> QED
    BY <1>3, <1>4, <1>5, <2>1 DEF Sessions!vars
<1>7. CASE f \notin contested
  <2>1. tok[r] \in RowsOf(f) /\ RowsOf(f) \cap revoked = {}
    BY <1>1, <1>2, <1>7 DEF FamilyInv, ChainHolds, ChecksHold, PastCheck, RowsOf
  <2>2. tok[r] \notin used
    BY <1>1, <1>7
       DEF IInv, FamilyInv, Promises, UncontestedSingleUse, MarkedWasAccepted, AcceptedIds
  <2>3. Standing(f) = "live"
    BY <1>2, <1>7, <2>1 DEF Standing
  <2>4. Current(f) # {}
    BY <1>7, <2>1, <2>2 DEF Current
  <2>5. Current(f)' = {}
    <3>1. \A i \in RowsOf(f) : i \notin used => i = tok[r]
      BY <1>2, <1>7, <2>1, <2>2 DEF FamilyInv, ChainHolds
    <3>2. RowsOf(f) \subseteq used'
      BY <1>1, <2>1, <3>1 DEF RowsOf
    <3> QED
      BY <1>1, <1>2, <1>3, <3>2 DEF Current, RowsOf
  <2>6. Sessions!Spend(f)
    BY <1>2, <1>3, <1>4, <1>5, <2>3, <2>4, <2>5 DEF Sessions!Spend
  <2> QED
    BY <2>4, <2>5, <2>6 DEF Sessions!Next
<1> QED
  BY <1>6, <1>7

\* A row is the first of its session, or the next when the one before is spent.
LEMMA MakeSession ==
  ASSUME IInv, FamilyInv, NEW r \in Requests, ReserveTokenRow(r)
  PROVE  [Sessions!Next]_(Sessions!vars)
<1>0. pc[r] = "reserve" /\ fam[r] \in Families
  BY DEF ReserveTokenRow, IInv, LocalsFit
<1> PICK f \in Families : f = fam[r]
  BY <1>0
<1>1. PICK i \in Ids :
        /\ pc[r] = "reserve" /\ familyOf[i] = NoFamily /\ rows' = rows \cup {i}
        /\ familyOf' = [familyOf EXCEPT ![i] = f]
        /\ UNCHANGED <<used, revoked, contested>>
  BY DEF ReserveTokenRow, history
<1>2. f \in Families /\ i \notin rows /\ i \notin used /\ i \notin revoked
  BY <1>1 DEF IInv, LocalsFit, IdsAllocated, Allocated
<1>3. familyOf \in [Ids -> Families \cup {NoFamily}] /\ rows \subseteq Ids
  BY DEF IInv, TypeOK
<1>4. RowsOf(f)' = RowsOf(f) \cup {i}
  BY <1>1, <1>2, <1>3 DEF RowsOf
<1>5. \A g \in Families \ {f} :
        RowsOf(g)' = RowsOf(g) /\ \A j \in Ids : familyOf'[j] = g <=> familyOf[j] = g
  BY <1>1, <1>2, <1>3, Sentinels DEF RowsOf
<1>6. \A g \in Families \ {f} :
        Standing(g)' = Standing(g) /\ Current(g)' = Current(g) /\ Made(g)' = Made(g)
  BY <1>1, <1>5, OtherSessions
<1>7. i \in Sessions!New
  <2>1. \A g \in Families : i \notin Made(g)
    BY <1>1, Sentinels DEF Made
  <2> QED
    BY <2>1 DEF Sessions!New
<1>8. CASE f \in contested
  <2>1. Standing(f)' = Standing(f) /\ Current(f)' = Current(f) /\ Made(f)' = Made(f)
    BY <1>1, <1>8 DEF Standing, Current, Made
  <2> QED
    BY <1>6, <2>1 DEF Sessions!vars
<1>9. CASE f \notin contested
  <2>1. /\ RowsOf(f) \subseteq used /\ RowsOf(f) \cap revoked = {}
        /\ RowsOf(f) # {} \/ Made(f) = {}
    BY <1>1, <1>9 DEF FamilyInv, ChainHolds, ChecksHold, PastCheck, Made
  <2>2. Current(f) = {} /\ Current(f)' = {i}
    BY <1>1, <1>2, <1>4, <1>9, <2>1 DEF Current
  <2>3. Standing(f)' = "live"
    <3>1. familyOf'[i] = f /\ i \in RowsOf(f)'
      BY <1>1, <1>3, <1>4
    <3>2. RowsOf(f)' \cap revoked' = {}
      BY <1>1, <1>2, <1>4, <2>1
    <3> QED
      BY <1>1, <1>9, <3>1, <3>2 DEF Standing
  <2>4. Made(f)' = Made(f) \cup {i}
    BY <1>1, <1>2, <1>3, <1>9 DEF Made
  <2>5. Sessions!Make(f)
    BY <1>6, <1>7, <2>2, <2>4 DEF Sessions!Make
  <2>6. CASE Made(f) = {}
    <3>1. Standing(f) = "none"
      BY <1>9, <2>6 DEF Standing, Made
    <3>2. Sessions!Open(f)
      BY <1>6, <2>3, <2>5, <3>1 DEF Sessions!Open
    <3> QED
      BY <2>3, <3>1, <3>2 DEF Sessions!Next
  <2>7. CASE RowsOf(f) # {}
    <3>1. Standing(f) = "live"
      BY <1>3, <1>9, <2>1, <2>7 DEF Standing, RowsOf
    <3>2. Sessions!Renew(f)
      BY <1>6, <2>3, <2>5, <3>1 DEF Sessions!Renew
    <3> QED
      BY <2>2, <3>2 DEF Sessions!Next
  <2> QED
    BY <2>1, <2>6, <2>7
<1> QED
  BY <1>8, <1>9

\* A session is revoked for a spent token, and as a whole.
LEMMA RevokeSession ==
  ASSUME IInv, FamilyInv, NEW r \in Requests, RevokeTokenFamily(r)
  PROVE  [Sessions!Next]_(Sessions!vars)
<1>0. pc[r] = "revoke" /\ fam[r] \in Families
  BY DEF RevokeTokenFamily, IInv, LocalsFit
<1> PICK f \in Families : f = fam[r]
  BY <1>0
<1>1. /\ pc[r] = "revoke" /\ UNCHANGED <<rows, familyOf, used, contested>>
      /\ revoked' = revoked \cup RowsOf(f)
  BY DEF RevokeTokenFamily, history
<1>2. f \in Families /\ tok[r] \in Ids /\ familyOf[tok[r]] = f
  BY <1>0, <1>1 DEF IInv, LocalsFit
<1>3. \A g \in Families :
        /\ Made(g)' = Made(g) /\ RowsOf(g)' = RowsOf(g)
        /\ \A i \in Ids : familyOf'[i] = g <=> familyOf[i] = g
        /\ RowsOf(g) \cap used' = RowsOf(g) \cap used
        /\ contested' \cap {g} = contested \cap {g}
  BY <1>1 DEF Made, RowsOf
<1>4. \A g \in Families \ {f} : Standing(g)' = Standing(g) /\ Current(g)' = Current(g)
  <2>1. \A g \in Families \ {f} : RowsOf(g) \cap revoked' = RowsOf(g) \cap revoked
    BY <1>1 DEF RowsOf
  <2> QED
    BY <1>3, <2>1, OtherSessions
<1>5. CASE f \in contested
  <2>1. Standing(f)' = Standing(f) /\ Current(f)' = Current(f)
    BY <1>1, <1>5 DEF Standing, Current
  <2> QED
    BY <1>3, <1>4, <2>1 DEF Sessions!vars
<1>6. CASE f \notin contested
  <2>1. tok[r] \in RowsOf(f) /\ RowsOf(f) \cap revoked = {}
    BY <1>1, <1>2, <1>6 DEF FamilyInv, ChainHolds, ChecksHold, PastCheck, RowsOf
  <2>2. tok[r] \in used
    <3>1. tok[r] \in AcceptedIds /\ tok[r] \in rows
      BY <1>1, <2>1 DEF IInv, UsedAsRead, RowsOf
    <3> QED
      BY <3>1 DEF IInv, AcceptedIsMarked, AcceptedIds
  <2>3. Standing(f) = "live"
    BY <1>2, <1>6, <2>1 DEF Standing
  <2>4. Made(f) # Current(f)
    BY <1>2, <1>6, <2>2 DEF Made, Current
  <2>5. Standing(f)' = "revoked" /\ Current(f)' = {}
    <3>1. RowsOf(f)' = RowsOf(f) /\ RowsOf(f) \subseteq revoked'
      BY <1>1, <1>2, <1>3
    <3> QED
      BY <1>1, <1>2, <1>6, <2>1, <3>1 DEF Standing, Current
  <2>6. Sessions!Revoke(f)
    BY <1>2, <1>3, <1>4, <2>3, <2>4, <2>5 DEF Sessions!Revoke, Sessions!Close
  <2> QED
    BY <2>3, <2>5, <2>6 DEF Sessions!Next
<1> QED
  BY <1>5, <1>6

\* A logout ends a session, unless it had ended.
LEMMA EndSession ==
  ASSUME IInv, FamilyInv, NEW r \in Requests, DeleteToken(r)
  PROVE  [Sessions!Next]_(Sessions!vars)
<1>0. pc[r] = "deleteFamily" /\ fam[r] \in Families
  BY DEF DeleteToken, IInv, LocalsFit
<1> PICK f \in Families : f = fam[r]
  BY <1>0
<1>1. /\ pc[r] = "deleteFamily" /\ UNCHANGED <<familyOf, used, revoked, contested>>
      /\ rows' = rows \ RowsOf(f)
  BY DEF DeleteToken
<1>2. f \in Families /\ tok[r] \in Ids /\ familyOf[tok[r]] = f
  BY <1>0, <1>1 DEF IInv, LocalsFit
<1>3. /\ \A g \in Families : Made(g)' = Made(g)
      /\ \A g \in Families \ {f} :
           RowsOf(g)' = RowsOf(g) /\ \A i \in Ids : familyOf'[i] = g <=> familyOf[i] = g
      /\ RowsOf(f)' = {}
  BY <1>1 DEF Made, RowsOf
<1>4. \A g \in Families \ {f} : Standing(g)' = Standing(g) /\ Current(g)' = Current(g)
  BY <1>1, <1>3, OtherSessions
<1>5. CASE f \in contested
  <2>1. Standing(f)' = Standing(f) /\ Current(f)' = Current(f)
    BY <1>1, <1>5 DEF Standing, Current
  <2> QED
    BY <1>3, <1>4, <2>1 DEF Sessions!vars
<1>6. CASE f \notin contested
  <2>1. Standing(f)' = "ended" /\ Current(f)' = {}
    BY <1>1, <1>2, <1>3, <1>6 DEF Standing, Current
  <2>2. CASE RowsOf(f) = {}
    <3>1. Standing(f) = "ended" /\ Current(f) = {}
      BY <1>2, <1>6, <2>2 DEF Standing, Current
    <3> QED
      BY <1>3, <1>4, <2>1, <3>1 DEF Sessions!vars
  <2>3. CASE RowsOf(f) # {}
    <3>1. Standing(f) \in {"live", "revoked"}
      BY <1>2, <1>6, <2>3 DEF Standing
    <3>2. Sessions!End(f)
      BY <1>2, <1>3, <1>4, <2>1, <3>1 DEF Sessions!End, Sessions!Close
    <3> QED
      BY <2>1, <3>1, <3>2 DEF Sessions!Next
  <2> QED
    BY <2>2, <2>3
<1> QED
  BY <1>5, <1>6

\* Every query of every request is a step of one session, or none at all.
LEMMA SessionStep ==
  ASSUME IInv, FamilyInv, [Next]_vars
  PROVE  [Sessions!Next]_(Sessions!vars)
<1> USE DEF table, history
<1>1. ASSUME NEW r \in Requests, Login(r) PROVE UNCHANGED Sessions!vars
  BY <1>1, SessionsSame DEF Login
<1>2. ASSUME NEW r \in Requests, Refresh(r) \/ Logout(r)
      PROVE  [Sessions!Next]_(Sessions!vars)
  BY <1>2, PresentSession DEF Refresh, Logout
<1>3. ASSUME NEW r \in Requests,
             GetTokenRow(r) \/ CheckRevoked(r) \/ SetTokenHash(r) \/ SetCookie(r) \/ Fail(r)
      PROVE  UNCHANGED Sessions!vars
  BY <1>3, SessionsSame DEF GetTokenRow, CheckRevoked, SetTokenHash, SetCookie, Fail
<1>4. ASSUME NEW i \in Ids, Expire(i) PROVE UNCHANGED Sessions!vars
  BY <1>4, SessionsSame DEF Expire
<1>5. CASE UNCHANGED vars
  BY <1>5, SessionsSame DEF vars
<1> QED
  BY <1>1, <1>2, <1>3, <1>4, <1>5, SpendSession, MakeSession, RevokeSession, EndSession
     DEF Next, Step

\* The queries of login, refresh and logout implement the chain of tokens that
\* the documentation promises of a session, for any tokens, sessions and
\* requests: those of other sessions, failures and repetitions included, until
\* two requests of the session overlap.
THEOREM RefreshTokensImplementSessions == Spec => ImplementsSessions
<1>1. Init => Sessions!Init
  <2> SUFFICES ASSUME Init PROVE Sessions!Init
    OBVIOUS
  <2>1. \A f \in Families :
          Standing(f) = "none" /\ Current(f) = {} /\ Made(f) = {}
    BY Sentinels DEF Init, Standing, Current, Made, RowsOf
  <2> QED
    BY <2>1 DEF Sessions!Init
<1>2. IInv /\ FamilyInv /\ [Next]_vars => [Sessions!Next]_(Sessions!vars)
  BY SessionStep
<1> QED
  BY <1>1, <1>2, Invariance, UncontestedPromises, PTL
     DEF Spec, ImplementsSessions, Sessions!Spec
=============================================================================
