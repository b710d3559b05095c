--------------------------- MODULE RefreshTokens ---------------------------
(***************************************************************************)
(* Refresh-token rotation: RefreshTokenService, the token half of          *)
(* AuthService, and the refresh_tokens table they share.                   *)
(*                                                                         *)
(* Each request is a process that performs the service's awaited queries   *)
(* one per step; requests interleave at every await.  The columns of       *)
(* refresh_tokens are the variables rows .. hashed: each boolean column is *)
(* the set of ids for which it holds (revoked_at is null or not, the value *)
(* is never read), and columns of deleted rows are left as they were.      *)
(*                                                                         *)
(* A token is identified with the id of its row: the id is in the signed   *)
(* payload, and a row's hash is the hash of the one token signed for it.   *)
(* user_id always travels with family_id (payload, INSERT), so a family    *)
(* stands for the pair.                                                    *)
(***************************************************************************)

CONSTANTS Ids,        \* row ids (SERIAL: never handed out twice)
          Families,   \* family_id values (randomUUID)
          Requests,   \* requests the server may be handling at one time
          NoId, NoFamily

ASSUME Sentinels == NoId \notin Ids /\ NoFamily \notin Families

VARIABLES
  rows,       \* ids of the rows present in refresh_tokens
  familyOf,   \* family_id of every row ever inserted
  used, revoked, hashed,
  expired,    \* tokens whose expires_at (and JWT exp) has passed
  pc,         \* the query a request performs next
  tok,        \* token a request presented
  fam,        \* family_id a request works on
  sawUsed,    \* the used column as getTokenRow returned it
  newId,      \* row reserved by createRefreshToken
  issued,     \* tokens that have been sent to a client
  accepted,   \* history: <<r, i>> when request r had token i accepted
  loggedOut,  \* history: families deleted by a logout
  contested   \* history: families two requests have worked on at one time

table == <<rows, familyOf, used, revoked, hashed>>
locals == <<tok, fam, sawUsed, newId>>
history == <<accepted, loggedOut, contested>>
vars == <<table, expired, pc, locals, issued, history>>

RowsOf(f) == {i \in rows : familyOf[i] = f}

Init ==
  /\ rows = {} /\ used = {} /\ revoked = {} /\ hashed = {} /\ expired = {}
  /\ familyOf = [i \in Ids |-> NoFamily]
  /\ pc = [r \in Requests |-> "idle"]
  /\ tok = [r \in Requests |-> NoId]
  /\ fam = [r \in Requests |-> NoFamily]
  /\ sawUsed = [r \in Requests |-> FALSE]
  /\ newId = [r \in Requests |-> NoId]
  /\ issued = {} /\ accepted = {} /\ loggedOut = {} /\ contested = {}

Goto(r, label) == pc' = [pc EXCEPT ![r] = label]

\* The request is over, with an answer or an exception; its locals are gone.
Finish(r) ==
  /\ Goto(r, "idle")
  /\ tok' = [tok EXCEPT ![r] = NoId]
  /\ fam' = [fam EXCEPT ![r] = NoFamily]
  /\ sawUsed' = [sawUsed EXCEPT ![r] = FALSE]
  /\ newId' = [newId EXCEPT ![r] = NoId]

-----------------------------------------------------------------------------
(* Requests begin.  Verifying a JWT is synchronous; an expired one is      *)
(* refused before anything is read, which changes nothing.                 *)

\* POST /auth/login and /auth/register, once the user is known: a new family.
Login(r) ==
  /\ pc[r] = "idle"
  /\ \E f \in Families :
       /\ \A i \in Ids : familyOf[i] # f
       /\ \A s \in Requests : fam[s] # f
       /\ fam' = [fam EXCEPT ![r] = f]
  /\ Goto(r, "reserve")
  /\ UNCHANGED <<table, expired, tok, sawUsed, newId, issued, history>>

\* A cookie holding any token sent to a client so far arrives at r.
Present(r, label) ==
  /\ pc[r] = "idle"
  /\ \E i \in issued \ expired :
       /\ tok' = [tok EXCEPT ![r] = i]
       /\ fam' = [fam EXCEPT ![r] = familyOf[i]]
       /\ contested' = contested \cup ({fam[s] : s \in Requests} \cap {familyOf[i]})
  /\ Goto(r, label)
  /\ UNCHANGED <<table, expired, sawUsed, newId, issued, accepted, loggedOut>>

Refresh(r) == Present(r, "getRow")
Logout(r) == Present(r, "deleteFamily")

-----------------------------------------------------------------------------
(* validateRefreshToken                                                    *)

\* Mutant: a missing row is not refused (refresh-token.service.ts:84 dropped).
GetTokenRowUnchecked(r) ==
  /\ pc[r] = "getRow"
  /\ sawUsed' = [sawUsed EXCEPT ![r] = tok[r] \in used]
  /\ Goto(r, "checkRevoked")
  /\ UNCHANGED <<tok, fam, newId, table, expired, issued, history>>

\* SELECT by id, then bcrypt.compare with the hash read: an exception when
\* the row is gone or its token_hash is still null.
GetTokenRow(r) ==
  /\ pc[r] = "getRow"
  /\ IF tok[r] \in rows \cap hashed
     THEN /\ sawUsed' = [sawUsed EXCEPT ![r] = tok[r] \in used]
          /\ Goto(r, "checkRevoked")
          /\ UNCHANGED <<tok, fam, newId>>
     ELSE Finish(r)
  /\ UNCHANGED <<table, expired, issued, history>>

\* isRevokedToken looks at rows[0] of an unordered SELECT: any row of the
\* family; no row at all counts as not revoked.
ReadsRevoked(f) == RowsOf(f) \cap revoked # {}
\* Mutant: the revocation check is dropped (line 147).
NeverReadsRevoked(f) == f \in Families
ReadsNotRevoked(f) == RowsOf(f) = {} \/ RowsOf(f) \ revoked # {}

CheckRevoked(r) ==
  /\ pc[r] = "checkRevoked"
  /\ \/ /\ ReadsRevoked(fam[r]) \/ tok[r] \in expired
        /\ Finish(r)
     \/ /\ ReadsNotRevoked(fam[r])
        /\ tok[r] \notin expired
        /\ Goto(r, IF sawUsed[r] THEN "revoke" ELSE "markUsed")
        /\ UNCHANGED locals
  /\ UNCHANGED <<table, expired, issued, history>>

\* Mutants: WHERE user_id, or WHERE id, in place of WHERE family_id (line 92).
RevokeEveryFamily(r) ==
  /\ pc[r] = "revoke"
  /\ revoked' = revoked \cup rows
  /\ Finish(r)
  /\ UNCHANGED <<rows, familyOf, used, hashed, expired, issued, history>>

RevokePresentedRow(r) ==
  /\ pc[r] = "revoke"
  /\ revoked' = revoked \cup ({tok[r]} \cap rows)
  /\ Finish(r)
  /\ UNCHANGED <<rows, familyOf, used, hashed, expired, issued, history>>

RevokeTokenFamily(r) ==
  /\ pc[r] = "revoke"
  /\ revoked' = revoked \cup RowsOf(fam[r])
  /\ Finish(r)
  /\ UNCHANGED <<rows, familyOf, used, hashed, expired, issued, history>>

\* Mutant: the token is accepted without being marked (line 158 dropped).
AcceptUnmarked(r) ==
  /\ pc[r] = "markUsed"
  /\ accepted' = accepted \cup {<<r, tok[r]>>}
  /\ Goto(r, "reserve")
  /\ UNCHANGED <<table, expired, locals, issued, loggedOut, contested>>

MarkRefreshTokenAsUsed(r) ==
  /\ pc[r] = "markUsed"
  /\ used' = used \cup ({tok[r]} \cap rows)
  /\ accepted' = accepted \cup {<<r, tok[r]>>}
  /\ Goto(r, "reserve")
  /\ UNCHANGED <<rows, familyOf, revoked, hashed, expired, locals, issued,
                 loggedOut, contested>>

-----------------------------------------------------------------------------
(* createTokens: reserve a row, sign the token, store its hash, answer.    *)

ReserveTokenRow(r) ==
  /\ pc[r] = "reserve"
  /\ \E i \in Ids :
       /\ familyOf[i] = NoFamily
       /\ rows' = rows \cup {i}
       /\ familyOf' = [familyOf EXCEPT ![i] = fam[r]]
       /\ newId' = [newId EXCEPT ![r] = i]
  /\ Goto(r, "setHash")
  /\ UNCHANGED <<used, revoked, hashed, expired, tok, fam, sawUsed, issued,
                 history>>

\* Mutant: the hash of the signed token is never stored (line 62 dropped).
SkipTokenHash(r) ==
  /\ pc[r] = "setHash"
  /\ Goto(r, "respond")
  /\ UNCHANGED <<table, expired, locals, issued, history>>

SetTokenHash(r) ==
  /\ pc[r] = "setHash"
  /\ hashed' = hashed \cup ({newId[r]} \cap rows)
  /\ Goto(r, "respond")
  /\ UNCHANGED <<rows, familyOf, used, revoked, expired, locals, issued,
                 history>>

SetCookie(r) ==
  /\ pc[r] = "respond"
  /\ issued' = issued \cup {newId[r]}
  /\ Finish(r)
  /\ UNCHANGED <<table, expired, history>>

-----------------------------------------------------------------------------

\* Mutant: WHERE id in place of WHERE family_id (line 109).
DeletePresentedRow(r) ==
  /\ pc[r] = "deleteFamily"
  /\ rows' = rows \ {tok[r]}
  /\ loggedOut' = loggedOut \cup {fam[r]}
  /\ Finish(r)
  /\ UNCHANGED <<familyOf, used, revoked, hashed, expired, issued, accepted,
                 contested>>

DeleteToken(r) ==
  /\ pc[r] = "deleteFamily"
  /\ rows' = rows \ RowsOf(fam[r])
  /\ loggedOut' = loggedOut \cup {fam[r]}
  /\ Finish(r)
  /\ UNCHANGED <<familyOf, used, revoked, hashed, expired, issued, accepted,
                 contested>>

\* A query fails, the process stops or the answer is lost: what was written
\* stays written, since none of these queries runs in a transaction.
Fail(r) ==
  /\ pc[r] # "idle"
  /\ Finish(r)
  /\ UNCHANGED <<table, expired, issued, history>>

\* Time passes the expiry of a token.
Expire(i) ==
  /\ i \in issued \ expired
  /\ expired' = expired \cup {i}
  /\ UNCHANGED <<table, pc, locals, issued, history>>

Step(r) ==
  \/ Login(r) \/ Refresh(r) \/ Logout(r)
  \/ GetTokenRow(r) \/ CheckRevoked(r)
  \/ RevokeTokenFamily(r) \/ MarkRefreshTokenAsUsed(r)
  \/ ReserveTokenRow(r) \/ SetTokenHash(r) \/ SetCookie(r)
  \/ DeleteToken(r) \/ Fail(r)

Next == (\E r \in Requests : Step(r)) \/ (\E i \in Ids : Expire(i))

Spec == Init /\ [][Next]_vars

-----------------------------------------------------------------------------
Labels == {"idle", "getRow", "checkRevoked", "revoke", "markUsed", "reserve",
           "setHash", "respond", "deleteFamily"}

\* The shape of every variable: table columns, locals of requests, history.
TypeOK ==
  /\ rows \subseteq Ids /\ used \subseteq Ids /\ revoked \subseteq Ids
  /\ hashed \subseteq Ids /\ expired \subseteq Ids /\ issued \subseteq Ids
  /\ familyOf \in [Ids -> Families \cup {NoFamily}]
  /\ pc \in [Requests -> Labels]
  /\ tok \in [Requests -> Ids \cup {NoId}]
  /\ fam \in [Requests -> Families \cup {NoFamily}]
  /\ sawUsed \in [Requests -> BOOLEAN]
  /\ newId \in [Requests -> Ids \cup {NoId}]
  /\ accepted \subseteq Requests \X Ids
  /\ loggedOut \subseteq Families /\ contested \subseteq Families

\* A client that waits for each answer before it presents a token again never
\* has one token accepted twice, whatever the other requests, failures and
\* logouts do in between: the used mark is set before the acceptance shows,
\* and is found by every later read (refresh-token.service.ts:153-158).
OncePerRequest ==
  \A r \in Requests : pc[r] = "markUsed" => <<r, tok[r]>> \notin accepted

\* A row is revoked only by a request that presents again a token of its family:
\* one that an earlier or another presentation has had accepted, and that this
\* presentation has not.  So a client that presents each token once is never
\* thrown out, and neither is a family mixed up with another one
\* (refresh-token.service.ts:153-156).
RevokedOnlyForReuse ==
  [][\A i \in revoked' \ revoked : \E r, s \in Requests :
       /\ pc[r] \in {"getRow", "checkRevoked", "revoke"} /\ pc'[r] # pc[r]
       /\ <<s, tok[r]>> \in accepted
       /\ familyOf[tok[r]] = familyOf[i]]_vars

\* A token sent to a client can always be verified while its row exists: the
\* hash is stored before the cookie is set (refresh-token.service.ts:62-63).
IssuedIsVerifiable == issued \cap rows \subseteq hashed

\* Revocation is final once it has caught up with every refresh of the family
\* that was past its revocation check: from then on no row of the family is
\* ever live again, until a logout deletes them all
\* (refresh-token.service.ts:90-106, 146-147).
Sealed(f) ==
  /\ RowsOf(f) # {}
  /\ RowsOf(f) \subseteq revoked
  /\ \A r \in Requests : fam[r] = f => pc[r] \notin {"markUsed", "reserve"}
RevocationIsFinal ==
  [][\A f \in Families : Sealed(f) => Sealed(f)' \/ RowsOf(f)' = {}]_vars

\* Logout is final once no refresh that had already read a row of the family
\* is in flight: the family never gets a row again, because a token whose row
\* is gone is refused (refresh-token.service.ts:84-85, 108-112).
Closed(f) ==
  /\ \E i \in Ids : familyOf[i] = f
  /\ RowsOf(f) = {}
  /\ \A r \in Requests :
       fam[r] = f => pc[r] \notin {"checkRevoked", "markUsed", "reserve"}
LogoutIsFinal == [][\A f \in Families : Closed(f) => Closed(f)']_vars

-----------------------------------------------------------------------------
(* What the documentation promises of a family, as far as it is kept: for a *)
(* family that no two requests have worked on at one time, whatever happens *)
(* in other families, and whatever fails.                                  *)

\* README.md:100, "Reuse Detection: If a previously used refresh token is
\* presented, the entire token family is instantly revoked": no token that
\* has been accepted, by whatever request, is accepted again.
UncontestedSingleUse ==
  \A r, s \in Requests :
    pc[r] = "markUsed" /\ fam[r] \notin contested => <<s, tok[r]>> \notin accepted

\* README.md:100, "the entire token family is instantly revoked": a family
\* is never left with some rows revoked and others live.  In a contested one a
\* refresh past its checks inserts a live row after the revocation.
WholeFamilyRevoked ==
  \A f \in Families \ contested :
    RowsOf(f) \cap revoked # {} => RowsOf(f) \subseteq revoked

\* README.md:179, POST /auth/logout "Revokes refresh token": a family that
\* has been logged out of has no row a client could refresh with.  In a
\* contested one a refresh under way inserts one: to isRevokedToken, no row is
\* not revoked.
LogoutEndsFamily == \A f \in loggedOut \ contested : RowsOf(f) = {}

\* README.md:100, "Token rotation" and "Reuse Detection": however its queries
\* interleave with those of other families, fail and are repeated, a family no two
\* requests work on at one time is one chain of tokens that ends for good
\* (refresh-token.service.ts:142-160).
Standing(f) ==
  IF f \in contested THEN "contested"
  ELSE IF \A i \in Ids : familyOf[i] # f THEN "none"
  ELSE IF RowsOf(f) = {} THEN "ended"
  ELSE IF RowsOf(f) \cap revoked = {} THEN "live" ELSE "revoked"
Current(f) == IF f \in contested THEN {} ELSE RowsOf(f) \ (used \cup revoked)
Made(f) == IF f \in contested THEN {} ELSE {i \in Ids : familyOf[i] = f}
Sessions == INSTANCE Sessions WITH Tokens <- Ids,
                                   standing <- [f \in Families |-> Standing(f)],
                                   current <- [f \in Families |-> Current(f)],
                                   made <- [f \in Families |-> Made(f)]
ImplementsSessions == Sessions!Spec

\* README.md:100 as it stands: nothing makes the second of two refreshes that
\* both read used = false see what the first one wrote.
SingleUse ==
  \A r, s \in Requests : pc[r] = "markUsed" => <<s, tok[r]>> \notin accepted
=============================================================================
