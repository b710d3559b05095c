--------------------------- MODULE ConnectionPool ---------------------------
(***************************************************************************)
(* How requests lease the connections of the one pg.Pool of DatabaseModule: *)
(* pool.query leases one for a query, TransactionService.run holds one from *)
(* BEGIN to COMMIT or ROLLBACK, and acceptInvitation, inside a transaction, *)
(* calls addMember without the client, so on a second connection.          *)
(*                                                                         *)
(* The pool hands connections out in the order they were asked for, and    *)
(* DatabaseModule sets no connectionTimeoutMillis: who asks waits.         *)
(***************************************************************************)
EXTENDS Sequences, FiniteSets

CONSTANTS Connections,  \* max of the Pool (pg's default is 10)
          Requests,
          Accepting,    \* the requests that run acceptInvitation
          NoConnection

ASSUME ConnectionsFinite == IsFiniteSet(Connections) /\ NoConnection \notin Connections
ASSUME AcceptingRequests == Accepting \subseteq Requests

VARIABLES
  phase,   \* what a request is doing
  queue,   \* requests waiting for a connection, oldest first
  client,  \* connection leased by run, or by a plain query
  extra    \* connection leased by addMember inside a transaction
poolVars == <<phase, queue, client, extra>>

Free == {c \in Connections : \A r \in Requests : client[r] # c /\ extra[r] # c}

PoolInit ==
  /\ phase = [r \in Requests |-> "idle"]
  /\ queue = <<>>
  /\ client = [r \in Requests |-> NoConnection]
  /\ extra = [r \in Requests |-> NoConnection]

\* A request queues up for a connection.
Ask(r, label) ==
  /\ phase' = [phase EXCEPT ![r] = label]
  /\ queue' = Append(queue, r)
  /\ UNCHANGED <<client, extra>>

\* pool.connect of a transaction, or of a single pool.query.
Connect(r) == phase[r] = "idle" /\ Ask(r, "leasing")

\* The pool serves the head of the queue.
Grant ==
  /\ queue # <<>>
  /\ queue' = Tail(queue)
  /\ \E c \in Free :
       LET r == Head(queue) IN
       IF phase[r] = "leasing"
       THEN /\ client' = [client EXCEPT ![r] = c]
            /\ phase' = [phase EXCEPT ![r] = "working"]
            /\ UNCHANGED extra
       ELSE /\ extra' = [extra EXCEPT ![r] = c]
            /\ phase' = [phase EXCEPT ![r] = "nested"]
            /\ UNCHANGED client

\* Mutant: changeOwner and createWorkspace forget to pass their client, too.
EveryoneNests(r) == phase[r] = "working" /\ Ask(r, "nesting")

\* addMember(workspaceId, userId, 'member'): its client defaults to the pool.
AddMember(r) ==
  /\ r \in Accepting
  /\ phase[r] = "working"
  /\ Ask(r, "nesting")

\* The INSERT is over, with or without an error; its connection goes back.
EndAddMember(r) ==
  /\ phase[r] = "nested"
  /\ extra' = [extra EXCEPT ![r] = NoConnection]
  /\ phase' = [phase EXCEPT ![r] = "finishing"]
  /\ UNCHANGED <<queue, client>>

\* Mutant: the finally block is gone; an error skips release().
LeakOnError(r) ==
  /\ phase[r] \in {"working", "finishing"}
  /\ \/ client' = [client EXCEPT ![r] = NoConnection]
     \/ UNCHANGED client
  /\ phase' = [phase EXCEPT ![r] = "idle"]
  /\ UNCHANGED <<queue, extra>>

\* Mutant: an error runs the work once more, on the same client.
RetryOnError(r) ==
  /\ phase[r] \in {"working", "finishing"}
  /\ \/ /\ client' = [client EXCEPT ![r] = NoConnection]
        /\ phase' = [phase EXCEPT ![r] = "idle"]
     \/ /\ phase' = [phase EXCEPT ![r] = "working"]
        /\ UNCHANGED client
  /\ UNCHANGED <<queue, extra>>

\* COMMIT, or ROLLBACK after any error (BEGIN's too), and in both cases the
\* release of the finally block; or the end of a plain query.
Release(r) ==
  /\ phase[r] \in {"working", "finishing"}
  /\ client' = [client EXCEPT ![r] = NoConnection]
  /\ phase' = [phase EXCEPT ![r] = "idle"]
  /\ UNCHANGED <<queue, extra>>

Proceed(r) == AddMember(r) \/ EndAddMember(r) \/ Release(r)

PoolNext == Grant \/ \E r \in Requests : Connect(r) \/ Proceed(r)

PoolSpec == PoolInit /\ [][PoolNext]_poolVars

\* The pool hands over a free connection, and queries end.
FairPoolSpec == PoolSpec /\ WF_poolVars(Grant) /\ \A r \in Requests : WF_poolVars(Proceed(r))

-----------------------------------------------------------------------------
Waiting == {"leasing", "nesting"}
Holding == {"working", "nesting", "nested", "finishing"}

\* The shape of every variable.
PoolTypeOK ==
  /\ phase \in [Requests -> {"idle"} \cup Waiting \cup Holding]
  /\ queue \in Seq(Requests)
  /\ client \in [Requests -> Connections \cup {NoConnection}]
  /\ extra \in [Requests -> Connections \cup {NoConnection}]

\* A connection is held from its lease to the end of the work, on every path
\* out of it, and by one request (Transaction.service.ts:10-21).
LeasesFit ==
  /\ \A r \in Requests :
       /\ client[r] # NoConnection <=> phase[r] \in Holding
       /\ extra[r] # NoConnection <=> phase[r] = "nested"
  /\ \A r, s \in Requests :
       /\ client[r] = client[s] /\ client[r] # NoConnection => r = s
       /\ client[r] # NoConnection => client[r] # extra[s]

\* When every connection is leased, somebody who has one can go on: not all of
\* them wait for a second one (invitation.service.ts:243-244).
NeverStarved ==
  Free = {} => \E r \in Requests : phase[r] \in {"working", "nested", "finishing"}

\* README.md:110, "seamless client connection leasing": who asks for a
\* connection gets it and is done with it some time.
Answered == \A r \in Requests : phase[r] # "idle" ~> phase[r] = "idle"
=============================================================================
