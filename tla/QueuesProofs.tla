---------------------------- MODULE QueuesProofs ----------------------------
(***************************************************************************)
(* Proofs about the two components in which work waits in a queue for a    *)
(* resource that few have at a time: the requests of ConnectionPool, for   *)
(* pools and sets of requests of any size, and the jobs of EmailQueue, for *)
(* any jobs, processes and limit of stalls.  They share no state.          *)
(***************************************************************************)
EXTENDS EmailQueue, ConnectionPool, FiniteSetTheorems, TLAPS

-----------------------------------------------------------------------------
(* ConnectionPool                                                          *)

\* Everyone in the queue waits there once.
QueueFit ==
  /\ \A i \in 1..Len(queue) : phase[queue[i]] \in Waiting
  /\ \A i, j \in 1..Len(queue) : queue[i] = queue[j] => i = j

\* Only a request that accepts an invitation is past a first lease.
NestingFit ==
  \A r \in Requests :
    phase[r] \in {"nesting", "nested", "finishing"} => r \in Accepting

\* What a request holds, and that it holds it alone.
HeldFit ==
  \A r \in Requests :
    /\ client[r] # NoConnection <=> phase[r] \in Holding
    /\ extra[r] # NoConnection <=> phase[r] = "nested"
HeldAlone ==
  \A r, s \in Requests :
    /\ client[r] = client[s] /\ client[r] # NoConnection => r = s
    /\ client[r] # NoConnection => client[r] # extra[s]
    /\ extra[r] = extra[s] /\ extra[r] # NoConnection => r = s

PoolIInv == PoolTypeOK /\ QueueFit /\ NestingFit /\ HeldFit /\ HeldAlone

\* The inductive invariant holds initially.
LEMMA PoolInitInv == PoolInit => PoolIInv
BY ConnectionsFinite
   DEF PoolInit, PoolIInv, PoolTypeOK, QueueFit, NestingFit, HeldFit, HeldAlone, Waiting,
       Holding

\* A request that asks joins the end of the queue.
LEMMA AskInv ==
  ASSUME PoolIInv, NEW r \in Requests, NEW label \in Waiting, Ask(r, label),
         phase[r] \notin Waiting, phase[r] \in Holding <=> label = "nesting",
         phase[r] # "nested", label = "nesting" => r \in Accepting
  PROVE  PoolIInv'
<1> USE DEF PoolIInv, Ask, Waiting, Holding
<1>1. PoolTypeOK'
  BY DEF PoolTypeOK
<1>2. QueueFit'
  <2>1. /\ Len(queue') = Len(queue) + 1 /\ Len(queue) \in Nat
        /\ queue'[Len(queue) + 1] = r
        /\ \A i \in 1..Len(queue) : queue'[i] = queue[i] /\ queue[i] \in Requests
    BY DEF PoolTypeOK
  <2>2. \A i \in 1..Len(queue) : queue[i] # r
    BY DEF PoolTypeOK, QueueFit
  <2> QED
    BY <2>1, <2>2 DEF PoolTypeOK, QueueFit
<1>3. NestingFit'
  BY DEF PoolTypeOK, NestingFit
<1>4. HeldFit'
  BY DEF PoolTypeOK, HeldFit
<1>5. HeldAlone'
  BY DEF HeldAlone
<1> QED
  BY <1>1, <1>2, <1>3, <1>4, <1>5

\* The head of the queue leaves it with a free connection.
LEMMA GrantInv ==
  ASSUME PoolIInv, Grant
  PROVE  PoolIInv'
<1> DEFINE r == Head(queue)
<1>1. PICK c \in Free :
        IF phase[r] = "leasing"
        THEN /\ client' = [client EXCEPT ![r] = c]
             /\ phase' = [phase EXCEPT ![r] = "working"]
             /\ UNCHANGED extra
        ELSE /\ extra' = [extra EXCEPT ![r] = c]
             /\ phase' = [phase EXCEPT ![r] = "nested"]
             /\ UNCHANGED client
  BY DEF Grant
<1>2. /\ r = queue[1] /\ r \in Requests /\ phase[r] \in Waiting
      /\ queue # <<>> /\ queue' = Tail(queue) /\ Len(queue) \in Nat \ {0}
      /\ Len(queue') = Len(queue) - 1 /\ queue' \in Seq(Requests)
      /\ \A i \in 1..Len(queue') :
           queue'[i] = queue[i + 1] /\ queue[i + 1] \in Requests
  BY DEF Grant, PoolIInv, PoolTypeOK, QueueFit
<1>3. /\ c \in Connections /\ c # NoConnection
      /\ \A s \in Requests : client[s] # c /\ extra[s] # c
  BY <1>1, ConnectionsFinite DEF Free
<1> HIDE DEF r
<1>4. PoolTypeOK'
  BY <1>1, <1>2, <1>3 DEF PoolIInv, PoolTypeOK, Waiting, Holding
<1>5. QueueFit'
  <2>1. \A i \in 1..Len(queue') : queue'[i] # r
    BY <1>2 DEF PoolIInv, QueueFit
  <2> QED
    BY <1>1, <1>2, <2>1 DEF PoolIInv, PoolTypeOK, QueueFit
<1>6. NestingFit'
  BY <1>1, <1>2 DEF PoolIInv, PoolTypeOK, NestingFit, Waiting
<1>7. HeldFit'
  BY <1>1, <1>2, <1>3 DEF PoolIInv, PoolTypeOK, HeldFit, Waiting, Holding
<1>8. HeldAlone'
  BY <1>1, <1>2, <1>3 DEF PoolIInv, PoolTypeOK, HeldAlone
<1> QED
  BY <1>4, <1>5, <1>6, <1>7, <1>8 DEF PoolIInv

\* Every step preserves the inductive invariant.
LEMMA PoolStepInv == PoolIInv /\ [PoolNext]_poolVars => PoolIInv'
<1> SUFFICES ASSUME PoolIInv, [PoolNext]_poolVars PROVE PoolIInv'
  OBVIOUS
<1> USE DEF PoolIInv
<1>1. ASSUME NEW r \in Requests, Connect(r) PROVE PoolIInv'
  <2>1. phase[r] = "idle" /\ Ask(r, "leasing")
    BY <1>1 DEF Connect
  <2> QED
    BY <2>1, AskInv DEF Waiting, Holding
<1>2. ASSUME NEW r \in Requests, AddMember(r) PROVE PoolIInv'
  <2>1. phase[r] = "working" /\ r \in Accepting /\ Ask(r, "nesting")
    BY <1>2 DEF AddMember
  <2> QED
    BY <2>1, AskInv DEF Waiting, Holding
<1>3. ASSUME NEW r \in Requests, EndAddMember(r) PROVE PoolIInv'
  <2>1. PoolTypeOK' /\ NestingFit' /\ HeldFit' /\ HeldAlone'
    BY <1>3 DEF EndAddMember, PoolTypeOK, NestingFit, HeldFit, HeldAlone, Waiting,
                Holding
  <2>2. QueueFit'
    BY <1>3 DEF EndAddMember, PoolTypeOK, QueueFit, Waiting
  <2> QED
    BY <2>1, <2>2
<1>4. ASSUME NEW r \in Requests, Release(r) PROVE PoolIInv'
  <2>1. PoolTypeOK' /\ NestingFit' /\ HeldFit' /\ HeldAlone'
    BY <1>4 DEF Release, PoolTypeOK, NestingFit, HeldFit, HeldAlone, Waiting, Holding
  <2>2. QueueFit'
    BY <1>4 DEF Release, PoolTypeOK, QueueFit, Waiting
  <2> QED
    BY <2>1, <2>2
<1>5. CASE Grant
  BY <1>5, GrantInv
<1>6. CASE UNCHANGED poolVars
  BY <1>6 DEF poolVars, PoolTypeOK, QueueFit, NestingFit, HeldFit, HeldAlone
<1> QED
  BY <1>1, <1>2, <1>3, <1>4, <1>5, <1>6 DEF PoolNext, Proceed

\* The inductive invariant holds in every reachable state.
THEOREM PoolInvariance == PoolSpec => []PoolIInv
BY PoolInitInv, PoolStepInv, PTL DEF PoolSpec

\* PoolTypeOK holds in every reachable state.
THEOREM PoolTypeCorrect == PoolSpec => []PoolTypeOK
<1>1. PoolIInv => PoolTypeOK
  BY DEF PoolIInv
<1> QED
  BY <1>1, PoolInvariance, PTL

\* Connections are leased to one request at a time and given back.
THEOREM Leases == PoolSpec => []LeasesFit
<1>1. PoolIInv => LeasesFit
  BY DEF PoolIInv, LeasesFit, HeldFit, HeldAlone
<1> QED
  BY <1>1, PoolInvariance, PTL

\* With fewer accepting requests than connections, the leases of those that
\* wait for a second connection never use up the pool.
THEOREM EnoughConnections ==
  ASSUME IsFiniteSet(Accepting), Cardinality(Accepting) < Cardinality(Connections)
  PROVE  PoolSpec => []NeverStarved
<1>1. ASSUME PoolIInv, Free = {} PROVE \E r \in Requests :
                                   phase[r] \in {"working", "nested", "finishing"}
  <2>1. SUFFICES ASSUME \A r \in Requests :
                          phase[r] \notin {"working", "nested", "finishing"}
                 PROVE  FALSE
    OBVIOUS
  <2>2. \A c \in Connections : \E r \in Accepting : client[r] = c
    BY <1>1, <2>1, ConnectionsFinite, AcceptingRequests
       DEF PoolIInv, Free, HeldFit, NestingFit, Holding
  <2> DEFINE holder == [c \in Connections |-> CHOOSE r \in Accepting : client[r] = c]
  <2>3. \A c \in Connections : holder[c] \in Accepting /\ client[holder[c]] = c
    BY <2>2
  <2>4. holder \in [Connections -> Accepting]
    BY <2>3
  <2> HIDE DEF holder
  <2>5. \E x, y \in Connections : x # y /\ holder[x] = holder[y]
    BY <2>4, ConnectionsFinite, FS_PigeonHole
  <2> QED
    BY <2>3, <2>5
<1>2. PoolIInv => NeverStarved
  BY <1>1 DEF NeverStarved
<1> QED
  BY <1>2, PoolInvariance, PTL

-----------------------------------------------------------------------------
(* EmailQueue                                                              *)

\* A worker that is busy has an active job, which no other has.
Owned ==
  \A w \in Workers :
    IF pc[w] \in {"sending", "returned"}
    THEN /\ job[w] \in Jobs
         /\ state[job[w]] = "active"
         /\ \A v \in Workers : job[v] = job[w] => v = w
    ELSE job[w] = None

\* Before a job is run again, or run for the first time, it has brought no more
\* emails than it was put back times; a run that is over has sent one or failed.
Counted ==
  /\ \A j \in Jobs :
       /\ state[j] \in {"none", "delayed"} => mails[j] = 0
       /\ state[j] \in {"delayed", "waiting"} => mails[j] <= stalls[j]
  /\ \A w \in Workers :
       /\ pc[w] = "sending" => mails[job[w]] <= stalls[job[w]]
       /\ pc[w] = "returned" => mails[job[w]] > 0 \/ job[w] \in refused

IInv == TypeOK /\ Owned /\ Counted /\ MailsPerRun /\ LossHasCause

\* Every step keeps the types.
LEMMA TypeStep ==
  ASSUME TypeOK, Owned, [Next]_vars
  PROVE  TypeOK'
<1> USE Sentinel, MaxStallsAssumption DEF TypeOK, Owned, vars
<1>1. ASSUME NEW j \in Jobs, Add(j) PROVE TypeOK'
  BY <1>1 DEF Add, Become
<1>2. ASSUME NEW j \in Jobs, DelayOver(j) PROVE TypeOK'
  BY <1>2 DEF DelayOver, Become
<1>3. ASSUME NEW j \in Jobs, Stalled(j) PROVE TypeOK'
  BY <1>3 DEF Stalled, Become
<1>4. ASSUME NEW w \in Workers, Take(w) PROVE TypeOK'
  BY <1>4 DEF Take, TakeTo, Become, Goto
<1>5. ASSUME NEW w \in Workers, SendOk(w) PROVE TypeOK'
  BY <1>5 DEF SendOk, Goto
<1>6. ASSUME NEW w \in Workers, SendFails(w) PROVE TypeOK'
  BY <1>6 DEF SendFails, Goto
<1>7. ASSUME NEW w \in Workers, Complete(w) PROVE TypeOK'
  BY <1>7 DEF Complete, Become, Goto
<1>8. ASSUME NEW w \in Workers, Crash(w) PROVE TypeOK'
  BY <1>8 DEF Crash, Goto
<1>9. ASSUME NEW w \in Workers, Restart(w) PROVE TypeOK'
  BY <1>9 DEF Restart, Goto
<1>10. CASE UNCHANGED vars
  BY <1>10
<1> QED
  BY <1>1, <1>2, <1>3, <1>4, <1>5, <1>6, <1>7, <1>8, <1>9, <1>10 DEF Next, Send

\* Jobs are taken from the queue alone.
LEMMA OwnedStep ==
  ASSUME TypeOK, Owned, [Next]_vars
  PROVE  Owned'
<1> USE Sentinel, MaxStallsAssumption DEF TypeOK, Owned, vars
<1>1. ASSUME NEW j \in Jobs, Add(j) PROVE Owned'
  BY <1>1 DEF Add, Become
<1>2. ASSUME NEW j \in Jobs, DelayOver(j) PROVE Owned'
  BY <1>2 DEF DelayOver, Become
<1>3. ASSUME NEW j \in Jobs, Stalled(j) PROVE Owned'
  BY <1>3 DEF Stalled, Become
<1>4. ASSUME NEW w \in Workers, Take(w) PROVE Owned'
  BY <1>4 DEF Take, TakeTo, Become, Goto
<1>5. ASSUME NEW w \in Workers, SendOk(w) PROVE Owned'
  BY <1>5 DEF SendOk, Goto
<1>6. ASSUME NEW w \in Workers, SendFails(w) PROVE Owned'
  BY <1>6 DEF SendFails, Goto
<1>7. ASSUME NEW w \in Workers, Complete(w) PROVE Owned'
  BY <1>7 DEF Complete, Become, Goto
<1>8. ASSUME NEW w \in Workers, Crash(w) PROVE Owned'
  BY <1>8 DEF Crash, Goto
<1>9. ASSUME NEW w \in Workers, Restart(w) PROVE Owned'
  BY <1>9 DEF Restart, Goto
<1>10. CASE UNCHANGED vars
  BY <1>10
<1> QED
  BY <1>1, <1>2, <1>3, <1>4, <1>5, <1>6, <1>7, <1>8, <1>9, <1>10 DEF Next, Send

\* A run sends once.
LEMMA CountedStep ==
  ASSUME TypeOK, Owned, Counted, MailsPerRun, [Next]_vars
  PROVE  Counted'
<1> USE Sentinel, MaxStallsAssumption DEF TypeOK, Owned, Counted, MailsPerRun, vars
<1>1. ASSUME NEW j \in Jobs, Add(j) PROVE Counted'
  BY <1>1 DEF Add, Become
<1>2. ASSUME NEW j \in Jobs, DelayOver(j) PROVE Counted'
  BY <1>2 DEF DelayOver, Become
<1>3. ASSUME NEW j \in Jobs, Stalled(j) PROVE Counted'
  BY <1>3 DEF Stalled, Become
<1>4. ASSUME NEW w \in Workers, Take(w) PROVE Counted'
  BY <1>4 DEF Take, TakeTo, Become, Goto
<1>5. ASSUME NEW w \in Workers, SendOk(w) PROVE Counted'
  BY <1>5 DEF SendOk, Goto
<1>6. ASSUME NEW w \in Workers, SendFails(w) PROVE Counted'
  BY <1>6 DEF SendFails, Goto
<1>7. ASSUME NEW w \in Workers, Complete(w) PROVE Counted'
  BY <1>7 DEF Complete, Become, Goto
<1>8. ASSUME NEW w \in Workers, Crash(w) PROVE Counted'
  BY <1>8 DEF Crash, Goto
<1>9. ASSUME NEW w \in Workers, Restart(w) PROVE Counted'
  BY <1>9 DEF Restart, Goto
<1>10. CASE UNCHANGED vars
  BY <1>10
<1> QED
  BY <1>1, <1>2, <1>3, <1>4, <1>5, <1>6, <1>7, <1>8, <1>9, <1>10 DEF Next, Send

\* No run sends more.
LEMMA MailsStep ==
  ASSUME TypeOK, Owned, Counted, MailsPerRun, [Next]_vars
  PROVE  MailsPerRun'
<1> USE Sentinel, MaxStallsAssumption DEF TypeOK, Owned, Counted, MailsPerRun, vars
<1>1. ASSUME NEW j \in Jobs, Add(j) PROVE MailsPerRun'
  BY <1>1 DEF Add, Become
<1>2. ASSUME NEW j \in Jobs, DelayOver(j) PROVE MailsPerRun'
  BY <1>2 DEF DelayOver, Become
<1>3. ASSUME NEW j \in Jobs, Stalled(j) PROVE MailsPerRun'
  BY <1>3 DEF Stalled, Become
<1>4. ASSUME NEW w \in Workers, Take(w) PROVE MailsPerRun'
  BY <1>4 DEF Take, TakeTo, Become, Goto
<1>5. ASSUME NEW w \in Workers, SendOk(w) PROVE MailsPerRun'
  BY <1>5 DEF SendOk, Goto
<1>6. ASSUME NEW w \in Workers, SendFails(w) PROVE MailsPerRun'
  BY <1>6 DEF SendFails, Goto
<1>7. ASSUME NEW w \in Workers, Complete(w) PROVE MailsPerRun'
  BY <1>7 DEF Complete, Become, Goto
<1>8. ASSUME NEW w \in Workers, Crash(w) PROVE MailsPerRun'
  BY <1>8 DEF Crash, Goto
<1>9. ASSUME NEW w \in Workers, Restart(w) PROVE MailsPerRun'
  BY <1>9 DEF Restart, Goto
<1>10. CASE UNCHANGED vars
  BY <1>10
<1> QED
  BY <1>1, <1>2, <1>3, <1>4, <1>5, <1>6, <1>7, <1>8, <1>9, <1>10 DEF Next, Send

\* No run ends with less.
LEMMA LossStep ==
  ASSUME TypeOK, Owned, Counted, LossHasCause, [Next]_vars
  PROVE  LossHasCause'
<1> USE Sentinel, MaxStallsAssumption DEF TypeOK, Owned, Counted, LossHasCause, vars
<1>1. ASSUME NEW j \in Jobs, Add(j) PROVE LossHasCause'
  BY <1>1 DEF Add, Become
<1>2. ASSUME NEW j \in Jobs, DelayOver(j) PROVE LossHasCause'
  BY <1>2 DEF DelayOver, Become
<1>3. ASSUME NEW j \in Jobs, Stalled(j) PROVE LossHasCause'
  BY <1>3 DEF Stalled, Become
<1>4. ASSUME NEW w \in Workers, Take(w) PROVE LossHasCause'
  BY <1>4 DEF Take, TakeTo, Become, Goto
<1>5. ASSUME NEW w \in Workers, SendOk(w) PROVE LossHasCause'
  BY <1>5 DEF SendOk, Goto
<1>6. ASSUME NEW w \in Workers, SendFails(w) PROVE LossHasCause'
  BY <1>6 DEF SendFails, Goto
<1>7. ASSUME NEW w \in Workers, Complete(w) PROVE LossHasCause'
  BY <1>7 DEF Complete, Become, Goto
<1>8. ASSUME NEW w \in Workers, Crash(w) PROVE LossHasCause'
  BY <1>8 DEF Crash, Goto
<1>9. ASSUME NEW w \in Workers, Restart(w) PROVE LossHasCause'
  BY <1>9 DEF Restart, Goto
<1>10. CASE UNCHANGED vars
  BY <1>10
<1> QED
  BY <1>1, <1>2, <1>3, <1>4, <1>5, <1>6, <1>7, <1>8, <1>9, <1>10 DEF Next, Send
\* The inductive invariant holds initially.
LEMMA InitInv == Init => IInv
BY Sentinel, MaxStallsAssumption
   DEF Init, IInv, TypeOK, Owned, Counted, MailsPerRun, LossHasCause

\* Every step preserves it.
LEMMA StepInv == IInv /\ [Next]_vars => IInv'
BY TypeStep, OwnedStep, CountedStep, MailsStep, LossStep DEF IInv

\* The inductive invariant holds in every reachable state.
THEOREM Invariance == Spec => []IInv
BY InitInv, StepInv, PTL DEF Spec

\* Every variable keeps its shape; no job is put back more often than BullMQ
\* allows.
THEOREM TypeCorrect == Spec => []TypeOK
<1>1. IInv => TypeOK
  BY DEF IInv
<1> QED
  BY <1>1, Invariance, PTL

\* However often the provider's answers are lost, an invitation is mailed once
\* more than its process died under it, at most.
THEOREM OneMailPerRun == Spec => []MailsPerRun
<1>1. IInv => MailsPerRun
  BY DEF IInv
<1> QED
  BY <1>1, Invariance, PTL

\* An email is lost only to a refusal or to repeated crashes.
THEOREM LossesHaveCauses == Spec => []LossHasCause
<1>1. IInv => LossHasCause
  BY DEF IInv
<1> QED
  BY <1>1, Invariance, PTL

\* Every step asks for one mail, brings one, or is not seen by Mail.
LEMMA MailStep ==
  ASSUME IInv, [Next]_vars
  PROVE  [Mail!Next]_(Mail!vars)
<1> USE DEF IInv, TypeOK, Owned, Mail!vars
<1>1. ASSUME NEW j \in Jobs, Add(j) PROVE Mail!Ask(j)
  BY <1>1 DEF Add, Become, Mail!Ask
<1>2. ASSUME NEW w \in Workers, Send(w)
      PROVE  (\E j \in Jobs : Mail!Arrive(j)) \/ UNCHANGED Mail!vars
  <2>1. pc[w] = "sending" /\ UNCHANGED state
    BY <1>2 DEF Send, SendOk, SendFails
  <2>2. PICK j \in Jobs : job[w] = j /\ state[j] = "active"
    BY <2>1
  <2>3. mails' = mails \/ mails' = [mails EXCEPT ![j] = @ + 1]
    BY <1>2, <2>2 DEF Send, SendOk, SendFails
  <2>4. CASE mails' = mails
    BY <2>1, <2>4
  <2>5. CASE mails' = [mails EXCEPT ![j] = @ + 1]
    <3>1. {i \in Jobs : mails'[i] > 0} = {i \in Jobs : mails[i] > 0} \cup {j}
      BY <2>2, <2>5
    <3>2. Mail!Arrive(j) \/ UNCHANGED Mail!vars
      BY <2>1, <2>2, <3>1 DEF Mail!Arrive
    <3> QED
      BY <3>2
  <2> QED
    BY <2>3, <2>4, <2>5
<1>3. ASSUME NEW j \in Jobs, DelayOver(j) \/ Stalled(j) PROVE UNCHANGED Mail!vars
  BY <1>3 DEF DelayOver, Stalled, Become
<1>4. ASSUME NEW w \in Workers, Take(w) \/ Complete(w) PROVE UNCHANGED Mail!vars
  <2>1. PICK j \in Jobs, l \in {"active", "gone"} :
          state[j] # "none" /\ state' = [state EXCEPT ![j] = l]
    BY <1>4 DEF Take, TakeTo, Complete, Become
  <2>2. mails' = mails
    BY <1>4 DEF Take, TakeTo, Complete
  <2> QED
    BY <2>1, <2>2
<1>5. ASSUME NEW w \in Workers, Crash(w) \/ Restart(w) PROVE UNCHANGED Mail!vars
  BY <1>5 DEF Crash, Restart
<1>6. CASE UNCHANGED vars
  BY <1>6 DEF vars
<1> HIDE DEF IInv, TypeOK, Owned, Mail!vars
<1> QED
  BY <1>1, <1>2, <1>3, <1>4, <1>5, <1>6 DEF Next, Mail!Next

\* The queue keeps what Invitations relies on, crashes and lost answers included.
THEOREM QueueImplementsMail == Spec => ImplementsMail
<1>1. Init => Mail!Init
  BY DEF Init, Mail!Init
<1> QED
  BY <1>1, MailStep, Invariance, PTL DEF Spec, ImplementsMail, Mail!Spec
=============================================================================
