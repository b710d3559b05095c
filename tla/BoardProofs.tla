---------------------------- MODULE BoardProofs ----------------------------
(***************************************************************************)
(* Proofs about Board, for any workspaces, projects, tasks, texts and      *)
(* requests.                                                               *)
(*                                                                         *)
(* Why a request stays in its workspace, though it writes by id: what its  *)
(* SELECT found once stays true, since a row never changes its parent and  *)
(* an id is never used again (Located).  The same makes what a room is     *)
(* told final: what was said, or is about to be, of a row that has been    *)
(* there is so for good (StaysAnnounced, Truthful).                        *)
(***************************************************************************)
EXTENDS Board, TLAPS

\* A row that is there, or has been.
Born(i) == i \in Workspaces \/ parent[i] # None

\* A row has always had a parent of its kind, and so has that parent.
ParentsFit ==
  /\ \A p \in Projects : parent[p] \in Workspaces \cup {None}
  /\ \A t \in Tasks : parent[t] # None =>
       parent[t] \in Projects /\ parent[parent[t]] \in Workspaces
  /\ \A i \in present : Born(i)

\* What a request knows of its row by the step it is at.
Knows(r) ==
  LET q == req[r] IN
  /\ pc[r] = "find" => q.verb # "none" /\ q.ws \in Workspaces
  /\ pc[r] = "find" /\ q.verb = "create" => q.into \in Projects
  /\ pc[r] = "find" /\ q.verb # "create" => q.item \in Items
  /\ pc[r] = "insert" =>
       /\ q.ws \in Workspaces /\ q.into \in Parents
       /\ q.into \in Workspaces => q.into = q.ws
       /\ q.into \in Projects => parent[q.into] = q.ws
  /\ pc[r] = "readRole" => q.item \in Tasks
  /\ pc[r] = "update" => q.item \in Items
  /\ pc[r] \in {"readRole", "update", "delete", "emit"} =>
       /\ q.ws \in Workspaces /\ q.item \in Rows
       /\ Born(q.item) /\ WorkspaceOf(q.item) = q.ws
Located == \A r \in Requests : Knows(r)

IInv == TypeOK /\ NoOrphans /\ ParentsFit /\ Located

\* A deletion about to be told is one that was done, and none is told of a row
\* that has never been there.
Truthful ==
  /\ \A r \in Requests : pc[r] = "emit" /\ reply[r] \in Rows =>
       reply[r] = req[r].item /\ reply[r] \notin present
  /\ \A w \in Workspaces, i \in Rows : Event(i, i) \in told[w] => Born(i)

RoomInv == NothingUnsaid /\ DeletionsAreTrue /\ Truthful

-----------------------------------------------------------------------------
\* The invariant holds initially.
LEMMA Initially == Init => IInv
  BY Sentinel, KindsDiffer
  DEF Init, IInv, TypeOK, NoOrphans, ParentsFit, Born, Located, Knows, Asked, Replies,
      Labels, Idle, Rows, Items, Parents

\* Parents are never changed once they are set.
Extends == \A i \in Items : parent[i] # None => parent'[i] = parent[i]

\* A row that has been there stays in its workspace.
LEMMA WorkspaceKept ==
  ASSUME ParentsFit, Extends, NEW i \in Rows, Born(i)
  PROVE  WorkspaceOf(i)' = WorkspaceOf(i) /\ Born(i)'
  BY Sentinel, KindsDiffer DEF ParentsFit, Extends, Born, WorkspaceOf, Rows, Items

\* What a request knows does not depend on what others do.
LEMMA StillKnows ==
  ASSUME TypeOK, ParentsFit, Extends, NEW s \in Requests, Knows(s),
         pc'[s] = pc[s], req'[s] = req[s]
  PROVE  Knows(s)'
<1>1. req[s] \in Asked  BY DEF TypeOK
<1>2. \A i \in Rows : Born(i) => WorkspaceOf(i)' = WorkspaceOf(i) /\ Born(i)'
  BY WorkspaceKept
<1>3. \A p \in Projects, w \in Workspaces : parent[p] = w => parent'[p] = w
  BY Sentinel DEF Extends, Rows, Items
<1>. QED  BY <1>1, <1>2, <1>3 DEF Knows

\* A request that is over knows nothing and has nothing to know.
LEMMA Over ==
  ASSUME TypeOK, NEW r \in Requests, Finish(r)
  PROVE  /\ pc'[r] = "idle" /\ reply'[r] = None
         /\ \A s \in Requests \ {r} : /\ pc'[s] = pc[s] /\ req'[s] = req[s]
                                      /\ reply'[s] = reply[s]
         /\ Knows(r)'
         /\ pc' \in [Requests -> Labels] /\ req' \in [Requests -> Asked]
         /\ reply' \in [Requests -> Replies]
  BY DEF Finish, Goto, TypeOK, Knows, Asked, Replies, Labels, Idle

\* Enough for the step of one request that leaves the table alone.
LEMMA Reading ==
  ASSUME IInv, NEW r \in Requests, UNCHANGED table, Knows(r)',
         \A s \in Requests \ {r} : pc'[s] = pc[s] /\ req'[s] = req[s]
  PROVE  NoOrphans' /\ ParentsFit' /\ Located'
<1>1. NoOrphans' /\ ParentsFit'
  BY DEF IInv, table, NoOrphans, ParentsFit, Born
<1>2. Extends  BY DEF table, Extends
<1>3. ASSUME NEW s \in Requests \ {r} PROVE Knows(s)'
  BY <1>2, <1>3, StillKnows DEF IInv, Located
<1>. QED  BY <1>1, <1>3 DEF Located

-----------------------------------------------------------------------------
(* One lemma for every step of a request.                                  *)

\* A request learns from its route what it has to know.
LEMMA ArriveKeeps ==
  ASSUME IInv, NEW r \in Requests, Arrive(r) PROVE IInv'
<1> USE Sentinel, KindsDiffer DEF Rows, Items, Parents
<1>1. PICK q \in Routes : req' = [req EXCEPT ![r] = q] /\ Goto(r, FirstStep(q))
  BY DEF Arrive
<1>2. q \in Asked /\ q.ws \in Workspaces /\ q.verb # "none"
  BY DEF Routes, Asked
<1>3. \/ /\ q.verb = "create" /\ q.into \in Parents /\ q.item = None
         /\ q.into \in Workspaces => q.into = q.ws
      \/ /\ q.verb # "create" /\ q.item \in Rows /\ q.into = None
         /\ q.item \in Workspaces => q.item = q.ws
  BY DEF Routes
<1>4. req'[r] = q /\ pc'[r] = FirstStep(q) /\ FirstStep(q) \in Labels
  BY <1>1 DEF Goto, IInv, TypeOK, FirstStep, Labels
<1>5. Knows(r)'
  BY <1>2, <1>3, <1>4 DEF Knows, FirstStep, Born, WorkspaceOf
<1>6. TypeOK'
  <2> HIDE DEF FirstStep
  <2>. QED  BY <1>1, <1>2, <1>4 DEF Arrive, IInv, TypeOK, table, Goto
<1>7. \A s \in Requests \ {r} : pc'[s] = pc[s] /\ req'[s] = req[s]
  BY <1>1 DEF Goto, IInv, TypeOK
<1>. QED  BY <1>5, <1>6, <1>7, Reading DEF IInv, Arrive

\* Where a request goes from the SELECT that found its row.
FoundStep(q) ==
  CASE q.verb = "create" -> "insert"
    [] q.verb = "delete" -> "delete"
    [] q.verb = "update" /\ q.item \in Projects -> "update"
    [] q.verb = "update" /\ q.item \in Tasks -> "readRole"

\* The SELECT tells where the row is.
LEMMA FindKeeps ==
  ASSUME IInv, NEW r \in Requests, Find(r) PROVE IInv'
<1> USE Sentinel, KindsDiffer DEF Rows, Items, Parents
<1> DEFINE q == req[r]
           i == IF q.verb = "create" THEN q.into ELSE q.item
<1>1. q \in Asked /\ Knows(r) /\ pc[r] = "find"
  BY DEF IInv, TypeOK, Located, Find
<1>2. CASE InWorkspace(i, q.ws)
  <2>1. UNCHANGED <<table, told, unsaid, locals>> /\ Goto(r, FoundStep(q))
    BY <1>2 DEF Find, FoundStep
  <2>2. i \in Items /\ Born(i) /\ WorkspaceOf(i) = q.ws
    BY <1>1, <1>2 DEF InWorkspace, Knows, IInv, ParentsFit
  <2>3. pc'[r] = FoundStep(q) /\ req'[r] = q /\ UNCHANGED parent
    BY <2>1 DEF Goto, IInv, TypeOK, locals, table
  <2>4. Knows(r)'
    <3>1. CASE q.verb = "create"
      <4>1. FoundStep(q) = "insert"
        BY <3>1 DEF FoundStep
      <4>2. parent[q.into] = q.ws /\ q.into \in Projects /\ q.ws \in Workspaces
        BY <1>1, <2>2, <3>1 DEF Knows, WorkspaceOf
      <4>. QED  BY <2>3, <4>1, <4>2 DEF Knows
    <3>2. CASE q.verb \in {"delete", "update"}
      <4>1. /\ FoundStep(q) \in {"delete", "update", "readRole"}
            /\ FoundStep(q) = "readRole" => q.item \in Tasks
        BY <1>1, <2>2, <3>2 DEF FoundStep
      <4>2. q.item \in Items /\ q.ws \in Workspaces /\ Born(q.item)'
        BY <1>1, <2>2, <2>3, <3>2 DEF Knows, Born
      <4>3. WorkspaceOf(q.item)' = q.ws
        BY <2>2, <2>3, <3>2 DEF WorkspaceOf
      <4>. QED  BY <2>3, <4>1, <4>2, <4>3 DEF Knows
    <3>. QED  BY <1>1, <3>1, <3>2 DEF Knows, Asked
  <2>5. FoundStep(q) \in Labels
    BY <1>1, <2>2 DEF FoundStep, Knows, Asked, Labels
  <2>6. TypeOK'
    BY <2>1, <2>5 DEF IInv, TypeOK, table, locals, Goto
  <2>7. \A s \in Requests \ {r} : pc'[s] = pc[s] /\ req'[s] = req[s]
    BY <2>1 DEF Goto, IInv, TypeOK, locals
  <2>. QED  BY <2>1, <2>4, <2>6, <2>7, Reading DEF IInv
<1>3. CASE ~InWorkspace(i, q.ws)
  <2>1. Finish(r) /\ UNCHANGED <<table, told, unsaid>>
    BY <1>3 DEF Find
  <2>2. TypeOK'
    BY <2>1, Over DEF IInv, TypeOK, table
  <2>. QED  BY <2>1, <2>2, Over, Reading DEF IInv
<1>. QED  BY <1>2, <1>3

\* Reading a role changes no row.
LEMMA ReadRoleKeeps ==
  ASSUME IInv, NEW r \in Requests, ReadRole(r) PROVE IInv'
<1> USE Sentinel, KindsDiffer DEF Rows, Items, Parents
<1>0. UNCHANGED <<table, told, unsaid>> /\ pc[r] = "readRole"
  BY DEF ReadRole
<1>1. CASE Finish(r)
  <2>1. TypeOK'
    BY <1>0, <1>1, Over DEF IInv, TypeOK, table
  <2>. QED  BY <1>0, <1>1, <2>1, Over, Reading DEF IInv
<1>2. CASE ~Finish(r)
  <2>1. Goto(r, "update") /\ UNCHANGED locals
    BY <1>2 DEF ReadRole
  <2>2. TypeOK'
    BY <1>0, <2>1 DEF IInv, TypeOK, table, locals, Goto, Labels
  <2>3. /\ \A s \in Requests \ {r} : pc'[s] = pc[s] /\ req'[s] = req[s]
        /\ pc'[r] = "update" /\ req'[r] = req[r] /\ UNCHANGED parent
    BY <1>0, <2>1 DEF Goto, IInv, TypeOK, locals, table
  <2>4. Knows(r)'
    BY <1>0, <2>3 DEF IInv, Located, Knows, WorkspaceOf, Born
  <2>. QED  BY <1>0, <2>2, <2>3, <2>4, Reading DEF IInv
<1>. QED  BY <1>1, <1>2

\* A new row gets a parent that is there.
LEMMA InsertKeeps ==
  ASSUME IInv, NEW r \in Requests, Insert(r) PROVE IInv'
<1> USE Sentinel, KindsDiffer DEF Rows, Items, Parents
<1>0. /\ req[r] \in Asked /\ Knows(r) /\ pc[r] = "insert"
      /\ UNCHANGED <<told, unsaid>>
  BY DEF IInv, TypeOK, Located, Insert
<1>1. CASE req[r].into \in present
  <2>1. PICK i \in Items, v \in Texts :
          /\ parent[i] = None /\ (i \in Tasks <=> req[r].into \in Projects)
          /\ present' = present \cup {i}
          /\ parent' = [parent EXCEPT ![i] = req[r].into]
          /\ text' = [text EXCEPT ![i] = v]
          /\ req' = [req EXCEPT ![r].item = i]
          /\ reply' = [reply EXCEPT ![r] = v]
          /\ Goto(r, "emit")
    BY <1>1 DEF Insert, NewRow
  <2>2. req[r].into \in IF i \in Tasks THEN Projects ELSE Workspaces
    BY <1>0, <2>1 DEF Knows
  <2>3. parent'[i] = req[r].into /\ \A j \in Items \ {i} : parent'[j] = parent[j]
    BY <2>1 DEF IInv, TypeOK
  <2>4. Extends
    BY <2>1, <2>3 DEF Extends
  <2>5. /\ req'[r].item = i /\ req'[r].ws = req[r].ws /\ pc'[r] = "emit"
        /\ req' \in [Requests -> Asked]
        /\ \A s \in Requests \ {r} : pc'[s] = pc[s] /\ req'[s] = req[s]
    <3> DEFINE q == [req[r] EXCEPT !.item = i]
    <3>1. req' = [req EXCEPT ![r] = q] /\ pc' = [pc EXCEPT ![r] = "emit"]
      BY <2>1 DEF Goto
    <3>2. q \in Asked /\ q.item = i /\ q.ws = req[r].ws
      BY <1>0, <2>1 DEF Asked
    <3> HIDE DEF q
    <3>. QED  BY <3>1, <3>2 DEF IInv, TypeOK
  <2>6. TypeOK'
    <3>1. /\ parent' \in [Items -> Parents \cup {None}]
          /\ \A j \in present' \cap Items :
               parent'[j] \in IF j \in Tasks THEN Projects ELSE Workspaces
      BY <2>1, <2>2, <2>3 DEF IInv, TypeOK
    <3>2. /\ present' \subseteq Rows /\ text' \in [Items -> Texts \cup {None}]
          /\ \A j \in present' \cap Items : text'[j] \in Texts
      BY <2>1 DEF IInv, TypeOK
    <3>3. pc' \in [Requests -> Labels] /\ reply' \in [Requests -> Replies]
      BY <2>1 DEF Goto, IInv, TypeOK, Labels, Replies
    <3>. QED  BY <1>0, <2>5, <3>1, <3>2, <3>3 DEF IInv, TypeOK
  <2>7. NoOrphans'
    BY <1>1, <2>1, <2>3 DEF IInv, TypeOK, NoOrphans
  <2>8. ParentsFit'
    <3>1. i \in Tasks => parent[req[r].into] \in Workspaces /\ req[r].into # i
      BY <1>0, <2>1, <2>2 DEF Knows
    <3>2. \A t \in Tasks : parent[t] # i
      BY <2>1 DEF IInv, ParentsFit
    <3>. QED  BY <2>1, <2>2, <2>3, <3>1, <3>2 DEF IInv, ParentsFit, Born
  <2>9. WorkspaceOf(i)' = req[r].ws /\ req[r].ws \in Workspaces
    <3>1. i \in Tasks => req[r].into # i
      BY <2>2
    <3>. QED  BY <1>0, <2>2, <2>3, <3>1 DEF WorkspaceOf, Knows
  <2>10. Located'
    <3>1. Knows(r)'
      BY <2>2, <2>3, <2>5, <2>9 DEF Knows, Born
    <3>2. \A s \in Requests \ {r} : Knows(s)'
      BY <2>4, <2>5, StillKnows DEF IInv, Located
    <3>. QED  BY <3>1, <3>2 DEF Located
  <2>. QED  BY <2>6, <2>7, <2>8, <2>10 DEF IInv
<1>2. CASE req[r].into \notin present
  <2>1. Finish(r) /\ UNCHANGED <<table, told, unsaid>>
    BY <1>2 DEF Insert
  <2>2. TypeOK'
    BY <2>1, Over DEF IInv, TypeOK, table
  <2>. QED  BY <2>1, <2>2, Over, Reading DEF IInv
<1>. QED  BY <1>1, <1>2

\* An UPDATE moves no row.
LEMMA UpdateKeeps ==
  ASSUME IInv, NEW r \in Requests, Update(r) PROVE IInv'
<1> USE Sentinel, KindsDiffer DEF Rows, Items, Parents
<1>1. UNCHANGED <<present, parent, told, unsaid, req>> /\ pc[r] = "update"
  BY DEF Update
<1>2. /\ pc'[r] = "emit" /\ \A s \in Requests \ {r} : pc'[s] = pc[s]
      /\ pc' \in [Requests -> Labels]
  BY DEF Update, Goto, IInv, TypeOK, Labels
<1>3. TypeOK'
  <2>1. /\ text' \in [Items -> Texts \cup {None}]
        /\ \A i \in present \cap Items : text'[i] \in Texts
        /\ reply' \in [Requests -> Replies]
    BY DEF Update, IInv, TypeOK, Replies
  <2>. QED  BY <1>1, <1>2, <2>1 DEF IInv, TypeOK
<1>4. NoOrphans' /\ ParentsFit'
  BY <1>1 DEF IInv, NoOrphans, ParentsFit, Born
<1>5. Knows(r)'
  BY <1>1, <1>2 DEF IInv, Located, Knows, WorkspaceOf, Born
<1>6. Extends  BY <1>1 DEF Extends
<1>7. \A s \in Requests \ {r} : Knows(s)'
  BY <1>1, <1>2, <1>6, StillKnows DEF IInv, Located
<1>. QED  BY <1>3, <1>4, <1>5, <1>7 DEF IInv, Located

\* A deletion takes what is below along, and nothing is left below it.
LEMMA DeleteKeeps ==
  ASSUME IInv, NEW r \in Requests, Delete(r) PROVE IInv'
<1> USE Sentinel, KindsDiffer DEF Rows, Items, Parents
<1> DEFINE i == req[r].item
<1>0. UNCHANGED <<parent, text, told, unsaid>> /\ pc[r] = "delete" /\ Extends
  BY DEF Delete, Extends
<1>1. CASE i \in Workspaces \ present
  <2>1. Finish(r) /\ UNCHANGED table
    BY <1>0, <1>1 DEF Delete, table
  <2>2. TypeOK'
    BY <1>0, <2>1, Over DEF IInv, TypeOK, table
  <2>. QED  BY <2>1, <2>2, Over, Reading DEF IInv
<1>2. CASE i \notin Workspaces \ present
  <2>1. /\ present' = {j \in present : i \notin Above(j)} /\ UNCHANGED req
        /\ reply' = [reply EXCEPT ![r] = i] /\ Goto(r, "emit")
    BY <1>2 DEF Delete
  <2>2. /\ pc'[r] = "emit" /\ \A s \in Requests \ {r} : pc'[s] = pc[s]
        /\ pc' \in [Requests -> Labels]
    BY <2>1 DEF Goto, IInv, TypeOK, Labels
  <2>3. TypeOK'
    <3>1. i \in Rows
      BY <1>0 DEF IInv, Located, Knows
    <3>2. reply' \in [Requests -> Replies]
      BY <2>1, <3>1 DEF IInv, TypeOK, Replies
    <3>. QED  BY <1>0, <2>1, <2>2, <3>2 DEF IInv, TypeOK
  <2>4. NoOrphans'
    <3> SUFFICES ASSUME NEW j \in present' \cap Items PROVE parent[j] \in present'
      BY <1>0 DEF NoOrphans
    <3>1. parent[j] \in present /\ i \notin Above(j)
      BY <2>1 DEF IInv, NoOrphans
    <3>2. Above(parent[j]) \subseteq Above(j)
      <4>1. CASE j \in Tasks
        <5>1. parent[j] \in Projects
          BY <2>1, <4>1 DEF IInv, TypeOK
        <5>. QED  BY <4>1, <5>1 DEF Above, WorkspaceOf
      <4>2. CASE j \in Projects
        <5>1. parent[j] \in Workspaces
          BY <2>1, <4>2 DEF IInv, TypeOK
        <5>. QED  BY <4>2, <5>1 DEF Above, WorkspaceOf
      <4>. QED  BY <4>1, <4>2
    <3>. QED  BY <2>1, <3>1, <3>2
  <2>5. ParentsFit'
    BY <1>0, <2>1 DEF IInv, ParentsFit, Born
  <2>6. Knows(r)'
    BY <1>0, <2>1, <2>2 DEF IInv, Located, Knows, WorkspaceOf, Born
  <2>7. \A s \in Requests \ {r} : Knows(s)'
    BY <1>0, <2>1, <2>2, StillKnows DEF IInv, Located
  <2>. QED  BY <2>3, <2>4, <2>5, <2>6, <2>7 DEF IInv, Located
<1>. QED  BY <1>1, <1>2

\* An event changes no row.
LEMMA EmitKeeps ==
  ASSUME IInv, NEW r \in Requests, Emit(r) PROVE IInv'
<1>1. Events(r) \subseteq {"workspace", "project", "task"} \X Replies
  <2>1. req[r].item \in Rows /\ reply[r] \in Replies
    BY DEF Emit, IInv, TypeOK, Located, Knows
  <2>2. Kind(req[r].item) \in {"workspace", "project", "task"}
    BY <2>1 DEF Kind, Rows, Items
  <2>. QED  BY <2>1, <2>2 DEF Events, Event
<1>2. told' \in [Workspaces -> SUBSET ({"workspace", "project", "task"} \X Replies)]
  BY <1>1 DEF Emit, IInv, TypeOK
<1>3. TypeOK'
  BY <1>2, Over DEF Emit, IInv, TypeOK, table
<1>. QED  BY <1>3, Over, Reading DEF IInv, Emit

\* A failure changes no row.
LEMMA FailKeeps ==
  ASSUME IInv, NEW r \in Requests, Fail(r) PROVE IInv'
<1>1. unsaid' \subseteq Rows \X Replies
  BY DEF Fail, IInv, TypeOK, Located, Knows
<1>2. TypeOK'
  BY <1>1, Over DEF Fail, IInv, TypeOK, table
<1>. QED  BY <1>2, Over, Reading DEF IInv, Fail

\* A stuttering step keeps the invariant.
LEMMA StutterKeeps == IInv /\ UNCHANGED vars => IInv'
  BY DEF IInv, TypeOK, NoOrphans, ParentsFit, Born, Located, Knows, WorkspaceOf, vars,
     table, locals

\* Every step keeps the invariant.
LEMMA Preservation == IInv /\ [Next]_vars => IInv'
  BY ArriveKeeps, FindKeeps, ReadRoleKeeps, InsertKeeps, UpdateKeeps, DeleteKeeps,
     EmitKeeps, FailKeeps, StutterKeeps DEF Next, Step

\* The inductive invariant holds in every reachable state.
THEOREM Invariance == Spec => []IInv
  BY Initially, Preservation, PTL DEF Spec

\* Type correctness of Board.
THEOREM TypeCorrect == Spec => []TypeOK
<1>1. IInv => TypeOK  BY DEF IInv
<1>. QED  BY Invariance, <1>1, PTL

\* No row is ever left without the row it belongs to.
THEOREM RowsHaveParents == Spec => []NoOrphans
<1>1. IInv => NoOrphans  BY DEF IInv
<1>. QED  BY Invariance, <1>1, PTL

-----------------------------------------------------------------------------
(* A request stays in its workspace.                                       *)

Stays ==
  \A i \in Items :
    text'[i] # text[i] \/ (i \in present <=> i \notin present') =>
      \E r \in Requests : /\ pc[r] \in {"insert", "update", "delete"}
                          /\ pc'[r] # pc[r]
                          /\ req[r].ws = WorkspaceOf(i)'

\* A step that leaves rows and texts alone stays anywhere.
LEMMA Unchanging == UNCHANGED <<present, text>> => Stays
  BY DEF Stays

\* An INSERT is in the workspace of its route.
LEMMA InsertStays == ASSUME IInv, NEW r \in Requests, Insert(r) PROVE Stays
<1> USE Sentinel, KindsDiffer DEF Rows, Items, Parents
<1>0. req[r] \in Asked /\ Knows(r) /\ pc[r] = "insert"
  BY DEF IInv, TypeOK, Located, Insert
<1>1. CASE req[r].into \notin present
  BY <1>1, Unchanging DEF Insert, table
<1>2. CASE req[r].into \in present
  <2>1. PICK i \in Items, v \in Texts :
          /\ parent[i] = None /\ (i \in Tasks <=> req[r].into \in Projects)
          /\ present' = present \cup {i}
          /\ parent' = [parent EXCEPT ![i] = req[r].into]
          /\ text' = [text EXCEPT ![i] = v]
          /\ Goto(r, "emit")
    BY <1>2 DEF Insert, NewRow
  <2>2. /\ \A j \in Items \ {i} : text'[j] = text[j] /\ (j \in present' <=> j \in present)
        /\ pc'[r] = "emit"
    BY <2>1 DEF IInv, TypeOK, Goto
  <2>3. parent'[i] = req[r].into /\ \A j \in Items \ {i} : parent'[j] = parent[j]
    BY <2>1 DEF IInv, TypeOK
  <2>4. WorkspaceOf(i)' = req[r].ws
    <3>1. CASE i \in Tasks
      <4>1. req[r].into \in Projects /\ req[r].into # i
        BY <2>1, <3>1
      <4>. QED  BY <1>0, <2>3, <3>1, <4>1 DEF WorkspaceOf, Knows
    <3>2. CASE i \in Projects
      BY <1>0, <2>1, <2>3, <3>2 DEF WorkspaceOf, Knows
    <3>. QED  BY <3>1, <3>2
  <2>. QED  BY <1>0, <2>2, <2>4 DEF Stays
<1>. QED  BY <1>1, <1>2

\* An UPDATE by id hits the row the SELECT found.
LEMMA UpdateStays == ASSUME IInv, NEW r \in Requests, Update(r) PROVE Stays
<1>1. \A j \in Items \ {req[r].item} : text'[j] = text[j]
  BY DEF Update, IInv, TypeOK
<1>2. UNCHANGED <<present, parent>> /\ pc'[r] = "emit"
  BY DEF Update, Goto, IInv, TypeOK
<1>3. pc[r] = "update" /\ req[r].item \in Items /\ WorkspaceOf(req[r].item) = req[r].ws
  BY DEF Update, IInv, Located, Knows
<1>4. ASSUME NEW i \in Items,
             text'[i] # text[i] \/ (i \in present <=> i \notin present')
      PROVE  req[r].ws = WorkspaceOf(i)'
  <2>1. i = req[r].item
    BY <1>1, <1>2, <1>4
  <2>. QED  BY <1>2, <1>3, <2>1 DEF WorkspaceOf
<1>. QED  BY <1>2, <1>3, <1>4 DEF Stays

\* A row taken along by a deletion is in the workspace of the row deleted.
LEMMA BelowInside ==
  ASSUME IInv, NEW j \in present \cap Items, NEW i \in Above(j)
  PROVE  WorkspaceOf(i) = WorkspaceOf(j)
<1> USE Sentinel, KindsDiffer DEF Rows, Items, Parents
<1>1. parent[j] \in IF j \in Tasks THEN Projects ELSE Workspaces
  BY DEF IInv, TypeOK
<1>2. Born(j)
  BY DEF IInv, ParentsFit
<1>3. j \in Tasks => parent[parent[j]] \in Workspaces
  BY <1>2 DEF IInv, ParentsFit, Born
<1>. QED  BY <1>1, <1>3 DEF Above, WorkspaceOf

\* A deletion and its cascade stay in one workspace.
LEMMA DeleteStays == ASSUME IInv, NEW r \in Requests, Delete(r) PROVE Stays
<1> DEFINE i == req[r].item
<1>1. CASE i \in Workspaces \ present
  BY <1>1, Unchanging DEF Delete
<1>2. CASE i \notin Workspaces \ present
  <2>1. /\ UNCHANGED <<parent, text>> /\ pc[r] = "delete"
        /\ present' = {j \in present : i \notin Above(j)}
        /\ pc'[r] = "emit"
    BY <1>2 DEF Delete, Goto, IInv, TypeOK
  <2>2. WorkspaceOf(i) = req[r].ws
    BY <2>1 DEF IInv, Located, Knows
  <2>3. ASSUME NEW j \in Items,
               text'[j] # text[j] \/ (j \in present <=> j \notin present')
        PROVE  WorkspaceOf(j)' = req[r].ws
    <3>1. j \in present \cap Items /\ i \in Above(j)
      BY <2>1, <2>3
    <3>2. WorkspaceOf(j)' = WorkspaceOf(j)
      BY <2>1 DEF WorkspaceOf
    <3>. QED  BY <2>2, <3>1, <3>2, BelowInside
  <2>. QED  BY <2>1, <2>3 DEF Stays
<1>. QED  BY <1>1, <1>2

\* Whatever is changed is in the workspace the request that changes it was let
\* into.
THEOREM WorkspacesIsolated == Spec => StaysInWorkspace
<1>1. IInv /\ [Next]_vars => Stays
  BY InsertStays, UpdateStays, DeleteStays, Unchanging
  DEF Next, Step, Arrive, Find, ReadRole, Emit, Fail, vars, table
<1>2. IInv /\ [Next]_vars => [Stays]_vars
  BY <1>1
<1>. QED  BY Invariance, <1>2, PTL DEF Spec, StaysInWorkspace, Stays

-----------------------------------------------------------------------------
(* What the rooms are told.                                                *)

\* What is said tells rows from texts, and a row from every other one.
LEMMA EventsDiffer ==
  ASSUME NEW i \in Rows, NEW j \in Rows, NEW what, Event(i, what) = Event(j, j)
  PROVE  what = j
  BY DEF Event

\* Nothing is there and nothing has been told.
LEMMA RoomInitially == Init => RoomInv
  BY Sentinel, KindsDiffer DEF Init, RoomInv, NothingUnsaid, DeletionsAreTrue, Truthful,
     Rows, Items

\* What was announced stays so, whoever steps, if who was about to tell has
\* told it or failed on the record.
LEMMA StaysAnnounced ==
  ASSUME IInv, Extends, NEW r \in Requests, unsaid \subseteq unsaid',
         \A w \in Workspaces : told[w] \subseteq told'[w],
         \A s \in Requests \ {r} : /\ pc'[s] = pc[s] /\ req'[s] = req[s]
                                   /\ reply'[s] = reply[s],
         pc[r] = "emit" =>
           \/ reply[r] = "undefined"
           \/ Event(req[r].item, reply[r]) \in told'[req[r].ws]
           \/ <<req[r].item, reply[r]>> \in unsaid',
         NEW i \in Rows, Born(i), NEW what \in Texts \cup Rows, Announced(i, what)
  PROVE  Announced(i, what)'
<1>1. WorkspaceOf(i)' = WorkspaceOf(i) /\ WorkspaceOf(i) \in Workspaces
  BY Sentinel, KindsDiffer, WorkspaceKept DEF IInv, ParentsFit, Born, WorkspaceOf, Rows, Items
<1>2. what # "undefined"
  BY Sentinel
<1>3. Event(i, what)' = Event(i, what)
  BY DEF Event, Kind
<1>4. CASE Event(i, what) \in told[WorkspaceOf(i)]
  BY <1>1, <1>3, <1>4 DEF Announced
<1>5. CASE <<i, what>> \in unsaid
  BY <1>5 DEF Announced
<1>6. ASSUME NEW s \in Requests, pc[s] = "emit", req[s].item = i, reply[s] = what
      PROVE  Announced(i, what)'
  <2>1. CASE s # r
    BY <1>6, <2>1 DEF Announced
  <2>2. CASE s = r
    <3>1. req[r].ws = WorkspaceOf(i)
      BY <1>6, <2>2 DEF IInv, Located, Knows
    <3>. QED  BY <1>1, <1>2, <1>3, <1>6, <2>2, <3>1 DEF Announced
  <2>. QED  BY <2>1, <2>2
<1>. QED  BY <1>4, <1>5, <1>6 DEF Announced

\* The rows above a row that has been there have been there.
LEMMA BornAbove ==
  ASSUME IInv, NEW i \in Rows, Born(i), NEW a \in Above(i)
  PROVE  a \in Rows /\ Born(a)
  BY Sentinel, KindsDiffer DEF IInv, ParentsFit, Born, Above, WorkspaceOf, Rows, Items

\* And they stay the same.
LEMMA AboveKept ==
  ASSUME IInv, Extends, NEW i \in Rows, Born(i)
  PROVE  Above(i)' = Above(i)
<1>1. WorkspaceOf(i)' = WorkspaceOf(i)
  BY WorkspaceKept DEF IInv
<1>2. i \in Tasks => parent'[i] = parent[i]
  BY KindsDiffer DEF Extends, Born, Rows, Items
<1>. QED  BY <1>1, <1>2 DEF Above

\* A step that changes no table changes nothing that has to be told.
LEMMA RoomReading ==
  ASSUME IInv, RoomInv, NEW r \in Requests, UNCHANGED table, unsaid \subseteq unsaid',
         \A w \in Workspaces : told[w] \subseteq told'[w],
         \A s \in Requests \ {r} : /\ pc'[s] = pc[s] /\ req'[s] = req[s]
                                   /\ reply'[s] = reply[s],
         pc[r] = "emit" =>
           \/ reply[r] = "undefined"
           \/ Event(req[r].item, reply[r]) \in told'[req[r].ws]
           \/ <<req[r].item, reply[r]>> \in unsaid'
  PROVE  NothingUnsaid'
<1>1. Extends
  BY DEF table, Extends
<1>2. ASSUME NEW i \in Rows, Born(i), NEW what \in Texts \cup Rows, Announced(i, what)
      PROVE  Announced(i, what)'
  BY <1>1, <1>2, StaysAnnounced
<1>3. \A i \in present \cap Items : i \in Rows /\ Born(i) /\ text[i] \in Texts
  BY DEF IInv, TypeOK, ParentsFit, Rows
<1>4. \A i \in present \cap Items : Announced(i, text[i])'
  BY <1>2, <1>3 DEF RoomInv, NothingUnsaid, table, Announced
<1>5. ASSUME NEW i \in Rows \ present, i \in Workspaces \/ parent[i] # None
      PROVE  \E a \in Above(i) : Announced(a, a)'
  <2>1. PICK a \in Above(i) : Announced(a, a)
    BY <1>5 DEF RoomInv, NothingUnsaid
  <2>2. a \in Rows /\ Born(a)
    BY <1>5, BornAbove DEF Born
  <2>. QED  BY <1>2, <2>1, <2>2
<1>6. \A i \in Rows \ present : Born(i) => Above(i)' = Above(i)
  BY <1>1, AboveKept
<1>. QED  BY <1>4, <1>5, <1>6 DEF NothingUnsaid, table, Born

\* A step that changes no table and tells nothing.
LEMMA RoomQuiet ==
  ASSUME IInv, RoomInv, NEW r \in Requests, UNCHANGED <<table, told>>,
         unsaid \subseteq unsaid', pc'[r] # "emit",
         \A s \in Requests \ {r} : /\ pc'[s] = pc[s] /\ req'[s] = req[s]
                                   /\ reply'[s] = reply[s],
         pc[r] = "emit" =>
           reply[r] = "undefined" \/ <<req[r].item, reply[r]>> \in unsaid'
  PROVE  RoomInv'
<1>1. NothingUnsaid'
  BY RoomReading
<1>2. DeletionsAreTrue'
  BY DEF RoomInv, DeletionsAreTrue, table, WorkspaceOf, Event, Kind
<1>3. Truthful'
  BY DEF RoomInv, Truthful, table, Event, Kind, Born
<1>. QED  BY <1>1, <1>2, <1>3 DEF RoomInv

\* What is inserted is about to be told, and was never told to be deleted.
LEMMA RoomInsert ==
  ASSUME IInv, RoomInv, NEW r \in Requests, Insert(r) PROVE RoomInv'
<1> USE Sentinel, KindsDiffer DEF Rows, Items, Parents
<1>0. pc[r] = "insert" /\ UNCHANGED <<told, unsaid>>
  BY DEF Insert
<1>1. CASE req[r].into \notin present
  <2>1. Finish(r) /\ UNCHANGED table
    BY <1>1 DEF Insert
  <2>. QED  BY <1>0, <2>1, Over, RoomQuiet DEF IInv
<1>2. CASE req[r].into \in present
  <2>1. PICK i \in Items, v \in Texts :
          /\ parent[i] = None /\ (i \in Tasks <=> req[r].into \in Projects)
          /\ present' = present \cup {i}
          /\ parent' = [parent EXCEPT ![i] = req[r].into]
          /\ text' = [text EXCEPT ![i] = v]
          /\ req' = [req EXCEPT ![r].item = i]
          /\ reply' = [reply EXCEPT ![r] = v]
          /\ Goto(r, "emit")
    BY <1>2 DEF Insert, NewRow
  <2>2. /\ pc'[r] = "emit" /\ req'[r].item = i /\ reply'[r] = v /\ text'[i] = v
        /\ \A j \in Items \ {i} : text'[j] = text[j] /\ parent'[j] = parent[j]
        /\ \A s \in Requests \ {r} : /\ pc'[s] = pc[s] /\ req'[s] = req[s]
                                     /\ reply'[s] = reply[s]
    <3>1. req[r] \in Asked
      BY DEF IInv, TypeOK
    <3>2. [req[r] EXCEPT !.item = i].item = i
      BY <3>1 DEF Asked
    <3>. QED  BY <2>1, <3>1, <3>2 DEF Goto, IInv, TypeOK
  <2>3. Extends
    BY <2>1, <2>2 DEF Extends
  <2>4. i \notin present /\ ~Born(i)
    BY <2>1 DEF IInv, ParentsFit, Born
  <2>5. ASSUME NEW j \in Rows, Born(j), NEW what \in Texts \cup Rows, Announced(j, what)
        PROVE  Announced(j, what)'
    BY <1>0, <2>2, <2>3, <2>5, StaysAnnounced
  <2>6. NothingUnsaid'
    <3>1. Announced(i, text[i])'
      BY <2>2 DEF Announced
    <3>2. ASSUME NEW j \in present \cap Items PROVE Announced(j, text[j])'
      <4>1. j # i /\ Born(j) /\ text[j] \in Texts /\ text'[j] = text[j]
        BY <2>2, <2>4 DEF IInv, TypeOK, ParentsFit
      <4>2. Announced(j, text[j])
        BY DEF RoomInv, NothingUnsaid
      <4>3. ASSUME NEW what \in Texts, text'[j] = what, Announced(j, what)'
            PROVE  Announced(j, text[j])'
        BY <4>3 DEF Announced, Event
      <4>. QED  BY <2>5, <4>1, <4>2, <4>3
    <3>3. ASSUME NEW j \in Rows \ present', j \in Workspaces \/ parent'[j] # None
          PROVE  \E a \in Above(j)' : Announced(a, a)'
      <4>1. j \in Rows \ present /\ Born(j)
        BY <2>1, <2>2, <3>3 DEF Born
      <4>2. PICK a \in Above(j) : Announced(a, a)
        BY <4>1 DEF RoomInv, NothingUnsaid, Born
      <4>3. a \in Rows /\ Born(a) /\ Above(j)' = Above(j)
        BY <2>3, <4>1, BornAbove, AboveKept
      <4>. QED  BY <2>5, <4>2, <4>3
    <3>. QED  BY <2>1, <3>1, <3>2, <3>3 DEF NothingUnsaid
  <2>7. ASSUME NEW w \in Workspaces, NEW j \in Rows, Event(j, j) \in told'[w]
        PROVE  Born(j) /\ Born(j)' /\ j \notin present' /\ WorkspaceOf(j)' = w
    <3>1. Event(j, j) \in told[w]
      BY <1>0, <2>7
    <3>2. Born(j) /\ j \notin present /\ WorkspaceOf(j) = w
      BY <3>1 DEF RoomInv, Truthful, DeletionsAreTrue
    <3>. QED  BY <2>1, <2>3, <2>4, <3>2, WorkspaceKept DEF IInv
  <2>8. Truthful'
    <3>1. ASSUME NEW s \in Requests, pc'[s] = "emit", reply'[s] \in Rows
          PROVE  reply'[s] = req'[s].item /\ reply'[s] \notin present'
      <4>1. s # r
        BY <2>2, <3>1
      <4>2. /\ pc[s] = "emit" /\ reply[s] = req[s].item /\ reply[s] \notin present
            /\ Born(req[s].item)
        BY <2>2, <3>1, <4>1 DEF RoomInv, Truthful, IInv, Located, Knows
      <4>. QED  BY <2>1, <2>2, <2>4, <4>1, <4>2
    <3>. QED  BY <2>7, <3>1 DEF Truthful, Event, Kind
  <2>. QED  BY <2>6, <2>7, <2>8 DEF RoomInv, DeletionsAreTrue, Event, Kind
<1>. QED  BY <1>1, <1>2

\* What is updated is about to be told.
LEMMA RoomUpdate ==
  ASSUME IInv, RoomInv, NEW r \in Requests, Update(r) PROVE RoomInv'
<1> USE Sentinel, KindsDiffer DEF Rows, Items, Parents
<1> DEFINE i == req[r].item
<1>0. i \in Items
  BY DEF Update, IInv, Located, Knows
<1>1. /\ UNCHANGED <<present, parent, told, unsaid, req>>
      /\ pc[r] = "update" /\ pc'[r] = "emit" /\ (i \in present => reply'[r] = text'[i])
      /\ reply'[r] \in Texts \cup {"undefined"}
      /\ \A j \in Items \ {i} : text'[j] = text[j]
      /\ i \notin present => UNCHANGED text
      /\ \A s \in Requests \ {r} : /\ pc'[s] = pc[s] /\ req'[s] = req[s]
                                   /\ reply'[s] = reply[s]
  BY <1>0 DEF Update, Goto, IInv, TypeOK
<1>2. Extends /\ \A j \in Rows : WorkspaceOf(j)' = WorkspaceOf(j) /\ Above(j)' = Above(j)
  BY <1>1 DEF Extends, WorkspaceOf, Above
<1>3. ASSUME NEW j \in Rows, Born(j), NEW what \in Texts \cup Rows, Announced(j, what)
      PROVE  Announced(j, what)'
  BY <1>1, <1>2, <1>3, StaysAnnounced
<1>4. NothingUnsaid'
  <2>1. ASSUME NEW j \in present \cap Items PROVE Announced(j, text[j])'
    <3>1. CASE j = i
      BY <1>1, <3>1 DEF Announced
    <3>2. CASE j # i
      <4>1. Born(j) /\ text[j] \in Texts /\ text'[j] = text[j] /\ Announced(j, text[j])
        BY <1>1, <3>2 DEF IInv, TypeOK, ParentsFit, RoomInv, NothingUnsaid
      <4>2. ASSUME NEW what \in Texts, text'[j] = what, Announced(j, what)'
            PROVE  Announced(j, text[j])'
        BY <4>2 DEF Announced, Event
      <4>. QED  BY <1>3, <4>1, <4>2
    <3>. QED  BY <3>1, <3>2
  <2>2. ASSUME NEW j \in Rows \ present, j \in Workspaces \/ parent[j] # None
        PROVE  \E a \in Above(j) : Announced(a, a)'
    <3>1. PICK a \in Above(j) : Announced(a, a)
      BY <2>2 DEF RoomInv, NothingUnsaid
    <3>2. a \in Rows /\ Born(a)
      BY <2>2, BornAbove DEF Born
    <3>. QED  BY <1>3, <3>1, <3>2
  <2>. QED  BY <1>1, <1>2, <2>1, <2>2 DEF NothingUnsaid
<1>5. DeletionsAreTrue'
  BY <1>1, <1>2 DEF RoomInv, DeletionsAreTrue, Event, Kind
<1>6. Truthful'
  <2>1. reply'[r] \notin Rows
    BY <1>1
  <2>. QED  BY <1>1, <2>1 DEF RoomInv, Truthful, Event, Kind, Born
<1>. QED  BY <1>4, <1>5, <1>6 DEF RoomInv

\* What is deleted is about to be told, and so is what goes with it.
LEMMA RoomDelete ==
  ASSUME IInv, RoomInv, NEW r \in Requests, Delete(r) PROVE RoomInv'
<1> USE Sentinel, KindsDiffer DEF Rows, Items, Parents
<1> DEFINE i == req[r].item
<1>0. UNCHANGED <<parent, text, told, unsaid>> /\ pc[r] = "delete" /\ i \in Rows
  BY DEF Delete, IInv, Located, Knows
<1>1. CASE i \in Workspaces \ present
  <2>1. Finish(r) /\ UNCHANGED table
    BY <1>0, <1>1 DEF Delete, table
  <2>. QED  BY <1>0, <2>1, Over, RoomQuiet DEF IInv
<1>2. CASE i \notin Workspaces \ present
  <2>1. /\ present' = {j \in present : i \notin Above(j)} /\ UNCHANGED req
        /\ pc'[r] = "emit" /\ reply'[r] = i
        /\ \A s \in Requests \ {r} : /\ pc'[s] = pc[s] /\ req'[s] = req[s]
                                     /\ reply'[s] = reply[s]
    BY <1>2 DEF Delete, Goto, IInv, TypeOK
  <2>2. Extends /\ \A j \in Rows : WorkspaceOf(j)' = WorkspaceOf(j) /\ Above(j)' = Above(j)
    BY <1>0 DEF Extends, WorkspaceOf, Above
  <2>3. ASSUME NEW j \in Rows, Born(j), NEW what \in Texts \cup Rows, Announced(j, what)
        PROVE  Announced(j, what)'
    BY <1>0, <2>1, <2>2, <2>3, StaysAnnounced
  <2>4. NothingUnsaid'
    <3>1. ASSUME NEW j \in present \cap Items PROVE Announced(j, text[j])'
      <4>1. Born(j) /\ text[j] \in Texts /\ text'[j] = text[j] /\ Announced(j, text[j])
        BY <1>0 DEF IInv, TypeOK, ParentsFit, RoomInv, NothingUnsaid
      <4>2. ASSUME NEW what \in Texts, text'[j] = what, Announced(j, what)'
            PROVE  Announced(j, text[j])'
        BY <4>2 DEF Announced, Event
      <4>. QED  BY <2>3, <4>1, <4>2
    <3>2. ASSUME NEW j \in Rows \ present, j \in Workspaces \/ parent[j] # None
          PROVE  \E a \in Above(j) : Announced(a, a)'
      <4>1. PICK a \in Above(j) : Announced(a, a)
        BY <3>2 DEF RoomInv, NothingUnsaid
      <4>2. a \in Rows /\ Born(a)
        BY <3>2, BornAbove DEF Born
      <4>. QED  BY <2>3, <4>1, <4>2
    <3>3. Announced(i, i)'
      BY <2>1 DEF Announced
    <3>4. \A j \in present \ present' : i \in Above(j)
      BY <2>1
    <3>. QED  BY <1>0, <2>1, <2>2, <3>1, <3>2, <3>3, <3>4 DEF NothingUnsaid
  <2>5. DeletionsAreTrue'
    BY <1>0, <2>1, <2>2 DEF RoomInv, DeletionsAreTrue, Event, Kind
  <2>6. Truthful'
    <3>1. i \notin present'
      BY <2>1 DEF Above
    <3>. QED  BY <1>0, <2>1, <3>1 DEF RoomInv, Truthful, Event, Kind, Born
  <2>. QED  BY <2>4, <2>5, <2>6 DEF RoomInv
<1>. QED  BY <1>1, <1>2

\* What is told is so.
LEMMA RoomEmit ==
  ASSUME IInv, RoomInv, NEW r \in Requests, Emit(r) PROVE RoomInv'
<1> DEFINE i == req[r].item
<1>1. /\ UNCHANGED <<table, unsaid>> /\ pc[r] = "emit" /\ Finish(r)
      /\ told' = [told EXCEPT ![req[r].ws] = @ \cup Events(r)]
  BY DEF Emit
<1>2. i \in Rows /\ Born(i) /\ req[r].ws \in Workspaces /\ WorkspaceOf(i) = req[r].ws
  BY <1>1 DEF IInv, Located, Knows
<1>3. /\ told'[req[r].ws] = told[req[r].ws] \cup Events(r)
      /\ \A w \in Workspaces \ {req[r].ws} : told'[w] = told[w]
  BY <1>1, <1>2 DEF IInv, TypeOK
<1>4. NothingUnsaid'
  <2>1. reply[r] = "undefined" \/ Event(i, reply[r]) \in told'[req[r].ws]
    BY <1>3 DEF Events
  <2>2. \A w \in Workspaces : told[w] \subseteq told'[w]
    BY <1>3
  <2>. QED  BY <1>1, <2>1, <2>2, Over, RoomReading DEF IInv
<1>5. ASSUME NEW w \in Workspaces, NEW j \in Rows, Event(j, j) \in told'[w]
      PROVE  Born(j) /\ j \notin present /\ WorkspaceOf(j) = w
  <2>1. CASE Event(j, j) \in told[w]
    BY <2>1 DEF RoomInv, DeletionsAreTrue, Truthful
  <2>2. CASE Event(j, j) \notin told[w]
    <3>1. w = req[r].ws /\ Event(i, reply[r]) = Event(j, j)
      BY <1>3, <1>5, <2>2 DEF Events
    <3>2. reply[r] = j
      BY <1>2, <3>1, EventsDiffer
    <3>3. j = i /\ j \notin present
      BY <1>1, <3>2 DEF RoomInv, Truthful
    <3>. QED  BY <1>2, <3>1, <3>3
  <2>. QED  BY <2>1, <2>2
<1>6. DeletionsAreTrue'
  BY <1>1, <1>5 DEF DeletionsAreTrue, table, WorkspaceOf, Event, Kind
<1>7. Truthful'
  BY <1>1, <1>5, Over DEF RoomInv, Truthful, table, Event, Kind, Born, IInv
<1>. QED  BY <1>4, <1>6, <1>7 DEF RoomInv

\* A failure tells nothing, and leaves on the record what it should have told.
LEMMA RoomFail ==
  ASSUME IInv, RoomInv, NEW r \in Requests, Fail(r) PROVE RoomInv'
<1>1. /\ UNCHANGED <<table, told>> /\ Finish(r) /\ unsaid \subseteq unsaid'
      /\ pc[r] = "emit" =>
           reply[r] = "undefined" \/ <<req[r].item, reply[r]>> \in unsaid'
  BY DEF Fail
<1>. QED  BY <1>1, Over, RoomQuiet DEF IInv

\* Every step keeps what the rooms are told complete and true.
LEMMA RoomPreservation == IInv /\ RoomInv /\ [Next]_vars => RoomInv'
<1> SUFFICES ASSUME IInv, RoomInv, [Next]_vars PROVE RoomInv'
  OBVIOUS
<1>1. ASSUME NEW r \in Requests, Arrive(r) PROVE RoomInv'
  <2>1. PICK q \in Routes : req' = [req EXCEPT ![r] = q] /\ Goto(r, FirstStep(q))
    BY <1>1 DEF Arrive
  <2>2. /\ pc'[r] = FirstStep(q) /\ UNCHANGED <<table, told, unsaid, reply>>
        /\ pc[r] = "idle"
        /\ \A s \in Requests \ {r} : pc'[s] = pc[s] /\ req'[s] = req[s]
    BY <1>1, <2>1 DEF Arrive, Goto, IInv, TypeOK
  <2>3. pc'[r] # "emit"
    BY <2>2 DEF FirstStep
  <2>. QED  BY <2>2, <2>3, RoomQuiet
<1>2. ASSUME NEW r \in Requests, Find(r) PROVE RoomInv'
  <2>0. pc[r] = "find" /\ UNCHANGED <<table, told, unsaid>>
    BY <1>2 DEF Find
  <2>1. CASE Finish(r)
    BY <2>0, <2>1, Over, RoomQuiet DEF IInv
  <2>2. CASE ~Finish(r)
    <3>1. Goto(r, FoundStep(req[r])) /\ UNCHANGED <<req, reply>>
      BY <1>2, <2>2 DEF Find, FoundStep, locals
    <3>2. req[r].verb # "create" => req[r].item \in Items
      BY <2>0 DEF IInv, Located, Knows
    <3>3. req[r].verb \in {"create", "delete", "update"}
      BY <2>0 DEF IInv, Located, Knows, TypeOK, Asked
    <3>4. FoundStep(req[r]) # "emit"
      BY <3>2, <3>3 DEF FoundStep, Items
    <3>5. pc'[r] # "emit" /\ \A s \in Requests \ {r} : pc'[s] = pc[s]
      BY <3>1, <3>4 DEF Goto, IInv, TypeOK
    <3>. QED  BY <2>0, <3>1, <3>5, RoomQuiet
  <2>. QED  BY <2>1, <2>2
<1>3. ASSUME NEW r \in Requests, ReadRole(r) PROVE RoomInv'
  <2>0. pc[r] = "readRole" /\ UNCHANGED <<table, told, unsaid>>
    BY <1>3 DEF ReadRole
  <2>1. CASE Finish(r)
    BY <2>0, <2>1, Over, RoomQuiet DEF IInv
  <2>2. CASE ~Finish(r)
    <3>1. /\ pc'[r] = "update" /\ \A s \in Requests \ {r} : pc'[s] = pc[s]
          /\ UNCHANGED <<req, reply>>
      BY <1>3, <2>2 DEF ReadRole, Goto, IInv, TypeOK, locals
    <3>. QED  BY <2>0, <3>1, RoomQuiet
  <2>. QED  BY <2>1, <2>2
<1>4. CASE UNCHANGED vars
  <2> USE <1>4 DEF vars, table, locals, Event, Kind, WorkspaceOf
  <2>1. NothingUnsaid'
    <3>1. /\ present' = present /\ parent' = parent /\ text' = text /\ told' = told
          /\ unsaid' = unsaid /\ pc' = pc /\ req' = req /\ reply' = reply
      OBVIOUS
    <3>2. \A i, what : Announced(i, what)' <=> Announced(i, what)
      BY <3>1, Zenon DEF Announced
    <3>3. \A i : Above(i)' = Above(i)
      BY <3>1, Zenon DEF Above
    <3>4. NothingUnsaid
      BY DEF RoomInv
    <3>. QED  BY <3>1, <3>2, <3>3, <3>4, Zenon DEF NothingUnsaid
  <2>2. DeletionsAreTrue'
    BY DEF RoomInv, DeletionsAreTrue
  <2>3. Truthful'
    BY DEF RoomInv, Truthful, Born
  <2>. QED  BY <2>1, <2>2, <2>3 DEF RoomInv
<1>. QED
  BY <1>1, <1>2, <1>3, <1>4, RoomInsert, RoomUpdate, RoomDelete, RoomEmit, RoomFail
  DEF Next, Step

\* The invariant of the rooms holds in every reachable state.
LEMMA RoomInvariance == Spec => []RoomInv
<1>1. Init => RoomInv
  BY RoomInitially
<1>. QED  BY <1>1, RoomPreservation, Invariance, PTL DEF Spec

\* Whatever requests overlap, everything that was written is announced to its
\* room, and whatever goes, by itself or with what it was in.
THEOREM RoomsAreTold == Spec => []NothingUnsaid
<1>1. RoomInv => NothingUnsaid
  BY DEF RoomInv
<1>. QED  BY <1>1, RoomInvariance, PTL

\* What a room is told to be deleted was its own and is gone for good.
THEOREM DeletionsAreSo == Spec => []DeletionsAreTrue
<1>1. RoomInv => DeletionsAreTrue
  BY DEF RoomInv
<1>. QED  BY <1>1, RoomInvariance, PTL
=============================================================================
