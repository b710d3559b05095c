------------------------------- MODULE Board -------------------------------
(***************************************************************************)
(* Projects and tasks: ProjectService, TaskService, deleteWorkspace, the    *)
(* guard of their routes, the three tables, and the events that tell the   *)
(* room of a workspace what changed.                                       *)
(*                                                                         *)
(* A handler first selects the row its route names, inside the workspace   *)
(* of the route, then writes by id alone, and emits the event when the     *)
(* write has been answered: three steps, and other requests run between    *)
(* them.  Projects and tasks are handled alike and are called items.  The  *)
(* deletion of a workspace selects nothing first and takes its projects    *)
(* and tasks along with one event of its own.  createWorkspace and         *)
(* updateWorkspace touch no item and are in Realtime.                      *)
(*                                                                         *)
(* text stands for every column of an item; a projectId of the route that  *)
(* is not the task's is one more way for the SELECT to fail.  The members  *)
(* of a workspace come, go and change roles in other requests, at any      *)
(* moment: a query for a role may answer any, as long as the workspace is  *)
(* there (the members themselves are in Members).                          *)
(***************************************************************************)
CONSTANTS Workspaces, Projects, Tasks, Texts, Requests, None

Items == Projects \cup Tasks
Parents == Workspaces \cup Projects
Rows == Workspaces \cup Items

ASSUME KindsDiffer ==
  /\ Projects \cap Tasks = {} /\ Workspaces \cap Items = {}
  /\ Texts \cap Rows = {}
ASSUME Sentinel ==
  /\ None \notin Rows \cup Texts \cup {"undefined"}
  /\ "undefined" \notin Rows \cup Texts

VARIABLES
  present,   \* rows that are there
  parent,    \* workspace_id of a project, project_id of a task
  text,      \* the other columns of an item
  told,      \* the events the room of a workspace was sent
  pc, req,   \* a request's next step, and what it asks for
  reply,     \* what a write returned, as the event will tell it
  unsaid     \* history: what requests that failed before their event had to tell

table == <<present, parent, text>>
locals == <<req, reply>>
vars == <<table, told, unsaid, pc, locals>>

Idle == [verb |-> "none", ws |-> None, item |-> None, into |-> None]

\* The routes: POST of a project or a task (into its parent), PUT and DELETE,
\* and the DELETE of the workspace itself.
Routes ==
  {q \in [verb : {"create"}, ws : Workspaces, item : {None},
          into : Parents] : q.into \in Workspaces => q.into = q.ws}
  \cup [verb : {"update"}, ws : Workspaces, item : Items, into : {None}]
  \cup {q \in [verb : {"delete"}, ws : Workspaces, item : Rows,
               into : {None}] : q.item \in Workspaces => q.item = q.ws}

\* The workspace of a row, and all rows whose deletion takes it along.
WorkspaceOf(i) ==
  IF i \in Workspaces THEN i
  ELSE IF i \in Projects THEN parent[i] ELSE parent[parent[i]]
Above(i) == {i, WorkspaceOf(i)} \cup (IF i \in Tasks THEN {parent[i]} ELSE {})

Init ==
  /\ present = Workspaces
  /\ parent = [i \in Items |-> None] /\ text = [i \in Items |-> None]
  /\ told = [w \in Workspaces |-> {}] /\ unsaid = {}
  /\ pc = [r \in Requests |-> "idle"] /\ req = [r \in Requests |-> Idle]
  /\ reply = [r \in Requests |-> None]

Goto(r, label) == pc' = [pc EXCEPT ![r] = label]

Finish(r) ==
  /\ Goto(r, "idle")
  /\ req' = [req EXCEPT ![r] = Idle]
  /\ reply' = [reply EXCEPT ![r] = None]

-----------------------------------------------------------------------------
\* What getMemberRole may answer; None is null, for who is no member.
GetMemberRole(w) ==
  {None} \cup IF w \in present THEN {"member", "admin", "owner"} ELSE {}

\* @RequireRole of the route: members may create and update tasks, only an
\* owner may delete the workspace.
OfTask(q) == q.item \in Tasks \/ q.into \in Projects
RequiredRoles(q) ==
  CASE q.item \in Workspaces          -> {"owner"}
    [] OfTask(q) /\ q.verb # "delete" -> {"member", "admin", "owner"}
    [] OTHER                          -> {"admin", "owner"}
GuardAllows(q) == GetMemberRole(q.ws) \cap RequiredRoles(q) # {}

\* createProject inserts and deleteWorkspace deletes at once; everything else
\* looks its row up first.
FirstStep(q) ==
  CASE q.into \in Workspaces -> "insert"
    [] q.item \in Workspaces -> "delete"
    [] OTHER                 -> "find"

Arrive(r) ==
  /\ pc[r] = "idle"
  /\ \E q \in Routes :
       /\ GuardAllows(q)
       /\ req' = [req EXCEPT ![r] = q]
       /\ Goto(r, FirstStep(q))
  /\ UNCHANGED <<table, told, unsaid, reply>>

\* What the first SELECT finds: a row of the route's workspace.
\* Mutant: without "AND workspace_id" (project.service.ts:45, 72).
InAnyWorkspace(i, w) == i \in present
InWorkspace(i, w) == i \in present /\ WorkspaceOf(i) = w

Find(r) ==
  LET q == req[r] IN
  /\ pc[r] = "find"
  /\ IF InWorkspace(IF q.verb = "create" THEN q.into ELSE q.item, q.ws)
     THEN /\ Goto(r, CASE q.verb = "create" -> "insert"
                       [] q.verb = "delete" -> "delete"
                       [] q.verb = "update" /\ q.item \in Projects -> "update"
                       [] q.verb = "update" /\ q.item \in Tasks -> "readRole")
          /\ UNCHANGED locals
     ELSE Finish(r)
  /\ UNCHANGED <<table, told, unsaid>>

\* updateTask: the role as it is now, null for a user removed since the guard
\* let him in.  The column comes back as assigned_to, so assignedTo is
\* undefined and no member is the assignee (task.service.ts:106, 122), although
\* README.md:220 lets members update the tasks assigned to them.
\* (A body without a column is refused after this, and changes nothing.)
ReadRole(r) ==
  /\ pc[r] = "readRole"
  /\ \E userRole \in GetMemberRole(req[r].ws) :
       IF userRole = "member" THEN Finish(r)
       ELSE Goto(r, "update") /\ UNCHANGED locals
  /\ UNCHANGED <<table, told, unsaid>>

-----------------------------------------------------------------------------
\* The row that an INSERT adds, under the next id of its table.
NewRow(r) ==
  \E i \in Items, v \in Texts :
    /\ parent[i] = None /\ (i \in Tasks <=> req[r].into \in Projects)
    /\ present' = present \cup {i}
    /\ parent' = [parent EXCEPT ![i] = req[r].into]
    /\ text' = [text EXCEPT ![i] = v]
    /\ req' = [req EXCEPT ![r].item = i]
    /\ reply' = [reply EXCEPT ![r] = v]
    /\ Goto(r, "emit")

\* Mutant: no foreign key from projects and tasks (schema.sql:81, 94).
InsertUnchecked(r) ==
  /\ pc[r] = "insert"
  /\ NewRow(r)
  /\ UNCHANGED <<told, unsaid>>

\* INSERT; the foreign key refuses a project or a workspace that is gone.
Insert(r) ==
  /\ pc[r] = "insert"
  /\ IF req[r].into \in present THEN NewRow(r) ELSE Finish(r) /\ UNCHANGED table
  /\ UNCHANGED <<told, unsaid>>

\* UPDATE ... WHERE id RETURNING: rows[0] is undefined when the row is gone,
\* and neither service looks.
Update(r) ==
  LET i == req[r].item IN
  /\ pc[r] = "update"
  /\ \/ /\ i \in present
        /\ \E v \in Texts : /\ text' = [text EXCEPT ![i] = v]
                            /\ reply' = [reply EXCEPT ![r] = v]
     \/ /\ i \notin present
        /\ reply' = [reply EXCEPT ![r] = "undefined"]
        /\ UNCHANGED text
  /\ Goto(r, "emit")
  /\ UNCHANGED <<present, parent, told, unsaid, req>>

\* Mutant: the DELETE is not awaited; it fails or not, and nobody sees.
DeleteUnawaited(r) ==
  LET i == req[r].item IN
  /\ pc[r] = "delete"
  /\ present' \in {present, {j \in present : i \notin Above(j)}}
  /\ reply' = [reply EXCEPT ![r] = i]
  /\ Goto(r, "emit")
  /\ UNCHANGED <<parent, text, told, unsaid, req>>

\* DELETE ... WHERE id, with everything below the row (ON DELETE CASCADE).  Of
\* the three services only deleteWorkspace looks whether a row was deleted.
Delete(r) ==
  LET i == req[r].item IN
  /\ pc[r] = "delete"
  /\ IF i \in Workspaces \ present
     THEN Finish(r) /\ UNCHANGED present
     ELSE /\ present' = {j \in present : i \notin Above(j)}
          /\ reply' = [reply EXCEPT ![r] = i]
          /\ Goto(r, "emit")
          /\ UNCHANGED req
  /\ UNCHANGED <<parent, text, told, unsaid>>

\* An event: the kind of row, and what RETURNING gave of it, without an id
\* (project.service.ts:29, 58, task.service.ts:68, 178), or the id deleted.
\* One that carries no row, after an UPDATE that found none, says nothing.
Kind(i) ==
  CASE i \in Workspaces -> "workspace" [] i \in Projects -> "project"
    [] i \in Tasks -> "task"
Event(i, what) == <<Kind(i), what>>
Events(r) ==
  IF reply[r] = "undefined" THEN {} ELSE {Event(req[r].item, reply[r])}

\* Mutant: deleteTask emits task.deleted, as clients hear it, where the gateway
\* listens to task.delete (realtime.gateway.ts:188).
EmitUnheard(r) ==
  /\ pc[r] = "emit"
  /\ told' = [told EXCEPT ![req[r].ws] =
               @ \cup {e \in Events(r) : e[2] \notin Tasks}]
  /\ Finish(r)
  /\ UNCHANGED <<table, unsaid>>

\* The event reaches the room of the route's workspace.
Emit(r) ==
  /\ pc[r] = "emit"
  /\ told' = [told EXCEPT ![req[r].ws] = @ \cup Events(r)]
  /\ Finish(r)
  /\ UNCHANGED <<table, unsaid>>

\* A query fails, or the process stops: what was written stays unsaid.
Fail(r) ==
  /\ pc[r] # "idle"
  /\ unsaid' = unsaid \cup IF pc[r] = "emit" /\ reply[r] # "undefined"
                           THEN {<<req[r].item, reply[r]>>} ELSE {}
  /\ Finish(r)
  /\ UNCHANGED <<table, told>>

Step(r) ==
  \/ Arrive(r) \/ Find(r) \/ ReadRole(r)
  \/ Insert(r) \/ Update(r) \/ Delete(r) \/ Emit(r) \/ Fail(r)

Next == \E r \in Requests : Step(r)

Spec == Init /\ [][Next]_vars

-----------------------------------------------------------------------------
Labels == {"idle", "find", "readRole", "insert", "update", "delete", "emit"}
Asked == [verb : {"none", "create", "update", "delete"}, ws : Workspaces \cup {None},
          item : Rows \cup {None}, into : Parents \cup {None}]
Replies == Texts \cup Rows \cup {None, "undefined"}

\* The shape of every variable; a row has a text (NOT NULL) and a parent of
\* the right kind.
TypeOK ==
  /\ present \subseteq Rows
  /\ parent \in [Items -> Parents \cup {None}]
  /\ text \in [Items -> Texts \cup {None}]
  /\ \A i \in present \cap Items :
       /\ text[i] \in Texts
       /\ parent[i] \in IF i \in Tasks THEN Projects ELSE Workspaces
  /\ told \in [Workspaces -> SUBSET ({"workspace", "project", "task"} \X Replies)]
  /\ pc \in [Requests -> Labels]
  /\ req \in [Requests -> Asked]
  /\ reply \in [Requests -> Replies]
  /\ unsaid \subseteq Rows \X Replies

\* No task is left without its project and no project without its workspace,
\* also when what it is created in is deleted at that moment
\* (task.service.ts:48-78, project.service.ts:29, schema.sql:81, 94).
NoOrphans == \A i \in present \cap Items : parent[i] \in present

\* Although every write is by id alone, the request that writes changes only
\* what is in the workspace its guard was asked about (project.service.ts:44-60,
\* 71-80, task.service.ts:48-78, 102-179, 191-203).
StaysInWorkspace ==
  [][\A i \in Items :
       text'[i] # text[i] \/ (i \in present <=> i \notin present') =>
         \E r \in Requests : /\ pc[r] \in {"insert", "update", "delete"}
                             /\ pc'[r] # pc[r]
                             /\ req[r].ws = WorkspaceOf(i)']_vars

-----------------------------------------------------------------------------
\* The room of a row was told so, is about to be, or a failure prevented it.
Announced(i, what) ==
  \/ Event(i, what) \in told[WorkspaceOf(i)]
  \/ \E r \in Requests : pc[r] = "emit" /\ req[r].item = i /\ reply[r] = what
  \/ <<i, what>> \in unsaid

\* README.md:115, "receive live updates": however requests overlap, the room of
\* a workspace is told what every item of it contains, and of every row that
\* is gone that it or what it was in was deleted; deletions from above are
\* told of the topmost row only (workspace.service.ts:76-89,
\* project.service.ts:28-85, task.service.ts:66-85, 167-209).
NothingUnsaid ==
  /\ \A i \in present \cap Items : Announced(i, text[i])
  /\ \A i \in Rows \ present :
       i \in Workspaces \/ parent[i] # None => \E a \in Above(i) : Announced(a, a)

\* README.md:264, 267 and 270: what a room is told to be deleted was in its
\* workspace, is gone, and does not come back under that id: a client may
\* drop it (workspace.service.ts:76-89, project.service.ts:71-85,
\* task.service.ts:191-209).
DeletionsAreTrue ==
  \A w \in Workspaces, i \in Rows :
    Event(i, i) \in told[w] => i \notin present /\ WorkspaceOf(i) = w
=============================================================================
