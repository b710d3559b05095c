------------------------------ MODULE Listing ------------------------------
(***************************************************************************)
(* getWorkspaces, getProject and getTask: one SELECT with a filter, ORDER  *)
(* BY one column, LIMIT and OFFSET.  A client walks through the pages with *)
(* one query and stops at a page that is not full; between two pages other *)
(* requests insert, change and delete rows.                                *)
(*                                                                         *)
(* The rows are those the JOIN and the ids of the path leave: the tasks of *)
(* a project, the projects of a workspace, the workspaces of a member.  An *)
(* id is never used again.  Titles are numbers in the order of the texts,  *)
(* and a name is a title.                                                  *)
(***************************************************************************)
EXTENDS Naturals, Sequences, SequencesExt

CONSTANTS Lists,      \* of "workspaces", "projects" and "tasks"
          MaxRows,    \* bound: ids 1..MaxRows
          MaxNow,     \* bound: the clock stops there
          MaxChanges, \* bound: edits and deletions in all
          PageSize,   \* 20 in the code
          Contents,   \* what a client writes: title, status, assignedTo, priority
          Queries,    \* what a client asks for: filter, search (the titles it
                      \* matches, all of them for ''), sortBy, sortOrder
          Unset

ASSUME Services == Lists \subseteq {"workspaces", "projects", "tasks"}
ASSUME Positive == PageSize \in Nat \ {0}
ASSUME Bounds == MaxRows \in Nat /\ MaxNow \in Nat \ {0} /\ MaxChanges \in Nat

\* priority is a text: the order is that of the alphabet.
Alphabetical == [high |-> 1, low |-> 2, medium |-> 3, urgent |-> 4]
ASSUME Written ==
  \A c \in Contents : c.title \in Nat /\ c.priority \in DOMAIN Alphabetical

Ids == 1..MaxRows
Titles == {c.title : c \in Contents}

VARIABLES
  list,      \* which list the walk is through
  rows,      \* by id: what a row holds, Unset without one
  next, now, \* the id of the next row, the clock
  query,     \* of the walk, Unset without one
  page,      \* the page it reads next
  state,     \* "idle", "reading", "done", or "failed" with a 500
  shown,     \* the ids it has been shown, in order
  before,    \* history: the rows it was to show when it began
  changes,   \* history: "insert", "edit" and "delete" while it reads
  counter,   \* edits and deletions so far
  tied       \* history: whether two rows had one sort key when it read

table == <<rows, next, now, counter>>
walk == <<query, page, state, shown, before, tied>>
vars == <<list, table, walk, changes>>

Row(created, updated, c) ==
  [createdAt |-> created, updatedAt |-> updated, title |-> c.title,
   status |-> c.status, assignedTo |-> c.assignedTo, priority |-> c.priority]

\* What rows may hold by the time t.
Stored(t) == {Row(created, updated, c) : created, updated \in 1..t, c \in Contents}
ASSUME Sentinel == Unset \notin Stored(MaxNow)

Present == {i \in Ids : rows[i] # Unset}

-----------------------------------------------------------------------------
(* The SELECT                                                              *)

\* What the DTOs let through, the same for every list.
Queryable ==
  [filter : [status : {"pending", "done", "failed", Unset}, assignedTo : Nat \cup {Unset},
             priority : {"low", "medium", "high", "urgent", Unset}],
   search : SUBSET Titles,
   sortBy : {"createdAt", "updatedAt", "priority", "title", Unset},
   sortOrder : {"asc", "desc", Unset}]
ASSUME Validated == Queries \subseteq Queryable

TaskColumns == {"createdAt", "updatedAt", "priority", "title", "status"}
ProjectColumns == {"createdAt", "updatedAt"}
WorkspaceColumns == {"createdAt", "updatedAt"}
SortColumns == CASE list = "tasks" -> TaskColumns
                 [] list = "projects" -> ProjectColumns
                 [] list = "workspaces" -> WorkspaceColumns

Column(q) == IF q.sortBy = Unset THEN "createdAt" ELSE q.sortBy

Key(q, i) == IF Column(q) = "priority"
             THEN Alphabetical[rows[i].priority]
             ELSE rows[i][Column(q)]

Follows(q, k, l) == IF q.sortOrder = "asc" THEN k > l ELSE k < l

\* What each service's WHERE leaves.  The filters that a list of projects or of
\* workspaces is sent have no effect.
Searched(q) == {i \in Present : rows[i].title \in q.search}
GetTask(q) ==
  {i \in Searched(q) : \A c \in {"status", "assignedTo", "priority"} :
                         q.filter[c] # Unset => rows[i][c] = q.filter[c]}
GetProject(q) == Searched(q)
GetWorkspaces(q) == Searched(q)
Matching(q) == CASE list = "tasks" -> GetTask(q)
                 [] list = "projects" -> GetProject(q)
                 [] list = "workspaces" -> GetWorkspaces(q)

\* Mutant: the query lost its ORDER BY.
Unordered(q) == SetToSeqs(Matching(q))

\* Rows of one key come in any order, another one each time.
Ordered(q) ==
  {s \in SetToSeqs(Matching(q)) :
     \A m, n \in DOMAIN s : m < n => ~Follows(q, Key(q, s[m]), Key(q, s[n]))}

\* Mutants: the pages counted from 0; a 21st row asked for, to know of a next
\* page, and left in the answer.
OffsetFromZero(p) == p * PageSize
LimitAndOne == PageSize + 1
Offset(p) == (p - 1) * PageSize
Limit == PageSize

Page(s, p) ==
  SubSeq(s, Offset(p) + 1, Min({Len(s), Offset(p) + Limit}))

-----------------------------------------------------------------------------
(* The client                                                              *)

Start ==
  /\ state = "idle" /\ state' = "reading"
  /\ query' \in Queries
  /\ before' = Matching(query')
  /\ UNCHANGED <<list, table, page, shown, changes, tied>>

\* One statement, so one state of the table.  A sortBy the list has no column
\* for gives ORDER BY undefined, which the database refuses.
ReadPage ==
  /\ state = "reading"
  /\ IF Column(query) \notin SortColumns
     THEN /\ state' = "failed"
          /\ UNCHANGED <<page, shown, tied>>
     ELSE /\ \E s \in Ordered(query) :
               /\ shown' = shown \o Page(s, page)
               /\ state' = IF Len(Page(s, page)) < PageSize
                           THEN "done" ELSE "reading"
          /\ page' = page + 1
          /\ tied' = (tied \/ \E i, j \in Matching(query) :
                                i # j /\ Key(query, i) = Key(query, j))
  /\ UNCHANGED <<list, table, query, before, changes>>

\* The client may start again.
Leave ==
  /\ state \in {"done", "failed"}
  /\ query' = Unset /\ page' = 1 /\ state' = "idle" /\ shown' = <<>>
  /\ before' = {} /\ changes' = {} /\ tied' = FALSE
  /\ UNCHANGED <<list, table>>

-----------------------------------------------------------------------------
(* Everybody else                                                          *)

\* When a walk is over, a change before Leave is no other than one after it.
Changed(kind) ==
  /\ state \in {"idle", "reading"}
  /\ changes' = IF state = "reading" THEN changes \cup {kind} ELSE changes
  /\ UNCHANGED <<list, walk>>

Counted == counter < MaxChanges /\ counter' = counter + 1

\* Time passes or does not.  The clocks of the process and of the database,
\* which both write updated_at, are taken to agree.
Tick == now' \in {now, now + 1} /\ now' <= MaxNow

\* A row is created, or the user joins a workspace that is older than that.
Insert ==
  /\ next \in Ids
  /\ Tick
  /\ \E c \in Contents, t \in IF list = "workspaces" THEN 1..now' ELSE {now'} :
       rows' = [rows EXCEPT ![next] = Row(t, t, c)]
  /\ next' = next + 1
  /\ UNCHANGED counter
  /\ Changed("insert")

\* Mutant: the row is inserted anew.
EditAnew(i) ==
  /\ i \in Present
  /\ Tick
  /\ \E c \in Contents : rows' = [rows EXCEPT ![i] = Row(now', now', c)]
  /\ Counted /\ UNCHANGED next
  /\ Changed("edit")

\* updateTask leaves updated_at as it is, and so does the schema, whose trigger
\* function is attached to no table.
Edit(i) ==
  /\ i \in Present
  /\ Tick
  /\ \E c \in Contents :
       rows' = [rows EXCEPT ![i] =
                  Row(@.createdAt, IF list = "tasks" THEN @.updatedAt ELSE now', c)]
  /\ Counted /\ UNCHANGED next
  /\ Changed("edit")

\* A row is deleted, with the one it belongs to or alone; or the user leaves
\* the workspace.
Delete(i) ==
  /\ i \in Present
  /\ rows' = [rows EXCEPT ![i] = Unset]
  /\ Counted /\ UNCHANGED <<next, now>>
  /\ Changed("delete")

Init ==
  /\ list \in Lists
  /\ rows = [i \in Ids |-> Unset] /\ next = 1 /\ now = 1 /\ counter = 0
  /\ query = Unset /\ page = 1 /\ state = "idle" /\ shown = <<>>
  /\ before = {} /\ changes = {} /\ tied = FALSE

Next ==
  \/ Start \/ ReadPage \/ Leave \/ Insert
  \/ \E i \in Ids : Edit(i) \/ Delete(i)

Spec == Init /\ [][Next]_vars

-----------------------------------------------------------------------------
\* The shape of every variable; page is never below 1 (task.dto.ts:112-115,
\* workspace.dto.ts:33-37), where OFFSET would be negative.
TypeOK ==
  /\ list \in Lists
  /\ rows \in [Ids -> Stored(now) \cup {Unset}]
  /\ \A i \in Present : i < next
  /\ next \in 1..MaxRows + 1 /\ now \in 1..MaxNow /\ counter \in 0..MaxChanges
  /\ query \in Queries \cup {Unset}
  /\ page \in Nat \ {0}
  /\ state \in {"idle", "reading", "done", "failed"}
  /\ shown \in Seq(Ids)
  /\ before \subseteq Ids
  /\ changes \subseteq {"insert", "edit", "delete"} /\ tied \in BOOLEAN

\* An edit can neither move a row nor hide it when nothing it writes is sorted
\* or filtered by.
Indifferent(q) ==
  /\ Column(q) \in {"createdAt"} \cup IF list = "tasks" THEN {"updatedAt"} ELSE {}
  /\ list = "tasks" => \A c \in DOMAIN q.filter : q.filter[c] = Unset
  /\ q.search = Titles
Disturbances == IF Indifferent(query) THEN changes \ {"edit"} ELSE changes

\* The rows that come before a key, and those that do not come behind it.
Ahead(q, S, k) == {i \in S : Follows(q, k, Key(q, i))}
UpTo(q, S, k) == {i \in S : ~Follows(q, Key(q, i), k)}

\* Rows shown in the order of their keys: each may be the n-th one.
InOrder(q, S) ==
  /\ Range(shown) \subseteq S
  /\ \A n \in DOMAIN shown :
       LET k == Key(q, shown[n])
       IN Cardinality(Ahead(q, S, k)) < n /\ n <= Cardinality(UpTo(q, S, k))

\* A walk nothing disturbed shows as many rows as there are, in order; it
\* mistakes a row only for another of the same key, so that each row whose key
\* is its own is shown once (task.service.ts:233-280).
WalkExact ==
  state = "done" /\ Disturbances = {} =>
    Len(shown) = Cardinality(before) /\ InOrder(query, before)

\* Rows that are inserted, before, behind or between the pages already read,
\* hide none of those that were there, unless keys are tied
\* (task.service.ts:277-280).
InsertionsNeverHide ==
  state = "done" /\ Disturbances \subseteq {"insert"} /\ ~tied =>
    before \subseteq Range(shown)

\* Rows that are deleted make no other be shown twice, unless keys are tied
\* (task.service.ts:277-280).
DeletionsNeverRepeat ==
  state \in {"reading", "done"} /\ Disturbances \subseteq {"delete"} /\ ~tied =>
    IsInjective(shown)
=============================================================================
