----------------------------- MODULE MCListing -----------------------------
(* Listing on small instances.  The alphabet has "high" before "urgent".   *)
EXTENDS Listing

AllLists == {"workspaces", "projects", "tasks"}
MCContents ==
  {[title |-> 1, status |-> "pending", assignedTo |-> 1, priority |-> "urgent"],
   [title |-> 2, status |-> "done", assignedTo |-> Unset, priority |-> "high"]}
NoFilter == [status |-> Unset, assignedTo |-> Unset, priority |-> Unset]
Query(f, s, b, o) == [filter |-> f, search |-> s, sortBy |-> b, sortOrder |-> o]

\* Every column, both directions, and every filter at least once.
MCQueries ==
  {Query(NoFilter, Titles, b, o) :
     b \in {"createdAt", "title"}, o \in {"asc", "desc"}}
  \cup
  {Query(NoFilter, Titles, "updatedAt", "desc"),
   Query(NoFilter, Titles, "priority", "asc"),
   Query(NoFilter, {2}, Unset, Unset),
   Query([NoFilter EXCEPT !.assignedTo = 1, !.priority = "urgent"], Titles, "updatedAt", "asc"),
   Query([NoFilter EXCEPT !.status = "done"], Titles, "createdAt", "asc")}
=============================================================================
