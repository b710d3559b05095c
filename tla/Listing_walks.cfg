\* Pages of one row, three rows in all, one of them edited or deleted.
CONSTANTS
  Lists <- AllLists
  MaxRows = 3
  MaxNow = 3
  MaxChanges = 1
  PageSize = 1
  Contents <- MCContents
  Queries <- MCQueries
  Unset = Unset
SPECIFICATION Spec
INVARIANTS WalkExact InsertionsNeverHide DeletionsNeverRepeat
