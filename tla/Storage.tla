------------------------------ MODULE Storage ------------------------------
(***************************************************************************)
(* StorageService: signed upload and download links, the objects in the    *)
(* bucket, and the files rows that name them.  The client writes to the    *)
(* bucket on its own; the service only looks at it (HEAD) and writes the   *)
(* row afterwards, so object and row are never changed in one step.        *)
(*                                                                         *)
(* A storage key is <<task, file>>: the workspace and the project of the   *)
(* path are those of the task, or the JOINs find nothing.  An object is    *)
(* what HEAD tells of it, its type and length.                             *)
(***************************************************************************)
EXTENDS Naturals

CONSTANTS Tasks, Files,    \* ids of tasks, and the uuids randomUUID may give
          Objects,         \* what a client may upload
          Incomplete,      \* those HEAD tells no length or no type of
          Requests,        \* requests the server may be handling at one time
          None

ASSUME Sentinel == None \notin Objects
ASSUME IncompleteObjects == Incomplete \subseteq Objects

Keys == Tasks \X Files

VARIABLES
  tasks,      \* tasks that exist; ids are never used again
  issued,     \* keys an upload link was signed for
  urls,       \* keys whose upload link has not expired
  bucket,     \* the object under a key
  rowId, rowOf,  \* id of a key's row in files, 0 without one, and its metadata
  serial,     \* rows inserted so far; their ids count up (those a conflict or
              \* a refused INSERT uses up are left out)
  links,      \* keys a download link was signed for
  pc, key,    \* a request, and the key it works for
  object,     \* confirmUpload's object: what HEAD told
  found,      \* the row id confirmUpload is about to answer
  answers,    \* history: <<key, id>> answered by confirmUpload
  seen,       \* history: keys HEAD has found an object under
  rewritten   \* history: those of them uploaded to again

store == <<issued, urls, bucket, links>>
table == <<tasks, rowId, rowOf, serial>>
request == <<key, object, found>>
history == <<answers, seen, rewritten>>
vars == <<store, table, pc, request, history>>

Init ==
  /\ tasks = Tasks
  /\ issued = {} /\ urls = {} /\ links = {}
  /\ bucket = [k \in Keys |-> None]
  /\ rowId = [k \in Keys |-> 0] /\ rowOf = [k \in Keys |-> None]
  /\ serial = 0
  /\ pc = [r \in Requests |-> "idle"]
  /\ key = [r \in Requests |-> None]
  /\ object = [r \in Requests |-> None]
  /\ found = [r \in Requests |-> 0]
  /\ answers = {} /\ seen = {} /\ rewritten = {}

Goto(r, label) == pc' = [pc EXCEPT ![r] = label]

Finish(r) ==
  /\ Goto(r, "idle")
  /\ key' = [key EXCEPT ![r] = None]
  /\ object' = [object EXCEPT ![r] = None]
  /\ found' = [found EXCEPT ![r] = 0]

-----------------------------------------------------------------------------
(* createUploadUrl                                                         *)

\* A task that is not found is a 404, and changes nothing.  The fileId is made
\* here: any uuid that was never made before.
CreateUploadUrl(r) ==
  /\ pc[r] = "idle"
  /\ \E t \in tasks, f \in Files :
       /\ \A s \in Tasks : <<s, f>> \notin issued
       /\ \A s \in Requests : pc[s] = "sign" => key[s][2] # f
       /\ key' = [key EXCEPT ![r] = <<t, f>>]
  /\ Goto(r, "sign")
  /\ UNCHANGED <<store, table, object, found, history>>

\* getSignedUrl looks at nothing: the task may be gone by now.
SignUpload(r) ==
  /\ pc[r] = "sign"
  /\ issued' = issued \cup {key[r]}
  /\ urls' = urls \cup {key[r]}
  /\ Finish(r)
  /\ UNCHANGED <<bucket, links, table, history>>

\* A client uploads with a link, any number of times until it expires.
Put(k) ==
  /\ k \in urls
  /\ \E o \in Objects : bucket' = [bucket EXCEPT ![k] = o]
  /\ rewritten' = rewritten \cup ({k} \cap seen)
  /\ UNCHANGED <<issued, urls, links, table, pc, request, answers, seen>>

\* expiresIn: 900 seconds after it was signed.
Expire(k) ==
  /\ k \in urls
  /\ urls' = urls \ {k}
  /\ UNCHANGED <<issued, bucket, links, table, pc, request, history>>

-----------------------------------------------------------------------------
(* confirmUpload                                                           *)

\* Any taskId and fileId a client may send; the task is looked up first.
ConfirmUpload(r) ==
  /\ pc[r] = "idle"
  /\ \E k \in Keys : k[1] \in tasks /\ key' = [key EXCEPT ![r] = k]
  /\ Goto(r, "head")
  /\ UNCHANGED <<store, table, object, found, history>>

\* Mutant: the client says what it has uploaded (lines 110-111).
HeadClaimed(r) ==
  /\ pc[r] = "head"
  /\ bucket[key[r]] # None
  /\ \E o \in Objects \ Incomplete : object' = [object EXCEPT ![r] = o]
  /\ seen' = seen \cup {key[r]}
  /\ Goto(r, "insert")
  /\ UNCHANGED <<store, table, key, found, answers, rewritten>>

\* A 400 when nothing is there, or not enough is told of it.
HeadObject(r) ==
  /\ pc[r] = "head"
  /\ IF bucket[key[r]] \in Objects \ Incomplete
     THEN /\ object' = [object EXCEPT ![r] = bucket[key[r]]]
          /\ Goto(r, "insert")
          /\ UNCHANGED <<key, found>>
     ELSE Finish(r)
  /\ seen' = IF bucket[key[r]] = None THEN seen ELSE seen \cup {key[r]}
  /\ UNCHANGED <<store, table, answers, rewritten>>

\* A row of a new id, with the metadata HEAD has told.
InsertRow(r) ==
  /\ serial' = serial + 1
  /\ rowId' = [rowId EXCEPT ![key[r]] = serial + 1]
  /\ rowOf' = [rowOf EXCEPT ![key[r]] = object[r]]
  /\ found' = [found EXCEPT ![r] = serial + 1]
  /\ Goto(r, "answer")
  /\ UNCHANGED <<tasks, key, object>>

\* Mutants: no foreign key; no unique key, so that every confirmation inserts a
\* row of its own and answers it; the id the sequence gives out is answered
\* whether or not a row was inserted (schema.sql:141-142, storage.service.ts:104-125).
InsertUnchecked(r) ==
  /\ pc[r] = "insert" /\ rowId[key[r]] = 0
  /\ InsertRow(r)
  /\ UNCHANGED <<store, history>>
InsertAlways(r) ==
  /\ pc[r] = "insert" /\ key[r][1] \in tasks
  /\ InsertRow(r)
  /\ UNCHANGED <<store, history>>
InsertAnswering(r) ==
  /\ pc[r] = "insert" /\ key[r][1] \in tasks
  /\ serial' = serial + 1
  /\ IF rowId[key[r]] = 0
     THEN /\ rowId' = [rowId EXCEPT ![key[r]] = serial']
          /\ rowOf' = [rowOf EXCEPT ![key[r]] = object[r]]
     ELSE UNCHANGED <<rowId, rowOf>>
  /\ found' = [found EXCEPT ![r] = serial']
  /\ Goto(r, "answer")
  /\ UNCHANGED <<tasks, key, object, store, history>>

\* A row under the key is left as it is and looked up next; else the foreign
\* key refuses a task that is gone.
InsertFile(r) ==
  /\ pc[r] = "insert"
  /\ \/ /\ rowId[key[r]] # 0
        /\ Goto(r, "select")
        /\ UNCHANGED <<table, request>>
     \/ /\ rowId[key[r]] = 0 /\ key[r][1] \in tasks
        /\ InsertRow(r)
     \/ /\ rowId[key[r]] = 0 /\ key[r][1] \notin tasks
        /\ Finish(r)
        /\ UNCHANGED table
  /\ UNCHANGED <<store, history>>

\* existing.rows[0] is undefined when the task has been deleted since: a 500.
SelectExisting(r) ==
  /\ pc[r] = "select"
  /\ IF rowId[key[r]] = 0
     THEN Finish(r)
     ELSE /\ found' = [found EXCEPT ![r] = rowId[key[r]]]
          /\ Goto(r, "answer")
          /\ UNCHANGED <<key, object>>
  /\ UNCHANGED <<store, table, history>>

\* The client learns of the row; until then a failure makes it try again.
Answer(r) ==
  /\ pc[r] = "answer"
  /\ answers' = answers \cup {<<key[r], found[r]>>}
  /\ Finish(r)
  /\ UNCHANGED <<store, table, seen, rewritten>>

-----------------------------------------------------------------------------
(* getFile                                                                 *)

\* A key without a row is a 404.
GetFile(r) ==
  /\ pc[r] = "idle"
  /\ \E k \in Keys : rowId[k] # 0 /\ key' = [key EXCEPT ![r] = k]
  /\ Goto(r, "signGet")
  /\ UNCHANGED <<store, table, object, found, history>>

SignDownload(r) ==
  /\ pc[r] = "signGet"
  /\ links' = links \cup {key[r]}
  /\ Finish(r)
  /\ UNCHANGED <<issued, urls, bucket, table, history>>

-----------------------------------------------------------------------------
(* The rest of the program                                                 *)

\* The files rows of a task go with it, by whatever DELETE it goes.  Nothing
\* deletes an object.
DeleteTask(t) ==
  /\ t \in tasks
  /\ tasks' = tasks \ {t}
  /\ rowId' = [k \in Keys |-> IF k[1] = t THEN 0 ELSE rowId[k]]
  /\ rowOf' = [k \in Keys |-> IF k[1] = t THEN None ELSE rowOf[k]]
  /\ UNCHANGED <<store, serial, pc, request, history>>

\* A query or the storage service fails, or the process stops.
Fail(r) == pc[r] # "idle" /\ Finish(r) /\ UNCHANGED <<store, table, history>>

Next ==
  \/ \E r \in Requests :
       \/ CreateUploadUrl(r) \/ SignUpload(r)
       \/ ConfirmUpload(r) \/ HeadObject(r) \/ InsertFile(r)
       \/ SelectExisting(r) \/ Answer(r)
       \/ GetFile(r) \/ SignDownload(r) \/ Fail(r)
  \/ \E k \in Keys : Put(k) \/ Expire(k)
  \/ \E t \in Tasks : DeleteTask(t)

Spec == Init /\ [][Next]_vars

-----------------------------------------------------------------------------
Labels == {"idle", "sign", "head", "insert", "select", "answer", "signGet"}
Described == Objects \ Incomplete

\* The shape of every variable; no column of files is null (schema.sql:139-147).
TypeOK ==
  /\ tasks \subseteq Tasks
  /\ issued \subseteq Keys /\ urls \subseteq Keys /\ links \subseteq Keys
  /\ bucket \in [Keys -> Objects \cup {None}]
  /\ rowId \in [Keys -> Nat] /\ serial \in Nat
  /\ rowOf \in [Keys -> Described \cup {None}]
  /\ \A k \in Keys : rowId[k] = 0 <=> rowOf[k] = None
  /\ pc \in [Requests -> Labels]
  /\ key \in [Requests -> Keys \cup {None}]
  /\ object \in [Requests -> Described \cup {None}]
  /\ found \in [Requests -> Nat]
  /\ answers \subseteq Keys \X Nat
  /\ seen \subseteq Keys /\ rewritten \subseteq Keys

\* Every files row names an object that is in the bucket, under its own task,
\* however late the row was written (storage.service.ts:85-98).
FiledIsStored == \A k \in Keys : rowId[k] # 0 => bucket[k] # None

\* The type and the length in a row are those of its object, unless the client
\* used its link again after the service had looked (storage.service.ts:85-91,
\* 100-114; the link lasts 900 seconds, line 56).
RowTellsObject ==
  \A k \in Keys \ rewritten : rowId[k] # 0 => rowOf[k] = bucket[k]

\* No row is left of a task that was deleted while its upload was being
\* confirmed (storage.service.ts:70-114, schema.sql:141).
NoFileOutlivesTask == \A k \in Keys : rowId[k] # 0 => k[1] \in tasks

\* Confirming again, at the same time, after an answer that was lost, or with
\* another name, answers the same id (storage.service.ts:104-125).
ConfirmsAgree ==
  \A a, b \in answers : a[1] = b[1] => a[2] = b[2]

\* A confirmation holds as long as its task: the id that was answered is the
\* id of the file's row, whoever confirms it again (storage.service.ts:116-125).
ConfirmationLasts ==
  \A a \in answers : a[1][1] \in tasks => rowId[a[1]] = a[2]

\* A download link leads to an object, also when the file it was asked for has
\* been deleted since (storage.service.ts:136-159).
LinkFindsObject == \A k \in links : bucket[k] # None
=============================================================================
