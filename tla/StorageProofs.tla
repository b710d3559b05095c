--------------------------- MODULE StorageProofs ---------------------------
(* Proofs about Storage, for any tasks, uploads, objects and requests.     *)
EXTENDS Storage, TLAPS

\* A request under way has a key at hand.
KeyHeld == \A r \in Requests : pc[r] # "idle" => key[r] \in Keys

\* What HEAD told is still there, and still true unless it was uploaded to
\* again; a row or a link rests on what was there.
Looked ==
  /\ \A r \in Requests : pc[r] = "insert" =>
       /\ object[r] # None /\ key[r] \in seen
       /\ key[r] \notin rewritten => object[r] = bucket[key[r]]
  /\ \A k \in Keys : rowId[k] # 0 => k \in seen
  /\ \A k \in seen : bucket[k] # None
  /\ \A r \in Requests : pc[r] = "signGet" => bucket[key[r]] # None

\* An id about to be answered is the row's, as long as there is one, and the
\* one that every other answer for the key gives.
FoundFits ==
  /\ \A r \in Requests : pc[r] = "answer" =>
       /\ found[r] # 0
       /\ key[r][1] \in tasks => rowId[key[r]] = found[r]
       /\ \A s \in Requests : pc[s] = "answer" /\ key[s] = key[r] =>
            found[s] = found[r]
       /\ \A a \in answers : a[1] = key[r] => a[2] = found[r]
  /\ \A a \in answers : a[2] # 0

IInv ==
  /\ TypeOK /\ KeyHeld /\ Looked /\ FoundFits
  /\ FiledIsStored /\ RowTellsObject /\ NoFileOutlivesTask
  /\ ConfirmsAgree /\ ConfirmationLasts /\ LinkFindsObject

-----------------------------------------------------------------------------
\* Every step keeps the types.
LEMMA TypeStep ==
  ASSUME TypeOK, KeyHeld, Looked, [Next]_vars
  PROVE  TypeOK'
<1> USE Sentinel, IncompleteObjects DEF TypeOK, KeyHeld, Looked, Labels, Keys, Described, vars, store, table, request, history
<1>1. ASSUME NEW r \in Requests, CreateUploadUrl(r) PROVE TypeOK'
  BY <1>1 DEF CreateUploadUrl, Goto
<1>2. ASSUME NEW r \in Requests, SignUpload(r) PROVE TypeOK'
  BY <1>2 DEF SignUpload, Finish, Goto
<1>3. ASSUME NEW r \in Requests, ConfirmUpload(r) PROVE TypeOK'
  BY <1>3 DEF ConfirmUpload, Goto
<1>4. ASSUME NEW r \in Requests, HeadObject(r) PROVE TypeOK'
  <2>1. UNCHANGED <<store, table, answers, rewritten>> /\ seen' \subseteq seen \cup {key[r]}
    BY <1>4 DEF HeadObject
  <2>2. pc[r] = "head" /\ key[r] \in Keys
    BY <1>4 DEF HeadObject
  <2>3. CASE Finish(r)
    BY <2>1, <2>2, <2>3 DEF Finish, Goto
  <2>4. CASE /\ bucket[key[r]] \in Objects \ Incomplete
             /\ object' = [object EXCEPT ![r] = bucket[key[r]]]
             /\ Goto(r, "insert")
             /\ UNCHANGED <<key, found>>
    BY <2>1, <2>2, <2>4 DEF Goto
  <2> QED
    BY <1>4, <2>3, <2>4 DEF HeadObject
<1>5. ASSUME NEW r \in Requests, InsertFile(r) PROVE TypeOK'
  <2>1. /\ pc[r] = "insert" /\ key[r] \in Keys
        /\ object[r] \in Objects \ Incomplete
        /\ UNCHANGED <<store, history>>
    BY <1>5 DEF InsertFile
  <2>2. CASE Goto(r, "select") /\ UNCHANGED <<table, request>>
    BY <2>1, <2>2 DEF Goto
  <2>3. CASE InsertRow(r)
    <3>1. \A k \in Keys : rowId'[k] = 0 <=> rowOf'[k] = None
      BY <2>1, <2>3 DEF InsertRow
    <3> QED
      BY <2>1, <2>3, <3>1 DEF InsertRow, Goto
  <2>4. CASE Finish(r) /\ UNCHANGED table
    BY <2>1, <2>4 DEF Finish, Goto
  <2> QED
    BY <1>5, <2>2, <2>3, <2>4 DEF InsertFile
<1>6. ASSUME NEW r \in Requests, SelectExisting(r) PROVE TypeOK'
  <2>1. pc[r] = "select" /\ key[r] \in Keys /\ UNCHANGED <<store, table, history>>
    BY <1>6 DEF SelectExisting
  <2>2. CASE Finish(r)
    BY <2>1, <2>2 DEF Finish, Goto
  <2>3. CASE /\ found' = [found EXCEPT ![r] = rowId[key[r]]]
             /\ Goto(r, "answer")
             /\ UNCHANGED <<key, object>>
    BY <2>1, <2>3 DEF Goto
  <2> QED
    BY <1>6, <2>2, <2>3 DEF SelectExisting
<1>7. ASSUME NEW r \in Requests, Answer(r) PROVE TypeOK'
  BY <1>7 DEF Answer, Finish, Goto
<1>8. ASSUME NEW r \in Requests, GetFile(r) PROVE TypeOK'
  BY <1>8 DEF GetFile, Goto
<1>9. ASSUME NEW r \in Requests, SignDownload(r) PROVE TypeOK'
  BY <1>9 DEF SignDownload, Finish, Goto
<1>10. ASSUME NEW r \in Requests, Fail(r) PROVE TypeOK'
  BY <1>10 DEF Fail, Finish, Goto
<1>11. ASSUME NEW k \in Keys, Put(k) PROVE TypeOK'
  BY <1>11 DEF Put
<1>12. ASSUME NEW k \in Keys, Expire(k) PROVE TypeOK'
  BY <1>12 DEF Expire
<1>13. ASSUME NEW t \in Tasks, DeleteTask(t) PROVE TypeOK'
  BY <1>13 DEF DeleteTask
<1>14. CASE UNCHANGED vars
  BY <1>14
<1> QED
  BY <1>1, <1>2, <1>3, <1>4, <1>5, <1>6, <1>7, <1>8, <1>9, <1>10, <1>11, <1>12, <1>13, <1>14 DEF Next

\* Requests keep their keys.
LEMMA KeyStep ==
  ASSUME TypeOK, KeyHeld, [Next]_vars
  PROVE  KeyHeld'
<1> USE Sentinel, IncompleteObjects DEF TypeOK, KeyHeld, Keys, Described, vars, store, table, request, history
<1>1. ASSUME NEW r \in Requests, CreateUploadUrl(r) PROVE KeyHeld'
  BY <1>1 DEF CreateUploadUrl, Goto
<1>2. ASSUME NEW r \in Requests, SignUpload(r) PROVE KeyHeld'
  BY <1>2 DEF SignUpload, Finish, Goto
<1>3. ASSUME NEW r \in Requests, ConfirmUpload(r) PROVE KeyHeld'
  BY <1>3 DEF ConfirmUpload, Goto
<1>4. ASSUME NEW r \in Requests, HeadObject(r) PROVE KeyHeld'
  BY <1>4 DEF HeadObject, Finish, Goto
<1>5. ASSUME NEW r \in Requests, InsertFile(r) PROVE KeyHeld'
  BY <1>5 DEF InsertFile, InsertRow, Finish, Goto
<1>6. ASSUME NEW r \in Requests, SelectExisting(r) PROVE KeyHeld'
  BY <1>6 DEF SelectExisting, Finish, Goto
<1>7. ASSUME NEW r \in Requests, Answer(r) PROVE KeyHeld'
  BY <1>7 DEF Answer, Finish, Goto
<1>8. ASSUME NEW r \in Requests, GetFile(r) PROVE KeyHeld'
  BY <1>8 DEF GetFile, Goto
<1>9. ASSUME NEW r \in Requests, SignDownload(r) PROVE KeyHeld'
  BY <1>9 DEF SignDownload, Finish, Goto
<1>10. ASSUME NEW r \in Requests, Fail(r) PROVE KeyHeld'
  BY <1>10 DEF Fail, Finish, Goto
<1>11. ASSUME NEW k \in Keys, Put(k) PROVE KeyHeld'
  BY <1>11 DEF Put
<1>12. ASSUME NEW k \in Keys, Expire(k) PROVE KeyHeld'
  BY <1>12 DEF Expire
<1>13. ASSUME NEW t \in Tasks, DeleteTask(t) PROVE KeyHeld'
  BY <1>13 DEF DeleteTask
<1>14. CASE UNCHANGED vars
  BY <1>14
<1> QED
  BY <1>1, <1>2, <1>3, <1>4, <1>5, <1>6, <1>7, <1>8, <1>9, <1>10, <1>11, <1>12, <1>13, <1>14 DEF Next

\* Nothing takes an object away, and only an upload changes one.
LEMMA LookedStep ==
  ASSUME TypeOK, KeyHeld, Looked, [Next]_vars
  PROVE  Looked'
<1> USE Sentinel, IncompleteObjects DEF TypeOK, KeyHeld, Looked, Keys, Described, vars, store, table, request, history
<1>1. ASSUME NEW r \in Requests, CreateUploadUrl(r) PROVE Looked'
  BY <1>1 DEF CreateUploadUrl, Goto
<1>2. ASSUME NEW r \in Requests, SignUpload(r) PROVE Looked'
  BY <1>2 DEF SignUpload, Finish, Goto
<1>3. ASSUME NEW r \in Requests, ConfirmUpload(r) PROVE Looked'
  BY <1>3 DEF ConfirmUpload, Goto
<1>4. ASSUME NEW r \in Requests, HeadObject(r) PROVE Looked'
  BY <1>4 DEF HeadObject, Finish, Goto
<1>5. ASSUME NEW r \in Requests, InsertFile(r) PROVE Looked'
  BY <1>5 DEF InsertFile, InsertRow, Finish, Goto
<1>6. ASSUME NEW r \in Requests, SelectExisting(r) PROVE Looked'
  BY <1>6 DEF SelectExisting, Finish, Goto
<1>7. ASSUME NEW r \in Requests, Answer(r) PROVE Looked'
  BY <1>7 DEF Answer, Finish, Goto
<1>8. ASSUME NEW r \in Requests, GetFile(r) PROVE Looked'
  BY <1>8 DEF GetFile, Goto
<1>9. ASSUME NEW r \in Requests, SignDownload(r) PROVE Looked'
  BY <1>9 DEF SignDownload, Finish, Goto
<1>10. ASSUME NEW r \in Requests, Fail(r) PROVE Looked'
  BY <1>10 DEF Fail, Finish, Goto
<1>11. ASSUME NEW k \in Keys, Put(k) PROVE Looked'
  BY <1>11 DEF Put
<1>12. ASSUME NEW k \in Keys, Expire(k) PROVE Looked'
  BY <1>12 DEF Expire
<1>13. ASSUME NEW t \in Tasks, DeleteTask(t) PROVE Looked'
  BY <1>13 DEF DeleteTask
<1>14. CASE UNCHANGED vars
  BY <1>14
<1> QED
  BY <1>1, <1>2, <1>3, <1>4, <1>5, <1>6, <1>7, <1>8, <1>9, <1>10, <1>11, <1>12, <1>13, <1>14 DEF Next

\* The foreign key and the cascade leave no row behind.
LEMMA TaskStep ==
  ASSUME TypeOK, KeyHeld, NoFileOutlivesTask, [Next]_vars
  PROVE  NoFileOutlivesTask'
<1> USE Sentinel, IncompleteObjects DEF TypeOK, KeyHeld, NoFileOutlivesTask, Keys, Described, vars, store, table, request, history
<1>1. ASSUME NEW r \in Requests, CreateUploadUrl(r) PROVE NoFileOutlivesTask'
  BY <1>1 DEF CreateUploadUrl, Goto
<1>2. ASSUME NEW r \in Requests, SignUpload(r) PROVE NoFileOutlivesTask'
  BY <1>2 DEF SignUpload, Finish, Goto
<1>3. ASSUME NEW r \in Requests, ConfirmUpload(r) PROVE NoFileOutlivesTask'
  BY <1>3 DEF ConfirmUpload, Goto
<1>4. ASSUME NEW r \in Requests, HeadObject(r) PROVE NoFileOutlivesTask'
  BY <1>4 DEF HeadObject, Finish, Goto
<1>5. ASSUME NEW r \in Requests, InsertFile(r) PROVE NoFileOutlivesTask'
  BY <1>5 DEF InsertFile, InsertRow, Finish, Goto
<1>6. ASSUME NEW r \in Requests, SelectExisting(r) PROVE NoFileOutlivesTask'
  BY <1>6 DEF SelectExisting, Finish, Goto
<1>7. ASSUME NEW r \in Requests, Answer(r) PROVE NoFileOutlivesTask'
  BY <1>7 DEF Answer, Finish, Goto
<1>8. ASSUME NEW r \in Requests, GetFile(r) PROVE NoFileOutlivesTask'
  BY <1>8 DEF GetFile, Goto
<1>9. ASSUME NEW r \in Requests, SignDownload(r) PROVE NoFileOutlivesTask'
  BY <1>9 DEF SignDownload, Finish, Goto
<1>10. ASSUME NEW r \in Requests, Fail(r) PROVE NoFileOutlivesTask'
  BY <1>10 DEF Fail, Finish, Goto
<1>11. ASSUME NEW k \in Keys, Put(k) PROVE NoFileOutlivesTask'
  BY <1>11 DEF Put
<1>12. ASSUME NEW k \in Keys, Expire(k) PROVE NoFileOutlivesTask'
  BY <1>12 DEF Expire
<1>13. ASSUME NEW t \in Tasks, DeleteTask(t) PROVE NoFileOutlivesTask'
  BY <1>13 DEF DeleteTask
<1>14. CASE UNCHANGED vars
  BY <1>14
<1> QED
  BY <1>1, <1>2, <1>3, <1>4, <1>5, <1>6, <1>7, <1>8, <1>9, <1>10, <1>11, <1>12, <1>13, <1>14 DEF Next

\* Rows are of objects that stay.
LEMMA StoredStep ==
  ASSUME TypeOK, KeyHeld, Looked, FiledIsStored, [Next]_vars
  PROVE  FiledIsStored'
<1> USE Sentinel, IncompleteObjects DEF TypeOK, KeyHeld, Looked, FiledIsStored, Keys, Described, vars, store, table, request, history
<1>1. ASSUME NEW r \in Requests, CreateUploadUrl(r) PROVE FiledIsStored'
  BY <1>1 DEF CreateUploadUrl, Goto
<1>2. ASSUME NEW r \in Requests, SignUpload(r) PROVE FiledIsStored'
  BY <1>2 DEF SignUpload, Finish, Goto
<1>3. ASSUME NEW r \in Requests, ConfirmUpload(r) PROVE FiledIsStored'
  BY <1>3 DEF ConfirmUpload, Goto
<1>4. ASSUME NEW r \in Requests, HeadObject(r) PROVE FiledIsStored'
  BY <1>4 DEF HeadObject, Finish, Goto
<1>5. ASSUME NEW r \in Requests, InsertFile(r) PROVE FiledIsStored'
  BY <1>5 DEF InsertFile, InsertRow, Finish, Goto
<1>6. ASSUME NEW r \in Requests, SelectExisting(r) PROVE FiledIsStored'
  BY <1>6 DEF SelectExisting, Finish, Goto
<1>7. ASSUME NEW r \in Requests, Answer(r) PROVE FiledIsStored'
  BY <1>7 DEF Answer, Finish, Goto
<1>8. ASSUME NEW r \in Requests, GetFile(r) PROVE FiledIsStored'
  BY <1>8 DEF GetFile, Goto
<1>9. ASSUME NEW r \in Requests, SignDownload(r) PROVE FiledIsStored'
  BY <1>9 DEF SignDownload, Finish, Goto
<1>10. ASSUME NEW r \in Requests, Fail(r) PROVE FiledIsStored'
  BY <1>10 DEF Fail, Finish, Goto
<1>11. ASSUME NEW k \in Keys, Put(k) PROVE FiledIsStored'
  BY <1>11 DEF Put
<1>12. ASSUME NEW k \in Keys, Expire(k) PROVE FiledIsStored'
  BY <1>12 DEF Expire
<1>13. ASSUME NEW t \in Tasks, DeleteTask(t) PROVE FiledIsStored'
  BY <1>13 DEF DeleteTask
<1>14. CASE UNCHANGED vars
  BY <1>14
<1> QED
  BY <1>1, <1>2, <1>3, <1>4, <1>5, <1>6, <1>7, <1>8, <1>9, <1>10, <1>11, <1>12, <1>13, <1>14 DEF Next

\* A row is as true as what HEAD told.
LEMMA TellsStep ==
  ASSUME TypeOK, KeyHeld, Looked, RowTellsObject, [Next]_vars
  PROVE  RowTellsObject'
<1> USE Sentinel, IncompleteObjects DEF TypeOK, KeyHeld, Looked, RowTellsObject, Keys, Described, vars, store, table, request, history
<1>1. ASSUME NEW r \in Requests, CreateUploadUrl(r) PROVE RowTellsObject'
  BY <1>1 DEF CreateUploadUrl, Goto
<1>2. ASSUME NEW r \in Requests, SignUpload(r) PROVE RowTellsObject'
  BY <1>2 DEF SignUpload, Finish, Goto
<1>3. ASSUME NEW r \in Requests, ConfirmUpload(r) PROVE RowTellsObject'
  BY <1>3 DEF ConfirmUpload, Goto
<1>4. ASSUME NEW r \in Requests, HeadObject(r) PROVE RowTellsObject'
  BY <1>4 DEF HeadObject, Finish, Goto
<1>5. ASSUME NEW r \in Requests, InsertFile(r) PROVE RowTellsObject'
  BY <1>5 DEF InsertFile, InsertRow, Finish, Goto
<1>6. ASSUME NEW r \in Requests, SelectExisting(r) PROVE RowTellsObject'
  BY <1>6 DEF SelectExisting, Finish, Goto
<1>7. ASSUME NEW r \in Requests, Answer(r) PROVE RowTellsObject'
  BY <1>7 DEF Answer, Finish, Goto
<1>8. ASSUME NEW r \in Requests, GetFile(r) PROVE RowTellsObject'
  BY <1>8 DEF GetFile, Goto
<1>9. ASSUME NEW r \in Requests, SignDownload(r) PROVE RowTellsObject'
  BY <1>9 DEF SignDownload, Finish, Goto
<1>10. ASSUME NEW r \in Requests, Fail(r) PROVE RowTellsObject'
  BY <1>10 DEF Fail, Finish, Goto
<1>11. ASSUME NEW k \in Keys, Put(k) PROVE RowTellsObject'
  BY <1>11 DEF Put
<1>12. ASSUME NEW k \in Keys, Expire(k) PROVE RowTellsObject'
  BY <1>12 DEF Expire
<1>13. ASSUME NEW t \in Tasks, DeleteTask(t) PROVE RowTellsObject'
  BY <1>13 DEF DeleteTask
<1>14. CASE UNCHANGED vars
  BY <1>14
<1> QED
  BY <1>1, <1>2, <1>3, <1>4, <1>5, <1>6, <1>7, <1>8, <1>9, <1>10, <1>11, <1>12, <1>13, <1>14 DEF Next

\* The id to be answered is the only one.
LEMMA FoundStep ==
  ASSUME TypeOK, KeyHeld, FoundFits, NoFileOutlivesTask, ConfirmationLasts, [Next]_vars
  PROVE  FoundFits'
<1> USE Sentinel, IncompleteObjects DEF TypeOK, KeyHeld, FoundFits, NoFileOutlivesTask, ConfirmationLasts, Keys, Described, vars, store, table, request, history
<1>1. ASSUME NEW r \in Requests, CreateUploadUrl(r) PROVE FoundFits'
  BY <1>1 DEF CreateUploadUrl, Goto
<1>2. ASSUME NEW r \in Requests, SignUpload(r) PROVE FoundFits'
  BY <1>2 DEF SignUpload, Finish, Goto
<1>3. ASSUME NEW r \in Requests, ConfirmUpload(r) PROVE FoundFits'
  BY <1>3 DEF ConfirmUpload, Goto
<1>4. ASSUME NEW r \in Requests, HeadObject(r) PROVE FoundFits'
  BY <1>4 DEF HeadObject, Finish, Goto
<1>5. ASSUME NEW r \in Requests, InsertFile(r) PROVE FoundFits'
  BY <1>5 DEF InsertFile, InsertRow, Finish, Goto
<1>6. ASSUME NEW r \in Requests, SelectExisting(r) PROVE FoundFits'
  <2>1. pc[r] = "select" /\ UNCHANGED <<store, table, history>>
    BY <1>6 DEF SelectExisting
  <2>2. CASE Finish(r)
    BY <2>1, <2>2 DEF Finish, Goto
  <2>3. CASE /\ rowId[key[r]] # 0
             /\ found' = [found EXCEPT ![r] = rowId[key[r]]]
             /\ Goto(r, "answer")
             /\ UNCHANGED <<key, object>>
    <3>1. /\ key[r] \in Keys /\ key[r][1] \in tasks
          /\ pc'[r] = "answer" /\ found'[r] = rowId[key[r]] /\ key' = key
          /\ \A s \in Requests \ {r} : UNCHANGED <<pc[s], found[s]>>
      BY <2>1, <2>3 DEF Goto
    <3>2. \A s \in Requests : pc'[s] = "answer" /\ key[s] = key[r] =>
                               found'[s] = rowId[key[r]]
      BY <3>1
    <3>3. \A a \in answers : a[1] = key[r] => a[2] = rowId[key[r]]
      BY <3>1
    <3> QED
      BY <2>1, <2>3, <3>1, <3>2, <3>3
  <2> QED
    BY <1>6, <2>2, <2>3 DEF SelectExisting
<1>7. ASSUME NEW r \in Requests, Answer(r) PROVE FoundFits'
  BY <1>7 DEF Answer, Finish, Goto
<1>8. ASSUME NEW r \in Requests, GetFile(r) PROVE FoundFits'
  BY <1>8 DEF GetFile, Goto
<1>9. ASSUME NEW r \in Requests, SignDownload(r) PROVE FoundFits'
  BY <1>9 DEF SignDownload, Finish, Goto
<1>10. ASSUME NEW r \in Requests, Fail(r) PROVE FoundFits'
  BY <1>10 DEF Fail, Finish, Goto
<1>11. ASSUME NEW k \in Keys, Put(k) PROVE FoundFits'
  BY <1>11 DEF Put
<1>12. ASSUME NEW k \in Keys, Expire(k) PROVE FoundFits'
  BY <1>12 DEF Expire
<1>13. ASSUME NEW t \in Tasks, DeleteTask(t) PROVE FoundFits'
  BY <1>13 DEF DeleteTask
<1>14. CASE UNCHANGED vars
  BY <1>14
<1> QED
  BY <1>1, <1>2, <1>3, <1>4, <1>5, <1>6, <1>7, <1>8, <1>9, <1>10, <1>11, <1>12, <1>13, <1>14 DEF Next

\* Rows keep the id that was answered.
LEMMA LastsStep ==
  ASSUME TypeOK, KeyHeld, FoundFits, ConfirmationLasts, [Next]_vars
  PROVE  ConfirmationLasts'
<1> USE Sentinel, IncompleteObjects DEF TypeOK, KeyHeld, FoundFits, ConfirmationLasts, Keys, Described, vars, store, table, request, history
<1>1. ASSUME NEW r \in Requests, CreateUploadUrl(r) PROVE ConfirmationLasts'
  BY <1>1 DEF CreateUploadUrl, Goto
<1>2. ASSUME NEW r \in Requests, SignUpload(r) PROVE ConfirmationLasts'
  BY <1>2 DEF SignUpload, Finish, Goto
<1>3. ASSUME NEW r \in Requests, ConfirmUpload(r) PROVE ConfirmationLasts'
  BY <1>3 DEF ConfirmUpload, Goto
<1>4. ASSUME NEW r \in Requests, HeadObject(r) PROVE ConfirmationLasts'
  BY <1>4 DEF HeadObject, Finish, Goto
<1>5. ASSUME NEW r \in Requests, InsertFile(r) PROVE ConfirmationLasts'
  BY <1>5 DEF InsertFile, InsertRow, Finish, Goto
<1>6. ASSUME NEW r \in Requests, SelectExisting(r) PROVE ConfirmationLasts'
  BY <1>6 DEF SelectExisting, Finish, Goto
<1>7. ASSUME NEW r \in Requests, Answer(r) PROVE ConfirmationLasts'
  BY <1>7 DEF Answer, Finish, Goto
<1>8. ASSUME NEW r \in Requests, GetFile(r) PROVE ConfirmationLasts'
  BY <1>8 DEF GetFile, Goto
<1>9. ASSUME NEW r \in Requests, SignDownload(r) PROVE ConfirmationLasts'
  BY <1>9 DEF SignDownload, Finish, Goto
<1>10. ASSUME NEW r \in Requests, Fail(r) PROVE ConfirmationLasts'
  BY <1>10 DEF Fail, Finish, Goto
<1>11. ASSUME NEW k \in Keys, Put(k) PROVE ConfirmationLasts'
  BY <1>11 DEF Put
<1>12. ASSUME NEW k \in Keys, Expire(k) PROVE ConfirmationLasts'
  BY <1>12 DEF Expire
<1>13. ASSUME NEW t \in Tasks, DeleteTask(t) PROVE ConfirmationLasts'
  BY <1>13 DEF DeleteTask
<1>14. CASE UNCHANGED vars
  BY <1>14
<1> QED
  BY <1>1, <1>2, <1>3, <1>4, <1>5, <1>6, <1>7, <1>8, <1>9, <1>10, <1>11, <1>12, <1>13, <1>14 DEF Next

\* Answers go on agreeing.
LEMMA AgreeStep ==
  ASSUME TypeOK, KeyHeld, FoundFits, ConfirmsAgree, [Next]_vars
  PROVE  ConfirmsAgree'
<1> USE Sentinel, IncompleteObjects DEF TypeOK, KeyHeld, FoundFits, ConfirmsAgree, Keys, Described, vars, store, table, request, history
<1>1. ASSUME NEW r \in Requests, CreateUploadUrl(r) PROVE ConfirmsAgree'
  BY <1>1 DEF CreateUploadUrl, Goto
<1>2. ASSUME NEW r \in Requests, SignUpload(r) PROVE ConfirmsAgree'
  BY <1>2 DEF SignUpload, Finish, Goto
<1>3. ASSUME NEW r \in Requests, ConfirmUpload(r) PROVE ConfirmsAgree'
  BY <1>3 DEF ConfirmUpload, Goto
<1>4. ASSUME NEW r \in Requests, HeadObject(r) PROVE ConfirmsAgree'
  BY <1>4 DEF HeadObject, Finish, Goto
<1>5. ASSUME NEW r \in Requests, InsertFile(r) PROVE ConfirmsAgree'
  BY <1>5 DEF InsertFile, InsertRow, Finish, Goto
<1>6. ASSUME NEW r \in Requests, SelectExisting(r) PROVE ConfirmsAgree'
  BY <1>6 DEF SelectExisting, Finish, Goto
<1>7. ASSUME NEW r \in Requests, Answer(r) PROVE ConfirmsAgree'
  BY <1>7 DEF Answer, Finish, Goto
<1>8. ASSUME NEW r \in Requests, GetFile(r) PROVE ConfirmsAgree'
  BY <1>8 DEF GetFile, Goto
<1>9. ASSUME NEW r \in Requests, SignDownload(r) PROVE ConfirmsAgree'
  BY <1>9 DEF SignDownload, Finish, Goto
<1>10. ASSUME NEW r \in Requests, Fail(r) PROVE ConfirmsAgree'
  BY <1>10 DEF Fail, Finish, Goto
<1>11. ASSUME NEW k \in Keys, Put(k) PROVE ConfirmsAgree'
  BY <1>11 DEF Put
<1>12. ASSUME NEW k \in Keys, Expire(k) PROVE ConfirmsAgree'
  BY <1>12 DEF Expire
<1>13. ASSUME NEW t \in Tasks, DeleteTask(t) PROVE ConfirmsAgree'
  BY <1>13 DEF DeleteTask
<1>14. CASE UNCHANGED vars
  BY <1>14
<1> QED
  BY <1>1, <1>2, <1>3, <1>4, <1>5, <1>6, <1>7, <1>8, <1>9, <1>10, <1>11, <1>12, <1>13, <1>14 DEF Next

\* Links keep their objects.
LEMMA LinkStep ==
  ASSUME TypeOK, KeyHeld, Looked, LinkFindsObject, [Next]_vars
  PROVE  LinkFindsObject'
<1> USE Sentinel, IncompleteObjects DEF TypeOK, KeyHeld, Looked, LinkFindsObject, Keys, Described, vars, store, table, request, history
<1>1. ASSUME NEW r \in Requests, CreateUploadUrl(r) PROVE LinkFindsObject'
  BY <1>1 DEF CreateUploadUrl, Goto
<1>2. ASSUME NEW r \in Requests, SignUpload(r) PROVE LinkFindsObject'
  BY <1>2 DEF SignUpload, Finish, Goto
<1>3. ASSUME NEW r \in Requests, ConfirmUpload(r) PROVE LinkFindsObject'
  BY <1>3 DEF ConfirmUpload, Goto
<1>4. ASSUME NEW r \in Requests, HeadObject(r) PROVE LinkFindsObject'
  BY <1>4 DEF HeadObject, Finish, Goto
<1>5. ASSUME NEW r \in Requests, InsertFile(r) PROVE LinkFindsObject'
  BY <1>5 DEF InsertFile, InsertRow, Finish, Goto
<1>6. ASSUME NEW r \in Requests, SelectExisting(r) PROVE LinkFindsObject'
  BY <1>6 DEF SelectExisting, Finish, Goto
<1>7. ASSUME NEW r \in Requests, Answer(r) PROVE LinkFindsObject'
  BY <1>7 DEF Answer, Finish, Goto
<1>8. ASSUME NEW r \in Requests, GetFile(r) PROVE LinkFindsObject'
  BY <1>8 DEF GetFile, Goto
<1>9. ASSUME NEW r \in Requests, SignDownload(r) PROVE LinkFindsObject'
  BY <1>9 DEF SignDownload, Finish, Goto
<1>10. ASSUME NEW r \in Requests, Fail(r) PROVE LinkFindsObject'
  BY <1>10 DEF Fail, Finish, Goto
<1>11. ASSUME NEW k \in Keys, Put(k) PROVE LinkFindsObject'
  BY <1>11 DEF Put
<1>12. ASSUME NEW k \in Keys, Expire(k) PROVE LinkFindsObject'
  BY <1>12 DEF Expire
<1>13. ASSUME NEW t \in Tasks, DeleteTask(t) PROVE LinkFindsObject'
  BY <1>13 DEF DeleteTask
<1>14. CASE UNCHANGED vars
  BY <1>14
<1> QED
  BY <1>1, <1>2, <1>3, <1>4, <1>5, <1>6, <1>7, <1>8, <1>9, <1>10, <1>11, <1>12, <1>13, <1>14 DEF Next
-----------------------------------------------------------------------------
\* The inductive invariant holds initially.
LEMMA InitInv == Init => IInv
<1> USE Sentinel DEF Init, Keys
<1>1. Init => TypeOK
  BY DEF TypeOK, Labels, Described
<1>2. Init => KeyHeld /\ Looked /\ FoundFits
  BY DEF KeyHeld, Looked, FoundFits
<1>3. Init => FiledIsStored /\ RowTellsObject /\ NoFileOutlivesTask
  BY DEF FiledIsStored, RowTellsObject, NoFileOutlivesTask
<1>4. Init => ConfirmsAgree /\ ConfirmationLasts /\ LinkFindsObject
  BY DEF ConfirmsAgree, ConfirmationLasts, LinkFindsObject
<1> QED
  BY <1>1, <1>2, <1>3, <1>4 DEF IInv

\* Every step preserves it.
LEMMA StepInv == IInv /\ [Next]_vars => IInv'
BY TypeStep, KeyStep, LookedStep, TaskStep, StoredStep, TellsStep, FoundStep,
   LastsStep, AgreeStep, LinkStep DEF IInv

\* The inductive invariant holds in every reachable state.
THEOREM Invariance == Spec => []IInv
BY InitInv, StepInv, PTL DEF Spec

\* Every variable keeps its shape, and no row is of an object HEAD told too
\* little of.
THEOREM TypeCorrect == Spec => []TypeOK
<1>1. IInv => TypeOK
  BY DEF IInv
<1> QED
  BY <1>1, Invariance, PTL

\* A row in files always has its object in the bucket.
THEOREM FilesAreStored == Spec => []FiledIsStored
<1>1. IInv => FiledIsStored
  BY DEF IInv
<1> QED
  BY <1>1, Invariance, PTL

\* A row tells the type and length of its object, unless it was uploaded again
\* after the service had looked.
THEOREM RowsTellTruth == Spec => []RowTellsObject
<1>1. IInv => RowTellsObject
  BY DEF IInv
<1> QED
  BY <1>1, Invariance, PTL

\* No row is left of a deleted task, however late the confirmation.
THEOREM FilesHaveTasks == Spec => []NoFileOutlivesTask
<1>1. IInv => NoFileOutlivesTask
  BY DEF IInv
<1> QED
  BY <1>1, Invariance, PTL

\* All confirmations of one upload answer one id, retries and races included.
THEOREM ConfirmationsAgree == Spec => []ConfirmsAgree
<1>1. IInv => ConfirmsAgree
  BY DEF IInv
<1> QED
  BY <1>1, Invariance, PTL

\* A confirmation holds as long as its task.
THEOREM ConfirmationsLast == Spec => []ConfirmationLasts
<1>1. IInv => ConfirmationLasts
  BY DEF IInv
<1> QED
  BY <1>1, Invariance, PTL

\* A download link leads to an object for ever.
THEOREM LinksFindObjects == Spec => []LinkFindsObject
<1>1. IInv => LinkFindsObject
  BY DEF IInv
<1> QED
  BY <1>1, Invariance, PTL
=============================================================================
