--------------------------- MODULE ListingProofs ---------------------------
(* Proofs about Listing, for any rows, contents, queries and size of pages. *)
EXTENDS Listing, FiniteSetTheorems, SequenceTheorems, TLAPS

\* Where a walk stands: the pages read so far were full, and their rows are
\* those before the offset of the next one.
WalkFits ==
  /\ state = "idle" => page = 1 /\ shown = <<>> /\ changes = {}
  /\ state = "reading" => query \in Queries /\ Len(shown) = Offset(page)

\* While a walk goes on undisturbed, the list is the one it began with, and
\* what it has shown is a beginning of it.
ReadSoFar ==
  state = "reading" /\ Disturbances = {} =>
    /\ before = Matching(query) /\ Len(shown) <= Cardinality(before)
    /\ InOrder(query, before)

\* While rows are inserted only, a row not yet shown is behind the offset.
StillAhead ==
  state = "reading" /\ Disturbances \subseteq {"insert"} /\ ~tied =>
    /\ before \subseteq Matching(query)
    /\ \A i \in before \ Range(shown) :
         Len(shown) <= Cardinality(Ahead(query, Matching(query), Key(query, i)))

\* While rows are deleted only, a row already shown is before the offset.
LeftBehind ==
  state = "reading" /\ Disturbances \subseteq {"delete"} /\ ~tied =>
    \A i \in Range(shown) \cap Matching(query) :
      Cardinality(Ahead(query, Matching(query), Key(query, i))) < Len(shown)

IInv ==
  /\ TypeOK /\ WalkFits /\ ReadSoFar /\ StillAhead /\ LeftBehind
  /\ WalkExact /\ InsertionsNeverHide /\ DeletionsNeverRepeat

-----------------------------------------------------------------------------
(* Pages                                                                   *)

\* The lesser of two numbers.
LEMMA MinOfTwo ==
  ASSUME NEW a \in Int, NEW b \in Int
  PROVE  Min({a, b}) = IF a <= b THEN a ELSE b
<1> DEFINE m == IF a <= b THEN a ELSE b
<1>1. m \in {a, b} /\ \A y \in {a, b} : m <= y
  OBVIOUS
<1>2. \A x \in {a, b} : (\A y \in {a, b} : x <= y) => x = m
  OBVIOUS
<1> HIDE DEF m
<1>3. Min({a, b}) = m
  BY <1>1, <1>2 DEF Min
<1> QED
  BY <1>3 DEF m

\* The first page begins at the first row, the next one where a page ends.
LEMMA Offsets ==
  ASSUME NEW p \in Nat \ {0}
  PROVE  /\ Offset(p) \in Nat /\ Limit \in Nat \ {0}
         /\ Offset(p + 1) = Offset(p) + Limit
         /\ Offset(1) = 0
<1>1. p - 1 \in Nat /\ PageSize \in Nat \ {0} /\ p + 1 - 1 = (p - 1) + 1
  BY Positive
<1>2. ((p - 1) + 1) * PageSize = (p - 1) * PageSize + PageSize
  BY <1>1
<1>3. (p - 1) * PageSize \in Nat
  BY <1>1
<1> QED
  BY <1>1, <1>2, <1>3 DEF Offset, Limit

\* A page is the rows behind its offset, as many as there are and it holds.
LEMMA PageIs ==
  ASSUME NEW s \in Seq(Ids), NEW p \in Nat \ {0}
  PROVE  /\ Page(s, p) \in Seq(Ids)
         /\ Len(Page(s, p)) = IF Len(s) <= Offset(p) THEN 0
                              ELSE IF Len(s) <= Offset(p) + Limit
                                   THEN Len(s) - Offset(p) ELSE Limit
         /\ \A n \in 1..Len(Page(s, p)) : Page(s, p)[n] = s[Offset(p) + n]
<1> DEFINE off == Offset(p)
           end == IF Len(s) <= off + Limit THEN Len(s) ELSE off + Limit
<1>1. /\ off \in Nat /\ Limit \in Nat \ {0} /\ Len(s) \in Nat
      /\ end \in Nat /\ end <= Len(s)
  <2>1. off \in Nat /\ Limit \in Nat \ {0}
    BY Offsets
  <2>2. Len(s) \in Nat
    OBVIOUS
  <2> HIDE DEF off
  <2> QED
    BY <2>1, <2>2
<1>2. Page(s, p) = SubSeq(s, off + 1, end)
  <2>1. Min({Len(s), off + Limit}) = end
    <3> HIDE DEF off
    <3> QED
      BY <1>1, MinOfTwo
  <2> HIDE DEF end
  <2> QED
    BY <2>1 DEF Page
<1> HIDE DEF off, end
<1>3. \A i \in off + 1 .. end : s[i] \in Ids
  BY <1>1
<1>4. /\ SubSeq(s, off + 1, end) \in Seq(Ids)
      /\ Len(SubSeq(s, off + 1, end)) = IF off + 1 <= end THEN end - (off + 1) + 1 ELSE 0
      /\ \A i \in 1 .. end - (off + 1) + 1 :
           SubSeq(s, off + 1, end)[i] = s[(off + 1) + i - 1]
  <2>1. end \in Int /\ off + 1 \in Int
    BY <1>1
  <2> QED
    BY <1>3, <2>1, SubSeqProperties
<1>5. Len(Page(s, p)) = IF off + 1 <= end THEN end - off ELSE 0
  BY <1>1, <1>2, <1>4
<1>6. \A n \in 1..Len(Page(s, p)) : Page(s, p)[n] = s[off + n]
  <2> SUFFICES ASSUME NEW n \in 1..(end - off), off + 1 <= end
               PROVE  Page(s, p)[n] = s[off + n]
    BY <1>5
  <2>1. n \in 1 .. end - (off + 1) + 1 /\ (off + 1) + n - 1 = off + n
    BY <1>1
  <2> QED
    BY <1>2, <1>4, <2>1
<1>7. Len(Page(s, p)) = IF Len(s) <= off THEN 0
                        ELSE IF Len(s) <= off + Limit THEN Len(s) - off ELSE Limit
  BY <1>1, <1>5 DEF end
<1> QED
  BY <1>2, <1>4, <1>6, <1>7 DEF off

-----------------------------------------------------------------------------
(* Rows in order                                                           *)

\* What a row of the table holds has a key in every order.
LEMMA KeysAreNumbers ==
  ASSUME TypeOK, NEW q \in Queries, NEW i \in Present
  PROVE  Key(q, i) \in Nat
<1>1. PICK created \in 1..now, updated \in 1..now, c \in Contents :
        rows[i] = Row(created, updated, c)
  BY DEF TypeOK, Present, Stored
<1>2. /\ rows[i].createdAt = created /\ rows[i].updatedAt = updated
      /\ rows[i].title = c.title /\ rows[i].priority = c.priority
  BY <1>1 DEF Row
<1>3. created \in Nat /\ updated \in Nat
  BY DEF TypeOK
<1>4. c.title \in Nat /\ Alphabetical[c.priority] \in Nat
  BY Written DEF Alphabetical
<1>5. Column(q) \in {"createdAt", "updatedAt", "priority", "title"}
  BY Validated DEF Queryable, Column
<1>6. CASE Column(q) = "priority"
  BY <1>2, <1>4, <1>6 DEF Key
<1>7. CASE Column(q) # "priority"
  <2>1. Key(q, i) = rows[i][Column(q)]
    BY <1>7 DEF Key
  <2>2. rows[i][Column(q)] \in {created, updated, c.title}
    BY <1>2, <1>5, <1>7
  <2> QED
    BY <1>3, <1>4, <2>1, <2>2
<1> QED
  BY <1>6, <1>7

\* A list shows rows of the table, and finitely many.
LEMMA MatchingFits ==
  ASSUME TypeOK, NEW q \in Queries
  PROVE  /\ Matching(q) \subseteq Present /\ Matching(q) \subseteq Ids
         /\ IsFiniteSet(Matching(q)) /\ Cardinality(Matching(q)) \in Nat
<1>1. Matching(q) \subseteq Present
  BY Services DEF TypeOK, Matching, GetTask, GetProject, GetWorkspaces, Searched
<1>2. Present \subseteq Ids
  BY DEF Present
<1>3. IsFiniteSet(Ids)
  BY Bounds, FS_Interval DEF Ids
<1> QED
  BY <1>1, <1>2, <1>3, FS_Subset, FS_CardinalityType

\* Whatever order the database takes, every row of the list is in it once.
LEMMA OrderIs ==
  ASSUME TypeOK, NEW q \in Queries, NEW s \in Ordered(q)
  PROVE  /\ s \in Seq(Ids) /\ Len(s) = Cardinality(Matching(q))
         /\ \A n \in 1..Len(s) : s[n] \in Matching(q)
         /\ \A m, n \in 1..Len(s) : s[m] = s[n] => m = n
         /\ \A i \in Matching(q) : \E n \in 1..Len(s) : s[n] = i
         /\ \A m, n \in 1..Len(s) :
              m < n => ~Follows(q, Key(q, s[m]), Key(q, s[n]))
<1> DEFINE M == Matching(q)
           D == 1..Cardinality(M)
<1>1. M \subseteq Ids /\ IsFiniteSet(M) /\ Cardinality(M) \in Nat
  BY MatchingFits
<1>2. /\ s \in [D -> M] /\ \A i, j \in D : i # j => s[i] # s[j]
      /\ \A m, n \in DOMAIN s : m < n => ~Follows(q, Key(q, s[m]), Key(q, s[n]))
  BY DEF Ordered, SetToSeqs
<1> HIDE DEF M
<1>3. s \in Seq(Ids) /\ Len(s) = Cardinality(M) /\ DOMAIN s = D
  BY <1>1, <1>2
<1>4. s \in Surjection(D, M)
  <2>1. s \in Injection(D, M)
    BY <1>2 DEF Injection, IsInjective
  <2>2. Cardinality(D) = Cardinality(M)
    BY <1>1, FS_Interval
  <2> QED
    BY <1>1, <2>1, <2>2, FS_Injection
<1>5. \A i \in M : \E n \in D : s[n] = i
  BY <1>4 DEF Surjection
<1> QED
  BY <1>1, <1>2, <1>3, <1>5 DEF M

First(s, n) == {s[m] : m \in 1..n}

\* The first n rows of an order are n rows.
LEMMA FirstRows ==
  ASSUME NEW M, NEW s \in Seq(M), \A m, n \in 1..Len(s) : s[m] = s[n] => m = n,
         NEW n \in 0..Len(s)
  PROVE  IsFiniteSet(First(s, n)) /\ Cardinality(First(s, n)) = n
<1> DEFINE first == {s[m] : m \in 1..n}
           f == [m \in 1..n |-> s[m]]
<1>1. IsFiniteSet(1..n) /\ Cardinality(1..n) = n
  BY FS_Interval
<1>2. f \in Surjection(1..n, first)
  BY DEF Surjection
<1>3. f \in Injection(1..n, first)
  BY DEF Injection, IsInjective
<1> HIDE DEF f, first
<1>5. IsFiniteSet(first) /\ Cardinality(first) = n
  BY <1>1, <1>2, <1>3, FS_Surjection
<1> QED
  BY <1>5 DEF First, first

\* The place a row has in an order tells how many rows are ahead of its key,
\* up to the rows of the same key.
LEMMA Position ==
  ASSUME TypeOK, NEW q \in Queries, NEW s \in Ordered(q), NEW n \in 1..Len(s)
  PROVE  LET k == Key(q, s[n])
         IN /\ Cardinality(Ahead(q, Matching(q), k)) \in Nat
            /\ Cardinality(UpTo(q, Matching(q), k)) \in Nat
            /\ Cardinality(Ahead(q, Matching(q), k)) < n
            /\ n <= Cardinality(UpTo(q, Matching(q), k))
<1> DEFINE M == Matching(q)
           k == Key(q, s[n])
<1>1. /\ s \in Seq(Ids) /\ Len(s) \in Nat
      /\ \A m \in 1..Len(s) : s[m] \in M
      /\ \A l, m \in 1..Len(s) : s[l] = s[m] => l = m
      /\ \A i \in M : \E m \in 1..Len(s) : s[m] = i
      /\ \A l, m \in 1..Len(s) : l < m => ~Follows(q, Key(q, s[l]), Key(q, s[m]))
  BY OrderIs
<1>2. M \subseteq Ids /\ IsFiniteSet(M) /\ \A i \in M : Key(q, i) \in Nat
  BY MatchingFits, KeysAreNumbers
<1>3. k \in Nat /\ s \in Seq(M)
  BY <1>1, <1>2
<1> HIDE DEF M, k
<1>4. Cardinality(Ahead(q, M, k)) \in Nat /\ Cardinality(Ahead(q, M, k)) < n
  <2> DEFINE first == First(s, n - 1)
  <2>1. IsFiniteSet(first) /\ Cardinality(first) = n - 1
    <3>1. n - 1 \in 0..Len(s)
      BY <1>1
    <3> QED
      BY <1>1, <1>3, <3>1, FirstRows
  <2>2. Ahead(q, M, k) \subseteq first
    <3> SUFFICES ASSUME NEW i \in M, Follows(q, k, Key(q, i)) PROVE i \in first
      BY DEF Ahead
    <3>1. PICK m \in 1..Len(s) : s[m] = i
      BY <1>1
    <3>2. ~(n < m)
      BY <1>1, <3>1 DEF k
    <3>3. n # m
      BY <1>3, <3>1 DEF k, Follows
    <3>4. m \in 1..(n - 1)
      BY <1>1, <3>2, <3>3
    <3> QED
      BY <3>1, <3>4 DEF First
  <2> HIDE DEF first
  <2>3. /\ IsFiniteSet(Ahead(q, M, k))
        /\ Cardinality(Ahead(q, M, k)) <= Cardinality(first)
    BY <2>1, <2>2, FS_Subset
  <2> QED
    BY <1>1, <2>1, <2>3, FS_CardinalityType
<1>5. Cardinality(UpTo(q, M, k)) \in Nat /\ n <= Cardinality(UpTo(q, M, k))
  <2> DEFINE first == First(s, n)
  <2>1. Cardinality(first) = n
    <3>1. n \in 0..Len(s)
      BY <1>1
    <3> QED
      BY <1>1, <1>3, <3>1, FirstRows
  <2>2. first \subseteq UpTo(q, M, k)
    <3> SUFFICES ASSUME NEW m \in 1..n
                 PROVE  s[m] \in M /\ ~Follows(q, Key(q, s[m]), k)
      BY DEF UpTo, First
    <3>1. m \in 1..Len(s) /\ (m < n \/ m = n)
      BY <1>1
    <3>2. CASE m < n
      BY <1>1, <3>1, <3>2 DEF k
    <3>3. CASE m = n
      BY <1>1, <1>3, <3>1, <3>3 DEF k, Follows
    <3> QED
      BY <3>1, <3>2, <3>3
  <2>3. IsFiniteSet(UpTo(q, M, k))
    BY <1>2, FS_Subset DEF UpTo
  <2> HIDE DEF first
  <2> QED
    BY <2>1, <2>2, <2>3, FS_Subset, FS_CardinalityType
<1> QED
  BY <1>4, <1>5 DEF M, k

\* Where no two keys are the same, the place of a row is settled.
LEMMA UntiedPosition ==
  ASSUME TypeOK, NEW q \in Queries, NEW s \in Ordered(q), NEW n \in 1..Len(s),
         \A i, j \in Matching(q) : i # j => Key(q, i) # Key(q, j)
  PROVE  Cardinality(Ahead(q, Matching(q), Key(q, s[n]))) = n - 1
<1> DEFINE M == Matching(q)
           k == Key(q, s[n])
           first == First(s, n - 1)
<1>1. /\ s \in Seq(Ids) /\ Len(s) \in Nat
      /\ \A m \in 1..Len(s) : s[m] \in M
      /\ \A l, m \in 1..Len(s) : s[l] = s[m] => l = m
      /\ \A l, m \in 1..Len(s) : l < m => ~Follows(q, Key(q, s[l]), Key(q, s[m]))
  BY OrderIs
<1>2. IsFiniteSet(M) /\ \A i \in M : Key(q, i) \in Nat
  BY MatchingFits, KeysAreNumbers
<1>3. Cardinality(Ahead(q, M, k)) \in Nat /\ Cardinality(Ahead(q, M, k)) < n
  BY Position
<1>4. \A i, j \in M : i # j => Key(q, i) # Key(q, j)
  OBVIOUS
<1> HIDE DEF M
<1>5. Cardinality(first) = n - 1
  <2>1. n - 1 \in 0..Len(s) /\ s \in Seq(M)
    BY <1>1
  <2> QED
    BY <1>1, <2>1, FirstRows
<1>6. first \subseteq Ahead(q, M, k)
  <2> SUFFICES ASSUME NEW m \in 1..(n - 1)
               PROVE  s[m] \in M /\ Follows(q, k, Key(q, s[m]))
    BY DEF Ahead, First
  <2>1. m \in 1..Len(s) /\ m < n /\ m # n
    BY <1>1
  <2>2. ~Follows(q, Key(q, s[m]), k) /\ Key(q, s[m]) # k
    BY <1>1, <1>4, <2>1
  <2>3. Key(q, s[m]) \in Nat /\ k \in Nat
    BY <1>1, <1>2, <2>1
  <2> HIDE DEF k
  <2> QED
    BY <1>1, <2>1, <2>2, <2>3 DEF Follows
<1>7. IsFiniteSet(Ahead(q, M, k))
  BY <1>2, FS_Subset DEF Ahead
<1> HIDE DEF first
<1>8. Cardinality(first) <= Cardinality(Ahead(q, M, k))
  BY <1>6, <1>7, FS_Subset
<1> QED
  BY <1>1, <1>3, <1>5, <1>8 DEF M

-----------------------------------------------------------------------------
(* What a step does to the walk                                            *)

\* As long as the rows are what they were, so are lists, keys and places.
LEMMA SameRows ==
  ASSUME rows' = rows, list' = list
  PROVE  /\ \A q : Matching(q)' = Matching(q)
         /\ \A q, i : Key(q, i)' = Key(q, i)
         /\ \A q, S, k : Ahead(q, S, k)' = Ahead(q, S, k)
         /\ \A q, S, k : UpTo(q, S, k)' = UpTo(q, S, k)
         /\ \A q : Indifferent(q)' <=> Indifferent(q)
<1>1. \A q : Matching(q)' = Matching(q)
  BY DEF Matching, GetTask, GetProject, GetWorkspaces, Searched, Present
<1>2. \A q, i : Key(q, i)' = Key(q, i)
  BY DEF Key, Column
<1>3. \A q, S, k : Ahead(q, S, k)' = Ahead(q, S, k)
  BY <1>2 DEF Ahead, Follows
<1>4. \A q, S, k : UpTo(q, S, k)' = UpTo(q, S, k)
  BY <1>2 DEF UpTo, Follows
<1>5. \A q : Indifferent(q)' <=> Indifferent(q)
  BY DEF Indifferent, Column
<1> QED
  BY <1>1, <1>2, <1>3, <1>4, <1>5

\* A page adds to what was shown the next rows of an order; unless it is full
\* the walk is over.
LEMMA PageRead ==
  ASSUME TypeOK, WalkFits, ReadPage, Column(query) \in SortColumns
  PROVE  /\ query \in Queries /\ UNCHANGED <<list, table, query, before, changes>>
         /\ page' \in Nat \ {0} /\ shown' \in Seq(Ids)
         /\ Len(shown) \in Nat /\ Len(shown') \in Nat /\ Len(shown) <= Len(shown')
         /\ \A n \in 1..Len(shown) : shown'[n] = shown[n]
         /\ state' \in {"reading", "done"}
         /\ state' = "reading" => Len(shown') = Offset(page')
         /\ tied' = (tied \/ \E i, j \in Matching(query) :
                               i # j /\ Key(query, i) = Key(query, j))
         /\ \E s \in Ordered(query) :
              /\ Len(s) \in Nat
              /\ \A n \in Len(shown) + 1 .. Len(shown') : n <= Len(s) /\ shown'[n] = s[n]
              /\ Len(shown) <= Len(s) => Len(shown') <= Len(s)
              /\ state' = "done" => Len(s) <= Len(shown')
<1>1. /\ state = "reading" /\ query \in Queries /\ page \in Nat \ {0}
      /\ shown \in Seq(Ids) /\ Len(shown) = Offset(page)
  BY DEF ReadPage, TypeOK, WalkFits
<1>2. PICK s \in Ordered(query) :
        /\ shown' = shown \o Page(s, page)
        /\ state' = IF Len(Page(s, page)) < PageSize THEN "done" ELSE "reading"
        /\ page' = page + 1
        /\ tied' = (tied \/ \E i, j \in Matching(query) :
                              i # j /\ Key(query, i) = Key(query, j))
        /\ UNCHANGED <<list, table, query, before, changes>>
  BY DEF ReadPage
<1>3. s \in Seq(Ids) /\ Len(s) \in Nat
  BY <1>1, OrderIs
<1> DEFINE P == Page(s, page)
           off == Offset(page)
<1>4. /\ P \in Seq(Ids)
      /\ Len(P) = IF Len(s) <= off THEN 0
                  ELSE IF Len(s) <= off + Limit THEN Len(s) - off ELSE Limit
      /\ \A n \in 1..Len(P) : P[n] = s[off + n]
  BY <1>1, <1>3, PageIs
<1>5. /\ off \in Nat /\ Limit \in Nat \ {0} /\ Limit = PageSize
      /\ Offset(page + 1) = off + Limit
  BY <1>1, Offsets DEF Limit
<1> HIDE DEF P, off
<1>6. /\ shown' \in Seq(Ids) /\ Len(shown') = off + Len(P)
      /\ \A n \in 1..off + Len(P) :
           shown'[n] = IF n <= off THEN shown[n] ELSE P[n - off]
  <2>1. Len(shown) = off /\ shown' = shown \o P
    BY <1>1, <1>2 DEF P, off
  <2> QED
    BY <1>1, <1>4, <2>1, ConcatProperties
<1>7. Len(shown) = off /\ Len(P) \in Nat /\ Len(P) <= Limit
  BY <1>1, <1>3, <1>4, <1>5 DEF off
<1>8. \A n \in 1..Len(shown) : shown'[n] = shown[n]
  BY <1>5, <1>6, <1>7
<1>9. \A n \in off + 1 .. off + Len(P) : n <= Len(s) /\ shown'[n] = s[n]
  <2> SUFFICES ASSUME NEW n \in off + 1 .. off + Len(P)
               PROVE  n <= Len(s) /\ shown'[n] = s[n]
    OBVIOUS
  <2>1. n - off \in 1..Len(P) /\ off + (n - off) = n /\ n \in 1..off + Len(P) /\ ~(n <= off)
    BY <1>5, <1>7
  <2>2. shown'[n] = P[n - off] /\ P[n - off] = s[n]
    BY <1>4, <1>6, <2>1
  <2> QED
    BY <1>3, <1>4, <1>5, <2>1, <2>2
<1>10. state' = "reading" => Len(shown') = Offset(page')
  <2>1. state' = "reading" => Len(P) = Limit
    BY <1>2, <1>5, <1>7 DEF P
  <2> QED
    BY <1>2, <1>5, <1>6, <2>1
<1>11. /\ Len(shown) <= Len(s) => Len(shown') <= Len(s)
       /\ state' = "done" => Len(s) <= Len(shown')
  <2>1. state' = "done" => Len(P) < Limit
    BY <1>2, <1>5 DEF P
  <2> QED
    BY <1>3, <1>4, <1>5, <1>6, <1>7, <2>1
<1> QED
  <2>1. page' \in Nat \ {0} /\ state' \in {"reading", "done"}
    BY <1>1, <1>2
  <2>2. Len(shown) \in Nat /\ Len(shown') \in Nat /\ Len(shown) <= Len(shown')
    BY <1>5, <1>6, <1>7
  <2>3. \E t \in Ordered(query) :
          /\ Len(t) \in Nat
          /\ \A n \in Len(shown) + 1 .. Len(shown') : n <= Len(t) /\ shown'[n] = t[n]
          /\ Len(shown) <= Len(t) => Len(shown') <= Len(t)
          /\ state' = "done" => Len(t) <= Len(shown')
    BY <1>3, <1>6, <1>7, <1>9, <1>11
  <2> QED
    BY <1>1, <1>2, <1>6, <1>8, <1>10, <2>1, <2>2, <2>3

-----------------------------------------------------------------------------
(* What a step does to the rows                                            *)

\* A new row leaves those that are there alone.
LEMMA Inserted ==
  ASSUME TypeOK, Insert, NEW q \in Queries
  PROVE  Matching(q) \subseteq Matching(q)' /\ \A i \in Matching(q) : Key(q, i)' = Key(q, i)
<1>1. next \notin Present /\ next \in Ids /\ UNCHANGED list
  BY Bounds DEF Insert, Changed, TypeOK, Ids
<1>2. PICK x : rows' = [rows EXCEPT ![next] = x]
  BY DEF Insert
<1>3. \A i \in Present : i \in Present' /\ rows'[i] = rows[i]
  BY <1>1, <1>2 DEF TypeOK, Present
<1>4. Matching(q) \subseteq Present /\ list \in Lists
  BY MatchingFits DEF TypeOK
<1>5. Searched(q) \subseteq Searched(q)'
  BY <1>3 DEF Searched
<1>6. GetTask(q) \subseteq GetTask(q)'
  BY <1>3, <1>5 DEF GetTask, Searched
<1>7. Matching(q) \subseteq Matching(q)'
  BY <1>1, <1>4, <1>5, <1>6, Services DEF Matching, GetProject, GetWorkspaces
<1>8. \A i \in Present : Key(q, i)' = Key(q, i)
  BY <1>3 DEF Key, Column
<1> QED
  BY <1>4, <1>7, <1>8

\* A row that is deleted leaves the others alone.
LEMMA Deleted ==
  ASSUME TypeOK, NEW d \in Ids, Delete(d), NEW q \in Queries
  PROVE  Matching(q)' \subseteq Matching(q) /\ \A i \in Matching(q)' : Key(q, i)' = Key(q, i)
<1>1. UNCHANGED list /\ rows' = [rows EXCEPT ![d] = Unset]
  BY DEF Delete, Changed
<1>2. \A i \in Present' : i \in Present /\ rows'[i] = rows[i]
  BY <1>1 DEF TypeOK, Present
<1>3. list \in Lists
  BY DEF TypeOK
<1>4. Searched(q)' \subseteq Searched(q) /\ Searched(q)' \subseteq Present'
  BY <1>2 DEF Searched
<1>5. GetTask(q)' \subseteq GetTask(q) /\ GetTask(q)' \subseteq Present'
  BY <1>2, <1>4 DEF GetTask, Searched
<1>6. Matching(q)' \subseteq Matching(q) /\ Matching(q)' \subseteq Present'
  BY <1>1, <1>3, <1>4, <1>5, Services DEF Matching, GetProject, GetWorkspaces
<1>7. \A i \in Present' : Key(q, i)' = Key(q, i)
  BY <1>2 DEF Key, Column
<1> QED
  BY <1>6, <1>7

\* A row that is edited stays where it is in a list that is neither filtered nor
\* sorted by what an edit writes.
LEMMA Edited ==
  ASSUME TypeOK, NEW e \in Ids, Edit(e), NEW q \in Queries, Indifferent(q)
  PROVE  /\ Matching(q)' = Matching(q) /\ Indifferent(q)'
         /\ \A i \in Present : Key(q, i)' = Key(q, i)
<1>1. PICK c \in Contents :
        rows' = [rows EXCEPT ![e] =
                   Row(@.createdAt, IF list = "tasks" THEN @.updatedAt ELSE now', c)]
  BY DEF Edit
<1>2. UNCHANGED list /\ e \in Present /\ rows \in [Ids -> Stored(now) \cup {Unset}]
  BY DEF Edit, Changed, TypeOK
<1>3. PICK created \in 1..now, updated \in 1..now, old \in Contents :
        rows[e] = Row(created, updated, old)
  BY <1>2 DEF Present, Stored
<1>4. now' \in 1..MaxNow /\ now \in 1..MaxNow /\ now <= now'
  BY Bounds DEF Edit, Tick, TypeOK
<1>5. PICK new \in 1..MaxNow :
        rows'[e] = Row(created, new, c) /\ (list = "tasks" => new = updated)
  <2>1. rows[e].createdAt = created /\ rows[e].updatedAt = updated
    BY <1>3 DEF Row
  <2> QED
    BY <1>1, <1>2, <1>4, <2>1, Bounds
<1>6. rows'[e] # Unset
  <2>1. created \in 1..MaxNow
    BY <1>4, Bounds
  <2> QED
    BY <1>5, <2>1, Sentinel DEF Stored
<1>7. \A i \in Ids \ {e} : rows'[i] = rows[i]
  BY <1>1, <1>2
<1>8. Present' = Present
  BY <1>2, <1>6, <1>7 DEF Present
<1>9. \A i \in Present : rows[i].title \in Titles /\ rows'[i].title \in Titles
  <2>1. \A i \in Present : rows[i].title \in Titles
    BY <1>2 DEF Present, Stored, Row, Titles
  <2>2. rows'[e].title \in Titles
    BY <1>5 DEF Row, Titles
  <2>3. \A i \in Present : i \in Ids
    BY DEF Present
  <2> QED
    BY <1>7, <2>1, <2>2, <2>3
<1>10. Searched(q) = Present /\ Searched(q)' = Present'
  BY <1>8, <1>9 DEF Searched, Indifferent
<1>11. Matching(q)' = Matching(q)
  <2>1. list = "tasks" => GetTask(q) = Present /\ GetTask(q)' = Present
    <3>1. SUFFICES ASSUME list = "tasks" PROVE GetTask(q) = Present /\ GetTask(q)' = Present
      OBVIOUS
    <3>2. \A x \in {"status", "assignedTo", "priority"} : q.filter[x] = Unset
      <4>1. DOMAIN q.filter = {"status", "assignedTo", "priority"}
        BY Validated DEF Queryable
      <4> QED
        BY <3>1, <4>1 DEF Indifferent
    <3> QED
      BY <1>8, <1>10, <3>2 DEF GetTask
  <2>2. GetProject(q) = Present /\ GetProject(q)' = Present
    BY <1>8, <1>10 DEF GetProject
  <2>3. GetWorkspaces(q) = Present /\ GetWorkspaces(q)' = Present
    BY <1>8, <1>10 DEF GetWorkspaces
  <2>4. list \in {"workspaces", "projects", "tasks"}
    BY Services DEF TypeOK
  <2> QED
    BY <1>2, <2>1, <2>2, <2>3, <2>4 DEF Matching
<1>12. \A i \in Present : Key(q, i)' = Key(q, i)
  <2>1. Column(q) = "createdAt" \/ (list = "tasks" /\ Column(q) = "updatedAt")
    BY DEF Indifferent
  <2>2. /\ rows'[e].createdAt = rows[e].createdAt
        /\ list = "tasks" => rows'[e].updatedAt = rows[e].updatedAt
    BY <1>3, <1>5 DEF Row
  <2>3. Key(q, e)' = Key(q, e)
    BY <2>1, <2>2 DEF Key, Column
  <2>4. \A i \in Ids \ {e} : Key(q, i)' = Key(q, i)
    BY <1>7 DEF Key, Column
  <2> QED
    BY <2>3, <2>4 DEF Present
<1>13. Indifferent(q)'
  BY <1>2 DEF Indifferent, Column
<1> QED
  BY <1>11, <1>12, <1>13

\* The more rows, the more of them are ahead of a key.
LEMMA MoreAhead ==
  ASSUME NEW q, NEW S, NEW T, S \subseteq T, IsFiniteSet(T), NEW k,
         \A i \in S : Key(q, i)' = Key(q, i)
  PROVE  /\ Cardinality(Ahead(q, S, k)) \in Nat /\ Cardinality(Ahead(q, T, k)') \in Nat
         /\ Cardinality(Ahead(q, S, k)) <= Cardinality(Ahead(q, T, k)')
<1>1. Ahead(q, S, k) \subseteq Ahead(q, T, k)' /\ Ahead(q, T, k)' \subseteq T
  BY DEF Ahead, Follows
<1>2. IsFiniteSet(Ahead(q, T, k)')
  BY <1>1, FS_Subset
<1> QED
  BY <1>1, <1>2, FS_Subset, FS_CardinalityType

\* The fewer rows, the fewer of them are ahead of a key.
LEMMA FewerAhead ==
  ASSUME NEW q, NEW S, NEW T, T \subseteq S, IsFiniteSet(S), NEW k,
         \A i \in T : Key(q, i)' = Key(q, i)
  PROVE  /\ Cardinality(Ahead(q, S, k)) \in Nat /\ Cardinality(Ahead(q, T, k)') \in Nat
         /\ Cardinality(Ahead(q, T, k)') <= Cardinality(Ahead(q, S, k))
<1>1. Ahead(q, T, k)' \subseteq Ahead(q, S, k) /\ Ahead(q, S, k) \subseteq S
  BY DEF Ahead, Follows
<1>2. IsFiniteSet(Ahead(q, S, k))
  BY <1>1, FS_Subset
<1> QED
  BY <1>1, <1>2, FS_Subset, FS_CardinalityType

-----------------------------------------------------------------------------
(* The inductive invariant                                                 *)

\* Every step keeps the types.
LEMMA TypeStep ==
  ASSUME TypeOK, WalkFits, [Next]_vars
  PROVE  TypeOK'
<1> USE DEF table, walk, vars
<1>1. ASSUME NEW t \in 1..MaxNow, now <= t PROVE Stored(now) \subseteq Stored(t)
  BY <1>1, Bounds DEF Stored, TypeOK
<1>2. CASE Start
  BY <1>2, MatchingFits DEF Start, TypeOK, Present
<1>3. CASE ReadPage
  <2>1. CASE Column(query) \in SortColumns
    <3>1. /\ UNCHANGED <<list, table, query, before, changes>>
          /\ page' \in Nat \ {0} /\ shown' \in Seq(Ids)
          /\ state' \in {"reading", "done"}
      BY <1>3, <2>1, PageRead
    <3>2. tied' \in BOOLEAN
      BY <1>3, <2>1 DEF ReadPage, TypeOK
    <3> QED
      BY <3>1, <3>2 DEF TypeOK, Present
  <2>2. CASE Column(query) \notin SortColumns
    BY <1>3, <2>2 DEF ReadPage, TypeOK, Present
  <2> QED
    BY <2>1, <2>2
<1>4. CASE Leave
  <2>1. /\ UNCHANGED <<list, table>> /\ query' = Unset /\ page' = 1 /\ state' = "idle"
        /\ shown' = <<>> /\ before' = {} /\ changes' = {} /\ tied' = FALSE
    BY <1>4 DEF Leave
  <2>2. <<>> \in Seq(Ids) /\ 1 \in Nat \ {0}
    OBVIOUS
  <2> QED
    BY <2>1, <2>2 DEF TypeOK, Present
<1>5. ASSUME Changed("insert") \/ Changed("edit") \/ Changed("delete")
      PROVE  /\ changes' \subseteq {"insert", "edit", "delete"}
             /\ UNCHANGED <<list, walk>>
  BY <1>5 DEF Changed, TypeOK
<1>6. ASSUME Tick PROVE now' \in 1..MaxNow /\ now <= now' /\ Stored(now) \subseteq Stored(now')
  <2>1. now' \in 1..MaxNow /\ now <= now'
    BY <1>6, Bounds DEF Tick, TypeOK
  <2> QED
    BY <1>1, <2>1
<1>7. ASSUME Counted PROVE counter' \in 0..MaxChanges
  BY <1>7, Bounds DEF Counted, TypeOK
<1>8. CASE Insert
  <2>1. PICK c \in Contents, t \in 1..now' : rows' = [rows EXCEPT ![next] = Row(t, t, c)]
    <3>1. now' \in 1..MaxNow
      BY <1>6, <1>8 DEF Insert
    <3>2. now' \in 1..now'
      BY <3>1
    <3> QED
      BY <1>8, <3>2 DEF Insert
  <2>2. /\ now' \in 1..MaxNow /\ Stored(now) \subseteq Stored(now')
        /\ changes' \subseteq {"insert", "edit", "delete"}
        /\ UNCHANGED <<list, walk, counter>>
        /\ next \in Ids /\ next' = next + 1
    BY <1>5, <1>6, <1>8 DEF Insert
  <2>3. Row(t, t, c) \in Stored(now')
    BY DEF Stored
  <2>4. rows' \in [Ids -> Stored(now') \cup {Unset}]
    BY <2>1, <2>2, <2>3 DEF TypeOK
  <2>5. Present' \subseteq Present \cup {next}
    BY <2>1 DEF TypeOK, Present
  <2>6. next' \in 1..MaxRows + 1 /\ \A i \in Present' : i < next'
    BY <2>2, <2>5, Bounds DEF TypeOK, Ids, Present
  <2> QED
    BY <2>2, <2>4, <2>6 DEF TypeOK
<1>9. ASSUME NEW e \in Ids, Edit(e) PROVE TypeOK'
  <2>1. PICK c \in Contents :
          rows' = [rows EXCEPT ![e] =
                     Row(@.createdAt, IF list = "tasks" THEN @.updatedAt ELSE now', c)]
    BY <1>9 DEF Edit
  <2>2. /\ now' \in 1..MaxNow /\ now <= now' /\ Stored(now) \subseteq Stored(now')
        /\ counter' \in 0..MaxChanges
        /\ changes' \subseteq {"insert", "edit", "delete"}
        /\ UNCHANGED <<list, walk, next>> /\ e \in Present
    BY <1>5, <1>6, <1>7, <1>9 DEF Edit
  <2>3. PICK created \in 1..now, updated \in 1..now, old \in Contents :
          rows[e] = Row(created, updated, old)
    BY <2>2 DEF TypeOK, Present, Stored
  <2>4. /\ rows[e].createdAt \in 1..now'
        /\ (IF list = "tasks" THEN rows[e].updatedAt ELSE now') \in 1..now'
    <3>1. rows[e].createdAt = created /\ rows[e].updatedAt = updated
      BY <2>3 DEF Row
    <3> QED
      BY <2>2, <3>1 DEF TypeOK
  <2>5. Row(rows[e].createdAt, IF list = "tasks" THEN rows[e].updatedAt ELSE now', c)
          \in Stored(now')
    BY <2>4 DEF Stored
  <2>6. rows' \in [Ids -> Stored(now') \cup {Unset}]
    BY <2>1, <2>2, <2>5 DEF TypeOK
  <2>7. Present' \subseteq Present
    BY <2>1, <2>2 DEF TypeOK, Present
  <2> QED
    BY <2>2, <2>6, <2>7 DEF TypeOK
<1>10. ASSUME NEW d \in Ids, Delete(d) PROVE TypeOK'
  <2>1. /\ counter' \in 0..MaxChanges
        /\ changes' \subseteq {"insert", "edit", "delete"}
        /\ UNCHANGED <<list, walk, next, now>>
        /\ rows' = [rows EXCEPT ![d] = Unset]
    BY <1>5, <1>7, <1>10 DEF Delete
  <2>2. rows' \in [Ids -> Stored(now') \cup {Unset}]
    BY <2>1 DEF TypeOK
  <2>3. Present' \subseteq Present
    BY <2>1 DEF TypeOK, Present
  <2> QED
    BY <2>1, <2>2, <2>3 DEF TypeOK
<1>11. CASE UNCHANGED vars
  BY <1>11 DEF TypeOK, Present
<1> QED
  BY <1>2, <1>3, <1>4, <1>8, <1>9, <1>10, <1>11 DEF Next


\* What a change during a walk adds to its disturbances.
LEMMA Disturbed ==
  ASSUME NEW kind \in {"insert", "edit", "delete"}, Changed(kind)
  PROVE  /\ state \in {"idle", "reading"} /\ UNCHANGED <<list, walk>>
         /\ Indifferent(query)' <=> Indifferent(query)
         /\ state = "idle" => changes' = changes
         /\ state = "reading" =>
              Disturbances' = IF kind = "edit" /\ Indifferent(query)
                              THEN Disturbances ELSE Disturbances \cup {kind}
<1>1. /\ state \in {"idle", "reading"} /\ UNCHANGED <<list, walk>>
      /\ changes' = IF state = "reading" THEN changes \cup {kind} ELSE changes
  BY DEF Changed
<1>2. list' = list /\ query' = query
  BY <1>1 DEF walk
<1>3. Indifferent(query)' <=> Indifferent(query)
  BY <1>2 DEF Indifferent, Column
<1> QED
  BY <1>1, <1>3 DEF Disturbances

\* An edit during a walk disturbs it unless the query is indifferent to it.
LEMMA EditDisturbs ==
  ASSUME NEW e \in Ids, Edit(e), state' = "reading"
  PROVE  /\ state = "reading" /\ UNCHANGED <<list, walk>>
         /\ "edit" \in Disturbances' \/ (Indifferent(query) /\ Disturbances' = Disturbances)
<1>1. Changed("edit")
  BY DEF Edit
<1>2. state = "reading" /\ UNCHANGED <<list, walk>>
  BY <1>1, Disturbed DEF walk
<1> QED
  BY <1>1, <1>2, Disturbed

\* Where the keys of some rows stay, so do the places among them.
LEMMA SamePlaces ==
  ASSUME NEW q, NEW S, NEW k, \A i \in S : Key(q, i)' = Key(q, i)
  PROVE  Ahead(q, S, k)' = Ahead(q, S, k) /\ UpTo(q, S, k)' = UpTo(q, S, k)
BY DEF Ahead, UpTo, Follows

\* A walk is over by its last page.
LEMMA LastPage ==
  ASSUME [Next]_vars, state' = "done"
  PROVE  (ReadPage /\ Column(query) \in SortColumns) \/ UNCHANGED vars
<1> USE DEF walk, vars
<1>1. CASE Start
  BY <1>1 DEF Start
<1>2. CASE ReadPage
  BY <1>2 DEF ReadPage
<1>3. CASE Leave
  BY <1>3 DEF Leave
<1>4. ASSUME NEW kind, Changed(kind) PROVE FALSE
  BY <1>4 DEF Changed
<1>5. CASE Insert \/ \E i \in Ids : Edit(i) \/ Delete(i)
  BY <1>4, <1>5 DEF Insert, Edit, Delete
<1> QED
  BY <1>1, <1>2, <1>3, <1>5 DEF Next

\* Reading leaves what counts as a disturbance as it is.
LEMMA ReadUndisturbed ==
  ASSUME UNCHANGED <<list, query, changes>>
  PROVE  Disturbances' = Disturbances
BY DEF Disturbances, Indifferent, Column

\* A page of an undisturbed walk continues the order of those before it, and
\* the last one reaches its end.
LEMMA OrderlyPage ==
  ASSUME TypeOK, WalkFits, ReadSoFar, ReadPage, Column(query) \in SortColumns,
         Disturbances = {}
  PROVE  /\ before' = Matching(query)' /\ Len(shown') <= Cardinality(before')
         /\ InOrder(query, before)'
         /\ state' = "done" => Len(shown') = Cardinality(before')
<1>1. /\ query \in Queries /\ UNCHANGED <<list, rows, query, before>>
      /\ shown' \in Seq(Ids) /\ Len(shown) \in Nat /\ Len(shown') \in Nat
      /\ \A n \in 1..Len(shown) : shown'[n] = shown[n]
  BY PageRead DEF table
<1>2. PICK s \in Ordered(query) :
        /\ \A n \in Len(shown) + 1 .. Len(shown') : n <= Len(s) /\ shown'[n] = s[n]
        /\ Len(shown) <= Len(s) => Len(shown') <= Len(s)
        /\ state' = "done" => Len(s) <= Len(shown')
  BY PageRead
<1>3. /\ before = Matching(query) /\ Len(shown) <= Cardinality(before)
      /\ InOrder(query, before)
  BY DEF ReadSoFar, ReadPage
<1>4. /\ Len(s) \in Nat /\ Len(s) = Cardinality(before)
      /\ \A n \in 1..Len(s) : s[n] \in before
  BY <1>1, <1>3, OrderIs
<1>5. Len(shown') <= Len(s) /\ (state' = "done" => Len(shown') = Len(s))
  BY <1>1, <1>2, <1>3, <1>4
<1>6. \A n \in 1..Len(shown') :
        LET k == Key(query, shown'[n])
        IN /\ shown'[n] \in before
           /\ Cardinality(Ahead(query, before, k)) < n
           /\ n <= Cardinality(UpTo(query, before, k))
  <2> SUFFICES ASSUME NEW n \in 1..Len(shown')
               PROVE  LET k == Key(query, shown'[n])
                      IN /\ shown'[n] \in before
                         /\ Cardinality(Ahead(query, before, k)) < n
                         /\ n <= Cardinality(UpTo(query, before, k))
    OBVIOUS
  <2>1. CASE n \in 1..Len(shown)
    <3>1. n \in DOMAIN shown /\ shown[n] \in Range(shown) /\ shown'[n] = shown[n]
      BY <1>1, <2>1 DEF Range, TypeOK
    <3> QED
      BY <1>3, <3>1 DEF InOrder
  <2>2. CASE n \in Len(shown) + 1 .. Len(shown')
    <3>1. n \in 1..Len(s) /\ shown'[n] = s[n]
      BY <1>1, <1>2, <1>4, <2>2
    <3> QED
      BY <1>1, <1>3, <1>4, <3>1, Position
  <2> QED
    BY <1>1, <2>1, <2>2
<1>7. Range(shown') \subseteq before /\ DOMAIN shown' = 1..Len(shown')
  BY <1>1, <1>6 DEF Range
<1>8. InOrder(query, before)'
  <2>1. \A q, i : Key(q, i)' = Key(q, i)
    BY <1>1, SameRows
  <2>2. \A k : /\ Ahead(query, before, k)' = Ahead(query, before, k)
               /\ UpTo(query, before, k)' = UpTo(query, before, k)
    BY <1>1, SameRows
  <2> QED
    BY <1>1, <1>6, <1>7, <2>1, <2>2 DEF InOrder
<1>9. Matching(query)' = Matching(query)
  BY <1>1, SameRows
<1> QED
  BY <1>1, <1>3, <1>4, <1>5, <1>8, <1>9

\* In a table without ties, a row that was ahead of the walk and is not on the
\* page is ahead of the next one; after the last page there is none.
LEMMA AheadOfPage ==
  ASSUME TypeOK, WalkFits, StillAhead, ReadPage, Column(query) \in SortColumns,
         Disturbances \subseteq {"insert"}, ~tied'
  PROVE  /\ before \subseteq Matching(query)
         /\ \A i \in before \ Range(shown') :
              /\ Len(shown') <= Cardinality(Ahead(query, Matching(query), Key(query, i)))
              /\ state' # "done"
<1>1. /\ query \in Queries /\ shown' \in Seq(Ids)
      /\ Len(shown) \in Nat /\ Len(shown') \in Nat /\ Len(shown) <= Len(shown')
      /\ \A n \in 1..Len(shown) : shown'[n] = shown[n]
      /\ ~tied /\ \A i, j \in Matching(query) : i # j => Key(query, i) # Key(query, j)
  BY PageRead
<1>2. PICK s \in Ordered(query) :
        /\ Len(s) \in Nat
        /\ \A n \in Len(shown) + 1 .. Len(shown') : n <= Len(s) /\ shown'[n] = s[n]
        /\ state' = "done" => Len(s) <= Len(shown')
  BY PageRead
<1>3. /\ before \subseteq Matching(query)
      /\ \A i \in before \ Range(shown) :
           Len(shown) <= Cardinality(Ahead(query, Matching(query), Key(query, i)))
  BY <1>1 DEF StillAhead, ReadPage
<1>4. shown \in Seq(Ids)
  BY DEF TypeOK
<1>5. Range(shown) \subseteq Range(shown')
  BY <1>1, <1>4 DEF Range
<1> SUFFICES ASSUME NEW i \in before \ Range(shown')
             PROVE  /\ Len(shown') <= Cardinality(Ahead(query, Matching(query), Key(query, i)))
                    /\ state' # "done"
  BY <1>3
<1>6. PICK n \in 1..Len(s) : s[n] = i
  BY <1>1, <1>3, OrderIs
<1>7. Cardinality(Ahead(query, Matching(query), Key(query, i))) = n - 1
  BY <1>1, <1>6, UntiedPosition
<1>8. Len(shown) <= n - 1
  BY <1>3, <1>5, <1>7
<1>9. n \notin 1..Len(shown')
  <2>1. ASSUME n \in 1..Len(shown') PROVE FALSE
    <3>1. n \in Len(shown) + 1 .. Len(shown')
      BY <1>1, <1>8, <2>1
    <3>2. shown'[n] = i
      BY <1>2, <1>6, <3>1
    <3> QED
      BY <1>1, <2>1, <3>2 DEF Range
  <2> QED
    BY <2>1
<1> QED
  BY <1>1, <1>2, <1>6, <1>7, <1>9

\* In a table without ties, a row that was behind the walk is not on the page
\* again, and those on the page are behind the next one.
LEMMA BehindPage ==
  ASSUME TypeOK, WalkFits, LeftBehind, DeletionsNeverRepeat, ReadPage,
         Column(query) \in SortColumns, Disturbances \subseteq {"delete"}, ~tied'
  PROVE  /\ \A i \in Range(shown') \cap Matching(query) :
              Cardinality(Ahead(query, Matching(query), Key(query, i))) < Len(shown')
         /\ IsInjective(shown')
<1> DEFINE place(i) == Cardinality(Ahead(query, Matching(query), Key(query, i)))
<1>1. /\ query \in Queries /\ shown' \in Seq(Ids)
      /\ Len(shown) \in Nat /\ Len(shown') \in Nat /\ Len(shown) <= Len(shown')
      /\ \A n \in 1..Len(shown) : shown'[n] = shown[n]
      /\ ~tied /\ \A i, j \in Matching(query) : i # j => Key(query, i) # Key(query, j)
  BY PageRead
<1>2. PICK s \in Ordered(query) :
        /\ Len(s) \in Nat
        /\ \A n \in Len(shown) + 1 .. Len(shown') : n <= Len(s) /\ shown'[n] = s[n]
  BY PageRead
<1>3. /\ \A i \in Range(shown) \cap Matching(query) : place(i) < Len(shown)
      /\ IsInjective(shown)
  BY <1>1 DEF LeftBehind, DeletionsNeverRepeat, ReadPage
<1>4. shown \in Seq(Ids)
  BY DEF TypeOK
<1>5. \A n \in 1..Len(s) : s[n] \in Matching(query) /\ place(s[n]) = n - 1
  BY <1>1, OrderIs, UntiedPosition
<1>6. \A m, n \in 1..Len(s) : s[m] = s[n] => m = n
  BY <1>1, OrderIs
<1> HIDE DEF place
<1>7. \A n \in Len(shown) + 1 .. Len(shown') :
        n \in 1..Len(s) /\ shown'[n] = s[n] /\ s[n] \in Matching(query) /\ place(s[n]) = n - 1
  BY <1>1, <1>2, <1>5
<1>8. ASSUME NEW n \in 1..Len(shown'), shown'[n] \in Matching(query)
      PROVE  place(shown'[n]) < Len(shown')
  <2>1. CASE n \in 1..Len(shown)
    <3>1. shown'[n] = shown[n] /\ shown[n] \in Range(shown)
      BY <1>1, <1>4, <2>1 DEF Range
    <3>2. place(shown[n]) < Len(shown) /\ shown[n] \in Matching(query)
      BY <1>3, <1>8, <3>1
    <3>3. \E m \in 1..Len(s) : s[m] = shown[n]
      BY <1>1, <3>2, OrderIs
    <3>4. place(shown[n]) \in Int
      BY <1>2, <1>5, <3>3
    <3> QED
      BY <1>1, <3>1, <3>2, <3>4
  <2>2. CASE n \in Len(shown) + 1 .. Len(shown')
    BY <1>1, <1>7, <2>2
  <2> QED
    BY <1>1, <2>1, <2>2
<1>9. ASSUME NEW m \in 1..Len(shown'), NEW n \in 1..Len(shown'),
             m < n, shown'[m] = shown'[n]
      PROVE  FALSE
  <2>1. CASE n \in 1..Len(shown)
    <3>1. m \in 1..Len(shown) /\ shown[m] = shown[n]
      BY <1>1, <1>9, <2>1
    <3>2. m = n
      BY <1>3, <1>4, <2>1, <3>1 DEF IsInjective
    <3> QED
      BY <1>9, <3>2
  <2>2. CASE m \in Len(shown) + 1 .. Len(shown')
    <3>1. n \in Len(shown) + 1 .. Len(shown')
      BY <1>1, <1>9, <2>2
    <3>2. m = n
      BY <1>6, <1>7, <1>9, <2>2, <3>1
    <3> QED
      BY <1>9, <3>2
  <2>3. CASE m \in 1..Len(shown) /\ n \in Len(shown) + 1 .. Len(shown')
    <3>1. /\ shown[m] \in Range(shown) /\ shown[m] = s[n]
          /\ s[n] \in Matching(query) /\ place(s[n]) = n - 1
      BY <1>1, <1>4, <1>7, <1>9, <2>3 DEF Range
    <3>2. n - 1 < Len(shown)
      BY <1>3, <3>1
    <3> QED
      BY <1>1, <2>3, <3>2
  <2> QED
    BY <1>1, <2>1, <2>2, <2>3
<1>10. IsInjective(shown')
  <2>1. \A m, n \in 1..Len(shown') : shown'[m] = shown'[n] => m = n
    <3> SUFFICES ASSUME NEW m \in 1..Len(shown'), NEW n \in 1..Len(shown'),
                        shown'[m] = shown'[n], m # n
                 PROVE  FALSE
      OBVIOUS
    <3>1. m < n \/ n < m
      BY <1>1
    <3> QED
      BY <1>9, <3>1
  <2> QED
    BY <1>1, <2>1 DEF IsInjective
<1>11. \A i \in Range(shown') \cap Matching(query) : place(i) < Len(shown')
  BY <1>1, <1>8 DEF Range
<1> QED
  BY <1>10, <1>11 DEF place


\* A change of the table leaves the client where it is.
LEMMA ChangedAtWalk ==
  ASSUME NEW i \in Ids, Insert \/ Edit(i) \/ Delete(i)
  PROVE  /\ state \in {"idle", "reading"} /\ UNCHANGED <<list, walk>>
         /\ state = "idle" => changes' = changes
         /\ Indifferent(query)' <=> Indifferent(query)
         /\ state = "reading" => Disturbances \subseteq Disturbances'
<1>1. PICK kind \in {"insert", "edit", "delete"} : Changed(kind)
  BY DEF Insert, Edit, Delete
<1> QED
  BY <1>1, Disturbed

\* A walk begins at its first page, and the next page begins where one ended.
LEMMA FitsStep ==
  ASSUME TypeOK, WalkFits, [Next]_vars
  PROVE  WalkFits'
<1> USE DEF walk, vars
<1>1. CASE Start
  <2>1. /\ state = "idle" /\ state' = "reading" /\ query' \in Queries
        /\ page' = page /\ shown' = shown
    BY <1>1 DEF Start
  <2>2. Len(shown') = Offset(page')
    BY <2>1, Offsets DEF WalkFits
  <2>3. Offset(page)' = Offset(page')
    BY DEF Offset
  <2> QED
    BY <2>1, <2>2, <2>3 DEF WalkFits
<1>2. CASE ReadPage
  <2>1. CASE Column(query) \in SortColumns
    <3>1. /\ query' = query /\ query \in Queries /\ state' # "idle"
          /\ state' = "reading" => Len(shown') = Offset(page')
      BY <1>2, <2>1, PageRead
    <3> QED
      BY <3>1 DEF WalkFits, Offset
  <2>2. CASE Column(query) \notin SortColumns
    BY <1>2, <2>2 DEF ReadPage, WalkFits
  <2> QED
    BY <2>1, <2>2
<1>3. CASE Leave
  BY <1>3 DEF Leave, WalkFits
<1>4. ASSUME NEW i \in Ids, Insert \/ Edit(i) \/ Delete(i) PROVE WalkFits'
  BY <1>4, ChangedAtWalk DEF WalkFits, Offset
<1>5. CASE UNCHANGED vars
  BY <1>5 DEF WalkFits, Offset
<1>6. Insert => \E i \in Ids : Insert
  BY DEF Insert
<1> QED
  BY <1>1, <1>2, <1>3, <1>4, <1>5, <1>6 DEF Next

\* Nothing has been shown yet: every claim about what has been shown is true.
LEMMA NothingShown ==
  ASSUME TypeOK, WalkFits, Start
  PROVE  /\ query' \in Queries /\ shown' = <<>> /\ Len(shown') = 0 /\ Range(shown') = {}
         /\ UNCHANGED <<list, rows>> /\ before' = Matching(query)' /\ state' = "reading"
<1>1. /\ state = "idle" /\ state' = "reading" /\ query' \in Queries
      /\ before' = Matching(query') /\ shown' = shown /\ UNCHANGED <<list, rows>>
  BY DEF Start, table
<1>2. Matching(query)' = Matching(query')
  BY <1>1, SameRows
<1> QED
  BY <1>1, <1>2 DEF WalkFits, Range

\* A walk that nothing disturbs stays in order.
LEMMA ReadSoFarStep ==
  ASSUME TypeOK, WalkFits, ReadSoFar, [Next]_vars
  PROVE  ReadSoFar'
<1> USE DEF walk, vars
<1> SUFFICES ASSUME state' = "reading", Disturbances' = {}
             PROVE  /\ before' = Matching(query)' /\ Len(shown') <= Cardinality(before')
                    /\ InOrder(query, before)'
  BY DEF ReadSoFar
<1>1. CASE Start
  <2>1. /\ query' \in Queries /\ shown' = <<>> /\ Len(shown') = 0 /\ Range(shown') = {}
        /\ UNCHANGED <<list, rows>> /\ before' = Matching(query)'
    BY <1>1, NothingShown
  <2>2. Cardinality(before') \in Nat
    BY <2>1, MatchingFits, SameRows
  <2>3. InOrder(query, before)'
    BY <2>1 DEF InOrder
  <2> QED
    BY <2>1, <2>2, <2>3
<1>2. CASE ReadPage
  <2>1. Column(query) \in SortColumns
    BY <1>2 DEF ReadPage
  <2>2. UNCHANGED <<list, query, changes>>
    BY <1>2, <2>1, PageRead
  <2> QED
    BY <1>2, <2>1, <2>2, ReadUndisturbed, OrderlyPage
<1>3. CASE Leave
  BY <1>3 DEF Leave
<1>4. CASE Insert
  BY <1>4, Disturbed DEF Insert
<1>5. ASSUME NEW e \in Ids, Edit(e)
      PROVE  /\ before' = Matching(query)' /\ Len(shown') <= Cardinality(before')
             /\ InOrder(query, before)'
  <2>1. /\ state = "reading" /\ UNCHANGED <<list, walk>>
        /\ Indifferent(query) /\ Disturbances = {}
    BY <1>5, EditDisturbs
  <2>2. query \in Queries
    BY <2>1 DEF WalkFits
  <2>3. /\ before = Matching(query) /\ Len(shown) <= Cardinality(before)
        /\ InOrder(query, before)
    BY <2>1 DEF ReadSoFar
  <2>4. Matching(query)' = Matching(query)
    BY <1>5, <2>1, <2>2, Edited
  <2>5. \A i \in before : Key(query, i)' = Key(query, i)
    BY <1>5, <2>1, <2>2, <2>3, Edited, MatchingFits
  <2>6. \A k : /\ Ahead(query, before, k)' = Ahead(query, before, k)
               /\ UpTo(query, before, k)' = UpTo(query, before, k)
    <3> SUFFICES ASSUME NEW k
                 PROVE  /\ Ahead(query, before, k)' = Ahead(query, before, k)
                        /\ UpTo(query, before, k)' = UpTo(query, before, k)
      OBVIOUS
    <3> QED
      BY <2>1, <2>5, SamePlaces
  <2>7. \A n \in DOMAIN shown : shown[n] \in before
    BY <2>3 DEF InOrder, Range
  <2>8. InOrder(query, before)'
    BY <2>1, <2>3, <2>5, <2>6, <2>7 DEF InOrder
  <2> QED
    BY <2>1, <2>3, <2>4, <2>8
<1>6. ASSUME NEW d \in Ids, Delete(d) PROVE FALSE
  BY <1>6, Disturbed DEF Delete
<1>7. CASE UNCHANGED vars
  <2>1. /\ state = "reading" /\ Disturbances = {} /\ UNCHANGED <<list, rows, walk>>
    BY <1>7 DEF table, Disturbances, Indifferent, Column
  <2>2. /\ before = Matching(query) /\ Len(shown) <= Cardinality(before)
        /\ InOrder(query, before)
    BY <2>1 DEF ReadSoFar
  <2> QED
    BY <2>1, <2>2, SameRows DEF InOrder
<1> QED
  BY <1>1, <1>2, <1>3, <1>4, <1>5, <1>6, <1>7 DEF Next


\* A row not shown yet stays ahead of the walk, whatever is inserted.
LEMMA StillAheadStep ==
  ASSUME TypeOK, WalkFits, StillAhead, [Next]_vars
  PROVE  StillAhead'
<1> USE DEF walk, vars
<1> SUFFICES ASSUME state' = "reading", Disturbances' \subseteq {"insert"}, ~tied'
             PROVE  /\ before' \subseteq Matching(query)'
                    /\ \A i \in before' \ Range(shown') :
                         Len(shown') <=
                           Cardinality(Ahead(query, Matching(query), Key(query, i))')
  BY DEF StillAhead
<1>1. CASE Start
  <2>1. /\ query' \in Queries /\ Len(shown') = 0 /\ UNCHANGED <<list, rows>>
        /\ before' = Matching(query)'
    BY <1>1, NothingShown
  <2>2. \A i : Ahead(query, Matching(query), Key(query, i))'
                 = Ahead(query', Matching(query'), Key(query', i))
    BY <2>1, SameRows
  <2>3. IsFiniteSet(Matching(query'))
    BY <2>1, MatchingFits
  <2>4. \A k : Cardinality(Ahead(query', Matching(query'), k)) \in Nat
    BY <2>3, FS_Subset, FS_CardinalityType DEF Ahead
  <2> QED
    BY <2>1, <2>2, <2>4
<1>2. CASE ReadPage
  <2>1. Column(query) \in SortColumns
    BY <1>2 DEF ReadPage
  <2>2. UNCHANGED <<list, rows, query, before, changes>>
    BY <1>2, <2>1, PageRead DEF table
  <2>3. Disturbances \subseteq {"insert"}
    BY <2>2, ReadUndisturbed
  <2>4. /\ before \subseteq Matching(query)
        /\ \A i \in before \ Range(shown') :
             Len(shown') <= Cardinality(Ahead(query, Matching(query), Key(query, i)))
    BY <1>2, <2>1, <2>3, AheadOfPage
  <2>5. /\ Matching(query)' = Matching(query)
        /\ \A i : Ahead(query, Matching(query), Key(query, i))'
                    = Ahead(query, Matching(query), Key(query, i))
    BY <2>2, SameRows
  <2> QED
    BY <2>2, <2>4, <2>5
<1>3. CASE Leave
  BY <1>3 DEF Leave
<1>4. ASSUME state = "reading", UNCHANGED <<list, walk>>, Disturbances \subseteq {"insert"},
             Matching(query) \subseteq Matching(query)',
             \A i \in Matching(query) : Key(query, i)' = Key(query, i)
      PROVE  /\ before' \subseteq Matching(query)'
             /\ \A i \in before' \ Range(shown') :
                  Len(shown') <=
                    Cardinality(Ahead(query, Matching(query), Key(query, i))')
  <2>1. /\ before \subseteq Matching(query)
        /\ \A i \in before \ Range(shown) :
             Len(shown) <= Cardinality(Ahead(query, Matching(query), Key(query, i)))
    BY <1>4 DEF StillAhead
  <2>2. IsFiniteSet(Matching(query)')
    <3>1. Matching(query)' \subseteq Ids
      BY <1>4, Services
         DEF TypeOK, Matching, GetTask, GetProject, GetWorkspaces, Searched, Present
    <3>2. IsFiniteSet(Ids)
      BY Bounds, FS_Interval DEF Ids
    <3> QED
      BY <3>1, <3>2, FS_Subset
  <2>3. ASSUME NEW i \in before \ Range(shown)
        PROVE  Len(shown) <= Cardinality(Ahead(query, Matching(query), Key(query, i))')
    <3>1. Key(query, i)' = Key(query, i)
      BY <1>4, <2>1
    <3>2. /\ Cardinality(Ahead(query, Matching(query), Key(query, i))) \in Nat
          /\ Cardinality(Ahead(query, Matching(query), Key(query, i))') \in Nat
          /\ Cardinality(Ahead(query, Matching(query), Key(query, i)))
               <= Cardinality(Ahead(query, Matching(query), Key(query, i))')
      BY <1>4, <2>2, <3>1, MoreAhead
    <3>3. Len(shown) \in Nat
      BY DEF TypeOK
    <3> QED
      BY <2>1, <3>2, <3>3
  <2> QED
    BY <1>4, <2>1, <2>3
<1>5. CASE Insert
  <2>1. state = "reading" /\ UNCHANGED <<list, walk>> /\ Disturbances \subseteq {"insert"}
    BY <1>5, Disturbed DEF Insert
  <2>2. query \in Queries
    BY <2>1 DEF WalkFits
  <2> QED
    BY <1>4, <1>5, <2>1, <2>2, Inserted
<1>6. ASSUME NEW e \in Ids, Edit(e)
      PROVE  /\ before' \subseteq Matching(query)'
             /\ \A i \in before' \ Range(shown') :
                  Len(shown') <=
                    Cardinality(Ahead(query, Matching(query), Key(query, i))')
  <2>1. /\ state = "reading" /\ UNCHANGED <<list, walk>>
        /\ Indifferent(query) /\ Disturbances \subseteq {"insert"}
    BY <1>6, EditDisturbs
  <2>2. query \in Queries
    BY <2>1 DEF WalkFits
  <2>3. /\ Matching(query)' = Matching(query)
        /\ \A i \in Matching(query) : Key(query, i)' = Key(query, i)
    BY <1>6, <2>1, <2>2, Edited, MatchingFits
  <2> QED
    BY <1>4, <2>1, <2>3
<1>7. ASSUME NEW d \in Ids, Delete(d) PROVE FALSE
  BY <1>7, Disturbed DEF Delete
<1>8. CASE UNCHANGED vars
  <2>1. /\ state = "reading" /\ UNCHANGED <<list, rows, walk>>
        /\ Disturbances \subseteq {"insert"}
    BY <1>8 DEF table, Disturbances, Indifferent, Column
  <2> QED
    BY <1>4, <2>1, SameRows
<1> QED
  BY <1>1, <1>2, <1>3, <1>5, <1>6, <1>7, <1>8 DEF Next

\* A row that was shown stays behind the walk, whatever is deleted.
LEMMA LeftBehindStep ==
  ASSUME TypeOK, WalkFits, LeftBehind, DeletionsNeverRepeat, [Next]_vars
  PROVE  LeftBehind'
<1> USE DEF walk, vars
<1> SUFFICES ASSUME state' = "reading", Disturbances' \subseteq {"delete"}, ~tied',
                    NEW i \in Range(shown') \cap Matching(query)'
             PROVE  Cardinality(Ahead(query, Matching(query), Key(query, i))') < Len(shown')
  BY DEF LeftBehind
<1>1. CASE Start
  BY <1>1, NothingShown
<1>2. CASE ReadPage
  <2>1. Column(query) \in SortColumns
    BY <1>2 DEF ReadPage
  <2>2. UNCHANGED <<list, rows, query, before, changes>>
    BY <1>2, <2>1, PageRead DEF table
  <2>3. Disturbances \subseteq {"delete"}
    BY <2>2, ReadUndisturbed
  <2>4. \A j \in Range(shown') \cap Matching(query) :
          Cardinality(Ahead(query, Matching(query), Key(query, j))) < Len(shown')
    BY <1>2, <2>1, <2>3, BehindPage
  <2>5. /\ Matching(query)' = Matching(query)
        /\ Ahead(query, Matching(query), Key(query, i))'
             = Ahead(query, Matching(query), Key(query, i))
    BY <2>2, SameRows
  <2> QED
    BY <2>4, <2>5
<1>3. CASE Leave
  BY <1>3 DEF Leave
<1>4. CASE Insert
  BY <1>4, Disturbed DEF Insert
<1>5. ASSUME state = "reading", UNCHANGED <<list, walk>>, Disturbances \subseteq {"delete"},
             Matching(query)' \subseteq Matching(query),
             \A j \in Matching(query)' : Key(query, j)' = Key(query, j)
      PROVE  Cardinality(Ahead(query, Matching(query), Key(query, i))') < Len(shown')
  <2>1. /\ i \in Range(shown) \cap Matching(query) /\ query \in Queries
        /\ Key(query, i)' = Key(query, i)
    BY <1>5 DEF WalkFits
  <2>2. Cardinality(Ahead(query, Matching(query), Key(query, i))) < Len(shown)
    BY <1>5, <2>1 DEF LeftBehind
  <2>3. /\ Cardinality(Ahead(query, Matching(query), Key(query, i))) \in Nat
        /\ Cardinality(Ahead(query, Matching(query), Key(query, i))') \in Nat
        /\ Cardinality(Ahead(query, Matching(query), Key(query, i))')
             <= Cardinality(Ahead(query, Matching(query), Key(query, i)))
    BY <1>5, <2>1, MatchingFits, FewerAhead
  <2>4. Len(shown) \in Nat
    BY DEF TypeOK
  <2> QED
    BY <1>5, <2>2, <2>3, <2>4
<1>6. ASSUME NEW e \in Ids, Edit(e)
      PROVE  Cardinality(Ahead(query, Matching(query), Key(query, i))') < Len(shown')
  <2>1. /\ state = "reading" /\ UNCHANGED <<list, walk>>
        /\ Indifferent(query) /\ Disturbances \subseteq {"delete"}
    BY <1>6, EditDisturbs
  <2>2. query \in Queries
    BY <2>1 DEF WalkFits
  <2>3. /\ Matching(query)' = Matching(query)
        /\ \A j \in Matching(query) : Key(query, j)' = Key(query, j)
    BY <1>6, <2>1, <2>2, Edited, MatchingFits
  <2> QED
    BY <1>5, <2>1, <2>3
<1>7. ASSUME NEW d \in Ids, Delete(d)
      PROVE  Cardinality(Ahead(query, Matching(query), Key(query, i))') < Len(shown')
  <2>1. state = "reading" /\ UNCHANGED <<list, walk>> /\ Disturbances \subseteq {"delete"}
    BY <1>7, Disturbed DEF Delete
  <2>2. query \in Queries
    BY <2>1 DEF WalkFits
  <2> QED
    BY <1>5, <1>7, <2>1, <2>2, Deleted
<1>8. CASE UNCHANGED vars
  <2>1. /\ state = "reading" /\ UNCHANGED <<list, rows, walk>>
        /\ Disturbances \subseteq {"delete"}
    BY <1>8 DEF table, Disturbances, Indifferent, Column
  <2> QED
    BY <1>5, <2>1, SameRows
<1> QED
  BY <1>1, <1>2, <1>3, <1>4, <1>6, <1>7, <1>8 DEF Next

\* The last page of an undisturbed walk is its end.
LEMMA WalkExactStep ==
  ASSUME TypeOK, WalkFits, ReadSoFar, WalkExact, [Next]_vars
  PROVE  WalkExact'
<1> SUFFICES ASSUME state' = "done", Disturbances' = {}
             PROVE  Len(shown') = Cardinality(before') /\ InOrder(query, before)'
  BY DEF WalkExact
<1>1. CASE ReadPage /\ Column(query) \in SortColumns
  <2>1. UNCHANGED <<list, query, changes>>
    BY <1>1, PageRead
  <2> QED
    BY <1>1, <2>1, ReadUndisturbed, OrderlyPage
<1>2. CASE UNCHANGED vars
  <2>1. /\ state = "done" /\ Disturbances = {} /\ UNCHANGED <<list, rows, query, shown, before>>
    BY <1>2 DEF vars, table, walk, Disturbances, Indifferent, Column
  <2>2. Len(shown) = Cardinality(before) /\ InOrder(query, before)
    BY <2>1 DEF WalkExact
  <2> QED
    BY <2>1, <2>2, SameRows DEF InOrder
<1> QED
  BY <1>1, <1>2, LastPage

\* At the last page of a walk that only insertions disturb, no row is ahead.
LEMMA InsertionsStep ==
  ASSUME TypeOK, WalkFits, StillAhead, InsertionsNeverHide, [Next]_vars
  PROVE  InsertionsNeverHide'
<1> SUFFICES ASSUME state' = "done", Disturbances' \subseteq {"insert"}, ~tied'
             PROVE  before' \subseteq Range(shown')
  BY DEF InsertionsNeverHide, Range
<1>1. CASE ReadPage /\ Column(query) \in SortColumns
  <2>1. UNCHANGED <<list, query, before, changes>>
    BY <1>1, PageRead
  <2>2. Disturbances \subseteq {"insert"}
    BY <2>1, ReadUndisturbed
  <2> QED
    BY <1>1, <2>1, <2>2, AheadOfPage
<1>2. CASE UNCHANGED vars
  BY <1>2 DEF InsertionsNeverHide, vars, walk, Disturbances, Indifferent, Column
<1> QED
  BY <1>1, <1>2, LastPage

\* No page of a walk that only deletions disturb shows a row again.
LEMMA DeletionsStep ==
  ASSUME TypeOK, WalkFits, LeftBehind, DeletionsNeverRepeat, [Next]_vars
  PROVE  DeletionsNeverRepeat'
<1> USE DEF walk, vars
<1> SUFFICES ASSUME state' \in {"reading", "done"}, Disturbances' \subseteq {"delete"}, ~tied'
             PROVE  IsInjective(shown')
  BY DEF DeletionsNeverRepeat, IsInjective
<1>1. CASE Start
  BY <1>1, NothingShown DEF IsInjective
<1>2. CASE ReadPage
  <2>1. Column(query) \in SortColumns
    BY <1>2 DEF ReadPage
  <2>2. UNCHANGED <<list, query, changes>>
    BY <1>2, <2>1, PageRead
  <2>3. Disturbances \subseteq {"delete"}
    BY <2>2, ReadUndisturbed
  <2> QED
    BY <1>2, <2>1, <2>3, BehindPage
<1>3. CASE Leave
  BY <1>3 DEF Leave
<1>4. ASSUME NEW i \in Ids, Insert \/ Edit(i) \/ Delete(i) PROVE IsInjective(shown')
  <2>1. /\ state = "reading" /\ UNCHANGED <<shown, tied>>
        /\ Disturbances \subseteq Disturbances'
    BY <1>4, ChangedAtWalk
  <2> QED
    BY <2>1 DEF DeletionsNeverRepeat
<1>5. Insert => \E i \in Ids : Insert
  BY DEF Insert
<1>6. CASE UNCHANGED vars
  BY <1>6 DEF DeletionsNeverRepeat, Disturbances, Indifferent, Column
<1> QED
  BY <1>1, <1>2, <1>3, <1>4, <1>5, <1>6 DEF Next

-----------------------------------------------------------------------------
(* The theorems                                                            *)

LEMMA InitInv == Init => IInv
<1> SUFFICES ASSUME Init PROVE IInv
  OBVIOUS
<1>1. TypeOK
  <2>1. <<>> \in Seq(Ids) /\ 1 \in Nat \ {0} /\ Present = {}
    BY DEF Init, Present
  <2>2. 1 \in 1..MaxRows + 1 /\ 1 \in 1..MaxNow /\ 0 \in 0..MaxChanges
    BY Bounds
  <2>3. rows \in [Ids -> Stored(now) \cup {Unset}]
    BY DEF Init
  <2> QED
    BY <2>1, <2>2, <2>3 DEF Init, TypeOK
<1> QED
  BY <1>1 DEF IInv, Init, WalkFits, ReadSoFar, StillAhead, LeftBehind,
              WalkExact, InsertionsNeverHide, DeletionsNeverRepeat

LEMMA StepInv == IInv /\ [Next]_vars => IInv'
BY TypeStep, FitsStep, ReadSoFarStep, StillAheadStep, LeftBehindStep,
   WalkExactStep, InsertionsStep, DeletionsStep DEF IInv

\* The inductive invariant holds of every walk.
THEOREM Invariance == Spec => []IInv
BY InitInv, StepInv, PTL DEF Spec

\* Whatever clients ask for and write, a page is counted from 1 and every row
\* shown is one of the table (task.dto.ts:112-115).
THEOREM TypeCorrect == Spec => []TypeOK
<1>1. IInv => TypeOK
  BY DEF IInv
<1> QED
  BY <1>1, Invariance, PTL

\* A walk nothing disturbed has as many rows as there are, in order, however the
\* database orders rows of one key and however large a page is
\* (task.service.ts:233-280).
THEOREM WalksExact == Spec => []WalkExact
<1>1. IInv => WalkExact
  BY DEF IInv
<1> QED
  BY <1>1, Invariance, PTL

\* However many rows are inserted during a walk without ties, it misses none of
\* those it began with (task.service.ts:277-280).
THEOREM InsertionsHideNothing == Spec => []InsertionsNeverHide
<1>1. IInv => InsertionsNeverHide
  BY DEF IInv
<1> QED
  BY <1>1, Invariance, PTL

\* However many rows are deleted during a walk without ties, it shows none twice
\* (task.service.ts:277-280).
THEOREM DeletionsRepeatNothing == Spec => []DeletionsNeverRepeat
<1>1. IInv => DeletionsNeverRepeat
  BY DEF IInv
<1> QED
  BY <1>1, Invariance, PTL
=============================================================================
