----------------------- MODULE MessageQueries_proofs -----------------------
(***************************************************************************)
(* Proofs about MessageQueries for any finite set of messages and any size *)
(* of a chunk.  They rest on two facts of a finite set in a strict order:  *)
(* its elements with fewer than k predecessors are at most k, and at least *)
(* k unless they are all of it.                                            *)
(***************************************************************************)
EXTENDS MessageQueries, FiniteSetTheorems, TLAPS

\* R is a strict total order of S.
Orders(R, S) ==
    /\ \A a \in S : <<a, a>> \notin R
    /\ \A a, b, c \in S : <<a, b>> \in R /\ <<b, c>> \in R => <<a, c>> \in R
    /\ \A a, b \in S : a = b \/ <<a, b>> \in R \/ <<b, a>> \in R

Preds(R, S, m) == {n \in S : <<n, m>> \in R}
Lowest(R, S, k) == {m \in S : Cardinality(Preds(R, S, m)) < k}

\* The number of predecessors grows along the order.
LEMMA PredsGrow ==
    ASSUME NEW S, IsFiniteSet(S), NEW R, Orders(R, S), NEW m \in S, NEW n \in S, <<n, m>> \in R
    PROVE  /\ Cardinality(Preds(R, S, n)) \in Nat /\ Cardinality(Preds(R, S, m)) \in Nat
           /\ Cardinality(Preds(R, S, n)) < Cardinality(Preds(R, S, m))
<1>1. IsFiniteSet(Preds(R, S, n)) /\ IsFiniteSet(Preds(R, S, m))
  BY FS_Subset DEF Preds
<1>2. Preds(R, S, n) \subseteq Preds(R, S, m)
  BY DEF Preds, Orders
<1>3. n \in Preds(R, S, m) /\ n \notin Preds(R, S, n)
  BY DEF Preds, Orders
<1>4. Cardinality(Preds(R, S, n)) \in Nat /\ Cardinality(Preds(R, S, m)) \in Nat
  BY <1>1, FS_CardinalityType
<1>5. /\ Cardinality(Preds(R, S, n)) <= Cardinality(Preds(R, S, m))
      /\ Cardinality(Preds(R, S, n)) = Cardinality(Preds(R, S, m)) =>
             Preds(R, S, n) = Preds(R, S, m)
  BY <1>1, <1>2, FS_Subset
<1> QED
  BY <1>3, <1>4, <1>5

\* A nonempty set has a first element, the one with fewest predecessors.
LEMMA FirstExists ==
    ASSUME NEW S, IsFiniteSet(S), NEW R, Orders(R, S), NEW T \in SUBSET S, T # {}
    PROVE  \E m \in T : \A n \in T : ~ <<n, m>> \in R
<1> DEFINE sets == {Preds(R, S, m) : m \in T}
<1>1. sets \subseteq FiniteSubsetsOf(S) /\ sets # {}
  <2>1. \A m \in T : Preds(R, S, m) \in SUBSET S /\ IsFiniteSet(Preds(R, S, m))
    BY FS_Subset DEF Preds
  <2> QED
    BY <2>1 DEF FiniteSubsetsOf
<1> HIDE DEF sets
<1>2. PICK p \in sets : \A q \in sets : ~ <<q, p>> \in StrictSubsetOrdering(S)
  BY <1>1, FS_StrictSubsetOrderingWellFounded, WFMin
<1>3. PICK m \in T : p = Preds(R, S, m)
  BY DEF sets
<1>4. ASSUME NEW n \in T, <<n, m>> \in R PROVE FALSE
  <2>1. Preds(R, S, n) \subseteq p /\ n \in p /\ n \notin Preds(R, S, n)
    BY <1>3, <1>4 DEF Preds, Orders
  <2>2. <<Preds(R, S, n), p>> \in StrictSubsetOrdering(S)
    BY <1>3, <2>1 DEF StrictSubsetOrdering, Preds
  <2>3. Preds(R, S, n) \in sets
    BY DEF sets
  <2> QED
    BY <1>2, <2>2, <2>3
<1> QED
  BY <1>4

\* And a last one.
LEMMA LastExists ==
    ASSUME NEW S, IsFiniteSet(S), NEW R, Orders(R, S), NEW T \in SUBSET S, T # {}
    PROVE  \E m \in T : \A n \in T : ~ <<m, n>> \in R
<1> DEFINE Q == {p \in S \X S : <<p[2], p[1]>> \in R}
<1>1. \A a, b \in S : <<a, b>> \in Q <=> <<b, a>> \in R
  OBVIOUS
<1> HIDE DEF Q
<1>2. Orders(Q, S)
  BY <1>1 DEF Orders
<1>3. PICK m \in T : \A n \in T : ~ <<n, m>> \in Q
  BY <1>2, FirstExists
<1> QED
  BY <1>1, <1>3

\* Unless they are the whole set, the lowest k are k at least.
LEMMA LowestAreEnough ==
    ASSUME NEW S, IsFiniteSet(S), NEW R, Orders(R, S), NEW k \in Nat,
           NEW m \in S, m \notin Lowest(R, S, k)
    PROVE  Cardinality(Lowest(R, S, k)) >= k
<1> DEFINE high == S \ Lowest(R, S, k)
<1>1. PICK h \in high : \A n \in high : ~ <<n, h>> \in R
  BY FirstExists
<1>2. Preds(R, S, h) \subseteq Lowest(R, S, k)
  BY <1>1 DEF Preds
<1>3. IsFiniteSet(Lowest(R, S, k)) /\ IsFiniteSet(Preds(R, S, h))
  BY FS_Subset DEF Lowest, Preds
<1>4. /\ Cardinality(Preds(R, S, h)) <= Cardinality(Lowest(R, S, k))
      /\ Cardinality(Preds(R, S, h)) \in Nat /\ Cardinality(Lowest(R, S, k)) \in Nat
  BY <1>2, <1>3, FS_Subset, FS_CardinalityType
<1>5. Cardinality(Preds(R, S, h)) >= k
  BY <1>1, <1>4 DEF Lowest
<1> QED
  BY <1>4, <1>5

\* The lowest k are no more than k.
LEMMA LowestAreFew ==
    ASSUME NEW S, IsFiniteSet(S), NEW R, Orders(R, S), NEW k \in Nat
    PROVE  Cardinality(Lowest(R, S, k)) <= k
<1> DEFINE low == Lowest(R, S, k)
<1>1. low \in SUBSET S /\ IsFiniteSet(low)
  BY FS_Subset DEF Lowest
<1>2. CASE low = {}
  BY <1>2, FS_EmptySet
<1>3. CASE low # {}
  <2>1. PICK m \in low : \A n \in low : ~ <<m, n>> \in R
    BY <1>1, <1>3, LastExists
  <2>2. m \in S /\ Cardinality(Preds(R, S, m)) < k
    BY <2>1 DEF Lowest
  <2>3. low \subseteq Preds(R, S, m) \cup {m}
    BY <1>1, <2>1, <2>2 DEF Preds, Orders
  <2>4. IsFiniteSet(Preds(R, S, m)) /\ m \notin Preds(R, S, m)
    BY <2>2, FS_Subset DEF Preds, Orders
  <2>5. /\ IsFiniteSet(Preds(R, S, m) \cup {m})
        /\ Cardinality(Preds(R, S, m) \cup {m}) = Cardinality(Preds(R, S, m)) + 1
    BY <2>4, FS_AddElement
  <2>6. /\ Cardinality(low) <= Cardinality(Preds(R, S, m) \cup {m})
        /\ Cardinality(low) \in Nat /\ Cardinality(Preds(R, S, m)) \in Nat
    BY <1>1, <2>3, <2>4, <2>5, FS_Subset, FS_CardinalityType
  <2> QED
    BY <2>2, <2>5, <2>6
<1> QED
  BY <1>2, <1>3

-----------------------------------------------------------------------------
(* The two orders of the queries. *)

Oldest == {p \in Messages \X Messages : Before(p[1], p[2])}
Newest == {p \in Messages \X Messages : Above(p[1], p[2])}

USE QueriesAssumption

\* Both are strict total orders of any messages: ties of received_at are broken by id.
LEMMA QueryOrders ==
    ASSUME NEW T \in SUBSET Messages
    PROVE  /\ IsFiniteSet(T) /\ Orders(Oldest, T) /\ Orders(Newest, T)
           /\ \A m, n \in T : <<m, n>> \in Oldest <=> Before(m, n)
           /\ \A m, n \in T : <<m, n>> \in Newest <=> Above(m, n)
<1>1. /\ \A m, n \in T : <<m, n>> \in Oldest <=> Before(m, n)
      /\ \A m, n \in T : <<m, n>> \in Newest <=> Above(m, n)
  BY DEF Oldest, Newest
<1>2. \A m \in T : m \in Nat /\ ReceivedAt[m] \in Nat
  OBVIOUS
<1>3. Orders(Oldest, T)
  BY <1>1, <1>2 DEF Orders, Before
<1>4. Orders(Newest, T)
  BY <1>1, <1>2 DEF Orders, Above
<1> QED
  BY <1>1, <1>3, <1>4, FS_Subset

\* A chunk is the lowest of what is after the cursor.
LEMMA FirstIsLowest ==
    ASSUME NEW T \in SUBSET Messages PROVE First(T) = Lowest(Oldest, T, Chunk)
<1>1. \A m \in T : {n \in T : Before(n, m)} = Preds(Oldest, T, m)
  BY QueryOrders DEF Preds
<1> QED
  BY <1>1 DEF First, Lowest

\* If a chunk is not full, it is all there is.
LEMMA ShortChunkIsAll ==
    ASSUME NEW T \in SUBSET Messages, Cardinality(First(T)) < Chunk PROVE T \subseteq First(T)
<1>1. IsFiniteSet(First(T))
  BY QueryOrders, FS_Subset DEF First
<1>2. Cardinality(First(T)) \in Nat
  BY <1>1, FS_CardinalityType
<1>3. IsFiniteSet(T) /\ Orders(Oldest, T) /\ First(T) = Lowest(Oldest, T, Chunk)
  BY QueryOrders, FirstIsLowest
<1>4. ~ Cardinality(First(T)) >= Chunk
  BY <1>2
<1> QED
  BY <1>3, <1>4, LowestAreEnough

\* If a chunk is full, its last row is one, and all rows up to it are in the chunk.
LEMMA FullChunkHasLast ==
    ASSUME NEW T \in SUBSET Messages, ~ Cardinality(First(T)) < Chunk
    PROVE  \E c \in First(T) :
               /\ {m \in First(T) : \A n \in First(T) : ~ Before(m, n)} = {c}
               /\ \A m \in T : m \in First(T) <=> m = c \/ Before(m, c)
<1> DEFINE rows == First(T)
<1>1. rows \in SUBSET T /\ rows = Lowest(Oldest, T, Chunk)
  BY FirstIsLowest DEF First
<1>2. rows # {}
  BY FS_EmptySet
<1> HIDE DEF rows
<1>3. PICK c \in rows : \A n \in rows : ~ <<c, n>> \in Oldest
  <2>1. IsFiniteSet(T) /\ Orders(Oldest, T)
    BY QueryOrders
  <2> QED
    BY <1>1, <1>2, <2>1, LastExists
<1>4. c \in T /\ \A n \in rows : n = c \/ (Before(n, c) /\ ~ Before(c, n))
  BY <1>1, <1>3, QueryOrders DEF Orders
<1>5. {m \in rows : \A n \in rows : ~ Before(m, n)} = {c}
  BY <1>1, <1>3, <1>4, QueryOrders
<1>6. ASSUME NEW m \in T, Before(m, c) PROVE m \in rows
  <2>1. /\ Cardinality(Preds(Oldest, T, m)) < Cardinality(Preds(Oldest, T, c))
        /\ Cardinality(Preds(Oldest, T, m)) \in Nat /\ Cardinality(Preds(Oldest, T, c)) \in Nat
    BY <1>4, <1>6, QueryOrders, PredsGrow
  <2>2. Cardinality(Preds(Oldest, T, c)) < Chunk
    BY <1>1, <1>3 DEF Lowest
  <2> QED
    BY <1>1, <2>1, <2>2 DEF Lowest
<1> QED
  BY <1>3, <1>4, <1>5, <1>6 DEF rows

\* A page is full if any row is below it.
LEMMA PageIsFull ==
    ASSUME TypeOK, NEW m \in table \cap Matching,
           Cardinality({n \in table \cap Matching : Above(n, m)}) >= offset + Chunk
    PROVE  Cardinality(Page) >= Chunk
<1> DEFINE T == table \cap Matching
           upto == Lowest(Newest, T, offset + Chunk)
           done == Lowest(Newest, T, offset)
<1>1. T \in SUBSET Messages /\ offset \in Nat /\ offset + Chunk \in Nat /\ Chunk \in Nat
  BY DEF TypeOK
<1>2. \A k \in T : /\ {n \in T : Above(n, k)} = Preds(Newest, T, k)
                   /\ Cardinality(Preds(Newest, T, k)) \in Nat
  <2>1. \A k \in T : {n \in T : Above(n, k)} = Preds(Newest, T, k)
    BY <1>1, QueryOrders DEF Preds
  <2>2. \A k \in T : IsFiniteSet(Preds(Newest, T, k))
    BY <1>1, QueryOrders, FS_Subset DEF Preds
  <2> QED
    BY <2>1, <2>2, FS_CardinalityType
<1>3. m \in T /\ m \notin upto
  <2>1. m \in T /\ Cardinality(Preds(Newest, T, m)) >= offset + Chunk
    BY <1>2
  <2> QED
    BY <1>1, <1>2, <2>1 DEF Lowest
<1>4. Page = upto \ done /\ done \subseteq upto
  <2>1. Page = {k \in T : Cardinality(Preds(Newest, T, k)) \in offset..(offset + Chunk - 1)}
    BY <1>2 DEF Page
  <2> DEFINE place(k) == Cardinality(Preds(Newest, T, k))
  <2>2. \A k \in T : place(k) \in Nat
    BY <1>2
  <2>3. /\ Page = {k \in T : place(k) \in offset..(offset + Chunk - 1)}
        /\ upto = {k \in T : place(k) < offset + Chunk}
        /\ done = {k \in T : place(k) < offset}
    BY <2>1 DEF Lowest
  <2> HIDE DEF T, place, upto, done
  <2>4. \A k \in T : /\ place(k) \in offset..(offset + Chunk - 1) <=>
                            place(k) < offset + Chunk /\ ~ place(k) < offset
                     /\ place(k) < offset => place(k) < offset + Chunk
    BY <1>1, <2>2
  <2> QED
    BY <2>3, <2>4
<1>5. IsFiniteSet(T) /\ Orders(Newest, T)
  BY <1>1, QueryOrders
<1>6. IsFiniteSet(upto) /\ IsFiniteSet(done)
  BY <1>5, FS_Subset DEF Lowest
<1>7. Cardinality(upto) >= offset + Chunk
  BY <1>1, <1>3, <1>5, LowestAreEnough
<1>8. Cardinality(done) <= offset
  BY <1>1, <1>5, LowestAreFew
<1>9. Cardinality(upto \ done) = Cardinality(upto) - Cardinality(upto \cap done)
  BY <1>6, FS_Difference
<1>10. upto \cap done = done
  BY <1>4
<1>11. Cardinality(upto) \in Nat /\ Cardinality(done) \in Nat
  BY <1>6, FS_CardinalityType
<1>12. Cardinality(Page) = Cardinality(upto) - Cardinality(done)
  BY <1>4, <1>9, <1>10
<1> QED
  BY <1>1, <1>7, <1>8, <1>11, <1>12

-----------------------------------------------------------------------------
(* The invariant. *)

\* Before anything is read, nothing has been given.
IdleInv ==
    /\ steady \subseteq table
    /\ reader = "idle" => given = {} /\ ~ again /\ cursor = {} /\ offset = 0

\* What an export has given is up to its cursor, and it is everything up to there.
ExportInv ==
    /\ reader \in {"export", "exported"} => ~ again
    /\ reader = "export" =>
        /\ cursor = {} => given = {}
        /\ \A c \in cursor, g \in given : g = c \/ Before(g, c)
        /\ \A m \in steady \cap Matching : (\E c \in cursor : ~ Before(c, m)) => m \in given
    /\ reader = "exported" => steady \cap Matching \subseteq given

\* What a walk has not given is still below the offset: uploads only push it down.
WalkInv ==
    ~ shrunk =>
        /\ reader = "walk" => \A m \in (steady \cap Matching) \ given :
               Cardinality({n \in table \cap Matching : Above(n, m)}) >= offset
        /\ reader = "walked" => steady \cap Matching \subseteq given

IInv == TypeOK /\ IdleInv /\ ExportInv /\ WalkInv

\* A message that comes in pushes nothing up.
LEMMA UploadStep ==
    ASSUME IInv, NEW x \in Messages, Upload(x) PROVE IInv'
<1> USE DEF Upload
<1>1. TypeOK' /\ IdleInv' /\ ExportInv'
  BY DEF IInv, TypeOK, IdleInv, ExportInv, Before
<1>2. WalkInv'
  <2> SUFFICES ASSUME ~ shrunk, reader = "walk", NEW m \in (steady \cap Matching) \ given
               PROVE  Cardinality({n \in table' \cap Matching : Above(n, m)}) >= offset
    BY DEF IInv, WalkInv, Above
  <2> DEFINE old == {n \in table \cap Matching : Above(n, m)}
             new == {n \in table' \cap Matching : Above(n, m)}
  <2>1. Cardinality(old) >= offset /\ offset \in Nat
    BY DEF IInv, WalkInv, TypeOK
  <2>2. IsFiniteSet(new) /\ old \in SUBSET new
    BY <1>1, FS_Subset DEF TypeOK
  <2>3. Cardinality(old) <= Cardinality(new) /\ Cardinality(old) \in Nat /\ Cardinality(new) \in Nat
    BY <2>2, FS_Subset, FS_CardinalityType
  <2> QED
    BY <2>1, <2>3
<1> QED
  BY <1>1, <1>2 DEF IInv

\* A deletion takes rows from an export only if it takes them from the table.
LEMMA ClearStep ==
    ASSUME IInv, NEW d, Clear(d) PROVE IInv'
  BY DEF IInv, TypeOK, IdleInv, ExportInv, WalkInv, Clear, Before

\* A reading begins with nothing given and everything in front of it.
LEMMA StartStep ==
    ASSUME IInv, NEW what \in {"export", "walk"}, Start(what) PROVE IInv'
<1> USE DEF Start
<1>1. TypeOK' /\ IdleInv' /\ ExportInv'
  BY DEF IInv, TypeOK, IdleInv, ExportInv
<1>2. WalkInv'
  <2>1. \A m \in Messages : Cardinality({n \in table \cap Matching : Above(n, m)}) >= 0
    <3> TAKE m \in Messages
    <3>1. IsFiniteSet({n \in table \cap Matching : Above(n, m)})
      BY FS_Subset DEF IInv, TypeOK
    <3> QED
      BY <3>1, FS_CardinalityType
  <2> QED
    BY <2>1 DEF IInv, TypeOK, IdleInv, WalkInv, Above
<1> QED
  BY <1>1, <1>2 DEF IInv

\* A chunk goes on where the last one ended, and the cursor passes what it gave.
LEMMA ExportStep ==
    ASSUME IInv, ExportChunk PROVE IInv'
<1> DEFINE T == After
           rows == First(T)
<1>1. /\ TypeOK /\ IdleInv /\ ExportInv /\ reader = "export"
      /\ given' = given \cup rows /\ again' = (again \/ \E m \in rows : \E n \in given : ~ Before(n, m))
      /\ UNCHANGED <<table, offset, steady, shrunk>>
      /\ \/ /\ Cardinality(rows) < Chunk /\ reader' = "exported" /\ cursor' = cursor
         \/ /\ ~ Cardinality(rows) < Chunk /\ reader' = reader
            /\ cursor' = {m \in rows : \A n \in rows : ~ Before(m, n)}
  BY DEF IInv, ExportChunk, Give
<1>2. /\ T \in SUBSET Messages /\ T \subseteq Matching
      /\ \A m \in Messages : m \in T <=> m \in table \cap Matching /\ \A c \in cursor : Before(c, m)
  BY <1>1 DEF After, TypeOK
<1>3. rows \subseteq T
  BY DEF First
<1> HIDE DEF T
<1>4. \A m \in Messages : m \in Nat /\ ReceivedAt[m] \in Nat
  OBVIOUS
<1>5. given \subseteq Messages /\ cursor \subseteq Messages /\ steady \subseteq Messages
  BY <1>1 DEF TypeOK
<1>6. \A g \in given, m \in T : Before(g, m)
  BY <1>1, <1>2, <1>4, <1>5 DEF ExportInv, Before
<1>7. ~ again' /\ again' \in BOOLEAN
  BY <1>1, <1>3, <1>6 DEF ExportInv
<1>8. \A m \in steady \cap Matching : m \in T \/ m \in given
  BY <1>1, <1>2, <1>5 DEF ExportInv, IdleInv
<1>9. CASE Cardinality(rows) < Chunk /\ reader' = "exported" /\ cursor' = cursor
  <2>1. T \subseteq rows
    BY <1>2, <1>9, ShortChunkIsAll
  <2>2. steady' \cap Matching \subseteq given'
    BY <1>1, <1>8, <2>1
  <2>3. TypeOK'
    <3>1. given' \subseteq Messages
      BY <1>1, <1>2, <1>3, <1>5
    <3> QED
      BY <1>1, <1>7, <1>9, <3>1 DEF TypeOK
  <2> QED
    BY <1>1, <1>7, <1>9, <2>2, <2>3 DEF IInv, IdleInv, ExportInv, WalkInv
<1>10. CASE /\ ~ Cardinality(rows) < Chunk /\ reader' = reader
            /\ cursor' = {m \in rows : \A n \in rows : ~ Before(m, n)}
  <2>1. PICK c \in rows : cursor' = {c} /\ \A m \in T : m \in rows <=> m = c \/ Before(m, c)
    BY <1>2, <1>10, FullChunkHasLast
  <2>2. Cardinality(cursor') <= 1
    <3>1. Cardinality({c}) = 1
      BY FS_Singleton
    <3> QED
      BY <2>1, <3>1
  <2>3. TypeOK'
    <3>1. given' \subseteq Messages /\ cursor' \subseteq Messages
      BY <1>1, <1>2, <1>3, <1>5, <2>1
    <3> QED
      BY <1>1, <1>7, <1>10, <2>2, <3>1 DEF TypeOK
  <2>4. c \in T /\ c \in Messages
    BY <1>2, <1>3
  <2>5. \A g \in given' : g = c \/ Before(g, c)
    BY <1>1, <1>3, <1>6, <2>1, <2>4
  <2>6. ASSUME NEW m \in steady \cap Matching, ~ Before(c, m) PROVE m \in given'
    <3>1. CASE m \in T
      <4>1. m = c \/ Before(m, c)
        BY <1>2, <1>4, <2>4, <2>6, <3>1 DEF Before
      <4> QED
        BY <1>1, <2>1, <3>1, <4>1
    <3> QED
      BY <1>1, <1>8, <3>1
  <2>7. ExportInv'
    <3>1. reader' = "export" /\ cursor' # {}
      BY <1>1, <1>10, <2>1
    <3>2. \A k \in cursor', g \in given' : g = k \/ Before(g, k)
      BY <2>1, <2>5
    <3>3. \A m \in steady' \cap Matching : (\E k \in cursor' : ~ Before(k, m)) => m \in given'
      BY <1>1, <2>1, <2>6
    <3> QED
      BY <1>7, <3>1, <3>2, <3>3 DEF ExportInv, Before
  <2> QED
    BY <1>1, <1>10, <2>3, <2>7 DEF IInv, IdleInv, WalkInv
<1> QED
  BY <1>1, <1>9, <1>10

\* What a walk has not given after a page is below that page.
LEMMA WalkStep ==
    ASSUME IInv, WalkPage PROVE IInv'
<1> DEFINE T == table \cap Matching
           rank(m) == Cardinality({n \in T : Above(n, m)})
<1>1. /\ TypeOK /\ IdleInv /\ WalkInv /\ reader = "walk" /\ given' = given \cup Page
      /\ UNCHANGED <<table, cursor, again, steady, shrunk>>
      /\ \/ Cardinality(Page) < Chunk /\ reader' = "walked" /\ offset' = offset
         \/ ~ Cardinality(Page) < Chunk /\ reader' = "walk" /\ offset' = offset + Chunk
  BY DEF IInv, WalkPage
<1>2. Page \subseteq Messages /\ offset \in Nat /\ Chunk \in Nat /\ Page \subseteq T
  BY <1>1 DEF TypeOK, Page
<1>3. TypeOK'
  BY <1>1, <1>2 DEF TypeOK
<1>4. IdleInv' /\ ExportInv'
  BY <1>1 DEF IInv, IdleInv, ExportInv
<1>5. ASSUME ~ shrunk, NEW m \in (steady \cap Matching) \ given' PROVE m \in T /\ rank(m) >= offset + Chunk
  <2>1. m \in T /\ m \notin Page /\ rank(m) >= offset
    BY <1>1, <1>5 DEF IdleInv, WalkInv
  <2>2. rank(m) \notin offset..(offset + Chunk - 1)
    BY <2>1 DEF Page
  <2>3. IsFiniteSet({n \in T : Above(n, m)})
    BY <1>1, FS_Subset DEF TypeOK
  <2>4. rank(m) \in Nat
    BY <2>3, FS_CardinalityType
  <2> HIDE DEF rank
  <2> QED
    BY <1>2, <2>1, <2>2, <2>4
<1>6. WalkInv'
  <2>1. CASE Cardinality(Page) < Chunk /\ reader' = "walked"
    <3> SUFFICES ASSUME ~ shrunk, NEW m \in (steady \cap Matching) \ given' PROVE FALSE
      BY <1>1, <2>1 DEF WalkInv
    <3>1. Cardinality(Page) >= Chunk
      BY <1>1, <1>5, PageIsFull
    <3>2. IsFiniteSet(Page)
      BY <1>2, FS_Subset
    <3> QED
      BY <1>2, <2>1, <3>1, <3>2, FS_CardinalityType
  <2>2. CASE reader' = "walk" /\ offset' = offset + Chunk
    BY <1>1, <1>5, <2>2 DEF WalkInv, Above
  <2> QED
    BY <1>1, <2>1, <2>2
<1> QED
  BY <1>3, <1>4, <1>6 DEF IInv

\* Every step preserves the invariant.
LEMMA InvariantStep == IInv /\ [Next]_vars => IInv'
<1> SUFFICES ASSUME IInv, [Next]_vars PROVE IInv'
  OBVIOUS
<1>1. CASE UNCHANGED vars
  BY <1>1 DEF vars, IInv, TypeOK, IdleInv, ExportInv, WalkInv, Before, Above
<1>2. CASE Next
  BY <1>2, UploadStep, ClearStep, StartStep, ExportStep, WalkStep DEF Next
<1> QED
  BY <1>1, <1>2

\* The invariant holds in every reachable state.
THEOREM Invariant == Spec => []IInv
<1>1. Init => IInv
  <2> SUFFICES ASSUME Init PROVE IInv
    OBVIOUS
  <2>1. cursor \subseteq Messages /\ Cardinality(cursor) <= 1
    BY FS_EmptySet DEF Init, None
  <2> QED
    BY <2>1 DEF Init, None, IInv, TypeOK, IdleInv, ExportInv, WalkInv
<1> QED
  BY <1>1, InvariantStep, PTL DEF Spec

\* Every variable of the readers keeps its type.
THEOREM TypeCorrect == Spec => []TypeOK
<1>1. IInv => TypeOK
  BY DEF IInv
<1> QED
  BY <1>1, Invariant, PTL

\* An export gives every matching row that was there throughout, in order and once.
THEOREM ExportIsAlwaysComplete == Spec => []ExportIsComplete
<1>1. IInv => ExportIsComplete
  BY DEF IInv, ExportInv, ExportIsComplete
<1> QED
  BY <1>1, Invariant, PTL

\* A walk misses nothing that was there throughout, unless rows are deleted.
THEOREM WalkNeverMisses == Spec => []WalkMissesNothing
<1>1. IInv => WalkMissesNothing
  BY DEF IInv, WalkInv, WalkMissesNothing
<1> QED
  BY <1>1, Invariant, PTL
=============================================================================
