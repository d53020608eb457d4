-------------------------- MODULE IndexMergeProofs --------------------------
(***************************************************************************)
(* Proofs about the queue of the semantic index and about merging one      *)
(* branch into another, for any number of sources, contents, indexers,     *)
(* namespaces, jobs, proposals, snapshots and evidence: the index forgets   *)
(* no record but the ones rebuilt while their job is open, a hit on an     *)
(* artifact shows its text of today, and a merge keeps rows and files      *)
(* together and loses neither branch's work.                               *)
(*                                                                         *)
(* Both keep their rows in sequences from which rows are taken out         *)
(* (Without, a recursive function): the first lemmas say what is left, by  *)
(* taking the least length for which they would fail.                      *)
(***************************************************************************)
EXTENDS IndexJobs, BranchMerge, WellFoundedInduction, NaturalsInduction, TLAPS

(***************************************************************************)
(* Rows without some of them.                                              *)
(***************************************************************************)

LEMMA SmallestIn ==
  ASSUME NEW S \in SUBSET Nat, S # {}
  PROVE  \E n \in S : \A m \in S : n <= m
<1>1. PICK n \in S : \A m \in S : ~ (<<m, n>> \in OpToRel(<, Nat))
  BY NatLessThanWellFounded, WFMin
<1>2. \A m \in S : ~ (m < n)
  BY <1>1 DEF OpToRel
<1> QED
  BY <1>2

\* What the recursion of Without asks of its first n values.
Keeps(f, rows, gone, n) ==
  \A i \in 0..n :
    f[i] = IF i = 0 THEN <<>>
           ELSE IF rows[i] \in gone THEN f[i - 1] ELSE Append(f[i - 1], rows[i])

\* There is a function that satisfies it: take the least length without one.
LEMMA KeepsExists ==
  ASSUME NEW rows, NEW gone, NEW n \in Nat
  PROVE  \E f : f = [i \in 0..n |-> f[i]] /\ Keeps(f, rows, gone, n)
<1> DEFINE Good(m) == \E f : f = [i \in 0..m |-> f[i]] /\ Keeps(f, rows, gone, m)
<1>1. SUFFICES ASSUME ~Good(n) PROVE FALSE
  OBVIOUS
<1>2. PICK m \in {k \in Nat : ~Good(k)} : \A k \in {k \in Nat : ~Good(k)} : m <= k
  <2>1. {k \in Nat : ~Good(k)} \in SUBSET Nat /\ {k \in Nat : ~Good(k)} # {}
    BY <1>1
  <2> HIDE DEF Good
  <2> QED
    BY <2>1, SmallestIn
<1>3. CASE m = 0
  <2> DEFINE f == [i \in 0..0 |-> <<>>]
  <2>1. f = [i \in 0..0 |-> f[i]] /\ Keeps(f, rows, gone, 0)
    BY DEF Keeps
  <2> QED
    BY <1>2, <1>3, <2>1
<1>4. CASE m # 0
  <2>1. m - 1 \in Nat /\ m \in Nat /\ ~(m <= m - 1)
    BY <1>2, <1>4
  <2>2. Good(m - 1)
    BY <1>2, <2>1
  <2>3. PICK g : g = [i \in 0..(m - 1) |-> g[i]] /\ Keeps(g, rows, gone, m - 1)
    BY <2>2
  <2> DEFINE last == IF rows[m] \in gone THEN g[m - 1] ELSE Append(g[m - 1], rows[m])
             f == [i \in 0..m |-> IF i = m THEN last ELSE g[i]]
  <2>4. f = [i \in 0..m |-> f[i]]
    OBVIOUS
  <2>5. f[m] = last /\ f[m - 1] = g[m - 1]
    BY <2>1
  <2>6. \A i \in 0..(m - 1) : f[i] = g[i]
    BY <2>1
  <2> HIDE DEF f
  <2>7. ASSUME NEW i \in 0..m
        PROVE  f[i] = IF i = 0 THEN <<>>
                      ELSE IF rows[i] \in gone THEN f[i - 1] ELSE Append(f[i - 1], rows[i])
    <3>1. CASE i = m
      BY <1>4, <2>5, <3>1
    <3>2. CASE i # m
      <4>1. i \in 0..(m - 1) /\ (i = 0 \/ i - 1 \in 0..(m - 1))
        BY <2>1, <3>2
      <4>2. g[i] = IF i = 0 THEN <<>>
                   ELSE IF rows[i] \in gone THEN g[i - 1] ELSE Append(g[i - 1], rows[i])
        BY <2>3, <4>1 DEF Keeps
      <4> QED
        BY <2>6, <4>1, <4>2
    <3> QED
      BY <3>1, <3>2
  <2>8. Keeps(f, rows, gone, m)
    BY <2>7 DEF Keeps
  <2> QED
    BY <1>2, <2>4, <2>8
<1> QED
  BY <1>3, <1>4

LEMMA WithoutByKeeps ==
  ASSUME NEW rows, NEW gone, Len(rows) \in Nat
  PROVE  \E f : Without(rows, gone) = f[Len(rows)] /\ Keeps(f, rows, gone, Len(rows))
<1> DEFINE step(f) == [i \in 0..Len(rows) |->
                         IF i = 0 THEN <<>>
                         ELSE IF rows[i] \in gone THEN f[i - 1] ELSE Append(f[i - 1], rows[i])]
           kept == CHOOSE f : f = step(f)
<1>1. \E f : f = step(f)
  <2>1. PICK f : f = [i \in 0..Len(rows) |-> f[i]] /\ Keeps(f, rows, gone, Len(rows))
    BY KeepsExists
  <2>2. [i \in 0..Len(rows) |-> f[i]] = step(f)
    BY <2>1 DEF Keeps
  <2> QED
    BY <2>1, <2>2
<1>2. kept = step(kept)
  BY <1>1
<1>3. Without(rows, gone) = kept[Len(rows)]
  BY DEF Without
<1> HIDE DEF kept
<1>4. Keeps(kept, rows, gone, Len(rows))
  BY <1>2 DEF Keeps
<1> QED
  BY <1>3, <1>4

\* The rows that are left are the rows that were not dropped.
LEMMA WithoutRange ==
  ASSUME NEW T, NEW rows \in Seq(T), NEW gone
  PROVE  /\ Without(rows, gone) \in Seq(T)
         /\ Range(Without(rows, gone)) = Range(rows) \ gone
<1>1. PICK f : Without(rows, gone) = f[Len(rows)] /\ Keeps(f, rows, gone, Len(rows))
  BY WithoutByKeeps
<1> DEFINE left(n) == {rows[i] : i \in 1..n} \ gone
           Good(n) == f[n] \in Seq(T) /\ Range(f[n]) = left(n)
           Bad == {n \in 0..Len(rows) : ~Good(n)}
<1>2. SUFFICES ASSUME Bad # {} PROVE FALSE
  <2>1. Len(rows) \in 0..Len(rows) /\ left(Len(rows)) = Range(rows) \ gone
    BY DEF Range
  <2>2. Bad = {} => Good(Len(rows))
    BY <2>1
  <2> HIDE DEF left, Bad
  <2> QED
    BY <1>1, <2>1, <2>2
<1>3. PICK n \in Bad : \A m \in Bad : n <= m
  <2>1. Bad \in SUBSET Nat
    OBVIOUS
  <2> QED
    BY <1>2, <2>1, SmallestIn
<1>4. n \in 0..Len(rows) /\ ~Good(n)
  BY <1>3
<1>5. n # 0
  <2>1. f[0] = <<>>
    BY <1>1 DEF Keeps
  <2>2. f[0] \in Seq(T) /\ Range(f[0]) = {} /\ left(0) = {}
    BY <2>1 DEF Range
  <2> QED
    BY <1>4, <2>2
<1>6. n - 1 \in 0..Len(rows) /\ n \in 1..Len(rows) /\ ~(n <= n - 1)
  BY <1>4, <1>5
<1>7. Good(n - 1)
  BY <1>3, <1>6
<1>8. f[n] = IF rows[n] \in gone THEN f[n - 1] ELSE Append(f[n - 1], rows[n])
  BY <1>1, <1>5, <1>6 DEF Keeps
<1>9. left(n) = left(n - 1) \cup ({rows[n]} \ gone)
  BY <1>6
<1>10. rows[n] \in T
  BY <1>6
<1>11. CASE rows[n] \in gone
  BY <1>4, <1>7, <1>8, <1>9, <1>11
<1>12. CASE rows[n] \notin gone
  <2>1. f[n] = Append(f[n - 1], rows[n])
    BY <1>8, <1>12
  <2>2. f[n] \in Seq(T) /\ Range(f[n]) = Range(f[n - 1]) \cup {rows[n]}
    <3>1. f[n - 1] \in Seq(T)
      BY <1>7
    <3> HIDE DEF Good, left, Bad
    <3> QED
      BY <1>10, <2>1, <3>1 DEF Range
  <2> QED
    BY <1>4, <1>7, <1>9, <1>12, <2>2
<1> QED
  BY <1>11, <1>12

-----------------------------------------------------------------------------
(***************************************************************************)
(* The semantic index.  First its artifacts.                               *)
(***************************************************************************)

\* The hash of an artifact's chunk is that of the text it was made from, in
\* every namespace: also in those that are not active now.
ArtifactChunksAreTrue ==
  \A n \in Namespaces, s \in Artifacts : \A k \in chunks[n][s] : k.hash = k.text

ArtifactInv ==
  /\ active \in Namespaces
  /\ chunks = [n \in Namespaces |-> [s \in Sources |-> chunks[n][s]]]
  /\ ArtifactChunksAreTrue

LEMMA ArtifactsStart == IndexInit => ArtifactInv
  BY DEF IndexInit, ArtifactInv, ArtifactChunksAreTrue, Sources

\* Steps that leave the chunks alone.
LEMMA ArtifactsStay ==
  ASSUME ArtifactInv, active' \in Namespaces, chunks' = chunks PROVE ArtifactInv'
  BY DEF ArtifactInv, ArtifactChunksAreTrue

LEMMA DeletingKeepsArtifacts ==
  ASSUME ArtifactInv, NEW s \in Sources, DeleteRecord(s) PROVE ArtifactInv'
<1>1. active \in Namespaces /\ active' = active
  BY DEF ArtifactInv, DeleteRecord
<1>2. chunks' = [chunks EXCEPT ![active][s] = {}]
  BY DEF DeleteRecord
<1>3. chunks' = [n \in Namespaces |-> [t \in Sources |-> chunks'[n][t]]]
  BY <1>1, <1>2 DEF ArtifactInv
<1>4. \A n \in Namespaces, t \in Sources :
        chunks'[n][t] \in {chunks[n][t], {}}
  <2>1. ASSUME NEW n \in Namespaces
        PROVE  chunks'[n] = IF n = active THEN [chunks[n] EXCEPT ![s] = {}] ELSE chunks[n]
    BY <1>2 DEF ArtifactInv
  <2>2. ASSUME NEW n \in Namespaces, NEW t \in Sources
        PROVE  [chunks[n] EXCEPT ![s] = {}][t] \in {chunks[n][t], {}}
    BY DEF ArtifactInv
  <2> QED
    BY <2>1, <2>2
<1>5. ASSUME NEW n \in Namespaces, NEW t \in Artifacts, NEW k \in chunks'[n][t]
      PROVE  k.hash = k.text
  <2>1. k \in chunks[n][t]
    BY <1>4, <1>5 DEF Sources
  <2> QED
    BY <2>1 DEF ArtifactInv, ArtifactChunksAreTrue
<1> QED
  BY <1>1, <1>3, <1>5 DEF ArtifactInv, ArtifactChunksAreTrue

LEMMA BatchKeepsArtifacts ==
  ASSUME ArtifactInv, NEW i \in Indexers, NEW scope, TakeBatch(i, scope)
  PROVE  ArtifactInv'
<1> DEFINE empty == [s \in Sources |-> {}]
<1>1. /\ active \in Namespaces /\ active' = active
      /\ chunks' \in {chunks, [chunks EXCEPT ![indexer[i].space] = empty]}
  BY DEF ArtifactInv, TakeBatch
<1>2. CASE chunks' = chunks
  BY <1>1, <1>2, ArtifactsStay
<1>3. CASE chunks' = [chunks EXCEPT ![indexer[i].space] = empty]
  <2>1. chunks' = [n \in Namespaces |-> [t \in Sources |-> chunks'[n][t]]]
    BY <1>3 DEF ArtifactInv
  <2>2. \A n \in Namespaces, t \in Sources :
          chunks'[n][t] \in {chunks[n][t], {}}
    BY <1>3 DEF ArtifactInv
  <2>3. ASSUME NEW n \in Namespaces, NEW t \in Artifacts, NEW k \in chunks'[n][t]
        PROVE  k.hash = k.text
    <3>1. k \in chunks[n][t]
      BY <2>2, <2>3 DEF Sources
    <3> QED
      BY <3>1 DEF ArtifactInv, ArtifactChunksAreTrue
  <2> QED
    BY <1>1, <2>1, <2>3 DEF ArtifactInv, ArtifactChunksAreTrue
<1> QED
  BY <1>1, <1>2, <1>3

LEMMA DroppingKeepsArtifacts ==
  ASSUME ArtifactInv, NEW i \in Indexers, DropChunks(i) PROVE ArtifactInv'
<1> DEFINE source == Head(indexer[i].batch).source
           space == indexer[i].space
<1>1. /\ active \in Namespaces /\ active' = active
      /\ chunks' = [chunks EXCEPT ![space][source] = {}]
  BY DEF ArtifactInv, DropChunks
<1> HIDE DEF source, space
<1>2. chunks' = [n \in Namespaces |-> [t \in Sources |-> chunks'[n][t]]]
  BY <1>1 DEF ArtifactInv
<1>3. \A n \in Namespaces, t \in Sources :
        chunks'[n][t] = chunks[n][t] \/ chunks'[n][t] = {}
  BY <1>1 DEF ArtifactInv
<1>4. ASSUME NEW n \in Namespaces, NEW t \in Artifacts, NEW k \in chunks'[n][t]
      PROVE  k.hash = k.text
  <2>1. k \in chunks[n][t]
    BY <1>3, <1>4 DEF Sources
  <2> QED
    BY <2>1 DEF ArtifactInv, ArtifactChunksAreTrue
<1> QED
  BY <1>1, <1>2, <1>4 DEF ArtifactInv, ArtifactChunksAreTrue

LEMMA WritingKeepsArtifacts ==
  ASSUME ArtifactInv, NEW i \in Indexers, WriteChunks(i) PROVE ArtifactInv'
<1> DEFINE j == Head(indexer[i].batch)
           text == indexer[i].read
           space == indexer[i].space
           chunk == [hash |-> TagOf(j, text), text |-> text]
<1>1. /\ active \in Namespaces /\ active' = active
      /\ chunks' = [chunks EXCEPT ![space][j.source] = @ \cup {chunk}]
  BY DEF ArtifactInv, WriteChunks
<1>2. j.source \in Artifacts => chunk.hash = chunk.text
  BY DEF TagOf
<1> HIDE DEF j, text, space, chunk
<1>3. chunks' = [n \in Namespaces |-> [t \in Sources |-> chunks'[n][t]]]
  BY <1>1 DEF ArtifactInv
<1>4. \A n \in Namespaces, t \in Sources :
        \/ chunks'[n][t] = chunks[n][t]
        \/ t = j.source /\ chunks'[n][t] = chunks[n][t] \cup {chunk}
  BY <1>1 DEF ArtifactInv
<1>5. ASSUME NEW n \in Namespaces, NEW s \in Artifacts, NEW k \in chunks'[n][s]
      PROVE  k.hash = k.text
  <2>1. k \in chunks[n][s] \/ (s = j.source /\ k = chunk)
    BY <1>4, <1>5 DEF Sources
  <2>2. CASE k \in chunks[n][s]
    BY <2>2 DEF ArtifactInv, ArtifactChunksAreTrue
  <2> QED
    BY <1>2, <2>1, <2>2
<1> QED
  BY <1>1, <1>3, <1>5 DEF ArtifactInv, ArtifactChunksAreTrue

LEMMA ArtifactSteps == ArtifactInv /\ [IndexNext]_indexVars => ArtifactInv'
<1> SUFFICES ASSUME ArtifactInv, [IndexNext]_indexVars PROVE ArtifactInv'
  OBVIOUS
<1>1. CASE UNCHANGED indexVars
  BY <1>1, ArtifactsStay DEF indexVars, ArtifactInv
<1>2. CASE \E s \in Sources, c \in Contents : Save(s, c)
  BY <1>2, ArtifactsStay DEF Save, ArtifactInv
<1>3. CASE \E s \in Sources : DeleteRecord(s)
  BY <1>3, DeletingKeepsArtifacts
<1>4. CASE \E n \in Namespaces : Configure(n)
  BY <1>4, ArtifactsStay DEF Configure
<1>5. CASE LeaseExpires
  BY <1>5, ArtifactsStay DEF LeaseExpires, ArtifactInv
<1>6. ASSUME NEW i \in Indexers,
             \/ \E rebuild \in BOOLEAN : LookForLease(i, rebuild)
             \/ TakeLease(i) \/ ReadSource(i) \/ MarkIndexed(i) \/ JobFails(i)
             \/ Release(i) \/ Confirm(i) \/ Crash(i)
      PROVE  ArtifactInv'
  <2>1. UNCHANGED <<chunks, active>>
    BY <1>6 DEF LookForLease, TakeLease, ReadSource, MarkIndexed, JobFails,
                Release, Confirm, Crash
  <2> QED
    BY <2>1, ArtifactsStay DEF ArtifactInv
<1>7. CASE \E i \in Indexers :
             \/ \E scope \in Scopes \cup {Sources} : TakeBatch(i, scope)
             \/ DropChunks(i) \/ WriteChunks(i)
  BY <1>7, BatchKeepsArtifacts, DroppingKeepsArtifacts, WritingKeepsArtifacts
<1> QED
  BY <1>1, <1>2, <1>3, <1>4, <1>5, <1>6, <1>7 DEF IndexNext

\* A semantic hit on an artifact (retrieval.py:348) shows the text the artifact
\* has now, whatever jobs, indexers, crashes and changes of the embedding
\* model came before it.
THEOREM ArtifactHitsShowToday == IndexSpec => []ArtifactHitsAreCurrent
<1>1. ArtifactInv => ArtifactHitsAreCurrent
  BY DEF ArtifactInv, ArtifactChunksAreTrue, ArtifactHitsAreCurrent, Hits
<1> QED
  BY <1>1, ArtifactsStart, ArtifactSteps, PTL DEF IndexSpec

-----------------------------------------------------------------------------
LEMMA TailRange ==
  ASSUME NEW T, NEW q \in Seq(T), q # <<>>
  PROVE  /\ Head(q) \in T /\ Head(q) \in Range(q)
         /\ Tail(q) \in Seq(T) /\ Len(Tail(q)) <= Len(q)
         /\ Range(q) = Range(Tail(q)) \cup {Head(q)}
<1>1. /\ Len(q) \in Nat /\ Len(q) # 0 /\ DOMAIN q = 1..Len(q) /\ Head(q) = q[1]
      /\ \A i \in 1..Len(q) : q[i] \in T
  OBVIOUS
<1>2. /\ Tail(q) \in Seq(T) /\ Len(Tail(q)) = Len(q) - 1
      /\ \A i \in 1..(Len(q) - 1) : Tail(q)[i] = q[i + 1]
  BY <1>1
<1>3. DOMAIN Tail(q) = 1..(Len(q) - 1)
  BY <1>1, <1>2
<1>4. Range(Tail(q)) \subseteq Range(q)
  BY <1>1, <1>2, <1>3 DEF Range
<1>5. ASSUME NEW i \in 1..Len(q), i # 1 PROVE q[i] \in Range(Tail(q))
  <2>1. i - 1 \in 1..(Len(q) - 1) /\ (i - 1) + 1 = i
    BY <1>1, <1>5
  <2> QED
    BY <1>2, <1>3, <2>1 DEF Range
<1>6. Head(q) \in Range(q)
  BY <1>1 DEF Range
<1>7. Range(q) \subseteq Range(Tail(q)) \cup {Head(q)}
  BY <1>1, <1>5 DEF Range
<1> QED
  BY <1>1, <1>2, <1>4, <1>6, <1>7

LEMMA RangeOfRows ==
  ASSUME NEW T, NEW q \in Seq(T)
  PROVE  Range(q) \subseteq T
  BY DEF Range

LEMMA FirstRows ==
  ASSUME NEW T, NEW q \in Seq(T), NEW n \in 0..Len(q)
  PROVE  /\ SubSeq(q, 1, n) \in Seq(T) /\ Len(SubSeq(q, 1, n)) = n
         /\ Range(SubSeq(q, 1, n)) \subseteq Range(q)
         /\ n = Len(q) => Range(SubSeq(q, 1, n)) = Range(q)
<1>1. /\ SubSeq(q, 1, n) \in Seq(T) /\ Len(SubSeq(q, 1, n)) = n
      /\ \A i \in 1..n : SubSeq(q, 1, n)[i] = q[i]
  OBVIOUS
<1>2. DOMAIN SubSeq(q, 1, n) = 1..n /\ DOMAIN q = 1..Len(q) /\ 1..n \subseteq 1..Len(q)
  BY <1>1
<1> QED
  BY <1>1, <1>2 DEF Range

LEMMA AppendedRange ==
  ASSUME NEW T, NEW q \in Seq(T), NEW r \in T
  PROVE  Append(q, r) \in Seq(T) /\ Range(Append(q, r)) = Range(q) \cup {r}
<1>1. /\ Append(q, r) \in Seq(T) /\ Len(Append(q, r)) = Len(q) + 1 /\ Len(q) \in Nat
      /\ \A i \in 1..Len(q) : Append(q, r)[i] = q[i]
      /\ Append(q, r)[Len(q) + 1] = r
  OBVIOUS
<1>2. /\ DOMAIN Append(q, r) = 1..(Len(q) + 1) /\ DOMAIN q = 1..Len(q)
      /\ 1..(Len(q) + 1) = 1..Len(q) \cup {Len(q) + 1}
  BY <1>1
<1> QED
  BY <1>1, <1>2 DEF Range

-----------------------------------------------------------------------------
\* No two rows have one id.
DistinctIds(rows) == \A a, b \in DOMAIN rows : rows[a].id = rows[b].id => a = b

LEMMA AppendedDistinct ==
  ASSUME NEW T, NEW q \in Seq(T), NEW r \in T, DistinctIds(q),
         \A x \in Range(q) : x.id # r.id
  PROVE  DistinctIds(Append(q, r))
<1>1. /\ Len(q) \in Nat /\ DOMAIN q = 1..Len(q)
      /\ DOMAIN Append(q, r) = 1..(Len(q) + 1)
      /\ \A i \in 1..Len(q) : Append(q, r)[i] = q[i] /\ q[i] \in Range(q)
      /\ Append(q, r)[Len(q) + 1] = r
  BY DEF Range
<1>2. \A i \in 1..(Len(q) + 1) : i \in 1..Len(q) \/ i = Len(q) + 1
  BY <1>1
<1> QED
  BY <1>1, <1>2 DEF DistinctIds

LEMMA TailDistinct ==
  ASSUME NEW T, NEW q \in Seq(T), q # <<>>, DistinctIds(q)
  PROVE  /\ DistinctIds(Tail(q))
         /\ \A x \in Range(Tail(q)) : x.id # Head(q).id
<1>1. /\ Len(q) \in Nat /\ Len(q) # 0 /\ DOMAIN q = 1..Len(q) /\ Head(q) = q[1]
      /\ DOMAIN Tail(q) = 1..(Len(q) - 1)
      /\ \A i \in 1..(Len(q) - 1) : Tail(q)[i] = q[i + 1]
  OBVIOUS
<1>2. \A i \in 1..(Len(q) - 1) : i + 1 \in 1..Len(q) /\ i + 1 # 1 /\ i \in Nat
  BY <1>1
<1>3. 1 \in 1..Len(q)
  BY <1>1
<1>4. \A i, k \in Nat : i + 1 = k + 1 => i = k
  OBVIOUS
<1>5. DistinctIds(Tail(q))
  BY <1>1, <1>2, <1>4 DEF DistinctIds
<1> QED
  BY <1>1, <1>2, <1>3, <1>5 DEF DistinctIds, Range

LEMMA FirstDistinct ==
  ASSUME NEW T, NEW q \in Seq(T), NEW n \in 0..Len(q), DistinctIds(q)
  PROVE  DistinctIds(SubSeq(q, 1, n))
<1>1. /\ DOMAIN SubSeq(q, 1, n) = 1..n /\ DOMAIN q = 1..Len(q) /\ 1..n \subseteq 1..Len(q)
      /\ \A i \in 1..n : SubSeq(q, 1, n)[i] = q[i]
  OBVIOUS
<1> QED
  BY <1>1 DEF DistinctIds

LEMMA WithoutDistinct ==
  ASSUME NEW T, NEW rows \in Seq(T), NEW gone, DistinctIds(rows)
  PROVE  DistinctIds(Without(rows, gone))
<1>1. PICK f : Without(rows, gone) = f[Len(rows)] /\ Keeps(f, rows, gone, Len(rows))
  BY WithoutByKeeps
<1> DEFINE Good(n) == /\ f[n] \in Seq(T) /\ DistinctIds(f[n])
                      /\ \A x \in Range(f[n]) : \E i \in 1..n : x = rows[i]
           Bad == {n \in 0..Len(rows) : ~Good(n)}
<1>2. SUFFICES ASSUME Bad # {} PROVE FALSE
  <2>1. Len(rows) \in 0..Len(rows)
    OBVIOUS
  <2>2. Bad = {} => Good(Len(rows))
    BY <2>1
  <2> QED
    BY <1>1, <2>2
<1>3. PICK n \in Bad : \A m \in Bad : n <= m
  <2>1. Bad \in SUBSET Nat
    OBVIOUS
  <2> HIDE DEF Bad
  <2> QED
    BY <1>2, <2>1, SmallestIn
<1>4. n \in 0..Len(rows) /\ ~Good(n)
  BY <1>3
<1>5. n # 0
  <2>1. f[0] = <<>>
    BY <1>1 DEF Keeps
  <2>2. f[0] \in Seq(T) /\ Range(f[0]) = {} /\ DistinctIds(f[0])
    BY <2>1 DEF Range, DistinctIds
  <2> QED
    BY <1>4, <2>2
<1>6. n - 1 \in 0..Len(rows) /\ n \in 1..Len(rows) /\ ~(n <= n - 1)
  BY <1>4, <1>5
<1>7. Good(n - 1)
  BY <1>3, <1>6
<1>8. f[n] = IF rows[n] \in gone THEN f[n - 1] ELSE Append(f[n - 1], rows[n])
  BY <1>1, <1>5, <1>6 DEF Keeps
<1>9. \A i \in 1..(n - 1) : i \in 1..n /\ i \in 1..Len(rows) /\ i # n
  BY <1>6
<1>10. rows[n] \in T /\ n \in 1..n /\ DOMAIN rows = 1..Len(rows)
  BY <1>6
<1>11. CASE rows[n] \in gone
  <2>1. f[n] = f[n - 1]
    BY <1>8, <1>11
  <2> QED
    BY <1>4, <1>7, <1>9, <2>1
<1>12. CASE rows[n] \notin gone
  <2>1. f[n] = Append(f[n - 1], rows[n])
    BY <1>8, <1>12
  <2>2. \A x \in Range(f[n - 1]) : x.id # rows[n].id
    BY <1>6, <1>7, <1>9, <1>10 DEF DistinctIds
  <2>3. f[n - 1] \in Seq(T) /\ DistinctIds(f[n - 1])
    BY <1>7
  <2>4. /\ f[n] \in Seq(T) /\ DistinctIds(f[n])
        /\ Range(f[n]) = Range(f[n - 1]) \cup {rows[n]}
    BY <1>10, <2>1, <2>2, <2>3, AppendedDistinct, AppendedRange
  <2>5. \A x \in Range(f[n]) : \E i \in 1..n : x = rows[i]
    BY <1>7, <1>9, <1>10, <2>4
  <2> QED
    BY <1>4, <2>4, <2>5
<1> QED
  BY <1>11, <1>12

-----------------------------------------------------------------------------
JobRows == [id : Nat, source : Sources, hash : Contents,
            status : {"pending", "failed", "indexed"}]
Chunks == SUBSET [hash : Contents, text : Contents]
AtWork == {"next", "read", "dropped", "written", "release"}
Midway == {"read", "dropped", "written"}
IndexerStates == [at : {"idle", "free", "leased"} \cup AtWork, rebuild : BOOLEAN,
                  space : Namespaces \cup {None}, batch : Seq(JobRows),
                  failed : BOOLEAN, read : Contents \cup {None}]

IndexShape ==
  /\ content \in [Sources -> Contents \cup {None}]
  /\ jobs \in Seq(JobRows) /\ lastJob \in Nat
  /\ chunks \in [Namespaces -> [Sources -> Chunks]]
  /\ active \in Namespaces /\ confirmed \in Namespaces \cup {None}
  /\ excused \subseteq Sources
  /\ indexer \in [Indexers -> IndexerStates]
  /\ \A i \in Indexers :
       /\ indexer[i].at # "idle" => indexer[i].space \in Namespaces
       /\ indexer[i].batch # <<>> => indexer[i].at \in {"next"} \cup Midway
       /\ indexer[i].at \in Midway =>
            indexer[i].batch # <<>> /\ indexer[i].read \in Contents
       /\ Len(indexer[i].batch) <= JobLimit

Present(id) == \E q \in Range(jobs) : q.id = id

\* Ids tell jobs apart; a batch may hold jobs that have been deleted since,
\* which takes all the jobs of a source.
JobIds ==
  /\ DistinctIds(jobs)
  /\ \A r \in Range(jobs) : r.id <= lastJob
  /\ \A r, q \in Range(jobs) : r.id = q.id => r = q
  /\ \A i \in Indexers :
       /\ DistinctIds(indexer[i].batch)
       /\ \A r, p \in Range(indexer[i].batch) :
            r.source = p.source => (Present(r.id) <=> Present(p.id))
       /\ \A r \in Range(indexer[i].batch) :
            /\ r.id <= lastJob
            /\ \A q \in Range(jobs) : q.id = r.id => q.source = r.source /\ q.hash = r.hash

Alone == \A i, k \in Indexers : Working(i) /\ Working(k) => i = k

Known(s) == \E r \in Range(jobs) : IsJob(r, s, content[s])
Waits(s) == \E r \in Range(jobs) : Serves(r, s) /\ Waiting(r)
WaitsBeside(s, id) ==
  \E r \in Range(jobs) : Serves(r, s) /\ Waiting(r) /\ r.id # id
Shows(n, s) == \E k \in chunks[n][s] : k.hash = content[s]
\* A rebuild has yet to come to the job of the content.
Ahead(n, s) ==
  \E i \in Indexers :
    /\ indexer[i].rebuild /\ indexer[i].space = n
    /\ \E r \in Range(indexer[i].batch) : IsJob(r, s, content[s]) /\ Present(r.id)
\* An indexer has deleted the chunks and not yet added the new one.
InHand(n, s) ==
  \E i \in Indexers : /\ indexer[i].at = "dropped" /\ indexer[i].space = n
                       /\ Head(indexer[i].batch).source = s
Coming(n, s) == Ahead(n, s) \/ InHand(n, s)
Covered(n, s) == content[s] = None \/ Shows(n, s) \/ Waits(s) \/ Coming(n, s)

\* The jobs of a source that a batch still holds.
HeldBy(s, i) ==
  \A r \in Range(indexer[i].batch) : r.source = s =>
    /\ confirmed \in {None, indexer[i].space}
    /\ content[s] = None \/ Present(r.id) \/ Waits(s)
    /\ ~indexer[i].rebuild => \A q \in Range(jobs) : q.id = r.id => Waiting(q)

\* What is known of a source that met none of the named circumstances.
Followed(s, i) ==
  LET me == indexer[i]
      j == Head(me.batch)
  IN  /\ me.rebuild /\ me.at \in AtWork => Covered(me.space, s)
      /\ HeldBy(s, i)
      /\ me.at \in {"read", "dropped"} /\ j.source = s =>
           \/ content[s] = None
           \/ me.read = content[s] /\ Present(j.id)
           \/ WaitsBeside(s, j.id)
      /\ me.at = "dropped" /\ j.source = s => TagOf(j, me.read) = me.read
      /\ me.at = "written" /\ j.source = s =>
           content[s] = None \/ Shows(me.space, s) \/ WaitsBeside(s, j.id)

Tracked(s) ==
  /\ content[s] = None \/ Known(s)
  /\ confirmed # None => Covered(confirmed, s)
  /\ \A i \in Indexers : Followed(s, i)

QueueInv ==
  /\ IndexShape /\ JobIds
  /\ excused # Sources => Alone
  /\ \A s \in Sources \ excused : Tracked(s)

-----------------------------------------------------------------------------
LEMMA TouchRows ==
  ASSUME jobs \in Seq(JobRows), NEW j \in JobRows,
         NEW status \in {"pending", "failed", "indexed"}
  PROVE  /\ Touch(j, status) \in Seq(JobRows)
         /\ [j EXCEPT !.status = status] \in JobRows
         /\ Range(Touch(j, status)) =
              IF \E r \in Range(jobs) : r.id = j.id
              THEN {r \in Range(jobs) : r.id # j.id} \cup {[j EXCEPT !.status = status]}
              ELSE Range(jobs)
         /\ DistinctIds(jobs) => DistinctIds(Touch(j, status))
<1> DEFINE same == {r \in Range(jobs) : r.id = j.id}
           row == [j EXCEPT !.status = status]
           rest == Without(jobs, same)
<1>1. row \in JobRows
  BY DEF JobRows
<1>2. rest \in Seq(JobRows) /\ Range(rest) = Range(jobs) \ same
  BY WithoutRange
<1>3. (\E k \in DOMAIN jobs : jobs[k].id = j.id) <=> \E r \in Range(jobs) : r.id = j.id
  BY DEF Range
<1>4. Touch(j, status) = IF \E r \in Range(jobs) : r.id = j.id THEN Append(rest, row) ELSE jobs
  BY <1>3 DEF Touch
<1> HIDE DEF row, rest
<1>5. Append(rest, row) \in Seq(JobRows) /\ Range(Append(rest, row)) = Range(rest) \cup {row}
  BY <1>1, <1>2, AppendedRange
<1>6. Range(rest) = {r \in Range(jobs) : r.id # j.id}
  BY <1>2
<1>7. row.id = j.id
  BY DEF row, JobRows
<1>8. DistinctIds(jobs) => DistinctIds(Append(rest, row))
  <2> SUFFICES ASSUME DistinctIds(jobs) PROVE DistinctIds(Append(rest, row))
    OBVIOUS
  <2>1. DistinctIds(rest)
    BY WithoutDistinct DEF rest
  <2> QED
    BY <1>1, <1>2, <1>6, <1>7, <2>1, AppendedDistinct
<1> QED
  BY <1>1, <1>4, <1>5, <1>6, <1>8 DEF row

LEMMA QueueInit == IndexInit => QueueInv
<1> SUFFICES ASSUME IndexInit PROVE QueueInv
  OBVIOUS
<1>1. /\ jobs = <<>> /\ (\A i \in Indexers : indexer[i] = IdleIndexer)
      /\ content = [s \in Sources |-> None] /\ confirmed = None /\ excused = {}
  BY DEF IndexInit
<1>2. Range(jobs) = {} /\ Range(IdleIndexer.batch) = {} /\ IdleIndexer.at = "idle"
      /\ IdleIndexer.batch = <<>>
  BY <1>1 DEF Range, IdleIndexer
<1>3. IdleIndexer \in IndexerStates
  BY DEF IdleIndexer, IndexerStates
<1>4. IndexShape
  BY <1>1, <1>2, <1>3, IndexAssumption DEF IndexInit, IndexShape, Chunks, Midway
<1>5. JobIds /\ Alone
  <2>1. DistinctIds(jobs) /\ DistinctIds(IdleIndexer.batch)
    BY <1>1, <1>2 DEF DistinctIds
  <2> QED
    BY <1>1, <1>2, <2>1 DEF JobIds, Alone, Working
<1>6. \A s \in Sources : Tracked(s)
  BY <1>1, <1>2 DEF Tracked, Followed, HeldBy, AtWork
<1> QED
  BY <1>4, <1>5, <1>6 DEF QueueInv

-----------------------------------------------------------------------------
\* One indexer moves.
Moves(i, me) ==
  /\ me \in IndexerStates
  /\ indexer' = [indexer EXCEPT ![i] = me]
  /\ me.at # "idle" => me.space \in Namespaces
  /\ me.batch # <<>> => me.at \in {"next"} \cup Midway
  /\ me.at \in Midway => me.batch # <<>> /\ me.read \in Contents
  /\ Len(me.batch) <= JobLimit

LEMMA MovesShape ==
  ASSUME QueueInv, NEW i \in Indexers, NEW me, Moves(i, me),
         content' \in [Sources -> Contents \cup {None}],
         jobs' \in Seq(JobRows), lastJob' \in Nat,
         chunks' \in [Namespaces -> [Sources -> Chunks]],
         active' \in Namespaces, confirmed' \in Namespaces \cup {None},
         excused' \subseteq Sources
  PROVE  /\ IndexShape'
         /\ indexer'[i] = me /\ \A k \in Indexers \ {i} : indexer'[k] = indexer[k]
<1>1. /\ indexer' \in [Indexers -> IndexerStates]
      /\ indexer'[i] = me /\ \A k \in Indexers \ {i} : indexer'[k] = indexer[k]
  BY DEF QueueInv, IndexShape, Moves
<1> QED
  BY <1>1 DEF QueueInv, IndexShape, Moves

LEMMA MovesIds ==
  ASSUME QueueInv, NEW i \in Indexers, NEW me, Moves(i, me),
         UNCHANGED <<jobs, lastJob>>, DistinctIds(me.batch),
         \/ Range(me.batch) \subseteq Range(indexer[i].batch)
         \/ Range(me.batch) \subseteq Range(jobs)
  PROVE  JobIds'
<1>1. indexer'[i] = me /\ \A k \in Indexers \ {i} : indexer'[k] = indexer[k]
  BY DEF QueueInv, IndexShape, Moves
<1>2. \A r, q \in Range(jobs) : r.id <= lastJob /\ (r.id = q.id => r = q)
  BY DEF QueueInv, JobIds
<1>3. \A r \in Range(me.batch) :
        /\ r.id <= lastJob
        /\ \A q \in Range(jobs) : q.id = r.id => q.source = r.source /\ q.hash = r.hash
  BY <1>2 DEF QueueInv, JobIds
<1>4. \A r, p \in Range(me.batch) : r.source = p.source => (Present(r.id) <=> Present(p.id))
  <2>1. CASE Range(me.batch) \subseteq Range(indexer[i].batch)
    BY <2>1 DEF QueueInv, JobIds
  <2>2. CASE Range(me.batch) \subseteq Range(jobs)
    BY <2>2 DEF Present
  <2> QED
    BY <2>1, <2>2
<1>5. \A id : Present(id) <=> Present(id)'
  BY DEF Present
<1>6. DistinctIds(jobs) /\ DistinctIds(jobs)'
  BY DEF QueueInv, JobIds, DistinctIds
<1>7. ASSUME NEW k \in Indexers
      PROVE  /\ DistinctIds(indexer'[k].batch)
             /\ \A r, p \in Range(indexer'[k].batch) :
                  r.source = p.source => (Present(r.id)' <=> Present(p.id)')
             /\ \A r \in Range(indexer'[k].batch) :
                  /\ r.id <= lastJob
                  /\ \A q \in Range(jobs) : q.id = r.id => q.source = r.source /\ q.hash = r.hash
  <2>1. CASE k = i
    BY <1>1, <1>3, <1>4, <1>5, <2>1
  <2>2. CASE k # i
    BY <1>1, <1>5, <2>2 DEF QueueInv, JobIds
  <2> QED
    BY <2>1, <2>2
<1> QED
  BY <1>2, <1>6, <1>7 DEF JobIds, DistinctIds

LEMMA MovesAlone ==
  ASSUME QueueInv, NEW i \in Indexers, NEW me, Moves(i, me), Working(i), Alone
  PROVE  Alone'
<1>1. indexer'[i] = me /\ \A k \in Indexers \ {i} : indexer'[k] = indexer[k]
  BY DEF QueueInv, IndexShape, Moves
<1> QED
  BY <1>1 DEF Alone, Working

\* While one indexer works on what is followed, the others have nothing.
LEMMA OthersRest ==
  ASSUME QueueInv, NEW i \in Indexers, Working(i), excused # Sources
  PROVE  \A k \in Indexers \ {i} : /\ indexer[k].at \in {"idle", "free"}
                                   /\ Range(indexer[k].batch) = {}
<1> SUFFICES ASSUME NEW k \in Indexers \ {i}
             PROVE  indexer[k].at \in {"idle", "free"} /\ Range(indexer[k].batch) = {}
  OBVIOUS
<1>1. ~Working(k)
  BY DEF QueueInv, Alone
<1>2. indexer[k] \in IndexerStates
  BY DEF QueueInv, IndexShape
<1>3. indexer[k].at \in {"idle", "free"}
  BY <1>1, <1>2 DEF IndexerStates, AtWork, Working
<1>4. indexer[k].batch = <<>>
  BY <1>3 DEF QueueInv, IndexShape, Midway
<1> QED
  BY <1>3, <1>4 DEF Range

\* What is followed stays so while one indexer moves and nothing else does.
LEMMA MovesTracked ==
  ASSUME QueueInv, NEW i \in Indexers, NEW me, Moves(i, me),
         UNCHANGED <<content, jobs, chunks, confirmed>>,
         NEW s \in Sources, Tracked(s), Followed(s, i)',
         \A n \in Namespaces : Coming(n, s) => Covered(n, s)'
  PROVE  Tracked(s)'
<1>1. indexer'[i] = me /\ \A k \in Indexers \ {i} : indexer'[k] = indexer[k]
  BY DEF QueueInv, IndexShape, Moves
<1>2. \A n \in Namespaces : Covered(n, s) => Covered(n, s)'
  BY DEF Covered, Shows, Waits, Serves
<1>3. ASSUME NEW k \in Indexers \ {i} PROVE Followed(s, k)'
  <2>1. Followed(s, k) /\ indexer'[k] = indexer[k]
    BY <1>1 DEF Tracked
  <2>2. indexer[k].at \in AtWork => indexer[k].space \in Namespaces
    BY DEF QueueInv, IndexShape, AtWork
  <2>3. HeldBy(s, k)'
    BY <2>1 DEF Followed, HeldBy, Present, Waits, Serves
  <2> QED
    BY <1>2, <2>1, <2>2, <2>3 DEF Followed, Shows, WaitsBeside, Serves, Present
<1>4. confirmed # None => Covered(confirmed, s)'
  BY <1>2 DEF Tracked, QueueInv, IndexShape
<1> QED
  BY <1>3, <1>4 DEF Tracked, Known

-----------------------------------------------------------------------------
LEMMA RowsAreTyped ==
  ASSUME QueueInv
  PROVE  /\ \A r \in Range(jobs) : r \in JobRows /\ r.id \in Nat /\ r.id <= lastJob
         /\ \A i \in Indexers : \A r \in Range(indexer[i].batch) :
              r \in JobRows /\ r.id \in Nat /\ r.id <= lastJob
<1>1. jobs \in Seq(JobRows) /\ \A i \in Indexers : indexer[i].batch \in Seq(JobRows)
  BY DEF QueueInv, IndexShape, IndexerStates
<1>2. /\ Range(jobs) \subseteq JobRows
      /\ \A i \in Indexers : Range(indexer[i].batch) \subseteq JobRows
  BY <1>1, RangeOfRows
<1>3. \A r \in JobRows : r.id \in Nat
  BY DEF JobRows
<1> QED
  BY <1>2, <1>3 DEF QueueInv, JobIds

LEMMA SaveKeeps ==
  ASSUME QueueInv, NEW s \in Sources, NEW c \in Contents, Save(s, c)
  PROVE  QueueInv'
<1>1. /\ content' = [content EXCEPT ![s] = c]
      /\ UNCHANGED <<chunks, active, confirmed, lease, indexer, passes>>
      /\ excused \subseteq excused' /\ excused' \subseteq excused \cup {s}
  BY DEF Save
<1>2. content'[s] = c /\ \A t \in Sources \ {s} : content'[t] = content[t]
  BY <1>1 DEF QueueInv, IndexShape
<1>3. content' \in [Sources -> Contents \cup {None}] /\ excused' \subseteq Sources
  BY <1>1 DEF QueueInv, IndexShape
<1>4. Alone <=> Alone'
  BY <1>1 DEF Alone, Working
<1>5. excused' # Sources => Alone'
  BY <1>1, <1>4 DEF QueueInv, IndexShape
<1> DEFINE new == [id |-> lastJob + 1, source |-> s, hash |-> c, status |-> "pending"]
<1>6. CASE Enqueued(s, c)
  <2>1. UNCHANGED <<jobs, lastJob>> /\ s \in excused'
    BY <1>6 DEF Save, Enqueue
  <2>2. IndexShape' /\ JobIds'
    BY <1>1, <1>3, <2>1 DEF QueueInv, IndexShape, JobIds, DistinctIds, Present
  <2>3. ASSUME NEW t \in Sources \ excused' PROVE Tracked(t)'
    <3>1. t # s /\ Tracked(t) /\ content'[t] = content[t]
      BY <1>1, <1>2, <2>1 DEF QueueInv
    <3> QED
      BY <1>1, <2>1, <3>1
      DEF Tracked, Followed, HeldBy, Known, Covered, Coming, Shows, Waits, WaitsBeside,
          Ahead, InHand, IsJob, Serves, Present
  <2> QED
    BY <1>5, <2>2, <2>3 DEF QueueInv
<1>7. CASE ~Enqueued(s, c)
  <2>1. jobs' = Append(jobs, new) /\ lastJob' = lastJob + 1
    BY <1>7 DEF Save, Enqueue, EnqueueEach
  <2>2. new \in JobRows /\ lastJob \in Nat
    BY DEF JobRows, QueueInv, IndexShape
  <2>3. jobs' \in Seq(JobRows) /\ Range(jobs') = Range(jobs) \cup {new}
    BY <2>1, <2>2, AppendedRange DEF QueueInv, IndexShape
  <2>4. IndexShape'
    BY <1>1, <1>3, <2>1, <2>2, <2>3 DEF QueueInv, IndexShape
  <2>5. /\ new.id = lastJob + 1 /\ new.source = s /\ new.hash = c /\ Waiting(new)
    BY DEF Waiting
  <2> HIDE DEF new
  <2>6. \A r \in Range(jobs) : r.id \in Nat /\ r.id <= lastJob /\ r \in JobRows
    BY RowsAreTyped
  <2>7. \A i \in Indexers : \A r \in Range(indexer[i].batch) :
          r.id \in Nat /\ r.id <= lastJob
    BY RowsAreTyped
  <2>8. JobIds'
    <3>1. \A r \in Range(jobs') : r.id <= lastJob'
      BY <2>1, <2>2, <2>3, <2>5, <2>6
    <3>2. \A r, q \in Range(jobs') : r.id = q.id => r = q
      BY <2>2, <2>3, <2>5, <2>6 DEF QueueInv, JobIds
    <3>0. DistinctIds(jobs')
      BY <2>1, <2>2, <2>5, <2>6, AppendedDistinct DEF QueueInv, IndexShape, JobIds
    <3>3. ASSUME NEW i \in Indexers, NEW r \in Range(indexer'[i].batch)
          PROVE  /\ r.id <= lastJob'
                 /\ \A q \in Range(jobs') : q.id = r.id => q.source = r.source /\ q.hash = r.hash
      <4>1. r \in Range(indexer[i].batch)
        BY <1>1, <3>3
      <4>2. r.id \in Nat /\ r.id <= lastJob
        BY <2>7, <4>1
      <4> QED
        BY <2>1, <2>2, <2>3, <2>5, <4>1, <4>2 DEF QueueInv, JobIds
    <3>4. ASSUME NEW i \in Indexers, NEW r \in Range(indexer'[i].batch)
          PROVE  Present(r.id)' <=> Present(r.id)
      <4>1. r.id \in Nat /\ r.id <= lastJob
        BY <1>1, <2>7, <3>4
      <4> QED
        BY <2>2, <2>3, <2>5, <4>1 DEF Present
    <3>5. \A i \in Indexers :
            /\ DistinctIds(indexer'[i].batch)
            /\ \A r, p \in Range(indexer'[i].batch) :
                 r.source = p.source => (Present(r.id)' <=> Present(p.id)')
      BY <1>1, <3>4 DEF QueueInv, JobIds
    <3> QED
      BY <3>0, <3>1, <3>2, <3>3, <3>5 DEF JobIds, DistinctIds
  <2>9. ASSUME NEW t \in Sources \ excused' PROVE Tracked(t)'
    <3>1. Tracked(t)
      BY <1>1 DEF QueueInv
    <3>2. CASE t # s
      <4>1. content'[t] = content[t]
        BY <1>2, <3>2
      <4>2. \A id : Present(id) => Present(id)'
        BY <2>3 DEF Present
      <4>3. /\ Waits(t) => Waits(t)'
            /\ \A id : WaitsBeside(t, id) => WaitsBeside(t, id)'
            /\ Known(t) => Known(t)'
        BY <2>3, <4>1 DEF Waits, WaitsBeside, Known, Serves, IsJob
      <4>4. \A n : Covered(n, t) => Covered(n, t)'
        BY <1>1, <4>1, <4>2, <4>3 DEF Covered, Shows, Coming, Ahead, InHand, IsJob
      <4>5. ASSUME NEW i \in Indexers PROVE HeldBy(t, i)'
        <5> SUFFICES ASSUME NEW r \in Range(indexer[i].batch), r.source = t
                     PROVE  /\ confirmed \in {None, indexer[i].space}
                            /\ content[t] = None \/ Present(r.id)' \/ Waits(t)'
                            /\ ~indexer[i].rebuild =>
                                 \A q \in Range(jobs') : q.id = r.id => Waiting(q)
          BY <1>1, <4>1 DEF HeldBy, Waiting
        <5>1. /\ confirmed \in {None, indexer[i].space}
              /\ content[t] = None \/ Present(r.id) \/ Waits(t)
              /\ ~indexer[i].rebuild => \A q \in Range(jobs) : q.id = r.id => Waiting(q)
          BY <3>1 DEF Tracked, Followed, HeldBy
        <5> QED
          BY <2>3, <2>5, <4>2, <4>3, <5>1
      <4> QED
        BY <1>1, <3>1, <4>1, <4>2, <4>3, <4>4, <4>5 DEF Tracked, Followed, Shows
    <3>3. CASE t = s
      <4>1. Known(t)' /\ Waits(t)'
        BY <1>2, <2>3, <2>5, <3>3 DEF Known, Waits, IsJob, Waiting, Serves
      <4>2. ASSUME NEW i \in Indexers, indexer[i].at \in Midway
            PROVE  WaitsBeside(t, Head(indexer[i].batch).id)'
        <5>1. indexer[i].batch \in Seq(JobRows) /\ indexer[i].batch # <<>>
          BY <4>2 DEF QueueInv, IndexShape, IndexerStates
        <5>2. Head(indexer[i].batch) \in Range(indexer[i].batch)
          BY <5>1, TailRange
        <5>3. Head(indexer[i].batch).id # new.id
          BY <2>2, <2>5, <2>7, <5>2
        <5> QED
          BY <1>1, <1>2, <2>3, <2>5, <3>3, <5>3 DEF WaitsBeside, Serves, Waiting
      <4>3. ASSUME NEW i \in Indexers PROVE HeldBy(t, i)'
        <5> SUFFICES ASSUME NEW r \in Range(indexer[i].batch), r.source = t
                     PROVE  /\ confirmed \in {None, indexer[i].space}
                            /\ ~indexer[i].rebuild =>
                                 \A q \in Range(jobs') : q.id = r.id => Waiting(q)
          BY <1>1, <4>1 DEF HeldBy, Waiting
        <5>1. /\ confirmed \in {None, indexer[i].space}
              /\ ~indexer[i].rebuild => \A q \in Range(jobs) : q.id = r.id => Waiting(q)
          BY <3>1 DEF Tracked, Followed, HeldBy
        <5> QED
          BY <2>3, <2>5, <5>1
      <4> QED
        BY <1>1, <3>1, <4>1, <4>2, <4>3 DEF Tracked, Followed, Covered, Midway
    <3> QED
      BY <3>2, <3>3
  <2> QED
    BY <1>5, <2>4, <2>8, <2>9 DEF QueueInv
<1> QED
  BY <1>6, <1>7

LEMMA DeletionKeeps ==
  ASSUME QueueInv, NEW s \in Sources, DeleteRecord(s)
  PROVE  QueueInv'
<1> DEFINE same == {j \in Range(jobs) : j.source = s}
<1>1. /\ content' = [content EXCEPT ![s] = None]
      /\ jobs' = Without(jobs, same)
      /\ chunks' = [chunks EXCEPT ![active][s] = {}]
      /\ UNCHANGED <<lastJob, active, confirmed, lease, indexer, passes, excused>>
  BY DEF DeleteRecord
<1>2. /\ content' \in [Sources -> Contents \cup {None}]
      /\ content'[s] = None /\ \A t \in Sources \ {s} : content'[t] = content[t]
  BY <1>1 DEF QueueInv, IndexShape
<1>3. jobs' \in Seq(JobRows) /\ Range(jobs') = Range(jobs) \ same
  BY <1>1, WithoutRange DEF QueueInv, IndexShape
<1>4. /\ chunks' \in [Namespaces -> [Sources -> Chunks]]
      /\ \A n \in Namespaces, t \in Sources \ {s} : chunks'[n][t] = chunks[n][t]
  BY <1>1 DEF QueueInv, IndexShape, Chunks
<1>5. IndexShape'
  BY <1>1, <1>2, <1>3, <1>4 DEF QueueInv, IndexShape
<1>6. JobIds'
  <2>1. DistinctIds(jobs')
    BY <1>1, WithoutDistinct DEF QueueInv, IndexShape, JobIds
  <2>2. ASSUME NEW i \in Indexers, NEW r \in Range(indexer[i].batch)
        PROVE  Present(r.id)' <=> Present(r.id) /\ r.source # s
    BY <1>3 DEF Present, QueueInv, JobIds
  <2>3. \A i \in Indexers :
          /\ DistinctIds(indexer'[i].batch)
          /\ \A r, p \in Range(indexer'[i].batch) :
               r.source = p.source => (Present(r.id)' <=> Present(p.id)')
    BY <1>1, <2>2 DEF QueueInv, JobIds
  <2> QED
    BY <1>1, <1>3, <2>1, <2>3 DEF QueueInv, JobIds, DistinctIds
<1>7. excused' # Sources => Alone'
  BY <1>1 DEF QueueInv, Alone, Working
<1>8. ASSUME NEW t \in Sources \ excused' PROVE Tracked(t)'
  <2>1. Tracked(t)
    BY <1>1 DEF QueueInv
  <2>2. CASE t = s
    <3>1. \A i \in Indexers : HeldBy(t, i)'
      BY <1>1, <1>2, <1>3, <2>1, <2>2 DEF Tracked, Followed, HeldBy, Waiting
    <3> QED
      BY <1>1, <1>2, <2>1, <2>2, <3>1 DEF Tracked, Followed, Covered
  <2>3. CASE t # s
    <3>1. \A r \in Range(jobs) : r.source = t => r \in Range(jobs')
      BY <1>3, <2>3
    <3>2. content'[t] = content[t]
      BY <1>2, <2>3
    <3>3. Known(t) => Known(t)'
      BY <3>1, <3>2 DEF Known, IsJob
    <3>4. Waits(t) => Waits(t)'
      BY <3>1, <3>2 DEF Waits, Serves
    <3>5. \A id : WaitsBeside(t, id) => WaitsBeside(t, id)'
      BY <3>1, <3>2 DEF WaitsBeside, Serves
    <3>6. \A n \in Namespaces : Shows(n, t) => Shows(n, t)'
      BY <1>4, <2>3, <3>2 DEF Shows
    <3>7. \A i \in Indexers : \A r \in Range(indexer[i].batch) :
            r.source = t /\ Present(r.id) => Present(r.id)'
      BY <3>1 DEF Present, QueueInv, JobIds
    <3>8. \A n : Coming(n, t) => Coming(n, t)'
      BY <1>1, <3>2, <3>7 DEF Coming, Ahead, InHand, IsJob
    <3>9. \A n \in Namespaces : Covered(n, t) => Covered(n, t)'
      BY <3>2, <3>4, <3>6, <3>8 DEF Covered
    <3>10. ASSUME NEW i \in Indexers PROVE Followed(t, i)'
      <4>1. Followed(t, i) /\ (indexer[i].at # "idle" => indexer[i].space \in Namespaces)
        BY <2>1 DEF Tracked, QueueInv, IndexShape
      <4>2. indexer[i].at \in Midway => Head(indexer[i].batch) \in Range(indexer[i].batch)
        <5>1. indexer[i].batch \in Seq(JobRows)
          BY DEF QueueInv, IndexShape, IndexerStates
        <5> QED
          BY <5>1, TailRange DEF QueueInv, IndexShape
      <4>3. HeldBy(t, i)'
        <5> SUFFICES ASSUME NEW r \in Range(indexer[i].batch), r.source = t
                     PROVE  /\ confirmed \in {None, indexer[i].space}
                            /\ content[t] = None \/ Present(r.id)' \/ Waits(t)'
                            /\ ~indexer[i].rebuild =>
                                 \A q \in Range(jobs') : q.id = r.id => Waiting(q)
          BY <1>1, <3>2 DEF HeldBy, Waiting
        <5> QED
          BY <1>3, <3>4, <3>7, <4>1 DEF Followed, HeldBy
      <4> QED
        BY <1>1, <3>2, <3>5, <3>6, <3>7, <3>9, <4>1, <4>2, <4>3 DEF Followed, AtWork, Midway
    <3> QED
      BY <1>1, <2>1, <3>2, <3>3, <3>9, <3>10 DEF Tracked, QueueInv, IndexShape
  <2> QED
    BY <2>2, <2>3
<1> QED
  BY <1>5, <1>6, <1>7, <1>8 DEF QueueInv

\* Steps that change neither the queue nor an indexer.
LEMMA AsideKeeps ==
  ASSUME QueueInv, active' \in Namespaces,
         UNCHANGED <<content, jobs, lastJob, chunks, confirmed, indexer, excused>>
  PROVE  QueueInv'
<1>1. IndexShape' /\ JobIds' /\ (excused' # Sources => Alone')
  BY DEF QueueInv, IndexShape, JobIds, DistinctIds, Present, Alone, Working
<1>2. ASSUME NEW t \in Sources \ excused' PROVE Tracked(t)'
  <2>1. Tracked(t)
    BY DEF QueueInv
  <2> QED
    BY <2>1 DEF Tracked, Followed, HeldBy, Known, Covered, Coming, Shows, Waits, WaitsBeside,
                Ahead, InHand, Serves, Present
<1> QED
  BY <1>1, <1>2 DEF QueueInv

\* Steps of one indexer that change nothing else of what is followed.
LEMMA IndexerKeeps ==
  ASSUME QueueInv, NEW i \in Indexers, NEW me, Moves(i, me),
         UNCHANGED <<content, jobs, lastJob, chunks, active, confirmed>>,
         excused \subseteq excused', excused' \subseteq Sources,
         excused' # Sources => Alone',
         Range(me.batch) \subseteq Range(indexer[i].batch), DistinctIds(me.batch),
         \A s \in Sources \ excused' :
           Tracked(s) => Followed(s, i)' /\ \A n \in Namespaces : Coming(n, s) => Covered(n, s)'
  PROVE  QueueInv'
<1>1. IndexShape'
  BY MovesShape DEF QueueInv, IndexShape
<1>2. JobIds'
  BY MovesIds
<1>3. ASSUME NEW s \in Sources \ excused' PROVE Tracked(s)'
  <2>1. s \in Sources /\ Tracked(s)
    BY DEF QueueInv
  <2> QED
    BY <2>1, MovesTracked
<1> QED
  BY <1>1, <1>2, <1>3 DEF QueueInv

\* An indexer that holds nothing, or holds on to what it has.
LEMMA EmptyMoves ==
  ASSUME QueueInv, NEW i \in Indexers, NEW me, Moves(i, me),
         UNCHANGED <<content, jobs, chunks>>, indexer[i].at # "dropped",
         Range(indexer[i].batch) = {} \/ ~indexer[i].rebuild \/ (me = [indexer[i] EXCEPT !.at = me.at])
  PROVE  \A s \in Sources, n \in Namespaces : Coming(n, s) => Covered(n, s)'
<1> SUFFICES ASSUME NEW s \in Sources, NEW n \in Namespaces, Coming(n, s) PROVE Coming(n, s)'
  BY DEF Covered
<1>1. indexer'[i] = me /\ \A k \in Indexers \ {i} : indexer'[k] = indexer[k]
  BY DEF QueueInv, IndexShape, Moves
<1>2. CASE InHand(n, s)
  BY <1>1, <1>2 DEF InHand, Coming
<1>3. CASE Ahead(n, s)
  <2>1. PICK k \in Indexers : /\ indexer[k].rebuild /\ indexer[k].space = n
                              /\ \E r \in Range(indexer[k].batch) :
                                   IsJob(r, s, content[s]) /\ Present(r.id)
    BY <1>3 DEF Ahead
  <2>2. indexer'[k].rebuild /\ indexer'[k].space = n /\ indexer'[k].batch = indexer[k].batch
    <3>1. CASE k # i
      BY <1>1, <2>1, <3>1
    <3>2. CASE k = i
      <4>1. me = [indexer[i] EXCEPT !.at = me.at] /\ indexer[i] \in IndexerStates
        BY <2>1, <3>2 DEF QueueInv, IndexShape
      <4> QED
        BY <1>1, <2>1, <3>2, <4>1 DEF IndexerStates
    <3> QED
      BY <3>1, <3>2
  <2> QED
    BY <2>1, <2>2 DEF Ahead, Present, Coming
<1> QED
  BY <1>2, <1>3 DEF Coming

LEMMA LeaseKeeps ==
  ASSUME QueueInv, NEW i \in Indexers,
         (\E rebuild \in BOOLEAN : LookForLease(i, rebuild)) \/ TakeLease(i) \/ Release(i)
  PROVE  QueueInv'
<1>1. /\ indexer[i] \in IndexerStates
      /\ indexer[i].at # "idle" => indexer[i].space \in Namespaces
      /\ indexer[i].batch # <<>> => indexer[i].at \in {"next"} \cup Midway
      /\ excused \subseteq Sources /\ active \in Namespaces
  BY DEF QueueInv, IndexShape
<1>a. DistinctIds(indexer[i].batch) /\ DistinctIds(<<>>)
  BY DEF QueueInv, JobIds, DistinctIds
<1>2. ASSUME NEW rebuild \in BOOLEAN, LookForLease(i, rebuild) PROVE QueueInv'
  <2>0. PICK me : me = [IdleIndexer EXCEPT !.at = "free", !.rebuild = rebuild, !.space = active]
    OBVIOUS
  <2>1. /\ indexer' = [indexer EXCEPT ![i] = me] /\ indexer[i].at = "idle"
        /\ UNCHANGED <<content, jobs, lastJob, chunks, active, confirmed, excused>>
    BY <1>2, <2>0 DEF LookForLease
  <2>2. /\ me \in IndexerStates /\ me.at = "free" /\ me.batch = <<>>
        /\ me.space = active /\ Range(me.batch) = {}
    <3>1. me = [at |-> "free", rebuild |-> rebuild, space |-> active, batch |-> <<>>,
                failed |-> FALSE, read |-> None]
      BY <2>0 DEF IdleIndexer
    <3>2. <<>> \in Seq(JobRows) /\ Range(<<>>) = {}
      BY DEF Range
    <3> QED
      BY <1>1, <3>1, <3>2 DEF IndexerStates
  <2>3. Moves(i, me)
    BY <1>1, <2>1, <2>2, IndexAssumption DEF Moves, Midway
  <2>4. indexer'[i] = me /\ \A k \in Indexers \ {i} : indexer'[k] = indexer[k]
    BY <2>1 DEF QueueInv, IndexShape
  <2>5. excused' # Sources => Alone'
    BY <2>1, <2>2, <2>4 DEF QueueInv, Alone, Working
  <2>6. Range(indexer[i].batch) = {}
    BY <1>1, <2>1 DEF Range, Midway
  <2>7. \A s \in Sources : Followed(s, i)'
    BY <2>2, <2>4 DEF Followed, HeldBy, AtWork
  <2>8. \A s \in Sources, n \in Namespaces : Coming(n, s) => Covered(n, s)'
    BY <2>1, <2>3, <2>6, EmptyMoves
  <2> QED
    BY <1>1, <1>a, <2>1, <2>2, <2>3, <2>5, <2>6, <2>7, <2>8, IndexerKeeps
<1>3. CASE TakeLease(i)
  <2>0. PICK me : me = [indexer[i] EXCEPT !.at = "leased"]
    OBVIOUS
  <2>1. /\ indexer' = [indexer EXCEPT ![i] = me] /\ indexer[i].at = "free"
        /\ UNCHANGED <<content, jobs, lastJob, chunks, active, confirmed>>
        /\ excused' = IF \E k \in Indexers \ {i} : Working(k) THEN Sources ELSE excused
    BY <1>3, <2>0 DEF TakeLease
  <2>2. /\ me \in IndexerStates /\ me.at = "leased" /\ me.batch = indexer[i].batch
        /\ me.space = indexer[i].space
    BY <1>1, <2>0 DEF IndexerStates, AtWork
  <2>3. indexer[i].batch = <<>> /\ Range(indexer[i].batch) = {}
    BY <1>1, <2>1 DEF Range, Midway
  <2>4. Moves(i, me)
    BY <1>1, <2>1, <2>2, <2>3, IndexAssumption DEF Moves, Midway
  <2>5. indexer'[i] = me /\ \A k \in Indexers \ {i} : indexer'[k] = indexer[k]
    BY <2>1 DEF QueueInv, IndexShape
  <2>6. excused' # Sources => Alone'
    <3> SUFFICES ASSUME excused' # Sources PROVE Alone'
      OBVIOUS
    <3>1. \A k \in Indexers \ {i} : ~Working(k)
      BY <2>1
    <3> QED
      BY <2>5, <3>1 DEF Alone, Working
  <2>7. \A s \in Sources : Followed(s, i)'
    BY <2>2, <2>3, <2>5 DEF Followed, HeldBy, AtWork
  <2>8. \A s \in Sources, n \in Namespaces : Coming(n, s) => Covered(n, s)'
    BY <2>1, <2>3, <2>4, EmptyMoves
  <2>9. excused \subseteq excused' /\ excused' \subseteq Sources
    BY <1>1, <2>1
  <2> QED
    BY <1>a, <2>1, <2>2, <2>4, <2>6, <2>7, <2>8, <2>9, IndexerKeeps
<1>4. CASE Release(i)
  <2>0. PICK me : me = [indexer[i] EXCEPT !.at = "release"]
    OBVIOUS
  <2>1. /\ indexer' = [indexer EXCEPT ![i] = me]
        /\ indexer[i].at = "next" /\ indexer[i].batch = <<>>
        /\ UNCHANGED <<content, jobs, lastJob, chunks, active, confirmed, excused>>
    BY <1>4, <2>0 DEF Release
  <2>2. /\ me \in IndexerStates /\ me.at = "release" /\ me.batch = indexer[i].batch
        /\ me.space = indexer[i].space /\ me.rebuild = indexer[i].rebuild
    BY <1>1, <2>0 DEF IndexerStates, AtWork
  <2>3. Range(indexer[i].batch) = {}
    BY <2>1 DEF Range
  <2>4. Moves(i, me)
    BY <1>1, <2>1, <2>2, IndexAssumption DEF Moves, Midway
  <2>5. indexer'[i] = me /\ \A k \in Indexers \ {i} : indexer'[k] = indexer[k]
    BY <2>1 DEF QueueInv, IndexShape
  <2>6. excused' # Sources => Alone'
    BY <2>1, <2>4, MovesAlone DEF QueueInv, Working
  <2>7. \A s \in Sources, n \in Namespaces : Coming(n, s) => Covered(n, s)'
    BY <2>1, <2>3, <2>4, EmptyMoves
  <2>8. ASSUME NEW s \in Sources, Tracked(s) PROVE Followed(s, i)'
    <3>1. me.rebuild => Covered(me.space, s)
      BY <2>1, <2>2, <2>8 DEF Tracked, Followed, AtWork
    <3>2. me.rebuild => Covered(me.space, s)'
      BY <1>1, <2>1, <2>2, <2>7, <3>1 DEF Covered, Shows, Waits, Serves
    <3>3. Range(me.batch) = {}
      BY <2>2, <2>3
    <3> QED
      BY <2>1, <2>2, <2>5, <3>2, <3>3 DEF Followed, HeldBy
  <2> QED
    BY <1>1, <1>a, <2>1, <2>2, <2>4, <2>6, <2>7, <2>8, IndexerKeeps
<1> QED
  BY <1>2, <1>3, <1>4

LEMMA ReadKeeps ==
  ASSUME QueueInv, NEW i \in Indexers, ReadSource(i)
  PROVE  QueueInv'
<1> DEFINE j == Head(indexer[i].batch)
           found == content[j.source] # None
<1>0. PICK me : me = IF found THEN [indexer[i] EXCEPT !.at = "read", !.read = content[j.source]]
                              ELSE [indexer[i] EXCEPT !.batch = Tail(@)]
  OBVIOUS
<1>1. /\ indexer[i] \in IndexerStates /\ indexer[i].space \in Namespaces
      /\ indexer[i].at = "next" /\ indexer[i].batch # <<>>
      /\ Len(indexer[i].batch) <= JobLimit
      /\ indexer' = [indexer EXCEPT ![i] = me]
      /\ UNCHANGED <<content, jobs, lastJob, chunks, active, confirmed, excused>>
  <2>1. indexer' = [indexer EXCEPT ![i] = me]
    <3>1. CASE found
      BY <1>0, <3>1 DEF ReadSource
    <3>2. CASE ~found
      BY <1>0, <3>2 DEF ReadSource
    <3> QED
      BY <3>1, <3>2
  <2>2. /\ indexer[i].at = "next" /\ indexer[i].batch # <<>>
        /\ UNCHANGED <<content, jobs, lastJob, chunks, active, confirmed, excused>>
    BY DEF ReadSource
  <2> QED
    BY <2>1, <2>2 DEF QueueInv, IndexShape
<1>2. /\ indexer[i].batch \in Seq(JobRows)
      /\ j \in JobRows /\ Range(indexer[i].batch) = Range(Tail(indexer[i].batch)) \cup {j}
      /\ Tail(indexer[i].batch) \in Seq(JobRows)
      /\ Len(Tail(indexer[i].batch)) <= Len(indexer[i].batch)
      /\ DistinctIds(indexer[i].batch) /\ DistinctIds(Tail(indexer[i].batch))
  <2>2. DistinctIds(indexer[i].batch)
    BY DEF QueueInv, JobIds
  <2>1. indexer[i].batch \in Seq(JobRows)
    BY <1>1 DEF IndexerStates
  <2> QED
    BY <1>1, <2>1, <2>2, TailRange, TailDistinct
<1>3. j.source \in Sources /\ content[j.source] \in Contents \cup {None}
  BY <1>2 DEF JobRows, QueueInv, IndexShape
<1>4. excused' # Sources => Alone'
  BY <1>1, MovesAlone DEF QueueInv, Working, Alone, IndexShape, IndexerStates
<1>5. CASE found
  <2>1. /\ me \in IndexerStates /\ me.at = "read" /\ me.batch = indexer[i].batch
        /\ me.space = indexer[i].space /\ me.rebuild = indexer[i].rebuild
        /\ me.read = content[j.source] /\ me.read \in Contents
    BY <1>0, <1>1, <1>3, <1>5 DEF IndexerStates, AtWork
  <2>2. Moves(i, me)
    BY <1>1, <2>1 DEF Moves, Midway
  <2>3. indexer'[i] = me /\ \A k \in Indexers \ {i} : indexer'[k] = indexer[k]
    BY <1>1 DEF QueueInv, IndexShape
  <2>4. \A s \in Sources : \A n : Coming(n, s) => Coming(n, s)'
    BY <1>1, <2>1, <2>3 DEF Coming, Ahead, InHand, Present
  <2>5. ASSUME NEW s \in Sources, Tracked(s)
        PROVE  Followed(s, i)' /\ \A n \in Namespaces : Coming(n, s) => Covered(n, s)'
    <3>1. \A n \in Namespaces : Covered(n, s) => Covered(n, s)'
      BY <1>1, <2>4 DEF Covered, Shows, Waits, Serves
    <3>2. Followed(s, i) /\ HeldBy(s, i)
      BY <2>5 DEF Tracked, Followed
    <3>3. me.rebuild => Covered(me.space, s)'
      BY <1>1, <2>1, <3>1, <3>2 DEF Followed, AtWork
    <3>4. HeldBy(s, i)'
      BY <1>1, <2>1, <2>3, <3>2 DEF HeldBy, Present, Waits, Serves
    <3>5. j.source = s => \/ content[s] = None
                          \/ me.read = content[s] /\ Present(j.id)
                          \/ WaitsBeside(s, j.id)
      <4>1. Waits(s) /\ ~Present(j.id) => WaitsBeside(s, j.id)
        BY DEF Waits, WaitsBeside, Present
      <4> QED
        BY <1>2, <2>1, <3>2, <4>1 DEF HeldBy
    <3>6. Followed(s, i)'
      BY <1>1, <2>1, <2>3, <3>3, <3>4, <3>5 DEF Followed, Present, WaitsBeside, Serves
    <3> QED
      BY <2>4, <3>6 DEF Covered
  <2> QED
    BY <1>1, <1>2, <1>4, <2>1, <2>2, <2>5, IndexerKeeps DEF QueueInv, IndexShape
<1>6. CASE ~found
  <2>1. /\ me \in IndexerStates /\ me.at = "next" /\ me.batch = Tail(indexer[i].batch)
        /\ me.space = indexer[i].space /\ me.rebuild = indexer[i].rebuild
    BY <1>0, <1>1, <1>2, <1>6 DEF IndexerStates
  <2> HIDE DEF found
  <2>2. Moves(i, me)
    <3>1. Len(me.batch) \in Nat /\ Len(indexer[i].batch) \in Nat
      BY <1>2, <2>1
    <3> QED
      BY <1>1, <1>2, <2>1, <3>1, IndexAssumption DEF Moves, Midway
  <2>3. indexer'[i] = me /\ \A k \in Indexers \ {i} : indexer'[k] = indexer[k]
    BY <1>1 DEF QueueInv, IndexShape
  <2>4. ASSUME NEW s \in Sources, s # j.source, NEW n, Coming(n, s) PROVE Coming(n, s)'
    <3>1. CASE InHand(n, s)
      BY <1>1, <2>3, <3>1 DEF InHand, Coming
    <3>2. CASE Ahead(n, s)
      <4>1. PICK k \in Indexers : /\ indexer[k].rebuild /\ indexer[k].space = n
                                  /\ \E r \in Range(indexer[k].batch) :
                                       IsJob(r, s, content[s]) /\ Present(r.id)
        BY <3>2 DEF Ahead
      <4>2. PICK r \in Range(indexer[k].batch) : IsJob(r, s, content[s]) /\ Present(r.id)
        BY <4>1
      <4>3. r \in Range(indexer'[k].batch)
        BY <1>2, <2>1, <2>3, <2>4, <4>2 DEF IsJob
      <4> QED
        BY <1>1, <2>1, <2>3, <4>1, <4>2, <4>3 DEF Ahead, Present, Coming
    <3> QED
      BY <2>4, <3>1, <3>2 DEF Coming
  <2>5. ASSUME NEW s \in Sources, Tracked(s)
        PROVE  Followed(s, i)' /\ \A n \in Namespaces : Coming(n, s) => Covered(n, s)'
    <3>1. \A n \in Namespaces : Coming(n, s) => Covered(n, s)'
      <4>1. s = j.source => content'[s] = None
        BY <1>1, <1>6 DEF found
      <4> QED
        BY <2>4, <4>1 DEF Covered
    <3>2. \A n \in Namespaces : Covered(n, s) => Covered(n, s)'
      BY <1>1, <3>1 DEF Covered, Shows, Waits, Serves
    <3>3. Followed(s, i) /\ HeldBy(s, i)
      BY <2>5 DEF Tracked, Followed
    <3>4. me.rebuild => Covered(me.space, s)'
      BY <1>1, <2>1, <3>2, <3>3 DEF Followed, AtWork
    <3>5. HeldBy(s, i)'
      BY <1>1, <1>2, <2>1, <2>3, <3>3 DEF HeldBy, Present, Waits, Serves
    <3>6. Followed(s, i)'
      BY <1>1, <2>1, <2>3, <3>4, <3>5 DEF Followed
    <3> QED
      BY <3>1, <3>6
  <2> QED
    BY <1>1, <1>2, <1>4, <2>1, <2>2, <2>5, IndexerKeeps DEF QueueInv, IndexShape
<1> QED
  BY <1>5, <1>6

LEMMA CrashKeeps ==
  ASSUME QueueInv, NEW i \in Indexers, Crash(i)
  PROVE  QueueInv'
<1>1. /\ Working(i) /\ indexer' = [indexer EXCEPT ![i] = IdleIndexer]
      /\ UNCHANGED <<content, jobs, lastJob, chunks, active, confirmed>>
      /\ excused' = IF indexer[i].rebuild THEN Sources ELSE excused
  BY DEF Crash
<1>2. PICK me : me = IdleIndexer
  OBVIOUS
<1>3. /\ me \in IndexerStates /\ me.at = "idle" /\ me.batch = <<>> /\ ~me.rebuild
      /\ Range(me.batch) = {}
  BY <1>2 DEF IdleIndexer, IndexerStates, Range
<1>4. Moves(i, me)
  BY <1>1, <1>2, <1>3, IndexAssumption DEF Moves, Midway
<1>5. indexer'[i] = me
  BY <1>1, <1>2 DEF QueueInv, IndexShape
<1>6. excused \subseteq excused' /\ excused' \subseteq Sources
  BY <1>1 DEF QueueInv, IndexShape
<1>7. excused' # Sources => Alone'
  BY <1>1, <1>4, MovesAlone DEF QueueInv
<1>8. ASSUME NEW s \in Sources \ excused', Tracked(s)
      PROVE  Followed(s, i)' /\ \A n \in Namespaces : Coming(n, s) => Covered(n, s)'
  <2>1. ~indexer[i].rebuild
    BY <1>1, <1>8
  <2>2. Followed(s, i)'
    BY <1>3, <1>5 DEF Followed, HeldBy
  <2>3. CASE indexer[i].at # "dropped"
    BY <1>1, <1>4, <2>1, <2>2, <2>3, EmptyMoves
  <2>4. CASE indexer[i].at = "dropped"
    <3>1. PICK j : j = Head(indexer[i].batch)
      OBVIOUS
    <3>2. j \in Range(indexer[i].batch)
      <4>1. indexer[i].batch \in Seq(JobRows) /\ indexer[i].batch # <<>>
        BY <2>4 DEF QueueInv, IndexShape, IndexerStates, Midway
      <4> QED
        BY <3>1, <4>1, TailRange
    <3>3. \A k \in Indexers \ {i} : indexer[k].at \in {"idle", "free"} /\ Range(indexer[k].batch) = {}
      BY <1>1, <1>6, <1>8, OthersRest DEF QueueInv
    <3>4. \A n : Coming(n, s) => j.source = s
      BY <2>1, <3>1, <3>3 DEF Coming, Ahead, InHand
    <3>5. j.source = s => content[s] = None \/ Waits(s)
      <4> SUFFICES ASSUME j.source = s, content[s] # None, ~WaitsBeside(s, j.id) PROVE Waits(s)
        BY DEF Waits, WaitsBeside
      <4>1. /\ indexer[i].read = content[s] /\ Present(j.id)
            /\ TagOf(j, indexer[i].read) = indexer[i].read
        BY <1>8, <2>4, <3>1 DEF Tracked, Followed
      <4>2. PICK q \in Range(jobs) : q.id = j.id
        BY <4>1 DEF Present
      <4>3. Waiting(q)
        BY <1>8, <2>1, <3>2, <4>2 DEF Tracked, Followed, HeldBy
      <4>4. q.source = j.source /\ q.hash = j.hash
        BY <3>2, <4>2 DEF QueueInv, JobIds
      <4>5. Serves(q, s)
        BY <4>1, <4>4 DEF Serves, TagOf
      <4> QED
        BY <4>2, <4>3, <4>5 DEF Waits
    <3>6. Waits(s) => Waits(s)'
      BY <1>1 DEF Waits, Serves
    <3> QED
      BY <1>1, <2>2, <3>4, <3>5, <3>6 DEF Covered
  <2> QED
    BY <2>3, <2>4
<1>9. DistinctIds(me.batch)
  BY <1>3 DEF DistinctIds
<1> QED
  BY <1>1, <1>3, <1>4, <1>6, <1>7, <1>8, <1>9, IndexerKeeps

\* Where the only indexer at work has an empty batch, nothing is coming.
LEMMA NothingAhead ==
  ASSUME QueueInv, NEW i \in Indexers, Working(i), excused # Sources,
         Range(indexer[i].batch) = {}, indexer[i].at # "dropped"
  PROVE  \A n, s : ~Coming(n, s)
  BY OthersRest DEF Coming, Ahead, InHand

LEMMA ConfirmKeeps ==
  ASSUME QueueInv, NEW i \in Indexers, Confirm(i)
  PROVE  QueueInv'
<1>1. /\ indexer[i].at = "release" /\ indexer' = [indexer EXCEPT ![i] = IdleIndexer]
      /\ UNCHANGED <<content, jobs, lastJob, chunks, active, excused>>
      /\ \/ confirmed' = indexer[i].space /\ indexer[i].rebuild
         \/ confirmed' = confirmed
  BY DEF Confirm
<1>2. PICK me : me = IdleIndexer
  OBVIOUS
<1>3. /\ me \in IndexerStates /\ me.at = "idle" /\ me.batch = <<>>
      /\ Range(me.batch) = {}
  BY <1>2 DEF IdleIndexer, IndexerStates, Range
<1>4. Moves(i, me)
  BY <1>1, <1>2, <1>3, IndexAssumption DEF Moves, Midway
<1>5. /\ Working(i) /\ indexer[i].batch = <<>> /\ Range(indexer[i].batch) = {}
      /\ indexer[i].space \in Namespaces
  BY <1>1 DEF Working, QueueInv, IndexShape, Range, Midway
<1>6. IndexShape' /\ indexer'[i] = me /\ \A k \in Indexers \ {i} : indexer'[k] = indexer[k]
  BY <1>1, <1>4, <1>5, MovesShape DEF QueueInv, IndexShape
<1>7. JobIds'
  <2>1. DistinctIds(me.batch)
    BY <1>3 DEF DistinctIds
  <2> QED
    BY <1>1, <1>3, <1>4, <2>1, MovesIds
<1>8. excused' # Sources => Alone'
  BY <1>1, <1>4, <1>5, MovesAlone DEF QueueInv
<1>9. ASSUME NEW s \in Sources \ excused' PROVE Tracked(s)'
  <2>1. Tracked(s) /\ excused # Sources /\ s \in Sources
    BY <1>1 DEF QueueInv
  <2>2. \A n, t : ~Coming(n, t)
    BY <1>1, <1>5, <2>1, NothingAhead
  <2>3. \A n \in Namespaces : Covered(n, s) => Covered(n, s)'
    BY <1>1, <2>2 DEF Covered, Shows, Waits, Serves
  <2>4. confirmed' # None => Covered(confirmed', s)
    BY <1>1, <2>1 DEF Tracked, Followed, AtWork
  <2>5. confirmed' # None => confirmed' \in Namespaces
    BY <1>6 DEF IndexShape
  <2>6. (confirmed # None => Covered(confirmed, s))'
    BY <1>1, <2>2, <2>4, <2>5 DEF Covered, Shows, Waits, Serves
  <2>7. ASSUME NEW k \in Indexers PROVE Followed(s, k)'
    <3>1. indexer'[k].at \in {"idle", "free"} /\ Range(indexer'[k].batch) = {}
      BY <1>3, <1>5, <1>6, <2>1, OthersRest
    <3> QED
      BY <3>1 DEF Followed, HeldBy, AtWork
  <2> QED
    BY <1>1, <2>1, <2>6, <2>7 DEF Tracked, Known
<1> QED
  BY <1>6, <1>7, <1>8, <1>9 DEF QueueInv

LEMMA SelectedRows ==
  ASSUME QueueInv, NEW rebuild \in BOOLEAN, NEW scope
  PROVE  /\ Selected(rebuild, scope) \in Seq(JobRows)
         /\ Len(Selected(rebuild, scope)) <= JobLimit
         /\ Range(Selected(rebuild, scope)) \subseteq Range(jobs)
         /\ ~rebuild => \A r \in Range(Selected(rebuild, scope)) : Waiting(r)
         /\ DistinctIds(Selected(rebuild, scope))
<1> DEFINE out == {j \in Range(jobs) : j.source \notin scope \/ ~(rebuild \/ Waiting(j))}
           rows == Without(jobs, out)
           n == IF Len(rows) < JobLimit THEN Len(rows) ELSE JobLimit
<1>1. jobs \in Seq(JobRows) /\ DistinctIds(jobs)
  BY DEF QueueInv, IndexShape, JobIds
<1>2. rows \in Seq(JobRows) /\ Range(rows) = Range(jobs) \ out /\ DistinctIds(rows)
  <2> HIDE DEF out
  <2> QED
    BY <1>1, WithoutRange, WithoutDistinct
<1>3. ~rebuild => \A r \in Range(jobs) \ out : Waiting(r)
  OBVIOUS
<1>4. Selected(rebuild, scope) = SubSeq(rows, 1, n)
  BY DEF Selected
<1> HIDE DEF rows, out
<1>5. Len(rows) \in Nat /\ n \in 0..Len(rows) /\ n <= JobLimit
  BY <1>2, IndexAssumption
<1> HIDE DEF n
<1>6. /\ Selected(rebuild, scope) \in Seq(JobRows) /\ Len(Selected(rebuild, scope)) = n
      /\ Range(Selected(rebuild, scope)) \subseteq Range(rows)
      /\ DistinctIds(Selected(rebuild, scope))
  BY <1>2, <1>4, <1>5, FirstRows, FirstDistinct
<1> QED
  BY <1>2, <1>3, <1>5, <1>6

LEMMA TakeBatchKeeps ==
  ASSUME QueueInv, NEW i \in Indexers, NEW scope, TakeBatch(i, scope)
  PROVE  QueueInv'
<1>0. PICK old, batch : old = indexer[i] /\ batch = Selected(indexer[i].rebuild, scope)
  OBVIOUS
<1> DEFINE empty == [t \in Sources |-> {}]
           taken == {r.source : r \in Range(batch)}
           left == {r.source : r \in {x \in Range(jobs) \ Range(batch) : ~Waiting(x)}}
           space == old.space
<1>1. /\ old.at = "leased" /\ old \in IndexerStates /\ old.space \in Namespaces
      /\ old.rebuild \in BOOLEAN /\ old.batch = <<>> /\ Working(i)
      /\ UNCHANGED <<content, jobs, lastJob, active, confirmed, lease, passes>>
  BY <1>0 DEF TakeBatch, QueueInv, IndexShape, IndexerStates, Working, Midway
<1>2. /\ batch \in Seq(JobRows) /\ Len(batch) <= JobLimit
      /\ Range(batch) \subseteq Range(jobs) /\ DistinctIds(batch)
      /\ ~old.rebuild => \A r \in Range(batch) : Waiting(r)
  BY <1>0, <1>1, SelectedRows
<1>3. PICK me : me = [old EXCEPT !.at = "next", !.batch = batch]
  OBVIOUS
<1>4. /\ me \in IndexerStates /\ me.at = "next" /\ me.batch = batch
      /\ me.space = space /\ me.rebuild = old.rebuild
  BY <1>1, <1>2, <1>3 DEF IndexerStates, AtWork
<1>5. /\ indexer' = [indexer EXCEPT ![i] = me]
      /\ chunks' = IF old.rebuild THEN [chunks EXCEPT ![space] = empty] ELSE chunks
      /\ excused' = excused \cup (IF old.rebuild THEN left ELSE {})
                              \cup (IF confirmed \in {None, space} THEN {} ELSE taken)
  BY <1>0, <1>3 DEF TakeBatch
<1>6. taken \subseteq Sources /\ left \subseteq Sources
  BY <1>2, RowsAreTyped DEF JobRows
<1>7. \A r \in Range(batch) : r.source \in taken
  OBVIOUS
<1>8. \A r \in Range(jobs) \ Range(batch) : Waiting(r) \/ r.source \in left
  OBVIOUS
<1> HIDE DEF taken, left
<1>9. /\ excused \subseteq excused' /\ excused' \subseteq Sources
      /\ old.rebuild => left \subseteq excused'
      /\ confirmed \notin {None, space} => taken \subseteq excused'
  BY <1>5, <1>6 DEF QueueInv, IndexShape
<1>10. /\ chunks' \in [Namespaces -> [Sources -> Chunks]]
       /\ \A n \in Namespaces \ {space} : chunks'[n] = chunks[n]
       /\ ~old.rebuild => chunks' = chunks
  BY <1>1, <1>5 DEF QueueInv, IndexShape, Chunks
<1>11. Moves(i, me)
  BY <1>1, <1>2, <1>4, <1>5 DEF Moves, Midway
<1>12. IndexShape' /\ indexer'[i] = me /\ \A k \in Indexers \ {i} : indexer'[k] = indexer[k]
  BY <1>1, <1>9, <1>10, <1>11, MovesShape DEF QueueInv, IndexShape
<1>13. JobIds'
  BY <1>1, <1>2, <1>4, <1>11, MovesIds
<1>14. excused' # Sources => Alone'
  BY <1>1, <1>9, <1>11, MovesAlone DEF QueueInv, IndexShape
<1>15. ASSUME NEW s \in Sources \ excused' PROVE Tracked(s)'
  <2>1. /\ Tracked(s) /\ excused # Sources /\ s \in Sources /\ excused' # Sources
        /\ content'[s] = content[s]
    BY <1>1, <1>9 DEF QueueInv
  <2>2. Range(indexer[i].batch) = {}
    BY <1>0, <1>1 DEF Range
  <2>3. \A n, t : ~Coming(n, t)
    BY <1>0, <1>1, <2>1, <2>2, NothingAhead
  <2>4. old.rebuild => Covered(space, s)'
    <3> SUFFICES ASSUME old.rebuild, content[s] # None PROVE Ahead(space, s)' \/ Waits(s)'
      BY <1>1 DEF Covered, Coming
    <3>1. PICK r \in Range(jobs) : IsJob(r, s, content[s])
      BY <2>1 DEF Tracked, Known
    <3>2. CASE r \in Range(batch)
      <4>1. /\ indexer'[i].rebuild /\ indexer'[i].space = space
            /\ r \in Range(indexer'[i].batch)
        BY <1>4, <1>12, <3>2
      <4>2. \E k \in Indexers : /\ indexer'[k].rebuild /\ indexer'[k].space = space
                                /\ \E q \in Range(indexer'[k].batch) :
                                     IsJob(q, s, content'[s]) /\ Present(q.id)'
        BY <1>1, <3>1, <4>1 DEF Present
      <4> QED
        BY <4>2 DEF Ahead
    <3>3. CASE r \notin Range(batch)
      <4>1. r.source = s /\ Serves(r, s)
        BY <3>1 DEF IsJob, Serves
      <4>2. Waiting(r)
        BY <1>8, <1>9, <3>3, <4>1
      <4> QED
        BY <1>1, <4>1, <4>2 DEF Waits, Serves
    <3> QED
      BY <3>2, <3>3
  <2>5. ASSUME NEW n \in Namespaces, n = confirmed PROVE Covered(n, s)'
    <3>1. CASE old.rebuild /\ n = space
      BY <2>4, <3>1
    <3>2. CASE ~(old.rebuild /\ n = space)
      <4>1. chunks'[n] = chunks[n]
        BY <1>10, <3>2
      <4>2. content[s] = None \/ Shows(n, s) \/ Waits(s)
        BY <2>1, <2>3, <2>5, IndexAssumption DEF Tracked, Covered
      <4> QED
        BY <1>1, <4>1, <4>2 DEF Covered, Shows, Waits, Serves
    <3> QED
      BY <3>1, <3>2
  <2>6. (confirmed # None => Covered(confirmed, s))'
    <3>1. confirmed' = confirmed /\ (confirmed # None => confirmed \in Namespaces)
      BY <1>1 DEF QueueInv, IndexShape
    <3>2. \A n \in Namespaces : n = confirmed' => Covered(n, s)'
      BY <2>5, <3>1
    <3> QED
      BY <3>1, <3>2 DEF Covered, Shows, Coming, Ahead, InHand
  <2>7. ASSUME NEW k \in Indexers \ {i} PROVE Followed(s, k)'
    <3>1. indexer'[k].at \in {"idle", "free"} /\ Range(indexer'[k].batch) = {}
      BY <1>1, <1>12, <2>1, OthersRest
    <3> QED
      BY <3>1 DEF Followed, HeldBy, AtWork
  <2>8. Followed(s, i)'
    <3>1. ASSUME NEW r \in Range(batch), r.source = s
          PROVE  /\ confirmed \in {None, space} /\ Present(r.id)
                 /\ ~old.rebuild => \A q \in Range(jobs) : q.id = r.id => Waiting(q)
      <4>1. confirmed \in {None, space}
        BY <1>7, <1>9, <3>1
      <4>2. r \in Range(jobs) /\ \A q \in Range(jobs) : q.id = r.id => q = r
        BY <1>2 DEF QueueInv, JobIds
      <4> QED
        BY <1>2, <4>1, <4>2 DEF Present
    <3>2. HeldBy(s, i)'
      BY <1>1, <1>4, <1>12, <3>1 DEF HeldBy, Present
    <3>3. indexer'[i].space = space /\ indexer'[i].at = "next" /\ indexer'[i].rebuild = old.rebuild
      BY <1>4, <1>12
    <3>4. indexer'[i].rebuild => Covered(space, s)'
      BY <2>4, <3>3
    <3> QED
      BY <3>2, <3>3, <3>4 DEF Followed
  <2>9. Known(s) => Known(s)'
    BY <1>1 DEF Known
  <2> QED
    BY <2>1, <2>6, <2>7, <2>8, <2>9 DEF Tracked
<1> QED
  BY <1>12, <1>13, <1>14, <1>15 DEF QueueInv

LEMMA DropKeeps ==
  ASSUME QueueInv, NEW i \in Indexers, DropChunks(i)
  PROVE  QueueInv'
<1>0. PICK old, j, me : /\ old = indexer[i] /\ j = Head(indexer[i].batch)
                        /\ me = [indexer[i] EXCEPT !.at = "dropped"]
  OBVIOUS
<1> DEFINE space == old.space
<1>1. /\ old \in IndexerStates /\ space \in Namespaces /\ old.at = "read" /\ old.batch # <<>>
      /\ old.read \in Contents /\ Len(old.batch) <= JobLimit /\ Working(i)
      /\ old.batch \in Seq(JobRows) /\ DistinctIds(old.batch)
  BY <1>0 DEF DropChunks, QueueInv, IndexShape, IndexerStates, Working, Midway, JobIds
<1>2. /\ chunks' = [chunks EXCEPT ![space][j.source] = {}]
      /\ indexer' = [indexer EXCEPT ![i] = me]
      /\ UNCHANGED <<content, jobs, lastJob, active, confirmed, lease, passes>>
      /\ excused' = IF TagOf(j, old.read) = old.read THEN excused ELSE excused \cup {j.source}
  BY <1>0 DEF DropChunks
<1>3. j \in JobRows /\ j.source \in Sources
  <2>1. j \in JobRows
    BY <1>0, <1>1, TailRange
  <2> QED
    BY <2>1 DEF JobRows
<1>4. /\ me \in IndexerStates /\ me.at = "dropped" /\ me.batch = old.batch
      /\ me.space = space /\ me.rebuild = old.rebuild /\ me.read = old.read
  BY <1>0, <1>1 DEF IndexerStates, AtWork
<1>5. Moves(i, me)
  BY <1>1, <1>2, <1>4 DEF Moves, Midway
<1>6. excused \subseteq excused' /\ excused' \subseteq Sources
  BY <1>2, <1>3 DEF QueueInv, IndexShape
<1>7. /\ chunks' \in [Namespaces -> [Sources -> Chunks]]
      /\ \A n \in Namespaces, t \in Sources :
           n # space \/ t # j.source => chunks'[n][t] = chunks[n][t]
  BY <1>1, <1>2, <1>3 DEF QueueInv, IndexShape, Chunks
<1>8. IndexShape' /\ indexer'[i] = me /\ \A k \in Indexers \ {i} : indexer'[k] = indexer[k]
  BY <1>2, <1>5, <1>6, <1>7, MovesShape DEF QueueInv, IndexShape
<1>9. JobIds'
  BY <1>0, <1>1, <1>2, <1>4, <1>5, MovesIds
<1>10. excused' # Sources => Alone'
  BY <1>1, <1>5, <1>6, MovesAlone DEF QueueInv, IndexShape
<1>11. ASSUME NEW s \in Sources \ excused' PROVE Tracked(s)'
  <2>1. /\ Tracked(s) /\ excused # Sources /\ s \in Sources /\ content'[s] = content[s]
        /\ Followed(s, i) /\ HeldBy(s, i)
    BY <1>2, <1>6 DEF QueueInv, Tracked, Followed
  <2>2. /\ Waits(s) => Waits(s)'
        /\ \A id : (WaitsBeside(s, id) => WaitsBeside(s, id)') /\ (Present(id) => Present(id)')
    BY <1>2 DEF Waits, WaitsBeside, Serves, Present
  <2>3. \A n \in Namespaces : Coming(n, s) => Coming(n, s)'
    BY <1>0, <1>1, <1>2, <1>4, <1>8 DEF Coming, Ahead, InHand, Present
  <2>4. \A n \in Namespaces : Shows(n, s) => Covered(n, s)'
    <3> SUFFICES ASSUME NEW n \in Namespaces, Shows(n, s) PROVE Covered(n, s)'
      OBVIOUS
    <3>1. CASE n = space /\ s = j.source
      BY <1>0, <1>4, <1>8, <3>1 DEF Covered, Coming, InHand
    <3>2. CASE n # space \/ s # j.source
      BY <1>2, <1>7, <2>1, <3>2 DEF Covered, Shows
    <3> QED
      BY <3>1, <3>2
  <2>5. \A n \in Namespaces : Covered(n, s) => Covered(n, s)'
    BY <1>2, <2>1, <2>2, <2>3, <2>4 DEF Covered
  <2>6. ASSUME NEW k \in Indexers \ {i} PROVE Followed(s, k)'
    <3>1. indexer'[k].at \in {"idle", "free"} /\ Range(indexer'[k].batch) = {}
      BY <1>1, <1>8, <2>1, OthersRest
    <3> QED
      BY <3>1 DEF Followed, HeldBy, AtWork
  <2>7. Followed(s, i)'
    <3>1. old.rebuild => Covered(space, s)'
      BY <1>0, <1>1, <2>1, <2>5 DEF Followed, AtWork
    <3>2. HeldBy(s, i)'
      BY <1>0, <1>2, <1>4, <1>8, <2>1, <2>2 DEF HeldBy
    <3>3. j.source = s => /\ \/ content[s] = None
                             \/ old.read = content[s] /\ Present(j.id)
                             \/ WaitsBeside(s, j.id)
                          /\ TagOf(j, old.read) = old.read
      BY <1>0, <1>1, <1>2, <2>1 DEF Followed
    <3>4. /\ indexer'[i].at = "dropped" /\ indexer'[i].batch = old.batch
          /\ indexer'[i].space = space /\ indexer'[i].rebuild = old.rebuild
          /\ indexer'[i].read = old.read /\ Head(indexer'[i].batch) = j
      BY <1>0, <1>4, <1>8
    <3>5. indexer'[i].rebuild => Covered(space, s)'
      BY <3>1, <3>4
    <3> QED
      BY <2>1, <2>2, <3>2, <3>3, <3>4, <3>5 DEF Followed
  <2>8. (confirmed # None => Covered(confirmed, s))'
    <3>1. confirmed' = confirmed /\ (confirmed # None => confirmed \in Namespaces /\ Covered(confirmed, s))
      BY <1>2, <2>1 DEF QueueInv, IndexShape, Tracked
    <3>2. \A n \in Namespaces : n = confirmed' => Covered(n, s)'
      BY <2>5, <3>1, IndexAssumption
    <3> QED
      BY <3>1, <3>2 DEF Covered, Shows, Coming, Ahead, InHand
  <2>9. Known(s) => Known(s)'
    BY <1>2 DEF Known
  <2> QED
    BY <2>1, <2>6, <2>7, <2>8, <2>9 DEF Tracked
<1> QED
  BY <1>8, <1>9, <1>10, <1>11 DEF QueueInv

LEMMA WriteKeeps ==
  ASSUME QueueInv, NEW i \in Indexers, WriteChunks(i)
  PROVE  QueueInv'
<1>0. PICK old, j, me : /\ old = indexer[i] /\ j = Head(indexer[i].batch)
                        /\ me = [indexer[i] EXCEPT !.at = "written"]
  OBVIOUS
<1> DEFINE space == old.space
           chunk == [hash |-> TagOf(j, old.read), text |-> old.read]
<1>1. /\ old \in IndexerStates /\ space \in Namespaces /\ old.at = "dropped" /\ old.batch # <<>>
      /\ old.read \in Contents /\ Len(old.batch) <= JobLimit /\ Working(i)
      /\ old.batch \in Seq(JobRows) /\ DistinctIds(old.batch)
  BY <1>0 DEF WriteChunks, QueueInv, IndexShape, IndexerStates, Working, Midway, JobIds
<1>2. /\ chunks' = [chunks EXCEPT ![space][j.source] = @ \cup {chunk}]
      /\ indexer' = [indexer EXCEPT ![i] = me]
      /\ UNCHANGED <<content, jobs, lastJob, active, confirmed, lease, passes, excused>>
  BY <1>0 DEF WriteChunks
<1>3. j \in JobRows /\ j.source \in Sources /\ j.hash \in Contents
  <2>1. j \in JobRows
    BY <1>0, <1>1, TailRange
  <2> QED
    BY <2>1 DEF JobRows
<1>4. /\ me \in IndexerStates /\ me.at = "written" /\ me.batch = old.batch
      /\ me.space = space /\ me.rebuild = old.rebuild /\ me.read = old.read
  BY <1>0, <1>1 DEF IndexerStates, AtWork
<1>5. Moves(i, me)
  BY <1>1, <1>2, <1>4 DEF Moves, Midway
<1>6. /\ chunk \in [hash : Contents, text : Contents]
      /\ chunk.hash = TagOf(j, old.read)
  BY <1>1, <1>3 DEF TagOf
<1> HIDE DEF chunk
<1>7. /\ chunks' \in [Namespaces -> [Sources -> Chunks]]
      /\ chunk \in chunks'[space][j.source]
      /\ \A n \in Namespaces, t \in Sources : chunks[n][t] \subseteq chunks'[n][t]
  <2>1. \A n \in Namespaces, t \in Sources :
          /\ chunks[n][t] \in Chunks
          /\ chunks'[n][t] = IF n = space /\ t = j.source THEN chunks[n][t] \cup {chunk}
                             ELSE chunks[n][t]
    BY <1>2 DEF QueueInv, IndexShape
  <2>2. ASSUME NEW n \in Namespaces, NEW t \in Sources PROVE chunks'[n][t] \in Chunks
    <3>1. chunks[n][t] \cup {chunk} \in Chunks
      BY <1>6, <2>1 DEF Chunks
    <3> QED
      BY <2>1, <3>1
  <2>3. chunks' = [n \in Namespaces |-> [t \in Sources |-> chunks'[n][t]]]
    BY <1>2 DEF QueueInv, IndexShape
  <2>4. chunks' \in [Namespaces -> [Sources -> Chunks]]
    BY <2>2, <2>3
  <2> QED
    BY <1>1, <1>3, <2>1, <2>4
<1>8. IndexShape' /\ indexer'[i] = me /\ \A k \in Indexers \ {i} : indexer'[k] = indexer[k]
  BY <1>2, <1>5, <1>7, MovesShape DEF QueueInv, IndexShape
<1>9. JobIds'
  BY <1>0, <1>1, <1>2, <1>4, <1>5, MovesIds
<1>10. excused' # Sources => Alone'
  BY <1>1, <1>2, <1>5, MovesAlone DEF QueueInv
<1>11. ASSUME NEW s \in Sources \ excused' PROVE Tracked(s)'
  <2>1. /\ Tracked(s) /\ excused # Sources /\ s \in Sources /\ content'[s] = content[s]
        /\ Followed(s, i) /\ HeldBy(s, i)
    BY <1>2 DEF QueueInv, Tracked, Followed
  <2>2. /\ Waits(s) => Waits(s)'
        /\ \A id : (WaitsBeside(s, id) => WaitsBeside(s, id)') /\ (Present(id) => Present(id)')
    BY <1>2 DEF Waits, WaitsBeside, Serves, Present
  <2>3. j.source = s => content[s] = None \/ Shows(space, s)' \/ WaitsBeside(s, j.id)
    <3> SUFFICES ASSUME j.source = s, content[s] # None, ~WaitsBeside(s, j.id)
                 PROVE  Shows(space, s)'
      OBVIOUS
    <3>1. old.read = content[s] /\ TagOf(j, old.read) = old.read
      BY <1>0, <1>1, <2>1 DEF Followed
    <3> QED
      BY <1>6, <1>7, <2>1, <3>1 DEF Shows
  <2>4. \A n \in Namespaces : Shows(n, s) => Shows(n, s)'
    BY <1>7, <2>1 DEF Shows
  <2>5. \A n \in Namespaces : Ahead(n, s) => Ahead(n, s)'
    BY <1>0, <1>2, <1>4, <1>8 DEF Ahead, Present
  <2>6. \A n \in Namespaces : InHand(n, s) => n = space /\ j.source = s
    BY <1>0, <1>1, <2>1, OthersRest DEF InHand
  <2>7. WaitsBeside(s, j.id) => Waits(s)
    BY DEF WaitsBeside, Waits
  <2>8. \A n \in Namespaces : Covered(n, s) => Covered(n, s)'
    BY <2>1, <2>2, <2>3, <2>4, <2>5, <2>6, <2>7 DEF Covered, Coming
  <2>9. ASSUME NEW k \in Indexers \ {i} PROVE Followed(s, k)'
    <3>1. indexer'[k].at \in {"idle", "free"} /\ Range(indexer'[k].batch) = {}
      BY <1>1, <1>8, <2>1, OthersRest
    <3> QED
      BY <3>1 DEF Followed, HeldBy, AtWork
  <2>10. Followed(s, i)'
    <3>1. old.rebuild => Covered(space, s)'
      BY <1>0, <1>1, <2>1, <2>8 DEF Followed, AtWork
    <3>2. HeldBy(s, i)'
      BY <1>0, <1>2, <1>4, <1>8, <2>1, <2>2 DEF HeldBy
    <3>3. /\ indexer'[i].at = "written" /\ indexer'[i].batch = old.batch
          /\ indexer'[i].space = space /\ indexer'[i].rebuild = old.rebuild
          /\ Head(indexer'[i].batch) = j
      BY <1>0, <1>4, <1>8
    <3>4. indexer'[i].rebuild => Covered(space, s)'
      BY <3>1, <3>3
    <3> QED
      BY <2>1, <2>2, <2>3, <3>2, <3>3, <3>4 DEF Followed
  <2>11. (confirmed # None => Covered(confirmed, s))'
    <3>1. confirmed' = confirmed /\ (confirmed # None => confirmed \in Namespaces /\ Covered(confirmed, s))
      BY <1>2, <2>1 DEF QueueInv, IndexShape, Tracked
    <3>2. \A n \in Namespaces : n = confirmed' => Covered(n, s)'
      BY <2>8, <3>1, IndexAssumption
    <3> QED
      BY <3>1, <3>2 DEF Covered, Shows, Coming, Ahead, InHand
  <2>12. Known(s) => Known(s)'
    BY <1>2 DEF Known
  <2> QED
    BY <2>1, <2>9, <2>10, <2>11, <2>12 DEF Tracked
<1> QED
  BY <1>8, <1>9, <1>10, <1>11 DEF QueueInv

\* A job that is done or has failed is touched, and leaves the batch.
LEMMA TouchKeeps ==
  ASSUME QueueInv, NEW i \in Indexers, NEW me, NEW status,
         \/ indexer[i].at \in {"read", "dropped"} /\ status = "failed"
         \/ indexer[i].at = "written" /\ status = "indexed",
         jobs' = Touch(Head(indexer[i].batch), status),
         indexer' = [indexer EXCEPT ![i] = me], me \in IndexerStates,
         me.at = "next", me.batch = Tail(indexer[i].batch),
         me.space = indexer[i].space, me.rebuild = indexer[i].rebuild,
         UNCHANGED <<content, lastJob, chunks, active, confirmed, excused>>
  PROVE  QueueInv'
<1>0. PICK old, j : old = indexer[i] /\ j = Head(indexer[i].batch)
  OBVIOUS
<1> DEFINE space == old.space
           row == [j EXCEPT !.status = status]
<1>1. /\ old \in IndexerStates /\ space \in Namespaces /\ old.batch # <<>>
      /\ Len(old.batch) <= JobLimit /\ Working(i) /\ old.at \in Midway
      /\ old.batch \in Seq(JobRows) /\ DistinctIds(old.batch)
  BY <1>0 DEF QueueInv, IndexShape, IndexerStates, Working, Midway, JobIds
<1>2. /\ j \in JobRows /\ Range(old.batch) = Range(me.batch) \cup {j}
      /\ me.batch \in Seq(JobRows) /\ Len(me.batch) <= Len(old.batch)
      /\ DistinctIds(me.batch) /\ \A r \in Range(me.batch) : r.id # j.id
  BY <1>0, <1>1, TailRange, TailDistinct
<1>3. /\ row \in JobRows /\ jobs' \in Seq(JobRows)
      /\ Range(jobs') = IF \E r \in Range(jobs) : r.id = j.id
                        THEN {r \in Range(jobs) : r.id # j.id} \cup {row} ELSE Range(jobs)
      /\ DistinctIds(jobs')
  <2>1. status \in {"pending", "failed", "indexed"} /\ jobs \in Seq(JobRows)
    BY DEF QueueInv, IndexShape
  <2>2. jobs' = Touch(j, status)
    BY <1>0
  <2>3. j \in JobRows
    BY <1>2
  <2>4. /\ Touch(j, status) \in Seq(JobRows) /\ row \in JobRows
        /\ Range(Touch(j, status)) =
             IF \E r \in Range(jobs) : r.id = j.id
             THEN {r \in Range(jobs) : r.id # j.id} \cup {row} ELSE Range(jobs)
        /\ DistinctIds(Touch(j, status))
    BY <2>1, <2>3, TouchRows DEF QueueInv, JobIds
  <2> HIDE DEF row
  <2> QED
    BY <2>2, <2>4
<1>4. row.id = j.id /\ row.source = j.source /\ row.hash = j.hash /\ row.status = status
  BY <1>2 DEF JobRows
<1> HIDE DEF row
<1>5. Moves(i, me)
  <2>1. Len(me.batch) \in Nat /\ Len(old.batch) \in Nat
    BY <1>1, <1>2
  <2>2. Len(me.batch) <= JobLimit
    BY <1>1, <1>2, <2>1, IndexAssumption
  <2> QED
    BY <1>0, <1>1, <2>2 DEF Moves, Midway
<1>6. IndexShape' /\ indexer'[i] = me /\ \A k \in Indexers \ {i} : indexer'[k] = indexer[k]
  BY <1>3, <1>5, MovesShape DEF QueueInv, IndexShape
<1>7. \A r \in Range(jobs') :
        \/ r \in Range(jobs) /\ r.id # j.id
        \/ r \in Range(jobs) /\ ~(\E q \in Range(jobs) : q.id = j.id)
        \/ r = row /\ \E q \in Range(jobs) : q.id = j.id
  BY <1>3
<1>8. \A q \in Range(jobs) : q.id = j.id => q.source = j.source /\ q.hash = j.hash
  BY <1>0, <1>2 DEF QueueInv, JobIds
<1>9. JobIds'
  <2>1. \A r \in Range(jobs') : r.id <= lastJob'
    BY <1>4, <1>7 DEF QueueInv, JobIds
  <2>2. \A r, q \in Range(jobs') : r.id = q.id => r = q
    BY <1>4, <1>7 DEF QueueInv, JobIds
  <2>3. ASSUME NEW k \in Indexers, NEW r \in Range(indexer'[k].batch)
        PROVE  /\ r.id <= lastJob'
               /\ \A q \in Range(jobs') : q.id = r.id => q.source = r.source /\ q.hash = r.hash
    <3>1. r \in Range(indexer[k].batch)
      BY <1>0, <1>2, <1>6, <2>3
    <3>2. /\ r.id <= lastJob
          /\ \A q \in Range(jobs) : q.id = r.id => q.source = r.source /\ q.hash = r.hash
      BY <3>1 DEF QueueInv, JobIds
    <3> QED
      BY <1>4, <1>7, <1>8, <3>2
  <2>4. \A id : Present(id)' <=> Present(id)
    BY <1>3, <1>4 DEF Present
  <2>5. ASSUME NEW k \in Indexers
        PROVE  /\ DistinctIds(indexer'[k].batch)
               /\ \A r, p \in Range(indexer'[k].batch) :
                    r.source = p.source => (Present(r.id)' <=> Present(p.id)')
    <3>1. DistinctIds(indexer'[k].batch) /\ Range(indexer'[k].batch) \subseteq Range(indexer[k].batch)
      BY <1>0, <1>2, <1>6 DEF QueueInv, JobIds
    <3> QED
      BY <2>4, <3>1 DEF QueueInv, JobIds
  <2> QED
    BY <1>3, <2>1, <2>2, <2>3, <2>5 DEF JobIds, DistinctIds
<1>10. excused' # Sources => Alone'
  BY <1>1, <1>5, MovesAlone DEF QueueInv
<1>11. ASSUME NEW s \in Sources \ excused' PROVE Tracked(s)'
  <2>1. /\ Tracked(s) /\ excused # Sources /\ s \in Sources /\ content'[s] = content[s]
        /\ Followed(s, i) /\ HeldBy(s, i)
    BY DEF QueueInv, Tracked, Followed
  <2>2. \A r \in Range(jobs) : \E q \in Range(jobs') : q.id = r.id
    BY <1>3, <1>4
  <2>3. ASSUME NEW r \in Range(jobs), r.id # j.id PROVE r \in Range(jobs')
    BY <1>3, <2>3
  <2>4. Known(s) => Known(s)'
    <3> SUFFICES ASSUME NEW r \in Range(jobs), IsJob(r, s, content[s]) PROVE Known(s)'
      BY DEF Known
    <3>1. CASE r.id = j.id
      <4>1. row \in Range(jobs') /\ IsJob(row, s, content[s])
        BY <1>3, <1>4, <1>8, <3>1 DEF IsJob
      <4> QED
        BY <2>1, <4>1 DEF Known
    <3>2. CASE r.id # j.id
      BY <2>1, <2>3, <3>2 DEF Known
    <3> QED
      BY <3>1, <3>2
  <2>5. WaitsBeside(s, j.id) => Waits(s)'
    BY <2>1, <2>3 DEF WaitsBeside, Waits, Waiting, Serves
  <2>6. (s # j.source \/ status = "failed") /\ Waits(s) => Waits(s)'
    <3> SUFFICES ASSUME NEW r \in Range(jobs), Serves(r, s), Waiting(r),
                        s # j.source \/ status = "failed"
                 PROVE  Waits(s)'
      BY DEF Waits
    <3>1. CASE r.id = j.id
      <4>1. row \in Range(jobs') /\ Serves(row, s)
        BY <1>3, <1>4, <1>8, <3>1 DEF Serves
      <4>2. Waiting(row)
        BY <1>4, <1>8, <3>1 DEF Waiting, Serves
      <4> QED
        BY <2>1, <4>1, <4>2 DEF Waits, Waiting, Serves
    <3>2. CASE r.id # j.id
      BY <2>1, <2>3, <3>2 DEF Waits, Waiting, Serves
    <3> QED
      BY <3>1, <3>2
  <2>7. ASSUME NEW n \in Namespaces, Ahead(n, s), s # j.source \/ status = "failed"
        PROVE  Ahead(n, s)' \/ Waits(s)'
    <3>1. PICK k \in Indexers : /\ indexer[k].rebuild /\ indexer[k].space = n
                                /\ \E r \in Range(indexer[k].batch) :
                                     IsJob(r, s, content[s]) /\ \E q \in Range(jobs) : q.id = r.id
      BY <2>7 DEF Ahead, Present
    <3>2. PICK r \in Range(indexer[k].batch), q \in Range(jobs) :
            IsJob(r, s, content[s]) /\ q.id = r.id
      BY <3>1
    <3>3. CASE k = i /\ r = j
      <4>1. row \in Range(jobs') /\ IsJob(row, s, content[s])
        BY <1>3, <1>4, <3>2, <3>3 DEF IsJob
      <4>2. Waiting(row)
        BY <1>4, <2>7, <3>2, <3>3 DEF Waiting, IsJob
      <4> QED
        BY <2>1, <4>1, <4>2 DEF Waits, Waiting, Serves, IsJob
    <3>4. CASE k # i \/ r # j
      <4>1. /\ r \in Range(indexer'[k].batch)
            /\ indexer'[k].rebuild /\ indexer'[k].space = n
        BY <1>0, <1>2, <1>6, <3>1, <3>2, <3>4
      <4>2. \E p \in Range(jobs') : p.id = r.id
        BY <2>2, <3>2
      <4> QED
        BY <2>1, <3>2, <4>1, <4>2 DEF Ahead, Present
    <3> QED
      BY <3>3, <3>4
  <2>a. ASSUME NEW n, InHand(n, s)
        PROVE  n = space /\ old.at = "dropped" /\ j.source = s
    BY <1>0, <1>1, <2>1, <2>a, OthersRest DEF InHand
  <2>b. ASSUME old.at = "dropped", j.source = s
        PROVE  content[s] = None \/ Waits(s)'
    <3> SUFFICES ASSUME content[s] # None, ~WaitsBeside(s, j.id) PROVE Waits(s)'
      BY <2>5
    <3>1. /\ old.read = content[s] /\ Present(j.id)
          /\ TagOf(j, old.read) = old.read
      BY <1>0, <2>1, <2>b DEF Followed
    <3>2. row \in Range(jobs')
      BY <1>3, <3>1 DEF Present
    <3>3. Serves(row, s) /\ Waiting(row)
      <4>1. row.status = "failed"
        BY <1>0, <1>4, <2>b
      <4> QED
        BY <1>4, <2>b, <3>1, <4>1 DEF Serves, TagOf, Waiting
    <3> QED
      BY <2>1, <3>2, <3>3 DEF Waits, Serves, Waiting
  <2>8. ASSUME NEW n \in Namespaces, Covered(n, s), n \in {space, confirmed}
        PROVE  Covered(n, s)'
    <3>1. CASE s # j.source \/ status = "failed"
      <4>1. content[s] = None \/ Shows(n, s) => Covered(n, s)'
        BY <2>1 DEF Covered, Shows
      <4>2. Waits(s) \/ Ahead(n, s) => Covered(n, s)'
        BY <2>6, <2>7, <3>1 DEF Covered, Coming
      <4>3. InHand(n, s) => Covered(n, s)'
        BY <2>1, <2>a, <2>b DEF Covered
      <4> QED
        BY <2>8, <4>1, <4>2, <4>3 DEF Covered, Coming
    <3>2. CASE s = j.source /\ status = "indexed"
      <4>1. confirmed \in {None, space}
        BY <1>0, <1>2, <2>1, <3>2 DEF HeldBy
      <4>2. n = space
        BY <2>8, <4>1, IndexAssumption
      <4>3. content[s] = None \/ Shows(space, s) \/ WaitsBeside(s, j.id)
        BY <1>0, <2>1, <3>2 DEF Followed
      <4> QED
        BY <2>1, <2>5, <4>2, <4>3 DEF Covered, Shows
    <3> QED
      BY <3>1, <3>2
  <2>9. ASSUME NEW k \in Indexers \ {i} PROVE Followed(s, k)'
    <3>1. indexer'[k].at \in {"idle", "free"} /\ Range(indexer'[k].batch) = {}
      BY <1>1, <1>6, <2>1, OthersRest
    <3> QED
      BY <3>1 DEF Followed, HeldBy, AtWork
  <2>10. Followed(s, i)'
    <3>1. old.rebuild => Covered(space, s)'
      BY <1>0, <1>1, <2>1, <2>8 DEF Followed, AtWork
    <3>2. ASSUME NEW r \in Range(me.batch), r.source = s
          PROVE  /\ confirmed \in {None, space}
                 /\ content[s] = None \/ Present(r.id)' \/ Waits(s)'
                 /\ ~old.rebuild => \A q \in Range(jobs') : q.id = r.id => Waiting(q)
      <4>1. /\ r \in Range(old.batch) /\ r.id # j.id /\ j \in Range(old.batch)
            /\ confirmed \in {None, space}
            /\ content[s] = None \/ Present(r.id) \/ Waits(s)
            /\ ~old.rebuild => \A q \in Range(jobs) : q.id = r.id => Waiting(q)
        BY <1>0, <1>2, <2>1, <3>2 DEF HeldBy
      <4>2. Present(r.id) => Present(r.id)'
        BY <2>2 DEF Present
      <4>3. ASSUME Waits(s), ~Present(r.id), s = j.source, status # "failed" PROVE Waits(s)'
        <5>1. ~Present(j.id)
          BY <1>0, <3>2, <4>1, <4>3 DEF QueueInv, JobIds
        <5>2. Range(jobs') = Range(jobs)
          BY <1>3, <5>1 DEF Present
        <5> QED
          BY <2>1, <4>3, <5>2 DEF Waits, Serves, Waiting
      <4>4. content[s] = None \/ Present(r.id)' \/ Waits(s)'
        BY <2>6, <4>1, <4>2, <4>3
      <4>5. ~old.rebuild => \A q \in Range(jobs') : q.id = r.id => Waiting(q)
        BY <1>4, <1>7, <4>1
      <4> QED
        BY <4>1, <4>4, <4>5
    <3>a. HeldBy(s, i)'
      BY <1>0, <1>6, <2>1, <3>2 DEF HeldBy, Waiting
    <3>3. /\ indexer'[i].at = "next" /\ indexer'[i].batch = me.batch
          /\ indexer'[i].space = space /\ indexer'[i].rebuild = old.rebuild
      BY <1>0, <1>6
    <3>4. indexer'[i].rebuild => Covered(space, s)'
      BY <3>1, <3>3
    <3> QED
      BY <3>a, <3>3, <3>4 DEF Followed
  <2>11. (confirmed # None => Covered(confirmed, s))'
    <3>1. confirmed' = confirmed /\ (confirmed # None => confirmed \in Namespaces /\ Covered(confirmed, s))
      BY <2>1 DEF QueueInv, IndexShape, Tracked
    <3>2. \A n \in Namespaces : n = confirmed' => Covered(n, s)'
      BY <2>8, <3>1, IndexAssumption
    <3> QED
      BY <3>1, <3>2 DEF Covered, Shows, Coming, Ahead, InHand
  <2> QED
    BY <2>1, <2>4, <2>9, <2>10, <2>11 DEF Tracked
<1> QED
  BY <1>6, <1>9, <1>10, <1>11 DEF QueueInv

LEMMA JobsEnd ==
  ASSUME QueueInv, NEW i \in Indexers, MarkIndexed(i) \/ JobFails(i)
  PROVE  QueueInv'
<1>1. indexer[i].at = "written" \/ indexer[i].at \in {"read", "dropped"}
  BY DEF MarkIndexed, JobFails
<1>2. /\ indexer[i] \in IndexerStates /\ indexer[i].batch \in Seq(JobRows)
      /\ indexer[i].batch # <<>>
  BY <1>1 DEF QueueInv, IndexShape, IndexerStates, Midway
<1>3. Tail(indexer[i].batch) \in Seq(JobRows)
  BY <1>2, TailRange
<1>4. CASE MarkIndexed(i)
  <2>1. PICK me : me = [indexer[i] EXCEPT !.at = "next", !.batch = Tail(@), !.read = None]
    OBVIOUS
  <2>2. /\ me \in IndexerStates /\ me.at = "next" /\ me.batch = Tail(indexer[i].batch)
        /\ me.space = indexer[i].space /\ me.rebuild = indexer[i].rebuild
    BY <1>2, <1>3, <2>1 DEF IndexerStates, AtWork
  <2>3. /\ indexer' = [indexer EXCEPT ![i] = me] /\ indexer[i].at = "written"
        /\ jobs' = Touch(Head(indexer[i].batch), "indexed")
        /\ UNCHANGED <<content, lastJob, chunks, active, confirmed, excused>>
    BY <1>4, <2>1 DEF MarkIndexed
  <2> QED
    BY <2>2, <2>3, TouchKeeps
<1>5. CASE JobFails(i)
  <2>1. PICK me : me = [indexer[i] EXCEPT !.at = "next", !.batch = Tail(@), !.read = None,
                                          !.failed = TRUE]
    OBVIOUS
  <2>2. /\ me \in IndexerStates /\ me.at = "next" /\ me.batch = Tail(indexer[i].batch)
        /\ me.space = indexer[i].space /\ me.rebuild = indexer[i].rebuild
    BY <1>2, <1>3, <2>1 DEF IndexerStates, AtWork
  <2>3. /\ indexer' = [indexer EXCEPT ![i] = me] /\ indexer[i].at \in {"read", "dropped"}
        /\ jobs' = Touch(Head(indexer[i].batch), "failed")
        /\ UNCHANGED <<content, lastJob, chunks, active, confirmed, excused>>
    BY <1>5, <2>1 DEF JobFails, Failed
  <2> QED
    BY <2>2, <2>3, TouchKeeps
<1> QED
  BY <1>4, <1>5

LEMMA QueueSteps == QueueInv /\ [IndexNext]_indexVars => QueueInv'
<1> SUFFICES ASSUME QueueInv, [IndexNext]_indexVars PROVE QueueInv'
  OBVIOUS
<1>1. active \in Namespaces
  BY DEF QueueInv, IndexShape
<1>2. CASE UNCHANGED indexVars
  BY <1>1, <1>2, AsideKeeps DEF indexVars
<1>3. CASE \E s \in Sources, c \in Contents : Save(s, c)
  BY <1>3, SaveKeeps
<1>4. CASE \E s \in Sources : DeleteRecord(s)
  BY <1>4, DeletionKeeps
<1>5. CASE \E n \in Namespaces : Configure(n)
  BY <1>5, AsideKeeps DEF Configure
<1>6. CASE LeaseExpires
  BY <1>1, <1>6, AsideKeeps DEF LeaseExpires
<1>7. CASE \E i \in Indexers :
             \/ \E rebuild \in BOOLEAN : LookForLease(i, rebuild)
             \/ TakeLease(i) \/ Release(i)
  BY <1>7, LeaseKeeps
<1>8. CASE \E i \in Indexers :
             \/ \E scope \in Scopes \cup {Sources} : TakeBatch(i, scope)
             \/ ReadSource(i) \/ DropChunks(i) \/ WriteChunks(i)
  BY <1>8, TakeBatchKeeps, ReadKeeps, DropKeeps, WriteKeeps
<1>9. CASE \E i \in Indexers : MarkIndexed(i) \/ JobFails(i) \/ Confirm(i) \/ Crash(i)
  BY <1>9, JobsEnd, ConfirmKeeps, CrashKeeps
<1> QED
  BY <1>2, <1>3, <1>4, <1>5, <1>6, <1>7, <1>8, <1>9 DEF IndexNext

LEMMA QueueForgetsNothing == QueueInv => NothingElseIsForgotten
<1> SUFFICES ASSUME QueueInv, confirmed = active, NEW s \in Sources \ excused
             PROVE  content[s] = None \/ Hits(s) # {} \/ ToBeIndexed(s)
  BY DEF NothingElseIsForgotten
<1>1. active \in Namespaces /\ Covered(active, s)
  BY IndexAssumption DEF QueueInv, IndexShape, Tracked
<1>2. Shows(active, s) => Hits(s) # {}
  BY DEF Shows, Hits
<1>3. Waits(s) => ToBeIndexed(s)
  BY DEF Waits, ToBeIndexed, Range
<1>4. ASSUME NEW i \in Indexers, indexer[i].space = active,
             NEW r \in Range(indexer[i].batch), r.source = s
      PROVE  ToBeIndexed(s)
  <2>1. PICK k \in DOMAIN indexer[i].batch : indexer[i].batch[k].source = s
    BY <1>4 DEF Range
  <2>2. indexer[i].batch \in Seq(JobRows) /\ Len(indexer[i].batch) <= JobLimit
    BY DEF QueueInv, IndexShape, IndexerStates
  <2>3. k \in 1..JobLimit /\ indexer[i].batch # <<>>
    BY <2>1, <2>2, IndexAssumption
  <2>4. Working(i)
    BY <2>3 DEF QueueInv, IndexShape, Working, Midway
  <2> QED
    BY <1>4, <2>1, <2>3, <2>4 DEF ToBeIndexed
<1>5. Ahead(active, s) => ToBeIndexed(s)
  BY <1>4 DEF Ahead, IsJob
<1>6. ASSUME InHand(active, s) PROVE ToBeIndexed(s)
  <2>1. PICK i \in Indexers : /\ indexer[i].at = "dropped" /\ indexer[i].space = active
                              /\ Head(indexer[i].batch).source = s
    BY <1>6 DEF InHand
  <2>2. indexer[i].batch \in Seq(JobRows) /\ indexer[i].batch # <<>>
    BY <2>1 DEF QueueInv, IndexShape, IndexerStates, Midway
  <2> QED
    BY <1>4, <2>1, <2>2, TailRange
<1> QED
  BY <1>1, <1>2, <1>3, <1>5, <1>6 DEF Covered, Coming

\* The index loses a source only in the circumstances the model names.
THEOREM IndexForgetsNothingElse == IndexSpec => []NothingElseIsForgotten
  BY QueueInit, QueueSteps, QueueForgetsNothing, PTL DEF IndexSpec

\* What the shape of the queue leaves open: ids are counted from one, up to
\* the bound, and a lease is an indexer's.
QueueNumbers == /\ lastJob \in 0..MaxJobs
                /\ \A r \in Range(jobs) : r.id >= 1
                /\ lease \in Indexers \cup {None}

LEMMA NumbersStart == IndexInit => QueueNumbers
<1> SUFFICES ASSUME IndexInit PROVE QueueNumbers
  OBVIOUS
<1>1. jobs = <<>> /\ lastJob = 0 /\ lease = None
  BY DEF IndexInit
<1>2. Range(jobs) = {}
  BY <1>1 DEF Range
<1> QED
  BY <1>1, <1>2, IndexAssumption DEF QueueNumbers

LEMMA NumbersStep ==
  QueueInv /\ QueueNumbers /\ [IndexNext]_indexVars => QueueNumbers'
<1> SUFFICES ASSUME QueueInv, QueueNumbers, [IndexNext]_indexVars PROVE QueueNumbers'
  OBVIOUS
<1>1. jobs \in Seq(JobRows) /\ lastJob \in 0..MaxJobs /\ MaxJobs \in Nat
  BY IndexAssumption DEF QueueInv, IndexShape, QueueNumbers
<1>2. ASSUME UNCHANGED <<jobs, lastJob, lease>> PROVE QueueNumbers'
  BY <1>2 DEF QueueNumbers
<1>3. ASSUME NEW s \in Sources, NEW c \in Contents, Save(s, c) PROVE QueueNumbers'
  <2>1. CASE Enqueued(s, c)
    BY <1>2, <1>3, <2>1 DEF Save, Enqueue
  <2>2. CASE ~Enqueued(s, c)
    <3>1. PICK row : row = [id |-> lastJob + 1, source |-> s, hash |-> c, status |-> "pending"]
      OBVIOUS
    <3>2. row \in JobRows /\ row.id = lastJob + 1
      BY <1>1, <3>1 DEF JobRows
    <3>3. /\ jobs' = Append(jobs, row) /\ lastJob' = lastJob + 1 /\ lastJob < MaxJobs
          /\ lease' = lease
      BY <1>3, <2>2, <3>1 DEF Save, Enqueue, EnqueueEach
    <3>4. Range(jobs') = Range(jobs) \cup {row}
      BY <1>1, <3>2, <3>3, AppendedRange
    <3> QED
      BY <1>1, <3>2, <3>3, <3>4 DEF QueueNumbers
  <2> QED
    BY <2>1, <2>2
<1>4. ASSUME NEW s \in Sources, DeleteRecord(s) PROVE QueueNumbers'
  <2>1. /\ jobs' = Without(jobs, {j \in Range(jobs) : j.source = s})
        /\ UNCHANGED <<lastJob, lease>>
    BY <1>4 DEF DeleteRecord
  <2>2. Range(jobs') \subseteq Range(jobs)
    BY <1>1, <2>1, WithoutRange
  <2> QED
    BY <2>1, <2>2 DEF QueueNumbers
<1>5. ASSUME NEW i \in Indexers, MarkIndexed(i) \/ JobFails(i) PROVE QueueNumbers'
  <2>1. PICK j : j = Head(indexer[i].batch)
    OBVIOUS
  <2>2. j \in JobRows
    BY <1>5, <2>1 DEF MarkIndexed, JobFails, QueueInv, IndexShape, IndexerStates, Midway
  <2>3. PICK status \in {"pending", "failed", "indexed"} : jobs' = Touch(j, status)
    BY <1>5, <2>1 DEF MarkIndexed, JobFails, Failed
  <2>4. UNCHANGED <<lastJob, lease>>
    BY <1>5 DEF MarkIndexed, JobFails
  <2>5. [j EXCEPT !.status = status].id = j.id
    BY <2>2 DEF JobRows
  <2>6. Range(jobs') = IF \E r \in Range(jobs) : r.id = j.id
                       THEN {r \in Range(jobs) : r.id # j.id} \cup {[j EXCEPT !.status = status]}
                       ELSE Range(jobs)
    BY <1>1, <2>2, <2>3, TouchRows
  <2>7. \A r \in Range(jobs') : r.id >= 1
    BY <2>5, <2>6 DEF QueueNumbers
  <2> QED
    BY <2>4, <2>7 DEF QueueNumbers
<1>6. ASSUME NEW i \in Indexers, TakeLease(i) \/ Release(i) PROVE QueueNumbers'
  BY <1>6 DEF TakeLease, Release, QueueNumbers
<1>7. CASE LeaseExpires
  BY <1>7 DEF LeaseExpires, QueueNumbers
<1>8. CASE UNCHANGED indexVars
  BY <1>2, <1>8 DEF indexVars
<1>9. CASE \E n \in Namespaces : Configure(n)
  BY <1>2, <1>9 DEF Configure
<1>10. ASSUME NEW i \in Indexers,
              \/ \E rebuild \in BOOLEAN : LookForLease(i, rebuild)
              \/ \E scope \in Scopes \cup {Sources} : TakeBatch(i, scope)
              \/ ReadSource(i) \/ DropChunks(i) \/ WriteChunks(i) \/ Confirm(i) \/ Crash(i)
       PROVE  QueueNumbers'
  BY <1>2, <1>10 DEF LookForLease, TakeBatch, ReadSource, DropChunks, WriteChunks, Confirm, Crash
<1> QED
  BY <1>3, <1>4, <1>5, <1>6, <1>7, <1>8, <1>9, <1>10 DEF IndexNext

LEMMA QueueIsTyped == QueueInv /\ QueueNumbers => IndexTypeOK
<1> SUFFICES ASSUME QueueInv, QueueNumbers PROVE IndexTypeOK
  OBVIOUS
<1>1. /\ content \in [Sources -> Contents \cup {None}]
      /\ chunks \in [Namespaces -> [Sources -> SUBSET [hash : Contents, text : Contents]]]
      /\ active \in Namespaces /\ confirmed \in Namespaces \cup {None}
      /\ excused \subseteq Sources /\ lease \in Indexers \cup {None}
  BY DEF QueueInv, IndexShape, Chunks, QueueNumbers
<1>2. ASSUME NEW k \in DOMAIN jobs
      PROVE  jobs[k] \in [id : 1..MaxJobs, source : Sources, hash : Contents,
                          status : {"pending", "failed", "indexed"}]
  <2>1. jobs[k] \in Range(jobs)
    BY DEF Range
  <2>2. jobs[k] \in JobRows
    BY DEF QueueInv, IndexShape
  <2>3. jobs[k].id <= lastJob /\ jobs[k].id >= 1 /\ lastJob \in 0..MaxJobs
    BY <2>1 DEF QueueInv, JobIds, QueueNumbers
  <2>4. jobs[k].id \in 1..MaxJobs
    BY <2>2, <2>3, IndexAssumption DEF JobRows
  <2> QED
    BY <2>2, <2>4 DEF JobRows
<1> QED
  BY <1>1, <1>2 DEF IndexTypeOK

\* The jobs, the chunks and the lease keep their form: a job has an id, a
\* source and a hash of its own, whatever indexer marks, fails or loses it.
THEOREM IndexTypesHold == IndexSpec => []IndexTypeOK
<1>1. IndexInit => QueueInv /\ QueueNumbers
  BY QueueInit, NumbersStart
<1>2. QueueInv /\ QueueNumbers /\ [IndexNext]_indexVars => (QueueInv /\ QueueNumbers)'
  BY QueueSteps, NumbersStep
<1>3. QueueInv /\ QueueNumbers => IndexTypeOK
  BY QueueIsTyped
<1> QED
  BY <1>1, <1>2, <1>3, PTL DEF IndexSpec

-----------------------------------------------------------------------------
(***************************************************************************)
(* Merging one branch into another.                                        *)
(***************************************************************************)

Phases == {"idle", "progress", "snapshots", "records", "purge", "sync_progress",
           "sync_snapshots", "sync_records", "validate"}
Decision == [auto : {"none", "take_source", "union"}, allowed : SUBSET Resolutions,
             resolution : Resolutions \cup {"none"}]
MergeRow == [status : {"absent", "pending", "applied"}, hasBase : BOOLEAN,
             items : [Sections -> Decision], seen : [Branches -> Memory],
             touched : BOOLEAN, starts : Nat]
MergeCommand == [pc : Phases, id : Prints, merged : Memory, kept : Memory, undo : BOOLEAN]

MergeShape ==
  /\ projected \in [Branches -> Memory] /\ store \in Memory
  /\ merges \in [MergeIds -> MergeRow]
  /\ merging \in MergeCommand
  /\ died \in {"none", "files", "rows"}
  /\ merging.pc # "idle" => merging.id \in MergeIds /\ merges[merging.id].status # "absent"
  /\ merging.pc \in {"progress", "snapshots", "records", "validate"} => ~merging.undo

\* How far the files and the rows of the target have come.
RowsMatch ==
  LET t == projected["target"]
  IN  /\ merging.pc \in {"idle", "progress"} /\ died = "none" => store = t
      /\ merging.pc = "sync_progress" => store = EmptyMemory
      /\ merging.pc = "sync_snapshots" =>
           store = [EmptyMemory EXCEPT !.step = t.step, !.current = t.current]
      /\ merging.pc = "sync_records" => store = [t EXCEPT !.record = <<>>]
      /\ merging.pc = "validate" => store = t

FilesMatch ==
  LET t == projected["target"]
      m == merging.merged
  IN  /\ merging.pc \notin {"idle", "progress"} /\ ~merging.undo =>
           t.step = m.step /\ t.current = m.current
      /\ merging.pc \notin {"idle", "progress", "snapshots"} /\ ~merging.undo =>
           t.snapshot = m.snapshot
      /\ merging.pc \notin {"idle", "progress", "snapshots", "records"} /\ ~merging.undo =>
           t.record = m.record

\* A proposal keeps what the comparison decided, until a resolution is added.
ItemsFollow(m) ==
  \A x \in Sections :
    /\ m.items[x].auto = Compare(m.seen, m.hasBase)[x].auto
    /\ m.items[x].allowed = Compare(m.seen, m.hasBase)[x].allowed
    /\ m.items[x].resolution \in m.items[x].allowed \cup {"none"}

Begun(p) == merges[p].status = "applied" \/ (merging.pc # "idle" /\ merging.id = p)

Decisions ==
  \A p \in MergeIds : merges[p].status # "absent" =>
    ItemsFollow(merges[p]) /\ (Begun(p) => Unresolved(merges[p]) = {})

\* What of a step the merge decides; being planned also follows from the rest.
Work(step) == <<step.completed, step.status, step.links>>

Decisive(m, section) == m.items[section].resolution = "none"
Takes(m, section) == m.items[section].auto = "take_source"
Unites(m, section) == m.items[section].auto = "union"

SnapshotOf(m) == IF Takes(m, "snapshot") THEN m.seen["source"].snapshot ELSE m.seen["target"].snapshot
CurrentOf(m) == IF Takes(m, "current") THEN m.seen["source"].current ELSE m.seen["target"].current
WorkOf(m) == IF Takes(m, "step") THEN Work(m.seen["source"].step)
             ELSE IF Unites(m, "step")
                  THEN Work(UnionStep(m.seen["source"].step, m.seen["target"].step))
             ELSE Work(m.seen["target"].step)
HoldsRecord(m, rows) ==
  \A e \in Found(m.seen["source"].record, Original) :
    \E n \in DOMAIN rows : e \subseteq rows[n].evidence

\* A memory of the target in which each section is as compared or as decided ...
Good(m, memory) ==
  /\ Decisive(m, "snapshot") => memory.snapshot \in {m.seen["target"].snapshot, SnapshotOf(m)}
  /\ Decisive(m, "current") => memory.current \in {m.seen["target"].current, CurrentOf(m)}
  /\ Decisive(m, "step") => Work(memory.step) \in {Work(m.seen["target"].step), WorkOf(m)}
  /\ Decisive(m, "record") /\ ~Takes(m, "record") => memory.record = m.seen["target"].record

\* ... and one in which each is as decided.
Done(m, memory) ==
  /\ Decisive(m, "snapshot") => memory.snapshot = SnapshotOf(m)
  /\ Decisive(m, "current") => memory.current = CurrentOf(m)
  /\ Decisive(m, "step") => Work(memory.step) = WorkOf(m)
  /\ Decisive(m, "record") /\ ~Takes(m, "record") => memory.record = m.seen["target"].record
  /\ Decisive(m, "record") /\ Takes(m, "record") => HoldsRecord(m, memory.record)

Fits(m, memory) == Good(m, memory) /\ (m.status = "applied" => Done(m, memory))

\* The rows count unless they are being filled or were left half filled.
RowsCount == died # "rows" /\ merging.pc \in {"idle", "progress", "snapshots", "records", "purge"}

Unspoilt(p) ==
  LET m == merges[p]
  IN  m.status # "absent" /\ ~m.touched =>
        /\ projected["source"] = m.seen["source"] /\ projected["base"] = m.seen["base"]
        /\ Fits(m, projected["target"])
        /\ RowsCount => Fits(m, store)
        /\ merging.pc # "idle" => /\ merging.id = p
                                  /\ Fits(m, merging.kept) /\ Done(m, merging.merged)

MergeInv == /\ MergeShape /\ RowsMatch /\ FilesMatch /\ Decisions
            /\ \A p \in MergeIds : Unspoilt(p)

Sound(memory) == memory.step.completed \/ memory.current = Step => memory.step.planned
AllSound == /\ Sound(projected["target"]) /\ Sound(store)
            /\ merging.pc # "idle" => Sound(merging.merged) /\ Sound(merging.kept)

LEMMA EmptyIsMemory == /\ EmptyMemory \in Memory /\ EmptyStep \in StepState
                       /\ EmptyMemory.step = EmptyStep /\ ~EmptyStep.completed
                       /\ EmptyMemory.current = NoStep
  BY DEF EmptyMemory, EmptyStep, Memory, StepState

LEMMA FoundRows ==
  ASSUME NEW rows \in Seq(Row), NEW print
  PROVE  /\ Found(rows, print) \subseteq SUBSET Evidence
         /\ \A e \in Found(rows, print) : \E n \in DOMAIN rows : rows[n].evidence = e
         /\ \A e, d \in Found(rows, print) : e = d
         /\ (\E n \in DOMAIN rows : rows[n].print = print) => Found(rows, print) # {}
<1> DEFINE at == {n \in DOMAIN rows : rows[n].print = print}
           last == CHOOSE n \in at : \A m \in at : m <= n
<1>1. Found(rows, print) = IF at = {} THEN {} ELSE {rows[last].evidence}
  BY DEF Found
<1>2. at # {} => last \in at
  <2> SUFFICES ASSUME at # {} PROVE \E n \in at : \A m \in at : m <= n
    OBVIOUS
  <2> DEFINE left == {Len(rows) - n : n \in at}
  <2>1. Len(rows) \in Nat /\ at \subseteq 1..Len(rows)
    OBVIOUS
  <2>2. left \in SUBSET Nat /\ left # {}
    BY <2>1
  <2> HIDE DEF left, at
  <2>3. PICK k \in left : \A j \in left : k <= j
    BY <2>2, SmallestIn
  <2>4. PICK n \in at : k = Len(rows) - n
    BY <2>3 DEF left
  <2>5. \A m \in at : Len(rows) - n <= Len(rows) - m
    BY <2>3, <2>4 DEF left
  <2> QED
    BY <2>1, <2>4, <2>5
<1>3. at # {} => last \in DOMAIN rows /\ rows[last] \in Row
  <2>1. \A n \in DOMAIN rows : rows[n] \in Row
    OBVIOUS
  <2> QED
    BY <1>2, <2>1
<1> HIDE DEF last
<1>4. at # {} => rows[last].evidence \in SUBSET Evidence
  BY <1>3 DEF Row
<1> QED
  BY <1>1, <1>3, <1>4

\* A merged record is among the rows, whatever it replaces.
LEMMA MergedRowIsThere ==
  ASSUME NEW rows \in Seq(Row), NEW print, NEW row \in Row
  PROVE  /\ MergeRows(rows, print, row) \in Seq(Row)
         /\ \E n \in DOMAIN MergeRows(rows, print, row) : MergeRows(rows, print, row)[n] = row
<1> DEFINE same  == {r \in Range(rows) : r.print = print}
           first == CHOOSE n \in DOMAIN rows : rows[n].print = print /\ \A m \in 1..(n - 1) : rows[m].print # print
           before == Without(SubSeq(rows, 1, first - 1), same)
           after == Without(SubSeq(rows, first + 1, Len(rows)), same)
<1>1. CASE Found(rows, print) = {}
  <2>1. MergeRows(rows, print, row) = Append(rows, row)
    BY <1>1 DEF MergeRows
  <2>2. /\ Append(rows, row) \in Seq(Row) /\ DOMAIN Append(rows, row) = 1..(Len(rows) + 1)
        /\ Append(rows, row)[Len(rows) + 1] = row /\ Len(rows) \in Nat
    OBVIOUS
  <2> QED
    BY <2>1, <2>2
<1>2. CASE Found(rows, print) # {}
  <2>1. MergeRows(rows, print, row) = before \o <<row>> \o after
    BY <1>2 DEF MergeRows
  <2>2. first \in DOMAIN rows
    <3> DEFINE at == {n \in DOMAIN rows : rows[n].print = print}
    <3>1. at # {} /\ at \in SUBSET Nat /\ at \subseteq 1..Len(rows)
      BY <1>2 DEF Found
    <3>2. PICK n \in at : \A m \in at : n <= m
      BY <3>1, SmallestIn
    <3>3. n \in DOMAIN rows /\ rows[n].print = print
      BY <3>2
    <3>4. \A m \in 1..(n - 1) : rows[m].print # print
      <4> SUFFICES ASSUME NEW m \in 1..(n - 1), rows[m].print = print PROVE FALSE
        OBVIOUS
      <4>1. n \in 1..Len(rows) /\ m \in 1..Len(rows) /\ ~(n <= m) /\ DOMAIN rows = 1..Len(rows)
        BY <3>1, <3>2
      <4> QED
        BY <3>2, <4>1
    <3> QED
      BY <3>3, <3>4
  <2> HIDE DEF first
  <2>3. /\ SubSeq(rows, 1, first - 1) \in Seq(Row)
        /\ SubSeq(rows, first + 1, Len(rows)) \in Seq(Row)
    BY <2>2
  <2>4. before \in Seq(Row) /\ after \in Seq(Row)
    BY <2>3, WithoutRange
  <2> HIDE DEF before, after
  <2>5. /\ before \o <<row>> \in Seq(Row) /\ Len(before \o <<row>>) = Len(before) + 1
        /\ (before \o <<row>>)[Len(before) + 1] = row /\ Len(before) \in Nat
    BY <2>4
  <2>6. PICK part \in Seq(Row) : part = before \o <<row>>
    BY <2>5
  <2>7. /\ part \o after \in Seq(Row) /\ Len(part \o after) = Len(part) + Len(after)
        /\ (part \o after)[Len(before) + 1] = part[Len(before) + 1]
        /\ Len(after) \in Nat /\ Len(part) = Len(before) + 1
    BY <2>4, <2>5, <2>6
  <2>8. Len(before) + 1 \in DOMAIN (part \o after)
    BY <2>5, <2>7
  <2> QED
    BY <2>1, <2>5, <2>6, <2>7, <2>8
<1> QED
  BY <1>1, <1>2

-----------------------------------------------------------------------------
\* What the comparison of a section can say.
IsDecision(d) == /\ d \in Decision /\ d.resolution = "none"
                 /\ d.auto # "none" => d.allowed = {}

LEMMA DecisionsAre ==
  /\ IsDecision(NoDecision) /\ NoDecision.auto = "none" /\ NoDecision.allowed = {}
  /\ \A op \in {"take_source", "union"} :
       IsDecision(Automatic(op)) /\ Automatic(op).auto = op
  /\ \A allowed \in SUBSET Resolutions :
       IsDecision(Conflict(allowed)) /\ Conflict(allowed).auto = "none"
         /\ Conflict(allowed).allowed = allowed
  /\ \A hasBase \in BOOLEAN :
       BaseResolutions(hasBase) \in SUBSET Resolutions /\ BaseResolutions(hasBase) # {}
  /\ \A hasBase \in BOOLEAN, more \in SUBSET {"union"} :
       /\ BaseResolutions(hasBase) \cup more \in SUBSET Resolutions
       /\ BaseResolutions(hasBase) \cup more # {}
  BY DEF IsDecision, NoDecision, Automatic, Conflict, Decision, BaseResolutions, Resolutions

LEMMA SnapshotsCompare ==
  ASSUME NEW s, NEW t, NEW b, NEW hasBase \in BOOLEAN, NEW d,
         d = CompareSnapshot(s, t, b, hasBase)
  PROVE  /\ IsDecision(d) /\ d.auto \in {"none", "take_source"}
         /\ d.allowed = {} /\ d.auto = "none" => s = 0 \/ s = t \/ (hasBase /\ s = b)
         /\ d.auto = "take_source" => IF hasBase THEN t = b ELSE t = 0
<1>1. CASE s = 0 \/ s = t \/ (hasBase /\ s = b)
  <2>1. d = NoDecision
    BY <1>1 DEF CompareSnapshot
  <2> QED
    BY <1>1, <2>1, DecisionsAre
<1>2. CASE ~(s = 0 \/ s = t \/ (hasBase /\ s = b)) /\ IF hasBase THEN t = b ELSE t = 0
  <2>1. d = Automatic("take_source")
    BY <1>2 DEF CompareSnapshot
  <2> QED
    BY <1>2, <2>1, DecisionsAre
<1>3. CASE ~(s = 0 \/ s = t \/ (hasBase /\ s = b)) /\ ~(IF hasBase THEN t = b ELSE t = 0)
  <2>1. d = Conflict(BaseResolutions(hasBase))
    BY <1>3 DEF CompareSnapshot
  <2> QED
    BY <2>1, DecisionsAre
<1> QED
  BY <1>1, <1>2, <1>3

LEMMA CurrentsCompare ==
  ASSUME NEW s, NEW t, NEW b, NEW hasBase \in BOOLEAN, NEW d,
         d = CompareCurrent(s, t, b, hasBase)
  PROVE  /\ IsDecision(d) /\ d.auto \in {"none", "take_source"}
         /\ d.allowed = {} /\ d.auto = "none" => s = NoStep \/ s = t
         /\ d.auto = "take_source" => IF hasBase THEN t = b ELSE t = NoStep
<1>1. CASE s = NoStep \/ s = t
  <2>1. d = NoDecision
    BY <1>1 DEF CompareCurrent
  <2> QED
    BY <1>1, <2>1, DecisionsAre
<1>2. CASE ~(s = NoStep \/ s = t) /\ IF hasBase THEN s # b /\ t = b ELSE t = NoStep
  <2>1. d = Automatic("take_source")
    BY <1>2 DEF CompareCurrent
  <2> QED
    BY <1>2, <2>1, DecisionsAre
<1>3. CASE ~(s = NoStep \/ s = t) /\ ~(IF hasBase THEN s # b /\ t = b ELSE t = NoStep)
  <2>1. PICK more \in SUBSET {"union"} : more = IF t = NoStep THEN {"union"} ELSE {}
    OBVIOUS
  <2>2. d = Conflict(BaseResolutions(hasBase) \cup more)
    BY <1>3, <2>1 DEF CompareCurrent
  <2> QED
    BY <2>2, DecisionsAre
<1> QED
  BY <1>1, <1>2, <1>3

LEMMA StepsCompare ==
  ASSUME NEW s, NEW t, NEW b, NEW hasBase \in BOOLEAN, NEW d,
         d = CompareStep(s, t, b, hasBase)
  PROVE  /\ IsDecision(d)
         /\ d.allowed = {} /\ d.auto = "none" => s = EmptyStep \/ s = t \/ (hasBase /\ s = b)
         /\ d.auto = "take_source" => IF hasBase THEN t = b ELSE t = EmptyStep
<1> DEFINE same == s = EmptyStep \/ s = t \/ (hasBase /\ s = b)
           taken == IF hasBase THEN t = b ELSE t = EmptyStep
           united == hasBase /\ t # b /\ UnionSafe(s, t)
<1>1. CASE same
  <2>1. d = NoDecision
    BY <1>1 DEF CompareStep
  <2> QED
    BY <1>1, <2>1, DecisionsAre
<1>2. CASE ~same /\ taken
  <2>1. d = Automatic("take_source")
    BY <1>2 DEF CompareStep
  <2> QED
    BY <1>2, <2>1, DecisionsAre
<1>3. CASE ~same /\ ~taken /\ united
  <2>1. d = Automatic("union")
    BY <1>3 DEF CompareStep
  <2> QED
    BY <2>1, DecisionsAre
<1>4. CASE ~same /\ ~taken /\ ~united
  <2>1. PICK more \in SUBSET {"union"} : more = IF UnionSafe(s, t) THEN {"union"} ELSE {}
    OBVIOUS
  <2>2. d = Conflict(BaseResolutions(hasBase) \cup more)
    BY <1>4, <2>1 DEF CompareStep
  <2> QED
    BY <2>2, DecisionsAre
<1> QED
  BY <1>1, <1>2, <1>3, <1>4

LEMMA RecordsCompare ==
  ASSUME NEW s, NEW t, NEW b, NEW hasBase \in BOOLEAN, NEW d,
         d = CompareRecord(s, t, b, hasBase)
  PROVE  /\ IsDecision(d) /\ d.auto \in {"none", "take_source"}
         /\ d.allowed = {} /\ d.auto = "none" => s = {} \/ s = t \/ (hasBase /\ s = b)
         /\ d.auto = "take_source" => s # {}
<1> DEFINE same == s = {} \/ s = t \/ (t # {} /\ hasBase /\ s = b)
           taken == t = {} \/ (hasBase /\ s # b /\ t = b)
<1>1. CASE same
  <2>1. d = NoDecision
    BY <1>1 DEF CompareRecord
  <2> QED
    BY <1>1, <2>1, DecisionsAre
<1>2. CASE ~same /\ taken
  <2>1. d = Automatic("take_source")
    BY <1>2 DEF CompareRecord
  <2> QED
    BY <1>2, <2>1, DecisionsAre
<1>3. CASE ~same /\ ~taken
  <2>1. PICK more \in SUBSET {"union"} : more = {"union"}
    OBVIOUS
  <2>2. d = Conflict(BaseResolutions(hasBase) \cup more)
    BY <1>3, <2>1 DEF CompareRecord
  <2> QED
    BY <2>2, DecisionsAre
<1> QED
  BY <1>1, <1>2, <1>3

-----------------------------------------------------------------------------
\* What the comparison says, section by section, of what it has seen.
LEMMA Compared ==
  ASSUME NEW f \in [Branches -> Memory], NEW hasBase \in BOOLEAN, NEW b \in Memory,
         b = IF hasBase THEN f["base"] ELSE EmptyMemory
  PROVE  /\ Compare(f, hasBase) \in [Sections -> Decision]
         /\ \A x \in Sections : IsDecision(Compare(f, hasBase)[x])
         /\ Compare(f, hasBase)["snapshot"] =
              CompareSnapshot(f["source"].snapshot, f["target"].snapshot, b.snapshot, hasBase)
         /\ Compare(f, hasBase)["step"] =
              CompareStep(f["source"].step, f["target"].step, b.step, hasBase)
         /\ Compare(f, hasBase)["current"] =
              CompareCurrent(f["source"].current, f["target"].current, b.current, hasBase)
         /\ Compare(f, hasBase)["record"] =
              CompareRecord(Found(f["source"].record, Original), Found(f["target"].record, Original),
                            Found(b.record, Original), hasBase)
<1> DEFINE c == Compare(f, hasBase)
<1>1. /\ c["snapshot"] = CompareSnapshot(f["source"].snapshot, f["target"].snapshot, b.snapshot, hasBase)
      /\ c["step"] = CompareStep(f["source"].step, f["target"].step, b.step, hasBase)
      /\ c["current"] = CompareCurrent(f["source"].current, f["target"].current, b.current, hasBase)
      /\ c["record"] = CompareRecord(Found(f["source"].record, Original), Found(f["target"].record, Original),
                                     Found(b.record, Original), hasBase)
  BY DEF Compare, Sections
<1> DEFINE F(x) ==
             CASE x = "snapshot" -> CompareSnapshot(f["source"].snapshot, f["target"].snapshot, b.snapshot, hasBase)
               [] x = "step" -> CompareStep(f["source"].step, f["target"].step, b.step, hasBase)
               [] x = "current" -> CompareCurrent(f["source"].current, f["target"].current, b.current, hasBase)
               [] x = "record" -> CompareRecord(Found(f["source"].record, Original),
                                                Found(f["target"].record, Original),
                                                Found(b.record, Original), hasBase)
<1>0. c = [x \in Sections |-> F(x)]
  BY DEF Compare
<1> HIDE DEF F
<1>2. c = [x \in Sections |-> c[x]]
  BY <1>0
<1> HIDE DEF c
<1>3. IsDecision(c["snapshot"])
  BY <1>1, SnapshotsCompare
<1>4. IsDecision(c["step"])
  BY <1>1, StepsCompare
<1>5. IsDecision(c["current"])
  BY <1>1, CurrentsCompare
<1>6. IsDecision(c["record"])
  BY <1>1, RecordsCompare
<1>7. \A x \in Sections : IsDecision(c[x])
  BY <1>3, <1>4, <1>5, <1>6 DEF Sections
<1>8. c \in [Sections -> Decision]
  BY <1>2, <1>7 DEF IsDecision
<1> QED
  BY <1>1, <1>7, <1>8 DEF c

LEMMA PickOf ==
  ASSUME NEW choice, NEW s, NEW t, NEW b, NEW union
  PROVE  /\ Pick(choice, s, t, b, union) \in {s, t, b, union}
         /\ choice = "keep_target" => Pick(choice, s, t, b, union) = t
         /\ choice = "take_source" => Pick(choice, s, t, b, union) = s
         /\ choice = "union" => Pick(choice, s, t, b, union) = union
<1>1. CASE choice = "take_source"
  BY <1>1 DEF Pick
<1>2. CASE choice = "take_base"
  BY <1>2 DEF Pick
<1>3. CASE choice = "union"
  BY <1>3 DEF Pick
<1>4. CASE choice \notin {"take_source", "take_base", "union"}
  BY <1>4 DEF Pick
<1> QED
  BY <1>1, <1>2, <1>3, <1>4

LEMMA StepsUnite ==
  ASSUME NEW s \in StepState, NEW t \in StepState
  PROVE  UnionStep(s, t) \in StepState
<1>1. /\ s.planned \in BOOLEAN /\ t.planned \in BOOLEAN /\ s.completed \in BOOLEAN
      /\ t.completed \in BOOLEAN /\ s.links \in SUBSET Links /\ t.links \in SUBSET Links
      /\ s.status \in Versions \cup {0} /\ t.status \in Versions \cup {0}
  BY DEF StepState
<1>2. /\ (t.planned \/ s.planned) \in BOOLEAN /\ (t.completed \/ s.completed) \in BOOLEAN
      /\ t.links \cup s.links \in SUBSET Links
      /\ (IF t.status # 0 THEN t.status ELSE s.status) \in Versions \cup {0}
  BY <1>1
<1> QED
  BY <1>2 DEF UnionStep, StepState

LEMMA StepFinalizes ==
  ASSUME NEW s \in StepState, NEW current
  PROVE  /\ FinalizeStep(s, current) \in StepState
         /\ Work(FinalizeStep(s, current)) = Work(s)
         /\ s.completed \/ current = Step => FinalizeStep(s, current).planned
         /\ FinalizeStep(s, current).completed = s.completed
<1>1. (s.planned \/ s.completed \/ current = Step) \in BOOLEAN
  OBVIOUS
<1>2. FinalizeStep(s, current) = [s EXCEPT !.planned = s.planned \/ s.completed \/ current = Step]
  BY DEF FinalizeStep
<1> QED
  BY <1>1, <1>2 DEF StepState, Work

LEMMA RecordsMerge ==
  ASSUME NEW p \in MergeIds, NEW choice, NEW s \in Seq(Row), NEW t \in Seq(Row), NEW b \in Seq(Row)
  PROVE  /\ MergedRecords(p, choice, s, t, b) \in Seq(Row)
         /\ choice = "keep_target" => MergedRecords(p, choice, s, t, b) = t
         /\ choice = "take_source" =>
              \A e \in Found(s, Original) :
                \E n \in DOMAIN MergedRecords(p, choice, s, t, b) :
                  e \subseteq MergedRecords(p, choice, s, t, b)[n].evidence
<1> DEFINE src == Found(s, Original)
           tgt == Found(t, Original)
           both == IF src = {} THEN tgt ELSE {UNION (src \cup tgt)}
           chosen == Pick(choice, src, {}, Found(b, Original), both)
           print == IF choice = "union" /\ src = {} THEN Original ELSE p
           row == [print |-> print, evidence |-> CHOOSE e \in chosen : TRUE]
           result == MergedRecords(p, choice, s, t, b)
<1>1. result = IF chosen = {} THEN t ELSE MergeRows(t, Original, row)
  BY DEF MergedRecords
<1>2. /\ src \in SUBSET (SUBSET Evidence) /\ tgt \in SUBSET (SUBSET Evidence)
      /\ Found(b, Original) \in SUBSET (SUBSET Evidence)
      /\ \A e, d \in src : e = d
  BY FoundRows
<1> HIDE DEF src, tgt
<1>3. both \in SUBSET (SUBSET Evidence) /\ {} \in SUBSET (SUBSET Evidence)
  BY <1>2
<1> HIDE DEF both
<1>4. /\ chosen \in {src, {}, Found(b, Original), both}
      /\ choice = "keep_target" => chosen = {}
      /\ choice = "take_source" => chosen = src
  BY PickOf
<1>5. choice = "keep_target" => chosen = {}
  BY <1>4
<1>6. choice = "take_source" => chosen = src
  BY <1>4
<1> HIDE DEF chosen
<1>7. print \in Prints
  BY DEF Prints
<1> HIDE DEF print
<1>11. chosen \in SUBSET (SUBSET Evidence)
  BY <1>2, <1>3, <1>4
<1>8. chosen # {} => /\ (CHOOSE e \in chosen : TRUE) \in chosen
                     /\ row \in Row /\ row.evidence = CHOOSE e \in chosen : TRUE
  BY <1>7, <1>11 DEF Row
<1> HIDE DEF row
<1>9. CASE chosen = {}
  BY <1>1, <1>6, <1>9 DEF src
<1>10. CASE chosen # {}
  <2>1. result \in Seq(Row) /\ \E n \in DOMAIN result : result[n] = row
    BY <1>1, <1>8, <1>10, MergedRowIsThere
  <2>2. choice = "take_source" => \A e \in src : e = row.evidence
    BY <1>2, <1>6, <1>8, <1>10
  <2> HIDE DEF result
  <2>3. choice = "take_source" => \A e \in src : \E n \in DOMAIN result : e \subseteq result[n].evidence
    BY <2>1, <2>2
  <2> QED
    BY <1>5, <1>10, <2>1, <2>3 DEF src, result
<1> QED
  BY <1>9, <1>10

LEMMA DecidedOf ==
  ASSUME NEW item \in Decision, item.resolution = "none"
  PROVE  /\ item.auto = "none" => Decided(item) = "keep_target"
         /\ item.auto # "none" => Decided(item) = item.auto
<1>1. CASE item.auto = "none"
  BY <1>1 DEF Decided
<1>2. CASE item.auto # "none"
  BY <1>2 DEF Decided
<1> QED
  BY <1>1, <1>2

\* What a merge computes is a sound memory, and what the proposal decided.
LEMMA MergedIsDecided ==
  ASSUME NEW p \in MergeIds, NEW f \in [Branches -> Memory], NEW m \in MergeRow
  PROVE  /\ Merged(p, f, m) \in Memory /\ Sound(Merged(p, f, m))
         /\ ItemsFollow(m) /\ f["source"] = m.seen["source"] /\ Good(m, f["target"])
              => Done(m, Merged(p, f, m))
<1>0. PICK s, t, b, ss, st, sb, merged :
        /\ s = f["source"] /\ t = f["target"] /\ b = IF m.hasBase THEN f["base"] ELSE EmptyMemory
        /\ ss = m.seen["source"] /\ st = m.seen["target"]
        /\ sb = IF m.hasBase THEN m.seen["base"].step ELSE EmptyStep
        /\ merged = Merged(p, f, m)
  OBVIOUS
<1> DEFINE choice(x) == Decided(m.items[x])
<1>1. /\ s \in Memory /\ t \in Memory /\ b \in Memory /\ ss \in Memory /\ st \in Memory
      /\ sb \in StepState /\ m.hasBase \in BOOLEAN /\ m.seen \in [Branches -> Memory]
      /\ \A x \in Sections : m.items[x] \in Decision
  <2>1. /\ m.seen \in [Branches -> Memory] /\ m.items \in [Sections -> Decision]
        /\ m.hasBase \in BOOLEAN
    BY DEF MergeRow
  <2>2. \A y \in Memory : y.step \in StepState
    BY DEF Memory
  <2> QED
    BY <1>0, <2>1, <2>2, EmptyIsMemory DEF Branches
<1> DEFINE current == Pick(choice("current"), s.current, t.current, b.current,
                           IF t.current # NoStep THEN t.current ELSE s.current)
           step == Pick(choice("step"), ss.step, t.step, sb, UnionStep(ss.step, st.step))
           snapshot == Pick(choice("snapshot"), s.snapshot, t.snapshot, b.snapshot, t.snapshot)
           record == MergedRecords(p, choice("record"), s.record, t.record, b.record)
<1>2. merged = [snapshot |-> snapshot, step |-> FinalizeStep(step, current),
                current |-> current, record |-> record]
  BY <1>0 DEF Merged, Sections
<1>3. \A y \in Memory : /\ y.snapshot \in Versions \cup {0} /\ y.step \in StepState
                        /\ y.current \in {Step, NoStep, OtherStep} /\ y.record \in Seq(Row)
  BY DEF Memory
<1>4. snapshot \in Versions \cup {0}
  <2>1. snapshot \in {s.snapshot, t.snapshot, b.snapshot}
    BY PickOf
  <2> QED
    BY <1>1, <1>3, <2>1
<1>5. current \in {Step, NoStep, OtherStep}
  <2>1. current \in {s.current, t.current, b.current}
    BY PickOf
  <2> QED
    BY <1>1, <1>3, <2>1
<1>6. step \in StepState
  <2>1. step \in {ss.step, t.step, sb, UnionStep(ss.step, st.step)}
    BY PickOf
  <2>2. UnionStep(ss.step, st.step) \in StepState
    BY <1>1, <1>3, StepsUnite
  <2> QED
    BY <1>1, <1>3, <2>1, <2>2
<1>7. /\ record \in Seq(Row)
      /\ choice("record") = "keep_target" => record = t.record
      /\ choice("record") = "take_source" =>
           \A e \in Found(s.record, Original) : \E n \in DOMAIN record : e \subseteq record[n].evidence
  BY <1>1, <1>3, RecordsMerge
<1>8. /\ choice("snapshot") = "keep_target" => snapshot = t.snapshot
      /\ choice("snapshot") = "take_source" => snapshot = s.snapshot
  BY PickOf
<1>9. /\ choice("current") = "keep_target" => current = t.current
      /\ choice("current") = "take_source" => current = s.current
  BY PickOf
<1>10. /\ choice("step") = "keep_target" => step = t.step
       /\ choice("step") = "take_source" => step = ss.step
       /\ choice("step") = "union" => step = UnionStep(ss.step, st.step)
  BY PickOf
<1> HIDE DEF current, step, snapshot, record
<1>11. /\ FinalizeStep(step, current) \in StepState
       /\ Work(FinalizeStep(step, current)) = Work(step)
       /\ step.completed \/ current = Step => FinalizeStep(step, current).planned
       /\ FinalizeStep(step, current).completed = step.completed
  BY <1>6, StepFinalizes
<1>12. merged \in Memory /\ Sound(merged)
  BY <1>2, <1>4, <1>5, <1>7, <1>11 DEF Memory, Sound
<1>13. /\ merged.snapshot = snapshot /\ merged.current = current /\ merged.record = record
       /\ Work(merged.step) = Work(step)
  BY <1>2, <1>11
<1>14. ASSUME NEW x \in Sections, Decisive(m, x)
       PROVE  /\ m.items[x].auto = "none" => choice(x) = "keep_target"
              /\ m.items[x].auto # "none" => choice(x) = m.items[x].auto
  BY <1>1, <1>14, DecidedOf DEF Decisive
<1> HIDE DEF choice
<1>15. ASSUME ItemsFollow(m), s = ss, Good(m, t) PROVE Done(m, merged)
  <2>1. \A x \in Sections : m.items[x].auto \in {"none", "take_source", "union"}
    BY <1>1 DEF Decision
  <2>2. /\ m.items["snapshot"].auto \in {"none", "take_source"}
        /\ m.items["current"].auto \in {"none", "take_source"}
        /\ m.items["record"].auto \in {"none", "take_source"}
    <3>1. PICK c, x : c = Compare(m.seen, m.hasBase)
                      /\ x = IF m.hasBase THEN m.seen["base"] ELSE EmptyMemory
      OBVIOUS
    <3>2. x \in Memory
      BY <1>1, <3>1, EmptyIsMemory DEF Branches
    <3>3. \A y \in Sections : m.items[y].auto = c[y].auto
      BY <1>15, <3>1 DEF ItemsFollow
    <3>4. /\ c["snapshot"] =
               CompareSnapshot(m.seen["source"].snapshot, m.seen["target"].snapshot, x.snapshot, m.hasBase)
          /\ c["current"] =
               CompareCurrent(m.seen["source"].current, m.seen["target"].current, x.current, m.hasBase)
          /\ c["record"] =
               CompareRecord(Found(m.seen["source"].record, Original), Found(m.seen["target"].record, Original),
                             Found(x.record, Original), m.hasBase)
      BY <1>1, <3>1, <3>2, Compared
    <3>5. c["snapshot"].auto \in {"none", "take_source"}
      BY <1>1, <3>4, SnapshotsCompare
    <3>6. c["current"].auto \in {"none", "take_source"}
      BY <1>1, <3>4, CurrentsCompare
    <3>7. c["record"].auto \in {"none", "take_source"}
      BY <1>1, <3>4, RecordsCompare
    <3> QED
      BY <3>3, <3>5, <3>6, <3>7 DEF Sections
  <2>3. Decisive(m, "snapshot") => merged.snapshot = SnapshotOf(m)
    BY <1>0, <1>8, <1>13, <1>14, <1>15, <2>2 DEF Good, SnapshotOf, Takes, Sections
  <2>4. Decisive(m, "current") => merged.current = CurrentOf(m)
    BY <1>0, <1>9, <1>13, <1>14, <1>15, <2>2 DEF Good, CurrentOf, Takes, Sections
  <2>5. Decisive(m, "step") => Work(merged.step) = WorkOf(m)
    BY <1>0, <1>10, <1>13, <1>14, <1>15, <2>1 DEF Good, WorkOf, Takes, Unites, Sections
  <2>6. Decisive(m, "record") =>
          IF Takes(m, "record") THEN HoldsRecord(m, merged.record)
          ELSE merged.record = m.seen["target"].record
    BY <1>0, <1>7, <1>13, <1>14, <1>15, <2>2 DEF Good, HoldsRecord, Takes, Sections
  <2> QED
    BY <2>3, <2>4, <2>5, <2>6 DEF Done
<1> QED
  BY <1>0, <1>12, <1>15

-----------------------------------------------------------------------------
\* Of a proposal, its items and what was seen say what fits it.
LEMMA SameProposal ==
  ASSUME NEW m, NEW n, n.items = m.items, n.seen = m.seen, n.hasBase = m.hasBase
  PROVE  /\ ItemsFollow(m) <=> ItemsFollow(n)
         /\ Unresolved(m) = Unresolved(n)
         /\ \A y : (Good(m, y) <=> Good(n, y)) /\ (Done(m, y) <=> Done(n, y))
  BY DEF ItemsFollow, Unresolved, Good, Done, Decisive, Takes, Unites, SnapshotOf, CurrentOf,
         WorkOf, HoldsRecord

LEMMA DoneFits == ASSUME NEW m, NEW y, Done(m, y) PROVE Fits(m, y)
  BY DEF Done, Good, Fits

\* A memory whose sections come from two that fit, fits.
LEMMA MixFits ==
  ASSUME NEW m, NEW x, NEW y, NEW z, Fits(m, x), Fits(m, y),
         z.snapshot \in {x.snapshot, y.snapshot}, z.step \in {x.step, y.step},
         z.current \in {x.current, y.current}, z.record \in {x.record, y.record}
  PROVE  Fits(m, z)
<1>1. /\ Decisive(m, "snapshot") => /\ z.snapshot \in {m.seen["target"].snapshot, SnapshotOf(m)}
                                    /\ m.status = "applied" => z.snapshot = SnapshotOf(m)
      /\ Decisive(m, "current") => /\ z.current \in {m.seen["target"].current, CurrentOf(m)}
                                   /\ m.status = "applied" => z.current = CurrentOf(m)
      /\ Decisive(m, "step") => /\ Work(z.step) \in {Work(m.seen["target"].step), WorkOf(m)}
                                /\ m.status = "applied" => Work(z.step) = WorkOf(m)
  BY DEF Fits, Good, Done
<1>2. Decisive(m, "record") =>
        /\ ~Takes(m, "record") => z.record = m.seen["target"].record
        /\ Takes(m, "record") /\ m.status = "applied" => HoldsRecord(m, z.record)
  BY DEF Fits, Good, Done
<1> QED
  BY <1>1, <1>2 DEF Fits, Good, Done

LEMMA MergeStarts ==
  ASSUME NEW initial \in SUBSET [Branches -> Memory], MergeInit(initial)
  PROVE  MergeInv
<1>1. /\ projected \in [Branches -> Memory] /\ store = projected["target"]
      /\ merges = [p \in MergeIds |-> NoMerge] /\ merging = NoMerging /\ died = "none"
  BY DEF MergeInit
<1>2. NoMerge \in MergeRow /\ NoMerge.status = "absent"
  <2>1. NoDecision \in Decision
    BY DecisionsAre DEF IsDecision
  <2> QED
    BY <2>1, EmptyIsMemory DEF NoMerge, MergeRow
<1>3. NoMerging \in MergeCommand /\ NoMerging.pc = "idle"
  BY EmptyIsMemory DEF NoMerging, MergeCommand, Phases, Prints
<1>4. MergeShape /\ RowsMatch /\ FilesMatch
  BY <1>1, <1>2, <1>3 DEF MergeShape, RowsMatch, FilesMatch, Branches
<1>5. Decisions /\ \A p \in MergeIds : Unspoilt(p)
  BY <1>1, <1>2 DEF Decisions, Unspoilt
<1> QED
  BY <1>4, <1>5 DEF MergeInv

\* The target and the merge command move; the proposals stay.
LEMMA TargetMoves ==
  ASSUME MergeInv, NEW z \in Memory, projected' = [projected EXCEPT !["target"] = z],
         store' \in Memory, merging' \in MergeCommand, died' \in {"none", "files", "rows"},
         merges' = merges,
         merging'.pc # "idle" => merging.pc # "idle" /\ merging'.id = merging.id,
         merging'.pc \in {"progress", "snapshots", "records", "validate"} => ~merging'.undo,
         \A p \in MergeIds : merges[p].status # "absent" /\ ~merges[p].touched =>
           /\ Fits(merges[p], z)
           /\ RowsCount' => Fits(merges[p], store')
           /\ merging'.pc # "idle" => Fits(merges[p], merging'.kept) /\ Done(merges[p], merging'.merged)
  PROVE  /\ MergeShape' /\ Decisions' /\ \A p \in MergeIds : Unspoilt(p)'
         /\ projected'["target"] = z
<1>1. /\ projected' \in [Branches -> Memory] /\ projected'["target"] = z
      /\ projected'["source"] = projected["source"] /\ projected'["base"] = projected["base"]
  BY DEF MergeInv, MergeShape, Branches
<1>2. MergeShape'
  BY <1>1 DEF MergeInv, MergeShape
<1>3. Decisions'
  <2>1. \A p \in MergeIds : Begun(p)' => Begun(p)
    BY DEF Begun
  <2> QED
    BY <2>1 DEF MergeInv, Decisions
<1>4. ASSUME NEW p \in MergeIds PROVE Unspoilt(p)'
  <2>1. Unspoilt(p) /\ merges'[p] = merges[p]
    BY DEF MergeInv
  <2> QED
    BY <1>1, <2>1 DEF Unspoilt
<1> QED
  BY <1>1, <1>2, <1>3, <1>4

LEMMA WritingKeeps == ASSUME MergeInv, WriteTarget PROVE MergeInv'
<1>0. PICK t, mg, now : t = projected["target"] /\ mg = merging /\ now = mg.merged
  OBVIOUS
<1>1. /\ t \in Memory /\ mg \in MergeCommand /\ now \in Memory /\ ~mg.undo
      /\ mg.pc \in {"progress", "snapshots", "records"}
      /\ UNCHANGED <<store, merges, died>> /\ store \in Memory /\ died \in {"none", "files", "rows"}
  BY <1>0 DEF WriteTarget, MergeInv, MergeShape, MergeCommand, Branches
<1>2. \A p \in MergeIds : merges[p].status # "absent" /\ ~merges[p].touched =>
        /\ Fits(merges[p], t) /\ Fits(merges[p], now) /\ Done(merges[p], now)
        /\ Fits(merges[p], mg.kept)
        /\ died # "rows" => Fits(merges[p], store)
  BY <1>0, <1>1, DoneFits DEF MergeInv, Unspoilt, RowsCount
<1>3. PICK z, pc :
        /\ projected' = [projected EXCEPT !["target"] = z] /\ merging' = [mg EXCEPT !.pc = pc]
        /\ \/ /\ mg.pc = "progress" /\ pc = "snapshots"
              /\ z = [t EXCEPT !.step = now.step, !.current = now.current]
           \/ /\ mg.pc = "snapshots" /\ pc = "records"
              /\ z = [t EXCEPT !.snapshot = now.snapshot]
           \/ /\ mg.pc = "records" /\ pc = "purge"
              /\ z = [t EXCEPT !.record = now.record]
  <2>1. CASE mg.pc = "progress"
    BY <1>0, <2>1 DEF WriteTarget
  <2>2. CASE mg.pc = "snapshots"
    BY <1>0, <2>2 DEF WriteTarget
  <2>3. CASE mg.pc = "records"
    BY <1>0, <2>3 DEF WriteTarget
  <2> QED
    BY <1>1, <2>1, <2>2, <2>3
<1>4. PICK next : next = [mg EXCEPT !.pc = pc]
  OBVIOUS
<1>5. /\ next \in MergeCommand /\ next.pc = pc /\ next.id = mg.id /\ next.merged = now
      /\ next.kept = mg.kept /\ next.undo = mg.undo /\ pc \in {"snapshots", "records", "purge"}
  BY <1>0, <1>1, <1>3, <1>4 DEF MergeCommand, Phases
<1>6. z \in Memory
  BY <1>1, <1>3 DEF Memory
<1>7. /\ z.snapshot = IF pc = "records" THEN now.snapshot ELSE t.snapshot
      /\ z.step = IF pc = "snapshots" THEN now.step ELSE t.step
      /\ z.current = IF pc = "snapshots" THEN now.current ELSE t.current
      /\ z.record = IF pc = "purge" THEN now.record ELSE t.record
  BY <1>1, <1>3 DEF Memory
<1>8. \A p \in MergeIds : merges[p].status # "absent" /\ ~merges[p].touched => Fits(merges[p], z)
  BY <1>2, <1>7, MixFits
<1>9. /\ MergeShape' /\ Decisions' /\ (\A p \in MergeIds : Unspoilt(p)')
      /\ projected'["target"] = z
  <2>1. merging' = next /\ store' = store /\ merges' = merges /\ died' = died
    BY <1>1, <1>3, <1>4
  <2>2. RowsCount' => died # "rows"
    BY <2>1 DEF RowsCount
  <2>3. /\ merging' \in MergeCommand /\ store' \in Memory /\ died' \in {"none", "files", "rows"}
        /\ merging.pc # "idle" /\ merging'.id = merging.id /\ ~merging'.undo
        /\ merging'.kept = mg.kept /\ merging'.merged = now
    BY <1>0, <1>1, <1>5, <2>1
  <2>4. \A p \in MergeIds : merges[p].status # "absent" /\ ~merges[p].touched =>
          /\ Fits(merges[p], z) /\ (RowsCount' => Fits(merges[p], store'))
          /\ Fits(merges[p], merging'.kept) /\ Done(merges[p], merging'.merged)
    BY <1>2, <1>8, <2>1, <2>2, <2>3
  <2> QED
    BY <1>3, <1>6, <2>1, <2>3, <2>4, TargetMoves
<1>10. RowsMatch'
  BY <1>3, <1>4, <1>5 DEF RowsMatch
<1>11. FilesMatch'
  <2>1. /\ mg.pc \notin {"idle", "progress"} => t.step = now.step /\ t.current = now.current
        /\ mg.pc \notin {"idle", "progress", "snapshots"} => t.snapshot = now.snapshot
    BY <1>0, <1>1 DEF MergeInv, FilesMatch
  <2> QED
    BY <1>3, <1>4, <1>5, <1>7, <1>9, <2>1 DEF FilesMatch
<1> QED
  BY <1>9, <1>10, <1>11 DEF MergeInv

LEMMA RowsFill ==
  ASSUME NEW t \in Memory
  PROVE  /\ [EmptyMemory EXCEPT !.step = t.step, !.current = t.current] \in Memory
         /\ [[EmptyMemory EXCEPT !.step = t.step, !.current = t.current] EXCEPT !.snapshot = t.snapshot]
              = [t EXCEPT !.record = <<>>]
         /\ [t EXCEPT !.record = <<>>] \in Memory
         /\ [[t EXCEPT !.record = <<>>] EXCEPT !.record = t.record] = t
<1>1. /\ t = [snapshot |-> t.snapshot, step |-> t.step, current |-> t.current, record |-> t.record]
      /\ t.snapshot \in Versions \cup {0} /\ t.step \in StepState
      /\ t.current \in {Step, NoStep, OtherStep} /\ t.record \in Seq(Row)
  BY DEF Memory
<1>2. EmptyMemory = [snapshot |-> 0, step |-> EmptyStep, current |-> NoStep, record |-> <<>>]
  BY DEF EmptyMemory
<1>3. <<>> \in Seq(Row)
  OBVIOUS
<1>4. PICK part : part = [snapshot |-> 0, step |-> t.step, current |-> t.current, record |-> <<>>]
  OBVIOUS
<1>5. [EmptyMemory EXCEPT !.step = t.step, !.current = t.current] = part
  <2>1. PICK mid : mid = [snapshot |-> 0, step |-> t.step, current |-> NoStep, record |-> <<>>]
    OBVIOUS
  <2>2. [EmptyMemory EXCEPT !.step = t.step] = mid
    BY <1>2, <2>1
  <2>3. [mid EXCEPT !.current = t.current] = part
    BY <1>4, <2>1
  <2> QED
    BY <2>2, <2>3
<1>6. PICK most : most = [snapshot |-> t.snapshot, step |-> t.step, current |-> t.current, record |-> <<>>]
  OBVIOUS
<1>7. [part EXCEPT !.snapshot = t.snapshot] = most
  BY <1>4, <1>6
<1>8. [t EXCEPT !.record = <<>>] = most
  BY <1>1, <1>6
<1>9. [most EXCEPT !.record = t.record] = t
  BY <1>1, <1>6
<1>10. part \in Memory
  BY <1>1, <1>3, <1>4 DEF Memory
<1>11. most \in Memory
  BY <1>1, <1>3, <1>6 DEF Memory
<1> QED
  BY <1>5, <1>7, <1>8, <1>9, <1>10, <1>11

\* The files stay as they are.
LEMMA FilesStay ==
  ASSUME MergeInv, UNCHANGED <<projected, merges>>,
         store' \in Memory, merging' \in MergeCommand, died' \in {"none", "files", "rows"},
         merging'.pc # "idle" => /\ merging.pc # "idle" /\ merging'.id = merging.id
                                 /\ merging'.kept = merging.kept /\ merging'.merged = merging.merged,
         merging'.pc \in {"progress", "snapshots", "records", "validate"} => ~merging'.undo,
         RowsCount' => (RowsCount /\ store' = store) \/ store' = projected["target"]
  PROVE  MergeShape' /\ Decisions' /\ \A p \in MergeIds : Unspoilt(p)'
<1>1. PICK t : t = projected["target"]
  OBVIOUS
<1>2. t \in Memory /\ projected' = [projected EXCEPT !["target"] = t]
  BY <1>1 DEF MergeInv, MergeShape, Branches
<1>3. \A p \in MergeIds : merges[p].status # "absent" /\ ~merges[p].touched =>
        /\ Fits(merges[p], t) /\ (RowsCount => Fits(merges[p], store))
        /\ merging.pc # "idle" => Fits(merges[p], merging.kept) /\ Done(merges[p], merging.merged)
  BY <1>1 DEF MergeInv, Unspoilt
<1>4. \A p \in MergeIds : merges[p].status # "absent" /\ ~merges[p].touched =>
        /\ Fits(merges[p], t) /\ (RowsCount' => Fits(merges[p], store'))
        /\ merging'.pc # "idle" => Fits(merges[p], merging'.kept) /\ Done(merges[p], merging'.merged)
  BY <1>1, <1>3
<1> QED
  BY <1>2, <1>4, TargetMoves

LEMMA PurgingKeeps == ASSUME MergeInv, PurgeTarget PROVE MergeInv'
<1>1. /\ merging.pc = "purge" /\ store' = EmptyMemory /\ merging' = [merging EXCEPT !.pc = "sync_progress"]
      /\ UNCHANGED <<projected, merges, died>>
  BY DEF PurgeTarget
<1>2. merging \in MergeCommand /\ died \in {"none", "files", "rows"}
  BY DEF MergeInv, MergeShape
<1>3. /\ merging' \in MergeCommand /\ merging'.pc = "sync_progress" /\ merging'.id = merging.id
      /\ merging'.kept = merging.kept /\ merging'.merged = merging.merged
      /\ merging'.undo = merging.undo
  BY <1>1, <1>2 DEF MergeCommand, Phases
<1>4. ~RowsCount'
  BY <1>3 DEF RowsCount
<1>5. MergeShape' /\ Decisions' /\ \A p \in MergeIds : Unspoilt(p)'
  BY <1>1, <1>2, <1>3, <1>4, EmptyIsMemory, FilesStay
<1>6. RowsMatch'
  BY <1>1, <1>3 DEF RowsMatch
<1>7. FilesMatch'
  BY <1>1, <1>3 DEF MergeInv, FilesMatch
<1> QED
  BY <1>5, <1>6, <1>7 DEF MergeInv

LEMMA SyncingKeeps == ASSUME MergeInv, SyncTarget PROVE MergeInv'
<1>0. PICK t, mg : t = projected["target"] /\ mg = merging
  OBVIOUS
<1>1. /\ t \in Memory /\ mg \in MergeCommand /\ UNCHANGED <<projected, merges>>
      /\ mg.pc \in {"sync_progress", "sync_snapshots", "sync_records"}
      /\ died \in {"none", "files", "rows"} /\ died' \in {"none", "files", "rows"}
  BY <1>0 DEF SyncTarget, MergeInv, MergeShape, Branches
<1>2. CASE mg.pc = "sync_progress"
  <2>1. /\ store = EmptyMemory /\ store' = [store EXCEPT !.step = t.step, !.current = t.current]
        /\ merging' = [mg EXCEPT !.pc = "sync_snapshots"] /\ died' = died
    BY <1>0, <1>2 DEF SyncTarget, MergeInv, RowsMatch
  <2>2. /\ merging' \in MergeCommand /\ merging'.pc = "sync_snapshots" /\ merging'.id = mg.id
        /\ merging'.kept = mg.kept /\ merging'.merged = mg.merged /\ merging'.undo = mg.undo
    BY <1>1, <2>1 DEF MergeCommand, Phases
  <2>3. ~RowsCount' /\ store' \in Memory
    BY <1>1, <2>1, <2>2, RowsFill DEF RowsCount
  <2>4. MergeShape' /\ Decisions' /\ \A p \in MergeIds : Unspoilt(p)'
    BY <1>0, <1>1, <1>2, <2>2, <2>3, FilesStay
  <2>5. RowsMatch'
    BY <1>0, <1>1, <2>1, <2>2 DEF RowsMatch
  <2>6. FilesMatch'
    BY <1>0, <1>1, <1>2, <2>2 DEF MergeInv, FilesMatch
  <2> QED
    BY <2>4, <2>5, <2>6 DEF MergeInv
<1>3. CASE mg.pc = "sync_snapshots"
  <2>1. /\ store = [EmptyMemory EXCEPT !.step = t.step, !.current = t.current]
        /\ store' = [store EXCEPT !.snapshot = t.snapshot]
        /\ merging' = [mg EXCEPT !.pc = "sync_records"] /\ died' = died
    BY <1>0, <1>3 DEF SyncTarget, MergeInv, RowsMatch
  <2>2. /\ merging' \in MergeCommand /\ merging'.pc = "sync_records" /\ merging'.id = mg.id
        /\ merging'.kept = mg.kept /\ merging'.merged = mg.merged /\ merging'.undo = mg.undo
    BY <1>1, <2>1 DEF MergeCommand, Phases
  <2>3. ~RowsCount' /\ store' = [t EXCEPT !.record = <<>>] /\ store' \in Memory
    BY <1>1, <2>1, <2>2, RowsFill DEF RowsCount
  <2>4. MergeShape' /\ Decisions' /\ \A p \in MergeIds : Unspoilt(p)'
    BY <1>0, <1>1, <1>3, <2>2, <2>3, FilesStay
  <2>5. RowsMatch'
    BY <1>0, <1>1, <2>2, <2>3 DEF RowsMatch
  <2>6. FilesMatch'
    BY <1>0, <1>1, <1>3, <2>2 DEF MergeInv, FilesMatch
  <2> QED
    BY <2>4, <2>5, <2>6 DEF MergeInv
<1>4. CASE mg.pc = "sync_records"
  <2>1. /\ store = [t EXCEPT !.record = <<>>] /\ store' = [store EXCEPT !.record = t.record]
        /\ merging' = IF mg.undo THEN NoMerging ELSE [mg EXCEPT !.pc = "validate"]
    BY <1>0, <1>4 DEF SyncTarget, MergeInv, RowsMatch
  <2>2. store' = t
    BY <1>1, <2>1, RowsFill
  <2>3. \/ merging' = NoMerging
        \/ /\ ~mg.undo /\ merging' = [mg EXCEPT !.pc = "validate"]
    BY <2>1
  <2>4. NoMerging \in MergeCommand /\ NoMerging.pc = "idle"
    BY EmptyIsMemory DEF NoMerging, MergeCommand, Phases, Prints
  <2>5. /\ merging' \in MergeCommand /\ merging'.pc \in {"idle", "validate"}
        /\ merging'.pc # "idle" => /\ merging'.id = mg.id /\ merging'.kept = mg.kept /\ ~mg.undo
                                   /\ merging'.merged = mg.merged /\ ~merging'.undo
    BY <1>1, <2>3, <2>4 DEF MergeCommand, Phases
  <2>6. MergeShape' /\ Decisions' /\ \A p \in MergeIds : Unspoilt(p)'
    BY <1>0, <1>1, <1>4, <2>2, <2>5, FilesStay
  <2>7. RowsMatch'
    BY <1>0, <1>1, <2>2, <2>5 DEF RowsMatch
  <2>8. FilesMatch'
    BY <1>0, <1>1, <1>4, <2>5 DEF MergeInv, FilesMatch
  <2> QED
    BY <2>6, <2>7, <2>8 DEF MergeInv
<1> QED
  BY <1>1, <1>2, <1>3, <1>4

LEMMA RefusingKeeps == ASSUME MergeInv, RefuseMerge PROVE MergeInv'
<1>0. PICK t, mg, pc : /\ t = projected["target"] /\ mg = merging
                       /\ pc = IF mg.pc = "sync_progress" THEN mg.pc ELSE "purge"
  OBVIOUS
<1>1. /\ t \in Memory /\ mg \in MergeCommand /\ mg.pc # "idle"
      /\ projected' = [projected EXCEPT !["target"] = mg.kept]
      /\ merging' = [mg EXCEPT !.pc = pc, !.undo = TRUE]
      /\ UNCHANGED <<store, merges>> /\ died \in {"none", "files", "rows"}
  BY <1>0 DEF RefuseMerge, MergeInv, MergeShape, Branches
<1>2. pc \in Phases /\ pc \in {"purge", "sync_progress"}
  BY <1>0 DEF Phases
<1>3. /\ merging' \in MergeCommand /\ merging'.pc = pc /\ merging'.id = mg.id
      /\ merging'.kept = mg.kept /\ merging'.merged = mg.merged /\ merging'.undo
      /\ mg.kept \in Memory
  BY <1>1, <1>2 DEF MergeCommand
<1>4. /\ died' \in {"none", "files", "rows"}
      /\ \/ died' = "rows" \/ died' = died
         \/ mg.pc = "validate"
      /\ mg.pc \in {"sync_snapshots", "sync_records"} => died' = "rows"
      /\ pc = "sync_progress" => store = EmptyMemory
  <2>1. died' = CASE mg.pc \in {"sync_snapshots", "sync_records"} -> "rows"
                  [] mg.pc = "validate" -> "none"
                  [] OTHER -> died
    BY <1>0 DEF RefuseMerge
  <2>2. pc = "sync_progress" => store = EmptyMemory
    BY <1>0 DEF MergeInv, RowsMatch
  <2> QED
    BY <1>1, <2>1, <2>2
<1>5. ASSUME NEW p \in MergeIds, merges[p].status # "absent", ~merges[p].touched
      PROVE  /\ Fits(merges[p], mg.kept) /\ Done(merges[p], mg.merged)
             /\ RowsCount' => Fits(merges[p], store)
  <2>1. /\ Fits(merges[p], mg.kept) /\ Done(merges[p], mg.merged) /\ Fits(merges[p], t)
        /\ RowsCount => Fits(merges[p], store)
    BY <1>0, <1>1, <1>5 DEF MergeInv, Unspoilt
  <2>2. CASE mg.pc = "validate"
    <3>1. store = t
      BY <1>0, <2>2 DEF MergeInv, RowsMatch
    <3> QED
      BY <2>1, <3>1
  <2>3. CASE mg.pc # "validate"
    <3>1. RowsCount' => died # "rows" /\ mg.pc \in {"progress", "snapshots", "records", "purge"}
      BY <1>0, <1>1, <1>3, <1>4, <2>3 DEF RowsCount, MergeCommand, Phases
    <3> QED
      BY <1>0, <2>1, <3>1 DEF RowsCount
  <2> QED
    BY <2>2, <2>3
<1>6. /\ MergeShape' /\ Decisions' /\ (\A p \in MergeIds : Unspoilt(p)')
      /\ projected'["target"] = mg.kept
  <2>1. store' \in Memory /\ store' = store
    BY <1>1 DEF MergeInv, MergeShape
  <2>2. \A p \in MergeIds : merges[p].status # "absent" /\ ~merges[p].touched =>
        /\ Fits(merges[p], mg.kept) /\ (RowsCount' => Fits(merges[p], store'))
        /\ merging'.pc # "idle" => Fits(merges[p], merging'.kept) /\ Done(merges[p], merging'.merged)
    BY <1>3, <1>5, <2>1
  <2> QED
    BY <1>0, <1>1, <1>2, <1>3, <1>4, <2>1, <2>2, TargetMoves
<1>7. RowsMatch'
  BY <1>1, <1>2, <1>3, <1>4 DEF RowsMatch
<1>8. FilesMatch'
  BY <1>3 DEF FilesMatch
<1> QED
  BY <1>6, <1>7, <1>8 DEF MergeInv

LEMMA CrashingKeeps == ASSUME MergeInv, CrashMerge PROVE MergeInv'
<1>0. PICK t : t = projected["target"]
  OBVIOUS
<1>1. /\ t \in Memory /\ store \in Memory /\ merging \in MergeCommand /\ merging.pc # "idle"
      /\ merging' = NoMerging /\ UNCHANGED <<projected, merges>> /\ died \in {"none", "files", "rows"}
      /\ store' = IF merging.pc = "sync_progress" THEN t ELSE store
  BY <1>0 DEF CrashMerge, MergeInv, MergeShape, Branches
<1>2. NoMerging \in MergeCommand /\ NoMerging.pc = "idle"
  BY EmptyIsMemory DEF NoMerging, MergeCommand, Phases, Prints
<1>3. \/ merging.pc \in {"sync_snapshots", "sync_records"} /\ died' = "rows"
      \/ merging.pc = "sync_progress" /\ died' = "none" /\ store' = t
      \/ merging.pc = "validate" /\ died' = "none" /\ store' = store
      \/ merging.pc = "progress" /\ died' = died /\ store' = store
      \/ /\ merging.pc \in {"snapshots", "records", "purge"} /\ store' = store
         /\ died' = IF died = "rows" THEN "rows" ELSE "files"
  <2>1. CASE merging.pc \in {"sync_snapshots", "sync_records"}
    BY <2>1 DEF CrashMerge
  <2>2. CASE merging.pc = "sync_progress"
    BY <1>1, <2>2 DEF CrashMerge
  <2>3. CASE merging.pc = "validate"
    BY <1>1, <2>3 DEF CrashMerge
  <2>4. CASE merging.pc = "progress"
    BY <1>1, <2>4 DEF CrashMerge
  <2>5. CASE merging.pc \in {"snapshots", "records", "purge"}
    BY <1>1, <2>5 DEF CrashMerge
  <2> QED
    BY <1>1, <2>1, <2>2, <2>3, <2>4, <2>5 DEF MergeCommand, Phases
<1>4. /\ merging.pc = "validate" => store = t
      /\ merging.pc = "progress" /\ died = "none" => store = t
  BY <1>0 DEF MergeInv, RowsMatch
<1>5. /\ store' \in Memory /\ died' \in {"none", "files", "rows"}
      /\ RowsCount' => (RowsCount /\ store' = store) \/ store' = t
      /\ died' = "none" => store' = t
  BY <1>1, <1>3, <1>4 DEF RowsCount
<1>6. MergeShape' /\ Decisions' /\ \A p \in MergeIds : Unspoilt(p)'
  BY <1>0, <1>1, <1>2, <1>5, FilesStay
<1>7. RowsMatch' /\ FilesMatch'
  BY <1>0, <1>1, <1>2, <1>5 DEF RowsMatch, FilesMatch
<1> QED
  BY <1>6, <1>7 DEF MergeInv

\* A row that only differs in being touched.
OnlyTouched(m, n) ==
  /\ n \in MergeRow /\ n.touched /\ n.status = m.status
  /\ n.items = m.items /\ n.seen = m.seen /\ n.hasBase = m.hasBase

\* Touching a proposal changes nothing else of its row.
LEMMA TouchedRow ==
  ASSUME NEW m \in MergeRow
  PROVE  OnlyTouched(m, [m EXCEPT !.touched = TRUE])
BY DEF MergeRow, OnlyTouched

\* Every proposal is touched.
LEMMA AllTouched ==
  ASSUME MergeInv, merges' = TouchMerges(MergeIds), merging.pc = "idle", UNCHANGED merging,
         projected' \in [Branches -> Memory], store' \in Memory, died' \in {"none", "files", "rows"},
         RowsMatch', FilesMatch'
  PROVE  MergeInv'
<1>1. ASSUME NEW p \in MergeIds
      PROVE  /\ merges'[p] = [merges[p] EXCEPT !.touched = TRUE] /\ merges[p] \in MergeRow
  <2>1. merges'[p] = [merges[p] EXCEPT !.touched = TRUE]
    BY DEF TouchMerges
  <2> QED
    BY <2>1 DEF MergeInv, MergeShape
<1>2. \A p \in MergeIds :
        /\ merges'[p] \in MergeRow /\ merges'[p].touched /\ merges'[p].status = merges[p].status
        /\ merges'[p].items = merges[p].items /\ merges'[p].seen = merges[p].seen
        /\ merges'[p].hasBase = merges[p].hasBase
  <2>1. ASSUME NEW p \in MergeIds PROVE OnlyTouched(merges[p], merges'[p])
    BY <1>1, TouchedRow
  <2> QED
    BY <2>1 DEF OnlyTouched
<1>3. merges' \in [MergeIds -> MergeRow]
  <2>1. merges' = [p \in MergeIds |-> merges'[p]]
    BY DEF TouchMerges
  <2> QED
    BY <1>2, <2>1
<1>4. MergeShape'
  BY <1>3 DEF MergeInv, MergeShape
<1>5. Decisions'
  <2> SUFFICES ASSUME NEW p \in MergeIds, merges'[p].status # "absent"
      PROVE  ItemsFollow(merges'[p]) /\ (Begun(p)' => Unresolved(merges'[p]) = {})
    BY DEF Decisions
  <2>1. Begun(p)' => Begun(p)
    BY <1>2 DEF Begun
  <2>2. ItemsFollow(merges[p]) /\ (Begun(p) => Unresolved(merges[p]) = {})
    BY <1>2 DEF MergeInv, Decisions
  <2> QED
    BY <1>2, <2>1, <2>2, SameProposal
<1>6. \A p \in MergeIds : Unspoilt(p)'
  BY <1>2 DEF Unspoilt
<1> QED
  BY <1>4, <1>5, <1>6 DEF MergeInv

LEMMA ReprojectingKeeps == ASSUME MergeInv, Reproject PROVE MergeInv'
<1>1. /\ store \in Memory /\ merging \in MergeCommand /\ merging.pc = "idle" /\ died # "none"
      /\ projected' = [projected EXCEPT !["target"] = store] /\ died' = "none"
      /\ UNCHANGED <<store, merging>> /\ died \in {"files", "rows"}
      /\ merges' = IF died = "rows" THEN TouchMerges(MergeIds) ELSE merges
  BY DEF Reproject, MergeInv, MergeShape
<1>2. /\ projected \in [Branches -> Memory] /\ projected' \in [Branches -> Memory]
      /\ projected'["target"] = store
  BY <1>1 DEF MergeInv, MergeShape, Branches
<1>3. RowsMatch' /\ FilesMatch'
  BY <1>1, <1>2 DEF RowsMatch, FilesMatch
<1>4. CASE died = "rows"
  BY <1>1, <1>2, <1>3, <1>4, AllTouched
<1>5. CASE died = "files"
  <2>1. merges' = merges
    BY <1>1, <1>5
  <2>2. \A p \in MergeIds : merges[p].status # "absent" /\ ~merges[p].touched => Fits(merges[p], store)
    BY <1>1, <1>5 DEF MergeInv, Unspoilt, RowsCount
  <2>3. MergeShape' /\ Decisions' /\ (\A p \in MergeIds : Unspoilt(p)')
    BY <1>1, <2>1, <2>2, TargetMoves
  <2> QED
    BY <1>3, <2>3 DEF MergeInv
<1> QED
  BY <1>1, <1>4, <1>5

LEMMA EditingKeeps ==
  ASSUME MergeInv, NEW b \in Branches, NEW memory \in Memory, EditBranch(b, memory)
  PROVE  MergeInv'
<1>1. /\ merging \in MergeCommand /\ merging.pc = "idle" /\ died = "none"
      /\ projected \in [Branches -> Memory] /\ projected' = [projected EXCEPT ![b] = memory]
      /\ store' = IF b = "target" THEN memory ELSE store
      /\ merges' = TouchMerges(MergeIds) /\ UNCHANGED <<merging, died>>
  BY DEF EditBranch, MergeInv, MergeShape
<1>2. store \in Memory /\ store = projected["target"]
  BY <1>1 DEF MergeInv, MergeShape, RowsMatch
<1>3. /\ projected' \in [Branches -> Memory] /\ store' \in Memory /\ store' = projected'["target"]
  BY <1>1, <1>2 DEF Branches
<1>4. RowsMatch' /\ FilesMatch'
  BY <1>1, <1>3 DEF RowsMatch, FilesMatch
<1> QED
  BY <1>1, <1>3, <1>4, AllTouched

\* One proposal changes and keeps what it is to merge; nothing else moves.
LEMMA ProposalMoves ==
  ASSUME MergeInv, NEW p \in MergeIds, NEW m \in MergeRow,
         merges' = [merges EXCEPT ![p] = m], m.status # "absent", merging.pc = "idle",
         UNCHANGED <<projected, store, merging, died>>,
         ItemsFollow(m), m.status = "applied" => Unresolved(m) = {},
         ~m.touched => /\ projected["source"] = m.seen["source"] /\ projected["base"] = m.seen["base"]
                       /\ Fits(m, projected["target"])
                       /\ RowsCount => Fits(m, store)
  PROVE  MergeInv'
<1>1. /\ merges' \in [MergeIds -> MergeRow] /\ merges'[p] = m
      /\ \A q \in MergeIds \ {p} : merges'[q] = merges[q]
  BY DEF MergeInv, MergeShape
<1>2. MergeShape'
  BY <1>1 DEF MergeInv, MergeShape
<1>3. RowsMatch' /\ FilesMatch'
  BY DEF MergeInv, RowsMatch, FilesMatch
<1>4. Decisions'
  <2> SUFFICES ASSUME NEW q \in MergeIds, merges'[q].status # "absent"
      PROVE  ItemsFollow(merges'[q]) /\ (Begun(q)' => Unresolved(merges'[q]) = {})
    BY DEF Decisions
  <2>1. CASE q = p
    BY <1>1, <2>1 DEF Begun
  <2>2. CASE q # p
    <3>1. merges'[q] = merges[q] /\ (Begun(q)' => Begun(q))
      BY <1>1, <2>2 DEF Begun
    <3> QED
      BY <3>1 DEF MergeInv, Decisions
  <2> QED
    BY <2>1, <2>2
<1>5. ASSUME NEW q \in MergeIds PROVE Unspoilt(q)'
  <2>1. CASE q = p
    BY <1>1, <2>1 DEF Unspoilt, RowsCount
  <2>2. CASE q # p
    <3>1. merges'[q] = merges[q] /\ Unspoilt(q)
      BY <1>1, <2>2 DEF MergeInv
    <3> QED
      BY <3>1 DEF Unspoilt, RowsCount
  <2> QED
    BY <2>1, <2>2
<1> QED
  BY <1>2, <1>3, <1>4, <1>5 DEF MergeInv

LEMMA ProposingKeeps ==
  ASSUME MergeInv, NEW p \in MergeIds, NEW hasBase \in BOOLEAN, ProposeMerge(p, hasBase)
  PROVE  MergeInv'
<1>1. PICK c, f, m :
        /\ c = Compare(projected, hasBase) /\ f = projected
        /\ m = [status |-> "pending", hasBase |-> hasBase, touched |-> died # "none", starts |-> 0,
                items |-> c, seen |-> f]
  OBVIOUS
<1>2. /\ merges' = [merges EXCEPT ![p] = m] /\ merging.pc = "idle"
      /\ UNCHANGED <<projected, store, merging, died>> /\ f \in [Branches -> Memory]
      /\ died \in {"none", "files", "rows"}
  BY <1>1 DEF ProposeMerge, MergeInv, MergeShape
<1>3. PICK b \in Memory : b = IF hasBase THEN f["base"] ELSE EmptyMemory
  BY <1>2, EmptyIsMemory DEF Branches
<1>4. c \in [Sections -> Decision] /\ \A x \in Sections : IsDecision(c[x])
  BY <1>1, <1>2, <1>3, Compared
<1>5. /\ m \in MergeRow /\ m.status = "pending" /\ m.hasBase = hasBase /\ m.items = c /\ m.seen = f
      /\ m.touched = (died # "none")
  BY <1>1, <1>2, <1>4 DEF MergeRow
<1>6. ItemsFollow(m)
  BY <1>1, <1>4, <1>5 DEF ItemsFollow, IsDecision
<1>7. Fits(m, f["target"])
  BY <1>5 DEF Fits, Good
<1>8. ~m.touched => store = f["target"]
  BY <1>1, <1>2, <1>5 DEF MergeInv, RowsMatch
<1> QED
  BY <1>1, <1>2, <1>5, <1>6, <1>7, <1>8, ProposalMoves

LEMMA ResolvingKeeps ==
  ASSUME MergeInv, NEW p \in MergeIds, NEW section \in Sections, NEW r \in Resolutions,
         ResolveConflict(p, section, r)
  PROVE  MergeInv'
<1>1. PICK o, item, items, m :
        /\ o = merges[p] /\ item = [o.items[section] EXCEPT !.resolution = r]
        /\ items = [o.items EXCEPT ![section] = item]
        /\ m = [o EXCEPT !.items = items]
  OBVIOUS
<1>2. /\ merges' = [merges EXCEPT ![p] = m] /\ merging.pc = "idle" /\ o.status # "absent"
      /\ r \in o.items[section].allowed /\ UNCHANGED <<projected, store, merging, died>>
      /\ o \in MergeRow
  BY <1>1 DEF ResolveConflict, MergeInv, MergeShape
<1>3. /\ o.items \in [Sections -> Decision] /\ o.items[section] \in Decision
  BY <1>2 DEF MergeRow
<1>4. /\ item \in Decision /\ item.auto = o.items[section].auto
      /\ item.allowed = o.items[section].allowed /\ item.resolution = r
  BY <1>1, <1>3 DEF Decision
<1>5. /\ items \in [Sections -> Decision] /\ items[section] = item
      /\ \A x \in Sections \ {section} : items[x] = o.items[x]
  BY <1>1, <1>3, <1>4
<1>6. /\ m \in MergeRow /\ m.items = items /\ m.status = o.status /\ m.hasBase = o.hasBase
      /\ m.seen = o.seen /\ m.touched = o.touched
  BY <1>1, <1>2, <1>5 DEF MergeRow
<1>7. \A x \in Sections : /\ m.items[x].auto = o.items[x].auto
                          /\ m.items[x].allowed = o.items[x].allowed
                          /\ m.items[x].resolution \in {o.items[x].resolution, r}
                          /\ Decisive(m, x) => Decisive(o, x)
  BY <1>4, <1>5, <1>6 DEF Decisive, Resolutions
<1>8. ItemsFollow(o) /\ (o.status = "applied" => Unresolved(o) = {})
  BY <1>1, <1>2 DEF MergeInv, Decisions, Begun
<1>9. ItemsFollow(m)
  <2> SUFFICES ASSUME NEW x \in Sections
      PROVE  /\ m.items[x].auto = Compare(m.seen, m.hasBase)[x].auto
             /\ m.items[x].allowed = Compare(m.seen, m.hasBase)[x].allowed
             /\ m.items[x].resolution \in m.items[x].allowed \cup {"none"}
    BY DEF ItemsFollow
  <2>1. /\ o.items[x].auto = Compare(o.seen, o.hasBase)[x].auto
        /\ o.items[x].allowed = Compare(o.seen, o.hasBase)[x].allowed
        /\ o.items[x].resolution \in o.items[x].allowed \cup {"none"}
    BY <1>8 DEF ItemsFollow
  <2> QED
    BY <1>2, <1>4, <1>5, <1>6, <2>1
<1>10. Unresolved(m) \subseteq Unresolved(o)
  <2>1. r # "none"
    BY DEF Resolutions
  <2> QED
    BY <1>7, <2>1 DEF Unresolved
<1>11. \A y : (Good(o, y) => Good(m, y)) /\ (Done(o, y) => Done(m, y))
  <2>1. /\ SnapshotOf(m) = SnapshotOf(o) /\ CurrentOf(m) = CurrentOf(o) /\ WorkOf(m) = WorkOf(o)
        /\ Takes(m, "record") <=> Takes(o, "record")
        /\ \A rows : HoldsRecord(m, rows) <=> HoldsRecord(o, rows)
    BY <1>6, <1>7 DEF SnapshotOf, CurrentOf, WorkOf, Takes, Unites, HoldsRecord, Sections
  <2>2. \A x \in {"snapshot", "step", "current", "record"} : Decisive(m, x) => Decisive(o, x)
    BY <1>7 DEF Sections
  <2> QED
    BY <1>6, <2>1, <2>2 DEF Good, Done
<1>12. \A y : Fits(o, y) => Fits(m, y)
  BY <1>6, <1>11 DEF Fits
<1>13. ~o.touched => /\ projected["source"] = o.seen["source"] /\ projected["base"] = o.seen["base"]
                     /\ Fits(o, projected["target"])
                     /\ RowsCount => Fits(o, store)
  BY <1>1, <1>2 DEF MergeInv, Unspoilt
<1> QED
  BY <1>2, <1>6, <1>8, <1>9, <1>10, <1>12, <1>13, ProposalMoves

LEMMA StartingKeeps == ASSUME MergeInv, NEW p \in MergeIds, StartMerge(p) PROVE MergeInv'
<1>1. PICK o, m, f, t, made :
        /\ o = merges[p] /\ m = [o EXCEPT !.starts = o.starts + 1] /\ f = projected
        /\ t = f["target"] /\ made = Merged(p, f, o)
  OBVIOUS
<1>2. /\ o \in MergeRow /\ o.status # "absent" /\ Unresolved(o) = {} /\ merging.pc = "idle"
      /\ f \in [Branches -> Memory] /\ t \in Memory /\ UNCHANGED <<projected, store, died>>
      /\ store \in Memory /\ died \in {"none", "files", "rows"} /\ merges \in [MergeIds -> MergeRow]
      /\ merging' = [pc |-> "progress", id |-> p, merged |-> made, kept |-> t, undo |-> FALSE]
  BY <1>1 DEF StartMerge, MergeInv, MergeShape, Branches
<1>3. /\ merges' = [TouchMerges(MergeIds \ {p}) EXCEPT ![p] = m]
      /\ \A q \in MergeIds : TouchMerges(MergeIds \ {p})[q] =
           IF q = p THEN o ELSE [merges[q] EXCEPT !.touched = TRUE]
  <2>1. TouchMerges(MergeIds \ {p})[p] = o
    BY <1>1 DEF TouchMerges
  <2>2. merges' = [TouchMerges(MergeIds \ {p}) EXCEPT ![p] = m]
    BY <1>1, <2>1 DEF StartMerge
  <2> QED
    BY <1>1, <2>2 DEF TouchMerges
<1>4. /\ m \in MergeRow /\ m.items = o.items /\ m.seen = o.seen /\ m.hasBase = o.hasBase
      /\ m.status = o.status /\ m.touched = o.touched
  <2>1. o.starts \in Nat
    BY <1>2 DEF MergeRow
  <2> QED
    BY <1>1, <1>2, <2>1 DEF MergeRow
<1>5. \A q \in MergeIds \ {p} : /\ merges'[q] = [merges[q] EXCEPT !.touched = TRUE]
                                /\ merges[q] \in MergeRow
  BY <1>2, <1>3 DEF TouchMerges
<1>6. \A q \in MergeIds \ {p} :
        /\ merges'[q] \in MergeRow /\ merges'[q].touched /\ merges'[q].status = merges[q].status
        /\ merges'[q].items = merges[q].items /\ merges'[q].seen = merges[q].seen
        /\ merges'[q].hasBase = merges[q].hasBase
  <2>1. ASSUME NEW q \in MergeIds \ {p} PROVE OnlyTouched(merges[q], merges'[q])
    BY <1>5, TouchedRow
  <2> QED
    BY <2>1 DEF OnlyTouched
<1>7. merges'[p] = m
  BY <1>3 DEF TouchMerges
<1>8. merges' \in [MergeIds -> MergeRow]
  <2>1. merges' = [q \in MergeIds |-> merges'[q]]
    BY <1>3 DEF TouchMerges
  <2>2. \A q \in MergeIds : merges'[q] \in MergeRow
    BY <1>4, <1>6, <1>7
  <2> QED
    BY <2>1, <2>2
<1>9. /\ made \in Memory
      /\ ItemsFollow(o) /\ f["source"] = o.seen["source"] /\ Good(o, t) => Done(o, made)
  BY <1>1, <1>2, MergedIsDecided
<1>10. /\ merging' \in MergeCommand /\ merging'.pc = "progress" /\ merging'.id = p
       /\ merging'.merged = made /\ merging'.kept = t /\ ~merging'.undo
  BY <1>2, <1>9 DEF MergeCommand, Phases, Prints
<1>11. MergeShape'
  BY <1>2, <1>4, <1>7, <1>8, <1>10 DEF MergeInv, MergeShape
<1>12. RowsMatch' /\ FilesMatch'
  BY <1>2, <1>10 DEF MergeInv, RowsMatch, FilesMatch
<1>13. \A q \in MergeIds : merges[q].status # "absent" =>
         ItemsFollow(merges[q]) /\ (Begun(q) => Unresolved(merges[q]) = {})
  BY DEF MergeInv, Decisions
<1>14. Decisions'
  <2> SUFFICES ASSUME NEW q \in MergeIds, merges'[q].status # "absent"
      PROVE  ItemsFollow(merges'[q]) /\ (Begun(q)' => Unresolved(merges'[q]) = {})
    BY DEF Decisions
  <2>1. CASE q = p
    <3>1. ItemsFollow(o)
      BY <1>1, <1>2, <1>13
    <3>2. ItemsFollow(m) /\ Unresolved(m) = {}
      BY <1>2, <1>4, <3>1, SameProposal
    <3> QED
      BY <1>7, <2>1, <3>2
  <2>2. CASE q # p
    <3>1. Begun(q)' => Begun(q)
      BY <1>6, <1>10, <2>2 DEF Begun
    <3> QED
      BY <1>6, <1>13, <2>2, <3>1, SameProposal
  <2> QED
    BY <2>1, <2>2
<1>15. ~o.touched => /\ f["source"] = o.seen["source"] /\ f["base"] = o.seen["base"]
                     /\ Fits(o, t) /\ (died # "rows" => Fits(o, store)) /\ Done(o, made)
  <2>1. ~o.touched => /\ f["source"] = o.seen["source"] /\ f["base"] = o.seen["base"]
                      /\ Fits(o, t) /\ (died # "rows" => Fits(o, store))
    BY <1>1, <1>2 DEF MergeInv, Unspoilt, RowsCount
  <2> QED
    BY <1>1, <1>2, <1>9, <1>13, <2>1 DEF Fits
<1>16. \A y : (Fits(o, y) => Fits(m, y)) /\ (Done(o, y) => Done(m, y))
  BY <1>4, SameProposal DEF Fits
<1>17. ASSUME NEW q \in MergeIds PROVE Unspoilt(q)'
  <2>1. CASE q = p
    <3>1. ~m.touched => /\ projected'["source"] = m.seen["source"] /\ projected'["base"] = m.seen["base"]
                        /\ Fits(m, projected'["target"]) /\ (RowsCount' => Fits(m, store'))
                        /\ Fits(m, merging'.kept) /\ Done(m, merging'.merged)
      BY <1>1, <1>2, <1>4, <1>10, <1>15, <1>16 DEF RowsCount
    <3> QED
      BY <1>7, <1>10, <2>1, <3>1 DEF Unspoilt
  <2>2. CASE q # p
    BY <1>6, <2>2 DEF Unspoilt
  <2> QED
    BY <2>1, <2>2
<1> QED
  BY <1>11, <1>12, <1>14, <1>17 DEF MergeInv

LEMMA FinishingKeeps == ASSUME MergeInv, FinishMerge PROVE MergeInv'
<1>1. PICK p, t, made, o, m : /\ p = merging.id /\ t = projected["target"] /\ made = merging.merged
                              /\ o = merges[p] /\ m = [o EXCEPT !.status = "applied"]
  OBVIOUS
<1>2. /\ p \in MergeIds /\ o \in MergeRow /\ o.status # "absent" /\ merging.pc = "validate"
      /\ t \in Memory /\ made \in Memory /\ merging.undo = FALSE /\ store = t
      /\ merges \in [MergeIds -> MergeRow] /\ merges' = [merges EXCEPT ![p] = m]
      /\ merging' = NoMerging /\ died' = "none" /\ UNCHANGED <<projected, store>>
  BY <1>1 DEF FinishMerge, MergeInv, MergeShape, RowsMatch, Branches, MergeCommand
<1>3. t = made
  <2>1. t.step = made.step /\ t.current = made.current /\ t.snapshot = made.snapshot
        /\ t.record = made.record
    BY <1>1, <1>2 DEF MergeInv, FilesMatch
  <2> QED
    BY <1>2, <2>1 DEF Memory
<1>4. NoMerging \in MergeCommand /\ NoMerging.pc = "idle"
  BY EmptyIsMemory DEF NoMerging, MergeCommand, Phases, Prints
<1>5. /\ m \in MergeRow /\ m.items = o.items /\ m.seen = o.seen /\ m.hasBase = o.hasBase
      /\ m.status = "applied" /\ m.touched = o.touched
  BY <1>1, <1>2 DEF MergeRow
<1>6. /\ merges' \in [MergeIds -> MergeRow] /\ merges'[p] = m
      /\ \A q \in MergeIds \ {p} : merges'[q] = merges[q]
  BY <1>2, <1>5
<1>7. MergeShape'
  BY <1>2, <1>4, <1>6 DEF MergeInv, MergeShape
<1>8. RowsMatch' /\ FilesMatch'
  BY <1>1, <1>2, <1>4 DEF RowsMatch, FilesMatch
<1>9. ItemsFollow(o) /\ Unresolved(o) = {}
  BY <1>1, <1>2 DEF MergeInv, Decisions, Begun
<1>10. Decisions'
  <2> SUFFICES ASSUME NEW q \in MergeIds, merges'[q].status # "absent"
      PROVE  ItemsFollow(merges'[q]) /\ (Begun(q)' => Unresolved(merges'[q]) = {})
    BY DEF Decisions
  <2>1. CASE q = p
    BY <1>5, <1>6, <1>9, <2>1, SameProposal
  <2>2. CASE q # p
    <3>1. merges'[q] = merges[q] /\ (Begun(q)' => Begun(q))
      BY <1>2, <1>4, <1>6, <2>2 DEF Begun
    <3> QED
      BY <3>1 DEF MergeInv, Decisions
  <2> QED
    BY <2>1, <2>2
<1>11. ~o.touched => /\ projected["source"] = o.seen["source"] /\ projected["base"] = o.seen["base"]
                     /\ Done(o, made)
  BY <1>1, <1>2 DEF MergeInv, Unspoilt
<1>12. ~m.touched => Fits(m, t)
  BY <1>3, <1>5, <1>11, SameProposal, DoneFits
<1>13. ASSUME NEW q \in MergeIds PROVE Unspoilt(q)'
  <2>1. CASE q = p
    BY <1>1, <1>2, <1>4, <1>5, <1>6, <1>11, <1>12, <2>1 DEF Unspoilt
  <2>2. CASE q # p
    BY <1>1, <1>2, <1>6, <2>2 DEF MergeInv, Unspoilt
  <2> QED
    BY <2>1, <2>2
<1> QED
  BY <1>7, <1>8, <1>10, <1>13 DEF MergeInv

\* Every step keeps the invariant.
LEMMA MergeSteps ==
  ASSUME MergeInv, NEW memories \in SUBSET Memory, [MergeNext(memories)]_mergeVars
  PROVE  MergeInv'
<1>1. CASE UNCHANGED mergeVars
  BY <1>1 DEF mergeVars, MergeInv, MergeShape, RowsMatch, FilesMatch, Decisions, Begun, Unspoilt, RowsCount
<1>2. CASE \E b \in Branches, memory \in memories : EditBranch(b, memory)
  BY <1>2, EditingKeeps
<1>3. CASE \E p \in MergeIds, hasBase \in BOOLEAN : ProposeMerge(p, hasBase)
  BY <1>3, ProposingKeeps
<1>4. CASE \E p \in MergeIds, section \in Sections, r \in Resolutions : ResolveConflict(p, section, r)
  BY <1>4, ResolvingKeeps
<1>5. CASE \E p \in MergeIds : StartMerge(p)
  BY <1>5, StartingKeeps
<1>6. CASE WriteTarget
  BY <1>6, WritingKeeps
<1>7. CASE PurgeTarget
  BY <1>7, PurgingKeeps
<1>8. CASE SyncTarget
  BY <1>8, SyncingKeeps
<1>9. CASE FinishMerge
  BY <1>9, FinishingKeeps
<1>10. CASE RefuseMerge
  BY <1>10, RefusingKeeps
<1>11. CASE CrashMerge
  BY <1>11, CrashingKeeps
<1>12. CASE Reproject
  BY <1>12, ReprojectingKeeps
<1> QED
  BY <1>1, <1>2, <1>3, <1>4, <1>5, <1>6, <1>7, <1>8, <1>9, <1>10, <1>11, <1>12 DEF MergeNext

-----------------------------------------------------------------------------
\* Between commands the target's rows say what its files say, also after a
\* merge was refused or died and the next command has projected the rows again
\* (branch_merge.py:207-238).
THEOREM MergedRowsFollowFiles ==
  ASSUME NEW initial \in SUBSET [Branches -> Memory], NEW memories \in SUBSET Memory
  PROVE  MergeSpec(initial, memories) => []RowsFollowFiles
<1>1. MergeInit(initial) => MergeInv
  BY MergeStarts
<1>2. MergeInv /\ [MergeNext(memories)]_mergeVars => MergeInv'
  BY MergeSteps
<1>3. MergeInv => RowsFollowFiles
  BY DEF MergeInv, RowsMatch, RowsFollowFiles, Settled
<1> QED
  BY <1>1, <1>2, <1>3, PTL DEF MergeSpec

\* The edits of the branches are counted up to their bound.
EditsCounted == edits \in 0..MaxEdits

\* The files, the rows, the proposals and the command of a merge keep their
\* form, also while the rows are being filled and after the merge died.
THEOREM MergeTypesHold ==
  ASSUME NEW initial \in SUBSET [Branches -> Memory], NEW memories \in SUBSET Memory
  PROVE  MergeSpec(initial, memories) => []MergeTypeOK
<1>1. MergeInit(initial) => MergeInv /\ EditsCounted
  BY MergeStarts, MergeAssumption DEF MergeInit, EditsCounted
<1>2. MergeInv /\ EditsCounted /\ [MergeNext(memories)]_mergeVars => (MergeInv /\ EditsCounted)'
  <2> SUFFICES ASSUME MergeInv, EditsCounted, [MergeNext(memories)]_mergeVars
               PROVE  MergeInv' /\ EditsCounted'
    OBVIOUS
  <2>1. MergeInv'
    BY MergeSteps
  <2>2. CASE \E b \in Branches, memory \in memories : EditBranch(b, memory)
    BY <2>1, <2>2, MergeAssumption DEF EditBranch, EditsCounted
  <2>3. CASE edits' = edits
    BY <2>1, <2>3 DEF EditsCounted
  <2> QED
    BY <2>1, <2>2, <2>3 DEF MergeNext, mergeVars, ProposeMerge, ResolveConflict, StartMerge,
       WriteTarget, PurgeTarget, SyncTarget, FinishMerge, RefuseMerge, CrashMerge, Reproject
<1>3. MergeInv /\ EditsCounted => MergeTypeOK
  <2> SUFFICES ASSUME MergeInv, EditsCounted PROVE MergeTypeOK
    OBVIOUS
  <2>1. ASSUME NEW p \in MergeIds
        PROVE  /\ merges[p].status \in {"absent", "pending", "applied"}
               /\ \A x \in Sections : merges[p].items[x].resolution \in Resolutions \cup {"none"}
    BY DEF MergeInv, MergeShape, MergeRow, Decision
  <2> QED
    BY <2>1 DEF MergeTypeOK, MergeInv, MergeShape, MergeCommand, Phases, EditsCounted
<1> QED
  BY <1>1, <1>2, <1>3, PTL DEF MergeSpec

\* What a merge leaves when every item is decided: each section is as the
\* decision says, so what it drops, a resolution dropped.
LEMMA DecidedLosesNothing ==
  ASSUME NEW m \in MergeRow, NEW now \in Memory, ItemsFollow(m), Unresolved(m) = {}, Done(m, now)
  PROVE  LET s == m.seen["source"]
             t == m.seen["target"]
             b == m.seen["base"]
             united == m.items["step"].auto = "union"
         IN  /\ Decides(m, "snapshot", 0, s.snapshot, t.snapshot, b.snapshot, now.snapshot)
             /\ Decides(m, "current", NoStep, s.current, t.current, b.current, now.current)
             /\ IF united
                  THEN /\ now.step.completed = (s.step.completed \/ t.step.completed)
                       /\ now.step.links = s.step.links \cup t.step.links
                       /\ now.step.status \in {s.step.status, t.step.status} \ {0} \/ s.step.status = t.step.status
                  ELSE Decides(m, "step", [EmptyStep EXCEPT !.planned = now.step.planned],
                               [s.step EXCEPT !.planned = now.step.planned],
                               [t.step EXCEPT !.planned = now.step.planned],
                               [b.step EXCEPT !.planned = now.step.planned], now.step)
             /\ m.items["record"].resolution = "none" =>
                  \A e \in Found(s.record, Original) \ (IF m.hasBase THEN Found(b.record, Original) ELSE {}) :
                    \E n \in DOMAIN now.record : e \subseteq now.record[n].evidence
<1>0. PICK s, t, b, x, hasBase, c :
        /\ s = m.seen["source"] /\ t = m.seen["target"] /\ b = m.seen["base"]
        /\ hasBase = m.hasBase /\ x = IF hasBase THEN b ELSE EmptyMemory
        /\ c = Compare(m.seen, hasBase)
  OBVIOUS
<1>1. /\ m.seen \in [Branches -> Memory] /\ hasBase \in BOOLEAN /\ s \in Memory /\ t \in Memory
      /\ b \in Memory /\ x \in Memory
  BY <1>0, EmptyIsMemory DEF MergeRow, Branches
<1>2. ASSUME NEW y \in Sections, m.items[y].resolution = "none"
      PROVE  m.items[y].auto = c[y].auto /\ c[y].allowed = {}
  BY <1>0, <1>2 DEF ItemsFollow, Unresolved
<1>3. /\ c["snapshot"] = CompareSnapshot(s.snapshot, t.snapshot, x.snapshot, hasBase)
      /\ c["step"] = CompareStep(s.step, t.step, x.step, hasBase)
      /\ c["current"] = CompareCurrent(s.current, t.current, x.current, hasBase)
      /\ c["record"] = CompareRecord(Found(s.record, Original), Found(t.record, Original),
                                     Found(x.record, Original), hasBase)
  BY <1>0, <1>1, Compared
<1>4. Decides(m, "snapshot", 0, s.snapshot, t.snapshot, b.snapshot, now.snapshot)
  <2> SUFFICES ASSUME m.items["snapshot"].resolution = "none"
      PROVE  /\ s.snapshot # 0 /\ ~(hasBase /\ s.snapshot = b.snapshot) => now.snapshot = s.snapshot
             /\ t.snapshot # 0 /\ ~(hasBase /\ t.snapshot = b.snapshot) => now.snapshot = t.snapshot
    BY <1>0 DEF Decides
  <2>1. now.snapshot = IF c["snapshot"].auto = "take_source" THEN s.snapshot ELSE t.snapshot
    BY <1>0, <1>2 DEF Done, Decisive, SnapshotOf, Takes, Sections
  <2>2. /\ c["snapshot"].auto \in {"none", "take_source"}
        /\ c["snapshot"].auto = "none" =>
             s.snapshot = 0 \/ s.snapshot = t.snapshot \/ (hasBase /\ s.snapshot = x.snapshot)
        /\ c["snapshot"].auto = "take_source" => IF hasBase THEN t.snapshot = x.snapshot ELSE t.snapshot = 0
    <3>1. c["snapshot"].allowed = {}
      BY <1>2 DEF Sections
    <3> QED
      BY <1>1, <1>3, <3>1, SnapshotsCompare
  <2> QED
    BY <1>0, <2>1, <2>2
<1>5. Decides(m, "current", NoStep, s.current, t.current, b.current, now.current)
  <2> SUFFICES ASSUME m.items["current"].resolution = "none"
      PROVE  /\ s.current # NoStep /\ ~(hasBase /\ s.current = b.current) => now.current = s.current
             /\ t.current # NoStep /\ ~(hasBase /\ t.current = b.current) => now.current = t.current
    BY <1>0 DEF Decides
  <2>1. now.current = IF c["current"].auto = "take_source" THEN s.current ELSE t.current
    BY <1>0, <1>2 DEF Done, Decisive, CurrentOf, Takes, Sections
  <2>2. /\ c["current"].auto \in {"none", "take_source"}
        /\ c["current"].auto = "none" => s.current = NoStep \/ s.current = t.current
        /\ c["current"].auto = "take_source" => IF hasBase THEN t.current = x.current ELSE t.current = NoStep
    <3>1. c["current"].allowed = {}
      BY <1>2 DEF Sections
    <3> QED
      BY <1>1, <1>3, <3>1, CurrentsCompare
  <2> QED
    BY <1>0, <2>1, <2>2
<1>6. m.items["record"].resolution = "none" =>
        \A e \in Found(s.record, Original) \ (IF hasBase THEN Found(b.record, Original) ELSE {}) :
          \E n \in DOMAIN now.record : e \subseteq now.record[n].evidence
  <2> SUFFICES ASSUME m.items["record"].resolution = "none", NEW e \in Found(s.record, Original),
                      ~(hasBase /\ e \in Found(b.record, Original))
      PROVE  \E n \in DOMAIN now.record : e \subseteq now.record[n].evidence
    OBVIOUS
  <2>1. c["record"].allowed = {} /\ m.items["record"].auto = c["record"].auto
    BY <1>2 DEF Sections
  <2>2. CASE c["record"].auto = "take_source"
    BY <1>0, <2>1, <2>2 DEF Done, Decisive, Takes, HoldsRecord
  <2>3. CASE c["record"].auto # "take_source"
    <3>1. Found(s.record, Original) = Found(t.record, Original)
      <4>1. \/ Found(s.record, Original) = {} \/ Found(s.record, Original) = Found(t.record, Original)
            \/ (hasBase /\ Found(s.record, Original) = Found(x.record, Original))
        BY <1>1, <1>3, <2>1, <2>3, RecordsCompare
      <4> QED
        BY <1>0, <4>1
    <3>2. now.record = t.record /\ t.record \in Seq(Row)
      BY <1>0, <1>1, <2>1, <2>3 DEF Done, Decisive, Takes, Memory
    <3>3. \E n \in DOMAIN t.record : t.record[n].evidence = e
      BY <3>1, <3>2, FoundRows
    <3> QED
      BY <3>2, <3>3
  <2> QED
    BY <2>2, <2>3
<1>7. /\ IsDecision(c["step"]) /\ m.items["step"].auto = c["step"].auto
      /\ c["step"].allowed = {} /\ c["step"].auto = "none" =>
           s.step = EmptyStep \/ s.step = t.step \/ (hasBase /\ s.step = x.step)
      /\ c["step"].auto = "take_source" => IF hasBase THEN t.step = x.step ELSE t.step = EmptyStep
  <2>1. m.items["step"].auto = c["step"].auto
    BY <1>0 DEF ItemsFollow, Sections
  <2> QED
    BY <1>1, <1>3, <2>1, StepsCompare
<1>8. /\ now.step \in StepState /\ s.step \in StepState /\ t.step \in StepState
      /\ b.step \in StepState /\ EmptyStep \in StepState
  BY <1>1, EmptyIsMemory DEF Memory
<1>9. CASE m.items["step"].auto = "union"
  <2>1. m.items["step"].resolution = "none"
    <3>1. c["step"].allowed = {}
      BY <1>7, <1>9 DEF IsDecision
    <3> QED
      BY <1>0, <3>1 DEF ItemsFollow, Sections
  <2>2. Work(now.step) = Work(UnionStep(s.step, t.step))
    BY <1>0, <1>9, <2>1 DEF Done, Decisive, WorkOf, Takes, Unites
  <2>3. /\ now.step.completed = (t.step.completed \/ s.step.completed)
        /\ now.step.status = IF t.step.status # 0 THEN t.step.status ELSE s.step.status
        /\ now.step.links = t.step.links \cup s.step.links
    BY <2>2 DEF Work, UnionStep
  <2>4. /\ now.step.completed = (s.step.completed \/ t.step.completed)
        /\ now.step.links = s.step.links \cup t.step.links
        /\ now.step.status \in {s.step.status, t.step.status} \ {0} \/ s.step.status = t.step.status
    BY <2>3
  <2> QED
    BY <1>0, <1>4, <1>5, <1>6, <1>9, <2>4
<1>10. CASE m.items["step"].auto # "union"
  <2>1. PICK P : P = now.step.planned
    OBVIOUS
  <2> DEFINE N(y) == [y EXCEPT !.planned = P]
  <2>2. \A y \in StepState : Work(now.step) = Work(y) => now.step = N(y)
    <3> SUFFICES ASSUME NEW y \in StepState, Work(now.step) = Work(y) PROVE now.step = N(y)
      OBVIOUS
    <3>1. /\ now.step.completed = y.completed /\ now.step.status = y.status /\ now.step.links = y.links
          /\ P \in BOOLEAN
      BY <1>8, <2>1 DEF Work, StepState
    <3>2. PICK z : z = N(y)
      OBVIOUS
    <3>3. /\ z \in StepState /\ z.planned = P /\ z.completed = y.completed /\ z.status = y.status
          /\ z.links = y.links
      BY <3>1, <3>2 DEF StepState
    <3> QED
      BY <1>8, <2>1, <3>1, <3>2, <3>3 DEF StepState
  <2> HIDE DEF N
  <2>3. Decides(m, "step", N(EmptyStep), N(s.step), N(t.step), N(b.step), now.step)
    <3> SUFFICES ASSUME m.items["step"].resolution = "none"
        PROVE  /\ N(s.step) # N(EmptyStep) /\ ~(hasBase /\ N(s.step) = N(b.step)) => now.step = N(s.step)
               /\ N(t.step) # N(EmptyStep) /\ ~(hasBase /\ N(t.step) = N(b.step)) => now.step = N(t.step)
      BY <1>0 DEF Decides
    <3>1. c["step"].allowed = {}
      BY <1>2 DEF Sections
    <3>2. c["step"].auto \in {"none", "take_source"}
      BY <1>7, <1>10 DEF IsDecision, Decision
    <3>3. Work(now.step) = IF c["step"].auto = "take_source" THEN Work(s.step) ELSE Work(t.step)
      BY <1>0, <1>7, <1>10 DEF Done, Decisive, WorkOf, Takes, Unites
    <3>4. now.step = IF c["step"].auto = "take_source" THEN N(s.step) ELSE N(t.step)
      BY <1>8, <2>2, <3>3
    <3> QED
      BY <1>0, <1>7, <3>1, <3>2, <3>4
  <2> QED
    BY <1>0, <1>4, <1>5, <1>6, <1>10, <2>1, <2>3 DEF N
<1> QED
  BY <1>9, <1>10

\* An applied merge whose branches nobody else has changed has lost neither
\* side's work, unless a resolution says so: also after a crash, a refusal, a
\* repetition (branch_merge.py:342-445, branch_compare.py).
THEOREM MergeLosesNothing ==
  ASSUME NEW initial \in SUBSET [Branches -> Memory], NEW memories \in SUBSET Memory
  PROVE  MergeSpec(initial, memories) => []NothingLostSilently
<1>1. MergeInit(initial) => MergeInv
  BY MergeStarts
<1>2. MergeInv /\ [MergeNext(memories)]_mergeVars => MergeInv'
  BY MergeSteps
<1>3. MergeInv => NothingLostSilently
  <2> SUFFICES ASSUME MergeInv, Settled, NEW p \in MergeIds,
                      merges[p].status = "applied", ~merges[p].touched
      PROVE  LET m == merges[p]
                 s == m.seen["source"]
                 t == m.seen["target"]
                 b == m.seen["base"]
                 now == projected["target"]
                 united == m.items["step"].auto = "union"
             IN  /\ Decides(m, "snapshot", 0, s.snapshot, t.snapshot, b.snapshot, now.snapshot)
                 /\ Decides(m, "current", NoStep, s.current, t.current, b.current, now.current)
                 /\ IF united
                      THEN /\ now.step.completed = (s.step.completed \/ t.step.completed)
                           /\ now.step.links = s.step.links \cup t.step.links
                           /\ \/ now.step.status \in {s.step.status, t.step.status} \ {0}
                              \/ s.step.status = t.step.status
                      ELSE Decides(m, "step", [EmptyStep EXCEPT !.planned = now.step.planned],
                                   [s.step EXCEPT !.planned = now.step.planned],
                                   [t.step EXCEPT !.planned = now.step.planned],
                                   [b.step EXCEPT !.planned = now.step.planned], now.step)
                 /\ m.items["record"].resolution = "none" =>
                      \A e \in Found(s.record, Original) \ (IF m.hasBase THEN Found(b.record, Original) ELSE {}) :
                        \E n \in DOMAIN now.record : e \subseteq now.record[n].evidence
    BY DEF NothingLostSilently
  <2>1. /\ merges[p] \in MergeRow /\ projected["target"] \in Memory
    BY DEF MergeInv, MergeShape, Branches
  <2>2. ItemsFollow(merges[p]) /\ Unresolved(merges[p]) = {}
    BY DEF MergeInv, Decisions, Begun
  <2>3. Done(merges[p], projected["target"])
    BY DEF MergeInv, Unspoilt, Fits
  <2> QED
    BY <2>1, <2>2, <2>3, DecidedLosesNothing
<1> QED
  BY <1>1, <1>2, <1>3, PTL DEF MergeSpec

\* Whatever step a merge leaves completed or current is in the plan, if that
\* was so in the memories the branches had before (_finalize_progress,
\* branch_merge.py:616-637).
THEOREM MergePlansTheStep ==
  ASSUME NEW initial \in SUBSET [Branches -> Memory], NEW memories \in SUBSET Memory,
         \A f \in initial : Sound(f["target"]), \A memory \in memories : Sound(memory)
  PROVE  MergeSpec(initial, memories) => []MergedStepIsPlanned
<1>1. MergeInit(initial) => MergeInv /\ AllSound
  <2> SUFFICES ASSUME MergeInit(initial) PROVE MergeInv /\ AllSound
    OBVIOUS
  <2>1. projected \in initial /\ store = projected["target"] /\ merging.pc = "idle"
    BY DEF MergeInit, NoMerging
  <2> QED
    BY <2>1, MergeStarts DEF AllSound
<1>2. MergeInv /\ AllSound /\ [MergeNext(memories)]_mergeVars => MergeInv' /\ AllSound'
  <2> SUFFICES ASSUME MergeInv, AllSound, [MergeNext(memories)]_mergeVars PROVE AllSound'
    BY MergeSteps
  <2>0. PICK t, mg : t = projected["target"] /\ mg = merging
    OBVIOUS
  <2>1. /\ t \in Memory /\ mg \in MergeCommand /\ mg.merged \in Memory /\ mg.kept \in Memory
        /\ projected \in [Branches -> Memory] /\ store \in Memory
        /\ Sound(t) /\ Sound(store) /\ (mg.pc # "idle" => Sound(mg.merged) /\ Sound(mg.kept))
    BY <2>0 DEF MergeInv, MergeShape, MergeCommand, Branches, AllSound
  <2>2. CASE UNCHANGED mergeVars
    BY <2>2 DEF mergeVars, AllSound
  <2>3. ASSUME NEW b \in Branches, NEW memory \in memories, EditBranch(b, memory) PROVE AllSound'
    <3>1. /\ projected' = [projected EXCEPT ![b] = memory] /\ merging' = mg /\ mg.pc = "idle"
          /\ store' = IF b = "target" THEN memory ELSE store
      BY <2>0, <2>3 DEF EditBranch
    <3> QED
      BY <2>0, <2>1, <3>1 DEF AllSound, Branches
  <2>4. ASSUME NEW p \in MergeIds, NEW hasBase \in BOOLEAN, ProposeMerge(p, hasBase) PROVE AllSound'
    BY <2>4 DEF ProposeMerge, AllSound
  <2>5. ASSUME NEW p \in MergeIds, NEW section \in Sections, NEW r \in Resolutions,
               ResolveConflict(p, section, r)
        PROVE  AllSound'
    BY <2>5 DEF ResolveConflict, AllSound
  <2>6. ASSUME NEW p \in MergeIds, StartMerge(p) PROVE AllSound'
    <3>1. PICK made : made = Merged(p, projected, merges[p])
      OBVIOUS
    <3>2. /\ UNCHANGED <<projected, store>> /\ merging'.merged = made /\ merging'.kept = t
      BY <2>0, <2>6, <3>1 DEF StartMerge
    <3>3. merges[p] \in MergeRow
      BY DEF MergeInv, MergeShape
    <3>4. Sound(made)
      BY <2>1, <3>1, <3>3, MergedIsDecided
    <3> QED
      BY <2>0, <2>1, <3>2, <3>4 DEF AllSound
  <2>7. CASE WriteTarget
    <3>1. PICK z : /\ projected' = [projected EXCEPT !["target"] = z]
                   /\ \/ /\ mg.pc = "progress"
                         /\ z = [t EXCEPT !.step = mg.merged.step, !.current = mg.merged.current]
                      \/ mg.pc = "snapshots" /\ z = [t EXCEPT !.snapshot = mg.merged.snapshot]
                      \/ mg.pc = "records" /\ z = [t EXCEPT !.record = mg.merged.record]
      <4>1. CASE mg.pc = "progress"
        BY <2>0, <2>7, <4>1 DEF WriteTarget
      <4>2. CASE mg.pc = "snapshots"
        BY <2>0, <2>7, <4>2 DEF WriteTarget
      <4>3. CASE mg.pc = "records"
        BY <2>0, <2>7, <4>3 DEF WriteTarget
      <4> QED
        BY <2>0, <2>7, <4>1, <4>2, <4>3 DEF WriteTarget
    <3>2. /\ store' = store /\ mg.pc # "idle" /\ merging'.merged = mg.merged /\ merging'.kept = mg.kept
      <4>1. PICK pc : merging' = [mg EXCEPT !.pc = pc]
        BY <2>0, <2>7 DEF WriteTarget
      <4> QED
        BY <2>0, <2>1, <2>7, <4>1 DEF WriteTarget, MergeCommand
    <3>3. \/ z.step = mg.merged.step /\ z.current = mg.merged.current
          \/ z.step = t.step /\ z.current = t.current
      BY <2>1, <3>1 DEF Memory
    <3>4. Sound(z)
      BY <2>1, <3>2, <3>3 DEF Sound
    <3> QED
      BY <2>1, <3>1, <3>2, <3>4 DEF AllSound, Branches
  <2>8. CASE PurgeTarget
    <3>1. /\ projected' = projected /\ store' = EmptyMemory /\ mg.pc # "idle"
          /\ merging' = [mg EXCEPT !.pc = "sync_progress"]
      BY <2>0, <2>8 DEF PurgeTarget
    <3>2. merging'.merged = mg.merged /\ merging'.kept = mg.kept
      BY <2>1, <3>1 DEF MergeCommand
    <3>3. Sound(EmptyMemory)
      BY EmptyIsMemory, MergeAssumption DEF Sound
    <3> QED
      BY <2>0, <2>1, <3>1, <3>2, <3>3 DEF AllSound
  <2>9. CASE SyncTarget
    <3>1. /\ mg.pc \in {"sync_progress", "sync_snapshots", "sync_records"} /\ projected' = projected
          /\ \/ merging' = NoMerging
             \/ \E pc \in Phases : merging' = [mg EXCEPT !.pc = pc]
          /\ \/ store' = [store EXCEPT !.step = t.step, !.current = t.current]
             \/ store' = [store EXCEPT !.snapshot = t.snapshot]
             \/ store' = [store EXCEPT !.record = t.record]
      <4>1. CASE mg.pc = "sync_progress"
        BY <2>0, <2>9, <4>1 DEF SyncTarget, Phases
      <4>2. CASE mg.pc = "sync_snapshots"
        BY <2>0, <2>9, <4>2 DEF SyncTarget, Phases
      <4>3. CASE mg.pc = "sync_records"
        BY <2>0, <2>9, <4>3 DEF SyncTarget, Phases
      <4> QED
        BY <2>0, <2>9, <4>1, <4>2, <4>3 DEF SyncTarget
    <3>2. NoMerging.pc = "idle"
      BY DEF NoMerging
    <3>3. merging'.pc # "idle" => merging'.merged = mg.merged /\ merging'.kept = mg.kept
      BY <2>1, <3>1, <3>2 DEF MergeCommand
    <3>4. \/ store'.step = t.step /\ store'.current = t.current
          \/ store'.step = store.step /\ store'.current = store.current
      BY <2>1, <3>1 DEF Memory
    <3>5. Sound(store')
      BY <2>1, <3>4 DEF Sound
    <3> QED
      BY <2>0, <2>1, <3>1, <3>3, <3>5 DEF AllSound
  <2>10. CASE FinishMerge
    <3>1. NoMerging.pc = "idle"
      BY DEF NoMerging
    <3> QED
      BY <2>10, <3>1 DEF FinishMerge, AllSound
  <2>11. CASE RefuseMerge
    <3>1. /\ projected' = [projected EXCEPT !["target"] = mg.kept] /\ store' = store /\ mg.pc # "idle"
          /\ \E pc : merging' = [mg EXCEPT !.pc = pc, !.undo = TRUE]
      BY <2>0, <2>11 DEF RefuseMerge
    <3>2. merging'.merged = mg.merged /\ merging'.kept = mg.kept
      BY <2>1, <3>1 DEF MergeCommand
    <3> QED
      BY <2>1, <3>1, <3>2 DEF AllSound, Branches
  <2>12. CASE CrashMerge
    <3>1. /\ projected' = projected /\ merging' = NoMerging /\ NoMerging.pc = "idle"
          /\ store' = t \/ store' = store
      BY <2>0, <2>12 DEF CrashMerge, NoMerging
    <3> QED
      BY <2>0, <2>1, <3>1 DEF AllSound
  <2>13. CASE Reproject
    <3>1. /\ projected' = [projected EXCEPT !["target"] = store] /\ merging' = mg /\ store' = store
          /\ mg.pc = "idle"
      BY <2>0, <2>13 DEF Reproject
    <3> QED
      BY <2>1, <3>1 DEF AllSound, Branches
  <2> QED
    BY <2>2, <2>3, <2>4, <2>5, <2>6, <2>7, <2>8, <2>9, <2>10, <2>11, <2>12, <2>13 DEF MergeNext
<1>3. AllSound => MergedStepIsPlanned
  BY DEF AllSound, Sound, MergedStepIsPlanned
<1> QED
  BY <1>1, <1>2, <1>3, PTL DEF MergeSpec
=============================================================================
