--------------------------- MODULE RetrievalProofs ---------------------------
(* Theorems about Retrieval: for every text, every similarity of its pieces *)
(* to the question, and every value of the settings.                        *)
EXTENDS Retrieval, ChunkTextProofs

Hits == [chunk : DOMAIN chunks, score : Nat]

Descending(hits) == \A i \in 2..Len(hits) : hits[i - 1].score >= hits[i].score

-----------------------------------------------------------------------------
(* Lemmas about numbers, functions and sequences                             *)

\* Induction up to n, for a set of numbers.
LEMMA UpTo ==
    ASSUME NEW n \in Nat, NEW T,
           0 \in T,
           \A i \in Nat : i < n /\ i \in T => i + 1 \in T
    PROVE  0..n \subseteq T
  <1> DEFINE A == {i \in 0..n : 0..i \subseteq T}
  <1> DEFINE succ == [i \in A |-> i + 1]
  <1>1. 0 \in A
    OBVIOUS
  <1>2. IsFiniteSet(A) /\ IsFiniteSet(A \ {0}) /\ Cardinality(A \ {0}) < Cardinality(A)
    <2>1. IsFiniteSet(0..n)
      <3>1. 0 \in Int /\ n \in Int
        OBVIOUS
      <3> QED
        BY <3>1, FS_Interval
    <2>2. A \in SUBSET (0..n)
      OBVIOUS
    <2> HIDE DEF A
    <2>3. IsFiniteSet(A)
      BY <2>1, <2>2, FS_Subset
    <2>4. IsFiniteSet(A \ {0}) /\ Cardinality(A \ {0}) = Cardinality(A) - 1
      BY <1>1, <2>3, FS_RemoveElement
    <2>5. Cardinality(A) \in Nat
      BY <2>3, FS_CardinalityType
    <2> QED
      BY <2>3, <2>4, <2>5
  <1>3. ASSUME n \notin A PROVE FALSE
    <2>1. \A i \in A : i + 1 \in A
      <3> TAKE i \in A
      <3>1. i \in Nat /\ i < n /\ i \in T
        BY <1>3
      <3>2. i + 1 \in T
        BY <3>1
      <3>3. \A j \in 0..(i + 1) : j \in 0..i \/ j = i + 1
        BY <3>1
      <3> QED
        BY <3>1, <3>2, <3>3
    <2>2. \A i \in A : i \in Nat
      OBVIOUS
    <2> HIDE DEF A
    <2>3. succ \in [A -> A \ {0}]
      BY <2>1, <2>2
    <2>4. PICK i, j \in A : i # j /\ succ[i] = succ[j]
      <3> HIDE DEF succ
      <3> QED
        BY <1>2, <2>3, FS_PigeonHole
    <2> QED
      BY <2>2, <2>4
  <1> QED
    BY <1>3

\* A step of a recursion that stays in B; the function it defines on 0..n.
StaysIn(step, B, n) == \A x \in B, i \in 1..n : step[<<x, i>>] \in B

Solves(f, step, B, b, n) ==
    /\ f \in [0..n -> B]
    /\ f[0] = b
    /\ \A i \in 1..n : f[i] = step[<<f[i - 1], i>>]

\* A function on 0..n may be defined by recursion.
LEMMA Recursion ==
    ASSUME NEW n \in Nat, NEW B, NEW b \in B, NEW step, StaysIn(step, B, n)
    PROVE  \E f : Solves(f, step, B, b, n)
  <1> DEFINE T == {m \in Nat : m <= n => \E f : Solves(f, step, B, b, m)}
  <1>1. 0 \in T
    <2> DEFINE f == [i \in 0..0 |-> b]
    <2>1. Solves(f, step, B, b, 0)
      BY DEF Solves
    <2> QED
      BY <2>1
  <1>2. ASSUME NEW m \in Nat, m < n, m \in T PROVE m + 1 \in T
    <2>1. PICK f : Solves(f, step, B, b, m)
      BY <1>2
    <2> DEFINE next == step[<<f[m], m + 1>>]
    <2>2. next \in B
      <3>1. f[m] \in B /\ m + 1 \in 1..n
        BY <1>2, <2>1 DEF Solves
      <3> QED
        BY <3>1 DEF StaysIn
    <2> DEFINE g == [i \in 0..(m + 1) |-> IF i = m + 1 THEN next ELSE f[i]]
    <2>3. g \in [0..(m + 1) -> B]
      <3>1. \A i \in 0..(m + 1) : i # m + 1 => i \in 0..m
        BY <1>2
      <3> HIDE DEF next
      <3> QED
        BY <2>1, <2>2, <3>1 DEF Solves
    <2>4. g[m + 1] = next /\ \A i \in 0..m : g[i] = f[i]
      <3>1. m + 1 \in 0..(m + 1) /\ \A i \in 0..m : i \in 0..(m + 1) /\ i # m + 1
        BY <1>2
      <3> HIDE DEF next
      <3> QED
        BY <3>1
    <2> HIDE DEF g
    <2>5. g[0] = b
      BY <1>2, <2>1, <2>4 DEF Solves
    <2>6. ASSUME NEW i \in 1..(m + 1) PROVE g[i] = step[<<g[i - 1], i>>]
      <3>1. CASE i = m + 1
        BY <1>2, <2>4, <3>1
      <3>2. CASE i \in 1..m
        <4>1. i \in 0..m /\ i - 1 \in 0..m
          BY <1>2, <3>2
        <4> QED
          BY <2>1, <2>4, <3>2, <4>1 DEF Solves
      <3> QED
        BY <1>2, <3>1, <3>2
    <2> QED
      BY <2>3, <2>5, <2>6 DEF Solves
  <1> HIDE DEF T
  <1>3. n \in T
    <2>1. \A i \in Nat : i < n /\ i \in T => i + 1 \in T
      BY <1>2
    <2>2. 0..n \subseteq T
      BY <1>1, <2>1, UpTo
    <2> QED
      BY <2>2
  <1> QED
    BY <1>3 DEF T

\* SetToSeqs lists the elements of a finite set, each of them once.
LEMMA SetToSeqsLists ==
    ASSUME NEW S, IsFiniteSet(S), NEW q \in SetToSeqs(S)
    PROVE  /\ q \in Seq(S) /\ Len(q) = Cardinality(S)
           /\ \A x \in S : \E i \in 1..Len(q) : q[i] = x
  <1> DEFINE n == Cardinality(S)
  <1>1. n \in Nat
    BY FS_CardinalityType
  <1>2. q \in [1..n -> S] /\ \A i, j \in 1..n : i # j => q[i] # q[j]
    BY DEF SetToSeqs
  <1>3. q \in Seq(S) /\ Len(q) = n
    BY <1>1, <1>2
  <1>4. Cardinality(1..n) = n
    <2>1. 1 \in Int /\ n \in Int
      BY <1>1
    <2>2. Cardinality(1..n) = IF 1 > n THEN 0 ELSE n - 1 + 1
      BY <2>1, FS_Interval
    <2> QED
      BY <1>1, <2>2
  <1> HIDE DEF n
  <1>5. ASSUME NEW x \in S, \A i \in 1..n : q[i] # x PROVE FALSE
    <2>1. q \in [1..n -> S \ {x}]
      BY <1>2, <1>5
    <2>2. IsFiniteSet(S \ {x}) /\ Cardinality(S \ {x}) = n - 1
      BY FS_RemoveElement DEF n
    <2>3. IsFiniteSet(1..n) /\ Cardinality(S \ {x}) < Cardinality(1..n)
      <3>1. 1 \in Int /\ n \in Int
        BY <1>1
      <3>2. IsFiniteSet(1..n)
        BY <3>1, FS_Interval
      <3> QED
        BY <1>1, <1>4, <2>2, <3>2
    <2>4. \E i, j \in 1..n : i # j /\ q[i] = q[j]
      BY <2>1, <2>2, <2>3, FS_PigeonHole
    <2> QED
      BY <1>2, <2>4
  <1> QED
    BY <1>3, <1>5 DEF n

\* The first elements of the first elements of a sequence.
LEMMA FirstOfFirst ==
    ASSUME NEW S, NEW s \in Seq(S), NEW n \in 0..Len(s), NEW m \in 0..n
    PROVE  /\ SubSeq(s, 1, n) \in Seq(S) /\ Len(SubSeq(s, 1, n)) = n
           /\ \A i \in 1..n : SubSeq(s, 1, n)[i] = s[i]
           /\ SubSeq(SubSeq(s, 1, n), 1, m) = SubSeq(s, 1, m)
  <1> DEFINE first == SubSeq(s, 1, n)
  <1>1. /\ first \in Seq(S) /\ Len(first) = n
        /\ \A i \in 1..n : first[i] = s[i]
    OBVIOUS
  <1> HIDE DEF first
  <1>2. SubSeq(first, 1, m) = SubSeq(s, 1, m)
    BY <1>1
  <1> QED
    BY <1>1, <1>2 DEF first

\* Of a descending list the earlier hits are at least as near as the later.
LEMMA DescendingPairs ==
    ASSUME NEW q \in Seq(Hits), Descending(q), NEW j \in 1..Len(q), NEW i \in 1..j
    PROVE  q[i].score >= q[j].score
  <1> DEFINE T == {d \in Nat : i + d <= j => q[i].score >= q[i + d].score}
  <1>1. \A k \in 1..Len(q) : q[k].score \in Nat
    <2>1. \A k \in 1..Len(q) : q[k] \in Hits
      OBVIOUS
    <2> QED
      BY <2>1 DEF Hits
  <1>2. Len(q) \in Nat /\ i \in Nat /\ j \in Nat /\ i <= j /\ j <= Len(q) /\ i >= 1
    OBVIOUS
  <1>3. 0 \in T
    BY <1>1, <1>2
  <1>4. ASSUME NEW d \in Nat, d < j - i, d \in T PROVE d + 1 \in T
    <2>1. i + d \in 1..Len(q) /\ i + d + 1 \in 2..Len(q)
      BY <1>2, <1>4
    <2>2. q[i + d + 1 - 1].score >= q[i + d + 1].score
      BY <2>1 DEF Descending
    <2>3. q[i].score >= q[i + d].score
      BY <1>2, <1>4
    <2>4. i + d + 1 - 1 = i + d /\ i + d + 1 = i + (d + 1) /\ i + d + 1 \in 1..Len(q)
      BY <1>2, <2>1
    <2>5. q[i].score >= q[i + (d + 1)].score
      BY <1>1, <1>2, <2>1, <2>2, <2>3, <2>4
    <2> QED
      BY <2>5
  <1> HIDE DEF T
  <1>5. 0..(j - i) \subseteq T
    BY <1>2, <1>3, <1>4, UpTo
  <1>6. j - i \in T
    BY <1>2, <1>5
  <1>7. i + (j - i) = j
    BY <1>2
  <1> QED
    BY <1>2, <1>6, <1>7 DEF T

-----------------------------------------------------------------------------
(* Lemmas about the operators of the model                                   *)

\* A hit's chunk has a length.
LEMMA HitLength ==
    ASSUME Kept, NEW h \in Hits
    PROVE  chunks[h.chunk].len \in Nat
  <1>1. h.chunk \in DOMAIN chunks
    BY DEF Hits
  <1>2. chunks[h.chunk] \in ChunkRow
    BY <1>1 DEF Kept
  <1> QED
    BY <1>2 DEF ChunkRow

\* The running total of the lengths is what its recursion says.
LEMMA UsedDef ==
    ASSUME Kept, NEW hits \in Seq(Hits)
    PROVE  /\ Used(hits) \in [0..Len(hits) -> Nat]
           /\ Used(hits)[0] = 0
           /\ \A i \in 1..Len(hits) :
                 Used(hits)[i] = Used(hits)[i - 1] + chunks[hits[i].chunk].len
  <1> DEFINE n == Len(hits)
  <1> DEFINE len(i) == chunks[hits[i].chunk].len
  <1> DEFINE step == [p \in Nat \X (1..n) |-> p[1] + len(p[2])]
  <1>1. n \in Nat
    OBVIOUS
  <1>2. \A i \in 1..n : len(i) \in Nat
    <2>1. \A i \in 1..n : hits[i] \in Hits
      OBVIOUS
    <2> QED
      BY <2>1, HitLength
  <1>3. Used(hits) = CHOOSE used :
            used = [i \in 0..n |-> IF i = 0 THEN 0 ELSE used[i - 1] + len(i)]
    BY DEF Used
  <1> HIDE DEF n, len
  <1>4. \A x \in Nat, i \in 1..n : step[<<x, i>>] = x + len(i)
    OBVIOUS
  <1> HIDE DEF step
  <1>5. StaysIn(step, Nat, n)
    <2>1. ASSUME NEW x \in Nat, NEW i \in 1..n PROVE step[<<x, i>>] \in Nat
      <3>1. len(i) \in Nat
        BY <1>2
      <3>2. step[<<x, i>>] = x + len(i)
        BY <1>4
      <3> QED
        BY <3>1, <3>2
    <2> QED
      BY <2>1 DEF StaysIn
  <1>6. PICK f : Solves(f, step, Nat, 0, n)
    BY <1>1, <1>5, Recursion
  <1>7. \A i \in 1..n : f[i] = f[i - 1] + len(i)
    <2> TAKE i \in 1..n
    <2>1. i - 1 \in 0..n
      BY <1>1
    <2>2. f[i - 1] \in Nat
      BY <1>6, <2>1 DEF Solves
    <2> QED
      BY <1>4, <1>6, <2>2 DEF Solves
  <1>8. f = [i \in 0..n |-> IF i = 0 THEN 0 ELSE f[i - 1] + len(i)]
    <2>1. \A i \in 0..n : i = 0 \/ i \in 1..n
      BY <1>1
    <2> QED
      BY <1>6, <1>7, <2>1 DEF Solves
  <1> DEFINE g == Used(hits)
  <1>9. g = [i \in 0..n |-> IF i = 0 THEN 0 ELSE g[i - 1] + len(i)]
    BY <1>3, <1>8
  <1> HIDE DEF g
  <1>10. g[0] = 0 /\ \A i \in 1..n : g[i] = g[i - 1] + len(i)
    <2>1. 0 \in 0..n /\ \A i \in 1..n : i \in 0..n /\ i # 0
      BY <1>1
    <2> QED
      BY <1>9, <2>1
  <1> DEFINE T == {i \in Nat : i <= n => g[i] \in Nat}
  <1>11. 0..n \subseteq T
    <2>1. 0 \in T
      BY <1>10
    <2>2. ASSUME NEW i \in Nat, i < n, i \in T PROVE i + 1 \in T
      <3>1. i + 1 \in 1..n /\ (i + 1) - 1 = i /\ g[i] \in Nat
        BY <1>1, <2>2
      <3>2. g[i + 1] = g[i] + len(i + 1) /\ len(i + 1) \in Nat
        BY <1>2, <1>10, <3>1
      <3> QED
        BY <3>1, <3>2
    <2> HIDE DEF T
    <2> QED
      BY <1>1, <2>1, <2>2, UpTo
  <1>12. g \in [0..n -> Nat]
    <2>1. \A i \in 0..n : g[i] \in Nat
      BY <1>1, <1>11
    <2> QED
      BY <1>9, <2>1
  <1> QED
    BY <1>10, <1>12 DEF g, n, len

\* The running total over the first n hits does not look at the hits behind them.
LEMMA UsedPrefix ==
    ASSUME Kept, NEW hits \in Seq(Hits), NEW n \in 0..Len(hits)
    PROVE  Chars(SubSeq(hits, 1, n)) = Used(hits)[n]
  <1> DEFINE first == SubSeq(hits, 1, n)
  <1>1. /\ first \in Seq(Hits) /\ Len(first) = n
        /\ \A i \in 1..n : first[i] = hits[i]
    OBVIOUS
  <1> HIDE DEF first
  <1> DEFINE T == {i \in Nat : i <= n => Used(first)[i] = Used(hits)[i]}
  <1>2. 0 \in T
    BY <1>1, UsedDef
  <1>3. ASSUME NEW i \in Nat, i < n, i \in T PROVE i + 1 \in T
    <2>1. i + 1 \in 1..n /\ i + 1 \in 1..Len(hits) /\ (i + 1) - 1 = i
      BY <1>3
    <2>2. Used(first)[i + 1] = Used(first)[i] + chunks[first[i + 1].chunk].len
      BY <1>1, <2>1, UsedDef
    <2>3. Used(hits)[i + 1] = Used(hits)[i] + chunks[hits[i + 1].chunk].len
      BY <2>1, UsedDef
    <2>4. Used(first)[i] = Used(hits)[i]
      BY <1>3
    <2> QED
      BY <1>1, <2>1, <2>2, <2>3, <2>4
  <1> HIDE DEF T
  <1>4. 0..n \subseteq T
    BY <1>2, <1>3, UpTo
  <1>5. n \in T
    BY <1>4
  <1> QED
    BY <1>1, <1>5 DEF Chars, T, first

\* What the filter keeps, hit by hit.
LEMMA FilteredDef ==
    ASSUME NEW hits \in Seq(Hits)
    PROVE  \E kept : /\ Filtered(hits) = kept[Len(hits)]
                     /\ kept[0] = <<>>
                     /\ \A i \in 1..Len(hits) :
                           kept[i] = IF hits[i].score >= MinScore
                                     THEN Append(kept[i - 1], hits[i]) ELSE kept[i - 1]
  <1> DEFINE n == Len(hits)
  <1> DEFINE add(out, i) == IF hits[i].score >= MinScore THEN Append(out, hits[i]) ELSE out
  <1> DEFINE step == [p \in Seq(Hits) \X (1..n) |-> add(p[1], p[2])]
  <1> DEFINE kept == CHOOSE kept :
                        kept = [i \in 0..n |-> IF i = 0 THEN <<>> ELSE add(kept[i - 1], i)]
  <1>1. n \in Nat
    OBVIOUS
  <1>2. Filtered(hits) = kept[n]
    BY DEF Filtered
  <1>3. \A out \in Seq(Hits), i \in 1..n : add(out, i) \in Seq(Hits)
    <2>1. \A i \in 1..n : hits[i] \in Hits
      OBVIOUS
    <2> QED
      BY <2>1, AppendProperties
  <1>4. \A out \in Seq(Hits), i \in 1..n : step[<<out, i>>] = add(out, i)
    OBVIOUS
  <1>5. <<>> \in Seq(Hits)
    OBVIOUS
  <1> HIDE DEF n, add, step
  <1>6. StaysIn(step, Seq(Hits), n)
    BY <1>3, <1>4 DEF StaysIn
  <1>7. PICK f : Solves(f, step, Seq(Hits), <<>>, n)
    BY <1>1, <1>5, <1>6, Recursion
  <1>8. f = [i \in 0..n |-> IF i = 0 THEN <<>> ELSE add(f[i - 1], i)]
    <2>1. \A i \in 0..n : i = 0 \/ (i \in 1..n /\ i - 1 \in 0..n)
      BY <1>1
    <2>2. \A i \in 1..n : f[i] = add(f[i - 1], i)
      <3> TAKE i \in 1..n
      <3>1. f[i - 1] \in Seq(Hits)
        <4>1. i - 1 \in 0..n
          BY <1>1
        <4> QED
          BY <1>7, <4>1 DEF Solves
      <3> QED
        BY <1>4, <1>7, <3>1 DEF Solves
    <2> QED
      BY <1>7, <2>1, <2>2 DEF Solves
  <1>9. kept = [i \in 0..n |-> IF i = 0 THEN <<>> ELSE add(kept[i - 1], i)]
    BY <1>8
  <1> HIDE DEF kept
  <1>10. kept[0] = <<>> /\ \A i \in 1..n : kept[i] = add(kept[i - 1], i)
    <2>1. 0 \in 0..n /\ \A i \in 1..n : i \in 0..n /\ i # 0
      BY <1>1
    <2> QED
      BY <1>9, <2>1
  <1> QED
    BY <1>2, <1>10 DEF n, add

\* Of hits that descend, the filter keeps the first ones: the rest is weaker
\* than the minimum.
LEMMA FilteredPrefix ==
    ASSUME NEW hits \in Seq(Hits), Descending(hits)
    PROVE  \E m \in 0..Len(hits) :
              /\ Filtered(hits) = SubSeq(hits, 1, m)
              /\ \A k \in 1..m : hits[k].score >= MinScore
              /\ m < Len(hits) => hits[m + 1].score < MinScore
  <1> DEFINE n == Len(hits)
  <1>1. n \in Nat /\ MinScore \in Nat
    BY RetrievalAssumption
  <1>2. PICK kept : /\ Filtered(hits) = kept[n]
                    /\ kept[0] = <<>>
                    /\ \A i \in 1..n :
                          kept[i] = IF hits[i].score >= MinScore
                                    THEN Append(kept[i - 1], hits[i]) ELSE kept[i - 1]
    BY FilteredDef
  <1>3. \A i \in 1..n : hits[i].score \in Nat
    <2>1. \A i \in 1..n : hits[i] \in Hits
      OBVIOUS
    <2> QED
      BY <2>1 DEF Hits
  <1>4. \A j \in 1..n : \A i \in 1..j : hits[i].score >= hits[j].score
    BY DescendingPairs
  <1> DEFINE First(i, m) == /\ kept[i] = SubSeq(hits, 1, m)
                            /\ \A k \in 1..m : hits[k].score >= MinScore
                            /\ m < i => hits[m + 1].score < MinScore
  <1> DEFINE T == {i \in Nat : i <= n => \E m \in 0..i : First(i, m)}
  <1>5. 0 \in T
    <2>1. SubSeq(hits, 1, 0) = <<>>
      BY SubSeqEmpty
    <2>2. First(0, 0)
      BY <1>2, <2>1
    <2>3. 0 \in 0..0
      OBVIOUS
    <2> HIDE DEF First
    <2> QED
      BY <2>2, <2>3
  <1>6. ASSUME NEW i \in Nat, i < n, i \in T PROVE i + 1 \in T
    <2>1. PICK m \in 0..i : First(i, m)
      BY <1>6
    <2>2. i + 1 \in 1..n /\ (i + 1) - 1 = i /\ m \in Nat /\ m <= i
      BY <1>1, <1>6
    <2>3. kept[i + 1] = IF hits[i + 1].score >= MinScore
                        THEN Append(kept[i], hits[i + 1]) ELSE kept[i]
      BY <1>2, <2>2
    <2>4. CASE hits[i + 1].score >= MinScore
      <3>1. m = i
        <4>1. m < i => m + 1 \in 1..(i + 1)
          BY <2>2
        <4>2. m < i => hits[m + 1].score >= hits[i + 1].score /\ hits[m + 1].score < MinScore
          BY <1>4, <2>1, <2>2, <4>1
        <4>3. m < i => m + 1 \in 1..n
          BY <1>1, <1>6, <2>2
        <4> QED
          BY <1>1, <1>3, <2>2, <2>4, <4>2, <4>3
      <3>2. Append(SubSeq(hits, 1, i), hits[i + 1]) = SubSeq(hits, 1, i + 1)
        BY <1>6, <2>2
      <3>3. \A k \in 1..(i + 1) : k \in 1..m \/ k = i + 1
        BY <2>2, <3>1
      <3>4. First(i + 1, i + 1)
        BY <2>1, <2>2, <2>3, <2>4, <3>1, <3>2, <3>3
      <3>5. i + 1 \in 0..(i + 1)
        BY <2>2
      <3> HIDE DEF First
      <3> QED
        BY <3>4, <3>5
    <2>5. CASE ~(hits[i + 1].score >= MinScore)
      <3>1. hits[i + 1].score < MinScore
        BY <1>1, <1>3, <2>2, <2>5
      <3>2. m = i \/ m < i
        BY <2>2
      <3>3. First(i + 1, m)
        BY <2>1, <2>3, <2>5, <3>1, <3>2
      <3>4. m \in 0..(i + 1)
        BY <2>2
      <3> QED
        BY <3>3, <3>4
    <2> QED
      BY <2>4, <2>5
  <1> HIDE DEF T
  <1>7. n \in T
    <2>1. 0..n \subseteq T
      BY <1>1, <1>5, <1>6, UpTo
    <2> QED
      BY <1>1, <2>1
  <1> QED
    BY <1>1, <1>2, <1>7 DEF T

\* A set of numbers that is not empty has a least element.
LEMMA LeastElement ==
    ASSUME NEW S, S \subseteq Nat, S # {}
    PROVE  Min(S) \in S /\ \A k \in S : Min(S) <= k
  <1>1. ASSUME \A m \in S : \E k \in S : ~(m <= k) PROVE FALSE
    <2> DEFINE T == {i \in Nat : \A k \in S : k > i}
    <2>1. 0 \in T
      <3> SUFFICES ASSUME 0 \in S PROVE FALSE
        OBVIOUS
      <3>1. \A k \in S : 0 <= k
        OBVIOUS
      <3> QED
        BY <1>1, <3>1
    <2>2. ASSUME NEW i \in Nat, i \in T PROVE i + 1 \in T
      <3>1. \A k \in S : i + 1 <= k
        BY <2>2
      <3>2. i + 1 \notin S
        BY <1>1, <3>1
      <3>3. \A k \in S : k \in Nat /\ k # i + 1
        BY <3>2
      <3> QED
        BY <3>1, <3>3
    <2>3. PICK n \in S : TRUE
      OBVIOUS
    <2>4. n \in Nat
      BY <2>3
    <2> HIDE DEF T
    <2>5. 0..n \subseteq T
      BY <2>1, <2>2, <2>4, UpTo
    <2>6. n \in T
      BY <2>4, <2>5
    <2> QED
      BY <2>3, <2>4, <2>6 DEF T
  <1>2. \E m \in S : \A k \in S : m <= k
    BY <1>1
  <1> QED
    BY <1>2 DEF Min

\* The budget keeps the first hits: one, or as many as fit.
LEMMA TrimPrefix ==
    ASSUME Kept, NEW hits \in Seq(Hits)
    PROVE  \E m \in 0..Len(hits) :
              /\ Trim(hits) = SubSeq(hits, 1, m)
              /\ m <= 1 \/ Chars(SubSeq(hits, 1, m)) <= MaxContext
              /\ Len(hits) >= 1 => m >= 1
  <1> DEFINE n == Len(hits)
  <1> DEFINE over == {i \in 2..n : Used(hits)[i] > MaxContext}
  <1>1. n \in Nat /\ MaxContext \in Nat
    BY RetrievalAssumption
  <1>2. ASSUME NEW m \in 0..n, m \notin over
        PROVE  m <= 1 \/ Chars(SubSeq(hits, 1, m)) <= MaxContext
    <2>1. Chars(SubSeq(hits, 1, m)) = Used(hits)[m]
      BY UsedPrefix
    <2>2. Used(hits)[m] \in Nat
      BY UsedDef
    <2>3. m <= 1 \/ m \in 2..n
      BY <1>1
    <2> QED
      BY <1>1, <1>2, <2>1, <2>2, <2>3
  <1>3. CASE over = {}
    <2>1. Trim(hits) = hits /\ hits = SubSeq(hits, 1, n)
      BY <1>3, SubSeqFull DEF Trim, Before
    <2>2. n \in 0..n /\ n \notin over
      BY <1>1, <1>3
    <2>3. n <= 1 \/ Chars(SubSeq(hits, 1, n)) <= MaxContext
      BY <1>2, <2>2
    <2> QED
      BY <2>1, <2>2, <2>3
  <1>4. CASE over # {}
    <2> DEFINE m == Min(over) - 1
    <2>1. Trim(hits) = SubSeq(hits, 1, m)
      BY <1>4 DEF Trim, Before
    <2>2. over \subseteq Nat /\ over \subseteq 2..n
      OBVIOUS
    <2>3. Min(over) \in over /\ \A k \in over : Min(over) <= k
      <3> HIDE DEF over
      <3> QED
        BY <1>4, <2>2, LeastElement
    <2>4. m \in 0..n /\ m \notin over /\ m >= 1
      <3> HIDE DEF over
      <3>1. Min(over) \in 2..n
        BY <2>2, <2>3
      <3>2. Min(over) \in Nat /\ ~(Min(over) <= m)
        BY <3>1
      <3> QED
        BY <1>1, <2>3, <3>1, <3>2
    <2> HIDE DEF m
    <2>5. m <= 1 \/ Chars(SubSeq(hits, 1, m)) <= MaxContext
      BY <1>2, <2>4
    <2> QED
      BY <2>1, <2>4, <2>5
  <1> QED
    BY <1>3, <1>4

\* What the model is given are the first of all chunks by similarity: all of
\* them reach the minimum, they fit, and there is one whenever one reaches it.
LEMMA ContextPrefix ==
    ASSUME Kept, NEW q \in Seq(Hits), Descending(q)
    PROVE  \E m \in 0..Len(q) :
              /\ Context(SubSeq(q, 1, Smaller(TopK, Len(q)))) = SubSeq(q, 1, m)
              /\ m <= 1 \/ Chars(SubSeq(q, 1, m)) <= MaxContext
              /\ \A k \in 1..m : q[k].score >= MinScore
              /\ Len(q) >= 1 /\ q[1].score >= MinScore => m >= 1
  <1> DEFINE n == Len(q)
  <1> DEFINE top == Smaller(TopK, n)
  <1> DEFINE hits == SubSeq(q, 1, top)
  <1>1. n \in Nat /\ TopK \in Nat \ {0} /\ TopKFinal \in Nat \ {0} /\ MinScore \in Nat
    BY RetrievalAssumption
  <1>2. top \in 0..n /\ (n >= 1 => top >= 1)
    BY <1>1 DEF Smaller
  <1> HIDE DEF top
  <1>3. /\ hits \in Seq(Hits) /\ Len(hits) = top
        /\ \A i \in 1..top : hits[i] = q[i]
    BY <1>1, <1>2
  <1>4. Descending(hits)
    <2> SUFFICES ASSUME NEW i \in 2..top PROVE hits[i - 1].score >= hits[i].score
      BY <1>3 DEF Descending
    <2>1. i \in 2..n /\ i \in 1..top /\ i - 1 \in 1..top
      BY <1>1, <1>2
    <2>2. q[i - 1].score >= q[i].score
      BY <2>1 DEF Descending
    <2> QED
      BY <1>3, <2>1, <2>2
  <1>5. \A m \in 0..top : SubSeq(hits, 1, m) = SubSeq(q, 1, m)
    BY <1>2, FirstOfFirst
  <1> HIDE DEF hits
  <1>6. PICK f \in 0..top :
           /\ Filtered(hits) = SubSeq(hits, 1, f)
           /\ \A k \in 1..f : hits[k].score >= MinScore
           /\ f < top => hits[f + 1].score < MinScore
    BY <1>3, <1>4, FilteredPrefix
  <1> DEFINE cut == SubSeq(Filtered(hits), 1, Smaller(TopKFinal, Len(Filtered(hits))))
  <1> DEFINE c == Smaller(TopKFinal, f)
  <1>7. c \in 0..f /\ (f >= 1 => c >= 1)
    BY <1>1, <1>2 DEF Smaller
  <1>8. cut = SubSeq(hits, 1, c)
    <2>1. Len(Filtered(hits)) = f
      BY <1>2, <1>3, <1>6
    <2>2. cut = SubSeq(SubSeq(hits, 1, f), 1, c)
      BY <1>6, <2>1
    <2> HIDE DEF c
    <2> QED
      BY <1>3, <1>6, <1>7, <2>2, FirstOfFirst
  <1> HIDE DEF c
  <1>9. cut \in Seq(Hits) /\ Len(cut) = c
    <2>1. c \in 0..Len(hits) /\ 0 \in 0..c
      BY <1>2, <1>3, <1>7
    <2> HIDE DEF cut
    <2> QED
      BY <1>3, <1>8, <2>1, FirstOfFirst
  <1>10. Context(hits) = Trim(cut)
    BY DEF Context
  <1> HIDE DEF cut
  <1>11. PICK m \in 0..c :
            /\ Trim(cut) = SubSeq(cut, 1, m)
            /\ m <= 1 \/ Chars(SubSeq(cut, 1, m)) <= MaxContext
            /\ c >= 1 => m >= 1
    BY <1>9, TrimPrefix
  <1>12. m \in 0..top /\ m \in 0..f /\ m \in 0..n
    BY <1>1, <1>2, <1>7
  <1>13. SubSeq(cut, 1, m) = SubSeq(q, 1, m)
    <2>1. SubSeq(cut, 1, m) = SubSeq(hits, 1, m)
      BY <1>2, <1>3, <1>7, <1>8
    <2> QED
      BY <1>5, <1>12, <2>1
  <1>14. \A k \in 1..m : q[k].score >= MinScore
    BY <1>1, <1>2, <1>3, <1>6, <1>12
  <1>15. ASSUME n >= 1, q[1].score >= MinScore PROVE m >= 1
    <2>1. 1 \in 1..top /\ hits[1] = q[1]
      BY <1>1, <1>2, <1>3, <1>15
    <2>2. q[1].score \in Nat
      <3>1. q[1] \in Hits
        BY <1>1, <1>15
      <3> QED
        BY <3>1 DEF Hits
    <2>3. f # 0
      <3> SUFFICES ASSUME f = 0 PROVE FALSE
        OBVIOUS
      <3>1. f + 1 = 1 /\ f < top
        BY <1>1, <1>2, <2>1
      <3>2. hits[1].score < MinScore
        BY <1>6, <3>1
      <3> QED
        BY <1>1, <1>15, <2>1, <2>2, <3>2
    <2> QED
      BY <1>7, <1>11, <2>3
  <1> QED
    BY <1>10, <1>11, <1>12, <1>13, <1>14, <1>15 DEF hits, top

\* Sorted by their index the vectors of a batch are those of its texts, in order.
LEMMA InOrderIs ==
    ASSUME NEW a \in Nat, NEW b \in Nat, a <= b, NEW data \in SetToSeqs((a + 1)..b)
    PROVE  InOrder(data) = [i \in 1..(b - a) |-> a + i]
  <1> DEFINE S == (a + 1)..b
  <1> DEFINE n == b - a
  <1> DEFINE w == [i \in 1..n |-> a + i]
  <1> DEFINE Up(s) == \A i \in 2..Len(s) : s[i - 1] < s[i]
  <1>1. n \in Nat
    OBVIOUS
  <1>2. IsFiniteSet(S) /\ Cardinality(S) = n
    <2>1. a + 1 \in Int /\ b \in Int
      OBVIOUS
    <2>2. Cardinality(S) = IF a + 1 > b THEN 0 ELSE b - (a + 1) + 1
      BY <2>1, FS_Interval
    <2>3. IsFiniteSet(S)
      BY <2>1, FS_Interval
    <2> QED
      BY <2>2, <2>3
  <1>3. {data[i] : i \in DOMAIN data} = S
    <2>1. data \in Seq(S) /\ \A x \in S : \E i \in 1..Len(data) : data[i] = x
      <3> HIDE DEF S
      <3> QED
        BY <1>2, SetToSeqsLists DEF S
    <2> HIDE DEF S
    <2>2. DOMAIN data = 1..Len(data) /\ \A i \in 1..Len(data) : data[i] \in S
      BY <2>1
    <2> QED
      BY <2>1, <2>2
  <1>4. w \in SetToSeqs(S) /\ Up(w)
    <2>1. w \in [1..n -> S] /\ \A i, j \in 1..n : i # j => w[i] # w[j]
      OBVIOUS
    <2>2. Len(w) = n
      BY <1>1
    <2>3. w \in SetToSeqs(S)
      <3> HIDE DEF S, w, n
      <3> QED
        BY <1>2, <2>1 DEF SetToSeqs
    <2>4. \A i \in 2..n : w[i - 1] < w[i]
      BY <1>1
    <2> QED
      BY <2>2, <2>3, <2>4
  <1> DEFINE s == InOrder(data)
  <1>5. s \in SetToSeqs(S) /\ Up(s)
    <2>1. s = CHOOSE q \in SetToSeqs(S) : Up(q)
      <3> HIDE DEF S
      <3> QED
        BY <1>3 DEF InOrder
    <2> HIDE DEF S, w, Up, s
    <2> QED
      BY <1>4, <2>1
  <1>6. s \in [1..n -> S] /\ Len(s) = n
    <2> HIDE DEF S, s, n
    <2>1. s \in [1..n -> S]
      BY <1>2, <1>5 DEF SetToSeqs
    <2> QED
      BY <1>1, <2>1
  <1>7. \A i \in 2..n : s[i - 1] < s[i]
    BY <1>5, <1>6
  <1> HIDE DEF s
  <1>8. \A i \in 1..n : s[i] \in Nat /\ a + 1 <= s[i] /\ s[i] <= b
    BY <1>6
  <1> DEFINE T == {i \in Nat : i + 1 <= n => s[i + 1] >= a + (i + 1)}
  <1>9. \A i \in 1..n : s[i] >= a + i
    <2>1. 0 \in T
      BY <1>1, <1>8
    <2>2. ASSUME NEW i \in Nat, i < n, i \in T PROVE i + 1 \in T
      <3> SUFFICES ASSUME i + 2 <= n PROVE s[i + 2] >= a + (i + 2)
        OBVIOUS
      <3>1. i + 1 \in 1..n /\ i + 2 \in 2..n /\ i + 2 \in 1..n /\ (i + 2) - 1 = i + 1
        BY <1>1
      <3>2. s[i + 1] >= a + (i + 1) /\ s[i + 1] < s[i + 2]
        BY <1>7, <2>2, <3>1
      <3> QED
        BY <1>8, <3>1, <3>2
    <2> HIDE DEF T
    <2>3. 0..n \subseteq T
      BY <1>1, <2>1, <2>2, UpTo
    <2> TAKE i \in 1..n
    <2>4. i - 1 \in 0..n /\ (i - 1) + 1 = i /\ i <= n
      BY <1>1
    <2>5. i - 1 \in T
      BY <2>3, <2>4
    <2> QED
      BY <2>4, <2>5 DEF T
  <1> DEFINE D == {d \in Nat : d < n => s[n - d] <= b - d}
  <1>10. \A i \in 1..n : s[i] <= a + i
    <2>1. 0 \in D
      BY <1>1, <1>8
    <2>2. ASSUME NEW d \in Nat, d < n, d \in D PROVE d + 1 \in D
      <3> SUFFICES ASSUME d + 1 < n PROVE s[n - (d + 1)] <= b - (d + 1)
        OBVIOUS
      <3>1. /\ n - d \in 2..n /\ n - d \in 1..n /\ n - (d + 1) \in 1..n
            /\ n - (d + 1) = (n - d) - 1
        BY <1>1
      <3>2. s[n - d] <= b - d /\ s[n - (d + 1)] < s[n - d]
        BY <1>7, <2>2, <3>1
      <3> QED
        BY <1>8, <3>1, <3>2
    <2> HIDE DEF D
    <2>3. 0..n \subseteq D
      BY <1>1, <2>1, <2>2, UpTo
    <2> TAKE i \in 1..n
    <2>4. n - i \in 0..n /\ n - (n - i) = i /\ n - i < n /\ b - (n - i) = a + i
      BY <1>1
    <2>5. n - i \in D
      BY <2>3, <2>4
    <2> QED
      BY <2>4, <2>5 DEF D
  <1>11. \A i \in 1..n : s[i] = a + i
    BY <1>8, <1>9, <1>10
  <1>12. s = [i \in 1..n |-> a + i]
    <2> HIDE DEF n
    <2> QED
      BY <1>6, <1>11
  <1> QED
    BY <1>12 DEF s

-----------------------------------------------------------------------------
(* The invariant                                                             *)

\* The vectors so far are those of the first chunks, in order.
Embedded == vectors \in Seq(Nat) /\ \A k \in 1..Len(vectors) : vectors[k] = k

\* There is nothing to cite before there is an answer, and an answer only
\* about a whole text.
AnswerLast ==
    /\ verdict = "none" => context = <<>> /\ cites = <<>>
    /\ verdict # "none" => done

Answers == CitesOwnScore /\ ContextFits /\ NothingNearerLeftOut /\ AbstainsOnlyWhenWeak

RetrievalInv == Embedded /\ AnswerLast /\ Answers

\* The answer of query_similar is the head of a list of all chunks, each with
\* its own similarity, nearest first.
LEMMA NearestRanks ==
    ASSUME Kept, Embedded, Len(vectors) = Len(chunks),
           NEW sim \in [DOMAIN chunks -> Scores], NEW hits \in Nearest(sim)
    PROVE  \E q \in Seq(Hits) :
              /\ Descending(q)
              /\ hits = SubSeq(q, 1, Smaller(TopK, Len(q)))
              /\ \A i \in 1..Len(q) : q[i].score = sim[q[i].chunk]
              /\ \A k \in DOMAIN chunks : \E i \in 1..Len(q) : q[i].chunk = k
  <1> DEFINE n == Len(chunks)
  <1> DEFINE hit == [k \in 1..n |-> [chunk |-> k, score |-> sim[vectors[k]]]]
  <1> DEFINE S == {hit[k] : k \in 1..n}
  <1>1. n \in Nat /\ DOMAIN chunks = 1..n
    BY DEF Kept
  <1>2. \A k \in 1..n : /\ hit[k] \in Hits
                        /\ hit[k].chunk = k /\ hit[k].score = sim[k]
    <2> TAKE k \in 1..n
    <2>1. vectors[k] = k
      BY DEF Embedded
    <2>2. sim[k] \in Nat
      BY <1>1, RetrievalAssumption
    <2>3. hit[k] = [chunk |-> k, score |-> sim[k]]
      BY <2>1
    <2> QED
      BY <1>1, <2>2, <2>3 DEF Hits
  <1>3. S = {[chunk |-> k, score |-> sim[vectors[k]]] : k \in DOMAIN chunks}
    BY <1>1
  <1> HIDE DEF hit
  <1>4. IsFiniteSet(S)
    <2> DEFINE T == {i \in Nat : i <= n => IsFiniteSet({hit[k] : k \in 1..i})}
    <2>1. 0 \in T
      <3>1. {hit[k] : k \in 1..0} = {}
        OBVIOUS
      <3> QED
        BY <3>1, FS_EmptySet
    <2>2. ASSUME NEW i \in Nat, i < n, i \in T PROVE i + 1 \in T
      <3>1. 1..(i + 1) = 1..i \cup {i + 1}
        OBVIOUS
      <3>2. {hit[k] : k \in 1..(i + 1)} = {hit[k] : k \in 1..i} \cup {hit[i + 1]}
        BY <3>1
      <3>3. IsFiniteSet({hit[k] : k \in 1..i})
        BY <2>2
      <3>4. IsFiniteSet({hit[k] : k \in 1..i} \cup {hit[i + 1]})
        BY <3>3, FS_AddElement
      <3>5. IsFiniteSet({hit[k] : k \in 1..(i + 1)})
        BY <3>2, <3>4
      <3> QED
        BY <3>5
    <2> HIDE DEF T
    <2>3. 0..n \subseteq T
      BY <1>1, <2>1, <2>2, UpTo
    <2>4. n \in T
      BY <1>1, <2>3
    <2> QED
      BY <1>1, <2>4 DEF T
  <1>5. PICK q \in SetToSeqs(S) : /\ Descending(q)
                                  /\ hits = SubSeq(q, 1, Smaller(TopK, Len(q)))
    BY <1>3 DEF Nearest, Descending
  <1>6. S \subseteq Hits
    BY <1>2
  <1>7. \A h \in S : h.chunk \in 1..n /\ h.score = sim[h.chunk]
    BY <1>2
  <1>8. \A k \in 1..n : \E h \in S : h.chunk = k
    BY <1>2
  <1> HIDE DEF S
  <1>9. /\ q \in Seq(S)
        /\ \A h \in S : \E i \in 1..Len(q) : q[i] = h
    BY <1>4, <1>5, SetToSeqsLists
  <1>10. q \in Seq(Hits)
    BY <1>6, <1>9, SeqMonotonic
  <1>11. \A i \in 1..Len(q) : q[i] \in S
    BY <1>9
  <1>12. \A i \in 1..Len(q) : q[i].score = sim[q[i].chunk]
    BY <1>7, <1>11
  <1>13. \A k \in DOMAIN chunks : \E i \in 1..Len(q) : q[i].chunk = k
    BY <1>1, <1>8, <1>9
  <1> QED
    BY <1>5, <1>10, <1>12, <1>13

\* A request to the provider leaves the vectors in the order of the chunks.
LEMMA EmbedBatchKeeps ==
    ASSUME Kept, Embedded, EmbedBatch
    PROVE  Embedded'
  <1> DEFINE sent == Len(vectors)
  <1> DEFINE m == Smaller(sent + Batch, Len(chunks))
  <1>1. sent \in Nat /\ Len(chunks) \in Nat /\ sent < Len(chunks) /\ Batch \in Nat
    BY RetrievalAssumption DEF Kept, Embedded, EmbedBatch
  <1>2. m \in Nat /\ sent <= m
    BY <1>1 DEF Smaller
  <1>3. PICK data \in SetToSeqs((sent + 1)..m) : vectors' = vectors \o InOrder(data)
    BY DEF EmbedBatch
  <1> HIDE DEF m
  <1>4. InOrder(data) = [i \in 1..(m - sent) |-> sent + i]
    <2> HIDE DEF sent
    <2> QED
      BY <1>1, <1>2, InOrderIs
  <1> DEFINE batch == InOrder(data)
  <1>5. /\ batch \in Seq(Nat) /\ Len(batch) = m - sent
        /\ \A i \in 1..(m - sent) : batch[i] = sent + i
    BY <1>1, <1>2, <1>4
  <1> HIDE DEF batch
  <1>6. vectors \in Seq(Nat) /\ \A k \in 1..sent : vectors[k] = k
    BY DEF Embedded
  <1>7. vectors \o batch \in Seq(Nat) /\ Len(vectors \o batch) = m
    BY <1>1, <1>2, <1>5, <1>6
  <1>8. \A k \in 1..m : (vectors \o batch)[k] = k
    <2> TAKE k \in 1..m
    <2>1. CASE k <= sent
      BY <1>1, <1>5, <1>6, <2>1
    <2>2. CASE k > sent
      <3>1. k - sent \in 1..(m - sent)
        BY <1>1, <1>2, <2>2
      <3>2. (vectors \o batch)[k] = batch[k - sent]
        BY <1>1, <1>2, <1>5, <1>6, <2>2
      <3> QED
        BY <1>1, <1>5, <3>1, <3>2
    <2>3. k <= sent \/ k > sent
      BY <1>1, <1>2
    <2> QED
      BY <2>1, <2>2, <2>3
  <1>9. vectors' = vectors \o batch
    BY <1>3 DEF batch
  <1> QED
    BY <1>7, <1>8, <1>9 DEF Embedded

\* An answer shows true scores, fits, leaves nothing nearer out, and is given
\* whenever there is evidence.
LEMMA AnswerIsRight ==
    ASSUME Kept, Embedded, Answer
    PROVE  Answers' /\ verdict' # "none"
  <1>1. /\ Len(vectors) = Len(chunks) /\ chunks' = chunks /\ vectors' = vectors
        /\ verdict' = Answerability(context') /\ cites' = Citations(context')
    BY DEF Answer, vars
  <1>2. PICK sim \in [DOMAIN chunks -> Scores] :
           near' = sim /\ \E hits \in Nearest(sim) : context' = Context(hits)
    BY DEF Answer
  <1>2a. PICK hits \in Nearest(sim) : context' = Context(hits)
    BY <1>2
  <1>3. PICK q \in Seq(Hits) :
           /\ Descending(q)
           /\ hits = SubSeq(q, 1, Smaller(TopK, Len(q)))
           /\ \A i \in 1..Len(q) : q[i].score = sim[q[i].chunk]
           /\ \A k \in DOMAIN chunks : \E i \in 1..Len(q) : q[i].chunk = k
    BY <1>1, NearestRanks
  <1>4. PICK m \in 0..Len(q) :
           /\ Context(hits) = SubSeq(q, 1, m)
           /\ m <= 1 \/ Chars(SubSeq(q, 1, m)) <= MaxContext
           /\ \A k \in 1..m : q[k].score >= MinScore
           /\ Len(q) >= 1 /\ q[1].score >= MinScore => m >= 1
    BY <1>3, ContextPrefix
  <1>5. PICK ctx : ctx = SubSeq(q, 1, m)
    OBVIOUS
  <1>6. /\ context' = ctx /\ verdict' = Answerability(ctx) /\ cites' = Citations(ctx)
    BY <1>1, <1>2a, <1>4, <1>5
  <1>7. /\ Len(ctx) = m /\ DOMAIN ctx = 1..m
        /\ \A i \in 1..m : i \in 1..Len(q) /\ ctx[i] = q[i]
    BY <1>5
  <1>8. \A i \in 1..Len(q) : /\ q[i].chunk \in DOMAIN chunks
                             /\ q[i].score \in Nat /\ q[i].score = sim[q[i].chunk]
    <2>1. \A i \in 1..Len(q) : q[i] \in Hits
      OBVIOUS
    <2> QED
      BY <1>3, <2>1 DEF Hits
  <1>9. \A j \in 1..Len(q) : \A i \in 1..j : q[i].score >= q[j].score
    BY <1>3, DescendingPairs
  <1>10. \A i \in DOMAIN cites' : i \in 1..m /\ cites'[i] = q[i]
    BY <1>6, <1>7 DEF Citations
  <1>11. CitesOwnScore'
    BY <1>2, <1>7, <1>8, <1>10 DEF CitesOwnScore
  <1>12. ContextFits'
    <2>1. Chars(context)' = Chars(ctx)
      BY <1>1, <1>6 DEF Chars, Used
    <2> QED
      BY <1>4, <1>5, <1>6, <1>7, <2>1 DEF ContextFits
  <1>13. NothingNearerLeftOut'
    <2> SUFFICES ASSUME NEW i \in DOMAIN cites', NEW k \in DOMAIN chunks,
                        sim[k] > cites'[i].score
                 PROVE  \E j \in DOMAIN cites' : cites'[j].chunk = k
      BY <1>1, <1>2 DEF NothingNearerLeftOut
    <2>1. cites' = ctx /\ i \in 1..m /\ cites'[i] = q[i]
      BY <1>6, <1>10 DEF Citations
    <2>2. PICK j \in 1..Len(q) : q[j].chunk = k
      BY <1>3
    <2>3. q[j].score > q[i].score /\ i \in 1..Len(q)
      BY <1>7, <1>8, <2>1, <2>2
    <2>4. j < i
      <3> SUFFICES ASSUME i <= j PROVE FALSE
        BY <2>3
      <3>1. i \in 1..j
        BY <2>1
      <3>2. q[i].score >= q[j].score
        BY <1>9, <3>1
      <3> QED
        BY <1>8, <2>3, <3>2
    <2>5. j \in 1..m
      BY <2>1, <2>4
    <2> QED
      BY <1>7, <2>1, <2>2, <2>5
  <1>14. /\ verdict' \in {"grounded", "insufficient_evidence"}
         /\ verdict' = "grounded" <=> ~Weak(ctx)
    BY <1>6 DEF Answerability
  <1>15. ~Weak(ctx) <=> \E k \in DOMAIN chunks : sim[k] >= MinScore /\ sim[k] >= Threshold
    <2>1. ASSUME ~Weak(ctx)
          PROVE  \E k \in DOMAIN chunks : sim[k] >= MinScore /\ sim[k] >= Threshold
      <3>1. PICK i \in 1..m : ~(q[i].score < Threshold)
        BY <1>7, <2>1 DEF Weak
      <3>2. q[i].score >= Threshold /\ q[i].score >= MinScore
        BY <1>4, <1>7, <1>8, <3>1, RetrievalAssumption
      <3> QED
        BY <1>7, <1>8, <3>1, <3>2
    <2>2. ASSUME NEW k \in DOMAIN chunks, sim[k] >= MinScore, sim[k] >= Threshold
          PROVE  ~Weak(ctx)
      <3>1. PICK j \in 1..Len(q) : q[j].chunk = k
        BY <1>3
      <3>2. q[j].score = sim[k] /\ 1 \in 1..j /\ 1 \in 1..Len(q)
        BY <1>8, <3>1
      <3>3. q[1].score >= q[j].score
        BY <1>9, <3>2
      <3>4. q[1].score >= MinScore /\ q[1].score >= Threshold
        BY <1>8, <2>2, <3>2, <3>3, RetrievalAssumption
      <3>5. 1 \in 1..m
        BY <1>4, <3>2, <3>4
      <3>6. ctx[1].score >= Threshold /\ 1 \in DOMAIN ctx /\ ctx[1].score \in Nat
        BY <1>7, <1>8, <3>2, <3>4, <3>5
      <3> QED
        BY <3>6, RetrievalAssumption DEF Weak
    <2> QED
      BY <2>1, <2>2
  <1>16. AbstainsOnlyWhenWeak'
    BY <1>1, <1>2, <1>14, <1>15 DEF AbstainsOnlyWhenWeak
  <1> QED
    BY <1>11, <1>12, <1>13, <1>14, <1>16 DEF Answers

-----------------------------------------------------------------------------
(* Theorems                                                                  *)

\* Embedding and answering leave the chunking alone: Retrieval does what
\* ChunkText does, step by step.
THEOREM RetrievalChunks == RetrievalSpec => Spec
  <1>1. RetrievalInit => Init
    BY DEF RetrievalInit
  <1>2. [RetrievalNext]_allVars => [Next]_vars
    BY DEF RetrievalNext, Chunking, EmbedBatch, Answer, Answered, Next, allVars, vars
  <1> QED
    BY <1>1, <1>2, PTL DEF RetrievalSpec, Spec

\* Nothing of a text is lost to its embeddings.
THEOREM RetrievalLosesNothing == RetrievalSpec => []NothingLost
  BY RetrievalChunks, ChunkingLosesNothing, PTL

\* The vectors are in the order of the chunks, and what is answered is right.
THEOREM RetrievalInvHolds == RetrievalSpec => []RetrievalInv
  <1>1. RetrievalInit => RetrievalInv
    <2> SUFFICES ASSUME RetrievalInit PROVE RetrievalInv
      OBVIOUS
    <2>1. vectors = <<>> /\ context = <<>> /\ cites = <<>> /\ verdict = "none"
      BY DEF RetrievalInit
    <2>2. Embedded /\ AnswerLast
      BY <2>1 DEF Embedded, AnswerLast
    <2>3. Answers
      BY <2>1 DEF Answers, CitesOwnScore, ContextFits, NothingNearerLeftOut, AbstainsOnlyWhenWeak
    <2> QED
      BY <2>2, <2>3 DEF RetrievalInv
  <1>2. Kept /\ RetrievalInv /\ [RetrievalNext]_allVars => RetrievalInv'
    <2> SUFFICES ASSUME Kept, RetrievalInv, [RetrievalNext]_allVars PROVE RetrievalInv'
      OBVIOUS
    <2>1. ASSUME UNCHANGED <<chunks, answer>> PROVE Answers'
      <3>1. /\ chunks' = chunks /\ near' = near /\ context' = context
            /\ verdict' = verdict /\ cites' = cites
        BY <2>1 DEF answer
      <3>2. CitesOwnScore' /\ NothingNearerLeftOut' /\ AbstainsOnlyWhenWeak'
        BY <3>1 DEF RetrievalInv, Answers, CitesOwnScore, NothingNearerLeftOut, AbstainsOnlyWhenWeak
      <3>3. ContextFits'
        BY <3>1 DEF RetrievalInv, Answers, ContextFits, Chars, Used
      <3> QED
        BY <3>2, <3>3 DEF Answers
    <2>2. CASE Chunking
      <3>1. /\ ~done /\ vectors' = vectors /\ near' = near /\ context' = context
            /\ verdict' = verdict /\ cites' = cites
        BY <2>2 DEF Chunking, Cut, answer
      <3>2. verdict' = "none" /\ context' = <<>> /\ cites' = <<>>
        BY <3>1 DEF RetrievalInv, AnswerLast
      <3>3. Embedded' /\ AnswerLast'
        BY <3>1, <3>2 DEF RetrievalInv, Embedded, AnswerLast
      <3>4. Answers'
        BY <3>2 DEF Answers, CitesOwnScore, ContextFits, NothingNearerLeftOut, AbstainsOnlyWhenWeak
      <3> QED
        BY <3>3, <3>4 DEF RetrievalInv
    <2>3. CASE EmbedBatch
      <3>1. UNCHANGED <<vars, answer>>
        BY <2>3 DEF EmbedBatch
      <3>2. Embedded'
        BY <2>3, EmbedBatchKeeps DEF RetrievalInv
      <3>3. AnswerLast'
        BY <3>1 DEF RetrievalInv, AnswerLast, vars, answer
      <3>4. UNCHANGED <<chunks, answer>>
        BY <3>1 DEF vars
      <3> QED
        BY <2>1, <3>2, <3>3, <3>4 DEF RetrievalInv
    <2>4. CASE Answer
      <3>1. done /\ UNCHANGED <<vars, vectors>>
        BY <2>4 DEF Answer
      <3>2. Answers' /\ verdict' # "none"
        BY <2>4, AnswerIsRight DEF RetrievalInv
      <3>3. AnswerLast' /\ Embedded'
        BY <3>1, <3>2 DEF RetrievalInv, AnswerLast, Embedded, vars
      <3> QED
        BY <3>2, <3>3 DEF RetrievalInv
    <2>5. CASE UNCHANGED allVars
      <3>1. UNCHANGED <<chunks, answer>> /\ UNCHANGED <<done, vectors>>
        BY <2>5 DEF allVars, vars
      <3>2. AnswerLast' /\ Embedded'
        BY <3>1 DEF RetrievalInv, AnswerLast, Embedded, answer
      <3> QED
        BY <2>1, <3>1, <3>2 DEF RetrievalInv
    <2> QED
      BY <2>2, <2>3, <2>4, <2>5 DEF RetrievalNext, Answered
  <1>3. Spec => []Kept
    <2>1. Inv => Kept
      BY DEF Inv
    <2> QED
      BY <2>1, InvHolds, PTL
  <1> QED
    BY <1>1, <1>2, <1>3, RetrievalChunks, PTL DEF RetrievalSpec

\* The score beside a quotation is that of the quoted text, whatever order the
\* provider lists the vectors in and however the texts fall into batches.
THEOREM CitedScoresAreTrue == RetrievalSpec => []CitesOwnScore
  BY RetrievalInvHolds, PTL DEF RetrievalInv, Answers

\* The evidence stays within its budget, or is one chunk.
THEOREM EvidenceFits == RetrievalSpec => []ContextFits
  BY RetrievalInvHolds, PTL DEF RetrievalInv, Answers

\* However the limits and the budget are set against each other, what is cited
\* is the nearest there is.
THEOREM NearestAreCited == RetrievalSpec => []NothingNearerLeftOut
  BY RetrievalInvHolds, PTL DEF RetrievalInv, Answers

\* However the limits and the budget are set, a question that a chunk could
\* answer is not turned away, and no other is answered.
THEOREM AbstentionIsRight == RetrievalSpec => []AbstainsOnlyWhenWeak
  BY RetrievalInvHolds, PTL DEF RetrievalInv, Answers

=============================================================================
