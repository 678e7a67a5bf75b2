--------------------------- MODULE ChunkTextProofs ---------------------------
(* Theorems about ChunkText, for every text and every value of the settings. *)
EXTENDS ChunkText, FiniteSetTheorems, SequenceTheorems, TLAPS

ChunkRow == [chars : SUBSET solid, len : Nat]

Positions == 
    /\ size \in Nat
    /\ solid \subseteq 0..(size - 1)
    /\ start \in Nat
    /\ done \in BOOLEAN
    /\ ~done => start < size

\* Every chunk is made of characters of the text.
Kept == chunks \in Seq(ChunkRow)

Inv == Positions /\ Kept /\ PassedCovered

-----------------------------------------------------------------------------
(* Lemmas about the operators of the model                                   *)

\* A piece ends in the text and behind its start.
LEMMA EndBounds ==
    ASSUME Positions, ~done
    PROVE  End \in Nat /\ start < End /\ End <= size
  BY SettingsAssumption DEF Positions, End

\* A stripped piece is a chunk, of all the characters between its ends.
LEMMA StripType ==
    ASSUME Positions, NEW from \in Nat, NEW to \in Nat
    PROVE  /\ Strip(from, to) \in ChunkRow
           /\ \A i \in solid : from <= i /\ i < to => i \in Strip(from, to).chars
  <1> DEFINE span(kept) ==
        {i \in from..(to - 1) : \E j, k \in kept : j <= i /\ i <= k}
  <1> DEFINE kept == {i \in solid : from <= i /\ i < to}
  <1>1. IsFiniteSet(from..(to - 1))
    BY FS_Interval
  <1>2. span(kept) \subseteq from..(to - 1)
    OBVIOUS
  <1>3. Cardinality(span(kept)) \in Nat
    BY <1>1, <1>2, FS_Subset, FS_CardinalityType
  <1>4. Strip(from, to) = [chars |-> kept, len |-> Cardinality(span(kept))]
    BY DEF Strip
  <1>5. kept \in SUBSET solid
    OBVIOUS
  <1> HIDE DEF span
  <1> QED
    BY <1>3, <1>4, <1>5 DEF ChunkRow

\* Adding a piece keeps the chunks of the text, and loses no character of them or of the piece.
LEMMA ExtendedKeeps ==
    ASSUME Kept, NEW piece \in ChunkRow
    PROVE  /\ Extended(piece) \in Seq(ChunkRow)
           /\ \A k \in DOMAIN chunks : /\ k \in DOMAIN Extended(piece)
                                       /\ chunks[k].chars \subseteq Extended(piece)[k].chars
           /\ \A i \in piece.chars :
                 \E k \in DOMAIN Extended(piece) : i \in Extended(piece)[k].chars
  <1>1. CASE piece.chars = {}
    BY <1>1 DEF Extended, Kept
  <1>2. CASE /\ piece.chars # {}
             /\ piece.len < MinChars /\ End # size /\ chunks # <<>>
    <2> DEFINE n == Len(chunks)
    <2> DEFINE out == [chunks EXCEPT ![n] = Joined(@, piece)]
    <2>1. Extended(piece) = out
      BY <1>2 DEF Extended
    <2>2. n \in DOMAIN chunks /\ chunks[n] \in ChunkRow
      BY <1>2, EmptySeq, LenProperties DEF Kept
    <2>3. Joined(chunks[n], piece) \in ChunkRow
      BY <2>2 DEF Joined, ChunkRow
    <2>4. out \in Seq(ChunkRow) /\ DOMAIN out = DOMAIN chunks
      BY <2>2, <2>3, ExceptSeq DEF Kept
    <2>5. out[n] = Joined(chunks[n], piece)
      BY <2>2
    <2>6. \A k \in DOMAIN chunks : k # n => out[k] = chunks[k]
      OBVIOUS
    <2>7. /\ chunks[n].chars \subseteq out[n].chars
          /\ piece.chars \subseteq out[n].chars
      BY <2>5 DEF Joined
    <2> HIDE DEF n, out
    <2> QED
      BY <2>1, <2>2, <2>4, <2>6, <2>7
  <1>3. CASE /\ piece.chars # {}
             /\ ~(piece.len < MinChars /\ End # size /\ chunks # <<>>)
    <2>1. Extended(piece) = Append(chunks, piece)
      BY <1>3 DEF Extended
    <2>2. /\ Append(chunks, piece) \in Seq(ChunkRow)
          /\ Len(Append(chunks, piece)) = Len(chunks) + 1
          /\ \A k \in 1..Len(chunks) : Append(chunks, piece)[k] = chunks[k]
          /\ Append(chunks, piece)[Len(chunks) + 1] = piece
      BY AppendProperties DEF Kept
    <2>3. /\ DOMAIN chunks = 1..Len(chunks) /\ Len(chunks) \in Nat
          /\ DOMAIN Append(chunks, piece) = 1..(Len(chunks) + 1)
      BY <2>2, LenProperties DEF Kept
    <2> QED
      BY <2>1, <2>2, <2>3
  <1> QED
    BY <1>1, <1>2, <1>3

\* The next piece starts no later than where this one ends.
LEMMA NextStartBounds ==
    ASSUME Positions, ~done, NEW out
    PROVE  NextStart(out) \in Nat /\ NextStart(out) <= End
  BY EndBounds, SettingsAssumption DEF NextStart, BackedUp

-----------------------------------------------------------------------------

\* Only the text left is cut, and what has been passed is in a chunk.
THEOREM InvHolds == Spec => []Inv
  <1>1. Init => Inv
    <2> SUFFICES ASSUME Init PROVE Inv
      OBVIOUS
    <2>1. size \in Nat /\ solid \subseteq 0..(size - 1) /\ start = 0
      BY SettingsAssumption DEF Init
    <2>2. Kept
      BY EmptySeq DEF Init, Kept
    <2>3. CASE solid = {}
      <3>1. done = TRUE
        BY <2>3 DEF Init
      <3> QED
        BY <2>1, <2>2, <2>3, <3>1 DEF Inv, Positions, PassedCovered
    <2>4. CASE solid # {}
      <3>1. done = FALSE
        BY <2>4 DEF Init
      <3>2. PICK i \in solid : TRUE
        BY <2>4
      <3>3. i \in 0..(size - 1)
        BY <2>1, <3>2
      <3>4. start < size
        BY <2>1, <3>3
      <3>5. Positions
        BY <2>1, <3>1, <3>4 DEF Positions
      <3>6. \A j \in solid : ~(done \/ j < start)
        BY <2>1, <3>1
      <3> QED
        BY <2>2, <3>5, <3>6 DEF Inv, PassedCovered
    <2> QED
      BY <2>3, <2>4
  <1>2. Inv /\ [Next]_vars => Inv'
    <2>1. ASSUME Inv, Cut PROVE Inv'
      <3> DEFINE piece == Strip(start, End)
      <3> DEFINE out == Extended(piece)
      <3>1. Positions /\ Kept /\ ~done
        BY <2>1 DEF Inv, Cut
      <3>2. End \in Nat /\ start < End /\ End <= size /\ start \in Nat
        BY <3>1, EndBounds DEF Positions
      <3>3. /\ piece \in ChunkRow
            /\ \A i \in solid : start <= i /\ i < End => i \in piece.chars
        BY <3>1, <3>2, StripType
      <3>4. /\ out \in Seq(ChunkRow)
            /\ \A k \in DOMAIN chunks : k \in DOMAIN out /\ chunks[k].chars \subseteq out[k].chars
            /\ \A i \in piece.chars : \E k \in DOMAIN out : i \in out[k].chars
        BY <3>1, <3>3, ExtendedKeeps
      <3>5. chunks' = out /\ size' = size /\ solid' = solid
        BY <2>1 DEF Cut
      <3> HIDE DEF piece, out
      <3>6. NextStart(out) \in Nat /\ NextStart(out) <= End
        BY <3>1, NextStartBounds
      <3>7. \/ End >= size /\ done' = TRUE /\ start' = start
            \/ End < size /\ done' = FALSE /\ start' = NextStart(out)
        BY <2>1, <3>1, <3>2, <3>5 DEF Cut, Positions
      <3>8. Positions'
        <4>1. size' \in Nat /\ solid' \subseteq 0..(size' - 1)
          BY <3>1, <3>5 DEF Positions
        <4>2. CASE done' = TRUE /\ start' = start
          BY <3>2, <4>1, <4>2 DEF Positions
        <4>3. CASE End < size /\ done' = FALSE /\ start' = NextStart(out)
          <5>1. start' \in Nat /\ start' < size'
            BY <3>1, <3>2, <3>5, <3>6, <4>3 DEF Positions
          <5> QED
            BY <4>1, <4>3, <5>1 DEF Positions
        <4> QED
          BY <3>7, <4>2, <4>3
      <3>9. Kept'
        BY <3>4, <3>5 DEF Kept, ChunkRow
      <3>10. PassedCovered'
        <4>1. \A i \in solid : i < End => \E k \in DOMAIN out : i \in out[k].chars
          <5> TAKE i \in solid
          <5>1. i \in Nat
            BY <3>1 DEF Positions
          <5>2. CASE i < start
            BY <2>1, <3>4, <5>2 DEF Inv, PassedCovered
          <5>3. CASE start <= i
            BY <3>3, <3>4, <5>3
          <5> QED
            BY <3>2, <5>1, <5>2, <5>3
        <4>2. \A i \in solid : (done' \/ i < start') => i < End
          BY <3>1, <3>2, <3>6, <3>7 DEF Positions
        <4> QED
          BY <3>5, <4>1, <4>2 DEF PassedCovered
      <3> QED
        BY <3>8, <3>9, <3>10 DEF Inv
    <2>2. ASSUME Inv, UNCHANGED vars PROVE Inv'
      BY <2>2 DEF Inv, Positions, Kept, ChunkRow, PassedCovered, vars
    <2> QED
      BY <2>1, <2>2 DEF Next, Done
  <1> QED
    BY <1>1, <1>2, PTL DEF Spec

\* Nothing of a page is lost, whatever its length and the settings, an overlap
\* longer than a piece included.
THEOREM ChunkingLosesNothing == Spec => []NothingLost
  <1>1. Inv => NothingLost
    <2> SUFFICES ASSUME Inv, done
                 PROVE  solid = UNION {chunks[k].chars : k \in DOMAIN chunks}
      BY DEF NothingLost
    <2>1. \A k \in DOMAIN chunks : chunks[k].chars \subseteq solid
      <3>1. chunks \in Seq(ChunkRow)
        BY DEF Inv, Kept
      <3>2. \A k \in DOMAIN chunks : chunks[k] \in ChunkRow
        BY <3>1
      <3> QED
        BY <3>2 DEF ChunkRow
    <2>2. \A i \in solid : \E k \in DOMAIN chunks : i \in chunks[k].chars
      BY DEF Inv, PassedCovered
    <2> QED
      BY <2>1, <2>2
  <1> QED
    BY <1>1, InvHolds, PTL

\* With an overlap shorter than a piece every iteration advances: there is no
\* text on which the loop goes round in one place.
THEOREM ShortOverlapAdvances ==
    ASSUME Overlap < MaxChars
    PROVE  Spec => AlwaysAdvances
  <1>1. Inv /\ [Next]_vars => [done' \/ start' > start]_vars
    <2>1. ASSUME Inv, Cut PROVE done' \/ start' > start
      <3>1. Positions /\ ~done
        BY <2>1 DEF Inv, Cut
      <3>2. CASE End >= size
        BY <2>1, <3>2 DEF Cut
      <3>3. CASE ~(End >= size)
        <4>1. start' = NextStart(chunks')
          BY <2>1, <3>3 DEF Cut
        <4>2. End = start + MaxChars
          BY <3>1, <3>3 DEF End, Positions
        <4>3. start \in Nat /\ MaxChars \in Nat \ {0} /\ Overlap \in Nat
          BY <3>1, SettingsAssumption DEF Positions
        <4>4. start < End /\ start < End - Overlap
          BY <4>2, <4>3
        <4>5. BackedUp = End - Overlap
          BY <4>2, <4>3, <4>4 DEF BackedUp
        <4>6. start' = End \/ start' = BackedUp
          BY <4>1 DEF NextStart
        <4> QED
          BY <4>4, <4>5, <4>6
      <3> QED
        BY <3>2, <3>3
    <2> QED
      BY <2>1 DEF Next, Done, vars
  <1> QED
    BY <1>1, InvHolds, PTL DEF Spec, AlwaysAdvances

-----------------------------------------------------------------------------
(* What neighbouring chunks share                                            *)

\* While the loop goes on, no chunk reaches further than the overlap behind the
\* next start; and a chunk begins where the one before it reaches no further.
Reach ==
    /\ ~done => \A k \in DOMAIN chunks : \A i \in chunks[k].chars : i < start + Overlap
    /\ \A k \in 1..(Len(chunks) - 1) :
          \E s \in 0..start : /\ \A i \in chunks[k].chars : i < s + Overlap
                              /\ \A i \in chunks[k + 1].chars : i >= s

\* An iteration that is not the last moves no chunk's end out of reach, when the
\* overlap is no longer than a piece.
LEMMA StartReaches ==
    ASSUME Overlap <= MaxChars, Positions, ~done, End < size, NEW out
    PROVE  /\ NextStart(out) \in Nat /\ start <= NextStart(out)
           /\ End <= NextStart(out) + Overlap
  <1>1. End = start + MaxChars /\ start \in Nat
    BY DEF End, Positions
  <1>2. BackedUp \in Nat /\ start <= BackedUp /\ End <= BackedUp + Overlap
    BY <1>1, SettingsAssumption DEF BackedUp
  <1> QED
    BY <1>1, <1>2, SettingsAssumption DEF NextStart

LEMMA ReachStep ==
    ASSUME Overlap <= MaxChars, Inv, Reach, Cut
    PROVE  Reach'
  <1> DEFINE piece == Strip(start, End)
             out   == Extended(piece)
             L     == Len(chunks)
  <1>1. Positions /\ Kept /\ ~done /\ chunks' = out /\ size' = size /\ solid' = solid
    BY DEF Inv, Cut
  <1>2. End \in Nat /\ start < End /\ End <= size /\ start \in Nat /\ Overlap \in Nat
    BY <1>1, EndBounds, SettingsAssumption DEF Positions
  <1>3. piece \in ChunkRow /\ \A i \in piece.chars : i \in Nat /\ start <= i /\ i < End
    <2>1. piece \in ChunkRow
      BY <1>1, <1>2, StripType
    <2>2. piece.chars = {i \in solid : start <= i /\ i < End}
      BY DEF Strip
    <2>3. \A i \in solid : i \in Nat
      BY <1>1 DEF Positions
    <2> HIDE DEF piece
    <2> QED
      BY <2>1, <2>2, <2>3
  <1>4. /\ L \in Nat /\ DOMAIN chunks = 1..L
        /\ \A k \in 1..L : \A i \in chunks[k].chars : i \in Nat /\ i < start + Overlap
    <2>1. \A k \in 1..L : chunks[k] \in ChunkRow
      BY <1>1 DEF Kept
    <2>2. \A i \in solid : i \in Nat
      BY <1>1 DEF Positions
    <2> QED
      BY <1>1, <2>1, <2>2 DEF Kept, ChunkRow, Reach
  <1>5. \/ done' /\ start' = start
        \/ ~done' /\ start' \in Nat /\ start <= start' /\ End <= start' + Overlap
    <2>1. CASE End >= size
      BY <2>1 DEF Cut
    <2>2. CASE ~(End >= size)
      <3>1. End < size
        BY <1>1, <1>2, <2>2 DEF Positions
      <3> QED
        BY <1>1, <2>2, <3>1, StartReaches DEF Cut
    <2> QED
      BY <2>1, <2>2
  <1> HIDE DEF piece, out, L
  <1>6. ASSUME NEW n \in Nat, DOMAIN out = 1..n, Len(out) = n,
               \A k \in 1..n : \A i \in out[k].chars :
                  i \in piece.chars \/ (k <= L /\ i \in chunks[k].chars),
               \A k \in 1..(n - 1) :
                  /\ k < L \/ (k = L /\ \A i \in out[k + 1].chars : i \in piece.chars)
                  /\ \A i \in out[k].chars : i \in chunks[k].chars
        PROVE  Reach'
    <2>1. ~done' => \A k \in 1..n : \A i \in out[k].chars : i < start' + Overlap
      BY <1>2, <1>3, <1>4, <1>5, <1>6
    <2>2. ASSUME NEW k \in 1..(n - 1)
          PROVE  \E s \in 0..start' : /\ \A i \in out[k].chars : i < s + Overlap
                                      /\ \A i \in out[k + 1].chars : i >= s
      <3>1. start \in 0..start' /\ 0..start \subseteq 0..start' /\ k \in Nat /\ k + 1 \in 1..n
        BY <1>2, <1>5, <1>6
      <3>2. CASE k < L
        <4>1. PICK s \in 0..start : /\ \A i \in chunks[k].chars : i < s + Overlap
                                    /\ \A i \in chunks[k + 1].chars : i >= s
          BY <1>4, <3>1, <3>2 DEF Reach, L
        <4>2. \A i \in out[k + 1].chars : i >= s
          BY <1>2, <1>3, <1>6, <3>1, <4>1
        <4>3. \A i \in out[k].chars : i < s + Overlap
          BY <1>6, <4>1
        <4> QED
          BY <3>1, <4>2, <4>3
      <3>3. CASE k = L /\ \A i \in out[k + 1].chars : i \in piece.chars
        <4>1. \A i \in out[k].chars : i < start + Overlap
          BY <1>4, <1>6, <3>1, <3>3
        <4>2. \A i \in out[k + 1].chars : i >= start
          BY <1>2, <1>3, <3>3
        <4> QED
          BY <3>1, <4>1, <4>2
      <3> QED
        BY <1>6, <3>2, <3>3
    <2> QED
      BY <1>1, <1>6, <2>1, <2>2 DEF Reach
  <1>7. CASE out = chunks
    <2>1. DOMAIN out = 1..L /\ Len(out) = L
      BY <1>4, <1>7 DEF L
    <2>2. \A k \in 1..(L - 1) : k < L
      BY <1>4
    <2> QED
      BY <1>4, <1>6, <1>7, <2>1, <2>2
  <1>8. CASE out = Append(chunks, piece)
    <2>1. /\ Len(out) = L + 1 /\ DOMAIN out = 1..(L + 1)
          /\ \A k \in 1..L : out[k] = chunks[k]
          /\ out[L + 1] = piece
      BY <1>1, <1>3, <1>8, AppendProperties, LenProperties DEF Kept, L
    <2> QED
      BY <1>4, <1>6, <2>1
  <1>9. CASE chunks # <<>> /\ out = [chunks EXCEPT ![L] = Joined(chunks[L], piece)]
    <2>1. L \in 1..L
      BY <1>1, <1>4, <1>9, EmptySeq, LenProperties DEF Kept, L
    <2>2. /\ DOMAIN out = 1..L /\ Len(out) = L
          /\ \A k \in 1..L : k # L => out[k] = chunks[k]
          /\ out[L].chars = chunks[L].chars \cup piece.chars
      <3>1. Joined(chunks[L], piece) \in ChunkRow
        <4>1. chunks[L] \in ChunkRow
          BY <1>1, <1>4, <2>1 DEF Kept
        <4> QED
          BY <1>3, <4>1 DEF Joined, ChunkRow
      <3>2. out \in Seq(ChunkRow) /\ DOMAIN out = 1..L
        BY <1>1, <1>4, <1>9, <2>1, <3>1, ExceptSeq DEF Kept
      <3>3. Len(out) = L
        BY <1>4, <3>2, LenProperties
      <3> QED
        BY <1>4, <1>9, <2>1, <3>2, <3>3 DEF Joined
    <2> QED
      BY <1>4, <1>6, <2>1, <2>2
  <1> QED
    BY <1>7, <1>8, <1>9 DEF Extended, out, L

\* Whatever the text, and wherever short pieces are joined to the chunk before
\* them: with an overlap no longer than a piece, neighbouring chunks share no
\* more than it.  (With a longer one the loop may go back behind the last chunk.)
THEOREM NeighboursShareOverlap ==
    ASSUME Overlap <= MaxChars
    PROVE  Spec => []SharedBounded
  <1>1. Init => Reach
    BY SettingsAssumption DEF Init, Reach
  <1>2. Inv /\ Reach /\ [Next]_vars => Reach'
    <2>1. CASE UNCHANGED vars
      BY <2>1 DEF vars, Reach
    <2> QED
      BY <2>1, ReachStep DEF Next, Done
  <1>3. Inv /\ Reach => SharedBounded
    <2> SUFFICES ASSUME Inv, Reach, NEW k \in 1..(Len(chunks) - 1)
                 PROVE  Cardinality(chunks[k].chars \cap chunks[k + 1].chars) <= Overlap
      BY DEF SharedBounded
    <2> DEFINE shared == chunks[k].chars \cap chunks[k + 1].chars
    <2>1. PICK s \in 0..start : /\ \A i \in chunks[k].chars : i < s + Overlap
                                /\ \A i \in chunks[k + 1].chars : i >= s
      BY DEF Reach
    <2>2. s \in Nat /\ Overlap \in Nat
      BY <2>1, SettingsAssumption
    <2>3. shared \subseteq s..(s + Overlap - 1)
      <3>1. chunks \in Seq(ChunkRow) /\ k \in 1..Len(chunks)
        BY DEF Inv, Kept
      <3>2. chunks[k].chars \subseteq solid
        <4>1. chunks[k] \in ChunkRow
          BY <3>1
        <4> QED
          BY <4>1 DEF ChunkRow
      <3>3. \A i \in solid : i \in Nat
        BY DEF Inv, Positions
      <3> QED
        BY <2>1, <2>2, <3>2, <3>3
    <2>4. /\ IsFiniteSet(s..(s + Overlap - 1))
          /\ Cardinality(s..(s + Overlap - 1)) = Overlap
      <3>1. s \in Int /\ s + Overlap - 1 \in Int
        BY <2>2
      <3>2. Cardinality(s..(s + Overlap - 1)) =
               IF s > s + Overlap - 1 THEN 0 ELSE (s + Overlap - 1) - s + 1
        BY <3>1, FS_Interval
      <3>3. IsFiniteSet(s..(s + Overlap - 1))
        BY <3>1, FS_Interval
      <3> QED
        BY <2>2, <3>2, <3>3
    <2> QED
      BY <2>2, <2>3, <2>4, FS_Subset
  <1> QED
    BY <1>1, <1>2, <1>3, InvHolds, PTL DEF Spec

=============================================================================
