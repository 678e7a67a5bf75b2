------------------------------ MODULE ChunkText ------------------------------
(***************************************************************************)
(* _chunk_text: the loop that cuts the text of a page into chunks.  Of the *)
(* text only the positions of the characters that are not white space      *)
(* matter: str.strip() cuts a piece down to the span of those.             *)
(***************************************************************************)
EXTENDS Integers, Sequences, FiniteSets

CONSTANTS
    MaxChars, \* chunk_max_chars
    MinChars, \* chunk_min_chars
    Overlap,  \* chunk_overlap_chars
    MaxSize   \* bound: the length of a text

\* The settings are read from the environment, and nothing relates them.
ASSUME SettingsAssumption ==
    MaxChars \in Nat \ {0} /\ MinChars \in Nat /\ Overlap \in Nat /\ MaxSize \in Nat

VARIABLES
    size,   \* len(text)
    solid,  \* positions that hold no white space
    start,  \* where the next piece begins
    chunks, \* the chunks so far: their characters and their length
    done    \* the loop has ended

vars == <<size, solid, start, chunks, done>>

Init ==
    /\ size \in 0..MaxSize
    /\ solid \in SUBSET (0..(size - 1))
    /\ start = 0
    /\ chunks = <<>>
    /\ done = (solid = {})

\* text[from:to].strip()
Strip(from, to) ==
    LET kept == {i \in solid : from <= i /\ i < to} IN
    [chars |-> kept,
     len   |-> Cardinality({i \in from..(to - 1) : \E j, k \in kept : j <= i /\ i <= k})]

End == IF start + MaxChars < size THEN start + MaxChars ELSE size

\* prev + "\n\n" + chunk
Joined(prev, piece) ==
    [chars |-> prev.chars \cup piece.chars, len |-> prev.len + 2 + piece.len]

\* Mutant of Extended: a short piece is dropped.
ExtendedOrDropped(piece) ==
    IF piece.len < MinChars THEN chunks ELSE Append(chunks, piece)

\* The chunks with a piece added: nothing is kept of a blank piece, a short one
\* that is not at the end of the text joins the chunk before it.
Extended(piece) ==
    IF piece.chars = {}
    THEN chunks
    ELSE IF piece.len < MinChars /\ End # size /\ chunks # <<>>
         THEN [chunks EXCEPT ![Len(chunks)] = Joined(@, piece)]
         ELSE Append(chunks, piece)

BackedUp == IF End - Overlap > 0 THEN End - Overlap ELSE 0

\* Mutant of NextStart: the two lengths of the settings are exchanged.
NextStartSwapped(out) ==
    LET back == IF End - MinChars > 0 THEN End - MinChars ELSE 0 IN
    IF out # <<>> /\ back <= out[Len(out)].len THEN End ELSE back

\* Mutant of NextStart: it backs up from the start of the piece, not its end.
NextStartFromStart(out) ==
    LET back == IF start - Overlap > 0 THEN start - Overlap ELSE 0 IN
    IF out # <<>> /\ back <= out[Len(out)].len THEN End ELSE back

\* The overlap is given up where the position is not beyond the LENGTH of the last chunk.
NextStart(out) ==
    IF out # <<>> /\ BackedUp <= out[Len(out)].len THEN End ELSE BackedUp

Cut ==
    /\ ~done
    /\ chunks' = Extended(Strip(start, End))
    /\ IF End >= size
       THEN done' = TRUE /\ UNCHANGED start
       ELSE start' = NextStart(chunks') /\ UNCHANGED done
    /\ UNCHANGED <<size, solid>>

Done == done /\ UNCHANGED vars

Next == Cut \/ Done

Spec == Init /\ [][Next]_vars

\* The loop is straight-line code: it goes on while it can.
FairSpec == Spec /\ WF_vars(Cut)

-----------------------------------------------------------------------------
(* Properties                                                                *)

TypeOK ==
    /\ size \in Nat
    /\ solid \subseteq 0..(size - 1)
    /\ start \in Nat
    /\ chunks \in Seq([chars : SUBSET solid, len : Nat])
    /\ done \in BOOLEAN

\* What has been passed is kept: every character before the next piece is in
\* some chunk, and in the end every character of the text is.
PassedCovered ==
    \A i \in solid : (done \/ i < start) => \E k \in DOMAIN chunks : i \in chunks[k].chars

\* Nothing of a page is lost to retrieval: when _chunk_text returns, every
\* character that is not white space is in one of the chunks.
NothingLost == done => solid = UNION {chunks[k].chars : k \in DOMAIN chunks}

\* Two neighbouring chunks share no more than chunk_overlap_chars characters,
\* also where short pieces have been joined to the first of them.
SharedBounded ==
    \A k \in 1..(Len(chunks) - 1) :
        Cardinality(chunks[k].chars \cap chunks[k + 1].chars) <= Overlap

\* _chunk_text returns, whatever the text, when the overlap is shorter than a piece.
Terminates == <>done

\* "Ensure we always advance (avoid infinite loops ...)": every iteration that is
\* not the last moves the start of the next piece forward, when the overlap is
\* shorter than a piece.  Nothing in the settings demands that: with a longer
\* one, a later piece begins where the one before it began, for ever.
AlwaysAdvances == [][done' \/ start' > start]_vars

=============================================================================
