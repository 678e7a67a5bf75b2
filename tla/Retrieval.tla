------------------------------ MODULE Retrieval ------------------------------
(***************************************************************************)
(* What becomes of the chunks of a text: embed_texts_batch gets a vector   *)
(* for each, and a question is answered from those nearest to it:          *)
(* query_similar, the filter, the reranker (both rerankers change          *)
(* nothing), the cut to the final context, its budget of characters,       *)
(* _weak_evidence, and the citations.                                      *)
(*                                                                         *)
(* A vector is the text it is the embedding of; how near the question each *)
(* text is, is a choice.  What the model answers is left out.              *)
(***************************************************************************)
EXTENDS ChunkText, SequencesExt

CONSTANTS
    Batch,      \* embedding_batch_size
    TopK,       \* query_top_k_retrieval
    TopKFinal,  \* query_top_k_final_context
    MaxContext, \* query_max_context_chars
    MinScore,   \* query_min_similarity_score
    Threshold,  \* query_answerability_threshold; 0 turns it off
    Scores      \* similarities to a question

ASSUME RetrievalAssumption ==
    /\ {Batch, TopK, TopKFinal} \subseteq Nat \ {0}
    /\ {MaxContext, MinScore, Threshold} \subseteq Nat
    /\ Scores \subseteq Nat

VARIABLES
    vectors, \* the vectors so far: vectors[k] is stored with chunk k
    near,    \* the similarity of each text to the question
    context, \* the chunks the model is given, and their scores
    verdict, \* answerability; "none" before there is an answer
    cites    \* the citations of the answer

answer  == <<near, context, verdict, cites>>
allVars == <<vars, vectors, answer>>

RetrievalInit ==
    /\ Init
    /\ vectors = <<>> /\ near = <<>> /\ context = <<>> /\ cites = <<>>
    /\ verdict = "none"

Smaller(m, n) == IF m < n THEN m ELSE n

\* Mutant of InOrder: the vectors are taken as they come.
AsTheyCome(data) == data

\* sorted(data["data"], key=index)
InOrder(data) ==
    CHOOSE s \in SetToSeqs({data[i] : i \in DOMAIN data}) : \A i \in 2..Len(s) : s[i - 1] < s[i]

\* One request to the provider, which lists the vectors of the batch in any order.
EmbedBatch ==
    LET sent == Len(vectors) IN
    /\ done /\ sent < Len(chunks)
    /\ \E data \in SetToSeqs((sent + 1)..Smaller(sent + Batch, Len(chunks))) :
           vectors' = vectors \o InOrder(data)
    /\ UNCHANGED <<vars, answer>>

\* query_similar: the TopK nearest vectors, nearest first, those equally near in
\* any order.
Nearest(sim) ==
    LET Hit(k) == [chunk |-> k, score |-> sim[vectors[k]]] IN
    {SubSeq(r, 1, Smaller(TopK, Len(r))) :
        r \in {q \in SetToSeqs({Hit(k) : k \in DOMAIN chunks}) :
                  \A i \in 2..Len(q) : q[i - 1].score >= q[i].score}}

\* Used(hits)[i]: the length of the first i hits together.
Used(hits) ==
    LET used[i \in 0..Len(hits)] ==
            IF i = 0 THEN 0 ELSE used[i - 1] + chunks[hits[i].chunk].len
    IN  used

Chars(hits) == Used(hits)[Len(hits)]

\* Mutant of Trim: a hit that does not fit is passed over, not the end.
TrimSkips(hits) ==
    FoldLeft(LAMBDA out, h : IF out = <<>> \/ Chars(Append(out, h)) <= MaxContext
                             THEN Append(out, h) ELSE out,
             <<>>, hits)

\* The hits before the first of those at the places in over.
Before(hits, over) == IF over = {} THEN hits ELSE SubSeq(hits, 1, Min(over) - 1)

\* Mutant of Trim: the budget is checked before a hit is added.
TrimLate(hits) == Before(hits, {i \in 2..Len(hits) : Used(hits)[i - 1] > MaxContext})

\* The hits before the first that exceeds the budget; the first of all is taken anyway.
Trim(hits) == Before(hits, {i \in 2..Len(hits) : Used(hits)[i] > MaxContext})

\* [h for h in hits if h.score >= query_min_similarity_score]
Filtered(hits) ==
    LET kept[i \in 0..Len(hits)] ==
            IF i = 0 THEN <<>>
            ELSE IF hits[i].score >= MinScore THEN Append(kept[i - 1], hits[i])
            ELSE kept[i - 1]
    IN  kept[Len(hits)]

Context(hits) == Trim(SubSeq(Filtered(hits), 1, Smaller(TopKFinal, Len(Filtered(hits)))))

\* Mutant of Weak: one weak hit is enough.
WeakIfAny(hits) == hits = <<>> \/ \E i \in DOMAIN hits : hits[i].score < Threshold

\* No hits, or max(score) < threshold; a score is never below a threshold of 0.
Weak(hits) == \A i \in DOMAIN hits : hits[i].score < Threshold

\* generate_answer without the model.
Answerability(hits) == IF Weak(hits) THEN "insufficient_evidence" ELSE "grounded"

\* build_citations: a citation carries the chunk and the score of its hit.
Citations(hits) == IF Weak(hits) THEN <<>> ELSE hits

Answer ==
    /\ done /\ Len(vectors) = Len(chunks) /\ verdict = "none"
    /\ \E sim \in [DOMAIN chunks -> Scores] :
           /\ near' = sim
           /\ \E hits \in Nearest(sim) : context' = Context(hits)
    /\ verdict' = Answerability(context')
    /\ cites' = Citations(context')
    /\ UNCHANGED <<vars, vectors>>

Answered == verdict # "none" /\ UNCHANGED allVars

Chunking == Cut /\ UNCHANGED <<vectors, answer>>

RetrievalNext ==
    \/ Chunking
    \/ EmbedBatch
    \/ Answer
    \/ Answered

RetrievalSpec == RetrievalInit /\ [][RetrievalNext]_allVars /\ WF_allVars(Chunking)

-----------------------------------------------------------------------------
(* Properties                                                                *)

\* The score a citation shows is that of the text it quotes, in whatever order
\* and in however many batches the provider has returned the vectors.
CitesOwnScore ==
    \A i \in DOMAIN cites : cites[i].score = near[cites[i].chunk]

\* The evidence is within query_max_context_chars, unless it is a single chunk:
\* chunks that have been joined to others may be longer than the whole budget.
ContextFits == Len(context) <= 1 \/ Chars(context) <= MaxContext

\* An answer never cites a chunk while a nearer one was left out, for the budget
\* or for the limits.
NothingNearerLeftOut ==
    \A i \in DOMAIN cites : \A k \in DOMAIN chunks :
        near[k] > cites[i].score => \E j \in DOMAIN cites : cites[j].chunk = k

\* A question is left unanswered only when no chunk of the text reaches both the
\* minimum score and the threshold: neither the limits nor the budget nor weak
\* chunks beside a strong one turn an answerable question away.
AbstainsOnlyWhenWeak ==
    verdict # "none" =>
        (verdict = "grounded" <=> \E k \in DOMAIN chunks : near[k] >= MinScore /\ near[k] >= Threshold)

=============================================================================
