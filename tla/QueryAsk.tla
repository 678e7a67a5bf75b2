------------------------------ MODULE QueryAsk ------------------------------
(***************************************************************************)
(* ask(): questions answered from the chunks of the ingestion pipeline's   *)
(* database while workers, reprocess requests and deletions change it, and *)
(* the sessions, messages and citations they leave.                        *)
(*                                                                         *)
(* An ask is one transaction at READ COMMITTED: each of its SELECTs sees   *)
(* what is committed when it runs, and what it writes appears when it      *)
(* commits.  A similarity search, the filter, the reranker, the budget and *)
(* the threshold are choices among the chunks they are given.  A cited     *)
(* chunk that is deleted later leaves a citation with chunk_id NULL; ids   *)
(* are never used again, so that is the case of an id not in `chunks`.     *)
(***************************************************************************)
EXTENDS IngestionPipeline

CONSTANTS
    Askers,      \* ask() calls that may be under way at one time
    Users,
    Workspaces,
    WorkspaceOf, \* documents.workspace_id
    Members,     \* workspace_members: pairs of user and workspace
    TopK,        \* query_top_k_retrieval
    MaxAsks      \* bound: asks ever begun

ASSUME AskAssumption ==
    /\ WorkspaceOf \in [Docs -> Workspaces]
    /\ Users # {} /\ Workspaces # {}
    /\ Members \subseteq Users \X Workspaces
    /\ TopK \in Nat /\ MaxAsks \in Nat

VARIABLES
    apc,      \* where an ask stands
    ask,      \* what it asks, and of which session
    hits,     \* chunks found, then chunks selected as context; none if they are too weak
    cited,    \* those the INSERT of the citations has come to, locked until the ask ends
    sessions, \* query_sessions rows in order of commit
    turns,    \* committed pairs of a question and its answer with its citations
    asks      \* asks begun: the clock of now()

askVars == <<apc, ask, hits, cited, sessions, turns, asks>>
allVars == <<vars, askVars>>

\* session is 0 for a new one; at is now(), the begin of the transaction; gone,
\* for the properties only, is what had been deleted by then.
Ask  == [user : Users, ws : Workspaces, doc : Docs \cup {NoDoc}, session : Nat,
         at : Nat, gone : SUBSET Docs]
Turn == [ask : Ask, cites : SUBSET ChunkId]

SessionRow == [user : Users, ws : Workspaces, scope : Docs \cup {NoDoc}]

NoAsk == [user |-> CHOOSE u \in Users : TRUE, ws |-> CHOOSE w \in Workspaces : TRUE,
          doc |-> NoDoc, session |-> 0, at |-> 0, gone |-> {}]

AskInit ==
    /\ Init
    /\ apc = [a \in Askers |-> "idle"]
    /\ ask = [a \in Askers |-> NoAsk]
    /\ hits = [a \in Askers |-> {}]
    /\ cited = [a \in Askers |-> {}]
    /\ sessions = <<>>
    /\ turns = {}
    /\ asks = 0

-----------------------------------------------------------------------------

DocumentReady(d, w) ==
    d \notin deleted /\ WorkspaceOf[d] = w /\ docStatus[d] = "indexed"

\* Mutant of SessionAccepts: the scope of the session is not compared.
SessionAcceptsAnyScope(s, u, w, d) ==
    sessions[s].user = u /\ sessions[s].ws = w

SessionAccepts(s, u, w, d) ==
    /\ sessions[s].user = u
    /\ sessions[s].ws = w
    /\ sessions[s].scope = d

\* The checks, the session and the question; d is NoDoc for the whole workspace.
Begin(a, u, w, d, s) ==
    /\ apc[a] = "idle" /\ asks < MaxAsks
    /\ <<u, w>> \in Members
    /\ d # NoDoc => DocumentReady(d, w)
    /\ s # 0 => SessionAccepts(s, u, w, d)
    /\ ask' = [ask EXCEPT ![a] = [user |-> u, ws |-> w, doc |-> d, session |-> s,
                                  at |-> asks + 1, gone |-> deleted]]
    /\ asks' = asks + 1
    /\ apc' = [apc EXCEPT ![a] = "asked"]
    /\ UNCHANGED <<hits, cited, sessions, turns>>

\* Mutant of Searchable: the query forgets deleted_at.
SearchableDeletedToo(q) ==
    {c \in chunks : /\ c.embedded /\ WorkspaceOf[c.id.src.doc] = q.ws
                    /\ q.doc # NoDoc => c.id.src.doc = q.doc}

\* WHERE of the similarity query; it does not look at documents.status.
Searchable(q) ==
    {c \in chunks : /\ c.embedded /\ c.id.src.doc \notin deleted
                    /\ WorkspaceOf[c.id.src.doc] = q.ws
                    /\ q.doc # NoDoc => c.id.src.doc = q.doc}

\* The TopK most similar chunks, whichever they are.
Search(a) ==
    LET found == Ids(Searchable(ask[a]))
        limit == IF Cardinality(found) < TopK THEN Cardinality(found) ELSE TopK
    IN
    /\ apc[a] = "asked"
    /\ \E ids \in SUBSET found : /\ Cardinality(ids) = limit
                                 /\ hits' = [hits EXCEPT ![a] = ids]
    /\ apc' = [apc EXCEPT ![a] = "searched"]
    /\ UNCHANGED <<ask, cited, sessions, turns, asks>>

\* The rows of the ids, as far as they are still there, cut down to the context
\* of the answer: none when the evidence is weak.
Select(a) ==
    /\ apc[a] = "searched"
    /\ \E ids \in SUBSET (hits[a] \cap Ids(chunks)) : hits' = [hits EXCEPT ![a] = ids]
    /\ apc' = [apc EXCEPT ![a] = "selected"]
    /\ UNCHANGED <<ask, cited, sessions, turns, asks>>

\* Mutant of Reset: the ask is left at a stage that has no name.
ResetForgetsState(a) ==
    /\ apc' = [apc EXCEPT ![a] = "done"]
    /\ ask' = [ask EXCEPT ![a] = NoAsk]
    /\ hits' = [hits EXCEPT ![a] = {}]
    /\ cited' = [cited EXCEPT ![a] = {}]

Reset(a) ==
    /\ apc' = [apc EXCEPT ![a] = "idle"]
    /\ ask' = [ask EXCEPT ![a] = NoAsk]
    /\ hits' = [hits EXCEPT ![a] = {}]
    /\ cited' = [cited EXCEPT ![a] = {}]

\* citations.chunk_id references chunks (FOR KEY SHARE): a chunk that another
\* transaction is deleting makes the INSERT wait, one that is gone fails the ask.
\* Chunks of which only page_id is set to NULL do not conflict.
DeletedBy(b)  == delC[b] \cup (IF pc[b] = "deletingChunks" THEN held[b] ELSE {})
BeingDeleted  == UNION {DeletedBy(b) : b \in Actors}
CitedByAsks   == UNION {cited[a] : a \in Askers}

\* One more citation is inserted.
Cite(a) ==
    /\ apc[a] = "selected"
    /\ \E i \in (hits[a] \cap Ids(chunks)) \ (cited[a] \cup BeingDeleted) :
          cited' = [cited EXCEPT ![a] = @ \cup {i}]
    /\ UNCHANGED <<apc, ask, hits, sessions, turns, asks>>

\* Mutant of Commit: a failed INSERT leaves the ask where it is.
CommitStuck(a) ==
    LET new == ask[a].session = 0
        s   == IF new THEN Len(sessions) + 1 ELSE ask[a].session
    IN
    /\ apc[a] = "selected"
    /\ hits[a] \cap BeingDeleted = {}
    /\ hits[a] \subseteq Ids(chunks)
    /\ sessions' = IF new THEN Append(sessions, [user |-> ask[a].user, ws |-> ask[a].ws,
                                                 scope |-> ask[a].doc])
                   ELSE sessions
    /\ turns' = turns \cup {[ask |-> [ask[a] EXCEPT !.session = s], cites |-> hits[a]]}
    /\ Reset(a)
    /\ UNCHANGED asks

\* The answer has been generated: INSERT of the message and of its citations, commit.
Commit(a) ==
    LET new == ask[a].session = 0
        s   == IF new THEN Len(sessions) + 1 ELSE ask[a].session
    IN
    /\ apc[a] = "selected"
    /\ hits[a] \cap BeingDeleted = {}
    /\ IF hits[a] \subseteq Ids(chunks)
       THEN /\ sessions' = IF new
                           THEN Append(sessions, [user |-> ask[a].user, ws |-> ask[a].ws,
                                                  scope |-> ask[a].doc])
                           ELSE sessions
            /\ turns' = turns \cup {[ask |-> [ask[a] EXCEPT !.session = s],
                                     cites |-> hits[a]]}
       ELSE UNCHANGED <<sessions, turns>>
    /\ Reset(a)
    /\ UNCHANGED asks

\* The embedding provider or the model fails, or the client goes away: all is rolled back.
AskFails(a) ==
    /\ apc[a] # "idle"
    /\ Reset(a)
    /\ UNCHANGED <<sessions, turns, asks>>

-----------------------------------------------------------------------------

AnswerStep(a) == Search(a) \/ Select(a) \/ Cite(a) \/ Commit(a)

AskNext ==
    \E a \in Askers :
        \/ \E u \in Users, w \in Workspaces, d \in Docs \cup {NoDoc},
              s \in 0..Len(sessions) : Begin(a, u, w, d, s)
        \/ AnswerStep(a)
        \/ AskFails(a)

\* A step of the pipeline deletes no chunk that an ask has locked.
Beside(step) == step /\ UNCHANGED askVars /\ BeingDeleted' \cap CitedByAsks = {}

QueryNext ==
    \/ Beside(Next)
    \/ AskNext /\ UNCHANGED vars

QuerySpec == AskInit /\ [][QueryNext]_allVars

\* An ask waits for a DELETE that has come to a chunk it cites, a DELETE for an ask.
AskWaits ==
    {w \in Askers \X Actors : /\ apc[w[1]] = "selected"
                              /\ hits[w[1]] \cap DeletedBy(w[2]) # {}}
      \cup {w \in Actors \X Askers : /\ pc[w[1]] = "deletingChunks"
                                     /\ rows[w[1]] \cap cited[w[2]] # {}}

BreakAskDeadlock ==
    \E S \in Circles(Actors \cup Askers, WaitsFor \cup AskWaits) :
        \/ \E w \in S \cap Workers : Beside(StageFails(w))
        \/ \E r \in S \cap Requests : Beside(AbortReprocess(r))
        \/ \E a \in S \cap Askers : AskFails(a) /\ UNCHANGED vars

\* Requests and workers that live go on, a lock waiter gets its turn, and deadlocks
\* are broken.
FairQuerySpec ==
    /\ QuerySpec
    /\ \A w \in Workers : SF_allVars(Beside(RunStep(w)))
    /\ \A r \in Requests : SF_allVars(Beside(ReprocessStep(r)))
    /\ \A a \in Askers : SF_allVars(AnswerStep(a) /\ UNCHANGED vars)
    /\ WF_allVars(BreakAskDeadlock)

-----------------------------------------------------------------------------
(* Properties                                                                *)

AskTypeOK ==
    /\ apc \in [Askers -> {"idle", "asked", "searched", "selected"}]
    /\ ask \in [Askers -> Ask]
    /\ hits \in [Askers -> SUBSET ChunkId]
    /\ cited \in [Askers -> SUBSET ChunkId]
    /\ sessions \in Seq(SessionRow)
    /\ turns \subseteq Turn
    /\ asks \in Nat

\* Whatever the questions of a session were asked about, all that its answers
\* cite is in the session's workspace and, for a session about one document, in
\* that document; and only its owner has asked in it.
CitesWithinSession ==
    \A t \in turns :
        LET s == sessions[t.ask.session] IN
        /\ t.ask.user = s.user
        /\ \A i \in t.cites : /\ WorkspaceOf[i.src.doc] = s.ws
                              /\ s.scope # NoDoc => i.src.doc = s.scope

\* No answer cites a document that had been deleted when the question was asked,
\* though chunks stay behind and a run may go on filling them in.
DeletedNotCited ==
    \A t \in turns : \A i \in t.cites : i.src.doc \notin t.ask.gone

\* With a single worker the chunks of a document that an answer cites come from
\* one run, though it is re-ingested and reprocessed while the answer is made:
\* the ids come from one SELECT, and each is looked up and referenced by id.
CitesOneRun ==
    \A t \in turns : \A i, j \in t.cites : i.src.doc = j.src.doc => i.run = j.run

\* An ask ends, also when what it cites is being deleted as it commits, and when
\* that DELETE waits for a chunk the ask has cited already.
AsksEnd == \A a \in Askers : apc[a] # "idle" ~> apc[a] = "idle"

(* What a test says and the code does not keep.                              *)

Messages(s) ==
    {[role |-> r, at |-> t.ask.at] : r \in {"user", "assistant"},
                                     t \in {u \in turns : u.ask.session = s}}

\* The orders in which get_session_detail may list the messages: by created_at alone.
Listings(s) ==
    {l \in Bijection(1..Cardinality(Messages(s)), Messages(s)) :
        \A i, j \in DOMAIN l : i < j => l[i].at <= l[j].at}

\* roles == ["user", "assistant", "user", "assistant"]: a session is listed as
\* questions, each followed by its answer.
AnswersFollowQuestions ==
    \A s \in DOMAIN sessions : \A l \in Listings(s) : \A i \in DOMAIN l :
        l[i].role = IF i % 2 = 1 THEN "user" ELSE "assistant"

=============================================================================
