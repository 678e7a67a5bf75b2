--------------------------- MODULE QueryAskProofs ---------------------------
(***************************************************************************)
(* For any number of users, workspaces, documents, workers and questions:  *)
(* what an answer cites lies within its session, and no answer cites a     *)
(* document that had been deleted when its question was asked; with a      *)
(* single worker, what it cites of a document comes from one run.          *)
(***************************************************************************)
EXTENDS QueryAsk, SerialProofs

AskingTypeOK == TypeOK /\ AskTypeOK

\* A question that continues a session is one the session accepts.
SessionsInv ==
    \A a \in Askers :
        /\ ask[a].session \in 0..Len(sessions)
        /\ ask[a].session # 0 =>
              SessionAccepts(ask[a].session, ask[a].user, ask[a].ws, ask[a].doc)

\* The chunks q may cite: of its workspace and document, and of none that was
\* deleted when it was asked.
Citable(q, i) ==
    /\ WorkspaceOf[i.src.doc] = q.ws
    /\ q.doc # NoDoc => i.src.doc = q.doc
    /\ i.src.doc \notin q.gone

HitsInv ==
    \A a \in Askers : /\ \A i \in hits[a] : Citable(ask[a], i)
                      /\ apc[a] = "idle" => hits[a] = {}

\* What was deleted when a question was asked stays deleted.
GoneInv == \A a \in Askers : ask[a].gone \subseteq deleted

TurnsInv ==
    \A t \in turns :
        /\ t.ask.session \in 1..Len(sessions)
        /\ SessionAccepts(t.ask.session, t.ask.user, t.ask.ws, t.ask.doc)
        /\ \A i \in t.cites : Citable(t.ask, i)

AskInv == AskingTypeOK /\ SessionsInv /\ HitsInv /\ GoneInv /\ TurnsInv

-----------------------------------------------------------------------------

\* Nothing brings a deleted document back.
LEMMA DeletedGrows ==
    ASSUME [Next]_vars
    PROVE  deleted \subseteq deleted'
  <1>1. ASSUME NEW a \in Actors, ClearStep(a) PROVE deleted' = deleted
    BY <1>1 DEF ClearStep, DeleteChunks, ChunksDeleted, DeletePages, PagesDeleted, db
  <1>2. ASSUME NEW w \in Workers, RunStep(w) PROVE deleted' = deleted
    <2>1. CASE ClearStep(w)
      BY <1>1, <2>1 DEF Actors
    <2> QED
      BY <1>2, <2>1 DEF RunStep, LoadDocument, Start, CommitParse, ReadPages, CommitChunks,
                        ReadChunks, CommitEmbeddings, Finalize, LockRow, db
  <1>3. ASSUME NEW w \in Workers,
               (\E j \in DOMAIN jobs : LoadJob(w, j)) \/ StageFails(w) \/ Crash(w)
        PROVE  deleted' = deleted
    BY <1>3 DEF LoadJob, StageFails, Crash, db
  <1>4. ASSUME NEW r \in Requests,
               \/ \E d \in Docs : OpenReprocess(r, d)
               \/ ReprocessStep(r) \/ AbortReprocess(r)
        PROVE  deleted' = deleted
    <2>1. CASE ClearStep(r)
      BY <1>1, <2>1 DEF Actors
    <2> QED
      BY <1>4, <2>1 DEF OpenReprocess, ReprocessStep, CommitReprocess, AbortReprocess, LockRow, db
  <1>5. ASSUME NEW d \in Docs, CreateDocument(d) \/ SoftDelete(d)
        PROVE  deleted \subseteq deleted'
    BY <1>5 DEF CreateDocument, SoftDelete
  <1>6. CASE UNCHANGED vars
    BY <1>6 DEF vars, db
  <1> QED
    BY <1>2, <1>3, <1>4, <1>5, <1>6 DEF Next, Quiescent

\* An ask that has ended is the empty one, which has the type of an ask.
LEMMA NoAskType ==
    ASSUME AskAssumption
    PROVE  NoAsk \in Ask /\ NoAsk.session = 0 /\ NoAsk.gone = {}
  BY DEF NoAsk, Ask, AskAssumption

LEMMA InitInv ==
    ASSUME AskAssumption, AskInit
    PROVE  AskInv
  <1> USE NoAskType
  <1>1. TypeOK
    BY InitTyped DEF AskInit
  <1>2. AskTypeOK
    BY DEF AskInit, AskTypeOK
  <1>3. SessionsInv /\ HitsInv /\ GoneInv /\ TurnsInv
    BY DEF AskInit, SessionsInv, HitsInv, GoneInv, TurnsInv
  <1> QED
    BY <1>1, <1>2, <1>3 DEF AskInv, AskingTypeOK

\* The pipeline changes nothing of an ask but what is deleted.
LEMMA PipelineStepInv ==
    ASSUME AskInv, [Next]_vars, UNCHANGED askVars
    PROVE  AskInv'
  <1>1. TypeOK' /\ deleted \subseteq deleted'
    BY NextTyped, DeletedGrows DEF AskInv, AskingTypeOK
  <1>2. AskTypeOK'
    BY DEF AskInv, AskingTypeOK, AskTypeOK, askVars
  <1>3. SessionsInv' /\ HitsInv' /\ TurnsInv'
    BY DEF AskInv, SessionsInv, HitsInv, TurnsInv, SessionAccepts, Citable, askVars
  <1>4. GoneInv'
    BY <1>1 DEF AskInv, GoneInv, askVars
  <1> QED
    BY <1>1, <1>2, <1>3, <1>4 DEF AskInv, AskingTypeOK

\* An ask that leaves the tables alone keeps its invariant if its own variables do.
LEMMA AskStaysTyped ==
    ASSUME AskInv, UNCHANGED vars
    PROVE  TypeOK'
  BY NextTyped DEF AskInv, AskingTypeOK

LEMMA BeginInv ==
    ASSUME AskAssumption, AskInv, UNCHANGED vars, NEW a \in Askers,
           NEW u \in Users, NEW w \in Workspaces, NEW d \in Docs \cup {NoDoc},
           NEW s \in 0..Len(sessions), Begin(a, u, w, d, s)
    PROVE  AskInv'
  <1> DEFINE q == [user |-> u, ws |-> w, doc |-> d, session |-> s,
                   at |-> asks + 1, gone |-> deleted]
  <1>1. /\ ask' = [ask EXCEPT ![a] = q] /\ asks' = asks + 1
        /\ apc' = [apc EXCEPT ![a] = "asked"]
        /\ UNCHANGED <<hits, cited, sessions, turns, deleted>>
        /\ apc[a] = "idle" /\ (s # 0 => SessionAccepts(s, u, w, d))
    BY DEF Begin, vars, db
  <1>2. TypeOK' /\ AskTypeOK
    BY AskStaysTyped DEF AskInv, AskingTypeOK
  <1>3. q \in Ask
    BY <1>2 DEF AskInv, AskingTypeOK, AskTypeOK, TypeOK, DbTypeOK, Ask
  <1>4. AskTypeOK'
    BY <1>1, <1>2, <1>3 DEF AskTypeOK
  <1>5. hits[a] = {}
    BY <1>1 DEF AskInv, HitsInv
  <1>6. ask'[a] = q /\ \A b \in Askers : b # a => ask'[b] = ask[b] /\ apc'[b] = apc[b]
    BY <1>1, <1>2 DEF AskTypeOK
  <1>7. SessionsInv' /\ GoneInv'
    BY <1>1, <1>6 DEF AskInv, SessionsInv, GoneInv, SessionAccepts
  <1>8. HitsInv'
    BY <1>1, <1>2, <1>5, <1>6 DEF AskInv, HitsInv, Citable, AskTypeOK
  <1>9. TurnsInv'
    BY <1>1 DEF AskInv, TurnsInv, SessionAccepts, Citable
  <1> QED
    BY <1>2, <1>4, <1>7, <1>8, <1>9 DEF AskInv, AskingTypeOK

\* What Search finds is searchable, hence may be cited.
LEMMA SearchInv ==
    ASSUME AskInv, UNCHANGED vars, NEW a \in Askers, Search(a)
    PROVE  AskInv'
  <1>1. PICK ids \in SUBSET Ids(Searchable(ask[a])) :
           /\ hits' = [hits EXCEPT ![a] = ids]
           /\ apc' = [apc EXCEPT ![a] = "searched"]
           /\ UNCHANGED <<ask, cited, sessions, turns, asks, deleted>>
    BY DEF Search, vars, db
  <1>2. TypeOK' /\ AskTypeOK
    BY AskStaysTyped DEF AskInv, AskingTypeOK
  <1>3. ids \subseteq ChunkId
    BY DEF AskInv, AskingTypeOK, TypeOK, DbTypeOK, Ids, Searchable, ChunkRow
  <1>4. \A i \in ids : Citable(ask[a], i)
    BY DEF AskInv, GoneInv, Ids, Searchable, Citable
  <1>5. AskTypeOK'
    BY <1>1, <1>2, <1>3 DEF AskTypeOK
  <1>6. HitsInv'
    BY <1>1, <1>2, <1>4 DEF AskInv, HitsInv, Citable, AskTypeOK
  <1>7. SessionsInv' /\ GoneInv' /\ TurnsInv'
    BY <1>1 DEF AskInv, SessionsInv, GoneInv, TurnsInv, SessionAccepts, Citable
  <1> QED
    BY <1>2, <1>5, <1>6, <1>7 DEF AskInv, AskingTypeOK

\* Select keeps some of what was found.
LEMMA SelectInv ==
    ASSUME AskInv, UNCHANGED vars, NEW a \in Askers, Select(a)
    PROVE  AskInv'
  <1>1. PICK ids \in SUBSET hits[a] :
           /\ hits' = [hits EXCEPT ![a] = ids]
           /\ apc' = [apc EXCEPT ![a] = "selected"]
           /\ UNCHANGED <<ask, cited, sessions, turns, asks, deleted>>
    BY DEF Select, vars, db
  <1>2. TypeOK' /\ AskTypeOK
    BY AskStaysTyped DEF AskInv, AskingTypeOK
  <1>3. AskTypeOK'
    BY <1>1, <1>2 DEF AskTypeOK
  <1>4. HitsInv'
    BY <1>1, <1>2 DEF AskInv, HitsInv, Citable, AskTypeOK
  <1>5. SessionsInv' /\ GoneInv' /\ TurnsInv'
    BY <1>1 DEF AskInv, SessionsInv, GoneInv, TurnsInv, SessionAccepts, Citable
  <1> QED
    BY <1>2, <1>3, <1>4, <1>5 DEF AskInv, AskingTypeOK

\* A citation is of what was found and locks a chunk, no more.
LEMMA CiteInv ==
    ASSUME AskInv, UNCHANGED vars, NEW a \in Askers, Cite(a)
    PROVE  AskInv'
  <1>1. PICK i \in hits[a] : cited' = [cited EXCEPT ![a] = @ \cup {i}]
    BY DEF Cite
  <1>2. UNCHANGED <<apc, ask, hits, sessions, turns, asks, deleted>>
    BY DEF Cite, vars, db
  <1>3. TypeOK' /\ AskTypeOK
    BY AskStaysTyped DEF AskInv, AskingTypeOK
  <1>4. AskTypeOK'
    BY <1>1, <1>2, <1>3 DEF AskTypeOK
  <1>5. SessionsInv' /\ HitsInv' /\ GoneInv' /\ TurnsInv'
    BY <1>2 DEF AskInv, SessionsInv, HitsInv, GoneInv, TurnsInv, SessionAccepts, Citable
  <1> QED
    BY <1>3, <1>4, <1>5 DEF AskInv, AskingTypeOK

\* A session that is added leaves the sessions before it where they are.
LEMMA AppendGrows ==
    ASSUME NEW S, NEW q \in Seq(S), NEW e \in S
    PROVE  /\ Append(q, e) \in Seq(S)
           /\ Len(q) \in Nat /\ Len(Append(q, e)) = Len(q) + 1
           /\ \A n \in 1..Len(q) : Append(q, e)[n] = q[n]
           /\ Append(q, e)[Len(q) + 1] = e
  OBVIOUS

\* An ask that ends, whether or not it has added a session or a turn.
LEMMA ResetInv ==
    ASSUME AskAssumption, AskInv, UNCHANGED vars, NEW a \in Askers, Reset(a),
           UNCHANGED asks,
           sessions' \in Seq(SessionRow),
           Len(sessions) <= Len(sessions'),
           \A s \in 1..Len(sessions) : sessions'[s] = sessions[s],
           turns' \subseteq Turn,
           TurnsInv'
    PROVE  AskInv'
  <1>1. /\ apc' = [apc EXCEPT ![a] = "idle"]
        /\ ask' = [ask EXCEPT ![a] = NoAsk]
        /\ hits' = [hits EXCEPT ![a] = {}]
        /\ cited' = [cited EXCEPT ![a] = {}]
        /\ UNCHANGED <<asks, deleted>>
    BY DEF Reset, vars, db
  <1>2. TypeOK' /\ AskTypeOK
    BY AskStaysTyped DEF AskInv, AskingTypeOK
  <1>3. AskTypeOK'
    BY <1>1, <1>2, NoAskType DEF AskTypeOK
  <1>4. /\ ask'[a] = NoAsk /\ hits'[a] = {} /\ apc'[a] = "idle"
        /\ \A b \in Askers : b # a =>
              ask'[b] = ask[b] /\ hits'[b] = hits[b] /\ apc'[b] = apc[b]
    BY <1>1, <1>2 DEF AskTypeOK
  <1>5. HitsInv' /\ GoneInv'
    BY <1>1, <1>4, NoAskType DEF AskInv, HitsInv, GoneInv, Citable
  <1>6. Len(sessions) \in Nat /\ Len(sessions') \in Nat
    BY <1>2 DEF AskTypeOK
  <1>7. ASSUME NEW b \in Askers
        PROVE  /\ ask'[b].session \in 0..Len(sessions')
               /\ ask'[b].session # 0 =>
                     SessionAccepts(ask[b].session, ask[b].user, ask[b].ws, ask[b].doc)'
    <2>1. CASE b = a
      BY <1>4, <1>6, <2>1, NoAskType
    <2>2. CASE b # a
      BY <1>4, <1>6, <2>2 DEF AskInv, SessionsInv, SessionAccepts
    <2> QED
      BY <2>1, <2>2
  <1>8. SessionsInv'
    BY <1>7 DEF SessionsInv, SessionAccepts
  <1> QED
    BY <1>2, <1>3, <1>5, <1>8 DEF AskInv, AskingTypeOK

LEMMA AskFailsInv ==
    ASSUME AskAssumption, AskInv, UNCHANGED vars, NEW a \in Askers, AskFails(a)
    PROVE  AskInv'
  <1>1. Reset(a) /\ UNCHANGED <<sessions, turns, asks>>
    BY DEF AskFails
  <1>2. TurnsInv'
    BY <1>1 DEF AskInv, TurnsInv, SessionAccepts, Citable
  <1>3. /\ sessions' \in Seq(SessionRow) /\ Len(sessions) <= Len(sessions')
        /\ \A s \in 1..Len(sessions) : sessions'[s] = sessions[s]
        /\ turns' \subseteq Turn
    BY <1>1 DEF AskInv, AskingTypeOK, AskTypeOK
  <1> QED
    BY <1>1, <1>2, <1>3, ResetInv

\* The turn that is added cites what its ask has selected, in the session that
\* accepted it or in one made for it.
LEMMA CommitInv ==
    ASSUME AskAssumption, AskInv, UNCHANGED vars, NEW a \in Askers, Commit(a)
    PROVE  AskInv'
  <1> DEFINE q   == ask[a]
             row == [user |-> q.user, ws |-> q.ws, scope |-> q.doc]
             s   == IF q.session = 0 THEN Len(sessions) + 1 ELSE q.session
             t   == [ask |-> [q EXCEPT !.session = s], cites |-> hits[a]]
  <1>1. AskTypeOK /\ q \in Ask /\ hits[a] \subseteq ChunkId
    BY DEF AskInv, AskingTypeOK, AskTypeOK
  <1>2. Reset(a) /\ UNCHANGED asks
    BY DEF Commit
  <1>3. CASE ~(hits[a] \subseteq Ids(chunks))
    <2>1. UNCHANGED <<sessions, turns>>
      BY <1>3 DEF Commit
    <2>2. TurnsInv'
      BY <2>1 DEF AskInv, TurnsInv, SessionAccepts, Citable
    <2>3. /\ sessions' \in Seq(SessionRow) /\ Len(sessions) <= Len(sessions')
          /\ \A n \in 1..Len(sessions) : sessions'[n] = sessions[n]
          /\ turns' \subseteq Turn
      BY <1>1, <2>1 DEF AskTypeOK
    <2> QED
      BY <1>2, <2>2, <2>3, ResetInv
  <1>4. CASE hits[a] \subseteq Ids(chunks)
    <2>1. /\ sessions' = IF q.session = 0 THEN Append(sessions, row) ELSE sessions
          /\ turns' = turns \cup {t}
      BY <1>4 DEF Commit
    <2>2. row \in SessionRow /\ sessions \in Seq(SessionRow)
      BY <1>1 DEF Ask, AskTypeOK, SessionRow
    <2> HIDE DEF row
    <2>3. /\ sessions' \in Seq(SessionRow) /\ Len(sessions) \in Nat
          /\ Len(sessions) <= Len(sessions')
          /\ \A n \in 1..Len(sessions) : sessions'[n] = sessions[n]
      <3>1. CASE q.session = 0
        BY <2>1, <2>2, <3>1, AppendGrows
      <3>2. CASE q.session # 0
        BY <2>1, <2>2, <3>2
      <3> QED
        BY <3>1, <3>2
    <2>4. /\ s \in 1..Len(sessions')
          /\ sessions'[s].user = q.user /\ sessions'[s].ws = q.ws
          /\ sessions'[s].scope = q.doc
      <3>1. CASE q.session = 0
        BY <2>1, <2>2, <3>1, AppendGrows DEF row
      <3>2. CASE q.session # 0
        BY <2>1, <2>3, <3>2 DEF AskInv, SessionsInv, SessionAccepts
      <3> QED
        BY <3>1, <3>2
    <2>5. /\ t.ask.session = s /\ t.ask.user = q.user /\ t.ask.ws = q.ws
          /\ t.ask.doc = q.doc /\ t.ask.gone = q.gone /\ t.cites = hits[a]
          /\ t.ask \in Ask
      BY <1>1, <2>3, <2>4 DEF Ask
    <2> HIDE DEF s
    <2>6. t \in Turn
      BY <1>1, <2>5 DEF Turn
    <2>7. turns' \subseteq Turn
      BY <1>1, <2>1, <2>6 DEF AskTypeOK
    <2>8. \A i \in t.cites : Citable(t.ask, i)
      BY <2>5 DEF AskInv, HitsInv, Citable
    <2> HIDE DEF t
    <2>9. TurnsInv'
      <3>1. ASSUME NEW v \in turns'
            PROVE  /\ v.ask.session \in 1..Len(sessions')
                   /\ sessions'[v.ask.session].user = v.ask.user
                   /\ sessions'[v.ask.session].ws = v.ask.ws
                   /\ sessions'[v.ask.session].scope = v.ask.doc
                   /\ \A i \in v.cites : Citable(v.ask, i)
        <4>1. CASE v = t
          BY <2>4, <2>5, <2>8, <4>1
        <4>2. CASE v \in turns
          BY <2>3, <4>2 DEF AskInv, TurnsInv, SessionAccepts
        <4> QED
          BY <2>1, <4>1, <4>2
      <3> QED
        BY <3>1 DEF TurnsInv, SessionAccepts, Citable
    <2> QED
      BY <1>2, <2>3, <2>7, <2>9, ResetInv
  <1> QED
    BY <1>3, <1>4

LEMMA QueryNextInv ==
    ASSUME AskAssumption, AskInv, [QueryNext]_allVars
    PROVE  AskInv'
  <1>1. CASE Next /\ UNCHANGED askVars
    BY <1>1, PipelineStepInv
  <1>2. CASE AskNext /\ UNCHANGED vars
    BY <1>2, BeginInv, SearchInv, SelectInv, CiteInv, CommitInv, AskFailsInv DEF AskNext, AnswerStep
  <1>3. CASE UNCHANGED allVars
    BY <1>3, PipelineStepInv DEF allVars
  <1> QED
    BY <1>1, <1>2, <1>3 DEF QueryNext, Beside

-----------------------------------------------------------------------------

\* Every reachable state of asks, sessions and turns is well typed.
THEOREM AskTypeCorrect == QuerySpec => []AskTypeOK
  <1>1. AskInv => AskTypeOK
    BY DEF AskInv, AskingTypeOK
  <1> QED
    BY <1>1, AskAssumption, InitInv, QueryNextInv, PTL DEF QuerySpec

\* All that the answers of a session cite is in its workspace and document, and
\* only its owner has asked in it.
THEOREM CitationsWithinSession == QuerySpec => []CitesWithinSession
  <1>1. AskInv => CitesWithinSession
    BY DEF AskInv, TurnsInv, SessionAccepts, Citable, CitesWithinSession
  <1> QED
    BY <1>1, AskAssumption, InitInv, QueryNextInv, PTL DEF QuerySpec

\* No answer cites a document that had been deleted when it was asked for.
THEOREM DeletedUncited == QuerySpec => []DeletedNotCited
  <1>1. AskInv => DeletedNotCited
    BY DEF AskInv, TurnsInv, Citable, DeletedNotCited
  <1> QED
    BY <1>1, AskAssumption, InitInv, QueryNextInv, PTL DEF QuerySpec

-----------------------------------------------------------------------------
(* Citations of one run                                                      *)

\* The chunks an ask has found in a document come from one run.
HitsOneRun ==
    \A a \in Askers : \A i, j \in hits[a] : i.src.doc = j.src.doc => i.run = j.run

OneRunInv == HitsOneRun /\ CitesOneRun

LEMMA AskStepOneRun ==
    ASSUME TypeOK, AskTypeOK, ChunksOfOneRun, OneRunInv, NEW a \in Askers,
           \/ \E u \in Users, w \in Workspaces, d \in Docs \cup {NoDoc},
                s \in 0..Len(sessions) : Begin(a, u, w, d, s)
           \/ AnswerStep(a) \/ AskFails(a)
    PROVE  OneRunInv'
  <1>1. hits \in [Askers -> SUBSET ChunkId]
    BY DEF AskTypeOK
  <1>2. ASSUME UNCHANGED <<hits, turns>> PROVE OneRunInv'
    BY <1>2 DEF OneRunInv, HitsOneRun, CitesOneRun
  <1>3. CASE Search(a)
    <2>1. PICK ids \in SUBSET Ids(Searchable(ask[a])) : hits' = [hits EXCEPT ![a] = ids]
      BY <1>3 DEF Search
    <2>2. ASSUME NEW i \in ids, NEW j \in ids, i.src.doc = j.src.doc PROVE i.run = j.run
      <3>1. PICK c \in chunks : c.id = i
        BY <2>1 DEF Ids, Searchable
      <3>2. PICK e \in chunks : e.id = j
        BY <2>1 DEF Ids, Searchable
      <3>3. i.src.doc \in Docs
        BY <3>1 DEF TypeOK, DbTypeOK, ChunkRow, ChunkId, PageRow
      <3> QED
        BY <2>2, <3>1, <3>2, <3>3 DEF ChunksOfOneRun, ChunksOf
    <2>3. HitsOneRun'
      BY <1>1, <2>1, <2>2 DEF OneRunInv, HitsOneRun
    <2> QED
      BY <1>3, <2>3 DEF Search, OneRunInv, CitesOneRun
  <1>4. CASE Select(a)
    <2>1. PICK ids \in SUBSET hits[a] : hits' = [hits EXCEPT ![a] = ids]
      BY <1>4 DEF Select
    <2>2. HitsOneRun'
      BY <1>1, <2>1 DEF OneRunInv, HitsOneRun
    <2> QED
      BY <1>4, <2>2 DEF Select, OneRunInv, CitesOneRun
  <1>5. ASSUME Reset(a) PROVE HitsOneRun'
    BY <1>1, <1>5 DEF OneRunInv, HitsOneRun, Reset
  <1>6. CASE Commit(a)
    <2>1. \A t \in turns' : t \in turns \/ t.cites = hits[a]
      BY <1>6 DEF Commit
    <2>2. CitesOneRun'
      BY <2>1 DEF OneRunInv, HitsOneRun, CitesOneRun
    <2> QED
      BY <1>5, <1>6, <2>2 DEF Commit, OneRunInv
  <1>7. CASE AskFails(a)
    BY <1>5, <1>7 DEF AskFails, OneRunInv, CitesOneRun
  <1> QED
    BY <1>2, <1>3, <1>4, <1>6, <1>7 DEF Begin, Cite, AnswerStep

\* With a single worker, the chunks of a document that an answer cites come from one
\* run, however the document is re-ingested and reprocessed while the answer is made.
THEOREM CitesOfOneRun ==
    ASSUME OneWorker
    PROVE  QuerySpec => []CitesOneRun
  <1>1. AskInit => Init /\ OneRunInv
    BY DEF AskInit, OneRunInv, HitsOneRun, CitesOneRun
  <1>2. [QueryNext]_allVars => [Next]_vars
    BY DEF QueryNext, Beside, allVars, vars
  <1>3. AskTypeOK /\ TypeOK /\ ChunksOfOneRun /\ OneRunInv /\ [QueryNext]_allVars => OneRunInv'
    <2> SUFFICES ASSUME AskTypeOK, TypeOK, ChunksOfOneRun, OneRunInv, [QueryNext]_allVars
                 PROVE  OneRunInv'
      OBVIOUS
    <2>1. ASSUME UNCHANGED askVars PROVE OneRunInv'
      BY <2>1 DEF askVars, OneRunInv, HitsOneRun, CitesOneRun
    <2>2. ASSUME AskNext PROVE OneRunInv'
      BY <2>2, AskStepOneRun DEF AskNext
    <2> QED
      BY <2>1, <2>2 DEF QueryNext, Beside, allVars
  <1>4. OneRunInv => CitesOneRun
    BY DEF OneRunInv
  <1>5. QuerySpec => Spec
    BY <1>1, <1>2, PTL DEF QuerySpec, Spec
  <1> QED
    BY <1>1, <1>3, <1>4, <1>5, AskTypeCorrect, TypeCorrect, ChunksCorrect, PTL DEF QuerySpec

=============================================================================
