------------------------------ MODULE QueryChat ------------------------------
(***************************************************************************)
(* The chat page: a transcript kept in the browser, beside the one the     *)
(* server keeps, for the document and the session its URL names.  The page *)
(* stays mounted when only the URL's parameters change; the transcript of  *)
(* a session in the URL is fetched, questions are asked one at a time, and *)
(* each answer is read when it arrives, by a page that may have gone on.   *)
(*                                                                         *)
(* At the server an ask is one step here (QueryAsk has its stages).        *)
(***************************************************************************)
EXTENDS Integers, Sequences

CONSTANTS
    Documents,
    NoDoc,       \* no ?document=, document_id null: the whole workspace
    MaxAsks,     \* bound: questions ever asked
    MaxSessions, \* bound: sessions ever created
    MaxMoves     \* bound: pages opened and changes of their URL

ASSUME ChatAssumption ==
    NoDoc \notin Documents /\ MaxAsks \in Nat /\ MaxSessions \in Nat /\ MaxMoves \in Nat

VARIABLES
    url,        \* ?document= and ?session=
    sessionId,
    messages,
    ask,        \* the mutation: the question that is pending, what came of it, in which session
    loadErr,
    fetches,    \* fetches of transcripts, with the flag their closures hold
    requests,   \* asks on their way to the server, also of pages that are gone
    sessions,   \* query_sessions rows, each with the questions it has answers to
    asked,      \* questions asked, of which each is known by its number
    moves,
    moved,      \* for the properties only: the URL has changed since the page was opened
    late        \* for the properties only: a transcript has replaced the messages while a
                \* question was pending, whose answer is "awaited" or has "come"

pageVars   == <<url, sessionId, messages, ask, loadErr, fetches>>
serverVars == <<requests, sessions>>
countVars  == <<asked, moves, moved, late>>
vars       == <<pageVars, serverVars, countVars>>

NoSession == 0
Idle      == [pending |-> 0, result |-> "none", session |-> NoSession]
Url       == [doc : Documents \cup {NoDoc}, session : 0..Len(sessions)]

Question(n) == [role |-> "user", of |-> n]
Answer(n)   == [role |-> "assistant", of |-> n]

\* The text of an error, shown as if it were an answer.
Failure(n, code) == [role |-> code, of |-> n]

Fetch(s) == [session |-> s, cancelled |-> FALSE, read |-> <<>>, got |-> "none"]
Live     == {f \in fetches : ~f.cancelled}

\* The effect of a URL that names session s.
FetchFor(s) == IF s = NoSession THEN {} ELSE {Fetch(s)}

Init ==
    /\ url = [doc |-> NoDoc, session |-> NoSession]
    /\ sessionId = NoSession /\ messages = <<>> /\ ask = Idle
    /\ loadErr = FALSE
    /\ fetches = {} /\ requests = {}
    /\ sessions = <<>>
    /\ asked = 0 /\ moves = 0 /\ moved = FALSE /\ late = "none"

-----------------------------------------------------------------------------
(* The URL                                                                   *)

\* The page is mounted afresh: followed from elsewhere, or loaded again.  A
\* mutation of the page before it goes on, but its callbacks are not called.
Open(u) ==
    /\ moves < MaxMoves /\ moves' = moves + 1
    /\ url' = u
    /\ sessionId' = NoSession /\ messages' = <<>> /\ ask' = Idle
    /\ loadErr' = FALSE
    /\ fetches' = FetchFor(u.session)
    /\ moved' = FALSE /\ late' = "none"
    /\ UNCHANGED <<serverVars, asked>>

\* Mutant of Cleanup: what the effect returns does nothing.
CleanupForgotten(fs) == fs

\* What the effect returns: cancelled = true.
Cleanup(fs) == {[f EXCEPT !.cancelled = TRUE] : f \in fs}

\* A link of the same route, or the history: the effect runs again if the
\* session is another one.
ChangeUrl(u) ==
    /\ moves < MaxMoves /\ moves' = moves + 1
    /\ u # url
    /\ url' = u
    /\ moved' = TRUE
    /\ IF u.session = url.session
       THEN UNCHANGED <<fetches, loadErr>>
       ELSE /\ fetches' = Cleanup(fetches) \cup FetchFor(u.session)
            /\ loadErr' = (loadErr /\ u.session = NoSession)
    /\ UNCHANGED <<sessionId, messages, ask, serverVars, asked, late>>

-----------------------------------------------------------------------------
(* fetchSession                                                              *)

\* The server reads the transcript, or the fetch fails.
Read(f) ==
    /\ f.got = "none"
    /\ \E got \in {"transcript", "error"} :
          fetches' = (fetches \ {f}) \cup
              {[f EXCEPT !.got = got, !.read = IF got = "error" THEN <<>>
                                               ELSE sessions[f.session].turns]}
    /\ UNCHANGED <<url, sessionId, messages, ask, loadErr, serverVars, countVars>>

\* A question and its answer have one created_at, so either may be listed first.
Transcripts(turns) ==
    {[i \in 1..2 * Len(turns) |->
         LET n == turns[(i + 1) \div 2] IN
         IF (i % 2 = 1) = (n \notin swapped) THEN Question(n) ELSE Answer(n)] :
     swapped \in SUBSET {turns[i] : i \in DOMAIN turns}}

\* then and catch; a cancelled one changes nothing.
Loaded(f) ==
    /\ f.got # "none"
    /\ fetches' = fetches \ {f}
    /\ \/ f.cancelled /\ UNCHANGED <<sessionId, messages, loadErr, late>>
       \/ /\ ~f.cancelled /\ f.got = "transcript"
          /\ sessionId' = f.session
          /\ messages' \in Transcripts(f.read)
          /\ late' = IF ask = Idle THEN "none" ELSE "awaited"
          /\ UNCHANGED loadErr
       \/ /\ ~f.cancelled /\ f.got = "error"
          /\ loadErr' = TRUE
          /\ UNCHANGED <<sessionId, messages, late>>
    /\ UNCHANGED <<url, ask, serverVars, asked, moves, moved>>

-----------------------------------------------------------------------------
(* Asking                                                                    *)

\* Mutant of MaySubmit: a question may be sent while another is pending.
MaySubmitAlways == TRUE

\* if (!question.trim() || ask.isPending) return
MaySubmit == ask = Idle

\* The request carries the document and the session as they are now.
Submit ==
    /\ MaySubmit
    /\ asked < MaxAsks
    /\ asked' = asked + 1
    /\ messages' = Append(messages, Question(asked'))
    /\ ask' = [Idle EXCEPT !.pending = asked']
    /\ requests' = requests \cup {[of |-> asked', doc |-> url.doc, session |-> sessionId]}
    /\ UNCHANGED <<url, sessionId, loadErr, fetches, sessions, moves, moved, late>>

\* An answer reaches the page that waits for it, or is lost, which is an error.
Reply(n, result, s) ==
    IF ask.pending = n /\ ask.result = "none"
    THEN ask' \in {[pending |-> n, result |-> result, session |-> s],
                   [pending |-> n, result |-> "error", session |-> NoSession]}
    ELSE UNCHANGED ask

\* Mutant of NewSession: the session does not record what it is about.
NewSessionUnscoped(q) == [scope |-> NoDoc, turns |-> <<q.of>>]

NewSession(q) == [scope |-> q.doc, turns |-> <<q.of>>]

\* ask() of query_service; the session of an answer is its data.session.id.
Serve(q) ==
    /\ requests' = requests \ {q}
    /\ \/ /\ q.session = NoSession /\ Len(sessions) < MaxSessions
          /\ sessions' = Append(sessions, NewSession(q))
          /\ Reply(q.of, "answer", Len(sessions'))
       \/ /\ q.session # NoSession /\ sessions[q.session].scope = q.doc
          /\ sessions' = [sessions EXCEPT ![q.session].turns = Append(@, q.of)]
          /\ Reply(q.of, "answer", q.session)
       \/ /\ q.session # NoSession /\ sessions[q.session].scope # q.doc
          /\ Reply(q.of, "scope_mismatch", NoSession)
          /\ UNCHANGED sessions
    /\ UNCHANGED <<url, sessionId, messages, loadErr, fetches, countVars>>

\* The connection breaks or the ask is rolled back; the page is told, and a
\* request that has left the browser may still be served.
Break(q) ==
    /\ ask.pending = q.of /\ ask.result = "none"
    /\ ask' = [ask EXCEPT !.result = "error"]
    /\ requests' \in {requests, requests \ {q}}
    /\ UNCHANGED <<url, sessionId, messages, loadErr, fetches, sessions, countVars>>

\* Mutant of KeepSession: the next question starts another session.
KeepSessionNot(s) == UNCHANGED sessionId

KeepSession(s) == sessionId' = s

\* The callbacks given to ask.mutate: onSuccess, onError.
Deliver ==
    /\ ask.result # "none"
    /\ ask' = Idle
    /\ \/ /\ ask.result = "answer"
          /\ KeepSession(ask.session)
          /\ messages' = Append(messages, Answer(ask.pending))
          /\ late' = IF late = "awaited" THEN "come" ELSE late
       \/ /\ ask.result # "answer"
          /\ UNCHANGED sessionId
          /\ messages' = Append(messages, Failure(ask.pending, ask.result))
          /\ late' = IF late = "awaited" THEN "none" ELSE late
    /\ UNCHANGED <<url, loadErr, fetches, serverVars, asked, moves, moved>>

\* The same user asks in another tab.
AskElsewhere(q) ==
    /\ asked < MaxAsks /\ asked' = asked + 1
    /\ \/ /\ q.session = NoSession /\ Len(sessions) < MaxSessions
          /\ sessions' = Append(sessions, [scope |-> q.doc, turns |-> <<asked'>>])
       \/ /\ q.session # NoSession /\ sessions[q.session].scope = q.doc
          /\ sessions' = [sessions EXCEPT ![q.session].turns = Append(@, asked')]
    /\ UNCHANGED <<pageVars, requests, moves, moved, late>>

Next ==
    \/ \E u \in Url : Open(u) \/ ChangeUrl(u) \/ AskElsewhere(u)
    \/ \E f \in fetches : Read(f) \/ Loaded(f)
    \/ Submit \/ Deliver
    \/ \E q \in requests : Serve(q) \/ Break(q)

Spec == Init /\ [][Next]_vars

-----------------------------------------------------------------------------
(* Properties                                                                *)

Shown(roles)  == {i \in DOMAIN messages : messages[i].role \in roles}
Beside(i, roles) ==
    \E j \in {i - 1, i + 1} \cap Shown(roles) : messages[j].of = messages[i].of
Errors        == {"error", "scope_mismatch"}
NoneRefused   == Shown({"scope_mismatch"}) = {}

\* Question n has an answer in session s, or in the one of the page.
AnsweredIn(s, n) == \E k \in DOMAIN sessions[s].turns : sessions[s].turns[k] = n
AnsweredHere(n)  == sessionId # NoSession /\ AnsweredIn(sessionId, n)

\* The answers on the page are answers of the session it goes on to ask in, each
\* once and beside its question: whatever was lost, or asked in other tabs, and
\* though a transcript may be asked for or arrive while a question is pending.  The
\* exception is the answer to a question that was asked before the transcript which
\* is shown had arrived: from its coming until the next transcript see ThreadsApart.
AnswersOfSession ==
    late # "come" =>
        \A i \in Shown({"assistant"}) :
            /\ AnsweredHere(messages[i].of)
            /\ Beside(i, {"user"})
            /\ \A j \in Shown({"assistant"}) : messages[j].of = messages[i].of => j = i

\* What a late answer leaves is not shuffled: of the answers on the page those up to
\* some place are of one session, the transcript that came under a pending question,
\* and all that follow are of the session the page goes on to ask in.
ThreadsApart ==
    \E k \in 0..Len(messages) : \A i, j \in Shown({"assistant"}) :
        /\ i > k => AnsweredHere(messages[i].of)
        /\ i <= k /\ j <= k =>
              \E s \in DOMAIN sessions :
                  AnsweredIn(s, messages[i].of) /\ AnsweredIn(s, messages[j].of)

\* Every question on the page but the one that is pending has its answer or its
\* error beside it, whichever transcript replaced the messages meanwhile: no
\* callback is lost to a later question.
EachQuestionAnswered ==
    \A i \in Shown({"user"}) :
        messages[i].of = ask.pending \/ Beside(i, {"assistant"} \cup Errors)

\* When all has been fetched, the page shows the session its URL names, or says
\* that it could not load it: an earlier fetch that ends late changes nothing, and
\* of the answers only one that was asked for before that session was shown does.
UrlSessionShown ==
    late # "come" /\ ~loadErr /\ Live = {} /\ url.session # NoSession =>
        sessionId = url.session

\* A page opened without a session asks on in the one its first question began,
\* and is never refused there, also if answers of it have been lost.
OwnSessionContinues == ~moved /\ url.session = NoSession => NoneRefused

=============================================================================
