-------------------------- MODULE QueryChatProofs --------------------------
(***************************************************************************)
(* For any number of documents, questions, sessions and moves: a chat that *)
(* begins without a session is never refused in the one it has begun, and  *)
(* what a page shows agrees with the sessions of the server.               *)
(***************************************************************************)
EXTENDS QueryChat, Functions, SequenceTheorems, TLAPS

Row     == [scope : Documents \cup {NoDoc}, turns : Seq(Nat)]
Message == [role : {"user", "assistant", "error", "scope_mismatch"}, of : Nat]

\* Requests are known by the number of their question, which is never used again.
ServerInv ==
    /\ sessions \in Seq(Row)
    /\ asked \in Nat
    /\ \A q \in requests : q.of \in 1..asked /\ q.doc \in Documents \cup {NoDoc}

PageInv ==
    /\ url.doc \in Documents \cup {NoDoc}
    /\ ask = [pending |-> ask.pending, result |-> ask.result, session |-> ask.session]
    /\ ask.pending \in Nat
    /\ ask.result \in {"none", "answer", "error", "scope_mismatch"}

\* No session, or one about the document of the URL.
OfUrl(s) == s # NoSession => s \in 1..Len(sessions) /\ sessions[s].scope = url.doc

\* What OwnSessionContinues rests on: the page, the request it waits for and the
\* answer to that know no session but the one that the page began for its document.
OwnInv ==
    ~moved /\ url.session = NoSession =>
        /\ fetches = {}
        /\ OfUrl(sessionId)
        /\ \A q \in requests : q.of = ask.pending => q.doc = url.doc /\ OfUrl(q.session)
        /\ ask.result # "scope_mismatch" /\ OfUrl(ask.session)
        /\ messages \in Seq(Message) /\ NoneRefused

ChatInv == ServerInv /\ PageInv /\ OwnInv

-----------------------------------------------------------------------------
(* What the properties of the transcript rest on                             *)

\* A question is answered once, in one session, and not while it is on its way.
ServedInv ==
    /\ \A s \in DOMAIN sessions :
         /\ IsInjective(sessions[s].turns)
         /\ \A n \in Nat : AnsweredIn(s, n) => n \in 1..asked /\ \A q \in requests : q.of # n
    /\ \A q, r \in requests : q.of = r.of => q = r

\* What a fetch has read is in its session, each question once.
FetchOK(f) ==
    /\ f = [session |-> f.session, cancelled |-> f.cancelled, read |-> f.read, got |-> f.got]
    /\ f.session \in 1..Len(sessions)
    /\ f.read \in Seq(Nat) /\ IsInjective(f.read)
    /\ \A k \in DOMAIN f.read : AnsweredIn(f.session, f.read[k])

\* The sessions that the page, its requests and its fetches know of are there.
KnownInv ==
    /\ \A f \in fetches : FetchOK(f)
    /\ \A q \in requests : q.session \in 0..Len(sessions)
    /\ sessionId \in 0..Len(sessions)
    /\ ask.result = "answer" => ask.session \in 1..Len(sessions)

\* A fetch that is live is for the URL, and the last one has left its session to the
\* page; only a question that is pending can have an answer that is awaited too late.
FetchesInv ==
    /\ \A f \in Live : f.session = url.session
    /\ late # "come" /\ ~loadErr /\ Live = {} /\ url.session # NoSession =>
         sessionId = url.session
    /\ late \in {"none", "awaited", "come"}
    /\ late = "awaited" => ask # Idle

\* The question that is pending is the last message, asked in the session of the page,
\* and its answer is in that session, or in the first the page has: unless a transcript
\* has replaced the messages since.
PendingInv ==
    /\ ask # Idle => ask.pending \in 1..asked
    /\ ask # Idle /\ late # "awaited" =>
         Len(messages) # 0 /\ messages[Len(messages)] = Question(ask.pending)
    /\ late # "awaited" => \A q \in requests : q.of = ask.pending => q.session = sessionId
    /\ ask.result = "answer" =>
         /\ AnsweredIn(ask.session, ask.pending)
         /\ late # "awaited" /\ sessionId # NoSession => ask.session = sessionId

\* The messages of the page: a question that is not pending has something beside it.
MessagesInv ==
    /\ messages \in Seq(Message)
    /\ \A i \in DOMAIN messages : messages[i].of \in 1..asked
    /\ \A i \in Shown({"user"}) :
         \/ late # "awaited" /\ ask # Idle /\ i = Len(messages)
         \/ Beside(i, {"assistant"} \cup Errors)

\* Until an answer has come too late, every answer is of the session, beside its question,
\* and there is no other; none is there yet for the question at the end.
AnswersInv ==
    late # "come" =>
        \A i \in Shown({"assistant"}) :
            /\ sessionId # NoSession /\ AnsweredIn(sessionId, messages[i].of)
            /\ late = "none" => messages[i].of # ask.pending
            /\ Beside(i, {"user"})
            /\ \A j \in Shown({"assistant"}) : messages[j].of = messages[i].of => j = i

ShownInv == FetchesInv /\ PendingInv /\ MessagesInv /\ AnswersInv

TranscriptInv == ServedInv /\ KnownInv /\ ShownInv

-----------------------------------------------------------------------------
(* Lemmas on sequences                                                       *)

\* An element that is added leaves the elements before it where they are.
LEMMA Added ==
    ASSUME NEW S, NEW q \in Seq(S), NEW e \in S
    PROVE  /\ Append(q, e) \in Seq(S)
           /\ Len(q) \in Nat /\ Len(Append(q, e)) = Len(q) + 1
           /\ DOMAIN Append(q, e) = DOMAIN q \cup {Len(q) + 1}
           /\ \A n \in DOMAIN q : Append(q, e)[n] = q[n]
           /\ Append(q, e)[Len(q) + 1] = e
  OBVIOUS

\* A message that is no refusal.
LEMMA SaidInv ==
    ASSUME messages \in Seq(Message), NoneRefused, NEW m \in Message,
           m.role # "scope_mismatch", messages' = Append(messages, m)
    PROVE  messages' \in Seq(Message) /\ NoneRefused'
  BY Added DEF NoneRefused, Shown

\* Sessions are added and gain turns; none is lost or changes its scope.
SessionsKept ==
    /\ sessions' \in Seq(Row)
    /\ Len(sessions) \in Nat /\ Len(sessions') \in Nat
    /\ Len(sessions) <= Len(sessions')
    /\ \A s \in 1..Len(sessions) : sessions'[s].scope = sessions[s].scope

LEMMA SessionAdded ==
    ASSUME sessions \in Seq(Row), NEW d \in Documents \cup {NoDoc}, NEW n \in Nat,
           sessions' = Append(sessions, [scope |-> d, turns |-> <<n>>])
    PROVE  /\ SessionsKept
           /\ Len(sessions') \in 1..Len(sessions') /\ sessions'[Len(sessions')].scope = d
  <1> DEFINE row == [scope |-> d, turns |-> <<n>>]
  <1>1. <<n>> \in Seq(Nat)
    OBVIOUS
  <1>2. row \in Row /\ row.scope = d
    BY <1>1 DEF Row
  <1> HIDE DEF row
  <1>3. sessions' = Append(sessions, row)
    BY DEF row
  <1> QED
    BY <1>2, <1>3, Added DEF SessionsKept

LEMMA TurnAdded ==
    ASSUME sessions \in Seq(Row), NEW i, NEW n \in Nat,
           sessions' = [sessions EXCEPT ![i].turns = Append(sessions[i].turns, n)]
    PROVE  SessionsKept
  <1>1. DOMAIN sessions' = DOMAIN sessions /\ Len(sessions) \in Nat
        /\ DOMAIN sessions = 1..Len(sessions)
    OBVIOUS
  <1>2. ASSUME NEW s \in 1..Len(sessions)
        PROVE  sessions'[s] \in Row /\ sessions'[s].scope = sessions[s].scope
    <2>1. sessions[s] \in Row
      OBVIOUS
    <2>2. Append(sessions[s].turns, n) \in Seq(Nat)
      BY <2>1, Added DEF Row
    <2>3. CASE s = i
      <3>1. sessions'[s] = [sessions[s] EXCEPT !.turns = Append(sessions[s].turns, n)]
        BY <1>1, <2>3
      <3> QED
        BY <2>1, <2>2, <3>1 DEF Row
    <2>4. CASE s # i
      BY <1>1, <2>1, <2>4
    <2> QED
      BY <2>3, <2>4
  <1>3. sessions' \in Seq(Row) /\ Len(sessions') = Len(sessions)
    <2>1. sessions' \in [1..Len(sessions) -> Row]
      BY <1>1, <1>2
    <2>2. sessions' \in Seq(Row)
      BY <1>1, <2>1, SeqDef
    <2> QED
      BY <1>1, <2>2, LenProperties
  <1> QED
    BY <1>1, <1>2, <1>3 DEF SessionsKept

-----------------------------------------------------------------------------
(* Every step keeps ChatInv                                                  *)

LEMMA InitInv ==
    ASSUME Init
    PROVE  ChatInv
  BY DEF Init, ChatInv, ServerInv, PageInv, OwnInv, OfUrl, NoneRefused, Shown, Idle, NoSession

LEMMA OpenInv ==
    ASSUME ChatInv, NEW u \in Url, Open(u)
    PROVE  ChatInv'
  <1>1. /\ url' = u /\ sessionId' = 0 /\ messages' = <<>>
        /\ ask' = [pending |-> 0, result |-> "none", session |-> 0]
        /\ fetches' = FetchFor(u.session)
        /\ UNCHANGED <<requests, sessions, asked>>
    BY DEF Open, serverVars, Idle, NoSession
  <1>2. u.doc \in Documents \cup {NoDoc}
    BY DEF Url
  <1>3. ServerInv'
    BY <1>1 DEF ChatInv, ServerInv
  <1>4. PageInv'
    BY <1>1, <1>2 DEF PageInv
  <1>5. OwnInv'
    <2>1. \A q \in requests : q.of # 0
      BY DEF ChatInv, ServerInv
    <2>2. messages' \in Seq(Message) /\ NoneRefused'
      BY <1>1 DEF NoneRefused, Shown
    <2> QED
      BY <1>1, <2>1, <2>2 DEF OwnInv, OfUrl, FetchFor, NoSession
  <1> QED
    BY <1>3, <1>4, <1>5 DEF ChatInv

LEMMA ChangeUrlInv ==
    ASSUME ChatInv, NEW u \in Url, ChangeUrl(u)
    PROVE  ChatInv'
  <1>1. url' = u /\ moved' = TRUE /\ UNCHANGED <<ask, requests, sessions, asked>>
    BY DEF ChangeUrl, serverVars
  <1>2. u.doc \in Documents \cup {NoDoc}
    BY DEF Url
  <1> QED
    BY <1>1, <1>2 DEF ChatInv, ServerInv, PageInv, OwnInv

\* Nothing is fetched as long as the URL names no session.
LEMMA FetchInv ==
    ASSUME ChatInv, NEW f \in fetches, Read(f) \/ Loaded(f)
    PROVE  ChatInv'
  <1>1. UNCHANGED <<url, ask, requests, sessions, asked, moved>>
    BY DEF Read, Loaded, serverVars, countVars
  <1>2. ~(~moved /\ url.session = NoSession)
    BY DEF ChatInv, OwnInv
  <1> QED
    BY <1>1, <1>2 DEF ChatInv, ServerInv, PageInv, OwnInv

LEMMA SubmitInv ==
    ASSUME ChatInv, Submit
    PROVE  ChatInv'
  <1> DEFINE q == [of |-> asked', doc |-> url.doc, session |-> sessionId]
  <1>1. /\ asked' = asked + 1
        /\ messages' = Append(messages, Question(asked'))
        /\ ask' = [pending |-> asked', result |-> "none", session |-> 0]
        /\ requests' = requests \cup {q}
        /\ UNCHANGED <<url, sessionId, fetches, sessions, moved>>
    BY DEF Submit, Idle, NoSession
  <1>2. asked' \in Nat /\ asked' > asked /\ asked \in Nat
    BY <1>1 DEF ChatInv, ServerInv
  <1>3. q.of = asked' /\ q.doc = url.doc /\ q.session = sessionId
    OBVIOUS
  <1> HIDE DEF q
  <1>4. ServerInv'
    BY <1>1, <1>2, <1>3 DEF ChatInv, ServerInv, PageInv
  <1>5. PageInv'
    BY <1>1, <1>2 DEF ChatInv, PageInv
  <1>6. OwnInv'
    <2> SUFFICES ASSUME ~moved /\ url.session = NoSession
                 PROVE  OwnInv'
      BY <1>1 DEF OwnInv
    <2>1. \A r \in requests : r.of # asked'
      BY <1>2 DEF ChatInv, ServerInv
    <2>2. Question(asked') \in Message /\ Question(asked').role = "user"
      BY <1>2 DEF Question, Message
    <2>3. messages' \in Seq(Message) /\ NoneRefused'
      BY <1>1, <2>2, SaidInv DEF ChatInv, OwnInv
    <2> QED
      BY <1>1, <1>3, <2>1, <2>3 DEF ChatInv, OwnInv, OfUrl, NoSession
  <1> QED
    BY <1>4, <1>5, <1>6 DEF ChatInv

\* What the page waits for is told apart from what earlier pages wait for.
LEMMA ServeInv ==
    ASSUME ChatInv, NEW q \in requests, Serve(q)
    PROVE  ChatInv'
  <1>1. /\ requests' = requests \ {q}
        /\ UNCHANGED <<url, sessionId, messages, fetches, asked, moved>>
    BY DEF Serve, countVars
  <1>2. q.of \in Nat /\ q.doc \in Documents \cup {NoDoc}
    BY DEF ChatInv, ServerInv
  <1>3. sessions \in Seq(Row) /\ ask.pending \in Nat
    BY DEF ChatInv, ServerInv, PageInv
  <1> DEFINE Own == ~moved /\ url.session = NoSession
             Told == /\ SessionsKept
                     /\ ask'.pending = ask.pending
                     /\ ask' = [pending |-> ask'.pending, result |-> ask'.result,
                                session |-> ask'.session]
                     /\ ask'.result \in {"none", "answer", "error", "scope_mismatch"}
                     /\ Own => ask'.result # "scope_mismatch" /\ OfUrl(ask.session)'
  <1>4. ASSUME NEW result \in {"answer", "scope_mismatch"}, NEW s,
               SessionsKept, Reply(q.of, result, s),
               Own /\ q.of = ask.pending => result = "answer" /\ OfUrl(s)'
        PROVE  Told
    <2>1. ASSUME Own, UNCHANGED ask
          PROVE  OfUrl(ask.session)' /\ ask.result # "scope_mismatch"
      BY <1>1, <1>4, <2>1 DEF ChatInv, OwnInv, OfUrl, SessionsKept
    <2>2. \/ UNCHANGED ask
          \/ q.of = ask.pending /\ ask' = [pending |-> q.of, result |-> result, session |-> s]
          \/ q.of = ask.pending /\ ask' = [pending |-> q.of, result |-> "error", session |-> 0]
      BY <1>4 DEF Reply, NoSession
    <2>3. CASE UNCHANGED ask
      BY <1>4, <2>1, <2>3 DEF ChatInv, PageInv
    <2>4. CASE q.of = ask.pending /\ ask' = [pending |-> q.of, result |-> result, session |-> s]
      BY <1>4, <2>4 DEF OfUrl
    <2>5. CASE q.of = ask.pending /\ ask' = [pending |-> q.of, result |-> "error", session |-> 0]
      BY <1>4, <2>5 DEF OfUrl, NoSession
    <2> QED
      BY <2>2, <2>3, <2>4, <2>5
  <1>5. Told
    <2>1. CASE /\ q.session = NoSession
               /\ sessions' = Append(sessions, NewSession(q))
               /\ Reply(q.of, "answer", Len(sessions'))
      <3>1. /\ SessionsKept
            /\ Len(sessions') \in 1..Len(sessions')
            /\ sessions'[Len(sessions')].scope = q.doc
        BY <1>2, <1>3, <2>1, SessionAdded DEF NewSession
      <3>2. Own /\ q.of = ask.pending => OfUrl(Len(sessions))'
        BY <1>1, <3>1 DEF ChatInv, OwnInv, OfUrl
      <3> QED
        BY <1>4, <2>1, <3>1, <3>2
    <2>2. CASE /\ sessions' = [sessions EXCEPT ![q.session].turns =
                                                   Append(sessions[q.session].turns, q.of)]
               /\ Reply(q.of, "answer", q.session)
      <3>1. SessionsKept
        BY <1>2, <1>3, <2>2, TurnAdded
      <3>2. Own /\ q.of = ask.pending => OfUrl(q.session)'
        BY <1>1, <3>1 DEF ChatInv, OwnInv, OfUrl, SessionsKept
      <3> QED
        BY <1>4, <2>2, <3>1, <3>2
    <2>3. CASE /\ q.session # NoSession /\ sessions[q.session].scope # q.doc
               /\ Reply(q.of, "scope_mismatch", NoSession)
               /\ UNCHANGED sessions
      <3>1. SessionsKept
        BY <1>3, <2>3 DEF SessionsKept
      <3>2. ~(Own /\ q.of = ask.pending)
        BY <2>3 DEF ChatInv, OwnInv, OfUrl
      <3> QED
        BY <1>4, <2>3, <3>1, <3>2 DEF NoSession
    <2> QED
      BY <2>1, <2>2, <2>3 DEF Serve
  <1>6. ServerInv' /\ PageInv'
    BY <1>1, <1>5 DEF ChatInv, ServerInv, PageInv, SessionsKept
  <1>7. OwnInv'
    BY <1>1, <1>5 DEF ChatInv, OwnInv, OfUrl, SessionsKept, NoneRefused, Shown
  <1> QED
    BY <1>6, <1>7 DEF ChatInv

LEMMA BreakInv ==
    ASSUME ChatInv, NEW q \in requests, Break(q)
    PROVE  ChatInv'
  <1>1. /\ ask' = [ask EXCEPT !.result = "error"]
        /\ requests' \subseteq requests
        /\ UNCHANGED <<url, sessionId, messages, fetches, sessions, asked, moved>>
    BY DEF Break, countVars
  <1>2. ask'.pending = ask.pending /\ ask'.session = ask.session
        /\ ask'.result \in {"error", ask.result}
    BY <1>1
  <1> QED
    BY <1>1, <1>2 DEF ChatInv, ServerInv, PageInv, OwnInv, OfUrl, NoneRefused, Shown

LEMMA DeliverInv ==
    ASSUME ChatInv, Deliver
    PROVE  ChatInv'
  <1>1. /\ ask' = [pending |-> 0, result |-> "none", session |-> 0]
        /\ sessionId' \in {sessionId, ask.session}
        /\ UNCHANGED <<url, fetches, requests, sessions, asked, moved>>
    BY DEF Deliver, Idle, NoSession, KeepSession, serverVars, countVars
  <1>2. ServerInv' /\ PageInv'
    BY <1>1 DEF ChatInv, ServerInv, PageInv
  <1>3. OwnInv'
    <2> SUFFICES ASSUME ~moved /\ url.session = NoSession
                 PROVE  OwnInv'
      BY <1>1 DEF OwnInv
    <2>1. \A q \in requests : q.of # 0
      BY DEF ChatInv, ServerInv
    <2>2. PICK m \in Message : m.role # "scope_mismatch" /\ messages' = Append(messages, m)
      <3>1. /\ Answer(ask.pending) \in Message /\ Answer(ask.pending).role = "assistant"
            /\ Failure(ask.pending, "error") \in Message
            /\ Failure(ask.pending, "error").role = "error"
        BY DEF ChatInv, PageInv, Answer, Failure, Message
      <3>2. ask.result \in {"answer", "error"}
        BY DEF Deliver, ChatInv, PageInv, OwnInv
      <3> QED
        BY <3>1, <3>2 DEF Deliver
    <2>3. messages' \in Seq(Message) /\ NoneRefused'
      BY <2>2, SaidInv DEF ChatInv, OwnInv
    <2> QED
      BY <1>1, <2>1, <2>3 DEF ChatInv, OwnInv, OfUrl, NoSession
  <1> QED
    BY <1>2, <1>3 DEF ChatInv

\* What is asked in another tab gets numbers and sessions of its own.
LEMMA AskElsewhereInv ==
    ASSUME ChatInv, NEW u \in Url, AskElsewhere(u)
    PROVE  ChatInv'
  <1>1. asked' = asked + 1 /\ UNCHANGED <<pageVars, requests, moved>>
    BY DEF AskElsewhere
  <1>2. /\ asked \in Nat /\ asked' \in Nat /\ sessions \in Seq(Row)
        /\ u.doc \in Documents \cup {NoDoc}
    BY <1>1 DEF ChatInv, ServerInv, Url
  <1>3. SessionsKept
    <2>1. CASE sessions' = Append(sessions, [scope |-> u.doc, turns |-> <<asked'>>])
      BY <1>2, <2>1, SessionAdded
    <2>2. CASE sessions' = [sessions EXCEPT ![u.session].turns =
                                               Append(sessions[u.session].turns, asked')]
      BY <1>2, <2>2, TurnAdded
    <2> QED
      BY <2>1, <2>2 DEF AskElsewhere
  <1> QED
    BY <1>1, <1>2, <1>3 DEF ChatInv, ServerInv, PageInv, OwnInv, OfUrl, SessionsKept,
                            NoneRefused, Shown, pageVars

LEMMA StepInv ==
    ASSUME ChatInv, [Next]_vars
    PROVE  ChatInv'
  <1>1. CASE UNCHANGED vars
    BY <1>1 DEF vars, pageVars, serverVars, countVars, ChatInv, ServerInv, PageInv, OwnInv,
                OfUrl, NoneRefused, Shown
  <1> QED
    BY <1>1, OpenInv, ChangeUrlInv, FetchInv, SubmitInv, ServeInv, BreakInv, DeliverInv,
       AskElsewhereInv DEF Next

\* However many questions are asked, in however many tabs, and whichever answers
\* are lost: a page that was opened without a session and whose URL has not
\* changed is never told that the session it asks in is about something else.
THEOREM NeverRefusedInOwnSession == Spec => []OwnSessionContinues
  <1>1. ChatInv => OwnSessionContinues
    BY DEF ChatInv, OwnInv, OwnSessionContinues
  <1>2. ChatInv /\ [Next]_vars => ChatInv'
    BY StepInv
  <1> QED
    BY InitInv, <1>1, <1>2, PTL DEF Spec

-----------------------------------------------------------------------------
(* The answers of sessions, and the messages of the page                     *)

\* Sessions keep the answers they have.
SessionsGrow ==
    /\ SessionsKept
    /\ \A s \in 1..Len(sessions) : \A n \in Nat : AnsweredIn(s, n) => AnsweredIn(s, n)'

\* Question n has been answered in session t, and nothing else.
OneAnswered(t, n) ==
    /\ SessionsGrow
    /\ t \in 1..Len(sessions') /\ AnsweredIn(t, n)'
    /\ \A s \in 1..Len(sessions') :
         /\ IsInjective(sessions'[s].turns)
         /\ \A m \in Nat : AnsweredIn(s, m)' =>
              m = n \/ (s \in 1..Len(sessions) /\ AnsweredIn(s, m))

\* A question is not answered twice in a session that did not have it.
LEMMA InjectiveAdded ==
    ASSUME NEW q \in Seq(Nat), IsInjective(q), NEW n \in Nat, \A k \in DOMAIN q : q[k] # n
    PROVE  IsInjective(Append(q, n))
  BY Added DEF IsInjective

LEMMA AnsweredAnew ==
    ASSUME sessions \in Seq(Row), NEW d \in Documents \cup {NoDoc}, NEW n \in Nat,
           \A s \in DOMAIN sessions : IsInjective(sessions[s].turns),
           sessions' = Append(sessions, [scope |-> d, turns |-> <<n>>])
    PROVE  \E t \in 1..Len(sessions') : t = Len(sessions') /\ OneAnswered(t, n)
  <1> DEFINE row == [scope |-> d, turns |-> <<n>>]
  <1>1. SessionsKept
    BY SessionAdded
  <1>2. row \in Row /\ row.turns = <<n>>
    <2>1. <<n>> \in Seq(Nat)
      OBVIOUS
    <2> QED
      BY <2>1 DEF Row
  <1> HIDE DEF row
  <1>3. sessions' = Append(sessions, row)
    BY DEF row
  <1>4. /\ Len(sessions) \in Nat /\ DOMAIN sessions = 1..Len(sessions)
        /\ Len(sessions') = Len(sessions) + 1
        /\ \A s \in 1..Len(sessions) : sessions'[s] = sessions[s]
        /\ sessions'[Len(sessions')] = row
    BY <1>2, <1>3, Added
  <1>5. /\ DOMAIN row.turns = {1} /\ row.turns[1] = n /\ IsInjective(row.turns)
    BY <1>2 DEF IsInjective
  <1>6. \A s \in 1..Len(sessions), m \in Nat : AnsweredIn(s, m)' <=> AnsweredIn(s, m)
    BY <1>4 DEF AnsweredIn
  <1>7. PICK t \in 1..Len(sessions') : t = Len(sessions')
    BY <1>4
  <1>8. \A m \in Nat : AnsweredIn(t, m)' <=> m = n
    BY <1>4, <1>5, <1>7 DEF AnsweredIn
  <1>9. \A s \in 1..Len(sessions') : IsInjective(sessions'[s].turns)
    BY <1>4, <1>5
  <1>10. OneAnswered(t, n)
    BY <1>1, <1>4, <1>6, <1>7, <1>8, <1>9 DEF OneAnswered, SessionsGrow
  <1> QED
    BY <1>7, <1>10

LEMMA AnsweredOn ==
    ASSUME sessions \in Seq(Row), NEW t \in 1..Len(sessions), NEW n \in Nat,
           \A s \in DOMAIN sessions : IsInjective(sessions[s].turns),
           ~AnsweredIn(t, n),
           sessions' = [sessions EXCEPT ![t].turns = Append(sessions[t].turns, n)]
    PROVE  OneAnswered(t, n)
  <1> DEFINE turns == sessions[t].turns
  <1>1. SessionsKept
    BY TurnAdded
  <1>2. /\ Len(sessions) \in Nat /\ DOMAIN sessions = 1..Len(sessions)
        /\ Len(sessions') = Len(sessions)
        /\ sessions[t] \in Row /\ turns \in Seq(Nat)
    <2>1. sessions[t] \in Row
      OBVIOUS
    <2>2. DOMAIN sessions' = DOMAIN sessions
      OBVIOUS
    <2>3. Len(sessions') = Len(sessions)
      BY <1>1, <2>2, LenProperties DEF SessionsKept
    <2> QED
      BY <2>1, <2>3 DEF Row
  <1>3. /\ sessions'[t].turns = Append(turns, n)
        /\ \A s \in 1..Len(sessions) : s # t => sessions'[s] = sessions[s]
    <2>1. sessions'[t] = [sessions[t] EXCEPT !.turns = Append(turns, n)]
      BY <1>2
    <2> QED
      BY <1>2, <2>1 DEF Row
  <1>4. /\ IsInjective(turns) /\ Len(turns) \in Nat
        /\ \A k \in DOMAIN turns : turns[k] # n
    BY <1>2 DEF AnsweredIn
  <1>5. IsInjective(Append(turns, n))
    BY <1>2, <1>4, InjectiveAdded
  <1>6. /\ DOMAIN Append(turns, n) = DOMAIN turns \cup {Len(turns) + 1}
        /\ \A k \in DOMAIN turns : Append(turns, n)[k] = turns[k]
        /\ Append(turns, n)[Len(turns) + 1] = n
    BY <1>2, Added
  <1>7. \A m \in Nat : AnsweredIn(t, m)' <=> AnsweredIn(t, m) \/ m = n
    BY <1>3, <1>6 DEF AnsweredIn
  <1>8. \A s \in 1..Len(sessions), m \in Nat :
          s # t => (AnsweredIn(s, m)' <=> AnsweredIn(s, m))
    BY <1>3 DEF AnsweredIn
  <1>9. \A s \in 1..Len(sessions') : IsInjective(sessions'[s].turns)
    BY <1>2, <1>3, <1>5
  <1> QED
    BY <1>1, <1>2, <1>7, <1>8, <1>9 DEF OneAnswered, SessionsGrow

LEMMA SameSessionsGrow ==
    ASSUME sessions \in Seq(Row), UNCHANGED sessions
    PROVE  SessionsGrow
  BY DEF SessionsGrow, SessionsKept, AnsweredIn

\* What is known of a fetch stays true as sessions grow.
LEMMA FetchKept ==
    ASSUME SessionsGrow, NEW f, FetchOK(f)
    PROVE  FetchOK(f)'
  <1>1. \A k \in DOMAIN f.read : f.read[k] \in Nat
    BY DEF FetchOK
  <1> QED
    BY <1>1 DEF FetchOK, SessionsGrow, SessionsKept

\* What is known of the messages stays true as sessions grow and questions are asked.
LEMMA MessagesKept ==
    ASSUME SessionsGrow, MessagesInv, AnswersInv, asked \in Nat, asked' \in Nat,
           asked <= asked', sessionId \in 0..Len(sessions),
           UNCHANGED <<messages, sessionId, late>>,
           ask'.pending = ask.pending, ask # Idle => ask' # Idle
    PROVE  MessagesInv' /\ AnswersInv'
  <1>1. \A i \in DOMAIN messages : messages[i].of \in Nat
    BY DEF MessagesInv
  <1>2. \A R : Shown(R)' = Shown(R)
    BY DEF Shown
  <1>3. \A i, R : Beside(i, R) => Beside(i, R)'
    BY DEF Beside, Shown
  <1>4. ASSUME late # "come", NEW i \in Shown({"assistant"})
        PROVE  AnsweredIn(sessionId, messages[i].of)'
    <2>1. /\ sessionId # NoSession /\ AnsweredIn(sessionId, messages[i].of)
          /\ messages[i].of \in Nat
      BY <1>1, <1>4 DEF AnswersInv, Shown
    <2>2. sessionId \in 1..Len(sessions)
      BY <2>1 DEF NoSession, SessionsGrow, SessionsKept
    <2>3. PICK s \in 1..Len(sessions), n \in Nat : s = sessionId /\ n = messages[i].of
      BY <2>1, <2>2
    <2>4. AnsweredIn(s, n)'
      BY <2>1, <2>3 DEF SessionsGrow
    <2> QED
      BY <2>3, <2>4 DEF AnsweredIn
  <1>5. \A i \in DOMAIN messages : messages[i].of \in 1..asked'
    BY DEF MessagesInv
  <1>6. messages' \in Seq(Message)
    BY DEF MessagesInv
  <1>7. \A i \in Shown({"user"})' :
          \/ late' # "awaited" /\ ask' # Idle /\ i = Len(messages')
          \/ Beside(i, {"assistant"} \cup Errors)'
    BY <1>2, <1>3 DEF MessagesInv
  <1>8. late # "come" => \A i \in Shown({"assistant"})' :
          /\ sessionId' # NoSession /\ (late' = "none" => messages'[i].of # ask'.pending)
          /\ Beside(i, {"user"})'
          /\ \A j \in Shown({"assistant"})' : messages'[j].of = messages'[i].of => j = i
    BY <1>2, <1>3 DEF AnswersInv
  <1> QED
    BY <1>2, <1>4, <1>5, <1>6, <1>7, <1>8 DEF MessagesInv, AnswersInv

\* A message that is added is beside the last one and changes nothing before it.
LEMMA MessageAdded ==
    ASSUME messages \in Seq(Message), NEW m \in Message, messages' = Append(messages, m)
    PROVE  /\ messages' \in Seq(Message) /\ Len(messages) \in Nat
           /\ Len(messages') = Len(messages) + 1 /\ messages'[Len(messages')] = m
           /\ DOMAIN messages = 1..Len(messages)
           /\ \A i \in DOMAIN messages : messages'[i] = messages[i]
           /\ \A R, i : i \in Shown(R)' <=>
                           i \in Shown(R) \/ (i = Len(messages) + 1 /\ m.role \in R)
           /\ \A R, i : i \in DOMAIN messages /\ Beside(i, R) => Beside(i, R)'
           /\ Len(messages) # 0 /\ messages[Len(messages)].of = m.of =>
                /\ \A R, i : i = Len(messages) /\ m.role \in R => Beside(i, R)'
                /\ \A R, i : i = Len(messages) + 1 /\ messages[Len(messages)].role \in R =>
                                Beside(i, R)'
  <1>1. /\ messages' \in Seq(Message) /\ Len(messages) \in Nat
        /\ Len(messages') = Len(messages) + 1 /\ messages'[Len(messages) + 1] = m
        /\ DOMAIN messages = 1..Len(messages)
        /\ DOMAIN messages' = DOMAIN messages \cup {Len(messages) + 1}
        /\ \A i \in DOMAIN messages : messages'[i] = messages[i]
    BY Added
  <1>2. \A R, i : i \in Shown(R)' <=>
                     i \in Shown(R) \/ (i = Len(messages) + 1 /\ m.role \in R)
    BY <1>1 DEF Shown
  <1>3. \A R, i : i \in DOMAIN messages /\ Beside(i, R) => Beside(i, R)'
    <2> TAKE R, i
    <2> HAVE i \in DOMAIN messages /\ Beside(i, R)
    <2>1. PICK j \in {i - 1, i + 1} \cap Shown(R) : messages[j].of = messages[i].of
      BY DEF Beside
    <2>2. j \in Shown(R)' /\ messages'[j].of = messages'[i].of
      BY <1>1, <1>2, <2>1 DEF Shown
    <2> QED
      BY <2>1, <2>2 DEF Beside
  <1>4. ASSUME Len(messages) # 0, messages[Len(messages)].of = m.of
        PROVE  /\ \A R, i : i = Len(messages) /\ m.role \in R => Beside(i, R)'
               /\ \A R, i : i = Len(messages) + 1 /\ messages[Len(messages)].role \in R =>
                                Beside(i, R)'
    <2>1. /\ Len(messages) \in DOMAIN messages
          /\ messages'[Len(messages)] = messages[Len(messages)]
      <3>1. Len(messages) \in DOMAIN messages
        BY <1>1, <1>4
      <3> QED
        BY <1>1, <3>1
    <2>2. ASSUME NEW R, NEW i, i = Len(messages), m.role \in R
          PROVE  Beside(i, R)'
      <3>1. i + 1 \in Shown(R)' /\ messages'[i + 1].of = messages'[i].of
        BY <1>1, <1>2, <1>4, <2>1, <2>2
      <3> QED
        BY <3>1 DEF Beside
    <2>3. ASSUME NEW R, NEW i, i = Len(messages) + 1, messages[Len(messages)].role \in R
          PROVE  Beside(i, R)'
      <3>1. i - 1 = Len(messages)
        BY <1>1, <2>3
      <3>2. Len(messages) \in Shown(R)
        BY <2>1, <2>3 DEF Shown
      <3>3. i - 1 \in Shown(R)'
        BY <1>2, <3>1, <3>2
      <3>4. messages'[i - 1].of = messages'[i].of
        BY <1>1, <1>4, <2>1, <2>3, <3>1
      <3> QED
        BY <3>3, <3>4 DEF Beside
    <2> QED
      BY <2>2, <2>3
  <1> QED
    BY <1>1, <1>2, <1>3, <1>4

-----------------------------------------------------------------------------
(* Every step keeps TranscriptInv                                            *)

LEMMA InitTranscript ==
    ASSUME Init
    PROVE  TranscriptInv
  BY DEF Init, TranscriptInv, ShownInv, ServedInv, KnownInv, FetchesInv, PendingInv,
         MessagesInv, AnswersInv, Shown, Live, Idle, NoSession

\* A fetch of a session, as it begins.
LEMMA FetchBegun ==
    ASSUME UNCHANGED sessions, NEW s \in 1..Len(sessions)
    PROVE  FetchOK(Fetch(s))' /\ ~Fetch(s).cancelled /\ Fetch(s).session = s
  <1>1. <<>> \in Seq(Nat) /\ IsInjective(<<>>)
    BY DEF IsInjective
  <1> QED
    BY <1>1 DEF FetchOK, Fetch

LEMMA OpenTranscript ==
    ASSUME ChatInv, TranscriptInv, NEW u \in Url, Open(u)
    PROVE  TranscriptInv'
  <1>1. /\ url' = u /\ sessionId' = 0 /\ messages' = <<>> /\ ask' = Idle
        /\ fetches' = FetchFor(u.session) /\ late' = "none"
        /\ UNCHANGED <<requests, sessions, asked>>
    BY DEF Open, serverVars, NoSession
  <1>2. u.session \in 0..Len(sessions) /\ Len(sessions) \in Nat
    BY DEF Url, ChatInv, ServerInv
  <1>3. ServedInv'
    BY <1>1 DEF TranscriptInv, ServedInv, AnsweredIn
  <1>4. ASSUME u.session # 0
        PROVE  /\ FetchOK(Fetch(u.session))'
               /\ ~Fetch(u.session).cancelled /\ Fetch(u.session).session = u.session
    BY <1>1, <1>2, <1>4, FetchBegun
  <1>5. KnownInv'
    BY <1>1, <1>2, <1>4 DEF TranscriptInv, KnownInv, FetchFor, Idle, NoSession
  <1>6. FetchesInv'
    BY <1>1, <1>4 DEF FetchesInv, FetchFor, Live, NoSession
  <1>7. PendingInv'
    <2>1. \A q \in requests : q.of # 0
      BY DEF ChatInv, ServerInv
    <2> QED
      BY <1>1, <2>1 DEF PendingInv, Idle
  <1>8. MessagesInv' /\ AnswersInv'
    BY <1>1 DEF MessagesInv, AnswersInv, Shown
  <1> QED
    BY <1>3, <1>5, <1>6, <1>7, <1>8 DEF TranscriptInv, ShownInv

LEMMA ChangeUrlTranscript ==
    ASSUME ChatInv, TranscriptInv, NEW u \in Url, ChangeUrl(u)
    PROVE  TranscriptInv'
  <1>1. url' = u /\ UNCHANGED <<sessionId, messages, ask, requests, sessions, asked, late>>
    BY DEF ChangeUrl, serverVars
  <1>2. u.session \in 0..Len(sessions) /\ Len(sessions) \in Nat
    BY DEF Url, ChatInv, ServerInv
  <1>3. ServedInv'
    BY <1>1 DEF TranscriptInv, ServedInv, AnsweredIn
  <1>4. \A f \in fetches : FetchOK(f) /\ FetchOK(f)'
    BY <1>1, SameSessionsGrow, FetchKept DEF TranscriptInv, KnownInv, ChatInv, ServerInv
  <1>5. CASE u.session = url.session
    <2>1. UNCHANGED <<fetches, loadErr>>
      BY <1>5 DEF ChangeUrl
    <2>2. KnownInv'
      BY <1>1, <1>4, <2>1 DEF TranscriptInv, KnownInv
    <2> QED
      BY <1>1, <1>3, <1>5, <2>1, <2>2
      DEF TranscriptInv, ShownInv, FetchesInv, PendingInv, MessagesInv, AnswersInv, Live,
          Shown, Beside, AnsweredIn
  <1>6. CASE u.session # url.session
    <2>1. fetches' = Cleanup(fetches) \cup FetchFor(u.session)
      BY <1>6 DEF ChangeUrl
    <2>2. ASSUME NEW g \in Cleanup(fetches)
          PROVE  FetchOK(g)' /\ g.cancelled
      <3>1. PICK f \in fetches : g = [f EXCEPT !.cancelled = TRUE]
        BY DEF Cleanup
      <3>2. g = [session |-> f.session, cancelled |-> TRUE, read |-> f.read, got |-> f.got]
        <4>1. PICK s, c, read, got :
                 f = [session |-> s, cancelled |-> c, read |-> read, got |-> got]
          BY <1>4 DEF FetchOK
        <4> QED
          BY <3>1, <4>1
      <3> QED
        BY <1>4, <3>2 DEF FetchOK, AnsweredIn
    <2>3. ASSUME u.session # 0
          PROVE  /\ FetchOK(Fetch(u.session))'
                 /\ ~Fetch(u.session).cancelled /\ Fetch(u.session).session = u.session
      BY <1>1, <1>2, <2>3, FetchBegun
    <2>4. KnownInv'
      BY <1>1, <2>1, <2>2, <2>3 DEF TranscriptInv, KnownInv, FetchFor, NoSession
    <2>5. FetchesInv'
      BY <1>1, <2>1, <2>2, <2>3
      DEF TranscriptInv, ShownInv, FetchesInv, FetchFor, Live, NoSession
    <2> QED
      BY <1>1, <1>3, <2>4, <2>5
      DEF TranscriptInv, ShownInv, PendingInv, MessagesInv, AnswersInv, Shown, Beside,
          AnsweredIn
  <1> QED
    BY <1>5, <1>6

\* The fetch once it has its answer.
LEMMA FetchRead ==
    ASSUME NEW f, FetchOK(f), NEW got, NEW read
    PROVE  [f EXCEPT !.got = got, !.read = read] =
              [session |-> f.session, cancelled |-> f.cancelled, read |-> read, got |-> got]
  <1>1. PICK s, c, r, g : f = [session |-> s, cancelled |-> c, read |-> r, got |-> g]
    BY DEF FetchOK
  <1>2. PICK h : h = [f EXCEPT !.got = got]
    OBVIOUS
  <1>3. h = [session |-> s, cancelled |-> c, read |-> r, got |-> got]
    BY <1>1, <1>2
  <1>4. [h EXCEPT !.read = read] = [session |-> s, cancelled |-> c, read |-> read, got |-> got]
    BY <1>3
  <1>5. [f EXCEPT !.got = got, !.read = read] = [h EXCEPT !.read = read]
    BY <1>1, <1>2
  <1>6. f.session = s /\ f.cancelled = c
    BY <1>1
  <1> QED
    BY <1>4, <1>5, <1>6

LEMMA ReadTranscript ==
    ASSUME ChatInv, TranscriptInv, NEW f \in fetches, Read(f)
    PROVE  TranscriptInv'
  <1>1. UNCHANGED <<url, sessionId, messages, ask, loadErr, requests, sessions, asked, late>>
    BY DEF Read, serverVars, countVars
  <1>2. ServedInv'
    BY <1>1 DEF TranscriptInv, ServedInv, AnsweredIn
  <1>3. \A g \in fetches : FetchOK(g)
    BY DEF TranscriptInv, KnownInv
  <1>4. PICK got \in {"transcript", "error"} :
           fetches' = (fetches \ {f}) \cup
              {[f EXCEPT !.got = got, !.read = IF got = "error" THEN <<>>
                                               ELSE sessions[f.session].turns]}
    BY DEF Read
  <1>5. PICK read : read = IF got = "error" THEN <<>> ELSE sessions[f.session].turns
    OBVIOUS
  <1>6. /\ read \in Seq(Nat) /\ IsInjective(read)
        /\ \A k \in DOMAIN read : AnsweredIn(f.session, read[k])
    <2>1. <<>> \in Seq(Nat) /\ IsInjective(<<>>) /\ DOMAIN <<>> = {}
      BY DEF IsInjective
    <2>2. f.session \in 1..Len(sessions)
      BY <1>3 DEF FetchOK
    <2>3. sessions[f.session].turns \in Seq(Nat) /\ IsInjective(sessions[f.session].turns)
      <3>1. sessions \in Seq(Row)
        BY DEF ChatInv, ServerInv
      <3>2. f.session \in DOMAIN sessions /\ sessions[f.session] \in Row
        BY <2>2, <3>1
      <3> QED
        BY <3>2 DEF Row, TranscriptInv, ServedInv
    <2> QED
      BY <1>5, <2>1, <2>3 DEF AnsweredIn
  <1>7. PICK g : g = [session |-> f.session, cancelled |-> f.cancelled, read |-> read,
                      got |-> got]
    OBVIOUS
  <1>8. /\ g.session = f.session /\ g.cancelled = f.cancelled /\ g.read = read /\ g.got = got
    BY <1>7
  <1>9. fetches' = (fetches \ {f}) \cup {g}
    <2>1. [f EXCEPT !.got = got, !.read = read] = g
      BY <1>3, <1>7, FetchRead
    <2> QED
      BY <1>4, <1>5, <2>1
  <1>10. FetchOK(g)
    BY <1>3, <1>6, <1>7, <1>8 DEF FetchOK
  <1>11. \A h \in fetches' : FetchOK(h)'
    BY <1>1, <1>3, <1>9, <1>10 DEF FetchOK, AnsweredIn
  <1>12. KnownInv'
    BY <1>1, <1>11 DEF TranscriptInv, KnownInv
  <1>13. FetchesInv'
    <2>1. \A h \in Live' : h \in Live \/ (h = g /\ f \in Live)
      BY <1>8, <1>9 DEF Live
    <2>2. Live' = {} => Live = {}
      BY <1>8, <1>9 DEF Live
    <2> QED
      BY <1>1, <1>8, <2>1, <2>2 DEF TranscriptInv, ShownInv, FetchesInv
  <1> QED
    BY <1>1, <1>2, <1>12, <1>13
    DEF TranscriptInv, ShownInv, PendingInv, MessagesInv, AnswersInv, Shown, Beside, AnsweredIn

\* The messages of a transcript that is fetched are those of its turns, in pairs.
LEMMA TranscriptPairs ==
    ASSUME NEW turns \in Seq(Nat), IsInjective(turns), NEW ms \in Transcripts(turns)
    PROVE  /\ ms \in Seq(Message)
           /\ \A i \in DOMAIN ms : \E k \in DOMAIN turns : ms[i].of = turns[k]
           /\ \A i \in DOMAIN ms :
                /\ ms[i].role \in {"user", "assistant"}
                /\ \E j \in {i - 1, i + 1} \cap DOMAIN ms :
                      ms[j].of = ms[i].of /\ ms[j].role \in {"user", "assistant"} \ {ms[i].role}
           /\ \A i, j \in DOMAIN ms : ms[i] = ms[j] => i = j
  <1> DEFINE L == Len(turns)
             Of(i) == turns[(i + 1) \div 2]
  <1>1. PICK swapped : ms = [i \in 1..2 * L |->
             IF (i % 2 = 1) = (Of(i) \notin swapped) THEN Question(Of(i)) ELSE Answer(Of(i))]
    BY DEF Transcripts
  <1>2. L \in Nat /\ DOMAIN turns = 1..L /\ DOMAIN ms = 1..2 * L
    BY <1>1
  <1>3. \A i \in 1..2 * L : (i + 1) \div 2 \in 1..L
    BY <1>2
  <1>4. \A i \in 1..2 * L : Of(i) \in Nat
    BY <1>2, <1>3
  <1>5. \A i \in 1..2 * L : (i % 2 = 1) => /\ i + 1 \in 1..2 * L /\ (i + 1) % 2 # 1
                                           /\ ((i + 1) + 1) \div 2 = (i + 1) \div 2
    BY <1>2
  <1>6. \A i \in 1..2 * L : (i % 2 # 1) => /\ i - 1 \in 1..2 * L /\ (i - 1) % 2 = 1
                                           /\ ((i - 1) + 1) \div 2 = (i + 1) \div 2
    BY <1>2
  <1>7. \A i, j \in 1..2 * L : (i + 1) \div 2 = (j + 1) \div 2 /\ i # j =>
                                  (i % 2 = 1) # (j % 2 = 1)
    BY <1>2
  <1>8. \A i \in 1..2 * L :
          /\ ms[i].of = Of(i) /\ ms[i].role \in {"user", "assistant"}
          /\ ms[i] \in Message
          /\ ms[i].role = "user" <=> ((i % 2 = 1) = (Of(i) \notin swapped))
    BY <1>1, <1>4 DEF Question, Answer, Message
  <1> HIDE DEF Of
  <1>9. ms \in Seq(Message)
    BY <1>1, <1>2, <1>8
  <1>10. ASSUME NEW i \in DOMAIN ms
         PROVE  \E k \in DOMAIN turns : ms[i].of = turns[k]
    <2>1. (i + 1) \div 2 \in DOMAIN turns /\ ms[i].of = turns[(i + 1) \div 2]
      BY <1>2, <1>3, <1>8 DEF Of
    <2> QED
      BY <2>1
  <1>11. ASSUME NEW i \in DOMAIN ms
         PROVE  \E j \in {i - 1, i + 1} \cap DOMAIN ms :
                   ms[j].of = ms[i].of /\ ms[j].role \in {"user", "assistant"} \ {ms[i].role}
    <2>1. PICK j \in {i - 1, i + 1} \cap 1..2 * L : Of(j) = Of(i) /\ (j % 2 = 1) # (i % 2 = 1)
      BY <1>2, <1>5, <1>6 DEF Of
    <2>2. ms[j].of = ms[i].of /\ (ms[j].role = "user") # (ms[i].role = "user")
      BY <1>2, <1>8, <2>1
    <2> QED
      BY <1>2, <1>8, <2>1, <2>2
  <1>12. ASSUME NEW i \in DOMAIN ms, NEW j \in DOMAIN ms, ms[i] = ms[j]
         PROVE  i = j
    <2>1. Of(i) = Of(j) /\ (i % 2 = 1) = (j % 2 = 1)
      BY <1>2, <1>8, <1>12
    <2>2. (i + 1) \div 2 = (j + 1) \div 2
      BY <1>2, <1>3, <2>1 DEF IsInjective, Of
    <2> QED
      BY <1>2, <1>7, <2>1, <2>2
  <1> QED
    BY <1>2, <1>8, <1>9, <1>10, <1>11, <1>12

LEMMA LoadedTranscript ==
    ASSUME ChatInv, TranscriptInv, NEW f \in fetches, Loaded(f)
    PROVE  TranscriptInv'
  <1>1. /\ fetches' = fetches \ {f}
        /\ UNCHANGED <<url, ask, requests, sessions, asked>>
    BY DEF Loaded, serverVars
  <1>2. ServedInv'
    BY <1>1 DEF TranscriptInv, ServedInv, AnsweredIn
  <1>3. FetchOK(f) /\ f.session \in 1..Len(sessions) /\ Len(sessions) \in Nat
    BY DEF TranscriptInv, KnownInv, FetchOK, ChatInv, ServerInv
  <1>4. KnownInv'
    <2>1. \A g \in fetches' : FetchOK(g)'
      BY <1>1 DEF TranscriptInv, KnownInv, FetchOK, AnsweredIn
    <2>2. sessionId' \in {sessionId, f.session}
      BY DEF Loaded
    <2> QED
      BY <1>1, <1>3, <2>1, <2>2 DEF TranscriptInv, KnownInv
  <1> SUFFICES ShownInv'
    BY <1>2, <1>4 DEF TranscriptInv
  <1>5. FetchesInv /\ PendingInv /\ MessagesInv /\ AnswersInv
    BY DEF TranscriptInv, ShownInv
  <1>6. CASE f.cancelled /\ UNCHANGED <<sessionId, messages, loadErr, late>>
    <2>1. Live' = Live
      BY <1>1, <1>6 DEF Live
    <2> QED
      BY <1>1, <1>5, <1>6, <2>1
      DEF ShownInv, FetchesInv, PendingInv, MessagesInv, AnswersInv, Shown, Beside, AnsweredIn
  <1>7. CASE /\ ~f.cancelled /\ f.got = "error" /\ loadErr' = TRUE
             /\ UNCHANGED <<sessionId, messages, late>>
    <2>1. Live' \subseteq Live
      BY <1>1 DEF Live
    <2>2. FetchesInv'
      BY <1>1, <1>5, <1>7, <2>1 DEF FetchesInv
    <2> QED
      BY <1>1, <1>5, <1>7, <2>2
      DEF ShownInv, PendingInv, MessagesInv, AnswersInv, Shown, Beside, AnsweredIn
  <1>8. CASE /\ ~f.cancelled /\ sessionId' = f.session /\ messages' \in Transcripts(f.read)
             /\ late' = IF ask = Idle THEN "none" ELSE "awaited"
    <2>1. /\ f \in Live /\ f.session = url.session
          /\ (late' = "none" /\ ask = Idle) \/ (late' = "awaited" /\ ask # Idle)
      BY <1>5, <1>8 DEF Live, FetchesInv
    <2>2. Live' \subseteq Live
      BY <1>1 DEF Live
    <2>3. FetchesInv'
      BY <1>1, <1>5, <1>8, <2>1, <2>2 DEF FetchesInv
    <2>4. PendingInv'
      <3>1. \A q \in requests : q.of # 0
        BY DEF ChatInv, ServerInv
      <3> QED
        BY <1>1, <1>5, <2>1, <3>1 DEF PendingInv, Idle, AnsweredIn
    <2>5. MessagesInv' /\ AnswersInv'
      <3> DEFINE ms == messages'
      <3>1. /\ ms \in Seq(Message)
            /\ \A i \in DOMAIN ms : \E k \in DOMAIN f.read : ms[i].of = f.read[k]
            /\ \A i \in DOMAIN ms :
                 /\ ms[i].role \in {"user", "assistant"}
                 /\ \E j \in {i - 1, i + 1} \cap DOMAIN ms :
                       ms[j].of = ms[i].of
                       /\ ms[j].role \in {"user", "assistant"} \ {ms[i].role}
            /\ \A i, j \in DOMAIN ms : ms[i] = ms[j] => i = j
        BY <1>3, <1>8, TranscriptPairs DEF FetchOK
      <3>2. \A i \in DOMAIN ms : ms[i] \in Message
        BY <3>1
      <3>3. ASSUME NEW i \in DOMAIN ms
            PROVE  AnsweredIn(f.session, ms[i].of) /\ ms[i].of \in 1..asked
        <4>1. PICK k \in DOMAIN f.read : ms[i].of = f.read[k]
          BY <3>1
        <4>2. f.read[k] \in Nat /\ AnsweredIn(f.session, f.read[k])
          BY <1>3 DEF FetchOK
        <4>3. f.session \in DOMAIN sessions
          BY <1>3 DEF ChatInv, ServerInv
        <4> QED
          BY <4>1, <4>2, <4>3 DEF TranscriptInv, ServedInv
      <3>4. ASSUME NEW i \in DOMAIN ms
            PROVE  /\ ms[i].role = "user" => Beside(i, {"assistant"} \cup Errors)'
                   /\ ms[i].role = "assistant" => Beside(i, {"user"})'
        BY <3>1 DEF Beside, Shown
      <3>5. \A i, j \in DOMAIN ms : ms[i].of = ms[j].of /\ ms[i].role = ms[j].role => i = j
        <4>1. \A a, b \in Message : a.of = b.of /\ a.role = b.role => a = b
          BY DEF Message
        <4> QED
          BY <3>1, <3>2, <4>1
      <3>6. f.session # NoSession /\ (late' = "none" => ask.pending = 0)
        BY <1>3, <2>1 DEF NoSession, Idle
      <3>7. \A i \in DOMAIN ms : AnsweredIn(sessionId, messages[i].of)'
        BY <1>1, <1>8, <3>3 DEF AnsweredIn
      <3>8. \A i \in Shown({"assistant"})' :
              /\ sessionId' # NoSession /\ AnsweredIn(sessionId, messages[i].of)'
              /\ late' = "none" => messages'[i].of # ask'.pending
              /\ Beside(i, {"user"})'
              /\ \A j \in Shown({"assistant"})' : messages'[j].of = messages'[i].of => j = i
        BY <1>1, <1>8, <3>3, <3>4, <3>5, <3>6, <3>7 DEF Shown, ChatInv, ServerInv
      <3>9. \A i \in Shown({"user"})' : Beside(i, {"assistant"} \cup Errors)'
        BY <3>4 DEF Shown
      <3> QED
        BY <1>1, <3>1, <3>3, <3>8, <3>9 DEF MessagesInv, AnswersInv
    <2> QED
      BY <2>3, <2>4, <2>5 DEF ShownInv
  <1> QED
    BY <1>6, <1>7, <1>8 DEF Loaded

LEMMA SubmitTranscript ==
    ASSUME ChatInv, TranscriptInv, Submit
    PROVE  TranscriptInv'
  <1> DEFINE n == asked + 1
             q == [of |-> n, doc |-> url.doc, session |-> sessionId]
  <1>1. /\ ask = Idle /\ asked' = n
        /\ messages' = Append(messages, Question(n))
        /\ ask' = [pending |-> n, result |-> "none", session |-> 0]
        /\ requests' = requests \cup {q}
        /\ UNCHANGED <<url, sessionId, loadErr, fetches, sessions, late>>
    BY DEF Submit, MaySubmit, Idle, NoSession
  <1>2. /\ asked \in Nat /\ n \in Nat /\ n > asked /\ n # 0 /\ asked <= n
        /\ \A r \in requests : r.of \in 1..asked
        /\ sessions \in Seq(Row)
    BY DEF ChatInv, ServerInv
  <1>3. q.of = n /\ q.session = sessionId
    OBVIOUS
  <1> HIDE DEF n, q
  <1>4. ServedInv'
    <2>1. \A s \in DOMAIN sessions' : \A m \in Nat : AnsweredIn(s, m)' => m \in 1..asked
      BY <1>1 DEF TranscriptInv, ServedInv, AnsweredIn
    <2>2. \A s \in DOMAIN sessions' : \A m \in Nat : AnsweredIn(s, m)' =>
            m \in 1..asked' /\ \A r \in requests' : r.of # m
      BY <1>1, <1>2, <1>3, <2>1 DEF TranscriptInv, ServedInv, AnsweredIn
    <2>3. \A r, t \in requests' : r.of = t.of => r = t
      BY <1>1, <1>2, <1>3 DEF TranscriptInv, ServedInv
    <2> QED
      BY <1>1, <2>2, <2>3 DEF TranscriptInv, ServedInv
  <1>5. KnownInv'
    BY <1>1, <1>2, <1>3, SameSessionsGrow, FetchKept DEF TranscriptInv, KnownInv
  <1>6. /\ FetchesInv /\ PendingInv /\ MessagesInv /\ AnswersInv /\ Live' = Live
        /\ late # "awaited"
    BY <1>1 DEF TranscriptInv, ShownInv, FetchesInv, Live
  <1>7. FetchesInv'
    BY <1>1, <1>6 DEF FetchesInv
  <1>8. messages \in Seq(Message) /\ Question(n) \in Message
        /\ Question(n).of = n /\ Question(n).role = "user"
    BY <1>2, <1>6 DEF MessagesInv, Question, Message
  <1>9. PendingInv'
    <2>1. Len(messages') # 0 /\ messages'[Len(messages')] = Question(n)
      BY <1>1, <1>8, MessageAdded
    <2>2. \A r \in requests' : r.of = n => r.session = sessionId
      BY <1>1, <1>2, <1>3
    <2> QED
      BY <1>1, <1>2, <2>1, <2>2 DEF PendingInv
  <1>10. MessagesInv' /\ AnswersInv'
    <2>1. ask.pending = 0
      BY <1>1 DEF Idle
    <2>2. /\ messages' \in Seq(Message) /\ Len(messages) \in Nat
          /\ Len(messages') = Len(messages) + 1 /\ messages'[Len(messages')] = Question(n)
          /\ DOMAIN messages = 1..Len(messages)
          /\ \A i \in DOMAIN messages : messages'[i] = messages[i]
          /\ \A R, i : i \in Shown(R)' <=>
                          i \in Shown(R) \/ (i = Len(messages) + 1 /\ "user" \in R)
          /\ \A R, i : i \in DOMAIN messages /\ Beside(i, R) => Beside(i, R)'
      BY <1>1, <1>8, MessageAdded
    <2>3. ask' # Idle
      BY <1>1, <1>2 DEF Idle
    <2>4. \A R : Shown(R) \subseteq DOMAIN messages
      BY DEF Shown
    <2>5. \A i \in Shown({"user"})' :
            \/ late' # "awaited" /\ ask' # Idle /\ i = Len(messages')
            \/ Beside(i, {"assistant"} \cup Errors)'
      BY <1>1, <1>6, <2>2, <2>3, <2>4 DEF MessagesInv
    <2>6. Shown({"assistant"})' = Shown({"assistant"})
      <3>1. \A i : i \in Shown({"assistant"})' <=> i \in Shown({"assistant"})
        BY <2>2
      <3> QED
        BY <3>1
    <2>7. \A i \in DOMAIN messages : messages[i].of \in 1..asked
      BY <1>6 DEF MessagesInv
    <2>8. \A i \in DOMAIN messages' : messages'[i].of \in 1..asked'
      BY <1>1, <1>2, <1>8, <2>2, <2>7
    <2>9. late # "come" => \A i \in Shown({"assistant"}) :
            /\ sessionId' # NoSession /\ AnsweredIn(sessionId, messages[i].of)'
            /\ messages'[i].of # ask'.pending
            /\ Beside(i, {"user"})'
            /\ \A j \in Shown({"assistant"}) : messages'[j].of = messages'[i].of => j = i
      BY <1>1, <1>2, <1>6, <2>2, <2>4, <2>7 DEF AnswersInv, AnsweredIn
    <2> QED
      BY <1>1, <2>2, <2>5, <2>6, <2>8, <2>9 DEF MessagesInv, AnswersInv
  <1> QED
    BY <1>4, <1>5, <1>7, <1>9, <1>10 DEF TranscriptInv, ShownInv

\* As the server answers questions, the page keeps what it has, and may learn of
\* an answer in the session it asks in.
LEMMA PageKept ==
    ASSUME ChatInv, TranscriptInv, SessionsGrow, asked' \in Nat, asked <= asked',
           UNCHANGED <<url, sessionId, messages, loadErr, fetches, late>>,
           requests' \subseteq requests,
           ask'.pending = ask.pending, ask' # Idle <=> ask # Idle,
           ask'.result = "answer" =>
              \/ UNCHANGED ask
              \/ /\ ask'.session \in 1..Len(sessions')
                 /\ AnsweredIn(ask.session, ask.pending)'
                 /\ late # "awaited" /\ sessionId # NoSession =>
                      ask'.session = sessionId
    PROVE  KnownInv' /\ ShownInv'
  <1>1. /\ asked \in Nat /\ ask.pending \in Nat
        /\ Len(sessions) \in Nat /\ Len(sessions') \in Nat /\ Len(sessions) <= Len(sessions')
    BY DEF ChatInv, ServerInv, PageInv, SessionsGrow, SessionsKept
  <1>2. KnownInv'
    <2>1. \A f \in fetches' : FetchOK(f)'
      BY FetchKept DEF TranscriptInv, KnownInv
    <2> QED
      BY <1>1, <2>1 DEF TranscriptInv, KnownInv
  <1>3. KnownInv /\ FetchesInv /\ PendingInv /\ MessagesInv /\ AnswersInv
    BY DEF TranscriptInv, ShownInv
  <1>4. FetchesInv'
    BY <1>3 DEF FetchesInv, Live
  <1>5. MessagesInv' /\ AnswersInv'
    BY <1>1, <1>3, MessagesKept DEF KnownInv
  <1>6. ASSUME ask.result = "answer", UNCHANGED ask
        PROVE  AnsweredIn(ask.session, ask.pending)'
    <2>1. PICK s \in 1..Len(sessions), n \in Nat : s = ask.session /\ n = ask.pending
      BY <1>1, <1>3, <1>6 DEF KnownInv
    <2>2. AnsweredIn(s, n)'
      BY <1>3, <1>6, <2>1 DEF PendingInv, SessionsGrow
    <2> QED
      BY <1>6, <2>1, <2>2 DEF AnsweredIn
  <1>7. PendingInv'
    BY <1>1, <1>3, <1>6 DEF PendingInv
  <1> QED
    BY <1>2, <1>4, <1>5, <1>7 DEF ShownInv

\* A request is served once, and its answer is put in the session it names.
LEMMA ServeTranscript ==
    ASSUME ChatInv, TranscriptInv, NEW q \in requests, Serve(q)
    PROVE  TranscriptInv'
  <1>1. /\ requests' = requests \ {q}
        /\ UNCHANGED <<url, sessionId, messages, loadErr, fetches, asked, late>>
    BY DEF Serve, countVars
  <1>2. /\ q.of \in 1..asked /\ q.of \in Nat /\ q.of # 0 /\ asked \in Nat
        /\ q.doc \in Documents \cup {NoDoc}
        /\ sessions \in Seq(Row) /\ DOMAIN sessions = 1..Len(sessions) /\ Len(sessions) \in Nat
        /\ \A s \in DOMAIN sessions : IsInjective(sessions[s].turns) /\ ~AnsweredIn(s, q.of)
        /\ q.session \in 0..Len(sessions)
    BY DEF ChatInv, ServerInv, TranscriptInv, ServedInv, KnownInv
  <1>3. ASSUME NEW t, OneAnswered(t, q.of), Reply(q.of, "answer", t),
               q.session # NoSession => t = q.session
        PROVE  TranscriptInv'
    <2>1. /\ SessionsGrow /\ t \in 1..Len(sessions') /\ AnsweredIn(t, q.of)'
          /\ Len(sessions') \in Nat /\ sessions' \in Seq(Row)
      BY <1>3 DEF OneAnswered, SessionsGrow, SessionsKept
    <2>2. ServedInv'
      <3>1. DOMAIN sessions' = 1..Len(sessions')
        BY <2>1
      <3>2. ASSUME NEW s \in DOMAIN sessions', NEW n \in Nat, AnsweredIn(s, n)'
            PROVE  n \in 1..asked /\ \A r \in requests' : r.of # n
        <4>1. n = q.of \/ (s \in DOMAIN sessions /\ AnsweredIn(s, n))
          BY <1>2, <1>3, <3>1, <3>2 DEF OneAnswered
        <4> QED
          BY <1>1, <1>2, <4>1 DEF TranscriptInv, ServedInv
      <3> QED
        BY <1>1, <1>3, <3>1, <3>2 DEF OneAnswered, TranscriptInv, ServedInv
    <2>3. \/ UNCHANGED ask
          \/ /\ q.of = ask.pending
             /\ ask' = [pending |-> q.of, result |-> "answer", session |-> t]
          \/ q.of = ask.pending /\ ask' = [pending |-> q.of, result |-> "error", session |-> 0]
      BY <1>3 DEF Reply, NoSession
    <2>4. ask'.pending = ask.pending /\ (ask' # Idle <=> ask # Idle)
      BY <1>2, <2>3 DEF Idle
    <2>5. ASSUME q.of = ask.pending, ask' = [pending |-> q.of, result |-> "answer", session |-> t]
          PROVE  /\ ask'.session = t /\ AnsweredIn(ask.session, ask.pending)'
                 /\ late # "awaited" /\ sessionId # NoSession =>
                      ask'.session = sessionId
      <3>1. ask'.session = t /\ ask'.pending = q.of
        BY <2>5
      <3>2. AnsweredIn(ask.session, ask.pending)'
        BY <2>1, <3>1 DEF AnsweredIn
      <3>3. late # "awaited" => q.session = sessionId
        BY <2>5 DEF TranscriptInv, ShownInv, PendingInv
      <3> QED
        BY <1>3, <3>1, <3>2, <3>3
    <2>6. ask'.result = "answer" =>
              \/ UNCHANGED ask
              \/ /\ ask'.session \in 1..Len(sessions')
                 /\ AnsweredIn(ask.session, ask.pending)'
                 /\ late # "awaited" /\ sessionId # NoSession =>
                      ask'.session = sessionId
      BY <2>1, <2>3, <2>5
    <2>7. KnownInv' /\ ShownInv'
      BY <1>1, <1>2, <2>1, <2>4, <2>6, PageKept
    <2> QED
      BY <1>1, <2>2, <2>7 DEF TranscriptInv
  <1>4. CASE /\ q.session = NoSession
             /\ sessions' = Append(sessions, NewSession(q))
             /\ Reply(q.of, "answer", Len(sessions'))
    <2>1. PICK t \in 1..Len(sessions') : t = Len(sessions') /\ OneAnswered(t, q.of)
      BY <1>2, <1>4, AnsweredAnew DEF NewSession
    <2> QED
      BY <1>3, <1>4, <2>1
  <1>5. CASE /\ q.session # NoSession
             /\ sessions' = [sessions EXCEPT ![q.session].turns =
                                                 Append(sessions[q.session].turns, q.of)]
             /\ Reply(q.of, "answer", q.session)
    <2>1. q.session \in 1..Len(sessions) /\ ~AnsweredIn(q.session, q.of)
      BY <1>2, <1>5 DEF NoSession
    <2>2. OneAnswered(q.session, q.of)
      BY <1>2, <1>5, <2>1, AnsweredOn
    <2> QED
      BY <1>3, <1>5, <2>2
  <1>6. CASE Reply(q.of, "scope_mismatch", NoSession) /\ UNCHANGED sessions
    <2>1. SessionsGrow
      BY <1>2, <1>6, SameSessionsGrow
    <2>2. \/ UNCHANGED ask
          \/ /\ q.of = ask.pending
             /\ ask' = [pending |-> q.of, result |-> "scope_mismatch", session |-> 0]
          \/ q.of = ask.pending /\ ask' = [pending |-> q.of, result |-> "error", session |-> 0]
      BY <1>6 DEF Reply, NoSession
    <2>3. /\ ask'.pending = ask.pending /\ (ask' # Idle <=> ask # Idle)
          /\ ask'.result = "answer" => UNCHANGED ask
      BY <1>2, <2>2 DEF Idle
    <2>4. KnownInv' /\ ShownInv'
      BY <1>1, <1>2, <2>1, <2>3, PageKept
    <2>5. ServedInv'
      BY <1>1, <1>6 DEF TranscriptInv, ServedInv, AnsweredIn
    <2> QED
      BY <1>1, <2>4, <2>5 DEF TranscriptInv
  <1> QED
    BY <1>4, <1>5, <1>6 DEF Serve

LEMMA BreakTranscript ==
    ASSUME ChatInv, TranscriptInv, NEW q \in requests, Break(q)
    PROVE  TranscriptInv'
  <1>1. /\ ask.pending = q.of /\ ask' = [ask EXCEPT !.result = "error"]
        /\ requests' \subseteq requests
        /\ UNCHANGED <<url, sessionId, messages, loadErr, fetches, sessions, asked, late>>
    BY DEF Break, countVars
  <1>2. q.of # 0 /\ asked \in Nat /\ sessions \in Seq(Row)
    BY DEF ChatInv, ServerInv
  <1>3. ask'.pending = ask.pending /\ ask'.result = "error"
    <2>1. PICK n, r, s : ask = [pending |-> n, result |-> r, session |-> s]
      BY DEF ChatInv, PageInv
    <2> QED
      BY <1>1, <2>1
  <1>4. ask' # Idle /\ ask # Idle
    BY <1>1, <1>2, <1>3 DEF Idle
  <1>5. KnownInv' /\ ShownInv'
    BY <1>1, <1>2, <1>3, <1>4, SameSessionsGrow, PageKept
  <1>6. ServedInv'
    BY <1>1 DEF TranscriptInv, ServedInv, AnsweredIn
  <1> QED
    BY <1>1, <1>5, <1>6 DEF TranscriptInv

LEMMA AskElsewhereTranscript ==
    ASSUME ChatInv, TranscriptInv, NEW u \in Url, AskElsewhere(u)
    PROVE  TranscriptInv'
  <1> DEFINE n == asked + 1
  <1>1. asked' = n /\ UNCHANGED <<pageVars, requests, late>>
    BY DEF AskElsewhere
  <1>2. /\ asked \in Nat /\ n \in Nat /\ n \notin 1..asked /\ n \in 1..n /\ 1..asked \subseteq 1..n
        /\ asked <= n
        /\ u.doc \in Documents \cup {NoDoc} /\ u.session \in 0..Len(sessions)
        /\ sessions \in Seq(Row) /\ DOMAIN sessions = 1..Len(sessions) /\ Len(sessions) \in Nat
        /\ \A q \in requests : q.of \in 1..asked
    BY DEF ChatInv, ServerInv, Url
  <1> HIDE DEF n
  <1>3. \A s \in DOMAIN sessions : IsInjective(sessions[s].turns) /\ ~AnsweredIn(s, n)
    BY <1>2 DEF TranscriptInv, ServedInv
  <1>4. PICK t : OneAnswered(t, n)
    <2>1. CASE sessions' = Append(sessions, [scope |-> u.doc, turns |-> <<n>>])
      BY <1>2, <1>3, <2>1, AnsweredAnew
    <2>2. CASE /\ u.session # NoSession
               /\ sessions' = [sessions EXCEPT ![u.session].turns =
                                                   Append(sessions[u.session].turns, n)]
      <3>1. u.session \in 1..Len(sessions) /\ ~AnsweredIn(u.session, n)
        BY <1>2, <1>3, <2>2 DEF NoSession
      <3> QED
        BY <1>2, <1>3, <2>2, <3>1, AnsweredOn
    <2> QED
      BY <1>1, <2>1, <2>2 DEF AskElsewhere
  <1>5. SessionsGrow /\ sessions' \in Seq(Row) /\ DOMAIN sessions' = 1..Len(sessions')
    BY <1>4 DEF OneAnswered, SessionsGrow, SessionsKept
  <1>6. ServedInv'
    <2>1. ASSUME NEW s \in DOMAIN sessions', NEW m \in Nat, AnsweredIn(s, m)'
          PROVE  m \in 1..n /\ \A r \in requests : r.of # m
      <3>1. m = n \/ (s \in DOMAIN sessions /\ AnsweredIn(s, m))
        BY <1>2, <1>4, <1>5, <2>1 DEF OneAnswered
      <3> QED
        BY <1>2, <3>1 DEF TranscriptInv, ServedInv
    <2> QED
      BY <1>1, <1>4, <1>5, <2>1 DEF OneAnswered, TranscriptInv, ServedInv
  <1>7. KnownInv' /\ ShownInv'
    BY <1>1, <1>2, <1>5, PageKept DEF pageVars
  <1> QED
    BY <1>1, <1>6, <1>7 DEF TranscriptInv

\* What a question comes to is put beside it, and the page goes on in the session of
\* the answer, which is its own if it had one.
LEMMA DeliverTranscript ==
    ASSUME ChatInv, TranscriptInv, Deliver
    PROVE  TranscriptInv'
  <1> DEFINE L == Len(messages)
             n == ask.pending
  <1>1. /\ ask' = Idle /\ ask.result # "none" /\ ask # Idle
        /\ UNCHANGED <<url, loadErr, fetches, requests, sessions, asked>>
    BY DEF Deliver, serverVars, Idle
  <1>2. /\ asked \in Nat /\ n \in Nat /\ Len(sessions) \in Nat
        /\ \A q \in requests : q.of # 0
    BY DEF ChatInv, ServerInv, PageInv
  <1>3. \/ /\ ask.result = "answer" /\ sessionId' = ask.session
           /\ messages' = Append(messages, Answer(n))
           /\ late' = IF late = "awaited" THEN "come" ELSE late
        \/ /\ ask.result \in Errors /\ UNCHANGED sessionId
           /\ messages' = Append(messages, Failure(n, ask.result))
           /\ late' = IF late = "awaited" THEN "none" ELSE late
    BY DEF Deliver, KeepSession, ChatInv, PageInv, Errors
  <1>4. ServedInv'
    BY <1>1 DEF TranscriptInv, ServedInv, AnsweredIn
  <1>5. KnownInv'
    <2>1. sessionId' \in 0..Len(sessions)
      BY <1>2, <1>3 DEF TranscriptInv, KnownInv
    <2> QED
      BY <1>1, <2>1 DEF TranscriptInv, KnownInv, FetchOK, AnsweredIn, Idle
  <1>6. KnownInv /\ FetchesInv /\ PendingInv /\ MessagesInv /\ AnswersInv
    BY DEF TranscriptInv, ShownInv
  <1>7. late' # "come" /\ sessionId # NoSession => sessionId' = sessionId
    BY <1>3, <1>6 DEF PendingInv, Errors
  <1>8. FetchesInv'
    <2>1. late' \in {"none", "come"} /\ (late' # "come" => late # "come")
      BY <1>3, <1>6 DEF FetchesInv
    <2> QED
      BY <1>1, <1>6, <1>7, <2>1 DEF FetchesInv, Live
  <1>9. PendingInv'
    BY <1>1, <1>2 DEF PendingInv, Idle
  <1>10. /\ n \in 1..asked
         /\ late # "awaited" => L # 0 /\ messages[L].of = n /\ messages[L].role = "user"
    BY <1>1, <1>6 DEF PendingInv, Question
  <1>11. PICK msg \in Message :
           /\ messages' = Append(messages, msg) /\ msg.of = n
           /\ msg.role \in {"assistant"} \cup Errors
           /\ msg.role = "assistant" => ask.result = "answer"
           /\ late' # "come" /\ late = "awaited" => msg.role # "assistant"
    <2>1. /\ Answer(n) \in Message /\ Answer(n).of = n /\ Answer(n).role = "assistant"
      BY <1>2 DEF Answer, Message
    <2>2. ASSUME NEW r \in Errors
          PROVE  /\ Failure(n, r) \in Message /\ Failure(n, r).of = n
                 /\ Failure(n, r).role = r /\ r # "assistant"
      BY <1>2 DEF Failure, Message, Errors
    <2> QED
      BY <1>3, <2>1, <2>2
  <1>12. /\ messages' \in Seq(Message) /\ L \in Nat
         /\ Len(messages') = L + 1 /\ messages'[L + 1] = msg
         /\ DOMAIN messages = 1..L
         /\ \A i \in DOMAIN messages : messages'[i] = messages[i]
         /\ \A R, i : i \in Shown(R)' <=> i \in Shown(R) \/ (i = L + 1 /\ msg.role \in R)
         /\ \A R, i : i \in DOMAIN messages /\ Beside(i, R) => Beside(i, R)'
         /\ late # "awaited" =>
              /\ \A R, i : i = L /\ msg.role \in R => Beside(i, R)'
              /\ \A R, i : i = L + 1 /\ messages[L].role \in R => Beside(i, R)'
    BY <1>6, <1>10, <1>11, MessageAdded DEF MessagesInv
  <1> HIDE DEF L, n
  <1>13. \A R : Shown(R) \subseteq DOMAIN messages
    BY DEF Shown
  <1>14. \A i \in DOMAIN messages : messages[i].of \in 1..asked
    BY <1>6 DEF MessagesInv
  <1>15. \A i \in DOMAIN messages' : messages'[i].of \in 1..asked'
    BY <1>1, <1>10, <1>11, <1>12, <1>14
  <1>16. \A i \in Shown({"user"})' : Beside(i, {"assistant"} \cup Errors)'
    <2> TAKE i \in Shown({"user"})'
    <2>1. i \in Shown({"user"})
      BY <1>11, <1>12 DEF Errors
    <2>2. CASE i = L /\ late # "awaited"
      BY <1>11, <1>12, <2>2
    <2>3. CASE i # L \/ late = "awaited"
      <3>1. Beside(i, {"assistant"} \cup Errors)
        BY <1>6, <2>1, <2>3 DEF MessagesInv, L
      <3> QED
        BY <1>12, <1>13, <2>1, <3>1
    <2> QED
      BY <2>2, <2>3
  <1>17. MessagesInv'
    BY <1>12, <1>15, <1>16 DEF MessagesInv
  <1>18. AnswersInv'
    <2> SUFFICES ASSUME late' # "come"
                 PROVE  AnswersInv'
      BY DEF AnswersInv
    <2>1. late # "come" /\ (msg.role = "assistant" => late = "none")
      BY <1>3, <1>6, <1>11 DEF FetchesInv
    <2>2. ASSUME NEW i \in Shown({"assistant"})
          PROVE  /\ sessionId' # NoSession /\ AnsweredIn(sessionId, messages[i].of)'
                 /\ messages'[i].of # 0
                 /\ msg.role = "assistant" => messages'[i].of # n
                 /\ Beside(i, {"user"})'
                 /\ \A j \in Shown({"assistant"}) : messages'[j].of = messages'[i].of => j = i
      <3>1. i \in DOMAIN messages /\ messages'[i] = messages[i] /\ messages[i].of # 0
        BY <1>2, <1>12, <1>13, <1>14
      <3>2. /\ sessionId' # NoSession /\ AnsweredIn(sessionId, messages[i].of)'
            /\ msg.role = "assistant" => messages[i].of # n
        BY <1>1, <1>6, <1>7, <2>1, <3>1 DEF AnswersInv, AnsweredIn, n
      <3>3. Beside(i, {"user"})'
        BY <1>6, <1>12, <2>1, <3>1 DEF AnswersInv
      <3>4. \A j \in Shown({"assistant"}) : messages'[j].of = messages'[i].of => j = i
        BY <1>6, <1>12, <1>13, <2>1, <3>1 DEF AnswersInv
      <3> QED
        BY <3>1, <3>2, <3>3, <3>4
    <2>3. ASSUME msg.role = "assistant"
          PROVE  /\ sessionId' # NoSession /\ AnsweredIn(sessionId, msg.of)'
                 /\ \A i : i = L + 1 => Beside(i, {"user"})'
      <3>1. sessionId' = ask.session /\ ask.session \in 1..Len(sessions)
            /\ AnsweredIn(ask.session, ask.pending)
        BY <1>3, <1>6, <1>11, <2>3 DEF KnownInv, PendingInv, Errors
      <3>2. AnsweredIn(sessionId, msg.of)'
        BY <1>1, <1>11, <3>1 DEF AnsweredIn, n
      <3>3. \A i : i = L + 1 => Beside(i, {"user"})'
        BY <1>10, <1>12, <2>1, <2>3
      <3>4. sessionId' # NoSession
        BY <1>2, <3>1 DEF NoSession
      <3> QED
        BY <3>2, <3>3, <3>4
    <2>4. ASSUME NEW i \in Shown({"assistant"})'
          PROVE  /\ sessionId' # NoSession /\ AnsweredIn(sessionId, messages[i].of)'
                 /\ messages'[i].of # ask'.pending
                 /\ Beside(i, {"user"})'
                 /\ \A j \in Shown({"assistant"})' : messages'[j].of = messages'[i].of => j = i
      <3>1. ask'.pending = 0
        BY <1>1 DEF Idle
      <3>2. \A j \in Shown({"assistant"})' :
              j \in Shown({"assistant"}) \/ (j = L + 1 /\ msg.role = "assistant")
        BY <1>12
      <3>3. CASE i \in Shown({"assistant"})
        <4>1. \A j \in Shown({"assistant"})' : messages'[j].of = messages'[i].of => j = i
          BY <1>11, <1>12, <2>2, <3>2, <3>3
        <4> QED
          BY <2>2, <3>1, <3>3, <4>1
      <3>4. CASE i = L + 1 /\ msg.role = "assistant"
        <4>1. messages'[i] = msg
          BY <1>12, <3>4
        <4>2. AnsweredIn(sessionId, messages[i].of)'
          BY <2>3, <3>4, <4>1 DEF AnsweredIn
        <4>3. \A j \in Shown({"assistant"})' : messages'[j].of = messages'[i].of => j = i
          BY <1>11, <2>2, <3>2, <3>4, <4>1
        <4>4. messages'[i].of # ask'.pending /\ Beside(i, {"user"})'
          BY <1>2, <1>10, <1>11, <2>3, <3>1, <3>4, <4>1
        <4> QED
          BY <2>3, <3>4, <4>2, <4>3, <4>4
      <3> QED
        BY <2>4, <3>2, <3>3, <3>4
    <2> QED
      BY <2>4 DEF AnswersInv
  <1> QED
    BY <1>4, <1>5, <1>8, <1>9, <1>17, <1>18 DEF TranscriptInv, ShownInv

LEMMA StepTranscript ==
    ASSUME ChatInv, TranscriptInv, [Next]_vars
    PROVE  TranscriptInv'
  <1>1. CASE UNCHANGED vars
    <2>1. \A f \in fetches : FetchOK(f)'
      BY <1>1 DEF vars, pageVars, serverVars, TranscriptInv, KnownInv, FetchOK, AnsweredIn
    <2> QED
      BY <1>1, <2>1
      DEF vars, pageVars, serverVars, countVars, TranscriptInv, ShownInv, ServedInv, KnownInv,
          FetchesInv, PendingInv, MessagesInv, AnswersInv, Live, Shown, Beside, AnsweredIn
  <1> QED
    BY <1>1, OpenTranscript, ChangeUrlTranscript, ReadTranscript, LoadedTranscript,
       SubmitTranscript, ServeTranscript, BreakTranscript, DeliverTranscript,
       AskElsewhereTranscript DEF Next

\* What is shown, sent and read agrees with the sessions of the server, whatever was
\* lost, fetched, or asked in other tabs.
LEMMA TranscriptInvCorrect == Spec => [](ChatInv /\ TranscriptInv)
  <1>1. Init => ChatInv /\ TranscriptInv
    BY InitInv, InitTranscript
  <1>2. ChatInv /\ TranscriptInv /\ [Next]_vars => ChatInv' /\ TranscriptInv'
    BY StepInv, StepTranscript
  <1> QED
    BY <1>1, <1>2, PTL DEF Spec

\* However many questions are asked, here and in other tabs, whichever answers are
\* lost, whichever sessions are fetched and however the URL changes: every answer on
\* the page is one of the session in which the page goes on to ask, is there once, and
\* stands beside its question, until the answer comes to a question that was asked
\* before the transcript on the page had arrived.  From then to the next transcript the
\* page shows the answers of two sessions, about which ThreadsKeptApart says the rest.
THEOREM AnswersAreOfTheSession == Spec => []AnswersOfSession
  <1>1. ChatInv /\ TranscriptInv => AnswersOfSession
    BY DEF TranscriptInv, ShownInv, AnswersInv, AnswersOfSession, AnsweredHere
  <1> QED
    BY <1>1, TranscriptInvCorrect, PTL

\* No callback is lost to a later question: every question on the page but the one that
\* is pending has its answer or its error beside it, whatever is fetched meanwhile.
THEOREM QuestionsAreAnswered == Spec => []EachQuestionAnswered
  <1>1. ChatInv /\ TranscriptInv => EachQuestionAnswered
    <2> SUFFICES ASSUME TranscriptInv, NEW i \in Shown({"user"})
                 PROVE  messages[i].of = ask.pending \/ Beside(i, {"assistant"} \cup Errors)
      BY DEF EachQuestionAnswered
    <2>1. \/ late # "awaited" /\ ask # Idle /\ i = Len(messages)
          \/ Beside(i, {"assistant"} \cup Errors)
      BY DEF TranscriptInv, ShownInv, MessagesInv
    <2>2. late # "awaited" /\ ask # Idle => messages[Len(messages)].of = ask.pending
      BY DEF TranscriptInv, ShownInv, PendingInv, Question
    <2> QED
      BY <2>1, <2>2
  <1> QED
    BY <1>1, TranscriptInvCorrect, PTL

\* In whichever order the fetches of earlier URLs end: once no fetch is under way, the
\* page shows the session of its URL or says that it could not load it, unless an answer
\* asked for before that session was shown has come since.
THEOREM UrlSessionIsShown == Spec => []UrlSessionShown
  <1>1. ChatInv /\ TranscriptInv => UrlSessionShown
    BY DEF TranscriptInv, ShownInv, FetchesInv, UrlSessionShown
  <1> QED
    BY <1>1, TranscriptInvCorrect, PTL

-----------------------------------------------------------------------------
(* Two sessions on one page                                                  *)

\* What the server does to a session leaves the answers of all of them there.
LEMMA ServerGrows ==
    ASSUME ChatInv, TranscriptInv,
           \/ \E q \in requests : Serve(q)
           \/ \E u \in Url : AskElsewhere(u)
    PROVE  SessionsGrow
  <1>1. /\ sessions \in Seq(Row) /\ DOMAIN sessions = 1..Len(sessions) /\ asked \in Nat
        /\ \A s \in DOMAIN sessions : IsInjective(sessions[s].turns)
    BY DEF ChatInv, ServerInv, TranscriptInv, ServedInv
  <1>2. ASSUME NEW d \in Documents \cup {NoDoc}, NEW n \in Nat,
               sessions' = Append(sessions, [scope |-> d, turns |-> <<n>>])
        PROVE  SessionsGrow
    BY <1>1, <1>2, AnsweredAnew DEF OneAnswered
  <1>3. ASSUME NEW t \in 1..Len(sessions), NEW n \in Nat, ~AnsweredIn(t, n),
               sessions' = [sessions EXCEPT ![t].turns = Append(sessions[t].turns, n)]
        PROVE  SessionsGrow
    BY <1>1, <1>3, AnsweredOn DEF OneAnswered
  <1>4. ASSUME NEW q \in requests, Serve(q)
        PROVE  SessionsGrow
    <2>1. /\ q.of \in Nat /\ q.doc \in Documents \cup {NoDoc}
          /\ q.session \in 0..Len(sessions)
          /\ \A s \in DOMAIN sessions : ~AnsweredIn(s, q.of)
      BY <1>1 DEF ChatInv, ServerInv, TranscriptInv, ServedInv, KnownInv
    <2>2. CASE sessions' = Append(sessions, NewSession(q))
      BY <1>2, <2>1, <2>2 DEF NewSession
    <2>3. CASE /\ q.session # NoSession
               /\ sessions' = [sessions EXCEPT ![q.session].turns =
                                                   Append(sessions[q.session].turns, q.of)]
      <3>1. q.session \in 1..Len(sessions) /\ ~AnsweredIn(q.session, q.of)
        BY <1>1, <2>1, <2>3 DEF NoSession
      <3> QED
        BY <1>3, <2>1, <2>3, <3>1
    <2>4. CASE UNCHANGED sessions
      BY <1>1, <2>4, SameSessionsGrow
    <2> QED
      BY <1>4, <2>2, <2>3, <2>4 DEF Serve
  <1>5. ASSUME NEW u \in Url, AskElsewhere(u)
        PROVE  SessionsGrow
    <2>1. /\ asked' = asked + 1 /\ asked' \in Nat /\ asked' \notin 1..asked
          /\ u.doc \in Documents \cup {NoDoc} /\ u.session \in 0..Len(sessions)
      BY <1>1, <1>5 DEF AskElsewhere, Url
    <2>2. \A s \in DOMAIN sessions : ~AnsweredIn(s, asked')
      BY <2>1 DEF TranscriptInv, ServedInv
    <2>3. CASE sessions' = Append(sessions, [scope |-> u.doc, turns |-> <<asked'>>])
      BY <1>2, <2>1, <2>3
    <2>4. CASE /\ u.session # NoSession
               /\ sessions' = [sessions EXCEPT ![u.session].turns =
                                                   Append(sessions[u.session].turns, asked')]
      <3>1. u.session \in 1..Len(sessions) /\ ~AnsweredIn(u.session, asked')
        BY <1>1, <2>1, <2>2, <2>4 DEF NoSession
      <3> QED
        BY <1>3, <2>1, <2>4, <3>1
    <2> QED
      BY <1>5, <2>3, <2>4 DEF AskElsewhere
  <1> QED
    BY <1>4, <1>5

\* While no answer has come too late, all answers are of the session of the page.
LEMMA AloneApart ==
    ASSUME ChatInv, TranscriptInv, late # "come"
    PROVE  ThreadsApart
  <1>1. messages \in Seq(Message) /\ 0 \in 0..Len(messages)
    BY DEF TranscriptInv, ShownInv, MessagesInv
  <1>2. \A i \in Shown({"assistant"}) : AnsweredHere(messages[i].of) /\ ~(i <= 0)
    BY <1>1 DEF TranscriptInv, ShownInv, AnswersInv, AnsweredHere, Shown
  <1> QED
    BY <1>1, <1>2 DEF ThreadsApart

\* The page shows what it has shown, and perhaps something that is no answer.
LEMMA ApartKept ==
    ASSUME ChatInv, TranscriptInv, ThreadsApart, SessionsGrow, UNCHANGED sessionId,
           messages \in Seq(Message), messages' \in Seq(Message),
           Len(messages) <= Len(messages'),
           \A i \in Shown({"assistant"})' :
              i \in Shown({"assistant"}) /\ messages'[i] = messages[i]
    PROVE  ThreadsApart'
  <1>1. PICK k \in 0..Len(messages) : \A i, j \in Shown({"assistant"}) :
            /\ i > k => AnsweredHere(messages[i].of)
            /\ i <= k /\ j <= k =>
                  \E s \in DOMAIN sessions :
                      AnsweredIn(s, messages[i].of) /\ AnsweredIn(s, messages[j].of)
    BY DEF ThreadsApart
  <1>2. /\ \A i \in Shown({"assistant"}) : messages[i].of \in Nat
        /\ sessionId \in 0..Len(sessions) /\ Len(messages) \in Nat /\ Len(messages') \in Nat
        /\ DOMAIN sessions = 1..Len(sessions) /\ DOMAIN sessions' = 1..Len(sessions')
        /\ Len(sessions) \in Nat /\ Len(sessions') \in Nat /\ Len(sessions) <= Len(sessions')
    <2>1. \A i \in DOMAIN messages : messages[i] \in Message
      OBVIOUS
    <2>2. \A i \in Shown({"assistant"}) : messages[i].of \in Nat
      BY <2>1 DEF Shown, Message
    <2>3. sessions \in Seq(Row) /\ sessionId \in 0..Len(sessions)
      BY DEF ChatInv, ServerInv, TranscriptInv, KnownInv
    <2>4. sessions' \in Seq(Row) /\ Len(sessions) <= Len(sessions')
      BY DEF SessionsGrow, SessionsKept
    <2> QED
      BY <2>2, <2>3, <2>4
  <1>3. \A s \in DOMAIN sessions, n \in Nat : AnsweredIn(s, n) => AnsweredIn(s, n)'
    BY <1>2 DEF SessionsGrow
  <1>4. k \in 0..Len(messages')
    BY <1>2
  <1>5. ASSUME NEW i \in Shown({"assistant"})', i > k
        PROVE  AnsweredHere(messages[i].of)'
    <2>1. sessionId \in DOMAIN sessions /\ AnsweredIn(sessionId, messages[i].of)
      BY <1>1, <1>2, <1>5 DEF AnsweredHere, NoSession
    <2>2. AnsweredIn(sessionId, messages[i].of)'
      BY <1>2, <1>3, <2>1 DEF AnsweredIn
    <2> QED
      BY <1>2, <2>1, <2>2 DEF AnsweredHere, NoSession
  <1>6. ASSUME NEW i \in Shown({"assistant"})', NEW j \in Shown({"assistant"})',
               i <= k, j <= k
        PROVE  \E s \in DOMAIN sessions' :
                   AnsweredIn(s, messages[i].of)' /\ AnsweredIn(s, messages[j].of)'
    <2>1. PICK s \in DOMAIN sessions :
              AnsweredIn(s, messages[i].of) /\ AnsweredIn(s, messages[j].of)
      BY <1>1, <1>6
    <2>2. AnsweredIn(s, messages[i].of)' /\ AnsweredIn(s, messages[j].of)'
      <3>1. /\ messages'[i].of = messages[i].of /\ messages[i].of \in Nat
            /\ messages'[j].of = messages[j].of /\ messages[j].of \in Nat
        BY <1>2, <1>6
      <3> QED
        BY <1>3, <2>1, <3>1 DEF AnsweredIn
    <2>3. s \in DOMAIN sessions'
      BY <1>2
    <2> QED
      BY <2>2, <2>3
  <1> QED
    BY <1>4, <1>5, <1>6 DEF ThreadsApart

\* A late answer is put behind a transcript of one session, and the page goes on in the
\* session of the answer; what follows is asked there.
LEMMA DeliverApart ==
    ASSUME ChatInv, TranscriptInv, ThreadsApart, Deliver, late' = "come"
    PROVE  ThreadsApart'
  <1>0. PICK L, n : L = Len(messages) /\ n = ask.pending
    OBVIOUS
  <1>1. /\ sessions \in Seq(Row) /\ DOMAIN sessions = 1..Len(sessions) /\ Len(sessions) \in Nat
        /\ n \in Nat /\ L \in Nat /\ messages \in Seq(Message) /\ sessionId \in 0..Len(sessions)
    BY <1>0 DEF ChatInv, ServerInv, PageInv, TranscriptInv, KnownInv, ShownInv, MessagesInv
  <1>2. CASE ask.result # "answer"
    <2>1. /\ UNCHANGED <<sessions, sessionId>>
          /\ messages' = Append(messages, Failure(n, ask.result))
      BY <1>0, <1>2 DEF Deliver, serverVars
    <2>2. Failure(n, ask.result) \in Message /\ Failure(n, ask.result).role # "assistant"
      BY <1>1, <1>2, <2>1 DEF Failure, Message, ChatInv, PageInv, Deliver
    <2>3. /\ messages' \in Seq(Message) /\ Len(messages) <= Len(messages')
          /\ \A i \in Shown({"assistant"})' :
                i \in Shown({"assistant"}) /\ messages'[i] = messages[i]
      BY <1>1, <2>1, <2>2, MessageAdded DEF Shown
    <2> QED
      BY <1>1, <2>1, <2>3, SameSessionsGrow, ApartKept
  <1>3. CASE ask.result = "answer"
    <2>1. /\ UNCHANGED sessions /\ sessionId' = ask.session
          /\ messages' = Append(messages, Answer(n))
          /\ late \in {"awaited", "come"}
      BY <1>0, <1>3 DEF Deliver, serverVars, KeepSession
    <2>2. /\ ask.session \in 1..Len(sessions) /\ AnsweredIn(ask.session, n)
          /\ late = "come" /\ sessionId # NoSession => ask.session = sessionId
      BY <1>0, <1>3 DEF TranscriptInv, KnownInv, ShownInv, PendingInv
    <2>3. Answer(n) \in Message /\ Answer(n).of = n
      BY <1>1 DEF Answer, Message
    <2>4. /\ messages' \in Seq(Message) /\ L \in Nat /\ Len(messages') = L + 1
          /\ messages'[L + 1] = Answer(n) /\ DOMAIN messages = 1..L
          /\ \A i \in DOMAIN messages : messages'[i] = messages[i]
          /\ \A i \in Shown({"assistant"})' : i \in Shown({"assistant"}) \/ i = L + 1
          /\ Shown({"assistant"}) \subseteq DOMAIN messages
      BY <1>0, <1>1, <2>1, <2>3, MessageAdded DEF Shown
    <2>5. \A s, m : AnsweredIn(s, m)' <=> AnsweredIn(s, m)
      BY <2>1 DEF AnsweredIn
    <2>6. \A m : AnsweredHere(m)' <=> AnsweredIn(ask.session, m)
      BY <1>1, <2>1, <2>2 DEF AnsweredHere, AnsweredIn, NoSession
    <2>7. AnsweredHere(messages[L + 1].of)'
      <3>1. messages'[L + 1].of = n
        BY <2>3, <2>4
      <3> QED
        BY <2>2, <2>6, <3>1 DEF AnsweredHere, AnsweredIn
    <2>8. CASE late = "come"
      <3>1. PICK k \in 0..L : \A i, j \in Shown({"assistant"}) :
                /\ i > k => AnsweredHere(messages[i].of)
                /\ i <= k /\ j <= k =>
                      \E s \in DOMAIN sessions :
                          AnsweredIn(s, messages[i].of) /\ AnsweredIn(s, messages[j].of)
        BY <1>0 DEF ThreadsApart
      <3>2. k \in 0..Len(messages') /\ L + 1 > k
        BY <2>4
      <3>3. ASSUME NEW i \in Shown({"assistant"})', i > k
            PROVE  AnsweredHere(messages[i].of)'
        <4>1. CASE i \in Shown({"assistant"})
          <5>1. sessionId # NoSession /\ AnsweredIn(sessionId, messages[i].of)
            BY <3>1, <3>3, <4>1 DEF AnsweredHere
          <5>2. AnsweredIn(ask.session, messages[i].of)
            BY <2>2, <2>8, <5>1
          <5>3. messages'[i] = messages[i]
            BY <2>4, <4>1
          <5> QED
            BY <2>6, <5>2, <5>3 DEF AnsweredHere, AnsweredIn
        <4>2. CASE i = L + 1
          BY <2>7, <4>2
        <4> QED
          BY <2>4, <3>3, <4>1, <4>2
      <3>4. ASSUME NEW i \in Shown({"assistant"})', NEW j \in Shown({"assistant"})',
                   i <= k, j <= k
            PROVE  \E s \in DOMAIN sessions' :
                       AnsweredIn(s, messages[i].of)' /\ AnsweredIn(s, messages[j].of)'
        <4>1. i \in Shown({"assistant"}) /\ j \in Shown({"assistant"})
          BY <2>4, <3>2, <3>4
        <4>2. messages'[i] = messages[i] /\ messages'[j] = messages[j]
          BY <2>4, <4>1
        <4>3. PICK s \in DOMAIN sessions :
                  AnsweredIn(s, messages[i].of) /\ AnsweredIn(s, messages[j].of)
          BY <3>1, <3>4, <4>1
        <4> QED
          BY <2>1, <4>2, <4>3 DEF AnsweredIn
      <3> QED
        BY <3>2, <3>3, <3>4 DEF ThreadsApart
    <2>9. CASE late = "awaited"
      <3>1. \A i \in Shown({"assistant"}) :
                sessionId \in DOMAIN sessions /\ AnsweredIn(sessionId, messages[i].of)
        BY <1>1, <2>9 DEF TranscriptInv, ShownInv, AnswersInv, NoSession
      <3>2. L \in 0..Len(messages')
        BY <2>4
      <3>3. ASSUME NEW i \in Shown({"assistant"})', i > L
            PROVE  AnsweredHere(messages[i].of)'
        <4>1. i = L + 1
          BY <1>1, <2>4, <3>3
        <4> QED
          BY <2>7, <4>1
      <3>4. ASSUME NEW i \in Shown({"assistant"})', NEW j \in Shown({"assistant"})',
                   i <= L, j <= L
            PROVE  \E s \in DOMAIN sessions' :
                       AnsweredIn(s, messages[i].of)' /\ AnsweredIn(s, messages[j].of)'
        <4>1. i \in Shown({"assistant"}) /\ j \in Shown({"assistant"})
          BY <2>4, <3>4
        <4>2. messages'[i] = messages[i] /\ messages'[j] = messages[j]
          BY <2>4, <4>1
        <4> QED
          BY <2>1, <3>1, <4>1, <4>2 DEF AnsweredIn
      <3> QED
        BY <3>2, <3>3, <3>4 DEF ThreadsApart
    <2> QED
      BY <2>1, <2>8, <2>9
  <1> QED
    BY <1>2, <1>3

LEMMA StepApart ==
    ASSUME ChatInv, TranscriptInv, ThreadsApart, [Next]_vars, ChatInv', TranscriptInv'
    PROVE  ThreadsApart'
  <1> SUFFICES ASSUME late' = "come"
               PROVE  ThreadsApart'
    <2>1. ASSUME late' # "come"
          PROVE  ThreadsApart'
      <3>1. messages' \in Seq(Message) /\ 0 \in 0..Len(messages')
        BY DEF TranscriptInv, ShownInv, MessagesInv
      <3>2. \A i \in Shown({"assistant"})' : AnsweredHere(messages[i].of)' /\ ~(i <= 0)
        BY <2>1, <3>1 DEF TranscriptInv, ShownInv, AnswersInv, AnsweredHere, AnsweredIn, Shown
      <3> QED
        BY <3>1, <3>2 DEF ThreadsApart
    <2> QED
      BY <2>1
  <1>1. /\ sessions \in Seq(Row) /\ asked \in Nat
        /\ messages \in Seq(Message) /\ messages' \in Seq(Message)
    BY DEF ChatInv, ServerInv, TranscriptInv, ShownInv, MessagesInv
  <1>2. ASSUME SessionsGrow, UNCHANGED <<sessionId, messages>>
        PROVE  ThreadsApart'
    <2>1. /\ Len(messages) <= Len(messages')
          /\ \A i \in Shown({"assistant"})' :
                i \in Shown({"assistant"}) /\ messages'[i] = messages[i]
      BY <1>1, <1>2 DEF Shown
    <2> QED
      BY <1>1, <1>2, <2>1, ApartKept
  <1>3. CASE UNCHANGED <<sessions, sessionId, messages>>
    BY <1>1, <1>2, <1>3, SameSessionsGrow
  <1>4. CASE Submit
    <2>1. /\ UNCHANGED <<sessions, sessionId>>
          /\ messages' = Append(messages, Question(asked + 1))
      BY <1>4 DEF Submit
    <2>2. Question(asked + 1) \in Message /\ Question(asked + 1).role # "assistant"
      BY <1>1 DEF Question, Message
    <2>3. /\ Len(messages) <= Len(messages')
          /\ \A i \in Shown({"assistant"})' :
                i \in Shown({"assistant"}) /\ messages'[i] = messages[i]
      BY <1>1, <2>1, <2>2, MessageAdded DEF Shown
    <2> QED
      BY <1>1, <2>1, <2>3, SameSessionsGrow, ApartKept
  <1>5. ASSUME NEW q \in requests, Serve(q)
        PROVE  ThreadsApart'
    BY <1>2, <1>5, ServerGrows DEF Serve
  <1>6. ASSUME NEW u \in Url, AskElsewhere(u)
        PROVE  ThreadsApart'
    BY <1>2, <1>6, ServerGrows DEF AskElsewhere, pageVars
  <1>7. ASSUME NEW f \in fetches, Loaded(f)
        PROVE  ThreadsApart'
    BY <1>3, <1>7 DEF Loaded, serverVars
  <1>8. ASSUME NEW u \in Url, Open(u) \/ ChangeUrl(u)
        PROVE  ThreadsApart'
    BY <1>3, <1>8 DEF Open, ChangeUrl, serverVars
  <1>9. ASSUME NEW f \in fetches, Read(f)
        PROVE  ThreadsApart'
    BY <1>3, <1>9 DEF Read, serverVars
  <1>10. ASSUME NEW q \in requests, Break(q)
         PROVE  ThreadsApart'
    BY <1>3, <1>10 DEF Break
  <1>11. CASE UNCHANGED vars
    BY <1>3, <1>11 DEF vars, pageVars, serverVars
  <1> QED
    BY <1>4, <1>5, <1>6, <1>7, <1>8, <1>9, <1>10, <1>11, DeliverApart DEF Next

\* The answers on the page are of one session up to some place and of the session the
\* page goes on in from there, also when transcripts arrive under a pending question and
\* its answer is put behind them; so at most two sessions meet on a page.
THEOREM ThreadsKeptApart == Spec => []ThreadsApart
  <1>1. Init => ThreadsApart
    BY InitInv, InitTranscript, AloneApart DEF Init
  <1>2. ChatInv /\ TranscriptInv /\ ThreadsApart /\ [Next]_vars /\ ChatInv' /\ TranscriptInv'
          => ThreadsApart'
    BY StepApart
  <1> QED
    BY <1>1, <1>2, TranscriptInvCorrect, PTL DEF Spec

=============================================================================
