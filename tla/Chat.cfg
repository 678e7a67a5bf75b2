\* Two documents, two sessions, three questions, and three pages or changes of the URL.
SPECIFICATION Spec
CONSTANTS
    Documents = {d1, d2}
    NoDoc = NoDoc
    MaxAsks = 3
    MaxSessions = 2
    MaxMoves = 3
SYMMETRY DocumentSymmetry
\* Questions, sessions and moves run out.
CHECK_DEADLOCK FALSE
INVARIANTS
    AnswersOfSession
    ThreadsApart
    EachQuestionAnswered
    UrlSessionShown
    OwnSessionContinues
