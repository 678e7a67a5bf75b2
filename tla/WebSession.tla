----------------------------- MODULE WebSession -----------------------------
(***************************************************************************)
(* The web client's session: one tab with its tokens in local storage, the *)
(* user it shows, the calls in flight and the one refresh they share, and  *)
(* the API's stateless tokens.  A pair is an access and a refresh token,   *)
(* numbered as issued; 0 is none.                                          *)
(***************************************************************************)
EXTENDS Naturals, Sequences

CONSTANTS
    Users,
    Calls,     \* calls of pages that may be in flight at once
    NoUser,
    MaxPairs,  \* bound: pairs of tokens ever issued
    MaxLoads   \* bound: times the page is loaded again

ASSUME SessionAssumptions ==
    NoUser \notin Users /\ "me" \notin Calls /\ MaxPairs \in Nat /\ MaxLoads \in Nat

\* The call that fetches the user when the page is loaded.
Me   == "me"
Slot == Calls \cup {Me}

VARIABLES
    accounts,   \* users that have registered
    issued,     \* whom each pair was issued to
    expired,    \* the access tokens 1..expired are no longer accepted
    stored,     \* the pair in local storage
    shown,      \* AuthProvider: user
    loading,    \* AuthProvider: loading
    refreshing, \* refreshPromise: the pair whose refresh token is being sent
    call,       \* calls in flight: how far, with which pair, and what the API said
    loads,      \* times the page has been loaded again
    crossed     \* for the properties: tokens came or went under a pending answer

vars == <<accounts, issued, expired, stored, shown, loading, refreshing, call, loads, crossed>>

Pair == 0..MaxPairs
Call == [at : {"idle", "first", "waiting", "second"}, pair : Pair,
         answer : {"none", "ok", "unauthorized"}]

Idle         == [at |-> "idle", pair |-> 0, answer |-> "none"]
Sent(n, p)   == [at |-> n, pair |-> p, answer |-> "none"]
InFlight(c)  == call[c].at \in {"first", "second"}

Init ==
    /\ accounts = {} /\ issued = <<>> /\ expired = 0
    /\ stored = 0 /\ shown = NoUser /\ loading = FALSE /\ refreshing = 0
    /\ call = [c \in Slot |-> Idle]
    /\ loads = 0 /\ crossed = FALSE

-----------------------------------------------------------------------------
(* The API                                                                   *)

CanIssue == Len(issued) < MaxPairs
Newest   == Len(issued) + 1

IssuePair(u) == CanIssue /\ issued' = Append(issued, u)

\* Access tokens live equally long, so the oldest expires first.
Expire ==
    /\ expired < Len(issued)
    /\ expired' = expired + 1
    /\ UNCHANGED <<accounts, issued, stored, shown, loading, refreshing, call, loads, crossed>>

Authentic(p) == p # 0 /\ p > expired

\* The API answers a call; the answer is under way.
Serve(c) ==
    /\ InFlight(c) /\ call[c].answer = "none"
    /\ call' = [call EXCEPT ![c].answer = IF Authentic(call[c].pair) THEN "ok"
                                                                     ELSE "unauthorized"]
    /\ UNCHANGED <<accounts, issued, expired, stored, shown, loading, refreshing, loads, crossed>>

-----------------------------------------------------------------------------
(* apiRequest and tryRefresh                                                 *)

\* A page that is only shown to a user calls the API.
Send(c) ==
    /\ shown # NoUser /\ ~loading
    /\ call[c] = Idle
    /\ call' = [call EXCEPT ![c] = Sent("first", stored)]
    /\ UNCHANGED <<accounts, issued, expired, stored, shown, loading, refreshing, loads, crossed>>

Succeed(c) ==
    /\ InFlight(c) /\ call[c].answer = "ok"
    /\ call' = [call EXCEPT ![c] = Idle]
    /\ IF c = Me THEN shown' = issued[call[c].pair] /\ loading' = FALSE
                 ELSE UNCHANGED <<shown, loading>>
    /\ UNCHANGED <<accounts, issued, expired, stored, refreshing, loads, crossed>>

\* Mutant of Throw: the call is left where no call belongs.
ThrowUnsettled(c) ==
    /\ call' = [call EXCEPT ![c] = [@ EXCEPT !.at = "thrown"]]
    /\ IF c = Me THEN stored' = 0 /\ loading' = FALSE
                 ELSE UNCHANGED <<stored, loading>>

\* Mutant of Throw: loading ends only when the user has been fetched.
ThrowKeepsLoading(c) ==
    /\ call' = [call EXCEPT ![c] = Idle]
    /\ IF c = Me THEN stored' = 0 ELSE UNCHANGED stored
    /\ UNCHANGED loading

\* What a call that throws leaves behind; if it was to fetch the user, the
\* tokens are cleared.
Throw(c) ==
    /\ call' = [call EXCEPT ![c] = Idle]
    /\ IF c = Me THEN stored' = 0 /\ loading' = FALSE
                 ELSE UNCHANGED <<stored, loading>>

\* Any other error, or no answer at all.
Fail(c) ==
    /\ InFlight(c)
    /\ Throw(c)
    /\ UNCHANGED <<accounts, issued, expired, shown, refreshing, loads, crossed>>

\* A second 401 is thrown.
GiveUp(c) ==
    /\ call[c].at = "second" /\ call[c].answer = "unauthorized"
    /\ Throw(c)
    /\ UNCHANGED <<accounts, issued, expired, shown, refreshing, loads, crossed>>

\* A 401 without a refresh token to try.
NothingToRefresh(c) ==
    /\ call[c].at = "first" /\ call[c].answer = "unauthorized"
    /\ refreshing = 0 /\ stored = 0
    /\ Throw(c)
    /\ UNCHANGED <<accounts, issued, expired, shown, refreshing, loads, crossed>>

\* Mutant of AwaitRefresh: a call that finds a refresh under way gives up.
AwaitRefreshAlone(c) ==
    /\ call[c].at = "first" /\ call[c].answer = "unauthorized"
    /\ stored # 0
    /\ IF refreshing # 0
       THEN stored' = 0 /\ call' = [call EXCEPT ![c] = Idle] /\ UNCHANGED refreshing
       ELSE /\ refreshing' = stored
            /\ call' = [call EXCEPT ![c].at = "waiting"]
            /\ UNCHANGED stored
    /\ UNCHANGED <<accounts, issued, expired, shown, loading, loads, crossed>>

\* A 401 starts a refresh with the stored token, or joins the one under way.
AwaitRefresh(c) ==
    /\ call[c].at = "first" /\ call[c].answer = "unauthorized"
    /\ refreshing # 0 \/ stored # 0
    /\ refreshing' = IF refreshing # 0 THEN refreshing ELSE stored
    /\ call' = [call EXCEPT ![c].at = "waiting"]
    /\ UNCHANGED <<accounts, issued, expired, stored, shown, loading, loads, crossed>>

\* All that wait are sent again, with the new token.
Resumed(p) ==
    [c \in Slot |-> IF call[c].at = "waiting" THEN Sent("second", p) ELSE call[c]]

\* The new pair is stored, and whoever waits is resumed before anything else happens.
RefreshSucceeds ==
    /\ refreshing # 0
    /\ IssuePair(issued[refreshing])
    /\ stored' = Newest
    /\ refreshing' = 0
    /\ call' = Resumed(Newest)
    /\ UNCHANGED <<accounts, expired, shown, loading, loads, crossed>>

\* The refresh is refused, limited or lost: whoever waits clears the tokens and throws.
RefreshFails ==
    LET waiting == {c \in Slot : call[c].at = "waiting"} IN
    /\ refreshing # 0
    /\ refreshing' = 0
    /\ stored' = IF waiting # {} THEN 0 ELSE stored
    /\ loading' = (loading /\ Me \notin waiting)
    /\ call' = [c \in Slot |-> IF c \in waiting THEN Idle ELSE call[c]]
    /\ UNCHANGED <<accounts, issued, expired, shown, loads, crossed>>

-----------------------------------------------------------------------------
(* AuthProvider                                                              *)

\* An answer that will touch the session is still to come.
Pending == refreshing # 0 \/ call[Me] # Idle

\* The answer to a login or a registration: the tokens are stored, the user is shown.
SignIn(u) ==
    /\ IssuePair(u)
    /\ stored' = Newest
    /\ shown' = u
    /\ crossed' = (crossed \/ Pending)
    /\ UNCHANGED <<expired, loading, refreshing, call, loads>>

\* Mutant of Login: the user shown stays.
LoginKeepsUser(u) ==
    /\ u \in accounts
    /\ IssuePair(u)
    /\ stored' = Newest
    /\ shown' = IF shown = NoUser THEN u ELSE shown
    /\ crossed' = (crossed \/ Pending)
    /\ UNCHANGED <<accounts, expired, loading, refreshing, call, loads>>

Login(u) ==
    /\ u \in accounts
    /\ SignIn(u)
    /\ UNCHANGED accounts

Register(u) ==
    /\ u \notin accounts
    /\ SignIn(u)
    /\ accounts' = accounts \cup {u}

\* The button is on pages that are only shown to a user.
Logout ==
    /\ shown # NoUser /\ ~loading
    /\ stored' = 0
    /\ shown' = NoUser
    /\ crossed' = (crossed \/ Pending)
    /\ UNCHANGED <<accounts, issued, expired, loading, refreshing, call, loads>>

\* The page is loaded again: only local storage is left, and with a token in it
\* the user is fetched.
Load ==
    /\ loads < MaxLoads
    /\ loads' = loads + 1
    /\ shown' = NoUser /\ refreshing' = 0 /\ crossed' = FALSE
    /\ loading' = (stored # 0)
    /\ call' = [c \in Slot |-> IF c = Me /\ stored # 0 THEN Sent("first", stored) ELSE Idle]
    /\ UNCHANGED <<accounts, issued, expired, stored>>

-----------------------------------------------------------------------------

CallStep(c) ==
    \/ Serve(c) \/ Succeed(c) \/ GiveUp(c) \/ NothingToRefresh(c) \/ AwaitRefresh(c)

RefreshStep == RefreshSucceeds \/ RefreshFails

\* Nothing is in flight: waiting for the user is no deadlock.
Quiescent ==
    /\ refreshing = 0 /\ \A c \in Slot : call[c] = Idle
    /\ UNCHANGED vars

Next ==
    \/ \E c \in Calls : Send(c)
    \/ \E c \in Slot : CallStep(c) \/ Fail(c)
    \/ \E u \in Users : Login(u) \/ Register(u)
    \/ RefreshStep \/ Expire \/ Logout \/ Load \/ Quiescent

Spec == Init /\ [][Next]_vars

\* The API answers what it is asked, and the browser handles the answers.
FairSpec ==
    /\ Spec
    /\ \A c \in Slot : WF_vars(CallStep(c))
    /\ WF_vars(RefreshStep)

-----------------------------------------------------------------------------
(* Properties                                                                *)

TokensTypeOK ==
    /\ accounts \subseteq Users
    /\ issued \in Seq(Users) /\ Len(issued) \in Pair
    /\ expired \in 0..Len(issued)
    /\ stored \in 0..Len(issued) /\ refreshing \in 0..Len(issued)

PageTypeOK ==
    /\ shown \in Users \cup {NoUser}
    /\ loading \in BOOLEAN /\ crossed \in BOOLEAN
    /\ loads \in Nat

CallsTypeOK ==
    /\ call \in [Slot -> Call]
    /\ \A c \in Slot : /\ call[c].pair \in 0..Len(issued)
                       /\ call[c].answer = "ok" => call[c].pair # 0

\* Every variable holds a value of its type, and only a call that carries a
\* token is accepted.
TypeOK == TokensTypeOK /\ PageTypeOK /\ CallsTypeOK

\* As long as nobody signs in or out under a pending refresh or a pending fetch
\* of the user, the tokens in local storage are those of the user on the screen,
\* and a page that shows nobody has none: through expiry, shared refreshes,
\* answers that come late, failures and reloads.
SessionConsistent ==
    ~crossed /\ ~loading /\ stored # 0 => shown = issued[stored]

\* The tokens are not thrown away while they could still be refreshed: they go
\* when the user signs out, when a refresh with this very pair has failed, and
\* when the user could not be fetched.
TokensKept ==
    [][~crossed /\ stored # 0 /\ stored' = 0 =>
          \/ shown # NoUser /\ shown' = NoUser
          \/ refreshing = stored /\ refreshing' = 0
          \/ loading /\ ~loading']_vars

\* Every call comes back, those included that wait for a refresh another call
\* has started, and the page does not stay at loading.
CallsEnd ==
    /\ \A c \in Slot : call[c] # Idle ~> call[c] = Idle
    /\ loading ~> ~loading

=============================================================================
