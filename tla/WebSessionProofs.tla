-------------------------- MODULE WebSessionProofs --------------------------
(***************************************************************************)
(* For any number of users, calls, tokens and reloads: WebSession keeps    *)
(* its types, shows the user whose tokens it holds, and never throws away  *)
(* tokens that can still be refreshed.                                     *)
(***************************************************************************)
EXTENDS WebSession, TLAPS

\* While the page is loading nothing is in flight but the call that fetches the
\* user and the refresh that call waits for.
LoadingAlone == loading => \A c \in Calls : call[c] = Idle

\* Unless tokens came or went under a pending answer: a pending refresh is of
\* the stored pair, and a pending fetch of the user is of the stored pair's owner.
PendingOwn ==
    ~crossed =>
        /\ refreshing # 0 => refreshing = stored
        /\ ~loading => call[Me] = Idle
        /\ loading => /\ shown = NoUser /\ stored # 0
                      /\ call[Me].at # "idle" /\ call[Me].pair # 0
                      /\ issued[call[Me].pair] = issued[stored]
                      /\ refreshing # 0 => call[Me].at = "waiting"

USE DEF Slot, Pair, Call, Idle, Sent, InFlight

USE DEF TypeOK

LEMMA InitTyped ==
    ASSUME SessionAssumptions
    PROVE  Init => TypeOK
<1> SUFFICES ASSUME Init PROVE TypeOK
  OBVIOUS
<1>1. issued = <<>> /\ issued \in Seq(Users) /\ Len(issued) = 0
  BY DEF Init
<1>2. TokensTypeOK
  BY <1>1 DEF Init, TokensTypeOK, SessionAssumptions
<1>3. PageTypeOK
  BY DEF Init, PageTypeOK
<1>4. \A c \in Slot : call[c] = Idle
  BY DEF Init
<1>5. CallsTypeOK
  BY <1>1, <1>4 DEF Init, CallsTypeOK, SessionAssumptions
<1>6. QED
  BY <1>2, <1>3, <1>5

\* A pair that is issued belongs to its user, and the earlier ones to theirs.
LEMMA Issuing ==
    ASSUME TypeOK, SessionAssumptions, NEW u \in Users, IssuePair(u)
    PROVE  /\ issued' \in Seq(Users) /\ Len(issued') = Newest
           /\ Newest = Len(issued) + 1 /\ Newest \in Pair
           /\ issued'[Newest] = u
           /\ \A n \in 1..Len(issued) : issued'[n] = issued[n]
  BY DEF TokensTypeOK, SessionAssumptions, IssuePair, CanIssue, Newest

\* Every step keeps the types.
LEMMA NextTyped ==
    ASSUME TypeOK, SessionAssumptions, [Next]_vars
    PROVE  TypeOK'
<1> USE DEF SessionAssumptions
<1>1. ASSUME NEW c \in Calls, Send(c) PROVE TypeOK'
  <2>1. TokensTypeOK' /\ PageTypeOK'
    BY <1>1 DEF Send, TokensTypeOK, PageTypeOK
  <2>2. CallsTypeOK'
    BY <1>1 DEF Send, TokensTypeOK, CallsTypeOK
  <2>3. QED BY <2>1, <2>2
<1>2. ASSUME NEW c \in Slot, Serve(c) PROVE TypeOK'
  <2>1. TokensTypeOK' /\ PageTypeOK'
    BY <1>2 DEF Serve, TokensTypeOK, PageTypeOK
  <2>2. CallsTypeOK'
    BY <1>2 DEF Serve, Authentic, CallsTypeOK
  <2>3. QED BY <2>1, <2>2
<1>3. ASSUME NEW c \in Slot, Succeed(c) PROVE TypeOK'
  <2>1. call[c].pair \in 1..Len(issued)
    BY <1>3 DEF Succeed, CallsTypeOK, TokensTypeOK
  <2>2. issued[call[c].pair] \in Users
    BY <2>1 DEF TokensTypeOK
  <2>3. TokensTypeOK' /\ PageTypeOK'
    BY <1>3, <2>2 DEF Succeed, TokensTypeOK, PageTypeOK
  <2>4. CallsTypeOK'
    BY <1>3 DEF Succeed, CallsTypeOK, TokensTypeOK
  <2>5. QED BY <2>3, <2>4
<1>4. ASSUME NEW c \in Slot, Fail(c) \/ GiveUp(c) \/ NothingToRefresh(c) PROVE TypeOK'
  <2>1. Throw(c) /\ UNCHANGED <<accounts, issued, expired, shown, refreshing, loads, crossed>>
    BY <1>4 DEF Fail, GiveUp, NothingToRefresh
  <2>2. TokensTypeOK'
    BY <2>1 DEF Throw, TokensTypeOK
  <2>3. PageTypeOK'
    BY <2>1 DEF Throw, PageTypeOK
  <2>4. CallsTypeOK'
    BY <2>1 DEF Throw, CallsTypeOK, TokensTypeOK
  <2>5. QED BY <2>2, <2>3, <2>4
<1>5. ASSUME NEW c \in Slot, AwaitRefresh(c) PROVE TypeOK'
  <2>1. TokensTypeOK' /\ PageTypeOK'
    BY <1>5 DEF AwaitRefresh, TokensTypeOK, PageTypeOK
  <2>2. CallsTypeOK'
    BY <1>5 DEF AwaitRefresh, CallsTypeOK
  <2>3. QED BY <2>1, <2>2
<1>6. ASSUME RefreshSucceeds PROVE TypeOK'
  <2>1. issued[refreshing] \in Users
    BY <1>6 DEF RefreshSucceeds, TokensTypeOK
  <2>2. /\ issued' \in Seq(Users) /\ Len(issued') = Newest /\ Newest \in Pair
        /\ Newest = Len(issued) + 1
    BY <1>6, <2>1, Issuing DEF RefreshSucceeds
  <2>3. TokensTypeOK' /\ PageTypeOK'
    BY <1>6, <2>2 DEF RefreshSucceeds, TokensTypeOK, PageTypeOK
  <2>4. CallsTypeOK'
    BY <1>6, <2>2 DEF RefreshSucceeds, Resumed, CallsTypeOK, TokensTypeOK
  <2>5. QED BY <2>3, <2>4
<1>7. ASSUME RefreshFails PROVE TypeOK'
  <2>1. TokensTypeOK' /\ PageTypeOK'
    BY <1>7 DEF RefreshFails, TokensTypeOK, PageTypeOK
  <2>2. CallsTypeOK'
    BY <1>7 DEF RefreshFails, CallsTypeOK, TokensTypeOK
  <2>3. QED BY <2>1, <2>2
<1>8. ASSUME NEW u \in Users, Login(u) \/ Register(u) PROVE TypeOK'
  <2>1. SignIn(u) /\ accounts' \subseteq Users
    BY <1>8 DEF Login, Register, TokensTypeOK
  <2>2. /\ issued' \in Seq(Users) /\ Len(issued') = Newest /\ Newest \in Pair
        /\ Newest = Len(issued) + 1
    BY <2>1, Issuing DEF SignIn
  <2>3. TokensTypeOK'
    BY <2>1, <2>2 DEF SignIn, TokensTypeOK
  <2>4. PageTypeOK'
    BY <2>1 DEF SignIn, PageTypeOK
  <2>5. CallsTypeOK'
    BY <2>1, <2>2 DEF SignIn, CallsTypeOK, TokensTypeOK
  <2>6. QED BY <2>3, <2>4, <2>5
<1>9. ASSUME Expire \/ Logout \/ UNCHANGED vars PROVE TypeOK'
  <2>1. TokensTypeOK'
    BY <1>9 DEF Expire, Logout, vars, TokensTypeOK
  <2>2. PageTypeOK'
    BY <1>9 DEF Expire, Logout, vars, PageTypeOK
  <2>3. CallsTypeOK'
    BY <1>9 DEF Expire, Logout, vars, CallsTypeOK
  <2>4. QED BY <2>1, <2>2, <2>3
<1>10. ASSUME Load PROVE TypeOK'
  <2>1. TokensTypeOK'
    BY <1>10 DEF Load, TokensTypeOK
  <2>2. PageTypeOK'
    <3>1. loading' \in BOOLEAN
      BY <1>10 DEF Load
    <3>2. shown' = NoUser /\ crossed' = FALSE /\ loads' \in Nat
      BY <1>10 DEF Load, PageTypeOK
    <3>3. QED BY <3>1, <3>2 DEF PageTypeOK
  <2>3. CallsTypeOK'
    BY <1>10 DEF Load, CallsTypeOK, TokensTypeOK
  <2>4. QED BY <2>1, <2>2, <2>3
<1>11. QED
  BY <1>1, <1>2, <1>3, <1>4, <1>5, <1>6, <1>7, <1>8, <1>9, <1>10
     DEF Next, CallStep, RefreshStep, Quiescent

\* The types of WebSession hold in every behaviour.
THEOREM SessionTyped ==
    ASSUME SessionAssumptions
    PROVE  Spec => []TypeOK
<1>1. Init => TypeOK
  BY InitTyped
<1>2. TypeOK /\ [Next]_vars => TypeOK'
  BY NextTyped
<1>3. QED
  BY <1>1, <1>2, PTL DEF Spec

-----------------------------------------------------------------------------
(* The session is the user's own.                                            *)

Own == LoadingAlone /\ PendingOwn /\ SessionConsistent

USE DEF Own

\* The numbers of pairs in use are those of pairs that have been issued.
LEMMA PairsIssued ==
    ASSUME TypeOK, SessionAssumptions
    PROVE  /\ stored \in Nat /\ refreshing \in Nat /\ Len(issued) \in Nat
           /\ stored # 0 => stored \in 1..Len(issued)
           /\ refreshing # 0 => refreshing \in 1..Len(issued)
           /\ call[Me].pair # 0 => call[Me].pair \in 1..Len(issued)
  BY DEF TokensTypeOK, CallsTypeOK, SessionAssumptions

\* What a call throws away is stored only if it was to fetch the user, and then
\* no refresh is pending.
LEMMA ThrowOwn ==
    ASSUME TypeOK, SessionAssumptions, Own, NEW c \in Slot, InFlight(c), Throw(c),
           UNCHANGED <<accounts, issued, expired, shown, refreshing, loads, crossed>>
    PROVE  Own'
<1>1. CASE c = Me
  <2>1. /\ stored' = 0 /\ loading' = FALSE /\ call'[Me] = Idle
        /\ \A x \in Calls : call'[x] = call[x]
    BY <1>1 DEF Throw, SessionAssumptions, CallsTypeOK, Me
  <2>2. ~crossed => refreshing = 0
    BY <1>1, <2>1 DEF PendingOwn
  <2>3. QED
    BY <2>1, <2>2 DEF LoadingAlone, PendingOwn, SessionConsistent
<1>2. CASE c \in Calls
  <2>1. ~loading
    BY <1>2 DEF LoadingAlone
  <2>2. /\ stored' = stored /\ loading' = loading /\ call'[Me] = call[Me]
    BY <1>2 DEF Throw, SessionAssumptions, CallsTypeOK, Me
  <2>3. QED
    BY <2>1, <2>2 DEF LoadingAlone, PendingOwn, SessionConsistent
<1>3. QED
  BY <1>1, <1>2

\* Every step keeps the session its user's own.
LEMMA NextOwn ==
    ASSUME TypeOK, SessionAssumptions, Own, [Next]_vars
    PROVE  Own'
<1>1. ASSUME NEW c \in Calls, Send(c) PROVE Own'
  <2>1. ~loading /\ UNCHANGED <<issued, stored, shown, loading, refreshing, crossed>>
    BY <1>1 DEF Send
  <2>2. call'[Me] = call[Me]
    BY <1>1 DEF Send, SessionAssumptions, CallsTypeOK, Me
  <2>3. QED
    BY <2>1, <2>2 DEF LoadingAlone, PendingOwn, SessionConsistent
<1>2. ASSUME NEW c \in Slot, Serve(c) PROVE Own'
  <2>1. /\ UNCHANGED <<issued, stored, shown, loading, refreshing, crossed>>
        /\ \A x \in Slot : call'[x].at = call[x].at /\ call'[x].pair = call[x].pair
        /\ call[c] # Idle /\ \A x \in Slot \ {c} : call'[x] = call[x]
    BY <1>2 DEF Serve, CallsTypeOK
  <2>2. loading => c = Me
    BY <2>1 DEF LoadingAlone
  <2>3. ~loading /\ ~crossed => c # Me
    BY <2>1 DEF PendingOwn
  <2>4. LoadingAlone'
    BY <2>1, <2>2 DEF LoadingAlone, SessionAssumptions, Me
  <2>5. PendingOwn'
    BY <2>1, <2>3 DEF PendingOwn
  <2>6. QED
    BY <2>1, <2>4, <2>5 DEF SessionConsistent
<1>3. ASSUME NEW c \in Slot, Succeed(c) PROVE Own'
  <2>1. CASE c = Me
    <3>1. /\ shown' = issued[call[Me].pair] /\ loading' = FALSE /\ call'[Me] = Idle
          /\ UNCHANGED <<issued, stored, refreshing, crossed>>
      BY <1>3, <2>1 DEF Succeed, CallsTypeOK
    <3>2. ~crossed => loading
      BY <1>3, <2>1 DEF Succeed, PendingOwn
    <3>3. QED
      BY <3>1, <3>2 DEF LoadingAlone, PendingOwn, SessionConsistent
  <2>2. CASE c \in Calls
    <3>1. ~loading
      BY <1>3, <2>2 DEF Succeed, LoadingAlone
    <3>2. UNCHANGED <<issued, stored, shown, loading, refreshing, crossed>> /\ call'[Me] = call[Me]
      BY <1>3, <2>2 DEF Succeed, CallsTypeOK, SessionAssumptions, Me
    <3>3. QED
      BY <3>1, <3>2 DEF LoadingAlone, PendingOwn, SessionConsistent
  <2>3. QED
    BY <2>1, <2>2
<1>4. ASSUME NEW c \in Slot, Fail(c) \/ GiveUp(c) \/ NothingToRefresh(c) PROVE Own'
  <2>1. InFlight(c) /\ Throw(c)
    BY <1>4 DEF Fail, GiveUp, NothingToRefresh
  <2>2. UNCHANGED <<accounts, issued, expired, shown, refreshing, loads, crossed>>
    BY <1>4 DEF Fail, GiveUp, NothingToRefresh
  <2>3. QED
    BY <2>1, <2>2, ThrowOwn
<1>5. ASSUME NEW c \in Slot, AwaitRefresh(c) PROVE Own'
  <2>1. /\ UNCHANGED <<issued, stored, shown, loading, crossed>>
        /\ refreshing' = IF refreshing # 0 THEN refreshing ELSE stored
        /\ call'[c].at = "waiting" /\ call'[c].pair = call[c].pair
        /\ call[c] # Idle /\ \A x \in Slot \ {c} : call'[x] = call[x]
    BY <1>5 DEF AwaitRefresh, CallsTypeOK
  <2>2. loading => c = Me
    BY <2>1 DEF LoadingAlone
  <2>3. ~loading /\ ~crossed => c # Me
    BY <2>1 DEF PendingOwn
  <2>4. LoadingAlone'
    BY <2>1, <2>2 DEF LoadingAlone, SessionAssumptions, Me
  <2>5. PendingOwn'
    BY <2>1, <2>2, <2>3 DEF PendingOwn
  <2>6. QED
    BY <2>1, <2>4, <2>5 DEF SessionConsistent
<1>6. ASSUME RefreshSucceeds PROVE Own'
  <2>1. refreshing \in 1..Len(issued) /\ issued[refreshing] \in Users
    BY <1>6, PairsIssued DEF RefreshSucceeds, TokensTypeOK
  <2>2. /\ issued'[Newest] = issued[refreshing]
        /\ \A n \in 1..Len(issued) : issued'[n] = issued[n]
        /\ Newest # 0
    BY <1>6, <2>1, Issuing, PairsIssued DEF RefreshSucceeds
  <2>3. /\ stored' = Newest /\ refreshing' = 0
        /\ UNCHANGED <<shown, loading, crossed>>
        /\ \A x \in Slot : call'[x] = IF call[x].at = "waiting" THEN Sent("second", Newest)
                                                                 ELSE call[x]
    BY <1>6 DEF RefreshSucceeds, Resumed
  <2>4. LoadingAlone'
    BY <2>3 DEF LoadingAlone
  <2>5. ~crossed => refreshing = stored
    BY <2>1 DEF PendingOwn
  <2>6. SessionConsistent'
    BY <2>1, <2>2, <2>3, <2>5 DEF SessionConsistent
  <2>7. ASSUME ~crossed, loading
        PROVE  /\ call'[Me].at # "idle" /\ call'[Me].pair # 0
               /\ issued'[call'[Me].pair] = issued'[stored']
    BY <2>1, <2>2, <2>3, <2>5, <2>7 DEF PendingOwn
  <2>8. ~crossed /\ ~loading => call'[Me] = Idle
    BY <2>3 DEF PendingOwn
  <2>9. PendingOwn'
    BY <2>2, <2>3, <2>7, <2>8 DEF PendingOwn
  <2>10. QED
    BY <2>4, <2>6, <2>9
<1>7. ASSUME RefreshFails PROVE Own'
  <2> DEFINE waiting == {c \in Slot : call[c].at = "waiting"}
  <2>1. /\ refreshing' = 0 /\ stored' = (IF waiting # {} THEN 0 ELSE stored)
        /\ loading' = (loading /\ Me \notin waiting)
        /\ \A x \in Slot : call'[x] = IF x \in waiting THEN Idle ELSE call[x]
        /\ UNCHANGED <<issued, shown, crossed>> /\ refreshing # 0
    BY <1>7 DEF RefreshFails
  <2>2. LoadingAlone'
    BY <2>1 DEF LoadingAlone
  <2>3. ~crossed /\ loading => Me \in waiting
    BY <2>1 DEF PendingOwn
  <2>4. ~crossed => ~loading' /\ call'[Me] = Idle
    BY <2>1, <2>3 DEF PendingOwn
  <2>5. PendingOwn'
    BY <2>1, <2>4 DEF PendingOwn
  <2>6. ~crossed /\ stored' # 0 => stored' = stored /\ ~loading
    BY <2>1, <2>3
  <2>7. SessionConsistent'
    BY <2>1, <2>6 DEF SessionConsistent
  <2>8. QED
    BY <2>2, <2>5, <2>7
<1>8. ASSUME NEW u \in Users, Login(u) \/ Register(u) PROVE Own'
  <2>1. SignIn(u)
    BY <1>8 DEF Login, Register
  <2>2. issued'[Newest] = u
    BY <2>1, Issuing DEF SignIn
  <2>3. /\ stored' = Newest /\ shown' = u /\ UNCHANGED <<loading, refreshing, call>>
        /\ ~crossed' => ~crossed /\ refreshing = 0 /\ call[Me] = Idle
    BY <2>1 DEF SignIn, Pending
  <2>4. ~crossed' => ~loading
    BY <2>3 DEF PendingOwn
  <2>5. QED
    BY <2>2, <2>3, <2>4 DEF LoadingAlone, PendingOwn, SessionConsistent
<1>9. ASSUME Logout PROVE Own'
  <2>1. /\ stored' = 0 /\ ~loading /\ UNCHANGED <<loading, refreshing, call>>
        /\ ~crossed' => refreshing = 0 /\ call[Me] = Idle
    BY <1>9 DEF Logout, Pending
  <2>2. QED
    BY <2>1 DEF LoadingAlone, PendingOwn, SessionConsistent
<1>10. ASSUME Load PROVE Own'
  <2>1. /\ loading' => stored # 0
        /\ ~loading' => stored = 0
    BY <1>10 DEF Load
  <2>2. /\ shown' = NoUser /\ refreshing' = 0 /\ UNCHANGED <<stored, issued>>
        /\ \A c \in Slot : call'[c] = IF c = Me /\ stored # 0 THEN Sent("first", stored) ELSE Idle
    BY <1>10 DEF Load
  <2>3. \A c \in Calls : c # Me
    BY SessionAssumptions DEF Me
  <2>4. LoadingAlone'
    BY <2>2, <2>3 DEF LoadingAlone
  <2>5. PendingOwn'
    BY <2>1, <2>2 DEF PendingOwn
  <2>6. SessionConsistent'
    BY <2>1, <2>2 DEF SessionConsistent
  <2>7. QED
    BY <2>4, <2>5, <2>6
<1>11. ASSUME Expire \/ UNCHANGED vars PROVE Own'
  <2>1. UNCHANGED <<issued, stored, shown, loading, refreshing, call, crossed>>
    BY <1>11 DEF Expire, vars
  <2>2. QED
    BY <2>1 DEF LoadingAlone, PendingOwn, SessionConsistent
<1>12. QED
  BY <1>1, <1>2, <1>3, <1>4, <1>5, <1>6, <1>7, <1>8, <1>9, <1>10, <1>11
     DEF Next, CallStep, RefreshStep, Quiescent

\* Tokens are only thrown away as TokensKept allows.
LEMMA StepKeepsTokens ==
    ASSUME TypeOK, SessionAssumptions, Own, [Next]_vars, ~crossed, stored # 0, stored' = 0
    PROVE  \/ shown # NoUser /\ shown' = NoUser
           \/ refreshing = stored /\ refreshing' = 0
           \/ loading /\ ~loading'
<1>1. CASE Logout
  BY <1>1 DEF Logout
<1>2. CASE RefreshFails
  BY <1>2 DEF RefreshFails, PendingOwn
<1>3. ASSUME NEW c \in Slot, Fail(c) \/ GiveUp(c) \/ NothingToRefresh(c)
      PROVE  loading /\ ~loading'
  <2>1. InFlight(c) /\ Throw(c)
    BY <1>3 DEF Fail, GiveUp, NothingToRefresh
  <2>2. c = Me /\ loading' = FALSE
    BY <2>1 DEF Throw
  <2>3. loading
    BY <2>1, <2>2 DEF PendingOwn
  <2>4. QED
    BY <2>2, <2>3
<1>4. CASE RefreshSucceeds \/ \E u \in Users : Login(u) \/ Register(u)
  <2>1. stored' = Newest /\ Len(issued) \in Nat
    BY <1>4, PairsIssued DEF RefreshSucceeds, Login, Register, SignIn
  <2>2. QED
    BY <2>1 DEF Newest
<1>5. CASE UNCHANGED stored
  BY <1>5
<1>6. ASSUME \/ \E c \in Calls : Send(c)
             \/ \E c \in Slot : Serve(c) \/ Succeed(c) \/ AwaitRefresh(c)
             \/ Expire \/ Load \/ UNCHANGED vars
      PROVE  UNCHANGED stored
  BY <1>6 DEF Send, Serve, Succeed, AwaitRefresh, Expire, Load, vars
<1>7. QED
  BY <1>1, <1>2, <1>3, <1>4, <1>5, <1>6 DEF Next, CallStep, RefreshStep, Quiescent

LEMMA InitOwn ==
    ASSUME SessionAssumptions
    PROVE  Init => Own
<1> SUFFICES ASSUME Init PROVE Own
  OBVIOUS
<1>1. call[Me] = Idle /\ refreshing = 0 /\ stored = 0 /\ loading = FALSE
  BY DEF Init
<1>2. QED
  BY <1>1 DEF LoadingAlone, PendingOwn, SessionConsistent

\* However many call, refresh, fail, reload and sign in and out, the tokens stored
\* are those of the user shown, until one signs in or out under a pending answer.
THEOREM SessionOwn ==
    ASSUME SessionAssumptions
    PROVE  Spec => []SessionConsistent
<1>1. Init => TypeOK /\ Own
  BY InitTyped, InitOwn
<1>2. TypeOK /\ Own /\ [Next]_vars => TypeOK' /\ Own'
  BY NextTyped, NextOwn
<1>3. TypeOK /\ Own => SessionConsistent
  OBVIOUS
<1>4. QED
  BY <1>1, <1>2, <1>3, PTL DEF Spec

\* However many calls share a refresh, AuthProvider and apiRequest throw stored
\* tokens away only on logout, when the refresh with them failed, and when the
\* user could not be fetched.
THEOREM SessionTokensKept ==
    ASSUME SessionAssumptions
    PROVE  Spec => TokensKept
<1> DEFINE Step == ~crossed /\ stored # 0 /\ stored' = 0 =>
                      \/ shown # NoUser /\ shown' = NoUser
                      \/ refreshing = stored /\ refreshing' = 0
                      \/ loading /\ ~loading'
<1>1. Init => TypeOK /\ Own
  BY InitTyped, InitOwn
<1>2. TypeOK /\ Own /\ [Next]_vars => TypeOK' /\ Own'
  BY NextTyped, NextOwn
<1>3. TypeOK /\ Own /\ [Next]_vars => [Step]_vars
  BY StepKeepsTokens
<1>4. QED
  BY <1>1, <1>2, <1>3, PTL DEF Spec, TokensKept

=============================================================================
