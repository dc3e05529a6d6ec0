------------------------- MODULE TokenManager_proofs -------------------------
(* Proofs about the token cache, for any number of callers and any clock.   *)
EXTENDS TokenManager, TLAPS

USE TokenAssumption

LEMMA Granted == \A e \in Lifetimes : Life(e) \in Int
BY DEF Life

LEMMA TokenInit == Init => TokenInv
BY DEF Init, TokenInv, TypeOK, LockState, InFlight, CacheConservative, Writing, Times, Phases

LEMMA TokenNext == TokenInv /\ [Next]_vars => TokenInv'
<1> SUFFICES ASSUME TokenInv, [Next]_vars PROVE TokenInv'
  OBVIOUS
<1> USE DEF TokenInv, Goto
<1>1. ASSUME NEW c \in Callers, Call(c) PROVE TokenInv'
  <2>1. TypeOK'
    BY <1>1 DEF Call, TypeOK, Phases
  <2>2. LockState'
    BY <1>1 DEF Call, TypeOK, LockState, Writing
  <2>3. InFlight' /\ CacheConservative'
    BY <1>1 DEF Call, TypeOK, InFlight, CacheConservative
  <2> QED BY <2>1, <2>2, <2>3
<1>2. ASSUME NEW c \in Callers, RLock(c) PROVE TokenInv'
  <2>1. TypeOK'
    BY <1>2 DEF RLock, TypeOK, Phases
  <2>2. LockState'
    BY <1>2 DEF RLock, TypeOK, LockState, Writing
  <2>3. InFlight' /\ CacheConservative'
    BY <1>2 DEF RLock, TypeOK, InFlight, CacheConservative
  <2> QED BY <2>1, <2>2, <2>3
<1>3. ASSUME NEW c \in Callers, Check(c) PROVE TokenInv'
  <2>1. TypeOK'
    BY <1>3 DEF Check, TypeOK, Phases
  <2>2. LockState'
    BY <1>3 DEF Check, TypeOK, LockState, Writing
  <2>3. InFlight' /\ CacheConservative'
    BY <1>3 DEF Check, TypeOK, InFlight, CacheConservative
  <2> QED BY <2>1, <2>2, <2>3
<1>4. ASSUME NEW c \in Callers, Announce(c) PROVE TokenInv'
  <2>1. TypeOK'
    BY <1>4 DEF Announce, TypeOK, Phases
  <2>2. LockState'
    BY <1>4 DEF Announce, TypeOK, LockState, Writing
  <2>3. InFlight' /\ CacheConservative'
    BY <1>4 DEF Announce, TypeOK, InFlight, CacheConservative
  <2> QED BY <2>1, <2>2, <2>3
<1>5. ASSUME NEW c \in Callers, Lock(c) PROVE TokenInv'
  <2>1. TypeOK'
    BY <1>5 DEF Lock, TypeOK, Phases
  <2>2. LockState'
    BY <1>5 DEF Lock, TypeOK, LockState, Writing
  <2>3. InFlight' /\ CacheConservative'
    BY <1>5 DEF Lock, TypeOK, InFlight, CacheConservative
  <2> QED BY <2>1, <2>2, <2>3
<1>6. ASSUME NEW c \in Callers, Recheck(c) PROVE TokenInv'
  <2>1. TypeOK'
    BY <1>6 DEF Recheck, TypeOK, Phases
  <2>2. LockState'
    BY <1>6 DEF Recheck, TypeOK, LockState, Writing
  <2>3. InFlight' /\ CacheConservative'
    BY <1>6 DEF Recheck, TypeOK, InFlight, CacheConservative, Times
  <2> QED BY <2>1, <2>2, <2>3
<1>7. ASSUME NEW c \in Callers, Issue(c) PROVE TokenInv'
  <2>1. PICK e \in Lifetimes :
           reply' = [reply EXCEPT ![c] = [validUntil |-> now + Life(e), expiresIn |-> e]]
    BY <1>7 DEF Issue
  <2>2. [validUntil |-> now + Life(e), expiresIn |-> e] \in Replies
    BY Granted DEF TypeOK, Times, Replies
  <2>3. TypeOK'
    BY <1>7, <2>1, <2>2 DEF Issue, TypeOK, Phases
  <2>4. LockState'
    BY <1>7 DEF Issue, TypeOK, LockState, Writing
  <2>5. InFlight'
    BY <1>7, <2>1, <2>2, Granted DEF Issue, TypeOK, InFlight, Times
  <2>6. CacheConservative'
    BY <1>7 DEF Issue, CacheConservative
  <2> QED BY <2>3, <2>4, <2>5, <2>6
<1>8. ASSUME NEW c \in Callers, Receive(c) PROVE TokenInv'
  <2> DEFINE token == [validUntil |-> reply[c].validUntil,
                       expiresAt |-> Expiry(reply[c].expiresIn)]
  <2>1. reply[c] \in Replies /\ reply[c].validUntil \in Int /\ Life(reply[c].expiresIn) \in Int
    BY <1>8, Granted DEF Receive, InFlight, TypeOK, Replies
  <2>2. token.expiresAt <= token.validUntil
    BY <1>8, <2>1 DEF Receive, InFlight, TypeOK, Times, Expiry
  <2>3. token \in Tokens
    BY <2>1 DEF Expiry, TypeOK, Times, Tokens
  <2>4. cached' = token
    BY <1>8 DEF Receive
  <2> HIDE DEF token
  <2>5. TypeOK'
    BY <1>8, <2>3, <2>4 DEF Receive, TypeOK, Phases
  <2>6. LockState'
    BY <1>8 DEF Receive, TypeOK, LockState, Writing
  <2>7. InFlight'
    BY <1>8 DEF Receive, TypeOK, InFlight
  <2>8. CacheConservative'
    BY <2>2, <2>4 DEF CacheConservative
  <2> QED BY <2>5, <2>6, <2>7, <2>8
<1>9. ASSUME NEW c \in Callers, Fail(c) PROVE TokenInv'
  <2>1. TypeOK'
    BY <1>9 DEF Fail, TypeOK, Phases
  <2>2. LockState'
    BY <1>9 DEF Fail, TypeOK, LockState, Writing
  <2>3. InFlight' /\ CacheConservative'
    BY <1>9 DEF Fail, TypeOK, InFlight, CacheConservative
  <2> QED BY <2>1, <2>2, <2>3
<1>10. CASE Tick
  <2>1. TypeOK'
    BY <1>10 DEF Tick, TypeOK, Times
  <2>2. LockState' /\ CacheConservative'
    BY <1>10 DEF Tick, LockState, CacheConservative, Writing
  <2>3. InFlight'
    BY <1>10 DEF Tick, InFlight, TypeOK, Times
  <2> QED BY <2>1, <2>2, <2>3
<1>11. CASE UNCHANGED vars
  BY <1>11 DEF vars, TypeOK, LockState, InFlight, CacheConservative, Writing
<1> QED
  BY <1>1, <1>2, <1>3, <1>4, <1>5, <1>6, <1>7, <1>8, <1>9, <1>10, <1>11 DEF Next, Run

THEOREM TokenInvariant == Spec => []TokenInv
BY TokenInit, TokenNext, PTL DEF Spec

(* Only the holder of the write lock reads or replaces the cached token. *)
THEOREM CacheIsExclusive == Spec => []CacheExclusive
<1>1. TokenInv => CacheExclusive
  BY DEF TokenInv, LockState, CacheExclusive, Writing
<1> QED BY <1>1, TokenInvariant, PTL

(* GetToken never returns a cached token that the server has expired, because
   no reply takes longer than the margin.                                  *)
THEOREM CachedTokensAreValid == Spec => HitsAreValid
<1>1. ASSUME TokenInv, [Next]_vars, NEW c \in Callers,
             pc[c] \in {"rcheck", "wcheck"}, pc'[c] = "out"
      PROVE  Fresh
  <2>1. ASSUME NEW d \in Callers, Check(d) PROVE Fresh
    BY <1>1, <2>1 DEF Check, Goto, TokenInv, TypeOK
  <2>2. ASSUME NEW d \in Callers, Recheck(d) PROVE Fresh
    BY <1>1, <2>2 DEF Recheck, Goto, TokenInv, TypeOK
  <2>3. ASSUME NEW d \in Callers, \/ Call(d) \/ RLock(d) \/ Announce(d) \/ Lock(d)
                                  \/ Issue(d) \/ Receive(d) \/ Fail(d)
        PROVE  FALSE
    BY <1>1, <2>3 DEF Call, RLock, Announce, Lock, Issue, Receive, Fail, Goto, TokenInv, TypeOK
  <2>4. CASE Tick \/ UNCHANGED vars
    BY <1>1, <2>4 DEF Tick, vars
  <2> QED BY <1>1, <2>1, <2>2, <2>3, <2>4 DEF Next, Run
<1>2. TokenInv /\ Fresh => cached # None /\ now < cached.validUntil
  <2> SUFFICES ASSUME TokenInv, Fresh PROVE cached # None /\ now < cached.validUntil
    OBVIOUS
  <2>1. /\ cached \in Tokens /\ now \in Int
        /\ now < cached.expiresAt /\ cached.expiresAt <= cached.validUntil
    BY DEF TokenInv, Fresh, CacheConservative, TypeOK, Times
  <2> QED BY <2>1 DEF Fresh, Tokens
<1>3. TokenInv /\ [Next]_vars =>
        [\A c \in Callers : pc[c] \in {"rcheck", "wcheck"} /\ pc'[c] = "out"
                               => cached # None /\ now < cached.validUntil]_vars
  BY <1>1, <1>2
<1> QED BY <1>3, TokenInvariant, PTL DEF Spec, HitsAreValid
(* A caller that waited for the write lock while another fetched does not fetch
   again: it goes on to a request only when the cache, under that lock, has no
   token left to return.                                                   *)
THEOREM FetchesAreNeeded == Spec => NoWastedFetch
<1>1. ASSUME TokenInv, [Next]_vars, NEW c \in Callers, pc[c] # "fetch", pc'[c] = "fetch"
      PROVE  ~Fresh
  <2>1. ASSUME NEW d \in Callers, Recheck(d) PROVE ~Fresh
    BY <1>1, <2>1 DEF Recheck, Goto, TokenInv, TypeOK
  <2>2. ASSUME NEW d \in Callers, \/ Call(d) \/ RLock(d) \/ Check(d) \/ Announce(d) \/ Lock(d)
                                  \/ Issue(d) \/ Receive(d) \/ Fail(d)
        PROVE  FALSE
    BY <1>1, <2>2
    DEF Call, RLock, Check, Announce, Lock, Issue, Receive, Fail, Goto, TokenInv, TypeOK
  <2>3. CASE Tick \/ UNCHANGED vars
    BY <1>1, <2>3 DEF Tick, vars
  <2> QED BY <1>1, <2>1, <2>2, <2>3 DEF Next, Run
<1>2. TokenInv /\ [Next]_vars =>
        [\A c \in Callers : pc[c] # "fetch" /\ pc'[c] = "fetch" => ~Fresh]_vars
  BY <1>1
<1> QED BY <1>2, TokenInvariant, PTL DEF Spec, NoWastedFetch
=============================================================================
