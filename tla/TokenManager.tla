---------------------------- MODULE TokenManager ----------------------------
(***************************************************************************)
(* internal/clients/dynatrace/oauth.go: the OAuth token cache behind every *)
(* IAM request.  GetToken looks under the read lock, looks again under the *)
(* write lock, and fetches a new token while it holds it.                  *)
(*                                                                         *)
(* What is checked is the contract of the class.  In this program every    *)
(* Connect makes a client and a token manager of its own                   *)
(* (connector.go:115), so one goroutine uses it and the lock is never      *)
(* contended; HitsAreValid matters for one caller as for many.             *)
(*                                                                         *)
(* Time advances in steps of a unit the configuration chooses; a request   *)
(* may take up to the HTTP client's Timeout, which covers the whole        *)
(* exchange.  sync.RWMutex is external: a writer that announced itself     *)
(* keeps new readers out and waits for the present ones.                   *)
(***************************************************************************)
EXTENDS Integers

CONSTANTS
    Callers,      \* goroutines that share the token manager
    None,         \* no token, no holder
    Margin,       \* subtracted from a token's lifetime (30 s)
    Timeout,      \* of the token manager's HTTP client (30 s)
    DefaultLife,  \* lifetime of a token whose reply names none (300 s)
    Lifetimes,    \* the expires_in values the server may reply with
    MaxTime       \* bound on the clock

Times  == 0 .. MaxTime
Tokens == [validUntil : Int, expiresAt : Int]
Replies == [validUntil : Int, expiresIn : Lifetimes]
Phases == {"out", "rlock", "rcheck", "lock", "drain", "wcheck", "fetch", "reply"}

(* Timeout <= Margin is what makes the cache safe: see HitsAreValid. *)
ASSUME TokenAssumption ==
    /\ None \notin Callers \cup Tokens \cup Replies
    /\ Margin \in Nat /\ Timeout \in Nat /\ Timeout <= Margin
    /\ DefaultLife \in Nat
    /\ Lifetimes \subseteq Int
    /\ MaxTime \in Nat

VARIABLES
    now,
    pc,       \* per caller, where it is in GetToken
    readers,  \* the callers that hold the read lock
    writer,   \* the caller that holds the write lock, or waits for readers
    cached,   \* the token manager's cachedToken
    sent,     \* per caller, when it sent its token request
    reply     \* per caller, the server's answer on its way

vars == <<now, pc, readers, writer, cached, sent, reply>>

TypeOK ==
    /\ now \in Times
    /\ pc \in [Callers -> Phases]
    /\ readers \in SUBSET Callers
    /\ writer \in Callers \cup {None}
    /\ cached \in Tokens \cup {None}
    /\ sent \in [Callers -> Times]
    /\ reply \in [Callers -> Replies \cup {None}]

Init ==
    /\ now = 0
    /\ pc = [c \in Callers |-> "out"]
    /\ readers = {}
    /\ writer = None
    /\ cached = None
    /\ sent = [c \in Callers |-> 0]
    /\ reply = [c \in Callers |-> None]

-----------------------------------------------------------------------------

Goto(c, phase) == pc' = [pc EXCEPT ![c] = phase]

Fresh == cached # None /\ now < cached.expiresAt

Call(c) ==
    /\ pc[c] = "out"
    /\ Goto(c, "rlock")
    /\ UNCHANGED <<now, readers, writer, cached, sent, reply>>

RLock(c) ==
    /\ pc[c] = "rlock"
    /\ writer = None
    /\ readers' = readers \cup {c}
    /\ Goto(c, "rcheck")
    /\ UNCHANGED <<now, writer, cached, sent, reply>>

(* Mutant: a miss goes on to fetch without taking the write lock. *)
CheckAndFetch(c) ==
    /\ pc[c] = "rcheck"
    /\ readers' = readers \ {c}
    /\ Goto(c, IF Fresh THEN "out" ELSE "fetch")
    /\ sent' = [sent EXCEPT ![c] = now]
    /\ UNCHANGED <<now, writer, cached, reply>>

(* The first check; either way the read lock is released. *)
Check(c) ==
    /\ pc[c] = "rcheck"
    /\ readers' = readers \ {c}
    /\ Goto(c, IF Fresh THEN "out" ELSE "lock")
    /\ UNCHANGED <<now, writer, cached, sent, reply>>

Announce(c) ==
    /\ pc[c] = "lock"
    /\ writer = None
    /\ writer' = c
    /\ Goto(c, "drain")
    /\ UNCHANGED <<now, readers, cached, sent, reply>>

Lock(c) ==
    /\ pc[c] = "drain"
    /\ readers = {}
    /\ Goto(c, "wcheck")
    /\ UNCHANGED <<now, readers, writer, cached, sent, reply>>

(* Mutant: nobody looks again under the write lock. *)
NoRecheck(c) ==
    /\ pc[c] = "wcheck"
    /\ Goto(c, "fetch")
    /\ sent' = [sent EXCEPT ![c] = now]
    /\ UNCHANGED <<now, readers, writer, cached, reply>>

(* The second check: another writer may have fetched meanwhile. *)
Recheck(c) ==
    /\ pc[c] = "wcheck"
    /\ IF Fresh
       THEN Goto(c, "out") /\ writer' = None /\ UNCHANGED sent
       ELSE /\ Goto(c, "fetch")
            /\ sent' = [sent EXCEPT ![c] = now]
            /\ UNCHANGED writer
    /\ UNCHANGED <<now, readers, cached, reply>>

Life(expiresIn) == IF expiresIn <= 0 THEN DefaultLife ELSE expiresIn

(* The server issues a token.  One that names no lifetime is taken to grant
   the documented default.                                                 *)
Issue(c) ==
    /\ pc[c] = "fetch"
    /\ \E e \in Lifetimes :
          reply' = [reply EXCEPT ![c] = [validUntil |-> now + Life(e), expiresIn |-> e]]
    /\ Goto(c, "reply")
    /\ UNCHANGED <<now, readers, writer, cached, sent>>

(* Mutant: the token is cached for its whole lifetime. *)
ExpiryNoMargin(expiresIn) == now + Life(expiresIn)

Expiry(expiresIn) == now + Life(expiresIn) - Margin

(* The reply is read: the token is cached and returned. *)
Receive(c) ==
    /\ pc[c] = "reply"
    /\ cached' = [validUntil |-> reply[c].validUntil, expiresAt |-> Expiry(reply[c].expiresIn)]
    /\ writer' = None
    /\ reply' = [reply EXCEPT ![c] = None]
    /\ Goto(c, "out")
    /\ UNCHANGED <<now, readers, sent>>

(* Mutant: a failed request is repeated until it succeeds, lock in hand. *)
FailRepeats(c) ==
    /\ pc[c] \in {"fetch", "reply"}
    /\ reply' = [reply EXCEPT ![c] = None]
    /\ sent' = [sent EXCEPT ![c] = now]
    /\ Goto(c, "fetch")
    /\ UNCHANGED <<now, readers, writer, cached>>

(* A transport error, a status other than 2xx, or a body without a token:
   the caller gets the error and the cache stays as it is.                 *)
Fail(c) ==
    /\ pc[c] \in {"fetch", "reply"}
    /\ writer' = None
    /\ reply' = [reply EXCEPT ![c] = None]
    /\ Goto(c, "out")
    /\ UNCHANGED <<now, readers, cached, sent>>

(* Time passes, though never beyond the timeout of a request in flight. *)
Tick ==
    /\ now < MaxTime
    /\ \A c \in Callers : pc[c] \in {"fetch", "reply"} => now < sent[c] + Timeout
    /\ now' = now + 1
    /\ UNCHANGED <<pc, readers, writer, cached, sent, reply>>

-----------------------------------------------------------------------------

Run(c) == Check(c) \/ Lock(c) \/ Recheck(c) \/ Issue(c) \/ Receive(c) \/ Fail(c)

Next ==
    \/ Tick
    \/ \E c \in Callers : Call(c) \/ RLock(c) \/ Announce(c) \/ Run(c)

Spec == Init /\ [][Next]_vars

(* Goroutines are scheduled, requests end by their timeout, and the mutex
   does not starve who waits for it: sync.Mutex hands over to the oldest
   waiter, and a released writer lets the waiting readers in first.        *)
FairSpec == Spec /\ \A c \in Callers : /\ WF_vars(Run(c))
                                       /\ SF_vars(RLock(c)) /\ SF_vars(Announce(c))

-----------------------------------------------------------------------------

Writing(c) == pc[c] \in {"wcheck", "fetch", "reply"}

(* Only the holder of the write lock touches cachedToken: no other caller
   reads it or fetches meanwhile.                                          *)
CacheExclusive ==
    \A c, d \in Callers : Writing(c) /\ c # d => ~Writing(d) /\ pc[d] # "rcheck"

(* What GetToken returns from the cache is a token the server still honours:
   expires_in counts from when the token was issued, the cache counts from
   when the reply was read, and the margin outlasts any reply's delay.     *)
HitsAreValid ==
    [][\A c \in Callers : pc[c] \in {"rcheck", "wcheck"} /\ pc'[c] = "out"
                            => cached # None /\ now < cached.validUntil]_vars

(* A burst of callers that all miss costs one fetch: who waited for the lock
   while another fetched does not fetch again.                             *)
NoWastedFetch ==
    [][\A c \in Callers : pc[c] # "fetch" /\ pc'[c] = "fetch" => ~Fresh]_vars

(* Every call returns, with a token or an error. *)
EveryCallReturns == \A c \in Callers : pc[c] # "out" ~> pc[c] = "out"

-----------------------------------------------------------------------------
(* The inductive invariant.                                                *)

LockState ==
    /\ readers = {c \in Callers : pc[c] = "rcheck"}
    /\ \A c \in Callers : writer = c <=> Writing(c) \/ pc[c] = "drain"
    /\ \A c \in Callers : Writing(c) => readers = {}

(* A request in flight is younger than the timeout, and its token was issued
   no earlier than it was sent.                                            *)
InFlight ==
    \A c \in Callers :
        /\ pc[c] \in {"fetch", "reply"} => sent[c] <= now /\ now <= sent[c] + Timeout
        /\ pc[c] = "reply" => /\ reply[c] # None
                              /\ reply[c].validUntil >= sent[c] + Life(reply[c].expiresIn)

(* The cache gives a token up before the server does. *)
CacheConservative == cached # None => cached.expiresAt <= cached.validUntil

TokenInv == TypeOK /\ LockState /\ InFlight /\ CacheConservative
=============================================================================
