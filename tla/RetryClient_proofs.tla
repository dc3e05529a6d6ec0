------------------------- MODULE RetryClient_proofs -------------------------
(* Proofs about one call of the client, for any number of retries. *)
EXTENDS RetryClient, TLAPS

USE RetryAssumption

LEMMA RetryInit == Init => RetryInv
<1> SUFFICES ASSUME Init PROVE RetryInv
  OBVIOUS
<1>1. TypeOK
  <2>1. pc \in Phases /\ result \in Results /\ cred \in Creds \cup {NoCred}
        /\ resp \in Statuses \cup {"none"} /\ closed \in BOOLEAN
    BY DEF Init, Phases, Results
  <2>2. call \in Calls /\ attempt \in Nat /\ objects \in Nat /\ created \in Nat
        /\ sends \in Nat /\ lost \in Nat
    BY DEF Init
  <2> QED BY <2>1, <2>2 DEF TypeOK
<1>2. Counted /\ DuplicatesNeedLoss /\ BoundedSends
  BY DEF Init, Counted, DuplicatesNeedLoss, BoundedSends
<1>3. Honest
  BY DEF Init, Honest, SuccessMeansDone
<1> QED BY <1>1, <1>2, <1>3 DEF RetryInv

(* What a server that is handed a request does to its objects. *)
LEMMA Served ==
    ASSUME TypeOK, NEW c \in Creds, NEW status \in Statuses, ServerHandles(c, status)
    PROVE  /\ objects' \in Nat /\ created' \in Nat /\ sends' = sends + 1
           /\ created' \in {created, created + 1}
           /\ status \in {"429", "denied"} => created' = created
           /\ call.method = "DELETE" =>
                 /\ objects' <= objects
                 /\ objects <= 1 /\ status \in {"2xx", "404"} => objects' = 0
           /\ call.method = "POST" /\ status = "2xx" => created' = created + 1
<1>1. CASE objects' = objects /\ status \in {"429", "other", "denied"}
  BY <1>1 DEF ServerHandles, TypeOK
<1>2. CASE status \in {Executed.status, "other"} /\ objects' = Executed.objects
  <2>1. call.method \in {"GET", "POST", "PUT", "DELETE"}
    BY DEF TypeOK, Calls, Methods
  <2>2. CASE call.method = "POST"
    BY <1>2, <2>2 DEF ServerHandles, TypeOK, Executed
  <2>3. CASE call.method = "DELETE" /\ objects > 0
    BY <1>2, <2>3 DEF ServerHandles, TypeOK, Executed
  <2>4. CASE call.method # "POST" /\ ~(call.method = "DELETE" /\ objects > 0)
    BY <1>2, <2>1, <2>4 DEF ServerHandles, TypeOK, Executed
  <2> QED BY <2>2, <2>3, <2>4
<1> QED BY <1>1, <1>2 DEF ServerHandles

LEMMA RetryNext == RetryInv /\ [Next]_vars => RetryInv'
<1> SUFFICES ASSUME RetryInv, [Next]_vars PROVE RetryInv'
  OBVIOUS
<1> USE DEF RetryInv
<1>1. CASE Build
  <2>1. TypeOK'
    BY <1>1 DEF Build, Return, TypeOK, Phases, Results, Credential, Creds, server
  <2>2. (Counted /\ DuplicatesNeedLoss /\ BoundedSends)'
    BY <1>1 DEF Build, Return, TypeOK, Counted, DuplicatesNeedLoss, BoundedSends, server
  <2>3. Honest'
    BY <1>1 DEF Build, Return, Honest, SuccessMeansDone, server
  <2> QED BY <2>1, <2>2, <2>3
<1>2. CASE Do
  <2>1. cred \in Creds
    BY <1>2 DEF Do, TypeOK, Counted
  <2>2. PICK status \in Statuses : ServerHandles(cred, status) /\ resp' = status
    BY <1>2 DEF Do
  <2>3. TypeOK'
    <3>1. pc' \in Phases
      BY <1>2 DEF Do, Phases
    <3>2. objects' \in Nat /\ created' \in Nat /\ sends' \in Nat
      BY <2>1, <2>2, Served DEF TypeOK
    <3>3. /\ resp' \in Statuses \cup {"none"} /\ closed' \in BOOLEAN
          /\ UNCHANGED <<call, attempt, cred, result, lost>>
      BY <1>2, <2>2 DEF Do
    <3> QED BY <3>1, <3>2, <3>3 DEF TypeOK
  <2>4. (Counted /\ DuplicatesNeedLoss /\ BoundedSends)'
    BY <1>2, <2>1, <2>2, Served DEF Do, TypeOK, Counted, DuplicatesNeedLoss, BoundedSends
  <2>5. Honest'
    BY <1>2, <2>1, <2>2, Served DEF Do, Honest, SuccessMeansDone, TypeOK
  <2> QED BY <2>3, <2>4, <2>5
<1>3. CASE DoFails
  <2>1. cred \in Creds
    BY <1>3 DEF DoFails, TypeOK, Counted
  <2>2. /\ sends' = sends + 1 /\ objects' \in Nat /\ created' \in Nat /\ lost' \in Nat
        /\ created' <= lost'
        /\ call.method = "DELETE" => objects' <= objects
    <3>1. CASE UNCHANGED <<objects, created, lost>> /\ sends' = sends + 1
      BY <1>3, <3>1 DEF DoFails, TypeOK, Counted
    <3>2. ASSUME NEW status \in Statuses, ServerHandles(cred, status), lost' = lost + 1
          PROVE  /\ sends' = sends + 1 /\ objects' \in Nat /\ created' \in Nat
                 /\ lost' \in Nat /\ created' <= lost'
                 /\ call.method = "DELETE" => objects' <= objects
      BY <1>3, <2>1, <3>2, Served DEF DoFails, TypeOK, Counted
    <3> QED BY <1>3, <3>1, <3>2 DEF DoFails
  <2>3. TypeOK'
    <3>1. pc' \in Phases
      BY <1>3 DEF DoFails, Retry, Phases
    <3>2. /\ resp' \in Statuses \cup {"none"} /\ closed' \in BOOLEAN
          /\ UNCHANGED <<call, cred, result>>
      BY <1>3 DEF DoFails
    <3>3. attempt' \in Nat /\ sends' \in Nat
      BY <1>3, <2>2 DEF DoFails, Retry, TypeOK
    <3> QED BY <2>2, <3>1, <3>2, <3>3 DEF TypeOK
  <2>4. (Counted /\ DuplicatesNeedLoss /\ BoundedSends)'
    <3>1. attempt <= MaxRetries /\ sends <= attempt
      BY <1>3 DEF DoFails, Counted
    <3>2. pc' = "build" /\ attempt' = attempt + 1
      BY <1>3 DEF DoFails, Retry
    <3>3. attempt' <= MaxRetries + 1 /\ sends' <= attempt' /\ sends' <= MaxRetries + 2
      <4>1. attempt \in Nat /\ sends \in Nat /\ MaxRetries \in Nat
        BY DEF TypeOK
      <4>2. sends' = sends + 1
        BY <2>2
      <4> QED BY <3>1, <3>2, <4>1, <4>2
    <3>4. created' <= lost' + 1
      <4>1. created' \in Nat /\ lost' \in Nat /\ created' <= lost'
        BY <2>2
      <4>2. \A a, b \in Nat : a <= b => a <= b + 1
        OBVIOUS
      <4> QED BY <4>1, <4>2
    <3> QED BY <2>2, <3>2, <3>3, <3>4 DEF Counted, DuplicatesNeedLoss, BoundedSends
  <2>5. Honest'
    BY <1>3, <2>2 DEF DoFails, Retry, Honest, SuccessMeansDone, TypeOK
  <2> QED BY <2>3, <2>4, <2>5
<1>4. CASE Throttled
  <2>1. TypeOK'
    BY <1>4 DEF Throttled, Retry, Return, TypeOK, Phases, Results, server
  <2>2. (Counted /\ DuplicatesNeedLoss /\ BoundedSends)'
    BY <1>4 DEF Throttled, Retry, Return, TypeOK, Counted, DuplicatesNeedLoss, BoundedSends, server
  <2>3. Honest'
    BY <1>4 DEF Throttled, Retry, Return, Honest, SuccessMeansDone, server
  <2> QED BY <2>1, <2>2, <2>3
<1>5. CASE Answered
  <2>1. TypeOK'
    BY <1>5 DEF Answered, TypeOK, Phases, server
  <2>2. (Counted /\ DuplicatesNeedLoss /\ BoundedSends)'
    BY <1>5 DEF Answered, FallsBack, TypeOK, Counted, DuplicatesNeedLoss, BoundedSends, server
  <2>3. Honest'
    BY <1>5 DEF Answered, FallsBack, Honest, SuccessMeansDone, server
  <2> QED BY <2>1, <2>2, <2>3
<1>6. CASE Fallback
  <2>1. "apiToken" \in Creds
    BY DEF Creds
  <2>2. CASE \E status \in Statuses : ServerHandles("apiToken", status) /\ resp' = status
                                    /\ UNCHANGED lost
    <3>1. PICK status \in Statuses : ServerHandles("apiToken", status) /\ resp' = status
                                    /\ UNCHANGED lost
      BY <2>2
    <3>2. TypeOK'
      BY <1>6, <2>1, <3>1, Served DEF Fallback, TypeOK, Phases
    <3>3. (Counted /\ DuplicatesNeedLoss /\ BoundedSends)'
      BY <1>6, <2>1, <3>1, Served
      DEF Fallback, TypeOK, Counted, DuplicatesNeedLoss, BoundedSends
    <3>4. Honest'
      BY <1>6, <2>1, <3>1, Served DEF Fallback, Honest, SuccessMeansDone, TypeOK
    <3> QED BY <3>2, <3>3, <3>4
  <2>3. CASE sends' = sends + 1 /\ UNCHANGED <<objects, created, lost, resp>>
    <3>1. TypeOK'
      BY <1>6, <2>1, <2>3 DEF Fallback, TypeOK, Phases
    <3>2. (Counted /\ DuplicatesNeedLoss /\ BoundedSends)'
      BY <1>6, <2>3 DEF Fallback, TypeOK, Counted, DuplicatesNeedLoss, BoundedSends
    <3>3. Honest'
      BY <1>6, <2>3 DEF Fallback, Honest, SuccessMeansDone
    <3> QED BY <3>1, <3>2, <3>3
  <2>4. ASSUME NEW status \in Statuses, ServerHandles("apiToken", status),
               lost' = lost + 1, UNCHANGED resp
        PROVE  RetryInv'
    <3>1. TypeOK'
      BY <1>6, <2>1, <2>4, Served DEF Fallback, TypeOK, Phases
    <3>2. (Counted /\ DuplicatesNeedLoss /\ BoundedSends)'
      BY <1>6, <2>1, <2>4, Served
      DEF Fallback, TypeOK, Counted, DuplicatesNeedLoss, BoundedSends
    <3>3. Honest'
      BY <1>6, <2>1, <2>4, Served DEF Fallback, Honest, SuccessMeansDone, TypeOK
    <3> QED BY <3>1, <3>2, <3>3
  <2> QED BY <1>6, <2>2, <2>3, <2>4 DEF Fallback
<1>7. CASE GiveUp
  <2>1. TypeOK'
    BY <1>7 DEF GiveUp, Return, TypeOK, Phases, Results, server
  <2>2. (Counted /\ DuplicatesNeedLoss /\ BoundedSends)'
    BY <1>7 DEF GiveUp, Return, TypeOK, Counted, DuplicatesNeedLoss, BoundedSends, server
  <2>3. Honest'
    BY <1>7 DEF GiveUp, Return, Honest, SuccessMeansDone, server
  <2> QED BY <2>1, <2>2, <2>3
<1>8. CASE Read
  <2>1. TypeOK'
    BY <1>8 DEF Read, Return, Verdict, TypeOK, Phases, Statuses, Results, server
  <2>2. (Counted /\ DuplicatesNeedLoss /\ BoundedSends)'
    BY <1>8 DEF Read, Return, TypeOK, Counted, DuplicatesNeedLoss, BoundedSends, server
  <2>3. Honest'
    BY <1>8 DEF Read, Return, Verdict, Honest, SuccessMeansDone, TypeOK, Statuses, server
  <2> QED BY <2>1, <2>2, <2>3
<1>9. CASE UNCHANGED vars
  BY <1>9 DEF vars, server, TypeOK, Counted, Honest, SuccessMeansDone,
              DuplicatesNeedLoss, BoundedSends
<1> QED BY <1>1, <1>2, <1>3, <1>4, <1>5, <1>6, <1>7, <1>8, <1>9 DEF Next

(* What the call returns, sends and makes is as the inductive invariant says,
   however many retries the client allows.                                 *)
THEOREM RetryInvariant == Spec => []RetryInv
BY RetryInit, RetryNext, PTL DEF Spec

(* One call sends at most one request per attempt and one for the fallback:
   the loops of executeWithRetry and doEnvRequest end.                     *)
THEOREM SendsAreBounded == Spec => []BoundedSends
<1>1. RetryInv => BoundedSends
  BY DEF RetryInv
<1> QED BY <1>1, RetryInvariant, PTL

(* A POST is executed again only after its reply was lost. *)
THEOREM DuplicatesComeFromLoss == Spec => []DuplicatesNeedLoss
<1>1. RetryInv => DuplicatesNeedLoss
  BY DEF RetryInv
<1> QED BY <1>1, RetryInvariant, PTL

(* A DELETE that returns no error or a 404 leaves nothing, and a POST that
   returns no error has made something, whatever was retried in between.   *)
THEOREM SuccessIsHonest == Spec => []SuccessMeansDone
<1>1. RetryInv => SuccessMeansDone
  BY DEF RetryInv, Honest
<1> QED BY <1>1, RetryInvariant, PTL
=============================================================================
