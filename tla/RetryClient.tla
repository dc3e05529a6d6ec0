---------------------------- MODULE RetryClient ----------------------------
(***************************************************************************)
(* internal/clients/dynatrace/client.go: one call of doRequest (the account *)
(* API) or doEnvRequest (the environment API) against a server that may    *)
(* refuse, throttle or execute what it is sent, over a network that may    *)
(* lose the request or the reply.  Both repeat a request that got no reply *)
(* whatever its method, and wait after a 429; only the environment API has *)
(* a second credential to fall back on.                                    *)
(*                                                                         *)
(* Waiting and sleeping take no time here: what matters is what they are   *)
(* followed by.  The credentials' contents, the path and the payload are   *)
(* left out, and with them the calls refused before the loop starts (no    *)
(* environment URL, a payload that does not marshal).                      *)
(***************************************************************************)
EXTENDS Naturals

CONSTANTS
    MaxRetries,  \* maxRetries: attempts after the first
    NoCred       \* no credential fits

Methods == {"GET", "POST", "PUT", "DELETE"}
Creds   == {"oauth", "platform", "apiToken"}

(* The call and its surroundings, fixed before it starts. *)
Calls == [api     : {"account", "environment"},
          method  : Methods,
          has     : SUBSET Creds,  \* what the provider's Secret holds
          accepts : SUBSET Creds,  \* what the server lets use this endpoint
          unique  : BOOLEAN]       \* does a POST of an existing name conflict?

Statuses == {"2xx", "404", "409", "429", "denied", "other"}
Phases   == {"build", "do", "reply", "fallback", "read", "done"}
Results  == {"none", "ok", "404", "409", "429", "denied", "other", "error", "exhausted"}

ASSUME RetryAssumption == MaxRetries \in Nat /\ NoCred \notin Creds

VARIABLES
    call, pc,
    attempt,  \* the loop's counter
    cred,     \* the credential of the request built last
    resp,     \* status of the response in hand, or "none"
    closed,   \* was that response's body closed?
    result,   \* what the call returned
    objects,  \* server: how many objects the call addresses
    created,  \* server: how many objects this call has made
    sends,    \* history: requests sent
    lost      \* history: requests the server handled whose reply never came

server == <<objects, created, sends, lost>>
vars == <<call, pc, attempt, cred, resp, closed, result, server>>

TypeOK ==
    /\ call \in Calls /\ pc \in Phases /\ attempt \in Nat
    /\ cred \in Creds \cup {NoCred}
    /\ resp \in Statuses \cup {"none"} /\ closed \in BOOLEAN /\ result \in Results
    /\ objects \in Nat /\ created \in Nat /\ sends \in Nat /\ lost \in Nat

Init ==
    /\ call \in Calls
    /\ pc = "build" /\ attempt = 0 /\ cred = NoCred
    /\ resp = "none" /\ closed = FALSE /\ result = "none"
    /\ objects \in {0, 1}
    /\ created = 0 /\ sends = 0 /\ lost = 0

-----------------------------------------------------------------------------
(* The server.                                                             *)

(* What executing the method does: the status and the number of objects. *)
Executed ==
    CASE call.method = "POST" ->
            IF call.unique /\ objects > 0 THEN [status |-> "409", objects |-> objects]
            ELSE [status |-> "2xx", objects |-> objects + 1]
      [] call.method = "DELETE" /\ objects > 0 -> [status |-> "2xx", objects |-> objects - 1]
      [] call.method \in {"GET", "PUT"} /\ objects > 0 ->
            [status |-> "2xx", objects |-> objects]
      [] OTHER -> [status |-> "404", objects |-> objects]

(* A request that reaches the server is refused, throttled, fails, or is
   executed; one that fails there may have been executed as well.          *)
ServerHandles(c, status) ==
    LET executed == objects' = Executed.objects
        ignored  == objects' = objects
    IN  /\ \/ c \notin call.accepts /\ status = "denied" /\ ignored
           \/ c \in call.accepts /\ \/ status \in {"429", "other"} /\ ignored
                                    \/ status \in {Executed.status, "other"} /\ executed
        /\ created' = IF objects' > objects THEN created + 1 ELSE created
        /\ sends' = sends + 1

-----------------------------------------------------------------------------
(* The client.                                                             *)

Return(r) == pc' = "done" /\ result' = r

(* buildRequest and buildEnvRequest. *)
Credential ==
    IF call.api = "account" THEN IF "oauth" \in call.has THEN "oauth" ELSE NoCred
    ELSE CASE "platform" \in call.has -> "platform"
           [] "platform" \notin call.has /\ "apiToken" \in call.has -> "apiToken"
           [] call.has = {"oauth"} -> "oauth"
           [] OTHER -> NoCred

(* Building the request fails without a credential, or without a token. *)
Build ==
    /\ pc = "build" /\ attempt <= MaxRetries
    /\ \/ /\ Credential # NoCred
          /\ cred' = Credential /\ pc' = "do" /\ UNCHANGED result
       \/ /\ Credential \in {NoCred, "oauth"}
          /\ Return("error") /\ UNCHANGED cred
    /\ UNCHANGED <<call, attempt, resp, closed, server>>

(* Mutant: the attempts that got no reply are not counted. *)
RetryUncounted ==
    pc' = "build" /\ UNCHANGED attempt

Retry == pc' = "build" /\ attempt' = attempt + 1

Do ==
    /\ pc = "do"
    /\ \E status \in Statuses : ServerHandles(cred, status) /\ resp' = status
    /\ pc' = "reply" /\ closed' = FALSE
    /\ UNCHANGED <<call, attempt, cred, result, lost>>

(* No reply: the request or the reply was lost. *)
DoFails ==
    /\ pc = "do"
    /\ \/ sends' = sends + 1 /\ UNCHANGED <<objects, created, lost>>
       \/ /\ \E status \in Statuses : ServerHandles(cred, status)
          /\ lost' = lost + 1
    /\ resp' = "none" /\ closed' = FALSE
    /\ Retry
    /\ UNCHANGED <<call, cred, result>>

FallsBack ==
    call.api = "environment" /\ resp = "denied" /\ cred = "platform" /\ "apiToken" \in call.has

(* Throttled: the account API closes the body before it waits.  The wait ends
   early, with an error, when the context does.                            *)
Throttled ==
    /\ pc = "reply" /\ resp = "429"
    /\ \/ Retry /\ UNCHANGED result
       \/ Return("error") /\ UNCHANGED attempt
    /\ closed' = (call.api = "account")
    /\ UNCHANGED <<call, cred, resp, server>>

Answered ==
    /\ pc = "reply" /\ resp # "429"
    /\ pc' = IF FallsBack THEN "fallback" ELSE "read"
    /\ UNCHANGED <<call, attempt, cred, resp, closed, result, server>>

(* One more request, with the API token.  If it gets no reply the refusal
   stands; its own 429 is not waited for.                                  *)
Fallback ==
    /\ pc = "fallback"
    /\ cred' = "apiToken"
    /\ \/ \E status \in Statuses : ServerHandles("apiToken", status) /\ resp' = status
                                   /\ UNCHANGED lost
       \/ sends' = sends + 1 /\ UNCHANGED <<objects, created, lost, resp>>
       \/ /\ \E status \in Statuses : ServerHandles("apiToken", status)
          /\ lost' = lost + 1 /\ UNCHANGED resp
    /\ pc' = "read"
    /\ UNCHANGED <<call, attempt, closed, result>>

(* The loop ran out.  The account API goes on with the response in hand, a
   429 whose body is closed, or reports the last error; the environment API
   reports that it gave up.                                                *)
GiveUp ==
    /\ pc = "build" /\ attempt > MaxRetries
    /\ IF call.api = "environment" THEN Return("exhausted")
       ELSE IF resp = "none" THEN Return("error")
       ELSE pc' = "read" /\ UNCHANGED result
    /\ UNCHANGED <<call, attempt, cred, resp, closed, server>>

(* Mutant: any response with a readable body is a success. *)
StatusIgnored(status) == "ok"

Verdict(status) == IF status = "2xx" THEN "ok" ELSE status

(* Mutant: a body that cannot be read is one more reason to try again. *)
ReadAgain ==
    /\ pc = "read"
    /\ \/ ~closed /\ Return(Verdict(resp)) /\ UNCHANGED attempt
       \/ Retry /\ UNCHANGED result
    /\ UNCHANGED <<call, cred, resp, closed, server>>

(* The body is read and judged by its status.  Reading or decoding may fail;
   reading a closed body fails unless the body was empty.                  *)
Read ==
    /\ pc = "read"
    /\ \/ Return(Verdict(resp))
       \/ Return("error")
    /\ UNCHANGED <<call, attempt, cred, resp, closed, server>>

Next == Build \/ Do \/ DoFails \/ Throttled \/ Answered \/ Fallback \/ GiveUp \/ Read

Spec == Init /\ [][Next]_vars

-----------------------------------------------------------------------------
(* Properties.                                                             *)

(* What the controllers take for success is one: after a DELETE that returned
   no error, or a 404 (the answer to a repetition of a DELETE whose reply was
   lost), nothing is left; after a POST that did, something was made.      *)
SuccessMeansDone ==
    /\ call.method = "DELETE" /\ result \in {"ok", "404"} => objects = 0
    /\ call.method = "POST" /\ result = "ok" => created > 0

(* A POST makes more than one object only when replies to it were lost. *)
DuplicatesNeedLoss == created <= lost + 1

(* The loop ends: an attempt is a request, and the fallback one more. *)
BoundedSends == sends <= MaxRetries + 2

-----------------------------------------------------------------------------
(* The inductive invariant.                                                *)

(* Every attempt so far sent one request; only a lost reply lets the loop go
   on after one that was executed.                                         *)
Counted ==
    /\ attempt <= MaxRetries + 1
    /\ pc = "build" => sends <= attempt /\ created <= lost
    /\ pc = "do" =>
          attempt <= MaxRetries /\ sends <= attempt /\ created <= lost /\ cred # NoCred
    /\ pc \in {"reply", "fallback"} => attempt <= MaxRetries /\ sends <= attempt + 1
    /\ pc = "reply" /\ resp \in {"429", "denied"} => created <= lost
    /\ pc = "fallback" => created <= lost

(* The answer in hand says what the server holds; it is judged once. *)
Honest ==
    /\ result # "none" => pc = "done"
    /\ pc = "fallback" => resp = "denied"
    /\ call.method = "DELETE" =>
          objects <= 1 /\ (resp \in {"2xx", "404"} => objects = 0)
    /\ call.method = "POST" /\ resp = "2xx" => created > 0
    /\ SuccessMeansDone

RetryInv == TypeOK /\ Counted /\ Honest /\ DuplicatesNeedLoss /\ BoundedSends
=============================================================================
