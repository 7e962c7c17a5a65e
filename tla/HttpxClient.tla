------------------------------ MODULE HttpxClient ------------------------------
(***************************************************************************)
(* Client.Do of internal/httpx, one call at a time per caller.  An attempt *)
(* sends one request and ends with an answer or without one; transport     *)
(* errors and 5xx answers are retried, every other answer ends the call.   *)
(* A request whose caller gave up on it stays in flight: the service may   *)
(* still execute it.                                                       *)
(***************************************************************************)
EXTENDS Integers

CONSTANTS
    Callers,            \* the goroutines that make calls
    Operations,         \* the remote operations they call
    Codes,              \* the error codes services answer, "ok" among them
    Retries             \* Client.Retries

VARIABLES
    attempt,            \* attempt[f]: the loop counter of f's current call
    answer,             \* answer[f]: how the current attempt stands
    inFlight            \* requests sent and neither executed nor lost

clientVars == <<attempt, answer, inFlight>>

Attempts == 0..Retries
Requests == Callers \X Operations \X Attempts

(* An attempt not begun, an attempt under way, no answer, a 5xx.            *)
Unanswered == {"idle", "waiting"}
Retryable == {"lost", "internal_error"}

ClientTypeOK ==
    /\ attempt \in [Callers -> Attempts]
    /\ answer \in [Callers -> Unanswered \cup Retryable \cup Codes]
    /\ inFlight \subseteq Requests

ClientInit ==
    /\ attempt = [f \in Callers |-> 0]
    /\ answer = [f \in Callers |-> "idle"]
    /\ inFlight = {}

-------------------------------------------------------------------------------
Send(f, op) ==
    /\ answer[f] = "idle"
    /\ answer' = [answer EXCEPT ![f] = "waiting"]
    /\ inFlight' = inFlight \cup {<<f, op, attempt[f]>>}
    /\ UNCHANGED attempt

(* The request leaves the network with this answer.  Its caller hears it    *)
(* only while it still waits for that very attempt, which it does not after *)
(* the call moved on (awaited is FALSE, or attempt[f] is another one).      *)
Answer(f, op, k, awaited, code) ==
    /\ inFlight' = inFlight \ {<<f, op, k>>}
    /\ answer' = IF awaited /\ attempt[f] = k /\ answer[f] = "waiting"
                 THEN [answer EXCEPT ![f] = code]
                 ELSE answer
    /\ UNCHANGED attempt

(* The attempt's time is up, whether the service has not answered yet or    *)
(* its answer is on the way.                                                *)
Timeout(f) ==
    /\ answer[f] \notin {"idle", "lost"}
    /\ answer' = [answer EXCEPT ![f] = "lost"]
    /\ UNCHANGED <<attempt, inFlight>>

Retry(f) ==
    /\ answer[f] \in Retryable
    /\ attempt[f] < Retries
    /\ attempt' = [attempt EXCEPT ![f] = @ + 1]
    /\ answer' = [answer EXCEPT ![f] = "idle"]
    /\ UNCHANGED inFlight

(* What Do returns to its caller, "failed" being every error that is not a  *)
(* considered answer of the service.                                        *)
Returns(f, result) ==
    \/ answer[f] \in Codes /\ result = answer[f]
    \/ answer[f] \in Retryable /\ attempt[f] = Retries /\ result = "failed"

EndCall(f) ==
    /\ attempt' = [attempt EXCEPT ![f] = 0]
    /\ answer' = [answer EXCEPT ![f] = "idle"]
    /\ UNCHANGED inFlight
===============================================================================
