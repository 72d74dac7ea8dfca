-------------------------------- MODULE ErrorPath --------------------------------
(***************************************************************************)
(* What becomes of an error: thrown in the server, answered as a status,   *)
(* made an error of the application by the client (or by the n8n service,  *)
(* when the answer is n8n's), perhaps tried again by a wrapper, and shown. *)
(* A call is made by one of: a page; a function in withRetry, the client's *)
(* wrapper; a job of the execution queue, whose retry count is attempt - 1.*)
(* Time is in units of the base delay.                                     *)
(***************************************************************************)
EXTENDS Integers, FiniteSetsExt

CONSTANTS
  None,
  Callers,      \* of "page", "withRetry" and "queue": who makes the call
  MaxRetries,   \* 3 in the code
  Cap,          \* the longest delay: 16 in the client, 60 in the queue
  Raw           \* the wrapped function throws what it met, not what the service makes of it

ErrorAssumption ==
  Callers \subseteq {"page", "withRetry", "queue"} /\ {MaxRetries, Cap} \subseteq Nat \ {0} /\ Raw \in BOOLEAN

VARIABLES
  caller, attempt,
  fault,     \* what the last attempt met
  delay,     \* how long the call waits for its next attempt, 0 when it does not
  outcome,
  cleared,   \* the session was ended because of an error
  shown      \* what the user is told

vars == <<caller, attempt, fault, delay, outcome, cleared, shown>>

\* What a handler of the server throws: an application error has its own status.
Thrown == {"app400", "app401", "app403", "app404", "app500", "app503", "zod", "P2002", "P2025", "P2003", "database",
           "jwt", "expired", "unknown"}

\* What an attempt meets besides: no answer, or one of another server on the way.
\* The numbers are the client's status of the two.
Network == 0
Timeout == 408
Faults == {Network, Timeout} \cup {400, 401, 403, 404, 409, 422, 429, 500, 502, 503, 504}

TypeOK ==
  /\ caller \in Callers \cup {None} /\ attempt \in 1..MaxRetries+1 /\ fault \in Faults \cup {None}
  /\ delay \in 0..Cap /\ (delay > 0 => outcome = "pending")
  /\ outcome \in {"none", "pending", "failed", "done"}
  /\ cleared \in BOOLEAN /\ shown \in {"nothing", "generic"}

Init ==
  /\ caller = None /\ attempt = 1 /\ fault = None /\ delay = 0
  /\ outcome = "none" /\ cleared = FALSE /\ shown = "nothing"

-----------------------------------------------------------------------------
\* The server's errorHandler.

\* Mutant: a token that does not verify is an error like any other.
MutantStatus(t) ==
  CASE t \in {"app400", "zod", "P2003"} -> 400 [] t \in {"app401", "expired"} -> 401 [] t = "app403" -> 403
    [] t \in {"app404", "P2025"} -> 404 [] t = "P2002" -> 409 [] t = "app503" -> 503
    [] t \in {"app500", "database", "jwt", "unknown"} -> 500

Status(t) ==
  CASE t \in {"app400", "zod", "P2003"} -> 400 [] t \in {"app401", "jwt", "expired"} -> 401 [] t = "app403" -> 403
    [] t \in {"app404", "P2025"} -> 404 [] t = "P2002" -> 409 [] t = "app503" -> 503
    [] t \in {"app500", "database", "unknown"} -> 500

-----------------------------------------------------------------------------
\* Errors as their callers see them.

\* The client's: an object of code and status, which is not an Error.
Handle(f) ==
  CASE f = Network -> [code |-> "NETWORK_ERROR", status |-> 0]
    [] f = Timeout -> [code |-> "TIMEOUT_ERROR", status |-> 408]
    [] f \in {400, 422} -> [code |-> "VALIDATION_ERROR", status |-> f]
    [] f = 401 -> [code |-> "UNAUTHORIZED", status |-> f]
    [] f = 403 -> [code |-> "FORBIDDEN", status |-> f]
    [] f = 404 -> [code |-> "NOT_FOUND", status |-> f]
    [] f = 409 -> [code |-> "CONFLICT", status |-> f]
    [] f = 429 -> [code |-> "RATE_LIMIT_EXCEEDED", status |-> f]
    [] f = 500 -> [code |-> "INTERNAL_ERROR", status |-> f]
    [] f \in {502, 503, 504} -> [code |-> "SERVICE_UNAVAILABLE", status |-> f]

\* withRetry handles what it catches; what was handled already fits none of its cases.
Handled(f) == IF Raw THEN Handle(f) ELSE [code |-> "UNKNOWN_ERROR", status |-> None]

\* The n8n service's: a code of the application.
TransformError(f) ==
  CASE f \in {Network, Timeout, 500, 502, 503, 504} -> "N8N_UNAVAILABLE"
    [] f = 401 -> "UNAUTHORIZED"
    [] f = 404 -> "WORKFLOW_NOT_FOUND"
    [] f \in {400, 403, 409, 422, 429} -> "INVALID_INPUT"

IsRetryable(error) ==
  \/ error.code \in {"NETWORK_ERROR", "TIMEOUT_ERROR", "SERVICE_UNAVAILABLE", "INTERNAL_ERROR"}
  \/ error.status \in {408, 429, 500, 502, 503, 504}

QueueRetries(f) == TransformError(f) \notin {"VALIDATION_ERROR", "INVALID_INPUT", "UNAUTHORIZED", "FORBIDDEN"}

Retried(f) ==
  CASE caller = "withRetry" -> IsRetryable(Handled(f))
    [] caller = "queue" -> QueueRetries(f)
    [] caller = "page" -> FALSE

GetRetryDelay(n) == Min({2 ^ (n - 1), Cap})

-----------------------------------------------------------------------------

\* The client looks at every error, on the way to who awaits it.
Seen(f) == f = 401 /\ caller # "queue"

\* A page shows the message of an Error and a text of its own for anything else, and what
\* the client makes of an error is no Error.
Tell == CASE caller = "page" -> "generic" [] caller # "page" -> shown

Call(k) ==
  /\ outcome = "none"
  /\ outcome' = "pending" /\ caller' = k
  /\ UNCHANGED <<attempt, fault, delay, cleared, shown>>

Meet(f) ==
  /\ outcome = "pending" /\ delay = 0
  /\ fault' = f /\ cleared' = (cleared \/ Seen(f))
  /\ IF Retried(f) /\ attempt <= MaxRetries
     THEN delay' = GetRetryDelay(attempt) /\ UNCHANGED <<outcome, shown>>
     ELSE outcome' = "failed" /\ shown' = Tell /\ UNCHANGED delay
  /\ UNCHANGED <<caller, attempt>>

Answered(t) == caller # "queue" /\ Meet(Status(t))

Lost(f) == Meet(f)

Done ==
  /\ outcome = "pending" /\ delay = 0
  /\ outcome' = "done"
  /\ UNCHANGED <<caller, attempt, fault, delay, cleared, shown>>

TryAgain ==
  /\ delay > 0
  /\ delay' = 0 /\ attempt' = attempt + 1
  /\ UNCHANGED <<caller, fault, outcome, cleared, shown>>

Next == (\E k \in Callers : Call(k)) \/ (\E t \in Thrown : Answered(t)) \/ (\E f \in Faults : Lost(f)) \/ Done \/ TryAgain

Spec == Init /\ [][Next]_vars

\* A delay passes, and an attempt is answered, fails or is given up by the network.
FairSpec == Spec /\ WF_vars(TryAgain) /\ WF_vars(Done \/ \E f \in Faults : Lost(f))

-----------------------------------------------------------------------------

\* What passes by itself: no answer, and the errors of servers.
Passing(f) == f \in {Network, Timeout, 500, 502, 503, 504}

\* Nobody who can wait gives up on an error that may pass while attempts are left, whatever
\* the attempts met in which order.
PatienceKept ==
  outcome = "failed" /\ caller # "page" => ~Passing(fault) \/ attempt = MaxRetries + 1

\* Whichever layer an error comes from and goes through, the session ends by those of
\* authentication, and only by those.
OnlyAuthEnds ==
  [][\A t \in Thrown : Answered(t) => (cleared' <=> (cleared \/ t \in {"app401", "jwt", "expired"}))]_vars

\* Both at once.
ErrorsJudged == []PatienceKept /\ OnlyAuthEnds

\* Every call comes to an end: however its attempts fail, they run out.
CallsEnd == outcome = "pending" ~> outcome # "pending"
=============================================================================
