----------------------------- MODULE RetriedRequest -----------------------------
(***************************************************************************)
(* One request under the decorator of retries.py, as its two users make    *)
(* it: _BaseClient.do ("api"), which every call of the SDK goes through,   *)
(* and FilesExt._retry_idempotent_operation ("idempotent").                *)
(*                                                                         *)
(* Time is in whole seconds from the start of the call.  The body, if      *)
(* there is one, is a stream of Length bytes, which may have been read in  *)
(* part before the call.                                                   *)
(***************************************************************************)
EXTENDS Integers

CONSTANTS
    Wrappers,       \* which of the two, "api" or "idempotent"
    Bodies,         \* "none", "seekable" or "stream": what there is to be sent
    Timeout,        \* retry_timeout_seconds
    HttpTimeout,    \* the longest an attempt takes
    MaxSleep,       \* the longest pause that is not the server's choice (10)
    RetryAfters,    \* the values of Retry-After
    Length          \* of the stream

ASSUME ConstantsAssumption ==
    /\ Wrappers \subseteq {"api", "idempotent"}
    /\ Bodies \subseteq {"none", "seekable", "stream"}
    /\ Timeout \in Nat \ {0} /\ HttpTimeout \in Nat /\ MaxSleep \in Nat \ {0}
    /\ RetryAfters \subseteq Nat /\ Length \in Nat

VARIABLES
    wrapper,        \* who retries
    body,           \* the kind of body
    initial,        \* initial_data_position
    phase,          \* "loop", "sent", "pause", "done"
    clock,          \* clock.time()
    attempt,        \* attempt, as far as the pause depends on it
    pos,            \* position of the stream
    error,          \* last_err: its kind, or "none"
    retryAfter,     \* retry_after_secs of the error, 0 if it has none
    outcome,        \* "pending", "returned", "raised" or "timeout"
    requests,       \* history: how many requests have been sent (0, 1, or 2 for more)
    received        \* server: where the bodies it received completely began

call == <<wrapper, body, initial>>
vars == <<call, phase, clock, attempt, pos, error, retryAfter, outcome, requests, received>>

Lesser(m, n) == IF m < n THEN m ELSE n

-----------------------------------------------------------------------------
(* Errors                                                                  *)

\* "throttled": 429 and 503.  "unavailable": 408, 500, 502 and 504.  "transient": a
\* DatabricksError with one of the known messages.  "refused": any other status.
\* "network": requests.ConnectionError and requests.Timeout.
Statuses == {"throttled", "unavailable", "transient", "refused"}
Errors == Statuses \cup {"network"}

\* Whether the decorated function raises an exception for a status: delegate() does
\* for _RETRYABLE_STATUS_CODES only, and gives its error no message.
IsException(status) ==
    wrapper = "api" \/ status \in {"throttled", "unavailable"}

\* The error has retry_after_secs, or _is_retryable knows it.
Retryable(err) == err \in {"throttled", "transient", "network"}

\* Faulty: every call is decorated.
DecoratedAlways == TRUE

\* A stream that cannot be rewound is sent without the decorator.
Decorated == wrapper = "idempotent" \/ body # "stream"

-----------------------------------------------------------------------------
(* Attempts                                                                *)

\* The server has received the whole request.
Receives ==
    /\ pos' = IF body = "none" THEN pos ELSE Length
    /\ received' = IF body = "none" THEN received ELSE received \cup {pos}

\* Some of the request got through, not all of it.
Misses ==
    /\ pos' \in IF body = "none" THEN {pos} ELSE pos..Length
    /\ UNCHANGED received

\* Faulty: the loop does not look at the clock.
SendLate ==
    /\ phase = "loop"
    /\ requests' = Lesser(requests + 1, 2)
    /\ phase' = "sent"
    /\ UNCHANGED <<call, clock, attempt, pos, error, retryAfter, outcome, received>>

\* The loop of retried(), and the direct call of _perform, which is at clock 0 and so
\* does not see the guard.
Send ==
    /\ phase = "loop"
    /\ clock < Timeout
    /\ requests' = Lesser(requests + 1, 2)
    /\ phase' = "sent"
    /\ UNCHANGED <<call, clock, attempt, pos, error, retryAfter, outcome, received>>

\* TimeoutError, from the last error.
GiveUp ==
    /\ phase = "loop"
    /\ clock >= Timeout
    /\ outcome' = "timeout" /\ phase' = "done"
    /\ UNCHANGED <<call, clock, attempt, pos, error, retryAfter, requests, received>>

Takes == clock' \in clock..(clock + HttpTimeout)

Succeeds ==
    /\ phase = "sent"
    /\ Takes
    /\ Receives
    /\ outcome' = "returned" /\ phase' = "done"
    /\ UNCHANGED <<call, attempt, error, retryAfter, requests>>

\* The except clause: is the error retried?
Raises(err) ==
    /\ error' = err
    /\ retryAfter' \in IF err = "throttled" THEN RetryAfters ELSE {0}
    /\ IF Decorated /\ Retryable(err)
       THEN phase' = "pause" /\ UNCHANGED outcome
       ELSE phase' = "done" /\ outcome' = "raised"

\* An error status, once the server has received the request.
Fails(status) ==
    /\ phase = "sent"
    /\ Takes
    /\ Receives
    /\ IF IsException(status)
       THEN Raises(status)
       ELSE outcome' = "returned" /\ phase' = "done" /\ UNCHANGED <<error, retryAfter>>
    /\ UNCHANGED <<call, attempt, requests>>

\* A connection error or a timeout: the server may have got the request and acted on
\* it.
Disconnects ==
    /\ phase = "sent"
    /\ Takes
    /\ Misses \/ Receives
    /\ Raises("network")
    /\ UNCHANGED <<call, attempt, requests>>

\* sleep: what the server says, or one second more every time; and a random
\* fraction of a second.
Sleep == IF error = "throttled" THEN retryAfter ELSE Lesser(MaxSleep, attempt)

\* Faulty: the stream is rewound to its very beginning; it is not rewound; the loop
\* does not sleep.
PauseFromZero ==
    /\ phase = "pause"
    /\ pos' = IF body = "seekable" THEN 0 ELSE pos
    /\ clock' \in {clock + Sleep, clock + Sleep + 1} \ {clock}
    /\ attempt' = Lesser(attempt + 1, MaxSleep)
    /\ phase' = "loop"
    /\ UNCHANGED <<call, error, retryAfter, outcome, requests, received>>

PauseNoSleep ==
    /\ phase = "pause"
    /\ pos' = IF body = "seekable" THEN initial ELSE pos
    /\ attempt' = Lesser(attempt + 1, MaxSleep)
    /\ phase' = "loop"
    /\ UNCHANGED <<call, clock, error, retryAfter, outcome, requests, received>>

\* before_retry and clock.sleep.  Some time passes: random() is 0 with probability 0.
Pause ==
    /\ phase = "pause"
    /\ pos' = IF body = "seekable" THEN initial ELSE pos
    /\ clock' \in {clock + Sleep, clock + Sleep + 1} \ {clock}
    /\ attempt' = Lesser(attempt + 1, MaxSleep)
    /\ phase' = "loop"
    /\ UNCHANGED <<call, error, retryAfter, outcome, requests, received>>

-----------------------------------------------------------------------------
\* A chunk is a BytesIO that nobody has read from, which rewind() sets back to 0.
Init ==
    /\ wrapper \in Wrappers /\ body \in Bodies
    /\ wrapper = "idempotent" => body # "stream"
    /\ initial \in IF body = "none" \/ wrapper = "idempotent" THEN {0} ELSE 0..Length
    /\ phase = "loop" /\ clock = 0 /\ attempt = 1
    /\ pos = initial
    /\ error = "none" /\ retryAfter = 0 /\ outcome = "pending"
    /\ requests = 0
    /\ received = {}

Next ==
    \/ Send \/ GiveUp \/ Succeeds \/ Disconnects \/ Pause
    \/ \E status \in Statuses : Fails(status)

Spec == Init /\ [][Next]_vars

\* The client runs on, and every attempt ends.
FairSpec == Spec /\ WF_vars(Next)

-----------------------------------------------------------------------------
(* Properties                                                              *)

\* The variables have their types; the call overruns its timeout by an attempt and a
\* pause at most.
TypeOK ==
    /\ wrapper \in Wrappers /\ body \in Bodies /\ initial \in 0..Length
    /\ phase \in {"loop", "sent", "pause", "done"}
    /\ clock \in Nat /\ attempt \in 1..MaxSleep
    /\ pos \in 0..Length
    /\ error \in Errors \cup {"none"} /\ retryAfter \in RetryAfters \cup {0}
    /\ outcome \in {"pending", "returned", "raised", "timeout"}
    /\ requests \in 0..2
    /\ received \subseteq 0..Length
    /\ phase = "sent" => clock < Timeout
    /\ phase = "pause" => clock < Timeout + HttpTimeout

\* Whatever attempt a request belongs to, a body the server receives completely is
\* the caller's: from where the stream stood when do() was called to its end.
ServerGetsWholeBody == received \subseteq {initial}

\* "Do not retry if the stream is not seekable" (comment in do()): what cannot be
\* sent again is sent once.
StreamSentOnce == body = "stream" => requests =< 1

\* The call ends, at the latest when its time has run out.
Returns == <>(outcome # "pending")
=============================================================================
