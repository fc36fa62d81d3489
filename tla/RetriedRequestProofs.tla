------------------------- MODULE RetriedRequestProofs -------------------------
(***************************************************************************)
(* The safety properties of RetriedRequest, for every timeout, every       *)
(* length of the body and every Retry-After.                               *)
(***************************************************************************)
EXTENDS RetriedRequest, TLAPS

\* What a loop that rewinds maintains: before a request is sent, and until it is
\* answered, the stream is where it was when do() was called; a stream that cannot
\* be rewound never reaches a pause.
Rewound == phase \in {"loop", "sent"} \/ body = "none" => pos = initial

NeverRetried ==
    body = "stream" =>
        /\ wrapper = "api"
        /\ phase # "pause"
        /\ phase = "loop" => requests = 0
        /\ requests =< 1

RetryInv == TypeOK /\ Rewound /\ NeverRetried /\ ServerGetsWholeBody

\* What the server does with a request keeps the types of its history.
LEMMA ReceivesTypes ==
    ASSUME TypeOK, Receives
    PROVE  received' \subseteq 0..Length /\ pos' \in 0..Length
  <1>1. pos' \in 0..Length
    BY ConstantsAssumption DEF TypeOK, Receives
  <1>2. received' \subseteq 0..Length
    BY DEF TypeOK, Receives
  <1> QED BY <1>1, <1>2

-----------------------------------------------------------------------------
LEMMA InitRetryInv == Init => RetryInv
  BY ConstantsAssumption
  DEF Init, RetryInv, TypeOK, Rewound, NeverRetried, ServerGetsWholeBody, Errors

\* Every action keeps the types.
LEMMA NextTypeOK == RetryInv /\ [Next]_vars => TypeOK'
  <1> SUFFICES ASSUME RetryInv, [Next]_vars PROVE TypeOK'
    OBVIOUS
  <1> USE ConstantsAssumption DEF RetryInv, TypeOK, call
  <1>1. CASE Send
    BY <1>1 DEF Send, Lesser
  <1>2. CASE GiveUp
    BY <1>2 DEF GiveUp
  <1>3. CASE Succeeds
    <2>1. received' \subseteq 0..Length /\ pos' \in 0..Length
      BY <1>3, ReceivesTypes DEF Succeeds
    <2>2. clock' \in Nat
      BY <1>3 DEF Succeeds, Takes
    <2> QED BY <1>3, <2>1, <2>2 DEF Succeeds
  <1>4. CASE Disconnects
    <2>1. received' \subseteq 0..Length /\ pos' \in 0..Length
      <3>1. CASE Misses
        BY <3>1 DEF Misses
      <3>2. CASE Receives
        BY <3>2, ReceivesTypes
      <3> QED BY <1>4, <3>1, <3>2 DEF Disconnects
    <2>2. clock' \in Nat /\ clock' < Timeout + HttpTimeout
      BY <1>4 DEF Disconnects, Takes
    <2>3. error' \in Errors /\ retryAfter' \in RetryAfters \cup {0}
      BY <1>4 DEF Disconnects, Raises, Errors
    <2>4. /\ phase' \in {"pause", "done"}
          /\ outcome' \in {"pending", "returned", "raised", "timeout"}
      BY <1>4 DEF Disconnects, Raises
    <2> QED BY <1>4, <2>1, <2>2, <2>3, <2>4 DEF Disconnects
  <1>5. CASE Pause
    <2>1. Sleep \in Nat
      BY DEF Sleep, Lesser
    <2>2. clock' \in Nat
      BY <1>5, <2>1 DEF Pause
    <2>3. attempt' \in 1..MaxSleep
      BY <1>5 DEF Pause, Lesser
    <2>4. pos' \in 0..Length
      BY <1>5 DEF Pause
    <2> QED BY <1>5, <2>2, <2>3, <2>4 DEF Pause
  <1>6. ASSUME NEW status \in Statuses, Fails(status) PROVE TypeOK'
    <2>1. received' \subseteq 0..Length /\ pos' \in 0..Length
      BY <1>6, ReceivesTypes DEF Fails
    <2>2. clock' \in Nat /\ clock' < Timeout + HttpTimeout
      BY <1>6 DEF Fails, Takes
    <2>3. error' \in Errors \cup {"none"} /\ retryAfter' \in RetryAfters \cup {0}
      BY <1>6 DEF Fails, Raises, Errors
    <2>4. /\ phase' \in {"pause", "done"}
          /\ outcome' \in {"pending", "returned", "raised", "timeout"}
      BY <1>6 DEF Fails, Raises
    <2> QED BY <1>6, <2>1, <2>2, <2>3, <2>4 DEF Fails
  <1>7. CASE UNCHANGED vars
    BY <1>7 DEF vars
  <1> QED BY <1>1, <1>2, <1>3, <1>4, <1>5, <1>6, <1>7 DEF Next

\* The stream is back where it was before the loop comes round.
LEMMA NextRewound == RetryInv /\ [Next]_vars => Rewound'
  <1> SUFFICES ASSUME RetryInv, [Next]_vars PROVE Rewound'
    OBVIOUS
  <1> USE DEF RetryInv, Rewound, call
  <1>1. CASE Send
    BY <1>1 DEF Send
  <1>2. CASE GiveUp
    BY <1>2 DEF GiveUp
  <1>3. CASE Succeeds
    BY <1>3 DEF Succeeds, Receives
  <1>4. CASE Disconnects
    BY <1>4 DEF Disconnects, Raises, Misses, Receives
  <1>5. CASE Pause
    <2>1. body \in {"seekable", "none"}
      BY <1>5, ConstantsAssumption DEF NeverRetried, Pause, TypeOK
    <2> QED BY <1>5, <2>1 DEF Pause
  <1>6. ASSUME NEW status \in Statuses, Fails(status) PROVE Rewound'
    BY <1>6 DEF Fails, Raises, Receives
  <1>7. CASE UNCHANGED vars
    BY <1>7 DEF vars
  <1> QED BY <1>1, <1>2, <1>3, <1>4, <1>5, <1>6, <1>7 DEF Next

\* Only a decorated call comes to a pause, and only a pause leads back to the loop.
LEMMA NextNeverRetried == RetryInv /\ [Next]_vars => NeverRetried'
  <1> SUFFICES ASSUME RetryInv, [Next]_vars, body = "stream" PROVE NeverRetried'
    BY DEF RetryInv, NeverRetried, Next, vars, call, Send, GiveUp, Succeeds,
           Disconnects, Pause, Fails
  <1> USE DEF RetryInv, NeverRetried, call
  <1>1. CASE Send
    BY <1>1 DEF Send, Lesser
  <1>2. CASE GiveUp
    BY <1>2 DEF GiveUp
  <1>3. CASE Succeeds
    BY <1>3 DEF Succeeds
  <1>4. CASE Disconnects
    BY <1>4 DEF Disconnects, Raises, Decorated
  <1>5. CASE Pause
    BY <1>5 DEF Pause
  <1>6. ASSUME NEW status \in Statuses, Fails(status) PROVE NeverRetried'
    BY <1>6 DEF Fails, Raises, Decorated
  <1>7. CASE UNCHANGED vars
    BY <1>7 DEF vars
  <1> QED BY <1>1, <1>2, <1>3, <1>4, <1>5, <1>6, <1>7 DEF Next

\* A body is received while the stream is where it was at the start.
LEMMA NextWholeBody == RetryInv /\ [Next]_vars => ServerGetsWholeBody'
  <1> SUFFICES ASSUME RetryInv, [Next]_vars PROVE ServerGetsWholeBody'
    OBVIOUS
  <1> USE DEF RetryInv, Rewound, ServerGetsWholeBody, call
  <1>1. CASE Send \/ GiveUp \/ Pause
    BY <1>1 DEF Send, GiveUp, Pause
  <1>2. CASE Succeeds
    BY <1>2 DEF Succeeds, Receives
  <1>3. CASE Disconnects
    BY <1>3 DEF Disconnects, Misses, Receives
  <1>4. ASSUME NEW status \in Statuses, Fails(status) PROVE ServerGetsWholeBody'
    BY <1>4 DEF Fails, Receives
  <1>5. CASE UNCHANGED vars
    BY <1>5 DEF vars
  <1> QED BY <1>1, <1>2, <1>3, <1>4, <1>5 DEF Next

-----------------------------------------------------------------------------
\* The inductive invariant: types, the position of the stream, and the fate of a
\* stream that cannot be rewound.
THEOREM RetryInvariant == Spec => []RetryInv
  <1>1. RetryInv /\ [Next]_vars => RetryInv'
    <2> SUFFICES ASSUME RetryInv, [Next]_vars PROVE RetryInv'
      OBVIOUS
    <2>1. TypeOK'
      BY NextTypeOK
    <2>2. Rewound'
      BY NextRewound
    <2>3. NeverRetried'
      BY NextNeverRetried
    <2>4. ServerGetsWholeBody'
      BY NextWholeBody
    <2> QED BY <2>1, <2>2, <2>3, <2>4 DEF RetryInv
  <1> QED BY InitRetryInv, <1>1, PTL DEF Spec

\* Types; no request is sent after the deadline, and no pause begins later than one
\* attempt after it (the loop of retries.retried).
THEOREM TypeCorrect == Spec => []TypeOK
  <1>1. RetryInv => TypeOK
    BY DEF RetryInv
  <1> QED BY RetryInvariant, <1>1, PTL

\* Every body the server receives completely is the caller's, whichever attempt it
\* came with (rewind in _BaseClient.do).
THEOREM BodiesAreWhole == Spec => []ServerGetsWholeBody
  <1>1. RetryInv => ServerGetsWholeBody
    BY DEF RetryInv
  <1> QED BY RetryInvariant, <1>1, PTL

\* A stream that cannot be rewound is sent at most once (the last branch of do).
THEOREM StreamsAreSentOnce == Spec => []StreamSentOnce
  <1>1. RetryInv => StreamSentOnce
    BY DEF RetryInv, NeverRetried, StreamSentOnce
  <1> QED BY RetryInvariant, <1>1, PTL
=============================================================================
