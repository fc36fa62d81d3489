------------------------------- MODULE Waiter -------------------------------
(***************************************************************************)
(* One wait for a long-running operation: the loop that all waiters of the *)
(* services share, under Wait.result(), with any row of their table.       *)
(*                                                                         *)
(* The object changes as it likes, also to a state that this version of    *)
(* the SDK has no name for.  Time is in whole   *)
(* seconds from the start of the wait.                                     *)
(***************************************************************************)
EXTENDS Waiters, Naturals

CONSTANTS
    Timeout,        \* timeout of result(), 20 minutes by default
    MaxPause,       \* the longest pause between two polls, less its random part (10)
    HttpTime        \* the longest a poll takes

ASSUME ConstantsAssumption ==
    Timeout \in Nat /\ MaxPause \in Nat \ {0} /\ HttpTime \in Nat

VARIABLES
    wait,           \* the waiter
    status,         \* of the object, at the server
    since,          \* history: when it changed last
    clock,          \* time.time()
    attempt,        \* attempt, as far as the pause depends on it
    seen,           \* status of the last poll
    phase,          \* "poll", "answer", "sleep" or "done"
    outcome         \* "pending", "returned", "failed", "raised" or "timeout"

vars == <<wait, status, since, clock, attempt, seen, phase, outcome>>

Lesser(m, n) == IF m < n THEN m ELSE n

End(result) == phase' = "done" /\ outcome' = result

-----------------------------------------------------------------------------
\* The wait ends as soon as the object is seen in such a state.
Conclusive(s) == s \in wait.target \cup wait.failure

\* self.get(...): the server looks at the object.
Poll ==
    /\ phase = "poll" /\ clock < Timeout
    /\ seen' = status
    /\ phase' = "answer"
    /\ UNCHANGED <<wait, status, since, clock, attempt, outcome>>

\* Its answer arrives, and what follows from it.
Answer ==
    /\ phase = "answer"
    /\ clock' \in clock..(clock + HttpTime)
    /\ \/ ~Conclusive(seen) /\ phase' = "sleep" /\ UNCHANGED outcome
       \/ seen \in wait.target /\ End("returned")
       \/ seen \in wait.failure /\ End("failed")
       \/ End("raised")
    /\ UNCHANGED <<wait, status, since, attempt, seen>>

\* Faulty: the pauses go on growing.
UncappedPause == attempt

\* sleep = attempt, 10 at most.
Pause == Lesser(attempt, MaxPause)

\* time.sleep(sleep + random.random())
Sleep ==
    /\ phase = "sleep"
    /\ clock' \in {clock + Pause, clock + Pause + 1}
    /\ attempt' = Lesser(attempt + 1, MaxPause + 1)
    /\ phase' = "poll"
    /\ UNCHANGED <<wait, status, since, seen, outcome>>

\* Faulty: the loop asks whether the time is exactly up.
GiveUpOnTime ==
    /\ phase = "poll" /\ clock = Timeout
    /\ End("timeout")
    /\ UNCHANGED <<wait, status, since, clock, attempt, seen>>

GiveUp ==
    /\ phase = "poll" /\ clock >= Timeout
    /\ End("timeout")
    /\ UNCHANGED <<wait, status, since, clock, attempt, seen>>

\* The object changes its state.
Change(s) ==
    /\ phase # "done" /\ s # status
    /\ status' = s /\ since' = clock
    /\ UNCHANGED <<wait, clock, attempt, seen, phase, outcome>>

-----------------------------------------------------------------------------
Init ==
    /\ wait \in Waits /\ status \in wait.states
    /\ since = 0 /\ clock = 0 /\ attempt = 1 /\ seen = Unnamed
    /\ phase = "poll" /\ outcome = "pending"

Step == Poll \/ Answer \/ Sleep \/ GiveUp

Next == Step \/ \E s \in wait.states \cup {Unnamed} : Change(s)

Spec == Init /\ [][Next]_vars

\* The thread runs on, and polls are answered or time out.
FairSpec == Spec /\ WF_vars(Step)

-----------------------------------------------------------------------------
(* Properties                                                              *)

TypeOK ==
    /\ wait \in Waits /\ status \in wait.states \cup {Unnamed}
    /\ since \in Nat /\ clock \in Nat /\ since <= clock
    /\ attempt \in Nat \ {0}
    /\ seen \in wait.states \cup {Unnamed}
    /\ phase \in {"poll", "answer", "sleep", "done"}
    /\ outcome \in {"pending", "returned", "failed", "raised", "timeout"}

\* "wait for the related entities to reach the correct state or return the error
\* message in case of failure" (README): an object that has settled in a state that
\* ends the wait is noticed within a poll and a pause, so that a TimeoutError is wrong
\* about the last moments at most, however long the wait has lasted.
NoticedInTime ==
    (status \in wait.target \cup wait.failure) /\ outcome \in {"pending", "timeout"}
        => clock <= since + HttpTime + MaxPause + 1

\* Whatever the object does, the wait ends.
Ends == <>(phase = "done")
=============================================================================
