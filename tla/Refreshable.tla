----------------------------- MODULE Refreshable -----------------------------
(***************************************************************************)
(* The thread-safe token cache of oauth.py: class Refreshable.  Callers     *)
(* run token() on threads of their own under one threading.Lock; a stale   *)
(* token makes a caller submit a background refresh to the shared          *)
(* ThreadPoolExecutor, whose worker fetches a token without the lock and   *)
(* stores it under the lock.                                               *)
(*                                                                         *)
(* Time is discrete.  A token's `real' expiry is the authorization         *)
(* server's: the moment the token was minted plus its lifetime.  Its       *)
(* `expiry' is the client's belief: the client's wall clock when the       *)
(* response had arrived plus the same lifetime (retrieve_token).           *)
(***************************************************************************)
EXTENDS Integers, FiniteSets

CONSTANTS
    Callers,        \* threads that call token()
    Nobody,         \* the owner of a free lock
    Jobs,           \* slots for background refreshes, queued or running
    PoolSize,       \* max_workers of the executor (10 in the code)
    Buffer,         \* Token.expired turns true this long before the expiry
    StaleDuration,  \* _stale_duration
    Lifetimes,      \* the expires_in values the server hands out
    InitTokens,     \* tokens a Refreshable may be constructed with
    Reject,         \* the server rejects a token with this much left, or less
    Latency,        \* longest time between sending a refresh and its answer
    Pause,          \* longest time a caller takes from its decision to return
    FallBack,       \* how far local time jumps back when summer time ends
    MaxClock,       \* bound: the last instant of the model
    MaxCalls        \* bound: calls of token() per caller

Token == [some : BOOLEAN, expiry : Int, real : Int]

\* Token(""), what __init__ stores when no token is given.
NoToken == [some |-> FALSE, expiry |-> 0, real |-> 0]

ASSUME ConstantsAssumption ==
    /\ Nobody \notin Callers
    /\ PoolSize \in Nat \ {0}
    /\ Buffer \in Nat /\ StaleDuration \in Nat
    /\ Reject \in Nat /\ Latency \in Nat /\ Pause \in Nat
    /\ FallBack \in Nat /\ MaxClock \in Nat /\ MaxCalls \in Nat
    /\ Lifetimes \subseteq Nat
    /\ InitTokens \subseteq Token

(***************************************************************************)
(* The timing the code counts on: the buffer exceeds everything that can   *)
(* make a token look fresher than it is, and no lifetime is that short.    *)
(***************************************************************************)
ASSUME TimingAssumption ==
    /\ Buffer > Reject + Latency + Pause
    /\ \A life \in Lifetimes : life > Reject + Latency + Pause
    /\ \A t \in InitTokens : t.expiry =< t.real + Latency

VARIABLES
    clock,          \* real time
    skew,           \* real time minus the client's wall clock
    disableAsync,   \* _disable_async, fixed by the constructor
    token,          \* _token
    isRefreshing,   \* _is_refreshing
    refreshErr,     \* _refresh_err
    lock,           \* the owner of _lock
    pc,             \* where each caller stands in token()
    choice,         \* the token a caller is about to return
    since,          \* when a caller chose its token, or sent its request
    job,            \* the background refreshes
    calls           \* how often each caller has called token()

fields == <<token, isRefreshing, refreshErr>>
callerVars == <<pc, choice, since, calls>>
vars == <<clock, skew, disableAsync, fields, lock, callerVars, job>>

PCs == {"idle", "waiting", "dispatch", "trigger", "blocking", "awaiting",
        "return"}

\* Where a caller is inside `with self._lock'.
Locked == PCs \ {"idle", "waiting"}

JobStates == {"idle", "queued", "awaiting", "fetched", "failed"}
Job == [st : JobStates, tok : Token, since : Int]
InState(st, t, sent) == [st |-> st, tok |-> t, since |-> sent]
NoJob == InState("idle", NoToken, 0)

InFlight(j) == job[j].st # "idle"
Busy == {j \in Jobs : job[j].st \in {"awaiting", "fetched", "failed"}}

\* The variables have their types; only a caller ever owns the lock, as the worker of
\* a background refresh has released it when _refresh_internal ends.
TypeOK ==
    /\ clock \in Nat /\ skew \in Int
    /\ disableAsync \in BOOLEAN
    /\ token \in Token
    /\ isRefreshing \in BOOLEAN /\ refreshErr \in BOOLEAN
    /\ lock \in Callers \cup {Nobody}
    /\ pc \in [Callers -> PCs]
    /\ choice \in [Callers -> Token]
    /\ since \in [Callers -> Int]
    /\ job \in [Jobs -> Job]
    /\ calls \in [Callers -> Nat]

-----------------------------------------------------------------------------
(* Token states                                                            *)

\* datetime.now(): naive local time.
Now == clock - skew

\* Faulty: the 40 second buffer is forgotten.
ValidUnbuffered(t) == t.some /\ ~(t.expiry < Now)

\* Token.expired and Token.valid.
Valid(t) == t.some /\ ~(t.expiry - Buffer < Now)

\* _token_state()
Expired == ~Valid(token) \/ token.expiry - Now < 0
Stale == ~Expired /\ token.expiry - Now < StaleDuration
Fresh == ~Expired /\ ~Stale

\* What retrieve_token makes of an answer received now to a request sent at
\* `sent': the server minted the token somewhere in between.
Answers(sent) ==
    {[some |-> TRUE, expiry |-> Now + life, real |-> mint + life] :
        life \in Lifetimes, mint \in sent..clock}

-----------------------------------------------------------------------------
(* token() on a caller's thread                                            *)

Goto(c, label) == pc' = [pc EXCEPT ![c] = label]

\* A caller settles on the token it will return.
Choose(c, t) ==
    /\ choice' = [choice EXCEPT ![c] = t]
    /\ since' = [since EXCEPT ![c] = clock]

\* Its local variables are gone when token() ends.
Forget(c) ==
    /\ choice' = [choice EXCEPT ![c] = NoToken]
    /\ since' = [since EXCEPT ![c] = 0]

Call(c) ==
    /\ pc[c] = "idle" /\ calls[c] < MaxCalls
    /\ calls' = [calls EXCEPT ![c] = @ + 1]
    /\ Goto(c, "waiting")
    /\ UNCHANGED <<clock, skew, disableAsync, fields, lock, choice, since, job>>

Acquire(c) ==
    /\ pc[c] = "waiting" /\ lock = Nobody
    /\ lock' = c
    /\ Goto(c, IF disableAsync THEN "blocking" ELSE "dispatch")
    /\ UNCHANGED <<clock, skew, disableAsync, fields, choice, since, calls, job>>

\* _async_token on a fresh or stale token: it is what the caller will get; a
\* stale one is renewed in the background first.
KeepToken(c) ==
    /\ pc[c] = "dispatch" /\ ~Expired
    /\ Choose(c, token)
    /\ Goto(c, IF Fresh THEN "return" ELSE "trigger")
    /\ UNCHANGED <<clock, skew, disableAsync, fields, lock, calls, job>>

\* _async_token on an expired token.
FallThrough(c) ==
    /\ pc[c] = "dispatch" /\ Expired
    /\ Goto(c, "blocking")
    /\ UNCHANGED <<clock, skew, disableAsync, fields, lock, choice, since, calls, job>>

\* _trigger_async_refresh, where the state of the token is read once more.
Submit(c) ==
    /\ pc[c] = "trigger" /\ ~Fresh /\ ~isRefreshing /\ ~refreshErr
    /\ isRefreshing' = TRUE
    /\ \E j \in Jobs :
          ~InFlight(j) /\ job' = [job EXCEPT ![j] = InState("queued", NoToken, 0)]
    /\ Goto(c, "return")
    /\ UNCHANGED <<clock, skew, disableAsync, token, refreshErr, lock, choice,
                   since, calls>>

SkipSubmit(c) ==
    /\ pc[c] = "trigger" /\ (Fresh \/ isRefreshing \/ refreshErr)
    /\ Goto(c, "return")
    /\ UNCHANGED <<clock, skew, disableAsync, fields, lock, choice, since, calls, job>>

\* _blocking_token: the state is read, both flags are cleared in every case, and
\* an expired token sends the caller into refresh(), still holding the lock.
BlockingToken(c) ==
    /\ pc[c] = "blocking"
    /\ isRefreshing' = FALSE /\ refreshErr' = FALSE
    /\ \/ ~Expired /\ Choose(c, token) /\ Goto(c, "return")
       \/ /\ Expired
          /\ since' = [since EXCEPT ![c] = clock]
          /\ Goto(c, "awaiting")
          /\ UNCHANGED choice
    /\ UNCHANGED <<clock, skew, disableAsync, token, lock, calls, job>>

RefreshReturn(c) ==
    /\ pc[c] = "awaiting"
    /\ \E t \in Answers(since[c]) : token' = t /\ Choose(c, t)
    /\ Goto(c, "return")
    /\ UNCHANGED <<clock, skew, disableAsync, isRefreshing, refreshErr, lock,
                   calls, job>>

\* Faulty: the lock is taken and released by hand, not in a finally clause.
RefreshFailLocked(c) ==
    /\ pc[c] = "awaiting"
    /\ Goto(c, "idle")
    /\ Forget(c)
    /\ UNCHANGED <<clock, skew, disableAsync, fields, lock, calls, job>>

\* refresh() raises: the exception leaves token() and releases the lock.
RefreshFail(c) ==
    /\ pc[c] = "awaiting"
    /\ lock' = Nobody
    /\ Goto(c, "idle")
    /\ Forget(c)
    /\ UNCHANGED <<clock, skew, disableAsync, fields, calls, job>>

Return(c) ==
    /\ pc[c] = "return"
    /\ lock' = Nobody
    /\ Goto(c, "idle")
    /\ Forget(c)
    /\ UNCHANGED <<clock, skew, disableAsync, fields, calls, job>>

-----------------------------------------------------------------------------
(* _refresh_internal on a worker of the executor                           *)

SetJob(j, st, t) == job' = [job EXCEPT ![j] = InState(st, t, @.since)]

JobStart(j) ==
    /\ job[j].st = "queued" /\ Cardinality(Busy) < PoolSize
    /\ job' = [job EXCEPT ![j] = InState("awaiting", NoToken, clock)]
    /\ UNCHANGED <<clock, skew, disableAsync, fields, lock, callerVars>>

JobReturn(j) ==
    /\ job[j].st = "awaiting"
    /\ \E t \in Answers(job[j].since) : SetJob(j, "fetched", t)
    /\ UNCHANGED <<clock, skew, disableAsync, fields, lock, callerVars>>

\* Faulty: the exception of refresh() is not caught, and kills the worker.
JobFailUncaught(j) ==
    /\ job[j].st = "awaiting"
    /\ job' = [job EXCEPT ![j] = NoJob]
    /\ UNCHANGED <<clock, skew, disableAsync, fields, lock, callerVars>>

JobFail(j) ==
    /\ job[j].st = "awaiting"
    /\ SetJob(j, "failed", NoToken)
    /\ UNCHANGED <<clock, skew, disableAsync, fields, lock, callerVars>>

\* Faulty: the worker returns without releasing the lock.
JobCommitHeld(j) ==
    /\ job[j].st \in {"fetched", "failed"} /\ lock = Nobody
    /\ lock' = j
    /\ token' = IF job[j].st = "fetched" THEN job[j].tok ELSE token
    /\ refreshErr' = (refreshErr \/ job[j].st = "failed")
    /\ isRefreshing' = FALSE
    /\ job' = [job EXCEPT ![j] = NoJob]
    /\ UNCHANGED <<clock, skew, disableAsync, callerVars>>

\* Faulty: the flag is cleared by a successful refresh only.
JobCommitFlag(j) ==
    /\ job[j].st \in {"fetched", "failed"} /\ lock = Nobody
    /\ IF job[j].st = "fetched"
       THEN token' = job[j].tok /\ isRefreshing' = FALSE /\ UNCHANGED refreshErr
       ELSE refreshErr' = TRUE /\ UNCHANGED <<token, isRefreshing>>
    /\ job' = [job EXCEPT ![j] = NoJob]
    /\ UNCHANGED <<clock, skew, disableAsync, lock, callerVars>>

\* Faulty: the result is stored without the lock.
JobCommitUnlocked(j) ==
    /\ job[j].st \in {"fetched", "failed"}
    /\ IF job[j].st = "fetched"
       THEN token' = job[j].tok /\ UNCHANGED refreshErr
       ELSE refreshErr' = TRUE /\ UNCHANGED token
    /\ isRefreshing' = FALSE
    /\ job' = [job EXCEPT ![j] = NoJob]
    /\ UNCHANGED <<clock, skew, disableAsync, lock, callerVars>>

\* The `with self._lock' block that ends _refresh_internal; nothing in it waits,
\* so that taking and releasing the lock are one step.
JobCommit(j) ==
    /\ job[j].st \in {"fetched", "failed"} /\ lock = Nobody
    /\ IF job[j].st = "fetched"
       THEN token' = job[j].tok /\ UNCHANGED refreshErr
       ELSE refreshErr' = TRUE /\ UNCHANGED token
    /\ isRefreshing' = FALSE
    /\ job' = [job EXCEPT ![j] = NoJob]
    /\ UNCHANGED <<clock, skew, disableAsync, lock, callerVars>>

-----------------------------------------------------------------------------
(* Time                                                                    *)

\* Time passes, but not past the answer of a request or the return of a caller
\* that is due.
Tick ==
    /\ clock < MaxClock
    /\ \A c \in Callers :
          /\ pc[c] \in {"trigger", "return"} => clock < since[c] + Pause
          /\ pc[c] = "awaiting" => clock < since[c] + Latency
    /\ \A j \in Jobs : job[j].st = "awaiting" => clock < job[j].since + Latency
    /\ clock' = clock + 1
    /\ UNCHANGED <<skew, disableAsync, fields, lock, callerVars, job>>

\* Summer time ends: local time, which the code reads without a time zone, jumps
\* back once.
ClockFallsBack ==
    /\ FallBack > 0 /\ skew = 0
    /\ skew' = FallBack
    /\ UNCHANGED <<clock, disableAsync, fields, lock, callerVars, job>>

-----------------------------------------------------------------------------
Init ==
    /\ clock = 0 /\ skew = 0
    /\ disableAsync \in BOOLEAN
    /\ token \in InitTokens \cup {NoToken}
    /\ isRefreshing = FALSE /\ refreshErr = FALSE
    /\ lock = Nobody
    /\ pc = [c \in Callers |-> "idle"]
    /\ choice = [c \in Callers |-> NoToken]
    /\ since = [c \in Callers |-> 0]
    /\ job = [j \in Jobs |-> NoJob]
    /\ calls = [c \in Callers |-> 0]

\* What a caller does without waiting for the program that calls token().
CallerStep(c) ==
    \/ Acquire(c) \/ KeepToken(c) \/ FallThrough(c)
    \/ Submit(c) \/ SkipSubmit(c) \/ BlockingToken(c)
    \/ RefreshReturn(c) \/ RefreshFail(c) \/ Return(c)

JobStep(j) == JobStart(j) \/ JobReturn(j) \/ JobFail(j) \/ JobCommit(j)

Next ==
    \/ \E c \in Callers : Call(c) \/ CallerStep(c)
    \/ \E j \in Jobs : JobStep(j)
    \/ Tick \/ ClockFallsBack

Spec == Init /\ [][Next]_vars

\* Threads and workers run, and requests are answered in the end; nobody is
\* obliged to call token(), nor to advance the clock.
FairSpec ==
    /\ Spec
    /\ \A c \in Callers : WF_vars(CallerStep(c))
    /\ \A j \in Jobs : WF_vars(JobStep(j))

-----------------------------------------------------------------------------
(* Properties                                                              *)

\* What keeps the lock a lock: its owner is the one caller inside token().
LockInv == \A c \in Callers : pc[c] \in Locked <=> lock = c

\* How fresh a belief may be: an expiry runs ahead of the server's by no more
\* than the latency of the answer it came with.
Believable(t) == t.some => t.expiry =< t.real + Latency

\* Why returned tokens are accepted, as an inductive invariant of a clock that
\* does not jump: chosen tokens leave more time than the caller has left, and
\* requests are not older than the latency.
TimingInv ==
    /\ Believable(token)
    /\ \A c \in Callers :
          /\ pc[c] \in {"trigger", "return"} =>
                /\ choice[c].real - since[c] > Reject + Pause
                /\ since[c] =< clock /\ clock =< since[c] + Pause
          /\ pc[c] = "awaiting" =>
                since[c] =< clock /\ clock =< since[c] + Latency
    /\ \A j \in Jobs :
          /\ job[j].st = "awaiting" =>
                job[j].since =< clock /\ clock =< job[j].since + Latency
          /\ job[j].st = "fetched" => Believable(job[j].tok)

FreshnessInv == skew = 0 => TimingInv

\* "Returns a valid token" (docstring of token()): a token a caller is about to
\* return is one the server still accepts.
AllReturnsAccepted ==
    \A c \in Callers :
        pc[c] = "return" => choice[c].real - clock > Reject

\* This is so unless local time has jumped back: in spite of the latency hidden in
\* the expiry, of the time spent between the check and the return, and of whatever
\* a background refresh stored meanwhile.
ReturnedTokenAccepted ==
    skew = 0 => AllReturnsAccepted

\* _is_refreshing is never left behind: while it is set, a background refresh is
\* under way that will clear it.  Otherwise no stale token would ever be
\* renewed in the background again.
NoStuckRefreshFlag ==
    isRefreshing => \E j \in Jobs : InFlight(j)

\* The comment in _blocking_token: a caller fetches a token itself, and so can
\* fail, only while the stored one is expired.  No refresh that ended while it
\* waited for the lock, nor one that ends during its own, makes it needless (as long
\* as local time does not jump back).
RefreshOnlyWhenExpired ==
    skew = 0 => \A c \in Callers : pc[c] = "awaiting" => Expired

\* Every token() call ends, with a token or an error, once the other threads
\* have had their turn: the lock is released on every path.
EveryCallReturns ==
    \A c \in Callers : pc[c] = "waiting" ~> pc[c] = "idle"

\* A background refresh, failed ones included, always makes way for the next.
RefreshFlagClears == isRefreshing ~> ~isRefreshing
=============================================================================
