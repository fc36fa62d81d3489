--------------------------- MODULE RefreshableProofs ---------------------------
(***************************************************************************)
(* Proofs about Refreshable, for any set of callers, any number of         *)
(* background jobs and any timing that satisfies TimingAssumption; and     *)
(* about SessionLogin, for any processes, starts and logins.  Its          *)
(* SessionCredentials is a Refreshable, but shares no state with these.    *)
(***************************************************************************)
EXTENDS Refreshable, SessionLogin, TLAPS

-----------------------------------------------------------------------------
(* Type correctness                                                        *)

\* A token minted from an answer is a token.
LEMMA AnswersType ==
    ASSUME clock \in Nat, skew \in Int, NEW sent \in Int
    PROVE  Answers(sent) \subseteq Token
<1> SUFFICES ASSUME NEW t \in Answers(sent) PROVE t \in Token
  OBVIOUS
<1>1. PICK life \in Lifetimes, mint \in sent..clock :
         t = [some |-> TRUE, expiry |-> Now + life, real |-> mint + life]
  BY DEF Answers
<1>2. Now + life \in Int /\ mint + life \in Int
  BY ConstantsAssumption DEF Now
<1> QED BY <1>1, <1>2 DEF Token

\* Every variable keeps its type: in particular every job slot holds a job and
\* the lock is free or owned by one caller.
THEOREM TypeCorrect == Spec => []TypeOK
<1>1. Init => TypeOK
  <2> SUFFICES ASSUME Init PROVE TypeOK
    OBVIOUS
  <2>1. NoToken \in Token /\ NoJob \in Job
    BY DEF NoToken, Token, NoJob, InState, Job, JobStates
  <2>2. token \in Token
    BY <2>1, ConstantsAssumption DEF Init
  <2>3. job \in [Jobs -> Job] /\ choice \in [Callers -> Token]
    BY <2>1 DEF Init
  <2>4. pc \in [Callers -> PCs] /\ since \in [Callers -> Int]
    BY DEF Init, PCs
  <2>5. calls \in [Callers -> Nat]
    BY DEF Init
  <2>6. clock \in Nat /\ skew \in Int /\ lock \in Callers \cup {Nobody}
    BY DEF Init
  <2>7. /\ disableAsync \in BOOLEAN
        /\ isRefreshing \in BOOLEAN /\ refreshErr \in BOOLEAN
    BY DEF Init
  <2> QED BY <2>2, <2>3, <2>4, <2>5, <2>6, <2>7, Zenon DEF TypeOK
<1>2. TypeOK /\ [Next]_vars => TypeOK'
  <2> SUFFICES ASSUME TypeOK, [Next]_vars PROVE TypeOK'
    OBVIOUS
  <2> USE DEF TypeOK
  <2>1. NoToken \in Token /\ NoJob \in Job
    BY DEF NoToken, Token, NoJob, InState, Job, JobStates
  <2>2. ASSUME NEW c \in Callers, Call(c) PROVE TypeOK'
    BY <2>2 DEF Call, Goto, PCs, fields
  <2>3. ASSUME NEW c \in Callers, Acquire(c) PROVE TypeOK'
    BY <2>3 DEF Acquire, Goto, PCs, fields
  <2>4. ASSUME NEW c \in Callers, KeepToken(c) PROVE TypeOK'
    BY <2>4 DEF KeepToken, Choose, Goto, PCs, fields
  <2>5. ASSUME NEW c \in Callers, FallThrough(c) PROVE TypeOK'
    BY <2>5 DEF FallThrough, Goto, PCs, fields
  <2>6. ASSUME NEW c \in Callers, Submit(c) PROVE TypeOK'
    <3>1. job' \in [Jobs -> Job]
      BY <2>1, <2>6 DEF Submit, InState, Job, JobStates
    <3> QED BY <2>6, <3>1 DEF Submit, Goto, PCs
  <2>7. ASSUME NEW c \in Callers, SkipSubmit(c) PROVE TypeOK'
    BY <2>7 DEF SkipSubmit, Goto, PCs, fields
  <2>8. ASSUME NEW c \in Callers, BlockingToken(c) PROVE TypeOK'
    <3>1. pc' \in [Callers -> PCs]
      BY <2>8 DEF BlockingToken, Goto, PCs
    <3>2. choice' \in [Callers -> Token] /\ since' \in [Callers -> Int]
      BY <2>8 DEF BlockingToken, Choose
    <3> QED BY <2>8, <3>1, <3>2 DEF BlockingToken
  <2>9. ASSUME NEW c \in Callers, RefreshReturn(c) PROVE TypeOK'
    <3>1. PICK t \in Answers(since[c]) : token' = t /\ Choose(c, t)
      BY <2>9 DEF RefreshReturn
    <3>2. t \in Token
      BY AnswersType
    <3> QED BY <2>9, <3>1, <3>2 DEF RefreshReturn, Choose, Goto, PCs
  <2>10. ASSUME NEW c \in Callers, RefreshFail(c) \/ Return(c) PROVE TypeOK'
    BY <2>1, <2>10 DEF RefreshFail, Return, Forget, Goto, PCs, fields
  <2>11. ASSUME NEW j \in Jobs, JobStart(j) PROVE TypeOK'
    <3>1. InState("awaiting", NoToken, clock) \in Job
      BY <2>1 DEF InState, Job, JobStates
    <3>2. job' \in [Jobs -> Job]
      BY <2>11, <3>1 DEF JobStart
    <3> QED BY <2>11, <3>2 DEF JobStart, fields, callerVars
  <2>12. ASSUME NEW j \in Jobs, JobReturn(j) PROVE TypeOK'
    <3>1. PICK t \in Answers(job[j].since) : SetJob(j, "fetched", t)
      BY <2>12 DEF JobReturn
    <3>2. t \in Token
      BY AnswersType DEF Job
    <3> QED BY <2>12, <3>1, <3>2 DEF JobReturn, SetJob, InState, Job, JobStates, fields, callerVars
  <2>13. ASSUME NEW j \in Jobs, JobFail(j) PROVE TypeOK'
    BY <2>1, <2>13 DEF JobFail, SetJob, InState, Job, JobStates, fields, callerVars
  <2>14. ASSUME NEW j \in Jobs, JobCommit(j) PROVE TypeOK'
    BY <2>1, <2>14 DEF JobCommit, Job, callerVars
  <2>15. CASE Tick
    BY <2>15 DEF Tick, fields, callerVars
  <2>16. CASE ClockFallsBack
    BY <2>16, ConstantsAssumption DEF ClockFallsBack, fields, callerVars
  <2>17. CASE UNCHANGED vars
    BY <2>17 DEF vars, fields, callerVars
  <2> QED
    BY <2>2, <2>3, <2>4, <2>5, <2>6, <2>7, <2>8, <2>9, <2>10, <2>11, <2>12,
       <2>13, <2>14, <2>15, <2>16, <2>17 DEF Next, CallerStep, JobStep
<1> QED
  BY <1>1, <1>2, PTL DEF Spec

-----------------------------------------------------------------------------
(* The refresh flag                                                        *)

\* _is_refreshing is set only while a background refresh is in flight: whichever
\* of the overlapping refreshes ends, and however it ends, it clears the flag.
THEOREM FlagNeverStuck == Spec => []NoStuckRefreshFlag
<1> DEFINE Inv == TypeOK /\ NoStuckRefreshFlag
<1>1. Init => NoStuckRefreshFlag
  BY DEF Init, NoStuckRefreshFlag
<1>2. TypeOK /\ NoStuckRefreshFlag /\ [Next]_vars => NoStuckRefreshFlag'
  <2> SUFFICES ASSUME TypeOK, NoStuckRefreshFlag, [Next]_vars, isRefreshing'
               PROVE  \E j \in Jobs : InFlight(j)'
    BY DEF NoStuckRefreshFlag
  <2> USE DEF TypeOK
  <2>1. CASE job' = job /\ isRefreshing' = isRefreshing
    BY <2>1 DEF NoStuckRefreshFlag, InFlight
  <2>2. ASSUME NEW c \in Callers, Submit(c)
        PROVE  \E j \in Jobs : InFlight(j)'
    BY <2>2 DEF Submit, InFlight, InState
  <2>3. ASSUME NEW c \in Callers, BlockingToken(c) PROVE FALSE
    BY <2>3 DEF BlockingToken
  <2>4. ASSUME NEW j \in Jobs, JobStart(j) \/ JobReturn(j) \/ JobFail(j)
        PROVE  \E i \in Jobs : InFlight(i)'
    BY <2>4 DEF JobStart, JobReturn, JobFail, SetJob, InFlight, InState
  <2>5. ASSUME NEW j \in Jobs, JobCommit(j) PROVE FALSE
    BY <2>5 DEF JobCommit
  <2>6. ASSUME NEW c \in Callers, Call(c) \/ CallerStep(c), ~Submit(c), ~BlockingToken(c)
        PROVE  job' = job /\ isRefreshing' = isRefreshing
    BY <2>6 DEF CallerStep, Call, Acquire, KeepToken, FallThrough, SkipSubmit,
                RefreshReturn, RefreshFail, Return, fields
  <2>7. CASE Tick \/ ClockFallsBack \/ UNCHANGED vars
    BY <2>7, <2>1 DEF Tick, ClockFallsBack, vars, fields
  <2> QED
    BY <2>1, <2>2, <2>3, <2>4, <2>5, <2>6, <2>7 DEF Next, JobStep
<1> QED
  BY <1>1, <1>2, TypeCorrect, PTL DEF Spec

-----------------------------------------------------------------------------
(* The lock                                                                *)

\* The lock's owner is the one caller between `with self._lock' and its end.
THEOREM LockCorrect == Spec => []LockInv
<1>1. Init => LockInv
  BY ConstantsAssumption DEF Init, LockInv, Locked, PCs
<1>2. TypeOK /\ LockInv /\ [Next]_vars => LockInv'
  <2> SUFFICES ASSUME TypeOK, LockInv, [Next]_vars PROVE LockInv'
    OBVIOUS
  <2> USE ConstantsAssumption DEF TypeOK, LockInv, Locked, PCs, Goto
  <2>1. ASSUME NEW c \in Callers, Call(c) \/ Acquire(c) PROVE LockInv'
    BY <2>1 DEF Call, Acquire
  <2>2. ASSUME NEW c \in Callers, KeepToken(c) \/ FallThrough(c) PROVE LockInv'
    BY <2>2 DEF KeepToken, FallThrough
  <2>3. ASSUME NEW c \in Callers, Submit(c) \/ SkipSubmit(c) PROVE LockInv'
    BY <2>3 DEF Submit, SkipSubmit
  <2>4. ASSUME NEW c \in Callers, BlockingToken(c) \/ RefreshReturn(c) PROVE LockInv'
    BY <2>4 DEF BlockingToken, RefreshReturn
  <2>5. ASSUME NEW c \in Callers, RefreshFail(c) \/ Return(c) PROVE LockInv'
    BY <2>5 DEF RefreshFail, Return
  <2>6. ASSUME NEW j \in Jobs, JobStep(j) PROVE LockInv'
    BY <2>6 DEF JobStep, JobStart, JobReturn, JobFail, JobCommit, callerVars
  <2>7. CASE Tick \/ ClockFallsBack \/ UNCHANGED vars
    BY <2>7 DEF Tick, ClockFallsBack, vars, callerVars
  <2> QED
    BY <2>1, <2>2, <2>3, <2>4, <2>5, <2>6, <2>7 DEF Next, CallerStep
<1> QED
  BY <1>1, <1>2, TypeCorrect, PTL DEF Spec

-----------------------------------------------------------------------------
(* Refreshes are needed                                                    *)

\* Local time, once it has jumped back, stays behind.
LEMMA SkewOnlyGrows ==
    ASSUME [Next]_vars, skew' = 0 PROVE skew = 0
<1> USE ConstantsAssumption
<1>1. CASE ClockFallsBack
  BY <1>1 DEF ClockFallsBack
<1>2. CASE ~ClockFallsBack
  BY <1>2 DEF Next, CallerStep, JobStep, Call, Acquire, KeepToken, FallThrough, Submit,
     SkipSubmit, BlockingToken, RefreshReturn, RefreshFail, Return, JobStart,
     JobReturn, JobFail, JobCommit, Tick, vars
<1> QED BY <1>1, <1>2

\* While a caller holds the lock and waits for its answer, the stored token stays
\* expired, as long as local time does not jump back.
THEOREM BlockingRefreshNeeded == Spec => []RefreshOnlyWhenExpired
<1> USE ConstantsAssumption
<1>1. Init => RefreshOnlyWhenExpired
  BY DEF Init, RefreshOnlyWhenExpired
<1>2. TypeOK /\ LockInv /\ RefreshOnlyWhenExpired /\ [Next]_vars => RefreshOnlyWhenExpired'
  <2> SUFFICES ASSUME TypeOK, LockInv, RefreshOnlyWhenExpired, [Next]_vars, skew' = 0
               PROVE  RefreshOnlyWhenExpired'
    BY DEF RefreshOnlyWhenExpired
  <2>1. skew = 0 /\ skew' = 0
    BY SkewOnlyGrows
  <2> SUFFICES ASSUME NEW d \in Callers, pc'[d] = "awaiting" PROVE Expired'
    BY <2>1 DEF RefreshOnlyWhenExpired
  <2> USE DEF TypeOK, Goto
  <2>2. CASE /\ token' = token /\ clock' \in Nat /\ clock' >= clock
             /\ pc[d] = "awaiting"
    <3>1. Expired
      BY <2>1, <2>2 DEF RefreshOnlyWhenExpired
    <3> QED BY <2>1, <2>2, <3>1 DEF Expired, Valid, Now, Token
  <2>3. ASSUME NEW c \in Callers, BlockingToken(c) PROVE Expired'
    <3>1. CASE c = d
      BY <2>3, <3>1, <2>1 DEF BlockingToken, Expired, Valid, Now
    <3>2. CASE c # d
      BY <2>3, <3>2, <2>2 DEF BlockingToken
    <3> QED BY <3>1, <3>2
  <2>4. ASSUME NEW c \in Callers, RefreshReturn(c) PROVE FALSE
    BY <2>4 DEF RefreshReturn, LockInv, Locked, PCs
  <2>5. ASSUME NEW j \in Jobs, JobCommit(j) PROVE FALSE
    BY <2>5 DEF JobCommit, LockInv, Locked, PCs, callerVars
  <2>6. ASSUME NEW c \in Callers, Call(c) \/ CallerStep(c),
               ~BlockingToken(c), ~RefreshReturn(c)
        PROVE  token' = token /\ clock' = clock /\ pc[d] = "awaiting"
    BY <2>6 DEF CallerStep, Call, Acquire, KeepToken, FallThrough, Submit,
                SkipSubmit, RefreshFail, Return, fields
  <2>7. ASSUME NEW j \in Jobs, JobStart(j) \/ JobReturn(j) \/ JobFail(j)
        PROVE  token' = token /\ clock' = clock /\ pc[d] = "awaiting"
    BY <2>7 DEF JobStart, JobReturn, JobFail, fields, callerVars
  <2>8. CASE Tick \/ ClockFallsBack \/ UNCHANGED vars
    BY <2>8, <2>2 DEF Tick, ClockFallsBack, vars, fields, callerVars
  <2> QED
    BY <2>2, <2>3, <2>4, <2>5, <2>6, <2>7, <2>8 DEF Next, CallerStep, JobStep
<1> QED
  BY <1>1, <1>2, TypeCorrect, LockCorrect, PTL DEF Spec

-----------------------------------------------------------------------------
(* Returned tokens are accepted                                            *)

\* The belief formed from an answer is off by the latency at most, and the token
\* lives long enough to be returned.
LEMMA AnswersFresh ==
    ASSUME clock \in Nat, skew = 0, NEW sent \in Int,
           sent =< clock, clock =< sent + Latency, NEW t \in Answers(sent)
    PROVE  Believable(t) /\ t.some /\ t.real - clock > Reject + Pause
<1>1. PICK life \in Lifetimes, mint \in sent..clock :
         t = [some |-> TRUE, expiry |-> Now + life, real |-> mint + life]
  BY DEF Answers
<1>2. life \in Nat /\ life > Reject + Latency + Pause
  BY ConstantsAssumption, TimingAssumption
<1> QED
  BY <1>1, <1>2, ConstantsAssumption DEF Believable, Now

\* A token whose belief is that good and that passes the check of Token.valid is
\* accepted until the caller has returned.
LEMMA ValidIsFresh ==
    ASSUME clock \in Nat, skew = 0, NEW t \in Token, Believable(t), Valid(t)
    PROVE  t.real - clock > Reject + Pause
BY ConstantsAssumption, TimingAssumption DEF Token, Believable, Valid, Now

\* FreshnessInv holds from the start and every step preserves it.
THEOREM FreshnessInvariant == Spec => []FreshnessInv
<1>1. Init => FreshnessInv
  <2> SUFFICES ASSUME Init PROVE FreshnessInv
    OBVIOUS
  <2>1. Believable(token)
    BY TimingAssumption DEF Init, Believable, NoToken
  <2> QED BY <2>1 DEF Init, FreshnessInv, TimingInv, NoJob, InState
<1>2. TypeOK /\ FreshnessInv /\ [Next]_vars => FreshnessInv'
  <2> SUFFICES ASSUME TypeOK, FreshnessInv, [Next]_vars, skew' = 0 PROVE TimingInv'
    BY DEF FreshnessInv
  <2>0. skew = 0 /\ TimingInv
    BY SkewOnlyGrows DEF FreshnessInv
  <2> USE <2>0, ConstantsAssumption DEF TypeOK, Goto
  <2>1. ASSUME NEW c \in Callers,
               Call(c) \/ Acquire(c) \/ FallThrough(c) \/ SkipSubmit(c)
        PROVE  TimingInv'
    BY <2>1 DEF Call, Acquire, FallThrough, SkipSubmit, TimingInv, fields, Believable
  <2>2. ASSUME NEW c \in Callers, KeepToken(c) PROVE TimingInv'
    <3>1. Valid(token)
      BY <2>2 DEF KeepToken, Expired
    <3>2. token.real - clock > Reject + Pause
      BY <3>1, ValidIsFresh DEF TimingInv
    <3> QED BY <2>2, <3>2 DEF KeepToken, Choose, TimingInv, fields, Believable
  <2>3. ASSUME NEW c \in Callers, Submit(c) PROVE TimingInv'
    BY <2>3 DEF Submit, InState, TimingInv, Believable
  <2>4. ASSUME NEW c \in Callers, BlockingToken(c) PROVE TimingInv'
    <3>1. CASE Expired
      BY <2>4, <3>1 DEF BlockingToken, TimingInv, Believable
    <3>2. CASE ~Expired
      <4>1. token.real - clock > Reject + Pause
        BY <3>2, ValidIsFresh DEF TimingInv, Expired
      <4> QED BY <2>4, <3>2, <4>1 DEF BlockingToken, Choose, TimingInv, Believable
    <3> QED BY <3>1, <3>2
  <2>5. ASSUME NEW c \in Callers, RefreshReturn(c) PROVE TimingInv'
    <3>1. PICK t \in Answers(since[c]) : token' = t /\ Choose(c, t)
      BY <2>5 DEF RefreshReturn
    <3>2. Believable(t) /\ t.real - clock > Reject + Pause
      BY <2>5, AnswersFresh DEF RefreshReturn, TimingInv
    <3> QED BY <2>5, <3>1, <3>2 DEF RefreshReturn, Choose, TimingInv, Believable
  <2>6. ASSUME NEW c \in Callers, RefreshFail(c) \/ Return(c) PROVE TimingInv'
    BY <2>6 DEF RefreshFail, Return, Forget, TimingInv, fields, Believable
  <2>7. ASSUME NEW j \in Jobs, JobStart(j) PROVE TimingInv'
    BY <2>7 DEF JobStart, InState, TimingInv, fields, callerVars, Believable
  <2>8. ASSUME NEW j \in Jobs, JobReturn(j) PROVE TimingInv'
    <3>1. PICK t \in Answers(job[j].since) : SetJob(j, "fetched", t)
      BY <2>8 DEF JobReturn
    <3>2. Believable(t)
      BY <2>8, AnswersFresh DEF JobReturn, TimingInv, Job
    <3> QED BY <2>8, <3>1, <3>2 DEF JobReturn, SetJob, InState, TimingInv, fields, callerVars, Believable
  <2>9. ASSUME NEW j \in Jobs, JobFail(j) PROVE TimingInv'
    BY <2>9 DEF JobFail, SetJob, InState, TimingInv, fields, callerVars, Believable
  <2>10. ASSUME NEW j \in Jobs, JobCommit(j) PROVE TimingInv'
    BY <2>10 DEF JobCommit, NoJob, InState, TimingInv, callerVars, Believable
  <2>11. CASE Tick
    BY <2>11 DEF Tick, TimingInv, fields, callerVars, Believable, Job
  <2>12. CASE ClockFallsBack
    BY <2>12, <2>0 DEF ClockFallsBack
  <2>13. CASE UNCHANGED vars
    BY <2>13 DEF vars, fields, callerVars, TimingInv, Believable
  <2> QED
    BY <2>1, <2>2, <2>3, <2>4, <2>5, <2>6, <2>7, <2>8, <2>9, <2>10, <2>11,
       <2>12, <2>13 DEF Next, CallerStep, JobStep
<1> QED
  BY <1>1, <1>2, TypeCorrect, PTL DEF Spec

\* A token about to be returned is accepted by the server, for every latency,
\* pause and rejection margin that fit into the buffer, as long as local time does
\* not jump back.
THEOREM ReturnedTokensAccepted == Spec => []ReturnedTokenAccepted
<1>1. TypeOK /\ FreshnessInv => ReturnedTokenAccepted
  BY ConstantsAssumption 
  DEF TypeOK, FreshnessInv, TimingInv, ReturnedTokenAccepted, AllReturnsAccepted, Token
<1> QED
  BY <1>1, TypeCorrect, FreshnessInvariant, PTL

-----------------------------------------------------------------------------
(* SessionLogin: types                                                     *)

Session == [of : Logins, expired : BOOLEAN]

\* Where a process has credentials, and where it has a callback.
WithCredentials ==
    {"token", "tokenRefresh", "open", "dump", "dumpRefresh", "write", "use", "useRefresh"}
WithCallback == {"state", "exchange"}
Stages == WithCredentials \cup WithCallback \cup {"idle", "load", "login", "bind", "listen"}

SessionTypeOK ==
    /\ tokens \in Seq(Session)
    /\ file \in Seq(Nat) /\ \A k \in 1..Len(file) : file[k] \in 1..Len(tokens)
    /\ pages \in SUBSET Logins
    /\ starts \in [Processes -> 0..MaxStarts]
    /\ stage \in [Processes -> Stages]
    /\ credentials \in [Processes -> Nat]
    /\ callback \in [Processes -> Logins \cup {<<>>}]
    /\ origin \in [Processes -> BOOLEAN] /\ excused \in [Processes -> BOOLEAN]
    /\ alone \in SUBSET Processes /\ saved \in BOOLEAN

\* A process that runs has started, has credentials where it uses them, and a login
\* where it looks at the callback.
StageInv ==
    \A p \in Processes :
        /\ stage[p] # "idle" => starts[p] # 0
        /\ stage[p] \in WithCredentials => credentials[p] \in 1..Len(tokens)
        /\ stage[p] \in WithCallback => callback[p] \in Logins

\* The code that is exchanged is from the process' own login, and so is the session.
OwnInv ==
    \A p \in Processes :
        /\ stage[p] = "exchange" => callback[p] = ThisLogin(p)
        /\ stage[p] \in {"open"} \cup Saving => tokens[credentials[p]].of = ThisLogin(p)

\* A process alone with the file finds it empty; what it has written is one token, until
\* somebody opens the file again; and a login is excused.
FileInv ==
    /\ \A q \in alone :
        /\ stage[q] \in Saving /\ file = <<>>
        /\ \A r \in Processes : stage[r] \in Saving => r = q
    /\ saved => Len(file) = 1 /\ \A r \in Processes : stage[r] \notin Saving
    /\ \A p \in Processes : stage[p] = "login" => excused[p]

SessionInv == SessionTypeOK /\ StageInv /\ OwnInv /\ FileInv

\* A token that is issued comes after those that have been, and is of its login.
LEMMA Issued ==
    ASSUME tokens \in Seq(Session), NEW login \in Logins, Issue(login)
    PROVE  /\ tokens' \in Seq(Session) /\ Len(tokens') = Len(tokens) + 1
           /\ \A k \in 1..Len(tokens) : tokens'[k] = tokens[k]
           /\ tokens'[Len(tokens')].of = login
<1> DEFINE t == [of |-> login, expired |-> FALSE]
<1>1. t \in Session /\ t.of = login  BY DEF Session
<1>2. tokens' = Append(tokens, t)  BY DEF Issue
<1> HIDE DEF t
<1> QED  BY <1>1, <1>2

\* A token that expires remains one of its login.
LEMMA ExpiryKeepsLogin ==
    ASSUME tokens \in Seq(Session), NEW i \in DOMAIN tokens, Expire(i)
    PROVE  /\ tokens' \in Seq(Session) /\ Len(tokens') = Len(tokens)
           /\ \A k \in 1..Len(tokens) : tokens'[k].of = tokens[k].of
<1> DEFINE t == [tokens[i] EXCEPT !.expired = TRUE]
<1>1. i \in 1..Len(tokens) /\ tokens[i] \in Session  OBVIOUS
<1>2. t \in Session /\ t.of = tokens[i].of  BY <1>1 DEF Session
<1>3. tokens' = [tokens EXCEPT ![i] = t]  BY DEF Expire
<1> HIDE DEF t
<1> QED  BY <1>1, <1>2, <1>3

LEMMA LoginIsLogin ==
    ASSUME SessionTypeOK, NEW p \in Processes, starts[p] # 0
    PROVE  ThisLogin(p) \in Logins
<1>1. starts[p] \in 1..MaxStarts  BY LoginAssumption DEF SessionTypeOK
<1> QED  BY <1>1 DEF ThisLogin, Logins

\* What a step of the process p leaves as it is for the others.
OthersSame(p) ==
    \A q \in Processes : q # p =>
        /\ stage'[q] = stage[q] /\ starts'[q] = starts[q]
        /\ credentials'[q] = credentials[q] /\ callback'[q] = callback[q]

\* Tokens are issued and expire, and remain of their logins.
TokensStay ==
    /\ Len(tokens) <= Len(tokens')
    /\ \A k \in 1..Len(tokens) : tokens'[k].of = tokens[k].of

\* A step of p keeps what the other processes rely on.
LEMMA OwnStays ==
    ASSUME SessionTypeOK, StageInv, OwnInv, NEW p \in Processes, OthersSame(p), TokensStay,
           Len(tokens') \in Nat,
           stage'[p] # "idle" => starts'[p] # 0,
           stage'[p] \in WithCredentials => credentials'[p] \in 1..Len(tokens'),
           stage'[p] \in WithCallback => callback'[p] \in Logins,
           stage'[p] = "exchange" => callback'[p] = <<p, starts'[p]>>,
           stage'[p] \in {"open"} \cup Saving => tokens'[credentials'[p]].of = <<p, starts'[p]>>
    PROVE  StageInv' /\ OwnInv'
<1>1. ASSUME NEW q \in Processes, q # p
      PROVE  /\ stage'[q] # "idle" => starts'[q] # 0
             /\ stage'[q] \in WithCredentials => credentials'[q] \in 1..Len(tokens')
             /\ stage'[q] \in WithCallback => callback'[q] \in Logins
             /\ stage'[q] = "exchange" => callback'[q] = <<q, starts'[q]>>
             /\ stage'[q] \in {"open"} \cup Saving
                    => tokens'[credentials'[q]].of = <<q, starts'[q]>>
  <2>1. /\ stage'[q] = stage[q] /\ starts'[q] = starts[q]
        /\ credentials'[q] = credentials[q] /\ callback'[q] = callback[q]
    BY <1>1 DEF OthersSame
  <2>2. stage[q] \in WithCredentials => credentials[q] \in 1..Len(tokens)  BY DEF StageInv
  <2>3. Len(tokens) \in Nat  BY DEF SessionTypeOK
  <2>4. stage[q] \in WithCredentials => credentials[q] \in 1..Len(tokens')
    BY <2>2, <2>3 DEF TokensStay
  <2>5. stage[q] \in {"open"} \cup Saving => stage[q] \in WithCredentials
    BY DEF Saving, WithCredentials
  <2>6. stage[q] \in {"open"} \cup Saving => tokens'[credentials[q]].of = tokens[credentials[q]].of
    BY <2>2, <2>5 DEF TokensStay
  <2>7. stage[q] \in {"open"} \cup Saving => tokens'[credentials[q]].of = <<q, starts[q]>>
    BY <2>6 DEF OwnInv, ThisLogin
  <2> QED  BY <2>1, <2>4, <2>7 DEF StageInv, OwnInv, ThisLogin
<1>2. StageInv'  BY <1>1 DEF StageInv, WithCredentials, WithCallback, Logins
<1>3. OwnInv'  BY <1>1 DEF OwnInv, Saving, ThisLogin
<1> QED  BY <1>2, <1>3

\* A step of p that leaves the file keeps what is said about it.
LEMMA FileStays ==
    ASSUME SessionTypeOK, FileInv, NEW p \in Processes, UNCHANGED <<file, saved>>,
           alone' \subseteq alone,
           \A q \in Processes : q # p => stage'[q] = stage[q] /\ excused'[q] = excused[q],
           stage'[p] \in Saving => stage[p] \in Saving,
           p \in alone' => stage'[p] \in Saving,
           stage'[p] = "login" => excused'[p]
    PROVE  FileInv'
<1>1. ASSUME NEW q \in alone'
      PROVE  /\ stage'[q] \in Saving /\ file' = <<>>
             /\ \A r \in Processes : stage'[r] \in Saving => r = q
  <2>1. q \in alone /\ q \in Processes  BY DEF SessionTypeOK
  <2>2. stage[q] \in Saving /\ file = <<>> /\ \A r \in Processes : stage[r] \in Saving => r = q
    BY <2>1 DEF FileInv
  <2> QED  BY <2>1, <2>2
<1>2. saved' => Len(file') = 1 /\ \A r \in Processes : stage'[r] \notin Saving
  BY DEF FileInv
<1>3. \A q \in Processes : stage'[q] = "login" => excused'[q]  BY DEF FileInv
<1> QED  BY <1>1, <1>2, <1>3 DEF FileInv, Saving

LEMMA SessionStep ==
    ASSUME SessionInv, [LoginNext]_loginVars
    PROVE  SessionInv'
<1> DEFINE Goal == SessionTypeOK' /\ StageInv' /\ OwnInv' /\ FileInv'
<1>a. SessionTypeOK /\ StageInv /\ OwnInv /\ FileInv  BY DEF SessionInv
<1>b. /\ tokens \in Seq(Session) /\ Len(tokens) \in Nat
      /\ file \in Seq(Nat) /\ \A k \in 1..Len(file) : file[k] \in 1..Len(tokens)
      /\ pages \in SUBSET Logins
      /\ starts \in [Processes -> 0..MaxStarts]
      /\ stage \in [Processes -> Stages]
      /\ credentials \in [Processes -> Nat]
      /\ callback \in [Processes -> Logins \cup {<<>>}]
      /\ origin \in [Processes -> BOOLEAN] /\ excused \in [Processes -> BOOLEAN]
      /\ alone \in SUBSET Processes /\ saved \in BOOLEAN
  BY <1>a DEF SessionTypeOK
<1>c. ASSUME NEW p \in Processes
      PROVE  /\ stage[p] # "idle" => starts[p] # 0
             /\ stage[p] \in WithCredentials => credentials[p] \in 1..Len(tokens)
             /\ stage[p] \in WithCallback => callback[p] \in Logins
             /\ stage[p] = "exchange" => callback[p] = <<p, starts[p]>>
             /\ stage[p] \in {"open"} \cup Saving => tokens[credentials[p]].of = <<p, starts[p]>>
             /\ stage[p] = "login" => excused[p]
  BY <1>a DEF StageInv, OwnInv, ThisLogin, FileInv
<1>d. UNCHANGED tokens => TokensStay  BY <1>b DEF TokensStay
<1> HIDE DEF Stages

\* A step that moves only its process.
<1>e. ASSUME NEW p \in Processes, NEW label \in Stages,
             UNCHANGED <<tokens, disk, pages, starts, credentials, callback, origin>>,
             stage' = [stage EXCEPT ![p] = label],
             NEW e \in BOOLEAN, excused' = [excused EXCEPT ![p] = e],
             stage[p] # "idle",
             label \in WithCredentials => credentials[p] \in 1..Len(tokens),
             label \in WithCallback => callback[p] \in Logins,
             label = "exchange" => callback[p] = <<p, starts[p]>>,
             label \in {"open"} \cup Saving => tokens[credentials[p]].of = <<p, starts[p]>>,
             label \in Saving <=> stage[p] \in Saving,
             label = "login" => e
      PROVE  Goal
  <2>1. UNCHANGED <<tokens, file, alone, saved, pages, starts, credentials, callback, origin>>
    BY <1>e DEF disk
  <2>2. stage' \in [Processes -> Stages] /\ excused' \in [Processes -> BOOLEAN]
        /\ stage'[p] = label /\ excused'[p] = e
        /\ \A q \in Processes : q # p => stage'[q] = stage[q] /\ excused'[q] = excused[q]
    BY <1>e, <1>b
  <2>3. SessionTypeOK'  BY <2>1, <2>2, <1>b DEF SessionTypeOK, Stages, WithCredentials,
    WithCallback, Logins, Session
  <2>4. OthersSame(p)  BY <2>1, <2>2 DEF OthersSame
  <2>5. StageInv' /\ OwnInv'
    BY <1>a, <1>b, <1>c, <1>d, <1>e, <2>1, <2>2, <2>4, OwnStays
  <2>6. p \in alone => stage[p] \in Saving  BY <1>a DEF FileInv
  <2>7. FileInv'  BY <1>a, <1>e, <2>1, <2>2, <2>6, FileStays
  <2> QED  BY <2>3, <2>5, <2>7

\* The end of a process.
<1>f. ASSUME NEW p \in Processes, Ends(p)
      PROVE  Goal
  <2>1. /\ UNCHANGED <<tokens, file, saved, pages, starts>> /\ alone' = alone \ {p}
        /\ stage' = [stage EXCEPT ![p] = "idle"]
        /\ credentials' = [credentials EXCEPT ![p] = 0]
        /\ callback' = [callback EXCEPT ![p] = <<>>]
        /\ origin' = [origin EXCEPT ![p] = FALSE] /\ excused' = [excused EXCEPT ![p] = FALSE]
    BY <1>f DEF Ends, Proceed, Hold, ForgetLogin, None
  <2>2. "idle" \in Stages  BY DEF Stages
  <2>3. stage' \in [Processes -> Stages] /\ stage'[p] = "idle"
        /\ \A q \in Processes : q # p =>
              /\ stage'[q] = stage[q] /\ excused'[q] = excused[q]
              /\ credentials'[q] = credentials[q] /\ callback'[q] = callback[q]
    BY <2>1, <2>2, <1>b
  <2>4. /\ credentials' \in [Processes -> Nat] /\ callback' \in [Processes -> Logins \cup {<<>>}]
        /\ origin' \in [Processes -> BOOLEAN] /\ excused' \in [Processes -> BOOLEAN]
        /\ alone' \in SUBSET Processes
    BY <2>1, <1>b
  <2>5. SessionTypeOK'
    BY <2>1, <2>3, <2>4, <1>b DEF SessionTypeOK, Stages, WithCredentials, WithCallback, Logins,
      Session
  <2>6. OthersSame(p)  BY <2>1, <2>3 DEF OthersSame
  <2>7. "idle" \notin WithCredentials \cup WithCallback \cup {"open"} \cup Saving
    BY DEF WithCredentials, WithCallback, Saving
  <2>8. StageInv' /\ OwnInv'
    BY <1>a, <1>b, <1>d, <2>1, <2>3, <2>6, <2>7, OwnStays
  <2>9. FileInv'  BY <1>a, <2>1, <2>3, <2>7, FileStays
  <2> QED  BY <2>5, <2>8, <2>9

<1>1. ASSUME NEW p \in Processes, Start(p)
      PROVE  Goal
  <2>1. /\ UNCHANGED <<tokens, disk, pages, local>> /\ stage[p] = "idle"
        /\ starts[p] < MaxStarts
        /\ starts' = [starts EXCEPT ![p] = starts[p] + 1]
        /\ stage' = [stage EXCEPT ![p] = "load"]
    BY <1>1 DEF Start, Proceed
  <2>2. UNCHANGED <<tokens, file, alone, saved, pages, credentials, callback, origin, excused>>
    BY <2>1 DEF disk, local, scratch
  <2>3. "load" \in Stages  BY DEF Stages
  <2>4. stage' \in [Processes -> Stages] /\ stage'[p] = "load"
        /\ \A q \in Processes : q # p => stage'[q] = stage[q] /\ starts'[q] = starts[q]
    BY <2>1, <2>3, <1>b
  <2>5. starts[p] + 1 \in 0..MaxStarts /\ starts[p] + 1 # 0  BY <2>1, <1>b, LoginAssumption
  <2>6. starts' \in [Processes -> 0..MaxStarts] /\ starts'[p] # 0  BY <2>1, <2>5, <1>b
  <2>7. SessionTypeOK'
    BY <2>2, <2>4, <2>6, <1>b DEF SessionTypeOK, Stages, WithCredentials, WithCallback, Logins,
      Session
  <2>8. OthersSame(p)  BY <2>2, <2>4 DEF OthersSame
  <2>9. "load" \notin WithCredentials \cup WithCallback \cup {"open"} \cup Saving
    BY DEF WithCredentials, WithCallback, Saving
  <2>10. StageInv' /\ OwnInv'
    BY <1>a, <1>b, <1>d, <2>2, <2>4, <2>6, <2>8, <2>9, OwnStays
  <2>11. p \notin alone  BY <2>1, <1>a DEF FileInv, Saving
  <2>12. FileInv'  BY <1>a, <2>2, <2>4, <2>9, <2>11, FileStays
  <2> QED  BY <2>7, <2>10, <2>12
<1>2. ASSUME NEW p \in Processes, Load(p)
      PROVE  Goal
  <2>1. /\ UNCHANGED <<tokens, disk, pages, starts, callback, origin>> /\ stage[p] = "load"
        /\ excused' = [excused EXCEPT ![p] = ~saved]
    BY <1>2 DEF Load
  <2>2. CASE Len(file) # 1
    <3>1. stage' = [stage EXCEPT ![p] = "login"] /\ UNCHANGED credentials
      BY <1>2, <2>2 DEF Load, Proceed
    <3>2. ~saved  BY <2>2, <1>a DEF FileInv
    <3>3. "login" \in Stages
          /\ "login" \notin WithCredentials \cup WithCallback \cup {"open"} \cup Saving
          /\ "load" \notin Saving
      BY DEF Stages, WithCredentials, WithCallback, Saving
    <3> QED  BY <1>e, <2>1, <3>1, <3>2, <3>3
  <2>3. CASE Len(file) = 1
    <3>1. stage' = [stage EXCEPT ![p] = "token"]
          /\ credentials' = [credentials EXCEPT ![p] = file[1]]
      BY <1>2, <2>3 DEF Load, Proceed, Hold
    <3>2. "token" \in Stages /\ "token" \notin WithCallback \cup {"open"} \cup Saving
      BY DEF Stages, WithCredentials, WithCallback, Saving
    <3>3. file[1] \in 1..Len(tokens) /\ file[1] \in Nat  BY <2>3, <1>b
    <3>4. UNCHANGED <<tokens, file, alone, saved, pages, starts, callback, origin>>
      BY <2>1 DEF disk
    <3>5. (~saved) \in BOOLEAN  OBVIOUS
    <3>6. stage' \in [Processes -> Stages] /\ stage'[p] = "token"
          /\ credentials' \in [Processes -> Nat] /\ credentials'[p] = file[1]
          /\ \A q \in Processes : q # p => stage'[q] = stage[q] /\ credentials'[q] = credentials[q]
      BY <3>1, <3>2, <3>3, <1>b
    <3>7. excused' \in [Processes -> BOOLEAN]
          /\ \A q \in Processes : q # p => excused'[q] = excused[q]
      BY <2>1, <3>5, <1>b
    <3>8. SessionTypeOK'
      BY <3>4, <3>6, <3>7, <1>b DEF SessionTypeOK, Stages, WithCredentials, WithCallback, Logins,
        Session
    <3>9. OthersSame(p)  BY <3>4, <3>6 DEF OthersSame
    <3>10. starts'[p] # 0  BY <2>1, <3>4, <1>c
    <3>11. StageInv' /\ OwnInv'
      BY <1>a, <1>b, <1>d, <3>2, <3>3, <3>4, <3>6, <3>9, <3>10, OwnStays
    <3>12. p \notin alone  BY <2>1, <1>a DEF FileInv, Saving
    <3>13. FileInv'  BY <1>a, <3>2, <3>4, <3>6, <3>7, <3>12, FileStays
    <3> QED  BY <3>8, <3>11, <3>13
  <2> QED  BY <2>2, <2>3
<1>3. ASSUME NEW p \in Processes,
             \/ GetToken(p, "token", "tokenRefresh", "use")
             \/ GetToken(p, "dump", "dumpRefresh", "write")
             \/ GetToken(p, "use", "useRefresh", "use")
      PROVE  Goal
  <2>1. UNCHANGED <<tokens, disk, pages, starts, local>>  BY <1>3 DEF GetToken
  <2>2. PICK label \in {"tokenRefresh", "dumpRefresh", "useRefresh", "write", "use"} :
           /\ stage' = [stage EXCEPT ![p] = label]
           /\ stage[p] \in {"token", "dump", "use"}
           /\ label \in Saving <=> stage[p] = "dump"
    BY <1>3 DEF GetToken, Proceed, Saving
  <2>3. label \in Stages /\ label \notin WithCallback /\ label # "login" /\ label # "open"
        /\ stage[p] \in WithCredentials /\ (stage[p] = "dump" <=> stage[p] \in Saving)
    BY <2>2 DEF Stages, WithCredentials, WithCallback, Saving
  <2>4. excused[p] \in BOOLEAN /\ excused' = [excused EXCEPT ![p] = excused[p]]
    BY <2>1, <1>b DEF local, scratch
  <2>5. UNCHANGED <<credentials, callback, origin>>  BY <2>1 DEF local, scratch
  <2> QED
    BY <1>c, <1>e, <2>1, <2>2, <2>3, <2>4, <2>5 DEF WithCallback
<1>4. ASSUME NEW p \in Processes,
             NEW r \in {"tokenRefresh", "dumpRefresh", "useRefresh"}, NEW next \in {"use", "write"},
             r = "dumpRefresh" <=> next = "write",
             Refreshed(p, r, next)
      PROVE  Goal
  <2>1. /\ UNCHANGED <<disk, pages, starts, callback, origin>> /\ stage[p] = r
        /\ Issue(tokens[credentials[p]].of)
        /\ credentials' = [credentials EXCEPT ![p] = Len(tokens')]
        /\ excused' = [excused EXCEPT ![p] = FALSE]
        /\ stage' = [stage EXCEPT ![p] = next]
    BY <1>4 DEF Refreshed, Hold, Proceed
  <2>2. /\ next \in Stages /\ next \in WithCredentials
        /\ next \notin WithCallback /\ next # "login" /\ next # "open" /\ next # "exchange"
        /\ r \in WithCredentials /\ (next \in Saving <=> r \in Saving)
    BY <1>4 DEF Stages, WithCredentials, WithCallback, Saving
  <2>3. credentials[p] \in 1..Len(tokens)  BY <2>1, <2>2, <1>c
  <2> DEFINE login == tokens[credentials[p]].of
  <2>4. login \in Logins
    <3>1. tokens[credentials[p]] \in Session  BY <2>3, <1>b
    <3> QED  BY <3>1 DEF Session
  <2>5. /\ tokens' \in Seq(Session) /\ Len(tokens') = Len(tokens) + 1
        /\ \A k \in 1..Len(tokens) : tokens'[k] = tokens[k]
        /\ tokens'[Len(tokens')].of = login
    BY <2>1, <2>4, <1>b, Issued
  <2>6. next \in Saving => login = <<p, starts[p]>>  BY <2>1, <2>2, <1>c
  <2> HIDE DEF login
  <2>7. UNCHANGED <<file, alone, saved, pages, starts, callback, origin>>  BY <2>1 DEF disk
  <2>8. stage' \in [Processes -> Stages] /\ stage'[p] = next
        /\ credentials' \in [Processes -> Nat] /\ credentials'[p] = Len(tokens')
        /\ \A q \in Processes : q # p => stage'[q] = stage[q] /\ credentials'[q] = credentials[q]
    BY <2>1, <2>2, <2>5, <1>b
  <2>9. excused' \in [Processes -> BOOLEAN]
        /\ \A q \in Processes : q # p => excused'[q] = excused[q]
    BY <2>1, <1>b
  <2>10. \A k \in 1..Len(file) : file[k] \in 1..Len(tokens')  BY <2>5, <1>b
  <2>11. SessionTypeOK'
    BY <2>5, <2>7, <2>8, <2>9, <2>10, <1>b DEF SessionTypeOK, Stages, WithCredentials, WithCallback,
      Logins, Session
  <2>12. OthersSame(p) /\ TokensStay  BY <2>5, <2>7, <2>8, <1>b DEF OthersSame, TokensStay
  <2>13. starts'[p] # 0 /\ Len(tokens') \in 1..Len(tokens') /\ Len(tokens') \in Nat
    <3>1. starts[p] # 0  BY <2>1, <1>4, <1>c
    <3> QED  BY <3>1, <2>5, <2>7, <1>b
  <2>14. StageInv' /\ OwnInv'
    BY <1>a, <2>2, <2>5, <2>6, <2>7, <2>8, <2>12, <2>13, OwnStays
  <2>15. p \in alone => stage[p] \in Saving  BY <1>a DEF FileInv
  <2>16. FileInv'  BY <1>a, <2>1, <2>2, <2>7, <2>8, <2>9, <2>15, FileStays
  <2> QED  BY <2>11, <2>14, <2>16
<1>5. ASSUME NEW p \in Processes,
             RefreshFails(p, "tokenRefresh", "login") \/ RefreshFails(p, "useRefresh", "use")
      PROVE  Goal
  <2>1. UNCHANGED <<tokens, disk, pages, starts, credentials, callback, origin>>
    BY <1>5 DEF RefreshFails
  <2>2. PICK label \in {"login", "use"} :
           /\ stage[p] \in {"tokenRefresh", "useRefresh"}
           /\ excused' = [excused EXCEPT ![p] = (label = "login")]
           /\ stage' = [stage EXCEPT ![p] = label]
    BY <1>5 DEF RefreshFails, Proceed
  <2>3. label \in Stages /\ stage[p] \in WithCredentials
        /\ label \notin WithCallback \cup {"open"} \cup Saving /\ stage[p] \notin Saving
        /\ label # "exchange"
    BY <2>2 DEF Stages, WithCredentials, WithCallback, Saving
  <2>4. (label = "login") \in BOOLEAN  OBVIOUS
  <2> QED  BY <1>c, <1>e, <2>1, <2>2, <2>3, <2>4
<1>6. ASSUME NEW p \in Processes, OpenBrowser(p)
      PROVE  Goal
  <2>1. /\ UNCHANGED <<tokens, disk, starts, local>> /\ stage[p] = "login"
        /\ pages' = pages \cup {ThisLogin(p)} /\ stage' = [stage EXCEPT ![p] = "bind"]
    BY <1>6 DEF OpenBrowser, Proceed
  <2>2. UNCHANGED <<tokens, file, alone, saved, starts, credentials, callback, origin, excused>>
    BY <2>1 DEF disk, local, scratch
  <2>3. "bind" \in Stages /\ "bind" # "idle" /\ "bind" # "login"
        /\ "bind" \notin WithCredentials \cup WithCallback \cup {"open"} \cup Saving
    BY DEF Stages, WithCredentials, WithCallback, Saving
  <2>4. stage' \in [Processes -> Stages] /\ stage'[p] = "bind"
        /\ \A q \in Processes : q # p => stage'[q] = stage[q]
    BY <2>1, <2>3, <1>b
  <2>5. starts[p] # 0  BY <2>1, <1>c
  <2>6. pages' \in SUBSET Logins  BY <2>1, <2>5, <1>a, <1>b, LoginIsLogin
  <2>7. SessionTypeOK'
    BY <2>2, <2>4, <2>6, <1>b DEF SessionTypeOK, Stages, WithCredentials, WithCallback, Logins,
      Session
  <2>8. OthersSame(p)  BY <2>2, <2>4 DEF OthersSame
  <2>9. StageInv' /\ OwnInv'
    BY <1>a, <1>b, <1>d, <2>2, <2>3, <2>4, <2>5, <2>8, OwnStays DEF WithCallback
  <2>10. p \notin alone  BY <2>1, <1>a DEF FileInv, Saving
  <2>11. FileInv'  BY <1>a, <2>2, <2>3, <2>4, <2>10, FileStays
  <2> QED  BY <2>7, <2>9, <2>11
<1>7. ASSUME NEW p \in Processes, Bind(p)
      PROVE  Goal
  <2>1. UNCHANGED <<tokens, disk, pages, starts, local>> /\ stage[p] = "bind"
        /\ stage' = [stage EXCEPT ![p] = "listen"]
    BY <1>7 DEF Bind, Proceed
  <2>2. "listen" \in Stages /\ "bind" \notin Saving
        /\ "listen" \notin WithCredentials \cup WithCallback \cup {"open"} \cup Saving
    BY DEF Stages, WithCredentials, WithCallback, Saving
  <2>3. excused[p] \in BOOLEAN /\ excused' = [excused EXCEPT ![p] = excused[p]]
        /\ UNCHANGED <<credentials, callback, origin>>
    BY <2>1, <1>b DEF local, scratch
  <2> QED  BY <1>e, <2>1, <2>2, <2>3 DEF WithCallback
<1>8. ASSUME NEW p \in Processes, Callback(p)
      PROVE  Goal
  <2>1. /\ UNCHANGED <<tokens, disk, pages, starts, credentials, origin, excused>>
        /\ stage[p] = "listen" /\ stage' = [stage EXCEPT ![p] = "state"]
    BY <1>8 DEF Callback, Proceed
  <2>2. PICK login \in pages : callback' = [callback EXCEPT ![p] = login]
    BY <1>8 DEF Callback
  <2>3. login \in Logins  BY <2>2, <1>b
  <2>4. UNCHANGED <<tokens, file, alone, saved, pages, starts, credentials, origin, excused>>
    BY <2>1 DEF disk
  <2>5. "state" \in Stages /\ "state" # "idle" /\ "state" # "exchange" /\ "state" # "login"
        /\ "state" \notin WithCredentials \cup {"open"} \cup Saving
    BY DEF Stages, WithCredentials, WithCallback, Saving
  <2>6. stage' \in [Processes -> Stages] /\ stage'[p] = "state"
        /\ callback' \in [Processes -> Logins \cup {<<>>}] /\ callback'[p] = login
        /\ \A q \in Processes : q # p => stage'[q] = stage[q] /\ callback'[q] = callback[q]
    BY <2>1, <2>2, <2>3, <2>5, <1>b
  <2>7. SessionTypeOK'
    BY <2>4, <2>6, <1>b DEF SessionTypeOK, Stages, WithCredentials, WithCallback, Logins, Session
  <2>8. OthersSame(p)  BY <2>4, <2>6 DEF OthersSame
  <2>9. starts'[p] # 0  BY <2>1, <2>4, <1>c
  <2>10. StageInv' /\ OwnInv'
    BY <1>a, <1>b, <1>d, <2>3, <2>4, <2>5, <2>6, <2>8, <2>9, OwnStays
  <2>11. p \notin alone  BY <2>1, <1>a DEF FileInv, Saving
  <2>12. FileInv'  BY <1>a, <2>4, <2>5, <2>6, <2>11, FileStays
  <2> QED  BY <2>7, <2>10, <2>12
<1>9. ASSUME NEW p \in Processes, CheckState(p)
      PROVE  Goal
  <2>1. CASE Ends(p)  BY <2>1, <1>f
  <2>2. CASE ~Ends(p)
    <3>1. UNCHANGED <<tokens, disk, pages, starts, local>> /\ stage[p] = "state"
          /\ callback[p] = ThisLogin(p) /\ stage' = [stage EXCEPT ![p] = "exchange"]
      BY <1>9, <2>2 DEF CheckState, Proceed
    <3>2. "exchange" \in Stages /\ "state" \notin Saving /\ "state" \in WithCallback
          /\ "exchange" \notin WithCredentials \cup {"open"} \cup Saving
      BY DEF Stages, WithCredentials, WithCallback, Saving
    <3>3. excused[p] \in BOOLEAN /\ excused' = [excused EXCEPT ![p] = excused[p]]
          /\ UNCHANGED <<credentials, callback, origin>>
      BY <3>1, <1>b DEF local, scratch
    <3> QED  BY <1>c, <1>e, <3>1, <3>2, <3>3 DEF ThisLogin
  <2> QED  BY <2>1, <2>2
<1>10. ASSUME NEW p \in Processes, Exchanged(p)
       PROVE  Goal
  <2>1. /\ UNCHANGED <<disk, pages, starts, callback, origin, excused>> /\ stage[p] = "exchange"
        /\ Issue(callback[p])
        /\ credentials' = [credentials EXCEPT ![p] = Len(tokens')]
        /\ stage' = [stage EXCEPT ![p] = "open"]
    BY <1>10 DEF Exchanged, Hold, Proceed
  <2>2. /\ "open" \in Stages /\ "open" # "idle" /\ "open" # "login" /\ "open" # "exchange"
        /\ "open" \notin WithCallback \cup Saving /\ "exchange" \in WithCallback
    BY DEF Stages, WithCredentials, WithCallback, Saving
  <2>3. callback[p] \in Logins /\ callback[p] = <<p, starts[p]>> /\ starts[p] # 0
    BY <2>1, <2>2, <1>c
  <2>4. /\ tokens' \in Seq(Session) /\ Len(tokens') = Len(tokens) + 1
        /\ \A k \in 1..Len(tokens) : tokens'[k] = tokens[k]
        /\ tokens'[Len(tokens')].of = callback[p]
    BY <2>1, <2>3, <1>b, Issued
  <2>5. UNCHANGED <<file, alone, saved, pages, starts, callback, origin, excused>>
    BY <2>1 DEF disk
  <2>6. stage' \in [Processes -> Stages] /\ stage'[p] = "open"
        /\ credentials' \in [Processes -> Nat] /\ credentials'[p] = Len(tokens')
        /\ \A q \in Processes : q # p => stage'[q] = stage[q] /\ credentials'[q] = credentials[q]
    BY <2>1, <2>2, <2>4, <1>b
  <2>7. \A k \in 1..Len(file) : file[k] \in 1..Len(tokens')  BY <2>4, <1>b
  <2>8. SessionTypeOK'
    BY <2>4, <2>5, <2>6, <2>7, <1>b DEF SessionTypeOK, Stages, WithCredentials, WithCallback,
      Logins, Session
  <2>9. OthersSame(p) /\ TokensStay  BY <2>4, <2>5, <2>6, <1>b DEF OthersSame, TokensStay
  <2>10. starts'[p] # 0 /\ Len(tokens') \in 1..Len(tokens') /\ Len(tokens') \in Nat
    BY <2>3, <2>4, <2>5, <1>b
  <2>11. StageInv' /\ OwnInv'
    BY <1>a, <2>2, <2>3, <2>4, <2>5, <2>6, <2>9, <2>10, OwnStays
  <2>12. p \notin alone  BY <2>1, <1>a DEF FileInv, Saving
  <2>13. FileInv'  BY <1>a, <2>2, <2>5, <2>6, <2>12, FileStays
  <2> QED  BY <2>8, <2>11, <2>13
<1>11. ASSUME NEW p \in Processes, OriginWanted(p)
       PROVE  Goal
  <2>1. /\ UNCHANGED <<tokens, disk, pages, starts, stage, credentials, callback, excused>>
        /\ origin' = [origin EXCEPT ![p] = TRUE]
    BY <1>11 DEF OriginWanted
  <2>2. UNCHANGED <<tokens, file, alone, saved, pages, starts, stage, credentials, callback,
                    excused>>
    BY <2>1 DEF disk
  <2>3. origin' \in [Processes -> BOOLEAN]  BY <2>1, <1>b
  <2>4. SessionTypeOK'
    BY <2>2, <2>3, <1>b DEF SessionTypeOK, Stages, WithCredentials, WithCallback, Logins, Session
  <2>5. StageInv' /\ OwnInv' /\ FileInv'
    BY <2>2, <1>a DEF StageInv, OwnInv, FileInv, ThisLogin, WithCredentials, WithCallback, Saving,
      Logins
  <2> QED  BY <2>4, <2>5
<1>12. ASSUME NEW p \in Processes, OpenFile(p)
       PROVE  Goal
  <2>1. /\ UNCHANGED <<tokens, pages, starts, local>> /\ stage[p] = "open"
        /\ file' = <<>> /\ saved' = FALSE
        /\ alone' = {q \in {p} : \A r \in Processes : stage[r] \notin Saving}
        /\ stage' = [stage EXCEPT ![p] = "dump"]
    BY <1>12 DEF OpenFile, Proceed
  <2>2. UNCHANGED <<tokens, pages, starts, credentials, callback, origin, excused>>
    BY <2>1 DEF local, scratch
  <2>3. "dump" \in Stages /\ "dump" \in WithCredentials /\ "open" \in WithCredentials
        /\ "dump" # "idle" /\ "dump" # "login" /\ "dump" # "exchange"
        /\ "dump" \notin WithCallback /\ "dump" \in Saving
    BY DEF Stages, WithCredentials, WithCallback, Saving
  <2>4. stage' \in [Processes -> Stages] /\ stage'[p] = "dump"
        /\ \A q \in Processes : q # p => stage'[q] = stage[q]
    BY <2>1, <2>3, <1>b
  <2>5. /\ file' \in Seq(Nat) /\ \A k \in 1..Len(file') : file'[k] \in 1..Len(tokens')
        /\ alone' \in SUBSET Processes /\ saved' \in BOOLEAN
    <3>1. Len(file') = 0 /\ file' \in Seq(Nat)  BY <2>1
    <3>2. alone' \subseteq {p}  BY <2>1
    <3>3. \A k \in 1..Len(file') : FALSE  BY <3>1
    <3>4. alone' \in SUBSET Processes  BY <3>2
    <3>5. saved' \in BOOLEAN  BY <2>1
    <3> QED  BY <3>1, <3>3, <3>4, <3>5
  <2>6. SessionTypeOK'
    BY <2>2, <2>4, <2>5, <1>b DEF SessionTypeOK, Stages, WithCredentials, WithCallback, Logins,
      Session
  <2>7. OthersSame(p)  BY <2>2, <2>4 DEF OthersSame
  <2>8. /\ starts[p] # 0 /\ credentials[p] \in 1..Len(tokens)
        /\ tokens[credentials[p]].of = <<p, starts[p]>>
    BY <2>1, <2>3, <1>c
  <2>9. StageInv' /\ OwnInv'
    BY <1>a, <1>b, <1>d, <2>2, <2>3, <2>4, <2>7, <2>8, OwnStays
  <2>10. ASSUME NEW q \in alone'
         PROVE  /\ stage'[q] \in Saving
                /\ \A r \in Processes : stage'[r] \in Saving => r = q
    BY <2>1, <2>3, <2>4
  <2>11. \A q \in Processes : stage'[q] = "login" => excused'[q]
    BY <2>2, <2>3, <2>4, <1>a DEF FileInv
  <2>12. FileInv'  BY <2>1, <2>10, <2>11 DEF FileInv, Saving
  <2> QED  BY <2>6, <2>9, <2>12
<1>13. ASSUME NEW p \in Processes, Write(p)
       PROVE  Goal
  <2>1. /\ UNCHANGED <<tokens, pages, starts, credentials>> /\ stage[p] = "write"
        /\ file' \in {<<credentials[p]>>, <<credentials[p]>> \o file}
        /\ saved' = (saved \/ p \in alone)
        /\ alone' = alone \ {p}
        /\ stage' = [stage EXCEPT ![p] = "use"]
        /\ callback' = [callback EXCEPT ![p] = <<>>]
        /\ origin' = [origin EXCEPT ![p] = FALSE] /\ excused' = [excused EXCEPT ![p] = FALSE]
    BY <1>13 DEF Write, Proceed, ForgetLogin
  <2>2. "use" \in Stages /\ "use" \in WithCredentials /\ "write" \in WithCredentials
        /\ "use" \notin WithCallback \cup {"open"} \cup Saving /\ "write" \in Saving
        /\ "use" # "login" /\ "use" # "exchange"
    BY DEF Stages, WithCredentials, WithCallback, Saving
  <2>3. stage' \in [Processes -> Stages] /\ stage'[p] = "use"
        /\ callback' \in [Processes -> Logins \cup {<<>>}]
        /\ origin' \in [Processes -> BOOLEAN] /\ excused' \in [Processes -> BOOLEAN]
        /\ \A q \in Processes : q # p =>
              stage'[q] = stage[q] /\ callback'[q] = callback[q] /\ excused'[q] = excused[q]
    BY <2>1, <2>2, <1>b
  <2>4. credentials[p] \in 1..Len(tokens) /\ starts[p] # 0  BY <2>1, <2>2, <1>c
  <2>5. file' \in Seq(Nat) /\ \A k \in 1..Len(file') : file'[k] \in 1..Len(tokens)
    <3> DEFINE c == credentials[p]
    <3>1. c \in Nat /\ c \in 1..Len(tokens)  BY <2>4, <1>b
    <3> HIDE DEF c
    <3>2. CASE file' = <<c>>  BY <3>1, <3>2
    <3>3. CASE file' = <<c>> \o file
      <4>1. file' \in Seq(Nat) /\ Len(file') = Len(file) + 1  BY <3>1, <3>3, <1>b
      <4>2. \A k \in 1..Len(file') : file'[k] = IF k = 1 THEN c ELSE file[k - 1]
        BY <3>1, <3>3, <1>b
      <4>3. \A k \in 1..Len(file') : k # 1 => k - 1 \in 1..Len(file)  BY <4>1, <1>b
      <4> QED  BY <4>1, <4>2, <4>3, <3>1, <1>b
    <3> QED  BY <2>1, <3>2, <3>3 DEF c
  <2>6. alone' \in SUBSET Processes /\ saved' \in BOOLEAN  BY <2>1, <1>b
  <2>7. SessionTypeOK'
    BY <2>1, <2>3, <2>5, <2>6, <1>b DEF SessionTypeOK, Stages, WithCredentials, WithCallback,
      Logins, Session
  <2>8. OthersSame(p)  BY <2>1, <2>3 DEF OthersSame
  <2>9. StageInv' /\ OwnInv'
    BY <1>a, <1>b, <1>d, <2>1, <2>2, <2>3, <2>4, <2>8, OwnStays
  <2>10. \A q \in alone : q = p /\ file = <<>> /\ \A r \in Processes : stage[r] \in Saving => r = p
    BY <2>1, <2>2, <1>a DEF FileInv
  <2>11. alone' = {}  BY <2>1, <2>10
  <2>12. ~saved  BY <2>1, <2>2, <1>a DEF FileInv
  <2>13. ASSUME saved'
         PROVE  Len(file') = 1 /\ \A r \in Processes : stage'[r] \notin Saving
    <3>1. p \in alone  BY <2>1, <2>12, <2>13
    <3>2. file' = <<credentials[p]>>
      <4>1. file = <<>>  BY <3>1, <2>10
      <4>2. <<credentials[p]>> \o <<>> = <<credentials[p]>>  BY <2>4
      <4> QED  BY <4>1, <4>2, <2>1
    <3>3. \A r \in Processes : stage'[r] \notin Saving  BY <3>1, <2>2, <2>3, <2>10
    <3> QED  BY <3>2, <3>3
  <2>14. \A q \in Processes : stage'[q] = "login" => excused'[q]
    BY <2>2, <2>3, <1>a DEF FileInv
  <2>15. FileInv'  BY <2>11, <2>13, <2>14 DEF FileInv, Saving
  <2> QED  BY <2>7, <2>9, <2>15
<1>14. ASSUME NEW i \in DOMAIN tokens, Expire(i)
       PROVE  Goal
  <2>1. UNCHANGED <<disk, pages, starts, stage, local>>  BY <1>14 DEF Expire
  <2>2. UNCHANGED <<file, alone, saved, pages, starts, stage, credentials, callback, origin,
                    excused>>
    BY <2>1 DEF disk, local, scratch
  <2>3. /\ tokens' \in Seq(Session) /\ Len(tokens') = Len(tokens)
        /\ \A k \in 1..Len(tokens) : tokens'[k].of = tokens[k].of
    BY <1>14, <1>b, ExpiryKeepsLogin
  <2>4. SessionTypeOK'
    BY <2>2, <2>3, <1>b DEF SessionTypeOK, Stages, WithCredentials, WithCallback, Logins, Session
  <2>5. StageInv'  BY <2>2, <2>3, <1>a DEF StageInv, WithCredentials, WithCallback, Logins
  <2>6. OwnInv'
    <3> SUFFICES ASSUME NEW p \in Processes
                 PROVE  /\ stage'[p] = "exchange" => callback'[p] = <<p, starts'[p]>>
                        /\ stage'[p] \in {"open"} \cup Saving
                              => tokens'[credentials'[p]].of = <<p, starts'[p]>>
      BY DEF OwnInv, ThisLogin, Saving
    <3>1. stage[p] \in {"open"} \cup Saving => stage[p] \in WithCredentials
      BY DEF Saving, WithCredentials
    <3> QED  BY <3>1, <2>2, <2>3, <1>c
  <2>7. FileInv'  BY <2>2, <1>a DEF FileInv, Saving
  <2> QED  BY <2>4, <2>5, <2>6, <2>7
<1>15. ASSUME UNCHANGED loginVars
       PROVE  Goal
  <2>1. UNCHANGED <<tokens, file, alone, saved, pages, starts, stage, credentials, callback,
                    origin, excused>>
    BY <1>15 DEF loginVars, disk, local, scratch
  <2>2. SessionTypeOK'
    BY <2>1, <1>b DEF SessionTypeOK, Stages, WithCredentials, WithCallback, Logins, Session
  <2>3. StageInv' /\ OwnInv' /\ FileInv'
    BY <2>1, <1>a DEF StageInv, OwnInv, FileInv, ThisLogin, WithCredentials, WithCallback, Saving,
      Logins
  <2> QED  BY <2>2, <2>3
<1> HIDE DEF Goal
<1>16. ASSUME NEW p \in Processes, Step(p) \/ Use(p)
       PROVE  Goal
  <2>1. CASE \/ BindFails(p) \/ ExchangeFails(p) \/ SaveFails(p)
    <3>1. Ends(p)  BY <2>1 DEF BindFails, ExchangeFails, SaveFails
    <3> QED  BY <3>1, <1>f
  <2>2. CASE \/ Refreshed(p, "tokenRefresh", "use") \/ Refreshed(p, "dumpRefresh", "write")
             \/ Refreshed(p, "useRefresh", "use")
    BY <2>2, <1>4
  <2>3. CASE ~(\/ BindFails(p) \/ ExchangeFails(p) \/ SaveFails(p)
               \/ Refreshed(p, "tokenRefresh", "use") \/ Refreshed(p, "dumpRefresh", "write")
               \/ Refreshed(p, "useRefresh", "use"))
    BY <2>3, <1>2, <1>3, <1>5, <1>6, <1>7, <1>9, <1>10, <1>11, <1>12, <1>13, <1>16 DEF Step, Use
  <2> QED  BY <2>1, <2>2, <2>3
<1>17. ASSUME NEW p \in Processes, OtherRequest(p) \/ Stop(p)
       PROVE  Goal
  <2>1. Ends(p)  BY <1>17 DEF OtherRequest, Stop
  <2> QED  BY <2>1, <1>f
<1>18. Goal  BY <1>1, <1>8, <1>14, <1>15, <1>16, <1>17 DEF LoginNext
<1> QED  BY <1>18 DEF Goal, SessionInv

LEMMA AlwaysSessionInv == LoginSpec => []SessionInv
<1>1. LoginInit => SessionInv
  <2> SUFFICES ASSUME LoginInit PROVE SessionInv  OBVIOUS
  <2>1. /\ tokens = <<>> /\ file = <<>> /\ pages = {} /\ alone = {} /\ saved = FALSE
        /\ \A p \in Processes : stage[p] = "idle"
    BY DEF LoginInit
  <2>2. tokens \in Seq(Session) /\ file \in Seq(Nat)
        /\ \A k \in 1..Len(file) : file[k] \in 1..Len(tokens)
    BY <2>1
  <2>3. starts \in [Processes -> 0..MaxStarts]  BY LoginAssumption DEF LoginInit
  <2>4. stage \in [Processes -> Stages]  BY DEF LoginInit, Stages
  <2>5. credentials \in [Processes -> Nat]  BY DEF LoginInit, None
  <2>6. callback \in [Processes -> Logins \cup {<<>>}]  BY DEF LoginInit
  <2>7. origin \in [Processes -> BOOLEAN] /\ excused \in [Processes -> BOOLEAN]
    BY DEF LoginInit
  <2>8. SessionTypeOK  BY <2>1, <2>2, <2>3, <2>4, <2>5, <2>6, <2>7 DEF SessionTypeOK
  <2>9. StageInv /\ OwnInv /\ FileInv
    BY <2>1 DEF StageInv, OwnInv, FileInv, WithCredentials, WithCallback, Saving
  <2> QED  BY <2>8, <2>9 DEF SessionInv
<1>2. SessionInv /\ [LoginNext]_loginVars => SessionInv'  BY SessionStep
<1> QED  BY <1>1, <1>2, PTL DEF LoginSpec

\* Types, and what processes have where they use it: credentials, and a login of the
\* callback.
THEOREM SessionTypes == LoginSpec => [](SessionTypeOK /\ StageInv)
<1>1. SessionInv => SessionTypeOK /\ StageInv  BY DEF SessionInv
<1> QED  BY <1>1, AlwaysSessionInv, PTL

\* However many processes of a user log in at the same time, crash and start again, each
\* saves the session of its own login.
THEOREM OwnSession == LoginSpec => []SessionIsOwn
<1>1. SessionInv => SessionIsOwn  BY DEF SessionInv, OwnInv, SessionIsOwn
<1> QED  BY <1>1, AlwaysSessionInv, PTL

\* And the user is not asked again for what is saved and can be renewed.
THEOREM NoNeedlessLogin == LoginSpec => []LoginOnlyIfNeeded
<1>1. SessionInv => LoginOnlyIfNeeded  BY DEF SessionInv, FileInv, LoginOnlyIfNeeded
<1> QED  BY <1>1, AlwaysSessionInv, PTL
=============================================================================
