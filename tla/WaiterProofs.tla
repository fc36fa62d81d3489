---------------------------- MODULE WaiterProofs ----------------------------
(***************************************************************************)
(* Proofs about Waiter: types, and that whatever settles is noticed in     *)
(* time, for every timeout, pause and duration of a poll; and about        *)
(* RemoteDbUtils, which waits: that it makes its context once, on a        *)
(* cluster that runs.  The two share the table of the waiters only.        *)
(***************************************************************************)
EXTENDS Waiter, RemoteDbUtils, TLAPS

USE ConstantsAssumption, DbUtilsAssumption DEF ConstantsAssumption, DbUtilsAssumption

\* The pause never exceeds its maximum.
LEMMA PauseIsBounded ==
    ASSUME attempt \in Nat \ {0}
    PROVE  Pause \in Nat /\ Pause <= MaxPause
  BY DEF Pause, Lesser

\* Types; the object has changed before now.
THEOREM TypeCorrect == Spec => []TypeOK
<1>1. Init => TypeOK
  BY DEF Init, TypeOK
<1>2. TypeOK /\ [Next]_vars => TypeOK'
  <2> SUFFICES ASSUME TypeOK, [Next]_vars
               PROVE  TypeOK'
    OBVIOUS
  <2> USE DEF TypeOK
  <2>1. CASE Poll
    BY <2>1 DEF Poll
  <2>2. CASE Answer
    <3>1. clock' \in Nat /\ clock <= clock'
      BY <2>2 DEF Answer
    <3>2. QED
      BY <2>2, <3>1 DEF Answer, End
  <2>3. CASE Sleep
    <3>1. clock' \in Nat /\ clock <= clock' /\ attempt' \in Nat \ {0}
      BY <2>3, PauseIsBounded DEF Sleep, Lesser
    <3>2. QED
      BY <2>3, <3>1 DEF Sleep
  <2>4. CASE GiveUp
    BY <2>4 DEF GiveUp, End
  <2>5. ASSUME NEW s \in wait.states \cup {Unnamed}, Change(s)
        PROVE  TypeOK'
    BY <2>5 DEF Change
  <2>6. CASE UNCHANGED vars
    BY <2>6 DEF vars
  <2>7. QED
    BY <2>1, <2>2, <2>3, <2>4, <2>5, <2>6 DEF Next, Step
<1>3. QED
  BY <1>1, <1>2, PTL DEF Spec

\* Why what has settled is noticed in time: when it has settled since the last poll, the
\* poll was missed by less than it took; an object that has settled before is asked for
\* once more, after a pause at most.
Settled == Conclusive(status)
WaitInv ==
    /\ phase \in {"poll", "answer", "sleep", "done"}
    /\ phase = "done" <=> outcome # "pending"
    /\ Settled /\ phase = "sleep" => clock <= since + HttpTime
    /\ phase = "answer" => status = seen \/ since = clock
    /\ Settled /\ outcome \in {"pending", "timeout"} => clock <= since + HttpTime + MaxPause + 1

LEMMA WaitInvHolds == Spec => []WaitInv
<1>1. Init => WaitInv
  BY DEF Init, WaitInv
<1>2. TypeOK /\ WaitInv /\ [Next]_vars => WaitInv'
  <2> SUFFICES ASSUME TypeOK, WaitInv, [Next]_vars
               PROVE  WaitInv'
    OBVIOUS
  <2> USE DEF TypeOK, WaitInv, Settled, Conclusive
  <2>1. CASE Poll
    BY <2>1 DEF Poll
  <2>2. CASE Answer
    <3>1. clock' \in Nat /\ clock <= clock' /\ clock' <= clock + HttpTime
      BY <2>2 DEF Answer
    <3>2. CASE ~Conclusive(seen) /\ phase' = "sleep" /\ UNCHANGED outcome
      BY <2>2, <3>1, <3>2 DEF Answer
    <3>3. CASE phase' = "done" /\ outcome' \in {"returned", "failed", "raised"}
      BY <2>2, <3>3 DEF Answer
    <3>4. QED
      BY <2>2, <3>2, <3>3 DEF Answer, End
  <2>3. CASE Sleep
    <3>1. clock' <= clock + MaxPause + 1
      BY <2>3, PauseIsBounded DEF Sleep
    <3>2. QED
      BY <2>3, <3>1 DEF Sleep
  <2>4. CASE GiveUp
    BY <2>4 DEF GiveUp, End
  <2>5. ASSUME NEW s, Change(s)
        PROVE  WaitInv'
    BY <2>5 DEF Change
  <2>6. CASE UNCHANGED vars
    BY <2>6 DEF vars
  <2>7. QED
    BY <2>1, <2>2, <2>3, <2>4, <2>5, <2>6 DEF Next, Step
<1>3. QED
  BY <1>1, <1>2, TypeCorrect, PTL DEF Spec

\* For every waiter of the table, timeout, longest pause and duration of a poll, what has
\* settled is noticed within a poll and a pause.
THEOREM SettledIsNoticed == Spec => []NoticedInTime
<1>1. WaitInv => NoticedInTime
  BY DEF WaitInv, Settled, Conclusive, NoticedInTime
<1>2. QED
  BY <1>1, WaitInvHolds, PTL

-----------------------------------------------------------------------------
(* Remote dbutils                                                          *)

DbUtilsTypeOK ==
    /\ cluster \in ClusterState \cup {Unnamed}
    /\ contexts \in [1..MaxContexts -> ContextStatus \cup {"NONE", "GONE"}]
    /\ ctx \in 0..MaxContexts
    /\ late \in BOOLEAN /\ sawRunning \in BOOLEAN
    /\ pc \in [Threads -> Locked \cup {"idle", "lock", "execute"}]
    /\ id \in [Threads -> 0..MaxContexts]
    /\ calls \in [Threads -> 0..MaxCalls]

\* One thread at a time is inside `with self._lock'.
LockInv ==
    \A t, u \in Threads : pc[t] \in Locked /\ pc[u] \in Locked => t = u

\* Who is there past the second look at _ctx has found none, and nobody else sets it.
ContextInv == \A t \in Threads : pc[t] \in Locked \ {"check"} => ctx = None

\* Inside ensure_cluster_is_running, what is running now has been running since the
\* call; who leaves it has seen that.
RunningInv ==
    \A t \in Threads :
        /\ pc[t] = "create" => sawRunning
        /\ pc[t] \in {"ensure", "start", "waitTerminated", "waitRunning"}
            => (cluster = "RUNNING" => sawRunning)

DbUtilsInv == DbUtilsTypeOK /\ LockInv /\ ContextInv /\ RunningInv

\* What ensure_cluster_is_running does next: it returns for a running cluster only.
LEMMA AfterGetIsSafe ==
    ASSUME NEW s \in ClusterState \cup {Unnamed}
    PROVE  /\ AfterGet(s) \in
                {"create", "start", "waitTerminated", "waitRunning", "idle", "ensure"}
           /\ AfterGet(s) = "create" => s = "RUNNING"
  BY DEF AfterGet, ClusterState, Unnamed

\* The states that the waits for a cluster end in.
LEMMA AwaitedStates ==
    /\ ClusterRunning.target = {"RUNNING"} /\ ClusterTerminated.target = {"TERMINATED"}
    /\ "RUNNING" \notin ClusterRunning.failure /\ "RUNNING" \notin ClusterTerminated.failure
  BY DEF ClusterRunning, ClusterTerminated, Wait

\* One step of one thread, seen from the lock: it ends outside, was inside before, or has
\* found the lock free; it keeps what the others rely on.
LEMMA ThreadMoves ==
    ASSUME DbUtilsInv, NEW t \in Threads, NEW label \in Locked \cup {"idle", "lock", "execute"},
           pc' = [pc EXCEPT ![t] = label],
           label \in Locked => pc[t] \in Locked \/ LockIsFree,
           label \in Locked \ {"check"} => ctx' = None,
           ctx' = ctx \/ pc[t] \in Locked,
           label = "create" => sawRunning',
           label \in {"ensure", "start", "waitTerminated", "waitRunning"}
                => (cluster' = "RUNNING" => sawRunning'),
           pc[t] \in Locked \/ (cluster' = cluster /\ sawRunning' = sawRunning)
    PROVE  pc' \in [Threads -> Locked \cup {"idle", "lock", "execute"}]
           /\ LockInv' /\ ContextInv' /\ RunningInv'
<1>1. pc \in [Threads -> Locked \cup {"idle", "lock", "execute"}]
  BY DEF DbUtilsInv, DbUtilsTypeOK
<1>2. /\ pc' \in [Threads -> Locked \cup {"idle", "lock", "execute"}]
      /\ pc'[t] = label
      /\ \A u \in Threads : u # t => pc'[u] = pc[u]
  BY <1>1
<1>3. \A u \in Threads : u # t /\ (label \in Locked \/ pc[t] \in Locked) => pc[u] \notin Locked
  BY DEF DbUtilsInv, LockInv, LockIsFree
<1>4. LockInv'
  BY <1>2, <1>3 DEF DbUtilsInv, LockInv, Locked
<1>5. ContextInv'
  <2> SUFFICES ASSUME NEW u \in Threads, pc'[u] \in Locked \ {"check"}
               PROVE  ctx' = None
    BY DEF ContextInv, Locked, None
  <2>1. CASE u = t  BY <2>1, <1>2
  <2>2. CASE u # t
    <3>1. pc[u] \in Locked \ {"check"} /\ pc[t] \notin Locked  BY <2>2, <1>2, <1>3
    <3> QED  BY <3>1 DEF DbUtilsInv, ContextInv
  <2> QED  BY <2>1, <2>2
<1>6. RunningInv'
  <2> SUFFICES ASSUME NEW u \in Threads
               PROVE  /\ pc'[u] = "create" => sawRunning'
                      /\ pc'[u] \in {"ensure", "start", "waitTerminated", "waitRunning"}
                            => (cluster' = "RUNNING" => sawRunning')
    BY DEF RunningInv
  <2>1. CASE u = t  BY <2>1, <1>2
  <2>2. CASE u # t /\ pc[u] \in Locked
    <3>1. pc[t] \notin Locked  BY <2>2, <1>3
    <3> QED  BY <3>1, <2>2, <1>2 DEF DbUtilsInv, RunningInv
  <2>3. CASE u # t /\ pc[u] \notin Locked  BY <2>3, <1>2 DEF Locked
  <2> QED  BY <2>1, <2>2, <2>3
<1> QED  BY <1>2, <1>4, <1>5, <1>6

\* Every step keeps the invariant; only Create changes which contexts have been made.
LEMMA DbUtilsStep ==
    ASSUME DbUtilsInv, [DbUtilsNext]_dbUtilsVars
    PROVE  DbUtilsInv' /\ (ctx # None => ctx' = ctx /\ Made' = Made)
<1> DEFINE Kept == ctx # None => ctx' = ctx /\ Made' = Made
<1> DEFINE Labels == Locked \cup {"idle", "lock", "execute"}
<1> DEFINE Typed ==
      /\ cluster' \in ClusterState \cup {Unnamed}
      /\ contexts' \in [1..MaxContexts -> ContextStatus \cup {"NONE", "GONE"}]
      /\ ctx' \in 0..MaxContexts
      /\ late' \in BOOLEAN /\ sawRunning' \in BOOLEAN
      /\ id' \in [Threads -> 0..MaxContexts]
      /\ calls' \in [Threads -> 0..MaxCalls]
<1> DEFINE Moved == pc' \in [Threads -> Labels] /\ LockInv' /\ ContextInv' /\ RunningInv'
<1> HIDE DEF Labels
<1>0. Typed /\ Moved => DbUtilsInv'
  BY DEF DbUtilsInv, DbUtilsTypeOK, Labels, Locked
<1>a. /\ cluster \in ClusterState \cup {Unnamed}
      /\ contexts \in [1..MaxContexts -> ContextStatus \cup {"NONE", "GONE"}]
      /\ ctx \in 0..MaxContexts
      /\ late \in BOOLEAN /\ sawRunning \in BOOLEAN
      /\ pc \in [Threads -> Labels]
      /\ id \in [Threads -> 0..MaxContexts]
      /\ calls \in [Threads -> 0..MaxCalls]
  BY DEF DbUtilsInv, DbUtilsTypeOK, Labels
<1>b. None \in 0..MaxContexts  BY DEF None
<1>c. UNCHANGED contexts => Made' = Made  BY DEF Made
<1>d. /\ \A t \in Threads : pc[t] \in Locked \ {"check"} => ctx = None
      /\ \A t \in Threads : pc[t] = "create" => sawRunning
      /\ \A t \in Threads : pc[t] \in {"ensure", "start", "waitTerminated", "waitRunning"}
            => (cluster = "RUNNING" => sawRunning)
  BY DEF DbUtilsInv, ContextInv, RunningInv
<1>1. ASSUME NEW t \in Threads, Call(t)
      PROVE  Typed /\ Moved /\ Kept
  <2>1. UNCHANGED <<server, ctx, late>>  BY <1>1 DEF Call
  <2>2. PICK label \in {"execute", "lock"} : pc' = [pc EXCEPT ![t] = label]
    BY <1>1 DEF Call, Goto
  <2>3. id' \in [Threads -> 0..MaxContexts]  BY <1>1, <1>a DEF Call, UseContext
  <2>4. calls' \in [Threads -> 0..MaxCalls]  BY <1>1, <1>a DEF Call
  <2>5. Moved  BY <2>1, <2>2, ThreadMoves DEF server, Labels, Locked
  <2> QED  BY <2>1, <2>3, <2>4, <2>5, <1>a, <1>c DEF server
<1>2. ASSUME NEW t \in Threads, Lock(t)
      PROVE  Typed /\ Moved /\ Kept
  <2>1. UNCHANGED <<server, ctx, late, id, calls>> /\ LockIsFree
        /\ pc' = [pc EXCEPT ![t] = "check"]
    BY <1>2 DEF Lock, Goto
  <2>2. Moved  BY <2>1, ThreadMoves DEF server, Labels, Locked
  <2> QED  BY <2>1, <2>2, <1>a, <1>c DEF server
<1>3. ASSUME NEW t \in Threads, CheckAgain(t)
      PROVE  Typed /\ Moved /\ Kept
  <2>1. UNCHANGED <<cluster, contexts, ctx, calls>> /\ pc[t] = "check"  BY <1>3 DEF CheckAgain
  <2>2. CASE ctx # None
    <3>1. pc' = [pc EXCEPT ![t] = "execute"] /\ UNCHANGED <<late, sawRunning>>
          /\ id' = [id EXCEPT ![t] = ctx]
      BY <1>3, <2>2 DEF CheckAgain, Goto, UseContext
    <3>2. Moved  BY <2>1, <3>1, ThreadMoves DEF Labels, Locked
    <3> QED  BY <2>1, <3>1, <3>2, <1>a, <1>c
  <2>3. CASE ctx = None
    <3>1. pc' = [pc EXCEPT ![t] = "ensure"] /\ late' = FALSE
          /\ sawRunning' = (cluster = "RUNNING") /\ UNCHANGED id
      BY <1>3, <2>3 DEF CheckAgain, Ensure, Goto
    <3>2. Moved  BY <2>1, <2>3, <3>1, ThreadMoves DEF Labels, Locked
    <3> QED  BY <2>1, <3>1, <3>2, <1>a, <1>c
  <2> QED  BY <2>2, <2>3
<1>4. ASSUME NEW t \in Threads, Get(t)
      PROVE  Typed /\ Moved /\ Kept
  <2>1. UNCHANGED <<server, ctx, late, id, calls>> /\ pc[t] = "ensure"
        /\ pc' = [pc EXCEPT ![t] = AfterGet(cluster)]
    BY <1>4 DEF Get, Goto
  <2>2. /\ AfterGet(cluster) \in
            {"create", "start", "waitTerminated", "waitRunning", "idle", "ensure"}
        /\ AfterGet(cluster) = "create" => cluster = "RUNNING"
    BY <1>a, AfterGetIsSafe
  <2>3. ctx = None /\ (cluster = "RUNNING" => sawRunning)  BY <2>1, <1>d DEF Locked
  <2> DEFINE label == AfterGet(cluster)
  <2> HIDE DEF label
  <2>4. label \in {"create", "start", "waitTerminated", "waitRunning", "idle", "ensure"}
        /\ (label = "create" => cluster = "RUNNING") /\ pc' = [pc EXCEPT ![t] = label]
    BY <2>1, <2>2 DEF label
  <2>5. Moved  BY <2>1, <2>3, <2>4, ThreadMoves DEF server, Labels, Locked
  <2> QED  BY <2>1, <2>5, <1>a, <1>c DEF server
<1>5. ASSUME NEW t \in Threads, Raise(t)
      PROVE  Typed /\ Moved /\ Kept
  <2>1. UNCHANGED <<server, ctx, late, id, calls>> /\ pc' = [pc EXCEPT ![t] = "idle"]
    BY <1>5 DEF Raise, Goto
  <2>2. Moved  BY <2>1, ThreadMoves DEF server, Labels, Locked
  <2> QED  BY <2>1, <2>2, <1>a, <1>c DEF server
<1>6. ASSUME NEW t \in Threads, Start(t)
      PROVE  Typed /\ Moved /\ Kept
  <2>1. UNCHANGED <<contexts, sawRunning, ctx, late, id, calls>> /\ pc[t] = "start"
    BY <1>6 DEF Start
  <2>2. PICK label \in {"waitRunning", "ensure"} : pc' = [pc EXCEPT ![t] = label]
    BY <1>6 DEF Start, Goto
  <2>3. cluster' = cluster \/ cluster' = "PENDING"  BY <1>6 DEF Start
  <2>4. ctx = None /\ (cluster = "RUNNING" => sawRunning)  BY <2>1, <1>d DEF Locked
  <2>5. cluster' \in ClusterState \cup {Unnamed}  BY <2>3, <1>a DEF ClusterState
  <2>6. Moved  BY <2>1, <2>2, <2>3, <2>4, ThreadMoves DEF Labels, Locked
  <2> QED  BY <2>1, <2>5, <2>6, <1>a, <1>c
<1>7. ASSUME NEW t \in Threads, WaitTerminated(t)
      PROVE  Typed /\ Moved /\ Kept
  <2>1. UNCHANGED <<server, ctx, late, id, calls>> /\ pc[t] = "waitTerminated"
    BY <1>7 DEF WaitTerminated, WaitEnds
  <2>2. PICK label \in {"start", "ensure"} : pc' = [pc EXCEPT ![t] = label]
    BY <1>7 DEF WaitTerminated, WaitEnds, Goto
  <2>3. ctx = None /\ (cluster = "RUNNING" => sawRunning)  BY <2>1, <1>d DEF Locked
  <2>4. Moved  BY <2>1, <2>2, <2>3, ThreadMoves DEF server, Labels, Locked
  <2> QED  BY <2>1, <2>4, <1>a, <1>c DEF server
<1>8. ASSUME NEW t \in Threads, WaitRunning(t)
      PROVE  Typed /\ Moved /\ Kept
  <2>1. UNCHANGED <<server, ctx, late, id, calls>> /\ pc[t] = "waitRunning"
    BY <1>8 DEF WaitRunning, WaitEnds
  <2>2. PICK label \in {"create", "ensure"} :
           pc' = [pc EXCEPT ![t] = label] /\ (label = "create" => cluster = "RUNNING")
    BY <1>8, AwaitedStates DEF WaitRunning, WaitEnds, Goto
  <2>3. ctx = None /\ (cluster = "RUNNING" => sawRunning)  BY <2>1, <1>d DEF Locked
  <2>4. Moved  BY <2>1, <2>2, <2>3, ThreadMoves DEF server, Labels, Locked
  <2> QED  BY <2>1, <2>4, <1>a, <1>c DEF server
<1>9. ASSUME NEW t \in Threads, Create(t)
      PROVE  Typed /\ Moved /\ Kept
  <2>1. UNCHANGED <<cluster, sawRunning, ctx, late, calls>> /\ pc[t] = "create"
        /\ pc' = [pc EXCEPT ![t] = "waitContext"]
    BY <1>9 DEF Create, Goto
  <2>2. PICK c \in 1..MaxContexts : contexts' = [contexts EXCEPT ![c] = "PENDING"]
                                    /\ id' = [id EXCEPT ![t] = c]
    BY <1>9 DEF Create, UseContext
  <2>3. contexts' \in [1..MaxContexts -> ContextStatus \cup {"NONE", "GONE"}]
    BY <2>2, <1>a DEF ContextStatus
  <2>4. id' \in [Threads -> 0..MaxContexts]  BY <2>2, <1>a
  <2>5. ctx = None  BY <2>1, <1>d DEF Locked
  <2>6. Moved  BY <2>1, <2>5, ThreadMoves DEF Labels, Locked
  <2> QED  BY <2>1, <2>3, <2>4, <2>5, <2>6, <1>a
<1>10. ASSUME NEW t \in Threads, ContextReady(t)
       PROVE  Typed /\ Moved /\ Kept
  <2>1. UNCHANGED <<server, late, id, calls>> /\ pc[t] = "waitContext" /\ ctx' = id[t]
        /\ pc' = [pc EXCEPT ![t] = "execute"]
    BY <1>10 DEF ContextReady, Goto
  <2>2. ctx = None /\ pc[t] \in Locked  BY <2>1, <1>d DEF Locked
  <2>3. "execute" \in Labels /\ "execute" \notin Locked  BY DEF Labels, Locked
  <2>4. cluster' = cluster /\ sawRunning' = sawRunning /\ contexts' = contexts
    BY <2>1 DEF server
  <2>5. Moved  BY <2>1, <2>2, <2>3, <2>4, ThreadMoves DEF Labels
  <2>6. id[t] \in 0..MaxContexts  BY <1>a
  <2> QED  BY <2>1, <2>2, <2>4, <2>5, <2>6, <1>a
<1>11. ASSUME NEW s \in ClusterState \cup {Unnamed}, ClusterMoves(s)
       PROVE  Typed /\ Moved /\ Kept
  <2>1. UNCHANGED <<ctx, late, pc, id, calls>> /\ cluster' = s
        /\ sawRunning' = (sawRunning \/ s = "RUNNING")
    BY <1>11 DEF ClusterMoves
  <2>2. contexts' = contexts
        \/ contexts' = [c \in DOMAIN contexts |-> IF contexts[c] = "NONE" THEN "NONE" ELSE "GONE"]
    BY <1>11 DEF ClusterMoves
  <2>3. /\ contexts' \in [1..MaxContexts -> ContextStatus \cup {"NONE", "GONE"}]
        /\ \A c \in 1..MaxContexts : contexts'[c] # "NONE" <=> contexts[c] # "NONE"
    BY <2>2, <1>a
  <2>4. Made' = Made  BY <2>3 DEF Made
  <2>5. LockInv'  BY <2>1 DEF DbUtilsInv, LockInv, Locked
  <2>6. ContextInv'  BY <2>1 DEF DbUtilsInv, ContextInv, Locked, None
  <2>7. RunningInv'  BY <2>1, <1>d DEF RunningInv
  <2> QED  BY <2>1, <2>3, <2>4, <2>5, <2>6, <2>7, <1>a
<1>12. ASSUME NEW c \in 1..MaxContexts, ContextMoves(c)
       PROVE  Typed /\ Moved /\ Kept
  <2>1. UNCHANGED <<cluster, sawRunning, ctx, late, pc, id, calls>> /\ contexts[c] = "PENDING"
    BY <1>12 DEF ContextMoves
  <2>2. PICK s \in {"RUNNING", "ERROR"} : contexts' = [contexts EXCEPT ![c] = s]
    BY <1>12 DEF ContextMoves
  <2>3. /\ contexts' \in [1..MaxContexts -> ContextStatus \cup {"NONE", "GONE"}]
        /\ \A d \in 1..MaxContexts : contexts'[d] # "NONE" <=> contexts[d] # "NONE"
    BY <2>1, <2>2, <1>a DEF ContextStatus
  <2>4. Made' = Made  BY <2>3 DEF Made
  <2>5. LockInv' /\ ContextInv' /\ RunningInv'
    BY <2>1 DEF DbUtilsInv, LockInv, ContextInv, RunningInv, Locked, None
  <2> QED  BY <2>1, <2>3, <2>4, <2>5, <1>a
<1>13. ASSUME DeadlinePasses \/ UNCHANGED dbUtilsVars
       PROVE  Typed /\ Moved /\ Kept
  <2>1. UNCHANGED <<cluster, contexts, sawRunning, ctx, pc, id, calls>>
        /\ late' \in BOOLEAN
    BY <1>13, <1>a DEF DeadlinePasses, dbUtilsVars, server
  <2>2. LockInv' /\ ContextInv' /\ RunningInv'
    BY <2>1 DEF DbUtilsInv, LockInv, ContextInv, RunningInv, Locked, None
  <2> QED  BY <2>1, <2>2, <1>a, <1>c
<1>14. ASSUME NEW t \in Threads,
              OutOfTime(t) \/ ContextFails(t) \/ Execute(t) \/ RequestFails(t)
       PROVE  Typed /\ Moved /\ Kept
  <2>1. Raise(t)  BY <1>14 DEF OutOfTime, ContextFails, Execute, RequestFails
  <2> QED  BY <2>1, <1>5
<1> HIDE DEF Typed, Moved, Kept
<1>15. Typed /\ Moved /\ Kept
  <2>1. CASE \E t \in Threads : Call(t) \/ ThreadStep(t)
    BY <2>1, <1>1, <1>2, <1>3, <1>4, <1>6, <1>7, <1>8, <1>9, <1>10, <1>14 DEF ThreadStep
  <2>2. CASE ~\E t \in Threads : Call(t) \/ ThreadStep(t)
    BY <2>2, <1>11, <1>12, <1>13 DEF DbUtilsNext
  <2> QED  BY <2>1, <2>2
<1> QED  BY <1>0, <1>15 DEF Kept

LEMMA AlwaysDbUtilsInv == DbUtilsSpec => []DbUtilsInv
<1>1. DbUtilsInit => DbUtilsInv
  <2> SUFFICES ASSUME DbUtilsInit PROVE DbUtilsInv  OBVIOUS
  <2>1. \A t \in Threads : pc[t] = "idle"  BY DEF DbUtilsInit
  <2>2. DbUtilsTypeOK
    <3>1. cluster \in ClusterState \cup {Unnamed}  BY DEF DbUtilsInit
    <3>2. ctx \in 0..MaxContexts  BY DEF DbUtilsInit, None
    <3>3. late \in BOOLEAN /\ sawRunning \in BOOLEAN  BY DEF DbUtilsInit
    <3>4. contexts \in [1..MaxContexts -> ContextStatus \cup {"NONE", "GONE"}]
      BY DEF DbUtilsInit
    <3>5. pc \in [Threads -> Locked \cup {"idle", "lock", "execute"}]  BY DEF DbUtilsInit
    <3>6. id \in [Threads -> 0..MaxContexts] /\ calls \in [Threads -> 0..MaxCalls]
      BY DEF DbUtilsInit, None
    <3> QED  BY <3>1, <3>2, <3>3, <3>4, <3>5, <3>6 DEF DbUtilsTypeOK
  <2>3. LockInv /\ ContextInv /\ RunningInv  BY <2>1 DEF LockInv, ContextInv, RunningInv, Locked
  <2> QED  BY <2>2, <2>3 DEF DbUtilsInv
<1>2. DbUtilsInv /\ [DbUtilsNext]_dbUtilsVars => DbUtilsInv'  BY DbUtilsStep
<1> QED  BY <1>1, <1>2, PTL DEF DbUtilsSpec

\* Types, and that at most one thread is inside `with self._lock', whichever of its steps
\* raise.
THEOREM OneInsideLock == DbUtilsSpec => [](DbUtilsTypeOK /\ LockInv)
<1>1. DbUtilsInv => DbUtilsTypeOK /\ LockInv  BY DEF DbUtilsInv
<1> QED  BY <1>1, AlwaysDbUtilsInv, PTL

\* Whatever other users do with the cluster, ensure_cluster_is_running returns only when it
\* has been running since it was called.
THEOREM ClusterHasRun == DbUtilsSpec => []EnsuredIsRunning
<1>1. DbUtilsInv => EnsuredIsRunning  BY DEF DbUtilsInv, RunningInv, EnsuredIsRunning
<1> QED  BY <1>1, AlwaysDbUtilsInv, PTL

\* Once there is a context no thread makes another, however many threads there are.
THEOREM ContextIsKept == DbUtilsSpec => OneContext
<1>1. DbUtilsInv /\ [DbUtilsNext]_dbUtilsVars
        => [ctx # None => ctx' = ctx /\ Made' = Made]_dbUtilsVars
  BY DbUtilsStep
<1> QED  BY <1>1, AlwaysDbUtilsInv, PTL DEF DbUtilsSpec, OneContext
=============================================================================
