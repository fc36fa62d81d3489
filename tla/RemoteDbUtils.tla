--------------------------- MODULE RemoteDbUtils ---------------------------
(***************************************************************************)
(* Calls of remote dbutils by the threads of a program: RemoteDbUtils      *)
(* keeps one execution context on a cluster, made when it is first needed, *)
(* after ClustersExt.ensure_cluster_is_running has seen to the cluster.    *)
(* Other users start, restart and terminate the cluster meanwhile.         *)
(*                                                                         *)
(* A wait ends as module Waiter says: with the object in a state of the    *)
(* waiter's row, or with TimeoutError at any time.  Time is only whether   *)
(* ensure_cluster_is_running is past its deadline.                         *)
(***************************************************************************)
EXTENDS Waiters, Naturals

CONSTANTS
    Threads,
    MaxCalls,       \* bound: calls of each thread
    MaxContexts     \* bound: contexts made

ASSUME DbUtilsAssumption == MaxCalls \in Nat /\ MaxContexts \in Nat

None == 0

VARIABLES
    cluster,        \* server: the state of the cluster
    contexts,       \* server: the state of each context made, "GONE" with the cluster
    ctx,            \* _ctx: a context, or None
    late,           \* time.time() >= deadline, in ensure_cluster_is_running
    pc,             \* where each thread stands
    id,             \* the context of each thread's call
    sawRunning,     \* history: the cluster was RUNNING since that was called
    calls           \* how many calls each thread has begun

server == <<cluster, contexts, sawRunning>>
dbUtilsVars == <<server, ctx, late, pc, id, calls>>

Made == {c \in 1..MaxContexts : contexts[c] # "NONE"}

Goto(t, label) == pc' = [pc EXCEPT ![t] = label]
UseContext(t, c) == id' = [id EXCEPT ![t] = c]

\* Where a thread is inside `with self._lock`.
Locked ==
    {"check", "ensure", "start", "waitTerminated", "waitRunning", "create", "waitContext"}
LockIsFree == \A t \in Threads : pc[t] \notin Locked

Raise(t) ==
    /\ Goto(t, "idle")
    /\ UNCHANGED <<server, ctx, late, id, calls>>

-----------------------------------------------------------------------------
(* _running_command_context                                                *)

Call(t) ==
    /\ pc[t] = "idle" /\ calls[t] < MaxCalls
    /\ calls' = [calls EXCEPT ![t] = @ + 1]
    /\ IF ctx # None
       THEN UseContext(t, ctx) /\ Goto(t, "execute")
       ELSE Goto(t, "lock") /\ UNCHANGED id
    /\ UNCHANGED <<server, ctx, late>>

Lock(t) ==
    /\ pc[t] = "lock" /\ LockIsFree
    /\ Goto(t, "check")
    /\ UNCHANGED <<server, ctx, late, id, calls>>

\* ensure_cluster_is_running is called, and sets its deadline.
Ensure(t) ==
    /\ Goto(t, "ensure")
    /\ late' = FALSE /\ sawRunning' = (cluster = "RUNNING")
    /\ UNCHANGED id

\* Faulty: another thread may have made a context meanwhile.
SkipCheck(t) ==
    /\ pc[t] = "check"
    /\ Ensure(t)
    /\ UNCHANGED <<cluster, contexts, ctx, calls>>

CheckAgain(t) ==
    /\ pc[t] = "check"
    /\ IF ctx # None
       THEN UseContext(t, ctx) /\ Goto(t, "execute") /\ UNCHANGED <<late, sawRunning>>
       ELSE Ensure(t)
    /\ UNCHANGED <<cluster, contexts, ctx, calls>>

-----------------------------------------------------------------------------
(* ensure_cluster_is_running                                               *)

\* What is done about the state of the cluster.  ERROR and UNKNOWN raise; a state the SDK
\* has no name for is asked for again, at once.
AfterGet(state) ==
    CASE state = "RUNNING" -> "create"
      [] state = "TERMINATED" -> "start"
      [] state = "TERMINATING" -> "waitTerminated"
      [] state \in {"PENDING", "RESIZING", "RESTARTING"} -> "waitRunning"
      [] state \in {"ERROR", "UNKNOWN"} -> "idle"
      [] state = Unnamed -> "ensure"

\* info = self.get(cluster_id)
Get(t) ==
    /\ pc[t] = "ensure" /\ ~late
    /\ Goto(t, AfterGet(cluster))
    /\ UNCHANGED <<server, ctx, late, id, calls>>

\* The end of the loop, which only this step leaves for want of time.
OutOfTime(t) ==
    /\ pc[t] = "ensure" /\ late
    /\ Raise(t)

\* Faulty: the end of the start is not awaited.
StartUnawaited(t) ==
    /\ pc[t] = "start"
    /\ cluster' = IF cluster = "TERMINATED" THEN "PENDING" ELSE cluster
    /\ Goto(t, "create")
    /\ UNCHANGED <<contexts, sawRunning, ctx, late, id, calls>>

\* start() wakes a terminated cluster.  If somebody else has, it is refused, which is
\* tried again ("Cluster was started by other process"), or does nothing.
Start(t) ==
    /\ pc[t] = "start"
    /\ \/ /\ cluster = "TERMINATED"
          /\ cluster' = "PENDING" /\ Goto(t, "waitRunning")
       \/ /\ cluster # "TERMINATED"
          /\ pc' \in {[pc EXCEPT ![t] = "ensure"], [pc EXCEPT ![t] = "waitRunning"]}
          /\ UNCHANGED cluster
    /\ UNCHANGED <<contexts, sawRunning, ctx, late, id, calls>>

\* Faulty: the twenty minutes are counted from the last failure.
WaitEndsAnew(t, label, w, next) ==
    /\ pc[t] = label
    /\ \/ cluster \in w.target /\ Goto(t, next) /\ UNCHANGED late
       \/ cluster \in w.failure /\ Goto(t, "ensure") /\ late' = FALSE
    /\ UNCHANGED <<server, ctx, id, calls>>

\* A wait ends: OperationFailed begins the loop anew.
WaitEnds(t, label, w, next) ==
    /\ pc[t] = label
    /\ \/ cluster \in w.target /\ Goto(t, next)
       \/ cluster \in w.failure /\ Goto(t, "ensure")
    /\ UNCHANGED <<server, ctx, late, id, calls>>

WaitTerminated(t) == WaitEnds(t, "waitTerminated", ClusterTerminated, "start")
WaitRunning(t) == WaitEnds(t, "waitRunning", ClusterRunning, "create")

-----------------------------------------------------------------------------
(* The context and the command                                             *)

\* contexts/create; the server wants a running cluster.
Create(t) ==
    /\ pc[t] = "create" /\ cluster = "RUNNING"
    /\ \E c \in 1..MaxContexts :
        /\ contexts[c] = "NONE" /\ \A d \in 1..(c - 1) : contexts[d] # "NONE"
        /\ contexts' = [contexts EXCEPT ![c] = "PENDING"]
        /\ UseContext(t, c)
    /\ Goto(t, "waitContext")
    /\ UNCHANGED <<cluster, sawRunning, ctx, late, calls>>

\* _ctx is set, and the lock is released.
ContextReady(t) ==
    /\ pc[t] = "waitContext" /\ contexts[id[t]] \in ContextRunning.target
    /\ ctx' = id[t]
    /\ Goto(t, "execute")
    /\ UNCHANGED <<server, late, id, calls>>

\* OperationFailed from the wait for the context, or an error of the server.
ContextFails(t) ==
    /\ pc[t] = "waitContext" /\ contexts[id[t]] \in ContextRunning.failure \cup {"GONE"}
    /\ Raise(t)

\* commands/execute and the wait for it, which fail if the context is not there.
Execute(t) ==
    /\ pc[t] = "execute"
    /\ Raise(t)

\* Any request raises, or a wait ends with TimeoutError.
RequestFails(t) ==
    /\ pc[t] \in Locked \ {"check"}
    /\ Raise(t)

-----------------------------------------------------------------------------
(* The environment                                                         *)

\* "The current allowable state transitions" (State), and those of start, of errors and
\* of a state that is newer than the SDK.
Transitions ==
    {<<"PENDING", "RUNNING">>, <<"PENDING", "TERMINATING">>, <<"RUNNING", "RESIZING">>,
     <<"RUNNING", "RESTARTING">>, <<"RUNNING", "TERMINATING">>,
     <<"RESTARTING", "RUNNING">>, <<"RESTARTING", "TERMINATING">>,
     <<"RESIZING", "RUNNING">>, <<"RESIZING", "TERMINATING">>,
     <<"TERMINATING", "TERMINATED">>, <<"TERMINATED", "PENDING">>, <<"PENDING", "ERROR">>,
     <<"ERROR", "TERMINATING">>, <<"RUNNING", "UNKNOWN">>, <<"UNKNOWN", "RUNNING">>,
     <<"RUNNING", Unnamed>>, <<Unnamed, "RUNNING">>}

\* The cluster moves on; contexts live while it is up.
ClusterMoves(state) ==
    /\ <<cluster, state>> \in Transitions
    /\ cluster' = state
    /\ contexts' = IF state \in {"RESTARTING", "TERMINATING"}
                   THEN [c \in DOMAIN contexts |->
                            IF contexts[c] = "NONE" THEN "NONE" ELSE "GONE"]
                   ELSE contexts
    /\ sawRunning' = (sawRunning \/ state = "RUNNING")
    /\ UNCHANGED <<ctx, late, pc, id, calls>>

ContextMoves(c) ==
    /\ contexts[c] = "PENDING"
    /\ \E s \in {"RUNNING", "ERROR"} : contexts' = [contexts EXCEPT ![c] = s]
    /\ UNCHANGED <<cluster, sawRunning, ctx, late, pc, id, calls>>

DeadlinePasses ==
    /\ ~late /\ ~LockIsFree
    /\ late' = TRUE
    /\ UNCHANGED <<server, ctx, pc, id, calls>>

-----------------------------------------------------------------------------
DbUtilsInit ==
    /\ cluster \in ClusterState \cup {Unnamed}
    /\ contexts = [c \in 1..MaxContexts |-> "NONE"]
    /\ ctx = None /\ late = FALSE /\ sawRunning = FALSE
    /\ pc = [t \in Threads |-> "idle"]
    /\ id = [t \in Threads |-> None]
    /\ calls = [t \in Threads |-> 0]

\* A thread's own steps, and the ends of its waits and requests.
ThreadStep(t) ==
    \/ Lock(t) \/ CheckAgain(t) \/ Get(t) \/ OutOfTime(t) \/ Start(t)
    \/ WaitTerminated(t) \/ WaitRunning(t) \/ Create(t)
    \/ ContextReady(t) \/ ContextFails(t) \/ Execute(t) \/ RequestFails(t)

DbUtilsNext ==
    \/ \E t \in Threads : Call(t) \/ ThreadStep(t)
    \/ \E s \in ClusterState \cup {Unnamed} : ClusterMoves(s)
    \/ \E c \in 1..MaxContexts : ContextMoves(c)
    \/ DeadlinePasses

DbUtilsSpec == DbUtilsInit /\ [][DbUtilsNext]_dbUtilsVars

\* Threads run on, waits and requests end, time passes.
DbUtilsFairSpec ==
    /\ DbUtilsSpec
    /\ \A t \in Threads : WF_dbUtilsVars(ThreadStep(t))
    /\ WF_dbUtilsVars(DeadlinePasses)

-----------------------------------------------------------------------------
(* Properties                                                              *)

\* "Ensures that given cluster is running, regardless of the current state"
\* (docstring): when it returns, the cluster has been running since it was called,
\* whatever other users did with it in between.
EnsuredIsRunning == \A t \in Threads : pc[t] = "create" => sawRunning

\* Once there is a context, no thread makes another: those that waited for the lock
\* while it was being made use it, too.
OneContext == [][ctx # None => ctx' = ctx /\ Made' = Made]_dbUtilsVars

\* No call waits for ever, however often starting the cluster fails or is
\* forestalled, and whichever thread fails while it holds the lock.
CallsEnd == \A t \in Threads : pc[t] # "idle" ~> pc[t] = "idle"
=============================================================================
