----------------------------- MODULE DataPlane -----------------------------
(***************************************************************************)
(* Queries of data plane endpoints by several threads of one client:       *)
(* ServingEndpointsDataPlaneAPI.query, which keeps what it knows of each   *)
(* endpoint, on top of DataPlaneTokenSource, which keeps one token source  *)
(* per key in a table under double-checked locking.                        *)
(*                                                                         *)
(* What the control plane says of an endpoint, its URL and authorization   *)
(* details, is the name of the endpoint with a version; the URL is the     *)
(* same in all versions.  A token source is what Refreshable promises: it  *)
(* returns its token or, if that has expired, the one it gets while it     *)
(* holds its lock.  Locks are no variables: who holds one is told by the   *)
(* program counters.                                                       *)
(***************************************************************************)
EXTENDS Naturals, Sequences

CONSTANTS
    Threads,
    Endpoints,
    Unanswered,     \* endpoints whose requests for tokens get no answer
    MaxVersion,     \* bound: versions of an endpoint
    MaxQueries      \* bound: queries of a thread

ASSUME ConstantsAssumption ==
    /\ Endpoints # {} /\ Unanswered \subseteq Endpoints
    /\ MaxVersion \in Nat \ {0} /\ MaxQueries \in Nat

Infos == Endpoints \X (1..MaxVersion)
Keys == Endpoints \X (0..MaxVersion)
None == 0
NoInfo == <<CHOOSE n \in Endpoints : TRUE, None>>

VARIABLES
    served,         \* control plane: the current version of each endpoint
    details,        \* _data_plane_details: the version kept, or None
    table,          \* _token_sources: key -> index in sources, or None
    sources,        \* every DataPlaneEndpointTokenSource made: whom its tokens
                    \* are for, and whether the one it holds is valid
    pc,             \* where each thread stands
    info,           \* data_plane_info of each thread's query
    source,         \* token_source of each thread
    token,          \* whom the token of each thread is for
    queries         \* how many queries each thread has begun

cache == <<details, table>>
vars == <<served, cache, sources, pc, info, source, token, queries>>

Goto(t, label) == pc' = [pc EXCEPT ![t] = label]

\* The query returns or raises; its local variables are gone.
Leave(t) ==
    /\ Goto(t, "idle")
    /\ info' = [info EXCEPT ![t] = NoInfo]
    /\ source' = [source EXCEPT ![t] = None]
    /\ token' = [token EXCEPT ![t] = NoInfo]
    /\ UNCHANGED <<served, cache, sources, queries>>

\* Faulty: the authorization details are not part of the key.
KeyOfUrl(i) == <<i[1], 0>>

\* key = f"{endpoint}:{auth_details}"
Key(i) == i

\* Faulty: the call of token() is inside the locked region.
LockedWithToken == {"check", "create", "source", "exchange", "retrieve"}

\* Where a thread is inside `with self._lock` of DataPlaneTokenSource.
Locked == {"check", "create"}
TableIsFree == \A t \in Threads : pc[t] \notin Locked

\* Where a thread is inside `with self._lock` of its token source, waiting.
SourceIsFree(s) == \A t \in Threads : source[t] = s => pc[t] \notin {"exchange", "retrieve"}

-----------------------------------------------------------------------------
(* What is known of an endpoint                                            *)

\* query() calls _data_plane_info_query, which looks under its lock.
Query(t) ==
    /\ pc[t] = "idle" /\ queries[t] < MaxQueries
    /\ queries' = [queries EXCEPT ![t] = @ + 1]
    /\ \E n \in Endpoints :
        IF details[n] = None
        THEN info' = [info EXCEPT ![t] = <<n, None>>] /\ Goto(t, "get")
        ELSE info' = [info EXCEPT ![t] = <<n, details[n]>>] /\ Goto(t, "lookup")
    /\ UNCHANGED <<served, cache, sources, source, token>>

\* The control plane answers, without any lock held here.
GetAnswered(t) ==
    /\ pc[t] = "get"
    /\ info' = [info EXCEPT ![t] = <<@[1], served[@[1]]>>]
    /\ Goto(t, "store")
    /\ UNCHANGED <<served, cache, sources, source, token, queries>>

StoreDetails(t) ==
    /\ pc[t] = "store"
    /\ details' = [details EXCEPT ![info[t][1]] = info[t][2]]
    /\ Goto(t, "lookup")
    /\ UNCHANGED <<served, table, sources, info, source, token, queries>>

-----------------------------------------------------------------------------
(* The table of token sources                                              *)

\* "First, try to read without acquiring the lock".
Lookup(t) ==
    /\ pc[t] = "lookup"
    /\ source' = [source EXCEPT ![t] = table[Key(info[t])]]
    /\ Goto(t, IF table[Key(info[t])] = None THEN "lock" ELSE "source")
    /\ UNCHANGED <<served, cache, sources, info, token, queries>>

Lock(t) ==
    /\ pc[t] = "lock"
    /\ TableIsFree
    /\ Goto(t, "check")
    /\ UNCHANGED <<served, cache, sources, info, source, token, queries>>

\* Faulty: the table is not read again under the lock.
NoCheck(t) ==
    /\ pc[t] = "check"
    /\ Goto(t, "create")
    /\ UNCHANGED <<served, cache, sources, info, source, token, queries>>

\* "Another thread might have created it while we were waiting for the lock."
CheckAgain(t) ==
    /\ pc[t] = "check"
    /\ source' = [source EXCEPT ![t] = table[Key(info[t])]]
    /\ Goto(t, IF table[Key(info[t])] = None THEN "create" ELSE "source")
    /\ UNCHANGED <<served, cache, sources, info, token, queries>>

Create(t) ==
    /\ pc[t] = "create"
    /\ sources' = Append(sources, [for |-> info[t], valid |-> FALSE])
    /\ table' = [table EXCEPT ![Key(info[t])] = Len(sources')]
    /\ source' = [source EXCEPT ![t] = Len(sources')]
    /\ Goto(t, "source")
    /\ UNCHANGED <<served, details, info, token, queries>>

-----------------------------------------------------------------------------
(* token() of a token source                                               *)

Take(t) == token' = [token EXCEPT ![t] = sources[source[t]].for]

\* token() has the lock: the token is returned, or refresh() is called.
Acquire(t) ==
    /\ pc[t] = "source"
    /\ SourceIsFree(source[t])
    /\ IF sources[source[t]].valid
       THEN Take(t) /\ Goto(t, "send")
       ELSE Goto(t, "exchange") /\ UNCHANGED token
    /\ UNCHANGED <<served, cache, sources, info, source, queries>>

\* self._cpts() returns the token of the control plane.
ControlPlaneToken(t) ==
    /\ pc[t] = "exchange"
    /\ Goto(t, "retrieve")
    /\ UNCHANGED <<served, cache, sources, info, source, token, queries>>

\* oauth.retrieve_token exchanges it, and blocks for as long as that takes.
Retrieved(t) ==
    /\ pc[t] = "retrieve" /\ info[t][1] \notin Unanswered
    /\ sources' = [sources EXCEPT ![source[t]].valid = TRUE]
    /\ Take(t)
    /\ Goto(t, "send")
    /\ UNCHANGED <<served, cache, info, source, queries>>

\* _api.do with the token: the query ends, however it goes.
Send(t) ==
    /\ pc[t] = "send"
    /\ Leave(t)

\* One of the three requests raises; so does an endpoint without data plane access.
Raise(t) ==
    /\ pc[t] \in {"get", "exchange", "retrieve"}
    /\ pc[t] = "retrieve" => info[t][1] \notin Unanswered
    /\ Leave(t)

-----------------------------------------------------------------------------
(* The environment                                                         *)

\* An endpoint is deployed anew, with other authorization details.
Deploy(n) ==
    /\ served[n] < MaxVersion
    /\ served' = [served EXCEPT ![n] = @ + 1]
    /\ UNCHANGED <<cache, sources, pc, info, source, token, queries>>

\* A token expires, or a background refresh replaces one that has.
Ages(s) ==
    /\ sources' = [sources EXCEPT ![s].valid = ~@]
    /\ UNCHANGED <<served, cache, pc, info, source, token, queries>>

-----------------------------------------------------------------------------
Init ==
    /\ served = [n \in Endpoints |-> 1]
    /\ details = [n \in Endpoints |-> None]
    /\ table = [k \in Keys |-> None]
    /\ sources = <<>>
    /\ pc = [t \in Threads |-> "idle"]
    /\ info = [t \in Threads |-> NoInfo]
    /\ source = [t \in Threads |-> None]
    /\ token = info
    /\ queries = [t \in Threads |-> 0]

\* What a thread does, once it has begun a query.
Step(t) ==
    \/ GetAnswered(t) \/ StoreDetails(t) \/ Lookup(t) \/ Lock(t) \/ CheckAgain(t) \/ Create(t)
    \/ Acquire(t) \/ ControlPlaneToken(t) \/ Retrieved(t) \/ Send(t) \/ Raise(t)

Next ==
    \/ \E t \in Threads : Query(t) \/ Step(t)
    \/ \E n \in Endpoints : Deploy(n)
    \/ \E s \in DOMAIN sources : Ages(s)

Spec == Init /\ [][Next]_vars

\* Every thread runs on.  The locks need not be fair: queries are finitely many.
FairSpec == Spec /\ \A t \in Threads : WF_vars(Step(t))

-----------------------------------------------------------------------------
(* Properties                                                              *)

TypeOK ==
    /\ served \in [Endpoints -> 1..MaxVersion]
    /\ details \in [Endpoints -> 0..MaxVersion]
    /\ sources \in Seq([for : Infos, valid : BOOLEAN])
    /\ table \in [Keys -> Nat]
    /\ pc \in [Threads -> {"idle", "get", "store", "lookup", "lock", "check", "create",
                           "source", "exchange", "retrieve", "send"}]
    /\ info \in [Threads -> Keys] /\ source \in [Threads -> Nat]
    /\ token \in [Threads -> Keys] /\ queries \in [Threads -> Nat]

\* However lookups, checks and refreshes interleave, there is never a second token
\* source for one endpoint and details: it would get, and renew, tokens of its own.
OneSourcePerKey ==
    \A r, s \in DOMAIN sources : sources[r].for = sources[s].for => r = s

\* The token a query is sent with was made for the authorization details that came
\* with the URL it is sent to, also when the endpoint has been deployed anew between
\* the requests of two threads.
TokenFitsDetails == \A t \in Threads : pc[t] = "send" => token[t] = info[t]

\* A request for a token that is never answered, as requests.post without a timeout
\* allows, holds up the queries of its own endpoint, and no others.
OthersGoOn ==
    \A t \in Threads :
        pc[t] # "idle" /\ info[t][1] \notin Unanswered ~> pc[t] = "idle"
=============================================================================
