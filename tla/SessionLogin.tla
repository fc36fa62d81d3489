---------------------------- MODULE SessionLogin ----------------------------
(***************************************************************************)
(* Logging in with a browser, by several processes of one user that start, *)
(* crash and start again: external_browser() takes the session that        *)
(* TokenCache keeps in a file, or has the user consent to a new one in a   *)
(* browser, whose last page calls a listener on a fixed port.              *)
(*                                                                         *)
(* A login is a start of a process: <<process, number of the start>>.  It  *)
(* stands for its Consent, whose random state and verifier no other has.   *)
(* The file is what has been written over each other into it: it can be    *)
(* loaded if that is one token.                                            *)
(***************************************************************************)
EXTENDS Naturals, Sequences

CONSTANTS
    Processes,
    SpaClient,      \* the client is registered as a single-page application
    MaxStarts,      \* bound: starts of each process
    MaxTokens       \* bound: tokens issued

ASSUME LoginAssumption ==
    SpaClient \in BOOLEAN /\ MaxStarts \in Nat /\ MaxTokens \in Nat

Logins == Processes \X (1..MaxStarts)
None == 0

VARIABLES
    tokens,         \* server: the tokens issued: the login each belongs to, and
                    \* whether it has expired
    file,           \* the file of TokenCache
    pages,          \* logins whose page is open in the browser
    starts,         \* how often each process has started
    stage,             \* where each process stands
    credentials,    \* the token of each process' SessionCredentials
    callback,       \* the login whose state and code each process has got
    origin,         \* "Origin" in headers
    alone,          \* history: the process that has the file open for writing, if
                    \* none had when it opened it, or has opened it since
    saved,          \* history: such a process has written it last
    excused         \* history: why each process may ask the user to log in

disk == <<file, alone, saved>>
scratch == <<callback, origin, excused>>
local == <<credentials, scratch>>
loginVars == <<tokens, disk, pages, starts, stage, local>>

Proceed(p, label) == stage' = [stage EXCEPT ![p] = label]
ThisLogin(p) == <<p, starts[p]>>
Hold(p, i) == credentials' = [credentials EXCEPT ![p] = i]

\* What only a login needs is forgotten.
ForgetLogin(p) ==
    /\ callback' = [callback EXCEPT ![p] = <<>>]
    /\ origin' = [origin EXCEPT ![p] = FALSE]
    /\ excused' = [excused EXCEPT ![p] = FALSE]

\* The process ends: by an exception, or when it is killed.
Ends(p) ==
    /\ Proceed(p, "idle")
    /\ Hold(p, None) /\ ForgetLogin(p)
    /\ alone' = alone \ {p}
    /\ UNCHANGED <<tokens, file, saved, pages, starts>>

-----------------------------------------------------------------------------
(* TokenCache.load and a first token()                                     *)

Start(p) ==
    /\ stage[p] = "idle" /\ starts[p] < MaxStarts
    /\ starts' = [starts EXCEPT ![p] = @ + 1]
    /\ Proceed(p, "load")
    /\ UNCHANGED <<tokens, disk, pages, local>>

\* Faulty: a session whose token has expired is taken for none.
LoadUnexpired(p) ==
    /\ stage[p] = "load"
    /\ excused' = [excused EXCEPT ![p] = ~saved]
    /\ IF Len(file) = 1 /\ ~tokens[file[1]].expired
       THEN Hold(p, file[1]) /\ Proceed(p, "token")
       ELSE Proceed(p, "login") /\ UNCHANGED credentials
    /\ UNCHANGED <<tokens, disk, pages, starts, callback, origin>>

\* "Return None if the cache file does not exist or is invalid."
Load(p) ==
    /\ stage[p] = "load"
    /\ excused' = [excused EXCEPT ![p] = ~saved]
    /\ IF Len(file) = 1
       THEN Hold(p, file[1]) /\ Proceed(p, "token")
       ELSE Proceed(p, "login") /\ UNCHANGED credentials
    /\ UNCHANGED <<tokens, disk, pages, starts, callback, origin>>

\* token() of the credentials, at one of the places that call it: "token" is the
\* proactive one, "dump" that of as_dict() in save, "use" that of a request.  An expired
\* token is renewed first.
GetToken(p, place, refresh, next) ==
    /\ stage[p] = place
    /\ Proceed(p, IF tokens[credentials[p]].expired THEN refresh ELSE next)
    /\ UNCHANGED <<tokens, disk, pages, starts, local>>

Issue(login) ==
    /\ Len(tokens) < MaxTokens
    /\ tokens' = Append(tokens, [of |-> login, expired |-> FALSE])

\* refresh() is answered.  Nothing is saved.
Refreshed(p, refresh, next) ==
    /\ stage[p] = refresh
    /\ Issue(tokens[credentials[p]].of)
    /\ Hold(p, Len(tokens'))
    /\ excused' = [excused EXCEPT ![p] = FALSE]
    /\ Proceed(p, next)
    /\ UNCHANGED <<disk, pages, starts, callback, origin>>

\* It raises: without a refresh token, or if the server does not accept it (it may do so
\* once only, and what it gives in exchange is not saved), or cannot be reached.
RefreshFails(p, refresh, next) ==
    /\ stage[p] = refresh
    /\ excused' = [excused EXCEPT ![p] = (next = "login")]
    /\ Proceed(p, next)
    /\ UNCHANGED <<tokens, disk, pages, starts, credentials, callback, origin>>

-----------------------------------------------------------------------------
(* launch_external_browser                                                 *)

\* webbrowser.open_new, before there is a listener.
OpenBrowser(p) ==
    /\ stage[p] = "login"
    /\ pages' = pages \cup {ThisLogin(p)}
    /\ Proceed(p, "bind")
    /\ UNCHANGED <<tokens, disk, starts, local>>

PortIsFree == \A q \in Processes : stage[q] # "listen"

Bind(p) ==
    /\ stage[p] = "bind" /\ PortIsFree
    /\ Proceed(p, "listen")
    /\ UNCHANGED <<tokens, disk, pages, starts, local>>

\* OSError: the address is in use.
BindFails(p) ==
    /\ stage[p] = "bind" /\ ~PortIsFree
    /\ Ends(p)

\* The one request that is handled comes from the page of any login: with a state and
\* a code.  The page stays open and can be loaded again.
Callback(p) ==
    /\ stage[p] = "listen"
    /\ \E login \in pages : callback' = [callback EXCEPT ![p] = login]
    /\ Proceed(p, "state")
    /\ UNCHANGED <<tokens, disk, pages, starts, credentials, origin, excused>>

\* It is another one: no query, an error (the user declines), or no code.
OtherRequest(p) ==
    /\ stage[p] = "listen"
    /\ Ends(p)

\* Faulty: the state of the callback is not looked at.
AnyState(p) ==
    /\ stage[p] = "state"
    /\ Proceed(p, "exchange")
    /\ UNCHANGED <<tokens, disk, pages, starts, local>>

\* exchange(): "state mismatch" raises.
CheckState(p) ==
    /\ stage[p] = "state"
    /\ \/ /\ callback[p] = ThisLogin(p)
          /\ Proceed(p, "exchange")
          /\ UNCHANGED <<tokens, disk, pages, starts, local>>
       \/ callback[p] # ThisLogin(p) /\ Ends(p)

\* The server wants an Origin of such a client.
OriginIsFine(p) == SpaClient => origin[p]

\* The code is worth a token of the login that it is from.
Exchanged(p) ==
    /\ stage[p] = "exchange" /\ OriginIsFine(p)
    /\ Issue(callback[p])
    /\ Hold(p, Len(tokens'))
    /\ Proceed(p, "open")
    /\ UNCHANGED <<disk, pages, starts, callback, origin, excused>>

\* Faulty: the request is repeated as it was.
OriginWantedAgain(p) ==
    /\ stage[p] = "exchange" /\ ~OriginIsFine(p)
    /\ UNCHANGED loginVars

\* NO_ORIGIN_FOR_SPA_CLIENT_ERROR: the request is repeated with an Origin.
OriginWanted(p) ==
    /\ stage[p] = "exchange" /\ ~OriginIsFine(p)
    /\ origin' = [origin EXCEPT ![p] = TRUE]
    /\ UNCHANGED <<tokens, disk, pages, starts, stage, credentials, callback, excused>>

ExchangeFails(p) ==
    /\ stage[p] = "exchange" /\ OriginIsFine(p)
    /\ Ends(p)

-----------------------------------------------------------------------------
(* TokenCache.save                                                         *)

\* Where the file is open for writing.
Saving == {"dump", "dumpRefresh", "write"}

\* open(filename, "w") empties the file.
OpenFile(p) ==
    /\ stage[p] = "open"
    /\ file' = <<>>
    /\ alone' = {q \in {p} : \A r \in Processes : stage[r] \notin Saving}
    /\ saved' = FALSE
    /\ Proceed(p, "dump")
    /\ UNCHANGED <<tokens, pages, starts, local>>

\* What json.dump has written gets into the file when it is closed, from its start on;
\* what another process wrote there meanwhile may be longer.
Write(p) ==
    /\ stage[p] = "write"
    /\ file' \in {<<credentials[p]>>, <<credentials[p]>> \o file}
    /\ saved' = (saved \/ p \in alone)
    /\ alone' = alone \ {p}
    /\ Proceed(p, "use") /\ ForgetLogin(p)
    /\ UNCHANGED <<tokens, pages, starts, credentials>>

-----------------------------------------------------------------------------
(* The process and its environment                                         *)

\* A process exits, or is killed, wherever it is.
Stop(p) ==
    /\ stage[p] # "idle"
    /\ Ends(p)

\* refresh() in as_dict() raises, and the file stays empty.
SaveFails(p) ==
    /\ stage[p] = "dumpRefresh"
    /\ Ends(p)

Expire(i) ==
    /\ ~tokens[i].expired
    /\ tokens' = [tokens EXCEPT ![i].expired = TRUE]
    /\ UNCHANGED <<disk, pages, starts, stage, local>>

-----------------------------------------------------------------------------
LoginInit ==
    /\ tokens = <<>> /\ file = <<>> /\ pages = {}
    /\ starts = [p \in Processes |-> 0]
    /\ stage = [p \in Processes |-> "idle"]
    /\ credentials = [p \in Processes |-> None]
    /\ callback = [p \in Processes |-> <<>>]
    /\ origin = [p \in Processes |-> FALSE]
    /\ alone = {} /\ saved = FALSE
    /\ excused = [p \in Processes |-> FALSE]

\* A start, and what answers its requests to the token endpoint.
Step(p) ==
    \/ Load(p)
    \/ GetToken(p, "token", "tokenRefresh", "use") \/ Refreshed(p, "tokenRefresh", "use")
    \/ RefreshFails(p, "tokenRefresh", "login")
    \/ OpenBrowser(p) \/ Bind(p) \/ BindFails(p)
    \/ CheckState(p) \/ Exchanged(p) \/ OriginWanted(p) \/ ExchangeFails(p)
    \/ OpenFile(p)
    \/ GetToken(p, "dump", "dumpRefresh", "write") \/ Refreshed(p, "dumpRefresh", "write")
    \/ SaveFails(p)
    \/ Write(p)

\* What is done with the credentials later.
Use(p) ==
    \/ GetToken(p, "use", "useRefresh", "use") \/ Refreshed(p, "useRefresh", "use")
    \/ RefreshFails(p, "useRefresh", "use")

LoginNext ==
    \/ \E p \in Processes :
        Start(p) \/ Step(p) \/ Use(p) \/ Callback(p) \/ OtherRequest(p) \/ Stop(p)
    \/ \E i \in DOMAIN tokens : Expire(i)

LoginSpec == LoginInit /\ [][LoginNext]_loginVars

\* Processes run on, the token endpoint answers, and the user has some page of a login
\* call the listener that waits for it.
LoginFairSpec ==
    LoginSpec /\ \A p \in Processes : WF_loginVars(Step(p)) /\ WF_loginVars(Callback(p))

-----------------------------------------------------------------------------
(* Properties                                                              *)

\* The session that a process saves is of the login its user has just made for it,
\* though pages of other processes, and of its own earlier starts, call the same port.
SessionIsOwn ==
    \A p \in Processes :
        stage[p] \in {"open"} \cup Saving => tokens[credentials[p]].of = ThisLogin(p)

\* Once a process has saved a session, and no other wrote the file at the same time or
\* was killed while it did later, a start asks the user to log in only after the server
\* has failed to renew the session: also when its token has expired meanwhile.
LoginOnlyIfNeeded == \A p \in Processes : stage[p] = "login" => excused[p]

\* A start ends with credentials or an exception, whatever another process that crashed
\* or fails has left in the file and on the port.
StartsEnd ==
    LET Ended(p) == stage[p] \in {"idle", "use", "useRefresh"}
    IN  \A p \in Processes : ~Ended(p) ~> Ended(p)
=============================================================================
