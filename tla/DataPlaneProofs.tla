-------------------------- MODULE DataPlaneProofs --------------------------
(***************************************************************************)
(* Proofs about DataPlane: types, one token source per endpoint and        *)
(* details, and tokens that fit the details they are used with.            *)
(***************************************************************************)
EXTENDS DataPlane, TLAPS

USE ConstantsAssumption DEF ConstantsAssumption

\* Labels at which a query knows what the control plane says of its endpoint.
Informed == {"store", "lookup", "lock", "check", "create", "source", "exchange", "retrieve", "send"}

\* Labels at which a thread has the token source of its endpoint and details.
Equipped == {"source", "exchange", "retrieve"}

\* What the control plane has said once is a version that is or was current.
InfoInv ==
    /\ \A t \in Threads : pc[t] \in Informed => info[t] \in Infos
    /\ \A t \in Threads : pc[t] = "create" => table[Key(info[t])] = None

\* The table and the token sources describe the same one-to-one relation.
TableInv ==
    /\ \A k \in Keys : table[k] # None => table[k] \in DOMAIN sources /\ sources[table[k]].for = k
    /\ \A r \in DOMAIN sources : table[sources[r].for] = r

\* Only one thread is inside the locked region of the table.
LockInv == \A t, u \in Threads : pc[t] \in Locked /\ pc[u] \in Locked => t = u

SourceInv ==
    \A t \in Threads :
        pc[t] \in Equipped => source[t] \in DOMAIN sources /\ sources[source[t]].for = info[t]

IInv == TypeOK /\ InfoInv /\ TableInv /\ LockInv /\ SourceInv /\ TokenFitsDetails

LEMMA KeyFacts == Infos \subseteq Keys /\ NoInfo \in Keys /\ None \in 0..MaxVersion
  BY DEF Infos, Keys, NoInfo, None

LEMMA PairFacts ==
    /\ \A i \in Keys : i[1] \in Endpoints
    /\ \A n \in Endpoints : \A v \in 1..MaxVersion : <<n, v>> \in Infos
    /\ \A n \in Endpoints : \A v \in 0..MaxVersion :
            <<n, v>> \in Keys /\ (v # None => v \in 1..MaxVersion)
  BY DEF Infos, Keys, None

LEMMA Renewed ==
    ASSUME sources \in Seq([for : Infos, valid : BOOLEAN]), NEW s \in DOMAIN sources,
           NEW v \in BOOLEAN
    PROVE  /\ sources[s].for \in Infos
           /\ [sources EXCEPT ![s].valid = v] \in Seq([for : Infos, valid : BOOLEAN])
<1> DEFINE S == [for : Infos, valid : BOOLEAN]
<1>1. sources[s] \in S
  <2> HIDE DEF S
  <2>1. ASSUME sources \in Seq(S) PROVE sources[s] \in S
    BY <2>1
  <2>2. QED
    BY <2>1 DEF S
<1>2. [sources[s] EXCEPT !.valid = v] \in S
  BY <1>1
<1>3. [sources EXCEPT ![s].valid = v] = [sources EXCEPT ![s] = [sources[s] EXCEPT !.valid = v]]
  OBVIOUS
<1> HIDE DEF S
<1>4. ASSUME NEW e \in S, sources \in Seq(S) PROVE [sources EXCEPT ![s] = e] \in Seq(S)
  BY <1>4
<1>5. [sources EXCEPT ![s].valid = v] \in Seq(S)
  BY <1>2, <1>3, <1>4 DEF S
<1>6. QED
  BY <1>1, <1>5 DEF S

LEMMA InitHolds == Init => IInv
<1> SUFFICES ASSUME Init PROVE IInv
  OBVIOUS
<1>1. TypeOK
  <2>1. served \in [Endpoints -> 1..MaxVersion] /\ details \in [Endpoints -> 0..MaxVersion]
    BY DEF Init, None
  <2>2. sources \in Seq([for : Infos, valid : BOOLEAN])
    BY DEF Init
  <2>3. QED
    BY <2>1, <2>2, KeyFacts DEF Init, TypeOK, None
<1>2. InfoInv /\ TableInv /\ LockInv /\ SourceInv /\ TokenFitsDetails
  BY DEF Init, InfoInv, TableInv, LockInv, SourceInv, TokenFitsDetails, Informed, Equipped, Locked
<1>3. QED
  BY <1>1, <1>2 DEF IInv

LEMMA TypesHold == IInv /\ [Next]_vars => TypeOK'
<1> SUFFICES ASSUME IInv, [Next]_vars PROVE TypeOK'
  OBVIOUS
<1> USE DEF IInv, TypeOK
<1>1. ASSUME NEW t \in Threads, Query(t) PROVE TypeOK'
  <2>1. PICK n \in Endpoints :
            IF details[n] = None
            THEN info' = [info EXCEPT ![t] = <<n, None>>] /\ Goto(t, "get")
            ELSE info' = [info EXCEPT ![t] = <<n, details[n]>>] /\ Goto(t, "lookup")
    BY <1>1 DEF Query
  <2>2. <<n, None>> \in Keys /\ <<n, details[n]>> \in Keys
    BY KeyFacts, PairFacts
  <2>3. info' \in [Threads -> Keys]
    BY <2>1, <2>2
  <2>4. queries' \in [Threads -> Nat]
    BY <1>1 DEF Query
  <2>5. pc' = [pc EXCEPT ![t] = "get"] \/ pc' = [pc EXCEPT ![t] = "lookup"]
    BY <2>1 DEF Goto
  <2>6. QED
    BY <1>1, <2>3, <2>4, <2>5 DEF Query, cache
<1>2. ASSUME NEW t \in Threads, GetAnswered(t) PROVE TypeOK'
  <2>1. <<info[t][1], served[info[t][1]]>> \in Keys
    BY KeyFacts, PairFacts
  <2>2. info' \in [Threads -> Keys]
    BY <1>2, <2>1 DEF GetAnswered
  <2>3. QED
    BY <1>2, <2>2 DEF GetAnswered, Goto, cache
<1>3. ASSUME NEW t \in Threads, StoreDetails(t) PROVE TypeOK'
  <2>1. info[t] \in Infos
    BY <1>3 DEF StoreDetails, InfoInv, Informed
  <2>2. info[t][2] \in 0..MaxVersion
    BY <2>1 DEF Infos
  <2>3. QED
    BY <1>3, <2>2 DEF StoreDetails, Goto, cache
<1>4. ASSUME NEW t \in Threads, Lookup(t) PROVE TypeOK'
  BY <1>4 DEF Lookup, Goto, cache, Key
<1>5. ASSUME NEW t \in Threads, Lock(t) PROVE TypeOK'
  BY <1>5 DEF Lock, Goto, cache
<1>6. ASSUME NEW t \in Threads, CheckAgain(t) PROVE TypeOK'
  BY <1>6 DEF CheckAgain, Goto, cache, Key
<1>7. ASSUME NEW t \in Threads, Create(t) PROVE TypeOK'
  <2>1. info[t] \in Infos
    BY <1>7 DEF Create, InfoInv, Informed
  <2>2. sources' \in Seq([for : Infos, valid : BOOLEAN]) /\ Len(sources') \in Nat
    BY <1>7, <2>1 DEF Create
  <2>3. QED
    BY <1>7, <2>2 DEF Create, Goto, cache
<1>8. ASSUME NEW t \in Threads, Acquire(t) PROVE TypeOK'
  <2>1. sources[source[t]].for \in Keys
    BY <1>8, KeyFacts DEF Acquire, SourceInv, Equipped
  <2>2. QED
    BY <1>8, <2>1 DEF Acquire, Take, Goto, cache
<1>9. ASSUME NEW t \in Threads, ControlPlaneToken(t) PROVE TypeOK'
  BY <1>9 DEF ControlPlaneToken, Goto, cache
<1>10. ASSUME NEW t \in Threads, Retrieved(t) PROVE TypeOK'
  <2>1. source[t] \in DOMAIN sources
    BY <1>10 DEF Retrieved, SourceInv, Equipped
  <2>2. sources[source[t]].for \in Keys
    BY <2>1, KeyFacts, Renewed
  <2>3. sources' \in Seq([for : Infos, valid : BOOLEAN])
    BY <1>10, <2>1, Renewed DEF Retrieved
  <2>4. QED
    BY <1>10, <2>2, <2>3 DEF Retrieved, Take, Goto, cache
<1>11. ASSUME NEW t \in Threads, Send(t) PROVE TypeOK'
  BY <1>11, KeyFacts DEF Send, Leave, Goto, cache
<1>12. ASSUME NEW t \in Threads, Raise(t) PROVE TypeOK'
  BY <1>12, KeyFacts DEF Raise, Leave, Goto, cache
<1>13. ASSUME NEW n \in Endpoints, Deploy(n) PROVE TypeOK'
  BY <1>13 DEF Deploy, cache
<1>14. ASSUME NEW s \in DOMAIN sources, Ages(s) PROVE TypeOK'
  <2>1. sources' \in Seq([for : Infos, valid : BOOLEAN])
    BY <1>14, Renewed DEF Ages
  <2>2. QED
    BY <1>14, <2>1 DEF Ages, cache
<1>15. CASE UNCHANGED vars
  BY <1>15 DEF vars, cache
<1>16. QED
  BY <1>1, <1>2, <1>3, <1>4, <1>5, <1>6, <1>7, <1>8, <1>9, <1>10, <1>11, <1>12, <1>13, <1>14, <1>15 DEF Next, Step

LEMMA LockHolds == IInv /\ [Next]_vars => LockInv'
<1> SUFFICES ASSUME IInv, [Next]_vars PROVE LockInv'
  OBVIOUS
<1> USE DEF IInv, TypeOK, LockInv, Locked, TableIsFree
<1>1. ASSUME NEW t \in Threads, Query(t) PROVE LockInv'
  BY <1>1 DEF Query, Goto, cache
<1>2. ASSUME NEW t \in Threads, GetAnswered(t) PROVE LockInv'
  BY <1>2 DEF GetAnswered, Goto, cache
<1>3. ASSUME NEW t \in Threads, StoreDetails(t) PROVE LockInv'
  BY <1>3 DEF StoreDetails, Goto, cache
<1>4. ASSUME NEW t \in Threads, Lookup(t) PROVE LockInv'
  BY <1>4 DEF Lookup, Goto, cache
<1>5. ASSUME NEW t \in Threads, Lock(t) PROVE LockInv'
  BY <1>5 DEF Lock, Goto, cache
<1>6. ASSUME NEW t \in Threads, CheckAgain(t) PROVE LockInv'
  BY <1>6 DEF CheckAgain, Goto, cache
<1>7. ASSUME NEW t \in Threads, Create(t) PROVE LockInv'
  BY <1>7 DEF Create, Goto, cache
<1>8. ASSUME NEW t \in Threads, Acquire(t) PROVE LockInv'
  BY <1>8 DEF Acquire, Goto, cache
<1>9. ASSUME NEW t \in Threads, ControlPlaneToken(t) PROVE LockInv'
  BY <1>9 DEF ControlPlaneToken, Goto, cache
<1>10. ASSUME NEW t \in Threads, Retrieved(t) PROVE LockInv'
  BY <1>10 DEF Retrieved, Goto, cache
<1>11. ASSUME NEW t \in Threads, Send(t) PROVE LockInv'
  BY <1>11 DEF Send, Leave, Goto, cache
<1>12. ASSUME NEW t \in Threads, Raise(t) PROVE LockInv'
  BY <1>12 DEF Raise, Leave, Goto, cache
<1>13. ASSUME NEW n \in Endpoints, Deploy(n) PROVE LockInv'
  BY <1>13 DEF Deploy, cache
<1>14. ASSUME NEW s \in DOMAIN sources, Ages(s) PROVE LockInv'
  BY <1>14 DEF Ages, cache
<1>15. CASE UNCHANGED vars
  BY <1>15 DEF vars, cache
<1>16. QED
  BY <1>1, <1>2, <1>3, <1>4, <1>5, <1>6, <1>7, <1>8, <1>9, <1>10, <1>11, <1>12, <1>13, <1>14, <1>15 DEF Next, Step

LEMMA InfoHolds == IInv /\ [Next]_vars => InfoInv'
<1> SUFFICES ASSUME IInv, [Next]_vars PROVE InfoInv'
  OBVIOUS
<1> USE DEF IInv, TypeOK, InfoInv, Informed, LockInv, Locked, Key
<1>1. ASSUME NEW t \in Threads, Query(t) PROVE InfoInv'
  <2>1. PICK n \in Endpoints :
            IF details[n] = None
            THEN info' = [info EXCEPT ![t] = <<n, None>>] /\ Goto(t, "get")
            ELSE info' = [info EXCEPT ![t] = <<n, details[n]>>] /\ Goto(t, "lookup")
    BY <1>1 DEF Query
  <2>2. details[n] # None => <<n, details[n]>> \in Infos
    BY PairFacts
  <2>3. QED
    BY <1>1, <2>1, <2>2 DEF Query, Goto, cache
<1>2. ASSUME NEW t \in Threads, GetAnswered(t) PROVE InfoInv'
  <2>1. <<info[t][1], served[info[t][1]]>> \in Infos
    BY PairFacts
  <2>2. QED
    BY <1>2, <2>1 DEF GetAnswered, Goto, cache
<1>3. ASSUME NEW t \in Threads, StoreDetails(t) PROVE InfoInv'
  BY <1>3 DEF StoreDetails, Goto, cache
<1>4. ASSUME NEW t \in Threads, Lookup(t) PROVE InfoInv'
  BY <1>4 DEF Lookup, Goto, cache
<1>5. ASSUME NEW t \in Threads, Lock(t) PROVE InfoInv'
  BY <1>5 DEF Lock, Goto, cache
<1>6. ASSUME NEW t \in Threads, CheckAgain(t) PROVE InfoInv'
  BY <1>6 DEF CheckAgain, Goto, cache
<1>7. ASSUME NEW t \in Threads, Create(t) PROVE InfoInv'
  BY <1>7 DEF Create, Goto, cache
<1>8. ASSUME NEW t \in Threads, Acquire(t) PROVE InfoInv'
  BY <1>8 DEF Acquire, Goto, cache
<1>9. ASSUME NEW t \in Threads, ControlPlaneToken(t) PROVE InfoInv'
  BY <1>9 DEF ControlPlaneToken, Goto, cache
<1>10. ASSUME NEW t \in Threads, Retrieved(t) PROVE InfoInv'
  BY <1>10 DEF Retrieved, Goto, cache
<1>11. ASSUME NEW t \in Threads, Send(t) PROVE InfoInv'
  BY <1>11 DEF Send, Leave, Goto, cache
<1>12. ASSUME NEW t \in Threads, Raise(t) PROVE InfoInv'
  BY <1>12 DEF Raise, Leave, Goto, cache
<1>13. ASSUME NEW n \in Endpoints, Deploy(n) PROVE InfoInv'
  BY <1>13 DEF Deploy, cache
<1>14. ASSUME NEW s \in DOMAIN sources, Ages(s) PROVE InfoInv'
  BY <1>14 DEF Ages, cache
<1>15. CASE UNCHANGED vars
  BY <1>15 DEF vars, cache
<1>16. QED
  BY <1>1, <1>2, <1>3, <1>4, <1>5, <1>6, <1>7, <1>8, <1>9, <1>10, <1>11, <1>12, <1>13, <1>14, <1>15 DEF Next, Step

LEMMA TableHolds == IInv /\ [Next]_vars => TableInv'
<1> SUFFICES ASSUME IInv, [Next]_vars PROVE TableInv'
  OBVIOUS
<1> USE DEF IInv, TypeOK, TableInv, InfoInv, Informed, Key, None
<1>1. ASSUME NEW t \in Threads, Query(t) PROVE TableInv'
  BY <1>1 DEF Query, Goto, cache
<1>2. ASSUME NEW t \in Threads, GetAnswered(t) PROVE TableInv'
  BY <1>2 DEF GetAnswered, Goto, cache
<1>3. ASSUME NEW t \in Threads, StoreDetails(t) PROVE TableInv'
  BY <1>3 DEF StoreDetails, Goto, cache
<1>4. ASSUME NEW t \in Threads, Lookup(t) PROVE TableInv'
  BY <1>4 DEF Lookup, Goto, cache
<1>5. ASSUME NEW t \in Threads, Lock(t) PROVE TableInv'
  BY <1>5 DEF Lock, Goto, cache
<1>6. ASSUME NEW t \in Threads, CheckAgain(t) PROVE TableInv'
  BY <1>6 DEF CheckAgain, Goto, cache
<1>7. ASSUME NEW t \in Threads, Create(t) PROVE TableInv'
  BY <1>7 DEF Create, Goto, cache
<1>8. ASSUME NEW t \in Threads, Acquire(t) PROVE TableInv'
  BY <1>8 DEF Acquire, Goto, cache
<1>9. ASSUME NEW t \in Threads, ControlPlaneToken(t) PROVE TableInv'
  BY <1>9 DEF ControlPlaneToken, Goto, cache
<1>10. ASSUME NEW t \in Threads, Retrieved(t) PROVE TableInv'
  BY <1>10 DEF Retrieved, Goto, cache
<1>11. ASSUME NEW t \in Threads, Send(t) PROVE TableInv'
  BY <1>11 DEF Send, Leave, Goto, cache
<1>12. ASSUME NEW t \in Threads, Raise(t) PROVE TableInv'
  BY <1>12 DEF Raise, Leave, Goto, cache
<1>13. ASSUME NEW n \in Endpoints, Deploy(n) PROVE TableInv'
  BY <1>13 DEF Deploy, cache
<1>14. ASSUME NEW s \in DOMAIN sources, Ages(s) PROVE TableInv'
  BY <1>14 DEF Ages, cache
<1>15. CASE UNCHANGED vars
  BY <1>15 DEF vars, cache
<1>16. QED
  BY <1>1, <1>2, <1>3, <1>4, <1>5, <1>6, <1>7, <1>8, <1>9, <1>10, <1>11, <1>12, <1>13, <1>14, <1>15 DEF Next, Step

LEMMA SourcesHold == IInv /\ [Next]_vars => SourceInv'
<1> SUFFICES ASSUME IInv, [Next]_vars PROVE SourceInv'
  OBVIOUS
<1> USE DEF IInv, TypeOK, SourceInv, Equipped, InfoInv, Informed, TableInv, Key, None
<1>1. ASSUME NEW t \in Threads, Query(t) PROVE SourceInv'
  BY <1>1 DEF Query, Goto, cache
<1>2. ASSUME NEW t \in Threads, GetAnswered(t) PROVE SourceInv'
  BY <1>2 DEF GetAnswered, Goto, cache
<1>3. ASSUME NEW t \in Threads, StoreDetails(t) PROVE SourceInv'
  BY <1>3 DEF StoreDetails, Goto, cache
<1>4. ASSUME NEW t \in Threads, Lookup(t) PROVE SourceInv'
  BY <1>4 DEF Lookup, Goto, cache
<1>5. ASSUME NEW t \in Threads, Lock(t) PROVE SourceInv'
  BY <1>5 DEF Lock, Goto, cache
<1>6. ASSUME NEW t \in Threads, CheckAgain(t) PROVE SourceInv'
  BY <1>6 DEF CheckAgain, Goto, cache
<1>7. ASSUME NEW t \in Threads, Create(t) PROVE SourceInv'
  BY <1>7 DEF Create, Goto, cache
<1>8. ASSUME NEW t \in Threads, Acquire(t) PROVE SourceInv'
  BY <1>8 DEF Acquire, Goto, cache
<1>9. ASSUME NEW t \in Threads, ControlPlaneToken(t) PROVE SourceInv'
  BY <1>9 DEF ControlPlaneToken, Goto, cache
<1>10. ASSUME NEW t \in Threads, Retrieved(t) PROVE SourceInv'
  BY <1>10 DEF Retrieved, Goto, cache
<1>11. ASSUME NEW t \in Threads, Send(t) PROVE SourceInv'
  BY <1>11 DEF Send, Leave, Goto, cache
<1>12. ASSUME NEW t \in Threads, Raise(t) PROVE SourceInv'
  BY <1>12 DEF Raise, Leave, Goto, cache
<1>13. ASSUME NEW n \in Endpoints, Deploy(n) PROVE SourceInv'
  BY <1>13 DEF Deploy, cache
<1>14. ASSUME NEW s \in DOMAIN sources, Ages(s) PROVE SourceInv'
  BY <1>14 DEF Ages, cache
<1>15. CASE UNCHANGED vars
  BY <1>15 DEF vars, cache
<1>16. QED
  BY <1>1, <1>2, <1>3, <1>4, <1>5, <1>6, <1>7, <1>8, <1>9, <1>10, <1>11, <1>12, <1>13, <1>14, <1>15 DEF Next, Step

LEMMA TokensFit == IInv /\ [Next]_vars => TokenFitsDetails'
<1> SUFFICES ASSUME IInv, [Next]_vars PROVE TokenFitsDetails'
  OBVIOUS
<1> USE DEF IInv, TypeOK, SourceInv, Equipped, TokenFitsDetails, Take
<1>1. ASSUME NEW t \in Threads, Query(t) PROVE TokenFitsDetails'
  BY <1>1 DEF Query, Goto, cache
<1>2. ASSUME NEW t \in Threads, GetAnswered(t) PROVE TokenFitsDetails'
  BY <1>2 DEF GetAnswered, Goto, cache
<1>3. ASSUME NEW t \in Threads, StoreDetails(t) PROVE TokenFitsDetails'
  BY <1>3 DEF StoreDetails, Goto, cache
<1>4. ASSUME NEW t \in Threads, Lookup(t) PROVE TokenFitsDetails'
  BY <1>4 DEF Lookup, Goto, cache
<1>5. ASSUME NEW t \in Threads, Lock(t) PROVE TokenFitsDetails'
  BY <1>5 DEF Lock, Goto, cache
<1>6. ASSUME NEW t \in Threads, CheckAgain(t) PROVE TokenFitsDetails'
  BY <1>6 DEF CheckAgain, Goto, cache
<1>7. ASSUME NEW t \in Threads, Create(t) PROVE TokenFitsDetails'
  BY <1>7 DEF Create, Goto, cache
<1>8. ASSUME NEW t \in Threads, Acquire(t) PROVE TokenFitsDetails'
  BY <1>8 DEF Acquire, Goto, cache
<1>9. ASSUME NEW t \in Threads, ControlPlaneToken(t) PROVE TokenFitsDetails'
  BY <1>9 DEF ControlPlaneToken, Goto, cache
<1>10. ASSUME NEW t \in Threads, Retrieved(t) PROVE TokenFitsDetails'
  BY <1>10 DEF Retrieved, Goto, cache
<1>11. ASSUME NEW t \in Threads, Send(t) PROVE TokenFitsDetails'
  BY <1>11 DEF Send, Leave, Goto, cache
<1>12. ASSUME NEW t \in Threads, Raise(t) PROVE TokenFitsDetails'
  BY <1>12 DEF Raise, Leave, Goto, cache
<1>13. ASSUME NEW n \in Endpoints, Deploy(n) PROVE TokenFitsDetails'
  BY <1>13 DEF Deploy, cache
<1>14. ASSUME NEW s \in DOMAIN sources, Ages(s) PROVE TokenFitsDetails'
  BY <1>14 DEF Ages, cache
<1>15. CASE UNCHANGED vars
  BY <1>15 DEF vars, cache
<1>16. QED
  BY <1>1, <1>2, <1>3, <1>4, <1>5, <1>6, <1>7, <1>8, <1>9, <1>10, <1>11, <1>12, <1>13, <1>14, <1>15 DEF Next, Step

LEMMA InvariantHolds == Spec => []IInv
<1>1. IInv /\ [Next]_vars => IInv'
  BY TypesHold, LockHolds, InfoHolds, TableHolds, SourcesHold, TokensFit DEF IInv
<1>2. QED
  BY <1>1, InitHolds, PTL DEF Spec

\* Types; what is looked up, created and waited for is in the table.
THEOREM TypeCorrect == Spec => []TypeOK
<1>1. IInv => TypeOK
  BY DEF IInv
<1>2. QED
  BY <1>1, InvariantHolds, PTL

\* For any number of threads, endpoints and versions there is one token source for an
\* endpoint and its details: the table names every source at its key.
THEOREM OneSource == Spec => []OneSourcePerKey
<1>1. IInv => OneSourcePerKey
  BY DEF IInv, TableInv, OneSourcePerKey
<1>2. QED
  BY <1>1, InvariantHolds, PTL

\* For the same instances, the token of a query is for the details that came with its URL.
THEOREM TokensMatchDetails == Spec => []TokenFitsDetails
<1>1. IInv => TokenFitsDetails
  BY DEF IInv
<1>2. QED
  BY <1>1, InvariantHolds, PTL
=============================================================================
