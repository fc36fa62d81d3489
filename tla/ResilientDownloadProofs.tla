------------------------- MODULE ResilientDownloadProofs -------------------------
(***************************************************************************)
(* Proofs about ResilientDownload, for every length of the file, size of    *)
(* chunks and reads, and every limit on the recoveries.                     *)
(***************************************************************************)
EXTENDS ResilientDownload, SequenceTheorems, TLAPS

-----------------------------------------------------------------------------
(* Stretches of a version of the file                                      *)

LEMMA BytesType ==
    ASSUME NEW v \in Versions, NEW lo \in Nat, NEW hi \in Nat, lo =< hi
    PROVE  /\ Bytes(v, lo, hi) \in Seq(Byte)
           /\ Len(Bytes(v, lo, hi)) = hi - lo
           /\ \A i \in 1..(hi - lo) : Bytes(v, lo, hi)[i] = [ver |-> v, pos |-> lo + i - 1]
<1>1. \A i \in 1..(hi - lo) : [ver |-> v, pos |-> lo + i - 1] \in Byte
  BY DEF Byte
<1>2. hi - lo \in Nat
  OBVIOUS
<1> QED BY <1>1, <1>2 DEF Bytes

\* No byte at all is a stretch of any version, and the other way round.
LEMMA EmptyBytes ==
    ASSUME NEW v, NEW lo \in Nat
    PROVE  Bytes(v, lo, lo) = <<>>
BY DEF Bytes

\* Stretches that meet make one stretch.
LEMMA BytesConcat ==
    ASSUME NEW v \in Versions, NEW lo \in Nat, NEW mid \in Nat, NEW hi \in Nat,
           lo =< mid, mid =< hi
    PROVE  Bytes(v, lo, mid) \o Bytes(v, mid, hi) = Bytes(v, lo, hi)
<1> DEFINE a == Bytes(v, lo, mid)
           b == Bytes(v, mid, hi)
           c == Bytes(v, lo, hi)
<1>1. a \in Seq(Byte) /\ Len(a) = mid - lo
      /\ \A i \in 1..(mid - lo) : a[i] = [ver |-> v, pos |-> lo + i - 1]
  BY BytesType
<1>2. b \in Seq(Byte) /\ Len(b) = hi - mid
      /\ \A i \in 1..(hi - mid) : b[i] = [ver |-> v, pos |-> mid + i - 1]
  BY BytesType
<1>3. c \in Seq(Byte) /\ Len(c) = hi - lo
      /\ \A i \in 1..(hi - lo) : c[i] = [ver |-> v, pos |-> lo + i - 1]
  BY BytesType
<1> HIDE DEF a, b, c
<1>4. /\ a \o b \in Seq(Byte) /\ Len(a \o b) = Len(a) + Len(b)
      /\ \A i \in 1..(Len(a) + Len(b)) :
            (a \o b)[i] = IF i =< Len(a) THEN a[i] ELSE b[i - Len(a)]
  BY <1>1, <1>2, ConcatProperties
<1>5. ASSUME NEW i \in 1..Len(a \o b) PROVE (a \o b)[i] = c[i]
  <2>1. i \in 1..(hi - lo) /\ c[i] = [ver |-> v, pos |-> lo + i - 1]
    BY <1>1, <1>2, <1>3, <1>4
  <2>2. CASE i =< Len(a)
    BY <2>1, <2>2, <1>1, <1>4
  <2>3. CASE i > Len(a)
    <3>1. i - Len(a) \in 1..(hi - mid)
      BY <2>1, <2>3, <1>1
    <3>2. b[i - Len(a)] = [ver |-> v, pos |-> mid + (i - Len(a)) - 1]
      BY <3>1, <1>2
    <3>3. mid + (i - Len(a)) - 1 = lo + i - 1
      BY <1>1, <2>1
    <3>4. (a \o b)[i] = b[i - Len(a)]
      BY <2>3, <1>1, <1>2, <1>4
    <3> QED BY <2>1, <3>2, <3>3, <3>4
  <2> QED BY <2>1, <2>2, <2>3, <1>1
<1>6. a \o b = c
  <2>1. Len(a \o b) = Len(c)
    BY <1>1, <1>2, <1>3, <1>4
  <2> QED BY <1>3, <1>4, <1>5, <2>1, SeqEqual
<1> QED BY <1>6 DEF a, b, c

\* The beginning of a version, made n bytes longer.
LEMMA BytesAppend ==
    ASSUME NEW v \in Versions, NEW l \in Nat, NEW n \in Nat
    PROVE  Bytes(v, 0, l) \o Bytes(v, l, l + n) = Bytes(v, 0, l + n)
<1> DEFINE m == l + n
<1>1. m \in Nat /\ l =< m /\ 0 \in Nat /\ 0 =< l
  OBVIOUS
<1> HIDE DEF m
<1>2. Bytes(v, 0, l) \o Bytes(v, l, m) = Bytes(v, 0, m)
  BY <1>1, BytesConcat
<1> QED BY <1>2 DEF m

\* A stretch of n bytes cut in two, after k bytes.
LEMMA BytesCut ==
    ASSUME NEW v \in Versions, NEW lo \in Nat, NEW mid \in Nat, NEW hi \in Nat,
           NEW k \in Nat, NEW n \in Nat, mid = lo + k, mid =< hi, n = hi - lo
    PROVE  /\ SubSeq(Bytes(v, lo, hi), 1, k) = Bytes(v, lo, mid)
           /\ SubSeq(Bytes(v, lo, hi), k + 1, n) = Bytes(v, mid, hi)
<1> DEFINE s == Bytes(v, lo, hi)
           a == Bytes(v, lo, mid)
           b == Bytes(v, mid, hi)
<1>1. /\ lo =< mid /\ lo =< hi /\ mid - lo = k /\ hi - lo = n
      /\ k =< n /\ hi - mid = n - k /\ n - k \in Nat
  OBVIOUS
<1>2. s \in Seq(Byte) /\ Len(s) = n
      /\ \A i \in 1..n : s[i] = [ver |-> v, pos |-> lo + i - 1]
  BY <1>1, BytesType
<1>3. a \in Seq(Byte) /\ Len(a) = k
      /\ \A i \in 1..k : a[i] = [ver |-> v, pos |-> lo + i - 1]
  BY <1>1, BytesType
<1>4. b \in Seq(Byte) /\ Len(b) = n - k
      /\ \A i \in 1..(n - k) : b[i] = [ver |-> v, pos |-> mid + i - 1]
  <2>1. /\ b \in Seq(Byte) /\ Len(b) = hi - mid
        /\ \A i \in 1..(hi - mid) : b[i] = [ver |-> v, pos |-> mid + i - 1]
    BY BytesType
  <2> QED BY <1>1, <2>1
<1> HIDE DEF s, a, b
<1>5. SubSeq(s, 1, k) = a
  <2>1. \A i \in 1..k : i \in 1..n
    BY <1>1
  <2>2. \A i \in 1..k : s[i] \in Byte
    BY <2>1, <1>2, ElementOfSeq
  <2>3. /\ SubSeq(s, 1, k) \in Seq(Byte) /\ Len(SubSeq(s, 1, k)) = k
        /\ \A i \in 1..k : SubSeq(s, 1, k)[i] = s[i]
    BY <2>2, SubSeqProperties
  <2>4. \A i \in 1..k : SubSeq(s, 1, k)[i] = a[i]
    BY <2>1, <2>3, <1>2, <1>3
  <2> QED BY <2>3, <2>4, <1>3, SeqEqual
<1>6. SubSeq(s, k + 1, n) = b
  <2> DEFINE t == SubSeq(s, k + 1, n)
  <2>1. \A i \in (k + 1)..n : s[i] \in Byte
    <3>1. \A i \in (k + 1)..n : i \in 1..n
      OBVIOUS
    <3> QED BY <3>1, <1>2, ElementOfSeq
  <2>2. /\ t \in Seq(Byte) /\ Len(t) = IF k + 1 =< n THEN n - (k + 1) + 1 ELSE 0
        /\ \A i \in 1..(n - (k + 1) + 1) : t[i] = s[(k + 1) + i - 1]
    BY <2>1, SubSeqProperties
  <2> HIDE DEF t
  <2>3. Len(t) = n - k
    BY <1>1, <2>2
  <2>4. ASSUME NEW i \in 1..(n - k) PROVE t[i] = b[i]
    <3>1. i \in 1..(n - (k + 1) + 1) /\ (k + 1) + i - 1 \in 1..n
      BY <1>1
    <3>2. t[i] = s[(k + 1) + i - 1]
      BY <3>1, <2>2
    <3>3. s[(k + 1) + i - 1] = [ver |-> v, pos |-> lo + ((k + 1) + i - 1) - 1]
      BY <3>1, <1>2
    <3>4. lo + ((k + 1) + i - 1) - 1 = mid + i - 1
      OBVIOUS
    <3> QED BY <3>2, <3>3, <3>4, <1>4
  <2>5. t = b
    BY <2>2, <2>3, <2>4, <1>4, SeqEqual
  <2> QED BY <2>5 DEF t
<1> QED BY <1>5, <1>6 DEF s, a, b

-----------------------------------------------------------------------------
(* Types                                                                   *)

\* The types of the variables that are neither flags nor counters.
LEMMA TypeInit == Init => TypeOK
<1> SUFFICES ASSUME Init PROVE TypeOK
  OBVIOUS
<1> USE ConstantsAssumption
<1>1. 1 \in Versions
  BY DEF Versions
<1>2. conn \in [ver : Versions, pos : Nat, alive : BOOLEAN]
  BY <1>1 DEF Init
<1>3. buffer \in Seq(Byte) /\ res \in Seq(Byte) /\ caller \in Seq(Byte)
  BY EmptySeq DEF Init
<1>4. lastModified \in Nat \cup {NoDate}
  BY <1>1 DEF Init
<1>5. /\ MaxRecovers # NoLimit => total =< MaxRecovers
      /\ MaxStuck # NoLimit => stuck =< MaxStuck
  BY DEF Init
<1>6. /\ phase \in {"idle", "read", "recover"}
      /\ kind \in {"all", "upto", "chunk"} /\ left \in Nat
      /\ opened \in BOOLEAN /\ closed \in BOOLEAN
      /\ offset \in Nat /\ total \in Nat /\ stuck \in Nat
      /\ failed \in BOOLEAN /\ ended \in BOOLEAN
  BY DEF Init
<1>7. version \in Versions
  BY <1>1 DEF Init
<1> QED BY <1>2, <1>3, <1>4, <1>5, <1>6, <1>7 DEF TypeOK

LEMMA TypeNext == TypeOK /\ [Next]_vars => TypeOK'
<1> SUFFICES ASSUME TypeOK, [Next]_vars PROVE TypeOK'
  OBVIOUS
<1> USE ConstantsAssumption DEF TypeOK
<1>1. CASE Overwrite
  <2>1. version' \in Versions
    BY <1>1 DEF Overwrite, Versions
  <2> QED BY <1>1, <2>1 DEF Overwrite, data, read, recovers
<1>2. ASSUME NEW n \in ReadSizes, Read(n) PROVE TypeOK'
  <2>1. n \in Int
    OBVIOUS
  <2> QED BY <1>2, <2>1 DEF Read, data, remote, recovers
<1>3. CASE Iterate
  BY <1>3 DEF Iterate, data, remote, recovers
<1>4. CASE Close
  BY <1>4, EmptySeq DEF Close, remote, read, recovers
<1>5. CASE Take
  <2>1. Taken \in 0..Len(buffer) /\ (kind # "all" => Taken =< left)
    BY <1>5, LenProperties DEF Take, Taken
  <2>2. SubSeq(buffer, 1, Taken) \in Seq(Byte)
    <3>1. \A i \in 1..Taken : buffer[i] \in Byte
      BY <2>1, ElementOfSeq
    <3> QED BY <2>1, <3>1, SubSeqProperties
  <2>3. SubSeq(buffer, Taken + 1, Len(buffer)) \in Seq(Byte)
    <3>1. \A i \in (Taken + 1)..Len(buffer) : buffer[i] \in Byte
      BY <2>1, ElementOfSeq
    <3> QED BY <2>1, <3>1, SubSeqProperties
  <2>4. res \o SubSeq(buffer, 1, Taken) \in Seq(Byte)
    BY <2>2, ConcatProperties
  <2>5. left' \in Nat
    BY <1>5, <2>1 DEF Take
  <2> QED BY <1>5, <2>3, <2>4, <2>5 DEF Take, remote, recovers
<1>6. CASE Complete
  <2>1. caller' \in Seq(Byte) /\ res' \in Seq(Byte)
    BY <1>6, ConcatProperties, EmptySeq DEF Complete, Return
  <2> QED BY <1>6, <2>1 DEF Complete, Return, remote, recovers
<1>7. ASSUME NEW k \in 1..ChunkSize, Chunk(k) PROVE TypeOK'
  <2>1. k \in Nat /\ conn.pos + k \in Nat /\ conn.ver \in Versions /\ conn.pos \in Nat
    OBVIOUS
  <2> DEFINE bytes == Bytes(conn.ver, conn.pos, conn.pos + k)
  <2>2. bytes \in Seq(Byte)
    <3>1. conn.pos =< conn.pos + k
      BY <2>1
    <3> QED BY <2>1, <3>1, BytesType
  <2>3. caller \o bytes \in Seq(Byte)
    BY <2>2, ConcatProperties
  <2> HIDE DEF bytes
  <2>4. /\ buffer' \in {bytes, buffer} /\ caller' \in {caller, caller \o bytes}
        /\ phase' \in {"idle", phase}
    BY <1>7 DEF Chunk, bytes
  <2>5. conn' \in [ver : Versions, pos : Nat, alive : BOOLEAN]
    BY <1>7, <2>1 DEF Chunk
  <2>6. offset' \in Nat /\ stuck' = 0 /\ (MaxStuck # NoLimit => stuck' =< MaxStuck)
    <3>1. offset' = offset + k /\ stuck' = 0
      BY <1>7 DEF Chunk
    <3>2. MaxStuck # NoLimit => MaxStuck \in Nat
      BY ConstantsAssumption
    <3> QED BY ONLY <2>1, <3>1, <3>2, offset \in Nat
  <2>7. buffer' \in Seq(Byte) /\ caller' \in Seq(Byte) /\ phase' \in {"idle", "read", "recover"}
    BY <2>2, <2>3, <2>4
  <2>8. UNCHANGED <<version, lastModified, kind, left, opened, closed, res, total,
                    failed, ended>>
    BY <1>7 DEF Chunk, remote
  <2> QED BY <2>5, <2>6, <2>7, <2>8
<1>8. CASE End
  <2>1. caller' \in Seq(Byte) /\ res' \in Seq(Byte)
    BY <1>8, ConcatProperties, EmptySeq DEF End, Return
  <2> QED BY <1>8, <2>1 DEF End, Return, remote, recovers
<1>9. CASE Breaks
  <2>1. conn' \in [ver : Versions, pos : Nat, alive : BOOLEAN]
    BY <1>9 DEF Breaks
  <2>2. CASE ShouldRecover
    <3>1. total' = total + 1 /\ stuck' = stuck + 1
      BY <1>9, <2>2 DEF Breaks
    <3>2. MaxRecovers # NoLimit => total' =< MaxRecovers
      BY <2>2, <3>1 DEF ShouldRecover
    <3>3. MaxStuck # NoLimit => stuck' =< MaxStuck
      BY <2>2, <3>1 DEF ShouldRecover
    <3>4. total' \in Nat /\ stuck' \in Nat
      BY <3>1
    <3>5. /\ phase' = "recover"
          /\ UNCHANGED <<remote, kind, left, opened, closed, data, failed, ended, offset>>
      BY <1>9, <2>2 DEF Breaks, data
    <3> QED BY <2>1, <3>2, <3>3, <3>4, <3>5 DEF remote, data
  <2>3. CASE ~ShouldRecover
    BY <1>9, <2>1, <2>3, EmptySeq DEF Breaks, Raise, remote, recovers
  <2> QED BY <2>2, <2>3
<1>10. CASE Recover
  BY <1>10 DEF Recover, remote, data, recovers
<1>11. CASE RecoverFails
  BY <1>11, EmptySeq DEF RecoverFails, Raise, remote, recovers
<1>12. CASE UNCHANGED vars
  BY <1>12 DEF vars, remote, read, data, recovers
<1> QED BY <1>1, <1>2, <1>3, <1>4, <1>5, <1>6, <1>7, <1>8, <1>9, <1>10, <1>11, <1>12
        DEF Next, Step

\* The variables have their types and the limits on recoveries are never exceeded.
THEOREM TypeCorrect == Spec => []TypeOK
BY TypeInit, TypeNext, PTL DEF Spec

-----------------------------------------------------------------------------
(* The stream                                                              *)

\* Two versions are never stored in the same second.
DistinctDates == \A v, w \in Versions : v < w => ModifiedAt[v] < ModifiedAt[w]

LEMMA InvInit == Init => DownloadInv
<1> SUFFICES ASSUME Init PROVE DownloadInv
  OBVIOUS
<1> USE ConstantsAssumption
<1>1. 1 \in Versions
  BY DEF Versions
<1>2. Len(caller) = 0 /\ Len(res) = 0 /\ Len(buffer) = 0
  BY EmptySeq DEF Init
<1>3. Bytes(1, 0, 0) = <<>>
  BY EmptyBytes
<1>4. RemoteInv
  BY <1>1 DEF Init, RemoteInv, Versions
<1>5. ControlInv
  BY DEF Init, ControlInv
<1>6. DataInv
  BY <1>1, <1>2, <1>3 DEF Init, DataInv
<1> QED BY <1>4, <1>5, <1>6 DEF DownloadInv

\* With a date the recovered response is of the same version; without one nothing
\* has been received yet.
LEMMA RemoteNext ==
    ASSUME DistinctDates, TypeOK, DownloadInv, [Next]_vars
    PROVE  /\ RemoteInv'
           /\ conn'.ver # conn.ver => offset = 0 /\ Recover
<1> USE ConstantsAssumption DEF TypeOK, DownloadInv, RemoteInv
<1>1. CASE Recover
  <2>1. lastModified # NoDate => version = conn.ver
    <3> SUFFICES ASSUME lastModified # NoDate, conn.ver < version PROVE FALSE
      BY DEF Versions
    <3>1. ModifiedAt[conn.ver] < ModifiedAt[version]
      BY DEF DistinctDates
    <3>2. ModifiedAt[version] =< ModifiedAt[conn.ver]
      BY <1>1 DEF Recover, Answers
    <3>3. ModifiedAt[conn.ver] \in Nat /\ ModifiedAt[version] \in Nat
      OBVIOUS
    <3> QED BY <3>1, <3>2, <3>3
  <2>2. conn'.ver = version /\ version' = version /\ lastModified' = lastModified
    BY <1>1 DEF Recover, remote
  <2>3. offset = 0 \/ lastModified # NoDate
    BY <1>1 DEF Recover, Answers
  <2> QED BY <1>1, <2>1, <2>2, <2>3 DEF Versions
<1>2. CASE Overwrite
  BY <1>2 DEF Overwrite, Versions
<1>3. CASE ~Recover /\ ~Overwrite
  <2>1. conn'.ver = conn.ver /\ UNCHANGED remote
    <3>1. ASSUME NEW n \in ReadSizes, Read(n) PROVE conn'.ver = conn.ver /\ UNCHANGED remote
      BY <3>1 DEF Read
    <3>2. ASSUME NEW k \in 1..ChunkSize, Chunk(k)
          PROVE  conn'.ver = conn.ver /\ UNCHANGED remote
      BY <3>2 DEF Chunk
    <3> QED BY <1>3, <3>1, <3>2 DEF Next, Step, Iterate, Close, Take, Complete, End,
            Breaks, RecoverFails, vars
  <2> QED BY <2>1 DEF remote
<1> QED BY <1>1, <1>2, <1>3

LEMMA ControlNext ==
    ASSUME TypeOK, DownloadInv, [Next]_vars
    PROVE  ControlInv'
<1> USE DEF TypeOK, DownloadInv, ControlInv
<1>1. CASE Overwrite
  BY <1>1 DEF Overwrite, data, read
<1>2. ASSUME NEW n \in ReadSizes, Read(n) PROVE ControlInv'
  BY <1>2 DEF Read, data
<1>3. CASE Iterate
  BY <1>3 DEF Iterate, data
<1>4. CASE Close
  BY <1>4 DEF Close, read
<1>5. CASE Take
  BY <1>5 DEF Take
<1>6. CASE Complete
  BY <1>6 DEF Complete, Return
<1>7. ASSUME NEW k \in 1..ChunkSize, Chunk(k) PROVE ControlInv'
  <2>1. conn'.alive = conn.alive
    BY <1>7 DEF Chunk
  <2> QED BY <1>7, <2>1 DEF Chunk, Waits
<1>8. CASE End
  BY <1>8 DEF End, Return, Waits
<1>9. CASE Breaks
  BY <1>9 DEF Breaks, Raise, Waits
<1>10. CASE Recover
  BY <1>10 DEF Recover, data
<1>11. CASE RecoverFails
  BY <1>11 DEF RecoverFails, Raise
<1>12. CASE UNCHANGED vars
  BY <1>12 DEF vars, read, data
<1> QED BY <1>1, <1>2, <1>3, <1>4, <1>5, <1>6, <1>7, <1>8, <1>9, <1>10, <1>11, <1>12
        DEF Next, Step

\* Returning what was collected makes the caller's bytes a longer stretch.
LEMMA ReturnStep ==
    ASSUME TypeOK, DownloadInv, phase # "idle", Return
    PROVE  /\ caller' = Bytes(conn.ver, 0, Len(caller'))
           /\ Len(caller') = Len(caller) + Len(res)
           /\ Len(res') = 0 /\ res' = <<>>
<1> USE DEF TypeOK, DownloadInv
<1>1. Len(caller) \in Nat /\ Len(res) \in Nat /\ conn.ver \in Versions
  BY LenProperties
<1>2. res' = <<>> /\ Len(res') = 0
  BY EmptySeq DEF Return
<1>3. Len(caller') = Len(caller) + Len(res)
  BY ConcatProperties DEF Return
<1>4. CASE failed
  <2>1. caller' = caller /\ Len(res) = 0
    BY <1>4, ConcatEmptySeq, EmptySeq DEF Return, ControlInv
  <2> QED BY <2>1, <1>1, <1>2, <1>3 DEF DataInv
<1>5. CASE ~failed
  <2>1. ~closed
    BY DEF ControlInv
  <2>2. res = Bytes(conn.ver, Len(caller), Len(caller) + Len(res))
    BY <1>5, <2>1 DEF DataInv
  <2>3. Bytes(conn.ver, 0, Len(caller)) \o Bytes(conn.ver, Len(caller), Len(caller) + Len(res))
        = Bytes(conn.ver, 0, Len(caller) + Len(res))
    BY ONLY <1>1, BytesAppend
  <2>4. caller' = Bytes(conn.ver, 0, Len(caller) + Len(res))
    BY <2>2, <2>3 DEF DataInv, Return
  <2> QED BY <1>2, <1>3, <2>4
<1> QED BY <1>4, <1>5

LEMMA DataNextTake ==
    ASSUME TypeOK, DownloadInv, Take
    PROVE  DataInv'
<1> USE DEF TypeOK, DownloadInv
<1> DEFINE L == Len(caller)
           R == Len(res)
           B == Len(buffer)
           v == conn.ver
<1>1. L \in Nat /\ R \in Nat /\ B \in Nat /\ v \in Versions
  BY LenProperties
<1>2. ~failed /\ ~closed
  BY DEF Take, ControlInv
<1>3. /\ res = Bytes(v, L, L + R) /\ buffer = Bytes(v, offset - B, offset)
      /\ offset = L + R + B
  BY <1>2 DEF DataInv
<1>4. Taken \in Nat /\ Taken =< B
  BY <1>1 DEF Take, Taken
<1>5. buffer = Bytes(v, L + R, offset) /\ L + R \in Nat /\ L + R + Taken =< offset
      /\ offset - (L + R) = B
  <2>1. offset - B = L + R
    BY <1>1, <1>3
  <2> QED BY <1>1, <1>3, <1>4, <2>1
<1> HIDE DEF L, R, B, v
<1> DEFINE m == L + R
           e == m + Taken
<1>6. /\ SubSeq(buffer, 1, Taken) = Bytes(v, m, e)
      /\ SubSeq(buffer, Taken + 1, B) = Bytes(v, e, offset)
      /\ res \o SubSeq(buffer, 1, Taken) = Bytes(v, L, e)
      /\ Len(Bytes(v, L, e)) = R + Taken
      /\ Len(Bytes(v, e, offset)) = B - Taken
  <2>1. m \in Nat /\ e \in Nat /\ L =< m /\ e =< offset /\ offset = m + B
        /\ e - L = R + Taken /\ offset - e = B - Taken /\ offset \in Nat
    BY ONLY <1>1, <1>3, <1>4, <1>5
  <2>2. res = Bytes(v, L, m) /\ buffer = Bytes(v, m, offset) /\ e = m + Taken
    BY ONLY <1>3, <1>5
  <2> HIDE DEF m, e
  <2>3. /\ SubSeq(Bytes(v, m, offset), 1, Taken) = Bytes(v, m, e)
        /\ SubSeq(Bytes(v, m, offset), Taken + 1, B) = Bytes(v, e, offset)
        /\ Bytes(v, L, m) \o Bytes(v, m, e) = Bytes(v, L, e)
        /\ Len(Bytes(v, L, e)) = e - L
        /\ Len(Bytes(v, e, offset)) = offset - e
    <3>1. /\ v \in Versions /\ L \in Nat /\ m \in Nat /\ e \in Nat /\ offset \in Nat
          /\ Taken \in Nat /\ B \in Nat
      BY ONLY <1>1, <1>4, <2>1
    <3>2. L =< m /\ e = m + Taken /\ e =< offset /\ offset = m + B
      BY ONLY <2>1, <2>2
    <3>3. B = offset - m /\ m =< e /\ L =< e
      BY ONLY <3>1, <3>2
    <3>4. /\ SubSeq(Bytes(v, m, offset), 1, Taken) = Bytes(v, m, e)
          /\ SubSeq(Bytes(v, m, offset), Taken + 1, B) = Bytes(v, e, offset)
      BY ONLY <3>1, <3>2, <3>3, BytesCut
    <3>5. Bytes(v, L, m) \o Bytes(v, m, e) = Bytes(v, L, e)
      BY ONLY <3>1, <3>2, <3>3, BytesConcat
    <3>6. Len(Bytes(v, L, e)) = e - L /\ Len(Bytes(v, e, offset)) = offset - e
      BY ONLY <3>1, <3>2, <3>3, BytesType
    <3> QED BY ONLY <3>4, <3>5, <3>6
  <2> QED BY ONLY <2>1, <2>2, <2>3
<1>9. res' = Bytes(v, L, L + R + Taken)
  BY <1>6 DEF Take
<1>10. buffer' = Bytes(v, L + R + Taken, offset)
  BY <1>6 DEF Take, B
<1>11. Len(res') = R + Taken
  BY <1>6, <1>9
<1>12. Len(buffer') = B - Taken
  BY <1>6, <1>10
<1>13. UNCHANGED <<conn, caller, offset, failed, closed, ended>>
  BY DEF Take
<1>14. res' = Bytes(v, L, L + Len(res'))
  <2>1. L + Len(res') = L + R + Taken
    BY <1>1, <1>4, <1>11
  <2> QED BY <1>9, <2>1
<1>15. buffer' = Bytes(v, offset - Len(buffer'), offset)
  <2>1. offset - Len(buffer') = L + R + Taken
    BY <1>1, <1>4, <1>5, <1>12
  <2> QED BY <1>10, <2>1
<1>16. offset = L + Len(res') + Len(buffer')
  BY <1>1, <1>3, <1>4, <1>11, <1>12
<1>17. L = Len(caller') /\ v = conn'.ver
  BY <1>13 DEF L, v
<1> QED BY <1>13, <1>14, <1>15, <1>16, <1>17 DEF DataInv, L, v

LEMMA DataNextChunk ==
    ASSUME TypeOK, DownloadInv, NEW k \in 1..ChunkSize, Chunk(k)
    PROVE  DataInv'
<1> USE ConstantsAssumption DEF TypeOK, DownloadInv
<1> DEFINE v == conn.ver
           bytes == Bytes(v, offset, offset + k)
<1>1. Len(caller) \in Nat /\ v \in Versions /\ k \in Nat /\ offset + k \in Nat
      /\ SizeOf[v] \in Nat /\ offset =< offset + k
  BY LenProperties
<1>2. ~failed /\ ~closed /\ ~ended /\ conn.pos = offset
  BY DEF Chunk, ControlInv, DataInv
<1>3. /\ conn'.ver = v /\ conn'.alive /\ conn'.pos = offset + k /\ offset' = offset + k
      /\ offset + k =< SizeOf[v]
      /\ UNCHANGED <<failed, closed, ended, res>>
  BY <1>2 DEF Chunk
<1>4. bytes \in Seq(Byte) /\ Len(bytes) = k
  <2>1. bytes \in Seq(Byte) /\ Len(bytes) = (offset + k) - offset
    BY ONLY <1>1, offset \in Nat, BytesType
  <2>2. (offset + k) - offset = k
    BY ONLY <1>1, offset \in Nat
  <2> QED BY ONLY <2>1, <2>2
<1>5. CASE kind = "chunk"
  <2>1. buffer = <<>> /\ res = <<>> /\ Len(buffer) = 0 /\ Len(res) = 0
    BY <1>5, EmptySeq DEF Chunk, Waits, ControlInv
  <2>2. offset = Len(caller)
    BY <1>1, <1>2, <2>1 DEF DataInv
  <2>3. caller' = caller \o bytes /\ buffer' = buffer
    BY <1>2, <1>5 DEF Chunk
  <2>4. caller' = Bytes(v, 0, offset + k)
    <3>1. Bytes(v, 0, offset) \o Bytes(v, offset, offset + k) = Bytes(v, 0, offset + k)
      <4>1. 0 \in Nat /\ 0 =< offset
        OBVIOUS
      <4> QED BY ONLY <4>1, <1>1, offset \in Nat, BytesConcat
    <3> QED BY <2>2, <2>3, <3>1 DEF DataInv
  <2>5. Len(caller') = offset + k
    <3>1. Len(caller \o bytes) = Len(caller) + Len(bytes)
      BY <1>4, ConcatProperties
    <3> QED BY ONLY <1>4, <2>2, <2>3, <3>1
  <2>6. Bytes(v, offset + k, offset + k) = <<>>
    BY <1>1, EmptyBytes
  <2> QED BY <1>1, <1>2, <1>3, <2>1, <2>3, <2>4, <2>5, <2>6 DEF DataInv
<1>6. CASE kind # "chunk"
  <2>1. buffer = <<>> /\ Len(buffer) = 0
    BY <1>6, EmptySeq DEF Chunk, Waits
  <2>2. offset = Len(caller) + Len(res) /\ Len(res) \in Nat
    BY <1>1, <1>2, <2>1, LenProperties DEF DataInv
  <2>3. buffer' = bytes /\ caller' = caller
    BY <1>2, <1>6 DEF Chunk
  <2>4. Len(buffer') = k /\ offset' - Len(buffer') = offset
    <3>1. Len(buffer') = k
      BY <1>4, <2>3
    <3> QED BY ONLY <1>1, <1>3, <3>1, offset \in Nat
  <2>5. buffer' = Bytes(v, offset' - Len(buffer'), offset')
    BY <1>3, <2>3, <2>4
  <2>6. offset' = Len(caller') + Len(res') + Len(buffer')
    BY <1>1, <1>3, <2>2, <2>3, <2>4
  <2>7. /\ caller' = Bytes(v, 0, Len(caller'))
        /\ res' = Bytes(v, Len(caller'), Len(caller') + Len(res'))
    BY <1>2, <1>3, <2>3 DEF DataInv
  <2> HIDE DEF v, bytes
  <2> QED BY <1>2, <1>3, <2>5, <2>6, <2>7 DEF DataInv
<1> QED BY <1>5, <1>6

LEMMA DataNextEnd ==
    ASSUME TypeOK, DownloadInv, End
    PROVE  DataInv'
<1> USE ConstantsAssumption DEF TypeOK, DownloadInv
<1>1. /\ conn'.ver = conn.ver /\ ~conn'.alive
      /\ UNCHANGED <<offset, buffer, failed, closed>>
  BY DEF End
<1>2. /\ caller' = Bytes(conn.ver, 0, Len(caller'))
      /\ Len(caller') = Len(caller) + Len(res)
      /\ Len(res') = 0 /\ res' = <<>>
  BY ReturnStep DEF End, Waits
<1>3. Len(caller) \in Nat /\ Len(res) \in Nat /\ SizeOf[conn.ver] \in Nat /\ ~closed
      /\ phase = "read"
  BY LenProperties DEF End, Waits, ControlInv
<1>4. ASSUME ~failed
      PROVE  /\ Len(caller') = SizeOf[conn.ver]
             /\ buffer = <<>> /\ Len(buffer) = 0 /\ offset = Len(caller')
  <2>1. buffer = <<>> /\ Len(buffer) = 0
    BY EmptySeq DEF End, Waits, ControlInv
  <2>2. offset = Len(caller) + Len(res)
    BY <1>3, <1>4, <2>1 DEF DataInv
  <2>3. offset = Len(caller')
    BY <1>2, <2>2
  <2>4. CASE conn.alive
    <3>1. offset = SizeOf[conn.ver]
      BY <2>4 DEF End, DataInv
    <3> QED BY <2>1, <2>3, <3>1
  <2>5. CASE ~conn.alive
    <3>1. ended
      BY <2>5, <1>3, <1>4 DEF ControlInv
    <3>2. Len(caller) = SizeOf[conn.ver]
      BY <1>4, <3>1 DEF DataInv
    <3>3. offset =< SizeOf[conn.ver]
      BY DEF DataInv
    <3>4. offset = SizeOf[conn.ver]
      BY ONLY <1>3, <2>2, <3>2, <3>3
    <3> QED BY <2>1, <2>3, <3>4
  <2> QED BY <2>4, <2>5
<1>5. ASSUME ~failed
      PROVE  /\ res' = Bytes(conn.ver, Len(caller'), Len(caller') + Len(res'))
             /\ buffer = Bytes(conn.ver, offset - Len(buffer), offset)
             /\ offset = Len(caller') + Len(res') + Len(buffer)
  <2>1. Len(caller') \in Nat
    BY <1>2, <1>3
  <2>2. Bytes(conn.ver, Len(caller'), Len(caller')) = <<>>
    BY ONLY <2>1, EmptyBytes
  <2>3. Len(caller') + Len(res') = Len(caller') /\ offset - Len(buffer) = Len(caller')
    BY <1>2, <1>4, <1>5, <2>1
  <2> QED BY <1>2, <1>4, <1>5, <2>1, <2>2, <2>3
<1> HIDE DEF TypeOK
<1>6. offset' =< SizeOf[conn'.ver]
  BY <1>1 DEF DataInv
<1> QED BY <1>1, <1>2, <1>4, <1>5, <1>6 DEF DataInv

LEMMA DataNext ==
    ASSUME DistinctDates, TypeOK, DownloadInv, [Next]_vars
    PROVE  DataInv'
<1> USE DEF TypeOK, DownloadInv
<1>1. CASE Overwrite
  BY <1>1 DEF Overwrite, data, DataInv
<1>2. ASSUME NEW n \in ReadSizes, Read(n) PROVE DataInv'
  BY <1>2 DEF Read, data, DataInv
<1>3. CASE Iterate
  BY <1>3 DEF Iterate, data, DataInv
<1>4. CASE Close
  <2>1. /\ conn'.ver = conn.ver /\ ~conn'.alive /\ closed'
        /\ UNCHANGED <<offset, caller, ended, failed>>
    BY <1>4 DEF Close
  <2> QED BY <2>1 DEF DataInv
<1>5. CASE Take
  BY <1>5, DataNextTake
<1>6. CASE Complete
  <2>1. /\ caller' = Bytes(conn.ver, 0, Len(caller'))
        /\ Len(caller') = Len(caller) + Len(res)
        /\ Len(res') = 0 /\ res' = <<>>
    BY <1>6, ReturnStep DEF Complete
  <2>2. UNCHANGED <<conn, offset, buffer, ended, failed, closed>> /\ ~closed
    BY <1>6 DEF Complete, ControlInv
  <2>3. Len(caller) \in Nat /\ Len(res) \in Nat /\ Len(buffer) \in Nat
    BY LenProperties
  <2>4. ended /\ ~failed => Len(caller') = SizeOf[conn.ver]
    <3> SUFFICES ASSUME ended, ~failed PROVE Len(caller') = SizeOf[conn.ver]
      OBVIOUS
    <3>1. /\ Len(caller) = SizeOf[conn.ver] /\ offset =< SizeOf[conn.ver]
          /\ offset = Len(caller) + Len(res) + Len(buffer)
      BY <2>2 DEF DataInv
    <3>2. Len(res) = 0
      BY ONLY <2>3, <3>1
    <3> QED BY ONLY <2>1, <2>3, <3>1, <3>2
  <2>5. ASSUME ~failed
        PROVE  /\ res' = Bytes(conn.ver, Len(caller'), Len(caller') + Len(res'))
               /\ offset = Len(caller') + Len(res') + Len(buffer)
    <3>1. offset = Len(caller) + Len(res) + Len(buffer)
      BY <2>2, <2>5 DEF DataInv
    <3>2. Len(caller') \in Nat /\ Len(caller') + Len(res') = Len(caller')
      BY ONLY <2>1, <2>3
    <3>3. Bytes(conn.ver, Len(caller'), Len(caller')) = <<>>
      BY ONLY <3>2, EmptyBytes
    <3>4. offset = Len(caller') + Len(res') + Len(buffer)
      BY ONLY <2>1, <2>3, <3>1
    <3> QED BY ONLY <2>1, <3>2, <3>3, <3>4
  <2> HIDE DEF TypeOK
  <2> QED BY <2>1, <2>2, <2>4, <2>5 DEF DataInv
<1>7. ASSUME NEW k \in 1..ChunkSize, Chunk(k) PROVE DataInv'
  BY <1>7, DataNextChunk
<1>8. CASE End
  BY <1>8, DataNextEnd
<1>9. CASE Breaks
  <2>1. /\ conn'.ver = conn.ver /\ ~conn'.alive
        /\ UNCHANGED <<offset, caller, buffer, ended, closed>>
        /\ failed' \/ UNCHANGED <<failed, res>>
    BY <1>9 DEF Breaks, Raise
  <2> QED BY <2>1 DEF DataInv
<1>10. CASE Recover
  <2>1. /\ conn'.alive /\ conn'.pos = offset
        /\ UNCHANGED <<offset, caller, res, buffer, ended, closed, failed>>
        /\ ~ended /\ ~failed /\ ~closed
    <3>1. conn' = [ver |-> version, pos |-> offset, alive |-> TRUE]
      BY <1>10 DEF Recover
    <3>2. UNCHANGED <<offset, caller, res, buffer, ended, closed, failed>>
      BY <1>10 DEF Recover, data
    <3>3. ~ended /\ ~failed /\ ~closed
      BY <1>10 DEF Recover, ControlInv
    <3> QED BY <3>1, <3>2, <3>3
  <2>2. CASE conn'.ver = conn.ver
    BY <2>1, <2>2 DEF DataInv
  <2>3. CASE conn'.ver # conn.ver
    <3>1. offset = 0 /\ conn'.ver \in Versions /\ SizeOf[conn'.ver] \in Nat
      BY <2>3, <1>10, RemoteNext, ConstantsAssumption DEF Recover
    <3>2. Len(caller) \in Nat /\ Len(res) \in Nat /\ Len(buffer) \in Nat
      BY LenProperties
    <3>3. Len(caller) = 0 /\ Len(res) = 0 /\ Len(buffer) = 0
      BY <2>1, <3>1, <3>2 DEF DataInv
    <3>4. caller = <<>> /\ res = <<>> /\ buffer = <<>>
      BY <3>3, EmptySeq
    <3>5. Bytes(conn'.ver, 0, 0) = <<>>
      BY EmptyBytes
    <3> QED BY <2>1, <3>1, <3>3, <3>4, <3>5 DEF DataInv
  <2> QED BY <2>2, <2>3
<1>11. CASE RecoverFails
  <2>1. UNCHANGED <<conn, offset, caller, buffer, ended, closed>> /\ failed'
    BY <1>11 DEF RecoverFails, Raise
  <2> QED BY <2>1 DEF DataInv
<1>12. CASE UNCHANGED vars
  BY <1>12 DEF vars, data, DataInv
<1> QED BY <1>1, <1>2, <1>3, <1>4, <1>5, <1>6, <1>7, <1>8, <1>9, <1>10, <1>11, <1>12
        DEF Next, Step

\* The invariant the properties of the stream follow from.
THEOREM DownloadInvariant ==
    ASSUME DistinctDates
    PROVE  Spec => [](TypeOK /\ DownloadInv)
<1>1. Init => TypeOK /\ DownloadInv
  BY TypeInit, InvInit
<1>2. TypeOK /\ DownloadInv /\ [Next]_vars => (TypeOK /\ DownloadInv)'
  BY DistinctDates, TypeNext, RemoteNext, ControlNext, DataNext
     DEF DownloadInv
<1> QED BY <1>1, <1>2, PTL DEF Spec

LEMMA CallerBytes ==
    ASSUME TypeOK, DownloadInv
    PROVE  /\ conn.ver \in Versions
           /\ \A i \in 1..Len(caller) : caller[i].ver = conn.ver /\ caller[i].pos = i - 1
<1>1. conn.ver \in Versions /\ Len(caller) \in Nat
  BY LenProperties DEF TypeOK
<1>2. caller = Bytes(conn.ver, 0, Len(caller))
  BY DEF DownloadInv, DataInv
<1>3. \A i \in 1..Len(caller) :
         Bytes(conn.ver, 0, Len(caller))[i] = [ver |-> conn.ver, pos |-> 0 + i - 1]
  BY <1>1 DEF Bytes
<1>4. ASSUME NEW i \in 1..Len(caller)
      PROVE  caller[i].ver = conn.ver /\ caller[i].pos = i - 1
  <2>1. caller[i] = [ver |-> conn.ver, pos |-> 0 + i - 1]
    BY <1>2, <1>3
  <2>2. 0 + i - 1 = i - 1
    BY <1>1
  <2> QED BY <2>1, <2>2
<1> QED BY <1>1, <1>4

\* The caller receives the beginning of the file, nothing skipped or repeated,
\* however many recoveries it takes.
THEOREM BytesInOrder ==
    ASSUME DistinctDates
    PROVE  Spec => []NothingSkippedOrRepeated
<1>1. TypeOK /\ DownloadInv => NothingSkippedOrRepeated
  <2> SUFFICES ASSUME TypeOK, DownloadInv PROVE NothingSkippedOrRepeated
    OBVIOUS
  <2>1. \A i \in 1..Len(caller) : caller[i].ver = conn.ver /\ caller[i].pos = i - 1
    BY CallerBytes
  <2> QED BY <2>1 DEF NothingSkippedOrRepeated
<1> QED BY <1>1, DistinctDates, DownloadInvariant, PTL

\* All of it is of one version, however often the file is replaced meanwhile.
THEOREM BytesOfOneVersion ==
    ASSUME DistinctDates
    PROVE  Spec => []OneVersion
<1>1. TypeOK /\ DownloadInv => OneVersion
  <2> SUFFICES ASSUME TypeOK, DownloadInv PROVE OneVersion
    OBVIOUS
  <2>1. \A i \in 1..Len(caller) : caller[i].ver = conn.ver /\ caller[i].pos = i - 1
    BY CallerBytes
  <2> QED BY <2>1 DEF OneVersion
<1> QED BY <1>1, DistinctDates, DownloadInvariant, PTL

\* As long as no read failed, the end of the stream is the end of the file.
THEOREM EndIsComplete ==
    ASSUME DistinctDates
    PROVE  Spec => []EndMeansWholeFile
<1>1. TypeOK /\ DownloadInv => EndMeansWholeFile
  <2> SUFFICES ASSUME TypeOK, DownloadInv, ended, ~failed
               PROVE  conn.ver \in Versions /\ caller = File(conn.ver)
    BY DEF EndMeansWholeFile
  <2> QED BY DEF TypeOK, DownloadInv, DataInv, File
<1> QED BY <1>1, DistinctDates, DownloadInvariant, PTL
=============================================================================
