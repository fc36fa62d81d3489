------------------------- MODULE MultipartUploadProofs -------------------------
(***************************************************************************)
(* Proofs about MultipartUpload, for every size of stream, pre-read, chunk  *)
(* and batch, and every number of retries.                                 *)
(***************************************************************************)
EXTENDS MultipartUpload, TLAPS

-----------------------------------------------------------------------------
(* Reading the stream                                                      *)

\* A read never goes past the end, and returns nothing only there.
LEMMA ReadsBounds ==
    ASSUME pos \in Nat, pos =< Size, NEW n \in Nat \ {0}, NEW r \in Reads(n)
    PROVE  r \in Nat /\ r =< n /\ pos + r =< Size /\ (r = 0 => pos = Size)
BY ConstantsAssumption DEF Reads

\* _fill_buffer keeps the buffer where it is in the stream, and leaves it empty
\* at the end of the stream only.
LEMMA FillBufferKeepsOffset ==
    ASSUME pos \in Nat, buffer \in Nat, buffer =< pos, pos =< Size, FillBuffer
    PROVE  /\ pos' \in Nat /\ buffer' \in Nat /\ buffer' =< pos' /\ pos' =< Size
           /\ Offset' = Offset
           /\ buffer' = 0 => Offset' = Size
<1>1. CASE buffer < ChunkSize
  <2>1. PICK n \in Reads(ChunkSize - buffer) : pos' = pos + n /\ buffer' = buffer + n
    BY <1>1 DEF FillBuffer
  <2>2. ChunkSize - buffer \in Nat \ {0}
    BY <1>1, ConstantsAssumption
  <2>3. n \in Nat /\ pos + n =< Size /\ (n = 0 => pos = Size)
    BY <2>2, ReadsBounds
  <2> QED BY <2>1, <2>3, ConstantsAssumption DEF Offset
<1>2. CASE ~(buffer < ChunkSize)
  BY <1>2, ConstantsAssumption DEF FillBuffer, reader, Offset
<1> QED BY <1>1, <1>2

\* A chunk lies at the front of the buffer and is not empty unless the buffer is.
LEMMA ChunkBounds ==
    ASSUME buffer \in Nat, buffer > 0
    PROVE  ChunkLength \in Nat /\ ChunkLength > 0 /\ ChunkLength =< buffer
BY ConstantsAssumption DEF ChunkLength

-----------------------------------------------------------------------------
(* The inductive invariant                                                 *)

\* Adding a part to a set of parts gives a set of parts.
LEMMA WithType ==
    ASSUME NEW f, IsParts(f), NEW n \in Nat, NEW v \in Interval
    PROVE  IsParts(With(f, n, v))
BY DEF IsParts, With

\* The parts believed uploaded tile the stream up to the buffer, in every state.
THEOREM UploadInvariant == Spec => [](TypeOK /\ UploadInv)
<1> USE ConstantsAssumption
<1>1. Init => TypeOK /\ UploadInv
  <2> SUFFICES ASSUME Init PROVE TypeOK /\ UploadInv
    OBVIOUS
  <2>1. TypeOK
    <3>1. IsParts(etags) /\ IsParts(stored) /\ IsParts(object)
      BY DEF Init, IsParts, NoParts, NoObject, Interval
    <3>2. urls \in [first : Nat, left : Nat] /\ phase \in Phases
      BY DEF Init, Phases
    <3>3. completing \in BOOLEAN
      BY DEF Init
    <3> QED BY <3>1, <3>2, <3>3 DEF Init, TypeOK
  <2>2. UploadInv
    BY DEF Init, UploadInv, NoParts, Tile, Offset, PublishedIsStream
  <2> QED BY <2>1, <2>2
<1>2. TypeOK /\ UploadInv /\ [Next]_vars => TypeOK' /\ UploadInv'
  <2> SUFFICES ASSUME TypeOK, UploadInv, [Next]_vars PROVE TypeOK' /\ UploadInv'
    OBVIOUS
  <2> USE DEF TypeOK, Phases, Raise, Discard, server
  <2>1. CASE StartBatch \/ StartPart
    <3>1. FillBuffer
      BY <2>1 DEF StartBatch, StartPart
    <3>2. /\ pos' \in Nat /\ buffer' \in Nat /\ buffer' =< pos' /\ pos' =< Size
          /\ Offset' = Offset
          /\ buffer' = 0 => Offset' = Size
      BY <3>1, FillBufferKeepsOffset DEF UploadInv
    <3>3. Tile(etags, Offset)'
      BY <2>1, <3>2 DEF UploadInv, Tile, StartBatch, StartPart
    <3>4. (PublishedIsStream /\ IsParts(etags) /\ IsParts(stored) /\ IsParts(object))'
      BY <2>1 DEF UploadInv, PublishedIsStream, Tile, StartBatch, StartPart, IsParts
    <3>5. completing' \in BOOLEAN /\ (completing' => Offset' = Size)
      BY <2>1, <3>2 DEF StartBatch, StartPart
    <3>6. (completing' <=> phase' = "complete")
      BY <2>1 DEF StartBatch, StartPart
    <3>7. TypeOK'
      BY <2>1, <3>2, <3>4, <3>5 DEF StartBatch, StartPart
    <3> QED
      BY <2>1, <3>2, <3>3, <3>4, <3>5, <3>6, <3>7 DEF StartBatch, StartPart, UploadInv
  <2>2. CASE RequestUrls \/ EndBatch
    BY <2>2 DEF RequestUrls, EndBatch, reader, UploadInv, Tile, Offset,
                PublishedIsStream, IsParts
  <2>3. CASE PutSucceeds
    <3> DEFINE len == ChunkLength
               new == [lo |-> Offset, hi |-> Offset + len]
    <3>1. len \in Nat /\ len > 0 /\ len =< buffer
      BY <2>3, ChunkBounds DEF PutSucceeds, UploadInv
    <3>2. Offset \in Nat /\ Offset' = Offset + len
      BY <2>3, <3>1 DEF PutSucceeds, UploadInv, Offset
    <3>3. Chunk = new /\ new \in Interval
      BY <2>3, <3>1, <3>2 DEF PutSucceeds, UploadInv, Chunk, Interval
    <3>4. urls.first = part /\ stored' = With(stored, part, new)
      BY <2>3, <3>3 DEF PutSucceeds, Store, UploadInv
    <3>5. etags' = With(etags, part, new)
      BY <2>3, <3>4 DEF PutSucceeds, With
    <3>6. IsParts(etags)' /\ IsParts(stored)'
      BY <3>3, <3>4, <3>5, WithType DEF IsParts
    <3>7. \A k \in DOMAIN etags' : k < part'
      BY <2>3, <3>5 DEF PutSucceeds, NextUrl, With, UploadInv, IsParts
    <3>8. Tile(etags', Offset')
      <4>1. \A k \in DOMAIN etags' : etags'[k].lo < etags'[k].hi /\ etags'[k].hi =< Offset'
        BY <3>1, <3>2, <3>5 DEF With, UploadInv, Tile, IsParts, Interval
      <4>2. \A k, l \in DOMAIN etags' : k < l => etags'[k].hi =< etags'[l].lo
        BY <3>1, <3>2, <3>5 DEF With, UploadInv, Tile, IsParts, Interval
      <4>3. ASSUME NEW i \in 0..(Offset' - 1)
            PROVE  \E k \in DOMAIN etags' : etags'[k].lo =< i /\ i < etags'[k].hi
        <5>1. CASE i < Offset
          <6>1. PICK k \in DOMAIN etags : etags[k].lo =< i /\ i < etags[k].hi
            BY <5>1, <3>2 DEF UploadInv, Tile
          <6>2. k # part /\ k \in DOMAIN etags'
            BY <3>5 DEF UploadInv, With, IsParts
          <6> QED BY <3>5, <6>1, <6>2 DEF With
        <5>2. CASE ~(i < Offset)
          <6>1. part \in DOMAIN etags' /\ etags'[part] = new
            BY <3>5 DEF With
          <6> QED BY <5>2, <6>1, <3>1, <3>2
        <5> QED BY <5>1, <5>2
      <4> QED BY <4>1, <4>2, <4>3 DEF Tile
    <3>9. (PublishedIsStream /\ IsParts(object))'
      BY <2>3 DEF PutSucceeds, UploadInv, PublishedIsStream, Tile, IsParts
    <3>10. buffer' \in Nat /\ buffer' =< pos' /\ pos' =< Size
      BY <2>3, <3>1 DEF PutSucceeds, UploadInv
    <3> QED
      BY <2>3, <3>6, <3>7, <3>8, <3>9, <3>10 DEF PutSucceeds, NextUrl, UploadInv, Tile
  <2>4. CASE PutFails
    <3>1. ChunkLength \in Nat /\ ChunkLength > 0 /\ ChunkLength =< buffer
      BY <2>4, ChunkBounds DEF PutFails, UploadInv
    <3>2. Chunk \in Interval
      BY <2>4, <3>1 DEF PutFails, UploadInv, Chunk, Interval, Offset
    <3>3. IsParts(stored)'
      BY <2>4, <3>2, WithType DEF PutFails, Store, IsParts
    <3>4. chunkPos' \in Nat
      BY <2>4, <3>1 DEF PutFails, UploadInv
    <3> QED BY <2>4, <3>3, <3>4 DEF PutFails, reader, UploadInv, Tile, Offset,
                                   PublishedIsStream, IsParts
  <2>5. CASE Retry \/ PutRejected
    BY <2>5 DEF Retry, PutRejected, reader, UploadInv, Tile, Offset,
                PublishedIsStream, IsParts
  <2>6. CASE UrlExpired
    BY <2>6 DEF UrlExpired, NextUrl, reader, UploadInv, Tile, Offset,
                PublishedIsStream, IsParts
  <2>7. CASE Publish
    BY <2>7 DEF Publish, reader, UploadInv, Tile, Offset, PublishedIsStream, IsParts
  <2>8. CASE CompleteSucceeds \/ CompleteFails
    BY <2>8 DEF CompleteSucceeds, CompleteFails, reader, UploadInv, Tile,
                Offset, PublishedIsStream, IsParts
  <2>9. CASE Abort
    BY <2>9 DEF Abort, reader, UploadInv, Tile, Offset, PublishedIsStream,
                IsParts, NoParts
  <2>10. CASE UNCHANGED vars
    BY <2>10 DEF vars, reader, UploadInv, Tile, Offset, PublishedIsStream, IsParts
  <2> QED
    BY <2>1, <2>2, <2>3, <2>4, <2>5, <2>6, <2>7, <2>8, <2>9, <2>10 DEF Next
<1> QED
  BY <1>1, <1>2, PTL DEF Spec

\* Counters and positions are naturals, and all parts are intervals.
THEOREM TypeCorrect == Spec => []TypeOK
BY UploadInvariant, PTL

\* What the server publishes is the stream, for every size of stream and chunk and
\* whatever is lost, resent or expires.
THEOREM ObjectIsStream == Spec => []PublishedIsStream
<1>1. UploadInv => PublishedIsStream
  BY DEF UploadInv
<1> QED BY <1>1, UploadInvariant, PTL

\* The assertion on part numbers never fails.
THEOREM PartNumbersMatch == Spec => []UrlMatchesPart
<1>1. UploadInv => UrlMatchesPart
  BY DEF UploadInv, UrlMatchesPart
<1> QED BY <1>1, UploadInvariant, PTL

-----------------------------------------------------------------------------
(* Idempotent retries                                                      *)

\* A part is only ever sent again as the same chunk.
THEOREM StoredInvariant == Spec => []StoredInv
<1> USE ConstantsAssumption
<1>1. Init => StoredInv
  BY DEF Init, StoredInv, NoParts
<1>2. TypeOK /\ UploadInv /\ StoredInv /\ [Next]_vars => StoredInv'
  <2> SUFFICES ASSUME TypeOK, UploadInv, StoredInv, [Next]_vars PROVE StoredInv'
    OBVIOUS
  <2> USE DEF TypeOK, Phases, Raise, Discard, server
  <2>1. CASE StartBatch \/ RequestUrls \/ StartPart \/ EndBatch
    BY <2>1 DEF StartBatch, RequestUrls, StartPart, EndBatch, StoredInv, IsParts, reader
  <2>2. CASE PutSucceeds
    BY <2>2 DEF PutSucceeds, Store, With, NextUrl, StoredInv, IsParts, UploadInv
  <2>3. CASE PutFails
    BY <2>3 DEF PutFails, Store, With, Chunk, Offset, ChunkLength, StoredInv,
                IsParts, UploadInv, reader
  <2>4. CASE Retry \/ PutRejected
    BY <2>4 DEF Retry, PutRejected, StoredInv, IsParts, reader, Offset, ChunkLength
  <2>5. CASE UrlExpired
    BY <2>5 DEF UrlExpired, NextUrl, StoredInv, IsParts, reader
  <2>6. CASE Publish \/ CompleteSucceeds \/ CompleteFails
    BY <2>6 DEF Publish, CompleteSucceeds, CompleteFails, StoredInv, IsParts,
                reader, Offset, ChunkLength
  <2>7. CASE Abort
    BY <2>7 DEF Abort, StoredInv, NoParts
  <2>8. CASE UNCHANGED vars
    BY <2>8 DEF vars, reader, StoredInv, Offset, ChunkLength
  <2> QED
    BY <2>1, <2>2, <2>3, <2>4, <2>5, <2>6, <2>7, <2>8 DEF Next
<1> QED
  BY <1>1, <1>2, UploadInvariant, PTL DEF Spec

\* No step changes the bytes the server holds under a part number.
THEOREM PartsNeverChange == Spec => RetriesAreIdempotent
<1>1. TypeOK /\ UploadInv /\ StoredInv /\ [Next]_vars =>
         [\A k \in DOMAIN stored \cap DOMAIN stored' : stored'[k] = stored[k]]_vars
  <2> SUFFICES ASSUME TypeOK, UploadInv, StoredInv, Next
               PROVE  \A k \in DOMAIN stored \cap DOMAIN stored' : stored'[k] = stored[k]
    OBVIOUS
  <2>1. CASE PutSucceeds \/ PutFails
    <3>1. stored' = With(stored, part, Chunk) \/ stored' = stored
      BY <2>1 DEF PutSucceeds, PutFails, Store, UploadInv
    <3>2. part \in DOMAIN stored => stored[part] = Chunk
      BY <2>1 DEF PutSucceeds, PutFails, UploadInv, StoredInv, Chunk, Offset, TypeOK
    <3> QED BY <3>1, <3>2 DEF With
  <2>2. CASE ~(PutSucceeds \/ PutFails)
    BY <2>2 DEF Next, StartBatch, RequestUrls, StartPart, EndBatch, Retry,
                UrlExpired, PutRejected, Publish, CompleteSucceeds,
                CompleteFails, Abort, NoParts, server
  <2> QED BY <2>1, <2>2
<1> QED
  BY <1>1, UploadInvariant, StoredInvariant, PTL DEF Spec, RetriesAreIdempotent

-----------------------------------------------------------------------------
(* Refinement                                                              *)

\* Every step of the protocol is a step of the atomic upload, or none: the object
\* becomes new when the server publishes it, and the call succeeds only then.
THEOREM UploadRefinement == Spec => ImplementsUpload
<1>1. Init => Upload!Init
  BY DEF Init, Upload!Init
<1>2. TypeOK /\ UploadInv /\ UploadInv' /\ [Next]_vars => [Upload!Next]_(Upload!vars)
  <2> SUFFICES ASSUME TypeOK, UploadInv, UploadInv', [Next]_vars
               PROVE  [Upload!Next]_(Upload!vars)
    OBVIOUS
  <2> USE DEF Upload!Next, Upload!Publish, Upload!Succeed, Upload!Fail, Upload!vars,
              Raise, server
  <2>1. CASE Publish
    <3>1. object' # NoObject => Tile(object', Size)
      BY DEF UploadInv, PublishedIsStream
    <3> QED BY <2>1, <3>1 DEF Publish
  <2>2. CASE CompleteSucceeds
    BY <2>2 DEF CompleteSucceeds, UploadInv, PublishedIsStream
  <2>3. CASE Abort
    BY <2>3 DEF Abort
  <2>4. CASE UNCHANGED vars
    BY <2>4 DEF vars
  <2>5. ASSUME \/ StartBatch \/ RequestUrls \/ StartPart \/ EndBatch
               \/ PutSucceeds \/ PutFails \/ Retry \/ UrlExpired \/ PutRejected
               \/ CompleteFails
        PROVE  /\ object' = object
               /\ phase \notin {"done", "failed"} /\ phase' \notin {"done", "failed"}
    BY <2>5 DEF StartBatch, RequestUrls, StartPart, EndBatch, PutSucceeds,
                PutFails, Retry, UrlExpired, PutRejected, CompleteFails, NextUrl
  <2> QED
    BY <2>1, <2>2, <2>3, <2>4, <2>5 DEF Next
<1> QED
  BY <1>1, <1>2, UploadInvariant, PTL DEF Spec, ImplementsUpload, Upload!Spec
=============================================================================
