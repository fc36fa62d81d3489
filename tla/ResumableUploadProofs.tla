------------------------- MODULE ResumableUploadProofs -------------------------
(***************************************************************************)
(* Proofs about ResumableUpload, for every size of stream, pre-read, chunk  *)
(* and read-ahead.  Those about the end of the stream are for streams that *)
(* read short there only.                                                  *)
(***************************************************************************)
EXTENDS ResumableUpload, TLAPS

-----------------------------------------------------------------------------
(* The server                                                              *)

\* A chunk whose bytes are the ones its range announces, and that does not hide the
\* end of the stream.
Honest(c) ==
    /\ c.data = c.lo /\ c.hi =< Size
    /\ c.hi = Size => c.last

Chunks == [lo : Nat, hi : Nat, data : Nat, last : BOOLEAN]

\* What the server has stored, as far as PrefixInv is concerned.
ServerInv ==
    /\ persisted \in Nat /\ content \in [0..(persisted - 1) -> Nat]
    /\ published \in BOOLEAN
    /\ persisted =< Size
    /\ \A i \in 0..(persisted - 1) : content[i] = i
    /\ persisted = Size => published

\* Storing any part of such a chunk keeps the bytes stored a prefix of the stream.
LEMMA TakesHonest ==
    ASSUME ServerInv, NEW c \in Chunks, Honest(c), Takes(c)
    PROVE  ServerInv' /\ persisted =< persisted' /\ (published => published')
<1> USE ConstantsAssumption DEF ServerInv, Chunks, Honest
<1>1. CASE published \/ c.lo > persisted \/ c.hi =< persisted
  BY <1>1 DEF Takes
<1>2. CASE ~(published \/ c.lo > persisted \/ c.hi =< persisted)
  <2>1. PICK n \in persisted..c.hi : StoreUpTo(c, n)
    BY <1>2 DEF Takes
  <2>2. n \in Nat /\ persisted =< n /\ n =< c.hi
    BY <2>1
  <2>3. \A i \in 0..(n - 1) : content'[i] = i /\ content'[i] \in Nat
    BY <2>1, <2>2, <1>2 DEF StoreUpTo
  <2>4. content' \in [0..(persisted' - 1) -> Nat]
    BY <2>1, <2>2, <2>3 DEF StoreUpTo
  <2>5. persisted' = Size => published'
    BY <2>1, <2>2, <1>2 DEF StoreUpTo
  <2> QED BY <1>2, <2>1, <2>2, <2>3, <2>4, <2>5 DEF StoreUpTo
<1> QED BY <1>1, <1>2

\* Chunks that announce the end where it is finalize nothing but the whole stream.
LEMMA TakesToTheEnd ==
    ASSUME published => persisted = Size, NEW c \in Chunks, c.last => c.hi = Size,
           Takes(c)
    PROVE  published' => persisted' = Size
<1>1. CASE published \/ c.lo > persisted \/ c.hi =< persisted
  BY <1>1 DEF Takes
<1>2. CASE ~(published \/ c.lo > persisted \/ c.hi =< persisted)
  BY <1>2 DEF Takes, StoreUpTo
<1> QED BY <1>1, <1>2

\* An answer either reports the end or confirms what is stored, short of the end.
LEMMA AnswerBounds ==
    ASSUME NEW p \in Nat, p =< Size, NEW f \in BOOLEAN, p = Size => f
    PROVE  /\ Answer(p, f) \in Int
           /\ \/ Answer(p, f) = Finished /\ f
              \/ -1 =< Answer(p, f) /\ Answer(p, f) < p /\ Answer(p, f) < Size - 1
<1>1. CASE f
  BY <1>1 DEF Answer, Finished
<1>2. CASE ~f
  BY <1>2, ConstantsAssumption DEF Answer
<1> QED BY <1>1, <1>2

-----------------------------------------------------------------------------
(* Reading the stream                                                      *)

\* The head of the loop: the buffer starts at the offset, there is a chunk in it,
\* and the chunk is a proper part of what is left unless it is the last.
LEMMA FillBounds ==
    ASSUME TypeOK, PrefixInv, Fill
    PROVE  /\ pos' \in Nat /\ buffer' \in Nat /\ length' \in Nat /\ last' \in BOOLEAN
           /\ buffer' =< pos' /\ pos' =< Size /\ pos' - buffer' = offset
           /\ 0 < length' /\ length' =< buffer'
           /\ offset + length' = Size => last'
           /\ ~ShortReads /\ last' => offset + length' = Size
<1> USE ConstantsAssumption DEF TypeOK, PrefixInv
<1>1. Missing \in Nat /\ buffer - uploaded + Missing >= ChunkSize + ReadAhead
  BY DEF Fill, Missing
<1>2. PICK n \in Reads(Missing) :
         /\ pos' = pos + n
         /\ buffer' = buffer - uploaded + n
         /\ last' = (n < Missing)
  BY DEF Fill
<1>3. /\ n \in Nat /\ n =< Missing /\ pos + n =< Size
      /\ n < Missing => n > 0 \/ pos = Size
      /\ ~ShortReads /\ n < Missing => pos + n = Size
  <2> DEFINE most == IF Size - pos < Missing THEN Size - pos ELSE Missing
  <2>1. most \in Nat /\ most =< Missing /\ pos + most =< Size
        /\ (most < Missing => pos + most = Size)
    BY <1>1
  <2>2. n \in (IF ShortReads /\ most > 0 THEN 1..most ELSE {most})
    BY <1>2 DEF Reads
  <2> HIDE DEF most
  <2>3. CASE ShortReads /\ most > 0
    BY <2>1, <2>2, <2>3, <1>1
  <2>4. CASE ~(ShortReads /\ most > 0)
    <3>1. n = most
      BY <2>2, <2>4
    <3> QED BY <2>1, <3>1, <1>1
  <2> QED BY <2>3, <2>4
<1>4. buffer' \in Nat /\ pos' \in Nat /\ pos' - buffer' = offset /\ pos' =< Size
  BY <1>2, <1>3 DEF Fill
<1>5. CASE n < Missing
  <2>1. last' = TRUE /\ length' = buffer' /\ (~ShortReads => pos' = Size)
    BY <1>2, <1>3, <1>5 DEF Fill
  <2>2. buffer' > 0
    BY <1>2, <1>3, <1>4, <1>5 DEF Fill
  <2> QED BY <2>1, <2>2, <1>4 DEF Fill
<1>6. CASE ~(n < Missing)
  <2>1. last' = FALSE
    <3>1. n \in Nat /\ Missing \in Nat
      BY <1>1, <1>3
    <3>2. last' \in BOOLEAN
      BY <1>2, <3>1
    <3> QED BY <1>2, <1>6, <3>1, <3>2
  <2>2. length' = ChunkSize
    BY <2>1 DEF Fill
  <2>3. n = Missing
    BY <1>1, <1>3, <1>6
  <2>4. buffer' >= ChunkSize + ReadAhead
    BY <1>1, <1>2, <2>3
  <2> QED BY <2>1, <2>2, <2>4, <1>4 DEF Fill
<1> QED BY <1>5, <1>6

-----------------------------------------------------------------------------
(* The inductive invariant                                                 *)

\* Buffer, offset and server agree in every state.
THEOREM PrefixInvariant == Spec => [](TypeOK /\ PrefixInv)
<1> USE ConstantsAssumption
<1>1. Init => TypeOK /\ PrefixInv
  <2> SUFFICES ASSUME Init PROVE TypeOK /\ PrefixInv
    OBVIOUS
  <2>1. content \in [0..(persisted - 1) -> Nat] /\ late \in Chunks
    BY DEF Init, NoChunk, Chunks
  <2>2. phase \in Phases /\ last \in BOOLEAN /\ published \in BOOLEAN
    BY DEF Init, Phases
  <2> QED BY <2>1, <2>2 DEF Init, TypeOK, PrefixInv, Chunks
<1>2. TypeOK /\ PrefixInv /\ [Next]_vars => TypeOK' /\ PrefixInv'
  <2> SUFFICES ASSUME TypeOK, PrefixInv, [Next]_vars PROVE TypeOK' /\ PrefixInv'
    OBVIOUS
  <2> USE DEF TypeOK, Phases, Raise, Finished
  <2>1. CASE Fill
    <3>1. /\ pos' \in Nat /\ buffer' \in Nat /\ length' \in Nat /\ last' \in BOOLEAN
          /\ buffer' =< pos' /\ pos' =< Size /\ pos' - buffer' = offset
          /\ 0 < length' /\ length' =< buffer'
          /\ offset + length' = Size => last'
      BY <2>1, FillBounds
    <3>2. TypeOK'
      BY <2>1, <3>1 DEF Fill, server
    <3> QED BY <2>1, <3>1, <3>2 DEF Fill, server, PrefixInv
  <2>2. CASE PutAnswered(Takes(Sent))
    <3>1. Sent \in Chunks /\ Honest(Sent)
      BY <2>2 DEF PutAnswered, Sent, Chunks, Honest, PrefixInv
    <3>2. ServerInv
      BY DEF ServerInv, PrefixInv
    <3>3. ServerInv' /\ persisted =< persisted' /\ (published => published')
      BY <2>2, <3>1, <3>2, TakesHonest DEF PutAnswered
    <3>4. NoChunk \in Chunks
      BY DEF NoChunk, Chunks
    <3>5. /\ persisted' \in Nat /\ persisted' =< Size
          /\ published' \in BOOLEAN /\ (persisted' = Size => published')
      BY <3>3 DEF ServerInv
    <3>6. confirmed' = Answer(persisted', published')
      BY <2>2 DEF PutAnswered
    <3>7. /\ confirmed' \in Int
          /\ \/ confirmed' = Finished /\ published'
             \/ -1 =< confirmed' /\ confirmed' < persisted' /\ confirmed' < Size - 1
      BY <3>5, <3>6, AnswerBounds
    <3>8. /\ phase' = "reply" /\ late' = NoChunk /\ retryCount' = 0
          /\ UNCHANGED <<pos, buffer, uploaded, offset, length, last>>
      BY <2>2 DEF PutAnswered, reader, chunk
    <3>9. /\ pos - buffer = offset /\ 0 < length /\ length =< buffer
          /\ offset + length = Size => last
      BY <2>2 DEF PutAnswered, PrefixInv
    <3>10. TypeOK'
      <4>1. confirmed' \in Int /\ retryCount' \in 0..MaxRetries
        BY <3>7, <3>8
      <4>2. content' \in [0..(persisted' - 1) -> Nat]
        BY <3>3 DEF ServerInv
      <4>3. late' \in [lo : Nat, hi : Nat, data : Nat, last : BOOLEAN]
        BY <3>4, <3>8 DEF Chunks
      <4> QED BY <3>5, <3>8, <4>1, <4>2, <4>3
    <3>11. \A i \in 0..(persisted' - 1) : content'[i] = i
      BY <3>3 DEF ServerInv
    <3>12. offset =< persisted
      BY DEF PrefixInv
    <3>13. offset' =< persisted'
      BY <3>3, <3>5, <3>8, <3>12
    <3>14. buffer' =< pos' /\ pos' =< Size
      BY <3>8 DEF PrefixInv
    <3> QED
      BY <3>5, <3>7, <3>8, <3>9, <3>10, <3>11, <3>13, <3>14 DEF PrefixInv
  <2>3. CASE PutInterrupted
    <3>1. Sent \in Chunks /\ Honest(Sent) /\ NoChunk \in Chunks
      BY <2>3 DEF PutInterrupted, Sent, Chunks, Honest, PrefixInv, NoChunk
    <3>2. late' \in Chunks /\ (late' # NoChunk => Honest(late'))
      BY <2>3, <3>1 DEF PutInterrupted
    <3>3. TypeOK'
      BY <2>3, <3>2 DEF PutInterrupted, reader, chunk, Chunks
    <3> QED BY <2>3, <3>2, <3>3 DEF PutInterrupted, reader, chunk, PrefixInv, Honest
  <2>4. CASE PutRejected \/ StatusFails \/ RangeError
    <3>1. /\ phase' = "abort"
          /\ UNCHANGED <<reader, uploaded, offset, chunk, retryCount, confirmed, server>>
      BY <2>4 DEF PutRejected, StatusFails, RangeError
    <3> QED BY <3>1 DEF reader, chunk, server, PrefixInv
  <2>5. CASE StatusAnswered
    BY <2>5 DEF StatusAnswered, Answer, reader, chunk, server, PrefixInv
  <2>6. CASE LateChunk
    <3>1. ServerInv
      BY DEF ServerInv, PrefixInv
    <3>2. late \in Chunks /\ Honest(late)
      BY <2>6 DEF LateChunk, Chunks, Honest, PrefixInv
    <3>3. ServerInv' /\ persisted =< persisted' /\ (published => published')
      BY <2>6, <3>1, <3>2, TakesHonest DEF LateChunk
    <3>4. published => published'
      BY <3>3
    <3>5. /\ late' = NoChunk /\ NoChunk \in Chunks
          /\ UNCHANGED <<phase, pos, buffer, uploaded, offset, length, last,
                         retryCount, confirmed>>
      BY <2>6 DEF LateChunk, reader, chunk, NoChunk, Chunks
    <3>6. TypeOK'
      BY <3>3, <3>5 DEF ServerInv, Chunks
    <3>7. /\ persisted' \in Nat /\ persisted' =< Size
          /\ published' \in BOOLEAN /\ (persisted' = Size => published')
          /\ \A i \in 0..(persisted' - 1) : content'[i] = i
      BY <3>3 DEF ServerInv
    <3>8. offset =< persisted
      BY DEF PrefixInv
    <3>9. offset' =< persisted'
      BY <3>3, <3>5, <3>7, <3>8
    <3>10. phase = "reply" /\ ~(confirmed = Finished /\ published) =>
             -1 =< confirmed /\ confirmed < persisted' /\ confirmed < Size - 1
      BY <3>3, <3>7 DEF PrefixInv
    <3> QED
      BY <3>4, <3>5, <3>6, <3>7, <3>9, <3>10 DEF PrefixInv
  <2>7. CASE Complete
    BY <2>7 DEF Complete, reader, chunk, server, PrefixInv
  <2>8. CASE Resume
    <3>1. /\ offset' \in Nat /\ uploaded' \in Nat /\ uploaded' =< buffer
          /\ offset' = offset + uploaded' /\ offset' =< persisted /\ offset' < Size
      BY <2>8 DEF Resume, Confirms, InRange, PrefixInv
    <3> QED BY <2>8, <3>1 DEF Resume, reader, chunk, server, PrefixInv
  <2>9. CASE Abort
    <3>1. /\ phase' = "failed" /\ late' \in {late, NoChunk} /\ NoChunk \in Chunks
          /\ UNCHANGED <<pos, buffer, uploaded, offset, length, last, retryCount,
                         confirmed, content, persisted, published>>
      BY <2>9 DEF Abort, reader, chunk, NoChunk, Chunks
    <3> QED BY <3>1 DEF PrefixInv, Chunks
  <2>10. CASE UNCHANGED vars
    BY <2>10 DEF vars, reader, chunk, server, PrefixInv
  <2> QED
    BY <2>1, <2>2, <2>3, <2>4, <2>5, <2>6, <2>7, <2>8, <2>9, <2>10 DEF Next
<1> QED
  BY <1>1, <1>2, PTL DEF Spec

-----------------------------------------------------------------------------
(* What holds of any stream                                                *)

\* Every variable keeps its type: no more than multipart_upload_max_retries requests
\* in a row are interrupted, and no length or offset is negative.
THEOREM TypeCorrect == Spec => []TypeOK
  BY PrefixInvariant, PTL

\* No byte is skipped, announced wrongly or sent past what the server has.
THEOREM NoByteIsSkipped == Spec => []NoByteSkipped
<1>1. PrefixInv => NoByteSkipped
  BY DEF PrefixInv, NoByteSkipped
<1> QED BY <1>1, PrefixInvariant, PTL

\* The read-ahead leaves something to send, however little is confirmed.
THEOREM NoChunkIsEmpty == Spec => []NoEmptyChunk
<1>1. PrefixInv => NoEmptyChunk
  BY DEF PrefixInv, NoEmptyChunk
<1> QED BY <1>1, PrefixInvariant, PTL

\* Whatever the server stores is the stream from its beginning, in order, and the
\* upload succeeds only when the server has finalized the object.
THEOREM StoredIsPrefix ==
    Spec => [](/\ persisted =< Size
               /\ \A i \in 0..(persisted - 1) : content[i] = i
               /\ phase = "done" => published)
<1>1. PrefixInv => /\ persisted =< Size
                   /\ \A i \in 0..(persisted - 1) : content[i] = i
                   /\ phase = "done" => published
  BY DEF PrefixInv
<1> QED BY <1>1, PrefixInvariant, PTL

-----------------------------------------------------------------------------
(* What holds of streams that read short at their end only                 *)

\* The end is announced with the last byte of the stream.
LEMMA EndStep ==
    ASSUME ShortReads = FALSE, TypeOK, PrefixInv, EndInv, [Next]_vars
    PROVE  EndInv'
<1> USE DEF EndInv
<1>1. CASE Fill
  <2>1. last' => offset + length' = Size
    BY <1>1, FillBounds, ShortReads = FALSE
  <2> QED BY <1>1, <2>1 DEF Fill, server
<1>2. CASE PutAnswered(Takes(Sent))
  <2>1. Sent \in Chunks /\ (Sent.last => Sent.hi = Size) /\ Takes(Sent)
    BY <1>2 DEF PutAnswered, Sent, Chunks, TypeOK, PrefixInv
  <2>2. published' => persisted' = Size
    BY <2>1, TakesToTheEnd
  <2> QED BY <1>2, <2>2 DEF PutAnswered, chunk
<1>3. CASE PutInterrupted
  BY <1>3 DEF PutInterrupted, Raise, Sent, chunk
<1>4. CASE LateChunk
  <2>1. late \in Chunks /\ (late.last => late.hi = Size) /\ Takes(late)
    BY <1>4 DEF LateChunk, Chunks, TypeOK
  <2>2. published' => persisted' = Size
    BY <2>1, TakesToTheEnd
  <2> QED BY <1>4, <2>2 DEF LateChunk, chunk
<1>5. CASE PutRejected \/ StatusFails \/ RangeError \/ Complete \/ Resume
  BY <1>5 DEF PutRejected, StatusFails, RangeError, Complete, Resume, Raise, server
<1>6. CASE StatusAnswered
  BY <1>6 DEF StatusAnswered, chunk, server
<1>7. CASE Abort
  BY <1>7 DEF Abort
<1>8. CASE UNCHANGED vars
  BY <1>8 DEF vars, chunk, server
<1> QED
  BY <1>1, <1>2, <1>3, <1>4, <1>5, <1>6, <1>7, <1>8 DEF Next

\* The server takes the object for complete only when it has the whole stream.
THEOREM EndInvariant ==
    ASSUME ShortReads = FALSE PROVE Spec => [](TypeOK /\ PrefixInv /\ EndInv)
<1>1. Init => EndInv
  BY DEF Init, EndInv
<1>2. TypeOK /\ PrefixInv /\ EndInv /\ [Next]_vars => EndInv'
  BY EndStep, ShortReads = FALSE
<1> QED
  BY <1>1, <1>2, PrefixInvariant, PTL DEF Spec

\* A finalized object is the stream.
THEOREM ObjectIsStream ==
    ASSUME ShortReads = FALSE PROVE Spec => []PublishedIsStream
<1>1. TypeOK /\ PrefixInv /\ EndInv => PublishedIsStream
  BY DEF TypeOK, PrefixInv, EndInv, PublishedIsStream
<1> QED BY <1>1, EndInvariant, ShortReads = FALSE, PTL

\* The protocol implements the atomic upload: the object becomes new when its last
\* byte is stored, and the call succeeds only then.
THEOREM UploadRefinement ==
    ASSUME ShortReads = FALSE PROVE Spec => ImplementsUpload
<1>1. Init => Upload!Init
  BY DEF Init, Upload!Init
<1>2. /\ TypeOK /\ PrefixInv /\ PublishedIsStream /\ PublishedIsStream'
      /\ [Next]_vars
      => [Upload!Next]_(Upload!vars)
  <2> SUFFICES ASSUME TypeOK, PrefixInv, PublishedIsStream, PublishedIsStream',
                      [Next]_vars
               PROVE  [Upload!Next]_(Upload!vars)
    OBVIOUS
  <2> USE DEF Upload!Next, Upload!Publish, Upload!Succeed, Upload!Fail, Upload!vars, Raise
  <2>1. CASE PutAnswered(Takes(Sent)) \/ LateChunk
    <3>1. published => published'
      BY <2>1 DEF PutAnswered, LateChunk, Takes
    <3>2. \/ phase = "put" /\ phase' = "reply"
          \/ phase' = phase
      BY <2>1 DEF PutAnswered, LateChunk
    <3>3. CASE published = published'
      BY <3>2, <3>3
    <3>4. CASE published # published'
      BY <3>1, <3>2, <3>4 DEF TypeOK
    <3> QED BY <3>3, <3>4
  <2>2. CASE Complete
    BY <2>2 DEF Complete, PrefixInv, server, Finished
  <2>3. CASE Abort
    BY <2>3 DEF Abort
  <2>4. CASE UNCHANGED vars
    BY <2>4 DEF vars, server
  <2>5. ASSUME Fill \/ PutInterrupted \/ PutRejected \/ StatusAnswered
               \/ StatusFails \/ Resume \/ RangeError
        PROVE  /\ published' = published
               /\ phase \notin {"done", "failed"} /\ phase' \notin {"done", "failed"}
    BY <2>5 DEF Fill, PutInterrupted, PutRejected, StatusAnswered, StatusFails,
                Resume, RangeError, server
  <2> QED
    BY <2>1, <2>2, <2>3, <2>4, <2>5 DEF Next
<1> QED
  BY <1>1, <1>2, EndInvariant, ObjectIsStream, ShortReads = FALSE, PTL
     DEF Spec, ImplementsUpload, Upload!Spec
=============================================================================
