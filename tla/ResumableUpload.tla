---------------------------- MODULE ResumableUpload ----------------------------
(***************************************************************************)
(* FilesExt._perform_resumable_upload of mixins/files.py, from the moment   *)
(* it has the URL of the session, with the bytes upload() has pre-read, to  *)
(* its return or the abort of the session.                                 *)
(*                                                                         *)
(* Bytes are named by their position in the stream.  The server keeps a    *)
(* growing prefix of the object and says how far it goes; it may store     *)
(* less of a chunk than was sent, and it may go on storing a chunk after   *)
(* the client has given up waiting for the answer.                         *)
(***************************************************************************)
EXTENDS Integers

CONSTANTS
    Size,           \* length of the stream
    MinStream,      \* multipart_upload_min_stream_size: what upload() pre-read
    ChunkSize,      \* multipart_upload_chunk_size
    ReadAhead,      \* _multipart_upload_read_ahead_bytes
    MaxRetries,     \* multipart_upload_max_retries
    ShortReads      \* the stream's read(n) may return less than n bytes

ASSUME ConstantsAssumption ==
    /\ Size \in Nat /\ MinStream \in Nat \ {0} /\ MinStream =< Size
    /\ ChunkSize \in Nat \ {0} /\ ReadAhead \in Nat \ {0}
    /\ MaxRetries \in Nat /\ ShortReads \in BOOLEAN

VARIABLES
    phase,      \* where the client stands
    pos,        \* bytes read from the stream
    buffer,     \* length of the buffer
    uploaded,   \* uploaded_bytes_count: bytes at its front to be discarded
    offset,     \* chunk_offset
    length,     \* actual_chunk_length
    last,       \* file_size was announced: this is the last chunk
    retryCount, \* retry_count: interrupted requests since the last clean answer
    confirmed,  \* the last byte an answer 308 confirms, -1 if it has no Range,
                \* or Finished for an answer 200
    content,    \* server: offset -> byte, for the bytes stored
    persisted,  \* server: how many these are
    published,  \* server: the object has been finalized
    late        \* server: the chunk of an unanswered request, or NoChunk

reader == <<pos, buffer>>
chunk == <<length, last>>
server == <<content, persisted, published, late>>
vars == <<phase, reader, uploaded, offset, chunk, retryCount, confirmed, server>>

Phases == {"fill", "put", "status", "reply", "abort", "done", "failed"}
Finished == -2
NoChunk == [lo |-> 0, hi |-> 0, data |-> 0, last |-> FALSE]

-----------------------------------------------------------------------------
(* The server                                                              *)

\* The chunk the client is sending: Content-Range says lo..hi-1, and the bytes in
\* the body start at position `data' of the stream.
Sent == [lo |-> offset, hi |-> offset + length, data |-> pos - buffer, last |-> last]

\* The server stores the chunk c up to offset n.  Bytes it has are not stored
\* again; the end of the last chunk finalizes the object.
StoreUpTo(c, n) ==
    /\ content' = [i \in 0..(n - 1) |->
                      IF i < persisted THEN content[i] ELSE c.data + (i - c.lo)]
    /\ persisted' = n
    /\ published' = (c.last /\ n = c.hi)

\* Nothing is stored of a chunk that starts past the end, nor after the end.
Takes(c) ==
    IF published \/ c.lo > persisted \/ c.hi =< persisted
    THEN UNCHANGED <<content, persisted, published>>
    ELSE \E n \in persisted..c.hi : StoreUpTo(c, n)

TakesAll(c) ==
    /\ ~published /\ c.lo =< persisted /\ persisted < c.hi
    /\ StoreUpTo(c, c.hi)

\* The answer to a chunk or to a status query, as the server stands.
Answer(persistedNow, publishedNow) ==
    IF publishedNow THEN Finished ELSE persistedNow - 1

-----------------------------------------------------------------------------
(* Reading the stream                                                      *)

Reads(n) ==
    LET most == IF Size - pos < n THEN Size - pos ELSE n
    IN  IF ShortReads /\ most > 0 THEN 1..most ELSE {most}

\* Faulty: no read-ahead, the end of the stream is found one chunk late.
MissingNoReadAhead ==
    LET missing == ChunkSize - (buffer - uploaded)
    IN  IF missing > 0 THEN missing ELSE 0

\* bytes_to_read
Missing ==
    LET missing == ChunkSize + ReadAhead - (buffer - uploaded)
    IN  IF missing > 0 THEN missing ELSE 0

\* The head of the loop: drop what was uploaded, read up to one chunk and the
\* read-ahead.  A read that returns less is taken for the end of the stream.
Fill ==
    /\ phase = "fill"
    /\ \E n \in Reads(Missing) :
          /\ pos' = pos + n
          /\ buffer' = buffer - uploaded + n
          /\ last' = (n < Missing)
    /\ length' = IF last' THEN buffer' ELSE ChunkSize
    /\ phase' = "put"
    /\ UNCHANGED <<uploaded, offset, retryCount, confirmed, server>>

-----------------------------------------------------------------------------
(* Sending a chunk                                                         *)

Raise == phase' = "abort"

\* The server takes some of the chunk and answers 308 or 200; any answer that is
\* not retryable resets retry_count.
PutAnswered(stores) ==
    /\ phase = "put"
    /\ stores
    /\ confirmed' = Answer(persisted', published')
    /\ retryCount' = 0
    /\ late' = NoChunk
    /\ phase' = "reply"
    /\ UNCHANGED <<reader, uploaded, offset, chunk>>

\* Faulty: one retry too many.
PutInterruptedOffByOne ==
    /\ phase = "put"
    /\ late' \in {Sent, NoChunk}
    /\ IF retryCount =< MaxRetries
       THEN retryCount' = retryCount + 1 /\ phase' = "status"
       ELSE Raise /\ UNCHANGED retryCount
    /\ UNCHANGED <<reader, uploaded, offset, chunk, confirmed, content, persisted,
                   published>>

\* A retryable status or network error: the server is asked how far it got, unless
\* too many requests have been interrupted.  The chunk may still be under way.
PutInterrupted ==
    /\ phase = "put"
    /\ late' \in {Sent, NoChunk}
    /\ IF retryCount < MaxRetries
       THEN retryCount' = retryCount + 1 /\ phase' = "status"
       ELSE Raise /\ UNCHANGED retryCount
    /\ UNCHANGED <<reader, uploaded, offset, chunk, confirmed, content, persisted,
                   published>>

\* Any other status (412 for an object that exists included), any other error.
PutRejected ==
    /\ phase = "put"
    /\ Raise
    /\ UNCHANGED <<reader, uploaded, offset, chunk, retryCount, confirmed, server>>

\* retrieve_upload_status, with its retries.  The status may be an earlier one: the
\* server that answers need not have seen the latest chunk.
StatusAnswered ==
    /\ phase = "status"
    /\ confirmed' \in {Answer(persisted, published)}
                        \cup {Answer(n, FALSE) : n \in 0..(persisted - 1)}
    /\ phase' = "reply"
    /\ UNCHANGED <<reader, uploaded, offset, chunk, retryCount, server>>

\* Faulty: having no status counts as success.
StatusFailsSilently ==
    /\ phase = "status"
    /\ phase' = "done"
    /\ UNCHANGED <<reader, uploaded, offset, chunk, retryCount, confirmed, server>>

\* No status could be had: the interrupted request is an error after all.
StatusFails ==
    /\ phase = "status"
    /\ Raise
    /\ UNCHANGED <<reader, uploaded, offset, chunk, retryCount, confirmed, server>>

\* The server goes on with a chunk nobody waits for any more.
LateChunk ==
    /\ late # NoChunk
    /\ Takes(late)
    /\ late' = NoChunk
    /\ UNCHANGED <<phase, reader, uploaded, offset, chunk, retryCount, confirmed>>

-----------------------------------------------------------------------------
(* The answer                                                              *)

\* 200 or 201; before the end of the stream it is an error.
Complete ==
    /\ phase = "reply" /\ confirmed = Finished
    /\ IF last THEN phase' = "done" ELSE Raise
    /\ UNCHANGED <<reader, uploaded, offset, chunk, retryCount, confirmed, server>>

\* `if confirmed_offset': neither a missing Range nor byte 0 alone counts.
Confirms == confirmed > 0

InRange ==
    IF Confirms
    THEN offset - 1 =< confirmed /\ confirmed =< offset + length - 1
    ELSE offset = 0

\* Faulty: an accepted chunk is taken to be stored completely, resumed from where
\* it began, or dropped from the buffer whatever was confirmed.
ResumeWholeChunk ==
    /\ phase = "reply" /\ confirmed # Finished /\ InRange
    /\ offset' = offset + length
    /\ uploaded' = length
    /\ phase' = "fill"
    /\ UNCHANGED <<reader, chunk, retryCount, confirmed, server>>

ResumeInPlace ==
    /\ phase = "reply" /\ confirmed # Finished /\ InRange
    /\ uploaded' = 0
    /\ phase' = "fill"
    /\ UNCHANGED <<reader, offset, chunk, retryCount, confirmed, server>>

ResumeDropsChunk ==
    /\ phase = "reply" /\ confirmed # Finished /\ InRange
    /\ offset' = IF Confirms THEN confirmed + 1 ELSE offset
    /\ uploaded' = length
    /\ phase' = "fill"
    /\ UNCHANGED <<reader, chunk, retryCount, confirmed, server>>

\* 308 with a Range this client can resume from.
Resume ==
    /\ phase = "reply" /\ confirmed # Finished /\ InRange
    /\ offset' = IF Confirms THEN confirmed + 1 ELSE offset
    /\ uploaded' = offset' - offset
    /\ phase' = "fill"
    /\ UNCHANGED <<reader, chunk, retryCount, confirmed, server>>

\* 308 with a Range outside of the chunk.
RangeError ==
    /\ phase = "reply" /\ confirmed # Finished /\ ~InRange
    /\ Raise
    /\ UNCHANGED <<reader, uploaded, offset, chunk, retryCount, confirmed, server>>

\* _abort_resumable_upload is best effort; the exception is raised either way.
Abort ==
    /\ phase = "abort"
    /\ phase' = "failed"
    /\ late' \in {late, NoChunk}
    /\ UNCHANGED <<reader, uploaded, offset, chunk, retryCount, confirmed,
                   content, persisted, published>>

-----------------------------------------------------------------------------
Init ==
    /\ phase = "fill"
    /\ pos = MinStream /\ buffer = MinStream /\ uploaded = 0
    /\ offset = 0 /\ length = 0 /\ last = FALSE
    /\ retryCount = 0 /\ confirmed = -1
    /\ content = [i \in {} |-> 0] /\ persisted = 0 /\ published = FALSE
    /\ late = NoChunk

Next ==
    \/ Fill
    \/ PutAnswered(Takes(Sent)) \/ PutInterrupted \/ PutRejected
    \/ StatusAnswered \/ StatusFails \/ LateChunk
    \/ Complete \/ Resume \/ RangeError \/ Abort

Spec == Init /\ [][Next]_vars

\* The client runs on and requests are answered or time out; a server that is sent
\* chunks again and again stores all of one again and again.
FairSpec == Spec /\ WF_vars(Next) /\ SF_vars(PutAnswered(TakesAll(Sent)))

-----------------------------------------------------------------------------
(* Properties                                                              *)

\* The variables have their types, and no more than multipart_upload_max_retries
\* requests in a row are interrupted before the upload gives up.
TypeOK ==
    /\ phase \in Phases
    /\ pos \in Nat /\ buffer \in Nat /\ uploaded \in Nat
    /\ offset \in Nat /\ length \in Nat /\ last \in BOOLEAN
    /\ retryCount \in 0..MaxRetries /\ confirmed \in Int
    /\ persisted \in Nat /\ content \in [0..(persisted - 1) -> Nat]
    /\ published \in BOOLEAN
    /\ late \in [lo : Nat, hi : Nat, data : Nat, last : BOOLEAN]

\* The body of every request is the bytes its Content-Range announces, and it
\* starts where the server can continue: the buffer, the bytes discarded from it
\* and the confirmed offset agree, whatever was confirmed only in part.
NoByteSkipped ==
    phase = "put" => pos - buffer = offset /\ offset =< persisted

\* "It's not possible to upload an empty chunk" (comment in the code): thanks to
\* the read-ahead there always is a byte left to be sent.
NoEmptyChunk == phase = "put" => length > 0

\* "The contents of the resulting file will be exactly the bytes sent"
\* (docstring of upload()).
PublishedIsStream ==
    published => persisted = Size /\ \A i \in 0..(Size - 1) : content[i] = i

\* Why: an inductive invariant.  What the server has is a prefix of the stream, the
\* buffer goes on where it ends or earlier, and some of the stream is left for the
\* next chunk; a chunk with the last byte announces the end.
PrefixInv ==
    /\ buffer =< pos /\ pos =< Size
    /\ offset =< persisted /\ persisted =< Size
    /\ \A i \in 0..(persisted - 1) : content[i] = i
    /\ persisted = Size => published
    /\ phase = "fill" =>
          uploaded =< buffer /\ pos - buffer + uploaded = offset /\ offset < Size
    /\ phase \in {"put", "status", "reply"} =>
          /\ pos - buffer = offset
          /\ 0 < length /\ length =< buffer
          /\ offset + length = Size => last
    /\ phase = "reply" =>
          \/ confirmed = Finished /\ published
          \/ -1 =< confirmed /\ confirmed < persisted /\ confirmed < Size - 1
    /\ phase = "done" => published
    /\ late # NoChunk =>
          late.data = late.lo /\ late.hi =< Size /\ (late.hi = Size => late.last)

\* For streams that read short at their end only: nothing else announces the end.
EndInv ==
    /\ published => persisted = Size
    /\ phase \in {"put", "status", "reply"} /\ last => offset + length = Size
    /\ late # NoChunk /\ late.last => late.hi = Size

\* The upload ends, with success or an error.
Terminates == <>(phase \in {"done", "failed"})

\* The protocol does what upload() promises.
Upload == INSTANCE AtomicUpload WITH
    object  <- IF ~published THEN "old"
               ELSE IF PublishedIsStream THEN "new" ELSE "mixed",
    outcome <- CASE phase = "done" -> "ok"
                 [] phase = "failed" -> "error"
                 [] OTHER -> "pending"

ImplementsUpload == Upload!Spec
=============================================================================
