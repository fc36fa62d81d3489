---------------------------- MODULE MultipartUpload ----------------------------
(***************************************************************************)
(* FilesExt._perform_multipart_upload of mixins/files.py, from the moment   *)
(* upload() has read the first bytes and the server has opened a multipart *)
(* session, to the return of upload() or the abort of the session.         *)
(*                                                                         *)
(* Bytes are named by their position in the stream.  The buffer only grows *)
(* at its end and shrinks at its front, so that it always is the interval  *)
(* of the stream that ends at the reader's position; a part, and the ETag  *)
(* that identifies it, is such an interval too.                            *)
(***************************************************************************)
EXTENDS Integers

CONSTANTS
    Size,           \* length of the stream
    MinStream,      \* multipart_upload_min_stream_size: what upload() pre-read
    ChunkSize,      \* multipart_upload_chunk_size
    BatchCount,     \* multipart_upload_batch_url_count
    MaxRetries,     \* multipart_upload_max_retries
    ShortReads,     \* the stream's read(n) may return less than n bytes
    MaxAttempts     \* bound: attempts retried() makes before its deadline

ASSUME ConstantsAssumption ==
    /\ Size \in Nat /\ MinStream \in Nat \ {0} /\ MinStream =< Size
    /\ ChunkSize \in Nat \ {0} /\ BatchCount \in Nat \ {0}
    /\ MaxRetries \in Nat /\ MaxAttempts \in Nat \ {0}
    /\ ShortReads \in BOOLEAN

VARIABLES
    phase,      \* where the client stands
    pos,        \* bytes read from the stream
    buffer,     \* length of the buffer
    part,       \* current_part_number
    etags,      \* part number -> ETag, for the parts believed uploaded
    urls,       \* upload URLs of the batch not used yet: the first one's part
                \* number and how many there are
    chunkPos,   \* position inside the chunk being sent
    retryCount, \* retry_count: URLs that expired since the last uploaded part
    attempts,   \* attempts of the request that is being retried
    stored,     \* server: part number -> bytes, for the parts received
    completing, \* server: a request to complete the upload has been sent
    object      \* server: the published parts, or NoObject

reader == <<pos, buffer>>
server == <<stored, completing, object>>
vars == <<phase, reader, part, etags, urls, chunkPos, retryCount, attempts, server>>

Phases == {"batch", "request", "part", "put", "retry", "complete", "abort",
           "done", "failed"}

Interval == [lo : Nat, hi : Nat]
NoParts == [k \in {} |-> [lo |-> 0, hi |-> 0]]
NoObject == [k \in {0} |-> [lo |-> 0, hi |-> 0]]

\* The first byte in the buffer, and the chunk cut off its front.
Offset == pos - buffer
ChunkLength == IF buffer < ChunkSize THEN buffer ELSE ChunkSize
Chunk == [lo |-> Offset + chunkPos, hi |-> Offset + ChunkLength]

With(f, n, value) ==
    [k \in DOMAIN f \cup {n} |-> IF k = n THEN value ELSE f[k]]

\* The parts, put together in the order of their numbers, are the first n bytes
\* of the stream.
Tile(f, n) ==
    /\ \A k \in DOMAIN f : f[k].lo < f[k].hi /\ f[k].hi =< n
    /\ \A k, l \in DOMAIN f : k < l => f[k].hi =< f[l].lo
    /\ \A i \in 0..(n - 1) : \E k \in DOMAIN f : f[k].lo =< i /\ i < f[k].hi

-----------------------------------------------------------------------------
(* Reading the stream                                                      *)

\* input_stream.read(n): nothing at the end of the stream, else n bytes, or as
\* many as there are, or fewer if the stream reads short.
Reads(n) ==
    LET most == IF Size - pos < n THEN Size - pos ELSE n
    IN  IF ShortReads /\ most > 0 THEN 1..most ELSE {most}

\* _fill_buffer(buffer, ChunkSize, stream)
FillBuffer ==
    IF buffer < ChunkSize
    THEN \E n \in Reads(ChunkSize - buffer) :
            pos' = pos + n /\ buffer' = buffer + n
    ELSE UNCHANGED reader

-----------------------------------------------------------------------------
(* The loops over batches and parts                                        *)

\* An exception leaves the loops for the `except' clause of upload().
Raise == phase' = "abort"

\* The head of the outer loop; nothing left to send ends it.
StartBatch ==
    /\ phase = "batch"
    /\ FillBuffer
    /\ phase' = IF buffer' = 0 THEN "complete" ELSE "request"
    /\ completing' = (buffer' = 0)
    /\ attempts' = 0
    /\ UNCHANGED <<part, etags, urls, chunkPos, retryCount, stored, object>>

\* create-upload-part-urls: the server answers with up to `count' URLs for the
\* parts from start_part_number on.  No URL at all, or an error after the retries
\* of _api.do, is an exception.
RequestUrls ==
    /\ phase = "request"
    /\ \/ /\ \E n \in 1..BatchCount : urls' = [first |-> part, left |-> n]
          /\ phase' = "part"
       \/ Raise /\ UNCHANGED urls
    /\ UNCHANGED <<reader, part, etags, chunkPos, retryCount, attempts, server>>

\* The head of the inner loop; an empty buffer is the end of the stream.
StartPart ==
    /\ phase = "part" /\ urls.left > 0
    /\ FillBuffer
    /\ phase' = IF buffer' = 0 THEN "complete" ELSE "put"
    /\ completing' = (buffer' = 0)
    /\ chunkPos' = 0 /\ attempts' = 0
    /\ UNCHANGED <<part, etags, urls, retryCount, stored, object>>

EndBatch ==
    /\ phase = "part" /\ urls.left = 0
    /\ phase' = "batch"
    /\ UNCHANGED <<reader, part, etags, urls, chunkPos, retryCount, attempts, server>>

\* current_part_number += 1, and the loop goes on with the next URL.
NextUrl ==
    /\ part' = part + 1
    /\ urls' = [first |-> urls.first + 1, left |-> urls.left - 1]
    /\ phase' = "part"

-----------------------------------------------------------------------------
(* PUT of one part, under _retry_idempotent_operation                      *)

\* The server stores what is sent to the URL of its part.
Store == stored' = With(stored, urls.first, Chunk)

\* buffer[actual_chunk_length:], and a faulty variant that forgets that the last
\* chunk is shorter than the others.
DiscardFullChunk == buffer' = buffer - ChunkSize
Discard == buffer' = buffer - ChunkLength

\* 200 or 201: the ETag is the server's name for what it stored.
PutSucceeds ==
    /\ phase = "put"
    /\ Store
    /\ etags' = With(etags, part, stored'[urls.first])
    /\ Discard
    /\ retryCount' = 0
    /\ NextUrl
    /\ UNCHANGED <<pos, chunkPos, attempts, completing, object>>

\* Faulty: the deadline starts anew with every attempt.
PutFailsUncounted ==
    /\ phase = "put"
    /\ Store \/ UNCHANGED stored
    /\ chunkPos' \in chunkPos..ChunkLength
    /\ phase' = "retry"
    /\ UNCHANGED <<reader, part, etags, urls, retryCount, attempts, completing, object>>

\* A retryable status or a network error, after the server stored the part or
\* before; part of the chunk, or all of it, has been read by then.
PutFails ==
    /\ phase = "put"
    /\ Store \/ UNCHANGED stored
    /\ chunkPos' \in chunkPos..ChunkLength
    /\ attempts' = attempts + 1
    /\ phase' = "retry"
    /\ UNCHANGED <<reader, part, etags, urls, retryCount, completing, object>>

\* Faulty: the chunk is not rewound.
RetryNoRewind ==
    /\ phase = "retry"
    /\ (attempts < MaxAttempts /\ phase' = "put") \/ Raise
    /\ UNCHANGED <<reader, part, etags, urls, chunkPos, retryCount, attempts, server>>

\* retried(): rewind and try again, or the deadline has passed.
Retry ==
    /\ phase = "retry"
    /\ \/ /\ attempts < MaxAttempts
          /\ chunkPos' = 0
          /\ phase' = "put"
       \/ Raise /\ UNCHANGED chunkPos
    /\ UNCHANGED <<reader, part, etags, urls, retryCount, attempts, server>>

\* Faulty: the part keeps its number, though its URL is used up.
UrlExpiredSamePart ==
    /\ phase = "put" /\ retryCount < MaxRetries
    /\ retryCount' = retryCount + 1
    /\ urls' = [first |-> urls.first + 1, left |-> urls.left - 1]
    /\ phase' = "part"
    /\ UNCHANGED <<reader, part, etags, chunkPos, attempts, server>>

\* Faulty: the bytes are discarded with the URL.
UrlExpiredDropsChunk ==
    /\ phase = "put" /\ retryCount < MaxRetries
    /\ retryCount' = retryCount + 1
    /\ Discard /\ NextUrl
    /\ UNCHANGED <<pos, etags, chunkPos, attempts, server>>

\* _is_url_expired_response: the bytes stay in the buffer, for the next URL.
UrlExpired ==
    /\ phase = "put"
    /\ IF retryCount < MaxRetries
       THEN retryCount' = retryCount + 1 /\ NextUrl
       ELSE Raise /\ UNCHANGED <<retryCount, part, urls>>
    /\ UNCHANGED <<reader, etags, chunkPos, attempts, server>>

\* Any other status, and errors that are not retryable.
PutRejected ==
    /\ phase = "put"
    /\ Raise
    /\ UNCHANGED <<reader, part, etags, urls, chunkPos, retryCount, attempts, server>>

-----------------------------------------------------------------------------
(* Completing and aborting                                                 *)

\* complete-upload, at the server: it publishes the parts it is told of if it
\* has them under these ETags, be it after the client has given up waiting.
\* Completing again changes nothing.
Publish ==
    /\ completing /\ object = NoObject
    /\ \A k \in DOMAIN etags : k \in DOMAIN stored /\ stored[k] = etags[k]
    /\ object' = etags
    /\ UNCHANGED <<phase, reader, part, etags, urls, chunkPos, retryCount, attempts,
                   stored, completing>>

CompleteSucceeds ==
    /\ phase = "complete" /\ object # NoObject
    /\ phase' = "done"
    /\ UNCHANGED <<reader, part, etags, urls, chunkPos, retryCount, attempts, server>>

\* Faulty: giving up is not reported.
CompleteFailsSilently ==
    /\ phase = "complete"
    /\ attempts' = attempts + 1
    /\ (attempts' < MaxAttempts /\ UNCHANGED phase) \/ phase' = "done"
    /\ UNCHANGED <<reader, part, etags, urls, chunkPos, retryCount, server>>

\* The answer is an error or is lost, before the server published the object or
\* after; _api.do tries again or gives up.
CompleteFails ==
    /\ phase = "complete"
    /\ attempts' = attempts + 1
    /\ \/ attempts' < MaxAttempts /\ UNCHANGED phase
       \/ Raise
    /\ UNCHANGED <<reader, part, etags, urls, chunkPos, retryCount, server>>

\* _abort_multipart_upload is best effort; the exception is raised either way.  A
\* session that was completed cannot be aborted any more.
Abort ==
    /\ phase = "abort"
    /\ stored' \in {stored, IF object = NoObject THEN NoParts ELSE stored}
    /\ phase' = "failed"
    /\ UNCHANGED <<reader, part, etags, urls, chunkPos, retryCount, attempts,
                   completing, object>>

-----------------------------------------------------------------------------
Init ==
    /\ phase = "batch"
    /\ pos = MinStream /\ buffer = MinStream
    /\ part = 1 /\ etags = NoParts
    /\ urls = [first |-> 1, left |-> 0]
    /\ chunkPos = 0 /\ retryCount = 0 /\ attempts = 0
    /\ stored = NoParts /\ completing = FALSE /\ object = NoObject

Next ==
    \/ StartBatch \/ RequestUrls \/ StartPart \/ EndBatch
    \/ PutSucceeds \/ PutFails \/ Retry \/ UrlExpired \/ PutRejected
    \/ Publish \/ CompleteSucceeds \/ CompleteFails \/ Abort

Spec == Init /\ [][Next]_vars

\* The client runs on, and every request is answered or times out.
FairSpec == Spec /\ WF_vars(Next)

-----------------------------------------------------------------------------
(* Properties                                                              *)

IsParts(f) == \A k \in DOMAIN f : k \in Nat /\ f[k] \in Interval

\* The variables have their types; the buffer never has a negative length, though the
\* last chunk is shorter than the others.
TypeOK ==
    /\ phase \in Phases
    /\ pos \in Nat /\ buffer \in Nat
    /\ part \in Nat /\ urls \in [first : Nat, left : Nat]
    /\ chunkPos \in Nat /\ retryCount \in Nat /\ attempts \in Nat
    /\ completing \in BOOLEAN
    /\ IsParts(etags) /\ IsParts(stored) /\ IsParts(object)

\* `assert current_part_number == upload_part_url["part_number"]' never fails,
\* whatever URLs expire: the count of parts and the server's list move together.
UrlMatchesPart == phase = "put" => part = urls.first

\* "The contents of the resulting file will be exactly the bytes sent"
\* (docstring of upload()): whatever was resent, whatever part numbers were
\* skipped when URLs expired, a published object is the whole stream in order.
PublishedIsStream == object # NoObject => Tile(object, Size)

\* "Since operation is idempotent it's safe to retry it" (docstring of
\* _retry_idempotent_operation): sending a part again never changes what the
\* server holds under its number.
RetriesAreIdempotent ==
    [][\A k \in DOMAIN stored \cap DOMAIN stored' : stored'[k] = stored[k]]_vars

\* Why published objects are whole: the parts known to be uploaded always are
\* the bytes of the stream in front of the buffer, numbered in order and below
\* the current part; nothing is left when the upload is completed.
UploadInv ==
    /\ buffer =< pos /\ pos =< Size
    /\ phase \in {"part", "put", "retry"} => urls.first = part
    /\ phase \in {"put", "retry"} => buffer > 0 /\ urls.left > 0
    /\ phase = "put" => chunkPos = 0
    /\ \A k \in DOMAIN etags : k < part
    /\ Tile(etags, Offset)
    /\ phase = "complete" => completing
    /\ completing => Offset = Size /\ phase \in {"complete", "abort", "done", "failed"}
    /\ PublishedIsStream

\* Why retries are idempotent: only the part being sent can be stored already,
\* and then it is this very chunk.
StoredInv ==
    \A k \in DOMAIN stored :
        /\ k =< part
        /\ phase \in {"batch", "request", "part"} => k < part
        /\ phase \in {"put", "retry"} /\ k = part =>
                stored[k] = [lo |-> Offset, hi |-> Offset + ChunkLength]

\* The upload ends: only progress in the stream resets the count of expired URLs.
Terminates == <>(phase \in {"done", "failed"})

\* The protocol does what upload() promises.
Upload == INSTANCE AtomicUpload WITH
    object  <- IF object = NoObject THEN "old"
               ELSE IF Tile(object, Size) THEN "new" ELSE "mixed",
    outcome <- CASE phase = "done" -> "ok"
                 [] phase = "failed" -> "error"
                 [] OTHER -> "pending"

ImplementsUpload == Upload!Spec
=============================================================================
