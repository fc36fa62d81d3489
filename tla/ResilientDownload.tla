--------------------------- MODULE ResilientDownload ---------------------------
(***************************************************************************)
(* A file being read from the stream FilesExt.download returned:           *)
(* _StreamingResponse (_base_client.py) on top of _ResilientResponse and   *)
(* _ResilientIterator (mixins/files.py), which asks for the rest of the    *)
(* file when the connection breaks.                                        *)
(*                                                                         *)
(* A byte is named by the version of the file it belongs to and by its     *)
(* position there.  One thread uses the stream; the file may be replaced   *)
(* at any time.                                                            *)
(***************************************************************************)
EXTENDS Integers, Sequences

CONSTANTS
    MaxVersion,     \* bound: how many versions the file has, from 1
    SizeOf,         \* version -> length in bytes
    ModifiedAt,     \* version -> its Last-Modified, in whole seconds
    ChunkSize,      \* streaming_buffer_size
    ReadSizes,      \* the arguments of read(); negative ones read to the end
    MaxRecovers,    \* files_api_client_download_max_total_recovers
    MaxStuck,       \* ..._max_total_recovers_without_progressing
    NoLimit,        \* None, for either of them
    NoDate          \* the server sent no Last-Modified

Versions == 1..MaxVersion

ASSUME ConstantsAssumption ==
    /\ MaxVersion \in Nat \ {0}
    /\ SizeOf \in [Versions -> Nat] /\ ModifiedAt \in [Versions -> Nat]
    /\ \A v, w \in Versions : v < w => ModifiedAt[v] =< ModifiedAt[w]
    /\ ChunkSize \in Nat \ {0} /\ ReadSizes \subseteq Int
    /\ NoLimit \notin Nat /\ NoDate \notin Nat
    /\ MaxRecovers \in Nat \cup {NoLimit} /\ MaxStuck \in Nat \cup {NoLimit}

VARIABLES
    version,        \* server: the current version of the file
    conn,           \* the response being read: its version, the position of its
                    \* next byte, and whether its generator is still alive
    lastModified,   \* _file_last_modified, of the first response
    phase,          \* "idle", "read" in the loop of a read, "recover"
    kind,           \* of the read: "all", "upto" n bytes, a "chunk" by iteration
    left,           \* remaining_bytes of a read "upto"
    opened,         \* _content has been created
    closed,         \* _closed
    buffer,         \* _buffer
    res,            \* res: what the read in progress has collected
    caller,         \* all the bytes returned to the caller, one after the other
    offset,         \* _offset
    total,          \* _total_recovers_count
    stuck,          \* _recovers_without_progressing_count
    failed,         \* history: some read has raised an exception
    ended           \* history: some read has reported the end of the stream

read == <<phase, kind, left>>
data == <<buffer, res, caller>>
recovers == <<total, stuck>>
remote == <<version, lastModified>>
vars == <<remote, conn, read, opened, closed, data, offset, recovers, failed, ended>>

\* Bytes lo..hi-1 of version v.
Bytes(v, lo, hi) == [i \in 1..(hi - lo) |-> [ver |-> v, pos |-> lo + i - 1]]
File(v) == Bytes(v, 0, SizeOf[v])

-----------------------------------------------------------------------------
(* The caller                                                              *)

\* The file is replaced, in one step.
Overwrite ==
    /\ version < MaxVersion
    /\ version' = version + 1
    /\ UNCHANGED <<lastModified, conn, read, opened, closed, data, offset, recovers,
                   failed, ended>>

\* read(n), which creates the iterator the first time.
Read(n) ==
    /\ phase = "idle" /\ ~closed
    /\ opened' = TRUE
    /\ kind' = IF n < 0 THEN "all" ELSE "upto"
    /\ left' = IF n < 0 THEN 0 ELSE n
    /\ phase' = "read"
    /\ UNCHANGED <<remote, conn, closed, data, offset, recovers, failed, ended>>

\* One step of a loop over the stream: iter(stream) is the chunk iterator itself, which
\* knows nothing of the buffer.  Callers that leave part of a chunk behind in a read(),
\* and then iterate, skip it; they are left out.
Iterate ==
    /\ phase = "idle" /\ ~closed
    /\ opened
    /\ buffer = <<>>
    /\ kind' = "chunk" /\ left' = 0
    /\ phase' = "read"
    /\ UNCHANGED <<remote, conn, opened, closed, data, offset, recovers, failed, ended>>

\* close(), or __exit__ which empties the buffer too.  Before the first read close()
\* raises an AttributeError: there is no iterator to be closed.
Close ==
    /\ phase = "idle" /\ opened
    /\ closed' = TRUE
    /\ conn' = [conn EXCEPT !.alive = FALSE]
    /\ buffer' \in {buffer, <<>>}
    /\ UNCHANGED <<remote, read, opened, res, caller, offset, recovers, failed, ended>>

-----------------------------------------------------------------------------
(* The loop of read()                                                      *)

Taken == IF kind = "all" \/ left > Len(buffer) THEN Len(buffer) ELSE left

Take ==
    /\ phase = "read" /\ kind # "chunk"
    /\ kind = "all" \/ left > 0
    /\ buffer # <<>>
    /\ res' = res \o SubSeq(buffer, 1, Taken)
    /\ buffer' = SubSeq(buffer, Taken + 1, Len(buffer))
    /\ left' = IF kind = "all" THEN left ELSE left - Taken
    /\ UNCHANGED <<remote, conn, phase, kind, opened, closed, caller, offset, recovers,
                   failed, ended>>

\* The read returns what it has collected.
Return ==
    /\ caller' = caller \o res
    /\ res' = <<>>
    /\ phase' = "idle"

Complete ==
    /\ phase = "read" /\ kind = "upto" /\ left = 0
    /\ Return
    /\ UNCHANGED <<remote, conn, kind, left, opened, closed, buffer, offset, recovers,
                   failed, ended>>

\* The read needs the next chunk: it is in __next__ of the resilient iterator.
Waits ==
    /\ phase = "read"
    /\ kind = "chunk" \/ (buffer = <<>> /\ (kind = "all" \/ left > 0))

\* A chunk of k bytes arrives; iteration hands it to the caller as it is.
Chunk(k) ==
    /\ Waits
    /\ conn.alive /\ conn.pos + k =< SizeOf[conn.ver]
    /\ LET bytes == Bytes(conn.ver, conn.pos, conn.pos + k)
       IN  IF kind = "chunk"
           THEN caller' = caller \o bytes /\ phase' = "idle" /\ UNCHANGED buffer
           ELSE buffer' = bytes /\ UNCHANGED <<caller, phase>>
    /\ conn' = [conn EXCEPT !.pos = @ + k]
    /\ offset' = offset + k
    /\ stuck' = 0
    /\ UNCHANGED <<remote, kind, left, opened, closed, res, total, failed, ended>>

\* StopIteration: the response ends, or its generator has ended before.
End ==
    /\ Waits
    /\ ~conn.alive \/ conn.pos = SizeOf[conn.ver]
    /\ conn' = [conn EXCEPT !.alive = FALSE]
    /\ Return
    /\ ended' = TRUE
    /\ UNCHANGED <<remote, kind, left, opened, closed, buffer, offset, recovers, failed>>

-----------------------------------------------------------------------------
(* Recovery                                                                *)

\* Faulty: the limit is one too high.
ShouldRecoverOffByOne ==
    /\ total # MaxRecovers
    /\ MaxStuck # NoLimit => stuck =< MaxStuck

\* _should_recover
ShouldRecover ==
    /\ total # MaxRecovers
    /\ MaxStuck # NoLimit => stuck < MaxStuck

\* Faulty: giving up looks like the end of the stream.
RaiseAsEnd ==
    /\ Return
    /\ ended' = TRUE
    /\ UNCHANGED failed

\* The exception leaves read(): what this read has collected is dropped.
Raise ==
    /\ phase' = "idle"
    /\ res' = <<>>
    /\ failed' = TRUE
    /\ UNCHANGED <<caller, ended>>

\* Faulty: recoveries are not counted.
BreaksUncounted ==
    /\ Waits /\ conn.alive
    /\ conn' = [conn EXCEPT !.alive = FALSE]
    /\ IF ShouldRecover
       THEN /\ phase' = "recover"
            /\ UNCHANGED <<recovers, res, caller, failed, ended>>
       ELSE Raise /\ UNCHANGED recovers
    /\ UNCHANGED <<remote, kind, left, opened, closed, buffer, offset>>

\* The connection breaks: a RequestException, after which the generator is dead.
Breaks ==
    /\ Waits /\ conn.alive
    /\ conn' = [conn EXCEPT !.alive = FALSE]
    /\ IF ShouldRecover
       THEN /\ total' = total + 1 /\ stuck' = stuck + 1
            /\ phase' = "recover"
            /\ UNCHANGED <<res, caller, failed, ended>>
       ELSE Raise /\ UNCHANGED recovers
    /\ UNCHANGED <<remote, kind, left, opened, closed, buffer, offset>>

\* Faulty: the request has no If-Unmodified-Since.
AnswersAnyVersion == offset = 0 \/ offset < SizeOf[version]

\* The request for bytes offset.. is made and answered: a date is needed unless the
\* offset is 0, and with one the file must not have changed since; a range that
\* starts past the end cannot be satisfied.
Answers ==
    /\ offset = 0 \/ lastModified # NoDate
    /\ lastModified # NoDate => ModifiedAt[version] =< lastModified
    /\ offset = 0 \/ offset < SizeOf[version]

\* Faulty: the file is read from the beginning again.
RecoverFromStart ==
    /\ phase = "recover"
    /\ Answers
    /\ conn' = [ver |-> version, pos |-> 0, alive |-> TRUE]
    /\ phase' = "read"
    /\ UNCHANGED <<remote, kind, left, opened, closed, data, offset, recovers, failed,
                   ended>>

\* _recover returns True.
Recover ==
    /\ phase = "recover"
    /\ Answers
    /\ conn' = [ver |-> version, pos |-> offset, alive |-> TRUE]
    /\ phase' = "read"
    /\ UNCHANGED <<remote, kind, left, opened, closed, data, offset, recovers, failed,
                   ended>>

\* _recover returns False, whatever went wrong.
RecoverFails ==
    /\ phase = "recover"
    /\ Raise
    /\ UNCHANGED <<remote, conn, kind, left, opened, closed, buffer, offset, recovers>>

-----------------------------------------------------------------------------
\* What download() returns.
Init ==
    /\ version = 1
    /\ conn = [ver |-> 1, pos |-> 0, alive |-> TRUE]
    /\ lastModified \in {ModifiedAt[1], NoDate}
    /\ phase = "idle" /\ kind = "all" /\ left = 0
    /\ opened = FALSE /\ closed = FALSE
    /\ buffer = <<>> /\ res = <<>> /\ caller = <<>>
    /\ offset = 0 /\ total = 0 /\ stuck = 0
    /\ failed = FALSE /\ ended = FALSE

\* A step of a read that has begun.
Step ==
    \/ Take \/ Complete
    \/ \E k \in 1..ChunkSize : Chunk(k)
    \/ End \/ Breaks \/ Recover \/ RecoverFails

Next ==
    \/ Overwrite
    \/ \E n \in ReadSizes : Read(n)
    \/ Iterate \/ Close
    \/ Step

Spec == Init /\ [][Next]_vars

\* The client runs on, and every request and every wait for data has a timeout.
FairSpec == Spec /\ WF_vars(Step)

-----------------------------------------------------------------------------
(* Properties                                                              *)

Byte == [ver : Versions, pos : Nat]

\* The variables have their types, and neither limit on recoveries is exceeded.
TypeOK ==
    /\ version \in Versions
    /\ conn \in [ver : Versions, pos : Nat, alive : BOOLEAN]
    /\ lastModified \in Nat \cup {NoDate}
    /\ phase \in {"idle", "read", "recover"}
    /\ kind \in {"all", "upto", "chunk"} /\ left \in Nat
    /\ opened \in BOOLEAN /\ closed \in BOOLEAN
    /\ buffer \in Seq(Byte) /\ res \in Seq(Byte) /\ caller \in Seq(Byte)
    /\ offset \in Nat /\ total \in Nat /\ stuck \in Nat
    /\ MaxRecovers # NoLimit => total =< MaxRecovers
    /\ MaxStuck # NoLimit => stuck =< MaxStuck
    /\ failed \in BOOLEAN /\ ended \in BOOLEAN

\* What the caller has received is the beginning of the file, nothing skipped or
\* repeated, however often the connection broke in between.
NothingSkippedOrRepeated ==
    \A i \in 1..Len(caller) : caller[i].pos = i - 1

\* The bytes the caller receives are all of one version of the file: the download
\* is never continued in a file that has been replaced.
OneVersion ==
    \A i, j \in 1..Len(caller) : caller[i].ver = caller[j].ver

\* The end of the stream is reported only when the caller has the whole file, as
\* long as no read has failed.
EndMeansWholeFile ==
    ended /\ ~failed => \E v \in Versions : caller = File(v)

\* Why: an inductive invariant, for versions stored in different seconds.  The response is of the version the first
\* one was of, as long as there is something of it;
RemoteInv ==
    /\ conn.ver =< version
    /\ lastModified # NoDate => lastModified = ModifiedAt[conn.ver]

\* a response is alive, or being recovered, until a read fails or reports the end;
ControlInv ==
    /\ closed => phase = "idle"
    /\ phase = "idle" => res = <<>>
    /\ kind = "chunk" /\ phase # "idle" => buffer = <<>> /\ res = <<>>
    /\ conn.alive => ~closed /\ ~failed /\ ~ended
    /\ failed => buffer = <<>> /\ res = <<>>
    /\ phase = "recover" => ~failed /\ ~ended /\ ~conn.alive /\ buffer = <<>>
    /\ conn.alive \/ failed \/ closed \/ ended \/ phase = "recover"

\* the caller's bytes, those of the read and those in the buffer follow each other.
DataInv ==
    /\ offset =< SizeOf[conn.ver]
    /\ conn.alive => conn.pos = offset
    /\ caller = Bytes(conn.ver, 0, Len(caller))
    /\ ended /\ ~failed => Len(caller) = SizeOf[conn.ver]
    /\ ~failed /\ ~closed =>
          /\ res = Bytes(conn.ver, Len(caller), Len(caller) + Len(res))
          /\ buffer = Bytes(conn.ver, offset - Len(buffer), offset)
          /\ offset = Len(caller) + Len(res) + Len(buffer)

DownloadInv == RemoteInv /\ ControlInv /\ DataInv

\* Every read returns or raises, with a limit on the recoveries without progress.
ReadReturns == phase # "idle" ~> phase = "idle"
=============================================================================
