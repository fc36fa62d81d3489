------------------------------- MODULE FileMove -------------------------------
(***************************************************************************)
(* DbfsExt.move_ of mixins/files.py, between two of DBFS, the volumes and   *)
(* the local file system: the source is listed, copied file by file, and   *)
(* deleted.  Each of these is the work of _LocalPath, _VolumesPath or      *)
(* _DbfsPath.                                                              *)
(*                                                                         *)
(* A path is the sequence of names that leads to it from the source, or    *)
(* from the place the source is moved to.  Moves within DBFS are one       *)
(* request, moves within the local file system are refused, and moves      *)
(* within the volumes must not go into the source itself: they are left    *)
(* out.                                                                    *)
(***************************************************************************)
EXTENDS Naturals, Sequences, FiniteSets, SequencesExt

CONSTANTS
    Sources,        \* what is moved: its kind, directories and files
    NewName         \* the name of a file that somebody else creates

Kinds == {"local", "volume", "dbfs"}
Paths == Seq(STRING)

\* The path of the source itself.
Root == <<>>

\* The directories that a path goes through.
Above(p) == {SubSeq(p, 1, n) : n \in 0..(Len(p) - 1)}

\* A source is a finite tree, or one file.
ASSUME SourcesAssumption ==
    /\ NewName \in STRING
    /\ \A s \in Sources :
        /\ s.kind \in Kinds
        /\ s.dirs \in SUBSET Paths /\ IsFiniteSet(s.dirs)
        /\ s.files \in SUBSET Paths /\ IsFiniteSet(s.files)
        /\ s.dirs \cap s.files = {}
        /\ \A p \in s.dirs \cup s.files : Above(p) \subseteq s.dirs

VARIABLES
    kind,           \* the file system of the source
    recursive, overwrite,   \* the arguments of move_
    dirs, files,    \* the source: the paths of its directories and of its files
    target,         \* the destination: path -> "old", "part" or "whole"
    phase,          \* "start", "list", "copy", "delete", "done"
    queue,          \* directories still to be listed
    found,          \* files still to be copied
    stack,          \* calls of _VolumesPath.delete that have not ended
    outcome,        \* "pending", "moved" or "error"
    original        \* history: the files of the source at the beginning

arguments == <<kind, recursive, overwrite, original>>
source == <<dirs, files>>
vars == <<arguments, source, target, phase, queue, found, stack, outcome>>

FilesIn(d) == {f \in files : f # Root /\ Front(f) = d}
DirsIn(d) == {e \in dirs : e # Root /\ Front(e) = d}

Finish(result) == phase' = "done" /\ outcome' = result

\* An exception leaves move_.
Raise == Finish("error")

-----------------------------------------------------------------------------
(* move_ and copy: what is there to be copied?                             *)

Start ==
    /\ phase = "start"
    /\ IF Root \in dirs
       THEN IF recursive
            THEN phase' = "list" /\ queue' = <<Root>> /\ UNCHANGED <<found, outcome>>
            ELSE Raise /\ UNCHANGED <<queue, found>>
       ELSE phase' = "copy" /\ found' = <<Root>> /\ UNCHANGED <<queue, outcome>>
    /\ UNCHANGED <<arguments, source, target, stack>>

\* Faulty: every list() does as that of the volumes.
ChildByName(e) == <<Last(e)>>

\* Where list() goes on from the directory e: _VolumesPath takes its name for one of
\* the directory the listing began with.
Child(e) == IF kind = "volume" THEN <<Last(e)>> ELSE e

\* list(recursive=True) on its next directory, which may turn out not to exist.
List ==
    /\ phase = "list" /\ queue # <<>>
    /\ LET d == Head(queue)
       IN  IF d \in dirs
           THEN \E fs \in SetToSeqs(FilesIn(d)), ds \in SetToSeqs(DirsIn(d)) :
                   /\ found' = found \o fs
                   /\ queue' = Tail(queue) \o [i \in DOMAIN ds |-> Child(ds[i])]
                   /\ UNCHANGED <<phase, outcome>>
           ELSE Raise /\ UNCHANGED <<queue, found>>
    /\ UNCHANGED <<arguments, source, target, stack>>

EndList ==
    /\ phase = "list" /\ queue = <<>>
    /\ phase' = "copy"
    /\ UNCHANGED <<arguments, source, target, queue, found, stack, outcome>>

-----------------------------------------------------------------------------
(* copy: one file after the other                                          *)

Write(f, state) == [g \in DOMAIN target \cup {f} |-> IF g = f THEN state ELSE target[g]]

\* Faulty: files at the destination are always overwritten.
OpensAnyway(f) == f \in files

\* The file can be read, and be created at the destination.
Opens(f) ==
    /\ f \in files
    /\ f \in DOMAIN target => overwrite

CopyFile ==
    /\ phase = "copy" /\ found # <<>>
    /\ Opens(Head(found))
    /\ target' = Write(Head(found), "whole")
    /\ found' = Tail(found)
    /\ UNCHANGED <<arguments, source, phase, queue, stack, outcome>>

\* Faulty: the error of a file does not keep the next ones from being copied.
CopyBreaksQuietly ==
    /\ phase = "copy" /\ found # <<>>
    /\ target' \in {target, IF Opens(Head(found)) THEN Write(Head(found), "part")
                            ELSE target}
    /\ found' = Tail(found)
    /\ UNCHANGED <<arguments, source, phase, queue, stack, outcome>>

\* A file cannot be opened, or reading or writing it breaks; the end of the `with'
\* block closes what has been written, and makes it a file.
CopyBreaks ==
    /\ phase = "copy" /\ found # <<>>
    /\ target' \in {target, IF Opens(Head(found)) THEN Write(Head(found), "part")
                            ELSE target}
    /\ Raise
    /\ UNCHANGED <<arguments, source, queue, found, stack>>

Call(op, path) == [op |-> op, path |-> path]

\* Everything is copied: delete(src, recursive).
EndCopy ==
    /\ phase = "copy" /\ found = <<>>
    /\ phase' = "delete"
    /\ queue' = <<Root>>
    /\ stack' = <<Call("delete", Root)>>
    /\ UNCHANGED <<arguments, source, target, found, outcome>>

-----------------------------------------------------------------------------
(* delete                                                                  *)

\* DBFS deletes trees itself.
DeleteDbfs ==
    /\ phase = "delete" /\ kind = "dbfs"
    /\ dirs' = {} /\ files' = {}
    /\ Finish("moved")
    /\ UNCHANGED <<arguments, target, queue, found, stack>>

\* _LocalPath.delete of a file.
UnlinkLocal ==
    /\ phase = "delete" /\ kind = "local" /\ Root \notin dirs
    /\ files' = files \ {Root}
    /\ Finish("moved")
    /\ UNCHANGED <<arguments, dirs, target, queue, found, stack>>

\* _LocalPath.delete of a directory: the files in it, and below,
EmptyLocal ==
    /\ phase = "delete" /\ kind = "local" /\ Root \in dirs /\ queue # <<>>
    /\ files' = files \ FilesIn(Head(queue))
    /\ \E ds \in SetToSeqs(DirsIn(Head(queue))) : queue' = Tail(queue) \o ds
    /\ UNCHANGED <<arguments, dirs, target, phase, found, stack, outcome>>

\* Faulty: the error of rmdir is ignored.
RmdirLocalQuietly ==
    /\ phase = "delete" /\ kind = "local" /\ Root \in dirs /\ queue = <<>>
    /\ dirs' = IF DirsIn(Root) = {} /\ files = {} THEN {} ELSE dirs
    /\ Finish("moved")
    /\ UNCHANGED <<arguments, files, target, queue, found, stack>>

\* and then the directory, but not those in it.
RmdirLocal ==
    /\ phase = "delete" /\ kind = "local" /\ Root \in dirs /\ queue = <<>>
    /\ IF DirsIn(Root) = {} /\ files = {}
       THEN dirs' = {} /\ Finish("moved")
       ELSE Raise /\ UNCHANGED dirs
    /\ UNCHANGED <<arguments, files, target, queue, found, stack>>

\* _VolumesPath.delete: a directory after its entries.
DeleteVolume ==
    /\ phase = "delete" /\ kind = "volume" /\ stack # <<>> /\ Head(stack).op = "delete"
    /\ LET p == Head(stack).path
       IN  IF p \in dirs
           THEN /\ \E es \in SetToSeqs(FilesIn(p) \cup DirsIn(p)) :
                      stack' = [i \in DOMAIN es |-> Call("delete", es[i])]
                               \o <<Call("rmdir", p)>> \o Tail(stack)
                /\ UNCHANGED files
           ELSE p \in files /\ files' = files \ {p} /\ stack' = Tail(stack)
    /\ UNCHANGED <<arguments, dirs, target, phase, queue, found, outcome>>

\* delete_directory, which the server refuses for a directory that is not empty.
RmdirVolume ==
    /\ phase = "delete" /\ kind = "volume" /\ stack # <<>> /\ Head(stack).op = "rmdir"
    /\ LET p == Head(stack).path
       IN  IF FilesIn(p) \cup DirsIn(p) = {}
           THEN dirs' = dirs \ {p} /\ stack' = Tail(stack) /\ UNCHANGED <<phase, outcome>>
           ELSE Raise /\ UNCHANGED <<dirs, stack>>
    /\ UNCHANGED <<arguments, files, target, queue, found>>

EndVolume ==
    /\ phase = "delete" /\ kind = "volume" /\ stack = <<>>
    /\ Finish("moved")
    /\ UNCHANGED <<arguments, source, target, queue, found, stack>>

-----------------------------------------------------------------------------
\* The files that are being deleted, if there are many.
Deleting ==
    CASE phase = "delete" /\ kind = "dbfs" -> files
      [] phase = "delete" /\ kind = "local" /\ queue # <<>> -> FilesIn(Head(queue))
      [] OTHER -> {}

\* A request or a system call fails, maybe after some of the files were deleted.
Fails ==
    /\ phase \in {"start", "list", "delete"}
    /\ Raise
    /\ \E gone \in SUBSET Deleting : files' = files \ gone
    /\ UNCHANGED <<arguments, dirs, target, queue, found, stack>>

\* Somebody else puts a file into the source.
Arrive ==
    /\ phase # "done"
    /\ \E d \in dirs : files' = files \cup {Append(d, NewName)}
    /\ UNCHANGED <<arguments, dirs, target, phase, queue, found, stack, outcome>>

Init ==
    /\ \E s \in Sources :
          kind = s.kind /\ dirs = s.dirs /\ files = s.files /\ original = s.files
    /\ recursive \in BOOLEAN /\ overwrite \in BOOLEAN
    /\ \E old \in SUBSET original : target = [f \in old |-> "old"]
    /\ phase = "start" /\ outcome = "pending"
    /\ queue = <<>> /\ found = <<>> /\ stack = <<>>

\* What move_ does, and raises, by itself.
Step ==
    \/ Start \/ List \/ EndList
    \/ CopyFile \/ CopyBreaks \/ EndCopy
    \/ DeleteDbfs \/ UnlinkLocal \/ EmptyLocal \/ RmdirLocal
    \/ DeleteVolume \/ RmdirVolume \/ EndVolume

Next == Step \/ Fails \/ Arrive

Spec == Init /\ [][Next]_vars

\* The client runs on, and requests are answered or time out.
FairSpec == Spec /\ WF_vars(Step)

-----------------------------------------------------------------------------
(* Properties                                                              *)

\* move_ never loses a file: whatever fails on the way, it is at the source as long
\* as it is not, as a whole, at the destination.
LosesNothing ==
    \A f \in original : f \in files \/ (f \in DOMAIN target /\ target[f] = "whole")

\* A move that reports success leaves nothing behind at the source, directories and
\* files that arrived meanwhile included.
SuccessEmptiesSource ==
    outcome = "moved" => dirs = {} /\ files = {}

\* Without overwrite no file at the destination is ever replaced, neither one that was
\* there before nor one that has just been copied.
KeepsTarget ==
    [][~overwrite => \A f \in DOMAIN target : target'[f] = target[f]]_vars

\* A move ends, with success or an exception.
Ends == <>(phase = "done")
=============================================================================
