---------------------------- MODULE FileMoveProofs ----------------------------
(***************************************************************************)
(* Proofs about FileMove.                                                  *)
(***************************************************************************)
EXTENDS FileMove, FiniteSetTheorems, SequenceTheorems, TLAPS

\* What SetToSeqs returns for a finite set: sequences of its elements, each of which
\* occurs.  Listings of directories depend on it.
LEMMA ListsAll ==
    ASSUME NEW S, IsFiniteSet(S), NEW q \in SetToSeqs(S)
    PROVE  q \in Seq(S) /\ \A x \in S : \E i \in 1..Len(q) : q[i] = x
<1> DEFINE n == Cardinality(S)
<1>1. n \in Nat  BY FS_CardinalityType
<1> HIDE DEF n
<1>2. q \in [1..n -> S] /\ \A i, j \in 1..n : i # j => q[i] # q[j]  BY DEF SetToSeqs, n
<1>3. q \in Seq(S) /\ Len(q) = n  BY <1>1, <1>2
<1>4. q \in Injection(1..n, S)  BY <1>2 DEF Injection, IsInjective
<1>5. Cardinality(1..n) = Cardinality(S)  BY <1>1, FS_Interval DEF n
<1>6. q \in Surjection(1..n, S)  BY <1>4, <1>5, FS_Injection
<1> QED  BY <1>3, <1>6 DEF Surjection

\* The parts of a path.
LEMMA Prefix ==
    ASSUME NEW p \in Paths, NEW n \in 0..Len(p)
    PROVE  /\ SubSeq(p, 1, n) \in Paths /\ Len(SubSeq(p, 1, n)) = n
           /\ \A i \in 1..n : SubSeq(p, 1, n)[i] = p[i]
<1>1. n \in Int /\ \A i \in 1..n : p[i] \in STRING  BY DEF Paths
<1> QED  BY <1>1, SubSeqProperties, SMTT(20) DEF Paths

\* The directory of a path is a path.
LEMMA FrontOf ==
    ASSUME NEW p \in Paths, p # Root
    PROVE  /\ Len(p) \in Nat \ {0} /\ Front(p) \in Paths /\ Len(Front(p)) = Len(p) - 1
           /\ Front(p) = SubSeq(p, 1, Len(p) - 1) /\ Front(p) \in Above(p)
<1>1. Len(p) \in Nat \ {0}  BY EmptySeq DEF Paths, Root
<1>2. Len(p) - 1 \in 0..Len(p) /\ Len(p) - 1 \in 0..(Len(p) - 1)  BY <1>1
<1> QED  BY <1>1, <1>2, Prefix DEF Front, Above

\* Every other path goes through the root.
LEMMA RootAbove ==
    ASSUME NEW p \in Paths, p # Root
    PROVE  Root \in Above(p)
<1>1. Len(p) \in Nat \ {0}  BY EmptySeq DEF Paths, Root
<1>2. SubSeq(p, 1, 0) = Root  BY SubSeqEmpty DEF Root
<1> QED  BY <1>1, <1>2 DEF Above

\* One of the directories that a path goes through is the one it is in, or has the next
\* of them in it.
LEMMA NextAbove ==
    ASSUME NEW p \in Paths, NEW d \in Above(p)
    PROVE  \/ p # Root /\ Front(p) = d
           \/ \E e \in Above(p) : e \in Paths /\ e # Root /\ Front(e) = d
<1>1. PICK n \in 0..(Len(p) - 1) : d = SubSeq(p, 1, n)  BY DEF Above
<1>2. Len(p) \in Nat /\ n \in Nat /\ n < Len(p)  BY DEF Paths
<1>3. CASE n = Len(p) - 1
  BY <1>1, <1>2, <1>3 DEF Front, Root
<1>4. CASE n # Len(p) - 1
  <2> DEFINE e == SubSeq(p, 1, n + 1)
  <2>1. n + 1 \in 0..(Len(p) - 1) /\ n + 1 \in 0..Len(p) /\ n \in 0..Len(p)  BY <1>2, <1>4
  <2>2. e \in Above(p)  BY <2>1 DEF Above
  <2>3. e \in Paths /\ Len(e) = n + 1 /\ \A i \in 1..(n + 1) : e[i] = p[i]  BY <2>1, Prefix
  <2> HIDE DEF e
  <2>4. e # Root /\ Len(Root) = 0  BY <2>3, <1>2, EmptySeq DEF Root
  <2>5. n \in 0..Len(e)  BY <2>3, <1>2
  <2>6. /\ SubSeq(e, 1, n) \in Paths /\ Len(SubSeq(e, 1, n)) = n
        /\ \A i \in 1..n : SubSeq(e, 1, n)[i] = e[i]
    BY <2>3, <2>5, Prefix
  <2>7. d \in Paths /\ Len(d) = n /\ \A i \in 1..n : d[i] = p[i]  BY <1>1, <2>1, Prefix
  <2>8. \A i \in 1..n : e[i] = p[i]  BY <2>3, <1>2
  <2>9. SubSeq(e, 1, n) = d  BY <2>6, <2>7, <2>8, SeqEqual DEF Paths
  <2>10. Front(e) = d  BY <2>9, <2>3, <1>2 DEF Front
  <2> QED  BY <2>2, <2>3, <2>4, <2>10
<1> QED  BY <1>3, <1>4

-----------------------------------------------------------------------------
(* The inductive invariant                                                 *)

Calls == [op : {"delete", "rmdir"}, path : Paths]

TypeOK ==
    /\ kind \in Kinds /\ recursive \in BOOLEAN /\ overwrite \in BOOLEAN
    /\ original \in SUBSET Paths
    /\ dirs \in SUBSET Paths /\ IsFiniteSet(dirs)
    /\ files \in SUBSET Paths /\ IsFiniteSet(files)
    /\ DOMAIN target \in SUBSET Paths
    /\ target \in [DOMAIN target -> {"old", "part", "whole"}]
    /\ phase \in {"start", "list", "copy", "delete", "done"}
    /\ outcome \in {"pending", "moved", "error"}
    /\ queue \in Seq(Paths) /\ found \in Seq(Paths) /\ stack \in Seq(Calls)

\* The source stays a tree: what has entries is not deleted before them.
TreeInv ==
    /\ \A p \in dirs \cup files : Above(p) \subseteq dirs
    /\ Root \in dirs => Root \notin files

\* The directories of a volume that list() reads are all found: no directory but those
\* of the source itself has a name that one of them has, too.
ListedWhole ==
    kind = "volume" => \A e \in dirs \ {Root} : Len(e) = 1 \/ <<Last(e)>> \notin dirs

Occurs(p, q) == \E i \in 1..Len(q) : q[i] = p

Copied(f) == f \in DOMAIN target /\ target[f] = "whole"

\* Each file of the source is still to be found, listed or copied, or copied, and the
\* source is complete until all are copied.
MoveInv ==
    /\ phase \in {"start", "list"} => ListedWhole
    /\ phase \in {"start", "list", "copy"} => original \subseteq files
    /\ phase = "list" =>
        \/ \E i \in 1..Len(queue) : queue[i] \notin dirs
        \/ \A f \in original : Occurs(f, found) \/ \E d \in Above(f) : Occurs(d, queue)
    /\ phase = "copy" => \A f \in original : Occurs(f, found) \/ Copied(f)
    /\ phase = "delete" => \A f \in original : Copied(f)
    /\ phase = "done" => original \subseteq files \/ \A f \in original : Copied(f)

\* The source goes last: until it is deleted its own call is at the bottom of the stack.
DeleteInv ==
    /\ phase = "done" <=> outcome # "pending"
    /\ phase = "delete" /\ kind = "volume" =>
        /\ Root \in dirs => stack # <<>> /\ stack[Len(stack)].path = Root
        /\ Root \in files => stack = <<Call("delete", Root)>>
    /\ outcome = "moved" => dirs = {} /\ files = {}

\* A file that is put into a directory goes through that and those above it.
LEMMA AboveAppend ==
    ASSUME NEW d \in Paths
    PROVE  /\ Append(d, NewName) \in Paths /\ Append(d, NewName) # Root
           /\ Above(Append(d, NewName)) \subseteq Above(d) \cup {d}
<1> DEFINE p == Append(d, NewName)
<1>1. NewName \in STRING  BY SourcesAssumption
<1>2. /\ p \in Paths /\ p # Root /\ Len(p) = Len(d) + 1
      /\ \A i \in 1..Len(d) : p[i] = d[i]
  <2>1. d \in Seq(STRING)  BY DEF Paths
  <2>2. /\ p \in Seq(STRING) /\ p # <<>> /\ Len(p) = Len(d) + 1
        /\ \A i \in 1..Len(d) : p[i] = d[i]
    <3>1. p \in Seq(STRING) /\ p # <<>>  BY <1>1, <2>1, AppendProperties
    <3>2. Len(p) = Len(d) + 1  BY <1>1, <2>1, AppendProperties
    <3>3. \A i \in 1..Len(d) : p[i] = d[i]  BY <1>1, <2>1, AppendProperties
    <3> QED  BY <3>1, <3>2, <3>3
  <2> QED  BY <2>2 DEF Paths, Root
<1> HIDE DEF p
<1>3. Len(d) \in Nat  BY DEF Paths
<1>4. ASSUME NEW n \in 0..(Len(p) - 1)
      PROVE  SubSeq(p, 1, n) \in Above(d) \cup {d}
  <2>1. n \in 0..Len(p) /\ n \in 0..Len(d) /\ n \in Nat  BY <1>2, <1>3
  <2>2. /\ SubSeq(p, 1, n) \in Paths /\ Len(SubSeq(p, 1, n)) = n
        /\ \A i \in 1..n : SubSeq(p, 1, n)[i] = p[i]
    BY <1>2, <2>1, Prefix
  <2>3. /\ SubSeq(d, 1, n) \in Paths /\ Len(SubSeq(d, 1, n)) = n
        /\ \A i \in 1..n : SubSeq(d, 1, n)[i] = d[i]
    BY <2>1, Prefix
  <2>4. \A i \in 1..n : p[i] = d[i]  BY <1>2, <1>3, <2>1
  <2>5. SubSeq(p, 1, n) = SubSeq(d, 1, n)  BY <2>2, <2>3, <2>4, SeqEqual DEF Paths
  <2>6. CASE n = Len(d)  BY <2>5, <2>6, SubSeqFull DEF Paths
  <2>7. CASE n # Len(d)
    <3>1. n \in 0..(Len(d) - 1)  BY <2>1, <2>7, <1>3
    <3> QED  BY <3>1, <2>5 DEF Above
  <2> QED  BY <2>6, <2>7
<1>5. Above(p) \subseteq Above(d) \cup {d}  BY <1>4 DEF Above
<1> QED  BY <1>2, <1>5 DEF p

\* What is in a directory is finite.
LEMMA Entries ==
    ASSUME TypeOK, NEW d
    PROVE  /\ FilesIn(d) \in SUBSET files /\ DirsIn(d) \in SUBSET dirs
           /\ FilesIn(d) \in SUBSET Paths /\ IsFiniteSet(FilesIn(d))
           /\ DirsIn(d) \in SUBSET Paths /\ IsFiniteSet(DirsIn(d))
           /\ IsFiniteSet(FilesIn(d) \cup DirsIn(d))
<1>1. /\ FilesIn(d) \in SUBSET files /\ DirsIn(d) \in SUBSET dirs
      /\ FilesIn(d) \in SUBSET Paths /\ DirsIn(d) \in SUBSET Paths
  BY DEF FilesIn, DirsIn, TypeOK
<1>2. IsFiniteSet(files) /\ IsFiniteSet(dirs)  BY DEF TypeOK
<1>3. IsFiniteSet(FilesIn(d)) /\ IsFiniteSet(DirsIn(d))  BY <1>1, <1>2, FS_Subset
<1> QED  BY <1>1, <1>3, FS_Union

\* The listings of a directory are sequences of paths.
LEMMA Listings ==
    ASSUME TypeOK, NEW d
    PROVE  /\ \A fs \in SetToSeqs(FilesIn(d)) : fs \in Seq(Paths)
           /\ \A ds \in SetToSeqs(DirsIn(d)) :
                ds \in Seq(Paths) /\ \A i \in 1..Len(ds) : ds[i] \in DirsIn(d)
           /\ \A es \in SetToSeqs(FilesIn(d) \cup DirsIn(d)) : es \in Seq(Paths)
<1>1. /\ \A fs \in SetToSeqs(FilesIn(d)) : fs \in Seq(FilesIn(d))
      /\ \A ds \in SetToSeqs(DirsIn(d)) : ds \in Seq(DirsIn(d))
      /\ \A es \in SetToSeqs(FilesIn(d) \cup DirsIn(d)) : es \in Seq(FilesIn(d) \cup DirsIn(d))
  BY Entries, ListsAll
<1>2. FilesIn(d) \subseteq Paths /\ DirsIn(d) \subseteq Paths  BY Entries
<1> HIDE DEF Paths
<1>3. /\ \A fs \in Seq(FilesIn(d)) : fs \in Seq(Paths)
      /\ \A ds \in Seq(DirsIn(d)) : ds \in Seq(Paths)
      /\ \A es \in Seq(FilesIn(d) \cup DirsIn(d)) : es \in Seq(Paths)
  BY <1>2, SeqMonotonic
<1> QED  BY <1>1, <1>3, ElementOfSeq

\* The type invariant and the invariants of deleting hold initially.
LEMMA InitOK ==
    ASSUME Init
    PROVE  TypeOK /\ TreeInv /\ DeleteInv
<1>1. PICK s \in Sources : kind = s.kind /\ dirs = s.dirs /\ files = s.files /\ original = s.files
  BY DEF Init
<1>2. /\ kind \in Kinds
      /\ dirs \in SUBSET Paths /\ IsFiniteSet(dirs)
      /\ files \in SUBSET Paths /\ IsFiniteSet(files)
      /\ dirs \cap files = {}
      /\ \A p \in dirs \cup files : Above(p) \subseteq dirs
      /\ original = files
  BY <1>1, SourcesAssumption
<1>3. PICK old \in SUBSET original : target = [f \in old |-> "old"]  BY DEF Init
<1>4. DOMAIN target \in SUBSET Paths /\ target \in [DOMAIN target -> {"old", "part", "whole"}]
  BY <1>2, <1>3
<1>5. TypeOK  BY <1>2, <1>4, EmptySeq DEF TypeOK, Init
<1>6. TreeInv  BY <1>2 DEF TreeInv
<1>7. DeleteInv  BY DEF DeleteInv, Init
<1> QED  BY <1>5, <1>6, <1>7

\* Child takes paths to paths.
LEMMA ChildIsPath ==
    ASSUME NEW e \in Paths, e # Root
    PROVE  Child(e) \in Paths
<1>1. Len(e) \in Nat \ {0}  BY EmptySeq DEF Paths, Root
<1>2. Last(e) \in STRING  BY <1>1 DEF Last, Paths
<1>3. <<Last(e)>> \in Paths  BY <1>2 DEF Paths
<1> QED  BY <1>3 DEF Child

\* A file that is written changes the target into one of its type.
LEMMA WriteType ==
    ASSUME TypeOK, NEW f \in Paths, NEW v \in {"part", "whole"}, target' = Write(f, v)
    PROVE  /\ DOMAIN target' \in SUBSET Paths
           /\ target' \in [DOMAIN target' -> {"old", "part", "whole"}]
<1>1. DOMAIN target' = DOMAIN target \cup {f}  BY DEF Write
<1>2. \A g \in DOMAIN target' : target'[g] = IF g = f THEN v ELSE target[g]  BY DEF Write
<1>3. target' = [g \in DOMAIN target' |-> target'[g]]  BY DEF Write
<1>4. \A g \in DOMAIN target : target[g] \in {"old", "part", "whole"}  BY DEF TypeOK
<1>5. \A g \in DOMAIN target' : target'[g] \in {"old", "part", "whole"}  BY <1>1, <1>2, <1>4
<1>6. DOMAIN target' \in SUBSET Paths  BY <1>1 DEF TypeOK
<1> QED  BY <1>3, <1>5, <1>6

\* Every step preserves the types.
LEMMA TypeStep ==
    ASSUME TypeOK, [Next]_vars
    PROVE  TypeOK'
<1> USE DEF TypeOK
<1> HIDE DEF Paths, Kinds, Calls
<1>0. Root \in Paths /\ <<Root>> \in Seq(Paths)  BY EmptySeq DEF Root, Paths
<1>1. CASE Start  BY <1>1, <1>0 DEF Start, Raise, Finish, arguments, source
<1>2. CASE List
  <2> DEFINE d == Head(queue)
  <2>1. Tail(queue) \in Seq(Paths) /\ d \in Paths  BY <1>2, HeadTailProperties DEF List
  <2>2. CASE d \notin dirs
    BY <1>2, <2>2, <2>1 DEF List, Raise, Finish, arguments, source
  <2>3. CASE d \in dirs
    <3>1. PICK fs \in SetToSeqs(FilesIn(d)), ds \in SetToSeqs(DirsIn(d)) :
             /\ found' = found \o fs
             /\ queue' = Tail(queue) \o [i \in DOMAIN ds |-> Child(ds[i])]
             /\ UNCHANGED <<phase, outcome>>
      BY <1>2, <2>3 DEF List
    <3>2. fs \in Seq(Paths) /\ ds \in Seq(Paths) /\ \A i \in 1..Len(ds) : ds[i] \in DirsIn(d)
      BY Listings
    <3>3. \A i \in 1..Len(ds) : Child(ds[i]) \in Paths
      BY <3>2, ChildIsPath DEF DirsIn
    <3>4. DOMAIN ds = 1..Len(ds) /\ Len(ds) \in Nat  BY <3>2
    <3>5. [i \in DOMAIN ds |-> Child(ds[i])] \in Seq(Paths)  BY <3>3, <3>4
    <3>6. queue' \in Seq(Paths) /\ found' \in Seq(Paths)
      BY <3>1, <3>2, <3>5, <2>1, ConcatProperties
    <3> QED  BY <1>2, <3>1, <3>6 DEF List, arguments, source
  <2> QED  BY <2>2, <2>3
<1>3. CASE EndList  BY <1>3 DEF EndList, arguments, source
<1>4. CASE CopyFile
  <2>1. Head(found) \in Paths /\ Tail(found) \in Seq(Paths)
    BY <1>4, HeadTailProperties DEF CopyFile
  <2>2. /\ DOMAIN target' \in SUBSET Paths
        /\ target' \in [DOMAIN target' -> {"old", "part", "whole"}]
    BY <1>4, <2>1, WriteType DEF CopyFile
  <2> QED  BY <1>4, <2>1, <2>2 DEF CopyFile, arguments, source
<1>5. CASE CopyBreaks
  <2>1. Head(found) \in Paths  BY <1>5, HeadTailProperties DEF CopyBreaks
  <2>2. target' = target \/ target' = Write(Head(found), "part")  BY <1>5 DEF CopyBreaks
  <2>3. /\ DOMAIN target' \in SUBSET Paths
        /\ target' \in [DOMAIN target' -> {"old", "part", "whole"}]
    BY <2>1, <2>2, WriteType
  <2> QED  BY <1>5, <2>3 DEF CopyBreaks, Raise, Finish, arguments, source
<1>6. CASE EndCopy
  <2>1. Call("delete", Root) \in Calls  BY <1>0 DEF Call, Calls
  <2>2. stack' \in Seq(Calls)  BY <1>6, <2>1 DEF EndCopy
  <2> QED  BY <1>6, <1>0, <2>2 DEF EndCopy, arguments, source
<1>7. CASE DeleteDbfs
  <2>1. dirs' = {} /\ files' = {}  BY <1>7 DEF DeleteDbfs
  <2>2. IsFiniteSet(dirs') /\ IsFiniteSet(files')  BY <2>1, FS_EmptySet
  <2> QED  BY <1>7, <2>1, <2>2 DEF DeleteDbfs, Finish, arguments
<1>8. CASE UnlinkLocal
  <2>1. files' \in SUBSET files  BY <1>8 DEF UnlinkLocal
  <2>2. IsFiniteSet(files')  BY <2>1, FS_Subset
  <2> QED  BY <1>8, <2>1, <2>2 DEF UnlinkLocal, Finish, arguments
<1>9. CASE EmptyLocal
  <2>1. files' \in SUBSET files  BY <1>9 DEF EmptyLocal
  <2>2. IsFiniteSet(files')  BY <2>1, FS_Subset
  <2>3. PICK ds \in SetToSeqs(DirsIn(Head(queue))) : queue' = Tail(queue) \o ds
    BY <1>9 DEF EmptyLocal
  <2>4. ds \in Seq(Paths)  BY Listings
  <2>5. Tail(queue) \in Seq(Paths)  BY <1>9, HeadTailProperties DEF EmptyLocal
  <2>6. queue' \in Seq(Paths)  BY <2>3, <2>4, <2>5, ConcatProperties
  <2> QED  BY <1>9, <2>1, <2>2, <2>6 DEF EmptyLocal, arguments
<1>10. CASE RmdirLocal
  <2>1. dirs' \in SUBSET dirs  BY <1>10 DEF RmdirLocal
  <2>2. IsFiniteSet(dirs')  BY <2>1, FS_Subset
  <2>3. outcome' \in {"moved", "error"} /\ phase' = "done"  BY <1>10 DEF RmdirLocal, Raise, Finish
  <2> QED  BY <1>10, <2>1, <2>2, <2>3 DEF RmdirLocal, arguments
<1>11. CASE DeleteVolume
  <2> DEFINE p == Head(stack).path
  <2>1. Head(stack) \in Calls /\ Tail(stack) \in Seq(Calls)
    BY <1>11, HeadTailProperties DEF DeleteVolume
  <2>2. p \in Paths  BY <2>1 DEF Calls
  <2>3. CASE p \in dirs
    <3>1. PICK es \in SetToSeqs(FilesIn(p) \cup DirsIn(p)) :
             stack' = [i \in DOMAIN es |-> Call("delete", es[i])]
                      \o <<Call("rmdir", p)>> \o Tail(stack)
      BY <1>11, <2>3 DEF DeleteVolume
    <3>2. es \in Seq(Paths)  BY Listings
    <3>3. \A q \in Paths : Call("delete", q) \in Calls /\ Call("rmdir", q) \in Calls
      BY DEF Call, Calls
    <3>4. DOMAIN es = 1..Len(es) /\ Len(es) \in Nat /\ \A i \in 1..Len(es) : es[i] \in Paths
      BY <3>2
    <3>5. [i \in DOMAIN es |-> Call("delete", es[i])] \in Seq(Calls)  BY <3>3, <3>4
    <3>6. <<Call("rmdir", p)>> \in Seq(Calls)  BY <3>3, <2>2
    <3>7. stack' \in Seq(Calls)  BY <3>1, <3>5, <3>6, <2>1, ConcatProperties
    <3> QED  BY <1>11, <2>3, <3>7 DEF DeleteVolume, arguments
  <2>4. CASE p \notin dirs
    <3>1. files' \in SUBSET files  BY <1>11, <2>4 DEF DeleteVolume
    <3>2. IsFiniteSet(files')  BY <3>1, FS_Subset
    <3> QED  BY <1>11, <2>1, <2>4, <3>1, <3>2 DEF DeleteVolume, arguments
  <2> QED  BY <2>3, <2>4
<1>12. CASE RmdirVolume
  <2>1. Tail(stack) \in Seq(Calls)  BY <1>12, HeadTailProperties DEF RmdirVolume
  <2>2. dirs' \in SUBSET dirs  BY <1>12 DEF RmdirVolume
  <2>3. IsFiniteSet(dirs')  BY <2>2, FS_Subset
  <2>4. stack' \in Seq(Calls)  BY <1>12, <2>1 DEF RmdirVolume
  <2>5. phase' \in {phase, "done"} /\ outcome' \in {outcome, "error"}
    BY <1>12 DEF RmdirVolume, Raise, Finish
  <2> QED  BY <1>12, <2>2, <2>3, <2>4, <2>5 DEF RmdirVolume, arguments
<1>13. CASE EndVolume  BY <1>13 DEF EndVolume, Finish, arguments, source
<1>14. CASE Fails
  <2>1. files' \in SUBSET files  BY <1>14 DEF Fails
  <2>2. IsFiniteSet(files')  BY <2>1, FS_Subset
  <2> QED  BY <1>14, <2>1, <2>2 DEF Fails, Raise, Finish, arguments
<1>15. CASE Arrive
  <2>1. PICK d \in dirs : files' = files \cup {Append(d, NewName)}  BY <1>15 DEF Arrive
  <2>2. Append(d, NewName) \in Paths  BY AboveAppend
  <2>3. IsFiniteSet(files')  BY <2>1, FS_AddElement
  <2> QED  BY <1>15, <2>1, <2>2, <2>3 DEF Arrive, arguments
<1>16. CASE UNCHANGED vars  BY <1>16 DEF vars, arguments, source
<1> QED
  BY <1>1, <1>2, <1>3, <1>4, <1>5, <1>6, <1>7, <1>8, <1>9, <1>10, <1>11, <1>12, <1>13, <1>14,
     <1>15, <1>16 DEF Next, Step

\* Without its directory the source is empty, or one file.
LEMMA NoRoot ==
    ASSUME TypeOK, TreeInv, Root \notin dirs
    PROVE  dirs = {} /\ files \subseteq {Root}
<1>1. \A p \in dirs \cup files : p \in Paths  BY DEF TypeOK
<1>2. \A p \in dirs \cup files : p = Root  BY <1>1, RootAbove DEF TreeInv
<1> QED  BY <1>2

\* Directories that are deleted because they are empty are the ends of the tree.
LEMMA EmptyIsLeaf ==
    ASSUME TypeOK, TreeInv, NEW d, FilesIn(d) \cup DirsIn(d) = {}, NEW p \in dirs \cup files
    PROVE  d \notin Above(p)
<1> SUFFICES ASSUME d \in Above(p) PROVE FALSE
  OBVIOUS
<1>1. p \in Paths /\ Above(p) \subseteq dirs  BY DEF TypeOK, TreeInv
<1>2. CASE p # Root /\ Front(p) = d  BY <1>2 DEF FilesIn, DirsIn
<1>3. CASE \E e \in Above(p) : e \in Paths /\ e # Root /\ Front(e) = d
  BY <1>1, <1>3 DEF DirsIn
<1> QED  BY <1>1, <1>2, <1>3, NextAbove

\* Fewer files are still a tree.
LEMMA FewerFiles ==
    ASSUME TreeInv, files' \subseteq files, dirs' = dirs
    PROVE  TreeInv'
<1>1. \A p \in dirs' \cup files' : Above(p) \subseteq dirs'  BY DEF TreeInv
<1> QED  BY <1>1 DEF TreeInv, Root

\* The source stays a tree, whoever changes it.
LEMMA TreeStep ==
    ASSUME TypeOK, TreeInv, [Next]_vars
    PROVE  TreeInv'
<1>1. CASE Start \/ List \/ EndList \/ CopyFile \/ CopyBreaks \/ EndCopy \/ EndVolume
           \/ UNCHANGED vars
  <2>1. UNCHANGED <<dirs, files>>
    BY <1>1 DEF Start, List, EndList, CopyFile, CopyBreaks, EndCopy, EndVolume, source, vars
  <2> QED  BY <2>1, FewerFiles
<1>2. CASE UnlinkLocal \/ EmptyLocal \/ Fails
  <2>1. files' \subseteq files /\ dirs' = dirs  BY <1>2 DEF UnlinkLocal, EmptyLocal, Fails
  <2> QED  BY <2>1, FewerFiles
<1>3. CASE DeleteDbfs  BY <1>3 DEF DeleteDbfs, TreeInv
<1>4. CASE RmdirLocal
  <2>1. files' = files  BY <1>4 DEF RmdirLocal
  <2>2. CASE DirsIn(Root) = {} /\ files = {}
    <3>1. dirs' = {}  BY <1>4, <2>2 DEF RmdirLocal
    <3> QED  BY <2>1, <2>2, <3>1 DEF TreeInv
  <2>3. CASE ~(DirsIn(Root) = {} /\ files = {})
    <3>1. dirs' = dirs  BY <1>4, <2>3 DEF RmdirLocal
    <3> QED  BY <2>1, <3>1, FewerFiles
  <2> QED  BY <2>2, <2>3
<1>5. CASE DeleteVolume
  <2>1. files' \subseteq files /\ dirs' = dirs  BY <1>5 DEF DeleteVolume
  <2> QED  BY <2>1, FewerFiles
<1>6. CASE RmdirVolume
  <2> DEFINE d == Head(stack).path
  <2>1. files' = files  BY <1>6 DEF RmdirVolume
  <2>2. CASE FilesIn(d) \cup DirsIn(d) # {}
    <3>1. dirs' = dirs  BY <1>6, <2>2 DEF RmdirVolume
    <3> QED  BY <2>1, <3>1, FewerFiles
  <2>3. CASE FilesIn(d) \cup DirsIn(d) = {}
    <3>0. dirs' = dirs \ {d}  BY <1>6, <2>3 DEF RmdirVolume
    <3> HIDE DEF d
    <3>1. \A p \in dirs \cup files : d \notin Above(p)  BY <2>3, EmptyIsLeaf
    <3>2. \A p \in dirs' \cup files' : Above(p) \subseteq dirs'  BY <2>1, <3>0, <3>1 DEF TreeInv
    <3> QED  BY <2>1, <3>0, <3>2 DEF TreeInv, Root
  <2> QED  BY <2>2, <2>3
<1>7. CASE Arrive
  <2>1. PICK d \in dirs : files' = files \cup {Append(d, NewName)}  BY <1>7 DEF Arrive
  <2>2. dirs' = dirs /\ d \in Paths  BY <1>7 DEF Arrive, TypeOK
  <2>3. Append(d, NewName) # Root /\ Above(Append(d, NewName)) \subseteq Above(d) \cup {d}
    BY <2>2, AboveAppend
  <2>4. Above(Append(d, NewName)) \subseteq dirs  BY <2>3 DEF TreeInv
  <2>5. \A p \in dirs' \cup files' : Above(p) \subseteq dirs'  BY <2>1, <2>2, <2>4 DEF TreeInv
  <2>6. Root \in dirs' => Root \notin files'  BY <2>1, <2>2, <2>3 DEF TreeInv
  <2> QED  BY <2>5, <2>6 DEF TreeInv, Root
<1> QED  BY <1>1, <1>2, <1>3, <1>4, <1>5, <1>6, <1>7 DEF Next, Step

\* A call that ends, or is replaced by others and its own end, leaves the bottom of the
\* stack where it was.
LEMMA BottomStays ==
    ASSUME NEW S, NEW s \in Seq(S), s # <<>>, NEW t \in Seq(S), NEW c \in S, Len(s) > 1
    PROVE  /\ Tail(s) # <<>> /\ Tail(s)[Len(Tail(s))] = s[Len(s)]
           /\ LET u == t \o <<c>> \o Tail(s) IN u # <<>> /\ u[Len(u)] = s[Len(s)]
<1>1. Len(s) \in Nat  OBVIOUS
<1>2. Tail(s) \in Seq(S) /\ Len(Tail(s)) = Len(s) - 1
      /\ \A i \in 1..Len(Tail(s)) : Tail(s)[i] = s[i + 1]
  BY HeadTailProperties
<1>3. Tail(s)[Len(s) - 1] = s[Len(s)]  BY <1>1, <1>2
<1>4. Tail(s) # <<>>
  <2>1. Len(Tail(s)) # 0  BY <1>1, <1>2
  <2>2. Len(<<>>) = 0  BY EmptySeq
  <2> QED  BY <2>1, <2>2, Zenon
<1> DEFINE r == Tail(s)
<1> DEFINE h == t \o <<c>>
<1>5. h \in Seq(S)  BY ConcatProperties
<1>6. r \in Seq(S) /\ Len(r) \in Nat \ {0}  BY <1>2, <1>1
<1> HIDE DEF h, r
<1>7. h \o r \in Seq(S) /\ Len(h \o r) = Len(h) + Len(r) /\ Len(h) \in Nat
      /\ (h \o r)[Len(h) + Len(r)] = r[Len(r)]
  BY <1>5, <1>6, ConcatProperties
<1>8. h \o r # <<>>  BY <1>6, <1>7, EmptySeq
<1> QED  BY <1>2, <1>3, <1>4, <1>7, <1>8 DEF h, r

LEMMA DeleteStep ==
    ASSUME TypeOK, TreeInv, DeleteInv, [Next]_vars
    PROVE  DeleteInv'
<1> USE DEF DeleteInv
<1> HIDE DEF Paths
<1>0. outcome = "moved" => phase = "done"  OBVIOUS
<1>1. CASE Start  BY <1>1, <1>0 DEF Start, Raise, Finish, source
<1>2. CASE List  BY <1>2, <1>0 DEF List, Raise, Finish, source
<1>3. CASE EndList  BY <1>3, <1>0 DEF EndList, source
<1>4. CASE CopyFile  BY <1>4, <1>0 DEF CopyFile, source
<1>5. CASE CopyBreaks  BY <1>5, <1>0 DEF CopyBreaks, Raise, Finish, source
<1>6. CASE EndCopy
  <2>1. stack' = <<Call("delete", Root)>> /\ phase' = "delete" /\ phase = "copy"
        /\ outcome' = outcome
    BY <1>6 DEF EndCopy
  <2>2. Call("delete", Root).path = Root  BY DEF Call
  <2>3. stack' # <<>> /\ stack'[Len(stack')].path = Root  BY <2>1, <2>2
  <2>4. stack' = <<Call("delete", Root)'>>  BY <2>1 DEF Call, Root
  <2> QED  BY <2>1, <2>3, <2>4, <1>0 DEF Root
<1>7. CASE DeleteDbfs  BY <1>7 DEF DeleteDbfs, Finish
<1>8. CASE UnlinkLocal
  <2>1. dirs = {} /\ files \subseteq {Root}  BY <1>8, NoRoot DEF UnlinkLocal
  <2> QED  BY <1>8, <2>1 DEF UnlinkLocal, Finish
<1>9. CASE EmptyLocal  BY <1>9, <1>0 DEF EmptyLocal, arguments
<1>10. CASE RmdirLocal  BY <1>10 DEF RmdirLocal, Raise, Finish
<1>11. CASE DeleteVolume
  <2> DEFINE p == Head(stack).path
  <2>1. /\ phase = "delete" /\ phase' = "delete" /\ kind = "volume" /\ outcome' = outcome
        /\ dirs' = dirs /\ stack # <<>> /\ Head(stack).op = "delete"
    BY <1>11 DEF DeleteVolume
  <2>2. Head(stack) \in Calls /\ Tail(stack) \in Seq(Calls) /\ stack \in Seq(Calls)
        /\ Head(stack) = stack[1] /\ Len(stack) \in Nat
    BY <2>1, HeadTailProperties DEF TypeOK
  <2>3. CASE p \in dirs
    <3>1. PICK es \in SetToSeqs(FilesIn(p) \cup DirsIn(p)) :
             stack' = [i \in DOMAIN es |-> Call("delete", es[i])]
                      \o <<Call("rmdir", p)>> \o Tail(stack)
      BY <1>11, <2>3 DEF DeleteVolume
    <3>2. files' = files  BY <1>11, <2>3 DEF DeleteVolume
    <3> DEFINE t == [i \in DOMAIN es |-> Call("delete", es[i])]
    <3> DEFINE c == Call("rmdir", p)
    <3>3. es \in Seq(Paths)  BY Listings
    <3>4. DOMAIN es = 1..Len(es) /\ Len(es) \in Nat /\ \A i \in 1..Len(es) : es[i] \in Paths
      BY <3>3
    <3>5. \A q \in Paths : Call("delete", q) \in Calls /\ Call("rmdir", q) \in Calls
      BY DEF Call, Calls
    <3>6. t \in Seq(Calls)  BY <3>4, <3>5
    <3>7. c \in Calls /\ c.path = p  BY <3>5, <2>2 DEF Calls, Call
    <3> HIDE DEF t, c
    <3>8. stack' = t \o <<c>> \o Tail(stack)  BY <3>1 DEF t, c
    <3>9. Root \in dirs /\ Root \notin files
      <4>1. CASE Root \in dirs  BY <4>1 DEF TreeInv
      <4>2. CASE Root \notin dirs
        <5>1. p \in {} BY <4>2, <2>3, NoRoot
        <5> QED  BY <5>1
      <4> QED  BY <4>1, <4>2
    <3>10. stack' # <<>> /\ stack'[Len(stack')].path = Root
      <4>1. CASE Len(stack) > 1
        BY <2>1, <2>2, <3>6, <3>7, <3>8, <3>9, <4>1, BottomStays
      <4>2. CASE ~(Len(stack) > 1)
        <5>1. p = Root  BY <2>1, <2>2, <3>9, <4>2
        <5>2. Tail(stack) = <<>>
          <6>1. Len(stack) # 0  BY <2>1, <2>2
          <6>2. Len(Tail(stack)) = Len(stack) - 1  BY <2>1, <2>2, HeadTailProperties
          <6>3. Len(Tail(stack)) = 0  BY <6>1, <6>2, <2>2, <4>2
          <6>4. Tail(stack) # <<>> => Len(Tail(stack)) \in Nat \ {0}  BY <2>2, EmptySeq
          <6> QED  BY <6>3, <6>4
        <5>3. t \o <<c>> \in Seq(Calls) /\ Len(t \o <<c>>) = Len(t) + 1 /\ Len(t) \in Nat
              /\ (t \o <<c>>)[Len(t) + 1] = c
          BY <3>6, <3>7, ConcatProperties
        <5>4. stack' = t \o <<c>>  BY <3>8, <5>2, <5>3, ConcatEmptySeq
        <5>5. Len(stack') = Len(t) + 1 /\ stack'[Len(stack')] = c  BY <5>3, <5>4
        <5> QED  BY <5>5, <5>3, <5>1, <3>7, EmptySeq
      <4> QED  BY <4>1, <4>2
    <3> QED  BY <2>1, <3>2, <3>9, <3>10, <1>0 DEF Root
  <2>4. CASE p \notin dirs
    <3>1. p \in files /\ files' = files \ {p} /\ stack' = Tail(stack)
      BY <1>11, <2>4 DEF DeleteVolume
    <3>2. Root \in files => p = Root  BY <2>1, <2>2 DEF Call
    <3>3. Root \notin files'  BY <3>1, <3>2
    <3>4. CASE Root \in dirs
      <4>1. Len(stack) > 1  BY <2>1, <2>2, <2>4, <3>4
      <4>2. stack' # <<>> /\ stack'[Len(stack')].path = Root
        BY <2>1, <2>2, <3>1, <3>4, <4>1, BottomStays
      <4> QED  BY <2>1, <3>3, <4>2, <1>0 DEF Root
    <3>5. CASE Root \notin dirs  BY <2>1, <3>3, <3>5, <1>0 DEF Root
    <3> QED  BY <3>4, <3>5
  <2> QED  BY <2>3, <2>4
<1>12. CASE RmdirVolume
  <2> DEFINE p == Head(stack).path
  <2>1. /\ phase = "delete" /\ kind = "volume" /\ files' = files /\ kind' = kind
        /\ stack # <<>> /\ Head(stack).op = "rmdir"
    BY <1>12 DEF RmdirVolume, arguments
  <2>2. Head(stack) = stack[1] /\ stack \in Seq(Calls) /\ Len(stack) \in Nat
    BY <2>1 DEF TypeOK
  <2>3. Root \notin files
    <3>1. Call("delete", Root).op # "rmdir"  BY DEF Call
    <3> QED  BY <2>1, <2>2, <3>1
  <2>4. CASE FilesIn(p) \cup DirsIn(p) = {}
    <3>1. dirs' = dirs \ {p} /\ stack' = Tail(stack) /\ phase' = phase /\ outcome' = outcome
      BY <1>12, <2>4 DEF RmdirVolume
    <3>2. CASE Root \in dirs'
      <4>1. Root \in dirs /\ p # Root  BY <3>1, <3>2
      <4>2. Len(stack) > 1  BY <2>1, <2>2, <4>1
      <4>3. \E c \in Calls : TRUE  BY <2>1, <2>2
      <4>4. stack' # <<>> /\ stack'[Len(stack')].path = Root
        BY <2>1, <2>2, <3>1, <4>1, <4>2, <4>3, BottomStays, EmptySeq
      <4> QED  BY <2>1, <2>3, <3>1, <4>4, <1>0 DEF Root
    <3>3. CASE Root \notin dirs'  BY <2>1, <2>3, <3>1, <3>3, <1>0 DEF Root
    <3> QED  BY <3>2, <3>3
  <2>5. CASE FilesIn(p) \cup DirsIn(p) # {}
    BY <1>12, <2>5, <1>0 DEF RmdirVolume, Raise, Finish
  <2> QED  BY <2>4, <2>5
<1>13. CASE EndVolume
  <2>1. Root \notin dirs /\ Root \notin files  BY <1>13 DEF EndVolume
  <2>2. dirs = {} /\ files = {}  BY <2>1, NoRoot
  <2> QED  BY <1>13, <2>2 DEF EndVolume, Finish, source
<1>14. CASE Fails  BY <1>14, <1>0 DEF Fails, Raise, Finish
<1>15. CASE Arrive
  <2>1. PICK d \in dirs : files' = files \cup {Append(d, NewName)}  BY <1>15 DEF Arrive
  <2>2. d \in Paths  BY DEF TypeOK
  <2>3. Root \in files' <=> Root \in files  BY <2>1, <2>2, AboveAppend
  <2>4. phase # "done" /\ UNCHANGED <<kind, dirs, phase, stack, outcome>>
    BY <1>15 DEF Arrive, arguments
  <2> QED  BY <2>3, <2>4, <1>0 DEF Root, Call
<1>16. CASE UNCHANGED vars
  <2>1. UNCHANGED <<kind, dirs, files, phase, stack, outcome>>
    BY <1>16 DEF vars, arguments, source
  <2> QED  BY <2>1 DEF Root, Call
<1> QED
  BY <1>1, <1>2, <1>3, <1>4, <1>5, <1>6, <1>7, <1>8, <1>9, <1>10, <1>11, <1>12, <1>13, <1>14,
     <1>15, <1>16 DEF Next, Step

-----------------------------------------------------------------------------
(* What is proved                                                          *)

Inv == TypeOK /\ TreeInv /\ DeleteInv

LEMMA InvStep == Inv /\ [Next]_vars => Inv'
BY TypeStep, TreeStep, DeleteStep DEF Inv

LEMMA AlwaysInv == Spec => []Inv
<1>1. Init => Inv  BY InitOK DEF Inv
<1> QED  BY <1>1, InvStep, PTL DEF Spec

\* The variables of move_ have the values their comments say.
THEOREM TypeCorrect == Spec => []TypeOK
<1>1. Inv => TypeOK  BY DEF Inv
<1> QED  BY <1>1, AlwaysInv, PTL

\* A move that reports success leaves nothing behind at the source, whatever sources and
\* whatever files that arrive meanwhile.
THEOREM SourceIsEmptied == Spec => []SuccessEmptiesSource
<1>1. Inv => SuccessEmptiesSource  BY DEF Inv, DeleteInv, SuccessEmptiesSource
<1> QED  BY <1>1, AlwaysInv, PTL

\* Without overwrite no file at the destination is ever replaced.
THEOREM TargetIsKept == Spec => KeepsTarget
<1> DEFINE Kept == ~overwrite => \A f \in DOMAIN target : target'[f] = target[f]
<1>1. ASSUME Next PROVE Kept
  <2>1. CASE CopyFile \/ CopyBreaks
    <3>1. \/ target' = target
          \/ Opens(Head(found)) /\ \E v \in {"part", "whole"} : target' = Write(Head(found), v)
      BY <2>1 DEF CopyFile, CopyBreaks
    <3>2. CASE target' = target  BY <3>2
    <3>3. ASSUME Opens(Head(found)), NEW v, target' = Write(Head(found), v), ~overwrite,
                 NEW f \in DOMAIN target
          PROVE  target'[f] = target[f]
      <4>1. f # Head(found)  BY <3>3 DEF Opens
      <4> QED  BY <3>3, <4>1 DEF Write
    <3> QED  BY <3>1, <3>2, <3>3
  <2>2. CASE ~(CopyFile \/ CopyBreaks)
    <3>1. target' = target
      BY <1>1, <2>2 DEF Next, Step, Start, List, EndList, EndCopy, DeleteDbfs, UnlinkLocal,
        EmptyLocal, RmdirLocal, DeleteVolume, RmdirVolume, EndVolume, Fails, Arrive
    <3> QED  BY <3>1
  <2> QED  BY <2>1, <2>2
<1>2. [Next]_vars => [Kept]_vars  BY <1>1
<1> QED  BY <1>2, PTL DEF Spec, KeepsTarget

-----------------------------------------------------------------------------
(* Nothing is lost                                                         *)

\* What a source must be like for its listing to find everything.  (That a volume which
\* is not loses files shows the run of a deep volume.)
SourcesListedWhole ==
    \A s \in Sources : s.kind = "volume" =>
        \A e \in s.dirs \ {Root} : Len(e) = 1 \/ <<Last(e)>> \notin s.dirs

\* What is appended is found where it was, and so is what was there before.
LEMMA OccursInConcat ==
    ASSUME NEW S, NEW s \in Seq(S), NEW t \in Seq(S), NEW p, Occurs(p, s) \/ Occurs(p, t)
    PROVE  Occurs(p, s \o t)
<1>1. Len(s) \in Nat /\ Len(t) \in Nat  OBVIOUS
<1>2. /\ Len(s \o t) = Len(s) + Len(t)
      /\ \A i \in 1..(Len(s) + Len(t)) : (s \o t)[i] = IF i <= Len(s) THEN s[i] ELSE t[i - Len(s)]
  BY ConcatProperties
<1>3. ASSUME NEW i \in 1..Len(s), s[i] = p
      PROVE  Occurs(p, s \o t)
  <2>1. i \in 1..(Len(s) + Len(t)) /\ i <= Len(s)  BY <1>1
  <2>2. (s \o t)[i] = p  BY <2>1, <1>2, <1>3
  <2> QED  BY <2>1, <2>2, <1>2 DEF Occurs
<1>4. ASSUME NEW i \in 1..Len(t), t[i] = p
      PROVE  Occurs(p, s \o t)
  <2>1. Len(s) + i \in 1..(Len(s) + Len(t)) /\ ~(Len(s) + i <= Len(s)) /\ Len(s) + i - Len(s) = i
    BY <1>1
  <2>2. (s \o t)[Len(s) + i] = p  BY <2>1, <1>2, <1>4
  <2> QED  BY <2>1, <2>2, <1>2 DEF Occurs
<1> QED  BY <1>3, <1>4 DEF Occurs

\* What is taken from the head of a sequence, and what stays.
LEMMA OccursInTail ==
    ASSUME NEW S, NEW s \in Seq(S), s # <<>>, NEW p, Occurs(p, s)
    PROVE  p = Head(s) \/ Occurs(p, Tail(s))
<1>1. PICK i \in 1..Len(s) : s[i] = p  BY DEF Occurs
<1>2. Len(s) \in Nat /\ Len(Tail(s)) = Len(s) - 1
      /\ \A j \in 1..Len(Tail(s)) : Tail(s)[j] = s[j + 1]
  BY HeadTailProperties
<1>3. CASE i = 1  BY <1>1, <1>3
<1>4. CASE i # 1
  <2>1. i - 1 \in 1..Len(Tail(s)) /\ i - 1 + 1 = i  BY <1>2, <1>4
  <2>2. Tail(s)[i - 1] = p  BY <2>1, <1>1, <1>2
  <2> QED  BY <2>1, <2>2 DEF Occurs
<1> QED  BY <1>3, <1>4

\* A listed directory gives way to the files and the directories in it.
LEMMA ListGoesOn ==
    ASSUME TypeOK, TreeInv, ListedWhole, original \subseteq files, queue # <<>>,
           Head(queue) \in dirs,
           NEW fs \in SetToSeqs(FilesIn(Head(queue))), NEW ds \in SetToSeqs(DirsIn(Head(queue))),
           found' = found \o fs,
           queue' = Tail(queue) \o [i \in DOMAIN ds |-> Child(ds[i])],
           UNCHANGED <<dirs, original>>,
           \/ \E i \in 1..Len(queue) : queue[i] \notin dirs
           \/ \A f \in original : Occurs(f, found) \/ \E d \in Above(f) : Occurs(d, queue)
    PROVE  \/ \E i \in 1..Len(queue') : queue'[i] \notin dirs'
           \/ \A f \in original' : Occurs(f, found') \/ \E d \in Above(f) : Occurs(d, queue')
<1> DEFINE h == Head(queue)
<1> DEFINE cs == [i \in DOMAIN ds |-> Child(ds[i])]
<1>1. queue \in Seq(Paths) /\ found \in Seq(Paths) /\ Tail(queue) \in Seq(Paths)
  BY HeadTailProperties DEF TypeOK
<1>2. fs \in Seq(Paths) /\ ds \in Seq(Paths) /\ \A i \in 1..Len(ds) : ds[i] \in DirsIn(h)
  BY Listings
<1>3. \A f \in FilesIn(h) : Occurs(f, fs)
  <2>1. IsFiniteSet(FilesIn(h))  BY Entries
  <2> QED  BY <2>1, ListsAll DEF Occurs
<1>4. \A e \in DirsIn(h) : Occurs(e, ds)
  <2>1. IsFiniteSet(DirsIn(h))  BY Entries
  <2> QED  BY <2>1, ListsAll DEF Occurs
<1>5. DOMAIN ds = 1..Len(ds) /\ Len(ds) \in Nat  BY <1>2
<1>6. \A e \in DirsIn(h) : e \in Paths /\ e # Root /\ e \in dirs  BY DEF DirsIn, TypeOK
<1>7. \A i \in 1..Len(ds) : Child(ds[i]) \in Paths  BY <1>2, <1>6, ChildIsPath
<1>8. cs \in Seq(Paths) /\ Len(cs) = Len(ds) /\ \A i \in 1..Len(ds) : cs[i] = Child(ds[i])
  BY <1>5, <1>7
<1> HIDE DEF cs
<1>9. queue' = Tail(queue) \o cs  BY DEF cs
<1> HIDE DEF Paths, h
<1>10. \A p : Occurs(p, Tail(queue)) \/ Occurs(p, cs) => Occurs(p, queue')
  BY <1>1, <1>8, <1>9, OccursInConcat
<1>11. \A p : Occurs(p, found) \/ Occurs(p, fs) => Occurs(p, found')
  BY <1>1, <1>2, OccursInConcat
<1>12. CASE \E p : p \notin dirs /\ Occurs(p, queue)
  <2>1. PICK p : p \notin dirs /\ Occurs(p, queue)  BY <1>12
  <2>2. Occurs(p, Tail(queue))  BY <1>1, <2>1, OccursInTail DEF h
  <2>3. Occurs(p, queue')  BY <2>2, <1>10
  <2> QED  BY <2>1, <2>3 DEF Occurs
<1>13. CASE \E e \in DirsIn(h) : Child(e) # e
  <2>1. PICK e \in DirsIn(h) : Child(e) # e  BY <1>13
  <2>2. kind = "volume" /\ Child(e) = <<Last(e)>>  BY <2>1 DEF Child
  <2>3. Len(e) # 1
    <3>1. SUFFICES ASSUME Len(e) = 1 PROVE FALSE  OBVIOUS
    <3>2. e = <<e[1]>>  BY <3>1, <1>6 DEF Paths
    <3> QED  BY <3>1, <3>2, <2>1, <2>2 DEF Last
  <2>4. Child(e) \notin dirs  BY <2>2, <2>3, <1>6 DEF ListedWhole
  <2>5. PICK i \in 1..Len(ds) : ds[i] = e  BY <1>4 DEF Occurs
  <2>6. Occurs(Child(e), cs)  BY <2>5, <1>8 DEF Occurs
  <2>7. Occurs(Child(e), queue')  BY <2>6, <1>10
  <2> QED  BY <2>4, <2>7 DEF Occurs
<1>14. CASE /\ ~\E p : p \notin dirs /\ Occurs(p, queue)
            /\ \A e \in DirsIn(h) : Child(e) = e
  <2>1. \A e \in DirsIn(h) : Occurs(e, cs)
    <3>1. SUFFICES ASSUME NEW e \in DirsIn(h) PROVE Occurs(e, cs)  OBVIOUS
    <3>2. PICK i \in 1..Len(ds) : ds[i] = e  BY <1>4 DEF Occurs
    <3> QED  BY <3>2, <1>8, <1>14 DEF Occurs
  <2>2. \A f \in original : Occurs(f, found) \/ \E d \in Above(f) : Occurs(d, queue)
    BY <1>14 DEF Occurs
  <2>3. ASSUME NEW f \in original
        PROVE  Occurs(f, found') \/ \E d \in Above(f) : Occurs(d, queue')
    <3>1. f \in files /\ f \in Paths /\ Above(f) \subseteq dirs  BY DEF TypeOK, TreeInv
    <3>2. CASE Occurs(f, found)  BY <3>2, <1>11
    <3>3. ASSUME NEW d \in Above(f), Occurs(d, Tail(queue))
          PROVE  \E e \in Above(f) : Occurs(e, queue')
      BY <3>3, <1>10
    <3>4. CASE h \in Above(f)
      <4>1. CASE f # Root /\ Front(f) = h
        <5>1. f \in FilesIn(h)  BY <4>1, <3>1 DEF FilesIn
        <5> QED  BY <5>1, <1>3, <1>11
      <4>2. ASSUME NEW e \in Above(f), e \in Paths, e # Root, Front(e) = h
            PROVE  \E d \in Above(f) : Occurs(d, queue')
        <5>1. e \in DirsIn(h)  BY <4>2, <3>1 DEF DirsIn
        <5>2. Occurs(e, queue')  BY <5>1, <2>1, <1>10
        <5> QED  BY <5>2
      <4> QED  BY <4>1, <4>2, <3>1, <3>4, NextAbove
    <3>5. \A d \in Above(f) : Occurs(d, queue) => d = h \/ Occurs(d, Tail(queue))
      BY <1>1, OccursInTail DEF h
    <3> QED  BY <2>2, <3>2, <3>3, <3>4, <3>5
  <2> QED  BY <2>3
<1> QED  BY <1>12, <1>13, <1>14

\* The step of list() on a directory, and the one to the next file of copy, keep every
\* file in sight.
LEMMA MoveStep ==
    ASSUME TypeOK, TreeInv, MoveInv, [Next]_vars
    PROVE  MoveInv'
<1> HIDE DEF Paths
<1>0. \A f : UNCHANGED <<target>> => (Copied(f)' <=> Copied(f))  BY DEF Copied
<1>1. CASE Start
  <2>1. /\ phase = "start" /\ ListedWhole /\ original \subseteq files
        /\ UNCHANGED <<kind, dirs, files, original, target>>
    BY <1>1 DEF Start, MoveInv, arguments, source
  <2>2. ListedWhole'  BY <2>1 DEF ListedWhole, Root
  <2>3. CASE Root \in dirs /\ recursive
    <3>1. phase' = "list" /\ queue' = <<Root>> /\ found' = found  BY <1>1, <2>3 DEF Start
    <3>2. \A f \in original : f \in Paths /\ f # Root  BY <2>1, <2>3 DEF TypeOK, TreeInv
    <3>3. \A f \in original : Root \in Above(f)  BY <3>2, RootAbove
    <3>4. Len(queue') = 1 /\ queue'[1] = Root  BY <3>1
    <3>5. Occurs(Root, queue')  BY <3>4 DEF Occurs
    <3> QED  BY <2>1, <2>2, <3>1, <3>3, <3>5 DEF MoveInv
  <2>4. CASE Root \in dirs /\ ~recursive
    <3>1. phase' = "done"  BY <1>1, <2>4 DEF Start, Raise, Finish
    <3> QED  BY <2>1, <3>1 DEF MoveInv
  <2>5. CASE Root \notin dirs
    <3>1. phase' = "copy" /\ found' = <<Root>>  BY <1>1, <2>5 DEF Start
    <3>2. \A f \in original : f = Root  BY <2>1, <2>5, NoRoot
    <3>3. Len(found') = 1 /\ found'[1] = Root  BY <3>1
    <3>4. \A f \in original : Occurs(f, found')  BY <3>2, <3>3 DEF Occurs
    <3> QED  BY <2>1, <3>1, <3>4 DEF MoveInv
  <2> QED  BY <2>3, <2>4, <2>5
<1>2. CASE List
  <2>1. /\ phase = "list" /\ ListedWhole /\ original \subseteq files /\ queue # <<>>
        /\ UNCHANGED <<kind, dirs, files, original, target>>
    BY <1>2 DEF List, MoveInv, arguments, source
  <2>2. ListedWhole'  BY <2>1 DEF ListedWhole, Root
  <2>3. CASE Head(queue) \in dirs
    <3>1. PICK fs \in SetToSeqs(FilesIn(Head(queue))), ds \in SetToSeqs(DirsIn(Head(queue))) :
             /\ found' = found \o fs
             /\ queue' = Tail(queue) \o [i \in DOMAIN ds |-> Child(ds[i])]
             /\ UNCHANGED <<phase, outcome>>
      BY <1>2, <2>3 DEF List
    <3>2. \/ \E i \in 1..Len(queue) : queue[i] \notin dirs
          \/ \A f \in original : Occurs(f, found) \/ \E d \in Above(f) : Occurs(d, queue)
      BY <2>1 DEF MoveInv
    <3>3. \/ \E i \in 1..Len(queue') : queue'[i] \notin dirs'
          \/ \A f \in original' : Occurs(f, found') \/ \E d \in Above(f) : Occurs(d, queue')
      BY <2>1, <2>3, <3>1, <3>2, ListGoesOn
    <3> QED  BY <2>1, <2>2, <3>1, <3>3 DEF MoveInv
  <2>4. CASE Head(queue) \notin dirs
    <3>1. phase' = "done"  BY <1>2, <2>4 DEF List, Raise, Finish
    <3> QED  BY <2>1, <3>1 DEF MoveInv
  <2> QED  BY <2>3, <2>4
<1>3. CASE EndList
  <2>1. /\ phase = "list" /\ phase' = "copy" /\ queue = <<>> /\ original \subseteq files
        /\ UNCHANGED <<dirs, files, original, target, found>>
    BY <1>3 DEF EndList, MoveInv, arguments, source
  <2>2. \A i \in 1..Len(queue) : FALSE  BY <2>1
  <2>3. \A f \in original : Occurs(f, found)  BY <2>1, <2>2 DEF MoveInv, Occurs
  <2> QED  BY <2>1, <2>3 DEF MoveInv
<1>4. CASE CopyFile
  <2>1. /\ phase = "copy" /\ phase' = "copy" /\ found # <<>> /\ original \subseteq files
        /\ target' = Write(Head(found), "whole") /\ found' = Tail(found)
        /\ UNCHANGED <<dirs, files, original>>
    BY <1>4 DEF CopyFile, MoveInv, arguments, source
  <2>2. \A f : Copied(f) \/ f = Head(found) => Copied(f)'  BY <2>1 DEF Copied, Write
  <2>3. found \in Seq(Paths)  BY DEF TypeOK
  <2>4. \A f \in original : Occurs(f, found) => f = Head(found) \/ Occurs(f, found')
    BY <2>1, <2>3, OccursInTail
  <2>5. \A f \in original : Occurs(f, found) \/ Copied(f)  BY <2>1 DEF MoveInv
  <2>6. \A f \in original' : Occurs(f, found') \/ Copied(f)'  BY <2>1, <2>2, <2>4, <2>5
  <2> QED  BY <2>1, <2>6 DEF MoveInv
<1>5. CASE CopyBreaks
  BY <1>5 DEF CopyBreaks, Raise, Finish, MoveInv, arguments, source
<1>6. CASE EndCopy
  <2>1. /\ phase = "copy" /\ phase' = "delete" /\ found = <<>>
        /\ UNCHANGED <<original, target>>
    BY <1>6 DEF EndCopy, arguments
  <2>2. \A i \in 1..Len(found) : FALSE  BY <2>1
  <2>3. \A f \in original : Copied(f)  BY <2>1, <2>2 DEF MoveInv, Occurs
  <2> QED  BY <2>1, <2>3, <1>0 DEF MoveInv
<1>7. CASE DeleteDbfs \/ UnlinkLocal \/ EmptyLocal \/ RmdirLocal \/ DeleteVolume \/ RmdirVolume
           \/ EndVolume
  <2>1. /\ phase = "delete" /\ phase' \in {"delete", "done"}
        /\ UNCHANGED <<original, target>>
    BY <1>7 DEF DeleteDbfs, UnlinkLocal, EmptyLocal, RmdirLocal, DeleteVolume, RmdirVolume,
      EndVolume, Raise, Finish, arguments
  <2>2. \A f \in original : Copied(f)  BY <2>1 DEF MoveInv
  <2> QED  BY <2>1, <2>2, <1>0 DEF MoveInv
<1>8. CASE Fails
  <2>1. /\ phase \in {"start", "list", "delete"} /\ phase' = "done"
        /\ UNCHANGED <<original, target>>
    BY <1>8 DEF Fails, Raise, Finish, arguments
  <2>2. CASE phase = "delete"
    <3>1. \A f \in original : Copied(f)  BY <2>2 DEF MoveInv
    <3> QED  BY <2>1, <3>1, <1>0 DEF MoveInv
  <2>3. CASE phase # "delete"
    <3>1. Deleting = {}  BY <2>3 DEF Deleting
    <3>2. files' = files  BY <1>8, <3>1 DEF Fails
    <3> QED  BY <2>1, <2>3, <3>2 DEF MoveInv
  <2> QED  BY <2>2, <2>3
<1>9. CASE Arrive
  <2>1. /\ files \subseteq files' /\ phase # "done"
        /\ UNCHANGED <<kind, dirs, phase, original, target, queue, found>>
    BY <1>9 DEF Arrive, arguments
  <2>2. ListedWhole' <=> ListedWhole  BY <2>1 DEF ListedWhole, Root
  <2> QED  BY <2>1, <2>2, <1>0 DEF MoveInv
<1>10. CASE UNCHANGED vars
  <2>1. UNCHANGED <<kind, dirs, files, phase, original, target, queue, found>>
    BY <1>10 DEF vars, arguments, source
  <2>2. ListedWhole' <=> ListedWhole  BY <2>1 DEF ListedWhole, Root
  <2> QED  BY <2>1, <2>2, <1>0 DEF MoveInv
<1> QED
  BY <1>1, <1>2, <1>3, <1>4, <1>5, <1>6, <1>7, <1>8, <1>9, <1>10 DEF Next, Step

\* move_ never loses a file, whatever fails on the way, if its listing finds the whole
\* source: that of volumes finds only trees in which no directory has the name of one
\* of the directories that the source itself has in it.
THEOREM NothingIsLost ==
    ASSUME SourcesListedWhole
    PROVE  Spec => []LosesNothing
<1>1. ASSUME Init PROVE MoveInv
  <2>1. PICK s \in Sources :
           kind = s.kind /\ dirs = s.dirs /\ files = s.files /\ original = s.files
    BY <1>1 DEF Init
  <2>2. ListedWhole  BY <2>1 DEF SourcesListedWhole, ListedWhole
  <2>3. phase = "start"  BY <1>1 DEF Init
  <2> QED  BY <2>1, <2>2, <2>3 DEF MoveInv
<1>2. Inv /\ MoveInv /\ [Next]_vars => MoveInv'  BY MoveStep DEF Inv
<1>3. Inv /\ MoveInv => LosesNothing
  <2> SUFFICES ASSUME Inv, MoveInv, NEW f \in original
               PROVE  f \in files \/ Copied(f)
    BY DEF LosesNothing, Copied
  <2>1. phase \in {"start", "list", "copy", "delete", "done"}  BY DEF Inv, TypeOK
  <2> QED  BY <2>1 DEF MoveInv
<1> QED  BY <1>1, <1>2, <1>3, AlwaysInv, PTL DEF Spec
=============================================================================
