----------------------------- MODULE MCFileMove -----------------------------
(* Small instances of FileMove for TLC. *)
EXTENDS FileMove

Source(kinds, ds, fs) == {[kind |-> k, dirs |-> ds, files |-> fs] : k \in kinds}

\* A file; a directory with a file in it and one in a directory of its own; a
\* directory and its directory "a" which both have one that is called "b"; a
\* directory "a" in one that is called so, too.
MCFile == Source(Kinds, {}, {Root})
MCShallow == Source(Kinds, {Root, <<"b">>}, {<<"a">>, <<"b", "a">>})
MCDeep(kinds) ==
    Source(kinds, {Root, <<"a">>, <<"b">>, <<"a", "b">>}, {<<"b", "a">>, <<"a", "b", "a">>})
MCNested == Source({"local", "dbfs"}, {Root, <<"a">>, <<"a", "a">>}, {<<"a", "a", "b">>})

\* Volumes with trees that list() finds completely, and anything elsewhere.
MCSources == MCFile \cup MCShallow \cup MCDeep({"local", "dbfs"}) \cup MCNested
MCDeepVolume == MCDeep({"volume"})
=============================================================================
