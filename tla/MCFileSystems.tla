---------------------------- MODULE MCFileSystems ----------------------------
(* The custom file systems and the mmap file system, which share no state, each *)
(* explored by itself while the other stays as it is.                           *)
EXTENDS CustomFs, MmapFile, TLC

VARIABLE explored

allVars == <<explored, vars, fileVars>>

CONSTANTS t1, t2, f1, f2, b1, b2

\* Two threads, two files, and one mount of a custom file system; two descriptors
\* of one mapped file, and two bytes to write.
Threads == {t1, t2}
TwoDescriptors == {f1, f2}
TwoBytes == {b1, b2}
Symmetry == Permutations(Threads) \cup Permutations(TwoDescriptors) \cup Permutations(TwoBytes)

FileSystemsInit ==
    /\ explored \in {"custom", "mmap"}
    /\ Init /\ FileInit

FileSystemsNext ==
    /\ UNCHANGED explored
    /\ \/ explored = "custom" /\ Next /\ UNCHANGED fileVars
       \/ explored = "mmap" /\ FileNext /\ UNCHANGED vars

FileSystemsSpec == FileSystemsInit /\ [][FileSystemsNext]_fsVars
=============================================================================
