------------------------------ MODULE MmapFile ------------------------------
(* One host file under the mmap file system: enclave/hostfsmmap.c inside the enclave and           *)
(* host/mmapfs.cpp outside. A descriptor maps the file; behind the data, at the next chunk          *)
(* boundary, a writable file carries a tag with its real size (ert_mmapfs_file_size_t), from        *)
(* which an open after a crash recovers the size. The unit of length is the tag, so that a tag      *)
(* fills one cell. The mapping is shared: what is stored there is in the file at once and           *)
(* survives the end of the process.                                                                 *)
(* A descriptor's lock makes each of its calls one after the other. A call is split where the       *)
(* process may end with the file in between, and where other descriptors can see it.                *)
EXTENDS Integers, Sequences

CONSTANTS FD,       \* the descriptors; at most one at a time is open for writing
          Byte,     \* what the program writes
          Chunk,    \* OE_MMAP_FILE_CHUNK_SIZE
          MaxOffset,\* bound on the offsets that the program uses and on the files it opens to write
          MaxCount  \* bound on the length of a write or read

ASSUME BytesAreData == 0 \notin Byte
ASSUME SizesAreNumbers == /\ Chunk \in Nat \ {0} /\ MaxOffset \in Nat /\ MaxCount \in Nat

VARIABLES disk,     \* the cells of the host file
          pc,       \* where each descriptor's call is
          writable, \* the descriptors opened O_RDWR
          fileSize, \* file_size
          mapped,   \* how much of the file is mapped
          writing,  \* the write under way
          content,  \* history: what the program has written, up to the size that it knows
          misplaced,\* history: the kinds of calls that have misplaced the tag (see Misplacing*)
          torn,     \* history: the process ended between a change of length and its tag
          stale     \* history: readers whose size the file does not have

fileVars == <<disk, pc, writable, fileSize, mapped, writing, content, misplaced, torn, stale>>

Hole == 0           \* content that the program has not written

Data(b) == [kind |-> "data", val |-> b]
Zero == Data(0)
Tag(n) == [kind |-> "tag", val |-> n]
Mixed == [kind |-> "mixed", val |-> 0]  \* half a cell of data, half a size
Cell == [kind : {"data"}, val : Byte \cup {0}] \cup [kind : {"tag"}, val : 0..MaxOffset] \cup {Mixed}

Round(n) == ((n + Chunk - 1) \div Chunk) * Chunk
RegionSize(n) == IF n = 0 THEN Chunk ELSE Round(n)

\* ftruncate of the host
Resize(d, n) == [i \in 1..n |-> IF i <= Len(d) THEN d[i] ELSE Zero]

\* The size field of what should be the tag, at the place where _set_file_size expects it.
StoreSize(d, n) ==
    [d EXCEPT ![Round(n) + 1] = IF @.kind = "tag" THEN Tag(n) ELSE Mixed]

\* The size that an open finds; Bad if it refuses the file.
Bad == -1
RealSize(d) ==
    LET n == Len(d)
    IN  IF n = 0 \/ d[n].kind # "tag" THEN n
        ELSE IF d[n].val <= n - 1 THEN d[n].val
        ELSE Bad

IsOpen(f) == pc[f] = "open"
Window == \E f \in FD : pc[f] \in {"opened", "extend"}
OtherReaders(f) == {g \in FD \ {f} : pc[g] # "closed"}

\* Where a call reads or writes: the argument of pread and pwrite, or file_position, which lseek
\* sets to any value; so the position is not kept.
Offset == 0..MaxOffset

NoWrite == [offset |-> 0, count |-> 0, byte |-> 0]
WriteCall == {c \in [offset : Offset, count : 0..MaxCount, byte : Byte] : c.offset + c.count <= MaxOffset}

Last(c) == c.offset + c.count

--------------------------------------------------------------------------------------------------
(* open *)

\* ert_mmapfs_open_ocall for reading: recover the size, map the file.
OpenRead(f) ==
    LET n == RealSize(disk)
    IN  /\ pc[f] = "closed"
        /\ n # Bad
        /\ pc' = [pc EXCEPT ![f] = "open"]
        /\ fileSize' = [fileSize EXCEPT ![f] = n]
        /\ mapped' = [mapped EXCEPT ![f] = RegionSize(n)]
        /\ stale' = IF n = Len(content) THEN stale ELSE stale \cup {f}
        /\ UNCHANGED <<disk, writable, writing, content, misplaced, torn>>

\* What a program sees in a file that it has not written itself.
Seen(d, n) == [i \in 1..n |-> IF d[i].kind = "data" THEN d[i].val ELSE Hole]

\* The same for writing, up to the ftruncate that makes room for the tag. If the size is not the
\* one the last writer knew, the program goes on with the file as it finds it.
OpenWrite(f, trunc) ==
    LET d == IF trunc THEN << >> ELSE disk
        n == RealSize(d)
    IN  /\ pc[f] = "closed"
        /\ writable = {}
        /\ n # Bad /\ n <= MaxOffset
        /\ disk' = Resize(d, RegionSize(n) + 1)
        /\ pc' = [pc EXCEPT ![f] = "opened"]
        /\ writable' = {f}
        /\ fileSize' = [fileSize EXCEPT ![f] = n]
        /\ mapped' = [mapped EXCEPT ![f] = RegionSize(n) + 1]
        /\ content' = IF n = Len(content) THEN content ELSE Seen(d, n)
        /\ stale' = IF n = Len(content) THEN stale ELSE stale \cup OtherReaders(f)
        /\ misplaced' = {}
        /\ torn' = FALSE
        /\ UNCHANGED writing

OpenTag(f) ==
    /\ pc[f] = "opened"
    /\ disk' = [disk EXCEPT ![RegionSize(fileSize[f]) + 1] = Tag(fileSize[f])]
    /\ pc' = [pc EXCEPT ![f] = "open"]
    /\ UNCHANGED <<writable, fileSize, mapped, writing, content, misplaced, torn, stale>>

--------------------------------------------------------------------------------------------------
(* read *)

\* What a read of n cells at an offset gets. Nothing else comes of it.
Count(f, o, n) == IF o > fileSize[f] THEN 0
                  ELSE IF n > fileSize[f] - o THEN fileSize[f] - o ELSE n

\* Pages of the mapping that lie behind the end of the file cannot be accessed.
Accessible(f, n) == n <= Round(mapped[f]) /\ n <= Round(Len(disk))

--------------------------------------------------------------------------------------------------
(* write *)

\* with the room of the tag taken for room for data
Extends_TagRoom(f, c) ==
    c.offset >= RegionSize(fileSize[f]) + 1 \/ c.count > RegionSize(fileSize[f]) + 1 - c.offset

\* The mapping is too short for the call: _extend's condition.
Extends(f, c) ==
    c.offset >= RegionSize(fileSize[f]) \/ c.count > RegionSize(fileSize[f]) - c.offset

\* Calls after which the tag is not where the next size is stored or recovered: the extension of an
\* empty file, which copies the file's first cell to the new end instead of the tag, and an
\* ftruncate to another chunk, which stores the size in a cell of data.
MisplacingExtension(f) == IF fileSize[f] = 0 THEN {"empty"} ELSE {}
MisplacingTruncate(f, n) ==
    IF n # fileSize[f] /\ Round(n) # RegionSize(fileSize[f]) THEN {"truncate"} ELSE {}

\* memcpy into the mapping. A call that does not move the end of the file is done with that.
Copy(f, c) ==
    /\ disk' = [i \in 1..Len(disk) |-> IF i > c.offset /\ i <= Last(c) THEN Data(c.byte) ELSE disk[i]]
    /\ content' = [i \in 1..Len(content) |->
                      IF i > c.offset /\ i <= Last(c) THEN c.byte ELSE content[i]]
    /\ IF Last(c) > fileSize[f]
       THEN /\ pc' = [pc EXCEPT ![f] = "size"]
            /\ writing' = [writing EXCEPT ![f] = c]
       ELSE /\ pc' = [pc EXCEPT ![f] = "open"]
            /\ writing' = [writing EXCEPT ![f] = NoWrite]

WriteWithin(f, c) ==
    /\ IsOpen(f) /\ f \in writable
    /\ ~Extends(f, c)
    /\ Copy(f, c)
    /\ UNCHANGED <<writable, fileSize, mapped, misplaced, torn, stale>>

\* with a new mapping that has no room for the tag
Extend_NoTagRoom(f, c) ==
    LET region == Round(Last(c))
    IN  /\ IsOpen(f) /\ f \in writable
        /\ Extends(f, c)
        /\ disk' = Resize(disk, region + 1)
        /\ mapped' = [mapped EXCEPT ![f] = region]
        /\ misplaced' = misplaced \cup MisplacingExtension(f)
        /\ pc' = [pc EXCEPT ![f] = "extend"]
        /\ writing' = [writing EXCEPT ![f] = c]
        /\ UNCHANGED <<writable, fileSize, content, torn, stale>>

\* ert_mmapfs_extend_ocall, up to the moment when the file has grown and is mapped anew.
Extend(f, c) ==
    LET region == Round(Last(c))
    IN  /\ IsOpen(f) /\ f \in writable
        /\ Extends(f, c)
        /\ disk' = Resize(disk, region + 1)
        /\ mapped' = [mapped EXCEPT ![f] = region + 1]
        /\ misplaced' = misplaced \cup MisplacingExtension(f)
        /\ pc' = [pc EXCEPT ![f] = "extend"]
        /\ writing' = [writing EXCEPT ![f] = c]
        /\ UNCHANGED <<writable, fileSize, content, torn, stale>>

\* without the copy of the tag to the new end
ExtendTag_Stays(f) ==
    /\ pc[f] = "extend"
    /\ pc' = [pc EXCEPT ![f] = "copy"]
    /\ UNCHANGED <<disk, writable, fileSize, mapped, writing, content, misplaced, torn, stale>>

\* The copy of the tag to the new end. The old one stays where it is.
ExtendTag(f) ==
    /\ pc[f] = "extend"
    /\ disk' = [disk EXCEPT ![Round(Last(writing[f])) + 1] = disk[Round(fileSize[f]) + 1]]
    /\ pc' = [pc EXCEPT ![f] = "copy"]
    /\ UNCHANGED <<writable, fileSize, mapped, writing, content, misplaced, torn, stale>>

WriteExtended(f) ==
    /\ pc[f] = "copy"
    /\ Copy(f, writing[f])
    /\ UNCHANGED <<writable, fileSize, mapped, misplaced, torn, stale>>

\* The program's view of a file that ends at n.
ContentTo(n, offset, byte) ==
    [i \in 1..n |-> CASE i <= Len(content) -> content[i]
                      [] i > Len(content) /\ i > offset -> byte
                      [] OTHER -> Hole]

\* _set_file_size at the end of a write
WriteSize(f) ==
    LET n == Last(writing[f])
    IN  /\ pc[f] = "size"
        /\ fileSize' = [fileSize EXCEPT ![f] = n]
        /\ disk' = StoreSize(disk, n)
        /\ content' = ContentTo(n, writing[f].offset, writing[f].byte)
        /\ pc' = [pc EXCEPT ![f] = "open"]
        /\ writing' = [writing EXCEPT ![f] = NoWrite]
        /\ UNCHANGED <<writable, mapped, misplaced, torn, stale>>

--------------------------------------------------------------------------------------------------
(* ftruncate, close, crash *)

\* ftruncate stores the size and nothing else: neither the file nor the mapping changes.
FTruncate(f, n) ==
    /\ IsOpen(f) /\ f \in writable
    /\ Accessible(f, Round(n) + 1)
    /\ fileSize' = [fileSize EXCEPT ![f] = n]
    /\ disk' = StoreSize(disk, n)
    /\ content' = ContentTo(n, n, Hole)
    /\ misplaced' = misplaced \cup MisplacingTruncate(f, n)
    /\ stale' = IF n < fileSize[f] THEN stale \cup OtherReaders(f) ELSE stale
    /\ UNCHANGED <<pc, writable, mapped, writing, torn>>

\* The descriptors' file_t are gone.
Free(fs) ==
    /\ pc' = [f \in FD |-> IF f \in fs THEN "closed" ELSE pc[f]]
    /\ fileSize' = [f \in FD |-> IF f \in fs THEN 0 ELSE fileSize[f]]
    /\ mapped' = [f \in FD |-> IF f \in fs THEN 0 ELSE mapped[f]]

CloseRead(f) ==
    /\ IsOpen(f) /\ f \notin writable
    /\ Free({f})
    /\ stale' = stale \ {f}
    /\ UNCHANGED <<disk, writable, writing, content, misplaced, torn>>

\* ert_mmapfs_close_ocall: unmap, then cut the file to its size.
CloseUnmap(f) ==
    /\ IsOpen(f) /\ f \in writable
    /\ pc' = [pc EXCEPT ![f] = "closing"]
    /\ mapped' = [mapped EXCEPT ![f] = 0]
    /\ UNCHANGED <<disk, writable, fileSize, writing, content, misplaced, torn, stale>>

CloseCut(f) ==
    /\ pc[f] = "closing"
    /\ disk' = Resize(disk, fileSize[f])
    /\ Free({f})
    /\ writable' = {}
    /\ misplaced' = {}
    /\ UNCHANGED <<writing, content, torn, stale>>

\* The host process ends: the file stays as it is.
ProcessEnds ==
    /\ Free(FD)
    /\ writable' = {}
    /\ writing' = [f \in FD |-> NoWrite]
    /\ stale' = {}
    /\ torn' = (torn \/ Window)
    /\ UNCHANGED <<disk, content, misplaced>>

Crash == (\E f \in FD : pc[f] # "closed") /\ ProcessEnds

\* An access behind the end of the file or of the mapping ends the process, too. What is behind the
\* mapping may also be other memory of the process; the model does not follow a program that has
\* overwritten that.
ReadFaults(f, o, n) ==
    IsOpen(f) /\ Count(f, o, n) > 0 /\ ~Accessible(f, o + Count(f, o, n)) /\ ProcessEnds
TruncateFaults(f, n) == IsOpen(f) /\ f \in writable /\ ~Accessible(f, Round(n) + 1) /\ ProcessEnds

--------------------------------------------------------------------------------------------------
FileInit ==
    /\ disk = << >>
    /\ pc = [f \in FD |-> "closed"]
    /\ writable = {}
    /\ fileSize = [f \in FD |-> 0]
    /\ mapped = [f \in FD |-> 0]
    /\ writing = [f \in FD |-> NoWrite]
    /\ content = << >>
    /\ misplaced = {}
    /\ torn = FALSE
    /\ stale = {}

FileNext ==
    \/ \E f \in FD :
          \/ OpenRead(f) \/ OpenTag(f) \/ ExtendTag(f) \/ WriteExtended(f) \/ WriteSize(f)
          \/ CloseRead(f) \/ CloseUnmap(f) \/ CloseCut(f)
          \/ \E trunc \in BOOLEAN : OpenWrite(f, trunc)
          \/ \E o \in Offset, n \in 1..MaxCount : ReadFaults(f, o, n)
          \/ \E n \in 0..MaxOffset : FTruncate(f, n) \/ TruncateFaults(f, n)
          \/ \E c \in WriteCall : WriteWithin(f, c) \/ Extend(f, c)
    \/ Crash

FileSpec == FileInit /\ [][FileNext]_fileVars

--------------------------------------------------------------------------------------------------
(* Properties. The process may end in any state, so what they say of the file in a state is what   *)
(* a restarted program finds.                                                                       *)

\* Everything has its type; the writer's file_size is the size of what it has written.
FileTypeOK ==
    /\ disk \in Seq(Cell)
    /\ pc \in [FD -> {"closed", "opened", "open", "extend", "copy", "size", "closing"}]
    /\ writable \subseteq FD /\ stale \subseteq FD
    /\ fileSize \in [FD -> Nat] /\ mapped \in [FD -> Nat]
    /\ writing \in [FD -> WriteCall \cup {NoWrite}]
    /\ content \in Seq(Byte \cup {Hole})
    /\ misplaced \subseteq {"empty", "truncate"} /\ torn \in BOOLEAN
    /\ \A f \in writable : pc[f] # "closed" /\ fileSize[f] = Len(content)

\* The file was closed properly with an end that the program has not written. What is there may be
\* a tag that an extension has left behind.
ClosedInHole == content # << >> /\ content[Len(content)] = Hole /\ Len(disk) = Len(content)

\* Between any two calls, after each store of a write that does not extend the file, during and
\* after a close, and after a crash there, the size that an open recovers is the program's. This is
\* the size tag's purpose (common/mmapfs.h:10); not so once the tag has been misplaced.
SizeRecovered ==
    (~Window /\ ~torn /\ misplaced = {} /\ ~ClosedInHole) => RealSize(disk) = Len(content)

\* In the middle of an open or of an extension, too, the size recovered cuts nothing off, and in no
\* state, with the tag in its place or not, does a tag overwrite what the program has written or is
\* a part of it cut off by ftruncate.
NothingLost ==
    /\ (misplaced = {} /\ ~ClosedInHole) => RealSize(disk) >= Len(content)
    /\ \A i \in 1..Len(content) :
          content[i] # Hole => i <= Len(disk) /\ disk[i] = Data(content[i])

\* A descriptor can access all of its file, and a writer the place where its tag belongs, although
\* the mapping's length is not kept but computed from the size, and another descriptor may have
\* changed the file's length since.
Mapped ==
    \A f \in FD : pc[f] \in {"open", "copy", "size"} =>
        /\ f \notin stale => Accessible(f, fileSize[f])
        /\ f \in writable => Accessible(f, RegionSize(fileSize[f]) + 1)
        /\ f \in writable /\ writing[f] # NoWrite => Accessible(f, Round(Last(writing[f])) + 1)
=============================================================================
