------------------------------- MODULE CustomFs -------------------------------
(***************************************************************************)
(* ertlibc/customfs.c and memfs.cpp: file systems that the program itself  *)
(* supplies as a table of callbacks.  A mount clones the device_t that the *)
(* program has registered; an open file keeps a pointer to its clone and   *)
(* the handle that the callbacks gave it; all callbacks of all custom file *)
(* systems run under one spinlock.                                         *)
(*                                                                         *)
(* The callbacks are the program's (for Memfs those of a ramfs).  Here they *)
(* succeed or fail as they like on a file system that consists of one file *)
(* with a size and a set of open handles.  Operations that differ only in  *)
(* the callback they forward to share an op.  Of results only the EINVAL of *)
(* a pread is kept.                                                        *)
(***************************************************************************)
EXTENDS Naturals, FiniteSets

CONSTANTS Thread,
          Device,    \* the clones that mounts can create
          File,      \* the file_t that open and dup can allocate
          Handle,    \* the handles of the callbacks
          Accesses,  \* the access modes that files are opened with
          MaxSize,   \* bound: the size of the file
          MaxLost,   \* bound: how many closes of temporary handles fail
          None

ASSUME CustomFsAssumption == /\ Accesses \subseteq {"r", "w", "rw"}
                             /\ MaxSize \in Nat /\ MaxLost \in Nat
                             /\ None \notin Device \cup File \cup Handle \cup Thread

VARIABLES module,   \* the registered device and its file system: Memfs's lifetime
          device,   \* a clone's life
          flags,    \* the clones whose mount.flags have MS_RDONLY
          file,     \* the file_t that are allocated
          lock,     \* _lock
          call,     \* what each thread does
          handles,  \* external: the handles the file system has open
          size,     \* external: the size of its file
          lost,     \* history: handles whose close failed when nobody kept them
          asked,    \* history: the clones that the program has mounted with MS_RDONLY
          written,  \* history: the read-only mounts through which the file system was changed
          busy,     \* history: something was unmounted or removed while in use
          fault     \* freed memory has been used

fsVars == <<module, device, flags, asked>>
external == <<handles, size, lost, written>>
vars == <<fsVars, file, lock, call, external, busy, fault>>

Op == {"open", "stat", "truncate", "access", "modify", "inspect", "write", "ftruncate",
       "pread", "dup", "close"}

\* past: whether the offset of a pread lies behind the end of the file
\* blind: whether the fstat that a pread makes to find that out has failed
NoCall == [step |-> "idle", op |-> None, device |-> None, file |-> None, new |-> None,
           handle |-> None, offset |-> 0, past |-> FALSE, blind |-> FALSE]
NoFile == [device |-> None, handle |-> None, access |-> None]

Idle(t) == call[t].step \in {"idle", "einval"}
Allocated == {f \in File : file[f] # NoFile}
\* Those that open or dup has returned, so that they are in the table of descriptors.
Published == Allocated \ {call[t].new : t \in Thread}
InUse(d) == \/ \E f \in Published : file[f].device = d
            \/ \E t \in Thread : call[t].device = d
Running == ~fault
\* A pointer to a clone that is not null and not dangling.
Alive(d) == d \in Device /\ device[d] # "freed"
-----------------------------------------------------------------------------
(* Registration and mounts. oe_mount clones, mounts and adds the clone to its *)
(* table, or releases it; oe_umount2 takes it off, unmounts and releases it.   *)

\* oe_load_module_custom_file_system
Load == module' = "loaded"

\* Memfs::Memfs
Construct == /\ Running /\ module = "none"
             /\ Load \/ module' = "removed"
             /\ UNCHANGED <<device, flags, asked, file, lock, call, external, busy, fault>>

\* Memfs::~Memfs: the clones are not told.
Destroy == /\ Running /\ module = "loaded"
           /\ module' = "removed"
           /\ busy' = (busy \/ \E d \in Device : device[d] \in {"cloned", "mounted"} \/ InUse(d))
           /\ UNCHANGED <<device, flags, asked, file, lock, call, external, fault>>

\* _fs_clone
Clone(d) ==
    /\ Running /\ module = "loaded" /\ device[d] = "none"
    /\ device' = [device EXCEPT ![d] = "cloned"]
    /\ UNCHANGED <<module, flags, asked, file, lock, call, external, busy, fault>>

\* _fs_mount: of a clone of a device that is itself never mounted. It fails for a source
\* that is not absolute, when the flags have been stored already.
Mount(d) ==
    /\ Running /\ device[d] = "cloned"
    /\ \E outcome \in {"mounted", "unmounted"} : device' = [device EXCEPT ![d] = outcome]
    /\ \E options \in {{}, {d}} : flags' = flags \cup options /\ asked' = asked \cup options
    /\ UNCHANGED <<module, file, lock, call, external, busy, fault>>

\* _fs_umount2: whether files are open or calls under way is not looked at.
Umount(d) ==
    /\ Running /\ device[d] = "mounted"
    /\ device' = [device EXCEPT ![d] = "unmounted"]
    /\ flags' = flags \ {d}
    /\ busy' = (busy \/ InUse(d))
    /\ UNCHANGED <<module, asked, file, lock, call, external, fault>>

\* _fs_release
Release(d) ==
    /\ Running /\ device[d] = "unmounted"
    /\ device' = [device EXCEPT ![d] = "freed"]
    /\ UNCHANGED <<module, flags, asked, file, lock, call, external, busy, fault>>
-----------------------------------------------------------------------------
(* The beginning of a call, before the lock. *)

UseFreed == fault' = TRUE /\ UNCHANGED <<fsVars, file, lock, call, external, busy>>

Await(t, o, d, f, new) == call' = [call EXCEPT ![t] = [NoCall EXCEPT
                  !.step = "waiting", !.op = o, !.device = d, !.file = f, !.new = new]]
Return(t) == call' = [call EXCEPT ![t] = NoCall]

\* oe_mount_resolve: the caller of a path operation gets the clone and no hold on it.
Resolve(t, d) ==
    /\ Running /\ Idle(t) /\ device[d] = "mounted"
    /\ call' = [call EXCEPT ![t] = [NoCall EXCEPT !.step = "resolved", !.device = d]]
    /\ UNCHANGED <<fsVars, file, lock, external, busy, fault>>

IsReadOnly(d) == d \in flags

\* _make_host_path, which may find that the path is too long, and before it the check
\* that an operation makes.
PathCall(t, o, allowed) ==
    LET d == call[t].device
    IN  /\ Running /\ call[t].step = "resolved"
        /\ IF ~Alive(d) THEN UseFreed
           ELSE /\ \/ allowed /\ Await(t, o, d, None, None)
                   \/ Return(t)
                /\ UNCHANGED <<fsVars, file, lock, external, busy, fault>>

Stat(t) == PathCall(t, "stat", TRUE)
Access(t) == PathCall(t, "access", TRUE)
Link(t) == PathCall(t, "modify", ~IsReadOnly(call[t].device))
Unlink(t) == PathCall(t, "modify", ~IsReadOnly(call[t].device))
Rename(t) == PathCall(t, "modify", ~IsReadOnly(call[t].device))
Truncate_Unchecked(t) == PathCall(t, "truncate", TRUE)
Truncate(t) == PathCall(t, "truncate", ~IsReadOnly(call[t].device))
Mkdir(t) == PathCall(t, "modify", ~IsReadOnly(call[t].device))
Rmdir(t) == PathCall(t, "modify", ~IsReadOnly(call[t].device))

\* _fs_open. O_CREAT and O_TRUNC are passed on, also with O_RDONLY and on a read-only mount.
Open(t, access) ==
    LET d == call[t].device
        f == CHOOSE f \in File \ Allocated : TRUE
    IN  /\ Running /\ call[t].step = "resolved"
        /\ IF ~Alive(d) THEN UseFreed
           ELSE /\ \/ /\ IsReadOnly(d) => access = "r"
                      /\ Allocated # File
                      /\ file' = [file EXCEPT ![f] =
                            [device |-> d, handle |-> None, access |-> access]]
                      /\ Await(t, "open", d, None, f)
                   \/ Return(t) /\ UNCHANGED file
                /\ UNCHANGED <<fsVars, lock, external, busy, fault>>

\* The program uses a descriptor until it closes it, and closes it when nobody uses it.
Usable(f) == f \in Published /\ \A t \in Thread : call[t].op = "close" => call[t].file # f
Unused(f) == \A t \in Thread : call[t].file # f

Readable(f) == file[f].access \in {"r", "rw"}
Writable(f) == file[f].access \in {"w", "rw"}

FileCall(t, f, o, allowed) ==
    /\ Running /\ Idle(t) /\ Usable(f)
    /\ IF allowed
       THEN Await(t, o, file[f].device, f, None)
       ELSE Return(t)
    /\ UNCHANGED <<fsVars, file, lock, external, busy, fault>>

\* Of a transfer's result only success and failure are kept, not the count.
Read(t, f) == FileCall(t, f, "inspect", Readable(f))
Readv(t, f) == FileCall(t, f, "inspect", Readable(f))
Getdents64(t, f) == FileCall(t, f, "inspect", TRUE)
Lseek(t, f) == FileCall(t, f, "inspect", TRUE)
Fstat(t, f) == FileCall(t, f, "inspect", TRUE)
Pread(t, f) == FileCall(t, f, "pread", Readable(f))
Write(t, f) == FileCall(t, f, "write", Writable(f))
Writev(t, f) == FileCall(t, f, "write", Writable(f))
Pwrite(t, f) == FileCall(t, f, "write", Writable(f))
Ftruncate(t, f) == FileCall(t, f, "ftruncate", Writable(f))
Close(t, f) == Unused(f) /\ FileCall(t, f, "close", TRUE)

\* _fs_dup: the copy has the original's handle until the callback has stored another.
CopyOf_WithoutDevice(f) == [file[f] EXCEPT !.device = None]
CopyOf(f) == file[f]
Dup(t, f) ==
    LET g == CHOOSE g \in File \ Allocated : TRUE
    IN  /\ Running /\ Idle(t) /\ Usable(f) /\ Allocated # File
        /\ file' = [file EXCEPT ![g] = CopyOf(f)]
        /\ Await(t, "dup", file[f].device, f, g)
        /\ UNCHANGED <<fsVars, lock, external, busy, fault>>

\* Those that return at once, with or without success, and do not look at the device.
AtOnce(t, f) == /\ Running /\ Idle(t) /\ Usable(f)
                /\ Return(t)
                /\ UNCHANGED <<fsVars, file, lock, external, busy, fault>>
Flock(t, f) == AtOnce(t, f)
Fsync(t, f) == AtOnce(t, f)
Ioctl(t, f) == AtOnce(t, f)
Fcntl(t, f) == AtOnce(t, f)
GetHostFd(t, f) == AtOnce(t, f)
-----------------------------------------------------------------------------
(* The callbacks, under the lock. *)

Lock(t) == /\ Running /\ call[t].step = "waiting" /\ lock = None
           /\ lock' = t
           /\ call' = [call EXCEPT ![t].step = "locked"]
           /\ UNCHANGED <<fsVars, file, external, busy, fault>>

\* A step of the callback phase: the function pointers and the context are read from
\* the clone, and the context is the file system.
Callback(t, at, ops, Step) ==
    /\ Running /\ call[t].step = at /\ call[t].op \in ops
    /\ IF ~Alive(call[t].device) \/ module # "loaded" THEN UseFreed
       ELSE Step /\ UNCHANGED <<fsVars, busy, fault>>

\* oe_spin_unlock, and the callback's result, converted by _err_int or _err_ssize, is returned.
Finish(t) == lock' = None /\ Return(t)

NewHandle == CHOOSE h \in Handle \ handles : TRUE
Wrote(t) == written' = written \cup ({call[t].device} \cap asked)

OpenCallback(t) == Callback(t, "locked", {"open", "dup"},
    /\ \/ /\ handles # Handle
          /\ handles' = handles \cup {NewHandle}
          /\ file' = [file EXCEPT ![call[t].new].handle = NewHandle]
          /\ Finish(t)
          /\ size' \in IF call[t].op = "open" THEN {size, 0} ELSE {size}
       \/ /\ file' = [file EXCEPT ![call[t].new] = NoFile]
          /\ Finish(t)
          /\ UNCHANGED <<handles, size>>
    /\ UNCHANGED <<lost, written>>)

\* _fs_stat and _fs_truncate open the file for themselves.
TempOpen(t) == Callback(t, "locked", {"stat", "truncate"},
    /\ \/ /\ handles # Handle
          /\ handles' = handles \cup {NewHandle}
          /\ call' = [call EXCEPT ![t].step = "temp", ![t].handle = NewHandle]
          /\ UNCHANGED lock
       \/ Finish(t) /\ UNCHANGED handles
    /\ UNCHANGED <<file, size, lost, written>>)

\* The callback's failure does not keep them from closing it.
TempUse_ReturnsOnFailure(t) == Callback(t, "temp", {"stat", "truncate"},
    /\ \/ call' = [call EXCEPT ![t].step = "close"] /\ UNCHANGED lock
       \/ Finish(t)
    /\ IF call[t].op = "truncate" THEN size' \in 0..MaxSize /\ Wrote(t)
       ELSE UNCHANGED <<size, written>>
    /\ UNCHANGED <<file, handles, lost>>)
TempUse(t) == Callback(t, "temp", {"stat", "truncate"},
    /\ call' = [call EXCEPT ![t].step = "close"]
    /\ IF call[t].op = "truncate" THEN size' \in 0..MaxSize /\ Wrote(t)
       ELSE UNCHANGED <<size, written>>
    /\ UNCHANGED <<file, lock, handles, lost>>)

TempClose(t) == Callback(t, "close", {"stat", "truncate"},
    /\ \/ handles' = handles \ {call[t].handle} /\ UNCHANGED lost
       \/ /\ Cardinality(lost) < MaxLost
          /\ lost' = lost \cup {call[t].handle}
          /\ UNCHANGED handles
    /\ Finish(t)
    /\ UNCHANGED <<file, size, written>>)

Inspect(t) == Callback(t, "locked", {"access", "inspect"},
    Finish(t) /\ UNCHANGED <<file, external>>)

Modify(t) == Callback(t, "locked", {"modify"},
    Finish(t) /\ Wrote(t) /\ UNCHANGED <<file, handles, size, lost>>)

WriteCallback(t) == Callback(t, "locked", {"write"},
    /\ Finish(t) /\ Wrote(t)
    /\ size' \in size..MaxSize
    /\ UNCHANGED <<file, handles, lost>>)

FtruncateCallback(t) == Callback(t, "locked", {"ftruncate"},
    /\ Finish(t) /\ Wrote(t)
    /\ size' \in 0..MaxSize
    /\ UNCHANGED <<file, handles, lost>>)

\* A ramfs answers EINVAL to a pread behind the end, others for reasons of their own.
PreadCallback_Unlocks(t) == Callback(t, "locked", {"pread"},
    /\ \E offset \in 1..MaxSize + 1 :
          call' = [call EXCEPT ![t].step = "recheck", ![t].offset = offset, ![t].past = offset > size]
    /\ lock' = None
    /\ UNCHANGED <<file, external>>)
PreadCallback(t) == Callback(t, "locked", {"pread"},
    /\ \/ Finish(t)
       \/ \E offset \in 1..MaxSize + 1 :
             /\ call' = [call EXCEPT ![t].step = "recheck", ![t].offset = offset,
                                     ![t].past = offset > size]
             /\ UNCHANGED lock
    /\ UNCHANGED <<file, external>>)

\* "pread beyond end of file is fine": 0 if the file is shorter than the offset. If it is not,
\* or if the fstat fails, the EINVAL stays.
KeepEinval(t, blind) ==
    /\ lock' = None
    /\ call' = [call EXCEPT ![t] = [NoCall EXCEPT !.step = "einval", !.past = call[t].past,
                                                  !.blind = blind]]
PreadRecheck(t) == Callback(t, "recheck", {"pread"},
    /\ \/ call[t].offset > size /\ Finish(t)
       \/ call[t].offset <= size /\ KeepEinval(t, FALSE)
       \/ KeepEinval(t, TRUE)
    /\ UNCHANGED <<file, external>>)

\* _fs_close: the file_t stays if the callback fails, and so does its descriptor.
CloseCallback(t) == Callback(t, "locked", {"close"},
    /\ \/ /\ handles' = handles \ {file[call[t].file].handle}
          /\ file' = [file EXCEPT ![call[t].file] = NoFile]
          /\ Finish(t)
       \/ Finish(t) /\ UNCHANGED <<handles, file>>
    /\ UNCHANGED <<size, lost, written>>)
-----------------------------------------------------------------------------
Init ==
    /\ module = "none"
    /\ device = [d \in Device |-> "none"] /\ flags = {} /\ asked = {}
    /\ file = [f \in File |-> NoFile]
    /\ lock = None
    /\ call = [t \in Thread |-> NoCall]
    /\ handles = {} /\ size = 0 /\ lost = {} /\ written = {}
    /\ busy = FALSE /\ fault = FALSE

Mounting == \/ Construct \/ Destroy
            \/ \E d \in Device : Clone(d) \/ Mount(d) \/ Umount(d) \/ Release(d)

PathStart(t) == \/ Stat(t) \/ Access(t) \/ Link(t) \/ Unlink(t) \/ Rename(t) \/ Truncate(t)
                \/ Mkdir(t) \/ Rmdir(t) \/ \E access \in Accesses : Open(t, access)

FileStart(t, f) == \/ Read(t, f) \/ Readv(t, f) \/ Getdents64(t, f) \/ Lseek(t, f)
                   \/ Fstat(t, f) \/ Pread(t, f) \/ Write(t, f) \/ Writev(t, f)
                   \/ Pwrite(t, f) \/ Ftruncate(t, f) \/ Close(t, f) \/ Dup(t, f)
                   \/ Flock(t, f) \/ Fsync(t, f) \/ Ioctl(t, f) \/ Fcntl(t, f)
                   \/ GetHostFd(t, f)

Callbacks(t) == \/ OpenCallback(t) \/ TempOpen(t) \/ TempUse(t) \/ TempClose(t) \/ Inspect(t)
                \/ Modify(t) \/ WriteCallback(t) \/ FtruncateCallback(t) \/ PreadCallback(t)
                \/ PreadRecheck(t) \/ CloseCallback(t)

Next == \/ Mounting
        \/ \E t \in Thread : \/ \E d \in Device : Resolve(t, d)
                             \/ PathStart(t) \/ Lock(t) \/ Callbacks(t)
                             \/ \E f \in File : FileStart(t, f)

Spec == Init /\ [][Next]_vars
-----------------------------------------------------------------------------
(* Properties *)

\* The handles that the file system has open are exactly those of the open files and of the
\* stat or truncate in progress, each held once, whichever callbacks fail, except for those that
\* stat or truncate could not close: none is leaked, none is closed twice.
HandlesExact ==
    LET temps == {t \in Thread : call[t].handle # None}
    IN  /\ handles = {file[f].handle : f \in Published} \cup {call[t].handle : t \in temps} \cup lost
        /\ Cardinality(handles) = Cardinality(Published) + Cardinality(temps) + Cardinality(lost)

\* Through a read-only mount nothing is written (except by an open that creates or truncates),
\* neither by path nor by descriptor, unless it is unmounted during a call: _fs_umount2 clears the
\* flag that the call is about to look at.
ReadOnlyUntouched == ~busy => written = {}

\* Freed memory is used only after a mount or a Memfs has been removed while in use.
UsedWhileAlive == fault => busy

\* A pread behind the end of the file ends with EINVAL only if the file system also refuses to say
\* how long the file is, though others may write or truncate meanwhile.
PreadPastEnd == \A t \in Thread : call[t].past /\ call[t].step = "einval" => call[t].blind
=============================================================================
