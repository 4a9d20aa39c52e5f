-------------------------- MODULE FileSystemsProofs --------------------------
(***************************************************************************)
(* The file systems.                                                       *)
(*                                                                         *)
(* CustomFs: freed memory is used only after something was removed in use, *)
(* nothing is written through a read-only mount, a pread behind the end    *)
(* does not fail, and every open file and temporary use holds one handle,  *)
(* for any number of threads, mounts, files and handles.                   *)
(*                                                                         *)
(* MmapFile: an open recovers the size that the last writer knew, neither  *)
(* a tag nor an ftruncate destroys what has been written, and a descriptor *)
(* can access all of its file, for any number of descriptors, any length   *)
(* of chunks and any bound on the offsets.                                 *)
(***************************************************************************)
EXTENDS CustomFs, MmapFile, FiniteSetTheorems, FunctionTheorems, TLAPS

Steps == {"idle", "einval", "resolved", "waiting", "locked", "temp", "close", "recheck"}
\* The steps under the lock.
Inside == {"locked", "temp", "close", "recheck"}
AtRest == {"idle", "einval"}

CallType == [step : Steps, op : Op \cup {None}, device : Device \cup {None},
             file : File \cup {None}, new : File \cup {None}, handle : Handle \cup {None},
             offset : Nat, past : BOOLEAN, blind : BOOLEAN]
FileType == [device : Device \cup {None}, handle : Handle \cup {None}, access : Accesses \cup {None}]

FsTypes == /\ module \in {"none", "loaded", "removed"}
           /\ device \in [Device -> {"none", "cloned", "mounted", "unmounted", "freed"}]
           /\ flags \subseteq Device /\ asked \subseteq Device /\ written \subseteq Device
           /\ size \in 0..MaxSize /\ handles \subseteq Handle /\ lost \subseteq Handle
           /\ lock \in Thread \cup {None} /\ busy \in BOOLEAN /\ fault \in BOOLEAN
FileTypes == file \in [File -> FileType]
CallTypes == call \in [Thread -> CallType]
-----------------------------------------------------------------------------
(* What a step does to its thread's call, in terms of its fields *)

Becomes(t, s, o, d, f, n, h) ==
    /\ CallTypes'
    /\ call'[t].step = s /\ call'[t].op = o /\ call'[t].device = d /\ call'[t].file = f
    /\ call'[t].new = n /\ call'[t].handle = h
    /\ \A u \in Thread \ {t} : call'[u] = call[u]
GoesOn(t, s, h) == Becomes(t, s, call[t].op, call[t].device, call[t].file, call[t].new, h)
Ends(t) == Becomes(t, "idle", None, None, None, None, None)

\* A new call, a call that is over, and one that goes on.
LEMMA Forms ==
    ASSUME CallTypes, NEW t \in Thread
    PROVE  /\ \A o \in Op, d \in Device, f \in File \cup {None}, n \in File \cup {None} :
                 Await(t, o, d, f, n) => Becomes(t, "waiting", o, d, f, n, None)
           /\ Return(t) => Ends(t)
           /\ \A d \in Device : call' = [call EXCEPT ![t] = [NoCall EXCEPT !.step = "resolved", !.device = d]]
                 => Becomes(t, "resolved", None, d, None, None, None)
           /\ \A s \in Steps : call' = [call EXCEPT ![t].step = s]
                 => GoesOn(t, s, call[t].handle)
           /\ \A h \in Handle : call' = [call EXCEPT ![t].step = "temp", ![t].handle = h]
                 => GoesOn(t, "temp", h)
<1> USE DEF CallTypes, Becomes
<1>0. ASSUME NEW r \in CallType, call' = [call EXCEPT ![t] = r]
      PROVE  CallTypes' /\ call'[t] = r /\ \A u \in Thread \ {t} : call'[u] = call[u]
    BY <1>0
<1>1. ASSUME NEW o \in Op, NEW d \in Device, NEW f \in File \cup {None}, NEW n \in File \cup {None},
             Await(t, o, d, f, n)
      PROVE  Becomes(t, "waiting", o, d, f, n, None)
  <2> DEFINE r == [NoCall EXCEPT !.step = "waiting", !.op = o, !.device = d, !.file = f, !.new = n]
  <2>1. r \in CallType
      BY DEF NoCall, CallType, Steps
  <2>2. /\ r.step = "waiting" /\ r.op = o /\ r.device = d /\ r.file = f /\ r.new = n /\ r.handle = None
      BY DEF NoCall
  <2>3. call' = [call EXCEPT ![t] = r]
      BY <1>1, Zenon DEF Await
  <2> HIDE DEF r
  <2>4. QED BY <1>0, <2>1, <2>2, <2>3
<1>2. ASSUME Return(t) PROVE Ends(t)
  <2>1. NoCall \in CallType
      BY DEF NoCall, CallType, Steps
  <2>2. /\ NoCall.step = "idle" /\ NoCall.op = None /\ NoCall.device = None /\ NoCall.file = None
        /\ NoCall.new = None /\ NoCall.handle = None
      BY DEF NoCall
  <2>3. QED BY <1>0, <1>2, <2>1, <2>2 DEF Return, Ends
<1>3. ASSUME NEW d \in Device, call' = [call EXCEPT ![t] = [NoCall EXCEPT !.step = "resolved", !.device = d]]
      PROVE  Becomes(t, "resolved", None, d, None, None, None)
  <2> DEFINE r == [NoCall EXCEPT !.step = "resolved", !.device = d]
  <2>1. r \in CallType
      BY DEF NoCall, CallType, Steps
  <2>2. /\ r.step = "resolved" /\ r.op = None /\ r.device = d /\ r.file = None /\ r.new = None
        /\ r.handle = None
      BY DEF NoCall
  <2>3. call' = [call EXCEPT ![t] = r]
      BY <1>3, Zenon
  <2> HIDE DEF r
  <2>4. QED BY <1>0, <2>1, <2>2, <2>3
<1>4. ASSUME NEW s \in Steps, call' = [call EXCEPT ![t].step = s]
      PROVE  GoesOn(t, s, call[t].handle)
    BY <1>4 DEF CallType, Steps, GoesOn
<1>5. ASSUME NEW h \in Handle, call' = [call EXCEPT ![t].step = "temp", ![t].handle = h]
      PROVE  GoesOn(t, "temp", h)
  <2>1. PICK r : r = [call[t] EXCEPT !.step = "temp", !.handle = h]
      OBVIOUS
  <2>2. /\ r \in CallType /\ r.step = "temp" /\ r.handle = h /\ r.op = call[t].op
        /\ r.device = call[t].device /\ r.file = call[t].file /\ r.new = call[t].new
      BY <2>1 DEF CallType, Steps
  <2>3. call' = [call EXCEPT ![t] = r]
      BY <1>5, <2>1
  <2>4. QED BY <1>0, <2>2, <2>3 DEF GoesOn
<1>6. QED BY <1>1, <1>2, <1>3, <1>4, <1>5, Zenon
-----------------------------------------------------------------------------
(* The steps, in these terms *)

OnlyCall == UNCHANGED <<fsVars, file, lock, external, busy, fault>>
Changing == {"modify", "truncate", "write", "ftruncate"}

\* Path operations, from oe_mount_resolve to the lock.
Resolves(t) == \E d \in Device : /\ call[t].step \in AtRest /\ device[d] = "mounted"
                                 /\ Becomes(t, "resolved", None, d, None, None, None) /\ OnlyCall
Asks(t) == \E o \in {"stat", "access", "modify", "truncate"} :
              /\ call[t].step = "resolved" /\ (o \in Changing => call[t].device \notin flags)
              /\ Becomes(t, "waiting", o, call[t].device, None, None, None) /\ OnlyCall
Opens(t) == \E f \in File \ Allocated, access \in Accesses :
               /\ call[t].step = "resolved" /\ (call[t].device \in flags => access = "r")
               /\ file' = [file EXCEPT ![f] = [device |-> call[t].device, handle |-> None, access |-> access]]
               /\ Becomes(t, "waiting", "open", call[t].device, None, f, None)
               /\ UNCHANGED <<fsVars, lock, external, busy, fault>>
\* Operations on descriptors up to the lock.
Uses(t) == \E f \in File, o \in {"inspect", "pread", "write", "ftruncate", "close"} :
              /\ call[t].step \in AtRest /\ Usable(f)
              /\ (o \in Changing => Writable(f)) /\ (o = "close" => Unused(f))
              /\ Becomes(t, "waiting", o, file[f].device, f, None, None) /\ OnlyCall
Dups(t) == \E f \in File, g \in File \ Allocated :
              /\ call[t].step \in AtRest /\ Usable(f) /\ file' = [file EXCEPT ![g] = file[f]]
              /\ Becomes(t, "waiting", "dup", file[f].device, f, g, None)
              /\ UNCHANGED <<fsVars, lock, external, busy, fault>>
Refused(t) == call[t].step \in AtRest \cup {"resolved"} /\ Ends(t) /\ OnlyCall
Locks(t) == /\ call[t].step = "waiting" /\ lock = None /\ lock' = t
            /\ GoesOn(t, "locked", call[t].handle) /\ UNCHANGED <<fsVars, file, external, busy, fault>>

\* Under the lock.
Given(t) == /\ call[t].step \in Inside /\ Alive(call[t].device) /\ module = "loaded"
            /\ UNCHANGED <<fsVars, busy, fault>>
Leaves(t) == Ends(t) /\ lock' = None
Stores(f, h) == file' = [file EXCEPT ![f].handle = h]
OpenDone(t) == \E h \in Handle \ handles :
                  /\ Given(t) /\ call[t].step = "locked" /\ call[t].op \in {"open", "dup"}
                  /\ handles' = handles \cup {h} /\ Stores(call[t].new, h)
                  /\ Leaves(t) /\ size' \in 0..MaxSize /\ UNCHANGED <<lost, written>>
OpenFailed(t) == /\ Given(t) /\ call[t].step = "locked" /\ call[t].op \in {"open", "dup"}
                 /\ file' = [file EXCEPT ![call[t].new] = NoFile]
                 /\ Leaves(t) /\ UNCHANGED external
TempOpens(t) == \E h \in Handle \ handles :
                   /\ Given(t) /\ call[t].step = "locked" /\ call[t].op \notin {"open", "dup"}
                   /\ handles' = handles \cup {h} /\ GoesOn(t, "temp", h)
                   /\ UNCHANGED <<file, lock, size, lost, written>>
TempUses(t) == /\ Given(t) /\ call[t].step = "temp"
               /\ GoesOn(t, "close", call[t].handle) /\ size' \in 0..MaxSize
               /\ UNCHANGED written \/ (call[t].op \in Changing /\ Wrote(t))
               /\ UNCHANGED <<file, lock, handles, lost>>
TempCloses(t) == /\ Given(t) /\ call[t].step = "close" /\ Leaves(t)
                 /\ \/ handles' = handles \ {call[t].handle} /\ UNCHANGED lost
                    \/ lost' = lost \cup {call[t].handle} /\ UNCHANGED handles
                 /\ UNCHANGED <<file, size, written>>
Closes(t) == /\ Given(t) /\ call[t].step = "locked" /\ call[t].op = "close" /\ Leaves(t)
             /\ handles' = handles \ {file[call[t].file].handle}
             /\ file' = [file EXCEPT ![call[t].file] = NoFile]
             /\ UNCHANGED <<size, lost, written>>
\* The other ends of a call leave the files alone.
Finishes(t) == /\ Given(t) /\ call[t].step \in {"locked", "recheck"} /\ call[t].op \notin {"open", "dup"}
               /\ Leaves(t) /\ size' \in 0..MaxSize
               /\ UNCHANGED written \/ (call[t].op \in Changing /\ Wrote(t))
               /\ UNCHANGED <<file, handles, lost>>
Rechecks(t) == /\ Given(t) /\ call[t].step = "locked" /\ call[t].op = "pread"
               /\ GoesOn(t, "recheck", call[t].handle)
               /\ call'[t].past <=> call'[t].offset > size
               /\ UNCHANGED <<file, lock, external>>
Invalid(t) == /\ Given(t) /\ call[t].step = "recheck" /\ lock' = None
              /\ Becomes(t, "einval", None, None, None, None, None) /\ call'[t].past = call[t].past
              /\ call'[t].blind \/ call[t].offset <= size
              /\ UNCHANGED <<file, external>>

\* The use of freed memory.
Faults(t) == /\ \/ call[t].step = "resolved" /\ ~Alive(call[t].device)
                \/ call[t].step \in Inside /\ (~Alive(call[t].device) \/ module # "loaded")
             /\ UseFreed

\* A handle that a callback gives has not been open.
LEMMA NewHandleIsNew == handles # Handle /\ handles \subseteq Handle => NewHandle \in Handle \ handles
BY DEF NewHandle

\* The file_t that open or dup allocates has been free.
LEMMA NewFileIsNew == Allocated # File => (CHOOSE f \in File \ Allocated : TRUE) \in File \ Allocated
BY DEF Allocated

\* The beginning of a call is one of these steps.
LEMMA Beginnings ==
    ASSUME CallTypes, FileTypes, NEW t \in Thread, call[t].step = "resolved" => call[t].device \in Device,
           \A f \in Allocated : file[f].device \in Device,
           \/ \E d \in Device : Resolve(t, d)
           \/ PathStart(t) \/ \E f \in File : FileStart(t, f)
    PROVE  \/ Resolves(t) \/ Asks(t) \/ Opens(t) \/ Uses(t) \/ Dups(t) \/ Refused(t) \/ Faults(t)
<1> USE DEF OnlyCall
<1>1. CASE \E d \in Device : Resolve(t, d)
    BY <1>1, Forms DEF Resolve, Idle, Resolves, AtRest
<1>2. ASSUME NEW o \in {"stat", "access", "modify", "truncate"}, NEW allowed \in BOOLEAN,
             PathCall(t, o, allowed), allowed /\ o \in Changing => ~IsReadOnly(call[t].device)
      PROVE  Asks(t) \/ Refused(t) \/ Faults(t)
  <2>1. call[t].step = "resolved" /\ call[t].device \in Device
      BY <1>2 DEF PathCall
  <2>2. CASE ~Alive(call[t].device)
      BY <1>2, <2>1, <2>2 DEF PathCall, Faults
  <2>3. CASE Return(t) /\ OnlyCall
      BY <2>1, <2>3, Forms DEF Refused
  <2>4. CASE allowed /\ Await(t, o, call[t].device, None, None) /\ OnlyCall
    <3>1. Becomes(t, "waiting", o, call[t].device, None, None, None)
        BY <2>1, <2>4, Forms DEF Op
    <3>2. QED BY <1>2, <2>1, <2>4, <3>1 DEF Asks, IsReadOnly
  <2>5. QED BY <1>2, <2>2, <2>3, <2>4, Zenon DEF PathCall
<1>3. CASE PathStart(t)
  <2>1. CASE Stat(t) \/ Access(t)
      BY <2>1, <1>2 DEF Stat, Access, Changing
  <2>2. CASE Link(t) \/ Unlink(t) \/ Rename(t) \/ Mkdir(t) \/ Rmdir(t)
      BY <2>2, <1>2 DEF Link, Unlink, Rename, Mkdir, Rmdir
  <2>3. CASE Truncate(t)
      BY <2>3, <1>2 DEF Truncate
  <2>4. CASE \E access \in Accesses : Open(t, access)
    <3>1. PICK access \in Accesses : Open(t, access)
        BY <2>4
    <3>2. PICK f : f = (CHOOSE g \in File \ Allocated : TRUE)
        OBVIOUS
    <3>3. call[t].step = "resolved" /\ call[t].device \in Device
        BY <3>1 DEF Open
    <3>4. CASE ~Alive(call[t].device)
        BY <3>1, <3>3, <3>4 DEF Open, Faults
    <3>5. CASE Return(t) /\ OnlyCall
        BY <3>3, <3>5, Forms DEF Refused
    <3>6. CASE /\ IsReadOnly(call[t].device) => access = "r"
               /\ Allocated # File
               /\ file' = [file EXCEPT ![f] =
                     [device |-> call[t].device, handle |-> None, access |-> access]]
               /\ Await(t, "open", call[t].device, None, f)
               /\ UNCHANGED <<fsVars, lock, external, busy, fault>>
      <4>1. f \in File \ Allocated
          BY <3>2, <3>6, NewFileIsNew
      <4>2. Becomes(t, "waiting", "open", call[t].device, None, f, None)
          BY <3>3, <3>6, <4>1, Forms DEF Op
      <4>3. QED BY <3>3, <3>6, <4>1, <4>2, Zenon DEF Opens, IsReadOnly
    <3>7. QED BY <3>1, <3>2, <3>4, <3>5, <3>6, Zenon DEF Open
  <2>5. QED BY <1>3, <2>1, <2>2, <2>3, <2>4 DEF PathStart
<1>4. CASE \E f \in File : FileStart(t, f)
  <2>1. PICK f \in File : FileStart(t, f)
      BY <1>4
  <2>2. call[t].step \in AtRest /\ Usable(f)
      BY <2>1, Zenon DEF FileStart, Read, Readv, Getdents64, Lseek, Fstat, Pread, Write, Writev, Pwrite,
         Ftruncate, Close, Dup, Flock, Fsync, Ioctl, Fcntl, GetHostFd, FileCall, AtOnce, Idle, AtRest
  <2>3. file[f].device \in Device
      BY <2>2 DEF Usable, Published
  <2>4. ASSUME NEW o \in {"inspect", "pread", "write", "ftruncate", "close"}, NEW allowed \in BOOLEAN,
               FileCall(t, f, o, allowed), allowed /\ o \in Changing => Writable(f), o = "close" => Unused(f)
        PROVE  Uses(t) \/ Refused(t)
    <3>1. OnlyCall
        BY <2>4 DEF FileCall
    <3>2. CASE allowed
      <4>1. Becomes(t, "waiting", o, file[f].device, f, None, None)
          BY <2>3, <2>4, <3>2, Forms DEF FileCall, Op
      <4>2. QED BY <2>2, <2>4, <3>1, <3>2, <4>1 DEF Uses
    <3>3. CASE ~allowed
        BY <2>2, <2>4, <3>1, <3>3, Forms DEF FileCall, Refused
    <3>4. QED BY <3>2, <3>3
  <2>5. CASE Read(t, f) \/ Readv(t, f) \/ Getdents64(t, f) \/ Lseek(t, f) \/ Fstat(t, f) \/ Pread(t, f)
    <3>1. Readable(f) \in BOOLEAN
        BY DEF Readable
    <3>2. QED BY <2>4, <2>5, <3>1 DEF Read, Readv, Getdents64, Lseek, Fstat, Pread, Changing
  <2>6. CASE Write(t, f) \/ Writev(t, f) \/ Pwrite(t, f) \/ Ftruncate(t, f)
    <3>1. Writable(f) \in BOOLEAN
        BY DEF Writable
    <3>2. QED BY <2>4, <2>6, <3>1 DEF Write, Writev, Pwrite, Ftruncate
  <2>7. CASE Close(t, f)
      BY <2>4, <2>7 DEF Close, Changing
  <2>8. CASE Flock(t, f) \/ Fsync(t, f) \/ Ioctl(t, f) \/ Fcntl(t, f) \/ GetHostFd(t, f)
    <3>1. Return(t) /\ OnlyCall
        BY <2>8, Zenon DEF Flock, Fsync, Ioctl, Fcntl, GetHostFd, AtOnce
    <3>2. QED BY <2>2, <3>1, Forms DEF Refused
  <2>9. CASE Dup(t, f)
    <3>1. PICK g \in File \ Allocated : /\ file' = [file EXCEPT ![g] = file[f]]
                                         /\ Await(t, "dup", file[f].device, f, g)
        BY <2>9, NewFileIsNew DEF Dup, CopyOf
    <3>2. Becomes(t, "waiting", "dup", file[f].device, f, g, None)
        BY <2>3, <3>1, Forms DEF Op
    <3>3. UNCHANGED <<fsVars, lock, external, busy, fault>>
        BY <2>9 DEF Dup
    <3>4. QED BY <2>2, <3>1, <3>2, <3>3, Zenon DEF Dups
  <2>10. QED BY <2>1, <2>5, <2>6, <2>7, <2>8, <2>9 DEF FileStart
<1>5. QED BY <1>1, <1>3, <1>4

\* A step under the lock is one of these.
LEMMA UnderTheLock ==
    ASSUME FsTypes, CallTypes, NEW t \in Thread, Callbacks(t)
    PROVE  \/ OpenDone(t) \/ OpenFailed(t) \/ TempOpens(t) \/ TempUses(t) \/ TempCloses(t) \/ Closes(t)
           \/ Finishes(t) \/ Rechecks(t) \/ Invalid(t) \/ Faults(t)
<1>1. size \in 0..MaxSize /\ size \in Nat /\ MaxSize \in Nat /\ handles \subseteq Handle
    BY CustomFsAssumption DEF FsTypes
<1>2. Finish(t) => Leaves(t)
    BY Forms DEF Finish, Leaves
<1>3. ASSUME NEW h \in Handle PROVE call' = [call EXCEPT ![t].step = "temp", ![t].handle = h] => GoesOn(t, "temp", h)
    BY Forms
<1>4. call' = [call EXCEPT ![t].step = "close"] => GoesOn(t, "close", call[t].handle)
    BY Forms DEF Steps
<1>5. SUFFICES ASSUME ~Faults(t) PROVE Callbacks(t) => \/ OpenDone(t) \/ OpenFailed(t) \/ TempOpens(t)
                  \/ TempUses(t) \/ TempCloses(t) \/ Closes(t) \/ Finishes(t) \/ Rechecks(t) \/ Invalid(t)
    OBVIOUS
<1>6. (~Alive(call[t].device) \/ module # "loaded") => (call[t].step \in Inside => ~UseFreed)
    BY <1>5, Zenon DEF Faults
<1>7. CASE OpenCallback(t)
  <2>1. /\ call[t].step = "locked" /\ call[t].op \in {"open", "dup"} /\ Given(t)
        /\ \/ /\ handles # Handle
              /\ handles' = handles \cup {NewHandle}
              /\ file' = [file EXCEPT ![call[t].new].handle = NewHandle]
              /\ Finish(t)
              /\ size' \in IF call[t].op = "open" THEN {size, 0} ELSE {size}
           \/ /\ file' = [file EXCEPT ![call[t].new] = NoFile]
              /\ Finish(t)
              /\ UNCHANGED <<handles, size>>
        /\ UNCHANGED <<lost, written>>
      BY <1>6, <1>7, Zenon DEF OpenCallback, Callback, Given, Inside
  <2>2. CASE handles # Handle /\ handles' = handles \cup {NewHandle}
      /\ file' = [file EXCEPT ![call[t].new].handle = NewHandle] /\ Finish(t)
      /\ size' \in IF call[t].op = "open" THEN {size, 0} ELSE {size}
    <3>1. NewHandle \in Handle \ handles
        BY <1>1, <2>2, NewHandleIsNew
    <3>2. size' \in 0..MaxSize
        BY <1>1, <2>2
    <3>3. QED BY <1>2, <2>1, <2>2, <3>1, <3>2, Zenon DEF OpenDone, Stores
  <2>3. CASE file' = [file EXCEPT ![call[t].new] = NoFile] /\ Finish(t) /\ UNCHANGED <<handles, size>>
      BY <1>2, <2>1, <2>3, Zenon DEF OpenFailed, external
  <2>4. QED BY <2>1, <2>2, <2>3, Zenon
<1>8. CASE TempOpen(t)
  <2>1. /\ call[t].step = "locked" /\ call[t].op \in {"stat", "truncate"} /\ Given(t)
        /\ \/ /\ handles # Handle
              /\ handles' = handles \cup {NewHandle}
              /\ call' = [call EXCEPT ![t].step = "temp", ![t].handle = NewHandle]
              /\ UNCHANGED lock
           \/ Finish(t) /\ UNCHANGED handles
        /\ UNCHANGED <<file, size, lost, written>>
      BY <1>6, <1>8, Zenon DEF TempOpen, Callback, Given, Inside
  <2>2. CASE handles # Handle /\ handles' = handles \cup {NewHandle}
             /\ call' = [call EXCEPT ![t].step = "temp", ![t].handle = NewHandle] /\ UNCHANGED lock
    <3>1. NewHandle \in Handle \ handles
        BY <1>1, <2>2, NewHandleIsNew
    <3>2. GoesOn(t, "temp", NewHandle)
        BY <1>3, <2>2, <3>1
    <3>3. QED BY <2>1, <2>2, <3>1, <3>2 DEF TempOpens
  <2>3. CASE Finish(t) /\ UNCHANGED handles
      BY <1>1, <1>2, <2>1, <2>3 DEF Finishes
  <2>4. QED BY <2>1, <2>2, <2>3, Zenon
<1>9. CASE TempUse(t)
  <2>1. /\ call[t].step = "temp" /\ Given(t)
        /\ call' = [call EXCEPT ![t].step = "close"]
        /\ IF call[t].op = "truncate" THEN size' \in 0..MaxSize /\ Wrote(t)
           ELSE UNCHANGED <<size, written>>
        /\ UNCHANGED <<file, lock, handles, lost>>
      BY <1>6, <1>9, Zenon DEF TempUse, Callback, Given, Inside
  <2>2. QED BY <1>1, <1>4, <2>1 DEF TempUses, Changing
<1>10. CASE TempClose(t)
  <2>1. /\ call[t].step = "close" /\ Given(t) /\ Finish(t)
        /\ \/ handles' = handles \ {call[t].handle} /\ UNCHANGED lost
           \/ lost' = lost \cup {call[t].handle} /\ UNCHANGED handles
        /\ UNCHANGED <<file, size, written>>
      BY <1>6, <1>10, Zenon DEF TempClose, Callback, Given, Inside
  <2>2. QED BY <1>2, <2>1, Zenon DEF TempCloses
<1>12. CASE Inspect(t)
  <2>1. /\ call[t].step = "locked" /\ call[t].op \in {"access", "inspect"} /\ Given(t)
        /\ Finish(t) /\ UNCHANGED <<file, external>>
      BY <1>6, <1>12, Zenon DEF Inspect, Callback, Given, Inside
  <2>2. QED BY <1>1, <1>2, <2>1 DEF Finishes, external
<1>13. CASE Modify(t)
  <2>1. /\ call[t].step = "locked" /\ call[t].op \in {"modify"} /\ Given(t)
        /\ Finish(t) /\ Wrote(t) /\ UNCHANGED <<file, handles, size, lost>>
      BY <1>6, <1>13, Zenon DEF Modify, Callback, Given, Inside
  <2>2. QED BY <1>1, <1>2, <2>1 DEF Finishes, Changing
<1>14. CASE WriteCallback(t)
  <2>1. /\ call[t].step = "locked" /\ call[t].op \in {"write"} /\ Given(t)
        /\ Finish(t) /\ Wrote(t) /\ size' \in size..MaxSize /\ UNCHANGED <<file, handles, lost>>
      BY <1>6, <1>14, Zenon DEF WriteCallback, Callback, Given, Inside
  <2>2. QED BY <1>1, <1>2, <2>1 DEF Finishes, Changing
<1>15. CASE FtruncateCallback(t)
  <2>1. /\ call[t].step = "locked" /\ call[t].op \in {"ftruncate"} /\ Given(t)
        /\ Finish(t) /\ Wrote(t) /\ size' \in 0..MaxSize /\ UNCHANGED <<file, handles, lost>>
      BY <1>6, <1>15, Zenon DEF FtruncateCallback, Callback, Given, Inside
  <2>2. QED BY <1>1, <1>2, <2>1 DEF Finishes, Changing
<1>16. CASE PreadCallback(t)
  <2>1. /\ call[t].step = "locked" /\ call[t].op \in {"pread"} /\ Given(t)
        /\ \/ Finish(t)
           \/ \E offset \in 1..MaxSize + 1 :
                 /\ call' = [call EXCEPT ![t].step = "recheck", ![t].offset = offset,
                                         ![t].past = offset > size]
                 /\ UNCHANGED lock
        /\ UNCHANGED <<file, external>>
      BY <1>6, <1>16, Zenon DEF PreadCallback, Callback, Given, Inside
  <2>2. CASE Finish(t)
      BY <1>1, <1>2, <2>1, <2>2 DEF Finishes, external
  <2>3. CASE ~Finish(t)
    <3>1. PICK offset \in 1..MaxSize + 1 :
              call' = [call EXCEPT ![t].step = "recheck", ![t].offset = offset, ![t].past = offset > size]
        BY <2>1, <2>3, Zenon
    <3>2. UNCHANGED lock
        BY <2>1, <2>3, Zenon
    <3>3. PICK past \in BOOLEAN : past = (offset > size)
      <4>1. (offset > size) \in BOOLEAN
          BY <1>1
      <4>2. QED BY <4>1, Zenon
    <3>4. call' = [call EXCEPT ![t].step = "recheck", ![t].offset = offset, ![t].past = past]
        BY <3>1, <3>3
    <3>5. GoesOn(t, "recheck", call[t].handle) /\ call'[t].past = past /\ call'[t].offset = offset
      <4>1. offset \in Nat
          BY <1>1
      <4>2. PICK r : r = [call[t] EXCEPT !.step = "recheck", !.offset = offset, !.past = past]
          OBVIOUS
      <4>3. /\ r \in CallType /\ r.step = "recheck" /\ r.offset = offset /\ r.past = past
            /\ r.op = call[t].op /\ r.device = call[t].device /\ r.file = call[t].file
            /\ r.new = call[t].new /\ r.handle = call[t].handle
        <5>1. PICK c \in CallType : c = call[t]
            BY DEF CallTypes
        <5>2. r = [c EXCEPT !.step = "recheck", !.offset = offset, !.past = past]
            BY <4>2, <5>1
        <5>3. /\ r.step = "recheck" /\ r.offset = offset /\ r.past = past /\ r.op = c.op
              /\ r.device = c.device /\ r.file = c.file /\ r.new = c.new /\ r.handle = c.handle
            BY <5>2 DEF CallType
        <5>4. r \in CallType
            BY <3>3, <4>1, <5>2 DEF CallType, Steps
        <5>5. QED BY <5>1, <5>3, <5>4
      <4>4. call' = [call EXCEPT ![t] = r]
          BY <3>4, <4>2 DEF CallTypes
      <4>5. CallTypes' /\ call'[t] = r /\ \A u \in Thread \ {t} : call'[u] = call[u]
          BY <4>3, <4>4 DEF CallTypes
      <4>6. QED BY <4>3, <4>5 DEF GoesOn, Becomes
    <3>6. (call'[t].past = (offset > size)) => (call'[t].past <=> offset > size)
        BY Zenon
    <3>7. QED BY <2>1, <3>2, <3>3, <3>5, <3>6, Zenon DEF Rechecks
  <2>4. QED BY <2>2, <2>3
<1>17. CASE PreadRecheck(t)
  <2>1. /\ call[t].step = "recheck" /\ call[t].op \in {"pread"} /\ Given(t)
        /\ \/ call[t].offset > size /\ Finish(t)
           \/ call[t].offset <= size /\ KeepEinval(t, FALSE)
           \/ KeepEinval(t, TRUE)
        /\ UNCHANGED <<file, external>>
      BY <1>6, <1>17, Zenon DEF PreadRecheck, Callback, Given, Inside
  <2>2. CASE Finish(t)
      BY <1>1, <1>2, <2>1, <2>2 DEF Finishes, external
  <2>3. CASE ~Finish(t)
    <3>1. PICK blind \in BOOLEAN :
            /\ blind \/ call[t].offset <= size
            /\ lock' = None
            /\ call' = [call EXCEPT ![t] = [NoCall EXCEPT !.step = "einval", !.past = call[t].past,
                                                          !.blind = blind]]
        BY <2>1, <2>3, Zenon DEF KeepEinval
    <3>2. PICK past \in BOOLEAN : past = call[t].past
        BY DEF CallTypes, CallType
    <3>3. PICK r : r = [NoCall EXCEPT !.step = "einval", !.past = past, !.blind = blind]
        OBVIOUS
    <3>4. r \in CallType
        BY <3>1, <3>2, <3>3 DEF NoCall, CallType, Steps
    <3>5. /\ r.step = "einval" /\ r.op = None /\ r.device = None /\ r.file = None /\ r.new = None
          /\ r.handle = None /\ r.past = past /\ r.blind = blind
        BY <3>3 DEF NoCall
    <3>6. call' = [call EXCEPT ![t] = r]
        BY <3>1, <3>2, <3>3, Zenon
    <3>7. /\ CallTypes' /\ call'[t] = r /\ \A u \in Thread \ {t} : call'[u] = call[u]
        BY <3>4, <3>6 DEF CallTypes
    <3>8. /\ Becomes(t, "einval", None, None, None, None, None) /\ call'[t].past = call[t].past
          /\ call'[t].blind = blind
        BY <3>2, <3>5, <3>7 DEF Becomes
    <3>9. QED BY <2>1, <3>1, <3>8 DEF Invalid
  <2>4. QED BY <2>2, <2>3
<1>18. CASE CloseCallback(t)
  <2>1. /\ call[t].step = "locked" /\ call[t].op \in {"close"} /\ Given(t)
        /\ \/ /\ handles' = handles \ {file[call[t].file].handle}
              /\ file' = [file EXCEPT ![call[t].file] = NoFile]
              /\ Finish(t)
           \/ Finish(t) /\ UNCHANGED <<handles, file>>
        /\ UNCHANGED <<size, lost, written>>
      BY <1>6, <1>18, Zenon DEF CloseCallback, Callback, Given, Inside
  <2>2. CASE Finish(t) /\ UNCHANGED <<handles, file>>
      BY <1>1, <1>2, <2>1, <2>2 DEF Finishes
  <2>3. CASE ~(Finish(t) /\ UNCHANGED <<handles, file>>)
      BY <1>2, <2>1, <2>3 DEF Closes
  <2>4. QED BY <2>2, <2>3
<1>19. QED BY <1>7, <1>8, <1>9, <1>10, <1>12, <1>13, <1>14, <1>15, <1>16, <1>17, <1>18 DEF Callbacks
-----------------------------------------------------------------------------
(* The calls and the files they refer to *)

Shaped(t) ==
    /\ call[t].step \in AtRest => call[t].device = None /\ call[t].op = None
    /\ call[t].step \notin AtRest => call[t].device \in Device
    /\ call[t].step \in AtRest \cup {"resolved"} => call[t].file = None
    /\ call[t].op = "close" /\ call[t].step \notin AtRest \cup {"resolved"} => call[t].file # None
    /\ call[t].handle # None <=> call[t].step \in {"temp", "close"}
    /\ call[t].new # None <=> call[t].step \in {"waiting", "locked"} /\ call[t].op \in {"open", "dup"}
    /\ call[t].step \in Inside <=> lock = t
CallsShaped == \A t \in Thread : Shaped(t)

\* A call's files are allocated, its new one is its own, and so is the one it closes.
FilesOwned ==
    /\ \A f \in Allocated : file[f].device \in Device
    /\ \A t \in Thread :
          /\ call[t].new # None => /\ call[t].new \in Allocated
                                   /\ file[call[t].new].device = call[t].device
          /\ call[t].file # None => call[t].file \in Published
    /\ \A t, u \in Thread :
          t # u => /\ call[t].new = call[u].new => call[t].new = None
                   /\ call[t].op = "close" /\ call[t].file # None => call[u].file # call[t].file

TypesInv == FsTypes /\ FileTypes /\ CallTypes /\ CallsShaped /\ FilesOwned

Moves(t) == \/ Resolves(t) \/ Asks(t) \/ Opens(t) \/ Uses(t) \/ Dups(t) \/ Refused(t) \/ Locks(t)
            \/ OpenDone(t) \/ OpenFailed(t) \/ TempOpens(t) \/ TempUses(t) \/ TempCloses(t) \/ Closes(t)
            \/ Finishes(t) \/ Rechecks(t) \/ Invalid(t) \/ Faults(t)

\* Every step is one of a mount or of a call.
LEMMA StepKinds == ASSUME TypesInv, Next PROVE Mounting \/ \E t \in Thread : Moves(t)
<1>1. ASSUME NEW t \in Thread, Lock(t) PROVE Locks(t)
  <2>1. call' = [call EXCEPT ![t].step = "locked"]
      BY <1>1 DEF Lock
  <2>2. GoesOn(t, "locked", call[t].handle)
      BY <2>1, Forms DEF TypesInv, Steps
  <2>3. QED BY <1>1, <2>2 DEF Lock, Locks
<1>2. ASSUME NEW t \in Thread, Callbacks(t) PROVE Moves(t)
    BY <1>2, UnderTheLock, Zenon DEF TypesInv, Moves
<1>3. ASSUME NEW t \in Thread, \/ \E d \in Device : Resolve(t, d)
                               \/ PathStart(t) \/ \E f \in File : FileStart(t, f)
      PROVE  Moves(t)
  <2>1. call[t].step = "resolved" => call[t].device \in Device
      BY DEF TypesInv, CallsShaped, Shaped, AtRest
  <2>2. \A f \in Allocated : file[f].device \in Device
      BY DEF TypesInv, FilesOwned
  <2>3. QED BY <1>3, <2>1, <2>2, Beginnings, Zenon DEF TypesInv, Moves
<1>4. ASSUME ~Mounting PROVE \E t \in Thread : Moves(t)
  <2>1. PICK t \in Thread : \/ \E d \in Device : Resolve(t, d)
                            \/ PathStart(t) \/ Lock(t) \/ Callbacks(t)
                            \/ \E f \in File : FileStart(t, f)
      BY <1>4, Zenon DEF Next
  <2>2. Lock(t) => Moves(t)
      BY <1>1, Zenon DEF Moves
  <2>3. Moves(t)
      BY <1>2, <1>3, <2>1, <2>2, Zenon
  <2>4. QED BY <2>3, Zenon
<1>5. QED BY <1>4

\* Nothing of what follows changes in steps of mounts.
LEMMA MountingKeepsCalls == Mounting => UNCHANGED <<file, lock, call, handles, size, lost, written>>
BY Zenon DEF Mounting, Construct, Destroy, Clone, Mount, Umount, Release, external

\* The mounts keep the types.
LEMMA MountingTypes == ASSUME FsTypes, Mounting PROVE FsTypes'
<1>1. UNCHANGED <<lock, handles, size, lost, written>>
    BY MountingKeepsCalls
<1> DEFINE Ok == /\ module' \in {"none", "loaded", "removed"}
                 /\ device' \in [Device -> {"none", "cloned", "mounted", "unmounted", "freed"}]
                 /\ flags' \subseteq Device /\ asked' \subseteq Device
                 /\ busy' \in BOOLEAN /\ fault' \in BOOLEAN
<1> USE DEF FsTypes
<1>2. CASE Construct
    BY <1>1, <1>2 DEF Construct, Load
<1>3. CASE Destroy
  <2>1. busy' \in BOOLEAN
    <3>1. PICK used \in BOOLEAN : used <=> \E d \in Device : device[d] \in {"cloned", "mounted"} \/ InUse(d)
        OBVIOUS
    <3>2. busy' = (busy \/ \E d \in Device : device[d] \in {"cloned", "mounted"} \/ InUse(d))
        BY <1>3 DEF Destroy
    <3>3. QED BY <3>2
  <2>2. QED BY <1>1, <1>3, <2>1 DEF Destroy
<1>4. ASSUME NEW d \in Device, Clone(d) \/ Mount(d) \/ Release(d)
      PROVE  Ok
    BY <1>4 DEF Clone, Mount, Release
<1>5. ASSUME NEW d \in Device, Umount(d) PROVE Ok
  <2>1. busy' = (busy \/ InUse(d))
      BY <1>5 DEF Umount
  <2>2. busy' \in BOOLEAN
      BY <2>1
  <2>3. QED BY <1>5, <2>2 DEF Umount
<1>6. QED BY <1>1, <1>2, <1>3, <1>4, <1>5 DEF Mounting

\* A call keeps the types and the calls' shapes.
LEMMA ShapedMove ==
    ASSUME TypesInv, NEW t \in Thread, Moves(t) PROVE FsTypes' /\ CallTypes' /\ CallsShaped'
<1> USE CustomFsAssumption
<1>1. FsTypes'
  <2>1. CASE Resolves(t) \/ Asks(t) \/ Uses(t) \/ Refused(t) \/ Faults(t) \/ Opens(t) \/ Dups(t) \/ Locks(t)
      BY <2>1 DEF TypesInv, FsTypes, Resolves, Asks, Uses, Refused, OnlyCall, fsVars, external, Faults, UseFreed, Opens, Dups, Locks
  <2>2. ASSUME Given(t), lock' \in {lock, None}, size' \in 0..MaxSize, handles' \subseteq Handle, lost' \subseteq Handle,
               UNCHANGED written \/ Wrote(t)
        PROVE  FsTypes'
      BY <2>2 DEF TypesInv, FsTypes, Given, fsVars, Wrote
  <2>3. CASE OpenDone(t) \/ OpenFailed(t) \/ TempOpens(t) \/ Closes(t) \/ Finishes(t) \/ Rechecks(t) \/ Invalid(t) \/ TempUses(t)
      BY <2>2, <2>3 DEF TypesInv, FsTypes, OpenDone, OpenFailed, TempOpens, Closes, Finishes, Rechecks, Invalid, TempUses, Leaves, external
  <2>4. CASE TempCloses(t)
    <3>1. call[t].handle \in Handle
        BY <2>4 DEF TempCloses, TypesInv, CallsShaped, Shaped, CallTypes, CallType
    <3>2. QED BY <2>2, <2>4, <3>1 DEF TypesInv, FsTypes, TempCloses, Leaves
  <2>5. QED BY <2>1, <2>3, <2>4 DEF Moves
<1>2. ASSUME NEW s, NEW o, NEW d, NEW f, NEW n, NEW h, Becomes(t, s, o, d, f, n, h), Shaped(t)',
             \/ UNCHANGED lock
             \/ lock = None /\ lock' = t
             \/ lock = t /\ lock' = None
      PROVE  CallTypes' /\ CallsShaped'
    BY <1>2 DEF Becomes, TypesInv, CallsShaped, Shaped
<1>3. FilesOwned /\ Shaped(t) /\ CallTypes /\ FileTypes
    BY DEF TypesInv, CallsShaped
<1>4. CASE Faults(t)
    BY <1>1, <1>4 DEF TypesInv, Faults, UseFreed, fsVars, external, CallTypes, CallsShaped, Shaped
<1>5. CASE Resolves(t)
  <2>1. PICK d \in Device : /\ call[t].step \in AtRest /\ Becomes(t, "resolved", None, d, None, None, None) /\ UNCHANGED lock
      BY <1>5 DEF Resolves, OnlyCall
  <2>2. Shaped(t)'
      BY <1>3, <2>1 DEF Becomes, Shaped, AtRest, Inside
  <2>3. QED BY <1>1, <1>2, <2>1, <2>2
<1>6. CASE Asks(t)
  <2>1. PICK o \in {"stat", "access", "modify", "truncate"} :
            /\ call[t].step = "resolved" /\ Becomes(t, "waiting", o, call[t].device, None, None, None) /\ UNCHANGED lock
      BY <1>6 DEF Asks, OnlyCall
  <2>2. Shaped(t)'
      BY <1>3, <2>1 DEF Becomes, Shaped, AtRest, Inside
  <2>3. QED BY <1>1, <1>2, <2>1, <2>2
<1>7. CASE Opens(t)
  <2>1. PICK f \in File : /\ call[t].step = "resolved"
                          /\ Becomes(t, "waiting", "open", call[t].device, None, f, None) /\ UNCHANGED lock
      BY <1>7 DEF Opens
  <2>2. Shaped(t)'
      BY <1>3, <2>1 DEF Becomes, Shaped, AtRest, Inside
  <2>3. QED BY <1>1, <1>2, <2>1, <2>2
<1>8. CASE Uses(t)
  <2>1. PICK f \in File, o \in {"inspect", "pread", "write", "ftruncate", "close"} :
            /\ call[t].step \in AtRest /\ file[f].device \in Device
            /\ Becomes(t, "waiting", o, file[f].device, f, None, None) /\ UNCHANGED lock
      BY <1>3, <1>8 DEF Uses, OnlyCall, Usable, Published, FilesOwned
  <2>2. Shaped(t)'
      BY <1>3, <2>1 DEF Becomes, Shaped, AtRest, Inside
  <2>3. QED BY <1>1, <1>2, <2>1, <2>2
<1>9. CASE Dups(t)
  <2>1. PICK f \in File, g \in File :
            /\ call[t].step \in AtRest /\ file[f].device \in Device
            /\ Becomes(t, "waiting", "dup", file[f].device, f, g, None) /\ UNCHANGED lock
      BY <1>3, <1>9 DEF Dups, Usable, Published, FilesOwned
  <2>2. Shaped(t)'
      BY <1>3, <2>1 DEF Becomes, Shaped, AtRest, Inside
  <2>3. QED BY <1>1, <1>2, <2>1, <2>2
<1>10. CASE Refused(t)
  <2>1. call[t].step \in AtRest \cup {"resolved"} /\ Becomes(t, "idle", None, None, None, None, None) /\ UNCHANGED lock
      BY <1>10 DEF Refused, OnlyCall, Ends
  <2>2. Shaped(t)'
      BY <1>3, <2>1 DEF Becomes, Shaped, AtRest, Inside
  <2>3. QED BY <1>1, <1>2, <2>1, <2>2
<1>11. ASSUME Leaves(t) \/ (lock' = None /\ Becomes(t, "einval", None, None, None, None, None)), Given(t)
       PROVE  CallTypes' /\ CallsShaped'
  <2>1. PICK s \in {"idle", "einval"} : Becomes(t, s, None, None, None, None, None) /\ lock = t /\ lock' = None
      BY <1>3, <1>11 DEF Leaves, Ends, Given, Shaped
  <2>2. Shaped(t)'
      BY <1>3, <2>1 DEF Becomes, Shaped, AtRest, Inside
  <2>3. QED BY <1>2, <2>1, <2>2
<1>12. CASE OpenDone(t) \/ OpenFailed(t) \/ TempCloses(t) \/ Closes(t) \/ Finishes(t) \/ Invalid(t)
    BY <1>1, <1>11, <1>12 DEF OpenDone, OpenFailed, TempCloses, Closes, Finishes, Invalid
<1>13. CASE Locks(t)
  <2>1. call[t].step = "waiting" /\ lock = None /\ lock' = t /\ GoesOn(t, "locked", call[t].handle)
      BY <1>13 DEF Locks
  <2>2. Shaped(t)'
      BY <1>3, <2>1 DEF GoesOn, Becomes, Shaped, AtRest, Inside
  <2>3. QED BY <1>1, <1>2, <2>1, <2>2 DEF GoesOn
<1>14. CASE TempOpens(t)
  <2>1. PICK h \in Handle : /\ call[t].step = "locked" /\ call[t].op \notin {"open", "dup"}
                            /\ UNCHANGED lock /\ GoesOn(t, "temp", h)
      BY <1>14 DEF TempOpens
  <2>2. Shaped(t)'
      BY <1>3, <2>1 DEF GoesOn, Becomes, Shaped, AtRest, Inside
  <2>3. QED BY <1>1, <1>2, <2>1, <2>2 DEF GoesOn
<1>15. CASE TempUses(t)
  <2>1. call[t].step = "temp" /\ UNCHANGED lock /\ GoesOn(t, "close", call[t].handle)
      BY <1>15 DEF TempUses
  <2>2. Shaped(t)'
      BY <1>3, <2>1 DEF GoesOn, Becomes, Shaped, AtRest, Inside
  <2>3. QED BY <1>1, <1>2, <2>1, <2>2 DEF GoesOn
<1>16. CASE Rechecks(t)
  <2>1. call[t].step = "locked" /\ call[t].op = "pread" /\ UNCHANGED lock /\ GoesOn(t, "recheck", call[t].handle)
      BY <1>16 DEF Rechecks
  <2>2. Shaped(t)'
      BY <1>3, <2>1 DEF GoesOn, Becomes, Shaped, AtRest, Inside
  <2>3. QED BY <1>1, <1>2, <2>1, <2>2 DEF GoesOn
<1>17. QED BY <1>1, <1>4, <1>5, <1>6, <1>7, <1>8, <1>9, <1>10, <1>12, <1>13, <1>14, <1>15, <1>16 DEF Moves

\* A step that neither allocates nor frees leaves the published files as they are.
LEMMA FilesKept ==
    ASSUME TypesInv, NEW t \in Thread, NEW s, NEW o, NEW d, NEW f, NEW n, NEW h, Becomes(t, s, o, d, f, n, h),
           UNCHANGED file, n = call[t].new, n # None => d = call[t].device,
           \/ f = None
           \/ f = call[t].file /\ o = call[t].op
           \/ Usable(f) /\ (o = "close" => Unused(f))
    PROVE  FilesOwned' /\ Published' = Published
<1> USE CustomFsAssumption
<1>1. FilesOwned
    BY DEF TypesInv
<1>2. \A u \in Thread : call'[u].new = call[u].new
    BY DEF Becomes
<1>3. Allocated' = Allocated /\ Published' = Published
    BY <1>2 DEF Allocated, Published
<1>4. \A u \in Thread \ {t} : call'[u] = call[u]
    BY DEF Becomes
<1>5. call'[t].file = f /\ call'[t].op = o /\ call'[t].device = d /\ call'[t].new = n
    BY DEF Becomes
<1>6. \A u \in Thread : call'[u].file # None => call'[u].file \in Published
    BY <1>1, <1>4, <1>5 DEF FilesOwned, Usable
<1>7. \A u \in Thread : call'[u].new # None => call'[u].device = call[u].device
    BY <1>2, <1>4, <1>5
<1>8. \A u, v \in Thread : u # v /\ call'[u].op = "close" /\ call'[u].file # None
                              => call'[v].file # call'[u].file
  <2>1. ASSUME NEW v \in Thread, v # t
        PROVE  /\ o = "close" /\ f # None => call[v].file # f
               /\ call[v].op = "close" /\ call[v].file # None => call[v].file # f
      BY <1>1, <2>1 DEF FilesOwned, Usable, Unused
  <2>2. QED BY <1>1, <1>4, <1>5, <2>1 DEF FilesOwned
<1>9. QED BY <1>1, <1>2, <1>3, <1>6, <1>7, <1>8 DEF FilesOwned

\* An open or a dup allocates a file that is not yet published.
LEMMA FileAllocated ==
    ASSUME TypesInv, NEW t \in Thread, NEW o \in {"open", "dup"}, NEW d \in Device, NEW f, NEW g \in File \ Allocated,
           NEW r \in FileType, r.device = d, file' = [file EXCEPT ![g] = r], call[t].new = None,
           Becomes(t, "waiting", o, d, f, g, None), f = None \/ Usable(f)
    PROVE  /\ FileTypes' /\ FilesOwned' /\ Published' = Published
           /\ \A e \in Published : file'[e] = file[e]
<1> USE CustomFsAssumption
<1>1. FilesOwned /\ FileTypes
    BY DEF TypesInv
<1>2. FileTypes' /\ \A e \in File : file'[e] = IF e = g THEN r ELSE file[e]
    BY <1>1 DEF FileTypes
<1>3. r # NoFile /\ g # None /\ g \in File
    BY DEF NoFile
<1>4. Allocated' = Allocated \cup {g}
    BY <1>2, <1>3 DEF Allocated
<1>5. \A u \in Thread \ {t} : call'[u] = call[u]
    BY DEF Becomes
<1>6. call'[t].file = f /\ call'[t].op = o /\ call'[t].device = d /\ call'[t].new = g
    BY DEF Becomes
<1>7. {call'[u].new : u \in Thread} = ({call[u].new : u \in Thread} \ {None}) \cup {g}
          \/ {call'[u].new : u \in Thread} = {call[u].new : u \in Thread} \cup {g}
    BY <1>5, <1>6
<1>8. Published' = Published
  <2>1. g \notin Allocated /\ None \notin Allocated
      BY DEF Allocated
  <2>2. QED BY <1>4, <1>7, <2>1 DEF Published
<1>9. \A e \in Published : file'[e] = file[e]
    BY <1>2 DEF Published, Allocated
<1>10. \A e \in Allocated' : file'[e].device \in Device
    BY <1>1, <1>2, <1>4 DEF FilesOwned, Allocated
<1>11. \A u \in Thread : call'[u].new # None => call'[u].new \in Allocated' /\ file'[call'[u].new].device = call'[u].device
  <2>1. ASSUME NEW u \in Thread \ {t}, call[u].new # None
        PROVE  call[u].new \in Allocated /\ call[u].new # g /\ file[call[u].new].device = call[u].device
      BY <1>1, <2>1 DEF FilesOwned
  <2>2. QED BY <1>2, <1>3, <1>4, <1>5, <1>6, <2>1 DEF Allocated
<1>12. \A u \in Thread : call'[u].file # None => call'[u].file \in Published'
    BY <1>1, <1>5, <1>6, <1>8 DEF FilesOwned, Usable
<1>13. \A u, v \in Thread : u # v /\ call'[u].new = call'[v].new => call'[u].new = None
  <2>1. \A u \in Thread : call[u].new # g
      BY <1>1, <1>3 DEF FilesOwned
  <2>2. QED BY <1>1, <1>5, <1>6, <2>1 DEF FilesOwned
<1>14. \A u, v \in Thread : u # v /\ call'[u].op = "close" /\ call'[u].file # None
                              => call'[v].file # call'[u].file
  <2>1. \A v \in Thread : call[v].op = "close" /\ call[v].file # None => call[v].file # f
      BY DEF Usable
  <2>2. QED BY <1>1, <1>5, <1>6, <2>1 DEF FilesOwned
<1>15. QED BY <1>2, <1>8, <1>9, <1>10, <1>11, <1>12, <1>13, <1>14 DEF FilesOwned

\* When open or dup succeeds, it publishes its file with the new handle.
LEMMA FilePublished ==
    ASSUME TypesInv, NEW t \in Thread, NEW g, g = call[t].new, g # None, Ends(t),
           NEW h \in Handle, Stores(g, h)
    PROVE  /\ FileTypes' /\ FilesOwned'
           /\ g \in Allocated \ Published /\ Published' = Published \cup {g}
           /\ file'[g].handle = h /\ file'[g].access = file[g].access /\ file'[g].device = file[g].device
           /\ \A e \in File \ {g} : file'[e] = file[e]
<1> USE CustomFsAssumption
<1>1. FilesOwned /\ FileTypes
    BY DEF TypesInv
<1>2. g \in Allocated /\ g \in File /\ file[g].device \in Device /\ g \notin Published
    BY <1>1 DEF FilesOwned, Allocated, Published
<1>3. PICK r : r = [file[g] EXCEPT !.handle = h]
    OBVIOUS
<1>4. r \in FileType /\ r.handle = h /\ r.access = file[g].access /\ r.device = file[g].device
    BY <1>1, <1>2, <1>3 DEF FileTypes, FileType
<1>5. file' = [file EXCEPT ![g] = r]
    BY <1>1, <1>2, <1>3 DEF FileTypes, Stores
<1>6. FileTypes' /\ \A e \in File : file'[e] = IF e = g THEN r ELSE file[e]
    BY <1>1, <1>2, <1>4, <1>5 DEF FileTypes
<1>7. r # NoFile
    BY <1>2, <1>4 DEF NoFile
<1>8. Allocated' = Allocated
    BY <1>2, <1>6, <1>7 DEF Allocated
<1>9. \A u \in Thread \ {t} : call'[u] = call[u] /\ (call[u].new = g => FALSE)
    BY <1>1 DEF Ends, Becomes, FilesOwned
<1>10. call'[t].file = None /\ call'[t].new = None
    BY DEF Ends, Becomes
<1>11. Published' = Published \cup {g}
  <2>1. \A e \in Allocated \ {g} : e \in Published <=> e \in Published'
    <3>1. \A e \in Allocated \ {g} : e # None
        BY DEF Allocated
    <3>2. QED BY <1>8, <1>9, <1>10, <3>1 DEF Published
  <2>2. g \in Published'
      BY <1>2, <1>8, <1>9, <1>10 DEF Published
  <2>3. QED BY <1>2, <1>8, <2>1, <2>2 DEF Published
<1>12. \A e \in Allocated' : file'[e].device \in Device
    BY <1>1, <1>2, <1>4, <1>6, <1>8 DEF FilesOwned, Allocated
<1>13. \A u \in Thread : call'[u].new # None => call'[u].new \in Allocated' /\ file'[call'[u].new].device = call'[u].device
  <2>1. ASSUME NEW u \in Thread \ {t}, call[u].new # None
        PROVE  call[u].new \in Allocated /\ call[u].new # g /\ file[call[u].new].device = call[u].device
      BY <1>1, <1>9, <2>1 DEF FilesOwned
  <2>2. QED BY <1>6, <1>8, <1>9, <1>10, <2>1 DEF Allocated
<1>14. \A u \in Thread : call'[u].file # None => call'[u].file \in Published'
    BY <1>1, <1>9, <1>10, <1>11 DEF FilesOwned
<1>15. \A u, v \in Thread : u # v =>
          /\ call'[u].new = call'[v].new => call'[u].new = None
          /\ call'[u].op = "close" /\ call'[u].file # None => call'[v].file # call'[u].file
    BY <1>1, <1>9, <1>10 DEF FilesOwned
<1>16. QED BY <1>2, <1>4, <1>6, <1>11, <1>12, <1>13, <1>14, <1>15 DEF FilesOwned

\* When open or dup fails, or a close succeeds, the file_t is freed, and nobody else has it.
LEMMA FileFreed ==
    ASSUME TypesInv, NEW t \in Thread, NEW g, g # None, Ends(t), file' = [file EXCEPT ![g] = NoFile],
           g = call[t].new \/ (g = call[t].file /\ call[t].op = "close" /\ call[t].new = None)
    PROVE  /\ FileTypes' /\ FilesOwned' /\ g \in Allocated
           /\ (g \in Published <=> g # call[t].new) /\ Published' = Published \ {g}
           /\ \A e \in File \ {g} : file'[e] = file[e]
<1> USE CustomFsAssumption
<1>1. FilesOwned /\ FileTypes
    BY DEF TypesInv
<1>2. g \in Allocated /\ g \in File /\ (g \in Published <=> g # call[t].new)
    BY <1>1 DEF FilesOwned, Allocated, Published
<1>3. NoFile \in FileType
    BY DEF NoFile, FileType
<1>4. FileTypes' /\ \A e \in File : file'[e] = IF e = g THEN NoFile ELSE file[e]
    BY <1>1, <1>2, <1>3 DEF FileTypes
<1>5. Allocated' = Allocated \ {g}
    BY <1>2, <1>4 DEF Allocated
<1>6. \A u \in Thread \ {t} : call'[u] = call[u] /\ call[u].new # g /\ call[u].file # g
    BY <1>1, <1>2 DEF Ends, Becomes, FilesOwned, Published
<1>7. call'[t].file = None /\ call'[t].new = None
    BY DEF Ends, Becomes
<1>8. Published' = Published \ {g}
  <2>1. \A e \in Allocated \ {g} : e \in Published <=> e \in Published'
    <3>1. \A e \in Allocated \ {g} : e # None
        BY DEF Allocated
    <3>2. call[t].new \in {g, None}
        OBVIOUS
    <3>3. QED BY <1>5, <1>6, <1>7, <3>1, <3>2 DEF Published
  <2>2. QED BY <1>5, <2>1 DEF Published
<1>9. \A e \in Allocated' : file'[e].device \in Device
    BY <1>1, <1>4, <1>5 DEF FilesOwned, Allocated
<1>10. \A u \in Thread : call'[u].new # None => call'[u].new \in Allocated' /\ file'[call'[u].new].device = call'[u].device
  <2>1. ASSUME NEW u \in Thread \ {t}, call[u].new # None
        PROVE  call[u].new \in Allocated /\ call[u].new # g /\ file[call[u].new].device = call[u].device
      BY <1>1, <1>6, <2>1 DEF FilesOwned
  <2>2. QED BY <1>4, <1>5, <1>6, <1>7, <2>1 DEF Allocated
<1>11. \A u \in Thread : call'[u].file # None => call'[u].file \in Published'
    BY <1>1, <1>6, <1>7, <1>8 DEF FilesOwned
<1>12. \A u, v \in Thread : u # v =>
          /\ call'[u].new = call'[v].new => call'[u].new = None
          /\ call'[u].op = "close" /\ call'[u].file # None => call'[v].file # call'[u].file
    BY <1>1, <1>6, <1>7 DEF FilesOwned
<1>13. QED BY <1>2, <1>4, <1>8, <1>9, <1>10, <1>11, <1>12 DEF FilesOwned

\* Where the device and the access mode of a file come from: from a file, or from an open.
Inherits(t) == \A e \in Allocated' :
    \/ \E f \in Allocated : file'[e].device = file[f].device /\ file'[e].access = file[f].access
    \/ /\ call[t].step = "resolved" /\ file'[e].device = call[t].device
       /\ call[t].device \in flags => file'[e].access = "r"

\* A step that only moves its call on.
Quiet(t) == \/ Resolves(t) \/ Asks(t) \/ Uses(t) \/ Refused(t) \/ Locks(t) \/ TempOpens(t) \/ TempUses(t)
            \/ TempCloses(t) \/ Finishes(t) \/ Rechecks(t) \/ Invalid(t)

\* Such a step leaves all files alone.
LEMMA QuietFiles ==
    ASSUME TypesInv, NEW t \in Thread, Quiet(t)
    PROVE  FileTypes' /\ FilesOwned' /\ Published' = Published /\ UNCHANGED file /\ Inherits(t)
<1> USE CustomFsAssumption
<1>1. Shaped(t) /\ FileTypes
    BY DEF TypesInv, CallsShaped
<1>2. UNCHANGED file
    BY Zenon DEF Quiet, Resolves, Asks, Uses, Refused, Locks, TempOpens, TempUses, TempCloses,
       Finishes, Rechecks, Invalid, OnlyCall
<1>3. FilesOwned' /\ Published' = Published
  <2>1. CASE Resolves(t)
      BY <1>1, <1>2, <2>1, FilesKept DEF Resolves, Shaped, AtRest
  <2>2. CASE Asks(t)
      BY <1>1, <1>2, <2>2, FilesKept DEF Asks, Shaped
  <2>3. CASE Uses(t)
    <3>1. PICK f \in File, o \in {"inspect", "pread", "write", "ftruncate", "close"} :
              /\ call[t].step \in AtRest /\ Usable(f) /\ (o = "close" => Unused(f))
              /\ Becomes(t, "waiting", o, file[f].device, f, None, None)
        BY <2>3 DEF Uses
    <3>2. call[t].new = None
        BY <1>1, <3>1 DEF Shaped, AtRest
    <3>3. QED BY <1>2, <3>1, <3>2, FilesKept
  <2>4. CASE Refused(t)
      BY <1>1, <1>2, <2>4, FilesKept DEF Refused, Ends, Shaped, AtRest
  <2>5. ASSUME NEW s, NEW h, GoesOn(t, s, h)
        PROVE  FilesOwned' /\ Published' = Published
    <3>1. Becomes(t, s, call[t].op, call[t].device, call[t].file, call[t].new, h)
        BY <2>5 DEF GoesOn
    <3>2. QED BY <1>2, <3>1, FilesKept
  <2>6. CASE Locks(t) \/ TempOpens(t) \/ TempUses(t) \/ Rechecks(t)
      BY <2>5, <2>6 DEF Locks, TempOpens, TempUses, Rechecks
  <2>7. ASSUME NEW s, Becomes(t, s, None, None, None, None, None), call[t].new = None
        PROVE  FilesOwned' /\ Published' = Published
      BY <1>2, <2>7, FilesKept
  <2>8. CASE TempCloses(t) \/ Finishes(t) \/ Invalid(t)
    <3>1. call[t].new = None
        BY <1>1, <2>8 DEF TempCloses, Finishes, Invalid, Shaped
    <3>2. QED BY <2>7, <2>8, <3>1 DEF TempCloses, Finishes, Invalid, Leaves, Ends
  <2>9. QED BY <2>1, <2>2, <2>3, <2>4, <2>6, <2>8 DEF Quiet
<1>4. Allocated' = Allocated
    BY <1>2 DEF Allocated
<1>5. QED BY <1>1, <1>2, <1>3, <1>4 DEF FileTypes, Inherits

\* What open and dup allocate is not published yet.
LEMMA AllocatedUnpublished ==
    ASSUME TypesInv, NEW t \in Thread, Opens(t) \/ Dups(t)
    PROVE  FileTypes' /\ FilesOwned' /\ Inherits(t) /\ Published' = Published /\ \A f \in Published : file'[f] = file[f]
<1> USE CustomFsAssumption
<1>1. Shaped(t) /\ FileTypes /\ FilesOwned /\ CallTypes
    BY DEF TypesInv, CallsShaped
<1>2. CASE Opens(t)
  <2>1. PICK g \in File \ Allocated, access \in Accesses :
               /\ call[t].step = "resolved" /\ (call[t].device \in flags => access = "r")
               /\ file' = [file EXCEPT ![g] = [device |-> call[t].device, handle |-> None, access |-> access]]
               /\ Becomes(t, "waiting", "open", call[t].device, None, g, None)
      BY <1>2 DEF Opens
  <2>2. PICK r : r = [device |-> call[t].device, handle |-> None, access |-> access]
      OBVIOUS
  <2>3. PICK d \in Device : d = call[t].device
      BY <1>1, <2>1 DEF Shaped, AtRest
  <2>4. r \in FileType /\ r.device = d /\ r.access = access
      BY <2>2, <2>3 DEF FileType
  <2>5. FileTypes' /\ FilesOwned' /\ Published' = Published /\ \A f \in Published : file'[f] = file[f]
      BY <1>1, <2>1, <2>2, <2>3, <2>4, FileAllocated DEF Shaped
  <2>6. \A e \in File : file'[e] = IF e = g THEN r ELSE file[e]
      BY <1>1, <2>1, <2>2, <2>4 DEF FileTypes
  <2>7. Inherits(t)
      BY <2>1, <2>3, <2>4, <2>6 DEF Inherits, Allocated
  <2>8. QED BY <2>5, <2>7
<1>3. CASE Dups(t)
  <2>1. PICK f \in File, g \in File \ Allocated :
              /\ call[t].step \in AtRest /\ Usable(f) /\ file' = [file EXCEPT ![g] = file[f]]
              /\ Becomes(t, "waiting", "dup", file[f].device, f, g, None)
      BY <1>3 DEF Dups
  <2>2. PICK r \in FileType : r = file[f]
      BY <1>1 DEF FileTypes
  <2>3. f \in Allocated /\ file[f].device \in Device
      BY <1>1, <2>1 DEF Usable, Published, FilesOwned
  <2>4. call[t].new = None
      BY <1>1, <2>1 DEF Shaped, AtRest
  <2>5. FileTypes' /\ FilesOwned' /\ Published' = Published /\ \A e \in Published : file'[e] = file[e]
      BY <2>1, <2>2, <2>3, <2>4, FileAllocated
  <2>6. \A e \in File : file'[e] = IF e = g THEN file[f] ELSE file[e]
      BY <1>1, <2>1, <2>2 DEF FileTypes
  <2>7. Inherits(t)
      BY <2>3, <2>6 DEF Inherits, Allocated
  <2>8. QED BY <2>5, <2>7
<1>4. QED BY <1>2, <1>3

\* The steps that allocate, publish or free a file.
LEMMA FilesMove ==
    ASSUME TypesInv, NEW t \in Thread, Moves(t), ~Quiet(t)
    PROVE  FileTypes' /\ FilesOwned' /\ Inherits(t)
<1> USE CustomFsAssumption
<1>1. Shaped(t) /\ FileTypes /\ FilesOwned /\ CallTypes
    BY DEF TypesInv, CallsShaped
<1>2. CASE Faults(t)
  <2>1. UNCHANGED <<file, call>>
      BY <1>2 DEF Faults, UseFreed
  <2>2. Allocated' = Allocated /\ Published' = Published
      BY <2>1 DEF Allocated, Published
  <2>3. QED BY <1>1, <2>1, <2>2 DEF FileTypes, FilesOwned, Inherits
<1>3. CASE Opens(t) \/ Dups(t)
    BY <1>3, AllocatedUnpublished
<1>4. CASE OpenDone(t)
  <2>1. PICK h \in Handle : call[t].step = "locked" /\ call[t].op \in {"open", "dup"}
                /\ Stores(call[t].new, h) /\ Ends(t)
      BY <1>4 DEF OpenDone, Leaves
  <2>2. PICK g : g = call[t].new
      OBVIOUS
  <2>3. g # None
      BY <1>1, <2>1, <2>2 DEF Shaped
  <2>4. /\ FileTypes' /\ FilesOwned' /\ g \in Allocated
        /\ file'[g].access = file[g].access /\ file'[g].device = file[g].device
        /\ \A e \in File \ {g} : file'[e] = file[e]
      BY <2>1, <2>2, <2>3, FilePublished
  <2>5. Inherits(t)
      BY <2>4 DEF Inherits, Allocated
  <2>6. QED BY <2>4, <2>5
<1>5. ASSUME NEW g, g # None, Ends(t), file' = [file EXCEPT ![g] = NoFile],
             g = call[t].new \/ (g = call[t].file /\ call[t].op = "close" /\ call[t].new = None)
      PROVE  FileTypes' /\ FilesOwned' /\ Inherits(t)
  <2>1. FileTypes' /\ FilesOwned' /\ g \in File /\ \A e \in File \ {g} : file'[e] = file[e]
      BY <1>5, FileFreed DEF Allocated
  <2>2. file'[g] = NoFile
      BY <1>1, <1>5, <2>1 DEF FileTypes
  <2>3. Inherits(t)
      BY <2>1, <2>2 DEF Inherits, Allocated
  <2>4. QED BY <2>1, <2>3
<1>6. CASE OpenFailed(t)
    BY <1>1, <1>5, <1>6 DEF OpenFailed, Leaves, Shaped
<1>7. CASE Closes(t)
  <2>1. call[t].new = None /\ call[t].file # None
      BY <1>1, <1>7 DEF Closes, Shaped, AtRest
  <2>2. QED BY <1>5, <1>7, <2>1 DEF Closes, Leaves
<1>8. QED BY <1>2, <1>3, <1>4, <1>6, <1>7, Zenon DEF Moves, Quiet

\* The types and the calls' and files' ownership are inductive.
LEMMA TypesNext == ASSUME TypesInv, Next PROVE TypesInv'
<1>1. CASE Mounting
  <2>1. UNCHANGED <<file, call, lock>>
      BY <1>1, MountingKeepsCalls
  <2>2. Allocated' = Allocated /\ Published' = Published
      BY <2>1 DEF Allocated, Published
  <2>3. FileTypes' /\ CallTypes' /\ CallsShaped' /\ FilesOwned'
      BY <2>1, <2>2 DEF TypesInv, FileTypes, CallTypes, CallsShaped, Shaped, FilesOwned
  <2>4. QED BY <1>1, <2>3, MountingTypes DEF TypesInv
<1>2. ASSUME NEW t \in Thread, Moves(t) PROVE TypesInv'
    BY <1>2, ShapedMove, QuietFiles, FilesMove, Zenon DEF TypesInv
<1>3. QED BY <1>1, <1>2, StepKinds

\* Init establishes them.
LEMMA TypesInit == Init => TypesInv
<1> USE CustomFsAssumption DEF Init
<1>1. Init => FsTypes
  <2>1. Init => device \in [Device -> {"none", "cloned", "mounted", "unmounted", "freed"}]
      OBVIOUS
  <2>2. Init => size \in 0..MaxSize
      OBVIOUS
  <2>3. Init => /\ module \in {"none", "loaded", "removed"} /\ busy \in BOOLEAN /\ fault \in BOOLEAN
                /\ lock \in Thread \cup {None}
      OBVIOUS
  <2>4. Init => /\ flags \subseteq Device /\ asked \subseteq Device /\ written \subseteq Device
                /\ handles \subseteq Handle /\ lost \subseteq Handle
      OBVIOUS
  <2>5. QED BY <2>1, <2>2, <2>3, <2>4, Zenon DEF FsTypes
<1>2. Init => FileTypes
    BY DEF FileTypes, FileType, NoFile
<1>3. Init => CallTypes
    BY DEF CallTypes, CallType, NoCall, Steps
<1>4. Init => CallsShaped
    BY DEF CallsShaped, Shaped, NoCall, AtRest, Inside
<1>5. Init => Allocated = {}
    BY DEF Allocated
<1>6. Init => FilesOwned
    BY <1>5 DEF FilesOwned, NoCall
<1>7. QED BY <1>1, <1>2, <1>3, <1>4, <1>6 DEF TypesInv
-----------------------------------------------------------------------------
(* Nothing freed is used, and nothing written through a read-only mount *)

\* A call leaves the mounts alone.
LEMMA MoveKeepsMounts ==
    ASSUME NEW t \in Thread, Moves(t)
    PROVE  UNCHANGED <<module, device, flags, asked, busy>> /\ (~Faults(t) => UNCHANGED fault)
<1> USE DEF fsVars
<1>1. CASE Faults(t)
    BY <1>1, Zenon DEF Faults, UseFreed
<1>2. CASE Resolves(t) \/ Asks(t) \/ Uses(t) \/ Refused(t)
    BY <1>2, Zenon DEF Resolves, Asks, Uses, Refused, OnlyCall
<1>3. CASE Opens(t) \/ Dups(t) \/ Locks(t)
    BY <1>3, Zenon DEF Opens, Dups, Locks
<1>4. CASE Given(t)
    BY <1>4, Zenon DEF Given
<1>5. QED BY <1>1, <1>2, <1>3, <1>4, Zenon DEF Moves, OpenDone, OpenFailed, TempOpens, TempUses, TempCloses,
          Closes, Finishes, Rechecks, Invalid

\* The device and the op that a step gives its call.
LEMMA CallFrom ==
    ASSUME TypesInv, NEW t \in Thread, Moves(t), ~Faults(t), call'[t].step \notin AtRest
    PROVE  \/ call'[t].step = "resolved" /\ call'[t].device \in Device /\ device[call'[t].device] = "mounted"
           \/ \E o \in {"stat", "access", "modify", "truncate", "open"} :
                 /\ call[t].step = "resolved" /\ call'[t].device = call[t].device /\ call'[t].op = o
                 /\ o \in Changing => call[t].device \notin flags
           \/ \E f \in Allocated, o \in {"inspect", "pread", "write", "ftruncate", "close", "dup"} :
                 /\ call'[t].device = file[f].device /\ call'[t].op = o
                 /\ o \in Changing => Writable(f)
           \/ /\ call[t].step \notin AtRest \cup {"resolved"}
              /\ call'[t].device = call[t].device /\ call'[t].op = call[t].op
<1> USE DEF Becomes
<1>1. CASE Resolves(t)
    BY <1>1 DEF Resolves
<1>2. CASE Asks(t) \/ Opens(t)
    BY <1>2 DEF Asks, Opens, Changing
<1>3. CASE Uses(t) \/ Dups(t)
    BY <1>3 DEF Uses, Dups, Usable, Published, Changing
<1>4. CASE Refused(t)
    BY <1>4 DEF Refused, Ends, AtRest
<1>5. CASE Locks(t) \/ TempOpens(t) \/ TempUses(t) \/ Rechecks(t)
    BY <1>5 DEF Locks, TempOpens, TempUses, Rechecks, GoesOn, AtRest
<1>6. CASE OpenDone(t) \/ OpenFailed(t) \/ TempCloses(t) \/ Closes(t) \/ Finishes(t) \/ Invalid(t)
    BY <1>6 DEF OpenDone, OpenFailed, TempCloses, Closes, Finishes, Invalid, Leaves, Ends, AtRest
<1>7. QED BY <1>1, <1>2, <1>3, <1>4, <1>5, <1>6 DEF Moves

\* A step leaves the calls of others alone.
LEMMA OthersCalls ==
    ASSUME NEW t \in Thread, Moves(t), NEW u \in Thread \ {t} PROVE call'[u] = call[u]
<1> USE DEF Becomes
<1>1. CASE Resolves(t) \/ Asks(t) \/ Opens(t) \/ Uses(t) \/ Dups(t) \/ Refused(t)
    BY <1>1 DEF Resolves, Asks, Opens, Uses, Dups, Refused, Ends
<1>2. CASE Locks(t) \/ TempOpens(t) \/ TempUses(t) \/ Rechecks(t)
    BY <1>2 DEF Locks, TempOpens, TempUses, Rechecks, GoesOn
<1>3. CASE OpenDone(t) \/ OpenFailed(t) \/ TempCloses(t) \/ Closes(t) \/ Finishes(t) \/ Invalid(t)
    BY <1>3 DEF OpenDone, OpenFailed, TempCloses, Closes, Finishes, Invalid, Leaves, Ends
<1>4. CASE Faults(t)
    BY <1>4 DEF Faults, UseFreed
<1>5. QED BY <1>1, <1>2, <1>3, <1>4 DEF Moves

\* Unless something was removed while in use, all that is in use is mounted.
MountsLive ==
    ~busy => /\ \A d \in Device : device[d] \in {"cloned", "mounted"} => module = "loaded"
             /\ \A t \in Thread : call[t].step \notin AtRest => device[call[t].device] = "mounted"
             /\ \A f \in Allocated : device[file[f].device] = "mounted"
AliveInv == TypesInv /\ MountsLive /\ UsedWhileAlive

\* What is in use is seen by InUse.
LEMMA InUseSeen ==
    ASSUME TypesInv, NEW d \in Device, ~InUse(d)
    PROVE  /\ \A t \in Thread : call[t].device # d
           /\ \A f \in Allocated : file[f].device # d
<1>1. \A t \in Thread : call[t].device # d
    BY DEF InUse
<1>2. \A f \in Published : file[f].device # d
    BY DEF InUse
<1>3. \A f \in Allocated \ Published : \E t \in Thread : call[t].new = f
    BY DEF Published
<1>4. \A t \in Thread : call[t].new \in Allocated => file[call[t].new].device = call[t].device
    BY CustomFsAssumption DEF TypesInv, FilesOwned, Allocated
<1>5. QED BY <1>1, <1>2, <1>3, <1>4

\* Mounts are removed only when not in use, unless busy says so; calls use what is mounted.
LEMMA AliveNext == ASSUME AliveInv, Next PROVE AliveInv'
<1> USE DEF AliveInv
<1>1. TypesInv'
    BY TypesNext
<1>2. CASE Mounting
  <2>1. UNCHANGED <<file, call>> /\ Allocated' = Allocated
      BY <1>2, MountingKeepsCalls DEF Allocated
  <2>2. FsTypes
      BY DEF TypesInv
  <2>3. /\ \A t \in Thread : call[t].step \notin AtRest => call[t].device \in Device
        /\ \A f \in Allocated : file[f].device \in Device
      BY DEF TypesInv, CallsShaped, Shaped, FilesOwned
  <2>4. CASE Construct
    <3>1. UNCHANGED <<device, busy, fault>> /\ module = "none"
        BY <2>4, Zenon DEF Construct
    <3>2. ~busy => \A d \in Device : device[d] \notin {"cloned", "mounted"}
        BY <3>1 DEF MountsLive
    <3>3. QED BY <1>1, <2>1, <2>3, <3>1, <3>2 DEF MountsLive, UsedWhileAlive
  <2>5. CASE Destroy
    <3>1. /\ UNCHANGED <<device, fault>>
          /\ busy' <=> busy \/ \E d \in Device : device[d] \in {"cloned", "mounted"} \/ InUse(d)
        BY <2>5, Zenon DEF Destroy
    <3>2. QED BY <1>1, <2>1, <2>3, <3>1 DEF MountsLive, UsedWhileAlive
  <2>6. ASSUME NEW d \in Device, Clone(d) \/ Mount(d) \/ Release(d)
        PROVE  MountsLive' /\ UsedWhileAlive'
    <3>1. /\ UNCHANGED <<module, busy, fault>>
          /\ \E o : device' = [device EXCEPT ![d] = o]
          /\ device[d] # "mounted"
          /\ device[d] = "cloned" \/ module = "loaded" \/ device'[d] = "freed"
        BY <2>2, <2>6 DEF Clone, Mount, Release, FsTypes
    <3>2. ~busy /\ device[d] = "cloned" => module = "loaded"
        BY DEF MountsLive
    <3>3. \A e \in Device \ {d} : device'[e] = device[e]
        BY <2>2, <3>1 DEF FsTypes
    <3>4. QED BY <2>1, <2>3, <3>1, <3>2, <3>3 DEF MountsLive, UsedWhileAlive
  <2>7. ASSUME NEW d \in Device, Umount(d)
        PROVE  MountsLive' /\ UsedWhileAlive'
    <3>1. /\ UNCHANGED <<module, fault>> /\ device' = [device EXCEPT ![d] = "unmounted"]
          /\ busy' <=> busy \/ InUse(d)
        BY <2>7, Zenon DEF Umount
    <3>2. \A e \in Device : device'[e] = IF e = d THEN "unmounted" ELSE device[e]
        BY <2>2, <3>1 DEF FsTypes
    <3>3. ~busy' => ~InUse(d) /\ ~busy
        BY <3>1
    <3>4. QED BY <2>1, <2>3, <3>1, <3>2, <3>3, InUseSeen DEF MountsLive, UsedWhileAlive
  <2>8. QED BY <1>1, <1>2, <2>4, <2>5, <2>6, <2>7, Zenon DEF Mounting
<1>3. ASSUME NEW t \in Thread, Moves(t) PROVE AliveInv'
  <2>1. UNCHANGED <<module, device, flags, busy>> /\ (~Faults(t) => UNCHANGED fault)
      BY <1>3, MoveKeepsMounts
  <2>2. Shaped(t) /\ FilesOwned /\ FsTypes
      BY DEF TypesInv, CallsShaped
  <2>3. UsedWhileAlive'
    <3>1. CASE Faults(t) /\ ~busy
      <4>1. call[t].step \notin AtRest
          BY <3>1 DEF Faults, AtRest, Inside
      <4>2. call[t].device \in Device /\ device[call[t].device] = "mounted" /\ module = "loaded"
          BY <2>2, <3>1, <4>1 DEF MountsLive, Shaped
      <4>3. QED BY <3>1, <4>2 DEF Faults, Alive
    <3>2. QED BY <2>1, <3>1 DEF UsedWhileAlive
  <2>4. ASSUME ~busy PROVE \A u \in Thread : call'[u].step \notin AtRest => device[call'[u].device] = "mounted"
    <3>1. ASSUME NEW u \in Thread \ {t} PROVE call'[u] = call[u]
        BY <1>3, OthersCalls
    <3>2. ~Faults(t)
        BY <2>1, <2>3, <2>4 DEF UsedWhileAlive, Faults, UseFreed
    <3>3. call'[t].step \notin AtRest => device[call'[t].device] = "mounted"
        BY <1>3, <2>4, <3>2, CallFrom DEF MountsLive, AtRest
    <3>4. QED BY <2>4, <3>1, <3>3 DEF MountsLive
  <2>5. ASSUME ~busy PROVE \A f \in Allocated' : device[file'[f].device] = "mounted"
    <3>1. Inherits(t)
        BY <1>3, QuietFiles, FilesMove
    <3>2. QED BY <2>5, <3>1 DEF Inherits, MountsLive, AtRest
  <2>6. QED BY <1>1, <2>1, <2>3, <2>4, <2>5 DEF MountsLive
<1>4. QED BY <1>2, <1>3, StepKinds

\* Freed memory is used only after a mount or a Memfs was removed while a call or an open file
\* used it: nothing else that the program does with mounts, paths and descriptors, by however
\* many threads, leads to a dangling pointer (oe_mount_resolve, _fs_open, _fs_umount2).
THEOREM AliveUse == Spec => []UsedWhileAlive
<1>1. Init => AliveInv
  <2>1. Init => Allocated = {}
      BY DEF Init, Allocated
  <2>2. QED BY <2>1, TypesInit DEF AliveInv, MountsLive, UsedWhileAlive, Init, NoCall, AtRest
<1>2. AliveInv /\ [Next]_vars => AliveInv'
  <2>1. CASE UNCHANGED vars
      BY <2>1 DEF vars, fsVars, external, AliveInv, TypesInv, FsTypes, FileTypes, CallTypes, CallsShaped,
         Shaped, FilesOwned, Published, Allocated, MountsLive, UsedWhileAlive
  <2>2. QED BY <2>1, AliveNext
<1>3. QED BY <1>1, <1>2, PTL DEF Spec, AliveInv

\* A clone that was mounted read-only has the flag as long as it is mounted, and unless something
\* was removed while in use no call that changes the file system and no file to write to is its.
FlagsHeeded ==
    /\ \A d \in asked : /\ device[d] \in {"mounted", "unmounted", "freed"}
                        /\ device[d] = "mounted" => d \in flags
    /\ ~busy => /\ \A t \in Thread : call[t].step \notin AtRest \cup {"resolved"} /\ call[t].op \in Changing
                                        => call[t].device \notin asked
                /\ \A f \in Allocated : file[f].access \in {"w", "rw"} => file[f].device \notin asked
ReadOnlyInv == AliveInv /\ FlagsHeeded /\ ReadOnlyUntouched

\* Only a call whose op is to change something writes.
LEMMA WrittenBy ==
    ASSUME NEW t \in Thread, Moves(t)
    PROVE  UNCHANGED written \/ (Given(t) /\ call[t].op \in Changing /\ Wrote(t))
<1> USE DEF external
<1>1. CASE Resolves(t) \/ Asks(t) \/ Opens(t) \/ Uses(t) \/ Dups(t) \/ Refused(t) \/ Locks(t) \/ Faults(t)
    BY <1>1, Zenon DEF Resolves, Asks, Opens, Uses, Dups, Refused, OnlyCall, Locks, Faults, UseFreed
<1>2. CASE \/ OpenDone(t) \/ OpenFailed(t) \/ TempOpens(t) \/ TempUses(t) \/ TempCloses(t) \/ Closes(t)
           \/ Finishes(t) \/ Rechecks(t) \/ Invalid(t)
    BY <1>2, Zenon DEF OpenDone, OpenFailed, TempOpens, TempUses, TempCloses, Closes, Finishes, Rechecks, Invalid
<1>3. QED BY <1>1, <1>2, Zenon DEF Moves

\* A file to write to is opened only where the flag is not set, and only its mode lets a write begin.
LEMMA ReadOnlyNext == ASSUME ReadOnlyInv, Next PROVE ReadOnlyInv'
<1> USE DEF ReadOnlyInv
<1>1. AliveInv'
    BY AliveNext
<1>2. TypesInv /\ FsTypes /\ MountsLive
    BY DEF AliveInv, TypesInv
<1>3. CASE Mounting
  <2>1. UNCHANGED <<file, call, written>> /\ Allocated' = Allocated
      BY <1>3, MountingKeepsCalls DEF Allocated
  <2>2. /\ \A t \in Thread : call[t].step \notin AtRest => call[t].device \in Device
        /\ \A f \in Allocated : file[f].device \in Device
      BY <1>2 DEF TypesInv, CallsShaped, Shaped, FilesOwned
  <2>3. CASE Construct \/ Destroy
    <3>1. UNCHANGED <<device, flags, asked>>
        BY <2>3, Zenon DEF Construct, Destroy
    <3>2. UNCHANGED busy \/ (busy' <=> busy \/ \E d \in Device : device[d] \in {"cloned", "mounted"} \/ InUse(d))
        BY <2>3, Zenon DEF Construct, Destroy
    <3>3. busy => busy'
        BY <3>2
    <3>4. QED BY <1>1, <2>1, <3>1, <3>3 DEF FlagsHeeded, ReadOnlyUntouched
  <2>4. ASSUME NEW d \in Device, Clone(d) \/ Release(d)
        PROVE  FlagsHeeded' /\ ReadOnlyUntouched'
    <3>1. UNCHANGED <<busy, flags, asked>>
        BY <2>4, Zenon DEF Clone, Release
    <3>2. \/ device[d] = "none" /\ device' = [device EXCEPT ![d] = "cloned"]
          \/ device[d] = "unmounted" /\ device' = [device EXCEPT ![d] = "freed"]
        BY <2>4, Zenon DEF Clone, Release
    <3>3. asked \subseteq Device /\ device \in [Device -> {"none", "cloned", "mounted", "unmounted", "freed"}]
        BY <1>2 DEF FsTypes
    <3>4. QED BY <2>1, <3>1, <3>2, <3>3 DEF FlagsHeeded, ReadOnlyUntouched
  <2>5. ASSUME NEW d \in Device, Mount(d)
        PROVE  FlagsHeeded' /\ ReadOnlyUntouched'
    <3>1. PICK options \in {{}, {d}} : flags' = flags \cup options /\ asked' = asked \cup options
        BY <2>5, Zenon DEF Mount
    <3>2. UNCHANGED busy /\ device[d] = "cloned"
        BY <2>5, Zenon DEF Mount
    <3>3. PICK outcome \in {"mounted", "unmounted"} : device' = [device EXCEPT ![d] = outcome]
        BY <2>5, Zenon DEF Mount
    <3>4. \A e \in Device : device'[e] = IF e = d THEN outcome ELSE device[e]
        BY <1>2, <3>3 DEF FsTypes
    <3>5. d \notin asked /\ asked \subseteq Device
        BY <1>2, <3>2 DEF FlagsHeeded, FsTypes
    <3>6. \A e \in asked' : /\ device'[e] \in {"mounted", "unmounted", "freed"}
                            /\ device'[e] = "mounted" => e \in flags'
        BY <3>1, <3>4, <3>5 DEF FlagsHeeded
    <3>7. ~busy => /\ \A t \in Thread : call[t].step \notin AtRest => call[t].device # d
                   /\ \A f \in Allocated : file[f].device # d
        BY <3>2 DEF MountsLive, AliveInv
    <3>8. QED BY <2>1, <3>1, <3>2, <3>6, <3>7 DEF FlagsHeeded, ReadOnlyUntouched
  <2>6. ASSUME NEW d \in Device, Umount(d)
        PROVE  FlagsHeeded' /\ ReadOnlyUntouched'
    <3>1. /\ device' = [device EXCEPT ![d] = "unmounted"] /\ flags' = flags \ {d} /\ UNCHANGED asked
          /\ busy' <=> busy \/ InUse(d)
        BY <2>6, Zenon DEF Umount
    <3>2. asked \subseteq Device /\ \A e \in Device : device'[e] = IF e = d THEN "unmounted" ELSE device[e]
        BY <1>2, <3>1 DEF FsTypes
    <3>3. ~busy' => ~busy
        BY <3>1
    <3>4. QED BY <2>1, <3>1, <3>2, <3>3 DEF FlagsHeeded, ReadOnlyUntouched
  <2>7. QED BY <1>1, <1>3, <2>3, <2>4, <2>5, <2>6, Zenon DEF Mounting
<1>4. ASSUME NEW t \in Thread, Moves(t) PROVE ReadOnlyInv'
  <2>1. UNCHANGED <<device, flags, asked, busy>>
      BY <1>4, MoveKeepsMounts
  <2>2. /\ \A d \in asked' : /\ device'[d] \in {"mounted", "unmounted", "freed"}
                             /\ device'[d] = "mounted" => d \in flags'
      BY <2>1 DEF FlagsHeeded
  <2>3. ASSUME ~busy, call'[t].step \notin AtRest \cup {"resolved"}, call'[t].op \in Changing, ~Faults(t)
        PROVE  call'[t].device \notin asked
    <3>1. CASE call[t].step = "resolved" /\ call'[t].device = call[t].device /\ call[t].device \notin flags
      <4>1. device[call[t].device] = "mounted"
          BY <1>2, <2>3, <3>1 DEF MountsLive, AtRest
      <4>2. QED BY <3>1, <4>1 DEF FlagsHeeded
    <3>2. CASE \E f \in Allocated : call'[t].device = file[f].device /\ Writable(f)
        BY <2>3, <3>2 DEF FlagsHeeded, Writable
    <3>3. CASE /\ call[t].step \notin AtRest \cup {"resolved"}
               /\ call'[t].device = call[t].device /\ call'[t].op = call[t].op
        BY <2>3, <3>3 DEF FlagsHeeded
    <3>4. QED BY <1>2, <1>4, <2>3, <3>1, <3>2, <3>3, CallFrom
  <2>4. \A u \in Thread \ {t} : call'[u] = call[u]
      BY <1>4, OthersCalls
  <2>5. CASE Faults(t)
    <3>1. UNCHANGED <<file, call, written>> /\ Allocated' = Allocated
        BY <2>5, Zenon DEF Faults, UseFreed, Allocated, external
    <3>2. QED BY <1>1, <2>1, <3>1 DEF FlagsHeeded, ReadOnlyUntouched
  <2>6. CASE ~Faults(t)
    <3>1. ~busy => \A u \in Thread : call'[u].step \notin AtRest \cup {"resolved"} /\ call'[u].op \in Changing
                                        => call'[u].device \notin asked
        BY <2>3, <2>4, <2>6 DEF FlagsHeeded
    <3>2. Inherits(t)
        BY <1>2, <1>4, QuietFiles, FilesMove
    <3>3. ASSUME ~busy, NEW f \in Allocated', file'[f].access \in {"w", "rw"}
          PROVE  file'[f].device \notin asked
      <4>1. CASE call[t].step = "resolved" /\ file'[f].device = call[t].device /\ call[t].device \notin flags
        <5>1. device[call[t].device] = "mounted"
            BY <1>2, <3>3, <4>1 DEF MountsLive, AtRest
        <5>2. QED BY <4>1, <5>1 DEF FlagsHeeded
      <4>2. CASE \E e \in Allocated : file'[f].device = file[e].device /\ file'[f].access = file[e].access
          BY <3>3, <4>2 DEF FlagsHeeded
      <4>3. QED BY <3>2, <3>3, <4>1, <4>2 DEF Inherits
    <3>4. ReadOnlyUntouched'
      <4>1. CASE ~busy /\ Given(t) /\ call[t].op \in Changing /\ Wrote(t)
        <5>1. call[t].device \notin asked
            BY <4>1 DEF FlagsHeeded, Given, AtRest, Inside
        <5>2. QED BY <4>1, <5>1 DEF Wrote, ReadOnlyUntouched
      <4>2. QED BY <1>4, <2>1, <4>1, WrittenBy DEF ReadOnlyUntouched
    <3>5. QED BY <1>1, <2>1, <2>2, <3>1, <3>3, <3>4 DEF FlagsHeeded
  <2>7. QED BY <2>5, <2>6
<1>5. QED BY <1>2, <1>3, <1>4, StepKinds

\* Through a read-only mount nothing is written, neither by a path operation that looks at the
\* flag before it waits for the lock nor by a descriptor or a copy of one, unless something was
\* removed while in use (_fs_open, _fs_truncate, _is_read_only).
THEOREM ReadOnlyKept == Spec => []ReadOnlyUntouched
<1>1. Init => ReadOnlyInv
  <2>1. Init => Allocated = {}
      BY DEF Init, Allocated
  <2>2. QED BY <2>1, TypesInit DEF ReadOnlyInv, AliveInv, MountsLive, UsedWhileAlive, FlagsHeeded,
            ReadOnlyUntouched, Init, NoCall, AtRest
<1>2. ReadOnlyInv /\ [Next]_vars => ReadOnlyInv'
  <2>1. CASE UNCHANGED vars
      BY <2>1 DEF vars, fsVars, external, ReadOnlyInv, AliveInv, TypesInv, FsTypes, FileTypes, CallTypes,
         CallsShaped, Shaped, FilesOwned, Published, Allocated, MountsLive, UsedWhileAlive, FlagsHeeded,
         ReadOnlyUntouched
  <2>2. QED BY <2>1, ReadOnlyNext
<1>3. QED BY <1>1, <1>2, PTL DEF Spec, ReadOnlyInv
-----------------------------------------------------------------------------
(* The EINVAL of a pread *)

\* While a pread looks at the size again, the size is what it was when the callback failed.
PastRight(t) == /\ call[t].step = "recheck" => (call[t].past <=> call[t].offset > size)
                /\ call[t].step = "einval" => call[t].blind \/ ~call[t].past
PreadInv == TypesInv /\ \A t \in Thread : PastRight(t)

\* The size changes only in steps under the lock.
LEMMA SizeBy == ASSUME NEW t \in Thread, Moves(t) PROVE UNCHANGED size \/ Given(t)
<1> USE DEF external
<1>1. CASE Resolves(t) \/ Asks(t) \/ Opens(t) \/ Uses(t) \/ Dups(t) \/ Refused(t) \/ Locks(t) \/ Faults(t)
    BY <1>1, Zenon DEF Resolves, Asks, Opens, Uses, Dups, Refused, OnlyCall, Locks, Faults, UseFreed
<1>2. CASE \/ OpenDone(t) \/ OpenFailed(t) \/ TempOpens(t) \/ TempUses(t) \/ TempCloses(t) \/ Closes(t)
           \/ Finishes(t) \/ Rechecks(t) \/ Invalid(t)
    BY <1>2, Zenon DEF OpenDone, OpenFailed, TempOpens, TempUses, TempCloses, Closes, Finishes, Rechecks, Invalid
<1>3. QED BY <1>1, <1>2, Zenon DEF Moves

\* The lock keeps the size between the callback's failure and the second look.
LEMMA PreadNext == ASSUME PreadInv, Next PROVE PreadInv'
<1> USE DEF PreadInv
<1>1. TypesInv'
    BY TypesNext
<1>2. CASE Mounting
    BY <1>1, <1>2, MountingKeepsCalls DEF PastRight
<1>3. ASSUME NEW t \in Thread, Moves(t) PROVE \A u \in Thread : PastRight(u)'
  <2>1. ASSUME NEW u \in Thread \ {t} PROVE PastRight(u)'
    <3>1. call'[u] = call[u]
        BY <1>3, OthersCalls
    <3>2. CASE UNCHANGED size
        BY <3>1, <3>2 DEF PastRight
    <3>3. CASE Given(t)
      <4>1. call[u].step # "recheck"
          BY <3>3 DEF Given, TypesInv, CallsShaped, Shaped, Inside
      <4>2. QED BY <3>1, <4>1 DEF PastRight
    <3>4. QED BY <1>3, <3>2, <3>3, SizeBy
  <2>2. PastRight(t)'
    <3>1. call[t].offset \in Nat /\ size \in Nat /\ call[t].past \in BOOLEAN
        BY CustomFsAssumption DEF TypesInv, FsTypes, CallTypes, CallType
    <3>2. CASE Resolves(t) \/ Asks(t) \/ Opens(t) \/ Uses(t) \/ Dups(t) \/ Refused(t)
      <4>1. call'[t].step \notin {"recheck", "einval"}
          BY <3>2 DEF Resolves, Asks, Opens, Uses, Dups, Refused, Ends, Becomes
      <4>2. QED BY <4>1 DEF PastRight
    <3>3. CASE Locks(t) \/ TempOpens(t) \/ TempUses(t)
      <4>1. call'[t].step \notin {"recheck", "einval"}
          BY <3>3 DEF Locks, TempOpens, TempUses, GoesOn, Becomes
      <4>2. QED BY <4>1 DEF PastRight
    <3>4. CASE OpenDone(t) \/ OpenFailed(t) \/ TempCloses(t) \/ Closes(t) \/ Finishes(t)
      <4>1. call'[t].step \notin {"recheck", "einval"}
          BY <3>4 DEF OpenDone, OpenFailed, TempCloses, Closes, Finishes, Leaves, Ends, Becomes
      <4>2. QED BY <4>1 DEF PastRight
    <3>5. CASE Rechecks(t)
        BY <3>5 DEF Rechecks, GoesOn, Becomes, PastRight, external
    <3>6. CASE Invalid(t)
      <4>1. call'[t].blind \/ ~(call[t].offset > size)
          BY <3>1, <3>6 DEF Invalid
      <4>2. call'[t].blind \/ ~call[t].past
          BY <3>6, <4>1, Zenon DEF Invalid, PastRight
      <4>3. call'[t].step = "einval" /\ call'[t].past = call[t].past
          BY <3>6, Zenon DEF Invalid, Becomes
      <4>4. QED BY <4>2, <4>3 DEF PastRight
    <3>7. CASE Faults(t)
        BY <3>7 DEF Faults, UseFreed, external, PastRight
    <3>8. QED BY <1>3, <3>2, <3>3, <3>4, <3>5, <3>6, <3>7 DEF Moves
  <2>3. QED BY <2>1, <2>2
<1>4. QED BY <1>1, <1>2, <1>3, StepKinds

\* A pread behind the end fails with EINVAL only if the fstat fails, too, whatever others write or
\* truncate, since _fs_pread holds the lock between the callback that fails and the fstat that tells
\* whether the offset is behind the end.
THEOREM PreadEndSeen == Spec => []PreadPastEnd
<1>1. Init => PreadInv
    BY TypesInit DEF PreadInv, PastRight, Init, NoCall
<1>2. PreadInv /\ [Next]_vars => PreadInv'
  <2>1. CASE UNCHANGED vars
      BY <2>1 DEF vars, fsVars, external, PreadInv, TypesInv, FsTypes, FileTypes, CallTypes, CallsShaped,
         Shaped, FilesOwned, Published, Allocated, PastRight
  <2>2. QED BY <2>1, PreadNext
<1>3. PreadInv => PreadPastEnd
    BY DEF PreadInv, PastRight, PreadPastEnd
<1>4. QED BY <1>1, <1>2, <1>3, PTL DEF Spec
-----------------------------------------------------------------------------
(* The handles *)

\* A handle that is open is that of one file, or of one temporary use, or was lost.
HeldOnce ==
    /\ \A f \in Published : file[f].handle \in handles \ lost
    /\ \A t \in Thread : call[t].handle # None =>
          call[t].handle \in handles \ (lost \cup {file[f].handle : f \in Published})
    /\ \A f, g \in Published : file[f].handle = file[g].handle => f = g
    /\ lost \subseteq handles
    /\ \A h \in handles \ lost : \/ \E f \in Published : file[f].handle = h
                                 \/ \E t \in Thread : call[t].handle = h
HandlesInv == TypesInv /\ HeldOnce /\ IsFiniteSet(Published) /\ IsFiniteSet(lost)

\* Every step's handles.
LEMMA HeldNext == ASSUME TypesInv, HeldOnce, Next PROVE HeldOnce'
<1> USE CustomFsAssumption
<1>1. CASE Mounting
  <2>1. UNCHANGED <<file, call, handles, lost>>
      BY <1>1, MountingKeepsCalls
  <2>2. Published' = Published
      BY <2>1 DEF Published, Allocated
  <2>3. QED BY <2>1, <2>2 DEF HeldOnce
<1>2. ASSUME NEW t \in Thread, Moves(t) PROVE HeldOnce'
  <2>1. \A u \in Thread \ {t} : call'[u] = call[u]
      BY <1>2, OthersCalls
  <2>2. Shaped(t) /\ FilesOwned /\ handles \subseteq Handle
      BY DEF TypesInv, CallsShaped, FsTypes
  <2>3. ASSUME UNCHANGED <<handles, lost>>, Published' = Published, call'[t].handle = call[t].handle,
               \A f \in Published : file'[f].handle = file[f].handle
        PROVE  HeldOnce'
    <3>1. \A u \in Thread : call'[u].handle = call[u].handle
        BY <2>1, <2>3
    <3>2. QED BY <2>3, <3>1 DEF HeldOnce
  <2>4. CASE Faults(t)
    <3>1. UNCHANGED <<file, call, handles, lost>>
        BY <2>4 DEF Faults, UseFreed, external
    <3>2. Published' = Published
        BY <3>1 DEF Published, Allocated
    <3>3. QED BY <2>3, <3>1, <3>2
  <2>5. CASE Quiet(t) /\ ~TempOpens(t) /\ ~TempCloses(t)
    <3>1. Published' = Published /\ UNCHANGED file
        BY <2>5, QuietFiles
    <3>2. UNCHANGED <<handles, lost>>
        BY <2>5, Zenon DEF Quiet, Resolves, Asks, Uses, Refused, Locks, TempUses, Finishes, Rechecks, Invalid, OnlyCall, external
    <3>3. call'[t].handle = call[t].handle
      <4>1. CASE Resolves(t) \/ Asks(t) \/ Uses(t) \/ Refused(t)
          BY <2>2, <4>1 DEF Resolves, Asks, Uses, Refused, Ends, Becomes, Shaped, AtRest
      <4>2. CASE Locks(t) \/ TempUses(t) \/ Rechecks(t)
          BY <4>2 DEF Locks, TempUses, Rechecks, GoesOn, Becomes
      <4>3. CASE Finishes(t) \/ Invalid(t)
          BY <2>2, <4>3 DEF Finishes, Invalid, Leaves, Ends, Becomes, Shaped
      <4>4. QED BY <2>5, <4>1, <4>2, <4>3 DEF Quiet
    <3>4. QED BY <2>3, <3>1, <3>2, <3>3
  <2>6. CASE TempOpens(t)
    <3>1. PICK h \in Handle \ handles : handles' = handles \cup {h} /\ GoesOn(t, "temp", h) /\ UNCHANGED lost
        BY <2>6 DEF TempOpens
    <3>2. Published' = Published /\ UNCHANGED file
        BY <2>6, QuietFiles DEF Quiet
    <3>3. call'[t].handle = h /\ call[t].handle = None
        BY <2>2, <2>6, <3>1 DEF TempOpens, GoesOn, Becomes, Shaped
    <3>4. QED BY <2>1, <2>2, <3>1, <3>2, <3>3 DEF HeldOnce
  <2>7. CASE TempCloses(t)
    <3>1. Published' = Published /\ UNCHANGED file
        BY <2>7, QuietFiles DEF Quiet
    <3>2. PICK h : h = call[t].handle
        OBVIOUS
    <3>3. h # None /\ call'[t].handle = None
        BY <2>2, <2>7, <3>2 DEF TempCloses, Leaves, Ends, Becomes, Shaped
    <3>4. \A u \in Thread \ {t} : call[u].handle = None
      <4>1. lock = t
          BY <2>2, <2>7 DEF TempCloses, Shaped, Inside
      <4>2. QED BY <4>1 DEF TypesInv, CallsShaped, Shaped, Inside
    <3>5. \/ handles' = handles \ {h} /\ UNCHANGED lost
          \/ lost' = lost \cup {h} /\ UNCHANGED handles
        BY <2>7, <3>2 DEF TempCloses
    <3>6. QED BY <2>1, <3>1, <3>2, <3>3, <3>4, <3>5 DEF HeldOnce
  <2>8. CASE Opens(t) \/ Dups(t)
    <3>1. UNCHANGED <<handles, lost>>
        BY <2>8, Zenon DEF Opens, Dups, external
    <3>2. call'[t].handle = call[t].handle
        BY <2>2, <2>8 DEF Opens, Dups, Becomes, Shaped, AtRest
    <3>3. Published' = Published /\ \A f \in Published : file'[f] = file[f]
        BY <2>8, AllocatedUnpublished
    <3>4. QED BY <2>3, <3>1, <3>2, <3>3
  <2>9. CASE OpenDone(t)
    <3>1. PICK h \in Handle \ handles :
              /\ handles' = handles \cup {h} /\ Stores(call[t].new, h) /\ Ends(t)
              /\ UNCHANGED lost
        BY <2>9 DEF OpenDone, Leaves
    <3>2. PICK g : g = call[t].new
        OBVIOUS
    <3>3. g # None /\ call[t].handle = None
        BY <2>2, <2>9, <3>2 DEF OpenDone, Shaped
    <3>4. /\ g \in Allocated \ Published /\ Published' = Published \cup {g} /\ file'[g].handle = h
          /\ \A e \in File \ {g} : file'[e] = file[e]
        BY <3>1, <3>2, <3>3, FilePublished
    <3>5. call'[t].handle = None
        BY <3>1 DEF Ends, Becomes
    <3>6. \A f \in Published : file'[f] = file[f]
        BY <3>4 DEF Published, Allocated
    <3>7. \A u \in Thread : call'[u].handle = call[u].handle
        BY <2>1, <3>3, <3>5
    <3>8. h \notin handles /\ h # None /\ handles' = handles \cup {h} /\ lost' = lost
        BY <3>1
    <3>9. \A f \in Published : file'[f].handle \in handles \ lost /\ file'[f].handle = file[f].handle
        BY <3>6 DEF HeldOnce
    <3>10. \A f \in Published' : file'[f].handle = IF f = g THEN h ELSE file[f].handle
        BY <3>4, <3>9
    <3>11. {file'[f].handle : f \in Published'} = {file[f].handle : f \in Published} \cup {h}
        BY <3>4, <3>10
    <3>12. \A f \in Published' : file'[f].handle \in handles' \ lost'
        BY <3>4, <3>8, <3>9, <3>10 DEF HeldOnce
    <3>13. \A u \in Thread : call'[u].handle # None =>
              call'[u].handle \in handles' \ (lost' \cup {file'[f].handle : f \in Published'})
      <4>1. ASSUME NEW u \in Thread, call[u].handle # None
            PROVE  /\ call[u].handle \in handles \ lost /\ call[u].handle # h
                   /\ call[u].handle \notin {file[f].handle : f \in Published}
          BY <3>8, <4>1 DEF HeldOnce
      <4>2. \A u \in Thread : call[u].handle # None =>
               call[u].handle \in handles' \ (lost' \cup ({file[f].handle : f \in Published} \cup {h}))
          BY <3>8, <4>1
      <4>3. QED BY <3>7, <3>11, <4>2
    <3>14. \A e, f \in Published' : file'[e].handle = file'[f].handle => e = f
        BY <3>4, <3>8, <3>9, <3>10 DEF HeldOnce
    <3>15. \A k \in handles' \ lost' : \/ \E f \in Published' : file'[f].handle = k
                                       \/ \E u \in Thread : call'[u].handle = k
        BY <3>4, <3>7, <3>8, <3>10 DEF HeldOnce
    <3>16. lost' \subseteq handles'
        BY <3>8 DEF HeldOnce
    <3>17. QED BY <3>12, <3>13, <3>14, <3>15, <3>16, Zenon DEF HeldOnce
  <2>10. CASE OpenFailed(t)
    <3>1. /\ UNCHANGED <<handles, lost>> /\ Ends(t) /\ file' = [file EXCEPT ![call[t].new] = NoFile]
          /\ call[t].new # None /\ call[t].handle = None
        BY <2>2, <2>10 DEF OpenFailed, Leaves, external, Shaped
    <3>2. PICK g : g = call[t].new
        OBVIOUS
    <3>3. Published' = Published \ {g} /\ g \notin Published /\ \A e \in File \ {g} : file'[e] = file[e]
        BY <3>1, <3>2, FileFreed
    <3>4. Published' = Published /\ \A f \in Published : file'[f] = file[f]
        BY <3>3 DEF Published, Allocated
    <3>5. call'[t].handle = None
        BY <3>1 DEF Ends, Becomes
    <3>6. QED BY <2>3, <3>1, <3>4, <3>5
  <2>11. CASE Closes(t)
    <3>1. /\ handles' = handles \ {file[call[t].file].handle} /\ UNCHANGED lost /\ Ends(t)
          /\ file' = [file EXCEPT ![call[t].file] = NoFile] /\ call[t].op = "close"
        BY <2>11 DEF Closes, Leaves
    <3>2. PICK g : g = call[t].file
        OBVIOUS
    <3>3. g # None /\ call[t].new = None /\ call[t].handle = None
        BY <2>2, <2>11, <3>2 DEF Closes, Shaped, AtRest
    <3>4. g \in Published
        BY <2>2, <3>2, <3>3 DEF FilesOwned
    <3>5. Published' = Published \ {g} /\ \A e \in File \ {g} : file'[e] = file[e]
        BY <3>1, <3>2, <3>3, FileFreed
    <3>6. \A f \in Published' : f \in Published /\ f # g /\ file'[f] = file[f]
        BY <3>5 DEF Published, Allocated
    <3>7. call'[t].handle = None
        BY <3>1 DEF Ends, Becomes
    <3>8. \A u \in Thread : call'[u].handle = call[u].handle
        BY <2>1, <3>3, <3>7
    <3>9. handles' = handles \ {file[g].handle}
        BY <3>1, <3>2
    <3>10. QED BY <3>1, <3>4, <3>5, <3>6, <3>8, <3>9 DEF HeldOnce
  <2>12. QED BY <1>2, <2>4, <2>5, <2>6, <2>7, <2>8, <2>9, <2>10, <2>11, Zenon DEF Moves, Quiet
<1>3. QED BY <1>1, <1>2, StepKinds

\* A step adds at most one file to those that are published, and one handle to those that are lost.
LEMMA FiniteNext ==
    ASSUME TypesInv, Next, IsFiniteSet(Published), IsFiniteSet(lost)
    PROVE  IsFiniteSet(Published)' /\ IsFiniteSet(lost)'
<1> USE CustomFsAssumption
<1>1. CASE Mounting
  <2>1. UNCHANGED <<file, call, lost>>
      BY <1>1, MountingKeepsCalls
  <2>2. Published' = Published /\ lost' = lost
      BY <2>1 DEF Published, Allocated
  <2>3. QED BY <2>2
<1>2. ASSUME NEW t \in Thread, Moves(t)
      PROVE  \E g : Published' = Published \/ Published' = Published \cup {g} \/ Published' = Published \ {g}
  <2>1. Shaped(t)
      BY DEF TypesInv, CallsShaped
  <2>2. CASE Faults(t)
    <3>1. UNCHANGED <<file, call>>
        BY <2>2 DEF Faults, UseFreed
    <3>2. QED BY <3>1 DEF Published, Allocated
  <2>3. CASE Quiet(t)
      BY <2>3, QuietFiles
  <2>4. CASE Opens(t) \/ Dups(t)
      BY <2>4, AllocatedUnpublished
  <2>5. CASE OpenDone(t)
    <3>1. PICK h \in Handle : Stores(call[t].new, h) /\ Ends(t)
        BY <2>5 DEF OpenDone, Leaves
    <3>2. PICK g : g = call[t].new
        OBVIOUS
    <3>3. g # None
        BY <2>1, <2>5, <3>2 DEF OpenDone, Shaped
    <3>4. Published' = Published \cup {g}
        BY <3>1, <3>2, <3>3, FilePublished
    <3>5. QED BY <3>4
  <2>6. CASE OpenFailed(t) \/ Closes(t)
    <3>1. PICK g : /\ g = call[t].new \/ (g = call[t].file /\ call[t].op = "close" /\ call[t].new = None)
                   /\ g # None /\ Ends(t) /\ file' = [file EXCEPT ![g] = NoFile]
        BY <2>1, <2>6 DEF OpenFailed, Closes, Leaves, Shaped, AtRest
    <3>2. Published' = Published \ {g}
        BY <3>1, FileFreed
    <3>3. QED BY <3>2
  <2>7. QED BY <1>2, <2>2, <2>3, <2>4, <2>5, <2>6, Zenon DEF Moves, Quiet
<1>3. ASSUME NEW t \in Thread, Moves(t)
      PROVE  \E h : lost' = lost \/ lost' = lost \cup {h}
  <2>1. CASE Resolves(t) \/ Asks(t) \/ Opens(t) \/ Uses(t) \/ Dups(t) \/ Refused(t) \/ Locks(t) \/ Faults(t)
      BY <2>1, Zenon DEF Resolves, Asks, Opens, Uses, Dups, Refused, OnlyCall, Locks, Faults, UseFreed, external
  <2>2. CASE TempCloses(t)
      BY <2>2, Zenon DEF TempCloses
  <2>3. CASE \/ OpenDone(t) \/ OpenFailed(t) \/ TempOpens(t) \/ TempUses(t) \/ Closes(t)
             \/ Finishes(t) \/ Rechecks(t) \/ Invalid(t)
      BY <2>3, Zenon DEF OpenDone, OpenFailed, TempOpens, TempUses, Closes, Finishes, Rechecks, Invalid, external
  <2>4. QED BY <1>3, <2>1, <2>2, <2>3, Zenon DEF Moves
<1>4. ASSUME NEW t \in Thread, Moves(t)
      PROVE  IsFiniteSet(Published)' /\ IsFiniteSet(lost)'
  <2>1. IsFiniteSet(Published')
      BY <1>2, <1>4, FS_AddElement, FS_RemoveElement
  <2>2. IsFiniteSet(lost')
      BY <1>3, <1>4, FS_AddElement
  <2>3. QED BY <2>1, <2>2
<1>5. QED BY <1>1, <1>4, StepKinds

\* Handles that are each held once are as many as their holders.
LEMMA HeldOnceExact == HandlesInv => HandlesExact
<1> SUFFICES ASSUME HandlesInv PROVE HandlesExact
    OBVIOUS
<1> USE CustomFsAssumption DEF HandlesInv
<1> DEFINE Fs == {file[f].handle : f \in Published}
           temps == {t \in Thread : call[t].handle # None}
           Ts == {call[t].handle : t \in temps}
<1>1. handles = (Fs \cup Ts) \cup lost
  <2>1. \A h \in handles : h # None
      BY DEF TypesInv, FsTypes
  <2>2. \A h \in handles : h \in Fs \/ h \in Ts \/ h \in lost
      BY <2>1 DEF HeldOnce
  <2>3. \A h \in Fs \cup Ts \cup lost : h \in handles
      BY DEF HeldOnce
  <2> HIDE DEF Fs, Ts
  <2>4. QED BY <2>2, <2>3
<1>2. Fs \cap Ts = {} /\ (Fs \cup Ts) \cap lost = {}
    BY DEF HeldOnce
<1>3. IsFiniteSet(Fs) /\ Cardinality(Fs) = Cardinality(Published)
  <2> DEFINE fn == [f \in Published |-> file[f].handle]
  <2>1. fn \in [Published -> Fs]
      OBVIOUS
  <2>2. \A a, b \in Published : fn[a] = fn[b] => a = b
      BY DEF HeldOnce
  <2>3. \A h \in Fs : \E f \in Published : fn[f] = h
      OBVIOUS
  <2> HIDE DEF fn, Fs
  <2>4. fn \in Bijection(Published, Fs)
      BY <2>1, <2>2, <2>3, Fun_IsBij
  <2>5. ExistsBijection(Published, Fs)
      BY <2>4, Fun_ExistsBij
  <2>6. QED BY <2>5, FS_Bijection
<1>4. IsFiniteSet(Ts) /\ Cardinality(Ts) = Cardinality(temps) /\ IsFiniteSet(temps)
  <2>1. \A t \in temps : t = lock
      BY DEF TypesInv, CallsShaped, Shaped, Inside
  <2>2. CASE temps = {}
    <3>1. Ts = {}
        BY <2>2
    <3>2. QED BY <2>2, <3>1, FS_EmptySet
  <2>3. CASE temps # {}
    <3>1. temps = {lock} /\ Ts = {call[lock].handle}
        BY <2>1, <2>3
    <3> HIDE DEF Ts, temps
    <3>2. QED BY <3>1, FS_Singleton
  <2>4. QED BY <2>2, <2>3
<1>5. IsFiniteSet(Fs \cup Ts) /\ Cardinality(Fs \cup Ts) = Cardinality(Published) + Cardinality(temps)
  <2> HIDE DEF Fs, Ts, temps
  <2>1. Cardinality(Fs \cup Ts) = Cardinality(Fs) + Cardinality(Ts) - Cardinality({}) /\ IsFiniteSet(Fs \cup Ts)
      BY <1>2, <1>3, <1>4, FS_Union
  <2>2. Cardinality(Published) \in Nat /\ Cardinality(temps) \in Nat
      BY <1>4, FS_CardinalityType
  <2>3. QED BY <1>3, <1>4, <2>1, <2>2, FS_EmptySet
<1>6. Cardinality(handles) = Cardinality(Published) + Cardinality(temps) + Cardinality(lost)
  <2> HIDE DEF Fs, Ts, temps
  <2>1. Cardinality(handles) = Cardinality(Fs \cup Ts) + Cardinality(lost) - Cardinality({})
      BY <1>1, <1>2, <1>5, FS_Union
  <2>2. Cardinality(Published) \in Nat /\ Cardinality(temps) \in Nat /\ Cardinality(lost) \in Nat
      BY <1>4, FS_CardinalityType
  <2>3. QED BY <1>5, <2>1, <2>2, FS_EmptySet
<1>7. QED BY <1>1, <1>6 DEF HandlesExact

\* The file system's open handles are those of the open files and of the stat or truncate in
\* progress, each held once, whichever callbacks fail: none is leaked by the error paths of
\* _fs_open and _fs_dup, none is closed twice.
THEOREM HandlesKept == Spec => []HandlesExact
<1>1. Init => HandlesInv
  <2>1. Init => Allocated = {}
      BY DEF Init, Allocated
  <2>2. Init => Published = {} /\ lost = {}
      BY <2>1 DEF Published, Init
  <2>3. Init => HeldOnce
      BY <2>2 DEF HeldOnce, Init, NoCall
  <2>4. QED BY <2>2, <2>3, TypesInit, FS_EmptySet DEF HandlesInv
<1>2. HandlesInv /\ [Next]_vars => HandlesInv'
  <2>1. CASE UNCHANGED vars
      BY <2>1 DEF vars, fsVars, external, HandlesInv, TypesInv, FsTypes, FileTypes, CallTypes, CallsShaped,
         Shaped, FilesOwned, Published, Allocated, HeldOnce
  <2>2. QED BY <2>1, TypesNext, HeldNext, FiniteNext DEF HandlesInv
<1>3. QED BY <1>1, <1>2, HeldOnceExact, PTL DEF Spec
-----------------------------------------------------------------------------
(* MmapFile: chunks and sequences *)

\* n is the length of some chunks.
Whole(n) == Round(n) = n

LEMMA RoundIs ==
    ASSUME NEW n \in Nat
    PROVE  \E k \in Nat : Round(n) = k * Chunk /\ n <= k * Chunk /\ k * Chunk < n + Chunk
<1> DEFINE m == n + Chunk - 1
           k == m \div Chunk
<1>1. Chunk \in Nat /\ Chunk > 0 /\ m \in Nat
  BY SizesAreNumbers
<1>2. k \in Nat /\ m % Chunk \in 0..Chunk - 1 /\ m = k * Chunk + (m % Chunk)
  <2> HIDE DEF m
  <2>1. QED BY <1>1
<1>3. k * Chunk \in Nat
  BY <1>1, <1>2
<1>4. Round(n) = k * Chunk
  BY DEF Round
<1>5. m = n + Chunk - 1
  OBVIOUS
<1> HIDE DEF m, k
<1>6. n <= k * Chunk /\ k * Chunk < n + Chunk
  BY <1>1, <1>2, <1>3, <1>5
<1>7. QED BY <1>2, <1>4, <1>6

LEMMA Multiples ==
    ASSUME NEW j \in Nat, NEW k \in Nat
    PROVE  /\ j * Chunk \in Nat
           /\ j < k => j * Chunk + Chunk <= k * Chunk
           /\ (j + 1) * Chunk = j * Chunk + Chunk
<1>1. Chunk \in Nat
  BY SizesAreNumbers
<1>2. j * Chunk \in Nat /\ (j + 1) * Chunk = j * Chunk + Chunk
  BY <1>1
<1>3. ASSUME j < k PROVE (j + 1) * Chunk <= k * Chunk
  BY <1>1, <1>3
<1>4. QED BY <1>2, <1>3

LEMMA WholeIs == ASSUME NEW n \in Nat PROVE Whole(n) <=> \E k \in Nat : n = k * Chunk
<1>1. Chunk \in Nat /\ Chunk > 0
  BY SizesAreNumbers
<1>2. Whole(n) => \E k \in Nat : n = k * Chunk
  BY RoundIs DEF Whole
<1>3. ASSUME NEW j \in Nat, n = j * Chunk PROVE Whole(n)
  <2>1. PICK k \in Nat : Round(n) = k * Chunk /\ n <= k * Chunk /\ k * Chunk < n + Chunk
    BY RoundIs
  <2>2. j < k => j * Chunk + Chunk <= k * Chunk
    BY Multiples
  <2>3. k < j => k * Chunk + Chunk <= j * Chunk
    BY Multiples
  <2>4. j * Chunk \in Nat /\ k * Chunk \in Nat
    BY Multiples
  <2> DEFINE jc == j * Chunk
             kc == k * Chunk
  <2>5. j = k => jc = kc
    OBVIOUS
  <2>6. n = jc /\ n <= kc /\ kc < n + Chunk /\ Round(n) = kc
    BY <1>3, <2>1
  <2>7. j = k
    <3>1. (j < k => jc + Chunk <= kc) /\ (k < j => kc + Chunk <= jc) /\ jc \in Nat /\ kc \in Nat
      BY <2>2, <2>3, <2>4
    <3> HIDE DEF jc, kc
    <3>2. QED BY <3>1, <2>6, <1>1
  <2>8. QED BY <2>5, <2>6, <2>7 DEF Whole
<1>4. QED BY <1>2, <1>3

\* Lengths rounded up to chunks, and those of mappings.
LEMMA Rounded ==
    ASSUME NEW n \in Nat
    PROVE  /\ Round(n) \in Nat /\ n <= Round(n) /\ Whole(Round(n)) /\ Round(0) = 0
           /\ RegionSize(n) \in Nat /\ 0 < RegionSize(n) /\ n <= RegionSize(n)
           /\ Whole(RegionSize(n)) /\ Round(n) <= RegionSize(n)
           /\ n > 0 => RegionSize(n) = Round(n)
<1>1. Chunk \in Nat /\ Chunk > 0 /\ 0 \in Nat /\ 1 \in Nat
  BY SizesAreNumbers
<1>2. \A m \in Nat : Round(m) \in Nat /\ m <= Round(m) /\ Whole(Round(m))
  <2>1. ASSUME NEW m \in Nat PROVE Round(m) \in Nat /\ m <= Round(m) /\ Whole(Round(m))
    <3>1. PICK k \in Nat : Round(m) = k * Chunk /\ m <= k * Chunk /\ k * Chunk < m + Chunk
      BY RoundIs
    <3>2. k * Chunk \in Nat
      BY Multiples
    <3>3. QED BY <3>1, <3>2, WholeIs
  <2>2. QED BY <2>1
<1>3. Round(0) = 0 /\ Whole(Chunk)
  <2>1. 0 = 0 * Chunk /\ Chunk = 1 * Chunk
    BY <1>1
  <2>2. QED BY <2>1, <1>1, WholeIs DEF Whole
<1>4. QED BY <1>1, <1>2, <1>3 DEF RegionSize

LEMMA RoundLeast ==
    ASSUME NEW m \in Nat, Whole(m), NEW n \in Nat, n <= m
    PROVE  Round(n) <= m /\ (0 < m => RegionSize(n) <= m)
<1>1. Chunk \in Nat /\ Chunk > 0
  BY SizesAreNumbers
<1>2. PICK j \in Nat : m = j * Chunk
  BY WholeIs
<1>3. PICK k \in Nat : Round(n) = k * Chunk /\ n <= k * Chunk /\ k * Chunk < n + Chunk
  BY RoundIs
<1> DEFINE jc == j * Chunk
           kc == k * Chunk
<1>4. jc \in Nat /\ kc \in Nat /\ (j < k => jc + Chunk <= kc)
  BY Multiples
<1>5. j = k => jc = kc
  OBVIOUS
<1>6. k < j => kc + Chunk <= jc
  BY Multiples
<1>7. m = jc /\ Round(n) = kc /\ n <= kc /\ kc < n + Chunk
  BY <1>2, <1>3
<1>8. Round(n) <= m
  <2> HIDE DEF jc, kc
  <2>1. QED BY <1>1, <1>4, <1>5, <1>6, <1>7
<1>9. 0 < m => Chunk <= m
  <2>1. 0 < j => Chunk <= jc
    <3>1. 0 * Chunk = 0 /\ (0 < j => 0 * Chunk + Chunk <= jc)
      BY <1>1, Multiples
    <3>2. QED BY <3>1, <1>1
  <2>2. j = 0 => jc = 0
    BY <1>1
  <2>3. QED BY <2>1, <2>2, <1>7
<1>10. QED BY <1>8, <1>9 DEF RegionSize

\* What is accessible behind whole chunks and one more cell.
LEMMA Reach ==
    ASSUME NEW k \in Nat, Whole(k), NEW m \in Nat, Whole(m), m + 1 <= Round(k + 1)
    PROVE  m <= k
<1>1. Chunk \in Nat /\ Chunk > 0
  BY SizesAreNumbers
<1>2. PICK i \in Nat : k = i * Chunk
  BY WholeIs
<1>3. PICK j \in Nat : m = j * Chunk
  BY WholeIs
<1> DEFINE ic == i * Chunk
           jc == j * Chunk
<1>4. Round(k + 1) <= ic + Chunk
  <2>1. i + 1 \in Nat /\ (i + 1) * Chunk = ic + Chunk /\ ic \in Nat
    BY Multiples
  <2>2. ic + Chunk \in Nat /\ Whole(ic + Chunk)
    <3>1. ic + Chunk \in Nat
      BY <2>1, <1>1
    <3>2. QED BY <3>1, <2>1, WholeIs
  <2>3. k + 1 \in Nat /\ k + 1 <= ic + Chunk
    BY <1>1, <1>2, <2>1
  <2> HIDE DEF ic
  <2>4. QED BY <2>2, <2>3, RoundLeast
<1>5. Round(k + 1) \in Nat
  BY Rounded
<1>6. i < j => ic + Chunk <= jc
  BY Multiples
<1>7. j < i => jc + Chunk <= ic
  BY Multiples
<1>8. i = j => ic = jc
  OBVIOUS
<1>9. ic \in Nat /\ jc \in Nat /\ k = ic /\ m = jc
  BY <1>2, <1>3, Multiples
<1> HIDE DEF ic, jc
<1>10. QED BY <1>1, <1>4, <1>5, <1>6, <1>7, <1>8, <1>9

LEMMA FunctionIsSeq ==
    ASSUME NEW S, NEW n \in Nat, NEW f \in [1..n -> S]
    PROVE  f \in Seq(S) /\ Len(f) = n
OBVIOUS

LEMMA PutInSeq ==
    ASSUME NEW S, NEW d \in Seq(S), NEW i \in 1..Len(d), NEW v \in S
    PROVE  LET e == [d EXCEPT ![i] = v]
           IN  /\ e \in Seq(S) /\ Len(e) = Len(d) /\ e[i] = v
               /\ \A j \in 1..Len(d) : j # i => e[j] = d[j]
OBVIOUS

LEMMA Cells ==
    /\ \A b \in Byte \cup {Hole} : Data(b) \in Cell /\ Data(b).kind = "data" /\ Data(b).val = b
    /\ \A n \in 0..MaxOffset : Tag(n) \in Cell
    /\ \A n : Tag(n).kind = "tag" /\ Tag(n).val = n
    /\ Mixed \in Cell /\ Mixed.kind # "tag" /\ Zero \in Cell /\ Zero.kind # "tag"
    /\ \A b : Data(b).kind # "tag"
    /\ \A c \in Cell : c.kind = "tag" => c.val \in 0..MaxOffset /\ c = Tag(c.val)
    /\ \A c \in Cell : c.kind = "data" => c.val \in Byte \cup {Hole} /\ c = Data(c.val)
<1>1. \A b \in Byte \cup {Hole} : Data(b) \in Cell /\ Data(b).kind = "data" /\ Data(b).val = b
  BY DEF Data, Cell, Hole
<1>2. \A n \in 0..MaxOffset : Tag(n) \in Cell
  BY DEF Tag, Cell
<1>3. \A n : Tag(n).kind = "tag" /\ Tag(n).val = n
  BY DEF Tag
<1>4. Mixed \in Cell /\ Mixed.kind # "tag" /\ Zero \in Cell /\ Zero.kind # "tag"
  BY DEF Mixed, Zero, Data, Cell
<1>5. \A b : Data(b).kind # "tag"
  BY DEF Data
<1>6. \A c \in Cell : c.kind = "tag" => c.val \in 0..MaxOffset /\ c = Tag(c.val)
  BY DEF Cell, Tag, Mixed
<1>7. \A c \in Cell : c.kind = "data" => c.val \in Byte \cup {Hole} /\ c = Data(c.val)
  BY DEF Cell, Data, Mixed, Hole
<1> HIDE DEF Cell
<1>8. QED BY <1>1, <1>2, <1>3, <1>4, <1>5, <1>6, <1>7

LEMMA Resized ==
    ASSUME NEW d \in Seq(Cell), NEW n \in Nat
    PROVE  /\ Resize(d, n) \in Seq(Cell) /\ Len(Resize(d, n)) = n
           /\ \A i \in 1..n : Resize(d, n)[i] = IF i <= Len(d) THEN d[i] ELSE Zero
<1>1. \A i \in 1..n : (IF i <= Len(d) THEN d[i] ELSE Zero) \in Cell
  <2>1. Zero \in Cell
    BY Cells
  <2>2. QED BY <2>1
<1>2. Resize(d, n) \in [1..n -> Cell]
  BY <1>1 DEF Resize
<1>3. Resize(d, n) \in Seq(Cell) /\ Len(Resize(d, n)) = n
  BY <1>2, FunctionIsSeq
<1>4. QED BY <1>3 DEF Resize

LEMMA SizeStored ==
    ASSUME NEW d \in Seq(Cell), NEW n \in 0..MaxOffset, Round(n) + 1 <= Len(d)
    PROVE  LET e == StoreSize(d, n)
           IN  /\ e \in Seq(Cell) /\ Len(e) = Len(d)
               /\ e[Round(n) + 1] = IF d[Round(n) + 1].kind = "tag" THEN Tag(n) ELSE Mixed
               /\ \A j \in 1..Len(d) : j # Round(n) + 1 => e[j] = d[j]
<1> DEFINE p == Round(n) + 1
           v == IF d[p].kind = "tag" THEN Tag(n) ELSE Mixed
<1>1. p \in 1..Len(d)
  <2>1. n \in Nat
    BY SizesAreNumbers
  <2>2. Round(n) \in Nat
    BY <2>1, Rounded
  <2>3. QED BY <2>2
<1>2. v \in Cell
  BY Cells
<1>3. StoreSize(d, n) = [d EXCEPT ![p] = v]
  BY DEF StoreSize
<1> HIDE DEF p, v
<1>4. LET e == StoreSize(d, n)
      IN  e \in Seq(Cell) /\ Len(e) = Len(d) /\ e[p] = v /\ \A j \in 1..Len(d) : j # p => e[j] = d[j]
  BY <1>1, <1>2, <1>3, PutInSeq
<1>5. QED BY <1>4 DEF p, v

\* The size that an open finds.
LEMMA SizeFound ==
    ASSUME NEW d \in Seq(Cell)
    PROVE  LET n == Len(d)
           IN  /\ RealSize(d) = IF n > 0 /\ d[n].kind = "tag"
                                THEN IF d[n].val <= n - 1 THEN d[n].val ELSE Bad
                                ELSE n
               /\ RealSize(d) # Bad => RealSize(d) \in 0..Len(d)
<1>1. Len(d) \in Nat
  OBVIOUS
<1>2. Len(d) > 0 => d[Len(d)] \in Cell
  OBVIOUS
<1>3. Len(d) > 0 /\ d[Len(d)].kind = "tag" => d[Len(d)].val \in Nat
  BY <1>2, Cells, SizesAreNumbers
<1>4. RealSize(d) = IF Len(d) > 0 /\ d[Len(d)].kind = "tag"
                    THEN IF d[Len(d)].val <= Len(d) - 1 THEN d[Len(d)].val ELSE Bad
                    ELSE Len(d)
  BY <1>1 DEF RealSize
<1>5. QED BY <1>1, <1>3, <1>4
-----------------------------------------------------------------------------
(* MmapFile: the invariant *)

Writing(f) == pc[f] \in {"extend", "copy", "size"}
IsTag(p) == disk[p].kind = "tag"
\* The tag is where a writer whose file has that size keeps it.
Home(p) == RegionSize(disk[p].val) + 1 = p

\* One writer at most; a reader whose size is not stale knows no more than there is.
Descriptors ==
    /\ \A f, g \in writable : f = g
    /\ \A f \in FD \ writable : pc[f] \in {"closed", "open"}
    /\ \A f \in FD : Writing(f) <=> writing[f] # NoWrite
    /\ \A f \in FD \ writable : pc[f] = "open" =>
          fileSize[f] <= mapped[f] /\ (f \notin stale => fileSize[f] <= Len(content))

\* The writer's file and mapping consist of whole chunks and one more cell, which lies behind its
\* data and is where the tag of the size belongs that it is about to store.
RegionOf(f) ==
    /\ fileSize[f] \in 0..MaxOffset
    /\ Whole(Len(disk) - 1) /\ RegionSize(fileSize[f]) < Len(disk)
    /\ pc[f] # "closing" => Whole(mapped[f] - 1) /\ RegionSize(fileSize[f]) < mapped[f]
    /\ Writing(f) => Round(Last(writing[f])) < Len(disk) /\ Round(Last(writing[f])) < mapped[f]
    /\ pc[f] = "opened" => Len(disk) = RegionSize(fileSize[f]) + 1
    /\ pc[f] \in {"extend", "copy"} => /\ Len(disk) = Round(Last(writing[f])) + 1
                                       /\ RegionSize(fileSize[f]) <= Last(writing[f])
    /\ pc[f] = "size" => /\ fileSize[f] < Last(writing[f])
                         /\ \A i \in writing[f].offset + 1..Last(writing[f]) :
                               disk[i] = Data(writing[f].byte)

\* What the program has written is in the file.
Stored ==
    /\ Len(content) <= Len(disk)
    /\ \A i \in 1..Len(content) : content[i] # Hole => disk[i] = Data(content[i])

\* Tags inside the file are at home. One at its end is, too, unless an extension has copied it there
\* and the new size is not stored yet; where it was there may be data now, but no other tag.
InnerTags == \A p \in 1..Len(disk) - 1 : IsTag(p) => Home(p)
Copied ==
    LET home == RegionSize(disk[Len(disk)].val) + 1
    IN  /\ home < Len(disk)
        /\ IsTag(home) => disk[home] = disk[Len(disk)]
        /\ \A f \in writable : /\ pc[f] \in {"copy", "size"}
                               /\ fileSize[f] < Last(writing[f])
                               /\ Len(disk) = Round(Last(writing[f])) + 1
EndTag == Len(disk) > 0 /\ IsTag(Len(disk)) => Home(Len(disk)) \/ Copied

\* Unless it has been misplaced, the writer's tag is at the end and has its size. Until it is there,
\* no other one is.
PlacedOf(f) ==
    /\ pc[f] = "opened" /\ IsTag(Len(disk)) => disk[Len(disk)] = Tag(fileSize[f])
    /\ misplaced = {} =>
         /\ pc[f] \in {"open", "closing"} => /\ Len(disk) = RegionSize(fileSize[f]) + 1
                                             /\ disk[Len(disk)] = Tag(fileSize[f])
         /\ pc[f] = "extend" =>
               /\ fileSize[f] > 0 /\ disk[Round(fileSize[f]) + 1] = Tag(fileSize[f])
               /\ IsTag(Len(disk)) => disk[Len(disk)] = Tag(fileSize[f])
         /\ pc[f] \in {"copy", "size"} => /\ Len(disk) = Round(Last(writing[f])) + 1
                                          /\ disk[Len(disk)] = Tag(fileSize[f])

\* What the last writer has left behind.
Found ==
    writable = {} /\ misplaced = {} /\ ~ClosedInHole =>
        RealSize(disk) >= Len(content) /\ (~torn => RealSize(disk) = Len(content))

FileInv == /\ FileTypeOK /\ Descriptors /\ \A f \in writable : RegionOf(f) /\ PlacedOf(f)
           /\ Stored /\ InnerTags /\ EndTag /\ Found

\* The values that a descriptor has.
LEMMA Typed ==
    ASSUME FileTypeOK, NEW f \in FD
    PROVE  /\ fileSize[f] \in Nat /\ mapped[f] \in Nat
           /\ writing[f] # NoWrite => writing[f] \in WriteCall
BY DEF FileTypeOK

LEMMA CallTyped ==
    ASSUME NEW c \in WriteCall
    PROVE  /\ c.offset \in Nat /\ c.count \in Nat /\ c.byte \in Byte /\ c # NoWrite
           /\ Last(c) = c.offset + c.count /\ Last(c) \in Nat /\ Last(c) \in 0..MaxOffset
<1>1. c \in [offset : Offset, count : 0..MaxCount, byte : Byte] /\ c.offset + c.count <= MaxOffset
  BY DEF WriteCall
<1>2. c.offset \in Nat /\ c.count \in Nat /\ c.byte \in Byte
  BY <1>1, SizesAreNumbers DEF Offset
<1>3. c # NoWrite
  BY <1>2, BytesAreData DEF NoWrite
<1>4. QED BY <1>1, <1>2, <1>3, SizesAreNumbers DEF Last

\* Whoever ends with a file that is not torn or misplaced leaves one with the right size.
LEMMA InvRecovers == FileInv => SizeRecovered /\ NothingLost
<1> SUFFICES ASSUME FileInv PROVE SizeRecovered /\ NothingLost
  OBVIOUS
<1> DEFINE L == Len(disk)
           n == Len(content)
<1>1. disk \in Seq(Cell) /\ content \in Seq(Byte \cup {Hole}) /\ L \in Nat /\ n \in Nat
  BY DEF FileInv, FileTypeOK
<1>2. RealSize(disk) = IF L > 0 /\ disk[L].kind = "tag"
                       THEN IF disk[L].val <= L - 1 THEN disk[L].val ELSE Bad
                       ELSE L
  BY <1>1, SizeFound
<1>3. ASSUME misplaced = {}, ~ClosedInHole
      PROVE  RealSize(disk) >= n /\ (~Window /\ ~torn => RealSize(disk) = n)
  <2>1. CASE writable = {}
    BY <1>3, <2>1 DEF FileInv, Found
  <2>2. CASE writable # {}
    <3>1. PICK f \in writable : TRUE
      BY <2>2
    <3>2. f \in FD /\ pc[f] # "closed" /\ fileSize[f] = n /\ RegionOf(f) /\ PlacedOf(f)
      BY DEF FileInv, FileTypeOK
    <3>3. n <= RegionSize(n) /\ RegionSize(n) \in Nat /\ RegionSize(n) < L /\ L > 0
      BY <1>1, <3>2, Rounded DEF RegionOf
    <3>4. disk[L] = Tag(n) => RealSize(disk) = n
      BY <1>1, <1>2, <3>3, Cells
    <3>5. ~IsTag(L) => RealSize(disk) = L
      BY <1>2 DEF IsTag
    <3>6. pc[f] \in {"opened", "extend"} => Window /\ (IsTag(L) => disk[L] = Tag(n))
      BY <1>3, <3>2 DEF PlacedOf, Window
    <3>7. pc[f] \in {"open", "closing", "copy", "size"} => disk[L] = Tag(n)
      BY <1>3, <3>2 DEF PlacedOf
    <3>8. pc[f] \in {"opened", "extend", "open", "closing", "copy", "size"}
      BY <3>2 DEF FileInv, FileTypeOK
    <3> HIDE DEF L, n
    <3>9. QED BY <1>1, <3>3, <3>4, <3>5, <3>6, <3>7, <3>8
  <2>3. QED BY <2>1, <2>2
<1>4. SizeRecovered
  BY <1>3 DEF SizeRecovered
<1>5. misplaced = {} /\ ~ClosedInHole => RealSize(disk) >= n
  BY <1>3
<1>6. ASSUME NEW i \in 1..n, content[i] # Hole PROVE i <= L /\ disk[i] = Data(content[i])
  BY <1>1, <1>6 DEF FileInv, Stored
<1>7. QED BY <1>4, <1>5, <1>6 DEF NothingLost

LEMMA InvMapped == FileInv => Mapped
<1> SUFFICES ASSUME FileInv, NEW f \in FD, pc[f] \in {"open", "copy", "size"}
             PROVE  /\ f \notin stale => Accessible(f, fileSize[f])
                    /\ f \in writable => Accessible(f, RegionSize(fileSize[f]) + 1)
                    /\ f \in writable /\ writing[f] # NoWrite =>
                          Accessible(f, Round(Last(writing[f])) + 1)
  BY DEF Mapped
<1> DEFINE L == Len(disk)
           s == fileSize[f]
           m == mapped[f]
<1>1. L \in Nat /\ s \in Nat /\ m \in Nat /\ Len(content) \in Nat
  BY Typed DEF FileInv, FileTypeOK
<1>2. L <= Round(L) /\ m <= Round(m) /\ Round(L) \in Nat /\ Round(m) \in Nat
  BY <1>1, Rounded
<1>3. Len(content) <= L
  BY DEF FileInv, Stored
<1>4. CASE f \notin writable
  <2>1. f \notin stale => s <= m /\ s <= Len(content)
    BY <1>4 DEF FileInv, Descriptors
  <2> HIDE DEF s, m, L
  <2>2. f \notin stale => s <= Round(m) /\ s <= Round(L)
    BY <2>1, <1>1, <1>2, <1>3
  <2>3. QED BY <2>2, <1>4 DEF Accessible, s, m, L
<1>5. CASE f \in writable
  <2>1. RegionOf(f)
    BY <1>5 DEF FileInv
  <2>2. RegionSize(s) < L /\ RegionSize(s) < m /\ RegionSize(s) \in Nat /\ s <= RegionSize(s)
    BY <1>1, <2>1, Rounded DEF RegionOf
  <2>3. writing[f] # NoWrite =>
           /\ Round(Last(writing[f])) < L /\ Round(Last(writing[f])) < m
           /\ Round(Last(writing[f])) \in Nat
    <3>1. writing[f] # NoWrite => Writing(f) /\ Last(writing[f]) \in Nat
      BY Typed, CallTyped DEF FileInv, Descriptors
    <3>2. QED BY <3>1, <2>1, Rounded DEF RegionOf
  <2> HIDE DEF s, m, L
  <2>4. s <= Round(m) /\ s <= Round(L)
    BY <2>2, <1>1, <1>2
  <2>5. RegionSize(s) + 1 <= Round(m) /\ RegionSize(s) + 1 <= Round(L)
    BY <2>2, <1>1, <1>2
  <2>6. writing[f] # NoWrite => /\ Round(Last(writing[f])) + 1 <= Round(m)
                                /\ Round(Last(writing[f])) + 1 <= Round(L)
    BY <2>3, <1>1, <1>2
  <2>7. QED BY <2>4, <2>5, <2>6 DEF Accessible, s, m, L
<1>6. QED BY <1>4, <1>5
-----------------------------------------------------------------------------
(* MmapFile: steps that leave the file alone *)

LEMMA ReaderStep ==
    ASSUME FileInv, FileTypeOK', Descriptors',
           UNCHANGED <<disk, writable, content, misplaced, torn, writing>>,
           \A g \in writable : pc'[g] = pc[g] /\ fileSize'[g] = fileSize[g] /\ mapped'[g] = mapped[g]
    PROVE  FileInv'
<1>1. \A g \in writable' : RegionOf(g)' /\ PlacedOf(g)'
  BY DEF FileInv, RegionOf, PlacedOf, Writing, IsTag
<1>2. Stored' /\ InnerTags'
  BY DEF FileInv, Stored, InnerTags, IsTag, Home
<1>3. EndTag'
  BY DEF FileInv, EndTag, IsTag, Home, Copied
<1>4. Found'
  BY DEF FileInv, Found, ClosedInHole
<1>5. QED BY <1>1, <1>2, <1>3, <1>4 DEF FileInv

LEMMA OpenReadKeeps == ASSUME FileInv, NEW f \in FD, OpenRead(f) PROVE FileInv'
<1> DEFINE n == RealSize(disk)
<1>1. /\ pc[f] = "closed" /\ n # Bad
      /\ pc' = [pc EXCEPT ![f] = "open"]
      /\ fileSize' = [fileSize EXCEPT ![f] = n]
      /\ mapped' = [mapped EXCEPT ![f] = RegionSize(n)]
      /\ stale' = IF n = Len(content) THEN stale ELSE stale \cup {f}
      /\ UNCHANGED <<disk, writable, writing, content, misplaced, torn>>
  BY DEF OpenRead
<1>2. n \in Nat
  <2>1. disk \in Seq(Cell)
    BY DEF FileInv, FileTypeOK
  <2>2. n \in 0..Len(disk)
    BY <1>1, <2>1, SizeFound
  <2>3. QED BY <2>2
<1> HIDE DEF n
<1>3. RegionSize(n) \in Nat /\ n <= RegionSize(n)
  BY <1>2, Rounded
<1>4. f \notin writable
  BY <1>1 DEF FileInv, FileTypeOK
<1>5. FileTypeOK'
  BY <1>1, <1>2, <1>3, <1>4 DEF FileInv, FileTypeOK
<1>6. Descriptors'
  <2>1. \A g \in FD : Writing(g)' <=> writing'[g] # NoWrite
    BY <1>1 DEF FileInv, FileTypeOK, Descriptors, Writing
  <2>2. \A g \in FD \ writable' : pc'[g] \in {"closed", "open"}
    BY <1>1 DEF FileInv, FileTypeOK, Descriptors
  <2>3. \A g, h \in writable' : g = h
    BY <1>1 DEF FileInv, Descriptors
  <2>4. ASSUME NEW g \in FD \ writable', pc'[g] = "open"
        PROVE  fileSize'[g] <= mapped'[g] /\ (g \notin stale' => fileSize'[g] <= Len(content)')
    <3>1. CASE g = f
      <4>1. fileSize'[f] = n /\ mapped'[f] = RegionSize(n)
        BY <1>1 DEF FileInv, FileTypeOK
      <4>2. f \notin stale' => n = Len(content)
        BY <1>1
      <4>3. QED BY <3>1, <4>1, <4>2, <1>1, <1>2, <1>3
    <3>2. CASE g # f
      <4>1. fileSize'[g] = fileSize[g] /\ mapped'[g] = mapped[g] /\ pc'[g] = pc[g]
            /\ (g \notin stale' => g \notin stale)
        BY <1>1, <3>2 DEF FileInv, FileTypeOK
      <4>2. QED BY <4>1, <2>4, <1>1 DEF FileInv, Descriptors
    <3>3. QED BY <3>1, <3>2
  <2>5. QED BY <2>1, <2>2, <2>3, <2>4 DEF Descriptors
<1>7. \A g \in writable : pc'[g] = pc[g] /\ fileSize'[g] = fileSize[g] /\ mapped'[g] = mapped[g]
  BY <1>1, <1>4 DEF FileInv, FileTypeOK
<1>8. QED BY <1>1, <1>5, <1>6, <1>7, ReaderStep

LEMMA Freed ==
    ASSUME FileTypeOK, NEW S \in SUBSET FD, Free(S)
    PROVE  /\ pc' \in [FD -> {"closed", "opened", "open", "extend", "copy", "size", "closing"}]
           /\ fileSize' \in [FD -> Nat] /\ mapped' \in [FD -> Nat]
           /\ \A g \in FD : g \in S => pc'[g] = "closed"
           /\ \A g \in FD \ S : pc'[g] = pc[g] /\ fileSize'[g] = fileSize[g] /\ mapped'[g] = mapped[g]
BY DEF Free, FileTypeOK

LEMMA CloseReadKeeps == ASSUME FileInv, NEW f \in FD, CloseRead(f) PROVE FileInv'
<1>1. /\ pc[f] = "open" /\ f \notin writable /\ Free({f})
      /\ stale' = stale \ {f}
      /\ UNCHANGED <<disk, writable, writing, content, misplaced, torn>>
  BY DEF CloseRead, IsOpen
<1>2. /\ pc' \in [FD -> {"closed", "opened", "open", "extend", "copy", "size", "closing"}]
      /\ fileSize' \in [FD -> Nat] /\ mapped' \in [FD -> Nat]
      /\ pc'[f] = "closed"
      /\ \A g \in FD \ {f} : pc'[g] = pc[g] /\ fileSize'[g] = fileSize[g] /\ mapped'[g] = mapped[g]
  <2>1. FileTypeOK /\ {f} \in SUBSET FD
    BY DEF FileInv
  <2>2. QED BY <1>1, <2>1, Freed
<1>3. FileTypeOK'
  BY <1>1, <1>2 DEF FileInv, FileTypeOK
<1>4. Descriptors'
  BY <1>1, <1>2 DEF FileInv, FileTypeOK, Descriptors, Writing
<1>5. \A g \in writable : g \in FD \ {f}
  BY <1>1 DEF FileInv, FileTypeOK
<1>6. QED BY <1>1, <1>2, <1>3, <1>4, <1>5, ReaderStep

\* The process may end at any time.
LEMMA EndKeeps == ASSUME FileInv, ProcessEnds PROVE FileInv'
<1>1. /\ Free(FD) /\ writable' = {} /\ stale' = {}
      /\ writing' = [f \in FD |-> NoWrite]
      /\ torn' = (torn \/ Window)
      /\ UNCHANGED <<disk, content, misplaced>>
  BY DEF ProcessEnds
<1>2. /\ pc' \in [FD -> {"closed", "opened", "open", "extend", "copy", "size", "closing"}]
      /\ fileSize' \in [FD -> Nat] /\ mapped' \in [FD -> Nat]
      /\ \A g \in FD : pc'[g] = "closed"
  <2>1. FileTypeOK /\ FD \in SUBSET FD
    BY DEF FileInv
  <2>2. QED BY <1>1, <2>1, Freed
<1>3. FileTypeOK'
  <2>1. torn' \in BOOLEAN
    BY <1>1
  <2>2. writing' \in [FD -> WriteCall \cup {NoWrite}]
    BY <1>1
  <2>3. QED BY <1>1, <1>2, <2>1, <2>2 DEF FileInv, FileTypeOK
<1>4. Descriptors'
  BY <1>1, <1>2 DEF Descriptors, Writing
<1>5. Stored' /\ InnerTags'
  BY <1>1 DEF FileInv, Stored, InnerTags, IsTag, Home
<1>6. EndTag'
  BY <1>1 DEF FileInv, EndTag, IsTag, Home, Copied
<1>7. Found'
  <2>1. SizeRecovered /\ NothingLost
    BY InvRecovers
  <2>2. misplaced = {} /\ ~ClosedInHole => RealSize(disk) >= Len(content)
    BY <2>1 DEF NothingLost
  <2>3. misplaced = {} /\ ~ClosedInHole /\ ~torn' => RealSize(disk) = Len(content)
    BY <2>1, <1>1 DEF SizeRecovered
  <2>4. QED BY <2>2, <2>3, <1>1 DEF Found, ClosedInHole
<1>8. QED BY <1>1, <1>3, <1>4, <1>5, <1>6, <1>7 DEF FileInv
-----------------------------------------------------------------------------
(* MmapFile: steps of the writer *)

LEMMA Writer ==
    ASSUME FileInv, NEW f \in writable
    PROVE  /\ f \in FD /\ writable = {f} /\ RegionOf(f) /\ PlacedOf(f)
           /\ disk \in Seq(Cell) /\ Len(disk) \in Nat
           /\ content \in Seq(Byte \cup {Hole}) /\ Len(content) \in Nat
           /\ fileSize[f] \in Nat /\ fileSize[f] \in 0..MaxOffset /\ fileSize[f] = Len(content)
           /\ mapped[f] \in Nat
           /\ RegionSize(fileSize[f]) \in Nat /\ 0 < RegionSize(fileSize[f])
           /\ fileSize[f] <= RegionSize(fileSize[f]) /\ RegionSize(fileSize[f]) < Len(disk)
           /\ 1 < Len(disk)
           /\ (pc[f] \in {"open", "opened", "closing", "extend"} /\ IsTag(Len(disk)) => Home(Len(disk)))
<1>1. f \in FD /\ writable = {f}
  BY DEF FileInv, FileTypeOK, Descriptors
<1>2. /\ disk \in Seq(Cell) /\ Len(disk) \in Nat
      /\ content \in Seq(Byte \cup {Hole}) /\ Len(content) \in Nat
      /\ fileSize[f] = Len(content) /\ fileSize[f] \in Nat /\ mapped[f] \in Nat
  BY <1>1 DEF FileInv, FileTypeOK
<1>3. RegionOf(f) /\ PlacedOf(f)
  BY DEF FileInv
<1>4. fileSize[f] \in 0..MaxOffset /\ RegionSize(fileSize[f]) < Len(disk)
  BY <1>3 DEF RegionOf
<1>5. RegionSize(fileSize[f]) \in Nat /\ 0 < RegionSize(fileSize[f])
      /\ fileSize[f] <= RegionSize(fileSize[f])
  BY <1>2, Rounded
<1>6. 1 < Len(disk)
  BY <1>2, <1>4, <1>5
<1>7. pc[f] \in {"open", "opened", "closing", "extend"} /\ IsTag(Len(disk)) => Home(Len(disk))
  BY <1>6, <1>2 DEF FileInv, EndTag, Copied
<1>8. QED BY <1>1, <1>2, <1>3, <1>4, <1>5, <1>6, <1>7

\* What is left to be shown of such a step.
LEMMA WriterStep ==
    ASSUME FileInv, NEW f \in FD, writable \subseteq {f}, writable' = {f}, FileTypeOK',
           \A g \in FD \ {f} : /\ pc'[g] = pc[g] /\ fileSize'[g] = fileSize[g]
                               /\ mapped'[g] = mapped[g] /\ writing'[g] = writing[g]
                               /\ pc[g] = "open" /\ g \notin stale' => fileSize[g] <= Len(content'),
           Writing(f)' <=> writing'[f] # NoWrite,
           RegionOf(f)', PlacedOf(f)', Stored', InnerTags', EndTag'
    PROVE  FileInv'
<1>1. Descriptors'
  <2>1. \A g, h \in writable' : g = h
    OBVIOUS
  <2>2. \A g \in FD \ writable' : pc'[g] \in {"closed", "open"}
    BY DEF FileInv, Descriptors
  <2>3. \A g \in FD \ {f} : Writing(g)' <=> writing'[g] # NoWrite
    BY DEF FileInv, Descriptors, Writing
  <2>4. \A g \in FD \ writable' : pc'[g] = "open" =>
           fileSize'[g] <= mapped'[g] /\ (g \notin stale' => fileSize'[g] <= Len(content)')
    BY DEF FileInv, Descriptors
  <2>5. QED BY <2>1, <2>2, <2>3, <2>4 DEF Descriptors
<1>2. Found'
  BY DEF Found
<1>3. QED BY <1>1, <1>2 DEF FileInv

\* What the program knows of a file that has been opened for writing.
LEMMA SeenTyped ==
    ASSUME NEW d \in Seq(Cell), NEW n \in 0..Len(d)
    PROVE  /\ Seen(d, n) \in Seq(Byte \cup {Hole}) /\ Len(Seen(d, n)) = n
           /\ \A i \in 1..n : Seen(d, n)[i] # Hole => d[i] = Data(Seen(d, n)[i])
<1>1. n \in Nat
  OBVIOUS
<1>2. \A i \in 1..n : d[i] \in Cell
  OBVIOUS
<1>3. \A i \in 1..n : (IF d[i].kind = "data" THEN d[i].val ELSE Hole) \in Byte \cup {Hole}
  BY <1>2, Cells
<1>4. Seen(d, n) \in [1..n -> Byte \cup {Hole}]
  BY <1>3 DEF Seen
<1>5. Seen(d, n) \in Seq(Byte \cup {Hole}) /\ Len(Seen(d, n)) = n
  BY <1>1, <1>4, FunctionIsSeq
<1>6. ASSUME NEW i \in 1..n, Seen(d, n)[i] # Hole PROVE d[i] = Data(Seen(d, n)[i])
  <2>1. Seen(d, n)[i] = IF d[i].kind = "data" THEN d[i].val ELSE Hole
    BY DEF Seen
  <2>2. d[i].kind = "data" /\ Seen(d, n)[i] = d[i].val
    BY <1>6, <2>1
  <2>3. QED BY <2>2, <1>2, Cells
<1>7. QED BY <1>5, <1>6

\* The file is cut or extended so that there is room for the tag. If it is cut, what becomes its
\* last cell is no tag of another size.
LEMMA OpenWriteKeeps == ASSUME FileInv, NEW f \in FD, NEW trunc \in BOOLEAN, OpenWrite(f, trunc) PROVE FileInv'
<1> DEFINE d == IF trunc THEN << >> ELSE disk
<1>0. PICK n : n = RealSize(d)
  OBVIOUS
<1> DEFINE r == RegionSize(n)
           e == Resize(d, r + 1)
<1>1. /\ pc[f] = "closed" /\ writable = {} /\ n # Bad /\ n <= MaxOffset
      /\ disk' = e
      /\ pc' = [pc EXCEPT ![f] = "opened"]
      /\ writable' = {f}
      /\ fileSize' = [fileSize EXCEPT ![f] = n]
      /\ mapped' = [mapped EXCEPT ![f] = r + 1]
      /\ content' = IF n = Len(content) THEN content ELSE Seen(d, n)
      /\ stale' = IF n = Len(content) THEN stale ELSE stale \cup OtherReaders(f)
      /\ misplaced' = {}
      /\ torn' = FALSE
      /\ writing' = writing
  BY <1>0 DEF OpenWrite
<1>2. d \in Seq(Cell)
  BY DEF FileInv, FileTypeOK
<1>3. n \in 0..Len(d) /\ n \in Nat /\ Len(d) \in Nat
      /\ n = IF Len(d) > 0 /\ d[Len(d)].kind = "tag"
             THEN IF d[Len(d)].val <= Len(d) - 1 THEN d[Len(d)].val ELSE Bad
             ELSE Len(d)
  <2> HIDE DEF d
  <2>1. n \in 0..Len(d)
        /\ n = IF Len(d) > 0 /\ d[Len(d)].kind = "tag"
               THEN IF d[Len(d)].val <= Len(d) - 1 THEN d[Len(d)].val ELSE Bad
               ELSE Len(d)
    BY <1>0, <1>1, <1>2, SizeFound
  <2>2. QED BY <2>1, <1>2
<1>4. \A i \in 1..Len(d) : d[i] = disk[i] /\ Len(d) = Len(disk)
  OBVIOUS
<1> HIDE DEF d
<1>5. r \in Nat /\ 0 < r /\ n <= r /\ Whole(r)
  BY <1>3, Rounded
<1> HIDE DEF r
<1>6. e \in Seq(Cell) /\ Len(e) = r + 1 /\ \A i \in 1..r + 1 : e[i] = IF i <= Len(d) THEN d[i] ELSE Zero
  <2>1. PICK k \in Nat : k = r + 1
    BY <1>5
  <2>2. Resize(d, k) \in Seq(Cell) /\ Len(Resize(d, k)) = k
        /\ \A i \in 1..k : Resize(d, k)[i] = IF i <= Len(d) THEN d[i] ELSE Zero
    BY <1>2, Resized
  <2>3. QED BY <2>1, <2>2
<1> HIDE DEF e
<1>7. content' \in Seq(Byte \cup {Hole}) /\ Len(content') = n
      /\ \A i \in 1..n : content'[i] # Hole => d[i] = Data(content'[i])
  <2>1. CASE n = Len(content)
    <3>1. content' = content /\ content \in Seq(Byte \cup {Hole})
      BY <1>1, <2>1 DEF FileInv, FileTypeOK
    <3>2. \A i \in 1..n : content[i] # Hole => d[i] = Data(content[i])
      BY <1>3, <1>4, <2>1 DEF FileInv, Stored
    <3>3. QED BY <2>1, <3>1, <3>2
  <2>2. CASE n # Len(content)
    BY <1>1, <1>2, <1>3, <2>2, SeenTyped
  <2>3. QED BY <2>1, <2>2
<1>8. fileSize'[f] = n /\ pc'[f] = "opened" /\ mapped'[f] = r + 1 /\ Len(disk') = r + 1
  BY <1>1, <1>6 DEF FileInv, FileTypeOK
<1>9. FileTypeOK'
  <2>1. stale' \subseteq FD
    BY <1>1 DEF FileInv, FileTypeOK, OtherReaders
  <2>2. r + 1 \in Nat
    BY <1>5
  <2>3. QED BY <1>1, <1>3, <1>6, <1>7, <1>8, <2>1, <2>2 DEF FileInv, FileTypeOK
<1>10. RegionOf(f)'
  <2>1. r + 1 - 1 = r /\ r < r + 1 /\ n \in 0..MaxOffset
    BY <1>1, <1>3, <1>5, SizesAreNumbers
  <2>2. RegionSize(n) = r
    BY DEF r
  <2>3. QED BY <1>5, <1>8, <2>1, <2>2 DEF RegionOf, Writing
<1>11. Stored'
  <2>1. \A i \in 1..n : e[i] = d[i]
    BY <1>3, <1>5, <1>6
  <2>2. QED BY <2>1, <1>1, <1>5, <1>7, <1>8 DEF Stored
<1>12. ASSUME NEW p \in 1..r + 1, IsTag(p)'
       PROVE  p <= Len(d) /\ p \in 1..Len(disk) /\ disk'[p] = disk[p] /\ IsTag(p) /\ Len(d) = Len(disk)
  <2>1. disk'[p] = IF p <= Len(d) THEN d[p] ELSE Zero
    BY <1>1, <1>6
  <2>2. disk'[p].kind = "tag"
    BY <1>12 DEF IsTag
  <2>3. p <= Len(d)
    BY <2>1, <2>2, Cells
  <2>4. p \in 1..Len(d)
    BY <2>3, <1>3
  <2>5. d[p] = disk[p] /\ Len(d) = Len(disk)
    BY <2>4, <1>4
  <2>6. QED BY <2>1, <2>2, <2>3, <2>4, <2>5 DEF IsTag
<1>13. ASSUME NEW p \in 1..r + 1, IsTag(p)', p = Len(d)
       PROVE  p = r + 1 /\ disk'[p] = Tag(n)
  <2>1. p = Len(disk) /\ IsTag(p) /\ disk'[p] = disk[p] /\ disk[p] \in Cell /\ d[p] = disk[p]
    BY <1>12, <1>13, <1>4 DEF FileInv, FileTypeOK
  <2>2. n = disk[p].val /\ p > 0 /\ p \in Nat
    <3>1. d[Len(d)].kind = "tag" /\ Len(d) > 0
      BY <1>3, <1>13, <2>1 DEF IsTag
    <3>2. n = d[Len(d)].val
      BY <1>1, <1>3, <3>1
    <3>3. QED BY <3>1, <3>2, <2>1, <1>13, <1>3
  <2>3. disk[p] = Tag(n)
    BY <2>1, <2>2, Cells DEF IsTag
  <2>4. RegionSize(n) = r
    BY DEF r
  <2>5. Home(p) \/ Copied
    BY <2>1, <2>2 DEF FileInv, EndTag
  <2>6. r + 1 <= p
    <3>1. Home(p) => r + 1 = p
      BY <2>2, <2>4 DEF Home
    <3>2. Copied => r + 1 < p
      BY <2>1, <2>2, <2>4 DEF Copied
    <3>3. QED BY <3>1, <3>2, <2>5, <2>2, <1>5
  <2>7. QED BY <2>1, <2>3, <2>6, <2>2, <1>5
<1>14. InnerTags'
  <2>1. ASSUME NEW p \in 1..r, IsTag(p)' PROVE Home(p)'
    <3>1. p \in 1..r + 1 /\ p # r + 1
      BY <1>5
    <3>2. p \in 1..Len(disk) /\ disk'[p] = disk[p] /\ IsTag(p) /\ p # Len(disk)
      BY <2>1, <3>1, <1>12, <1>13
    <3>3. p \in 1..Len(disk) - 1
      <4>1. Len(disk) \in Nat
        BY DEF FileInv, FileTypeOK
      <4>2. QED BY <3>2, <4>1
    <3>4. Home(p)
      BY <3>2, <3>3 DEF FileInv, InnerTags
    <3>5. QED BY <3>2, <3>4 DEF Home
  <2>2. Len(disk') - 1 = r
    BY <1>5, <1>8
  <2>3. QED BY <2>1, <2>2 DEF InnerTags
<1>15. IsTag(r + 1)' => disk'[r + 1] = Tag(n)
  <2>1. SUFFICES ASSUME IsTag(r + 1)' PROVE disk'[r + 1] = Tag(n)
    OBVIOUS
  <2> DEFINE p == r + 1
  <2>2. p \in 1..r + 1
    BY <1>5
  <2>3. p \in 1..Len(disk) /\ disk'[p] = disk[p] /\ IsTag(p) /\ Len(d) = Len(disk)
    BY <2>1, <2>2, <1>12
  <2>4. CASE p = Len(d)
    BY <2>1, <2>2, <2>4, <1>13
  <2>5. CASE p # Len(d)
    <3>1. Len(d) \in 1..Len(d) /\ Len(d) > r + 1 /\ d[Len(d)] = disk[Len(disk)] /\ disk[Len(disk)] \in Cell
          /\ Len(disk) > 0
      BY <2>3, <2>5, <1>3, <1>4, <1>5 DEF FileInv, FileTypeOK
    <3>2. d[Len(d)].kind = "tag" /\ n = disk[Len(disk)].val
      <4>1. n # Len(d)
        BY <1>3, <1>5, <3>1
      <4>2. QED BY <4>1, <1>1, <1>3, <3>1
    <3>3. disk[Len(disk)] = Tag(n) /\ IsTag(Len(disk))
      BY <3>1, <3>2, Cells DEF IsTag
    <3>4. RegionSize(n) = r /\ ~Home(Len(disk))
      BY <3>1, <3>2, <2>3, <1>5 DEF Home, r
    <3>5. Copied
      BY <3>1, <3>3, <3>4 DEF FileInv, EndTag
    <3>6. disk[r + 1] = disk[Len(disk)]
      BY <3>2, <3>4, <3>5, <2>3 DEF Copied
    <3>7. QED BY <3>3, <3>6, <2>3
  <2>6. QED BY <2>4, <2>5
<1>16. EndTag'
  <2>1. IsTag(r + 1)' => Home(r + 1)'
    BY <1>15, Cells DEF Home, r
  <2>2. QED BY <2>1, <1>8 DEF EndTag
<1>17. PlacedOf(f)'
  BY <1>8, <1>15 DEF PlacedOf
<1>18. \A g \in FD \ {f} : /\ pc'[g] = pc[g] /\ fileSize'[g] = fileSize[g]
                           /\ mapped'[g] = mapped[g] /\ writing'[g] = writing[g]
                           /\ pc[g] = "open" /\ g \notin stale' => fileSize[g] <= Len(content')
  <2>1. ASSUME NEW g \in FD \ {f}, pc[g] = "open", g \notin stale' PROVE fileSize[g] <= Len(content')
    <3>1. g \in OtherReaders(f)
      BY <2>1 DEF OtherReaders
    <3>2. n = Len(content) /\ g \notin stale
      BY <2>1, <3>1, <1>1
    <3>3. fileSize[g] <= Len(content)
      BY <2>1, <3>2, <1>1 DEF FileInv, Descriptors
    <3>4. QED BY <3>2, <3>3, <1>7
  <2>2. QED BY <2>1, <1>1 DEF FileInv, FileTypeOK
<1>19. Writing(f)' <=> writing'[f] # NoWrite
  <2>1. writing[f] = NoWrite
    BY <1>1 DEF FileInv, Descriptors, Writing
  <2>2. QED BY <2>1, <1>1, <1>8 DEF Writing
<1>20. writable \subseteq {f} /\ writable' = {f}
  BY <1>1
<1>21. QED BY <1>9, <1>10, <1>11, <1>14, <1>16, <1>17, <1>18, <1>19, <1>20, WriterStep

LEMMA OpenTagKeeps == ASSUME FileInv, NEW f \in FD, OpenTag(f) PROVE FileInv'
<1> DEFINE n == fileSize[f]
           L == Len(disk)
<1>1. /\ pc[f] = "opened"
      /\ disk' = [disk EXCEPT ![RegionSize(n) + 1] = Tag(n)]
      /\ pc' = [pc EXCEPT ![f] = "open"]
      /\ UNCHANGED <<writable, fileSize, mapped, writing, content, misplaced, torn, stale>>
  BY DEF OpenTag
<1>2. f \in writable
  BY <1>1 DEF FileInv, Descriptors
<1>3. /\ writable = {f} /\ RegionOf(f) /\ disk \in Seq(Cell) /\ L \in Nat /\ 1 < L
      /\ n \in 0..MaxOffset /\ n \in Nat /\ n = Len(content)
      /\ n <= RegionSize(n) /\ RegionSize(n) \in Nat
  BY <1>2, Writer
<1>4. L = RegionSize(n) + 1
  BY <1>1, <1>3 DEF RegionOf
<1>5. Tag(n) \in Cell /\ Tag(n).kind = "tag" /\ Tag(n).val = n
  BY <1>3, Cells
<1>6. /\ disk' \in Seq(Cell) /\ Len(disk') = L /\ disk'[L] = Tag(n)
      /\ \A i \in 1..L : i # L => disk'[i] = disk[i]
  <2>1. RegionSize(n) + 1 \in 1..Len(disk)
    BY <1>3, <1>4
  <2>2. QED BY <2>1, <1>1, <1>3, <1>4, <1>5, PutInSeq
<1>7. pc'[f] = "open"
  BY <1>1 DEF FileInv, FileTypeOK
<1>8. FileTypeOK'
  BY <1>1, <1>6, <1>7 DEF FileInv, FileTypeOK
<1>9. RegionOf(f)'
  BY <1>1, <1>3, <1>6, <1>7 DEF RegionOf, Writing
<1>10. PlacedOf(f)'
  BY <1>1, <1>4, <1>6, <1>7 DEF PlacedOf
<1>11. Stored'
  <2>1. \A i \in 1..Len(content) : i \in 1..L /\ i # L
    BY <1>3, <1>4
  <2>2. QED BY <2>1, <1>1, <1>6 DEF FileInv, Stored
<1>12. InnerTags'
  <2>1. \A i \in 1..L - 1 : i \in 1..L /\ i # L
    BY <1>3
  <2>2. QED BY <2>1, <1>6 DEF FileInv, InnerTags, IsTag, Home
<1>13. EndTag'
  BY <1>4, <1>5, <1>6 DEF EndTag, Home
<1>14. \A g \in FD \ {f} : /\ pc'[g] = pc[g] /\ fileSize'[g] = fileSize[g]
                           /\ mapped'[g] = mapped[g] /\ writing'[g] = writing[g]
                           /\ pc[g] = "open" /\ g \notin stale' => fileSize[g] <= Len(content')
  BY <1>1, <1>3 DEF FileInv, FileTypeOK, Descriptors
<1>15. Writing(f)' <=> writing'[f] # NoWrite
  <2>1. writing[f] = NoWrite
    BY <1>1 DEF FileInv, Descriptors, Writing
  <2>2. QED BY <2>1, <1>1, <1>7 DEF Writing
<1>16. writable \subseteq {f} /\ writable' = {f}
  BY <1>1, <1>3
<1>17. QED BY <1>8, <1>9, <1>10, <1>11, <1>12, <1>13, <1>14, <1>15, <1>16, WriterStep

\* memcpy in front of the end of the file: tags in its way disappear, others stay.
LEMMA CopyKeeps ==
    ASSUME FileInv, NEW f \in writable, NEW c \in WriteCall, Copy(f, c),
           Round(Last(c)) < Len(disk)
    PROVE  /\ disk' \in Seq(Cell) /\ Len(disk') = Len(disk)
           /\ content' \in Seq(Byte \cup {Hole}) /\ Len(content') = Len(content)
           /\ Stored' /\ InnerTags'
           /\ disk'[Len(disk)] = disk[Len(disk)]
           /\ \A p \in 1..Len(disk) : disk'[p] = disk[p] \/ disk'[p] = Data(c.byte)
           /\ \A p \in c.offset + 1..Last(c) : disk'[p] = Data(c.byte)
<1> DEFINE L == Len(disk)
           n == Len(content)
<1>1. /\ disk' = [i \in 1..L |-> IF i > c.offset /\ i <= Last(c) THEN Data(c.byte) ELSE disk[i]]
      /\ content' = [i \in 1..n |-> IF i > c.offset /\ i <= Last(c) THEN c.byte ELSE content[i]]
  BY DEF Copy
<1>2. /\ disk \in Seq(Cell) /\ L \in Nat /\ content \in Seq(Byte \cup {Hole}) /\ n \in Nat
      /\ n <= L
  BY Writer DEF FileInv, Stored
<1>3. c.offset \in Nat /\ c.byte \in Byte /\ Last(c) \in Nat /\ Last(c) < L
  <2>1. c.offset \in Nat /\ c.byte \in Byte /\ Last(c) \in Nat
    BY CallTyped
  <2>2. Last(c) <= Round(Last(c)) /\ Round(Last(c)) \in Nat
    BY <2>1, Rounded
  <2>3. QED BY <2>1, <2>2, <1>2
<1>4. Data(c.byte) \in Cell /\ Data(c.byte).kind # "tag"
  BY <1>3, Cells
<1>5. disk' \in [1..L -> Cell] /\ content' \in [1..n -> Byte \cup {Hole}]
  BY <1>1, <1>2, <1>3, <1>4
<1>6. disk' \in Seq(Cell) /\ Len(disk') = L /\ content' \in Seq(Byte \cup {Hole}) /\ Len(content') = n
  BY <1>2, <1>5, FunctionIsSeq
<1>7. \A p \in 1..L : disk'[p] = IF p > c.offset /\ p <= Last(c) THEN Data(c.byte) ELSE disk[p]
  BY <1>1
<1>8. \A i \in 1..n : content'[i] = IF i > c.offset /\ i <= Last(c) THEN c.byte ELSE content[i]
  BY <1>1
<1>9. \A p \in c.offset + 1..Last(c) : disk'[p] = Data(c.byte)
  <2>1. \A p \in c.offset + 1..Last(c) : p \in 1..L /\ p > c.offset /\ p <= Last(c)
    BY <1>2, <1>3
  <2>2. QED BY <2>1, <1>7
<1>10. L > 0 => disk'[L] = disk[L]
  BY <1>2, <1>3, <1>7
<1>11. Stored'
  <2>1. ASSUME NEW i \in 1..n, content'[i] # Hole PROVE disk'[i] = Data(content'[i])
    <3>1. i \in 1..L
      BY <1>2
    <3>2. content[i] # Hole => disk[i] = Data(content[i])
      BY DEF FileInv, Stored
    <3>3. QED BY <2>1, <3>1, <3>2, <1>7, <1>8
  <2>2. QED BY <2>1, <1>2, <1>6 DEF Stored
<1>12. InnerTags'
  <2>1. ASSUME NEW p \in 1..L - 1, IsTag(p)' PROVE Home(p)'
    <3>1. p \in 1..L /\ disk'[p] = disk[p]
      <4>1. p \in 1..L
        BY <1>2
      <4>2. disk'[p].kind = "tag"
        BY <2>1 DEF IsTag
      <4>3. QED BY <4>1, <4>2, <1>4, <1>7
    <3>2. IsTag(p)
      BY <2>1, <3>1 DEF IsTag
    <3>3. QED BY <3>1, <3>2 DEF FileInv, InnerTags, Home
  <2>2. QED BY <2>1, <1>6 DEF InnerTags
<1>13. L > 0
  BY Writer
<1>14. QED BY <1>6, <1>7, <1>9, <1>10, <1>11, <1>12, <1>13

\* A write that fits into the room that there is.
LEMMA WriteWithinKeeps ==
    ASSUME FileInv, NEW f \in FD, NEW c \in WriteCall, WriteWithin(f, c) PROVE FileInv'
<1> DEFINE n == fileSize[f]
           L == Len(disk)
<1>1. /\ pc[f] = "open" /\ f \in writable /\ ~Extends(f, c) /\ Copy(f, c)
      /\ UNCHANGED <<writable, fileSize, mapped, misplaced, torn, stale>>
  BY DEF WriteWithin, IsOpen
<1>2. /\ writable = {f} /\ RegionOf(f) /\ PlacedOf(f) /\ disk \in Seq(Cell) /\ L \in Nat /\ 1 < L
      /\ n \in 0..MaxOffset /\ n \in Nat /\ n = Len(content) /\ mapped[f] \in Nat
      /\ n <= RegionSize(n) /\ RegionSize(n) \in Nat /\ 0 < RegionSize(n) /\ RegionSize(n) < L
      /\ (IsTag(L) => Home(L))
  BY <1>1, Writer
<1>3. c.offset \in Nat /\ c.count \in Nat /\ Last(c) = c.offset + c.count /\ Last(c) \in Nat /\ c # NoWrite
  BY CallTyped
<1>4. Last(c) <= RegionSize(n)
  BY <1>1, <1>2, <1>3 DEF Extends
<1>5. Round(Last(c)) \in Nat /\ Round(Last(c)) <= RegionSize(n) /\ Round(Last(c)) < L
  <2>1. Round(Last(c)) \in Nat
    BY <1>3, Rounded
  <2>2. PICK m \in Nat : m = RegionSize(n) /\ Whole(m)
    BY <1>2, Rounded
  <2>3. Round(Last(c)) <= m
    BY <2>2, <1>3, <1>4, RoundLeast
  <2>4. QED BY <2>1, <2>2, <2>3, <1>2
<1>6. /\ disk' \in Seq(Cell) /\ Len(disk') = L
      /\ content' \in Seq(Byte \cup {Hole}) /\ Len(content') = Len(content)
      /\ Stored' /\ InnerTags'
      /\ disk'[L] = disk[L]
      /\ \A p \in c.offset + 1..Last(c) : disk'[p] = Data(c.byte)
  BY <1>1, <1>5, CopyKeeps
<1>7. \/ /\ Last(c) > n
         /\ pc' = [pc EXCEPT ![f] = "size"] /\ writing' = [writing EXCEPT ![f] = c]
      \/ /\ pc' = [pc EXCEPT ![f] = "open"] /\ writing' = [writing EXCEPT ![f] = NoWrite]
  BY <1>1 DEF Copy
<1>8. \/ Last(c) > n /\ pc'[f] = "size" /\ writing'[f] = c
      \/ pc'[f] = "open" /\ writing'[f] = NoWrite
  BY <1>7 DEF FileInv, FileTypeOK
<1>9. FileTypeOK'
  <2>1. pc' \in [FD -> {"closed", "opened", "open", "extend", "copy", "size", "closing"}]
    BY <1>7 DEF FileInv, FileTypeOK
  <2>2. writing' \in [FD -> WriteCall \cup {NoWrite}]
    <3>1. writing \in [FD -> WriteCall \cup {NoWrite}]
      BY DEF FileInv, FileTypeOK
    <3>2. \E w \in WriteCall \cup {NoWrite} : writing' = [writing EXCEPT ![f] = w]
      BY <1>7
    <3>3. QED BY <3>1, <3>2
  <2>3. \A g \in writable' : pc'[g] # "closed" /\ fileSize'[g] = Len(content')
    <3>1. pc'[f] # "closed"
      BY <1>8
    <3>2. QED BY <3>1, <1>1, <1>2, <1>6
  <2>4. QED BY <2>1, <2>2, <2>3, <1>1, <1>6 DEF FileInv, FileTypeOK
<1>10. RegionOf(f)'
  <2>1. Round(Last(c)) < mapped[f]
    <3>1. RegionSize(n) < mapped[f]
      BY <1>1, <1>2 DEF RegionOf
    <3>2. QED BY <3>1, <1>2, <1>5
  <2>2. CASE Last(c) > n /\ pc'[f] = "size" /\ writing'[f] = c
    BY <2>1, <2>2, <1>1, <1>2, <1>3, <1>5, <1>6 DEF RegionOf, Writing
  <2>3. CASE pc'[f] = "open" /\ writing'[f] = NoWrite
    BY <2>3, <1>1, <1>2, <1>6 DEF RegionOf, Writing
  <2>4. QED BY <1>8, <2>2, <2>3
<1>11. misplaced = {} => L = RegionSize(n) + 1 /\ disk[L] = Tag(n)
  BY <1>1, <1>2 DEF PlacedOf
<1>12. Last(c) > n => Round(Last(c)) = RegionSize(n)
  <2>1. ASSUME Last(c) > n PROVE RegionSize(n) <= Round(Last(c))
    <3>1. PICK m \in Nat : m = Round(Last(c)) /\ Whole(m) /\ Last(c) <= m
      BY <1>3, <1>5, Rounded
    <3>2. n <= m /\ 0 < m
      BY <2>1, <3>1, <1>2, <1>3
    <3>3. RegionSize(n) <= m
      BY <3>1, <3>2, <1>2, RoundLeast
    <3>4. QED BY <3>1, <3>3
  <2>2. QED BY <2>1, <1>2, <1>5
<1>13. PlacedOf(f)'
  <2>1. CASE Last(c) > n /\ pc'[f] = "size" /\ writing'[f] = c
    BY <2>1, <1>1, <1>6, <1>11, <1>12 DEF PlacedOf
  <2>2. CASE pc'[f] = "open" /\ writing'[f] = NoWrite
    BY <2>2, <1>1, <1>6, <1>11 DEF PlacedOf
  <2>3. QED BY <1>8, <2>1, <2>2
<1>14. EndTag'
  BY <1>2, <1>6 DEF EndTag, IsTag, Home
<1>15. \A g \in FD \ {f} : /\ pc'[g] = pc[g] /\ fileSize'[g] = fileSize[g]
                           /\ mapped'[g] = mapped[g] /\ writing'[g] = writing[g]
                           /\ pc[g] = "open" /\ g \notin stale' => fileSize[g] <= Len(content')
  <2>1. \A g \in FD \ {f} : pc'[g] = pc[g] /\ writing'[g] = writing[g]
    BY <1>7 DEF FileInv, FileTypeOK
  <2>2. QED BY <2>1, <1>1, <1>2, <1>6 DEF FileInv, Descriptors
<1>16. Writing(f)' <=> writing'[f] # NoWrite
  BY <1>3, <1>8 DEF Writing
<1>17. writable \subseteq {f} /\ writable' = {f}
  BY <1>1, <1>2
<1>18. f \in FD /\ Stored' /\ InnerTags'
  BY <1>6
<1>19. QED BY <1>9, <1>10, <1>13, <1>14, <1>15, <1>16, <1>17, <1>18, WriterStep

LEMMA ExtendKeeps == ASSUME FileInv, NEW f \in FD, NEW c \in WriteCall, Extend(f, c) PROVE FileInv'
<1> DEFINE n == fileSize[f]
           L == Len(disk)
           r == Round(Last(c))
<1>1. /\ pc[f] = "open" /\ f \in writable /\ Extends(f, c)
      /\ disk' = Resize(disk, r + 1)
      /\ mapped' = [mapped EXCEPT ![f] = r + 1]
      /\ misplaced' = misplaced \cup MisplacingExtension(f)
      /\ pc' = [pc EXCEPT ![f] = "extend"]
      /\ writing' = [writing EXCEPT ![f] = c]
      /\ UNCHANGED <<writable, fileSize, content, torn, stale>>
  BY DEF Extend, IsOpen
<1>2. /\ writable = {f} /\ RegionOf(f) /\ PlacedOf(f) /\ disk \in Seq(Cell) /\ L \in Nat /\ 1 < L
      /\ n \in 0..MaxOffset /\ n \in Nat /\ n = Len(content) /\ mapped[f] \in Nat
      /\ n <= RegionSize(n) /\ RegionSize(n) \in Nat /\ 0 < RegionSize(n) /\ RegionSize(n) < L
      /\ (IsTag(L) => Home(L))
  BY <1>1, Writer
<1>3. c.offset \in Nat /\ c.count \in Nat /\ Last(c) = c.offset + c.count /\ Last(c) \in Nat /\ c # NoWrite
  BY CallTyped
<1>4. RegionSize(n) <= Last(c)
  BY <1>1, <1>2, <1>3 DEF Extends
<1>5. r \in Nat /\ Whole(r) /\ RegionSize(n) <= r
  <2>1. r \in Nat /\ Whole(r) /\ Last(c) <= r
    BY <1>3, Rounded
  <2> HIDE DEF r
  <2>2. QED BY <2>1, <1>2, <1>3, <1>4
<1>6. /\ disk' \in Seq(Cell) /\ Len(disk') = r + 1
      /\ \A i \in 1..r + 1 : disk'[i] = IF i <= L THEN disk[i] ELSE Zero
  <2> HIDE DEF r
  <2>1. r + 1 \in Nat
    BY <1>5
  <2>2. QED BY <2>1, <1>1, <1>2, Resized
<1>7. pc'[f] = "extend" /\ mapped'[f] = r + 1 /\ writing'[f] = c
  BY <1>1 DEF FileInv, FileTypeOK
<1>8. FileTypeOK'
  <2>1. pc' \in [FD -> {"closed", "opened", "open", "extend", "copy", "size", "closing"}]
    BY <1>1 DEF FileInv, FileTypeOK
  <2>2. writing' \in [FD -> WriteCall \cup {NoWrite}]
    BY <1>1 DEF FileInv, FileTypeOK
  <2>3. mapped' \in [FD -> Nat]
    <3> HIDE DEF r
    <3>1. QED BY <1>1, <1>5 DEF FileInv, FileTypeOK
  <2>4. misplaced' \subseteq {"empty", "truncate"}
    BY <1>1 DEF FileInv, FileTypeOK, MisplacingExtension
  <2>5. QED BY <2>1, <2>2, <2>3, <2>4, <1>1, <1>2, <1>6, <1>7 DEF FileInv, FileTypeOK
<1>9. RegionOf(f)'
  <2>1. r + 1 - 1 = r /\ RegionSize(n) < r + 1 /\ r < r + 1
    <3> HIDE DEF r
    <3>1. QED BY <1>2, <1>5
  <2>2. r = Round(Last(c))
    OBVIOUS
  <2> HIDE DEF r
  <2>3. fileSize'[f] = n /\ RegionSize(n) <= Last(c)
    BY <1>1, <1>4
  <2>4. Len(disk') - 1 = r /\ mapped'[f] - 1 = r /\ Whole(r)
    BY <2>1, <1>5, <1>6, <1>7
  <2>5. Round(Last(writing'[f])) = r
    BY <2>2, <1>7
  <2>6. QED BY <2>1, <2>3, <2>4, <2>5, <1>2, <1>6, <1>7 DEF RegionOf, Writing
<1> HIDE DEF r
<1>10. ASSUME NEW p \in 1..r + 1, disk'[p].kind = "tag"
       PROVE  p \in 1..L /\ disk'[p] = disk[p] /\ disk[p].kind = "tag" /\ RegionSize(disk[p].val) + 1 = p
  <2>1. p <= L /\ disk'[p] = disk[p]
    BY <1>6, <1>10, Cells
  <2>2. p \in 1..L
    BY <2>1, <1>2, <1>5
  <2>3. p \in 1..L - 1 => (IsTag(p) => Home(p))
    BY DEF FileInv, InnerTags
  <2>4. p = L \/ p \in 1..L - 1
    BY <2>2, <1>2
  <2>5. IsTag(p)
    BY <2>1, <1>10 DEF IsTag
  <2>6. Home(p)
    BY <2>3, <2>4, <2>5, <1>2
  <2>7. QED BY <2>1, <2>2, <2>5, <2>6 DEF IsTag, Home
<1>11. InnerTags'
  <2>1. \A p \in 1..r : p \in 1..r + 1
    BY <1>5
  <2>2. Len(disk') - 1 = r
    BY <1>5, <1>6
  <2>3. \A p \in 1..r : disk'[p].kind = "tag" => RegionSize(disk'[p].val) + 1 = p
    BY <2>1, <1>10
  <2>4. QED BY <2>2, <2>3 DEF InnerTags, IsTag, Home
<1>12. r + 1 \in 1..r + 1
  BY <1>5
<1>13. EndTag'
  BY <1>6, <1>10, <1>12 DEF EndTag, IsTag, Home
<1>14. PlacedOf(f)'
  <2>1. ASSUME misplaced' = {}
        PROVE  /\ n > 0 /\ disk'[Round(n) + 1] = Tag(n)
               /\ disk'[r + 1].kind = "tag" => disk'[r + 1] = Tag(n)
    <3>1. misplaced = {} /\ n > 0
      <4>1. misplaced = {} /\ MisplacingExtension(f) = {}
        BY <2>1, <1>1
      <4>2. n # 0
        BY <4>1 DEF MisplacingExtension
      <4>3. QED BY <4>1, <4>2, <1>2
    <3>2. L = RegionSize(n) + 1 /\ disk[L] = Tag(n)
      BY <3>1, <1>1, <1>2 DEF PlacedOf
    <3>3. Round(n) = RegionSize(n)
      BY <3>1, <1>2, Rounded
    <3>4. L \in 1..r + 1
      BY <3>2, <1>2, <1>5
    <3>5. disk'[L] = disk[L]
      BY <3>4, <1>2, <1>6
    <3>6. disk'[r + 1].kind = "tag" => r + 1 = L
      BY <1>10, <1>12, <3>4, <1>2, <1>5
    <3>7. QED BY <3>1, <3>2, <3>3, <3>5, <3>6
  <2>2. QED BY <2>1, <1>1, <1>6, <1>7 DEF PlacedOf, IsTag
<1>15. Stored'
  <2>1. \A i \in 1..Len(content) : i \in 1..r + 1 /\ i <= L
    BY <1>2, <1>5
  <2>2. Len(content) <= r + 1
    BY <1>2, <1>5
  <2>3. QED BY <2>1, <2>2, <1>1, <1>6 DEF FileInv, Stored
<1>16. \A g \in FD \ {f} : /\ pc'[g] = pc[g] /\ fileSize'[g] = fileSize[g]
                           /\ mapped'[g] = mapped[g] /\ writing'[g] = writing[g]
                           /\ pc[g] = "open" /\ g \notin stale' => fileSize[g] <= Len(content')
  BY <1>1, <1>2 DEF FileInv, FileTypeOK, Descriptors
<1>17. Writing(f)' <=> writing'[f] # NoWrite
  BY <1>3, <1>7 DEF Writing
<1>18. writable \subseteq {f} /\ writable' = {f}
  BY <1>1, <1>2
<1>19. QED BY <1>8, <1>9, <1>11, <1>13, <1>14, <1>15, <1>16, <1>17, <1>18, WriterStep

\* The tag's copy is at the end then, where the tag of the new size will be, and what it was copied
\* from is where it was.
LEMMA ExtendTagKeeps == ASSUME FileInv, NEW f \in FD, ExtendTag(f) PROVE FileInv'
<1>0. PICK c, q, n : c = writing[f] /\ q = Round(fileSize[f]) + 1 /\ n = fileSize[f]
  OBVIOUS
<1> DEFINE L == Len(disk)
<1>1. /\ pc[f] = "extend"
      /\ disk' = [disk EXCEPT ![Round(Last(c)) + 1] = disk[q]]
      /\ pc' = [pc EXCEPT ![f] = "copy"]
      /\ UNCHANGED <<writable, fileSize, mapped, writing, content, misplaced, torn, stale>>
  BY <1>0 DEF ExtendTag
<1>2. f \in writable
  BY <1>1 DEF FileInv, Descriptors
<1>3. /\ writable = {f} /\ RegionOf(f) /\ PlacedOf(f) /\ disk \in Seq(Cell) /\ L \in Nat /\ 1 < L
      /\ n \in 0..MaxOffset /\ n \in Nat /\ n = Len(content)
      /\ n <= RegionSize(n) /\ RegionSize(n) \in Nat /\ 0 < RegionSize(n) /\ RegionSize(n) < L
      /\ (IsTag(L) => Home(L))
  BY <1>0, <1>1, <1>2, Writer
<1>4. c \in WriteCall /\ Last(c) \in Nat /\ Round(Last(c)) \in Nat /\ Last(c) <= Round(Last(c)) /\ c # NoWrite
  <2>1. c # NoWrite
    BY <1>0, <1>1 DEF FileInv, Descriptors, Writing
  <2>2. c \in WriteCall
    BY <2>1, <1>0, Typed DEF FileInv
  <2>3. Last(c) \in Nat
    BY <2>2, CallTyped
  <2>4. QED BY <2>1, <2>2, <2>3, Rounded
<1>5. L = Round(Last(c)) + 1 /\ RegionSize(n) <= Last(c)
  BY <1>0, <1>1, <1>3 DEF RegionOf
<1>6. q \in 1..L /\ disk[q] \in Cell
  <2>1. Round(n) \in Nat /\ Round(n) <= RegionSize(n)
    BY <1>3, Rounded
  <2>2. q \in 1..L
    BY <2>1, <1>0, <1>3
  <2>3. QED BY <2>2, <1>3
<1>7. /\ disk' \in Seq(Cell) /\ Len(disk') = L /\ disk'[L] = disk[q]
      /\ \A i \in 1..L : i # L => disk'[i] = disk[i]
  <2>1. L \in 1..Len(disk)
    BY <1>3
  <2>2. disk' = [disk EXCEPT ![L] = disk[q]]
    BY <1>1, <1>5
  <2> HIDE DEF L
  <2>3. QED BY <2>1, <2>2, <1>3, <1>6, PutInSeq DEF L
<1>8. pc'[f] = "copy" /\ writing'[f] = c /\ fileSize'[f] = n
  BY <1>0, <1>1 DEF FileInv, FileTypeOK
<1>9. FileTypeOK'
  BY <1>1, <1>7, <1>8 DEF FileInv, FileTypeOK
<1>10. RegionOf(f)'
  BY <1>0, <1>1, <1>3, <1>7, <1>8 DEF RegionOf, Writing
<1>11. PlacedOf(f)'
  BY <1>0, <1>1, <1>3, <1>5, <1>7, <1>8 DEF PlacedOf
<1>12. Stored'
  <2>1. \A i \in 1..Len(content) : i \in 1..L /\ i # L
    BY <1>3
  <2>2. QED BY <2>1, <1>1, <1>7 DEF FileInv, Stored
<1>13. InnerTags'
  <2>1. \A i \in 1..L - 1 : i \in 1..L /\ i # L
    BY <1>3
  <2>2. QED BY <2>1, <1>7 DEF FileInv, InnerTags, IsTag, Home
<1>14. EndTag'
  <2>1. CASE q = L
    BY <2>1, <1>3, <1>7 DEF EndTag, IsTag, Home
  <2>2. CASE q # L
    <3>1. q \in 1..L - 1 /\ q < L
      BY <2>2, <1>3, <1>6
    <3>2. disk[q].kind = "tag" => RegionSize(disk[q].val) + 1 = q
      BY <3>1 DEF FileInv, InnerTags, IsTag, Home
    <3>3. n < Last(c)
      <4>1. n <= Last(c)
        BY <1>3, <1>4, <1>5
      <4>2. n # Last(c)
        BY <2>2, <1>0, <1>5
      <4>3. QED BY <4>1, <4>2, <1>3, <1>4
    <3>4. disk'[q] = disk[q]
      BY <3>1, <1>6, <1>7
    <3>5. disk[q].kind = "tag" => Copied'
      BY <3>1, <3>2, <3>3, <3>4, <1>1, <1>3, <1>5, <1>7, <1>8 DEF Copied, IsTag
    <3>6. QED BY <3>5, <1>7 DEF EndTag, IsTag
  <2>3. QED BY <2>1, <2>2
<1>15. \A g \in FD \ {f} : /\ pc'[g] = pc[g] /\ fileSize'[g] = fileSize[g]
                           /\ mapped'[g] = mapped[g] /\ writing'[g] = writing[g]
                           /\ pc[g] = "open" /\ g \notin stale' => fileSize[g] <= Len(content')
  BY <1>1, <1>3 DEF FileInv, FileTypeOK, Descriptors
<1>16. Writing(f)' <=> writing'[f] # NoWrite
  BY <1>4, <1>8 DEF Writing
<1>17. writable \subseteq {f} /\ writable' = {f}
  BY <1>1, <1>3
<1>18. QED BY <1>9, <1>10, <1>11, <1>12, <1>13, <1>14, <1>15, <1>16, <1>17, WriterStep

LEMMA WriteExtendedKeeps == ASSUME FileInv, NEW f \in FD, WriteExtended(f) PROVE FileInv'
<1>0. PICK c, n : c = writing[f] /\ n = fileSize[f]
  OBVIOUS
<1> DEFINE L == Len(disk)
<1>1. /\ pc[f] = "copy" /\ Copy(f, c)
      /\ UNCHANGED <<writable, fileSize, mapped, misplaced, torn, stale>>
  BY <1>0 DEF WriteExtended
<1>2. f \in writable
  BY <1>1 DEF FileInv, Descriptors
<1>3. /\ writable = {f} /\ RegionOf(f) /\ PlacedOf(f) /\ disk \in Seq(Cell) /\ L \in Nat /\ 1 < L
      /\ n \in 0..MaxOffset /\ n \in Nat /\ n = Len(content) /\ mapped[f] \in Nat
      /\ n <= RegionSize(n) /\ RegionSize(n) \in Nat /\ 0 < RegionSize(n) /\ RegionSize(n) < L
  BY <1>0, <1>2, Writer
<1>4. c \in WriteCall /\ c # NoWrite /\ Last(c) \in Nat /\ Round(Last(c)) \in Nat
  <2>1. c # NoWrite
    BY <1>0, <1>1 DEF FileInv, Descriptors, Writing
  <2>2. c \in WriteCall
    BY <2>1, <1>0, Typed DEF FileInv
  <2>3. Last(c) \in Nat
    BY <2>2, CallTyped
  <2>4. QED BY <2>1, <2>2, <2>3, Rounded
<1>5. L = Round(Last(c)) + 1 /\ RegionSize(n) <= Last(c) /\ Round(Last(c)) < L /\ Round(Last(c)) < mapped[f]
  BY <1>0, <1>1, <1>3 DEF RegionOf, Writing
<1>6. /\ disk' \in Seq(Cell) /\ Len(disk') = L
      /\ content' \in Seq(Byte \cup {Hole}) /\ Len(content') = Len(content)
      /\ Stored' /\ InnerTags'
      /\ disk'[L] = disk[L]
      /\ \A p \in 1..L : disk'[p] = disk[p] \/ disk'[p] = Data(c.byte)
      /\ \A p \in c.offset + 1..Last(c) : disk'[p] = Data(c.byte)
  BY <1>1, <1>2, <1>4, <1>5, CopyKeeps
<1>7. \/ /\ Last(c) > n
         /\ pc' = [pc EXCEPT ![f] = "size"] /\ writing' = [writing EXCEPT ![f] = c]
      \/ /\ ~(Last(c) > n)
         /\ pc' = [pc EXCEPT ![f] = "open"] /\ writing' = [writing EXCEPT ![f] = NoWrite]
  BY <1>0, <1>1 DEF Copy
<1>8. \/ n < Last(c) /\ pc'[f] = "size" /\ writing'[f] = c
      \/ Last(c) <= n /\ pc'[f] = "open" /\ writing'[f] = NoWrite
  <2>1. \/ Last(c) > n /\ pc'[f] = "size" /\ writing'[f] = c
        \/ ~(Last(c) > n) /\ pc'[f] = "open" /\ writing'[f] = NoWrite
    BY <1>7 DEF FileInv, FileTypeOK
  <2>2. QED BY <2>1, <1>3, <1>4
<1>9. FileTypeOK'
  <2>1. pc' \in [FD -> {"closed", "opened", "open", "extend", "copy", "size", "closing"}]
    BY <1>7 DEF FileInv, FileTypeOK
  <2>2. writing' \in [FD -> WriteCall \cup {NoWrite}]
    BY <1>4, <1>7 DEF FileInv, FileTypeOK
  <2>3. QED BY <2>1, <2>2, <1>1, <1>3, <1>6, <1>8 DEF FileInv, FileTypeOK
<1>10. fileSize'[f] = n /\ mapped'[f] = mapped[f]
  BY <1>0, <1>1
<1>11. RegionOf(f)'
  <2>1. CASE n < Last(c) /\ pc'[f] = "size" /\ writing'[f] = c
    BY <2>1, <1>0, <1>1, <1>3, <1>5, <1>6, <1>10 DEF RegionOf, Writing
  <2>2. CASE Last(c) <= n /\ pc'[f] = "open" /\ writing'[f] = NoWrite
    BY <2>2, <1>0, <1>1, <1>3, <1>6, <1>10 DEF RegionOf, Writing
  <2>3. QED BY <1>8, <2>1, <2>2
<1>12. misplaced = {} => disk[L] = Tag(n)
  BY <1>0, <1>1, <1>3 DEF PlacedOf
<1>13. PlacedOf(f)'
  <2>1. CASE n < Last(c) /\ pc'[f] = "size" /\ writing'[f] = c
    BY <2>1, <1>1, <1>5, <1>6, <1>10, <1>12 DEF PlacedOf
  <2>2. CASE Last(c) <= n /\ pc'[f] = "open" /\ writing'[f] = NoWrite
    <3>1. Last(c) = n /\ n = RegionSize(n) /\ n > 0
      BY <2>2, <1>3, <1>4, <1>5
    <3>2. Round(Last(c)) = RegionSize(n)
      BY <3>1, <1>3, Rounded
    <3>3. QED BY <2>2, <3>2, <1>1, <1>5, <1>6, <1>10, <1>12 DEF PlacedOf
  <2>3. QED BY <1>8, <2>1, <2>2
<1>14. EndTag'
  <2>1. SUFFICES ASSUME disk[L].kind = "tag"
                 PROVE  RegionSize(disk'[L].val) + 1 = L \/ Copied'
    BY <1>6 DEF EndTag, IsTag, Home
  <2>2. CASE Home(L)
    BY <2>2, <1>6 DEF Home
  <2>3. CASE Copied
    <3>1. PICK h : h = RegionSize(disk[L].val) + 1
      OBVIOUS
    <3>2. h < L /\ (disk[h].kind = "tag" => disk[h] = disk[L]) /\ n < Last(c)
      BY <2>3, <3>1, <1>0, <1>2 DEF Copied, IsTag
    <3>3. h \in 1..L
      <4>1. L \in 1..Len(disk)
        BY <1>3
      <4>2. disk[L] \in Cell
        BY <4>1, <1>3
      <4>3. disk[L].val \in Nat
        BY <4>2, <2>1, Cells, SizesAreNumbers
      <4>4. RegionSize(disk[L].val) \in Nat
        BY <4>3, Rounded
      <4>5. QED BY <4>4, <3>1, <3>2, <1>3
    <3>4. disk'[h].kind = "tag" => disk'[h] = disk[L]
      BY <3>2, <3>3, <1>6, Cells
    <3>5. pc'[f] = "size" /\ writing'[f] = c
      BY <3>2, <1>3, <1>4, <1>8
    <3>6. Copied'
      BY <3>1, <3>2, <3>4, <3>5, <1>1, <1>3, <1>5, <1>6, <1>10 DEF Copied, IsTag
    <3>7. QED BY <3>6
  <2>4. QED BY <2>1, <2>2, <2>3, <1>3 DEF FileInv, EndTag, IsTag
<1>15. \A g \in FD \ {f} : /\ pc'[g] = pc[g] /\ fileSize'[g] = fileSize[g]
                           /\ mapped'[g] = mapped[g] /\ writing'[g] = writing[g]
                           /\ pc[g] = "open" /\ g \notin stale' => fileSize[g] <= Len(content')
  <2>1. \A g \in FD \ {f} : pc'[g] = pc[g] /\ writing'[g] = writing[g]
    BY <1>7 DEF FileInv, FileTypeOK
  <2>2. QED BY <2>1, <1>1, <1>3, <1>6 DEF FileInv, Descriptors
<1>16. Writing(f)' <=> writing'[f] # NoWrite
  BY <1>4, <1>8 DEF Writing
<1>17. writable \subseteq {f} /\ writable' = {f}
  BY <1>1, <1>3
<1>18. Stored' /\ InnerTags'
  BY <1>6
<1>19. QED BY <1>9, <1>11, <1>13, <1>14, <1>15, <1>16, <1>17, <1>18, WriterStep
-----------------------------------------------------------------------------
(* MmapFile: steps that store a size *)

\* What the program knows of its file after such a step.
LEMMA ContentUpTo ==
    ASSUME content \in Seq(Byte \cup {Hole}), NEW n \in Nat, NEW o \in Nat, NEW b \in Byte \cup {Hole}
    PROVE  LET w == ContentTo(n, o, b)
           IN  /\ w \in Seq(Byte \cup {Hole}) /\ Len(w) = n
               /\ \A i \in 1..n : w[i] = IF i <= Len(content) THEN content[i]
                                         ELSE IF i > o THEN b ELSE Hole
<1> DEFINE v(i) == IF i <= Len(content) THEN content[i] ELSE IF i > o THEN b ELSE Hole
<1>1. \A i \in 1..n : v(i) \in Byte \cup {Hole}
  <2>1. \A i \in 1..n : i <= Len(content) => content[i] \in Byte \cup {Hole}
    OBVIOUS
  <2>2. Hole \in Byte \cup {Hole}
    OBVIOUS
  <2>3. QED BY <2>1, <2>2
<1>2. ContentTo(n, o, b) = [i \in 1..n |-> v(i)]
  <2>1. ASSUME NEW i \in 1..n
        PROVE  (CASE i <= Len(content) -> content[i]
                  [] i > Len(content) /\ i > o -> b
                  [] OTHER -> Hole) = v(i)
    <3>1. Len(content) \in Nat
      OBVIOUS
    <3>2. i <= Len(content) \/ i > Len(content)
      BY <3>1
    <3>3. ~(i <= Len(content) /\ i > Len(content))
      BY <3>1
    <3>4. QED BY <3>2, <3>3
  <2>2. QED BY <2>1 DEF ContentTo
<1> HIDE DEF v
<1>3. ContentTo(n, o, b) \in [1..n -> Byte \cup {Hole}]
  BY <1>1, <1>2
<1>4. ContentTo(n, o, b) \in Seq(Byte \cup {Hole}) /\ Len(ContentTo(n, o, b)) = n
  BY <1>3, FunctionIsSeq
<1>5. \A i \in 1..n : ContentTo(n, o, b)[i] = v(i)
  BY <1>2
<1>6. QED BY <1>4, <1>5 DEF v

\* A size is stored over a tag and makes one, or it ruins a cell: in the way of the data it never is.
LEMMA StoreKeeps ==
    ASSUME FileInv, NEW f \in writable, NEW n \in 0..MaxOffset, Round(n) < Len(disk),
           disk' = StoreSize(disk, n)
    PROVE  /\ disk' \in Seq(Cell) /\ Len(disk') = Len(disk)
           /\ \A i \in 1..Len(disk) : i # Round(n) + 1 => disk'[i] = disk[i]
           /\ disk'[Round(n) + 1].kind = "tag" <=> disk[Round(n) + 1].kind = "tag"
           /\ disk'[Round(n) + 1].kind = "tag" => disk'[Round(n) + 1] = Tag(n)
           /\ InnerTags'
           /\ Round(n) + 1 = Len(disk) => n > 0 /\ EndTag'
           /\ Round(n) + 1 # Len(disk) => disk'[Len(disk)] = disk[Len(disk)]
<1>0. PICK q : q = Round(n) + 1
  OBVIOUS
<1> DEFINE L == Len(disk)
<1>1. disk \in Seq(Cell) /\ L \in Nat /\ 1 < L
  BY Writer
<1>2. n \in Nat /\ Round(n) \in Nat /\ Round(0) = 0 /\ (n > 0 => RegionSize(n) = Round(n))
  <2>1. n \in Nat
    BY SizesAreNumbers
  <2>2. QED BY <2>1, Rounded
<1>3. q \in 1..L
  BY <1>0, <1>1, <1>2
<1>4. /\ disk' \in Seq(Cell) /\ Len(disk') = L
      /\ disk'[q] = IF disk[q].kind = "tag" THEN Tag(n) ELSE Mixed
      /\ \A i \in 1..L : i # q => disk'[i] = disk[i]
  <2>1. Round(n) + 1 <= Len(disk)
    BY <1>1, <1>2
  <2>2. QED BY <2>1, <1>0, <1>1, SizeStored
<1>5. disk'[q].kind = "tag" <=> disk[q].kind = "tag"
  BY <1>4, Cells
<1>6. disk'[q].kind = "tag" => disk'[q] = Tag(n)
  BY <1>4, Cells
<1>7. q > 1 => n > 0 /\ RegionSize(n) + 1 = q
  BY <1>0, <1>2
<1>8. InnerTags'
  <2>1. ASSUME NEW p \in 1..L - 1, disk'[p].kind = "tag" PROVE RegionSize(disk'[p].val) + 1 = p
    <3>1. p \in 1..L /\ p \in Nat
      BY <1>1
    <3>2. disk[p].kind = "tag"
      BY <2>1, <3>1, <1>4, <1>5
    <3>3. RegionSize(disk[p].val) + 1 = p
      BY <3>2 DEF FileInv, InnerTags, IsTag, Home
    <3>4. CASE p = q
      <4>1. disk[p] \in Cell
        BY <3>1, <1>1
      <4>2. disk[p].val \in Nat
        BY <4>1, <3>2, Cells, SizesAreNumbers
      <4>3. RegionSize(disk[p].val) \in Nat /\ 0 < RegionSize(disk[p].val)
        BY <4>2, Rounded
      <4>4. q > 1
        BY <4>3, <3>3, <3>4
      <4>5. disk'[p].val = n
        BY <2>1, <3>4, <1>6, Cells
      <4>6. QED BY <4>4, <4>5, <3>4, <1>7
    <3>5. CASE p # q
      BY <3>1, <3>3, <3>5, <1>4
    <3>6. QED BY <3>4, <3>5
  <2>2. QED BY <2>1, <1>4 DEF InnerTags, IsTag, Home
<1>9. q = L => n > 0 /\ EndTag'
  <2>1. ASSUME q = L PROVE n > 0 /\ RegionSize(n) + 1 = L
    BY <2>1, <1>1, <1>7
  <2>2. q = L /\ disk'[L].kind = "tag" => disk'[L].val = n
    BY <1>6, Cells
  <2>3. QED BY <2>1, <2>2, <1>4 DEF EndTag, IsTag, Home
<1>10. q # L => disk'[L] = disk[L]
  BY <1>1, <1>4
<1>11. QED BY <1>0, <1>4, <1>5, <1>6, <1>8, <1>9, <1>10

LEMMA WriteSizeKeeps == ASSUME FileInv, NEW f \in FD, WriteSize(f) PROVE FileInv'
<1>0. PICK c, s, n : c = writing[f] /\ s = fileSize[f] /\ n = Last(c)
  OBVIOUS
<1> DEFINE L == Len(disk)
<1>1. /\ pc[f] = "size"
      /\ fileSize' = [fileSize EXCEPT ![f] = n]
      /\ disk' = StoreSize(disk, n)
      /\ content' = ContentTo(n, c.offset, c.byte)
      /\ pc' = [pc EXCEPT ![f] = "open"]
      /\ writing' = [writing EXCEPT ![f] = NoWrite]
      /\ UNCHANGED <<writable, mapped, misplaced, torn, stale>>
  BY <1>0 DEF WriteSize
<1>2. f \in writable
  BY <1>1 DEF FileInv, Descriptors
<1>3. /\ writable = {f} /\ RegionOf(f) /\ PlacedOf(f) /\ disk \in Seq(Cell) /\ L \in Nat /\ 1 < L
      /\ content \in Seq(Byte \cup {Hole}) /\ s \in Nat /\ s = Len(content) /\ mapped[f] \in Nat
  BY <1>0, <1>2, Writer
<1>4. c \in WriteCall /\ n \in 0..MaxOffset /\ n \in Nat /\ c.offset \in Nat /\ c.byte \in Byte \cup {Hole}
  <2>1. c # NoWrite
    BY <1>0, <1>1 DEF FileInv, Descriptors, Writing
  <2>2. c \in WriteCall
    BY <2>1, <1>0, Typed DEF FileInv
  <2>3. QED BY <2>2, <1>0, CallTyped
<1>5. /\ Round(n) < L /\ Round(n) < mapped[f] /\ s < n /\ Whole(L - 1) /\ Whole(mapped[f] - 1)
      /\ \A i \in c.offset + 1..n : disk[i] = Data(c.byte)
  BY <1>0, <1>1, <1>3 DEF RegionOf, Writing
<1>6. Round(n) \in Nat /\ n <= Round(n) /\ RegionSize(n) = Round(n)
  BY <1>3, <1>4, <1>5, Rounded
<1>7. /\ disk' \in Seq(Cell) /\ Len(disk') = L
      /\ \A i \in 1..L : i # Round(n) + 1 => disk'[i] = disk[i]
      /\ disk'[Round(n) + 1].kind = "tag" <=> disk[Round(n) + 1].kind = "tag"
      /\ disk'[Round(n) + 1].kind = "tag" => disk'[Round(n) + 1] = Tag(n)
      /\ InnerTags'
      /\ Round(n) + 1 = L => EndTag'
      /\ Round(n) + 1 # L => disk'[L] = disk[L]
  BY <1>1, <1>2, <1>4, <1>5, StoreKeeps
<1>8. /\ content' \in Seq(Byte \cup {Hole}) /\ Len(content') = n
      /\ \A i \in 1..n : content'[i] = IF i <= s THEN content[i]
                                       ELSE IF i > c.offset THEN c.byte ELSE Hole
  <2>1. PICK o \in Nat, b \in Byte \cup {Hole} : o = c.offset /\ b = c.byte
    BY <1>4
  <2>2. content \in Seq(Byte \cup {Hole}) /\ content' = ContentTo(n, o, b) /\ s = Len(content)
    BY <2>1, <1>1, <1>3
  <2>3. /\ content' \in Seq(Byte \cup {Hole}) /\ Len(content') = n
        /\ \A i \in 1..n : content'[i] = IF i <= s THEN content[i] ELSE IF i > o THEN b ELSE Hole
    BY <2>2, <1>4, ContentUpTo
  <2>4. QED BY <2>1, <2>3
<1>9. pc'[f] = "open" /\ writing'[f] = NoWrite /\ fileSize'[f] = n /\ mapped'[f] = mapped[f]
  BY <1>1 DEF FileInv, FileTypeOK
<1>10. FileTypeOK'
  <2>1. writing' \in [FD -> WriteCall \cup {NoWrite}]
    BY <1>1 DEF FileInv, FileTypeOK
  <2>2. fileSize' \in [FD -> Nat] /\ pc' \in [FD -> {"closed", "opened", "open", "extend", "copy", "size", "closing"}]
    BY <1>1, <1>4 DEF FileInv, FileTypeOK
  <2>3. QED BY <2>1, <2>2, <1>1, <1>3, <1>7, <1>8, <1>9 DEF FileInv, FileTypeOK
<1>11. RegionOf(f)'
  BY <1>1, <1>4, <1>5, <1>6, <1>7, <1>9 DEF RegionOf, Writing
<1>12. PlacedOf(f)'
  <2>1. misplaced = {} => L = Round(n) + 1 /\ disk[L] = Tag(s)
    BY <1>0, <1>1, <1>3 DEF PlacedOf
  <2>2. misplaced = {} => L = Round(n) + 1 /\ disk'[L] = Tag(n)
    BY <2>1, <1>7, Cells
  <2>3. QED BY <2>2, <1>1, <1>6, <1>7, <1>9 DEF PlacedOf
<1>13. Stored'
  <2>1. n <= L
    BY <1>3, <1>4, <1>5, <1>6
  <2>2. ASSUME NEW i \in 1..n, content'[i] # Hole PROVE disk'[i] = Data(content'[i])
    <3>1. i \in 1..L /\ i # Round(n) + 1 /\ i \in Nat /\ i <= n
      BY <2>1, <1>3, <1>4, <1>6
    <3>2. disk'[i] = disk[i]
      BY <3>1, <1>7
    <3>3. CASE i <= s
      <4>1. i \in 1..Len(content) /\ content'[i] = content[i]
        BY <3>1, <3>3, <1>3, <1>8
      <4>2. QED BY <4>1, <3>2, <2>2 DEF FileInv, Stored
    <3>4. CASE ~(i <= s)
      <4>1. content'[i] = c.byte /\ i > c.offset
        BY <2>2, <3>4, <1>8
      <4>2. i \in c.offset + 1..n
        BY <4>1, <3>1, <1>4
      <4>3. QED BY <4>1, <4>2, <3>2, <1>5
    <3>5. QED BY <3>3, <3>4
  <2>3. QED BY <2>1, <2>2, <1>7, <1>8 DEF Stored
<1>14. EndTag'
  <2>1. CASE Round(n) + 1 = L
    BY <2>1, <1>7
  <2>2. CASE Round(n) + 1 # L
    <3>1. ~Copied
      BY <2>2, <1>0, <1>2 DEF Copied
    <3>2. QED BY <2>2, <3>1, <1>7 DEF FileInv, EndTag, IsTag, Home
  <2>3. QED BY <2>1, <2>2
<1>15. \A g \in FD \ {f} : /\ pc'[g] = pc[g] /\ fileSize'[g] = fileSize[g]
                           /\ mapped'[g] = mapped[g] /\ writing'[g] = writing[g]
                           /\ pc[g] = "open" /\ g \notin stale' => fileSize[g] <= Len(content')
  <2>1. \A g \in FD \ {f} : pc'[g] = pc[g] /\ writing'[g] = writing[g] /\ fileSize'[g] = fileSize[g]
    BY <1>1 DEF FileInv, FileTypeOK
  <2>2. \A g \in FD \ {f} : pc[g] = "open" /\ g \notin stale => fileSize[g] <= s
    BY <1>3 DEF FileInv, Descriptors
  <2>3. \A g \in FD : fileSize[g] \in Nat
    BY DEF FileInv, FileTypeOK
  <2>4. QED BY <2>1, <2>2, <2>3, <1>1, <1>3, <1>4, <1>5, <1>8
<1>16. Writing(f)' <=> writing'[f] # NoWrite
  BY <1>9 DEF Writing
<1>17. writable \subseteq {f} /\ writable' = {f}
  BY <1>1, <1>3
<1>18. InnerTags'
  BY <1>7
<1>19. QED BY <1>10, <1>11, <1>12, <1>13, <1>14, <1>15, <1>16, <1>17, <1>18, WriterStep

\* The place of the new size can be accessed, so it is in the file: the chunks that end in front of
\* a cell in the same chunk as the file's last one are in front of that one.
LEMMA FTruncateKeeps ==
    ASSUME FileInv, NEW f \in FD, NEW n \in 0..MaxOffset, FTruncate(f, n) PROVE FileInv'
<1>0. PICK s : s = fileSize[f]
  OBVIOUS
<1> DEFINE L == Len(disk)
<1>1. /\ pc[f] = "open" /\ f \in writable
      /\ Round(n) + 1 <= Round(mapped[f]) /\ Round(n) + 1 <= Round(L)
      /\ fileSize' = [fileSize EXCEPT ![f] = n]
      /\ disk' = StoreSize(disk, n)
      /\ content' = ContentTo(n, n, Hole)
      /\ misplaced' = misplaced \cup MisplacingTruncate(f, n)
      /\ stale' = IF n < s THEN stale \cup OtherReaders(f) ELSE stale
      /\ UNCHANGED <<pc, writable, mapped, writing, torn>>
  BY <1>0 DEF FTruncate, IsOpen, Accessible
<1>2. /\ writable = {f} /\ RegionOf(f) /\ PlacedOf(f) /\ disk \in Seq(Cell) /\ L \in Nat /\ 1 < L
      /\ content \in Seq(Byte \cup {Hole}) /\ s \in Nat /\ s = Len(content) /\ mapped[f] \in Nat
      /\ RegionSize(s) \in Nat /\ 0 < RegionSize(s)
      /\ (IsTag(L) => Home(L))
  BY <1>0, <1>1, Writer
<1>3. n \in Nat
  BY SizesAreNumbers
<1>4. /\ Round(n) \in Nat /\ n <= Round(n) /\ Whole(Round(n)) /\ Round(0) = 0
      /\ RegionSize(n) \in Nat /\ n <= RegionSize(n) /\ (n > 0 => RegionSize(n) = Round(n))
  BY <1>3, Rounded
<1>5. /\ Whole(L - 1) /\ Whole(mapped[f] - 1)
      /\ RegionSize(s) < L /\ RegionSize(s) < mapped[f]
  BY <1>0, <1>1, <1>2 DEF RegionOf
<1>6. ASSUME NEW m \in Nat, 1 < m, Whole(m - 1), Round(n) + 1 <= Round(m)
      PROVE  Round(n) < m /\ RegionSize(n) < m
  <2>0. PICK k : k = m - 1
    OBVIOUS
  <2>1. k \in Nat /\ m = k + 1 /\ 0 < k /\ Whole(k)
    BY <2>0, <1>6
  <2>2. Round(n) <= k
    BY <2>1, <1>4, <1>6, Reach
  <2>3. n <= k
    BY <2>1, <2>2, <1>3, <1>4
  <2>4. RegionSize(n) <= k
    BY <2>1, <2>3, <1>3, RoundLeast
  <2>5. QED BY <2>1, <2>2, <2>4, <1>4
<1>7. Round(n) < L /\ RegionSize(n) < L
  BY <1>1, <1>2, <1>5, <1>6
<1>8. RegionSize(n) < mapped[f]
  <2>1. 1 < mapped[f]
    BY <1>2, <1>5
  <2>2. QED BY <2>1, <1>1, <1>2, <1>5, <1>6
<1>9. /\ disk' \in Seq(Cell) /\ Len(disk') = L
      /\ \A i \in 1..L : i # Round(n) + 1 => disk'[i] = disk[i]
      /\ disk'[Round(n) + 1].kind = "tag" <=> disk[Round(n) + 1].kind = "tag"
      /\ disk'[Round(n) + 1].kind = "tag" => disk'[Round(n) + 1] = Tag(n)
      /\ InnerTags'
      /\ Round(n) + 1 = L => n > 0 /\ EndTag'
      /\ Round(n) + 1 # L => disk'[L] = disk[L]
  BY <1>1, <1>7, StoreKeeps
<1>10. /\ content' \in Seq(Byte \cup {Hole}) /\ Len(content') = n
       /\ \A i \in 1..n : content'[i] = IF i <= s THEN content[i]
                                        ELSE IF i > n THEN Hole ELSE Hole
  <2>1. Hole \in Byte \cup {Hole}
    OBVIOUS
  <2>2. QED BY <2>1, <1>1, <1>2, <1>3, ContentUpTo
<1>11. pc'[f] = "open" /\ writing'[f] = writing[f] /\ fileSize'[f] = n /\ mapped'[f] = mapped[f]
  BY <1>1 DEF FileInv, FileTypeOK
<1>12. FileTypeOK'
  <2>1. stale' \subseteq FD /\ misplaced' \subseteq {"empty", "truncate"}
    BY <1>1 DEF FileInv, FileTypeOK, OtherReaders, MisplacingTruncate
  <2>2. fileSize' \in [FD -> Nat]
    BY <1>1, <1>3 DEF FileInv, FileTypeOK
  <2>3. QED BY <2>1, <2>2, <1>1, <1>2, <1>9, <1>10, <1>11 DEF FileInv, FileTypeOK
<1>13. RegionOf(f)'
  BY <1>5, <1>7, <1>8, <1>9, <1>11 DEF RegionOf, Writing
<1>14. PlacedOf(f)'
  <2>1. ASSUME misplaced' = {} PROVE L = RegionSize(n) + 1 /\ disk'[L] = Tag(n)
    <3>1. misplaced = {} /\ MisplacingTruncate(f, n) = {}
      BY <2>1, <1>1
    <3>2. n = s \/ Round(n) = RegionSize(s)
      BY <3>1, <1>0 DEF MisplacingTruncate
    <3>3. L = RegionSize(s) + 1 /\ disk[L] = Tag(s)
      BY <3>1, <1>0, <1>1, <1>2 DEF PlacedOf
    <3>4. CASE Round(n) = RegionSize(s)
      <4>1. n > 0 /\ RegionSize(n) = Round(n)
        BY <3>4, <1>2, <1>3, <1>4
      <4>2. Round(n) + 1 = L /\ disk[L].kind = "tag"
        BY <3>3, <3>4, Cells
      <4>3. disk'[L] = Tag(n)
        BY <4>2, <1>9
      <4>4. QED BY <4>1, <4>2, <4>3
    <3>5. CASE n = s /\ Round(n) # RegionSize(s)
      <4>1. Round(n) + 1 # L
        BY <3>3, <3>5, <1>2, <1>4
      <4>2. QED BY <4>1, <3>3, <3>5, <1>9
    <3>6. QED BY <3>2, <3>4, <3>5
  <2>2. QED BY <2>1, <1>9, <1>11 DEF PlacedOf
<1>15. Stored'
  <2>1. n <= L
    BY <1>2, <1>3, <1>4, <1>7
  <2>2. ASSUME NEW i \in 1..n, content'[i] # Hole PROVE disk'[i] = Data(content'[i])
    <3>1. i \in 1..L /\ i # Round(n) + 1
      BY <2>1, <1>2, <1>3, <1>4
    <3>2. i <= s /\ content'[i] = content[i]
      BY <2>2, <1>10
    <3>3. i \in 1..Len(content)
      BY <3>2, <1>2, <1>3
    <3>4. QED BY <3>1, <3>2, <3>3, <2>2, <1>9 DEF FileInv, Stored
  <2>3. QED BY <2>1, <2>2, <1>9, <1>10 DEF Stored
<1>16. EndTag'
  <2>1. CASE Round(n) + 1 = L
    BY <2>1, <1>9
  <2>2. CASE Round(n) + 1 # L
    BY <2>2, <1>2, <1>9 DEF EndTag, IsTag, Home
  <2>3. QED BY <2>1, <2>2
<1>17. \A g \in FD \ {f} : /\ pc'[g] = pc[g] /\ fileSize'[g] = fileSize[g]
                           /\ mapped'[g] = mapped[g] /\ writing'[g] = writing[g]
                           /\ pc[g] = "open" /\ g \notin stale' => fileSize[g] <= Len(content')
  <2>1. \A g \in FD \ {f} : fileSize'[g] = fileSize[g]
    BY <1>1 DEF FileInv, FileTypeOK
  <2>2. ASSUME NEW g \in FD \ {f}, pc[g] = "open", g \notin stale' PROVE fileSize[g] <= n
    <3>1. g \in OtherReaders(f)
      BY <2>2 DEF OtherReaders
    <3>2. ~(n < s) /\ g \notin stale
      BY <2>2, <3>1, <1>1
    <3>3. fileSize[g] <= s /\ fileSize[g] \in Nat
      BY <2>2, <3>2, <1>2 DEF FileInv, FileTypeOK, Descriptors
    <3>4. QED BY <3>2, <3>3, <1>2, <1>3
  <2>3. QED BY <2>1, <2>2, <1>1, <1>10
<1>18. Writing(f)' <=> writing'[f] # NoWrite
  <2>1. Writing(f) <=> writing[f] # NoWrite
    BY DEF FileInv, Descriptors
  <2>2. QED BY <2>1, <1>1, <1>11 DEF Writing
<1>19. writable \subseteq {f} /\ writable' = {f}
  BY <1>1, <1>2
<1>20. InnerTags'
  BY <1>9
<1>21. QED BY <1>12, <1>13, <1>14, <1>15, <1>16, <1>17, <1>18, <1>19, <1>20, WriterStep
-----------------------------------------------------------------------------
(* MmapFile: the end of a descriptor *)

LEMMA CloseUnmapKeeps == ASSUME FileInv, NEW f \in FD, CloseUnmap(f) PROVE FileInv'
<1>1. /\ pc[f] = "open" /\ f \in writable
      /\ pc' = [pc EXCEPT ![f] = "closing"]
      /\ mapped' = [mapped EXCEPT ![f] = 0]
      /\ UNCHANGED <<disk, writable, fileSize, writing, content, misplaced, torn, stale>>
  BY DEF CloseUnmap, IsOpen
<1>2. /\ writable = {f} /\ RegionOf(f) /\ PlacedOf(f)
      /\ (IsTag(Len(disk)) => Home(Len(disk))) /\ fileSize[f] = Len(content)
  BY <1>1, Writer
<1>3. pc'[f] = "closing"
  BY <1>1 DEF FileInv, FileTypeOK
<1>4. FileTypeOK'
  BY <1>1, <1>3 DEF FileInv, FileTypeOK
<1>5. RegionOf(f)'
  BY <1>1, <1>2, <1>3 DEF RegionOf, Writing
<1>6. PlacedOf(f)'
  BY <1>1, <1>2, <1>3 DEF PlacedOf
<1>7. Stored' /\ InnerTags'
  BY <1>1 DEF FileInv, Stored, InnerTags, IsTag, Home
<1>8. EndTag'
  BY <1>1, <1>2 DEF EndTag, IsTag, Home
<1>9. \A g \in FD \ {f} : /\ pc'[g] = pc[g] /\ fileSize'[g] = fileSize[g]
                          /\ mapped'[g] = mapped[g] /\ writing'[g] = writing[g]
                          /\ pc[g] = "open" /\ g \notin stale' => fileSize[g] <= Len(content')
  BY <1>1, <1>2 DEF FileInv, FileTypeOK, Descriptors
<1>10. Writing(f)' <=> writing'[f] # NoWrite
  <2>1. writing[f] = NoWrite
    BY <1>1 DEF FileInv, Descriptors, Writing
  <2>2. QED BY <2>1, <1>1, <1>3 DEF Writing
<1>11. writable \subseteq {f} /\ writable' = {f}
  BY <1>1, <1>2
<1>12. QED BY <1>4, <1>5, <1>6, <1>7, <1>8, <1>9, <1>10, <1>11, WriterStep

\* The file has the length that the program knows. A tag in the middle of the data stays, but the
\* last cell is one only if the program has not written it.
LEMMA CloseCutKeeps == ASSUME FileInv, NEW f \in FD, CloseCut(f) PROVE FileInv'
<1>0. PICK s : s = fileSize[f]
  OBVIOUS
<1>1. /\ pc[f] = "closing" /\ Free({f})
      /\ disk' = Resize(disk, s)
      /\ writable' = {} /\ misplaced' = {}
      /\ UNCHANGED <<writing, content, torn, stale>>
  BY <1>0 DEF CloseCut
<1>2. f \in writable
  BY <1>1 DEF FileInv, Descriptors
<1>3. /\ writable = {f} /\ disk \in Seq(Cell) /\ Len(disk) \in Nat
      /\ content \in Seq(Byte \cup {Hole}) /\ s \in Nat /\ s = Len(content)
      /\ RegionSize(s) \in Nat /\ s <= RegionSize(s) /\ RegionSize(s) < Len(disk)
  BY <1>0, <1>2, Writer
<1>4. /\ disk' \in Seq(Cell) /\ Len(disk') = s
      /\ \A i \in 1..s : i \in 1..Len(disk) - 1 /\ disk'[i] = disk[i]
  <2>1. \A i \in 1..s : i \in 1..Len(disk) - 1 /\ i <= Len(disk)
    BY <1>3
  <2>2. /\ disk' \in Seq(Cell) /\ Len(disk') = s
        /\ \A i \in 1..s : disk'[i] = IF i <= Len(disk) THEN disk[i] ELSE Zero
    BY <1>1, <1>3, Resized
  <2>3. QED BY <2>1, <2>2
<1>5. /\ pc' \in [FD -> {"closed", "opened", "open", "extend", "copy", "size", "closing"}]
      /\ fileSize' \in [FD -> Nat] /\ mapped' \in [FD -> Nat]
      /\ pc'[f] = "closed"
      /\ \A g \in FD \ {f} : pc'[g] = pc[g] /\ fileSize'[g] = fileSize[g] /\ mapped'[g] = mapped[g]
  <2>1. FileTypeOK /\ {f} \in SUBSET FD
    BY DEF FileInv
  <2>2. QED BY <1>1, <2>1, Freed
<1>6. FileTypeOK'
  BY <1>1, <1>4, <1>5 DEF FileInv, FileTypeOK
<1>7. Descriptors'
  <2>1. writing[f] = NoWrite
    BY <1>1 DEF FileInv, Descriptors, Writing
  <2>2. \A g \in FD : Writing(g)' <=> writing'[g] # NoWrite
    BY <2>1, <1>1, <1>5 DEF FileInv, Descriptors, Writing
  <2>3. \A g \in FD : pc'[g] \in {"closed", "open"}
    BY <1>3, <1>5 DEF FileInv, Descriptors
  <2>4. \A g \in FD : pc'[g] = "open" =>
           fileSize'[g] <= mapped'[g] /\ (g \notin stale' => fileSize'[g] <= Len(content)')
    BY <1>1, <1>3, <1>5 DEF FileInv, Descriptors
  <2>5. QED BY <2>2, <2>3, <2>4, <1>1 DEF Descriptors
<1>8. Stored'
  BY <1>1, <1>3, <1>4 DEF FileInv, Stored
<1>9. \A p \in 1..s : disk'[p].kind = "tag" => RegionSize(disk'[p].val) + 1 = p
  BY <1>4 DEF FileInv, InnerTags, IsTag, Home
<1>10. InnerTags' /\ EndTag'
  <2>1. \A p \in 1..s - 1 : p \in 1..s
    BY <1>3
  <2>2. s > 0 => s \in 1..s
    BY <1>3
  <2>3. InnerTags'
    BY <2>1, <1>4, <1>9 DEF InnerTags, IsTag, Home
  <2>4. EndTag'
    BY <2>2, <1>4, <1>9 DEF EndTag, IsTag, Home
  <2>5. QED BY <2>3, <2>4
<1>11. Found'
  <2>1. SUFFICES ASSUME ~ClosedInHole' PROVE RealSize(disk') = s
    BY <2>1, <1>1, <1>3 DEF Found
  <2>2. ~(s > 0 /\ disk'[s].kind = "tag")
    <3>1. SUFFICES ASSUME s > 0 PROVE disk'[s].kind # "tag"
      OBVIOUS
    <3>2. content # << >> /\ s \in 1..s
      BY <3>1, <1>3
    <3>3. content[s] # Hole
      BY <2>1, <3>2, <1>1, <1>3, <1>4 DEF ClosedInHole
    <3>4. disk'[s] = Data(content[s])
      BY <3>2, <3>3, <1>3, <1>4 DEF FileInv, Stored
    <3>5. QED BY <3>4, Cells
  <2>3. QED BY <2>2, <1>4, SizeFound
<1>12. QED BY <1>1, <1>6, <1>7, <1>8, <1>10, <1>11 DEF FileInv
-----------------------------------------------------------------------------
(* MmapFile: the theorems *)

LEMMA FileInitInv == FileInit => FileInv
<1> SUFFICES ASSUME FileInit PROVE FileInv
  OBVIOUS
<1>1. /\ disk = << >> /\ pc = [f \in FD |-> "closed"] /\ writable = {}
      /\ fileSize = [f \in FD |-> 0] /\ mapped = [f \in FD |-> 0]
      /\ writing = [f \in FD |-> NoWrite] /\ content = << >>
      /\ misplaced = {} /\ torn = FALSE /\ stale = {}
  BY DEF FileInit
<1>2. FileTypeOK
  <2>1. writing \in [FD -> WriteCall \cup {NoWrite}]
    BY <1>1
  <2>2. disk \in Seq(Cell) /\ content \in Seq(Byte \cup {Hole}) /\ Len(disk) = 0 /\ Len(content) = 0
    BY <1>1
  <2>3. QED BY <2>1, <2>2, <1>1 DEF FileTypeOK
<1>3. Descriptors
  BY <1>1 DEF Descriptors, Writing
<1>4. Stored /\ InnerTags /\ EndTag
  BY <1>1 DEF Stored, InnerTags, EndTag
<1>5. Found
  <2>1. RealSize(disk) = 0
    BY <1>1 DEF RealSize
  <2>2. QED BY <2>1, <1>1 DEF Found
<1>6. QED BY <1>1, <1>2, <1>3, <1>4, <1>5 DEF FileInv

LEMMA FileStep == FileInv /\ [FileNext]_fileVars => FileInv'
<1> SUFFICES ASSUME FileInv, [FileNext]_fileVars PROVE FileInv'
  OBVIOUS
<1>1. ASSUME NEW f \in FD,
             \/ OpenRead(f) \/ OpenTag(f) \/ ExtendTag(f) \/ WriteExtended(f) \/ WriteSize(f)
             \/ CloseRead(f) \/ CloseUnmap(f) \/ CloseCut(f)
      PROVE  FileInv'
  BY <1>1, OpenReadKeeps, OpenTagKeeps, ExtendTagKeeps, WriteExtendedKeeps, WriteSizeKeeps,
     CloseReadKeeps, CloseUnmapKeeps, CloseCutKeeps
<1>2. ASSUME NEW f \in FD, NEW trunc \in BOOLEAN, OpenWrite(f, trunc) PROVE FileInv'
  BY <1>2, OpenWriteKeeps
<1>3. ASSUME NEW f \in FD, NEW n \in 0..MaxOffset, FTruncate(f, n) PROVE FileInv'
  BY <1>3, FTruncateKeeps
<1>4. ASSUME NEW f \in FD, NEW c \in WriteCall, WriteWithin(f, c) \/ Extend(f, c) PROVE FileInv'
  BY <1>4, WriteWithinKeeps, ExtendKeeps
<1>5. ASSUME ProcessEnds PROVE FileInv'
  BY <1>5, EndKeeps
<1>6. \A f \in FD : /\ \A o, n : ReadFaults(f, o, n) => ProcessEnds
                    /\ \A n : TruncateFaults(f, n) => ProcessEnds
  BY DEF ReadFaults, TruncateFaults
<1>7. Crash => ProcessEnds
  BY DEF Crash
<1>8. ASSUME UNCHANGED fileVars PROVE FileInv'
  <2>1. UNCHANGED <<disk, pc, writable, fileSize, mapped, writing, content, misplaced, torn, stale>>
    BY <1>8 DEF fileVars
  <2>2. FileTypeOK' /\ Descriptors'
    BY <2>1 DEF FileInv, FileTypeOK, Descriptors, Writing
  <2>3. QED BY <2>1, <2>2, ReaderStep
<1>9. QED BY <1>1, <1>2, <1>3, <1>4, <1>5, <1>6, <1>7, <1>8 DEF FileNext

\* The invariant holds: after each step the file, the tags in it and what the descriptors know agree.
THEOREM FileSafe == FileSpec => []FileInv
<1>1. QED BY FileInitInv, FileStep, PTL DEF FileSpec

\* Cells, sizes and calls have their types, and a writer's file_size is the size of what it has
\* written.
THEOREM MmapFileTypes == FileSpec => []FileTypeOK
<1>1. FileInv => FileTypeOK
  BY DEF FileInv
<1>2. QED BY <1>1, FileSafe, PTL

\* The size that ert_mmapfs_open_ocall recovers between two calls, or after a crash there, is the
\* one that the program knows, unless the tag has been misplaced before.
THEOREM SizesRecovered == FileSpec => []SizeRecovered
<1>1. FileInv => SizeRecovered
  BY InvRecovers
<1>2. QED BY <1>1, FileSafe, PTL

\* What the program has written is neither overwritten by a tag nor cut off, and no size that an open
\* recovers is too small, whenever the process ends (hostfsmmap.c, mmapfs.cpp).
THEOREM WritesKept == FileSpec => []NothingLost
<1>1. FileInv => NothingLost
  BY InvRecovers
<1>2. QED BY <1>1, FileSafe, PTL

\* A descriptor can access all of its file, and a writer the place of its tag.
THEOREM MappingsReach == FileSpec => []Mapped
<1>1. QED BY InvMapped, FileSafe, PTL
=============================================================================
