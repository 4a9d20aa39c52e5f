# TLA+ verification of Edgeless RT

Edgeless RT runs whole programs inside an SGX enclave. On top of Open Enclave it adds what such
programs expect of an operating system: threads that the program creates, futexes, sockets between
threads of the enclave, signals, memory mapping, files on the host and file systems of the program's
own. This project models the parts of that code that are hard to test: those where threads, the
enclave and the host interleave.

Paths below are relative to `src/` of the repository (`src/ert`, `src/ertlibc`, `src/tools`;
`ert.patch` is `3rdparty/openenclave/ert.patch`).

## 1. Inventory

| Component | State | Operations | Interacts with | What is hard | Correct when |
|---|---|---|---|---|---|
| ring buffer, `ert/common/ringbuffer.c` | array, front, back, full | read, write, empty | internal sockets | wrap-around in two chunks; empty and full both have front = back | it is a bounded FIFO queue |
| internal sockets, connection: `ert/enclave/internalsock.c` | per side: refcount, buffer, mutex, condition variable, polled sockets; the connection's spinlock | recv, send, dup, accept, close, poll | host eventfds, the listener | two locks, a wait, counts read outside the mutex, concurrent closes | counts exact, end of file final, no lost wake-up, freed by the last closer, eventfds tell the truth |
| internal sockets, listener: same file | bound sockets (spinlock), per listener: backlog, mutex, condition variable, eventfd | bind, listen, connect, accept, close | connections, host eventfds | look up, then lock; close while connecting; one signal per connection | ports unique, no use of a freed listener, each connection in one backlog until accepted |
| pthreads of the enclave, `ertlibc/pthread.cpp`, `new_thread.cpp` | queue of `oe_new_thread_t`, each with state, detached flag, return value | pthread_create, join, detach, exit, cancel, testcancel; the ecall of a new thread | host thread manager (ocall, ecall), futex | a thread takes any creator's object; ocalls that fail; deletion by the thread itself; process exit | each object is run once, deleted last, its creator served, a join at exit returns |
| host thread manager, `ert/host/enclave_thread_manager.cpp`, `calls.cpp`, `thread.cpp` | list of threads per enclave, two mutexes, cancel_state per thread | create_thread, set_cancelable, join_all_threads, cancel_all_threads, destructor | pthreads, the ocall dispatcher of Open Enclave (`ert.patch`) | cancelation must not hit a thread inside the enclave; joins under a lock that the joined may need | nobody canceled inside, nobody outlives the enclave, cancel returns |
| futex, `ert/libc/ertfutex.c`, `ert/host/core.c` | list of waiters (spinlock); one event counter per TCS on the host | wait, wake, requeue, wake of a canceled thread | musl's locks, pthread_cancel, futex(2) of the host | wake-ups before the sleep, timeouts against wake-ups, tokens left in the counter | no lost wake-up, list exact, 0 only to the woken |
| mmap file system, `ert/enclave/hostfsmmap.c`, `ert/host/mmapfs.cpp` | mapped file, size tag after the data, open descriptors | open, read, write, seek, truncate, close | host files | a crash between growing and writing the tag; two descriptors of a file | the file's size survives a crash |
| enclave heap mapping, `ert/libc/mman.c`, `ert/common/bitset.c` | bitmap of pages, a spinlock | mmap, munmap, MAP_FIXED, madvise | malloc | word boundaries of the bitmap; ranges; a bitmap longer than the pages reserved for it | allocations are disjoint |
| custom and memory file systems, `ertlibc/customfs.c`, `memfs.cpp` | the registered device, its clones (one per mount) with their flags, open files with the handles of the callbacks, one spinlock for all | load, clone, mount, umount, release; open, stat, truncate and the other path operations; read, write, pread, dup, close and the other file operations | the program's callbacks, Open Enclave's VFS | callbacks that fail half-way; handles opened for one call; a mount that ends under a call | handles neither leaked nor closed twice, read-only means read-only, no use of freed memory |
| clock, `ertlibc/time.cpp`, `ert/host/vdso.cpp` | address of the kernel's vdso data, last monotonic time, a spinlock | clock_gettime | the kernel, which writes at any moment; the host, which may set the clock back | a torn read under the sequence counter; initialization by whoever is first | the time is one that the kernel wrote, the monotonic clock never goes back |
| signals, `ertlibc/signal_manager.cpp`, `signal.cpp` | array of actions, a spinlock, a once flag | sigaction, the exception handler | Open Enclave exceptions | concurrent exchanges of actions; a fault while the handler is being registered | actions form a chain, a fault finds the action installed |
| resource limits, scheduling: `ertlibc/resource.cpp`, `sched.cpp` | limit per resource, a spinlock | prlimit | | the comparison with the hard limit and the assignment | the hard limit only falls |
| eventfd, `ert/enclave/eventfd.c` | host descriptor | read, write, poll | sockets | | |
| arguments, libc dispatch, tracing | tables | | | | |
| tools, `tools/erthost`, `restart.cpp`, `ttls.cpp`, `meshpremain`, `oesign` | command line | launch, sign | everything | | |

`PROJECT.json` lists the same components with their sources, and the hazards of the code at their
lines with the properties that cover them.

## 2. Modules

    BoundedFifo            abstract: a bounded FIFO queue of bytes
    RingBuffer             ringbuffer.c; implements BoundedFifo
    StreamSockets          abstract: a pair of connected stream sockets
    SockConnection         internalsock.c, one connection; implements StreamSockets
    SockConnectionProofs   its counts are exact, it is freed in the end, it implements StreamSockets,
                           nobody sleeps through a wake-up, proved
    SockListener           internalsock.c, bind/listen/connect/accept/close
    SockListenerProofs     ports unique, listener alive, each connection in one backlog, no
                           acceptor left asleep, proved
    Actors                 the threads that the next three speak of
    Lists                  linked lists from which entries are removed
    ListProofs             what is left of a list, proved
    EnclaveThreads         pthread.cpp, new_thread.cpp (inside the enclave)
    EnclaveThreadsProofs   each object is run once and deleted last, under any host, proved
    EnclaveThreadManager   enclave_thread_manager.cpp, calls.cpp (on the host)
    ThreadSystem           both, joined at the ocall and the ecall of create_thread
    ThreadSystemProofs     ThreadSystem implements EnclaveThreadManager, whose properties it keeps, and
                           keeps those of the enclave's threads; creators are served, proved
    Futex                  abstract: what futex(2) promises its callers
    ErtFutex               ertfutex.c and host/core.c; implements Futex
    ErtFutexProofs         that, and its three invariants, proved
    MmapFile               hostfsmmap.c and mmapfs.cpp: one file, its size tag, crashes
    PageBitmap             bitset.c
    Mman                   mman.c, on PageBitmap
    CustomFs               customfs.c and memfs.cpp
    FileSystemsProofs      the four properties of CustomFs and the three of MmapFile, proved
    Callers                the threads that the next three speak of
    Clock                  time.cpp and vdso.cpp
    SignalManager          signal_manager.cpp and signal.cpp
    ResourceLimits         resource.cpp
    ComponentsProofs       RingBuffer implements BoundedFifo; the properties of the heap and of the last
                           three, proved
    MC*                    instances for TLC; a .cfg per run. MCComponents explores five modules
                           that share no state one at a time, MCFileSystems two

Common conventions. A step is what one thread does between two points where another thread can
intervene: obtaining a lock it may wait for, an atomic instruction, an access outside the lock, an
ocall. `pc`, `step` or `place` says where a thread is. A critical section that takes no other lock
is one step. Operators named `X_Y` next to an action `X` are variants of it with one defect
(a dropped comparison, a signal instead of a broadcast, a swapped order); no next-state relation
uses them. They show that the properties notice such a defect.

### RingBuffer

`Read(n)` and `Write(s)` are `ert_ringbuffer_read` and `_write` with their at most two chunks;
front, back and `_full` are the fields of `ert_ringbuffer_t`. The abstraction `Contents` (the bytes
from front to back, or all if full) maps it to `BoundedFifo`.

### SockConnection

One connection from the moment connect() has queued it until it is freed, with all threads of both
sides. `Recv*` is `_sock_recvfrom`, `Send*` `_sock_sendto`, `Add*` `_connection_add` (called by
dup() and accept()), `Close*` `_connection_remove`, `Poll*` `_sock_get_host_fd`, `DropBacklog` what
the listener's close does to a connection that nobody has accepted. The bytes are counted, not
named. `recv_check` is the interesting place: recvfrom has seen the empty buffer and asks for the
other side's refcount, under another lock. `fate` records the ends of the program that the code
itself causes: the abort of a full socks array, the unlocking through a null pointer in
`_free_boundsock`, the use of a connection that has been freed.

`StreamSockets` is what an application expects of such a connection: three pieces of state, which
side is open, how many bytes are in transit to each side, and which side has been told end of file.
`SockConnection` implements it with a side open while its refcount is positive. The step that is hard
to justify is `EndOfFile`, which demands in one instant what recvfrom finds out in two looks under two
locks.

### SockListener

`Bind`, `Listen`, `ConnectFind`/`ConnectEnqueue`, `Accept*`, `Close*` follow `_lock` (the spinlock
of all bound sockets) and the backlog's mutex. `ConnectFind` keeps the spinlock until it has the
mutex, as the code does; `CloseUnlink` takes the socket off the list, `CloseMutex` waits for those
who found it before.

### EnclaveThreads, EnclaveThreadManager, ThreadSystem

Inside the enclave an `oe_new_thread_t` is a monitor: each change is broadcast and each wait loops,
so a wait is a step that is taken when its condition holds. `Push` ends at the ocall, `OcallTrue`
and `OcallFalse` are its results, `Enter` is `ert_create_thread_ecall` taking the front of the
queue, `Done` and `Leave` its end. `fault` is a use after `delete` or an abort.

On the host `place` is where a thread is: in the enclave, in an ocall, in `create_thread` before
each of its two locks, or ended. `Ocall` and `OcallReturn` are the two calls of `set_cancelable`
that `ert.patch` puts around an ocall. Main is the thread that joins, terminates and exits; its
calls are split at the flags of each thread of the list (`CancelMark`, `CancelSend`, `Join`).

`ThreadSystem` extends EnclaveThreads and instantiates the manager as `H`: the ocall of
pthread_create runs `create_thread`, `CreateStart` is at the same time the start of an entering
thread (`Launch`), a host thread may end when its ecall has returned, and a host thread that is canceled leaves its pthread where it was.

### ErtFutex

`Wait` is the critical section at the start of `_wait`, `OcallEnter` to `HostCheck` are
`oe_sgx_thread_timedwait_ocall` split at its atomic instructions and futex calls, `Back` is the
critical section after the ocall. `Wake` takes waiters off the list and leaves the calls to the
host, `WakeAdd` and `WakeSyscall`, one thread at a time. A thread's event counter keeps what no wait
has consumed. The program is a set of threads that change words and then wake (`Change`,
`WakeAll`), wake one without a change (`WakeOne`, a semaphore), requeue or cancel.

`Futex` has no list order, no counters and no ocalls: a map from threads to the words they wait on,
and the sets of those that a wake has chosen, that are late and that are canceled. The
refinement takes the first from the list and the others from the threads' histories. A wake-up that a
counter still holds for an earlier wait must not end a later one: `Futex` has no step for that.

### MmapFile

`disk` is the host's file, which survives the end of the process; everything else of the
implementation is lost with it. The unit is the size tag (16 bytes in the code), so that a tag fills
one cell and a chunk is `Chunk` cells. `Resize` is ftruncate, `RealSize` the recovery in
`ert_mmapfs_open_ocall`, `StoreSize` the second half of `_set_file_size`. Calls are split wherever
the file is changed, so that `Crash` can come in between; the descriptors' spinlocks order the calls
of one descriptor, and nothing orders those of two. `content` is what the program has written, by
POSIX's rules, and is what the properties compare the file with. An access outside the mapping or
behind the end of the file ends the process (`ReadFaults`, `TruncateFaults`).

This file system is commented out of the present build (`ert/CMakeLists.txt:7`,
`tests/CMakeLists.txt:36-38`), but its code and its tests are kept. What the model shows about it
(section 3) matters when it is switched on again.

### PageBitmap, Mman

`PageBitmap` is `bitset.c` with its masks and its loops over words, which are recursive functions; a
word is a set of bit positions. `Mman` is
`ert_mmap`, `ert_munmap` and `ert_madvise`, each one step because they hold a spinlock. `owners` says
whether a page is in none, one or several of the program's mappings, which the code does not know. For
some sizes of the heap the end of the bitmap lies in pages that are handed out: `PageOf` says in which
page a word lies, `Cleared` is a memset of pages and `Store` what the program does to a page of its own.

### CustomFs

A `device` is a clone, which exists from `Clone` to `Release`; `module` is what they are clones of, whose
life a Memfs ends by its destructor. `Resolve` is what Open Enclave's VFS does with a path before
it calls a function of the table: it takes the clone's address and nothing else. Each operation then
has a start (`PathCall`, `FileCall`, `Open`, `Dup`), which makes the checks in front of the lock, and
its callbacks under the lock, one step each, because `_lock` does not keep mounts out. The
callbacks are the program's: they succeed or fail, on a file system of one file. Operations with the
same checks that differ only in the callback share an `op`. A step that reads a freed clone sets
`fault` and ends the behaviour.

### Clock, SignalManager, ResourceLimits

In `Clock` the kernel increments `seq`, writes `sec` and `rest` in any order and increments `seq`
again; the read of each word is a step. `Reference` and `Probe` are the search for the words
in the vdso data, which compares them with the time a moment ago; `OnceBegin` to `OnceEnd` are
oe_once. `SignalManager` splits sigaction at the read and the write of the array and follows
call_once (`RegisterBegin` to `RegisterEnd`); `Fault` and `GetHandler` are the exception handler, before
and after it has the spinlock. `ResourceLimits` splits prlimit in the same manner.

## 3. What is checked

| Run | Properties | What it shows |
|---|---|---|
| `sock_stream` | RefcountsExact, ImplementsStream, NoLostWakeup, NoLeak, EventsCoherent | three threads on three sockets of one connection, which may also be dropped from the backlog |
| `sock_all` | ReceiverReturns | liveness of receivers, with polling, a dropped backlog and a full socks array as well |
| `listen` | PortsUnique, TargetAlive, EstablishedOnce, NothingLeftBehind, AcceptNotMissed, CallsReturn | two listeners that compete for a port, two connections, sleeping acceptors; connect and close return |
| `threads_enclave` | RunOnce, DeletedLast | the enclave's side alone, with three threads; ocalls fail before and after another thread has taken their object |
| `threads` | NotCanceledInEnclave, NoneOutlives, AssignedBeforeJoined, CreatorServed, JoinAtExitReturns, CancelReturnsOrCycle | enclave and host together while the enclave is joined, terminated or the process exits; Main and two workers can be creators at once |
| `futex` | ListExact, NoLostWakeup, NoMissedChange, ImplementsFutex, WaitReturns | waits on two words against changes, wakes, a requeue, a timeout and a cancelation |
| `file_systems` | HandlesExact, ReadOnlyUntouched, UsedWhileAlive, PreadPastEnd (custom); SizeRecovered, NothingLost, Mapped (mmap) | two file systems that share no state, each explored by itself: two threads use files while the mount and its Memfs come and go and callbacks fail, also the fstat that pread falls back on; a writer and readers of one mapped file, with a crash between any two changes of it |
| `components` | TypeOK, ImplementsFifo (ring buffer); BitmapExact, SearchExact (heap); TimeRight; ActionsChained, FaultFindsHandler; HardLimitKept | five components that share no state, each explored by itself |

A `TypeOK` that no run lists documents the state's types; the ring buffer's is checked and proved.

Four runs find a statement of the source violated; `PROJECT.json` quotes each under "findings".

- `sock_add` (AddCompletes): `_connection_add` takes the connection's spinlock and then a buffer's
  mutex; recv and send take them in the opposite order. dup() or accept() can deadlock with them.
- `sock_poll` (PollerSeesData): `_sock_get_host_fd` calls `_update_events` without the buffer's mutex.
  It may clear the eventfd that a sender has just signaled; the poller sleeps although there is data.
- `threads_cancel` (CancelReturns): create_thread polls `mutex_` to remain cancelable, but a second
  creator waits for `destructor_mutex_`, which the first holds, without being cancelable. If
  cancel_all_threads joins the second first, nothing moves.
- `threads_release` (ReleasedAfterJoin): a thread takes the first object of the queue, not that of its
  creator. If the other creator's ocall then fails, `_thread_create` deletes its object all the same
  (`pthread.cpp:56`), and the thread runs on without it.

The positive properties are stated around these: `ReceiverReturns` allows for the lock cycle of
`sock_add`, `CancelReturnsOrCycle` for the cycle of `threads_cancel`; each names the exact state.
`DeletedLast` names, object by object, the two ways in which an `oe_new_thread_t` can be used after
deletion: its own creator's ocall has failed after another thread took it (`robbed`), or its thread
has detached itself before its creator has woken up. A failure whose object was still in the queue, or
one of another object, excuses nothing. In the same terms `CreatorServed` counts the queue: it is longer
than it should be by exactly the objects that were `robbed` or left by a canceled creator (`orphaned`).

Other weaknesses are visible in the models without a run of their own.
- `_connection_remove` wakes the receivers of the other side, but not its senders, which sleep on the
  condition variable of the closed side (`internalsock.c:317`): `CloseNotify`.
- The close of a listener with a connection that nobody has accepted and whose client is open clears
  `con` and then unlocks `con->lock` (`internalsock.c:566`): `DropBacklog` and `CloseDrain` end the
  program there.
- A futex waiter that times out while a wake takes it off the list returns ETIMEDOUT, and the wake-up
  is used up (`ertfutex.c:212`): `Back`.
- A wake of everyone takes 128 threads at most (`ertfutex.c:237`): if more wait on a word, the others
  sleep on although it has changed. `NoMissedChange` holds only while that cannot happen.
- The properties of `MmapFile` exclude states in which the tag is not where it belongs, each by name:
  - `"empty" \in misplaced`: the extension of an empty file takes its region to be empty, too
    (`mmapfs.cpp:149`), and copies the first cell of the file in place of the tag, so a crash
    before the next proper close leaves a file of which the whole length counts as data;
  - `"truncate" \in misplaced`: ftruncate to another chunk stores the size where there is no tag, or behind
    the mapping (`hostfsmmap.c:45`);
  - `torn`: the process ended after a ftruncate and before the tag was written; the file is then
    longer than its data until it is next written;
  - `ClosedInHole`: tags that extensions leave behind stay in holes of the file, and an open takes
    one at the very end for the tag;
  - `stale`: a reader whose size is out of date because the writer has shortened the file.
  What the program has written is intact in all of these: `NothingLost` does not exclude them where
  it speaks of data.
- Of the custom file systems: `_fs_umount2` looks neither at open files nor at calls under way, so that
  the device is freed in use (`customfs.c:300`) and a call may miss the read-only flag (`:256`);
  `~Memfs` does not look at mounts (`memfs.cpp:59`). `busy` marks these, and `UsedWhileAlive` and
  `ReadOnlyUntouched` say that there is no other way. O_CREAT and O_TRUNC with O_RDONLY pass the
  read-only check (`customfs.c:322`). A temporary handle that fails to close stays open for ever
  (`:816`, `:986`): `lost`. All callbacks run under one spinlock (`:70`), so one that itself uses a
  file of any custom file system waits for itself; the callbacks of the model do not.
- If the registration of the exception handler fails, sigaction reports nothing and no later one tries
  again (`signal.cpp:34`); `FaultFindsHandler` excepts it. sigaction and prlimit copy from and to the
  caller's memory with the spinlock held (`signal_manager.cpp:66`, `resource.cpp:79`).
- `_init` rounds the bitmap's size down to bytes before it rounds up to pages (`mman.c:33`). In a heap of fewer than
  8 pages, and in some of a few pages more than a multiple of 32768, the last bits lie in memory that is
  handed out, where the program, mmap and madvise overwrite them: such a page may be handed out twice, or not
  at all. `BitmapExact` speaks of the pages whose bits are in the bitmap's own pages, and `FitExact`
  (section 4) says for which sizes these are all.
- A pread behind the end fails with EINVAL if the callback has refused it and the fstat that is to find
  out why fails, too (`customfs.c:630`): `PreadPastEnd` excepts it.

### Bounds

- components, ring: 4 bytes, requests of 0 to 5, so that a request may be empty, wrap, or exceed the buffer. The
  proof below has no bound.
- sock_stream: 3 threads, 2 client and 1 server sockets, a buffer of 1 byte and sends of up to 2, so
  that a send is split and waits; a receiver, a sender and a closer can be inside at once.
  `sock_all` gives up a socket and a thread for polling and liveness, and has an array of one
  entry, which dup() overflows.
- listen: 3 threads, 2 listeners that bind one port, so that only one is bound at a time, 2
  connections, a backlog of 2 (of which the ring buffer takes both), one polled listener. Two
  acceptors sleep while two connections arrive, and a closer comes between.
- threads_enclave, threads_release: 3 workers and 3 objects, so two creators and two entering threads
  overlap. threads: 2 workers and 4 objects beside Main. Two objects are for the creation of the workers
  and two are left, so that both workers, or Main and a worker, are in create_thread at the same time and
  the queue holds objects of several creators; the cycle that CancelReturnsOrCycle names is reached.
  An object is left by a canceled creator in this run; one that is taken before its own creator's ocall
  fails needs a third worker, and threads_enclave has it.
  Worker names are not reused, so that a third creation gets as far as polling for `mutex_` and is then
  either canceled there or polls on; the creations before it succeed or fail. Objects are not reused
  either, and new ones are taken in a fixed order, because they differ only in their names.
- futex: 3 threads; t1 waits with a timeout, t2 may be canceled, t3 changes, wakes, requeues and
  cancels. `MaxWake` (128 in the code) is 2, no less than the number of waiters, as `NoMissedChange` needs. Counters and the
  list are bounded by the threads; no constraint cuts the state space off.

- file_systems, mmap: a chunk of 2 cells, offsets and files up to 4 cells, which is two regions, so that a file is
  extended from one to the next and from nothing; writes of 0 to 2 cells of two different
  bytes, so that a write may straddle a chunk. Two descriptors, of which one at a time may write.
- file_systems, custom: 2 threads, 1 clone, 2 files and 3 handles, so that each thread can have a file or copy one
  while the other has a temporary handle; a file of 0 or 1 bytes; one failed close of a temporary
  handle. A clone is not used again after its release: the next mount makes another.
- components, clock: 2 threads, 2 ticks per second, times 0 to 2 and 2 updates, so that a read is
  overtaken by an update, the seconds change or only the rest, and the clock is set back. signals: 3
  actions on 2 signals, so that two exchanges race over a third action. limits: 0 to 2, so that a
  limit is lowered twice.
- components, heap: words and bytes of 3 bits, pages of 2 bytes, and heaps of 2, 6, 7, 8, 9 and 11 pages. Their
  bitmaps have up to three words, the last one full or not, on one page or two; that of 8 pages has its last word in
  memory that is handed out, and that of 2 pages the whole of it. All ranges are tried in every state, so every
  pair of word boundaries is met; a longer bitmap adds only more full words.

`CHECK_DEADLOCK FALSE` stands where the system may stop: all sockets closed, the process exited,
the program aborted, or every thread asleep because nobody is obliged to send, connect or create.

Symmetry is used only with safety properties, over threads, descriptors and written bytes that the
specification never tells apart.

### Fairness

- SockConnection: weak fairness of the steps that need no lock; strong fairness of those that wait
  for a lock, because Open Enclave's mutexes queue their waiters and a spinlock is held for
  instructions only. No thread is obliged to make a call.
- SockListener: weak fairness of the steps of a call that has begun. Only the one closer of a listener
  keeps its mutex over several steps. Nobody is obliged to connect or close.
- EnclaveThreadManager and ThreadSystem: a thread that can run does; the creators' try_lock succeeds
  eventually if the mutex keeps being released; a thread in the enclave makes an ocall now and then
  or ends, which is what the comment of cancel_all_threads asks of programs. Main in an atexit function
  goes on when its join can return; whether it can is up to the code.
- ErtFutex: weak fairness of each step of a thread that has begun a call; a timeout expires.

## 4. What is proved

All proofs are checked by TLAPS; they hold for every value of the constants that satisfies the
named assumptions.

`ComponentsProofs`, ring buffer (assumptions: the capacity is a positive natural number, request sizes
are natural numbers, zero is a byte)
- `TypeCorrect`: the indices stay in the array and `_full` implies front = back. The invariant is
  inductive on its own; the steps are the chunk lemmas, one per chunk of a read and a write.
- `Refinement`: `Spec` implies `BoundedFifo!Spec`. The work is in two lemmas: the contents after a
  chunk has been read are the old contents without a prefix, and after a chunk has been written
  the old contents with a suffix, across the wrap; two chunks then compose.

`ListProofs` (no assumptions)
- `FilterKeeps`: what `Filter` leaves of a list are the entries that were not to be removed, each
  once and in their order. It is an induction over the length of the list, which the prover cannot
  take from the library because it cannot instantiate a predicate; the lemmas use the least element
  of a set of natural numbers instead (`InductionOverSet`). The proofs about the list of the host's
  threads and that of the futex rest on it.

`EnclaveThreadsProofs` (assumptions: Main, the workers and None are distinct, None is not a pthread). The
lemmas speak of `ProcessNext`, which allows two steps more than `EnclaveThreads` alone: an ocall may
return true although the host has started no thread, and a join may end early. `Process...` are the
theorems of those steps; the following two restrict them to `EnclaveThreads`.
- `EachRunOnce`: RunOnce. No object is in the queue twice, and what a thread runs has left the queue and is
  run by no other; pthread_create returns an object only after a thread has taken it (`RunInv`). That
  an entering thread finds an object is a matter of numbers: the queue is no shorter than the threads on
  their way and the ocalls that may still start one are many (`Enough`), because an ocall that fails
  starts no thread and takes at most its own object.
- `FreedLast`: DeletedLast, object by object, from who may still touch it. An object that its creator has not
  deleted under another thread and whose thread has not detached itself is deleted by the thread that ran
  it, after it has been joined or detached, or by its creator while nobody has taken it (`Fate`); a
  creator has its object to itself until pthread_create returns, and a join or detach claims it once
  (`Call`, `Apart`). So whoever could touch it is done with it (`FateInv`).

`ThreadSystemProofs` (the same assumptions)
- `ImplementsThreadManager`: ThreadSystem implies EnclaveThreadManager's specification: each step is a
  step of the manager or leaves it alone. The invariant needed is that Main's ocall of
  pthread_create is under way only while Main may create threads. Properties of the manager alone
  are proved as lemmas and carried over:
- `SystemNeverCanceledInEnclave`. NotCanceledInEnclave is not inductive: nothing in it says why the thread
  that Main is about to cancel will stay outside. `CancelInv` adds that a thread with Cancelable
  set is outside; that between `CancelMark` and `CancelSend` the thread at Main's position has
  Canceling set and is outside, from where `set_cancelable` will not let it return; that the list does
  not change meanwhile, because Main owns `mutex_`; and that a thread which is being started is new,
  because its creator owns `destructor_mutex_`.
- `SystemNoneOutlives` (NoneOutlives) and `SystemAssignedBeforeJoined` (AssignedBeforeJoined). A thread that
  is alive is in the list; what Main has gone past has ended; the thread under construction is the last of
  the list, and its creator is before it (`ListInv`). So Main reaches it only after it has joined the
  creator, unless create_thread has failed and left its entry behind.
- `ImplementsEnclaveThreads`: each step of the system is, seen from the enclave, one of `ProcessNext` or
  leaves the enclave alone. So what is proved of the enclave under any host carries over:
  `SystemRunsOnce` (RunOnce), `SystemFreesLast` (DeletedLast) and, with both refinements, `SystemTypes`.
  No run lists RunOnce and DeletedLast for the composed system: `threads_enclave` checks them on the
  enclave's part alone, where more threads fit.
- `CreatorsServed`: CreatorServed. Undisturbed on the host, there are exactly as many queued objects as
  entering threads and ocalls under way, and one more for each object that was robbed or orphaned
  (`Served`), because each step adds or removes as much on both sides. That a thread enters only with an
  object for it, and that a robbed object was in the queue no more, comes from `ImplementsEnclaveThreads`.

`ErtFutexProofs` (assumptions: the threads are finitely many, None is not a word, MaxWake is positive)
- `FutexTypes`, `WaitersListed`, `WokenAwake`: TypeOK, ListExact and NoLostWakeup. NoLostWakeup speaks of
  sleepers only, so that a wake-up could get lost on the way to the sleep. `FutexInv` follows it: until a
  waker that has popped a thread has counted its wake-up, the thread is `Owed` it; from then on the thread's
  counter shows it, at least 1 before the decrement and 0 afterwards (`Paid`); and whoever has counted
  for a sleeper is about to call FUTEX_WAKE (`Roused`). Wake-ups that earlier waits have left in the
  counter only make it greater, which is why the inequalities hold.
- `ChangesSeen`: NoMissedChange, under the hypothesis `RoomForAll` that no more threads wait than MaxWake.
  The hypothesis is the code's: beyond 128 waiters the property fails (section 3).
- `FutexImplemented`: ImplementsFutex. A wake maps to a choice among those on its word because the entries
  of a list without repetitions are as many as their threads, and those that a wake leaves are mapped to
  the word it moves them to. Each other step maps to a step of one thread or to a stutter.

`SockConnectionProofs` (assumptions: the sockets are finitely many, a socket belongs
to one side, None is not a thread, the sizes are natural numbers, and those of buffers and of recv
requests are positive)
- `CountsExact`: RefcountsExact. It is not inductive: nothing in it says that a closer still
  has a socket to subtract, or that a count that has reached 0 stays there. `CountInv` adds that a
  socket in use is open (`UsedIsOpen`); that each closing socket has one closer (`ClosedOnce`); that at
  most one thread is accepting, and the server has no socket until it has (`AcceptedOnce`); that a
  freed connection has no socket and will get none (`FreedIsDead`); and that what a closer found out
  under the spinlock still holds when it acts on it under the mutex (`CloserKnows`), because a
  dead side stays dead. Most steps are `Quiet`: one lemma shows that they change neither counts nor
  sockets, another that such steps keep the invariant. Six lemmas remain, one per step that does.
- `TypeCorrect`: no count gets negative, no buffer exceeds its capacity. The first needs
  `CountInv`.
- `NothingLeaks`: NoLeak. CountInv alone lets everybody forget the connection. What is added is that
  someone is responsible for it as long as it is not freed: a socket that is open, a server that waits
  in the backlog, or a closer who has seen the last one go and has still to free it. The
  step that matters is the one at which a closer decides that it is not the last: then the other side's
  count is positive, and by CountInv that is a socket or the backlog.
- `StreamImplemented`: ImplementsStream, from `CountInv` and `StreamInv`: a thread inside a buffer
  holds its mutex, and between a receiver's two looks its buffer stays empty, because
  senders need the mutex that the receiver holds (`BufferUse`); end of file is final.
  A sender's own socket is open, so its side's count is positive and the other side has not been told
  end of file; so `SendWrite` is a `Transmit`. dup() and accept() are stutters, because neither makes a
  count positive that was 0.
- `EofFinal`: the part of it about recv returning 0, as an invariant.
- `WakeupsKept`: NoLostWakeup. The invariant (`Attended`) gives each sleeper a reason to sleep: a
  receiver an empty buffer and a peer that is open or a closer that will notify, a sender a full
  buffer. Whoever changes a buffer wakes all who sleep on it (`ChangesRouse`), and whoever goes to sleep
  looks under the same mutex (`AsleepForAReason`).
- `EventfdsCoherent`: EventsCoherent, if no call is a poll (`"poll" \notin Calls`; a socket may have been
  polled before it was connected). The hypothesis is the code's: `_sock_get_host_fd` brings a new eventfd
  in line without the buffer's mutex, and run `sock_poll` shows what comes of that.

`SockListenerProofs` (assumptions: None is not a thread, ports are positive, backlog arguments are
integers)
- `UniquePorts`, `ConnectSafe`, `DrainComplete`, `ListenerTypes`: PortsUnique, TargetAlive,
  NothingLeftBehind and TypeOK, from one invariant. A connect that has found a listener
  owns `_lock` and the listener is on the list (`InCall`); what is on the list is bound
  (`ListedAreBound`); so close, which needs `_lock` to take it off the list, cannot begin, and the
  connection goes into the backlog of a listener that is alive. A backlog without a buffer, or of a
  freed listener, is empty (`EmptyQueues`). `OthersKeep` says once what a step must respect for the
  other threads' calls.
- `PlacedOnce`: EstablishedOnce. The invariant adds that no connection has two places in the backlogs,
  that those with a place are the queued ones (`PlacesInv`), and that the one a connect is about to
  enqueue is new, because connects exclude each other by `_lock` (`CallingIsNew`). A step lets one
  connection enter, lets the oldest of a backlog leave, or changes a client's end only (`StepEffects`).

- `NoConnectionMissed`: AcceptNotMissed. A sleeper's backlog is counted against the acceptors that have
  been woken: an enqueue adds one connection and, if anyone sleeps, wakes one.

`FileSystemsProofs`, custom file systems (assumptions: None is no device, file, handle or thread; the bounds are natural numbers). Each
action is first restated by its effect on a call's fields (`Moves`), then each invariant looks at those.
- `AliveUse`: UsedWhileAlive. Unless something was removed while in use, everything that a call or an
  open file refers to is mounted, and what is mounted is a clone of a file system that is loaded
  (`MountsLive`). It rests on the types of calls and files, on who holds the lock, and on the
  ownership of files by the calls that create or close them (`FilesOwned`).
- `ReadOnlyKept`: ReadOnlyUntouched. A clone's flag stays with it while it is mounted, and no call that
  changes the file system, nor a file to write to, gets past it (`FlagsHeeded`).
- `HandlesKept`: HandlesExact. No two of the open files and the calls under way share a handle
  (`HeldOnce`); since the sets are finite, the cardinalities add up.
- `PreadEndSeen`: PreadPastEnd. A pread that keeps the EINVAL of its callback has found, under the lock, a
  size that the offset is not behind, or its fstat has failed.

`FileSystemsProofs`, mmap file system (assumptions: 0 is not a byte of the program's, because it stands
for a hole; a chunk is positive, the other bounds are natural numbers). One invariant, `FileInv`,
carries the three properties. SizeRecovered is far from inductive: it says nothing of the file while it is
being extended, nor of old tags.
- `Descriptors`: there is one writer, only it is between two steps of a call, and a reader that is not
  stale knows no more than there is.
- `RegionOf`: the writer's file and mapping are whole chunks and one more cell, which is where the tag of
  the size belongs that it is about to store; from there what each store may touch follows.
- `Stored`: what the program has written is in the file, cell by cell. A store of a tag would break it,
  but that tag goes behind the data.
- `InnerTags`, `EndTag`: tags that extensions have left behind are at home, that is, where a writer whose
  file has that size keeps its tag; the exception is one that an extension has just copied to the
  end (`Copied`). So an old tag that becomes the last cell is read only if it tells the truth.
- `PlacedOf`: unless the tag has been misplaced, it is the last cell and has the writer's size whenever no
  call is under way, and during an extension it is in the old place, or in both.
- `Found`: what the last writer has left is found by the next open.

The lengths after ftruncate and the extension are rounded to chunks; that rounding up reaches the
size and never passes the next chunk is stated once and used by every step (`Reach` and the lemmas on
`Round` and `RegionSize`).
- `SizesRecovered`, `WritesKept`, `MappingsReach`: SizeRecovered, NothingLost, Mapped. `MmapFileTypes` is
  the type invariant. The states that the properties exclude are the ones in section 3, by name.

`ComponentsProofs`, system calls (assumptions: the initial limits are in order; SIGSEGV is a signal; a second has
a positive number of ticks; None is not a time). The three modules have a next-state relation each, and no
variable in common, so that a theorem names its module's initial predicate, steps and variables.
- `HardLimitsOnlyLowered`: HardLimitKept, because a thread that has compared the limits owns the
  spinlock until it has set them.
- `ActionsChain`: ActionsChained. An action that sigaction has been given is in no place of the array and
  belongs to one call; once in the array it has one place (`ActionsOnce`), and who is between the read and
  the write owns the spinlock and has read what is still there (`Exchanges`).
- `FaultsFindHandler`: FaultFindsHandler. Who has returned from installing an action has left call_once, so
  that the handler is registered or has failed to be; no action is ever taken out of the array.
- `TimesRight`: TimeRight. What a reader has of a timestamp is of the last update, unless `seq` has moved
  on since it read it (`Fits`); while the kernel writes, `seq` is odd (`KernelInv`); hence an even and
  unchanged `seq` means that seconds and rest belong together. lastMonotonic is the greatest
  time returned, and every call's floor is below it.

`ComponentsProofs`, heap (assumptions: a word has bits, heaps have a positive number of pages, and so have
bytes of bits and pages of bytes)
- `RangeMaskExact`, `NextBitExact` and `UnsetRangeExact` say what the functions of bitset.c compute, for any
  word size: the masks of the first, the full and the last words of a range cover exactly the bits of the range;
  `_find_next_bit` returns the first bit of its kind at or behind the position, or the size; and going on
  behind the bit that ends a range that is too short passes over no range that is long enough. The loops are
  recursive functions over the words; the last theorem is by descent on the position, with the least
  element of a set of natural numbers in place of an induction.
- `HeapExact`: BitmapExact, of any heap. The invariant (`HeapInv`) says that the words have a bit for each page, and
  that a bit in the bitmap's own pages is set exactly if its page is in a mapping, and in one only. No word with such
  a bit lies in a page that is handed out (`WordsApart`), so no memset or store reaches it.
- `FitExact`: with q and r the quotient and the remainder of the number of pages by the bits of a page, the
  pages reserved for the bitmap hold a bit for each page unless q < r < `CharBit`. The code does not check this.
- `SearchesExact`: SearchExact, of any heap and whatever the program has written to the bitmap, from the
  theorems above.

Only model-checked:
- Everything about progress: ReceiverReturns, CallsReturn, CancelReturnsOrCycle, JoinAtExitReturns and
  WaitReturns.
  The prover handles neither fairness nor ENABLED. All other properties of the runs that pass are proved.
- The types of CustomFs, Clock, SignalManager and ResourceLimits are part of the invariants
  proved, under a name of the proof module, and not a theorem of its own.
- The violations of section 3 are counterexamples that TLC finds.

## 5. Plan

Done, in this order because the sockets and threads carry most of the concurrency: ring buffer,
connections, listeners, threads (enclave, host, composition), futex, mmap file system, heap, custom
file systems, clock, signals, resource limits.

Next
1. Composition of SockListener and SockConnection at accept(), and of ErtFutex with the
   cancelation of ThreadSystem.
2. The second writer of a file in `MmapFile`.

Theorems: the safety properties are done. What remains is what TLC finds out about new compositions, and
the liveness properties with a prover that handles fairness.

## 6. Not modelled, and why

- setsockopt, getsockname, getpeername and shutdown of internal sockets change no state of theirs.
- Return values, errno and addresses; a call that fails its argument checks does nothing.
- Memory allocation failures, which abort or return ENOMEM before any state has changed.
- The host is as the code expects it: it runs what the ocalls ask for. An ocall may fail where the
  code handles that.
- Time: a timeout may expire at any moment. That a wait is restarted with the same relative timeout
  after a stale wake-up can make it longer than asked for; the model does not measure it.
- The condition variables of Open Enclave inside `oe_new_thread_t` and the sockets (`oe_cond_wait`,
  `oe_cond_signal`): modelled from their use, as monitors and as sets of sleepers without spurious
  wake-ups.
- sigaltstack sets fields of the calling thread's own data, sched_getaffinity computes a value from
  constants, clock_getres returns one. The registers that the exception handler copies are left out.
- eventfd.c forwards each call to a host descriptor; its use by the sockets is in SockConnection.
- Arguments (`args.c`) run once, before any thread exists. Dispatch tables (`syscall.cpp`,
  `syscalls.c`), tracing (`ocall_tracer.cpp`) and the command line tools (`tools`, `oesign`,
  `meshpremain`) are single calls, counters for a report, or input and output, with no state whose
  order of changes matters to the program.
- Paths, buffers and counts of file operations; directories and links of the custom file systems.
