# A TLA+ model of the Hurd's ports, auth server, record locks, pipes and pagers

The repository is a tree of the GNU Hurd: servers and libraries in C on top of
the Mach microkernel, with a number of experimental ("cognitive") additions in
Scheme and C around them. Every Hurd server is built on **libports**: it owns
the port objects, the threads that serve them, the RPCs in progress, and the
references that keep objects alive. The **auth server** is the smallest server
with a protocol of its own, and the one every other server trusts. Three
libraries on top of libports carry the file systems and local sockets:
**libfshelp** with its record locks, **libpipe** with the pipes of pflocal and
fifos, and **libpager** with the threads that serve the kernel's page faults.

    libports/manage-multithread.c   ServiceThreads   who listens for requests
                                    ServiceLoop      ... what it shares with ThreadPool
    libports/port-deref-deferred.c  ThreadPool       when a destroyed port's reference goes
                                    GracePeriod      ... what that promises
    libports/begin-rpc.c ...        PortRpc          RPCs: begin, end, interrupt, inhibit
    libports/interrupt-on-notify.c  PortNotify       RPCs interrupted when a port dies
    libports/no-senders.c ...       PortLife         references, send rights, deallocation
    auth/auth.c (transactions)      AuthRendezvous   reauthentication
    auth/auth.c (makeauth)          AuthHandles      authority of handles
    libfshelp/rlock-tweak.c         RecordLock       locked regions of a file
                                    RangeLock        ... what they promise
    libpipe/pipe.c, pipe.h          Pipe             readers, writers and selects of a pipe
    libpager/demuxer.c              PagerWorkers     the pool that serves paging requests
                                    SerialObjects    ... what it promises

## 1. Inventory

### libports

*State.* `struct port_info` (receive right, class, bucket, hard and weak
references, make-send count, flags, list of RPCs, cancel threshold), `struct
port_class` and `struct port_bucket` (flags, counters of RPCs and ports, the
bucket's port set and thread pool), `_ports_total_rpcs`, `_ports_flags`,
`_ports_htable`, `_ports_notifications`, the list of interrupted RPCs; the
locks `_ports_lock`, `_ports_htable_lock`, one spin lock per thread pool, one
lock per `ports_notify`, and the condition `_ports_block`.

*Operations.* Creation and destruction of port objects and rights; looking an
object up by name or by payload; taking and dropping references; the service
loops; begin and end of an RPC; interruption by `interrupt_operation`, by
`ports_interrupt_rpcs` and by a notification; inhibition and resumption of RPCs
on a port, a class, a bucket or everything; notifications from the kernel.

*Interaction.* A service thread receives a message (`mach_msg`), finds the port
object, begins an RPC, runs the server's demuxer and handler, ends the RPC,
drops the reference and tells the thread pool that it is quiescent. Handlers
call any operation, on their own port or on others, and may block.

*What is hard.* Two steps of the loop are not protected by any lock: between
receiving a message and taking a reference (ThreadPool, PortLife), and between
receiving a message and `ports_begin_rpc` (the cancel threshold in PortRpc).
Cancellation is asynchronous, sticky and per thread, not per RPC. The counters
of the service loop are lock-free. Notifications come late and more than once.

*What makes it correct.* No object is used after its reference was dropped; no
reference is forgotten; somebody always listens; an inhibited scope really has
no other RPC in progress; an interrupt reaches the RPC it is meant for and no
other; whoever sleeps is woken.

### auth

*State.* Handles (`struct authhandle`: four vectors of ids), two hash tables of
pending users and servers, keyed by the rendezvous port, with records on the
stacks of the RPCs, protected by `pending_lock`.

*Operations.* `auth_makeauth`, `auth_getids`, `auth_user_authenticate`,
`auth_server_authenticate`, `auth_server_authenticate_reply` (sent).

*What is hard.* The two halves of a transaction come in either order, either
may be interrupted at any time, the rendezvous port may die, and the lock is
dropped while the ids are transmitted.

*What makes it correct.* Both halves complete and the user gets the server's
port; no record outlives its frame; no client gains an id nobody gave it.

### libfshelp: record locks

*State.* Per open file a list of locked regions (start, length with 0 for "to the
end of the file", type) sorted by start, per file the list of all of them, per
region a condition variable. *Operations.* `fshelp_rlock_tweak` (lock, try,
unlock, ask), `fshelp_rlock_drop_peropen`; the caller holds the node's mutex.
*What is hard.* `merge_in` and `unlock_region` distinguish a dozen cases of how
two ranges lie, each with an allocation that may fail in the middle of the
loop; a caller that waits sleeps on the condition of one region, and that region
may be cut, merged or freed. *What makes it correct.* Byte for byte, the lists
mean what the callers asked for; two open files never hold conflicting locks;
nobody sleeps on a region that is gone.

### libpipe, pflocal and fifos

*State.* A queue of data and control packets, counters of readers and writers
(open ends and, for sockets, threads inside), the flag PIPE_BROKEN, four conditions.
*Operations.* `pipe_send`, `pipe_recv`, `pipe_select_*`, adding and removing
ends. *What is hard.* The lock is dropped inside a write and a read, to let
sleeping readers or writers go before the selects; a write that does not fit is
split, or waits with its control packet already queued; ends are closed and
reopened while threads sleep. *What makes it correct.* No wake-up is lost, the
pipe is broken exactly when a side is missing (but for a fifo that waits for its
first partner), it is freed by the last user, and a control packet has its data
packet.

### libpager: worker threads

*State.* The shared queue of requests (two queues while inhibited), per worker a
tag and a queue of its own, the count of sleeping workers. *Operations.*
`pager_demuxer`, the worker loop, `pager_inhibit_workers`,
`pager_resume_workers`. *What is hard.* A request is handed to the worker that
has claimed its object, at any point of that worker's loop; the inhibitor counts
sleeping workers while signals are on their way. *What makes it correct.*
Requests to one object are served one at a time and in order, none is
forgotten, inhibition returns and the pool is then really quiet.

### The rest of the system

`PROJECT.json` lists the other components: libpager's pages, proc, libihash and
lib9p are candidates for later modules (section 2). The file systems, network
stacks, terminals, consoles, command-line programs, the boot sequence, the
cognitive additions and vendored code are left out (section 8).

## 2. Plan

1. *Done:* ThreadPool with GracePeriod; ServiceThreads; PortRpc; PortNotify;
   PortLife; AuthRendezvous; AuthHandles; RecordLock with RangeLock; Pipe;
   PagerWorkers with SerialObjects.
2. *Next, libports:* the operations that move a receive right (reallocate,
   import, transfer), the NO_ALLOC flags and counts of classes and buckets, as an extension of PortLife.
3. *Next, libraries:* `pipe_pair_select` on two pipes and pflocal's connection
   queue, composed with Pipe; page states and lock requests of libpager, below
   PagerWorkers; libihash as operators checked against a function.
4. *Then, servers:* parentage and wait in proc; tags and fids of lib9p.
5. *Proofs:* done for every safety property of the runs: the invariants of
   ThreadPool, ServiceThreads, PortRpc, PortNotify, PortLife, both models of
   auth, Pipe, PagerWorkers and RecordLock, and the three refinements
   (ThreadPool of GracePeriod, PagerWorkers of SerialObjects, RecordLock of
   RangeLock). A new module of items 2 to 4 gets its proof with it.

An abstract specification is stated where a component hides a mechanism: the
grace period of the thread pool, locks of bytes for the lists of regions,
queues per object for the pool of workers.

## 3. Modules and the code

In every module an action is one critical section of the code, one atomic
operation on a lock-free variable, or one call into the kernel; between two
actions any other thread may run. Names follow the C source without its
prefixes (`ports_`, `_ports_`, `S_auth_`). Constants that bound the model are
named `Max...`; the ones that switch a hazard on (`EarlyDestroy`,
`ForeignCancel`, `Gone`, `CreateFails`, `MayFail`, `WithGap`, `RecordControl`) say which environment is
assumed. Definitions marked *history* are not in the code; they record what a
property needs to remember.

**ThreadPool** (`port-deref-deferred.c`, called from `manage-multithread.c` and
`destroy-right.c`). Variables are the fields of `struct ports_threadpool`, the
colour of each thread, the payload it has dequeued, its local free list, and
what has become of each object's reference. `quiescent` is
`_ports_thread_quiescent` up to the unlock, `free_one` one turn of the loop that
follows. A failed `assert_backtrace` sets `aborted` and stops the model.
**GracePeriod** says what this is for: threads join, obtain payloads, quiesce
and leave; a deferred object may be released when all the threads that were
running at its deferral have quiesced. ThreadPool implements it with
`running <- Online`.

**ServiceThreads** (`internal_demuxer`, `thread_function`) looks at the same
threads from the side of the counters; **ServiceLoop** declares what the two
models share: the threads, the master, and where each is in the loop. Each atomic add and
subtract is a step. Handlers are opaque and may never return.

**PortRpc** (`begin-rpc.c`, `end-rpc.c`, `interrupted.c`, `interrupt-*.c`,
`inhibit-*.c`, `resume-*.c`, `claim-right.c`, `destroy-right.c`). The four
flag words and counters are indexed by *scope* (a port, a class, a bucket, or
everything); the four files of each operation are one action on a scope. The
list of RPCs of a port is the set of threads that serve it. `waiters` are the
threads asleep on `_ports_block`; a broadcast empties it. `cancel` holds the
threads with a pending `hurd_thread_cancel`; an interruptible wait consumes it.

**PortNotify** (`interrupt-on-notify.c`, `interrupt-notified-rpcs.c`). One
`ports_notify` per port; `registered` and `messages` are the kernel's side. A
requester decides to ask the kernel before it has `pn->lock` and waits for that
lock with `_ports_lock` held (place "lock"), so that a second one asks again
although the first has set `pn->pending` meanwhile.

**PortLife** (`get-right.c`, `no-senders.c`, `notify-no-senders.c`,
`lookup-port.c`, `ports.h`, `port-deref.c`, `port-deref-weak.c`,
`complete-deallocate.c`).
One port, of one of three kinds of class that Init chooses: "plain" has no
`dropweak` routine; "cached" is found by a weak reference in a table and taken out
of it unconditionally (ext2fs's pagers, pflocal's addresses); "identity" is taken
out only if nobody got a right in between (`libfshelp/get-identity.c`). `cached`
says whether the table refers to the port. `promised` are rights that
`ports_get_right` accounted for and whose `MAKE_SEND` has not happened; the
kernel's counts of send rights (a queued message holds one) and its make-send
count are modelled as Mach keeps them. Init also chooses whether messages carry
the object's address (`payloads`; the call at `create-internal.c:104` may fail):
the service loop then finds the object with `ports_lookup_payload`, which takes a
reference without the lock of the hash table as long as `pi->port_right` is valid,
and else with `ports_lookup_port`. `_ports_complete_deallocate` has three steps:
the second look at the references with the removal from the table (:28-48, under
the table's lock), the end of the receive right (:50-52), and the free (:55-67),
where a thread that has a reference may have an RPC and fail the assertion. Any
number of threads may be in it. `revived` records that a lookup gave the object a
reference when it had none, while the port was in the table or after that.

**AuthRendezvous** (`S_auth_user_authenticate`, `S_auth_server_authenticate`).
One user and one server per rendezvous port, as the protocol demands; both call
again after EINTR, as `libiohelp/iouser-reauth.c` and `exec/exec.c` do. The
server's RPC is split where the code drops `pending_lock`.

**AuthHandles** (`S_auth_makeauth`). Vectors of ids are sets; the mapping of a
null vector to the first handle's ids is an instance of the free choice of `h`.

**RecordLock** (`rlock-tweak.c`, `rlock.h`, `rlock-drop-peropen.c`). The
caller holds the node's mutex, so that a call is one step up to its sleep. The
loops of `unlock_region` and `merge_in` are folds over the caller's regions in
the order of their starts (a fold applies the region with the last start to what
the others gave; Canonical says that the starts differ, so that the set is the
sorted list); the fold's state is what the loop's variables hold (the rest of the
request, the regions behind it, the allocations left, error and assertions), and
each branch of the code is an operator with its condition beside it. `mem` is
the number of allocations that succeed, so that a call may fail at each of them;
calls that succeed are told apart by nothing else (`Memory`). A region's `wait`
are the threads on its condition. Offsets are small numbers and `Eof` stands for
everything beyond them. A caller may sleep on any conflicting region: new regions
are linked by start, but `box->locks` does not stay sorted when the start of a
region moves (`rlock-tweak.c:114`, `:249`, `:388`, `:412`). The history variable
`call` holds what the last call asked for and its answer; no guard reads it.
**RangeLock** is the specification: a mode per open file and byte; a lock is
granted if no other holds a conflicting one. Who asks, for which bytes and which
mode, and the answer, are part of every step (`call`): a call that succeeds puts
exactly its bytes in its mode; EAGAIN and a sleep require that another open file
holds a conflicting lock on one of the bytes; a lock without memory may lose
locks of the caller and get part of what it asked for; an unlock without memory
changes nothing. RecordLock implements it with `held <- ` what the regions
cover and its own `call`.

**Pipe** (`pipe.c`, `pipe.h`, `stream.c`, `seqpack.c`, `dgram.c`, as pflocal's
sockets and `trans/fifo.c` use them, which `fifo` tells apart). A step is what a thread does while it holds the pipe's
lock, from taking its reference or waking up to its sleep, its unlock in the
middle of a write or read (`wnote`, `rnote`), or the drop of its reference.
Bytes are counted, not kept; a packet is its type and size. `pipe` is the
`struct pipe`: the two counters, PIPE_BROKEN, and whether `pipe_free` was
called. `acquire` and `release` are the only operators that change it: they
count, break, unbreak and free; `bad_news` is whom the last reader or writer
wakes. In a socket's pipe `Step` acquires when a call comes in and releases when it
returns, at the end that `acquired_as` and `released_as` name (for a datagram
to an address this is the reading end, `socket.c:341` and `:354`), and
`open_end` and `close_end` do for the sockets that hold an end; in a fifo only
the opens have references. `Used` says who is really there, from `ends` and
`th`, so that FreedUnused and BrokenMatches compare the counters and flags with
the users. `Init` is `pipe_create` with its first user: a socket's stream or
sequenced-packet pipe is broken until the socket is connected, a fifo's is not
broken although it lacks one side (`fifo.c:162`, `:201`); `met` is history, and
says when that exception has ended. `may_open` is when `sock_connect` and
`open_hook` reach the pipe again. What `put` does with a large piece on a
stream (its own packet or not) depends on addresses and is a choice; `consume`
drops the rest of a datagram only.

**PagerWorkers** (`demuxer.c`, `queue.h`). A step is what a thread does while
it holds `requests->lock`; in particular a worker that takes requests delegates
all it cannot claim before it sleeps or serves. The routine of a request is
opaque and returns. A request is its object and a kind, so that order within an
object can be seen. **SerialObjects** is the specification: a queue per object,
and at most one request of it being served. PagerWorkers implements it; the
queue of an object is that of the worker that claims it, then the shared ones.
`Init` is the pool after `pager_start_workers`: that the service thread and the
first workers already run while later ones are set up (`demuxer.c:355-366`) is
not modelled, and neither is its failure, which frees `requests` under them
(`:373-375`).

**MCPortRpc** gives PortRpc its classes; **MCRecordLock** gives RecordLock the
ranges that sleeping calls ask for, and its symmetry.

## 4. Runs

| run | checks | what it shows |
|---|---|---|
| threadpool | CountersMatch, NoStalePayload, NoAbort, GracePeriodSpec, DeferredIsReleased | The pool never drops a reference while a thread may hold the payload, its counters are exact, its assertion holds, and every deferred reference is dropped. |
| service_threads | ThreadsCounted, ListenerReady, RequestReceived | The lock-free counters never leave the server without a listener; requests are received even if no handler returns. |
| portrpc | CountersMatch, InhibitionHolds, NoStaleCancel, InterruptNotLost, SleepersFlagged, InhibitorsHaveCause, InhibitReturns | Begin, end, interrupt and inhibit in every order, with cancellation from outside and a port that goes away; no inhibition waits for ever. |
| portnotify | KernelArmed, CancelJustified, DeathInterrupts | RPCs that share a notification. |
| portlife | SendersHoldReference, FreedUnused, UnusedIsFreed | The no-senders protocol, and weak references that race with it. |
| auth | RecordsLive, NoMissedMeeting, RefsBalanced, TransactionCompletes | Reauthentication with failures. |
| auth_handles | AuthorityConfined | No sequence of `auth_makeauth` calls amplifies authority. |
| rlock | Exclusion, SleepersOnLive, NoAbort, Canonical, RangeLockSpec | The lists of regions are locks of bytes, whatever the order of calls and wherever memory runs out. |
| rlock_eof | Exclusion: **violated** | See section 7. |
| pipe | SleepersHaveCause, NoAbort, FreedUnused, BrokenMatches | Wake-ups, breaking and freeing of a pipe. |
| pipe_control | NoAbort: **violated** | See section 7. |
| pager | InhibitedQuiet, ClaimsUnique, SerialSpec, RequestServed, InhibitReturns | Order, service and inhibition of paging requests. |

### Bounds

- threadpool: three threads are an old one, a young one and one that comes or
  goes; two objects can be on different lists at the same time. An object is
  deferred once; threads come and go for ever.
- service_threads: the master and three more threads, two clients, so that a
  thread can be created, time out, leave and be created again while another
  handler blocks. Thread ids are a bound only in that a fifth thread waits for
  one of them to end.
- portrpc: two threads are an inhibitor and an RPC that it waits for or that
  waits for it, or an interrupter and its victim. The scopes that are inhibited
  are the port that may go away, the bucket of both ports and everything, so that
  they contain each other; classes and buckets have the same code but for the
  counter. Two messages on that port (`MaxSeqno`) let an interrupt overtake a
  request and a thread serve a second message. Two threads are enough because the
  safety properties are proved for any number of threads and all scopes (section
  5). Deadlock is not checked: the inhibitors of section 7 that wait for ever are
  among the states, and InhibitReturns names them.
- portnotify: three RPCs so that one of two sharers may leave while a third
  comes; `MaxAsks` 2 because `req->pending` counts.
- portlife: three rights and three threads let the port lose its senders and
  regain one twice; a queued request can be dequeued by one thread while another
  handles the notification, and a third one finds the port in the table; with and
  without payloads. `stat`, a local variable of the handler, is cleared when it
  returns.
- auth: a transaction that may fail beside one that may not; three calls let a
  user be interrupted twice.
- auth_handles: one client, as clients only interact through handles that they
  send each other (`receive_handle` gives any handle); two uids, one gid.
- rlock: three bytes and the rest of the file give two ranges every way to lie
  (apart, touching, overlapping, nested, equal, to the end of the file), and an
  open file up to three regions; two open files and one thread that sleeps for
  the whole file or for a byte in the middle. Two allocations are all a call makes,
  and any number of calls may run out of memory. The VIEW leaves `call` out of the
  fingerprint: `Next` and the invariants do not read it, and TLC checks the steps
  of RangeLockSpec on every transition, also into a state seen before. The proofs have no bound on files, offsets, threads or memory.
  `WithGap` is FALSE here: it excludes the request of finding rlock_eof.
- pipe: `write_limit` 4 (16384 in the code) is the smallest in which writes of 1,
  3 and 5 bytes fit, fill up and are split; a reader, a writer and a thread that
  may do either; up to two open ends on each side (`MaxEnds`), closed and opened
  as often as sockets and fifos can; `size_large` 2 (8192 in the code) lets a piece
  of 3 or 4 bytes have its own packet.
  `RecordControl` is FALSE here: it excludes the send of finding pipe_control.
- pager: two workers (10 in the code), three objects so that a worker meets
  requests that it can claim and requests that it delegates, and three waiting
  requests. The safety properties are proved for any number.

### Fairness

- ThreadPool: weak fairness of each thread's steps in the loop. The receive has
  a timeout (ten seconds if none is set), so that a thread that hears nothing
  becomes quiescent; handlers are taken to return. If one never does, deferred
  references wait for it, by design.
- ServiceThreads: weak fairness of the loop, strong fairness of the delivery of
  a queued message to some listening thread; none for handlers.
- PortRpc: threads that can run do, and handlers resume what they inhibited and
  return; cancellation wakes an interruptible wait at once.
- PortNotify: calls into the kernel end, and notifications are served: weak
  fairness for a requester, strong fairness for the thread that serves the
  notification, as it needs `_ports_lock`, which requesters take again and again.
- PortLife: threads drop the references they hold and serve the queue, and a
  right that was promised is made.
- AuthRendezvous: clients make their calls; threads of the server run.
- PagerWorkers: weak fairness of every worker's loop (routines return), of the
  wake-up of the inhibitor, and of the resumption: ext2fs and fatfs call
  `pager_resume_workers` after each inhibition. RecordLock and Pipe have no
  liveness property: who holds a lock or reads a pipe is up to the users.

## 5. Proofs

Each `...Proofs` module extends the module it is about and proves its safety
for every value of the constants that the module's ASSUME allows. Each has an
inductive invariant `Inv`, a lemma per action (or group of actions that disturb
the same conjuncts), `Spec => []Inv`, and one theorem per property.

**ThreadPoolProofs** proves, for every finite set of threads and every set of
objects: `Spec => []Inv` (InvHolds) and from it TypeCorrect, CountersCorrect,
GraceOrderHolds, PayloadsLive; NeverAborts under `~EarlyDestroy`; and
ImplementsGracePeriod, that ThreadPool refines GracePeriod. The only assumptions
are those of `ThreadPoolAssumption`. The module also proves ServiceThreads (below).

None of the properties is inductive by itself. `Inv` adds:

- *ListsDisjoint*: a deferred object is on exactly one of the lists (old, young,
  one thread's free list), so that freeing it from one does not leave it on
  another;
- *HoldersAwaited*: a deferred object still waits (`grace`) for every thread that
  holds its payload. With GraceOrder (an object on a free list waits for nobody)
  this gives NoStalePayload;
- *ControlState*: only a thread in a handler has a payload, and the pool knows a
  thread exactly when it is online;
- *StartedFirst*: once the master is online an empty old generation has no
  objects, which is the assertion of `_ports_port_deref_deferred`. It needs that
  nothing is destroyed before the first thread is online.

The step proof has one lemma per action; the three actions that go through
`_ports_thread_quiescent` share QuiescentGenerations (what happens to the two
generations and their cardinalities) and QuiescentInv. The central case is the
last old thread: its departure makes the old generation empty, so that by
GraceOrder its objects wait for nobody, and all of the young generation becomes
old together with the objects that wait for it.

*The service threads* (second half of ThreadPoolProofs): ServiceCountersExact and
SomebodyListens, for any finite set of threads. ThreadsCounted is inductive once
the counters are written as numbers of threads in given places; CountsFollow does
all the steps at once, since each moves one thread and changes the counters by
what the move is worth. ListenerReady needs *LastOneCares*: when `nreqthreads`
is zero, a thread that made it zero is still between its subtraction and its
decision to stay or to create another. Of two threads that time out together
only one can be that one, and it sees the zero; the other one leaves with a
count above zero, which by ThreadsCounted stands for somebody else.
SomebodyListens is about runs in which `pthread_create` has not failed.

**PortRpcProofs**: TypeCorrect, CountersAlwaysMatch, InhibitionIsSafe,
CancelsEndWithRpc, InterruptedStaysInProgress, SleepersStayFlagged,
InterruptsReachAll, InhibitorsWaitForRpcs, for any threads, ports, classes and buckets, any scopes that
may be inhibited, ports that may go away and threads that foreign code may
cancel. The properties are proved together; `Inv` adds

- *Located*: a thread is on the list of a port exactly while it serves one of its
  messages past `ports_begin_rpc`, so that it serves at most one port, and the
  flag `this_one` of a sleeping inhibitor is true only if its own RPC is in the
  scope;
- *Thresholds*: a port's cancel threshold is raised before the sweep it stands
  for, which is what the check in `internal_demuxer` needs to find the RPCs
  that the sweep came too early for.

The central lemma is NothingPending: when the counter of a scope is at most one
and the caller's RPC is one of the scope's (or zero otherwise), CountersMatch
leaves no room for another RPC. InhibitorsHaveCause (no end of an RPC is missed
by the inhibitor that waits for it) is proved on top of `Inv` with *WaitInv*: a
sleeping inhibitor has its scope flagged INHIBIT_WAIT and something pending. The
step that matters is the end of an RPC (EndWaits), where the code must broadcast
if any of the four scopes has a waiter.

**PortNotifyProofs**: TypeCorrect, RequestsStayLive, KernelStaysArmed,
CancelsJustified. `Inv` adds *AskState* (whoever waits for or holds the lock of a
`ports_notify` has a request on its list, one thread holds it and one waits with
`_ports_lock`; while `pn->pending` is clear somebody is asking; it may be set
while another one still asks) and *KernelState* (a request that was made is
there until the port dies; notifications are about dead ports only).

**PortLifeProofs**: TypeCorrect, ReferencesAreCounted, SendersKeepObject,
FreedIsUnreferenced, for any finite set of threads, any number of rights and any
length of the queue. `Inv` states, of a live object, what its counters mean:
*HardMatch* (hard references are those that threads hold plus the one of
PORT_HAS_SENDRIGHTS), *WeakMatch* (the table's and those of threads inside
`ports_port_deref`), *HoldsMatch* (how many references a thread has at each
place), *RightsMatch* (a right that exists or was promised implies
PORT_HAS_SENDRIGHTS; the make-send counts of libports and the kernel differ by the
promises) and *StatMatches*. The last is the heart of the no-senders protocol: a
thread that has read the kernel's count compares it under the lock, and the
comparison succeeds only if no right was made or promised since, so that there
still are no senders. *Parting* is about the way out: whoever is beyond the
removal has the port out of the table; a port out of the table has no references
unless a payload gave it one; and two threads are in
`_ports_complete_deallocate` only if a lookup revived the object in between.
FreedUnused follows from it and from the meaning of the counts.

**AuthProofs**, first half: TypeCorrect, RecordsStayLive, NeverPastEachOther,
HandleStaysReferenced, ReferencesBalanced. `Inv` adds *Meeting* (where the
records and signals of two sleeping RPCs can be; the two records are never in
the tables together), *HandleHeld* (a record in the table, or a server that
transmits, implies a reference) and *Undisturbed* (a transaction that may not
fail has exactly the references that are needed).

Second half: AuthorityNeverGrows. AuthorityConfined is inductive with
the types; the argument is that without uid 0 the check of `S_auth_makeauth`
finds every id of the new handle in some handle that was presented.

**PipeProofs**: TypeCorrect, FreedIsUnused, BrokenIsExact; RecvNeverAborts and
NoLostWakeup under `~RecordControl`, since the run pipe_control shows NoAbort
violated without it. Readers and Writers are finite, the limit is above one;
queues are sequences of any length, and there is any number of ends. `Inv` adds
*Usage*: each counter is the open ends plus the calls that have acquired there
(*Holders*), a fifo's calls lie within an open end, and *Sound* relates the
flags to the counters. AcquireSound and ReleaseSound show that `acquire` and
`release` keep *Sound* on their own, MoveUsage and EndChange that the steps of
calls and of ends keep the counters to the users; FreedIsUnused and
BrokenIsExact follow from the two together. The other parts are *Ordered*
(behind a control packet there is its data packet, and only a write to a stream
sleeps with control data left) and *Caused*, which is SleepersHaveCause with what the
two-stage wake-up needs: a select may lag behind only while a writer stands
between its two critical sections (`wnote`), where it is about to wake it. The
lemmas on queues say what removing bytes and packets leaves (*Suffix*), by the
least prefix that could be wrong.

**PagerWorkersProofs**: InhibitionIsQuiet, ClaimsStayUnique, SomebodyWakes and
WorkersImplementSerialObjects, for any finite set of workers, any objects and
kinds and queues of any length. `Inv` adds that a sleeping
worker has no tag and an empty queue of its own, that requests are delegated to
workers with a tag only, that the inhibitor splits the queues before it waits,
and that a non-empty queue with all workers asleep has a signal on its way;
the last is why `drained` needs both of its conjuncts. For the refinement,
*PendingIs* and *ActiveIs* say what the abstract state of an object is in each
case (claimed or not), and the lemmas on `KeptUpTo` that taking, delegating and
splitting keep the subsequence of requests to an object.

**RecordLockProofs**: AssertionsHold, SleepersStayOnLive; under `~WithGap`
LocksExclude, ListsAreCanonical and ListsImplementRanges; and RangesExclusive,
about every implementation of RangeLock. Any open files, threads, memory and
file size are allowed; `~WithGap` is needed because the run rlock_eof shows
Exclusion violated without it. The proof has four layers:

- *branches*: each branch of the two loops is described by the regions that it
  leaves, the threads that it wakes and the rest of the request (*Moves*);
- *turns*: from that, for one turn, where sleepers go and which bytes appear
  (*Turned*), that regions stay apart (*Neatly*), that bytes are kept or cut
  (*Keeping*, *Cuts*);
- *loops*: the same for a fold over any finite set of regions (*Looped*, *Tidy*,
  *Conserved*, *Freed*). Induction with an operator as parameter is out of the
  provers' reach, so the lemmas argue by a smallest set of regions for which the
  statement would fail, and take its last region off;
- *calls*: the invariants OneQueue (a thread is in one queue at most and is
  there exactly while it waits), NoClash (regions of two open files that share a
  byte are read locks), AllNeat, and Bounded, with *Fitting* for a turn: no region
  is empty or reaches beyond the file, so that two regions that `overlap` share a
  byte and a refusal means a conflict.

An assertion in the middle of `merge_in` holds because of how the preceding
conditions fail (AssertionsHold needs no invariant on the lists but their
types); exclusion needs that the rest of a request never covers a byte that
neither the request nor an own region of the type covered; the canonical form
needs that the rest stays apart from every region left behind.

Model-checked only: the liveness properties (DeferredIsReleased, RequestReceived,
InhibitReturns of PortRpc and PagerWorkers, DeathInterrupts, UnusedIsFreed,
TransactionCompletes, RequestServed), as fairness and ENABLED are out of the
prover's reach. Every other property of a passing run is a theorem.

## 6. Environment assumptions

- The kernel: messages are dequeued only from a live receive right; each message
  is received once; a no-senders request is answered at most once; Mach's
  synchronisation of the no-senders request with the make-send count.
- `pthread_hurd_cond_wait_np` returns EINTR exactly when the thread was cancelled
  and clears the cancellation, and does not wake spuriously.
- Callers of `ports_inhibit_*_rpcs` resume what they inhibited.
- A region that was just freed can still be read by the loop that freed it
  (`rlock-tweak.c:82`, `:101`): the models take the list's next element.
- File offsets do not overflow: the code adds `start` and `len` in `loff_t`
  without a check (`rlock-tweak.c:35-38`), the model in the integers.
- The protected payload is the object's address. ThreadPool assumes that the
  kernel supports payloads; PortLife covers both cases.

## 7. What the models found

Each violated run states something the repository says of itself.

- **rlock_eof.** An open file that holds a lock to the end of the file and locks
  a range before it with a gap between them gets the gap, too, even if another
  open file holds it for writing (`rlock-tweak.c:372`). With write locks of its
  own the range also is handled as if it overlapped.
- **pipe_control.** On a datagram or sequenced-packet pipe a send with control
  data may sleep, or fail, between the control packet and its data packet; a
  message read then fails the assertion at `pipe.c:519`.

States that the models reach although a comment says otherwise. They have no run
of their own, and the properties above are stated so as to exclude them:

- `ports_inhibit_*_rpcs` sets INHIBIT_WAIT while it waits; RPCs that begin
  meanwhile go to sleep. If the inhibitor is cancelled it clears the flag and
  returns EINTR without a broadcast (`inhibit-class-rpcs.c:67`), and the RPCs stay
  asleep with nothing inhibited until some other broadcast happens. The comments
  at `begin-rpc.c:47` and `:50` say of a sleeper that RPCs are inhibited.
- `pn->pending` is never reset after delivery (`interrupt-on-notify.c:136`, `:154`).
  An RPC that asks about a dead port whose `ports_notify` is kept alive by another
  RPC gets no notification, against the comments at `:129` and `:132`.
- A no-senders notification that finds senders again is answered with EAGAIN and
  not renewed (`notify-no-senders.c:42`); since PORT_HAS_SENDRIGHTS is still set
  nobody requests another one, and the object is never freed. `ports.h:231` says
  that `ports_get_right` arranges for notifications.
- A user of auth that is interrupted while the server transmits its ids returns
  while the server, which has dropped the lock, still has the address of its
  record and writes to it (`auth.c:447`); the comment at `auth.c:250` says that the
  user waits. RecordsLive confines this to interrupted transactions.

Observations that contradict no document and have no run:

- `ports_begin_rpc` tests for MACH_PORT_NULL, `ports_destroy_right` stores
  MACH_PORT_DEAD: RPCs start on a destroyed port (`begin-rpc.c:37`).
- A handler that inhibits its class, its bucket or everything after its own port
  left the hash table waits for its own RPC (`inhibit-class-rpcs.c:38-56`). Its
  RPC is not cancelled by other inhibitors either, although they count it, so
  that two threads that inhibit scopes with such an RPC may wait for each other.
  InhibitReturns excludes behaviours in which an inhibitor's own port is gone.
- With `EarlyDestroy` two rights destroyed before a service thread is online
  abort the server (`port-deref-deferred.c:159`).
- A lookup between the last dereference and the removal from the hash table fails
  the assertion of `complete-deallocate.c:41`; if the new reference is dropped
  first, two threads enter `_ports_complete_deallocate` and free the object twice.
  The model lets them run up to the first free; FreedUnused says that this needs
  such a lookup.
- The second look at `complete-deallocate.c:36` guards against lookups in the hash
  table only. The last dereference that follows a no-senders notification is not
  deferred as that of `ports_destroy_right` is: a thread that has dequeued the
  last request, but not yet called `ports_lookup_payload`
  (`manage-multithread.c:177`), gets a reference after the port left the table, or
  reads an object that was freed. `port-deref-deferred.h:30` names only
  `ports_destroy_right` as a danger to payloads. The model reaches both; FreedUnused
  excepts the first (`"unlisted" \in revived`), and the model ends at the free,
  with such threads in front of their lookup.
- The reference that an interrupted `auth_user_authenticate` took is not dropped
  (`auth.c:320`).
- When `unlock_region` cuts the middle out of a region, and when `merge_in` shrinks
  or splits one, its sleepers are not woken (`rlock-tweak.c:160`, `:253`, `:348`),
  although what they wait for may be free.
- `merge_in` without memory loses locks that it has already released for merging
  (`rlock-tweak.c:407`, `:448`); RangeLock's `Fail` allows for it.
- A send of control data without data never leaves the loop at `pipe.c:397` while
  there is room in the pipe: `piece` stays 0, and the lock is held.
- `pipe_wait_writable_amount` tests `>=` the limit (`pipe.h:215`), so that a record
  of the limit's size that had to wait once waits for ever.
- A blocking write to a stream that does not fit is split, also if it is not
  longer than `write_atomic` (`pipe.c:403-407` against `pipe.h:104`).
- A message read with MSG_PEEK leaves the data and drops the control packet.
- `close_hook` detaches the active fifo only when its last reader goes
  (`fifo.c:233`): with writers that do not wait for readers, the last writer of
  a fifo without readers frees the pipe and leaves `active_fifo` pointing to it.
- A send to an address counts as a reader of the destination (`socket.c:341`): a full
  datagram pipe does not break under it when the destination is closed.
- `pipe_select_cond_broadcast` skips the last of several selects (`pipe.c:143`);
  `pipe_pair_select` unlocks both pipes before it waits (`pipe.c:279`).
- `connq_listen` counts a listener that finds its request already queued
  (`connq.c:169`) and leaves the count to the connector; accepting a queued
  request signals no waiting connector.
- `isroot` (`auth.c:151`) accepts an available uid 0, the comment above it says
  "euid 0"; AuthorityConfined is stated for either.

## 8. Not modelled

In the modelled parts: ports that are reallocated, imported or
transferred; NO_ALLOC; the failure of `mach_port_request_notification`;
`cancel_threshold` after `ports_reallocate_port`; the contents of messages;
thread priorities; `auth_getids`, `F_GETLK64` and `rlock-status.c` (they read
only); the second user or server on one rendezvous port (the clients create the
port for one transaction); in Pipe, lack of memory, port rights in control
packets, source addresses, `pipe_drain`, selects on two pipes, a stream send to
an address (nothing refuses one, the comment at `socket.c:336` does not expect
it) and the fifo after its pipe is freed; a call takes its reference in the
same step as it first looks at the pipe, as the code does under the pipe's
lock, but for a select, which looks a second time after `io.c:248`; in PortLife,
the read-only ports of `pager_create_ro_port`.

The rest of the repository. The map covers well under one percent of its 371000
lines of implementation, and no model of this kind can cover much more. Most
of those lines are the vendored Linux network stack in pfinet, generated wrappers
(`guile-llama-cpp`), device and console drivers, on-disk formats of the file
systems, the boot programs, command-line tools and formatted output: code
without state shared between threads or a protocol of its own, for which a
model would be a copy. The modelled libraries are those that the servers share
and in which threads, the kernel and clients meet. The candidates that remain
are named in section 2.

## Checking

In this directory, `tlc -config <run>.cfg <module>` with the pairs of
`PROJECT.json`, and `tlapm <module>.tla` for each `...Proofs` module.
