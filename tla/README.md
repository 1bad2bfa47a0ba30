# A TLA+ model of blktap

blktap lets user-space processes, *tapdisks*, serve the virtual disks of Xen
guests. This directory holds TLA+ modules that model the tapdisk (rings, queues,
drivers, control, event loop), the daemon that connects it to guests, the tools
that work on VHD files, the TLC configurations that check the modules on small
instances, and proofs checked by TLAPS.

| File | What it models |
|---|---|
| `BlockVhd.tla` | the asynchronous VHD driver, `drivers/block-vhd.c` |
| `BlockVhdDriverProofs.tla` | types and the inductive invariant of `BlockVhd`, and why every function keeps its part about `struct vhd_state` |
| `BlockVhdSafetyProofs.tla` | the parts about the file and the clients' writes, and the theorems: no acknowledged write is lost |
| `Vbd.tla` | a virtual block device and the server loop, `drivers/tapdisk-vbd.c`, `tapdisk-server.c`, handlers of `tapdisk-control.c` |
| `XenBlkif.tla` | the Xen block interface, `drivers/td-blkif.c`, `td-ctx.c`, `td-req.c` |
| `TapCtl.tla` | tap-ctl and the control server, `control/tap-ctl*.c`, `drivers/tapdisk-control.c` |
| `Tapback.tla` | tapback, `tapback/*.c` |
| `Nbd.tla` | NBD server and client driver, `drivers/tapdisk-nbdserver.c`, `block-nbd.c`, `tapdisk-fdreceiver.c` |
| `LibVhd.tla` | the VHD format and the operations of `vhd/lib/libvhd.c` |
| `VhdResize.tla` | `vhd-util resize -j`, `revert` and the journal, `vhd-util-resize.c`, `libvhd-journal.c` |
| `AtomicResize.tla` | what they promise; `VhdResize` implements it |
| `VhdChain.tla` | snapshot, coalesce, modify, repair, set-field, fill, copy, check on a chain |
| `Scheduler.tla` | the event loop, `drivers/scheduler.c` |
| `TapQueue.tla` | the I/O queue, `drivers/libaio-backend.c`, `io-optimize.c` |
| `RateControl.tla` | bandwidth control, `drivers/block-valve.c`, `td-rated.c` |
| `LeafCache.tla` | the local caches, `drivers/block-llcache.c`, `block-lcache.c` |
| `BlockCache.tla` | the cache of a shared parent, `drivers/block-cache.c` |
| `ChangedBlocks.tla` | changed-block tracking, `drivers/block-log.c`, `cbt/cbt-util.c` |
| `Stream.tla` | `drivers/tapdisk-stream.c` |
| `MC*.tla`, `*.cfg` | instances for TLC; a configuration is named after its run |
| `*Proofs.tla` | theorems about the module of that name (section 4) |
| `PROJECT.json` | components, runs, mutants, definition-to-source map, findings, hazards, theorems |

`tlc -config vhd_faults.cfg MCBlockVhd` runs one configuration,
`tlapm BlockVhdSafetyProofs.tla` checks the proofs of a module (the largest take
some ten to fifteen minutes).

## 1. The system

A guest's front-end puts requests in a ring it shares with tapdisk. tapdisk is
one thread around `select()`: `tapdisk_server_iterate` waits for events, runs
their callbacks, then submits I/O, checks the VBDs and delivers answers.

```
 guest front-end        (another domain)
      |  shared ring, event channel
 XenBlkif               consume, barriers, polling, dead rings
      |  tapdisk_vbd_queue_request          ^ vreq->cb, batched by tapdisk_vbd_kick
 Vbd                    queues, retries, mirror, pause/resume/close
      |  td_queue_read/write                ^ td_complete_request, td_forward_request
 image chain            vhd, aio, nbd, lcache, llcache, log, valve ...
      |  tiocbs                             ^ vhd_complete
 I/O queue (libaio)     ---> image file
```

Control messages (`tap-ctl` -> UNIX socket -> `tapdisk-control.c`) open, pause,
resume and close a VBD and connect rings; some of their handlers run the server
loop *inside* the handler until what they wait for has happened. `tapback`
translates XenStore states into such messages.

### Inventory

| Component | State | Operations | What is hard | What makes it correct |
|---|---|---|---|---|
| VHD driver (`block-vhd.c`) | BAT with a lock and one pending entry, bitmap cache with map/shadow per block, transaction and queue per bitmap, pool of `vhd_request`s, batmap | queue read/write/status; seven completion handlers; open, close | I/O completes in any order and may fail; BAT and bitmap writes overlap; queue promoted to a new transaction; crash between writes | acknowledged writes survive; reads are never stale; no slot has two owners; no lock, request or waiter is left behind |
| VBD (`tapdisk-vbd.c`) | four request queues, state flags, image chain, secondary and retired image | queue, issue, complete, forward, retry, time out, kill, quiesce, pause, resume, close | synchronous completion inside the issue loop; mirror legs failing separately; state changed by nested iterations | a request is in one queue and answered once; an acknowledged write is in an image that is read; images close only when idle; pause and close end |
| Xen block interface (`td-blkif.c`, `td-ctx.c`, `td-req.c`) | ring indices, free descriptors, pending barrier, polling and ring-check events, dead flag | ring event, ring check, stop polling, completion, connect, disconnect, suspend, resume | the front-end runs between any two accesses; barrier completion from three call sites; one event masked by polling and by pause | one truthful answer per request; barriers order; no lost wakeup; a dead ring goes away |
| Server loop (`tapdisk-server.c`) | VBD list, event ids, low-memory and CPU monitors | iterate, signal handler, low-memory events | nested iterations, asynchronous signals | answers are not left behind a sleep |
| Control (`tapdisk-control.c`) | connections with input/output buffers, one exclusive request | message handlers | a client that goes away, a handler that waits | every message is answered; the state it leaves is consistent |
| Scheduler (`scheduler.c`) | event list with masks, deadlines, dead flags, id counter | register, unregister, mask, wait, collect | callbacks that unregister or re-enter; id overflow | no callback of a dead event; unique ids; deadlines met |
| I/O queue (`libaio-backend.c`, `io-optimize.c`) | queued, deferred and pending tiocbs; merge tree | queue, submit, complete, cancel | partial submission, merging and splitting, limit reached | each tiocb completes once with its own result |
| NBD server and client (`tapdisk-nbdserver.c`, `block-nbd.c`) | clients, request pools, sockets, pending requests | handshake, request, reply, pause, teardown | disconnection with requests in flight, partial reads | no reply to a freed client, pool conserved |
| Cache drivers (`block-lcache.c`, `block-llcache.c`, `block-cache.c`) | request pool, cached data | read-through, store | store racing a newer write | the cache never returns older data than its parent |
| Rate control (`td-rated.c`, `block-valve.c`) | token bucket, per-client credit, reservations | request, grant, drop | disconnection, credit rounding | granted <= rate, every request granted in the end |
| VHD library, journal and tools (`vhd/lib`) | on-disk metadata, undo journal | create, snapshot, resize, coalesce, check, revert | crash between metadata writes | after recovery old or new state, no block lost |
| tapback | devices, XenStore states | watches of front-end and hotplug, connect, close | events in any order, reconnect | state sequence of the xenbus protocol, tapdisk connected iff Connected |
| tap-ctl (`control/`) | none (a client) | create, destroy and their steps | a step failing half-way | roll-back leaves nothing |
| Changed blocks (`block-log.c`, `cbt-util.c`) | log files, mapped bitmap | mark and forward; create, set, coalesce | death between bit, write and tool; driver and tool on one file | every changed block is reported |
| Block cache (`block-cache.c`) | radix tree, pages, requests | hit, miss, populate, prune | overlapping misses, pages freed under leaves | a leaf leads to its own sector |
| Stream (`tapdisk-stream.c`) | pending and completed lists | queue, complete, write | reads complete in any order | output in order, the program ends |
| lvm, cpumond, statistics, logging | files, counters | sequential | - | - |

## 2. The models

Data are abstracted (a write's payload is the request's identity, a response is
its request and status); control is not: a definition is named after the C
function it translates, operators that take the state and return it are
functions called inside a step, and a step is a whole callback unless another
party can run in the middle of it. `map` in `PROJECT.json` gives the lines of
every definition. Definitions that end in `_mutant` are deliberate slips used to
show that a property can fail; no specification uses them.

Some modules have Boolean or set constants that switch a fault or a usage on
under which the code is known to break one of its properties (section 6). The
passing runs have them off and show that nothing else breaks it; turning one on
reproduces the finding.

### BlockVhd

`vhd` is `struct vhd_state`, `disk` the file (BAT, batmap, and per slot a bitmap
and data). Steps: a client queues a one-sector read, write or status query
(`QueueRead`, `QueueWrite`, `QueueStatus`; a request that came back `EBUSY` may be
queued again), an I/O reaches the file (`Land`), an I/O is reported complete with
or without error (`Complete`, the whole of `vhd_complete`), the process crashes,
closes or opens the image. An I/O that fails may or may not have reached the file
(`FailOps`, `TornOps`). Buffers are by reference, as in the code: a bitmap write
stores the shadow as it is when the write lands. `allocate_block`'s synchronous
zeroing is part of `QueueWrite`. `Modes` chooses between the two allocation modes
(`VHD_FLAG_OPEN_PREALLOCATE`).

Longer requests are cut by `vhd_queue_read/write` into pieces whose sectors share
a bitmap state before anything else happens, so one-sector requests exercise the
same paths; a piece of several sectors differs only in setting several shadow bits.
`cand` and `bound` are history: the values each sector may legitimately hold, and
the values a read may return.

### Vbd

`vbd` is `struct td_vbd_handle` with its requests; `srv` is the program counter of
the server loop; `ctl` the control message being served. The issue loop is cut
at every segment, because a driver may complete or forward a segment before
`td_queue_*` returns (`Hows`). The chain is leaf, optional secondary and base.
Time is two flags per request: `expired` (`req_timeout` has passed) and `recent`
(less than `TD_VBD_RETRY_INTERVAL` since the last try). Control handlers that wait
(`PauseAgain`, `CloseWaits`) resume at the end of an iteration, as the C code does.

### XenBlkif

The ring is the sequence of all requests ever put in it, with the indices as
lengths. The front-end (`Push`) runs between any two accesses of the back-end:
`process_ring` is cut at each look at the ring, at the arming of `req_event` and at
each request it queues. The VBD answers in any order and in batches (`RequestCb`:
`kicking` is the ring whose batch is being delivered, the last call has `final`
set). Whether the CPU is idle enough to start polling is left open.

### TapCtl

`cl` is the tap-ctl processes, each with the command it runs and the remote call
it is at (`tap_ctl_create` is allocate, attach, open, and back again when one
fails); `sock` the connections, `conn` the fixed array of entries of the server,
`free` its stack of free ones, `pending` and `busy` those of `td_control`. `frames`
is the stack of handlers that wait inside the loop (`HandlerResumes` looks at the
condition again at the end of an inner iteration), `woken` the entries whose event
was re-armed. The close handler has up to three waits one after the other (`StageOf`): for
the dead rings, unless the close is forced; for the users of the device, as long as the
ioctl that removes it says `EBUSY`; and, where the ioctl is not there (`-ENOTTY`: a
minor that is not in `Ioctl`), for the pending requests. One kernel has the ioctl for all
minors or for none; the run has a minor of each kind, to have both in one. Only the second of them, and the one of pause,
notices that the client has gone (`Abandoned`). A client in `GivesUp` may hang up while
it waits. The server exits when its last VBD is detached.

### Tapback

`xs` is what XenStore holds of a VBD, `dev` the slave's record (`vbd_t`), `tapd` the
tapdisk, `queue` the watch events not yet read, with consecutive equal ones merged
as XenStore may. A handler (`SlaveDomainWatch`, `SlaveDeviceWatch`,
`SlaveFrontWatch`) is one step that reads XenStore as it is by then; tapback's own
writes fire its watches again (`Printf`, `Switch`). Toolstack, guest and tapdisk are
external actions. A failed `ASSERT` sets `panic`. A disconnection with requests pending
leaves the ring on `dead_rings` and mapped until the last of them ends (`DisconnectRing`,
`DeadRingEnds`). The slave that restarts was killed; a SIGTERM, which tapback takes
only when it has no device (`tapback.c:181`), and a death of the master are not modelled.

### Nbd

`chan` is the sockets with a queue of whole messages each way, `fds` the server's
descriptors, `clients` its client records, `vreqs` the requests its VBD holds, `drv`
the driver at the other end with its queues, `passed` the descriptors stashed by
name, `outcome` what became of each request given to the driver. The server may be
paused, freed, or die with its process (`life`). While a handshake is under way two events
are on one descriptor; the scheduler gives it to the one registered first, that of the
handshake (`FirstOn`). Its callback reads `server->handshake_fd`, whosever that is, with
a blocking `recv()`: as long as nothing is there the process stands still (`stuck`). When it
fails it stays registered or closes the descriptor, and an event on a closed descriptor
makes every later `select()` fail (`SelectFails`). A greeting may fail because the other
end has gone (`NewClient`). The other end is always `block-nbd.c`, whose one option is
`NBD_OPT_EXPORT_NAME`: the other options, and `NBD_OPT_ABORT`, are for clients that are not
modelled. A wait of the negotiation may time out, but a socket is not closed while the
server waits for its options (`LeaveEarly`, section 6). `MaxLoad` bounds
requests and sockets together, so that either many requests share a connection or
few requests meet many connections.

### LibVhd, VhdResize, AtomicResize

A file is a sequence of sectors; footer, header, BAT sector, batmap and locator are
records in them, so that a structure that was not written, or half written, does not
validate. A context is what `vhd_open` reads. `VhdResize` runs a tool as stages, each
of which computes the writes it will do (`todo`); `Write`, `WriteError` and `Crash`
then interleave. The stages follow `vhd_dynamic_grow`: journal the metadata, disable
the image, move blocks out of the way (journaled first), shift the batmap and
locators, add BAT entries, write the footers, commit, enable, remove the journal; and
`vhd_journal_revert` undoes them. `FastResize` is `resize -f`, which writes the footers
only and is for images whose metadata was preallocated (`-S`). `Online` is the refinement
mapping: the image can be opened, no tool is at work on it, and no journal is left that
`revert` would apply to it; `disk` is what a guest read when it last could.

### VhdChain

The same way of running a tool, one target at a time, over images that point to each
other by locators and by the header's parent fields. `promise` is history: what each
image in service showed when it was put in service. `merged` records coalesces that
reported success. Chains are used as the storage manager uses them: a child is
given a new parent only when the old one has been coalesced into it, and an image is
emptied (`modify -z`) only while every image has the footer at its end. The latter
matters: `vhd_read_at` takes the last sector of a file for the footer, so that an
image which a killed tool left without one reads zeros in its last sector until
`repair` writes the footer, and a view taken in between is of the zeros (`MergedStill`).
A coalesce that reads such a block from its second sector on gets the sector itself
(`ReadAt`); a block that begins behind the footer cannot be read (`ReadAtFails`).

### Scheduler, TapQueue, RateControl, LeafCache, ChangedBlocks, BlockCache, Stream

`Scheduler`: `events` is the list with dead ones on it, `walks` the stack of nested
`scheduler_wait_for_events`; whether a timer is due is open, and garbage collection is
written by positions (`Rank`, `Reaped`) so that it can be reasoned about. `TapQueue`: lists chained
by `tiocb->next`, as in the code, since two lists share the field; the callbacks are
steps, because they queue more. `RateControl`: valve and daemon with their messages
in flight; `need` and `cred` as on both sides. `LeafCache`: the three drivers as one
machine with parts of a request in flight to LOCAL and SHARED; `may` is history, what
a sector may hold. `ChangedBlocks`: logs as files with metadata and bitmap, the tool
cut at its writes; `changed` is history. `BlockCache`: the radix tree as the function
it represents, pages with owners. `Stream`: the two lists and the output.

`MCDrivers` runs them side by side: `part` says which one moves, the others stay in
their initial state. They share no state, so this is a disjoint union of seven state
spaces and not a product.

### Abstractions worth knowing

- The LRU order of bitmaps: any unlocked bitmap but the most recently touched one
  may be evicted. This includes the code's choice.
- The modules meet at their interfaces and are checked separately: `XenBlkif`
  assumes of the VBD what `Vbd` shows (`Answered`, `ControlEnds`), `Vbd` assumes of a
  driver what `BlockVhd` shows (`Answered`, one answer per request), `BlockVhd` of the
  I/O queue what `TapQueue` shows (each tiocb is called back once, in any order),
  `TapCtl` and `Tapback` of the VBD that close and pause end.
- `Scheduler`: a `select()` that fails changes nothing in the outermost call and ends a
  nested one (`EndWalk`); what a failure for good means is in `Nbd`.
- `BlockCache`: the nodes of the radix tree count against the limit as well
  (`block-cache.c:188`), so that a miss may be left uncached at any fill.
- `RateControl`: the daemon's table of connections (`RLB_CONN_MAX`) is not exhausted.
- `ChangedBlocks`: `cbt-util set` is the one of the size; `-p`, `-c` and `-f` rewrite
  the parent, the child and the flag in the same metadata and touch no bit.
- `LibVhd`: what `vhd_read_at` clears beyond the buffer of a block that is cut short
  (`libvhd.c:2059`, with a first sector other than 0) is not modelled.
- Signals are taken between steps, not inside a list operation.
- A sector is written atomically; a write of several sectors to a VHD by the tools
  fails or happens as a whole.

## 3. Runs

| Run | Instance | Properties |
|---|---|---|
| `vhd_faults` | 2 blocks of 2 sectors in one BAT sector, 2 slots, 3 requests, both modes, every fault except a failed zero-bitmap write and a BAT write that fails after landing, 1 crash or close; 1.03 M states | `CrashConsistent`, `ReadsRegular`, `Bookkeeping`, `BatEntriesFinal` |
| `vhd_cache` | 3 blocks in 3 BAT sectors, 2 cached bitmaps, 4 requests over 3 `vhd_request`s, failed bitmap reads, 1 crash or close; 1.21 M states | `CacheSound`, `VreqConservation` |
| `vhd_live` | 2 blocks, 1 slot (so the file fills up), 2 `vhd_request`s, 3 requests with status queries, all faults, fairness; 362 k states | `TypeOK`, `QuiescentClean`, `Answered` |
| `vbd_mirror` | 2 one-segment requests, mirror and NBD mirror, `EBUSY`/`EIO`/`ENOSPC`, pause, resume, SIGINT; 4.5 M states | `QueuesSound`, `AckedServed`, `SecondaryInChain` |
| `vbd_control` | 2 writes, no secondary, `EBUSY` and timeouts, pause, failing and succeeding resume, close, force, SIGXFSZ, fairness; 276 k states | `NoSleepOnAnswers`, `Answered`, `ControlEnds` |
| `blkif_ring` | 1 ring of 2 entries; 2 plain requests, one barrier with data, one without; one request may fail; polling, low memory, pause, disconnect, SIGUSR2, fairness; 307 k states | `RingSound`, `BarrierSound`, `EventuallyServed` |
| `vhd_resize` | images of 2 blocks with 0 to 2 allocated, in either order, dynamic and differencing, with a batmap, resized with `-j`, or with `-f` and metadata for 2 to 4 blocks, as a file and on a block device; five goals from smaller to seven blocks; 1 failed write, 2 deaths, reverts; 88 k states | `ResizeImplements`, `ResizeDelivers`, `Recoverable` |
| `vhd_chain` | base (VHD or raw), middle, leaf and a name to create, 2 blocks each; 3 tools in a row with a death, or 2 with a death and a failed write; 444 k states | `InService`, `CoalesceDelivers`, `ToolsSafe` |
| `tapctl` | 3 clients, 2 entries, 2 minors, one without the ioctl: create against destroy, pause against destroy and list, force against pause; without the ioctl, pause against force and destroy; one client may hang up; fairness; 133 k states | `RightAnswer`, `ConnectionsSound`, `CommandsEnd` |
| `tapback` | 1 VBD plugged twice, 2 rings, both forms of the physical device, 1 restart of the slave, an exiting tapdisk, disconnections with requests pending, fairness; 263 k states | `NoPanic`, `BackendTrue`, `FrontendsServed` |
| `nbd` | 4 server requests per client, 5 of the driver, 2 sockets, both protocols, 1 passed descriptor, 1 pause, 1 error, 2 opens, close or death of the server, fairness; 435 k states | `NbdSafe`, `RequestsEnd` |
| `drivers` | seven parts: 2 events, 2 ids, nesting 2, 3 registrations; a queue of 2 with 4 tiocbs, 5 uses and 1 failed submission; 1 valve, 2 records, 3 writes, 1 death; 2 sectors, pool of 1, 3 guest requests, 1 error; 2 logs, 4 tool runs, 1 death; 3 sectors, 5 reads, 1 failure; 1, 4 or 9 sectors over 3 requests of 2; 285 k states | `SchedulerSafe`, `QueueSafe`, `RateSafe`, `LeafSafe`, `ChangesLogged`, `CacheRight`, `StreamExact`, `DriversAnswer` |

Several properties are conjunctions of named parts, each stated and commented by
itself in its module: for instance `Bookkeeping` is `TxAccounting`, `SlotsOwned` and
`BatmapSound`; `RingSound` is `TypeOK`, `AnsweredOnce`, `NoStrandedAnswer` and
`DeadRingHeld`.

Why the bounds are enough: two blocks give an allocation in progress and another
that finds the BAT locked or takes the next slot; two sectors per block give a
transaction with a member whose bit is already set and one whose bit is not; three
requests give one in the transaction, one in the queue and one that reads or
allocates elsewhere; the third block of `vhd_cache` is the one that evicts. Two
requests and a mirror give four I/Os in flight in any order. Four requests in a ring
of two reuse every entry and put plain requests on both sides of a barrier. In
`vhd_resize` the goals make the BAT fit, need the shift of the batmap, and need one
and two blocks moved; two deaths are one in the resize and one in the revert that
follows. In `vhd_chain` each tool works on what the ones before left, also after a
death; three are a coalesce, the relinking of the grandchild and what comes next. Three clients over two entries reuse an entry while its old handler still
waits. Two ids for three registrations make them wrap; a nesting of two is an inner
walk that finds what the outer one left. A queue of two with four tiocbs defers,
merges and fails in part.

The bounds that only keep the state space finite: `Crashes`, `MaxCrashes`,
`MaxFaults`, `MaxOps`, `MaxSock`, `MaxPlugs`, `MaxRings`, `MaxRestarts`, `MaxQueue`,
`MaxOpsFaulty`, `MaxOpens`, `MaxErrors`, `MaxPauses`, `MaxLoad`, `MaxRegister` and the like; each
request is submitted once (again only after `EBUSY`); each ring is connected once;
each signal comes once. Deadlock is checked in `blkif_ring` and `vbd_control`; in the
others the system stops when the bounds are used up.

### Fairness

- `BlockVhd!FairSpec`: the kernel completes the I/O it accepted (weak fairness of
  the I/O steps, written over `aio`). Clients, faults and crashes are not forced.
- `Vbd!FairSpec`: the loop runs on (one thread, no blocking call but `select`);
  a driver's answer is dispatched in some later iteration, and a request's timeout
  passes (strong fairness, since events are dispatched only while the loop waits);
  the pause handler's 10 ms pass.
- `XenBlkif!FairSpec`: a started callback ends; a due event is dispatched again and
  again (strong, because pauses and polling mask it repeatedly); the VBD answers; a
  pause requested is completed and later resumed. The front-end, memory pressure
  and the tool stack are not forced.
- `TapCtl!FairSpec`: clients run; accept and each connection's event are dispatched
  (strong: exclusive commands mask them for a while); a waiting handler is resumed;
  I/O ends and the users of the device close it. Commands are not forced to start.
- `Tapback!FairSpec`: master and slave read their watches. Toolstack, guest and
  tapdisk are not forced.
- `Nbd!FairSpec`: both event loops run, the server's VBD completes its requests, a
  paused server is unpaused or freed, and the process of a freed one ends: the
  driver's requests depend on it, since `tapdisk_nbdserver_free` closes no client's
  socket. Connections need not stay up.
- `MCDrivers!MCSpec`: the queue is submitted and polled in every round and the kernel
  completes; the rate daemon and the valve's events run; images of a leaf cache
  complete; the stream's loop runs.

## 4. Proofs

Eight modules hold theorems or the lemmas for them. Each proof is for every value of the constants that its
module's `ASSUME` admits: any number of requests, rings, events, logs, sockets and
clients, and no bound on faults, deaths or pauses. Where a theorem has a hypothesis,
it excludes a finding of section 6 or the hazard no property covers, as the runs do; it
is satisfied by the constants of the runs, but for `TapCtl` (see there).

| Theorem | States | Under |
|---|---|---|
| `BlockVhdDriverProofs!TypeCorrect` | `Spec => []TypeOK` | the module's assumption |
| `BlockVhdSafetyProofs!InvariantHolds` | `Spec => []IInv` | `FaultsCovered`: `zero_bm` does not fail (`block-vhd.c:2464`) and a BAT write that fails has not changed the file (`block-vhd.c:2399`) |
| `BlockVhdSafetyProofs!CrashSafe`, `ReadsSafe` | `Spec => []CrashConsistent`, `Spec => []ReadsRegular` | `FaultsCovered` |
| `BlockVhdSafetyProofs!BookkeepingHolds`, `CacheHolds`, `VreqsConserved`, `QuiescenceClean` | `Spec => []` of `Bookkeeping`, `CacheSound`, `VreqConservation`, `QuiescentClean` | `FaultsCovered` |
| `BlockVhdSafetyProofs!BatFinal` | `Spec => BatEntriesFinal` | `FaultsCovered` |
| `VbdProofs!QueuesConsistent` | `Spec => []` of `TypeOK`, `OneQueue`, `SecsPendingExact`, idle when quiesced or closed, reads on open images | the module's assumption |
| `VbdProofs!QueuesAlwaysSound`, `MirrorAlwaysInChain` | `Spec => []QueuesSound`, `Spec => []SecondaryInChain` | `"image" \notin OpenFails` (`tapdisk-vbd.c:997`) |
| `VbdProofs!AnswersServed` | `Spec => []AckedServed` | `WritesKept`: a leaf that may run out of space has no standby image and no NBD mirror (`tapdisk-vbd.c:1462`); if it has a mirror, requests have one segment (`tapdisk-vbd.c:1522`) and no attempt to open is retried (`tapdisk-vbd.c:997`) |
| `XenBlkifProofs!RingsAreSound` | `Spec => []RingSound` | the module's assumption |
| `XenBlkifProofs!BarriersAreFences` | `Spec => []BarrierFence` | the module's assumption |
| `XenBlkifProofs!AnswersAreHonest` | `Spec => []BarrierSound` | no barrier's I/O fails: `Faulty \cap Barriers = {}` (`td-req.c:485`) |
| `TapCtlProofs!ConnectionsConserved` | `Spec => [](EntriesConserved /\ NoStrandedCommand)` | the module's assumption |
| `TapCtlProofs!ExclusiveAnswers` | `Spec /\ []Exclusive => []RightAnswer` | `Patient(Deaf)`: a client that may give up runs neither close nor destroy (`tapdisk-control.c:934`), nor, unless every minor has the ioctl, a forced close (`:961`); handlers that wait do not nest (`tapdisk-control.c:1491`) |
| `TapCtlProofs!PatientAnswers` | `Spec => []RightAnswer` | `Patient(Waits)`: no client gives up a command whose handler waits |
| `NbdProofs!NbdServerSafe` | `Spec => []NbdSafe` | `~FdReuse`, `~PauseFull` (`tapdisk-nbdserver.c:986`, unpause of a masked client) |
| `SchedulerProofs!SchedulerTypes`, `LoopSafe` | `Spec => []TypeOK`; ids, walks and pending events | the module's assumption |
| `SchedulerProofs!SchedulerIsSafe` | `Spec => []SchedulerSafe` | `~DropMasked` (`scheduler.c:195`) |
| `ChangedBlocksProofs!ChangesAlwaysLogged` | `Spec => []ChangesLogged` | `ToolStackUse`: `~Racing`, `~ShortLog`, `~WriteFails` |

**BlockVhd, types.** `TypeOK` is inductive as it stands once `Tiocb` says which operations
carry a client request (a completion handler looks up `req[io.req]`) and slots of I/Os
in flight range over BAT entries. The proof follows the code: one lemma per function,
bottom-up (setters, cache, transactions, schedulers, entry points, handlers, image
file, history), each stating that the function maps a well-typed state to a well-typed
state. Ranges hold for any number of blocks, slots and requests, so a BAT entry or the
pending offset never leaves the file, whatever fails. The non-obvious parts are the
range of `next_db` against `NSlots` (an allocation is refused before the slot is used,
`file_full`) and the cardinality of sets of requests.

**BlockVhd, safety.** None of the seven properties is inductive: that an acknowledged write
is in the file depends on which I/O may still be in flight when it is acknowledged, that in
turn on the transaction's counters and lists, and these on the lock on the BAT. `IInv` has
three parts, stated for a state `s` of the driver, a file `d` and the histories `c`
(`cand`) and `n` (`bound`), so that they can be followed through the functions a handler
calls. Inside a handler they hold but for what it has in hand: `h`, a client's request for
which no I/O has been started yet; `k`, the block whose transaction is being ended; `g`, a
write whose value is not among the candidates yet.

- `Driver(s, h, k)`, the state of `struct vhd_state`. `BatOK`: entries are below `next_db`
  and distinct, and the BAT is locked exactly while a bitmap is zeroed, the BAT written or
  a failed transaction not over (`Allocating`, `Failing`, `Done`). `BlkOK`: a bitmap being
  read has no transaction and one being written a closed one without other I/O; the shadow
  differs from the bitmap only in a live transaction; a bitmap is locked exactly while
  something uses it; a live transaction waits for an I/O. `TxOK`: started minus finished is
  the number of its I/Os, as sets, which needs `Unique`. `MemOK`, `ReqOK`, `IoOK`: a request
  is on the list its state says, and an I/O names the slot its block owns and finds what its
  handler will look for. `CountOK`: the pool.
- `FileOK(s, d)`: the BAT in the file is the driver's but for the entry being written, which
  is in the file exactly when its write has landed; a cached bitmap says no more than the
  one in the file; blocks the batmap calls full are.
- `History(s, d, c, n, g)`: where a bitmap in the file, or a shadow, has a bit, the slot has
  a candidate value (`GoodOK`, once the bitmap has been zeroed); a sector that does not
  admit the parent's value is set in every view (`ParentOK`); a write that is finished has
  left its value or one written since it was submitted (`WriteOK`, `Fresh`); a read in
  flight looks at good data (`IoHist`).

`BlockVhdDriverProofs` follows the code bottom-up, with one or more lemmas per function for
`Driver`; a lemma about a step on one block states what it leaves alone (`LocalTo`), and the
locality lemmas carry the invariant of the other blocks over. `BlockVhdSafetyProofs` does
the same for `FileOK` and `History`, in which most functions only change what `View`
ignores; the steps with an argument of their own are an I/O reaching the file (`Landed`),
the ends of a data transaction, of a bitmap write and of a BAT write, and the crash. The
lemmas hold for both allocation modes and any cardinalities. TLC checked `IInv` on the
instances of `vhd_faults`, `vhd_cache` and `vhd_live` before it was proved.

`FaultsCovered` is what fails: with `zero_bm` in `FailOps` the slot is given away while data
writes to it are in flight (section 6), and with `bat` in `TornOps` an entry the driver has
given up is in the file and the slot goes to another block.

**Vbd.** `IInv` says of the VBD, at every point of a handler where the loop may be found
(`Sound(v, c, n)`; `c` is the request being submitted, `n` the number of its I/Os counted
but not yet queued): the four queues are disjoint, without repetition, and hold the queued
requests (`Queues`); the counters are exact (`Counted`, `Submitting`) and a request is
pending while a driver has an I/O of it or it is being submitted (`Waiting`); a segment of
a read is with one driver (`ReadsOnce`, without which forwarding could merge two I/Os); the
chain is one of six, and which one goes with the mode of the secondary image (`ChainOK`); an
I/O is with an open image (`HeldOpen`, for mirrored writes with `MirrorOpen`); and nothing
is pending while quiesced or closed (`Quiet`). Of the server it says that what its loops
have left to do is still on the queue they walk (`LoopOK`: handlers run between the rounds)
and that the segments not yet submitted are with no driver (`SubmitOK`). The lemmas follow
the code from `tapdisk_vbd_move_request` through `complete_td_request`, with the changes it
makes to the chain, and `td_queue_*` to `issue_request`; a function that may be called in
the middle of a submission is proved for every `c` and `n`. What `Only` computes, a
recursive function over a list of any length, is proved by the least counterexample.

**Vbd, answers.** That an answer without error is true is a statement about the end of a
request; the invariant `AInv` makes it one about its whole life. Of a request that has been
attempted and has no error so far, every segment is *carried* (`Acks`): an I/O of it is out
or was carried out, for a write on the image that counts. That image, `Carrier`, is the one
that will have the data whatever happens: the leaf, unless it may run out of space under a
mirror, and then the mirror. Of the request being submitted only the segments before the
current one are carried. `Anchored` keeps the carrier in the chain wherever images are
open, and the reads of an NBD mirror off it; `Aimed` says of the image that
`tapdisk_vbd_issue_request` has looked up once that it is the carrier, or the leaf of a
mirror that is still mirrored. Each function then either loses nothing (`NoLoss`: what is
carried stays so unless its request has an error, which no later success resets) or, for
those that open, close, pause and quiesce, does not touch the requests at all (`Settled`).
An answered request has no I/O out (`IInv`), so what it carries was carried out. `WritesKept`
leaves out three cases in which the code does answer without error for data that is nowhere,
or where reads do not look (section 6); it puts no condition on VBDs without ENOSPC, with any number of segments,
and with `EIO`, `EBUSY`, NBD errors and failing attempts to open. `vbd_mirror` satisfies it.
`AInv` was checked by TLC on two instances (5 and 11 million states) before it was proved.

**XenBlkif.** None of the parts of `RingSound` is inductive. `IInv` adds what the running
callback may assume of its ring (`Running`) and, for each ring (`RingOK`): the order of
the indices (`Indices`); that a descriptor is in use exactly for each request whose I/O
is not done and for the barrier that waits (`Descriptors`); at most one barrier, the last
request taken (`OneBarrier`); that what was taken is what is in flight and what was
answered, and that an answer is unpublished only while a callback or a barrier is still
to publish it (`Told`); that a barrier that waits has something to wait for (`Company`),
and that a dead ring has a request in the VBD. `AnswersAreHonest` adds what is known of
the I/O of the requests answered and of the barrier (`Honest`), and that rings share no
request (`Separate`).

**TapCtl.** What ties an answer to a command is the entry of the connection table, which is
reused. `IInv` says where each thing is: a client's call is one its command makes, and its
connection has that type (`ClientsOK`); a connection waiting or accepted is in one place and
not answered (`SocksOK`); a free entry is used by nothing (`FreeOK`); an entry in use is
read from, queued behind a waiting handler, run on, or answering, and only one of these
(`ConnsOK`, `PendingOK`); the handlers on the stack have distinct entries, whose message has
been read, and are in a wait their command comes to (`FramesOK`, `Heeding`). `ConnectionsConserved` needs no more. For `RightAnswer`, `RInv(B)`
adds that a client not allowed to give up has not (`NotGivenUp`), what a hang-up event is
evidence of (`HupOK`), that an answer under way is the right one (`OutRight`), and that each
handler that waits still has the connection it was started for, or that it was left
(`Served`): then it is the only handler, its walk has passed the entry, and it sees the
hang-up before an accept can reuse the entry. This is why the waits that do not look
(`Deaf`) are left to clients that stay. The last is where the two theorems part, and
`Exclusive` cannot be dropped: a pause that is given up under a nested handler does not look
at `conn->fd` until that one ends, and its entry may have a new connection by then, which
gets its answer (section 6, `tapdisk-control.c:1491`).
The programs of `tapctl` on the minor with the ioctl, and those on the one without, each satisfy
`Patient(Deaf)` for their kernel; with both kernels in one instance `Deaf` has the forced close,
which a client of the first may give up there, so the run is a little wider than the theorem.
Two entries give `Exclusive`. `PatientAnswers` is for clients that give up nothing that waits,
and the run is wider than it too. TLC
checked `IInv` and `RInv` with three entries (285 thousand and 1.25 million states) before
they were proved.

**Nbd.** `NbdSafe` follows from three facts that hold together: a request is in one
place, at the driver, on its way or with the VBD (`IdsOnce`); a client's free requests and
those at the VBD add up, and a client is read from only if it has room (`ClientSound`);
and a request at the VBD belongs to a client whose descriptor is either closed or open on
the socket the request came from (`AllSound`). The last is the step that fails with
`FdReuse`.

**Scheduler.** `FreshIds` and the choice of a free id after an overflow give `UniqueIds`,
dead events on the list included. `WalkedClean` says that the innermost walk has left no
live event pending behind it; a callback that waits for events starts another walk, and
only the walk that found the list unwalked takes dead events off it (`Reaped`; `Rank` is
an event's new position), which is why an inner walk cannot move an event under an outer
one. `DeadUnmasked` gives the `BUG_ON`, and fails with `DropMasked`.

**ChangedBlocks.** The bits of writes under way are set in the log before the writes are
forwarded (`DriverSound`), and at each of its writes the tool holds in memory the bits of
every change, within the bitmap that the metadata in the file announce at that moment
(`SetSound`, `CoalesceSound`): a death at any step leaves a log that covers its changes.

Only model-checked: `Exclusive` of `TapCtl` (it fails with three entries), the invariants of `Tapback`, `VhdResize`, `VhdChain`, the
caches, the rate control, the queue and the stream, and the refinement of `AtomicResize`. Liveness under fairness (`Answered`,
`ControlEnds`, `EventuallyServed`, `CommandsEnd`, `FrontendsServed`, `RequestsEnd`,
`DriversAnswer`) is outside TLAPS, and so is what the folds and recursive functions of
`LibVhd` compute for files of any length.

## 5. Properties and hazards

`PROJECT.json` lists the hazards with the line each one bites at and the properties
that cover it. Each property of a run has a mutant: a plausible slip in one
mapped definition under which TLC finds the property violated.

## 6. Findings

What the models show the code to do wrong, or otherwise than its comments say. The
passing runs exclude exactly these; each is reproduced by changing the constants
given in a copy of the run's configuration.

Quoted in `PROJECT.json`:

| Where | What | Reproduced by |
|---|---|---|
| `block-vhd.c:2464` | a failed zero-bitmap write gives the slot away while data writes to it are in flight | `vhd_faults`, `FailOps = {"zero_bm"}`, `TornOps = {}`, `BatPerSec = 1`, `NSlots = 1`, `Modes = {FALSE}`, `ClientOps = {"write"}`, `Crashes = 0`: `CrashConsistent` |
| `block-vhd.c:2525` | a block-status query on a bitmap being read hits an assertion | `vhd_live`, `Spec`, `NBlocks = 1`, `BatPerSec = 1`, `VReqs = 3`, `ClientSecs = {0,1}`, no faults: `WaitersRequeuable` |
| `tapdisk-vbd.c:1522` | synchronous ENOSPC in the middle of a mirrored write loses a segment | `vbd_mirror`, `Reqs = {r1}`, `Iovs = 2`, `Kinds = {"mirror"}`, writes only, no errors, messages or signals: `AckedServed` |
| `tapdisk-vbd.c:997` | a retried resume forgets the secondary image | `vbd_mirror`, `Reqs = {r1}`, `Kinds = {"mirror"}`, `OpenFails = {"image"}`: `SecondaryInChain` |
| `tapdisk-vbd.c:1106` | closing a paused VBD with queued requests never ends | `vbd_control`, `Messages = {"pause","close"}`, `Signals`, `OpenFails` empty: `CloseCompletes` |
| `td-req.c:485` | a barrier's I/O error is forgotten | `blkif_ring`, `Spec`, `Reqs = {w1,b1}`, `Faulty = {b1}`, no flushes, no polling: `BarrierSound` |
| `libvhd.c:2337` | a batmap that grows by a sector is written without it; `vhd_write_batmap` returns 0 in any case | `vhd_resize`, `Images <- GrowingMap`, `Goals <- GrowingMapGoals`, no faults: `ResizeDelivers` |
| `libvhd.c:3815` | a fill interrupted after its BAT write leaves a block of old file contents | `vhd_chain`: `FillKeepsData` |
| `tapdisk-control.c:1491` | a nested exclusive handler clears `busy` of the outer one; the outer one misses that its connection is gone, and answers another client | `tapctl`, `MaxConn = 3`, `Minors = {m1,m2}`, `Programs <- MCThree`, `Starts <- MCBoth`: `ConnectionsSound`; the same with `Programs <- MCGivenUp`: `RightAnswer` |
| `tapdisk-control.c:961`, `:934` | two waits of the close handler do not look whether its client is there; the next client of the entry gets the answer | `tapctl`, `Programs <- MCForced`, and, for `:934`, `Programs <- MCClosed`: `RightAnswer` |
| `td-blkif.c:316` | a ring disconnected with requests pending stays mapped, while tapback says Closed | `tapback`: `PagesBack` |
| `scheduler.c:195` | `BUG_ON` looks at dead events, which may be masked and pending | `drivers`, `DropMasked = TRUE`: `SchedulerSafe` |
| `backend.c:854` | a VBD removed and created again at once is not noticed | `tapback`, `FastReplug = TRUE`: `NoPanic` |
| `tapdisk-nbdserver.c:986` | a client that is gone is not recognised; its reply may go to another | `nbd`, `FdReuse = TRUE`, `MaxSock = 3`, `MaxLoad = 9`, `SockLoad = 2`: `NbdSafe` |
| `tapdisk-nbdserver.c:1069` | one `handshake_fd` for all clients | `nbd`: `HandshakeOwned` |
| `tapdisk-nbdserver.c:1036` | the handshake event of a client that has gone stays, and takes or blocks on the next client's handshake | `nbd`, `LeaveEarly = TRUE`: `RequestsEnd` |
| `vhd-util-resize.c:809` | `resize -j` of preallocated metadata counts from it, and gives another size | `vhd_resize`, `Images <- Preallocated`, only `ResizeDelivers` |
| `libvhd-journal.c:568` | the journal of such an image holds a shorter BAT than revert demands | `vhd_resize`, `Images <- Preallocated`: `Recoverable` |
| `libaio-backend.c:81` | deferred tiocbs are forgotten when a submission fails | `drivers`, `FailCrowded = TRUE`: `DriversAnswer` |
| `libaio-backend.c:197` | a callback that reuses its tiocb cuts the list being cancelled | the same with `ReuseOnCancel = TRUE`: `QueueSafe` |
| `block-llcache.c:54` | the error of SHARED is reset by the success of LOCAL | `drivers`, `Faults["llp"] = {"io"}`: `LeafSafe` |
| `block-llcache.c:323` | a read in mode `LLP_SHARED` falls through to `BUG()` | `drivers`, `Faults["llp"] = {"read"}`: `LeafSafe` |

Three differences between documentation and code: the return values of
`tapdisk_xenblkif_disconnect`; the moment at which `block-vhd.c` starts the BAT write;
the size of `block-cache.c`'s cache.

Met while modelling, without a line in the repository that says otherwise:

- *Virtual block device.* ENOSPC on a leaf that has a standby image is answered with
  success although the segment that met it was carried out nowhere: the standby image is
  put in front for the writes that follow (`tapdisk-vbd.c:1462`; `vbd_mirror`,
  `Reqs = {r1}`, `Kinds = EnospcKinds = {"standby"}`, writes only, no errors, messages or
  signals: `AckedServed`). ENOSPC on the leaf of an NBD mirror leaves the data in the mirror
  only, and reads pass by it (the same with `{"nbd"}`).
- *VHD tools.* A death between commit and enable leaves a complete image disabled,
  and revert refuses the empty journal (`libvhd-journal.c:1427`); resize ignores the
  result of `vhd_journal_remove` (`vhd-util-resize.c:1198`); without a batmap it
  returns before the new footer is written (`vhd-util-resize.c:865`); a death between
  the batmap and its header leaves a checksum that does not match; `modify -z` empties
  the BAT before the batmap, and clears a batmap it never read when there is none
  (`vhd-util-modify.c:63-74`); `fill -b` writes no footer
  and allocates past the end of a device; a killed write leaves no footer, and until
  it is repaired the last sector reads as zeros (`libvhd.c`, `vhd_read_at`); a change from a VHD to a raw
  parent is two writes.
- *Control.* A client that hangs up during pause leaves the pause requested
  (`tapdisk-control.c:1025`); a command whose client timed out is still executed; a
  failed attach in `tap_ctl_create` leaves the tapdisk; `tap_ctl_close` returns 0 on an
  unexpected answer.
- *tapback.* A tapdisk that dies while serving leads to a failed assertion
  (`DieServing = TRUE`, `NoPanic`); after a restart EALREADY is taken for the new ring
  (`RingMatches`); a domain's directory that is created again while its slave leaves
  is not served (`DomainLives = 2`, `FrontendsServed`); `reconnect` does not read
  `physical-device-path`.
- *NBD.* Unpause unmasks a client that has no free request (`PauseFull = TRUE`,
  `NbdSafe`); the driver answers EBUSY where its pool is empty but its caller never
  retries (`Overload = TRUE`, `MaxNbdReqs = 2`, `RequestsEnd`); the stash of descriptors
  overwrites a slot in use.
- *Rate control.* A write stored after the daemon's death, before the valve has
  noticed, waits for the next connection (`StoreOnDead = TRUE`, `DriversAnswer`); a
  valve closed while it retries leaves its timer (`CloseRetrying = TRUE`, `RateSafe`);
  the meminfo policy grants a part of a need and forgets the rest.
- *Caches.* Parts of one ephemeral-cache request that end differently, a reopen
  after the switch, a read that stores over a newer write in `lcache`
  (`Faults` `"split"`, `"reopen"`, `"race"`, `LeafSafe`).
- *Changed blocks.* cbt-util on a log in use loses bits (`Racing = TRUE`), a log
  shorter than its disk is mapped whole (`ShortLog = TRUE`), a failed write of the
  bitmap is followed by the new size (`WriteFails = TRUE`), all `ChangesLogged`.
- *Stream.* A count of 0 never ends (`Counts = {0}`, `DriversAnswer`); a short write
  loses output (`ShortWrites = TRUE`, `StreamExact`).
- *Rings.* With two rings of one context and polling, `EventuallyServed` does not
  hold: a ring destroyed while polling leaves the shared event masked
  (`td-blkif.c:215`).

## 7. Not modelled

- Fixed disks and encryption of `block-vhd.c`, the aio, ram and crypto drivers: no
  control of their own.
- The blktap2 kernel ring (`tapdisk-blktap.c`, `tapdisk-ring.c`): superseded by the Xen
  block interface, whose shape it shares.
- The VHD index (`libvhd-index.c`, `block-vindex.c`): written once, in order.
- `tapdisk-diff` (the loop of `tapdisk-stream` over two images), `vhd-util scan`,
  `query` and `read`, the LVM helper, cpumond, logging, statistics, metrics: input,
  output and formatting.
- Byte layouts (message structs, NBD options, CHS geometry, locator encodings) are
  abstracted to what validation tells apart. The test programs under `mockatests` are
  not part of the product.
- Memory allocation failures, except where a module names them, and data races with
  signal handlers inside list operations.

## 8. Plan

Done: the modules above; the theorems of section 4.

Proofs: of `AtomicResize`, that a disk in service never loses a sector.

Models: a composition of `XenBlkif` with `Vbd`, and an abstract disk (a register per
sector) that `BlockVhd` implements.
