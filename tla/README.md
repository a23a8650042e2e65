# TLA+ models of the XRComm FCS platform

The repository packages a two-radio capture and playback system: an 8-channel
(8T8R) and a single-stream (wideband) flavour of

* a **platform driver** (`xrcomm_server`, shipped as a binary) that receives IQ
  samples and hands them to customer applications through POSIX shared memory.
  Its shared-memory protocol is header-only code, present in source:
  `platform/XRComm_platform_drivers/include/`;
* **applications**: `hello_world` (IQ batches through shared-memory rings) and
  `hello_world_fullpkt` (whole packets through DPDK rings);
* a **playback executable** (`8T8R/playback/src/`) that plays waveform files out
  of two network ports;
* **playback control servers** (Python for 8T8R, C++ for wideband) that edit
  `config.ini` and start and stop the executable.

Paths below are relative to `src/XRComm_FCS_platform/`; `SHM` stands for
`8T8R/platform/XRComm_platform_drivers/include/xrcomm_ip_shm_channel.h` and
`CLI` for `xrcomm_ip_client.h` beside it.

## Inventory

| Component | State it keeps | Operations | Interacts with | What makes it correct |
|---|---|---|---|---|
| IQ ring (`SHM` 108-135, 342-393) | `head`, `tail`, slots | push (processing core); peek, read in place, consume, count (application) | shared memory, acquire/release only, no lock | no slot overwritten while read; accepted batches delivered once, whole, in order; dropped only when full; across 2^32 wrap |
| Registry and dispatch (`SHM` 398-641, `CLI`) | per slot: `registered`, `active`, `ring_ready`, subscription, drop counts; platform-private `g_iq_rings[]`, `g_iq_ring_n_open` | register, wait_ready, poll, shutdown (applications); 1 Hz `ip_shm_poll_registrations`, `ip_shm_shutdown_all` (main loop); `ip_shm_dispatch_iq` (processing core) | three kinds of parties through atomics; applications time out and crash | one consumer per ring; announced and attached rings are open; no ring leaks; newcomers are served, departed ones cleaned up |
| Playback executable (`8T8R/playback/src/` main, file_reader, tx) | `running`, loop position, waveform cache, payload ring, mbuf pool, counters | launch, signal, `q` key; reader: load, enqueue, rewind, free; TX: dequeue, build, send | five cores, one shared flag, SP/SC rings of pointers | all packets accounted for; wire order; loops honoured; every stop request stops everything; nothing freed in use |
| Live keys, triggers, tuning (stats.c, universal.h 63-83) | input mode, trigger offsets, header template, tuning | keys; TX core copies the template | byte stores, no lock | offsets valid, snapped to the nearest; tuning rate never 0 |
| Configuration loader (config.c) | none | parse, validate | file written by the control servers | malformed values refused, same value read by all three parsers |
| Packet header template (protocol.c) | template bytes | init | TX core | byte layout |
| NVMe reader (reader.c) | outstanding requests | submit, complete | SPDK callbacks | not in this build |
| 8T8R control server (`playback_grpc_server.py`) | `config.ini`, `self.proc` | Set*/Get*, Start, Stop, diagnostics | eight worker threads, no lock | no lost update; at most one child; Stop idempotent |
| Wideband control server (`xrcomm_playback_control.cc`) | `config.ini`, child pid | same | two mutexes | same; Stop must not block the service |
| Full-packet application (`hello_world_fullpkt.c`, wideband `xrcomm_ip_shm_channel.h`) | `dsp_ready`, `g_stop`, mbufs in hand | attach, wait, announce, receive, drain, return, leave | the platform's control segment, two DPDK rings, signals | every mbuf returned once; fed only while it serves; a signal ends it; the platform's pool recovers |
| Console control (`8T8R/.../console_control.h`) | flags, console thread, prompt choice, buffer of stdin | startup prompt, init, keys, shutdown | the pipeline's control block, which gRPC writes too, a terminal or pipe, main program and thread | modes are what the keys ask for; what a key wrote in the control block agrees; a typed line waits for the next input at most |
| Binaries, stubs, clients, scripts | - | - | - | no source, or no state |

The hard behaviours: three parties on the registry with no lock and a one-second
poll; stale loads and cursor wrap on the ring; use of freed memory at the end of
a playback; one stop flag written by four parties; concurrent edits of one file.
`PROJECT.json` lists each hazard at its line with the properties that cover it.

## Plan

Everything with source and state of its own is modelled; the order was

1. `IqRing` over `IqQueue` (data plane), with proofs.
2. `IpRegistry` (control plane and dispatch), with proofs.
3. `Playback` (executable), with proofs.
4. `LiveKeys`: the key-input machine, `validate_trigger_offset` with its
   truncating division, the template patched under a copy, with proofs.
5. `PlaybackControl`, the Python control server over one `config.ini`, and
   `WidebandControl`, the C++ server with its two mutexes, over `ConfigStore`,
   with proofs.
6. `FullPacket` and `ConsoleControl`, with proofs.

Every safety property that a run checks is proved; liveness stays with TLC.

Composition: `ConfigFile` holds the text of `config.ini`, which both control
servers extend; both implement `ConfigStore`, `WidebandControl` until a read or a
write fails, `PlaybackControl` until two Set calls overlap. `IpRegistry` uses a
ring as the bounded queue that `IqRing` is shown to implement; `PlaybackControl`
uses of `Playback` only "started, ready for a signal, ended".

## Modules

### IqQueue (abstract) and IqRing (detailed)

`IqQueue` is what the data plane promises one application: offered batches are
accepted or, when `Depth` of them are owed, lost; accepted ones are delivered in
order. A batch leaves the window when the platform *notices* its release, not
when it happens.

`IqRing` has one step per shared-memory access of `xrcomm_iq_ring_push` (load
both cursors, copy samples, write metadata, store `head`), `_peek`, the
application's reads through the returned pointer, `_consume` and `_count`.

* Batches are numbered; a slot holds the number of the batch its samples and its
  metadata come from, so tearing is visible.
* An acquire load returns any value the other side has stored since the last one
  this side loaded (`TailLoads`, `HeadLoads`): coherence and nothing more. The
  release/acquire pairs make the slot contents visible with the cursor; x86 and
  the C11 model both give that.
* Cursors wrap at `W` (2^32 in the code).
* `accepted` and `out` are history variables.
* `PushFull` includes the caller's count of the drop (`ip_shm_dispatch_iq`).
* `IqRing!RingCount` is called by the application, as `xrcomm_ip_client_ring_count`
  does.

Refinement mapping: the window is the suffix of `accepted` after `seenTail`,
`taken` is `Len(out) - seenTail`.

### IpRegistry

Applications (`Clients`) run through register (scan, compare-and-swap, three
stores, clear `ring_ready`), wait, attach, receive, shut down; they may time out
or crash at any step, and start again. The platform's main loop runs
`ip_shm_poll_registrations` load by load; ring creation may fail; its processing
core runs `ip_shm_dispatch_iq`, reading `g_iq_rings[i]` once to test and once to
push, as the code does. A ring is a number, fresh at each
`xrcomm_iq_shm_create`; `name` is the shared-memory name of the slot, `mapped`
the rings the platform has mapped. A push through an unmapped ring is
`DispatchFault`, after which the platform is dead. The subscription is tested
(`Routed`) with the 8T8R rule; wideband is its `All` case.

Abstractions: `Receive` ignores the IP-mode gate of `xrcomm_ip_client_poll`
(batches are received after an arbitrary delay anyway); registry name, version
and pid are not read by anyone and are left out; process exit unmaps. The caller
of `ip_shm_shutdown_all` is in the binary: that the processing core is idle then
is assumed.

Registration sets `active` (`CLI` 96) and then clears `ring_ready` (97). A poll
between the two opens the ring and sets the flag, which the client then erases; the
slot has its ring from then on and no poll sets the flag again, so that an
application with time-out 0 waits for ever, the first time it registers, although the
ring is open; the header (`CLI` 148-150) says "block until the platform opens this IQ
ring". An application that takes a slot again before the poll
has seen it given up ends the same way. `Erased` describes where these two leave a
waiting application: its ring open, its flag down, and no poll on the way to set it.
`WaitKeepsFlag` says that no step leads there from a wait that is to be served, and
`ServedUnlessErased` that such a wait is served or given up.

### Playback

The main core initialises, sets `running`, launches reader 0, TX 0, reader 1,
TX 1, runs the statistics loop while `running`, and joins. A reader loads its
cache (or takes the process down when it has no usable waveform, as a TX core does
that gets no working array), then checks
the flag and its loops, enqueues a burst of pointers (as many as fit), rewinds,
and at the end frees the cache and clears `running`, in that order. A TX core
dequeues a burst, allocates mbufs for it or puts the pointers back, builds
packets with consecutive sequence numbers, and hands them to the NIC, which
takes any prefix that fits its descriptors and returns the mbufs of packets
already on the wire at the next call.

Positions in the cache stand for payloads. A port's cache holds `CachePkts`
packets: that is the *unrolled* cache (file_reader.c 83-87), whose passes
`loop_count` counts. DPDK's ring, pool and NIC queue are modelled by what they
promise. CBR pacing (tx.c 143-165) only delays a core. The two ports have
distinct `tx_port_id`s, as in the shipped configuration.

### PlaybackControl

Workers are the gRPC thread pool. A Set call is five steps: read `config.ini`,
open the temporary file, write it, rename it, take the snapshot. Files are
inodes under two names, so that a worker that has opened the temporary file
keeps writing to its inode after another has renamed it to `config.ini`, and a
write over another's leaves the longer one's tail, cut anywhere (`Junk` is the
line no parser recognises). Start and Stop read and write `self.proc` one access
at a time; the time-out of 15 s may come whenever the child lives. A SIGINT
kills a child that has no handler yet, is lost on one that has and initialises
(the violation `signal_stops` of `Playback`), and ends one that plays. A child
loads the file with the rules of `config_load`; after that the server can tell of
it only whether it plays, is ending or has ended. `Restart` is the server's death
and return: children survive, `self.proc` does not.

Two history flags say which guarantees apply: `apart` (no two Set calls have
overlapped) and `calm` (no two process calls have, and no restart left a child
behind). The code has no lock, so without them the properties fail: of two
overlapping Set calls, one may open and truncate the temporary file that the
other then renames to `config.ini`, which is empty until the first has written,
and the later rename takes back the earlier call's change.

Two overlapping Starts both launch a process, and a Stop is refused by a server restarted
over a living child. All of this is in the model, and contradicts the server's own words:
each Set "rewrites ONLY its own key" (`playback_grpc_server.py:8-9`), and Start and Stop
return "a gRPC error if already in the requested state" (11-12).

Any file operation may raise an `OSError` (`SetFails`), which ends the call with part of
the text in the temporary file. A child killed after the time-out may still live when the
second wait of 5 s ends in an exception (`StopTimeout`): the call fails and `self.proc`
stays.

Refinement mapping: `conf` is the content of the inode named `config.ini`, `damaged`
is `~apart`. The rename is the store's `Set`; the steps before it do not touch that
inode, unless two Set calls overlap.

Abstractions: a line is a key and a value out of `Values`, or `Malformed`, which
the initial file may hold; comments, which `_rewrite_key` copies with their line,
are part of the value. Requests that do not validate change nothing and are left
out, as are Get and diagnostics calls. Spawning and assigning `self.proc` are one step.

### ConfigStore (abstract) and WidebandControl (detailed)

`ConfigStore` promises that `config.ini` changes by whole Set operations, each in
the lines of its own key (a line added, or the first of them rewritten and the
repeats left as they are), until it is `damaged`: for `WidebandControl`, until a read
or a write of it has failed.

`WidebandControl` is the C++ server. A Set call locks `cfg_mtx_`, reads, opens the
temporary file, writes, renames and unlocks; then it looks under `proc_mtx_`
whether playback runs (reaping it if it has ended), then takes the snapshot
under `cfg_mtx_` again. `SetRead` and `SetWrite` may come out short without anyone
noticing (`failed`), as an unopened `ifstream` and a full disk do; `SetOpen` and
`SetRename` may fail with an answer. Since the mutex is held from read to rename,
the temporary file is one variable here and no inodes are needed. Start keeps
`proc_mtx_` from its look at the child to the fork, Stop from its look to the end
of `waitpid`. `PollChild` is `is_running_unlocked`. The signal may do nothing: its
result is unchecked, and a server that is not root may not signal the `sudo` it
started. A failed read or write loses the other keys, although the comment at
`xrcomm_playback_control.cc:139` says "leave all other lines byte-for-byte". The process itself is a binary: it ends by itself or as asked.

In contrast with `PlaybackControl`, the guarantees hold for every overlap of
calls; the price is `Stuck`, a Stop that waits in `proc_mtx_` for a process that
did not get its signal, and which every Set (after it has written), Start, Stop and
diagnostics call then waits behind.

Refinement mapping: `conf` is `file`, `damaged` is `failed`.

### LiveKeys

The stats core reads one key per step: `#` and `t` open an entry, digits, commas and
minus signs go to `input_buf` while there is room, Enter closes the entry and
applies it, any other key gives it up and is swallowed. `Request` is
`sscanf("%d,%d")` and `RateOf` is `(uint64_t)atoll`, both on `Scan`, which reads a
number as `strtoll` does; `ToInt` cuts it to the width of an `int`. `Validated` is
the *set* of what `validate_trigger_offset` may return: one value, unless
`requested - ch_local + 2` overflows, which C leaves undefined.

A header template is its four trigger bytes; a TX core copies them one at a time, in
any order, while the stats core stores into them. `shown` is `trigger_offsets`,
what the console displays. `since` notes the offsets shown since the copy of a byte
became due: a copied byte must be among them.

Abstractions: the sleep between two reads of the keys only delays; a byte store and
the store to `trigger_offsets` are one step, since no other core reads the latter
(universal.h:124 names `protocol_update_header` as a reader, but nothing calls
it); the rest of a packet, when it is sent, and how many are built after `running` is
cleared belong to `Playback`; what tuning
does to the pacing is left out. `Lines` bounds what the operator types, not what is
done with it; keys that mean nothing outside an entry are left out.

### FullPacket

The control segment is created by the platform in six steps (unlink, open, size,
version, flags, and later `pipeline_running`), of which an application may see any;
a segment a dead platform left linked is `old`, with any version, mode and
`dsp_ready`. The application attaches (opens and maps what is linked, then looks at
the version), waits for the pipeline, looks the rings up, sets `dsp_ready`, and runs
its loop: with the mode on it processes a burst, with it off it drains the ring; both
hand every mbuf back through `return_mbufs`, which spins on a full ring and does not
look at the stop flag. A signal sets `g_stop` at any time; the application may be
killed at any step and started again.

The comment at `hello_world_fullpkt.c:111` says the attach checks the segment's magic,
version and size. The header checks the version only, after mapping the whole structure: in
a segment the platform has opened and not yet sized that access is a `SIGBUS`
(`AppCheck`, the `killed` branch).

mbufs are counted. Two history variables weaken the promises where an application
dies: `orphaned` (one died with `dsp_ready` set, which nobody clears until the next
announces itself) and `lost` (mbufs of its burst, gone with it). `Refilled` weakens
`StopEnds`: the drain loop ends at an empty ring only, so a platform that fills it
again, the mode having been switched on, keeps a stopped application draining.

The platform's program is a binary: its steps (`FeedDecide`, `FeedEnqueue`,
`Reclaim`, `SyncFlags`, the order of its start and end) are what the header's comments
and the application count on, and are marked external where no source shows them.
What the application computes from a payload is left out.

### ConsoleControl

The main program asks for the startup modes, initialises the console, creates its
thread, registers the pipeline's control block, and at the end joins the thread for at
most two seconds; it may then initialise the console once more. The thread waits in
`select`, takes a line with `fgets`, and executes it as a key, one atomic access to the
flags per step.

The input is where it goes wrong: `select` sees what the kernel holds, `fgets` returns
what is in the buffer of stdin. A read may take several lines; the rest waits in the
buffer (`buf`) until `select` reports something else, and a line typed in part lets
`fgets` block, where the thread cannot see `thread_running` (`Blocked`). A join that
times out there leaves the thread behind; with a second initialisation there are two
threads on one input and one set of flags. `ModesFollowKeys` and `ControlAgrees` are
promised until that happens (`timedOut`). What such a thread does to a
`pipeline_ctx` that the second initialisation clears between its test and its use is not
modelled.

The control block has three writers. The program that hands it over
(`console_set_pipeline_ctx`, possibly between two steps of a key) is a binary and may have
set it up in any way. gRPC sets its entries, directly or by the main loop's copy of the
shared flags: `pipeline.h:213` even says "driven exclusively by gRPC", and `GrpcSet`
is an external action that may come between any two steps. And a key stores the console's
flag in it. So flags and block do part: after a key taken before the hand-over,
after a write over gRPC. `written` is the set of entries that a key wrote last;
`ControlAgrees` promises agreement of these, and nothing of the others. As a key stores
the negation of the console's own flag, it need not toggle what the block says, in spite
of the menu's "Toggle DSP dispatch" (`console_control.h:6`): where gRPC has switched a
mode off or on since, the key leaves it as it was.

`pipeline.h:13` still speaks of "mutual exclusion" of `enable_dsp` and `enable_logging`;
the same header at 211-212 and the code know none, and the modes are independent here.

The startup menu says "select all that apply, comma-separated"; `atoi` takes the first
number only, which `Chosen` models. Keys are model strings; menu and messages are left out.

## Runs

| Run | Checks | Shows |
|---|---|---|
| `iq_ring` | 6 properties of `IqRing` | the ring is a correct bounded queue |
| `ip_registry` | 6 of `IpRegistry` | the registry protocol is safe, serves whoever has not erased its own flag, closes rings of departed applications |
| `playback` | 5 of `Playback` | accounting, order, loops, pool, stopping |
| `playback_control` | 6 of `PlaybackControl` | until Set calls overlap they implement the store, take effect and touch one key, and no half-written file is loaded; until process calls overlap or a restart leaves a child there is one child, and Stop really stops; every call is answered, over every overlap |
| `wideband_control` | 4 of `WidebandControl` | it implements the store, signals no reaped pid, reports the exit of its child, answers every call unless a Stop is stuck |
| `live_keys` | 4 of `LiveKeys` | entries are what was typed, triggers the nearest valid offsets, packets carry what the console shows |
| `full_packet` | 6 of `FullPacket` | mbufs come back once, are fed only while one serves, signals end the application, pool and ring recover |
| `console_control` | 3 of `ConsoleControl` | modes, and what keys wrote in the control block, follow the keys; lines are taken, at the next input or its end at the latest |
| `crashed_ring_closes` (violation) | `CrashedRingCloses` | a crashed application's ring is never closed |
| `pushes_into_open_rings` (violation) | `PushesIntoOpenRings` | dispatch pushes into a ring just unmapped |
| `signal_stops` (violation) | `SignalStops` | a signal during initialisation is lost |
| `copies_live_payload` (violation) | `CopiesLivePayload` | packets built from a freed cache |

A run checks what could go wrong; plain consequences are proved instead (that the
window never holds more than `Depth` batches, that drops are justified, that
`WidebandControl` keeps one child and Stop ends it, that the buffer of `LiveKeys` holds
the entry typed (`EntryAsTyped`), and the types of `Playback`, of both
control servers and of `ConsoleControl`).

Each violation is a statement of the repository's own comments that the code
does not keep; `PROJECT.json` quotes them under `findings`.

Bounds and why they are enough:

* `iq_ring`: `Depth = 2`, `W = 4`, nine offers: every slot reused four times, the
  cursors wrap twice, full, empty and all stale views in between. The proofs
  remove the bounds.
* `ip_registry`: two applications competing for one slot, two rings ever opened,
  two batches: the slot changes tenant, each tenant may leave, time out or
  crash, and the ring is opened, closed and opened again. With two slots (scan
  past a taken slot, all slots polled) the same properties were checked by hand
  on 14.2 million states; that is too long for a routine run.
* `playback`: two ports, a cache of two packets, a ring of two, one TX
  descriptor, a pool just large enough, `loop_count` for ever (four packets read,
  two wraps) and one; with and without a usable waveform on the second port.
  Everything is full, empty, wrapped and refused within that.
* `playback_control`: two workers, two keys, three calls, one restart: any two
  calls overlap and a third sees what they leave; the file has a key missing,
  malformed or repeated. Three overlapping calls are out of its reach; the proofs
  remove the bounds of the safety properties.
* `wideband_control`: the same sizes; one well-formed value, since the file
  starts with malformed ones. The proofs remove the bounds.

* `live_keys`: two ports of two channels, four samples, an `int` of four bits and a
  buffer of four characters: offsets that are exact, rounded, clamped, negative and
  overflowing, a channel that does not exist, entries cut at every length, one
  longer than the buffer, rates of zero and above. The proofs remove the bounds.

* `full_packet`: four mbufs, a ring of three to the application and of two back, bursts
  of three and two: the return ring fills within a burst, the receive ring refuses
  packets, the pool runs dry, all mbufs may be lost to crashes. Applications, mode
  switches and signals are unbounded. The proofs remove the bounds of the safety
  properties.
* `console_control`: two lines out of a mode key, `x`, an aid, `q` and a startup choice
  (`4` is no key, `d` no choice), at most two lines per read, two initialisations: a key
  is executed while another waits in either buffer, the second thread meets what the
  first left; the block is handed over in every setting, and gRPC sets it at any time. With
  three lines the two invariants were checked by hand on 6.4 million states. `l` and `i`
  are handled as `d` is, on flags of their own; the startup choice sets them, so that `x` and `d` are seen beside them. The proofs remove the
  bounds of the safety properties.

`CHECK_DEADLOCK FALSE` is set where the system may really stop: the program
exits, the platform shuts down, or a bound on rings, packets or calls is reached.
`IqRing` is checked for deadlock (`RingCount` and `PeekEmpty` are always
possible, so this only says a cursor load is never stuck).

## Fairness

* `IqRing`: a push runs to its end (straight-line code on a dedicated core); the
  application keeps polling and a published `head` becomes visible in finite
  time (`WF` on `PeekFound`). This supposes the application's main loop runs and
  IP mode stays on, since `xrcomm_ip_client_poll` returns nothing otherwise.
* `IpRegistry`: the main loop keeps polling (`WF(Poll)`), ring creation does not
  fail for ever (`SF(PollOpen)`), a registration, straight-line code, runs to its end, and
  a waiting application looks at its flag every 10 ms (`WF`). No fairness on time-outs, departures,
  crashes or dispatch.
* `Playback`: every core has a processor of its own and no operation blocks, so
  `WF` on the main core, each reader and each TX core. None on signals or keys.
* `PlaybackControl`: a worker thread goes on with its call, and its wait for the
  child is bounded by the time-out: `WF` on each worker. None on the child, on
  new calls or on restarts.
* `WidebandControl`: `WF` on each worker and on the end of a process that was asked
  to end. A `std::mutex` is not fair: with boundedly many calls a waiting worker
  gets it in the end; with a never-ending stream of calls it might not.

* `LiveKeys`: `WF` on each TX core, which has a processor of its own; that its ring
  is fed is the reader's doing in `Playback`. None on keys.
* `FullPacket`: `WF` on the application, which polls on a core of its own, and, for a
  platform that is up, on the once-a-second copy of the flags, on the second half of an
  enqueue, and on taking mbufs back. None on feeding, signals, mode switches, crashes,
  start or end of either side.
* `ConsoleControl`: `WF` on each console thread. None on typing or the main program; a
  thread blocked in `fgets` has no step enabled, so nothing is assumed of it.

## Proofs

`IqRingProofs` proves for `IqRing`, for every `Depth`, every cursor width `W`
that is a multiple of `Depth` and larger, and every number of offers
(`RingAssumption`), all the safety properties the run checks: `TypeCorrect`,
`SlotExclusion`, `Fifo`, `CountBounded` and `Refinement` (`Spec => QueueSpec`), and
besides `Bounded` and `DropsJustified`. The module begins with the facts on remainders
that wrapped cursors need (`DivMod`, `ModUnique`, `ModMod`, `ModSucc`).

The properties are not inductive. The inductive invariant `IInv` adds

* `CursorInv`: the cursors are the histories' lengths modulo `W`, so that wrapped
  arithmetic can be traded for natural numbers;
* `WindowInv`: `seenTail <= C <= seenHead <= P`, and the producer is at most
  `Depth` ahead of what it has *seen* released, strictly so in a push;
* `SlotInv`: each published, unreleased batch lies whole in its slot, and the
  slot at `head` holds what the push in progress has copied;
* `GotInv`: what the consumer has copied is the oldest unreleased batch.

`FreeSlot` is the heart: within `Depth` of each other two batch numbers fall in
different slots, even modulo `W`, because `Depth` divides `W` (`ModMod`). One
lemma per action shows that `IInv` is preserved; refinement maps the start of a
push, a drop, the store of `head` and the store of `tail` to `Offer`, `Lose`,
`Accept` and `Deliver`, every other step to stuttering.

`WidebandProofs` proves for `WidebandControl`, for any workers, keys, values, texts,
calls and restarts, every safety property of its run and `Refinement`
(`Spec => StoreSpec`). The inductive invariant adds to the types

* `SetInv`: the worker that holds `cfg_mtx_` has read the file as it still is, and
  the temporary file is that text rewritten, unless a read or a write failed;
* `ChildInv`: what the holder of `proc_mtx_` knows of `child_` stays true;
* `OrderInv`: before the first restart `child_` is the youngest process and the
  only one not reaped, which is what makes `last_exit_` the last exit status.

`RewritesOneKey`, that rewriting a key in any text touches
lines of that key only and puts the value where the first is read, carries the
refinement of the rename to `Set`. All lemmas hold from `FileAssumption` and
`WidebandAssumption` alone: malformed values are no values, the text is made of
lines, `NoOne` is no worker.

`LiveKeysProofs` proves for `LiveKeys`, for any number of ports, any even number of
channels, any packet of at most 128 samples that they divide, any buffer, width and
typed lines, every safety property of its run. `RoundsToNearest` is the arithmetic:
the truncated, clamped sum is a valid offset and no valid one is nearer, by
`RoundedForm` (within half a group of the request, or the lowest offset) and
`HighestForm`. The inductive invariant adds that the template holds the encoding of
what is shown (`TemplateMatches`) and that what is shown is noted for every byte
still to be copied (`SinceCurrent`); a byte then decodes to what was noted
(`ByteRoundTrip`, where 128 is the limit). What `Scan` computes is not proved:
the theorems hold whatever it reads.

`IpRegistryProofs` proves for `IpRegistry`, for any applications, slots, rings and
batches, the four safety properties of its run: `SingleConsumer`, `RingStaysOpen`,
`NoLeak` and `FlagKept` (`WaitKeepsFlag`). The poll reads `registered` and `active` one
after the other and acts later, while the slot may change hands. The inductive invariant adds

* `HolderInv`: a slot has one holder, whose flags are set;
* `RingInv`: pointer, name and mapping of a slot's ring come and go together, but
  between the unmapping and the cleared pointer, and no two slots share a ring;
* `Serving`: the ring of an application that has seen `ring_ready`, or would, is open,
  and the poll has not read a flag of its slot cleared. This is why the client clears
  `ring_ready` *after* setting its flags: set again, it was set by a poll that opened
  the ring since, and every later poll reads both flags set.

`PlaybackProofs` proves for `Playback`, for any number of ports, any cache, ring, bursts,
descriptors and `loop_count` with a pool of at least
`RxDescs + TxDescs + TxBurst` (`PlaybackAssumption`, what `init_dpdk` provides), every
safety property of its run: `Accounting`, `Loops`, `Pool` and `Order`. The heart is
`Stream`: the payloads in the ring, in the TX core's hands, in the burst and on the wire
are consecutive parts of one numbered stream per port, so that what a packet's number
calls for is what it carries, whatever is dropped. `ReadInv` says a reader has read whole
passes and an offset (`Nth`, remainders by `CachePkts`). `Pool` is needed for the order:
it excludes the branch of `TxBuild` that puts pointers back at the end of the ring.
The bound `MaxPackets` on an endless playback is a parameter like the others.

`FullPacketProofs` proves for `FullPacket`, for any number of mbufs, capacities and
bursts, `TypeCorrect`, `Ownership` (`Conserved`) and `FedOnlyWhenServed`
(`ReadyMeansServed`). Types, sum and ownership are inductive only together: the pool's
bound needs the sum, the sum needs the rings' bounds.

`PlaybackControlProofs` proves for `PlaybackControl`, for any finite number of workers,
any keys, values, texts, calls and restarts, every safety property of its run:
`Configured`, `SingleChild`, `SetTakesEffect`, `StopStops` and `Refinement`
(`Spec => StoreSpec`). The server has no lock, and its properties promise something only
while calls have not overlapped; the inductive invariant says what then is as good as
a lock:

* `FileInv`, while `apart`: one Set call at most is in flight; what it has read is still
  in `config.ini`, the temporary name belongs to the inode it writes, which is empty
  until then, and the text to be renamed is the one read, rewritten; and no key that
  every initial file has has been lost (`KeysKept`), so that whenever a child loads the
  file it finds it;
* `ProcInv`, while `calm`: one process call at most is in flight; a child that lives is
  `self.proc`; none lives when a Start spawns or a Stop has waited; and a Stop waits for
  `self.proc`. Without the last clause the kill after the time-out might hit another
  child than the one waited for;
* with the types, that there are never more children and Starts about to spawn than
  calls, so that a child's number is always free, and that a call's `fd` is an inode
  where it is used as one. `FreeInode` counts the inodes: two more than workers are
  enough for the file, the temporary file and every file still being written.

No step of `FileInv` looks at the children and none of `ProcInv` at files (`SetFrame`,
`ProcFrame`), except the load of the file by a child. `RewritesOneKey` is proved here
too, with one more part: of a key that occurs at most once the rewritten text has one
line, the first and the last at once, which is why the snapshot agrees.

`ConsoleProofs` proves for `ConsoleControl`, for any keys, lines and initialisations,
`ModesFollow` (`ModesFollowKeys`) and `ControlMatches` (`ControlAgrees`). Both are about
states in which no key is being executed; the inductive invariant says how far the flags
(`Follows`) and the control block (`Mirrored`) have followed a key at each step of it:
loaded, negation stored, mirrored, or the first flags cleared. `OneThread` is what makes
this one thread's business: until a join times out, the only thread that has not
ended is the last one created, and there is none before it is created and after it is
joined; hence nothing changes between the load of a flag and the store of its negation.
`ControlMatches` is about the entries in `written` only: the hand-over of the block finds
none in it, a key's store adds its own, and a write over gRPC takes one out.

Only model-checked: all liveness (`EventuallyDelivered`, `ServedUnlessErased`,
`DepartedRingCloses`, `StopsAll`, `TriggersReachWire`, `StopEnds`, `PoolRecovers`, `Drained`,
`LinesTaken`, both `EveryCallReturns`), which is beyond the proof system, as is what
`Scan` of `LiveKeys` computes, and the violations. Two lemmas about `config.ini` and three on
minima and remainders are proved in each module that needs them.

## Not modelled

See the components with status `not_modelled` in `PROJECT.json`. The platform
server's own loops, the gRPC bridge, the NVMe loader and the wideband playback
program are binaries; so are the callers of the header-only code, of which the models
assume what the headers' comments say. The NVMe reader (`reader.c`) has no caller:
`main.c` launches the file reader for every port. The packet header template is
straight-line byte packing. Of the configuration loader the rules for choosing and
refusing lines are modelled, the ranges of single keys are not. Spectrum statistics,
telemetry mirrors and throughput displays are write-only data. Generated stubs,
clients and install scripts have no state of their own.
