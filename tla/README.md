# GoNomad: a TLA+ verification of the transport, the daemon and the phone

GoNomad lets a phone work on its owner's development machine: a Rust daemon on
the machine, an Android app over a Rust client library on the phone, and between
them an authenticated, multiplexed connection. This directory models the parts
of it in which several tasks, two machines or a failure decide what happens, and
checks and proves what those parts promise each other. Every module is written
from the code under `src/`; `PROJECT.json` names the lines of each definition.

## 1. Inventory

| Part | State it keeps | Operations | Here |
|---|---|---|---|
| multiplexer (`transport/mux.rs`) | channels with credit, unacknowledged bytes, an assembler and queues; retired ids; reader and writer tasks | open, accept, send, recv, finish, drop, close; OPEN, DATA, WINDOW, RESET | `CreditFlow`, `Mux`, `MuxFlow`, `MuxWriter` |
| serving (`server/serve.rs`, `transport/tcp.rs`, `iroh.rs`) | handshake slots, accept queue, a task and a router per connection, registry of live connections, sweep | accept, greet, time out, queue, read the grant, serve, sweep | `Serve` |
| pairing window (`server/serve.rs`, `server/router.rs`) | deadline, the connection served, its `PairingState` | accept, `sys.register`, persist, reply | `Pairing` |
| device table (`store/devices.rs`) | one row per device: status and grant | pair, revoke, set_grants, list_active, grants | `Devices` |
| control stream (`ffi/client.rs`, `server/serve.rs`) | waiting calls by correlation id, the reader task | hello, request, response, cancel | `ControlStream` |
| phone client (`ffi/client.rs`, `ffi/storage.rs`) | the live connection, the pairing in progress, the saved daemon and the device key, in memory and in files; pollers, status | connect, disconnect, requests, begin/confirm/cancel pairing, unpair, restart, terminals | `Client` |
| terminals (`pty/session.rs`, `server/router.rs`) | the session map behind one lock, child processes, exit watchers | spawn, write, resize, kill, list, reap | `PtyManager` |
| terminal tabs (Kotlin `TerminalsRepository`, pollers of `client.rs`) | tabs, the active one, pollers, the last status seen | open, restore, select, close, input, frames | `Terminals` |
| rate limiter (`policy/rate_limit.rs`) | a bucket per device and class: parts of a token, slots, bytes | acquire, release, reserve, reset, forget | `RateLimiter`; called by nothing but its tests |
| path guard, denylist, capability check, files (`policy/`, `server/fs_service.rs`) | none of its own; decisions over a disk that others change | authorize, resolve, list, read, start a shell | `FileService` |
| audit log (`store/audit.rs`) | hash chain, signed checkpoints | append, rotate, verify, verify with an anchor | `AuditLog`; called by nothing but its tests |
| pairing window with attempts (`core/pairing.rs`) | attempts, deadline | opened by an example and its tests only | no |
| session registries (`store/sessions.rs`) | rows about terminals, agents, tabs | called by tests only | no |
| Noise session, identity, SAS, handshake bytes | keys | cryptography | no |
| migrations, settings, CLI, discovery, FFI conversions, Compose UI | rows, files, widgets | sequential | no |

How they interact: the phone dials over iroh; the handshake asks the device
table (or, during pairing, only the QR's key) whether to go on; the accept loop
takes the connection from a bounded queue, reads its grant and starts a task; the
task answers the control stream, and its router asks the path guard for every path and
the PTY manager for every terminal; the mux carries that stream and others over
one byte stream when the binding is TCP. Other processes (`gonomad pair`,
`gonomad devices`) edit the device table at any moment, and the sweep closes what
is no longer allowed. In the app, the tabs are a view of the daemon's terminals,
rebuilt after every connection. The rate limiter and the audit log are complete
components with rules of their own, but at this commit nothing in the daemon calls
them; what they promise is checked against any order of calls.

What is hard: credit counted on both ends of a link that may end anywhere;
teardown crossing data; a writer that sleeps while others notify; rows revoked
between a check and its use; handshakes that fill their slots; a registration that
is decided, recorded and answered in three steps; replies racing timeouts and
callers that are aborted; a phone whose calls tear down state other calls await and
write one temporary file; a list of terminals that is old
when it is used; a manager whose lock is held while a child is waited for; links
made between the check of a path and its opening; a chain that must stay whole
through rotations and show damage through them; refills that round. `PROJECT.json`
lists each at its line under `hazards`, with the properties that watch it, or why
none does.

## 2. Modules

| Module | What it is |
|---|---|
| `CreditFlow` | the abstract promise of one direction of one channel, as running totals of bytes |
| `CreditFlowProofs` | its proofs |
| `Mux` | two endpoints, every critical section of `Shared::inner` a step, bytes named by frame |
| `MuxFlow` | `Mux` with, for each channel and direction, the mapping to `CreditFlow` |
| `MuxWriter` | the writer's sleep: lock, `notify_one`, `notify_waiters`, permit, `Notified`; its definitions say `Writer`, so that one module can prove about it and `MuxFlow` |
| `MuxProofs` | the proofs about `Mux` and `MuxWriter`, and about the books of `MuxFlow` |
| `MuxFlowProofs` | the proof that `Mux` implements `CreditFlow` |
| `Devices` | operators on the device table, shared by the two daemon modules |
| `Serve` | accepting and serving paired devices over either binding |
| `Pairing`, `PairingProofs` | one pairing window, and its proofs |
| `ControlStream` | hello, calls, slots and the reader on one side, `serve_connection` on the other |
| `Client`, `ClientProofs` | the phone's calls over one `Inner`, its files and restarts, and its proofs |
| `PtyManager` | the daemon's terminals behind their lock |
| `Terminals` | the app's tabs and pollers, over `PtyManager` (which it extends) and a connection that comes and goes; its definitions say `Tabs`, so that one module can prove about it and `ControlStream` |
| `PhoneProofs` | the proofs about `ControlStream` and `Terminals` |
| `AuditLog`, `AuditLogProofs` | the chain, its rotation and verification, and damage to the file; and its proofs |
| `RateLimiter` | the buckets; its specification says `Limiter`, so that one module can prove about it and `Serve` |
| `DaemonProofs` | the proofs about `Serve` and `RateLimiter` |
| `MCRateLimiter` | rows of the table of limits, scaled down |
| `FileService`, `MCFileService` | a file request from the router to the disk; the disks, requests and changes of the run |

The `MC*.cfg` files give the constants their values; definitions named after
another with a suffix (`Register_Late`) are mutants: the same step with a
plausible bug, used only to see that a property notices it.

Where a module has several invariants about one thing, a run checks their
conjunction under one name (`CreditSound`, `BooksAgree`, `AcceptorSound`,
`SlotsExact`, `LogKept`, `TabsMatch`, `UseCounted`, `GuardSound`); `WaitersReleased`
joins the two liveness properties of senders and receivers. The parts keep names
of their own in the modules, each with a mutant that breaks it.

### Correspondence

*Mux.* `ep[e]` is one end's `Shared` and `Inner`: `chans`, `retired`, `urgent`,
`out`, `cursor`, `credit` (the semaphore), `asm`, `unacked`, `rx`, and the handles
`send` and `recv` the application holds. A send is `BeginSend`, then
`AcquireCredit` and `PushData` per chunk; `recv` is `RecvFrame`, `RecvCredit` and
`RecvEnd`, since the credit goes back after the frame left the queue.
`WriterTakes` is one turn of `write_loop` with `take_next`, `ReaderTakes` one
segment of `drain_records` with its handler. `wire[e]` is the ordered byte stream
with record framing and encryption abstracted to whole segments; a record torn
by a cut is an abnormal end, a cut between records a clean one. `hist` holds only
what the properties need: the frames sent on a channel and whether the last one was
given up half way, the frames received, and how a channel ended for its reader.

*MuxWriter.* The steps of `write_loop` between which others run: `Arm`
(`notified.enable`), `Take`, `CheckClosed`, `Await`, `Write`; a producer queues
under the lock and notifies afterwards.

*Serve.* `pc[c]` follows a connection: `dialled`, `greeting` (handshake, holding a
slot over TCP), `greeted` (waiting for room in the queue, the slot still held),
`queued`, `accepted`, `granted`, `serving`, `ended`; each arrow is a place where
the device table may have changed. `queue` is the mpsc channel. `binding` is which
daemon was started: iroh asks the table as it is (`LiveAllowlist`), TCP the
`snapshot` of its start, and TCP alone counts slots and never sweeps. `Register`
pushes to the registry before the task runs. The sweep is `SweepLists` and
`SweepCloses`, as `sweep_once` releases the store before it locks the registry.
Store errors and poisoned locks, which refuse a peer or skip a pass, are left out.

*Pairing.* `loop` is `run_pairing_iroh`: `top` (deadline check), `accept`,
`serving`. `Register`, `Persist` and `Reply` are the router's decision,
`on_register` and the send; each may fail, the process may be killed between any
two, and the table may be edited beside it. The deadline is one step that may
come at any moment.

*ControlStream.* `req[r]` follows `Live::request`: `registered` (slot, before the
send), `waiting`, and how it returned. A reply that is delivered is taken even
if the timer is also due, as `timeout` polls the receiver first. The calls in
`Pollers` are made by tasks that the client aborts (`Aborts`) at any await: the
call is gone, its slot stays in the map until a reply or the end of the reader
takes it, and one aborted inside `send` may have put nothing on the stream, or
half a frame (`Torn`), at which the daemon ends the connection. `dropped` remembers
the replies that found nobody. `peer` says who answers:
`"serve"` is the daemon's loop, `"stub"` the daemon of `ffi/tests/end_to_end.rs`.

*Client.* A call of `GonomadClient` is a frame: its place, the connection it
holds an `Arc` of and the record it read. Each lock of `Inner` and each file
operation is one step, so two calls interleave where threads can: `TearDown` and
`ShowTornDown` are the two halves of `tear_down`, and `save_daemon` is three steps:
`SaveOpens` truncates the temporary file, `SaveWrites` writes it and `SaveRenames`
makes it the record. Its name is the same for every call, so `temp` is shared:
`touch_last_seen` may rename what a `confirm_pairing` has only opened, whose own rename
then finds nothing. `file` says where the bytes of a call arrive, `Torn` is the
content of a file that was opened and not written, and `cut` remembers a write that
failed under another call's save. `CachePairing`, `Spent` and `Paired` are the end of
`confirm_pairing`. Every opening, writing, renaming and removal of a file may fail. `Restart` drops everything but the files. A dial succeeds only at a machine
that has registered the key; its hello is answered. The phases `unpaired` and
`revoked` that a refused hello gives are left out, and so are pollers and
observers. When a pairing dial fails, the saved daemon is read and the phase set
in one step.

*PtyManager.* An operation runs with the mutex held, so it is one action, enabled
when `holder` is `None`. Two block inside it and set `holder`: a write into a
child's full input, and a kill that waits for its child. `Watch` is the exit
watcher of `spawn`. `orphans` counts children whose session was never inserted
because a step after `spawn_command` failed.

*Terminals.* A request of the app is issued, executed by the daemon and resumed
with its reply in three steps; a loss in between resumes it with an error, and
whether the daemon had executed it is open. `op` is the user's operation, `restore`
is `restoreFromMachine` with the list it was given and what is left of it, `seen`
the last value the collector of the status flow got. `Faults` names what the
environment may do besides losing connections: let user operations overlap a
restore, reconnect before the collector looks, or run a child that never reads.
The standing run has none of these; `MCTerminalsAcross` has the first two and the
same safety properties, and other configurations show what each fault breaks. Three
histories say which terminals the app can know nothing about until it takes another
list: `excused`, for which a request failed; `crossed`, opened or closed while a
reattach had its list, or by a restart of the daemon; `unpolled`, whose pollers ended
with a connection that the collector never saw go. `TabsMatch` and `NoFrozenTab` hold
every other terminal to its tab and its poller, so that what a crossing costs is
bounded to the terminal that crossed, and to the time until the next list.
`MatchesInTurn` and `PolledInTurn` excuse a failed request only: they are what one
would like, hold where nothing crosses, and are false otherwise.

*AuditLog.* The hash of an entry is the tuple it covers, a signature the content
that was signed. `Append` and `Rotate` are one IMMEDIATE transaction each, so a
crash before the commit is the action not taken; `ReadCheckpoint` and `ReadRows`
are verify's two SELECTs. `Damage` changes the tables once, in the ways the table
of `audit.rs:23-30` lists.

*RateLimiter.* Tokens are integers of `Scale` units; `idle` is the time since
`last_refill`. `exact` is a bucket that rounds nothing, kept beside the code's to
compare with; `promise` counts down the wait a refusal announced, to the newest
refused caller or, as `Refuse` chooses, to one refused before it, and `asked` counts
the refusals after the one that is followed, each of which cuts the idle time down to
whole units. `stray` counts the slots of a device that were held when it was
forgotten: `forget_device` looks at nothing, so they outlive the bucket.

*FileService.* `Request` is the router's and engine's part that looks at no disk;
`TrimFound`, `TrimMissing` and `TrimFails` are one turn each of
`canonicalise_deepest_ancestor`, `Probe` is `verify_still_missing`, `Open` the
service of a listing or a read. For the directory of a terminal `authorize_dir` returns
the path as it is and `PtyManager::spawn` hands it to the terminal library: `Spawn`
has the shell start there if it is a directory, and otherwise fail or start
`Elsewhere`, which no code of the repository decides. `FilterListing` is the filter
of a listing, an operator. `Walk` is the operating system's own path resolution; one `canonicalize`
is taken as atomic. `Change` is anybody else. The Windows forms of a bad name
(8.3 names, streams, devices) are one class, `BadNames`.

## 3. Runs

| Run | Bounds | Shows |
|---|---|---|
| `credit_flow` | window 4, frames to 4, segments to 2, 9 bytes | `CreditSound`: the window is neither exceeded nor inflated, and never deadlocks on a frame that fits it; `FrameEventuallySent`: however it is cut |
| `mux` | one channel, two frames of two one-byte segments, window 3; `finish`, either handle or the `Mux` dropped | `ImplementsFlow` (each direction of each channel is a `CreditFlow`), `BooksAgree` (semaphore, queues and wire add up to the window, and nothing is buffered beyond it), `FramesInOrder`, `FinishDelivers`, `NoViolation` (crossing RESET, DATA and WINDOW is never taken for a violation) |
| `mux_live` | one channel, two frames of two segments; `finish`, `close`, a cut | `FramesArrive`, `WaitersReleased`, `CloseReachesPeer` |
| `mux_writer` | two producers, two segments each, batches of 2 | `NoLostWakeup` |
| `serve` | two phones, two connections, one slot, a queue of one, either binding | `AcceptorSound` (slots, queue and grants), `RevokedNeverServed`, `PassReachesAll`, `RevocationReaches`, `NobodyStalls` |
| `pairing` | two phones, two dials each | `ToldIsRecorded`, `ExecutedIsRecorded` |
| `control` | three requests, two of them of pollers, either peer | `SlotsExact`, `LossWakesCallers`, `AbortedSlotsGo` (the slot of an aborted poller goes with the reply) |
| `client` | two calls, one machine, two connections, two keys, one temporary file | `RememberedIsRegistered`, `NoCorpse`, `PairingSurvives` (a pairing that was told has its record, whole but while another call's save is writing it or failed to) |
| `audit_log` | three entries of two kinds, two clock readings, caps 0 to 2, one reader, one damage | `LogKept` (an honest log loses nothing and stays in order), `DamageLocated`, `NoLaundering`, `AnchorProves`, `AlarmOnlyAcrossRotation` |
| `terminals` | two ids, at most two terminals, a buffer of one; one operation at a time, every loss seen | `TabsMatch`, `NoFrozenTab`, `ManagerFreed`, `ViewComesBack` |
| `rate_limiter` | a device; one class with a rate and two slots, one global with a budget and a slot, one global of bytes; four units a token, two ticks a unit, waits rounded up to three ticks; the device forgotten at any moment | `UseCounted` (what a bucket counts is off by the slots that outlived it, and by no more), `NeverFaster`, `RetrySuffices` (the announced wait is off by no more than a unit for each later refusal), `PollerServed` |
| `file_service` | six locations, every tree of directories, files and links over them, two changes | `GuardSound`, `ServedIsAllowed`, `CreatedWhereApproved` |

Every state space is finite by the bounds alone and explored to its end: the
largest are `client` (2.21 million states, calls interchanged counting as one),
`audit_log` (1.05), `serve` (0.97), `file_service` (0.77),
`mux` (0.52) and `terminals` (0.47); `serve` and `terminals` take longest, about two
and a half and one and a half minutes with two workers. Deadlock is not checked: each system may stop,
when its bounded work is done, its connection closed or its window ended.

*Why the bounds are enough.* Credit runs out, is returned in part and comes back
as soon as a frame takes two segments and a second frame follows, which windows
of 2, 3 and 4 give; with 3 a whole frame and part of the next are buffered at
once. A mistake of the sweep takes one connection listed and one replaced under
it, so two connections and two devices; with one slot and a queue of one, two
connections fill both. A second registration takes two phones, a second call of
the same phone two dials. In `Client` every race found is between two calls; three
would only repeat one of them, and the second key is the one a restart after
`unpair` makes; a torn record takes two saves as well. Three requests are two
pollers, one aborted before the other's reply, beside a call that waits. Three entries give the chain a first, an inner and a last one, and
a rotation that leaves one, two or none. Two terminals let a list be stale about
one while the other is right, and one attach fail while the other succeeds. With four
units a token and two ticks to refill one, a poll falls between two units and between
the last unit and the token, and several refusals cut time off before another caller
comes. The keys of two devices share nothing but the clock, so one device and the
global classes, which forgetting it must spare, give every interleaving of a key. Two
changes of the disk are one under the guard's walk and one after it.

### Beside the standing runs

Two configurations pass and are too much for, or too like, a standing run.
`MCTerminalsAcross` checks `TabsMatch` and `NoFrozenTab` where operations overlap a
restore and the connection comes back unseen, with one terminal at a time (2.14
million states); with two, and either fault or both, they held too (18.8 million). `MCRateLimiterUse`
checks `UseCounted` for two devices over classes without a rate. `MatchesInTurn` and
`PolledInTurn` hold in place of `TabsMatch` and `NoFrozenTab` under `MCTerminals`.

The others end in a violation, some of them with one property in place
of another, as the first column says. Each property is something a comment, a
document or a user of the code would expect; they are kept for whoever changes the
code, and named in the hazards' notes.

| Configuration | Property | What happens |
|---|---|---|
| `MCPairingTwice` (`Pairing`) | `SingleUse` | a connection that fails after its registration is recorded leaves `run_pairing_iroh` accepting, and a second phone registers with a "single use" code (`serve.rs:307`) |
| `MCPairingHeld` | `WindowExpires` | a phone that stays connected keeps the window open past its deadline (`serve.rs:264`) |
| `MCControlHello` (`ControlStream`) | `HelloIsAnswered` | no code of the daemon answers `Hello` (`serve.rs:670`) |
| `MCControlLate` | `NoneWaitsForAnEndedReader` | a call registered after the reader ended waits for its own timeout |
| `MCClientOrphan` (`Client`) | `KeyStaysWithPairing` | `unpair` removes the seed file but not the key in memory; a pairing made before the next start is orphaned by it (`client.rs:829`) |
| `MCServeGrant` (`Serve`) | `GrantNeverStale` | `engine.rs:52-55` has grants "loaded from the store on every request"; the daemon reads them once per connection (`serve.rs:375`) |
| `MCServeTcp` | `StaysOut` | the TCP daemon asks a list as old as itself (`serve.rs:535`) and never sweeps |
| `MCServeStale` | `SweepSparesActive` | a device paired between the sweep's query and its lock is closed |
| `MCMuxLimit` (`Mux`) | `NoViolation` | a channel opened while a RESET that frees one is in flight exceeds the peer's limit, and the peer ends the connection |
| `MCMuxTorn` | `CleanEndIsWhole` | a peer that closes between two segments of a frame is a clean end for `recv` |
| `MCMuxUnread` | `SendersReleased` | a `MuxRecv` dropped while its `MuxSend` lives stops returning credit, and the peer's sender waits |
| `MCMuxOrphan` | `SendersReleased` | dropping the `Mux` aborts its tasks without `shutdown`, so a sender that lives on waits |
| `MCAuditFloor` (`AuditLog`) | `MonotonicForever` | `migrations.rs:285` says `monotonic_ns` "never decreases, even across restarts"; after a rotation that leaves no row the floor is zero again (`audit.rs:845`) |
| `MCAuditAlarm` | `NoFalseAlarm` | a rotation between verify's two SELECTs makes an undamaged log look broken (`audit.rs:922`) |
| `MCAuditAnchor` | `AnchorHonoured` | the head an operator wrote down is not honoured once rotation has archived it, with no row left |
| `MCTerminalsAcross`, with `MatchesInTurn` for `TabsMatch` (`Terminals`) | `MatchesInTurn` | a tab opened or closed while a restore awaits its calls is dropped or revived by the older list (`TerminalsRepository.kt:152`) |
| `MCTerminalsReconnect` | `PolledInTurn` | a loss and a reconnection between two looks of the collector start no restore, and the pollers are gone (`ClientProvider.kt:80`) |
| `MCTerminalsRevived` | `ExitedStaysExited` | the daemon lists terminals that have exited, since nothing reaps them, so a restore shows them running (`TerminalsRepository.kt:148-149` expects them reaped) |
| `MCTerminalsPolled` | `PolledAnyway` | a poller that one request failed for is not started again while the connection stands |
| `MCTerminalsDeaf` | `ManagerFreed` | a child that never reads keeps a write, and with it the manager's lock, for good |
| `MCTerminalsOrphan` | `NoOrphans` | a spawn that fails after `spawn_command` leaves a child no session knows ("terminals must not outlive the daemon", `session.rs:509`) |
| `MCRateLimiter`, with `CeilingHolds` for `UseCounted` (`RateLimiter`) | `CeilingHolds` | a device forgotten while it holds slots gets a fresh bucket, and its old slots are given back to that one (`rate_limit.rs:816`) |
| `MCRateLimiter`, with `HintKept` for `RetrySuffices` | `HintKept` | a refusal "carries exactly how long to wait" (`rate_limit.rs:12-13`); a later refusal cuts off the time since the last whole unit (`rate_limit.rs:542-557`), and a caller who was told to wait comes back too early |
| `MCControl`, with `UnsentSlotsGo` for `AbortedSlotsGo` (`ControlStream`) | `UnsentSlotsGo` | a poller aborted inside `send` leaves a slot for a request that was never sent, and so no reply takes it (`client.rs:420-424`) |
| `MCClient`, with `RecordNeverTorn` for `PairingSurvives` (`Client`) | `RecordNeverTorn` | two saves share `cbor.tmp`: one renames the file that the other has truncated and not written, where `storage.rs:258-260` has a crash never leave a half-written record |
| `MCFileService`, with `ShellStartsInRoot` for `ServedIsAllowed` (`FileService`) | `ShellStartsInRoot` | "a terminal's working directory must be inside a workspace root" (`fs_service.rs:201`); the path may be missing or a file, and nobody looks |
| `MCFileService`, with `ListedIsInRoot` for `ServedIsAllowed` | `ListedIsInRoot` | links that lead out of the roots are said to be dropped from a listing (`engine.rs:310-311`); the filter judges the name of the link, which stays |

Two more sentences of the repository differ from the code without a run of their
own. `docs/deployment.md:421` says `audit verify` reports the truncation of a
restored older copy; `verify` without an anchor cannot see a lost tail, as
`audit.rs` itself says and `DamageLocated` leaves out. The comments at
`tcp.rs:563-565` and `iroh.rs:658-660` say a connection is dropped when the queue
is full; `tx.send(conn).await` waits for room, which is how `Enqueue` has it.

## 4. Fairness

Fairness is weak and per action unless said otherwise, and is given only to code
that a scheduler or runtime polls again: the mux's reader and writer tasks, a send
or receive that can go on, the woken writer, `notify_one` after its lock, the two
halves of the sweep (an interval timer), the acceptor, its handshakes' timers and
the serving loop, the reader task of the control stream and the daemon's, which finds a torn frame when
the rest does not come, calls whose wait is over.
The receiver's side of `CreditFlow` and `Mux` includes an application that goes on
calling `recv` while it holds the handle, and `accept_bi` while the `Mux` lives;
that is what `serve_connection` and `route_control` do, and without it no flow
control delivers anything. In `Terminals` the daemon executes what it was sent,
coroutines resume and the watcher polls; a restore's requests have strong fairness,
because the manager's lock they need is free again and again, but not continuously;
children read their input, unless a configuration says they are deaf. In
`RateLimiter` time passes, and a caller who is served again and again asks again
(strong, since each tick may change whether it can be). `AuditLog` and
`FileService` promise safety only. Nothing is assumed of users, of phones, of links
(that they work or that they fail), of timers of requests or of other processes.

## 5. Proofs

All of it is for every value of the constants, under the assumptions named in the
modules: `CreditFlow` assumes what `MuxConfig::validate` enforces, that a frame
fits the window (`WindowAssumption`), and segments of at least a byte; `Serve`,
`Pairing` and `Devices` that the default grant is a set of capabilities and the
binding one of the two; `ControlStream` that the peer is one of its two and a
poller's requests are requests; `Client` only that its bounds are numbers; `MuxWriter` that a batch is at least one
segment; `RateLimiter` what every row of the code's table has (`LimitsAssumption`:
a burst of at least a token, and no class with both a rate and a byte ceiling);
`AuditLog` that its bounds are numbers; `PtyManager` that, and that `None` is no
terminal's id; `Terminals` that its faults are among the three it knows.

- `CreditFlowProofs`. `IInv` adds to the types that the totals are ordered the way
  bytes travel (`Ordered`) and where frames begin and end (`Framed`). The window's
  bound follows from the order. `NoCreditDeadlock` needs `Framed`: if all credit
  that came back is used, everything before the current frame was decoded, so the
  frame has the whole window to itself.
  `CreditStaysSound` puts the four together.
- `MuxProofs`, the endpoints. `BooksAgree` says that a live channel's semaphore holds
  what the totals say; the invariant behind it has five parts. `Types` adds to the
  fields that a retired id is not in use and that bytes which arrived and were
  not given back are at least what the assembler, the queue and a reader
  in `recv` hold. `Conserved` is the law itself: what the sender has of the window
  (`Stake`: credit, a chunk in hand, DATA in its queue), what the receiver owes it
  (`Debt`: unacknowledged bytes, updates in its queue) and what is on the wire both
  ways add up to the window. It can hold only from the moment the channel exists
  at the sender, so the other three follow an id before that: an OPEN leads
  everything else about its channel, in its queue and on the wire (`Order`); an id
  not used yet is unknown to its own end (`UnusedIdle`), and one whose OPEN has not
  arrived to the peer, so that no old credit waits for it (`HiddenIdle`). A step
  that only changes one end is `Fine` when it keeps stake and debt; what the reader
  does with a segment moves exactly its worth from the wire (`Booked`), which for DATA
  is an argument about what `Frame::decode` takes out of the assembler
  (`FramesFit`). Numbers are sizes of sets, so that none of this needs induction
  over a queue. Nothing is assumed of the memory of retired ids.
- `MuxProofs`, the stream of bytes. `FramesInOrder` and `FinishDelivers` compare what
  two applications saw, and neither is inductive: between them lie the queue of the
  channel, the wire, the assembler and a queue of frames. `SInv` adds to the above
  that, for each channel and direction, these hold one stream (`Stream`). The frames
  decoded so far are the first ones that the sender began (`Ordered`), and while
  somebody listens the assembler, then the DATA on the wire, then that in the queue,
  then the chunk in hand and the rest of the frame being sent, then what was lost
  when a handle or the link went, are in this order the bytes of the other frames
  (`Lined`). `Lost` says what can be missing: nothing while the sender's channel
  lives or its RESET is on the way, part of the last frame when `send` was given up
  half way, anything behind the last byte that left otherwise; so that a RESET, which
  stays behind all data of its channel (`ResetEnds`), finds every finished frame
  decoded (`Complete`). Two sets follow an id before its channel exists at both ends:
  the ids whose OPEN has not arrived, for which the future receiver already counts
  as listening, and those that an end has never heard of, on which it has sent
  nothing (`Foreign`). The bytes of a queue are the concatenation of its segments,
  which the library defines by a recursive function. That this function exists, is
  the only one and distributes over `\o` follows from `Climb`: a set of indices that
  holds the first and with each one the next holds them all. It speaks of a set and
  not of an operator, so this much induction the provers can use. What a step does
  to one channel is one of a few moves (bytes go from the handle to the queue, to
  the wire, to the assembler, to a frame; a tail is lost; a channel is fresh), each
  a lemma about `Stream`. TLC checked `SInv` as an invariant of the `mux` run and of
  a second instance before the proof, and so did five million states of a larger one
  that was not finished.
- `MuxFlowProofs`. `FlowImplemented` says that every step of `Mux` is, on each channel
  and in each direction, a step of `CreditFlow` or leaves its totals alone. The
  totals are first read off a `Figure`: the frames begun, the bytes with the handle,
  in a chunk that was paid for, in flight, in the assembler, not given back, and
  granted. A figure moves in six ways (`FigureMoves`: a frame is begun, a chunk is
  paid for, a chunk is queued, bytes are gathered, credit is returned, credit
  arrives), and each is a step of `CreditFlow` on the totals (`MoveFlows`). Two of them are so
  only because the figure is `Aligned`: what is in the assembler and still to come
  spells out the frames that were begun, so that what `Frame::decode` takes out ends
  where a frame ends. This holds from the moment the channel is created, when its
  figure is `Blank`, and every move keeps it (`MoveAligns`). Then each action of `Mux` does one of
  these moves to one figure or leaves it alone, and starts to count a channel only
  with a blank one (`Goes`); that uses the whole of `SInv`: an OPEN travels ahead of
  what is said on its channel and finds nothing left over from before
  (`HiddenIdle`), data is read only by an end that knows the channel (`Foreign`),
  and what an end owes covers its assembler (`Accounted`). That the semaphore
  is what `CreditFlow` calls credit is `BooksKept`.
- `MuxProofs`, the writer. Between arming and the end of the wait the writer's future is
  registered (`Armed`); what is queued after it found the queue empty, or closed
  after it found the connection open, is followed by a notification that is still
  to come or has woken it (`WorkNotified`, `CloseNotified`). Together they say that
  a sleeping writer has nothing to do.
- `DaemonProofs`, `Serve`. A connection whose row has not been edited since it dialled was
  active when admitted and still is, its grant is the table's, a served connection
  is in the registry, and what a pass listed is served until closed. None of the
  properties is inductive alone, since each speaks of one place of a connection and
  its value was fixed at an earlier one. A connection is in the queue exactly when
  its place says so, once, and the handshakes in progress fit the slots.
  `RevokedStaysOut` is for iroh: over TCP it is false (`MCServeTcp`).
- `PairingProofs`. Whatever depends on a registration, from the reply being
  written to the answer received, has its row; a router that opened up has it or
  waits for it. `RevokedStaysRevoked` needs only that a pairing never overwrites.
- `PhoneProofs`, the control stream. A request and its response are on their streams once at
  most (`Streams`), a request is sent, executed and answered in this order
  (`Order`), and while the reader runs a caller that waits has its slot or its
  reply, never both, and a reply that reached nobody took its slot all the same
  (`Waits`). A poller may be aborted at any point, also inside `send`.
- `PhoneProofs`, the tabs. `TabsMatch` and `NoFrozenTab` speak of moments at which
  nothing is under way; `TInv` says what is true in between. What the view lacks is
  in `Pending`: the terminal whose reply is still to come, and what the reattach has
  left to see to; a tab too many is the one that is `Closing` (`ViewFits`). The
  reattach works from a list taken earlier, and that list is still the daemon's but
  for the terminals in `crossed` (`ListHolds`): terminals that end stay in the map
  until they are killed, so only an open, a close or a restart can make it wrong, and
  each of these is seen to cross it. The operation in flight may be older than the
  list it crosses, so that a close counts from the moment it is issued and an open to
  the moment its reply is used (`OpenHolds`). A failed request of the reattach is
  excused at once, the list's by excusing every id; a reconnection that the collector
  did not see leaves the tabs of that moment `unpolled`. Nothing is assumed of
  `Faults`: operations may overlap a restore, the connection may return unseen and a
  child may be deaf. TLC checked the parts of `TInv` under both faults, with one terminal
  at a time and with two, first.
- `ClientProofs`. Every call that will write its record holds a registered one
  (`FramesRegistered`); a connection number that anyone holds was given out, so the
  next one is nobody's (`ConnsGiven`); a call that is about to report a loss has
  taken that connection down (`TornDown`); while an unpair is under way nothing is
  promised (`UnpairClears`), and a promise that is about to be made has a record on
  disk (`Saved`). That the record is whole is about the shared temporary file
  (`Files`): a call has a file open only where it is about to write it (`Writers`);
  the temporary file is torn only while some call has it open, after a write that
  failed under another save, or when nobody is about to rename it (`TempTorn`); and a
  rename carries this over to the record (`RecordTorn`). Each of the three properties
  is proved with its part, one step per action.

- `AuditLogProofs`. The tables are described by what each row may be: `History`
  and `Archive` say that a row is the one appended under its number, or damaged;
  `Whole` what an untouched table holds, `BrokenThere` where each kind of damage
  shows, `Observed` what a reader between its two SELECTs still knows,
  `RemovalsAddUp` that checkpoints and rows together number every entry. Verify
  walks the rows; that it stops at the first bad one would be an induction over
  the table, and is instead an argument about the least number that fails.
- `DaemonProofs`, `RateLimiter`. `RateInv` compares the code's bucket with one that rounds
  nothing: the code's never holds more (`LevelCovers`), and a bucket that has run
  since a refusal reaches a token when the announced wait is over, but for a unit for
  each later refusal (`PromiseCovers`; `RefillCutsLittle` says that one refill cuts off
  less than a unit's time). `NeverLeftFull` is why creating a bucket full loses nothing:
  every creation takes a token at once, for which a class must not have both a
  rate and bytes. For `UseIsCounted` a bucket's count is at most what is held and
  short of it by no more than the slots that are `stray` (`Counts`): only forgetting
  a device opens this gap, and no step widens it otherwise.

*Only model-checked:* all liveness, which needs `ENABLED`, for which the prover has
no rules; `NoViolation`, which is not true
for all constants (`MCMuxLimit`, or a memory of retired ids shorter than a flight of
segments); `FileService`, whose path resolution is recursive over links.

## 6. Not modelled, and why

Cryptography (Noise, SAS, keys) and the byte formats: a handshake either
authenticates a key or fails, and a segment is its kind and content. The mux
leaves out a send refused for its size, segments that do not decode and a send
cancelled between two chunks. The eviction of retired ids is in `Mux` but no run
reaches it, as with the real memory of 4096 ids it takes thousands of closes during one
flight. Request handlers are one kind of request in `Pairing` and `ControlStream`; what the
file handlers do is in `FileService`, the terminal handlers in `PtyManager`, and
`sys.info` only reads.

In the terminals, resize and the screen's contents carry data no property tells
apart, and `reap_exited` has no caller. What the terminal library does with a
directory that is missing is not in the repository (`Elsewhere`). A listing's data
(sizes, times, which follow links) is left out. The attempt budget of `core/pairing.rs` and
the registries of `store/sessions.rs` have no caller in the daemon yet: what would
make them hard, who calls them beside whom, is not written. The audit log and the rate
limiter have none either, but their difficulty is their own: rounding, ceilings and
refusals in the one, the chain across rotation and damage in the other. Screens, view models,
settings, migrations, the CLI, discovery, the FFI's conversions, ticket and frame
encodings are sequential code over data, with nothing between two steps; they, and
the cryptography, are most of the lines no definition covers.

## 7. Plan

1. Proofs for what is only checked: the guard of `FileService` over one look at the
   disk; that whatever `CreditFlowProofs` shows of `CreditFlow` holds of `Mux`
   through the refinement, stated in `Mux`'s own terms.
2. `ControlStream` composed with the credit of its channel, and the restore of
   `Terminals` with the calls of `Client`.
3. The torn write of the seed file (`storage.rs:201`), which needs the file's
   content in `Client`.
4. The attempt budget and the session registries, when the daemon uses them.
