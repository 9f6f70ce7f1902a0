# LocalTrans in TLA+

LocalTrans is a peer-to-peer file transfer application: a Rust core
(`src/crates/localtrans-core`), a relay server (`src/crates/localtrans-relay`), a desktop
shell (Tauri, `src/src-tauri` and `src/ui`) and a mobile shell (`src/crates/localtrans-ffi`
under an Android application, `src/android`). Two devices talk over one QUIC connection:
control messages on one bidirectional stream, file chunks each on a unidirectional stream of
its own. This directory holds the specifications of its logic, the TLC runs that check them on
small instances, and TLAPS proofs. Paths below are relative to
`src/crates/localtrans-core/src/` unless they begin with a crate's name.

## 1. The system

| component | code | state it keeps | operations |
|---|---|---|---|
| chunk pipeline | `transfer/engine.rs`, `transfer/sender_state.rs` | receiver: window, bitmap, control channel; source: `sender_jobs`, flags, `active_streams` | MetaReq, FetchReq, block streams, RecvAck, TransferCtl, watchdog, clean-up |
| part store | `transfer/engine.rs`, `manifest.rs`, `mod.rs` | `.localtrans-parts/<job_id>`, the download folder | open or resume, write, finalize, drop, cancel, collect |
| push offer and batches | `transfer/engine.rs`, `dedup.rs` | push registry, pending offers, skip bitmaps, inbox index | OfferReq, OfferResp, batch stream, instant hits, JobDone |
| desktop cards | `src-tauri`: `transfer_state.rs`, `commands.rs`, `main.rs` | `transfers`, engine bindings, slots, watchdogs, `transfers.json` | start, queue, pump events, commands, save, rebuild |
| offer questions | `transfer/engine.rs`; `src-tauri/main.rs` | `pending_offers`, dialog, two timers | ask, extend, answer, expire |
| session and pairing | `session.rs`, `pairing.rs` | `sessions`, consent, `PairingMachine`, cool-down, trust store | connect, accept, consent, code, control loop, remove trust |
| remote file operations | `session.rs`, `share.rs`, `transfer/engine.rs` | `pending_rpcs`, router queue, shares, deletion permits | send, route, page, rename, delete, confirm |
| shares and their watcher | `share_watch.rs` | fingerprints, baselines | scan, compare, notify |
| relay server | `localtrans-relay`: `lease.rs`, `control.rs`, `data_plane.rs` | leases, ports, tokens, connections, sessions, counters | admit, register, ping, punch, forward, reap |
| relay client | `relay/client.rs`, `relay/virtual_ep.rs` | connection, roster, waiters | connect, background task, punch, accept |
| relay in the shells | `src-tauri/commands.rs`, `relay_state.rs`; `localtrans-ffi/lib.rs` | client slot, task handles, configuration | restart, save settings, hide |
| reconnection | `src-tauri/reconnect.rs`, `connect_memory.rs`, `relay/autoheal.rs` | one loop per device, badge, back-off | schedule, try, give up, re-arm, heal |
| routing | `routing/`, `src-tauri/probe.rs` | records of channels, current address | probe, score, choose, move |
| discovery | `discovery.rs` | devices heard, targets, their file, nonces | announce, hear, probe, expire, hide |
| device list | `device_merge.rs` | none: it merges the others' | merge |
| mobile cards and store | `localtrans-ffi`: `lib.rs`, `state.rs`, `transfer_state.rs` | cards, placeholders, index file, folders | push, pull, retry, cancel, persist, rebuild |

Not modelled at all: the adaptation of streams and buffers, the source change probe, identity
and TLS, the stores, the user interfaces, diagnostics (section 8).

How they interact: the shells call the engine and the session manager and read a channel of
`ProgressEvent`s and one of `SessionEvent`s. The engine sends requests through the session's
control stream and opens and accepts streams on the connection of the session's *table entry*.
Incoming requests reach the engine's router through a bounded queue; responses go to the waiter
with the request's `msg_id`; answers to offers go over a broadcast channel and name no offer.
The relay client supplies connections where no direct path exists. Reconnection, the automatic
resumption and routing are driven by `SessionUp`/`SessionDown`.

What makes it hard: chunks arrive in any order on streams shared by all transfers with a peer,
and requests are never repeated, so that a dropped message is a stall; pause, cancel and
throttle act on both machines while chunks are in flight; the source may change between a
failed pull and its retry; a process may die at any point of a save or a rename; ids of three
spaces (cards, jobs, directories) meet in the shells; two tasks write one card; connections are
dialled by both sides at once and an old one's tasks outlive its table entry; the relay's tables
have a lock each, and a device may register again in the middle of its removal; almost every
wait has two timers, in two tasks; a command shuts, aborts and spawns tasks in steps that those
tasks run between.

## 2. The modules

| module | models |
|---|---|
| `FileDelivery` | abstract: what a transfer promises, whatever the protocol |
| `FetchPipeline` | one file between a receiver and a source: requests, streams, windows, commands, retries; implements `FileDelivery` |
| `PartStore` | directories, manifests, `part.bin` inodes, the download folder |
| `PushOffer` | offers, answers, the push registry, batch streams, instant hits, large files |
| `OfferAsk` | the question to the user about an offer: two timers, one table |
| `DownloadCards` | cards, tasks, slots, events of downloads |
| `BatchCards` | cards with children: batch and single pushes, downloads of several files and folders, retries |
| `TableFile` | the desktop's table on disk: saver, closing, removal, rebuild |
| `PairingSession` | connections, session tables, consent, codes and trust of two devices |
| `RemoteOps` | multiplexed requests, router, shares, deletion with confirmation |
| `ShareWatch` | the watcher's rounds and baselines |
| `RelayLease` | leases, ports and tokens of the relay server, its reaper |
| `RelaySession` | session ports and the forwarding on them |
| `RelayAdmission` | which control connections are taken; slots and block list |
| `RelayControl` | registration, pings, rosters; the clients' background tasks |
| `RelayPunch` | punch requests, waiters, handshakes through the relay |
| `RelayShell` | how the shells restart their relay client |
| `Reconnect` | badge, back-off loop, healing task, connect and remove for one device |
| `Routing` | records of channels, probes, choice, moves |
| `Discovery`, `NonceWindow` | announcements, probed targets, expiry; the replay window |
| `DeviceList` | the merged list of devices |
| `MobileCards`, `MobileStore` | the phone's cards and tasks; what it keeps over restarts |
| `OnDisk` | joins `PartStore`, `TableFile`, `MobileStore`: what stays on disk |
| `Contact` | joins `Discovery`, `NonceWindow`, `DeviceList`, `Routing`, `Reconnect`: how a device knows others |
| `FetchPipeline_proofs`, `OnDisk_proofs`, `Progress_proofs`, `Shells_proofs`, `PairingSession_proofs`, `Relay_proofs`, `Network_proofs`, `Shares_proofs` | theorems |
| `MC...` | instances for TLC |

`OnDisk` and `Contact` have no state of their own: they state together what the modules they extend
promise, so that a run checks and a theorem proves the same property.

Each action is one handler, or one segment of a handler between two awaits (or two critical
sections) at which something else can happen; its comment names the function, `PROJECT.json`
("map") its lines. An operator called `X_word` that the specifications do not use is a plausible
bug of `X`; it is there to show that a property notices it.

What is worth knowing about each:

* **FetchPipeline.** `phase`/`result` are where `start_pull_parts` stands; `missing`, `batch`,
  `unsent`, `accepted`, `completed`, `tasks`, `joinable` the locals of `run_receiver_windowed`;
  `received`/`disk` the bitmap and `part.bin`; `wire`, `inbound` the control stream and the
  router's queue; `uni` the block streams; `sjobs`, `srcRow`, `paused`, `cancelled`, `cap`,
  `gated`, `sending` the source's registry, rows, flags and tasks. Content is a version number of
  the file, a block's hash is whether the block is of the manifest's version. The 90 s watchdog
  fires exactly when no byte can arrive without a user acting. Any window size is allowed.
* **PartStore.** Contents of at most two chunks; a `part.bin` is an inode, so that deleting a
  directory under an open file behaves as on POSIX. Pulls of one source run one after the other, since
  they hold its slot; a large file that is pushed (`Push`, `recv_push_large_file`) takes no slot, always
  works in the directory of its own id and finalizes beside the pulls. A save may be torn by a crash, a
  directory may refuse to go, the source may restart and reuse job ids, the collector and
  `finalize_destroy` may run under a live pull. Two histories name what the code does not prevent:
  `crowded`, directories in which two writers have worked at once, and `overtaken`, writers whose chosen
  name another one has taken between their choice and their rename.
* **PushOffer.** `snd`/`rcv` are where the two tasks of each offer stand. An offer of the
  receiver outlives its sender, `OfferResp` goes to whoever listens, a batch stream to whoever accepts
  one. `left` is a push that failed without taking its registration back. Three histories name offers
  that met another one or a failed copy: `misled` (the sender went by the skip bitmap of another answer,
  which names files by their place in another list: `Skips`), `astray` (the receiver took another offer's
  stream) and `uncopied` (the copy of a held file failed, which is a line in the log).
* **DownloadCards** reduces a pull to `Started`, `Done`, `Failed`, its control channel, its
  result and its directory. **BatchCards** has the push's own task and the source bridge as two
  writers of one card; a file is one unit of bytes. **TableFile** has the saver's three steps
  (clear the mark, read, write) and both ways a write can fail.
* **PairingSession.** `loop[c][d]` is where each side's task of connection `c` is, `sessions[d]`
  the entry for the other device. Handlers are atomic under the table's lock; what the code does
  in two steps is two steps here: trust is read and then the entry inserted, the code is created
  and then one that came early is judged, a loop is left and then cleaned up after.
* **RemoteOps.** A request is a task and its number; an operation of the host's router is one
  step, except a deletion, which waits for the host's user, a deadline, or the end of the session.
* **RelayLease, RelaySession, RelayControl.** Each critical section of the server is a step.
  The clients in `RelayControl` are whole: they dial, register, ping, read and dial again. A lease is
  `fresh` or `old`, and old only when neither a ping nor a packet with its token has come for the ttl:
  `talking` are devices whose sessions send packets, with or without a control connection.
* **RelayShell.** Every command (`reconnect_relay`, the settings, the switch of the visibility, the
  start) is a task of its own: `pc[k]` is where command `k` stands, and commands overlap as they like.
  `crossed` is the history of those that ran beside another one, `unsaid` of those whose client has not
  been told of a flag that was saved since.
* **Reconnect.** Delays are program counters that may move at any time, so that every
  interleaving of the loop with the pump and the commands is there, and back-off lengths are not.
* **Routing.** Delays and rates are numbers from small sets; a probe's outcome is input, what is
  made of it (records, median, score, hysteresis) is the code's arithmetic. Which addresses are the
  relay's (`Relays`) and which are *recorded* as the relay's (`via`) are two things: `is_relay_data_addr`
  is asked once, when a session comes up and before the wait for running transfers, says no while the
  relay is down or does not know the address yet (`Recognised`), and `register` leaves the flag of a
  record that exists as it is.
* **Discovery, OfferAsk, NonceWindow** keep a clock, because their properties are about time:
  steps of 4 s, seconds of a question scaled down, and seconds of stamps.

## 3. What the runs check

Several modules share no state. The MC module of a run that covers a group of them extends them (or
instantiates one, where names clash or two settings are wanted) and picks, in its initial state, the
machine that steps (`which`); the others stay as they begin. A run is therefore the disjoint union of the
state spaces of its machines, each as large as if it were checked alone, and every property is stated for
the machine it is about. Fairness is gated the same way (`which = "push" /\ A`). Where a property is a
conjunction over a group (`RemoteSound`, `CardsSound`, ...), its parts are named in the modules and the
comment at the conjunction says what they are.

| run | machines and their instances | invariants | action and temporal properties |
|---|---|---|---|
| `resume` | `FetchPipeline`: 2 chunks, 2 pulls, windows 1-2, a queue of 1, 1 command, 1 edit, with cancel, disconnection, RPC timeout; `PartStore`: 3 pulls of contents of 2, 1 and 0 chunks with a crash, torn saves and stuck directories; `RemoteOps`: four groups of 2 or 3 operations on 3 names; `ShareWatch`: 2 folders, 2 versions | `BitmapSound` `LandedIntact` `AckAfterLanding` `PartsSound` `RemoteSound` | `RowOutcomeFinal` `DeliversFile` (refinement of `FileDelivery`) `PartsKept` `DeleteAllowed` `WatchSound` |
| `transfers` | `FetchPipeline`: 3 chunks in batches, a queue of 2, 1 command with pause, throttle, cancel; `BatchCards`: 5 tasks, alone or in pairs, 1 cancel; `TableFile`: 1 card, 1 directory, 1 failing save, 1 restart; `MobileStore`: 2 jobs, 2 folders, 3 commands, 1 crash; `PartStore`: 3 transfers of contents of 2 and 1 chunks, in two settings: pulls of a source that restarts, with directory names used again, the collector and deletion under a pull (`dirs`), and pulls beside pushes (`beside`) | `PipelineSound` `BatchSound` `TablesSound` | `RestartKeeps` |
| `progress` | `DownloadCards`: 2 downloads, 2 pulls, 2 permits, 2 commands, 1 restart; `FetchPipeline`: a push of 3 chunks without faults, and 2 chunks with pause, throttle, revocation, disconnection, read error; `PushOffer`: an offer of a held file only or of an unknown one only, and one of an unknown, a held and a large file | `CardsSound` `OneWriterPerDir` `PushTruthful` | `TransfersEnd` |
| `shells` | `OfferAsk`: 2 questions, 2 job ids, timers that are late by at most 1, a watchdog 2 after the deadline; `MobileCards`: 2 tasks, 1 inbound job, 2 files, 1 permit, 2 commands | `Answerable` `InboundClosed` | `QuestionsEnd` `CardsEnd` |
| `network` | `Discovery`: 2 devices that hear each other and 1 address of nobody, 1 loss, 4 changes; `NonceWindow`: 3 packets, room for 2; `DeviceList`: 3 devices, 2 of one name; `Routing`: one direct and two relay addresses, recognised as such or not, two delays and two rates, the scheduler's probes and the user's, 3 tries; `Reconnect`: 2 connections; `RelaySession`: 2 devices, 2 ports, 2 sessions, 2 packets | `DevicesKnown` `RoutingSound` `Watched` `PortsSound` | `StaysListed` `TriesPaced` |
| `pairing` | `PairingSession`: 2 connections, 1 code, 2 submissions, 2 wrong codes allowed, 1 upset | `SessionHasLoop` `GateArmed` `TrustMutual` | `NewestKept` |
| `relay` | `RelayLease`: 3 devices, 2 ports, 2 tokens; `RelayAdmission`: 3 connections from 2 addresses; `RelayPunch`: 3 devices, 2 calls; `RelayShell`: both shells, 3 commands that may overlap (the start is the first), 1 refusal; `Reconnect`: 1 connection | `TokensCurrent` `PortOwned` `SlotsExact` `CallsSound` `ClientSound` | `RelayLive` |
| `relay_control` | `RelayControl`: 2 dials, 2 leases, a backlog of 1, one user who quits, in two settings: 2 devices without sessions (`quits`), or 1 device with sessions through the relay and 1 connection lost (`drops`) | | `DeadUnlisted` `RosterRepaired` |
| `parts_tail`, `pairing_untrust`, `relay_background`, `relay_settings` | one claim of a comment each, violated (section 6) | | |

What they show, property by property:

* **A pull** lands one version of the file or nothing (`LandedIntact`), its bitmap vouches only
  for data of its version (`BitmapSound`), the source's row is done only after the landing
  (`AckAfterLanding`) and final (`RowOutcomeFinal`): together, it implements `FileDelivery`. The
  window counts what is under way, a file is closed only with every chunk, and a first pull meets only
  its own streams; where the connection loses nothing (`Lossless`: the router's queue takes a window,
  nobody revokes, disconnects or fails to read) every chunk a first pull asked for is under way or on
  disk, unless the job is throttled or being cancelled (`PipelineSound`).
* **The store** (`PartsSound`, `PartsKept`, and again within `TablesSound` and `RestartKeeps` where sources
  restart, directories are emptied and pushes land beside pulls):
  - what a manifest claims stands in `part.bin`, in every directory in which no two writers have met
    (`ResumeSound`);
  - a landed file is replaced in two cases only: every name was taken, or the transfer that replaces it
    had chosen the name while it was free and another one has landed there since (`KeepsLanding`). The
    second case is real: `resolve_name_conflict` and the rename are two steps, and nothing serialises
    finalizes (section 6). The property says that nothing else replaces a file;
  - a pull that ends by an error leaves its bitmap (`SavesOnDrop`);
  - with one source that keeps counting and pushes nothing, directories nobody else empties and a name
    for every pull (`Gentle`), what lands is exactly the file that was offered, what is pending can be
    opened, and what was recorded stays recorded until it lands.
* **Desktop cards**: done means landed, a landed pull is shown, no card takes an id in use, an open
  card's pull can be commanded (`CardsSound`), one pull writes a directory (`OneWriterPerDir`); a
  batch's totals are its children's, done means that every file arrived, a file is on one card
  (`BatchSound`). The saved table catches up and every directory comes back (`TablesSound`,
  `RestartKeeps`).
* **Pushes** (`PushTruthful`, whatever answers cross):
  - done, of a push that had something to send, means that the receiver has gone through that very offer
    and has its large file (`DoneConfirmed`);
  - then its small file is there too, unless the receiver took another offer's stream (`astray`) or the
    sender went by another answer's bitmap (`misled`), and so is the file the receiver said it holds,
    unless the copy failed (`uncopied`): `DoneComplete`. In those three cases the sender says done of a
    file that is not there (section 6);
  - done, of a push with nothing left to send, is said before the receiver is through, but only after
    its yes (`DoneAccepted`);
  - a push that is done, refused, cancelled or not confirmed leaves neither a source row nor a
    registration (`NoRowLeft`). One that got no answer, lost its session or broke off its batch
    (`engine.rs` 1037, 1073, 1105) leaves its registration, and a request that comes late makes a row
    that nobody takes away (section 6).

  A question can be answered until its time is over and is decided in the end (`Answerable`,
  `QuestionsEnd`).
* **Everything ends** (`TransfersEnd`, `CardsEnd`): queued downloads, pulls, batches, pushes,
  cancelled cards, placeholders.
* **Remote operations**: who waits is registered, the answer tells what was done, permits come
  back (`RemoteSound`); nothing is deleted without a yes (`DeleteAllowed`). A change of a share is
  never swallowed (`WatchSound`).
* **Sessions**: an entry has its loop and a pending consent its timer; an older connection takes
  nothing from a newer one; the one code that is shown makes both devices trust or none.
* **Relay**: tokens and ports belong to leases or are on their way back (`TokensCurrent`,
  `PortOwned`), slots are counted exactly (`SlotsExact`), a call reaches its target and no two
  share a session (`CallsSound`), a session's port follows a device that moves (`PortsSound`). The client
  in a shell's slot is live, however commands overlap, and when nothing is under way it carries the
  visibility that was saved last, unless its command ran beside another one, it is the startup's of the
  desktop, or the flag was saved since without a word to the relay (`ClientSound`): with overlapping
  commands the older flag can take the slot last (section 6). Devices without
  power give everything back, calls end, an enabled relay gets a client (`RelayLive`); devices whose
  connections are down leave the list once their sessions are silent too, rosters are repaired
  (`DeadUnlisted`, `RosterRepaired`).
* **Reachability**: a lost packet takes no device off the list (`StaysListed`), the target file, the
  nonce window and the merged list are right (`DevicesKnown`); what is recorded as the relay's is the
  relay's and there is one such address, and the choice obeys its rules with respect to what is
  *recorded* (`RoutingSound`); what the code's comments claim of the relay's addresses themselves does
  not hold (`OneLease`, `NoStaleLease`, section 6); a remembered device that lost its session is watched,
  and nobody is tried again for one reason (`Watched`, `TriesPaced`).

Why the bounds are enough to meet the interesting cases:

* pipeline: two pulls are the first retry, which is where a bitmap, a directory and streams of an
  earlier pull are met; one edit makes two versions; three chunks with a window of one or two need
  a second batch; a queue of one or two messages overflows.
* store: three pulls are a failed one, the one that meets its remains, and one that competes for
  the names; contents of 2, 1 and 0 chunks are longer, shorter and empty. In `transfers` three transfers
  are also two that land at one name while a third has a landed file to lose, or two writers in one
  directory and one that resumes what they left; transfers are alike until they start, and start in the
  order of their numbers.
* cards: two downloads compete for a directory and the slots, and are also a download and its
  resumption. `BatchCards`' tasks run in the pairs that can meet: two pushes, a push and the retry
  of its child; the others alone.
* tables: one crash or failing save at any step; with no room for history the cap acts at once.
* offers: two are the crossing pair; a third only repeats it. One of the pair has every sort of file,
  the other one nothing to send (a held file) or something (an unknown one). Two questions have equal or different job ids.
* remote operations: a group meets in one name: two deletions and a rename of one's target, pages of a
  listing or of a walk while a directory is made, questions about the folder beside a rename.
* pairing: two connections are a crossing pair, or an old and a new one; two submissions are a
  right code after a wrong one, or the two wrong ones that end pairing with `MaxFails` 2 (3 in the
  code); one upset is any one refusal, cancellation, disconnection, removal of trust, lost link or
  restart, between any two steps. `TrustMutual` is about the behaviours without one: a link that
  drops between the two writes of trust necessarily leaves one side without. It is also about one
  shown code, which is why `MaxCodes` is 1; with a second one it does not hold (`NeverOneSided`,
  section 6).
* relay: three devices and two ports exhaust the pool; two registrations include one that meets its
  predecessor's removal; three connections from two addresses reach the global and the per-address limit
  and the block list (limits of 2 and 1); three devices are a caller, its target and a bystander; three
  commands are the one at the start and two that overlap it, one another, or neither. A roster push that
  fails loses a connection in `relay_control`, so dialling again occurs there without the network's help;
  that the network loses one is its second setting, with one device. In the first, with two connections
  for two devices, each dials once and proves its key: whoever dialled again, or failed to, would leave
  the other alone, which is the second setting. Which of them dials first makes no difference, since a
  dialled connection waits as long as it likes before it registers. Sessions through the relay, and what
  comes between a connection's entry and its answer or between an evicted device's closing and its
  removal, are met in the second setting only; the first takes them at once.
* reachability: three packets overflow a window of two; two rates and two delays are the least
  between which hysteresis and degradation differ; two connections are a loss and what follows. The two
  relay addresses differ in their number only, and so the first that leads to the peer is the first; a transfer
  only delays steps that may be late anyway, and so begins or ends before the first session.

`CHECK_DEADLOCK FALSE` is set everywhere because all models are bounded and every transfer,
question or pairing ends.

## 4. Fairness

Nothing is ever assumed of users, edits of files, the network, or of devices that come and go.

* `FetchPipeline`: runnable tasks run, sent messages arrive, due timers fire (weak fairness). The
  watchdog is strongly fair: its idle time is reset by bytes only (`transfer/engine.rs`
  1505-1524), so that pausing and resuming repeatedly does not put it off.
* `DownloadCards`, `MobileCards`: the event pump, spawned tasks, the engine (whose waits are timed)
  and timers go on. Slots are *not* assumed to be granted fairly: that a queued card leaves the queue
  rests on the 60 s timer. A paused pull need not end.
* `PushOffer`: messages are read and every wait has its timer. `OfferAsk`: time passes, and a timer
  fires at most `Late` after its deadline.
* `PairingSession` (`FairSpec`, used by `pairing_untrust` only): tasks and timers go on.
* `BatchCards`, `TableFile`, `MobileStore`, `PartStore`, `RemoteOps`, `ShareWatch` and the modules of
  `network` assume none: their properties are about safety.
* `RelayLease`: time passes for a device that is gone (no power: neither pings nor packets), a removal and
  a round of the reaper go on once begun. `RelayPunch`: the calls' timeouts fire. `RelayShell`: each command
  and each spawned task runs, and the relay answers in the end (a connecting task retries until then).
  `Reconnect`: the loop's sleeps and attempts end.
* `RelayControl`: the server goes on while it has something to do, each device's background task pings and
  reads. A lease ages when its device's connection is down *and* no session of the device sends packets:
  `reap_expired` looks at `last_active` too (`lease.rs` 161), which every packet with the lease's token
  refreshes (`lease.rs` 119-123, `data_plane.rs` 170). Nothing for dialling, for users or for the end of
  sessions: a device whose control connection ended may keep its lease for as long as a session of its
  sends, and `DeadUnlisted` speaks of devices that do not.

## 5. What is proved

`FetchPipeline_proofs` proves, for every number of chunks, pulls, window sizes, queue capacity
and set of faults (the named assumptions in `FetchPipeline`):

* `TypeCorrect`: `Spec => []TypeOK`.
* `DeliveryInvariant`: `Spec => []DeliveryInv`, and from it `BitmapAlwaysSound`,
  `LandedAlwaysIntact` and `AcksFollowLanding`.
* `RowOutcomesFinal`: the action property `RowOutcomeFinal`.
* `ImplementsFileDelivery`: the refinement `Spec => Delivery!Spec`.
* `WindowInvariant`: `Spec => []WindowInv`; `NothingLost`: `Lossless` implies
  `Spec => []ConserveInv`; and from both `PipelineAlwaysSound`, which is the property of `transfers`.

Why an invariant is needed: none of the three state properties is inductive. A bit stays sound
across a retry only because a `MetaResp` still under way carries the version its job was
registered with (`RespInv`), because the pull at work, or whatever has chunks on disk, has its
job's version (`TakenInv`), and because `received` is emptied when the offered version differs;
`AckAfterLanding` needs that every ack still in one of the two queues names a landed job
(`AckInv`); and the rows have to be the registry (`RowsInv`) for an ack not to finish a row
twice. `DeliveryInv` is the conjunction. The proof has one case per action (`DeliveryStep`), lemmas
for what appending to and taking from a queue does (`QueueFacts`), and for the refinement one lemma
saying what a step must do to be a step of `FileDelivery` (`DeliverySteps`).

`WindowInv` is about counts, in seven places at once: a chunk that was asked for is a `FetchReq` on the
control stream or in the router's queue, a task at the source's gate or sending, a stream, a block task,
or a joined one (`LoadOf` counts them, `InPipe` collects their chunks). `BatchInv` says that what is
under way for the pull, and what was asked for and is in neither place (`Lost`), is together no more than
`sent - completed`, the number the loop keeps below its window. `BetweenInv` says that nothing is under
way between two batches, so that the next one starts from zero, and `UntakenInv` that nothing is under
way for a job nobody has taken, so that a `MetaResp` does not hand over a busy one. `FirstInv` keeps the
first pull free of foreign streams. Most of the proof is that a step either takes each chunk out of one
place and puts it into the next, or out of all (`Shrinks`). `ConserveInv` adds what is true of a lossless
connection only: its queues hold requests of the one job, none of more than a batch, which the queue
takes, and so `Lost` is empty until a cancel is queued.

`OnDisk_proofs` proves of `PartStore`, for all contents and their sizes, sources, numbers of pulls, names and
restarts, and every set of faults (`ConstantsOK`: the numbers are numbers, there is a pull and a name
to try, and the mark of a hole is neither a content nor a source):

* `PartsAlwaysSound` and `PartsAlwaysKept`: `PartsSound` and `PartsKept`, for any number of sources and
  with pushes beside pulls. No theorem assumes that writers stay apart; what may go wrong where they meet
  is what the two histories except. `BaseInv` relates manifests, inodes and the open files of running
  transfers: two that work in one directory have made it `crowded` (`CrowdInv`), an inode belongs to one
  directory (`InodesInv`), and in a directory that is not crowded a writer holds its `part.bin`, or one
  that was deleted under it (`OpenInv`), in which case its saves find no `part.bin`.
  `NamesInv` is for `KeepsLanding`: between the choice of a name and the rename that name is still
  free, or every name is taken, or the writer has been overtaken. Where nobody empties directories, nothing
  is pushed, there is one source that does not restart and a name for every pull (`Gentle`; torn saves,
  crashes and directories that refuse to go stay), one transfer runs at a time (`AloneInv`), and `GentleInv`
  adds that directories of ids to come are untouched (`FreshInv`), that the manifest of a running pull is
  of its content (`WorkInv`), that a `part.bin` holds chunks of one content and holes (`PureInv`), and that
  what has landed belongs to no directory any more (`LandInv`): without each of these a later write, or a
  tail, would change a landed file.

and of the tables of both shells, for every number of cards, directories, failing writes, jobs, folders
and restarts (`TableAssumption`, `StoreAssumption`):

* `TablesAlwaysSound`: `TablesSound`, and `RestartAlwaysKeeps`: `RestartKeeps`.

`FileCurrent` is about a moment at which nothing is under way. `TableInv` follows a change there: it is
still to be marked, is marked, will be read, is in the list being written, or is in the file; that the
saver clears the mark *before* it reads is what makes the list as good as the table. On the phone
`StoreInv` says of every job (`JobInv`) that one that has not begun has left nothing, that one the user
accepted is reported in the folder it runs in, and of the index (`IndexInv`) that what it hides is over.

`Progress_proofs` proves of `DownloadCards`, for all files and peers and every number of downloads,
pulls, permits, commands and restarts:

* `CardsInvariant`: `Spec => []CInv`, and from it `CardsAlwaysSound` (`CardsSound`) and `OneWriter`
  (`OneWriterPerDir`).

`CInv` has to follow a pull through four places that move on their own: the task, the engine, the
events between them, and the card. `RowOK` says which events may still be unread at each place, `OfCard`
and `TableOK` that a card, its pull and its directory have one file, `OnePerPeer` that the lock of the
peer is held through the engine's whole run, and `Apart` what that buys: a directory has one
writer because two pulls of one directory are pulls of one file and so of one peer. `Untouched` is for
the moment between a `MetaResp` and the directory: the new job's name is nobody's. `Follows` says that only
the first pull of a card moves it while it is open, and how far the card can be behind its events; a
restart is the step where all of them have to be given up and rebuilt (`StepRestart`). The proof sorts
steps by what they can disturb (`Tame`, `Calm` for the table; `Lasts`, `Goes`, `Moves` for a row), so
that most handlers are one application of `Quietly`.

Of pushes, for every number of offers of any mix:

* `PushAlwaysTruthful`: `OSpec => []PushTruthful`.

That a sender's "done" is true rests on what lies in the two queues (`PInv`): an offer reaches a receiver
that has not begun with it, once (`Offers`); the list of a large file's chunks is asked for once, and the
answer finds a receiver that waits or has given up (`Lists`); what is confirmed has arrived, and the ack
that takes the row of a large file away is ahead of its confirmation (`Confirms`); a registration is given
up before the rows are, so that no request makes a row between the two (`NoRowLeft` is a part of it). That
nothing of a small file is missing is followed from the sender to the receiver's folder (`FilesInv`): an
answer says "skip" only of a file the receiver has in its copy of the index (`Told`), so that who is not
misled skips nothing but that (`Skipped`); a stream is of a push that has sent it, and whole unless that
push broke off (`StreamsFit`); so is what a receiver that is not astray has taken (`Received`); and a held
file has been copied, or that failed (`Copied`).

Of cards with children, for all commands, files and cancels (`BatchAssumption`):

* `BatchAlwaysSound`: `BSpec => []BatchSound`.

The totals of a card are sums over its children. To do without induction the bytes of the children are a
set (`Bytes`), the totals its cardinality, and each event adds to it what it adds to the counter. Two
tasks write a card: `OwnersInv` says that who finds it by the device or by a job finds one of the right
kind, `SinglesInv` that a push of one file has its card before anybody looks for it, and `StepsInv` that a
folder is called complete when each of its files was handled.

`Shells_proofs` proves of `OfferAsk`, for every number of questions and any deadlines, lateness of timers and
grace with `Late < Grace` (`TimersAssumption`):

* `QuestionInvariant`: `KSpec => []KInv`, and from it `AlwaysAnswerable` (`Answerable`).

`Answerable` is not inductive, since the watchdog removes whatever has its number. `OnTime` bounds how
far a waiting question can be behind its deadline, `DogsPatient` says that the watchdog of a number that
one question has is due only the grace after that deadline; together they exclude each other.

and of `MobileCards`, for every number of transfers, inbound jobs, files, permits and commands
(`MobileAssumption`):

* `InboundAlwaysClosed`: `MSpec => []InboundClosed`. `MInv` adds that a card of another device's job is
  never waiting to begin, from where the event that ends it would leave it open, and that one the user
  is cancelling has its watchdog.

`Relay_proofs` proves of `RelayAdmission`, for all addresses, every number of connections and all limits:

* `SlotsAlwaysExact`: `ASpec => []SlotsExact`, and `LimitsAlwaysKept`, that neither limit is
  exceeded by the connections themselves. The counters are cardinalities of the sets of tasks that hold
  a slot, and each step moves one task into or out of one of them (`Moves`).

Of `RelayPunch`, for all devices and every number of calls (`PunchAssumption`):

* `CallsAlwaysSound`: `CSpec => []CallsSound`. A session is announced to the caller and to the target by
  two messages that may arrive in any order, or after the caller gave up. Each is under way at most once
  and nothing was done with its session before (`Announced`), so that no two calls are on one
  (`OnSessions`).

Of `RelayShell`, for every number of commands, which overlap as they like, and of refusals
(`ShellAssumption`):

* `ClientAlwaysSound`: `RSpec => []ClientSound`. `Slotted` says that who is in the slot has registered and
  was not shut down since; this needs nothing of how commands cross. For the flag it carries,
  `Begins` ties an attempt to its command and makes commands that run at once crossed ones; attempts
  outlive their command, and `OldOver` says that of the commands that crossed none only the one whose handle
  is stored, or about to be, can still take the slot (the desktop's startup, whose handle nobody holds, is
  excepted); `Choice` that whenever such a client, neither crossed nor `unsaid`, carries an old flag,
  a command or an attempt is under way that will replace it.

Of `RelayLease`, for every set of devices, size of the pool and number of registrations
(`NoneAssumption`, `PoolAssumption`, `BoundAssumption`):

* `TypeCorrect`: `Spec => []TypeOK`; it needs that the smallest free port is one (`FreePort`, by
  well-founded induction on the naturals).
* `TokensAreCurrent`: `Spec => []TokensCurrent`, by `TokenInv`.
* `PortsAreOwned`: `Spec => []PortOwned`, by `PortInv`.

`PortOwned` says that `port_map` and the leases agree up to removals under way. It is not inductive:
`remove` takes the lease, the port and the token in three critical sections, and the device may
register again after the first. The new lease must then not get the old port, and the removal must
not clear an entry made since. `PortsPending` adds that a removal which has not reached the port map
still finds its own device's entry there, or finds nothing, and that no two removals free one port
(`Freeing`); then the port stays taken until that removal lets it go.

`PairingSession_proofs` proves, for every number of connections, codes, typed codes and upsets
and any two devices (`DeviceAssumption`, `BoundsAssumption`; `NoneAssumption` says that the
placeholder of an empty entry is neither an entry nor a connection nor the number of a code):

* `TypeCorrect`: `Spec => []TypeOK`.
* `SessionInvariant`: `Spec => []SessionInv`, and from it `SessionsHaveLoops` and `GatesArmed`.
* `NewestAlwaysKept`: the action property `NewestKept`.
* `TrustInvariant`: `Spec => []TrustInv`, and from it `TrustIsMutual` (`TrustMutual`).

`SessionHasLoop` is not inductive alone: a `Connect` puts a connection's side at the start of its
task, which would take the loop away from an entry if one already ran under that number; so
`NoLoopBeforeDial` (no task before the dial) belongs to the invariant. With it a loop is only ever
"over" after `Exit`, which drops the entry unless a newer connection has it, or `Restart`, which
drops it too. `NewestAlwaysKept` needs only the types: an entry one of whose fields is written
remains an entry (`EntryWritten`), so that only the handlers that `Drop` can empty it, and each of
those is looked at in `NewestStep`.

`TrustMutual` says that at rest both trust or none. Between the two writes only the answer under way
stands for the second: `AnswerInv` says that while one device trusts and the other does not, an "ok" lies on
an open connection whose far loop runs and will take it, and that nobody judges any more. That nothing
may close that connection first rests on the rest of `TrustInv`: only one device judges (`JudgeInv`,
with one code shown), only it fails and closes, and it has stopped when it trusts; and who typed the
code still waits on its connection while that code is under way (`WaitInv`), also where a crossing
connection has taken over its entry. Most handlers neither send "ok" nor write trust: `Mild` says so
of a step, `MildKeeps`, `MildWaits` and `MildAnswers` what it keeps, and the three that do
(`GrantTrust`, `CodeTrust`, `ResultTrust`) are looked at one by one.

`Network_proofs` proves, of the ways to find a device and to stay in touch with it:

* `AlwaysWatched` (`Watched`), and `GivesUpForGood` (the half of `TriesPaced` that is about
  `Reconnect`), for every number of connections, failures and healings. A loss goes from the connection
  through the channel of events to the pump and on to a loop; `Attended` says that a device that is
  wanted is at one of these places, unless its `SessionDown` was swallowed, and `Paced` that a loop which
  gave up has seen the device since only if it has seen it vanish first.
* `PortsAlwaysSound` (`PortsSound`), for all devices, addresses, ports and packets (`PortsAssumption`):
  what a task has in hand is the last its sender said (`Latest`), and a loop that gives its port back
  takes in nothing more (`Deaf`).
* `DevicesAlwaysKnown` (`DevicesKnown`), for all devices, clocks, packets and sizes of the tables
  (`DiscoveryAssumption`, `WindowAssumption`). For the window: a packet that was acted on is remembered
  until its stamp is so old that another one is dropped for that, except in that very second
  (`WindowInv`). The list is a function of what is merged, and what is claimed of it needs no
  invariant.
* `AlwaysListed` (`StaysListed`), if at most one packet is lost and devices are probed more often than
  they may be silent (`Spared`, true in `network.cfg`: 1 loss, 2 against 4 steps of 4 s; the code has 8 s
  and an `offline_secs` of 15, and the comment on `PROBE_RETRY_PERIOD` requires it clearly more). A device is
  heard of in two ways, by the answers to this one's probes and by its own probes, and each way has a
  timer that is due in time or a packet under way (`ByOwn`, `ByTheirs`). A packet is of one way only, so
  that with nothing lost both hold and after a loss one of them. The ways lean on each other: a lost
  answer lets the prober drop its target, but the probe it answers was heard. With two losses both ways
  may be cut at once.
* `RoutingAlwaysSound` (`RoutingSound`), `MovesAlwaysPaced` and, with `GivesUpForGood`, `TriesAlwaysPaced`
  (`TriesPaced`), for all addresses, delays, rates and thresholds (`RoutingAssumption`). `RecordsInv` says
  that one address at most is recorded as the relay's, that it is one of the relay's, and that a streak of
  degraded probes was measured since the last move; `TasksInv` that what a task acts on after its wait is
  an address, and one of the relay's if the task was told so. Nothing is claimed of relay addresses that
  were recorded as direct. That the choice exists
  is a lemma of its own (`DecideSound`): there is a best score, and among equals a first address, by
  well-foundedness.

`Shares_proofs` proves of `RemoteOps`, for any operations, files, page size, permits and losses of the
session (`RemoteAssumption`):

* `RemoteAlwaysSound`: `RSpec => []RemoteSound`. Requests are numbered by their task and are under way
  once (`Numbered`); one that changes the folder has changed nothing while it is under way or its user is
  asked, and an answer says what was done (`Served`); the shell's table holds no question that has been
  answered (`Shelved`).
* `DeletesAlwaysAllowed`: the action property `DeleteAllowed`.

and of `ShareWatch`, for any finite set of shares (`ShareAssumption`):

* `WatchAlwaysSound`: `WatchSound`. A round drops the baselines of shares that went only when it knows
  more names than there are shares; the shares it has read are among those names, and so with equal
  numbers the sets are equal and nothing is to be dropped.

So every invariant and every action property of the passing runs is stated by a theorem. Only
model-checked, and why:

* Liveness (`TransfersEnd`, `CardsEnd`, `QuestionsEnd`, `RelayLive`, `DeadUnlisted`, `RosterRepaired`):
  TLAPS proves neither liveness under fairness nor facts about ENABLED. `RelayControl`, of which the runs
  check nothing else, has no theorem for that reason.

## 6. Where the code and its comments disagree

With a run that shows it:

* `parts_tail`: job ids are called globally unique (`session.rs` 588), but count from the start
  again when the source restarts; a short file that is given the directory of an unfinished long
  one lands with that one's tail, since `part.bin` is opened without truncation.
* `pairing_untrust`: `TrustBroken` is queued and the connection closed right behind it; the peer
  may never read it and keep its trust, while `src-tauri/src/commands.rs` 2945-2946 says that it
  removes it.
* `relay_background`: after a successful reconnection `run_background` leaves its loop with `break`
  and returns, beside a comment that says it goes back to pinging (`relay/client.rs` 265).
* `relay_settings`: `save_settings` restarts the relay while it holds the configuration for writing,
  and the restart begins by reading it (`src-tauri/src/commands.rs` 2752-2790, 2965). Every command
  that reads the settings after it waits with it.

Stated in the modules, and found violated by TLC when added to a configuration. They are not part
of the runs:

| statement | module | what happens |
|---|---|---|
| `WatchdogMeansDeadPeer` | `FetchPipeline` | a throttle below what was already requested drops requests that nobody repeats: the watchdog ends a pull from a living peer |
| `SameConnection` | `PairingSession` | connections set up at the same time leave the two tables with different ones, both alive |
| `NeverOneSided` | `PairingSession` | a device whose code was typed right shows a second one for a crossing connection; what was typed for the first is then wrong, and at the limit it closes that connection, with its "ok" still unread: it trusts, the other does not |
| `RowsEndWithPush` | `PushOffer` | "a failed push leaves no active source row" (`engine.rs` 854-857): a push without an answer, without a session or with a broken batch leaves its registration, and a `MetaReq` that comes after the clean-up makes a row nobody ends |
| `DoneOnDisk` | `PushOffer` | "all files are on the receiver's disk" (`engine.rs` 1121-1122): a push with nothing left to send is done before its files are copied, a failed copy is only logged, and a stream or a skip bitmap of another offer stands for this one's |
| `IndexKeepsLanded` | `PushOffer` | two offers work on copies of the index, and the second write drops what the first recorded |
| `AcceptedAsSaid`, `ExtendedAnswerable` | `OfferAsk` | two devices choose one job id and the answer to one question accepts the other; the watchdog removes a question that was extended |
| `NoOpenCard`, `RetryFetches` | `MobileCards` | a push that fails after `Started` leaves an open card; a retry encodes an encoded peer id and ends |
| `SavedWhereLanded` | `MobileStore` | a job the policy accepted lands in the download folder and is reported in the inbox |
| `RemovedStays`, `RestoreShows` | `TableFile` | the rebuild looks for the mark under the directory's id, not under the card's; a job whose card is gone from the table gets none back |
| `Reapable` | `RelaySession` | a session that begins between the sections of `remove_session_port` loses its activity and is never reaped |
| `OneClient` | `RelayShell` | a client that registers while it is aborted stays connected beside the new one; so does the older one when two commands overlap |
| `OneLease`, `NoStaleLease` | `Routing` | a relay address met while the relay was down, or before its client knew it, is recorded as direct and stays so: the next registration of a relay address leaves it in the table, and it is chosen while the relay is down |
| `DialsTrusted` | `Reconnect` | an attempt starts after the trust went, until the loop's next test |
| `RttMeasured`, `CurrentSettles`, `Silenced` | `Routing` | with one of three pings answered a delay of 0 is remembered; two `SessionUp` tasks finish in the other order; an address dropped from the records after three failures is still the current one, and the next probe starts there although nothing is recorded of it any more |
| `TakenOnce` | `NonceWindow` | a nonce is forgotten in the last moment of its window, while its stamp is just still tolerated |

Seen while modelling and present in the models:

* `finalize_destroy` (`src-tauri/src/main.rs` 239) may remove a directory while its pull runs; the
  next save writes a manifest back without `part.bin`, and every later pull of that content fails to
  open it (`PartStore`, `DestroyDir`).
* Two transfers may choose the same free name: `resolve_name_conflict` looks (`transfer/engine.rs` 259-262),
  the rename comes later, and nothing serialises finalizes of two sources, or of a pull and a pushed file
  (1363-1387 take no slot). The later rename replaces the file that has landed (`PartStore`, `overtaken`).
* Job ids of two sources, or of one that restarted, may coincide. Two transfers then write one `part.bin`
  and one manifest, and the bitmap vouches for data of the other (`PartStore`, `crowded`).
* Two `reconnect_relay` commands may both get past the abort (`commands.rs` 3077-3079) before either
  stores its handle (3193). The attempt whose handle is overwritten is nobody's, and if it read the
  older visibility (3085-3088) and registers last, that is what the relay goes by (`RelayShell`, `crossed`).
* A pull that fails after `Started` tells nobody: `start_download` leaves it to the event path
  (`commands.rs` 655-657), and `run_receiver` sends no `Failed` except for a cancel. The card stays
  active (`DownloadCards`, `EngineOver`).
* The automatic resumption at `SessionUp` (`main.rs` 1597) intersects ids of cards and ids of
  directories, which never meet for a failed card (`AutoResumable`).
* A superseded session's control loop spins on a closed channel (`session.rs` 1464). Two devices of
  which only one trusts the other cannot pair again: an acceptor that trusts never asks for consent,
  and an initiator waits for it.
* A device whose `SessionDown` comes while its back-off loop is leaving is not watched any more
  (`Reconnect`, `swallowed`; `Watched` excepts it by name).
* A new lease may get a port that a session uses, since `alloc` does not look at `session_ports`
  (`RelayLease`, `Free`).
* A second Pause resumes a paused pull (`transfer/engine.rs` 810 against the comment at 785).
  `resolve_name_conflict` replaces the file when a hundred names are taken. The destroy watchdog aborts
  its own task (`commands.rs` 3582). `transfer_throttle(0)`, documented as unlimited, stores 1.

## 7. Composition

The modules meet at interfaces that one of them keeps abstract: `DownloadCards` has the pull's
events and result where `FetchPipeline` and `PartStore` have the pull; `PushOffer` has a large file as
one request and its end; `BatchCards` and `MobileCards` have an engine that reports what `PushOffer`
promises; `OfferAsk` ends where `PushOffer`'s answer begins; `Reconnect` has connections as numbers
that `PairingSession` gives entries and loops to; `RelayControl` counts leases whose ports and tokens
are `RelayLease`'s, `RelayAdmission` ends where `RelayControl`'s connection begins, and `RelayPunch`
hands its session to `RelaySession`. No run composes two of them into one state: their interleavings
are those of the interface, and the abstract side allows every order and outcome at it.
`OnDisk` and `Contact` join the properties of modules, not their states.
`FetchPipeline` with `FileDelivery` is the one pair with a refinement, checked and proved.

## 8. Not modelled

* *Adaptation of streams and buffers* (`transfer/adapt.rs`): arithmetic on measured rates; the
  pipeline is checked for any window it may choose.
* *Source change probe*: a comparison of sizes and times before a request; the pipeline lets the file
  change between any two steps.
* *Identity, TLS, certificates, signatures*: cryptography; a peer's fingerprint is given.
* *Stores and configuration files*: serialisation; what survives a restart is in the models that use
  it.
* *Android application, desktop user interface, diagnostics, firewall, test entry points*: views and
  glue without a protocol of their own.
* Parts of modelled components: several files of one folder pull inside the engine (they run one after
  the other), `shutdown_all`, progress events and speeds, `ConsentGrant` and the dialogs' names, the
  server's shutdown and byte counters, hidden devices on the server, path checks beyond whether a name
  is there, the mobile shell's settings, browsing and pairing dialogs, interfaces and sockets of
  discovery.

### Where the models are coarser than the code

Steps that a module takes at once although the code awaits, or a lock is let go, in the middle, and
outcomes it leaves out. No property is claimed of what happens in between.

* `FetchPipeline`: a new session is there only while no pull is at work (`Reconnect`), where the code may
  find the table entry replaced under a paused pull or a batch (`transfer/engine.rs` 683, 1495, 1525,
  1995); a pull that lost its connection fails first. A `TransferCtl` that names no job of the source goes
  nowhere, where the code tries `task_controls` next (2183-2200), and the remote's throttle (2151-2161)
  is left out. The watchdog fires when no byte can arrive any more, not also when bytes are merely late.
* `PartStore`: small files, and copies of held ones, that are placed in the same folder beside a finalize are
  not there.
* `PushOffer`: `RecvAck`, `JobDone` and `JobFailed` are not lost with a session; the index is not pruned.
* `DownloadCards`: `SessionUp` needs that there was no session, and resumes one of the cards that qualify,
  where the code also hears of a second connection and goes through all of them (`main.rs` 1603-1612);
  `Resume` needs a session, where the code first connects and comes to nothing if it cannot
  (`commands.rs` 2442-2464), which is `SessionUp` before `Resume`, or no step; `Destroyed` removes the
  card and then the directory in one step (`main.rs` 252-257).
* `BatchCards`: `Bridge` and `PushEvent` look a card up and write it in one step, under what are two locks
  (`commands.rs` 939-993); `Polled` lets a push's engine go on when its events have been read, where the
  `select!` is not biased and may poll it first (2216), the events being read after its end (2232-2236).
* `MobileCards`: `Cancel` marks the card and arms the watchdog in one step; the code tells the engine and
  awaits the table of watchdogs in between (`lib.rs` 2804-2837).
* `RemoteOps`: a deletion that was allowed removes its files at once.
* `PairingSession`: `HandleCode` judges, answers and writes trust at once on the judging side
  (`session.rs` 1486-1541).
* `Reconnect`: `Schedule` reads trust, memory, badge and loops at once, under four locks; a device that comes
  in over the relay sets the badge on a path of its own (`commands.rs` 3150-3154), which is not there.
* `Routing`: a full probe notes its six samples at once, and every probe fails on a connection that has been
  superseded. `Discovery`: writes of the target file do not fail, where the code warns and goes on
  (`discovery.rs` 1007-1018).
* `RelayPunch`: `HandshakeWith` ends the handshake on both sides at once, where the caller may be through
  (`relay/client.rs` 439-446) before the target's accept is (487).
* `RelayShell`: the switch of the visibility writes its two copies at once; `Close` shuts the client, empties
  the slot and ends the events' task at once, since it holds the slot to the end.
