# A verification project for the Portal iOS wallet

Portal is a bitcoin and lightning wallet for iOS, written in Swift over two
libraries: BitcoinCore (an SPV kit) and LDK (the Lightning Development Kit,
reached through generated Swift bindings and the C header `lightning.h`).
This directory holds TLA+ models of the parts of Portal that are its own, the TLC
configurations that check them and the theorems TLAPS proves about them.
Names in `code` style are those of the sources; paths are relative to `src/`.

## 1. Inventory

### Components

| # | Component | Sources | State it keeps | Operations |
|---|---|---|---|---|
| 1 | Socket handler | `Portal/ObjectiveCBridge/ldk_net.c`, `bindings/batteries/TCPPeerHandler.swift` | `pollfds`, `sockcount`, `sockets_mutex`, `should_exit`, the socket thread's copies; one `isBound` flag | `socket_connect`, `socket_bind`, `interrupt_socket_handling`, the loop of `sock_thread_fn`, the callbacks `sock_send_data`, `sock_disconnect` |
| 2 | Chain synchronisation | `Portal/Services/LightningService.swift` | `blockChainDataSynced`, the tasks under way, a buffer of block events | the sinks of `balanceStateUpdated` and `lastBlockUpdated`, `syncBlockchainData`, `connect(block:)`, `connect(node:)`, `disconnect(node:)` |
| 3 | Channel manager construction and restore | `bindings/batteries/ChannelManagerConstructor.swift`, `Portal/Services/LightningChannelManager.swift` | the LDK objects, `channel_monitors`, `backgroundProcessor`, `payer` | the two `init`s, `chain_sync_completed`, `interrupt` |
| 4 | Lightning events and persister callbacks | `Portal/app-batteries/ChannelManagerPersister.swift`, `Portal/Services/ldk-related/ChannelPersister.swift` | none of its own; writes storage and calls the manager back | `handle_event` by kind of event, `persist_manager`, `persist_graph`, `persist_new_channel`, `update_persisted_channel` |
| 5 | Lightning storage | `Portal/Services/LightningDataService.swift`, `Portal/Services/WalletCoordinator.swift` (176-532) | Core Data: nodes, channels, payments, the serialised manager, monitors and graph | `update(node:)`, `update(channel:)`, `removeChannelWith`, `save(payment:)`, `save(channelManager:)`, `update(channelMonitor:)`, `save(networkGraph:)` |
| 6 | Wallet storage | `Portal/Services/WalletCoordinator.swift` (20-174), `Storage/KeychainStorage.swift`, `DBWallet` | keychain items (seed, current id), the `DBWallet` records, `currentWallet` | `load`, `createWallet`, `fetchWallets`, `setupCurrentWallet` |
| 7 | Bitcoin adapter | `Portal/Services/BitcoinBaseAdapter.swift`, `BitcoinAdapter.swift` | `balanceState`, the subjects it publishes on | `kitStateUpdated`, `lastBlockInfoUpdated`, `transactionRecord`, send, conversions |
| 8 | Market data | `MarketDataUpdater`, `PricesDataUpdater`, `RatesDataUpdater`, `MarketDataRepository`, `Syncronized`, `RepeatingTimer` | tickers, rates, timer state | periodic requests; one live writer, since the repository subscribes to `onUpdatePublisher` of the market updater and that updater sends on `onUpdateHistoricalData` only |
| 9 | Regtest block observer | `Portal/app-batteries/RegtestBlockchainObserver.swift` | the chain as last seen | unused: nothing makes one |
| 10 | Gossip sync parser | `Portal/app-batteries/LNSyncHandler.swift` | none | unused |
| 11 | Channel screens | `ChannelsViewModel`, `ManageChannelView`, `LightningNode` | the node shown, its list of channels and their states | `openAChannel`, the close button, `channelBalance` |
| 12 | Other view models | `Portal/ViewModels/*.swift` | published fields of the screens | the exchanger's two-way conversion, send flow |
| 13 | LDK service glue | `PolarConnectionExperiment`, `FeesEstimator`, `TestFilter`, `TestLogger`, broadcasters | constants, the shared objects | single calls |
| 14 | Swift socket handlers, account storage | `SwiftSocketPeerHandler`, `SwiftSocketEchoHandler`, `AccountStorage`, `LocalStorage`, `WalletStorage` | - | unused: 1 and 6 took their place |
| 15 | Bindings, pods, `lightning.h`, the framework | `bindings/LDK`, `Pods`, ... | - | generated or vendored |
| 16 | Test batteries | `PortalTests/test-batteries` | - | serialisers only tests use |

### How they interact

The BitcoinCore kit calls the adapter (7) back; the adapter publishes state
changes and new blocks. The chain synchronisation (2) subscribes: it downloads
blocks and feeds them to LDK's `ChannelManager` and `ChainMonitor`, then asks (3)
to start LDK's `BackgroundProcessor`. That thread calls (4) back with events and
with things to persist, and (4) writes them through (5). LDK's `PeerManager`
talks to the network through (1): any thread may enter it (the socket thread, the
background thread, a sync task, the user interface) and it calls (1) back from
that thread. After a restart (3) rebuilds everything from what (5) kept.

The records of (5) and (6) live in Core Data's view context, whose
`performAndWait` runs on the main queue from whichever thread it is called: the
background thread and the jobs of (4) wait for the main thread, which itself
calls into LDK from the channel screens (11). The keychain items of (6) have
another life than the records: they go with the device's passcode and stay when
the app is removed.

### What is hard

* Threads share `pollfds` with a mutex, indices of a copy are used in the
  original, and the kernel reuses descriptor numbers (1).
* Two locks, `sockets_mutex` and the lock inside `PeerManager`, are taken by
  threads that come from either side (1).
* Sync and connect tasks run in parallel and read the manager's height before
  they await a download (2).
* A download or a save fails half way; the process is killed between the save of
  the manager, of a monitor and of the graph (2, 3, 4, 5).
* Events arrive before their subscriber, or after the state they announced (2, 7).
* Errors of storage are printed and dropped, and the caller goes on (5, 6).
* Two lists of channels, LDK's and the app's, are kept in step by events, jobs and
  buttons on three threads (4, 5, 11).
* A wallet is one record and two keychain items, in two stores (6).

### What makes each component correct

1. A slot of `pollfds` names the socket registered in it; PeerManager hears of every
   connection's end exactly when it should and no descriptor is given twice; a
   socket that was shut down is closed; `interrupt` returns; no full socket is
   forgotten. (The code keeps the first and the last: sections 8 and 9 for the others.)
2. The manager sees every block once and in chain order; the monitors see every
   block the manager sees; a missed block is healed by the next sync. (The first does not
   hold: section 9.)
3. A restart succeeds from every state storage can be in; each restored monitor is
   brought up to date before it is watched; one background processor runs. (None of the
   three holds: sections 5 and 9.)
4. Each event moves the stored channel and payment records the way the channel moved;
   what is recorded of a payment is there before the manager says it was claimed.
5. The stored monitors are never behind the stored manager; a launch restores the
   newest state or says why not; a record has a channel and a funded channel a record.
6. A wallet whose creation was interrupted is either absent or usable; the wallet that
   was shown is not replaced.
7. The published state is the kit's.
11. A usable channel is shown open; a view may ask LDK for its channels without stopping
   what LDK stores of them. (The second does not hold: section 9.)

## 2. Plan

| # | Module | Models | Composes with | Proved |
|---|---|---|---|---|
| 1 | `PeerSockets`, `MCPeerSockets`, `PeerSocketsProofs`, `PeerManagerProofs` | component 1 | PeerManager and the kernel as external parts | typing, slots, indices, marks; PeerManager's table, the peers that wait to write, the cause of its panic |
| 2 | `SocketLife`, `SocketLifeProofs` | what component 1 promises of each socket | implemented by `PeerSockets` | the refinement |
| 3 | `ChainSync`, `MCChainSync`, `ChainSyncProofs` | component 2, `chain_sync_completed` of 3 | the kit and LDK's listeners as external parts | no skipped block, order of the listeners, watched monitors |
| 4 | `ChainFollow`, `ChainFollowProofs` | what component 2 promises LDK about heights | implemented by `ChainSync` | the refinement, the causes of a panic, that a sync reaches its tip and every task ends |
| 5 | `NodeStore`, `MCNodeStore`, `NodeStoreProofs` | components 3-5: what each callback stores, a kill between any two writes, calls that throw, what a launch reads back | LDK and Core Data as external parts | all its safety properties |
| 6 | `ChannelRecords`, `MCChannelRecords`, `ChannelRecordsProofs` | components 4, 5, 11: the app's list of channels beside LDK's | an abstract channel of LDK, the main queue | all its safety properties |
| 7 | `WalletStore`, `MCWalletStore`, `WalletStoreProofs` | component 6 with kills, failing calls, the passcode and new installations | keychain and Core Data as external parts | all its properties |

Planned earlier and dropped, after the code was read: a module of market data (one
writer is left that ever publishes, so there is no interleaving to check), of the
regtest observer and of the gossip parser (unused code), of transaction records and
of the exchanger (one pass of additions; decimal rounding on one thread), and a
composition of `ChainSync` with `NodeStore` (they share the manager and the monitors,
but `ChainSync` asks which blocks reach them and `NodeStore` what is stored of them: the
product of the two adds states and no question).

## 3. PeerSockets

### State

| Variable | Code |
|---|---|
| `pollfds` | `handler->pollfds[0 .. sockcount)`; `MaxConns` is `MAX_CONNS` |
| `mutex` | who holds `handler->sockets_mutex` |
| `exit` | `should_exit`, and whether `interrupt_socket_handling` joins or has freed the handler |
| `pc`, `snap`, `close_socks`, `k`, `newfd` | the socket thread: where it is, its copy of `pollfds` with `revents`, `close_socks` with its loop index, the descriptor of `accept` |
| `cpc`, `cfd` | each caller of `socket_connect`: where it is, its descriptor |
| `csock` | the socket that descriptor was made for: the code only has the number, and only the properties read it |
| `file`, `born`, `hung`, `listeners` | the kernel (external): what each number names, sockets created, shut down or hung up, listening |
| `peers`, `link`, `refused`, `pm`, `update` | PeerManager (external): known descriptors, whether the last write was complete, refusals, the lock it holds while it calls back, and the half of `sock_send_data` that is still to take `sockets_mutex` |
| `late` | history: descriptors announced to PeerManager when the socket thread had given them up, until PeerManager drops them |
| `fault` | the assertion, panic or undefined step at which the process stopped |

Each slot and each entry of `snap` has a field `sock`, which socket the number
stood for when it was written. The code does not have it and no guard reads it; it
is what the properties compare.

### Actions

One action per stretch of code between two points where another thread can come
between: a lock taken, a lock released, a call out. `Snapshot` is the copy under the
mutex (208-219), `Poll` the call of `poll`, `Read`, `Accept`, `NewInbound`,
`RegisterInbound`, `ReadEvent` and `WriteSpace` the body of the loop over the copy
(227-291), `DrainSend`/`DrainReturn` the callbacks within
`write_buffer_space_avail`, `Disconnect`, `LockToClose`, `CloseNext` and
`UnlockClosed` the close phase (298-318), `ProcessEvents` with
`PumpSend`/`ProcessReturn` the call of line 320, `ExitLock`, `ExitDisconnect` and
`ExitClose` the way out. `Connect`, `ConnectRegister`, `NewOutbound` and
`SendHello` are `socket_connect`, with its early returns; `Bind`, `Interrupt` and
`InterruptJoined` the other entry points; `UseFreedHandler` is what `TCPPeerHandler`
may do with the pointer it keeps after `interrupt` freed the handler: a connect that is
under way or starts then, a bind, or a second `interrupt`, which joins and frees again.
`SendData` and `SetEvents` are the two
halves of `sock_send_data`, `SockDisconnect` is the `shutdown` callback, and both can
be called on the socket thread, a connector or LDK's background thread.

`Poll` may also fail, which the assertion at `ldk_net.c:222` turns into the end of the
process. Of a socket that hung up it reports what Darwin's `poll` does: POLLHUP, which
excludes POLLOUT, so a slot that waits for POLLOUT alone gets no event the loop looks
at. `Read` may get data from such a socket, what was still buffered, before the end of file.

Folded: the self-pipe (poll may return at any time instead), the address
family, and errors of system calls that lead to the same return (`Bind` has one early
return for the four of `socket_bind`, each of which leaks its descriptor; since nothing
reads the descriptor before it is registered, `socket()` and `register_socket` are one
step there). `RegisterSocket` on a full array is the undefined write past its end or the
failed assertion.

### SocketLife

`SocketLife` is the handler without threads, numbers, arrays or locks: for each socket
a stage among none, open, watched and closed, which `Open`, `Listen`, `Watch`, `Refuse`
and `Close` move. `LifeOf` maps `PeerSockets` to it: a socket that was made and has
its number is open, or watched when a slot names it; one that lost its number is
closed. A closed socket that a slot still names has no stage (`dangling`), so the
refinement fails where the array and the kernel come apart. `KeepsSocketLife` says
that every step is a step of `SocketLife` or a stutter: a socket that another thread
has not handed over yet is not closed under it, the compaction neither drops a slot of
an open socket nor keeps one of a closed socket, and a reused number is a new socket.

### Runs

| Run | Question | Instance |
|---|---|---|
| `sockets_outbound` | are slots, numbers, indices and marks right when two callers connect and connections are accepted while the thread closes and numbers are reused? is each peer an open connection, does a full one wait for POLLOUT, and what makes PeerManager panic? `TypeOK`, `SlotsNameTheirSocket`, `NoDuplicateFd`, `IndicesStillName`, `MarkedOnce`, `PeersAreOpen`, `StalledPeerWaitsToWrite`, `PanicsOnlyIfLate` | 2 numbers, 2 callers, 3 sockets, 2 slots, listening (2.1 million states) |
| `sockets_inbound` | the same of a node that is connected to, written to by the background thread and interrupted at any time; and does every socket live the life `SocketLife` allows? `StalledPeerWaitsToWrite`, `PeersAreOpen`, `PanicsOnlyIfLate`, `KeepsSocketLife` | 3 numbers, 4 sockets, 2 slots, listening, interrupt, background thread (264,193 states) |
| `sockets_hung` | is every socket that is shut down closed? No: section 9 | 1 number, 1 caller, 1 socket, `FairSpec` |
| `sockets_pause_assertion`, `sockets_interrupt_deadlock` | see section 9 | as small as the case allows |

Why the bounds are enough: a clash of numbers needs a socket closed and its number
given to another, so three sockets on two numbers; the compaction needs two slots, a
marked one before an unmarked one, and an append during the pass, so two slots and
two callers (or the listener and two accepted connections). A full array is reached
with two slots. The instance of `sockets_outbound` with the background thread beside the
callers (6.1 million states) passes too, and the theorems remove the bounds for the
safety properties of both runs.

Symmetry: descriptor numbers and callers are interchangeable in the safety runs; the
runs of liveness properties use none. The runs with `interrupt` allow deadlock, because
after it the process has ended its work (and see the deadlock below).

`PeersAreOpen` and `PanicsOnlyIfLate` have one exception, `late`, and it is a fact about the
code: `socket_connect` registers its descriptor before it calls `new_outbound_connection`
(`ldk_net.c:403`, 406), so that the socket thread may have told PeerManager of its end, or
even closed the number and given it to another connection, before the peer is
announced. What the properties say is that this is all: no order of accepts, refusals,
callbacks, closes and reuses leaves PeerManager with a number that is no longer its
peer's, or makes it panic over one it still knows.

### Fairness

`FairSpec` is used by the violation runs only; a counterexample must leave the program no
way out that it would really have. `SocketThreadRuns`: `poll` returns within ten seconds by
its timeout, so the thread always takes its next step; a call into PeerManager writes
finitely often before it returns (strong fairness of the return, since each write may go
first); PeerManager's lock, which others hold for the length of one call, does not shut
the thread out for ever (strong fairness of the steps that need it); and the data
buffered of a connection that hung up comes to its end. `BackgroundRuns`: LDK's thread
comes back from its calls, and its ping timer drops a peer whose connection is gone.
Callers, remote ends and the kernel's choices have no fairness.

## 4. ChainSync

### State and actions

| Variable | Code |
|---|---|
| `chain`, `mined` | the kit (external): its best chain and how many blocks it has seen |
| `state` | `adapter.balanceState`: synced, syncing, or one of the other cases |
| `stateEvents` | `balanceStateUpdated` events on their way to `RunLoop.main` |
| `blockEvents` | the `.buffer` of the `lastBlockUpdated` subscription |
| `synced` | `blockChainDataSynced.value` |
| `task` | each Swift `Task` under way: which function, where in it, and its locals (the height read, the tip read, the blocks left) |
| `best` | `ChannelManager.current_best_block()` |
| `saved` | the best block of the manager in storage |
| `mon`, `watched` | the last block the channel's monitor saw, and whether the `ChainMonitor` has the monitor |
| `left` | a monitor in storage that no launch has read since, because no manager was stored |
| `background`, `processors` | `backgroundProcessor`, and the processors of LDK that run, each named by the task that started it |
| `status`, `starts` | whether LDK has panicked, how often the app was launched |
| `owed` | history: blocks the manager got while the monitor was watched, and the monitor did not |

`StateDelivered` and `BlockDelivered` are the two sinks (50-92), the first with the
state of the moment of delivery. `ReadBest`, `ReadTip`, `ReadBlocks`, `Download`,
`ConnectManager`, `ConnectMonitor`, `SyncCompleted`, `WatchMonitors`,
`StartBackground`, `ReplaceBackground` and `SendSynced` are the lines of `syncBlockchainData`,
`connect(block:)` and `chain_sync_completed` in their order, one action for each read or
write of something another task can change: the tasks are on no actor, so two may
be between any two of these lines. `KitStateUpdated` has the early returns of
`kitStateUpdated`. `OpenChannel` and `PersistManager` are what LDK's thread does in
between; `Restart` kills the process anywhere and launches it from what was stored:
without a stored manager a new node starts and leaves the stored monitors for a later
launch, which reads them beside the new node's manager. `StartBackground` starts a
thread and `ReplaceBackground` assigns it to the property, which stops the one that was
there; two assignments at once may leave the first thread running (`Overlapping`), so
`processors` may have two members, and either may fund a channel or store the manager.
`Reorg` replaces the kit's last block by two others.

One channel stands for all, since the code treats them in one loop and the chain
monitor gives each block to every monitor. Contents of blocks are not modelled, only
their identity, parent and height. The reconnection of nodes at the end of a sync is a
caller of `socket_connect` and is the connector `sync` of `PeerSockets`.

### ChainFollow

`ChainFollow` is the service without tasks, downloads, buffers or branches: four
heights, of the kit's chain, of the manager, of the manager in storage and of the last
block the channel's monitor saw. `Connect` brings the manager one block up and never
above the chain, `Give` gives the monitor a block the manager had, `Store` and `Launch`
go to storage and back, and a launch without a stored manager forgets the channel's
monitor. `FollowsChain` maps each height to the block `ChainSync` has there. It is a
statement about heights only: which of two blocks of one height is connected is what
`PanicIsRepeatOrFork` and `BlocksInOrder` are about.

### Runs

| Run | Question | Instance |
|---|---|---|
| `chain_sync` | do overlapping, failing and late tasks, and a kill anywhere, skip a block, run ahead at the monitors, lose one, or raise the flag too early? over which blocks can LDK panic? do the heights move as `ChainFollow` allows? `TypeOK`, `NeverSkips`, `MonitorAfterManager`, `NothingOwed`, `SyncedMeansWatched`, `SyncReachesTip`, `PanicIsRepeatOrFork`, `FollowsChain` | 2 tasks, 3 blocks, failing downloads, 3 launches (3.6 million states) |
| `chain_resync` | does a sync heal what was dropped or replaced, and does LDK panic only over a branch that lost? `ResyncHeals`, `PanicIsRepeatOrFork` | 1 task, 4 blocks, forks, `FairSpec` (50,862 states) |
| `chain_overlap` | see section 9 | 2 tasks, 2 blocks |

Why the bounds are enough: an overlap needs two tasks; a stale height needs blocks that
arrive between its read and its use, and a hole needs one more than that, so three or
four blocks; a fork of one block needs three identities beside the first. A kill
only matters through what is stored, so two launches show each kind of restore, and
the third the launch that finds both a manager and a monitor left by an earlier node.
Forks are left out of `chain_sync` and a second task out of `chain_resync` to keep the
state spaces small (tasks that overlap end in the panic of `chain_overlap`, which
`ResyncHeals` excuses, so that one task is the stronger question). The theorems remove
the bounds for the safety properties, with forks and any number of tasks together.

### Fairness

`FairSpec` asks that the main run loop and the queue of the block buffer deliver what
waits there, and that the Swift runtime runs each task on; a download may take any
time but ends (URLSession times out). `chain_resync` has downloads that succeed: a
failed sync is retried only at the next delivery of the synced state. Nothing is asked
of the kit, so `ResyncHeals` is about deliveries that are pending.

## 5. NodeStore

### State and actions

| Variable | Code |
|---|---|
| `disk`, `store` | Core Data's file and the view context: the manager, the graph, one monitor per channel, the recorded payments |
| `phase`, `blind` | whether the process runs and whether `chain_sync_completed` was passed; whether the launch found no manager, or could not fetch the monitors |
| `manager`, `monitors`, `watched`, `unseen` | LDK (external): the `ChannelManager`, the monitors in memory, those in the `ChainMonitor`, those a block has still to reach |
| `dirty`, `bg`, `snap`, `paid` | LDK's background thread: whether the manager waits to be stored, what the thread is in the middle of, the bytes it took, the payment it claimed |
| `tip`, `faults`, `kills` | the height of the chain, calls of Core Data that threw, ends of the process |
| `died` | the error a launch ended with |
| `latest`, `swallowed` | history: a channel's newest state ever, the dropped errors of its monitor's writes |

A channel's state is the number of its last update, and a payment an element of a set:
what LDK serialises is not modelled, only how new it is. `Write` is the pattern of every
function of `WalletCoordinator`'s storage half: fetch (may throw: nothing happened),
assign in the context, save (may throw: the change stays in the context and goes with
the next save of anything). `PersistMonitor`, `SaveManager`, `PersistGraph` and
`RecordPayment` use it; `LightningDataService` prints and drops every error, and
`ChannelPersister` answers ok. `TakeBytes` and `SaveManager` are the two lines of
`persist_manager` between which peers and blocks move the manager; `ClaimFunds` and
`RecordPayment` are the two halves of `PaymentReceived`. `LaunchNew`, `LaunchRestored` and
`LaunchDies` are `LightningChannelManager.init` with both initialisers of the
constructor; `WatchChannel` and `ChainSyncCompleted` are `chain_sync_completed`. The error
of `watch_channel` is printed and the loop goes on; LDK refuses only a channel it watches
already, which changes nothing. One thread makes the background writes here. A second one,
which `ChainSync` shows to be possible, would take its bytes and save them beside the
first, and could put older bytes of the manager over newer ones: the properties below are
those of a node with one. `Kill`
comes anywhere, `EnterBackground` is the app delegate's save with its `fatalError`.

### Run

`node_restore`: 2 channels, 1 payment, 2 updates, 2 blocks, 1 throwing call, 2 kills
(610,733 states), `FairSpec`. `TypeOK`, `MonitorNotBehind`, `ClaimedIsRecorded`, `OldStateOnlyIfSwallowed`,
`RestoredIsWatched`, `LosesOnlyClosedChannels`, `StaysClosed`, `UpdateIsStored`.

What it shows: with the writes in the order the code makes them, the stored manager
is not ahead of a stored monitor unless the fetch under a monitor's write threw, and
a claimed payment is recorded before the manager that knows of it is stored, even when
saves throw, because a failed save stays in the one context and goes with the next.
The mutant of each is a mistake this code could make: a monitor
write that keeps the record it finds (`Bug_KeepFirst`), a closed channel's monitor that
is purged (`Bug_PurgeClosed`), bytes taken before the payment is recorded.
The exceptions name what the code does lose, and no property hides a death at
launch: a launch ends in the error LDK's reader gives for what it finds (`LaunchError`).
It dies for two reasons that need no
fault at all: two channels whose monitors were synced to the same block, since
`ChannelManagerConstructor.swift:70` tells monitors apart by the hash of their last
block (with two channels that is the normal case: both monitors get every block), and a
process that ended between the first write of the manager and that of the graph about a
minute later. A fetch of the manager that throws reads as none, and the new node's
first write replaces the stored one: `LosesOnlyClosedChannels` has `blind` for it.
A launch closes a channel whose monitor is ahead of the stored manager, and LDK then puts
its newest state on the chain: `StaysClosed` says that no later launch operates it again,
although the manager it was closed from is still on disk and the writes after the launch
may throw.

Why the bounds are enough: `SameBlock` needs two channels; a stored manager behind its
monitor, and a monitor behind by a dropped write, one update more than the first;
a kill during the launch after a kill, two; and a channel whose monitor gets newer
blocks than the launch saw, two blocks. With 1 block, the instances with 2 throwing calls
(1.25 million states) and with 3 updates (1.06 million) pass too. The theorems remove the bounds for the safety properties.

Fairness: LDK's background thread takes its next step while the process runs, so
`TakeBytes`, `SaveManager` and `RecordPayment` are weakly fair. `UpdateIsStored` excuses
the end of the process and calls that throw.

## 6. ChannelRecords

### State and actions

| Variable | Code |
|---|---|
| `stage`, `uid`, `pending`, `dirty`, `lock` | LDK (external): how far each channel is, the user id it was created with, its events not handled yet, whether the manager waits to be stored, whether an update holds the lock of the channels |
| `saved` | what the stored manager says of channels and events |
| `inLdk` | the main thread is in a call into LDK |
| `opening` | the channel `openChannelWith` has created and not yet recorded |
| `held`, `openItems` | the view model's node: its list of channels, those it shows as open |
| `records`, `number` | `DBLightningChannel`: the states of the records with an id, and how many there are |
| `bg`, `scheduled`, `todo` | LDK's background thread in `ChannelClosed`; the jobs `persist_manager` dispatched and their lists |
| `kills`, `lost`, `copied`, `contested` | ends of the process; history: channels a kill took from LDK, ids written a second time, channels two jobs had listed at once |

`CreateChannel` and `RecordChannel` are the two halves of `openChannelWith` on the main
thread, the call of LDK and `update(node:)`: in between the peer accepts or refuses,
the channel ends, and the background thread takes up its event, as far as it can without
the main queue; `CloseChannel` the close button; `ReadBalance` the balance under
it; `HandleReady` the event that makes the funding transaction, or removes the record when
there is none; `HandleClosed` and `FinishRemove` the two halves of `ChannelClosed`, with
the wait for the main queue in between; `PersistManager`, `JobStart` and `UpdateRecord`
the write of the manager and the job it dispatches, one record at a time. `LockForUpdate`
and `WriteMonitor` are an update of a channel and the write of its monitor, which waits
for the main queue under LDK's lock. `Kill` brings LDK back to what the manager said
when it was stored, and its events with it.

Facts of the code the model keeps and a reader may not expect:
* the user channel id is drawn from 10...1000, so `NewId` may draw one that is in use,
  and the removal of one channel's record then removes the other's;
* `update(node:)` makes a new record for every channel in the node's list, so the
  second channel opened with a node stores the first again (`copied`);
* `update(channel:)` stores the state and never `satValue`, so the job's test of the balance
  keeps finding a difference, writes each time, and the balance shown stays the one the
  channel was funded with;
* a channel that is closing is not usable, so the job puts its record back to
  `waitingFunds`;
* an unsorted fetch has no order: the "first" record with an id is any of them;
* the main thread is in `openChannelWith` until the record is stored, so a removal, which waits
  for the main queue, comes after it. `Bug_FinishRemove` removes in a context of the
  background thread's own instead, and breaks `GhostOnlyIf`.

Channels a peer opens are not modelled: LDK accepts them by itself with the user id 0,
no callback makes a record of them, and the app never lists them. `UnrecordedOnlyIf` and
`UsableIsShown` speak of the channels the app opens.

### Runs

| Run | Question | Instance |
|---|---|---|
| `channel_records` | when does a record outlive its channel, when has a funded channel none, and when is a usable one not shown? `TypeOK`, `GhostOnlyIf`, `UnrecordedOnlyIf`, `UsableIsShown` | 2 channels, 1 job, 1 kill, `Spec` (2.8 million states) |
| `channel_hang` | is every update of a channel persisted? No: section 9 | 1 channel, 1 job, 1 kill, `FairSpec` |

What they show: no order of events, failed fundings, jobs and buttons makes a ghost; only
the second copy of `update(node:)` and a kill before the manager was stored do. A funded
channel is missing from the list only by a shared id. A usable channel is shown open once the
manager was stored and every job that may name the channel has done so (`Settled`),
unless it shares its id or two jobs had it listed at once: a job with a list from before
may overwrite what a later one wrote, and nothing puts it right before the next
change of the manager (`contested`). That `Settled` is reached again and again is LDK's
doing (it stores the manager after each change) and the jobs' (each is finite).

Why the bounds are enough: sharing an id and a second record need two channels; a kill
between any two steps needs one. `contested` needs two jobs: one channel with two jobs and two
kills passes (17,405 states with the jobs interchangeable), two channels with two
jobs are beyond TLC, and the theorems cover them.

Fairness, for `channel_hang` only: the main thread finishes a call it is in (weak); the
write of a monitor, the event handlers, the end of a removal, the write of the manager and
the jobs are strongly fair, because each waits for the main queue or the lock, which
others take again and again but not for ever: the main queue serves its blocks in order.
The counterexample does not rest on its limits: no step but a kill is possible there.

## 7. WalletStore

### State and actions

| Variable | Code |
|---|---|
| `passcode`, `keyId`, `seeds` | the keychain (external), items that exist only while the device has a passcode |
| `table` | `DBWallet` records |
| `phase`, `died` | whether the process runs, and the `fatalError` that ended it |
| `wallets`, `current`, `ready` | `WalletCoordinator`: the fetched list, `currentWallet`, whether it has its assets |
| `step`, `new` | how far `createWallet` is, and with which wallet |
| `drawn`, `shown`, `faults` | history: ids used, wallets that were current, the kinds of faults so far |

`InsertWallet`, `SaveSeed` and `SaveId` are the three writes of `createWallet`, to two
stores; `SetupWallet` is `setupCurrentWallet` with `setupWallet`; `Launch` and `Reconnect`
are the two callers of `load`; `StoreFails` a store that does not open. A
write to the keychain may fail silently (`Written`), a read may find nothing, a fetch may
throw and leave the old list (`try?`). `RemovePasscode` erases the items,
`Reinstall` loses the records and keeps the items.

### Run

`wallet_store`: 3 interchangeable wallets (44,847 states), `TypeOK`, `NamedIsStored`, `DiesOnlyIf`,
`AsksAgainOnlyIf`, `EmptyOnlyIf`, `KeepsTheWallet`. It needs three: the current one, one
made while the id could not be read, and one interrupted. No bound but the wallets.

What it shows: the order of the writes is right, and no kill during `createWallet` leaves
an id without its record or seed. What does go wrong comes from dropped errors and from the
different lives of the two stores: a seed that was not written is noticed at the next
launch only (a wallet without assets), an id that cannot be read makes the app ask for a
new wallet, whose creation replaces the old id, and after a new installation the app
ends itself at every launch, since the keychain names a wallet Core Data no longer has.
`createWallet` does not add the new wallet to `wallets`; the next fetch does.
Not modelled: the words of the seed. (`NewWalletModel.randomSeed` returns one constant list, and
`PolarConnectionExperiment` uses a mnemonic of its own for the node.)

## 8. Proofs

TLAPS checks all of the following, for every value of the constants, under the named
assumptions of the modules: bounds are natural numbers, flags Boolean, and each value
that stands for nothing (`NoFd`, `NoManager`, `NoPayment`, `NoWallet`, `None`) is
none of the things it stands beside. No property below is inductive alone.

`PeerSocketsProofs`: `TypeCorrect`, `SlotsSafe`, `FdsUnique`, `IndicesSafe` and
`CloseAssertion`, all from `Inductive == Spec => []IInv`. That a slot names its socket
needs that a descriptor between `socket()` and `register_socket` belongs to one thread and
is in no slot (`PrivateDescriptors`); that the indices of the copy stay valid needs that
numbers are unique and that the shared array only grows at its end while the copy is in
use; that no index is marked twice needs that a slot polls for one event at a time
(`SingleEvents`) and that marks lie behind the loop (`MarksBehindLoop`). One lemma per
action, or per group of actions that change the same things.

`SocketLifeProofs`: `ImplementsSocketLife == Spec => KeepsSocketLife`. The initial states
map to the initial state. Each action is shown to be one of four kinds, to leave numbers
and slots alone (`Stays`), to open a socket, to hand it over or to close some, and one
lemma per kind (`StaysLife`, `OpensLife`, `HandsOverLife`, `ClosesLife`) maps it to a step of
`SocketLife` or a stutter, over the invariant of `PeerSocketsProofs` and `OneNumber`: no
socket has two numbers. The hard step is `CloseNext`, which frees the number in a slot found
by arithmetic on an index of the copy; that the slot is the marked one (`MarkedSlot`) comes
from `IndicesStillName`.

`PeerManagerProofs`: what PeerManager knows, with any number of callers that connect, a
listener, the background thread and interrupts: `PeersOpen`, `StalledPeersPoll` and
`PanicsAreLate`, from `PeerInvHolds == Spec => []PeerInv`. `PeerInv` is `IInv` with
`OpenInv`, which follows a known descriptor through the
close path (it has a slot until its disconnection was told, and a marked one
is told before its number is closed, also on the way out) unless it is `late`, and
`StallInv`, which follows
a short write to the POLLOUT its slot waits for through the unlocked stretch between the
two halves of `sock_send_data`; it is about slots that stand for the peer's own socket, and
so needs no exception. For the panic, `AnnouncedOnce` says that a socket still to be
announced is known to nobody else: a number PeerManager knows, of a peer that is right,
names another socket than the one announced in time, and so another number (`PanicStep`).

`ChainSyncProofs`: `TypeCorrect`, `NoSkip`, `MonitorsBehind`, `NothingLost` and
`SyncedSafe`, from its own `Inductive`, with forks and any number of tasks and launches. The
invariant's heart is `TaskOK`: whatever a task read, the block it holds is at most one
above the manager's best block, because the manager's height only grows while the task
lives, the heights of the blocks a task holds are consecutive, and the kit's chain has one
block per height (`ChainHeights`). `TaskKept` is the lemma that growth hurts no other task.
`Watching` follows the check of `backgroundProcessor` through the steps between the check
and the assignment, and `ProcessorOf` says that the processor the property names runs, so
that an assignment which stops it leaves the one just started.

`ChainFollowProofs` adds where blocks come from. `Known` is the set of blocks held by
the manager, in storage, by the monitor, in the subscription's buffer and by the tasks;
`KnownStep` shows that a block held after any step was held before or is on the kit's
chain, so that every held block has a height the chain has (`KnownWithin`), and is still
in its place unless there are forks (`KnownOnChain`); `Linked` says that the chain is one.
From these, for any number of tasks and launches:
* `PanicCause == Spec => []PanicIsRepeatOrFork`: a task's block is at most one above the
  manager's; if it is one above and both are on the chain then it builds on the manager's
  block and LDK accepts it. So a panic needs a repeated height or a branch that lost.
  `PanicWithoutForks` leaves only the repeat.
* `ImplementsChainFollow == Spec => FollowsChain`: a new block and a longer branch map to
  `Grow`, the listeners to `Connect` and `Give`, the rest of a task to a stutter. `Connect`
  stays below the tip because a task's block is known, `Give` below the manager because
  of `TaskOK`; that a watched monitor exists is `WatchedIsMon`, and that a monitor a
  launch left in storage is not above the manager is `LeftBehind`.
* `SyncsReachTheTip == Spec => []SyncReachesTip`, from `Reaches`: the first height and the
  number of blocks a sync has left add up to the tip it read. With `TasksEnd`, that a task
  under way only ever gets less before it (`Stage`, then `Work`, three per block left),
  this is the safety half of `ResyncHeals`: what TLC adds is the fairness.

`NodeStoreProofs`: `TypeCorrect`, `MonitorNeverBehind`, `ClaimsAreRecorded`,
`NeverOldUnlessSwallowed`, `RestoredAreWatched` and `StoredManagerAdvances` (an action property), with `ClosedStaysClosed` below. There are four copies of a channel's
state: in memory, in the bytes `persist_manager` took, in the context and on disk, for the
manager and for the monitor. `MonitorOrder` orders the copies of the monitor,
`ManagersNotBehind` puts every copy of the manager at or below the matching one of the
monitor unless a fetch threw, and `ClaimsRecorded` does the same for the payments;
`Newest` says where a channel's newest state is while no error was dropped,
`Restored` that a process holds every monitor its context holds, and `CopiesAdvance`, for
the action property, that the manager gets newer from the disk to the context to the
bytes to memory. The orders hold in the context as well as on disk, which is why a save of
anything, that writes all of the context, keeps them.
`ClosedStaysClosed == Spec => StaysClosed` needs a second invariant, per channel: a channel
is `Closed` when no manager in memory has it and the managers on disk and in the context
are without it or `Behind` the monitor beside them, so that no pair a launch can read
brings it back. `KeepsClosed` shows that every step keeps this, because monitors only get
newer (`MonitorsGrow`), and `GivenUpIsClosed` that a channel is given up only by a launch
that leaves it so.

`ChannelRecordsProofs`: `TypeCorrect`, `GhostsAreExplained`, `FundedAreRecorded` and
`UsableAreShown`. The
argument counts: `Owned` says that an id which was not copied has no more records, with the one
`openChannelWith` has still to make (`Due`), than
channels that own it (live, being removed, or lost by a kill), `Counted` that the number and
the states fit; a removal takes one record and ends one owner. `Staged` and `Removing` say what
is known of a channel at each stage and during its removal, and `Recorded` carries
`UnrecordedOnlyIf` back to every stage from which a channel can still be funded. For the
fourth, `Known` says of a usable channel whose list is not about to change (`Calm`) that no job
has it as unusable, and that it is shown open or some job still has to show it.

`WalletStoreProofs`: `TypeCorrect`, `NamedAreStored`, `DeathsAreExplained`,
`AsksAgainAreExplained`, `EmptyAreExplained` and `TheWalletIsKept`. The strengthening says
what is stored already at each step of a creation (`Creating`), that once a wallet was
shown the keychain names one but for its faults (`ShownIsNamed`), and that a process
without a current wallet while the keychain names one could not read it (`NamedIsCurrent`).

Checked by TLC only: the two liveness properties of the passing runs, which are out of the
proof system's reach (`ResyncHeals`, `UpdateIsStored`), and the violation runs. Every safety
and action property of the passing runs is a theorem of its module's `Spec`, without
other hypotheses than the assumptions on the constants.

## 9. Where the code and its texts disagree

Each of these runs shows the code leave what a text of the repository says.

* `sockets_pause_assertion`: a read that asks to pause checks and writes slot `i - 1` (`ldk_net.c:269`).
* `sockets_interrupt_deadlock`: the exit path and a background write take the two locks in opposite orders (`ldk_net.c:323`).
* `sockets_hung`: a connection whose slot waits for POLLOUT and that hangs up matches no
  branch of the loop, since Darwin's `poll` then reports POLLHUP without POLLOUT
  (`ldk_net.c:231`, 280); it stays in the array, and its peer too, against the comment at 293.
* `channel_hang`: a view that asks LDK for its channels on the main thread waits for their
  lock, while the update that holds it waits for the main queue to write its monitor
  (`ChannelsViewModel.swift:29`, `ChannelPersister.swift:35`): neither goes on, and the update
  `lightning.h:11149` wants persisted is not.
* `chain_overlap`: two syncs that read the same height hand the manager a block twice (`LightningService.swift:254`).

More of them show in the models and have no run of their own; each can be had from an
instance above by the change named.

* A descriptor is registered before it is announced, so the number may already be another
  connection's (`ldk_net.c:403` and 406; `lightning.h:22888` wants no duplicate):
  `NoDuplicativeDescriptor` as an invariant of `sockets_outbound`.
* A refused outbound connection still gets `socket_disconnected` (`ldk_net.c:411`;
  `lightning.h:22883`): `NoDisconnectAfterRefusal` as a property of `sockets_outbound`
  without its symmetry.
* Two tasks that pass the check of `backgroundProcessor` together start two threads, and
  may leave both running (`ChannelManagerConstructor.swift:186`, 219; its comment at 182 has
  one): `OneProcessor` as an invariant of `chain_sync`.
* Nothing is ever disconnected, so a reorganisation hands the manager a block that does
  not build on its best one (`LightningService.swift:265`; `lightning.h:6808`):
  `BlocksInOrder` in `chain_overlap` with one task, 4 blocks and `Forks = TRUE`.
* A restored monitor is watched without the blocks of the sync
  (`LightningService.swift:266`; `ChannelManagerConstructor.swift:42`):
  `RestoredMonitorsSynced` as a property of `chain_overlap` with one task and
  `MaxStarts = 2`.
* A failed write of a monitor is answered ok (`ChannelPersister.swift:35`,
  `LightningDataService.swift:133`; `lightning.h:11116` and 11149 want the failure told):
  the exception in `OldStateOnlyIfSwallowed`, which fails without it.
* A write by LDK's background thread that falls short after `poll` is followed by a
  `read_event` for the same peer, which `lightning.h:11730` asks not to do
  (`ldk_net.c:264`; `ReadEvent` tests nothing).
* A block delivered after a sync read the tip and before it raised the flag is dropped
  (`LightningService.swift:82`) and later ones refused, until the next delivery of the
  synced state, which `ResyncHeals` is about; `lightning.h:19625` wants each block
  connected.

What ends a launch (`LaunchError` in `NodeStore`) also has no run: two channels whose
monitors saw the same block (`ChannelManagerConstructor.swift:70`), and a manager stored
without a graph (`LightningChannelManager.swift:62`); both are described in section 5.

Hazards of the code beside those `PROJECT.json` lists: each early return of
`socket_connect` leaks its descriptor (`ldk_net.c:398`); a failing `accept` closes the
listening socket for good (`ldk_net.c:248`, modelled by `Accept`); the order of the
listeners between two tasks at the monitors (`LightningService.swift:266`), a task that
raises the flag after the kit went back to syncing (270) and a subscription made after the kit was
synced (50), all modelled and part of what `ResyncHeals` and `MonitorAfterManager` cover; a
payment that is told twice gets two records (`ChannelManagerPersister.swift:147`);
`save(payment:)` makes its object outside `performAndWait` (`WalletCoordinator.swift:434`); a
failed save when the scene leaves ends the app (`AppDelegate.swift:76`, modelled by
`EnterBackground`); clearing one field of the exchanger leaves the other one as it was
(`ExchangerViewModel.swift:43`).

## 10. Not modelled

`PROJECT.json` lists each component with its reason. In short: market data (8) has no
interleaving left and constant answers; 9, 10 and 14 are unused; the other view models
(12) and the glue (13) keep no state worth checking; 15 and 16 are not the program's own.
Of the modelled components: channels opened by a peer (section 6), a second background
thread's writes (section 5), creating invoices, paying and decoding (one call of LDK, one
record), sending bitcoin and the fields of a transaction record, `save(nodes:)` with its
samples, and the functions nothing calls (`save(channel:)`, `update(payment:)`,
`clearWallets`, `restoreWallet`).

The BitcoinCore kit, LDK, the kernel, Core Data, the keychain, the main queue and the
Swift runtime appear as external parts, as the code in `src/` uses them. By lines almost all
of the repository is theirs: four copies of `lightning.h`, the generated bindings and the
pods. No model of those would say anything about Portal.
