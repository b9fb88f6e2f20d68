------------------------------- MODULE NodeStore -------------------------------
(***************************************************************************)
(* What the Lightning node keeps in Core Data and what a launch makes of   *)
(* it: ChannelPersister, ChannelManagerPersister, LightningDataService,    *)
(* the ILightningDataStorage half of WalletCoordinator,                    *)
(* LightningChannelManager.init and ChannelManagerConstructor.             *)
(*                                                                         *)
(* Every write fetches a record, assigns it in the one context of the app  *)
(* and saves the context.  The fetch may throw: nothing is assigned.  The  *)
(* save may throw: the change stays in the context and the next save of    *)
(* anything writes it with its own.  LightningDataService prints either    *)
(* error and drops it, and the persister answers ok to LDK.                *)
(*                                                                         *)
(* LDK (ChannelManager, ChainMonitor, BackgroundProcessor) and Core Data   *)
(* are outside src/ and modelled from how it uses them.  A channel's state *)
(* is the number of its last update; 0 stands for no such channel.         *)
(***************************************************************************)
EXTENDS Integers

CONSTANTS
    Channels,    \* funding outputs
    Payments,    \* incoming payments
    NoManager,   \* no DBLightningChannelManager record
    NoPayment,   \* no payment between its claim and its record
    Faults,      \* which calls of Core Data may throw: "fetch", "save"
    MaxUpdate,   \* bound: updates of one channel
    MaxBlock,    \* bound: blocks mined
    MaxFaults,   \* bound: calls that throw
    MaxKills     \* bound: times the process ends

Update  == 0 .. MaxUpdate
Manager == [update : [Channels -> Update], claimed : SUBSET Payments]
Monitor == [update : Update, block : 0 .. MaxBlock]
Content == [manager : Manager \cup {NoManager}, graph : BOOLEAN,
            monitors : [Channels -> Monitor], payments : SUBSET Payments]

ASSUME BoundsAssumption  == {MaxUpdate, MaxBlock, MaxFaults, MaxKills} \subseteq Nat
ASSUME FaultsAssumption  == Faults \subseteq {"fetch", "save"}
ASSUME NothingAssumption == NoManager \notin Manager /\ NoPayment \notin Payments

VARIABLES
    disk,      \* the persistent store
    store,     \* the context: the store with the changes not yet saved
    phase,     \* the process: "off", "syncing" until chain_sync_completed, "running"
    blind,     \* this process began without a stored manager, or without the monitors
    manager,   \* the ChannelManager in memory
    monitors,  \* the monitors in memory, the restored ones included
    watched,   \* the channels whose monitor is in the ChainMonitor
    unseen,    \* watched monitors the block being connected has not reached
    dirty,     \* the manager changed since persist_manager last took its bytes
    bg,        \* background thread: "idle", "record" a payment, "save" the manager
    paid,      \* the payment claimed and not yet recorded
    snap,      \* the bytes persist_manager took
    tip,       \* height of the chain
    faults,    \* calls that threw so far
    kills,     \* times the process ended
    died,      \* the error the last launch ended with
    latest,    \* history: a channel's highest update ever
    swallowed  \* history: the errors dropped when a channel's monitor was written

durable == <<disk, store>>
ldk     == <<manager, monitors, watched, unseen, dirty, bg, paid, snap>>
process == <<phase, blind, died, kills>>
vars    == <<durable, ldk, process, tip, faults, latest, swallowed>>

-----------------------------------------------------------------------------
(* Values and small operators *)

NoMonitor    == [update |-> 0, block |-> 0]
EmptyManager == [update |-> [c \in Channels |-> 0], claimed |-> {}]
EmptyContent == [manager |-> NoManager, graph |-> FALSE,
                 monitors |-> [c \in Channels |-> NoMonitor], payments |-> {}]

Stored(ms)  == {c \in Channels : ms[c].update > 0}
IsOpen(c)   == manager.update[c] > 0
Errors      == {"duplicateSerializedChannelMonitor", "invalidSerializedChannelManager",
                "invalidSerializedNetworkGraph"}

\* How a call of Core Data ends: a call throws while the bound allows.
Outcomes == {"ok"} \cup {f \in Faults : faults < MaxFaults}

\* Definitions named Bug_... are faulty variants of the definition that follows
\* them, kept to check that the properties notice them; nothing else uses them.

-----------------------------------------------------------------------------
(* Core Data *)

\* One write of WalletCoordinator: fetch, assign, save.
Write(new, result) ==
    /\ store' = IF result = "fetch" THEN store ELSE new
    /\ disk' = IF result = "ok" THEN new ELSE disk
    /\ faults' = IF result = "ok" THEN faults ELSE faults + 1

Bug_PersistMonitor(c, m) ==
    \E result \in Outcomes :
        /\ Write([store EXCEPT !.monitors[c] = IF @.update = 0 THEN @ ELSE m], result)
        /\ swallowed' = [swallowed EXCEPT ![c] = @ \cup ({result} \ {"ok"})]

Bug_KeepFirst(c, m) ==
    \E result \in Outcomes :
        /\ Write([store EXCEPT !.monitors[c] = IF @.update # 0 THEN @ ELSE m], result)
        /\ swallowed' = [swallowed EXCEPT ![c] = @ \cup ({result} \ {"ok"})]

Bug_PurgeClosed(c, m) ==
    \E result \in Outcomes :
        /\ Write([store EXCEPT !.monitors[c] = IF phase = "syncing" /\ ~IsOpen(c)
                                               THEN NoMonitor ELSE m], result)
        /\ swallowed' = [swallowed EXCEPT ![c] = @ \cup ({result} \ {"ok"})]

\* The monitor of c, updated to m, as ChannelPersister writes it: the answer to
\* LDK is ok whatever the result.
PersistMonitor(c, m) ==
    \E result \in Outcomes :
        /\ Write([store EXCEPT !.monitors[c] = m], result)
        /\ swallowed' = [swallowed EXCEPT ![c] = @ \cup ({result} \ {"ok"})]

\* The process is gone, and its memory with it.
ProcessEnds ==
    /\ phase' = "off"
    /\ blind' = FALSE
    /\ store' = disk
    /\ manager' = EmptyManager
    /\ monitors' = [c \in Channels |-> NoMonitor]
    /\ watched' = {}
    /\ unseen' = {}
    /\ dirty' = FALSE
    /\ bg' = "idle"
    /\ paid' = NoPayment
    /\ snap' = EmptyManager

-----------------------------------------------------------------------------
(* A launch *)

\* Two monitors synced to the same block.
SameBlock(ms) ==
    \E c, d \in Stored(ms) : c # d /\ ms[c].block = ms[d].block

\* LDK's read: a channel needs its monitor, and one that is not behind it.
ManagerReads(m, ms) == \A c \in Channels : m.update[c] <= ms[c].update

\* What ChannelManagerConstructor throws, in the order of its tests.
LaunchError(m, ms, graph) ==
    CASE SameBlock(ms)           -> "duplicateSerializedChannelMonitor"
      [] ~SameBlock(ms) /\ ~ManagerReads(m, ms) -> "invalidSerializedChannelManager"
      [] ~SameBlock(ms) /\ ManagerReads(m, ms) /\ ~graph -> "invalidSerializedNetworkGraph"
      [] OTHER                   -> "none"

Bug_ReadAtTip(m, ms) ==
    [m EXCEPT !.update = [c \in Channels |->
                             IF m.update[c] = ms[c].update /\ ms[c].block = tip
                             THEN m.update[c] ELSE 0]]

\* LDK's read closes a channel whose monitor is ahead of the manager.
ReadManager(m, ms) ==
    [m EXCEPT !.update = [c \in Channels |->
                             IF m.update[c] = ms[c].update THEN m.update[c] ELSE 0]]

\* A fetch that throws is read as an empty store.
FetchManager(failed)  == IF failed = "manager" THEN NoManager ELSE disk.manager
FetchGraph(failed)    == disk.graph /\ failed # "graph"
FetchMonitors(failed) ==
    IF failed = "monitors" THEN [c \in Channels |-> NoMonitor] ELSE disk.monitors

\* The fetches a launch makes, and which of them throws.
Fetches(failed) ==
    \/ failed = "none" /\ UNCHANGED faults
    \/ /\ failed \in {"manager", "graph", "monitors"}
       /\ "fetch" \in Outcomes
       /\ faults' = faults + 1

\* No manager: a new node, with an empty graph in memory; stored monitors are
\* not looked at.
LaunchNew(failed) ==
    /\ phase = "off"
    /\ Fetches(failed)
    /\ FetchManager(failed) = NoManager
    /\ phase' = "syncing"
    /\ blind' = TRUE
    /\ died' = "none"
    /\ UNCHANGED <<durable, ldk, kills, tip, latest, swallowed>>

LaunchRestored(failed) ==
    LET m  == FetchManager(failed)
        ms == FetchMonitors(failed)
    IN  /\ phase = "off"
        /\ Fetches(failed)
        /\ m # NoManager
        /\ LaunchError(m, ms, FetchGraph(failed)) = "none"
        /\ phase' = "syncing"
        /\ manager' = ReadManager(m, ms)
        /\ monitors' = ms
        /\ blind' = (failed = "monitors")
        /\ died' = "none"
        /\ UNCHANGED <<durable, watched, unseen, dirty, bg, paid, snap, kills, tip,
                       latest, swallowed>>

\* fatalError: the process ends before it has changed anything.
LaunchDies(failed) ==
    LET m  == FetchManager(failed)
        ms == FetchMonitors(failed)
    IN  /\ phase = "off"
        /\ Fetches(failed)
        /\ m # NoManager
        /\ LaunchError(m, ms, FetchGraph(failed)) # "none"
        /\ died' = LaunchError(m, ms, FetchGraph(failed))
        /\ UNCHANGED <<durable, ldk, phase, blind, kills, tip, latest, swallowed>>

Launch == \E failed \in {"none", "manager", "graph", "monitors"} :
             LaunchNew(failed) \/ LaunchRestored(failed) \/ LaunchDies(failed)

\* chain_sync_completed puts each restored monitor under watch, which writes it.  An
\* error is printed and the loop goes on: watch_channel refuses only a channel that
\* is watched already, since the persister answers ok, and then changes nothing.
WatchChannel(c) ==
    /\ phase = "syncing"
    /\ c \in Stored(monitors) \ watched
    /\ watched' = watched \cup {c}
    /\ PersistMonitor(c, monitors[c])
    /\ UNCHANGED <<manager, monitors, unseen, dirty, bg, paid, snap, process, tip, latest>>

Bug_ChainSyncCompleted ==
    /\ phase = "syncing"
    /\ phase' = "running"
    /\ dirty' = TRUE
    /\ UNCHANGED <<durable, manager, monitors, watched, unseen, bg, paid, snap, blind, died,
                   kills, tip, faults, latest, swallowed>>

\* ... and starts the background thread; the blocks of the sync have changed the
\* manager.
ChainSyncCompleted ==
    /\ phase = "syncing"
    /\ Stored(monitors) = watched
    /\ phase' = "running"
    /\ dirty' = TRUE
    /\ UNCHANGED <<durable, manager, monitors, watched, unseen, bg, paid, snap, blind, died,
                   kills, tip, faults, latest, swallowed>>

-----------------------------------------------------------------------------
(* The running node: peers' messages and blocks *)

\* A channel moves to update n: the monitor applies it and is written before
\* the manager goes on.
Advance(c, n) ==
    /\ manager' = [manager EXCEPT !.update[c] = n]
    /\ monitors' = [monitors EXCEPT ![c] = [update |-> n, block |->
                       IF IsOpen(c) THEN monitors[c].block ELSE tip]]
    /\ PersistMonitor(c, [update |-> n, block |->
                       IF IsOpen(c) THEN monitors[c].block ELSE tip])
    /\ latest' = [latest EXCEPT ![c] = IF n > @ THEN n ELSE @]
    /\ dirty' = TRUE

FundChannel(c) ==
    /\ phase = "running"
    /\ latest[c] = 0
    /\ MaxUpdate > 0
    /\ Advance(c, 1)
    /\ watched' = watched \cup {c}
    /\ UNCHANGED <<unseen, bg, paid, snap, process, tip>>

UpdateChannel(c) ==
    /\ phase = "running"
    /\ IsOpen(c)
    /\ manager.update[c] < MaxUpdate
    /\ Advance(c, manager.update[c] + 1)
    /\ UNCHANGED <<watched, unseen, bg, paid, snap, process, tip>>

MineBlock ==
    /\ tip < MaxBlock
    /\ unseen = {}
    /\ tip' = tip + 1
    /\ IF phase = "running"
         THEN unseen' = watched /\ dirty' = TRUE
         ELSE UNCHANGED <<unseen, dirty>>
    /\ UNCHANGED <<durable, manager, monitors, watched, bg, paid, snap, process, faults,
                   latest, swallowed>>

\* ChainMonitor's block_connected reaches the monitor of c, which is written.
MonitorSeesBlock(c) ==
    /\ c \in unseen
    /\ unseen' = unseen \ {c}
    /\ monitors' = [monitors EXCEPT ![c].block = tip]
    /\ PersistMonitor(c, [monitors[c] EXCEPT !.block = tip])
    /\ UNCHANGED <<manager, watched, dirty, bg, paid, snap, process, tip, latest>>

-----------------------------------------------------------------------------
(* The background thread: one event, or one write, at a time.  Two syncs that   *)
(* overlap may start two threads until the first is replaced (ChainSync); what  *)
(* two threads at once do to the storage is not modelled.                       *)

Bug_ClaimFunds(p, c) ==
    LET n == manager.update[c] + 1 IN
    /\ phase = "running"
    /\ bg = "idle"
    /\ p \notin manager.claimed
    /\ IsOpen(c)
    /\ n <= MaxUpdate
    /\ manager' = [update |-> [manager.update EXCEPT ![c] = n],
                   claimed |-> manager.claimed \cup {p}]
    /\ monitors' = [monitors EXCEPT ![c].update = n]
    /\ PersistMonitor(c, [update |-> n, block |-> monitors[c].block])
    /\ latest' = [latest EXCEPT ![c] = IF n > @ THEN n ELSE @]
    /\ dirty' = TRUE
    /\ bg' = "record"
    /\ UNCHANGED <<watched, unseen, paid, snap, process, tip>>

\* PaymentReceived: claim_funds puts the preimage into the channel's monitor.
ClaimFunds(p, c) ==
    LET n == manager.update[c] + 1 IN
    /\ phase = "running"
    /\ bg = "idle"
    /\ p \notin manager.claimed
    /\ IsOpen(c)
    /\ n <= MaxUpdate
    /\ manager' = [update |-> [manager.update EXCEPT ![c] = n],
                   claimed |-> manager.claimed \cup {p}]
    /\ monitors' = [monitors EXCEPT ![c].update = n]
    /\ PersistMonitor(c, [update |-> n, block |-> monitors[c].block])
    /\ latest' = [latest EXCEPT ![c] = IF n > @ THEN n ELSE @]
    /\ dirty' = TRUE
    /\ bg' = "record"
    /\ paid' = p
    /\ UNCHANGED <<watched, unseen, snap, process, tip>>

\* save(payment:) fetches nothing: the record is in the context even when the
\* save throws.
RecordPayment ==
    /\ bg = "record"
    /\ \E result \in Outcomes \ {"fetch"} :
          Write([store EXCEPT !.payments = @ \cup {paid}], result)
    /\ bg' = "idle"
    /\ paid' = NoPayment
    /\ UNCHANGED <<manager, monitors, watched, unseen, dirty, snap, process, tip, latest,
                   swallowed>>

Bug_TakeBytes ==
    /\ phase = "running"
    /\ bg \in {"idle", "record"}
    /\ dirty
    /\ snap' = manager
    /\ dirty' = FALSE
    /\ bg' = "save"
    /\ paid' = NoPayment
    /\ UNCHANGED <<durable, manager, monitors, watched, unseen, process, tip, faults,
                   latest, swallowed>>

\* persist_manager: the bytes of the manager as it is now ...
TakeBytes ==
    /\ phase = "running"
    /\ bg = "idle"
    /\ dirty
    /\ snap' = manager
    /\ dirty' = FALSE
    /\ bg' = "save"
    /\ UNCHANGED <<durable, manager, monitors, watched, unseen, paid, process, tip, faults,
                   latest, swallowed>>

Bug_SaveManager ==
    /\ bg = "save"
    /\ \E result \in Outcomes :
          Write([store EXCEPT !.manager = IF @ = NoManager THEN snap ELSE @], result)
    /\ bg' = "idle"
    /\ snap' = EmptyManager
    /\ UNCHANGED <<manager, monitors, watched, unseen, dirty, paid, process, tip, latest,
                   swallowed>>

\* ... and their write; peers and blocks may change the manager in between.
SaveManager ==
    /\ bg = "save"
    /\ \E result \in Outcomes : Write([store EXCEPT !.manager = snap], result)
    /\ bg' = "idle"
    /\ snap' = EmptyManager
    /\ UNCHANGED <<manager, monitors, watched, unseen, dirty, paid, process, tip, latest,
                   swallowed>>

\* persist_graph, first about a minute after the thread's start.
PersistGraph ==
    /\ phase = "running"
    /\ bg = "idle"
    /\ \E result \in Outcomes : Write([store EXCEPT !.graph = TRUE], result)
    /\ UNCHANGED <<ldk, process, tip, latest, swallowed>>

-----------------------------------------------------------------------------
(* The end of the process *)

Kill ==
    /\ phase # "off"
    /\ kills < MaxKills
    /\ kills' = kills + 1
    /\ ProcessEnds
    /\ UNCHANGED <<disk, died, tip, faults, latest, swallowed>>

\* The scene enters the background: AppDelegate saves what is pending, and ends
\* the process when that throws.
EnterBackground ==
    /\ phase # "off"
    /\ store # disk
    /\ \/ /\ disk' = store
          /\ UNCHANGED <<store, ldk, process, faults>>
       \/ /\ "save" \in Outcomes
          /\ kills < MaxKills
          /\ kills' = kills + 1
          /\ faults' = faults + 1
          /\ ProcessEnds
          /\ UNCHANGED <<disk, died>>
    /\ UNCHANGED <<tip, latest, swallowed>>

-----------------------------------------------------------------------------
Init ==
    /\ disk = EmptyContent
    /\ store = EmptyContent
    /\ phase = "off"
    /\ blind = FALSE
    /\ manager = EmptyManager
    /\ monitors = [c \in Channels |-> NoMonitor]
    /\ watched = {}
    /\ unseen = {}
    /\ dirty = FALSE
    /\ bg = "idle"
    /\ paid = NoPayment
    /\ snap = EmptyManager
    /\ tip = 0
    /\ faults = 0
    /\ kills = 0
    /\ died = "none"
    /\ latest = [c \in Channels |-> 0]
    /\ swallowed = [c \in Channels |-> {}]

Background == TakeBytes \/ SaveManager \/ PersistGraph \/ RecordPayment

Next ==
    \/ Launch
    \/ \E c \in Channels :
          \/ WatchChannel(c)
          \/ FundChannel(c)
          \/ UpdateChannel(c)
          \/ MonitorSeesBlock(c)
          \/ \E p \in Payments : ClaimFunds(p, c)
    \/ ChainSyncCompleted
    \/ MineBlock
    \/ Background
    \/ Kill
    \/ EnterBackground

Spec == Init /\ [][Next]_vars

\* The background thread runs for as long as the process does.
FairSpec == Spec /\ WF_vars(TakeBytes) /\ WF_vars(SaveManager) /\ WF_vars(RecordPayment)

-----------------------------------------------------------------------------
(* Properties *)

\* Every variable has its type.
TypeOK ==
    /\ disk \in Content
    /\ store \in Content
    /\ phase \in {"off", "syncing", "running"}
    /\ blind \in BOOLEAN
    /\ manager \in Manager
    /\ monitors \in [Channels -> Monitor]
    /\ watched \subseteq Channels
    /\ unseen \subseteq Channels
    /\ dirty \in BOOLEAN
    /\ bg \in {"idle", "record", "save"}
    /\ paid \in Payments \cup {NoPayment}
    /\ snap \in Manager
    /\ tip \in 0 .. MaxBlock
    /\ faults \in Nat
    /\ kills \in Nat
    /\ died \in Errors \cup {"none"}
    /\ latest \in [Channels -> Update]
    /\ swallowed \in [Channels -> SUBSET {"fetch", "save"}]

\* The manager on disk is never ahead of a monitor on disk, although the two are
\* written by different threads and saves may fail, unless a fetch threw under
\* ChannelPersister.update_persisted_channel: LDK refuses such a pair.
MonitorNotBehind ==
    disk.manager # NoManager =>
        \A c \in Channels :
            disk.manager.update[c] > disk.monitors[c].update => "fetch" \in swallowed[c]

\* A payment the stored manager knows as claimed has its record: whatever saves
\* fail and wherever the process ends, ChannelManagerPersister.handle_event
\* records a payment before persist_manager can store that it was claimed.
ClaimedIsRecorded ==
    disk.manager # NoManager => disk.manager.claimed \subseteq disk.payments

\* A channel the node operates is in the newest state it ever had, unless
\* ChannelPersister told LDK ok for a write of its monitor that had thrown: a
\* launch from an older manager closes the channel instead.
OldStateOnlyIfSwallowed ==
    \A c \in Channels : IsOpen(c) /\ swallowed[c] = {} => manager.update[c] = latest[c]

\* While a restored node runs, every monitor on disk is under watch, unless the
\* launch could not fetch them: none is lost between the storage and
\* chain_sync_completed.
RestoredIsWatched ==
    phase = "running" /\ ~blind => Stored(disk.monitors) \subseteq watched

\* A channel that a launch closed stays closed: LDK has its newest state sent to the
\* chain, and no later launch may operate it, from whichever manager and monitors
\* the ends of the process and the calls that threw left on disk
\* (ChannelManagerConstructor.init).  A launch that could not fetch what was stored
\* has closed nothing.
GivenUp(c) == phase # "off" /\ ~blind /\ latest[c] > 0 /\ ~IsOpen(c)
NeverReopened(c) == [](GivenUp(c) => []~IsOpen(c))
StaysClosed == \A c \in Channels : NeverReopened(c)

\* The stored manager never goes back on a channel: save(channelManager:) drops
\* one only when its monitor was stored ahead, so that the launch closed it, or
\* when the node was started as a new one.
LosesOnlyClosedChannels ==
    [][\A c \in Channels :
          disk.manager # NoManager =>
              \/ disk'.manager.update[c] >= disk.manager.update[c]
              \/ /\ disk'.manager.update[c] = 0
                 /\ blind \/ disk.monitors[c].update > disk.manager.update[c]]_vars

\* What the node did reaches the disk if the process lives and no call throws.
UpdateIsStored ==
    \A c \in Channels, n \in 1 .. MaxUpdate :
        (phase = "running" /\ manager.update[c] = n) ~>
            \/ disk.manager # NoManager /\ disk.manager.update[c] >= n
            \/ phase = "off"
            \/ faults > 0
===============================================================================
