------------------------------- MODULE ChainSync -------------------------------
(***************************************************************************)
(* How LightningService.swift brings blocks to LDK.                        *)
(*                                                                         *)
(* BitcoinCore's kit keeps the chain and announces state changes and new   *)
(* blocks through BitcoinBaseAdapter.  A change to "synced" starts a Swift *)
(* task that downloads what the ChannelManager lacks; a new block starts a *)
(* task that connects that one block.  Tasks belong to no actor: they run  *)
(* in parallel and every step below may come between two of another.       *)
(*                                                                         *)
(* The kit, and LDK's ChannelManager, ChainMonitor and BackgroundProcessor *)
(* are outside src/ and modelled from how it uses them.  One channel stands*)
(* for all: its monitor is absent, stored, or stored and watched.          *)
(***************************************************************************)
EXTENDS Integers, Sequences, SequencesExt

CONSTANTS
    Tasks,         \* bound: the Swift tasks that can be under way at once
    None,          \* no monitor, no saved manager, no background processor
    MaxBlocks,     \* bound: blocks mined in one behaviour
    MaxEvents,     \* bound: state changes waiting for the main run loop
    MaxStarts,     \* bound: launches of the app
    Forks,         \* TRUE when a block may be replaced by two others
    DownloadsFail  \* TRUE when a download may throw

\* A block as the kit and the manager name it.
Block == [id : Nat, parent : Nat, height : Nat]

ASSUME BoundsAssumption == {MaxBlocks, MaxEvents, MaxStarts} \subseteq Nat
ASSUME NoneAssumption   == None \notin Block /\ None \notin Tasks

VARIABLES
    chain,       \* kit: its best chain, chain[h] has height h
    mined,       \* kit: blocks seen so far, on any branch
    state,       \* adapter.balanceState
    stateEvents, \* balanceStateUpdated events on their way to the main run loop
    blockEvents, \* blocks in the buffer of the lastBlockUpdated subscription
    status,      \* "on", or "panicked" once LDK has stopped the process
    starts,      \* launches so far
    best,        \* ChannelManager.current_best_block()
    saved,       \* storage: the best block of the last manager persisted
    mon,         \* the last block the channel's monitor saw, None without channel
    watched,     \* the monitor is in the ChainMonitor
    left,        \* storage: a monitor no launch read, as no manager was stored
    background,  \* constructor.backgroundProcessor, named by the task it is of
    processors,  \* LDK: background processors that run, named in the same way
    synced,      \* blockChainDataSynced.value
    task,        \* the tasks under way
    owed         \* history: blocks connected since the monitor is watched that it
                 \* was not given

kit  == <<chain, mined, state>>
node == <<best, saved, mon, left, watched, background, processors, owed>>
app  == <<status, starts, synced>>
vars == <<kit, stateEvents, blockEvents, app, node, task>>

-----------------------------------------------------------------------------
(* Values and small operators *)

States == {"synced", "syncing", "other"}
PCs    == {"idle", "start", "tip", "range", "fetch", "manager", "monitor", "watch",
           "background", "replace", "synced"}
Task   == [kind : {"none", "sync", "block"}, pc : PCs, low : Nat, high : Nat,
           blocks : Seq(Block)]

Idle           == [kind |-> "none", pc |-> "idle", low |-> 0, high |-> 0, blocks |-> <<>>]
NewTask(k, bs) == [Idle EXCEPT !.kind = k, !.pc = "start", !.blocks = bs]

FirstBlock   == [id |-> 1, parent |-> 0, height |-> 1]
Child(b, id) == [id |-> id, parent |-> b.id, height |-> b.height + 1]

\* What is left of a set of monitors when each is a real one.
OneOf(monitors) == IF monitors = {None} THEN {None} ELSE monitors \ {None}

On       == status = "on"
At(t, l) == On /\ task[t].pc = l
Goto(t, l) == task' = [task EXCEPT ![t].pc = l]
End(t)     == task' = [task EXCEPT ![t] = Idle]
Spawn(k, bs) == \E t \in Tasks :
                   task[t] = Idle /\ task' = [task EXCEPT ![t] = NewTask(k, bs)]

\* Definitions named Bug_... are faulty variants of the definition that follows
\* them, kept to check that the properties notice them; nothing else uses them.

-----------------------------------------------------------------------------
\* The first launch: a new node starts at the adapter's last block; the kit may
\* have changed state before LightningService subscribed.
Init ==
    /\ chain = <<FirstBlock>> /\ mined = 1 /\ state \in States
    /\ stateEvents = 0 /\ blockEvents = <<>>
    /\ status = "on" /\ starts = 1 /\ synced = FALSE
    /\ best = FirstBlock /\ saved = None /\ mon = None /\ watched = FALSE
    /\ left = None /\ background = None /\ processors = {} /\ owed = {}
    /\ task = [t \in Tasks |-> Idle]

-----------------------------------------------------------------------------
(* The kit and the adapter *)

NewBlock ==
    /\ On /\ mined < MaxBlocks
    /\ LET b == Child(Last(chain), mined + 1) IN
        /\ chain' = Append(chain, b)
        /\ blockEvents' = Append(blockEvents, b)
    /\ mined' = mined + 1
    /\ UNCHANGED <<state, stateEvents, app, node, task>>

\* The last block loses against two others; the kit announces the new tip.
Reorg ==
    /\ On /\ Forks /\ Len(chain) > 1 /\ mined + 2 <= MaxBlocks
    /\ LET a == Child(chain[Len(chain) - 1], mined + 1)
           b == Child(a, mined + 2) IN
        /\ chain' = Append([chain EXCEPT ![Len(chain)] = a], b)
        /\ blockEvents' = Append(blockEvents, b)
    /\ mined' = mined + 2
    /\ UNCHANGED <<state, stateEvents, app, node, task>>

\* kitStateUpdated: every change is announced, a repeated "synced" is not; other
\* states are announced again when their detail changed.
KitStateUpdated(s) ==
    /\ On /\ stateEvents < MaxEvents
    /\ s = "synced" => state # "synced"
    /\ state' = s /\ stateEvents' = stateEvents + 1
    /\ UNCHANGED <<chain, mined, blockEvents, app, node, task>>

-----------------------------------------------------------------------------
(* The subscriptions of LightningService *)

\* On the main run loop: the state is the one at delivery, not the one announced.
StateDelivered ==
    /\ On /\ stateEvents > 0
    /\ stateEvents' = stateEvents - 1
    /\ \/ state = "syncing" /\ synced' = FALSE /\ UNCHANGED task
       \/ state = "synced" /\ Spawn("sync", <<>>) /\ UNCHANGED synced
       \/ state = "other" /\ UNCHANGED <<synced, task>>
    /\ UNCHANGED <<kit, blockEvents, status, starts, node>>

\* One buffered block, at least two seconds after the one before it: dropped
\* unless the service is synced now.
BlockDelivered ==
    /\ On /\ blockEvents # <<>>
    /\ blockEvents' = Tail(blockEvents)
    /\ IF synced THEN Spawn("block", <<Head(blockEvents)>>) ELSE UNCHANGED task
    /\ UNCHANGED <<kit, stateEvents, app, node>>

-----------------------------------------------------------------------------
(* syncBlockchainData and connect(block:) *)

Bug_IsNext(b) == b.height > best.height
IsNext(b)     == b.height = best.height + 1

\* Both begin with the manager's height; connect(block:) gives up unless its
\* block is the next one.
ReadBest(t) ==
    /\ At(t, "start")
    /\ \/ /\ task[t].kind = "sync"
          /\ task' = [task EXCEPT ![t].low = best.height, ![t].pc = "tip"]
       \/ /\ task[t].kind = "block"
          /\ IF IsNext(Head(task[t].blocks)) THEN Goto(t, "fetch") ELSE End(t)
    /\ UNCHANGED <<kit, stateEvents, blockEvents, app, node>>

\* adapter.lastBlockInfo
ReadTip(t) ==
    /\ At(t, "tip")
    /\ task' = [task EXCEPT ![t].high = Last(chain).height, ![t].pc = "range"]
    /\ UNCHANGED <<kit, stateEvents, blockEvents, app, node>>

\* adapter.blocks(from: low + 1, to: high), of the chain the kit has by then.
Bug_HalfOpen(t)  == SubSeq(chain, task[t].low + 1, task[t].high - 1)
MissingBlocks(t) == SubSeq(chain, task[t].low + 1, task[t].high)
ReadBlocks(t) ==
    /\ At(t, "range")
    /\ task' = [task EXCEPT ![t].blocks = MissingBlocks(t), ![t].pc = "fetch"]
    /\ UNCHANGED <<kit, stateEvents, blockEvents, app, node>>

Bug_HasBlock(t) == TRUE
HasBlock(t)     == task[t].blocks # <<>>

\* await getBlockBinary: an error ends the whole task.  The manager is the first of
\* the two listeners.
Bug_FirstListener == "monitor"
FirstListener     == "manager"
Download(t) ==
    /\ At(t, "fetch") /\ HasBlock(t)
    /\ Goto(t, FirstListener) \/ (DownloadsFail /\ End(t))
    /\ UNCHANGED <<kit, stateEvents, blockEvents, app, node>>

\* ChannelManager's block_connected asserts that the block builds on its best one and
\* has the next height: anything else makes LDK panic.
Accepts(b) == b.parent = best.id /\ b.height = best.height + 1

Bug_SameTask(t) == Goto(t, "monitor") \/ End(t)
SameTask(t)     == Goto(t, "monitor")
ConnectManager(t) ==
    /\ At(t, "manager")
    /\ LET b == Head(task[t].blocks) IN
       IF Accepts(b)
       THEN /\ best' = b
            /\ owed' = IF watched THEN owed \cup {b} ELSE owed
            /\ SameTask(t) /\ UNCHANGED status
       ELSE status' = "panicked" /\ UNCHANGED <<best, owed, task>>
    /\ UNCHANGED <<kit, stateEvents, blockEvents, starts, synced, saved, mon, left,
                   watched, background, processors>>

\* chainMonitor's block_connected reaches the monitors it watches.
ConnectMonitor(t) ==
    /\ At(t, "monitor")
    /\ LET b == Head(task[t].blocks) IN
        /\ mon' = IF watched THEN b ELSE mon
        /\ owed' = owed \ {b}
    /\ IF task[t].kind = "sync"
       THEN task' = [task EXCEPT ![t].blocks = Tail(@), ![t].pc = "fetch"]
       ELSE End(t)
    /\ UNCHANGED <<kit, stateEvents, blockEvents, app, best, saved, left, watched, background,
                   processors>>

\* chain_sync_completed returns at once when there is a background processor.
Bug_NeedsWatch == FALSE
NeedsWatch     == background = None
SyncCompleted(t) ==
    /\ At(t, "fetch") /\ ~HasBlock(t)
    /\ Goto(t, IF NeedsWatch THEN "watch" ELSE "synced")
    /\ UNCHANGED <<kit, stateEvents, blockEvents, app, node>>

\* watch_channel for each restored monitor.
WatchMonitors(t) ==
    /\ At(t, "watch")
    /\ watched' = (mon # None)
    /\ Goto(t, "background")
    /\ UNCHANGED <<kit, stateEvents, blockEvents, app, best, saved, mon, left, background,
                   processors, owed>>

\* BackgroundProcessor's init starts a thread, beside one another task started.
StartBackground(t) ==
    /\ At(t, "background")
    /\ processors' = processors \cup {t}
    /\ Goto(t, "replace")
    /\ UNCHANGED <<kit, stateEvents, blockEvents, app, best, saved, mon, left, watched,
                   background, owed>>

\* The assignment to backgroundProcessor releases the processor that was there,
\* whose deinit stops it.  Nothing guards the property: of two assignments at once
\* one may not see the other's, and leave that processor running.
Overlapping(t) == \E u \in Tasks \ {t} : task[u].pc = "replace"
ReplaceBackground(t) ==
    /\ At(t, "replace")
    /\ background' = t
    /\ \/ processors' = processors \ {background}
       \/ Overlapping(t) /\ UNCHANGED processors
    /\ Goto(t, "synced")
    /\ UNCHANGED <<kit, stateEvents, blockEvents, app, best, saved, mon, left, watched, owed>>

\* blockChainDataSynced.send(true).  The task then reconnects peers: that is the
\* connector of module PeerSockets and changes nothing here.
SendSynced(t) ==
    /\ At(t, "synced")
    /\ synced' = TRUE
    /\ End(t)
    /\ UNCHANGED <<kit, stateEvents, blockEvents, status, starts, node>>

-----------------------------------------------------------------------------
(* LDK's own doing, and the end of the process *)

\* A channel is funded, which takes events the background processor handles: its
\* monitor starts at the manager's best block and is watched and stored.
OpenChannel ==
    /\ On /\ processors # {} /\ mon = None
    /\ mon' = best /\ watched' = TRUE
    /\ UNCHANGED <<kit, stateEvents, blockEvents, app, best, saved, left, background,
                   processors, owed, task>>

\* A background processor calls persist_manager.
PersistManager ==
    /\ On /\ processors # {} /\ saved # best
    /\ saved' = best
    /\ UNCHANGED <<kit, stateEvents, blockEvents, app, best, mon, left, watched, background,
                   processors, owed, task>>

\* The app is killed, or has panicked, and is launched again: the manager and the
\* monitors come from storage, which has a monitor as it last was.  Without a stored
\* manager a new node starts and leaves the stored monitors for a later launch; of
\* those a launch reads, or leaves, one stands for all.
Bug_StoredMonitors == {mon}
StoredMonitors     == IF saved = None THEN {None} ELSE OneOf({mon, left})
Restart ==
    /\ starts < MaxStarts
    /\ starts' = starts + 1 /\ status' = "on" /\ synced' = FALSE
    /\ best' = IF saved = None THEN Last(chain) ELSE saved
    /\ mon' \in StoredMonitors
    /\ left' \in (IF saved = None THEN OneOf({mon, left}) ELSE {None})
    /\ watched' = FALSE /\ background' = None /\ processors' = {} /\ owed' = {}
    /\ state' \in States /\ stateEvents' = 0 /\ blockEvents' = <<>>
    /\ task' = [t \in Tasks |-> Idle]
    /\ UNCHANGED <<chain, mined, saved>>

-----------------------------------------------------------------------------
TaskStep(t) ==
    \/ ReadBest(t) \/ ReadTip(t) \/ ReadBlocks(t) \/ Download(t)
    \/ ConnectManager(t) \/ ConnectMonitor(t)
    \/ SyncCompleted(t) \/ WatchMonitors(t) \/ StartBackground(t)
    \/ ReplaceBackground(t) \/ SendSynced(t)

Subscriptions == StateDelivered \/ BlockDelivered
Kit           == NewBlock \/ Reorg \/ \E s \in States : KitStateUpdated(s)

\* The process has stopped and is not launched again.
Stopped == ~On /\ UNCHANGED vars

Next ==
    \/ \E t \in Tasks : TaskStep(t)
    \/ Subscriptions \/ Kit
    \/ OpenChannel \/ PersistManager \/ Restart \/ Stopped

Spec == Init /\ [][Next]_vars

\* Run loops deliver what is waiting and the Swift runtime runs every task on.
FairSpec ==
    /\ Spec
    /\ WF_vars(StateDelivered) /\ WF_vars(BlockDelivered)
    /\ \A t \in Tasks : WF_vars(TaskStep(t))

-----------------------------------------------------------------------------
(* Properties *)

\* Every variable holds a value of its type, and a task that feeds the listeners has
\* a block to feed.
TypeOK ==
    /\ chain \in Seq(Block) /\ chain # <<>> /\ mined \in Nat /\ state \in States
    /\ stateEvents \in Nat /\ blockEvents \in Seq(Block)
    /\ status \in {"on", "panicked"} /\ starts \in Nat /\ synced \in BOOLEAN
    /\ best \in Block /\ {saved, mon, left} \subseteq Block \cup {None}
    /\ watched \in BOOLEAN /\ background \in Tasks \cup {None} /\ processors \subseteq Tasks
    /\ owed \subseteq Block
    /\ task \in [Tasks -> Task]
    /\ \A t \in Tasks : task[t].pc \in {"manager", "monitor"} => task[t].blocks # <<>>

\* No block is skipped: whatever tasks overlap, fail or start late, the block a task
\* is about to connect is at most one above the manager's best block, although
\* the height was read before the awaits (syncBlockchainData, connect(block:)).
NeverSkips ==
    \A t \in Tasks : task[t].pc \in {"fetch", "manager"} /\ task[t].blocks # <<>>
                        => Head(task[t].blocks).height <= best.height + 1

\* A monitor never runs ahead: the block a task is about to give the chain monitor
\* is one the manager has already connected, by this task or by another.
MonitorAfterManager ==
    \A t \in Tasks : task[t].pc = "monitor" => Head(task[t].blocks).height <= best.height

\* No block is lost between the two listeners: a block the manager connected while
\* a monitor was watched is one some task is about to give to that monitor.
NothingOwed ==
    \A b \in owed : \E t \in Tasks : task[t].pc = "monitor" /\ Head(task[t].blocks) = b

\* The service says it is synced only when LDK's thread runs and the restored
\* monitors are watched, whichever task set the flag (chain_sync_completed).
SyncedMeansWatched == synced => processors # {} /\ (mon # None => watched)

\* A sync that gets to its end has brought the manager to the tip it read, whatever
\* other tasks connected, and whichever branch the kit moved to, while it awaited
\* its downloads (syncBlockchainData): the flag is not raised below that tip.
SyncReachesTip ==
    \A t \in Tasks : task[t].pc \in {"watch", "background", "replace", "synced"}
                        => best.height >= task[t].high

\* A sync heals every gap that dropped blocks left: while the kit stays synced, the
\* delivery of its state brings the manager to each block the chain had by then.
ResyncHeals ==
    \A h \in 1..MaxBlocks :
        On /\ stateEvents > 0 /\ state = "synced" /\ Len(chain) >= h
            ~> best.height >= h \/ state # "synced" \/ ~On

\* LDK panics over a block only when the manager already has one of that height, or
\* when a longer branch took the block or the manager's own best block off the
\* chain: tasks that overlap repeat blocks, and never hand over a gap.
OnChain(b) == b.height \in DOMAIN chain /\ chain[b.height] = b
PanicIsRepeatOrFork ==
    ~On => \E t \in Tasks :
        /\ task[t].pc = "manager"
        /\ LET b == Head(task[t].blocks) IN
           b.height <= best.height \/ ~OnChain(best) \/ ~OnChain(b)

\* Overlapping tasks, dropped blocks, failed downloads, longer branches and launches
\* move the heights only as ChainFollow allows.
HeightOf(b) == IF b = None THEN 0 ELSE b.height
Follow == INSTANCE ChainFollow WITH
    tip <- Len(chain), height <- best.height, stored <- HeightOf(saved), seen <- HeightOf(mon)
FollowsChain == Follow!Spec

-----------------------------------------------------------------------------
(* Statements of the sources and of lightning.h that the code does not keep *)

\* ChannelManagerConstructor.swift:24 and lightning.h:6808: the manager gets the
\* block that builds on its best one.
BlocksInOrder == status # "panicked"

\* ChannelManagerConstructor.swift:182: chain_sync_completed spawns a background thread.
OneProcessor == \A p, q \in processors : p = q

\* ChannelManagerConstructor.swift:42: each restored monitor is synced before
\* chain_sync_completed watches it.
RestoredMonitorsSynced == [][~watched /\ watched' /\ mon # None => mon = best]_vars
=============================================================================
