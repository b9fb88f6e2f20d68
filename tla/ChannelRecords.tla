---------------------------- MODULE ChannelRecords ----------------------------
(***************************************************************************)
(* The app's list of channels beside LDK's: LightningService's             *)
(* openChannelWith, the close button of ManageChannelView, the event       *)
(* handler and the background job of ChannelManagerPersister, and the      *)
(* DBLightningChannel records of WalletCoordinator they work on.           *)
(*                                                                         *)
(* Records live in the view context, so every access, from whichever       *)
(* thread, runs on the main queue and waits for the call the main thread   *)
(* is in.  An unsorted fetch has no order, so the "first" record with an   *)
(* id is any of them.  The table is kept as the states of the records with *)
(* an id and their number, which is lost once update(node:) copied them.   *)
(*                                                                         *)
(* LDK is outside src/ and modelled from how src/ uses it: its channels,   *)
(* its queue of events, the lock its channels are kept under, and what     *)
(* ChannelManager's write and read do with them.  What the writes of the   *)
(* manager and the monitors store is the subject of NodeStore.  A channel  *)
(* that a peer opens, which LDK accepts by itself, has user id 0, which no *)
(* record has, and gets no record: such channels are left out.             *)
(***************************************************************************)
EXTENDS Integers, FiniteSets

CONSTANTS
    NumChannels, \* channels opened with one node
    Jobs,        \* runs of the background job that may be under way together
    MaxKills     \* bound: times the process ends

\* Channels are numbered as they are asked for, and a user channel id, drawn at
\* random, by the first channel it was drawn for: two channels may share one.
Channels  == 1 .. NumChannels
Ids       == Channels
NoChannel == 0
NoId      == 0

ASSUME BoundAssumption == NumChannels \in Nat /\ MaxKills \in Nat

States == {"waitingFunds", "open", "closed"}
Stages == {"none", "asked", "ready", "funded", "usable", "closing", "gone"}
Events == {"ready", "closed"}
Rows   == [Ids -> SUBSET States]

VARIABLES
    stage,     \* LDK: how far a channel is
    uid,       \* LDK: the user id given to create_channel
    pending,   \* LDK: a channel's events not handled yet, the ready one first
    dirty,     \* LDK: the manager changed since it was written
    lock,      \* LDK: whether an update holds the lock of the channels
    saved,     \* what the stored manager says of the channels and events
    inLdk,     \* the main thread is in a call into LDK
    opening,   \* the main thread: the channel created and not recorded yet
    held,      \* the view model's node: the channels in its list
    openItems, \* the view model's channels that show as open
    records,   \* DBLightningChannel: the states of the records with an id
    number,    \* how many those are
    bg,        \* LDK's background thread: the channel whose record it removes
    scheduled, \* jobs dispatched and not begun
    todo,      \* a job's list, without what it is done with
    kills,     \* times the process ended
    lost,      \* history: channels a kill took from LDK without an event
    copied,    \* history: ids whose record was written a second time
    contested  \* history: channels an older job still had to do as the last one began

ldk     == <<stage, uid, pending, dirty, lock>>
view    == <<inLdk, opening, held, openItems>>
jobs    == <<scheduled, todo>>
history == <<kills, lost, copied, contested>>
table   == <<records, number>>
vars    == <<ldk, saved, view, table, bg, jobs, history>>

-----------------------------------------------------------------------------
(* Values and small operators *)

Live(c)   == stage[c] \notin {"none", "gone"}
Funded(c) == stage[c] \in {"funded", "usable", "closing"}
Shared(c) == \E d \in Channels : d # c /\ uid[d] = uid[c]
HasRow(i)         == records[i] # {}
ShownOpen(i)      == "open" \in records[i]
StateFor(usable)  == IF usable THEN "open" ELSE "waitingFunds"
Ending(c)         == "closed" \in pending[c] \/ bg = c
Owns(c)           == Live(c) \/ Ending(c) \/ c \in lost

\* The main thread waits for the channels while a monitor is written under
\* their lock, and the write waits for the main thread.
Hung == inLdk /\ lock = "monitor"

\* Definitions named Bug_... are faulty variants of the definition that follows
\* them, kept to check that the properties notice them; nothing else uses them.

-----------------------------------------------------------------------------
(* The records; each runs on the main queue *)

MainQueueIsFree == ~inLdk /\ opening = NoChannel

\* update(node:) makes a record of every channel in the node's list, of those that
\* have one too, in the state the list has them in.
Bug_AddNode(node, i) ==
    /\ \E copies \in [node -> SUBSET States \ {{}}] :
          records' = [k \in Ids |-> records[k] \cup (IF k \in node THEN copies[k] ELSE {})]
    /\ copied' = copied \cup node
    /\ number' = [k \in Ids |-> IF k \in copied' THEN 0 ELSE number[k]]

AddNode(node, i) ==
    /\ \E copies \in [node -> SUBSET States \ {{}}] :
          records' = [k \in Ids |-> records[k] \cup (IF k \in node THEN copies[k] ELSE {})
                                               \cup (IF k = i THEN {"waitingFunds"} ELSE {})]
    /\ copied' = copied \cup node
    /\ number' = [k \in Ids |-> IF k \in copied' THEN 0
                                ELSE IF k = i THEN number[k] + 1 ELSE number[k]]

\* What the states of the other records may be, for each record with the id.
Without(i) ==
    {rest \in SUBSET records[i] :
        /\ \E s \in records[i] : records[i] \ {s} \subseteq rest
        /\ \/ i \in copied
           \/ Cardinality(rest) < number[i] /\ (rest = {} <=> number[i] = 1)}

\* removeChannelWith(id:): a record with the id, if there is one.
Bug_RemoveRecord(i) ==
    /\ IF HasRow(i) THEN \E rest \in Without(i) : records' = [records EXCEPT ![i] = rest]
                    ELSE UNCHANGED records
    /\ number' = [number EXCEPT ![i] = @ - 1]

RemoveRecord(i) ==
    IF HasRow(i) THEN /\ \E rest \in Without(i) : records' = [records EXCEPT ![i] = rest]
                      /\ number' = [number EXCEPT ![i] = IF i \in copied THEN 0 ELSE @ - 1]
                 ELSE UNCHANGED table

\* update(channel:) writes the state, and nothing else, of a record with the id.
WriteState(i, new) ==
    /\ IF HasRow(i)
       THEN \E rest \in Without(i) : records' = [records EXCEPT ![i] = rest \cup {new}]
       ELSE UNCHANGED records
    /\ UNCHANGED number

-----------------------------------------------------------------------------
Init ==
    /\ stage = [c \in Channels |-> "none"] /\ uid = [c \in Channels |-> NoId]
    /\ pending = [c \in Channels |-> {}] /\ dirty = FALSE /\ lock = "free"
    /\ saved = [open |-> {}, closing |-> {}, closed |-> {}]
    /\ inLdk = FALSE /\ opening = NoChannel /\ held = {} /\ openItems = {}
    /\ records = [i \in Ids |-> {}] /\ number = [i \in Ids |-> 0] /\ bg = NoChannel
    /\ scheduled = 0 /\ todo = [j \in Jobs |-> {}]
    /\ kills = 0 /\ lost = {} /\ copied = {} /\ contested = {}

-----------------------------------------------------------------------------
(* The main thread *)

ReadView ==
    /\ held' = {i \in Ids : HasRow(i)}
    /\ openItems' = {i \in Ids : ShownOpen(i)}

\* ChannelsViewModel.init fetches the nodes and the channels.
ShowChannels ==
    /\ MainQueueIsFree
    /\ ReadView
    /\ UNCHANGED <<ldk, saved, inLdk, opening, table, bg, jobs, history>>

\* The main thread enters LDK from a button or from a view's body.
Enter ==
    /\ MainQueueIsFree /\ inLdk' = TRUE
    /\ UNCHANGED <<ldk, saved, opening, held, openItems, table, bg, jobs, history>>

NextChannel == {c \in Channels : stage[c] = "none" /\ \A d \in 1 .. c - 1 : stage[d] # "none"}
NewId(c)    == {c} \cup {uid[d] : d \in 1 .. c - 1}

\* openChannelWith up to the return of create_channel.
CreateChannel ==
    /\ inLdk /\ lock = "free" /\ inLdk' = FALSE
    /\ \/ \E c \in NextChannel : \E i \in NewId(c) :
             /\ stage' = [stage EXCEPT ![c] = "asked"]
             /\ uid' = [uid EXCEPT ![c] = i]
             /\ opening' = c
       \/ UNCHANGED <<stage, uid, opening>>
    /\ UNCHANGED <<pending, dirty, lock, saved, held, openItems, table, bg, jobs, history>>

\* Its rest: the channel is appended to the node's channels, then update(node:).
\* Peers, LDK's background thread and the jobs went on meanwhile.
RecordChannel ==
    /\ opening # NoChannel /\ opening' = NoChannel
    /\ AddNode(held, uid[opening])
    /\ held' = held \cup {uid[opening]}
    /\ UNCHANGED <<ldk, saved, inLdk, openItems, bg, jobs, kills, lost, contested>>

\* The close button: a channel of LDK with the id, whichever it is, is closed, and
\* then a record with the id.
CloseChannel ==
    /\ inLdk /\ lock = "free" /\ inLdk' = FALSE
    /\ \/ \E i \in openItems, c \in Channels :
             /\ Live(c) /\ uid[c] = i /\ stage[c] # "closing"
             /\ openItems' = openItems \ {i}
             /\ WriteState(i, "closed")
             /\ stage' = [stage EXCEPT ![c] = IF Funded(c) THEN "closing" ELSE "gone"]
             /\ pending' = [pending EXCEPT ![c] = IF Funded(c) THEN @ ELSE @ \cup {"closed"}]
             /\ dirty' = TRUE
       \/ UNCHANGED <<openItems, table, stage, pending, dirty>>
    /\ UNCHANGED <<uid, lock, saved, opening, held, bg, jobs, history>>

\* channelBalance and the balance of LightningView: list_usable_channels.
ReadBalance ==
    /\ inLdk /\ lock = "free" /\ inLdk' = FALSE
    /\ UNCHANGED <<ldk, saved, opening, held, openItems, table, bg, jobs, history>>

-----------------------------------------------------------------------------
(* LDK, driven by its peers and the chain *)

LdkMoves(c, to) ==
    /\ lock = "free"
    /\ stage' = [stage EXCEPT ![c] = to] /\ dirty' = TRUE
    /\ UNCHANGED <<uid, lock, saved, view, table, bg, jobs, history>>

Accepted(c) ==
    /\ stage[c] = "asked" /\ LdkMoves(c, "ready")
    /\ pending' = [pending EXCEPT ![c] = @ \cup {"ready"}]

\* Usable takes confirmations and a connected peer, which may go and come back.
BecomesUsable(c) == stage[c] = "funded" /\ LdkMoves(c, "usable") /\ UNCHANGED pending
PeerLeaves(c)    == stage[c] = "usable" /\ LdkMoves(c, "funded") /\ UNCHANGED pending

ChannelEnds(c) ==
    /\ Live(c) /\ LdkMoves(c, "gone")
    /\ pending' = [pending EXCEPT ![c] = @ \cup {"closed"}]

\* An update of a channel writes its monitor under the lock (ChannelPersister).
LockForUpdate ==
    /\ lock = "free" /\ \E c \in Channels : Funded(c)
    /\ lock' = "monitor"
    /\ UNCHANGED <<stage, uid, pending, dirty, saved, view, table, bg, jobs, history>>

WriteMonitor ==
    /\ lock = "monitor" /\ MainQueueIsFree
    /\ lock' = "free" /\ dirty' = TRUE
    /\ UNCHANGED <<stage, uid, pending, saved, view, table, bg, jobs, history>>

-----------------------------------------------------------------------------
(* LDK's background thread: events, then the manager *)

\* FundingGenerationReady: the transaction is made and given to LDK, or either
\* fails and the record goes; LDK keeps the channel unless it was LDK that failed.
HandleReady(c) ==
    /\ bg = NoChannel /\ "ready" \in pending[c] /\ lock = "free"
    /\ \/ /\ stage[c] = "ready"                                        \* sent
          /\ stage' = [stage EXCEPT ![c] = "funded"] /\ dirty' = TRUE
          /\ pending' = [pending EXCEPT ![c] = @ \ {"ready"}] /\ UNCHANGED bg
       \/ /\ bg' = c /\ UNCHANGED <<stage, dirty>>           \* no transaction
          /\ pending' = [pending EXCEPT ![c] = @ \ {"ready"}]
       \/ /\ bg' = c /\ dirty' = TRUE                                \* refused
          /\ stage' = [stage EXCEPT ![c] = "gone"]
          /\ pending' = [pending EXCEPT ![c] = {"closed"}]
    /\ UNCHANGED <<uid, lock, saved, view, table, jobs, history>>

\* ChannelClosed.  The handler does not run under the lock.
HandleClosed(c) ==
    /\ bg = NoChannel /\ pending[c] = {"closed"}
    /\ bg' = c /\ pending' = [pending EXCEPT ![c] = {}]
    /\ UNCHANGED <<stage, uid, dirty, lock, saved, view, table, jobs, history>>

\* With records in a context of the thread's own, it would not wait for the record
\* of a channel being opened.
Bug_FinishRemove ==
    /\ bg # NoChannel /\ ~inLdk
    /\ RemoveRecord(uid[bg]) /\ bg' = NoChannel
    /\ UNCHANGED <<ldk, saved, view, jobs, history>>

FinishRemove ==
    /\ bg # NoChannel /\ MainQueueIsFree
    /\ RemoveRecord(uid[bg]) /\ bg' = NoChannel
    /\ UNCHANGED <<ldk, saved, view, jobs, history>>

\* persist_manager: the manager is written, without what it never writes, and the
\* job is dispatched.
PersistManager ==
    /\ bg = NoChannel /\ dirty /\ lock = "free" /\ MainQueueIsFree
    /\ saved' = [open    |-> {c \in Channels : stage[c] \in {"funded", "usable"}},
                 closing |-> {c \in Channels : stage[c] = "closing"},
                 closed  |-> {c \in Channels : "closed" \in pending[c]}]
    /\ dirty' = FALSE
    /\ scheduled < Cardinality(Jobs) /\ scheduled' = scheduled + 1
    /\ UNCHANGED <<stage, uid, pending, lock, view, table, bg, todo, history>>

-----------------------------------------------------------------------------
(* The job persist_manager dispatches *)

Lists(j, c) == \E usable \in BOOLEAN : <<c, usable>> \in todo[j]

JobStart(j) ==
    /\ scheduled > 0 /\ todo[j] = {} /\ lock = "free"
    /\ todo' = [todo EXCEPT ![j] = {<<c, stage[c] = "usable">> : c \in {d \in Channels : Live(d)}}]
    /\ scheduled' = scheduled - 1
    /\ contested' = {c \in Channels : \E k \in Jobs \ {j} : Lists(k, c)}
    /\ UNCHANGED <<ldk, saved, view, table, bg, kills, lost, copied>>

\* The record fetched does not show what the list says.
Bug_Differs(state, new) == state = "closed" /\ new # "closed"
Differs(state, new)     == state # new

\* The next channel of the list: channelWith(id:), and update(channel:) if the
\* record differs, in its state or its balance, which the update does not store.
\* Between the two the main queue may run, and it changes nothing: the state
\* written is the list's, whatever the record is by then.
UpdateRecord(j) ==
    /\ MainQueueIsFree
    /\ \E e \in todo[j] :
        LET i == uid[e[1]]  new == StateFor(e[2]) IN
        /\ todo' = [todo EXCEPT ![j] = @ \ {e}]
        /\ \/ HasRow(i) /\ WriteState(i, new)
           \/ /\ ~HasRow(i) \/ \E s \in records[i] : ~Differs(s, new)
              /\ UNCHANGED table
    /\ UNCHANGED <<ldk, saved, view, bg, scheduled, history>>

-----------------------------------------------------------------------------
\* The process ends and starts again.  A channel comes back as the stored manager
\* has it; one that LDK had closed since, or whose monitor is newer, is closed with
\* an event, and one the stored manager does not have is forgotten.
Kill ==
    \E undone \in SUBSET (saved.open \cup saved.closing) :
    LET told    == saved.closed \cup undone
        next(c) == IF stage[c] = "none" THEN "none"
                   ELSE IF c \in saved.open \ undone THEN "funded"
                   ELSE IF c \in saved.closing \ undone THEN "closing" ELSE "gone"
    IN
    /\ {c \in saved.open \cup saved.closing : stage[c] = "gone"} \subseteq undone
    /\ dirty \/ undone = {}
    /\ kills < MaxKills /\ kills' = kills + 1
    /\ stage' = [c \in Channels |-> next(c)]
    /\ pending' = [c \in Channels |-> IF c \in told THEN {"closed"} ELSE {}]
    /\ lost' = lost \cup {c \in Channels : /\ Live(c) \/ Ending(c)
                                           /\ next(c) = "gone" /\ c \notin told}
    /\ dirty' = TRUE /\ lock' = "free" /\ inLdk' = FALSE
    /\ opening' = NoChannel /\ ReadView /\ bg' = NoChannel
    /\ scheduled' = 0 /\ todo' = [j \in Jobs |-> {}]
    /\ contested' = {} /\ UNCHANGED <<uid, saved, table, copied>>

\* Nothing but a kill ends a hang.
Stopped == inLdk /\ lock # "free" /\ UNCHANGED vars

-----------------------------------------------------------------------------
Main       == \/ ShowChannels \/ Enter
              \/ CreateChannel \/ RecordChannel \/ CloseChannel \/ ReadBalance
Ldk        == \/ \E c \in Channels :
                    Accepted(c) \/ BecomesUsable(c) \/ PeerLeaves(c) \/ ChannelEnds(c)
              \/ LockForUpdate \/ WriteMonitor
Background == \/ \E c \in Channels : HandleReady(c) \/ HandleClosed(c)
              \/ FinishRemove \/ PersistManager
Job(j)     == JobStart(j) \/ UpdateRecord(j)

Next == Main \/ Ldk \/ Background \/ (\E j \in Jobs : Job(j)) \/ Kill \/ Stopped

Spec == Init /\ [][Next]_vars

\* The main thread finishes its calls, LDK's update its write, and the background
\* thread and the jobs go on; the main queue serves them although the main thread
\* comes back for more, and the lock is not kept from any of them for ever.
Fairness ==
    /\ WF_vars(CreateChannel \/ CloseChannel \/ ReadBalance) /\ WF_vars(RecordChannel)
    /\ SF_vars(WriteMonitor)
    /\ SF_vars(\E c \in Channels : HandleReady(c) \/ HandleClosed(c))
    /\ SF_vars(FinishRemove) /\ SF_vars(PersistManager)
    /\ \A j \in Jobs : SF_vars(Job(j))

FairSpec == Spec /\ Fairness

-----------------------------------------------------------------------------
(* Properties *)

\* Every variable holds a value of its type.
TypeOK ==
    /\ stage \in [Channels -> Stages] /\ uid \in [Channels -> Ids \cup {NoId}]
    /\ pending \in [Channels -> SUBSET Events] /\ dirty \in BOOLEAN
    /\ lock \in {"free", "monitor"}
    /\ saved \in [{"open", "closing", "closed"} -> SUBSET Channels]
    /\ inLdk \in BOOLEAN /\ opening \in Channels \cup {NoChannel}
    /\ held \subseteq Ids /\ openItems \subseteq Ids
    /\ records \in Rows /\ number \in [Ids -> Nat] /\ bg \in Channels \cup {NoChannel}
    /\ scheduled \in Nat /\ todo \in [Jobs -> SUBSET (Channels \X BOOLEAN)]
    /\ kills \in 0 .. MaxKills /\ lost \subseteq Channels
    /\ copied \subseteq Ids /\ contested \subseteq Channels

\* A record whose channel LDK does not have, and whose removal is not under way, is
\* a second copy made by update(node:), or of a channel a kill took from LDK before
\* the manager was stored: no order of events, funding failures and jobs makes one.
GhostOnlyIf ==
    \A i \in Ids : HasRow(i) => i \in copied \/ \E c \in Channels : uid[c] = i /\ Owns(c)

\* A funded channel is in the app's list, through failures, kills and events told
\* twice, unless openChannelWith is yet to record it or its random id is another
\* channel's too: then the end of the one removes the record of the other.
UnrecordedOnlyIf ==
    \A c \in Channels : Funded(c) => HasRow(uid[c]) \/ opening = c \/ Shared(c)

\* When nothing is on its way any more - the manager is stored, no job is waiting and
\* none still lists the channel - a usable channel is shown as open, through kills,
\* removals and lists read long before they are used; unless another channel has its
\* id, or an older job had it to do as the last one began and could write after it.
Settled(c) == ~dirty /\ scheduled = 0 /\ \A j \in Jobs : ~Lists(j, c)
UsableIsShown ==
    \A c \in Channels :
        stage[c] = "usable" /\ Settled(c) => ShownOpen(uid[c]) \/ Shared(c) \/ c \in contested

\* What lightning.h says of update_persisted_channel, that every update must be
\* persisted: its write, made under the lock of the channels, ends.  It does not when
\* the main thread waits for that lock in a view's balance or a button's action.
UpdateIsPersisted == lock = "monitor" ~> lock = "free"
=============================================================================
