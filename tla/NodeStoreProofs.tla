---------------------------- MODULE NodeStoreProofs ----------------------------
(***************************************************************************)
(* The safety properties of NodeStore, for every number of channels,       *)
(* payments, faults and kills.  IInv is the inductive invariant.           *)
(***************************************************************************)
EXTENDS NodeStore, TLAPS

Lost(c) == "fetch" \in swallowed[c]

\* What memory and thread state look like in each phase of the process.
Phases ==
    /\ phase = "off" => /\ store = disk
                        /\ manager = EmptyManager
                        /\ monitors = [c \in Channels |-> NoMonitor]
                        /\ watched = {}
                        /\ ~blind
    /\ phase # "off" => died = "none"
    /\ phase # "running" => bg = "idle" /\ unseen = {}
    /\ bg = "record" => paid \in Payments
    /\ unseen \subseteq watched
    /\ watched \subseteq Stored(monitors)
    /\ phase = "running" => Stored(monitors) \subseteq watched

\* A monitor gets newer from the disk to the context to memory.
MonitorOrder ==
    \A c \in Channels :
        /\ disk.monitors[c].update <= store.monitors[c].update
        /\ store.monitors[c].update <= latest[c]
        /\ monitors[c].update <= latest[c]
        /\ monitors[c].update > 0 => store.monitors[c].update <= monitors[c].update
        /\ IsOpen(c) => manager.update[c] = monitors[c].update

\* No copy of the manager is ahead of the monitors written before it.
NotBehind(m, ms) ==
    \A c \in Channels : m.update[c] <= latest[c] /\ (Lost(c) \/ m.update[c] <= ms[c].update)

ManagersNotBehind ==
    /\ disk.manager # NoManager => NotBehind(disk.manager, disk.monitors)
    /\ store.manager # NoManager => NotBehind(store.manager, store.monitors)
    /\ NotBehind(snap, store.monitors)
    /\ NotBehind(manager, store.monitors)

\* No copy of the manager knows of a claim whose record is not beside it.
ClaimsRecorded ==
    /\ ClaimedIsRecorded
    /\ store.manager # NoManager => store.manager.claimed \subseteq store.payments
    /\ snap.claimed \subseteq store.payments
    /\ manager.claimed \subseteq store.payments \cup (IF bg = "record" THEN {paid} ELSE {})

\* Without a swallowed error every copy of a monitor is the newest.
Newest ==
    \A c \in Channels : swallowed[c] = {} =>
        /\ disk.monitors[c].update = latest[c]
        /\ store.monitors[c].update = latest[c]
        /\ monitors[c].update > 0 => monitors[c].update = latest[c]

\* A restored process holds every monitor the context holds.
Restored ==
    phase # "off" /\ ~blind => Stored(store.monitors) \subseteq Stored(monitors)

\* The copies of the manager get newer from the disk to the context to the bytes
\* taken to memory, except for channels the launch closed or did not read.
AheadIn(m, n, b, ms) ==
    \A c \in Channels : \/ n.update[c] >= m.update[c]
                        \/ n.update[c] = 0 /\ (b \/ ms[c].update > m.update[c])
Ahead(m, n) == AheadIn(m, n, blind, disk.monitors)

CopiesAdvance ==
    phase # "off" =>
        /\ disk.manager # NoManager => /\ Ahead(disk.manager, store.manager)
                                       /\ Ahead(disk.manager, manager)
                                       /\ bg = "save" => Ahead(disk.manager, snap)
        /\ store.manager # NoManager => /\ Ahead(store.manager, manager)
                                        /\ bg = "save" => Ahead(store.manager, snap)
        /\ bg = "save" => Ahead(snap, manager)

\* The context holds a manager when the disk does.
InContext == disk.manager # NoManager => store.manager # NoManager

IInv ==
    /\ TypeOK
    /\ Phases
    /\ MonitorOrder
    /\ ManagersNotBehind
    /\ ClaimsRecorded
    /\ Newest
    /\ Restored
    /\ InContext
    /\ CopiesAdvance

-----------------------------------------------------------------------------
(* What a write changes *)

\* The records a write puts into the content, field by field.
LEMMA PutMonitor ==
    ASSUME NEW s \in Content, NEW c \in Channels, NEW m \in Monitor
    PROVE  LET t == [s EXCEPT !.monitors[c] = m] IN
           /\ t \in Content
           /\ t.manager = s.manager /\ t.graph = s.graph /\ t.payments = s.payments
           /\ t.monitors = [s.monitors EXCEPT ![c] = m]
BY DEF Content

LEMMA PutManager ==
    ASSUME NEW s \in Content, NEW m \in Manager
    PROVE  LET t == [s EXCEPT !.manager = m] IN
           /\ t \in Content
           /\ t.manager = m /\ t.graph = s.graph /\ t.payments = s.payments
           /\ t.monitors = s.monitors
BY DEF Content

LEMMA PutGraph ==
    ASSUME NEW s \in Content
    PROVE  LET t == [s EXCEPT !.graph = TRUE] IN
           /\ t \in Content
           /\ t.manager = s.manager /\ t.graph = TRUE /\ t.payments = s.payments
           /\ t.monitors = s.monitors
BY DEF Content

LEMMA PutPayment ==
    ASSUME NEW s \in Content, NEW p \in Payments
    PROVE  LET t == [s EXCEPT !.payments = @ \cup {p}] IN
           /\ t \in Content
           /\ t.manager = s.manager /\ t.graph = s.graph
           /\ t.payments = s.payments \cup {p}
           /\ t.monitors = s.monitors
BY DEF Content

\* The three ends of a write.
LEMMA WriteCases ==
    ASSUME NEW new, NEW result \in Outcomes, Write(new, result)
    PROVE  \/ result = "ok" /\ store' = new /\ disk' = new /\ faults' = faults
           \/ result = "save" /\ store' = new /\ disk' = disk /\ faults' = faults + 1
           \/ result = "fetch" /\ store' = store /\ disk' = disk /\ faults' = faults + 1
BY FaultsAssumption DEF Write, Outcomes

\* What writing a monitor does to the context, the disk and the history.
LEMMA PersistEffects ==
    ASSUME TypeOK, NEW c \in Channels, NEW m \in Monitor, PersistMonitor(c, m)
    PROVE  /\ store' \in Content /\ disk' \in Content /\ faults' \in Nat
           /\ swallowed' \in [Channels -> SUBSET {"fetch", "save"}]
           /\ store'.manager = store.manager /\ store'.payments = store.payments
           /\ disk' = disk \/ disk' = store'
           /\ \A d \in Channels \ {c} : /\ store'.monitors[d] = store.monitors[d]
                                        /\ swallowed'[d] = swallowed[d]
           /\ \/ store'.monitors[c] = m
              \/ store'.monitors[c] = store.monitors[c] /\ "fetch" \in swallowed'[c]
           /\ swallowed[c] \subseteq swallowed'[c]
           /\ swallowed'[c] = {} => disk' = store' /\ store'.monitors[c] = m
           /\ faults' = 0 => faults = 0 /\ swallowed' = swallowed
<1> DEFINE t == [store EXCEPT !.monitors[c] = m]
<1>1. PICK result \in Outcomes :
          Write(t, result) /\ swallowed' = [swallowed EXCEPT ![c] = @ \cup ({result} \ {"ok"})]
  BY DEF PersistMonitor
<1>2. /\ t \in Content /\ t.manager = store.manager /\ t.payments = store.payments
      /\ t.monitors = [store.monitors EXCEPT ![c] = m]
  BY PutMonitor DEF TypeOK
<1>3. store.monitors \in [Channels -> Monitor] /\ disk \in Content /\ store \in Content
  BY DEF TypeOK, Content
<1>4. t.monitors[c] = m /\ \A d \in Channels \ {c} : t.monitors[d] = store.monitors[d]
  BY <1>2, <1>3
<1>5. swallowed \in [Channels -> SUBSET {"fetch", "save"}] /\ faults \in Nat
  BY DEF TypeOK
<1> HIDE DEF t
<1>6. \/ result = "ok" /\ store' = t /\ disk' = t /\ faults' = faults
      \/ result = "save" /\ store' = t /\ disk' = disk /\ faults' = faults + 1
      \/ result = "fetch" /\ store' = store /\ disk' = disk /\ faults' = faults + 1
  BY <1>1, WriteCases
<1>7. /\ \A d \in Channels \ {c} : swallowed'[d] = swallowed[d]
      /\ swallowed'[c] = swallowed[c] \cup ({result} \ {"ok"})
  BY <1>1, <1>5
<1>8. CASE result = "ok"
  <2>1. swallowed' = swallowed
    BY <1>1, <1>5, <1>7, <1>8
  <2>2. QED BY <1>2, <1>3, <1>4, <1>5, <1>6, <1>8, <2>1
<1>9. CASE result = "save"
  <2>1. /\ swallowed' \in [Channels -> SUBSET {"fetch", "save"}]
        /\ swallowed'[c] # {}
    BY <1>1, <1>5, <1>7, <1>9
  <2>2. faults' \in Nat /\ faults' # 0
    BY <1>5, <1>6, <1>9
  <2>3. QED BY <1>2, <1>3, <1>4, <1>6, <1>7, <1>9, <2>1, <2>2
<1>10. CASE result = "fetch"
  <2>1. /\ swallowed' \in [Channels -> SUBSET {"fetch", "save"}]
        /\ "fetch" \in swallowed'[c]
    BY <1>1, <1>5, <1>7, <1>10
  <2>2. faults' \in Nat /\ faults' # 0
    BY <1>5, <1>6, <1>10
  <2>3. QED BY <1>3, <1>6, <1>7, <1>10, <2>1, <2>2
<1>11. QED BY <1>6, <1>8, <1>9, <1>10

-----------------------------------------------------------------------------
(* Types *)

LEMMA InitType == Init => TypeOK
<1>1. 0 \in Update /\ 0 \in 0 .. MaxBlock
  BY BoundsAssumption DEF Update
<1>2. NoMonitor \in Monitor /\ EmptyManager \in Manager
  BY <1>1 DEF NoMonitor, EmptyManager, Monitor, Manager
<1>3. EmptyContent \in Content
  BY <1>2 DEF EmptyContent, Content
<1>4. /\ [c \in Channels |-> NoMonitor] \in [Channels -> Monitor]
      /\ [c \in Channels |-> 0] \in [Channels -> Update]
      /\ [c \in Channels |-> {}] \in [Channels -> SUBSET {"fetch", "save"}]
  BY <1>1, <1>2
<1>5. ASSUME Init
      PROVE  /\ disk \in Content /\ store \in Content /\ manager \in Manager /\ snap \in Manager
             /\ monitors \in [Channels -> Monitor] /\ latest \in [Channels -> Update]
             /\ swallowed \in [Channels -> SUBSET {"fetch", "save"}]
  BY <1>2, <1>3, <1>4, <1>5, Zenon DEF Init
<1>6. ASSUME Init
      PROVE  /\ watched \subseteq Channels /\ unseen \subseteq Channels
             /\ phase \in {"off", "syncing", "running"} /\ blind \in BOOLEAN /\ dirty \in BOOLEAN
             /\ bg \in {"idle", "record", "save"} /\ paid \in Payments \cup {NoPayment}
             /\ tip \in 0 .. MaxBlock /\ faults \in Nat /\ kills \in Nat
             /\ died \in Errors \cup {"none"}
  BY <1>1, <1>6 DEF Init
<1>7. QED BY <1>5, <1>6, Zenon DEF TypeOK

\* A manager and monitors LDK reads have their types.
LEMMA ReadTypes ==
    ASSUME TypeOK, NEW failed
    PROVE  /\ FetchMonitors(failed) \in [Channels -> Monitor]
           /\ FetchManager(failed) # NoManager =>
                 /\ FetchManager(failed) = disk.manager
                 /\ FetchManager(failed) \in Manager
                 /\ ReadManager(FetchManager(failed), FetchMonitors(failed)) \in Manager
                 /\ ReadManager(FetchManager(failed), FetchMonitors(failed)).claimed = disk.manager.claimed
                 /\ ReadManager(FetchManager(failed), FetchMonitors(failed)).update =
                      [c \in Channels |->
                         IF disk.manager.update[c] = FetchMonitors(failed)[c].update
                         THEN disk.manager.update[c] ELSE 0]
<1>1. 0 \in Update /\ 0 \in 0 .. MaxBlock
  BY BoundsAssumption DEF Update
<1>2. NoMonitor \in Monitor
  BY <1>1 DEF NoMonitor, Monitor
<1>3. disk.monitors \in [Channels -> Monitor] /\ disk.manager \in Manager \cup {NoManager}
  BY DEF TypeOK, Content
<1>4. FetchMonitors(failed) \in [Channels -> Monitor]
  BY <1>2, <1>3 DEF FetchMonitors
<1>5. ASSUME FetchManager(failed) # NoManager
      PROVE  FetchManager(failed) = disk.manager /\ disk.manager \in Manager
  BY <1>3, <1>5 DEF FetchManager
<1> DEFINE ms == FetchMonitors(failed)
<1>6. ASSUME NEW m \in Manager
      PROVE  /\ ReadManager(m, ms) \in Manager
             /\ ReadManager(m, ms).claimed = m.claimed
             /\ ReadManager(m, ms).update =
                  [c \in Channels |-> IF m.update[c] = ms[c].update THEN m.update[c] ELSE 0]
  <2> HIDE DEF ms
  <2> QED BY <1>1 DEF ReadManager, Manager
<1>7. QED BY <1>4, <1>5, <1>6

LEMMA MonitorStepTypes ==
    ASSUME TypeOK, NEW c \in Channels
    PROVE  /\ WatchChannel(c) => TypeOK'
           /\ FundChannel(c) => TypeOK'
           /\ UpdateChannel(c) => TypeOK'
           /\ MonitorSeesBlock(c) => TypeOK'
           /\ \A p \in Payments : ClaimFunds(p, c) => TypeOK'
<1> USE BoundsAssumption
<1>1. /\ monitors \in [Channels -> Monitor] /\ monitors[c] \in Monitor
      /\ monitors[c].update \in Update /\ monitors[c].block \in 0 .. MaxBlock
      /\ manager \in Manager /\ manager.update \in [Channels -> Update]
      /\ manager.claimed \subseteq Payments /\ manager.update[c] \in Update
      /\ latest \in [Channels -> Update] /\ tip \in 0 .. MaxBlock
  BY DEF TypeOK, Monitor, Manager
<1>2. CASE WatchChannel(c)
  <2>1. PersistMonitor(c, monitors[c]) /\ watched' \subseteq Channels
    BY <1>2 DEF WatchChannel, TypeOK
  <2>2. /\ store' \in Content /\ disk' \in Content /\ faults' \in Nat
        /\ swallowed' \in [Channels -> SUBSET {"fetch", "save"}]
    BY <1>1, <2>1, PersistEffects
  <2>3. QED BY <1>2, <2>1, <2>2 DEF WatchChannel, TypeOK, process
<1>3. CASE MonitorSeesBlock(c)
  <2> DEFINE m == [monitors[c] EXCEPT !.block = tip]
  <2>1. m \in Monitor /\ PersistMonitor(c, m) /\ monitors' \in [Channels -> Monitor]
    BY <1>1, <1>3 DEF MonitorSeesBlock, Monitor
  <2>2. /\ store' \in Content /\ disk' \in Content /\ faults' \in Nat
        /\ swallowed' \in [Channels -> SUBSET {"fetch", "save"}]
    <3> HIDE DEF m
    <3> QED BY <2>1, PersistEffects
  <2>3. QED BY <1>3, <2>1, <2>2 DEF MonitorSeesBlock, TypeOK, process
<1>4. ASSUME NEW n \in Update, Advance(c, n)
      PROVE  /\ store' \in Content /\ disk' \in Content /\ faults' \in Nat
             /\ swallowed' \in [Channels -> SUBSET {"fetch", "save"}]
             /\ manager' \in Manager /\ monitors' \in [Channels -> Monitor]
             /\ latest' \in [Channels -> Update] /\ dirty' = TRUE
  <2> DEFINE m == [update |-> n, block |-> IF IsOpen(c) THEN monitors[c].block ELSE tip]
  <2>1. m \in Monitor
    BY <1>1 DEF Monitor
  <2>2. PersistMonitor(c, m) /\ monitors' = [monitors EXCEPT ![c] = m]
    BY <1>4 DEF Advance
  <2>3. /\ store' \in Content /\ disk' \in Content /\ faults' \in Nat
        /\ swallowed' \in [Channels -> SUBSET {"fetch", "save"}]
    <3> HIDE DEF m
    <3> QED BY <2>1, <2>2, PersistEffects
  <2>4. monitors' \in [Channels -> Monitor]
    <3> HIDE DEF m
    <3> QED BY <1>1, <2>1, <2>2
  <2>5. manager' \in Manager
    BY <1>1, <1>4 DEF Advance, Manager
  <2>6. latest' \in [Channels -> Update] /\ dirty' = TRUE
    BY <1>1, <1>4 DEF Advance
  <2>7. QED BY <2>3, <2>4, <2>5, <2>6
<1>5. CASE FundChannel(c)
  <2>1. 1 \in Update /\ Advance(c, 1)
    BY <1>5 DEF FundChannel, Update
  <2>2. QED BY <1>4, <1>5, <2>1 DEF FundChannel, TypeOK, process
<1>6. CASE UpdateChannel(c)
  <2>1. manager.update[c] + 1 \in Update /\ Advance(c, manager.update[c] + 1)
    BY <1>1, <1>6 DEF UpdateChannel, Update
  <2>2. QED BY <1>4, <1>6, <2>1 DEF UpdateChannel, TypeOK, process
<1>7. ASSUME NEW p \in Payments, ClaimFunds(p, c) PROVE TypeOK'
  <2> DEFINE n == manager.update[c] + 1
             m == [update |-> n, block |-> monitors[c].block]
  <2>1. n \in Update
    BY <1>1, <1>7 DEF ClaimFunds, Update
  <2>2. m \in Monitor
    <3> HIDE DEF n
    <3> QED BY <1>1, <2>1 DEF Monitor
  <2>3. PersistMonitor(c, m)
    BY <1>7 DEF ClaimFunds
  <2>4. /\ store' \in Content /\ disk' \in Content /\ faults' \in Nat
        /\ swallowed' \in [Channels -> SUBSET {"fetch", "save"}]
    <3> HIDE DEF m
    <3> QED BY <2>2, <2>3, PersistEffects
  <2>5. /\ manager' = [update |-> [manager.update EXCEPT ![c] = n],
                       claimed |-> manager.claimed \cup {p}]
        /\ monitors' = [monitors EXCEPT ![c].update = n]
        /\ latest' = [latest EXCEPT ![c] = IF n > @ THEN n ELSE @]
    BY <1>7 DEF ClaimFunds
  <2> HIDE DEF n, m
  <2>6. manager' \in Manager /\ latest' \in [Channels -> Update]
    BY <1>1, <2>1, <2>5 DEF Manager
  <2>7. monitors' \in [Channels -> Monitor]
    BY <1>1, <2>1, <2>5 DEF Monitor
  <2>8. QED BY <1>7, <2>4, <2>6, <2>7 DEF ClaimFunds, TypeOK, process
<1>8. QED BY <1>2, <1>3, <1>5, <1>6, <1>7

\* The other steps keep the types; what a process leaves behind has its type.
LEMMA OtherStepTypes ==
    ASSUME TypeOK, Phases,
           \/ Launch \/ ChainSyncCompleted \/ MineBlock \/ Background \/ Kill
           \/ EnterBackground \/ UNCHANGED vars
    PROVE  TypeOK'
<1> USE BoundsAssumption
<1>1. store \in Content /\ disk \in Content /\ snap \in Manager /\ faults \in Nat /\ kills \in Nat
  BY DEF TypeOK
<1>2. 0 \in Update /\ 0 \in 0 .. MaxBlock
  BY DEF Update
<1>3. NoMonitor \in Monitor /\ EmptyManager \in Manager
  BY <1>2 DEF NoMonitor, EmptyManager, Monitor, Manager
<1>4. ASSUME NEW new \in Content, NEW result \in Outcomes, Write(new, result)
      PROVE  store' \in Content /\ disk' \in Content /\ faults' \in Nat
  BY <1>1, <1>4 DEF Write
<1>16. ASSUME ProcessEnds
       PROVE  /\ phase' = "off" /\ blind' \in BOOLEAN /\ store' = disk
              /\ manager' \in Manager /\ monitors' \in [Channels -> Monitor]
              /\ watched' \subseteq Channels /\ unseen' \subseteq Channels
              /\ dirty' \in BOOLEAN /\ bg' = "idle" /\ paid' = NoPayment
              /\ snap' \in Manager
  <2>1. [c \in Channels |-> NoMonitor] \in [Channels -> Monitor]
    BY <1>3
  <2>2. QED BY <1>3, <1>16, <2>1 DEF ProcessEnds
<1>5. ASSUME NEW failed, LaunchNew(failed) \/ LaunchRestored(failed) \/ LaunchDies(failed)
      PROVE  TypeOK'
  <2>1. faults' \in Nat
    BY <1>1, <1>5 DEF LaunchNew, LaunchRestored, LaunchDies, Fetches
  <2>2. CASE LaunchNew(failed)
    BY <2>1, <2>2 DEF LaunchNew, TypeOK, durable, ldk
  <2>3. CASE LaunchRestored(failed)
    <3> DEFINE m == FetchManager(failed)
               ms == FetchMonitors(failed)
    <3>1. m # NoManager /\ manager' = ReadManager(m, ms) /\ monitors' = ms
      BY <2>3 DEF LaunchRestored
    <3>2. manager' \in Manager /\ monitors' \in [Channels -> Monitor]
      BY <3>1, ReadTypes
    <3>3. QED BY <2>1, <2>3, <3>2 DEF LaunchRestored, TypeOK, durable
  <2>4. CASE LaunchDies(failed)
    <3>1. died' \in Errors \cup {"none"}
      BY <2>4 DEF LaunchDies, LaunchError, Errors
    <3>2. QED BY <2>1, <2>4, <3>1 DEF LaunchDies, TypeOK, durable, ldk
  <2>5. QED BY <1>5, <2>2, <2>3, <2>4
<1>6. CASE ChainSyncCompleted
  BY <1>6 DEF ChainSyncCompleted, TypeOK, durable
<1>7. CASE MineBlock
  <2>1. tip' \in 0 .. MaxBlock
    BY <1>7 DEF MineBlock, TypeOK
  <2>2. QED BY <1>7, <2>1 DEF MineBlock, TypeOK, durable, process
<1>8. CASE RecordPayment
  <2>1. paid \in Payments
    BY <1>8 DEF RecordPayment, Phases
  <2>2. PICK result \in Outcomes : Write([store EXCEPT !.payments = @ \cup {paid}], result)
    BY <1>8 DEF RecordPayment
  <2>3. [store EXCEPT !.payments = @ \cup {paid}] \in Content
    BY <1>1, <2>1, PutPayment
  <2>4. store' \in Content /\ disk' \in Content /\ faults' \in Nat
    BY <1>4, <2>2, <2>3
  <2>5. QED BY <1>8, <2>4 DEF RecordPayment, TypeOK, process
<1>9. CASE TakeBytes
  BY <1>9 DEF TakeBytes, TypeOK, durable, process
<1>10. CASE SaveManager
  <2>1. PICK result \in Outcomes : Write([store EXCEPT !.manager = snap], result)
    BY <1>10 DEF SaveManager
  <2>2. [store EXCEPT !.manager = snap] \in Content
    BY <1>1, PutManager
  <2>3. store' \in Content /\ disk' \in Content /\ faults' \in Nat
    BY <1>4, <2>1, <2>2
  <2>4. QED BY <1>3, <1>10, <2>3 DEF SaveManager, TypeOK, process
<1>11. CASE PersistGraph
  <2>1. PICK result \in Outcomes : Write([store EXCEPT !.graph = TRUE], result)
    BY <1>11 DEF PersistGraph
  <2>2. [store EXCEPT !.graph = TRUE] \in Content
    BY <1>1, PutGraph
  <2>3. store' \in Content /\ disk' \in Content /\ faults' \in Nat
    BY <1>4, <2>1, <2>2
  <2>4. QED BY <1>11, <2>3 DEF PersistGraph, TypeOK, process, ldk
<1>12. CASE Kill
  <2>1. UNCHANGED <<disk, died, tip, faults, latest, swallowed>> /\ kills' = kills + 1 /\ ProcessEnds
    BY <1>12 DEF Kill
  <2>2. QED BY <1>1, <2>1, <1>16 DEF TypeOK
<1>13. CASE EnterBackground
  <2>1. CASE disk' = store /\ UNCHANGED <<store, ldk, process, faults>>
    BY <1>1, <1>13, <2>1 DEF EnterBackground, TypeOK, ldk, process
  <2>2. CASE kills' = kills + 1 /\ faults' = faults + 1 /\ ProcessEnds /\ UNCHANGED <<disk, died>>
    <3>1. UNCHANGED <<tip, latest, swallowed>>
      BY <1>13 DEF EnterBackground
    <3>2. QED BY <1>1, <2>2, <3>1, <1>16 DEF TypeOK
  <2>3. QED BY <1>13, <2>1, <2>2 DEF EnterBackground
<1>14. CASE UNCHANGED vars
  BY <1>14 DEF TypeOK, vars, durable, ldk, process
<1>15. QED
  BY <1>5, <1>6, <1>7, <1>8, <1>9, <1>10, <1>11, <1>12, <1>13, <1>14 DEF Launch, Background

-----------------------------------------------------------------------------
(* Kinds of step *)

\* The updates are numbers.
Numbers ==
    \A c \in Channels :
        /\ disk.monitors[c].update \in Nat /\ store.monitors[c].update \in Nat
        /\ monitors[c].update \in Nat /\ manager.update[c] \in Nat
        /\ snap.update[c] \in Nat /\ latest[c] \in Nat
        /\ disk.manager # NoManager => disk.manager.update[c] \in Nat
        /\ store.manager # NoManager => store.manager.update[c] \in Nat

LEMMA TypeNumbers == TypeOK => Numbers
<1> SUFFICES ASSUME TypeOK, NEW c \in Channels
             PROVE  /\ disk.monitors[c].update \in Nat /\ store.monitors[c].update \in Nat
                    /\ monitors[c].update \in Nat /\ manager.update[c] \in Nat
                    /\ snap.update[c] \in Nat /\ latest[c] \in Nat
                    /\ disk.manager # NoManager => disk.manager.update[c] \in Nat
                    /\ store.manager # NoManager => store.manager.update[c] \in Nat
  BY DEF Numbers
<1>1. \A n \in Update : n \in Nat
  BY BoundsAssumption DEF Update
<1>2. \A m \in Monitor : m.update \in Nat
  BY <1>1 DEF Monitor
<1>3. \A m \in Manager : m.update[c] \in Nat
  BY <1>1 DEF Manager
<1>4. disk \in Content /\ store \in Content /\ monitors \in [Channels -> Monitor]
      /\ manager \in Manager /\ snap \in Manager /\ latest \in [Channels -> Update]
  BY DEF TypeOK
<1>5. \A x \in Content : x.monitors[c] \in Monitor /\ x.manager \in Manager \cup {NoManager}
  BY DEF Content
<1>6. QED BY <1>1, <1>2, <1>3, <1>4, <1>5

\* A monitor is written again as it is, but for its block.
Rewrites(c, m) ==
    /\ PersistMonitor(c, m)
    /\ phase # "off"
    /\ monitors[c].update > 0
    /\ m.update = monitors[c].update
    /\ \A d \in Channels : monitors'[d].update = monitors[d].update
    /\ UNCHANGED <<manager, bg, paid, snap, process, latest>>

\* A channel moves to its next update, or to its first.
Raises(c, m) ==
    /\ PersistMonitor(c, m)
    /\ phase = "running"
    /\ \/ manager.update[c] > 0 /\ m.update = manager.update[c] + 1
       \/ latest[c] = 0 /\ m.update = 1
    /\ monitors'[c].update = m.update
    /\ manager'.update[c] = m.update
    /\ latest'[c] = IF m.update > latest[c] THEN m.update ELSE latest[c]
    /\ \A d \in Channels \ {c} : /\ monitors'[d].update = monitors[d].update
                                 /\ manager'.update[d] = manager.update[d]
                                 /\ latest'[d] = latest[d]
    /\ UNCHANGED <<snap, process>>
    /\ bg' = "save" => bg = "save"

\* At most the disk catches up with the context.
Flushes ==
    /\ store'.manager = store.manager /\ store'.monitors = store.monitors
    /\ disk' = disk \/ disk' = store'
    /\ UNCHANGED <<manager, monitors, snap, latest, swallowed, blind>>
    /\ phase = "off" <=> phase' = "off"
    /\ bg' = "save" => bg = "save"
    /\ faults' = 0 => faults = 0

\* The process ends and leaves the disk.
Ends ==
    /\ ProcessEnds
    /\ UNCHANGED <<disk, latest, swallowed>>
    /\ faults' = 0 => faults = 0

Launches == \E failed : LaunchNew(failed) \/ LaunchRestored(failed)

LEMMA RewriteSteps ==
    ASSUME IInv, NEW c \in Channels, WatchChannel(c) \/ MonitorSeesBlock(c)
    PROVE  \E m \in Monitor : Rewrites(c, m)
<1>1. monitors \in [Channels -> Monitor] /\ monitors[c] \in Monitor /\ tip \in 0 .. MaxBlock
  BY DEF IInv, TypeOK
<1>2. CASE WatchChannel(c)
  <2>1. monitors[c].update > 0
    BY <1>2 DEF WatchChannel, Stored
  <2>2. Rewrites(c, monitors[c])
    BY <1>2, <2>1 DEF WatchChannel, Rewrites
  <2>3. QED BY <1>1, <2>2
<1>3. CASE MonitorSeesBlock(c)
  <2> DEFINE m == [monitors[c] EXCEPT !.block = tip]
  <2>1. m \in Monitor /\ m.update = monitors[c].update
    BY <1>1 DEF Monitor
  <2>2. c \in Stored(monitors) /\ phase # "off"
    BY <1>3 DEF MonitorSeesBlock, IInv, Phases
  <2>3. monitors[c].update > 0
    BY <2>2 DEF Stored
  <2>4. monitors' = [monitors EXCEPT ![c].block = tip]
    BY <1>3 DEF MonitorSeesBlock
  <2>5. \A d \in Channels : monitors'[d].update = monitors[d].update
    BY <1>1, <2>4 DEF Monitor
  <2>6. Rewrites(c, m)
    BY <1>3, <2>1, <2>2, <2>3, <2>5 DEF MonitorSeesBlock, Rewrites
  <2>7. QED BY <2>1, <2>6
<1>4. QED BY <1>2, <1>3

LEMMA RaiseSteps ==
    ASSUME IInv, NEW c \in Channels,
           FundChannel(c) \/ UpdateChannel(c) \/ \E p \in Payments : ClaimFunds(p, c)
    PROVE  \E m \in Monitor : Raises(c, m)
<1> USE BoundsAssumption
<1>1. /\ monitors \in [Channels -> Monitor] /\ monitors[c] \in Monitor
      /\ monitors[c].block \in 0 .. MaxBlock /\ tip \in 0 .. MaxBlock
      /\ manager \in Manager /\ manager.update \in [Channels -> Update]
      /\ manager.update[c] \in Update /\ latest \in [Channels -> Update]
  BY DEF IInv, TypeOK, Monitor, Manager
<1>2. ASSUME NEW n \in Update, Advance(c, n), phase = "running",
             \/ manager.update[c] > 0 /\ n = manager.update[c] + 1
             \/ latest[c] = 0 /\ n = 1,
             UNCHANGED <<snap, process, bg>>
      PROVE  \E m \in Monitor : Raises(c, m)
  <2> DEFINE m == [update |-> n, block |-> IF IsOpen(c) THEN monitors[c].block ELSE tip]
  <2>1. m \in Monitor /\ m.update = n
    BY <1>1 DEF Monitor
  <2>2. /\ PersistMonitor(c, m) /\ monitors' = [monitors EXCEPT ![c] = m]
        /\ manager' = [manager EXCEPT !.update[c] = n]
        /\ latest' = [latest EXCEPT ![c] = IF n > @ THEN n ELSE @]
    BY <1>2 DEF Advance
  <2> HIDE DEF m
  <2>3. /\ monitors'[c].update = m.update
        /\ \A d \in Channels \ {c} : monitors'[d].update = monitors[d].update
    BY <1>1, <2>1, <2>2
  <2>4. /\ manager'.update[c] = m.update
        /\ \A d \in Channels \ {c} : manager'.update[d] = manager.update[d]
    BY <1>1, <2>1, <2>2 DEF Manager
  <2>5. /\ latest'[c] = IF m.update > latest[c] THEN m.update ELSE latest[c]
        /\ \A d \in Channels \ {c} : latest'[d] = latest[d]
    BY <1>1, <2>1, <2>2
  <2>6. Raises(c, m)
    BY <1>2, <2>1, <2>2, <2>3, <2>4, <2>5 DEF Raises
  <2>7. QED BY <2>1, <2>6
<1>3. CASE FundChannel(c)
  <2>1. 1 \in Update /\ Advance(c, 1) /\ phase = "running" /\ latest[c] = 0
        /\ UNCHANGED <<snap, process, bg>>
    BY <1>3 DEF FundChannel, Update
  <2>2. QED BY <1>2, <2>1
<1>4. CASE UpdateChannel(c)
  <2>1. /\ manager.update[c] + 1 \in Update /\ Advance(c, manager.update[c] + 1)
        /\ phase = "running" /\ manager.update[c] > 0 /\ UNCHANGED <<snap, process, bg>>
    BY <1>1, <1>4 DEF UpdateChannel, Update, IsOpen
  <2>2. QED BY <1>2, <2>1
<1>5. ASSUME NEW p \in Payments, ClaimFunds(p, c)
      PROVE  \E m \in Monitor : Raises(c, m)
  <2> DEFINE n == manager.update[c] + 1
             m == [update |-> n, block |-> monitors[c].block]
  <2>1. n \in Update /\ manager.update[c] > 0
    BY <1>1, <1>5 DEF ClaimFunds, Update, IsOpen
  <2>2. m \in Monitor /\ m.update = n
    <3> HIDE DEF n
    <3> QED BY <1>1, <2>1 DEF Monitor
  <2>3. /\ PersistMonitor(c, m)
        /\ manager' = [update |-> [manager.update EXCEPT ![c] = n],
                       claimed |-> manager.claimed \cup {p}]
        /\ monitors' = [monitors EXCEPT ![c].update = n]
        /\ latest' = [latest EXCEPT ![c] = IF n > @ THEN n ELSE @]
        /\ phase = "running" /\ bg' = "record" /\ UNCHANGED <<snap, process>>
    BY <1>5 DEF ClaimFunds
  <2>4. m.update = manager.update[c] + 1
    BY <2>2
  <2> HIDE DEF n, m
  <2>5. /\ monitors'[c].update = m.update
        /\ \A d \in Channels \ {c} : monitors'[d].update = monitors[d].update
    BY <1>1, <2>2, <2>3 DEF Monitor
  <2>6. /\ manager'.update[c] = m.update
        /\ \A d \in Channels \ {c} : manager'.update[d] = manager.update[d]
    BY <1>1, <2>2, <2>3
  <2>7. /\ latest'[c] = IF m.update > latest[c] THEN m.update ELSE latest[c]
        /\ \A d \in Channels \ {c} : latest'[d] = latest[d]
    BY <1>1, <2>2, <2>3
  <2>8. Raises(c, m)
    BY <2>1, <2>3, <2>4, <2>5, <2>6, <2>7 DEF Raises
  <2>9. QED BY <2>2, <2>8
<1>6. QED BY <1>3, <1>4, <1>5

LEMMA FlushSteps ==
    ASSUME IInv, \/ ChainSyncCompleted \/ MineBlock \/ RecordPayment \/ PersistGraph
                 \/ \E failed : LaunchDies(failed)
                 \/ EnterBackground /\ disk' = store /\ UNCHANGED <<store, ldk, process, faults>>
                 \/ UNCHANGED vars
    PROVE  Flushes
<1>1. store \in Content /\ faults \in Nat
  BY DEF IInv, TypeOK
<1>2. ASSUME NEW new, NEW result \in Outcomes, Write(new, result),
             new.manager = store.manager, new.monitors = store.monitors
      PROVE  /\ store'.manager = store.manager /\ store'.monitors = store.monitors
             /\ disk' = disk \/ disk' = store'
             /\ faults' = 0 => faults = 0
  <2>1. faults + 1 # 0
    BY <1>1
  <2>2. QED BY <1>2, <2>1, WriteCases
<1>3. CASE ChainSyncCompleted
  BY <1>3 DEF ChainSyncCompleted, Flushes, durable
<1>4. CASE MineBlock
  BY <1>4 DEF MineBlock, Flushes, durable, process
<1>5. CASE RecordPayment
  <2>1. paid \in Payments
    BY <1>5 DEF RecordPayment, IInv, Phases
  <2>2. PICK result \in Outcomes : Write([store EXCEPT !.payments = @ \cup {paid}], result)
    BY <1>5 DEF RecordPayment
  <2> DEFINE t == [store EXCEPT !.payments = @ \cup {paid}]
  <2>3. t.manager = store.manager /\ t.monitors = store.monitors
    BY <1>1, <2>1, PutPayment
  <2> HIDE DEF t
  <2>4. /\ store'.manager = store.manager /\ store'.monitors = store.monitors
        /\ disk' = disk \/ disk' = store'
        /\ faults' = 0 => faults = 0
    BY <1>2, <2>2, <2>3 DEF t
  <2>5. QED BY <1>5, <2>4 DEF RecordPayment, Flushes, process
<1>6. CASE PersistGraph
  <2>1. PICK result \in Outcomes : Write([store EXCEPT !.graph = TRUE], result)
    BY <1>6 DEF PersistGraph
  <2> DEFINE t == [store EXCEPT !.graph = TRUE]
  <2>2. t.manager = store.manager /\ t.monitors = store.monitors
    BY <1>1, PutGraph
  <2> HIDE DEF t
  <2>3. /\ store'.manager = store.manager /\ store'.monitors = store.monitors
        /\ disk' = disk \/ disk' = store'
        /\ faults' = 0 => faults = 0
    BY <1>2, <2>1, <2>2 DEF t
  <2>4. QED BY <1>6, <2>3 DEF PersistGraph, Flushes, process, ldk
<1>7. ASSUME NEW failed, LaunchDies(failed) PROVE Flushes
  <2>1. faults' = 0 => faults = 0
    BY <1>1, <1>7 DEF LaunchDies, Fetches
  <2>2. QED BY <1>7, <2>1 DEF LaunchDies, Flushes, durable, ldk
<1>8. CASE EnterBackground /\ disk' = store /\ UNCHANGED <<store, ldk, process, faults>>
  BY <1>8 DEF EnterBackground, Flushes, ldk, process
<1>9. CASE UNCHANGED vars
  BY <1>9 DEF Flushes, vars, durable, ldk, process
<1>10. QED BY <1>3, <1>4, <1>5, <1>6, <1>7, <1>8, <1>9

LEMMA EndSteps ==
    ASSUME IInv, \/ Kill
                 \/ EnterBackground /\ ~(disk' = store /\ UNCHANGED <<store, ldk, process, faults>>)
    PROVE  Ends
<1>1. faults \in Nat
  BY DEF IInv, TypeOK
<1>2. faults' = faults \/ faults' = faults + 1
  BY DEF Kill, EnterBackground
<1>3. faults' = 0 => faults = 0
  BY <1>1, <1>2
<1>4. QED BY <1>3 DEF Kill, EnterBackground, Ends

\* Every step is of one of these kinds.
LEMMA NextKinds ==
    ASSUME IInv, [Next]_vars
    PROVE  \/ Launches
           \/ \E c \in Channels, m \in Monitor : Rewrites(c, m) \/ Raises(c, m)
           \/ Flushes
           \/ TakeBytes
           \/ SaveManager
           \/ Ends
<1>1. CASE Launch
  <2>1. PICK failed : LaunchNew(failed) \/ LaunchRestored(failed) \/ LaunchDies(failed)
    BY <1>1 DEF Launch
  <2>2. CASE LaunchDies(failed)
    BY <2>2, FlushSteps
  <2>3. QED BY <2>1, <2>2 DEF Launches
<1>2. ASSUME NEW c \in Channels,
             \/ WatchChannel(c) \/ FundChannel(c) \/ UpdateChannel(c) \/ MonitorSeesBlock(c)
             \/ \E p \in Payments : ClaimFunds(p, c)
      PROVE  \E m \in Monitor : Rewrites(c, m) \/ Raises(c, m)
  <2>1. CASE WatchChannel(c) \/ MonitorSeesBlock(c)
    BY <2>1, RewriteSteps
  <2>2. CASE FundChannel(c) \/ UpdateChannel(c) \/ \E p \in Payments : ClaimFunds(p, c)
    BY <2>2, RaiseSteps
  <2>3. QED BY <1>2, <2>1, <2>2
<1>3. CASE ChainSyncCompleted \/ MineBlock \/ RecordPayment \/ PersistGraph \/ UNCHANGED vars
  BY <1>3, FlushSteps
<1>4. CASE Kill
  BY <1>4, EndSteps
<1>5. CASE EnterBackground
  <2>1. CASE disk' = store /\ UNCHANGED <<store, ldk, process, faults>>
    BY <1>5, <2>1, FlushSteps
  <2>2. CASE ~(disk' = store /\ UNCHANGED <<store, ldk, process, faults>>)
    BY <1>5, <2>2, EndSteps
  <2>3. QED BY <2>1, <2>2
<1>6. CASE TakeBytes \/ SaveManager
  BY <1>6
<1>7. QED
  BY <1>1, <1>2, <1>3, <1>4, <1>5, <1>6 DEF Next, Background

-----------------------------------------------------------------------------
(* Each part of the invariant is kept *)

\* What a launch reads, in the terms of the disk.
LEMMA LaunchReads ==
    ASSUME IInv, NEW failed, LaunchNew(failed) \/ LaunchRestored(failed)
    PROVE  /\ UNCHANGED <<disk, store, latest, swallowed, snap, bg, paid>>
           /\ store = disk /\ phase' # "off" /\ bg = "idle" /\ died' = "none"
           /\ faults' = 0 => faults = 0
           /\ LaunchNew(failed) => /\ UNCHANGED <<manager, monitors>> /\ blind'
                                   /\ manager = EmptyManager
                                   /\ monitors = [c \in Channels |-> NoMonitor]
           /\ LaunchRestored(failed) =>
                 /\ disk.manager # NoManager
                 /\ manager'.claimed = disk.manager.claimed
                 /\ \A c \in Channels :
                       /\ \/ monitors'[c].update = disk.monitors[c].update
                          \/ blind' /\ monitors'[c].update = 0
                       /\ disk.manager.update[c] <= monitors'[c].update
                       /\ manager'.update[c] = IF disk.manager.update[c] = monitors'[c].update
                                               THEN disk.manager.update[c] ELSE 0
<1>1. phase = "off" /\ faults \in Nat
  BY DEF LaunchNew, LaunchRestored, IInv, TypeOK
<1>2. /\ store = disk /\ bg = "idle" /\ manager = EmptyManager
      /\ monitors = [c \in Channels |-> NoMonitor]
  BY <1>1 DEF IInv, Phases
<1>3. faults' = 0 => faults = 0
  BY <1>1 DEF LaunchNew, LaunchRestored, Fetches
<1>4. CASE LaunchNew(failed)
  <2>1. ~LaunchRestored(failed)
    BY <1>4 DEF LaunchNew, LaunchRestored
  <2>2. QED BY <1>2, <1>3, <1>4, <2>1 DEF LaunchNew, durable, ldk
<1>5. CASE LaunchRestored(failed)
  <2> DEFINE m == FetchManager(failed)
             ms == FetchMonitors(failed)
  <2>1. /\ m # NoManager /\ manager' = ReadManager(m, ms) /\ monitors' = ms
        /\ blind' = (failed = "monitors")
        /\ LaunchError(m, ms, FetchGraph(failed)) = "none"
    BY <1>5 DEF LaunchRestored
  <2>2. ManagerReads(m, ms)
    BY <2>1 DEF LaunchError
  <2>3. /\ m = disk.manager
        /\ manager'.claimed = disk.manager.claimed
        /\ manager'.update = [c \in Channels |->
              IF disk.manager.update[c] = ms[c].update THEN disk.manager.update[c] ELSE 0]
    BY <2>1, ReadTypes DEF IInv
  <2>4. \A c \in Channels : disk.manager.update[c] <= ms[c].update
    BY <2>2, <2>3 DEF ManagerReads
  <2>5. \A c \in Channels : \/ ms[c].update = disk.monitors[c].update
                            \/ blind' /\ ms[c].update = 0
    BY <2>1 DEF FetchMonitors, NoMonitor
  <2>6. ~LaunchNew(failed)
    BY <1>5 DEF LaunchNew, LaunchRestored
  <2> HIDE DEF ms
  <2>7. \A c \in Channels : manager'.update[c] = IF disk.manager.update[c] = ms[c].update
                                                 THEN disk.manager.update[c] ELSE 0
    BY <2>3
  <2>8. QED BY <1>2, <1>3, <1>5, <2>1, <2>3, <2>4, <2>5, <2>6, <2>7 DEF LaunchRestored, durable, m
<1>6. QED BY <1>4, <1>5

LEMMA KeepsMonitorOrder ==
    ASSUME IInv, [Next]_vars
    PROVE  MonitorOrder'
<1> SUFFICES ASSUME NEW d \in Channels
             PROVE  /\ disk'.monitors[d].update <= store'.monitors[d].update
                    /\ store'.monitors[d].update <= latest'[d]
                    /\ monitors'[d].update <= latest'[d]
                    /\ monitors'[d].update > 0 =>
                          store'.monitors[d].update <= monitors'[d].update
                    /\ manager'.update[d] > 0 => manager'.update[d] = monitors'[d].update
  BY DEF MonitorOrder, IsOpen
<1>1. /\ disk.monitors[d].update <= store.monitors[d].update
      /\ store.monitors[d].update <= latest[d]
      /\ monitors[d].update <= latest[d]
      /\ monitors[d].update > 0 => store.monitors[d].update <= monitors[d].update
      /\ manager.update[d] > 0 => manager.update[d] = monitors[d].update
  BY DEF IInv, MonitorOrder, IsOpen
<1>2. /\ disk.monitors[d].update \in Nat /\ store.monitors[d].update \in Nat
      /\ monitors[d].update \in Nat /\ manager.update[d] \in Nat /\ latest[d] \in Nat
  BY TypeNumbers DEF IInv, Numbers
<1>3. CASE Launches
  <2>1. PICK failed : LaunchNew(failed) \/ LaunchRestored(failed)
    BY <1>3 DEF Launches
  <2>2. CASE LaunchNew(failed)
    BY <1>1, <2>2, LaunchReads
  <2>3. CASE LaunchRestored(failed)
    <3>1. /\ UNCHANGED <<disk, store, latest>> /\ store = disk
          /\ monitors'[d].update = disk.monitors[d].update \/ monitors'[d].update = 0
          /\ manager'.update[d] = IF disk.manager.update[d] = monitors'[d].update
                                  THEN disk.manager.update[d] ELSE 0
      BY <2>3, LaunchReads
    <3>2. QED BY <1>1, <1>2, <3>1
  <2>4. QED BY <2>1, <2>2, <2>3
<1>4. ASSUME NEW c \in Channels, NEW m \in Monitor, Rewrites(c, m) \/ Raises(c, m)
      PROVE  /\ disk'.monitors[d].update <= store'.monitors[d].update
             /\ store'.monitors[d].update <= latest'[d]
             /\ monitors'[d].update <= latest'[d]
             /\ monitors'[d].update > 0 =>
                   store'.monitors[d].update <= monitors'[d].update
             /\ manager'.update[d] > 0 => manager'.update[d] = monitors'[d].update
  <2>1. /\ disk' = disk \/ disk' = store'
        /\ d # c => store'.monitors[d] = store.monitors[d]
        /\ d = c => store'.monitors[c] = m \/ store'.monitors[c] = store.monitors[c]
    BY <1>4, PersistEffects DEF Rewrites, Raises, IInv
  <2>2. m.update \in Nat
    BY BoundsAssumption DEF Monitor, Update
  <2>3. CASE Rewrites(c, m)
    <3>1. /\ UNCHANGED <<manager, latest>> /\ monitors'[d].update = monitors[d].update
          /\ d = c => monitors[d].update > 0 /\ m.update = monitors[d].update
      BY <2>3 DEF Rewrites
    <3>2. QED BY <1>1, <1>2, <2>1, <2>2, <3>1
  <2>4. CASE Raises(c, m) /\ d = c
    <3>1. /\ monitors'[d].update = m.update /\ manager'.update[d] = m.update
          /\ latest'[d] = IF m.update > latest[d] THEN m.update ELSE latest[d]
          /\ \/ manager.update[d] > 0 /\ m.update = manager.update[d] + 1
             \/ latest[d] = 0 /\ m.update = 1
      BY <2>4 DEF Raises
    <3>2. QED BY <1>1, <1>2, <2>1, <2>2, <2>4, <3>1
  <2>5. CASE Raises(c, m) /\ d # c
    <3>1. /\ monitors'[d].update = monitors[d].update /\ manager'.update[d] = manager.update[d]
          /\ latest'[d] = latest[d]
      BY <2>5 DEF Raises
    <3>2. QED BY <1>1, <1>2, <2>1, <2>5, <3>1
  <2>6. QED BY <1>4, <2>3, <2>4, <2>5
<1>5. CASE Flushes
  BY <1>1, <1>2, <1>5 DEF Flushes
<1>6. CASE TakeBytes
  BY <1>1, <1>6 DEF TakeBytes, durable
<1>7. CASE SaveManager
  <2>1. UNCHANGED <<manager, monitors, latest>>
    BY <1>7 DEF SaveManager
  <2>2. store'.monitors = store.monitors /\ (disk' = disk \/ disk' = store')
    <3>1. PICK result \in Outcomes : Write([store EXCEPT !.manager = snap], result)
      BY <1>7 DEF SaveManager
    <3>2. [store EXCEPT !.manager = snap].monitors = store.monitors
      BY PutManager DEF IInv, TypeOK
    <3>3. QED BY <3>1, <3>2, WriteCases
  <2>3. QED BY <1>1, <1>2, <2>1, <2>2
<1>8. CASE Ends
  <2>1. UNCHANGED <<disk, latest>> /\ store' = disk /\ monitors'[d].update = 0 /\ manager'.update[d] = 0
    BY <1>8 DEF Ends, ProcessEnds, NoMonitor, EmptyManager
  <2>2. QED BY <1>1, <1>2, <2>1
<1>9. QED BY <1>3, <1>4, <1>5, <1>6, <1>7, <1>8, NextKinds

LEMMA KeepsType ==
    ASSUME IInv, [Next]_vars
    PROVE  TypeOK'
<1>1. TypeOK /\ Phases
  BY DEF IInv
<1>2. ASSUME NEW c \in Channels,
             \/ WatchChannel(c) \/ FundChannel(c) \/ UpdateChannel(c) \/ MonitorSeesBlock(c)
             \/ \E p \in Payments : ClaimFunds(p, c)
      PROVE  TypeOK'
  BY <1>1, <1>2, MonitorStepTypes
<1>3. CASE \/ Launch \/ ChainSyncCompleted \/ MineBlock \/ Background \/ Kill
           \/ EnterBackground \/ UNCHANGED vars
  BY <1>1, <1>3, OtherStepTypes
<1>4. QED BY <1>2, <1>3 DEF Next

\* The watched monitors are the ones in memory, and a thread's state belongs to
\* the phase.
LEMMA KeepsPhases ==
    ASSUME IInv, [Next]_vars
    PROVE  Phases'
<1>1. Phases /\ TypeOK
  BY DEF IInv
<1>2. ASSUME NEW failed, LaunchNew(failed) PROVE Phases'
  BY <1>1, <1>2 DEF LaunchNew, Phases, durable, ldk
<1>3. ASSUME NEW failed, LaunchRestored(failed) PROVE Phases'
  BY <1>1, <1>3 DEF LaunchRestored, Phases, durable
<1>4. ASSUME NEW failed, LaunchDies(failed) PROVE Phases'
  BY <1>1, <1>4 DEF LaunchDies, Phases, durable, ldk
<1>5. ASSUME NEW c \in Channels, NEW m \in Monitor, Rewrites(c, m) \/ Raises(c, m)
      PROVE  /\ phase # "off" /\ UNCHANGED process
             /\ c \in Stored(monitors)' /\ Stored(monitors)' \subseteq Stored(monitors) \cup {c}
             /\ Stored(monitors) \subseteq Stored(monitors)'
  <2>1. /\ phase # "off" /\ UNCHANGED process
        /\ \A d \in Channels \ {c} : monitors'[d].update = monitors[d].update
    BY <1>5 DEF Rewrites, Raises
  <2>2. monitors'[c].update > 0
    <3>1. CASE Rewrites(c, m)
      BY <3>1 DEF Rewrites
    <3>2. CASE Raises(c, m)
      <4>1. manager.update[c] \in Nat
        BY <1>1, TypeNumbers DEF Numbers
      <4>2. QED BY <3>2, <4>1 DEF Raises
    <3>3. QED BY <1>5, <3>1, <3>2
  <2>3. QED BY <2>1, <2>2 DEF Stored
<1>6. ASSUME NEW c \in Channels, WatchChannel(c) \/ MonitorSeesBlock(c) PROVE Phases'
  <2>1. PICK m \in Monitor : Rewrites(c, m)
    BY <1>6, RewriteSteps
  <2>2. Stored(monitors)' = Stored(monitors) /\ phase # "off" /\ UNCHANGED process
    BY <2>1 DEF Rewrites, Stored
  <2>3. CASE WatchChannel(c)
    BY <1>1, <2>2, <2>3 DEF WatchChannel, Phases, process
  <2>4. CASE MonitorSeesBlock(c)
    BY <1>1, <2>2, <2>4 DEF MonitorSeesBlock, Phases, process
  <2>5. QED BY <1>6, <2>3, <2>4
<1>7. ASSUME NEW c \in Channels, FundChannel(c) \/ UpdateChannel(c) \/ \E p \in Payments : ClaimFunds(p, c)
      PROVE  Phases'
  <2>1. PICK m \in Monitor : Raises(c, m)
    BY <1>7, RaiseSteps
  <2>2. /\ phase # "off" /\ UNCHANGED process
        /\ c \in Stored(monitors)' /\ Stored(monitors)' \subseteq Stored(monitors) \cup {c}
        /\ Stored(monitors) \subseteq Stored(monitors)'
    BY <1>5, <2>1
  <2>3. CASE FundChannel(c)
    BY <1>1, <2>2, <2>3 DEF FundChannel, Phases, process
  <2>4. ASSUME IsOpen(c)
        PROVE  Stored(monitors)' = Stored(monitors)
    <3>1. monitors[c].update > 0
      BY <2>4 DEF IsOpen, IInv, MonitorOrder
    <3>2. c \in Stored(monitors)
      BY <3>1 DEF Stored
    <3>3. QED BY <2>2, <3>2
  <2>5. CASE UpdateChannel(c)
    BY <1>1, <2>2, <2>4, <2>5 DEF UpdateChannel, Phases, process
  <2>6. ASSUME NEW p \in Payments, ClaimFunds(p, c) PROVE Phases'
    BY <1>1, <2>2, <2>4, <2>6 DEF ClaimFunds, Phases, process
  <2>7. QED BY <1>7, <2>3, <2>5, <2>6
<1>8. CASE ChainSyncCompleted
  BY <1>1, <1>8 DEF ChainSyncCompleted, Phases, durable
<1>9. CASE MineBlock
  BY <1>1, <1>9 DEF MineBlock, Phases, durable, process
<1>10. CASE RecordPayment
  BY <1>1, <1>10 DEF RecordPayment, Phases, process
<1>11. CASE TakeBytes
  BY <1>1, <1>11 DEF TakeBytes, Phases, durable, process
<1>12. CASE SaveManager
  BY <1>1, <1>12 DEF SaveManager, Phases, process
<1>13. CASE PersistGraph
  BY <1>1, <1>13 DEF PersistGraph, Phases, process, ldk
<1>14. CASE UNCHANGED vars
  BY <1>1, <1>14 DEF Phases, vars, durable, ldk, process
<1>15. ASSUME Ends, UNCHANGED died PROVE Phases'
  <2>1. /\ store' = disk' /\ manager' = EmptyManager
        /\ monitors' = [c \in Channels |-> NoMonitor]
        /\ watched' = {} /\ unseen' = {} /\ phase' = "off" /\ bg' = "idle" /\ ~blind'
    BY <1>15 DEF Ends, ProcessEnds
  <2>2. QED BY <2>1 DEF Phases
<1>16. CASE Kill
  BY <1>15, <1>16, EndSteps DEF Kill
<1>17. CASE EnterBackground
  <2>1. CASE disk' = store /\ UNCHANGED <<store, ldk, process, faults>>
    BY <1>1, <1>17, <2>1 DEF EnterBackground, Phases, ldk, process
  <2>2. CASE ~(disk' = store /\ UNCHANGED <<store, ldk, process, faults>>)
    BY <1>15, <1>17, <2>2, EndSteps DEF EnterBackground
  <2>3. QED BY <2>1, <2>2
<1>18. QED
  BY <1>2, <1>3, <1>4, <1>6, <1>7, <1>8, <1>9, <1>10, <1>11, <1>12, <1>13, <1>14, <1>16, <1>17
     DEF Next, Launch, Background

\* A step forgets no error that was dropped and does not lower the history.
LEMMA NothingForgotten ==
    ASSUME IInv, [Next]_vars, NEW d \in Channels
    PROVE  swallowed[d] \subseteq swallowed'[d] /\ latest[d] <= latest'[d]
<1>1. latest[d] \in Nat
  BY TypeNumbers DEF IInv, Numbers
<1>2. ASSUME NEW c \in Channels, NEW m \in Monitor, Rewrites(c, m) \/ Raises(c, m)
      PROVE  swallowed[d] \subseteq swallowed'[d] /\ latest[d] <= latest'[d]
  <2>1. swallowed[d] \subseteq swallowed'[d]
    BY <1>2, PersistEffects DEF Rewrites, Raises, IInv
  <2>2. m.update \in Nat
    BY BoundsAssumption DEF Monitor, Update
  <2>3. latest[d] <= latest'[d]
    BY <1>1, <1>2, <2>2 DEF Rewrites, Raises
  <2>4. QED BY <2>1, <2>3
<1>3. CASE Launches
  BY <1>1, <1>3, LaunchReads DEF Launches
<1>4. CASE Flushes \/ Ends \/ TakeBytes \/ SaveManager
  BY <1>1, <1>4 DEF Flushes, Ends, TakeBytes, SaveManager
<1>5. QED BY <1>2, <1>3, <1>4, NextKinds

\* Writing the monitor of c never leaves an older one in the context.
LEMMA MonitorsGrow ==
    ASSUME IInv, NEW c \in Channels, NEW m \in Monitor, Rewrites(c, m) \/ Raises(c, m),
           NEW d \in Channels
    PROVE  /\ store.monitors[d].update <= store'.monitors[d].update
           /\ store'.monitors[d].update \in Nat
<1>1. /\ store.monitors[d].update \in Nat /\ monitors[d].update \in Nat
      /\ manager.update[d] \in Nat /\ latest[d] \in Nat
  BY TypeNumbers DEF IInv, Numbers
<1>2. m.update \in Nat
  BY BoundsAssumption DEF Monitor, Update
<1>3. /\ d # c => store'.monitors[d] = store.monitors[d]
      /\ d = c => store'.monitors[c] = m \/ store'.monitors[c] = store.monitors[c]
  BY PersistEffects DEF Rewrites, Raises, IInv
<1>4. /\ store.monitors[d].update <= latest[d]
      /\ monitors[d].update > 0 => store.monitors[d].update <= monitors[d].update
      /\ manager.update[d] > 0 => manager.update[d] = monitors[d].update
  BY DEF IInv, MonitorOrder, IsOpen
<1>5. d = c => store.monitors[c].update <= m.update
  BY <1>1, <1>2, <1>4 DEF Rewrites, Raises
<1>6. QED BY <1>1, <1>2, <1>3, <1>5

LEMMA KeepsManagersNotBehind ==
    ASSUME IInv, [Next]_vars
    PROVE  ManagersNotBehind'
<1> SUFFICES ASSUME NEW d \in Channels
             PROVE  /\ disk'.manager # NoManager =>
                          /\ disk'.manager.update[d] <= latest'[d]
                          /\ Lost(d)' \/ disk'.manager.update[d] <= disk'.monitors[d].update
                    /\ store'.manager # NoManager =>
                          /\ store'.manager.update[d] <= latest'[d]
                          /\ Lost(d)' \/ store'.manager.update[d] <= store'.monitors[d].update
                    /\ snap'.update[d] <= latest'[d]
                    /\ Lost(d)' \/ snap'.update[d] <= store'.monitors[d].update
                    /\ manager'.update[d] <= latest'[d]
                    /\ Lost(d)' \/ manager'.update[d] <= store'.monitors[d].update
  BY DEF ManagersNotBehind, NotBehind
<1>1. /\ disk.manager # NoManager =>
            /\ disk.manager.update[d] <= latest[d]
            /\ Lost(d) \/ disk.manager.update[d] <= disk.monitors[d].update
      /\ store.manager # NoManager =>
            /\ store.manager.update[d] <= latest[d]
            /\ Lost(d) \/ store.manager.update[d] <= store.monitors[d].update
      /\ snap.update[d] <= latest[d]
      /\ Lost(d) \/ snap.update[d] <= store.monitors[d].update
      /\ manager.update[d] <= latest[d]
      /\ Lost(d) \/ manager.update[d] <= store.monitors[d].update
  BY DEF IInv, ManagersNotBehind, NotBehind
<1>2. /\ disk.monitors[d].update \in Nat /\ store.monitors[d].update \in Nat
      /\ monitors[d].update \in Nat /\ manager.update[d] \in Nat
      /\ snap.update[d] \in Nat /\ latest[d] \in Nat
      /\ disk.manager # NoManager => disk.manager.update[d] \in Nat
      /\ store.manager # NoManager => store.manager.update[d] \in Nat
  BY TypeNumbers DEF IInv, Numbers
<1>3. (Lost(d) => Lost(d)') /\ latest[d] <= latest'[d] /\ latest'[d] \in Nat
  <2>1. latest'[d] \in Nat
    BY KeepsType, BoundsAssumption DEF TypeOK, Update
  <2>2. QED BY <2>1, NothingForgotten DEF Lost
<1>4. CASE Launches
  <2>1. PICK failed : LaunchNew(failed) \/ LaunchRestored(failed)
    BY <1>4 DEF Launches
  <2>2. UNCHANGED <<disk, store, latest, swallowed, snap>> /\ store = disk
    BY <2>1, LaunchReads
  <2>3. \/ manager'.update[d] = manager.update[d]
        \/ manager'.update[d] = 0
        \/ disk.manager # NoManager /\ manager'.update[d] = disk.manager.update[d]
    BY <2>1, LaunchReads
  <2>4. QED BY <1>1, <1>2, <2>2, <2>3 DEF Lost
<1>5. ASSUME NEW c \in Channels, NEW m \in Monitor, Rewrites(c, m) \/ Raises(c, m)
      PROVE  /\ disk'.manager # NoManager =>
                   /\ disk'.manager.update[d] <= latest'[d]
                   /\ Lost(d)' \/ disk'.manager.update[d] <= disk'.monitors[d].update
             /\ store'.manager # NoManager =>
                   /\ store'.manager.update[d] <= latest'[d]
                   /\ Lost(d)' \/ store'.manager.update[d] <= store'.monitors[d].update
             /\ snap'.update[d] <= latest'[d]
             /\ Lost(d)' \/ snap'.update[d] <= store'.monitors[d].update
             /\ manager'.update[d] <= latest'[d]
             /\ Lost(d)' \/ manager'.update[d] <= store'.monitors[d].update
  <2>1. /\ store'.manager = store.manager
        /\ disk' = disk \/ disk' = store'
        /\ d = c => store'.monitors[c] = m \/ Lost(d)'
    BY <1>5, PersistEffects DEF Rewrites, Raises, IInv, Lost
  <2>2. store.monitors[d].update <= store'.monitors[d].update /\ store'.monitors[d].update \in Nat
    BY <1>5, MonitorsGrow
  <2>3. m.update \in Nat /\ snap' = snap
    BY <1>5, BoundsAssumption DEF Monitor, Update, Rewrites, Raises
  <2>4. \/ manager'.update[d] = manager.update[d]
        \/ d = c /\ manager'.update[d] = m.update /\ m.update <= latest'[d]
    BY <1>2, <1>5, <2>3 DEF Rewrites, Raises
  <2>5. /\ store'.manager # NoManager =>
              /\ store'.manager.update[d] <= latest'[d]
              /\ Lost(d)' \/ store'.manager.update[d] <= store'.monitors[d].update
        /\ snap'.update[d] <= latest'[d]
        /\ Lost(d)' \/ snap'.update[d] <= store'.monitors[d].update
    BY <1>1, <1>2, <1>3, <2>1, <2>2, <2>3
  <2>6. /\ manager'.update[d] <= latest'[d]
        /\ Lost(d)' \/ manager'.update[d] <= store'.monitors[d].update
    BY <1>1, <1>2, <1>3, <2>1, <2>2, <2>3, <2>4
  <2>7. disk'.manager # NoManager =>
              /\ disk'.manager.update[d] <= latest'[d]
              /\ Lost(d)' \/ disk'.manager.update[d] <= disk'.monitors[d].update
    <3>1. CASE disk' = disk
      BY <1>1, <1>2, <1>3, <3>1
    <3>2. CASE disk' = store'
      BY <2>5, <3>2
    <3>3. QED BY <2>1, <3>1, <3>2
  <2>8. QED BY <2>5, <2>6, <2>7
<1>6. CASE Flushes
  BY <1>1, <1>2, <1>6 DEF Flushes, Lost
<1>7. CASE TakeBytes
  BY <1>1, <1>2, <1>7 DEF TakeBytes, durable, Lost
<1>8. CASE SaveManager
  <2>1. UNCHANGED <<manager, latest, swallowed>> /\ snap'.update[d] = 0
    BY <1>8 DEF SaveManager, EmptyManager
  <2>2. /\ store'.monitors = store.monitors /\ (disk' = disk \/ disk' = store')
        /\ store'.manager = store.manager \/ store'.manager = snap
    <3>1. PICK result \in Outcomes : Write([store EXCEPT !.manager = snap], result)
      BY <1>8 DEF SaveManager
    <3>2. /\ [store EXCEPT !.manager = snap].monitors = store.monitors
          /\ [store EXCEPT !.manager = snap].manager = snap
      BY PutManager DEF IInv, TypeOK
    <3>3. QED BY <3>1, <3>2, WriteCases
  <2>3. QED BY <1>1, <1>2, <2>1, <2>2 DEF Lost
<1>9. CASE Ends
  <2>1. /\ UNCHANGED <<disk, latest, swallowed>> /\ store' = disk
        /\ manager'.update[d] = 0 /\ snap'.update[d] = 0
    BY <1>9 DEF Ends, ProcessEnds, EmptyManager
  <2>2. QED BY <1>1, <1>2, <2>1 DEF Lost
<1>10. QED BY <1>4, <1>5, <1>6, <1>7, <1>8, <1>9, NextKinds

\* Only a claim adds to what the manager knows as claimed, and until the record
\* is in the context the background thread takes no bytes.
LEMMA KeepsClaimsRecorded ==
    ASSUME IInv, [Next]_vars
    PROVE  ClaimsRecorded'
<1> DEFINE Claims == /\ disk.manager # NoManager => disk.manager.claimed \subseteq disk.payments
                     /\ store.manager # NoManager => store.manager.claimed \subseteq store.payments
                     /\ snap.claimed \subseteq store.payments
                     /\ manager.claimed \subseteq
                           store.payments \cup (IF bg = "record" THEN {paid} ELSE {})
<1>1. Claims
  BY DEF IInv, ClaimsRecorded, ClaimedIsRecorded
<1>2. SUFFICES Claims'
  BY <1>2 DEF ClaimsRecorded, ClaimedIsRecorded
<1>3. ASSUME UNCHANGED <<snap, bg, paid>>, manager'.claimed = manager.claimed,
             store'.manager = store.manager, store.payments \subseteq store'.payments,
             disk' = disk \/ disk' = store'
      PROVE  Claims'
  BY <1>1, <1>3
<1>4. ASSUME NEW c \in Channels, NEW m \in Monitor, PersistMonitor(c, m)
      PROVE  /\ store'.manager = store.manager /\ store'.payments = store.payments
             /\ disk' = disk \/ disk' = store'
  BY <1>4, PersistEffects DEF IInv
<1>5. ASSUME NEW c \in Channels, WatchChannel(c) \/ MonitorSeesBlock(c) PROVE Claims'
  <2>1. PICK m \in Monitor : Rewrites(c, m)
    BY <1>5, RewriteSteps
  <2>2. PersistMonitor(c, m) /\ UNCHANGED <<manager, bg, paid>>
    BY <2>1 DEF Rewrites
  <2>3. UNCHANGED snap
    BY <1>5 DEF WatchChannel, MonitorSeesBlock
  <2>4. QED BY <1>3, <1>4, <2>2, <2>3
<1>6. ASSUME NEW c \in Channels, FundChannel(c) \/ UpdateChannel(c) PROVE Claims'
  <2>1. PICK m \in Monitor : Raises(c, m)
    BY <1>6, RaiseSteps
  <2>2. PersistMonitor(c, m)
    BY <2>1 DEF Raises
  <2>3. /\ UNCHANGED <<snap, bg, paid>>
        /\ \E n : manager' = [manager EXCEPT !.update[c] = n]
    BY <1>6 DEF FundChannel, UpdateChannel, Advance
  <2>4. manager'.claimed = manager.claimed
    BY <2>3 DEF IInv, TypeOK, Manager
  <2>5. QED BY <1>3, <1>4, <2>2, <2>3, <2>4
<1>7. ASSUME NEW c \in Channels, NEW p \in Payments, ClaimFunds(p, c) PROVE Claims'
  <2>1. PICK m \in Monitor : Raises(c, m)
    BY <1>7, RaiseSteps
  <2>2. PersistMonitor(c, m)
    BY <2>1 DEF Raises
  <2>3. /\ bg = "idle" /\ bg' = "record" /\ paid' = p /\ snap' = snap
        /\ manager'.claimed = manager.claimed \cup {p}
    BY <1>7 DEF ClaimFunds
  <2>4. /\ store'.manager = store.manager /\ store'.payments = store.payments
        /\ disk' = disk \/ disk' = store'
    BY <1>4, <2>2
  <2>5. QED BY <1>1, <2>3, <2>4
<1>8. CASE RecordPayment
  <2>1. /\ bg = "record" /\ bg' = "idle" /\ UNCHANGED <<manager, snap>> /\ paid \in Payments
    BY <1>8 DEF RecordPayment, IInv, Phases
  <2>2. PICK result \in Outcomes \ {"fetch"} :
            Write([store EXCEPT !.payments = @ \cup {paid}], result)
    BY <1>8 DEF RecordPayment
  <2>3. /\ [store EXCEPT !.payments = @ \cup {paid}].manager = store.manager
        /\ [store EXCEPT !.payments = @ \cup {paid}].payments = store.payments \cup {paid}
    BY <2>1, PutPayment DEF IInv, TypeOK
  <2>4. /\ store'.manager = store.manager /\ store'.payments = store.payments \cup {paid}
        /\ disk' = disk \/ disk' = store'
    BY <2>2, <2>3, WriteCases
  <2>5. QED BY <1>1, <2>1, <2>4
<1>9. CASE TakeBytes
  BY <1>1, <1>9 DEF TakeBytes, durable
<1>10. CASE SaveManager
  <2>1. UNCHANGED <<manager, paid>> /\ bg = "save" /\ bg' = "idle" /\ snap'.claimed = {}
    BY <1>10 DEF SaveManager, EmptyManager
  <2>2. PICK result \in Outcomes : Write([store EXCEPT !.manager = snap], result)
    BY <1>10 DEF SaveManager
  <2>3. /\ [store EXCEPT !.manager = snap].manager = snap
        /\ [store EXCEPT !.manager = snap].payments = store.payments
    BY PutManager DEF IInv, TypeOK
  <2>4. /\ store'.manager = store.manager \/ store'.manager = snap
        /\ store'.payments = store.payments
        /\ disk' = disk \/ disk' = store'
    BY <2>2, <2>3, WriteCases
  <2>5. QED BY <1>1, <2>1, <2>4
<1>11. CASE PersistGraph
  <2>1. UNCHANGED <<manager, snap, bg, paid>>
    BY <1>11 DEF PersistGraph, ldk
  <2>2. PICK result \in Outcomes : Write([store EXCEPT !.graph = TRUE], result)
    BY <1>11 DEF PersistGraph
  <2>3. /\ [store EXCEPT !.graph = TRUE].manager = store.manager
        /\ [store EXCEPT !.graph = TRUE].payments = store.payments
    BY PutGraph DEF IInv, TypeOK
  <2>4. /\ store'.manager = store.manager /\ store'.payments = store.payments
        /\ disk' = disk \/ disk' = store'
    BY <2>2, <2>3, WriteCases
  <2>5. QED BY <1>3, <2>1, <2>4
<1>12. CASE ChainSyncCompleted \/ MineBlock \/ (\E failed : LaunchDies(failed)) \/ UNCHANGED vars
  BY <1>3, <1>12 DEF ChainSyncCompleted, MineBlock, LaunchDies, vars, durable, ldk
<1>13. CASE Launches
  <2>1. PICK failed : LaunchNew(failed) \/ LaunchRestored(failed)
    BY <1>13 DEF Launches
  <2>2. UNCHANGED <<disk, store, snap, bg, paid>> /\ store = disk
    BY <2>1, LaunchReads
  <2>3. \/ manager'.claimed = manager.claimed
        \/ disk.manager # NoManager /\ manager'.claimed = disk.manager.claimed
    BY <2>1, LaunchReads
  <2>4. QED BY <1>1, <2>2, <2>3
<1>14. ASSUME Ends PROVE Claims'
  <2>1. /\ UNCHANGED disk /\ store' = disk
        /\ manager'.claimed = {} /\ snap'.claimed = {}
    BY <1>14 DEF Ends, ProcessEnds, EmptyManager
  <2>2. QED BY <1>1, <2>1
<1>15. CASE Kill
  BY <1>14, <1>15, EndSteps
<1>16. CASE EnterBackground
  <2>1. CASE disk' = store /\ UNCHANGED <<store, ldk, process, faults>>
    BY <1>3, <2>1 DEF ldk
  <2>2. CASE ~(disk' = store /\ UNCHANGED <<store, ldk, process, faults>>)
    BY <1>14, <1>16, <2>2, EndSteps
  <2>3. QED BY <2>1, <2>2
<1> HIDE DEF Claims
<1>17. QED
  BY <1>5, <1>6, <1>7, <1>8, <1>9, <1>10, <1>11, <1>12, <1>13, <1>15, <1>16
     DEF Next, Launch, Launches, Background

\* A write that drops no error leaves the same monitor in memory, in the context
\* and on the disk.
LEMMA KeepsNewest ==
    ASSUME IInv, [Next]_vars
    PROVE  Newest'
<1> SUFFICES ASSUME NEW d \in Channels, swallowed'[d] = {}
             PROVE  /\ disk'.monitors[d].update = latest'[d]
                    /\ store'.monitors[d].update = latest'[d]
                    /\ monitors'[d].update > 0 => monitors'[d].update = latest'[d]
  BY DEF Newest
<1>1. swallowed[d] = {}
  BY NothingForgotten
<1>2. /\ disk.monitors[d].update = latest[d]
      /\ store.monitors[d].update = latest[d]
      /\ monitors[d].update > 0 => monitors[d].update = latest[d]
  BY <1>1 DEF IInv, Newest
<1>3. /\ monitors[d].update \in Nat /\ manager.update[d] \in Nat /\ latest[d] \in Nat
      /\ manager.update[d] > 0 => manager.update[d] = monitors[d].update
  BY TypeNumbers DEF IInv, Numbers, MonitorOrder, IsOpen
<1>4. CASE Launches
  <2>1. PICK failed : LaunchNew(failed) \/ LaunchRestored(failed)
    BY <1>4 DEF Launches
  <2>2. UNCHANGED <<disk, store, latest>>
    BY <2>1, LaunchReads
  <2>3. \/ monitors'[d].update = monitors[d].update
        \/ monitors'[d].update = disk.monitors[d].update
        \/ monitors'[d].update = 0
    BY <2>1, LaunchReads
  <2>4. QED BY <1>2, <2>2, <2>3
<1>5. ASSUME NEW c \in Channels, NEW m \in Monitor, Rewrites(c, m) \/ Raises(c, m)
      PROVE  /\ disk'.monitors[d].update = latest'[d]
             /\ store'.monitors[d].update = latest'[d]
             /\ monitors'[d].update > 0 => monitors'[d].update = latest'[d]
  <2>1. PersistMonitor(c, m) /\ m.update \in Nat
    BY <1>5, BoundsAssumption DEF Rewrites, Raises, Monitor, Update
  <2>2. CASE d # c
    <3>1. store'.monitors[d] = store.monitors[d] /\ (disk' = disk \/ disk' = store')
      BY <2>1, <2>2, PersistEffects DEF IInv
    <3>2. monitors'[d].update = monitors[d].update /\ latest'[d] = latest[d]
      BY <1>5, <2>2 DEF Rewrites, Raises
    <3>3. QED BY <1>2, <3>1, <3>2
  <2>3. CASE d = c
    <3>1. disk' = store' /\ store'.monitors[d] = m
      BY <2>1, <2>3, PersistEffects DEF IInv
    <3>2. monitors'[d].update = m.update /\ m.update = latest'[d]
      BY <1>2, <1>3, <1>5, <2>1, <2>3 DEF Rewrites, Raises
    <3>3. QED BY <3>1, <3>2
  <2>4. QED BY <2>2, <2>3
<1>6. CASE Flushes
  BY <1>2, <1>6 DEF Flushes
<1>7. CASE TakeBytes
  BY <1>2, <1>7 DEF TakeBytes, durable
<1>8. CASE SaveManager
  <2>1. PICK result \in Outcomes : Write([store EXCEPT !.manager = snap], result)
    BY <1>8 DEF SaveManager
  <2>2. [store EXCEPT !.manager = snap].monitors = store.monitors
    BY PutManager DEF IInv, TypeOK
  <2>3. store'.monitors = store.monitors /\ (disk' = disk \/ disk' = store')
    BY <2>1, <2>2, WriteCases
  <2>4. QED BY <1>2, <1>8, <2>3 DEF SaveManager
<1>9. CASE Ends
  BY <1>2, <1>9 DEF Ends, ProcessEnds, NoMonitor
<1>10. QED BY <1>4, <1>5, <1>6, <1>7, <1>8, <1>9, NextKinds

\* A monitor enters the context from memory, where it stays until the process
\* ends.
LEMMA KeepsRestored ==
    ASSUME IInv, [Next]_vars
    PROVE  Restored'
<1> SUFFICES ASSUME phase' # "off", ~blind', NEW d \in Channels, store'.monitors[d].update > 0
             PROVE  monitors'[d].update > 0
  BY DEF Restored, Stored
<1>1. phase # "off" /\ ~blind /\ store.monitors[d].update > 0 => monitors[d].update > 0
  BY DEF IInv, Restored, Stored
<1>2. manager.update[d] \in Nat
  BY TypeNumbers DEF IInv, Numbers
<1>3. CASE Launches
  <2>1. PICK failed : LaunchNew(failed) \/ LaunchRestored(failed)
    BY <1>3 DEF Launches
  <2>2. store' = disk /\ LaunchRestored(failed)
    BY <2>1, LaunchReads
  <2>3. QED BY <2>2, LaunchReads
<1>4. ASSUME NEW c \in Channels, NEW m \in Monitor, Rewrites(c, m) \/ Raises(c, m)
      PROVE  monitors'[d].update > 0
  <2>1. phase # "off" /\ ~blind
    BY <1>4 DEF Rewrites, Raises, process
  <2>2. CASE d = c
    BY <1>2, <1>4, <2>2 DEF Rewrites, Raises
  <2>3. CASE d # c
    <3>1. store'.monitors[d] = store.monitors[d]
      BY <1>4, <2>3, PersistEffects DEF Rewrites, Raises, IInv
    <3>2. monitors'[d].update = monitors[d].update
      BY <1>4, <2>3 DEF Rewrites, Raises
    <3>3. QED BY <1>1, <2>1, <3>1, <3>2
  <2>4. QED BY <2>2, <2>3
<1>5. CASE Flushes
  BY <1>1, <1>5 DEF Flushes
<1>6. CASE TakeBytes
  BY <1>1, <1>6 DEF TakeBytes, durable, process
<1>7. CASE SaveManager
  <2>1. PICK result \in Outcomes : Write([store EXCEPT !.manager = snap], result)
    BY <1>7 DEF SaveManager
  <2>2. [store EXCEPT !.manager = snap].monitors = store.monitors
    BY PutManager DEF IInv, TypeOK
  <2>3. store'.monitors = store.monitors
    BY <2>1, <2>2, WriteCases
  <2>4. QED BY <1>1, <1>7, <2>3 DEF SaveManager, process
<1>8. CASE Ends
  BY <1>8 DEF Ends, ProcessEnds
<1>9. QED BY <1>3, <1>4, <1>5, <1>6, <1>7, <1>8, NextKinds

\* No step takes the manager out of the context.
LEMMA KeepsInContext ==
    ASSUME IInv, [Next]_vars
    PROVE  InContext'
<1>1. disk.manager # NoManager => store.manager # NoManager
  BY DEF IInv, InContext
<1>2. CASE Launches
  BY <1>1, <1>2, LaunchReads DEF Launches, InContext
<1>3. ASSUME NEW c \in Channels, NEW m \in Monitor, Rewrites(c, m) \/ Raises(c, m)
      PROVE  InContext'
  <2>1. store'.manager = store.manager /\ (disk' = disk \/ disk' = store')
    BY <1>3, PersistEffects DEF Rewrites, Raises, IInv
  <2>2. QED BY <1>1, <2>1 DEF InContext
<1>4. CASE Flushes
  BY <1>1, <1>4 DEF Flushes, InContext
<1>5. CASE TakeBytes
  BY <1>1, <1>5 DEF TakeBytes, durable, InContext
<1>6. CASE SaveManager
  <2>1. PICK result \in Outcomes : Write([store EXCEPT !.manager = snap], result)
    BY <1>6 DEF SaveManager
  <2>2. [store EXCEPT !.manager = snap].manager = snap /\ snap # NoManager
    BY PutManager, NothingAssumption DEF IInv, TypeOK
  <2>3. /\ store'.manager = store.manager \/ store'.manager # NoManager
        /\ disk' = disk \/ disk' = store'
    BY <2>1, <2>2, WriteCases
  <2>4. QED BY <1>1, <2>3 DEF InContext
<1>7. CASE Ends
  BY <1>7 DEF Ends, ProcessEnds, InContext
<1>8. QED BY <1>2, <1>3, <1>4, <1>5, <1>6, <1>7, NextKinds

\* A copy of the manager is made from a newer one, while its monitor moves on.
LEMMA KeepsCopiesAdvance ==
    ASSUME IInv, [Next]_vars
    PROVE  CopiesAdvance'
<1> DEFINE Adv(m, n, d) == \/ n.update[d] >= m.update[d]
                           \/ n.update[d] = 0 /\ (blind \/ disk.monitors[d].update > m.update[d])
           InOrder(d) ==
              /\ disk.manager # NoManager => /\ Adv(disk.manager, store.manager, d)
                                             /\ Adv(disk.manager, manager, d)
                                             /\ bg = "save" => Adv(disk.manager, snap, d)
              /\ store.manager # NoManager => /\ Adv(store.manager, manager, d)
                                              /\ bg = "save" => Adv(store.manager, snap, d)
              /\ bg = "save" => Adv(snap, manager, d)
<1>1. SUFFICES ASSUME NEW d \in Channels, phase' # "off"
               PROVE  InOrder(d)'
  BY <1>1 DEF CopiesAdvance, Ahead, AheadIn
<1>2. phase # "off" => InOrder(d)
  BY DEF IInv, CopiesAdvance, Ahead, AheadIn
<1>3. /\ disk.monitors[d].update \in Nat /\ store.monitors[d].update \in Nat
      /\ monitors[d].update \in Nat /\ manager.update[d] \in Nat
      /\ snap.update[d] \in Nat /\ latest[d] \in Nat
      /\ disk.manager # NoManager => disk.manager.update[d] \in Nat
      /\ store.manager # NoManager => store.manager.update[d] \in Nat
  BY TypeNumbers DEF IInv, Numbers
<1>4. /\ disk.monitors[d].update <= store.monitors[d].update
      /\ manager.update[d] <= latest[d]
      /\ disk.manager # NoManager => store.manager # NoManager
  BY DEF IInv, MonitorOrder, ManagersNotBehind, NotBehind, InContext
<1>5. CASE Launches
  <2>1. PICK failed : LaunchNew(failed) \/ LaunchRestored(failed)
    BY <1>5 DEF Launches
  <2>2. UNCHANGED <<disk, store, bg>> /\ store = disk /\ bg = "idle"
    BY <2>1, LaunchReads
  <2>3. CASE LaunchNew(failed)
    <3>1. manager'.update[d] = 0 /\ blind'
      BY <2>3, LaunchReads DEF EmptyManager
    <3>2. QED BY <1>3, <2>2, <3>1
  <2>4. CASE LaunchRestored(failed)
    <3>1. /\ disk.manager # NoManager
          /\ monitors'[d].update = disk.monitors[d].update \/ blind'
          /\ disk.manager.update[d] <= monitors'[d].update
          /\ manager'.update[d] = IF disk.manager.update[d] = monitors'[d].update
                                  THEN disk.manager.update[d] ELSE 0
      BY <2>4, LaunchReads
    <3>2. QED BY <1>3, <2>2, <3>1
  <2>5. QED BY <2>1, <2>3, <2>4
<1>6. ASSUME NEW c \in Channels, NEW m \in Monitor, Rewrites(c, m) \/ Raises(c, m)
      PROVE  InOrder(d)'
  <2>1. store'.manager = store.manager /\ (disk' = disk \/ disk' = store')
    BY <1>6, PersistEffects DEF Rewrites, Raises, IInv
  <2>2. store.monitors[d].update <= store'.monitors[d].update /\ store'.monitors[d].update \in Nat
    BY <1>6, MonitorsGrow
  <2>3. phase # "off" /\ UNCHANGED <<snap, blind>> /\ (bg' = "save" => bg = "save")
    BY <1>6 DEF Rewrites, Raises, process
  <2>4. /\ disk.monitors[d].update <= disk'.monitors[d].update /\ disk'.monitors[d].update \in Nat
        /\ disk'.manager = disk.manager \/ disk'.manager = store.manager
    BY <1>3, <1>4, <2>1, <2>2
  <2>5. manager'.update[d] >= manager.update[d] /\ manager'.update[d] \in Nat
    <3>1. m.update \in Nat
      BY BoundsAssumption DEF Monitor, Update
    <3>2. QED BY <1>3, <1>4, <1>6, <3>1 DEF Rewrites, Raises
  <2>6. manager'.update[d] = manager.update[d] \/ manager'.update[d] > manager.update[d]
    BY <1>3, <2>5
  <2>7. manager'.update[d] # manager.update[d] =>
           manager.update[d] > 0 \/ latest[d] = 0
    BY <1>6 DEF Rewrites, Raises
  <2>8. /\ disk.manager # NoManager => disk.manager.update[d] <= latest[d]
        /\ store.manager # NoManager => store.manager.update[d] <= latest[d]
        /\ snap.update[d] <= latest[d]
    BY DEF IInv, ManagersNotBehind, NotBehind
  <2>9. InOrder(d)
    BY <1>2, <2>3
  <2>10. QED BY <1>3, <1>4, <2>1, <2>3, <2>4, <2>5, <2>7, <2>8, <2>9
<1>7. CASE Flushes
  <2>1. /\ UNCHANGED <<manager, snap, blind>> /\ phase # "off" /\ (bg' = "save" => bg = "save")
        /\ store'.manager = store.manager /\ store'.monitors = store.monitors
        /\ disk' = disk \/ disk' = store'
    BY <1>1, <1>7 DEF Flushes
  <2>2. QED BY <1>2, <1>3, <1>4, <2>1
<1>8. CASE TakeBytes
  <2>1. UNCHANGED <<disk, store, manager, blind>> /\ snap' = manager /\ phase # "off"
    BY <1>8 DEF TakeBytes, durable, process
  <2>2. QED BY <1>2, <1>3, <2>1
<1>9. CASE SaveManager
  <2>1. UNCHANGED <<manager, blind, phase>> /\ bg = "save" /\ bg' = "idle" /\ phase # "off"
    BY <1>1, <1>9 DEF SaveManager, process
  <2>2. PICK result \in Outcomes : Write([store EXCEPT !.manager = snap], result)
    BY <1>9 DEF SaveManager
  <2>3. /\ [store EXCEPT !.manager = snap].manager = snap
        /\ [store EXCEPT !.manager = snap].monitors = store.monitors
    BY PutManager DEF IInv, TypeOK
  <2>4. /\ store'.manager = store.manager \/ store'.manager = snap
        /\ store'.monitors = store.monitors
        /\ disk' = disk \/ disk' = store'
    BY <2>2, <2>3, WriteCases
  <2>5. disk'.monitors[d].update >= disk.monitors[d].update /\ disk'.monitors[d].update \in Nat
    BY <1>3, <1>4, <2>4
  <2>6. \/ disk' = disk /\ store'.manager = store.manager
        \/ disk' = disk /\ store'.manager = snap
        \/ disk'.manager = store.manager /\ store'.manager = store.manager
        \/ disk'.manager = snap /\ store'.manager = snap
    BY <2>4
  <2>7. QED BY <1>2, <1>3, <1>4, <2>1, <2>5, <2>6
<1>10. CASE Ends
  BY <1>1, <1>10 DEF Ends, ProcessEnds
<1>11. QED BY <1>5, <1>6, <1>7, <1>8, <1>9, <1>10, NextKinds

-----------------------------------------------------------------------------
(* The theorems *)

LEMMA InitIInv == Init => IInv
<1> SUFFICES ASSUME Init PROVE IInv
  OBVIOUS
<1>1. TypeOK
  BY InitType
<1>2. /\ disk.manager = NoManager /\ store.manager = NoManager
      /\ \A c \in Channels : /\ disk.monitors[c].update = 0 /\ store.monitors[c].update = 0
                             /\ monitors[c].update = 0 /\ manager.update[c] = 0
                             /\ snap.update[c] = 0 /\ latest[c] = 0 /\ swallowed[c] = {}
      /\ manager.claimed = {} /\ snap.claimed = {} /\ store.payments = {}
  BY DEF Init, EmptyContent, EmptyManager, NoMonitor
<1>3. Phases
  BY DEF Init, Phases
<1>4. MonitorOrder /\ Newest
  BY <1>2 DEF MonitorOrder, Newest, IsOpen
<1>5. ManagersNotBehind
  BY <1>2 DEF ManagersNotBehind, NotBehind
<1>6. ClaimsRecorded
  BY <1>2 DEF ClaimsRecorded, ClaimedIsRecorded
<1>7. Restored /\ CopiesAdvance
  BY DEF Init, Restored, CopiesAdvance
<1>8. InContext
  BY <1>2 DEF Init, InContext
<1>9. QED BY <1>1, <1>3, <1>4, <1>5, <1>6, <1>7, <1>8 DEF IInv

LEMMA NextIInv == IInv /\ [Next]_vars => IInv'
<1> SUFFICES ASSUME IInv, [Next]_vars PROVE IInv'
  OBVIOUS
<1>1. TypeOK' /\ Phases' /\ MonitorOrder'
  BY KeepsType, KeepsPhases, KeepsMonitorOrder
<1>2. ManagersNotBehind' /\ ClaimsRecorded' /\ Newest' /\ Restored'
  BY KeepsManagersNotBehind, KeepsClaimsRecorded, KeepsNewest, KeepsRestored
<1>3. InContext' /\ CopiesAdvance'
  BY KeepsInContext, KeepsCopiesAdvance
<1>4. QED BY <1>1, <1>2, <1>3 DEF IInv

LEMMA Inductive == Spec => []IInv
BY InitIInv, NextIInv, PTL DEF Spec

\* Every variable of NodeStore has its type in every reachable state.
THEOREM TypeCorrect == Spec => []TypeOK
<1>1. IInv => TypeOK
  BY DEF IInv
<1>2. QED BY <1>1, Inductive, PTL

\* The stored manager is ahead of a stored monitor only if a fetch under
\* update_persisted_channel threw and the error was dropped.
THEOREM MonitorNeverBehind == Spec => []MonitorNotBehind
<1>1. IInv => MonitorNotBehind
  <2> SUFFICES ASSUME IInv, disk.manager # NoManager, NEW c \in Channels,
                      disk.manager.update[c] > disk.monitors[c].update
               PROVE  Lost(c)
    BY DEF MonitorNotBehind, Lost
  <2>1. disk.manager.update[c] \in Nat /\ disk.monitors[c].update \in Nat
    BY TypeNumbers DEF IInv, Numbers
  <2>2. Lost(c) \/ disk.manager.update[c] <= disk.monitors[c].update
    BY DEF IInv, ManagersNotBehind, NotBehind
  <2>3. QED BY <2>1, <2>2
<1>2. QED BY <1>1, Inductive, PTL

\* A claim in the stored manager has its payment record, whatever saves fail and
\* wherever the process ends.
THEOREM ClaimsAreRecorded == Spec => []ClaimedIsRecorded
<1>1. IInv => ClaimedIsRecorded
  BY DEF IInv, ClaimsRecorded
<1>2. QED BY <1>1, Inductive, PTL

\* A node whose monitor writes never threw operates every channel in its newest
\* state, however often it was killed and restored.
THEOREM NeverOldUnlessSwallowed == Spec => []OldStateOnlyIfSwallowed
<1>1. IInv => OldStateOnlyIfSwallowed
  <2> SUFFICES ASSUME IInv, NEW c \in Channels, IsOpen(c), swallowed[c] = {}
               PROVE  manager.update[c] = latest[c]
    BY DEF OldStateOnlyIfSwallowed
  <2>1. manager.update[c] > 0 /\ manager.update[c] = monitors[c].update
    BY DEF IInv, MonitorOrder, IsOpen
  <2>2. monitors[c].update = latest[c]
    BY <2>1 DEF IInv, Newest
  <2>3. QED BY <2>1, <2>2
<1>2. QED BY <1>1, Inductive, PTL

\* A node running from what it restored watches every monitor on the disk.
THEOREM RestoredAreWatched == Spec => []RestoredIsWatched
<1>1. IInv => RestoredIsWatched
  <2> SUFFICES ASSUME IInv, phase = "running", ~blind, NEW c \in Channels,
                      disk.monitors[c].update > 0
               PROVE  c \in watched
    BY DEF RestoredIsWatched, Stored
  <2>1. /\ disk.monitors[c].update \in Nat /\ store.monitors[c].update \in Nat
        /\ disk.monitors[c].update <= store.monitors[c].update
    BY TypeNumbers DEF IInv, Numbers, MonitorOrder
  <2>2. c \in Stored(store.monitors)
    BY <2>1 DEF Stored
  <2>3. QED BY <2>2 DEF IInv, Restored, Phases
<1>2. QED BY <1>1, Inductive, PTL

\* A step replaces the stored manager by one that knows every channel at least as
\* far, but for channels that a launch closed or could not know.
THEOREM StoredManagerAdvances == Spec => LosesOnlyClosedChannels
<1> DEFINE Keeps(c) ==
              disk.manager # NoManager =>
                 \/ disk'.manager.update[c] >= disk.manager.update[c]
                 \/ /\ disk'.manager.update[c] = 0
                    /\ blind \/ disk.monitors[c].update > disk.manager.update[c]
<1>1. ASSUME IInv, [Next]_vars, NEW c \in Channels, disk.manager # NoManager
      PROVE  Keeps(c)
  <2>1. disk.manager.update[c] \in Nat
    BY <1>1, TypeNumbers DEF IInv, Numbers
  <2>2. CASE disk'.manager = disk.manager
    BY <2>1, <2>2
  <2>3. ASSUME phase # "off"
        PROVE  /\ AheadIn(disk.manager, store.manager, blind, disk.monitors)
               /\ bg = "save" => AheadIn(disk.manager, snap, blind, disk.monitors)
    BY <1>1, <2>3 DEF IInv, CopiesAdvance, Ahead
  <2>4. phase = "off" => store.manager = disk.manager
    BY <1>1 DEF IInv, Phases
  <2>5. CASE disk'.manager = store.manager
    BY <1>1, <2>1, <2>3, <2>4, <2>5 DEF AheadIn
  <2>6. CASE disk'.manager = snap /\ bg = "save"
    BY <1>1, <2>3, <2>6 DEF AheadIn, IInv, Phases
  <2>7. \/ disk'.manager = disk.manager \/ disk'.manager = store.manager
        \/ disk'.manager = snap /\ bg = "save"
    <3>1. ASSUME NEW d \in Channels, NEW m \in Monitor, Rewrites(d, m) \/ Raises(d, m)
          PROVE  disk'.manager = disk.manager \/ disk'.manager = store.manager
      BY <1>1, <3>1, PersistEffects DEF Rewrites, Raises, IInv
    <3>2. CASE SaveManager
      <4>1. PICK result \in Outcomes : Write([store EXCEPT !.manager = snap], result)
        BY <3>2 DEF SaveManager
      <4>2. [store EXCEPT !.manager = snap].manager = snap
        BY <1>1, PutManager DEF IInv, TypeOK
      <4>3. QED BY <3>2, <4>1, <4>2, WriteCases DEF SaveManager
    <3>3. CASE Launches
      BY <1>1, <3>3, LaunchReads DEF Launches
    <3>4. CASE Flushes \/ TakeBytes \/ Ends
      BY <3>4 DEF Flushes, TakeBytes, Ends, durable
    <3>5. QED BY <1>1, <3>1, <3>2, <3>3, <3>4, NextKinds
  <2>8. QED BY <2>2, <2>5, <2>6, <2>7
<1>2. IInv /\ [Next]_vars => [\A c \in Channels : Keeps(c)]_vars
  BY <1>1
<1>3. QED BY <1>2, Inductive, PTL DEF Spec, LosesOnlyClosedChannels

-----------------------------------------------------------------------------
(* A closed channel stays closed *)

\* The manager m, read beside the monitors ms, is without the channel c.
Behind(m, ms, c) == m # NoManager => m.update[c] = 0 \/ m.update[c] < ms[c].update

\* No copy of the manager can bring c back: none in memory has it, and beside the
\* ones on disk and in the context there is a newer monitor.
Closed(c) ==
    /\ latest[c] > 0
    /\ ~IsOpen(c)
    /\ Behind(disk.manager, disk.monitors, c)
    /\ Behind(store.manager, store.monitors, c)
    /\ bg = "save" => snap.update[c] = 0

\* Every step leaves a closed channel closed: the context's manager may lose it, its
\* monitors only get newer, and a launch reads a pair that is without it.
LEMMA KeepsClosed ==
    ASSUME IInv, [Next]_vars, NEW d \in Channels, Closed(d)
    PROVE  Closed(d)'
<1>1. /\ latest[d] > 0 /\ manager.update[d] = 0
      /\ Behind(disk.manager, disk.monitors, d) /\ Behind(store.manager, store.monitors, d)
      /\ bg = "save" => snap.update[d] = 0
  BY TypeNumbers DEF Closed, IsOpen, IInv, Numbers
<1>2. SUFFICES /\ latest'[d] > 0 /\ manager'.update[d] = 0
               /\ Behind(disk'.manager, disk'.monitors, d)
               /\ Behind(store'.manager, store'.monitors, d)
               /\ bg' = "save" => snap'.update[d] = 0
  BY DEF Closed, Behind, IsOpen
<1>3. CASE Launches
  <2>1. PICK failed : LaunchNew(failed) \/ LaunchRestored(failed)
    BY <1>3 DEF Launches
  <2>2. UNCHANGED <<disk, store, latest, snap, bg>>
    BY <2>1, LaunchReads
  <2>3. CASE LaunchNew(failed)
    <3>1. manager' = manager
      BY <2>3, LaunchReads
    <3>2. QED BY <1>1, <2>2, <3>1
  <2>4. CASE LaunchRestored(failed)
    <3>1. /\ disk.manager # NoManager
          /\ \/ monitors'[d].update = disk.monitors[d].update \/ monitors'[d].update = 0
          /\ disk.manager.update[d] <= monitors'[d].update
          /\ manager'.update[d] = IF disk.manager.update[d] = monitors'[d].update
                                  THEN disk.manager.update[d] ELSE 0
      BY <2>4, LaunchReads
    <3>2. disk.manager.update[d] \in Nat /\ disk.monitors[d].update \in Nat
      BY <3>1, TypeNumbers DEF IInv, Numbers
    <3>3. disk.manager.update[d] = 0 \/ disk.manager.update[d] < disk.monitors[d].update
      BY <1>1, <3>1 DEF Behind
    <3>4. manager'.update[d] = 0
      BY <3>1, <3>2, <3>3
    <3>5. QED BY <1>1, <2>2, <3>4
  <2>5. QED BY <2>1, <2>3, <2>4
<1>4. ASSUME NEW c \in Channels, NEW m \in Monitor, Rewrites(c, m) \/ Raises(c, m)
      PROVE  /\ latest'[d] > 0 /\ manager'.update[d] = 0
             /\ Behind(disk'.manager, disk'.monitors, d)
             /\ Behind(store'.manager, store'.monitors, d)
             /\ bg' = "save" => snap'.update[d] = 0
  <2>1. d = c => ~Raises(c, m)
    BY <1>1 DEF Raises
  <2>2. latest'[d] = latest[d] /\ manager'.update[d] = 0 /\ snap' = snap
        /\ (bg' = "save" => bg = "save")
    BY <1>1, <1>4, <2>1 DEF Rewrites, Raises
  <2>3. store'.manager = store.manager /\ (disk' = disk \/ disk' = store')
    BY <1>4, PersistEffects DEF Rewrites, Raises, IInv
  <2>4. /\ store.monitors[d].update <= store'.monitors[d].update
        /\ store'.monitors[d].update \in Nat
    BY <1>4, MonitorsGrow
  <2>5. /\ store.monitors[d].update \in Nat
        /\ store.manager # NoManager => store.manager.update[d] \in Nat
    BY TypeNumbers DEF IInv, Numbers
  <2>6. Behind(store'.manager, store'.monitors, d)
    BY <1>1, <2>3, <2>4, <2>5 DEF Behind
  <2>7. QED BY <1>1, <2>2, <2>3, <2>6
<1>5. CASE Flushes
  <2>1. /\ store'.manager = store.manager /\ store'.monitors = store.monitors
        /\ disk' = disk \/ disk' = store'
        /\ UNCHANGED <<manager, snap, latest>> /\ (bg' = "save" => bg = "save")
    BY <1>5 DEF Flushes
  <2>2. QED BY <1>1, <2>1
<1>6. CASE TakeBytes
  BY <1>1, <1>6 DEF TakeBytes, durable
<1>7. CASE SaveManager
  <2>1. PICK result \in Outcomes : Write([store EXCEPT !.manager = snap], result)
    BY <1>7 DEF SaveManager
  <2> DEFINE t == [store EXCEPT !.manager = snap]
  <2>2. t.manager = snap /\ t.monitors = store.monitors
    BY PutManager DEF IInv, TypeOK
  <2> HIDE DEF t
  <2>3. Behind(t.manager, t.monitors, d)
    BY <1>1, <1>7, <2>2 DEF SaveManager, Behind
  <2>4. store' \in {store, t} /\ disk' \in {disk, t}
    BY <2>1, WriteCases DEF t
  <2>5. Behind(store'.manager, store'.monitors, d) /\ Behind(disk'.manager, disk'.monitors, d)
    BY <1>1, <2>3, <2>4
  <2>6. QED BY <1>1, <1>7, <2>5 DEF SaveManager
<1>8. CASE Ends
  BY <1>1, <1>8 DEF Ends, ProcessEnds, EmptyManager
<1>9. QED BY <1>3, <1>4, <1>5, <1>6, <1>7, <1>8, NextKinds

\* A channel is given up by the launch that closes it, and by nothing else.
LEMMA GivenUpIsClosed ==
    ASSUME IInv, [Next]_vars, NEW d \in Channels, GivenUp(d) => Closed(d)
    PROVE  (GivenUp(d) => Closed(d))'
<1>1. SUFFICES ASSUME phase' # "off", ~blind', latest'[d] > 0, ~(manager'.update[d] > 0)
               PROVE  Closed(d)'
  BY DEF GivenUp, IsOpen
<1>2. CASE Closed(d)
  BY <1>2, KeepsClosed
<1>3. CASE ~Closed(d)
  <2>1. phase = "off" \/ blind \/ ~(latest[d] > 0) \/ manager.update[d] > 0
    BY <1>3 DEF GivenUp, IsOpen
  <2>2. /\ latest[d] \in Nat /\ manager.update[d] \in Nat
        /\ disk.manager # NoManager => disk.manager.update[d] \in Nat
        /\ disk.monitors[d].update \in Nat
        /\ monitors[d].update <= latest[d]
        /\ manager.update[d] > 0 => manager.update[d] = monitors[d].update
    BY TypeNumbers DEF IInv, Numbers, MonitorOrder, IsOpen
  <2>3. CASE Launches
    <3>1. PICK failed : LaunchNew(failed) \/ LaunchRestored(failed)
      BY <2>3 DEF Launches
    <3>2. LaunchRestored(failed)
      BY <1>1, <3>1, LaunchReads
    <3>3. /\ UNCHANGED <<disk, store, bg>> /\ store = disk /\ bg = "idle"
          /\ disk.manager # NoManager
          /\ monitors'[d].update = disk.monitors[d].update
          /\ disk.manager.update[d] <= monitors'[d].update
          /\ manager'.update[d] = IF disk.manager.update[d] = monitors'[d].update
                                  THEN disk.manager.update[d] ELSE 0
      BY <1>1, <3>2, LaunchReads
    <3>4. disk.manager.update[d] = 0 \/ disk.manager.update[d] < disk.monitors[d].update
      BY <1>1, <2>2, <3>3
    <3>5. Behind(disk'.manager, disk'.monitors, d) /\ Behind(store'.manager, store'.monitors, d)
      BY <3>3, <3>4 DEF Behind
    <3>6. QED BY <1>1, <3>3, <3>5 DEF Closed, Behind, IsOpen
  <2>4. ASSUME NEW c \in Channels, NEW m \in Monitor, Rewrites(c, m) \/ Raises(c, m)
        PROVE  FALSE
    <3>1. phase # "off" /\ phase' = phase /\ blind' = blind
      BY <2>4 DEF Rewrites, Raises, process
    <3>2. ~(latest[d] > 0) \/ manager.update[d] > 0
      BY <1>1, <2>1, <3>1
    <3>3. m.update \in Nat
      BY BoundsAssumption DEF Monitor, Update
    <3>4. CASE Rewrites(c, m) \/ d # c
      <4>1. latest'[d] = latest[d] /\ manager'.update[d] = manager.update[d]
        BY <2>4, <3>4 DEF Rewrites, Raises
      <4>2. QED BY <1>1, <3>2, <4>1
    <3>5. CASE Raises(c, m) /\ d = c
      <4>1. /\ manager'.update[d] = m.update
            /\ m.update = manager.update[d] + 1 \/ m.update = 1
        BY <3>5 DEF Raises
      <4>2. QED BY <1>1, <2>2, <3>3, <4>1
    <3>6. QED BY <2>4, <3>4, <3>5
  <2>5. CASE Flushes \/ TakeBytes \/ SaveManager
    <3>1. /\ UNCHANGED <<manager, latest, blind>> /\ (phase = "off" <=> phase' = "off")
      BY <2>5 DEF Flushes, TakeBytes, SaveManager, process
    <3>2. QED BY <1>1, <2>1, <3>1
  <2>6. CASE Ends
    BY <1>1, <2>6 DEF Ends, ProcessEnds
  <2>7. QED BY <2>3, <2>4, <2>5, <2>6, NextKinds
<1>4. QED BY <1>2, <1>3

\* The two facts over a behaviour, for one channel.
LEMMA OneStaysClosed ==
    ASSUME NEW d \in Channels
    PROVE  Spec => NeverReopened(d)
<1>1. Init => (GivenUp(d) => Closed(d))
  BY DEF Init, GivenUp
<1>2. IInv /\ [Next]_vars /\ (GivenUp(d) => Closed(d)) => (GivenUp(d) => Closed(d))'
  BY GivenUpIsClosed
<1>3. IInv /\ [Next]_vars /\ Closed(d) => Closed(d)'
  BY KeepsClosed
<1>4. Closed(d) => ~IsOpen(d)
  BY DEF Closed
<1>5. QED BY <1>1, <1>2, <1>3, <1>4, Inductive, PTL DEF Spec, NeverReopened

\* A channel that a launch closed is operated by no later launch, whatever the ends
\* of the process and the calls of Core Data that threw left on disk.
THEOREM ClosedStaysClosed == Spec => StaysClosed
BY OneStaysClosed, Zenon DEF StaysClosed
===============================================================================
