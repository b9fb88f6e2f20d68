--------------------------- MODULE ChainFollowProofs ---------------------------
(***************************************************************************)
(* Proofs that ChainSync implements ChainFollow and of what can make LDK   *)
(* panic over a block.  Both rest on one fact: every block the service     *)
(* holds anywhere, in the manager, in storage, in a buffer or in a task,   *)
(* came from the kit's chain, which gives it a height below the tip and,   *)
(* when no branch ever loses, a place on the chain.                        *)
(***************************************************************************)
EXTENDS ChainSyncProofs

\* The blocks held by the manager, in storage, by the subscription and by the tasks.
Held(t) == {task[t].blocks[i] : i \in DOMAIN task[t].blocks}
Known ==
    {best} \cup ({saved, mon, left} \ {None}) \cup {blockEvents[i] : i \in DOMAIN blockEvents}
    \cup UNION {Held(t) : t \in Tasks}

Within(b)  == b.height \in 1..Len(chain)

Linked       == \A i \in DOMAIN chain : i > 1 => chain[i].parent = chain[i - 1].id
KnownWithin  == \A b \in Known : Within(b)
KnownOnChain == Forks \/ \A b \in Known : OnChain(b)
WatchedIsMon == watched => mon # None
\* A monitor no launch has read is no higher than the manager it will be read with.
LeftBehind   == left # None => /\ left.height <= best.height
                               /\ saved # None => left.height <= saved.height
FollowInv    == /\ Linked /\ KnownWithin /\ KnownOnChain /\ WatchedIsMon /\ LeftBehind
                /\ PanicIsRepeatOrFork

\* What a sync holds ends at the tip it read, and once it holds nothing the manager
\* has that tip.
Reaches(t) ==
    LET r == task[t] IN
    /\ r.kind = "sync" \/ (r.high = 0 /\ r.pc \notin {"tip", "range"})
    /\ r.kind = "sync" /\ r.pc \in {"fetch", "manager", "monitor"} /\ r.blocks # <<>>
         => r.blocks[1].height + Len(r.blocks) = r.high + 1
    /\ r.pc \in {"watch", "background", "replace", "synced"} \/ (r.pc = "fetch" /\ r.blocks = <<>>)
         => best.height >= r.high
AllReach == \A t \in Tasks : Reaches(t)

\* How much a task has before it: the part it is in, and in the loop its blocks and
\* listeners.
Stage(t) ==
    CASE task[t].pc = "start"                           -> 8
      [] task[t].pc = "tip"                             -> 7
      [] task[t].pc = "range"                           -> 6
      [] task[t].pc \in {"fetch", "manager", "monitor"} -> 5
      [] task[t].pc = "watch"                           -> 4
      [] task[t].pc = "background"                      -> 3
      [] task[t].pc = "replace"                         -> 2
      [] task[t].pc = "synced"                          -> 1
      [] OTHER                                          -> 0
Work(t) == 3 * Len(task[t].blocks) + (CASE task[t].pc = "fetch" -> 2
                                        [] task[t].pc = "manager" -> 1
                                        [] OTHER -> 0)
Lower(t) == Stage(t)' < Stage(t) \/ (Stage(t)' = Stage(t) /\ Work(t)' < Work(t))

-----------------------------------------------------------------------------
(* Where blocks come from *)

LEMMA KnownMeans ==
    ASSUME NEW b
    PROVE  b \in Known <=> \/ b = best
                           \/ b = saved /\ saved # None
                           \/ b = mon /\ mon # None
                           \/ b = left /\ left # None
                           \/ \E i \in DOMAIN blockEvents : blockEvents[i] = b
                           \/ \E t \in Tasks : \E i \in DOMAIN task[t].blocks : task[t].blocks[i] = b
BY DEF Known, Held

\* A block that is held after a step was held before it, or is on the chain now.
Old(b) == b \in Known \/ \E i \in DOMAIN chain' : b = chain'[i]

LEMMA OldTasks ==
    ASSUME NEW t \in Tasks, NEW i \in DOMAIN task[t].blocks
    PROVE  Old(task[t].blocks[i])
BY KnownMeans DEF Old

LEMMA OldKnown == \A b \in Known : Old(b)
BY DEF Old

\* A step that only moves what was held, place by place.
LEMMA KnownFrame ==
    ASSUME Old(best'), saved' # None => Old(saved'), mon' # None => Old(mon'),
           left' # None => Old(left'),
           \A i \in DOMAIN blockEvents' : Old(blockEvents'[i]),
           \A t \in Tasks : \A i \in DOMAIN task'[t].blocks : Old(task'[t].blocks[i])
    PROVE  \A b \in Known' : Old(b)
<1> SUFFICES ASSUME NEW b \in Known' PROVE Old(b)
  OBVIOUS
<1>1. \/ b = best'
      \/ b = saved' /\ saved' # None
      \/ b = mon' /\ mon' # None
      \/ b = left' /\ left' # None
      \/ \E i \in DOMAIN blockEvents' : blockEvents'[i] = b
      \/ \E t \in Tasks : \E i \in DOMAIN task'[t].blocks : task'[t].blocks[i] = b
  BY DEF Known, Held
<1>2. QED BY <1>1

LEMMA OldPlaces ==
    /\ Old(best) /\ (saved # None => Old(saved)) /\ (mon # None => Old(mon))
    /\ left # None => Old(left)
    /\ \A i \in DOMAIN blockEvents : Old(blockEvents[i])
    /\ \A t \in Tasks : \A i \in DOMAIN task[t].blocks : Old(task[t].blocks[i])
BY KnownMeans DEF Old

\* A step of one task whose blocks were held.
LEMMA TaskFrame ==
    ASSUME IInv, NEW t \in Tasks, NEW bs, \A i \in DOMAIN bs : Old(bs[i]),
           task'[t].blocks = bs \/ UNCHANGED task,
           \A u \in Tasks \ {t} : task'[u] = task[u],
           UNCHANGED <<saved, left, blockEvents>>, Old(best'), mon' # None => Old(mon')
    PROVE  \A b \in Known' : Old(b)
BY OldPlaces, KnownFrame

\* A part of a sequence holds what the sequence holds.
LEMMA PartOf ==
    ASSUME NEW S, NEW s \in Seq(S), NEW m \in Nat, NEW n \in 0..Len(s)
    PROVE  \A i \in DOMAIN SubSeq(s, m + 1, n) :
               m + i \in DOMAIN s /\ SubSeq(s, m + 1, n)[i] = s[m + i]
<1>1. Len(s) \in Nat /\ DOMAIN s = 1..Len(s)
  BY LenProperties
<1> DEFINE u == SubSeq(s, m + 1, n)
<1>2. /\ u \in Seq(S)
      /\ Len(u) = IF m + 1 <= n THEN n - m ELSE 0
      /\ \A i \in 1..Len(u) : u[i] = s[m + i]
  BY <1>1, SMTT(30)
<1> HIDE DEF u
<1>3. Len(u) \in Nat /\ DOMAIN u = 1..Len(u)
  BY <1>2, LenProperties
<1>4. \A i \in 1..Len(u) : m + i \in DOMAIN s
  BY <1>1, <1>2, <1>3, SMTT(30)
<1>5. QED BY <1>2, <1>3, <1>4 DEF u

LEMMA TaskKnown ==
    ASSUME IInv, NEW t \in Tasks, TaskStep(t)
    PROVE  \A b \in Known' : Old(b)
<1>0. /\ UNCHANGED <<saved, left, blockEvents>> /\ \A u \in Tasks \ {t} : task'[u] = task[u]
      /\ task[t] \in Task /\ task \in [Tasks -> Task]
  BY DEF TaskStep, ReadBest, ReadTip, ReadBlocks, Download, ConnectManager, ConnectMonitor,
     SyncCompleted, WatchMonitors, StartBackground,
     ReplaceBackground, SendSynced, Goto, End, SameTask, IInv,
     TypeOK, node
<1>1. Idle.blocks = <<>> /\ DOMAIN <<>> = {}
  BY EmptySeq DEF Idle
<1>2. CASE ReadBlocks(t)
  <2> DEFINE bs == MissingBlocks(t)
  <2>1. task'[t].blocks = bs /\ UNCHANGED <<kit, node>>
    BY <1>0, <1>2 DEF ReadBlocks, Task
  <2>2. \A i \in DOMAIN bs : \E j \in DOMAIN chain : bs[i] = chain[j]
    <3>1. /\ chain \in Seq(Block) /\ Len(chain) \in Nat /\ DOMAIN chain = 1..Len(chain)
          /\ task[t].low \in Nat /\ task[t].high \in 0..Len(chain)
      BY <1>2, ChainFacts, TaskFacts DEF ReadBlocks, At, TaskOK
    <3>2. QED BY <3>1, PartOf DEF MissingBlocks
  <2>3. \A i \in DOMAIN bs : Old(bs[i])
    BY <2>1, <2>2 DEF Old, kit
  <2> HIDE DEF bs
  <2>4. QED BY <1>0, <2>1, <2>3, OldPlaces, TaskFrame DEF node
<1>3. CASE ConnectMonitor(t)
  <2> DEFINE bs == task[t].blocks
  <2>1. /\ bs \in Seq(Block) /\ bs # <<>> /\ Head(bs) = bs[1] /\ 1 \in DOMAIN bs
    BY <1>3, TaskFacts, FirstFields, LenProperties DEF ConnectMonitor, At, TaskOK
  <2>2. Old(bs[1]) /\ mon' \in {mon, bs[1]} /\ UNCHANGED best
    BY <1>3, <2>1, OldTasks DEF ConnectMonitor
  <2>3. task'[t].blocks \in {Tail(bs), <<>>}
    BY <1>0, <1>1, <1>3 DEF ConnectMonitor, End, Task
  <2>4. \A i \in DOMAIN Tail(bs) : Old(Tail(bs)[i])
    <3>1. \A i \in DOMAIN Tail(bs) : i + 1 \in DOMAIN bs /\ Tail(bs)[i] = bs[i + 1]
      BY <2>1, LenProperties, HeadTailProperties, SMTT(30)
    <3>2. QED BY <3>1, OldTasks
  <2> HIDE DEF bs
  <2>5. QED BY <1>0, <1>1, <2>2, <2>3, <2>4, OldPlaces, TaskFrame
<1>4. CASE ConnectManager(t)
  <2>1. /\ UNCHANGED mon /\ best' \in {best, Head(task[t].blocks)}
        /\ UNCHANGED task \/ task'[t].blocks = task[t].blocks
    BY <1>0, <1>4 DEF ConnectManager, SameTask, Goto, Task
  <2>2. Old(Head(task[t].blocks))
    <3>1. /\ Head(task[t].blocks) = task[t].blocks[1] /\ 1 \in DOMAIN task[t].blocks
      BY <1>4, TaskFacts, FirstFields, LenProperties DEF ConnectManager, At, TaskOK
    <3>2. QED BY <3>1, OldTasks
  <2>3. QED BY <1>0, <2>1, <2>2, OldPlaces, TaskFrame
<1>5. CASE ReadBest(t) \/ ReadTip(t) \/ Download(t) \/ SyncCompleted(t) \/ WatchMonitors(t)
           \/ StartBackground(t) \/ ReplaceBackground(t)
           \/ SendSynced(t)
  <2>1. UNCHANGED <<best, mon>> /\ task'[t].blocks \in {task[t].blocks, <<>>}
    BY <1>0, <1>1, <1>5
    DEF ReadBest, ReadTip, Download, SyncCompleted, WatchMonitors, StartBackground,
        ReplaceBackground, SendSynced,
        Goto, End, Task, node
  <2>2. QED BY <1>0, <1>1, <2>1, OldPlaces, TaskFrame
<1>6. QED BY <1>2, <1>3, <1>4, <1>5 DEF TaskStep

\* A task as it starts holds nothing or the block that was announced.
LEMMA SpawnKnown ==
    ASSUME IInv, NEW bs, NEW kind, Spawn(kind, bs), \A i \in DOMAIN bs : Old(bs[i])
    PROVE  \A t \in Tasks : \A i \in DOMAIN task'[t].blocks : Old(task'[t].blocks[i])
<1>1. PICK t \in Tasks : task' = [task EXCEPT ![t] = NewTask(kind, bs)]
  BY DEF Spawn
<1>2. NewTask(kind, bs).blocks = bs
  BY DEF NewTask, Idle
<1>3. task'[t].blocks = bs /\ \A u \in Tasks \ {t} : task'[u] = task[u]
  BY <1>1, <1>2 DEF IInv, TypeOK
<1>4. QED BY <1>3, OldPlaces

LEMMA DeliveryKnown ==
    ASSUME IInv, Subscriptions
    PROVE  \A b \in Known' : Old(b)
<1>1. CASE StateDelivered
  <2>1. UNCHANGED <<best, saved, mon, left, blockEvents>> /\ (UNCHANGED task \/ Spawn("sync", <<>>))
    BY <1>1 DEF StateDelivered, node
  <2>2. \A t \in Tasks : \A i \in DOMAIN task'[t].blocks : Old(task'[t].blocks[i])
    BY <2>1, OldPlaces, SpawnKnown
  <2>3. QED BY <2>1, <2>2, OldPlaces, KnownFrame
<1>2. CASE BlockDelivered
  <2>1. /\ blockEvents \in Seq(Block) /\ blockEvents # <<>> /\ blockEvents' = Tail(blockEvents)
        /\ UNCHANGED <<best, saved, mon, left>>
        /\ UNCHANGED task \/ Spawn("block", <<Head(blockEvents)>>)
    BY <1>2 DEF BlockDelivered, IInv, TypeOK, node
  <2>2. /\ \A i \in DOMAIN blockEvents' : /\ i + 1 \in DOMAIN blockEvents
                                          /\ blockEvents'[i] = blockEvents[i + 1]
        /\ 1 \in DOMAIN blockEvents /\ Head(blockEvents) = blockEvents[1]
    BY <2>1, LenProperties, HeadTailProperties, FirstFields, SMTT(30)
  <2>3. \A i \in DOMAIN <<Head(blockEvents)>> : Old(<<Head(blockEvents)>>[i])
    BY <2>2, OldPlaces
  <2>4. \A t \in Tasks : \A i \in DOMAIN task'[t].blocks : Old(task'[t].blocks[i])
    BY <2>1, <2>3, OldPlaces, SpawnKnown
  <2>5. QED BY <2>1, <2>2, <2>4, OldPlaces, KnownFrame
<1>3. QED BY <1>1, <1>2 DEF Subscriptions

-----------------------------------------------------------------------------
(* The kit's chain *)

\* What a new block or a longer branch does to the chain: it is one higher, keeps
\* all but its last block, and that one too unless there are forks.
ChainGrew ==
    /\ Len(chain') = Len(chain) + 1 /\ DOMAIN chain' = 1..(Len(chain) + 1)
    /\ \A i \in 1..(Len(chain) - 1) : chain'[i] = chain[i]
    /\ Forks \/ chain'[Len(chain)] = chain[Len(chain)]
    /\ blockEvents' = Append(blockEvents, chain'[Len(chain) + 1])
    /\ Linked'

LEMMA ChildLinks ==
    ASSUME NEW b, NEW id PROVE Child(b, id).parent = b.id /\ Child(b, id).id = id
BY DEF Child

LEMMA NewBlockGrows == ASSUME IInv, Linked, NewBlock PROVE ChainGrew
<1> DEFINE n == Len(chain)
           b == Child(Last(chain), mined + 1)
<1>1. /\ chain \in Seq(Block) /\ n \in Nat /\ n > 0 /\ DOMAIN chain = 1..n
      /\ Last(chain) = chain[n] /\ Last(chain) \in Block /\ mined + 1 \in Nat
  BY ChainFacts
<1>2. b \in Block /\ b.parent = chain[n].id
  BY <1>1, ChildFields, ChildLinks
<1>3. chain' = Append(chain, b) /\ blockEvents' = Append(blockEvents, b)
  BY DEF NewBlock
<1> HIDE DEF b
<1>4. /\ chain' \in Seq(Block) /\ Len(chain') = n + 1
      /\ \A i \in 1..n : chain'[i] = chain[i]
      /\ chain'[n + 1] = b
  BY <1>1, <1>2, <1>3, AppendProperties
<1>5. DOMAIN chain' = 1..(n + 1)
  BY <1>4, LenProperties
<1>6. \A i \in 1..(n + 1) : i > 1 => chain'[i].parent = chain'[i - 1].id
  <2> TAKE i \in 1..(n + 1)
  <2>1. CASE i = n + 1
    <3>1. i - 1 = n /\ n \in 1..n
      BY <1>1, <2>1
    <3>2. QED BY <1>2, <1>4, <2>1, <3>1
  <2>2. CASE i # n + 1 /\ i > 1
    <3>1. i \in 1..n /\ i - 1 \in 1..n
      BY <1>1, <2>2
    <3>2. QED BY <1>1, <1>4, <2>2, <3>1 DEF Linked
  <2>3. QED BY <2>1, <2>2
<1>7. \A i \in 1..(n - 1) : i \in 1..n
  BY <1>1
<1>8. n \in 1..n
  BY <1>1
<1>9. QED BY <1>3, <1>4, <1>5, <1>6, <1>7, <1>8 DEF ChainGrew, Linked

LEMMA ReorgGrows == ASSUME IInv, Linked, Reorg PROVE ChainGrew
<1> DEFINE n == Len(chain)
           a == Child(chain[n - 1], mined + 1)
           b == Child(a, mined + 2)
           c == [chain EXCEPT ![n] = a]
<1>0. n \in Nat /\ n > 1
  BY ChainFacts DEF Reorg
<1>1. /\ chain \in Seq(Block) /\ n \in Nat /\ n > 1 /\ DOMAIN chain = 1..n
      /\ mined + 1 \in Nat /\ mined + 2 \in Nat
  <2>1. mined \in Nat
    BY DEF IInv, TypeOK
  <2>2. mined + 1 \in Nat /\ mined + 2 \in Nat
    BY <2>1
  <2>3. QED BY <1>0, <2>2, ChainFacts
<1>2. n - 1 \in 1..n /\ n \in 1..n /\ chain[n - 1] \in Block
  <2>1. n - 1 \in 1..n /\ n \in 1..n
    BY <1>0
  <2>2. QED BY <2>1, ChainFacts
<1>3. a \in Block /\ a.parent = chain[n - 1].id
  BY <1>1, <1>2, ChildFields, ChildLinks
<1>4. chain' = Append(c, b) /\ blockEvents' = Append(blockEvents, b) /\ Forks
  BY DEF Reorg
<1>5. b \in Block /\ b.parent = a.id
  <2> HIDE DEF a
  <2>1. QED BY <1>1, <1>3, ChildFields, ChildLinks
<1> HIDE DEF a, b
<1>6. /\ c \in Seq(Block) /\ Len(c) = n /\ c[n] = a
      /\ \A i \in 1..n : i # n => c[i] = chain[i]
  <2>1. c \in Seq(Block) /\ Len(c) = n
    BY <1>1, <1>2, <1>3, ExceptSeq
  <2>2. c[n] = a /\ \A i \in 1..n : i # n => c[i] = chain[i]
    BY <1>1, <1>2
  <2>3. QED BY <2>1, <2>2
<1> HIDE DEF c
<1>7. /\ chain' \in Seq(Block) /\ Len(chain') = n + 1
      /\ \A i \in 1..n : chain'[i] = c[i]
      /\ chain'[n + 1] = b
  BY <1>4, <1>5, <1>6, AppendProperties
<1>8. DOMAIN chain' = 1..(n + 1)
  BY <1>7, LenProperties
<1>9. \A i \in 1..(n + 1) : i > 1 => chain'[i].parent = chain'[i - 1].id
  <2> TAKE i \in 1..(n + 1)
  <2>1. CASE i = n + 1
    <3>1. i - 1 = n
      BY <1>1, <2>1
    <3>2. QED BY <1>2, <1>5, <1>6, <1>7, <2>1, <3>1
  <2>2. CASE i = n
    <3>1. n - 1 # n
      BY <1>0
    <3>2. QED BY <1>2, <1>3, <1>6, <1>7, <2>2, <3>1
  <2>3. CASE i # n + 1 /\ i # n /\ i > 1
    <3>1. i \in 1..n /\ i - 1 \in 1..n /\ i - 1 # n
      BY <1>0, <2>3
    <3>2. QED BY <1>1, <1>6, <1>7, <2>3, <3>1 DEF Linked
  <2>4. QED BY <2>1, <2>2, <2>3
<1>10. \A i \in 1..(n - 1) : i \in 1..n /\ i # n
  BY <1>0
<1>11. QED BY <1>4, <1>6, <1>7, <1>8, <1>9, <1>10 DEF ChainGrew, Linked

\* Every step leaves the chain alone or makes it grow.
LEMMA ChainSteps ==
    ASSUME IInv, Linked, [Next]_vars
    PROVE  UNCHANGED chain \/ (ChainGrew /\ UNCHANGED <<node, task, app>>)
<1>1. CASE NewBlock
  BY <1>1, NewBlockGrows DEF NewBlock
<1>2. CASE Reorg
  BY <1>2, ReorgGrows DEF Reorg
<1>3. ASSUME NEW s \in States, KitStateUpdated(s) PROVE UNCHANGED chain
  BY <1>3 DEF KitStateUpdated
<1>4. ASSUME NEW t \in Tasks, TaskStep(t) PROVE UNCHANGED chain
  BY <1>4 DEF TaskStep, ReadBest, ReadTip, ReadBlocks, Download, ConnectManager,
     ConnectMonitor, SyncCompleted, WatchMonitors, StartBackground,
     ReplaceBackground, SendSynced, kit
<1>5. CASE Subscriptions \/ OpenChannel \/ PersistManager \/ Restart \/ Stopped \/ UNCHANGED vars
  BY <1>5 DEF Subscriptions, StateDelivered, BlockDelivered, OpenChannel, PersistManager,
     Restart, Stopped, vars, kit
<1>6. QED BY <1>1, <1>2, <1>3, <1>4, <1>5 DEF Next, Kit

-----------------------------------------------------------------------------
(* Every block that is held after a step was held before or is on the chain *)

LEMMA KitKnown ==
    ASSUME IInv, ChainGrew, UNCHANGED <<node, task>>
    PROVE  \A b \in Known' : Old(b)
<1>1. /\ blockEvents \in Seq(Block) /\ Len(blockEvents) \in Nat
      /\ DOMAIN blockEvents = 1..Len(blockEvents) /\ Len(chain) + 1 \in DOMAIN chain'
  BY LenProperties, ChainFacts DEF IInv, TypeOK, ChainGrew
<1>2. \A i \in DOMAIN blockEvents' : \/ i \in DOMAIN blockEvents /\ blockEvents'[i] = blockEvents[i]
                                     \/ blockEvents'[i] = chain'[Len(chain) + 1]
  BY <1>1, SMTT(30) DEF ChainGrew
<1>3. \A i \in DOMAIN blockEvents' : Old(blockEvents'[i])
  BY <1>1, <1>2, OldPlaces DEF Old
<1>4. UNCHANGED <<best, saved, mon, left, task>>
  BY DEF node
<1>5. QED BY <1>3, <1>4, OldPlaces, KnownFrame

LEMMA ListenerKnown ==
    ASSUME IInv, OpenChannel \/ PersistManager
    PROVE  \A b \in Known' : Old(b)
<1>1. /\ UNCHANGED <<best, left, blockEvents, task>>
      /\ saved' \in {saved, best} /\ mon' \in {mon, best}
  BY DEF OpenChannel, PersistManager
<1>2. QED BY <1>1, OldPlaces, KnownFrame

LEMMA RestartKnown ==
    ASSUME IInv, Restart
    PROVE  \A b \in Known' : Old(b)
<1>1. /\ UNCHANGED <<saved, chain>> /\ blockEvents' = <<>>
      /\ \A t \in Tasks : task'[t] = Idle
      /\ (best' = saved /\ saved # None) \/ best' = Last(chain)
      /\ {mon', left'} \subseteq {None, mon, left}
  BY DEF Restart, StoredMonitors, OneOf
<1>2. Idle.blocks = <<>> /\ DOMAIN <<>> = {}
  BY EmptySeq DEF Idle
<1>3. Last(chain) = chain'[Len(chain)] /\ Len(chain) \in DOMAIN chain'
  BY <1>1, ChainFacts
<1>4. Old(best')
  BY <1>1, <1>3, OldPlaces DEF Old
<1>5. QED BY <1>1, <1>2, <1>4, OldPlaces, KnownFrame

LEMMA KnownStep ==
    ASSUME IInv, Linked, [Next]_vars
    PROVE  \A b \in Known' : Old(b)
<1>1. ASSUME NEW t \in Tasks, TaskStep(t) PROVE \A b \in Known' : Old(b)
  BY <1>1, TaskKnown
<1>2. CASE NewBlock \/ Reorg
  BY <1>2, NewBlockGrows, ReorgGrows, KitKnown DEF NewBlock, Reorg
<1>3. CASE (\E s \in States : KitStateUpdated(s)) \/ Stopped \/ UNCHANGED vars
  <2>1. UNCHANGED <<best, saved, mon, left, blockEvents, task>>
    BY <1>3 DEF KitStateUpdated, Stopped, vars, node
  <2>2. QED BY <2>1, OldPlaces, KnownFrame
<1>4. QED BY <1>1, <1>2, <1>3, DeliveryKnown, ListenerKnown, RestartKnown DEF Next, Kit

-----------------------------------------------------------------------------
(* What that gives the blocks that are held *)

LEMMA ChainLonger ==
    ASSUME IInv, Linked, [Next]_vars
    PROVE  /\ Len(chain) \in Nat /\ DOMAIN chain = 1..Len(chain)
           /\ Len(chain') \in Nat /\ DOMAIN chain' = 1..Len(chain')
           /\ Len(chain') = Len(chain) \/ Len(chain') = Len(chain) + 1
           /\ \A i \in DOMAIN chain' : chain'[i].height = i
           /\ Forks \/ \A i \in DOMAIN chain : chain'[i] = chain[i]
           /\ Linked'
<1>1. /\ Len(chain) \in Nat /\ DOMAIN chain = 1..Len(chain)
      /\ UNCHANGED chain \/ ChainGrew
  BY ChainFacts, ChainSteps
<1>2. IInv' /\ chain' \in Seq(Block)
  BY InductiveStep DEF IInv, TypeOK
<1>3. /\ Len(chain') \in Nat /\ DOMAIN chain' = 1..Len(chain')
      /\ \A i \in DOMAIN chain' : chain'[i].height = i
  BY <1>2, LenProperties DEF IInv, ChainHeights
<1>4. \A i \in 1..Len(chain) : i \in 1..(Len(chain) - 1) \/ i = Len(chain)
  <2>1. Len(chain) \in Nat
    BY <1>1
  <2>2. QED BY <2>1
<1>5. CASE UNCHANGED chain
  BY <1>1, <1>3, <1>5 DEF Linked
<1>6. CASE ChainGrew
  BY <1>1, <1>3, <1>4, <1>6 DEF ChainGrew
<1>7. QED BY <1>1, <1>5, <1>6

LEMMA PlacesKept ==
    ASSUME IInv, Linked, KnownWithin, KnownOnChain, [Next]_vars
    PROVE  KnownWithin' /\ KnownOnChain'
<1> DEFINE m == Len(chain)
           n == Len(chain')
<1>1. /\ m \in Nat /\ DOMAIN chain = 1..m /\ n \in Nat /\ DOMAIN chain' = 1..n
      /\ n = m \/ n = m + 1
      /\ \A i \in DOMAIN chain' : chain'[i].height = i
      /\ Forks \/ \A i \in DOMAIN chain : chain'[i] = chain[i]
  BY ChainLonger
<1>2. \A i \in 1..m : i \in 1..n
  <2>1. m \in Nat /\ (n = m \/ n = m + 1)
    BY <1>1
  <2>2. QED BY <2>1
<1>3. ASSUME NEW b \in Known' PROVE b.height \in 1..n /\ (Forks \/ OnChain(b)')
  <2>1. Old(b)
    BY KnownStep
  <2>2. CASE b \in Known
    <3>1. b.height \in 1..m /\ (Forks \/ OnChain(b))
      BY <2>2 DEF KnownWithin, KnownOnChain, Within
    <3>2. QED BY <1>1, <1>2, <3>1 DEF OnChain
  <2>3. CASE \E i \in DOMAIN chain' : b = chain'[i]
    BY <1>1, <2>3 DEF OnChain
  <2>4. QED BY <2>1, <2>2, <2>3 DEF Old
<1>4. QED BY <1>3 DEF KnownWithin, KnownOnChain, Within

LEMMA WatchedKept ==
    ASSUME IInv, WatchedIsMon, [Next]_vars
    PROVE  WatchedIsMon'
<1>1. ASSUME NEW t \in Tasks, ConnectMonitor(t) PROVE WatchedIsMon'
  <2>1. Head(task[t].blocks) \in Block
    BY <1>1, TaskFacts, FirstFields DEF ConnectMonitor, At, TaskOK
  <2>2. QED BY <1>1, <2>1, NoneAssumption DEF ConnectMonitor, WatchedIsMon
<1>2. ASSUME NEW t \in Tasks, TaskStep(t) PROVE WatchedIsMon'
  BY <1>1, <1>2 DEF TaskStep, ReadBest, ReadTip, ReadBlocks, Download, ConnectManager,
     SyncCompleted, WatchMonitors, StartBackground,
     ReplaceBackground, SendSynced, node, WatchedIsMon
<1>3. CASE OpenChannel
  BY <1>3, NoneAssumption DEF OpenChannel, IInv, TypeOK, WatchedIsMon
<1>4. CASE Subscriptions \/ Kit \/ PersistManager \/ Restart \/ Stopped \/ UNCHANGED vars
  BY <1>4 DEF Subscriptions, StateDelivered, BlockDelivered, Kit, NewBlock, Reorg,
     KitStateUpdated, PersistManager, Restart, Stopped, vars, node, WatchedIsMon
<1>5. QED BY <1>2, <1>3, <1>4 DEF Next

-----------------------------------------------------------------------------
(* The monitors no launch has read *)

\* Within one life of the process the manager's height never falls.
LEMMA BestGrows ==
    ASSUME IInv, [Next]_vars, ~Restart
    PROVE  best.height \in Nat /\ best'.height \in Nat /\ best.height <= best'.height
<1>0. best.height \in Nat
  BY DEF IInv, TypeOK, Block
<1>1. ASSUME NEW t \in Tasks, ConnectManager(t)
      PROVE  UNCHANGED best \/ best'.height = best.height + 1
  BY <1>1 DEF ConnectManager, Accepts
<1>2. ASSUME NEW t \in Tasks, TaskStep(t), ~ConnectManager(t) PROVE UNCHANGED best
  BY <1>2 DEF TaskStep, ReadBest, ReadTip, ReadBlocks, Download, ConnectMonitor,
     SyncCompleted, WatchMonitors, StartBackground, ReplaceBackground, SendSynced, node
<1>3. Subscriptions => UNCHANGED best
  BY DEF Subscriptions, StateDelivered, BlockDelivered, node
<1>4. Kit \/ OpenChannel \/ PersistManager \/ Stopped \/ UNCHANGED vars => UNCHANGED best
  BY DEF Kit, NewBlock, Reorg, KitStateUpdated, OpenChannel, PersistManager, Stopped,
     vars, node
<1>5. best' = best \/ best'.height = best.height + 1
  BY <1>1, <1>2, <1>3, <1>4 DEF Next
<1>6. best'.height = best.height \/ best'.height = best.height + 1
  BY <1>5
<1>7. QED BY <1>0, <1>6

\* Only a launch reads or leaves stored monitors, and what is stored of the manager
\* is as it is now.
LEMMA LeftStays ==
    ASSUME [Next]_vars, ~Restart
    PROVE  left' = left /\ saved' \in {saved, best}
<1>1. ASSUME NEW t \in Tasks, TaskStep(t) PROVE UNCHANGED <<left, saved>>
  BY <1>1 DEF TaskStep, ReadBest, ReadTip, ReadBlocks, Download, ConnectManager,
     ConnectMonitor, SyncCompleted, WatchMonitors, StartBackground, ReplaceBackground,
     SendSynced, node
<1>2. CASE Subscriptions \/ Kit \/ OpenChannel \/ PersistManager \/ Stopped \/ UNCHANGED vars
  BY <1>2 DEF Subscriptions, StateDelivered, BlockDelivered, Kit, NewBlock, Reorg,
     KitStateUpdated, OpenChannel, PersistManager, Stopped, vars, node
<1>3. QED BY <1>1, <1>2 DEF Next

LEMMA LeftKept ==
    ASSUME IInv, KnownWithin, LeftBehind, [Next]_vars
    PROVE  LeftBehind'
<1>1. CASE ~Restart
  <2>1. left' = left /\ saved' \in {saved, best}
    BY <1>1, LeftStays
  <2>2. best.height \in Nat /\ best'.height \in Nat /\ best.height <= best'.height
    BY <1>1, BestGrows
  <2>3. left # None => left.height \in Nat
    BY DEF IInv, TypeOK, Block
  <2>4. left # None => left.height <= best'.height
    BY <2>2, <2>3 DEF LeftBehind
  <2>5. left # None /\ saved' # None => left.height <= saved'.height
    BY <2>1 DEF LeftBehind
  <2>6. QED BY <2>1, <2>4, <2>5 DEF LeftBehind
<1>2. CASE Restart
  <2>1. CASE saved = None
    <3>1. /\ best' = Last(chain) /\ saved' = None /\ left' \in {None, mon, left}
      BY <1>2, <2>1 DEF Restart, OneOf
    <3>2. left' # None => left' \in Known
      BY <3>1, KnownMeans
    <3>3. Last(chain).height = Len(chain) /\ Len(chain) \in Nat
      BY ChainFacts
    <3>4. left' # None => left'.height <= Len(chain)
      BY <3>2, <3>3 DEF KnownWithin, Within
    <3>5. QED BY <3>1, <3>3, <3>4 DEF LeftBehind
  <2>2. CASE saved # None
    BY <1>2, <2>2 DEF Restart, LeftBehind
  <2>3. QED BY <2>1, <2>2
<1>3. QED BY <1>1, <1>2

-----------------------------------------------------------------------------
(* Why LDK panics *)

\* Two blocks of the chain with heights one apart: the upper builds on the lower.
LEMMA NextOnChain ==
    ASSUME IInv, Linked, NEW a, NEW b, OnChain(a), OnChain(b), b.height = a.height + 1
    PROVE  b.parent = a.id
<1>1. Len(chain) \in Nat /\ DOMAIN chain = 1..Len(chain)
  BY ChainFacts
<1>2. /\ a.height \in 1..Len(chain) /\ chain[a.height] = a
      /\ b.height \in 1..Len(chain) /\ chain[b.height] = b
  BY <1>1 DEF OnChain
<1>3. b.height > 1 /\ b.height - 1 = a.height
  BY <1>1, <1>2
<1>4. QED BY <1>1, <1>2, <1>3 DEF Linked

\* The block a task is about to connect.
LEMMA AtManager ==
    ASSUME IInv, NEW t \in Tasks, task[t].pc = "manager"
    PROVE  LET b == Head(task[t].blocks) IN
           /\ b = task[t].blocks[1] /\ b \in Block /\ best \in Block
           /\ b.height \in Nat /\ best.height \in Nat
           /\ b.height <= best.height + 1 /\ b \in Known /\ best \in Known
<1>1. /\ Head(task[t].blocks) = task[t].blocks[1] /\ task[t].blocks[1] \in Block
      /\ task[t].blocks[1].height \in Nat /\ 1 \in DOMAIN task[t].blocks
      /\ task[t].blocks[1].height <= best.height + 1
  BY TaskFacts, FirstFields, LenProperties DEF TaskOK
<1>2. best \in Block /\ best.height \in Nat
  BY DEF IInv, TypeOK, Block
<1>3. QED BY <1>1, <1>2, KnownMeans

\* Only the manager's listener can stop the process.
LEMMA OnlyManagerPanics ==
    ASSUME [Next]_vars
    PROVE  \/ \E t \in Tasks :
                 /\ task[t].pc = "manager" /\ ~Accepts(Head(task[t].blocks))
                 /\ UNCHANGED <<best, chain, task>> /\ status' = "panicked"
           \/ status' = "on"
           \/ UNCHANGED <<status, best, chain, task>>
<1>1. ASSUME NEW t \in Tasks, ConnectManager(t)
      PROVE  \/ /\ task[t].pc = "manager" /\ ~Accepts(Head(task[t].blocks))
                /\ UNCHANGED <<best, chain, task>> /\ status' = "panicked"
             \/ status' = "on"
  BY <1>1 DEF ConnectManager, At, On, kit
<1>2. ASSUME NEW t \in Tasks, TaskStep(t), ~ConnectManager(t) PROVE status' = "on"
  BY <1>2 DEF TaskStep, ReadBest, ReadTip, ReadBlocks, Download, ConnectMonitor,
     SyncCompleted, WatchMonitors, StartBackground, ReplaceBackground, SendSynced, At, On, app
<1>3. CASE Subscriptions \/ Kit \/ OpenChannel \/ PersistManager \/ Restart
  BY <1>3 DEF Subscriptions, StateDelivered, BlockDelivered, Kit, NewBlock, Reorg,
     KitStateUpdated, OpenChannel, PersistManager, Restart, On, app
<1>4. CASE Stopped \/ UNCHANGED vars
  BY <1>4 DEF Stopped, vars, app, node, kit
<1>5. QED BY <1>1, <1>2, <1>3, <1>4 DEF Next

LEMMA PanicStep ==
    ASSUME IInv, Linked, PanicIsRepeatOrFork, [Next]_vars
    PROVE  PanicIsRepeatOrFork'
<1>1. ASSUME NEW t \in Tasks, task[t].pc = "manager", ~Accepts(Head(task[t].blocks)),
             UNCHANGED <<best, chain, task>>
      PROVE  PanicIsRepeatOrFork'
  <2> DEFINE b == Head(task[t].blocks)
  <2>1. b.height \in Nat /\ best.height \in Nat /\ b.height <= best.height + 1
    BY <1>1, AtManager
  <2>2. b.height <= best.height \/ b.height = best.height + 1
    BY <2>1
  <2>3. b.height <= best.height \/ ~OnChain(best) \/ ~OnChain(b)
    BY <1>1, <2>2, NextOnChain DEF Accepts
  <2>4. QED BY <1>1, <2>3 DEF PanicIsRepeatOrFork, OnChain
<1>2. CASE status' = "on"
  BY <1>2 DEF PanicIsRepeatOrFork, On
<1>3. CASE UNCHANGED <<status, best, chain, task>>
  BY <1>3 DEF PanicIsRepeatOrFork, On, OnChain
<1>4. QED BY <1>1, <1>2, <1>3, OnlyManagerPanics

LEMMA FollowInit == Init => FollowInv
<1> SUFFICES ASSUME Init PROVE FollowInv
  OBVIOUS
<1>1. /\ chain = <<FirstBlock>> /\ Len(chain) = 1 /\ DOMAIN chain = {1} /\ chain[1] = FirstBlock
      /\ FirstBlock.height = 1
  BY DEF Init, FirstBlock
<1>2. Idle.blocks = <<>> /\ DOMAIN <<>> = {}
  BY EmptySeq DEF Idle
<1>3. \A b \in Known : b = FirstBlock
  BY <1>2, KnownMeans DEF Init
<1>4. Linked
  BY <1>1 DEF Linked
<1>5. KnownWithin /\ KnownOnChain
  BY <1>1, <1>3 DEF KnownWithin, KnownOnChain, Within, OnChain
<1>6. WatchedIsMon /\ LeftBehind /\ PanicIsRepeatOrFork
  BY DEF Init, WatchedIsMon, LeftBehind, PanicIsRepeatOrFork, On
<1>7. QED BY <1>4, <1>5, <1>6 DEF FollowInv

LEMMA FollowStep == IInv /\ FollowInv /\ [Next]_vars => FollowInv'
BY ChainLonger, PlacesKept, WatchedKept, LeftKept, PanicStep DEF FollowInv

\* Whatever the service holds came from the kit's chain, and a panic is explained.
THEOREM BlocksFromChain == Spec => [](IInv /\ FollowInv)
<1>1. Init => IInv /\ FollowInv
  BY InitialState, FollowInit
<1>2. IInv /\ FollowInv /\ [Next]_vars => IInv' /\ FollowInv'
  BY InductiveStep, FollowStep
<1>3. QED BY <1>1, <1>2, PTL DEF Spec

\* LDK panics over a block only when the manager has one of that height already or
\* a longer branch took one of the two off the chain: never because of a gap.
THEOREM PanicCause == Spec => []PanicIsRepeatOrFork
<1>1. FollowInv => PanicIsRepeatOrFork
  BY DEF FollowInv
<1>2. QED BY <1>1, BlocksFromChain, PTL

\* While no branch loses, every panic repeats a height the manager has.
PanicIsRepeat ==
    ~On => \E t \in Tasks : task[t].pc = "manager" /\ Head(task[t].blocks).height <= best.height
THEOREM PanicWithoutForks == ASSUME ~Forks PROVE Spec => []PanicIsRepeat
<1>1. IInv /\ FollowInv => PanicIsRepeat
  <2> SUFFICES ASSUME IInv, FollowInv, ~On
               PROVE  \E t \in Tasks : /\ task[t].pc = "manager"
                                       /\ Head(task[t].blocks).height <= best.height
    BY DEF PanicIsRepeat
  <2>1. PICK t \in Tasks :
          /\ task[t].pc = "manager"
          /\ \/ Head(task[t].blocks).height <= best.height
             \/ ~OnChain(best) \/ ~OnChain(Head(task[t].blocks))
    BY DEF FollowInv, PanicIsRepeatOrFork
  <2>2. OnChain(best) /\ OnChain(Head(task[t].blocks))
    BY <2>1, AtManager DEF FollowInv, KnownOnChain
  <2>3. QED BY <2>1, <2>2
<1>2. QED BY <1>1, BlocksFromChain, PTL

-----------------------------------------------------------------------------
(* ChainSync implements ChainFollow *)

LEMMA HeightsTyped ==
    ASSUME IInv, FollowInv
    PROVE  /\ Len(chain) \in Nat /\ DOMAIN chain = 1..Len(chain)
           /\ best.height \in 1..Len(chain) /\ best # None
           /\ saved # None => saved.height \in 1..Len(chain)
           /\ mon # None => mon.height \in 1..Len(chain)
           /\ left # None => left.height \in 1..Len(chain)
<1>1. Len(chain) \in Nat /\ DOMAIN chain = 1..Len(chain)
  BY ChainFacts
<1>2. best # None
  BY NoneAssumption DEF IInv, TypeOK
<1>3. best \in Known /\ (saved # None => saved \in Known) /\ (mon # None => mon \in Known)
      /\ (left # None => left \in Known)
  BY KnownMeans
<1>4. QED BY <1>1, <1>2, <1>3 DEF FollowInv, KnownWithin, Within

LEMMA HeightZero ==
    ASSUME IInv, FollowInv
    PROVE  (HeightOf(saved) = 0 <=> saved = None) /\ (HeightOf(mon) = 0 <=> mon = None)
<1>1. \A h \in 1..Len(chain) : h # 0
  BY HeightsTyped
<1>2. QED BY <1>1, HeightsTyped DEF HeightOf

LEMMA FollowInitMapped == Init => Follow!Init
<1>1. SUFFICES ASSUME Init PROVE Follow!Init
  OBVIOUS
<1>2. chain = <<FirstBlock>> /\ Len(chain) = 1 /\ best.height = 1
  BY <1>1 DEF Init, FirstBlock
<1>3. QED BY <1>1, <1>2 DEF Init, Follow!Init, HeightOf

\* The manager connects a block: it rises by one, to a height the chain has.
LEMMA ConnectMapped ==
    ASSUME IInv, FollowInv, NEW t \in Tasks, ConnectManager(t)
    PROVE  Follow!Connect \/ UNCHANGED Follow!vars
<1> DEFINE b == Head(task[t].blocks)
<1>1. UNCHANGED <<chain, saved, mon>> /\ task[t].pc = "manager"
  BY DEF ConnectManager, At, kit
<1>2. CASE Accepts(b)
  <2>1. best' = b /\ b.height = best.height + 1
    BY <1>2 DEF ConnectManager, Accepts
  <2>2. b.height \in 1..Len(chain) /\ best.height \in 1..Len(chain)
    BY <1>1, AtManager DEF FollowInv, KnownWithin, Within
  <2>3. Len(chain) \in Nat
    BY HeightsTyped
  <2>4. best.height < Len(chain)
    BY <2>1, <2>2, <2>3
  <2>5. QED BY <1>1, <2>1, <2>4 DEF Follow!Connect, HeightOf
<1>3. CASE ~Accepts(b)
  <2>1. UNCHANGED best
    BY <1>3 DEF ConnectManager
  <2>2. QED BY <1>1, <2>1 DEF Follow!vars, HeightOf
<1>4. QED BY <1>2, <1>3

\* The monitor is given a block: one the manager has had.
LEMMA GiveMapped ==
    ASSUME IInv, FollowInv, NEW t \in Tasks, ConnectMonitor(t)
    PROVE  Follow!Give \/ UNCHANGED Follow!vars
<1> DEFINE b == Head(task[t].blocks)
<1>1. /\ UNCHANGED <<chain, saved, best>> /\ task[t].pc = "monitor"
      /\ mon' = IF watched THEN b ELSE mon
  BY DEF ConnectMonitor, At, kit
<1>2. /\ b = task[t].blocks[1] /\ b \in Block /\ b.height <= best.height /\ b \in Known
  <2>1. /\ b = task[t].blocks[1] /\ task[t].blocks[1] \in Block /\ 1 \in DOMAIN task[t].blocks
        /\ task[t].blocks[1].height <= best.height
    BY <1>1, TaskFacts, FirstFields, LenProperties DEF TaskOK
  <2>2. QED BY <2>1, KnownMeans
<1>3. /\ b.height \in 1..Len(chain) /\ best.height \in 1..Len(chain) /\ Len(chain) \in Nat
      /\ b # None
  BY <1>2, HeightsTyped, NoneAssumption DEF FollowInv, KnownWithin, Within
<1>4. b.height \in 1..best.height
  <2>1. \A n \in Nat : \A h, k \in 1..n : h <= k => h \in 1..k
    OBVIOUS
  <2>2. QED BY <1>2, <1>3, <2>1
<1>5. CASE watched
  <2>1. HeightOf(mon) # 0 /\ HeightOf(mon') = b.height
    BY <1>1, <1>3, <1>5, HeightZero DEF HeightOf, FollowInv, WatchedIsMon
  <2>2. QED BY <1>1, <1>4, <2>1 DEF Follow!Give, HeightOf
<1>6. CASE ~watched
  BY <1>1, <1>6 DEF Follow!vars, HeightOf
<1>7. QED BY <1>5, <1>6

\* A launch goes back to what was stored.
LEMMA LaunchMapped ==
    ASSUME IInv, FollowInv, Restart
    PROVE  Follow!Launch
<1>1. UNCHANGED <<chain, saved>> /\ mon' \in StoredMonitors
      /\ best' = IF saved = None THEN Last(chain) ELSE saved
  BY DEF Restart
<1>2. Last(chain).height = Len(chain)
  BY ChainFacts
<1>3. CASE saved = None
  BY <1>1, <1>2, <1>3 DEF Follow!Launch, HeightOf, StoredMonitors
<1>4. CASE saved # None
  <2>1. HeightOf(saved) # 0 /\ HeightOf(saved) = saved.height /\ best' = saved
    BY <1>1, <1>4, HeightZero DEF HeightOf
  <2>2. mon' = mon \/ (mon' = left /\ left # None)
    BY <1>1, <1>4 DEF StoredMonitors, OneOf
  <2>3. CASE mon' = mon
    BY <1>1, <2>1, <2>3 DEF Follow!Launch, HeightOf
  <2>4. CASE mon' = left /\ left # None
    <3>1. /\ left.height \in 1..Len(chain) /\ saved.height \in 1..Len(chain)
          /\ Len(chain) \in Nat /\ left.height <= saved.height
      BY <1>4, <2>4, HeightsTyped DEF FollowInv, LeftBehind
    <3>2. left.height \in 1..saved.height
      <4>1. \A n \in Nat : \A h, k \in 1..n : h <= k => h \in 1..k
        OBVIOUS
      <4>2. QED BY <3>1, <4>1
    <3>3. HeightOf(mon') = left.height
      BY <2>4 DEF HeightOf
    <3>4. QED BY <1>1, <2>1, <3>2, <3>3 DEF Follow!Launch
  <2>5. QED BY <2>2, <2>3, <2>4
<1>5. QED BY <1>3, <1>4

LEMMA StepMapped ==
    ASSUME IInv, FollowInv, [Next]_vars
    PROVE  [Follow!Next]_Follow!vars
<1>1. ASSUME NEW t \in Tasks, TaskStep(t) PROVE Follow!Next \/ UNCHANGED Follow!vars
  <2>1. CASE ConnectManager(t) \/ ConnectMonitor(t)
    BY <2>1, ConnectMapped, GiveMapped DEF Follow!Next
  <2>2. CASE ~ConnectManager(t) /\ ~ConnectMonitor(t)
    <3>1. UNCHANGED <<chain, best, saved, mon>>
      BY <1>1, <2>2 DEF TaskStep, ReadBest, ReadTip, ReadBlocks, Download, SyncCompleted,
         WatchMonitors, StartBackground, ReplaceBackground, SendSynced, kit, node
    <3>2. QED BY <3>1 DEF Follow!vars, HeightOf
  <2>3. QED BY <2>1, <2>2
<1>2. CASE NewBlock \/ Reorg
  <2>1. ChainGrew /\ UNCHANGED node
    BY <1>2, NewBlockGrows, ReorgGrows DEF FollowInv, NewBlock, Reorg
  <2>2. QED BY <2>1 DEF ChainGrew, node, Follow!Next, Follow!Grow, HeightOf
<1>3. CASE OpenChannel
  <2>1. /\ UNCHANGED <<chain, best, saved>> /\ mon' = best
        /\ HeightOf(mon) = 0 /\ HeightOf(mon') = best.height
    BY <1>3, HeightZero, HeightsTyped DEF OpenChannel, HeightOf, kit
  <2>2. QED BY <2>1 DEF Follow!Next, Follow!Open, HeightOf
<1>4. CASE PersistManager
  <2>1. UNCHANGED <<chain, best, mon>> /\ saved' = best /\ HeightOf(saved') = best.height
    BY <1>4, HeightsTyped DEF PersistManager, HeightOf, kit
  <2>2. QED BY <2>1 DEF Follow!Next, Follow!Store, HeightOf
<1>5. CASE Restart
  BY <1>5, LaunchMapped DEF Follow!Next
<1>6. CASE Subscriptions \/ (\E s \in States : KitStateUpdated(s)) \/ Stopped \/ UNCHANGED vars
  <2>1. UNCHANGED <<chain, best, saved, mon>>
    BY <1>6 DEF Subscriptions, StateDelivered, BlockDelivered, KitStateUpdated, Stopped,
       vars, kit, node
  <2>2. QED BY <2>1 DEF Follow!vars, HeightOf
<1>7. QED BY <1>1, <1>2, <1>3, <1>4, <1>5, <1>6 DEF Next, Kit

\* Whatever tasks overlap, fail or start late, and whatever blocks are dropped or
\* replaced, heights move only as ChainFollow promises.
THEOREM ImplementsChainFollow == Spec => FollowsChain
<1>1. IInv /\ FollowInv /\ [Next]_vars => [Follow!Next]_Follow!vars
  BY StepMapped
<1>2. QED BY <1>1, FollowInitMapped, BlocksFromChain, PTL DEF Spec, FollowsChain, Follow!Spec

-----------------------------------------------------------------------------
(* What a sync that ends has done, and that every task ends *)

\* What can happen to a task but for a launch.
LEMMA TaskFate ==
    ASSUME IInv, NEW t \in Tasks, [Next]_vars, ~Restart
    PROVE  \/ TaskStep(t)
           \/ task'[t] = task[t]
           \/ task[t] = Idle /\ \E k, bs : task'[t] = NewTask(k, bs)
<1>0. task \in [Tasks -> Task]
  BY DEF IInv, TypeOK
<1>1. ASSUME NEW u \in Tasks, TaskStep(u), u # t PROVE task'[t] = task[t]
  BY <1>0, <1>1 DEF TaskStep, ReadBest, ReadTip, ReadBlocks, Download, ConnectManager,
     ConnectMonitor, SyncCompleted, WatchMonitors, StartBackground,
     ReplaceBackground, SendSynced, SameTask,
     Goto, End
<1>2. ASSUME NEW k, NEW bs, Spawn(k, bs)
      PROVE  task'[t] = task[t] \/ (task[t] = Idle /\ task'[t] = NewTask(k, bs))
  BY <1>0, <1>2 DEF Spawn
<1>3. CASE Subscriptions
  BY <1>2, <1>3 DEF Subscriptions, StateDelivered, BlockDelivered
<1>4. CASE Kit \/ OpenChannel \/ PersistManager \/ Stopped \/ UNCHANGED vars
  BY <1>4 DEF Kit, NewBlock, Reorg, KitStateUpdated, OpenChannel, PersistManager, Stopped, vars
<1>5. QED BY <1>1, <1>3, <1>4 DEF Next

LEMMA ReachesTaskStep ==
    ASSUME IInv, NEW t \in Tasks, Reaches(t), TaskStep(t), best'.height \in Nat,
           best.height <= best'.height
    PROVE  Reaches(t)'
<1>0. /\ task[t] \in Task /\ task \in [Tasks -> Task] /\ TaskOK(t)
      /\ task[t].blocks \in Seq(Block) /\ best.height \in Nat
      /\ task[t].low \in Nat /\ task[t].high \in Nat /\ Len(task[t].blocks) \in Nat
      /\ task[t].blocks # <<>> => /\ Head(task[t].blocks) = task[t].blocks[1]
                                  /\ task[t].blocks[1].height \in Nat
  BY TaskFacts, LenProperties DEF IInv, TypeOK
<1>1. Idle.pc = "idle" /\ Idle.kind = "none" /\ Idle.high = 0
  BY DEF Idle
<1>2. CASE ReadBest(t)
  BY <1>0, <1>1, <1>2 DEF ReadBest, Goto, End, At, Reaches, Task
<1>3. CASE ReadTip(t)
  BY <1>0, <1>3 DEF ReadTip, At, Reaches, Task
<1>4. CASE ReadBlocks(t)
  <2> DEFINE low == task[t].low
             high == task[t].high
             bs == MissingBlocks(t)
  <2>1. /\ task[t].pc = "range" /\ task'[t].pc = "fetch" /\ task'[t].blocks = bs
        /\ task'[t].high = high /\ task'[t].kind = "sync" /\ UNCHANGED <<best, chain>>
    BY <1>0, <1>4 DEF ReadBlocks, At, Reaches, Task, kit, node
  <2>2. low \in Nat /\ high \in 0..Len(chain) /\ low <= best.height
    BY <2>1, TaskFacts DEF TaskOK
  <2>3. chain \in Seq(Block) /\ chain # <<>> /\ Consecutive(chain) /\ chain[1].height = 1
    BY ChainFacts DEF IInv, TypeOK, Consecutive
  <2>4. bs \in Seq(Block) /\ (bs # <<>> => bs[1].height = 1 + low)
    BY <2>2, <2>3, ConsecutivePart DEF MissingBlocks
  <2>5. Len(bs) = IF low + 1 <= high THEN high - low ELSE 0
    BY <2>2, <2>3, SMTT(30) DEF MissingBlocks
  <2> HIDE DEF bs
  <2>6. bs = <<>> \/ low + 1 <= high
    BY <2>4, <2>5, EmptySeq
  <2>7. bs # <<>> \/ ~(low + 1 <= high)
    BY <2>2, <2>5, EmptySeq
  <2>8. bs # <<>> => bs[1].height + Len(bs) = high + 1
    BY <2>2, <2>4, <2>5, <2>6
  <2>9. bs = <<>> => best.height >= high
    BY <1>0, <2>2, <2>7
  <2>10. QED BY <2>1, <2>8, <2>9 DEF Reaches
<1>5. CASE Download(t)
  BY <1>0, <1>1, <1>5 DEF Download, FirstListener, HasBlock, Goto, End, At, Reaches, Task
<1>6. CASE ConnectManager(t)
  BY <1>0, <1>6 DEF ConnectManager, SameTask, Goto, At, Reaches, Task
<1>7. CASE ConnectMonitor(t)
  <2> DEFINE bs == task[t].blocks
  <2>1. /\ task[t].pc = "monitor" /\ bs # <<>> /\ Consecutive(bs) /\ best' = best
        /\ bs[1].height <= best.height
    BY <1>0, <1>7 DEF ConnectMonitor, At, TaskOK
  <2>2. CASE task[t].kind = "sync"
    <3>1. /\ task'[t].pc = "fetch" /\ task'[t].blocks = Tail(bs)
          /\ task'[t].high = task[t].high /\ task'[t].kind = "sync"
      BY <1>0, <1>7, <2>2 DEF ConnectMonitor, Task
    <3>2. bs[1].height + Len(bs) = task[t].high + 1
      BY <2>1, <2>2 DEF Reaches
    <3>3. /\ Tail(bs) \in Seq(Block) /\ Len(Tail(bs)) = Len(bs) - 1
          /\ Tail(bs) # <<>> => Tail(bs)[1].height = bs[1].height + 1
      BY <1>0, <2>1, ConsecutiveTail, HeadTailProperties
    <3>4. Tail(bs) = <<>> => Len(bs) = 1
      <4>1. Len(bs) \in Nat /\ Len(Tail(bs)) = Len(bs) - 1
        BY <1>0, <3>3
      <4>2. Tail(bs) = <<>> => Len(Tail(bs)) = 0
        BY EmptySeq
      <4> DEFINE n == Len(bs)
      <4> HIDE DEF n
      <4>3. n \in Nat /\ n - 1 = 0 => n = 1
        OBVIOUS
      <4>4. QED BY <4>1, <4>2, <4>3 DEF n
    <3> DEFINE rest == Tail(bs)
               h == bs[1].height
    <3>5. h \in Nat /\ Len(bs) \in Nat /\ task[t].high \in Nat
      BY <1>0, <2>1
    <3> HIDE DEF bs, rest, h
    <3>6. rest # <<>> => rest[1].height + Len(rest) = task[t].high + 1
      <4>1. (h + 1) + (Len(bs) - 1) = h + Len(bs)
        BY <3>5
      <4>2. QED BY <3>2, <3>3, <4>1 DEF h, rest
    <3>7. rest = <<>> => best.height >= task[t].high
      <4>1. h + 1 = task[t].high + 1 => h = task[t].high
        BY <3>5
      <4>2. QED BY <1>0, <2>1, <3>2, <3>4, <4>1 DEF h, rest
    <3>8. QED BY <2>1, <3>1, <3>6, <3>7 DEF Reaches, rest
  <2>3. CASE task[t].kind # "sync"
    BY <1>0, <1>1, <1>7, <2>3 DEF ConnectMonitor, End, Reaches
  <2>4. QED BY <2>2, <2>3
<1>8. CASE SyncCompleted(t)
  BY <1>0, <1>8 DEF SyncCompleted, HasBlock, Goto, At, Reaches, Task, node
<1>9. CASE WatchMonitors(t) \/ StartBackground(t) \/ ReplaceBackground(t)
  <2>1. /\ task[t].pc \in {"watch", "background", "replace"}
        /\ task'[t].pc \in {"background", "replace", "synced"}
        /\ task'[t].high = task[t].high /\ task'[t].kind = task[t].kind
    BY <1>0, <1>9 DEF WatchMonitors, StartBackground, ReplaceBackground, Goto, At, Task
  <2>2. best.height >= task[t].high
    BY <2>1 DEF Reaches
  <2>3. best'.height >= task'[t].high
    BY <1>0, <2>1, <2>2
  <2>4. QED BY <2>1, <2>3 DEF Reaches
<1>11. CASE SendSynced(t)
  BY <1>0, <1>1, <1>11 DEF SendSynced, End, Reaches
<1>10. QED BY <1>2, <1>3, <1>4, <1>5, <1>6, <1>7, <1>8, <1>9, <1>11 DEF TaskStep

LEMMA ReachesStep ==
    ASSUME IInv, AllReach, [Next]_vars
    PROVE  AllReach'
<1> SUFFICES ASSUME NEW t \in Tasks PROVE Reaches(t)'
  BY DEF AllReach
<1>1. CASE Restart
  BY <1>1 DEF Restart, Reaches, Idle
<1>2. CASE ~Restart
  <2>1. /\ Reaches(t) /\ task[t].high \in Nat
        /\ best.height \in Nat /\ best'.height \in Nat /\ best.height <= best'.height
    BY <1>2, BestGrows, TaskFacts DEF AllReach
  <2>2. CASE TaskStep(t)
    BY <2>1, <2>2, ReachesTaskStep
  <2>3. CASE task'[t] = task[t]
    BY <2>1, <2>3 DEF Reaches
  <2>4. ASSUME NEW k, NEW bs, task'[t] = NewTask(k, bs) PROVE Reaches(t)'
    <3>1. NewTask(k, bs).pc = "start" /\ NewTask(k, bs).high = 0
      BY DEF NewTask, Idle
    <3>2. QED BY <2>4, <3>1 DEF Reaches
  <2>5. QED BY <1>2, <2>2, <2>3, <2>4, TaskFate
<1>3. QED BY <1>1, <1>2

\* A sync that gets to its end has brought the manager to the tip it read before its
\* downloads, for any tasks beside it and any forks: with TasksRunDown this is the part
\* of ResyncHeals that needs no fairness.
THEOREM SyncsReachTheTip == Spec => []SyncReachesTip
<1>1. Init => IInv /\ AllReach
  <2>1. Init => AllReach
    BY DEF Init, AllReach, Reaches, Idle
  <2>2. QED BY <2>1, InitialState
<1>2. IInv /\ AllReach /\ [Next]_vars => IInv' /\ AllReach'
  BY InductiveStep, ReachesStep
<1>3. IInv /\ AllReach => SyncReachesTip
  BY DEF AllReach, Reaches, SyncReachesTip
<1>4. QED BY <1>1, <1>2, <1>3, PTL DEF Spec

LEMMA TaskLowers ==
    ASSUME IInv, NEW t \in Tasks, TaskStep(t)
    PROVE  task'[t] = Idle \/ Lower(t) \/ (task'[t] = task[t] /\ ~On')
<1>0. /\ task[t] \in Task /\ task \in [Tasks -> Task] /\ task[t].kind \in {"none", "sync", "block"}
      /\ task[t].blocks \in Seq(Block) /\ Len(task[t].blocks) \in Nat
  BY TaskFacts, LenProperties DEF IInv, TypeOK
<1> DEFINE From(p) == task[t].pc = p
           To(p)   == task'[t].pc = p
           Same    == task'[t].blocks = task[t].blocks
<1>1. ASSUME ReadBest(t) PROVE task'[t] = Idle \/ (From("start") /\ (To("tip") \/ To("fetch")))
  BY <1>0, <1>1 DEF ReadBest, Goto, End, At, Task
<1>2. ASSUME ReadTip(t) PROVE From("tip") /\ To("range")
  BY <1>0, <1>2 DEF ReadTip, At, Task
<1>3. ASSUME ReadBlocks(t) PROVE From("range") /\ To("fetch")
  BY <1>0, <1>3 DEF ReadBlocks, At, Task
<1>4. ASSUME Download(t) PROVE task'[t] = Idle \/ (From("fetch") /\ To("manager") /\ Same)
  BY <1>0, <1>4 DEF Download, FirstListener, Goto, End, At, Task
<1>5. ASSUME ConnectManager(t)
      PROVE  \/ From("manager") /\ To("monitor") /\ Same
             \/ task'[t] = task[t] /\ ~On'
  BY <1>0, <1>5 DEF ConnectManager, SameTask, Goto, At, On, Task
<1>6. ASSUME ConnectMonitor(t)
      PROVE  \/ task'[t] = Idle
             \/ /\ From("monitor") /\ To("fetch")
                /\ Len(task'[t].blocks) = Len(task[t].blocks) - 1
  <2>1. Len(Tail(task[t].blocks)) = Len(task[t].blocks) - 1
    <3>1. task[t].blocks # <<>>
      BY <1>6, TaskFacts DEF ConnectMonitor, At, TaskOK
    <3>2. QED BY <1>0, <3>1, HeadTailProperties
  <2>2. \/ task'[t] = Idle
        \/ From("monitor") /\ To("fetch") /\ task'[t].blocks = Tail(task[t].blocks)
    BY <1>0, <1>6 DEF ConnectMonitor, End, At, Task
  <2>3. QED BY <2>1, <2>2
<1>7. ASSUME SyncCompleted(t) PROVE From("fetch") /\ (To("watch") \/ To("synced"))
  BY <1>0, <1>7 DEF SyncCompleted, Goto, At, Task
<1>8. ASSUME WatchMonitors(t) PROVE From("watch") /\ To("background")
  BY <1>0, <1>8 DEF WatchMonitors, Goto, At, Task
<1>9. ASSUME StartBackground(t) PROVE From("background") /\ To("replace")
  BY <1>0, <1>9 DEF StartBackground, Goto, At, Task
<1>14. ASSUME ReplaceBackground(t) PROVE From("replace") /\ To("synced")
  BY <1>0, <1>14 DEF ReplaceBackground, Goto, At, Task
<1>10. ASSUME SendSynced(t) PROVE task'[t] = Idle
  BY <1>0, <1>10 DEF SendSynced, End
<1>11. ASSUME \/ From("start") /\ (To("tip") \/ To("fetch"))
              \/ From("tip") /\ To("range")
              \/ From("range") /\ To("fetch")
              \/ From("fetch") /\ (To("watch") \/ To("synced"))
              \/ From("watch") /\ To("background")
              \/ From("background") /\ To("replace")
              \/ From("replace") /\ To("synced")
       PROVE  Lower(t)
  <2>1. Stage(t)' < Stage(t)
    BY <1>11 DEF Stage
  <2>2. QED BY <2>1 DEF Lower
<1>12. ASSUME \/ From("fetch") /\ To("manager") /\ Same
              \/ From("manager") /\ To("monitor") /\ Same
              \/ /\ From("monitor") /\ To("fetch")
                 /\ Len(task'[t].blocks) = Len(task[t].blocks) - 1
       PROVE  Lower(t)
  <2>1. Stage(t) = 5 /\ Stage(t)' = 5
    BY <1>12 DEF Stage
  <2> DEFINE n == Len(task[t].blocks)
             m == Len(task'[t].blocks)
  <2>2. \/ Work(t) = 3 * n + 2 /\ Work(t)' = 3 * m + 1 /\ m = n
        \/ Work(t) = 3 * n + 1 /\ Work(t)' = 3 * m + 0 /\ m = n
        \/ Work(t) = 3 * n + 0 /\ Work(t)' = 3 * m + 2 /\ m = n - 1
    BY <1>12 DEF Work
  <2>3. n \in Nat
    BY <1>0
  <2> HIDE DEF n, m
  <2>4. Work(t)' < Work(t)
    BY <2>2, <2>3
  <2>5. QED BY <2>1, <2>4 DEF Lower
<1>13. QED
  BY <1>1, <1>2, <1>3, <1>4, <1>5, <1>6, <1>7, <1>8, <1>9, <1>10, <1>11, <1>12, <1>14
  DEF TaskStep

\* No task runs for ever: a task under way is left alone, ends, or has less before it
\* than it had, however many tasks, blocks and forks there are, and a step of its own
\* leaves it alone only when LDK panics.  The order is well founded, so that with the
\* fairness of FairSpec every task ends.
TasksRunDown ==
    [][\A t \in Tasks : task[t] # Idle =>
          \/ task'[t] = Idle
          \/ Lower(t)
          \/ task'[t] = task[t] /\ ~(TaskStep(t) /\ On')]_vars
THEOREM TasksEnd == Spec => TasksRunDown
<1>1. ASSUME IInv, [Next]_vars, NEW t \in Tasks, task[t] # Idle
      PROVE  \/ task'[t] = Idle
             \/ Lower(t)
             \/ task'[t] = task[t] /\ ~(TaskStep(t) /\ On')
  <2>1. CASE TaskStep(t)
    BY <1>1, <2>1, TaskLowers
  <2>2. CASE ~TaskStep(t) /\ ~Restart
    BY <1>1, <2>2, TaskFate
  <2>3. CASE Restart
    BY <2>3 DEF Restart
  <2>4. QED BY <2>1, <2>2, <2>3
<1>2. IInv /\ [Next]_vars =>
        [\A t \in Tasks : task[t] # Idle =>
            \/ task'[t] = Idle
            \/ Lower(t)
            \/ task'[t] = task[t] /\ ~(TaskStep(t) /\ On')]_vars
  BY <1>1
<1>3. QED BY <1>2, Inductive, PTL DEF Spec, TasksRunDown
=============================================================================
