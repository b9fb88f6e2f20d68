---------------------------- MODULE ChainSyncProofs ----------------------------
(***************************************************************************)
(* Proofs about ChainSync, for any number of tasks, blocks, launches and   *)
(* forks.  The height a task read before its awaits may be stale when it   *)
(* uses it; what makes it safe is that the manager's height only grows     *)
(* while the task lives (TaskOK), and that its blocks are consecutive.     *)
(***************************************************************************)
EXTENDS ChainSync, SequenceTheorems, TLAPS

\* The kit's chain has one block for each height.
ChainHeights == \A i \in DOMAIN chain : chain[i].height = i

\* What a task holds is at most one block ahead of the manager, in every phase.
Consecutive(s) == \A i \in DOMAIN s : s[i].height = s[1].height + (i - 1)
TaskOK(t) ==
    LET pc == task[t].pc
        bs == task[t].blocks IN
    /\ Consecutive(bs)
    /\ pc \in {"tip", "range"} => task[t].low <= best.height
    /\ pc = "range" => task[t].high <= Len(chain)
    /\ pc \in {"fetch", "manager"} /\ bs # <<>> => bs[1].height <= best.height + 1
    /\ pc \in {"manager", "monitor"} => bs # <<>>
    /\ pc = "monitor" => bs[1].height <= best.height
TasksOK == \A t \in Tasks : TaskOK(t)

\* While a background processor runs, or a task is about to start one, every
\* monitor is watched.
WatchedFor(b) == b => (mon # None => watched)

\* The processor the constructor holds runs, one about to be assigned runs beside
\* it, and the assignment that stops the one cannot stop the other.
ProcessorOf(t) ==
    LET pc == task[t].pc IN
    /\ WatchedFor(pc = "background")
    /\ pc = "replace" => t \in processors
    /\ pc = "synced" => processors # {}
    /\ background = t => pc \notin {"watch", "background", "replace"}
Watching ==
    /\ WatchedFor(processors # {})
    /\ synced => processors # {}
    /\ background # None => background \in processors
    /\ \A t \in Tasks : ProcessorOf(t)

IInv == TypeOK /\ ChainHeights /\ TasksOK /\ NothingOwed /\ Watching

-----------------------------------------------------------------------------
(* Sequences of blocks *)

\* What a sequence of blocks holds.
LEMMA BlockFields ==
    ASSUME NEW s \in Seq(Block), NEW i \in 1..Len(s)
    PROVE  s[i] \in Block /\ s[i].id \in Nat /\ s[i].parent \in Nat /\ s[i].height \in Nat
<1>1. s[i] \in Block
  BY ElementOfSeq
<1>2. QED BY <1>1 DEF Block

\* A block that builds on another.
LEMMA ChildFields ==
    ASSUME NEW b \in Block, NEW id \in Nat
    PROVE  Child(b, id) \in Block /\ Child(b, id).height = b.height + 1
BY DEF Child, Block

\* The first of a sequence of blocks.
LEMMA FirstFields ==
    ASSUME NEW s \in Seq(Block), s # <<>>
    PROVE  /\ Head(s) = s[1] /\ s[1] \in Block /\ s[1].id \in Nat /\ s[1].height \in Nat
           /\ 1 \in 1..Len(s)
<1>1. Len(s) \in Nat \ {0}
  BY EmptySeq
<1>2. 1 \in 1..Len(s) /\ Head(s) = s[1]
  BY <1>1
<1>3. QED BY <1>2, BlockFields

\* Sequences keep consecutive heights when a part is taken.
LEMMA ConsecutivePart ==
    ASSUME NEW s \in Seq(Block), Consecutive(s), NEW m \in Nat, NEW n \in 0..Len(s)
    PROVE  /\ SubSeq(s, m + 1, n) \in Seq(Block)
           /\ Consecutive(SubSeq(s, m + 1, n))
           /\ SubSeq(s, m + 1, n) # <<>> => SubSeq(s, m + 1, n)[1].height = s[1].height + m
<1>1. Len(s) \in Nat /\ DOMAIN s = 1..Len(s)
  BY LenProperties
<1> DEFINE u == SubSeq(s, m + 1, n)
<1>2. /\ u \in Seq(Block)
      /\ Len(u) = IF m + 1 <= n THEN n - m ELSE 0
      /\ \A i \in 1..Len(u) : u[i] = s[m + i]
  BY <1>1, SMTT(30)
<1> HIDE DEF u
<1>3. Len(u) \in Nat /\ DOMAIN u = 1..Len(u)
  BY <1>2, LenProperties
<1>4. \A i \in 1..Len(u) : m + i \in DOMAIN s /\ u[i].height = s[1].height + (m + i - 1)
  BY <1>1, <1>2, <1>3, SMTT(30) DEF Consecutive
<1>5. s # <<>> => s[1].height \in Nat
  BY FirstFields
<1>6. u # <<>> => s # <<>> /\ 1 \in 1..Len(u)
  BY <1>1, <1>2, <1>3, EmptySeq
<1>7. u # <<>> => u[1].height = s[1].height + m
  BY <1>4, <1>5, <1>6
<1>8. Consecutive(u)
  <2> SUFFICES ASSUME NEW i \in DOMAIN u PROVE u[i].height = u[1].height + (i - 1)
    BY DEF Consecutive
  <2>1. u # <<>> /\ i \in 1..Len(u)
    BY <1>3
  <2>2. u[i].height = s[1].height + (m + i - 1) /\ i \in Nat
    <3>1. Len(u) \in Nat
      BY <1>3
    <3>2. QED BY <2>1, <3>1, <1>4
  <2>3. u[1].height = s[1].height + m /\ s[1].height \in Nat
    BY <2>1, <1>5, <1>6, <1>7
  <2> DEFINE x == s[1].height
  <2>4. x + (m + i - 1) = (x + m) + (i - 1)
    <3> HIDE DEF x
    <3>1. \A y \in Nat : y + (m + i - 1) = (y + m) + (i - 1)
      BY <2>2
    <3>2. QED BY <2>3, <3>1 DEF x
  <2>5. QED BY <2>2, <2>3, <2>4
<1>9. QED BY <1>2, <1>7, <1>8 DEF u

\* The rest of a task's blocks begins one higher.
LEMMA ConsecutiveTail ==
    ASSUME NEW s \in Seq(Block), Consecutive(s), s # <<>>
    PROVE  /\ Tail(s) \in Seq(Block) /\ Consecutive(Tail(s))
           /\ Tail(s) # <<>> => Tail(s)[1].height = s[1].height + 1
<1>1. Tail(s) = SubSeq(s, 1 + 1, Len(s)) /\ Len(s) \in Nat /\ Len(s) \in 0..Len(s)
  BY LenProperties, TailIsSubSeq
<1>2. QED BY <1>1, ConsecutivePart

-----------------------------------------------------------------------------
(* Steps *)

\* The manager only moves up, the kit's chain never shrinks.
Grows == /\ best' \in Block /\ best.height <= best'.height
         /\ Len(chain') \in Nat /\ Len(chain) <= Len(chain')

\* A step that leaves both alone.
LEMMA TypedGrowth == ASSUME IInv, UNCHANGED <<best, chain>> PROVE Grows
<1>1. best \in Block /\ chain \in Seq(Block)
  BY DEF IInv, TypeOK
<1>2. best.height \in Nat /\ Len(chain) \in Nat
  BY <1>1, LenProperties DEF Block
<1>3. QED BY <1>1, <1>2 DEF Grows

\* Growth does not hurt a task that does not move.
LEMMA TaskKept ==
    ASSUME TypeOK, NEW t \in Tasks, TaskOK(t), task'[t] = task[t], Grows
    PROVE  TaskOK(t)'
<1>1. task[t] \in Task /\ best.height \in Nat /\ Len(chain) \in Nat
  BY LenProperties DEF TypeOK, Block
<1>2. /\ task[t].low \in Nat /\ task[t].high \in Nat /\ task[t].blocks \in Seq(Block)
      /\ best'.height \in Nat
  BY <1>1 DEF Task, Grows, Block
<1>3. task[t].blocks # <<>> => task[t].blocks[1].height \in Nat
  BY <1>2, FirstFields
<1>4. QED BY <1>1, <1>2, <1>3, SMTT(30) DEF TaskOK, Grows, Consecutive

\* A step that leaves tasks, listeners and flags alone.
LEMMA QuietStep ==
    ASSUME IInv, TypeOK', ChainHeights', Grows,
           UNCHANGED <<task, best, mon, watched, background, processors, owed>>,
           synced' => synced
    PROVE  IInv'
<1>1. TasksOK'
  BY TaskKept DEF IInv, TasksOK
<1>2. NothingOwed'
  BY DEF IInv, NothingOwed
<1>3. Watching'
  BY DEF IInv, Watching, ProcessorOf, WatchedFor
<1>4. QED BY <1>1, <1>2, <1>3 DEF IInv

\* What the invariant says of the kit's chain.
LEMMA ChainFacts ==
    ASSUME IInv
    PROVE  /\ chain \in Seq(Block) /\ Len(chain) \in Nat /\ Len(chain) > 0
           /\ DOMAIN chain = 1..Len(chain) /\ mined \in Nat
           /\ \A i \in 1..Len(chain) : chain[i] \in Block /\ chain[i].height = i
           /\ Last(chain) = chain[Len(chain)]
           /\ Last(chain) \in Block /\ Last(chain).height = Len(chain)
<1>1. chain \in Seq(Block) /\ chain # <<>> /\ mined \in Nat
  BY DEF IInv, TypeOK
<1>2. Len(chain) \in Nat \ {0} /\ DOMAIN chain = 1..Len(chain)
  BY <1>1, EmptySeq, LenProperties
<1>3. \A i \in 1..Len(chain) : chain[i] \in Block
  BY <1>1, BlockFields
<1>4. QED BY <1>1, <1>2, <1>3 DEF IInv, ChainHeights, Last

\* A step of the kit: the chain keeps one block for each height.
LEMMA KitStep == IInv /\ Kit => IInv'
<1> SUFFICES ASSUME IInv, Kit PROVE IInv'
  OBVIOUS
<1>0. /\ chain \in Seq(Block) /\ Len(chain) \in Nat /\ Len(chain) > 0
      /\ DOMAIN chain = 1..Len(chain) /\ mined \in Nat
      /\ \A i \in 1..Len(chain) : chain[i] \in Block /\ chain[i].height = i
      /\ Last(chain) \in Block /\ Last(chain).height = Len(chain)
  BY ChainFacts
<1>1. CASE NewBlock
  <2> DEFINE b == Child(Last(chain), mined + 1)
  <2>1. b \in Block /\ b.height = Len(chain) + 1
    <3>1. mined + 1 \in Nat
      BY <1>0
    <3>2. b \in Block /\ b.height = Last(chain).height + 1
      BY <1>0, <3>1, ChildFields
    <3>3. QED BY <1>0, <3>2
  <2>2. /\ chain' \in Seq(Block) /\ Len(chain') = Len(chain) + 1
        /\ \A i \in 1..Len(chain) : chain'[i] = chain[i]
        /\ chain'[Len(chain) + 1] = b
    BY <1>0, <1>1, <2>1, AppendProperties DEF NewBlock
  <2>3. DOMAIN chain' = 1..(Len(chain) + 1)
    BY <2>2, LenProperties
  <2>4. ChainHeights'
    BY <1>0, <2>1, <2>2, <2>3 DEF ChainHeights
  <2>5. blockEvents' \in Seq(Block)
    BY <1>1, <2>1, AppendProperties DEF NewBlock, IInv, TypeOK
  <2>6. TypeOK'
    BY <1>0, <1>1, <2>2, <2>5, EmptySeq DEF NewBlock, IInv, TypeOK, app, node
  <2>7. Grows
    <3>1. best' \in Block /\ best.height <= best'.height
      BY <1>1 DEF NewBlock, IInv, TypeOK, node, Block
    <3>2. Len(chain') \in Nat /\ Len(chain) <= Len(chain')
      BY <1>0, <2>2
    <3>3. QED BY <3>1, <3>2 DEF Grows
  <2>8. QED
    BY <1>1, <2>4, <2>6, <2>7, QuietStep DEF NewBlock, app, node
<1>2. CASE Reorg
  <2> DEFINE n == Len(chain)
             a == Child(chain[n - 1], mined + 1)
             b == Child(a, mined + 2)
             c == [chain EXCEPT ![n] = a]
  <2>1. n > 1
    BY <1>2 DEF Reorg
  <2>2. a \in Block /\ a.height = n /\ b \in Block /\ b.height = n + 1
    <3>1. n - 1 \in 1..Len(chain)
      BY <1>0, <2>1
    <3>2. chain[n - 1] \in Block /\ chain[n - 1].height = n - 1
      BY <1>0, <3>1
    <3>3. mined + 1 \in Nat /\ mined + 2 \in Nat
      BY <1>0
    <3>4. a \in Block /\ a.height = n
      <4>1. a \in Block /\ a.height = chain[n - 1].height + 1
        BY <3>2, <3>3, ChildFields
      <4>2. chain[n - 1].height + 1 = n
        BY <1>0, <3>2
      <4>3. QED BY <4>1, <4>2
    <3>5. b \in Block /\ b.height = n + 1
      <4> HIDE DEF a
      <4>1. QED BY <3>3, <3>4, ChildFields
    <3>6. QED BY <3>4, <3>5
  <2>3. c \in Seq(Block) /\ Len(c) = n
    BY <1>0, <2>1, <2>2, ExceptSeq
  <2>4. \A i \in 1..n : c[i].height = i
    BY <1>0, <2>1, <2>2
  <2>5. chain' = Append(c, b)
    BY <1>2 DEF Reorg
  <2>9. blockEvents' \in Seq(Block)
    BY <1>2, <2>2, AppendProperties DEF Reorg, IInv, TypeOK
  <2>0. /\ mined' = mined + 2
        /\ UNCHANGED <<state, stateEvents, app, node, task>>
    BY <1>2 DEF Reorg
  <2> HIDE DEF a, b, c
  <2>6. /\ chain' \in Seq(Block) /\ Len(chain') = n + 1
        /\ \A i \in 1..n : chain'[i] = c[i]
        /\ chain'[n + 1] = b
    BY <2>2, <2>3, <2>5, AppendProperties
  <2>7. DOMAIN chain' = 1..(n + 1)
    BY <2>6, LenProperties
  <2>8. ChainHeights'
    BY <1>0, <2>2, <2>4, <2>6, <2>7 DEF ChainHeights
  <2>10. TypeOK'
    BY <1>0, <2>0, <2>6, <2>9, EmptySeq DEF IInv, TypeOK, app, node
  <2>11. Grows
    <3>1. best' \in Block /\ best.height <= best'.height
      BY <2>0 DEF IInv, TypeOK, node, Block
    <3>2. Len(chain') \in Nat /\ Len(chain) <= Len(chain')
      BY <1>0, <2>6
    <3>3. QED BY <3>1, <3>2 DEF Grows
  <2>12. QED
    BY <2>0, <2>8, <2>10, <2>11, QuietStep DEF app, node
<1>3. ASSUME NEW s \in States, KitStateUpdated(s) PROVE IInv'
  <2>1. TypeOK'
    BY <1>3 DEF KitStateUpdated, IInv, TypeOK, app, node
  <2>2. ChainHeights' /\ Grows
    BY <1>0, <1>3 DEF KitStateUpdated, IInv, TypeOK, ChainHeights, Grows, Block, node
  <2>3. QED
    BY <1>3, <2>1, <2>2, QuietStep DEF KitStateUpdated, app, node
<1>4. QED BY <1>1, <1>2, <1>3 DEF Kit

\* A new task holds one block or none and has read nothing.
LEMMA SpawnStep ==
    ASSUME IInv, NEW bs \in Seq(Block), Consecutive(bs), NEW kind \in {"sync", "block"},
           Spawn(kind, bs), UNCHANGED <<chain, node>>
    PROVE  task' \in [Tasks -> Task] /\ TasksOK' /\ NothingOwed' /\
           \A t \in Tasks : task'[t].pc = task[t].pc \/ task'[t].pc = "start"
<1>1. PICK t \in Tasks : task[t] = Idle /\ task' = [task EXCEPT ![t] = NewTask(kind, bs)]
  BY DEF Spawn
<1> DEFINE r == NewTask(kind, bs)
<1>2. r \in Task /\ r.pc = "start" /\ r.blocks = bs
  BY DEF NewTask, Idle, Task, PCs
<1>3. /\ task' \in [Tasks -> Task] /\ task'[t] = r
      /\ \A u \in Tasks \ {t} : task'[u] = task[u]
  BY <1>1, <1>2 DEF IInv, TypeOK
<1>4. Grows
  BY LenProperties DEF IInv, TypeOK, node, Grows, Block
<1>5. TaskOK(t)'
  BY <1>2, <1>3 DEF TaskOK, Consecutive
<1>6. \A u \in Tasks \ {t} : TaskOK(u)'
  BY <1>3, <1>4, TaskKept DEF IInv, TasksOK
<1>7. task[t].pc = "idle"
  BY <1>1 DEF Idle
<1>8. NothingOwed'
  BY <1>3, <1>7 DEF IInv, NothingOwed, node
<1>9. QED BY <1>2, <1>3, <1>5, <1>6, <1>8 DEF TasksOK

\* A step of one task that touches no listener: the task is still in order and no
\* other is touched.
LEMMA TaskMoves ==
    ASSUME IInv, NEW t \in Tasks, NEW r \in Task, task' = [task EXCEPT ![t] = r],
           Grows, chain' = chain, TaskOK(t)'
    PROVE  /\ task' \in [Tasks -> Task] /\ TasksOK' /\ ChainHeights'
           /\ task'[t] = r /\ \A u \in Tasks \ {t} : task'[u] = task[u]
<1>1. /\ task' \in [Tasks -> Task] /\ task'[t] = r
      /\ \A u \in Tasks \ {t} : task'[u] = task[u]
  BY DEF IInv, TypeOK
<1>2. \A u \in Tasks \ {t} : TaskOK(u)'
  BY <1>1, TaskKept DEF IInv, TasksOK
<1>3. QED BY <1>1, <1>2 DEF TasksOK, IInv, ChainHeights

\* What the invariant says of the task that moves.
LEMMA TaskFacts ==
    ASSUME IInv, NEW t \in Tasks
    PROVE  /\ task[t] \in Task /\ task[t].kind \in {"none", "sync", "block"}
           /\ task[t].pc \in PCs /\ task[t].low \in Nat /\ task[t].high \in Nat
           /\ task[t].blocks \in Seq(Block) /\ TaskOK(t)
           /\ best \in Block /\ best.height \in Nat /\ best.id \in Nat
           /\ Len(chain) \in Nat
           /\ task[t].blocks # <<>> => /\ Head(task[t].blocks) = task[t].blocks[1]
                                       /\ Head(task[t].blocks) \in Block
                                       /\ task[t].blocks[1].height \in Nat
<1>1. task[t] \in Task /\ best \in Block /\ chain \in Seq(Block)
  BY DEF IInv, TypeOK
<1>2. Len(chain) \in Nat
  BY <1>1, LenProperties
<1>3. task[t].blocks \in Seq(Block)
  BY <1>1 DEF Task
<1>4. QED BY <1>1, <1>2, <1>3, FirstFields DEF Task, Block, IInv, TasksOK

\* A task that moves by itself, to a pc at which it watches nothing and owes nothing.
LEMMA QuietTaskStep ==
    ASSUME IInv, NEW t \in Tasks, NEW r \in Task, task' = [task EXCEPT ![t] = r],
           UNCHANGED <<kit, stateEvents, blockEvents, app, node>>, TaskOK(t)',
           task[t].pc # "monitor", r.pc \notin {"watch", "background", "replace", "synced"},
           r.pc \in {"manager", "monitor"} => r.blocks # <<>>
    PROVE  IInv'
<1>1. Grows
  BY LenProperties DEF IInv, TypeOK, kit, node, Grows, Block
<1>2. /\ task' \in [Tasks -> Task] /\ TasksOK' /\ ChainHeights'
      /\ task'[t] = r /\ \A u \in Tasks \ {t} : task'[u] = task[u]
  BY <1>1, TaskMoves DEF kit
<1>3. TypeOK'
  BY <1>2 DEF IInv, TypeOK, kit, app, node
<1>4. NothingOwed'
  BY <1>2 DEF IInv, NothingOwed, node
<1>5. Watching'
  BY <1>2 DEF IInv, Watching, ProcessorOf, WatchedFor, node, app
<1>6. QED BY <1>2, <1>3, <1>4, <1>5 DEF IInv

\* The end of a task that is not between the two listeners.
LEMMA EndStep ==
    ASSUME IInv, NEW t \in Tasks, End(t), task[t].pc # "monitor",
           UNCHANGED <<kit, stateEvents, blockEvents, app, node>>
    PROVE  IInv'
<1>1. Idle \in Task /\ Idle.pc = "idle" /\ Idle.blocks = <<>> /\ task'[t] = Idle
  BY EmptySeq DEF Idle, Task, PCs, End, IInv, TypeOK
<1>2. TaskOK(t)'
  BY <1>1 DEF TaskOK, Consecutive
<1>3. QED BY <1>1, <1>2, QuietTaskStep DEF End

\* Reading the manager's height.
LEMMA ReadBestStep == ASSUME IInv, NEW t \in Tasks, ReadBest(t) PROVE IInv'
<1>0. /\ task[t].pc = "start" /\ task \in [Tasks -> Task]
      /\ UNCHANGED <<kit, stateEvents, blockEvents, app, node>>
  BY DEF ReadBest, At, IInv, TypeOK
<1>1. CASE task' = [task EXCEPT ![t].low = best.height, ![t].pc = "tip"]
  <2> DEFINE r == [task[t] EXCEPT !.low = best.height, !.pc = "tip"]
  <2>1. /\ r \in Task /\ r.pc = "tip" /\ r.low = best.height /\ r.blocks = task[t].blocks
        /\ task' = [task EXCEPT ![t] = r] /\ task'[t] = r
    BY <1>0, <1>1, TaskFacts DEF Task, PCs
  <2>2. TaskOK(t)'
    BY <1>0, <2>1, TaskFacts DEF TaskOK, node, Consecutive
  <2>3. QED BY <1>0, <2>1, <2>2, QuietTaskStep
<1>2. CASE IsNext(Head(task[t].blocks)) /\ Goto(t, "fetch")
  <2> DEFINE r == [task[t] EXCEPT !.pc = "fetch"]
  <2>1. /\ r \in Task /\ r.pc = "fetch" /\ r.blocks = task[t].blocks
        /\ task' = [task EXCEPT ![t] = r] /\ task'[t] = r
    BY <1>0, <1>2, TaskFacts DEF Task, PCs, Goto
  <2>2. TaskOK(t)'
    BY <1>0, <1>2, <2>1, TaskFacts DEF TaskOK, node, Consecutive, IsNext
  <2>3. QED BY <1>0, <2>1, <2>2, QuietTaskStep
<1>3. CASE End(t)
  BY <1>0, <1>3, EndStep
<1>4. QED BY <1>1, <1>2, <1>3 DEF ReadBest

\* Reading the kit's tip, and then its blocks up to that height.
LEMMA ReadTipStep == ASSUME IInv, NEW t \in Tasks, ReadTip(t) PROVE IInv'
<1> DEFINE r == [task[t] EXCEPT !.high = Last(chain).height, !.pc = "range"]
<1>0. Last(chain).height = Len(chain) /\ Len(chain) \in Nat
  BY ChainFacts
<1>1. /\ r \in Task /\ r.pc = "range" /\ r.low = task[t].low /\ r.high = Len(chain)
      /\ r.blocks = task[t].blocks /\ task[t].pc = "tip"
      /\ task' = [task EXCEPT ![t] = r] /\ task'[t] = r
  <2>1. task[t] \in Task
    BY TaskFacts
  <2>2. /\ r \in Task /\ r.pc = "range" /\ r.low = task[t].low /\ r.high = Len(chain)
        /\ r.blocks = task[t].blocks
    BY <1>0, <2>1 DEF Task, PCs
  <2>3. task[t].pc = "tip" /\ task' = [task EXCEPT ![t] = r] /\ task'[t] = r
    BY DEF ReadTip, At, IInv, TypeOK
  <2>4. QED BY <2>2, <2>3
<1>2. UNCHANGED <<kit, stateEvents, blockEvents, app, node>>
  BY DEF ReadTip
<1>3. TaskOK(t)'
  BY <1>1, <1>2, TaskFacts DEF TaskOK, node, kit, Consecutive
<1>4. QED BY <1>1, <1>2, <1>3, QuietTaskStep

\* The blocks read are those above the height read first: none is higher than the next.
LEMMA ReadBlocksStep == ASSUME IInv, NEW t \in Tasks, ReadBlocks(t) PROVE IInv'
<1> DEFINE low == task[t].low
           bs  == MissingBlocks(t)
           r   == [task[t] EXCEPT !.blocks = bs, !.pc = "fetch"]
<1>1. /\ task[t].pc = "range" /\ task' = [task EXCEPT ![t] = r]
      /\ UNCHANGED <<kit, stateEvents, blockEvents, app, node>>
  BY DEF ReadBlocks, At, IInv, TypeOK
<1>2. Consecutive(chain) /\ (chain # <<>> => chain[1].height = 1)
  BY ChainFacts DEF Consecutive
<1>3. low \in Nat /\ task[t].high \in 0..Len(chain) /\ low <= best.height
  BY <1>1, TaskFacts DEF TaskOK
<1>4. /\ bs \in Seq(Block) /\ Consecutive(bs)
      /\ bs # <<>> => bs[1].height = low + 1
  <2>1. chain \in Seq(Block) /\ chain # <<>>
    BY DEF IInv, TypeOK
  <2>2. /\ bs \in Seq(Block) /\ Consecutive(bs)
        /\ bs # <<>> => bs[1].height = chain[1].height + low
    BY <1>2, <1>3, <2>1, ConsecutivePart DEF MissingBlocks
  <2>3. QED BY <1>2, <1>3, <2>1, <2>2
<1> HIDE DEF bs
<1>5. r \in Task /\ r.pc = "fetch" /\ r.blocks = bs /\ task'[t] = r
  BY <1>1, <1>4, TaskFacts DEF Task, PCs, IInv, TypeOK
<1>6. best' = best /\ best.height \in Nat
  BY <1>1, TaskFacts DEF node
<1>7. bs # <<>> => bs[1].height <= best.height + 1
  BY <1>3, <1>4, <1>6
<1>8. TaskOK(t)'
  BY <1>4, <1>5, <1>6, <1>7 DEF TaskOK, Consecutive
<1>9. QED BY <1>1, <1>5, <1>8, QuietTaskStep

\* A download leaves the block with the task, or ends it.
LEMMA DownloadStep == ASSUME IInv, NEW t \in Tasks, Download(t) PROVE IInv'
<1>0. /\ task[t].pc = "fetch" /\ task[t].blocks # <<>>
      /\ UNCHANGED <<kit, stateEvents, blockEvents, app, node>>
  BY DEF Download, At, HasBlock
<1>1. CASE Goto(t, "manager")
  <2> DEFINE r == [task[t] EXCEPT !.pc = "manager"]
  <2>1. /\ r \in Task /\ r.pc = "manager" /\ r.blocks = task[t].blocks
        /\ task' = [task EXCEPT ![t] = r] /\ task'[t] = r
    BY <1>1, TaskFacts DEF Task, PCs, Goto, IInv, TypeOK
  <2>2. TaskOK(t)'
    BY <1>0, <2>1, TaskFacts DEF TaskOK, node, Consecutive
  <2>3. QED BY <1>0, <2>1, <2>2, QuietTaskStep
<1>2. CASE End(t)
  BY <1>0, <1>2, EndStep
<1>3. QED BY <1>1, <1>2 DEF Download, FirstListener

\* The loop is over: the processor is there, or is about to be started.
LEMMA SyncCompletedStep == ASSUME IInv, NEW t \in Tasks, SyncCompleted(t) PROVE IInv'
<1> DEFINE l == IF background = None THEN "watch" ELSE "synced"
           r == [task[t] EXCEPT !.pc = l]
<1>1. /\ task[t].pc = "fetch" /\ task[t].blocks = <<>>
      /\ UNCHANGED <<kit, stateEvents, blockEvents, app, node>>
  BY DEF SyncCompleted, At, HasBlock
<1>2. /\ r \in Task /\ r.pc = l /\ r.blocks = task[t].blocks
      /\ task' = [task EXCEPT ![t] = r] /\ task'[t] = r
  BY TaskFacts DEF SyncCompleted, NeedsWatch, Task, PCs, Goto, IInv, TypeOK
<1>3. TaskOK(t)' /\ Grows
  BY <1>1, <1>2, TaskFacts DEF TaskOK, Grows, node, kit, Consecutive
<1>4. /\ task' \in [Tasks -> Task] /\ TasksOK' /\ ChainHeights'
      /\ task'[t] = r /\ \A u \in Tasks \ {t} : task'[u] = task[u]
  BY <1>1, <1>2, <1>3, TaskMoves DEF kit
<1>5. TypeOK'
  BY <1>1, <1>2, <1>4 DEF IInv, TypeOK, kit, app, node
<1>6. NothingOwed'
  BY <1>1, <1>4 DEF IInv, NothingOwed, node
<1>7. Watching'
  <2>1. \/ background = None /\ task'[t].pc = "watch"
        \/ background # None /\ task'[t].pc = "synced"
    BY <1>2, <1>4
  <2>2. UNCHANGED <<mon, watched, background, processors, synced>>
    BY <1>1 DEF node, app
  <2> HIDE DEF l, r
  <2>3. QED
    BY <1>4, <2>1, <2>2, NoneAssumption DEF IInv, Watching, ProcessorOf, WatchedFor
<1>8. QED BY <1>4, <1>5, <1>6, <1>7 DEF IInv

\* The manager takes a block: it moves up by one, and the task owes the block to the
\* monitors.
LEMMA ConnectManagerStep == ASSUME IInv, NEW t \in Tasks, ConnectManager(t) PROVE IInv'
<1> DEFINE b == Head(task[t].blocks)
<1>0. /\ task[t].pc = "manager" /\ task[t].blocks # <<>> /\ b \in Block
      /\ b = task[t].blocks[1]
      /\ UNCHANGED <<kit, stateEvents, blockEvents, starts, synced, saved, mon, left,
                     watched, background, processors>>
  BY TaskFacts DEF ConnectManager, At, IInv, TypeOK
<1>1. CASE Accepts(b)
  <2> DEFINE r == [task[t] EXCEPT !.pc = "monitor"]
  <2>1. /\ r \in Task /\ r.pc = "monitor" /\ r.blocks = task[t].blocks
        /\ task' = [task EXCEPT ![t] = r] /\ task'[t] = r
        /\ best' = b /\ status' = status
        /\ owed' = IF watched THEN owed \cup {b} ELSE owed
    BY <1>1, TaskFacts DEF ConnectManager, SameTask, Goto, Task, PCs, IInv, TypeOK
  <2>2. Grows
    BY <1>0, <1>1, <2>1, TaskFacts DEF Grows, Accepts, kit, Block
  <2>3. TaskOK(t)'
    <3>1. task[t].blocks[1].height <= best'.height
      BY <1>0, <2>1 DEF Block
    <3>2. Consecutive(task[t].blocks)
      BY TaskFacts DEF TaskOK
    <3> DEFINE bs == task[t].blocks
    <3>3. /\ task'[t].pc = "monitor" /\ task'[t].blocks = bs
          /\ bs # <<>> /\ Consecutive(bs) /\ bs[1].height <= best'.height
      BY <1>0, <2>1, <3>1, <3>2
    <3> HIDE DEF bs, b, r
    <3>4. QED BY <3>3 DEF TaskOK, Consecutive
  <2>4. /\ task' \in [Tasks -> Task] /\ TasksOK' /\ ChainHeights'
        /\ task'[t] = r /\ \A u \in Tasks \ {t} : task'[u] = task[u]
    BY <1>0, <2>1, <2>2, <2>3, TaskMoves DEF kit
  <2>5. TypeOK'
    BY <1>0, <2>1, <2>4 DEF IInv, TypeOK, kit
  <2>6. NothingOwed'
    <3> SUFFICES ASSUME NEW c \in owed'
                 PROVE  \E u \in Tasks : task'[u].pc = "monitor" /\ Head(task'[u].blocks) = c
      BY DEF NothingOwed
    <3>1. CASE c = b
      BY <2>1, <3>1
    <3>2. CASE c # b
      <4>1. PICK u \in Tasks : task[u].pc = "monitor" /\ Head(task[u].blocks) = c
        BY <2>1, <3>2 DEF IInv, NothingOwed
      <4>2. u # t
        BY <1>0, <4>1
      <4>3. QED BY <2>4, <4>1, <4>2
    <3>3. QED BY <3>1, <3>2
  <2>7. Watching'
    BY <1>0, <2>1, <2>4 DEF IInv, Watching, ProcessorOf, WatchedFor
  <2>8. QED BY <2>4, <2>5, <2>6, <2>7 DEF IInv
<1>2. CASE ~Accepts(b)
  <2>1. status' = "panicked" /\ UNCHANGED <<best, owed, task>>
    BY <1>2 DEF ConnectManager
  <2>2. TypeOK'
    BY <1>0, <2>1 DEF IInv, TypeOK, kit
  <2>3. ChainHeights' /\ Grows
    BY <1>0, <2>1, ChainFacts, TaskFacts DEF IInv, ChainHeights, Grows, kit
  <2>4. QED BY <1>0, <2>1, <2>2, <2>3, QuietStep
<1>3. QED BY <1>1, <1>2

\* The monitors get the block: it is owed no longer.
LEMMA ConnectMonitorStep == ASSUME IInv, NEW t \in Tasks, ConnectMonitor(t) PROVE IInv'
<1> DEFINE bs == task[t].blocks
           b  == Head(bs)
           r  == IF task[t].kind = "sync" THEN [task[t] EXCEPT !.blocks = Tail(bs), !.pc = "fetch"]
                                          ELSE Idle
<1>0. /\ task[t].pc = "monitor" /\ bs # <<>> /\ b \in Block /\ b = bs[1]
      /\ bs \in Seq(Block) /\ Consecutive(bs) /\ bs[1].height <= best.height
      /\ bs[1].height \in Nat /\ best.height \in Nat /\ best \in Block
  BY TaskFacts DEF ConnectMonitor, At, TaskOK
<1>1. /\ mon' = (IF watched THEN b ELSE mon) /\ owed' = owed \ {b}
      /\ UNCHANGED <<kit, stateEvents, blockEvents, app, best, saved, left, watched,
                     background, processors>>
  BY DEF ConnectMonitor
<1>2. /\ Tail(bs) \in Seq(Block) /\ Consecutive(Tail(bs))
      /\ Tail(bs) # <<>> => Tail(bs)[1].height <= best.height + 1
  <2>1. /\ Tail(bs) \in Seq(Block) /\ Consecutive(Tail(bs))
        /\ Tail(bs) # <<>> => Tail(bs)[1].height = bs[1].height + 1
    BY <1>0, ConsecutiveTail
  <2>2. QED BY <1>0, <2>1, SMTT(30)
<1>5. /\ r \in Task /\ r.pc \in {"fetch", "idle"}
      /\ task' = [task EXCEPT ![t] = r] /\ TaskOK(t)'
  <2>1. CASE task[t].kind = "sync"
    <3>1. r \in Task /\ r.pc = "fetch" /\ r.blocks = Tail(bs)
      BY <1>2, <2>1, TaskFacts DEF Task, PCs
    <3>2. task' = [task EXCEPT ![t] = r] /\ task'[t] = r
      BY <2>1 DEF ConnectMonitor, IInv, TypeOK
    <3> HIDE DEF r, bs
    <3>3. TaskOK(t)'
      BY <1>1, <1>2, <3>1, <3>2 DEF TaskOK, Consecutive
    <3>4. QED BY <3>1, <3>2, <3>3
  <2>2. CASE task[t].kind # "sync"
    <3>1. r \in Task /\ r.pc = "idle" /\ r.blocks = <<>>
      BY <2>2, EmptySeq DEF Idle, Task, PCs
    <3>2. task' = [task EXCEPT ![t] = r] /\ task'[t] = r
      BY <2>2 DEF ConnectMonitor, End, IInv, TypeOK
    <3> HIDE DEF r, bs
    <3>3. TaskOK(t)'
      BY <3>1, <3>2 DEF TaskOK, Consecutive
    <3>4. QED BY <3>1, <3>2, <3>3
  <2>3. QED BY <2>1, <2>2
<1> HIDE DEF r
<1>6. Grows
  BY <1>0, <1>1, TaskFacts DEF Grows, kit
<1>7. /\ task' \in [Tasks -> Task] /\ TasksOK' /\ ChainHeights'
      /\ task'[t] = r /\ \A u \in Tasks \ {t} : task'[u] = task[u]
  BY <1>1, <1>5, <1>6, TaskMoves DEF kit
<1>8. TypeOK'
  BY <1>0, <1>1, <1>5, <1>7 DEF IInv, TypeOK, kit, app
<1>9. NothingOwed'
  <2> SUFFICES ASSUME NEW c \in owed'
               PROVE  \E u \in Tasks : task'[u].pc = "monitor" /\ Head(task'[u].blocks) = c
    BY DEF NothingOwed
  <2>1. PICK u \in Tasks : task[u].pc = "monitor" /\ Head(task[u].blocks) = c
    BY <1>1 DEF IInv, NothingOwed
  <2>2. u # t
    BY <1>1, <2>1
  <2>3. QED BY <1>7, <2>1, <2>2
<1>10. Watching'
  <2>1. mon' # None => mon # None \/ watched
    BY <1>1
  <2>2. QED BY <1>1, <1>5, <1>7, <2>1 DEF IInv, Watching, ProcessorOf, WatchedFor, app
<1>11. QED BY <1>7, <1>8, <1>9, <1>10 DEF IInv

\* A step of a task that changes flags only.
LEMMA FlagStep ==
    ASSUME IInv, NEW t \in Tasks, NEW r \in Task, task' = [task EXCEPT ![t] = r],
           UNCHANGED <<kit, stateEvents, blockEvents, status, starts, best, saved, mon, left,
                       owed>>,
           r.pc \in {"background", "replace", "synced", "idle"}, Consecutive(r.blocks),
           task[t].pc # "monitor", watched' \in BOOLEAN, synced' \in BOOLEAN,
           background' \in Tasks \cup {None}, processors' \subseteq Tasks
    PROVE  /\ TypeOK' /\ ChainHeights' /\ TasksOK' /\ NothingOwed'
           /\ task'[t] = r /\ \A u \in Tasks \ {t} : task'[u] = task[u]
<1>1. Grows
  BY TaskFacts DEF Grows, kit
<1>2. task'[t] = r
  BY DEF IInv, TypeOK
<1>3. TaskOK(t)'
  BY <1>2 DEF TaskOK, Consecutive
<1>4. /\ task' \in [Tasks -> Task] /\ TasksOK' /\ ChainHeights'
      /\ task'[t] = r /\ \A u \in Tasks \ {t} : task'[u] = task[u]
  BY <1>1, <1>3, TaskMoves DEF kit
<1>5. TypeOK'
  BY <1>4 DEF IInv, TypeOK, kit
<1>6. NothingOwed'
  BY <1>4 DEF IInv, NothingOwed
<1>7. QED BY <1>4, <1>5, <1>6

\* Watching the restored monitors, starting the processor, raising the flag.
LEMMA WatchMonitorsStep == ASSUME IInv, NEW t \in Tasks, WatchMonitors(t) PROVE IInv'
<1> DEFINE r == [task[t] EXCEPT !.pc = "background"]
<1>1. /\ r \in Task /\ r.pc = "background" /\ Consecutive(r.blocks)
      /\ task' = [task EXCEPT ![t] = r] /\ task[t].pc = "watch"
  BY TaskFacts DEF WatchMonitors, At, Goto, Task, PCs, TaskOK
<1>2. /\ UNCHANGED <<kit, stateEvents, blockEvents, app, best, saved, mon, left, background,
                     processors, owed>>
      /\ watched' = (mon # None) /\ watched' \in BOOLEAN
  BY DEF WatchMonitors
<1>3. /\ TypeOK' /\ ChainHeights' /\ TasksOK' /\ NothingOwed'
      /\ task'[t] = r /\ \A u \in Tasks \ {t} : task'[u] = task[u]
  BY <1>1, <1>2, FlagStep DEF app, IInv, TypeOK
<1>4. Watching'
  BY <1>1, <1>2, <1>3 DEF IInv, Watching, ProcessorOf, WatchedFor, app
<1>5. QED BY <1>3, <1>4 DEF IInv

\* A processor starts when every monitor is watched.
LEMMA StartBackgroundStep == ASSUME IInv, NEW t \in Tasks, StartBackground(t) PROVE IInv'
<1> DEFINE r == [task[t] EXCEPT !.pc = "replace"]
<1>1. /\ r \in Task /\ r.pc = "replace" /\ Consecutive(r.blocks)
      /\ task' = [task EXCEPT ![t] = r] /\ task[t].pc = "background"
  BY TaskFacts DEF StartBackground, At, Goto, Task, PCs, TaskOK
<1>2. /\ UNCHANGED <<kit, stateEvents, blockEvents, app, best, saved, mon, left, watched,
                     background, owed>>
      /\ processors' = processors \cup {t}
  BY DEF StartBackground
<1>3. /\ TypeOK' /\ ChainHeights' /\ TasksOK' /\ NothingOwed'
      /\ task'[t] = r /\ \A u \in Tasks \ {t} : task'[u] = task[u]
  BY <1>1, <1>2, FlagStep DEF app, IInv, TypeOK
<1>4. Watching'
  BY <1>1, <1>2, <1>3 DEF IInv, Watching, ProcessorOf, WatchedFor, app
<1>5. QED BY <1>3, <1>4 DEF IInv

\* The assignment stops the processor that was held, which is not the one assigned.
LEMMA ReplaceBackgroundStep ==
    ASSUME IInv, NEW t \in Tasks, ReplaceBackground(t) PROVE IInv'
<1> DEFINE r == [task[t] EXCEPT !.pc = "synced"]
<1>1. /\ r \in Task /\ r.pc = "synced" /\ Consecutive(r.blocks)
      /\ task' = [task EXCEPT ![t] = r] /\ task[t].pc = "replace"
  BY TaskFacts DEF ReplaceBackground, At, Goto, Task, PCs, TaskOK
<1>2. /\ UNCHANGED <<kit, stateEvents, blockEvents, app, best, saved, mon, left, watched, owed>>
      /\ background' = t
      /\ processors' = processors \ {background} \/ processors' = processors
  BY DEF ReplaceBackground
<1>3. /\ TypeOK' /\ ChainHeights' /\ TasksOK' /\ NothingOwed'
      /\ task'[t] = r /\ \A u \in Tasks \ {t} : task'[u] = task[u]
  BY <1>1, <1>2, FlagStep DEF app, IInv, TypeOK
<1>4. t \in processors' /\ processors # {}
      /\ \A u \in Tasks \ {t} : task[u].pc = "replace" => u \in processors'
  <2>1. t \in processors /\ background # t
    BY <1>1 DEF IInv, Watching, ProcessorOf
  <2>2. \A u \in Tasks : task[u].pc = "replace" => u \in processors /\ background # u
    BY DEF IInv, Watching, ProcessorOf
  <2>3. QED BY <1>2, <2>1, <2>2
<1>5. Watching'
  BY <1>1, <1>2, <1>3, <1>4 DEF IInv, Watching, ProcessorOf, WatchedFor, app
<1>6. QED BY <1>3, <1>5 DEF IInv

\* The flag is raised and the task is over.
LEMMA SendSyncedStep == ASSUME IInv, NEW t \in Tasks, SendSynced(t) PROVE IInv'
<1>1. /\ Idle \in Task /\ Idle.pc = "idle" /\ Consecutive(Idle.blocks)
      /\ task' = [task EXCEPT ![t] = Idle] /\ task[t].pc = "synced"
  BY EmptySeq DEF SendSynced, At, End, Idle, Task, PCs, Consecutive
<1>2. /\ UNCHANGED <<kit, stateEvents, blockEvents, status, starts, node>> /\ synced' = TRUE
  BY DEF SendSynced
<1>3. /\ TypeOK' /\ ChainHeights' /\ TasksOK' /\ NothingOwed'
      /\ task'[t] = Idle /\ \A u \in Tasks \ {t} : task'[u] = task[u]
  BY <1>1, <1>2, FlagStep DEF node, IInv, TypeOK
<1>4. Watching'
  BY <1>1, <1>2, <1>3 DEF IInv, Watching, ProcessorOf, WatchedFor, node
<1>5. QED BY <1>3, <1>4 DEF IInv

-----------------------------------------------------------------------------
(* Deliveries, the listeners' own doing, and a new launch *)

\* A delivery that spawns a task, or only changes the flag.
LEMMA DeliveryStep == ASSUME IInv, Subscriptions PROVE IInv'
<1>1. CASE StateDelivered
  <2>0. /\ UNCHANGED <<kit, blockEvents, status, starts, node>>
        /\ stateEvents' \in Nat
    BY <1>1 DEF StateDelivered, IInv, TypeOK
  <2>1. Grows
    BY <2>0, TypedGrowth DEF kit, node
  <2>2. CASE UNCHANGED task /\ synced' \in BOOLEAN /\ (synced' => synced)
    <3>1. TypeOK' /\ ChainHeights'
      BY <2>0, <2>2 DEF IInv, TypeOK, ChainHeights, kit, node
    <3>2. QED BY <2>0, <2>1, <2>2, <3>1, QuietStep DEF node
  <2>3. CASE Spawn("sync", <<>>) /\ UNCHANGED synced
    <3>1. <<>> \in Seq(Block) /\ Consecutive(<<>>)
      BY EmptySeq DEF Consecutive
    <3>2. UNCHANGED <<chain, node>>
      BY <2>0 DEF kit
    <3>3. /\ task' \in [Tasks -> Task] /\ TasksOK' /\ NothingOwed'
          /\ \A t \in Tasks : task'[t].pc = task[t].pc \/ task'[t].pc = "start"
      BY <2>3, <3>1, <3>2, SpawnStep
    <3>4. TypeOK' /\ ChainHeights'
      BY <2>0, <2>3, <3>3 DEF IInv, TypeOK, ChainHeights, TasksOK, TaskOK, kit, node
    <3>5. Watching'
      BY <2>0, <2>3, <3>3 DEF IInv, Watching, ProcessorOf, WatchedFor, node
    <3>6. QED BY <3>3, <3>4, <3>5 DEF IInv
  <2>4. QED
    <3>1. \/ synced' = FALSE /\ UNCHANGED task
          \/ Spawn("sync", <<>>) /\ UNCHANGED synced
          \/ UNCHANGED <<synced, task>>
      BY <1>1 DEF StateDelivered
    <3>2. synced \in BOOLEAN
      BY DEF IInv, TypeOK
    <3>3. CASE UNCHANGED <<synced, task>>
      BY <2>2, <3>2, <3>3
    <3>4. CASE synced' = FALSE /\ UNCHANGED task
      BY <2>2, <3>4
    <3>5. QED BY <2>3, <3>1, <3>3, <3>4
<1>2. CASE BlockDelivered
  <2>0. /\ UNCHANGED <<kit, stateEvents, app, node>>
        /\ blockEvents \in Seq(Block) /\ blockEvents # <<>> /\ blockEvents' = Tail(blockEvents)
    BY <1>2 DEF BlockDelivered, IInv, TypeOK
  <2>1. Grows
    BY <2>0, TypedGrowth DEF kit, node
  <2>2. blockEvents' \in Seq(Block)
    BY <2>0, HeadTailProperties
  <2>3. CASE UNCHANGED task
    <3>1. TypeOK' /\ ChainHeights'
      BY <2>0, <2>2, <2>3 DEF IInv, TypeOK, ChainHeights, kit, node, app
    <3>2. QED BY <2>0, <2>1, <2>3, <3>1, QuietStep DEF node, app
  <2>4. CASE Spawn("block", <<Head(blockEvents)>>)
    <3> DEFINE b == Head(blockEvents)
    <3>1. b \in Block
      BY <2>0, FirstFields
    <3>2. <<b>> \in Seq(Block) /\ Consecutive(<<b>>)
      <4>1. b.height \in Nat
        BY <3>1 DEF Block
      <4> HIDE DEF b
      <4>2. <<b>> \in Seq(Block) /\ DOMAIN <<b>> = 1..1 /\ <<b>>[1] = b
        BY <3>1
      <4>3. QED BY <4>1, <4>2 DEF Consecutive
    <3>3. UNCHANGED <<chain, node>>
      BY <2>0 DEF kit
    <3>4. /\ task' \in [Tasks -> Task] /\ TasksOK' /\ NothingOwed'
          /\ \A t \in Tasks : task'[t].pc = task[t].pc \/ task'[t].pc = "start"
      BY <2>4, <3>2, <3>3, SpawnStep
    <3>5. TypeOK' /\ ChainHeights'
      BY <2>0, <2>2, <3>4 DEF IInv, TypeOK, ChainHeights, TasksOK, TaskOK, kit, node, app
    <3>6. Watching'
      BY <2>0, <3>4 DEF IInv, Watching, ProcessorOf, WatchedFor, node, app
    <3>7. QED BY <3>4, <3>5, <3>6 DEF IInv
  <2>5. QED BY <1>2, <2>3, <2>4 DEF BlockDelivered
<1>3. QED BY <1>1, <1>2 DEF Subscriptions

\* A new channel's monitor is watched; the stored manager is the current one.
LEMMA ListenerStep == ASSUME IInv, OpenChannel \/ PersistManager PROVE IInv'
<1>1. /\ UNCHANGED <<kit, stateEvents, blockEvents, app, best, background, processors,
                     owed, task>>
      /\ WatchedFor(TRUE)' \/ UNCHANGED <<mon, watched>>
  BY DEF OpenChannel, PersistManager, WatchedFor
<1>2. TypeOK' /\ ChainHeights'
  <2>1. CASE OpenChannel
    BY <2>1 DEF OpenChannel, IInv, TypeOK, ChainHeights, kit, app
  <2>2. CASE PersistManager
    BY <2>2 DEF PersistManager, IInv, TypeOK, ChainHeights, kit, app
  <2>3. QED BY <2>1, <2>2
<1>3. Grows
  BY <1>1, TypedGrowth DEF kit
<1>4. TasksOK'
  BY <1>1, <1>3, TaskKept DEF IInv, TasksOK
<1>5. NothingOwed'
  BY <1>1 DEF IInv, NothingOwed
<1>6. Watching'
  BY <1>1 DEF IInv, Watching, ProcessorOf, WatchedFor, app
<1>7. QED BY <1>2, <1>4, <1>5, <1>6 DEF IInv

\* Fresh tasks hold nothing: what a launch begins with.
LEMMA IdleTasks ==
    ASSUME task' = [t \in Tasks |-> Idle]
    PROVE  /\ task' \in [Tasks -> Task] /\ TasksOK'
           /\ \A t \in Tasks : task'[t].pc = "idle"
<1>1. Idle \in Task /\ Idle.pc = "idle" /\ Idle.blocks = <<>>
  BY EmptySeq DEF Idle, Task, PCs
<1>2. task' \in [Tasks -> Task] /\ \A t \in Tasks : task'[t] = Idle
  BY <1>1
<1>3. TasksOK'
  BY <1>1, <1>2 DEF TasksOK, TaskOK, Consecutive
<1>4. QED BY <1>1, <1>2, <1>3

\* Nothing of a launch outlives it but the stored manager and monitor.
LEMMA RestartStep == ASSUME IInv, Restart PROVE IInv'
<1>1. /\ task' \in [Tasks -> Task] /\ TasksOK'
      /\ \A t \in Tasks : task'[t].pc = "idle"
  BY IdleTasks DEF Restart
<1>2. best' \in Block /\ {mon', left'} \subseteq Block \cup {None}
  <2>1. Last(chain) \in Block
    BY ChainFacts
  <2>2. QED BY <2>1 DEF Restart, StoredMonitors, OneOf, IInv, TypeOK
<1>3. TypeOK'
  <2>1. blockEvents' \in Seq(Block) /\ stateEvents' \in Nat /\ starts' \in Nat
    BY EmptySeq DEF Restart, IInv, TypeOK
  <2>2. QED BY <1>1, <1>2, <2>1 DEF Restart, IInv, TypeOK
<1>4. ChainHeights' /\ NothingOwed'
  BY DEF Restart, IInv, ChainHeights, NothingOwed
<1>5. Watching'
  BY <1>1, NoneAssumption DEF Restart, Watching, ProcessorOf, WatchedFor
<1>6. QED BY <1>1, <1>3, <1>4, <1>5 DEF IInv

\* The first launch.
LEMMA InitialState == Init => IInv
<1> SUFFICES ASSUME Init PROVE IInv
  OBVIOUS
<1>1. FirstBlock \in Block /\ FirstBlock.height = 1
  BY DEF FirstBlock, Block
<1>2. Idle \in Task /\ Idle.pc = "idle" /\ Idle.blocks = <<>>
  BY EmptySeq DEF Idle, Task, PCs
<1>3. task \in [Tasks -> Task] /\ \A t \in Tasks : task[t] = Idle
  BY <1>2 DEF Init
<1>4. /\ chain \in Seq(Block) /\ chain # <<>> /\ DOMAIN chain = 1..1
      /\ chain[1] = FirstBlock /\ <<>> \in Seq(Block)
  BY <1>1, EmptySeq DEF Init
<1>5. TypeOK
  BY <1>1, <1>2, <1>3, <1>4 DEF Init, TypeOK
<1>6. ChainHeights
  BY <1>1, <1>4 DEF ChainHeights
<1>7. TasksOK
  BY <1>2, <1>3 DEF TasksOK, TaskOK, Consecutive
<1>8. NothingOwed /\ Watching
  BY <1>2, <1>3, NoneAssumption DEF Init, NothingOwed, Watching, ProcessorOf, WatchedFor
<1>9. QED BY <1>5, <1>6, <1>7, <1>8 DEF IInv

-----------------------------------------------------------------------------
(* The theorems *)

LEMMA InductiveStep == IInv /\ [Next]_vars => IInv'
<1> SUFFICES ASSUME IInv, [Next]_vars PROVE IInv'
  OBVIOUS
<1>1. ASSUME NEW t \in Tasks, TaskStep(t) PROVE IInv'
  BY <1>1, ReadBestStep, ReadTipStep, ReadBlocksStep, DownloadStep, ConnectManagerStep,
     ConnectMonitorStep, SyncCompletedStep, WatchMonitorsStep, StartBackgroundStep,
     ReplaceBackgroundStep, SendSyncedStep DEF TaskStep
<1>2. CASE Subscriptions
  BY <1>2, DeliveryStep
<1>3. CASE Kit
  BY <1>3, KitStep
<1>4. CASE OpenChannel \/ PersistManager
  BY <1>4, ListenerStep
<1>5. CASE Restart
  BY <1>5, RestartStep
<1>6. CASE UNCHANGED vars
  <2>1. /\ UNCHANGED <<chain, mined, state, stateEvents, blockEvents, status, starts, synced>>
        /\ UNCHANGED <<best, saved, mon, left, watched, background, processors, owed, task>>
    BY <1>6 DEF vars, kit, app, node
  <2>2. TypeOK' /\ ChainHeights'
    BY <2>1 DEF IInv, TypeOK, ChainHeights
  <2>3. Grows
    BY <2>1, TypedGrowth
  <2>4. QED BY <2>1, <2>2, <2>3, QuietStep
<1>7. QED
  BY <1>1, <1>2, <1>3, <1>4, <1>5, <1>6 DEF Next, Stopped

\* The invariant holds in every state: of the kit, the adapter and the tasks of
\* LightningService, for any number of each.
THEOREM Inductive == Spec => []IInv
BY InitialState, InductiveStep, PTL DEF Spec

\* Every variable keeps its type, and a task that feeds the listeners has a block.
THEOREM TypeCorrect == Spec => []TypeOK
<1>1. IInv => TypeOK
  BY DEF IInv
<1>2. QED BY <1>1, Inductive, PTL

\* No interleaving of tasks, failures, forks and launches makes a task skip a block,
\* although it read the manager's height before its awaits.
THEOREM NoSkip == Spec => []NeverSkips
<1>1. IInv => NeverSkips
  <2> SUFFICES ASSUME IInv, NEW t \in Tasks, task[t].pc \in {"fetch", "manager"},
                      task[t].blocks # <<>>
               PROVE  Head(task[t].blocks).height <= best.height + 1
    BY DEF NeverSkips
  <2>1. QED BY TaskFacts DEF TaskOK
<1>2. QED BY <1>1, Inductive, PTL

\* A block reaches the chain monitor only after the manager had one of its height.
THEOREM MonitorsBehind == Spec => []MonitorAfterManager
<1>1. IInv => MonitorAfterManager
  <2> SUFFICES ASSUME IInv, NEW t \in Tasks, task[t].pc = "monitor"
               PROVE  Head(task[t].blocks).height <= best.height
    BY DEF MonitorAfterManager
  <2>1. QED BY TaskFacts DEF TaskOK
<1>2. QED BY <1>1, Inductive, PTL

\* Between the two listener calls of a block nothing can end the task or take the
\* block from it.
THEOREM NothingLost == Spec => []NothingOwed
<1>1. IInv => NothingOwed
  BY DEF IInv
<1>2. QED BY <1>1, Inductive, PTL

\* The flag is raised only with LDK's thread running and the monitors watched, even
\* by a task whose check of backgroundProcessor was overtaken, and whichever of two
\* processors started at once the assignments leave running.
THEOREM SyncedSafe == Spec => []SyncedMeansWatched
<1>1. IInv => SyncedMeansWatched
  BY DEF IInv, Watching, ProcessorOf, WatchedFor, SyncedMeansWatched
<1>2. QED BY <1>1, Inductive, PTL
=============================================================================
