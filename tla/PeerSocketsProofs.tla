--------------------------- MODULE PeerSocketsProofs ---------------------------
(***************************************************************************)
(* Proofs about PeerSockets, for every set of descriptors and callers and  *)
(* every capacity.  IInv is the inductive invariant: the typing and the    *)
(* safety properties need each other, and need to know that a descriptor   *)
(* between socket()/accept() and register_socket belongs to one thread.    *)
(***************************************************************************)
EXTENDS PeerSockets, SequenceTheorems, WellFoundedInduction, TLAPS

\* What a slot polls for is one event: register_socket and every later writer of
\* the field store POLLIN or POLLOUT alone.
OneEvent == {{"POLLIN"}, {"POLLOUT"}}
SingleEvents ==
    /\ \A i \in DOMAIN pollfds : pollfds[i].events \in OneEvent
    /\ update # <<>> => update[2] \in OneEvent
    /\ \A i \in DOMAIN snap : /\ snap[i].events \in OneEvent
                              /\ snap[i].revents \subseteq snap[i].events

\* A descriptor that was opened and not registered yet has one owner, the thread
\* that opened it, and is in no slot.
InNoSlot(fd) == \A i \in DOMAIN pollfds : pollfds[i].fd # fd
Unregistered(fd) == file[fd] # 0 /\ InNoSlot(fd)
Accepting == pc \in {"inbound", "register"}
PrivateDescriptors ==
    /\ Accepting => newfd \in Fds /\ Unregistered(newfd)
    /\ \A c \in Connectors :
        /\ cpc[c] # "idle" => cfd[c] \in Fds /\ csock[c] # 0
        /\ cpc[c] = "register" =>
            /\ Unregistered(cfd[c])
            /\ Accepting => cfd[c] # newfd
            /\ \A d \in Connectors : cpc[d] = "register" /\ cfd[d] = cfd[c] => d = c

\* The entry the socket thread is at: its event is still to be handled, all
\* earlier entries are done, and the marks all lie before it.
IsFirst(i) == snap[i].revents # {} /\ \A j \in 1..(i - 1) : snap[j].revents = {}
Handling == pc \in {"handle", "event", "inbound", "register", "drain"}
MarksBehindLoop ==
    /\ pc = "close" => k <= Len(close_socks) + 1
    /\ UsesIndices => \A m \in DOMAIN close_socks : close_socks[m] \in DOMAIN snap
    /\ Handling => \A m \in DOMAIN close_socks, i \in DOMAIN snap :
                       snap[i].revents # {} => close_socks[m] < i
    /\ pc = "poll" => close_socks = <<>>
    /\ pc \in {"event", "inbound", "register"} =>
           \E i \in DOMAIN snap : IsFirst(i) /\ snap[i].revents = {"POLLIN"}
    /\ pc = "drain" =>
           \E i \in DOMAIN snap : IsFirst(i) /\ snap[i].revents = {"POLLOUT"}

IInv ==
    /\ TypeOK
    /\ SlotsNameTheirSocket
    /\ NoDuplicateFd
    /\ SingleEvents
    /\ PrivateDescriptors
    /\ IndicesStillName
    /\ MarksBehindLoop
    /\ MarkedOnce
-----------------------------------------------------------------------------
(* Sequences *)

\* A sequence rebuilt entry by entry keeps its length.
LEMMA MapSeq ==
    ASSUME NEW S, NEW T, NEW s \in Seq(S), NEW f \in [DOMAIN s -> T]
    PROVE  f \in Seq(T) /\ Len(f) = Len(s) /\ DOMAIN f = DOMAIN s
<1>1. Len(s) \in Nat /\ DOMAIN s = 1..Len(s)
  BY LenProperties
<1>2. f \in Seq(T)
  BY <1>1, SMT
<1>3. Len(f) \in Nat /\ DOMAIN f = 1..Len(f)
  BY <1>2, LenProperties
<1>4. QED BY <1>1, <1>2, <1>3, SMT

\* RemoveAt shifts what follows the removed entry down by one.
LEMMA RemoveAtProperties ==
    ASSUME NEW S, NEW s \in Seq(S), NEW i \in 1..Len(s)
    PROVE  /\ RemoveAt(s, i) \in Seq(S)
           /\ Len(RemoveAt(s, i)) = Len(s) - 1
           /\ \A j \in 1..(Len(s) - 1) :
                  RemoveAt(s, i)[j] = IF j < i THEN s[j] ELSE s[j + 1]
<1> DEFINE a == SubSeq(s, 1, i - 1)
           b == SubSeq(s, i + 1, Len(s))
<1>0. Len(s) \in Nat /\ \A j \in 1..Len(s) : s[j] \in S
  BY LenProperties
<1>1. /\ a \in Seq(S) /\ Len(a) = i - 1
      /\ \A j \in 1..(i - 1) : a[j] = s[j]
  BY <1>0, SubSeqProperties, SMT
<1>2. /\ b \in Seq(S) /\ Len(b) = Len(s) - i
      /\ \A j \in 1..(Len(s) - i) : b[j] = s[i + j]
  BY <1>0, SubSeqProperties, SMT
<1>3. /\ a \o b \in Seq(S) /\ Len(a \o b) = Len(a) + Len(b)
      /\ \A j \in 1..(Len(a) + Len(b)) :
             (a \o b)[j] = IF j <= Len(a) THEN a[j] ELSE b[j - Len(a)]
  BY <1>1, <1>2, ConcatProperties
<1>4. RemoveAt(s, i) = a \o b
  BY DEF RemoveAt
<1> HIDE DEF a, b
<1>5. Len(a) + Len(b) = Len(s) - 1
  BY <1>0, <1>1, <1>2, SMT
<1>6. ASSUME NEW j \in 1..(Len(s) - 1)
      PROVE  (a \o b)[j] = IF j < i THEN s[j] ELSE s[j + 1]
  <2>1. CASE j < i
    BY <2>1, <1>0, <1>1, <1>3, <1>5, SMT
  <2>2. CASE ~(j < i)
    <3>1. (a \o b)[j] = b[j - (i - 1)]
      BY <2>2, <1>0, <1>1, <1>3, <1>5, SMT
    <3>2. j - (i - 1) \in 1..(Len(s) - i) /\ i + (j - (i - 1)) = j + 1
      BY <2>2, <1>0, SMT
    <3>3. QED BY <2>2, <3>1, <3>2, <1>2
  <2>3. QED BY <2>1, <2>2
<1>7. QED BY <1>3, <1>4, <1>5, <1>6

\* A set of naturals that is not empty has a least element.
LEMMA LeastNat ==
    ASSUME NEW T \in SUBSET Nat, T # {}
    PROVE  \E x \in T : \A y \in T : x <= y
<1>1. PICK x \in T : \A y \in T : ~(<<y, x>> \in OpToRel(<, Nat))
  BY NatLessThanWellFounded, WFMin
<1>2. \A y \in T : ~(y < x)
  BY <1>1 DEF OpToRel
<1>3. QED BY <1>2, SMT

-----------------------------------------------------------------------------
(* What the shared operators do to the types *)

\* The socket a descriptor names, when it names one.
LEMMA NamedSocket ==
    ASSUME KernelTypeOK, NEW fd \in Fds
    PROVE  born \in Nat /\ {file[fd]} \ {0} \subseteq 1..born
<1>1. born \in Nat /\ file[fd] \in 0..born
  BY BoundAssumption, SMT DEF KernelTypeOK
<1>2. \A s \in {file[fd]} \ {0} : s \in 1..born
  BY <1>1, SMT
<1>3. QED BY <1>1, <1>2

LEMMA ShutdownTypes ==
    ASSUME KernelTypeOK, NEW fd \in Fds, Shutdown(fd), UNCHANGED <<file, born, listeners>>
    PROVE  KernelTypeOK'
BY NamedSocket DEF KernelTypeOK, Shutdown

\* A new socket gets a number that named nothing.
LEMMA NewSocketTypes ==
    ASSUME KernelTypeOK, ManagerTypeOK, NEW fd \in Fds, NewSocket(fd),
           UNCHANGED <<hung, manager>>, listeners' \in {listeners, {born + 1}}
    PROVE  /\ KernelTypeOK' /\ ManagerTypeOK'
           /\ file[fd] = 0 /\ file'[fd] = born + 1 /\ born + 1 \in Sockets
           /\ \A f \in Fds : f # fd => file'[f] = file[f]
<1>1. born \in Nat /\ born < MaxSockets /\ MaxSockets \in Nat /\ born' = born + 1
  BY BoundAssumption, SMT DEF KernelTypeOK, NewSocket
<1>2. KernelTypeOK'
  BY <1>1, SMT DEF KernelTypeOK, NewSocket
<1>3. ManagerTypeOK'
  BY <1>1, SMT DEF ManagerTypeOK, manager
<1>4. QED
  BY <1>1, <1>2, <1>3, SMT DEF KernelTypeOK, NewSocket, Sockets

\* The sockets the callers made stay sockets when another is made.
LEMMA OldSockets ==
    ASSUME KernelTypeOK, CallerTypeOK, UNCHANGED callers, born' \in {born, born + 1}
    PROVE  CallerTypeOK'
<1>1. born \in Nat
  BY BoundAssumption, SMT DEF KernelTypeOK
<1>2. \A n \in 0..born : n \in 0..born'
  BY <1>1, SMT
<1>3. QED BY <1>2 DEF CallerTypeOK, callers

\* Closing a descriptor.
LEMMA CloseTypes ==
    ASSUME KernelTypeOK, NEW fd \in Fds, file' = [file EXCEPT ![fd] = 0],
           UNCHANGED <<born, hung, listeners>>
    PROVE  KernelTypeOK' /\ file'[fd] = 0 /\ \A f \in Fds : f # fd => file'[f] = file[f]
BY SMT DEF KernelTypeOK

LEMMA ForgetTypes ==
    ASSUME ManagerTypeOK, KernelTypeOK, NEW fd \in Fds, Forget(fd),
           UNCHANGED <<born, refused, update>>, pm' \in Holders
    PROVE  ManagerTypeOK'
<1>1. /\ peers' \in [Fds -> 0..born] /\ link' \in [Fds -> {"new", "up", "stalled"}]
      /\ late' \subseteq Fds
  BY SMT DEF ManagerTypeOK, KernelTypeOK, Forget
<1>2. QED BY <1>1 DEF ManagerTypeOK

LEMMA NewConnectionTypes ==
    ASSUME ManagerTypeOK, KernelTypeOK, HandlerTypeOK,
           NEW fd \in Fds, NEW sock \in 0..born, sock # 0, NEW result,
           NewConnection(fd, sock, result), late' \subseteq Fds,
           UNCHANGED <<born, pm, update, pollfds, mutex, exit>>
    PROVE  ManagerTypeOK' /\ HandlerTypeOK'
<1>1. fault' \in Faults
  BY DEF NewConnection, HandlerTypeOK, Faults
<1>2. peers' \in [Fds -> 0..born] /\ link' \in [Fds -> {"new", "up", "stalled"}]
  BY DEF ManagerTypeOK, NewConnection
<1>3. refused' \subseteq 1..born
  <2>1. sock \in 1..born
    BY BoundAssumption, SMT DEF KernelTypeOK
  <2>2. QED BY <2>1 DEF ManagerTypeOK, NewConnection
<1>4. QED BY <1>1, <1>2, <1>3 DEF ManagerTypeOK, HandlerTypeOK

LEMMA SendDataTypes ==
    ASSUME TypeOK, NEW t, NEW fd \in Fds, SendData(t, fd)
    PROVE  TypeOK'
<1>1. UNCHANGED <<file, born, listeners, handler, peers, late, refused, pm, thread, callers>>
  BY DEF SendData
<1>2. hung' \subseteq 1..born
  BY NamedSocket DEF SendData, Shutdown, TypeOK, KernelTypeOK
<1>3. link' \in [Fds -> {"new", "up", "stalled"}]
  BY DEF SendData, TypeOK, ManagerTypeOK
<1>4. update' \in {<<>>} \cup (Fds \X SUBSET Events)
  <2>1. update' \in {update, <<>>, <<fd, {"POLLIN"}>>, <<fd, {"POLLOUT"}>>}
    BY DEF SendData, PauseRead
  <2>2. {"POLLIN"} \in SUBSET Events /\ {"POLLOUT"} \in SUBSET Events
    BY DEF Events
  <2>3. QED BY <2>1, <2>2 DEF TypeOK, ManagerTypeOK
<1>5. QED
  BY <1>1, <1>2, <1>3, <1>4
  DEF TypeOK, KernelTypeOK, HandlerTypeOK, ManagerTypeOK, ThreadTypeOK, CallerTypeOK,
      handler, thread, callers

-----------------------------------------------------------------------------
(* Steps that leave the slots where they are *)

LEMMA SlotTypes ==
    ASSUME HandlerTypeOK
    PROVE  /\ pollfds \in Seq(PollFd) /\ Len(pollfds) \in Nat
           /\ DOMAIN pollfds = 1..Len(pollfds)
           /\ \A i \in DOMAIN pollfds : pollfds[i] \in PollFd /\ pollfds[i].fd \in Fds
<1>1. /\ pollfds \in Seq(PollFd) /\ Len(pollfds) \in Nat
      /\ DOMAIN pollfds = 1..Len(pollfds)
  BY LenProperties DEF HandlerTypeOK
<1>2. \A i \in DOMAIN pollfds : pollfds[i] \in PollFd
  BY <1>1, ElementOfSeq
<1>3. \A e \in PollFd : e.fd \in Fds
  BY DEF PollFd
<1>4. QED BY <1>1, <1>2, <1>3

\* The slots there were keep their place and name; others may follow.
KeepsSlots ==
    \A i \in DOMAIN pollfds : /\ i \in DOMAIN pollfds'
                              /\ pollfds'[i].fd = pollfds[i].fd
                              /\ pollfds'[i].sock = pollfds[i].sock
SameSlots == KeepsSlots /\ DOMAIN pollfds' = DOMAIN pollfds

LEMMA UnchangedSlots == UNCHANGED pollfds => SameSlots
BY DEF SameSlots, KeepsSlots

LEMMA SameNames ==
    ASSUME SameSlots, UNCHANGED file, SlotsNameTheirSocket, NoDuplicateFd
    PROVE  SlotsNameTheirSocket' /\ NoDuplicateFd'
BY DEF SameSlots, KeepsSlots, SlotsNameTheirSocket, NoDuplicateFd

LEMMA SamePrivate ==
    ASSUME SameSlots, UNCHANGED <<file, pc, newfd, callers>>, PrivateDescriptors
    PROVE  PrivateDescriptors'
BY DEF SameSlots, KeepsSlots, PrivateDescriptors, Unregistered, InNoSlot, Accepting, callers

\* The thread's copy and marks are not touched by what other threads do.
LEMMA SameLoop ==
    ASSUME KeepsSlots, UNCHANGED <<pc, snap, close_socks, k>>, fault' # "close_idx",
           IndicesStillName, MarksBehindLoop, MarkedOnce
    PROVE  IndicesStillName' /\ MarksBehindLoop' /\ MarkedOnce'
<1>1. IndicesStillName'
  BY DEF KeepsSlots, IndicesStillName, UsesIndices, Behind, Moved
<1>2. MarksBehindLoop'
  BY DEF MarksBehindLoop, UsesIndices, Handling, IsFirst
<1>3. MarkedOnce'
  BY DEF MarkedOnce
<1>4. QED BY <1>1, <1>2, <1>3

\* A slot's descriptor is open.
LEMMA OpenSlots ==
    ASSUME HandlerTypeOK, SlotsNameTheirSocket
    PROVE  \A i \in DOMAIN pollfds : file[pollfds[i].fd] # 0
<1>1. \A i \in DOMAIN pollfds : pollfds[i].sock \in Sockets
  BY SlotTypes DEF PollFd
<1>2. 0 \notin Sockets
  BY SMT DEF Sockets
<1>3. QED BY <1>1, <1>2 DEF SlotsNameTheirSocket

\* A descriptor that is in no slot joins the array at the end.
LEMMA RegisterNames ==
    ASSUME HandlerTypeOK, SlotsNameTheirSocket, NoDuplicateFd, SingleEvents,
           NEW fd \in Fds, NEW s \in Sockets, InNoSlot(fd), RegisterSocket(fd, s),
           file'[fd] = s, \A f \in Fds : f # fd => file'[f] = file[f],
           UNCHANGED <<mutex, exit>>
    PROVE  /\ HandlerTypeOK' /\ (fault' # "close_idx" \/ fault' = fault)
           /\ KeepsSlots /\ SlotsNameTheirSocket' /\ NoDuplicateFd'
           /\ \A i \in DOMAIN pollfds' : pollfds'[i].events \in OneEvent
           /\ \A f \in Fds \ {fd} : InNoSlot(f) => InNoSlot(f)'
<1> DEFINE e == [fd |-> fd, events |-> {"POLLIN"}, sock |-> s]
<1>1. /\ pollfds \in Seq(PollFd) /\ Len(pollfds) \in Nat
      /\ DOMAIN pollfds = 1..Len(pollfds)
      /\ \A i \in DOMAIN pollfds : pollfds[i].fd \in Fds
  BY SlotTypes
<1>2. CASE UNCHANGED pollfds
  <2>1. fault' \in Faults /\ (fault' # "close_idx" \/ fault' = fault)
    BY DEF RegisterSocket, HandlerTypeOK, Faults
  <2>2. QED
    BY <1>1, <1>2, <2>1 DEF KeepsSlots, HandlerTypeOK, SlotsNameTheirSocket, NoDuplicateFd,
       SingleEvents, InNoSlot
<1>3. CASE pollfds' = AtEnd(e) /\ UNCHANGED fault
  <2>1. e \in PollFd
    BY DEF PollFd, Events
  <2>2. /\ pollfds' \in Seq(PollFd) /\ Len(pollfds') = Len(pollfds) + 1
        /\ \A i \in 1..Len(pollfds) : pollfds'[i] = pollfds[i]
        /\ pollfds'[Len(pollfds) + 1] = e
    BY <1>1, <1>3, <2>1, AppendProperties DEF AtEnd
  <2>3. DOMAIN pollfds' = 1..(Len(pollfds) + 1)
    BY <2>2, LenProperties
  <2>4. \A i \in DOMAIN pollfds' : /\ i \in DOMAIN pollfds => pollfds'[i] = pollfds[i]
                                   /\ i \notin DOMAIN pollfds => pollfds'[i] = e
    BY <1>1, <2>2, <2>3, SMT
  <2>5. \A i \in DOMAIN pollfds' : i \notin DOMAIN pollfds => i = Len(pollfds) + 1
    BY <1>1, <2>3, SMT
  <2>6. e.fd = fd /\ e.events = {"POLLIN"} /\ e.sock = s
    OBVIOUS
  <2> HIDE DEF e
  <2>7. HandlerTypeOK' /\ fault' = fault
    BY <1>3, <2>2 DEF HandlerTypeOK
  <2>8. KeepsSlots
    BY <1>1, <2>3, <2>4, SMT DEF KeepsSlots
  <2>9. SlotsNameTheirSocket'
    BY <1>1, <2>4, <2>6 DEF SlotsNameTheirSocket, InNoSlot
  <2>10. NoDuplicateFd'
    BY <1>1, <2>4, <2>5, <2>6 DEF NoDuplicateFd, InNoSlot
  <2>11. \A i \in DOMAIN pollfds' : pollfds'[i].events \in OneEvent
    BY <2>4, <2>6 DEF SingleEvents, OneEvent
  <2>12. \A f \in Fds \ {fd} : InNoSlot(f) => InNoSlot(f)'
    BY <2>4, <2>6 DEF InNoSlot
  <2>13. QED BY <2>7, <2>8, <2>9, <2>10, <2>11, <2>12
<1>4. QED BY <1>2, <1>3 DEF RegisterSocket

\* sock_send_data writes one slot's events and no name.
LEMMA SetEventsSlots ==
    ASSUME IInv, NEW t, SetEvents(t)
    PROVE  TypeOK' /\ SameSlots /\ SingleEvents'
<1> DEFINE ev(i) == IF /\ pollfds[i].fd = update[1]
                       /\ \A j \in 1..(i - 1) : pollfds[j].fd # update[1]
                    THEN [pollfds[i] EXCEPT !.events = update[2]] ELSE pollfds[i]
<1>1. pollfds' = [i \in DOMAIN pollfds |-> ev(i)]
  BY DEF SetEvents
<1>2. /\ pollfds \in Seq(PollFd) /\ update[2] \in SUBSET Events /\ update[2] \in OneEvent
      /\ \A i \in DOMAIN pollfds : pollfds[i] \in PollFd
  <2>1. pollfds \in Seq(PollFd) /\ update \in Fds \X SUBSET Events /\ update # <<>>
    BY DEF IInv, TypeOK, HandlerTypeOK, ManagerTypeOK, SetEvents
  <2>2. QED BY <2>1, LenProperties DEF IInv, SingleEvents
<1>3. \A i \in DOMAIN pollfds :
          /\ ev(i) \in PollFd /\ ev(i).fd = pollfds[i].fd /\ ev(i).sock = pollfds[i].sock
          /\ ev(i).events \in {update[2], pollfds[i].events}
  BY <1>2 DEF PollFd
<1> HIDE DEF ev
<1>4. pollfds' \in [DOMAIN pollfds -> PollFd]
  BY <1>1, <1>3
<1>5. pollfds' \in Seq(PollFd) /\ DOMAIN pollfds' = DOMAIN pollfds
  BY <1>2, <1>4, MapSeq
<1>6. TypeOK'
  BY <1>5 DEF SetEvents, IInv, TypeOK, KernelTypeOK, HandlerTypeOK, ManagerTypeOK,
     ThreadTypeOK, CallerTypeOK, kernel, thread, callers
<1>7. SameSlots
  BY <1>1, <1>3, <1>5 DEF SameSlots, KeepsSlots
<1>8. SingleEvents'
  BY <1>1, <1>2, <1>3, <1>5 DEF SingleEvents, IInv, SetEvents, thread
<1>9. QED BY <1>6, <1>7, <1>8

-----------------------------------------------------------------------------
(* Steps of the loop over the copy *)

LEMMA SnapTypes ==
    ASSUME ThreadTypeOK
    PROVE  /\ snap \in Seq(SnapFd) /\ Len(snap) \in Nat /\ DOMAIN snap = 1..Len(snap)
           /\ \A i \in DOMAIN snap : snap[i] \in SnapFd /\ snap[i].fd \in Fds
<1>1. snap \in Seq(SnapFd) /\ Len(snap) \in Nat /\ DOMAIN snap = 1..Len(snap)
  BY LenProperties DEF ThreadTypeOK
<1>2. \A i \in DOMAIN snap : snap[i] \in SnapFd
  BY <1>1, ElementOfSeq
<1>3. \A e \in SnapFd : e.fd \in Fds
  BY DEF SnapFd
<1>4. QED BY <1>1, <1>2, <1>3

\* Only one entry can be the first with an event, and Current is that entry.
LEMMA CurrentIsFirst ==
    ASSUME ThreadTypeOK, NEW i \in DOMAIN snap, IsFirst(i)
    PROVE  Current = i
<1>1. \A j \in DOMAIN snap : IsFirst(j) => j = i
  BY SnapTypes, SMT DEF IsFirst
<1>2. QED BY <1>1 DEF Current, IsFirst

LEMMA SomeFirst ==
    ASSUME ThreadTypeOK, \E i \in DOMAIN snap : snap[i].revents # {}
    PROVE  Current \in DOMAIN snap /\ IsFirst(Current)
<1> DEFINE T == {i \in DOMAIN snap : snap[i].revents # {}}
<1>1. T \in SUBSET Nat /\ T # {}
  BY SnapTypes
<1>2. PICK i \in T : \A j \in T : i <= j
  BY <1>1, LeastNat
<1>3. i \in DOMAIN snap /\ IsFirst(i)
  <2>1. \A j \in 1..(i - 1) : j \in DOMAIN snap /\ ~(i <= j)
    BY <1>2, SnapTypes, SMT
  <2>2. QED BY <1>2, <2>1 DEF IsFirst
<1>4. QED BY <1>3, CurrentIsFirst

\* Where the thread handles an event, Current is the entry it is at, and that
\* entry has no other event.
LEMMA CurrentEvent ==
    ASSUME IInv, NEW ev, \/ AtEvent(ev)
                         \/ pc \in {"event", "inbound", "register"} /\ ev = "POLLIN"
                         \/ pc = "drain" /\ ev = "POLLOUT"
    PROVE  /\ Current \in DOMAIN snap /\ IsFirst(Current) /\ Handling
           /\ snap[Current].revents = {ev}
<1>1. CASE AtEvent(ev)
  <2>1. Current \in DOMAIN snap /\ IsFirst(Current)
    BY <1>1, SomeFirst DEF AtEvent, IInv, TypeOK
  <2>2. /\ snap[Current].events \in OneEvent
        /\ snap[Current].revents \subseteq snap[Current].events /\ ev \in snap[Current].revents
    BY <1>1, <2>1 DEF AtEvent, IInv, SingleEvents
  <2>3. snap[Current].revents = {ev}
    BY <2>2 DEF OneEvent
  <2>4. QED BY <1>1, <2>1, <2>3 DEF AtEvent, Handling
<1>2. CASE pc \in {"event", "inbound", "register"} /\ ev = "POLLIN"
  BY <1>2, CurrentIsFirst DEF IInv, TypeOK, MarksBehindLoop, Handling
<1>3. CASE pc = "drain" /\ ev = "POLLOUT"
  BY <1>3, CurrentIsFirst DEF IInv, TypeOK, MarksBehindLoop, Handling
<1>4. QED BY <1>1, <1>2, <1>3

\* Finishing the current entry, marked or not.
LEMMA FinishEntry ==
    ASSUME IInv, NEW ev, Current \in DOMAIN snap, IsFirst(Current), Handling,
           snap[Current].revents = {ev}, Handled(ev),
           MarkClose \/ UNCHANGED close_socks, pc' = "handle",
           UNCHANGED k, newfd' \in Fds \cup {NoFd}, fault' # "close_idx"
    PROVE  /\ ThreadTypeOK' /\ MarksBehindLoop' /\ MarkedOnce'
           /\ DOMAIN snap' = DOMAIN snap
           /\ \A i \in DOMAIN snap : /\ snap'[i].fd = snap[i].fd /\ snap'[i].sock = snap[i].sock
                                     /\ snap'[i].events = snap[i].events
                                     /\ snap'[i].revents \subseteq snap[i].revents
<1> DEFINE c == Current
           e == [snap[c] EXCEPT !.revents = @ \ {ev}]
<1>1. /\ snap \in Seq(SnapFd) /\ Len(snap) \in Nat /\ DOMAIN snap = 1..Len(snap)
      /\ \A i \in DOMAIN snap : snap[i] \in SnapFd
      /\ close_socks \in Seq(Nat) /\ c \in Nat
  BY SnapTypes DEF IInv, TypeOK, ThreadTypeOK
<1>2. /\ e \in SnapFd /\ e.fd = snap[c].fd /\ e.sock = snap[c].sock
      /\ e.events = snap[c].events /\ e.revents = {}
  BY <1>1 DEF SnapFd
<1>3. snap' = [snap EXCEPT ![c] = e]
  BY DEF Handled
<1> HIDE DEF e
<1>4. /\ snap' \in Seq(SnapFd) /\ DOMAIN snap' = DOMAIN snap
      /\ \A i \in DOMAIN snap : snap'[i] = IF i = c THEN e ELSE snap[i]
  BY <1>1, <1>2, <1>3, ExceptSeq
<1>5. \A i \in DOMAIN snap' : snap'[i].revents # {} => snap[i].revents # {} /\ c < i
  <2>1. \A i \in DOMAIN snap : snap[i].revents # {} /\ i # c => c < i
    BY <1>1, SMT DEF IsFirst
  <2>2. QED BY <1>2, <1>4, <2>1
<1> HIDE DEF c
<1>6. \A m \in DOMAIN close_socks :
          close_socks[m] \in DOMAIN snap /\ close_socks[m] < c
  BY DEF IInv, MarksBehindLoop, Handling, UsesIndices, IsFirst, c
<1>7. c \in DOMAIN snap
  BY DEF c
<1>8. /\ close_socks' \in Seq(Nat)
      /\ \A m \in DOMAIN close_socks' : close_socks'[m] \in DOMAIN snap /\ close_socks'[m] <= c
      /\ \A m, n \in DOMAIN close_socks' : m < n => close_socks'[m] < close_socks'[n]
  <2>1. Len(close_socks) \in Nat /\ DOMAIN close_socks = 1..Len(close_socks)
    BY <1>1, LenProperties
  <2>2. CASE UNCHANGED close_socks
    BY <1>1, <1>6, <2>2, <2>1, SMT DEF IInv, MarkedOnce
  <2>3. CASE close_socks' = Append(close_socks, c)
    <3>1. /\ close_socks' \in Seq(Nat) /\ Len(close_socks') = Len(close_socks) + 1
          /\ \A i \in 1..Len(close_socks) : close_socks'[i] = close_socks[i]
          /\ close_socks'[Len(close_socks) + 1] = c
      BY <1>1, <2>3, AppendProperties
    <3>2. DOMAIN close_socks' = 1..(Len(close_socks) + 1)
      BY <3>1, LenProperties
    <3>3. \A m \in DOMAIN close_socks' :
              \/ m \in DOMAIN close_socks /\ close_socks'[m] = close_socks[m]
              \/ m = Len(close_socks) + 1 /\ close_socks'[m] = c
      BY <2>1, <3>1, <3>2, SMT
    <3>4. \A m \in DOMAIN close_socks' : close_socks'[m] \in DOMAIN snap /\ close_socks'[m] <= c
      BY <1>1, <1>6, <1>7, <3>3, SMT
    <3>5. ASSUME NEW m \in DOMAIN close_socks', NEW n \in DOMAIN close_socks', m < n
          PROVE  close_socks'[m] < close_socks'[n]
      <4>1. m \in DOMAIN close_socks /\ close_socks'[m] = close_socks[m]
        BY <2>1, <3>2, <3>3, <3>5, SMT
      <4>2. CASE n \in DOMAIN close_socks
        BY <2>1, <3>1, <3>5, <4>1, <4>2 DEF IInv, MarkedOnce
      <4>3. CASE n \notin DOMAIN close_socks
        BY <1>6, <3>3, <4>1, <4>3
      <4>4. QED BY <4>2, <4>3
    <3>6. QED BY <3>1, <3>4, <3>5
  <2>4. QED BY <2>2, <2>3 DEF MarkClose, c
<1>9. ThreadTypeOK'
  BY <1>4, <1>8 DEF ThreadTypeOK, ThreadPC, IInv, TypeOK
<1>10. MarksBehindLoop'
  <2>1. \A m \in DOMAIN close_socks', i \in DOMAIN snap' :
            snap'[i].revents # {} => close_socks'[m] < i
    BY <1>1, <1>4, <1>5, <1>8, SMTT(30) DEF c
  <2>2. QED BY <1>4, <1>8, <2>1 DEF MarksBehindLoop
<1>11. MarkedOnce'
  BY <1>8 DEF MarkedOnce
<1>12. QED BY <1>2, <1>4, <1>9, <1>10, <1>11

-----------------------------------------------------------------------------
(* Steps of the other threads and of PeerManager *)

\* A step that opens, closes, registers and hands over nothing.
LEMMA QuietStep ==
    ASSUME IInv, TypeOK', SameSlots, SingleEvents', UNCHANGED <<file, thread, callers>>,
           fault' # "close_idx"
    PROVE  IInv'
<1>1. SlotsNameTheirSocket' /\ NoDuplicateFd'
  BY SameNames DEF IInv
<1>2. PrivateDescriptors'
  BY SamePrivate DEF IInv, thread
<1>3. IndicesStillName' /\ MarksBehindLoop' /\ MarkedOnce'
  BY SameLoop DEF IInv, SameSlots, thread
<1>4. QED BY <1>1, <1>2, <1>3 DEF IInv

LEMMA QuietHandlerStep ==
    ASSUME IInv, TypeOK', UNCHANGED <<file, pollfds, thread, callers>>,
           fault' # "close_idx",
           update' # <<>> => update' = update \/ update'[2] \in OneEvent
    PROVE  IInv'
<1>1. SingleEvents'
  BY DEF IInv, SingleEvents, thread
<1>2. QED BY <1>1, QuietStep, UnchangedSlots

LEMMA StutterStep ==
    ASSUME IInv, UNCHANGED vars PROVE IInv'
<1>1. TypeOK' /\ fault' # "close_idx"
  BY DEF IInv, MarkedOnce, TypeOK, KernelTypeOK, HandlerTypeOK, ManagerTypeOK, ThreadTypeOK,
     CallerTypeOK, vars, kernel, handler, manager, thread, callers
<1>2. QED BY <1>1, QuietHandlerStep DEF vars, kernel, handler, manager

\* send_data, from whichever thread entered PeerManager.
LEMMA SendStep ==
    ASSUME IInv, NEW t, (\E fd \in Fds : SendData(t, fd)) \/ SetEvents(t)
    PROVE  /\ TypeOK' /\ SameSlots /\ SingleEvents'
           /\ UNCHANGED <<file, thread, callers>> /\ fault' # "close_idx"
<1>1. ASSUME NEW fd \in Fds, SendData(t, fd)
      PROVE  /\ TypeOK' /\ SameSlots /\ SingleEvents'
             /\ UNCHANGED <<file, thread, callers>> /\ fault' # "close_idx"
  <2>1. TypeOK'
    BY <1>1, SendDataTypes DEF IInv
  <2>2. update' # <<>> => update' = update \/ update'[2] \in OneEvent
    BY <1>1 DEF SendData, PauseRead, OneEvent
  <2>3. UNCHANGED <<file, handler, thread, callers>>
    BY <1>1 DEF SendData
  <2>4. SingleEvents'
    BY <2>2, <2>3 DEF IInv, SingleEvents, handler, thread
  <2>5. QED
    BY <2>1, <2>3, <2>4, UnchangedSlots DEF handler, IInv, MarkedOnce
<1>2. CASE SetEvents(t)
  <2>1. UNCHANGED <<file, fault, thread, callers>>
    BY <1>2 DEF SetEvents, kernel
  <2>2. QED BY <1>2, <2>1, SetEventsSlots DEF IInv, MarkedOnce
<1>3. QED BY <1>1, <1>2

LEMMA OthersStep ==
    ASSUME IInv, Others, ~Bind
    PROVE  IInv'
<1> USE DEF IInv, MarkedOnce
<1>1. CASE BackgroundEnter
  <2>1. TypeOK'
    BY <1>1 DEF BackgroundEnter, TypeOK, KernelTypeOK, HandlerTypeOK, ManagerTypeOK,
       ThreadTypeOK, CallerTypeOK, Holders, kernel, handler, thread, callers
  <2>2. QED BY <1>1, <2>1, QuietHandlerStep DEF BackgroundEnter, kernel, handler
<1>2. CASE BackgroundSend
  BY <1>2, SendStep, QuietStep DEF BackgroundSend
<1>3. CASE BackgroundReturn
  <2>1. TypeOK'
    BY <1>3 DEF BackgroundReturn, TypeOK, KernelTypeOK, HandlerTypeOK, ManagerTypeOK,
       ThreadTypeOK, CallerTypeOK, Holders, kernel, handler, thread, callers
  <2>2. QED BY <1>3, <2>1, QuietHandlerStep DEF BackgroundReturn, kernel, handler
<1>4. ASSUME NEW fd \in Fds, DisconnectPeer(fd) PROVE IInv'
  <2>1. KernelTypeOK'
    BY <1>4, ShutdownTypes DEF TypeOK, DisconnectPeer, SockDisconnect
  <2>2. ManagerTypeOK'
    BY <1>4, ForgetTypes DEF TypeOK, DisconnectPeer, ManagerTypeOK
  <2>3. TypeOK'
    BY <1>4, <2>1, <2>2 DEF DisconnectPeer, TypeOK, HandlerTypeOK, ThreadTypeOK, CallerTypeOK,
       handler, thread, callers
  <2>4. QED BY <1>4, <2>3, QuietHandlerStep DEF DisconnectPeer, SockDisconnect, handler
<1>5. ASSUME NEW s \in Sockets, RemoteHangup(s) PROVE IInv'
  <2>1. TypeOK'
    BY <1>5 DEF RemoteHangup, TypeOK, KernelTypeOK, HandlerTypeOK, ManagerTypeOK,
       ThreadTypeOK, CallerTypeOK, handler, manager, thread, callers
  <2>2. QED BY <1>5, <2>1, QuietHandlerStep DEF RemoteHangup, handler, manager
<1>6. CASE Interrupt
  <2>1. TypeOK'
    BY <1>6 DEF Interrupt, TypeOK, KernelTypeOK, HandlerTypeOK, ManagerTypeOK,
       ThreadTypeOK, CallerTypeOK, kernel, manager, thread, callers
  <2>2. QED BY <1>6, <2>1, QuietHandlerStep DEF Interrupt, kernel, manager
<1>7. CASE InterruptJoined
  <2>1. TypeOK'
    BY <1>7 DEF InterruptJoined, TypeOK, KernelTypeOK, HandlerTypeOK, ManagerTypeOK,
       ThreadTypeOK, CallerTypeOK, kernel, manager, thread, callers
  <2>2. QED BY <1>7, <2>1, QuietHandlerStep DEF InterruptJoined, kernel, manager
<1>8. CASE UseFreedHandler
  <2>1. TypeOK' /\ fault' # "close_idx"
    BY <1>8 DEF UseFreedHandler, IInv, TypeOK, KernelTypeOK, HandlerTypeOK, ManagerTypeOK,
       ThreadTypeOK, CallerTypeOK, Faults, kernel, manager, thread, callers
  <2>2. QED BY <1>8, <2>1, QuietHandlerStep DEF UseFreedHandler, kernel, manager
<1>9. QED BY <1>1, <1>2, <1>3, <1>4, <1>5, <1>6, <1>7, <1>8 DEF Others

\* socket_bind registers the descriptor it has just opened, or leaks it.
LEMMA BindStep ==
    ASSUME IInv, Bind PROVE IInv'
<1>1. PICK fd \in Fds : /\ NewSocket(fd)
                        /\ \/ RegisterSocket(fd, born + 1) /\ listeners' = {born + 1}
                           \/ UNCHANGED <<pollfds, fault, listeners>>
  BY DEF Bind
<1>2. UNCHANGED <<hung, mutex, exit, manager, thread, callers>>
  BY DEF Bind
<1>3. /\ KernelTypeOK' /\ ManagerTypeOK' /\ CallerTypeOK'
      /\ file[fd] = 0 /\ file'[fd] = born + 1 /\ born + 1 \in Sockets
      /\ \A f \in Fds : f # fd => file'[f] = file[f]
  <2>1. UNCHANGED callers /\ UNCHANGED <<hung, manager>> /\ born' \in {born, born + 1}
        /\ listeners' \in {listeners, {born + 1}} /\ NewSocket(fd)
    BY <1>1, <1>2 DEF NewSocket
  <2>2. KernelTypeOK /\ ManagerTypeOK /\ CallerTypeOK
    BY DEF IInv, TypeOK
  <2>3. CallerTypeOK'
    BY <2>1, <2>2, OldSockets
  <2>4. QED BY <2>1, <2>2, <2>3, NewSocketTypes
<1>4. InNoSlot(fd) /\ \A i \in DOMAIN pollfds : pollfds[i].fd \in Fds
  <2>1. \A i \in DOMAIN pollfds : file[pollfds[i].fd] # 0 /\ pollfds[i].fd \in Fds
    BY OpenSlots, SlotTypes DEF IInv, TypeOK
  <2>2. QED BY <1>3, <2>1 DEF InNoSlot
<1>5. /\ HandlerTypeOK' /\ (fault' # "close_idx" \/ fault' = fault)
      /\ KeepsSlots /\ SlotsNameTheirSocket' /\ NoDuplicateFd'
      /\ \A i \in DOMAIN pollfds' : pollfds'[i].events \in OneEvent
      /\ \A f \in Fds \ {fd} : InNoSlot(f) => InNoSlot(f)'
  <2>1. /\ HandlerTypeOK /\ SlotsNameTheirSocket /\ NoDuplicateFd /\ SingleEvents
        /\ UNCHANGED <<mutex, exit>>
    BY <1>2 DEF IInv, TypeOK
  <2>2. CASE RegisterSocket(fd, born + 1)
    BY <1>3, <1>4, <2>1, <2>2, RegisterNames
  <2>3. CASE UNCHANGED <<pollfds, fault>>
    BY <1>3, <1>4, <2>1, <2>3 DEF HandlerTypeOK, KeepsSlots, SlotsNameTheirSocket,
       NoDuplicateFd, SingleEvents, InNoSlot
  <2>4. QED BY <1>1, <2>2, <2>3
<1>6. TypeOK'
  BY <1>2, <1>3, <1>5 DEF TypeOK, ThreadTypeOK, CallerTypeOK, IInv, thread, callers
<1>7. SingleEvents'
  BY <1>2, <1>5 DEF SingleEvents, IInv, manager, thread
<1>8. PrivateDescriptors'
  <2>1. ASSUME NEW f \in Fds, Unregistered(f) PROVE Unregistered(f)'
    BY <1>3, <1>5, <2>1 DEF Unregistered
  <2>2. QED BY <1>2, <2>1 DEF PrivateDescriptors, IInv, Accepting, thread, callers
<1>9. IndicesStillName' /\ MarksBehindLoop' /\ MarkedOnce'
  BY <1>2, <1>5, SameLoop DEF IInv, MarkedOnce, thread
<1>10. QED BY <1>5, <1>6, <1>7, <1>8, <1>9 DEF IInv

\* A step after which some descriptors joined the slots or lost their owner, and
\* no thread but the caller moved.
LEMMA CallerStep ==
    ASSUME IInv, TypeOK', KeepsSlots, SlotsNameTheirSocket', NoDuplicateFd', SingleEvents',
           PrivateDescriptors', UNCHANGED thread, fault' # "close_idx"
    PROVE  IInv'
<1>1. IndicesStillName' /\ MarksBehindLoop' /\ MarkedOnce'
  BY SameLoop DEF IInv, thread
<1>2. QED BY <1>1 DEF IInv

\* socket(): the new descriptor is the caller's, or leaks.
LEMMA ConnectStep ==
    ASSUME IInv, NEW c \in Connectors, Connect(c) PROVE IInv'
<1>1. PICK fd \in Fds :
        /\ NewSocket(fd)
        /\ \/ /\ cpc' = [cpc EXCEPT ![c] = "register"] /\ cfd' = [cfd EXCEPT ![c] = fd]
              /\ csock' = [csock EXCEPT ![c] = born']
           \/ UNCHANGED callers
  BY DEF Connect
<1>2. UNCHANGED <<hung, listeners, handler, manager, thread>> /\ cpc[c] = "idle"
  BY DEF Connect
<1>3. /\ KernelTypeOK' /\ ManagerTypeOK'
      /\ file[fd] = 0 /\ file'[fd] # 0 /\ born' \in 0..born' /\ born' # 0
      /\ \A n \in 0..born : n \in 0..born'
      /\ \A f \in Fds : f # fd => file'[f] = file[f]
  <2>1. KernelTypeOK /\ ManagerTypeOK /\ 0 \notin Sockets
    BY SMT DEF IInv, TypeOK, Sockets
  <2>2. born \in Nat /\ born' = born + 1
    BY <1>1, NamedSocket DEF IInv, TypeOK, NewSocket
  <2>3. born' \in 0..born' /\ born' # 0 /\ \A n \in 0..born : n \in 0..born'
    BY <2>2, SMT
  <2>4. QED BY <1>1, <1>2, <2>1, <2>3, NewSocketTypes
<1>4. cpc \in [Connectors -> {"idle", "register", "hello", "send"}]
      /\ cfd \in [Connectors -> Fds \cup {NoFd}] /\ csock \in [Connectors -> 0..born]
  BY DEF IInv, TypeOK, CallerTypeOK
<1>5. CallerTypeOK'
  BY <1>1, <1>3, <1>4 DEF CallerTypeOK, callers
<1>6. TypeOK'
  BY <1>2, <1>3, <1>5 DEF TypeOK, HandlerTypeOK, ThreadTypeOK, IInv, handler, thread
<1>7. InNoSlot(fd) /\ \A i \in DOMAIN pollfds : pollfds[i].fd \in Fds
  BY <1>3, OpenSlots, SlotTypes DEF IInv, TypeOK, InNoSlot
<1>8. KeepsSlots /\ SlotsNameTheirSocket' /\ NoDuplicateFd' /\ SingleEvents'
      /\ fault' # "close_idx"
  BY <1>2, <1>3, <1>7 DEF KeepsSlots, SlotsNameTheirSocket, NoDuplicateFd, SingleEvents,
     IInv, MarkedOnce, InNoSlot, handler, manager, thread
<1>9. PrivateDescriptors'
  <2>1. ASSUME NEW f \in Fds, Unregistered(f) PROVE f # fd /\ Unregistered(f)'
    BY <1>2, <1>3, <2>1 DEF Unregistered, InNoSlot, handler
  <2>2. Unregistered(fd)'
    BY <1>2, <1>3, <1>7 DEF Unregistered, InNoSlot, handler
  <2>3. CASE UNCHANGED callers
    BY <1>2, <2>1, <2>3 DEF PrivateDescriptors, IInv, Accepting, callers, thread
  <2>4. CASE /\ cpc' = [cpc EXCEPT ![c] = "register"] /\ cfd' = [cfd EXCEPT ![c] = fd]
             /\ csock' = [csock EXCEPT ![c] = born']
    <3>1. /\ cpc'[c] = "register" /\ cfd'[c] = fd /\ csock'[c] # 0
          /\ \A d \in Connectors :
                 d # c => cpc'[d] = cpc[d] /\ cfd'[d] = cfd[d] /\ csock'[d] = csock[d]
      BY <1>3, <1>4, <2>4
    <3>2. QED BY <1>2, <2>1, <2>2, <3>1 DEF PrivateDescriptors, IInv, Accepting, thread
  <2>5. QED BY <1>1, <2>3, <2>4
<1>10. QED BY <1>2, <1>6, <1>8, <1>9, CallerStep

LEMMA BornNat == KernelTypeOK => born \in Nat
BY BoundAssumption, SMT DEF KernelTypeOK

\* A caller that gives up or moves on owns nothing any more.
LEMMA LeavePrivate ==
    ASSUME PrivateDescriptors, CallerTypeOK, SameSlots, NEW c \in Connectors,
           \/ Return(c)
           \/ cpc[c] # "idle" /\ cpc' \in {[cpc EXCEPT ![c] = "hello"], [cpc EXCEPT ![c] = "send"]}
              /\ UNCHANGED <<cfd, csock>>,
           UNCHANGED <<file, born, pc, newfd>>, born \in Nat
    PROVE  CallerTypeOK' /\ PrivateDescriptors'
<1>1. CallerTypeOK'
  <2>1. 0 \in 0..born
    BY SMT
  <2>2. QED BY <2>1 DEF CallerTypeOK, Return
<1>2. /\ \/ cpc'[c] = "idle"
         \/ /\ cpc[c] # "idle" /\ cpc'[c] \in {"hello", "send"}
            /\ cfd'[c] = cfd[c] /\ csock'[c] = csock[c]
      /\ \A d \in Connectors :
             d # c => cpc'[d] = cpc[d] /\ cfd'[d] = cfd[d] /\ csock'[d] = csock[d]
  BY DEF CallerTypeOK, Return
<1>3. \A f \in Fds : Unregistered(f) => Unregistered(f)'
  BY DEF Unregistered, InNoSlot, SameSlots, KeepsSlots
<1>4. QED BY <1>1, <1>2, <1>3 DEF PrivateDescriptors, Accepting

\* register_socket for a connection the caller opened.
LEMMA ConnectRegisterStep ==
    ASSUME IInv, NEW c \in Connectors, ConnectRegister(c) PROVE IInv'
<1> DEFINE fd == cfd[c]
<1>1. /\ UNCHANGED <<kernel, mutex, exit, manager, thread>> /\ cpc[c] = "register"
      /\ fd \in Fds /\ Unregistered(fd)
  BY DEF ConnectRegister, IInv, PrivateDescriptors
<1>2. KernelTypeOK' /\ ManagerTypeOK' /\ ThreadTypeOK'
  BY <1>1 DEF IInv, TypeOK, KernelTypeOK, ManagerTypeOK, ThreadTypeOK, kernel, manager, thread
<1>3. CASE RegisterSocket(fd, file[fd]) /\ Registering(c)
  <2>1. file[fd] \in Sockets
    BY <1>1, BoundAssumption, SMT DEF IInv, TypeOK, KernelTypeOK, Unregistered, Sockets
  <2>2. /\ HandlerTypeOK /\ SlotsNameTheirSocket /\ NoDuplicateFd /\ SingleEvents
        /\ InNoSlot(fd) /\ UNCHANGED <<file, mutex, exit>>
    BY <1>1 DEF IInv, TypeOK, Unregistered, kernel
  <2>3. /\ HandlerTypeOK' /\ (fault' # "close_idx" \/ fault' = fault)
        /\ KeepsSlots /\ SlotsNameTheirSocket' /\ NoDuplicateFd'
        /\ \A i \in DOMAIN pollfds' : pollfds'[i].events \in OneEvent
        /\ \A f \in Fds \ {fd} : InNoSlot(f) => InNoSlot(f)'
    BY <1>1, <1>3, <2>1, <2>2, RegisterNames
  <2>4. cpc' = [cpc EXCEPT ![c] = "hello"] /\ UNCHANGED <<cfd, csock>>
    BY <1>3 DEF Registering
  <2>5. CallerTypeOK'
    BY <1>1, <2>4 DEF IInv, TypeOK, CallerTypeOK, kernel
  <2>6. SingleEvents'
    BY <1>1, <2>3 DEF SingleEvents, IInv, manager, thread
  <2>7. PrivateDescriptors'
    <3>1. \A f \in Fds \ {fd} : Unregistered(f) => Unregistered(f)'
      BY <2>2, <2>3 DEF Unregistered
    <3>2. /\ cpc'[c] = "hello"
          /\ \A d \in Connectors : d # c => cpc'[d] = cpc[d]
      BY <2>4 DEF IInv, TypeOK, CallerTypeOK
    <3>3. /\ Accepting => newfd # fd
          /\ \A d \in Connectors : cpc[d] = "register" /\ d # c => cfd[d] # fd
      BY <1>1 DEF IInv, PrivateDescriptors
    <3>4. QED
      BY <1>1, <2>4, <3>1, <3>2, <3>3 DEF IInv, PrivateDescriptors, Accepting, thread
  <2>8. QED
    BY <1>1, <1>2, <2>3, <2>5, <2>6, <2>7, CallerStep DEF IInv, MarkedOnce, TypeOK
<1>4. CASE Return(c) /\ UNCHANGED <<pollfds, fault>>
  <2>1. SameSlots /\ UNCHANGED file
    BY <1>1, <1>4, UnchangedSlots DEF kernel
  <2>2. CallerTypeOK' /\ PrivateDescriptors'
    BY <1>1, <1>4, <2>1, LeavePrivate, BornNat DEF IInv, TypeOK, thread, kernel
  <2>3. SlotsNameTheirSocket' /\ NoDuplicateFd'
    BY <2>1, SameNames DEF IInv
  <2>4. SingleEvents' /\ HandlerTypeOK' /\ fault' # "close_idx"
    BY <1>1, <1>4 DEF SingleEvents, IInv, MarkedOnce, TypeOK, HandlerTypeOK, manager, thread
  <2>5. QED
    BY <1>1, <1>2, <2>1, <2>2, <2>3, <2>4, CallerStep DEF SameSlots, TypeOK
<1>5. QED BY <1>3, <1>4 DEF ConnectRegister

\* PeerManager_new_outbound_connection.
LEMMA NewOutboundStep ==
    ASSUME IInv, NEW c \in Connectors, NewOutbound(c) PROVE IInv'
<1>1. PICK result \in Results :
        /\ NewConnection(cfd[c], csock[c], result)
        /\ IF result = "err"
           THEN Shutdown(cfd[c]) /\ Return(c) /\ UNCHANGED late
           ELSE /\ cpc' = [cpc EXCEPT ![c] = "send"] /\ UNCHANGED <<hung, cfd, csock>>
                /\ late' = late \cup (IF InTime(c) THEN {} ELSE {cfd[c]})
  BY DEF NewOutbound
<1>2. /\ UNCHANGED <<file, born, listeners, pollfds, mutex, exit, pm, update, thread>>
      /\ cpc[c] # "idle" /\ cfd[c] \in Fds /\ csock[c] \in 0..born /\ csock[c] # 0
  BY DEF NewOutbound, IInv, PrivateDescriptors, TypeOK, CallerTypeOK
<1>3. ManagerTypeOK' /\ HandlerTypeOK'
  <2>1. late' \subseteq Fds
    BY <1>1, <1>2 DEF IInv, TypeOK, ManagerTypeOK
  <2>2. QED BY <1>1, <1>2, <2>1, NewConnectionTypes DEF IInv, TypeOK
<1>4. KernelTypeOK'
  <2>1. CASE result # "err"
    BY <1>1, <1>2, <2>1 DEF IInv, TypeOK, KernelTypeOK
  <2>2. CASE result = "err"
    BY <1>1, <1>2, <2>2, ShutdownTypes DEF IInv, TypeOK
  <2>3. QED BY <2>1, <2>2
<1>5. SameSlots
  BY <1>2, UnchangedSlots
<1>6. CallerTypeOK' /\ PrivateDescriptors'
  BY <1>1, <1>2, <1>5, LeavePrivate, BornNat DEF IInv, TypeOK, thread
<1>7. SlotsNameTheirSocket' /\ NoDuplicateFd'
  BY <1>2, <1>5, SameNames DEF IInv
<1>8. SingleEvents' /\ ThreadTypeOK' /\ fault' # "close_idx"
  BY <1>1, <1>2 DEF SingleEvents, IInv, TypeOK, ThreadTypeOK, MarkedOnce, NewConnection, thread
<1>9. QED
  BY <1>2, <1>3, <1>4, <1>5, <1>6, <1>7, <1>8, CallerStep DEF SameSlots, TypeOK

\* send() of the first handshake bytes.
LEMMA SendHelloStep ==
    ASSUME IInv, NEW c \in Connectors, SendHello(c) PROVE IInv'
<1>1. /\ UNCHANGED <<file, born, listeners, handler, manager, thread>> /\ Return(c)
      /\ cfd[c] \in Fds /\ (UNCHANGED hung \/ Shutdown(cfd[c]))
  BY DEF SendHello, IInv, PrivateDescriptors
<1>2. KernelTypeOK'
  <2>1. CASE UNCHANGED hung
    BY <1>1, <2>1 DEF IInv, TypeOK, KernelTypeOK
  <2>2. QED BY <1>1, <2>1, ShutdownTypes DEF IInv, TypeOK
<1>3. SameSlots
  BY <1>1, UnchangedSlots DEF handler
<1>4. CallerTypeOK' /\ PrivateDescriptors'
  BY <1>1, <1>3, LeavePrivate, BornNat DEF IInv, TypeOK, thread
<1>5. SlotsNameTheirSocket' /\ NoDuplicateFd'
  BY <1>1, <1>3, SameNames DEF IInv
<1>6. /\ SingleEvents' /\ HandlerTypeOK' /\ ManagerTypeOK' /\ ThreadTypeOK'
      /\ fault' # "close_idx"
  BY <1>1 DEF SingleEvents, IInv, TypeOK, HandlerTypeOK, ManagerTypeOK, ThreadTypeOK,
     MarkedOnce, handler, manager, thread
<1>7. QED
  BY <1>1, <1>2, <1>3, <1>4, <1>5, <1>6, CallerStep DEF SameSlots, TypeOK

LEMMA ConnectorStep ==
    ASSUME IInv, NEW c \in Connectors, Connector(c) PROVE IInv'
BY ConnectStep, ConnectRegisterStep, NewOutboundStep, SendHelloStep DEF Connector

-----------------------------------------------------------------------------
(* Steps of the socket thread *)

\* Within the loop the indices go on naming what they named.
LEMMA IndicesKept ==
    ASSUME IndicesStillName, UsesIndices, pc # "close", pc' # "close" \/ k' = 1, KeepsSlots,
           DOMAIN snap' = DOMAIN snap,
           \A i \in DOMAIN snap : snap'[i].fd = snap[i].fd /\ snap'[i].sock = snap[i].sock
    PROVE  IndicesStillName'
<1>1. Moved = 0 /\ Moved' = 0 /\ \A i \in DOMAIN snap : ~Behind(i)
  BY DEF Moved, Behind
<1>2. ASSUME NEW i \in DOMAIN snap'
      PROVE  /\ i - Moved' \in DOMAIN pollfds'
             /\ pollfds'[i - Moved'].fd = snap'[i].fd
             /\ pollfds'[i - Moved'].sock = snap'[i].sock
  <2>1. /\ i - Moved \in DOMAIN pollfds /\ pollfds[i - Moved].fd = snap[i].fd
        /\ pollfds[i - Moved].sock = snap[i].sock
    BY <1>1 DEF IndicesStillName
  <2>2. i - Moved' = i - Moved
    BY <1>1
  <2>3. QED BY <2>1, <2>2 DEF KeepsSlots
<1>3. QED BY <1>2 DEF IndicesStillName

\* The socket thread accepts nothing, or keeps what it accepted.
LEMMA ThreadPrivate ==
    ASSUME PrivateDescriptors, SameSlots, UNCHANGED <<file, callers>>,
           ~Accepting' \/ (Accepting /\ UNCHANGED newfd)
    PROVE  PrivateDescriptors'
<1>1. \A f \in Fds : Unregistered(f) => Unregistered(f)'
  BY DEF Unregistered, InNoSlot, SameSlots, KeepsSlots
<1>2. QED BY <1>1 DEF PrivateDescriptors, Accepting, callers

\* An entry is finished and the slots stay as they are.
LEMMA FinishStep ==
    ASSUME IInv, NEW ev, \/ AtEvent(ev)
                         \/ pc = "event" /\ ev = "POLLIN"
                         \/ pc = "drain" /\ ev = "POLLOUT",
           Handled(ev), MarkClose \/ UNCHANGED close_socks, pc' = "handle",
           UNCHANGED <<kernel, k, newfd, update, callers>>, fault' # "close_idx",
           HandlerTypeOK', ManagerTypeOK', SameSlots,
           \A i \in DOMAIN pollfds' : pollfds'[i].events \in OneEvent
    PROVE  IInv'
<1>1. /\ Current \in DOMAIN snap /\ IsFirst(Current) /\ Handling
      /\ snap[Current].revents = {ev}
  BY CurrentEvent
<1>2. UNCHANGED k /\ newfd' \in Fds \cup {NoFd}
  BY DEF IInv, TypeOK, ThreadTypeOK
<1>3. /\ ThreadTypeOK' /\ MarksBehindLoop' /\ MarkedOnce'
      /\ DOMAIN snap' = DOMAIN snap
      /\ \A i \in DOMAIN snap : /\ snap'[i].fd = snap[i].fd /\ snap'[i].sock = snap[i].sock
                                /\ snap'[i].events = snap[i].events
                                /\ snap'[i].revents \subseteq snap[i].revents
  BY <1>1, <1>2, FinishEntry
<1>4. TypeOK'
  BY <1>3 DEF TypeOK, KernelTypeOK, CallerTypeOK, IInv, kernel, callers
<1>5. SlotsNameTheirSocket' /\ NoDuplicateFd'
  BY SameNames DEF IInv, kernel
<1>6. SingleEvents'
  BY <1>3 DEF SingleEvents, IInv
<1>7. PrivateDescriptors'
  BY ThreadPrivate DEF IInv, Accepting, kernel
<1>8. IndicesStillName'
  BY <1>1, <1>3, IndicesKept DEF IInv, SameSlots, Handling, UsesIndices
<1>9. QED BY <1>3, <1>4, <1>5, <1>6, <1>7, <1>8 DEF IInv

\* The thread moves on with its copy, its marks and the slots as they are.
LEMMA MoveStep ==
    ASSUME IInv, UsesIndices, pc # "close", UNCHANGED <<file, pollfds, fault, snap, close_socks,
           update, callers>>, TypeOK', MarksBehindLoop', pc' # "close" \/ k' = 1,
           ~Accepting' \/ (Accepting /\ UNCHANGED newfd)
    PROVE  IInv'
<1>1. SameSlots
  BY UnchangedSlots
<1>2. SlotsNameTheirSocket' /\ NoDuplicateFd'
  BY <1>1, SameNames DEF IInv
<1>3. SingleEvents' /\ MarkedOnce'
  BY DEF SingleEvents, MarkedOnce, IInv
<1>4. PrivateDescriptors'
  BY <1>1, ThreadPrivate DEF IInv
<1>5. IndicesStillName'
  BY <1>1, IndicesKept DEF IInv, SameSlots
<1>6. QED BY <1>2, <1>3, <1>4, <1>5 DEF IInv

\* The thread is not at work on its copy before or after the step.
LEMMA OutsideStep ==
    ASSUME IInv, pc' \in {"loop", "process", "pump", "exit", "done"},
           UNCHANGED <<file, pollfds, fault, callers>>, TypeOK',
           close_socks' = <<>> \/ UNCHANGED close_socks,
           snap' = <<>> \/ UNCHANGED snap,
           UNCHANGED update
    PROVE  IInv'
<1>1. SlotsNameTheirSocket' /\ NoDuplicateFd'
  BY UnchangedSlots, SameNames DEF IInv
<1>2. SingleEvents' /\ MarkedOnce'
  BY DEF SingleEvents, MarkedOnce, IInv
<1>3. PrivateDescriptors'
  BY UnchangedSlots, ThreadPrivate DEF IInv, Accepting
<1>4. IndicesStillName' /\ MarksBehindLoop'
  BY DEF IndicesStillName, MarksBehindLoop, UsesIndices, Handling
<1>5. QED BY <1>1, <1>2, <1>3, <1>4 DEF IInv

\* The local copy of pollfds is rebuilt from the shared array, under the mutex.
LEMMA SnapshotStep ==
    ASSUME IInv, Snapshot PROVE IInv'
<1> DEFINE copy(i) == [fd |-> pollfds[i].fd, events |-> pollfds[i].events,
                       revents |-> {}, sock |-> pollfds[i].sock]
<1>1. /\ snap' = [i \in DOMAIN pollfds |-> copy(i)]
      /\ pc' = "poll" /\ close_socks' = <<>> /\ k' = 1
      /\ UNCHANGED <<kernel, handler, manager, newfd, callers>>
  BY DEF Snapshot
<1>2. \A i \in DOMAIN pollfds :
          /\ copy(i) \in SnapFd /\ copy(i).fd = pollfds[i].fd /\ copy(i).sock = pollfds[i].sock
          /\ copy(i).events = pollfds[i].events /\ copy(i).revents = {}
  BY SlotTypes DEF IInv, TypeOK, PollFd, SnapFd
<1> HIDE DEF copy
<1>3. snap' \in Seq(SnapFd) /\ DOMAIN snap' = DOMAIN pollfds
  <2>1. snap' \in [DOMAIN pollfds -> SnapFd] /\ pollfds \in Seq(PollFd)
    BY <1>1, <1>2 DEF IInv, TypeOK, HandlerTypeOK
  <2>2. QED BY <2>1, MapSeq
<1>4. TypeOK'
  <2>1. ThreadTypeOK'
    BY <1>1, <1>3 DEF ThreadTypeOK, IInv, TypeOK, ThreadPC
  <2>2. QED
    BY <1>1, <2>1 DEF IInv, TypeOK, KernelTypeOK, HandlerTypeOK, ManagerTypeOK, CallerTypeOK,
       kernel, handler, manager, callers
<1>5. SlotsNameTheirSocket' /\ NoDuplicateFd'
  BY <1>1, UnchangedSlots, SameNames DEF IInv, kernel, handler
<1>6. SingleEvents'
  BY <1>1, <1>2, <1>3 DEF SingleEvents, IInv, handler, manager
<1>7. PrivateDescriptors'
  BY <1>1, UnchangedSlots, ThreadPrivate DEF IInv, Accepting, kernel, handler
<1>8. IndicesStillName'
  <2>1. Moved' = 0 /\ \A i \in DOMAIN pollfds : i - 0 = i
    BY <1>1, SlotTypes DEF Moved, IInv, TypeOK
  <2>2. QED BY <1>1, <1>2, <1>3, <2>1 DEF IndicesStillName, handler
<1>9. MarksBehindLoop' /\ MarkedOnce'
  BY <1>1 DEF MarksBehindLoop, Handling, MarkedOnce, IInv, handler
<1>10. QED BY <1>4, <1>5, <1>6, <1>7, <1>8, <1>9 DEF IInv

\* poll() fills in the events that were asked for.
LEMMA PollReturns ==
    ASSUME IInv, Poll, pc' = "handle" PROVE IInv'
<1>0. pc = "poll" /\ UNCHANGED <<kernel, pollfds, mutex, exit, manager, close_socks, k, newfd, callers>>
  BY DEF Poll
<1>1. UNCHANGED fault /\ \E rev \in [DOMAIN snap -> SUBSET Events] :
        /\ \A i \in DOMAIN snap : rev[i] \subseteq snap[i].events
        /\ snap' = [i \in DOMAIN snap |-> [snap[i] EXCEPT !.revents = rev[i]]]
  BY <1>0 DEF Poll
<1> PICK rev \in [DOMAIN snap -> SUBSET Events] :
        /\ \A i \in DOMAIN snap : rev[i] \subseteq snap[i].events
        /\ snap' = [i \in DOMAIN snap |-> [snap[i] EXCEPT !.revents = rev[i]]]
  BY <1>1
<1>2. /\ pc = "poll" /\ pc' = "handle"
      /\ UNCHANGED <<kernel, handler, manager, close_socks, k, newfd, callers>>
  BY <1>0, <1>1 DEF handler
<1> DEFINE e(i) == [snap[i] EXCEPT !.revents = rev[i]]
<1>3. \A i \in DOMAIN snap :
          /\ e(i) \in SnapFd /\ e(i).fd = snap[i].fd /\ e(i).sock = snap[i].sock
          /\ e(i).events = snap[i].events /\ e(i).revents \subseteq snap[i].events
  <2>1. ASSUME NEW i \in DOMAIN snap
        PROVE  snap[i] \in SnapFd /\ rev[i] \subseteq snap[i].events
    BY SnapTypes DEF IInv, TypeOK
  <2>2. QED BY <2>1 DEF SnapFd
<1>4. snap' = [i \in DOMAIN snap |-> e(i)]
  OBVIOUS
<1> HIDE DEF e
<1>5. snap' \in Seq(SnapFd) /\ DOMAIN snap' = DOMAIN snap
  BY <1>3, <1>4, MapSeq DEF IInv, TypeOK, ThreadTypeOK
<1>6. TypeOK'
  <2>1. ThreadTypeOK'
    BY <1>2, <1>5 DEF ThreadTypeOK, IInv, TypeOK, ThreadPC
  <2>2. QED
    BY <1>2, <2>1 DEF IInv, TypeOK, KernelTypeOK, HandlerTypeOK, ManagerTypeOK, CallerTypeOK,
       kernel, handler, manager, callers
<1>7. SlotsNameTheirSocket' /\ NoDuplicateFd'
  BY <1>2, UnchangedSlots, SameNames DEF IInv, kernel, handler
<1>8. SingleEvents'
  BY <1>2, <1>3, <1>4, <1>5 DEF SingleEvents, IInv, handler, manager
<1>9. PrivateDescriptors'
  BY <1>2, UnchangedSlots, ThreadPrivate DEF IInv, Accepting, kernel, handler
<1>10. IndicesStillName'
  BY <1>2, <1>3, <1>4, <1>5, UnchangedSlots, IndicesKept DEF IInv, UsesIndices, SameSlots, handler
<1>11. MarksBehindLoop' /\ MarkedOnce'
  BY <1>2 DEF MarksBehindLoop, MarkedOnce, IInv, handler
<1>12. QED BY <1>6, <1>7, <1>8, <1>9, <1>10, <1>11 DEF IInv

LEMMA PollStep ==
    ASSUME IInv, Poll PROVE IInv'
<1>1. CASE pc' = "handle"
  BY <1>1, PollReturns
<1>2. CASE fault' = "poll" /\ UNCHANGED <<snap, pc>>
  <2>1. UNCHANGED <<kernel, pollfds, mutex, exit, manager, thread, callers>>
    BY <1>2 DEF Poll, thread
  <2>2. TypeOK' /\ fault' # "close_idx"
    BY <1>2, <2>1 DEF IInv, TypeOK, KernelTypeOK, HandlerTypeOK, ManagerTypeOK,
       ThreadTypeOK, CallerTypeOK, Faults, kernel, manager, thread, callers
  <2>3. QED BY <2>1, <2>2, QuietHandlerStep DEF kernel, manager
<1>3. QED BY <1>1, <1>2 DEF Poll

LEMMA ReadStep ==
    ASSUME IInv, Read PROVE IInv'
<1>1. /\ AtEvent("POLLIN") /\ UNCHANGED <<kernel, handler, manager, k, newfd, callers>>
      /\ pc = "handle"
  BY DEF Read, AtEvent
<1>2. /\ HandlerTypeOK' /\ ManagerTypeOK' /\ SameSlots /\ fault' # "close_idx"
      /\ \A i \in DOMAIN pollfds' : pollfds'[i].events \in OneEvent
  BY <1>1, UnchangedSlots DEF IInv, TypeOK, HandlerTypeOK, ManagerTypeOK, KernelTypeOK, MarkedOnce,
     SingleEvents, kernel, handler, manager
<1>3. CASE Handled("POLLIN") /\ (MarkClose \/ UNCHANGED close_socks) /\ UNCHANGED pc
  BY <1>1, <1>2, <1>3, FinishStep DEF manager
<1>4. CASE pc' = "event" /\ UNCHANGED <<snap, close_socks>>
  <2>1. TypeOK'
    BY <1>1, <1>4 DEF IInv, TypeOK, KernelTypeOK, HandlerTypeOK, ManagerTypeOK, ThreadTypeOK,
       CallerTypeOK, ThreadPC, kernel, handler, manager, callers
  <2>2. MarksBehindLoop'
    <3>1. /\ Current \in DOMAIN snap /\ IsFirst(Current)
          /\ snap[Current].revents = {"POLLIN"}
      BY <1>1, CurrentEvent
    <3>2. QED
      BY <1>1, <1>4, <3>1 DEF MarksBehindLoop, UsesIndices, Handling, IsFirst, IInv
  <2>3. QED
    BY <1>1, <1>4, <2>1, <2>2, MoveStep DEF UsesIndices, Accepting, kernel, handler, manager
<1>5. QED BY <1>3, <1>4 DEF Read

\* A connection is accepted, or the listening socket is marked.
LEMMA AcceptStep ==
    ASSUME IInv, Accept PROVE IInv'
<1>1. /\ AtEvent("POLLIN") /\ pc = "handle"
      /\ UNCHANGED <<hung, listeners, handler, manager, k, callers>>
  BY DEF Accept, AtEvent
<1>2. CASE MarkClose /\ Handled("POLLIN") /\ UNCHANGED <<file, born, newfd, pc>>
  <2>1. /\ HandlerTypeOK' /\ ManagerTypeOK' /\ SameSlots /\ fault' # "close_idx"
        /\ \A i \in DOMAIN pollfds' : pollfds'[i].events \in OneEvent
    BY <1>1, <1>2, UnchangedSlots DEF IInv, TypeOK, HandlerTypeOK, ManagerTypeOK, KernelTypeOK,
       MarkedOnce, SingleEvents, handler, manager
  <2>2. QED BY <1>1, <1>2, <2>1, FinishStep DEF manager, kernel
<1>3. ASSUME NEW fd \in Fds, NewSocket(fd), newfd' = fd, pc' = "inbound",
             UNCHANGED <<snap, close_socks>>
      PROVE  IInv'
  <2>1. /\ KernelTypeOK' /\ ManagerTypeOK' /\ file[fd] = 0 /\ file'[fd] # 0
        /\ \A f \in Fds : f # fd => file'[f] = file[f]
    <3>1. KernelTypeOK /\ ManagerTypeOK /\ 0 \notin Sockets
      BY SMT DEF IInv, TypeOK, Sockets
    <3>2. QED BY <1>1, <1>3, <3>1, NewSocketTypes
  <2>2. TypeOK'
    <3>1. CallerTypeOK'
      BY <1>1, <1>3, OldSockets DEF IInv, TypeOK, NewSocket
    <3>2. QED
      BY <1>1, <1>3, <2>1, <3>1 DEF IInv, TypeOK, HandlerTypeOK, ThreadTypeOK, ThreadPC, handler
  <2>3. InNoSlot(fd) /\ \A i \in DOMAIN pollfds : pollfds[i].fd \in Fds
    BY <2>1, OpenSlots, SlotTypes DEF IInv, TypeOK, InNoSlot
  <2>4. SlotsNameTheirSocket' /\ NoDuplicateFd' /\ SingleEvents' /\ MarkedOnce'
    BY <1>1, <1>3, <2>1, <2>3 DEF SlotsNameTheirSocket, NoDuplicateFd, SingleEvents,
       MarkedOnce, IInv, InNoSlot, handler, manager
  <2>5. PrivateDescriptors'
    <3>1. ASSUME NEW f \in Fds, Unregistered(f) PROVE f # fd /\ Unregistered(f)'
      BY <1>1, <2>1, <3>1 DEF Unregistered, InNoSlot, handler
    <3>2. Unregistered(fd)'
      BY <1>1, <2>1, <2>3 DEF Unregistered, InNoSlot, handler
    <3>3. QED BY <1>1, <1>3, <3>1, <3>2 DEF PrivateDescriptors, IInv, Accepting, callers
  <2>6. IndicesStillName'
    BY <1>1, <1>3, UnchangedSlots, IndicesKept DEF IInv, UsesIndices, SameSlots, handler
  <2>7. MarksBehindLoop'
    <3>1. /\ Current \in DOMAIN snap /\ IsFirst(Current)
          /\ snap[Current].revents = {"POLLIN"}
      BY <1>1, CurrentEvent
    <3>2. QED
      BY <1>1, <1>3, <3>1 DEF MarksBehindLoop, UsesIndices, Handling, IsFirst, IInv
  <2>8. QED BY <2>2, <2>4, <2>5, <2>6, <2>7 DEF IInv
<1>4. QED BY <1>2, <1>3 DEF Accept

\* PeerManager_new_inbound_connection; a refused descriptor is closed by its owner.
LEMMA NewInboundStep ==
    ASSUME IInv, NewInbound PROVE IInv'
<1>1. PICK result \in Results :
        /\ NewConnection(newfd, file[newfd], result)
        /\ IF result = "err"
           THEN /\ file' = [file EXCEPT ![newfd] = 0] /\ newfd' = NoFd
                /\ pc' = "handle" /\ Handled("POLLIN")
           ELSE pc' = "register" /\ UNCHANGED <<file, newfd, snap>>
  BY DEF NewInbound
<1>2. /\ pc = "inbound" /\ newfd \in Fds /\ Unregistered(newfd)
      /\ UNCHANGED <<born, hung, listeners, pollfds, mutex, exit, late, pm, update, close_socks, k,
                     callers>>
  BY DEF NewInbound, IInv, PrivateDescriptors, Accepting
<1>3. ManagerTypeOK' /\ HandlerTypeOK' /\ fault' # "close_idx" /\ SameSlots
  <2>1. ManagerTypeOK' /\ HandlerTypeOK'
    <3>1. file[newfd] \in 0..born /\ file[newfd] # 0 /\ late' \subseteq Fds
      BY <1>2 DEF IInv, TypeOK, KernelTypeOK, ManagerTypeOK, Unregistered
    <3>2. QED BY <1>1, <1>2, <3>1, NewConnectionTypes DEF IInv, TypeOK
  <2>2. fault' # "close_idx"
    BY <1>1 DEF NewConnection, IInv, MarkedOnce
  <2>3. QED BY <1>2, <2>1, <2>2, UnchangedSlots
<1>4. /\ Current \in DOMAIN snap /\ IsFirst(Current) /\ Handling
      /\ snap[Current].revents = {"POLLIN"}
  BY <1>2, CurrentEvent
<1>5. CASE result # "err"
  <2>1. pc' = "register" /\ UNCHANGED <<file, newfd, snap>>
    BY <1>1, <1>5
  <2>2. TypeOK'
    BY <1>2, <1>3, <2>1 DEF IInv, TypeOK, KernelTypeOK, ThreadTypeOK, CallerTypeOK, ThreadPC, callers
  <2>3. MarksBehindLoop'
    BY <1>2, <2>1 DEF MarksBehindLoop, UsesIndices, Handling, IsFirst, IInv
  <2>4. SingleEvents' /\ MarkedOnce' /\ SlotsNameTheirSocket' /\ NoDuplicateFd'
    BY <1>2, <1>3, <2>1, SameNames DEF SingleEvents, MarkedOnce, IInv
  <2>5. PrivateDescriptors'
    BY <1>2, <1>3, <2>1, ThreadPrivate DEF IInv, Accepting
  <2>6. IndicesStillName'
    BY <1>2, <1>3, <2>1, IndicesKept DEF IInv, UsesIndices, SameSlots
  <2>7. QED BY <2>2, <2>3, <2>4, <2>5, <2>6 DEF IInv
<1>6. CASE result = "err"
  <2>1. /\ file' = [file EXCEPT ![newfd] = 0] /\ newfd' = NoFd
        /\ pc' = "handle" /\ Handled("POLLIN")
    BY <1>1, <1>6
  <2>2. KernelTypeOK' /\ \A f \in Fds : f # newfd => file'[f] = file[f]
    BY <1>2, <2>1, CloseTypes DEF IInv, TypeOK
  <2>3. /\ ThreadTypeOK' /\ MarksBehindLoop' /\ MarkedOnce'
        /\ DOMAIN snap' = DOMAIN snap
        /\ \A i \in DOMAIN snap : /\ snap'[i].fd = snap[i].fd /\ snap'[i].sock = snap[i].sock
                                  /\ snap'[i].events = snap[i].events
                                  /\ snap'[i].revents \subseteq snap[i].revents
    BY <1>2, <1>3, <1>4, <2>1, FinishEntry
  <2>4. TypeOK'
    BY <1>2, <1>3, <2>2, <2>3 DEF IInv, TypeOK, CallerTypeOK, callers
  <2>5. SlotsNameTheirSocket' /\ NoDuplicateFd' /\ SingleEvents'
    BY <1>2, <2>2, <2>3, SlotTypes DEF SlotsNameTheirSocket, NoDuplicateFd, SingleEvents,
       IInv, TypeOK, Unregistered, InNoSlot
  <2>6. PrivateDescriptors'
    <3>1. \A f \in Fds : f # newfd /\ Unregistered(f) => Unregistered(f)'
      BY <1>2, <2>2 DEF Unregistered, InNoSlot
    <3>2. QED BY <1>2, <2>1, <3>1 DEF PrivateDescriptors, IInv, Accepting, callers
  <2>7. IndicesStillName'
    BY <1>2, <1>3, <2>1, <2>3, IndicesKept DEF IInv, UsesIndices, SameSlots
  <2>8. QED BY <2>3, <2>4, <2>5, <2>6, <2>7 DEF IInv
<1>7. QED BY <1>5, <1>6

\* register_socket for the accepted descriptor.
LEMMA RegisterInboundStep ==
    ASSUME IInv, RegisterInbound PROVE IInv'
<1>1. /\ pc = "register" /\ newfd \in Fds /\ Unregistered(newfd)
      /\ newfd' = NoFd /\ pc' = "handle" /\ Handled("POLLIN")
      /\ UNCHANGED <<file, born, listeners, mutex, exit, manager, close_socks, k, callers>>
  BY DEF RegisterInbound, IInv, PrivateDescriptors, Accepting
<1>2. /\ KernelTypeOK' /\ HandlerTypeOK' /\ fault' # "close_idx"
      /\ KeepsSlots /\ SlotsNameTheirSocket' /\ NoDuplicateFd'
      /\ \A i \in DOMAIN pollfds' : pollfds'[i].events \in OneEvent
      /\ \A f \in Fds \ {newfd} : InNoSlot(f) => InNoSlot(f)'
  <2>1. CASE RegisterSocket(newfd, file[newfd]) /\ UNCHANGED hung
    <3>1. file[newfd] \in Sockets /\ KernelTypeOK'
      BY <1>1, <2>1, BoundAssumption, SMT DEF IInv, TypeOK, KernelTypeOK, Unregistered, Sockets
    <3>2. /\ HandlerTypeOK /\ SlotsNameTheirSocket /\ NoDuplicateFd /\ SingleEvents
          /\ InNoSlot(newfd) /\ fault # "close_idx" /\ UNCHANGED <<file, mutex, exit>>
      BY <1>1 DEF IInv, TypeOK, Unregistered, MarkedOnce
    <3>3. QED BY <1>1, <2>1, <3>1, <3>2, RegisterNames
  <2>2. CASE Shutdown(newfd) /\ UNCHANGED <<pollfds, fault>>
    <3>1. KernelTypeOK'
      BY <1>1, <2>2, ShutdownTypes DEF IInv, TypeOK
    <3>2. SameSlots /\ SlotsNameTheirSocket' /\ NoDuplicateFd'
      BY <1>1, <2>2, UnchangedSlots, SameNames DEF IInv
    <3>3. QED
      BY <1>1, <2>2, <3>1, <3>2 DEF SameSlots, SingleEvents, IInv, TypeOK, HandlerTypeOK,
         MarkedOnce, InNoSlot
  <2>3. QED BY <2>1, <2>2 DEF RegisterInbound
<1>3. /\ Current \in DOMAIN snap /\ IsFirst(Current) /\ Handling
      /\ snap[Current].revents = {"POLLIN"}
  BY <1>1, CurrentEvent
<1>4. /\ ThreadTypeOK' /\ MarksBehindLoop' /\ MarkedOnce'
      /\ DOMAIN snap' = DOMAIN snap
      /\ \A i \in DOMAIN snap : /\ snap'[i].fd = snap[i].fd /\ snap'[i].sock = snap[i].sock
                                /\ snap'[i].events = snap[i].events
                                /\ snap'[i].revents \subseteq snap[i].revents
  BY <1>1, <1>2, <1>3, FinishEntry
<1>5. ManagerTypeOK' /\ CallerTypeOK'
  BY <1>1 DEF IInv, TypeOK, ManagerTypeOK, CallerTypeOK, manager, callers
<1>6. SingleEvents'
  BY <1>1, <1>2, <1>4 DEF SingleEvents, IInv, manager
<1>7. PrivateDescriptors'
  <2>1. \A f \in Fds \ {newfd} : Unregistered(f) => Unregistered(f)'
    BY <1>1, <1>2 DEF Unregistered
  <2>2. QED BY <1>1, <2>1 DEF PrivateDescriptors, IInv, Accepting, callers
<1>8. IndicesStillName'
  BY <1>1, <1>2, <1>4, IndicesKept DEF IInv, UsesIndices
<1>9. QED BY <1>2, <1>4, <1>5, <1>6, <1>7, <1>8 DEF IInv, TypeOK

\* PeerManager_read_event, with the pause it may ask for.
LEMMA ReadEventStep ==
    ASSUME IInv, ReadEvent PROVE IInv'
<1>1. /\ pc = "event" /\ pc' = "handle" /\ Handled("POLLIN")
      /\ UNCHANGED <<kernel, mutex, exit, peers, late, refused, pm, update, k, newfd, callers>>
      /\ (MarkClose \/ UNCHANGED close_socks)
      /\ fault' \in {fault, "fd_order", "ub"}
  BY DEF ReadEvent
<1>2. /\ SameSlots /\ pollfds' \in Seq(PollFd)
      /\ \A i \in DOMAIN pollfds' : pollfds'[i].events \in OneEvent
  <2>1. CASE UNCHANGED pollfds
    BY <2>1, UnchangedSlots DEF IInv, TypeOK, HandlerTypeOK, SingleEvents
  <2>2. CASE /\ PauseSlot \in DOMAIN pollfds
             /\ pollfds' = [pollfds EXCEPT ![PauseSlot].events = {"POLLOUT"}]
    <3> DEFINE e == [pollfds[PauseSlot] EXCEPT !.events = {"POLLOUT"}]
    <3>1. PauseSlot \in 1..Len(pollfds) /\ pollfds \in Seq(PollFd)
      BY <2>2, SlotTypes DEF IInv, TypeOK
    <3>2. /\ e \in PollFd /\ e.fd = pollfds[PauseSlot].fd
          /\ e.sock = pollfds[PauseSlot].sock /\ e.events \in OneEvent
      <4>1. pollfds[PauseSlot] \in PollFd
        BY <2>2, SlotTypes DEF IInv, TypeOK
      <4>2. QED BY <4>1 DEF PollFd, Events, OneEvent
    <3>3. pollfds' = [pollfds EXCEPT ![PauseSlot] = e]
      BY <2>2
    <3> HIDE DEF e
    <3>4. /\ pollfds' \in Seq(PollFd) /\ Len(pollfds') = Len(pollfds)
          /\ \A j \in 1..Len(pollfds) :
                 pollfds'[j] = IF j = PauseSlot THEN e ELSE pollfds[j]
      BY <3>1, <3>2, <3>3, ExceptSeq
    <3>5. DOMAIN pollfds' = DOMAIN pollfds /\ DOMAIN pollfds = 1..Len(pollfds)
      BY <3>1, <3>4, LenProperties
    <3>6. QED BY <3>2, <3>4, <3>5 DEF SameSlots, KeepsSlots, IInv, SingleEvents
  <2>3. QED BY <2>1, <2>2 DEF ReadEvent
<1>3. HandlerTypeOK'
  BY <1>1, <1>2 DEF IInv, TypeOK, HandlerTypeOK, Faults
<1>4. ManagerTypeOK'
  <2>1. link' \in [Fds -> {"new", "up", "stalled"}]
    BY DEF ReadEvent, IInv, TypeOK, ManagerTypeOK
  <2>2. QED BY <1>1, <2>1 DEF IInv, TypeOK, ManagerTypeOK, kernel
<1>5. QED BY <1>1, <1>2, <1>3, <1>4, FinishStep DEF IInv, MarkedOnce

\* PeerManager_write_buffer_space_avail.
LEMMA WriteSpaceStep ==
    ASSUME IInv, WriteSpace PROVE IInv'
<1>1. /\ AtEvent("POLLOUT") /\ pc = "handle"
      /\ UNCHANGED <<kernel, handler, peers, late, link, refused, update, k, newfd, callers>>
  BY DEF WriteSpace, AtEvent
<1>2. pm' \in Holders /\ ManagerTypeOK' /\ HandlerTypeOK' /\ fault' # "close_idx"
  BY <1>1 DEF WriteSpace, IInv, TypeOK, ManagerTypeOK, HandlerTypeOK, MarkedOnce, Holders,
     kernel, handler
<1>3. CASE MarkClose /\ Handled("POLLOUT") /\ UNCHANGED <<pm, pc>>
  <2>1. SameSlots /\ \A i \in DOMAIN pollfds' : pollfds'[i].events \in OneEvent
    BY <1>1, UnchangedSlots DEF IInv, SingleEvents, handler
  <2>2. QED BY <1>1, <1>2, <1>3, <2>1, FinishStep
<1>4. CASE pm' = "socket_thread" /\ pc' = "drain" /\ UNCHANGED <<snap, close_socks>>
  <2>1. TypeOK'
    BY <1>1, <1>2, <1>4 DEF IInv, TypeOK, KernelTypeOK, ThreadTypeOK, CallerTypeOK, ThreadPC,
       kernel, callers
  <2>2. MarksBehindLoop'
    <3>1. /\ Current \in DOMAIN snap /\ IsFirst(Current)
          /\ snap[Current].revents = {"POLLOUT"}
      BY <1>1, CurrentEvent
    <3>2. QED
      BY <1>1, <1>4, <3>1 DEF MarksBehindLoop, UsesIndices, Handling, IsFirst, IInv
  <2>3. QED
    BY <1>1, <1>4, <2>1, <2>2, MoveStep DEF UsesIndices, Accepting, kernel, handler
<1>5. QED BY <1>3, <1>4 DEF WriteSpace

LEMMA DrainReturnStep ==
    ASSUME IInv, DrainReturn PROVE IInv'
<1>1. /\ pc = "drain" /\ pc' = "handle" /\ Handled("POLLOUT") /\ pm' = "free"
      /\ (MarkClose \/ UNCHANGED close_socks)
      /\ UNCHANGED <<kernel, handler, peers, late, link, refused, update, k, newfd, callers>>
  BY DEF DrainReturn
<1>2. /\ ManagerTypeOK' /\ HandlerTypeOK' /\ fault' # "close_idx" /\ SameSlots
      /\ \A i \in DOMAIN pollfds' : pollfds'[i].events \in OneEvent
  BY <1>1, UnchangedSlots DEF IInv, TypeOK, ManagerTypeOK, HandlerTypeOK, MarkedOnce, Holders,
     SingleEvents, kernel, handler
<1>3. QED BY <1>1, <1>2, FinishStep

\* The end of the for loop, the first passes over close_socks and the lock.
LEMMA WindDownStep ==
    ASSUME IInv, HandledAll \/ Disconnect \/ LockToClose PROVE IInv'
<1>1. CASE HandledAll
  <2>1. TypeOK'
    BY <1>1 DEF HandledAll, IInv, TypeOK, KernelTypeOK, HandlerTypeOK, ManagerTypeOK,
       ThreadTypeOK, CallerTypeOK, ThreadPC, kernel, handler, manager, callers
  <2>2. MarksBehindLoop'
    BY <1>1 DEF HandledAll, MarksBehindLoop, UsesIndices, Handling, IInv
  <2>3. QED
    BY <1>1, <2>1, <2>2, MoveStep DEF HandledAll, UsesIndices, Accepting, kernel, handler, manager
<1>2. CASE Disconnect
  <2>1. /\ pc = "disconnect" /\ k <= Len(close_socks) /\ k' = k + 1
        /\ SocketDisconnected(pollfds[close_socks[k]].fd)
        /\ UNCHANGED <<kernel, handler, pc, snap, close_socks, newfd, callers>>
    BY <1>2 DEF Disconnect
  <2>2. pollfds[close_socks[k]].fd \in Fds
    <3>1. k \in Nat \ {0} /\ Len(close_socks) \in Nat /\ DOMAIN close_socks = 1..Len(close_socks)
      BY LenProperties DEF IInv, TypeOK, ThreadTypeOK
    <3>2. k \in DOMAIN close_socks
      BY <2>1, <3>1, SMT
    <3>3. close_socks[k] \in DOMAIN snap
      BY <2>1, <3>2 DEF IInv, MarksBehindLoop, UsesIndices
    <3>4. ~Behind(close_socks[k]) /\ Moved = 0 /\ close_socks[k] - 0 = close_socks[k]
      BY <2>1, <3>3, SnapTypes, SMT DEF Behind, Moved, IInv, TypeOK
    <3>5. close_socks[k] \in DOMAIN pollfds
      BY <2>1, <3>3, <3>4 DEF IInv, IndicesStillName, UsesIndices
    <3>6. QED BY <3>5, SlotTypes DEF IInv, TypeOK
  <2>3. ManagerTypeOK' /\ UNCHANGED update
    BY <2>1, <2>2, ForgetTypes DEF SocketDisconnected, IInv, TypeOK, Holders, kernel
  <2>4. TypeOK'
    <3>1. k' \in Nat \ {0}
      BY <2>1, SMT DEF IInv, TypeOK, ThreadTypeOK
    <3>2. QED
      BY <2>1, <2>3, <3>1 DEF IInv, TypeOK, KernelTypeOK, HandlerTypeOK, ThreadTypeOK,
         CallerTypeOK, kernel, handler, callers
  <2>5. MarksBehindLoop'
    BY <2>1 DEF MarksBehindLoop, UsesIndices, Handling, IInv
  <2>6. QED
    BY <2>1, <2>3, <2>4, <2>5, MoveStep DEF UsesIndices, Accepting, kernel, handler
<1>3. CASE LockToClose
  <2>1. TypeOK'
    BY <1>3 DEF LockToClose, IInv, TypeOK, KernelTypeOK, HandlerTypeOK, ManagerTypeOK,
       ThreadTypeOK, CallerTypeOK, ThreadPC, Holders, kernel, manager, callers
  <2>2. MarksBehindLoop'
    <3>1. Len(close_socks) \in Nat
      BY LenProperties DEF IInv, TypeOK, ThreadTypeOK
    <3>2. k' <= Len(close_socks') + 1
      BY <1>3, <3>1, SMT DEF LockToClose
    <3>3. QED BY <1>3, <3>2 DEF LockToClose, MarksBehindLoop, UsesIndices, Handling, IInv
  <2>3. QED
    BY <1>3, <2>1, <2>2, MoveStep DEF LockToClose, UsesIndices, Accepting, kernel, manager
<1>4. QED BY <1>1, <1>2, <1>3

\* One match of the compaction: the slot of the next mark is closed and dropped,
\* and every later slot moves down by one.
LEMMA CloseNextStep ==
    ASSUME IInv, CloseNext PROVE IInv'
<1>1. /\ pc = "close" /\ k <= Len(close_socks)
      /\ UNCHANGED <<born, hung, listeners, mutex, exit, manager, pc, snap, close_socks,
                     newfd, callers>>
  BY DEF CloseNext
<1>2. /\ k \in Nat \ {0} /\ Len(close_socks) \in Nat /\ DOMAIN close_socks = 1..Len(close_socks)
      /\ DOMAIN snap = 1..Len(snap) /\ Len(snap) \in Nat
      /\ \A m \in DOMAIN close_socks : close_socks[m] \in DOMAIN snap
      /\ \A m, n \in DOMAIN close_socks : m < n => close_socks[m] < close_socks[n]
  BY <1>1, LenProperties, SnapTypes
  DEF IInv, TypeOK, ThreadTypeOK, MarksBehindLoop, UsesIndices, MarkedOnce
<1> DEFINE m == close_socks[k]
           slot == m - (k - 1)
<1>3. k \in DOMAIN close_socks /\ m \in DOMAIN snap /\ m \in Int /\ slot \in Int
  BY <1>1, <1>2, SMT
<1>4. k > 1 => k - 1 \in DOMAIN close_socks /\ close_socks[k - 1] < m
  BY <1>2, <1>3, SMTT(30)
<1>5. ~(k > 1 /\ close_socks[k] <= close_socks[k - 1])
  BY <1>2, <1>3, <1>4, SMT
<1>6. /\ file' = [file EXCEPT ![pollfds[slot].fd] = 0]
      /\ pollfds' = RemoveAt(pollfds, slot) /\ k' = k + 1 /\ UNCHANGED fault
  BY <1>5 DEF CloseNext
<1>7. Moved = k - 1 /\ ~Behind(m)
  BY <1>1, <1>2, <1>3, <1>4, SMT DEF Moved, Behind
<1>8. slot \in DOMAIN pollfds
  BY <1>1, <1>3, <1>7 DEF IInv, IndicesStillName, UsesIndices
<1>9. /\ pollfds \in Seq(PollFd) /\ Len(pollfds) \in Nat /\ DOMAIN pollfds = 1..Len(pollfds)
      /\ \A i \in DOMAIN pollfds : pollfds[i].fd \in Fds
  BY SlotTypes DEF IInv, TypeOK
<1> HIDE DEF slot
<1>10. /\ pollfds' \in Seq(PollFd) /\ Len(pollfds') = Len(pollfds) - 1
       /\ DOMAIN pollfds' = 1..(Len(pollfds) - 1)
       /\ \A j \in 1..(Len(pollfds) - 1) :
              pollfds'[j] = IF j < slot THEN pollfds[j] ELSE pollfds[j + 1]
  <2>1. /\ pollfds' \in Seq(PollFd) /\ Len(pollfds') = Len(pollfds) - 1
        /\ \A j \in 1..(Len(pollfds) - 1) :
              pollfds'[j] = IF j < slot THEN pollfds[j] ELSE pollfds[j + 1]
    BY <1>6, <1>8, <1>9, RemoveAtProperties
  <2>2. QED BY <2>1, LenProperties
<1>11. KernelTypeOK' /\ \A f \in Fds : f # pollfds[slot].fd => file'[f] = file[f]
  BY <1>1, <1>6, <1>8, <1>9, CloseTypes DEF IInv, TypeOK
<1> DEFINE from(j) == IF j < slot THEN j ELSE j + 1
<1>12. \A j \in DOMAIN pollfds' : /\ from(j) \in DOMAIN pollfds /\ from(j) # slot
                                  /\ pollfds'[j] = pollfds[from(j)]
  BY <1>3, <1>8, <1>9, <1>10, SMT
<1>13. \A i, j \in DOMAIN pollfds' : from(i) = from(j) => i = j
  BY <1>3, <1>9, <1>10, SMT
<1> HIDE DEF from
<1>14. SlotsNameTheirSocket'
  <2>1. ASSUME NEW j \in DOMAIN pollfds' PROVE file'[pollfds'[j].fd] = pollfds'[j].sock
    <3>1. pollfds[from(j)].fd # pollfds[slot].fd
      BY <1>8, <1>12 DEF IInv, NoDuplicateFd
    <3>2. QED BY <1>9, <1>11, <1>12, <3>1 DEF IInv, SlotsNameTheirSocket
  <2>2. QED BY <2>1 DEF SlotsNameTheirSocket
<1>15. NoDuplicateFd'
  BY <1>12, <1>13 DEF IInv, NoDuplicateFd
<1>16. SingleEvents'
  BY <1>1, <1>12 DEF IInv, SingleEvents, manager
<1>17. PrivateDescriptors'
  <2>1. \A f \in Fds : Unregistered(f) => Unregistered(f)'
    BY <1>8, <1>11, <1>12 DEF Unregistered, InNoSlot
  <2>2. QED BY <1>1, <2>1 DEF PrivateDescriptors, IInv, Accepting, callers
<1>18. IndicesStillName'
  <2>1. ASSUME NEW i \in DOMAIN snap', ~Behind(i)'
        PROVE  /\ i - Moved' \in DOMAIN pollfds'
               /\ pollfds'[i - Moved'].fd = snap'[i].fd
               /\ pollfds'[i - Moved'].sock = snap'[i].sock
    <3>1. i \in DOMAIN snap /\ i > m /\ Moved' = k
      BY <1>1, <1>2, <1>3, <1>6, <2>1, SMT DEF Behind, Moved
    <3>2. ~Behind(i)
      BY <1>2, <1>3, <1>4, <3>1, SMT DEF Behind
    <3>3. /\ i - (k - 1) \in DOMAIN pollfds /\ pollfds[i - (k - 1)].fd = snap[i].fd
          /\ pollfds[i - (k - 1)].sock = snap[i].sock
      BY <1>1, <1>7, <3>1, <3>2 DEF IInv, IndicesStillName, UsesIndices
    <3>4. i - k \in DOMAIN pollfds' /\ from(i - k) = i - (k - 1)
      BY <1>2, <1>3, <1>8, <1>9, <1>10, <3>1, <3>3, SMT DEF from, slot
    <3>5. QED BY <1>1, <1>12, <3>1, <3>3, <3>4
  <2>2. QED BY <2>1 DEF IndicesStillName
<1>19. TypeOK' /\ MarksBehindLoop' /\ MarkedOnce'
  <2>1. k' \in Nat \ {0} /\ k' <= Len(close_socks) + 1
    BY <1>1, <1>2, <1>6, SMT
  <2>2. TypeOK'
    BY <1>1, <1>6, <1>10, <1>11, <2>1 DEF IInv, TypeOK, HandlerTypeOK, ManagerTypeOK,
       ThreadTypeOK, CallerTypeOK, manager, callers
  <2>3. QED
    BY <1>1, <1>6, <2>1, <2>2 DEF MarksBehindLoop, UsesIndices, Handling, MarkedOnce, IInv
<1>20. QED BY <1>14, <1>15, <1>16, <1>17, <1>18, <1>19 DEF IInv

LEMMA OutsideSteps ==
    ASSUME IInv, UnlockClosed \/ ProcessEvents \/ ProcessReturn \/ ExitLock PROVE IInv'
<1> USE DEF IInv, TypeOK, KernelTypeOK, HandlerTypeOK, ManagerTypeOK, ThreadTypeOK, CallerTypeOK,
            ThreadPC, Holders, kernel, handler, manager, callers
<1>1. CASE UnlockClosed
  <2>1. TypeOK'
    BY <1>1, EmptySeq DEF UnlockClosed
  <2>2. QED BY <1>1, <2>1, OutsideStep DEF UnlockClosed
<1>2. CASE ProcessEvents
  <2>1. TypeOK'
    BY <1>2 DEF ProcessEvents
  <2>2. QED BY <1>2, <2>1, OutsideStep DEF ProcessEvents
<1>3. CASE ProcessReturn
  <2>1. TypeOK'
    BY <1>3 DEF ProcessReturn
  <2>2. QED BY <1>3, <2>1, OutsideStep DEF ProcessReturn
<1>4. CASE ExitLock
  <2>1. TypeOK'
    BY <1>4 DEF ExitLock
  <2>2. QED BY <1>4, <2>1, OutsideStep DEF ExitLock
<1>5. QED BY <1>1, <1>2, <1>3, <1>4

\* After should_exit: every slot's descriptor is told and closed.
LEMMA ExitSteps ==
    ASSUME IInv, ExitDisconnect \/ ExitClose PROVE IInv'
<1>1. CASE ExitDisconnect
  <2>1. /\ pc = "exit" /\ k <= Len(pollfds) /\ k' = k + 1
        /\ SocketDisconnected(pollfds[k].fd)
        /\ UNCHANGED <<kernel, handler, pc, snap, close_socks, newfd, callers>>
    BY <1>1 DEF ExitDisconnect
  <2>2. pollfds[k].fd \in Fds /\ k' \in Nat \ {0}
    <3>1. k \in DOMAIN pollfds /\ k' \in Nat \ {0}
      BY <2>1, SlotTypes, SMT DEF IInv, TypeOK, ThreadTypeOK
    <3>2. QED BY <3>1, SlotTypes DEF IInv, TypeOK
  <2>3. ManagerTypeOK' /\ UNCHANGED update
    BY <2>1, <2>2, ForgetTypes DEF SocketDisconnected, IInv, TypeOK, Holders, kernel
  <2>4. TypeOK'
    BY <2>1, <2>2, <2>3 DEF IInv, TypeOK, KernelTypeOK, HandlerTypeOK, ThreadTypeOK, CallerTypeOK,
       kernel, handler, callers
  <2>5. QED BY <2>1, <2>3, <2>4, OutsideStep DEF kernel, handler
<1>2. CASE ExitClose
  <2>1. /\ file' = [f \in Fds |-> IF \E i \in DOMAIN pollfds : pollfds[i].fd = f
                                 THEN 0 ELSE file[f]]
        /\ pollfds' = <<>> /\ mutex' = "free" /\ pc' = "done"
        /\ UNCHANGED <<born, hung, listeners, exit, fault, manager, snap, close_socks, k,
                       newfd, callers>>
    BY <1>2 DEF ExitClose
  <2>2. KernelTypeOK'
    <3>1. 0 \in 0..born
      BY BoundAssumption, SMT DEF IInv, TypeOK, KernelTypeOK
    <3>2. QED BY <2>1, <3>1 DEF IInv, TypeOK, KernelTypeOK
  <2>3. TypeOK'
    BY <2>1, <2>2, EmptySeq DEF IInv, TypeOK, HandlerTypeOK, ManagerTypeOK, ThreadTypeOK, CallerTypeOK,
       ThreadPC, Holders, manager, callers
  <2>4. SlotsNameTheirSocket' /\ NoDuplicateFd' /\ SingleEvents'
    BY <2>1 DEF SlotsNameTheirSocket, NoDuplicateFd, SingleEvents, IInv, manager
  <2>5. PrivateDescriptors'
    <3>1. \A f \in Fds : Unregistered(f) => Unregistered(f)'
      BY <2>1 DEF Unregistered, InNoSlot
    <3>2. QED BY <2>1, <3>1 DEF PrivateDescriptors, IInv, Accepting, callers
  <2>6. IndicesStillName' /\ MarksBehindLoop' /\ MarkedOnce'
    BY <2>1 DEF IndicesStillName, MarksBehindLoop, UsesIndices, Handling, MarkedOnce, IInv
  <2>7. QED BY <2>3, <2>4, <2>5, <2>6 DEF IInv
<1>3. QED BY <1>1, <1>2

LEMMA ThreadStep ==
    ASSUME IInv, SocketThread PROVE IInv'
<1>1. CASE DrainSend
  <2>1. Current \in DOMAIN snap /\ snap[Current].fd \in Fds
    BY <1>1, CurrentEvent, SnapTypes DEF DrainSend, IInv, TypeOK
  <2>2. QED BY <1>1, <2>1, SendStep, QuietStep DEF DrainSend
<1>2. CASE PumpSend
  BY <1>2, SendStep, QuietStep DEF PumpSend
<1>3. QED
  BY <1>1, <1>2, SnapshotStep, PollStep, ReadStep, AcceptStep, NewInboundStep,
     RegisterInboundStep, ReadEventStep, WriteSpaceStep, DrainReturnStep, WindDownStep,
     CloseNextStep, OutsideSteps, ExitSteps
  DEF SocketThread

-----------------------------------------------------------------------------
(* The theorems *)

LEMMA InitIInv == Init => IInv
<1> SUFFICES ASSUME Init PROVE IInv
  OBVIOUS
<1>1. TypeOK
  <2>1. KernelTypeOK /\ born = 0 /\ 0 \in 0..born
    BY BoundAssumption, SMT DEF Init, KernelTypeOK
  <2>2. HandlerTypeOK
    BY EmptySeq DEF Init, HandlerTypeOK, Holders, Faults
  <2>3. ManagerTypeOK
    BY <2>1 DEF Init, ManagerTypeOK, Holders
  <2>4. ThreadTypeOK
    BY EmptySeq DEF Init, ThreadTypeOK, ThreadPC
  <2>5. CallerTypeOK
    BY DEF Init, CallerTypeOK
  <2>6. QED BY <2>1, <2>2, <2>3, <2>4, <2>5 DEF TypeOK
<1>2. SlotsNameTheirSocket /\ NoDuplicateFd /\ SingleEvents /\ PrivateDescriptors
  BY DEF Init, SlotsNameTheirSocket, NoDuplicateFd, SingleEvents, PrivateDescriptors, Accepting
<1>3. IndicesStillName /\ MarksBehindLoop /\ MarkedOnce
  BY DEF Init, IndicesStillName, MarksBehindLoop, UsesIndices, Handling, MarkedOnce
<1>4. QED BY <1>1, <1>2, <1>3 DEF IInv

LEMMA InductiveStep == IInv /\ [Next]_vars => IInv'
<1> SUFFICES ASSUME IInv, [Next]_vars PROVE IInv'
  OBVIOUS
<1>1. CASE SocketThread
  BY <1>1, ThreadStep
<1>2. CASE \E c \in Connectors : Connector(c)
  BY <1>2, ConnectorStep
<1>3. CASE Others
  BY <1>3, OthersStep, BindStep
<1>4. CASE UNCHANGED vars
  BY <1>4, StutterStep
<1>5. QED BY <1>1, <1>2, <1>3, <1>4 DEF Next, Stopped

\* IInv holds initially and every step of every thread keeps it.
THEOREM Inductive == Spec => []IInv
BY InitIInv, InductiveStep, PTL DEF Spec

\* The typing of the socket handler, its callers and the manager.
THEOREM TypeCorrect == Spec => []TypeOK
<1>1. IInv => TypeOK
  BY DEF IInv
<1>2. QED BY <1>1, Inductive, PTL

\* A slot's descriptor number still names the socket that was registered with it:
\* poll, read, send and close never act on somebody else's connection through it.
THEOREM SlotsSafe == Spec => []SlotsNameTheirSocket
<1>1. IInv => SlotsNameTheirSocket
  BY DEF IInv
<1>2. QED BY <1>1, Inductive, PTL

\* No descriptor has two slots.
THEOREM FdsUnique == Spec => []NoDuplicateFd
<1>1. IInv => NoDuplicateFd
  BY DEF IInv
<1>2. QED BY <1>1, Inductive, PTL

\* The socket thread may use the indices of its copy in the shared array, although
\* it reads that array without the mutex and other threads append to it.
THEOREM IndicesSafe == Spec => []IndicesStillName
<1>1. IInv => IndicesStillName
  BY DEF IInv
<1>2. QED BY <1>1, Inductive, PTL

\* The assertion on close_idx at the end of the compaction never fails.
THEOREM CloseAssertion == Spec => []MarkedOnce
<1>1. IInv => MarkedOnce
  BY DEF IInv
<1>2. QED BY <1>1, Inductive, PTL
=============================================================================
