--------------------------- MODULE SocketLifeProofs ---------------------------
(***************************************************************************)
(* The socket handler implements SocketLife: the refinement of             *)
(* PeerSockets, step by step.  It rests on the inductive invariant of      *)
(* PeerSocketsProofs and on one more fact, that no two open numbers name   *)
(* one socket.                                                             *)
(***************************************************************************)
EXTENDS PeerSocketsProofs

OneNumber == \A f, g \in Fds : file[f] # 0 /\ file[f] = file[g] => f = g

LInv == IInv /\ OneNumber

-----------------------------------------------------------------------------
(* What a step does to the sockets *)

\* Nothing is opened, closed or registered.
Stays == UNCHANGED <<file, born>> /\ SameSlots

\* A new socket takes a closed number; it may come with a slot.
Opens(fd)   == NewSocket(fd) /\ \A s \in Sockets : Registered(s)' <=> Registered(s)
OpensWatched(fd) == NewSocket(fd) /\ \A s \in Sockets : Registered(s)' <=> Registered(s) \/ s = born + 1

\* A socket in no slot gets one.
HandsOver(fd) ==
    /\ UNCHANGED <<file, born>> /\ Unregistered(fd)
    /\ \A s \in Sockets : Registered(s)' <=> Registered(s) \/ s = file[fd]

\* The numbers of F are closed, and the slots of their sockets go.
Closes(F) ==
    /\ UNCHANGED born
    /\ file' = [f \in Fds |-> IF f \in F THEN 0 ELSE file[f]]
    /\ \A s \in Sockets : Registered(s)' <=> Registered(s) /\ \A f \in F : file[f] # s

LEMMA StaysSame ==
    ASSUME SameSlots, NEW s PROVE Registered(s)' <=> Registered(s)
BY DEF SameSlots, KeepsSlots, Registered

\* A socket with a slot has a number, the slot's, and no socket has one before
\* it is born.
LEMMA SocketFacts ==
    ASSUME LInv
    PROVE  /\ born \in Nat
           /\ \A s \in Sockets : Registered(s) => Named(s)
           /\ \A s \in Sockets : Named(s) => s <= born
           /\ \A f \in Fds : file[f] # 0 => file[f] \in Sockets /\ file[f] <= born
           /\ \A f \in Fds : Unregistered(f) => ~Registered(file[f])
<1>1. /\ born \in Nat /\ born <= MaxSockets /\ MaxSockets \in Nat
      /\ \A f \in Fds : file[f] \in 0..born
  BY BoundAssumption, SMT DEF LInv, IInv, TypeOK, KernelTypeOK
<1>2. \A i \in DOMAIN pollfds : pollfds[i].fd \in Fds /\ file[pollfds[i].fd] = pollfds[i].sock
  BY SlotTypes DEF LInv, IInv, TypeOK, SlotsNameTheirSocket
<1>3. \A s \in Sockets : Registered(s) => Named(s)
  BY <1>2 DEF Registered, Named
<1>4. \A f \in Fds : file[f] # 0 => file[f] \in Sockets /\ file[f] <= born
  BY <1>1, SMT DEF Sockets
<1>5. \A s \in Sockets : Named(s) => s <= born
  BY <1>1, SMT DEF Named, Sockets
<1>6. \A f \in Fds : Unregistered(f) => ~Registered(file[f])
  BY <1>2 DEF Unregistered, InNoSlot, Registered, LInv, OneNumber
<1>7. QED BY <1>1, <1>3, <1>4, <1>5, <1>6

\* The sockets of S move and the others stay.
LEMMA SocketsMove ==
    ASSUME NEW S \in SUBSET Sockets, S # {}, NEW from, NEW to,
           \A s \in S : LifeOf(s) = from /\ LifeOf(s)' = to,
           \A s \in Sockets \ S : LifeOf(s)' = LifeOf(s)
    PROVE  Life!Move(S, from, to)
<1>1. \A s \in S : s \in Sockets
  OBVIOUS
<1>2. [s \in Sockets |-> LifeOf(s)'] =
        [s \in Sockets |-> IF s \in S THEN to ELSE [t \in Sockets |-> LifeOf(t)][s]]
  OBVIOUS
<1>3. \A s \in S : [t \in Sockets |-> LifeOf(t)][s] = from
  BY <1>1
<1>4. QED BY <1>2, <1>3 DEF Life!Move

-----------------------------------------------------------------------------
(* Each kind of step is a step of SocketLife *)

LEMMA StaysLife ==
    ASSUME LInv, Stays
    PROVE  UNCHANGED [s \in Sockets |-> LifeOf(s)]
<1>1. ASSUME NEW s \in Sockets PROVE LifeOf(s)' = LifeOf(s)
  <2>1. (Registered(s)' <=> Registered(s)) /\ (Named(s)' <=> Named(s)) /\ born' = born
    BY StaysSame DEF Stays, Named
  <2>2. QED BY <2>1 DEF LifeOf
<1>2. QED BY <1>1

LEMMA OpensLife ==
    ASSUME LInv, NEW fd \in Fds, Opens(fd) \/ OpensWatched(fd)
    PROVE  Life!Next
<1>1. /\ born \in Nat /\ born < MaxSockets /\ born' = born + 1 /\ born + 1 \in Sockets
      /\ file[fd] = 0 /\ file' = [file EXCEPT ![fd] = born + 1]
  BY SocketFacts, BoundAssumption, SMT DEF Opens, OpensWatched, NewSocket, Sockets
<1>2. PICK t \in Sockets : t = born + 1
  BY <1>1
<1>3. /\ file'[fd] = t /\ \A f \in Fds \ {fd} : file'[f] = file[f]
  BY <1>1, <1>2 DEF LInv, IInv, TypeOK, KernelTypeOK
<1>4. \A s \in Sockets : s \in Nat /\ s # 0
  BY SMT DEF Sockets
<1>5. ASSUME NEW s \in Sockets \ {t} PROVE LifeOf(s)' = LifeOf(s)
  <2>1. Named(s)' <=> Named(s)
    BY <1>1, <1>3, <1>4 DEF Named
  <2>2. Registered(s)' <=> Registered(s)
    BY <1>2 DEF Opens, OpensWatched
  <2>3. CASE s > born
    <3>1. s > born' /\ ~(s <= born') /\ ~(s <= born)
      BY <1>1, <1>2, <1>4, <2>3
    <3>2. QED BY <2>3, <3>1 DEF LifeOf
  <2>4. CASE ~(s > born)
    <3>1. s <= born /\ s <= born' /\ ~(s > born')
      BY <1>1, <1>2, <1>4, <2>4
    <3>2. QED BY <2>1, <2>2, <2>4, <3>1 DEF LifeOf
  <2>5. QED BY <2>3, <2>4
<1>6. LifeOf(t) = "none"
  BY <1>1, <1>2 DEF LifeOf
<1>7. Named(t)' /\ t <= born' /\ ~(t > born')
  BY <1>1, <1>2, <1>3 DEF Named
<1>8. ~Registered(t)
  <2>1. ~(t <= born)
    BY <1>1, <1>2
  <2>2. QED BY <2>1, SocketFacts
<1>9. CASE Opens(fd)
  <2>1. ~Registered(t)'
    BY <1>8, <1>9 DEF Opens
  <2>2. LifeOf(t)' = "open"
    BY <1>7, <2>1 DEF LifeOf
  <2>3. Life!Move({t}, "none", "open")
    BY <1>5, <1>6, <2>2, SocketsMove
  <2>4. QED BY <2>3 DEF Life!Next, Life!Open
<1>10. CASE OpensWatched(fd)
  <2>1. Registered(t)'
    BY <1>2, <1>10 DEF OpensWatched
  <2>2. LifeOf(t)' = "watched"
    BY <1>7, <2>1 DEF LifeOf
  <2>3. Life!Move({t}, "none", "watched")
    BY <1>5, <1>6, <2>2, SocketsMove
  <2>4. QED BY <2>3 DEF Life!Next, Life!Listen
<1>11. QED BY <1>9, <1>10

LEMMA HandsOverLife ==
    ASSUME LInv, NEW fd \in Fds, HandsOver(fd)
    PROVE  Life!Next
<1>1. /\ born \in Nat /\ file[fd] \in Sockets /\ file[fd] <= born
      /\ ~Registered(file[fd]) /\ UNCHANGED <<file, born>>
  BY SocketFacts DEF HandsOver, Unregistered
<1>2. PICK t \in Sockets : t = file[fd]
  BY <1>1
<1>3. Named(t) /\ Named(t)' /\ t <= born /\ ~(t > born) /\ ~Registered(t)
  BY <1>1, <1>2, SMT DEF Named, Sockets
<1>4. LifeOf(t) = "open"
  BY <1>3 DEF LifeOf
<1>5. LifeOf(t)' = "watched"
  <2>1. Registered(t)'
    BY <1>2 DEF HandsOver
  <2>2. QED BY <1>1, <1>3, <2>1 DEF LifeOf
<1>6. ASSUME NEW s \in Sockets \ {t} PROVE LifeOf(s)' = LifeOf(s)
  <2>1. (Registered(s)' <=> Registered(s)) /\ (Named(s)' <=> Named(s))
    BY <1>1, <1>2 DEF HandsOver, Named
  <2>2. QED BY <1>1, <2>1 DEF LifeOf
<1>7. Life!Move({t}, "open", "watched")
  BY <1>4, <1>5, <1>6, SocketsMove
<1>8. QED BY <1>7 DEF Life!Next, Life!Watch

LEMMA ClosesLife ==
    ASSUME LInv, NEW F \in SUBSET Fds, Closes(F), F # {}, \A f \in F : file[f] # 0,
           NEW from, \A f \in F : LifeOf(file[f]) = from
    PROVE  \E S \in SUBSET Sockets : Life!Move(S, from, "closed")
                                      /\ \A f \in F : F = {f} => S = {file[f]}
<1>1. /\ born \in Nat /\ born' = born
      /\ \A f \in F : file[f] \in Sockets /\ file[f] <= born
      /\ \A s \in Sockets : s \in Nat /\ s # 0
  BY SocketFacts, SMT DEF Closes, Sockets
<1>2. PICK S \in SUBSET Sockets : S = {file[f] : f \in F}
  BY <1>1
<1>3. \A f \in Fds : file'[f] = IF f \in F THEN 0 ELSE file[f]
  BY DEF Closes
<1>4. ASSUME NEW s \in S PROVE LifeOf(s) = from /\ LifeOf(s)' = "closed"
  <2>1. PICK f \in F : s = file[f]
    BY <1>2
  <2>2. s \in Sockets /\ s # 0 /\ s <= born /\ ~(s > born')
    BY <1>1, <2>1
  <2>3. ~Named(s)'
    <3> SUFFICES ASSUME NEW g \in Fds, file'[g] = s PROVE FALSE
      BY DEF Named
    <3>1. g \notin F /\ file[g] = s
      BY <1>3, <2>2
    <3>2. QED BY <2>1, <2>2, <3>1 DEF LInv, OneNumber
  <2>4. ~Registered(s)'
    BY <2>1, <2>2 DEF Closes
  <2>5. LifeOf(s)' = "closed"
    BY <1>1, <2>2, <2>3, <2>4 DEF LifeOf
  <2>6. QED BY <2>1, <2>5
<1>5. ASSUME NEW s \in Sockets \ S PROVE LifeOf(s)' = LifeOf(s)
  <2>1. Named(s)' <=> Named(s)
    BY <1>1, <1>2, <1>3 DEF Named
  <2>2. Registered(s)' <=> Registered(s)
    BY <1>2 DEF Closes
  <2>3. QED BY <1>1, <2>1, <2>2 DEF LifeOf
<1>6. S # {} /\ \A f \in F : F = {f} => S = {file[f]}
  BY <1>2
<1>7. Life!Move(S, from, "closed")
  BY <1>4, <1>5, <1>6, SocketsMove
<1>8. QED BY <1>6, <1>7

-----------------------------------------------------------------------------
(* Each step of the program is of one of the kinds *)

LEMMA QuietStays == UNCHANGED <<file, born, pollfds>> => Stays
BY UnchangedSlots DEF Stays

\* register_socket gives a slot to one socket, or to none when the array is full.
LEMMA RegisterSlots ==
    ASSUME HandlerTypeOK, NEW fd \in Fds, NEW s \in Sockets, RegisterSocket(fd, s)
    PROVE  \/ UNCHANGED pollfds
           \/ \A t \in Sockets : Registered(t)' <=> Registered(t) \/ t = s
<1>1. CASE UNCHANGED pollfds
  BY <1>1
<1>2. CASE pollfds' = AtEnd([fd |-> fd, events |-> {"POLLIN"}, sock |-> s])
  <2> DEFINE e == [fd |-> fd, events |-> {"POLLIN"}, sock |-> s]
  <2>1. e \in PollFd /\ e.sock = s
    BY DEF PollFd, Events
  <2> HIDE DEF e
  <2>2. /\ pollfds' \in Seq(PollFd) /\ Len(pollfds') = Len(pollfds) + 1
        /\ \A i \in 1..Len(pollfds) : pollfds'[i] = pollfds[i]
        /\ pollfds'[Len(pollfds) + 1] = e
    BY <1>2, <2>1, SlotTypes, AppendProperties DEF AtEnd, e
  <2>3. /\ DOMAIN pollfds' = 1..(Len(pollfds) + 1) /\ DOMAIN pollfds = 1..Len(pollfds)
        /\ Len(pollfds) \in Nat
    BY <2>2, LenProperties, SlotTypes
  <2>4. /\ \A i \in DOMAIN pollfds : i \in DOMAIN pollfds' /\ pollfds'[i] = pollfds[i]
        /\ \A i \in DOMAIN pollfds' : i \in DOMAIN pollfds \/ i = Len(pollfds) + 1
        /\ Len(pollfds) + 1 \in DOMAIN pollfds'
    BY <2>2, <2>3, SMT
  <2>5. QED BY <2>1, <2>2, <2>4 DEF Registered
<1>3. QED BY <1>1, <1>2 DEF RegisterSocket

\* A thread that owns a descriptor registers it.
LEMMA RegisterHandsOver ==
    ASSUME LInv, NEW fd \in Fds, Unregistered(fd), RegisterSocket(fd, file[fd]),
           UNCHANGED <<file, born>>
    PROVE  Stays \/ HandsOver(fd)
<1>1. file[fd] \in Sockets /\ HandlerTypeOK
  BY SocketFacts DEF Unregistered, LInv, IInv, TypeOK
<1>2. QED BY <1>1, RegisterSlots, QuietStays DEF HandsOver

LEMMA BindKind ==
    ASSUME LInv, Bind
    PROVE  \E fd \in Fds : Opens(fd) \/ OpensWatched(fd)
<1>1. PICK fd \in Fds : NewSocket(fd) /\ (RegisterSocket(fd, born + 1) \/ UNCHANGED pollfds)
  BY DEF Bind
<1>2. born + 1 \in Sockets /\ HandlerTypeOK
  BY <1>1, SocketFacts, BoundAssumption, SMT DEF NewSocket, Sockets, LInv, IInv, TypeOK
<1>3. CASE UNCHANGED pollfds
  BY <1>1, <1>3 DEF Opens, Registered
<1>4. CASE \A s \in Sockets : Registered(s)' <=> Registered(s) \/ s = born + 1
  BY <1>1, <1>4 DEF OpensWatched
<1>5. QED BY <1>1, <1>2, <1>3, <1>4, RegisterSlots

LEMMA ConnectorKind ==
    ASSUME LInv, NEW c \in Connectors, Connector(c)
    PROVE  Stays \/ \E fd \in Fds : Opens(fd) \/ HandsOver(fd)
<1>1. CASE Connect(c)
  BY <1>1 DEF Connect, Opens, Registered, handler
<1>2. CASE ConnectRegister(c)
  <2>1. UNCHANGED <<file, born>> /\ cfd[c] \in Fds /\ Unregistered(cfd[c])
    BY <1>2 DEF ConnectRegister, kernel, LInv, IInv, PrivateDescriptors
  <2>2. QED BY <1>2, <2>1, RegisterHandsOver, QuietStays DEF ConnectRegister
<1>3. CASE NewOutbound(c)
  BY <1>3, QuietStays DEF NewOutbound
<1>4. CASE SendHello(c)
  BY <1>4, QuietStays DEF SendHello, handler
<1>5. QED BY <1>1, <1>2, <1>3, <1>4 DEF Connector

\* sock_send_data writes the events of a slot and nothing else of it.
LEMMA SendStays ==
    ASSUME IInv, NEW t, (\E fd \in Fds : SendData(t, fd)) \/ SetEvents(t)
    PROVE  Stays
<1>1. SameSlots /\ UNCHANGED file
  BY SendStep
<1>2. UNCHANGED born
  BY DEF SendData, SetEvents, kernel
<1>3. QED BY <1>1, <1>2 DEF Stays

LEMMA OthersKind ==
    ASSUME LInv, Others, ~Bind PROVE Stays
<1>1. CASE BackgroundSend
  BY <1>1, SendStays DEF BackgroundSend, LInv
<1>2. ASSUME NEW fd \in Fds, DisconnectPeer(fd) PROVE Stays
  BY <1>2, QuietStays DEF DisconnectPeer, SockDisconnect, handler
<1>3. ASSUME NEW s \in Sockets, RemoteHangup(s) PROVE Stays
  BY <1>3, QuietStays DEF RemoteHangup, handler
<1>4. CASE BackgroundEnter \/ BackgroundReturn \/ Interrupt \/ InterruptJoined \/ UseFreedHandler
  BY <1>4, QuietStays
  DEF BackgroundEnter, BackgroundReturn, Interrupt, InterruptJoined, UseFreedHandler, kernel,
      handler
<1>5. QED BY <1>1, <1>2, <1>3, <1>4 DEF Others

\* The pause that read_event asks for is written to a slot's events.
LEMMA ReadEventStays ==
    ASSUME IInv, ReadEvent PROVE Stays
<1>1. UNCHANGED <<file, born>>
  BY DEF ReadEvent, kernel
<1>2. CASE UNCHANGED pollfds
  BY <1>1, <1>2, QuietStays
<1>3. CASE /\ PauseSlot \in DOMAIN pollfds
           /\ pollfds' = [pollfds EXCEPT ![PauseSlot].events = {"POLLOUT"}]
  <2>1. pollfds[PauseSlot] \in PollFd
    BY <1>3, SlotTypes DEF IInv, TypeOK
  <2> DEFINE e == [pollfds[PauseSlot] EXCEPT !.events = {"POLLOUT"}]
  <2>2. e.fd = pollfds[PauseSlot].fd /\ e.sock = pollfds[PauseSlot].sock
    BY <2>1 DEF PollFd
  <2>3. pollfds' = [pollfds EXCEPT ![PauseSlot] = e]
    BY <1>3
  <2> HIDE DEF e
  <2>4. DOMAIN pollfds' = DOMAIN pollfds
        /\ \A i \in DOMAIN pollfds : pollfds'[i] = IF i = PauseSlot THEN e ELSE pollfds[i]
    BY <2>3
  <2>5. SameSlots
    BY <2>2, <2>4 DEF SameSlots, KeepsSlots
  <2>6. QED BY <1>1, <2>5 DEF Stays
<1>4. QED BY <1>2, <1>3 DEF ReadEvent

\* The stages of a socket that has a number.
LEMMA NumberedStages ==
    ASSUME LInv, NEW fd \in Fds, file[fd] # 0
    PROVE  /\ Registered(file[fd]) => LifeOf(file[fd]) = "watched"
           /\ ~Registered(file[fd]) => LifeOf(file[fd]) = "open"
<1>1. PICK s \in Sockets : s = file[fd] /\ s <= born /\ born \in Nat
  BY SocketFacts
<1>2. Named(s) /\ ~(s > born)
  BY <1>1, SMT DEF Named, Sockets
<1>3. QED BY <1>1, <1>2 DEF LifeOf

\* Accepting, registering and refusing an inbound connection.
LEMMA InboundKind ==
    ASSUME LInv, Accept \/ NewInbound \/ RegisterInbound
    PROVE  \/ Stays
           \/ \E fd \in Fds : Opens(fd) \/ HandsOver(fd)
           \/ \E fd \in Fds : Closes({fd}) /\ file[fd] # 0 /\ LifeOf(file[fd]) = "open"
<1>1. CASE Accept
  <2>1. UNCHANGED pollfds
    BY <1>1 DEF Accept, handler
  <2>2. CASE UNCHANGED <<file, born>>
    BY <2>1, <2>2, QuietStays
  <2>3. CASE \E fd \in Fds : NewSocket(fd)
    BY <2>1, <2>3 DEF Opens, Registered
  <2>4. QED BY <1>1, <2>2, <2>3 DEF Accept
<1>2. CASE NewInbound
  <2>1. /\ newfd \in Fds /\ Unregistered(newfd) /\ UNCHANGED <<born, pollfds>>
    BY <1>2 DEF NewInbound, LInv, IInv, PrivateDescriptors, Accepting
  <2>2. CASE UNCHANGED file
    BY <2>1, <2>2, QuietStays
  <2>3. CASE file' = [file EXCEPT ![newfd] = 0]
    <3>1. file[newfd] # 0 /\ ~Registered(file[newfd]) /\ LifeOf(file[newfd]) = "open"
      BY <2>1, SocketFacts, NumberedStages DEF Unregistered
    <3>2. \A s \in Sockets : Registered(s)' <=> Registered(s) /\ \A f \in {newfd} : file[f] # s
      BY <2>1, <3>1 DEF Registered
    <3>3. file' = [f \in Fds |-> IF f \in {newfd} THEN 0 ELSE file[f]]
      BY <2>3 DEF LInv, IInv, TypeOK, KernelTypeOK
    <3>4. QED BY <2>1, <3>1, <3>2, <3>3 DEF Closes
  <2>4. QED BY <1>2, <2>2, <2>3 DEF NewInbound
<1>3. CASE RegisterInbound
  <2>1. UNCHANGED <<file, born>> /\ newfd \in Fds /\ Unregistered(newfd)
    BY <1>3 DEF RegisterInbound, LInv, IInv, PrivateDescriptors, Accepting
  <2>2. QED BY <1>3, <2>1, RegisterHandsOver, QuietStays DEF RegisterInbound
<1>4. QED BY <1>1, <1>2, <1>3

\* A mark finds the slot of the copied entry in the compacted array.
LEMMA MarkedSlot ==
    ASSUME IInv, CloseNext
    PROVE  \E slot \in DOMAIN pollfds :
               /\ file' = [file EXCEPT ![pollfds[slot].fd] = 0]
               /\ pollfds' = RemoveAt(pollfds, slot) /\ UNCHANGED born
<1>1. /\ pc = "close" /\ k <= Len(close_socks) /\ UNCHANGED born
      /\ k \in Nat \ {0} /\ Len(close_socks) \in Nat /\ DOMAIN close_socks = 1..Len(close_socks)
      /\ DOMAIN snap = 1..Len(snap) /\ Len(snap) \in Nat
      /\ \A m \in DOMAIN close_socks : close_socks[m] \in DOMAIN snap
      /\ \A m, n \in DOMAIN close_socks : m < n => close_socks[m] < close_socks[n]
  BY LenProperties, SnapTypes
  DEF CloseNext, IInv, TypeOK, ThreadTypeOK, MarksBehindLoop, UsesIndices, MarkedOnce
<1> DEFINE m == close_socks[k]
<1>2. k \in DOMAIN close_socks /\ m \in DOMAIN snap /\ m \in Int
  BY <1>1, SMT
<1>3. k > 1 => k - 1 \in DOMAIN close_socks /\ close_socks[k - 1] < m
  BY <1>1, <1>2, SMTT(30)
<1>4. Moved = k - 1 /\ ~Behind(m) /\ ~(k > 1 /\ m <= close_socks[k - 1])
  BY <1>1, <1>2, <1>3, SMT DEF Moved, Behind
<1>5. m - (k - 1) \in DOMAIN pollfds
  BY <1>1, <1>2, <1>4 DEF IInv, IndicesStillName, UsesIndices
<1>6. QED BY <1>1, <1>4, <1>5 DEF CloseNext

\* The compaction closes one number and drops the slot of its socket.
LEMMA CloseNextKind ==
    ASSUME LInv, CloseNext
    PROVE  \E fd \in Fds : Closes({fd}) /\ file[fd] # 0 /\ LifeOf(file[fd]) = "watched"
<1>1. PICK slot \in DOMAIN pollfds :
        /\ file' = [file EXCEPT ![pollfds[slot].fd] = 0]
        /\ pollfds' = RemoveAt(pollfds, slot) /\ UNCHANGED born
  BY MarkedSlot DEF LInv
<1>2. PICK fd \in Fds : fd = pollfds[slot].fd
  BY SlotTypes DEF LInv, IInv, TypeOK
<1>3. /\ pollfds \in Seq(PollFd) /\ Len(pollfds) \in Nat /\ DOMAIN pollfds = 1..Len(pollfds)
      /\ \A i \in DOMAIN pollfds : pollfds[i].fd \in Fds /\ file[pollfds[i].fd] = pollfds[i].sock
      /\ file[fd] # 0
  BY <1>2, SlotTypes, OpenSlots DEF LInv, IInv, TypeOK, SlotsNameTheirSocket
<1>4. /\ DOMAIN pollfds' = 1..(Len(pollfds) - 1) /\ slot \in 1..Len(pollfds)
      /\ \A j \in 1..(Len(pollfds) - 1) :
             pollfds'[j] = IF j < slot THEN pollfds[j] ELSE pollfds[j + 1]
  <2>1. /\ pollfds' \in Seq(PollFd) /\ Len(pollfds') = Len(pollfds) - 1
        /\ \A j \in 1..(Len(pollfds) - 1) :
              pollfds'[j] = IF j < slot THEN pollfds[j] ELSE pollfds[j + 1]
    BY <1>1, <1>3, RemoveAtProperties
  <2>2. QED BY <1>3, <2>1, LenProperties
<1> DEFINE from(j) == IF j < slot THEN j ELSE j + 1
           to(i)   == IF i < slot THEN i ELSE i - 1
<1>5. \A j \in DOMAIN pollfds' : from(j) \in DOMAIN pollfds /\ from(j) # slot
                                 /\ pollfds'[j] = pollfds[from(j)]
  BY <1>3, <1>4, SMT
<1>6. \A i \in DOMAIN pollfds : i # slot =>
          to(i) \in DOMAIN pollfds' /\ from(to(i)) = i
  BY <1>3, <1>4, SMT
<1> HIDE DEF from, to
<1>7. \A i \in DOMAIN pollfds : pollfds[i].sock = file[fd] <=> i = slot
  <2>1. \A i \in DOMAIN pollfds : pollfds[i].sock = file[fd] => pollfds[i].fd = pollfds[slot].fd
    BY <1>2, <1>3 DEF LInv, OneNumber
  <2>2. QED BY <1>2, <1>3, <2>1 DEF LInv, IInv, NoDuplicateFd
<1>8. ASSUME NEW s \in Sockets
      PROVE  Registered(s)' <=> Registered(s) /\ \A f \in {fd} : file[f] # s
  <2>1. ASSUME Registered(s)' PROVE Registered(s) /\ file[fd] # s
    <3>1. PICK j \in DOMAIN pollfds' : pollfds'[j].sock = s
      BY <2>1 DEF Registered
    <3>2. QED BY <1>5, <1>7, <3>1 DEF Registered
  <2>2. ASSUME Registered(s), file[fd] # s PROVE Registered(s)'
    <3>1. PICK i \in DOMAIN pollfds : pollfds[i].sock = s
      BY <2>2 DEF Registered
    <3>2. i # slot
      BY <1>7, <2>2, <3>1
    <3>3. to(i) \in DOMAIN pollfds' /\ pollfds'[to(i)].sock = s
      BY <1>5, <1>6, <3>1, <3>2
    <3>4. QED BY <3>3 DEF Registered
  <2>3. QED BY <2>1, <2>2
<1>9. file' = [f \in Fds |-> IF f \in {fd} THEN 0 ELSE file[f]]
  BY <1>1, <1>2 DEF LInv, IInv, TypeOK, KernelTypeOK
<1>10. LifeOf(file[fd]) = "watched"
  BY <1>3, <1>7, NumberedStages DEF Registered
<1>11. QED BY <1>1, <1>3, <1>8, <1>9, <1>10 DEF Closes

\* The exit of the thread closes every number that has a slot.
LEMMA ExitCloseKind ==
    ASSUME LInv, ExitClose
    PROVE  \E F \in SUBSET Fds : /\ Closes(F)
                                 /\ \A f \in F : file[f] # 0 /\ LifeOf(file[f]) = "watched"
<1>1. /\ file' = [f \in Fds |-> IF \E i \in DOMAIN pollfds : pollfds[i].fd = f
                               THEN 0 ELSE file[f]]
      /\ pollfds' = <<>> /\ UNCHANGED born
  BY DEF ExitClose
<1>2. /\ \A i \in DOMAIN pollfds : pollfds[i].fd \in Fds /\ file[pollfds[i].fd] = pollfds[i].sock
      /\ \A i \in DOMAIN pollfds : file[pollfds[i].fd] # 0
  BY SlotTypes, OpenSlots DEF LInv, IInv, TypeOK, SlotsNameTheirSocket
<1>3. PICK F \in SUBSET Fds : F = {pollfds[i].fd : i \in DOMAIN pollfds}
  BY <1>2
<1>4. file' = [f \in Fds |-> IF f \in F THEN 0 ELSE file[f]]
  BY <1>1, <1>3
<1>5. \A s \in Sockets : Registered(s)' <=> Registered(s) /\ \A f \in F : file[f] # s
  BY <1>1, <1>2, <1>3 DEF Registered
<1>6. \A f \in F : file[f] # 0 /\ LifeOf(file[f]) = "watched"
  <2>1. \A f \in F : file[f] # 0 /\ Registered(file[f])
    BY <1>2, <1>3 DEF Registered
  <2>2. QED BY <2>1, NumberedStages
<1>7. QED BY <1>1, <1>4, <1>5, <1>6 DEF Closes

\* The steps of the loop that open, close and register nothing.
LEMMA LoopStays ==
    ASSUME LInv, SocketThread, ~(Accept \/ NewInbound \/ RegisterInbound), ~CloseNext, ~ExitClose
    PROVE  Stays
<1>1. CASE ReadEvent
  BY <1>1, ReadEventStays DEF LInv
<1>2. CASE DrainSend
  <2>1. Current \in DOMAIN snap /\ snap[Current].fd \in Fds
    BY <1>2, CurrentEvent, SnapTypes DEF DrainSend, LInv, IInv, TypeOK
  <2>2. QED BY <1>2, <2>1, SendStays DEF DrainSend, LInv
<1>3. CASE PumpSend
  BY <1>3, SendStays DEF PumpSend, LInv
<1>4. CASE Snapshot \/ Poll \/ Read \/ WriteSpace \/ DrainReturn \/ HandledAll \/ Disconnect
  BY <1>4, QuietStays
  DEF Snapshot, Poll, Read, WriteSpace, DrainReturn, HandledAll, Disconnect, kernel, handler
<1>5. CASE LockToClose \/ UnlockClosed \/ ProcessEvents \/ ProcessReturn \/ ExitLock
           \/ ExitDisconnect
  BY <1>5, QuietStays
  DEF LockToClose, UnlockClosed, ProcessEvents, ProcessReturn, ExitLock, ExitDisconnect,
      kernel, handler
<1>6. QED BY <1>1, <1>2, <1>3, <1>4, <1>5 DEF SocketThread

-----------------------------------------------------------------------------
(* The refinement *)

\* One abstract step for a descriptor that is closed.
LEMMA ClosesOne ==
    ASSUME LInv, NEW fd \in Fds, Closes({fd}), file[fd] # 0,
           LifeOf(file[fd]) \in {"open", "watched"}
    PROVE  Life!Next
<1>1. PICK t \in Sockets : t = file[fd]
  BY SocketFacts
<1>2. Life!Move({t}, LifeOf(t), "closed")
  BY <1>1, ClosesLife
<1>3. QED BY <1>1, <1>2 DEF Life!Next, Life!Refuse, Life!Close

LEMMA ClosesWatched ==
    ASSUME LInv, NEW F \in SUBSET Fds, Closes(F),
           \A f \in F : file[f] # 0 /\ LifeOf(file[f]) = "watched"
    PROVE  Life!Next \/ UNCHANGED [s \in Sockets |-> LifeOf(s)]
<1>1. CASE F = {}
  <2>1. UNCHANGED <<file, born>>
    BY <1>1 DEF Closes, LInv, IInv, TypeOK, KernelTypeOK
  <2>2. \A s \in Sockets : (Registered(s)' <=> Registered(s)) /\ (Named(s)' <=> Named(s))
    BY <1>1, <2>1 DEF Closes, Named
  <2>3. \A s \in Sockets : LifeOf(s)' = LifeOf(s)
    BY <2>1, <2>2 DEF LifeOf
  <2>4. QED BY <2>3
<1>2. CASE F # {}
  BY <1>2, ClosesLife DEF Life!Next, Life!Close
<1>3. QED BY <1>1, <1>2

\* A socket keeps having at most one number.
LEMMA OneNumberKept ==
    ASSUME LInv, \/ Stays
                 \/ \E fd \in Fds : Opens(fd) \/ OpensWatched(fd) \/ HandsOver(fd)
                 \/ \E F \in SUBSET Fds : Closes(F)
    PROVE  OneNumber'
<1>1. CASE UNCHANGED file
  BY <1>1 DEF LInv, OneNumber
<1>2. ASSUME NEW fd \in Fds, NewSocket(fd) PROVE OneNumber'
  <2>1. /\ born \in Nat /\ file' = [file EXCEPT ![fd] = born + 1]
        /\ \A f \in Fds : file[f] # 0 => file[f] <= born /\ file[f] \in Sockets
    BY <1>2, SocketFacts DEF NewSocket
  <2>2. \A s \in Sockets : s \in Nat
    BY SMT DEF Sockets
  <2>3. \A f \in Fds : file[f] # born + 1
    BY <2>1, <2>2
  <2>4. file'[fd] = born + 1 /\ \A f \in Fds \ {fd} : file'[f] = file[f]
    BY <2>1 DEF LInv, IInv, TypeOK, KernelTypeOK
  <2>5. QED BY <2>3, <2>4 DEF LInv, OneNumber
<1>3. ASSUME NEW F \in SUBSET Fds, Closes(F) PROVE OneNumber'
  BY <1>3 DEF Closes, LInv, OneNumber
<1>4. QED BY <1>1, <1>2, <1>3 DEF Stays, Opens, OpensWatched, HandsOver

\* Every step of the program is a step of SocketLife or changes nothing of it.
LEMMA StepLife ==
    ASSUME LInv, [Next]_vars
    PROVE  /\ Life!Next \/ UNCHANGED [s \in Sockets |-> LifeOf(s)]
           /\ OneNumber'
<1>1. CASE Stays
  BY <1>1, StaysLife, OneNumberKept
<1>2. CASE \E fd \in Fds : Opens(fd) \/ OpensWatched(fd) \/ HandsOver(fd)
  BY <1>2, OpensLife, HandsOverLife, OneNumberKept
<1>3. CASE \E fd \in Fds : /\ Closes({fd}) /\ file[fd] # 0
                           /\ LifeOf(file[fd]) \in {"open", "watched"}
  BY <1>3, ClosesOne, OneNumberKept
<1>4. CASE ExitClose
  BY <1>4, ExitCloseKind, ClosesWatched, OneNumberKept
<1>5. CASE SocketThread
  BY <1>1, <1>2, <1>3, <1>4, <1>5, InboundKind, CloseNextKind, LoopStays
<1>6. CASE \E c \in Connectors : Connector(c)
  BY <1>1, <1>2, <1>6, ConnectorKind
<1>7. CASE Others
  BY <1>1, <1>2, <1>7, BindKind, OthersKind
<1>8. CASE UNCHANGED vars
  BY <1>1, <1>8, QuietStays DEF vars, kernel, handler
<1>9. QED BY <1>5, <1>6, <1>7, <1>8 DEF Next, Stopped

LEMMA InitLife == Init => Life!Init /\ OneNumber
<1> SUFFICES ASSUME Init PROVE Life!Init /\ OneNumber
  OBVIOUS
<1>1. born = 0 /\ pollfds = <<>> /\ \A f \in Fds : file[f] = 0
  BY DEF Init
<1>2. \A s \in Sockets : s > born
  BY <1>1, SMT DEF Sockets
<1>3. \A s \in Sockets : LifeOf(s) = "none"
  BY <1>1, <1>2, SMT DEF LifeOf, Sockets
<1>4. QED BY <1>1, <1>3 DEF Life!Init, OneNumber

\* The threads of ldk_net.c, with their reused numbers, shared array, stale copy
\* and locks, move every socket only as SocketLife says.
THEOREM ImplementsSocketLife == Spec => KeepsSocketLife
<1>1. IInv /\ OneNumber /\ [Next]_vars =>
          /\ [Life!Next]_[s \in Sockets |-> LifeOf(s)]
          /\ OneNumber'
  BY StepLife DEF LInv
<1>2. QED BY <1>1, InitLife, Inductive, PTL DEF Spec, KeepsSocketLife, Life!Spec
=============================================================================
