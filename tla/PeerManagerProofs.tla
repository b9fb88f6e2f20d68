--------------------------- MODULE PeerManagerProofs ---------------------------
(***************************************************************************)
(* Proofs about what PeerManager knows of the descriptors, over every      *)
(* behaviour of Spec.  socket_connect may announce a descriptor after the  *)
(* socket thread gave it up (ldk_net.c:403, 406); "late" remembers the     *)
(* descriptors of which that is true.  For all others the table is right,  *)
(* and no peer, late or not, is forgotten while it waits to write.         *)
(***************************************************************************)
EXTENDS PeerSocketsProofs

\* What PeerManager's table needs in order to stay right: no peer is on a number
\* that is leaving or was not announced yet, but for those announced late.
LeavingIsForgotten == \A fd \in Fds : Leaving(fd) => peers[fd] = 0 \/ fd \in late
Unannounced == pc = "inbound" => peers[newfd] = 0 \/ newfd \in late
ExitHoldsMutex == pc = "exit" => mutex = "socket_thread"
StartsAtOne == Handling \/ pc = "poll" => k = 1

\* A socket that is still to be announced is known to nobody else: PeerManager has
\* no peer on it, and no other thread is about to announce it.
Pending(c) == cpc[c] \in {"register", "hello"}
UnknownCallers ==
    \A c \in Connectors : Pending(c) =>
        /\ \A fd \in Fds : peers[fd] # csock[c]
        /\ \A d \in Connectors : Pending(d) /\ csock[d] = csock[c] => d = c
        /\ cpc[c] = "register" => file[cfd[c]] = csock[c]
UnknownAccepted ==
    pc = "inbound" => /\ \A fd \in Fds : peers[fd] # file[newfd]
                      /\ \A c \in Connectors : Pending(c) => csock[c] # file[newfd]
AnnouncedOnce == UnknownCallers /\ UnknownAccepted

OpenInv ==
    /\ PeersAreOpen /\ LeavingIsForgotten /\ Unannounced /\ AnnouncedOnce
    /\ ExitHoldsMutex /\ StartsAtOne

\* What the pause and resume of sock_send_data need: a slot update on its way is
\* made before PeerManager lets another thread in, a resume is for a peer whose
\* write was complete, and a stalled peer waits for POLLOUT or is about to.
UpdateUnderLock ==
    update # <<>> => /\ pm # "free"
                     /\ update[2] = {"POLLIN"} => link[update[1]] # "stalled"
NewPeerIsNew == pc = "register" => link[newfd] = "new" \/ ~Running
StalledWaits ==
    \A i \in DOMAIN pollfds :
        LET e == pollfds[i] IN
        (peers[e.fd] = e.sock /\ link[e.fd] = "stalled" /\ e.sock \notin hung)
            => "POLLOUT" \in e.events \/ update = <<e.fd, {"POLLOUT"}>>
StallInv == UpdateUnderLock /\ NewPeerIsNew /\ StalledWaits

-----------------------------------------------------------------------------
(* Steps that open, close and announce nothing *)

LEMMA Domains ==
    ASSUME IInv
    PROVE  /\ peers \in [Fds -> 0..born]
           /\ link \in [Fds -> {"new", "up", "stalled"}] /\ file \in [Fds -> 0..born]
           /\ \A i \in DOMAIN pollfds : pollfds[i].fd \in Fds /\ file[pollfds[i].fd] # 0
           /\ \A i \in DOMAIN snap : snap[i].fd \in Fds
           /\ pc \in {"inbound", "register"} => newfd \in Fds /\ file[newfd] # 0
           /\ \A c \in Connectors : cpc[c] # "idle" => cfd[c] \in Fds /\ csock[c] # 0
BY SlotTypes, SnapTypes, OpenSlots
DEF IInv, TypeOK, KernelTypeOK, ManagerTypeOK, PrivateDescriptors, Accepting, Unregistered

\* PeerManager hears of no connection, and the callers begin none.
OnlyForgets ==
    \A fd \in Fds : \/ peers'[fd] = 0
                    \/ peers'[fd] = peers[fd] /\ (fd \in late => fd \in late')
CallersGoOn ==
    \A c \in Connectors : Pending(c)' =>
        /\ Pending(c) /\ csock'[c] = csock[c]
        /\ cpc'[c] = "register" => cpc[c] = "register" /\ cfd'[c] = cfd[c]
AcceptGoesOn == pc' = "inbound" => pc = "inbound" /\ UNCHANGED newfd

LEMMA KeepUnknown ==
    ASSUME IInv, AnnouncedOnce, OnlyForgets, CallersGoOn, AcceptGoesOn,
           \A c \in Connectors : cpc[c] = "register" => file'[cfd[c]] = file[cfd[c]],
           pc = "inbound" => file'[newfd] = file[newfd]
    PROVE  AnnouncedOnce'
<1>1. /\ \A c \in Connectors : Pending(c) => csock[c] # 0
      /\ pc = "inbound" => file[newfd] # 0
  BY Domains DEF Pending
<1>2. UnknownCallers'
  BY <1>1 DEF AnnouncedOnce, UnknownCallers, OnlyForgets, CallersGoOn
<1>3. UnknownAccepted'
  BY <1>1 DEF AnnouncedOnce, UnknownAccepted, OnlyForgets, CallersGoOn, AcceptGoesOn
<1>4. QED BY <1>2, <1>3 DEF AnnouncedOnce

LEMMA KeepOpen ==
    ASSUME IInv, OpenInv, UNCHANGED file, OnlyForgets, CallersGoOn, AcceptGoesOn,
           \A fd \in Fds : Leaving(fd)' => Leaving(fd) \/ peers'[fd] = 0,
           ExitHoldsMutex', StartsAtOne'
    PROVE  OpenInv'
<1>1. PeersAreOpen'
  BY DEF OpenInv, PeersAreOpen, OnlyForgets
<1>2. LeavingIsForgotten'
  BY DEF OpenInv, LeavingIsForgotten, OnlyForgets
<1>3. Unannounced'
  BY Domains DEF OpenInv, Unannounced, OnlyForgets, AcceptGoesOn
<1>4. AnnouncedOnce'
  BY KeepUnknown DEF OpenInv
<1>5. QED BY <1>1, <1>2, <1>3, <1>4 DEF OpenInv

\* While the socket thread stands still, no descriptor begins to leave.
LEMMA SameLeaving ==
    ASSUME UNCHANGED <<pc, snap, close_socks, k>>, pc = "exit" => SameSlots
    PROVE  \A fd \in Fds : Leaving(fd)' => Leaving(fd)
BY DEF Leaving, SameSlots, KeepsSlots

LEMMA StillOpen ==
    ASSUME IInv, OpenInv, UNCHANGED <<file, thread, mutex>>, pc = "exit" => SameSlots,
           OnlyForgets, CallersGoOn
    PROVE  OpenInv'
<1>1. \A fd \in Fds : Leaving(fd)' => Leaving(fd)
  BY SameLeaving DEF thread
<1>2. ExitHoldsMutex' /\ StartsAtOne'
  BY DEF OpenInv, ExitHoldsMutex, StartsAtOne, Handling, thread
<1>3. AcceptGoesOn
  BY DEF thread, AcceptGoesOn
<1>4. QED BY <1>1, <1>2, <1>3, KeepOpen

LEMMA QuietCallers ==
    ASSUME UNCHANGED callers
    PROVE  CallersGoOn
BY DEF callers, CallersGoOn, Pending

LEMMA QuietThread ==
    ASSUME UNCHANGED <<peers, late, callers>>, pc' # "inbound"
    PROVE  OnlyForgets /\ CallersGoOn /\ AcceptGoesOn
BY QuietCallers DEF OnlyForgets, AcceptGoesOn

\* A step of another thread that touches neither descriptors nor slots.
LEMMA QuietOpen ==
    ASSUME IInv, OpenInv, UNCHANGED <<file, thread, callers, pollfds, mutex>>, OnlyForgets
    PROVE  OpenInv'
BY StillOpen, UnchangedSlots, QuietCallers

LEMMA SendOpen ==
    ASSUME IInv, OpenInv, NEW t, (\E fd \in Fds : SendData(t, fd)) \/ SetEvents(t)
    PROVE  OpenInv'
<1>1. CASE \E fd \in Fds : SendData(t, fd)
  BY <1>1, QuietOpen DEF SendData, handler, OnlyForgets
<1>2. CASE SetEvents(t)
  <2>1. UNCHANGED <<callers, peers, late>>
    BY <1>2 DEF SetEvents
  <2>2. QED BY <1>2, <2>1, StillOpen, SetEventsSlots, QuietCallers DEF SetEvents, kernel, OnlyForgets
<1>3. QED BY <1>1, <1>2

LEMMA ForgetPeers ==
    ASSUME IInv, NEW fd \in Fds, Forget(fd)
    PROVE  /\ OnlyForgets /\ peers'[fd] = 0 /\ link'[fd] = "new"
           /\ \A f \in Fds : f # fd => peers'[f] = peers[f] /\ link'[f] = link[f]
BY Domains DEF Forget, OnlyForgets

LEMMA OthersOpen ==
    ASSUME IInv, OpenInv, Others, ~Bind
    PROVE  OpenInv'
<1>1. CASE BackgroundEnter \/ BackgroundReturn \/ Interrupt \/ InterruptJoined \/ UseFreedHandler
  BY <1>1, QuietOpen DEF BackgroundEnter, BackgroundReturn, Interrupt, InterruptJoined,
     UseFreedHandler, kernel, handler, manager, OnlyForgets
<1>2. CASE BackgroundSend
  BY <1>2, SendOpen DEF BackgroundSend
<1>3. CASE \E fd \in Fds : DisconnectPeer(fd)
  BY <1>3, QuietOpen, ForgetPeers DEF DisconnectPeer, SockDisconnect, handler
<1>4. CASE \E s \in Sockets : RemoteHangup(s)
  BY <1>4, QuietOpen DEF RemoteHangup, handler, manager, OnlyForgets
<1>5. QED BY <1>1, <1>2, <1>3, <1>4 DEF Others

-----------------------------------------------------------------------------
(* New sockets, registrations and announcements *)

\* A number that named nothing gets a socket nobody has heard of: any peer on it was
\* announced late.
LEMMA NewSocketOpen ==
    ASSUME IInv, OpenInv, NEW fd \in Fds, NewSocket(fd)
    PROVE  /\ file[fd] = 0 /\ (peers[fd] = 0 \/ fd \in late)
           /\ file'[fd] = born + 1 /\ born' = born + 1 /\ born \in Nat
           /\ \A f \in Fds : f # fd => file'[f] = file[f]
           /\ \A f \in Fds : peers[f] # born + 1
           /\ \A c \in Connectors : csock[c] # born + 1
           /\ \A c \in Connectors : cpc[c] = "register" => file'[cfd[c]] = file[cfd[c]]
           /\ pc = "inbound" => file'[newfd] = file[newfd] /\ file[newfd] # born + 1
<1>1. /\ file[fd] = 0 /\ file'[fd] = born + 1 /\ born' = born + 1
      /\ \A f \in Fds : f # fd => file'[f] = file[f]
  BY Domains DEF NewSocket
<1>2. peers[fd] = 0 \/ fd \in late
  BY <1>1 DEF OpenInv, PeersAreOpen
<1>3. born \in Nat /\ \A n \in 0..born : n # born + 1
  BY BornNat, SMT DEF IInv, TypeOK
<1>4. \A c \in Connectors : csock[c] \in 0..born
  BY DEF IInv, TypeOK, CallerTypeOK
<1>5. \A c \in Connectors : cpc[c] = "register" => cfd[c] \in Fds /\ file[cfd[c]] # 0
  BY Domains DEF OpenInv, AnnouncedOnce, UnknownCallers, Pending
<1>6. QED BY <1>1, <1>2, <1>3, <1>4, <1>5, Domains

LEMMA ConnectOpen ==
    ASSUME IInv, OpenInv, NEW c \in Connectors, Connect(c)
    PROVE  OpenInv'
<1>1. PICK fd \in Fds : NewSocket(fd) /\
          (\/ /\ cpc' = [cpc EXCEPT ![c] = "register"] /\ cfd' = [cfd EXCEPT ![c] = fd]
              /\ csock' = [csock EXCEPT ![c] = born']
           \/ UNCHANGED callers)
  BY DEF Connect
<1>2. UNCHANGED <<handler, peers, late, thread>>
  BY DEF Connect, manager
<1>3. CallerTypeOK
  BY DEF IInv, TypeOK
<1>4. \A d \in Connectors : Pending(d)' =>
          \/ /\ Pending(d) /\ csock'[d] = csock[d]
             /\ cpc'[d] = "register" => cpc[d] = "register" /\ cfd'[d] = cfd[d]
          \/ d = c /\ csock'[d] = born + 1 /\ cfd'[d] = fd
  BY <1>1, <1>3, NewSocketOpen DEF CallerTypeOK, Pending, callers
<1>5. PeersAreOpen'
  BY <1>1, <1>2, NewSocketOpen DEF OpenInv, PeersAreOpen
<1>6. LeavingIsForgotten'
  BY <1>2, SameLeaving, UnchangedSlots DEF OpenInv, LeavingIsForgotten, handler, thread
<1>7. Unannounced'
  BY <1>2 DEF OpenInv, Unannounced, thread
<1>8. UnknownCallers'
  <2>1. /\ \A f \in Fds : peers[f] # born + 1
        /\ \A d \in Connectors : csock[d] # born + 1
        /\ \A d \in Connectors : cpc[d] = "register" => file'[cfd[d]] = file[cfd[d]]
        /\ file'[fd] = born + 1
    BY <1>1, NewSocketOpen
  <2>2. UnknownCallers
    BY DEF OpenInv, AnnouncedOnce
  <2>3. UNCHANGED peers
    BY <1>2
  <2>4. ASSUME NEW d \in Connectors, Pending(d)'
        PROVE  /\ \A f \in Fds : peers'[f] # csock'[d]
               /\ \A e \in Connectors : Pending(e)' /\ csock'[e] = csock'[d] => e = d
               /\ (cpc'[d] = "register" => file'[cfd'[d]] = csock'[d])
    BY <1>4, <2>1, <2>2, <2>3, <2>4 DEF UnknownCallers
  <2>5. QED BY <2>4 DEF UnknownCallers, Pending
<1>9. UnknownAccepted'
  <2>1. pc' = "inbound" => /\ pc = "inbound" /\ newfd' = newfd
                           /\ file'[newfd] = file[newfd] /\ file[newfd] # born + 1
    BY <1>1, <1>2, NewSocketOpen DEF thread
  <2>2. UnknownAccepted
    BY DEF OpenInv, AnnouncedOnce
  <2>3. UNCHANGED peers
    BY <1>2
  <2>4. QED BY <1>4, <2>1, <2>2, <2>3 DEF UnknownAccepted
<1>10. QED
  BY <1>2, <1>5, <1>6, <1>7, <1>8, <1>9
  DEF OpenInv, AnnouncedOnce, ExitHoldsMutex, StartsAtOne, Handling, handler, thread

\* A caller that goes on in socket_connect registers nothing new and announces nothing.
LEMMA CallerGoesOn ==
    ASSUME IInv, NEW c \in Connectors, (cpc[c] = "register" /\ Registering(c)) \/ Return(c)
    PROVE  CallersGoOn
BY DEF IInv, TypeOK, CallerTypeOK, Registering, Return, CallersGoOn, Pending

\* An announcement in time puts the peer on its own open connection; a late one is
\* remembered; and nobody else knows the socket.
LEMMA NewOutboundOpen ==
    ASSUME IInv, OpenInv, NEW c \in Connectors, NewOutbound(c)
    PROVE  OpenInv'
<1>1. PICK result \in Results :
          /\ NewConnection(cfd[c], csock[c], result)
          /\ IF result = "err"
             THEN Shutdown(cfd[c]) /\ Return(c) /\ UNCHANGED late
             ELSE /\ cpc' = [cpc EXCEPT ![c] = "send"] /\ UNCHANGED <<hung, cfd, csock>>
                  /\ late' = late \cup (IF InTime(c) THEN {} ELSE {cfd[c]})
  BY DEF NewOutbound
<1>2. /\ cpc[c] = "hello" /\ cfd[c] \in Fds /\ csock[c] # 0 /\ Pending(c)
      /\ UNCHANGED <<file, pollfds, mutex, thread>>
  BY Domains DEF NewOutbound, Pending
<1>3. /\ \A f \in Fds : f # cfd[c] => peers'[f] = peers[f]
      /\ peers'[cfd[c]] \in {peers[cfd[c]], csock[c]}
      /\ late \subseteq late'
      /\ UNCHANGED peers \/ cfd[c] \in late' \/ (InTime(c) /\ peers'[cfd[c]] = csock[c])
  BY <1>1, <1>2, Domains DEF NewConnection
<1>4. \A d \in Connectors : Pending(d)' =>
          /\ d # c /\ Pending(d) /\ csock'[d] = csock[d]
          /\ (cpc'[d] = "register" => cpc[d] = "register" /\ cfd'[d] = cfd[d])
  BY <1>1, <1>2 DEF Return, IInv, TypeOK, CallerTypeOK, Pending
<1>5. PeersAreOpen'
  BY <1>2, <1>3 DEF OpenInv, PeersAreOpen, InTime
<1>6. LeavingIsForgotten'
  <2>1. \A f \in Fds : Leaving(f)' => Leaving(f)
    BY <1>2, SameLeaving, UnchangedSlots DEF thread
  <2>2. QED BY <1>3, <2>1 DEF OpenInv, LeavingIsForgotten, InTime
<1>7. Unannounced'
  <2>1. ASSUME pc' = "inbound" PROVE peers'[newfd'] = 0 \/ newfd' \in late'
    <3>1. newfd \in Fds /\ pc = "inbound" /\ newfd' = newfd
      BY <1>2, <2>1, Domains DEF thread
    <3>2. csock[c] # file[newfd]
      BY <1>2, <3>1 DEF OpenInv, AnnouncedOnce, UnknownAccepted
    <3>3. QED BY <1>3, <3>1, <3>2 DEF OpenInv, Unannounced, InTime
  <2>2. QED BY <2>1 DEF Unannounced
<1>8. UnknownCallers'
  <2>1. UnknownCallers
    BY DEF OpenInv, AnnouncedOnce
  <2>2. QED BY <1>2, <1>3, <1>4, <2>1 DEF UnknownCallers
<1>9. UnknownAccepted'
  <2>1. UnknownAccepted
    BY DEF OpenInv, AnnouncedOnce
  <2>2. QED BY <1>2, <1>3, <1>4, <2>1 DEF UnknownAccepted, thread
<1>10. QED
  BY <1>2, <1>5, <1>6, <1>7, <1>8, <1>9
  DEF OpenInv, AnnouncedOnce, ExitHoldsMutex, StartsAtOne, Handling, thread

LEMMA CallersOpen ==
    ASSUME IInv, OpenInv, NEW c \in Connectors, Connector(c)
    PROVE  OpenInv'
<1>1. CASE ConnectRegister(c)
  <2>1. /\ UNCHANGED <<kernel, mutex, exit, manager, thread>>
        /\ mutex = "free" \/ UNCHANGED pollfds
        /\ (cpc[c] = "register" /\ Registering(c)) \/ Return(c)
    BY <1>1 DEF ConnectRegister, RegisterSocket
  <2>2. pc = "exit" => SameSlots
    BY <2>1, UnchangedSlots DEF OpenInv, ExitHoldsMutex
  <2>3. QED BY <2>1, <2>2, CallerGoesOn, StillOpen DEF kernel, manager, OnlyForgets
<1>2. CASE SendHello(c)
  BY <1>2, CallerGoesOn, StillOpen, UnchangedSlots DEF SendHello, handler, manager, OnlyForgets
<1>3. QED BY <1>1, <1>2, ConnectOpen, NewOutboundOpen DEF Connector

LEMMA BindOpen ==
    ASSUME IInv, OpenInv, Bind PROVE OpenInv'
<1>1. PICK fd \in Fds : NewSocket(fd) /\ (mutex = "free" \/ UNCHANGED pollfds)
  BY DEF Bind, RegisterSocket
<1>2. UNCHANGED <<mutex, peers, late, thread, callers>>
  BY DEF Bind, manager
<1>3. PeersAreOpen'
  BY <1>1, <1>2, NewSocketOpen DEF OpenInv, PeersAreOpen
<1>4. LeavingIsForgotten'
  <2>1. pc = "exit" => SameSlots
    BY <1>1, UnchangedSlots DEF OpenInv, ExitHoldsMutex
  <2>2. QED BY <1>2, <2>1, SameLeaving DEF OpenInv, LeavingIsForgotten, thread
<1>5. AnnouncedOnce'
  <2>1. OnlyForgets /\ CallersGoOn /\ AcceptGoesOn
    BY <1>2, QuietCallers DEF OnlyForgets, AcceptGoesOn, thread
  <2>2. QED BY <1>1, <2>1, NewSocketOpen, KeepUnknown DEF OpenInv
<1>6. QED
  BY <1>2, <1>3, <1>4, <1>5
  DEF OpenInv, Unannounced, ExitHoldsMutex, StartsAtOne, Handling, thread, callers

-----------------------------------------------------------------------------
(* The socket thread *)

\* A step of the thread that opens, closes and announces nothing and that neither
\* is nor comes to a point where descriptors are leaving.
LEMMA LoopOpen ==
    ASSUME IInv, OpenInv, UNCHANGED <<file, peers, late, callers, k>>, pc' # "inbound",
           pc' \in {"poll", "handle", "event", "register", "drain"}, Handling \/ pc = "poll"
    PROVE  OpenInv'
<1>1. \A fd \in Fds : ~Leaving(fd)'
  BY DEF Leaving
<1>2. OnlyForgets /\ CallersGoOn /\ AcceptGoesOn
  BY QuietThread
<1>3. ExitHoldsMutex' /\ StartsAtOne'
  BY DEF OpenInv, ExitHoldsMutex, StartsAtOne
<1>4. QED BY <1>1, <1>2, <1>3, KeepOpen

LEMMA PassOpen ==
    ASSUME IInv, OpenInv, UNCHANGED <<file, peers, late, callers>>, pc' # "inbound",
           pc' \notin {"disconnect", "close", "exit"}, k' = 1 \/ pc' \in {"pump", "loop"}
    PROVE  OpenInv'
<1>1. \A fd \in Fds : ~Leaving(fd)'
  BY DEF Leaving
<1>2. OnlyForgets /\ CallersGoOn /\ AcceptGoesOn
  BY QuietThread
<1>3. ExitHoldsMutex' /\ StartsAtOne'
  BY DEF ExitHoldsMutex, StartsAtOne, Handling
<1>4. QED BY <1>1, <1>2, <1>3, KeepOpen

LEMMA LoopSteps ==
    ASSUME IInv, OpenInv,
           \/ Poll \/ Read \/ RegisterInbound \/ ReadEvent \/ WriteSpace \/ DrainReturn
    PROVE  OpenInv'
<1> USE DEF kernel, handler, manager, Handling
<1>1. CASE Poll
  BY <1>1, LoopOpen DEF Poll
<1>2. CASE Read
  BY <1>2, LoopOpen DEF Read, AtEvent
<1>3. CASE RegisterInbound
  BY <1>3, LoopOpen DEF RegisterInbound
<1>4. CASE ReadEvent
  BY <1>4, LoopOpen DEF ReadEvent
<1>5. CASE WriteSpace
  BY <1>5, LoopOpen DEF WriteSpace, AtEvent
<1>6. CASE DrainReturn
  BY <1>6, LoopOpen DEF DrainReturn
<1>7. QED BY <1>1, <1>2, <1>3, <1>4, <1>5, <1>6

LEMMA PassSteps ==
    ASSUME IInv, OpenInv, Snapshot \/ UnlockClosed \/ ProcessEvents \/ ProcessReturn
    PROVE  OpenInv'
<1> USE DEF kernel, handler, manager
<1>1. CASE Snapshot
  BY <1>1, PassOpen DEF Snapshot
<1>2. CASE UnlockClosed
  BY <1>2, PassOpen DEF UnlockClosed
<1>3. CASE ProcessEvents
  BY <1>3, PassOpen DEF ProcessEvents
<1>4. CASE ProcessReturn
  BY <1>4, PassOpen DEF ProcessReturn
<1>5. QED BY <1>1, <1>2, <1>3, <1>4

\* An accepted connection is unknown to everybody else until PeerManager hears of
\* it, and the socket thread closes nothing in between.
LEMMA AcceptOpen ==
    ASSUME IInv, OpenInv, Accept
    PROVE  OpenInv'
<1>1. /\ pc = "handle" /\ pc' \in {"handle", "inbound"}
      /\ UNCHANGED <<peers, late, callers, k>>
  BY DEF Accept, AtEvent, manager
<1>2. CASE UNCHANGED file /\ pc' = "handle"
  BY <1>1, <1>2, LoopOpen DEF Handling
<1>3. CASE \E fd \in Fds : NewSocket(fd) /\ newfd' = fd
  <2>1. PICK fd \in Fds : NewSocket(fd) /\ newfd' = fd
    BY <1>3
  <2>2. PeersAreOpen'
    BY <1>1, <2>1, NewSocketOpen DEF OpenInv, PeersAreOpen
  <2>3. LeavingIsForgotten'
    BY <1>1 DEF LeavingIsForgotten, Leaving
  <2>4. Unannounced'
    BY <1>1, <2>1, NewSocketOpen DEF OpenInv, Unannounced
  <2>5. UnknownCallers'
    BY <1>1, <2>1, NewSocketOpen DEF OpenInv, AnnouncedOnce, UnknownCallers, Pending, callers
  <2>6. UnknownAccepted'
    <3>1. /\ \A f \in Fds : peers[f] # born + 1
          /\ \A c \in Connectors : csock[c] # born + 1
          /\ file'[newfd'] = born + 1
      BY <2>1, NewSocketOpen
    <3>2. QED BY <1>1, <3>1 DEF UnknownAccepted, callers
  <2>7. QED
    BY <1>1, <2>2, <2>3, <2>4, <2>5, <2>6
    DEF OpenInv, AnnouncedOnce, ExitHoldsMutex, StartsAtOne, Handling
<1>4. QED BY <1>2, <1>3 DEF Accept, AtEvent

\* An accepted connection panics PeerManager only over a late peer.
LEMMA NewInboundOpen ==
    ASSUME IInv, OpenInv, NewInbound
    PROVE  OpenInv' /\ PanicsOnlyIfLate'
<1>1. /\ pc = "inbound" /\ newfd \in Fds /\ (peers[newfd] = 0 \/ newfd \in late)
      /\ pc' \in {"register", "handle"} /\ UNCHANGED <<callers, k, mutex, late>>
  BY Domains DEF NewInbound, OpenInv, Unannounced
<1>2. PICK result \in Results :
          /\ NewConnection(newfd, file[newfd], result)
          /\ IF result = "err" THEN file' = [file EXCEPT ![newfd] = 0] ELSE UNCHANGED file
  BY DEF NewInbound
<1>3. /\ peers' \in {peers, [peers EXCEPT ![newfd] = file[newfd]]}
      /\ result = "err" => UNCHANGED peers
      /\ result # "panic" => UNCHANGED fault
      /\ result = "panic" => newfd \in late
  BY <1>1, <1>2 DEF NewConnection
<1>4. PeersAreOpen'
  BY <1>1, <1>2, <1>3, Domains DEF OpenInv, PeersAreOpen
<1>5. LeavingIsForgotten'
  BY <1>1 DEF LeavingIsForgotten, Leaving
<1>6. UnknownCallers'
  <2>1. \A c \in Connectors : cpc[c] = "register" => cfd[c] # newfd /\ cfd[c] \in Fds
    BY <1>1 DEF IInv, PrivateDescriptors, Accepting
  <2>2. UnknownCallers /\ \A c \in Connectors : Pending(c) => csock[c] # file[newfd]
    BY <1>1 DEF OpenInv, AnnouncedOnce, UnknownAccepted
  <2>3. \A f \in Fds : peers'[f] \in {peers[f], file[newfd]}
    BY <1>1, <1>3, Domains
  <2>4. \A f \in Fds : f # newfd => file'[f] = file[f]
    BY <1>2, Domains
  <2>5. UNCHANGED <<cpc, cfd, csock>>
    BY <1>1 DEF callers
  <2>6. QED BY <2>1, <2>2, <2>3, <2>4, <2>5 DEF UnknownCallers, Pending
<1>7. OpenInv'
  BY <1>1, <1>4, <1>5, <1>6
  DEF OpenInv, AnnouncedOnce, UnknownAccepted, Unannounced, ExitHoldsMutex, StartsAtOne, Handling
<1>8. PanicsOnlyIfLate'
  BY <1>1, <1>2, <1>3 DEF PanicsOnlyIfLate, NewInbound, Running
<1>9. QED BY <1>7, <1>8

\* The thread tells PeerManager of every descriptor it marked.
LEMMA DisconnectOpen ==
    ASSUME IInv, OpenInv, HandledAll \/ Disconnect \/ LockToClose
    PROVE  OpenInv'
<1>0. /\ k \in Nat \ {0} /\ Len(close_socks) \in Nat
      /\ DOMAIN close_socks = 1..Len(close_socks)
  BY Domains, LenProperties DEF IInv, TypeOK, ThreadTypeOK
<1>1. CASE HandledAll
  <2>1. /\ pc = "handle" /\ pc' = "disconnect" /\ k' = 1
        /\ UNCHANGED <<file, peers, late, callers, close_socks>>
    BY <1>1 DEF HandledAll, kernel, manager, OpenInv, StartsAtOne, Handling
  <2>2. \A fd \in Fds : ~Leaving(fd)'
    BY <1>0, <2>1, SMT DEF Leaving
  <2>3. QED
    BY <1>0, <2>1, <2>2, QuietThread, KeepOpen
    DEF ExitHoldsMutex, StartsAtOne, Handling
<1>2. CASE Disconnect
  <2>1. /\ pc = "disconnect" /\ pc' = "disconnect" /\ k' = k + 1 /\ k \in DOMAIN close_socks
        /\ Forget(pollfds[close_socks[k]].fd)
        /\ UNCHANGED <<file, callers, snap, close_socks>>
    BY <1>0, <1>2, SMT DEF Disconnect, SocketDisconnected, kernel
  <2>2. /\ pollfds[close_socks[k]].fd = snap[close_socks[k]].fd
        /\ snap[close_socks[k]].fd \in Fds
    <3>1. close_socks[k] \in DOMAIN snap /\ Moved = 0 /\ ~Behind(close_socks[k])
      BY <2>1 DEF IInv, MarksBehindLoop, UsesIndices, Moved, Behind
    <3>2. close_socks[k] - 0 = close_socks[k]
      BY <3>1, SnapTypes, SMT DEF IInv, TypeOK
    <3>3. QED BY <2>1, <3>1, <3>2, Domains DEF IInv, IndicesStillName, UsesIndices
  <2>3. \A fd \in Fds : Leaving(fd)' => Leaving(fd) \/ peers'[fd] = 0
    <3>1. \A m \in DOMAIN close_socks : m < k + 1 => m < k \/ m = k
      BY <1>0, SMT
    <3>2. QED BY <2>1, <2>2, <3>1, ForgetPeers DEF Leaving
  <2>4. QED
    BY <1>0, <2>1, <2>2, <2>3, ForgetPeers, QuietCallers, KeepOpen
    DEF ExitHoldsMutex, StartsAtOne, Handling, AcceptGoesOn
<1>3. CASE LockToClose
  <2>1. /\ pc = "disconnect" /\ pc' = "close" /\ k > Len(close_socks)
        /\ UNCHANGED <<file, peers, late, callers, snap, close_socks>>
    BY <1>3 DEF LockToClose, Told, kernel, manager
  <2>2. \A fd \in Fds : Leaving(fd)' => Leaving(fd)
    <3>1. \A m \in DOMAIN close_socks : m < k
      BY <1>0, <2>1, SMT
    <3>2. QED BY <2>1, <3>1 DEF Leaving
  <2>3. QED
    BY <1>0, <2>1, <2>2, QuietThread, KeepOpen
    DEF ExitHoldsMutex, StartsAtOne, Handling
<1>4. QED BY <1>1, <1>2, <1>3

\* Closing a descriptor that was told about leaves no peer on a closed number.
LEMMA CloseOpen ==
    ASSUME IInv, OpenInv, CloseNext
    PROVE  OpenInv'
<1>1. /\ pc = "close" /\ k <= Len(close_socks) /\ k \in Nat \ {0}
      /\ Len(close_socks) \in Nat /\ DOMAIN close_socks = 1..Len(close_socks)
      /\ \A m \in DOMAIN close_socks : close_socks[m] \in DOMAIN snap
      /\ DOMAIN snap = 1..Len(snap) /\ Len(snap) \in Nat
      /\ \A m, n \in DOMAIN close_socks : m < n => close_socks[m] < close_socks[n]
      /\ UNCHANGED <<mutex, manager, pc, snap, close_socks, newfd, callers>>
  BY LenProperties, SnapTypes
  DEF CloseNext, IInv, TypeOK, ThreadTypeOK, MarksBehindLoop, UsesIndices, MarkedOnce
<1> DEFINE m == close_socks[k]
           fd == snap[m].fd
<1>2. k \in DOMAIN close_socks /\ m \in DOMAIN snap /\ m \in Int
  BY <1>1, SMT
<1>3. k > 1 => k - 1 \in DOMAIN close_socks /\ close_socks[k - 1] < m
  BY <1>1, <1>2, SMTT(30)
<1>4. ~(k > 1 /\ close_socks[k] <= close_socks[k - 1]) /\ ~Behind(m) /\ Moved = k - 1
  BY <1>1, <1>2, <1>3, SMT DEF Behind, Moved
<1>5. pollfds[m - (k - 1)].fd = fd /\ m - (k - 1) \in DOMAIN pollfds
  BY <1>1, <1>2, <1>4 DEF IInv, IndicesStillName, UsesIndices
<1>6. file' = [file EXCEPT ![fd] = 0] /\ k' = k + 1
  BY <1>4, <1>5 DEF CloseNext
<1>7. Leaving(fd)
  BY <1>1, <1>2, SMT DEF Leaving
<1> HIDE DEF m, fd
<1>8. PeersAreOpen'
  <2>1. peers[fd] = 0 \/ fd \in late \/ fd \notin Fds
    BY <1>7 DEF OpenInv, LeavingIsForgotten
  <2>2. \A f \in Fds : f # fd => file'[f] = file[f]
    BY <1>6, Domains
  <2>3. QED BY <1>1, <2>1, <2>2 DEF OpenInv, PeersAreOpen, manager
<1>9. LeavingIsForgotten'
  <2>1. \A n \in DOMAIN close_socks : k + 1 <= n => k <= n
    BY <1>1, SMT
  <2>2. \A f \in Fds : Leaving(f)' => Leaving(f)
    BY <1>1, <1>6, <2>1 DEF Leaving
  <2>3. QED BY <1>1, <2>2 DEF OpenInv, LeavingIsForgotten, manager
<1>10. AnnouncedOnce'
  <2>1. \A c \in Connectors : cpc[c] = "register" => cfd[c] \in Fds /\ cfd[c] # fd
    BY <1>5 DEF IInv, PrivateDescriptors, Unregistered, InNoSlot
  <2>2. \A c \in Connectors : cpc[c] = "register" => file'[cfd[c]] = file[cfd[c]]
    BY <1>6, <2>1, Domains
  <2>3. QED BY <1>1, <2>2, QuietThread, KeepUnknown DEF OpenInv, manager
<1>11. QED
  BY <1>1, <1>8, <1>9, <1>10
  DEF OpenInv, Unannounced, ExitHoldsMutex, StartsAtOne, Handling

\* At exit every descriptor of the array is told about and then closed.
LEMMA ExitOpen ==
    ASSUME IInv, OpenInv, ExitLock \/ ExitDisconnect \/ ExitClose
    PROVE  OpenInv'
<1>0. /\ k \in Nat \ {0} /\ Len(pollfds) \in Nat /\ DOMAIN pollfds = 1..Len(pollfds)
  BY Domains, SlotTypes DEF IInv, TypeOK, ThreadTypeOK
<1>1. CASE ExitLock
  <2>1. pc' = "exit" /\ k' = 1 /\ mutex' = "socket_thread" /\ UNCHANGED <<file, peers, late, callers, pollfds>>
    BY <1>1 DEF ExitLock, kernel, manager
  <2>2. \A fd \in Fds : ~Leaving(fd)'
    BY <1>0, <2>1, SMT DEF Leaving
  <2>3. QED
    BY <1>0, <2>1, <2>2, QuietThread, KeepOpen
    DEF ExitHoldsMutex, StartsAtOne, Handling
<1>2. CASE ExitDisconnect
  <2>1. /\ pc = "exit" /\ pc' = "exit" /\ k' = k + 1 /\ k \in DOMAIN pollfds
        /\ Forget(pollfds[k].fd) /\ pollfds[k].fd \in Fds
        /\ UNCHANGED <<file, callers, pollfds, mutex>>
    BY <1>0, <1>2, Domains, SMT DEF ExitDisconnect, SocketDisconnected, kernel, handler
  <2>2. \A fd \in Fds : Leaving(fd)' => Leaving(fd) \/ peers'[fd] = 0
    <3>1. \A i \in DOMAIN pollfds : i < k + 1 => i < k \/ i = k
      BY <1>0, SMT
    <3>2. QED BY <2>1, <3>1, ForgetPeers DEF Leaving
  <2>3. QED
    BY <1>0, <2>1, <2>2, ForgetPeers, QuietCallers, KeepOpen
    DEF OpenInv, ExitHoldsMutex, StartsAtOne, Handling, AcceptGoesOn
<1>3. CASE ExitClose
  <2>1. /\ pc = "exit" /\ pc' = "done" /\ k > Len(pollfds)
        /\ file' = [f \in Fds |-> IF \E i \in DOMAIN pollfds : pollfds[i].fd = f
                                  THEN 0 ELSE file[f]]
        /\ UNCHANGED <<peers, late, callers>>
    BY <1>3 DEF ExitClose, Told, manager
  <2>2. \A i \in DOMAIN pollfds : peers[pollfds[i].fd] = 0 \/ pollfds[i].fd \in late
    <3>1. \A i \in DOMAIN pollfds : i < k
      BY <1>0, <2>1, SMT
    <3>2. \A i \in DOMAIN pollfds : Leaving(pollfds[i].fd)
      BY <2>1, <3>1 DEF Leaving
    <3>3. QED BY <3>2, Domains DEF OpenInv, LeavingIsForgotten
  <2>3. PeersAreOpen'
    BY <2>1, <2>2 DEF OpenInv, PeersAreOpen
  <2>4. AnnouncedOnce'
    <3>1. \A c \in Connectors : cpc[c] = "register" => cfd[c] \in Fds /\ InNoSlot(cfd[c])
      BY DEF IInv, PrivateDescriptors, Unregistered
    <3>2. \A c \in Connectors : cpc[c] = "register" => file'[cfd[c]] = file[cfd[c]]
      BY <2>1, <3>1 DEF InNoSlot
    <3>3. QED BY <2>1, <3>2, QuietThread, KeepUnknown DEF OpenInv
  <2>5. QED
    BY <2>1, <2>3, <2>4
    DEF OpenInv, LeavingIsForgotten, Leaving, Unannounced, ExitHoldsMutex, StartsAtOne,
        Handling
<1>4. QED BY <1>1, <1>2, <1>3

LEMMA OpenStep ==
    ASSUME IInv, OpenInv, [Next]_vars
    PROVE  OpenInv'
<1>1. CASE SocketThread
  <2>1. CASE DrainSend
    <3>1. Current \in DOMAIN snap /\ snap[Current].fd \in Fds
      BY <2>1, CurrentEvent, Domains DEF DrainSend
    <3>2. QED BY <2>1, <3>1, SendOpen DEF DrainSend
  <2>2. CASE PumpSend
    BY <2>2, SendOpen DEF PumpSend
  <2>3. QED
    BY <1>1, <2>1, <2>2, LoopSteps, PassSteps, AcceptOpen, NewInboundOpen, DisconnectOpen,
       CloseOpen, ExitOpen
    DEF SocketThread
<1>2. CASE \E c \in Connectors : Connector(c)
  BY <1>2, CallersOpen
<1>3. CASE Others
  BY <1>3, OthersOpen, BindOpen
<1>4. CASE UNCHANGED vars
  BY <1>4, QuietOpen DEF vars, kernel, handler, manager, OnlyForgets
<1>5. QED BY <1>1, <1>2, <1>3, <1>4 DEF Next, Stopped

-----------------------------------------------------------------------------
(* Stalled peers *)

\* A step that keeps every slot as it was or drops it, and stalls nobody.
LEMMA KeepStall ==
    ASSUME IInv, StallInv, UNCHANGED update, update # <<>> => pm' # "free",
           \A i \in DOMAIN pollfds' : \E j \in DOMAIN pollfds : pollfds'[i] = pollfds[j],
           hung \subseteq hung',
           \A fd \in Fds : link'[fd] = "stalled" => link[fd] = "stalled" /\ peers'[fd] = peers[fd],
           pc' = "register" => link'[newfd'] = "new" \/ ~Running'
    PROVE  StallInv'
<1>1. update # <<>> => update[1] \in Fds
  BY DEF IInv, TypeOK, ManagerTypeOK
<1>2. UpdateUnderLock'
  BY <1>1 DEF StallInv, UpdateUnderLock
<1>3. StalledWaits'
  BY Domains DEF StallInv, StalledWaits
<1>4. QED BY <1>2, <1>3 DEF StallInv, NewPeerIsNew

LEMMA SameStall ==
    ASSUME IInv, StallInv, UNCHANGED <<update, peers, link, pollfds, hung>>,
           update # <<>> => pm' # "free", pc' = "register" => pc = "register" /\ UNCHANGED newfd,
           Running \/ UNCHANGED fault
    PROVE  StallInv'
BY KeepStall DEF StallInv, NewPeerIsNew, Running

\* send_data stalls a peer and asks for POLLOUT in one call, or its socket is gone.
LEMMA SendStall ==
    ASSUME IInv, StallInv, NEW t, t # "free", NEW fd \in Fds, SendData(t, fd),
           pc = "register" => link[fd] = "up"
    PROVE  StallInv'
<1>1. /\ pm = t /\ update = <<>> /\ Running
      /\ UNCHANGED <<file, peers, pm, pollfds, pc, newfd>>
      /\ hung \subseteq hung'
  BY DEF SendData, Shutdown, handler, thread
<1>2. NewPeerIsNew'
  <2>1. pc = "register" => newfd # fd
    BY <1>1 DEF StallInv, NewPeerIsNew
  <2>2. \A f \in Fds : f # fd => link'[f] = link[f]
    BY Domains DEF SendData
  <2>3. QED BY <1>1, <2>1, <2>2, Domains DEF StallInv, NewPeerIsNew
<1>3. \A i \in DOMAIN pollfds : pollfds[i].fd = fd => pollfds[i].sock = file[fd] /\ file[fd] # 0
  BY Domains DEF IInv, SlotsNameTheirSocket
<1>4. CASE link' = [link EXCEPT ![fd] = "up"] /\ update' \in {<<>>, <<fd, {"POLLIN"}>>}
  <2>1. link'[fd] = "up" /\ \A f \in Fds : f # fd => link'[f] = link[f]
    BY <1>4, Domains
  <2>2. UpdateUnderLock'
    BY <1>1, <1>4, <2>1 DEF UpdateUnderLock
  <2>3. StalledWaits'
    <3>1. ASSUME NEW i \in DOMAIN pollfds, peers[pollfds[i].fd] = pollfds[i].sock,
                 link'[pollfds[i].fd] = "stalled", pollfds[i].sock \notin hung'
          PROVE  "POLLOUT" \in pollfds[i].events
      BY <1>1, <2>1, <3>1, Domains DEF StallInv, StalledWaits
    <3>2. QED BY <1>1, <3>1 DEF StalledWaits
  <2>4. QED BY <1>2, <2>2, <2>3 DEF StallInv
<1>5. CASE link' = [link EXCEPT ![fd] = "stalled"] /\ update' = PauseRead(fd)
  <2>1. \A f \in Fds : f # fd => link'[f] = link[f]
    BY <1>5, Domains
  <2>2. UpdateUnderLock'
    BY <1>1, <1>5 DEF UpdateUnderLock, PauseRead
  <2>3. StalledWaits'
    <3>1. ASSUME NEW i \in DOMAIN pollfds, peers[pollfds[i].fd] = pollfds[i].sock,
                 link'[pollfds[i].fd] = "stalled", pollfds[i].sock \notin hung',
                 pollfds[i].fd # fd
          PROVE  "POLLOUT" \in pollfds[i].events
      BY <1>1, <2>1, <3>1, Domains DEF StallInv, StalledWaits
    <3>2. QED BY <1>1, <1>5, <3>1 DEF StalledWaits, PauseRead
  <2>4. QED BY <1>2, <2>2, <2>3 DEF StallInv
<1>6. CASE Shutdown(fd) /\ link' = [link EXCEPT ![fd] = "stalled"] /\ UNCHANGED update
  <2>1. \A f \in Fds : f # fd => link'[f] = link[f]
    BY <1>6, Domains
  <2>2. StalledWaits'
    <3>1. ASSUME NEW i \in DOMAIN pollfds, peers[pollfds[i].fd] = pollfds[i].sock,
                 link'[pollfds[i].fd] = "stalled", pollfds[i].sock \notin hung'
          PROVE  "POLLOUT" \in pollfds[i].events
      <4>1. pollfds[i].fd # fd
        BY <1>3, <1>6, <3>1 DEF Shutdown
      <4>2. QED BY <1>1, <2>1, <3>1, <4>1, Domains DEF StallInv, StalledWaits
    <3>2. QED BY <1>1, <3>1 DEF StalledWaits
  <2>3. QED BY <1>1, <1>2, <1>6, <2>2 DEF StallInv, UpdateUnderLock
<1>7. QED BY <1>4, <1>5, <1>6 DEF SendData

\* The slot update reaches the only slot of its descriptor.
LEMMA UpdateStall ==
    ASSUME IInv, StallInv, NEW t, SetEvents(t)
    PROVE  StallInv'
<1>1. /\ update # <<>> /\ update' = <<>> /\ Running
      /\ UNCHANGED <<hung, peers, link, pc, newfd>>
      /\ DOMAIN pollfds' = DOMAIN pollfds
      /\ \A i \in DOMAIN pollfds :
             pollfds'[i] = IF /\ pollfds[i].fd = update[1]
                              /\ \A j \in 1..(i - 1) : pollfds[j].fd # update[1]
                           THEN [pollfds[i] EXCEPT !.events = update[2]] ELSE pollfds[i]
  BY DEF SetEvents, kernel, thread
<1>2. \A i \in DOMAIN pollfds : \A j \in 1..(i - 1) : j \in DOMAIN pollfds /\ j # i
  BY SlotTypes, SMT DEF IInv, TypeOK
<1>3. \A i \in DOMAIN pollfds : pollfds[i] \in PollFd
  BY SlotTypes DEF IInv, TypeOK
<1>4. \A i \in DOMAIN pollfds :
          IF pollfds[i].fd = update[1]
          THEN /\ pollfds'[i].fd = pollfds[i].fd /\ pollfds'[i].sock = pollfds[i].sock
               /\ pollfds'[i].events = update[2]
          ELSE pollfds'[i] = pollfds[i]
  <2>1. \A i \in DOMAIN pollfds : pollfds[i].fd = update[1] =>
            \A j \in 1..(i - 1) : pollfds[j].fd # update[1]
    BY <1>2 DEF IInv, NoDuplicateFd
  <2>2. QED BY <1>1, <1>3, <2>1 DEF PollFd
<1>5. (update[2] = {"POLLIN"} /\ link[update[1]] # "stalled") \/ update[2] = {"POLLOUT"}
  BY <1>1 DEF IInv, SingleEvents, OneEvent, StallInv, UpdateUnderLock
<1>6. \A i \in DOMAIN pollfds : pollfds[i].fd # update[1] => update # <<pollfds[i].fd, {"POLLOUT"}>>
  OBVIOUS
<1>7. StalledWaits'
  BY <1>1, <1>4, <1>5, <1>6 DEF StallInv, StalledWaits
<1>8. QED BY <1>1, <1>7 DEF StallInv, UpdateUnderLock, NewPeerIsNew

\* The slot of a new connection waits to read; its peer, if any, is not stalled.
LEMMA RegisterStall ==
    ASSUME IInv, StallInv, NEW fd \in Fds, NEW s, RegisterSocket(fd, s),
           ~(peers[fd] = s /\ link[fd] = "stalled"),
           UNCHANGED <<update, pm, peers, link, hung>>, Running,
           pc' = "register" => pc = "register" /\ UNCHANGED newfd
    PROVE  StallInv'
<1> DEFINE e == [fd |-> fd, events |-> {"POLLIN"}, sock |-> s]
<1>1. CASE UNCHANGED pollfds
  BY <1>1, SameStall DEF StallInv, UpdateUnderLock
<1>2. CASE pollfds' = AtEnd(e)
  <2>1. \A i \in DOMAIN pollfds' : (i \in DOMAIN pollfds /\ pollfds'[i] = pollfds[i]) \/ pollfds'[i] = e
    <3>1. DOMAIN pollfds' = 1..(Len(pollfds) + 1) /\ Len(pollfds) \in Nat
          /\ DOMAIN pollfds = 1..Len(pollfds)
      BY <1>2, SlotTypes, SMT DEF AtEnd, IInv, TypeOK
    <3>2. \A i \in DOMAIN pollfds' : i \in DOMAIN pollfds \/ i = Len(pollfds) + 1
      BY <3>1, SMT
    <3>3. QED BY <1>2, <3>1, <3>2, SlotTypes, SMT DEF AtEnd, IInv, TypeOK
  <2>2. e.fd = fd /\ e.sock = s
    OBVIOUS
  <2> HIDE DEF e
  <2>3. StalledWaits'
    BY <2>1, <2>2 DEF StallInv, StalledWaits
  <2>4. QED BY <2>3 DEF StallInv, UpdateUnderLock, NewPeerIsNew
<1>3. QED BY <1>1, <1>2 DEF RegisterSocket

\* PeerManager drops a peer, or hears of a new one: neither stalls anybody.
LEMMA ForgetStall ==
    ASSUME IInv, StallInv, NEW fd \in Fds, Forget(fd), pm = "free", Running,
           UNCHANGED <<update, pollfds>>, hung \subseteq hung',
           pc' = "register" => pc = "register" /\ UNCHANGED newfd
    PROVE  StallInv'
<1>1. update = <<>>
  BY DEF StallInv, UpdateUnderLock
<1>2. pc' = "register" => link'[newfd'] = "new"
  BY ForgetPeers, Domains DEF StallInv, NewPeerIsNew
<1>3. \A f \in Fds : link'[f] = "stalled" => link[f] = "stalled" /\ peers'[f] = peers[f]
  BY ForgetPeers
<1>4. QED BY <1>1, <1>2, <1>3, KeepStall

LEMMA AnnounceStall ==
    ASSUME IInv, StallInv, NEW fd \in Fds, NEW s, NEW result, NewConnection(fd, s, result), Running,
           UNCHANGED <<update, pollfds>>, hung \subseteq hung',
           pc' = "register" => \/ pc = "register" /\ UNCHANGED newfd
                               \/ link'[newfd'] = "new" \/ ~Running'
    PROVE  StallInv'
<1>1. update = <<>>
  BY DEF StallInv, UpdateUnderLock, NewConnection
<1>2. UNCHANGED <<peers, link>> \/ link' = [link EXCEPT ![fd] = "new"]
  BY DEF NewConnection
<1>3. peers' = peers \/ peers' = [peers EXCEPT ![fd] = s]
  BY DEF NewConnection
<1>4. \A f \in Fds : /\ link'[f] = "stalled" => link[f] = "stalled" /\ peers'[f] = peers[f]
                     /\ link[f] = "new" => link'[f] = "new"
  BY <1>2, <1>3, Domains
<1>5. pc' = "register" => link'[newfd'] = "new" \/ ~Running'
  BY <1>4, Domains DEF StallInv, NewPeerIsNew
<1>6. QED BY <1>1, <1>4, <1>5, KeepStall

LEMMA OthersStall ==
    ASSUME IInv, OpenInv, StallInv, Others
    PROVE  StallInv'
<1> USE DEF kernel, handler, manager, thread, callers
<1>1. CASE BackgroundEnter \/ BackgroundReturn \/ Interrupt \/ InterruptJoined \/ UseFreedHandler
  BY <1>1, SameStall
  DEF BackgroundEnter, BackgroundReturn, Interrupt, InterruptJoined, UseFreedHandler, StallInv,
      UpdateUnderLock
<1>2. CASE BackgroundSend
  BY <1>2, SendStall, UpdateStall DEF BackgroundSend, CanWrite
<1>3. CASE \E fd \in Fds : DisconnectPeer(fd)
  BY <1>3, ForgetStall DEF DisconnectPeer, SockDisconnect, Shutdown
<1>4. CASE \E s \in Sockets : RemoteHangup(s)
  <2>1. hung \subseteq hung' /\ UNCHANGED <<update, pm, peers, link, pollfds, pc, newfd, fault>>
    BY <1>4 DEF RemoteHangup
  <2>2. QED BY <2>1, KeepStall DEF StallInv, UpdateUnderLock, NewPeerIsNew, Running
<1>5. CASE Bind
  <2>1. PICK fd \in Fds : NewSocket(fd) /\
            (RegisterSocket(fd, born + 1) \/ UNCHANGED pollfds)
    BY <1>5 DEF Bind
  <2>2. /\ peers[fd] # born + 1 /\ Running
        /\ UNCHANGED <<update, pm, peers, link, hung, pc, newfd>>
    BY <1>5, <2>1, NewSocketOpen DEF Bind
  <2>3. CASE RegisterSocket(fd, born + 1)
    BY <2>2, <2>3, RegisterStall
  <2>4. CASE UNCHANGED pollfds
    BY <2>2, <2>4, SameStall DEF StallInv, UpdateUnderLock
  <2>5. QED BY <2>1, <2>3, <2>4
<1>6. QED BY <1>1, <1>2, <1>3, <1>4, <1>5 DEF Others

LEMMA CallersStall ==
    ASSUME IInv, OpenInv, StallInv, NEW c \in Connectors, Connector(c)
    PROVE  StallInv'
<1> USE DEF kernel, handler, manager, thread
<1>0. cpc[c] # "idle" => cfd[c] \in Fds
  BY Domains
<1>1. CASE Connect(c)
  BY <1>1, SameStall DEF Connect, StallInv, UpdateUnderLock
<1>2. CASE ConnectRegister(c)
  <2>1. CASE RegisterSocket(cfd[c], file[cfd[c]])
    <3>1. peers[cfd[c]] # file[cfd[c]] /\ cfd[c] \in Fds
      BY <1>0, <1>2 DEF ConnectRegister, OpenInv, AnnouncedOnce, UnknownCallers, Pending
    <3>2. QED BY <1>2, <2>1, <3>1, RegisterStall DEF ConnectRegister
  <2>2. CASE UNCHANGED pollfds
    BY <1>2, <2>2, SameStall DEF ConnectRegister, StallInv, UpdateUnderLock
  <2>3. QED BY <1>2, <2>1, <2>2 DEF ConnectRegister
<1>3. CASE NewOutbound(c)
  <2>1. PICK result \in Results : NewConnection(cfd[c], csock[c], result)
    BY <1>3 DEF NewOutbound
  <2>2. /\ cfd[c] \in Fds /\ UNCHANGED <<update, pollfds, pc, newfd>> /\ Running
        /\ hung \subseteq hung'
    BY <1>0, <1>3 DEF NewOutbound, Shutdown
  <2>3. QED BY <2>1, <2>2, AnnounceStall
<1>4. CASE SendHello(c)
  <2>1. hung \subseteq hung' /\ UNCHANGED <<update, pm, peers, link, pollfds, pc, newfd, fault>>
    BY <1>4 DEF SendHello, Shutdown
  <2>2. QED BY <2>1, KeepStall DEF StallInv, UpdateUnderLock, NewPeerIsNew, Running
<1>5. QED BY <1>1, <1>2, <1>3, <1>4 DEF Connector

\* The steps of the thread that move neither peers nor slots.
LEMMA StepsStall ==
    ASSUME IInv, StallInv,
           \/ Snapshot \/ Poll \/ Read \/ Accept \/ WriteSpace \/ DrainReturn \/ HandledAll
           \/ LockToClose \/ UnlockClosed \/ ProcessEvents \/ ProcessReturn \/ ExitLock
    PROVE  StallInv'
<1>1. UNCHANGED <<update, peers, link, pollfds, hung>> /\ pc' # "register"
  BY DEF Snapshot, Poll, Read, Accept, WriteSpace, DrainReturn, HandledAll, LockToClose,
     UnlockClosed, ProcessEvents, ProcessReturn, ExitLock, AtEvent, kernel, handler, manager
<1>2. update # <<>> => pm' # "free"
  BY DEF Snapshot, Poll, Read, Accept, WriteSpace, DrainReturn, HandledAll, LockToClose,
     UnlockClosed, ProcessEvents, ProcessReturn, ExitLock, manager, StallInv, UpdateUnderLock
<1>3. Running
  BY DEF Snapshot, Poll, Read, Accept, WriteSpace, DrainReturn, HandledAll, LockToClose,
     UnlockClosed, ProcessEvents, ProcessReturn, ExitLock, AtEvent
<1>4. QED BY <1>1, <1>2, <1>3, SameStall

\* Ok(true) of read_event writes no slot: the one before the current entry belongs
\* to another descriptor, and the assertion above the write says so.
LEMMA ReadEventStall ==
    ASSUME IInv, StallInv, ReadEvent
    PROVE  StallInv'
<1>1. /\ pc = "event" /\ pc' = "handle" /\ pm = "free"
      /\ UNCHANGED <<hung, peers, pm, update>>
  BY DEF ReadEvent, kernel
<1>2. update = <<>>
  BY <1>1 DEF StallInv, UpdateUnderLock
<1>3. UNCHANGED pollfds
  <2>1. Current \in DOMAIN snap /\ Current \in Int
    BY <1>1, CurrentEvent, SnapTypes, SMT DEF IInv, TypeOK
  <2>2. Moved = 0 /\ ~Behind(Current) /\ Current - 0 = Current /\ Current # Current - 1
    BY <1>1, <2>1, SMT DEF Moved, Behind
  <2>3. Current \in DOMAIN pollfds /\ pollfds[Current].fd = snap[Current].fd
    BY <1>1, <2>1, <2>2 DEF IInv, IndicesStillName, UsesIndices
  <2>4. PauseSlot \in DOMAIN pollfds => pollfds[PauseSlot].fd # snap[Current].fd
    BY <2>2, <2>3 DEF IInv, NoDuplicateFd, PauseSlot
  <2>5. QED BY <2>4 DEF ReadEvent
<1>4. link' \in {link, [link EXCEPT ![snap[Current].fd] = IF @ = "new" THEN "up" ELSE @]}
  BY DEF ReadEvent
<1>5. \A fd \in Fds : link'[fd] = "stalled" => link[fd] = "stalled"
  BY <1>4, Domains
<1>6. QED BY <1>1, <1>2, <1>3, <1>5, KeepStall

LEMMA InboundStall ==
    ASSUME IInv, OpenInv, StallInv, NewInbound \/ RegisterInbound
    PROVE  StallInv'
<1>1. CASE NewInbound
  <2>1. PICK result \in Results :
            /\ NewConnection(newfd, file[newfd], result)
            /\ pc' = (IF result = "err" THEN "handle" ELSE "register")
            /\ (result # "err" => UNCHANGED newfd)
    BY <1>1 DEF NewInbound
  <2>2. newfd \in Fds /\ UNCHANGED <<update, pollfds, hung>> /\ Running
    BY <1>1, Domains DEF NewInbound
  <2>3. pc' = "register" => link'[newfd'] = "new" \/ ~Running'
    BY <2>1, <2>2, Domains DEF NewConnection, Running, Results
  <2>4. QED BY <2>1, <2>2, <2>3, AnnounceStall
<1>2. CASE RegisterInbound
  <2>1. /\ newfd \in Fds /\ link[newfd] = "new" /\ pc' = "handle" /\ Running
        /\ UNCHANGED <<update, pm, peers, link>> /\ hung \subseteq hung'
    BY <1>2, Domains
    DEF RegisterInbound, StallInv, NewPeerIsNew, manager, Shutdown
  <2>2. CASE RegisterSocket(newfd, file[newfd]) /\ UNCHANGED hung
    BY <2>1, <2>2, RegisterStall
  <2>3. CASE UNCHANGED pollfds
    BY <2>1, <2>3, KeepStall DEF StallInv, UpdateUnderLock
  <2>4. QED BY <1>2, <2>2, <2>3 DEF RegisterInbound
<1>3. QED BY <1>1, <1>2

LEMMA ForgettingStall ==
    ASSUME IInv, StallInv, Disconnect \/ ExitDisconnect
    PROVE  StallInv'
<1>1. CASE Disconnect
  <2>1. /\ pc = "disconnect" /\ Running /\ UNCHANGED <<pc, update, pollfds, hung>> /\ pm = "free"
        /\ Forget(pollfds[close_socks[k]].fd)
    BY <1>1 DEF Disconnect, SocketDisconnected, kernel, handler
  <2>2. pollfds[close_socks[k]].fd \in Fds
    <3>1. k \in DOMAIN close_socks
      BY <1>1, LenProperties, SMT DEF Disconnect, IInv, TypeOK, ThreadTypeOK
    <3>2. close_socks[k] \in DOMAIN snap /\ Moved = 0 /\ ~Behind(close_socks[k])
      BY <2>1, <3>1 DEF IInv, MarksBehindLoop, UsesIndices, Moved, Behind
    <3>3. close_socks[k] - 0 = close_socks[k]
      BY <3>2, SnapTypes, SMT DEF IInv, TypeOK
    <3>4. QED BY <2>1, <3>2, <3>3, Domains DEF IInv, IndicesStillName, UsesIndices
  <2>3. QED BY <2>1, <2>2, ForgetStall
<1>2. CASE ExitDisconnect
  <2>1. k \in DOMAIN pollfds
    BY <1>2, SlotTypes, SMT DEF ExitDisconnect, IInv, TypeOK, ThreadTypeOK
  <2>2. QED
    BY <1>2, <2>1, Domains, ForgetStall
    DEF ExitDisconnect, SocketDisconnected, kernel, handler
<1>3. QED BY <1>1, <1>2

LEMMA ClosingStall ==
    ASSUME IInv, StallInv, CloseNext \/ ExitClose
    PROVE  StallInv'
<1>1. /\ UNCHANGED <<update, pm, peers, link, hung>> /\ pc' # "register"
      /\ \E i : pollfds' \in {<<>>, pollfds, RemoveAt(pollfds, i)}
  BY DEF CloseNext, ExitClose, manager
<1>2. \A i \in DOMAIN pollfds' : \E j \in DOMAIN pollfds : pollfds'[i] = pollfds[j]
  <2>1. CASE CloseNext
    <3>1. IInv' /\ pc = "close" /\ k <= Len(close_socks)
      BY <2>1, CloseNextStep DEF CloseNext
    <3>2. /\ pollfds' \in {pollfds, RemoveAt(pollfds, close_socks[k] - (k - 1))}
      BY <2>1 DEF CloseNext
    <3>3. pollfds' = RemoveAt(pollfds, close_socks[k] - (k - 1)) =>
              close_socks[k] - (k - 1) \in DOMAIN pollfds
      <4>1. /\ k \in Nat \ {0} /\ Len(close_socks) \in Nat
            /\ DOMAIN close_socks = 1..Len(close_socks)
            /\ \A m \in DOMAIN close_socks : close_socks[m] \in DOMAIN snap
            /\ DOMAIN snap = 1..Len(snap) /\ Len(snap) \in Nat
            /\ \A m, n \in DOMAIN close_socks : m < n => close_socks[m] < close_socks[n]
        BY <3>1, LenProperties, SnapTypes
        DEF IInv, TypeOK, ThreadTypeOK, MarksBehindLoop, UsesIndices, MarkedOnce
      <4>2. k \in DOMAIN close_socks /\ close_socks[k] \in DOMAIN snap
        BY <3>1, <4>1, SMT
      <4>3. k > 1 => k - 1 \in DOMAIN close_socks /\ close_socks[k - 1] < close_socks[k]
        BY <4>1, <4>2, SMTT(30)
      <4>4. ~Behind(close_socks[k]) /\ Moved = k - 1
        BY <3>1, <4>1, <4>2, <4>3, SMT DEF Behind, Moved
      <4>5. QED BY <3>1, <4>2, <4>4 DEF IInv, IndicesStillName, UsesIndices
    <3>4. ASSUME NEW s \in DOMAIN pollfds, pollfds' = RemoveAt(pollfds, s)
          PROVE  \A i \in DOMAIN pollfds' : \E j \in DOMAIN pollfds : pollfds'[i] = pollfds[j]
      <4>1. /\ pollfds \in Seq(PollFd) /\ Len(pollfds) \in Nat
            /\ DOMAIN pollfds = 1..Len(pollfds) /\ s \in 1..Len(pollfds)
        BY SlotTypes DEF IInv, TypeOK
      <4>2. /\ pollfds' \in Seq(PollFd) /\ Len(pollfds') = Len(pollfds) - 1
            /\ \A j \in 1..(Len(pollfds) - 1) :
                   pollfds'[j] = IF j < s THEN pollfds[j] ELSE pollfds[j + 1]
        BY <3>4, <4>1, RemoveAtProperties
      <4>3. DOMAIN pollfds' = 1..(Len(pollfds) - 1)
        BY <4>2, LenProperties
      <4>4. \A j \in DOMAIN pollfds' : j \in DOMAIN pollfds /\ j + 1 \in DOMAIN pollfds
        BY <4>1, <4>3, SMT
      <4>5. QED BY <4>2, <4>3, <4>4
    <3>5. QED BY <3>2, <3>3, <3>4
  <2>2. CASE ExitClose
    BY <2>2 DEF ExitClose
  <2>3. QED BY <2>1, <2>2
<1>3. QED BY <1>1, <1>2, KeepStall DEF StallInv, UpdateUnderLock

LEMMA StallStep ==
    ASSUME IInv, OpenInv, StallInv, [Next]_vars
    PROVE  StallInv'
<1>1. CASE SocketThread
  <2>1. CASE DrainSend
    <3>1. Current \in DOMAIN snap /\ snap[Current].fd \in Fds
      BY <2>1, CurrentEvent, Domains DEF DrainSend
    <3>2. QED BY <2>1, <3>1, SendStall, UpdateStall DEF DrainSend
  <2>2. CASE PumpSend
    BY <2>2, SendStall, UpdateStall DEF PumpSend
  <2>3. QED
    BY <1>1, <2>1, <2>2, StepsStall, ReadEventStall, InboundStall, ForgettingStall, ClosingStall
    DEF SocketThread
<1>2. CASE \E c \in Connectors : Connector(c)
  BY <1>2, CallersStall
<1>3. CASE Others
  BY <1>3, OthersStall
<1>4. CASE UNCHANGED vars
  BY <1>4, SameStall DEF vars, kernel, handler, manager, thread, StallInv, UpdateUnderLock
<1>5. QED BY <1>1, <1>2, <1>3, <1>4 DEF Next, Stopped

\* PeerManager panics over a late announcement, or one that meets a late peer: in
\* time, and over a peer that is right, the socket would be announced twice.
LEMMA PanicStep ==
    ASSUME IInv, OpenInv, PanicsOnlyIfLate, [Next]_vars
    PROVE  PanicsOnlyIfLate'
<1>1. CASE \E c \in Connectors : NewOutbound(c)
  <2>1. PICK c \in Connectors : NewOutbound(c)
    BY <1>1
  <2>2. PICK result \in Results :
            /\ NewConnection(cfd[c], csock[c], result)
            /\ result # "err" => late' = late \cup (IF InTime(c) THEN {} ELSE {cfd[c]})
    BY <2>1 DEF NewOutbound
  <2>3. /\ Pending(c) /\ cfd[c] \in Fds /\ Running
        /\ peers[cfd[c]] # csock[c]
    BY <2>1, Domains DEF NewOutbound, Pending, OpenInv, AnnouncedOnce, UnknownCallers
  <2>4. ASSUME result = "panic" PROVE late' # {}
    <3>1. peers[cfd[c]] # 0
      BY <2>2, <2>4 DEF NewConnection
    <3>2. InTime(c) => cfd[c] \in late
      BY <2>3, <3>1 DEF InTime, OpenInv, PeersAreOpen
    <3>3. QED BY <2>2, <2>4, <3>2
  <2>5. result # "panic" => UNCHANGED fault
    BY <2>2 DEF NewConnection
  <2>6. QED BY <2>3, <2>4, <2>5 DEF PanicsOnlyIfLate, Running
<1>2. CASE NewInbound
  BY <1>2, NewInboundOpen
<1>3. CASE UNCHANGED <<fault, late>>
  BY <1>3 DEF PanicsOnlyIfLate
<1>4. ASSUME [Next]_vars, ~NewInbound, ~(\E c \in Connectors : NewOutbound(c))
      PROVE  UNCHANGED <<fault, late>> \/ fault' # "duplicate"
  <2>1. CASE SocketThread
    BY <1>4, <2>1
    DEF SocketThread, Snapshot, Poll, Read, Accept, RegisterInbound, RegisterSocket, ReadEvent,
        WriteSpace, DrainSend, SendData, SetEvents, DrainReturn, HandledAll, Disconnect,
        LockToClose, CloseNext, UnlockClosed, ProcessEvents, PumpSend, ProcessReturn, ExitLock,
        ExitDisconnect, ExitClose, handler, manager, Running
  <2>2. CASE Others
    BY <2>2
    DEF Others, BackgroundEnter, BackgroundSend, BackgroundReturn, SendData, SetEvents,
        DisconnectPeer, RemoteHangup, Bind, RegisterSocket, Interrupt, InterruptJoined,
        UseFreedHandler, handler, manager, Running
  <2>3. CASE \E c \in Connectors : Connector(c)
    BY <1>4, <2>3
    DEF Connector, Connect, ConnectRegister, RegisterSocket, SendHello, handler, manager, Running
  <2>4. CASE UNCHANGED vars
    BY <2>4 DEF vars, handler, manager
  <2>5. QED BY <1>4, <2>1, <2>2, <2>3, <2>4 DEF Next, Stopped
<1>5. QED BY <1>1, <1>2, <1>3, <1>4 DEF PanicsOnlyIfLate

-----------------------------------------------------------------------------
(* The theorems *)

PeerInv == IInv /\ OpenInv /\ StallInv /\ PanicsOnlyIfLate

LEMMA InitPeerInv == Init => PeerInv
<1>1. Init => OpenInv
  BY DEF Init, OpenInv, PeersAreOpen, LeavingIsForgotten, Leaving, Unannounced, AnnouncedOnce,
     UnknownCallers, UnknownAccepted, Pending, ExitHoldsMutex, StartsAtOne, Handling
<1>2. Init => StallInv /\ PanicsOnlyIfLate
  BY DEF Init, StallInv, UpdateUnderLock, NewPeerIsNew, StalledWaits, PanicsOnlyIfLate
<1>3. QED BY <1>1, <1>2, InitIInv DEF PeerInv

\* PeerManager's table and the pauses of the slots, in every behaviour of the
\* transport: the numbers announced late are set apart, all the rest is right.
THEOREM PeerInvHolds == Spec => []PeerInv
<1>1. PeerInv /\ [Next]_vars => PeerInv'
  BY InductiveStep, OpenStep, StallStep, PanicStep DEF PeerInv
<1>2. QED BY InitPeerInv, <1>1, PTL DEF Spec

\* Each descriptor PeerManager knows is the open connection it was given for, with
\* connects, accepts, closes and the exit in any order over reused numbers; the
\* exceptions are those socket_connect announced after they were given up.
THEOREM PeersOpen == Spec => []PeersAreOpen
<1>1. PeerInv => PeersAreOpen
  BY DEF PeerInv, OpenInv
<1>2. QED BY <1>1, PeerInvHolds, PTL

\* A peer whose write stopped short polls for POLLOUT once sock_send_data is done,
\* whichever thread wrote, however late the peer was announced and whatever
\* connects, accepts and closes meanwhile.
THEOREM StalledPeersPoll == Spec => []StalledPeerWaitsToWrite
<1>1. PeerInv => StalledPeerWaitsToWrite
  BY DEF PeerInv, StallInv, StalledWaits, StalledPeerWaitsToWrite
<1>2. QED BY <1>1, PeerInvHolds, PTL

\* The panic of new_outbound_connection and new_inbound_connection (lightning.h:22888,
\* 22908) has one cause, a late announcement; accept() alone never leads there.
THEOREM PanicsAreLate == Spec => []PanicsOnlyIfLate
<1>1. PeerInv => PanicsOnlyIfLate
  BY DEF PeerInv
<1>2. QED BY <1>1, PeerInvHolds, PTL
=============================================================================
