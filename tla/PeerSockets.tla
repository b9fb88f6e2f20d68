------------------------------ MODULE PeerSockets ------------------------------
(***************************************************************************)
(* The TCP transport of the lightning node: ldk_net.c, the C socket        *)
(* handler behind TCPPeerHandler.swift.                                    *)
(*                                                                         *)
(* One socket thread polls every registered descriptor and feeds LDK's     *)
(* PeerManager; any thread may connect or listen (register_socket appends  *)
(* to the shared pollfds array), and PeerManager calls send_data and       *)
(* disconnect_socket back from whichever thread entered it.                *)
(*                                                                         *)
(* Two things are outside src/ and are modelled from how it uses them: the *)
(* kernel's descriptor table (numbers are reused as soon as they are       *)
(* closed) and PeerManager (the contract written in lightning.h, with the  *)
(* internal lock that contract mentions).  A field "sock" remembers which  *)
(* socket a descriptor number stood for when it was recorded; the code     *)
(* only has the number, and no guard of the code reads the field.          *)
(***************************************************************************)
EXTENDS Integers, Sequences, FiniteSets, SequencesExt

CONSTANTS
    Fds,                \* descriptor numbers the kernel can give to sockets
    NoFd,               \* the socket thread holds no accepted descriptor
    Connectors,         \* threads that may call socket_connect (UI, sync task)
    MaxConns,           \* MAX_CONNS, the length of pollfds
    MaxSockets,         \* bound: sockets created in one behaviour
    Listens,            \* TRUE when socket_bind may be called
    Interrupts,         \* TRUE when interrupt_socket_handling may be called
    Background          \* TRUE when LDK's background thread calls PeerManager

ASSUME FdsAssumption   == NoFd \notin Fds
ASSUME BoundAssumption == MaxConns \in Nat /\ MaxSockets \in Nat
ASSUME FlagAssumption  == {Listens, Interrupts, Background} \subseteq BOOLEAN

VARIABLES
    file,       \* kernel: the socket each descriptor number names, 0 when closed
    born,       \* kernel: sockets created so far
    hung,       \* kernel: sockets shut down here or closed by the other end
    listeners,  \* kernel: listening sockets
    pollfds,    \* handler->pollfds, its length is handler->sockcount
    mutex,      \* holder of handler->sockets_mutex
    exit,       \* handler->should_exit and the caller of interrupt
    fault,      \* the failed assertion, panic or misuse that stopped the process
    peers,      \* PeerManager: the socket each known descriptor was given for
    late,       \* history: known descriptors announced when they were given up
    link,       \* PeerManager: progress of the connection of each descriptor
    refused,    \* sockets whose new_*_connection returned Err
    pm,         \* holder of PeerManager's internal lock across send_data calls
    update,     \* the slot update a send_data call still has to make, if any
    pc,         \* socket thread: where sock_thread_fn is
    snap,       \* socket thread: its local copy of pollfds, with revents
    close_socks,\* socket thread: indices to close
    k,          \* socket thread: position in close_socks (or pollfds at exit)
    newfd,      \* socket thread: descriptor accept() returned
    cpc, cfd,   \* connectors: where socket_connect is, and its descriptor
    csock       \* connectors: the socket that descriptor was made for

kernel  == <<file, born, hung, listeners>>
handler == <<pollfds, mutex, exit, fault>>
manager == <<peers, late, link, refused, pm, update>>
thread  == <<pc, snap, close_socks, k, newfd>>
callers == <<cpc, cfd, csock>>
vars    == <<kernel, handler, manager, thread, callers>>

-----------------------------------------------------------------------------
(* Values and small operators *)

Sockets  == 1..MaxSockets
Events   == {"POLLIN", "POLLOUT"}
PollFd   == [fd : Fds, events : SUBSET Events, sock : Sockets]
SnapFd   == [fd : Fds, events : SUBSET Events, revents : SUBSET Events, sock : Sockets]
Faults   == {"none", "fd_order", "close_idx", "max_conns", "duplicate", "freed", "poll",
             "ub"}
Holders  == {"free", "socket_thread", "background"}
ThreadPC == {"loop", "poll", "handle", "event", "inbound", "register", "drain",
             "disconnect", "close", "process", "pump", "exit", "done"}

Running == fault = "none"

Registered(s) == \E i \in DOMAIN pollfds : pollfds[i].sock = s

\* Definitions named Bug_... are faulty variants of the definition that follows
\* them, kept to check that the properties notice them; nothing else uses them.

\* shutdown(fd, SHUT_RDWR) acts on whatever socket the number names now.
Shutdown(fd) == hung' = hung \cup ({file[fd]} \ {0})

\* socket() and accept() give a closed number to a socket not seen before.
NewSocket(fd) ==
    /\ born < MaxSockets
    /\ file[fd] = 0
    /\ born' = born + 1
    /\ file' = [file EXCEPT ![fd] = born + 1]

\* Where register_socket puts a new slot.
Bug_AtFront(e) == <<e>> \o pollfds
AtEnd(e)       == Append(pollfds, e)

\* register_socket, under the mutex: the slot is written before the assertion
\* compares sockcount with MAX_CONNS, so a full array is overrun first.
RegisterSocket(fd, s) ==
    /\ mutex = "free"
    /\ IF Len(pollfds) < MaxConns
       THEN /\ pollfds' = AtEnd([fd |-> fd, events |-> {"POLLIN"}, sock |-> s])
            /\ UNCHANGED fault
       ELSE fault' \in {"max_conns", "ub"} /\ UNCHANGED pollfds

-----------------------------------------------------------------------------
Init ==
    /\ file = [f \in Fds |-> 0] /\ born = 0 /\ hung = {} /\ listeners = {}
    /\ pollfds = <<>> /\ mutex = "free" /\ exit = "no" /\ fault = "none"
    /\ peers = [f \in Fds |-> 0] /\ late = {} /\ link = [f \in Fds |-> "new"]
    /\ refused = {} /\ pm = "free" /\ update = <<>>
    /\ pc = "loop" /\ snap = <<>> /\ close_socks = <<>> /\ k = 1 /\ newfd = NoFd
    /\ cpc = [c \in Connectors |-> "idle"] /\ cfd = [c \in Connectors |-> NoFd]
    /\ csock = [c \in Connectors |-> 0]

-----------------------------------------------------------------------------
(* Callbacks PeerManager makes while it holds its internal lock *)

\* pause_read: the slot waits for POLLOUT and nothing else.
Bug_KeepReading(fd)  == <<>>
Bug_AddPollout(fd)   == <<fd, Events>>
PauseRead(fd)        == <<fd, {"POLLOUT"}>>

\* sock_send_data up to the lock: the write goes to whatever the number names.
\* A short or EAGAIN write makes the slot wait for POLLOUT, a complete one with
\* resume_read makes it read again, any other error shuts the socket down.
SendData(t, fd) ==
    /\ Running /\ pm = t /\ update = <<>>
    /\ \/ /\ file[fd] \in (1..born) \ hung
          /\ \/ /\ link' = [link EXCEPT ![fd] = "up"]              \* complete
                /\ update' \in {<<>>, <<fd, {"POLLIN"}>>}
             \/ /\ link' = [link EXCEPT ![fd] = "stalled"]         \* short, EAGAIN
                /\ update' = PauseRead(fd)
          /\ UNCHANGED hung
       \/ /\ Shutdown(fd)                                          \* another error
          /\ link' = [link EXCEPT ![fd] = "stalled"]
          /\ UNCHANGED update
    /\ UNCHANGED <<file, born, listeners, handler, peers, late, refused, pm, thread, callers>>

\* sock_send_data under sockets_mutex: the events of the first slot with that fd.
SetEvents(t) ==
    /\ Running /\ pm = t /\ update # <<>> /\ mutex = "free"
    /\ pollfds' = [i \in DOMAIN pollfds |->
          IF pollfds[i].fd = update[1] /\ \A j \in 1..(i - 1) : pollfds[j].fd # update[1]
          THEN [pollfds[i] EXCEPT !.events = update[2]] ELSE pollfds[i]]
    /\ update' = <<>>
    /\ UNCHANGED <<kernel, mutex, exit, fault, peers, late, link, refused, pm, thread, callers>>

\* PeerManager writes on its own only to a peer whose last write completed.
CanWrite(fd) == peers[fd] # 0 /\ link[fd] = "up"

\* The background processor's timer and process_events calls.
BackgroundEnter ==
    /\ Running /\ Background /\ pm = "free" /\ exit # "freed"
    /\ \E fd \in Fds : CanWrite(fd)
    /\ pm' = "background"
    /\ UNCHANGED <<kernel, handler, peers, late, link, refused, update, thread, callers>>

BackgroundSend ==
    \/ \E fd \in Fds : CanWrite(fd) /\ SendData("background", fd)
    \/ SetEvents("background")

BackgroundReturn ==
    /\ Running /\ pm = "background" /\ update = <<>>
    /\ pm' = "free"
    /\ UNCHANGED <<kernel, handler, peers, late, link, refused, update, thread, callers>>

\* PeerManager drops all it knew of a descriptor.
Forget(fd) ==
    /\ peers' = [peers EXCEPT ![fd] = 0]
    /\ link'  = [link EXCEPT ![fd] = "new"]
    /\ late'  = late \ {fd}

\* sock_disconnect only shuts down: closing is the socket thread's.
Bug_DisconnectUnopened(fd) == hung' = hung \cup {file[fd]} /\ UNCHANGED file
Bug_CloseNow(fd)   == file' = [file EXCEPT ![fd] = 0] /\ UNCHANGED hung
SockDisconnect(fd) == Shutdown(fd) /\ UNCHANGED file

\* disconnect_by_node_id (LightningService.disconnect) and the ping timer:
\* PeerManager forgets the peer and calls sock_disconnect.
DisconnectPeer(fd) ==
    /\ Running /\ pm = "free" /\ exit # "freed"
    /\ peers[fd] # 0
    /\ SockDisconnect(fd) /\ Forget(fd)
    /\ UNCHANGED <<born, listeners, handler, refused, pm, update, thread, callers>>

\* The other end closes or resets the connection.
RemoteHangup(s) ==
    /\ Running /\ s \in (1..born) \ (hung \cup listeners)
    /\ hung' = hung \cup {s}
    /\ UNCHANGED <<file, born, listeners, handler, manager, thread, callers>>

-----------------------------------------------------------------------------
(* PeerManager entry points, as their contract in lightning.h states them *)

\* new_outbound_connection and new_inbound_connection panic on a descriptor
\* equal to one that was not yet socket_disconnected().
NewConnection(fd, sock, result) ==
    /\ pm = "free" /\ (result = "panic" <=> peers[fd] # 0)
    /\ peers'   = IF result = "ok" THEN [peers EXCEPT ![fd] = sock] ELSE peers
    /\ link'    = IF result = "ok" THEN [link EXCEPT ![fd] = "new"] ELSE link
    /\ refused' = IF result = "err" THEN refused \cup {sock} ELSE refused
    /\ fault'   = IF result = "panic" THEN "duplicate" ELSE fault
Results == {"ok", "err", "panic"}

\* socket_disconnected forgets the descriptor, whichever socket it stood for.
SocketDisconnected(fd) == pm = "free" /\ Forget(fd) /\ UNCHANGED <<refused, pm, update>>

-----------------------------------------------------------------------------
(* socket_connect, socket_bind and interrupt_socket_handling *)

\* Each early return of socket_connect leaves the new descriptor open.
Connect(c) ==
    /\ Running /\ exit # "freed" /\ cpc[c] = "idle"
    /\ \E fd \in Fds :
        /\ NewSocket(fd)
        /\ \/ /\ cpc' = [cpc EXCEPT ![c] = "register"] /\ cfd' = [cfd EXCEPT ![c] = fd]
              /\ csock' = [csock EXCEPT ![c] = born']
           \/ UNCHANGED callers
    /\ UNCHANGED <<hung, listeners, handler, manager, thread>>

Bug_RegisterAgain(c) == cpc' \in {cpc, [cpc EXCEPT ![c] = "hello"]} /\ UNCHANGED <<cfd, csock>>
Registering(c)       == cpc' = [cpc EXCEPT ![c] = "hello"] /\ UNCHANGED <<cfd, csock>>
Return(c) ==
    /\ cpc' = [cpc EXCEPT ![c] = "idle"] /\ cfd' = [cfd EXCEPT ![c] = NoFd]
    /\ csock' = [csock EXCEPT ![c] = 0]

ConnectRegister(c) ==
    /\ Running /\ exit # "freed" /\ cpc[c] = "register"
    /\ \/ RegisterSocket(cfd[c], file[cfd[c]]) /\ Registering(c)
       \/ Return(c) /\ UNCHANGED <<pollfds, fault>>
    /\ UNCHANGED <<kernel, mutex, exit, manager, thread>>

\* The socket thread has told PeerManager that it will close this descriptor, and
\* has not closed it yet.
Leaving(fd) ==
    \/ /\ pc = "disconnect"
       /\ \E m \in DOMAIN close_socks : m < k /\ snap[close_socks[m]].fd = fd
    \/ /\ pc = "close"
       /\ \E m \in DOMAIN close_socks : k <= m /\ snap[close_socks[m]].fd = fd
    \/ /\ pc = "exit"
       /\ \E i \in DOMAIN pollfds : i < k /\ pollfds[i].fd = fd

\* The connector's number still is its socket's, and goes on being so until
\* PeerManager hears that it does not.
InTime(c) == file[cfd[c]] = csock[c] /\ ~Leaving(cfd[c])

\* The peer is announced to PeerManager only after the descriptor was registered,
\* which may be too late.
NewOutbound(c) ==
    /\ Running /\ exit # "freed" /\ cpc[c] = "hello"
    /\ \E result \in Results :
        /\ NewConnection(cfd[c], csock[c], result)
        /\ IF result = "err"
           THEN Shutdown(cfd[c]) /\ Return(c) /\ UNCHANGED late
           ELSE /\ cpc' = [cpc EXCEPT ![c] = "send"] /\ UNCHANGED <<hung, cfd, csock>>
                /\ late' = late \cup (IF InTime(c) THEN {} ELSE {cfd[c]})
    /\ UNCHANGED <<file, born, listeners, pollfds, mutex, exit, pm, update, thread>>

\* The first bytes of the handshake; a short write shuts the socket down.
SendHello(c) ==
    /\ Running /\ cpc[c] = "send"
    /\ \/ file[cfd[c]] \in (1..born) \ hung /\ UNCHANGED hung
       \/ Shutdown(cfd[c])
    /\ Return(c)
    /\ UNCHANGED <<file, born, listeners, handler, manager, thread>>

\* socket_bind, until it succeeded once (TCPPeerHandler.isBound); an early return
\* leaves the descriptor open.
Bind ==
    /\ Running /\ Listens /\ exit # "freed" /\ listeners = {}
    /\ \E fd \in Fds :
        /\ NewSocket(fd)
        /\ \/ RegisterSocket(fd, born + 1) /\ listeners' = {born + 1}
           \/ UNCHANGED <<pollfds, fault, listeners>>
    /\ UNCHANGED <<hung, mutex, exit, manager, thread, callers>>

\* interrupt_socket_handling: raise should_exit, join the thread, free(handler).
Interrupt ==
    /\ Running /\ Interrupts /\ exit = "no"
    /\ exit' = "joining" /\ UNCHANGED <<kernel, pollfds, mutex, fault, manager, thread, callers>>

InterruptJoined ==
    /\ Running /\ exit = "joining" /\ pc = "done"
    /\ exit' = "freed" /\ UNCHANGED <<kernel, pollfds, mutex, fault, manager, thread, callers>>

\* TCPPeerHandler keeps the pointer after interrupt(): a connect that is still
\* under way or starts later, a bind, or a second interrupt, which joins and frees
\* once more, works on the freed handler.
UseFreedHandler ==
    /\ Running /\ exit = "freed"
    /\ fault' = "freed"
    /\ UNCHANGED <<kernel, pollfds, mutex, exit, manager, thread, callers>>

-----------------------------------------------------------------------------
(* sock_thread_fn *)

\* Copies pollfds under the mutex.
Snapshot ==
    /\ Running /\ pc = "loop" /\ exit = "no" /\ mutex = "free"
    /\ snap' = [i \in DOMAIN pollfds |->
                    [fd |-> pollfds[i].fd, events |-> pollfds[i].events,
                     revents |-> {}, sock |-> pollfds[i].sock]]
    /\ pc' = "poll" /\ close_socks' = <<>> /\ k' = 1
    /\ UNCHANGED <<kernel, handler, manager, newfd, callers>>

\* What poll() must report of an entry.  Of a socket that hung up it reports
\* POLLHUP, which in Darwin's poll() excludes POLLOUT.
MustReport(e) == IF e.sock \in hung THEN e.events \ {"POLLOUT"} ELSE {}

\* poll() returns, on an event or after ten seconds, or with an error, which the
\* assertion after it does not allow for.  POLLHUP and POLLERR alone select no
\* branch of the loop and are left out.
Poll ==
    /\ Running /\ pc = "poll"
    /\ \/ \E rev \in [DOMAIN snap -> SUBSET Events] :
            /\ \A i \in DOMAIN snap :
                  MustReport(snap[i]) \subseteq rev[i] /\ rev[i] \subseteq snap[i].events
            /\ snap' = [i \in DOMAIN snap |-> [snap[i] EXCEPT !.revents = rev[i]]]
            /\ pc' = "handle" /\ UNCHANGED fault
       \/ fault' = "poll" /\ UNCHANGED <<snap, pc>>
    /\ UNCHANGED <<kernel, pollfds, mutex, exit, manager, close_socks, k, newfd, callers>>

\* The entry the for loop is at: the first with an event left to handle.
Current == CHOOSE i \in DOMAIN snap :
              snap[i].revents # {} /\ \A j \in 1..(i - 1) : snap[j].revents = {}
AtEvent(ev) ==
    /\ Running /\ pc = "handle"
    /\ \E i \in DOMAIN snap : snap[i].revents # {}
    /\ ev \in snap[Current].revents
    /\ ev = "POLLOUT" => "POLLIN" \notin snap[Current].revents
Handled(ev) == snap' = [snap EXCEPT ![Current].revents = @ \ {ev}]
MarkClose   == close_socks' = Append(close_socks, Current)

\* read() on a connection: a spurious wake, data, which may still come from a
\* connection that hung up, or end of file and errors.
Read ==
    /\ AtEvent("POLLIN")
    /\ snap[Current].sock \notin listeners
    /\ \/ /\ snap[Current].sock \notin hung                      \* EAGAIN
          /\ Handled("POLLIN") /\ UNCHANGED <<pc, close_socks>>
       \/ pc' = "event" /\ UNCHANGED <<snap, close_socks>>         \* data
       \/ /\ snap[Current].sock \in hung                         \* EOF or error
          /\ MarkClose /\ Handled("POLLIN") /\ UNCHANGED pc
    /\ UNCHANGED <<kernel, handler, manager, k, newfd, callers>>

\* read() on the listening socket fails, so the loop calls accept(): a failing
\* accept, even a transient one, marks the listening socket itself.
Accept ==
    /\ AtEvent("POLLIN")
    /\ snap[Current].sock \in listeners
    /\ \/ /\ \E fd \in Fds : NewSocket(fd) /\ newfd' = fd
          /\ pc' = "inbound" /\ UNCHANGED <<snap, close_socks>>
       \/ /\ MarkClose /\ Handled("POLLIN")
          /\ UNCHANGED <<file, born, newfd, pc>>
    /\ UNCHANGED <<hung, listeners, handler, manager, k, callers>>

\* PeerManager hears of an accepted connection before it is registered; a refused
\* one is closed at once.
NewInbound ==
    /\ Running /\ pc = "inbound"
    /\ \E result \in Results :
        /\ NewConnection(newfd, file[newfd], result)
        /\ IF result = "err"
           THEN /\ file' = [file EXCEPT ![newfd] = 0] /\ newfd' = NoFd
                /\ pc' = "handle" /\ Handled("POLLIN")
           ELSE pc' = "register" /\ UNCHANGED <<file, newfd, snap>>
    /\ UNCHANGED <<born, hung, listeners, pollfds, mutex, exit, late, pm, update, close_socks, k,
                   callers>>

\* A registration that fails leaves the descriptor open, and known to PeerManager.
RegisterInbound ==
    /\ Running /\ pc = "register"
    /\ \/ RegisterSocket(newfd, file[newfd]) /\ UNCHANGED hung
       \/ Shutdown(newfd) /\ UNCHANGED <<pollfds, fault>>
    /\ newfd' = NoFd /\ pc' = "handle" /\ Handled("POLLIN")
    /\ UNCHANGED <<file, born, listeners, mutex, exit, manager, close_socks, k, callers>>

\* PeerManager_read_event; an unknown descriptor gets Err.  Ok(true) asks for a
\* pause: the code checks and writes the slot BEFORE the current one (at the first
\* slot that is memory outside the array).
PauseSlot == Current - 1
ReadEvent ==
    /\ Running /\ pc = "event" /\ pm = "free"
    /\ LET fd == snap[Current].fd IN
       \/ /\ peers[fd] # 0                                       \* Ok(false)
          /\ link' = [link EXCEPT ![fd] = IF @ = "new" THEN "up" ELSE @]
          /\ UNCHANGED <<pollfds, fault, close_socks>>
       \/ /\ peers[fd] # 0 /\ mutex = "free"                     \* Ok(true)
          /\ IF PauseSlot \in DOMAIN pollfds
             THEN IF pollfds[PauseSlot].fd = fd
                  THEN /\ pollfds' = [pollfds EXCEPT ![PauseSlot].events = {"POLLOUT"}]
                       /\ UNCHANGED fault
                  ELSE fault' = "fd_order" /\ UNCHANGED pollfds
             ELSE fault' \in {"fd_order", "ub"} /\ UNCHANGED pollfds
          /\ UNCHANGED <<link, close_socks>>
       \/ /\ MarkClose                                           \* Err
          /\ UNCHANGED <<pollfds, fault, link>>
    /\ Handled("POLLIN") /\ pc' = "handle"
    /\ UNCHANGED <<kernel, mutex, exit, peers, late, refused, pm, update, k, newfd, callers>>

\* PeerManager_write_buffer_space_avail, which may call send_data before it
\* returns; an unknown descriptor gets Err.
WriteSpace ==
    /\ AtEvent("POLLOUT") /\ pm = "free"
    /\ IF peers[snap[Current].fd] # 0
       THEN pm' = "socket_thread" /\ pc' = "drain" /\ UNCHANGED <<snap, close_socks>>
       ELSE MarkClose /\ Handled("POLLOUT") /\ UNCHANGED <<pm, pc>>
    /\ UNCHANGED <<kernel, handler, peers, late, link, refused, update, k, newfd, callers>>

DrainSend ==
    /\ pc = "drain"
    /\ SendData("socket_thread", snap[Current].fd) \/ SetEvents("socket_thread")

DrainReturn ==
    /\ Running /\ pc = "drain" /\ update = <<>>
    /\ pm' = "free" /\ pc' = "handle" /\ Handled("POLLOUT")
    /\ \/ UNCHANGED close_socks
       \/ MarkClose
    /\ UNCHANGED <<kernel, handler, peers, late, link, refused, update, k, newfd, callers>>

HandledAll ==
    /\ Running /\ pc = "handle"
    /\ \A i \in DOMAIN snap : snap[i].revents = {}
    /\ pc' = "disconnect"
    /\ UNCHANGED <<kernel, handler, manager, snap, close_socks, k, newfd, callers>>

\* socket_disconnected for each marked index of the shared array.
Disconnect ==
    /\ Running /\ pc = "disconnect" /\ k <= Len(close_socks)
    /\ SocketDisconnected(pollfds[close_socks[k]].fd)
    /\ k' = k + 1
    /\ UNCHANGED <<kernel, handler, pc, snap, close_socks, newfd, callers>>

Bug_Told(list) == TRUE
Told(list)     == k > Len(list)

LockToClose ==
    /\ Running /\ pc = "disconnect" /\ Told(close_socks) /\ mutex = "free"
    /\ mutex' = "socket_thread" /\ pc' = "close" /\ k' = 1
    /\ UNCHANGED <<kernel, pollfds, exit, fault, manager, snap, close_socks, newfd, callers>>

\* One match of the compaction loop: close the descriptor and drop its slot, the
\* earlier matches having moved it down.  The loop never looks back, so an index
\* that does not exceed its predecessor fails the assertion on close_idx.
CloseNext ==
    /\ Running /\ pc = "close" /\ k <= Len(close_socks)
    /\ IF k > 1 /\ close_socks[k] <= close_socks[k - 1]
       THEN fault' = "close_idx" /\ UNCHANGED <<file, pollfds, k>>
       ELSE LET slot == close_socks[k] - (k - 1) IN
            /\ file' = [file EXCEPT ![pollfds[slot].fd] = 0]
            /\ pollfds' = RemoveAt(pollfds, slot)
            /\ k' = k + 1 /\ UNCHANGED fault
    /\ UNCHANGED <<born, hung, listeners, mutex, exit, manager, pc, snap, close_socks,
                   newfd, callers>>

\* The copy and the marks are not looked at again before the next Snapshot.
UnlockClosed ==
    /\ Running /\ pc = "close" /\ k > Len(close_socks)
    /\ mutex' = "free" /\ pc' = "process"
    /\ snap' = <<>> /\ close_socks' = <<>> /\ k' = 1
    /\ UNCHANGED <<kernel, pollfds, exit, fault, manager, newfd, callers>>

\* PeerManager_process_events, which may write to every ready peer.
ProcessEvents ==
    /\ Running /\ pc = "process" /\ pm = "free"
    /\ pm' = "socket_thread" /\ pc' = "pump"
    /\ UNCHANGED <<kernel, handler, peers, late, link, refused, update, snap, close_socks, k,
                   newfd, callers>>

PumpSend ==
    /\ pc = "pump"
    /\ \/ \E fd \in Fds : CanWrite(fd) /\ SendData("socket_thread", fd)
       \/ SetEvents("socket_thread")

ProcessReturn ==
    /\ Running /\ pc = "pump" /\ update = <<>>
    /\ pm' = "free" /\ pc' = "loop"
    /\ UNCHANGED <<kernel, handler, peers, late, link, refused, update, snap, close_socks, k,
                   newfd, callers>>

\* After should_exit: take the mutex, tell PeerManager of every descriptor while
\* holding it, then close them all.
ExitLock ==
    /\ Running /\ pc = "loop" /\ exit # "no" /\ mutex = "free"
    /\ mutex' = "socket_thread" /\ pc' = "exit" /\ k' = 1
    /\ UNCHANGED <<kernel, pollfds, exit, fault, manager, snap, close_socks, newfd, callers>>

ExitDisconnect ==
    /\ Running /\ pc = "exit" /\ k <= Len(pollfds)
    /\ SocketDisconnected(pollfds[k].fd)
    /\ k' = k + 1
    /\ UNCHANGED <<kernel, handler, pc, snap, close_socks, newfd, callers>>

ExitClose ==
    /\ Running /\ pc = "exit" /\ Told(pollfds)
    /\ file' = [f \in Fds |-> IF \E i \in DOMAIN pollfds : pollfds[i].fd = f
                              THEN 0 ELSE file[f]]
    /\ pollfds' = <<>> /\ mutex' = "free" /\ pc' = "done"
    /\ UNCHANGED <<born, hung, listeners, exit, fault, manager, snap, close_socks, k,
                   newfd, callers>>

-----------------------------------------------------------------------------
SocketThread ==
    \/ Snapshot \/ Poll \/ Read \/ Accept \/ NewInbound \/ RegisterInbound
    \/ ReadEvent \/ WriteSpace \/ DrainSend \/ DrainReturn \/ HandledAll
    \/ Disconnect \/ LockToClose \/ CloseNext \/ UnlockClosed
    \/ ProcessEvents \/ PumpSend \/ ProcessReturn
    \/ ExitLock \/ ExitDisconnect \/ ExitClose

Connector(c) ==
    Connect(c) \/ ConnectRegister(c) \/ NewOutbound(c) \/ SendHello(c)

Others ==
    \/ BackgroundEnter \/ BackgroundSend \/ BackgroundReturn
    \/ \E fd \in Fds : DisconnectPeer(fd)
    \/ \E s \in Sockets : RemoteHangup(s)
    \/ Bind \/ Interrupt \/ InterruptJoined \/ UseFreedHandler

\* The process has stopped on a failed assertion, a panic or a misuse.
Stopped == ~Running /\ UNCHANGED vars

Next == SocketThread \/ (\E c \in Connectors : Connector(c)) \/ Others \/ Stopped

Spec == Init /\ [][Next]_vars

\* The socket thread keeps running: poll() comes back within ten seconds, a call
\* into PeerManager writes finitely often before it returns, and PeerManager's
\* lock, free between the other threads' calls, does not shut it out forever; what
\* is left to read of a connection that hung up comes to its end.
\* Only one disjunct of each group is possible at any pc.
SocketThreadRuns ==
    /\ WF_vars(\/ Snapshot \/ Poll \/ Read \/ Accept \/ RegisterInbound \/ HandledAll
               \/ LockToClose \/ CloseNext \/ UnlockClosed \/ ExitLock \/ ExitClose
               \/ SetEvents("socket_thread"))
    /\ SF_vars(DrainReturn \/ ProcessReturn)
    /\ SF_vars(NewInbound \/ ReadEvent \/ WriteSpace \/ Disconnect \/ ProcessEvents
               \/ ExitDisconnect)
    /\ SF_vars(Read /\ MarkClose)

\* LDK's own thread comes back from the calls it makes, and its ping timer drops a
\* peer whose connection is gone (lightning.h, PeerManager_timer_tick_occurred).
BackgroundRuns ==
    /\ WF_vars(SetEvents("background")) /\ SF_vars(BackgroundReturn)
    /\ \A fd \in Fds : SF_vars(DisconnectPeer(fd) /\ file[fd] \in hung)

FairSpec == Spec /\ SocketThreadRuns /\ BackgroundRuns /\ WF_vars(InterruptJoined)

-----------------------------------------------------------------------------
(* Properties *)

\* Every variable holds a value of its type.
KernelTypeOK ==
    /\ file \in [Fds -> 0..born] /\ born \in 0..MaxSockets
    /\ hung \subseteq 1..born /\ listeners \subseteq 1..born
HandlerTypeOK ==
    /\ pollfds \in Seq(PollFd) /\ mutex \in Holders
    /\ exit \in {"no", "joining", "freed"} /\ fault \in Faults
ManagerTypeOK ==
    /\ peers \in [Fds -> 0..born] /\ late \subseteq Fds /\ link \in [Fds -> {"new", "up", "stalled"}]
    /\ refused \subseteq 1..born /\ pm \in Holders
    /\ update \in {<<>>} \cup (Fds \X SUBSET Events)
ThreadTypeOK ==
    /\ pc \in ThreadPC /\ snap \in Seq(SnapFd) /\ close_socks \in Seq(Nat)
    /\ k \in Nat \ {0} /\ newfd \in Fds \cup {NoFd}
CallerTypeOK ==
    /\ cpc \in [Connectors -> {"idle", "register", "hello", "send"}]
    /\ cfd \in [Connectors -> Fds \cup {NoFd}] /\ csock \in [Connectors -> 0..born]
TypeOK ==
    KernelTypeOK /\ HandlerTypeOK /\ ManagerTypeOK /\ ThreadTypeOK /\ CallerTypeOK

\* Every slot of pollfds names the very socket that was registered in it: the
\* number is open and was not closed and handed out again, however connects,
\* accepts, callbacks and closes interleave (register_socket, the close loop).
SlotsNameTheirSocket ==
    \A i \in DOMAIN pollfds : file[pollfds[i].fd] = pollfds[i].sock

\* No descriptor number sits in two slots, so the lookup by number in
\* sock_send_data finds the one slot of its connection.
NoDuplicateFd ==
    \A i, j \in DOMAIN pollfds : pollfds[i].fd = pollfds[j].fd => i = j

\* While the socket thread works on its copy, the index of an entry still finds
\* the same descriptor and the same socket in the shared array, which it reads
\* without the mutex (ldk_net.c:299) and compacts one match at a time.
Moved == IF pc = "close" THEN k - 1 ELSE 0
Behind(i) == pc = "close" /\ k > 1 /\ i <= close_socks[k - 1]
UsesIndices == pc \in {"poll", "handle", "event", "inbound", "register", "drain",
                       "disconnect", "close"}
IndicesStillName ==
    UsesIndices => \A i \in DOMAIN snap : ~Behind(i) =>
        /\ i - Moved \in DOMAIN pollfds
        /\ pollfds[i - Moved].fd = snap[i].fd
        /\ pollfds[i - Moved].sock = snap[i].sock

\* No index is marked twice, whichever of read, accept, read_event and
\* write_buffer_space_avail marked it: the assertion at ldk_net.c:315 holds.
MarkedOnce ==
    /\ \A i, j \in DOMAIN close_socks : i < j => close_socks[i] < close_socks[j]
    /\ fault # "close_idx"

\* A peer whose last write was short polls for POLLOUT until the rest is written,
\* so write_buffer_space_avail will be called: a full socket is never forgotten.
StalledPeerWaitsToWrite ==
    \A i \in DOMAIN pollfds :
        LET e == pollfds[i] IN
        (/\ peers[e.fd] = e.sock /\ link[e.fd] = "stalled"
         /\ e.sock \notin hung /\ update = <<>>)
            => "POLLOUT" \in e.events

\* Each descriptor PeerManager knows is still the open connection it was given
\* for, accepted or made, on every path that closes one; all that can break this
\* is socket_connect, which announces a descriptor after the socket thread may have
\* given it up (ldk_net.c:403, 406), and only until PeerManager drops it.
PeersAreOpen == \A fd \in Fds : peers[fd] # 0 => file[fd] = peers[fd] \/ fd \in late

\* PeerManager panics over a descriptor it still knows (lightning.h:22888, 22908)
\* only when one was announced too late: no accept, no reuse of a number and no
\* other order of connects and closes leads there.
PanicsOnlyIfLate == fault = "duplicate" => late # {}

\* The life of a socket as the kernel's table and the array of slots show it; a
\* socket with a slot and no number has no place in SocketLife.
Named(s) == \E fd \in Fds : file[fd] = s
LifeOf(s) ==
    CASE s > born                                     -> "none"
      [] s <= born /\ Named(s) /\ ~Registered(s)      -> "open"
      [] s <= born /\ Named(s) /\ Registered(s)       -> "watched"
      [] s <= born /\ ~Named(s) /\ ~Registered(s)     -> "closed"
      [] s <= born /\ ~Named(s) /\ Registered(s)      -> "dangling"
Life == INSTANCE SocketLife WITH life <- [s \in Sockets |-> LifeOf(s)]

\* ldk_net.c keeps the promise of SocketLife: connect, accept, bind, the close
\* loop and the exit of the thread, over reused numbers, move each socket only
\* as SocketLife says.
KeepsSocketLife == Life!Spec

-----------------------------------------------------------------------------
(* Statements of the sources and of lightning.h that the code does not keep *)

\* ldk_net.c:269 asserts that the slot it is about to write carries the polled
\* descriptor.
FdOrderAssertionHolds == fault # "fd_order"

\* ldk_net.c:293-297: other threads call shutdown() on a socket, and the socket
\* thread closes it.  A socket that was shut down, here or by the other end, leaves
\* the array; interrupting the handler ends the promise.
HungSocketIsClosed ==
    \A s \in Sockets :
        s \in hung /\ Registered(s) ~> ~Registered(s) \/ exit # "no" \/ ~Running

\* lightning.h:22888 and 22908: no descriptor is given to PeerManager while an
\* equal one was not socket_disconnected().
NoDuplicativeDescriptor == fault # "duplicate"

\* ldk_net.h:12: interrupt_socket_handling stops the thread and frees the handler,
\* and so returns.
InterruptReturns == exit = "joining" ~> exit = "freed" \/ ~Running

\* lightning.h:22883: a descriptor whose new_outbound_connection returned Err
\* never gets a socket_disconnected call.
DisconnectsSlot(i) ==
    \/ pc = "disconnect" /\ k' = k + 1 /\ i = close_socks[k]
    \/ pc = "exit" /\ k' = k + 1 /\ i = k
NoDisconnectAfterRefusal ==
    [][\A i \in DOMAIN pollfds : DisconnectsSlot(i) => pollfds[i].sock \notin refused]_vars
=============================================================================
