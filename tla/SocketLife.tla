------------------------------ MODULE SocketLife ------------------------------
(***************************************************************************)
(* What the socket handler promises about every socket, without threads,   *)
(* descriptor numbers, arrays or locks: a socket is opened once, comes     *)
(* under the socket thread's watch at most once, and is closed at most     *)
(* once, by the socket thread.  A watched socket is never closed and still *)
(* watched, nor dropped from the watch and left open, and a socket that    *)
(* another thread has opened and not handed over is not closed under it.   *)
(***************************************************************************)
CONSTANT Sockets
VARIABLE life

Stages == {"none", "open", "watched", "closed"}

\* The sockets of S go from one stage to another, all at once.
Move(S, from, to) ==
    /\ S # {}
    /\ \A s \in S : life[s] = from
    /\ life' = [s \in Sockets |-> IF s \in S THEN to ELSE life[s]]

Init == life = [s \in Sockets |-> "none"]

\* socket() and accept().
Open(s) == Move({s}, "none", "open")

\* socket_bind opens a socket and hands it over.
Listen(s) == Move({s}, "none", "watched")

\* register_socket hands a socket over to the socket thread.
Watch(s) == Move({s}, "open", "watched")

\* An accepted connection the peer manager refuses.
Refuse(s) == Move({s}, "open", "closed")

\* The socket thread closes some of the sockets it watches.
Close(S) == Move(S, "watched", "closed")

Next ==
    \/ \E s \in Sockets : Open(s) \/ Listen(s) \/ Watch(s) \/ Refuse(s)
    \/ \E S \in SUBSET Sockets : Close(S)

Spec == Init /\ [][Next]_life
=============================================================================
