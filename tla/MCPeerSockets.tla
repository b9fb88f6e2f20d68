---------------------------- MODULE MCPeerSockets ----------------------------
(* Small instances of PeerSockets.  Descriptor numbers and connector threads  *)
(* are interchangeable, which the safety runs use as symmetry.                *)
EXTENDS PeerSockets, TLC

CONSTANTS f1, f2, f3, ui, sync

OneFd      == {f1}
TwoFds     == {f1, f2}
ThreeFds   == {f1, f2, f3}
TwoCallers == {ui, sync}
OneCaller  == {ui}
NoCaller   == {}

FdSymmetry == Permutations(Fds)
Symmetry   == Permutations(Fds) \cup Permutations(Connectors)
=============================================================================
