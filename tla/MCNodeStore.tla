------------------------------ MODULE MCNodeStore ------------------------------
(* Small instances of NodeStore. *)
EXTENDS NodeStore, TLC

CONSTANTS c1, c2, p1

OneChannel  == {c1}
TwoChannels == {c1, c2}
OnePayment  == {p1}
AnyFault    == {"fetch", "save"}
SaveFault   == {"save"}
=============================================================================
