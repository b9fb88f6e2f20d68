--------------------------- MODULE MCChannelRecords ---------------------------
(* Small instances of ChannelRecords. *)
EXTENDS ChannelRecords, TLC

CONSTANTS j1, j2

OneJob  == {j1}
TwoJobs == {j1, j2}
=============================================================================
