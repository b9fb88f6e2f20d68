------------------------------ MODULE ChainFollow ------------------------------
(***************************************************************************)
(* What LightningService promises LDK about heights, whatever tasks carry  *)
(* the blocks: within one life of the process the manager rises by one     *)
(* block at a time and never above the kit's chain; the monitor of a       *)
(* channel is given nothing the manager did not have; a launch goes back   *)
(* to what was stored; a new node starts without the channels of another,  *)
(* and a later launch that reads them finds them no higher than the stored *)
(* manager.  ChainSync implements it (ChainSync!FollowsChain).             *)
(***************************************************************************)
EXTENDS Integers

VARIABLES
    tip,    \* height of the kit's chain
    height, \* height of the manager
    stored, \* height of the manager in storage, 0 when there is none
    seen    \* height of the last block the channel's monitor saw, 0 without channel

vars == <<tip, height, stored, seen>>

Init == tip = 1 /\ height = 1 /\ stored = 0 /\ seen = 0

Grow    == tip' = tip + 1 /\ UNCHANGED <<height, stored, seen>>
Connect == height < tip /\ height' = height + 1 /\ UNCHANGED <<tip, stored, seen>>
Give    == seen # 0 /\ seen' \in 1..height /\ UNCHANGED <<tip, height, stored>>
Open    == seen = 0 /\ seen' = height /\ UNCHANGED <<tip, height, stored>>
Store   == stored' = height /\ UNCHANGED <<tip, height, seen>>

Launch ==
    /\ IF stored = 0 THEN height' = tip /\ seen' = 0
                     ELSE height' = stored /\ (UNCHANGED seen \/ seen' \in 1..stored)
    /\ UNCHANGED <<tip, stored>>

Next == Grow \/ Connect \/ Give \/ Open \/ Store \/ Launch
Spec == Init /\ [][Next]_vars
=============================================================================
