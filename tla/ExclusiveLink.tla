------------------------------ MODULE ExclusiveLink ------------------------------
(***************************************************************************)
(* What the coordinator promises about its Bluetooth link: it is down,     *)
(* being connected, or up; it goes up only by an attempt; and once it is   *)
(* sealed (the unload has begun) no attempt begins and none succeeds.      *)
(***************************************************************************)
VARIABLES phase, sealed

vars == <<phase, sealed>>

Init == phase = "down" /\ sealed = FALSE

Connect ==
    /\ phase = "down" /\ ~sealed
    /\ phase' = "connecting"
    /\ UNCHANGED sealed

Succeed ==
    /\ phase = "connecting" /\ ~sealed
    /\ phase' = "up"
    /\ UNCHANGED sealed

\* An attempt fails or is given up, or the link is lost or closed
Fall ==
    /\ phase # "down"
    /\ phase' = "down"
    /\ UNCHANGED sealed

Seal ==
    /\ sealed' = TRUE
    /\ UNCHANGED phase

Next == Connect \/ Succeed \/ Fall \/ Seal

Spec == Init /\ [][Next]_vars
=============================================================================
