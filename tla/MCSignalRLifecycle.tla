--------------------------- MODULE MCSignalRLifecycle ---------------------------
(***************************************************************************)
(* SignalRLifecycle with small constants.  The caps keep their order       *)
(* (initial <= cooldown, maximum < unreachable) and shrink so that a few   *)
(* faults reach the escalation and the forced re-authentication.           *)
(***************************************************************************)
EXTENDS SignalRLifecycle, TLC

MCInitialBackoff == 1
MCMaxBackoff == 4
MCRapidDropCooldown == 3
MCUnreachable == 9
=============================================================================
