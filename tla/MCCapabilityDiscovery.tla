------------------------- MODULE MCCapabilityDiscovery -------------------------
(***************************************************************************)
(* CapabilityDiscovery for TLC: a slot of a read-only sensor, one of a     *)
(* light, and one of a component whose template makes both.                *)
(***************************************************************************)
EXTENDS CapabilityDiscovery

MCSlots == {"level", "lamp", "boiler"}
MCPlatforms == {"sensor", "light"}
MCAffects == {<<"sensor", "level">>, <<"light", "lamp">>,
              <<"sensor", "boiler">>, <<"light", "boiler">>}
=============================================================================
