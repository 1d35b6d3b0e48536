---------------------------- MODULE EntityCatalog ----------------------------
(***************************************************************************)
(* Which entities a set of observed slots makes: rich entities of the      *)
(* templates, canonical ones of a capability, and a generic one for every  *)
(* other slot (platform_setup.py, template_specs.py, capability_resolver.py*)
(* and the build methods under templates/).                                *)
(*                                                                         *)
(* Two pieces of code decide about a slot of a rich entity: the template's *)
(* build, from the slots the vehicle has reported, and rich_template_claims*)
(* from the slots the metadata pack lists for the component.  The tables   *)
(* are an extract of specs/template_specs.json and provider_specs.json.    *)
(***************************************************************************)
EXTENDS Integers, Sequences

(* The slots of each bus; the platform of a slot that no rich entity has
   (_platform_for_slot); the labels that matter.                            *)
Buses ==
    [light |-> {"light.1", "light.2", "light.3", "light.9"}, lamp |-> {"lamp.1", "lamp.2", "lamp.3"},
     awning |-> {"awning.1", "awning.7", "awning.5"}, truma |-> {"truma.8", "truma.5", "truma.4", "truma.6"},
     zone |-> {"zone.1", "zone.4", "zone.5", "zone.2"}, fan |-> {"fan.6", "fan.8", "fan.9"},
     fridge |-> {"fridge.1", "fridge.3", "fridge.2"}, unit |-> {"unit.1", "unit.4", "unit.7"}, hub |-> {"hub.1"}]
SlotsOf(bus) == Buses[bus]
AllSlots(v) == UNION {SlotsOf(bus) : bus \in v}
KnownSlots == AllSlots(DOMAIN Buses)
PlatformOf(s) ==
    CASE s \in {"light.1", "lamp.1", "fan.6", "fridge.1", "unit.1", "hub.1"} -> "switch"
      [] s \in {"light.2", "light.3", "lamp.2", "lamp.3", "awning.7", "truma.8", "zone.4", "zone.5", "fridge.3"} -> "number"
      [] s \in {"light.9", "awning.5", "fridge.2", "unit.4"} -> "sensor"
      [] s \in {"truma.5", "truma.4", "truma.6", "zone.1", "zone.2", "fan.8", "fan.9"} -> "select"
      [] s = "awning.1" -> "text"
      [] OTHER -> "none"
Platforms == {"switch", "number", "sensor", "select", "text", "light", "cover", "climate", "fan"}
Diagnostic(s) == s = "light.9"          \* switched off by default
HiddenByDefault(s) == s = "unit.4"      \* deprecated, not made at all
IsBrightness(s) == s = "light.2"
SameComponent(s, t) == \E bus \in DOMAIN Buses : {s, t} \subseteq SlotsOf(bus)

(* A template: it fits a component whose pack lists the slots of "fits"; its
   entity is built when the slots of "needs" and one of "any" are observed;
   it claims "claims", and what it offers of "options" is fixed at its build. *)
Template(id, platform, fits, needs, any, claims, options) ==
    [id |-> id, platform |-> platform, fits |-> fits, needs |-> needs, any |-> any,
     claims |-> claims, options |-> options]
LightTemplate == Template("light", "light", {"light.1", "light.2"}, {"light.1"}, {},
                          {"light.1", "light.2", "light.3"}, {"light.2", "light.3"})
NamedLightChannels == {Template("lamp", "light", {"lamp.1"}, {"lamp.1"}, {}, {"lamp.1", "lamp.2"}, {"lamp.2"}),
                       Template("nightlamp", "light", {"lamp.3"}, {"lamp.3"}, {}, {"lamp.3"}, {})}
AwningCoverTemplate == Template("awning", "cover", {}, {}, {"awning.1", "awning.7"},
                                {"awning.1", "awning.7", "awning.5"}, {"awning.7"})
TrumaClimateTemplate == Template("heater", "climate", {}, {"truma.8"}, {}, {"truma.8"}, {})
BoilerSelectTemplate == Template("boiler", "select", {}, {"truma.5"}, {}, {"truma.5"}, {})
HeaterEnergyTemplate == Template("energy", "select", {}, {"truma.4", "truma.6"}, {}, {"truma.4", "truma.6"}, {})
AirConditionerClimateTemplate ==
    Template("zone", "climate", {"zone.1", "zone.4", "zone.5"}, {"zone.1", "zone.4", "zone.5"}, {},
             {"zone.1", "zone.2", "zone.4", "zone.5"}, {})
FanTemplate == Template("roof_fan", "fan", {}, {"fan.6", "fan.8", "fan.9"}, {}, {"fan.6", "fan.8", "fan.9"}, {})
FridgePowerTemplate == Template("fridge_power", "switch", {"fridge.1"}, {}, SlotsOf("fridge"), {"fridge.1"}, {})
FridgeLevelTemplate == Template("fridge_level", "select", {"fridge.3"}, {}, SlotsOf("fridge"), {"fridge.3"}, {})
Templates ==
    {LightTemplate, AwningCoverTemplate, TrumaClimateTemplate, BoilerSelectTemplate, HeaterEnergyTemplate,
     AirConditionerClimateTemplate, FanTemplate, FridgePowerTemplate, FridgeLevelTemplate} \cup NamedLightChannels

Meets(t, slots) == t.needs \subseteq slots /\ (t.any = {} \/ t.any \cap slots # {})
(* build, of the template *)
Built(t, pack, observed) == t.fits \subseteq pack /\ Meets(t, observed)
(* rich_template_claims, with the platform of each claim's tag *)
Fitting(pack) == {t \in Templates : t.fits \subseteq pack /\ Meets(t, pack)}
RichClaims(pack) == UNION {[slot : t.claims \cap pack, platform : {t.platform}] : t \in Fitting(pack)}
KeptBeside(s, platform) == PlatformOf(s) = "number" /\ platform = "light" /\ IsBrightness(s)

(* The slots that get no generic entity, for a rich one has them. *)
Superseded(pack, observed) == {claim.slot : claim \in {c \in RichClaims(pack) : ~KeptBeside(c.slot, c.platform)}}

(* A capability and its providers, the preferred first (resolved_capabilities,
   present_candidate_slots). *)
Capabilities == [main_switch |-> [platform |-> "switch", candidates |-> <<"unit.1", "hub.1">>]]
Candidates(key) == {Capabilities[key].candidates[i] : i \in DOMAIN Capabilities[key].candidates}
Resolved(key, observed) ==
    LET spec == Capabilities[key].candidates
        present == {i \in DOMAIN spec : spec[i] \in observed}
    IN  IF present = {} THEN "none" ELSE spec[CHOOSE i \in present : \A j \in present : i <= j]

---------------------------------------------------------------------------
(* An entity: what made it, its platform, the slots it offers.             *)
Rich(t, observed) == [of |-> t.id, platform |-> t.platform, slots |-> t.claims \ (t.options \ observed)]
Canonical(key, observed) == [of |-> key, platform |-> Capabilities[key].platform, slots |-> Candidates(key) \cap observed]
Generic(s) == [of |-> s, platform |-> PlatformOf(s), slots |-> {s}]

\* Mutant: a component that has a rich entity gets no generic one at all
DiscoverByComponent(platform, pack, observed) ==
    LET built == {t \in Templates : t.platform = platform /\ Built(t, pack, observed)}
        keys == {k \in DOMAIN Capabilities :
                    Capabilities[k].platform = platform /\ Resolved(k, observed) # "none"}
        generic == {s \in observed \cap pack : /\ PlatformOf(s) = platform /\ ~HiddenByDefault(s)
                       /\ \A claim \in RichClaims(pack) : ~SameComponent(claim.slot, s)}
    IN  {Rich(t, observed) : t \in built} \cup {Canonical(k, observed) : k \in keys} \cup {Generic(s) : s \in generic}
(* _discover_platform_entities *)
Discover(platform, pack, observed) ==
    LET built == {t \in Templates : t.platform = platform /\ Built(t, pack, observed)}
        keys == {k \in DOMAIN Capabilities :
                    Capabilities[k].platform = platform /\ Resolved(k, observed) # "none"}
        claimed == (UNION {t.claims \cap observed : t \in built}) \cup (UNION {Candidates(k) \cap observed : k \in keys})
        generic == {s \in (observed \cap pack) \ claimed :
                       PlatformOf(s) = platform /\ ~HiddenByDefault(s) /\ s \notin Superseded(pack, observed)}
    IN  {Rich(t, observed) : t \in built} \cup {Canonical(k, observed) : k \in keys} \cup {Generic(s) : s \in generic}

\* Mutant: the rich claims are not asked
AffectsGenericOnly(platform, pack, new) ==
    \/ \E s \in new \cap pack : PlatformOf(s) = platform
    \/ \E k \in DOMAIN Capabilities : Capabilities[k].platform = platform /\ Candidates(k) \cap new # {}
(* _new_slots_might_affect_platform: by their own platform, by a capability, or
   by a claim in their component. *)
Affects(platform, pack, new) ==
    \/ \E s \in new \cap pack : PlatformOf(s) = platform
    \/ \E k \in DOMAIN Capabilities : Capabilities[k].platform = platform /\ Candidates(k) \cap new # {}
    \/ \E s \in new : \E claim \in RichClaims(pack) :
          claim.platform = platform /\ SameComponent(claim.slot, s)
=============================================================================
