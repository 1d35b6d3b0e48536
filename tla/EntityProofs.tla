----------------------------- MODULE EntityProofs -----------------------------
(***************************************************************************)
(* Proofs about the entities, for any vehicles, devices and bounds:        *)
(*   EntityRegistry  which entities there are, and what is remembered      *)
(*   MainSwitch      retries are bounded, and the last command holds       *)
(*   EntityControls  what a control shows, and what its commands do        *)
(* Each part has an inductive invariant and one lemma per action.          *)
(***************************************************************************)
EXTENDS EntityRegistry, EntityControls, FiniteSetTheorems, TLAPS

---------------------------------------------------------------------------
(* What the tables say.                                                    *)

\* Every template: where its slots are, and that it claims what it is built for.
LEMMA TheTemplates ==
    ASSUME NEW t \in Templates
    PROVE  /\ t.platform \in {"light", "cover", "climate", "select", "fan", "switch"}
           /\ t.id \notin KnownSlots \cup DOMAIN Capabilities \cup {"fridge_mode"}
           /\ \E bus \in DOMAIN Buses : t.fits \cup t.needs \cup t.any \cup t.claims \subseteq SlotsOf(bus)
           /\ t.options \subseteq t.claims
           /\ t.claims \cap (t.fits \cup t.needs) # {} \/ (t.any # {} /\ t.any \subseteq t.claims)
           /\ t.any # {} => \E x, y \in t.any : x # y
           /\ \A key \in DOMAIN Capabilities : t.claims \cap Candidates(key) = {}
<1> USE DEF Templates, LightTemplate, NamedLightChannels, AwningCoverTemplate, TrumaClimateTemplate,
            BoilerSelectTemplate, HeaterEnergyTemplate, AirConditionerClimateTemplate, FanTemplate,
            FridgePowerTemplate, FridgeLevelTemplate, Template
<1>1. t.platform \in {"light", "cover", "climate", "select", "fan", "switch"}
  OBVIOUS
<1>2. t.id \notin KnownSlots \cup DOMAIN Capabilities \cup {"fridge_mode"}
  BY DEF KnownSlots, AllSlots, SlotsOf, Buses, Capabilities
<1>3. \E bus \in DOMAIN Buses : t.fits \cup t.needs \cup t.any \cup t.claims \subseteq SlotsOf(bus)
  BY DEF SlotsOf, Buses
<1>4. t.options \subseteq t.claims
  OBVIOUS
<1>5. t.claims \cap (t.fits \cup t.needs) # {} \/ (t.any # {} /\ t.any \subseteq t.claims)
  OBVIOUS
<1>6. t.any # {} => \E x, y \in t.any : x # y
  BY DEF SlotsOf, Buses
<1>7. \A key \in DOMAIN Capabilities : t.claims \cap Candidates(key) = {}
  BY DEF Candidates, Capabilities, SlotsOf, Buses
<1> HIDE DEF Templates
<1> QED  BY <1>1, <1>2, <1>3, <1>4, <1>5, <1>6, <1>7

\* No two templates share an id or a slot.
LEMMA TemplatesDiffer == \A t, u \in Templates : t # u => t.id # u.id /\ t.claims \cap u.claims = {}
BY DEF Templates, LightTemplate, NamedLightChannels, AwningCoverTemplate, TrumaClimateTemplate,
       BoilerSelectTemplate, HeaterEnergyTemplate, AirConditionerClimateTemplate, FanTemplate,
       FridgePowerTemplate, FridgeLevelTemplate, Template

\* The one capability, and its candidates.
LEMMA TheCapability ==
    /\ DOMAIN Capabilities = {"main_switch"} /\ Capabilities["main_switch"].platform = "switch"
    /\ Candidates("main_switch") = {"unit.1", "hub.1"}
    /\ \A s \in Candidates("main_switch") : PlatformOf(s) = "switch" /\ s \in KnownSlots
    /\ "main_switch" \notin KnownSlots /\ "fridge_mode" \notin KnownSlots
<1>1. DOMAIN Capabilities = {"main_switch"} /\ Capabilities["main_switch"].platform = "switch"
  BY DEF Capabilities
<1>2. Candidates("main_switch") = {"unit.1", "hub.1"}
  BY DEF Capabilities, Candidates
<1>3. \A s \in Candidates("main_switch") : PlatformOf(s) = "switch" /\ s \in KnownSlots
  BY <1>2 DEF PlatformOf, KnownSlots, AllSlots, SlotsOf, Buses
<1>4. "main_switch" \notin KnownSlots /\ "fridge_mode" \notin KnownSlots
  BY DEF KnownSlots, AllSlots, SlotsOf, Buses
<1> QED  BY <1>1, <1>2, <1>3, <1>4

\* A capability is resolved as soon as one of its candidates was reported.
LEMMA WhenResolved == \A o : Resolved("main_switch", o) # "none" <=> Candidates("main_switch") \cap o # {}
<1> SUFFICES ASSUME NEW o
             PROVE  Resolved("main_switch", o) # "none" <=> Candidates("main_switch") \cap o # {}
    OBVIOUS
<1> DEFINE spec == <<"unit.1", "hub.1">>
           present == {i \in DOMAIN spec : spec[i] \in o}
           least == CHOOSE i \in present : \A j \in present : i <= j
<1>1. DOMAIN spec = {1, 2} /\ spec[1] = "unit.1" /\ spec[2] = "hub.1"
  OBVIOUS
<1>2. Resolved("main_switch", o) = IF present = {} THEN "none" ELSE spec[least]
  BY DEF Resolved, Capabilities
<1>3. Candidates("main_switch") \cap o # {} <=> present # {}
  BY <1>1, TheCapability
<1>4. present # {} => least \in {1, 2}
  <2> SUFFICES ASSUME present # {} PROVE least \in present
    BY <1>1
  <2>1. \E i \in present : \A j \in present : i <= j
    BY <1>1
  <2> QED  BY <2>1
<1> HIDE DEF least, present, spec
<1> QED  BY <1>1, <1>2, <1>3, <1>4

\* A slot is on one bus.
LEMMA OneBus == \A a, b \in DOMAIN Buses : SlotsOf(a) \cap SlotsOf(b) # {} => a = b
BY DEF SlotsOf, Buses

---------------------------------------------------------------------------
(* What a vehicle's reports and a pack make.                               *)

(* A pack of the vehicle's and slots that it has reported. *)
Reported(v, p, o) == v \subseteq DOMAIN Buses /\ p \in Packs(v) /\ o \subseteq AllSlots(v)

\* A pack lists all slots of the vehicle but one, which no template takes for granted.
LEMMA ThePack ==
    ASSUME NEW v, NEW p \in Packs(v)
    PROVE  /\ p \subseteq AllSlots(v) /\ AllSlots(v) \cap TakenForGranted \subseteq p
           /\ \A x, y \in AllSlots(v) : x = y \/ x \in p \/ y \in p
BY DEF Packs

\* A template that is built from what was reported fits what the pack lists too.
LEMMA BuiltFits ==
    ASSUME NEW v, NEW p, NEW o, Reported(v, p, o), NEW t \in Templates, Built(t, p, o)
    PROVE  t \in Fitting(p)
<1>1. /\ p \subseteq AllSlots(v) /\ AllSlots(v) \cap TakenForGranted \subseteq p /\ o \subseteq AllSlots(v)
      /\ \A x, y \in AllSlots(v) : x = y \/ x \in p \/ y \in p
  BY ThePack DEF Reported
<1>2. t.fits \subseteq p /\ t.needs \subseteq o /\ (t.any = {} \/ t.any \cap o # {})
  BY DEF Built, Meets
<1>3. t.needs \subseteq p
  <2>1. t.needs \ t.fits \subseteq TakenForGranted
    BY DEF TakenForGranted
  <2> QED  BY <1>1, <1>2, <2>1
<1>4. ASSUME t.any # {} PROVE t.any \cap p # {}
  <2>1. PICK bus \in DOMAIN Buses : t.any \subseteq SlotsOf(bus)
    BY TheTemplates
  <2>2. PICK x, y \in t.any : x # y
    BY <1>4, TheTemplates
  <2>3. PICK s \in t.any \cap o : TRUE
    BY <1>2, <1>4
  <2>4. PICK b \in v : s \in SlotsOf(b) /\ SlotsOf(b) \subseteq AllSlots(v)
    BY <1>1, <2>3 DEF AllSlots
  <2>5. b = bus
    BY <2>1, <2>3, <2>4, OneBus DEF Reported
  <2> QED  BY <1>1, <2>1, <2>2, <2>4, <2>5
<1> QED  BY <1>2, <1>3, <1>4 DEF Fitting, Meets

(* A slot that gets a generic entity once it is reported and the pack lists it. *)
Offered(s, p) == /\ PlatformOf(s) # "none" /\ ~HiddenByDefault(s) /\ s \notin Superseded(p, {})
                 /\ s \notin Candidates("main_switch")

(* What makes an entity of a platform from the slots o that were reported. *)
BuiltOf(t, platform, p, o) == t \in Templates /\ t.platform = platform /\ Built(t, p, o)
ResolvedOf(platform, o) == platform = "switch" /\ Candidates("main_switch") \cap o # {}
OfferedOf(s, platform, p, o) == s \in o \cap p /\ PlatformOf(s) = platform /\ Offered(s, p)

\* A slot that a built template claims on the platform it would be generic on is superseded.
LEMMA ClaimedIsSuperseded ==
    ASSUME NEW v, NEW p, NEW o, Reported(v, p, o), NEW t \in Templates, Built(t, p, o),
           NEW s \in t.claims \cap p, ~KeptBeside(s, t.platform)
    PROVE  s \in Superseded(p, {})
<1>1. t \in Fitting(p)
  BY BuiltFits
<1>2. [slot |-> s, platform |-> t.platform] \in [slot : t.claims \cap p, platform : {t.platform}]
  OBVIOUS
<1>3. [slot |-> s, platform |-> t.platform] \in RichClaims(p)
  BY <1>1, <1>2 DEF RichClaims
<1> QED  BY <1>3 DEF Superseded

\* The entities of a platform, without the detour of what its rich ones claim.
LEMMA Discovers ==
    ASSUME NEW v, NEW p, NEW o, Reported(v, p, o), NEW platform \in Platforms, NEW e
    PROVE  e \in Discover(platform, p, o) <=>
              \/ \E t : BuiltOf(t, platform, p, o) /\ e = Rich(t, o)
              \/ ResolvedOf(platform, o) /\ e = Canonical("main_switch", o)
              \/ \E s : OfferedOf(s, platform, p, o) /\ e = Generic(s)
<1> DEFINE built == {t \in Templates : t.platform = platform /\ Built(t, p, o)}
           keys == {k \in DOMAIN Capabilities : Capabilities[k].platform = platform /\ Resolved(k, o) # "none"}
           claimed == (UNION {t.claims \cap o : t \in built}) \cup (UNION {Candidates(k) \cap o : k \in keys})
           generic == {s \in (o \cap p) \ claimed :
                          PlatformOf(s) = platform /\ ~HiddenByDefault(s) /\ s \notin Superseded(p, o)}
<1>1. Discover(platform, p, o) = {Rich(t, o) : t \in built} \cup {Canonical(k, o) : k \in keys}
                                     \cup {Generic(s) : s \in generic}
  BY DEF Discover
<1>2. keys = IF ResolvedOf(platform, o) THEN {"main_switch"} ELSE {}
  BY TheCapability, WhenResolved DEF ResolvedOf
<1>3. Superseded(p, o) = Superseded(p, {})
  BY DEF Superseded
<1>4. ASSUME NEW s PROVE s \in generic <=> OfferedOf(s, platform, p, o)
  <2>1. ASSUME s \in o \cap p, PlatformOf(s) = platform, s \notin Superseded(p, {}), NEW t \in built
        PROVE  s \notin t.claims
    <3>1. ~KeptBeside(s, t.platform)
      BY <2>1 DEF KeptBeside
    <3> QED  BY <2>1, <3>1, ClaimedIsSuperseded
  <2>2. ASSUME s \in o \cap p, PlatformOf(s) = platform
        PROVE  s \in UNION {Candidates(k) \cap o : k \in keys} <=> s \in Candidates("main_switch")
    <3>1. s \in Candidates("main_switch") => ResolvedOf(platform, o)
      BY <2>2, TheCapability DEF ResolvedOf
    <3> QED  BY <1>2, <2>2, <3>1
  <2>3. platform # "none"
    BY DEF Platforms
  <2>4. s \in claimed <=> (\E t \in built : s \in t.claims \cap o) \/ s \in UNION {Candidates(k) \cap o : k \in keys}
    <3> HIDE DEF keys, built
    <3> QED  OBVIOUS
  <2>5. s \in generic <=> /\ s \in o \cap p /\ s \notin claimed /\ PlatformOf(s) = platform
                          /\ ~HiddenByDefault(s) /\ s \notin Superseded(p, {})
    BY <1>3
  <2> HIDE DEF generic, claimed, keys, built
  <2> QED  BY <2>1, <2>2, <2>3, <2>4, <2>5 DEF OfferedOf, Offered
<1>5. \A t : t \in built <=> BuiltOf(t, platform, p, o)
  BY DEF BuiltOf
<1> HIDE DEF built, keys, generic
<1> QED  BY <1>1, <1>2, <1>4, <1>5

(* The ids of the entities of a platform. *)
IdOf(id, platform, p, o) ==
    \/ \E t : BuiltOf(t, platform, p, o) /\ id = t.id
    \/ ResolvedOf(platform, o) /\ id = "main_switch"
    \/ OfferedOf(id, platform, p, o)

\* What an entity was made of is what it is known by.
LEMMA WhatEntitiesAre ==
    /\ \A t, o : Rich(t, o).of = t.id /\ Rich(t, o).platform = t.platform
                 /\ Rich(t, o).slots = t.claims \ (t.options \ o)
    /\ \A o : LET e == Canonical("main_switch", o)
              IN  e.of = "main_switch" /\ e.platform = "switch" /\ e.slots = Candidates("main_switch") \cap o
    /\ \A s : Generic(s).of = s /\ Generic(s).platform = PlatformOf(s) /\ Generic(s).slots = {s}
BY TheCapability DEF Rich, Canonical, Generic

\* The ids of a discovery.
LEMMA DiscoversIds ==
    ASSUME NEW v, NEW p, NEW o, Reported(v, p, o), NEW platform \in Platforms, NEW id
    PROVE  id \in Ids(Discover(platform, p, o)) <=> IdOf(id, platform, p, o)
<1>1. id \in Ids(Discover(platform, p, o)) <=> \E e \in Discover(platform, p, o) : id = e.of
  BY DEF Ids
<1> QED  BY <1>1, Discovers, WhatEntitiesAre DEF IdOf

\* More reports never take an entity away.
LEMMA IdsGrow ==
    ASSUME NEW v, NEW p, NEW o, NEW more, Reported(v, p, more), o \subseteq more,
           NEW platform \in Platforms, NEW id, IdOf(id, platform, p, o)
    PROVE  IdOf(id, platform, p, more)
BY DEF IdOf, BuiltOf, ResolvedOf, OfferedOf, Built, Meets

\* An entity that new reports make is one of a platform that they may affect.
LEMMA NewIdsAreAffected ==
    ASSUME NEW v, NEW p, NEW o, NEW new, Reported(v, p, o \cup new),
           NEW platform \in Platforms, NEW id, IdOf(id, platform, p, o \cup new), ~IdOf(id, platform, p, o)
    PROVE  Affects(platform, p, new)
<1>1. CASE OfferedOf(id, platform, p, o \cup new)
  BY <1>1 DEF IdOf, OfferedOf, Affects
<1>2. CASE ResolvedOf(platform, o \cup new) /\ id = "main_switch"
  BY <1>2, TheCapability DEF IdOf, ResolvedOf, Affects
<1>3. ASSUME NEW t, BuiltOf(t, platform, p, o \cup new), id = t.id PROVE Affects(platform, p, new)
  <2>1. t \in Templates /\ t.platform = platform /\ t \in Fitting(p)
    BY <1>3, BuiltFits DEF BuiltOf
  <2>2. PICK s \in new : s \in t.needs \cup t.any
    BY <1>3 DEF IdOf, BuiltOf, Built, Meets
  <2>3. PICK c \in t.claims : c \in p
    BY <2>1, TheTemplates DEF Fitting, Meets
  <2>4. SameComponent(c, s)
    BY <2>1, <2>2, <2>3, TheTemplates DEF SameComponent
  <2>5. [slot |-> c, platform |-> platform] \in RichClaims(p)
    <3>1. [slot |-> c, platform |-> platform] \in [slot : t.claims \cap p, platform : {t.platform}]
      BY <2>1, <2>3
    <3> QED  BY <2>1, <3>1 DEF RichClaims
  <2> QED  BY <2>2, <2>4, <2>5 DEF Affects
<1> QED  BY <1>1, <1>2, <1>3 DEF IdOf

\* What may affect a platform still may when more is reported; nothing does not.
LEMMA AffectsGrows ==
    \A platform, p, new, more : /\ Affects(platform, p, new) => Affects(platform, p, new \cup more)
                                /\ ~Affects(platform, p, {})
BY DEF Affects

---------------------------------------------------------------------------
(* The invariant.                                                          *)

(* An entity that was added was discovered, perhaps when less was reported. *)
Added(e) ==
    \E platform \in PlatformsOf(buses), o \in SUBSET observed :
        \/ \E t : BuiltOf(t, platform, pack, o) /\ e = Rich(t, o)
        \/ ResolvedOf(platform, o) /\ e = Canonical("main_switch", o)
        \/ \E s : OfferedOf(s, platform, pack, o) /\ e = Generic(s)

RegistryTyped ==
    /\ buses \in Vehicles /\ pack \in Packs(buses)
    /\ observed \in SUBSET AllSlots(buses) /\ due \in SUBSET observed
    /\ stage \in {"off", "cleaned", "added", "up"} /\ debug \in BOOLEAN /\ quiet \in BOOLEAN
    /\ registry \in [DOMAIN registry -> Records]
    /\ reloads \in 0..MaxReloads /\ edits \in 0..MaxEdits /\ frames \in 0..MaxFrames
(* The entities; what a platform lacks is due. *)
LiveWell ==
    /\ \A e \in live : Added(e)
    /\ \A e, f \in live : e.of = f.of => e = f
    /\ stage \in {"added", "up"} =>
           \A platform \in PlatformsOf(buses) :
               Ids(Discover(platform, pack, observed)) \subseteq Ids(live) \/ Affects(platform, pack, due)
(* The registry: nothing superseded, and after a pass what the pass makes. *)
Policed(uid) ==
    IF ~IsSlot(uid) THEN NamePolicy(uid) ELSE IF uid \in pack THEN GenericPolicy(uid) ELSE registry[uid]
QuietIsPoliced == quiet => stage = "up" /\ \A uid \in DOMAIN registry : registry[uid] = Policed(uid)
RegistryInv == RegistryTyped /\ LiveWell /\ SupersededAreGone /\ QuietIsPoliced

\* The platforms of a vehicle are platforms, and those of its templates.
LEMMA ThePlatforms ==
    ASSUME NEW v, v \subseteq DOMAIN Buses
    PROVE  /\ PlatformsOf(v) \subseteq Platforms
           /\ \A s \in AllSlots(v) : PlatformOf(s) # "none" => PlatformOf(s) \in PlatformsOf(v)
           /\ \A t \in Templates : t.claims \cap AllSlots(v) # {} => t.platform \in PlatformsOf(v)
<1>1. \A s : PlatformOf(s) \in Platforms \cup {"none"}
  BY DEF PlatformOf, Platforms
<1>2. \A t \in Templates : t.platform \in Platforms
  BY TheTemplates DEF Platforms
<1>3. PlatformsOf(v) \subseteq Platforms
  BY <1>1, <1>2 DEF PlatformsOf
<1>4. \A s \in AllSlots(v) : PlatformOf(s) # "none" => PlatformOf(s) \in PlatformsOf(v)
  BY DEF PlatformsOf
<1>5. ASSUME NEW t \in Templates, t.claims \cap AllSlots(v) # {} PROVE t.platform \in PlatformsOf(v)
  <2>1. PICK s \in t.claims, bus \in v : s \in SlotsOf(bus)
    BY <1>5 DEF AllSlots
  <2>2. PICK b \in DOMAIN Buses : t.claims \subseteq SlotsOf(b)
    BY TheTemplates
  <2>3. t.claims \subseteq SlotsOf(bus)
    BY <2>1, <2>2, OneBus
  <2>4. t.claims \subseteq AllSlots(v)
    BY <2>1, <2>3 DEF AllSlots
  <2> QED  BY <2>4 DEF PlatformsOf
<1> QED  BY <1>3, <1>4, <1>5

\* The state is one of a vehicle, its pack, and its reports.
LEMMA StateIsReported == RegistryTyped => /\ buses \subseteq DOMAIN Buses /\ PlatformsOf(buses) \subseteq Platforms
                                  /\ \A o : o \subseteq observed => Reported(buses, pack, o)
BY RegistryAssumption, ThePlatforms DEF RegistryTyped, Reported

\* What the discovery of this moment finds.
LEMMA DiscoveredIds ==
    ASSUME RegistryTyped, NEW e
    PROVE  e \in Discovered <=> \E platform \in PlatformsOf(buses) : e \in Discover(platform, pack, observed)
BY DEF Discovered

\* A discovered entity may be added.
LEMMA DiscoveredMayBeAdded ==
    ASSUME RegistryTyped, NEW platform \in PlatformsOf(buses), NEW e \in Discover(platform, pack, observed)
    PROVE  Added(e)
<1>1. Reported(buses, pack, observed) /\ platform \in Platforms /\ observed \in SUBSET observed
  BY StateIsReported
<1> QED  BY <1>1, Discovers DEF Added

\* The ids of what was added are those of what would be now.
LEMMA AddedIsDiscovered ==
    ASSUME RegistryTyped, NEW e, Added(e)
    PROVE  e.of \in Ids(Discovered)
<1>1. PICK platform \in PlatformsOf(buses), o \in SUBSET observed :
         \/ \E t : BuiltOf(t, platform, pack, o) /\ e = Rich(t, o)
         \/ ResolvedOf(platform, o) /\ e = Canonical("main_switch", o)
         \/ \E s : OfferedOf(s, platform, pack, o) /\ e = Generic(s)
  BY DEF Added
<1>2. Reported(buses, pack, observed) /\ platform \in Platforms
  BY StateIsReported
<1>3. IdOf(e.of, platform, pack, o)
  BY <1>1, WhatEntitiesAre DEF IdOf
<1>4. IdOf(e.of, platform, pack, observed)
  BY <1>2, <1>3, IdsGrow
<1>5. e.of \in Ids(Discover(platform, pack, observed))
  BY <1>2, <1>4, DiscoversIds
<1> QED  BY <1>5, DiscoveredIds DEF Ids

\* Two discovered entities with one id are one: templates, the capability and
\* the slots have ids of their own, and each is discovered on its platform.
LEMMA DiscoveredDiffer ==
    ASSUME RegistryTyped, NEW e \in Discovered, NEW f \in Discovered, e.of = f.of
    PROVE  e = f
<1>1. PICK p \in PlatformsOf(buses) : e \in Discover(p, pack, observed)
  BY DiscoveredIds
<1>2. PICK q \in PlatformsOf(buses) : f \in Discover(q, pack, observed)
  BY DiscoveredIds
<1>3. Reported(buses, pack, observed) /\ p \in Platforms /\ q \in Platforms /\ observed \subseteq KnownSlots
  BY StateIsReported DEF RegistryTyped, AllSlots, KnownSlots
<1>4. \/ \E t : BuiltOf(t, p, pack, observed) /\ e = Rich(t, observed)
      \/ e = Canonical("main_switch", observed)
      \/ \E s \in KnownSlots : e = Generic(s)
  BY <1>1, <1>3, Discovers DEF OfferedOf
<1>5. \/ \E t : BuiltOf(t, q, pack, observed) /\ f = Rich(t, observed)
      \/ f = Canonical("main_switch", observed)
      \/ \E s \in KnownSlots : f = Generic(s)
  BY <1>2, <1>3, Discovers DEF OfferedOf
<1>6. \A t \in Templates : t.id \notin KnownSlots /\ t.id # "main_switch"
  BY TheTemplates, TheCapability
<1> QED  BY <1>4, <1>5, <1>6, WhatEntitiesAre, TemplatesDiffer, TheCapability DEF BuiltOf

---------------------------------------------------------------------------
(* What the steps do to the registry.                                      *)

\* A record keeps its shape under the policies and when its entity is added.
LEMMA RecordsStayRecords ==
    ASSUME RegistryTyped, NEW uid
    PROVE  /\ Entered(uid) \in Records /\ Entered(uid).device = "root"
           /\ uid \in DOMAIN registry =>
                 /\ Policed(uid) \in Records /\ Policed(uid).device = registry[uid].device
                 /\ Entered(uid).name = registry[uid].name /\ Entered(uid).disabled = registry[uid].disabled
                 /\ registry[uid].name = "user" => Policed(uid).name = "user"
                 /\ registry[uid].disabled = "user" => Policed(uid).disabled = "user"
<1>1. uid \in DOMAIN registry => registry[uid] \in Records
  BY DEF RegistryTyped
<1>2. Entered(uid) \in Records /\ Entered(uid).device = "root"
  BY <1>1 DEF Entered, Records, Disablers
<1>3. ASSUME uid \in DOMAIN registry
      PROVE  Entered(uid).name = registry[uid].name /\ Entered(uid).disabled = registry[uid].disabled
  BY <1>1, <1>3 DEF Entered, Records
<1>4. ASSUME uid \in DOMAIN registry
      PROVE  /\ NamePolicy(uid) \in Records /\ NamePolicy(uid).device = registry[uid].device
             /\ NamePolicy(uid).name = registry[uid].name /\ NamePolicy(uid).disabled = registry[uid].disabled
  BY <1>1, <1>4 DEF NamePolicy, Records
<1>5. ASSUME uid \in DOMAIN registry
      PROVE  /\ GenericPolicy(uid) \in Records /\ GenericPolicy(uid).device = registry[uid].device
             /\ GenericPolicy(uid).name = Named(uid) /\ GenericPolicy(uid).disabled = Disabled(uid)
    <2>1. Named(uid) \in {"none", "catalog", "user"} /\ Disabled(uid) \in Disablers
      BY <1>1, <1>5 DEF Named, Disabled, Records, Disablers
    <2> QED  BY <1>1, <1>5, <2>1 DEF GenericPolicy, Records
<1>6. /\ registry[uid].name = "user" => Named(uid) = "user"
      /\ registry[uid].disabled = "user" => Disabled(uid) = "user"
  BY DEF Named, Disabled
<1> QED  BY <1>1, <1>2, <1>3, <1>4, <1>5, <1>6 DEF Policed

\* A pass over the registry.
LEMMA PoliciesPolice == ASSUME Policies PROVE registry' = [uid \in DOMAIN registry |-> Policed(uid)]
BY DEF Policies, Policed

\* A pass leaves what a pass has made.
LEMMA PolicedTwice ==
    ASSUME RegistryTyped, Policies, UNCHANGED <<pack, debug>>, NEW uid \in DOMAIN registry
    PROVE  Policed(uid)' = registry'[uid]
<1>1. registry[uid] \in Records /\ registry'[uid] = Policed(uid)
  BY PoliciesPolice DEF RegistryTyped
<1>2. CASE ~IsSlot(uid)
  BY <1>1, <1>2 DEF Policed, NamePolicy, Records
<1>3. CASE IsSlot(uid) /\ uid \notin pack
  BY <1>1, <1>3 DEF Policed
<1>4. CASE IsSlot(uid) /\ uid \in pack
  <2>1. registry'[uid] = GenericPolicy(uid) /\ Policed(uid)' = GenericPolicy(uid)'
    BY <1>1, <1>4 DEF Policed
  <2>2. /\ registry'[uid].name = Named(uid) /\ registry'[uid].disabled = Disabled(uid)
        /\ registry'[uid].original = IF HasNameOverride(uid) THEN "current" ELSE registry[uid].original
        /\ registry'[uid].hidden = IF HiddenByDefault(uid) THEN registry[uid].hidden ELSE FALSE
    <3>1. registry'[uid] = [original |-> IF HasNameOverride(uid) THEN "current" ELSE registry[uid].original,
                            name |-> Named(uid), disabled |-> Disabled(uid),
                            hidden |-> IF HiddenByDefault(uid) THEN registry[uid].hidden ELSE FALSE,
                            device |-> registry[uid].device]
      BY <1>1, <2>1 DEF GenericPolicy, Records
    <3> QED  BY <3>1
  <2>3. Named(uid)' = registry'[uid].name
    BY <2>2 DEF Named
  <2>4. Disabled(uid)' = registry'[uid].disabled
    <3>1. Wanted(uid)' = Wanted(uid)
      BY DEF Wanted
    <3> QED  BY <2>2, <3>1 DEF Disabled
  <2>5. GenericPolicy(uid)' = registry'[uid]
    <3>1. registry'[uid] \in Records
      BY <1>1, <2>1, RecordsStayRecords
    <3> QED  BY <2>2, <2>3, <2>4, <3>1 DEF GenericPolicy, Records
  <2> QED  BY <2>1, <2>5
<1> QED  BY <1>2, <1>3, <1>4

\* Entities with ids that nothing supersedes are entered.
LEMMA EnteredWell ==
    ASSUME RegistryTyped, SupersededAreGone, stage # "off", NEW ids, Enter(ids), UNCHANGED pack,
           ids \cap (Superseded(pack, observed) \cup LegacyIds) = {}
    PROVE  /\ registry' \in [DOMAIN registry' -> Records]
           /\ SupersededAreGone'
           /\ ids = {} => registry' = registry
           /\ \A uid \in DOMAIN registry : /\ uid \in DOMAIN registry'
                                           /\ registry'[uid].name = registry[uid].name
                                           /\ registry'[uid].disabled = registry[uid].disabled
<1>1. registry' = [uid \in DOMAIN registry \cup ids |-> IF uid \in ids THEN Entered(uid) ELSE registry[uid]]
  BY DEF Enter
<1>2. Superseded(pack, observed)' = Superseded(pack, observed)
  BY DEF Superseded
<1>3. \A uid \in DOMAIN registry : registry[uid] \in Records /\ registry[uid].device = "root"
  BY DEF RegistryTyped, SupersededAreGone
<1>4. \A uid \in DOMAIN registry' : registry'[uid] \in Records /\ registry'[uid].device = "root"
  BY <1>1, <1>3, RecordsStayRecords
<1>5. DOMAIN registry' = DOMAIN registry \cup ids
  BY <1>1
<1>6. SupersededAreGone'
  BY <1>2, <1>4, <1>5 DEF SupersededAreGone
<1>7. ids = {} => registry' = registry
  BY <1>1 DEF RegistryTyped
<1>8. registry' \in [DOMAIN registry' -> Records]
  BY <1>1, <1>4
<1>9. ASSUME NEW uid \in DOMAIN registry
      PROVE  registry'[uid].name = registry[uid].name /\ registry'[uid].disabled = registry[uid].disabled
  BY <1>1, RecordsStayRecords
<1> QED  BY <1>5, <1>6, <1>7, <1>8, <1>9

\* Nothing discovered is superseded or a legacy entity.
LEMMA DiscoveredIsNotSuperseded ==
    RegistryTyped => Ids(Discovered) \cap (Superseded(pack, observed) \cup LegacyIds) = {}
<1> SUFFICES ASSUME RegistryTyped, NEW id \in Ids(Discovered)
             PROVE  id \notin Superseded(pack, observed) /\ id \notin LegacyIds
    OBVIOUS
<1>1. PICK platform \in PlatformsOf(buses) : id \in Ids(Discover(platform, pack, observed))
  BY DiscoveredIds DEF Ids
<1>2. Reported(buses, pack, observed) /\ platform \in Platforms /\ observed \subseteq KnownSlots /\ pack \subseteq KnownSlots
  BY StateIsReported, ThePack DEF RegistryTyped, AllSlots, KnownSlots
<1>3. IdOf(id, platform, pack, observed)
  BY <1>1, <1>2, DiscoversIds
<1>4. Superseded(pack, observed) = Superseded(pack, {}) /\ Superseded(pack, observed) \subseteq KnownSlots
  BY <1>2 DEF Superseded, RichClaims
<1> QED  BY <1>2, <1>3, <1>4, TheTemplates, TheCapability DEF IdOf, BuiltOf, OfferedOf, Offered, LegacyIds

---------------------------------------------------------------------------
(* Every step keeps the invariant.                                         *)

\* What a pass makes of an entry depends on the entry, the pack and the options.
LEMMA PolicedSame ==
    ASSUME UNCHANGED <<registry, pack, debug>>
    PROVE  \A uid : Policed(uid)' = Policed(uid)
BY DEF Policed, NamePolicy, GenericPolicy, Named, Disabled, Wanted

\* At first there are no entities, and nothing of the registry is of this setup.
LEMMA RegistryStarts == RegistryInit => RegistryInv
<1> SUFFICES ASSUME RegistryInit PROVE RegistryInv
    OBVIOUS
<1>1. Old \in Records
  BY DEF Old, Records, Disablers
<1>2. RegistryTyped
  <2>1. PICK ids \in {{}, OldIds(buses)} : registry = [uid \in ids |-> Old]
    BY DEF RegistryInit
  <2>2. registry \in [DOMAIN registry -> Records]
    BY <1>1, <2>1
  <2>3. 0 \in 0..MaxReloads /\ 0 \in 0..MaxEdits /\ 0 \in 0..MaxFrames
    BY RegistryAssumption
  <2> HIDE DEF Old
  <2> QED  BY <2>2, <2>3 DEF RegistryInit, RegistryTyped
<1> QED  BY <1>2 DEF RegistryInit, RegistryInv, LiveWell, SupersededAreGone, QuietIsPoliced

\* The clean-up of a set-up: what is superseded is gone, and nothing is live yet.
LEMMA CleanKeeps == RegistryInv /\ Clean => RegistryInv'
<1> SUFFICES ASSUME RegistryInv, Clean PROVE RegistryInv'
    OBVIOUS
<1> USE DEF env
<1> DEFINE gone == Superseded(pack, observed) \cup LegacyIds
<1>1. registry' = [uid \in DOMAIN registry \ gone |-> [registry[uid] EXCEPT !.device = "root"]]
  BY DEF Clean, Without
<1>2. \A uid \in DOMAIN registry' : registry'[uid] \in Records /\ registry'[uid].device = "root"
  BY <1>1 DEF RegistryInv, RegistryTyped, Records
<1>3. registry' \in [DOMAIN registry' -> Records]
  BY <1>1, <1>2
<1>4. RegistryTyped'
  BY <1>3 DEF RegistryInv, RegistryTyped, Clean
<1>5. gone' = gone
  BY DEF Clean, Superseded
<1>6. DOMAIN registry' \cap gone = {}
  BY <1>1
<1>7. SupersededAreGone'
  BY <1>2, <1>5, <1>6 DEF SupersededAreGone
<1>8. LiveWell' /\ QuietIsPoliced'
  BY DEF RegistryInv, LiveWell, QuietIsPoliced, Clean, Added
<1> QED  BY <1>4, <1>7, <1>8 DEF RegistryInv

\* The platforms are set up: every discovered entity is live and entered.
LEMMA SetUpPlatformsKeeps == RegistryInv /\ SetUpPlatforms => RegistryInv'
<1> SUFFICES ASSUME RegistryInv, SetUpPlatforms PROVE RegistryInv'
    OBVIOUS
<1> USE DEF env
<1>1. RegistryTyped /\ stage # "off" /\ ~quiet /\ UNCHANGED <<buses, pack, observed, debug, quiet>> /\ live' = Discovered
  BY DEF RegistryInv, SetUpPlatforms, QuietIsPoliced
<1>2. registry' \in [DOMAIN registry' -> Records] /\ SupersededAreGone'
  BY <1>1, EnteredWell, DiscoveredIsNotSuperseded DEF RegistryInv, SetUpPlatforms
<1>3. RegistryTyped'
  BY <1>2 DEF RegistryInv, RegistryTyped, SetUpPlatforms
<1>4. LiveWell'
  <2>1. \A e \in live' : Added(e)'
    <3>1. \A e \in Discovered : Added(e)
      BY <1>1, DiscoveredIds, DiscoveredMayBeAdded
    <3> QED  BY <1>1, <3>1 DEF Added
  <2>2. \A e, f \in live' : e.of = f.of => e = f
    BY <1>1, DiscoveredDiffer
  <2>3. \A platform \in PlatformsOf(buses) : Ids(Discover(platform, pack, observed)) \subseteq Ids(live')
    BY <1>1, DiscoveredIds DEF Ids
  <2> QED  BY <1>1, <2>1, <2>2, <2>3 DEF LiveWell
<1>5. QuietIsPoliced'
  BY <1>1 DEF QuietIsPoliced
<1> QED  BY <1>2, <1>3, <1>4, <1>5 DEF RegistryInv

\* A pass over the registry.
LEMMA PassKeeps ==
    ASSUME RegistryInv, Policies, stage \in {"added", "up"}, stage' = "up", quiet' = TRUE,
           UNCHANGED <<env, observed, due, live, edits, frames>>
    PROVE  RegistryInv'
<1> USE DEF env
<1>1. registry' = [uid \in DOMAIN registry |-> Policed(uid)] /\ RegistryTyped
  BY PoliciesPolice DEF RegistryInv
<1>2. \A uid \in DOMAIN registry : registry'[uid] \in Records /\ registry'[uid].device = "root"
  BY <1>1, RecordsStayRecords DEF RegistryInv, SupersededAreGone
<1>3. registry' \in [DOMAIN registry' -> Records]
  BY <1>1, <1>2
<1>4. RegistryTyped'
  BY <1>1, <1>3 DEF RegistryTyped
<1>5. LiveWell'
  <2>1. \A e \in live : Added(e)' <=> Added(e)
    BY DEF Added
  <2> QED  BY <2>1 DEF RegistryInv, LiveWell
<1>6. SupersededAreGone'
  BY <1>1, <1>2 DEF RegistryInv, SupersededAreGone, Superseded
<1>7. QuietIsPoliced'
  <2>1. \A uid \in DOMAIN registry' : registry'[uid] = Policed(uid)'
    BY <1>1, PolicedTwice
  <2> QED  BY <2>1 DEF QuietIsPoliced
<1> QED  BY <1>4, <1>5, <1>6, <1>7 DEF RegistryInv

\* A frame: new slots, which are due once the platforms are there.
LEMMA FrameKeepsRegistry == ASSUME RegistryInv, NEW new \in SUBSET AllSlots(buses), Frame(new) PROVE RegistryInv'
<1> USE DEF env
<1>1. /\ RegistryTyped /\ observed' = observed \cup new /\ UNCHANGED <<buses, pack, debug, stage, live, registry, quiet>>
      /\ due' = IF stage \in {"added", "up"} THEN due \cup new ELSE due
  BY DEF RegistryInv, Frame
<1>2. RegistryTyped'
  BY RegistryAssumption DEF RegistryInv, RegistryTyped, Frame
<1>3. LiveWell'
  <2>1. \A e \in live' : Added(e)'
    BY <1>1 DEF RegistryInv, LiveWell, Added
  <2>2. ASSUME stage \in {"added", "up"}, NEW platform \in PlatformsOf(buses),
               NEW id \in Ids(Discover(platform, pack, observed \cup new)), id \notin Ids(live)
        PROVE  Affects(platform, pack, due \cup new)
    <3>1. /\ Reported(buses, pack, observed \cup new) /\ Reported(buses, pack, observed)
          /\ platform \in Platforms
      BY <1>1, StateIsReported DEF Reported
    <3>2. IdOf(id, platform, pack, observed \cup new)
      BY <2>2, <3>1, DiscoversIds
    <3>3. CASE IdOf(id, platform, pack, observed)
      <4>1. id \in Ids(Discover(platform, pack, observed))
        BY <3>1, <3>3, DiscoversIds
      <4>2. Affects(platform, pack, due)
        BY <2>2, <4>1 DEF RegistryInv, LiveWell
      <4> QED  BY <4>2, AffectsGrows
    <3>4. CASE ~IdOf(id, platform, pack, observed)
      <4>1. Affects(platform, pack, new)
        BY <3>1, <3>2, <3>4, NewIdsAreAffected
      <4>2. due \cup new = new \cup due
        OBVIOUS
      <4> QED  BY <4>1, <4>2, AffectsGrows
    <3> QED  BY <3>3, <3>4
  <2> QED  BY <1>1, <2>1, <2>2 DEF RegistryInv, LiveWell
<1>4. SupersededAreGone'
  BY <1>1 DEF RegistryInv, SupersededAreGone, Superseded
<1>5. QuietIsPoliced'
  BY <1>1, PolicedSame DEF RegistryInv, QuietIsPoliced
<1> QED  BY <1>2, <1>3, <1>4, <1>5 DEF RegistryInv

\* A refresh adds what the new slots make, and nothing it adds is superseded.
LEMMA RefreshKeeps ==
    ASSUME RegistryInv, Refresh
    PROVE  /\ RegistryInv'
           /\ \A uid \in DOMAIN registry : /\ uid \in DOMAIN registry'
                                           /\ registry'[uid].name = registry[uid].name
                                           /\ registry'[uid].disabled = registry[uid].disabled
           /\ quiet' => registry' = registry
<1> USE DEF env
<1> DEFINE found == UNION {Discover(p, pack, observed) : p \in {p \in PlatformsOf(buses) : Affects(p, pack, due)}}
           added == Additions(found)
<1>1. /\ RegistryTyped /\ stage = "up" /\ UNCHANGED <<buses, pack, observed, debug, stage>> /\ due' = {}
      /\ live' = live \cup added /\ Enter(Ids(added)) /\ quiet' = (quiet /\ added = {})
  BY DEF RegistryInv, Refresh
<1>2. \A e : e \in found <=> \E p \in PlatformsOf(buses) : Affects(p, pack, due) /\ e \in Discover(p, pack, observed)
  OBVIOUS
<1>3. \A e \in added : e \in Discovered /\ e.of \notin Ids(live)
  BY <1>1, <1>2, DiscoveredIds DEF Additions
<1>4. \A e \in found : e.of \in Ids(live) \/ e \in added
  BY DEF Additions
<1> HIDE DEF found, added
<1>5. Ids(added) \cap (Superseded(pack, observed) \cup LegacyIds) = {}
  BY <1>1, <1>3, DiscoveredIsNotSuperseded DEF Ids
<1>6. /\ registry' \in [DOMAIN registry' -> Records]
      /\ SupersededAreGone'
      /\ Ids(added) = {} => registry' = registry
      /\ \A uid \in DOMAIN registry : /\ uid \in DOMAIN registry'
                                      /\ registry'[uid].name = registry[uid].name
                                      /\ registry'[uid].disabled = registry[uid].disabled
  BY <1>1, <1>5, EnteredWell DEF RegistryInv
<1>7. RegistryTyped'
  BY <1>1, <1>6 DEF RegistryInv, RegistryTyped, Refresh
<1>8. LiveWell'
  <2>1. \A e \in live' : Added(e)'
    <3>1. \A e \in added : Added(e)
      BY <1>1, <1>3, DiscoveredIds, DiscoveredMayBeAdded
    <3> QED  BY <1>1, <3>1 DEF RegistryInv, LiveWell, Added
  <2>2. \A e, f \in live' : e.of = f.of => e = f
    BY <1>1, <1>3, DiscoveredDiffer DEF RegistryInv, LiveWell, Ids
  <2>3. ASSUME NEW platform \in PlatformsOf(buses)
        PROVE  Ids(Discover(platform, pack, observed)) \subseteq Ids(live')
    BY <1>1, <1>2, <1>4 DEF RegistryInv, LiveWell, Ids
  <2> QED  BY <1>1, <2>1, <2>2, <2>3 DEF LiveWell
<1>9. quiet' => registry' = registry
  BY <1>1, <1>6 DEF Ids
<1>10. QuietIsPoliced'
  BY <1>1, <1>9, PolicedSame DEF RegistryInv, QuietIsPoliced
<1> QED  BY <1>6, <1>7, <1>8, <1>9, <1>10 DEF RegistryInv

\* What the user changes is a record again, and no longer what the policies left.
LEMMA EditKeeps ==
    ASSUME RegistryInv, NEW uid \in DOMAIN registry, NEW change \in Edits(registry[uid]), Edit(uid, change)
    PROVE  RegistryInv'
<1> USE DEF env
<1>1. registry[uid] \in Records
  BY DEF RegistryInv, RegistryTyped
<1>2. change \in Records /\ change.device = registry[uid].device
  BY <1>1 DEF Edits, Records, Disablers
<1>3. registry' = [registry EXCEPT ![uid] = change]
  BY DEF Edit
<1>4. RegistryTyped'
  <2>1. registry' \in [DOMAIN registry' -> Records]
    BY <1>2, <1>3 DEF RegistryInv, RegistryTyped
  <2>2. edits' \in 0..MaxEdits
    BY RegistryAssumption DEF RegistryInv, RegistryTyped, Edit
  <2> QED  BY <2>1, <2>2 DEF RegistryInv, RegistryTyped, Edit
<1>5. LiveWell' /\ QuietIsPoliced'
  BY DEF RegistryInv, LiveWell, QuietIsPoliced, Edit, Added
<1>6. SupersededAreGone'
  BY <1>2, <1>3 DEF RegistryInv, RegistryTyped, SupersededAreGone, Edit, Superseded
<1> QED  BY <1>4, <1>5, <1>6 DEF RegistryInv

\* A reload forgets the slots and the entities.
LEMMA ReloadKeeps == ASSUME RegistryInv, Reload PROVE RegistryInv'
<1>1. reloads' \in 0..MaxReloads
  BY RegistryAssumption DEF RegistryInv, RegistryTyped, Reload
<1>2. RegistryTyped'
  BY <1>1 DEF RegistryInv, RegistryTyped, Reload
<1> QED  BY <1>2 DEF RegistryInv, LiveWell, SupersededAreGone, QuietIsPoliced, Reload

\* The invariant is inductive.
LEMMA RegistryStep == RegistryInv /\ [RegistryNext]_registryVars => RegistryInv'
<1> SUFFICES ASSUME RegistryInv, [RegistryNext]_registryVars PROVE RegistryInv'
    OBVIOUS
<1>1. CASE SetUp \/ PoliciesAgain
  BY <1>1, PassKeeps DEF SetUp, PoliciesAgain
<1>2. ASSUME NEW new \in SUBSET AllSlots(buses), Frame(new) PROVE RegistryInv'
  BY <1>2, FrameKeepsRegistry
<1>3. ASSUME NEW uid \in DOMAIN registry, NEW change \in Edits(registry[uid]), Edit(uid, change) PROVE RegistryInv'
  BY <1>3, EditKeeps
<1>4. CASE UNCHANGED registryVars
  BY <1>4, PolicedSame DEF registryVars, RegistryInv, RegistryTyped, LiveWell, Added, SupersededAreGone, Superseded, QuietIsPoliced
<1> QED  BY <1>1, <1>2, <1>3, <1>4, CleanKeeps, SetUpPlatformsKeeps, RefreshKeeps, ReloadKeeps DEF RegistryNext

---------------------------------------------------------------------------
(* The theorems.                                                           *)

\* The invariant holds in every reachable state.
LEMMA RegistryInvariant == RegistrySpec => []RegistryInv
BY RegistryStarts, RegistryStep, PTL DEF RegistrySpec

\* An entity that was added has a template, the capability, or a slot to itself.
LEMMA WhatIsAdded ==
    ASSUME RegistryInv, NEW e \in live
    PROVE  \/ \E t \in Templates, o \in SUBSET observed :
                 Built(t, pack, o) /\ e.of = t.id /\ e.platform = t.platform /\ e.slots = t.claims \ (t.options \ o)
           \/ e.of = "main_switch" /\ e.slots \subseteq Candidates("main_switch")
           \/ e.of \in observed \cap pack /\ Offered(e.of, pack) /\ e.slots = {e.of}
<1>1. Added(e)
  BY DEF RegistryInv, LiveWell
<1> QED  BY <1>1, WhatEntitiesAre DEF Added, BuiltOf, OfferedOf

\* What is added has a platform, and slots that the catalog knows.
LEMMA AddedIsWell ==
    ASSUME RegistryInv, NEW e \in live
    PROVE  e.platform \in Platforms /\ e.slots \subseteq KnownSlots
<1>1. RegistryTyped /\ observed \subseteq KnownSlots
  BY StateIsReported DEF RegistryInv, RegistryTyped, AllSlots, KnownSlots
<1>2. \A t \in Templates : t.claims \subseteq KnownSlots
  BY TheTemplates DEF KnownSlots, AllSlots
<1>3. e.slots \subseteq KnownSlots
  BY <1>1, <1>2, WhatIsAdded, TheCapability
<1>4. e.platform \in Platforms
  <2>1. Added(e)
    BY DEF RegistryInv, LiveWell
  <2>2. PlatformsOf(buses) \subseteq Platforms
    BY <1>1, StateIsReported
  <2> QED  BY <2>1, <2>2, WhatEntitiesAre DEF Added, BuiltOf, ResolvedOf, OfferedOf, Platforms
<1> QED  BY <1>3, <1>4

(* The types: the entities that are added have a platform of Home Assistant's and
   slots of the catalog, the registry's entries the shape it stores. *)
THEOREM RegistryTypes == RegistrySpec => []RegistryTypeOK
<1>1. RegistryInv => RegistryTypeOK
  BY AddedIsWell DEF RegistryInv, RegistryTyped, RegistryTypeOK
<1> QED  BY <1>1, RegistryInvariant, PTL

\* With nothing due the entities are those of a fresh set-up.
LEMMA LiveIsDiscovered == ASSUME RegistryInv, UpToDate PROVE Ids(live) = Ids(Discovered)
<1>1. RegistryTyped /\ stage = "up" /\ due = {}
  BY DEF RegistryInv, UpToDate
<1>2. \A e \in live : e.of \in Ids(Discovered)
  BY <1>1, AddedIsDiscovered DEF RegistryInv, LiveWell
<1>3. \A platform \in PlatformsOf(buses) : Ids(Discover(platform, pack, observed)) \subseteq Ids(live)
  BY <1>1, AffectsGrows DEF RegistryInv, LiveWell
<1>4. \A e \in Discovered : e.of \in Ids(live)
  BY <1>1, <1>3, DiscoveredIds DEF Ids
<1> QED  BY <1>2, <1>4 DEF Ids

(* Slots reported in any order and any grouping, before, while or after the
   platforms are set up, leave the entities that a set-up with all of them known
   makes: the platforms that a refresh skips had nothing to gain, and a template
   that is built later claims nothing that a generic entity was made of. *)
THEOREM LiveIsFresh == RegistrySpec => []LiveIsWhatAFreshSetupMakes
<1>1. RegistryInv => LiveIsWhatAFreshSetupMakes
  BY LiveIsDiscovered DEF LiveIsWhatAFreshSetupMakes
<1> QED  BY <1>1, RegistryInvariant, PTL

\* Two entities offer the same slot only if it is the brightness of a light.
LEMMA SlotsAreApart ==
    ASSUME RegistryInv, NEW e \in live, NEW f \in live, e # f, NEW s \in e.slots \cap f.slots
    PROVE  IsBrightness(s) /\ "light" \in {e.platform, f.platform}
<1>1. e.of # f.of
  BY DEF RegistryInv, LiveWell
<1>2. \A o \in SUBSET observed : Reported(buses, pack, o)
  BY StateIsReported DEF RegistryInv
<1>3. ASSUME NEW a, NEW t \in Templates, NEW o \in SUBSET observed, Built(t, pack, o),
             a.platform = t.platform, s \in t.claims, s \in pack, Offered(s, pack)
      PROVE  IsBrightness(s) /\ a.platform = "light"
  <2>1. s \notin Superseded(pack, {})
    BY <1>3 DEF Offered
  <2>2. KeptBeside(s, t.platform)
    BY <1>2, <1>3, <2>1, ClaimedIsSuperseded
  <2> QED  BY <1>3, <2>2 DEF KeptBeside
<1>4. ASSUME NEW a \in live, NEW b \in live, s \in a.slots \cap b.slots,
             NEW t \in Templates, NEW o \in SUBSET observed, Built(t, pack, o),
             a.of = t.id, a.platform = t.platform, a.slots = t.claims \ (t.options \ o), a.of # b.of
      PROVE  IsBrightness(s) /\ a.platform = "light"
  <2>1. s \in t.claims
    BY <1>4
  <2>2. CASE \E u \in Templates, n \in SUBSET observed : b.of = u.id /\ b.slots = u.claims \ (u.options \ n)
    BY <1>4, <2>1, <2>2, TemplatesDiffer
  <2>3. CASE b.slots \subseteq Candidates("main_switch")
    BY <1>4, <2>1, <2>3, TheTemplates, TheCapability
  <2>4. CASE b.of \in observed \cap pack /\ Offered(b.of, pack) /\ b.slots = {b.of}
    BY <1>3, <1>4, <2>1, <2>4
  <2> QED  BY <2>2, <2>3, <2>4, WhatIsAdded
<1> DEFINE IsRich(d) == \E t \in Templates, o \in SUBSET observed :
               Built(t, pack, o) /\ d.of = t.id /\ d.platform = t.platform /\ d.slots = t.claims \ (t.options \ o)
           IsPlain(d) == \/ d.of = "main_switch" /\ d.slots \subseteq Candidates("main_switch")
                         \/ d.of \in observed \cap pack /\ Offered(d.of, pack) /\ d.slots = {d.of}
<1>5. CASE IsRich(e) \/ IsRich(f)
  BY <1>1, <1>4, <1>5
<1>6. CASE IsPlain(e) /\ IsPlain(f)
  BY <1>1, <1>6 DEF Offered
<1>7. IsRich(e) \/ IsPlain(e)
  BY WhatIsAdded
<1>8. IsRich(f) \/ IsPlain(f)
  BY WhatIsAdded
<1> HIDE DEF IsRich, IsPlain
<1> QED  BY <1>5, <1>6, <1>7, <1>8

\* What was reported and is listed is offered, or waits for what its template lacks.
LEMMA SlotsAreOffered ==
    ASSUME RegistryInv, UpToDate, NEW s \in observed \cap pack, PlatformOf(s) # "none", ~HiddenByDefault(s)
    PROVE  \/ \E e \in live : s \in e.slots
           \/ Waits(s) \/ BuiltWithout(s)
           \/ \E key \in DOMAIN Capabilities : s \in Candidates(key) /\ key \in Ids(live)
<1>1. /\ RegistryTyped /\ buses \subseteq DOMAIN Buses /\ PlatformsOf(buses) \subseteq Platforms
      /\ Reported(buses, pack, observed) /\ s \in AllSlots(buses) /\ s \in KnownSlots
  BY StateIsReported DEF RegistryInv, RegistryTyped, AllSlots, KnownSlots
<1>2. ASSUME NEW platform \in PlatformsOf(buses), NEW id, IdOf(id, platform, pack, observed)
      PROVE  \E e \in live : e.of = id
  <2>1. id \in Ids(Discover(platform, pack, observed))
    BY <1>1, <1>2, DiscoversIds
  <2>2. id \in Ids(live)
    BY <1>1, <2>1, LiveIsDiscovered, DiscoveredIds DEF Ids
  <2> QED  BY <2>2 DEF Ids
<1>3. CASE s \in Candidates("main_switch")
  <2>1. PlatformOf(s) = "switch" /\ "switch" \in PlatformsOf(buses)
    BY <1>1, <1>3, TheCapability, ThePlatforms
  <2>2. IdOf("main_switch", "switch", pack, observed)
    BY <1>3 DEF IdOf, ResolvedOf
  <2> QED  BY <1>2, <1>3, <2>1, <2>2, TheCapability DEF Ids
<1>4. CASE s \notin Candidates("main_switch") /\ s \notin Superseded(pack, {})
  <2>1. PlatformOf(s) \in PlatformsOf(buses)
    BY <1>1, ThePlatforms
  <2>2. IdOf(s, PlatformOf(s), pack, observed)
    BY <1>4 DEF IdOf, OfferedOf, Offered
  <2>3. PICK e \in live : e.of = s
    BY <1>2, <2>1, <2>2
  <2>4. s \in e.slots
    BY <1>1, <2>3, WhatIsAdded, TheTemplates, TheCapability
  <2> QED  BY <2>4
<1>5. CASE s \in Superseded(pack, {})
  <2>1. PICK t \in Fitting(pack) : s \in t.claims
    BY <1>5 DEF Superseded, RichClaims
  <2>2. t \in Templates /\ t.fits \subseteq pack /\ Meets(t, pack)
    BY <2>1 DEF Fitting
  <2>3. CASE ~Built(t, pack, observed)
    BY <2>1, <2>2, <2>3 DEF Waits
  <2>4. CASE Built(t, pack, observed)
    <3>1. t.platform \in PlatformsOf(buses)
      BY <1>1, <2>1, <2>2, ThePlatforms
    <3>2. IdOf(t.id, t.platform, pack, observed)
      BY <2>2, <2>4 DEF IdOf, BuiltOf
    <3>3. PICK e \in live : e.of = t.id
      BY <1>2, <3>1, <3>2
    <3>4. t.id \notin KnownSlots /\ t.id # "main_switch" /\ observed \subseteq KnownSlots
      BY <1>1, <2>2, TheTemplates, TheCapability DEF RegistryTyped, AllSlots, KnownSlots
    <3>5. PICK u \in Templates, o \in SUBSET observed : e.of = u.id /\ e.slots = u.claims \ (u.options \ o)
      BY <3>3, <3>4, WhatIsAdded
    <3>6. u = t
      BY <2>2, <3>3, <3>5, TemplatesDiffer
    <3> QED  BY <2>1, <2>2, <3>3, <3>5, <3>6 DEF BuiltWithout
  <2> QED  BY <2>3, <2>4
<1> QED  BY <1>3, <1>4, <1>5

(* Two entities never offer one slot, but a light and its brightness; and every
   reported slot that the pack lists has an entity that offers it, or the one
   reason to have none that the builds know. *)
THEOREM OneEntityForASlot == RegistrySpec => []SlotsHaveOneEntity
<1>1. RegistryInv => SlotsHaveOneEntity
  BY SlotsAreApart, SlotsAreOffered DEF SlotsHaveOneEntity
<1> QED  BY <1>1, RegistryInvariant, PTL

(* From the clean-up of a set-up on, through its refreshes and the user's edits,
   no registry entry is one that a rich entity replaces or that is no longer
   made, and all are on the vehicle's device. *)
THEOREM NothingSupersededComesBack == RegistrySpec => []SupersededAreGone
<1>1. RegistryInv => SupersededAreGone
  BY DEF RegistryInv
<1> QED  BY <1>1, RegistryInvariant, PTL

\* A step that is not the user's leaves his names and what he switched off.
LEMMA ChoicesSurvive ==
    ASSUME RegistryInv, [RegistryNext]_registryVars, edits' = edits, NEW uid \in DOMAIN registry \cap DOMAIN registry'
    PROVE  /\ registry[uid].name = "user" => registry'[uid].name = "user"
           /\ registry[uid].disabled = "user" => registry'[uid].disabled = "user"
<1>1. RegistryTyped /\ registry[uid] \in Records
  BY DEF RegistryInv, RegistryTyped
<1>2. CASE Clean
  BY <1>1, <1>2 DEF Clean, Without, Records
<1>3. CASE SetUpPlatforms
  <2>1. stage # "off" /\ pack' = pack /\ Enter(Ids(Discovered))
    BY <1>3 DEF SetUpPlatforms, env
  <2> QED  BY <1>1, <2>1, EnteredWell, DiscoveredIsNotSuperseded DEF RegistryInv
<1>4. CASE SetUp \/ PoliciesAgain
  BY <1>1, <1>4, PoliciesPolice, RecordsStayRecords DEF SetUp, PoliciesAgain
<1>5. CASE Refresh
  BY <1>5, RefreshKeeps
<1>6. ASSUME NEW other, NEW change, Edit(other, change) PROVE FALSE
  BY <1>1, <1>6 DEF Edit, RegistryTyped
<1>7. ASSUME NEW new, Frame(new) PROVE registry' = registry
  BY <1>7 DEF Frame
<1>8. CASE Reload \/ UNCHANGED registryVars
  BY <1>8 DEF Reload, registryVars
<1> QED  BY <1>2, <1>3, <1>4, <1>5, <1>6, <1>7, <1>8 DEF RegistryNext

(* Of clean-up, set-up, policies, refresh and reload none takes back a name that
   the user gave or switches on, or takes over, what the user switched off. *)
THEOREM TheUserHasTheLastWord == RegistrySpec => UserChoicesSurvive
<1>1. RegistryInv /\ [RegistryNext]_registryVars =>
          [edits' = edits =>
             \A uid \in DOMAIN registry \cap DOMAIN registry' :
                /\ registry[uid].name = "user" => registry'[uid].name = "user"
                /\ registry[uid].disabled = "user" => registry'[uid].disabled = "user"]_registryVars
  BY ChoicesSurvive
<1> QED  BY <1>1, RegistryInvariant, PTL DEF RegistrySpec, UserChoicesSurvive

(* Once the policies have passed and nothing else has happened, the passes of one
   and five seconds later, and a refresh that adds nothing, leave the registry. *)
THEOREM LaterPassesAreQuiet == RegistrySpec => PassesAreIdempotent
<1>1. ASSUME RegistryInv, [RegistryNext]_registryVars, stage = "up", quiet, quiet', due' = due
      PROVE  registry' = registry
  <2>1. RegistryTyped /\ \A uid \in DOMAIN registry : registry[uid] = Policed(uid)
    BY <1>1 DEF RegistryInv, QuietIsPoliced
  <2>2. CASE PoliciesAgain
    <3>1. registry' = [uid \in DOMAIN registry |-> Policed(uid)]
      BY <2>2, PoliciesPolice DEF PoliciesAgain
    <3> QED  BY <2>1, <3>1 DEF RegistryTyped
  <2>3. CASE Refresh
    BY <1>1, <2>3, RefreshKeeps
  <2>4. CASE Clean \/ SetUpPlatforms \/ SetUp \/ Reload
    BY <1>1, <2>4 DEF Clean, SetUpPlatforms, SetUp, Reload
  <2>5. ASSUME NEW other, NEW change, Edit(other, change) PROVE FALSE
    BY <1>1, <2>5 DEF Edit
  <2>6. ASSUME NEW new, Frame(new) PROVE registry' = registry
    BY <2>6 DEF Frame
  <2> QED  BY <1>1, <2>2, <2>3, <2>4, <2>5, <2>6 DEF RegistryNext, registryVars
<1>2. RegistryInv /\ [RegistryNext]_registryVars =>
          [stage = "up" /\ quiet /\ quiet' /\ due' = due => registry' = registry]_registryVars
  BY <1>1
<1> QED  BY <1>2, RegistryInvariant, PTL DEF RegistrySpec, PassesAreIdempotent

---------------------------------------------------------------------------
(***************************************************************************)
(* The main switch.                                                        *)
(*                                                                         *)
(* RetriesAreBounded: retryCount alone bounds nothing, since each new      *)
(* command and each verification that gives up resets it.  But a reset is  *)
(* paid for: by the new command, or by the task that ends.                 *)
(***************************************************************************)
(* What matters of the entity and of a task: retryCount, and which fields there are. *)
MainFields == [report |-> main.report, claim |-> main.claim, expected |-> main.expected,
           commandAt |-> main.commandAt, retryCount |-> main.retryCount]
TaskFields(t) == [stage |-> t.stage, on |-> t.on, at |-> t.at, overtaken |-> t.overtaken]

Over == {c \in SwitchCommands : task[c].stage = "done"}

TaskTypes ==
    /\ main = MainFields /\ main.retryCount \in 0 .. 1
    /\ DOMAIN task = SwitchCommands /\ \A c \in SwitchCommands : task[c] = TaskFields(task[c])
    /\ asked.count \in 0 .. MaxSwitched /\ retries \in Nat
    /\ \A c \in SwitchCommands : c > asked.count => task[c].stage = "free"
(* Each verification that re-authenticated is paid for by a command, by a task
   that is over, or is the one that retryCount counts.                        *)
Paid ==
    /\ asked.count = 0 => retries = 0
    /\ asked.count > 0 => retries <= asked.count + Cardinality(Over) - 1 + main.retryCount
PaidInv == TaskTypes /\ Paid

\* The tasks that have ended are finitely many, at most the number of calls.
LEMMA OverIsFinite == TaskTypes => IsFiniteSet(Over) /\ Cardinality(Over) \in 0 .. asked.count
<1> SUFFICES ASSUME TaskTypes PROVE IsFiniteSet(Over) /\ Cardinality(Over) \in 0 .. asked.count
    OBVIOUS
<1>1. MaxSwitched \in Nat /\ asked.count \in Nat
  BY SwitchAssumption DEF TaskTypes
<1>2. Over \subseteq 1 .. asked.count
  BY <1>1 DEF Over, TaskTypes, SwitchCommands
<1>3. IsFiniteSet(1 .. asked.count) /\ Cardinality(1 .. asked.count) = asked.count
  <2>1. 1 \in Int /\ asked.count \in Int
    BY <1>1
  <2>2. IsFiniteSet(1 .. asked.count)
        /\ Cardinality(1 .. asked.count) = IF 1 > asked.count THEN 0 ELSE asked.count - 1 + 1
    BY <2>1, FS_Interval
  <2> QED  BY <1>1, <2>2
<1>4. IsFiniteSet(Over) /\ Cardinality(Over) <= asked.count
  BY <1>2, <1>3, FS_Subset
<1>5. Cardinality(Over) \in Nat
  BY <1>4, FS_CardinalityType
<1> QED  BY <1>1, <1>4, <1>5

(* How a step that changes one task changes the number of those that are over. *)
LEMMA OneTaskChanges ==
    ASSUME TaskTypes, NEW c \in SwitchCommands, task[c].stage # "done",
           \A d \in SwitchCommands \ {c} : task'[d].stage = task[d].stage
    PROVE  Cardinality(Over') = Cardinality(Over) + (IF task'[c].stage = "done" THEN 1 ELSE 0)
<1>1. IsFiniteSet(Over) /\ Cardinality(Over) \in Nat /\ c \notin Over
  BY OverIsFinite, SwitchAssumption DEF Over, TaskTypes
<1>2. CASE task'[c].stage = "done"
  <2>1. Over' = Over \cup {c}
    BY <1>2 DEF Over, SwitchCommands
  <2> QED  BY <1>1, <1>2, <2>1, FS_AddElement
<1>3. CASE task'[c].stage # "done"
  <2>1. Over' = Over
    BY <1>3 DEF Over, SwitchCommands
  <2> QED  BY <1>1, <1>3, <2>1
<1> QED  BY <1>2, <1>3

\* What changing one task does to the set of tasks that have ended.
LEMMA OneTaskIsSet ==
    ASSUME TaskTypes, NEW c \in SwitchCommands, NEW t, t = TaskFields(t), task' = [task EXCEPT ![c] = t]
    PROVE  /\ task'[c] = t /\ \A d \in SwitchCommands \ {c} : task'[d] = task[d]
           /\ DOMAIN task' = SwitchCommands /\ \A d \in SwitchCommands : task'[d] = TaskFields(task'[d])
<1>1. DOMAIN task' = SwitchCommands /\ task'[c] = t /\ \A d \in SwitchCommands \ {c} : task'[d] = task[d]
  BY DEF TaskTypes
<1>2. \A d \in SwitchCommands : task[d] = TaskFields(task[d])
  BY DEF TaskTypes
<1>3. ASSUME NEW d \in SwitchCommands PROVE task'[d] = TaskFields(task'[d])
  <2>1. CASE d = c
    BY <1>1, <2>1
  <2>2. CASE d # c
    BY <1>1, <1>2, <2>2
  <2> QED  BY <2>1, <2>2
<1> QED  BY <1>1, <1>3

\* Moving one task to another stage keeps the types.
LEMMA StageIsSet ==
    ASSUME TaskTypes, NEW c \in SwitchCommands, NEW s, task' = [task EXCEPT ![c].stage = s]
    PROVE  /\ task'[c].stage = s /\ \A d \in SwitchCommands \ {c} : task'[d] = task[d]
           /\ DOMAIN task' = SwitchCommands /\ \A d \in SwitchCommands : task'[d] = TaskFields(task'[d])
<1> DEFINE t == [stage |-> s, on |-> task[c].on, at |-> task[c].at, overtaken |-> task[c].overtaken]
<1>1. [task[c] EXCEPT !.stage = s] = t
  <2>1. task[c] = TaskFields(task[c])
    BY DEF TaskTypes
  <2>2. [TaskFields(task[c]) EXCEPT !.stage = s] = t
    BY DEF TaskFields
  <2> QED  BY <2>1, <2>2
<1>2. task' = [task EXCEPT ![c] = t]
  BY <1>1
<1>3. t = TaskFields(t) /\ t.stage = s
  BY DEF TaskFields
<1> HIDE DEF t
<1> QED  BY <1>2, <1>3, OneTaskIsSet

\* A call of the switch keeps the bound.
LEMMA TurnPays == ASSUME PaidInv, NEW on \in Powers, Turn(on) PROVE PaidInv'
<1> DEFINE c == asked.count + 1
<1>1. c \in SwitchCommands /\ asked.count \in Nat /\ MaxSwitched \in Nat
  BY SwitchAssumption DEF Turn, PaidInv, TaskTypes
<1>2. asked'.count = c /\ main' = [MainFields EXCEPT !.retryCount = 0] /\ retries' = retries
      /\ task' = [task EXCEPT ![c] = TaskAt("connecting", on)]
  BY DEF Turn, PaidInv, TaskTypes
<1>3. TaskAt("connecting", on).stage = "connecting" /\ TaskAt("connecting", on) = TaskFields(TaskAt("connecting", on))
  BY DEF TaskAt, TaskFields
<1>4. task[c].stage = "free"
  BY <1>1 DEF PaidInv, TaskTypes
<1> HIDE DEF c
<1>5. task'[c].stage = "connecting" /\ \A d \in SwitchCommands \ {c} : task'[d] = task[d]
  BY <1>1, <1>2, <1>3 DEF PaidInv, TaskTypes
<1>6. Cardinality(Over') = Cardinality(Over)
  BY <1>1, <1>4, <1>5, OneTaskChanges, OverIsFinite DEF PaidInv, TaskTypes
<1>7. main' = MainFields' /\ main'.retryCount = 0
  BY <1>2 DEF MainFields
<1>8. DOMAIN task' = SwitchCommands /\ \A d \in SwitchCommands : task'[d] = TaskFields(task'[d])
  BY <1>1, <1>2, <1>3, OneTaskIsSet DEF PaidInv, TaskTypes
<1>9. asked'.count \in 0 .. MaxSwitched
      /\ \A d \in SwitchCommands : d > asked'.count => task'[d].stage = "free"
  BY <1>1, <1>2, <1>5 DEF PaidInv, TaskTypes, SwitchCommands, c
<1>10. TaskTypes'
  BY <1>2, <1>7, <1>8, <1>9 DEF PaidInv, TaskTypes
<1>11. Paid'
  BY <1>1, <1>2, <1>6, <1>7, OverIsFinite DEF PaidInv, TaskTypes, Paid, c
<1> QED  BY <1>10, <1>11 DEF PaidInv

(* A step of one task, with what it does to the counts.                    *)
LEMMA TaskStep ==
    ASSUME PaidInv, NEW c \in SwitchCommands, task[c].stage \notin {"free", "done"},
           asked' = asked, DOMAIN task' = SwitchCommands, \A d \in SwitchCommands : task'[d] = TaskFields(task'[d]),
           task'[c].stage # "free", \A d \in SwitchCommands \ {c} : task'[d].stage = task[d].stage,
           main' = MainFields', main'.retryCount \in 0 .. 1, retries' \in Nat,
           retries' - retries <= main'.retryCount - main.retryCount
                                   + (IF task'[c].stage = "done" THEN 1 ELSE 0)
    PROVE  PaidInv'
<1>1. Cardinality(Over') = Cardinality(Over) + (IF task'[c].stage = "done" THEN 1 ELSE 0)
  BY OneTaskChanges DEF PaidInv
<1>2. TaskTypes'
  BY DEF PaidInv, TaskTypes
<1>3. asked.count \in Nat /\ retries \in Nat /\ Cardinality(Over) \in Nat /\ main.retryCount \in 0 .. 1
      /\ asked.count > 0
  BY OverIsFinite, SwitchAssumption DEF PaidInv, TaskTypes, SwitchCommands
<1>4. Paid'
  BY <1>1, <1>3 DEF PaidInv, Paid
<1> QED  BY <1>2, <1>4 DEF PaidInv

\* Each step of a verification task keeps the bound.
LEMMA TaskSteps ==
    ASSUME PaidInv, NEW c \in SwitchCommands, Switched(c) \/ SwitchFails(c) \/ Verified(c) \/ Retried(c)
    PROVE  PaidInv'
<1>0. /\ main = MainFields /\ main.retryCount \in 0 .. 1 /\ retries \in Nat
      /\ DOMAIN task = SwitchCommands /\ \A d \in SwitchCommands : task[d] = TaskFields(task[d])
  BY DEF PaidInv, TaskTypes
<1>1. CASE Switched(c)
  <2>1. /\ main' = [MainFields EXCEPT !.claim = task[c].on, !.expected = task[c].on, !.commandAt = main.commandAt + 1]
        /\ asked' = asked /\ retries' = retries /\ task[c].stage = "connecting"
    BY <1>0, <1>1 DEF Switched
  <2>2. main' = MainFields' /\ main'.retryCount = main.retryCount
    BY <2>1 DEF MainFields
  <2>3. task' = [d \in SwitchCommands |->
                   IF d = c THEN [TaskFields(task[c]) EXCEPT !.stage = "sleeping", !.at = main.commandAt + 1]
                   ELSE [TaskFields(task[d]) EXCEPT !.overtaken = task[d].overtaken
                            \/ (task[d].stage \in {"connecting", "reauth"} /\ d < c)]]
    BY <1>0, <1>1 DEF Switched
  <2>4. /\ task'[c].stage = "sleeping"
        /\ \A d \in SwitchCommands \ {c} : task'[d].stage = task[d].stage
    BY <2>3 DEF TaskFields
  <2>5. DOMAIN task' = SwitchCommands /\ \A d \in SwitchCommands : task'[d] = TaskFields(task'[d])
    <3>1. DOMAIN task' = SwitchCommands
      BY <2>3
    <3>2. ASSUME NEW d \in SwitchCommands PROVE task'[d] = TaskFields(task'[d])
      <4>1. CASE d = c
        <5>1. task'[d] = [stage |-> "sleeping", on |-> task[c].on, at |-> main.commandAt + 1,
                          overtaken |-> task[c].overtaken]
          BY <2>3, <4>1 DEF TaskFields
        <5> QED  BY <5>1 DEF TaskFields
      <4>2. CASE d # c
        <5>1. \E o : task'[d] = [TaskFields(task[d]) EXCEPT !.overtaken = o]
          BY <2>3, <4>2
        <5>2. \E o : task'[d] = [stage |-> task[d].stage, on |-> task[d].on, at |-> task[d].at, overtaken |-> o]
          BY <5>1 DEF TaskFields
        <5> QED  BY <5>2 DEF TaskFields
      <4> QED  BY <4>1, <4>2
    <3> QED  BY <3>1, <3>2
  <2> QED  BY <1>0, <2>1, <2>2, <2>4, <2>5, TaskStep
<1>2. CASE SwitchFails(c)
  <2>1. task' = [task EXCEPT ![c] = [stage |-> "done", on |-> task[c].on, at |-> 0, overtaken |-> FALSE]]
    BY <1>2 DEF SwitchFails, TaskAt
  <2>2. /\ task'[c].stage = "done" /\ \A d \in SwitchCommands \ {c} : task'[d] = task[d]
        /\ DOMAIN task' = SwitchCommands /\ \A d \in SwitchCommands : task'[d] = TaskFields(task'[d])
    <3>1. LET t == [stage |-> "done", on |-> task[c].on, at |-> 0, overtaken |-> FALSE]
          IN  t = TaskFields(t) /\ t.stage = "done"
      BY DEF TaskFields
    <3> QED  BY <2>1, <3>1, OneTaskIsSet DEF PaidInv
  <2>3. UNCHANGED <<main, asked, retries>> /\ task[c].stage = "connecting"
    BY <1>2 DEF SwitchFails
  <2>4. main' = MainFields'
    BY <1>0, <2>3 DEF MainFields
  <2> QED  BY <1>0, <2>2, <2>3, <2>4, TaskStep
<1>3. CASE Verified(c)
  <2>0. task[c].stage = "sleeping" /\ asked' = asked
    BY <1>3 DEF Verified
  <2>1. ASSUME NEW s \in {"done", "reauth"}, task' = [task EXCEPT ![c].stage = s]
        PROVE  /\ task'[c].stage = s /\ \A d \in SwitchCommands \ {c} : task'[d] = task[d]
               /\ DOMAIN task' = SwitchCommands /\ \A d \in SwitchCommands : task'[d] = TaskFields(task'[d])
    BY <2>1, StageIsSet DEF PaidInv
  <2>2. CASE EndsTask(c) /\ retries' = retries /\ UNCHANGED main
    <3>1. main' = MainFields'
      BY <1>0, <2>2 DEF MainFields
    <3> QED  BY <1>0, <2>0, <2>1, <2>2, <3>1, TaskStep DEF EndsTask
  <2>3. CASE EndsTask(c) /\ retries' = retries /\ main' = [main EXCEPT !.claim = Unknown, !.expected = Unknown]
    <3>1. main' = [MainFields EXCEPT !.claim = Unknown, !.expected = Unknown]
      BY <1>0, <2>3
    <3>2. main' = MainFields' /\ main'.retryCount = main.retryCount
      BY <3>1 DEF MainFields
    <3> QED  BY <1>0, <2>0, <2>1, <2>3, <3>2, TaskStep DEF EndsTask
  <2>4. CASE /\ EndsTask(c) /\ retries' = retries /\ main.retryCount >= 1
             /\ main' = [main EXCEPT !.claim = Unknown, !.expected = Unknown, !.retryCount = 0]
    <3>1. main' = [MainFields EXCEPT !.claim = Unknown, !.expected = Unknown, !.retryCount = 0]
      BY <1>0, <2>4
    <3>2. main' = MainFields' /\ main'.retryCount = 0
      BY <3>1 DEF MainFields
    <3> QED  BY <1>0, <2>0, <2>1, <2>4, <3>2, TaskStep DEF EndsTask
  <2>5. CASE /\ task' = [task EXCEPT ![c].stage = "reauth"] /\ retries' = retries + 1 /\ ~(main.retryCount >= 1)
             /\ main' = [main EXCEPT !.retryCount = @ + 1]
    <3>1. main' = [MainFields EXCEPT !.retryCount = main.retryCount + 1]
      BY <1>0, <2>5
    <3>2. main' = MainFields' /\ main'.retryCount = main.retryCount + 1
      BY <3>1 DEF MainFields
    <3> QED  BY <1>0, <2>0, <2>1, <2>5, <3>2, TaskStep
  <2> QED  BY <1>3, <2>2, <2>3, <2>4, <2>5 DEF Verified
<1>4. CASE Retried(c)
  <2>1. task' = [task EXCEPT ![c].stage = "connecting"]
    BY <1>4 DEF Retried
  <2>2. /\ task'[c].stage = "connecting" /\ \A d \in SwitchCommands \ {c} : task'[d] = task[d]
        /\ DOMAIN task' = SwitchCommands /\ \A d \in SwitchCommands : task'[d] = TaskFields(task'[d])
    BY <2>1, StageIsSet DEF PaidInv
  <2>3. UNCHANGED <<main, asked, retries>> /\ task[c].stage = "reauth"
    BY <1>4 DEF Retried
  <2>4. main' = MainFields'
    BY <1>0, <2>3 DEF MainFields
  <2> QED  BY <1>0, <2>2, <2>3, <2>4, TaskStep
<1> QED  BY <1>1, <1>2, <1>3, <1>4

\* Every step keeps the bound: one case per action.
LEMMA PaidStep == PaidInv /\ [SwitchNext]_switchVars => PaidInv'
<1> SUFFICES ASSUME PaidInv, [SwitchNext]_switchVars PROVE PaidInv'
    OBVIOUS
<1>1. ASSUME NEW on \in Powers, Turn(on) PROVE PaidInv'
  BY <1>1, TurnPays
<1>2. ASSUME NEW c \in SwitchCommands, Switched(c) \/ SwitchFails(c) \/ Verified(c) \/ Retried(c) PROVE PaidInv'
  BY <1>2, TaskSteps
<1>3. ASSUME UNCHANGED <<task, asked, retries>>, main' = MainFields', main'.retryCount = main.retryCount
      PROVE  PaidInv'
  BY <1>3 DEF PaidInv, TaskTypes, Paid, Over
<1>4. main = MainFields
  BY DEF PaidInv, TaskTypes
<1>5. CASE UnitReceives \/ UNCHANGED switchVars
  <2>1. UNCHANGED <<task, asked, retries, main>>
    BY <1>5 DEF UnitReceives, switchVars
  <2>2. main' = MainFields'
    BY <1>4, <2>1 DEF MainFields
  <2> QED  BY <1>3, <2>1, <2>2
<1>6. CASE SwitchUpdate
  <2>1. PICK r : main' = [MainFields EXCEPT !.report = r, !.claim = IF main.claim = r THEN Unknown ELSE main.claim]
    BY <1>4, <1>6 DEF SwitchUpdate
  <2>2. main' = MainFields' /\ main'.retryCount = main.retryCount
    BY <2>1 DEF MainFields
  <2> QED  BY <1>3, <1>6, <2>2 DEF SwitchUpdate
<1>7. CASE SwitchExpires
  <2>1. main' = [MainFields EXCEPT !.claim = Unknown]
    BY <1>4, <1>7 DEF SwitchExpires
  <2>2. main' = MainFields' /\ main'.retryCount = main.retryCount
    BY <2>1 DEF MainFields
  <2> QED  BY <1>3, <1>7, <2>2 DEF SwitchExpires
<1> QED  BY <1>1, <1>2, <1>5, <1>6, <1>7 DEF SwitchNext

\* No call has been made and no retry spent.
LEMMA PaidInit == SwitchInit => PaidInv
<1> SUFFICES ASSUME SwitchInit PROVE PaidInv
    OBVIOUS
<1>1. PICK p \in Powers :
         main = [report |-> p, claim |-> Unknown, expected |-> Unknown, commandAt |-> 0, retryCount |-> 0]
  BY DEF SwitchInit
<1>2. main = MainFields /\ main.retryCount = 0
  BY <1>1 DEF MainFields
<1>3. asked.count = 0 /\ retries = 0
  BY DEF SwitchInit
<1>4. /\ DOMAIN task = SwitchCommands /\ \A c \in SwitchCommands : task[c] = TaskFields(task[c])
      /\ \A c \in SwitchCommands : task[c].stage = "free"
  BY DEF SwitchInit, TaskFields, TaskAt, NoTask
<1> QED  BY <1>2, <1>3, <1>4, SwitchAssumption DEF PaidInv, TaskTypes, Paid

(* The main switch never re-authenticates for ever: at most twice for each
   command of the user, whatever is lost on the way and in whatever order the
   verifications of several commands run and reset each other's count.        *)
THEOREM RetriesEnd == SwitchSpec => []RetriesAreBounded
<1>1. PaidInv => RetriesAreBounded
  <2> SUFFICES ASSUME PaidInv PROVE RetriesAreBounded
      OBVIOUS
  <2>1. /\ Cardinality(Over) \in 0 .. asked.count /\ asked.count \in Nat /\ retries \in Nat
        /\ main.retryCount \in 0 .. 1
    BY OverIsFinite, SwitchAssumption DEF PaidInv, TaskTypes
  <2> QED  BY <2>1 DEF PaidInv, Paid, RetriesAreBounded
<1> QED  BY <1>1, PaidInit, PaidStep, PTL DEF SwitchSpec

(***************************************************************************)
(* LastCommandHolds.  The sends are numbered; the last one belongs to the  *)
(* newest command unless an older one was overtaken, and what it sent is   *)
(* on the wire, has arrived, or was lost, which its task then notices.     *)
(***************************************************************************)
Stages == {"free", "connecting", "sleeping", "reauth", "done"}
SwitchTypes ==
    /\ main \in [report : Powers, claim : Powers \cup {Unknown}, expected : Powers \cup {Unknown},
                 commandAt : Nat, retryCount : 0 .. 1]
    /\ unit \in [power : Powers, wire : Seq(Powers), lost : Nat]
    /\ asked \in [count : 0 .. MaxSwitched, on : Powers]
    /\ task \in [SwitchCommands -> [stage : Stages, on : Powers, at : Nat, overtaken : BOOLEAN]]
    /\ overridden \in BOOLEAN
(* The numbers of the sends: each task's is its own, a newer command's is the
   greater one but for what was overtaken.                                    *)
Sends ==
    /\ \A c \in SwitchCommands : task[c].at <= main.commandAt
    /\ \A c, d \in SwitchCommands : c # d /\ task[c].at # 0 => task[c].at # task[d].at
    /\ \A c \in SwitchCommands : task[c].stage \in {"sleeping", "reauth"} => task[c].at # 0
    /\ \A c \in SwitchCommands : task[c].stage = "free" <=> c > asked.count
    /\ \A c \in SwitchCommands : task[c].stage = "free" => task[c].at = 0
    /\ \A c \in SwitchCommands : c = asked.count => task[c].on = asked.on
    /\ \A c, d \in SwitchCommands :
          c < d /\ task[d].at # 0 /\ ~task[c].overtaken =>
             task[c].at < task[d].at /\ task[c].stage \in {"sleeping", "done"}
(* The last send: it is some task's, unless that task failed since; what is on
   the way, or lost, or has arrived is what that task asked for.              *)
IsLast(c) == task[c].at = main.commandAt /\ main.commandAt # 0
HasLast ==
    main.commandAt # 0 => \/ \E c \in SwitchCommands : IsLast(c)
                          \/ \E c \in SwitchCommands : task[c].stage = "done" /\ task[c].at = 0
LastIs(c) ==
    /\ overridden <=> task[c].overtaken
    /\ unit.wire # <<>> => unit.wire[Len(unit.wire)] = task[c].on
    /\ task[c].stage = "sleeping" => main.expected = task[c].on
    /\ task[c].stage = "sleeping" /\ unit.wire = <<>> /\ unit.power # task[c].on => unit.lost > main.retryCount
    /\ task[c].stage = "done" => unit.wire = <<>> /\ (unit.power = task[c].on \/ unit.lost >= 2)
LastInv ==
    /\ SwitchTypes /\ Sends /\ HasLast
    /\ \A c \in SwitchCommands : IsLast(c) => LastIs(c)
    /\ unit.lost >= main.retryCount

\* Nothing was sent.
LEMMA LastInit == SwitchInit => LastInv
<1> SUFFICES ASSUME SwitchInit PROVE LastInv
    OBVIOUS
<1>1. PICK p \in Powers :
         /\ main = [report |-> p, claim |-> Unknown, expected |-> Unknown, commandAt |-> 0, retryCount |-> 0]
         /\ unit = [power |-> p, wire |-> <<>>, lost |-> 0]
         /\ asked = [count |-> 0, on |-> p]
  BY DEF SwitchInit
<1>2. \A c \in SwitchCommands : task[c] = [stage |-> "free", on |-> "off", at |-> 0, overtaken |-> FALSE]
  BY DEF SwitchInit, NoTask, TaskAt
<1>3. SwitchTypes
  <2>1. <<>> \in Seq(Powers) /\ "off" \in Powers
    BY DEF Powers
  <2>2. task \in [SwitchCommands -> [stage : Stages, on : Powers, at : Nat, overtaken : BOOLEAN]]
    BY <2>1 DEF SwitchInit, NoTask, TaskAt, Stages
  <2>3. 0 \in 0 .. MaxSwitched
    BY SwitchAssumption
  <2>4. overridden \in BOOLEAN
    BY DEF SwitchInit
  <2> QED  BY <1>1, <2>1, <2>2, <2>3, <2>4 DEF SwitchTypes
<1>4. Sends /\ HasLast /\ \A c \in SwitchCommands : ~IsLast(c)
  BY <1>1, <1>2 DEF Sends, HasLast, IsLast, SwitchCommands
<1> QED  BY <1>1, <1>3, <1>4 DEF LastInv

\* A command: one more task, which has sent nothing.
LEMMA TurnLast == ASSUME LastInv, NEW on \in Powers, Turn(on) PROVE LastInv'
<1> DEFINE n == asked.count + 1
<1>1. n \in SwitchCommands /\ asked.count \in Nat /\ task[n].stage = "free"
  BY SwitchAssumption DEF Turn, LastInv, SwitchTypes, Sends, SwitchCommands
<1>2. /\ asked' = [count |-> n, on |-> on] /\ unit' = unit /\ overridden' = overridden
      /\ main' = [main EXCEPT !.retryCount = 0]
      /\ task' = [task EXCEPT ![n] = [stage |-> "connecting", on |-> on, at |-> 0, overtaken |-> FALSE]]
  BY DEF Turn, TaskAt
<1>3. main'.commandAt = main.commandAt /\ main'.retryCount = 0 /\ main'.expected = main.expected
  BY <1>2 DEF LastInv, SwitchTypes
<1>4. /\ task'[n] = [stage |-> "connecting", on |-> on, at |-> 0, overtaken |-> FALSE]
      /\ \A d \in SwitchCommands : d # n => task'[d] = task[d]
  BY <1>1, <1>2 DEF LastInv, SwitchTypes
<1>5. SwitchTypes'
  <2>1. /\ main' \in [report : Powers, claim : Powers \cup {Unknown}, expected : Powers \cup {Unknown},
                     commandAt : Nat, retryCount : 0 .. 1]
    <3>1. main \in [report : Powers, claim : Powers \cup {Unknown}, expected : Powers \cup {Unknown},
                   commandAt : Nat, retryCount : 0 .. 1]
      BY DEF LastInv, SwitchTypes
    <3> QED  BY <1>2, <3>1
  <2>7. unit' \in [power : Powers, wire : Seq(Powers), lost : Nat] /\ overridden' \in BOOLEAN
    BY <1>2 DEF LastInv, SwitchTypes
  <2>2. n \in 0 .. MaxSwitched
    BY <1>1, SwitchAssumption DEF SwitchCommands
  <2>3. asked' \in [count : 0 .. MaxSwitched, on : Powers]
    BY <1>2, <2>2
  <2>4. [stage |-> "connecting", on |-> on, at |-> 0, overtaken |-> FALSE]
          \in [stage : Stages, on : Powers, at : Nat, overtaken : BOOLEAN]
    BY DEF Stages
  <2>5. task \in [SwitchCommands -> [stage : Stages, on : Powers, at : Nat, overtaken : BOOLEAN]]
    BY DEF LastInv, SwitchTypes
  <2>6. task' \in [SwitchCommands -> [stage : Stages, on : Powers, at : Nat, overtaken : BOOLEAN]]
    BY <1>1, <1>2, <2>4, <2>5
  <2> QED  BY <2>1, <2>3, <2>6, <2>7 DEF SwitchTypes
<1> HIDE DEF n
<1>6. Sends'
  BY <1>1, <1>2, <1>3, <1>4 DEF LastInv, Sends, SwitchCommands, n
<1>7. \A c \in SwitchCommands : IsLast(c)' => IsLast(c) /\ LastIs(c) /\ c # n
  BY <1>3, <1>4 DEF LastInv, IsLast
<1>8. HasLast'
  <2>1. \A c \in SwitchCommands : IsLast(c) \/ task[c].stage = "done" => c # n
    BY <1>1 DEF LastInv, Sends, IsLast
  <2> QED  BY <1>3, <1>4, <2>1 DEF LastInv, HasLast, IsLast
<1>9. \A c \in SwitchCommands : IsLast(c)' => LastIs(c)'
  BY <1>2, <1>3, <1>4, <1>7 DEF LastIs, LastInv, SwitchTypes
<1> QED  BY <1>2, <1>3, <1>5, <1>6, <1>8, <1>9 DEF LastInv, SwitchTypes

\* A send: its task is the last to have sent, older ones that wait are overtaken.
LEMMA SwitchedLast == ASSUME LastInv, NEW c \in SwitchCommands, Switched(c) PROVE LastInv'
<1> DEFINE k == main.commandAt + 1
<1>1. /\ task[c].stage = "connecting" /\ asked' = asked /\ overridden' = task[c].overtaken
      /\ unit' = [unit EXCEPT !.wire = Append(@, task[c].on)]
      /\ main' = [main EXCEPT !.claim = task[c].on, !.expected = task[c].on, !.commandAt = k]
  BY DEF Switched, LastInv, SwitchTypes
<1>2. /\ main'.commandAt = k /\ k \in Nat \ {0} /\ main'.expected = task[c].on /\ main'.retryCount = main.retryCount
      /\ unit'.wire = Append(unit.wire, task[c].on) /\ unit'.lost = unit.lost
  BY <1>1 DEF LastInv, SwitchTypes
<1>3. /\ task' = [d \in SwitchCommands |-> task'[d]]
      /\ task'[c] = [task[c] EXCEPT !.stage = "sleeping", !.at = k]
      /\ \A d \in SwitchCommands : d # c =>
            task'[d] = [task[d] EXCEPT !.overtaken = task[d].overtaken \/ (task[d].stage \in {"connecting", "reauth"} /\ d < c)]
  BY DEF Switched
<1> DEFINE Same(d) == /\ task'[d] \in [stage : Stages, on : Powers, at : Nat, overtaken : BOOLEAN]
                      /\ task'[d].on = task[d].on
<1>4. Same(c) /\ task'[c].stage = "sleeping" /\ task'[c].at = k /\ task'[c].overtaken = task[c].overtaken
  <2>1. task[c] \in [stage : Stages, on : Powers, at : Nat, overtaken : BOOLEAN]
    BY DEF LastInv, SwitchTypes
  <2>2. k \in Nat /\ "sleeping" \in Stages /\ task'[c] = [task[c] EXCEPT !.stage = "sleeping", !.at = k]
    BY <1>2, <1>3 DEF Stages
  <2> HIDE DEF k, Stages
  <2>3. Same(c) /\ task'[c].stage = "sleeping" /\ task'[c].at = k
    BY <2>1, <2>2
  <2>4. task'[c].overtaken = task[c].overtaken
    BY <2>1, <2>2
  <2> QED  BY <2>3, <2>4
<1>5. ASSUME NEW d \in SwitchCommands, d # c
      PROVE  /\ Same(d) /\ task'[d].stage = task[d].stage /\ task'[d].at = task[d].at
             /\ task'[d].overtaken = (task[d].overtaken \/ (task[d].stage \in {"connecting", "reauth"} /\ d < c))
  <2> DEFINE o == task[d].overtaken \/ (task[d].stage \in {"connecting", "reauth"} /\ d < c)
  <2>1. o \in BOOLEAN /\ task'[d] = [task[d] EXCEPT !.overtaken = o]
    BY <1>3, <1>5
  <2> HIDE DEF o
  <2>2. Same(d) /\ task'[d].stage = task[d].stage /\ task'[d].at = task[d].at /\ task'[d].overtaken = o
    BY <2>1 DEF LastInv, SwitchTypes
  <2> QED  BY <2>2 DEF o
<1>6. SwitchTypes'
  <2>1. unit' \in [power : Powers, wire : Seq(Powers), lost : Nat]
    <3>1. unit'.wire \in Seq(Powers)
      BY <1>2 DEF LastInv, SwitchTypes
    <3> QED  BY <1>1, <1>2, <3>1 DEF LastInv, SwitchTypes
  <2>2. main' \in [report : Powers, claim : Powers \cup {Unknown}, expected : Powers \cup {Unknown},
                   commandAt : Nat, retryCount : 0 .. 1]
    BY <1>1, <1>2 DEF LastInv, SwitchTypes
  <2>3. \A d \in SwitchCommands : Same(d)
    BY <1>4, <1>5
  <2>4. overridden' \in BOOLEAN
    BY <1>1 DEF LastInv, SwitchTypes
  <2> QED  BY <1>1, <1>3, <2>1, <2>2, <2>3, <2>4 DEF LastInv, SwitchTypes
<1>7. \A d \in SwitchCommands : task[d].at < k /\ task[d].at \in Nat
  BY DEF LastInv, Sends, SwitchTypes
<1> HIDE DEF k
<1>8. \A d \in SwitchCommands : task'[d].on = task[d].on
  BY <1>4, <1>5
<1>9. Sends'
  <2>1. (\A d \in SwitchCommands : task[d].at <= main.commandAt)'
    BY <1>2, <1>4, <1>5, <1>7
  <2>2. (\A b, d \in SwitchCommands : b # d /\ task[b].at # 0 => task[b].at # task[d].at)'
    BY <1>2, <1>4, <1>5, <1>7 DEF LastInv, Sends
  <2>3. (\A d \in SwitchCommands : task[d].stage \in {"sleeping", "reauth"} => task[d].at # 0)'
    BY <1>2, <1>4, <1>5 DEF LastInv, Sends
  <2>4. (\A d \in SwitchCommands : task[d].stage = "free" <=> d > asked.count)'
    BY <1>1, <1>4, <1>5 DEF LastInv, Sends
  <2>5. (\A d \in SwitchCommands : task[d].stage = "free" => task[d].at = 0)'
    BY <1>4, <1>5 DEF LastInv, Sends
  <2>6. (\A d \in SwitchCommands : d = asked.count => task[d].on = asked.on)'
    BY <1>1, <1>8 DEF LastInv, Sends
  <2>7. ASSUME NEW b \in SwitchCommands, NEW d \in SwitchCommands, b < d, task'[d].at # 0, ~task'[b].overtaken
        PROVE  task'[b].at < task'[d].at /\ task'[b].stage \in {"sleeping", "done"}
    <3>1. b # d /\ b \in Int /\ d \in Int /\ asked.count \in Int /\ task[b].stage \in Stages
      BY <2>7 DEF SwitchCommands, LastInv, SwitchTypes
    <3>2. CASE d = c
      <4>1. task[b].stage # "free"
        BY <1>1, <2>7, <3>1, <3>2 DEF LastInv, Sends
      <4>2. task'[b].at = task[b].at /\ task'[b].stage = task[b].stage
            /\ task[b].stage \notin {"connecting", "reauth"}
        BY <1>5, <2>7, <3>1, <3>2
      <4> QED  BY <1>4, <1>7, <3>1, <3>2, <4>1, <4>2 DEF Stages
    <3>3. CASE b = c
      <4>1. task[d].at # 0 /\ ~task[c].overtaken
        BY <1>4, <1>5, <2>7, <3>1, <3>3
      <4> QED  BY <1>1, <2>7, <3>3, <4>1 DEF LastInv, Sends
    <3>4. CASE b # c /\ d # c
      <4>1. task[d].at # 0 /\ ~task[b].overtaken
        BY <1>5, <2>7, <3>4
      <4>2. task[b].at < task[d].at /\ task[b].stage \in {"sleeping", "done"}
        BY <2>7, <4>1 DEF LastInv, Sends
      <4> QED  BY <1>5, <3>4, <4>2
    <3> QED  BY <3>2, <3>3, <3>4
  <2> QED  BY <2>1, <2>2, <2>3, <2>4, <2>5, <2>6, <2>7 DEF Sends
<1>10. \A d \in SwitchCommands : IsLast(d)' <=> d = c
  BY <1>2, <1>4, <1>5, <1>7 DEF IsLast
<1>11. LastIs(c)'
  <2>1. unit.wire \in Seq(Powers) /\ task[c].on \in Powers
    BY DEF LastInv, SwitchTypes
  <2>2. unit'.wire # <<>> /\ unit'.wire[Len(unit'.wire)] = task[c].on
    BY <1>2, <2>1
  <2> QED  BY <1>1, <1>2, <1>4, <2>2 DEF LastIs
<1> QED  BY <1>2, <1>6, <1>9, <1>10, <1>11 DEF LastInv, HasLast

\* A send that fails: the task has sent nothing that counts.
LEMMA FailsLast == ASSUME LastInv, NEW c \in SwitchCommands, SwitchFails(c) PROVE LastInv'
<1>1. UNCHANGED <<main, unit, asked, overridden>> /\ task[c].stage = "connecting"
  BY DEF SwitchFails
<1>2. /\ task'[c] = [stage |-> "done", on |-> task[c].on, at |-> 0, overtaken |-> FALSE]
      /\ \A d \in SwitchCommands : d # c => task'[d] = task[d]
  BY DEF SwitchFails, TaskAt, LastInv, SwitchTypes
<1>3. /\ task'[c].stage = "done" /\ task'[c].on = task[c].on /\ task'[c].at = 0
      /\ main.commandAt \in Nat
  BY <1>2 DEF LastInv, SwitchTypes
<1>4. SwitchTypes'
  BY <1>1 DEF SwitchFails, TaskAt, LastInv, SwitchTypes, Stages
<1>5. Sends'
  <2> USE <1>1, <1>2, <1>3 DEF LastInv, Sends
  <2>1. (\A d \in SwitchCommands : task[d].at <= main.commandAt)'
    OBVIOUS
  <2>2. (\A b, d \in SwitchCommands : b # d /\ task[b].at # 0 => task[b].at # task[d].at)'
    OBVIOUS
  <2>3. (\A d \in SwitchCommands : task[d].stage \in {"sleeping", "reauth"} => task[d].at # 0)'
    OBVIOUS
  <2>4. (\A d \in SwitchCommands : task[d].stage = "free" <=> d > asked.count)'
    OBVIOUS
  <2>5. (\A d \in SwitchCommands : task[d].stage = "free" => task[d].at = 0)'
    OBVIOUS
  <2>6. (\A d \in SwitchCommands : d = asked.count => task[d].on = asked.on)'
    <3>1. \A d \in SwitchCommands : task'[d].on = task[d].on
      OBVIOUS
    <3> QED  BY <3>1
  <2>7. ASSUME NEW b \in SwitchCommands, NEW d \in SwitchCommands, b < d, task'[d].at # 0, ~task'[b].overtaken
        PROVE  task'[b].at < task'[d].at /\ task'[b].stage \in {"sleeping", "done"}
    <3>1. d # c
      BY <2>7
    <3>2. CASE b = c
      <4>1. task[d].at \in Nat
        BY DEF SwitchTypes
      <4> QED  BY <2>7, <3>1, <3>2, <4>1
    <3>3. CASE b # c
      BY <2>7, <3>1, <3>3
    <3> QED  BY <3>2, <3>3
  <2> QED  BY <2>1, <2>2, <2>3, <2>4, <2>5, <2>6, <2>7
<1>6. \A d \in SwitchCommands : IsLast(d)' => IsLast(d) /\ d # c
  BY <1>1, <1>2 DEF IsLast
<1>7. HasLast'
  BY <1>2 DEF HasLast
<1>8. \A d \in SwitchCommands : IsLast(d)' => LastIs(d)'
  BY <1>1, <1>2, <1>6 DEF LastInv, LastIs
<1> QED  BY <1>1, <1>4, <1>5, <1>7, <1>8 DEF LastInv

\* A task goes on from one stage to another without a send.
LEMMA MovesLast ==
    ASSUME LastInv, NEW c \in SwitchCommands, NEW s \in {"connecting", "reauth", "done"},
           task' = [task EXCEPT ![c].stage = s], UNCHANGED <<unit, asked, overridden>>,
           task[c].stage \in {"sleeping", "reauth"}, s # "done" => task[c].stage = "reauth" \/ IsLast(c),
           s = "reauth" => IsLast(c),
           main' \in [report : Powers, claim : Powers \cup {Unknown}, expected : Powers \cup {Unknown},
                      commandAt : Nat, retryCount : 0 .. 1],
           main'.commandAt = main.commandAt, unit.lost >= main'.retryCount,
           main'.expected = main.expected \/ IsLast(c), main'.retryCount <= main.retryCount \/ IsLast(c),
           s = "done" /\ IsLast(c) => unit.wire = <<>> /\ (unit.power = task[c].on \/ unit.lost >= 2)
    PROVE  LastInv'
<1>1. /\ task'[c] = [stage |-> s, on |-> task[c].on, at |-> task[c].at, overtaken |-> task[c].overtaken]
      /\ \A d \in SwitchCommands : d # c => task'[d] = task[d]
  BY DEF LastInv, SwitchTypes
<1>2. SwitchTypes'
  BY DEF LastInv, SwitchTypes, Stages
<1>3. Sends'
  <2> USE <1>1 DEF LastInv, Sends, SwitchCommands
  <2>1. (\A d \in SwitchCommands : task[d].at <= main.commandAt)'
    OBVIOUS
  <2>2. (\A b, d \in SwitchCommands : b # d /\ task[b].at # 0 => task[b].at # task[d].at)'
    OBVIOUS
  <2>3. (\A d \in SwitchCommands : task[d].stage \in {"sleeping", "reauth"} => task[d].at # 0)'
    OBVIOUS
  <2>4. (\A d \in SwitchCommands : task[d].stage = "free" <=> d > asked.count)'
    OBVIOUS
  <2>5. (\A d \in SwitchCommands : task[d].stage = "free" => task[d].at = 0)'
    OBVIOUS
  <2>6. (\A d \in SwitchCommands : d = asked.count => task[d].on = asked.on)'
    OBVIOUS
  <2>7. ASSUME NEW b \in SwitchCommands, NEW d \in SwitchCommands, b < d, task'[d].at # 0, ~task'[b].overtaken
        PROVE  task'[b].at < task'[d].at /\ task'[b].stage \in {"sleeping", "done"}
    <3>1. task[b].at < task[d].at /\ task[d].at <= main.commandAt /\ task[b].at \in Nat /\ main.commandAt \in Nat
          /\ task[d].at \in Nat
      BY <2>7 DEF SwitchTypes
    <3>2. ~IsLast(b)
      BY <3>1 DEF IsLast
    <3> QED  BY <2>7, <3>1, <3>2
  <2> QED  BY <2>1, <2>2, <2>3, <2>4, <2>5, <2>6, <2>7
<1>4. \A d \in SwitchCommands : IsLast(d)' <=> IsLast(d)
  BY <1>1 DEF IsLast
<1>5. HasLast'
  BY <1>1, <1>4 DEF LastInv, HasLast
<1>6. ASSUME NEW d \in SwitchCommands, IsLast(d) PROVE LastIs(d)'
  <2>1. CASE d = c
    BY <1>1, <1>6, <2>1 DEF LastInv, LastIs
  <2>2. CASE d # c
    <3>1. ~IsLast(c)
      BY <1>6, <2>2 DEF LastInv, Sends, IsLast
    <3>2. main'.expected = main.expected /\ main'.retryCount <= main.retryCount
      BY <3>1
    <3> QED  BY <1>1, <1>6, <2>2, <3>2 DEF LastInv, LastIs, SwitchTypes
  <2> QED  BY <2>1, <2>2
<1> QED  BY <1>2, <1>3, <1>4, <1>5, <1>6 DEF LastInv

\* A verification: only the last send's own task judges it.
LEMMA VerifiedLast == ASSUME LastInv, NEW c \in SwitchCommands, Verified(c) PROVE LastInv'
<1>1. /\ task[c].stage = "sleeping" /\ unit.wire = <<>> /\ main.report = unit.power
      /\ UNCHANGED <<unit, asked, overridden>>
  BY DEF Verified
<1>2. /\ main.commandAt \in Nat /\ main.retryCount \in 0 .. 1 /\ unit.lost \in Nat /\ unit.lost >= main.retryCount
      /\ task[c].at # 0 /\ main.expected \in Powers \cup {Unknown}
      /\ main \in [report : Powers, claim : Powers \cup {Unknown}, expected : Powers \cup {Unknown},
                   commandAt : Nat, retryCount : 0 .. 1]
  BY <1>1 DEF LastInv, SwitchTypes, Sends
<1>3. IsLast(c) => /\ main.expected = task[c].on
                   /\ unit.power # task[c].on => unit.lost > main.retryCount
  BY <1>1 DEF LastInv, LastIs
<1>4. task[c].at = main.commandAt => IsLast(c)
  BY <1>2 DEF IsLast
<1>5. CASE ~IsLast(c)
  <2>1. EndsTask(c) /\ UNCHANGED main
    BY <1>1, <1>4, <1>5 DEF Verified
  <2>2. task' = [task EXCEPT ![c].stage = "done"] /\ main' = main
    BY <2>1 DEF EndsTask
  <2>3. main'.retryCount <= main.retryCount /\ unit.lost >= main'.retryCount
    BY <1>2, <2>2
  <2>4. /\ main' \in [report : Powers, claim : Powers \cup {Unknown}, expected : Powers \cup {Unknown},
                      commandAt : Nat, retryCount : 0 .. 1]
        /\ main'.commandAt = main.commandAt /\ main'.expected = main.expected
    BY <1>2, <2>2
  <2> QED  BY <1>1, <1>5, <2>2, <2>3, <2>4, MovesLast
<1>6. CASE IsLast(c)
  <2>1. task[c].at = main.commandAt /\ main.expected = task[c].on
    BY <1>3, <1>6 DEF IsLast
  <2>2. CASE main.report = task[c].on
    <3>1. EndsTask(c) /\ main' = [main EXCEPT !.claim = Unknown, !.expected = Unknown]
      BY <2>1, <2>2 DEF Verified
    <3>2. /\ main' \in [report : Powers, claim : Powers \cup {Unknown}, expected : Powers \cup {Unknown},
                        commandAt : Nat, retryCount : 0 .. 1]
          /\ main'.commandAt = main.commandAt /\ main'.retryCount = main.retryCount
      BY <1>2, <3>1
    <3> QED  BY <1>1, <1>2, <1>6, <2>2, <3>1, <3>2, MovesLast DEF EndsTask
  <2>3. CASE main.report # task[c].on /\ main.retryCount >= 1
    <3>1. EndsTask(c) /\ main' = [main EXCEPT !.claim = Unknown, !.expected = Unknown, !.retryCount = 0]
      BY <2>1, <2>3 DEF Verified
    <3>2. /\ main' \in [report : Powers, claim : Powers \cup {Unknown}, expected : Powers \cup {Unknown},
                        commandAt : Nat, retryCount : 0 .. 1]
          /\ main'.commandAt = main.commandAt /\ main'.retryCount = 0
      <4>1. 0 \in 0 .. 1
        OBVIOUS
      <4> QED  BY <1>2, <3>1, <4>1
    <3>3. unit.lost >= 2 /\ unit.lost >= main'.retryCount
      BY <1>1, <1>2, <1>3, <1>6, <2>3, <3>2
    <3>4. task' = [task EXCEPT ![c].stage = "done"]
      BY <3>1 DEF EndsTask
    <3> QED  BY <1>1, <1>6, <3>2, <3>3, <3>4, MovesLast
  <2>4. CASE main.report # task[c].on /\ ~(main.retryCount >= 1)
    <3>1. main' = [main EXCEPT !.retryCount = @ + 1] /\ task' = [task EXCEPT ![c].stage = "reauth"]
      BY <2>1, <2>4 DEF Verified
    <3>2. /\ main' \in [report : Powers, claim : Powers \cup {Unknown}, expected : Powers \cup {Unknown},
                        commandAt : Nat, retryCount : 0 .. 1]
          /\ main'.commandAt = main.commandAt /\ main'.retryCount = main.retryCount + 1
          /\ main'.expected = main.expected
      BY <1>2, <2>4, <3>1
    <3>3. unit.lost >= main'.retryCount
      BY <1>1, <1>2, <1>3, <1>6, <2>4, <3>2
    <3> QED  BY <1>1, <1>2, <1>6, <3>1, <3>2, <3>3, MovesLast
  <2> QED  BY <2>2, <2>3, <2>4
<1> QED  BY <1>5, <1>6

\* A retry: whoever re-authenticates was the last to send, or has been overtaken.
LEMMA RetriedLast == ASSUME LastInv, NEW c \in SwitchCommands, Retried(c) PROVE LastInv'
<1>1. /\ task[c].stage = "reauth" /\ task' = [task EXCEPT ![c].stage = "connecting"]
      /\ UNCHANGED <<main, unit, asked, overridden>>
  BY DEF Retried
<1>2. /\ unit.lost >= main.retryCount /\ main.retryCount <= main.retryCount
      /\ main \in [report : Powers, claim : Powers \cup {Unknown}, expected : Powers \cup {Unknown},
                   commandAt : Nat, retryCount : 0 .. 1]
  BY DEF LastInv, SwitchTypes
<1> QED  BY <1>1, <1>2, MovesLast

\* A message that arrives or is lost: the one behind it is still the last.
LEMMA ReceivesLast == ASSUME LastInv, UnitReceives PROVE LastInv'
<1>1. UNCHANGED <<main, task, asked, overridden>> /\ unit.wire # <<>>
  BY DEF UnitReceives
<1>2. /\ unit.wire \in Seq(Powers) /\ unit.lost \in Nat /\ main.retryCount \in 0 .. 1 /\ unit.power \in Powers
      /\ unit \in [power : Powers, wire : Seq(Powers), lost : Nat]
  BY DEF LastInv, SwitchTypes
<1>3. /\ Tail(unit.wire) \in Seq(Powers) /\ Head(unit.wire) \in Powers
      /\ Tail(unit.wire) = <<>> => unit.wire[Len(unit.wire)] = Head(unit.wire)
      /\ Tail(unit.wire) # <<>> => Tail(unit.wire)[Len(Tail(unit.wire))] = unit.wire[Len(unit.wire)]
  <2> DEFINE w == unit.wire
  <2>1. w \in Seq(Powers) /\ w # <<>>
    BY <1>1, <1>2
  <2> HIDE DEF w
  <2>2. Tail(w) \in Seq(Powers) /\ Head(w) \in Powers /\ Head(w) = w[1] /\ Len(w) \in Nat /\ Len(w) >= 1
    BY <2>1
  <2>3. Len(Tail(w)) = Len(w) - 1 /\ \A i \in 1 .. Len(w) - 1 : Tail(w)[i] = w[i + 1]
    BY <2>1
  <2>4. Tail(w) = <<>> => Len(w) = 1
    <3>1. Tail(w) = <<>> => Len(Tail(w)) = 0
      OBVIOUS
    <3> QED  BY <2>2, <2>3, <3>1
  <2>5. Tail(w) # <<>> => Len(Tail(w)) # 0
    <3>1. ASSUME NEW q \in Seq(Powers), Len(q) = 0 PROVE q = <<>>
      BY <3>1
    <3> QED  BY <2>2, <3>1
  <2>6. Tail(w) # <<>> => Tail(w)[Len(Tail(w))] = w[Len(w)]
    <3>1. Tail(w) # <<>> => Len(w) - 1 \in 1 .. Len(w) - 1
      BY <2>2, <2>3, <2>5
    <3>2. Len(w) - 1 + 1 = Len(w)
      BY <2>2
    <3> QED  BY <2>3, <3>1, <3>2
  <2> QED  BY <2>2, <2>4, <2>6 DEF w
<1>4. /\ unit' \in [power : Powers, wire : Seq(Powers), lost : Nat] /\ unit'.wire = Tail(unit.wire)
      /\ \/ unit'.power = Head(unit.wire) /\ unit'.lost = unit.lost
         \/ unit'.power = unit.power /\ unit'.lost = unit.lost + 1
  <2>1. CASE unit' = [unit EXCEPT !.wire = Tail(@), !.power = Head(unit.wire)]
    BY <1>2, <1>3, <2>1
  <2>2. CASE unit' = [unit EXCEPT !.wire = Tail(@), !.lost = @ + 1]
    <3>1. unit.lost + 1 \in Nat
      BY <1>2
    <3>2. unit' = [unit EXCEPT !.wire = Tail(unit.wire), !.lost = unit.lost + 1]
      BY <2>2
    <3> QED  BY <1>2, <1>3, <3>1, <3>2
  <2> QED  BY <2>1, <2>2 DEF UnitReceives
<1>5. SwitchTypes' /\ Sends' /\ HasLast'
  BY <1>1, <1>4 DEF LastInv, SwitchTypes, Sends, HasLast, IsLast
<1>6. ASSUME NEW c \in SwitchCommands, IsLast(c) PROVE LastIs(c)'
  <2>1. LastIs(c)
    BY <1>6 DEF LastInv
  <2>2. task[c].stage # "done"
    BY <1>1, <2>1 DEF LastIs
  <2>3. unit.lost >= main.retryCount
    BY DEF LastInv
  <2> QED  BY <1>1, <1>2, <1>3, <1>4, <2>1, <2>2, <2>3 DEF LastIs
<1>7. unit'.lost >= main'.retryCount
  BY <1>1, <1>2, <1>4 DEF LastInv
<1> QED  BY <1>1, <1>5, <1>6, <1>7 DEF LastInv, IsLast

\* A report, or the end of a claim, is about what the entity shows only.
LEMMA UpdatesLast ==
    ASSUME LastInv, SwitchUpdate \/ SwitchExpires \/ UNCHANGED switchVars
    PROVE  LastInv'
<1>1. /\ UNCHANGED <<task, unit, asked, overridden>>
      /\ main' \in [report : Powers, claim : Powers \cup {Unknown}, expected : Powers \cup {Unknown},
                    commandAt : Nat, retryCount : 0 .. 1]
      /\ main'.commandAt = main.commandAt /\ main'.expected = main.expected /\ main'.retryCount = main.retryCount
  <2>1. /\ main \in [report : Powers, claim : Powers \cup {Unknown}, expected : Powers \cup {Unknown},
                     commandAt : Nat, retryCount : 0 .. 1]
        /\ unit.power \in Powers
    BY DEF LastInv, SwitchTypes
  <2>2. CASE SwitchUpdate
    <3>1. PICK r \in Powers : main' = [main EXCEPT !.report = r, !.claim = IF main.claim = r THEN Unknown ELSE main.claim]
      BY <2>1, <2>2 DEF SwitchUpdate, Powers
    <3>2. PICK x \in Powers \cup {Unknown} : main' = [main EXCEPT !.report = r, !.claim = x]
      BY <2>1, <3>1
    <3> QED  BY <2>1, <2>2, <3>2 DEF SwitchUpdate
  <2>3. CASE SwitchExpires
    <3>1. main' = [main EXCEPT !.claim = Unknown]
      BY <2>3 DEF SwitchExpires
    <3> QED  BY <2>1, <2>3, <3>1 DEF SwitchExpires
  <2> QED  BY <2>1, <2>2, <2>3 DEF switchVars
<1> QED  BY <1>1 DEF LastInv, SwitchTypes, Sends, HasLast, IsLast, LastIs

\* Every step keeps the invariant: one case per action.
LEMMA LastStep == LastInv /\ [SwitchNext]_switchVars => LastInv'
BY TurnLast, SwitchedLast, FailsLast, VerifiedLast, RetriedLast, ReceivesLast, UpdatesLast DEF SwitchNext

\* In a quiet state of the invariant the last send was of the last command, and it arrived.
LEMMA LastImplies == LastInv => LastCommandHolds
<1> SUFFICES ASSUME LastInv, unit.wire = <<>>, unit.lost <= 1, ~overridden, asked.count > 0,
                    \A c \in SwitchCommands : task[c].stage \in {"free", "done"},
                    \A c \in SwitchCommands : task[c].stage = "done" => task[c].at # 0
             PROVE  unit.power = asked.on
    BY DEF LastCommandHolds
<1> DEFINE n == asked.count
<1>1. n \in SwitchCommands /\ n \in Nat /\ unit.lost \in Nat /\ main.commandAt \in Nat
  BY SwitchAssumption DEF LastInv, SwitchTypes, SwitchCommands
<1>2. \A c \in SwitchCommands : task[c].at \in Nat /\ task[c].at <= main.commandAt
  BY DEF LastInv, SwitchTypes, Sends
<1>3. task[n].stage = "done" /\ task[n].at # 0 /\ task[n].on = asked.on
  BY <1>1 DEF LastInv, Sends
<1>4. PICK c \in SwitchCommands : IsLast(c)
  BY <1>1, <1>2, <1>3 DEF LastInv, HasLast
<1>5. LastIs(c) /\ task[c].at # 0 /\ task[c].stage = "done" /\ ~task[c].overtaken
  <2>1. LastIs(c) /\ task[c].at # 0
    BY <1>4 DEF LastInv, IsLast
  <2>2. task[c].stage # "free"
    BY <2>1 DEF LastInv, Sends
  <2> QED  BY <2>1, <2>2 DEF LastIs
<1>6. c = n
  <2>1. c <= n /\ c \in Nat
    BY <1>1, <1>5 DEF LastInv, Sends, SwitchCommands
  <2>2. ~(c < n)
    BY <1>1, <1>2, <1>3, <1>4, <1>5 DEF LastInv, Sends, IsLast
  <2> QED  BY <1>1, <2>1, <2>2
<1> QED  BY <1>1, <1>3, <1>5, <1>6 DEF LastIs

(* The vehicle ends up as the user last asked, for any number of commands: if at
   most one message was lost and no older command was overtaken while it waited,
   then once every task is over the unit has the value of the last command
   (_verify_main_switch_readback).                                             *)
THEOREM LastCommandIsHeld == SwitchSpec => []LastCommandHolds
BY LastInit, LastStep, LastImplies, PTL DEF SwitchSpec

(* The number of sends: each waiting task will send once more, and was paid for
   by its command or by a retry.                                            *)
Waiting == {c \in SwitchCommands : task[c].stage \in {"connecting", "reauth"}}
SendsArePaid == main.commandAt + Cardinality(Waiting) <= asked.count + retries

\* A step of one task changes the number of those that will send by one at most.
LEMMA WaitingChanges ==
    ASSUME NEW c \in SwitchCommands, \A d \in SwitchCommands \ {c} : task'[d].stage = task[d].stage
    PROVE  /\ Cardinality(Waiting) \in Nat /\ Cardinality(Waiting') \in Nat
           /\ c \in Waiting /\ c \in Waiting' => Cardinality(Waiting') = Cardinality(Waiting)
           /\ c \notin Waiting /\ c \notin Waiting' => Cardinality(Waiting') = Cardinality(Waiting)
           /\ c \in Waiting /\ c \notin Waiting' => Cardinality(Waiting') = Cardinality(Waiting) - 1
           /\ c \notin Waiting /\ c \in Waiting' => Cardinality(Waiting') = Cardinality(Waiting) + 1
<1>1. IsFiniteSet(SwitchCommands)
  <2>1. 1 \in Int /\ MaxSwitched \in Int
    BY SwitchAssumption
  <2> QED  BY <2>1, FS_Interval DEF SwitchCommands
<1>2. Waiting \subseteq SwitchCommands /\ Waiting' \subseteq SwitchCommands
  BY DEF Waiting, SwitchCommands
<1>3. /\ IsFiniteSet(Waiting) /\ Cardinality(Waiting) \in Nat
      /\ IsFiniteSet(Waiting') /\ Cardinality(Waiting') \in Nat
  BY <1>1, <1>2, FS_Subset, FS_CardinalityType
<1>4. Waiting \ {c} = Waiting' \ {c}
  BY DEF Waiting, SwitchCommands
<1>5. CASE c \in Waiting <=> c \in Waiting'
  <2>1. Waiting' = Waiting
    BY <1>4, <1>5
  <2> QED  BY <1>3, <1>5, <2>1
<1>6. CASE c \in Waiting /\ c \notin Waiting'
  <2>1. Waiting' = Waiting \ {c}
    BY <1>4, <1>6
  <2> QED  BY <1>3, <1>6, <2>1, FS_RemoveElement
<1>7. CASE c \notin Waiting /\ c \in Waiting'
  <2>1. Waiting' = Waiting \cup {c}
    BY <1>4, <1>7
  <2> QED  BY <1>3, <1>7, <2>1, FS_AddElement
<1> QED  BY <1>5, <1>6, <1>7

\* Each send uses up a command or a retry that was paid for.
LEMMA SendsStep == LastInv /\ PaidInv /\ SendsArePaid /\ [SwitchNext]_switchVars => SendsArePaid'
<1> SUFFICES ASSUME LastInv, PaidInv, SendsArePaid, [SwitchNext]_switchVars PROVE SendsArePaid'
    OBVIOUS
<1>1. /\ main \in [report : Powers, claim : Powers \cup {Unknown}, expected : Powers \cup {Unknown},
                 commandAt : Nat, retryCount : 0 .. 1]
      /\ asked.count \in Nat /\ retries \in Nat /\ MaxSwitched \in Nat
      /\ task \in [SwitchCommands -> [stage : Stages, on : Powers, at : Nat, overtaken : BOOLEAN]]
  BY SwitchAssumption DEF LastInv, SwitchTypes, PaidInv, TaskTypes
<1>2. ASSUME NEW on \in Powers, Turn(on) PROVE SendsArePaid'
  <2> DEFINE c == asked.count + 1
  <2>1. c \in SwitchCommands /\ task[c].stage = "free" /\ task' = [task EXCEPT ![c] = TaskAt("connecting", on)]
        /\ asked'.count = asked.count + 1 /\ retries' = retries /\ main' = [main EXCEPT !.retryCount = 0]
    BY <1>1, <1>2 DEF Turn, PaidInv, TaskTypes
  <2> HIDE DEF c
  <2>2. task'[c].stage = "connecting" /\ \A d \in SwitchCommands \ {c} : task'[d].stage = task[d].stage
    BY <1>1, <2>1 DEF TaskAt
  <2>3. main'.commandAt = main.commandAt
    BY <1>1, <2>1
  <2>4. Cardinality(Waiting) \in Nat /\ Cardinality(Waiting') = Cardinality(Waiting) + 1
    BY <2>1, <2>2, WaitingChanges DEF Waiting, SwitchCommands
  <2> QED  BY <1>1, <2>1, <2>3, <2>4 DEF SendsArePaid
<1>3. ASSUME NEW c \in SwitchCommands, Switched(c) PROVE SendsArePaid'
  <2>1. task[c].stage = "connecting" /\ asked' = asked /\ retries' = retries
        /\ main' = [main EXCEPT !.claim = task[c].on, !.expected = task[c].on, !.commandAt = main.commandAt + 1]
    BY <1>3 DEF Switched
  <2>2. task'[c].stage = "sleeping" /\ \A d \in SwitchCommands \ {c} : task'[d].stage = task[d].stage
    BY <1>1, <1>3 DEF Switched
  <2>3. main'.commandAt = main.commandAt + 1
    BY <1>1, <2>1
  <2>4. Cardinality(Waiting) \in Nat /\ Cardinality(Waiting') = Cardinality(Waiting) - 1
    BY <2>1, <2>2, WaitingChanges DEF Waiting, SwitchCommands
  <2> QED  BY <1>1, <2>1, <2>3, <2>4 DEF SendsArePaid
<1>4. ASSUME NEW c \in SwitchCommands, NEW s \in {"connecting", "reauth", "done"}, task[c].stage # "free",
             \A d \in SwitchCommands \ {c} : task'[d].stage = task[d].stage, task'[c].stage = s,
             s = "connecting" => task[c].stage = "reauth",
             asked' = asked, main'.commandAt = main.commandAt,
             retries' = retries + (IF s = "reauth" THEN 1 ELSE 0)
      PROVE  SendsArePaid'
  <2>1. /\ Cardinality(Waiting) \in Nat /\ Cardinality(Waiting') \in Nat
        /\ Cardinality(Waiting') <= Cardinality(Waiting) + (IF s = "reauth" THEN 1 ELSE 0)
    <3>1. task[c].stage \in {"connecting", "reauth"} <=> c \in Waiting
      BY DEF Waiting
    <3>2. c \in Waiting' <=> s \in {"connecting", "reauth"}
      BY <1>4 DEF Waiting
    <3>3. s # "reauth" /\ c \in Waiting' => c \in Waiting
      BY <1>4, <3>1, <3>2
    <3>4. /\ Cardinality(Waiting) \in Nat /\ Cardinality(Waiting') \in Nat
          /\ c \in Waiting /\ c \in Waiting' => Cardinality(Waiting') = Cardinality(Waiting)
          /\ c \notin Waiting /\ c \notin Waiting' => Cardinality(Waiting') = Cardinality(Waiting)
          /\ c \in Waiting /\ c \notin Waiting' => Cardinality(Waiting') = Cardinality(Waiting) - 1
          /\ c \notin Waiting /\ c \in Waiting' => Cardinality(Waiting') = Cardinality(Waiting) + 1
      BY <1>4, WaitingChanges
    <3> HIDE DEF Waiting
    <3> QED  BY <3>2, <3>3, <3>4
  <2> QED  BY <1>1, <1>4, <2>1 DEF SendsArePaid
<1>5. ASSUME NEW c \in SwitchCommands, SwitchFails(c) PROVE SendsArePaid'
  <2>1. task[c].stage = "connecting" /\ UNCHANGED <<main, asked, retries>>
        /\ task' = [task EXCEPT ![c] = TaskAt("done", task[c].on)]
    BY <1>5 DEF SwitchFails
  <2>2. task'[c].stage = "done" /\ \A d \in SwitchCommands \ {c} : task'[d].stage = task[d].stage
    BY <1>1, <2>1 DEF TaskAt
  <2> QED  BY <1>1, <1>4, <2>1, <2>2
<1>6. ASSUME NEW c \in SwitchCommands, NEW s, task' = [task EXCEPT ![c].stage = s]
      PROVE  task'[c].stage = s /\ \A d \in SwitchCommands \ {c} : task'[d].stage = task[d].stage
  BY <1>1, <1>6
<1>7. ASSUME NEW c \in SwitchCommands, Verified(c) PROVE SendsArePaid'
  <2>1. /\ task[c].stage = "sleeping" /\ asked' = asked
        /\ \/ task' = [task EXCEPT ![c].stage = "done"] /\ retries' = retries
           \/ task' = [task EXCEPT ![c].stage = "reauth"] /\ retries' = retries + 1
    BY <1>7 DEF Verified, EndsTask
  <2>2. main'.commandAt = main.commandAt
    BY <1>1, <1>7 DEF Verified
  <2> QED  BY <1>1, <1>4, <1>6, <2>1, <2>2
<1>8. ASSUME NEW c \in SwitchCommands, Retried(c) PROVE SendsArePaid'
  <2>1. task[c].stage = "reauth" /\ UNCHANGED <<main, asked, retries>>
        /\ task' = [task EXCEPT ![c].stage = "connecting"]
    BY <1>8 DEF Retried
  <2> QED  BY <1>1, <1>4, <1>6, <2>1
<1>9. CASE UnitReceives \/ SwitchUpdate \/ SwitchExpires \/ UNCHANGED switchVars
  <2>1. UNCHANGED <<task, asked, retries>>
    BY <1>9 DEF UnitReceives, SwitchUpdate, SwitchExpires, switchVars
  <2>2. main'.commandAt = main.commandAt
    BY <1>1, <1>9 DEF UnitReceives, SwitchUpdate, SwitchExpires, switchVars
  <2> QED  BY <2>1, <2>2 DEF SendsArePaid, Waiting
<1> QED  BY <1>2, <1>3, <1>5, <1>7, <1>8, <1>9 DEF SwitchNext

(* The main switch's state is well typed; the number of the last send is at most
   three for each command, for it is sent once and at most twice again.          *)
THEOREM SwitchTypesHold == SwitchSpec => []SwitchTypeOK
<1>1. SwitchInit => SendsArePaid
  <2> SUFFICES ASSUME SwitchInit PROVE SendsArePaid
      OBVIOUS
  <2>1. Waiting = {}
    BY DEF SwitchInit, Waiting, NoTask, TaskAt
  <2>2. main.commandAt = 0 /\ asked.count = 0 /\ retries = 0
    BY DEF SwitchInit
  <2> QED  BY <2>1, <2>2, FS_EmptySet DEF SendsArePaid
<1>2. LastInv /\ PaidInv /\ SendsArePaid => SwitchTypeOK
  <2> SUFFICES ASSUME LastInv, PaidInv, SendsArePaid PROVE SwitchTypeOK
      OBVIOUS
  <2>1. RetriesAreBounded
    <3>1. /\ Cardinality(Over) \in 0 .. asked.count /\ asked.count \in Nat /\ retries \in Nat
          /\ main.retryCount \in 0 .. 1
      BY OverIsFinite, SwitchAssumption DEF PaidInv, TaskTypes
    <3> QED  BY <3>1 DEF PaidInv, Paid, RetriesAreBounded
  <2>2. Cardinality(Waiting) \in Nat
    <3>1. IsFiniteSet(SwitchCommands) /\ Waiting \subseteq SwitchCommands
      <4>1. 1 \in Int /\ MaxSwitched \in Int
        BY SwitchAssumption
      <4> QED  BY <4>1, FS_Interval DEF SwitchCommands, Waiting
    <3> QED  BY <3>1, FS_Subset, FS_CardinalityType
  <2>3. main.commandAt \in 0 .. 3 * MaxSwitched
    <3>1. main.commandAt \in Nat /\ asked.count \in 0 .. MaxSwitched /\ MaxSwitched \in Nat /\ retries \in Nat
      BY SwitchAssumption DEF LastInv, SwitchTypes, PaidInv, TaskTypes
    <3> QED  BY <2>1, <2>2, <3>1 DEF SendsArePaid, RetriesAreBounded
  <2> QED  BY <2>3 DEF LastInv, SwitchTypes, SwitchTypeOK, Stages
<1> QED  BY <1>1, <1>2, LastInit, LastStep, PaidInit, PaidStep, SendsStep, PTL DEF SwitchSpec

---------------------------------------------------------------------------
(***************************************************************************)
(* The controls.  First what the tables of each device say: every command  *)
(* does what it claims, in whatever state the vehicle is when it arrives,  *)
(* and leaves what it does not tell of.                                    *)
(***************************************************************************)
(* What a device may be in, what may be reported of it, what may be claimed. *)
States(d) == {s \in [Slots(d) -> ValuesOf(d)] : \A x \in Slots(d) : s[x] \in SlotValues(d)[x]}
Reports(d) == {s \in [Slots(d) -> ValuesOf(d)] : \A x \in Slots(d) : s[x] \in SlotValues(d)[x] \cup {None}}
ClaimSets(d) == {k \in [Attrs(d) -> ClaimsOf(d)] : \A a \in Attrs(d) : k[a] \in Asks(d)[a] \cup {None}}

(* Taken, at a device in any state. *)
TakenBy(d, w, writes) ==
    LET written == Override(w, writes)
    IN  IF d = "maxxfan" /\ written.state = "false" THEN [written EXCEPT !.speed = "OFF"] ELSE written

(* After these writes the attribute reads x; they leave what it reads.      *)
Fixes(d, writes, a, x) == \A w \in States(d) : ReadBack(d, TakenBy(d, w, writes))[a] = x
Leaves(d, writes, a) == \A w \in States(d) : ReadBack(d, TakenBy(d, w, writes))[a] = ReadBack(d, w)[a]
Told(d, writes) == ReadBack(d, Override([s \in Slots(d) |-> None], writes))
Untold(d) == ReadBack(d, [s \in Slots(d) |-> None])

(* The writes of a command are what it claims, and else what they tell.     *)
Sound(d, writes, claim) ==
    \A a \in Attrs(d) :
        /\ a \in DOMAIN claim => claim[a] = None \/ Fixes(d, writes, a, claim[a])
        /\ a \notin DOMAIN claim /\ Told(d, writes)[a] = Untold(d)[a] => Leaves(d, writes, a)
        /\ a \notin DOMAIN claim /\ Told(d, writes)[a] # Untold(d)[a] => Fixes(d, writes, a, Told(d, writes)[a])
(* A command writes values of the device's slots and claims what may be claimed. *)
WellFormed(d, command) ==
    /\ \A x \in Slots(d) \cap DOMAIN command.writes : command.writes[x] \in SlotValues(d)[x]
    /\ \A a \in Attrs(d) \cap DOMAIN command.early : command.early[a] \in Asks(d)[a] \cup {None}
    /\ \A a \in Attrs(d) \cap DOMAIN command.claim : command.claim[a] \in Asks(d)[a] \cup {None}

\* The panel's slots, attributes and values.
LEMMA Panel ==
    /\ Slots("panel") = {"setpoint", "boiler", "fuel", "mirror"}
    /\ SlotValues("panel").setpoint = {"off", "18", "20"} /\ SlotValues("panel").boiler = {"OFF", "HOT"}
    /\ SlotValues("panel").fuel = {"Diesel", "Electricity"} /\ SlotValues("panel").mirror = {"Diesel", "Electricity"}
    /\ Attrs("panel") = {"hvac", "temp", "boiler", "energy"}
    /\ Asks("panel").hvac = {"off", "heat"} /\ Asks("panel").temp = {"18", "20"}
    /\ Asks("panel").boiler = {"Off", "Turbo"} /\ Asks("panel").energy = {"Diesel", "Electricity"}
BY DEF Slots, SlotValues, Attrs, Asks

\* How the panel's entities read its slots.
LEMMA PanelReads ==
    ASSUME NEW s, DOMAIN s = Slots("panel")
    PROVE  LET r == ReadBack("panel", s)
           IN  /\ r.hvac = (IF s["setpoint"] \notin {"off", None} THEN "heat" ELSE "off")
               /\ r.temp = (IF s["setpoint"] = "off" THEN None ELSE s["setpoint"])
               /\ r.boiler = (IF s["boiler"] = None THEN None ELSE IF s["boiler"] = "HOT" THEN "Turbo" ELSE "Off")
               /\ r.energy = s["fuel"]
BY DEF ReadBack, TrumaRead, None

\* What writing some slots does to a state.
LEMMA Overridden ==
    ASSUME NEW f, NEW g
    PROVE  /\ DOMAIN Override(f, g) = DOMAIN f
           /\ \A x \in DOMAIN f : x \in DOMAIN g => Override(f, g)[x] = g[x]
           /\ \A x \in DOMAIN f : x \notin DOMAIN g => Override(f, g)[x] = f[x]
BY DEF Override

\* A command is sound when its writes set the attributes of f, whatever the state, and
\* leave the others; its claims agree with f; what it sets beside them it tells.
LEMMA SoundWhen ==
    ASSUME NEW d, d # "maxxfan", NEW writes, NEW claim, NEW f,
           \A w : DOMAIN w = Slots(d) => \A a \in Attrs(d) :
              ReadBack(d, Override(w, writes))[a] = IF a \in DOMAIN f THEN f[a] ELSE ReadBack(d, w)[a],
           \A a \in Attrs(d) \cap DOMAIN claim : claim[a] = None \/ (a \in DOMAIN f /\ f[a] = claim[a]),
           \A a \in (Attrs(d) \cap DOMAIN f) \ DOMAIN claim : f[a] # Untold(d)[a]
    PROVE  Sound(d, writes, claim)
<1> DEFINE blank == [s \in Slots(d) |-> None]
<1>1. DOMAIN blank = Slots(d) /\ \A w \in States(d) : DOMAIN w = Slots(d)
  BY DEF States
<1>2. \A w \in States(d) : TakenBy(d, w, writes) = Override(w, writes)
  BY DEF TakenBy
<1>3. ASSUME NEW a \in Attrs(d), a \in DOMAIN f
      PROVE  Fixes(d, writes, a, f[a]) /\ Told(d, writes)[a] = f[a]
  BY <1>1, <1>2, <1>3 DEF Fixes, Told
<1>4. ASSUME NEW a \in Attrs(d), a \notin DOMAIN f
      PROVE  Leaves(d, writes, a) /\ Told(d, writes)[a] = Untold(d)[a]
  BY <1>1, <1>2, <1>4 DEF Leaves, Told, Untold
<1> QED  BY <1>3, <1>4 DEF Sound

\* Each command of the panel's three entities does what it claims.
LEMMA PanelSound ==
    ASSUME NEW s \in Reports("panel"), NEW k \in ClaimSets("panel"), NEW a \in Attrs("panel"), NEW v \in Asks("panel")[a]
    PROVE  LET command == Command("panel", a, v, s, k)
           IN  WellFormed("panel", command) /\ Sound("panel", command.writes, command.claim)
<1> DEFINE command == Command("panel", a, v, s, k)
<1> SUFFICES WellFormed("panel", command) /\ Sound("panel", command.writes, command.claim)
    OBVIOUS
<1>1. s["mirror"] \in {"Diesel", "Electricity", None} /\ s["fuel"] \in {"Diesel", "Electricity", None}
      /\ s["setpoint"] \in {"off", "18", "20", None} /\ k["temp"] \in {"18", "20", None}
  BY Panel DEF Reports, ClaimSets
<1> DEFINE Heats == \E t \in {"18", "20"} :
                /\ command.claim = [hvac |-> "heat", temp |-> t]
                /\ \/ command.writes = [setpoint |-> t]
                   \/ \E m \in {"Diesel", "Electricity"} : command.writes = [setpoint |-> t, mirror |-> m]
           Stops == /\ command.claim = [hvac |-> "off", temp |-> None]
                    /\ \/ command.writes = [setpoint |-> "off"]
                       \/ \E m \in {"Diesel", "Electricity"} : command.writes = [setpoint |-> "off", mirror |-> m]
           Boils == \E m \in {"Diesel", "Electricity"} :
                \/ command.writes = [boiler |-> "OFF", fuel |-> m] /\ command.claim = [boiler |-> "Off"]
                \/ command.writes = [boiler |-> "HOT", fuel |-> m] /\ command.claim = [boiler |-> "Turbo"]
           Fuels == \E m \in {"Diesel", "Electricity"} :
                command.writes = [fuel |-> m, mirror |-> m] /\ command.claim = [energy |-> m]
<1>2. Heats \/ Stops \/ Boils \/ Fuels
  <2>0. /\ \A t : SetpointWrites(t, s) = [setpoint |-> t]
                  \/ \E m \in {"Diesel", "Electricity"} : SetpointWrites(t, s) = [setpoint |-> t, mirror |-> m]
        /\ Known(s.fuel, "Diesel") \in {"Diesel", "Electricity"}
        /\ Known(k.temp, Known(TrumaRead(s).temp, "20")) \in {"18", "20"}
    BY <1>1 DEF SetpointWrites, Known, TrumaRead, None
  <2>1. command.writes = TrumaCommand(a, v, s, k).writes /\ command.claim = TrumaCommand(a, v, s, k).claim
    BY DEF Command, Later
  <2>2. CASE a = "temp"
    <3>1. TrumaCommand(a, v, s, k) = [writes |-> SetpointWrites(v, s), claim |-> [hvac |-> "heat", temp |-> v]]
      BY <2>2 DEF TrumaCommand
    <3>2. v \in {"18", "20"}
      BY <2>2, Panel
    <3> QED  BY <2>0, <2>1, <3>1, <3>2
  <2>3. CASE a = "hvac" /\ v = "heat"
    <3> DEFINE t == Known(k.temp, Known(TrumaRead(s).temp, "20"))
    <3>1. TrumaCommand(a, v, s, k) = [writes |-> SetpointWrites(t, s), claim |-> [hvac |-> "heat", temp |-> t]]
      BY <2>3 DEF TrumaCommand
    <3> HIDE DEF t
    <3>2. t \in {"18", "20"}
      BY <2>0 DEF t
    <3> QED  BY <2>0, <2>1, <3>1, <3>2
  <2>4. CASE a = "hvac" /\ v = "off"
    <3>1. TrumaCommand(a, v, s, k) = [writes |-> SetpointWrites("off", s), claim |-> [hvac |-> "off", temp |-> None]]
      BY <2>4 DEF TrumaCommand
    <3> QED  BY <2>0, <2>1, <3>1
  <2>5. CASE a = "boiler"
    <3>1. TrumaCommand(a, v, s, k) = [writes |-> [boiler |-> BoilerWire[v], fuel |-> Known(s.fuel, "Diesel")],
                                      claim |-> [boiler |-> v]]
      BY <2>5 DEF TrumaCommand
    <3>2. (v = "Off" /\ BoilerWire[v] = "OFF") \/ (v = "Turbo" /\ BoilerWire[v] = "HOT")
      <4>1. v \in {"Off", "Turbo"}
        BY <2>5, Panel
      <4>2. BoilerWire["Off"] = "OFF" /\ BoilerWire["Turbo"] = "HOT"
        BY DEF BoilerWire
      <4> QED  BY <4>1, <4>2
    <3> QED  BY <2>0, <2>1, <3>1, <3>2
  <2>6. CASE a = "energy"
    <3>1. TrumaCommand(a, v, s, k) = [writes |-> EnergyWrites(v), claim |-> [energy |-> v]]
      BY <2>6 DEF TrumaCommand
    <3>2. v \in {"Diesel", "Electricity"}
      BY <2>6, Panel
    <3> QED  BY <2>1, <3>1, <3>2 DEF EnergyWrites
  <2> HIDE DEF Heats, Stops, Boils, Fuels
  <2> QED  BY <2>2, <2>3, <2>4, <2>5, <2>6, Panel
<1>3. command.early = <<>>
  BY DEF Command, Later
<1> HIDE DEF command
<1>4. WellFormed("panel", command)
  BY <1>2, <1>3, Panel DEF WellFormed
<1> DEFINE Reads(f) == \A w : DOMAIN w = Slots("panel") => \A x \in Attrs("panel") :
               ReadBack("panel", Override(w, command.writes))[x] = IF x \in DOMAIN f THEN f[x] ELSE ReadBack("panel", w)[x]
<1>5. ASSUME NEW w, DOMAIN w = Slots("panel")
      PROVE  LET r == ReadBack("panel", Override(w, command.writes))
                 o == Override(w, command.writes)
             IN  /\ r["hvac"] = (IF o["setpoint"] \notin {"off", None} THEN "heat" ELSE "off")
                 /\ r["temp"] = (IF o["setpoint"] = "off" THEN None ELSE o["setpoint"])
                 /\ r["boiler"] = (IF o["boiler"] = None THEN None ELSE IF o["boiler"] = "HOT" THEN "Turbo" ELSE "Off")
                 /\ r["energy"] = o["fuel"]
  BY <1>5, PanelReads, Overridden
<1>6. ASSUME NEW t \in {"18", "20"}, command.claim = [hvac |-> "heat", temp |-> t],
             \/ command.writes = [setpoint |-> t]
             \/ \E m \in {"Diesel", "Electricity"} : command.writes = [setpoint |-> t, mirror |-> m]
      PROVE  Sound("panel", command.writes, command.claim)
  <2>1. \A w : DOMAIN w = Slots("panel") =>
           LET o == Override(w, command.writes)
           IN  o["setpoint"] = t /\ o["boiler"] = w["boiler"] /\ o["fuel"] = w["fuel"]
    BY <1>6, Panel, Overridden
  <2>2. Reads([hvac |-> "heat", temp |-> t])
    BY <1>5, <2>1, Panel, PanelReads DEF None
  <2> QED  BY <1>6, <2>2, SoundWhen, Panel
<1>7. ASSUME command.claim = [hvac |-> "off", temp |-> None],
             \/ command.writes = [setpoint |-> "off"]
             \/ \E m \in {"Diesel", "Electricity"} : command.writes = [setpoint |-> "off", mirror |-> m]
      PROVE  Sound("panel", command.writes, command.claim)
  <2>1. \A w : DOMAIN w = Slots("panel") =>
           LET o == Override(w, command.writes)
           IN  o["setpoint"] = "off" /\ o["boiler"] = w["boiler"] /\ o["fuel"] = w["fuel"]
    BY <1>7, Panel, Overridden
  <2>2. Reads([hvac |-> "off", temp |-> None])
    BY <1>5, <2>1, Panel, PanelReads DEF None
  <2> QED  BY <1>7, <2>2, SoundWhen, Panel
<1>8. ASSUME NEW m \in {"Diesel", "Electricity"}, NEW b \in {"OFF", "HOT"},
             command.writes = [boiler |-> b, fuel |-> m],
             command.claim = [boiler |-> IF b = "HOT" THEN "Turbo" ELSE "Off"]
      PROVE  Sound("panel", command.writes, command.claim)
  <2>1. \A w : DOMAIN w = Slots("panel") =>
           LET o == Override(w, command.writes)
           IN  o["setpoint"] = w["setpoint"] /\ o["boiler"] = b /\ o["fuel"] = m
    BY <1>8, Panel, Overridden
  <2>2. Reads([boiler |-> IF b = "HOT" THEN "Turbo" ELSE "Off", energy |-> m])
    BY <1>5, <2>1, Panel, PanelReads DEF None
  <2>3. Untold("panel")["energy"] = None
    BY PanelReads, Panel DEF Untold
  <2> QED  BY <1>8, <2>2, <2>3, SoundWhen, Panel DEF None
<1>9. ASSUME NEW m \in {"Diesel", "Electricity"},
             command.writes = [fuel |-> m, mirror |-> m], command.claim = [energy |-> m]
      PROVE  Sound("panel", command.writes, command.claim)
  <2>1. \A w : DOMAIN w = Slots("panel") =>
           LET o == Override(w, command.writes)
           IN  o["setpoint"] = w["setpoint"] /\ o["boiler"] = w["boiler"] /\ o["fuel"] = m
    BY <1>9, Panel, Overridden
  <2>2. Reads([energy |-> m])
    BY <1>5, <2>1, Panel, PanelReads DEF None
  <2> QED  BY <1>9, <2>2, SoundWhen, Panel
<1>10. CASE Heats
  BY <1>4, <1>6, <1>10
<1>11. CASE Stops
  BY <1>4, <1>7, <1>11
<1>12. CASE Boils
  <2>1. PICK m \in {"Diesel", "Electricity"} :
             \/ command.writes = [boiler |-> "OFF", fuel |-> m] /\ command.claim = [boiler |-> "Off"]
             \/ command.writes = [boiler |-> "HOT", fuel |-> m] /\ command.claim = [boiler |-> "Turbo"]
    BY <1>12
  <2>2. PICK b \in {"OFF", "HOT"} : /\ command.writes = [boiler |-> b, fuel |-> m]
                                    /\ command.claim = [boiler |-> IF b = "HOT" THEN "Turbo" ELSE "Off"]
    BY <2>1
  <2> QED  BY <1>4, <1>8, <2>2
<1>13. CASE Fuels
  BY <1>4, <1>9, <1>13
<1> QED  BY <1>2, <1>10, <1>11, <1>12, <1>13

---------------------------------------------------------------------------
\* The slots, attributes and values of the enum heater and the air conditioner.
LEMMA Climates ==
    /\ \A d \in {"modern", "aircon"} :
          /\ Slots(d) = {"mode", "target", "fan"} /\ Attrs(d) = {"hvac", "temp", "fan"}
          /\ SlotValues(d)["target"] = {"18", "20"} /\ SlotValues(d)["fan"] = {"LOW", "HIGH"}
          /\ Asks(d)["hvac"] = {"off", "heat", "cool", "fan_only"} /\ Asks(d)["temp"] = {"18", "20"}
          /\ Asks(d)["fan"] = {"LOW", "HIGH"}
    /\ SlotValues("modern")["mode"] = {"OFF", "HEATING", "VENTILATING"}
    /\ SlotValues("aircon")["mode"] = {"OFF", "COOL", "FAN"}
BY DEF Slots, SlotValues, Attrs, Asks

\* An option that one mode stands for reads as this mode.
LEMMA TheMode ==
    ASSUME NEW table, NEW m \in DOMAIN table, \A n \in DOMAIN table : table[n] = table[m] => n = m
    PROVE  HvacOf(table, table[m]) = m
<1>1. {n \in DOMAIN table : table[n] = table[m]} = {m}
  OBVIOUS
<1> QED  BY <1>1 DEF HvacOf

\* The modes of the three tables are inverted by the reading.
LEMMA TheModes ==
    /\ HvacOf(ModeTable("modern"), "OFF") = "off" /\ HvacOf(ModeTable("modern"), "HEATING") = "heat"
    /\ HvacOf(ModeTable("modern"), "VENTILATING") = "fan_only" /\ HvacOf(ModeTable("modern"), None) = None
    /\ HvacOf(ModeTable("aircon"), "OFF") = "off" /\ HvacOf(ModeTable("aircon"), "COOL") = "cool"
    /\ HvacOf(ModeTable("aircon"), "FAN") = "fan_only" /\ HvacOf(ModeTable("aircon"), None) = None
    /\ HvacOf(ZoneModes, "OFF") = "off" /\ HvacOf(ZoneModes, "HEAT") = "heat"
    /\ HvacOf(ZoneModes, None) = None
<1>1. /\ DOMAIN ModeTable("modern") = {"off", "heat", "fan_only"}
      /\ ModeTable("modern")["off"] = "OFF" /\ ModeTable("modern")["heat"] = "HEATING"
      /\ ModeTable("modern")["fan_only"] = "VENTILATING"
  BY DEF ModeTable
<1>2. /\ DOMAIN ModeTable("aircon") = {"off", "cool", "fan_only"}
      /\ ModeTable("aircon")["off"] = "OFF" /\ ModeTable("aircon")["cool"] = "COOL"
      /\ ModeTable("aircon")["fan_only"] = "FAN"
  BY DEF ModeTable
<1>3. /\ DOMAIN ZoneModes = {"off", "heat", "heat_cool"}
      /\ ZoneModes["off"] = "OFF" /\ ZoneModes["heat"] = "HEAT" /\ ZoneModes["heat_cool"] = "AUTO_HEAT_COOL"
  BY DEF ZoneModes
<1>4. \A m \in {"off", "heat", "fan_only"} : HvacOf(ModeTable("modern"), ModeTable("modern")[m]) = m
  BY <1>1, TheMode
<1>5. \A m \in {"off", "cool", "fan_only"} : HvacOf(ModeTable("aircon"), ModeTable("aircon")[m]) = m
  BY <1>2, TheMode
<1>6. \A m \in {"off", "heat"} : HvacOf(ZoneModes, ZoneModes[m]) = m
  BY <1>3, TheMode
<1>7. /\ HvacOf(ModeTable("modern"), None) = None /\ HvacOf(ModeTable("aircon"), None) = None
      /\ HvacOf(ZoneModes, None) = None
  BY <1>1, <1>2, <1>3 DEF HvacOf, None
<1> QED  BY <1>1, <1>2, <1>3, <1>4, <1>5, <1>6, <1>7

\* How an enum climate entity reads its slots.
LEMMA ClimateReads ==
    ASSUME NEW d \in {"modern", "aircon"}, NEW s, DOMAIN s = Slots(d)
    PROVE  /\ ReadBack(d, s)["hvac"] = HvacOf(ModeTable(d), s["mode"])
           /\ ReadBack(d, s)["temp"] = s["target"] /\ ReadBack(d, s)["fan"] = s["fan"]
BY DEF ReadBack, ClimateRead

\* Each command of the enum heater does what it claims.
LEMMA ModernSound ==
    ASSUME NEW s \in Reports("modern"), NEW k \in ClaimSets("modern"), NEW a \in Attrs("modern"),
           NEW v \in Asks("modern")[a], Accepts("modern", a, v)
    PROVE  LET command == Command("modern", a, v, s, k)
           IN  WellFormed("modern", command) /\ Sound("modern", command.writes, command.claim)
<1> DEFINE command == HeaterCommand(a, v, s, k)
           Reads(f) == \A w : DOMAIN w = Slots("modern") => \A x \in Attrs("modern") :
               ReadBack("modern", Override(w, command.writes))[x] = IF x \in DOMAIN f THEN f[x] ELSE ReadBack("modern", w)[x]
<1>1. Command("modern", a, v, s, k) = command
  BY DEF Command
<1>2. Untold("modern")["temp"] = None /\ Untold("modern")["hvac"] = None
  BY ClimateReads, Climates, TheModes DEF Untold
<1>3. CASE a = "hvac"
  <2>1. v \in {"off", "heat", "fan_only"}
    BY <1>3 DEF Accepts, ModeTable
  <2>2. CASE command = [writes |-> [mode |-> "HEATING", target |-> "20"], early |-> [temp |-> "20"], claim |-> [hvac |-> "heat"]]
    <3>1. Reads([hvac |-> "heat", temp |-> "20"])
      BY <2>2, Climates, ClimateReads, Overridden, TheModes
    <3>2. WellFormed("modern", command)
      BY <2>2, Climates DEF WellFormed
    <3> QED  BY <1>1, <1>2, <2>2, <3>1, <3>2, SoundWhen, Climates DEF None
  <2>3. CASE command = [writes |-> [mode |-> ModeTable("modern")[v]], early |-> <<>>, claim |-> [hvac |-> v]]
    <3>1. /\ HvacOf(ModeTable("modern"), ModeTable("modern")[v]) = v
          /\ ModeTable("modern")[v] \in {"OFF", "HEATING", "VENTILATING"}
      BY <2>1, TheModes DEF ModeTable
    <3>2. Reads([hvac |-> v])
      BY <2>3, <3>1, Climates, ClimateReads, Overridden
    <3>3. WellFormed("modern", command)
      BY <2>1, <2>3, <3>1, Climates DEF WellFormed
    <3> QED  BY <1>1, <2>3, <3>2, <3>3, SoundWhen, Climates
  <2> QED  BY <1>3, <2>1, <2>2, <2>3 DEF HeaterCommand
<1>4. CASE a = "temp"
  <2>1. v \in {"18", "20"}
    BY <1>4, Climates
  <2>2. CASE command = [writes |-> [mode |-> "HEATING", target |-> v], early |-> [hvac |-> "heat"], claim |-> [temp |-> v]]
    <3>1. Reads([hvac |-> "heat", temp |-> v])
      BY <2>2, Climates, ClimateReads, Overridden, TheModes
    <3>2. WellFormed("modern", command)
      BY <2>1, <2>2, Climates DEF WellFormed
    <3> QED  BY <1>1, <1>2, <2>2, <3>1, <3>2, SoundWhen, Climates DEF None
  <2>3. CASE command = [writes |-> [target |-> v], early |-> <<>>, claim |-> [temp |-> v]]
    <3>1. Reads([temp |-> v])
      BY <2>3, Climates, ClimateReads, Overridden
    <3>2. WellFormed("modern", command)
      BY <2>1, <2>3, Climates DEF WellFormed
    <3> QED  BY <1>1, <2>3, <3>1, <3>2, SoundWhen, Climates
  <2> QED  BY <1>4, <2>2, <2>3 DEF HeaterCommand
<1>5. CASE a = "fan"
  <2>1. v \in {"LOW", "HIGH"}
    BY <1>5, Climates
  <2>2. command = [writes |-> [fan |-> v], early |-> <<>>, claim |-> [fan |-> v]]
    BY <1>5 DEF HeaterCommand
  <2>3. Reads([fan |-> v])
    BY <2>2, Climates, ClimateReads, Overridden
  <2>4. WellFormed("modern", command)
    BY <2>1, <2>2, Climates DEF WellFormed
  <2> QED  BY <1>1, <2>2, <2>3, <2>4, SoundWhen, Climates
<1> QED  BY <1>3, <1>4, <1>5, Climates

\* Each command of the air conditioner does what it claims.
LEMMA AirConditionerSound ==
    ASSUME NEW s, NEW k, NEW a \in Attrs("aircon"), NEW v \in Asks("aircon")[a], Accepts("aircon", a, v)
    PROVE  LET command == Command("aircon", a, v, s, k)
           IN  WellFormed("aircon", command) /\ Sound("aircon", command.writes, command.claim)
<1> DEFINE command == Command("aircon", a, v, s, k)
           Reads(f) == \A w : DOMAIN w = Slots("aircon") => \A x \in Attrs("aircon") :
               ReadBack("aircon", Override(w, command.writes))[x] = IF x \in DOMAIN f THEN f[x] ELSE ReadBack("aircon", w)[x]
<1>1. command.writes = AirConditionerCommand(a, v).writes /\ command.claim = AirConditionerCommand(a, v).claim
      /\ command.early = <<>>
  BY DEF Command, Later
<1>2. command.claim = [x \in {a} |-> v]
  BY <1>1 DEF AirConditionerCommand
<1>3. CASE a = "hvac"
  <2>1. v \in {"off", "cool", "fan_only"}
    BY <1>3 DEF Accepts, ModeTable
  <2>2. command.writes = [mode |-> ModeTable("aircon")[v]]
    BY <1>1, <1>3 DEF AirConditionerCommand
  <2> HIDE DEF command
  <2>3. HvacOf(ModeTable("aircon"), ModeTable("aircon")[v]) = v /\ ModeTable("aircon")[v] \in {"OFF", "COOL", "FAN"}
    BY <2>1, TheModes DEF ModeTable
  <2>4. Reads([hvac |-> v])
    BY <2>2, <2>3, Climates, ClimateReads, Overridden
  <2>5. WellFormed("aircon", command)
    BY <1>1, <1>2, <1>3, <2>1, <2>2, <2>3, Climates DEF WellFormed
  <2> QED  BY <1>2, <1>3, <2>4, <2>5, SoundWhen, Climates DEF command
<1>4. CASE a = "temp"
  <2>1. v \in {"18", "20"} /\ command.writes = [target |-> v]
    BY <1>1, <1>4, Climates DEF AirConditionerCommand
  <2> HIDE DEF command
  <2>2. Reads([temp |-> v])
    BY <2>1, Climates, ClimateReads, Overridden
  <2>3. WellFormed("aircon", command)
    BY <1>1, <1>2, <1>4, <2>1, Climates DEF WellFormed
  <2> QED  BY <1>2, <1>4, <2>2, <2>3, SoundWhen, Climates DEF command
<1>5. CASE a = "fan"
  <2>1. v \in {"LOW", "HIGH"} /\ command.writes = [fan |-> v]
    BY <1>1, <1>5, Climates DEF AirConditionerCommand
  <2> HIDE DEF command
  <2>2. Reads([fan |-> v])
    BY <2>1, Climates, ClimateReads, Overridden
  <2>3. WellFormed("aircon", command)
    BY <1>1, <1>2, <1>5, <2>1, Climates DEF WellFormed
  <2> QED  BY <1>2, <1>5, <2>2, <2>3, SoundWhen, Climates DEF command
<1> QED  BY <1>3, <1>4, <1>5, Climates

---------------------------------------------------------------------------
\* The slots, attributes and values of an Airxcel zone.
LEMMA Zone ==
    /\ Slots("zone") = {"mode", "heat", "fanmode", "speed"} /\ Attrs("zone") = {"hvac", "heat", "fan"}
    /\ SlotValues("zone")["mode"] = {"OFF", "HEAT", "AUX_HEAT"} /\ SlotValues("zone")["heat"] = {"18", "20"}
    /\ SlotValues("zone")["fanmode"] = {"AUTO", "ON"} /\ SlotValues("zone")["speed"] = {"LOW", "HIGH"}
    /\ Asks("zone")["hvac"] = {"off", "heat"} /\ Asks("zone")["heat"] = {"18", "20"}
    /\ Asks("zone")["fan"] = {"AUTO", "LOW"}
BY DEF Slots, SlotValues, Attrs, Asks

\* How the zone's entity reads its slots.
LEMMA ZoneReads ==
    ASSUME NEW s, DOMAIN s = Slots("zone")
    PROVE  /\ ReadBack("zone", s)["hvac"] = (IF s["mode"] = "AUX_HEAT" THEN "heat" ELSE HvacOf(ZoneModes, s["mode"]))
           /\ ReadBack("zone", s)["heat"] = s["heat"]
           /\ ReadBack("zone", s)["fan"] = (IF s["fanmode"] = "AUTO" THEN "AUTO" ELSE s["speed"])
BY DEF ReadBack, ZoneRead

\* Each command of the zone does what it claims.
LEMMA ZoneSound ==
    ASSUME NEW s, NEW k, NEW a \in Attrs("zone"), NEW v \in Asks("zone")[a]
    PROVE  LET command == Command("zone", a, v, s, k)
           IN  WellFormed("zone", command) /\ Sound("zone", command.writes, command.claim)
<1> DEFINE command == ZoneCommand(a, v)
           Reads(f) == \A w : DOMAIN w = Slots("zone") => \A x \in Attrs("zone") :
               ReadBack("zone", Override(w, command.writes))[x] = IF x \in DOMAIN f THEN f[x] ELSE ReadBack("zone", w)[x]
<1>1. Command("zone", a, v, s, k) = command
  BY DEF Command
<1> SUFFICES WellFormed("zone", command) /\ Sound("zone", command.writes, command.claim)
    BY <1>1
<1>2. Untold("zone")["heat"] = None
  BY ZoneReads, Zone DEF Untold
<1>3. CASE a = "hvac"
  <2>1. v \in {"off", "heat"}
    BY <1>3, Zone
  <2>2. command = [writes |-> [mode |-> ZoneModes[v]], early |-> <<>>, claim |-> [hvac |-> v]]
    BY <1>3 DEF ZoneCommand
  <2>3. HvacOf(ZoneModes, ZoneModes[v]) = v /\ ZoneModes[v] \in {"OFF", "HEAT"}
    BY <2>1, TheModes DEF ZoneModes
  <2>4. Reads([hvac |-> v])
    BY <2>2, <2>3, Zone, ZoneReads, Overridden
  <2>5. WellFormed("zone", command)
    BY <2>1, <2>2, <2>3, Zone DEF WellFormed
  <2> QED  BY <2>2, <2>4, <2>5, SoundWhen, Zone
<1>4. CASE a = "heat"
  <2>1. v \in {"18", "20"} /\ command = [writes |-> [heat |-> v], early |-> [heat |-> v], claim |-> <<>>]
    BY <1>4, Zone DEF ZoneCommand
  <2>2. Reads([heat |-> v])
    BY <2>1, Zone, ZoneReads, Overridden
  <2>3. WellFormed("zone", command)
    BY <2>1, Zone DEF WellFormed
  <2> QED  BY <1>2, <2>1, <2>2, <2>3, SoundWhen, Zone DEF None
<1>5. CASE a = "fan"
  <2>1. v \in {"AUTO", "LOW"}
        /\ command = [writes |-> IF v = "AUTO" THEN [fanmode |-> "AUTO"] ELSE [fanmode |-> "ON", speed |-> v],
                      early |-> <<>>, claim |-> [fan |-> v]]
    BY <1>5, Zone DEF ZoneCommand
  <2>2. Reads([fan |-> v])
    <3>1. CASE v = "AUTO"
      BY <2>1, <3>1, Zone, ZoneReads, Overridden
    <3>2. CASE v = "LOW"
      BY <2>1, <3>2, Zone, ZoneReads, Overridden
    <3> QED  BY <2>1, <3>1, <3>2
  <2>3. WellFormed("zone", command)
    BY <2>1, Zone DEF WellFormed
  <2> QED  BY <2>1, <2>2, <2>3, SoundWhen, Zone
<1> QED  BY <1>3, <1>4, <1>5, Zone

---------------------------------------------------------------------------
\* The slots, attributes and values of the two fans.
LEMMA Fans ==
    /\ Slots("roof_fan") = {"state", "speedmode", "speed"} /\ Slots("maxxfan") = {"state", "speed"}
    /\ SlotValues("roof_fan")["state"] = {"ON", "OFF"} /\ SlotValues("roof_fan")["speedmode"] = {"AUTO", "MANUAL"}
    /\ SlotValues("roof_fan")["speed"] = {"LOW", "HIGH"}
    /\ SlotValues("maxxfan")["state"] = {"true", "false"} /\ SlotValues("maxxfan")["speed"] = {"OFF", "LOW", "HIGH"}
    /\ \A d \in {"roof_fan", "maxxfan"} :
          /\ Attrs(d) = {"on", "pct"}
          /\ Asks(d)["on"] = {"true", "false", "33"} /\ Asks(d)["pct"] = {"0", "33", "100"}
BY DEF Slots, SlotValues, Attrs, Asks

\* The percentages and the speeds are each other's inverse.
LEMMA ThePercentages ==
    /\ Lookup(PercentageOf, "OFF") = "0" /\ Lookup(PercentageOf, "LOW") = "33" /\ Lookup(PercentageOf, "HIGH") = "100"
    /\ Lookup(PercentageOf, None) = None
    /\ SpeedOf["33"] = "LOW" /\ SpeedOf["100"] = "HIGH"
BY DEF Lookup, PercentageOf, SpeedOf, None

\* How the fans' entities read their slots.
LEMMA FanReads ==
    /\ \A s : DOMAIN s = Slots("roof_fan") =>
          /\ ReadBack("roof_fan", s)["on"] = (IF s["state"] = None THEN None ELSE IF s["state"] = "ON" THEN "true" ELSE "false")
          /\ ReadBack("roof_fan", s)["pct"] = (IF s["speed"] = "OFF" THEN None ELSE Lookup(PercentageOf, s["speed"]))
    /\ \A s : DOMAIN s = Slots("maxxfan") =>
          /\ ReadBack("maxxfan", s)["on"] = s["state"]
          /\ ReadBack("maxxfan", s)["pct"] = Lookup(PercentageOf, s["speed"])
BY DEF ReadBack, RoofFanRead, MaxxFanRead

\* The commands of a fan: on; a speed, given with the switching on or not; off.
LEMMA FanCommands ==
    ASSUME NEW d \in {"roof_fan", "maxxfan"}, NEW a \in Attrs(d), NEW v \in Asks(d)[a]
    PROVE  \/ FanCommand(d, a, v) = [writes |-> FanOn(d), early |-> <<>>, claim |-> [on |-> "true"]]
           \/ \E p \in {"33", "100"} :
                 \/ FanCommand(d, a, v) = [writes |-> FanSpeed(d, SpeedOf[p]), early |-> [pct |-> p], claim |-> [on |-> "true"]]
                 \/ FanCommand(d, a, v) = [writes |-> FanSpeed(d, SpeedOf[p]), early |-> <<>>, claim |-> [on |-> "true", pct |-> p]]
           \/ FanCommand(d, a, v) = [writes |-> FanOff(d), early |-> <<>>,
                 claim |-> IF d = "roof_fan" THEN [on |-> "false"] ELSE [on |-> "false", pct |-> "0"]]
<1>1. CASE a = "on"
  <2>1. v \in {"true", "false", "33"}
    BY <1>1, Fans
  <2> QED  BY <1>1, <2>1 DEF FanCommand
<1>2. CASE a = "pct"
  <2>1. v \in {"0", "33", "100"}
    BY <1>2, Fans
  <2> QED  BY <1>2, <2>1 DEF FanCommand
<1> QED  BY <1>1, <1>2, Fans

\* Each command of the Airxcel roof fan does what it claims.
LEMMA RoofFanSound ==
    ASSUME NEW s, NEW k, NEW a \in Attrs("roof_fan"), NEW v \in Asks("roof_fan")[a]
    PROVE  LET command == Command("roof_fan", a, v, s, k)
           IN  WellFormed("roof_fan", command) /\ Sound("roof_fan", command.writes, command.claim)
<1> DEFINE command == FanCommand("roof_fan", a, v)
           Reads(f) == \A w : DOMAIN w = Slots("roof_fan") => \A x \in Attrs("roof_fan") :
               ReadBack("roof_fan", Override(w, command.writes))[x] = IF x \in DOMAIN f THEN f[x] ELSE ReadBack("roof_fan", w)[x]
<1>1. Command("roof_fan", a, v, s, k) = command
  BY DEF Command
<1> SUFFICES WellFormed("roof_fan", command) /\ Sound("roof_fan", command.writes, command.claim)
    BY <1>1
<1>2. Untold("roof_fan")["pct"] = None /\ Untold("roof_fan")["on"] = None
  BY FanReads, Fans, ThePercentages DEF Untold, None
<1>3. CASE command = [writes |-> [state |-> "ON"], early |-> <<>>, claim |-> [on |-> "true"]]
  <2>1. Reads([on |-> "true"])
    BY <1>3, Fans, FanReads, Overridden DEF None
  <2>2. WellFormed("roof_fan", command)
    BY <1>3, Fans DEF WellFormed
  <2> QED  BY <1>3, <2>1, <2>2, SoundWhen, Fans
<1>4. CASE command = [writes |-> [state |-> "OFF"], early |-> <<>>, claim |-> [on |-> "false"]]
  <2>1. Reads([on |-> "false"])
    BY <1>4, Fans, FanReads, Overridden DEF None
  <2>2. WellFormed("roof_fan", command)
    BY <1>4, Fans DEF WellFormed
  <2> QED  BY <1>4, <2>1, <2>2, SoundWhen, Fans
<1>5. ASSUME NEW p \in {"33", "100"}, NEW x \in {"LOW", "HIGH"}, Lookup(PercentageOf, x) = p,
             command.writes = [state |-> "ON", speedmode |-> "MANUAL", speed |-> x],
             \/ command.early = [pct |-> p] /\ command.claim = [on |-> "true"]
             \/ command.early = <<>> /\ command.claim = [on |-> "true", pct |-> p]
      PROVE  WellFormed("roof_fan", command) /\ Sound("roof_fan", command.writes, command.claim)
  <2>1. Reads([on |-> "true", pct |-> p])
    BY <1>5, Fans, FanReads, Overridden DEF None
  <2>2. WellFormed("roof_fan", command)
    BY <1>5, Fans DEF WellFormed
  <2> QED  BY <1>2, <1>5, <2>1, <2>2, SoundWhen, Fans DEF None
<1> HIDE DEF command
<1>6. \/ command = [writes |-> FanOn("roof_fan"), early |-> <<>>, claim |-> [on |-> "true"]]
      \/ \E p \in {"33", "100"} :
            \/ command = [writes |-> FanSpeed("roof_fan", SpeedOf[p]), early |-> [pct |-> p], claim |-> [on |-> "true"]]
            \/ command = [writes |-> FanSpeed("roof_fan", SpeedOf[p]), early |-> <<>>, claim |-> [on |-> "true", pct |-> p]]
      \/ command = [writes |-> FanOff("roof_fan"), early |-> <<>>, claim |-> [on |-> "false"]]
  BY FanCommands DEF command
<1>7. /\ FanOn("roof_fan") = [state |-> "ON"] /\ FanOff("roof_fan") = [state |-> "OFF"]
      /\ \A x : FanSpeed("roof_fan", x) = [state |-> "ON", speedmode |-> "MANUAL", speed |-> x]
  BY DEF FanOn, FanOff, FanSpeed
<1>8. \A p \in {"33", "100"} : SpeedOf[p] \in {"LOW", "HIGH"} /\ Lookup(PercentageOf, SpeedOf[p]) = p
  BY ThePercentages
<1>9. CASE \E p \in {"33", "100"} :
            \/ command = [writes |-> FanSpeed("roof_fan", SpeedOf[p]), early |-> [pct |-> p], claim |-> [on |-> "true"]]
            \/ command = [writes |-> FanSpeed("roof_fan", SpeedOf[p]), early |-> <<>>, claim |-> [on |-> "true", pct |-> p]]
  BY <1>5, <1>7, <1>8, <1>9
<1> QED  BY <1>3, <1>4, <1>6, <1>7, <1>9

\* Each command of the MaxxFan does what it claims: off also fixes the speed.
LEMMA MaxxFanSound ==
    ASSUME NEW s, NEW k, NEW a \in Attrs("maxxfan"), NEW v \in Asks("maxxfan")[a]
    PROVE  LET command == Command("maxxfan", a, v, s, k)
           IN  WellFormed("maxxfan", command) /\ Sound("maxxfan", command.writes, command.claim)
<1> DEFINE command == FanCommand("maxxfan", a, v)
<1>1. Command("maxxfan", a, v, s, k) = command
  BY DEF Command
<1> SUFFICES WellFormed("maxxfan", command) /\ Sound("maxxfan", command.writes, command.claim)
    BY <1>1
<1> HIDE DEF command
<1>2. ASSUME NEW w \in States("maxxfan"), NEW writes
      PROVE  LET t == TakenBy("maxxfan", w, writes)
                 o == Override(w, writes)
             IN  /\ DOMAIN t = Slots("maxxfan") /\ DOMAIN w = Slots("maxxfan")
                 /\ t["state"] = o["state"]
                 /\ t["speed"] = IF o["state"] = "false" THEN "OFF" ELSE o["speed"]
  <2>1. DOMAIN w = Slots("maxxfan") /\ DOMAIN Override(w, writes) = Slots("maxxfan")
    BY Overridden DEF States
  <2> QED  BY <2>1, Fans DEF TakenBy
<1>3. \A w \in States("maxxfan") : \A writes :
         /\ ReadBack("maxxfan", TakenBy("maxxfan", w, writes))["on"] = Override(w, writes)["state"]
         /\ ReadBack("maxxfan", TakenBy("maxxfan", w, writes))["pct"]
               = Lookup(PercentageOf, IF Override(w, writes)["state"] = "false" THEN "OFF" ELSE Override(w, writes)["speed"])
  BY <1>2, FanReads
<1> DEFINE blank == [x \in Slots("maxxfan") |-> None]
<1>4. /\ \A writes : Told("maxxfan", writes)["on"] = Override(blank, writes)["state"]
      /\ \A writes : Told("maxxfan", writes)["pct"] = Lookup(PercentageOf, Override(blank, writes)["speed"])
      /\ Untold("maxxfan")["on"] = None /\ Untold("maxxfan")["pct"] = None
      /\ DOMAIN blank = Slots("maxxfan") /\ \A x \in Slots("maxxfan") : blank[x] = None
  BY FanReads, Fans, ThePercentages, Overridden DEF Told, Untold
<1> HIDE DEF blank
<1>5. CASE command = [writes |-> [state |-> "true"], early |-> <<>>, claim |-> [on |-> "true"]]
  <2>1. \A w : DOMAIN w = Slots("maxxfan") => Override(w, command.writes)["state"] = "true"
                                             /\ Override(w, command.writes)["speed"] = w["speed"]
    BY <1>5, Overridden, Fans
  <2>2. Fixes("maxxfan", command.writes, "on", "true")
    BY <1>3, <2>1 DEF Fixes, States
  <2>3. Leaves("maxxfan", command.writes, "pct")
    BY <1>3, <2>1, FanReads DEF Leaves, States
  <2>4. Told("maxxfan", command.writes)["pct"] = Untold("maxxfan")["pct"]
    BY <1>4, <2>1, ThePercentages, Fans
  <2>5. WellFormed("maxxfan", command)
    BY <1>5, Fans DEF WellFormed
  <2> QED  BY <1>5, <2>2, <2>3, <2>4, <2>5, Fans DEF Sound
<1>6. CASE command = [writes |-> [state |-> "false"], early |-> <<>>, claim |-> [on |-> "false", pct |-> "0"]]
  <2>1. \A w : DOMAIN w = Slots("maxxfan") => Override(w, command.writes)["state"] = "false"
    BY <1>6, Overridden, Fans
  <2>2. Fixes("maxxfan", command.writes, "on", "false") /\ Fixes("maxxfan", command.writes, "pct", "0")
    BY <1>3, <2>1, ThePercentages DEF Fixes, States
  <2>3. WellFormed("maxxfan", command)
    BY <1>6, Fans DEF WellFormed
  <2> QED  BY <1>6, <2>2, <2>3, Fans DEF Sound
<1>7. ASSUME NEW p \in {"33", "100"}, NEW x \in {"LOW", "HIGH"}, Lookup(PercentageOf, x) = p,
             command.writes = [state |-> "true", speed |-> x],
             \/ command.early = [pct |-> p] /\ command.claim = [on |-> "true"]
             \/ command.early = <<>> /\ command.claim = [on |-> "true", pct |-> p]
      PROVE  WellFormed("maxxfan", command) /\ Sound("maxxfan", command.writes, command.claim)
  <2>1. \A w : DOMAIN w = Slots("maxxfan") => Override(w, command.writes)["state"] = "true"
                                             /\ Override(w, command.writes)["speed"] = x
    BY <1>7, Overridden, Fans
  <2>2. Fixes("maxxfan", command.writes, "on", "true") /\ Fixes("maxxfan", command.writes, "pct", p)
    BY <1>3, <1>7, <2>1 DEF Fixes, States
  <2>3. Told("maxxfan", command.writes)["pct"] = p /\ p # None
    BY <1>4, <1>7, <2>1 DEF None
  <2>4. WellFormed("maxxfan", command)
    BY <1>7, Fans DEF WellFormed
  <2> QED  BY <1>4, <1>7, <2>2, <2>3, <2>4, Fans DEF Sound
<1>8. \/ command = [writes |-> FanOn("maxxfan"), early |-> <<>>, claim |-> [on |-> "true"]]
      \/ \E p \in {"33", "100"} :
            \/ command = [writes |-> FanSpeed("maxxfan", SpeedOf[p]), early |-> [pct |-> p], claim |-> [on |-> "true"]]
            \/ command = [writes |-> FanSpeed("maxxfan", SpeedOf[p]), early |-> <<>>, claim |-> [on |-> "true", pct |-> p]]
      \/ command = [writes |-> FanOff("maxxfan"), early |-> <<>>, claim |-> [on |-> "false", pct |-> "0"]]
  BY FanCommands DEF command
<1>9. /\ FanOn("maxxfan") = [state |-> "true"] /\ FanOff("maxxfan") = [state |-> "false"]
      /\ \A x : FanSpeed("maxxfan", x) = [state |-> "true", speed |-> x]
  BY DEF FanOn, FanOff, FanSpeed
<1>10. \A p \in {"33", "100"} : SpeedOf[p] \in {"LOW", "HIGH"} /\ Lookup(PercentageOf, SpeedOf[p]) = p
  BY ThePercentages
<1>11. CASE \E p \in {"33", "100"} :
            \/ command = [writes |-> FanSpeed("maxxfan", SpeedOf[p]), early |-> [pct |-> p], claim |-> [on |-> "true"]]
            \/ command = [writes |-> FanSpeed("maxxfan", SpeedOf[p]), early |-> <<>>, claim |-> [on |-> "true", pct |-> p]]
  BY <1>7, <1>9, <1>10, <1>11
<1> QED  BY <1>5, <1>6, <1>8, <1>9, <1>11

\* A generic control's command does what it claims.
LEMMA SlotSound ==
    ASSUME NEW s, NEW k, NEW a \in Attrs("slot"), NEW v \in Asks("slot")[a]
    PROVE  LET command == Command("slot", a, v, s, k)
           IN  WellFormed("slot", command) /\ Sound("slot", command.writes, command.claim)
<1> DEFINE command == Command("slot", a, v, s, k)
<1>1. /\ Slots("slot") = {"value"} /\ Attrs("slot") = {"value"}
      /\ SlotValues("slot")["value"] = {"A", "B", "C"} /\ Asks("slot")["value"] = {"A", "B", "C"}
  BY DEF Slots, SlotValues, Attrs, Asks
<1>2. command = [writes |-> [value |-> v], early |-> <<>>, claim |-> [value |-> v]]
  BY DEF Command
<1> HIDE DEF command
<1>3. \A w : DOMAIN w = Slots("slot") => ReadBack("slot", Override(w, command.writes))["value"] = v
  BY <1>1, <1>2, Overridden DEF ReadBack
<1>4. Fixes("slot", command.writes, "value", v)
  BY <1>3 DEF Fixes, TakenBy, States
<1> QED  BY <1>1, <1>2, <1>4 DEF command, WellFormed, Sound

Controlled == {"panel", "modern", "aircon", "zone", "roof_fan", "maxxfan", "slot"}

\* The writes of every command of every device do what it claims, and set nothing else
\* without telling.
LEMMA CommandsAreSound ==
    ASSUME NEW d \in Controlled, NEW s \in Reports(d), NEW k \in ClaimSets(d),
           NEW a \in Attrs(d), NEW v \in Asks(d)[a], Accepts(d, a, v)
    PROVE  LET command == Command(d, a, v, s, k)
           IN  /\ WellFormed(d, command) /\ Sound(d, command.writes, command.claim)
               /\ d = "slot" => command.early = <<>> /\ Attrs(d) \subseteq DOMAIN command.claim
<1>1. d = "slot" => LET command == Command(d, a, v, s, k)
                    IN  command.early = <<>> /\ Attrs(d) \subseteq DOMAIN command.claim
  BY DEF Command, Attrs, Asks
<1>2. CASE d = "panel"
  BY <1>2, PanelSound
<1>3. CASE d = "modern"
  BY <1>3, ModernSound
<1>4. CASE d = "aircon"
  BY <1>4, AirConditionerSound
<1>5. CASE d = "zone"
  BY <1>5, ZoneSound
<1>6. CASE d = "roof_fan"
  BY <1>6, RoofFanSound
<1>7. CASE d = "maxxfan"
  BY <1>7, MaxxFanSound
<1>8. CASE d = "slot"
  BY <1>1, <1>8, SlotSound
<1> QED  BY <1>2, <1>3, <1>4, <1>5, <1>6, <1>7, <1>8 DEF Controlled

\* The climate and boiler commands repeat the fuel as it was reported.
LEMMA PanelKeepsFuel ==
    ASSUME NEW s \in Reports("panel"), NEW k, NEW a \in Attrs("panel"), NEW v \in Asks("panel")[a],
           a # "energy", s["fuel"] # None, s["mirror"] # None
    PROVE  LET writes == Command("panel", a, v, s, k).writes
           IN  \A x \in {"fuel", "mirror"} \cap DOMAIN writes : writes[x] = s[x]
<1>1. Command("panel", a, v, s, k).writes = TrumaCommand(a, v, s, k).writes
  BY DEF Command, Later
<1>2. /\ \A t : SetpointWrites(t, s) = [setpoint |-> t, mirror |-> s["mirror"]]
      /\ Known(s.fuel, "Diesel") = s["fuel"]
  BY DEF SetpointWrites, Known
<1>3. CASE a = "temp"
  <2>1. TrumaCommand(a, v, s, k).writes = SetpointWrites(v, s)
    BY <1>3 DEF TrumaCommand
  <2> QED  BY <1>1, <1>2, <2>1
<1>4. CASE a = "hvac"
  <2>1. v \in {"off", "heat"}
    BY <1>4, Panel
  <2>2. \E t : TrumaCommand(a, v, s, k).writes = SetpointWrites(t, s)
    <3>1. CASE v = "heat"
      BY <1>4, <3>1 DEF TrumaCommand
    <3>2. CASE v = "off"
      BY <1>4, <3>2 DEF TrumaCommand
    <3> QED  BY <2>1, <3>1, <3>2
  <2> QED  BY <1>1, <1>2, <2>2
<1>5. CASE a = "boiler"
  <2>1. TrumaCommand(a, v, s, k).writes = [boiler |-> BoilerWire[v], fuel |-> Known(s.fuel, "Diesel")]
    BY <1>5 DEF TrumaCommand
  <2> QED  BY <1>1, <1>2, <2>1
<1> QED  BY <1>3, <1>4, <1>5, Panel

\* An update drops a claim or keeps it; but for the forgetful ones it drops it only when
\* the slots read as was claimed.
LEMMA SettledClaims ==
    ASSUME device \in Controlled, NEW s \in Reports(device), NEW k \in ClaimSets(device)
    PROVE  LET settled == Settled(device, s, k)
           IN  /\ DOMAIN settled = Attrs(device)
               /\ \A a \in Attrs(device) : settled[a] \in {k[a], None}
               /\ \A a \in Attrs(device) \ Forgetful : settled[a] = k[a] \/ ReadBack(device, s)[a] = k[a]
<1> DEFINE settled == Settled(device, s, k)
<1> SUFFICES /\ DOMAIN settled = Attrs(device)
             /\ \A a \in Attrs(device) : settled[a] \in {k[a], None}
             /\ \A a \in Attrs(device) \ Forgetful : settled[a] = k[a] \/ ReadBack(device, s)[a] = k[a]
    OBVIOUS
<1>1. DOMAIN k = Attrs(device) /\ DOMAIN s = Slots(device) /\ \A a \in Attrs(device) : k[a] \in Asks(device)[a] \cup {None}
  BY DEF ClaimSets, Reports
<1>2. CASE device = "panel"
  <2>1. settled = TrumaSettle(s, k) /\ Forgetful = {"boiler", "energy"}
    BY <1>2 DEF Settled, Forgetful
  <2>2. /\ TrumaRead(s)["temp"] = ReadBack("panel", s)["temp"]
        /\ ReadBack("panel", s)["temp"] # None => ReadBack("panel", s)["hvac"] = "heat"
    BY <1>1, <1>2, PanelReads DEF ReadBack
  <2> QED  BY <1>2, <2>1, <2>2, Panel DEF TrumaSettle
<1>3. CASE device = "modern"
  <2>1. settled = HeaterSettle(s, k) /\ Forgetful = {"hvac", "fan"}
    BY <1>3 DEF Settled, Forgetful
  <2>2. ReadBack("modern", s)["temp"] = s["target"]
    BY <1>1, <1>3, ClimateReads
  <2> QED  BY <1>3, <2>1, <2>2, Climates DEF HeaterSettle
<1>4. CASE device = "zone"
  <2>1. settled = ZoneSettle(s, k) /\ ReadBack("zone", s) = ZoneRead(s)
    BY <1>4 DEF Settled, ReadBack
  <2>2. k["hvac"] \in {"off", "heat", None}
    BY <1>1, <1>4, Zone
  <2>3. k["hvac"] # None /\ s["mode"] = ZoneModes[k["hvac"]] => ReadBack("zone", s)["hvac"] = k["hvac"]
    <3>1. ZoneModes["off"] = "OFF" /\ ZoneModes["heat"] = "HEAT"
      BY DEF ZoneModes
    <3> QED  BY <1>1, <1>4, <2>2, <3>1, ZoneReads, TheModes
  <2>4. /\ DOMAIN settled = Attrs("zone")
        /\ settled["hvac"] = (IF k["hvac"] # None /\ s["mode"] = ZoneModes[k["hvac"]] THEN None ELSE k["hvac"])
        /\ \A a \in Attrs("zone") \ {"hvac"} : settled[a] = (IF k[a] = ReadBack("zone", s)[a] THEN None ELSE k[a])
    <3>1. Settle(ZoneRead(s), k) = [a \in Attrs("zone") |-> IF k[a] = ReadBack("zone", s)[a] THEN None ELSE k[a]]
      BY <1>1, <1>4, <2>1 DEF Settle
    <3>2. settled = [Settle(ZoneRead(s), k) EXCEPT !["hvac"] =
                        IF k["hvac"] # None /\ s["mode"] = ZoneModes[k["hvac"]] THEN None ELSE k["hvac"]]
      BY <2>1 DEF ZoneSettle
    <3> HIDE DEF settled
    <3> QED  BY <3>1, <3>2, Zone
  <2> HIDE DEF settled
  <2>5. ASSUME NEW a \in Attrs("zone")
        PROVE  settled[a] \in {k[a], None} /\ (settled[a] = k[a] \/ ReadBack("zone", s)[a] = k[a])
    <3>1. CASE a = "hvac"
      BY <2>3, <2>4, <3>1
    <3>2. CASE a # "hvac"
      BY <2>4, <3>2
    <3> QED  BY <3>1, <3>2
  <2> QED  BY <1>4, <2>4, <2>5
<1>5. CASE device \notin {"panel", "modern", "zone"}
  <2>1. settled = [a \in DOMAIN k |-> IF k[a] = ReadBack(device, s)[a] THEN None ELSE k[a]]
    BY <1>5 DEF Settled, Settle, Controlled
  <2> QED  BY <1>1, <2>1
<1> QED  BY <1>2, <1>3, <1>4, <1>5

\* When the slots and the vehicle read the same, so does any mix of their values.
LEMMA MixReads ==
    ASSUME NEW d \in Controlled, NEW s \in Reports(d), NEW t \in Reports(d), NEW m \in Reports(d),
           \A x \in Slots(d) : m[x] \in {s[x], t[x]},
           NEW a \in Attrs(d), ReadBack(d, s)[a] # None, ReadBack(d, t)[a] = ReadBack(d, s)[a]
    PROVE  ReadBack(d, m)[a] = ReadBack(d, s)[a]
<1>1. \A r \in {s, t, m} : DOMAIN r = Slots(d) /\ \A x \in Slots(d) : r[x] \in SlotValues(d)[x] \cup {None}
  BY DEF Reports
<1>2. ASSUME NEW x \in Slots(d), \A r \in {s, t} : m[x] = r[x] => ReadBack(d, m)[a] = ReadBack(d, r)[a]
      PROVE  ReadBack(d, m)[a] = ReadBack(d, s)[a]
  BY <1>2
<1>3. CASE d = "panel"
  <2>1. \A r \in {s, t} : /\ m["setpoint"] = r["setpoint"] => ReadBack(d, m)["hvac"] = ReadBack(d, r)["hvac"]
                                                              /\ ReadBack(d, m)["temp"] = ReadBack(d, r)["temp"]
                          /\ m["boiler"] = r["boiler"] => ReadBack(d, m)["boiler"] = ReadBack(d, r)["boiler"]
                          /\ m["fuel"] = r["fuel"] => ReadBack(d, m)["energy"] = ReadBack(d, r)["energy"]
    BY <1>1, <1>3, PanelReads
  <2> QED  BY <1>2, <1>3, <2>1, Panel
<1>4. CASE d \in {"modern", "aircon"}
  <2>1. \A r \in {s, t} : /\ m["mode"] = r["mode"] => ReadBack(d, m)["hvac"] = ReadBack(d, r)["hvac"]
                          /\ m["target"] = r["target"] => ReadBack(d, m)["temp"] = ReadBack(d, r)["temp"]
                          /\ m["fan"] = r["fan"] => ReadBack(d, m)["fan"] = ReadBack(d, r)["fan"]
    BY <1>1, <1>4, ClimateReads
  <2> QED  BY <1>2, <1>4, <2>1, Climates
<1>5. CASE d = "zone"
  <2>1. \A r \in {s, t} : /\ m["mode"] = r["mode"] => ReadBack(d, m)["hvac"] = ReadBack(d, r)["hvac"]
                          /\ m["heat"] = r["heat"] => ReadBack(d, m)["heat"] = ReadBack(d, r)["heat"]
    BY <1>1, <1>5, ZoneReads
  <2>2. CASE a = "fan"
    <3>1. \A r \in {s, t, m} : ReadBack("zone", r)["fan"] = (IF r["fanmode"] = "AUTO" THEN "AUTO" ELSE r["speed"])
                               /\ r["speed"] # "AUTO"
      BY <1>1, <1>5, ZoneReads, Zone DEF None
    <3> QED  BY <1>5, <2>2, <3>1, Zone
  <2> QED  BY <1>2, <1>5, <2>1, <2>2, Zone
<1>6. CASE d \in {"roof_fan", "maxxfan"}
  <2>1. \A r \in {s, t} : /\ m["state"] = r["state"] => ReadBack(d, m)["on"] = ReadBack(d, r)["on"]
                          /\ m["speed"] = r["speed"] => ReadBack(d, m)["pct"] = ReadBack(d, r)["pct"]
    BY <1>1, <1>6, FanReads
  <2> QED  BY <1>2, <1>6, <2>1, Fans
<1>7. CASE d = "slot"
  <2>1. Slots(d) = Attrs(d) /\ \A r : ReadBack(d, r) = r
    BY <1>7 DEF Slots, Attrs, SlotValues, Asks, ReadBack
  <2> QED  BY <2>1
<1> QED  BY <1>3, <1>4, <1>5, <1>6, <1>7 DEF Controlled

\* What the vehicle makes of typed writes is a state of it.
LEMMA TakenIsTyped ==
    ASSUME NEW d \in Controlled, NEW w \in States(d), NEW writes,
           \A x \in Slots(d) \cap DOMAIN writes : writes[x] \in SlotValues(d)[x]
    PROVE  TakenBy(d, w, writes) \in States(d)
<1> DEFINE o == Override(w, writes)
<1>1. DOMAIN w = Slots(d) /\ (\A x \in Slots(d) : w[x] \in SlotValues(d)[x])
  BY DEF States
<1>2. o \in States(d)
  <2>1. \A x \in Slots(d) : o[x] \in SlotValues(d)[x]
    BY <1>1, Overridden
  <2>2. \A x \in Slots(d) : o[x] \in ValuesOf(d)
    BY <2>1 DEF ValuesOf
  <2>3. o = [x \in Slots(d) |-> IF x \in DOMAIN writes THEN writes[x] ELSE w[x]]
    BY <1>1 DEF Override
  <2> HIDE DEF o
  <2>4. o \in [Slots(d) -> ValuesOf(d)]
    BY <2>2, <2>3
  <2> QED  BY <2>1, <2>4 DEF States
<1> HIDE DEF o
<1>3. CASE d = "maxxfan" /\ o["state"] = "false"
  <2>1. TakenBy(d, w, writes) = [o EXCEPT !["speed"] = "OFF"]
    BY <1>3 DEF TakenBy, o
  <2>2. "OFF" \in SlotValues(d)["speed"] /\ "speed" \in Slots(d) /\ "OFF" \in ValuesOf(d)
    BY <1>3, Fans DEF ValuesOf
  <2> QED  BY <1>2, <2>1, <2>2 DEF States
<1>4. CASE ~(d = "maxxfan" /\ o["state"] = "false")
  BY <1>2, <1>4 DEF TakenBy, o
<1> QED  BY <1>3, <1>4

\* Claims stay claims when some are replaced or forgotten.
LEMMA ClaimsTyped ==
    ASSUME NEW d, NEW k \in ClaimSets(d)
    PROVE  /\ \A g : (\A a \in Attrs(d) \cap DOMAIN g : g[a] \in Asks(d)[a] \cup {None}) => Override(k, g) \in ClaimSets(d)
           /\ \A names : Forget(k, names) \in ClaimSets(d)
           /\ \A names : \A a \in Attrs(d) : Forget(k, names)[a] = IF a \in names THEN None ELSE k[a]
           /\ \A g : \A a \in Attrs(d) : Override(k, g)[a] = IF a \in DOMAIN g THEN g[a] ELSE k[a]
           /\ NoClaims(d) \in ClaimSets(d)
<1>1. DOMAIN k = Attrs(d) /\ (\A a \in Attrs(d) : k[a] \in Asks(d)[a] \cup {None})
  BY DEF ClaimSets
<1>2. ASSUME NEW f, \A a \in Attrs(d) : f[a] \in Asks(d)[a] \cup {None}, f = [a \in Attrs(d) |-> f[a]]
      PROVE  f \in ClaimSets(d)
  <2>1. \A a \in Attrs(d) : f[a] \in ClaimsOf(d)
    BY <1>2 DEF ClaimsOf
  <2>2. f \in [Attrs(d) -> ClaimsOf(d)]
    BY <1>2, <2>1
  <2> QED  BY <1>2, <2>2 DEF ClaimSets
<1>3. ASSUME NEW g, \A a \in Attrs(d) \cap DOMAIN g : g[a] \in Asks(d)[a] \cup {None}
      PROVE  Override(k, g) \in ClaimSets(d)
  <2>1. Override(k, g) = [a \in Attrs(d) |-> IF a \in DOMAIN g THEN g[a] ELSE k[a]]
    BY <1>1 DEF Override
  <2>2. \A a \in Attrs(d) : Override(k, g)[a] \in Asks(d)[a] \cup {None}
    BY <1>1, <1>3, <2>1
  <2>3. Override(k, g) = [a \in Attrs(d) |-> Override(k, g)[a]]
    BY <2>1
  <2> QED  BY <1>2, <2>2, <2>3
<1>4. ASSUME NEW names
      PROVE  Forget(k, names) \in ClaimSets(d)
  <2>1. Forget(k, names) = [a \in Attrs(d) |-> IF a \in names THEN None ELSE k[a]]
    BY <1>1 DEF Forget
  <2>2. \A a \in Attrs(d) : Forget(k, names)[a] \in Asks(d)[a] \cup {None}
    BY <1>1, <2>1
  <2>3. Forget(k, names) = [a \in Attrs(d) |-> Forget(k, names)[a]]
    BY <2>1
  <2> QED  BY <1>2, <2>2, <2>3
<1>5. NoClaims(d) \in ClaimSets(d)
  BY <1>2 DEF NoClaims
<1> QED  BY <1>1, <1>3, <1>4, <1>5 DEF Override, Forget

(***************************************************************************)
(* The inductive invariant.  An attribute's intent either is how the       *)
(* vehicle already reads it and nothing on the wire disturbs it, or some   *)
(* message on the wire fixes it and none after that disturbs it.  The      *)
(* entity claims what is intended, or has dropped the claim because the    *)
(* slots and the vehicle agree and nothing on the wire disturbs it: so a   *)
(* report of any part of the vehicle still shows it.                       *)
(***************************************************************************)
(* A command that may be sent as it is.                                     *)
Prepared(d, writes, claim) ==
    /\ \A x \in Slots(d) \cap DOMAIN writes : writes[x] \in SlotValues(d)[x]
    /\ \A a \in Attrs(d) \cap DOMAIN claim : claim[a] \in Asks(d)[a] \cup {None}
    /\ Sound(d, writes, claim)
    /\ d = "slot" => Attrs(d) \subseteq DOMAIN claim
(* A call, with what its place in the protocol says of its fields.          *)
CallFields(call) == [pc |-> call.pc, attr |-> call.attr, value |-> call.value, writes |-> call.writes,
                     claim |-> call.claim, stale |-> call.stale]
CallWell(call) ==
    /\ call = CallFields(call)
    /\ call.pc \in {"free", "connecting", "sent", "done"}
    /\ call.pc \in {"connecting", "sent"} => call.attr \in Attrs(device)
    /\ call.pc = "connecting" => /\ call.value \in Asks(device)[call.attr]
                                 /\ Accepts(device, call.attr, call.value)
                                 /\ ~Deferred => Prepared(device, call.writes, call.claim)
    /\ call.pc = "sent" => \A x \in Slots(device) \cap DOMAIN call.writes : call.writes[x] \in SlotValues(device)[x]

ControlTypes ==
    /\ device \in Devices
    /\ vehicle \in States(device) /\ slots \in Reports(device)
    /\ claims \in ClaimSets(device) /\ intent \in ClaimSets(device)
    /\ expired \in BOOLEAN /\ changes \in 0 .. MaxChanges
CallsWell == DOMAIN calls = Calls /\ \A c \in Calls : CallWell(calls[c])
WireWell ==
    /\ wire \in Seq(Calls)
    /\ \A i \in 1 .. Len(wire) : calls[wire[i]].pc = "sent"
    /\ \A i, j \in 1 .. Len(wire) : wire[i] = wire[j] => i = j

(* What is on its way: the i-th message, and that none after the i-th disturbs a. *)
WritesOf(i) == calls[wire[i]].writes
LeftAfter(i, a) == \A j \in 1 .. Len(wire) : j > i => Leaves(device, WritesOf(j), a)
Coming(a) ==
    \/ ReadBack(device, vehicle)[a] = intent[a] /\ LeftAfter(0, a)
    \/ \E i \in 1 .. Len(wire) : Fixes(device, WritesOf(i), a, intent[a]) /\ LeftAfter(i, a)
IntentComes == \A a \in Attrs(device) : intent[a] # None => Coming(a)

(* What the entity shows of an intent that has not been forgotten.          *)
Held(a) ==
    \/ claims[a] = intent[a]
    \/ /\ claims[a] = None /\ ReadBack(device, slots)[a] = intent[a]
       /\ ReadBack(device, vehicle)[a] = intent[a] /\ LeftAfter(0, a)
IntentShows ==
    /\ \A a \in Attrs(device) \ Forgetful : intent[a] # None /\ ~(Timed /\ expired) => Held(a)
    /\ Timed /\ expired => claims = NoClaims(device)
(* A command of the panel whose fuel is up to date is the next to arrive.   *)
FuelIsLast ==
    device = "panel" =>
        \A c \in Calls : calls[c].pc = "sent" /\ calls[c].attr # "energy" /\ ~calls[c].stale =>
            /\ wire # <<>> /\ wire[1] = c
            /\ \A x \in {"fuel", "mirror"} \cap DOMAIN calls[c].writes : calls[c].writes[x] = vehicle[x]
ControlInv == ControlTypes /\ CallsWell /\ WireWell /\ IntentComes /\ IntentShows /\ FuelIsLast

\* What is on the wire was sent: a step that leaves these calls as they are leaves their writes.
LEMMA SameWire ==
    ASSUME ControlInv, device' = device, wire' = wire,
           \A c \in Calls : calls[c].pc = "sent" => calls'[c].pc = "sent" /\ calls'[c].writes = calls[c].writes
    PROVE  /\ WireWell'
           /\ \A i \in 1 .. Len(wire) : WritesOf(i)' = WritesOf(i)
           /\ \A i \in Nat : \A a : LeftAfter(i, a)' = LeftAfter(i, a)
<1>1. wire \in Seq(Calls) /\ \A i \in 1 .. Len(wire) : wire[i] \in Calls /\ calls[wire[i]].pc = "sent"
  BY DEF ControlInv, WireWell
<1>2. \A i \in 1 .. Len(wire) : WritesOf(i)' = WritesOf(i)
  BY <1>1 DEF WritesOf
<1>3. WireWell'
  BY <1>1 DEF ControlInv, WireWell
<1>4. \A i \in Nat : \A a : LeftAfter(i, a)' = LeftAfter(i, a)
  BY <1>2 DEF LeftAfter
<1> QED  BY <1>2, <1>3, <1>4

\* What was intended still comes when nothing on the wire and at the vehicle changes.
LEMMA SameComes ==
    ASSUME ControlInv, device' = device, wire' = wire, vehicle' = vehicle,
           \A c \in Calls : calls[c].pc = "sent" => calls'[c].pc = "sent" /\ calls'[c].writes = calls[c].writes,
           \A a \in Attrs(device) : intent'[a] \in {intent[a], None}
    PROVE  IntentComes'
<1> SUFFICES ASSUME NEW a \in Attrs(device), intent'[a] # None PROVE Coming(a)'
    BY DEF IntentComes
<1>1. Coming(a) /\ intent'[a] = intent[a]
  BY DEF ControlInv, IntentComes
<1>2. /\ \A i \in 1 .. Len(wire) : WritesOf(i)' = WritesOf(i)
      /\ \A i \in Nat : LeftAfter(i, a)' = LeftAfter(i, a)
  BY SameWire
<1> QED  BY <1>1, <1>2 DEF Coming

\* One call changes, from something that is not sent to something that is not sent.
LEMMA CallChanges ==
    ASSUME ControlInv, device' = device, NEW c \in Calls, NEW call, CallWell(call), call.pc # "sent",
           calls[c].pc # "sent", calls' = [calls EXCEPT ![c] = call]
    PROVE  /\ CallsWell'
           /\ \A d \in Calls : calls[d].pc = "sent" => calls'[d] = calls[d]
           /\ \A d \in Calls : calls'[d].pc = "sent" => calls'[d] = calls[d]
<1>1. DOMAIN calls = Calls /\ \A d \in Calls : CallWell(calls[d])
  BY DEF ControlInv, CallsWell
<1>2. /\ DOMAIN calls' = Calls /\ calls'[c] = call /\ \A d \in Calls : d # c => calls'[d] = calls[d]
  BY <1>1
<1>3. \A r : CallWell(r)' = CallWell(r)
  BY DEF CallWell, Deferred
<1>4. ASSUME NEW d \in Calls PROVE CallWell(calls'[d])
  BY <1>1, <1>2
<1>5. CallsWell'
  BY <1>2, <1>3, <1>4 DEF CallsWell
<1> QED  BY <1>2, <1>5

\* A call that is over has no more fields to tell about.
LEMMA CallIsOver ==
    [NoCall EXCEPT !.pc = "done"]
       = [pc |-> "done", attr |-> None, value |-> None, writes |-> <<>>, claim |-> <<>>, stale |-> FALSE]
<1>1. \A b : [[pc |-> "free", attr |-> None, value |-> None, writes |-> <<>>, claim |-> <<>>, stale |-> b] EXCEPT !.pc = "done"]
                 = [pc |-> "done", attr |-> None, value |-> None, writes |-> <<>>, claim |-> <<>>, stale |-> b]
  OBVIOUS
<1> QED  BY <1>1 DEF NoCall

\* A call: what is claimed early, or soon, is no longer intended otherwise.
LEMMA AskKeeps ==
    ASSUME ControlInv, device \in Controlled, NEW c \in Calls, NEW a \in Attrs(device), NEW v \in Asks(device)[a],
           Ask(c, a, v)
    PROVE  ControlInv'
<1> DEFINE command == Command(device, a, v, slots, claims)
           W == IF Deferred THEN <<>> ELSE command.writes
           K == IF Deferred THEN <<>> ELSE command.claim
           call == [pc |-> "connecting", attr |-> a, value |-> v, writes |-> W, claim |-> K, stale |-> FALSE]
<1>1. /\ calls[c].pc = "free" /\ Accepts(device, a, v)
      /\ claims' = Override(claims, command.early)
      /\ intent' = Forget(intent, DOMAIN command.early \cup DOMAIN command.claim)
      /\ UNCHANGED <<device, vehicle, slots, expired, wire, changes>>
  BY DEF Ask
<1>2. calls' = [calls EXCEPT ![c] = call]
  BY DEF Ask
<1>3. /\ WellFormed(device, command) /\ Sound(device, command.writes, command.claim)
      /\ device = "slot" => command.early = <<>> /\ Attrs(device) \subseteq DOMAIN command.claim
  <2>1. slots \in Reports(device) /\ claims \in ClaimSets(device)
    BY DEF ControlInv, ControlTypes
  <2> QED  BY <1>1, <2>1, CommandsAreSound
<1> HIDE DEF command
<1>4. CallWell(call) /\ call.pc = "connecting"
  <2>1. ~Deferred => Prepared(device, call.writes, call.claim)
    BY <1>3 DEF Prepared, WellFormed
  <2> QED  BY <1>1, <2>1 DEF CallWell, CallFields
<1> HIDE DEF call
<1>5. /\ CallsWell'
      /\ \A d \in Calls : calls[d].pc = "sent" => calls'[d] = calls[d]
      /\ \A d \in Calls : calls'[d].pc = "sent" => calls'[d] = calls[d]
  BY <1>1, <1>2, <1>4, CallChanges
<1>6. /\ claims' \in ClaimSets(device) /\ intent' \in ClaimSets(device)
      /\ \A x \in Attrs(device) : intent'[x] = IF x \in DOMAIN command.early \cup DOMAIN command.claim THEN None ELSE intent[x]
      /\ \A x \in Attrs(device) : claims'[x] = IF x \in DOMAIN command.early THEN command.early[x] ELSE claims[x]
  BY <1>1, <1>3, ClaimsTyped DEF WellFormed, ControlInv, ControlTypes
<1>7. ControlTypes'
  BY <1>1, <1>6 DEF ControlInv, ControlTypes
<1>8. WireWell' /\ (\A x : LeftAfter(0, x)' = LeftAfter(0, x))
  BY <1>1, <1>5, SameWire
<1>9. IntentComes'
  BY <1>1, <1>5, <1>6, SameComes
<1>10. IntentShows'
  <2>1. ASSUME NEW x \in Attrs(device) \ Forgetful, intent'[x] # None, ~(Timed /\ expired) PROVE Held(x)'
    <3>1. intent'[x] = intent[x] /\ claims'[x] = claims[x] /\ Held(x)
      BY <1>6, <2>1 DEF ControlInv, IntentShows
    <3> QED  BY <1>1, <1>8, <3>1 DEF Held
  <2>2. ASSUME Timed, expired PROVE claims' = NoClaims(device)
    <3>1. claims = NoClaims(device) /\ command.early = <<>>
      BY <1>3, <2>2 DEF ControlInv, IntentShows, Timed
    <3> QED  BY <1>1, <3>1 DEF Override, NoClaims
  <2> QED  BY <1>1, <2>1, <2>2 DEF IntentShows, Timed, Forgetful
<1>11. FuelIsLast'
  BY <1>1, <1>5 DEF ControlInv, FuelIsLast
<1> QED  BY <1>5, <1>7, <1>8, <1>9, <1>10, <1>11 DEF ControlInv

\* A call that fails was on no wire.
LEMMA FailKeeps ==
    ASSUME ControlInv, NEW c \in Calls, Fail(c)
    PROVE  ControlInv'
<1> DEFINE call == [pc |-> "done", attr |-> None, value |-> None, writes |-> <<>>, claim |-> <<>>, stale |-> FALSE]
<1>1. /\ calls[c].pc = "connecting" /\ calls' = [calls EXCEPT ![c] = call]
      /\ UNCHANGED <<device, vehicle, slots, claims, expired, wire, intent, changes>>
  <2> HIDE DEF call
  <2>1. call = [NoCall EXCEPT !.pc = "done"]
    BY CallIsOver DEF call
  <2> QED  BY <2>1 DEF Fail
<1>2. CallWell(call) /\ call.pc = "done"
  BY DEF CallWell, CallFields
<1> HIDE DEF call
<1>3. /\ CallsWell'
      /\ \A d \in Calls : calls[d].pc = "sent" => calls'[d] = calls[d]
      /\ \A d \in Calls : calls'[d].pc = "sent" => calls'[d] = calls[d]
  BY <1>1, <1>2, CallChanges
<1>4. WireWell' /\ (\A x : LeftAfter(0, x)' = LeftAfter(0, x)) /\ IntentComes'
  BY <1>1, <1>3, SameWire, SameComes
<1>5. ControlTypes' /\ FuelIsLast'
  BY <1>1, <1>3 DEF ControlInv, ControlTypes, FuelIsLast
<1>6. IntentShows'
  BY <1>1, <1>4 DEF ControlInv, IntentShows, Held, Timed, Forgetful
<1> QED  BY <1>3, <1>4, <1>5, <1>6 DEF ControlInv

\* A send: the last message on the wire fixes what is claimed, and leaves the rest.
LEMMA SendKeeps ==
    ASSUME ControlInv, device \in Controlled, NEW c \in Calls, Send(c)
    PROVE  ControlInv'
<1> DEFINE command == IF Deferred THEN Command(device, calls[c].attr, calls[c].value, slots, claims) ELSE calls[c]
           call == [pc |-> "sent", attr |-> calls[c].attr, value |-> calls[c].value,
                    writes |-> command.writes, claim |-> <<>>, stale |-> FuelUnsure]
<1>0. PICK n \in Nat : n = Len(wire)
  BY DEF ControlInv, WireWell
<1>1. /\ calls[c].pc = "connecting" /\ calls' = [calls EXCEPT ![c] = call]
      /\ wire' = Append(wire, c) /\ expired' = FALSE
      /\ claims' = Override(claims, command.claim) /\ intent' = ToldBy(command, claims')
      /\ UNCHANGED <<device, vehicle, slots, changes>>
  BY DEF Send
<1>2. /\ slots \in Reports(device) /\ claims \in ClaimSets(device) /\ intent \in ClaimSets(device)
      /\ vehicle \in States(device)
      /\ DOMAIN calls = Calls /\ CallWell(calls[c]) /\ calls[c].attr \in Attrs(device)
  BY <1>1 DEF ControlInv, ControlTypes, CallsWell, CallWell
<1>3. Prepared(device, command.writes, command.claim)
  <2>1. CASE Deferred
    <3>1. WellFormed(device, command) /\ Sound(device, command.writes, command.claim) /\ device = "panel"
      BY <1>1, <1>2, <2>1, CommandsAreSound DEF CallWell, Deferred
    <3> QED  BY <3>1 DEF Prepared, WellFormed
  <2>2. CASE ~Deferred
    BY <1>1, <1>2, <2>2 DEF CallWell
  <2> QED  BY <2>1, <2>2
<1>4. device = "panel" /\ calls[c].attr # "energy" /\ slots["fuel"] # None /\ slots["mirror"] # None
      => \A x \in {"fuel", "mirror"} \cap DOMAIN command.writes : command.writes[x] = slots[x]
  BY <1>1, <1>2, PanelKeepsFuel DEF Deferred, CallWell
<1> HIDE DEF command
<1>5. /\ call.pc = "sent" /\ call.writes = command.writes /\ call.attr = calls[c].attr
      /\ call.stale = FuelUnsure /\ CallWell(call)
  BY <1>2, <1>3 DEF CallWell, CallFields, Prepared
<1> HIDE DEF call
<1>6. DOMAIN calls' = Calls /\ calls'[c] = call /\ \A d \in Calls : d # c => calls'[d] = calls[d]
  BY <1>1, <1>2
<1>7. CallsWell'
  <2>1. \A r : CallWell(r)' = CallWell(r)
    BY <1>1 DEF CallWell, Deferred
  <2>2. \A d \in Calls : CallWell(calls[d])
    BY DEF ControlInv, CallsWell
  <2>3. ASSUME NEW d \in Calls PROVE CallWell(calls'[d])
    BY <1>5, <1>6, <2>2
  <2> QED  BY <1>6, <2>1, <2>3 DEF CallsWell
<1>8. /\ wire \in Seq(Calls) /\ n = Len(wire) /\ wire' \in Seq(Calls) /\ Len(wire') = n + 1 /\ wire'[n + 1] = c
      /\ \A i \in 1 .. n : wire'[i] = wire[i] /\ wire[i] \in Calls /\ wire[i] # c
      /\ \A i \in 1 .. n : calls[wire[i]].pc = "sent"
      /\ \A i, j \in 1 .. n : wire[i] = wire[j] => i = j
  BY <1>0, <1>1 DEF ControlInv, WireWell
<1>9. WireWell'
  <2>1. \A i \in 1 .. n + 1 : calls'[wire'[i]].pc = "sent"
    BY <1>5, <1>6, <1>8
  <2>2. \A i, j \in 1 .. n + 1 : wire'[i] = wire'[j] => i = j
    BY <1>8
  <2> QED  BY <1>8, <2>1, <2>2 DEF WireWell
<1>10. /\ WritesOf(n + 1)' = command.writes
       /\ \A i \in 1 .. n : WritesOf(i)' = WritesOf(i)
  BY <1>5, <1>6, <1>8 DEF WritesOf
<1>11. /\ \A a : LeftAfter(n + 1, a)'
       /\ \A i \in 0 .. n : \A a : LeftAfter(i, a) /\ Leaves(device, command.writes, a) => LeftAfter(i, a)'
  <2>1. ASSUME NEW i \in 0 .. n, NEW a, LeftAfter(i, a), Leaves(device, command.writes, a) PROVE LeftAfter(i, a)'
    <3>1. \A j \in 1 .. n : j > i => Leaves(device, WritesOf(j), a)
      BY <1>0, <2>1 DEF LeftAfter
    <3>2. \A j \in 1 .. n + 1 : j > i => Leaves(device, WritesOf(j)', a)
      BY <1>8, <1>10, <2>1, <3>1
    <3> QED  BY <1>1, <1>8, <3>2 DEF LeftAfter
  <2>2. \A a : LeftAfter(n + 1, a)'
    BY <1>8 DEF LeftAfter
  <2> QED  BY <2>1, <2>2
<1>12. /\ claims' \in ClaimSets(device)
       /\ \A a \in Attrs(device) : claims'[a] = IF a \in DOMAIN command.claim THEN command.claim[a] ELSE claims[a]
  BY <1>1, <1>2, <1>3, ClaimsTyped DEF Prepared
<1>13. intent' = [a \in Attrs(device) |->
                     IF a \in DOMAIN command.claim THEN command.claim[a]
                     ELSE IF Told(device, command.writes)[a] = Untold(device)[a] THEN intent[a]
                     ELSE IF Told(device, command.writes)[a] = claims'[a] THEN Told(device, command.writes)[a] ELSE None]
  BY <1>1 DEF ToldBy, Told, Untold, Blank
<1>14. ASSUME NEW a \in Attrs(device)
       PROVE  \/ intent'[a] = None
              \/ Fixes(device, command.writes, a, intent'[a]) /\ claims'[a] = intent'[a]
              \/ /\ Leaves(device, command.writes, a) /\ intent'[a] = intent[a] /\ claims'[a] = claims[a]
                 /\ device # "slot"
  BY <1>3, <1>12, <1>13 DEF Prepared, Sound
<1>15. ControlTypes'
  <2>1. \A a \in Attrs(device) : intent'[a] \in {claims'[a], intent[a], None}
    BY <1>12, <1>13
  <2>2. \A a \in Attrs(device) : intent'[a] \in Asks(device)[a] \cup {None} /\ intent'[a] \in ClaimsOf(device)
    BY <1>2, <1>12, <2>1 DEF ClaimSets, ClaimsOf
  <2>3. intent' = [a \in Attrs(device) |-> intent'[a]]
    BY <1>13
  <2>4. intent' \in [Attrs(device) -> ClaimsOf(device)]
    BY <2>2, <2>3
  <2>5. intent' \in ClaimSets(device)
    BY <2>2, <2>4 DEF ClaimSets
  <2> QED  BY <1>1, <1>12, <2>5 DEF ControlInv, ControlTypes
<1>16. IntentComes'
  <2> SUFFICES ASSUME NEW a \in Attrs(device), intent'[a] # None PROVE Coming(a)'
      BY <1>1 DEF IntentComes
  <2>1. CASE Fixes(device, command.writes, a, intent'[a])
    <3>1. n + 1 \in 1 .. n + 1 /\ Fixes(device, WritesOf(n + 1)', a, intent'[a]) /\ LeftAfter(n + 1, a)'
      BY <1>8, <1>10, <1>11, <2>1
    <3> QED  BY <1>1, <1>8, <3>1 DEF Coming
  <2>2. CASE Leaves(device, command.writes, a) /\ intent'[a] = intent[a]
    <3>1. Coming(a)
      BY <2>2 DEF ControlInv, IntentComes
    <3>2. CASE ReadBack(device, vehicle)[a] = intent[a] /\ LeftAfter(0, a)
      <4>1. LeftAfter(0, a)'
        BY <1>8, <1>11, <2>2, <3>2
      <4> QED  BY <1>1, <2>2, <3>2, <4>1 DEF Coming
    <3>3. CASE \E i \in 1 .. Len(wire) : Fixes(device, WritesOf(i), a, intent[a]) /\ LeftAfter(i, a)
      <4>1. PICK i \in 1 .. n : Fixes(device, WritesOf(i), a, intent[a]) /\ LeftAfter(i, a)
        BY <1>0, <3>3
      <4>2. i \in 1 .. n + 1 /\ Fixes(device, WritesOf(i)', a, intent'[a]) /\ LeftAfter(i, a)'
        BY <1>8, <1>10, <1>11, <2>2, <4>1
      <4> QED  BY <1>1, <1>8, <4>2 DEF Coming
    <3> QED  BY <3>1, <3>2, <3>3 DEF Coming
  <2> QED  BY <1>14, <2>1, <2>2
<1>17. IntentShows'
  <2> SUFFICES ASSUME NEW a \in Attrs(device) \ Forgetful, intent'[a] # None PROVE Held(a)'
      BY <1>1 DEF IntentShows, Forgetful
  <2>1. CASE claims'[a] = intent'[a]
    BY <2>1 DEF Held
  <2>2. CASE Leaves(device, command.writes, a) /\ intent'[a] = intent[a] /\ claims'[a] = claims[a] /\ device # "slot"
    <3>1. Held(a)
      BY <2>2 DEF ControlInv, IntentShows, Timed
    <3>2. LeftAfter(0, a) => LeftAfter(0, a)'
      BY <1>8, <1>11, <2>2
    <3> QED  BY <1>1, <2>2, <3>1, <3>2 DEF Held
  <2> QED  BY <1>14, <2>1, <2>2
<1>18. FuelIsLast'
  <2> SUFFICES ASSUME device = "panel", NEW d \in Calls, calls'[d].pc = "sent", calls'[d].attr # "energy", ~calls'[d].stale
               PROVE  /\ wire' # <<>> /\ wire'[1] = d
                      /\ \A x \in {"fuel", "mirror"} \cap DOMAIN calls'[d].writes : calls'[d].writes[x] = vehicle[x]
      BY <1>1 DEF FuelIsLast
  <2>1. CASE d # c
    <3>1. calls'[d] = calls[d] /\ wire # <<>> /\ wire[1] = d
          /\ \A x \in {"fuel", "mirror"} \cap DOMAIN calls[d].writes : calls[d].writes[x] = vehicle[x]
      BY <1>6, <2>1 DEF ControlInv, FuelIsLast
    <3>2. n > 0
      BY <1>8, <3>1
    <3> QED  BY <1>8, <3>1, <3>2
  <2>2. CASE d = c
    <3>1. ~FuelUnsure /\ calls[c].attr # "energy" /\ calls'[c].writes = command.writes
      BY <1>5, <1>6, <2>2
    <3>2. wire = <<>> /\ slots["fuel"] = vehicle["fuel"] /\ slots["mirror"] = vehicle["mirror"]
      BY <3>1 DEF FuelUnsure
    <3>3. n = 0
      BY <1>8, <3>2
    <3>4. wire'[1] = c /\ Len(wire') = 1
      BY <1>8, <3>3
    <3>5. wire' # <<>>
      BY <3>4
    <3>6. vehicle["fuel"] # None /\ vehicle["mirror"] # None
      BY <1>2, Panel DEF States, None
    <3> QED  BY <1>4, <2>2, <3>1, <3>2, <3>4, <3>5, <3>6
  <2> QED  BY <2>1, <2>2
<1> QED  BY <1>7, <1>9, <1>15, <1>16, <1>17, <1>18 DEF ControlInv

\* A message arrives: the vehicle reads as its writes fixed it.  A fuel that was
\* reported right and has not changed on the way is written as it was.
LEMMA ReceiveKeeps ==
    ASSUME ControlInv, device \in Controlled, Receive
    PROVE  ControlInv' /\ (device = "panel" /\ calls[Head(wire)].attr # "energy" /\ ~calls[Head(wire)].stale
                           => vehicle'["fuel"] = vehicle["fuel"] /\ vehicle'["mirror"] = vehicle["mirror"])
<1>0. PICK n \in Nat : n = Len(wire)
  BY DEF ControlInv, WireWell
<1>1. /\ wire \in Seq(Calls) /\ wire # <<>> /\ n > 0
      /\ \A i \in 1 .. n : wire[i] \in Calls /\ calls[wire[i]].pc = "sent"
      /\ \A i, j \in 1 .. n : wire[i] = wire[j] => i = j
  BY <1>0 DEF Receive, ControlInv, WireWell
<1>2. PICK c \in Calls : c = Head(wire) /\ c = wire[1]
  BY <1>1
<1> DEFINE call == [pc |-> "done", attr |-> None, value |-> None, writes |-> <<>>, claim |-> <<>>, stale |-> FALSE]
<1>3. /\ UNCHANGED <<device, slots, claims, expired, changes>> /\ wire' = Tail(wire)
      /\ \/ vehicle' = TakenBy(device, vehicle, calls[c].writes) /\ \E names : intent' = Forget(intent, names)
         \/ vehicle' = vehicle /\ intent' = NoClaims(device)
  BY <1>2 DEF Receive, Taken, TakenBy
<1>4. calls' = [calls EXCEPT ![c] = call]
  <2> HIDE DEF call
  <2>1. call = [NoCall EXCEPT !.pc = "done"]
    BY CallIsOver DEF call
  <2> QED  BY <1>2, <2>1 DEF Receive
<1>5. CallWell(call) /\ call.pc = "done"
  BY DEF CallWell, CallFields
<1> HIDE DEF call
<1>6. /\ vehicle \in States(device) /\ slots \in Reports(device) /\ claims \in ClaimSets(device)
      /\ intent \in ClaimSets(device)
      /\ DOMAIN calls = Calls /\ (\A d \in Calls : CallWell(calls[d])) /\ calls[c].pc = "sent"
  BY <1>1, <1>2 DEF ControlInv, ControlTypes, CallsWell
<1>7. DOMAIN calls' = Calls /\ calls'[c] = call /\ \A d \in Calls : d # c => calls'[d] = calls[d]
  BY <1>4, <1>6
<1>8. CallsWell'
  <2>1. \A r : CallWell(r)' = CallWell(r)
    BY <1>3 DEF CallWell, Deferred
  <2>2. ASSUME NEW d \in Calls PROVE CallWell(calls'[d])
    BY <1>5, <1>6, <1>7
  <2> QED  BY <1>7, <2>1, <2>2 DEF CallsWell
<1>9. /\ wire' \in Seq(Calls) /\ Len(wire') = n - 1
      /\ \A i \in 1 .. n - 1 : i + 1 \in 1 .. n /\ wire'[i] = wire[i + 1] /\ wire[i + 1] # c
  <2>1. wire' \in Seq(Calls) /\ Len(wire') = n - 1 /\ \A i \in 1 .. n - 1 : wire'[i] = wire[i + 1]
    BY <1>0, <1>1, <1>3
  <2>2. ASSUME NEW i \in 1 .. n - 1 PROVE i + 1 \in 1 .. n /\ wire[i + 1] # c
    <3>1. i + 1 \in 1 .. n /\ 1 \in 1 .. n /\ i + 1 # 1
      BY <1>1
    <3> QED  BY <1>1, <1>2, <3>1
  <2> QED  BY <2>1, <2>2
<1>10. WireWell'
  <2>1. \A i \in 1 .. n - 1 : calls'[wire'[i]].pc = "sent"
    BY <1>1, <1>7, <1>9
  <2>2. \A i, j \in 1 .. n - 1 : wire'[i] = wire'[j] => i = j
    <3> SUFFICES ASSUME NEW i \in 1 .. n - 1, NEW j \in 1 .. n - 1, wire'[i] = wire'[j] PROVE i = j
        OBVIOUS
    <3>1. i + 1 = j + 1
      BY <1>1, <1>9
    <3> QED  BY <3>1
  <2> QED  BY <1>9, <2>1, <2>2 DEF WireWell
<1>11. \A i \in 1 .. n - 1 : WritesOf(i)' = WritesOf(i + 1)
  BY <1>1, <1>7, <1>9 DEF WritesOf
<1>12. /\ WritesOf(1) = calls[c].writes
       /\ \A a : LeftAfter(0, a) => Leaves(device, calls[c].writes, a) /\ LeftAfter(0, a)'
       /\ \A i \in 1 .. n : \A a : LeftAfter(i, a) => LeftAfter(i - 1, a)'
  <2>1. WritesOf(1) = calls[c].writes /\ 1 \in 1 .. n
    BY <1>1, <1>2 DEF WritesOf
  <2>2. ASSUME NEW i \in 0 .. n, NEW k \in 0 .. n, k = i \/ k = i + 1, NEW a, LeftAfter(k, a)
        PROVE  (k = 0 => Leaves(device, calls[c].writes, a)) /\ LeftAfter(i, a)'
    <3>1. \A j \in 1 .. n : j > k => Leaves(device, WritesOf(j), a)
      BY <1>0, <2>2 DEF LeftAfter
    <3>2. ASSUME NEW j \in 1 .. n - 1, j > i PROVE Leaves(device, WritesOf(j)', a)
      <4>1. j + 1 \in 1 .. n /\ j + 1 > k
        BY <2>2, <3>2
      <4> QED  BY <1>11, <3>1, <4>1
    <3>3. LeftAfter(i, a)'
      BY <1>3, <1>9, <3>2 DEF LeftAfter
    <3> QED  BY <1>1, <2>1, <3>1, <3>3
  <2>3. \A a : LeftAfter(0, a) => Leaves(device, calls[c].writes, a) /\ LeftAfter(0, a)'
    BY <1>1, <2>2
  <2>4. ASSUME NEW i \in 1 .. n, NEW a, LeftAfter(i, a) PROVE LeftAfter(i - 1, a)'
    <3>1. i - 1 \in 0 .. n /\ i \in 0 .. n /\ i = (i - 1) + 1
      BY <1>1
    <3> QED  BY <2>2, <2>4, <3>1
  <2> QED  BY <2>1, <2>3, <2>4
<1>13. ASSUME vehicle' = TakenBy(device, vehicle, calls[c].writes), \E names : intent' = Forget(intent, names)
       PROVE  ControlTypes' /\ IntentComes' /\ IntentShows'
  <2>1. vehicle' \in States(device)
    BY <1>6, <1>13, TakenIsTyped DEF CallWell
  <2>2. intent' \in ClaimSets(device) /\ \A a \in Attrs(device) : intent'[a] \in {intent[a], None}
    BY <1>6, <1>13, ClaimsTyped
  <2>3. ControlTypes'
    BY <1>3, <2>1, <2>2 DEF ControlInv, ControlTypes
  <2>4. /\ \A a : Leaves(device, calls[c].writes, a) => ReadBack(device, vehicle')[a] = ReadBack(device, vehicle)[a]
        /\ \A a, x : Fixes(device, calls[c].writes, a, x) => ReadBack(device, vehicle')[a] = x
    BY <1>6, <1>13 DEF Leaves, Fixes
  <2>5. IntentComes'
    <3> SUFFICES ASSUME NEW a \in Attrs(device), intent'[a] # None PROVE Coming(a)'
        BY <1>3 DEF IntentComes
    <3>1. Coming(a) /\ intent'[a] = intent[a]
      BY <2>2 DEF ControlInv, IntentComes
    <3>2. CASE ReadBack(device, vehicle)[a] = intent[a] /\ LeftAfter(0, a)
      BY <1>3, <1>12, <2>4, <3>1, <3>2 DEF Coming
    <3>3. ASSUME NEW i \in 1 .. n, Fixes(device, WritesOf(i), a, intent[a]), LeftAfter(i, a) PROVE Coming(a)'
      <4>1. LeftAfter(i - 1, a)'
        BY <1>12, <3>3
      <4>2. CASE i = 1
        <5>1. LeftAfter(0, a)' /\ ReadBack(device, vehicle')[a] = intent'[a]
          BY <1>12, <2>4, <3>1, <3>3, <4>1, <4>2
        <5> QED  BY <1>3, <5>1 DEF Coming
      <4>3. CASE i # 1
        <5>1. PICK k \in 1 .. n - 1 : k = i - 1 /\ k + 1 = i
          BY <4>3
        <5>2. Fixes(device, WritesOf(k)', a, intent'[a]) /\ LeftAfter(k, a)'
          BY <1>11, <3>1, <3>3, <4>1, <5>1
        <5> QED  BY <1>3, <1>9, <5>2 DEF Coming
      <4> QED  BY <4>2, <4>3
    <3> QED  BY <1>0, <3>1, <3>2, <3>3 DEF Coming
  <2>6. IntentShows'
    <3>1. ASSUME NEW a \in Attrs(device) \ Forgetful, intent'[a] # None, ~(Timed /\ expired) PROVE Held(a)'
      <4>1. intent'[a] = intent[a] /\ Held(a)
        BY <2>2, <3>1 DEF ControlInv, IntentShows
      <4> QED  BY <1>3, <1>12, <2>4, <4>1 DEF Held
    <3> QED  BY <1>3, <3>1 DEF ControlInv, IntentShows, Timed, Forgetful
  <2> QED  BY <2>3, <2>5, <2>6
<1>14. ASSUME vehicle' = vehicle, intent' = NoClaims(device)
       PROVE  ControlTypes' /\ IntentComes' /\ IntentShows'
  <2>1. intent' \in ClaimSets(device) /\ \A a \in Attrs(device) : intent'[a] = None
    BY <1>6, <1>14, ClaimsTyped DEF NoClaims
  <2>2. ControlTypes' /\ IntentComes' /\ IntentShows'
    BY <1>3, <1>14, <2>1 DEF ControlInv, ControlTypes, IntentComes, IntentShows, Timed, Forgetful
  <2> QED  BY <2>2
<1>15. FuelIsLast'
  <2> SUFFICES ASSUME device = "panel", NEW d \in Calls, calls'[d].pc = "sent", calls'[d].attr # "energy", ~calls'[d].stale
               PROVE  FALSE
      BY <1>3 DEF FuelIsLast
  <2>1. d # c /\ calls'[d] = calls[d]
    BY <1>5, <1>7
  <2>2. wire[1] = d
    BY <2>1 DEF ControlInv, FuelIsLast
  <2> QED  BY <1>2, <2>1, <2>2
<1>16. ASSUME device = "panel", calls[c].attr # "energy", ~calls[c].stale
       PROVE  vehicle'["fuel"] = vehicle["fuel"] /\ vehicle'["mirror"] = vehicle["mirror"]
  <2>1. \A x \in {"fuel", "mirror"} \cap DOMAIN calls[c].writes : calls[c].writes[x] = vehicle[x]
    BY <1>6, <1>16 DEF ControlInv, FuelIsLast
  <2>2. CASE vehicle' = TakenBy(device, vehicle, calls[c].writes)
    <3>1. vehicle' = Override(vehicle, calls[c].writes)
      BY <1>16, <2>2 DEF TakenBy
    <3>2. DOMAIN vehicle = Slots("panel")
      BY <1>6, <1>16 DEF States
    <3> QED  BY <2>1, <3>1, <3>2, Overridden, Panel
  <2> QED  BY <1>3, <2>2
<1>17. ControlInv'
  BY <1>3, <1>8, <1>10, <1>13, <1>14, <1>15 DEF ControlInv
<1> QED  BY <1>2, <1>16, <1>17

\* Someone else changes the vehicle: nothing is intended any more.
LEMMA ChangeKeeps ==
    ASSUME ControlInv, device \in Controlled, ChangeAtVehicle
    PROVE  ControlInv'
<1>0. PICK s \in Slots(device) : \E v \in SlotValues(device)[s] :
         /\ changes < MaxChanges /\ vehicle' = [vehicle EXCEPT ![s] = v]
         /\ intent' = NoClaims(device) /\ changes' = changes + 1
         /\ calls' = [c \in Calls |-> [calls[c] EXCEPT !.stale = @ \/ calls[c].pc = "sent"]]
         /\ UNCHANGED <<device, slots, claims, expired, wire>>
  BY DEF ChangeAtVehicle
<1>1. PICK v \in SlotValues(device)[s] :
         /\ changes < MaxChanges /\ vehicle' = [vehicle EXCEPT ![s] = v]
         /\ intent' = NoClaims(device) /\ changes' = changes + 1
         /\ calls' = [c \in Calls |-> [calls[c] EXCEPT !.stale = @ \/ calls[c].pc = "sent"]]
         /\ UNCHANGED <<device, slots, claims, expired, wire>>
  BY <1>0
<1>2. /\ vehicle \in States(device) /\ intent \in ClaimSets(device) /\ changes \in 0 .. MaxChanges
      /\ \A c \in Calls : CallWell(calls[c])
  BY DEF ControlInv, ControlTypes, CallsWell
<1>3. vehicle' \in States(device)
  <2>1. v \in ValuesOf(device)
    BY DEF ValuesOf
  <2> QED  BY <1>1, <1>2, <2>1 DEF States
<1>4. intent' \in ClaimSets(device) /\ \A a \in Attrs(device) : intent'[a] = None
  BY <1>1, <1>2, ClaimsTyped DEF NoClaims
<1>5. changes' \in 0 .. MaxChanges
  BY <1>1, <1>2, ControlsAssumption
<1>6. ASSUME NEW c \in Calls
      PROVE  /\ calls'[c].pc = calls[c].pc /\ calls'[c].attr = calls[c].attr /\ calls'[c].value = calls[c].value
             /\ calls'[c].writes = calls[c].writes /\ calls'[c].claim = calls[c].claim
             /\ calls'[c] = CallFields(calls'[c]) /\ (calls[c].pc = "sent" => calls'[c].stale)
  <2> DEFINE st == calls[c].stale \/ calls[c].pc = "sent"
             new == [pc |-> calls[c].pc, attr |-> calls[c].attr, value |-> calls[c].value,
                     writes |-> calls[c].writes, claim |-> calls[c].claim, stale |-> st]
  <2>1. calls[c] = CallFields(calls[c])
    BY <1>2 DEF CallWell
  <2>2. calls'[c] = [calls[c] EXCEPT !.stale = st]
    BY <1>1
  <2>3. calls[c].pc = "sent" => st
    OBVIOUS
  <2> HIDE DEF st
  <2>4. calls'[c] = new
    <3>1. [CallFields(calls[c]) EXCEPT !.stale = st] = new
      BY DEF CallFields
    <3> QED  BY <2>1, <2>2, <3>1
  <2>5. CallFields(new) = new
    BY DEF CallFields
  <2> QED  BY <2>3, <2>4, <2>5
<1>7. CallsWell'
  <2>1. \A r : CallWell(r)' = CallWell(r)
    BY <1>1 DEF CallWell, Deferred
  <2>2. ASSUME NEW c \in Calls PROVE CallWell(calls'[c])
    BY <1>2, <1>6 DEF CallWell
  <2>3. DOMAIN calls' = Calls
    BY <1>1
  <2> QED  BY <2>1, <2>2, <2>3 DEF CallsWell
<1>8. WireWell'
  BY <1>1, <1>6, SameWire
<1>9. FuelIsLast'
  BY <1>1, <1>6 DEF ControlInv, FuelIsLast
<1>10. ControlTypes' /\ IntentComes' /\ IntentShows'
  BY <1>1, <1>3, <1>4, <1>5 DEF ControlInv, ControlTypes, IntentComes, IntentShows, Timed, Forgetful
<1> QED  BY <1>7, <1>8, <1>9, <1>10 DEF ControlInv

\* A report of any part of the vehicle: a claim is dropped only for what the slots show.
LEMMA UpdateKeeps ==
    ASSUME ControlInv, device \in Controlled, Update
    PROVE  ControlInv'
<1> DEFINE kept == IF Timed /\ expired THEN NoClaims(device) ELSE claims
<1>1. PICK reported :
         /\ slots' = [s \in Slots(device) |-> IF s \in reported THEN vehicle[s] ELSE slots[s]]
         /\ claims' = Settled(device, slots', kept)
         /\ intent' = Forget(intent, {a \in Attrs(device) : BorneOutEarly(a, slots')})
         /\ UNCHANGED <<device, vehicle, expired, calls, wire, changes>>
  BY DEF Update
<1>2. /\ vehicle \in States(device) /\ slots \in Reports(device)
      /\ claims \in ClaimSets(device) /\ intent \in ClaimSets(device)
  BY DEF ControlInv, ControlTypes
<1>3. kept \in ClaimSets(device)
  BY <1>2, ClaimsTyped
<1>4. vehicle \in Reports(device) /\ slots' \in Reports(device) /\ \A s \in Slots(device) : slots'[s] \in {slots[s], vehicle[s]}
  <2>1. vehicle \in Reports(device)
    BY <1>2 DEF States, Reports
  <2>2. \A s \in Slots(device) : slots'[s] \in {slots[s], vehicle[s]}
    BY <1>1
  <2>3. slots' \in [Slots(device) -> ValuesOf(device)]
    BY <1>1, <1>2 DEF States, Reports
  <2>4. \A s \in Slots(device) : slots'[s] \in SlotValues(device)[s] \cup {None}
    BY <1>2, <2>2 DEF States, Reports
  <2> QED  BY <2>1, <2>2, <2>3, <2>4 DEF Reports
<1>5. /\ DOMAIN claims' = Attrs(device)
      /\ \A a \in Attrs(device) : claims'[a] \in {kept[a], None}
      /\ \A a \in Attrs(device) \ Forgetful : claims'[a] = kept[a] \/ ReadBack(device, slots')[a] = kept[a]
  BY <1>1, <1>3, <1>4, SettledClaims
<1>6. claims' \in ClaimSets(device)
  <2>0. claims' = [a \in DOMAIN claims' |-> claims'[a]]
    BY <1>1 DEF Settled, TrumaSettle, HeaterSettle, ZoneSettle, Settle
  <2>1. \A a \in Attrs(device) : claims'[a] \in Asks(device)[a] \cup {None} /\ claims'[a] \in ClaimsOf(device)
    BY <1>3, <1>5 DEF ClaimSets, ClaimsOf
  <2>2. claims' \in [Attrs(device) -> ClaimsOf(device)]
    BY <1>5, <2>0, <2>1
  <2> QED  BY <2>1, <2>2 DEF ClaimSets
<1>7. /\ intent' \in ClaimSets(device)
      /\ \A a \in Attrs(device) : intent'[a] = IF BorneOutEarly(a, slots') THEN None ELSE intent[a]
  BY <1>1, <1>2, ClaimsTyped
<1>8. ControlTypes'
  BY <1>1, <1>4, <1>6, <1>7 DEF ControlInv, ControlTypes
<1>9. \A c \in Calls : calls[c].pc = "sent" => calls'[c].pc = "sent" /\ calls'[c].writes = calls[c].writes
  BY <1>1
<1>10. WireWell' /\ IntentComes' /\ (\A a : LeftAfter(0, a)' = LeftAfter(0, a))
  BY <1>1, <1>7, <1>9, SameWire, SameComes
<1>11. CallsWell' /\ FuelIsLast'
  BY <1>1 DEF ControlInv, CallsWell, CallWell, Deferred, FuelIsLast
<1>12. IntentShows'
  <2>1. ASSUME NEW a \in Attrs(device) \ Forgetful, intent'[a] # None, ~(Timed /\ expired) PROVE Held(a)'
    <3>1. /\ intent'[a] = intent[a] /\ Held(a) /\ Coming(a) /\ kept = claims
          /\ ~BorneOutEarly(a, slots')
      BY <1>7, <2>1 DEF ControlInv, IntentShows, IntentComes
    <3>2. CASE claims[a] = intent[a] /\ claims'[a] = claims[a]
      BY <3>1, <3>2 DEF Held
    <3>3. CASE claims[a] = intent[a] /\ claims'[a] # claims[a]
      <4>1. claims'[a] = None /\ ReadBack(device, slots')[a] = claims[a] /\ claims[a] # None
        BY <1>5, <2>1, <3>1, <3>3
      <4>2. wire = <<>>
        BY <3>1, <4>1 DEF BorneOutEarly
      <4>3. ReadBack(device, vehicle)[a] = intent[a] /\ LeftAfter(0, a)
        <5>1. Len(wire) = 0
          BY <4>2
        <5> QED  BY <3>1, <5>1 DEF Coming
      <4> QED  BY <1>1, <1>10, <3>1, <3>3, <4>1, <4>3 DEF Held
    <3>4. CASE claims[a] # intent[a]
      <4>1. /\ claims[a] = None /\ ReadBack(device, slots)[a] = intent[a]
            /\ ReadBack(device, vehicle)[a] = intent[a] /\ LeftAfter(0, a)
        BY <3>1, <3>4 DEF Held
      <4>2. ReadBack(device, slots')[a] = intent[a]
        BY <1>2, <1>4, <2>1, <3>1, <4>1, MixReads
      <4>3. claims'[a] = None
        BY <1>5, <3>1, <4>1
      <4> QED  BY <1>1, <1>10, <3>1, <4>1, <4>2, <4>3 DEF Held
    <3> QED  BY <3>2, <3>3, <3>4
  <2>2. ASSUME Timed, expired PROVE claims' = NoClaims(device)
    <3>1. \A a \in Attrs(device) : claims'[a] = None
      BY <1>5, <2>2 DEF NoClaims
    <3> QED  BY <1>5, <1>6, <3>1 DEF ClaimSets, NoClaims
  <2> QED  BY <1>1, <2>1, <2>2 DEF IntentShows, Timed, Forgetful
<1> QED  BY <1>8, <1>10, <1>11, <1>12 DEF ControlInv

\* The claims of a generic control expire.
LEMMA ExpireKeeps ==
    ASSUME ControlInv, Expire
    PROVE  ControlInv'
<1>1. /\ Timed /\ expired' = TRUE /\ claims' = NoClaims(device)
      /\ UNCHANGED <<device, vehicle, slots, calls, wire, intent, changes>>
  BY DEF Expire
<1>2. claims' \in ClaimSets(device)
  BY <1>1, ClaimsTyped DEF ControlInv, ControlTypes
<1>3. WireWell' /\ IntentComes'
  BY <1>1, SameWire, SameComes
<1>4. ControlTypes' /\ CallsWell' /\ FuelIsLast' /\ IntentShows'
  BY <1>1, <1>2 DEF ControlInv, ControlTypes, CallsWell, CallWell, Deferred, FuelIsLast, IntentShows, Timed
<1> QED  BY <1>3, <1>4 DEF ControlInv

\* The main switch's steps leave the other devices' variables alone.
LEMMA FrameKeeps == ControlInv /\ UNCHANGED <<device, controlVars>> => ControlInv'
BY DEF controlVars, ControlInv, ControlTypes, CallsWell, CallWell, Deferred, WireWell, IntentComes, Coming, LeftAfter,
       WritesOf, IntentShows, Held, Timed, Forgetful, FuelIsLast

\* Every step keeps the invariant: one case per action.
LEMMA ControlStep == ControlInv /\ [Next]_vars => ControlInv'
<1> SUFFICES ASSUME ControlInv, [Next]_vars PROVE ControlInv'
    OBVIOUS
<1>1. device # "main_switch" => device \in Controlled
  BY ControlsAssumption DEF ControlInv, ControlTypes, Controlled
<1>2. CASE device # "main_switch" /\ ControlNext
  BY <1>1, <1>2, AskKeeps, SendKeeps, FailKeeps, ReceiveKeeps, ChangeKeeps, UpdateKeeps, ExpireKeeps DEF ControlNext
<1>3. CASE UNCHANGED <<device, controlVars>>
  BY <1>3, FrameKeeps
<1> QED  BY <1>2, <1>3 DEF Next, vars

\* Nothing is claimed, sent or intended.
LEMMA ControlStarts == Init => ControlInv
<1> SUFFICES ASSUME Init PROVE ControlInv
    OBVIOUS
<1>1. device \in Devices /\ claims = NoClaims(device) /\ intent = NoClaims(device) /\ expired = FALSE
      /\ calls = [c \in Calls |-> NoCall] /\ wire = <<>> /\ changes = 0
  BY DEF Init
<1>2. vehicle \in States(device)
  <2>1. \A s \in Slots(device) : vehicle[s] \in SlotValues(device)[s]
    <3>1. \A s \in Slots(device) : \E v : v \in SlotValues(device)[s]
      <4>1. device \in Controlled \cup {"main_switch"}
        BY <1>1, ControlsAssumption DEF Controlled
      <4>2. CASE device = "panel"
        BY <4>2, Panel
      <4>3. CASE device \in {"modern", "aircon"}
        BY <4>3, Climates
      <4>4. CASE device = "zone"
        BY <4>4, Zone
      <4>5. CASE device \in {"roof_fan", "maxxfan"}
        BY <4>5, Fans
      <4>6. CASE device = "slot"
        BY <4>6 DEF Slots, SlotValues
      <4>7. CASE device = "main_switch"
        BY <4>7 DEF Slots, SlotValues
      <4> QED  BY <4>1, <4>2, <4>3, <4>4, <4>5, <4>6, <4>7 DEF Controlled
    <3>2. \A s \in Slots(device) : vehicle[s] = CHOOSE v \in SlotValues(device)[s] : TRUE
      BY DEF Init
    <3> QED  BY <3>1, <3>2
  <2>2. vehicle \in [Slots(device) -> ValuesOf(device)]
    BY DEF Init, ValuesOf
  <2> QED  BY <2>1, <2>2 DEF States
<1>3. slots \in Reports(device)
  BY <1>2 DEF Init, States, Reports, ValuesOf
<1>4. NoClaims(device) \in ClaimSets(device)
  BY DEF NoClaims, ClaimSets, ClaimsOf
<1>5. ControlTypes
  <2>1. 0 \in 0 .. MaxChanges /\ FALSE \in BOOLEAN
    BY ControlsAssumption
  <2> QED  BY <1>1, <1>2, <1>3, <1>4, <2>1 DEF ControlTypes
<1>6. CallsWell
  BY <1>1 DEF CallsWell, CallWell, CallFields, NoCall
<1>7. WireWell
  <2>1. <<>> \in Seq(Calls) /\ Len(<<>>) = 0
    OBVIOUS
  <2> QED  BY <1>1, <2>1 DEF WireWell
<1>8. IntentComes /\ IntentShows
  BY <1>1 DEF IntentComes, IntentShows, NoClaims
<1>9. FuelIsLast
  BY <1>1 DEF FuelIsLast, NoCall
<1> QED  BY <1>5, <1>6, <1>7, <1>8, <1>9 DEF ControlInv

\* The invariant holds in every reachable state.
LEMMA TheControls == Spec => []ControlInv
BY ControlStarts, ControlStep, PTL DEF Spec

(* For every device, and any number of commands, changes and reports in any order:
   an entity shows what it asked for until the vehicle refuses it or someone else
   changes it, and an expired claim of a generic control hides nothing
   (_handle_coordinator_update, entity_base.py and templates/).                  *)
THEOREM WhatIsAskedIsShown == Spec => []AskedIsShown
<1>1. ControlInv => AskedIsShown
  <2> SUFFICES ASSUME ControlInv PROVE AskedIsShown
      OBVIOUS
  <2>1. ASSUME NEW a \in Attrs(device) \ Forgetful, intent[a] # None, ~(Timed /\ expired) PROVE Shown(a) = intent[a]
    BY <2>1 DEF ControlInv, IntentShows, Held, Shown
  <2>2. ASSUME Timed, expired, slots = vehicle, NEW a \in Attrs(device)
        PROVE  Shown(a) = ReadBack(device, vehicle)[a]
    <3>1. claims[a] = None
      BY <2>2 DEF ControlInv, IntentShows, NoClaims
    <3> QED  BY <2>2, <3>1 DEF Shown
  <2> QED  BY <2>1, <2>2 DEF AskedIsShown
<1> QED  BY <1>1, TheControls, PTL

(* What the vehicle received and reported is read back as it was asked for: the
   reading of the slots inverts the writing of every command, also after others. *)
THEOREM WhatIsAppliedReadsBack == Spec => []AppliedIsReadBack
<1>1. ControlInv => AppliedIsReadBack
  <2> SUFFICES ASSUME ControlInv, wire = <<>>, slots = vehicle, NEW a \in Attrs(device), intent[a] # None
               PROVE  ReadBack(device, slots)[a] = intent[a]
      BY DEF AppliedIsReadBack
  <2>1. Coming(a) /\ Len(wire) = 0
    BY DEF ControlInv, IntentComes
  <2> QED  BY <2>1 DEF Coming
<1> QED  BY <1>1, TheControls, PTL

(* A climate or boiler command never changes the panel's fuel, unless the fuel was
   reported wrong or not at all when it was sent, or changed on the way.          *)
THEOREM TheFuelIsKept == Spec => FuelIsKept
<1>1. ASSUME ControlInv, [Next]_vars
      PROVE  \A c \in Calls : (device = "panel" /\ wire # <<>> /\ wire' = Tail(wire) /\ c = Head(wire)
                               /\ calls[c].attr # "energy" /\ ~calls[c].stale) => ~FuelChanged
  <2> SUFFICES ASSUME device = "panel", wire # <<>>, wire' = Tail(wire), calls[Head(wire)].attr # "energy",
                      ~calls[Head(wire)].stale
               PROVE  vehicle'["fuel"] = vehicle["fuel"] /\ vehicle'["mirror"] = vehicle["mirror"]
      BY DEF FuelChanged
  <2>1. wire \in Seq(Calls) /\ Len(wire) \in Nat /\ Len(wire') = Len(wire) - 1
    BY <1>1 DEF ControlInv, WireWell
  <2>2. Receive
    <3>1. wire' # wire /\ \A c \in Calls : wire' # Append(wire, c)
      <4>1. \A c \in Calls : Len(Append(wire, c)) = Len(wire) + 1
        BY <2>1
      <4>2. ASSUME NEW n \in Nat PROVE n - 1 # n /\ n - 1 # n + 1
        OBVIOUS
      <4>3. Len(wire') # Len(wire)
        BY <2>1, <4>2
      <4>4. ASSUME NEW c \in Calls PROVE Len(wire') # Len(Append(wire, c))
        BY <2>1, <4>1, <4>2
      <4> QED  BY <4>3, <4>4
    <3>2. device # "main_switch" /\ ControlNext
      BY <1>1, <3>1 DEF Next, vars, controlVars
    <3> QED  BY <3>1, <3>2 DEF ControlNext, Ask, Send, Fail, ChangeAtVehicle, Update, Expire
  <2> QED  BY <1>1, <2>2, ReceiveKeeps DEF Controlled
<1> QED  BY <1>1, TheControls, PTL DEF Spec, FuelIsKept

(* The main switch among the controls is the main switch by itself: every step of
   EntityControls is a step of MainSwitch or leaves its variables alone, so what is
   proved of MainSwitch holds of it.                                              *)
THEOREM TheSwitchRuns == Spec => SwitchSpec
<1>1. Init => SwitchInit
  BY DEF Init
<1>2. [Next]_vars => [SwitchNext]_switchVars
  BY DEF Next, vars, controlVars
<1> QED  BY <1>1, <1>2, PTL DEF Spec, SwitchSpec

(* So its retries are bounded, and its last command holds, among the controls too. *)
THEOREM TheSwitchHolds == Spec => [](RetriesAreBounded /\ LastCommandHolds)
BY TheSwitchRuns, RetriesEnd, LastCommandIsHeld, PTL

(* Slots, claims, calls and tasks hold what the code can put there.              *)
THEOREM ControlsAreTyped == Spec => []TypeOK
<1>1. ControlInv /\ SwitchTypeOK => TypeOK
  <2> SUFFICES ASSUME ControlInv, SwitchTypeOK PROVE TypeOK
      OBVIOUS
  <2>1. \A i \in DOMAIN wire : calls[wire[i]].pc = "sent"
    <3>1. DOMAIN wire = 1 .. Len(wire)
      BY DEF ControlInv, WireWell
    <3> QED  BY <3>1 DEF ControlInv, WireWell
  <2>2. \A c \in Calls : calls[c].pc \in {"free", "connecting", "sent", "done"}
    BY DEF ControlInv, CallsWell, CallWell
  <2> QED  BY <2>1, <2>2 DEF ControlInv, ControlTypes, States, Reports, ClaimSets, TypeOK
<1> QED  BY <1>1, TheControls, TheSwitchRuns, SwitchTypesHold, PTL
=============================================================================
