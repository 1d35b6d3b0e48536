---------------------------- MODULE EntityRegistry ----------------------------
(***************************************************************************)
(* The entities of one entry and what Home Assistant's registry remembers  *)
(* of them across reloads (__init__.py, platform_setup.py, entity_base.py).*)
(*                                                                         *)
(* Slots are reported in any order and any grouping; a reload forgets the  *)
(* entities and the slots but not the registry, and may bring another      *)
(* metadata pack.  How frames meet a set-up that is still going on is the  *)
(* subject of CapabilityDiscovery: here the platforms are set up at once.  *)
(***************************************************************************)
EXTENDS EntityCatalog, FiniteSets

CONSTANTS Vehicles,     \* sets of buses, of which the entry's vehicle has one
          MaxReloads,   \* bound: reloads of the entry
          MaxEdits,     \* bound: what the user changes in the registry
          MaxFrames     \* bound: frames with new slots

ASSUME RegistryAssumption ==
    /\ \A v \in Vehicles : v \subseteq DOMAIN Buses
    /\ MaxReloads \in Nat /\ MaxEdits \in Nat /\ MaxFrames \in Nat

VARIABLES buses, pack,          \* of the vehicle; the slots the metadata pack lists
          observed, due,        \* reported since the load; a refresh has to look at
          stage,                \* of async_setup_entry
          debug,                \* option: diagnostic entities are wanted
          live,                 \* entities the platforms have added
          registry,             \* unique id |-> what is remembered
          quiet,                \* nothing has touched the registry since the policies ran
          reloads, edits, frames
env == <<buses, pack, debug, reloads>>
registryVars == <<buses, pack, observed, due, stage, debug, live, registry, quiet, reloads, edits, frames>>

Disablers == {"none", "integration", "user"}
Records == [original : {"old", "current"}, name : {"none", "catalog", "user"},
            disabled : Disablers, hidden : BOOLEAN, device : {"root", "bus"}]
(* A pack may lack one slot that a later one lists, but none of those a template
   takes for granted when it builds (templates/fan.py:72, heater_energy.py:42). *)
TakenForGranted == UNION {t.needs \ t.fits : t \in Templates}
Packs(v) == {AllSlots(v)} \cup {AllSlots(v) \ {s} : s \in AllSlots(v) \ TakenForGranted}
PlatformsOf(v) == ({PlatformOf(s) : s \in AllSlots(v)} \ {"none"}) \cup {t.platform : t \in {t \in Templates : t.claims \subseteq AllSlots(v)}}

LegacyIds == {"fridge_mode"}
OldIds(v) == AllSlots(v) \cup (IF "fridge" \in v THEN LegacyIds ELSE {})

(* What an older version may have left: a generic entity of every slot on a
   device of its bus, with a name of its own. *)
Old == [original |-> "old", name |-> "none", disabled |-> "none", hidden |-> FALSE, device |-> "bus"]
RegistryTypeOK ==
    /\ buses \in Vehicles /\ pack \in Packs(buses)
    /\ observed \subseteq AllSlots(buses) /\ due \subseteq observed
    /\ stage \in {"off", "cleaned", "added", "up"} /\ debug \in BOOLEAN /\ quiet \in BOOLEAN
    /\ \A e \in live : e.platform \in Platforms /\ e.slots \subseteq KnownSlots
    /\ \A uid \in DOMAIN registry : registry[uid] \in Records
    /\ reloads \in 0..MaxReloads /\ edits \in 0..MaxEdits /\ frames \in 0..MaxFrames

RegistryInit ==
    /\ buses \in Vehicles /\ pack \in Packs(buses)
    /\ observed = {} /\ due = {} /\ stage = "off" /\ debug = FALSE /\ live = {} /\ quiet = FALSE
    /\ \E ids \in {{}, OldIds(buses)} : registry = [uid \in ids |-> Old]
    /\ reloads = 0 /\ edits = 0 /\ frames = 0

---------------------------------------------------------------------------
(* What the entities are asked for.                                        *)
Ids(entities) == {e.of : e \in entities}
IsSlot(uid) == uid \in KnownSlots
Wanted(uid) == Diagnostic(uid) => debug
HasNameOverride(uid) == uid \in AllSlots({"light", "fridge"})
Discovered == UNION {Discover(p, pack, observed) : p \in PlatformsOf(buses)}

(* The registry's entry of an entity that is added: kept, with the device and
   the name the entity states; a new one is enabled if it is wanted. *)
Entered(uid) ==
    IF uid \in DOMAIN registry THEN [registry[uid] EXCEPT !.original = "current", !.device = "root"]
    ELSE [original |-> "current", name |-> "none", hidden |-> FALSE, device |-> "root",
          disabled |-> IF Wanted(uid) THEN "none" ELSE "integration"]
Enter(ids) == registry' = [uid \in DOMAIN registry \cup ids |-> IF uid \in ids THEN Entered(uid) ELSE registry[uid]]

(* _new_entities: what has an id that was not seen before. *)
Additions(found) == {e \in found : e.of \notin Ids(live)}

---------------------------------------------------------------------------
(* async_setup_entry                                                       *)
Without(ids) == [uid \in DOMAIN registry \ ids |-> [registry[uid] EXCEPT !.device = "root"]]

\* Mutant: the duplicates of the rich entities are left
CleanLegacyOnly ==
    /\ stage = "off" /\ stage' = "cleaned" /\ registry' = Without(LegacyIds) /\ quiet' = FALSE
    /\ UNCHANGED <<env, observed, due, live, edits, frames>>
(* Remove what rich entities replace and what is no longer made, and move all
   others to the vehicle's device. *)
Clean ==
    /\ stage = "off"
    /\ stage' = "cleaned"
    /\ registry' = Without(Superseded(pack, observed) \cup LegacyIds)
    /\ quiet' = FALSE
    /\ UNCHANGED <<env, observed, due, live, edits, frames>>

SetUpPlatforms ==
    /\ stage = "cleaned"
    /\ stage' = "added"
    /\ live' = Discovered
    /\ Enter(Ids(Discovered))
    /\ UNCHANGED <<env, observed, due, quiet, edits, frames>>

(* What the generic policy makes of one entry. *)
\* Mutant: the user's switching off is taken for nobody's
DisabledWhoever(uid) ==
    IF ~Wanted(uid) THEN "integration"
    ELSE IF registry[uid].disabled = "integration" /\ ~HiddenByDefault(uid) THEN "none" ELSE registry[uid].disabled
\* Mutant: what the integration switched off is switched on, wanted or not
DisabledUnwanted(uid) ==
    IF ~Wanted(uid) /\ registry[uid].disabled = "none" THEN "integration"
    ELSE IF registry[uid].disabled = "integration" /\ ~HiddenByDefault(uid) THEN "none" ELSE registry[uid].disabled
Disabled(uid) ==
    CASE ~Wanted(uid) /\ registry[uid].disabled = "none" -> "integration"
      [] Wanted(uid) /\ registry[uid].disabled = "integration" /\ ~HiddenByDefault(uid) -> "none"
      [] OTHER -> registry[uid].disabled

Named(uid) ==
    IF HasNameOverride(uid) /\ registry[uid].original = "old" /\ registry[uid].name = "none" THEN "catalog"
    ELSE registry[uid].name

GenericPolicy(uid) ==
    [registry[uid] EXCEPT !.name = Named(uid), !.disabled = Disabled(uid),
                          !.original = IF HasNameOverride(uid) THEN "current" ELSE @,
                          !.hidden = IF HiddenByDefault(uid) THEN @ ELSE FALSE]
(* The light and the named policies state the same name as the entity. *)
NamePolicy(uid) == [registry[uid] EXCEPT !.original = "current"]
Policies ==
    registry' = [uid \in DOMAIN registry |-> IF ~IsSlot(uid) THEN NamePolicy(uid)
                                             ELSE IF uid \in pack THEN GenericPolicy(uid) ELSE registry[uid]]

SetUp ==
    /\ stage = "added"
    /\ stage' = "up"
    /\ Policies
    /\ quiet' = TRUE
    /\ UNCHANGED <<env, observed, due, live, edits, frames>>

(* The same policies again, one and five seconds after the set-up. *)
PoliciesAgain ==
    /\ stage = "up"
    /\ Policies
    /\ quiet' = TRUE
    /\ UNCHANGED <<env, observed, due, stage, live, edits, frames>>

---------------------------------------------------------------------------
(* Frames.                                                                 *)
Frame(new) ==
    /\ frames < MaxFrames
    /\ new # {} /\ new \cap observed = {}
    /\ observed' = observed \cup new
    /\ due' = IF stage \in {"added", "up"} THEN due \cup new ELSE due
    /\ frames' = frames + 1
    /\ UNCHANGED <<env, stage, live, registry, quiet, edits>>

(* _refresh_platform of every platform that the new slots may affect. *)
Refresh ==
    /\ stage = "up" /\ due # {}
    /\ LET found == UNION {Discover(p, pack, observed) : p \in {p \in PlatformsOf(buses) : Affects(p, pack, due)}}
           added == Additions(found)
       IN  /\ live' = live \cup added
           /\ Enter(Ids(added))
           /\ quiet' = (quiet /\ added = {})
    /\ due' = {}
    /\ UNCHANGED <<env, observed, stage, edits, frames>>

(* The user: renames, hides, switches off or on. *)
Edit(uid, change) ==
    /\ edits < MaxEdits
    /\ registry' = [registry EXCEPT ![uid] = change]
    /\ registry' # registry
    /\ edits' = edits + 1 /\ quiet' = FALSE
    /\ UNCHANGED <<env, observed, due, stage, live, frames>>
Edits(record) == {[record EXCEPT !.name = "user"], [record EXCEPT !.hidden = TRUE],
                  [record EXCEPT !.disabled = "user"], [record EXCEPT !.disabled = "none"]}

\* Mutant: the refresh that was due outlives the unload
ReloadKeepingRefresh ==
    /\ stage = "up" /\ reloads < MaxReloads
    /\ reloads' = reloads + 1
    /\ pack' \in Packs(buses) /\ debug' \in BOOLEAN
    /\ stage' = "off" /\ live' = {} /\ observed' = {} /\ quiet' = FALSE
    /\ UNCHANGED <<buses, due, registry, edits, frames>>
(* The entry is unloaded, and comes back with the pack and the options of then. *)
Reload ==
    /\ stage = "up" /\ reloads < MaxReloads
    /\ reloads' = reloads + 1
    /\ pack' \in Packs(buses) /\ debug' \in BOOLEAN
    /\ stage' = "off" /\ live' = {} /\ observed' = {} /\ due' = {} /\ quiet' = FALSE
    /\ UNCHANGED <<buses, registry, edits, frames>>

RegistryNext ==
    \/ Clean \/ SetUpPlatforms \/ SetUp \/ PoliciesAgain \/ Refresh \/ Reload
    \/ \E new \in SUBSET AllSlots(buses) : Frame(new)
    \/ \E uid \in DOMAIN registry : \E change \in Edits(registry[uid]) : Edit(uid, change)
RegistrySpec == RegistryInit /\ [][RegistryNext]_registryVars

---------------------------------------------------------------------------
UpToDate == stage = "up" /\ due = {}

(* Whatever the order in which the slots were reported and grouped, the entry
   ends with the entities that a set-up with all of them known would make: no
   slot is lost to a refresh that was skipped, and no generic entity was made
   before its rich one came (platform_setup.py:146, :187). *)
LiveIsWhatAFreshSetupMakes == UpToDate => Ids(live) = Ids(Discovered)

(* No slot is offered by two entities, but for the brightness of a light; and
   one that was reported and that the pack lists is offered by some entity,
   unless it has no control or is deprecated; unless its rich entity still waits
   for another slot; or unless that was built before the slot came, for what it
   offers is fixed then (templates/light.py:45, awning.py:43). *)
Waits(s) == \E t \in Templates : s \in t.claims /\ t.fits \subseteq pack /\ Meets(t, pack) /\ ~Built(t, pack, observed)
BuiltWithout(s) == \E e \in live, t \in Templates : e.of = t.id /\ s \in t.options
SlotsHaveOneEntity ==
    /\ \A e, f \in live : e # f =>
           \A s \in e.slots \cap f.slots :
               IsBrightness(s) /\ "light" \in {e.platform, f.platform}
    /\ UpToDate => \A s \in observed \cap pack :
           \/ \E e \in live : s \in e.slots
           \/ PlatformOf(s) = "none" \/ HiddenByDefault(s) \/ Waits(s) \/ BuiltWithout(s)
           \/ \E key \in DOMAIN Capabilities : s \in Candidates(key) /\ key \in Ids(live)

(* From the first step of a set-up on, the registry holds nothing that a rich
   entity replaces nor a legacy entity, all on the vehicle's device: what an
   older version or an older pack left does not come back beside the new ones. *)
SupersededAreGone ==
    stage # "off" => /\ DOMAIN registry \cap (Superseded(pack, observed) \cup LegacyIds) = {}
                     /\ \A uid \in DOMAIN registry : registry[uid].device = "root"

(* No step of the integration takes back a name the user gave or switches on,
   or takes over, an entity the user switched off (__init__.py:782). *)
UserChoicesSurvive ==
    [][edits' = edits =>
         \A uid \in DOMAIN registry \cap DOMAIN registry' :
            /\ registry[uid].name = "user" => registry'[uid].name = "user"
            /\ registry[uid].disabled = "user" => registry'[uid].disabled = "user"]_registryVars

(* The later passes change nothing when nothing has happened since the first:
   one that kept flipping an entry would reload it each time. *)
PassesAreIdempotent == [][stage = "up" /\ quiet /\ quiet' /\ due' = due => registry' = registry]_registryVars
=============================================================================
