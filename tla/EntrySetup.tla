----------------------------- MODULE EntrySetup -----------------------------
(***************************************************************************)
(* Set-up, unload and reload of the config entries (__init__.py 1063-1166) *)
(* over the metadata pack they are built from, with the three flows that   *)
(* provision it: the first sign-in, the repair and the options form        *)
(* (config_flow.py 382-416 and 738-782, repairs.py).                       *)
(*                                                                         *)
(* Home Assistant's part, which is external: it sets entries up, retries   *)
(* after ConfigEntryNotReady, serialises the set-ups and unloads of one    *)
(* entry, and does not unload an entry whose set-up failed.                *)
(*                                                                         *)
(* stage[e]: the await of async_setup_entry or async_unload_entry that     *)
(* entry e is at, or the state Home Assistant shows for it.                *)
(*   "off" "retry" "error" "loaded" "stuck"   at rest (stuck: the unload   *)
(*                                            of the platforms failed)     *)
(*   "warming"     the five executor jobs that fill the caches             *)
(*   "auth"        _async_prepare_authenticated_api                        *)
(*   "refresh"     async_config_entry_first_refresh                        *)
(*   "forward"     async_forward_entry_setups: platforms create entities   *)
(*   "stopping"    async_prepare_for_shutdown                              *)
(*   "unloading"   async_unload_platforms                                  *)
(***************************************************************************)
EXTENDS MetadataPack, FiniteSets

CONSTANTS
    Entries,         \* the config entries
    MaxLate,         \* bound: failures of a step after the first refresh
    BaseReloads      \* OptionsFlowWithReload exists: it reloads its own entry

ASSUME SetupAssumption == MaxLate \in Nat /\ BaseReloads \in BOOLEAN

(* What a provisioning request is: the flow, and for the options form the
   entry whose form it is. *)
Kinds == {<<"user">>, <<"repair">>} \cup ({"options"} \X Entries)
ASSUME RequestsAssumption == Requests \subseteq Kinds

VARIABLES
    stage,     \* entry -> where its set-up or unload is
    read,      \* entry -> files its set-up has warmed so far
    built,     \* entry -> the generations its entities were made from
    session,   \* entry -> its coordinator in hass.data: none, live or dead
    orphans,   \* entry -> live coordinators that hass.data no longer holds
    reload,    \* entries whose async_reload waits for its turn
    issue,     \* the repair issue about missing metadata is shown
    late       \* bound counter

setupVars == <<stage, read, built, session, orphans, reload, issue, late>>
vars == <<disk, backup, published, next, request, written, restored, cache, damaged, unannounced, faults,
          stage, read, built, session, orphans, reload, issue, late>>

NoBuild == [f \in Files |-> Uncached]
SetupInit ==
    /\ stage = [e \in Entries |-> "off"] /\ read = [e \in Entries |-> 0]
    /\ built = [e \in Entries |-> NoBuild] /\ session = [e \in Entries |-> "none"]
    /\ orphans = [e \in Entries |-> 0] /\ reload = {} /\ issue = FALSE /\ late = 0
Init == PackInit /\ SetupInit

Move(e, to) == stage' = [stage EXCEPT ![e] = to]
UnchangedPack == UNCHANGED <<disk, backup, published, next, request, written, restored, damaged, unannounced, faults>>
UnchangedCoordinators == UNCHANGED <<session, orphans>>

---------------------------------------------------------------------------
(* Set-up.                                                                 *)

(* async_setup_entry up to its first await.  Missing files raise the repair
   issue; otherwise the issue goes and every cache is emptied. *)
Begin(e) ==
    /\ \/ stage[e] \in {"off", "retry"}
       \/ stage[e] = "error" /\ e \in reload
    /\ IF Present THEN Move(e, "warming") /\ ForgetAll /\ issue' = FALSE
       ELSE Move(e, "retry") /\ issue' = TRUE /\ UNCHANGED cache
    /\ read' = [read EXCEPT ![e] = 0]
    /\ reload' = reload \ {e}
    /\ UnchangedPack /\ UnchangedCoordinators /\ UNCHANGED <<built, late>>

(* The next executor job fills its cache.  Only the OAuth client insists on
   its file; the others take a missing one for an empty catalog. *)
Warm(e) ==
    LET f == read[e] + 1
    IN  /\ stage[e] = "warming"
        /\ IF f = OAuth /\ cache[f] = Uncached /\ disk[f] = 0
           THEN Move(e, "retry") /\ UNCHANGED <<cache, read>>
           ELSE /\ Read(f)
                /\ read' = [read EXCEPT ![e] = f]
                /\ IF f = NFiles THEN Move(e, "auth") ELSE UNCHANGED stage
        /\ UnchangedPack /\ UnchangedCoordinators /\ UNCHANGED <<built, reload, issue, late>>

(* The sign-in, or the first refresh, fails: not ready or not authorised.
   The refresh raises before it starts a session, so nothing lives. *)
NotReady(e) ==
    \E to \in {"retry", "error"} :
        /\ stage[e] \in {"auth", "refresh"}
        /\ stage[e] = "refresh" => to = "retry"
        /\ Move(e, to)
        /\ UnchangedPack /\ UnchangedCoordinators /\ UNCHANGED <<cache, read, built, reload, issue, late>>

Authenticated(e) ==
    /\ stage[e] = "auth" /\ Move(e, "refresh")
    /\ UnchangedPack /\ UnchangedCoordinators /\ UNCHANGED <<cache, read, built, reload, issue, late>>

(* The first refresh has started the session; the coordinator is published
   in hass.data, over whatever a failed set-up had left there. *)
Refreshed(e) ==
    /\ stage[e] = "refresh" /\ Move(e, "forward")
    /\ session' = [session EXCEPT ![e] = "live"]
    /\ orphans' = [orphans EXCEPT ![e] = @ + (IF session[e] = "live" THEN 1 ELSE 0)]
    /\ UnchangedPack /\ UNCHANGED <<cache, read, built, reload, issue, late>>

(* The platforms have made the entities out of the caches, which the set-up
   of another entry may have emptied since: what is missing is read again. *)
Forwarded(e) ==
    /\ stage[e] = "forward" /\ Move(e, "loaded")
    /\ cache' = [f \in Files |-> IF cache[f] = Uncached THEN disk[f] ELSE cache[f]]
    /\ built' = [built EXCEPT ![e] = cache']
    /\ UnchangedPack /\ UnchangedCoordinators /\ UNCHANGED <<read, reload, issue, late>>

(* A registry pass or a platform raises: Home Assistant shows an error and
   nothing stops the coordinator. *)
LateFailure(e) ==
    /\ stage[e] = "forward" /\ late < MaxLate
    /\ Move(e, "error") /\ late' = late + 1
    /\ UnchangedPack /\ UnchangedCoordinators /\ UNCHANGED <<cache, read, built, reload, issue>>

(* A loaded entry's code looks a slot up. *)
LookUp(e) ==
    \E f \in Files :
        /\ stage[e] = "loaded" /\ cache[f] = Uncached /\ (f = OAuth => disk[f] # 0)
        /\ Read(f)
        /\ UnchangedPack /\ UNCHANGED setupVars

---------------------------------------------------------------------------
(* Unload, reload, stop.                                                   *)

(* async_unload_entry: the coordinator is shut down for good first. *)
Unload(e) ==
    /\ stage[e] = "loaded" /\ Move(e, "stopping")
    /\ UnchangedPack /\ UnchangedCoordinators /\ UNCHANGED <<cache, read, built, reload, issue, late>>

\* Mutant: the coordinator is not shut down before the platforms are unloaded
UnloadWithoutShutdown(e) ==
    /\ stage[e] = "stopping" /\ Move(e, "unloading")
    /\ UnchangedPack /\ UnchangedCoordinators /\ UNCHANGED <<cache, read, built, reload, issue, late>>

ShutDown(e) ==
    /\ stage[e] = "stopping" /\ Move(e, "unloading")
    /\ session' = [session EXCEPT ![e] = "dead"]
    /\ UnchangedPack /\ UNCHANGED <<cache, read, built, orphans, reload, issue, late>>

Unloaded(e) ==
    /\ stage[e] = "unloading"
    /\ \/ Move(e, "off") /\ session' = [session EXCEPT ![e] = "none"]
          /\ built' = [built EXCEPT ![e] = NoBuild] /\ UNCHANGED <<reload, late>>
       \/ late < MaxLate /\ late' = late + 1 /\ Move(e, "stuck")
          /\ reload' = reload \ {e} /\ UNCHANGED <<session, built>>
    /\ UnchangedPack /\ UNCHANGED <<cache, read, orphans, issue>>

(* async_reload, asked for by the user or a flow, waits for the entry to be at
   rest.  A loaded entry is unloaded first; one that is stuck is refused. *)
AskReload(e) ==
    /\ stage[e] \in {"loaded", "error", "stuck"} /\ e \notin reload
    /\ reload' = reload \cup {e}
    /\ UNCHANGED packVars /\ UNCHANGED <<stage, read, built, session, orphans, issue, late>>
ReloadUnloads(e) == e \in reload /\ Unload(e)
ReloadRefused(e) ==
    /\ stage[e] = "stuck" /\ e \in reload /\ reload' = reload \ {e}
    /\ UNCHANGED packVars /\ UNCHANGED <<stage, read, built, session, orphans, issue, late>>

---------------------------------------------------------------------------
(* The flows that provision.                                               *)

(* The first sign-in starts with it when files are missing; the repair is
   offered with the issue; the options form always has it. *)
Ask(r) ==
    /\ r = <<"user">> => ~Present
    /\ r = <<"repair">> => issue
    /\ AskFor(r) /\ UNCHANGED setupVars

Provision(r) ==
    /\ TakeLock(r) \/ BuildFails(r) \/ Staged(r) \/ ReplaceFile(r)
       \/ ReplaceFails(r) \/ RollBackFile(r) \/ RolledBack(r)
    /\ UNCHANGED setupVars

\* Mutant: the options form reloads nobody
FormReloadsNobody(own) == {}

FormReloads(own) == IF BaseReloads THEN Entries \ {own} ELSE Entries
BaseClassReloads(own) == IF BaseReloads THEN {own} ELSE {}

(* The pack is published: the first sign-in empties the caches, the repair
   reloads every entry, the options form and its base class do between them. *)
Provisioned(r) ==
    /\ Published(r, IF r = <<"user">> THEN Files ELSE {OAuth}, r # <<"user">>)
    /\ reload' = reload \cup
          (CASE r = <<"user">> -> {}
             [] r = <<"repair">> -> Entries
             [] r \notin {<<"user">>, <<"repair">>} -> FormReloads(r[2]) \cup BaseClassReloads(r[2]))
    /\ UNCHANGED <<stage, read, built, session, orphans, issue, late>>

(* Home Assistant is killed and starts again. *)
Crash ==
    /\ PackCrash
    /\ stage' = [e \in Entries |-> "off"] /\ read' = [e \in Entries |-> 0]
    /\ built' = [e \in Entries |-> NoBuild] /\ session' = [e \in Entries |-> "none"]
    /\ orphans' = [e \in Entries |-> 0] /\ reload' = {}
    /\ UNCHANGED <<issue, late>>

SetupStep(e) ==
    Begin(e) \/ Warm(e) \/ NotReady(e) \/ Authenticated(e) \/ Refreshed(e) \/ Forwarded(e) \/ LateFailure(e)
UnloadStep(e) == ShutDown(e) \/ Unloaded(e) \/ ReloadUnloads(e) \/ ReloadRefused(e)

Next ==
    \/ \E e \in Entries : SetupStep(e) \/ LookUp(e) \/ Unload(e) \/ UnloadStep(e) \/ AskReload(e)
    \/ \E r \in Requests : Ask(r) \/ Provision(r) \/ Provisioned(r)
    \/ Crash

Spec == Init /\ [][Next]_vars
(* Executor jobs and awaited calls end, and Home Assistant carries a reload
   out.  Nobody has to submit a form, ask for a reload or unload, and nothing
   more is needed of a set-up than that it may go on. *)
FairSpec ==
    /\ Spec
    /\ \A e \in Entries : WF_vars(UnloadStep(e))
    /\ \A r \in Requests : WF_vars(Provision(r) \/ Provisioned(r))

---------------------------------------------------------------------------
Stages == {"off", "retry", "error", "loaded", "stuck", "warming", "auth", "refresh", "forward", "stopping", "unloading"}
TypeOK ==
    /\ PackTypeOK
    /\ stage \in [Entries -> Stages] /\ read \in [Entries -> 0 .. NFiles]
    /\ built \in [Entries -> [Files -> Generations \cup {Uncached}]]
    /\ session \in [Entries -> {"none", "live", "dead"}]
    /\ orphans \in [Entries -> 0 .. MaxLate] /\ reload \subseteq Entries
    /\ issue \in BOOLEAN /\ late \in 0 .. MaxLate

(* A coordinator runs for an entry while that entry is being set up or is
   loaded, one at a time, unless a step after the first refresh failed
   (__init__.py 1125, 1162): each such failure costs at most one. *)
CoordinatorsHaveAnEntry ==
    \A e \in Entries :
        /\ stage[e] \in {"forward", "loaded", "stopping"} => session[e] = "live"
        /\ stage[e] \in {"off", "unloading"} => session[e] # "live"
        /\ late = 0 => orphans[e] = 0 /\ (session[e] = "live" => stage[e] \in {"forward", "loaded", "stopping"})
        /\ orphans[e] + (IF stage[e] = "error" /\ session[e] = "live" THEN 1 ELSE 0) <= late

(* An entry does not stay with entities made from files that are gone. *)
NewPacksReachEntries ==
    \A e \in Entries :
        (stage[e] = "loaded" /\ built[e] # disk)
            ~> (stage[e] # "loaded" \/ built[e] = disk \/ damaged \/ unannounced)
=============================================================================
