---------------------------- MODULE ConfigEntries ----------------------------
(***************************************************************************)
(* The config flows of config_flow.py over the entries they create and     *)
(* change: sign-in and vehicle selection, re-authentication, and the       *)
(* reconfigure form that validates a remote-access token or mints one by   *)
(* pairing over Bluetooth.                                                 *)
(*                                                                         *)
(* One action is the code of a flow between two awaits.  A flow is at      *)
(*   idle            not there                                             *)
(*   form            showing its form; what it reserved stays reserved     *)
(*   discovering     at await discover_vehicles / resolve_vehicle_selection*)
(*   selecting       showing the vehicles found                            *)
(*   lookup          at await get_vehicle_by_token                         *)
(*   pairing         at await async_pair_over_ble                          *)
(*   validating      at await get_remote_access_token                      *)
(* Which vehicles an account has, and whether a call succeeds, is the      *)
(* environment's choice; accounts change hands MaxMoves times.             *)
(***************************************************************************)
EXTENDS VehicleIdentity

CONSTANTS
    EntryIds,      \* slots for config entries
    Flows,         \* flows that may be open at once
    Accounts,      \* vendor accounts; an account's name is also its username
    Legacy,        \* entries that exist from an account-scoped version
    EhgMayFail,    \* the EHG call of a discovery may fail
    MaxMoves       \* bound: how often a vehicle changes accounts

ASSUME EntriesAssumption ==
    /\ EntryIds # {} /\ Legacy \subseteq EntryIds /\ NoId \notin Accounts
    /\ EhgMayFail \in BOOLEAN /\ MaxMoves \in Nat

VARIABLES
    entries,   \* entry -> its stored data, or Absent
    garage,    \* account -> the vehicles its user has
    flows,     \* flow -> where it is and what it holds
    moves      \* bound counter

vars == <<entries, garage, flows, moves>>

(* A stored remote-access token is named by the vehicle it was paired with or
   validated for; one pasted at set-up, which nothing checks, counts as none. *)
Tokens == IdOrNone

UniqueIds == ({"urn", "vin", "scu", "id"} \X IdOrNone \X (Accounts \cup {NoId} \cup ({"brand"} \X Accounts)))
             \cup ({"account"} \X Accounts \X {NoId})
NoUniqueId == <<"none", NoId, NoId>>
LegacyUniqueId(account) == <<"account", account, NoId>>

Absent == [unique |-> NoUniqueId, account |-> NoId, vehicle |-> NoVehicle, token |-> NoId]
EntryData == [unique : UniqueIds, account : Accounts, vehicle : VehicleRecords, token : Tokens]

Inputs == {"blank", "token", "qr"}    \* what the reconfigure form was given
Idle == [pc |-> "idle", kind |-> "user", entry |-> CHOOSE e \in EntryIds : TRUE, account |-> NoId,
         input |-> "blank", qr |-> NoId, stored |-> NoVehicle, found |-> {}, unique |-> NoUniqueId]

Exists(e) == entries[e] # Absent
Init ==
    /\ garage \in [Accounts -> SUBSET Vehicles]
    /\ \A v \in Vehicles : \E a \in Accounts : v \in garage[a] /\ \A b \in Accounts \ {a} : v \notin garage[b]
    /\ entries \in [EntryIds -> {Absent} \cup
          {[unique |-> LegacyUniqueId(a), account |-> a, vehicle |-> NoVehicle, token |-> NoId] : a \in Accounts}]
    /\ \A e \in EntryIds : Exists(e) <=> e \in Legacy
    /\ \A d, e \in Legacy : d # e => entries[d].account # entries[e].account
    /\ flows = [f \in Flows |-> Idle]
    /\ moves = 0

---------------------------------------------------------------------------
(* Home Assistant's part of a flow (external).                             *)

(* async_set_unique_id: refused while another flow holds the identifier. *)
Reservable(f, unique) == \A g \in Flows \ {f} : flows[g].pc # "idle" => flows[g].unique # unique
(* _abort_if_unique_id_configured *)
Configured(unique) == \E e \in EntryIds : Exists(e) /\ entries[e].unique = unique

Leave(f) == flows' = [flows EXCEPT ![f] = Idle]
(* A form that reserved nothing is as good as closed. *)
ShowForm(f) ==
    IF flows[f].unique = NoUniqueId THEN Leave(f)
    ELSE flows' = [flows EXCEPT ![f] =
            [Idle EXCEPT !.pc = "form", !.kind = flows[f].kind, !.entry = flows[f].entry, !.unique = flows[f].unique]]

---------------------------------------------------------------------------
(* The identity rules.                                                     *)

\* Mutant: a taken identifier is not noticed
IdentityUnchecked(f, e, unique) ==
    Reservable(f, unique) /\ entries[e].unique \in {unique, NoUniqueId, LegacyUniqueId(entries[e].account)}

(* _async_preflight_entry_identity: would this entry be let through as the
   vehicle with this identifier? *)
IdentityAllowed(f, e, unique) ==
    /\ Reservable(f, unique)
    /\ \/ entries[e].unique = unique
       \/ /\ entries[e].unique \in {NoUniqueId, LegacyUniqueId(entries[e].account)}
          /\ ~Configured(unique)

(* _async_prepare_entry_identity, then async_update_reload_and_abort: either
   the flow aborts and the entry is as it was, or it becomes the vehicle's. *)
Finish(f, e, r, account, token) ==
    LET unique == UniqueId(r, entries[e].account)
    IN  /\ IF IdentityAllowed(f, e, unique)
           THEN entries' = [entries EXCEPT ![e] =
                    [unique |-> unique, account |-> account,
                     vehicle |-> VehicleData(r, entries[e].vehicle), token |-> token]]
           ELSE UNCHANGED entries
        /\ Leave(f)

---------------------------------------------------------------------------
(* The steps of the flows.                                                 *)

(* A form is submitted and signs in, which reads nothing of the entries; the
   identifiers the entry stores are read before the discovery.  A
   re-authentication may name any account, one runs per entry; the reconfigure
   form signs in with the entry's own. *)
Submit(f) ==
    \E kind \in {"user", "reauth", "reconfigure"}, e \in EntryIds, a \in Accounts, i \in Inputs :
        /\ flows[f].pc = "idle" \/ (flows[f].pc = "form" /\ flows[f].kind = kind /\ flows[f].entry = e)
        /\ kind # "user" => Exists(e)
        /\ kind = "user" => e = Idle.entry
        /\ kind = "reauth" => \A g \in Flows \ {f} :
              flows[g].pc # "idle" => flows[g].kind # "reauth" \/ flows[g].entry # e
        /\ kind = "reconfigure" => a = entries[e].account
        /\ kind # "reconfigure" => i = "blank"
        /\ flows' = [flows EXCEPT ![f] = [Idle EXCEPT !.pc = "discovering", !.kind = kind, !.entry = e,
                        !.account = a, !.input = i, !.stored = IF kind = "user" THEN NoVehicle ELSE entries[e].vehicle,
                        !.unique = flows[f].unique]]
        /\ UNCHANGED <<entries, garage, moves>>

(* Any awaited call fails, or only one of the pairing's two fields was given,
   or the pasted token is another vehicle's: the form is shown again with an error. *)
CallFails(f) ==
    /\ flows[f].pc \in {"discovering", "lookup", "pairing", "validating"}
    /\ ShowForm(f)
    /\ UNCHANGED <<entries, garage, moves>>

(* What the discovery of flow f finds, and which record its entry is. *)
Found(f, ehgAnswers) == Discover(garage[flows[f].account], ehgAnswers)
EhgOutcomes == IF EhgMayFail THEN BOOLEAN ELSE {TRUE}

(* async_step_user: no vehicle is an error, otherwise one is to be chosen. *)
DiscoveredChoices(f) ==
    \E ehg \in EhgOutcomes :
        /\ flows[f].pc = "discovering" /\ flows[f].kind = "user"
        /\ IF Found(f, ehg) = {} THEN ShowForm(f)
           ELSE flows' = [flows EXCEPT ![f] = [@ EXCEPT !.pc = "selecting", !.found = Found(f, ehg)]]
        /\ UNCHANGED <<entries, garage, moves>>

(* async_step_select_vehicle: the identifier is reserved and must be new. *)
SelectVehicle(f) ==
    \E r \in flows[f].found :
        LET unique == UniqueId(r, <<"brand", flows[f].account>>)
        IN  /\ flows[f].pc = "selecting"
            /\ IF Reservable(f, unique) /\ ~Configured(unique)
               THEN \E e \in EntryIds :
                        /\ ~Exists(e)
                        /\ entries' = [entries EXCEPT ![e] = [unique |-> unique, account |-> flows[f].account,
                              vehicle |-> VehicleData(r, NoVehicle), token |-> NoId]]
               ELSE UNCHANGED entries
            /\ Leave(f)
            /\ UNCHANGED <<garage, moves>>

(* async_step_reauth_confirm: an account without the entry's vehicle is the
   wrong one; otherwise the entry takes the credentials and the record. *)
ReauthResolved(f) ==
    \E ehg \in EhgOutcomes :
        /\ flows[f].pc = "discovering" /\ flows[f].kind = "reauth"
        /\ LET r == Resolve(flows[f].stored, Found(f, ehg))
           IN  IF r = NoVehicle THEN ShowForm(f) /\ UNCHANGED entries
               ELSE Finish(f, flows[f].entry, r, flows[f].account, entries[flows[f].entry].token)
        /\ UNCHANGED <<garage, moves>>

(* async_step_reconfigure after the resolution: which of the form's fields
   were filled decides what comes next.  A blank form removes the token. *)
ReconfigureResolved(f) ==
    \E ehg \in EhgOutcomes :
        /\ flows[f].pc = "discovering" /\ flows[f].kind = "reconfigure"
        /\ LET r == Resolve(flows[f].stored, Found(f, ehg))
               refused == r = NoVehicle \/ (flows[f].input = "token" /\ r.vehicle_urn = NoId)
               await(pc) == /\ flows' = [flows EXCEPT ![f] = [@ EXCEPT !.pc = pc, !.found = {r}, !.input = "blank",
                                           !.stored = entries[flows[f].entry].vehicle]]
                            /\ UNCHANGED entries
           IN  \/ refused /\ ShowForm(f) /\ UNCHANGED entries
               \/ ~refused /\ flows[f].input = "qr" /\ await("lookup")
               \/ ~refused /\ flows[f].input = "token" /\ await("validating")
               \/ ~refused /\ flows[f].input = "blank" /\ Finish(f, flows[f].entry, r, flows[f].account, NoId)
        /\ UNCHANGED <<garage, moves>>

Record(f) == CHOOSE r \in flows[f].found : TRUE

\* Mutant: the QR token's vehicle is not compared
AnyTokenLookedUp(f) ==
    /\ flows[f].pc = "lookup"
    /\ \E qr \in Vehicles : flows' = [flows EXCEPT ![f] = [@ EXCEPT !.pc = "pairing", !.qr = qr,
                                !.unique = UniqueId(Record(f), entries[flows[f].entry].account)]]
    /\ UNCHANGED <<entries, garage, moves>>
\* Mutant: the identity is checked only after the pairing
IdentityCheckedLate(f) ==
    /\ flows[f].pc = "lookup"
    /\ LET own == flows[f].stored.vehicle_urn
       IN  own # NoId /\ Record(f).vehicle_urn = own /\ flows' = [flows EXCEPT ![f] = [@ EXCEPT !.pc = "pairing", !.qr = own]]
    /\ UNCHANGED <<entries, garage, moves>>

(* The cloud knows the QR token's vehicle.  It must be the stored one, and so
   must the resolved one, before anything is paired; the identity is checked
   and reserved before the vehicle can mint. *)
TokenLookedUp(f) ==
    /\ flows[f].pc = "lookup"
    /\ LET own == flows[f].stored.vehicle_urn
           unique == UniqueId(Record(f), entries[flows[f].entry].account)
       IN  \E qr \in Vehicles :
              IF own = NoId \/ Record(f).vehicle_urn # own \/ qr # own
              THEN ShowForm(f)
              ELSE IF IdentityAllowed(f, flows[f].entry, unique)
                   THEN flows' = [flows EXCEPT ![f] = [@ EXCEPT !.pc = "pairing", !.qr = qr, !.unique = unique]]
                   ELSE Leave(f)
    /\ UNCHANGED <<entries, garage, moves>>

(* The vehicle accepted the pairing and issued a token of its own. *)
Paired(f) ==
    /\ flows[f].pc = "pairing"
    /\ Finish(f, flows[f].entry, Record(f), flows[f].account, flows[f].qr)
    /\ UNCHANGED <<garage, moves>>

(* The cloud exchanges a pasted token only for the vehicle it belongs to. *)
Validated(f) ==
    /\ flows[f].pc = "validating"
    /\ Finish(f, flows[f].entry, Record(f), flows[f].account, Record(f).vehicle_urn)
    /\ UNCHANGED <<garage, moves>>

(* The user closes a form, or the selection. *)
Close(f) ==
    /\ flows[f].pc \in {"form", "selecting"}
    /\ Leave(f)
    /\ UNCHANGED <<entries, garage, moves>>

(* A poll of the entry's coordinator fills in what the entry does not know of
   its vehicle, or of the first one when its own is not found, and migrates an
   account-scoped identifier.  (A missing SCU identifier becomes the vehicle's
   URN at the poll after the one that stored it.) *)
Poll(e) ==
    \E ehg \in EhgOutcomes :
        /\ Exists(e)
        /\ LET stored == entries[e].vehicle
               found == Discover(garage[entries[e].account], ehg)
           IN  \E r \in IF Resolve(stored, found) # NoVehicle THEN {Resolve(stored, found)} ELSE found :
                 LET filled == [f \in Fields |->
                         IF stored[f] # NoId THEN stored[f]
                         ELSE IF f = "scu_urn" /\ r[f] = NoId THEN stored.vehicle_urn ELSE r[f]]
                     unique == IF filled.vehicle_urn # NoId THEN <<"urn", filled.vehicle_urn, NoId>>
                               ELSE IF filled.vin # NoId THEN <<"vin", filled.vin, NoId>>
                               ELSE entries[e].unique
                     migrates == entries[e].unique = LegacyUniqueId(entries[e].account) /\ ~Configured(unique)
                 IN  entries' = [entries EXCEPT ![e] =
                        [unique |-> IF migrates THEN unique ELSE @.unique, account |-> @.account,
                         vehicle |-> filled, token |-> @.token]]
        /\ UNCHANGED <<garage, flows, moves>>

(* A vehicle is sold: it leaves one account and may join another. *)
MoveVehicle(v) ==
    \E a \in Accounts, b \in Accounts :
        /\ moves < MaxMoves /\ v \in garage[a] /\ a # b
        /\ garage' = [garage EXCEPT ![a] = @ \ {v}, ![b] = @ \cup {v}]
        /\ moves' = moves + 1
        /\ UNCHANGED <<entries, flows>>

Next ==
    \/ \E f \in Flows :
          \/ Submit(f) \/ CallFails(f) \/ Close(f)
          \/ DiscoveredChoices(f) \/ SelectVehicle(f)
          \/ ReauthResolved(f) \/ ReconfigureResolved(f)
          \/ TokenLookedUp(f) \/ Paired(f) \/ Validated(f)
    \/ \E e \in EntryIds : Poll(e)
    \/ \E v \in Vehicles : MoveVehicle(v)

Spec == Init /\ [][Next]_vars

---------------------------------------------------------------------------
FlowStates == [pc : {"idle", "form", "discovering", "selecting", "lookup", "pairing", "validating"},
               kind : {"user", "reauth", "reconfigure"}, entry : EntryIds, account : Accounts \cup {NoId},
               input : Inputs, qr : IdOrNone, stored : VehicleRecords, found : SUBSET VehicleRecords,
               unique : UniqueIds \cup {NoUniqueId}]

(* The entries, flows and tokens are what the code can make them. *)
TypeOK ==
    /\ entries \in [EntryIds -> EntryData \cup {Absent}]
    /\ garage \in [Accounts -> SUBSET Vehicles]
    /\ flows \in [Flows -> FlowStates]
    /\ moves \in 0 .. MaxMoves

(* No two entries have one identifier, although every flow checks, awaits and
   writes while the others do (config_flow.py 246-295, 431-433). *)
UniqueIdsDiffer ==
    \A d, e \in EntryIds : Exists(d) /\ Exists(e) /\ entries[d].unique = entries[e].unique => d = e

OneVehicle(stored) == \A f, g \in Fields : stored[f] # NoId /\ stored[g] # NoId => stored[f] = stored[g]

(* An entry's identifiers are all of one vehicle: falling back on another
   vehicle is for "older entries that were account-scoped and had no vehicle
   selection stored" (api.py 611-612), whose identifiers it cannot mix. *)
EntryIsOneVehicle == \A e \in EntryIds : OneVehicle(entries[e].vehicle)

(* A remote-access token that was paired for or validated is the stored
   vehicle's: "a token for a different SCU must never mint a token into this
   entry" (config_flow.py 549-561), also after other flows changed it. *)
TokenIsForTheStoredVehicle ==
    \A e \in EntryIds :
        entries[e].token \in Vehicles => entries[e].token = entries[e].vehicle.vehicle_urn

(* A token that a vehicle mints ends up in an entry: the flow is never
   aborted by an identity conflict after the pairing, "wasting it and a
   pairing slot" (config_flow.py 615-627), whatever the other flows did while
   it paired. *)
MintedTokensAreKept ==
    [][\A f \in Flows : (flows[f].pc = "pairing" /\ flows'[f].pc = "idle") =>
          entries'[flows[f].entry].token = flows[f].qr]_vars
=============================================================================
