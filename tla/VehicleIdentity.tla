--------------------------- MODULE VehicleIdentity ---------------------------
(***************************************************************************)
(* How the integration tells which vehicle an account's records are about: *)
(* the merge of the two vendor APIs (api.py 373-494), the way back from a  *)
(* config entry to a vehicle (api.py 496-533) and the identifier a config  *)
(* entry gets (config_flow.py 199-233).                                    *)
(*                                                                         *)
(* Every identifier of vehicle v is written v: a record's VIN equals       *)
(* another's exactly when they are of one vehicle.  NoId is a field that   *)
(* is absent or empty.                                                     *)
(***************************************************************************)
EXTENDS Integers, FiniteSets

CONSTANTS
    Vehicles,   \* the vehicles that exist
    NoId,       \* an absent field
    SccVin,     \* the vehicles whose SCC record carries a VIN
    EhgVin,     \* the vehicles whose EHG record carries one
    EhgListed,  \* the vehicles the EHG API knows
    HasScu      \* the vehicles whose records name the Smart Interface Unit

ASSUME IdentityAssumption ==
    /\ NoId \notin Vehicles
    /\ SccVin \subseteq Vehicles /\ EhgVin \subseteq Vehicles
    /\ EhgListed \subseteq Vehicles /\ HasScu \subseteq Vehicles

IdOrNone == Vehicles \cup {NoId}
Given(v, S) == IF v \in S THEN v ELSE NoId

SccVehicles(garage) ==
    {[id |-> v, vin |-> Given(v, SccVin), scu |-> Given(v, HasScu)] : v \in garage}
EhgVehicles(garage) ==
    {[urn |-> v, vin |-> Given(v, EhgVin), scu |-> Given(v, HasScu)] : v \in garage \cap EhgListed}

NoEhgVehicle == [urn |-> NoId, vin |-> NoId, scu |-> NoId]

(* _match_ehg_vehicle: a VIN counts only when exactly one record has it. *)
MatchEhgVehicle(scc, ehg) ==
    LET same == {e \in ehg : e.vin = scc.vin}
    IN  IF scc.vin # NoId /\ Cardinality(same) = 1
        THEN CHOOSE e \in same : TRUE
        ELSE NoEhgVehicle

(* The EHG half of a discovered record: the match, or the only pair there is. *)
Partner(scc, sccs, ehg) ==
    IF MatchEhgVehicle(scc, ehg) = NoEhgVehicle /\ Cardinality(sccs) = 1 /\ Cardinality(ehg) = 1
    THEN CHOOSE e \in ehg : TRUE
    ELSE MatchEhgVehicle(scc, ehg)

(* discover_vehicles: an EHG call that fails leaves the records without URNs. *)
Discover(garage, ehgAnswers) ==
    LET sccs == SccVehicles(garage)
        ehg == IF ehgAnswers THEN EhgVehicles(garage) ELSE {}
    IN  {[vehicle_urn |-> Partner(scc, sccs, ehg).urn,
          vehicle_id |-> scc.id,
          vin |-> IF scc.vin # NoId THEN scc.vin ELSE Partner(scc, sccs, ehg).vin,
          scu_urn |-> IF scc.scu # NoId THEN scc.scu ELSE Partner(scc, sccs, ehg).scu] : scc \in sccs}

Fields == {"vehicle_urn", "vehicle_id", "vin", "scu_urn"}
VehicleRecords == [Fields -> IdOrNone]
NoVehicle == [f \in Fields |-> NoId]

(* resolve_vehicle_selection: the first stored identifier that some record
   carries decides; failing all, the account's only vehicle is taken. *)
Matches(stored, f, discovered) == {r \in discovered : stored[f] # NoId /\ r[f] = stored[f]}
Resolve(stored, discovered) ==
    LET by(f) == Matches(stored, f, discovered)
    IN  IF by("vehicle_urn") # {} THEN CHOOSE r \in by("vehicle_urn") : TRUE
        ELSE IF by("vehicle_id") # {} THEN CHOOSE r \in by("vehicle_id") : TRUE
        ELSE IF by("vin") # {} THEN CHOOSE r \in by("vin") : TRUE
        ELSE IF by("scu_urn") # {} THEN CHOOSE r \in by("scu_urn") : TRUE
        ELSE IF Cardinality(discovered) = 1 THEN CHOOSE r \in discovered : TRUE
        ELSE NoVehicle

(* _vehicle_unique_id: an identifier names its field and its value, and one
   made of the account's own vehicle number also names its scope. *)
UniqueId(r, scope) ==
    IF r.vehicle_urn # NoId THEN <<"urn", r.vehicle_urn, NoId>>
    ELSE IF r.vin # NoId THEN <<"vin", r.vin, NoId>>
    ELSE IF r.scu_urn # NoId THEN <<"scu", r.scu_urn, NoId>>
    ELSE <<"id", r.vehicle_id, scope>>

(* _vehicle_data: what a record does not carry stays as it was stored. *)
VehicleData(r, stored) == [f \in Fields |-> IF r[f] # NoId THEN r[f] ELSE stored[f]]
=============================================================================
