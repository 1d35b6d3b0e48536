------------------------- MODULE ConfigEntriesProofs -------------------------
(***************************************************************************)
(* UniqueIdsDiffer, TokenIsForTheStoredVehicle and MintedTokensAreKept of  *)
(* ConfigEntries, for any vehicles, accounts, entries and flows, and for   *)
(* whatever the vendor's records carry.                                    *)
(*                                                                         *)
(* An identifier that is not account-scoped never changes.  An entry that  *)
(* knows its vehicle's URN and is still account-scoped is one whose URN    *)
(* another entry has: so a flow that gets as far as pairing, which needs   *)
(* the URN, is already over the entry with that identifier, and nothing    *)
(* can take it away while the vehicle mints the token.                     *)
(***************************************************************************)
EXTENDS ConfigEntries, FiniteSetTheorems, TLAPS

Urn(urn) == <<"urn", urn, NoId>>
Kind(unique) == unique[1]
EntryShape(x) == [unique |-> x.unique, account |-> x.account, vehicle |-> x.vehicle, token |-> x.token]
FlowShape(x) == [pc |-> x.pc, kind |-> x.kind, entry |-> x.entry, account |-> x.account, input |-> x.input,
                 qr |-> x.qr, stored |-> x.stored, found |-> x.found, unique |-> x.unique]

Shapes ==
    /\ DOMAIN entries = EntryIds /\ DOMAIN flows = Flows
    /\ \A e \in EntryIds : entries[e] = EntryShape(entries[e])
    /\ \A f \in Flows : flows[f] = FlowShape(flows[f])

EntryInv ==
    \A e \in EntryIds :
        /\ Exists(e) <=> Kind(entries[e].unique) # "none"
        /\ Kind(entries[e].unique) \in {"none", "account", "urn", "vin", "scu", "id"}
        /\ Kind(entries[e].unique) = "account" =>
              /\ entries[e].unique = LegacyUniqueId(entries[e].account)
              /\ entries[e].vehicle.vehicle_urn # NoId => Configured(Urn(entries[e].vehicle.vehicle_urn))
        /\ entries[e].token \in Vehicles =>
              entries[e].unique = Urn(entries[e].token) /\ entries[e].vehicle.vehicle_urn = entries[e].token

(* What a flow knows of its entry, and what it has reserved.               *)
FlowInv(f) ==
    /\ flows[f].pc = "idle" => flows[f].unique = NoUniqueId
    /\ flows[f].pc # "idle" => flows[f].entry \in EntryIds
    /\ flows[f].pc # "idle" /\ flows[f].kind # "user" => Exists(flows[f].entry)
    /\ flows[f].pc \in {"lookup", "pairing", "validating"} => flows[f].kind = "reconfigure"
    /\ /\ flows[f].pc = "lookup" /\ flows[f].stored.vehicle_urn # NoId
       /\ Kind(entries[flows[f].entry].unique) = "account"
       => Configured(Urn(flows[f].stored.vehicle_urn))
    /\ flows[f].pc = "validating" => Record(f).vehicle_urn # NoId
    /\ flows[f].pc = "pairing" =>
          /\ Record(f).vehicle_urn # NoId /\ flows[f].qr = Record(f).vehicle_urn
          /\ flows[f].unique = Urn(flows[f].qr) /\ entries[flows[f].entry].unique = flows[f].unique
Reservations ==
    \A f, g \in Flows :
        f # g /\ flows[f].pc # "idle" /\ flows[g].pc # "idle" /\ flows[f].unique = flows[g].unique
            => flows[f].unique = NoUniqueId
IInv == Shapes /\ EntryInv /\ UniqueIdsDiffer /\ Reservations /\ \A f \in Flows : FlowInv(f)

(* Identifiers of a vehicle stay, and none becomes account-scoped.         *)
Settled ==
    \A e \in EntryIds :
        /\ Exists(e) => Exists(e)'
        /\ Kind(entries[e].unique) \notin {"none", "account"} => entries'[e].unique = entries[e].unique
        /\ Kind(entries'[e].unique) = "account" => Kind(entries[e].unique) = "account"

\* A step that keeps the scopes and identifiers of the entries keeps what counts as configured.
LEMMA ConfiguredStays ==
    ASSUME Shapes, EntryInv, Settled, NEW urn, Configured(Urn(urn)) PROVE Configured(Urn(urn))'
<1>1. PICK e \in EntryIds : Exists(e) /\ entries[e].unique = Urn(urn)
  BY DEF Configured
<1>2. Kind(entries[e].unique) = "urn"
  BY <1>1 DEF Kind, Urn
<1>3. Exists(e)' /\ entries'[e].unique = Urn(urn)
  BY <1>1, <1>2 DEF Settled
<1> QED  BY <1>3 DEF Configured, Urn

(* One entry is written.                                                   *)
LEMMA EntryWritten ==
    ASSUME Shapes, EntryInv, UniqueIdsDiffer, NEW e \in EntryIds, NEW u, NEW a, NEW v, NEW t,
           entries' = [entries EXCEPT ![e] = [unique |-> u, account |-> a, vehicle |-> v, token |-> t]],
           Kind(u) \in {"account", "urn", "vin", "scu", "id"},
           \/ u = entries[e].unique
           \/ ~Configured(u) /\ Kind(entries[e].unique) \in {"none", "account"},
           Kind(u) = "account" =>
               /\ Kind(entries[e].unique) = "account" /\ u = LegacyUniqueId(a)
               /\ v.vehicle_urn # NoId => Configured(Urn(v.vehicle_urn)),
           t \in Vehicles => u = Urn(t) /\ v.vehicle_urn = t
    PROVE  /\ Settled /\ EntryInv' /\ UniqueIdsDiffer'
           /\ DOMAIN entries' = EntryIds /\ \A d \in EntryIds : entries'[d] = EntryShape(entries'[d])
<1> DEFINE new == [unique |-> u, account |-> a, vehicle |-> v, token |-> t]
<1>1. DOMAIN entries' = EntryIds /\ entries'[e] = new /\ \A d \in EntryIds \ {e} : entries'[d] = entries[d]
  BY DEF Shapes
<1>2. new.unique = u /\ new.account = a /\ new.vehicle = v /\ new.token = t /\ new = EntryShape(new)
  BY DEF EntryShape
<1>3. new # Absent
  BY <1>2 DEF Absent, NoUniqueId, Kind
<1> HIDE DEF new
<1>4. \A d \in EntryIds : entries'[d] = EntryShape(entries'[d])
  BY <1>1, <1>2 DEF Shapes
<1>5. Exists(e)' /\ \A d \in EntryIds \ {e} : Exists(d)' <=> Exists(d)
  BY <1>1, <1>3 DEF Exists, Absent, NoUniqueId, NoVehicle
<1>6. Settled
  <2>1. ASSUME NEW d \in EntryIds
        PROVE  /\ Exists(d) => Exists(d)'
               /\ Kind(entries[d].unique) \notin {"none", "account"} => entries'[d].unique = entries[d].unique
               /\ Kind(entries'[d].unique) = "account" => Kind(entries[d].unique) = "account"
    <3>1. CASE d = e
      BY <1>1, <1>2, <1>5, <3>1
    <3>2. CASE d # e
      BY <1>1, <1>5, <3>2
    <3> QED  BY <3>1, <3>2
  <2> QED  BY <2>1 DEF Settled
<1>7. EntryInv'
  <2>1. ASSUME NEW d \in EntryIds
        PROVE  /\ Exists(d)' <=> Kind(entries'[d].unique) # "none"
               /\ Kind(entries'[d].unique) \in {"none", "account", "urn", "vin", "scu", "id"}
               /\ Kind(entries'[d].unique) = "account" =>
                     /\ entries'[d].unique = LegacyUniqueId(entries'[d].account)
                     /\ entries'[d].vehicle.vehicle_urn # NoId => Configured(Urn(entries[d].vehicle.vehicle_urn))'
               /\ entries'[d].token \in Vehicles =>
                     entries'[d].unique = Urn(entries'[d].token)
                     /\ entries'[d].vehicle.vehicle_urn = entries'[d].token
    <3>1. CASE d = e
      <4>1. entries'[d] = new
        BY <1>1, <3>1
      <4>2. Kind(u) = "account" /\ v.vehicle_urn # NoId => Configured(Urn(entries[d].vehicle.vehicle_urn))'
        <5>1. ASSUME Kind(u) = "account", v.vehicle_urn # NoId PROVE Configured(Urn(v.vehicle_urn))'
          BY <1>6, <5>1, ConfiguredStays
        <5> QED  BY <5>1, <4>1, <1>2 DEF Configured, Urn
      <4> QED  BY <1>2, <1>5, <3>1, <4>1, <4>2
    <3>2. CASE d # e
      <4>1. entries'[d] = entries[d] /\ (Exists(d)' <=> Exists(d))
        BY <1>1, <1>5, <3>2
      <4>2. Configured(Urn(entries[d].vehicle.vehicle_urn)) => Configured(Urn(entries[d].vehicle.vehicle_urn))'
        <5>1. ASSUME Configured(Urn(entries[d].vehicle.vehicle_urn)), NEW urn, urn = entries[d].vehicle.vehicle_urn
              PROVE  Configured(Urn(urn))'
          BY <1>6, <5>1, ConfiguredStays
        <5> QED  BY <5>1, <4>1 DEF Configured, Urn
      <4> QED  BY <4>1, <4>2 DEF EntryInv
    <3> QED  BY <3>1, <3>2
  <2> QED  BY <2>1 DEF EntryInv
<1>8. UniqueIdsDiffer'
  <2>1. ASSUME NEW d \in EntryIds \ {e}, Exists(d) PROVE entries[d].unique # u
    <3>1. CASE u = entries[e].unique
      <4>1. Exists(e)
        BY <3>1 DEF EntryInv
      <4> QED  BY <2>1, <3>1, <4>1 DEF UniqueIdsDiffer
    <3>2. CASE ~Configured(u)
      BY <2>1, <3>2 DEF Configured
    <3> QED  BY <3>1, <3>2
  <2> QED  BY <1>1, <1>2, <1>5, <2>1 DEF UniqueIdsDiffer
<1> QED  BY <1>1, <1>4, <1>6, <1>7, <1>8

\* A step of one flow that writes no entry keeps the invariant if the new flow satisfies it.
LEMMA NothingWritten ==
    ASSUME Shapes, EntryInv, UniqueIdsDiffer, UNCHANGED entries
    PROVE  /\ Settled /\ EntryInv' /\ UniqueIdsDiffer'
           /\ DOMAIN entries' = EntryIds /\ \A d \in EntryIds : entries'[d] = EntryShape(entries'[d])
BY DEF Shapes, EntryInv, UniqueIdsDiffer, Settled, Exists, Configured, EntryShape

(* A flow that does not move keeps what it knows.                          *)
LEMMA FlowStays ==
    ASSUME Shapes, EntryInv, Settled, NEW g \in Flows, FlowInv(g), flows'[g] = flows[g]
    PROVE  FlowInv(g)'
<1>1. Record(g)' = Record(g)
  BY DEF Record
<1>2. flows[g].pc = "lookup" /\ flows[g].stored.vehicle_urn # NoId
      /\ Kind(entries'[flows[g].entry].unique) = "account"
        => Configured(Urn(flows[g].stored.vehicle_urn))'
  <2>1. HAVE flows[g].pc = "lookup" /\ flows[g].stored.vehicle_urn # NoId
             /\ Kind(entries'[flows[g].entry].unique) = "account"
  <2>2. Kind(entries[flows[g].entry].unique) = "account"
    BY <2>1 DEF FlowInv, Settled
  <2>3. Configured(Urn(flows[g].stored.vehicle_urn))
    BY <2>1, <2>2 DEF FlowInv
  <2>4. ASSUME NEW urn, urn = flows[g].stored.vehicle_urn PROVE Configured(Urn(urn))'
    BY <2>3, <2>4, ConfiguredStays
  <2> QED  BY <2>4 DEF Configured, Urn
<1>3. flows[g].pc = "pairing" => entries'[flows[g].entry].unique = flows[g].unique
  <2>1. HAVE flows[g].pc = "pairing"
  <2>2. flows[g].entry \in EntryIds /\ entries[flows[g].entry].unique = Urn(flows[g].qr)
        /\ flows[g].unique = Urn(flows[g].qr)
    BY <2>1 DEF FlowInv
  <2>3. Kind(entries[flows[g].entry].unique) = "urn"
    BY <2>2 DEF Kind, Urn
  <2> QED  BY <2>2, <2>3 DEF Settled
<1>4. flows[g].pc # "idle" /\ flows[g].kind # "user" => Exists(flows[g].entry)'
  <2>1. HAVE flows[g].pc # "idle" /\ flows[g].kind # "user"
  <2>2. flows[g].entry \in EntryIds /\ Exists(flows[g].entry)
    BY <2>1 DEF FlowInv
  <2>3. ASSUME NEW e \in EntryIds, e = flows[g].entry PROVE Exists(e)'
    BY <2>2, <2>3 DEF Settled
  <2> QED  BY <2>2, <2>3 DEF Exists
<1> QED  BY <1>1, <1>2, <1>3, <1>4 DEF FlowInv, Exists, Configured, Urn

(* One flow moves.                                                         *)
LEMMA FlowMoves ==
    ASSUME IInv, NEW f \in Flows, NEW x, x = FlowShape(x), flows' = [flows EXCEPT ![f] = x],
           x.pc # "idle" => x.unique \in {NoUniqueId, flows[f].unique} \/ Reservable(f, x.unique),
           Settled, EntryInv', UniqueIdsDiffer',
           DOMAIN entries' = EntryIds /\ \A d \in EntryIds : entries'[d] = EntryShape(entries'[d]),
           FlowInv(f)'
    PROVE  IInv'
<1>1. DOMAIN flows' = Flows /\ flows'[f] = x /\ \A g \in Flows \ {f} : flows'[g] = flows[g]
  BY DEF IInv, Shapes
<1>2. Shapes'
  BY <1>1 DEF IInv, Shapes
<1>3. ASSUME NEW g \in Flows PROVE FlowInv(g)'
  <2>1. CASE g = f
    BY <2>1
  <2>2. CASE g # f
    BY <1>1, <2>2, FlowStays DEF IInv
  <2> QED  BY <2>1, <2>2
<1>4. ASSUME NEW g \in Flows \ {f}, x.pc # "idle", flows[g].pc # "idle", x.unique = flows[g].unique
      PROVE  x.unique = NoUniqueId
  <2>1. CASE Reservable(f, x.unique)
    BY <1>4, <2>1 DEF Reservable
  <2>2. CASE x.unique = flows[f].unique
    <3>1. CASE flows[f].pc = "idle"
      BY <2>2, <3>1 DEF IInv, FlowInv
    <3>2. CASE flows[f].pc # "idle"
      BY <1>4, <2>2, <3>2 DEF IInv, Reservations
    <3> QED  BY <3>1, <3>2
  <2> QED  BY <1>4, <2>1, <2>2
<1>5. ASSUME NEW g \in Flows, NEW h \in Flows, g # h, flows'[g].pc # "idle", flows'[h].pc # "idle",
             flows'[g].unique = flows'[h].unique
      PROVE  flows'[g].unique = NoUniqueId
  <2>1. CASE g = f
    BY <1>1, <1>4, <1>5, <2>1
  <2>2. CASE h = f
    BY <1>1, <1>4, <1>5, <2>2
  <2>3. CASE g # f /\ h # f
    BY <1>1, <1>5, <2>3 DEF IInv, Reservations
  <2> QED  BY <2>1, <2>2, <2>3
<1>6. Reservations'
  BY <1>5 DEF Reservations
<1> QED  BY <1>2, <1>3, <1>6 DEF IInv

\* A closed flow has the shape of a flow and reserves nothing.
LEMMA IdleShape == Idle = FlowShape(Idle) /\ Idle.pc = "idle" /\ Idle.unique = NoUniqueId
BY DEF Idle, FlowShape

(* A flow that ends, whatever it has written.                              *)
LEMMA FlowLeaves ==
    ASSUME IInv, NEW f \in Flows, Leave(f), Settled, EntryInv', UniqueIdsDiffer',
           DOMAIN entries' = EntryIds /\ \A d \in EntryIds : entries'[d] = EntryShape(entries'[d])
    PROVE  IInv'
<1>1. flows' = [flows EXCEPT ![f] = Idle]
  BY DEF Leave
<1>2. flows'[f] = Idle
  BY <1>1 DEF IInv, Shapes
<1>3. FlowInv(f)'
  <2>1. flows'[f].pc = "idle" /\ flows'[f].unique = NoUniqueId
    BY <1>2, IdleShape
  <2> QED  BY <2>1 DEF FlowInv
<1> QED  BY <1>1, <1>3, IdleShape, FlowMoves

\* A form shown again keeps the invariant: the flow reserves nothing it did not.
LEMMA FormShown ==
    ASSUME IInv, NEW f \in Flows, ShowForm(f), flows[f].pc # "idle", UNCHANGED entries
    PROVE  IInv'
<1>1. /\ Settled /\ EntryInv' /\ UniqueIdsDiffer'
      /\ DOMAIN entries' = EntryIds /\ \A d \in EntryIds : entries'[d] = EntryShape(entries'[d])
  BY NothingWritten DEF IInv
<1>2. CASE Leave(f)
  BY <1>1, <1>2, FlowLeaves
<1>3. CASE ~Leave(f)
  <2>0. PICK x : x = [Idle EXCEPT !.pc = "form", !.kind = flows[f].kind, !.entry = flows[f].entry,
                                  !.unique = flows[f].unique]
    OBVIOUS
  <2>1. flows' = [flows EXCEPT ![f] = x]
    BY <1>3, <2>0 DEF ShowForm
  <2>2. /\ x = FlowShape(x) /\ x.pc = "form" /\ x.kind = flows[f].kind /\ x.entry = flows[f].entry
        /\ x.unique = flows[f].unique
    BY <2>0 DEF Idle, FlowShape
  <2>3. flows'[f] = x
    BY <2>1 DEF IInv, Shapes
  <2>4. FlowInv(f)'
    BY <2>2, <2>3 DEF FlowInv, IInv, Exists
  <2> QED  BY <1>1, <2>1, <2>2, <2>4, FlowMoves
<1> QED  BY <1>2, <1>3

(* The entry is written as the vehicle's, or the flow aborts.              *)
LEMMA Finished ==
    ASSUME IInv, NEW f \in Flows, NEW e \in EntryIds, NEW r, NEW account, NEW token, Finish(f, e, r, account, token),
           IdentityAllowed(f, e, UniqueId(r, entries[e].account)) /\ token \in Vehicles =>
               \/ token = entries[e].token
               \/ token = r.vehicle_urn
    PROVE  IInv'
<1> DEFINE unique == UniqueId(r, entries[e].account)
<1>0. NoId \notin Vehicles
  BY IdentityAssumption
<1>1. CASE ~IdentityAllowed(f, e, unique)
  <2>1. UNCHANGED entries /\ Leave(f)
    BY <1>1 DEF Finish
  <2>2. /\ Settled /\ EntryInv' /\ UniqueIdsDiffer'
        /\ DOMAIN entries' = EntryIds /\ \A d \in EntryIds : entries'[d] = EntryShape(entries'[d])
    BY <2>1, NothingWritten DEF IInv
  <2> QED  BY <2>1, <2>2, FlowLeaves
<1>2. CASE IdentityAllowed(f, e, unique)
  <2> DEFINE v == VehicleData(r, entries[e].vehicle)
  <2>1. /\ entries' = [entries EXCEPT ![e] = [unique |-> unique, account |-> account, vehicle |-> v, token |-> token]]
        /\ Leave(f)
    BY <1>2 DEF Finish
  <2>2. Kind(unique) \in {"urn", "vin", "scu", "id"} /\ (Kind(unique) = "urn" => unique = Urn(r.vehicle_urn)
                                                          /\ r.vehicle_urn # NoId)
    BY DEF UniqueId, Kind, Urn
  <2>3. \/ unique = entries[e].unique
        \/ ~Configured(unique) /\ Kind(entries[e].unique) \in {"none", "account"}
    <3>1. Kind(NoUniqueId) = "none" /\ Kind(LegacyUniqueId(entries[e].account)) = "account"
      BY DEF Kind, NoUniqueId, LegacyUniqueId
    <3> QED  BY <1>2, <3>1 DEF IdentityAllowed
  <2>4. r.vehicle_urn # NoId => v.vehicle_urn = r.vehicle_urn
    BY DEF VehicleData, Fields
  <2>5. token \in Vehicles => unique = Urn(token) /\ v.vehicle_urn = token
    <3>1. CASE token \in Vehicles /\ token = r.vehicle_urn
      BY <1>0, <2>4, <3>1 DEF UniqueId, Urn
    <3>2. CASE token \in Vehicles /\ token = entries[e].token
      <4>1. entries[e].unique = Urn(token) /\ Kind(Urn(token)) = "urn"
        BY <3>2 DEF IInv, EntryInv, Kind, Urn
      <4>2. unique = Urn(token) /\ Kind(unique) = "urn"
        BY <2>3, <4>1
      <4>3. r.vehicle_urn = token /\ r.vehicle_urn # NoId
        BY <2>2, <4>2 DEF Urn
      <4> QED  BY <2>4, <4>2, <4>3
    <3> QED  BY <1>2, <3>1, <3>2
  <2> HIDE DEF unique, v
  <2>6. /\ Settled /\ EntryInv' /\ UniqueIdsDiffer'
        /\ DOMAIN entries' = EntryIds /\ \A d \in EntryIds : entries'[d] = EntryShape(entries'[d])
    BY <2>1, <2>2, <2>3, <2>5, EntryWritten DEF IInv
  <2> QED  BY <2>1, <2>6, FlowLeaves
<1> QED  BY <1>1, <1>2

\* The sign-in form keeps the invariant.
LEMMA SubmitStep == ASSUME IInv, NEW f \in Flows, Submit(f) PROVE IInv'
<1>0. /\ Settled /\ EntryInv' /\ UniqueIdsDiffer'
      /\ DOMAIN entries' = EntryIds /\ \A d \in EntryIds : entries'[d] = EntryShape(entries'[d])
  BY NothingWritten DEF IInv, Submit
<1>1. PICK kind \in {"user", "reauth", "reconfigure"}, e \in EntryIds, a \in Accounts, i \in Inputs :
        /\ flows[f].pc = "idle" \/ (flows[f].pc = "form" /\ flows[f].kind = kind /\ flows[f].entry = e)
        /\ kind # "user" => Exists(e)
        /\ kind = "user" => e = Idle.entry
        /\ kind = "reauth" => \A g \in Flows \ {f} :
              flows[g].pc # "idle" => flows[g].kind # "reauth" \/ flows[g].entry # e
        /\ kind = "reconfigure" => a = entries[e].account
        /\ kind # "reconfigure" => i = "blank"
        /\ flows' = [flows EXCEPT ![f] = [Idle EXCEPT !.pc = "discovering", !.kind = kind, !.entry = e,
                        !.account = a, !.input = i, !.stored = IF kind = "user" THEN NoVehicle ELSE entries[e].vehicle,
                        !.unique = flows[f].unique]]
        /\ UNCHANGED <<entries, garage, moves>>
  BY Zenon DEF Submit
<1>2. PICK stored : stored = IF kind = "user" THEN NoVehicle ELSE entries[e].vehicle
  OBVIOUS
<1>3. PICK x : x = [Idle EXCEPT !.pc = "discovering", !.kind = kind, !.entry = e, !.account = a, !.input = i,
                                !.stored = stored, !.unique = flows[f].unique]
  OBVIOUS
<1>4. /\ x = FlowShape(x) /\ x.pc = "discovering" /\ x.kind = kind /\ x.entry = e /\ x.unique = flows[f].unique
  BY <1>3 DEF Idle, FlowShape
<1>5. flows' = [flows EXCEPT ![f] = x]
  BY <1>1, <1>2, <1>3
<1>6. flows'[f] = x
  BY <1>5 DEF IInv, Shapes
<1>7. FlowInv(f)'
  BY <1>1, <1>4, <1>6 DEF FlowInv, Exists
<1> QED  BY <1>0, <1>4, <1>5, <1>7, FlowMoves

\* The list of vehicles keeps the invariant.
LEMMA ChoicesStep == ASSUME IInv, NEW f \in Flows, DiscoveredChoices(f) PROVE IInv'
<1>0. /\ Settled /\ EntryInv' /\ UniqueIdsDiffer'
      /\ DOMAIN entries' = EntryIds /\ \A d \in EntryIds : entries'[d] = EntryShape(entries'[d])
  BY NothingWritten DEF IInv, DiscoveredChoices
<1>1. PICK ehg : /\ flows[f].pc = "discovering" /\ flows[f].kind = "user" /\ UNCHANGED entries
                 /\ IF Found(f, ehg) = {} THEN ShowForm(f)
                    ELSE flows' = [flows EXCEPT ![f] = [@ EXCEPT !.pc = "selecting", !.found = Found(f, ehg)]]
  BY DEF DiscoveredChoices
<1>2. CASE ShowForm(f)
  BY <1>1, <1>2, FormShown
<1>3. CASE ~ShowForm(f)
  <2>1. PICK found : flows' = [flows EXCEPT ![f] = [flows[f] EXCEPT !.pc = "selecting", !.found = found]]
    BY <1>1, <1>3
  <2>2. PICK x : x = [FlowShape(flows[f]) EXCEPT !.pc = "selecting", !.found = found]
    OBVIOUS
  <2>3. /\ x = FlowShape(x) /\ x.pc = "selecting" /\ x.kind = flows[f].kind /\ x.entry = flows[f].entry
        /\ x.unique = flows[f].unique
    BY <2>2 DEF FlowShape
  <2>4. flows' = [flows EXCEPT ![f] = x]
    <3>1. flows[f] = FlowShape(flows[f])
      BY DEF IInv, Shapes
    <3> QED  BY <2>1, <2>2, <3>1
  <2>5. flows'[f] = x
    BY <2>4 DEF IInv, Shapes
  <2>6. FlowInv(f)'
    BY <1>1, <2>3, <2>5 DEF FlowInv, IInv, Exists
  <2> QED  BY <1>0, <2>3, <2>4, <2>6, FlowMoves
<1> QED  BY <1>2, <1>3

\* Choosing a vehicle keeps the invariant.
LEMMA SelectStep == ASSUME IInv, NEW f \in Flows, SelectVehicle(f) PROVE IInv'
<1>1. PICK r : LET unique == UniqueId(r, <<"brand", flows[f].account>>)
               IN  /\ IF Reservable(f, unique) /\ ~Configured(unique)
                      THEN \E e \in EntryIds :
                              /\ ~Exists(e)
                              /\ entries' = [entries EXCEPT ![e] = [unique |-> unique, account |-> flows[f].account,
                                                 vehicle |-> VehicleData(r, NoVehicle), token |-> NoId]]
                      ELSE UNCHANGED entries
                   /\ Leave(f)
  BY DEF SelectVehicle
<1> DEFINE unique == UniqueId(r, <<"brand", flows[f].account>>)
<1>2. CASE UNCHANGED entries
  BY <1>1, <1>2, NothingWritten, FlowLeaves DEF IInv
<1>3. CASE ~UNCHANGED entries
  <2>1. ~Configured(unique) /\ Leave(f)
    BY <1>1, <1>3
  <2>2. Kind(unique) \in {"urn", "vin", "scu", "id"}
    BY DEF UniqueId, Kind
  <2>3. PICK e \in EntryIds :
           /\ ~Exists(e)
           /\ entries' = [entries EXCEPT ![e] = [unique |-> unique, account |-> flows[f].account,
                              vehicle |-> VehicleData(r, NoVehicle), token |-> NoId]]
    BY <1>1, <1>3
  <2> HIDE DEF unique
  <2>4. Kind(entries[e].unique) = "none" /\ NoId \notin Vehicles
    BY <2>3, IdentityAssumption DEF IInv, EntryInv
  <2>5. /\ Settled /\ EntryInv' /\ UniqueIdsDiffer'
        /\ DOMAIN entries' = EntryIds /\ \A d \in EntryIds : entries'[d] = EntryShape(entries'[d])
    BY <2>1, <2>2, <2>3, <2>4, EntryWritten DEF IInv
  <2> QED  BY <2>1, <2>5, FlowLeaves
<1> QED  BY <1>2, <1>3

\* The answer of the token lookup keeps the invariant.
LEMMA LookedUpStep == ASSUME IInv, NEW f \in Flows, TokenLookedUp(f) PROVE IInv'
<1>0. /\ Settled /\ EntryInv' /\ UniqueIdsDiffer'
      /\ DOMAIN entries' = EntryIds /\ \A d \in EntryIds : entries'[d] = EntryShape(entries'[d])
  BY NothingWritten DEF IInv, TokenLookedUp
<1> DEFINE own == flows[f].stored.vehicle_urn
           e == flows[f].entry
           unique == UniqueId(Record(f), entries[e].account)
<1>1. PICK qr \in Vehicles :
         IF own = NoId \/ Record(f).vehicle_urn # own \/ qr # own
         THEN ShowForm(f)
         ELSE IF IdentityAllowed(f, e, unique)
              THEN flows' = [flows EXCEPT ![f] = [@ EXCEPT !.pc = "pairing", !.qr = qr, !.unique = unique]]
              ELSE Leave(f)
  BY DEF TokenLookedUp
<1>2. flows[f].pc = "lookup" /\ UNCHANGED entries
  BY DEF TokenLookedUp
<1>3. e \in EntryIds /\ Exists(e) /\ flows[f].kind = "reconfigure"
  BY <1>2 DEF IInv, FlowInv
<1>4. CASE ShowForm(f)
  BY <1>2, <1>4, FormShown
<1>5. CASE Leave(f)
  BY <1>0, <1>5, FlowLeaves
<1>6. CASE ~ShowForm(f) /\ ~Leave(f)
  <2>1. /\ own # NoId /\ Record(f).vehicle_urn = own /\ qr = own /\ IdentityAllowed(f, e, unique)
        /\ flows' = [flows EXCEPT ![f] = [flows[f] EXCEPT !.pc = "pairing", !.qr = qr, !.unique = unique]]
    BY <1>1, <1>6
  <2>2. unique = Urn(own)
    BY <2>1 DEF UniqueId, Urn
  <2>3. entries[e].unique = unique
    <3>1. CASE ~Configured(unique) /\ entries[e].unique \in {NoUniqueId, LegacyUniqueId(entries[e].account)}
      <4>1. Kind(entries[e].unique) \in {"none", "account"}
        BY <3>1 DEF Kind, NoUniqueId, LegacyUniqueId
      <4>2. Kind(entries[e].unique) # "none"
        BY <1>3 DEF IInv, EntryInv
      <4>3. Configured(Urn(own))
        BY <1>2, <2>1, <4>1, <4>2 DEF IInv, FlowInv
      <4> QED  BY <2>2, <3>1, <4>3
    <3> QED  BY <2>1, <3>1 DEF IdentityAllowed
  <2>4. Reservable(f, unique)
    BY <2>1 DEF IdentityAllowed
  <2> HIDE DEF unique
  <2>5. PICK x : x = [FlowShape(flows[f]) EXCEPT !.pc = "pairing", !.qr = qr, !.unique = unique]
    OBVIOUS
  <2>6. /\ x = FlowShape(x) /\ x.pc = "pairing" /\ x.kind = flows[f].kind /\ x.entry = flows[f].entry
        /\ x.unique = unique /\ x.qr = qr /\ x.found = flows[f].found
    BY <2>5 DEF FlowShape
  <2>7. flows' = [flows EXCEPT ![f] = x]
    <3>1. flows[f] = FlowShape(flows[f])
      BY DEF IInv, Shapes
    <3> QED  BY <2>1, <2>5, <3>1
  <2>8. flows'[f] = x
    BY <2>7 DEF IInv, Shapes
  <2>9. Record(f)' = Record(f)
    BY <2>6, <2>8 DEF Record
  <2>10. FlowInv(f)'
    BY <1>2, <1>3, <2>1, <2>2, <2>3, <2>6, <2>8, <2>9 DEF FlowInv, Exists
  <2> QED  BY <1>0, <2>4, <2>6, <2>7, <2>10, FlowMoves
<1> QED  BY <1>4, <1>5, <1>6

\* A failed call keeps the invariant.
LEMMA FailsStep == ASSUME IInv, NEW f \in Flows, CallFails(f) PROVE IInv'
BY FormShown DEF CallFails

\* Closing a flow keeps the invariant.
LEMMA CloseStep == ASSUME IInv, NEW f \in Flows, Close(f) PROVE IInv'
BY NothingWritten, FlowLeaves DEF Close, IInv

\* The vehicle found again on re-authentication keeps the invariant.
LEMMA ReauthStep == ASSUME IInv, NEW f \in Flows, ReauthResolved(f) PROVE IInv'
<1> DEFINE e == flows[f].entry
<1>1. PICK ehg : /\ flows[f].pc = "discovering" /\ flows[f].kind = "reauth"
                 /\ LET r == Resolve(flows[f].stored, Found(f, ehg))
                    IN  IF r = NoVehicle THEN ShowForm(f) /\ UNCHANGED entries
                        ELSE Finish(f, flows[f].entry, r, flows[f].account, entries[flows[f].entry].token)
  BY DEF ReauthResolved
<1>2. e \in EntryIds
  BY <1>1 DEF IInv, FlowInv
<1>3. CASE ShowForm(f) /\ UNCHANGED entries
  BY <1>1, <1>3, FormShown
<1>4. CASE ~(ShowForm(f) /\ UNCHANGED entries)
  <2>1. PICK r : Finish(f, e, r, flows[f].account, entries[e].token)
    BY <1>1, <1>4
  <2> QED  BY <1>2, <2>1, Finished
<1> QED  BY <1>3, <1>4

\* The answer of a pairing keeps the invariant: it creates the entry, or asks for the PIN again.
LEMMA PairedStep == ASSUME IInv, NEW f \in Flows, Paired(f) PROVE IInv'
<1>1. flows[f].pc = "pairing" /\ Finish(f, flows[f].entry, Record(f), flows[f].account, flows[f].qr)
  BY DEF Paired
<1>2. flows[f].entry \in EntryIds /\ flows[f].qr = Record(f).vehicle_urn
  BY <1>1 DEF IInv, FlowInv
<1> QED  BY <1>1, <1>2, Finished

\* The validated sign-in of a re-authentication keeps the invariant.
LEMMA ValidatedStep == ASSUME IInv, NEW f \in Flows, Validated(f) PROVE IInv'
<1>1. /\ flows[f].pc = "validating"
      /\ Finish(f, flows[f].entry, Record(f), flows[f].account, Record(f).vehicle_urn)
  BY DEF Validated
<1>2. flows[f].entry \in EntryIds
  BY <1>1 DEF IInv, FlowInv
<1> QED  BY <1>1, <1>2, Finished

\* The vehicle found again on reconfiguration keeps the invariant.
LEMMA ReconfigureStep == ASSUME IInv, NEW f \in Flows, ReconfigureResolved(f) PROVE IInv'
<1> DEFINE e == flows[f].entry
           next(pc, r) == [flows EXCEPT ![f] = [@ EXCEPT !.pc = pc, !.found = {r}, !.input = "blank",
                                                   !.stored = entries[flows[f].entry].vehicle]]
<1>1. PICK ehg : /\ flows[f].pc = "discovering" /\ flows[f].kind = "reconfigure"
                 /\ LET r == Resolve(flows[f].stored, Found(f, ehg))
                        refused == r = NoVehicle \/ (flows[f].input = "token" /\ r.vehicle_urn = NoId)
                    IN  \/ refused /\ ShowForm(f) /\ UNCHANGED entries
                        \/ ~refused /\ flows[f].input = "qr" /\ flows' = next("lookup", r) /\ UNCHANGED entries
                        \/ ~refused /\ flows[f].input = "token" /\ flows' = next("validating", r) /\ UNCHANGED entries
                        \/ ~refused /\ flows[f].input = "blank" /\ Finish(f, e, r, flows[f].account, NoId)
  BY DEF ReconfigureResolved
<1>2. e \in EntryIds /\ Exists(e)
  BY <1>1 DEF IInv, FlowInv
<1>3. CASE ShowForm(f) /\ UNCHANGED entries
  BY <1>1, <1>3, FormShown
<1>4. ASSUME NEW r, Finish(f, e, r, flows[f].account, NoId) PROVE IInv'
  BY <1>2, <1>4, IdentityAssumption, Finished
<1>5. ASSUME NEW r, NEW pc \in {"lookup", "validating"}, flows' = next(pc, r), UNCHANGED entries,
             pc = "validating" => r.vehicle_urn # NoId
      PROVE  IInv'
  <2>0. /\ Settled /\ EntryInv' /\ UniqueIdsDiffer'
        /\ DOMAIN entries' = EntryIds /\ \A d \in EntryIds : entries'[d] = EntryShape(entries'[d])
    BY <1>5, NothingWritten DEF IInv
  <2>1. PICK x : x = [FlowShape(flows[f]) EXCEPT !.pc = pc, !.found = {r}, !.input = "blank",
                                                 !.stored = entries[flows[f].entry].vehicle]
    OBVIOUS
  <2>2. /\ x = FlowShape(x) /\ x.pc = pc /\ x.kind = flows[f].kind /\ x.entry = e
        /\ x.unique = flows[f].unique /\ x.found = {r} /\ x.stored = entries[e].vehicle
    BY <2>1 DEF FlowShape
  <2>3. flows' = [flows EXCEPT ![f] = x]
    <3>1. flows[f] = FlowShape(flows[f])
      BY DEF IInv, Shapes
    <3> QED  BY <1>5, <2>1, <3>1
  <2>4. flows'[f] = x
    BY <2>3 DEF IInv, Shapes
  <2>5. Record(f)' = r
    BY <2>2, <2>4 DEF Record
  <2>6. /\ Kind(entries[e].unique) = "account" /\ entries[e].vehicle.vehicle_urn # NoId
        => Configured(Urn(entries[e].vehicle.vehicle_urn))
    BY <1>2 DEF IInv, EntryInv
  <2>7. x.pc = "lookup" /\ x.stored.vehicle_urn # NoId /\ Kind(entries'[e].unique) = "account"
        => Configured(Urn(x.stored.vehicle_urn))'
    BY <1>5, <2>2, <2>6 DEF Configured, Exists, Urn
  <2>8. FlowInv(f)'
    BY <1>1, <1>2, <1>5, <2>2, <2>4, <2>5, <2>7 DEF FlowInv, Exists, Configured, Urn
  <2> QED  BY <2>0, <2>2, <2>3, <2>8, FlowMoves
<1> HIDE DEF next
<1> QED  BY <1>1, <1>3, <1>4, <1>5

\* A poll that stores what the fleet service says of the vehicle keeps the invariant.
LEMMA PollStep == ASSUME IInv, NEW e \in EntryIds, Poll(e) PROVE IInv'
<1> DEFINE old == entries[e]
           id(filled) == IF filled.vehicle_urn # NoId THEN <<"urn", filled.vehicle_urn, NoId>>
                         ELSE IF filled.vin # NoId THEN <<"vin", filled.vin, NoId>>
                         ELSE old.unique
           moves_to(filled) == old.unique = LegacyUniqueId(old.account) /\ ~Configured(id(filled))
<1>1. Exists(e) /\ UNCHANGED flows
  BY DEF Poll
<1>2. PICK filled :
         /\ old.vehicle.vehicle_urn # NoId => filled.vehicle_urn = old.vehicle.vehicle_urn
         /\ entries' = [entries EXCEPT ![e] = [unique |-> IF moves_to(filled) THEN id(filled) ELSE old.unique,
                           account |-> old.account, vehicle |-> filled, token |-> old.token]]
  <2>0. PICK ehg, r :
           LET stored == entries[e].vehicle
               filled == [f \in Fields |->
                         IF stored[f] # NoId THEN stored[f]
                         ELSE IF f = "scu_urn" /\ r[f] = NoId THEN stored.vehicle_urn ELSE r[f]]
               unique == IF filled.vehicle_urn # NoId THEN <<"urn", filled.vehicle_urn, NoId>>
                               ELSE IF filled.vin # NoId THEN <<"vin", filled.vin, NoId>>
                               ELSE entries[e].unique
               migrates == entries[e].unique = LegacyUniqueId(entries[e].account) /\ ~Configured(unique)
           IN  entries' = [entries EXCEPT ![e] =
                        [unique |-> IF migrates THEN unique ELSE @.unique, account |-> @.account,
                         vehicle |-> filled, token |-> @.token]]
    BY Zenon DEF Poll
  <2> DEFINE stored == old.vehicle
  <2>1. LET filled == [f \in Fields |->
                         IF stored[f] # NoId THEN stored[f]
                         ELSE IF f = "scu_urn" /\ r[f] = NoId THEN stored.vehicle_urn ELSE r[f]]
        IN  entries' = [entries EXCEPT ![e] = [unique |-> IF moves_to(filled) THEN id(filled) ELSE old.unique,
                           account |-> old.account, vehicle |-> filled, token |-> old.token]]
    BY <2>0
  <2>2. PICK filled : filled = [f \in Fields |->
                         IF stored[f] # NoId THEN stored[f]
                         ELSE IF f = "scu_urn" /\ r[f] = NoId THEN stored.vehicle_urn ELSE r[f]]
    OBVIOUS
  <2>3. stored.vehicle_urn # NoId => filled.vehicle_urn = stored.vehicle_urn
    BY <2>2 DEF Fields
  <2> HIDE DEF moves_to, id
  <2> QED  BY <2>1, <2>2, <2>3
<1> DEFINE u == IF moves_to(filled) THEN id(filled) ELSE old.unique
<1>3. Kind(old.unique) \in {"account", "urn", "vin", "scu", "id"} /\ Configured(old.unique)
  BY <1>1 DEF IInv, EntryInv, Configured
<1>4. /\ Kind(LegacyUniqueId(old.account)) = "account"
      /\ id(filled) # old.unique => Kind(id(filled)) \in {"urn", "vin"}
      /\ filled.vehicle_urn # NoId => id(filled) = Urn(filled.vehicle_urn)
  BY DEF Kind, LegacyUniqueId, Urn
<1> HIDE DEF id
<1>5. Kind(u) \in {"account", "urn", "vin", "scu", "id"}
  BY <1>3, <1>4
<1>6. \/ u = entries[e].unique
      \/ ~Configured(u) /\ Kind(entries[e].unique) \in {"none", "account"}
  BY <1>4
<1>7. Kind(u) = "account" =>
         /\ Kind(entries[e].unique) = "account" /\ u = LegacyUniqueId(old.account)
         /\ filled.vehicle_urn # NoId => Configured(Urn(filled.vehicle_urn))
  <2>1. HAVE Kind(u) = "account"
  <2>2. u = old.unique
    BY <2>1, <1>4, <1>3
  <2>3. Kind(old.unique) = "account" /\ old.unique = LegacyUniqueId(old.account)
    BY <2>1, <2>2 DEF IInv, EntryInv
  <2>4. Configured(id(filled))
    BY <1>3, <2>2, <2>3
  <2> QED  BY <1>4, <2>2, <2>3, <2>4
<1>8. old.token \in Vehicles => u = Urn(old.token) /\ filled.vehicle_urn = old.token
  <2>1. HAVE old.token \in Vehicles
  <2>2. old.unique = Urn(old.token) /\ old.vehicle.vehicle_urn = old.token
    BY <2>1 DEF IInv, EntryInv
  <2>3. Kind(old.unique) = "urn"
    BY <2>2 DEF Kind, Urn
  <2> QED  BY <1>2, <1>4, <2>1, <2>2, <2>3, IdentityAssumption
<1>9. entries' = [entries EXCEPT ![e] = [unique |-> u, account |-> old.account, vehicle |-> filled, token |-> old.token]]
  BY <1>2
<1> HIDE DEF u, moves_to, old
<1>10. /\ Settled /\ EntryInv' /\ UniqueIdsDiffer'
       /\ DOMAIN entries' = EntryIds /\ \A d \in EntryIds : entries'[d] = EntryShape(entries'[d])
  BY <1>5, <1>6, <1>7, <1>8, <1>9, EntryWritten DEF IInv
<1>11. ASSUME NEW g \in Flows PROVE FlowInv(g)'
  BY <1>1, <1>10, FlowStays DEF IInv
<1>12. Shapes' /\ Reservations'
  BY <1>1, <1>10 DEF IInv, Shapes, Reservations
<1> QED  BY <1>10, <1>11, <1>12 DEF IInv

\* A step that touches neither entries nor flows keeps the invariant.
LEMMA ElsewhereStep == ASSUME IInv, UNCHANGED <<entries, flows>> PROVE IInv'
<1>1. ASSUME NEW g \in Flows PROVE FlowInv(g)'
  BY NothingWritten, FlowStays DEF IInv
<1> QED  BY <1>1, NothingWritten DEF IInv, Shapes, Reservations

\* Every step keeps the invariant: one case per action.
LEMMA InvStep == ASSUME IInv, [Next]_vars PROVE IInv'
<1>1. ASSUME NEW f \in Flows,
             \/ Submit(f) \/ CallFails(f) \/ Close(f) \/ DiscoveredChoices(f) \/ SelectVehicle(f)
             \/ ReauthResolved(f) \/ ReconfigureResolved(f)
             \/ TokenLookedUp(f) \/ Paired(f) \/ Validated(f)
      PROVE  IInv'
  BY <1>1, SubmitStep, FailsStep, CloseStep, ChoicesStep, SelectStep, ReauthStep, ReconfigureStep, LookedUpStep,
     PairedStep, ValidatedStep
<1>2. ASSUME NEW v \in Vehicles, MoveVehicle(v) PROVE IInv'
  BY <1>2, ElsewhereStep DEF MoveVehicle
<1>3. CASE UNCHANGED vars
  BY <1>3, ElsewhereStep DEF vars
<1> QED  BY <1>1, <1>2, <1>3, PollStep DEF Next

\* The entries and flows of the initial states satisfy the invariant.
LEMMA InitInv == Init => IInv
<1> SUFFICES ASSUME Init PROVE IInv
  OBVIOUS
<1>1. DOMAIN entries = EntryIds /\ DOMAIN flows = Flows /\ \A f \in Flows : flows[f] = Idle
  BY DEF Init
<1>2. ASSUME NEW e \in EntryIds
      PROVE  \/ entries[e] = Absent
             \/ \E a \in Accounts : entries[e] = [unique |-> LegacyUniqueId(a), account |-> a, vehicle |-> NoVehicle,
                                                 token |-> NoId]
  BY DEF Init
<1>3. Absent.unique = NoUniqueId /\ Absent = EntryShape(Absent) /\ Absent.token = NoId
  BY DEF Absent, EntryShape
<1>4. Kind(NoUniqueId) = "none" /\ \A a \in Accounts : Kind(LegacyUniqueId(a)) = "account"
  BY DEF Kind, NoUniqueId, LegacyUniqueId
<1>5. NoVehicle.vehicle_urn = NoId /\ NoId \notin Vehicles
  BY IdentityAssumption DEF NoVehicle, Fields
<1>6. ASSUME NEW e \in EntryIds
      PROVE  /\ entries[e] = EntryShape(entries[e])
             /\ Exists(e) <=> Kind(entries[e].unique) # "none"
             /\ Kind(entries[e].unique) \in {"none", "account"}
             /\ Kind(entries[e].unique) = "account" =>
                   /\ entries[e].unique = LegacyUniqueId(entries[e].account)
                   /\ entries[e].vehicle.vehicle_urn = NoId
             /\ entries[e].token \notin Vehicles
  <2>1. CASE entries[e] = Absent
    BY <1>3, <1>4, <1>5, <2>1 DEF Exists
  <2>2. CASE entries[e] # Absent
    <3>1. PICK a \in Accounts : entries[e] = [unique |-> LegacyUniqueId(a), account |-> a, vehicle |-> NoVehicle,
                                              token |-> NoId]
      BY <1>2, <2>2
    <3>2. /\ entries[e].unique = LegacyUniqueId(a) /\ entries[e].account = a /\ entries[e].vehicle = NoVehicle
          /\ entries[e].token = NoId /\ entries[e] = EntryShape(entries[e])
      BY <3>1 DEF EntryShape
    <3> QED  BY <1>4, <1>5, <2>2, <3>2 DEF Exists
  <2> QED  BY <2>1, <2>2
<1>7. EntryInv
  BY <1>6 DEF EntryInv
<1>8. UniqueIdsDiffer
  <2>1. ASSUME NEW d \in EntryIds, NEW e \in EntryIds, Exists(d), Exists(e), entries[d].unique = entries[e].unique
        PROVE  d = e
    <3>1. d \in Legacy /\ e \in Legacy
      BY <2>1 DEF Init
    <3>2. /\ entries[d].unique = LegacyUniqueId(entries[d].account)
          /\ entries[e].unique = LegacyUniqueId(entries[e].account)
      BY <1>6, <2>1
    <3>3. \A a, b : LegacyUniqueId(a) = LegacyUniqueId(b) => a = b
      BY DEF LegacyUniqueId
    <3>4. LegacyUniqueId(entries[d].account) = LegacyUniqueId(entries[e].account)
      BY <2>1, <3>2
    <3>5. entries[d].account = entries[e].account
      BY <3>3, <3>4
    <3> QED  BY <3>1, <3>5 DEF Init
  <2> QED  BY <2>1 DEF UniqueIdsDiffer
<1>9. Shapes
  BY <1>1, <1>6, IdleShape DEF Shapes
<1>10. Reservations /\ \A f \in Flows : FlowInv(f)
  BY <1>1, IdleShape DEF Reservations, FlowInv
<1> QED  BY <1>7, <1>8, <1>9, <1>10 DEF IInv

(* The invariant holds in every reachable state.                           *)
THEOREM IInvAlways == Spec => []IInv
BY InitInv, InvStep, PTL DEF Spec

(* No two entries have one identifier: async_set_unique_id and             *)
(* _abort_if_unique_id_configured run in the step that writes, without an  *)
(* await between the check and the entry.                                  *)
THEOREM EntriesHaveTheirOwnIdentifiers == Spec => []UniqueIdsDiffer
BY IInvAlways, PTL DEF IInv

(* The token an entry holds is the one of the vehicle it stores, whatever  *)
(* other flows and polls write to the entry.                               *)
THEOREM TheTokenIsTheVehicles == Spec => []TokenIsForTheStoredVehicle
<1>1. ASSUME IInv, NEW e \in EntryIds, entries[e].token \in Vehicles
      PROVE  entries[e].token = entries[e].vehicle.vehicle_urn
  BY <1>1 DEF IInv, EntryInv
<1>2. IInv => TokenIsForTheStoredVehicle
  BY <1>1 DEF TokenIsForTheStoredVehicle
<1> QED  BY IInvAlways, <1>2, PTL

(* A step of one flow leaves the others where they are.                    *)
LEMMA OtherFlowsStay ==
    ASSUME IInv, NEW f \in Flows, NEW g \in Flows \ {f}, NEW x,
           Leave(g) \/ ShowForm(g) \/ flows' = [flows EXCEPT ![g] = x]
    PROVE  flows'[f] = flows[f]
<1>1. CASE Leave(g)
  BY <1>1 DEF Leave, IInv, Shapes
<1>2. CASE ShowForm(g)
  BY <1>2 DEF ShowForm, Leave, IInv, Shapes
<1>3. CASE flows' = [flows EXCEPT ![g] = x]
  BY <1>3 DEF IInv, Shapes
<1> QED  BY <1>1, <1>2, <1>3

FlowStep(g) ==
    \/ Submit(g) \/ CallFails(g) \/ Close(g) \/ DiscoveredChoices(g) \/ SelectVehicle(g)
    \/ ReauthResolved(g) \/ ReconfigureResolved(g)
    \/ TokenLookedUp(g) \/ Paired(g) \/ Validated(g)

\* A step of one flow leaves every other flow alone.
LEMMA OneFlowSteps ==
    ASSUME IInv, NEW f \in Flows, NEW g \in Flows \ {f}, FlowStep(g)
    PROVE  flows'[f] = flows[f]
<1>1. CASE Leave(g) \/ ShowForm(g)
  BY <1>1, OtherFlowsStay
<1>2. ASSUME \E x : flows' = [flows EXCEPT ![g] = x] PROVE flows'[f] = flows[f]
  BY <1>2, OtherFlowsStay
<1>3. CASE Submit(g)
  BY <1>2, <1>3 DEF Submit
<1>4. CASE CallFails(g)
  BY <1>1, <1>4 DEF CallFails
<1>5. CASE Close(g)
  BY <1>1, <1>5 DEF Close
<1>6. CASE DiscoveredChoices(g)
  BY <1>1, <1>2, <1>6 DEF DiscoveredChoices
<1>7. CASE SelectVehicle(g)
  BY <1>1, <1>7 DEF SelectVehicle
<1>8. CASE ReauthResolved(g)
  BY <1>1, <1>8 DEF ReauthResolved, Finish
<1>9. CASE ReconfigureResolved(g)
  BY <1>1, <1>2, <1>9 DEF ReconfigureResolved, Finish
<1>10. CASE TokenLookedUp(g)
  BY <1>1, <1>2, <1>10 DEF TokenLookedUp
<1>11. CASE Paired(g) \/ Validated(g)
  BY <1>1, <1>11 DEF Paired, Validated, Finish
<1> QED  BY <1>3, <1>4, <1>5, <1>6, <1>7, <1>8, <1>9, <1>10, <1>11 DEF FlowStep

(* The identifier the flow reserved is its entry's, so the conflict that   *)
(* would abort it after the pairing cannot arise.                          *)
LEMMA PairingKeeps ==
    ASSUME IInv, NEW f \in Flows, FlowStep(f), flows[f].pc = "pairing", flows'[f].pc = "idle"
    PROVE  entries'[flows[f].entry].token = flows[f].qr
<1> DEFINE e == flows[f].entry
           r == Record(f)
           unique == UniqueId(r, entries[e].account)
<1>1. /\ e \in EntryIds /\ r.vehicle_urn # NoId /\ flows[f].qr = r.vehicle_urn
      /\ flows[f].unique = Urn(flows[f].qr) /\ entries[e].unique = flows[f].unique
  BY DEF IInv, FlowInv
<1>2. CASE CallFails(f)
  <2>1. flows[f].unique # NoUniqueId
    BY <1>1 DEF Urn, NoUniqueId
  <2>2. PICK x : x = [Idle EXCEPT !.pc = "form", !.kind = flows[f].kind, !.entry = flows[f].entry,
                                  !.unique = flows[f].unique]
    OBVIOUS
  <2>3. flows'[f] = x
    BY <1>2, <2>1, <2>2 DEF CallFails, ShowForm, IInv, Shapes
  <2>4. x.pc = "form"
    BY <2>2 DEF Idle
  <2> QED  BY <2>3, <2>4
<1>3. CASE Paired(f)
  <2>1. unique = Urn(flows[f].qr)
    BY <1>1 DEF UniqueId, Urn
  <2>2. Reservable(f, unique)
    <3>1. ASSUME NEW g \in Flows \ {f}, flows[g].pc # "idle", flows[g].unique = flows[f].unique PROVE FALSE
      <4>1. flows[f].unique = NoUniqueId
        BY <3>1 DEF IInv, Reservations
      <4> QED  BY <1>1, <4>1 DEF Urn, NoUniqueId
    <3> QED  BY <1>1, <2>1, <3>1 DEF Reservable
  <2>3. IdentityAllowed(f, e, unique)
    BY <1>1, <2>1, <2>2 DEF IdentityAllowed
  <2>4. PICK new : /\ entries' = [entries EXCEPT ![e] = new]
                   /\ new = [unique |-> unique, account |-> flows[f].account,
                              vehicle |-> VehicleData(r, entries[e].vehicle), token |-> flows[f].qr]
    BY <1>3, <2>3 DEF Paired, Finish
  <2>5. entries'[e] = new
    BY <1>1, <2>4 DEF IInv, Shapes
  <2> QED  BY <2>4, <2>5
<1> QED  BY <1>2, <1>3 DEF FlowStep, Submit, Close, DiscoveredChoices, SelectVehicle, ReauthResolved,
            ReconfigureResolved, TokenLookedUp, Validated

(* A token that a vehicle minted is stored: what aborts a reconfiguration  *)
(* happens before the pairing, and nothing the other flows and the polls   *)
(* do while the vehicle mints takes the reserved identifier away.          *)
THEOREM NoMintedTokenIsWasted == Spec => MintedTokensAreKept
<1>1. ASSUME IInv, [Next]_vars, NEW f \in Flows, flows[f].pc = "pairing", flows'[f].pc = "idle"
      PROVE  entries'[flows[f].entry].token = flows[f].qr
  <2>1. CASE \E g \in Flows : FlowStep(g)
    <3>1. PICK g \in Flows : FlowStep(g)
      BY <2>1
    <3>2. CASE g = f
      BY <1>1, <3>1, <3>2, PairingKeeps
    <3>3. CASE g # f
      BY <1>1, <3>1, <3>3, OneFlowSteps
    <3> QED  BY <3>2, <3>3
  <2>2. CASE UNCHANGED flows
    BY <1>1, <2>2
  <2> QED  BY <1>1, <2>1, <2>2 DEF Next, FlowStep, Poll, MoveVehicle, vars
<1>2. IInv /\ [Next]_vars =>
         \A f \in Flows : (flows[f].pc = "pairing" /\ flows'[f].pc = "idle") =>
            entries'[flows[f].entry].token = flows[f].qr
  BY <1>1
<1> QED  BY IInvAlways, <1>2, PTL DEF Spec, MintedTokensAreKept

---------------------------------------------------------------------------
(* Types.  A flow that is beyond its form has an account, and one beyond   *)
(* its discovery a record.                                                 *)
Beyond ==
    \A f \in Flows :
        /\ flows[f].pc \notin {"idle", "form"} => flows[f].account \in Accounts
        /\ flows[f].pc \in {"selecting", "lookup", "pairing", "validating"} => flows[f].found # {}
TInv == TypeOK /\ Beyond

(* Discovered records are records of vehicles.                             *)
LEMMA DiscoverTypes ==
    ASSUME NEW g \in SUBSET Vehicles, NEW b \in BOOLEAN
    PROVE  Discover(g, b) \subseteq VehicleRecords
<1> DEFINE sccs == SccVehicles(g)
           ehg == IF b THEN EhgVehicles(g) ELSE {}
           Ehgs == [urn : IdOrNone, vin : IdOrNone, scu : IdOrNone]
<1>1. \A scc \in sccs : scc.id \in IdOrNone /\ scc.vin \in IdOrNone /\ scc.scu \in IdOrNone
  BY DEF SccVehicles, Given, IdOrNone
<1>2. ehg \subseteq Ehgs
  BY DEF EhgVehicles, Given, IdOrNone
<1>3. NoEhgVehicle \in Ehgs
  BY DEF NoEhgVehicle, IdOrNone
<1> HIDE DEF ehg, Ehgs, sccs
<1>4. ASSUME NEW scc \in sccs PROVE Partner(scc, sccs, ehg) \in Ehgs
  <2>1. MatchEhgVehicle(scc, ehg) \in Ehgs
    <3> DEFINE same == {e \in ehg : e.vin = scc.vin}
    <3>1. CASE same = {}
      <4>1. Cardinality(same) = 0
        BY <3>1, FS_EmptySet
      <4> QED  BY <1>3, <4>1 DEF MatchEhgVehicle
    <3>2. CASE same # {}
      <4>1. (CHOOSE e \in same : TRUE) \in ehg
        BY <3>2
      <4> QED  BY <1>2, <1>3, <4>1 DEF MatchEhgVehicle
    <3> QED  BY <3>1, <3>2
  <2>2. CASE ehg = {}
    <3>1. Cardinality(ehg) = 0
      BY <2>2, FS_EmptySet
    <3> QED  BY <2>1, <3>1 DEF Partner
  <2>3. CASE ehg # {}
    <3>1. (CHOOSE e \in ehg : TRUE) \in ehg
      BY <2>3
    <3> QED  BY <1>2, <2>1, <3>1 DEF Partner
  <2> QED  BY <2>2, <2>3
<1>5. ASSUME NEW scc \in sccs, NEW p \in Ehgs
      PROVE  [vehicle_urn |-> p.urn, vehicle_id |-> scc.id,
              vin |-> IF scc.vin # NoId THEN scc.vin ELSE p.vin,
              scu_urn |-> IF scc.scu # NoId THEN scc.scu ELSE p.scu] \in VehicleRecords
  BY <1>1 DEF VehicleRecords, Fields, Ehgs
<1> QED  BY <1>4, <1>5 DEF Discover, sccs, ehg

(* So is what an entry is resolved to.                                     *)
LEMMA ResolveTypes ==
    ASSUME NEW stored, NEW found \in SUBSET VehicleRecords
    PROVE  Resolve(stored, found) \in VehicleRecords
<1>1. NoVehicle \in VehicleRecords
  BY DEF NoVehicle, VehicleRecords, IdOrNone
<1>2. ASSUME NEW f PROVE Matches(stored, f, found) \subseteq VehicleRecords
  BY DEF Matches
<1>3. ASSUME NEW S \in SUBSET VehicleRecords, S # {} PROVE (CHOOSE r \in S : TRUE) \in VehicleRecords
  BY <1>3
<1>4. Cardinality(found) = 1 => found # {}
  BY FS_EmptySet
<1> QED  BY <1>1, <1>2, <1>3, <1>4 DEF Resolve

(* Identifiers and stored data.                                            *)
LEMMA RecordTypes ==
    ASSUME NEW r \in VehicleRecords
    PROVE  /\ \A scope \in Accounts \cup {NoId} \cup ({"brand"} \X Accounts) : UniqueId(r, scope) \in UniqueIds
           /\ \A stored \in VehicleRecords : VehicleData(r, stored) \in VehicleRecords
<1>1. \A f \in Fields : r[f] \in IdOrNone
  BY DEF VehicleRecords
<1>2. /\ r.vehicle_urn \in IdOrNone /\ r.vehicle_id \in IdOrNone
      /\ r.vin \in IdOrNone /\ r.scu_urn \in IdOrNone
  BY <1>1 DEF Fields
<1>3. \A scope \in Accounts \cup {NoId} \cup ({"brand"} \X Accounts) : UniqueId(r, scope) \in UniqueIds
  BY <1>2 DEF UniqueId, UniqueIds
<1>4. \A stored \in VehicleRecords : VehicleData(r, stored) \in VehicleRecords
  BY <1>1 DEF VehicleData, VehicleRecords
<1> QED  BY <1>3, <1>4

(* What a flow may hold.                                                   *)
FlowData(x) ==
    /\ x \in FlowStates
    /\ x.pc \notin {"idle", "form"} => x.account \in Accounts
    /\ x.pc \in {"selecting", "lookup", "pairing", "validating"} => x.found # {}

\* A closed flow is well typed.
LEMMA IdleTypes == FlowData(Idle)
<1>1. (CHOOSE e \in EntryIds : TRUE) \in EntryIds
  BY EntriesAssumption
<1>2. NoVehicle \in VehicleRecords
  BY DEF NoVehicle, VehicleRecords, IdOrNone
<1> QED  BY <1>1, <1>2 DEF FlowData, Idle, FlowStates, Inputs, IdOrNone

(* One flow is written, with what flows may hold.                          *)
LEMMA FlowTyped ==
    ASSUME TInv, NEW f \in Flows, NEW x, FlowData(x), flows' = [flows EXCEPT ![f] = x],
           entries' \in [EntryIds -> EntryData \cup {Absent}], UNCHANGED <<garage, moves>>
    PROVE  TInv'
<1>1. \A g \in Flows : FlowData(flows[g])
  BY DEF TInv, TypeOK, Beyond, FlowData
<1>2. \A g \in Flows : flows'[g] = IF g = f THEN x ELSE flows[g]
  BY DEF TInv, TypeOK
<1>3. \A g \in Flows : FlowData(flows'[g])
  BY <1>1, <1>2
<1>4. flows' \in [Flows -> FlowStates]
  <2>1. x \in FlowStates
    BY DEF FlowData
  <2> QED  BY <2>1 DEF TInv, TypeOK
<1> QED  BY <1>3, <1>4 DEF TInv, TypeOK, Beyond, FlowData

(* A flow that ends, or shows a form, with the entries typed.              *)
LEMMA LeaveTyped ==
    ASSUME TInv, NEW f \in Flows, Leave(f) \/ ShowForm(f),
           entries' \in [EntryIds -> EntryData \cup {Absent}], UNCHANGED <<garage, moves>>
    PROVE  TInv'
<1>1. CASE Leave(f)
  BY <1>1, IdleTypes, FlowTyped DEF Leave
<1>2. CASE ShowForm(f) /\ flows[f].unique # NoUniqueId
  <2>1. PICK x : x = [Idle EXCEPT !.pc = "form", !.kind = flows[f].kind, !.entry = flows[f].entry,
                                  !.unique = flows[f].unique]
    OBVIOUS
  <2>2. FlowData(x)
    BY <2>1, IdleTypes DEF FlowData, FlowStates, TInv, TypeOK, Idle
  <2> QED  BY <1>2, <2>1, <2>2, FlowTyped DEF ShowForm
<1> QED  BY <1>1, <1>2 DEF ShowForm

(* The end of a flow that writes its entry.                                *)
LEMMA FinishTyped ==
    ASSUME TInv, NEW f \in Flows, NEW e \in EntryIds, NEW r \in VehicleRecords, NEW a \in Accounts,
           NEW t \in Tokens, Finish(f, e, r, a, t), UNCHANGED <<garage, moves>>
    PROVE  TInv'
<1>1. entries[e].account \in Accounts \cup {NoId} /\ entries[e].vehicle \in VehicleRecords
  <2>1. NoVehicle \in VehicleRecords
    BY DEF NoVehicle, VehicleRecords, IdOrNone
  <2> QED  BY <2>1 DEF TInv, TypeOK, EntryData, Absent
<1>2. UniqueId(r, entries[e].account) \in UniqueIds /\ VehicleData(r, entries[e].vehicle) \in VehicleRecords
  BY <1>1, RecordTypes
<1>3. entries' \in [EntryIds -> EntryData \cup {Absent}]
  BY <1>2 DEF Finish, TInv, TypeOK, EntryData
<1> QED  BY <1>3, LeaveTyped DEF Finish

(* The records a discovery of a flow beyond its form finds.                *)
LEMMA FoundTypes ==
    ASSUME TInv, NEW f \in Flows, flows[f].pc \notin {"idle", "form"}, NEW ehg \in EhgOutcomes
    PROVE  Found(f, ehg) \subseteq VehicleRecords
<1>1. flows[f].account \in Accounts /\ ehg \in BOOLEAN
  BY EntriesAssumption DEF TInv, Beyond, EhgOutcomes
<1>2. garage[flows[f].account] \in SUBSET Vehicles
  BY <1>1 DEF TInv, TypeOK
<1> QED  BY <1>1, <1>2, DiscoverTypes DEF Found

(* The record a flow took from its discovery.                              *)
LEMMA RecordTyped ==
    ASSUME TInv, NEW f \in Flows, flows[f].pc \in {"selecting", "lookup", "pairing", "validating"}
    PROVE  Record(f) \in VehicleRecords
<1>1. flows[f].found # {} /\ flows[f].found \subseteq VehicleRecords
  BY DEF TInv, TypeOK, Beyond, FlowStates
<1> QED  BY <1>1 DEF Record

(* What a flow and the entry it is about hold.                             *)
LEMMA FlowFacts ==
    ASSUME TInv, NEW f \in Flows
    PROVE  /\ FlowData(flows[f]) /\ flows[f].entry \in EntryIds
           /\ entries[flows[f].entry].vehicle \in VehicleRecords
           /\ entries[flows[f].entry].account \in Accounts \cup {NoId}
           /\ entries[flows[f].entry].token \in Tokens
<1>1. NoVehicle \in VehicleRecords
  BY DEF NoVehicle, VehicleRecords, IdOrNone
<1>2. FlowData(flows[f])
  BY DEF TInv, TypeOK, Beyond, FlowData
<1>3. flows[f].entry \in EntryIds
  BY <1>2 DEF FlowData, FlowStates
<1> QED  BY <1>1, <1>2, <1>3 DEF TInv, TypeOK, EntryData, Absent, Tokens, IdOrNone

\* The sign-in form keeps the types.
LEMMA SubmitTyped == ASSUME TInv, NEW f \in Flows, Submit(f) PROVE TInv'
<1>1. PICK kind \in {"user", "reauth", "reconfigure"}, e \in EntryIds, a \in Accounts, i \in Inputs :
        /\ flows[f].pc = "idle" \/ (flows[f].pc = "form" /\ flows[f].kind = kind /\ flows[f].entry = e)
        /\ kind # "user" => Exists(e)
        /\ kind = "user" => e = Idle.entry
        /\ kind = "reauth" => \A g \in Flows \ {f} :
              flows[g].pc # "idle" => flows[g].kind # "reauth" \/ flows[g].entry # e
        /\ kind = "reconfigure" => a = entries[e].account
        /\ kind # "reconfigure" => i = "blank"
        /\ flows' = [flows EXCEPT ![f] = [Idle EXCEPT !.pc = "discovering", !.kind = kind, !.entry = e,
                        !.account = a, !.input = i, !.stored = IF kind = "user" THEN NoVehicle ELSE entries[e].vehicle,
                        !.unique = flows[f].unique]]
        /\ UNCHANGED <<entries, garage, moves>>
  BY Zenon DEF Submit
<1>2. PICK x : x = [Idle EXCEPT !.pc = "discovering", !.kind = kind, !.entry = e,
                        !.account = a, !.input = i, !.stored = IF kind = "user" THEN NoVehicle ELSE entries[e].vehicle,
                        !.unique = flows[f].unique]
  OBVIOUS
<1>3. NoVehicle \in VehicleRecords /\ entries[e].vehicle \in VehicleRecords
  <2>1. NoVehicle \in VehicleRecords
    BY DEF NoVehicle, VehicleRecords, IdOrNone
  <2> QED  BY <2>1 DEF TInv, TypeOK, EntryData, Absent
<1>4. FlowData(x)
  BY <1>2, <1>3, IdleTypes, FlowFacts DEF FlowData, FlowStates, Idle
<1> QED  BY <1>1, <1>2, <1>4, FlowTyped DEF TInv, TypeOK

\* The list of vehicles keeps the types.
LEMMA ChoicesTyped == ASSUME TInv, NEW f \in Flows, DiscoveredChoices(f) PROVE TInv'
<1>1. PICK ehg \in EhgOutcomes :
        /\ flows[f].pc = "discovering"
        /\ IF Found(f, ehg) = {} THEN ShowForm(f)
           ELSE flows' = [flows EXCEPT ![f] = [@ EXCEPT !.pc = "selecting", !.found = Found(f, ehg)]]
        /\ UNCHANGED <<entries, garage, moves>>
  BY DEF DiscoveredChoices
<1>2. CASE Found(f, ehg) = {}
  BY <1>1, <1>2, LeaveTyped DEF TInv, TypeOK
<1>3. CASE Found(f, ehg) # {}
  <2>1. PICK x : x = [flows[f] EXCEPT !.pc = "selecting", !.found = Found(f, ehg)]
    OBVIOUS
  <2>2. FlowData(x)
    BY <1>1, <1>3, <2>1, FoundTypes, FlowFacts DEF FlowData, FlowStates
  <2>3. flows' = [flows EXCEPT ![f] = x]
    BY <1>1, <1>3, <2>1
  <2> QED  BY <1>1, <2>2, <2>3, FlowTyped DEF TInv, TypeOK
<1> QED  BY <1>2, <1>3

\* Choosing a vehicle keeps the types.
LEMMA SelectTyped == ASSUME TInv, NEW f \in Flows, SelectVehicle(f) PROVE TInv'
<1>1. PICK r \in flows[f].found :
        LET unique == UniqueId(r, <<"brand", flows[f].account>>)
        IN  /\ flows[f].pc = "selecting"
            /\ IF Reservable(f, unique) /\ ~Configured(unique)
               THEN \E e \in EntryIds :
                        /\ ~Exists(e)
                        /\ entries' = [entries EXCEPT ![e] = [unique |-> unique, account |-> flows[f].account,
                              vehicle |-> VehicleData(r, NoVehicle), token |-> NoId]]
               ELSE UNCHANGED entries
            /\ Leave(f)
            /\ UNCHANGED <<garage, moves>>
  BY Zenon DEF SelectVehicle
<1>2. r \in VehicleRecords /\ flows[f].account \in Accounts /\ NoVehicle \in VehicleRecords
  BY <1>1, FlowFacts DEF FlowData, FlowStates, NoVehicle, VehicleRecords, IdOrNone
<1>3. UniqueId(r, <<"brand", flows[f].account>>) \in UniqueIds /\ VehicleData(r, NoVehicle) \in VehicleRecords
  BY <1>2, RecordTypes
<1>4. entries' \in [EntryIds -> EntryData \cup {Absent}]
  BY <1>1, <1>2, <1>3 DEF TInv, TypeOK, EntryData, Tokens, IdOrNone
<1> QED  BY <1>1, <1>4, LeaveTyped

\* Re-authentication keeps the types.
LEMMA ReauthTyped == ASSUME TInv, NEW f \in Flows, ReauthResolved(f) PROVE TInv'
<1>1. PICK ehg \in EhgOutcomes :
        /\ flows[f].pc = "discovering"
        /\ LET r == Resolve(flows[f].stored, Found(f, ehg))
           IN  IF r = NoVehicle THEN ShowForm(f) /\ UNCHANGED entries
               ELSE Finish(f, flows[f].entry, r, flows[f].account, entries[flows[f].entry].token)
        /\ UNCHANGED <<garage, moves>>
  BY Zenon DEF ReauthResolved
<1>2. Resolve(flows[f].stored, Found(f, ehg)) \in VehicleRecords
  BY <1>1, FoundTypes, ResolveTypes
<1>3. flows[f].account \in Accounts
  BY <1>1, FlowFacts DEF FlowData
<1>4. CASE ShowForm(f) /\ UNCHANGED entries
  BY <1>1, <1>4, LeaveTyped DEF TInv, TypeOK
<1>5. CASE Finish(f, flows[f].entry, Resolve(flows[f].stored, Found(f, ehg)), flows[f].account,
                  entries[flows[f].entry].token)
  BY <1>1, <1>2, <1>3, <1>5, FlowFacts, FinishTyped
<1> QED  BY <1>1, <1>4, <1>5

\* Reconfiguration keeps the types.
LEMMA ReconfigureTyped == ASSUME TInv, NEW f \in Flows, ReconfigureResolved(f) PROVE TInv'
<1>1. PICK ehg \in EhgOutcomes :
        /\ flows[f].pc = "discovering" /\ flows[f].kind = "reconfigure"
        /\ LET r == Resolve(flows[f].stored, Found(f, ehg))
               refused == r = NoVehicle \/ (flows[f].input = "token" /\ r.vehicle_urn = NoId)
               await(pc) == /\ flows' = [flows EXCEPT ![f] = [@ EXCEPT !.pc = pc, !.found = {r}, !.input = "blank",
                                           !.stored = entries[flows[f].entry].vehicle]]
                            /\ UNCHANGED entries
           IN  \/ refused /\ ShowForm(f) /\ UNCHANGED entries
               \/ ~refused /\ flows[f].input = "qr" /\ await("lookup")
               \/ ~refused /\ flows[f].input = "token" /\ await("validating")
               \/ ~refused /\ flows[f].input = "blank" /\ Finish(f, flows[f].entry, r, flows[f].account, NoId)
        /\ UNCHANGED <<garage, moves>>
  BY Zenon DEF ReconfigureResolved
<1> DEFINE r == Resolve(flows[f].stored, Found(f, ehg))
<1>2. r \in VehicleRecords
  BY <1>1, FoundTypes, ResolveTypes
<1>3. flows[f].account \in Accounts
  BY <1>1, FlowFacts DEF FlowData
<1> HIDE DEF r
<1>4. CASE ShowForm(f) /\ UNCHANGED entries
  BY <1>1, <1>4, LeaveTyped DEF TInv, TypeOK
<1>5. ASSUME NEW pc \in {"lookup", "validating"}, UNCHANGED entries,
             flows' = [flows EXCEPT ![f] = [@ EXCEPT !.pc = pc, !.found = {r}, !.input = "blank",
                                              !.stored = entries[flows[f].entry].vehicle]]
      PROVE  TInv'
  <2>1. PICK x : x = [flows[f] EXCEPT !.pc = pc, !.found = {r}, !.input = "blank",
                                      !.stored = entries[flows[f].entry].vehicle]
    OBVIOUS
  <2>2. FlowData(x)
    BY <1>2, <1>3, <2>1, FlowFacts DEF FlowData, FlowStates, Inputs
  <2>3. flows' = [flows EXCEPT ![f] = x]
    BY <1>5, <2>1
  <2> QED  BY <1>1, <1>5, <2>2, <2>3, FlowTyped DEF TInv, TypeOK
<1>6. CASE Finish(f, flows[f].entry, r, flows[f].account, NoId)
  BY <1>1, <1>2, <1>3, <1>6, FlowFacts, FinishTyped DEF Tokens, IdOrNone
<1> QED  BY <1>1, <1>4, <1>5, <1>6 DEF r

\* The token lookup keeps the types.
LEMMA LookupTyped == ASSUME TInv, NEW f \in Flows, TokenLookedUp(f) PROVE TInv'
<1> DEFINE u == UniqueId(Record(f), entries[flows[f].entry].account)
<1>1. /\ flows[f].pc = "lookup" /\ UNCHANGED <<entries, garage, moves>>
      /\ \E qr \in Vehicles :
            \/ ShowForm(f) \/ Leave(f)
            \/ flows' = [flows EXCEPT ![f] = [@ EXCEPT !.pc = "pairing", !.qr = qr, !.unique = u]]
  BY DEF TokenLookedUp
<1>2. u \in UniqueIds
  BY <1>1, FlowFacts, RecordTyped, RecordTypes
<1> HIDE DEF u
<1>3. CASE ShowForm(f) \/ Leave(f)
  BY <1>1, <1>3, LeaveTyped DEF TInv, TypeOK
<1>4. ASSUME NEW qr \in Vehicles,
             flows' = [flows EXCEPT ![f] = [@ EXCEPT !.pc = "pairing", !.qr = qr, !.unique = u]]
      PROVE  TInv'
  <2>1. PICK x : x = [flows[f] EXCEPT !.pc = "pairing", !.qr = qr, !.unique = u]
    OBVIOUS
  <2>2. FlowData(x)
    BY <1>1, <1>2, <2>1, FlowFacts DEF FlowData, FlowStates, IdOrNone
  <2>3. flows' = [flows EXCEPT ![f] = x]
    BY <1>4, <2>1
  <2> QED  BY <1>1, <2>2, <2>3, FlowTyped DEF TInv, TypeOK
<1> QED  BY <1>1, <1>3, <1>4

\* A poll keeps the types.
LEMMA PollTyped == ASSUME TInv, NEW e \in EntryIds, Poll(e) PROVE TInv'
<1>1. PICK ehg \in EhgOutcomes :
        /\ Exists(e)
        /\ LET stored == entries[e].vehicle
               found == Discover(garage[entries[e].account], ehg)
           IN  \E r \in IF Resolve(stored, found) # NoVehicle THEN {Resolve(stored, found)} ELSE found :
                 LET filled == [f \in Fields |->
                         IF stored[f] # NoId THEN stored[f]
                         ELSE IF f = "scu_urn" /\ r[f] = NoId THEN stored.vehicle_urn ELSE r[f]]
                     unique == IF filled.vehicle_urn # NoId THEN <<"urn", filled.vehicle_urn, NoId>>
                               ELSE IF filled.vin # NoId THEN <<"vin", filled.vin, NoId>>
                               ELSE entries[e].unique
                     migrates == entries[e].unique = LegacyUniqueId(entries[e].account) /\ ~Configured(unique)
                 IN  entries' = [entries EXCEPT ![e] =
                        [unique |-> IF migrates THEN unique ELSE @.unique, account |-> @.account,
                         vehicle |-> filled, token |-> @.token]]
        /\ UNCHANGED <<garage, flows, moves>>
  BY Zenon DEF Poll
<1> DEFINE stored == entries[e].vehicle
           found == Discover(garage[entries[e].account], ehg)
<1>2. /\ entries[e] \in EntryData /\ stored \in VehicleRecords
      /\ entries[e].account \in Accounts /\ entries[e].unique \in UniqueIds
  BY <1>1 DEF TInv, TypeOK, Exists, EntryData
<1>3. found \subseteq VehicleRecords
  <2>1. garage[entries[e].account] \in SUBSET Vehicles /\ ehg \in BOOLEAN
    BY <1>2, EntriesAssumption DEF TInv, TypeOK, EhgOutcomes
  <2> QED  BY <2>1, DiscoverTypes
<1>4. Resolve(stored, found) \in VehicleRecords
  BY <1>3, ResolveTypes
<1>5. ASSUME NEW r \in VehicleRecords
      PROVE  [f \in Fields |-> IF stored[f] # NoId THEN stored[f]
                               ELSE IF f = "scu_urn" /\ r[f] = NoId THEN stored.vehicle_urn ELSE r[f]]
                \in VehicleRecords
  <2>1. \A f \in Fields : stored[f] \in IdOrNone /\ r[f] \in IdOrNone
    BY <1>2 DEF VehicleRecords
  <2>2. stored.vehicle_urn \in IdOrNone
    BY <2>1 DEF Fields
  <2> QED  BY <2>1, <2>2 DEF VehicleRecords
<1>6. \A v \in VehicleRecords : v.vehicle_urn \in IdOrNone /\ v.vin \in IdOrNone
  BY DEF VehicleRecords, Fields
<1>7. PICK filled \in VehicleRecords, unique \in UniqueIds :
        entries' = [entries EXCEPT ![e] = [unique |-> unique, account |-> entries[e].account,
                                             vehicle |-> filled, token |-> entries[e].token]]
  <2> HIDE DEF found
  <2>1. PICK r \in VehicleRecords :
          LET filled == [f \in Fields |->
                         IF stored[f] # NoId THEN stored[f]
                         ELSE IF f = "scu_urn" /\ r[f] = NoId THEN stored.vehicle_urn ELSE r[f]]
              unique == IF filled.vehicle_urn # NoId THEN <<"urn", filled.vehicle_urn, NoId>>
                        ELSE IF filled.vin # NoId THEN <<"vin", filled.vin, NoId>>
                        ELSE entries[e].unique
              migrates == entries[e].unique = LegacyUniqueId(entries[e].account) /\ ~Configured(unique)
          IN  entries' = [entries EXCEPT ![e] =
                        [unique |-> IF migrates THEN unique ELSE @.unique, account |-> @.account,
                         vehicle |-> filled, token |-> @.token]]
    BY <1>1, <1>3, <1>4 DEF found
  <2> DEFINE filled == [f \in Fields |->
                         IF stored[f] # NoId THEN stored[f]
                         ELSE IF f = "scu_urn" /\ r[f] = NoId THEN stored.vehicle_urn ELSE r[f]]
             unique == IF filled.vehicle_urn # NoId THEN <<"urn", filled.vehicle_urn, NoId>>
                       ELSE IF filled.vin # NoId THEN <<"vin", filled.vin, NoId>>
                       ELSE entries[e].unique
  <2>2. filled \in VehicleRecords
    BY <1>5
  <2> HIDE DEF filled
  <2>3. unique \in UniqueIds
    <3>1. filled.vehicle_urn \in IdOrNone /\ filled.vin \in IdOrNone
      BY <1>6, <2>2
    <3> QED  BY <1>2, <3>1 DEF UniqueIds
  <2>4. \/ entries' = [entries EXCEPT ![e] = [unique |-> unique, account |-> entries[e].account,
                                             vehicle |-> filled, token |-> entries[e].token]]
        \/ entries' = [entries EXCEPT ![e] = [unique |-> entries[e].unique, account |-> entries[e].account,
                                             vehicle |-> filled, token |-> entries[e].token]]
    BY <2>1 DEF filled
  <2> QED  BY <1>2, <2>2, <2>3, <2>4
<1>8. entries' \in [EntryIds -> EntryData \cup {Absent}]
  BY <1>2, <1>7 DEF TInv, TypeOK, EntryData
<1> QED  BY <1>1, <1>8 DEF TInv, TypeOK, Beyond

\* Every step keeps the types: one case per action.
LEMMA StepTyped == TInv /\ [Next]_vars => TInv'
<1> SUFFICES ASSUME TInv, [Next]_vars PROVE TInv'
  OBVIOUS
<1>1. ASSUME NEW f \in Flows, CallFails(f) \/ Close(f) PROVE TInv'
  BY <1>1, LeaveTyped DEF CallFails, Close, TInv, TypeOK
<1>2. ASSUME NEW f \in Flows, Paired(f) PROVE TInv'
  <2>1. flows[f].account \in Accounts /\ flows[f].qr \in Tokens
    BY <1>2, FlowFacts DEF Paired, FlowData, FlowStates, Tokens
  <2> QED  BY <1>2, <2>1, FlowFacts, RecordTyped, FinishTyped DEF Paired
<1>3. ASSUME NEW f \in Flows, Validated(f) PROVE TInv'
  <2>1. flows[f].account \in Accounts /\ Record(f) \in VehicleRecords
    BY <1>3, FlowFacts, RecordTyped DEF Validated, FlowData
  <2>2. Record(f).vehicle_urn \in Tokens
    BY <2>1 DEF VehicleRecords, Fields, Tokens
  <2> QED  BY <1>3, <2>1, <2>2, FlowFacts, FinishTyped DEF Validated
<1>4. ASSUME NEW v \in Vehicles, MoveVehicle(v) PROVE TInv'
  BY <1>4, EntriesAssumption DEF MoveVehicle, TInv, TypeOK, Beyond
<1>5. CASE UNCHANGED vars
  BY <1>5 DEF vars, TInv, TypeOK, Beyond
<1> QED  BY <1>1, <1>2, <1>3, <1>4, <1>5, SubmitTyped, ChoicesTyped, SelectTyped, ReauthTyped,
            ReconfigureTyped, LookupTyped, PollTyped DEF Next

(* Entries, flows and identifiers are what the code can make them, for any *)
(* vehicles and whatever the vendors' records carry.                       *)
THEOREM TypeCorrect == Spec => []TypeOK
<1>1. Init => TInv
  <2>1. NoVehicle \in VehicleRecords
    BY DEF NoVehicle, VehicleRecords, IdOrNone
  <2>2. \A a \in Accounts : [unique |-> LegacyUniqueId(a), account |-> a, vehicle |-> NoVehicle, token |-> NoId]
                                \in EntryData
    BY <2>1 DEF EntryData, UniqueIds, LegacyUniqueId, Tokens, IdOrNone
  <2> SUFFICES ASSUME Init PROVE TInv
    OBVIOUS
  <2>3. entries \in [EntryIds -> EntryData \cup {Absent}]
    BY <2>2 DEF Init
  <2>4. Idle \in FlowStates /\ Idle.pc = "idle"
    BY IdleTypes DEF FlowData, Idle
  <2>5. flows \in [Flows -> FlowStates] /\ \A f \in Flows : flows[f].pc = "idle"
    BY <2>4 DEF Init
  <2>6. moves \in 0 .. MaxMoves /\ garage \in [Accounts -> SUBSET Vehicles]
    BY EntriesAssumption DEF Init
  <2> QED  BY <2>3, <2>5, <2>6 DEF TInv, TypeOK, Beyond
<1>2. TInv => TypeOK
  BY DEF TInv
<1> QED  BY <1>1, <1>2, StepTyped, PTL DEF Spec
=============================================================================
