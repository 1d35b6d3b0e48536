--------------------------- MODULE EntityControls ---------------------------
(***************************************************************************)
(* Control entities between their user, the vehicle and its reports: an    *)
(* entity claims what it was asked for until the slots bear it out, and    *)
(* the generic ones until the claim expires (entity_base.py 560-948,       *)
(* templates/).                                                            *)
(*                                                                         *)
(* A command's service call awaits a connected client; other commands and  *)
(* reports happen meanwhile.  The send and the assignments that follow it  *)
(* are one step: messages leave in the order they are sent, and a report   *)
(* is compared with the claim again at the next update in any case.  The   *)
(* vehicle applies or refuses what it receives; its panel, or another app, *)
(* changes it too.  An update carries any part of its state, and none of   *)
(* it when the update is about another component.  The main switch is a    *)
(* device of its own kind: MainSwitch has its steps.                       *)
(***************************************************************************)
EXTENDS TemplateControls, MainSwitch

CONSTANTS
    Devices,       \* the devices to look at
    Calls,         \* bound: service calls, each made once
    MaxChanges     \* bound: changes at the vehicle

ASSUME ControlsAssumption ==
    /\ Devices \subseteq {"panel", "modern", "aircon", "zone", "roof_fan", "maxxfan", "slot", "main_switch"}
    /\ MaxChanges \in Nat

VARIABLES
    device,    \* which device this is
    vehicle,   \* slot -> value at the vehicle
    slots,     \* slot -> value last reported
    claims,    \* attribute -> what the entity claims, or None
    expired,   \* the time to live of the claims has passed since the last one
    calls,     \* service calls: what was asked and where it is
    wire,      \* the calls sent and not yet received, in order
    intent,    \* history: attribute -> what the vehicle has been told and will do
    changes    \* bound counter

controlVars == <<vehicle, slots, claims, expired, calls, wire, intent, changes>>
vars == <<device, controlVars, switchVars>>

NoCall == [pc |-> "free", attr |-> None, value |-> None, writes |-> <<>>, claim |-> <<>>, stale |-> FALSE]

Init ==
    /\ device \in Devices
    /\ vehicle \in [Slots(device) -> UNION {SlotValues(device)[s] : s \in Slots(device)}]
    /\ \A s \in Slots(device) : vehicle[s] = CHOOSE v \in SlotValues(device)[s] : TRUE
    /\ slots \in {vehicle, [s \in Slots(device) |-> None]}
    /\ claims = NoClaims(device) /\ intent = NoClaims(device)
    /\ expired = FALSE
    /\ calls = [c \in Calls |-> NoCall]
    /\ wire = <<>> /\ changes = 0
    /\ SwitchInit /\ (device # "main_switch" => asked.on = "off")

Shown(a) == IF claims[a] # None THEN claims[a] ELSE ReadBack(device, slots)[a]
Timed == device = "slot"        \* entity_base's controls have _OPTIMISTIC_TTL_S
Deferred == device = "panel"    \* the writes are made after the client is there

Override(f, g) == [x \in DOMAIN f |-> IF x \in DOMAIN g THEN g[x] ELSE f[x]]
Forget(f, names) == [x \in DOMAIN f |-> IF x \in names THEN None ELSE f[x]]
Blank == [s \in Slots(device) |-> None]
(* What the vehicle has been told once these writes are sent: an attribute they
   set is as it is claimed, or, when the claim is another one's, unknown. *)
ToldBy(command, claimed) ==
    LET told == ReadBack(device, Override(Blank, command.writes))
    IN  [a \in Attrs(device) |-> IF a \in DOMAIN command.claim THEN command.claim[a]
                                 ELSE IF told[a] = ReadBack(device, Blank)[a] THEN intent[a]
                                 ELSE IF told[a] = claimed[a] THEN told[a] ELSE None]
(* What the panel entities read of the fuel is not, or will not stay, true. *)
FuelUnsure ==
    /\ device = "panel"
    /\ wire # <<>> \/ slots.fuel # vehicle.fuel \/ slots.mirror # vehicle.mirror

(* The slots agree with a claim although its command is still on its way:
   they did before, and may yet be reported otherwise. *)
BorneOutEarly(a, reported) == wire # <<>> /\ claims[a] # None /\ ReadBack(device, reported)[a] = claims[a]

(* A service call; what is claimed early is claimed now. *)
Ask(c, a, v) ==
    LET command == Command(device, a, v, slots, claims)
    IN  /\ calls[c].pc = "free"
        /\ Accepts(device, a, v)
        /\ calls' = [calls EXCEPT ![c] =
                        [pc |-> "connecting", attr |-> a, value |-> v,
                         writes |-> IF Deferred THEN <<>> ELSE command.writes,
                         claim |-> IF Deferred THEN <<>> ELSE command.claim, stale |-> FALSE]]
        /\ claims' = Override(claims, command.early)
        /\ intent' = Forget(intent, DOMAIN command.early \cup DOMAIN command.claim)
        /\ UNCHANGED <<device, vehicle, slots, expired, wire, changes>>

(* The client is connected: the writes go out and the entity claims the rest. *)
Send(c) ==
    LET command == IF Deferred THEN Command(device, calls[c].attr, calls[c].value, slots, claims) ELSE calls[c]
    IN  /\ calls[c].pc = "connecting"
        /\ calls' = [calls EXCEPT ![c] =
                        [pc |-> "sent", attr |-> calls[c].attr, value |-> calls[c].value,
                         writes |-> command.writes, claim |-> <<>>, stale |-> FuelUnsure]]
        /\ wire' = Append(wire, c)
        /\ claims' = Override(claims, command.claim)
        /\ intent' = ToldBy(command, claims')
        /\ expired' = FALSE
        /\ UNCHANGED <<device, vehicle, slots, changes>>

\* Mutant: a call that was sent is given up too
FailAnyway(c) ==
    /\ calls[c].pc \in {"connecting", "sent"}
    /\ calls' = [calls EXCEPT ![c] = [NoCall EXCEPT !.pc = "done"]]
    /\ UNCHANGED <<device, vehicle, slots, claims, expired, wire, intent, changes>>
(* No connection, or the send fails: the service call raises. *)
Fail(c) ==
    /\ calls[c].pc = "connecting"
    /\ calls' = [calls EXCEPT ![c] = [NoCall EXCEPT !.pc = "done"]]
    /\ UNCHANGED <<device, vehicle, slots, claims, expired, wire, intent, changes>>

(* What the writes do at the vehicle: a MaxxFan that is off has no speed, as
   the entry for it in the template's table tells (external). *)
Taken(writes) ==
    LET written == Override(vehicle, writes)
    IN  IF device = "maxxfan" /\ written.state = "false" THEN [written EXCEPT !.speed = "OFF"] ELSE written

FuelChanged == device = "panel" /\ (vehicle'.fuel # vehicle.fuel \/ vehicle'.mirror # vehicle.mirror)

(* The vehicle takes the next message, or refuses it (external). *)
Receive ==
    /\ wire # <<>>
    /\ LET c == Head(wire)
       IN  /\ \/ /\ vehicle' = Taken(calls[c].writes)
                 /\ intent' = Forget(intent, IF FuelChanged /\ calls[c].attr # "energy" THEN {"energy"} ELSE {})
              \/ intent' = NoClaims(device) /\ UNCHANGED vehicle
           /\ calls' = [calls EXCEPT ![c] = [NoCall EXCEPT !.pc = "done"]]
    /\ wire' = Tail(wire)
    /\ UNCHANGED <<device, slots, claims, expired, changes>>

(* Someone changes a slot at the vehicle (external). *)
ChangeAtVehicle ==
    \E s \in Slots(device) : \E v \in SlotValues(device)[s] :
        /\ changes < MaxChanges /\ v # vehicle[s]
        /\ vehicle' = [vehicle EXCEPT ![s] = v]
        /\ intent' = NoClaims(device) /\ changes' = changes + 1
        /\ calls' = [c \in Calls |-> [calls[c] EXCEPT !.stale = @ \/ calls[c].pc = "sent"]]
        /\ UNCHANGED <<device, slots, claims, expired, wire>>

(* _handle_coordinator_update, after the frame's slots have been stored. *)
Update ==
    \E reported \in {{}, Slots(device)} \cup {{s} : s \in Slots(device)} :
        LET live == IF Timed /\ expired THEN NoClaims(device) ELSE claims
        IN  /\ slots' = [s \in Slots(device) |-> IF s \in reported THEN vehicle[s] ELSE slots[s]]
            /\ claims' = Settled(device, slots', live)
            /\ intent' = Forget(intent, {a \in Attrs(device) : BorneOutEarly(a, slots')})
            /\ UNCHANGED <<device, vehicle, expired, calls, wire, changes>>

(* The time to live passes; reading the entity's state drops its claim. *)
Expire ==
    /\ Timed /\ ~expired /\ claims # NoClaims(device)
    /\ expired' = TRUE /\ claims' = NoClaims(device)
    /\ UNCHANGED <<device, vehicle, slots, calls, wire, intent, changes>>

ControlNext ==
    \/ \E c \in Calls : (\E a \in Attrs(device) : \E v \in Asks(device)[a] : Ask(c, a, v)) \/ Send(c) \/ Fail(c)
    \/ Receive \/ ChangeAtVehicle \/ Update \/ Expire

Next ==
    \/ device # "main_switch" /\ ControlNext /\ UNCHANGED switchVars
    \/ device = "main_switch" /\ SwitchNext /\ UNCHANGED <<device, controlVars>>

Spec == Init /\ [][Next]_vars

---------------------------------------------------------------------------
ValuesOf(d) == (UNION {SlotValues(d)[s] : s \in Slots(d)}) \cup {None}
ClaimsOf(d) == (UNION {Asks(d)[a] : a \in Attrs(d)}) \cup {"20", "true", "false", None}

(* Slots, claims and calls hold what the code can put there. *)
TypeOK ==
    /\ device \in Devices
    /\ vehicle \in [Slots(device) -> ValuesOf(device)] /\ slots \in [Slots(device) -> ValuesOf(device)]
    /\ claims \in [Attrs(device) -> ClaimsOf(device)] /\ intent \in [Attrs(device) -> ClaimsOf(device)]
    /\ expired \in BOOLEAN /\ changes \in 0 .. MaxChanges
    /\ \A c \in Calls : calls[c].pc \in {"free", "connecting", "sent", "done"}
    /\ \A i \in DOMAIN wire : calls[wire[i]].pc = "sent"
    /\ SwitchTypeOK

(* The claims that their entity gives up at any update whatsoever. *)
Forgetful ==
    CASE device = "panel" -> {"boiler", "energy"}
      [] device = "modern" -> {"hvac", "fan"}
      [] device \notin {"panel", "modern"} -> {}

(* Once a command has been sent an entity shows what it asked for, through
   stale reports, other commands in flight and updates about something else,
   until the vehicle refuses it or is changed by someone else.  (A claim that
   the slots agree with already is given up while its command is on its way.)
   A generic control does not stay with a claim: when its time is up and the
   vehicle has reported, it shows the vehicle's value, whatever was refused,
   overtaken or lost on the way. *)
AskedIsShown ==
    /\ \A a \in Attrs(device) \ Forgetful : intent[a] # None /\ ~(Timed /\ expired) => Shown(a) = intent[a]
    /\ Timed /\ expired /\ slots = vehicle =>
           \A a \in Attrs(device) : Shown(a) = ReadBack(device, vehicle)[a]

(* What the vehicle received and has reported is what the entity shows: the
   reading of the slots is the inverse of the writing of the command. *)
AppliedIsReadBack ==
    wire = <<>> /\ slots = vehicle =>
        \A a \in Attrs(device) : intent[a] # None => ReadBack(device, slots)[a] = intent[a]

(* The boiler's and the climate entity's commands repeat the fuel, which is
   another entity's: they never change it, unless what was reported of it was
   out of date when they were sent, or nothing, or it changed on their way. *)
FuelIsKept ==
    [][\A c \in Calls : (device = "panel" /\ wire # <<>> /\ wire' = Tail(wire) /\ c = Head(wire)
                         /\ calls[c].attr # "energy" /\ ~calls[c].stale) => ~FuelChanged]_vars
=============================================================================
