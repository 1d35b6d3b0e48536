-------------------------- MODULE TemplateControls --------------------------
(***************************************************************************)
(* What the controls of the rich entities (templates/) and of the generic  *)
(* ones (entity_base.py) mean in terms of slots: which writes a command is *)
(* sent as, what the entity then claims, how it reads the slots back, and  *)
(* when it gives its claim up.                                             *)
(*                                                                         *)
(* A device is the set of entities that share one component's slots:       *)
(*   panel     Truma Combi: climate, boiler and energy-source entities     *)
(*   modern    Truma Neo or Timberline zone: enum heater climate           *)
(*   aircon    standard air conditioner                                    *)
(*   zone      Airxcel zone                                                *)
(*   roof_fan  Airxcel roof fan         maxxfan  MaxxFan                   *)
(*   slot      a generic number, select, text or switch                    *)
(*   main_switch  the 12 V main switch, whose steps are MainSwitch's       *)
(* A slot's value, an attribute's value and a claim are strings; None is a *)
(* slot the vehicle has not reported, an attribute without a value, or no  *)
(* claim.  "18" and "20" are temperatures.                                 *)
(***************************************************************************)
EXTENDS Integers

None == "none"
(* The values each slot of a device may hold. *)
SlotValues(device) ==
    CASE device = "panel" -> [setpoint |-> {"off", "18", "20"}, boiler |-> {"OFF", "HOT"},
                              fuel |-> {"Diesel", "Electricity"}, mirror |-> {"Diesel", "Electricity"}]
      [] device = "modern" -> [mode |-> {"OFF", "HEATING", "VENTILATING"}, target |-> {"18", "20"},
                               fan |-> {"LOW", "HIGH"}]
      [] device = "aircon" -> [mode |-> {"OFF", "COOL", "FAN"}, target |-> {"18", "20"}, fan |-> {"LOW", "HIGH"}]
      [] device = "zone" -> [mode |-> {"OFF", "HEAT", "AUX_HEAT"}, heat |-> {"18", "20"},
                             fanmode |-> {"AUTO", "ON"}, speed |-> {"LOW", "HIGH"}]
      [] device = "roof_fan" -> [state |-> {"ON", "OFF"}, speedmode |-> {"AUTO", "MANUAL"},
                                 speed |-> {"LOW", "HIGH"}]
      [] device = "maxxfan" -> [state |-> {"true", "false"}, speed |-> {"OFF", "LOW", "HIGH"}]
      [] device = "slot" -> [value |-> {"A", "B", "C"}]
      [] device = "main_switch" -> <<>>
Slots(device) == DOMAIN SlotValues(device)

(* The attributes of a device's entities, and the values a user may ask for. *)
Asks(device) ==
    CASE device = "panel" -> [hvac |-> {"off", "heat"}, temp |-> {"18", "20"}, boiler |-> {"Off", "Turbo"},
                              energy |-> {"Diesel", "Electricity"}]
      [] device \in {"modern", "aircon"} -> [hvac |-> {"off", "heat", "cool", "fan_only"}, temp |-> {"18", "20"},
                                             fan |-> {"LOW", "HIGH"}]
      [] device = "zone" -> [hvac |-> {"off", "heat"}, heat |-> {"18", "20"},
                             fan |-> {"AUTO", "LOW"}]
      [] device \in {"roof_fan", "maxxfan"} -> [on |-> {"true", "false", "33"}, pct |-> {"0", "33", "100"}]
      [] device = "slot" -> [value |-> {"A", "B", "C"}]
      [] device = "main_switch" -> <<>>
Attrs(device) == DOMAIN Asks(device)
NoClaims(device) == [a \in Attrs(device) |-> None]

(* A table of an enum: the value with no entry has no counterpart. *)
Lookup(table, x) == IF x \in DOMAIN table THEN table[x] ELSE None
Known(value, otherwise) == IF value # None THEN value ELSE otherwise

---------------------------------------------------------------------------
(* Truma panel: setpoint slot 8 with absolute zero as off, boiler 5, fuel 4
   and its mirror 6 (the electric power of slot 9 goes with the fuel).         *)
BoilerWire == [Off |-> "OFF", Turbo |-> "HOT"]
EnergyWrites(option) == [fuel |-> option, mirror |-> option]

TrumaRead(s) ==
    LET setpoint == IF s.setpoint = "off" THEN None ELSE s.setpoint
    IN  [hvac |-> IF setpoint # None THEN "heat" ELSE "off",
         temp |-> setpoint,
         boiler |-> IF s.boiler = None THEN None ELSE IF s.boiler = "HOT" THEN "Turbo" ELSE "Off",
         energy |-> s.fuel]

\* Mutant: the panel's fuel is Diesel
SetpointWritesDiesel(target, s) == [setpoint |-> target, mirror |-> "Diesel"]
(* Setting the heat carries the fuel along, from slot 6 before slot 4. *)
SetpointWrites(target, s) ==
    LET fuel == Known(s.mirror, s.fuel)
    IN  IF fuel = None THEN [setpoint |-> target] ELSE [setpoint |-> target, mirror |-> fuel]
TrumaCommand(attr, value, s, claims) ==
    LET temp == Known(claims.temp, Known(TrumaRead(s).temp, "20"))
    IN  CASE attr = "temp" -> [writes |-> SetpointWrites(value, s), claim |-> [hvac |-> "heat", temp |-> value]]
          [] attr = "hvac" /\ value = "heat" ->
                [writes |-> SetpointWrites(temp, s), claim |-> [hvac |-> "heat", temp |-> temp]]
          [] attr = "hvac" /\ value = "off" ->
                [writes |-> SetpointWrites("off", s), claim |-> [hvac |-> "off", temp |-> None]]
          [] attr = "boiler" ->
                [writes |-> [boiler |-> BoilerWire[value], fuel |-> Known(s.fuel, "Diesel")],
                 claim |-> [boiler |-> value]]
          [] attr = "energy" -> [writes |-> EnergyWrites(value), claim |-> [energy |-> value]]

(* _handle_coordinator_update of the three entities.  The setpoint of a heater
   that is off reads as none, which confirms nothing; the two selects compare
   their claim with itself. *)
TrumaSettle(s, claims) ==
    LET read == TrumaRead(s)
        confirmed == claims.hvac = "heat" /\ read.temp # None /\ claims.temp = read.temp
    IN  [hvac |-> IF confirmed THEN None ELSE claims.hvac,
         temp |-> IF confirmed THEN None ELSE claims.temp,
         boiler |-> None, energy |-> None]

---------------------------------------------------------------------------
(* Enum heater and air conditioner: a mode, a target and a fan slot.       *)
ModeTable(device) ==
    IF device = "modern" THEN [off |-> "OFF", heat |-> "HEATING", fan_only |-> "VENTILATING"]
    ELSE [off |-> "OFF", cool |-> "COOL", fan_only |-> "FAN"]
HvacOf(table, option) == LET modes == {m \in DOMAIN table : table[m] = option}
                         IN  IF modes = {} THEN None ELSE CHOOSE m \in modes : TRUE
ClimateRead(device, s) == [hvac |-> HvacOf(ModeTable(device), s.mode), temp |-> s.target, fan |-> s.fan]

(* The heater is given a target when it has none, and is switched on by one;
   what it claims for these it claims before anything is sent. *)
HeaterCommand(attr, value, s, claims) ==
    LET hvac == Known(claims.hvac, ClimateRead("modern", s).hvac)
        needsTarget == Known(claims.temp, s.target) = None
    IN  CASE attr = "hvac" /\ value = "heat" /\ needsTarget ->
                [writes |-> [mode |-> "HEATING", target |-> "20"],
                 early |-> [temp |-> "20"], claim |-> [hvac |-> value]]
          [] attr = "hvac" /\ ~(value = "heat" /\ needsTarget) ->
                [writes |-> [mode |-> ModeTable("modern")[value]], early |-> <<>>, claim |-> [hvac |-> value]]
          [] attr = "temp" /\ hvac = "off" ->
                [writes |-> [mode |-> "HEATING", target |-> value],
                 early |-> [hvac |-> "heat"], claim |-> [temp |-> value]]
          [] attr = "temp" /\ hvac # "off" ->
                [writes |-> [target |-> value], early |-> <<>>, claim |-> [temp |-> value]]
          [] attr = "fan" -> [writes |-> [fan |-> value], early |-> <<>>, claim |-> [fan |-> value]]
AirConditionerCommand(attr, value) ==
    [writes |-> CASE attr = "hvac" -> [mode |-> ModeTable("aircon")[value]]
                  [] attr = "temp" -> [target |-> value]
                  [] attr = "fan" -> [fan |-> value],
     claim |-> [a \in {attr} |-> value]]

(* The heater compares its mode and fan claims with themselves. *)
HeaterSettle(s, claims) ==
    [hvac |-> None, fan |-> None, temp |-> IF s.target # None /\ claims.temp = s.target THEN None ELSE claims.temp]
\* Mutant: any update drops the claims
SettleAtAny(read, claims) == [a \in DOMAIN claims |-> IF read[a] # None THEN None ELSE claims[a]]
(* A claim that the slots bear out is dropped. *)
Settle(read, claims) == [a \in DOMAIN claims |-> IF claims[a] = read[a] THEN None ELSE claims[a]]

---------------------------------------------------------------------------
(* Airxcel zone: a heat target (the cool one is like it), fan mode, speed. *)
ZoneModes == [off |-> "OFF", heat |-> "HEAT", heat_cool |-> "AUTO_HEAT_COOL"]
ZoneRead(s) ==
    [hvac |-> IF s.mode = "AUX_HEAT" THEN "heat" ELSE HvacOf(ZoneModes, s.mode), heat |-> s.heat,
     fan |-> IF s.fanmode = "AUTO" THEN "AUTO" ELSE s.speed]
(* A target is claimed before it is sent. *)
ZoneCommand(attr, value) ==
    CASE attr = "hvac" -> [writes |-> [mode |-> ZoneModes[value]], early |-> <<>>, claim |-> [hvac |-> value]]
      [] attr = "heat" -> [writes |-> [heat |-> value], early |-> [heat |-> value], claim |-> <<>>]
      [] attr = "fan" ->
            [writes |-> IF value = "AUTO" THEN [fanmode |-> "AUTO"] ELSE [fanmode |-> "ON", speed |-> value],
             early |-> <<>>, claim |-> [fan |-> value]]
(* A claim is of the option the slots are compared with: auxiliary heat is not
   the heat that was asked for. *)
ZoneSettle(s, claims) ==
    [Settle(ZoneRead(s), claims) EXCEPT
        !.hvac = IF claims.hvac # None /\ s.mode = ZoneModes[claims.hvac] THEN None ELSE claims.hvac]

---------------------------------------------------------------------------
(* Fans.                                                                   *)
PercentageOf == [OFF |-> "0", LOW |-> "33", HIGH |-> "100"]
\* Mutant: the table starts one step too high
SpeedOfTooHigh == [percentage \in {"33", "100"} |-> "HIGH"]
SpeedOf == [percentage \in {"33", "100"} |-> IF percentage = "33" THEN "LOW" ELSE "HIGH"]
RoofFanRead(s) ==
    [on |-> IF s.state = None THEN None ELSE IF s.state = "ON" THEN "true" ELSE "false",
     pct |-> IF s.speed = "OFF" THEN None ELSE Lookup(PercentageOf, s.speed)]
MaxxFanRead(s) == [on |-> s.state, pct |-> Lookup(PercentageOf, s.speed)]

FanOn(device) == IF device = "roof_fan" THEN [state |-> "ON"] ELSE [state |-> "true"]
FanOff(device) == IF device = "roof_fan" THEN [state |-> "OFF"] ELSE [state |-> "false"]
FanSpeed(device, speed) ==
    IF device = "roof_fan" THEN [state |-> "ON", speedmode |-> "MANUAL", speed |-> speed]
    ELSE [state |-> "true", speed |-> speed]
(* Switching off, or to zero per cent, leaves the Airxcel's speed claim; a
   speed given with the switching on is claimed before anything is sent. *)
FanCommand(device, attr, value) ==
    CASE attr = "on" /\ value = "true" -> [writes |-> FanOn(device), early |-> <<>>, claim |-> [on |-> "true"]]
      [] attr = "on" /\ value \notin {"true", "false"} ->
            [writes |-> FanSpeed(device, SpeedOf[value]), early |-> [pct |-> value], claim |-> [on |-> "true"]]
      [] value \in {"false", "0"} ->
            [writes |-> FanOff(device), early |-> <<>>,
             claim |-> IF device = "roof_fan" THEN [on |-> "false"] ELSE [on |-> "false", pct |-> "0"]]
      [] attr = "pct" /\ value # "0" ->
            [writes |-> FanSpeed(device, SpeedOf[value]), early |-> <<>>, claim |-> [on |-> "true", pct |-> value]]

---------------------------------------------------------------------------
(* All devices.                                                            *)
ReadBack(device, s) ==
    CASE device = "panel" -> TrumaRead(s)
      [] device \in {"modern", "aircon"} -> ClimateRead(device, s)
      [] device = "zone" -> ZoneRead(s)
      [] device = "roof_fan" -> RoofFanRead(s)
      [] device = "maxxfan" -> MaxxFanRead(s)
      [] device = "slot" -> s

Later(command) == [writes |-> command.writes, early |-> <<>>, claim |-> command.claim]
Command(device, attr, value, s, claims) ==
    CASE device = "panel" -> Later(TrumaCommand(attr, value, s, claims))
      [] device = "modern" -> HeaterCommand(attr, value, s, claims)
      [] device = "aircon" -> Later(AirConditionerCommand(attr, value))
      [] device = "zone" -> ZoneCommand(attr, value)
      [] device \in {"roof_fan", "maxxfan"} -> FanCommand(device, attr, value)
      [] device = "slot" -> [writes |-> [value |-> value], early |-> <<>>, claim |-> [value |-> value]]
(* Some modes have no option on the device: the command does nothing. *)
Accepts(device, attr, value) ==
    device \in {"modern", "aircon"} /\ attr = "hvac" => value \in DOMAIN ModeTable(device)

Settled(device, s, claims) ==
    CASE device = "panel" -> TrumaSettle(s, claims)
      [] device = "modern" -> HeaterSettle(s, claims)
      [] device = "zone" -> ZoneSettle(s, claims)
      [] device \notin {"panel", "modern", "zone"} -> Settle(ReadBack(device, s), claims)
=============================================================================
