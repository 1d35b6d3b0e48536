SPECIFICATION Spec
CONSTANTS
    Devices = {"panel", "modern", "aircon", "zone", "roof_fan", "maxxfan", "slot", "main_switch"}
    Calls = {c1, c2}
    MaxChanges = 1
    MaxSwitched = 2
    MaxLost = 5
SYMMETRY CallSymmetry
INVARIANTS TypeOK  AppliedIsReadBack RetriesAreBounded 
PROPERTIES FuelIsKept
CHECK_DEADLOCK FALSE
