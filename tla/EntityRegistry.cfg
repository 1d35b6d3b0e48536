SPECIFICATION RegistrySpec
CONSTANTS
    Vehicles = {{"light"}, {"lamp"}, {"awning"}, {"truma"}, {"zone"}, {"fan"}, {"fridge"}, {"unit", "hub"}}
    MaxReloads = 1
    MaxEdits = 1
    MaxFrames = 2
INVARIANTS RegistryTypeOK LiveIsWhatAFreshSetupMakes SlotsHaveOneEntity SupersededAreGone
PROPERTIES  PassesAreIdempotent
CHECK_DEADLOCK FALSE
