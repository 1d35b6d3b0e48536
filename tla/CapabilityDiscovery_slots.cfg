CONSTANTS
    Slots <- MCSlots
    Platforms <- MCPlatforms
    Affects <- MCAffects
    MaxStops = 2
SPECIFICATION FairDiscovery
INVARIANTS NoSlotIsForgotten
PROPERTIES EverySlotIsOffered
CHECK_DEADLOCK FALSE
