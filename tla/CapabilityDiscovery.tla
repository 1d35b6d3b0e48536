-------------------------- MODULE CapabilityDiscovery --------------------------
(***************************************************************************)
(* How the slots a vehicle emits become entities: the set-up baseline, the *)
(* pending slots, the debounced refresh and the platforms' callbacks of    *)
(* coordinator.py, with setup_platform of platform_setup.py and the order  *)
(* of async_setup_entry and async_unload_entry.                            *)
(*                                                                         *)
(* Slots are observed in frames while set-up is under way, and a stop of   *)
(* the SignalR session (a reconnect, a forced re-authentication, the       *)
(* unload) cancels the debounce at any point.                              *)
(***************************************************************************)
EXTENDS Naturals

CONSTANTS
    Slots,      \* (bus_id, sensor_id) pairs
    Platforms,  \* PLATFORM_LIST
    Affects,    \* _new_slots_might_affect_platform, for one slot
    MaxStops    \* bound: stops of the session before the unload

ASSUME DiscoveryAssumption ==
    /\ Affects \subseteq Platforms \X Slots
    /\ MaxStops \in Nat

VARIABLES
    data,          \* the keys of _slot_data
    baseline,      \* _setup_slot_baseline; empty when it is None
    pending,       \* _pending_setup_slots
    setupComplete, \* _entry_setup_complete
    ready,         \* platforms whose setup_platform has returned
    timedOut,      \* those whose wait_for_first_frame returned False
    offered,       \* the slots of each platform's last discovery
    callbacks,     \* the keys of _platform_refresh_callbacks
    reloadSlots,   \* _capability_reload_slots
    reloading,     \* _capability_reload_task sleeps
    connected,     \* frames can arrive
    stopping,      \* _stop_signalr_locked awaits the client's stop()
    unloading,     \* async_unload_entry has begun
    cleared,       \* history: slots whose refresh a stop has cancelled
    stops          \* bound: stops so far

session == <<connected, stopping, unloading, cleared, stops>>
discoveryVars == <<data, baseline, pending, setupComplete, ready, timedOut, offered,
                   callbacks, reloadSlots, reloading, session>>

DiscoveryTypeOK ==
    /\ data \in SUBSET Slots /\ baseline \in SUBSET Slots
    /\ pending \in SUBSET Slots /\ reloadSlots \in SUBSET Slots
    /\ cleared \in SUBSET Slots
    /\ ready \in SUBSET Platforms /\ timedOut \in SUBSET Platforms
    /\ callbacks \in SUBSET Platforms
    /\ offered \in [Platforms -> SUBSET Slots]
    /\ setupComplete \in BOOLEAN /\ reloading \in BOOLEAN
    /\ connected \in BOOLEAN /\ stopping \in BOOLEAN /\ unloading \in BOOLEAN
    /\ stops \in 0..MaxStops

DiscoveryInit ==
    /\ data = {} /\ baseline = {} /\ pending = {}
    /\ setupComplete = FALSE
    /\ ready = {} /\ timedOut = {} /\ callbacks = {}
    /\ offered = [p \in Platforms |-> {}]
    /\ reloadSlots = {} /\ reloading = FALSE
    /\ connected = TRUE /\ stopping = FALSE /\ unloading = FALSE
    /\ cleared = {} /\ stops = 0

-----------------------------------------------------------------------------
(***************************************************************************)
(* Frames: _on_signalr_update and _schedule_capability_reload              *)
(***************************************************************************)
\* Mutant: the slots of the refresh that was due are replaced
ScheduleOnly(new) == reloadSlots' = new /\ reloading' = TRUE

Schedule(new) == reloadSlots' = reloadSlots \cup new /\ reloading' = TRUE

\* A frame with slots never seen before; any other only updates values
Frame(new) ==
    /\ connected
    /\ new # {} /\ new \cap data = {}
    /\ data' = data \cup new
    /\ \/ /\ setupComplete
          /\ Schedule(new)
          /\ UNCHANGED pending
       \/ /\ ~setupComplete
          /\ pending' = IF baseline = {} THEN pending
                        ELSE pending \cup (new \ baseline)
          /\ UNCHANGED <<reloadSlots, reloading>>
    /\ UNCHANGED <<baseline, setupComplete, ready, timedOut, offered, callbacks,
                   session>>

(***************************************************************************)
(* Set-up: setup_platform of every platform, then                          *)
(* mark_entry_setup_complete                                               *)
(***************************************************************************)
\* Discover what has been observed so far, and register for what comes
Discover(p) ==
    /\ p \notin ready
    /\ ready' = ready \cup {p} /\ callbacks' = callbacks \cup {p}
    /\ offered' = [offered EXCEPT ![p] = data]
    /\ UNCHANGED <<data, pending, setupComplete, reloadSlots, reloading, session>>

FirstFrame(p) ==
    /\ data # {} /\ Discover(p)
    /\ baseline' = IF baseline = {} THEN data ELSE baseline
    /\ UNCHANGED timedOut

FirstFrameTimesOut(p) ==
    /\ data = {} /\ Discover(p)
    /\ timedOut' = timedOut \cup {p}
    /\ UNCHANGED baseline

\* Mutant: the slots that came during set-up are forgotten
MarkSetupCompleteOnly ==
    /\ ready = Platforms /\ ~setupComplete
    /\ setupComplete' = TRUE /\ pending' = {}
    /\ UNCHANGED <<data, baseline, ready, timedOut, offered, callbacks,
                   reloadSlots, reloading, session>>

MarkSetupComplete ==
    /\ ready = Platforms /\ ~setupComplete
    /\ setupComplete' = TRUE /\ pending' = {}
    /\ IF pending = {} THEN UNCHANGED <<reloadSlots, reloading>>
                       ELSE Schedule(pending)
    /\ UNCHANGED <<data, baseline, ready, timedOut, offered, callbacks, session>>

(***************************************************************************)
(* The debounce has passed: every registered platform that a new slot may  *)
(* affect discovers again all that has been observed.  No callback awaits, *)
(* so that the refresh is one step.                                        *)
(***************************************************************************)
Concerned == {p \in callbacks : \E s \in reloadSlots : <<p, s>> \in Affects}

Refresh ==
    /\ reloading
    /\ offered' = [p \in Platforms |-> IF p \in Concerned THEN data ELSE offered[p]]
    /\ reloadSlots' = {} /\ reloading' = FALSE
    /\ UNCHANGED <<data, baseline, pending, setupComplete, ready, timedOut,
                   callbacks, session>>

(***************************************************************************)
(* The session is stopped, and started again unless the entry unloads      *)
(***************************************************************************)

Stop ==
    /\ ~stopping
    /\ IF unloading THEN UNCHANGED stops ELSE stops < MaxStops /\ stops' = stops + 1
    /\ stopping' = TRUE
    /\ cleared' = cleared \cup reloadSlots
    /\ reloadSlots' = {} /\ reloading' = FALSE
    /\ UNCHANGED <<data, baseline, pending, setupComplete, ready, timedOut,
                   offered, callbacks, connected, unloading>>

\* Frames were handled until the client had stopped
Stopped ==
    /\ stopping
    /\ stopping' = FALSE /\ connected' = FALSE
    /\ UNCHANGED <<data, baseline, pending, setupComplete, ready, timedOut,
                   offered, callbacks, reloadSlots, reloading, unloading,
                   cleared, stops>>

Reconnect ==
    /\ ~connected /\ ~stopping /\ ~unloading
    /\ connected' = TRUE
    /\ UNCHANGED <<data, baseline, pending, setupComplete, ready, timedOut,
                   offered, callbacks, reloadSlots, reloading, stopping,
                   unloading, cleared, stops>>

\* async_unload_entry, up to its first await
Unload ==
    /\ setupComplete /\ ~unloading
    /\ unloading' = TRUE /\ callbacks' = {}
    /\ UNCHANGED <<data, baseline, pending, setupComplete, ready, timedOut,
                   offered, reloadSlots, reloading, connected, stopping,
                   cleared, stops>>

-----------------------------------------------------------------------------
DiscoveryNext ==
    \/ \E new \in SUBSET Slots : Frame(new)
    \/ \E p \in Platforms : FirstFrame(p) \/ FirstFrameTimesOut(p)
    \/ MarkSetupComplete \/ Refresh
    \/ Stop \/ Stopped \/ Reconnect \/ Unload

DiscoverySpec == DiscoveryInit /\ [][DiscoveryNext]_discoveryVars

\* The waits of set-up have a timeout, and the debounce is a sleep: frames
\* can only put it off while there are new slots.  Nothing makes a frame come.
FairDiscovery ==
    /\ DiscoverySpec
    /\ \A p \in Platforms : WF_discoveryVars(FirstFrame(p) \/ FirstFrameTimesOut(p))
    /\ WF_discoveryVars(MarkSetupComplete) /\ WF_discoveryVars(Refresh)

-----------------------------------------------------------------------------
(***************************************************************************)
(* Properties                                                              *)
(***************************************************************************)
Due(p, s) == <<p, s>> \in Affects /\ p \in ready /\ s \in data

\* Whenever a frame comes between the platforms' set-ups, a slot that a
\* platform waited for is in its discovery, pending, or in the refresh that is
\* due, unless a stop cancelled that one.  (baseline, pending, debounce)
NoSlotIsForgotten ==
    \A p \in Platforms \ timedOut, s \in Slots :
        Due(p, s) /\ ~unloading =>
            \/ s \in offered[p]
            \/ ~setupComplete /\ s \in pending
            \/ reloading /\ s \in reloadSlots
            \/ s \in cleared

\* A platform discovers nothing once the unload has begun: its entities
\* would outlive the entry.  (clear_platform_refresh_callbacks)
NoDiscoveryAfterUnload == [][unloading => UNCHANGED offered]_discoveryVars

\* Every observed slot reaches every platform it affects, when none of them
\* gave up waiting and no stop cancelled a refresh.
EverySlotIsOffered ==
    [](timedOut = {} /\ cleared = {} /\ ~unloading) =>
        \A p \in Platforms, s \in Slots :
            <<p, s>> \in Affects => (s \in data ~> s \in offered[p])

=============================================================================
