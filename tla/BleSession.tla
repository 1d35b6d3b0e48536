------------------------------- MODULE BleSession -------------------------------
(***************************************************************************)
(* Commands over two transports, and the life of the Bluetooth session:    *)
(* _send_with_retry, _ensure_ble and _stop_ble of coordinator.py, with     *)
(* start, stop and the request lock of HymerBleTransport.                  *)
(*                                                                         *)
(* Python switches tasks only at an await, so an action is the code        *)
(* between two awaits of one task.  A task of Senders sends one command;   *)
(* it builds at most one transport, which is named after it.  The cloud is *)
(* an outcome: SignalRLifecycle is about how it comes to be.               *)
(***************************************************************************)
EXTENDS Naturals

CONSTANTS
    Commands,       \* service calls that send one command
    Verifications,  \* tracked background tasks that send one
    MaxFaults       \* bound: lost links, failed starts and lost answers

Shutdown == "shutdown"
Nobody == "none"
Senders == Commands \cup Verifications
Tasks == Senders \cup {Shutdown}

ASSUME SendersAssumption ==
    /\ Shutdown \notin Senders /\ Nobody \notin Senders
    /\ MaxFaults \in Nat

(***************************************************************************)
(* Where a task is suspended, and what its transport has come to.          *)
(***************************************************************************)
Starting ==            \* _ensure_ble, registered in _ble_start_task
    { "starting",      \* transport.start(): connect, bond, notify, TLS
      "aborting",      \* start() failed and awaits its shielded stop()
      "unwinding",     \* start() was cancelled and awaits it
      "withdrawing" }  \* started during the unload: awaits transport.stop()
Holding == Starting \cup {"replacing"}  \* inside "async with _ble_start_lock"
Finished == {"delivered", "failed", "cancelled"}
Labels == Holding \cup Finished \cup
    { "idle",
      "cloud",         \* _try_cloud_send
      "startLock",     \* waits for _ble_start_lock
      "requestLock",   \* waits for the transport's _request_lock
      "requesting",    \* holds it: writes, then awaits the answer
      "joining",       \* _stop_ble awaits the start task it cancelled
      "disconnecting", \* _stop_ble awaits the published transport's stop()
      "quiescing",     \* shutdown awaits the cancelled background tasks
      "cloudStop",     \* shutdown awaits stop_signalr
      "down" }         \* shutdown is over

Links ==
    { "none",          \* no GATT client
      "connecting",
      "up",            \* HymerBleTransport.connected
      "lost",          \* the client is there and not connected
      "closing" }      \* stop() has forgotten the client and disconnects it
Live == {"connecting", "up"}

VARIABLES
    primary,      \* CONF_BLE_MODE is "primary"; a new mode reloads the entry
    pc,           \* where each task is suspended
    startLock,    \* _ble_start_lock: its holder
    startTask,    \* _ble_start_task
    ble,          \* _ble: the published transport
    link,         \* of each transport
    requestLock,  \* _request_lock of each transport: its holder
    using,        \* the transport in a sender's local variable
    awaits,       \* the tasks a task joins, or the transport it stops
    cancelled,    \* tasks with a CancelledError to be raised at their await
    shuttingDown, \* _shutting_down
    faults        \* bound: faults so far

vars == <<primary, pc, startLock, startTask, ble, link, requestLock, using, awaits,
          cancelled, shuttingDown, faults>>

TypeOK ==
    /\ primary \in BOOLEAN
    /\ pc \in [Tasks -> Labels]
    /\ startLock \in Senders \cup {Nobody}
    /\ startTask \in Senders \cup {Nobody}
    /\ ble \in Senders \cup {Nobody}
    /\ link \in [Senders -> Links]
    /\ requestLock \in [Senders -> Senders \cup {Nobody}]
    /\ using \in [Senders -> Senders \cup {Nobody}]
    /\ awaits \in [Tasks -> SUBSET Senders]
    /\ cancelled \in SUBSET Senders
    /\ shuttingDown \in BOOLEAN
    /\ faults \in 0..MaxFaults

-----------------------------------------------------------------------------
(***************************************************************************)
(* What the code reads.                                                    *)
(***************************************************************************)
Fault == faults < MaxFaults /\ faults' = faults + 1

Running(t) == pc[t] \notin Finished \cup {"idle"}

\* A task that is cancelled takes no ordinary step
Runs(t) == t \notin cancelled

\* _send_with_retry turns to BLE: first when it is primary, else after the
\* cloud has failed
BleTurn(t) == pc[t] = (IF primary THEN "idle" ELSE "cloud")

\* ... and what comes after BLE: the cloud, or no transport is left
AfterBle == IF primary THEN "cloud" ELSE "failed"

AfterStop(t) == IF t = Shutdown THEN "down" ELSE AfterBle

\* _ensure_ble before the lock, and inside it
Ensures(t) == \/ BleTurn(t)
              \/ pc[t] = "startLock" /\ startLock = Nobody
EntersLock(t) == startLock = Nobody /\ (BleTurn(t) \/ pc[t] = "startLock")

Usable == ble # Nobody /\ link[ble] = "up"

\* _ble_start_task, when _stop_ble must cancel it for t
StartToCancel(t) ==
    {s \in Senders : s = startTask /\ s # t /\ pc[s] \notin Finished}

Init ==
    /\ primary \in BOOLEAN
    /\ pc = [t \in Tasks |-> "idle"]
    /\ startLock = Nobody /\ startTask = Nobody /\ ble = Nobody
    /\ link = [n \in Senders |-> "none"]
    /\ requestLock = [n \in Senders |-> Nobody]
    /\ using = [t \in Senders |-> Nobody]
    /\ awaits = [t \in Tasks |-> {}]
    /\ cancelled = {}
    /\ shuttingDown = FALSE
    /\ faults = 0

(***************************************************************************)
(* _stop_ble, outside the lock, by a sender that failed or the shutdown.   *)
(* Stop(t, l) is its part after the start task has ended, for links l.     *)
(***************************************************************************)
Stop(t, lk) ==
    /\ startTask' = Nobody
    /\ ble' = Nobody
    /\ IF ble = Nobody
       THEN /\ pc' = [pc EXCEPT ![t] = AfterStop(t)]
            /\ awaits' = [awaits EXCEPT ![t] = {}]
            /\ link' = lk
       ELSE /\ pc' = [pc EXCEPT ![t] = "disconnecting"]
            /\ awaits' = [awaits EXCEPT ![t] = {ble}]
            /\ link' = [lk EXCEPT ![ble] = "closing"]

TearDown(t) ==
    IF StartToCancel(t) # {}
    THEN /\ cancelled' = cancelled \cup StartToCancel(t)
         /\ pc' = [pc EXCEPT ![t] = "joining"]
         /\ awaits' = [awaits EXCEPT ![t] = StartToCancel(t)]
         /\ UNCHANGED <<startTask, ble, link>>
    ELSE Stop(t, link) /\ UNCHANGED cancelled

\* The start task has ended; a cancellation of t itself is swallowed
Joined(t) ==
    /\ pc[t] = "joining" /\ \A s \in awaits[t] : pc[s] \in Finished
    /\ Stop(t, link)
    /\ cancelled' = cancelled \ {t}
    /\ UNCHANGED <<startLock, requestLock, using, shuttingDown, faults>>

Disconnected(t) ==
    /\ pc[t] = "disconnecting" /\ Runs(t)
    /\ \A n \in awaits[t] : link[n] = "none"
    /\ pc' = [pc EXCEPT ![t] = AfterStop(t)]
    /\ awaits' = [awaits EXCEPT ![t] = {}]
    /\ UNCHANGED <<startLock, startTask, ble, link, requestLock, using,
                   cancelled, shuttingDown, faults>>

(***************************************************************************)
(* _send_with_retry and the cloud                                          *)
(***************************************************************************)
CloudFirst(t) ==
    /\ pc[t] = "idle" /\ ~primary
    /\ pc' = [pc EXCEPT ![t] = "cloud"]
    /\ UNCHANGED <<startLock, startTask, ble, link, requestLock, using, awaits,
                   cancelled, shuttingDown, faults>>

CloudEnds(t) ==
    /\ pc[t] = "cloud" /\ Runs(t)
    /\ \/ pc' = [pc EXCEPT ![t] = "delivered"]
       \/ primary /\ pc' = [pc EXCEPT ![t] = "failed"]
    /\ UNCHANGED <<startLock, startTask, ble, link, requestLock, using, awaits,
                   cancelled, shuttingDown, faults>>

(***************************************************************************)
(* _ensure_ble                                                             *)
(***************************************************************************)
RefuseBle(t) ==
    /\ Ensures(t) /\ Runs(t) /\ shuttingDown
    /\ pc' = [pc EXCEPT ![t] = AfterBle]
    /\ UNCHANGED <<startLock, startTask, ble, link, requestLock, using, awaits,
                   cancelled, shuttingDown, faults>>

\* _send_values on the transport that _ensure_ble returns
Request(t, n) ==
    /\ using' = [using EXCEPT ![t] = n]
    /\ IF requestLock[n] = Nobody
       THEN /\ requestLock' = [requestLock EXCEPT ![n] = t]
            /\ pc' = [pc EXCEPT ![t] = "requesting"]
       ELSE /\ pc' = [pc EXCEPT ![t] = "requestLock"]
            /\ UNCHANGED requestLock

UseSession(t) ==
    /\ Ensures(t) /\ Runs(t) /\ ~shuttingDown /\ Usable
    /\ Request(t, ble)
    /\ UNCHANGED <<startLock, startTask, ble, link, awaits, cancelled,
                   shuttingDown, faults>>

WaitForStart(t) ==
    /\ BleTurn(t) /\ Runs(t) /\ ~shuttingDown /\ ~Usable
    /\ startLock # Nobody
    /\ pc' = [pc EXCEPT ![t] = "startLock"]
    /\ UNCHANGED <<startLock, startTask, ble, link, requestLock, using, awaits,
                   cancelled, shuttingDown, faults>>

\* _stop_ble inside the lock: no start is in flight there, and a published
\* transport has lost its link
ReplaceStale(t) ==
    /\ EntersLock(t) /\ Runs(t) /\ ~shuttingDown
    /\ ble # Nobody /\ link[ble] # "up"
    /\ startLock' = t
    /\ startTask' = Nobody /\ ble' = Nobody
    /\ link' = [link EXCEPT ![ble] = "closing"]
    /\ awaits' = [awaits EXCEPT ![t] = {ble}]
    /\ pc' = [pc EXCEPT ![t] = "replacing"]
    /\ UNCHANGED <<requestLock, using, cancelled, shuttingDown, faults>>

Replaced(t) ==
    pc[t] = "replacing" /\ Runs(t) /\ \A n \in awaits[t] : link[n] = "none"

\* The unload began while the stale transport was being stopped
RefuseStart(t) ==
    /\ Replaced(t) /\ shuttingDown
    /\ startLock' = Nobody
    /\ pc' = [pc EXCEPT ![t] = AfterBle]
    /\ awaits' = [awaits EXCEPT ![t] = {}]
    /\ UNCHANGED <<startTask, ble, link, requestLock, using, cancelled,
                   shuttingDown, faults>>

\* Mutant: _ensure_ble builds a transport without the start lock
BeginStartUnlocked(t) ==
    /\ \/ (BleTurn(t) \/ pc[t] = "startLock") /\ Runs(t) /\ ble = Nobody
       \/ Replaced(t)
    /\ ~shuttingDown
    /\ startLock' = t /\ startTask' = t
    /\ link' = [link EXCEPT ![t] = "connecting"]
    /\ awaits' = [awaits EXCEPT ![t] = {}]
    /\ pc' = [pc EXCEPT ![t] = "starting"]
    /\ UNCHANGED <<ble, requestLock, using, cancelled, shuttingDown, faults>>

BeginStart(t) ==
    /\ \/ EntersLock(t) /\ Runs(t) /\ ble = Nobody
       \/ Replaced(t)
    /\ ~shuttingDown
    /\ startLock' = t /\ startTask' = t
    /\ link' = [link EXCEPT ![t] = "connecting"]
    /\ awaits' = [awaits EXCEPT ![t] = {}]
    /\ pc' = [pc EXCEPT ![t] = "starting"]
    /\ UNCHANGED <<ble, requestLock, using, cancelled, shuttingDown, faults>>

\* Mutant: no look at _shutting_down after start()
StartOkDuringUnload(t) ==
    /\ pc[t] = "starting" /\ Runs(t)
    /\ link' = [link EXCEPT ![t] = "up"]
    /\ ble' = t /\ startTask' = Nobody /\ startLock' = Nobody
    /\ Request(t, t)
    /\ UNCHANGED <<awaits, cancelled, shuttingDown, faults>>

\* Publish the transport and send on it, or stop it when the unload has begun
StartOk(t) ==
    /\ pc[t] = "starting" /\ Runs(t)
    /\ IF shuttingDown
       THEN /\ link' = [link EXCEPT ![t] = "closing"]
            /\ pc' = [pc EXCEPT ![t] = "withdrawing"]
            /\ UNCHANGED <<startLock, startTask, ble, requestLock, using>>
       ELSE /\ link' = [link EXCEPT ![t] = "up"]
            /\ ble' = t /\ startTask' = Nobody /\ startLock' = Nobody
            /\ Request(t, t)
    /\ UNCHANGED <<awaits, cancelled, shuttingDown, faults>>

\* _ensure_ble returns None from inside the lock
GiveUpStart(t) ==
    /\ ble' = Nobody /\ startTask' = Nobody /\ startLock' = Nobody
    /\ pc' = [pc EXCEPT ![t] = AfterBle]

\* start() raises, with a GATT client to disconnect or before there is one
StartFails(t) ==
    /\ pc[t] = "starting" /\ Runs(t) /\ Fault
    /\ \/ /\ link' = [link EXCEPT ![t] = "none"]
          /\ GiveUpStart(t)
       \/ /\ link' = [link EXCEPT ![t] = "closing"]
          /\ pc' = [pc EXCEPT ![t] = "aborting"]
          /\ UNCHANGED <<startLock, startTask, ble>>
    /\ UNCHANGED <<requestLock, using, awaits, cancelled, shuttingDown>>

StoppedOwn(t) ==
    /\ pc[t] \in {"aborting", "withdrawing"} /\ Runs(t) /\ link[t] = "none"
    /\ GiveUpStart(t)
    /\ UNCHANGED <<link, requestLock, using, awaits, cancelled, shuttingDown, faults>>

(***************************************************************************)
(* _send_values and the rest of _try_ble_send                              *)
(***************************************************************************)

\* The request lock is free: write, unless stop() took the TLS session away
RequestBegins(t) ==
    /\ pc[t] = "requestLock" /\ Runs(t) /\ requestLock[using[t]] = Nobody
    /\ link[using[t]] \in {"up", "lost"}
    /\ requestLock' = [requestLock EXCEPT ![using[t]] = t]
    /\ pc' = [pc EXCEPT ![t] = "requesting"]
    /\ UNCHANGED <<startLock, startTask, ble, link, using, awaits, cancelled,
                   shuttingDown, faults>>

RequestRefused(t) ==
    /\ pc[t] = "requestLock" /\ Runs(t) /\ requestLock[using[t]] = Nobody
    /\ link[using[t]] \notin {"up", "lost"}
    /\ TearDown(t)
    /\ UNCHANGED <<startLock, requestLock, using, shuttingDown, faults>>

Unlocked(t) == [requestLock EXCEPT ![using[t]] = Nobody]

\* The answer with the request's id: accepted, or rejected by the SCU
RequestAnswered(t) ==
    /\ pc[t] = "requesting" /\ Runs(t) /\ link[using[t]] = "up"
    /\ requestLock' = Unlocked(t)
    /\ \E label \in {"delivered", AfterBle} : pc' = [pc EXCEPT ![t] = label]
    /\ UNCHANGED <<startLock, startTask, ble, link, using, awaits, cancelled,
                   shuttingDown, faults>>

\* Mutant: no REQUEST_TIMEOUT, so that only a lost link ends a wait
RequestFailsByLoss(t) ==
    /\ pc[t] = "requesting" /\ Runs(t) /\ link[using[t]] = "lost"
    /\ requestLock' = Unlocked(t)
    /\ TearDown(t)
    /\ UNCHANGED <<startLock, using, shuttingDown, faults>>

\* REQUEST_TIMEOUT, or a write or TLS error
RequestFails(t) ==
    /\ pc[t] = "requesting" /\ Runs(t)
    /\ IF link[using[t]] = "up" THEN Fault ELSE UNCHANGED faults
    /\ requestLock' = Unlocked(t)
    /\ TearDown(t)
    /\ UNCHANGED <<startLock, using, shuttingDown>>

(***************************************************************************)
(* CancelledError is raised at the await of t: the blocks t is in release  *)
(* their locks and the task ends, after start() has cleaned up.            *)
(***************************************************************************)
ReleaseAll(t) ==
    /\ startLock' = IF startLock = t THEN Nobody ELSE startLock
    /\ requestLock' = [n \in Senders |->
                          IF requestLock[n] = t THEN Nobody ELSE requestLock[n]]

EndsCancelled(t) ==
    /\ pc' = [pc EXCEPT ![t] = "cancelled"]
    /\ awaits' = [awaits EXCEPT ![t] = {}]
    /\ ReleaseAll(t)

\* A second cancellation leaves the shielded stop() to itself; only
\* "withdrawing" has a finally block, which forgets the task and transport
Cancelled(t) ==
    /\ t \in cancelled /\ pc[t] \notin {"starting", "joining"}
    /\ cancelled' = cancelled \ {t}
    /\ EndsCancelled(t)
    /\ IF pc[t] = "withdrawing" THEN startTask' = Nobody /\ ble' = Nobody
                                ELSE UNCHANGED <<startTask, ble>>
    /\ UNCHANGED <<link, using, shuttingDown, faults>>

StartCancelled(t) ==
    /\ t \in cancelled /\ pc[t] = "starting"
    /\ cancelled' = cancelled \ {t}
    /\ \/ /\ link' = [link EXCEPT ![t] = "closing"]
          /\ pc' = [pc EXCEPT ![t] = "unwinding"]
          /\ UNCHANGED <<startLock, requestLock, awaits>>
       \/ /\ link' = [link EXCEPT ![t] = "none"]
          /\ EndsCancelled(t)
    /\ UNCHANGED <<startTask, ble, using, shuttingDown, faults>>

Unwound(t) ==
    /\ pc[t] = "unwinding" /\ Runs(t) /\ link[t] = "none"
    /\ EndsCancelled(t)
    /\ UNCHANGED <<startTask, ble, link, using, cancelled, shuttingDown, faults>>

\* Cancelling a task that awaits a task cancels that one
JoinCancelled(t) ==
    /\ t \in cancelled /\ pc[t] = "joining"
    /\ \E s \in awaits[t] : pc[s] \notin Finished
    /\ cancelled' = (cancelled \ {t}) \cup awaits[t]
    /\ UNCHANGED <<pc, startLock, startTask, ble, link, requestLock, using,
                   awaits, shuttingDown, faults>>

(***************************************************************************)
(* The Bluetooth stack                                                     *)
(***************************************************************************)
LinkLost(n) ==
    /\ link[n] = "up" /\ Fault
    /\ link' = [link EXCEPT ![n] = "lost"]
    /\ UNCHANGED <<pc, startLock, startTask, ble, requestLock, using, awaits,
                   cancelled, shuttingDown>>

LinkCloses(n) ==
    /\ link[n] = "closing"
    /\ link' = [link EXCEPT ![n] = "none"]
    /\ UNCHANGED <<pc, startLock, startTask, ble, requestLock, using, awaits,
                   cancelled, shuttingDown, faults>>

(***************************************************************************)
(* async_prepare_for_shutdown                                              *)
(***************************************************************************)
PrepareForShutdown ==
    /\ pc[Shutdown] = "idle"
    /\ shuttingDown' = TRUE
    /\ LET tracked == {v \in Verifications : Running(v)}
       IN  /\ cancelled' = cancelled \cup tracked
           /\ awaits' = [awaits EXCEPT ![Shutdown] = tracked]
    /\ pc' = [pc EXCEPT ![Shutdown] = "quiescing"]
    /\ UNCHANGED <<startLock, startTask, ble, link, requestLock, using, faults>>

BackgroundTasksDone ==
    /\ pc[Shutdown] = "quiescing"
    /\ \A v \in awaits[Shutdown] : pc[v] \in Finished
    /\ pc' = [pc EXCEPT ![Shutdown] = "cloudStop"]
    /\ awaits' = [awaits EXCEPT ![Shutdown] = {}]
    /\ UNCHANGED <<startLock, startTask, ble, link, requestLock, using,
                   cancelled, shuttingDown, faults>>

CloudStopped ==
    /\ pc[Shutdown] = "cloudStop"
    /\ TearDown(Shutdown)
    /\ UNCHANGED <<startLock, requestLock, using, shuttingDown, faults>>

-----------------------------------------------------------------------------
SenderStep(t) ==
    \/ CloudFirst(t) \/ CloudEnds(t)
    \/ RefuseBle(t) \/ UseSession(t) \/ WaitForStart(t) \/ ReplaceStale(t)
    \/ RefuseStart(t) \/ BeginStart(t) \/ StartOk(t) \/ StartFails(t) \/ StoppedOwn(t)
    \/ RequestBegins(t) \/ RequestRefused(t) \/ RequestAnswered(t) \/ RequestFails(t)
    \/ Cancelled(t) \/ StartCancelled(t) \/ Unwound(t) \/ JoinCancelled(t)
    \/ Joined(t) \/ Disconnected(t)

ShutdownStep ==
    \/ PrepareForShutdown \/ BackgroundTasksDone \/ CloudStopped
    \/ Joined(Shutdown) \/ Disconnected(Shutdown)

Next ==
    /\ \/ \E t \in Senders : SenderStep(t) \/ LinkLost(t) \/ LinkCloses(t)
       \/ ShutdownStep
    /\ UNCHANGED primary

Spec == Init /\ [][Next]_vars

\* Every await is answered or times out; nothing makes a command or an unload
\* begin
FairSpec ==
    /\ Spec
    /\ \A t \in Senders : WF_vars(pc[t] # "idle" /\ SenderStep(t) /\ UNCHANGED primary)
    /\ WF_vars((\E n \in Senders : LinkCloses(n)) /\ UNCHANGED primary)
    /\ WF_vars(pc[Shutdown] # "idle" /\ ShutdownStep /\ UNCHANGED primary)

-----------------------------------------------------------------------------
(***************************************************************************)
(* Properties                                                              *)
(***************************************************************************)

\* Of all the transports ever built at most one is connecting or connected:
\* the SCU takes one central.  (_ensure_ble, _stop_ble)
OneLiveLink == \A m, n \in Senders : link[m] \in Live /\ link[n] \in Live => m = n

\* Commands never interleave their writes and answers on the vehicle, also
\* not over two transports.  (_send_values)
OneRequestOnTheLink ==
    \A s, t \in Senders :
        /\ pc[s] = "requesting" /\ link[using[s]] = "up"
        /\ pc[t] = "requesting" /\ link[using[t]] = "up"
        => s = t

\* The SCU's one link has one user at a time, over every transport built.
LinkHasOneUser == OneLiveLink /\ OneRequestOnTheLink

\* Once the unload has begun no start begins and no transport is published.
\* (async_prepare_for_shutdown, _ensure_ble)
phase == IF \E n \in Senders : link[n] = "connecting" THEN "connecting"
         ELSE IF \E n \in Senders : link[n] = "up" THEN "up" ELSE "down"
Promise == INSTANCE ExclusiveLink WITH phase <- phase, sealed <- shuttingDown
ImplementsExclusiveLink == Promise!Spec

\* Every command ends, every unload completes and leaves in the end no GATT
\* client connected, whatever waits for whatever.  (_stop_ble, the two locks)
EveryTaskEnds ==
    /\ \A t \in Senders : pc[t] # "idle" ~> pc[t] \in Finished
    /\ shuttingDown ~> pc[Shutdown] = "down"
    /\ shuttingDown ~> [](\A n \in Senders : link[n] = "none")
=============================================================================
