--------------------------- MODULE CoordinatorProofs ---------------------------
(***************************************************************************)
(* Proofs about the two parts of the coordinator: SignalRLifecycle, for    *)
(* every set of senders, every limit and every number of faults; and       *)
(* CapabilityDiscovery, for any slots, platforms and relation between      *)
(* them: its types, that no slot is forgotten, and that the unload ends    *)
(* discovery.                                                              *)
(***************************************************************************)
EXTENDS SignalRLifecycle, CapabilityDiscovery, TLAPS

-----------------------------------------------------------------------------
(* SignalRLifecycle.                                                       *)


(***************************************************************************)
(* The inductive invariant.  OneLiveSession alone is not inductive: that a *)
(* new generation finds no open socket follows from who holds the lock and *)
(* at which await.                                                         *)
(***************************************************************************)

\* The lock is held by exactly the task suspended inside its block.
LockInv == \A t \in Tasks : pc[t] \in Holding <=> lock = t

\* What the holder of the lock knows of the published client.
HolderInv ==
    \A t \in Tasks :
        /\ pc[t] \in Holding => signalr = generation /\ signalr # NoClient
        /\ pc[t] = "connecting" => open = {} /\ usable = {}

\* Where the three coordinator tasks can be suspended.
LoopLabels == {"idle", "sleeping", "startLock"} \cup (Holding \ {"stopping"})
ShutdownLabels == {"idle", "quiescing", "stopLock", "stopping", "down"}
LabelInv == pc[Loop] \in LoopLabels /\ pc[Shutdown] \in ShutdownLabels

\* Shutdown suppresses the loss callback for good, ends the loop before it
\* stops the client, and leaves nothing behind.
UnloadInv ==
    /\ shuttingDown <=> pc[Shutdown] # "idle"
    /\ shuttingDown => suppress
    /\ pc[Shutdown] \in {"stopping", "down"} => pc[Loop] = "idle"
    /\ pc[Shutdown] = "down" => signalr = NoClient /\ lock = NoTask

IInv == TypeOK /\ OneLiveSession /\ LockInv /\ HolderInv /\ LabelInv /\ UnloadInv

-----------------------------------------------------------------------------
(***************************************************************************)
(* What the code that runs to a task's next suspension changes.            *)
(***************************************************************************)

\* Labels the callers of start_signalr and force_reauth_and_reconnect reach
AfterReturn == {"idle", "sleeping", "settling", "sending", "startLock", "stopLock",
                "delivered", "failed"}

\* _try_cloud_send suspends outside the lock.
LEMMA EnsuredLabels ==
    ASSUME NEW g, NEW u
    PROVE  Ensured(g, u) \subseteq {"startLock", "stopLock", "settling", "sending"}
BY DEF Ensured

\* A sender's step to a label keeps its variables in their types.
LEMMA SenderAtEffect ==
    ASSUME TypeOK, signalr' \in Nat, NEW t \in Senders, NEW label \in Labels,
           NEW try \in 0..2, SenderAt(t, label, try)
    PROVE  /\ pc' = [pc EXCEPT ![t] = label] /\ pc' \in [Tasks -> Labels]
           /\ attempt' \in [Senders -> 0..2]
           /\ using' \in [Senders \cup {Poll} -> Nat]
BY DEF SenderAt, TypeOK, Tasks, NoClient

\* A call that returns or raises moves its caller alone, outside the lock.
LEMMA ReturnEffect ==
    ASSUME TypeOK, signalr' \in Nat, backoff' \in Nat, NEW t \in Tasks,
           Return(t) \/ Raise(t)
    PROVE  /\ \E label \in AfterReturn :
                /\ pc' = [pc EXCEPT ![t] = label]
                /\ t = Loop => label \in {"idle", "sleeping"}
           /\ t # Shutdown
           /\ pc' \in [Tasks -> Labels]
           /\ tries' \in 0..MaxFailures /\ delay' \in Nat
           /\ attempt' \in [Senders -> 0..2]
           /\ using' \in [Senders \cup {Poll} -> Nat]
<1> USE DEF Poll, Loop, Shutdown
<1>1. CASE t = Poll /\ PollReturns
  <2>1. t # Loop /\ t # Shutdown
    BY <1>1
  <2>2. pc' = [pc EXCEPT ![t] = "idle"]
    BY <1>1 DEF PollReturns
  <2> QED BY <1>1, <2>1, <2>2 DEF PollReturns, TypeOK, Tasks, Labels, AfterReturn,
             loopVars, senderVars
<1>2. CASE t = Loop /\ LoopReturns
  <2>1. PICK label \in {"idle", "sleeping"} : pc' = [pc EXCEPT ![t] = label]
    BY <1>2 DEF LoopReturns
  <2>2. pc' \in [Tasks -> Labels]
    BY <2>1 DEF TypeOK, Labels
  <2>3. tries' \in 0..MaxFailures /\ delay' \in Nat
    BY <1>2, TimingAssumption DEF LoopReturns, TypeOK, Larger, Smaller
  <2>4. t # Shutdown
    BY <1>2
  <2>5. UNCHANGED <<attempt, using>>
    BY <1>2 DEF LoopReturns, senderVars
  <2> QED BY <2>1, <2>2, <2>3, <2>4, <2>5 DEF TypeOK, AfterReturn
<1>3. CASE t \in Senders /\ (SenderReturns(t) \/ (SenderAt(t, "failed", attempt[t]) /\ UNCHANGED loopVars))
  <2>1. t # Loop /\ t # Shutdown
    BY <1>3, TasksAssumption
  <2>2. PICK label \in {"startLock", "stopLock", "settling", "sending", "failed"}, try \in 0..2 :
            SenderAt(t, label, try)
    BY <1>3, EnsuredLabels DEF SenderReturns, TypeOK
  <2>3. label \in Labels /\ label \in AfterReturn
    BY DEF Labels, Finished, AfterReturn
  <2>4. UNCHANGED <<tries, delay>>
    BY <1>3 DEF SenderReturns, loopVars
  <2> QED BY <1>3, <2>1, <2>2, <2>3, <2>4, SenderAtEffect DEF TypeOK
<1>4. \/ t = Poll /\ PollReturns
      \/ t = Loop /\ LoopReturns
      \/ t \in Senders /\ (SenderReturns(t) \/ (SenderAt(t, "failed", attempt[t]) /\ UNCHANGED loopVars))
  BY DEF Return, Raise
<1> QED BY <1>1, <1>2, <1>3, <1>4

\* A client's report of a loss can only start the reconnect loop.
LEMMA NotifyEffect ==
    ASSUME TypeOK, NEW g, NEW base \in [Tasks -> Labels], Notify(g, base)
    PROVE  /\ \/ pc' = base
              \/ /\ pc' = [base EXCEPT ![Loop] = "sleeping"]
                 /\ pc[Loop] = "idle" /\ ~shuttingDown
           /\ pc' \in [Tasks -> Labels]
           /\ notified' \subseteq open'
           /\ tries' \in 0..MaxFailures /\ delay' \in Nat
<1>1. 1 \in 0..MaxFailures /\ RapidDropCooldown \in Nat /\ InitialBackoff \in Nat
  BY TimingAssumption
<1>2. Loop \in Tasks /\ "sleeping" \in Labels
  BY DEF Tasks, Labels
<1> QED BY <1>1, <1>2 DEF Notify, TypeOK, loopVars

\* A failed send moves its sender, and perhaps reports a loss.
LEMMA SendFailsEffect ==
    ASSUME NEW c \in Senders, SendFails(c)
    PROVE  \E label \in {"startLock", "stopLock", "settling", "sending", "failed"} :
            /\ attempt' = [attempt EXCEPT ![c] = 2]
            /\ using' = [using EXCEPT ![c] =
                   IF label \in {"settling", "sending"} THEN signalr ELSE NoClient]
            /\ usable' \subseteq usable
            /\ \/ Notify(using[c], [pc EXCEPT ![c] = label])
               \/ pc' = [pc EXCEPT ![c] = label] /\ UNCHANGED <<notified, loopVars>>
<1>1. PICK broken \in BOOLEAN :
        /\ usable' = IF broken \/ attempt[c] = 1 THEN usable \ {using[c]} ELSE usable
        /\ \E label \in IF attempt[c] = 1 THEN Ensured(signalr, usable') ELSE {"failed"} :
            /\ attempt' = [attempt EXCEPT ![c] = 2]
            /\ using' = [using EXCEPT ![c] =
                  IF label \in {"settling", "sending"} THEN signalr ELSE NoClient]
            /\ IF broken THEN Notify(using[c], [pc EXCEPT ![c] = label])
               ELSE pc' = [pc EXCEPT ![c] = label] /\ UNCHANGED <<notified, loopVars>>
  BY Zenon DEF SendFails
<1>2. PICK label \in IF attempt[c] = 1 THEN Ensured(signalr, usable') ELSE {"failed"} :
        /\ attempt' = [attempt EXCEPT ![c] = 2]
        /\ using' = [using EXCEPT ![c] =
              IF label \in {"settling", "sending"} THEN signalr ELSE NoClient]
        /\ IF broken THEN Notify(using[c], [pc EXCEPT ![c] = label])
           ELSE pc' = [pc EXCEPT ![c] = label] /\ UNCHANGED <<notified, loopVars>>
  BY <1>1
<1>3. label \in {"startLock", "stopLock", "settling", "sending", "failed"}
  BY <1>2, EnsuredLabels
<1> QED BY <1>1, <1>2, <1>3

-----------------------------------------------------------------------------
(***************************************************************************)
(* Type correctness.                                                       *)
(***************************************************************************)

\* The bounds are numbers.
LEMMA ConstantTypes ==
    /\ Poll \in Tasks /\ Loop \in Tasks /\ Shutdown \in Tasks /\ Senders \subseteq Tasks
    /\ Holding \subseteq Labels /\ Finished \subseteq Labels
    /\ {"idle", "startLock", "stopLock", "reauth", "rest", "keepalive", "sleeping",
        "settling", "sending", "quiescing", "down"} \subseteq Labels
    /\ NoClient \in Nat /\ InitialBackoff \in Nat /\ Unreachable \in Nat
    /\ UnreachablePolls \in 0..UnreachablePolls /\ 0 \in 0..UnreachablePolls
    /\ 0 \in 0..MaxFailures /\ MaxFaults \in Nat /\ 0 \in 0..MaxFaults
BY TimingAssumption DEF Tasks, Labels, NoClient

\* The entry starts with every variable in its type.
LEMMA TypeInit == Init => TypeOK
<1> SUFFICES ASSUME Init PROVE TypeOK
  OBVIOUS
<1>1. pc \in [Tasks -> Labels] /\ lock \in Tasks \cup {NoTask}
  BY ConstantTypes DEF Init
<1>2. attempt \in [Senders -> 0..2] /\ using \in [Senders \cup {Poll} -> Nat]
  BY ConstantTypes DEF Init
<1>3. signalr \in Nat /\ generation \in Nat /\ faults \in 0..MaxFaults
  BY ConstantTypes DEF Init
<1>4. /\ failures \in Nat /\ backoff \in Nat /\ since \in 0..UnreachablePolls
      /\ tries \in 0..MaxFailures /\ delay \in Nat
  BY ConstantTypes DEF Init
<1> QED BY <1>1, <1>2, <1>3, <1>4 DEF Init, TypeOK

\* The shared part of every step that lets Return, Raise or a label follow.
LEMMA TypeStep == TypeOK /\ [Next]_vars => TypeOK'
<1> SUFFICES ASSUME TypeOK, [Next]_vars PROVE TypeOK'
  OBVIOUS
<1> USE ConstantTypes
<1> USE DEF lockVars, clientVars, retryVars, loopVars, senderVars
<1>1. ASSUME NEW t \in Tasks, Starts(t) PROVE TypeOK'
  <2>1. CASE StartSkipped(t)
    <3>1. signalr' \in Nat /\ backoff' \in Nat /\ Return(t)
      BY <2>1 DEF StartSkipped, TypeOK
    <3> QED BY <2>1, <3>1, ReturnEffect DEF StartSkipped, TypeOK
  <2>2. CASE ReplaceStale(t)
    BY <2>2 DEF ReplaceStale, CancelLoop, TypeOK, Holding
  <2>3. CASE OpenGeneration(t)
    <3>1. pc' \in [Tasks -> Labels]
      BY <2>3 DEF OpenGeneration, TypeOK, Holding
    <3>2. signalr' \in Nat /\ generation' \in Nat /\ settle' \in {"new", "proven", "aged"}
      BY <2>3 DEF OpenGeneration, NewGeneration, TypeOK
    <3>3. lock' \in Tasks \cup {NoTask} /\ usable' \subseteq Nat /\ suppress' \in BOOLEAN
      BY <2>3 DEF OpenGeneration, TypeOK
    <3> QED BY <2>3, <3>1, <3>2, <3>3 DEF OpenGeneration, TypeOK
  <2>4. CASE ConnectOk(t)
    BY <2>4 DEF ConnectOk, TypeOK, Holding
  <2>5. CASE SubscribeOk(t)
    <3>1. signalr' \in Nat /\ backoff' \in Nat /\ Return(t)
      BY <2>5 DEF SubscribeOk, TypeOK
    <3> QED BY <2>5, <3>1, ReturnEffect DEF SubscribeOk, TypeOK
  <2>6. CASE SubscribeFails(t)
    BY <2>6 DEF SubscribeFails, Fault, TypeOK, Holding
  <2>7. CASE StartFails(t)
    <3>1. failures' \in Nat /\ backoff' \in Nat
      BY <2>7, TimingAssumption DEF StartFails, TypeOK, Smaller
    <3>2. signalr' \in Nat /\ (Return(t) \/ Raise(t))
      BY <2>7 DEF StartFails
    <3>3. faults' \in 0..MaxFaults
      BY <2>7, TimingAssumption DEF StartFails, Fault, TypeOK
    <3> QED BY <2>7, <3>1, <3>2, <3>3, ReturnEffect DEF StartFails, TypeOK
  <2> QED BY <1>1, <2>1, <2>2, <2>3, <2>4, <2>5, <2>6, <2>7 DEF Starts
<1>2. ASSUME NEW t \in Tasks, Stops(t) PROVE TypeOK'
  <2>0. AfterStop(t) \in Labels
    BY DEF AfterStop
  <2>1. CASE BeginStop(t)
    BY <2>0, <2>1 DEF BeginStop, CancelLoop, TypeOK, Holding
  <2>2. CASE FinishStop(t)
    BY <2>0, <2>2 DEF FinishStop, TypeOK
  <2>3. CASE ReauthDuringShutdown(t)
    <3>1. signalr' \in Nat /\ backoff' \in Nat /\ Return(t)
      BY <2>3 DEF ReauthDuringShutdown, TypeOK
    <3> QED BY <2>3, <3>1, ReturnEffect DEF ReauthDuringShutdown, TypeOK
  <2>4. CASE FinishReauth(t)
    BY <2>4 DEF FinishReauth, TypeOK
  <2> QED BY <1>2, <2>1, <2>2, <2>3, <2>4 DEF Stops
<1>3. CASE Polls
  <2>1. CASE PollBegins
    BY <2>1, TimingAssumption DEF PollBegins, TypeOK, Smaller
  <2>2. CASE PollRestFails
    BY <2>2 DEF PollRestFails, Fault, TypeOK
  <2>3. CASE PollKeepsAlive
    BY <2>3 DEF PollKeepsAlive, TypeOK
  <2>4. CASE PollWaits
    BY <2>4 DEF PollWaits, TypeOK
  <2>5. CASE PollReconnects
    BY <2>5 DEF PollReconnects, TypeOK
  <2>6. CASE KeepaliveEnds
    <3>1. [pc EXCEPT ![Poll] = "idle"] \in [Tasks -> Labels]
      BY DEF TypeOK
    <3>2. CASE pc' = [pc EXCEPT ![Poll] = "idle"] /\ UNCHANGED <<usable, notified, loopVars, faults>>
      BY <2>6, <3>1, <3>2 DEF KeepaliveEnds, TypeOK
    <3>3. CASE Fault /\ usable' = usable \ {using[Poll]}
               /\ Notify(using[Poll], [pc EXCEPT ![Poll] = "idle"])
      <4>1. faults' \in 0..MaxFaults
        BY <3>3 DEF Fault, TypeOK
      <4> QED BY <2>6, <3>1, <3>3, <4>1, NotifyEffect DEF KeepaliveEnds, TypeOK
    <3> QED BY <2>6, <3>2, <3>3 DEF KeepaliveEnds
  <2> QED BY <1>3, <2>1, <2>2, <2>3, <2>4, <2>5, <2>6 DEF Polls
<1>4. CASE LoopWakes
  BY <1>4 DEF LoopWakes, TypeOK
<1>5. ASSUME NEW c \in Senders, Sends(c) PROVE TypeOK'
  <2>1. CASE SettlingEnds(c)
    <3>1. signalr' \in Nat /\ attempt[c] \in 0..2
      BY <2>1 DEF SettlingEnds, TypeOK
    <3>2. PICK label \in {"sending", "failed"} : SenderAt(c, label, attempt[c])
      BY <2>1 DEF SettlingEnds
    <3> QED BY <2>1, <3>1, <3>2, SenderAtEffect DEF SettlingEnds, TypeOK, Finished
  <2>2. CASE SendOk(c)
    <3>1. signalr' \in Nat /\ attempt[c] \in 0..2
      BY <2>2 DEF SendOk, TypeOK
    <3>2. SenderAt(c, "delivered", attempt[c])
      BY <2>2 DEF SendOk
    <3> QED BY <2>2, <3>1, <3>2, SenderAtEffect DEF SendOk, TypeOK, Finished
  <2>3. CASE SendFails(c)
    <3>1. PICK label \in {"startLock", "stopLock", "settling", "sending", "failed"} :
            /\ attempt' = [attempt EXCEPT ![c] = 2]
            /\ using' = [using EXCEPT ![c] =
                   IF label \in {"settling", "sending"} THEN signalr ELSE NoClient]
            /\ usable' \subseteq usable
            /\ \/ Notify(using[c], [pc EXCEPT ![c] = label])
               \/ pc' = [pc EXCEPT ![c] = label] /\ UNCHANGED <<notified, loopVars>>
      BY <2>3, SendFailsEffect
    <3>2. [pc EXCEPT ![c] = label] \in [Tasks -> Labels]
      BY DEF TypeOK, Finished
    <3>3. faults' \in 0..MaxFaults
      BY <2>3 DEF SendFails, Fault, TypeOK
    <3>4. usable' \subseteq Nat /\ attempt' \in [Senders -> 0..2]
      BY <3>1 DEF TypeOK
    <3>7. using' \in [Senders \cup {Poll} -> Nat]
      BY <3>1 DEF TypeOK
    <3>5. open' = open
      BY <2>3 DEF SendFails
    <3>6. /\ pc' \in [Tasks -> Labels] /\ notified' \subseteq open'
          /\ tries' \in 0..MaxFailures /\ delay' \in Nat
      BY <3>1, <3>2, <3>5, NotifyEffect DEF TypeOK
    <3> QED BY <2>3, <3>3, <3>4, <3>6, <3>7 DEF SendFails, TypeOK
  <2> QED BY <1>5, <2>1, <2>2, <2>3 DEF Sends
<1>6. CASE BackgroundTasksDone
  BY <1>6 DEF BackgroundTasksDone, TypeOK
<1>7. ASSUME NEW c \in Senders, CommandBegins(c) \/ VerificationBegins(c) PROVE TypeOK'
  <2>1. PICK label \in {"startLock", "stopLock", "settling", "sending"}, try \in 0..2 :
            SenderAt(c, label, try)
    BY <1>7, EnsuredLabels DEF CommandBegins, VerificationBegins
  <2>2. signalr' \in Nat
    BY <1>7 DEF CommandBegins, VerificationBegins, TypeOK
  <2> QED BY <1>7, <2>1, <2>2, SenderAtEffect DEF CommandBegins, VerificationBegins, TypeOK
<1>8. CASE Network
  <2>1. ASSUME NEW g \in open, FrameArrives(g) PROVE TypeOK'
    BY <2>1 DEF FrameArrives, TypeOK
  <2>2. ASSUME NEW g \in open, ListenEnds(g) PROVE TypeOK'
    <3>1. pc \in [Tasks -> Labels] /\ Notify(g, pc)
      BY <2>2 DEF ListenEnds, TypeOK
    <3>2. faults' \in 0..MaxFaults
      BY <2>2 DEF ListenEnds, Fault, TypeOK
    <3> QED BY <2>2, <3>1, <3>2, NotifyEffect DEF ListenEnds, TypeOK
  <2>3. CASE SettleWindowPasses
    BY <2>3 DEF SettleWindowPasses, TypeOK
  <2> QED BY <1>8, <2>1, <2>2, <2>3 DEF Network
<1>9. CASE PrepareForShutdown
  <2>1. PICK surviving \in SUBSET {t \in {Loop} \cup Verifications : pc[t] \in Closing} :
          LET cancelled == ({Loop} \cup Verifications) \ surviving
              forgets == lock \in cancelled /\ pc[lock] \in {"replacing", "stopping"}
          IN  /\ pc' = [t \in Tasks |->
                          IF t = Shutdown THEN "quiescing"
                          ELSE IF t \notin cancelled \/ pc[t] \in Finished THEN pc[t]
                          ELSE IF t = Loop THEN "idle" ELSE "failed"]
              /\ lock' = IF lock \in cancelled THEN NoTask ELSE lock
              /\ signalr' = IF forgets THEN NoClient ELSE signalr
              /\ open' = IF forgets THEN open \ {signalr} ELSE open
              /\ usable' = IF forgets THEN usable \ {signalr} ELSE usable
              /\ notified' = notified \cap open'
              /\ IF Loop \in cancelled THEN tries' = 0 /\ delay' = InitialBackoff
                 ELSE UNCHANGED loopVars
    BY <1>9 DEF PrepareForShutdown
  <2>2. pc' \in [Tasks -> Labels]
    BY <2>1 DEF TypeOK, Finished
  <2>3. lock' \in Tasks \cup {NoTask} /\ signalr' \in Nat
    BY <2>1 DEF TypeOK
  <2>4. open' \subseteq Nat /\ usable' \subseteq Nat /\ notified' \subseteq open'
    BY <2>1 DEF TypeOK
  <2>5. tries' \in 0..MaxFailures /\ delay' \in Nat
    BY <2>1 DEF TypeOK
  <2> QED BY <1>9, <2>2, <2>3, <2>4, <2>5 DEF PrepareForShutdown, TypeOK
<1>10. CASE UNCHANGED vars
  BY <1>10 DEF vars, TypeOK
<1> QED
  BY <1>1, <1>2, <1>3, <1>4, <1>5, <1>6, <1>7, <1>8, <1>9, <1>10 DEF Next, Step

\* Every attribute of coordinator.py keeps to its values, for every set of
\* senders, every limit and every number of faults.
THEOREM TypeCorrect == Spec => []TypeOK
BY TypeInit, TypeStep, PTL DEF Spec

-----------------------------------------------------------------------------
(***************************************************************************)
(* The inductive invariant: how a step moves the lock and the labels.      *)
(***************************************************************************)

\* One task at most is inside the block, and only if it holds the lock.
LEMMA OneHolder ==
    ASSUME IInv, NEW t \in Tasks
    PROVE  /\ pc[t] \in Holding => lock = t /\ signalr = generation /\ signalr # NoClient
           /\ \A u \in Tasks : pc[t] \in Holding /\ pc[u] \in Holding => u = t
           /\ lock = NoTask => pc[t] \notin Holding
BY NoTaskAssumption DEF IInv, LockInv, HolderInv

\* A step outside the lock that opens and publishes nothing.
LEMMA StepOutsideTheLock ==
    ASSUME IInv, pc' \in [Tasks -> Labels], UNCHANGED <<lock, signalr, generation>>,
           \A t \in Tasks : pc'[t] = pc[t] \/ (pc[t] \notin Holding /\ pc'[t] \notin Holding),
           open' \subseteq open, usable' \subseteq usable
    PROVE  OneLiveSession' /\ LockInv' /\ HolderInv'
<1>1. OneLiveSession'
  BY DEF IInv, OneLiveSession
<1>2. LockInv'
  BY DEF IInv, LockInv
<1>3. HolderInv'
  BY DEF IInv, HolderInv, Holding
<1> QED BY <1>1, <1>2, <1>3

\* A step that takes the lock, or stays inside its block.
LEMMA StepHoldingTheLock ==
    ASSUME IInv, NEW t \in Tasks, pc' \in [Tasks -> Labels], lock' = t,
           lock = NoTask \/ pc[t] \in Holding, pc'[t] \in Holding,
           \A u \in Tasks \ {t} : pc'[u] = pc[u] \/ pc'[u] \notin Holding,
           signalr' = generation' /\ signalr' # NoClient,
           pc'[t] = "connecting" => open' = {} /\ usable' = {}
    PROVE  LockInv' /\ HolderInv'
<1>1. \A u \in Tasks \ {t} : pc'[u] \notin Holding
  BY OneHolder
<1> QED BY <1>1 DEF LockInv, HolderInv, Holding

\* A step that leaves the block.
LEMMA StepReleasingTheLock ==
    ASSUME IInv, NEW t \in Tasks, pc[t] \in Holding, lock' = NoTask,
           pc'[t] \notin Holding, \A u \in Tasks \ {t} : pc'[u] = pc[u]
    PROVE  LockInv' /\ HolderInv'
<1>1. \A u \in Tasks : pc'[u] \notin Holding
  BY OneHolder
<1> QED BY <1>1, NoTaskAssumption DEF LockInv, HolderInv, Holding

\* A step of another task than the shutdown's, which starts no loop after it.
LEMMA StepBesidesShutdown ==
    ASSUME IInv, UNCHANGED shuttingDown, pc'[Shutdown] = pc[Shutdown],
           suppress' = suppress \/ suppress' = TRUE \/ ~shuttingDown,
           \/ pc'[Loop] \in {pc[Loop], "idle"}
           \/ pc'[Loop] \in LoopLabels /\ (pc[Loop] # "idle" \/ ~shuttingDown),
           pc[Shutdown] = "down" => signalr' = NoClient /\ lock' = NoTask
    PROVE  UnloadInv' /\ LabelInv'
<1>1. LabelInv'
  BY DEF IInv, LabelInv, LoopLabels
<1>2. (shuttingDown <=> pc[Shutdown] # "idle")' /\ (shuttingDown => suppress)'
  BY DEF IInv, UnloadInv
<1>3. (pc[Shutdown] \in {"stopping", "down"} => pc[Loop] = "idle")'
  BY DEF IInv, UnloadInv
<1>4. (pc[Shutdown] = "down" => signalr = NoClient /\ lock = NoTask)'
  BY DEF IInv, UnloadInv
<1> QED BY <1>1, <1>2, <1>3, <1>4 DEF UnloadInv

\* The entry starts with no session and the lock free.
LEMMA IInvInit == Init => IInv
<1> SUFFICES ASSUME Init PROVE IInv
  OBVIOUS
<1>1. TypeOK
  BY TypeInit
<1>2. \A t \in Tasks : pc[t] = "idle"
  BY DEF Init
<1>3. OneLiveSession /\ LockInv /\ HolderInv
  BY <1>2, NoTaskAssumption DEF Init, OneLiveSession, LockInv, HolderInv, Holding
<1>4. LabelInv /\ UnloadInv
  BY <1>2, ConstantTypes DEF Init, LabelInv, UnloadInv, LoopLabels, ShutdownLabels
<1> QED BY <1>1, <1>3, <1>4 DEF IInv

\* start_signalr keeps the invariant at each of its awaits.
LEMMA StartsKeepIInv ==
    ASSUME IInv, TypeOK', NEW t \in Tasks, Starts(t)
    PROVE  OneLiveSession' /\ LockInv' /\ HolderInv' /\ LabelInv' /\ UnloadInv'
<1>0. /\ pc \in [Tasks -> Labels] /\ pc' \in [Tasks -> Labels]
      /\ Loop \in Tasks /\ Shutdown \in Tasks /\ Loop # Shutdown
      /\ pc[Loop] \in LoopLabels /\ pc[Shutdown] \in ShutdownLabels
  BY ConstantTypes DEF IInv, TypeOK, LabelInv, Loop, Shutdown
<1> USE DEF clientVars, lockVars
<1>1. CASE StartSkipped(t)
  <2>1. signalr' \in Nat /\ backoff' \in Nat /\ pc[t] = "startLock" /\ TypeOK /\ Return(t)
    BY <1>1 DEF StartSkipped, TypeOK, retryVars, IInv
  <2>2. PICK label \in AfterReturn : /\ pc' = [pc EXCEPT ![t] = label] /\ t # Shutdown
                                     /\ t = Loop => label \in {"idle", "sleeping"}
    BY <2>1, ReturnEffect
  <2>3. OneLiveSession' /\ LockInv' /\ HolderInv'
    <3>1. \A u \in Tasks : pc'[u] = pc[u] \/ (pc[u] \notin Holding /\ pc'[u] \notin Holding)
      BY <1>0, <2>1, <2>2 DEF Holding, AfterReturn
    <3> QED BY <1>0, <1>1, <3>1, StepOutsideTheLock DEF StartSkipped
  <2>4. UnloadInv' /\ LabelInv'
    <3>1. pc[Shutdown] = "down" => signalr' = NoClient /\ lock' = NoTask
      BY <1>1 DEF StartSkipped, IInv, UnloadInv
    <3>2. pc'[Shutdown] = pc[Shutdown] /\ (\/ pc'[Loop] = pc[Loop]
                                           \/ pc'[Loop] \in LoopLabels /\ pc[Loop] # "idle")
      BY <1>0, <2>1, <2>2 DEF LoopLabels
    <3>3. suppress' = suppress \/ ~shuttingDown
      BY <1>1 DEF StartSkipped
    <3> QED BY <1>1, <3>1, <3>2, <3>3, StepBesidesShutdown DEF StartSkipped
  <2> QED BY <2>3, <2>4
<1>2. CASE ReplaceStale(t)
  <2>1. /\ pc[t] = "startLock" /\ lock = NoTask /\ lock' = t /\ ~shuttingDown
        /\ pc' = [pc EXCEPT ![Loop] = "idle", ![t] = "replacing"]
        /\ UNCHANGED <<signalr, generation, open, usable, shuttingDown>>
        /\ signalr # NoClient /\ signalr = generation
        /\ pc[Shutdown] = "idle" /\ t # Shutdown
    BY <1>2 DEF ReplaceStale, CancelLoop, IInv, OneLiveSession, UnloadInv
  <2>2. pc'[t] = "replacing" /\ \A u \in Tasks \ {t} : pc'[u] = pc[u] \/ pc'[u] = "idle"
    BY <1>0, <2>1
  <2>3. OneLiveSession'
    BY <2>1 DEF IInv, OneLiveSession
  <2>4. LockInv' /\ HolderInv'
    BY <1>0, <2>1, <2>2, StepHoldingTheLock DEF Holding
  <2>5. UnloadInv' /\ LabelInv'
    <3>1. pc'[Shutdown] = pc[Shutdown] /\ pc'[Loop] \in LoopLabels
      BY <1>0, <2>1, <2>2 DEF LoopLabels, Holding
    <3> QED BY <2>1, <3>1, StepBesidesShutdown
  <2> QED BY <2>3, <2>4, <2>5
<1>3. CASE OpenGeneration(t)
  <2>1. /\ lock' = t /\ generation' = generation + 1 /\ signalr' = generation + 1
        /\ pc' = [pc EXCEPT ![t] = "connecting"]
        /\ UNCHANGED <<open, shuttingDown>> /\ usable' = usable \ {signalr}
    BY <1>3 DEF OpenGeneration, NewGeneration
  <2>2. /\ open' = {} /\ usable' = {}
        /\ generation' # NoClient
    BY <1>3, <2>1 DEF OpenGeneration, IInv, OneLiveSession, TypeOK, NoClient
  <2>3. lock = NoTask \/ pc[t] \in Holding
    BY <1>3 DEF OpenGeneration, Holding
  <2>4. OneLiveSession'
    BY <2>1, <2>2 DEF OneLiveSession
  <2>5. LockInv' /\ HolderInv'
    BY <1>0, <2>1, <2>2, <2>3, StepHoldingTheLock DEF Holding
  <2>6. UnloadInv' /\ LabelInv'
    <3>1. t # Shutdown /\ pc[Shutdown] # "down" /\ pc[t] # "idle"
          /\ (suppress' = suppress \/ ~shuttingDown)
      BY <1>0, <1>3, OneHolder, NoTaskAssumption
         DEF OpenGeneration, IInv, UnloadInv, ShutdownLabels, Holding
    <3>2. /\ pc'[Shutdown] = pc[Shutdown]
          /\ pc'[Loop] = pc[Loop] \/ (pc'[Loop] \in LoopLabels /\ pc[Loop] # "idle")
      BY <1>0, <2>1, <3>1 DEF LoopLabels, Holding
    <3> QED BY <2>1, <3>1, <3>2, StepBesidesShutdown
  <2> QED BY <2>4, <2>5, <2>6
<1>4. CASE ConnectOk(t)
  <2>1. /\ pc[t] = "connecting" /\ lock = t /\ signalr = generation /\ signalr # NoClient
        /\ open = {} /\ usable = {}
    BY <1>4, OneHolder DEF ConnectOk, IInv, HolderInv, Holding
  <2>2. /\ pc' = [pc EXCEPT ![t] = "subscribing"] /\ open' = {signalr} /\ usable' = {signalr}
        /\ UNCHANGED <<lock, signalr, generation, suppress, shuttingDown>>
    BY <1>4, <2>1 DEF ConnectOk
  <2>3. OneLiveSession'
    BY <2>1, <2>2 DEF OneLiveSession
  <2>4. LockInv' /\ HolderInv'
    BY <1>0, <2>1, <2>2, StepHoldingTheLock DEF Holding
  <2>5. UnloadInv' /\ LabelInv'
    <3>1. t # Shutdown /\ pc[Shutdown] # "down"
      BY <1>0, <2>1, NoTaskAssumption DEF IInv, UnloadInv, ShutdownLabels
    <3>2. /\ pc'[Shutdown] = pc[Shutdown]
          /\ pc'[Loop] = pc[Loop] \/ (pc'[Loop] \in LoopLabels /\ pc[Loop] # "idle")
      BY <1>0, <2>1, <2>2, <3>1 DEF LoopLabels, Holding
    <3> QED BY <2>2, <3>1, <3>2, StepBesidesShutdown
  <2> QED BY <2>3, <2>4, <2>5
<1>5. CASE SubscribeFails(t)
  <2>1. /\ pc[t] = "subscribing" /\ lock = t /\ signalr = generation /\ signalr # NoClient
    BY <1>5, OneHolder DEF SubscribeFails, Holding
  <2>2. /\ pc' = [pc EXCEPT ![t] = "failing"]
        /\ UNCHANGED <<lock, signalr, generation, open, usable, suppress, shuttingDown>>
    BY <1>5 DEF SubscribeFails
  <2>3. OneLiveSession'
    BY <2>2 DEF IInv, OneLiveSession
  <2>4. LockInv' /\ HolderInv'
    BY <1>0, <2>1, <2>2, StepHoldingTheLock DEF Holding
  <2>5. UnloadInv' /\ LabelInv'
    <3>1. t # Shutdown /\ pc[Shutdown] # "down"
      BY <1>0, <2>1, NoTaskAssumption DEF IInv, UnloadInv, ShutdownLabels
    <3>2. /\ pc'[Shutdown] = pc[Shutdown]
          /\ pc'[Loop] = pc[Loop] \/ (pc'[Loop] \in LoopLabels /\ pc[Loop] # "idle")
      BY <1>0, <2>1, <2>2, <3>1 DEF LoopLabels, Holding
    <3> QED BY <2>2, <3>1, <3>2, StepBesidesShutdown
  <2> QED BY <2>3, <2>4, <2>5
<1>6. CASE SubscribeOk(t) \/ StartFails(t)
  <2>1. /\ pc[t] \in {"connecting", "subscribing", "failing"} /\ lock = t
        /\ lock' = NoTask /\ TypeOK
        /\ UNCHANGED <<generation, open, suppress, shuttingDown>>
        /\ \/ UNCHANGED <<signalr, usable>>
           \/ signalr' = NoClient /\ usable' = usable \ {signalr} /\ open = {}
    BY <1>6, OneHolder DEF SubscribeOk, StartFails, IInv, Holding, HolderInv, OneLiveSession
  <2>2. PICK label \in AfterReturn : /\ pc' = [pc EXCEPT ![t] = label] /\ t # Shutdown
                                     /\ t = Loop => label \in {"idle", "sleeping"}
    <3>1. signalr' \in Nat /\ backoff' \in Nat /\ (Return(t) \/ Raise(t))
      BY <1>6 DEF SubscribeOk, StartFails, TypeOK
    <3> QED BY <2>1, <3>1, ReturnEffect
  <2>3. pc'[t] \notin Holding /\ \A u \in Tasks \ {t} : pc'[u] = pc[u]
    BY <1>0, <2>2 DEF AfterReturn, Holding
  <2>4. OneLiveSession'
    BY <2>1 DEF IInv, OneLiveSession
  <2>5. LockInv' /\ HolderInv'
    BY <2>1, <2>3, StepReleasingTheLock DEF Holding
  <2>6. UnloadInv' /\ LabelInv'
    <3>1. pc[Shutdown] # "down"
      BY <2>1, NoTaskAssumption DEF IInv, UnloadInv
    <3>2. /\ pc'[Shutdown] = pc[Shutdown]
          /\ pc'[Loop] = pc[Loop] \/ (pc'[Loop] \in LoopLabels /\ pc[Loop] # "idle")
      BY <1>0, <2>1, <2>2 DEF LoopLabels
    <3> QED BY <2>1, <3>1, <3>2, StepBesidesShutdown
  <2> QED BY <2>4, <2>5, <2>6
<1> QED BY <1>1, <1>2, <1>3, <1>4, <1>5, <1>6 DEF Starts

\* stop_signalr and force_reauth_and_reconnect keep the invariant.
LEMMA StopsKeepIInv ==
    ASSUME IInv, TypeOK', NEW t \in Tasks, Stops(t)
    PROVE  OneLiveSession' /\ LockInv' /\ HolderInv' /\ LabelInv' /\ UnloadInv'
<1>0. /\ pc \in [Tasks -> Labels] /\ pc' \in [Tasks -> Labels]
      /\ Loop \in Tasks /\ Shutdown \in Tasks /\ Loop # Shutdown
      /\ pc[Loop] \in LoopLabels /\ pc[Shutdown] \in ShutdownLabels
  BY ConstantTypes DEF IInv, TypeOK, LabelInv, Loop, Shutdown
<1> USE DEF clientVars, lockVars
<1>1. CASE BeginStop(t)
  <2>1. /\ pc[t] = "stopLock" /\ lock = NoTask /\ t # Loop
        /\ \A u \in Tasks : pc[u] \notin Holding
        /\ UNCHANGED <<signalr, generation, open, usable, shuttingDown>>
        /\ suppress' = TRUE
    BY <1>0, <1>1, OneHolder DEF BeginStop, LoopLabels, Holding
  <2>2. OneLiveSession'
    BY <2>1 DEF IInv, OneLiveSession
  <2>3. PICK label \in {"down", "reauth", "stopping"} :
          /\ pc' = [pc EXCEPT ![Loop] = "idle", ![t] = label]
          /\ label = "stopping" => lock' = t /\ signalr # NoClient
          /\ label # "stopping" => lock' = NoTask /\ signalr = NoClient
          /\ t = Shutdown => label # "reauth"
    <3>1. CASE signalr = NoClient
      BY <1>1, <2>1, <3>1 DEF BeginStop, CancelLoop, AfterStop
    <3>2. CASE signalr # NoClient
      <4>1. pc' = [pc EXCEPT ![Loop] = "idle", ![t] = "stopping"] /\ lock' = t
        BY <1>1, <3>2 DEF BeginStop, CancelLoop
      <4> QED BY <3>2, <4>1
    <3> QED BY <3>1, <3>2
  <2>4. pc'[t] = label /\ pc'[Loop] = "idle" /\ \A u \in Tasks \ {t, Loop} : pc'[u] = pc[u]
    BY <1>0, <2>1, <2>3
  <2>5. LockInv' /\ HolderInv'
    <3>1. CASE label = "stopping"
      <4>1. signalr' = generation' /\ signalr' # NoClient
        BY <2>1, <2>3, <3>1 DEF IInv, OneLiveSession
      <4>2. \A u \in Tasks \ {t} : pc'[u] = pc[u] \/ pc'[u] \notin Holding
        BY <2>4 DEF Holding
      <4> QED BY <1>0, <2>1, <2>3, <2>4, <3>1, <4>1, <4>2, StepHoldingTheLock DEF Holding
    <3>2. CASE label # "stopping"
      <4>1. \A u \in Tasks : pc'[u] \notin Holding
        BY <2>1, <2>3, <2>4, <3>2 DEF Holding
      <4>2. lock' = NoTask
        BY <2>3, <3>2
      <4> QED BY <4>1, <4>2, NoTaskAssumption DEF LockInv, HolderInv, Holding
    <3> QED BY <3>1, <3>2
  <2>6. LabelInv' /\ UnloadInv'
    <3>1. CASE t = Shutdown
      <4>1. shuttingDown
        BY <2>1, <3>1 DEF IInv, UnloadInv
      <4>2. pc'[Shutdown] \in {"down", "stopping"}
        BY <2>3, <2>4, <3>1
      <4>3. pc'[Shutdown] = "down" => signalr' = NoClient /\ lock' = NoTask
        BY <2>1, <2>3, <2>4, <3>1
      <4> QED BY <2>1, <2>4, <4>1, <4>2, <4>3
            DEF LabelInv, UnloadInv, LoopLabels, ShutdownLabels
    <3>2. CASE t # Shutdown
      <4>1. pc'[Shutdown] = pc[Shutdown]
        BY <1>0, <2>4, <3>2
      <4>2. pc[Shutdown] = "down" => signalr' = NoClient /\ lock' = NoTask
        BY <2>1, <2>3 DEF IInv, UnloadInv
      <4> QED BY <2>1, <2>4, <4>1, <4>2, StepBesidesShutdown
    <3> QED BY <3>1, <3>2
  <2> QED BY <2>2, <2>5, <2>6
<1>2. CASE FinishStop(t)
  <2>1. /\ pc[t] = "stopping" /\ lock = t /\ t # Loop /\ lock' = NoTask
        /\ signalr' = NoClient /\ usable' = usable \ {signalr} /\ signalr \notin open
        /\ UNCHANGED <<generation, open, suppress, shuttingDown>>
        /\ pc' = [pc EXCEPT ![t] = AfterStop(t)]
    BY <1>0, <1>2, OneHolder DEF FinishStop, LoopLabels, Holding
  <2>2. /\ pc'[t] = AfterStop(t) /\ pc'[Loop] = pc[Loop]
        /\ \A u \in Tasks \ {t} : pc'[u] = pc[u]
    BY <1>0, <2>1
  <2>3. OneLiveSession'
    BY <2>1 DEF IInv, OneLiveSession
  <2>4. LockInv' /\ HolderInv'
    BY <2>1, <2>2, StepReleasingTheLock DEF AfterStop, Holding
  <2>5. LabelInv' /\ UnloadInv'
    <3>1. CASE t = Shutdown
      BY <1>0, <2>1, <2>2, <3>1
         DEF IInv, LabelInv, UnloadInv, ShutdownLabels, AfterStop
    <3>2. CASE t # Shutdown
      <4>1. pc'[Shutdown] = pc[Shutdown]
        BY <1>0, <2>2, <3>2
      <4> QED BY <2>1, <2>2, <4>1, StepBesidesShutdown
    <3> QED BY <3>1, <3>2
  <2> QED BY <2>3, <2>4, <2>5
<1>3. CASE ReauthDuringShutdown(t) \/ FinishReauth(t)
  <2>1. /\ pc[t] = "reauth" /\ t # Loop /\ t # Shutdown
        /\ UNCHANGED <<lock, signalr, generation, open, usable, shuttingDown>>
        /\ suppress' = suppress \/ ~shuttingDown
    BY <1>0, <1>3 DEF ReauthDuringShutdown, FinishReauth, LoopLabels, ShutdownLabels, Holding
  <2>2. PICK label \in AfterReturn : pc' = [pc EXCEPT ![t] = label]
    <3>1. CASE ReauthDuringShutdown(t)
      <4>1. signalr' \in Nat /\ backoff' \in Nat /\ TypeOK /\ Return(t)
        BY <3>1 DEF ReauthDuringShutdown, TypeOK, retryVars, IInv
      <4> QED BY <4>1, ReturnEffect
    <3>2. CASE FinishReauth(t)
      BY <3>2 DEF FinishReauth, AfterReturn
    <3> QED BY <1>3, <3>1, <3>2
  <2>3. \A u \in Tasks : pc'[u] = pc[u] \/ (pc[u] \notin Holding /\ pc'[u] \notin Holding)
    BY <1>0, <2>1, <2>2 DEF Holding, AfterReturn
  <2>4. OneLiveSession' /\ LockInv' /\ HolderInv'
    BY <1>0, <2>1, <2>3, StepOutsideTheLock
  <2>5. LabelInv' /\ UnloadInv'
    <3>1. pc'[Shutdown] = pc[Shutdown] /\ pc'[Loop] = pc[Loop]
      BY <1>0, <2>1, <2>2
    <3>2. pc[Shutdown] = "down" => signalr' = NoClient /\ lock' = NoTask
      BY <2>1 DEF IInv, UnloadInv
    <3> QED BY <2>1, <3>1, <3>2, StepBesidesShutdown
  <2> QED BY <2>4, <2>5
<1> QED BY <1>1, <1>2, <1>3 DEF Stops

\* Cancelling the loop and the tracked tasks keeps the invariant.
LEMMA PrepareForShutdownKeepsIInv ==
    ASSUME IInv, TypeOK', PrepareForShutdown
    PROVE  OneLiveSession' /\ LockInv' /\ HolderInv' /\ LabelInv' /\ UnloadInv'
<1>0. /\ Loop \in Tasks /\ Shutdown \in Tasks /\ Loop # Shutdown
      /\ pc[Loop] \in LoopLabels /\ Verifications \subseteq Tasks
      /\ Shutdown \notin Verifications
  BY ConstantTypes, TasksAssumption DEF IInv, LabelInv, Loop, Shutdown, Senders
<1>1. /\ pc[Shutdown] = "idle" /\ shuttingDown' = TRUE /\ suppress' = TRUE
      /\ UNCHANGED generation
  BY DEF PrepareForShutdown
<1>2. PICK surviving \in SUBSET {t \in {Loop} \cup Verifications : pc[t] \in Closing} :
        LET cancelled == ({Loop} \cup Verifications) \ surviving
            forgets == lock \in cancelled /\ pc[lock] \in {"replacing", "stopping"}
        IN  /\ pc' = [t \in Tasks |->
                        IF t = Shutdown THEN "quiescing"
                        ELSE IF t \notin cancelled \/ pc[t] \in Finished THEN pc[t]
                        ELSE IF t = Loop THEN "idle" ELSE "failed"]
            /\ lock' = IF lock \in cancelled THEN NoTask ELSE lock
            /\ signalr' = IF forgets THEN NoClient ELSE signalr
            /\ open' = IF forgets THEN open \ {signalr} ELSE open
            /\ usable' = IF forgets THEN usable \ {signalr} ELSE usable
  BY DEF PrepareForShutdown
<1> DEFINE cancelled == ({Loop} \cup Verifications) \ surviving
<1>3. /\ pc'[Shutdown] = "quiescing"
      /\ \A t \in Tasks \ {Shutdown} :
            \/ pc'[t] = pc[t] /\ (t \notin cancelled \/ pc[t] \notin Holding)
            \/ t \in cancelled /\ pc'[t] \in {"idle", "failed"}
      /\ pc'[Loop] = pc[Loop] \/ pc'[Loop] = "idle"
  BY <1>0, <1>2 DEF Holding, Finished, LoopLabels
<1>4. OneLiveSession'
  BY <1>1, <1>2 DEF IInv, OneLiveSession
<1>5. Shutdown # lock /\ Shutdown \notin cancelled
  <2>1. pc[Shutdown] \notin Holding
    BY <1>1 DEF Holding
  <2> QED BY <1>0, <2>1 DEF IInv, LockInv
<1>6. LockInv'
  <2> SUFFICES ASSUME NEW t \in Tasks PROVE pc'[t] \in Holding <=> lock' = t
    BY DEF LockInv
  <2>1. CASE t = Shutdown
    BY <1>2, <1>3, <1>5, <2>1, NoTaskAssumption DEF Holding
  <2>2. CASE t # Shutdown /\ t \in cancelled
    <3>1. pc'[t] \notin Holding
      BY <1>3, <2>2 DEF Holding
    <3> QED BY <1>2, <2>2, <3>1, NoTaskAssumption
  <2>3. CASE t # Shutdown /\ t \notin cancelled
    <3>1. pc'[t] = pc[t]
      BY <1>3, <2>3
    <3>2. lock' = t <=> lock = t
      BY <1>2, <2>3, NoTaskAssumption
    <3> QED BY <3>1, <3>2 DEF IInv, LockInv
  <2> QED BY <2>1, <2>2, <2>3
<1>7. HolderInv'
  <2> SUFFICES ASSUME NEW t \in Tasks, pc'[t] \in Holding
               PROVE  /\ signalr' = generation' /\ signalr' # NoClient
                      /\ pc'[t] = "connecting" => open' = {} /\ usable' = {}
    BY DEF HolderInv, Holding
  <2>1. t \notin cancelled /\ pc'[t] = pc[t]
    BY <1>3 DEF Holding
  <2>2. lock = t /\ signalr = generation /\ signalr # NoClient
    BY <2>1, OneHolder
  <2>3. UNCHANGED <<signalr, open, usable>>
    BY <1>2, <2>1, <2>2
  <2> QED BY <1>1, <2>1, <2>2, <2>3 DEF IInv, HolderInv
<1>8. LabelInv' /\ UnloadInv'
  BY <1>0, <1>1, <1>3 DEF LabelInv, UnloadInv, LoopLabels, ShutdownLabels
<1> QED BY <1>4, <1>6, <1>7, <1>8

\* The other actions move tasks outside the lock, and close what is open.
LEMMA OtherStepsEffect ==
    ASSUME IInv, TypeOK',
           \/ Polls \/ LoopWakes \/ BackgroundTasksDone \/ Network
           \/ \E c \in Senders : Sends(c) \/ CommandBegins(c) \/ VerificationBegins(c)
    PROVE  /\ UNCHANGED <<lock, signalr, generation, suppress, shuttingDown>>
           /\ open' \subseteq open /\ usable' \subseteq usable
           /\ \A u \in Tasks : \/ pc'[u] = pc[u]
                               \/ pc[u] \notin Holding /\ pc'[u] \notin Holding
           /\ \/ pc'[Shutdown] = pc[Shutdown]
              \/ pc[Shutdown] = "quiescing" /\ pc'[Shutdown] = "stopLock"
           /\ \/ pc'[Loop] = pc[Loop]
              \/ pc'[Loop] \in LoopLabels /\ (pc[Loop] # "idle" \/ ~shuttingDown)
<1>0. /\ pc \in [Tasks -> Labels] /\ pc' \in [Tasks -> Labels] /\ TypeOK
      /\ Poll \in Tasks /\ Loop \in Tasks /\ Shutdown \in Tasks /\ Senders \subseteq Tasks
      /\ Loop # Shutdown /\ Poll # Loop /\ Poll # Shutdown
      /\ Loop \notin Senders /\ Shutdown \notin Senders
      /\ pc[Loop] \in LoopLabels /\ pc[Shutdown] \in ShutdownLabels
  BY ConstantTypes, TasksAssumption DEF IInv, TypeOK, LabelInv, Poll, Loop, Shutdown
<1> USE DEF clientVars, lockVars, Holding
\* How such a step moves one task t, and perhaps starts the loop.
<1> DEFINE Moves(t, label) ==
              /\ pc[t] \notin Holding
              /\ label \notin Holding
              /\ \/ pc' = [pc EXCEPT ![t] = label]
                 \/ /\ pc' = [[pc EXCEPT ![t] = label] EXCEPT ![Loop] = "sleeping"]
                    /\ pc[Loop] = "idle" /\ ~shuttingDown
           Quiet == /\ UNCHANGED <<lock, signalr, generation, suppress, shuttingDown>>
                    /\ open' \subseteq open /\ usable' \subseteq usable
           Outside == /\ \A u \in Tasks : \/ pc'[u] = pc[u]
                                          \/ pc[u] \notin Holding /\ pc'[u] \notin Holding
                      /\ \/ pc'[Shutdown] = pc[Shutdown]
                         \/ pc[Shutdown] = "quiescing" /\ pc'[Shutdown] = "stopLock"
                      /\ \/ pc'[Loop] = pc[Loop]
                         \/ pc'[Loop] \in LoopLabels /\ (pc[Loop] # "idle" \/ ~shuttingDown)
<1>1. ASSUME NEW t \in Tasks \ {Loop, Shutdown}, NEW label \in Labels, Moves(t, label)
      PROVE  Outside
  BY <1>0, <1>1 DEF LoopLabels
<1>2. CASE Polls
  <2>1. CASE KeepaliveEnds
    <3>1. Quiet
      BY <2>1 DEF KeepaliveEnds
    <3>2. [pc EXCEPT ![Poll] = "idle"] \in [Tasks -> Labels]
      BY <1>0, ConstantTypes
    <3>3. Moves(Poll, "idle")
      BY <1>0, <2>1, <3>2, NotifyEffect DEF KeepaliveEnds
    <3> QED BY <1>0, <1>1, <3>1, <3>3, ConstantTypes
  <2>2. CASE PollBegins \/ PollRestFails \/ PollKeepsAlive \/ PollWaits \/ PollReconnects
    <3>1. Quiet
      BY <2>2 DEF PollBegins, PollRestFails, PollKeepsAlive, PollWaits, PollReconnects
    <3>2. PICK label \in {"rest", "idle", "keepalive", "startLock", "stopLock"} :
              /\ pc' = [pc EXCEPT ![Poll] = label]
              /\ pc[Poll] \in {"idle", "rest"}
      BY <2>2 DEF PollBegins, PollRestFails, PollKeepsAlive, PollWaits, PollReconnects
    <3>3. Moves(Poll, label)
      BY <1>0, <3>2
    <3> QED BY <1>0, <1>1, <3>1, <3>3, ConstantTypes
  <2> QED BY <1>2, <2>1, <2>2 DEF Polls
<1>3. CASE LoopWakes
  <2>1. Quiet /\ pc[Loop] = "sleeping"
    BY <1>3 DEF LoopWakes
  <2>2. PICK label \in {"idle", "startLock"} : pc' = [pc EXCEPT ![Loop] = label]
    BY <1>3 DEF LoopWakes
  <2>3. Outside
    BY <1>0, <2>1, <2>2 DEF LoopLabels
  <2> QED BY <2>1, <2>3
<1>4. CASE BackgroundTasksDone
  <2>1. Quiet /\ pc[Shutdown] = "quiescing" /\ pc' = [pc EXCEPT ![Shutdown] = "stopLock"]
    BY <1>4 DEF BackgroundTasksDone
  <2>2. Outside
    BY <1>0, <2>1
  <2> QED BY <2>1, <2>2
<1>5. CASE Network
  <2>1. CASE SettleWindowPasses \/ \E g \in open : FrameArrives(g)
    BY <2>1 DEF SettleWindowPasses, FrameArrives
  <2>2. ASSUME NEW g \in open, ListenEnds(g)
        PROVE  Quiet /\ Outside
    <3>1. \/ pc' = pc
          \/ pc' = [pc EXCEPT ![Loop] = "sleeping"] /\ pc[Loop] = "idle" /\ ~shuttingDown
      BY <1>0, <2>2, NotifyEffect DEF ListenEnds
    <3>2. Outside
      BY <1>0, <3>1 DEF LoopLabels
    <3> QED BY <2>2, <3>2 DEF ListenEnds
  <2> QED BY <1>5, <2>1, <2>2 DEF Network
<1>6. ASSUME NEW c \in Senders, Sends(c) \/ CommandBegins(c) \/ VerificationBegins(c)
      PROVE  Quiet /\ Outside
  <2>0. c \in Tasks \ {Loop, Shutdown}
    BY <1>0
  <2>1. Quiet
    <3>1. CASE SendFails(c)
      BY <3>1, SendFailsEffect DEF SendFails
    <3> QED BY <1>6, <3>1 DEF Sends, SettlingEnds, SendOk, CommandBegins, VerificationBegins
  <2>2. PICK label \in Labels : Moves(c, label)
    <3>1. CASE SendFails(c)
      <4>1. pc[c] = "sending"
        BY <3>1 DEF SendFails
      <4>2. PICK label \in {"startLock", "stopLock", "settling", "sending", "failed"} :
                \/ Notify(using[c], [pc EXCEPT ![c] = label])
                \/ pc' = [pc EXCEPT ![c] = label]
        BY <3>1, SendFailsEffect
      <4>3. label \in Labels /\ [pc EXCEPT ![c] = label] \in [Tasks -> Labels]
        BY <1>0, ConstantTypes DEF Finished
      <4>4. Moves(c, label)
        BY <1>0, <4>1, <4>2, <4>3, NotifyEffect
      <4> QED BY <4>3, <4>4
    <3>2. CASE ~SendFails(c)
      <4>1. /\ pc[c] \in {"idle", "settling", "sending"}
            /\ \E label \in {"startLock", "stopLock", "settling", "sending", "delivered", "failed"},
                  try \in 0..2 : SenderAt(c, label, try)
        <5>1. CASE SettlingEnds(c)
          BY <1>0, <5>1 DEF SettlingEnds, TypeOK
        <5>2. CASE SendOk(c)
          BY <1>0, <5>2 DEF SendOk, TypeOK
        <5>3. CASE CommandBegins(c)
          BY <5>3, EnsuredLabels DEF CommandBegins
        <5>4. CASE VerificationBegins(c)
          BY <5>4 DEF VerificationBegins
        <5> QED BY <1>6, <3>2, <5>1, <5>2, <5>3, <5>4 DEF Sends
      <4>2. PICK label \in {"startLock", "stopLock", "settling", "sending", "delivered", "failed"} :
                pc' = [pc EXCEPT ![c] = label]
        BY <4>1 DEF SenderAt
      <4>3. label \in Labels
        BY ConstantTypes DEF Finished
      <4>4. Moves(c, label)
        BY <1>0, <4>1, <4>2
      <4> QED BY <4>3, <4>4
    <3> QED BY <3>1, <3>2
  <2> QED BY <1>1, <2>0, <2>1, <2>2
<1> QED BY <1>2, <1>3, <1>4, <1>5, <1>6

\* The steps outside the start, stop and retry of a session keep the invariant.
LEMMA OtherStepsKeepIInv ==
    ASSUME IInv, TypeOK',
           \/ Polls \/ LoopWakes \/ BackgroundTasksDone \/ Network
           \/ \E c \in Senders : Sends(c) \/ CommandBegins(c) \/ VerificationBegins(c)
    PROVE  OneLiveSession' /\ LockInv' /\ HolderInv' /\ LabelInv' /\ UnloadInv'
<1>1. OneLiveSession' /\ LockInv' /\ HolderInv'
  BY OtherStepsEffect, StepOutsideTheLock DEF TypeOK
<1>2. pc[Shutdown] = "down" => signalr' = NoClient /\ lock' = NoTask
  BY OtherStepsEffect DEF IInv, UnloadInv
<1>3. CASE pc'[Shutdown] = pc[Shutdown]
  BY <1>1, <1>2, <1>3, OtherStepsEffect, StepBesidesShutdown
<1>4. CASE pc[Shutdown] = "quiescing" /\ pc'[Shutdown] = "stopLock"
  <2>1. LabelInv'
    BY <1>4, OtherStepsEffect DEF IInv, LabelInv, ShutdownLabels
  <2>2. UnloadInv'
    BY <1>4, OtherStepsEffect DEF IInv, UnloadInv
  <2> QED BY <1>1, <2>1, <2>2
<1> QED BY <1>3, <1>4, OtherStepsEffect

\* Every step keeps the invariant: one case per group of actions.
LEMMA IInvStep == IInv /\ [Next]_vars => IInv'
<1> SUFFICES ASSUME IInv, [Next]_vars PROVE IInv'
  OBVIOUS
<1>1. TypeOK'
  BY TypeStep DEF IInv
<1>2. CASE UNCHANGED vars
  <2>1. UNCHANGED <<pc, lock, signalr, generation, open, usable, suppress, shuttingDown>>
    BY <1>2 DEF vars, lockVars, clientVars
  <2> QED BY <1>1, <2>1 DEF IInv, OneLiveSession, LockInv, HolderInv, LabelInv, UnloadInv
<1>3. CASE \E t \in Tasks : Starts(t)
  BY <1>1, <1>3, StartsKeepIInv DEF IInv
<1>4. CASE \E t \in Tasks : Stops(t)
  BY <1>1, <1>4, StopsKeepIInv DEF IInv
<1>5. CASE PrepareForShutdown
  BY <1>1, <1>5, PrepareForShutdownKeepsIInv DEF IInv
<1>6. CASE \/ Polls \/ LoopWakes \/ BackgroundTasksDone \/ Network
           \/ \E c \in Senders : Sends(c) \/ CommandBegins(c) \/ VerificationBegins(c)
  BY <1>1, <1>6, OtherStepsKeepIInv DEF IInv
<1> QED
  BY <1>2, <1>3, <1>4, <1>5, <1>6 DEF Next, Step

\* The invariant holds in every reachable state.
THEOREM IInvAlways == Spec => []IInv
BY IInvInit, IInvStep, PTL DEF Spec

\* For every set of senders and however starts, replacements, stops, losses
\* and cancellations interleave, no second session exists next to the
\* published client of the latest generation.
THEOREM OneSessionAtATime == Spec => []OneLiveSession
<1>1. IInv => OneLiveSession
  BY DEF IInv
<1> QED BY <1>1, IInvAlways, PTL

\* Once async_prepare_for_shutdown has returned nothing is left of the
\* session, and nothing in flight revives it.
THEOREM UnloadLeavesNothing == Spec => []ShutdownIsFinal
<1>1. IInv => ShutdownIsFinal
  <2> SUFFICES ASSUME IInv, pc[Shutdown] = "down"
               PROVE  /\ signalr = NoClient /\ open = {} /\ lock = NoTask
                      /\ pc[Loop] = "idle"
                      /\ \A t \in Tasks : pc[t] \notin Holding
    BY DEF ShutdownIsFinal
  <2>1. signalr = NoClient /\ lock = NoTask /\ pc[Loop] = "idle"
    BY DEF IInv, UnloadInv
  <2>2. open = {}
    BY <2>1 DEF IInv, OneLiveSession
  <2> QED BY <2>1, <2>2, OneHolder
<1> QED BY <1>1, IInvAlways, PTL

-----------------------------------------------------------------------------
(***************************************************************************)
(* What a command is handed to.                                            *)
(***************************************************************************)
Hands(c) == pc'[c] = "sending" /\ (pc[c] # "sending" \/ attempt'[c] # attempt[c])

HandedWell(c) ==
    Hands(c) => /\ using'[c] = signalr' /\ using'[c] \in usable'
                /\ pc[c] = "settling" => using[c] = signalr

\* A sender that starts to send holds the published client, so that it only
\* has to be connected.
LEMMA SendingHoldsTheClient ==
    ASSUME TypeOK, NEW t \in Senders, NEW label, NEW try, SenderAt(t, label, try),
           label = "sending" => Connected(signalr', usable') /\ (pc[t] = "settling" => using[t] = signalr)
    PROVE  \A c \in Senders : HandedWell(c)
<1>1. pc' = [pc EXCEPT ![t] = label] /\ attempt' = [attempt EXCEPT ![t] = try]
  BY DEF SenderAt
<1>2. using'[t] = IF label \in {"settling", "sending"} THEN signalr' ELSE NoClient
  BY DEF SenderAt, TypeOK
<1>3. ASSUME NEW c \in Senders \ {t} PROVE ~Hands(c)
  BY <1>1 DEF Hands, TypeOK, Tasks
<1>4. pc'[t] = label
  BY <1>1 DEF TypeOK, Tasks
<1>5. HandedWell(t)
  BY <1>2, <1>4 DEF HandedWell, Hands, Connected
<1> QED  BY <1>3, <1>5 DEF HandedWell

\* Where the sender's attempts stay and only labels other than "sending" are
\* given out, nothing is handed over.
LEMMA NothingHanded ==
    ASSUME UNCHANGED attempt, \A c \in Senders : pc'[c] \in {pc[c]} \cup (Labels \ {"sending"})
    PROVE  \A c \in Senders : HandedWell(c)
BY DEF HandedWell, Hands

\* One task is moved to another label than "sending".
LEMMA MovedElsewhere ==
    ASSUME TypeOK, UNCHANGED attempt, NEW t \in Tasks, NEW label \in Labels \ {"sending"},
           pc' = [pc EXCEPT ![t] = label] \/ pc' = [pc EXCEPT ![Loop] = "idle", ![t] = label]
    PROVE  \A c \in Senders : HandedWell(c)
<1>1. Loop \notin Senders /\ "idle" \in Labels /\ Senders \subseteq Tasks
  BY TasksAssumption, ConstantTypes
<1>2. ASSUME NEW c \in Senders PROVE pc'[c] \in {pc[c]} \cup (Labels \ {"sending"})
  BY <1>1 DEF TypeOK
<1> QED  BY <1>2, NothingHanded

\* A lost connection moves no sender but the one that noticed it.
LEMMA NotifyMovesNoSender ==
    ASSUME TypeOK, NEW g, NEW base, Notify(g, base), DOMAIN base = Tasks
    PROVE  \A c \in Senders : pc'[c] = base[c]
<1>1. Loop \notin Senders /\ Senders \subseteq Tasks
  BY TasksAssumption, ConstantTypes
<1> QED  BY <1>1 DEF Notify

\* Where start_signalr and the forced re-authentication return to.
LEMMA ReturnHandsWell ==
    ASSUME TypeOK, NEW t \in Tasks, pc[t] # "settling", Return(t) \/ Raise(t)
    PROVE  \A c \in Senders : HandedWell(c)
<1>0. {"idle", "sleeping"} \subseteq Labels \ {"sending"} /\ Loop \in Tasks /\ Poll \in Tasks
  BY ConstantTypes
<1>1. CASE PollReturns
  BY <1>0, <1>1, MovedElsewhere DEF PollReturns, senderVars
<1>2. CASE LoopReturns
  BY <1>0, <1>2, MovedElsewhere DEF LoopReturns, senderVars
<1>3. CASE t \in Senders /\ SenderReturns(t)
  <2>1. CASE \E label \in Ensured(signalr', usable') : SenderAt(t, label, 1)
    <3>1. PICK label \in Ensured(signalr', usable') : SenderAt(t, label, 1)
      BY <2>1
    <3>2. label = "sending" => Connected(signalr', usable')
      BY <3>1 DEF Ensured
    <3> QED  BY <1>3, <3>1, <3>2, SendingHoldsTheClient
  <2>2. CASE SenderAt(t, IF ~Connected(signalr', usable') THEN "failed"
                         ELSE IF Settled THEN "sending" ELSE "settling", attempt[t])
    BY <1>3, <2>2, SendingHoldsTheClient
  <2> QED  BY <1>3, <2>1, <2>2 DEF SenderReturns
<1>4. CASE t \in Senders /\ SenderAt(t, "failed", attempt[t])
  BY <1>4, SendingHoldsTheClient
<1> QED  BY <1>1, <1>2, <1>3, <1>4 DEF Return, Raise

\* The steps of start_signalr.
LEMMA StartsHandWell ==
    ASSUME TypeOK, NEW t \in Tasks, Starts(t) PROVE \A c \in Senders : HandedWell(c)
<1>0. {"replacing", "connecting", "subscribing", "failing"} \subseteq Labels \ {"sending"}
  BY DEF Labels, Holding
<1>1. CASE StartSkipped(t)
  BY <1>1, ReturnHandsWell DEF StartSkipped
<1>2. CASE ReplaceStale(t)
  BY <1>0, <1>2, MovedElsewhere DEF ReplaceStale, CancelLoop, senderVars
<1>3. CASE OpenGeneration(t)
  BY <1>0, <1>3, MovedElsewhere DEF OpenGeneration, senderVars
<1>4. CASE ConnectOk(t)
  BY <1>0, <1>4, MovedElsewhere DEF ConnectOk
<1>5. CASE SubscribeOk(t)
  BY <1>5, ReturnHandsWell DEF SubscribeOk
<1>6. CASE SubscribeFails(t)
  BY <1>0, <1>6, MovedElsewhere DEF SubscribeFails, senderVars
<1>7. CASE StartFails(t)
  BY <1>7, ReturnHandsWell DEF StartFails
<1> QED  BY <1>1, <1>2, <1>3, <1>4, <1>5, <1>6, <1>7 DEF Starts

\* The steps of stop_signalr and of the rest of force_reauth_and_reconnect.
LEMMA StopsHandWell ==
    ASSUME TypeOK, NEW t \in Tasks, Stops(t) PROVE \A c \in Senders : HandedWell(c)
<1>0. {"stopping", "startLock", AfterStop(t)} \subseteq Labels \ {"sending"}
  BY DEF Labels, Holding, AfterStop
<1>1. CASE BeginStop(t)
  BY <1>0, <1>1, MovedElsewhere DEF BeginStop, CancelLoop, senderVars
<1>2. CASE FinishStop(t)
  BY <1>0, <1>2, MovedElsewhere DEF FinishStop, senderVars
<1>3. CASE ReauthDuringShutdown(t)
  BY <1>3, ReturnHandsWell DEF ReauthDuringShutdown
<1>4. CASE FinishReauth(t)
  BY <1>0, <1>4, MovedElsewhere DEF FinishReauth
<1> QED  BY <1>1, <1>2, <1>3, <1>4 DEF Stops

\* The poll hands nothing over.
LEMMA PollsHandWell ==
    ASSUME TypeOK, Polls PROVE \A c \in Senders : HandedWell(c)
<1>0. /\ {"idle", "rest", "keepalive", "startLock", "stopLock"} \subseteq Labels \ {"sending"}
      /\ Poll \in Tasks
  BY ConstantTypes
<1>1. CASE PollBegins \/ PollRestFails \/ PollKeepsAlive \/ PollWaits \/ PollReconnects
  <2>1. PICK label \in Labels \ {"sending"} : pc' = [pc EXCEPT ![Poll] = label]
    BY <1>0, <1>1 DEF PollBegins, PollRestFails, PollKeepsAlive, PollWaits, PollReconnects
  <2>2. UNCHANGED attempt
    BY <1>1 DEF PollBegins, PollRestFails, PollKeepsAlive, PollWaits, PollReconnects, senderVars
  <2> QED  BY <1>0, <2>1, <2>2, MovedElsewhere
<1>2. CASE KeepaliveEnds
  <2> DEFINE base == [pc EXCEPT ![Poll] = "idle"]
  <2>1. UNCHANGED attempt
    BY <1>2 DEF KeepaliveEnds
  <2>2. CASE pc' = base
    BY <1>0, <2>1, <2>2, MovedElsewhere
  <2>3. CASE Notify(using[Poll], base)
    <3>1. \A c \in Senders : pc'[c] = base[c]
      BY <2>3, NotifyMovesNoSender DEF TypeOK
    <3>2. Poll \notin Senders /\ Senders \subseteq Tasks
      BY TasksAssumption, ConstantTypes
    <3>3. \A c \in Senders : pc'[c] = pc[c]
      BY <3>1, <3>2 DEF TypeOK
    <3> QED  BY <2>1, <3>3, NothingHanded
  <2> QED  BY <1>2, <2>2, <2>3 DEF KeepaliveEnds
<1> QED  BY <1>1, <1>2 DEF Polls

\* The steps of _try_cloud_send hand the command to the client they looked at.
LEMMA SendsHandWell ==
    ASSUME IInv, NEW t \in Senders, Sends(t) PROVE \A c \in Senders : HandedWell(c)
<1>0. TypeOK /\ NoClient \notin usable
  BY DEF IInv, OneLiveSession
<1>1. CASE SettlingEnds(t)
  <2>1. UNCHANGED <<signalr, usable>>
    BY <1>1 DEF SettlingEnds, lockVars, clientVars
  <2>2. signalr = using[t] /\ signalr \in usable => Connected(signalr', usable')
    BY <1>0, <1>1, <2>1 DEF SettlingEnds, Connected
  <2> QED  BY <1>0, <1>1, <2>1, <2>2, SendingHoldsTheClient DEF SettlingEnds
<1>2. CASE SendOk(t)
  BY <1>0, <1>2, SendingHoldsTheClient DEF SendOk
<1>3. CASE SendFails(t)
  <2>1. PICK broken \in BOOLEAN :
            \E label \in IF attempt[t] = 1 THEN Ensured(signalr, usable') ELSE {"failed"} :
                /\ attempt' = [attempt EXCEPT ![t] = 2]
                /\ using' = [using EXCEPT ![t] =
                        IF label \in {"settling", "sending"} THEN signalr ELSE NoClient]
                /\ LET base == [pc EXCEPT ![t] = label]
                   IN  IF broken THEN Notify(using[t], base)
                       ELSE pc' = base /\ UNCHANGED <<notified, loopVars>>
    BY <1>3 DEF SendFails
  <2>2. PICK label \in IF attempt[t] = 1 THEN Ensured(signalr, usable') ELSE {"failed"} :
                /\ attempt' = [attempt EXCEPT ![t] = 2]
                /\ using' = [using EXCEPT ![t] =
                        IF label \in {"settling", "sending"} THEN signalr ELSE NoClient]
                /\ LET base == [pc EXCEPT ![t] = label]
                   IN  IF broken THEN Notify(using[t], base)
                       ELSE pc' = base /\ UNCHANGED <<notified, loopVars>>
    BY <2>1
  <2> DEFINE base == [pc EXCEPT ![t] = label]
  <2>3. \A c \in Senders : pc'[c] = base[c]
    <3>1. CASE broken
      BY <1>0, <2>2, <3>1, NotifyMovesNoSender DEF TypeOK
    <3>2. CASE ~broken
      BY <2>2, <3>2
    <3> QED  BY <3>1, <3>2
  <2>4. ASSUME NEW c \in Senders \ {t} PROVE HandedWell(c)
    <3>1. pc'[c] = pc[c] /\ attempt'[c] = attempt[c]
      BY <1>0, <2>2, <2>3, ConstantTypes DEF TypeOK
    <3> QED  BY <3>1 DEF HandedWell, Hands
  <2>5. HandedWell(t)
    <3>1. pc'[t] = label /\ signalr' = signalr /\ pc[t] = "sending"
      BY <1>0, <1>3, <2>3, ConstantTypes DEF SendFails, lockVars, TypeOK
    <3>2. label = "sending" => Connected(signalr, usable')
      BY <2>2 DEF Ensured
    <3>3. label = "sending" => using'[t] = signalr
      BY <1>0, <2>2 DEF TypeOK
    <3> QED  BY <3>1, <3>2, <3>3 DEF HandedWell, Hands, Connected
  <2> QED  BY <2>4, <2>5
<1> QED  BY <1>1, <1>2, <1>3 DEF Sends

\* Every step hands commands to the current client only: one case per group.
LEMMA NextHandsWell ==
    ASSUME IInv, [Next]_vars PROVE \A c \in Senders : HandedWell(c)
<1> USE ConstantTypes
<1>0. TypeOK
  BY DEF IInv
<1>1. CASE \E t \in Tasks : Starts(t)
  BY <1>0, <1>1, StartsHandWell
<1>2. CASE \E t \in Tasks : Stops(t)
  BY <1>0, <1>2, StopsHandWell
<1>3. CASE Polls
  BY <1>0, <1>3, PollsHandWell
<1>4. CASE LoopWakes
  <2>1. PICK label \in {"idle", "startLock"} : pc' = [pc EXCEPT ![Loop] = label]
    BY <1>4 DEF LoopWakes
  <2>2. label \in Labels \ {"sending"} /\ UNCHANGED attempt
    BY <1>4 DEF LoopWakes, senderVars
  <2> QED  BY <1>0, <2>1, <2>2, MovedElsewhere
<1>5. CASE BackgroundTasksDone
  BY <1>0, <1>5, MovedElsewhere DEF BackgroundTasksDone, senderVars
<1>6. ASSUME NEW t \in Senders, Sends(t) PROVE \A c \in Senders : HandedWell(c)
  BY <1>6, SendsHandWell
<1>7. ASSUME NEW t \in Senders, CommandBegins(t) PROVE \A c \in Senders : HandedWell(c)
  <2>1. PICK label \in Ensured(signalr, usable) : SenderAt(t, label, 1)
    BY <1>7 DEF CommandBegins
  <2>2. label = "sending" => Connected(signalr', usable')
    BY <1>7, <2>1 DEF Ensured, CommandBegins, lockVars, clientVars
  <2> QED  BY <1>0, <1>7, <2>1, <2>2, SendingHoldsTheClient DEF CommandBegins
<1>8. ASSUME NEW t \in Senders, VerificationBegins(t) PROVE \A c \in Senders : HandedWell(c)
  BY <1>0, <1>8, SendingHoldsTheClient DEF VerificationBegins
<1>9. CASE Network
  <2>1. UNCHANGED attempt
    BY <1>9 DEF Network, FrameArrives, ListenEnds, SettleWindowPasses, senderVars
  <2>2. \A c \in Senders : pc'[c] = pc[c]
    <3>1. CASE \E g \in open : ListenEnds(g)
      BY <1>0, <3>1, NotifyMovesNoSender DEF ListenEnds, TypeOK
    <3> QED  BY <1>9, <3>1 DEF Network, FrameArrives, SettleWindowPasses
  <2> QED  BY <2>1, <2>2, NothingHanded
<1>10. CASE PrepareForShutdown
  <2>1. UNCHANGED attempt
    BY <1>10 DEF PrepareForShutdown, senderVars
  <2>2. PICK cancelled \in SUBSET Tasks :
            pc' = [t \in Tasks |->
                        IF t = Shutdown THEN "quiescing"
                        ELSE IF t \notin cancelled \/ pc[t] \in Finished THEN pc[t]
                        ELSE IF t = Loop THEN "idle" ELSE "failed"]
    BY <1>10 DEF PrepareForShutdown, Tasks, Senders
  <2>3. {"quiescing", "idle", "failed"} \subseteq Labels \ {"sending"}
    BY DEF Labels, Finished
  <2>4. \A c \in Senders : pc'[c] \in {pc[c]} \cup (Labels \ {"sending"})
    BY <2>2, <2>3
  <2> QED  BY <2>1, <2>4, NothingHanded
<1>11. CASE UNCHANGED vars
  BY <1>11, NothingHanded DEF vars, senderVars
<1> QED
  BY <1>1, <1>2, <1>3, <1>4, <1>5, <1>6, <1>7, <1>8, <1>9, <1>10, <1>11 DEF Next, Step

\* For every set of senders, a command is handed over only to the client that
\* is published and connected at that moment, also after a wait during which
\* sessions came and went.
THEOREM CommandsReachTheCurrentSession == Spec => CommandsUseTheCurrentSession
<1>1. IInv /\ [Next]_vars =>
          [\A c \in Senders :
              pc'[c] = "sending" /\ (pc[c] # "sending" \/ attempt'[c] # attempt[c]) =>
                  /\ using'[c] = signalr' /\ using'[c] \in usable'
                  /\ pc[c] = "settling" => using[c] = signalr]_vars
  BY NextHandsWell DEF HandedWell, Hands
<1> QED  BY <1>1, IInvAlways, PTL DEF Spec, CommandsUseTheCurrentSession

-----------------------------------------------------------------------------
(***************************************************************************)
(* The lifecycle implements SessionService.                                *)
(***************************************************************************)

\* The abstract state, without the lock.
Attempting == \E t \in Tasks : pc[t] = "connecting"
Retired == pc[Shutdown] = "down"

\* While a session is attempted none is open, and once retired neither is.
LEMMA AttemptExcludesSession ==
    IInv => /\ Attempting => open = {}
            /\ Retired => open = {} /\ ~Attempting
BY NoTaskAssumption DEF IInv, HolderInv, UnloadInv, OneLiveSession, LockInv,
                        Attempting, Retired, Holding

\* A step as SessionService sees it, in terms of the state of this module.
AbstractStep ==
    LET quiet == open = {} /\ ~Attempting
    IN  \/ /\ quiet /\ ~Retired /\ generation' = generation + 1 /\ Attempting'
           /\ open' = {} /\ ~Retired'
        \/ /\ Attempting /\ ~Attempting' /\ open' # {}
           /\ generation' = generation /\ (Retired' <=> Retired)
        \/ /\ ~Attempting' /\ open' = {} /\ generation' = generation
           /\ Retired' <=> Retired
        \/ /\ quiet /\ ~Attempting' /\ open' = {} /\ generation' = generation /\ Retired'
        \/ /\ (Attempting' <=> Attempting) /\ (Retired' <=> Retired)
           /\ open' = open /\ generation' = generation

\* A task's step that changes no socket and attempts nothing is a stutter.
LEMMA StepOfOneTask ==
    ASSUME IInv, NEW t \in Tasks, NEW label, label # "connecting",
           \/ pc' = [pc EXCEPT ![t] = label]
           \/ pc[Loop] \notin Holding /\ pc' = [pc EXCEPT ![Loop] = "idle", ![t] = label],
           pc[t] # "connecting",
           t = Shutdown => pc[t] # "down" /\ label # "down",
           UNCHANGED <<open, generation>>
    PROVE  AbstractStep
<1>1. pc \in [Tasks -> Labels] /\ Loop \in Tasks /\ Shutdown \in Tasks /\ Loop # Shutdown
  BY ConstantTypes DEF IInv, TypeOK, Loop, Shutdown
<1>2. \A u \in Tasks : pc'[u] = "connecting" <=> pc[u] = "connecting"
  BY <1>1 DEF Holding
<1>3. Retired' <=> Retired
  BY <1>1 DEF Retired
<1> QED BY <1>2, <1>3 DEF AbstractStep, Attempting

\* Each step of start_signalr is a step of the session service, or changes nothing of it.
LEMMA StartsAreAbstract ==
    ASSUME IInv, NEW t \in Tasks, Starts(t) PROVE AbstractStep
<1>0. /\ pc \in [Tasks -> Labels] /\ TypeOK
      /\ Loop \in Tasks /\ Shutdown \in Tasks /\ Loop # Shutdown
      /\ pc[Shutdown] \in ShutdownLabels
  BY ConstantTypes DEF IInv, TypeOK, LabelInv, Loop, Shutdown
<1> USE DEF clientVars, lockVars
<1>1. CASE StartSkipped(t)
  <2>1. signalr' \in Nat /\ backoff' \in Nat /\ Return(t) /\ pc[t] = "startLock"
        /\ UNCHANGED <<open, generation>>
    BY <1>0, <1>1 DEF StartSkipped, TypeOK, retryVars
  <2>2. PICK label \in AfterReturn : pc' = [pc EXCEPT ![t] = label] /\ t # Shutdown
    BY <1>0, <2>1, ReturnEffect
  <2> QED BY <2>1, <2>2, StepOfOneTask DEF AfterReturn
<1>2. CASE ReplaceStale(t)
  <2>1. /\ pc[t] = "startLock" /\ UNCHANGED <<open, generation>>
        /\ pc' = [pc EXCEPT ![Loop] = "idle", ![t] = "replacing"]
        /\ lock = NoTask
    BY <1>2 DEF ReplaceStale, CancelLoop
  <2>2. pc[Loop] \notin Holding /\ t # Shutdown
    BY <1>0, <2>1, OneHolder DEF ShutdownLabels
  <2> QED BY <2>1, <2>2, StepOfOneTask
<1>3. CASE OpenGeneration(t)
  <2>1. /\ pc' = [pc EXCEPT ![t] = "connecting"] /\ generation' = generation + 1
        /\ open' = open /\ pc[t] \in {"startLock", "replacing"}
    BY <1>3 DEF OpenGeneration, NewGeneration
  <2>2. open = {}
    BY <1>3 DEF OpenGeneration, IInv, OneLiveSession, NoClient
  <2>3. ~Attempting
    BY <1>3, OneHolder DEF OpenGeneration, Attempting, Holding
  <2>4. ~Retired /\ t # Shutdown
    BY <1>0, <1>3, <2>1, OneHolder, NoTaskAssumption
       DEF OpenGeneration, Retired, IInv, UnloadInv, ShutdownLabels, Holding
  <2>5. Attempting' /\ ~Retired'
    BY <1>0, <2>1, <2>4 DEF Attempting, Retired
  <2> QED BY <2>1, <2>2, <2>3, <2>4, <2>5 DEF AbstractStep
<1>4. CASE ConnectOk(t)
  <2>1. /\ pc[t] = "connecting" /\ pc' = [pc EXCEPT ![t] = "subscribing"]
        /\ open' # {} /\ generation' = generation
    BY <1>4 DEF ConnectOk
  <2>2. \A u \in Tasks \ {t} : pc[u] # "connecting"
    BY <2>1, OneHolder DEF Holding
  <2>3. Attempting /\ ~Attempting'
    BY <1>0, <2>1, <2>2 DEF Attempting
  <2>4. Retired' <=> Retired
    BY <1>0, <2>1 DEF Retired, ShutdownLabels
  <2> QED BY <2>1, <2>3, <2>4 DEF AbstractStep
<1>5. CASE SubscribeOk(t)
  <2>1. signalr' \in Nat /\ backoff' \in Nat /\ Return(t) /\ pc[t] = "subscribing"
        /\ UNCHANGED <<open, generation>>
    BY <1>0, <1>5, ConstantTypes DEF SubscribeOk, TypeOK
  <2>2. PICK label \in AfterReturn : pc' = [pc EXCEPT ![t] = label] /\ t # Shutdown
    BY <1>0, <2>1, ReturnEffect
  <2> QED BY <2>1, <2>2, StepOfOneTask DEF AfterReturn
<1>6. CASE SubscribeFails(t)
  <2>1. /\ pc[t] = "subscribing" /\ pc' = [pc EXCEPT ![t] = "failing"]
        /\ UNCHANGED <<open, generation>> /\ t # Shutdown
    BY <1>0, <1>6 DEF SubscribeFails, ShutdownLabels
  <2> QED BY <2>1, StepOfOneTask
<1>7. CASE StartFails(t)
  <2>1. /\ pc[t] \in {"connecting", "failing"} /\ UNCHANGED <<open, generation>>
        /\ pc[t] = "failing" => signalr \notin open
        /\ signalr' \in Nat /\ (Return(t) \/ Raise(t))
    BY <1>7, ConstantTypes DEF StartFails
  <2>2. backoff' \in Nat
    BY <1>0, <1>7, TimingAssumption DEF StartFails, TypeOK, Smaller
  <2>3. PICK label \in AfterReturn : pc' = [pc EXCEPT ![t] = label] /\ t # Shutdown
    BY <1>0, <2>1, <2>2, ReturnEffect
  <2>4. open = {}
    BY <2>1 DEF IInv, HolderInv, OneLiveSession
  <2>5. \A u \in Tasks \ {t} : pc[u] # "connecting"
    BY <2>1, OneHolder DEF Holding
  <2>6. ~Attempting' /\ (Retired' <=> Retired)
    BY <1>0, <2>3, <2>5 DEF Attempting, Retired, AfterReturn
  <2> QED BY <2>1, <2>4, <2>6 DEF AbstractStep
<1> QED BY <1>1, <1>2, <1>3, <1>4, <1>5, <1>6, <1>7 DEF Starts

\* Each step of stop_signalr is a step of the session service, or changes nothing of it.
LEMMA StopsAreAbstract ==
    ASSUME IInv, NEW t \in Tasks, Stops(t) PROVE AbstractStep
<1>0. /\ pc \in [Tasks -> Labels] /\ TypeOK
      /\ Loop \in Tasks /\ Shutdown \in Tasks /\ Loop # Shutdown
      /\ pc[Loop] \in LoopLabels /\ pc[Shutdown] \in ShutdownLabels
  BY ConstantTypes DEF IInv, TypeOK, LabelInv, Loop, Shutdown
<1> USE DEF clientVars, lockVars
<1>1. CASE BeginStop(t)
  <2>1. /\ pc[t] = "stopLock" /\ lock = NoTask /\ UNCHANGED <<open, generation>>
        /\ \A u \in Tasks : pc[u] \notin Holding
    BY <1>1, OneHolder DEF BeginStop
  <2>2. CASE signalr = NoClient
    <3>1. pc' = [pc EXCEPT ![Loop] = "idle", ![t] = AfterStop(t)]
      BY <1>1, <2>2 DEF BeginStop, CancelLoop
    <3>2. CASE t # Shutdown
      BY <1>0, <2>1, <3>1, <3>2, StepOfOneTask DEF AfterStop
    <3>3. CASE t = Shutdown
      <4>1. open = {}
        BY <2>2 DEF IInv, OneLiveSession
      <4>2. ~Attempting /\ ~Attempting' /\ Retired'
        BY <1>0, <2>1, <3>1, <3>3 DEF Attempting, Retired, AfterStop, Holding
      <4> QED BY <2>1, <4>1, <4>2 DEF AbstractStep
    <3> QED BY <3>2, <3>3
  <2>3. CASE signalr # NoClient
    <3>1. pc' = [pc EXCEPT ![Loop] = "idle", ![t] = "stopping"]
      BY <1>1, <2>3 DEF BeginStop, CancelLoop
    <3>2. /\ pc[Loop] \notin Holding /\ pc[t] # "connecting" /\ pc[t] # "down"
          /\ "stopping" # "connecting" /\ "stopping" # "down"
          /\ UNCHANGED <<open, generation>>
      BY <1>0, <2>1
    <3> HIDE DEF clientVars, lockVars
    <3> QED BY <3>1, <3>2, StepOfOneTask
  <2> QED BY <2>2, <2>3
<1>2. CASE FinishStop(t)
  <2>1. /\ pc[t] = "stopping" /\ pc' = [pc EXCEPT ![t] = AfterStop(t)] /\ signalr \notin open
        /\ UNCHANGED <<open, generation>>
    BY <1>2 DEF FinishStop
  <2>2. open = {}
    BY <2>1 DEF IInv, OneLiveSession
  <2>3. \A u \in Tasks : pc[u] # "connecting"
    BY <2>1, OneHolder DEF Holding
  <2>4. ~Attempting /\ ~Attempting'
    BY <1>0, <2>1, <2>3 DEF Attempting, AfterStop
  <2>5. CASE t # Shutdown
    BY <2>1, <2>5, StepOfOneTask DEF AfterStop
  <2>6. CASE t = Shutdown
    <3>1. Retired'
      BY <1>0, <2>1, <2>6 DEF Retired, AfterStop
    <3> QED BY <2>1, <2>2, <2>4, <3>1 DEF AbstractStep
  <2> QED BY <2>5, <2>6
<1>3. CASE ReauthDuringShutdown(t)
  <2>1. signalr' \in Nat /\ backoff' \in Nat /\ Return(t) /\ pc[t] = "reauth"
        /\ UNCHANGED <<open, generation>>
    BY <1>0, <1>3 DEF ReauthDuringShutdown, TypeOK, retryVars
  <2>2. PICK label \in AfterReturn : pc' = [pc EXCEPT ![t] = label] /\ t # Shutdown
    BY <1>0, <2>1, ReturnEffect
  <2> QED BY <2>1, <2>2, StepOfOneTask DEF AfterReturn
<1>4. CASE FinishReauth(t)
  <2>1. /\ pc[t] = "reauth" /\ pc' = [pc EXCEPT ![t] = "startLock"] /\ t # Shutdown
        /\ UNCHANGED <<open, generation>>
    BY <1>0, <1>4 DEF FinishReauth, ShutdownLabels
  <2> QED BY <2>1, StepOfOneTask
<1> QED BY <1>1, <1>2, <1>3, <1>4 DEF Stops

\* Preparing the shutdown is a step of the session service.
LEMMA PrepareForShutdownIsAbstract ==
    ASSUME IInv, PrepareForShutdown PROVE AbstractStep
<1>0. /\ pc \in [Tasks -> Labels] /\ lock \in Tasks \cup {NoTask}
      /\ Loop \in Tasks /\ Shutdown \in Tasks /\ Verifications \subseteq Tasks
  BY ConstantTypes DEF IInv, TypeOK, Senders
<1>1. /\ pc[Shutdown] = "idle" /\ UNCHANGED generation
  BY DEF PrepareForShutdown
<1>2. PICK surviving \in SUBSET {t \in {Loop} \cup Verifications : pc[t] \in Closing} :
        LET cancelled == ({Loop} \cup Verifications) \ surviving
            forgets == lock \in cancelled /\ pc[lock] \in {"replacing", "stopping"}
        IN  /\ pc' = [t \in Tasks |->
                        IF t = Shutdown THEN "quiescing"
                        ELSE IF t \notin cancelled \/ pc[t] \in Finished THEN pc[t]
                        ELSE IF t = Loop THEN "idle" ELSE "failed"]
            /\ open' = IF forgets THEN open \ {signalr} ELSE open
  BY DEF PrepareForShutdown
<1> DEFINE cancelled == ({Loop} \cup Verifications) \ surviving
<1>3. ~Retired /\ ~Retired'
  BY <1>0, <1>1, <1>2 DEF Retired
<1>4. \A t \in Tasks : pc'[t] = "connecting" <=> pc[t] = "connecting" /\ t \notin cancelled
  BY <1>0, <1>1, <1>2 DEF Finished
<1>5. CASE open' = open
  <2>1. CASE Attempting' <=> Attempting
    BY <1>1, <1>3, <1>5, <2>1 DEF AbstractStep
  <2>2. CASE ~(Attempting' <=> Attempting)
    <3>1. Attempting /\ ~Attempting'
      BY <1>4, <2>2 DEF Attempting
    <3>2. open = {}
      BY <3>1, AttemptExcludesSession
    <3> QED BY <1>1, <1>3, <1>5, <3>1, <3>2 DEF AbstractStep
  <2> QED BY <2>1, <2>2
<1>6. CASE open' # open
  <2>1. lock \in cancelled /\ pc[lock] \in {"replacing", "stopping"} /\ open' = open \ {signalr}
    BY <1>2, <1>6
  <2>2. open' = {}
    BY <2>1 DEF IInv, OneLiveSession
  <2>3. lock \in Tasks
    BY <1>0, <2>1
  <2>4. ~Attempting
    BY <2>1, <2>3, OneHolder DEF Attempting, Holding
  <2>5. ~Attempting'
    BY <1>4, <2>4 DEF Attempting
  <2> QED BY <1>1, <1>3, <2>2, <2>5 DEF AbstractStep
<1> QED BY <1>5, <1>6

\* Every other step changes nothing of the session service.
LEMMA OtherStepsAreAbstract ==
    ASSUME IInv, TypeOK',
           \/ Polls \/ LoopWakes \/ BackgroundTasksDone \/ Network
           \/ \E c \in Senders : Sends(c) \/ CommandBegins(c) \/ VerificationBegins(c)
    PROVE  AbstractStep
<1>1. Attempting' <=> Attempting
  BY OtherStepsEffect DEF Attempting, Holding
<1>2. Retired' <=> Retired
  BY OtherStepsEffect DEF Retired
<1>3. open' = open \/ (open' = {} /\ open # {})
  BY OtherStepsEffect DEF IInv, OneLiveSession
<1>4. CASE open' = open
  BY <1>1, <1>2, <1>4, OtherStepsEffect DEF AbstractStep
<1>5. CASE open' = {} /\ open # {}
  <2>1. ~Attempting
    BY <1>5, AttemptExcludesSession
  <2> QED BY <1>1, <1>2, <1>5, <2>1, OtherStepsEffect DEF AbstractStep
<1> QED BY <1>3, <1>4, <1>5

\* Every step is a step of the session service or changes nothing of it.
LEMMA NextIsAbstract == IInv /\ [Next]_vars => AbstractStep
<1> SUFFICES ASSUME IInv, [Next]_vars PROVE AbstractStep
  OBVIOUS
<1>1. TypeOK'
  BY TypeStep DEF IInv
<1>2. CASE UNCHANGED vars
  BY <1>2 DEF vars, lockVars, clientVars, AbstractStep, Attempting, Retired
<1>3. CASE \E t \in Tasks : Starts(t)
  BY <1>3, StartsAreAbstract
<1>4. CASE \E t \in Tasks : Stops(t)
  BY <1>4, StopsAreAbstract
<1>5. CASE PrepareForShutdown
  BY <1>5, PrepareForShutdownIsAbstract
<1>6. CASE \/ Polls \/ LoopWakes \/ BackgroundTasksDone \/ Network
           \/ \E c \in Senders : Sends(c) \/ CommandBegins(c) \/ VerificationBegins(c)
  BY <1>1, <1>6, OtherStepsAreAbstract
<1> QED
  BY <1>2, <1>3, <1>4, <1>5, <1>6 DEF Next, Step

\* However its tasks interleave, the coordinator opens one numbered session
\* at a time, never twice under a number, and none after its shutdown.
THEOREM LifecycleImplementsService == Spec => ImplementsSessionService
<1>1. Init => Service!Init
  <2> SUFFICES ASSUME Init PROVE Service!Init
    OBVIOUS
  <2>1. (lock # NoTask /\ pc[lock] = "connecting") = FALSE
    BY DEF Init
  <2>2. (pc[Shutdown] = "down") = FALSE
    BY ConstantTypes DEF Init
  <2>3. (IF open = {} THEN 0 ELSE generation) = 0 /\ generation = 0
    BY DEF Init
  <2> QED BY <2>1, <2>2, <2>3 DEF Service!Init
<1>2. IInv /\ IInv' /\ [Next]_vars => [Service!Next]_(Service!vars)
  <2> SUFFICES ASSUME IInv, IInv', [Next]_vars PROVE [Service!Next]_(Service!vars)
    OBVIOUS
  <2>1. AbstractStep
    BY NextIsAbstract
  <2>2. /\ (lock # NoTask /\ pc[lock] = "connecting") <=> Attempting
        /\ (lock # NoTask /\ pc[lock] = "connecting")' <=> Attempting'
    BY NoTaskAssumption DEF IInv, TypeOK, LockInv, Attempting, Holding
  <2>3. Attempting => open = {}
    BY AttemptExcludesSession
  <2>4. open # {} => generation # 0
    BY DEF IInv, OneLiveSession, NoClient
  <2>5. open' # {} => generation' # 0
    BY DEF IInv, OneLiveSession, NoClient
  <2> QED BY <2>1, <2>2, <2>3, <2>4, <2>5
        DEF AbstractStep, Retired, Service!Next, Service!vars, Service!Quiet, Service!Begin,
            Service!Succeed, Service!Abandon, Service!End, Service!Retire
<1> QED BY <1>1, <1>2, IInvAlways, PTL DEF Spec, ImplementsSessionService, Service!Spec

-----------------------------------------------------------------------------
(* CapabilityDiscovery.                                                    *)


(***************************************************************************)
(* The inductive invariant.  That a frame's slots are pending rests on the *)
(* baseline: whoever has seen a frame has set it, and it holds only slots  *)
(* observed before.                                                        *)
(***************************************************************************)
\* Nothing is due before set-up is complete, and nothing is pending after it
PhaseInv ==
    /\ baseline \subseteq data
    /\ ready \ timedOut # {} => baseline # {}
    /\ setupComplete => ready = Platforms
    /\ unloading => setupComplete

\* Every platform that is set up is called back, until the unload
CallbackInv == callbacks = IF unloading THEN {} ELSE ready

DiscoveryInv == DiscoveryTypeOK /\ PhaseInv /\ CallbackInv /\ NoSlotIsForgotten

-----------------------------------------------------------------------------
(***************************************************************************)
(* Type correctness                                                        *)
(***************************************************************************)
LEMMA DiscoveryTypeStep == DiscoveryTypeOK /\ [DiscoveryNext]_discoveryVars => DiscoveryTypeOK'
<1> SUFFICES ASSUME DiscoveryTypeOK, [DiscoveryNext]_discoveryVars PROVE DiscoveryTypeOK'
  OBVIOUS
<1>1. ASSUME NEW new \in SUBSET Slots, Frame(new) PROVE DiscoveryTypeOK'
  BY <1>1 DEF Frame, Schedule, DiscoveryTypeOK, session
<1>2. ASSUME NEW p \in Platforms, FirstFrame(p) \/ FirstFrameTimesOut(p) PROVE DiscoveryTypeOK'
  BY <1>2 DEF FirstFrame, FirstFrameTimesOut, Discover, DiscoveryTypeOK, session
<1>3. CASE MarkSetupComplete
  BY <1>3 DEF MarkSetupComplete, Schedule, DiscoveryTypeOK, session
<1>4. CASE Refresh
  BY <1>4 DEF Refresh, DiscoveryTypeOK, session
<1>5. CASE Stop
  <2>1. stops' \in 0..MaxStops
    BY <1>5, DiscoveryAssumption DEF Stop, DiscoveryTypeOK
  <2> QED BY <1>5, <2>1 DEF Stop, DiscoveryTypeOK
<1>6. CASE Stopped \/ Reconnect \/ Unload
  BY <1>6 DEF Stopped, Reconnect, Unload, DiscoveryTypeOK
<1>7. CASE UNCHANGED discoveryVars
  BY <1>7 DEF discoveryVars, session, DiscoveryTypeOK
<1> QED BY <1>1, <1>2, <1>3, <1>4, <1>5, <1>6, <1>7 DEF DiscoveryNext

\* Before the first frame nothing is known and nothing can be forgotten.
LEMMA DiscoveryStarts == DiscoveryInit => DiscoveryInv
<1> SUFFICES ASSUME DiscoveryInit PROVE DiscoveryInv
  OBVIOUS
<1>1. 0 \in 0..MaxStops
  BY DiscoveryAssumption
<1>2. DiscoveryTypeOK
  BY <1>1 DEF DiscoveryInit, DiscoveryTypeOK
<1>3. PhaseInv /\ CallbackInv /\ NoSlotIsForgotten
  BY DEF DiscoveryInit, PhaseInv, CallbackInv, NoSlotIsForgotten, Due
<1> QED BY <1>2, <1>3 DEF DiscoveryInv

\* Types of every reachable state.  (coordinator.py's attributes)
THEOREM DiscoveryTypes == DiscoverySpec => []DiscoveryTypeOK
<1>1. DiscoveryInit => DiscoveryTypeOK
  BY DiscoveryStarts DEF DiscoveryInv
<1> QED BY <1>1, DiscoveryTypeStep, PTL DEF DiscoverySpec

-----------------------------------------------------------------------------
(***************************************************************************)
(* No slot is forgotten                                                    *)
(***************************************************************************)
LEMMA PhaseStep == DiscoveryInv /\ [DiscoveryNext]_discoveryVars => PhaseInv' /\ CallbackInv'
<1> SUFFICES ASSUME DiscoveryInv, [DiscoveryNext]_discoveryVars PROVE PhaseInv' /\ CallbackInv'
  OBVIOUS
<1> USE DEF DiscoveryInv, PhaseInv, CallbackInv
<1>1. ASSUME NEW new \in SUBSET Slots, Frame(new) PROVE PhaseInv' /\ CallbackInv'
  BY <1>1 DEF Frame, session
<1>2. ASSUME NEW p \in Platforms, FirstFrame(p) \/ FirstFrameTimesOut(p)
      PROVE PhaseInv' /\ CallbackInv'
  <2>1. ~setupComplete /\ ~unloading
    BY <1>2 DEF FirstFrame, FirstFrameTimesOut, Discover, DiscoveryTypeOK
  <2> QED BY <1>2, <2>1 DEF FirstFrame, FirstFrameTimesOut, Discover, session
<1>3. CASE MarkSetupComplete
  BY <1>3 DEF MarkSetupComplete, session
<1>4. CASE Refresh
  BY <1>4 DEF Refresh, session
<1>5. CASE Stop \/ Stopped \/ Reconnect \/ Unload
  BY <1>5 DEF Stop, Stopped, Reconnect, Unload
<1>6. CASE UNCHANGED discoveryVars
  BY <1>6 DEF discoveryVars, session
<1> QED BY <1>1, <1>2, <1>3, <1>4, <1>5, <1>6 DEF DiscoveryNext

\* No step drops a slot that was reported and not yet offered.
LEMMA ForgottenStep == DiscoveryInv /\ [DiscoveryNext]_discoveryVars => NoSlotIsForgotten'
<1> SUFFICES ASSUME DiscoveryInv, [DiscoveryNext]_discoveryVars PROVE NoSlotIsForgotten'
  OBVIOUS
<1> SUFFICES ASSUME NEW p \in Platforms \ timedOut', NEW s \in Slots,
                    Due(p, s)', ~unloading'
             PROVE  \/ s \in offered'[p]
                    \/ ~setupComplete' /\ s \in pending'
                    \/ reloading' /\ s \in reloadSlots'
                    \/ s \in cleared'
  BY DEF NoSlotIsForgotten
<1>a. Due(p, s) /\ p \notin timedOut /\ ~unloading =>
          \/ s \in offered[p]
          \/ ~setupComplete /\ s \in pending
          \/ reloading /\ s \in reloadSlots
          \/ s \in cleared
  BY DEF DiscoveryInv, NoSlotIsForgotten
<1>1. ASSUME NEW new \in SUBSET Slots, Frame(new)
      PROVE  \/ s \in offered'[p]
             \/ ~setupComplete' /\ s \in pending'
             \/ reloading' /\ s \in reloadSlots'
             \/ s \in cleared'
  <2>1. CASE s \in data
    BY <1>1, <1>a, <2>1 DEF Frame, Schedule, session, Due
  <2>2. CASE s \notin data
    <3>1. s \in new /\ p \in ready /\ p \notin timedOut
      BY <1>1, <2>2 DEF Frame, session, Due
    <3>2. baseline # {} /\ s \notin baseline
      BY <2>2, <3>1 DEF DiscoveryInv, PhaseInv
    <3> QED BY <1>1, <3>1, <3>2 DEF Frame, Schedule
  <2> QED BY <2>1, <2>2
<1>2. ASSUME NEW q \in Platforms, FirstFrame(q) \/ FirstFrameTimesOut(q)
      PROVE  \/ s \in offered'[p]
             \/ ~setupComplete' /\ s \in pending'
             \/ reloading' /\ s \in reloadSlots'
             \/ s \in cleared'
  <2>1. offered' = [offered EXCEPT ![q] = data] /\ offered \in [Platforms -> SUBSET Slots]
    BY <1>2 DEF FirstFrame, FirstFrameTimesOut, Discover, DiscoveryInv, DiscoveryTypeOK
  <2>2. UNCHANGED <<data, pending, setupComplete, reloadSlots, reloading, cleared,
                    unloading>> /\ timedOut \subseteq timedOut' /\ ready' = ready \cup {q}
    BY <1>2 DEF FirstFrame, FirstFrameTimesOut, Discover, session
  <2>3. CASE p = q
    BY <2>1, <2>2, <2>3 DEF Due
  <2>4. CASE p # q
    BY <1>a, <2>1, <2>2, <2>4 DEF Due
  <2> QED BY <2>3, <2>4
<1>3. CASE MarkSetupComplete
  BY <1>3, <1>a DEF MarkSetupComplete, Schedule, session, Due
<1>4. CASE Refresh
  <2>1. Due(p, s) /\ p \notin timedOut /\ ~unloading /\ p \in callbacks
    BY <1>4 DEF Refresh, session, Due, DiscoveryInv, CallbackInv
  <2>2. CASE p \in Concerned
    BY <1>4, <2>1, <2>2 DEF Refresh, Due
  <2>3. CASE p \notin Concerned
    <3>1. s \notin reloadSlots
      BY <2>1, <2>3 DEF Concerned, Due
    <3> QED BY <1>4, <1>a, <2>1, <2>3, <3>1 DEF Refresh, session
  <2> QED BY <2>2, <2>3
<1>5. CASE Stop
  BY <1>5, <1>a DEF Stop, Due
<1>6. CASE Stopped \/ Reconnect \/ Unload
  BY <1>6, <1>a DEF Stopped, Reconnect, Unload, Due
<1>7. CASE UNCHANGED discoveryVars
  BY <1>7, <1>a DEF discoveryVars, session, Due
<1> QED BY <1>1, <1>2, <1>3, <1>4, <1>5, <1>6, <1>7 DEF DiscoveryNext

\* The invariant holds in every reachable state.
THEOREM DiscoveryInvAlways == DiscoverySpec => []DiscoveryInv
<1>1. DiscoveryInv /\ [DiscoveryNext]_discoveryVars => DiscoveryInv'
  BY DiscoveryTypeStep, PhaseStep, ForgottenStep DEF DiscoveryInv
<1> QED BY <1>1, DiscoveryStarts, PTL DEF DiscoverySpec

\* For any slots and platforms, whatever order frames, set-ups, stops and
\* refreshes come in, a slot that is due to a platform which did not give up
\* waiting is offered, pending, about to be refreshed, or was cleared by a
\* stop.  (_on_signalr_update, mark_entry_setup_complete)
THEOREM NothingForgotten == DiscoverySpec => []NoSlotIsForgotten
<1>1. DiscoveryInv => NoSlotIsForgotten
  BY DEF DiscoveryInv
<1> QED BY <1>1, DiscoveryInvAlways, PTL

\* Nothing is due any more, and every observed slot has been offered.
QuietEntryHasOfferedAll ==
    setupComplete /\ ~reloading /\ ~unloading /\ cleared = {} =>
        \A p \in Platforms, s \in Slots : Due(p, s) => s \in offered[p]

\* A quiet entry whose platforms all saw a first frame, and whose refreshes
\* were never cancelled, is complete: the two exceptions of the code are the
\* only ones.  (setup_platform, _stop_signalr_locked)
THEOREM QuietEntryIsComplete == DiscoverySpec => [](timedOut = {} => QuietEntryHasOfferedAll)
<1>1. DiscoveryInv => (timedOut = {} => QuietEntryHasOfferedAll)
  BY DEF DiscoveryInv, NoSlotIsForgotten, QuietEntryHasOfferedAll
<1> QED BY <1>1, DiscoveryInvAlways, PTL

-----------------------------------------------------------------------------
\* No platform discovers anything once the unload has begun, though a refresh
\* may still be due or be scheduled by a late frame.  (async_unload_entry)
THEOREM UnloadEndsDiscovery == DiscoverySpec => NoDiscoveryAfterUnload
<1>1. ASSUME DiscoveryInv, [DiscoveryNext]_discoveryVars PROVE unloading => UNCHANGED offered
  <2> SUFFICES ASSUME unloading PROVE UNCHANGED offered
    OBVIOUS
  <2>1. setupComplete /\ ready = Platforms /\ callbacks = {} /\ offered \in [Platforms -> SUBSET Slots]
    BY <1>1 DEF DiscoveryInv, PhaseInv, CallbackInv, DiscoveryTypeOK
  <2>2. ASSUME NEW new \in SUBSET Slots, Frame(new) PROVE UNCHANGED offered
    BY <2>2 DEF Frame
  <2>3. ASSUME NEW p \in Platforms, FirstFrame(p) \/ FirstFrameTimesOut(p) PROVE FALSE
    BY <2>1, <2>3 DEF FirstFrame, FirstFrameTimesOut, Discover
  <2>4. CASE Refresh
    <3>1. Concerned = {}
      BY <2>1 DEF Concerned
    <3> QED BY <2>1, <2>4, <3>1 DEF Refresh
  <2>5. CASE MarkSetupComplete \/ Stop \/ Stopped \/ Reconnect \/ Unload \/ UNCHANGED discoveryVars
    BY <2>5 DEF MarkSetupComplete, Stop, Stopped, Reconnect, Unload, discoveryVars
  <2> QED BY <1>1, <2>2, <2>3, <2>4, <2>5 DEF DiscoveryNext
<1> QED BY <1>1, DiscoveryInvAlways, PTL DEF DiscoverySpec, NoDiscoveryAfterUnload
=============================================================================
