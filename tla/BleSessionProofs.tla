---------------------------- MODULE BleSessionProofs ----------------------------
(***************************************************************************)
(* Proofs about BleSession for any commands, either order of the           *)
(* transports and any number of faults: its types, one live link, one      *)
(* request on the link, and that it implements ExclusiveLink.              *)
(***************************************************************************)
EXTENDS BleSession, TLAPS

(***************************************************************************)
(* The inductive invariant.  That a start finds no live link rests on who  *)
(* holds the start lock: nothing is published while it is held, and only   *)
(* its holder connects.                                                    *)
(***************************************************************************)
\* The start lock's holder is the one task inside the block
LockInv == \A t \in Senders : pc[t] \in Holding <=> startLock = t

\* A transport connects exactly while its task is in transport.start()
ConnectInv == \A n \in Senders : link[n] = "connecting" <=> pc[n] = "starting"

\* A connected transport is published, and a published one is not stopped
PublishedInv ==
    /\ \A n \in Senders : link[n] = "up" => ble = n
    /\ ble # Nobody => link[ble] \in {"up", "lost"}
    /\ startLock # Nobody => ble = Nobody

\* _ble_start_task is a task that starts a transport, or one that has ended
StartTaskInv == startTask # Nobody => pc[startTask] \in Starting \cup Finished

\* The request lock's holder is the one task that requests on the transport
RequestInv ==
    \A t \in Senders :
        /\ pc[t] \in {"requestLock", "requesting"} => using[t] # Nobody
        /\ pc[t] = "requesting" => requestLock[using[t]] = t

IInv == TypeOK /\ LockInv /\ ConnectInv /\ PublishedInv /\ StartTaskInv /\ RequestInv

-----------------------------------------------------------------------------
\* The program counters of the two processes are distinct labels.
LEMMA LabelFacts ==
    /\ Shutdown \in Tasks /\ Senders \subseteq Tasks
    /\ Shutdown \notin Senders /\ Nobody \notin Senders
    /\ AfterBle \in {"cloud", "failed"}
    /\ \A t \in Tasks : AfterStop(t) \in {"cloud", "failed", "down"}
BY SendersAssumption DEF Tasks, AfterBle, AfterStop, Shutdown, Nobody

\* Types of what _stop_ble assigns
LEMMA StopTypes ==
    ASSUME TypeOK, NEW t \in Tasks, Stop(t, link)
    PROVE  /\ pc' \in [Tasks -> Labels] /\ startTask' \in Senders \cup {Nobody}
           /\ ble' \in Senders \cup {Nobody} /\ link' \in [Senders -> Links]
           /\ awaits' \in [Tasks -> SUBSET Senders]
<1>1. AfterStop(t) \in Labels /\ "disconnecting" \in Labels
  BY LabelFacts DEF Labels, Finished
<1>2. CASE ble = Nobody
  BY <1>1, <1>2 DEF Stop, TypeOK
<1>3. CASE ble # Nobody
  <2>1. ble \in Senders
    BY <1>3 DEF TypeOK
  <2>2. pc' = [pc EXCEPT ![t] = "disconnecting"] /\ awaits' = [awaits EXCEPT ![t] = {ble}]
        /\ link' = [link EXCEPT ![ble] = "closing"] /\ startTask' = Nobody /\ ble' = Nobody
    BY <1>3 DEF Stop
  <2> QED BY <1>1, <2>1, <2>2 DEF TypeOK, Links
<1> QED BY <1>2, <1>3

\* _stop_ble leaves every variable in its type.
LEMMA TearDownTypes ==
    ASSUME TypeOK, NEW t \in Tasks, TearDown(t)
    PROVE  /\ pc' \in [Tasks -> Labels] /\ startTask' \in Senders \cup {Nobody}
           /\ ble' \in Senders \cup {Nobody} /\ link' \in [Senders -> Links]
           /\ awaits' \in [Tasks -> SUBSET Senders] /\ cancelled' \in SUBSET Senders
<1>1. StartToCancel(t) \in SUBSET Senders
  BY DEF StartToCancel
<1>2. CASE StartToCancel(t) # {}
  <2>1. "joining" \in Labels
    BY DEF Labels
  <2>2. /\ cancelled' = cancelled \cup StartToCancel(t) /\ pc' = [pc EXCEPT ![t] = "joining"]
        /\ awaits' = [awaits EXCEPT ![t] = StartToCancel(t)]
        /\ UNCHANGED <<startTask, ble, link>>
    BY <1>2 DEF TearDown
  <2> HIDE DEF StartToCancel
  <2> QED BY <1>1, <2>1, <2>2 DEF TypeOK
<1>3. CASE StartToCancel(t) = {}
  <2>1. Stop(t, link) /\ cancelled' = cancelled
    BY <1>3 DEF TearDown
  <2> QED BY <2>1, StopTypes DEF TypeOK
<1> QED BY <1>2, <1>3

\* One exchange on the link leaves every variable in its type.
LEMMA RequestTypes ==
    ASSUME TypeOK, NEW t \in Senders, NEW n \in Senders, Request(t, n)
    PROVE  /\ pc' \in [Tasks -> Labels]
           /\ using' \in [Senders -> Senders \cup {Nobody}]
           /\ requestLock' \in [Senders -> Senders \cup {Nobody}]
<1>1. {"requesting", "requestLock"} \subseteq Labels
  BY DEF Labels
<1> QED BY <1>1 DEF Request, TypeOK

\* Cancelling the commands on the link leaves their records in their type.
LEMMA CancelledTypes ==
    ASSUME TypeOK, NEW t \in Senders, EndsCancelled(t)
    PROVE  /\ pc' \in [Tasks -> Labels] /\ awaits' \in [Tasks -> SUBSET Senders]
           /\ startLock' \in Senders \cup {Nobody}
           /\ requestLock' \in [Senders -> Senders \cup {Nobody}]
<1>1. "cancelled" \in Labels
  BY DEF Labels, Finished
<1> QED BY <1>1 DEF EndsCancelled, ReleaseAll, TypeOK

\* A fault never counts past its bound.
LEMMA FaultTypes == ASSUME TypeOK, Fault PROVE faults' \in 0..MaxFaults
BY SendersAssumption DEF TypeOK, Fault

\* The entry starts with every variable in its type.
LEMMA TypeInit == Init => TypeOK
<1>1. "idle" \in Labels /\ "none" \in Links
  BY DEF Labels, Links
<1>2. ASSUME Init
      PROVE  /\ pc \in [Tasks -> Labels] /\ link \in [Senders -> Links]
             /\ awaits \in [Tasks -> SUBSET Senders]
             /\ requestLock \in [Senders -> Senders \cup {Nobody}]
             /\ using \in [Senders -> Senders \cup {Nobody}]
  BY <1>1, <1>2 DEF Init
<1>3. ASSUME Init
      PROVE  /\ startLock \in Senders \cup {Nobody} /\ startTask \in Senders \cup {Nobody}
             /\ ble \in Senders \cup {Nobody} /\ cancelled \in SUBSET Senders
             /\ shuttingDown \in BOOLEAN
  BY <1>3 DEF Init
<1>4. ASSUME Init PROVE primary \in BOOLEAN /\ faults \in 0..MaxFaults
  BY <1>4, SendersAssumption DEF Init
<1> QED BY <1>2, <1>3, <1>4 DEF TypeOK

-----------------------------------------------------------------------------
(***************************************************************************)
(* Type correctness                                                        *)
(***************************************************************************)
LEMMA TypeStep == TypeOK /\ [Next]_vars => TypeOK'
<1> SUFFICES ASSUME TypeOK, [Next]_vars PROVE TypeOK'
  OBVIOUS
<1>p. primary' \in BOOLEAN
  BY DEF TypeOK, Next, vars
<1> USE LabelFacts, <1>p
<1>l. {"idle", "cloud", "startLock", "requestLock", "requesting", "joining",
       "disconnecting", "quiescing", "cloudStop", "down", "delivered", "failed",
       "cancelled", "replacing", "starting", "aborting", "unwinding",
       "withdrawing"} \subseteq Labels
  BY DEF Labels, Holding, Starting, Finished
<1>1. ASSUME NEW t \in Senders, SenderStep(t) PROVE TypeOK'
  <2>1. CASE CloudFirst(t)
    BY <1>l, <2>1 DEF CloudFirst, TypeOK
  <2>2. CASE CloudEnds(t)
    BY <1>l, <2>2 DEF CloudEnds, TypeOK
  <2>3. CASE RefuseBle(t)
    BY <1>l, <2>3 DEF RefuseBle, TypeOK
  <2>4. CASE UseSession(t)
    <3>1. ble \in Senders
      BY <2>4 DEF UseSession, Usable, TypeOK
    <3> QED BY <2>4, <3>1, RequestTypes DEF UseSession, TypeOK
  <2>5. CASE WaitForStart(t)
    BY <1>l, <2>5 DEF WaitForStart, TypeOK
  <2>6. CASE ReplaceStale(t)
    BY <1>l, <2>6 DEF ReplaceStale, TypeOK, Links
  <2>7. CASE RefuseStart(t)
    BY <1>l, <2>7 DEF RefuseStart, TypeOK
  <2>8. CASE BeginStart(t)
    BY <1>l, <2>8 DEF BeginStart, TypeOK, Links
  <2>9. CASE StartOk(t)
    <3>1. CASE shuttingDown
      BY <1>l, <2>9, <3>1 DEF StartOk, TypeOK, Links
    <3>2. CASE ~shuttingDown
      BY <2>9, <3>2, RequestTypes DEF StartOk, TypeOK, Links
    <3> QED BY <3>1, <3>2
  <2>10. CASE StartFails(t)
    BY <1>l, <2>10, FaultTypes DEF StartFails, GiveUpStart, TypeOK, Links
  <2>11. CASE StoppedOwn(t)
    BY <1>l, <2>11 DEF StoppedOwn, GiveUpStart, TypeOK
  <2>12. CASE RequestBegins(t)
    BY <1>l, <2>12 DEF RequestBegins, TypeOK
  <2>13. CASE RequestRefused(t)
    BY <2>13, TearDownTypes DEF RequestRefused, TypeOK
  <2>14. CASE RequestAnswered(t)
    <3>1. PICK label \in {"delivered", AfterBle} : pc' = [pc EXCEPT ![t] = label]
      BY <2>14 DEF RequestAnswered
    <3>2. label \in Labels
      BY <1>l, <3>1
    <3>3. requestLock' \in [Senders -> Senders \cup {Nobody}]
      BY <2>14 DEF RequestAnswered, Unlocked, TypeOK
    <3> QED BY <2>14, <3>1, <3>2, <3>3 DEF RequestAnswered, TypeOK
  <2>15. CASE RequestFails(t)
    <3>1. requestLock' \in [Senders -> Senders \cup {Nobody}]
      BY <2>15 DEF RequestFails, Unlocked, TypeOK
    <3>2. faults' \in 0..MaxFaults
      BY <2>15, FaultTypes DEF RequestFails, TypeOK
    <3>3. TearDown(t) /\ UNCHANGED <<startLock, using, shuttingDown>>
      BY <2>15 DEF RequestFails
    <3> QED BY <3>1, <3>2, <3>3, TearDownTypes DEF TypeOK
  <2>16. CASE Cancelled(t)
    BY <2>16, CancelledTypes DEF Cancelled, TypeOK
  <2>17. CASE StartCancelled(t)
    <3>1. link' \in [Senders -> Links] /\ cancelled' \in SUBSET Senders
      BY <2>17 DEF StartCancelled, TypeOK, Links
    <3>2. UNCHANGED <<startTask, ble, using, shuttingDown, faults>>
      BY <2>17 DEF StartCancelled
    <3>3. CASE EndsCancelled(t)
      BY <3>1, <3>2, <3>3, CancelledTypes DEF TypeOK
    <3>4. CASE /\ pc' = [pc EXCEPT ![t] = "unwinding"]
               /\ UNCHANGED <<startLock, requestLock, awaits>>
      BY <1>l, <3>1, <3>2, <3>4 DEF TypeOK
    <3> QED BY <2>17, <3>3, <3>4 DEF StartCancelled
  <2>18. CASE Unwound(t)
    BY <2>18, CancelledTypes DEF Unwound, TypeOK
  <2>19. CASE JoinCancelled(t)
    BY <2>19 DEF JoinCancelled, TypeOK
  <2>20. CASE Joined(t)
    BY <2>20, StopTypes DEF Joined, TypeOK
  <2>21. CASE Disconnected(t)
    BY <1>l, <2>21 DEF Disconnected, TypeOK
  <2> QED
    BY <1>1, <2>1, <2>2, <2>3, <2>4, <2>5, <2>6, <2>7, <2>8, <2>9, <2>10, <2>11, <2>12,
       <2>13, <2>14, <2>15, <2>16, <2>17, <2>18, <2>19, <2>20, <2>21 DEF SenderStep
<1>2. ASSUME NEW n \in Senders, LinkLost(n) PROVE TypeOK'
  BY <1>2, FaultTypes DEF LinkLost, TypeOK, Links
<1>3. ASSUME NEW n \in Senders, LinkCloses(n) PROVE TypeOK'
  BY <1>3 DEF LinkCloses, TypeOK, Links
<1>4. CASE ShutdownStep
  <2>1. CASE PrepareForShutdown
    <3>1. {v \in Verifications : Running(v)} \in SUBSET Senders
      BY DEF Senders
    <3> QED BY <1>l, <2>1, <3>1 DEF PrepareForShutdown, TypeOK
  <2>2. CASE BackgroundTasksDone
    BY <1>l, <2>2 DEF BackgroundTasksDone, TypeOK
  <2>3. CASE CloudStopped
    BY <2>3, TearDownTypes DEF CloudStopped, TypeOK
  <2>4. CASE Joined(Shutdown)
    BY <2>4, StopTypes DEF Joined, TypeOK
  <2>5. CASE Disconnected(Shutdown)
    BY <1>l, <2>5 DEF Disconnected, TypeOK
  <2> QED BY <1>4, <2>1, <2>2, <2>3, <2>4, <2>5 DEF ShutdownStep
<1>5. CASE UNCHANGED vars
  BY <1>5 DEF vars, TypeOK
<1> QED BY <1>1, <1>2, <1>3, <1>4, <1>5 DEF Next

\* BleSession is type-correct for any number of senders
THEOREM TypeCorrect == Spec => []TypeOK
<1> QED BY TypeInit, TypeStep, PTL DEF Spec

-----------------------------------------------------------------------------
(***************************************************************************)
(* The inductive invariant                                                 *)
(***************************************************************************)
Inv == LockInv /\ ConnectInv /\ PublishedInv /\ StartTaskInv /\ RequestInv

\* The entry starts with no link and no lock held.
LEMMA IInvInit == Init => IInv
<1> SUFFICES ASSUME Init PROVE IInv
  OBVIOUS
<1>1. TypeOK
  BY TypeInit
<1>2. LockInv /\ ConnectInv /\ PublishedInv /\ StartTaskInv /\ RequestInv
  BY SendersAssumption
     DEF Init, LockInv, ConnectInv, PublishedInv, StartTaskInv, RequestInv,
         Holding, Starting, Tasks
<1> QED BY <1>1, <1>2 DEF IInv

\* _stop_ble by a task that neither starts a transport nor requests on one
LEMMA StopKeepsInv ==
    ASSUME IInv, NEW t \in Tasks, Stop(t, link),
           t \in Senders => pc[t] \notin Holding,
           startLock' = startLock, using' = using,
           \A s \in Senders : pc[s] = "requesting" /\ s # t =>
               requestLock'[using[s]] = requestLock[using[s]]
    PROVE  Inv'
<1> USE LabelFacts
<1>1. PICK label \in {"cloud", "failed", "down", "disconnecting"} :
          pc' = [pc EXCEPT ![t] = label]
  BY DEF Stop
<1>2. startTask' = Nobody /\ ble' = Nobody
  BY DEF Stop
<1>3. /\ link' \in [Senders -> Links]
      /\ \A n \in Senders : link'[n] = IF n = ble THEN "closing" ELSE link[n]
  BY DEF Stop, IInv, TypeOK, Links
<1>4. LockInv' /\ ConnectInv'
  BY <1>1, <1>3 DEF IInv, LockInv, ConnectInv, PublishedInv, TypeOK, Holding, Starting
<1>5. PublishedInv' /\ StartTaskInv'
  BY <1>2, <1>3 DEF IInv, PublishedInv, StartTaskInv
<1>6. RequestInv'
  BY <1>1 DEF IInv, RequestInv, TypeOK
<1> QED BY <1>4, <1>5, <1>6 DEF Inv

\* _stop_ble keeps the invariant, whoever calls it.
LEMMA TearDownKeepsInv ==
    ASSUME IInv, NEW t \in Tasks, TearDown(t),
           t \in Senders => pc[t] \notin Holding \cup Finished,
           startLock' = startLock, using' = using,
           \A s \in Senders : pc[s] = "requesting" /\ s # t =>
               requestLock'[using[s]] = requestLock[using[s]]
    PROVE  Inv'
<1> USE LabelFacts
<1>1. CASE StartToCancel(t) = {}
  BY <1>1, StopKeepsInv DEF TearDown
<1>2. CASE StartToCancel(t) # {}
  <2>1. pc' = [pc EXCEPT ![t] = "joining"] /\ UNCHANGED <<startTask, ble, link>>
    BY <1>2 DEF TearDown
  <2>2. LockInv' /\ ConnectInv' /\ PublishedInv' /\ RequestInv'
    BY <2>1 DEF IInv, LockInv, ConnectInv, PublishedInv, RequestInv, TypeOK,
                Holding, Starting
  <2>3. StartTaskInv'
    BY <2>1 DEF IInv, StartTaskInv, TypeOK, Holding
  <2> QED BY <2>2, <2>3 DEF Inv
<1> QED BY <1>1, <1>2

\* Steps that only move one task between labels outside the lock
LEMMA MoveKeepsInv ==
    ASSUME IInv, NEW t \in Tasks,
           NEW label \in {"idle", "cloud", "startLock", "delivered", "failed", "cancelled",
                          "quiescing", "cloudStop", "down"},
           pc' = [pc EXCEPT ![t] = label],
           t \in Senders => pc[t] \notin Holding,
           UNCHANGED <<startLock, startTask, ble, link, using>>,
           pc[t] \in Finished => label \in Finished,
           \A s \in Senders : pc[s] = "requesting" /\ s # t =>
               requestLock'[using[s]] = requestLock[using[s]]
    PROVE  Inv'
<1> USE LabelFacts
<1>1. LockInv' /\ ConnectInv' /\ PublishedInv' /\ RequestInv'
  BY DEF IInv, LockInv, ConnectInv, PublishedInv, RequestInv, TypeOK, Holding, Starting
<1>2. StartTaskInv'
  BY DEF IInv, StartTaskInv, TypeOK, Holding
<1> QED BY <1>1, <1>2 DEF Inv

\* Every step keeps the invariant: one case per action.
LEMMA IInvStep == IInv /\ [Next]_vars => IInv'
<1> SUFFICES ASSUME IInv, [Next]_vars PROVE IInv'
  OBVIOUS
<1> USE LabelFacts
<1>t. TypeOK /\ TypeOK'
  BY TypeStep DEF IInv
<1>s. SUFFICES Inv'
  BY <1>t DEF IInv, Inv
<1>1. ASSUME NEW t \in Senders, SenderStep(t) PROVE Inv'
  <2>t. t \in Tasks
    OBVIOUS
  <2>1. CASE CloudFirst(t)
    BY <2>1, MoveKeepsInv DEF CloudFirst, Holding, Starting, Finished
  <2>2. CASE CloudEnds(t)
    <3>1. PICK label \in {"delivered", "failed"} : pc' = [pc EXCEPT ![t] = label]
      BY <2>2 DEF CloudEnds
    <3> QED BY <2>2, <3>1, MoveKeepsInv DEF CloudEnds, Holding, Starting, Finished
  <2>3. CASE RefuseBle(t)
    BY <2>3, MoveKeepsInv DEF RefuseBle, Ensures, BleTurn, Holding, Starting, Finished
  <2>4. CASE UseSession(t)
    <3>1. ble \in Senders /\ pc[t] \in {"idle", "cloud", "startLock"}
      BY <2>4 DEF UseSession, Usable, Ensures, BleTurn, IInv, TypeOK
    <3>2. /\ using' = [using EXCEPT ![t] = ble]
          /\ UNCHANGED <<startLock, startTask, ble, link>>
      BY <2>4 DEF UseSession, Request
    <3>3. LockInv' /\ ConnectInv' /\ PublishedInv' /\ StartTaskInv'
      BY <2>4, <3>1 DEF UseSession, Request, IInv, LockInv, ConnectInv, PublishedInv,
                       StartTaskInv, TypeOK, Holding, Starting, Finished
    <3>4. RequestInv'
      BY <2>4, <3>1 DEF UseSession, Request, IInv, RequestInv, TypeOK
    <3> QED BY <3>3, <3>4 DEF Inv
  <2>5. CASE WaitForStart(t)
    BY <2>5, MoveKeepsInv DEF WaitForStart, BleTurn, Holding, Starting, Finished
  <2>6. CASE ReplaceStale(t)
    <3>1. ble \in Senders /\ pc[t] \in {"idle", "cloud", "startLock"} /\ startLock = Nobody
      BY <2>6 DEF ReplaceStale, EntersLock, BleTurn, IInv, TypeOK
    <3>2. LockInv' /\ RequestInv'
      BY <2>6, <3>1 DEF ReplaceStale, IInv, LockInv, RequestInv, TypeOK, Holding, Starting
    <3>3. ConnectInv'
      BY <2>6, <3>1 DEF ReplaceStale, IInv, ConnectInv, PublishedInv, TypeOK
    <3>4. PublishedInv' /\ StartTaskInv'
      BY <2>6, <3>1 DEF ReplaceStale, IInv, PublishedInv, StartTaskInv, TypeOK
    <3> QED BY <3>2, <3>3, <3>4 DEF Inv
  <2>7. CASE RefuseStart(t)
    <3>1. pc[t] = "replacing"
      BY <2>7 DEF RefuseStart, Replaced
    <3>2. LockInv' /\ RequestInv'
      BY <2>7, <3>1 DEF RefuseStart, IInv, LockInv, RequestInv, TypeOK, Holding, Starting
    <3>3. ConnectInv' /\ PublishedInv' /\ StartTaskInv'
      BY <2>7, <3>1 DEF RefuseStart, IInv, ConnectInv, PublishedInv, StartTaskInv, TypeOK,
                       Starting, Finished
    <3> QED BY <3>2, <3>3 DEF Inv
  <2>8. CASE BeginStart(t)
    <3>1. /\ pc[t] \in {"idle", "cloud", "startLock", "replacing"} /\ ble = Nobody
          /\ startLock \in {Nobody, t}
      BY <2>8 DEF BeginStart, EntersLock, BleTurn, Replaced, IInv, LockInv, PublishedInv,
                  Holding
    <3>2. LockInv' /\ RequestInv'
      BY <2>8, <3>1 DEF BeginStart, IInv, LockInv, RequestInv, TypeOK, Holding, Starting
    <3>3. ConnectInv' /\ PublishedInv' /\ StartTaskInv'
      BY <2>8, <3>1 DEF BeginStart, IInv, ConnectInv, PublishedInv, StartTaskInv, TypeOK,
                       Starting
    <3> QED BY <3>2, <3>3 DEF Inv
  <2>9. CASE StartOk(t)
    <3>1. pc[t] = "starting" /\ startLock = t /\ ble = Nobody
      BY <2>9 DEF StartOk, IInv, LockInv, PublishedInv, Holding, Starting
    <3>2. CASE shuttingDown
      <4>1. LockInv' /\ RequestInv' /\ StartTaskInv'
        BY <2>9, <3>1, <3>2 DEF StartOk, IInv, LockInv, RequestInv, StartTaskInv, TypeOK,
                               Holding, Starting
      <4>2. ConnectInv' /\ PublishedInv'
        BY <2>9, <3>1, <3>2 DEF StartOk, IInv, ConnectInv, PublishedInv, TypeOK
      <4> QED BY <4>1, <4>2 DEF Inv
    <3>3. CASE ~shuttingDown
      <4>1. /\ link' = [link EXCEPT ![t] = "up"] /\ ble' = t /\ startTask' = Nobody
            /\ startLock' = Nobody /\ Request(t, t)
        BY <2>9, <3>3 DEF StartOk
      <4>2. LockInv' /\ ConnectInv'
        BY <3>1, <4>1 DEF Request, IInv, LockInv, ConnectInv, TypeOK, Holding, Starting
      <4>3. PublishedInv' /\ StartTaskInv'
        BY <3>1, <4>1 DEF IInv, PublishedInv, StartTaskInv, TypeOK
      <4>4. RequestInv'
        BY <3>1, <4>1 DEF Request, IInv, RequestInv, TypeOK
      <4> QED BY <4>2, <4>3, <4>4 DEF Inv
    <3> QED BY <3>2, <3>3
  <2>10. CASE StartFails(t)
    <3>1. pc[t] = "starting" /\ startLock = t /\ ble = Nobody
      BY <2>10 DEF StartFails, IInv, LockInv, PublishedInv, Holding, Starting
    <3>2. LockInv' /\ RequestInv'
      BY <2>10, <3>1 DEF StartFails, GiveUpStart, IInv, LockInv, RequestInv, TypeOK,
                        Holding, Starting
    <3>3. ConnectInv' /\ PublishedInv' /\ StartTaskInv'
      BY <2>10, <3>1 DEF StartFails, GiveUpStart, IInv, ConnectInv, PublishedInv,
                        StartTaskInv, TypeOK, Starting
    <3> QED BY <3>2, <3>3 DEF Inv
  <2>11. CASE StoppedOwn(t)
    <3>1. pc[t] \in {"aborting", "withdrawing"} /\ startLock = t /\ ble = Nobody
      BY <2>11 DEF StoppedOwn, IInv, LockInv, PublishedInv, Holding, Starting
    <3>2. LockInv' /\ RequestInv'
      BY <2>11, <3>1 DEF StoppedOwn, GiveUpStart, IInv, LockInv, RequestInv, TypeOK,
                        Holding, Starting
    <3>3. ConnectInv' /\ PublishedInv' /\ StartTaskInv'
      BY <2>11, <3>1 DEF StoppedOwn, GiveUpStart, IInv, ConnectInv, PublishedInv,
                        StartTaskInv, TypeOK
    <3> QED BY <3>2, <3>3 DEF Inv
  <2>12. CASE RequestBegins(t)
    <3>1. pc[t] = "requestLock" /\ using[t] \in Senders
      BY <2>12 DEF RequestBegins, IInv, RequestInv, TypeOK
    <3>2. LockInv' /\ ConnectInv' /\ PublishedInv' /\ StartTaskInv'
      BY <2>12, <3>1 DEF RequestBegins, IInv, LockInv, ConnectInv, PublishedInv,
                        StartTaskInv, TypeOK, Holding, Starting, Finished
    <3>3. RequestInv'
      BY <2>12, <3>1 DEF RequestBegins, IInv, RequestInv, TypeOK
    <3> QED BY <3>2, <3>3 DEF Inv
  <2>13. CASE RequestRefused(t)
    BY <2>13, TearDownKeepsInv DEF RequestRefused, Holding, Starting, Finished
  <2>14. CASE RequestAnswered(t)
    <3>1. PICK label \in {"delivered", "cloud", "failed"} : pc' = [pc EXCEPT ![t] = label]
      BY <2>14 DEF RequestAnswered
    <3>2. \A s \in Senders : pc[s] = "requesting" /\ s # t =>
              requestLock'[using[s]] = requestLock[using[s]]
      BY <2>14 DEF RequestAnswered, Unlocked, IInv, RequestInv, TypeOK
    <3> QED BY <2>14, <3>1, <3>2, MoveKeepsInv
            DEF RequestAnswered, Holding, Starting, Finished
  <2>15. CASE RequestFails(t)
    <3>1. \A s \in Senders : pc[s] = "requesting" /\ s # t =>
              requestLock'[using[s]] = requestLock[using[s]]
      BY <2>15 DEF RequestFails, Unlocked, IInv, RequestInv, TypeOK
    <3> QED BY <2>15, <3>1, TearDownKeepsInv
            DEF RequestFails, Holding, Starting, Finished
  <2>16. CASE Cancelled(t)
    <3>1. /\ EndsCancelled(t) /\ pc[t] # "starting"
          /\ UNCHANGED <<link, using>>
          /\ startTask' \in {Nobody, startTask} /\ ble' \in {Nobody, ble}
          /\ ble' = Nobody \/ ble' = ble
          /\ ble' # ble => pc[t] = "withdrawing"
      BY <2>16 DEF Cancelled
    <3>2. pc[t] = "withdrawing" => ble = Nobody
      BY DEF IInv, LockInv, PublishedInv, Holding, Starting
    <3>3. LockInv' /\ ConnectInv'
      BY <3>1 DEF EndsCancelled, ReleaseAll, IInv, LockInv, ConnectInv, TypeOK, Holding,
                  Starting
    <3>4. PublishedInv'
      BY <3>1, <3>2 DEF EndsCancelled, ReleaseAll, IInv, PublishedInv
    <3>5. StartTaskInv' /\ RequestInv'
      BY <3>1 DEF EndsCancelled, ReleaseAll, IInv, StartTaskInv, RequestInv, TypeOK,
                  Finished
    <3> QED BY <3>3, <3>4, <3>5 DEF Inv
  <2>17. CASE StartCancelled(t)
    <3>1. pc[t] = "starting" /\ startLock = t /\ ble = Nobody
      BY <2>17 DEF StartCancelled, IInv, LockInv, PublishedInv, Holding, Starting
    <3>2. LockInv' /\ RequestInv'
      BY <2>17, <3>1 DEF StartCancelled, EndsCancelled, ReleaseAll, IInv, LockInv,
                        RequestInv, TypeOK, Holding, Starting
    <3>3. ConnectInv' /\ PublishedInv' /\ StartTaskInv'
      BY <2>17, <3>1 DEF StartCancelled, EndsCancelled, ReleaseAll, IInv, ConnectInv,
                        PublishedInv, StartTaskInv, TypeOK, Starting, Finished
    <3> QED BY <3>2, <3>3 DEF Inv
  <2>18. CASE Unwound(t)
    <3>1. LockInv' /\ ConnectInv' /\ PublishedInv'
      BY <2>18 DEF Unwound, EndsCancelled, ReleaseAll, IInv, LockInv, ConnectInv,
                   PublishedInv, TypeOK, Holding, Starting
    <3>2. StartTaskInv' /\ RequestInv'
      BY <2>18 DEF Unwound, EndsCancelled, ReleaseAll, IInv, StartTaskInv, RequestInv,
                   TypeOK, Finished
    <3> QED BY <3>1, <3>2 DEF Inv
  <2>19. CASE JoinCancelled(t)
    BY <2>19 DEF JoinCancelled, IInv, Inv, LockInv, ConnectInv, PublishedInv, StartTaskInv,
                 RequestInv
  <2>20. CASE Joined(t)
    BY <2>20, StopKeepsInv DEF Joined, Holding, Starting
  <2>21. CASE Disconnected(t)
    BY <2>21, MoveKeepsInv DEF Disconnected, Holding, Starting, Finished
  <2> QED
    BY <1>1, <2>1, <2>2, <2>3, <2>4, <2>5, <2>6, <2>7, <2>8, <2>9, <2>10, <2>11, <2>12,
       <2>13, <2>14, <2>15, <2>16, <2>17, <2>18, <2>19, <2>20, <2>21 DEF SenderStep
<1>2. ASSUME NEW n \in Senders, LinkLost(n) \/ LinkCloses(n) PROVE Inv'
  <2>1. /\ link[n] \in {"up", "closing"}
        /\ link' \in {[link EXCEPT ![n] = "lost"], [link EXCEPT ![n] = "none"]}
        /\ link[n] = "up" => link' = [link EXCEPT ![n] = "lost"]
        /\ UNCHANGED <<pc, startLock, startTask, ble, requestLock, using>>
    BY <1>2 DEF LinkLost, LinkCloses
  <2>2. LockInv' /\ StartTaskInv' /\ RequestInv'
    BY <2>1 DEF IInv, LockInv, StartTaskInv, RequestInv
  <2>3. ConnectInv' /\ PublishedInv'
    BY <2>1 DEF IInv, ConnectInv, PublishedInv, TypeOK
  <2> QED BY <2>2, <2>3 DEF Inv
<1>3. CASE ShutdownStep
  <2>1. CASE PrepareForShutdown
    BY <2>1, MoveKeepsInv DEF PrepareForShutdown, Finished
  <2>2. CASE BackgroundTasksDone
    BY <2>2, MoveKeepsInv DEF BackgroundTasksDone, Finished
  <2>3. CASE CloudStopped
    BY <2>3, TearDownKeepsInv DEF CloudStopped
  <2>4. CASE Joined(Shutdown)
    BY <2>4, StopKeepsInv DEF Joined
  <2>5. CASE Disconnected(Shutdown)
    BY <2>5, MoveKeepsInv DEF Disconnected, Finished, AfterStop
  <2> QED BY <1>3, <2>1, <2>2, <2>3, <2>4, <2>5 DEF ShutdownStep
<1>4. CASE UNCHANGED vars
  BY <1>4 DEF vars, IInv, Inv, LockInv, ConnectInv, PublishedInv, StartTaskInv, RequestInv
<1> QED BY <1>1, <1>2, <1>3, <1>4 DEF Next

\* The inductive invariant holds in every reachable state
THEOREM IInvAlways == Spec => []IInv
<1> QED BY IInvInit, IInvStep, PTL DEF Spec

-----------------------------------------------------------------------------
(***************************************************************************)
(* The safety properties                                                   *)
(***************************************************************************)

\* At most one transport connects or is connected.  (_ensure_ble)
THEOREM OneLinkAtATime == Spec => []OneLiveLink
<1>1. IInv => OneLiveLink
  <2> SUFFICES ASSUME IInv, NEW m \in Senders, NEW n \in Senders,
                      link[m] \in Live, link[n] \in Live
               PROVE  m = n
    BY DEF OneLiveLink
  <2>1. \A k \in Senders : link[k] = "connecting" => startLock = k /\ ble = Nobody
    BY SendersAssumption
       DEF IInv, ConnectInv, LockInv, PublishedInv, Holding, Starting
  <2>2. \A k \in Senders : link[k] = "up" => ble = k
    BY DEF IInv, PublishedInv
  <2> QED BY <2>1, <2>2, SendersAssumption DEF Live
<1> QED BY <1>1, IInvAlways, PTL

\* Commands never interleave on the vehicle.  (_send_values)
THEOREM OneRequestAtATime == Spec => []OneRequestOnTheLink
<1>1. IInv => OneRequestOnTheLink
  BY DEF IInv, TypeOK, PublishedInv, RequestInv, OneRequestOnTheLink
<1> QED BY <1>1, IInvAlways, PTL

\* Both together: the SCU serves one central, and that one command at a time.
THEOREM TheLinkHasOneUser == Spec => []LinkHasOneUser
BY OneLinkAtATime, OneRequestAtATime, PTL DEF LinkHasOneUser

-----------------------------------------------------------------------------
(***************************************************************************)
(* BleSession implements ExclusiveLink                                     *)
(***************************************************************************)
LEMMA PhaseIs ==
    ASSUME IInv
    PROVE  /\ phase \in {"down", "connecting", "up"}
           /\ phase = "connecting" <=> \E n \in Senders : pc[n] = "starting"
           /\ phase = "up" <=> \E n \in Senders : link[n] = "up"
<1>1. \A n \in Senders : link[n] = "connecting" <=> pc[n] = "starting"
  BY DEF IInv, ConnectInv
<1>2. \A m, n \in Senders : ~(link[m] = "up" /\ pc[n] = "starting")
  BY SendersAssumption DEF IInv, LockInv, PublishedInv, Holding, Starting
<1> QED BY <1>1, <1>2 DEF phase

\* The phase of the abstract link after a step, from its parts.
LEMMA PhaseWillBe ==
    ASSUME IInv'
    PROVE  /\ phase' \in {"down", "connecting", "up"}
           /\ phase' = "connecting" <=> \E n \in Senders : link'[n] = "connecting"
           /\ phase' = "up" <=> \E n \in Senders : link'[n] = "up"
<1>1. \A n \in Senders : link'[n] = "connecting" <=> pc'[n] = "starting"
  BY DEF IInv, ConnectInv
<1>2. \A m, n \in Senders : ~(link'[m] = "up" /\ pc'[n] = "starting")
  BY SendersAssumption DEF IInv, LockInv, PublishedInv, Holding, Starting
<1> QED BY <1>1, <1>2 DEF phase

\* What _stop_ble does to the links
LEMMA StopEffect ==
    ASSUME TypeOK, NEW t \in Tasks, Stop(t, link) \/ TearDown(t)
    PROVE  \A n \in Senders : link'[n] \in Live => link'[n] = link[n]
<1>1. link' = link \/ link' = [link EXCEPT ![ble] = "closing"]
  BY DEF Stop, TearDown
<1> QED BY <1>1 DEF TypeOK, Live

\* Only the start of a transport raises a link, and only the unload seals it
LEMMA OtherStepsLowerLinks ==
    ASSUME IInv, [Next]_vars,
           \A t \in Senders : ~BeginStart(t) /\ ~(StartOk(t) /\ ~shuttingDown)
    PROVE  /\ \A n \in Senders : link'[n] \in Live => link'[n] = link[n]
           /\ \/ shuttingDown' = shuttingDown
              \/ shuttingDown' = TRUE /\ link' = link
<1> DEFINE Lower == /\ \A n \in Senders : link'[n] \in Live => link'[n] = link[n]
                    /\ \/ shuttingDown' = shuttingDown
                       \/ shuttingDown' = TRUE /\ link' = link
<1> USE LabelFacts
<1>t. TypeOK
  BY DEF IInv
<1>1. ASSUME NEW t \in Senders, SenderStep(t) PROVE Lower
  <2>1. CASE \/ CloudFirst(t) \/ CloudEnds(t) \/ RefuseBle(t) \/ UseSession(t)
             \/ WaitForStart(t) \/ RefuseStart(t) \/ StoppedOwn(t) \/ RequestBegins(t)
             \/ RequestAnswered(t) \/ Cancelled(t) \/ Unwound(t) \/ JoinCancelled(t)
             \/ Disconnected(t)
    <3>1. link' = link /\ shuttingDown' = shuttingDown
      BY <2>1 DEF CloudFirst, CloudEnds, RefuseBle, UseSession, WaitForStart, RefuseStart,
                  StoppedOwn, RequestBegins, RequestAnswered, Cancelled, Unwound,
                  JoinCancelled, Disconnected
    <3> QED BY <3>1
  <2>2. CASE RequestRefused(t) \/ RequestFails(t) \/ Joined(t)
    <3>1. (TearDown(t) \/ Stop(t, link)) /\ shuttingDown' = shuttingDown
      BY <2>2 DEF RequestRefused, RequestFails, Joined
    <3> QED BY <1>t, <3>1, StopEffect
  <2>3. CASE ReplaceStale(t) \/ StartFails(t) \/ StartCancelled(t)
    <3>1. /\ shuttingDown' = shuttingDown
          /\ \E n \in Senders, l \in {"none", "closing"} : link' = [link EXCEPT ![n] = l]
      BY <1>t, <2>3 DEF ReplaceStale, StartFails, StartCancelled, TypeOK
    <3> QED BY <1>t, <3>1 DEF TypeOK, Live
  <2>4. CASE StartOk(t)
    <3>1. /\ shuttingDown' = shuttingDown /\ link' = [link EXCEPT ![t] = "closing"]
      BY <2>4 DEF StartOk
    <3> QED BY <1>t, <3>1 DEF TypeOK, Live
  <2> QED BY <1>1, <2>1, <2>2, <2>3, <2>4 DEF SenderStep
<1>2. ASSUME NEW n \in Senders, LinkLost(n) \/ LinkCloses(n) PROVE Lower
  <2>1. /\ shuttingDown' = shuttingDown
        /\ \E l \in {"none", "lost"} : link' = [link EXCEPT ![n] = l]
    BY <1>2 DEF LinkLost, LinkCloses
  <2> QED BY <1>t, <2>1 DEF TypeOK, Live
<1>3. ASSUME ShutdownStep PROVE Lower
  <2>1. CASE PrepareForShutdown \/ BackgroundTasksDone \/ Disconnected(Shutdown)
    <3>1. link' = link /\ (shuttingDown' = shuttingDown \/ shuttingDown' = TRUE)
      BY <2>1 DEF PrepareForShutdown, BackgroundTasksDone, Disconnected
    <3> QED BY <3>1
  <2>2. CASE CloudStopped \/ Joined(Shutdown)
    <3>1. (TearDown(Shutdown) \/ Stop(Shutdown, link)) /\ shuttingDown' = shuttingDown
      BY <2>2 DEF CloudStopped, Joined
    <3> QED BY <1>t, <3>1, StopEffect
  <2> QED BY <1>3, <2>1, <2>2 DEF ShutdownStep
<1>4. ASSUME UNCHANGED vars PROVE Lower
  BY <1>4 DEF vars
<1> QED BY <1>1, <1>2, <1>3, <1>4 DEF Next

\* Once the unload has begun no start begins and none is published, and there
\* is one link.  (async_prepare_for_shutdown, _ensure_ble)
THEOREM BleSessionImplementsExclusiveLink == Spec => ImplementsExclusiveLink
<1>1. Init => Promise!Init
  BY DEF Init, Promise!Init, phase
<1>2. IInv /\ IInv' /\ [Next]_vars => [Promise!Next]_(Promise!vars)
  <2> SUFFICES ASSUME IInv, IInv', [Next]_vars PROVE [Promise!Next]_(Promise!vars)
    OBVIOUS
  <2>p. /\ phase \in {"down", "connecting", "up"}
        /\ phase = "connecting" <=> \E n \in Senders : link[n] = "connecting"
        /\ phase = "up" <=> \E n \in Senders : link[n] = "up"
    BY PhaseIs DEF IInv, ConnectInv
  <2>1. ASSUME NEW t \in Senders, BeginStart(t) PROVE Promise!Connect
    <3>1. ble = Nobody /\ (startLock = Nobody \/ (pc[t] = "replacing" /\ startLock = t))
      <4>1. CASE EntersLock(t) /\ ble = Nobody
        BY <4>1 DEF EntersLock
      <4>2. CASE pc[t] = "replacing"
        BY <4>2, SendersAssumption DEF IInv, LockInv, PublishedInv, Holding
      <4> QED BY <2>1, <4>1, <4>2 DEF BeginStart, Replaced
    <3>2. \A n \in Senders : link[n] # "up" /\ link[n] # "connecting"
      BY <3>1, SendersAssumption
         DEF IInv, LockInv, ConnectInv, PublishedInv, Holding, Starting
    <3>3. phase = "down"
      BY <2>p, <3>2
    <3>4. link'[t] = "connecting" /\ ~shuttingDown /\ shuttingDown' = shuttingDown
      BY <2>1 DEF BeginStart, IInv, TypeOK
    <3>5. phase' = "connecting"
      BY <3>4, PhaseWillBe
    <3> QED BY <3>3, <3>4, <3>5 DEF Promise!Connect
  <2>2. ASSUME NEW t \in Senders, StartOk(t), ~shuttingDown PROVE Promise!Succeed
    <3>1. pc[t] = "starting" /\ link'[t] = "up" /\ shuttingDown' = shuttingDown
      BY <2>2 DEF StartOk, IInv, TypeOK
    <3>2. phase = "connecting"
      BY <3>1, PhaseIs
    <3>3. phase' = "up"
      BY <3>1, PhaseWillBe
    <3> QED BY <2>2, <3>1, <3>2, <3>3 DEF Promise!Succeed
  <2>3. CASE \A t \in Senders : ~BeginStart(t) /\ ~(StartOk(t) /\ ~shuttingDown)
    <3>1. /\ \A n \in Senders : link'[n] \in Live => link'[n] = link[n]
          /\ \/ shuttingDown' = shuttingDown
             \/ shuttingDown' = TRUE /\ link' = link
      BY <2>3, OtherStepsLowerLinks
    <3>2. phase' = phase \/ phase' = "down"
      BY <2>p, <3>1, PhaseWillBe DEF Live
    <3>3. link' = link => phase' = phase
      BY DEF phase
    <3> QED BY <2>p, <3>1, <3>2, <3>3 DEF Promise!Next, Promise!vars, Promise!Fall, Promise!Seal
  <2> QED BY <2>1, <2>2, <2>3 DEF Promise!Next
<1> QED BY <1>1, <1>2, IInvAlways, PTL DEF Spec, ImplementsExclusiveLink, Promise!Spec
=============================================================================
