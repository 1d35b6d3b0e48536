------------------------------- MODULE PiaProofs -------------------------------
(***************************************************************************)
(* Proofs about the requests of the PIA protocol.  First PiaRequests, for  *)
(* any requests and any numbers of expiries and faults: its types, that no *)
(* request is executed twice, that success is the request's own, that      *)
(* nothing is written for a sender that has given up, and that a queued    *)
(* request has a refresh.  Then PiaWire, byte by byte, for any commands,   *)
(* catalogs, noise and numbers of requests and frames: its types, that     *)
(* frames are put together whole and in order, that answers reach their    *)
(* request, that the vehicle reads of a command what was asked, and that   *)
(* the decoder reads of a report, whatever it holds, what it holds.        *)
(***************************************************************************)
EXTENDS PiaRequests, PiaWire, PiaCodecProofs

---------------------------------------------------------------------------
(* PiaRequests.                                                            *)

(***************************************************************************)
(* The inductive invariant.  That a replay never makes a second copy rests *)
(* on what the queues hold: requests the hub has not got, or has refused   *)
(* as expired, so that no copy, answer or execution of them exists.        *)
(***************************************************************************)
Statuses == {"ok", "error", "expired"}

Unanswered(r) == \A status \in Statuses : <<r, status>> \notin answers

\* The hub has nothing of r, and never executed it
Fresh(r) == copies[r] = 0 /\ Unanswered(r) /\ executed[r] = 0

QueueInv ==
    /\ \A r \in waiting \cup batch : Fresh(r)
    /\ waiting \cap batch = {}

HubInv ==
    \A r \in Requests :
        /\ pc[r] = "idle" => Fresh(r) /\ r \notin waiting \cup batch \cup pending
        /\ copies[r] = 1 => executed[r] = 0 /\ Unanswered(r)
        /\ <<r, "expired">> \in answers =>
               executed[r] = 0 /\ <<r, "ok">> \notin answers /\ <<r, "error">> \notin answers

\* Whoever waits for a request has not returned
SenderInv == \A r \in pending : pc[r] \in {"writing", "waiting"}

\* Success was caused by an execution
OkInv ==
    \A r \in Requests :
        /\ <<r, "ok">> \in answers => executed[r] > 0
        /\ future[r] = "ok" => executed[r] > 0
        /\ pc[r] = "answered" => executed[r] > 0

\* Only the end of listen() and stop() cancel the refresh
CancelInv == cancelled => listen # "running" \/ stop # "no"

IInv ==
    /\ TypeOK /\ QueueInv /\ HubInv /\ SenderInv /\ OkInv /\ CancelInv
    /\ NeverExecutedTwice /\ QueuedHaveARefresh

-----------------------------------------------------------------------------
(***************************************************************************)
(* Type correctness                                                        *)
(***************************************************************************)
LEMMA FailTypes ==
    ASSUME TypeOK, NEW rs \in SUBSET Requests, Fail(rs)
    PROVE  future' \in [Requests -> {"none", "ok", "error"}] /\ pending' \in SUBSET Requests
BY DEF Fail, TypeOK

\* A fault never counts past its bound.
LEMMA FaultTypes == ASSUME TypeOK, Fault PROVE faults' \in 0..MaxFaults
BY RequestsAssumption DEF TypeOK, Fault

\* What a replay writes is fresh, and was in its queue or in the waiting one
LEMMA TodoFacts ==
    ASSUME IInv, NEW q \in SUBSET Requests, q \subseteq batch
    PROVE  /\ Todo(q) \subseteq q \cup waiting /\ Todo(q) \subseteq pending
           /\ Live(q) # {} => Todo(q) \subseteq q
           /\ \A r \in Todo(q) : r \in Requests /\ Fresh(r)
BY DEF Todo, Live, IInv, QueueInv, TypeOK

\* Writing a request leaves every variable in its type.
LEMMA WriteTypes ==
    ASSUME IInv, NEW r \in Requests, Fresh(r), Write(r)
    PROVE  copies' \in [Requests -> 0..1]
BY DEF IInv, TypeOK, Fresh, Write

\* Replaying the queue leaves every variable in its type.
LEMMA ReplayTypes ==
    ASSUME IInv, NEW q \in SUBSET Requests, socket = "open" => q \subseteq batch, Replay(q)
    PROVE  /\ future' \in [Requests -> {"none", "ok", "error"}] /\ pending' \in SUBSET Requests
           /\ waiting' \in SUBSET Requests /\ batch' \in SUBSET Requests
           /\ inFlight' \in SUBSET Requests
           /\ refresh' \in RunningStates \cup {"none", "failed"}
           /\ copies' \in [Requests -> 0..1]
<1>1. CASE ReplayNext(q)
  <2>1. PICK r \in Todo(q) : Write(r) /\ inFlight' = {r} /\ batch' = Todo(q) \ {r}
    BY <1>1 DEF ReplayNext
  <2>2. r \in Requests /\ Fresh(r) /\ Todo(q) \subseteq Requests
    BY <1>1, TodoFacts DEF ReplayNext
  <2>3. copies' \in [Requests -> 0..1]
    BY <2>1, <2>2, WriteTypes
  <2> QED BY <1>1, <2>1, <2>2, <2>3 DEF ReplayNext, IInv, TypeOK, RunningStates
<1>2. CASE ReplayEnds(q)
  <2>1. Fail(q \cup waiting) /\ (q \cup waiting) \in SUBSET Requests
    BY <1>2 DEF ReplayEnds, IInv, TypeOK
  <2>2. future' \in [Requests -> {"none", "ok", "error"}] /\ pending' \in SUBSET Requests
    BY <2>1, FailTypes DEF IInv
  <2> QED BY <1>2, <2>2 DEF ReplayEnds, IInv, TypeOK
<1> QED BY <1>1, <1>2 DEF Replay

\* Every step keeps the types: one case per action.
LEMMA TypeStep == IInv /\ [Next]_vars => TypeOK'
<1> SUFFICES ASSUME IInv, [Next]_vars PROVE TypeOK'
  OBVIOUS
<1>t. TypeOK
  BY DEF IInv
<1>1. ASSUME NEW r \in Requests, Request(r) PROVE TypeOK'
  <2>1. CASE Refuse(r)
    BY <1>t, <2>1 DEF Refuse, TypeOK, Returned, replay, client, hub
  <2>2. CASE Send(r)
    <3>1. Fresh(r)
      BY <2>2 DEF Send, IInv, HubInv
    <3>2. copies' \in [Requests -> 0..1]
      BY <1>t, <2>2, <3>1, WriteTypes DEF Send, TypeOK
    <3> QED BY <1>t, <2>2, <3>2 DEF Send, TypeOK, replay, client
  <2>3. CASE Written(r)
    BY <1>t, <2>3 DEF Written, TypeOK, replay, client, hub
  <2>4. CASE WriteFails(r)
    BY <1>t, <2>4 DEF WriteFails, TypeOK, Returned, replay, client, hub
  <2>5. CASE Resume(r)
    BY <1>t, <2>5 DEF Resume, TypeOK, Returned, replay, client, hub
  <2>6. CASE TimesOut(r)
    BY <1>t, <2>6 DEF TimesOut, TypeOK, Returned, replay, client, hub
  <2> QED BY <1>1, <2>1, <2>2, <2>3, <2>4, <2>5, <2>6 DEF Request
<1>2. ASSUME NEW r \in Requests, Handle(r) PROVE TypeOK'
  <2>1. copies[r] \in 0..1 /\ copies[r] > 0 /\ copies' = [copies EXCEPT ![r] = @ - 1]
    BY <1>t, <1>2 DEF Handle, TypeOK
  <2>2. copies' \in [Requests -> 0..1]
    BY <1>t, <2>1 DEF TypeOK
  <2>3. answers' \in SUBSET (Requests \X {"ok", "error", "expired"})
    BY <1>t, <1>2 DEF Handle, TypeOK
  <2>4. executed' \in [Requests -> Nat] /\ expiries' \in 0..MaxExpiries
    BY <1>t, <1>2, RequestsAssumption DEF Handle, TypeOK
  <2> QED BY <1>t, <1>2, <2>2, <2>3, <2>4 DEF Handle, TypeOK, replay, client
<1>3. ASSUME NEW r \in Requests, Message(r) PROVE TypeOK'
  <2>1. CASE Deliver(r)
    BY <1>t, <2>1 DEF Deliver, TypeOK, replay, client
  <2>2. CASE DeliverExpired(r)
    BY <1>t, <2>2 DEF DeliverExpired, TypeOK, RunningStates, client
  <2> QED BY <1>3, <2>1, <2>2 DEF Message
<1>4. ASSUME RefreshRaises
      PROVE  /\ future' \in [Requests -> {"none", "ok", "error"}] /\ pending' \in SUBSET Requests
             /\ waiting' \in SUBSET Requests /\ batch' \in SUBSET Requests
             /\ inFlight' \in SUBSET Requests
             /\ refresh' \in RunningStates \cup {"none", "failed"}
  BY <1>t, <1>4, FailTypes DEF RefreshRaises, TypeOK
<1>5. ASSUME Refresh PROVE TypeOK'
  <2>1. CASE Exchanged
    <3>1. faults' \in 0..MaxFaults
      BY <1>t, <2>1, FaultTypes DEF Exchanged, TypeOK
    <3> QED BY <1>t, <1>4, <2>1, <3>1 DEF Exchanged, TypeOK, RunningStates, client, hub
  <2>2. CASE Updated
    <3>1. {} \in SUBSET Requests /\ {} \subseteq batch /\ Replay({})
      BY <2>2 DEF Updated
    <3> QED BY <1>t, <2>2, <3>1, ReplayTypes DEF Updated, TypeOK, client
  <2>3. CASE UpdateFails
    <3>1. faults' \in 0..MaxFaults
      BY <1>t, <2>3, FaultTypes DEF UpdateFails, TypeOK
    <3> QED BY <1>t, <1>4, <2>3, <3>1 DEF UpdateFails, TypeOK, client, hub
  <2>4. CASE Replayed
    <3> DEFINE q == IF socket = "open" THEN batch ELSE batch \cup inFlight
    <3>1. q \in SUBSET Requests /\ (socket = "open" => q \subseteq batch) /\ Replay(q)
      BY <1>t, <2>4 DEF Replayed, TypeOK
    <3> HIDE DEF q
    <3> QED BY <1>t, <2>4, <3>1, ReplayTypes DEF Replayed, TypeOK, client
  <2>5. CASE ForgetFailed \/ RefreshCancelled
    BY ZenonT(40), <1>t, <2>5 DEF ForgetFailed, RefreshCancelled, TypeOK, client, hub
  <2> QED BY <1>5, <2>1, <2>2, <2>3, <2>4, <2>5 DEF Refresh
<1>6. ASSUME Connection PROVE TypeOK'
  <2>1. CASE SocketLost
    BY <1>t, <2>1, FaultTypes DEF SocketLost, TypeOK, replay, hub
  <2>2. ASSUME CleanUp
        PROVE  /\ future' \in [Requests -> {"none", "ok", "error"}] /\ pending' \in SUBSET Requests
               /\ waiting' \in SUBSET Requests /\ listen' = "ended"
               /\ connected' = FALSE /\ notified' = TRUE
    <3>1. Fail(pending) /\ pending \in SUBSET Requests
      BY <1>t, <2>2 DEF CleanUp, TypeOK
    <3> QED BY <1>t, <2>2, <3>1, FailTypes DEF CleanUp, TypeOK
  <2>3. CASE ListenEnds
    BY <1>t, <2>2, <2>3 DEF ListenEnds, TypeOK, hub
  <2>4. CASE ListenCleansUp
    BY <1>t, <2>2, <2>4 DEF ListenCleansUp, TypeOK, replay, hub
  <2>5. CASE StopBegins
    BY <1>t, <2>5 DEF StopBegins, TypeOK, RefreshRuns, hub
  <2>6. CASE StopCloses \/ StopEnds
    BY <1>t, <2>6 DEF StopCloses, StopEnds, TypeOK, replay, hub
  <2> QED BY <1>6, <2>1, <2>3, <2>4, <2>5, <2>6 DEF Connection
<1>7. CASE UNCHANGED vars
  BY <1>t, <1>7 DEF vars, replay, client, hub, TypeOK
<1> QED BY <1>1, <1>2, <1>3, <1>5, <1>6, <1>7 DEF Next

-----------------------------------------------------------------------------
(***************************************************************************)
(* The rest of the inductive invariant                                     *)
(***************************************************************************)
LEMMA InitIInv == Init => IInv
<1> SUFFICES ASSUME Init PROVE IInv
  OBVIOUS
<1>1. 0 \in 0..MaxExpiries /\ 0 \in 0..MaxFaults /\ 0 \in 0..1
  BY RequestsAssumption
<1>2. TypeOK
  BY <1>1 DEF Init, TypeOK
<1>3. QueueInv /\ HubInv /\ SenderInv /\ OkInv
  BY DEF Init, QueueInv, HubInv, SenderInv, OkInv, Fresh, Unanswered, Statuses
<1>4. CancelInv /\ NeverExecutedTwice /\ QueuedHaveARefresh
  BY DEF Init, CancelInv, NeverExecutedTwice, QueuedHaveARefresh
<1> QED BY <1>2, <1>3, <1>4 DEF IInv

Safety == QueueInv /\ HubInv /\ SenderInv /\ OkInv /\ NeverExecutedTwice

\* What resolves futures with an exception, and empties queues, does no harm
LEMMA FailSafe ==
    ASSUME IInv, NEW rs, Fail(rs), UNCHANGED <<pc, hub>>,
           waiting' \subseteq waiting, batch' \subseteq batch
    PROVE  Safety'
<1>1. pending' \subseteq pending /\ \A r \in Requests : future'[r] = "ok" => future[r] = "ok"
  BY DEF Fail
<1>2. pc' = pc /\ copies' = copies /\ answers' = answers /\ executed' = executed
  BY DEF hub
<1> QED BY <1>1, <1>2 DEF Safety, IInv, QueueInv, HubInv, SenderInv, OkInv,
                           NeverExecutedTwice, Fresh, Unanswered

\* Writing a request executes no request for the second time.
LEMMA WriteSafe ==
    ASSUME IInv, NEW r \in Requests, Fresh(r), Write(r),
           UNCHANGED <<future, answers, executed>>,
           \A t \in Requests : t # r => pc'[t] = pc[t],
           pc'[r] \in {"writing", "waiting"}, r \notin waiting', r \notin batch',
           waiting' \cap batch' = {}, waiting' \cup batch' \subseteq waiting \cup batch,
           pending' \subseteq pending \cup {r}
    PROVE  Safety'
<1> USE DEF IInv
<1>1. copies'[r] = 1 /\ \A t \in Requests : t # r => copies'[t] = copies[t]
  BY DEF Write, Fresh, TypeOK
<1>2. QueueInv' /\ NeverExecutedTwice'
  BY <1>1 DEF QueueInv, NeverExecutedTwice, TypeOK, Fresh, Unanswered
<1>3. HubInv'
  <2> SUFFICES ASSUME NEW t \in Requests
               PROVE  /\ pc'[t] = "idle" => Fresh(t)' /\ t \notin waiting' \cup batch' \cup pending'
                      /\ copies'[t] = 1 => executed'[t] = 0 /\ Unanswered(t)'
                      /\ <<t, "expired">> \in answers' =>
                            executed'[t] = 0 /\ <<t, "ok">> \notin answers'
                            /\ <<t, "error">> \notin answers'
    BY Zenon DEF HubInv
  <2>1. CASE t = r
    BY <1>1, <2>1 DEF HubInv, Fresh, Unanswered, Statuses
  <2>2. CASE t # r
    BY <1>1, <2>2 DEF HubInv, Fresh, Unanswered
  <2> QED BY <2>1, <2>2
<1>4. SenderInv' /\ OkInv'
  BY DEF SenderInv, OkInv, TypeOK
<1> QED BY <1>2, <1>3, <1>4 DEF Safety

\* Replaying the queue executes no request for the second time.
LEMMA ReplaySafe ==
    ASSUME IInv, NEW q \in SUBSET Requests, socket = "open" => q \subseteq batch, Replay(q),
           UNCHANGED <<pc, answers, executed, expiries>>
    PROVE  Safety'
<1>1. CASE ReplayNext(q)
  <2>1. PICK r \in Todo(q) : Write(r) /\ inFlight' = {r} /\ batch' = Todo(q) \ {r}
    BY <1>1 DEF ReplayNext
  <2>2. r \in Requests /\ Fresh(r) /\ r \in pending /\ Todo(q) \subseteq q \cup waiting
        /\ (Live(q) # {} => Todo(q) \subseteq q) /\ q \subseteq batch
    BY <1>1, TodoFacts DEF ReplayNext
  <2>3. waiting' = IF Live(q) # {} THEN waiting ELSE {}
    BY <1>1 DEF ReplayNext
  <2>4. r \notin waiting' /\ waiting' \cap batch' = {}
        /\ waiting' \cup batch' \subseteq waiting \cup batch
    BY <2>1, <2>2, <2>3 DEF IInv, QueueInv
  <2>5. pc'[r] \in {"writing", "waiting"}
    BY <2>2 DEF IInv, SenderInv
  <2> QED BY <1>1, <2>1, <2>2, <2>4, <2>5, WriteSafe DEF ReplayNext
<1>2. CASE ReplayEnds(q)
  <2>1. Fail(q \cup waiting) /\ waiting' = {} /\ batch' = {} /\ copies' = copies
    BY <1>2 DEF ReplayEnds
  <2> QED BY <2>1, FailSafe DEF hub
<1> QED BY <1>1, <1>2 DEF Replay

\* Every step keeps the safety part of the invariant: one case per action.
LEMMA SafetyStep == IInv /\ [Next]_vars => Safety'
<1> SUFFICES ASSUME IInv, [Next]_vars PROVE Safety'
  OBVIOUS
<1> USE DEF IInv
<1>1. ASSUME NEW r \in Requests, Request(r) PROVE Safety'
  <2>1. CASE Send(r)
    <3>1. Fresh(r) /\ r \notin waiting \cup batch
      BY <2>1 DEF Send, HubInv
    <3>2. CASE RefreshRuns
      BY <2>1, <3>1, <3>2 DEF Send, replay, TypeOK, Safety, QueueInv, HubInv, SenderInv,
                              OkInv, NeverExecutedTwice, Fresh, Unanswered
    <3>3. CASE ~RefreshRuns
      <4>1. Write(r) /\ pc' = [pc EXCEPT ![r] = "writing"] /\ waiting' = waiting
            /\ batch' = batch /\ pending' = pending \cup {r}
            /\ UNCHANGED <<future, answers, executed>>
        BY <2>1, <3>3 DEF Send, replay
      <4>2. pc'[r] = "writing" /\ \A t \in Requests : t # r => pc'[t] = pc[t]
        BY <4>1 DEF TypeOK
      <4> QED BY <3>1, <4>1, <4>2, WriteSafe DEF QueueInv
    <3> QED BY <3>2, <3>3
  <2>2. CASE Refuse(r) \/ Written(r) \/ WriteFails(r) \/ Resume(r) \/ TimesOut(r)
    <3>1. pc'[r] # "idle" /\ pending' \subseteq pending /\ future' = future
          /\ (pc'[r] = "answered" => future[r] = "ok")
          /\ (r \in pending' => pc'[r] = "waiting")
          /\ UNCHANGED <<waiting, batch, copies, answers, executed>>
      BY <2>2 DEF Refuse, Written, WriteFails, Resume, TimesOut, TypeOK, replay, hub, HubInv
    <3>2. \A t \in Requests : t # r => pc'[t] = pc[t]
      BY <2>2 DEF Refuse, Written, WriteFails, Resume, TimesOut, TypeOK
    <3> QED BY <3>1, <3>2 DEF Safety, QueueInv, HubInv, SenderInv, OkInv,
                              NeverExecutedTwice, Fresh, Unanswered, TypeOK
  <2> QED BY <1>1, <2>1, <2>2 DEF Request
<1>2. ASSUME NEW r \in Requests, Handle(r) PROVE Safety'
  <2>a. copies[r] \in 0..1 /\ copies[r] > 0 /\ copies' = [copies EXCEPT ![r] = @ - 1]
    BY <1>2 DEF Handle, TypeOK
  <2>b. copies[r] = 1 /\ copies'[r] = 0
    BY <2>a DEF TypeOK
  <2>1. executed[r] = 0 /\ Unanswered(r)
    BY <2>b DEF HubInv
  <2>2. \A t \in Requests : t # r =>
            /\ copies'[t] = copies[t] /\ executed'[t] = executed[t]
            /\ \A status \in Statuses : <<t, status>> \in answers' <=> <<t, status>> \in answers
    BY <1>2 DEF Handle, TypeOK
  <2>3. r \notin waiting \cup batch /\ pc[r] # "idle"
    <3>1. ~Fresh(r)
      BY <2>b DEF Fresh
    <3> QED BY <3>1 DEF QueueInv, HubInv
  <2>4. executed'[r] \in 0..1 /\ (<<r, "ok">> \in answers' => executed'[r] = 1)
        /\ (<<r, "expired">> \in answers' => executed'[r] = 0
              /\ <<r, "ok">> \notin answers' /\ <<r, "error">> \notin answers')
    BY <1>2, <2>1 DEF Handle, TypeOK, Unanswered, Statuses
  <2>5. UNCHANGED <<pc, future, pending, waiting, batch>>
    BY <1>2 DEF Handle, replay
  <2>6. \A t \in waiting \cup batch : t \in Requests /\ t # r
    BY <2>3 DEF TypeOK
  <2>7. QueueInv' /\ HubInv'
    BY <2>b, <2>1, <2>2, <2>3, <2>4, <2>5, <2>6
    DEF QueueInv, HubInv, Fresh, Unanswered, Statuses
  <2>8. executed[r] = 0 /\ executed'[r] >= 0
    BY <2>1, <2>4
  <2>9. SenderInv' /\ NeverExecutedTwice'
    BY <2>2, <2>4, <2>5 DEF SenderInv, NeverExecutedTwice
  <2>10. OkInv'
    <3> SUFFICES ASSUME NEW t \in Requests
                 PROVE  /\ <<t, "ok">> \in answers' => executed'[t] > 0
                        /\ future'[t] = "ok" => executed'[t] > 0
                        /\ pc'[t] = "answered" => executed'[t] > 0
      BY Zenon DEF OkInv
    <3>1. CASE t = r
      <4>1. future[r] # "ok" /\ pc[r] # "answered"
        <5>1. ~(executed[r] > 0)
          BY <2>8
        <5> QED BY <5>1 DEF OkInv
      <4> QED BY <3>1, <4>1, <2>4, <2>5
    <3>2. CASE t # r
      BY <3>2, <2>2, <2>5 DEF OkInv, Statuses
    <3> QED BY <3>1, <3>2
  <2> QED BY <2>7, <2>9, <2>10 DEF Safety
<1>3. ASSUME NEW r \in Requests, Deliver(r) PROVE Safety'
  <2>1. answers' \subseteq answers /\ pending' \subseteq pending
        /\ \A t \in Requests : future'[t] = "ok" => future[t] = "ok" \/ <<t, "ok">> \in answers
    BY <1>3 DEF Deliver, TypeOK
  <2>2. UNCHANGED <<pc, waiting, batch, copies, executed>>
    BY <1>3 DEF Deliver, replay
  <2> QED BY <2>1, <2>2 DEF Safety, QueueInv, HubInv, SenderInv, OkInv,
                            NeverExecutedTwice, Fresh, Unanswered
<1>4. ASSUME NEW r \in Requests, DeliverExpired(r) PROVE Safety'
  <2>1. <<r, "expired">> \in answers /\ answers' = answers \ {<<r, "expired">>}
        /\ waiting' = waiting \cup {r} /\ UNCHANGED <<pc, future, pending, batch, copies, executed>>
    BY <1>4 DEF DeliverExpired
  <2>a. ~Unanswered(r) /\ executed[r] = 0
    BY <2>1 DEF Unanswered, Statuses, HubInv
  <2>b. copies[r] # 1 /\ copies[r] \in 0..1 /\ ~Fresh(r)
    BY <2>a DEF HubInv, Fresh, TypeOK
  <2>c. copies[r] = 0
    BY <2>b
  <2>d. r \notin batch
    BY <2>b DEF QueueInv
  <2>2. executed[r] = 0 /\ copies[r] = 0 /\ r \notin batch /\ pc[r] # "idle"
    BY <2>a, <2>b, <2>c, <2>d DEF HubInv
  <2>3. Fresh(r)'
    BY <2>1, <2>2 DEF HubInv, Fresh, Unanswered, Statuses
  <2> QED BY <2>1, <2>2, <2>3 DEF Safety, QueueInv, HubInv, SenderInv, OkInv,
                                  NeverExecutedTwice, Fresh, Unanswered, TypeOK
<1>5. ASSUME UNCHANGED <<pc, future, pending, waiting, hub>>, batch' \subseteq batch
      PROVE  Safety'
  BY <1>5 DEF hub, Safety, QueueInv, HubInv, SenderInv, OkInv, NeverExecutedTwice,
              Fresh, Unanswered
<1>6. ASSUME RefreshRaises, UNCHANGED <<pc, hub>> PROVE Safety'
  BY <1>6, FailSafe DEF RefreshRaises
<1>7. ASSUME Refresh PROVE Safety'
  <2>1. CASE Exchanged \/ UpdateFails
    BY <2>1, <1>5, <1>6 DEF Exchanged, UpdateFails
  <2>2. CASE Updated
    <3>1. {} \in SUBSET Requests /\ {} \subseteq batch /\ Replay({})
      BY <2>2 DEF Updated
    <3> QED BY <2>2, <3>1, ReplaySafe DEF Updated
  <2>3. CASE Replayed
    <3> DEFINE q == IF socket = "open" THEN batch ELSE batch \cup inFlight
    <3>1. q \in SUBSET Requests /\ (socket = "open" => q \subseteq batch) /\ Replay(q)
      BY <2>3 DEF Replayed, TypeOK
    <3> HIDE DEF q
    <3> QED BY <2>3, <3>1, ReplaySafe DEF Replayed
  <2>4. CASE ForgetFailed \/ RefreshCancelled
    BY <2>4, <1>5 DEF ForgetFailed, RefreshCancelled
  <2> QED BY <1>7, <2>1, <2>2, <2>3, <2>4 DEF Refresh
<1>8. ASSUME Connection PROVE Safety'
  <2>1. CASE SocketLost \/ StopBegins \/ StopCloses \/ StopEnds
    BY <2>1, <1>5 DEF SocketLost, StopBegins, StopCloses, StopEnds, replay
  <2>2. ASSUME CleanUp, UNCHANGED <<pc, batch, hub>> PROVE Safety'
    BY <2>2, FailSafe DEF CleanUp
  <2>3. CASE ListenEnds
    BY <2>3, <1>5, <2>2 DEF ListenEnds
  <2>4. CASE ListenCleansUp
    BY <2>4, <2>2 DEF ListenCleansUp, replay
  <2> QED BY <1>8, <2>1, <2>3, <2>4 DEF Connection
<1>9. CASE UNCHANGED vars
  BY <1>9, <1>5 DEF vars, replay
<1> QED BY <1>1, <1>2, <1>3, <1>4, <1>7, <1>8, <1>9 DEF Next, Message

\* Every step keeps a refresh under way while requests are queued.
LEMMA LifeStep == IInv /\ [Next]_vars => CancelInv' /\ QueuedHaveARefresh'
<1> SUFFICES ASSUME IInv, [Next]_vars PROVE CancelInv' /\ QueuedHaveARefresh'
  OBVIOUS
<1> USE DEF IInv, CancelInv, QueuedHaveARefresh, RefreshRuns, RunningStates
<1>1. ASSUME NEW r \in Requests, Request(r) PROVE CancelInv' /\ QueuedHaveARefresh'
  BY <1>1 DEF Request, Refuse, Send, Written, WriteFails, Resume, TimesOut, replay, client
<1>2. ASSUME NEW r \in Requests, Handle(r) \/ Message(r)
      PROVE  CancelInv' /\ QueuedHaveARefresh'
  BY <1>2 DEF Handle, Message, Deliver, DeliverExpired, replay, client
<1>3. ASSUME Refresh PROVE CancelInv' /\ QueuedHaveARefresh'
  <2>1. CASE Exchanged \/ UpdateFails
    BY <2>1 DEF Exchanged, UpdateFails, RefreshRaises, client
  <2>2. CASE Updated \/ Replayed
    BY <2>2 DEF Updated, Replayed, Replay, ReplayNext, ReplayEnds, client
  <2>3. CASE ForgetFailed \/ RefreshCancelled
    BY <2>3 DEF ForgetFailed, RefreshCancelled, client
  <2> QED BY <1>3, <2>1, <2>2, <2>3 DEF Refresh
<1>4. ASSUME Connection PROVE CancelInv' /\ QueuedHaveARefresh'
  BY <1>4 DEF Connection, SocketLost, ListenEnds, ListenCleansUp, CleanUp, StopBegins,
              StopCloses, StopEnds, replay
<1>5. CASE UNCHANGED vars
  BY <1>5 DEF vars, replay, client
<1> QED BY <1>1, <1>2, <1>3, <1>4, <1>5 DEF Next

\* The invariant holds in every reachable state.
LEMMA IInvAlways == Spec => []IInv
<1>1. IInv /\ [Next]_vars => IInv'
  BY TypeStep, SafetyStep, LifeStep DEF IInv, Safety
<1> QED BY InitIInv, <1>1, PTL DEF Spec

-----------------------------------------------------------------------------
(***************************************************************************)
(* The theorems                                                            *)
(***************************************************************************)

\* The client's state keeps its types, and the hub never holds two copies
\* of one request: send_pia_request and the replay never both write it.
THEOREM TypeCorrect == Spec => []TypeOK
<1>1. IInv => TypeOK
  BY DEF IInv
<1> QED BY IInvAlways, <1>1, PTL

\* _schedule_token_refresh_retry replays no request that was executed:
\* whatever expires and fails, the vehicle executes each at most once.
THEOREM ExecutedOnce == Spec => []NeverExecutedTwice
<1>1. IInv => NeverExecutedTwice
  BY DEF IInv
<1> QED BY IInvAlways, <1>1, PTL

\* send_pia_request returns True only for a request that was executed.
THEOREM SuccessIsTheRequests == Spec => []SuccessIsOwn
<1>1. IInv => SuccessIsOwn
  BY DEF IInv, OkInv, SuccessIsOwn
<1> QED BY IInvAlways, <1>1, PTL

\* Success means one execution, of the request that was sent.
THEOREM SuccessIsTheRequestsOneExecution == Spec => []SuccessIsOneExecution
BY ExecutedOnce, SuccessIsTheRequests, PTL DEF SuccessIsOneExecution

\* _waiting_request_ids never waits for a refresh that has gone, while the
\* client listens.
THEOREM QueueIsServed == Spec => []QueuedHaveARefresh
<1>1. IInv => QueuedHaveARefresh
  BY DEF IInv
<1> QED BY IInvAlways, <1>1, PTL

\* A step writes a request only for a sender that still waits for it
LEMMA WriteStep ==
    ASSUME IInv, [Next]_vars, NEW r \in Requests, copies'[r] > copies[r]
    PROVE  pc[r] \notin Returned
<1> USE DEF IInv
<1>t. copies[r] \in 0..1
  BY DEF TypeOK
<1>1. ASSUME copies' = copies PROVE FALSE
  BY <1>1, <1>t
<1>2. ASSUME NEW t \in Requests, Request(t) PROVE pc[r] \notin Returned
  <2>1. CASE Send(t)
    BY <1>t, <1>1, <1>2, <2>1 DEF Send, Write, TypeOK, Returned
  <2> QED BY <1>1, <1>2, <2>1 DEF Request, Refuse, Written, WriteFails, Resume, TimesOut, hub
<1>3. ASSUME NEW t \in Requests, Handle(t) PROVE pc[r] \notin Returned
  BY <1>3, <1>t DEF Handle, TypeOK
<1>4. ASSUME NEW q \in SUBSET Requests, socket = "open" => q \subseteq batch, Replay(q)
      PROVE  pc[r] \notin Returned
  <2>1. CASE ReplayNext(q)
    <3>1. PICK t \in Todo(q) : Write(t)
      BY <2>1 DEF ReplayNext
    <3>2. t \in pending /\ t \in Requests
      BY <1>4, <2>1, <3>1, TodoFacts DEF ReplayNext
    <3>3. t = r
      BY <1>t, <3>1, <3>2 DEF Write, TypeOK
    <3> QED BY <3>2, <3>3 DEF SenderInv, Returned
  <2>2. CASE ReplayEnds(q)
    BY <1>1, <2>2 DEF ReplayEnds
  <2> QED BY <1>4, <2>1, <2>2 DEF Replay
<1>5. ASSUME Refresh PROVE pc[r] \notin Returned
  <2>1. CASE Updated
    <3>1. {} \in SUBSET Requests /\ {} \subseteq batch /\ Replay({})
      BY <2>1 DEF Updated
    <3> QED BY <3>1, <1>4
  <2>2. CASE Replayed
    <3> DEFINE q == IF socket = "open" THEN batch ELSE batch \cup inFlight
    <3>1. q \in SUBSET Requests /\ (socket = "open" => q \subseteq batch) /\ Replay(q)
      BY <2>2 DEF Replayed, TypeOK
    <3> HIDE DEF q
    <3> QED BY <3>1, <1>4
  <2>3. CASE Exchanged \/ UpdateFails \/ ForgetFailed \/ RefreshCancelled
    BY <2>3, <1>1 DEF Exchanged, UpdateFails, ForgetFailed, RefreshCancelled, hub
  <2> QED BY <1>5, <2>1, <2>2, <2>3 DEF Refresh
<1>6. ASSUME Connection PROVE pc[r] \notin Returned
  BY <1>6, <1>1 DEF Connection, SocketLost, ListenEnds, ListenCleansUp, StopBegins,
                    StopCloses, StopEnds, hub
<1>7. CASE UNCHANGED vars
  BY <1>7, <1>1 DEF vars, hub
<1>8. ASSUME NEW t \in Requests, Message(t) PROVE pc[r] \notin Returned
  BY <1>8, <1>1 DEF Message, Deliver, DeliverExpired
<1> QED BY <1>2, <1>3, <1>5, <1>6, <1>7, <1>8 DEF Next

\* _retry_waiting_requests writes nothing for a sender that has returned, so
\* that a command its caller may have sent again is not sent late.
THEOREM NothingWrittenAfterReturn == Spec => NoWriteAfterReturn
<1>1. IInv /\ [Next]_vars =>
          [\A r \in Requests : copies'[r] > copies[r] => pc[r] \notin Returned]_vars
  BY WriteStep
<1> QED BY IInvAlways, <1>1, PTL DEF Spec, NoWriteAfterReturn

---------------------------------------------------------------------------
(* The reassembly, one turn of its loop at a time.                        *)

\* Where a magic is in the buffer b, from x on.
StartsFrom(b, x) == {i \in MagicAt(b) : i >= x}
\* The first of them.
FirstFrom(b, x) == Min(StartsFrom(b, x))
\* Where the frame that begins there ends.
EndFrom(b, x) == FirstFrom(b, x) + Total(b, FirstFrom(b, x))
\* It is cut off by the end of the buffer.
CutFrom(b, x) == Len(b) < FirstFrom(b, x) + HeaderSize - 1 \/ Len(b) < EndFrom(b, x) - 1
\* One turn of the loop of _feed_frames: f gives what the rest of the buffer holds.
FeedStep(f, b, x) ==
    IF StartsFrom(b, x) = {} THEN [frames |-> <<>>, rest |-> KeptOf(SubSeq(b, x, Len(b)))]
    ELSE IF CutFrom(b, x) THEN [frames |-> <<>>, rest |-> SubSeq(b, FirstFrom(b, x), Len(b))]
    ELSE [frames |-> <<SubSeq(b, FirstFrom(b, x), EndFrom(b, x) - 1)>> \o f[EndFrom(b, x)].frames,
          rest |-> f[EndFrom(b, x)].rest]

\* The first magic is one, and none is before it.
LEMMA FirstFromIs ==
    ASSUME NEW b \in Seq(Byte), NEW x \in Nat, StartsFrom(b, x) # {}
    PROVE  /\ FirstFrom(b, x) \in StartsFrom(b, x) /\ FirstFrom(b, x) \in x..(Len(b) - 1)
           /\ \A k \in StartsFrom(b, x) : FirstFrom(b, x) <= k
<1>1. StartsFrom(b, x) \in SUBSET Nat   BY DEF StartsFrom, MagicAt
<1>2. PICK n \in StartsFrom(b, x) : \A k \in StartsFrom(b, x) : n <= k   BY <1>1, LeastNat
<1>3. PICK S : S = StartsFrom(b, x)   OBVIOUS
<1>4. \A i, j \in S : i >= j <=> j <= i   BY <1>1, <1>3
<1>5. FirstFrom(b, x) \in S /\ \A k \in S : FirstFrom(b, x) <= k
  <2>1. \A k \in S : n <= k   BY <1>2, <1>3
  <2>2. \E i \in S : \A k \in S : i <= k   BY <1>2, <1>3, <2>1
  <2>3. FirstFrom(b, x) = CHOOSE i \in S : \A k \in S : i <= k   BY <1>3 DEF FirstFrom, Min
  <2> QED  BY <2>2, <2>3
<1>6. FirstFrom(b, x) \in x..(Len(b) - 1)   BY <1>3, <1>5 DEF StartsFrom, MagicAt
<1> QED  BY <1>3, <1>5, <1>6

\* A frame that is not cut off ends further on, within the buffer.
LEMMA EndFromIs ==
    ASSUME NEW b \in Seq(Byte), NEW x \in Nat, StartsFrom(b, x) # {}, ~CutFrom(b, x)
    PROVE  /\ FirstFrom(b, x) \in x..(Len(b) - 1)
           /\ EndFrom(b, x) \in (x + 5)..(Len(b) + 1)
           /\ EndFrom(b, x) >= FirstFrom(b, x) + 5
<1>1. PICK i : i = FirstFrom(b, x)   OBVIOUS
<1>2. i \in x..(Len(b) - 1)   BY <1>1, FirstFromIs
<1>3. i + 4 <= Len(b)   BY <1>1, <1>2 DEF CutFrom, HeaderSize
<1>4. (i + 2 \in 1..Len(b) /\ i + 3 \in 1..Len(b)) \/ i = 0   BY <1>2, <1>3
<1>5. i \in MagicAt(b)   BY <1>1, FirstFromIs DEF StartsFrom
<1>6. i # 0   BY <1>5 DEF MagicAt
<1>7. b[i + 2] \in Byte /\ b[i + 3] \in Byte   BY <1>4, <1>6
<1>8. PICK p \in 0..15, q \in 0..15 : p = b[i + 2] /\ q = b[i + 3]   BY <1>7, Widths
<1>9. EndFrom(b, x) = i + (5 + 16 * p + q)   BY <1>1, <1>8 DEF EndFrom, Total, HeaderSize
<1>10. PICK e \in Int : e = EndFrom(b, x) /\ e = i + (5 + 16 * p + q)   BY <1>2, <1>9
<1>11. Len(b) >= e - 1   BY <1>10 DEF CutFrom
<1>12. e \in (x + 5)..(Len(b) + 1) /\ e >= i + 5   BY <1>2, <1>10, <1>11
<1> QED  BY <1>1, <1>2, <1>10, <1>12

\* One turn of the loop keeps its types.
LEMMA FeedStepType ==
    ASSUME NEW b \in Seq(Byte), NEW x \in 1..(Len(b) + 1), NEW V, V = [frames : Seq(Seq(Byte)), rest : Seq(Byte)],
           NEW f \in [1..(Len(b) + 1) -> V]
    PROVE  FeedStep(f, b, x) \in V
<1>1. CASE StartsFrom(b, x) = {}
  <2>1. 10 \in Byte /\ Magic[1] = 10   BY Widths DEF Magic
  <2>2. KeptOf(SubSeq(b, x, Len(b))) \in Seq(Byte)   BY <2>1 DEF KeptOf
  <2>3. FeedStep(f, b, x) = [frames |-> <<>>, rest |-> KeptOf(SubSeq(b, x, Len(b)))]   BY <1>1 DEF FeedStep
  <2>4. <<>> \in Seq(Seq(Byte))   OBVIOUS
  <2> QED  BY <2>2, <2>3, <2>4
<1>2. CASE StartsFrom(b, x) # {} /\ CutFrom(b, x)
  <2>1. PICK i : i = FirstFrom(b, x)   OBVIOUS
  <2>2. i \in 1..Len(b)   BY <1>2, <2>1, FirstFromIs
  <2>3. SubSeq(b, i, Len(b)) \in Seq(Byte)
    <3>1. Len(b) \in 1..Len(b)   BY <2>2
    <3> QED  BY <2>2, <3>1, SubSeqProperties
  <2>4. FeedStep(f, b, x) = [frames |-> <<>>, rest |-> SubSeq(b, i, Len(b))]   BY <1>2, <2>1 DEF FeedStep
  <2>5. <<>> \in Seq(Seq(Byte))   OBVIOUS
  <2> QED  BY <2>3, <2>4, <2>5
<1>3. CASE StartsFrom(b, x) # {} /\ ~CutFrom(b, x)
  <2>1. PICK i, e : i = FirstFrom(b, x) /\ e = EndFrom(b, x)   OBVIOUS
  <2>2. i \in 1..Len(b) /\ e \in 1..(Len(b) + 1) /\ e >= i + 5   BY <1>3, <2>1, EndFromIs
  <2>3. f[e] \in V   BY <2>2
  <2>4. e - 1 \in 1..Len(b)   BY <2>2
  <2>5. SubSeq(b, i, e - 1) \in Seq(Byte)   BY <2>2, <2>4, SubSeqProperties
  <2>6. FeedStep(f, b, x) = [frames |-> <<SubSeq(b, i, e - 1)>> \o f[e].frames, rest |-> f[e].rest]
    BY <1>3, <2>1 DEF FeedStep
  <2>7. PICK s \in Seq(Byte) : s = SubSeq(b, i, e - 1)   BY <2>5
  <2>8. PICK t \in Seq(Seq(Byte)) : t = f[e].frames   BY <2>3
  <2>9. <<s>> \in Seq(Seq(Byte))   OBVIOUS
  <2>10. <<s>> \o t \in Seq(Seq(Byte))   BY <2>9
  <2>11. f[e].rest \in Seq(Byte)   BY <2>3
  <2>12. FeedStep(f, b, x) = [frames |-> <<s>> \o t, rest |-> f[e].rest]   BY <2>6, <2>7, <2>8
  <2> QED  BY <2>10, <2>11, <2>12
<1> QED  BY <1>1, <1>2, <1>3

\* The recursion of _feed_frames unfolds.
LEMMA FeedUnfolds ==
    ASSUME NEW b \in Seq(Byte), NEW at \in 1..(Len(b) + 1)
    PROVE  FeedFrom(b)[at] = FeedStep(FeedFrom(b), b, at)
<1> DEFINE D == 1..(Len(b) + 1)
           V == [frames : Seq(Seq(Byte)), rest : Seq(Byte)]
           g == [x \in D |-> [f \in [D -> V] |-> FeedStep(f, b, x)]]
           m == [x \in D |-> Len(b) + 1 - x]
           feed == CHOOSE f : f = [x \in D |-> FeedStep(f, b, x)]
<1>1. \A x \in D, f \in [D -> V] : FeedStep(f, b, x) \in V   BY FeedStepType
<1>2. ASSUME NEW x \in D, NEW f1 \in [D -> V], NEW f2 \in [D -> V], \A y \in D : m[y] < m[x] => f1[y] = f2[y]
      PROVE  FeedStep(f1, b, x) = FeedStep(f2, b, x)
  <2>1. CASE StartsFrom(b, x) = {} \/ CutFrom(b, x)   BY <2>1 DEF FeedStep
  <2>2. CASE StartsFrom(b, x) # {} /\ ~CutFrom(b, x)
    <3>1. PICK e : e = EndFrom(b, x)   OBVIOUS
    <3>2. e \in (x + 5)..(Len(b) + 1)   BY <2>2, <3>1, EndFromIs
    <3>3. e \in D /\ m[e] < m[x]   BY <3>2
    <3>4. f1[e] = f2[e]   BY <1>2, <3>3
    <3> QED  BY <3>1, <3>4 DEF FeedStep
  <2> QED  BY <2>1, <2>2
<1>3. V # {} /\ m \in [D -> Nat]
  <2>1. [frames |-> <<>>, rest |-> <<>>] \in V   OBVIOUS
  <2>2. \A x \in D : Len(b) + 1 - x \in Nat   OBVIOUS
  <2>3. m \in [D -> Nat]   BY <2>2
  <2>4. V # {}   BY <2>1
  <2> QED  BY <2>3, <2>4
<1>4. g \in [D -> [[D -> V] -> V]]   BY <1>1
<1>5. Recursion(D, V, m, g)
  <2>1. \A x \in D, f1 \in [D -> V], f2 \in [D -> V] :
            (\A y \in D : m[y] < m[x] => f1[y] = f2[y]) => g[x][f1] = g[x][f2]
    <3> HIDE DEF m, D, V
    <3> QED  BY <1>2
  <2> HIDE DEF D, V, g, m
  <2> QED  BY <1>3, <1>4, <2>1 DEF Recursion
<1>6. \E f \in [D -> V] : \A x \in D : f[x] = g[x][f]
  <2> HIDE DEF D, V, g, m
  <2> QED  BY <1>5, RecursiveFunction
<1>7. \E f : f = [x \in D |-> FeedStep(f, b, x)]
  <2> HIDE DEF D, V
  <2> QED  BY <1>6
<1>8. feed = [x \in D |-> FeedStep(feed, b, x)]   BY <1>7
<1>9. FeedFrom(b) = feed   BY DEF FeedFrom, FeedStep, CutFrom, EndFrom, FirstFrom, StartsFrom
<1> HIDE DEF feed
<1>10. feed[at] = FeedStep(feed, b, at)   BY <1>8
<1> QED  BY <1>9, <1>10

---------------------------------------------------------------------------
(* How frames lie in the bytes that are still to be looked at.            *)

\* A magic is two bytes of the buffer.
LEMMA MagicIs ==
    ASSUME NEW b \in Seq(Byte), NEW i
    PROVE  i \in MagicAt(b) <=> i \in 1..(Len(b) - 1) /\ b[i] = 10 /\ b[i + 1] = 11
<1>1. ASSUME NEW k \in 1..(Len(b) - 1)
      PROVE  SubSeq(b, k, k + 1) = Magic <=> b[k] = 10 /\ b[k + 1] = 11
  <2>1. k \in 1..Len(b) /\ k + 1 \in 1..Len(b)   OBVIOUS
  <2>2. PICK s : s = SubSeq(b, k, k + 1)   OBVIOUS
  <2>3. s \in Seq(Byte) /\ Len(s) = 2 /\ s[1] = b[k] /\ s[2] = b[k + 1]
    <3>1. Len(s) = (k + 1) - k + 1 /\ s \in Seq(Byte)   BY <2>1, <2>2, SubSeqProperties
    <3>2. \A e \in 1..((k + 1) - k + 1) : s[e] = b[k + e - 1]   BY <2>1, <2>2, SubSeqProperties
    <3>3. s[1] = b[k + 1 - 1] /\ s[2] = b[k + 2 - 1]   BY <3>2
    <3> QED  BY <3>1, <3>3
  <2>4. Magic \in Seq(Byte) /\ Len(Magic) = 2 /\ Magic[1] = 10 /\ Magic[2] = 11   BY Widths DEF Magic
  <2>5. s = Magic <=> s[1] = Magic[1] /\ s[2] = Magic[2]   BY <2>3, <2>4
  <2> QED  BY <2>2, <2>3, <2>4, <2>5
<1> QED  BY <1>1 DEF MagicAt

\* The buffer b is the beginning of the bytes u that are still to be looked at.
Prefix(b, u) == b \in Seq(Byte) /\ u \in Seq(Byte) /\ Len(b) <= Len(u) /\ \A i \in 1..Len(b) : b[i] = u[i]

\* The frame f is in u, at p.
InPlace(u, f, p) ==
    p \in 1..Len(u) /\ p + Len(f) <= Len(u) + 1 /\ \A k \in 1..Len(f) : u[p + k - 1] = f[k]

\* All of them are whole frames.
Whole(fs) == fs \in Seq(Seq(Byte)) /\ \A i \in 1..Len(fs) : WholeFrame(fs[i])

\* The frames after the n-th are laid out in u: each in its place at, in order and apart;
\* no magic lies outside of them; and u ends with the last.
Laid(u, fs, n, at) ==
    /\ \A i \in (n + 1)..Len(fs) : InPlace(u, fs[i], at[i])
    /\ \A i, j \in (n + 1)..Len(fs) : i < j => at[i] + Len(fs[i]) <= at[j]
    /\ \A p \in MagicAt(u) : \E i \in (n + 1)..Len(fs) : at[i] <= p /\ p < at[i] + Len(fs[i])
    /\ IF n = Len(fs) THEN u = <<>> ELSE at[Len(fs)] + Len(fs[Len(fs)]) = Len(u) + 1

\* x is where the loop stands once the frames up to the j-th were taken.
Between(b, fs, n, at, x, j) ==
    /\ x \in 1..(Len(b) + 1) /\ j \in n..Len(fs)
    /\ j < Len(fs) => x <= at[j + 1]
    /\ j > n => at[j] + Len(fs[j]) <= x

\* A frame in u begins with a magic, and u tells its length.
LEMMA FrameStarts ==
    ASSUME NEW u \in Seq(Byte), NEW f, NEW p, WholeFrame(f), InPlace(u, f, p)
    PROVE  /\ p \in MagicAt(u) /\ p + 4 <= Len(u) /\ Len(f) = Total(u, p)
           /\ Len(f) \in Nat /\ Len(f) >= 5 /\ p \in Nat
<1>1. f \in Seq(Byte) /\ Len(f) >= 5 /\ f[1] = 10 /\ f[2] = 11 /\ Len(f) = 5 + 16 * f[3] + f[4]   BY DEF WholeFrame
<1>2. 1 \in 1..Len(f) /\ 2 \in 1..Len(f) /\ 3 \in 1..Len(f) /\ 4 \in 1..Len(f)   BY <1>1
<1>3. p \in 1..Len(u) /\ p + Len(f) <= Len(u) + 1   BY DEF InPlace
<1>4. u[p + 1 - 1] = f[1] /\ u[p + 2 - 1] = f[2] /\ u[p + 3 - 1] = f[3] /\ u[p + 4 - 1] = f[4]   BY <1>2 DEF InPlace
<1>5. u[p] = f[1] /\ u[p + 1] = f[2] /\ u[p + 2] = f[3] /\ u[p + 3] = f[4]   BY <1>3, <1>4
<1>6. p + 4 <= Len(u) /\ p \in 1..(Len(u) - 1)   BY <1>1, <1>3
<1>7. p \in MagicAt(u)   BY <1>1, <1>5, <1>6, MagicIs
<1>8. Len(f) = Total(u, p)   BY <1>1, <1>5 DEF Total, HeaderSize
<1> QED  BY <1>1, <1>3, <1>6, <1>7, <1>8

\* So does each of the frames laid out in u.
LEMMA LaidFrames ==
    ASSUME NEW u \in Seq(Byte), NEW fs, Whole(fs), NEW n \in 0..Len(fs), NEW at, Laid(u, fs, n, at),
           NEW i \in (n + 1)..Len(fs)
    PROVE  /\ at[i] \in Nat /\ at[i] \in 1..Len(u) /\ at[i] \in MagicAt(u) /\ at[i] + 4 <= Len(u)
           /\ Len(fs[i]) \in Nat /\ Len(fs[i]) >= 5 /\ Len(fs[i]) = Total(u, at[i])
           /\ at[i] + Len(fs[i]) <= Len(u) + 1
           /\ \A j \in i..Len(fs) : at[i] <= at[j]
<1>1. Len(fs) \in Nat   BY DEF Whole
<1>2. \A k \in (n + 1)..Len(fs) : k \in 1..Len(fs) /\ WholeFrame(fs[k]) /\ InPlace(u, fs[k], at[k])
  BY <1>1 DEF Whole, Laid
<1>3. \A k \in (n + 1)..Len(fs) : /\ at[k] \in MagicAt(u) /\ at[k] + 4 <= Len(u) /\ Len(fs[k]) = Total(u, at[k])
                                  /\ Len(fs[k]) \in Nat /\ Len(fs[k]) >= 5 /\ at[k] \in Nat
  BY <1>2, FrameStarts
<1>4. \A k \in (n + 1)..Len(fs) : at[k] \in 1..Len(u) /\ at[k] + Len(fs[k]) <= Len(u) + 1   BY <1>2 DEF InPlace
<1>5. ASSUME NEW j \in i..Len(fs) PROVE at[i] <= at[j]
  <2>1. j \in (n + 1)..Len(fs)   BY <1>1
  <2>2. CASE i = j   BY <2>2, <1>3
  <2>3. CASE i < j
    <3>1. at[i] + Len(fs[i]) <= at[j]   BY <2>1, <2>3 DEF Laid
    <3>2. at[i] \in Nat /\ at[j] \in Nat /\ Len(fs[i]) \in Nat   BY <1>3, <2>1
    <3> QED  BY <3>1, <3>2
  <2> QED  BY <1>1, <2>2, <2>3
<1> QED  BY <1>3, <1>4, <1>5

\* If there is a magic from x on, the first is that of the next frame.
LEMMA NextStart ==
    ASSUME NEW b, NEW u, Prefix(b, u), NEW fs, Whole(fs), NEW n \in 0..Len(fs), NEW at, Laid(u, fs, n, at),
           NEW x, NEW j, Between(b, fs, n, at, x, j), StartsFrom(b, x) # {}
    PROVE  j + 1 \in (n + 1)..Len(fs) /\ FirstFrom(b, x) = at[j + 1]
<1>1. Len(fs) \in Nat /\ u \in Seq(Byte) /\ b \in Seq(Byte) /\ Len(b) <= Len(u)   BY DEF Whole, Prefix
<1>2. x \in 1..(Len(b) + 1) /\ j \in n..Len(fs)   BY DEF Between
<1>3. PICK i : i = FirstFrom(b, x)   OBVIOUS
<1>4. i \in StartsFrom(b, x) /\ i \in x..(Len(b) - 1) /\ \A k \in StartsFrom(b, x) : i <= k
  BY <1>1, <1>2, <1>3, FirstFromIs
<1>5. i \in MagicAt(b)   BY <1>4 DEF StartsFrom
<1>6. b[i] = 10 /\ b[i + 1] = 11 /\ i \in 1..(Len(b) - 1)   BY <1>1, <1>5, MagicIs
<1>7. u[i] = 10 /\ u[i + 1] = 11 /\ i \in 1..(Len(u) - 1)
  <2>1. i \in 1..Len(b) /\ i + 1 \in 1..Len(b)   BY <1>1, <1>6
  <2>2. b[i] = u[i] /\ b[i + 1] = u[i + 1]   BY <2>1 DEF Prefix
  <2> QED  BY <1>1, <1>6, <2>1, <2>2
<1>8. i \in MagicAt(u)   BY <1>1, <1>7, MagicIs
<1>9. PICK k \in (n + 1)..Len(fs) : at[k] <= i /\ i < at[k] + Len(fs[k])   BY <1>8 DEF Laid
<1>10. ASSUME k <= j PROVE FALSE
  <2>1. j > n /\ j \in (n + 1)..Len(fs) /\ at[j] + Len(fs[j]) <= x   BY <1>1, <1>2, <1>9, <1>10 DEF Between
  <2>2. at[k] + Len(fs[k]) <= at[j] + Len(fs[j])
    <3>1. CASE k = j
      <4>1. at[k] \in Nat /\ Len(fs[k]) \in Nat   BY <1>1, LaidFrames
      <4> QED  BY <3>1, <4>1
    <3>2. CASE k < j
      <4>1. at[k] + Len(fs[k]) <= at[j]   BY <2>1, <3>2 DEF Laid
      <4>2. at[k] \in Nat /\ Len(fs[k]) \in Nat /\ at[j] \in Nat /\ Len(fs[j]) \in Nat   BY <1>1, <2>1, LaidFrames
      <4> QED  BY <4>1, <4>2
    <3> QED  BY <1>1, <1>2, <1>10, <3>1, <3>2
  <2>3. at[k] \in Nat /\ Len(fs[k]) \in Nat /\ at[j] \in Nat /\ Len(fs[j]) \in Nat   BY <1>1, <2>1, LaidFrames
  <2> QED  BY SMTT(40), <1>4, <1>9, <2>1, <2>2, <2>3, <1>2
<1>11. j + 1 \in (n + 1)..Len(fs) /\ k \in (j + 1)..Len(fs)   BY <1>1, <1>2, <1>9, <1>10
<1>12. at[j + 1] \in Nat /\ at[j + 1] <= at[k] /\ at[k] \in Nat /\ at[j + 1] \in MagicAt(u)   BY <1>1, <1>11, LaidFrames
<1>13. at[j + 1] <= i /\ at[j + 1] >= x
  <2>1. j < Len(fs)   BY <1>1, <1>2, <1>11
  <2>2. x <= at[j + 1]   BY <2>1 DEF Between
  <2> QED  BY <1>2, <1>4, <1>9, <1>12, <2>2
<1>14. at[j + 1] \in StartsFrom(b, x)
  <2>1. PICK q \in Nat : q = at[j + 1]   BY <1>12
  <2>2. q \in 1..(Len(u) - 1) /\ u[q] = 10 /\ u[q + 1] = 11   BY <1>1, <1>12, <2>1, MagicIs
  <2>3. q \in 1..(Len(b) - 1) /\ q \in 1..Len(b) /\ q + 1 \in 1..Len(b)
    <3>1. PICK l \in Nat : l = Len(b)   BY <1>1
    <3>2. q >= 1 /\ q <= i /\ i \in 1..(l - 1)   BY <1>6, <1>13, <2>1, <2>2, <3>1
    <3>3. q \in 1..(l - 1) /\ q \in 1..l /\ q + 1 \in 1..l   BY <3>2
    <3> QED  BY <3>1, <3>3
  <2>4. b[q] = u[q] /\ b[q + 1] = u[q + 1]   BY <2>3 DEF Prefix
  <2>5. q \in MagicAt(b)   BY <1>1, <2>2, <2>3, <2>4, MagicIs
  <2> QED  BY <1>13, <2>1, <2>5 DEF StartsFrom
<1>15. i <= at[j + 1]   BY <1>4, <1>14
<1> QED  BY <1>3, <1>4, <1>11, <1>12, <1>13, <1>15

---------------------------------------------------------------------------
(* What a turn of the loop does to them.                                  *)

\* If there is none, the next frame begins with the last byte of the buffer at the
\* earliest.
LEMMA NoStart ==
    ASSUME NEW b, NEW u, Prefix(b, u), NEW fs, Whole(fs), NEW n \in 0..Len(fs), NEW at, Laid(u, fs, n, at),
           NEW x, NEW j, Between(b, fs, n, at, x, j), StartsFrom(b, x) = {}, j < Len(fs)
    PROVE  at[j + 1] >= Len(b) /\ (at[j + 1] = Len(b) => x <= Len(b) /\ b[Len(b)] = 10)
<1>1. Len(fs) \in Nat /\ u \in Seq(Byte) /\ b \in Seq(Byte) /\ Len(b) <= Len(u)   BY DEF Whole, Prefix
<1>2. x \in 1..(Len(b) + 1) /\ j \in n..Len(fs) /\ x <= at[j + 1]   BY DEF Between
<1>3. j + 1 \in (n + 1)..Len(fs)   BY <1>1, <1>2
<1>4. at[j + 1] \in 1..Len(u) /\ at[j + 1] \in MagicAt(u)   BY <1>1, <1>3, LaidFrames
<1>5. PICK q \in Nat : q = at[j + 1]   BY <1>4
<1>6. q \in 1..(Len(u) - 1) /\ u[q] = 10 /\ u[q + 1] = 11   BY <1>1, <1>4, <1>5, MagicIs
<1>7. ASSUME q < Len(b) PROVE FALSE
  <2>1. q \in 1..(Len(b) - 1) /\ q \in 1..Len(b) /\ q + 1 \in 1..Len(b)   BY <1>1, <1>6, <1>7
  <2>2. b[q] = u[q] /\ b[q + 1] = u[q + 1]   BY <2>1 DEF Prefix
  <2>3. q \in MagicAt(b)   BY <1>1, <1>6, <2>1, <2>2, MagicIs
  <2>4. q \in StartsFrom(b, x)   BY <1>2, <1>5, <2>3 DEF StartsFrom
  <2> QED  BY <2>4
<1>8. ASSUME q = Len(b) PROVE b[Len(b)] = 10
  <2>1. q \in 1..Len(b)   BY <1>6, <1>8
  <2>2. b[q] = u[q]   BY <2>1 DEF Prefix
  <2> QED  BY <1>6, <1>8, <2>2
<1>9. q >= Len(b)   BY <1>1, <1>7
<1> QED  BY <1>2, <1>5, <1>8, <1>9

\* r is what _feed_frames keeps of the buffer b: all but its first d bytes, and the first
\* byte of a magic if it may be one.
Keeps(r, b, x, d) ==
    /\ r = SubSeq(b, d + 1, Len(b)) /\ d \in 0..Len(b) /\ d + 1 >= x /\ d >= Len(b) - 1
    /\ x <= Len(b) /\ b[Len(b)] = 10 => d = Len(b) - 1

\* It keeps at most one byte where there is no magic.
LEMMA KeptIs ==
    ASSUME NEW b \in Seq(Byte), NEW x \in 1..(Len(b) + 1)
    PROVE  \E d : Keeps(KeptOf(SubSeq(b, x, Len(b))), b, x, d)
<1>1. PICK l \in Nat : l = Len(b)   OBVIOUS
<1>2. PICK s : s = SubSeq(b, x, l)   OBVIOUS
<1>3. Magic[1] = 10   BY DEF Magic
<1>4. CASE x = l + 1
  <2>1. s = <<>>   BY <1>1, <1>2, <1>4
  <2>2. KeptOf(s) = <<>>   BY <2>1 DEF KeptOf
  <2>3. SubSeq(b, l + 1, l) = <<>>   BY <1>1
  <2>4. Keeps(KeptOf(s), b, x, l)   BY <1>1, <1>4, <2>2, <2>3 DEF Keeps
  <2> QED  BY <1>1, <1>2, <2>4
<1>5. CASE x <= l
  <2>1. x \in 1..(Len(b) + 1) /\ l \in (x - 1)..Len(b)   BY <1>1, <1>5
  <2>2. s \in Seq(Byte) /\ Len(s) = l - x + 1 /\ \A e \in 1..(l - x + 1) : s[e] = b[x + e - 1]
    BY <1>2, <2>1, SubSeqProperties
  <2>3. s[l - x + 1] = b[x + (l - x + 1) - 1] /\ x + (l - x + 1) - 1 = l
    <3>1. l - x + 1 \in 1..(l - x + 1)   BY <1>1, <1>5
    <3> QED  BY <2>2, <3>1
  <2>4. s # <<>> /\ Last(s) = b[l]   BY <1>5, <2>2, <2>3 DEF Last
  <2>5. CASE b[l] = 10
    <3>1. KeptOf(s) = <<10>>   BY <1>3, <2>4, <2>5 DEF KeptOf
    <3>2. PICK t : t = SubSeq(b, l, l)   OBVIOUS
    <3>3. t \in Seq(Byte) /\ Len(t) = 1 /\ t[1] = b[l]
      <4>1. Len(t) = l - l + 1 /\ t \in Seq(Byte) /\ \A e \in 1..(l - l + 1) : t[e] = b[l + e - 1]
        <5>1. l \in 1..(Len(b) + 1) /\ l \in (l - 1)..Len(b)   BY <1>1, <1>5
        <5> QED  BY <5>1, <3>2, SubSeqProperties
      <4>2. 1 \in 1..(l - l + 1) /\ l + 1 - 1 = l /\ l - l + 1 = 1   BY <1>1
      <4> QED  BY <4>1, <4>2
    <3>4. t = <<10>>
      <4>1. 10 \in Byte   BY Widths
      <4>2. PICK w : w = <<10>>   OBVIOUS
      <4>3. w \in Seq(Byte) /\ Len(w) = 1 /\ w[1] = 10   BY <4>1, <4>2
      <4>4. t = w   BY <2>5, <3>3, <4>3
      <4> QED  BY <4>2, <4>4
    <3>7. (l - 1) + 1 = l   BY <1>1
    <3>6. KeptOf(s) = SubSeq(b, (l - 1) + 1, Len(b))   BY <1>1, <3>1, <3>2, <3>4, <3>7
    <3>5. Keeps(KeptOf(s), b, x, l - 1)   BY <1>1, <1>5, <3>6 DEF Keeps
    <3> QED  BY <1>1, <1>2, <3>5
  <2>6. CASE b[l] # 10
    <3>1. KeptOf(s) = <<>>   BY <1>3, <2>4, <2>6 DEF KeptOf
    <3>2. SubSeq(b, l + 1, l) = <<>>   BY <1>1
    <3>3. Keeps(KeptOf(s), b, x, l)   BY <1>1, <1>5, <2>6, <3>1, <3>2 DEF Keeps
    <3> QED  BY <1>1, <1>2, <3>3
  <2> QED  BY <2>5, <2>6
<1> QED  BY <1>1, <1>4, <1>5

\* What _feed_frames makes of a buffer after the j-th frame: the frames up to the m-th,
\* and the buffer from its d-th byte on, where the next one begins but does not end.
Outcome(r, b, fs, n, at, j, m, d) ==
    /\ m \in j..Len(fs) /\ d \in 0..Len(b)
    /\ r.frames = SubSeq(fs, j + 1, m) /\ r.rest = SubSeq(b, d + 1, Len(b))
    /\ m < Len(fs) => d < at[m + 1] /\ Len(b) + 1 < at[m + 1] + Len(fs[m + 1])
    /\ m > n => at[m] + Len(fs[m]) <= d + 1

\* The loop ends well where there is no magic.
LEMMA FeedEndsWithout ==
    ASSUME NEW b, NEW u, Prefix(b, u), NEW fs, Whole(fs), NEW n \in 0..Len(fs), NEW at, Laid(u, fs, n, at),
           NEW x, NEW j, Between(b, fs, n, at, x, j), StartsFrom(b, x) = {}, NEW f
    PROVE  \E m, d : Outcome(FeedStep(f, b, x), b, fs, n, at, j, m, d)
<1>1. Len(fs) \in Nat /\ fs \in Seq(Seq(Byte)) /\ u \in Seq(Byte) /\ b \in Seq(Byte) /\ Len(b) \in Nat   BY DEF Whole, Prefix
<1>2. x \in 1..(Len(b) + 1) /\ j \in n..Len(fs)   BY DEF Between
<1>3. PICK r : r = FeedStep(f, b, x)   OBVIOUS
<1>4. r = [frames |-> <<>>, rest |-> KeptOf(SubSeq(b, x, Len(b)))]   BY <1>3 DEF FeedStep
<1>5. PICK d : Keeps(r.rest, b, x, d)   BY <1>1, <1>2, <1>4, KeptIs
<1>6. d \in 0..Len(b) /\ r.rest = SubSeq(b, d + 1, Len(b)) /\ d + 1 >= x /\ d >= Len(b) - 1   BY <1>5 DEF Keeps
<1>7. j \in j..Len(fs)   BY <1>1, <1>2
<1>8. r.frames = SubSeq(fs, j + 1, j)
  <2>1. j \in Nat /\ j <= Len(fs)   BY <1>1, <1>2
  <2>2. SubSeq(fs, j + 1, j) = <<>>   BY <1>1, <2>1
  <2> QED  BY <1>4, <2>2
<1>9. ASSUME j < Len(fs) PROVE d < at[j + 1] /\ Len(b) + 1 < at[j + 1] + Len(fs[j + 1])
  <2>1. j + 1 \in (n + 1)..Len(fs)   BY <1>1, <1>2, <1>9
  <2>6. at[j + 1] \in Nat /\ Len(fs[j + 1]) \in Nat /\ Len(fs[j + 1]) >= 5   BY <1>1, <2>1, LaidFrames
  <2>2. PICK q \in Nat, k \in Nat : q = at[j + 1] /\ k = Len(fs[j + 1]) /\ k >= 5   BY <2>6
  <2>3. q >= Len(b) /\ (q = Len(b) => x <= Len(b) /\ b[Len(b)] = 10)   BY <1>9, <2>2, NoStart
  <2>4. q = Len(b) => d = Len(b) - 1   BY <1>5, <2>3 DEF Keeps
  <2>7. PICK l \in Nat : l = Len(b)   BY <1>1
  <2>5. d < q /\ Len(b) + 1 < q + k   BY <1>6, <2>2, <2>3, <2>4, <2>7
  <2> QED  BY <2>2, <2>5
<1>10. ASSUME j > n PROVE at[j] + Len(fs[j]) <= d + 1
  <2>1. at[j] + Len(fs[j]) <= x   BY <1>10 DEF Between
  <2>2. j \in (n + 1)..Len(fs)   BY <1>1, <1>2, <1>10
  <2>3. PICK q \in Nat, k \in Nat : q = at[j] /\ k = Len(fs[j])   BY <1>1, <2>2, LaidFrames
  <2>4. q + k <= x   BY <2>1, <2>3
  <2>5. q + k <= d + 1   BY <1>2, <1>6, <2>4
  <2> QED  BY <2>3, <2>5
<1> QED  BY <1>3, <1>6, <1>7, <1>8, <1>9, <1>10 DEF Outcome

\* The length of a frame can be read from a buffer that holds its header.
LEMMA StartTotal ==
    ASSUME NEW b, NEW u, Prefix(b, u), NEW p \in 1..Len(u), p + 4 <= Len(b)
    PROVE  Total(b, p) = Total(u, p)
<1>1. p + 2 \in 1..Len(b) /\ p + 3 \in 1..Len(b)   BY DEF Prefix
<1>2. b[p + 2] = u[p + 2] /\ b[p + 3] = u[p + 3]   BY <1>1 DEF Prefix
<1> QED  BY <1>2 DEF Total

\* It ends well where a frame is cut off.
LEMMA FeedEndsCut ==
    ASSUME NEW b, NEW u, Prefix(b, u), NEW fs, Whole(fs), NEW n \in 0..Len(fs), NEW at, Laid(u, fs, n, at),
           NEW x, NEW j, Between(b, fs, n, at, x, j), StartsFrom(b, x) # {}, CutFrom(b, x), NEW f
    PROVE  \E m, d : Outcome(FeedStep(f, b, x), b, fs, n, at, j, m, d)
<1>1. Len(fs) \in Nat /\ fs \in Seq(Seq(Byte)) /\ u \in Seq(Byte) /\ b \in Seq(Byte) /\ Len(b) \in Nat   BY DEF Whole, Prefix
<1>2. x \in 1..(Len(b) + 1) /\ j \in n..Len(fs)   BY DEF Between
<1>3. PICK r : r = FeedStep(f, b, x)   OBVIOUS
<1>4. j + 1 \in (n + 1)..Len(fs) /\ FirstFrom(b, x) = at[j + 1]   BY NextStart
<1>5. PICK q \in Nat, k \in Nat : q = at[j + 1] /\ k = Len(fs[j + 1]) /\ k >= 5 /\ k = Total(u, q) /\ q \in 1..Len(u)
  <2>1. /\ at[j + 1] \in Nat /\ Len(fs[j + 1]) \in Nat /\ Len(fs[j + 1]) >= 5
        /\ Len(fs[j + 1]) = Total(u, at[j + 1]) /\ at[j + 1] \in 1..Len(u)
    <3>1. u \in Seq(Byte)   BY <1>1
    <3>2. PICK i \in (n + 1)..Len(fs) : i = j + 1   BY <1>4
    <3>3. /\ at[i] \in Nat /\ Len(fs[i]) \in Nat /\ Len(fs[i]) >= 5
          /\ Len(fs[i]) = Total(u, at[i]) /\ at[i] \in 1..Len(u)
      BY ONLY <3>1, LaidFrames, Whole(fs), n \in 0..Len(fs), Laid(u, fs, n, at)
    <3> QED  BY <3>2, <3>3
  <2> QED  BY <2>1
<1>6. r = [frames |-> <<>>, rest |-> SubSeq(b, q, Len(b))]   BY <1>3, <1>4, <1>5 DEF FeedStep
<1>7. Len(b) + 1 < q + k
  <2>1. CASE Len(b) < q + 4   BY <1>1, <1>5, <2>1
  <2>2. CASE q + 4 <= Len(b)
    <3>1. Total(b, q) = k   BY <1>5, <2>2, StartTotal
    <3>2. EndFrom(b, x) = q + k   BY <1>4, <1>5, <3>1 DEF EndFrom
    <3>3. ~(Len(b) < q + 5 - 1)   BY <1>1, <2>2
    <3>4. Len(b) < (q + k) - 1   BY <1>4, <1>5, <3>2, <3>3 DEF CutFrom, HeaderSize
    <3> QED  BY <1>1, <1>5, <3>4
  <2> QED  BY <1>1, <1>5, <2>1, <2>2
<1>8. q <= Len(b) - 1 /\ x <= q
  <2>1. FirstFrom(b, x) \in x..(Len(b) - 1)   BY <1>1, <1>2, FirstFromIs
  <2>2. q \in x..(Len(b) - 1)   BY <1>4, <1>5, <2>1
  <2> QED  BY <1>1, <1>2, <2>2
<1>9. PICK d \in 0..Len(b) : d = q - 1   BY <1>1, <1>5, <1>8
<1>10. r.rest = SubSeq(b, d + 1, Len(b))
  <2>1. d + 1 = q   BY <1>5, <1>9
  <2> QED  BY <1>6, <2>1
<1>11. r.frames = SubSeq(fs, j + 1, j)
  <2>1. j \in Nat /\ j <= Len(fs)   BY <1>1, <1>2
  <2>2. SubSeq(fs, j + 1, j) = <<>>   BY <1>1, <2>1
  <2> QED  BY <1>6, <2>2
<1>12. j \in j..Len(fs)   BY <1>1, <1>2
<1>13. d < at[j + 1] /\ Len(b) + 1 < at[j + 1] + Len(fs[j + 1])   BY <1>5, <1>7, <1>9
<1>14. ASSUME j > n PROVE at[j] + Len(fs[j]) <= d + 1
  <2>1. at[j] + Len(fs[j]) <= x   BY <1>14 DEF Between
  <2>2. j \in (n + 1)..Len(fs)   BY <1>1, <1>2, <1>14
  <2>3. PICK y \in Nat, z \in Nat : y = at[j] /\ z = Len(fs[j])   BY <1>1, <2>2, LaidFrames
  <2>4. y + z <= x   BY <2>1, <2>3
  <2>6. d + 1 = q /\ x <= q /\ x \in Nat
    <3>1. PICK l \in Nat : l = Len(b)   BY <1>1
    <3> QED  BY SMTT(40), <1>2, <1>5, <1>8, <1>9, <3>1
  <2>5. y + z <= d + 1   BY <2>4, <2>6
  <2> QED  BY <2>3, <2>5
<1> QED  BY <1>3, <1>9, <1>10, <1>11, <1>12, <1>13, <1>14 DEF Outcome

\* It goes on with the next frame where there is a whole one, which it takes out as it
\* was sent.
LEMMA FeedGoesOn ==
    ASSUME NEW b, NEW u, Prefix(b, u), NEW fs, Whole(fs), NEW n \in 0..Len(fs), NEW at, Laid(u, fs, n, at),
           NEW x, NEW j, Between(b, fs, n, at, x, j), StartsFrom(b, x) # {}, ~CutFrom(b, x)
    PROVE  /\ j + 1 \in (n + 1)..Len(fs) /\ SubSeq(b, FirstFrom(b, x), EndFrom(b, x) - 1) = fs[j + 1]
           /\ Between(b, fs, n, at, EndFrom(b, x), j + 1)
<1>1. Len(fs) \in Nat /\ fs \in Seq(Seq(Byte)) /\ u \in Seq(Byte) /\ b \in Seq(Byte) /\ Len(b) \in Nat /\ Len(b) <= Len(u)
  BY DEF Whole, Prefix
<1>2. x \in 1..(Len(b) + 1) /\ j \in n..Len(fs)   BY DEF Between
<1>4. j + 1 \in (n + 1)..Len(fs) /\ FirstFrom(b, x) = at[j + 1]   BY NextStart
<1>5. PICK q \in Nat, k \in Nat : q = at[j + 1] /\ k = Len(fs[j + 1]) /\ k >= 5 /\ k = Total(u, q) /\ q \in 1..Len(u)
  <2>1. /\ at[j + 1] \in Nat /\ Len(fs[j + 1]) \in Nat /\ Len(fs[j + 1]) >= 5
        /\ Len(fs[j + 1]) = Total(u, at[j + 1]) /\ at[j + 1] \in 1..Len(u)
    <3>1. u \in Seq(Byte)   BY <1>1
    <3>2. PICK i \in (n + 1)..Len(fs) : i = j + 1   BY <1>4
    <3>3. /\ at[i] \in Nat /\ Len(fs[i]) \in Nat /\ Len(fs[i]) >= 5
          /\ Len(fs[i]) = Total(u, at[i]) /\ at[i] \in 1..Len(u)
      BY ONLY <3>1, LaidFrames, Whole(fs), n \in 0..Len(fs), Laid(u, fs, n, at)
    <3> QED  BY <3>2, <3>3
  <2> QED  BY <2>1
<1>6. ~(Len(b) < q + 5 - 1)   BY <1>4, <1>5 DEF CutFrom, HeaderSize
<1>7. q + 4 <= Len(b)   BY <1>1, <1>5, <1>6
<1>8. Total(b, q) = k   BY <1>5, <1>7, StartTotal
<1>9. EndFrom(b, x) = q + k   BY <1>4, <1>5, <1>8 DEF EndFrom
<1>10. ~(Len(b) < (q + k) - 1)   BY <1>4, <1>5, <1>9 DEF CutFrom
<1>11. q + k <= Len(b) + 1   BY <1>1, <1>5, <1>10
<1>12. SubSeq(b, q, (q + k) - 1) = fs[j + 1]
  <2>1. PICK s : s = SubSeq(b, q, (q + k) - 1)   OBVIOUS
  <2>2. q \in 1..Len(b) /\ (q + k) - 1 \in 1..Len(b) /\ q <= (q + k) - 1   BY SMTT(40), <1>1, <1>5, <1>7, <1>11
  <2>3. s \in Seq(Byte) /\ Len(s) = ((q + k) - 1) - q + 1 /\ \A e \in 1..(((q + k) - 1) - q + 1) : s[e] = b[q + e - 1]
    BY <1>1, <2>1, <2>2, SubSeqProperties
  <2>4. ((q + k) - 1) - q + 1 = k   BY <1>5
  <2>5. PICK g : g = fs[j + 1]   OBVIOUS
  <2>6. g \in Seq(Byte) /\ Len(g) = k
    <3>1. j + 1 \in 1..Len(fs)   BY <1>1, <1>4
    <3>2. g \in Seq(Byte)
      <4>1. PICK i \in 1..Len(fs) : i = j + 1   BY <3>1
      <4>2. fs[i] \in Seq(Byte)   BY <1>1
      <4> QED  BY <2>5, <4>1, <4>2
    <3> QED  BY <1>5, <2>5, <3>2
  <2>7. \A e \in 1..k : u[q + e - 1] = g[e]   BY <1>4, <1>5, <2>5, <2>6 DEF Laid, InPlace
  <2>8. ASSUME NEW e \in 1..k PROVE s[e] = g[e]
    <3>1. q + e - 1 \in 1..Len(b)   BY SMTT(40), <1>1, <1>5, <1>11
    <3>2. b[q + e - 1] = u[q + e - 1]   BY <3>1 DEF Prefix
    <3>3. s[e] = b[q + e - 1]   BY <2>3, <2>4
    <3> QED  BY <2>7, <3>2, <3>3
  <2>9. Len(s) = k   BY <2>3, <2>4
  <2> HIDE DEF Byte
  <2>10. s = g   BY <2>3, <2>6, <2>8, <2>9
  <2> QED  BY <2>1, <2>5, <2>10
<1>13. Between(b, fs, n, at, q + k, j + 1)
  <2>1. q + k \in 1..(Len(b) + 1)   BY <1>1, <1>5, <1>11
  <2>2. j + 1 \in n..Len(fs)   BY <1>1, <1>4
  <2>3. ASSUME j + 1 < Len(fs) PROVE q + k <= at[(j + 1) + 1]
    <3>1. (j + 1) + 1 \in (n + 1)..Len(fs) /\ j + 1 < (j + 1) + 1   BY <1>1, <1>4, <2>3
    <3>2. at[j + 1] + Len(fs[j + 1]) <= at[(j + 1) + 1]   BY <1>4, <3>1 DEF Laid
    <3> QED  BY <1>5, <3>2
  <2>4. at[j + 1] + Len(fs[j + 1]) <= q + k   BY <1>5
  <2> QED  BY <2>1, <2>2, <2>3, <2>4 DEF Between
<1> QED  BY <1>4, <1>5, <1>9, <1>12, <1>13

---------------------------------------------------------------------------
(* So what the loop does, by a least counterexample.                      *)

\* A part of a sequence is its first element and the others.
LEMMA SubSeqFrom ==
    ASSUME NEW T, NEW fs \in Seq(T), NEW j \in Nat, NEW m \in (j + 1)..Len(fs)
    PROVE  <<fs[j + 1]>> \o SubSeq(fs, j + 2, m) = SubSeq(fs, j + 1, m)
<1>3. j + 1 \in 1..Len(fs) /\ j + 2 \in 1..(Len(fs) + 1) /\ m \in ((j + 2) - 1)..Len(fs) /\ m \in ((j + 1) - 1)..Len(fs)
      /\ j + 1 \in 1..(Len(fs) + 1)
  OBVIOUS
<1>4. PICK h : h = fs[j + 1]   OBVIOUS
<1>5. h \in T   BY <1>3, <1>4
<1>6. PICK s : s = SubSeq(fs, j + 2, m)   OBVIOUS
<1>7. s \in Seq(T) /\ Len(s) = m - (j + 2) + 1 /\ \A e \in 1..(m - (j + 2) + 1) : s[e] = fs[(j + 2) + e - 1]
  BY <1>3, <1>6, SubSeqProperties
<1>8. PICK t : t = SubSeq(fs, j + 1, m)   OBVIOUS
<1>9. t \in Seq(T) /\ Len(t) = m - (j + 1) + 1 /\ \A e \in 1..(m - (j + 1) + 1) : t[e] = fs[(j + 1) + e - 1]
  BY <1>3, <1>8, SubSeqProperties
<1>10. PICK w : w = <<h>>   OBVIOUS
<1>11. w \in Seq(T) /\ Len(w) = 1 /\ w[1] = h   BY <1>5, <1>10
<1>12. PICK v : v = w \o s   OBVIOUS
<1>13. v \in Seq(T) /\ Len(v) = Len(w) + Len(s)
       /\ (\A i \in 1..Len(w) : v[i] = w[i])
       /\ (\A i \in 1..Len(s) : v[Len(w) + i] = s[i])
  <2>1. w \in Seq(T) /\ s \in Seq(T)   BY <1>7, <1>11
  <2> QED  BY ONLY <2>1, <1>12, Concat
<1>17. Len(v) = m - j /\ Len(s) = m - j - 1 /\ Len(t) = m - j   BY <1>7, <1>9, <1>11, <1>13
<1>14. Len(v) = Len(t)   BY <1>17
<1>15. ASSUME NEW i \in 1..Len(t) PROVE v[i] = t[i]
  <2>1. CASE i = 1
    <3>1. v[1] = h   BY <1>11, <1>13
    <3>2. t[1] = fs[(j + 1) + 1 - 1] /\ (j + 1) + 1 - 1 = j + 1   BY <1>9, <2>1
    <3> QED  BY <1>4, <2>1, <3>1, <3>2
  <2>2. CASE i # 1
    <3>0. i \in 1..(m - j) /\ i - 1 \in 1..(m - j - 1)   BY <1>17, <2>2
    <3>1. PICK k \in 1..Len(s) : i = 1 + k
      <4>1. i - 1 \in 1..Len(s) /\ i = 1 + (i - 1)   BY <1>17, <3>0
      <4> QED  BY <4>1
    <3>2. v[i] = s[k]   BY <1>11, <1>13, <3>1
    <3>3. s[k] = fs[(j + 2) + k - 1]   BY <1>7, <3>1
    <3>4. t[i] = fs[(j + 1) + i - 1]   BY <1>9
    <3>6. k \in Int   BY <1>17, <3>1
    <3>5. (j + 1) + i - 1 = (j + 2) + k - 1   BY <3>1, <3>6
    <3> QED  BY <3>2, <3>3, <3>4, <3>5
  <2> QED  BY <2>1, <2>2
<1>18. v \in Seq(T) /\ t \in Seq(T)   BY <1>9, <1>13
<1>16. v = t   BY <1>14, <1>15, <1>18
<1> QED  BY <1>4, <1>6, <1>8, <1>10, <1>12, <1>16

\* However a stream of frames is cut, _feed_frames takes the next frames out of it whole
\* and in order, and keeps where the one after them begins.
LEMMA FeedSplits ==
    ASSUME NEW b, NEW u, Prefix(b, u), NEW fs, Whole(fs), NEW n \in 0..Len(fs), NEW at, Laid(u, fs, n, at)
    PROVE  \E m, d : Outcome(Feed(b), b, fs, n, at, n, m, d)
<1>1. Len(fs) \in Nat /\ fs \in Seq(Seq(Byte)) /\ b \in Seq(Byte) /\ Len(b) \in Nat   BY DEF Whole, Prefix
<1> DEFINE Cuts(x, j) == \E m, d : Outcome(FeedFrom(b)[x], b, fs, n, at, j, m, d)
<1> DEFINE S == {k \in Nat : \A x, j : k = Len(fs) - j /\ Between(b, fs, n, at, x, j) => Cuts(x, j)}
<1>2. ASSUME NEW x, NEW j, Between(b, fs, n, at, x, j),
             \A y : j < Len(fs) /\ Between(b, fs, n, at, y, j + 1) => Cuts(y, j + 1)
      PROVE  Cuts(x, j)
  <2>1. x \in 1..(Len(b) + 1) /\ j \in n..Len(fs)   BY <1>2 DEF Between
  <2>2. FeedFrom(b)[x] = FeedStep(FeedFrom(b), b, x)   BY <1>1, <2>1, FeedUnfolds
  <2>3. CASE StartsFrom(b, x) = {}
    <3>1. \E m, d : Outcome(FeedStep(FeedFrom(b), b, x), b, fs, n, at, j, m, d)   BY <1>2, <2>3, FeedEndsWithout
    <3> QED  BY <2>2, <3>1
  <2>4. CASE StartsFrom(b, x) # {} /\ CutFrom(b, x)
    <3>1. \E m, d : Outcome(FeedStep(FeedFrom(b), b, x), b, fs, n, at, j, m, d)   BY <1>2, <2>4, FeedEndsCut
    <3> QED  BY <2>2, <3>1
  <2>5. CASE StartsFrom(b, x) # {} /\ ~CutFrom(b, x)
    <3>1. PICK y : y = EndFrom(b, x)   OBVIOUS
    <3>2. j + 1 \in (n + 1)..Len(fs) /\ SubSeq(b, FirstFrom(b, x), y - 1) = fs[j + 1] /\ Between(b, fs, n, at, y, j + 1)
      <4>1. Between(b, fs, n, at, x, j)   BY <1>2
      <4> QED  BY <2>5, <3>1, <4>1, FeedGoesOn
    <3>3. PICK r : r = FeedFrom(b)[y]   OBVIOUS
    <3>4. j < Len(fs)   BY <1>1, <2>1, <3>2
    <3>5. Cuts(y, j + 1)   BY <1>2, <3>2, <3>4
    <3>6. PICK m, d : Outcome(r, b, fs, n, at, j + 1, m, d)   BY <3>3, <3>5
    <3>7. m \in (j + 1)..Len(fs) /\ r.frames = SubSeq(fs, (j + 1) + 1, m)   BY <3>6 DEF Outcome
    <3>8. FeedFrom(b)[x] = [frames |-> <<fs[j + 1]>> \o r.frames, rest |-> r.rest]
      BY <2>2, <2>5, <3>1, <3>2, <3>3 DEF FeedStep
    <3>9. <<fs[j + 1]>> \o r.frames = SubSeq(fs, j + 1, m)
      <4>1. j \in Nat /\ (j + 1) + 1 = j + 2   BY <1>1, <2>1
      <4> QED  BY SMTT(40), <1>1, <3>7, <4>1, SubSeqFrom
    <3>10. m \in j..Len(fs)   BY <1>1, <2>1, <3>7
    <3>11. PICK q : q = FeedFrom(b)[x]   OBVIOUS
    <3>12. q.frames = SubSeq(fs, j + 1, m) /\ q.rest = r.rest
      <4>1. PICK z : z = <<fs[j + 1]>> \o r.frames   OBVIOUS
      <4>2. q = [frames |-> z, rest |-> r.rest]   BY <3>8, <3>11, <4>1
      <4> QED  BY <3>9, <4>1, <4>2
    <3>13. Outcome(q, b, fs, n, at, j, m, d)   BY <3>6, <3>10, <3>12 DEF Outcome
    <3> QED  BY <3>11, <3>13
  <2> QED  BY <2>3, <2>4, <2>5
<1> HIDE DEF Cuts
<1>3. 0 \in S
  <2> SUFFICES ASSUME NEW x, NEW j, 0 = Len(fs) - j, Between(b, fs, n, at, x, j) PROVE Cuts(x, j)   OBVIOUS
  <2>1. ~(j < Len(fs))
    <3>1. j \in n..Len(fs)   BY DEF Between
    <3> QED  BY <1>1, <3>1
  <2> QED  BY <1>2, <2>1
<1>4. ASSUME NEW k \in Nat, k \in S PROVE k + 1 \in S
  <2> SUFFICES ASSUME NEW x, NEW j, k + 1 = Len(fs) - j, Between(b, fs, n, at, x, j) PROVE Cuts(x, j)   OBVIOUS
  <2>1. j \in n..Len(fs)   BY DEF Between
  <2>2. k = Len(fs) - (j + 1)   BY <1>1, <2>1
  <2>3. \A y : Between(b, fs, n, at, y, j + 1) => Cuts(y, j + 1)   BY <1>4, <2>2
  <2> QED  BY <1>2, <2>3
<1>5. S \in SUBSET Nat   OBVIOUS
<1> HIDE DEF S
<1>6. Nat \subseteq S   BY <1>3, <1>4, <1>5, Induction
<1>7. Between(b, fs, n, at, 1, n)
  <2>1. 1 \in 1..(Len(b) + 1) /\ n \in n..Len(fs)   BY <1>1
  <2>2. ASSUME n < Len(fs) PROVE 1 <= at[n + 1]
    <3>1. n + 1 \in (n + 1)..Len(fs)   BY <1>1, <2>2
    <3>2. InPlace(u, fs[n + 1], at[n + 1])   BY <3>1 DEF Laid
    <3>3. u \in Seq(Byte) /\ at[n + 1] \in 1..Len(u)   BY <3>2 DEF InPlace, Prefix
    <3> QED  BY <3>3
  <2> QED  BY <2>1, <2>2 DEF Between
<1>8. Len(fs) - n \in S   BY <1>1, <1>6
<1>9. Cuts(1, n)   BY <1>7, <1>8 DEF S
<1> QED  BY <1>9 DEF Cuts, Feed

---------------------------------------------------------------------------
(* Bytes dropped at the front, and added at the end.                      *)

\* v is u without its first d bytes.
Dropped(v, u, d) == v \in Seq(Byte) /\ Len(v) = Len(u) - d /\ \A i \in 1..Len(v) : v[i] = u[d + i]

\* The rest of a sequence drops what is before it.
LEMMA DropIs ==
    ASSUME NEW u \in Seq(Byte), NEW d \in 0..Len(u)
    PROVE  Dropped(SubSeq(u, d + 1, Len(u)), u, d)
<1>1. d + 1 \in 1..(Len(u) + 1) /\ Len(u) \in ((d + 1) - 1)..Len(u)   OBVIOUS
<1>2. PICK v : v = SubSeq(u, d + 1, Len(u))   OBVIOUS
<1>3. v \in Seq(Byte) /\ Len(v) = Len(u) - (d + 1) + 1 /\ \A e \in 1..(Len(u) - (d + 1) + 1) : v[e] = u[(d + 1) + e - 1]
  BY <1>1, <1>2, SubSeqProperties
<1>4. Len(v) = Len(u) - d   BY <1>3
<1>5. ASSUME NEW i \in 1..Len(v) PROVE v[i] = u[d + i]
  <2>1. v[i] = u[(d + 1) + i - 1]   BY <1>3
  <2>2. i \in Int /\ (d + 1) + i - 1 = d + i   BY <1>4
  <2> QED  BY <2>1, <2>2
<1> QED  BY <1>2, <1>3, <1>4, <1>5 DEF Dropped

\* The places of the frames once d bytes were dropped.
Shifted(at, fs, d) == [i \in 1..Len(fs) |-> at[i] - d]

\* The frames that are left stay laid out when bytes before them are dropped.
LEMMA LaidDrop ==
    ASSUME NEW u \in Seq(Byte), NEW fs, Whole(fs), NEW n \in 0..Len(fs), NEW at, Laid(u, fs, n, at),
           NEW m \in n..Len(fs), NEW d \in 0..Len(u), NEW v, Dropped(v, u, d),
           m < Len(fs) => d < at[m + 1], m > n => at[m] + Len(fs[m]) <= d + 1
    PROVE  Laid(v, fs, m, Shifted(at, fs, d))
<1>0. Shifted(at, fs, d) = [i \in 1..Len(fs) |-> at[i] - d]   BY DEF Shifted
<1> DEFINE to == [i \in 1..Len(fs) |-> at[i] - d]
<1>1. Len(fs) \in Nat /\ Len(u) \in Nat /\ n \in Nat /\ m \in Nat /\ d \in Nat /\ v \in Seq(Byte) /\ Len(v) = Len(u) - d
  BY DEF Whole, Dropped
<1>2. \A i \in (m + 1)..Len(fs) : /\ i \in (n + 1)..Len(fs) /\ i \in 1..Len(fs) /\ m + 1 \in (n + 1)..Len(fs)
                                  /\ m < Len(fs) /\ i \in (m + 1)..Len(fs)
  BY <1>1
<1>3. ASSUME NEW i \in (m + 1)..Len(fs)
      PROVE  /\ at[i] \in Nat /\ Len(fs[i]) \in Nat /\ d < at[i] /\ to[i] = at[i] - d
  <2>1. at[i] \in Nat /\ Len(fs[i]) \in Nat   BY <1>2, LaidFrames
  <2>2. at[m + 1] \in Nat /\ at[m + 1] <= at[i]   BY <1>2, LaidFrames
  <2>3. d < at[m + 1]   BY <1>2
  <2>4. d < at[i]   BY <2>1, <2>2, <2>3, <1>1
  <2> QED  BY <1>2, <2>1, <2>4
<1>4. ASSUME NEW i \in (m + 1)..Len(fs) PROVE InPlace(v, fs[i], to[i])
  <2>1. InPlace(u, fs[i], at[i])   BY <1>2 DEF Laid
  <2>2. at[i] \in 1..Len(u) /\ at[i] + Len(fs[i]) <= Len(u) + 1   BY <2>1 DEF InPlace
  <2>3. PICK p \in Nat, l \in Nat : p = at[i] /\ l = Len(fs[i])   BY <1>3
  <2>4. p - d \in 1..Len(v) /\ (p - d) + l <= Len(v) + 1
    <3>1. PICK x \in Nat, y \in Nat : x = Len(u) /\ y = Len(v) /\ y = x - d   BY <1>1
    <3>2. p \in 1..x /\ p + l <= x + 1 /\ d < p   BY <1>3, <2>2, <2>3, <3>1
    <3>3. p - d \in 1..y /\ (p - d) + l <= y + 1   BY <1>1, <3>1, <3>2
    <3> QED  BY <3>1, <3>3
  <2>5. ASSUME NEW k \in 1..l PROVE v[(p - d) + k - 1] = fs[i][k]
    <3>1. (p - d) + k - 1 \in 1..Len(v)   BY <1>1, <2>4
    <3>2. v[(p - d) + k - 1] = u[d + ((p - d) + k - 1)]   BY <3>1 DEF Dropped
    <3>3. d + ((p - d) + k - 1) = p + k - 1   BY <1>1
    <3>4. u[p + k - 1] = fs[i][k]   BY <2>1, <2>3 DEF InPlace
    <3> QED  BY <3>2, <3>3, <3>4
  <2>6. to[i] = p - d   BY <1>3, <2>3
  <2> QED  BY <2>3, <2>4, <2>5, <2>6 DEF InPlace
<1>5. ASSUME NEW i \in (m + 1)..Len(fs), NEW j \in (m + 1)..Len(fs), i < j PROVE to[i] + Len(fs[i]) <= to[j]
  <2>1. at[i] + Len(fs[i]) <= at[j]   BY <1>2, <1>5 DEF Laid
  <2>2. at[i] \in Nat /\ at[j] \in Nat /\ Len(fs[i]) \in Nat /\ to[i] = at[i] - d /\ to[j] = at[j] - d   BY <1>3
  <2>3. PICK x \in Nat, y \in Nat, l \in Nat : x = at[i] /\ y = at[j] /\ l = Len(fs[i])   BY <2>2
  <2>4. x + l <= y   BY <2>1, <2>3
  <2>5. (x - d) + l <= y - d   BY <1>1, <2>4
  <2> QED  BY <2>2, <2>3, <2>5
<1>6. ASSUME NEW p \in MagicAt(v)
      PROVE  \E i \in (m + 1)..Len(fs) : to[i] <= p /\ p < to[i] + Len(fs[i])
  <2>1. p \in 1..(Len(v) - 1) /\ v[p] = 10 /\ v[p + 1] = 11   BY <1>1, MagicIs
  <2>2. p \in 1..Len(v) /\ p + 1 \in 1..Len(v)   BY <1>1, <2>1
  <2>3. v[p] = u[d + p] /\ v[p + 1] = u[d + (p + 1)] /\ d + (p + 1) = (d + p) + 1
    <3>1. v[p] = u[d + p] /\ v[p + 1] = u[d + (p + 1)]   BY <2>2 DEF Dropped
    <3>2. d + (p + 1) = (d + p) + 1   BY <1>1, <2>1
    <3> QED  BY <3>1, <3>2
  <2>4. d + p \in 1..(Len(u) - 1)   BY <1>1, <2>1
  <2>5. d + p \in MagicAt(u)   BY <2>1, <2>3, <2>4, MagicIs
  <2>6. PICK i \in (n + 1)..Len(fs) : at[i] <= d + p /\ d + p < at[i] + Len(fs[i])   BY <2>5 DEF Laid
  <2>7. at[i] \in Nat /\ Len(fs[i]) \in Nat   BY LaidFrames
  <2>8. ASSUME i <= m PROVE FALSE
    <3>1. m > n /\ m \in (n + 1)..Len(fs)   BY <1>1, <2>8
    <3>2. at[m] \in Nat /\ Len(fs[m]) \in Nat /\ at[m] + Len(fs[m]) <= d + 1   BY <3>1, LaidFrames
    <3>3. at[i] + Len(fs[i]) <= at[m] + Len(fs[m])
      <4>1. CASE i = m   BY <2>7, <4>1
      <4>2. CASE i < m
        <5>1. at[i] + Len(fs[i]) <= at[m]   BY <3>1, <4>2 DEF Laid
        <5> QED  BY SMTT(40), <2>7, <3>2, <5>1
      <4> QED  BY <1>1, <2>8, <4>1, <4>2
    <3>4. PICK x \in Nat, y \in Nat : x = at[i] + Len(fs[i]) /\ y = at[m] + Len(fs[m])   BY SMTT(40), <2>7, <3>2
    <3>5. d + p < x /\ x <= y /\ y <= d + 1   BY <2>6, <3>2, <3>3, <3>4
    <3>6. p \in Nat /\ p >= 1   BY <1>1, <2>1
    <3> QED  BY <1>1, <3>5, <3>6
  <2>9. i \in (m + 1)..Len(fs)   BY <1>1, <2>8
  <2>10. to[i] = at[i] - d   BY <1>3, <2>9
  <2>12. PICK x \in Nat, l \in Nat : x = at[i] /\ l = Len(fs[i])   BY <2>7
  <2>13. x <= d + p /\ d + p < x + l   BY <2>6, <2>12
  <2>14. p \in Nat   BY <1>1, <2>1
  <2>15. x - d <= p /\ p < (x - d) + l   BY <1>1, <2>13, <2>14
  <2>11. to[i] <= p /\ p < to[i] + Len(fs[i])   BY <2>10, <2>12, <2>15
  <2> QED  BY <2>9, <2>11
<1>7. CASE m = Len(fs)
  <2>1. Len(v) = 0
    <3>1. CASE m = n
      <4>1. u = <<>>   BY <1>7, <3>1 DEF Laid
      <4> QED  BY <1>1, <4>1
    <3>2. CASE m > n
      <4>1. m \in (n + 1)..Len(fs) /\ n # Len(fs)   BY <1>1, <1>7, <3>2
      <4>2. at[m] + Len(fs[m]) = Len(u) + 1   BY <1>7, <4>1 DEF Laid
      <4>3. at[m] + Len(fs[m]) <= d + 1   BY <3>2
      <4> QED  BY <1>1, <4>2, <4>3
    <3> QED  BY <1>1, <3>1, <3>2
  <2>2. v = <<>>   BY <1>1, <2>1
  <2>3. Laid(v, fs, m, to)   BY <1>4, <1>5, <1>6, <1>7, <2>2 DEF Laid
  <2> QED  BY <1>0, <2>3
<1>8. CASE m # Len(fs)
  <2>1. Len(fs) \in (m + 1)..Len(fs) /\ n # Len(fs)   BY <1>1, <1>8
  <2>2. at[Len(fs)] + Len(fs[Len(fs)]) = Len(u) + 1   BY <2>1 DEF Laid
  <2>3. to[Len(fs)] = at[Len(fs)] - d /\ at[Len(fs)] \in Nat /\ Len(fs[Len(fs)]) \in Nat   BY <1>3, <2>1
  <2>4. to[Len(fs)] + Len(fs[Len(fs)]) = Len(v) + 1   BY SMTT(40), <1>1, <2>2, <2>3
  <2>5. Laid(v, fs, m, to)   BY <1>4, <1>5, <1>6, <1>8, <2>4 DEF Laid
  <2> QED  BY <1>0, <2>5
<1> QED  BY <1>0, <1>7, <1>8

\* Bytes with no magic in them.
NoMagic(noise) == noise \in Seq(Byte) /\ \A i \in 1..(Len(noise) - 1) : SubSeq(noise, i, i + 1) # Magic

\* v is u, then noise, then the frame f.
Added(v, u, noise, f) ==
    /\ v \in Seq(Byte) /\ Len(v) = Len(u) + Len(noise) + Len(f)
    /\ \A i \in 1..Len(u) : v[i] = u[i]
    /\ \A i \in 1..Len(noise) : v[Len(u) + i] = noise[i]
    /\ \A i \in 1..Len(f) : v[Len(u) + Len(noise) + i] = f[i]

\* Concatenation adds them.
LEMMA AddedIs ==
    ASSUME NEW u \in Seq(Byte), NEW noise \in Seq(Byte), NEW f \in Seq(Byte), NEW v, v = (u \o noise) \o f
    PROVE  Added(v, u, noise, f)
<1>1. PICK w : w = u \o noise   OBVIOUS
<1>2. /\ w \in Seq(Byte) /\ Len(w) = Len(u) + Len(noise)
      /\ (\A i \in 1..Len(u) : w[i] = u[i]) /\ (\A i \in 1..Len(noise) : w[Len(u) + i] = noise[i])
  BY <1>1, ConcatIs DEF Joined
<1>3. /\ v \in Seq(Byte) /\ Len(v) = Len(w) + Len(f)
      /\ (\A i \in 1..Len(w) : v[i] = w[i]) /\ (\A i \in 1..Len(f) : v[Len(w) + i] = f[i])
  <2>1. Joined(v, w, f)   BY <1>1, <1>2, ConcatIs
  <2> QED  BY <2>1 DEF Joined
<1>4. \A i \in 1..Len(u) : v[i] = u[i]
  <2> TAKE i \in 1..Len(u)
  <2>1. i \in 1..Len(w)   BY <1>2
  <2> QED  BY <1>2, <1>3, <2>1
<1>5. \A i \in 1..Len(noise) : v[Len(u) + i] = noise[i]
  <2> TAKE i \in 1..Len(noise)
  <2>1. Len(u) + i \in 1..Len(w)   BY <1>2
  <2> QED  BY <1>2, <1>3, <2>1
<1> QED  BY <1>2, <1>3, <1>4, <1>5 DEF Added

\* gs is fs and the frame f.
Appended(gs, fs, f) ==
    /\ Whole(gs) /\ Len(gs) = Len(fs) + 1
    /\ \A i \in 1..Len(fs) : gs[i] = fs[i]
    /\ gs[Len(fs) + 1] = f
\* The places of the frames once one was added at p.
Extended(at, gs, p) == [i \in 1..Len(gs) |-> IF i = Len(gs) THEN p ELSE at[i]]

\* Frames stay laid out when bytes without a magic and another frame are added: no magic
\* arises where they meet.
LEMMA LaidAdd ==
    ASSUME NEW u \in Seq(Byte), NEW fs, Whole(fs), NEW n \in 0..Len(fs), NEW at, Laid(u, fs, n, at),
           NEW noise, NoMagic(noise), NEW f, WholeFrame(f), NEW v, Added(v, u, noise, f),
           NEW gs, Appended(gs, fs, f)
    PROVE  Laid(v, gs, n, Extended(at, gs, Len(u) + Len(noise) + 1))
<1>0. /\ Whole(gs) /\ Len(gs) = Len(fs) + 1
      /\ (\A i \in 1..Len(fs) : gs[i] = fs[i]) /\ gs[Len(fs) + 1] = f
  BY DEF Appended
<1> DEFINE to == [i \in 1..Len(gs) |-> IF i = Len(gs) THEN Len(u) + Len(noise) + 1 ELSE at[i]]
<1>1. Len(fs) \in Nat /\ n \in 0..Len(fs) /\ Len(gs) \in Nat /\ Len(gs) = Len(fs) + 1   BY <1>0 DEF Whole
<1>2. PICK last \in Nat, a \in Nat, c \in Nat, l \in Nat :
          last = Len(fs) + 1 /\ a = Len(u) /\ c = Len(noise) /\ l = Len(f) /\ l >= 5
  <2>1. f \in Seq(Byte) /\ noise \in Seq(Byte) /\ Len(f) >= 5   BY DEF WholeFrame, NoMagic
  <2> QED  BY <1>1, <2>1
<1>3. v \in Seq(Byte) /\ Len(v) = a + c + l   BY <1>2 DEF Added
<1>4. \A i \in (n + 1)..last : i = last \/ i \in (n + 1)..Len(fs)   BY <1>1, <1>2
<1>5. to[last] = a + c + 1 /\ gs[last] = f /\ last \in (n + 1)..Len(gs)   BY <1>0, <1>1, <1>2
<1>6. ASSUME NEW i \in (n + 1)..Len(fs)
      PROVE  /\ i \in 1..Len(fs) /\ i < last /\ to[i] = at[i] /\ gs[i] = fs[i]
             /\ at[i] \in Nat /\ Len(fs[i]) \in Nat /\ at[i] + Len(fs[i]) <= a + 1 /\ at[i] \in 1..a
  <2>1. i \in 1..Len(fs) /\ i < last /\ i \in 1..Len(gs) /\ i # Len(gs)   BY <1>1, <1>2
  <2>2. at[i] \in Nat /\ Len(fs[i]) \in Nat /\ at[i] + Len(fs[i]) <= Len(u) + 1 /\ at[i] \in 1..Len(u)   BY LaidFrames
  <2> QED  BY <1>0, <1>2, <2>1, <2>2
<1> HIDE DEF to
<1>7. InPlace(v, gs[last], to[last])
  <2>1. a + c + 1 \in 1..Len(v) /\ (a + c + 1) + l <= Len(v) + 1   BY <1>2, <1>3
  <2>2. ASSUME NEW k \in 1..l PROVE v[(a + c + 1) + k - 1] = f[k]
    <3>1. (a + c + 1) + k - 1 = a + c + k   BY <1>2
    <3>2. v[a + c + k] = f[k]   BY <1>2 DEF Added
    <3> QED  BY <3>1, <3>2
  <2> QED  BY <1>2, <1>5, <2>1, <2>2 DEF InPlace
<1>8. ASSUME NEW i \in (n + 1)..Len(fs) PROVE InPlace(v, gs[i], to[i])
  <2>1. InPlace(u, fs[i], at[i])   BY DEF Laid
  <2>2. PICK p \in Nat, k \in Nat : p = at[i] /\ k = Len(fs[i]) /\ p + k <= a + 1 /\ p \in 1..a   BY <1>6
  <2>5. p + k <= a + 1 /\ p \in 1..a   BY <2>2
  <2>6. p \in 1..(a + c + l) /\ p + k <= (a + c + l) + 1   BY <2>5
  <2>3. p \in 1..Len(v) /\ p + k <= Len(v) + 1   BY <1>3, <2>6
  <2>4. ASSUME NEW e \in 1..k PROVE v[p + e - 1] = fs[i][e]
    <3>4. p + e - 1 \in 1..a   BY <2>5
    <3>1. p + e - 1 \in 1..Len(u)   BY <1>2, <3>4
    <3>2. v[p + e - 1] = u[p + e - 1]   BY <3>1 DEF Added
    <3>3. u[p + e - 1] = fs[i][e]   BY <2>1, <2>2 DEF InPlace
    <3> QED  BY <3>2, <3>3
  <2> QED  BY <1>6, <2>2, <2>3, <2>4 DEF InPlace
<1>9. \A i \in (n + 1)..Len(gs) : InPlace(v, gs[i], to[i])
  <2> TAKE i \in (n + 1)..Len(gs)
  <2>1. i \in (n + 1)..last   BY <1>1, <1>2
  <2>2. i = last \/ i \in (n + 1)..Len(fs)   BY <1>4, <2>1
  <2> QED  BY <1>7, <1>8, <2>2
<1>10. ASSUME NEW i \in (n + 1)..Len(gs), NEW j \in (n + 1)..Len(gs), i < j PROVE to[i] + Len(gs[i]) <= to[j]
  <2>1. i \in (n + 1)..Len(fs)   BY <1>1, <1>10
  <2>2. j = last \/ j \in (n + 1)..Len(fs)   BY <1>1, <1>2, <1>4
  <2>3. PICK p \in Nat, k \in Nat : p = at[i] /\ k = Len(fs[i]) /\ p + k <= a + 1 /\ to[i] = p /\ Len(gs[i]) = k
    BY <1>6, <2>1
  <2>4. CASE j = last
    <3>2. p + k <= a + 1   BY <2>3
    <3>1. p + k <= a + c + 1   BY <3>2
    <3> QED  BY <1>5, <2>3, <2>4, <3>1
  <2>5. CASE j \in (n + 1)..Len(fs)
    <3>1. at[i] + Len(fs[i]) <= at[j]   BY <1>10, <2>1, <2>5 DEF Laid
    <3>2. to[j] = at[j]   BY <1>6, <2>5
    <3> QED  BY <2>3, <3>1, <3>2
  <2> QED  BY <2>2, <2>4, <2>5
<1>11. ASSUME NEW p \in MagicAt(v)
       PROVE  \E i \in (n + 1)..Len(gs) : to[i] <= p /\ p < to[i] + Len(gs[i])
  <2>1. p \in 1..((a + c + l) - 1) /\ v[p] = 10 /\ v[p + 1] = 11   BY <1>3, MagicIs
  <2>2. CASE p > a + c
    <3>1. a + c + 1 <= p /\ p < (a + c + 1) + l   BY <1>2, <2>1, <2>2
    <3> QED  BY <1>2, <1>5, <3>1
  <2>3. CASE p = a + c
    <3>1. v[(a + c) + 1] = f[1]
      <4>1. 1 \in 1..Len(f)   BY <1>2
      <4> QED  BY <1>2, <4>1 DEF Added
    <3>2. f[1] = 10   BY DEF WholeFrame
    <3> QED  BY <2>1, <2>3, <3>1, <3>2
  <2>4. CASE p < a + c /\ p > a
    <3>1. PICK k \in 1..(c - 1) : p = a + k
      <4>1. p - a \in 1..(c - 1) /\ p = a + (p - a)   BY <1>2, <2>1, <2>4
      <4> QED  BY <4>1
    <3>2. k \in 1..Len(noise) /\ k + 1 \in 1..Len(noise) /\ k \in 1..(Len(noise) - 1)   BY <1>2
    <3>3. v[a + k] = noise[k] /\ v[a + (k + 1)] = noise[k + 1]   BY <1>2, <3>2 DEF Added
    <3>4. a + (k + 1) = p + 1   BY <1>2, <3>1
    <3>5. noise[k] = 10 /\ noise[k + 1] = 11   BY <2>1, <3>1, <3>3, <3>4
    <3>6. noise \in Seq(Byte)   BY DEF NoMagic
    <3>7. k \in MagicAt(noise)   BY <3>2, <3>5, <3>6, MagicIs
    <3>8. SubSeq(noise, k, k + 1) = Magic   BY <3>7 DEF MagicAt
    <3> QED  BY <3>2, <3>8 DEF NoMagic
  <2>5. CASE p = a
    <3>1. n # Len(fs)
      <4> SUFFICES ASSUME n = Len(fs) PROVE FALSE   OBVIOUS
      <4>1. u = <<>>   BY DEF Laid
      <4> QED  BY <1>2, <2>1, <2>5, <4>1
    <3>2. Len(fs) \in (n + 1)..Len(fs)   BY <1>1, <3>1
    <3>3. at[Len(fs)] + Len(fs[Len(fs)]) = a + 1   BY <1>2, <3>1 DEF Laid
    <3>4. PICK q \in Nat, k \in Nat : q = at[Len(fs)] /\ k = Len(fs[Len(fs)]) /\ q \in 1..a   BY <1>6, <3>2
    <3>5. q <= p /\ p < q + k   BY <1>2, <2>5, <3>3, <3>4
    <3>6. to[Len(fs)] = q /\ Len(gs[Len(fs)]) = k /\ Len(fs) \in (n + 1)..Len(gs)   BY <1>1, <1>6, <3>2, <3>4
    <3> QED  BY <3>5, <3>6
  <2>6. CASE p < a
    <3>1. p \in 1..Len(u) /\ p + 1 \in 1..Len(u) /\ p \in 1..(Len(u) - 1)   BY <1>2, <2>1, <2>6
    <3>2. u[p] = 10 /\ u[p + 1] = 11   BY <2>1, <3>1 DEF Added
    <3>3. p \in MagicAt(u)   BY <3>1, <3>2, MagicIs
    <3>4. PICK i \in (n + 1)..Len(fs) : at[i] <= p /\ p < at[i] + Len(fs[i])   BY <3>3 DEF Laid
    <3>5. to[i] = at[i] /\ gs[i] = fs[i]   BY <1>6
    <3>6. i \in (n + 1)..Len(gs)   BY <1>1
    <3> QED  BY <3>4, <3>5, <3>6
  <2>7. p \in Nat   BY <1>2, <2>1
  <2> QED  BY SMTT(40), <1>2, <2>2, <2>3, <2>4, <2>5, <2>6, <2>7
<1>12. n # Len(gs) /\ to[Len(gs)] + Len(gs[Len(gs)]) = Len(v) + 1
  <2>1. Len(gs) = last   BY <1>1, <1>2
  <2>2. (a + c + 1) + l = (a + c + l) + 1   BY <1>2
  <2> QED  BY <1>1, <1>2, <1>3, <1>5, <2>1, <2>2
<1>13. Laid(v, gs, n, to)   BY <1>9, <1>10, <1>11, <1>12 DEF Laid
<1> QED  BY <1>13 DEF to, Extended

---------------------------------------------------------------------------
(* Sizes: what the vehicle sends fits a frame.                            *)

\* The ids of requests fit the scaled width.
LEMMA IdType ==
    ASSUME NEW i \in 1..MaxRequests
    PROVE  RequestId(i) \in 1..511
<1>1. MaxRequests \in Nat /\ 10 * MaxRequests < 512   BY WireAssumption, Widths DEF WireConstants, RequestId
<1> QED  BY <1>1 DEF RequestId

\* What the answer to a pairing carries: the tokens that the vehicle issued.
TopicBody(id) == BytesField(1, Issued(id).access) \o BytesField(2, Issued(id).refresh) \o VarintField(3, 1)

\* The size of the tokens.
LEMMA IssuedSized ==
    ASSUME NEW id \in 0..511
    PROVE  Sized(Issued(id).access, 2, 2) /\ Sized(Issued(id).refresh, 2, 2)
<1>1. id % 4 \in Byte /\ 4 \in Byte /\ 5 \in Byte   BY Widths
<1>2. PICK x \in Byte : x = id % 4   BY <1>1
<1>3. Issued(id) = [access |-> <<4, x>>, refresh |-> <<5, x>>]   BY <1>2 DEF Issued
<1>4. <<4, x>> \in Seq(Byte) /\ Len(<<4, x>>) = 2 /\ <<5, x>> \in Seq(Byte) /\ Len(<<5, x>>) = 2   BY <1>1
<1> QED  BY <1>3, <1>4 DEF Sized

\* The size of what the answer to a pairing carries.
LEMMA TopicBodySized ==
    ASSUME NEW id \in 0..511
    PROVE  Sized(TopicBody(id), 0, 22)
<1>1. Sized(BytesField(1, Issued(id).access), 2 + 2, 6 + 2) /\ Sized(BytesField(2, Issued(id).refresh), 2 + 2, 6 + 2)
  <2>1. PICK one \in 0..63, two \in 0..63, m \in 0..511 : one = 1 /\ two = 2 /\ m = 2   OBVIOUS
  <2>2. Sized(Issued(id).access, m, m) /\ Sized(Issued(id).refresh, m, m)   BY Zenon, <2>1, IssuedSized
  <2>3. Sized(BytesField(one, Issued(id).access), 2 + m, 6 + m)   BY ZenonT(40), <2>2, BytesFieldSized
  <2>4. Sized(BytesField(two, Issued(id).refresh), 2 + m, 6 + m)   BY ZenonT(40), <2>2, BytesFieldSized
  <2> QED  BY <2>1, <2>3, <2>4
<1>0. 3 \in 0..63 /\ 1 \in 0..511   OBVIOUS
<1>2. Sized(VarintField(3, 1), 2, 6)   BY Zenon, <1>0, VarintFieldSized
<1>3. PICK f, g, h : f = BytesField(1, Issued(id).access) /\ g = BytesField(2, Issued(id).refresh) /\ h = VarintField(3, 1)
  OBVIOUS
<1>4. Sized(f, 4, 8) /\ Sized(g, 4, 8) /\ Sized(h, 2, 6)   BY <1>1, <1>2, <1>3
<1>5. Sized(f \o g, 4 + 4, 8 + 8)   BY <1>4, SizedJoin
<1>6. PICK fg : fg = f \o g   OBVIOUS
<1>7. Sized(fg, 8, 16)   BY <1>5, <1>6
<1>8. Sized(fg \o h, 8 + 2, 16 + 6)   BY <1>4, <1>7, SizedJoin
<1>9. Sized(fg \o h, 10, 22)   BY <1>8
<1>10. Sized(fg \o h, 0, 22)   BY <1>9, SizedWider
<1> QED  BY <1>3, <1>6, <1>10 DEF TopicBody

\* The response within an answer.
ResponseBody(r, status) ==
    VarintField(1, r.id) \o (IF status = 0 THEN <<>> ELSE VarintField(2, status)) \o Topic(r)

\* The size of the topic of an answer.
LEMMA TopicSized ==
    ASSUME NEW r, r.id \in 0..511
    PROVE  Sized(Topic(r), 0, 28) /\ Topic(r) = IF r.kind # "pair" THEN <<>> ELSE BytesField(9, TopicBody(r.id))
<1>1. CASE r.kind # "pair"
  <2>1. Topic(r) = <<>>   BY <1>1 DEF Topic
  <2>2. Sized(<<>>, 0, 28)   BY EmptySized, SizedWider
  <2> QED  BY <1>1, <2>1, <2>2
<1>2. CASE r.kind = "pair"
  <2>1. Sized(TopicBody(r.id), 0, 22)   BY TopicBodySized
  <2>2. Sized(BytesField(9, TopicBody(r.id)), 2 + 0, 6 + 22)
    <3>1. 9 \in 0..63 /\ 0 \in 0..511 /\ 22 \in 0..511   OBVIOUS
    <3> QED  BY ZenonT(40), <2>1, <3>1, BytesFieldSized
  <2>3. PICK b : b = BytesField(9, TopicBody(r.id))   OBVIOUS
  <2>4. Sized(b, 2, 28)   BY <2>2, <2>3
  <2>5. Sized(b, 0, 28)   BY <2>4, SizedWider
  <2>6. Topic(r) = b   BY <1>2, <2>3 DEF Topic, TopicBody
  <2> QED  BY SMTT(40), <1>2, <2>3, <2>5, <2>6
<1> QED  BY <1>1, <1>2

\* The size of a response.
LEMMA ResponseBodySized ==
    ASSUME NEW r, r.id \in 0..511, NEW status \in {0, 3}
    PROVE  Sized(ResponseBody(r, status), 0, 40)
<1>1. PICK f, g, t : f = VarintField(1, r.id) /\ g = (IF status = 0 THEN <<>> ELSE VarintField(2, status)) /\ t = Topic(r)
  OBVIOUS
<1>0. 1 \in 0..63 /\ 2 \in 0..63 /\ 3 \in 0..511   OBVIOUS
<1>2. Sized(f, 2, 6)   BY Zenon, <1>0, <1>1, VarintFieldSized
<1>3. Sized(t, 0, 28)   BY <1>1, TopicSized
<1>4. Sized(g, 0, 6)
  <2>1. CASE status = 0
    <3>1. Sized(<<>>, 0, 6)   BY EmptySized, SizedWider
    <3> QED  BY <1>1, <2>1, <3>1
  <2>2. CASE status = 3
    <3>1. Sized(VarintField(2, 3), 2, 6)   BY Zenon, <1>0, VarintFieldSized
    <3>2. Sized(VarintField(2, 3), 0, 6)   BY <3>1, SizedWider
    <3>3. g = VarintField(2, 3)   BY <1>1, <2>2
    <3> QED  BY <3>2, <3>3
  <2> QED  BY <2>1, <2>2
<1>5. PICK fg : fg = f \o g   OBVIOUS
<1>6. Sized(fg, 2 + 0, 6 + 6)   BY <1>2, <1>4, <1>5, SizedJoin
<1>7. Sized(fg, 2, 12)   BY <1>6
<1>8. Sized(fg \o t, 2 + 0, 12 + 28)   BY <1>3, <1>7, SizedJoin
<1>9. Sized(fg \o t, 2, 40)   BY <1>8
<1>10. Sized(fg \o t, 0, 40)   BY <1>9, SizedWider
<1> QED  BY <1>1, <1>5, <1>10 DEF ResponseBody

\* An answer fits a frame.
LEMMA ResponseSized ==
    ASSUME NEW r, r.id \in 0..511, NEW status \in {0, 3}
    PROVE  Response(r, status) = BytesField(2, ResponseBody(r, status)) /\ Sized(Response(r, status), 0, 255)
<1>1. PICK b : b = ResponseBody(r, status)   OBVIOUS
<1>2. Sized(b, 0, 40)   BY <1>1, ResponseBodySized
<1>3. PICK c : c = BytesField(2, b)   OBVIOUS
<1>0. 2 \in 0..63 /\ 0 \in 0..511 /\ 40 \in 0..511   OBVIOUS
<1>4. Sized(c, 2 + 0, 6 + 40)   BY ZenonT(40), <1>0, <1>2, <1>3, BytesFieldSized
<1>5. Sized(c, 2, 46)   BY <1>4
<1>6. Sized(c, 0, 255)   BY <1>5, SizedWider
<1>7. Response(r, status) = c   BY <1>1, <1>3 DEF Response, ResponseBody
<1> QED  BY <1>1, <1>3, <1>6, <1>7

---------------------------------------------------------------------------
(* The stream: the bytes of the buffer and of the tunnel together.        *)

\* A buffer b and a tunnel t hold the frames fs from the n-th on: the next one is not
\* whole in the buffer yet.
Stream(b, t, fs, n) ==
    /\ b \in Seq(Byte) /\ t \in Seq(Byte)
    /\ \E at : Laid(b \o t, fs, n, at) /\ (n < Len(fs) => Len(b) + 1 < at[n + 1] + Len(fs[n + 1]))

\* A whole frame may be added to whole frames.
LEMMA WholeAppend ==
    ASSUME NEW fs, Whole(fs), NEW f, WholeFrame(f), NEW gs, gs = Append(fs, f)
    PROVE  Appended(gs, fs, f)
<1>1. f \in Seq(Byte) /\ fs \in Seq(Seq(Byte))   BY DEF WholeFrame, Whole
<1>2. PICK T : T = Seq(Byte)   OBVIOUS
<1>3. fs \in Seq(T) /\ f \in T   BY <1>1, <1>2
<1>4. gs \in Seq(T) /\ Len(gs) = Len(fs) + 1 /\ (\A i \in 1..Len(fs) : gs[i] = fs[i]) /\ gs[Len(fs) + 1] = f
  BY <1>3, AppendProperties
<1>5. \A i \in 1..Len(gs) : WholeFrame(gs[i])
  <2> TAKE i \in 1..Len(gs)
  <2>1. i \in 1..Len(fs) \/ i = Len(fs) + 1   BY <1>3, <1>4
  <2> QED  BY <1>4, <2>1 DEF Whole
<1> QED  BY <1>2, <1>4, <1>5 DEF Whole, Appended

\* That of bytes does.
LEMMA ConcatAssociates == ASSUME NEW s \in Seq(Byte), NEW t \in Seq(Byte), NEW u \in Seq(Byte) PROVE Associates(s, t, u)
BY SMTT(40), ConcatAssociative DEF Associates

\* The vehicle adds a frame, and bytes before it, to the stream.
LEMMA StreamAdds ==
    ASSUME NEW b, NEW t, NEW fs, NEW n \in 0..Len(fs), Whole(fs), Stream(b, t, fs, n),
           NEW noise, NoMagic(noise), NEW f, WholeFrame(f), NEW gs, gs = Append(fs, f)
    PROVE  Stream(b, (t \o noise) \o f, gs, n)
<1>1. b \in Seq(Byte) /\ t \in Seq(Byte) /\ noise \in Seq(Byte) /\ f \in Seq(Byte)   BY DEF Stream, NoMagic, WholeFrame
<1>2. PICK at : Laid(b \o t, fs, n, at) /\ (n < Len(fs) => Len(b) + 1 < at[n + 1] + Len(fs[n + 1]))   BY DEF Stream
<1>3. PICK u : u = b \o t   OBVIOUS
<1>4. u \in Seq(Byte)   BY <1>1, <1>3, ConcatIs DEF Joined
<1>5. PICK z : z = (t \o noise) \o f   OBVIOUS
<1>6. t \o noise \in Seq(Byte)   BY <1>1, ConcatIs DEF Joined
<1>7. z \in Seq(Byte)   BY <1>1, <1>5, <1>6, ConcatIs DEF Joined
<1>8. b \o z = (u \o noise) \o f
  <2>3. Associates(b, t \o noise, f) /\ Associates(b, t, noise)   BY <1>1, <1>6, ConcatAssociates
  <2>1. b \o z = (b \o (t \o noise)) \o f   BY <1>5, <2>3 DEF Associates
  <2>2. b \o (t \o noise) = u \o noise   BY <1>3, <2>3 DEF Associates
  <2> QED  BY <2>1, <2>2
<1>9. PICK v : v = b \o z   OBVIOUS
<1>10. Added(v, u, noise, f)   BY <1>1, <1>4, <1>8, <1>9, AddedIs
<1>14. Appended(gs, fs, f)   BY WholeAppend
<1>11. /\ Whole(gs) /\ Len(gs) = Len(fs) + 1
       /\ (\A i \in 1..Len(fs) : gs[i] = fs[i]) /\ gs[Len(fs) + 1] = f
  BY <1>14 DEF Appended
<1>15. PICK p : p = Len(u) + Len(noise) + 1   OBVIOUS
<1> DEFINE to == Extended(at, gs, p)
<1>16. to = [i \in 1..Len(gs) |-> IF i = Len(gs) THEN p ELSE at[i]]   BY DEF Extended
<1> HIDE DEF to
<1>12. Laid(v, gs, n, to)   
  <2>1. Laid(u, fs, n, at)   BY <1>2, <1>3
  <2> QED  BY <1>4, <1>10, <1>14, <1>15, <2>1, LaidAdd DEF to
<1>13. ASSUME n < Len(gs) PROVE Len(b) + 1 < to[n + 1] + Len(gs[n + 1])
  <2>1. Len(fs) \in Nat   BY DEF Whole
  <2>2. CASE n = Len(fs)
    <3>1. u = <<>>   BY <1>2, <1>3, <2>2 DEF Laid
    <3>9. Joined(u, b, t)   BY <1>1, <1>3, ConcatIs
    <3>10. Len(u) = Len(b) + Len(t) /\ Len(u) = 0   BY <3>1, <3>9 DEF Joined
    <3>11. PICK x \in Nat, y \in Nat : x = Len(b) /\ y = Len(t)   BY <1>1
    <3>12. x + y = 0   BY <3>10, <3>11
    <3>13. x = 0   BY <3>12
    <3>2. Len(b) = 0 /\ Len(u) = 0   BY <3>10, <3>11, <3>13
    <3>3. n + 1 = Len(gs) /\ n + 1 \in 1..Len(gs)   BY <1>11, <2>1, <2>2
    <3>4. to[n + 1] = Len(u) + Len(noise) + 1   BY <1>15, <1>16, <3>3
    <3>5. gs[n + 1] = f   BY <1>11, <2>2
    <3>6. Len(f) >= 5   BY DEF WholeFrame
    <3>7. PICK w \in Nat, q \in Nat : w = Len(noise) /\ q = Len(f)   BY <1>1
    <3>8. 0 + 1 < (0 + w + 1) + q   BY <3>6, <3>7
    <3> QED  BY <3>2, <3>4, <3>5, <3>7, <3>8
  <2>3. CASE n # Len(fs)
    <3>1. n < Len(fs) /\ n + 1 \in 1..Len(fs) /\ n + 1 \in 1..Len(gs) /\ n + 1 # Len(gs)   BY <1>11, <2>1, <2>3
    <3>2. to[n + 1] = at[n + 1] /\ gs[n + 1] = fs[n + 1]   BY <1>11, <1>16, <3>1
    <3> QED  BY <1>2, <3>1, <3>2
  <2> QED  BY <2>2, <2>3
<1> QED  BY <1>1, <1>5, <1>7, <1>9, <1>12, <1>13 DEF Stream

\* What is left of b after its first d bytes.
Rest(r, b, d) == r = SubSeq(b, d + 1, Len(b))

\* What is left, and what follows, drops them from the whole.
LEMMA RestDropped ==
    ASSUME NEW c \in Seq(Byte), NEW s \in Seq(Byte), NEW d \in 0..Len(c), NEW r, Rest(r, c, d)
    PROVE  Dropped(r \o s, c \o s, d) /\ r \in Seq(Byte) /\ Len(r) = Len(c) - d
<1>1. Dropped(r, c, d)   BY DropIs DEF Rest
<1>2. r \in Seq(Byte) /\ Len(r) = Len(c) - d /\ \A i \in 1..Len(r) : r[i] = c[d + i]   BY <1>1 DEF Dropped
<1>3. PICK u, v : u = c \o s /\ v = r \o s   OBVIOUS
<1>4. Joined(u, c, s) /\ Joined(v, r, s)   BY <1>2, <1>3, ConcatIs
<1>5. PICK x \in Nat, y \in Nat : x = Len(c) /\ y = Len(s)   OBVIOUS
<1>6. Len(u) = x + y /\ Len(r) = x - d /\ Len(v) = (x - d) + y
  <2>1. Len(u) = Len(c) + Len(s) /\ Len(v) = Len(r) + Len(s)   BY <1>4 DEF Joined
  <2> QED  BY <1>2, <1>5, <2>1
<1>7. d \in 0..x   BY <1>5
<1>8. Len(v) = Len(u) - d
  <2>1. (x - d) + y = (x + y) - d   BY <1>7
  <2> QED  BY <1>6, <2>1
<1>9. ASSUME NEW i \in 1..Len(v) PROVE v[i] = u[d + i]
  <2>1. i \in 1..((x - d) + y)   BY <1>6
  <2>2. CASE i <= x - d
    <3>1. i \in 1..(x - d) /\ d + i \in 1..x   BY <1>7, <2>1, <2>2
    <3>2. v[i] = r[i]   BY <1>4, <1>6, <3>1 DEF Joined
    <3>3. r[i] = c[d + i]   BY <1>2, <1>6, <3>1
    <3>4. u[d + i] = c[d + i]   BY <1>4, <1>5, <3>1 DEF Joined
    <3> QED  BY <3>2, <3>3, <3>4
  <2>3. CASE i > x - d
    <3>1. PICK k \in 1..y : i = (x - d) + k
      <4>1. i - (x - d) \in 1..y /\ i = (x - d) + (i - (x - d))   BY <1>7, <2>1, <2>3
      <4> QED  BY <4>1
    <3>2. v[(x - d) + k] = s[k]   BY <1>4, <1>5, <1>6 DEF Joined
    <3>3. u[x + k] = s[k]   BY <1>4, <1>5 DEF Joined
    <3>4. d + i = x + k   BY <1>7, <3>1
    <3> QED  BY <3>1, <3>2, <3>3, <3>4
  <2> QED  BY <1>7, <2>1, <2>2, <2>3
<1>10. v \in Seq(Byte)   BY <1>4 DEF Joined
<1> QED  BY <1>2, <1>3, <1>8, <1>9, <1>10 DEF Dropped

\* A record of any length is read: _feed_frames yields the next frames of the stream and
\* the buffer keeps its place.
LEMMA StreamFeeds ==
    ASSUME NEW b, NEW t, NEW fs, NEW n \in 0..Len(fs), Whole(fs), Stream(b, t, fs, n), NEW k \in 1..Len(t),
           NEW fed, fed = Feed(b \o SubSeq(t, 1, k))
    PROVE  \E m \in n..Len(fs) : /\ fed.frames = SubSeq(fs, n + 1, m)
                                 /\ Stream(fed.rest, SubSeq(t, k + 1, Len(t)), fs, m)
<1>1. b \in Seq(Byte) /\ t \in Seq(Byte) /\ Len(t) \in Nat /\ Len(fs) \in Nat   BY DEF Stream, Whole
<1>2. PICK at : Laid(b \o t, fs, n, at)   BY DEF Stream
<1>3. PICK p, s : p = SubSeq(t, 1, k) /\ s = SubSeq(t, k + 1, Len(t))   OBVIOUS
<1>4. p \in Seq(Byte) /\ s \in Seq(Byte) /\ p \o s = t
  <2>1. k \in Nat /\ k \in 0..Len(t) /\ 1 \in 1..(Len(t) + 1) /\ k \in (1 - 1)..Len(t) /\ Len(t) \in k..Len(t)   BY <1>1
  <2>2. Dropped(s, t, k)   BY <1>1, <1>3, <2>1, DropIs
  <2>3. p \o s = SubSeq(t, 1, Len(t))   BY <1>1, <1>3, <2>1, ConcatAdjacentSubSeq
  <2>4. SubSeq(t, 1, Len(t)) = t   BY <1>1, SubSeqFull
  <2>5. p \in Seq(Byte)
    <3>1. \A i \in 1..k : t[i] \in Byte
      <4> TAKE i \in 1..k
      <4>1. i \in 1..Len(t)   BY <1>1
      <4> QED  BY <1>1, <4>1
    <3> QED  BY <1>1, <1>3, <2>1, <3>1, SubSeqProperties
  <2> QED  BY <2>2, <2>3, <2>4, <2>5 DEF Dropped
<1>5. PICK u, c : u = b \o t /\ c = b \o p   OBVIOUS
<1>6. u \in Seq(Byte) /\ c \in Seq(Byte)   BY <1>1, <1>4, <1>5, ConcatIs DEF Joined
<1>7. u = c \o s
  <2>1. Associates(b, p, s)   BY <1>1, <1>4, ConcatAssociates
  <2> QED  BY <1>4, <1>5, <2>1 DEF Associates
<1>8. Prefix(c, u)
  <2>1. Joined(u, c, s)   BY <1>4, <1>6, <1>7, ConcatIs
  <2>2. Len(u) = Len(c) + Len(s) /\ \A i \in 1..Len(c) : u[i] = c[i]   BY <2>1 DEF Joined
  <2>3. Len(c) <= Len(u)   BY <1>4, <1>6, <2>2
  <2> QED  BY <1>6, <2>2, <2>3 DEF Prefix
<1>9. PICK m, d : Outcome(fed, c, fs, n, at, n, m, d)   BY <1>2, <1>3, <1>5, <1>8, FeedSplits
<1>10. /\ m \in n..Len(fs) /\ d \in 0..Len(c) /\ fed.frames = SubSeq(fs, n + 1, m) /\ Rest(fed.rest, c, d)
       /\ (m < Len(fs) => d < at[m + 1] /\ Len(c) + 1 < at[m + 1] + Len(fs[m + 1]))
       /\ (m > n => at[m] + Len(fs[m]) <= d + 1)
  BY <1>9 DEF Outcome, Rest
<1>11. PICK r, v : r = fed.rest /\ v = r \o s   OBVIOUS
<1>12. Dropped(v, u, d) /\ r \in Seq(Byte) /\ Len(r) = Len(c) - d   BY <1>4, <1>6, <1>7, <1>10, <1>11, RestDropped
<1> DEFINE to == Shifted(at, fs, d)
<1>17. to = [i \in 1..Len(fs) |-> at[i] - d]   BY DEF Shifted
<1> HIDE DEF to
<1>13. d \in 0..Len(u)   BY <1>6, <1>8, <1>10 DEF Prefix
<1>14. Laid(v, fs, m, to)
  <2>1. Laid(u, fs, n, at)   BY <1>2, <1>5
  <2>2. /\ m \in n..Len(fs) /\ (m < Len(fs) => d < at[m + 1])
        /\ (m > n => at[m] + Len(fs[m]) <= d + 1) /\ Dropped(v, u, d) /\ u \in Seq(Byte)
    BY <1>6, <1>10, <1>12
  <2>3. Whole(fs) /\ n \in 0..Len(fs)   OBVIOUS
  <2> QED  BY ONLY <1>13, <2>1, <2>2, <2>3, LaidDrop DEF to
<1>15. ASSUME m < Len(fs) PROVE Len(r) + 1 < to[m + 1] + Len(fs[m + 1])
  <2>1. m + 1 \in (n + 1)..Len(fs) /\ m + 1 \in 1..Len(fs)   BY <1>1, <1>10, <1>15
  <2>2. to[m + 1] = at[m + 1] - d   BY <1>17, <2>1
  <2>3. Laid(u, fs, n, at)   BY <1>2, <1>5
  <2>4. at[m + 1] \in Nat /\ Len(fs[m + 1]) \in Nat
    <3>1. PICK i \in (n + 1)..Len(fs) : i = m + 1   BY <2>1
    <3>2. at[i] \in Nat /\ Len(fs[i]) \in Nat   BY <1>6, <2>3, LaidFrames
    <3> QED  BY <3>1, <3>2
  <2>5. PICK x \in Nat, y \in Nat, l \in Nat : x = at[m + 1] /\ y = Len(fs[m + 1]) /\ l = Len(c)   BY <1>6, <2>4
  <2>6. l + 1 < x + y   BY <1>10, <1>15, <2>5
  <2>7. d \in Nat /\ d <= l   BY <1>10, <2>5
  <2>8. (l - d) + 1 < (x - d) + y   BY <2>6, <2>7
  <2> QED  BY <1>12, <2>2, <2>5, <2>8
<1>16. Stream(r, s, fs, m)   BY <1>4, <1>11, <1>12, <1>14, <1>15 DEF Stream
<1> QED  BY <1>3, <1>10, <1>11, <1>16

---------------------------------------------------------------------------
(* The types and the whole frames, in every state.                        *)

\* The requests that can be asked.
AskedRequests ==
    {[kind |-> q[1], id |-> RequestId(i), values |-> q[2], via |-> q[3]] : q \in Asks, i \in 1..MaxRequests}

\* What was asked: each request has an id of its own.
AskedInv ==
    /\ asked \in Seq(AskedRequests) /\ Len(asked) <= MaxRequests
    /\ \A i \in 1..Len(asked) : asked[i].id = RequestId(i)
    /\ open \in BOOLEAN /\ (report = NoReport \/ report \in Reports)

\* A part of a sequence, from a place on
PartOf(fs, all, n) ==
    /\ fs \in Seq(Seq(Byte)) /\ Len(fs) <= n
    /\ \A i \in 1..Len(fs) : fs[i] = all[n - Len(fs) + i]

\* The inductive invariant of the reassembly: the frames sent are whole, the buffer and
\* the tunnel hold those not found yet, and the frames to be looked at are the last ones
\* found.
StreamInv ==
    /\ Whole(sent) /\ Len(sent) <= MaxFrames /\ found \in 0..Len(sent)
    /\ Stream(buffer, tunnel, sent, found) /\ PartOf(frames, sent, found)

\* A new session has an empty stream.
LEMMA EmptyStream == Whole(<<>>) /\ Stream(<<>>, <<>>, <<>>, 0) /\ \A fs : PartOf(<<>>, fs, 0)
<1>1. PICK e : e = <<>>   OBVIOUS
<1>2. e \in Seq(Byte) /\ Len(e) = 0 /\ e \o e = e /\ e \in Seq(Seq(Byte))   BY <1>1
<1>3. MagicAt(e) = {}   BY <1>2 DEF MagicAt
<1>4. 0 + 1 = 1 /\ 1..0 = {}   OBVIOUS
<1>5. Laid(e, e, 0, e)   BY <1>1, <1>2, <1>3, <1>4 DEF Laid
<1>6. Stream(e, e, e, 0)   BY <1>2, <1>5 DEF Stream
<1>7. Whole(e)   BY <1>2 DEF Whole
<1>8. \A fs : PartOf(e, fs, 0)   BY <1>2 DEF PartOf
<1> QED  BY <1>1, <1>6, <1>7, <1>8

\* Both hold initially.
LEMMA StreamStarts == WireInit => AskedInv /\ StreamInv
<1> SUFFICES ASSUME WireInit PROVE AskedInv /\ StreamInv   OBVIOUS
<1>1. MaxFrames \in Nat /\ MaxRequests \in Nat   BY WireAssumption DEF WireConstants
<1>2. AskedInv
  <2>1. asked = <<>> /\ open = FALSE /\ report = NoReport   BY DEF WireInit
  <2>2. <<>> \in Seq(AskedRequests) /\ Len(<<>>) = 0   OBVIOUS
  <2>3. asked \in Seq(AskedRequests) /\ Len(asked) = 0   BY <2>1, <2>2
  <2>4. Len(asked) <= MaxRequests   BY ONLY <1>1, <2>3
  <2>5. \A i \in 1..Len(asked) : asked[i].id = RequestId(i)   BY ONLY <2>3
  <2> QED  BY <2>1, <2>3, <2>4, <2>5 DEF AskedInv
<1>3. 0 \in 0..Len(<<>>) /\ Len(<<>>) <= MaxFrames   BY <1>1
<1>4. StreamInv   BY <1>3, EmptyStream DEF WireInit, StreamInv
<1> QED  BY <1>2, <1>4

\* The kinds of the requests and what each carries.
LEMMA AsksKinds ==
    ASSUME NEW r \in AskedRequests
    PROVE  /\ r.kind \in {"values", "restart", "pair", "catalog", "refresh"} /\ r.via \in {"ble", "cloud"}
           /\ r.id \in 1..511
           /\ r.kind = "values" => r.values \in Commands
           /\ r.kind = "catalog" => r.values \in Catalogs /\ r.via = "cloud"
           /\ r.kind \notin {"values", "catalog"} => r.values = <<>>
           /\ r.kind = "pair" => r.via = "ble"
           /\ r.kind = "refresh" => r.via = "cloud"
<1>1. PICK q \in Asks, i \in 1..MaxRequests :
          r = [kind |-> q[1], id |-> RequestId(i), values |-> q[2], via |-> q[3]]
  BY DEF AskedRequests
<1>2. RequestId(i) \in 1..511   BY IdType
<1>3. \/ q[1] = "restart" /\ q[2] = <<>> /\ q[3] \in {"ble", "cloud"}
      \/ q[1] = "values" /\ q[2] \in Commands /\ q[3] \in {"ble", "cloud"}
      \/ q[1] = "catalog" /\ q[2] \in Catalogs /\ q[3] = "cloud"
      \/ q[1] = "refresh" /\ q[2] = <<>> /\ q[3] = "cloud"
      \/ q[1] = "pair" /\ q[2] = <<>> /\ q[3] = "ble"
  BY DEF Asks
<1> QED  BY <1>1, <1>2, <1>3

\* Every step keeps what was asked.
LEMMA AskedStep == AskedInv /\ [WireNext]_wireVars => AskedInv'
<1> SUFFICES ASSUME AskedInv, [WireNext]_wireVars PROVE AskedInv'   OBVIOUS
<1>1. MaxRequests \in Nat   BY WireAssumption DEF WireConstants
<1>2. ASSUME NEW q \in Asks, Ask(q[1], q[2], q[3]) PROVE AskedInv'
  <2>1. PICK n \in Nat : n = Len(asked)   BY DEF AskedInv
  <2>2. n < MaxRequests /\ n + 1 \in 1..MaxRequests   BY <1>1, <1>2, <2>1 DEF Ask
  <2>3. PICK r : r = [kind |-> q[1], id |-> RequestId(n + 1), values |-> q[2], via |-> q[3]]   OBVIOUS
  <2>4. r \in AskedRequests   BY <2>2, <2>3 DEF AskedRequests
  <2>5. asked' = Append(asked, r)   BY <1>2, <2>1, <2>3 DEF Ask
  <2>6. asked \in Seq(AskedRequests)   BY DEF AskedInv
  <2>7. /\ asked' \in Seq(AskedRequests) /\ Len(asked') = n + 1 /\ asked'[n + 1] = r
        /\ \A i \in 1..n : asked'[i] = asked[i]
    BY <2>1, <2>4, <2>5, <2>6, AppendProperties
  <2>8. \A i \in 1..(n + 1) : asked'[i].id = RequestId(i)
    <3> TAKE i \in 1..(n + 1)
    <3>1. CASE i = n + 1   BY <2>3, <2>7, <3>1
    <3>2. CASE i # n + 1
      <4>1. i \in 1..n   BY <3>2
      <4> QED  BY <2>1, <2>7, <4>1 DEF AskedInv
    <3> QED  BY <3>1, <3>2
  <2>9. open' \in BOOLEAN /\ report' = report   BY <1>2 DEF Ask, cloud
  <2>10. Len(asked') <= MaxRequests   BY <2>2, <2>7
  <2> QED  BY <2>7, <2>8, <2>9, <2>10 DEF AskedInv
<1>3. ASSUME UNCHANGED <<asked, report>>, open' \in BOOLEAN PROVE AskedInv'   BY <1>3 DEF AskedInv
<1>4. open \in BOOLEAN   BY DEF AskedInv
<1>5. ASSUME NEW noise, NEW payload, Transmit(noise, payload) PROVE AskedInv'
  BY <1>3, <1>4, <1>5 DEF Transmit, cloud
<1>6. ASSUME NEW n, Receive(n) PROVE AskedInv'   BY <1>3, <1>4, <1>6 DEF Receive, cloud
<1>7. ASSUME Take PROVE AskedInv'
  <2>1. open' \in BOOLEAN
    <3>1. open' = ~Matches(BleResponse(Head(frames)))   BY <1>7 DEF Take
    <3> QED  BY <3>1
  <2> QED  BY <1>3, <1>7, <2>1 DEF Take, cloud
<1>8. ASSUME TearDown PROVE AskedInv'   BY <1>3, <1>8 DEF TearDown, cloud
<1>9. ASSUME NEW r \in Reports, Report(r) PROVE AskedInv'   BY <1>9 DEF Report, AskedInv
<1>10. ASSUME UNCHANGED wireVars PROVE AskedInv'   BY <1>3, <1>4, <1>10 DEF wireVars, cloud
<1>11. \A q \in Asks : Ask(q[1], q[2], q[3]) => AskedInv'   BY <1>2
<1> QED  BY <1>11, <1>5, <1>6, <1>7, <1>8, <1>9, <1>10 DEF WireNext, Push, Answer

\* The vehicle sends a frame.
LEMMA TransmitKeepsStream ==
    ASSUME StreamInv, NEW noise \in Noises, NEW payload, Sized(payload, 0, 255), Transmit(noise, payload)
    PROVE  StreamInv'
<1>1. PICK f : f = EncodeFrame(payload)   OBVIOUS
<1>2. WholeFrame(f)   BY <1>1, FrameOf
<1>3. NoMagic(noise)   BY WireAssumption DEF WireConstants, NoMagic
<1>4. PICK gs : gs = Append(sent, f)   OBVIOUS
<1>5. /\ sent' = gs /\ tunnel' = (tunnel \o noise) \o f /\ Len(sent) < MaxFrames
      /\ buffer' = buffer /\ frames' = frames /\ found' = found
  BY <1>1, <1>4 DEF Transmit
<1>6. Whole(sent) /\ found \in 0..Len(sent) /\ Stream(buffer, tunnel, sent, found) /\ PartOf(frames, sent, found)
  BY DEF StreamInv
<1>7. Appended(gs, sent, f)   BY <1>2, <1>4, <1>6, WholeAppend
<1>8. Whole(gs) /\ Len(gs) = Len(sent) + 1 /\ \A i \in 1..Len(sent) : gs[i] = sent[i]   BY <1>7 DEF Appended
<1>9. Stream(buffer, (tunnel \o noise) \o f, gs, found)   BY <1>2, <1>3, <1>4, <1>6, StreamAdds
<1>10. PICK l \in Nat : l = Len(sent)   BY <1>6 DEF Whole
<1>11. MaxFrames \in Nat   BY WireAssumption DEF WireConstants
<1>12. Len(gs) <= MaxFrames /\ found \in 0..Len(gs)   BY <1>5, <1>6, <1>8, <1>10, <1>11
<1>13. PartOf(frames, gs, found)
  <2>1. PICK k \in Nat : k = Len(frames) /\ k <= found   BY <1>6 DEF PartOf
  <2>2. ASSUME NEW i \in 1..k PROVE frames[i] = gs[found - k + i]
    <3>1. found - k + i \in 1..l   BY <1>6, <1>10, <2>1
    <3>2. frames[i] = sent[found - k + i]   BY <1>6, <2>1 DEF PartOf
    <3> QED  BY <1>8, <1>10, <3>1, <3>2
  <2> QED  BY <1>6, <2>1, <2>2 DEF PartOf
<1> QED  BY <1>5, <1>8, <1>9, <1>12, <1>13 DEF StreamInv

\* A record is read, of any length.
LEMMA ReceiveKeepsStream ==
    ASSUME StreamInv, NEW n \in 1..Len(tunnel), Receive(n)
    PROVE  StreamInv'
<1>1. PICK fed : fed = Feed(buffer \o SubSeq(tunnel, 1, n))   OBVIOUS
<1>2. /\ buffer' = fed.rest /\ frames' = fed.frames /\ found' = found + Len(fed.frames)
      /\ tunnel' = SubSeq(tunnel, n + 1, Len(tunnel)) /\ sent' = sent
  BY <1>1 DEF Receive
<1>3. Whole(sent) /\ Len(sent) <= MaxFrames /\ found \in 0..Len(sent) /\ Stream(buffer, tunnel, sent, found)
  BY DEF StreamInv
<1>4. PICK m \in found..Len(sent) :
          fed.frames = SubSeq(sent, found + 1, m) /\ Stream(fed.rest, SubSeq(tunnel, n + 1, Len(tunnel)), sent, m)
  BY <1>1, <1>3, StreamFeeds
<1>5. PICK T : T = Seq(Byte)   OBVIOUS
<1>6. sent \in Seq(T) /\ Len(sent) \in Nat   BY <1>3, <1>5 DEF Whole
<1>7. PICK s : s = fed.frames   OBVIOUS
<1>8. s \in Seq(T) /\ Len(s) = m - found /\ \A i \in 1..(m - found) : s[i] = sent[found + i]
  <2>1. found \in Nat /\ m \in Nat /\ found <= m /\ m <= Len(sent)   BY <1>3, <1>4, <1>6
  <2>2. \A i \in (found + 1)..m : sent[i] \in T
    <3> TAKE i \in (found + 1)..m
    <3>1. i \in 1..Len(sent)   BY <1>6, <2>1
    <3> QED  BY <1>6, <3>1
  <2>3. found + 1 \in Int /\ m \in Int /\ found + 1 \in 1..(Len(sent) + 1) /\ m \in ((found + 1) - 1)..Len(sent)   BY <1>6, <2>1
  <2>4. s = SubSeq(sent, found + 1, m)   BY <1>4, <1>7
  <2>5. /\ s \in Seq(T) /\ Len(s) = m - (found + 1) + 1
        /\ \A i \in 1..(m - (found + 1) + 1) : s[i] = sent[(found + 1) + i - 1]
    BY SMTT(40), <1>6, <2>2, <2>3, <2>4, SubSeqProperties
  <2>6. m - (found + 1) + 1 = m - found   BY <2>1
  <2>7. ASSUME NEW i \in 1..(m - found) PROVE s[i] = sent[found + i]
    <3>1. s[i] = sent[(found + 1) + i - 1]   BY <2>5, <2>6
    <3>2. (found + 1) + i - 1 = found + i   BY <2>1
    <3> QED  BY <3>1, <3>2
  <2> QED  BY <2>5, <2>6, <2>7
<1>9. found + Len(s) = m /\ m \in 0..Len(sent)   BY <1>3, <1>4, <1>6, <1>8
<1>10. PartOf(s, sent, m)
  <2>1. Len(s) <= m   BY <1>3, <1>4, <1>6, <1>8
  <2>2. m - Len(s) = found   BY <1>3, <1>4, <1>6, <1>8
  <2>3. \A i \in 1..Len(s) : s[i] = sent[m - Len(s) + i]   BY <1>8, <2>2
  <2> QED  BY <1>5, <1>8, <2>1, <2>3 DEF PartOf
<1>11. found' = m /\ frames' = s   BY <1>2, <1>7, <1>9
<1> QED  BY <1>2, <1>3, <1>4, <1>9, <1>10, <1>11 DEF StreamInv

\* A frame is looked at.
LEMMA TakeKeepsStream ==
    ASSUME StreamInv, Take
    PROVE  StreamInv'
<1>1. frames # <<>> /\ frames' = Tail(frames) /\ sent' = sent /\ found' = found /\ buffer' = buffer /\ tunnel' = tunnel
  BY DEF Take
<1>2. PartOf(frames, sent, found) /\ found \in 0..Len(sent) /\ Len(sent) \in Nat   BY DEF StreamInv, Whole
<1>3. PICK T : T = Seq(Byte)   OBVIOUS
<1>4. frames \in Seq(T) /\ Len(frames) <= found   BY <1>2, <1>3 DEF PartOf
<1>5. PICK g : g = Tail(frames)   OBVIOUS
<1>6. g \in Seq(T) /\ Len(g) = Len(frames) - 1 /\ \A i \in 1..Len(g) : g[i] = frames[i + 1]
  BY <1>1, <1>4, <1>5, HeadTailProperties
<1>7. PICK k \in Nat : k = Len(frames) /\ k <= found /\ Len(g) = k - 1   BY <1>4, <1>6
<1>8. ASSUME NEW i \in 1..Len(g) PROVE g[i] = sent[found - Len(g) + i]
  <2>1. i \in 1..(k - 1) /\ i + 1 \in 1..k   BY <1>7
  <2>2. frames[i + 1] = sent[found - k + (i + 1)]   BY <1>2, <1>7, <2>1 DEF PartOf
  <2>3. found - k + (i + 1) = found - (k - 1) + i   BY <1>2, <2>1
  <2> QED  BY <1>6, <1>7, <2>2, <2>3
<1>9. Len(g) <= found   BY <1>2, <1>7
<1>10. PartOf(g, sent, found)   BY <1>3, <1>6, <1>8, <1>9 DEF PartOf
<1> QED  BY <1>1, <1>5, <1>10 DEF StreamInv

\* Every step keeps the stream.
LEMMA StreamStep == AskedInv /\ StreamInv /\ [WireNext]_wireVars => StreamInv'
<1> SUFFICES ASSUME AskedInv, StreamInv, [WireNext]_wireVars PROVE StreamInv'   OBVIOUS
<1>1. ASSUME UNCHANGED stream PROVE StreamInv'   BY <1>1 DEF stream, StreamInv
<1>2. ASSUME NEW noise \in Noises, Push(noise) PROVE StreamInv'   BY <1>2, PushSized, TransmitKeepsStream DEF Push
<1>3. ASSUME NEW noise \in Noises, NEW i \in DOMAIN asked, NEW status \in {0, 3}, Answer(asked[i], status, noise)
      PROVE  StreamInv'
  <2>1. PICK r \in AskedRequests : r = asked[i]   BY DEF AskedInv
  <2>2. r.id \in 1..511   BY AsksKinds
  <2>3. r.id \in 0..511   BY <2>2
  <2>4. Sized(Response(r, status), 0, 255)   BY <2>3, ResponseSized
  <2>5. Transmit(noise, Response(r, status))   BY <1>3, <2>1 DEF Answer
  <2> QED  BY <2>4, <2>5, TransmitKeepsStream
<1>4. ASSUME NEW n \in 1..Len(tunnel), Receive(n) PROVE StreamInv'   BY <1>4, ReceiveKeepsStream
<1>5. ASSUME Take PROVE StreamInv'   BY <1>5, TakeKeepsStream
<1>6. ASSUME TearDown PROVE StreamInv'
  <2>1. sent' = <<>> /\ tunnel' = <<>> /\ buffer' = <<>> /\ frames' = <<>> /\ found' = 0   BY <1>6 DEF TearDown
  <2>2. MaxFrames \in Nat   BY WireAssumption DEF WireConstants
  <2>3. 0 \in 0..Len(<<>>) /\ Len(<<>>) <= MaxFrames   BY <2>2
  <2> QED  BY <2>1, <2>3, EmptyStream DEF StreamInv
<1>7. ASSUME NEW r \in Reports, Report(r) PROVE StreamInv'   BY <1>1, <1>7 DEF Report
<1>8. ASSUME NEW q, Ask(q[1], q[2], q[3]) PROVE StreamInv'   BY <1>1, <1>8 DEF Ask
<1>9. ASSUME UNCHANGED wireVars PROVE StreamInv'   BY <1>1, <1>9 DEF wireVars
<1> QED  BY <1>2, <1>3, <1>4, <1>5, <1>6, <1>7, <1>8, <1>9 DEF WireNext

\* So the invariant holds in every state.
LEMMA StreamAlways == WireSpec => [](AskedInv /\ StreamInv)
<1>1. WireInit => AskedInv /\ StreamInv   BY StreamStarts
<1>2. AskedInv /\ StreamInv /\ [WireNext]_wireVars => (AskedInv /\ StreamInv)'   BY AskedStep, StreamStep
<1> QED  BY <1>1, <1>2, PTL DEF WireSpec

\* It implies the types.
LEMMA StreamIsTyped == AskedInv /\ StreamInv => WireTypeOK
<1> SUFFICES ASSUME AskedInv, StreamInv PROVE WireTypeOK   OBVIOUS
<1>1. /\ Len(asked) <= MaxRequests /\ open \in BOOLEAN /\ (report = NoReport \/ report \in Reports)
  BY DEF AskedInv
<1>2. \A i \in DOMAIN asked :
        asked[i].kind \in {"values", "restart", "pair", "catalog", "refresh"} /\ asked[i].id = RequestId(i)
  <2> TAKE i \in DOMAIN asked
  <2>1. i \in 1..Len(asked) /\ asked[i] \in AskedRequests   BY DEF AskedInv
  <2> QED  BY <2>1, AsksKinds DEF AskedInv
<1>3. buffer \in Seq(Byte) /\ tunnel \in Seq(Byte)   BY DEF StreamInv, Stream
<1>4. (\A i \in DOMAIN tunnel : tunnel[i] \in Byte) /\ (\A i \in DOMAIN buffer : buffer[i] \in Byte)   BY <1>3
<1>5. Len(sent) <= MaxFrames /\ found \in 0..Len(sent)   BY DEF StreamInv
<1> QED  BY <1>1, <1>2, <1>4, <1>5 DEF WireTypeOK

\* It implies that the frames are put together whole and in order.
LEMMA StreamIsWhole == StreamInv => FramesAreWhole
<1> SUFFICES ASSUME StreamInv PROVE FramesAreWhole   OBVIOUS
<1>1. \A i \in DOMAIN frames : frames[i] = sent[found - Len(frames) + i]
  <2>1. PartOf(frames, sent, found)   BY DEF StreamInv
  <2>2. frames \in Seq(Seq(Byte))   BY <2>1 DEF PartOf
  <2>3. DOMAIN frames = 1..Len(frames)   BY <2>2
  <2> QED  BY <2>1, <2>3 DEF PartOf
<1>2. ASSUME tunnel = <<>>, found # Len(sent) PROVE FALSE
  <2>1. buffer \in Seq(Byte) /\ Whole(sent) /\ found \in 0..Len(sent) /\ Len(sent) \in Nat   BY DEF StreamInv, Stream, Whole
  <2>2. found < Len(sent) /\ found + 1 \in (found + 1)..Len(sent)   BY <1>2, <2>1
  <2>3. PICK at : /\ Laid(buffer \o tunnel, sent, found, at)
                  /\ Len(buffer) + 1 < at[found + 1] + Len(sent[found + 1])
    BY <2>2 DEF StreamInv, Stream
  <2>4. buffer \o tunnel = buffer   BY <1>2, <2>1, ConcatEmptySeq
  <2>5. InPlace(buffer, sent[found + 1], at[found + 1])   BY <2>2, <2>3, <2>4 DEF Laid
  <2>6. at[found + 1] + Len(sent[found + 1]) <= Len(buffer) + 1   BY <2>5 DEF InPlace
  <2>7. at[found + 1] \in Nat /\ Len(sent[found + 1]) \in Nat
    <3>1. PICK i \in (found + 1)..Len(sent) : i = found + 1   BY <2>2
    <3>2. Laid(buffer, sent, found, at)   BY <2>3, <2>4
    <3>3. at[i] \in Nat /\ Len(sent[i]) \in Nat   BY <2>1, <3>2, LaidFrames
    <3> QED  BY <3>1, <3>3
  <2> QED  BY <2>1, <2>3, <2>6, <2>7
<1> QED  BY <1>1, <1>2 DEF FramesAreWhole

\* The state of the wire keeps its types: no byte is ever out of range and no frame is
\* counted that was not sent, for any commands, noise and numbers of requests and frames.
THEOREM WireTypesCorrect == WireSpec => []WireTypeOK
BY StreamAlways, StreamIsTyped, PTL

\* However TLS records cut the stream, _feed_frames puts the frames together whole, once
\* and in order, whatever lies between them (ble_transport.py:521).
THEOREM WholeFramesInOrder == WireSpec => []FramesAreWhole
BY StreamAlways, StreamIsWhole, PTL

---------------------------------------------------------------------------
(* The vehicle's answers, as the client reads them.                       *)

\* The fields of an answer: the id of its request ...
IdField(r) == Field(1, 0, r.id, <<>>)
\* ... a status ...
StatusField == Field(2, 0, 3, <<>>)
\* ... and the tokens.
PairedField(r) == Field(9, 2, 0, TopicBody(r.id))
\* A status of 0 is left out, as protobuf does.
StatusFields(status) == IF status = 0 THEN <<>> ELSE One(StatusField)
\* Only a pairing has tokens.
TopicFields(r) == IF r.kind # "pair" THEN <<>> ELSE One(PairedField(r))
\* The fields of a response.
BodyFields(r, status) == (One(IdField(r)) \o StatusFields(status)) \o TopicFields(r)

\* They are fields.
LEMMA ResponseFieldsTyped ==
    ASSUME NEW r, r.id \in 0..511
    PROVE  IdField(r) \in FieldType /\ StatusField \in FieldType /\ PairedField(r) \in FieldType
<1>1. 0 \in Nat /\ 1 \in Nat /\ 2 \in Nat /\ 3 \in Nat /\ 9 \in Nat /\ r.id \in Nat /\ <<>> \in Seq(Byte)   OBVIOUS
<1>2. Sized(TopicBody(r.id), 0, 22)   BY TopicBodySized
<1>3. TopicBody(r.id) \in Seq(Byte)   BY <1>2 DEF Sized
<1>4. IdField(r) \in FieldType   BY <1>1, FieldTyped DEF IdField
<1>5. StatusField \in FieldType   BY <1>1, FieldTyped DEF StatusField
<1>6. PairedField(r) \in FieldType   BY <1>1, <1>3, FieldTyped DEF PairedField
<1> QED  BY <1>4, <1>5, <1>6

\* A response carries them.
LEMMA BodyCarries ==
    ASSUME NEW r, r.id \in 0..511, NEW status \in {0, 3}
    PROVE  Carries(ResponseBody(r, status), BodyFields(r, status))
<1>0. 1 \in 0..63 /\ 2 \in 0..63 /\ 9 \in 0..63 /\ 3 \in 0..511 /\ 22 \in 0..511   OBVIOUS
<1>1. PICK f, g, t : f = VarintField(1, r.id) /\ g = (IF status = 0 THEN <<>> ELSE VarintField(2, status)) /\ t = Topic(r)
  OBVIOUS
<1>2. Carries(f, One(IdField(r)))   BY Zenon, <1>0, <1>1, CarriesVarint DEF IdField
<1>3. Carries(g, StatusFields(status))
  <2>1. CASE status = 0   BY <1>1, <2>1, CarriesNone DEF StatusFields
  <2>2. CASE status = 3
    <3>1. Carries(VarintField(2, 3), One(StatusField))   BY ZenonT(40), <1>0, CarriesVarint DEF StatusField
    <3>2. g = VarintField(2, 3) /\ StatusFields(status) = One(StatusField)   BY <1>1, <2>2 DEF StatusFields
    <3> QED  BY <3>1, <3>2
  <2> QED  BY <2>1, <2>2
<1>4. Carries(t, TopicFields(r))
  <2>1. CASE r.kind # "pair"   BY <1>1, <2>1, CarriesNone DEF TopicFields, Topic
  <2>2. CASE r.kind = "pair"
    <3>1. Sized(TopicBody(r.id), 0, 22)   BY TopicBodySized
    <3>2. Carries(BytesField(9, TopicBody(r.id)), One(PairedField(r)))
      <4>1. PICK b : b = TopicBody(r.id)   OBVIOUS
      <4>2. Sized(b, 0, 22)   BY <3>1, <4>1
      <4>3. Carries(BytesField(9, b), One(Field(9, 2, 0, b)))   BY Zenon, <1>0, <4>2, CarriesSized
      <4> QED  BY <4>1, <4>3 DEF PairedField
    <3>3. Topic(r) = BytesField(9, TopicBody(r.id))   BY <2>2, TopicSized
    <3>4. TopicFields(r) = One(PairedField(r))   BY <2>2 DEF TopicFields
    <3> QED  BY <1>1, <3>2, <3>3, <3>4
  <2> QED  BY <2>1, <2>2
<1>5. Carries(f \o g, One(IdField(r)) \o StatusFields(status))   BY <1>2, <1>3, CarriesJoin
<1>6. Carries((f \o g) \o t, BodyFields(r, status))   BY <1>4, <1>5, CarriesJoin DEF BodyFields
<1> QED  BY <1>1, <1>6 DEF ResponseBody

\* What the fields of a response tell
Tells(fs, r, status) ==
    /\ LastNum(fs, 1) = r.id /\ LastNum(fs, 2) = (IF status = 0 THEN None ELSE status)
    /\ HasBytes(fs, 9) <=> r.kind = "pair"
    /\ r.kind = "pair" => LastBytes(fs, 9) = TopicBody(r.id)

\* They tell the id, the status and the tokens.
LEMMA BodyTells ==
    ASSUME NEW r, r.id \in 0..511, NEW status \in {0, 3}
    PROVE  Tells(BodyFields(r, status), r, status)
<1>1. PICK i, s, p : i = IdField(r) /\ s = StatusField /\ p = PairedField(r)   OBVIOUS
<1>2. i \in FieldType /\ s \in FieldType /\ p \in FieldType   BY <1>1, ResponseFieldsTyped
<1>3. i.field = 1 /\ i.type = 0 /\ i.num = r.id   BY <1>1 DEF IdField, Field
<1>4. s.field = 2 /\ s.type = 0 /\ s.num = 3   BY <1>1 DEF StatusField, Field
<1>5. p.field = 9 /\ p.type = 2 /\ p.bytes = TopicBody(r.id)   BY <1>1 DEF PairedField, Field
<1>6. PICK fs : fs = BodyFields(r, status)   OBVIOUS
<1>7. \A c \in Seq(FieldType) : c \o <<>> = c   OBVIOUS
<1>8. One(i) \in Seq(FieldType) /\ One(i) \o One(s) \in Seq(FieldType)   BY <1>2, OneIs, TwoIs DEF IsOne, IsTwo
<1>9. fs = (One(i) \o StatusFields(status)) \o TopicFields(r)   BY <1>1, <1>6 DEF BodyFields
<1>10. CASE status = 0 /\ r.kind # "pair"
  <2>1. fs = One(i)   BY <1>7, <1>8, <1>9, <1>10 DEF StatusFields, TopicFields
  <2>2. IsOne(fs, i)   BY <1>2, <2>1, OneIs
  <2>3. Where(fs, 1, 0) = {1} /\ Where(fs, 2, 0) = {} /\ Where(fs, 9, 2) = {}   BY <1>3, <2>2, WhereInOne
  <2>4. fs[1] = i   BY <2>2 DEF IsOne
  <2>5. 1 \in Nat /\ 2 \in Nat /\ 3 \in Nat   OBVIOUS
  <2>6. LastNum(fs, 1) = r.id   BY <1>3, <2>3, <2>4, <2>5, NumIs
  <2>7. LastNum(fs, 2) = None   BY <2>3, NoNum
  <2>8. ~HasBytes(fs, 9)   BY <2>3, NoBytes
  <2> QED  BY <1>6, <1>10, <2>6, <2>7, <2>8 DEF Tells
<1>11. CASE status = 3 /\ r.kind # "pair"
  <2>1. fs = One(i) \o One(s)   BY <1>1, <1>7, <1>8, <1>9, <1>11 DEF StatusFields, TopicFields
  <2>2. IsTwo(fs, i, s)   BY <1>2, <2>1, TwoIs
  <2>3. Where(fs, 1, 0) = {1} /\ Where(fs, 2, 0) = {2} /\ Where(fs, 9, 2) = {}   BY <1>3, <1>4, <2>2, WhereInTwo
  <2>4. fs[1] = i /\ fs[2] = s   BY <2>2 DEF IsTwo
  <2>5. 1 \in Nat /\ 2 \in Nat /\ 3 \in Nat   OBVIOUS
  <2>6. LastNum(fs, 1) = r.id   BY <1>3, <2>3, <2>4, <2>5, NumIs
  <2>9. LastNum(fs, 2) = s.num   BY ONLY <2>3, <2>4, <2>5, NumIs
  <2>7. LastNum(fs, 2) = 3   BY <1>4, <2>9
  <2>8. ~HasBytes(fs, 9)   BY <2>3, NoBytes
  <2> QED  BY <1>6, <1>11, <2>6, <2>7, <2>8 DEF Tells
<1>12. CASE status = 0 /\ r.kind = "pair"
  <2>1. fs = One(i) \o One(p)   BY <1>1, <1>7, <1>8, <1>9, <1>12 DEF StatusFields, TopicFields
  <2>2. IsTwo(fs, i, p)   BY <1>2, <2>1, TwoIs
  <2>3. Where(fs, 1, 0) = {1} /\ Where(fs, 2, 0) = {} /\ Where(fs, 9, 2) = {2}   BY <1>3, <1>5, <2>2, WhereInTwo
  <2>4. fs[1] = i /\ fs[2] = p   BY <2>2 DEF IsTwo
  <2>5. 1 \in Nat /\ 2 \in Nat /\ 3 \in Nat   OBVIOUS
  <2>6. LastNum(fs, 1) = r.id   BY <1>3, <2>3, <2>4, <2>5, NumIs
  <2>7. LastNum(fs, 2) = None   BY <2>3, NoNum
  <2>10. HasBytes(fs, 9) /\ LastBytes(fs, 9) = p.bytes   BY ONLY <2>3, <2>4, <2>5, BytesAre
  <2>8. HasBytes(fs, 9) /\ LastBytes(fs, 9) = TopicBody(r.id)   BY <1>5, <2>10
  <2> QED  BY <1>6, <1>12, <2>6, <2>7, <2>8 DEF Tells
<1>13. CASE status = 3 /\ r.kind = "pair"
  <2>1. fs = (One(i) \o One(s)) \o One(p)   BY <1>1, <1>9, <1>13 DEF StatusFields, TopicFields
  <2>2. IsThree(fs, i, s, p)   BY <1>2, <2>1, ThreeIs
  <2>3. Where(fs, 1, 0) = {1} /\ Where(fs, 2, 0) = {2} /\ Where(fs, 9, 2) = {3}
    BY <1>3, <1>4, <1>5, <2>2, WhereInThree
  <2>4. fs[1] = i /\ fs[2] = s /\ fs[3] = p   BY <2>2 DEF IsThree
  <2>5. 1 \in Nat /\ 2 \in Nat /\ 3 \in Nat   OBVIOUS
  <2>6. LastNum(fs, 1) = r.id   BY <1>3, <2>3, <2>4, <2>5, NumIs
  <2>9. LastNum(fs, 2) = s.num   BY ONLY <2>3, <2>4, <2>5, NumIs
  <2>7. LastNum(fs, 2) = 3   BY <1>4, <2>9
  <2>10. HasBytes(fs, 9) /\ LastBytes(fs, 9) = p.bytes   BY ONLY SMTT(40), <2>3, <2>4, <2>5, BytesAre
  <2>8. HasBytes(fs, 9) /\ LastBytes(fs, 9) = TopicBody(r.id)   BY <1>5, <2>10
  <2> QED  BY <1>6, <1>13, <2>6, <2>7, <2>8 DEF Tells
<1> QED  BY <1>10, <1>11, <1>12, <1>13

\* How a response is understood
Understood(frame, r, status) ==
    LET response == BleResponse(frame)
    IN  /\ response.ok = TRUE /\ response.id = r.id /\ response.status = (IF status = 0 THEN None ELSE status)
        /\ response.paired <=> r.kind = "pair"
        /\ r.kind = "pair" => response.topic = TopicBody(r.id)

\* decode_ble_response_frame reads the id, the status and the tokens of the vehicle's
\* answer from its frame.
LEMMA ResponseUnderstood ==
    ASSUME NEW r, r.id \in 0..511, NEW status \in {0, 3}
    PROVE  Understood(EncodeFrame(Response(r, status)), r, status)
<1>0. 2 \in 0..63 /\ 40 \in 0..511 /\ TRUE \in BOOLEAN   OBVIOUS
<1>1. PICK body, payload, frame : /\ body = ResponseBody(r, status) /\ payload = Response(r, status)
                                  /\ frame = EncodeFrame(payload)
  OBVIOUS
<1>2. payload = BytesField(2, body) /\ Sized(payload, 0, 255)   BY <1>1, ResponseSized
<1>3. DecodeFrame(frame) = [payload |-> payload, ok |-> TRUE]   BY <1>1, <1>2, FrameOf
<1>4. Sized(body, 0, 40)   BY <1>1, ResponseBodySized
<1>5. PICK x : x = Field(2, 2, 0, body)   OBVIOUS
<1>6. Carries(payload, One(x))   BY ZenonT(40), <1>0, <1>2, <1>4, <1>5, CarriesSized
<1>7. PICK outer : outer = Parse(payload, TRUE)   OBVIOUS
<1>8. outer.fields = One(x) /\ outer.ok = TRUE   BY <1>0, <1>6, <1>7, CarriesParsed
<1>9. x \in FieldType
  <2>1. body \in Seq(Byte)   BY <1>4 DEF Sized
  <2>2. 2 \in Nat /\ 0 \in Nat   OBVIOUS
  <2> QED  BY <1>5, <2>1, <2>2, FieldTyped
<1>10. IsOne(outer.fields, x)   BY <1>8, <1>9, OneIs
<1>11. x.field = 2 /\ x.type = 2 /\ x.bytes = body   BY <1>5 DEF Field
<1>12. Where(outer.fields, 2, 2) = {1}   BY <1>10, <1>11, WhereInOne
<1>13. outer.fields[1] = x   BY <1>10 DEF IsOne
<1>14. LastBytes(outer.fields, 2) = body
  <2>1. 1 \in Nat   OBVIOUS
  <2> QED  BY <1>11, <1>12, <1>13, <2>1, BytesAre
<1>15. PICK inner : inner = Parse(body, TRUE)   OBVIOUS
<1>16. Carries(body, BodyFields(r, status))   BY <1>1, BodyCarries
<1>17. inner.fields = BodyFields(r, status) /\ inner.ok = TRUE   BY <1>0, <1>15, <1>16, CarriesParsed
<1>18. Tells(inner.fields, r, status)   BY <1>17, BodyTells
<1>19. BleResponse(frame) =
          [ok |-> TRUE, id |-> LastNum(inner.fields, 1), status |-> LastNum(inner.fields, 2),
           paired |-> HasBytes(inner.fields, 9), topic |-> LastBytes(inner.fields, 9)]
  <2>1. DecodeFrame(frame).ok = TRUE /\ DecodeFrame(frame).payload = payload   BY <1>3
  <2>2. HasBytes(outer.fields, 2)   BY <1>12 DEF HasBytes
  <2> QED  BY <1>7, <1>8, <1>14, <1>15, <1>17, <2>1, <2>2 DEF BleResponse, BleResponseIn
<1>20. PICK z : z = BleResponse(frame)   OBVIOUS
<1>21. z.ok = TRUE /\ z.id = LastNum(inner.fields, 1) /\ z.status = LastNum(inner.fields, 2)
       /\ z.topic = LastBytes(inner.fields, 9)
  BY <1>19, <1>20
<1>22. z.paired = HasBytes(inner.fields, 9)   BY <1>19, <1>20
<1> QED  BY <1>1, <1>18, <1>20, <1>21, <1>22 DEF Tells, Understood

\* A push of the vehicle.
PushFrame == EncodeFrame(BytesField(3, <<4>>))

\* A push is never taken for a response.
LEMMA PushIsNoResponse == ~BleResponse(PushFrame).ok
<1>0. 3 \in 0..63 /\ 1 \in 0..511 /\ TRUE \in BOOLEAN /\ 3 \in Nat /\ 2 \in Nat /\ 0 \in Nat   OBVIOUS
<1>1. PICK b, payload : b = <<4>> /\ payload = BytesField(3, b)   OBVIOUS
<1>2. Sized(b, 1, 1) /\ Sized(payload, 0, 255)   BY <1>1, PushSized
<1>3. PICK frame : frame = EncodeFrame(payload)   OBVIOUS
<1>4. DecodeFrame(frame) = [payload |-> payload, ok |-> TRUE]   BY <1>2, <1>3, FrameOf
<1>5. Sized(b, 0, 1)   BY <1>2, SizedWider
<1>6. PICK x : x = Field(3, 2, 0, b)   OBVIOUS
<1>7. Carries(payload, One(x))   BY Zenon, <1>0, <1>1, <1>5, <1>6, CarriesSized
<1>8. PICK outer : outer = Parse(payload, TRUE)   BY Zenon
<1>9. outer.fields = One(x)   BY <1>0, <1>7, <1>8, CarriesParsed
<1>10. x \in FieldType
  <2>1. b \in Seq(Byte)   BY <1>2 DEF Sized
  <2> QED  BY <1>0, <1>6, <2>1, FieldTyped
<1>11. IsOne(outer.fields, x)   BY <1>9, <1>10, OneIs
<1>12. x.field = 3   BY <1>6 DEF Field
<1>13. Where(outer.fields, 2, 2) = {}   BY <1>11, <1>12, WhereInOne
<1>14. ~HasBytes(outer.fields, 2)   BY <1>13, NoBytes
<1>15. BleResponse(frame) = NoResponse   BY <1>4, <1>8, <1>14 DEF BleResponse, BleResponseIn
<1>16. frame = PushFrame   BY <1>1, <1>3 DEF PushFrame
<1> QED  BY <1>15, <1>16 DEF NoResponse

\* The tokens of a pairing are those that were issued for it
LEMMA TokensAreIssued ==
    ASSUME NEW id \in 0..511
    PROVE  Tokens(TopicBody(id)) = Issued(id)
<1>0. /\ 1 \in 0..63 /\ 2 \in 0..63 /\ 3 \in 0..63 /\ 2 \in 0..511 /\ 1 \in 0..511 /\ TRUE \in BOOLEAN
      /\ 0 \in Nat /\ 1 \in Nat /\ 2 \in Nat /\ 3 \in Nat /\ <<>> \in Seq(Byte)
  OBVIOUS
<1>1. PICK s, t : s = Issued(id).access /\ t = Issued(id).refresh   OBVIOUS
<1>2. Sized(s, 2, 2) /\ Sized(t, 2, 2)   BY Zenon, <1>1, IssuedSized
<1>3. Sized(s, 0, 2) /\ Sized(t, 0, 2)   BY <1>2, SizedWider
<1>4. s \in Seq(Byte) /\ t \in Seq(Byte)   BY <1>3 DEF Sized
<1>5. PICK x, y, z : x = Field(1, 2, 0, s) /\ y = Field(2, 2, 0, t) /\ z = Field(3, 0, 1, <<>>)   OBVIOUS
<1>6. x \in FieldType /\ y \in FieldType /\ z \in FieldType   BY Zenon, <1>0, <1>4, <1>5, FieldTyped
<1>7. Carries(BytesField(1, s), One(x))   BY ZenonT(40), <1>0, <1>3, <1>5, CarriesSized
<1>8. Carries(BytesField(2, t), One(y))   BY ZenonT(40), <1>0, <1>3, <1>5, CarriesSized
<1>9. Carries(VarintField(3, 1), One(z))   BY Zenon, <1>0, <1>5, CarriesVarint
<1>10. Carries(BytesField(1, s) \o BytesField(2, t), One(x) \o One(y))   BY <1>7, <1>8, CarriesJoin
<1>11. Carries(TopicBody(id), (One(x) \o One(y)) \o One(z))   BY <1>1, <1>9, <1>10, CarriesJoin DEF TopicBody
<1>12. PICK fs : fs = Parse(TopicBody(id), TRUE).fields   OBVIOUS
<1>13. fs = (One(x) \o One(y)) \o One(z)   BY <1>0, <1>11, <1>12, CarriesParsed
<1>14. IsThree(fs, x, y, z)   BY <1>6, <1>13, ThreeIs
<1>15. /\ x.field = 1 /\ x.type = 2 /\ x.bytes = s /\ y.field = 2 /\ y.type = 2 /\ y.bytes = t
       /\ z.field = 3 /\ z.type = 0
  BY <1>5 DEF Field
<1>16. Where(fs, 1, 2) = {1}   BY <1>14, <1>15, WhereInThree
<1>17. Where(fs, 2, 2) = {2}   BY <1>14, <1>15, WhereInThree
<1>18. fs[1] = x /\ fs[2] = y   BY <1>14 DEF IsThree
<1>19. LastBytes(fs, 1) = x.bytes   BY ONLY <1>0, <1>16, <1>18, BytesAre
<1>20. LastBytes(fs, 2) = y.bytes   BY ONLY <1>0, <1>17, <1>18, BytesAre
<1>21. Tokens(TopicBody(id)) = [access |-> s, refresh |-> t]   BY <1>12, <1>15, <1>19, <1>20 DEF Tokens
<1>22. Issued(id) = [access |-> s, refresh |-> t]   BY <1>1 DEF Issued
<1> QED  BY <1>21, <1>22

---------------------------------------------------------------------------
(* Which frames are answers, and to what.                                 *)

\* The frame of an answer.
AnswerFrame(r, status) == EncodeFrame(Response(r, status))
\* The answer to a request.
Reply(r, status) == [id |-> r.id, status |-> status]

\* Every answer is to a request over Bluetooth.
RepliesOf(as, rs) == \A a \in rs : \E k \in 1..Len(as), status \in {0, 3} : as[k].via = "ble" /\ a = Reply(as[k], status)
\* Every frame is a push or an answer that the vehicle gave.
FramesOf(as, rs, fs) ==
    \A i \in 1..Len(fs) :
        \/ fs[i] = PushFrame
        \/ \E k \in 1..Len(as), status \in {0, 3} : fs[i] = AnswerFrame(as[k], status) /\ Reply(as[k], status) \in rs
\* The answer to the last request lies ahead
Ahead(as, rs, fs, n) ==
    /\ Len(as) \in 1..Len(as)
    /\ \A a \in rs : a.id = as[Len(as)].id => \E i \in (n + 1)..Len(fs) : fs[i] = AnswerFrame(as[Len(as)], a.status)
\* The result res is what the answer a says.
Told(res, a) ==
    /\ a.id = res.id /\ a.status \in {0, 3} /\ res.status = (IF a.status = 0 THEN None ELSE a.status)
    /\ res.tokens = NoResult.tokens \/ res.tokens = Issued(res.id)

\* The inductive invariant of the matching: while a request waits, its answer is not
\* lost; and a result is what an answer to it says.
AnswerInv ==
    /\ RepliesOf(asked, replies) /\ FramesOf(asked, replies, sent)
    /\ open => Ahead(asked, replies, sent, found - Len(frames))
    /\ result.id # None => \E a \in replies : Told(result, a)

\* bs begins with as.
Grown(as, bs) == \A k \in 1..Len(as) : k \in 1..Len(bs) /\ bs[k] = as[k]

\* More requests take no answer away.
LEMMA GrownReplies ==
    ASSUME NEW as, NEW bs, NEW rs, Grown(as, bs), RepliesOf(as, rs)
    PROVE  RepliesOf(bs, rs)
BY DEF Grown, RepliesOf

\* Nor a frame.
LEMMA GrownFrames ==
    ASSUME NEW as, NEW bs, NEW rs, NEW fs, Grown(as, bs), FramesOf(as, rs, fs)
    PROVE  FramesOf(bs, rs, fs)
<1> SUFFICES ASSUME NEW i \in 1..Len(fs), fs[i] # PushFrame
             PROVE  \E k \in 1..Len(bs), status \in {0, 3} : fs[i] = AnswerFrame(bs[k], status) /\ Reply(bs[k], status) \in rs
  BY DEF FramesOf
<1>1. PICK k \in 1..Len(as), status \in {0, 3} : fs[i] = AnswerFrame(as[k], status) /\ Reply(as[k], status) \in rs
  BY DEF FramesOf
<1>2. k \in 1..Len(bs) /\ bs[k] = as[k]   BY DEF Grown
<1> QED  BY <1>1, <1>2

\* More answers take no frame away.
LEMMA MoreReplies ==
    ASSUME NEW as, NEW rs, NEW ts, NEW fs, rs \subseteq ts, FramesOf(as, rs, fs)
    PROVE  FramesOf(as, ts, fs)
BY DEF FramesOf

\* Two requests have two ids
LEMMA IdsDiffer ==
    ASSUME AskedInv, NEW j \in 1..Len(asked), NEW k \in 1..Len(asked), asked[j].id = asked[k].id
    PROVE  j = k
<1>1. j \in Nat /\ k \in Nat   OBVIOUS
<1>2. asked[j].id = RequestId(j) /\ asked[k].id = RequestId(k)   BY DEF AskedInv
<1>3. 10 * j = 10 * k   BY <1>2 DEF RequestId
<1> QED  BY ONLY <1>1, <1>3

\* The invariant holds initially.
LEMMA AnswersStart == WireInit => AnswerInv
<1> SUFFICES ASSUME WireInit PROVE AnswerInv   OBVIOUS
<1>1. asked = <<>> /\ open = FALSE /\ sent = <<>> /\ replies = {} /\ result = NoResult   BY DEF WireInit
<1>2. RepliesOf(asked, replies)   BY <1>1 DEF RepliesOf
<1>3. Len(sent) = 0   BY <1>1
<1>4. FramesOf(asked, replies, sent)   BY <1>3 DEF FramesOf
<1>5. result.id = None   BY <1>1 DEF NoResult
<1> QED  BY <1>1, <1>2, <1>4, <1>5 DEF AnswerInv

\* A request is asked: none of the answers is to it.
LEMMA AskKeepsAnswers ==
    ASSUME AskedInv, AnswerInv, NEW q \in Asks, Ask(q[1], q[2], q[3])
    PROVE  AnswerInv'
<1>1. PICK n \in Nat : n = Len(asked)   BY DEF AskedInv
<1>2. MaxRequests \in Nat   BY WireAssumption DEF WireConstants
<1>3. n + 1 \in 1..MaxRequests   BY <1>1, <1>2 DEF Ask
<1>4. PICK r : r = [kind |-> q[1], id |-> RequestId(n + 1), values |-> q[2], via |-> q[3]]   OBVIOUS
<1>5. r \in AskedRequests   BY <1>3, <1>4 DEF AskedRequests
<1>6. asked' = Append(asked, r)   BY <1>1, <1>4 DEF Ask
<1>7. asked \in Seq(AskedRequests)   BY DEF AskedInv
<1>8. /\ Len(asked') = n + 1 /\ asked'[n + 1] = r
      /\ \A i \in 1..n : asked'[i] = asked[i]
  BY <1>1, <1>5, <1>6, <1>7, AppendProperties
<1>9. Grown(asked, asked')
  <2>1. \A k \in 1..n : k \in 1..(n + 1)   OBVIOUS
  <2> QED  BY <1>1, <1>8, <2>1 DEF Grown
<1>10. sent' = sent /\ replies' = replies /\ result' = NoResult   BY DEF Ask, stream
<1>11. RepliesOf(asked', replies') /\ FramesOf(asked', replies', sent')
  BY <1>9, <1>10, GrownReplies, GrownFrames DEF AnswerInv
<1>12. \A a \in replies : a.id # r.id
  <2> SUFFICES ASSUME NEW a \in replies, a.id = r.id PROVE FALSE   OBVIOUS
  <2>1. PICK k \in 1..Len(asked), status \in {0, 3} : a = Reply(asked[k], status)   BY DEF AnswerInv, RepliesOf
  <2>2. k \in 1..n /\ k \in Nat   BY <1>1
  <2>3. RequestId(k) = RequestId(n + 1)   BY <1>4, <2>1 DEF AskedInv, Reply
  <2>4. 10 * k = 10 * (n + 1)   BY <2>3 DEF RequestId
  <2> QED  BY <2>2, <2>4
<1>13. ASSUME NEW m PROVE Ahead(asked', replies', sent', m)
  <2>1. n + 1 \in 1..(n + 1)   OBVIOUS
  <2>2. Len(asked') \in 1..Len(asked') /\ asked'[Len(asked')] = r   BY <1>8, <2>1
  <2> QED  BY <1>10, <1>12, <2>2 DEF Ahead
<1>14. result'.id = None   BY <1>10 DEF NoResult
<1> QED  BY <1>11, <1>13, <1>14 DEF AnswerInv

\* The vehicle sends a frame: those before it stay.
LEMMA TransmitKeepsFrames ==
    ASSUME AnswerInv, StreamInv, NEW noise, NEW payload, Transmit(noise, payload), replies \subseteq replies',
           FramesOf(asked, replies', <<EncodeFrame(payload)>>)
    PROVE  /\ FramesOf(asked', replies', sent')
           /\ Len(sent') = Len(sent) + 1 /\ sent'[Len(sent) + 1] = EncodeFrame(payload)
           /\ \A i \in 1..Len(sent) : sent'[i] = sent[i]
<1>1. PICK f : f = EncodeFrame(payload)   OBVIOUS
<1>2. sent' = Append(sent, f) /\ asked' = asked   BY <1>1 DEF Transmit
<1>3. sent \in Seq(Seq(Byte))   BY DEF StreamInv, Whole
<1>4. PICK n \in Nat : n = Len(sent)   BY <1>3
<1>5. Len(sent') = n + 1 /\ sent'[n + 1] = f /\ \A i \in 1..n : sent'[i] = sent[i]
  <2>1. PICK T : T = Seq(Byte)   OBVIOUS
  <2>2. sent \in Seq(T)   BY <1>3, <2>1
  <2> QED  BY <1>2, <1>4, <2>2
<1>6. FramesOf(asked, replies', sent)   BY MoreReplies DEF AnswerInv
<1>7. <<f>>[1] = f /\ 1 \in 1..Len(<<f>>)   OBVIOUS
<1>8. FramesOf(asked, replies', sent')
  <2>1. ASSUME NEW i \in 1..(n + 1), i # n + 1 PROVE i \in 1..n /\ sent'[i] = sent[i]
    <3>1. i \in 1..n   BY <2>1
    <3> QED  BY <1>5, <3>1
  <2>2. \A i \in 1..(n + 1) : i = n + 1 \/ (i \in 1..Len(sent) /\ sent'[i] = sent[i])   BY <1>4, <2>1
  <2> QED  BY <1>1, <1>5, <1>6, <1>7, <2>2 DEF FramesOf
<1> QED  BY <1>1, <1>2, <1>4, <1>5, <1>8

\* The vehicle pushes.
LEMMA PushKeepsAnswers ==
    ASSUME AnswerInv, StreamInv, NEW noise, Push(noise)
    PROVE  AnswerInv'
<1>1. Transmit(noise, BytesField(3, <<4>>)) /\ replies' = replies   BY DEF Push
<1>2. FramesOf(asked, replies', <<PushFrame>>)
  <2>1. \A i \in 1..Len(<<PushFrame>>) : <<PushFrame>>[i] = PushFrame   OBVIOUS
  <2> QED  BY <2>1 DEF FramesOf
<1>3. /\ FramesOf(asked', replies', sent') /\ Len(sent') = Len(sent) + 1
      /\ \A i \in 1..Len(sent) : sent'[i] = sent[i]
  BY <1>1, <1>2, TransmitKeepsFrames DEF PushFrame
<1>4. asked' = asked /\ open' = open /\ frames' = frames /\ found' = found /\ result' = result   BY <1>1 DEF Transmit
<1>5. \A i \in 1..Len(sent) : i \in 1..Len(sent')
  <2>1. Len(sent) \in Nat   BY DEF StreamInv, Whole
  <2> QED  BY <1>3, <2>1
<1>6. ASSUME open PROVE Ahead(asked, replies, sent', found - Len(frames))
  <2>1. Ahead(asked, replies, sent, found - Len(frames))   BY <1>6 DEF AnswerInv
  <2>2. PICK m \in Nat, l \in Nat : m = found - Len(frames) /\ l = Len(sent)
    <3>1. PartOf(frames, sent, found) /\ found \in 0..Len(sent) /\ Len(sent) \in Nat   BY DEF StreamInv, Whole
    <3>2. PICK x \in Nat : x = Len(frames) /\ x <= found   BY <3>1 DEF PartOf
    <3>3. found - x \in Nat   BY <3>1, <3>2
    <3> QED  BY <3>1, <3>2, <3>3
  <2>3. \A i \in (m + 1)..l : i \in 1..l /\ i \in (m + 1)..(l + 1)   OBVIOUS
  <2>4. \A i \in (m + 1)..Len(sent) : i \in (m + 1)..Len(sent') /\ sent'[i] = sent[i]   BY <1>3, <2>2, <2>3
  <2> QED  BY <2>1, <2>2, <2>4 DEF Ahead
<1> QED  BY <1>1, <1>3, <1>4, <1>6 DEF AnswerInv

\* How many frames were looked at, and how many sent
Looked(m, x, l) == m = found - x /\ x = Len(frames) /\ l = Len(sent) /\ m + x <= l

\* The frames already looked at.
LEMMA LookedIs == StreamInv => \E m \in Nat, x \in Nat, l \in Nat : Looked(m, x, l)
<1> SUFFICES ASSUME StreamInv PROVE \E m \in Nat, x \in Nat, l \in Nat : Looked(m, x, l)   OBVIOUS
<1>1. PartOf(frames, sent, found) /\ found \in 0..Len(sent) /\ Len(sent) \in Nat   BY DEF StreamInv, Whole
<1>2. PICK x \in Nat : x = Len(frames) /\ x <= found   BY <1>1 DEF PartOf
<1>3. found - x \in Nat /\ (found - x) + x <= Len(sent)   BY <1>1, <1>2
<1> QED  BY <1>1, <1>2, <1>3 DEF Looked

\* The vehicle answers, in time or late.
LEMMA AnswerKeepsAnswers ==
    ASSUME AskedInv, AnswerInv, StreamInv, NEW noise, NEW k \in 1..Len(asked), NEW status \in {0, 3},
           Answer(asked[k], status, noise)
    PROVE  AnswerInv'
<1>1. PICK r, a : r = asked[k] /\ a = Reply(r, status)   OBVIOUS
<1>2. Transmit(noise, Response(r, status)) /\ replies' = replies \cup {a} /\ r.via = "ble"   BY <1>1 DEF Answer, Reply
<1>3. asked' = asked /\ open' = open /\ frames' = frames /\ found' = found /\ result' = result   BY <1>2 DEF Transmit
<1>4. FramesOf(asked, replies', <<EncodeFrame(Response(r, status))>>)
  <2>1. PICK f : f = EncodeFrame(Response(r, status))   OBVIOUS
  <2>2. \A i \in 1..Len(<<f>>) : <<f>>[i] = f   OBVIOUS
  <2>3. f = AnswerFrame(asked[k], status) /\ Reply(asked[k], status) \in replies'   BY <1>1, <1>2, <2>1 DEF AnswerFrame
  <2> QED  BY <2>1, <2>2, <2>3 DEF FramesOf
<1>5. /\ FramesOf(asked', replies', sent') /\ Len(sent') = Len(sent) + 1
      /\ sent'[Len(sent) + 1] = AnswerFrame(r, status)
      /\ \A i \in 1..Len(sent) : sent'[i] = sent[i]
  BY <1>2, <1>4, TransmitKeepsFrames DEF AnswerFrame
<1>6. RepliesOf(asked, replies')   BY <1>1, <1>2 DEF AnswerInv, RepliesOf
<1>7. ASSUME open PROVE Ahead(asked, replies', sent', found - Len(frames))
  <2>1. Ahead(asked, replies, sent, found - Len(frames))   BY <1>7 DEF AnswerInv
  <2>2. PICK m \in Nat, x \in Nat, l \in Nat : Looked(m, x, l)   BY LookedIs
  <2>3. m = found - Len(frames) /\ l = Len(sent) /\ m <= l
    <3>1. m = found - Len(frames) /\ l = Len(sent) /\ m + x <= l   BY <2>2 DEF Looked
    <3>2. m <= l   BY ONLY <3>1, m \in Nat, x \in Nat, l \in Nat
    <3> QED  BY <3>1, <3>2
  <2>4. \A i \in (m + 1)..l : i \in 1..l /\ i \in (m + 1)..(l + 1)   OBVIOUS
  <2>5. \A i \in (m + 1)..Len(sent) : i \in (m + 1)..Len(sent') /\ sent'[i] = sent[i]   BY <1>5, <2>3, <2>4
  <2>6. ASSUME NEW b \in replies, b.id = asked[Len(asked)].id
        PROVE  \E i \in (m + 1)..Len(sent') : sent'[i] = AnswerFrame(asked[Len(asked)], b.status)
    BY <2>1, <2>3, <2>5, <2>6 DEF Ahead
  <2>7. ASSUME a.id = asked[Len(asked)].id
        PROVE  \E i \in (m + 1)..Len(sent') : sent'[i] = AnswerFrame(asked[Len(asked)], a.status)
    <3>1. Len(asked) \in 1..Len(asked) /\ asked[k].id = asked[Len(asked)].id   BY <1>1, <2>1, <2>7 DEF Ahead, Reply
    <3>2. k = Len(asked)   BY <3>1, IdsDiffer
    <3>3. r = asked[Len(asked)] /\ a.status = status   BY <1>1, <3>2 DEF Reply
    <3>4. l + 1 \in (m + 1)..(l + 1)   BY <2>3
    <3>5. l + 1 \in (m + 1)..Len(sent') /\ sent'[l + 1] = AnswerFrame(r, status)   BY <1>5, <2>3, <3>4
    <3> QED  BY <3>3, <3>5
  <2>8. Len(asked) \in 1..Len(asked)   BY <2>1 DEF Ahead
  <2> QED  BY <1>2, <2>3, <2>6, <2>7, <2>8 DEF Ahead
<1>8. result'.id # None => \E b \in replies' : Told(result', b)   BY <1>2, <1>3 DEF AnswerInv
<1> QED  BY <1>3, <1>5, <1>6, <1>7, <1>8 DEF AnswerInv

\* The result of a request is what the answer says.
LEMMA ResultTold ==
    ASSUME NEW frame, NEW status \in {0, 3}, Current.id \in 1..511, Understood(frame, Current, status),
           NEW res, res = ResultOf(BleResponse(frame)), res.id # None
    PROVE  Told(res, Reply(Current, status))
<1>1. PICK z, r : z = BleResponse(frame) /\ r = Current   OBVIOUS
<1>2. /\ z.status = (IF status = 0 THEN None ELSE status) /\ (z.paired <=> r.kind = "pair")
      /\ r.kind = "pair" => z.topic = TopicBody(r.id)
  BY <1>1 DEF Understood
<1>3. CASE r.kind # "pair"
  <2>1. res = [NoResult EXCEPT !.id = r.id, !.status = z.status]   BY <1>1, <1>3 DEF ResultOf
  <2>2. res.id = r.id /\ res.status = z.status /\ res.tokens = NoResult.tokens   BY <2>1 DEF NoResult
  <2> QED  BY <1>1, <1>2, <2>2 DEF Told, Reply
<1>4. CASE r.kind = "pair"
  <2>1. CASE ~z.paired \/ ~Succeeded(z.status)
    <3>1. res = NoResult   BY <1>1, <1>4, <2>1 DEF ResultOf
    <3> QED  BY <3>1 DEF NoResult
  <2>2. CASE ~(~z.paired \/ ~Succeeded(z.status))
    <3>1. res = [id |-> r.id, status |-> z.status, tokens |-> Tokens(z.topic)]   BY <1>1, <1>4, <2>2 DEF ResultOf
    <3>2. r.id \in 0..511   BY <1>1
    <3>3. Tokens(z.topic) = Issued(r.id)   BY <1>2, <1>4, <3>2, TokensAreIssued
    <3>4. res.id = r.id /\ res.status = z.status /\ res.tokens = Issued(res.id)   BY <3>1, <3>3
    <3> QED  BY <1>1, <1>2, <3>4 DEF Told, Reply
  <2> QED  BY <2>1, <2>2
<1> QED  BY <1>3, <1>4

\* The ids of the requests that were asked.
LEMMA RequestIdType ==
    ASSUME AskedInv, NEW k \in 1..Len(asked)
    PROVE  asked[k].id \in 1..511 /\ asked[k].id \in 0..511
<1>1. PICK r \in AskedRequests : r = asked[k]   BY DEF AskedInv
<1>2. r.id \in 1..511   BY AsksKinds
<1>3. r.id \in 0..511   BY <1>2
<1> QED  BY <1>1, <1>2, <1>3

\* A frame is looked at: only the request's own answer ends it.
LEMMA TakeKeepsAnswers ==
    ASSUME AskedInv, AnswerInv, StreamInv, Take
    PROVE  AnswerInv'
<1>1. open /\ frames # <<>> /\ frames' = Tail(frames) /\ UNCHANGED <<asked, sent, found, replies>>   BY DEF Take
<1>2. PICK m \in Nat, x \in Nat, l \in Nat : Looked(m, x, l)   BY LookedIs
<1>3. m = found - x /\ x = Len(frames) /\ l = Len(sent) /\ m + x <= l   BY <1>2 DEF Looked
<1>4. PICK T : T = Seq(Byte)   OBVIOUS
<1>5. frames \in Seq(T) /\ PartOf(frames, sent, found) /\ found \in Nat
  <2>1. Len(sent) \in Nat /\ found \in 0..Len(sent)   BY DEF StreamInv, Whole
  <2> QED  BY <1>4, <2>1 DEF StreamInv, PartOf
<1>6. PICK h : h = Head(frames)   OBVIOUS
<1>7. x >= 1 /\ h = frames[1] /\ Len(frames') = x - 1   BY <1>1, <1>3, <1>5, <1>6
<1>8. h = sent[m + 1] /\ m + 1 \in 1..l
  <2>1. 1 \in 1..x   BY <1>7
  <2>2. frames[1] = sent[found - x + 1]   BY <1>3, <1>5, <2>1 DEF PartOf
  <2>3. found - x + 1 = m + 1 /\ m + 1 \in 1..l   BY ONLY <1>3, <1>7, m \in Nat, x \in Nat, l \in Nat
  <2> QED  BY <1>7, <2>2, <2>3
<1>9. found' - Len(frames') = m + 1   BY <1>1, <1>3, <1>5, <1>7
<1>10. PICK n : n = Len(asked)   OBVIOUS
<1>11. Ahead(asked, replies, sent, m)   BY <1>1, <1>3 DEF AnswerInv
<1>12. n \in 1..n /\ Current = asked[n]   BY <1>10, <1>11 DEF Ahead, Current, Last
<1>13. PICK r : r = Current   BY SMTT(40)
<1>14. r.id \in 1..511 /\ r.id \in 0..511   BY <1>10, <1>12, <1>13, RequestIdType
<1>15. PICK z : z = BleResponse(h)   OBVIOUS
<1>16. /\ open' = ~Matches(z) /\ result' = IF Matches(z) THEN ResultOf(z) ELSE result   BY <1>6, <1>15 DEF Take
<1>17. CASE ~Matches(z)
  <2>1. result' = result   BY <1>16, <1>17
  <2>2. ASSUME NEW a \in replies, a.id = r.id
        PROVE  \E i \in ((m + 1) + 1)..Len(sent) : sent[i] = AnswerFrame(r, a.status)
    <3>1. PICK i \in (m + 1)..l : sent[i] = AnswerFrame(r, a.status)
      BY <1>3, <1>10, <1>11, <1>12, <1>13, <2>2 DEF Ahead
    <3>2. a.status \in {0, 3}
      <4>1. PICK k \in 1..Len(asked), status \in {0, 3} : a = Reply(asked[k], status)   BY DEF AnswerInv, RepliesOf
      <4> QED  BY <4>1 DEF Reply
    <3>3. i # m + 1
      <4> SUFFICES ASSUME i = m + 1 PROVE FALSE   OBVIOUS
      <4>1. h = AnswerFrame(r, a.status)   BY <1>8, <3>1
      <4>2. Understood(h, r, a.status)   BY <1>14, <3>2, <4>1, ResponseUnderstood DEF AnswerFrame
      <4>3. z.ok = TRUE /\ z.id = r.id   BY <1>15, <4>2 DEF Understood
      <4> QED  BY <1>13, <1>17, <4>3 DEF Matches
    <3>4. i \in ((m + 1) + 1)..l   BY <3>3
    <3> QED  BY <1>3, <3>1, <3>4
  <2>3. Ahead(asked, replies, sent, m + 1)   BY <1>10, <1>12, <1>13, <2>2 DEF Ahead
  <2> QED  BY <1>1, <1>9, <2>1, <2>3 DEF AnswerInv
<1>18. CASE Matches(z)
  <2>1. z.ok /\ z.id = r.id   BY <1>13, <1>18 DEF Matches
  <2>2. h # PushFrame   BY <1>15, <2>1, PushIsNoResponse
  <2>3. PICK k \in 1..Len(asked), status \in {0, 3} :
            h = AnswerFrame(asked[k], status) /\ Reply(asked[k], status) \in replies
    BY SMTT(40), <1>3, <1>8, <2>2 DEF AnswerInv, FramesOf
  <2>4. asked[k].id \in 0..511   BY RequestIdType
  <2>5. Understood(h, asked[k], status)   BY <2>3, <2>4, ResponseUnderstood DEF AnswerFrame
  <2>6. asked[k].id = asked[n].id   BY <1>12, <1>13, <1>15, <2>1, <2>5 DEF Understood
  <2>7. k = n   BY <1>10, <1>12, <2>6, IdsDiffer
  <2>8. Understood(h, Current, status) /\ Reply(Current, status) \in replies   BY <1>12, <2>3, <2>5, <2>7
  <2>9. result' = ResultOf(BleResponse(h))   BY <1>15, <1>16, <1>18
  <2>10. result'.id # None => Told(result', Reply(Current, status))   BY <1>13, <1>14, <2>8, <2>9, ResultTold
  <2>11. open' = FALSE   BY <1>16, <1>18
  <2> QED  BY <1>1, <2>8, <2>10, <2>11 DEF AnswerInv
<1> QED  BY <1>17, <1>18

\* A record is read.
LEMMA ReceiveKeepsAnswers ==
    ASSUME StreamInv, AnswerInv, NEW n \in 1..Len(tunnel), Receive(n)
    PROVE  AnswerInv'
<1>1. UNCHANGED <<asked, open, sent, replies, result>> /\ frames = <<>>   BY DEF Receive
<1>2. StreamInv'   BY ReceiveKeepsStream
<1>3. PICK k : k = Len(frames')   OBVIOUS
<1>4. k \in Nat
  <2>1. frames' \in Seq(Seq(Byte))   BY <1>2 DEF StreamInv, PartOf
  <2> QED  BY <1>3, <2>1
<1>5. found' = found + k   BY <1>3 DEF Receive
<1>6. found \in Nat
  <2>1. found \in 0..Len(sent) /\ Len(sent) \in Nat   BY DEF StreamInv, Whole
  <2> QED  BY <2>1
<1>7. Len(frames) = 0   BY <1>1
<1>8. found' - Len(frames') = found - Len(frames)   BY <1>3, <1>4, <1>5, <1>6, <1>7
<1> QED  BY <1>1, <1>8 DEF AnswerInv

\* Every step keeps the invariant.
LEMMA AnswersStep == AskedInv /\ StreamInv /\ AnswerInv /\ [WireNext]_wireVars => AnswerInv'
<1> SUFFICES ASSUME AskedInv, StreamInv, AnswerInv, [WireNext]_wireVars PROVE AnswerInv'   OBVIOUS
<1>1. ASSUME UNCHANGED <<asked, open, sent, frames, found, replies, result>> PROVE AnswerInv'   BY <1>1 DEF AnswerInv
<1>2. ASSUME NEW q \in Asks, Ask(q[1], q[2], q[3]) PROVE AnswerInv'   BY <1>2, AskKeepsAnswers
<1>3. ASSUME NEW noise \in Noises, Push(noise) PROVE AnswerInv'   BY <1>3, PushKeepsAnswers
<1>4. ASSUME NEW noise \in Noises, NEW i \in DOMAIN asked, NEW status \in {0, 3}, Answer(asked[i], status, noise)
      PROVE  AnswerInv'
  <2>1. i \in 1..Len(asked)   BY DEF AskedInv
  <2> QED  BY <1>4, <2>1, AnswerKeepsAnswers
<1>5. ASSUME NEW n \in 1..Len(tunnel), Receive(n) PROVE AnswerInv'   BY <1>5, ReceiveKeepsAnswers
<1>6. ASSUME Take PROVE AnswerInv'   BY <1>6, TakeKeepsAnswers
<1>7. ASSUME TearDown PROVE AnswerInv'
  <2>1. open' = FALSE /\ sent' = <<>> /\ UNCHANGED <<asked, replies, result>>   BY <1>7 DEF TearDown
  <2>2. Len(<<>>) = 0   OBVIOUS
  <2>3. FramesOf(asked', replies', sent')   BY <2>1, <2>2 DEF FramesOf
  <2> QED  BY <2>1, <2>3 DEF AnswerInv
<1>8. ASSUME NEW r \in Reports, Report(r) PROVE AnswerInv'   BY <1>1, <1>8 DEF Report, stream
<1>9. ASSUME UNCHANGED wireVars PROVE AnswerInv'   BY <1>1, <1>9 DEF wireVars, stream
<1> QED  BY <1>2, <1>3, <1>4, <1>5, <1>6, <1>7, <1>8, <1>9 DEF WireNext

\* It implies that answers reach their request.
LEMMA AnswersReach == AskedInv /\ StreamInv /\ AnswerInv => AnswersReachTheirRequest
<1> SUFFICES ASSUME AskedInv, StreamInv, AnswerInv PROVE AnswersReachTheirRequest   OBVIOUS
<1>1. ASSUME result.id # None
      PROVE  /\ \E a \in replies : a.id = result.id /\ Succeeded(result.status) = Succeeded(a.status)
             /\ result.tokens # NoResult.tokens => result.tokens = Issued(result.id)
  <2>1. PICK a \in replies : Told(result, a)   BY <1>1 DEF AnswerInv
  <2>2. /\ a.id = result.id /\ a.status \in {0, 3} /\ result.status = (IF a.status = 0 THEN None ELSE a.status)
        /\ result.tokens = NoResult.tokens \/ result.tokens = Issued(result.id)
    BY <2>1 DEF Told
  <2>3. Succeeded(result.status) = Succeeded(a.status)   BY <2>2 DEF Succeeded, None
  <2> QED  BY <2>2, <2>3
<1>2. ASSUME open, tunnel = <<>>, frames = <<>>, NEW a \in replies, a.id = Current.id PROVE FALSE
  <2>1. found = Len(sent)   BY <1>2, StreamIsWhole DEF FramesAreWhole
  <2>2. Len(frames) = 0 /\ Len(sent) \in Nat   BY <1>2 DEF StreamInv, Whole
  <2>3. PICK l \in Nat : l = Len(sent) /\ l = found - Len(frames)   BY <2>1, <2>2
  <2>4. Ahead(asked, replies, sent, l)   BY <1>2, <2>3 DEF AnswerInv
  <2>5. a.id = asked[Len(asked)].id   BY <1>2 DEF Current, Last
  <2>6. \E i \in (l + 1)..l : TRUE   BY <2>3, <2>4, <2>5 DEF Ahead
  <2> QED  BY <2>6
<1> QED  BY <1>1, <1>2 DEF AnswersReachTheirRequest

\* A request is told the status of its own answer and a pairing its own tokens, never
\* those of a late answer or of a push; and none that was answered waits in vain
\* (ble_transport.py:558).
THEOREM AnswersFindTheirRequest == WireSpec => []AnswersReachTheirRequest
<1>1. WireInit => AskedInv /\ StreamInv /\ AnswerInv   BY StreamStarts, AnswersStart
<1>2. AskedInv /\ StreamInv /\ AnswerInv /\ [WireNext]_wireVars => (AskedInv /\ StreamInv /\ AnswerInv)'
  BY AskedStep, StreamStep, AnswersStep
<1> QED  BY <1>1, <1>2, AnswersReach, PTL DEF WireSpec

---------------------------------------------------------------------------
(* Commands, as the vehicle reads them: values and slots ...              *)

\* A value that a transport can tell
Tellable(v, via) ==
    /\ v \in Values /\ Len(v.s) <= MaxSlotsBytes /\ via \in {"ble", "cloud"}
    /\ v.kind = "int" /\ via = "cloud" => v.v >= 0

\* The value that the vehicle reads from a field.
FieldValue(f) ==
    CASE f.field = 3 -> Value("int", Signed(f.num), <<>>)
      [] f.field = 4 -> Value("str", 0, f.bytes)
      [] f.field = 5 -> Value("bool", f.num, <<>>)
      [] f.field = 6 -> Value("float", f.num, <<>>)
      [] f.field = 10 -> Value("name", 0, f.bytes)

\* Bytes that carry the value v, in the field f.
ValueIs(b, f, v) == Carries(b, One(f)) /\ Sized(b, 2, 206) /\ f \in FieldType /\ f.field \in 3..10 /\ FieldValue(f) = v

\* A number is read with its sign ...
LEMMA IntIs ==
    ASSUME NEW n \in 0..511, NEW v, v = Value("int", Signed(n), <<>>)
    PROVE  ValueIs(VarintField(3, n), Field(3, 0, n, <<>>), v)
<1>0. 3 \in 0..63 /\ 0 \in Nat /\ 3 \in Nat /\ n \in Nat /\ <<>> \in Seq(Byte) /\ 3 \in 3..10
      /\ 2 \in Nat /\ 6 \in Nat /\ 206 \in Nat /\ 2 <= 2 /\ 6 <= 206
  OBVIOUS
<1>1. PICK f : f = Field(3, 0, n, <<>>)   OBVIOUS
<1>2. Carries(VarintField(3, n), One(f))   BY Zenon, <1>0, <1>1, CarriesVarint
<1>3. f \in FieldType   BY <1>0, <1>1, FieldTyped
<1>4. Sized(VarintField(3, n), 2, 6)   BY Zenon, <1>0, VarintFieldSized
<1>5. Sized(VarintField(3, n), 2, 206)   BY <1>0, <1>4, SizedWider
<1>6. f.field = 3 /\ f.num = n   BY <1>1 DEF Field
<1>7. FieldValue(f) = v   BY <1>6 DEF FieldValue
<1> QED  BY <1>0, <1>1, <1>2, <1>3, <1>5, <1>6, <1>7 DEF ValueIs

\* ... a truth value ...
LEMMA BoolIs ==
    ASSUME NEW n \in {0, 1}, NEW v, v = Value("bool", n, <<>>)
    PROVE  ValueIs(VarintField(5, n), Field(5, 0, n, <<>>), v)
<1>0. 5 \in 0..63 /\ 0 \in Nat /\ 5 \in Nat /\ n \in Nat /\ <<>> \in Seq(Byte) /\ 5 \in 3..10 /\ n \in 0..511
      /\ 2 \in Nat /\ 6 \in Nat /\ 206 \in Nat /\ 2 <= 2 /\ 6 <= 206
  OBVIOUS
<1>1. PICK f : f = Field(5, 0, n, <<>>)   OBVIOUS
<1>2. Carries(VarintField(5, n), One(f))   BY Zenon, <1>0, <1>1, CarriesVarint
<1>3. f \in FieldType   BY <1>0, <1>1, FieldTyped
<1>4. Sized(VarintField(5, n), 2, 6)   BY Zenon, <1>0, VarintFieldSized
<1>5. Sized(VarintField(5, n), 2, 206)   BY <1>0, <1>4, SizedWider
<1>6. f.field = 5 /\ f.num = n   BY <1>1 DEF Field
<1>7. FieldValue(f) = v   BY <1>6 DEF FieldValue
<1> QED  BY <1>0, <1>1, <1>2, <1>3, <1>5, <1>6, <1>7 DEF ValueIs

\* ... a float ...
LEMMA FloatIs ==
    ASSUME NEW n \in Byte, NEW v, v = Value("float", n, <<>>)
    PROVE  ValueIs(FloatField(6, n), Field(6, 5, n, <<>>), v)
<1>0. 6 \in 0..63 /\ 5 \in 0..7 /\ 5 \in Nat /\ 6 \in Nat /\ <<>> \in Seq(Byte) /\ 6 \in 3..10 /\ n \in Nat /\ 3 \in Nat
      /\ 2 \in Nat /\ 4 \in Nat /\ 206 \in Nat /\ 2 <= 2 /\ 4 <= 206 /\ 1 \in Nat /\ 1 + 1 = 2 /\ 3 + 1 = 4
  BY Widths
<1>1. PICK f : f = Field(6, 5, n, <<>>)   OBVIOUS
<1>2. Carries(FloatField(6, n), One(f))   BY <1>0, <1>1, CarriesFloat
<1>3. f \in FieldType   BY <1>0, <1>1, FieldTyped
<1>4. Sized(Key(6, 5), 1, 3)   BY <1>0, KeySized
<1>8. Sized(<<n>>, 1, 1)   BY DEF Sized
<1>9. Sized(FloatField(6, n), 1 + 1, 3 + 1)   BY <1>0, <1>4, <1>8, SizedJoin DEF FloatField
<1>5. Sized(FloatField(6, n), 2, 206)   BY <1>0, <1>9, SizedWider
<1>6. f.field = 6 /\ f.num = n   BY <1>1 DEF Field
<1>7. FieldValue(f) = v   BY <1>6 DEF FieldValue
<1> QED  BY <1>0, <1>1, <1>2, <1>3, <1>5, <1>6, <1>7 DEF ValueIs

\* ... and a text or a name as it was.
LEMMA TextIs ==
    ASSUME NEW n \in 0..63, n = 4 \/ n = 10, NEW s, Sized(s, 0, 200), NEW v, v = Value(IF n = 4 THEN "str" ELSE "name", 0, s)
    PROVE  ValueIs(BytesField(n, s), Field(n, 2, 0, s), v)
<1>0. n \in 0..63 /\ 2 \in 0..7 /\ 0 \in Nat /\ n \in Nat /\ n \in 3..10 /\ 0 \in 0..511
      /\ 2 \in Nat /\ 200 \in 0..511 /\ 2 + 0 = 2 /\ 6 + 200 = 206
  OBVIOUS
<1>1. PICK f : f = Field(n, 2, 0, s)   OBVIOUS
<1>2. Carries(BytesField(n, s), One(f))
  <2>1. \A k \in 0..63, max \in 0..511 : Sized(s, 0, max) => Carries(BytesField(k, s), One(Field(k, 2, 0, s)))
    BY Zenon, CarriesSized
  <2>2. PICK max \in 0..511 : max = 200   OBVIOUS
  <2>3. Sized(s, 0, max)   BY <2>2
  <2>4. Carries(BytesField(n, s), One(Field(n, 2, 0, s)))   BY ONLY Zenon, <2>1, <2>3, n \in 0..63, max \in 0..511
  <2> QED  BY <1>1, <2>4
<1>8. s \in Seq(Byte)   BY DEF Sized
<1>3. f \in FieldType   BY <1>0, <1>1, <1>8, FieldTyped
<1>5. Sized(BytesField(n, s), 2 + 0, 6 + 200)
  <2>1. \A k \in 0..63, m, max \in 0..511 : Sized(s, m, max) => Sized(BytesField(k, s), 2 + m, 6 + max)
    BY ZenonT(40), BytesFieldSized
  <2>2. PICK m \in 0..511, max \in 0..511 : m = 0 /\ max = 200   OBVIOUS
  <2>4. Sized(s, m, max)   BY <2>2
  <2>3. Sized(BytesField(n, s), 2 + m, 6 + max)
    <3> QED  BY ONLY <2>1, <2>4, n \in 0..63, m \in 0..511, max \in 0..511, Zenon
  <2> QED  BY <2>2, <2>3
<1>6. f.field = n /\ f.bytes = s   BY <1>1 DEF Field
<1>7. FieldValue(f) = v   BY <1>6 DEF FieldValue
<1> QED  BY <1>0, <1>1, <1>2, <1>3, <1>5, <1>6, <1>7 DEF ValueIs

\* A value that a transport can tell is read back, negative numbers over Bluetooth
\* included.
LEMMA TypedIs ==
    ASSUME NEW v, NEW via, Tellable(v, via)
    PROVE  ValueIs(Typed(v, via), TypedField(v), v)
<1>1. v \in Values /\ via \in {"ble", "cloud"} /\ Len(v.s) <= 200   BY DEF Tellable, MaxSlotsBytes
<1>2. CASE v.kind = "int" /\ v.v \in -256..255 /\ v = Value("int", v.v, <<>>)
  <2>1. PICK k \in -256..255 : k = v.v   BY <1>2
  <2>2. PICK n \in 0..511 : n = IF k < 0 THEN k + 512 ELSE k
    <3>1. (IF k < 0 THEN k + 512 ELSE k) \in 0..511   OBVIOUS
    <3> QED  BY <3>1
  <2>3. Signed(n) = k
    <3>1. n >= 512 \div 2 => k < 0 /\ n = k + 512   BY <2>2
    <3>2. n < 512 \div 2 => n = k   BY <2>2
    <3>3. n - 512 = k \/ n = k   BY <2>2
    <3> QED  BY <3>1, <3>2 DEF Signed, Wide
  <2>4. ValueIs(VarintField(3, n), Field(3, 0, n, <<>>), v)   BY <1>2, <2>1, <2>3, IntIs
  <2>5. TypedField(v) = Field(3, 0, n, <<>>)   BY <1>2, <2>1, <2>2 DEF TypedField
  <2>6. Typed(v, via) = VarintField(3, n)
    <3>1. CASE via = "ble"
      <4>1. Typed(v, via) = Int32Field(3, k)   BY <1>2, <2>1, <3>1 DEF Typed
      <4> QED  BY <2>2, <4>1 DEF Int32Field, Wide
    <3>2. CASE via = "cloud"
      <4>1. Typed(v, via) = CloudInt(3, k)   BY <1>2, <2>1, <3>2 DEF Typed
      <4>2. ~(k < 0)   BY <1>2, <2>1, <3>2 DEF Tellable
      <4> QED  BY <2>2, <4>1, <4>2 DEF CloudInt
    <3> QED  BY <1>1, <3>1, <3>2
  <2> QED  BY <2>4, <2>5, <2>6
<1>3. CASE v.kind = "bool" /\ v.v \in {0, 1} /\ v = Value("bool", v.v, <<>>)
  <2>1. ValueIs(VarintField(5, v.v), Field(5, 0, v.v, <<>>), v)   BY <1>3, BoolIs
  <2> QED  BY <1>3, <2>1 DEF Typed, TypedField
<1>4. CASE v.kind = "float" /\ v.v \in Byte /\ v = Value("float", v.v, <<>>)
  <2>1. ValueIs(FloatField(6, v.v), Field(6, 5, v.v, <<>>), v)   BY <1>4, FloatIs
  <2> QED  BY <1>4, <2>1 DEF Typed, TypedField
<1>5. CASE v.kind \in {"str", "name"} /\ v.s \in Seq(Byte) /\ v = Value(v.kind, 0, v.s)
  <2>1. Sized(v.s, 0, 200)   BY <1>1, <1>5 DEF Sized
  <2>2. CASE v.kind = "str"
    <3>1. ValueIs(BytesField(4, v.s), Field(4, 2, 0, v.s), v)   BY <1>5, <2>1, <2>2, TextIs
    <3> QED  BY <2>2, <3>1 DEF Typed, TypedField
  <2>3. CASE v.kind = "name"
    <3>1. ValueIs(BytesField(10, v.s), Field(10, 2, 0, v.s), v)   BY <1>5, <2>1, <2>3, TextIs
    <3> QED  BY <2>3, <3>1 DEF Typed, TypedField
  <2> QED  BY <1>5, <2>2, <2>3
<1> QED  BY <1>1, <1>2, <1>3, <1>4, <1>5, ValueKinds

\* A slot that a transport can tell
TellableSlot(c, via) == c \in Slot /\ Tellable(c.value, via)
\* A slot carries its number, its bus and its value.
LEMMA SlotCarries ==
    ASSUME NEW c, NEW via, TellableSlot(c, via)
    PROVE  /\ Carries(ConnectedComponentValue(c, via), SlotFields(c))
           /\ Sized(ConnectedComponentValue(c, via), 6, 218)
<1>0. 1 \in 0..63 /\ 2 \in 0..63 /\ 2 \in Nat /\ 6 \in Nat /\ 4 \in Nat /\ 12 \in Nat /\ 206 \in Nat
      /\ 2 + 2 = 4 /\ 6 + 6 = 12 /\ 4 + 2 = 6 /\ 12 + 206 = 218
  OBVIOUS
<1>1. PICK x \in 0..511, y \in 0..511 : x = c.sid /\ y = c.bus
  <2>1. c.sid \in 0..511 /\ c.bus \in 0..511   BY Widths DEF TellableSlot, Slot
  <2> QED  BY Zenon, <2>1
<1>2. PICK s, t, v : s = VarintField(1, x) /\ t = VarintField(2, y) /\ v = Typed(c.value, via)   OBVIOUS
<1>3. Carries(s, One(Field(1, 0, x, <<>>))) /\ Sized(s, 2, 6)   BY ZenonT(40), <1>0, <1>2, CarriesVarint, VarintFieldSized
<1>4. Carries(t, One(Field(2, 0, y, <<>>))) /\ Sized(t, 2, 6)   BY ZenonT(40), <1>0, <1>2, CarriesVarint, VarintFieldSized
<1>5. Carries(v, One(TypedField(c.value))) /\ Sized(v, 2, 206)
  <2>1. ValueIs(v, TypedField(c.value), c.value)   BY <1>2, TypedIs DEF TellableSlot
  <2> QED  BY <2>1 DEF ValueIs
<1>6. Carries(s \o t, One(Field(1, 0, x, <<>>)) \o One(Field(2, 0, y, <<>>)))   BY <1>3, <1>4, CarriesJoin
<1>7. Carries((s \o t) \o v, SlotFields(c))   BY <1>1, <1>5, <1>6, CarriesJoin DEF SlotFields
<1>8. Sized(s \o t, 2 + 2, 6 + 6)   BY <1>0, <1>3, <1>4, SizedJoin
<1>9. PICK w : w = s \o t   OBVIOUS
<1>10. Sized(w, 4, 12)   BY <1>0, <1>8, <1>9
<1>11. Sized(w \o v, 4 + 2, 12 + 206)   BY <1>0, <1>5, <1>10, SizedJoin
<1>12. Sized(w \o v, 6, 218)   BY <1>0, <1>11
<1>13. ConnectedComponentValue(c, via) = (s \o t) \o v   BY <1>1, <1>2 DEF ConnectedComponentValue
<1> QED  BY <1>7, <1>9, <1>12, <1>13

\* The vehicle reads the slot that was meant.
LEMMA SlotReads ==
    ASSUME NEW c, NEW via, TellableSlot(c, via)
    PROVE  ReadSlot(ConnectedComponentValue(c, via)) = c
<1>0. 1 \in Nat /\ 2 \in Nat /\ 0 \in Nat /\ <<>> \in Seq(Byte) /\ TRUE \in BOOLEAN /\ 1 \notin 3..10 /\ 2 \notin 3..10   OBVIOUS
<1>1. PICK sid \in Nat, bus \in Nat : sid = c.sid /\ bus = c.bus
  <2>1. c.sid \in 0..511 /\ c.bus \in 0..511   BY Widths DEF TellableSlot, Slot
  <2>2. c.sid \in Nat /\ c.bus \in Nat   BY SMTT(40), <2>1
  <2> QED  BY <2>2
<1>2. PICK x, y, t : x = Field(1, 0, sid, <<>>) /\ y = Field(2, 0, bus, <<>>) /\ t = TypedField(c.value)   OBVIOUS
<1>3. t \in FieldType /\ t.field \in 3..10 /\ FieldValue(t) = c.value
  <2>1. ValueIs(Typed(c.value, via), t, c.value)   BY <1>2, TypedIs DEF TellableSlot
  <2> QED  BY <2>1 DEF ValueIs
<1>4. x \in FieldType /\ y \in FieldType   BY <1>0, <1>2, FieldTyped
<1>5. x.field = 1 /\ x.type = 0 /\ x.num = sid /\ y.field = 2 /\ y.type = 0 /\ y.num = bus   BY <1>2 DEF Field
<1>6. PICK fs : fs = Parse(ConnectedComponentValue(c, via), TRUE).fields   OBVIOUS
<1>7. fs = SlotFields(c)   BY <1>0, <1>6, SlotCarries, CarriesParsed
<1>8. IsThree(fs, x, y, t)   BY <1>1, <1>2, <1>3, <1>4, <1>7, ThreeIs DEF SlotFields
<1>9. t.field # 1 /\ t.field # 2   BY <1>0, <1>3
<1>10. Where(fs, 1, 0) = {1}   BY <1>5, <1>8, <1>9, WhereInThree
<1>11. Where(fs, 2, 0) = {2}   BY <1>5, <1>8, <1>9, WhereInThree
<1>12. fs[1] = x /\ fs[2] = y /\ fs[3] = t /\ DOMAIN fs = {1, 2, 3}   BY <1>8 DEF IsThree
<1>13. FirstNum(fs, 1) = x.num   BY ONLY <1>0, <1>10, <1>12, NumIs
<1>14. FirstNum(fs, 2) = y.num   BY ONLY <1>0, <1>11, <1>12, NumIs
<1>15. ToSet(fs) = {x, y, t}   BY ONLY <1>12 DEF ToSet
<1>16. (CHOOSE f \in ToSet(fs) : f.field \in 3..10) = t
  <2>1. \A f \in {x, y, t} : f.field \in 3..10 <=> f = t   BY <1>0, <1>3, <1>5
  <2>2. PICK g : g = CHOOSE f \in {x, y, t} : f.field \in 3..10   OBVIOUS
  <2>3. g \in {x, y, t} /\ g.field \in 3..10   BY <1>3, <2>2
  <2>4. g = t   BY <2>1, <2>3
  <2> QED  BY <1>15, <2>2, <2>4
<1>17. ReadValue(fs) = FieldValue(t)   BY ONLY <1>16, Zenon DEF ReadValue, FieldValue
<1>18. ReadSlot(ConnectedComponentValue(c, via)) = [sid |-> sid, bus |-> bus, value |-> c.value]
  BY <1>3, <1>5, <1>6, <1>13, <1>14, <1>17 DEF ReadSlot
<1>19. c = [sid |-> c.sid, bus |-> c.bus, value |-> c.value]   BY DEF TellableSlot, Slot
<1> QED  BY <1>1, <1>18, <1>19

\* Slots that a transport can tell
TellableSlots(values, via) == values \in Seq(Slot) /\ \A i \in 1..Len(values) : TellableSlot(values[i], via)

\* The field of a slot is read back.
LEMMA SlotFieldIs ==
    ASSUME NEW c, NEW via, TellableSlot(c, via)
    PROVE  /\ Carries(BytesField(1, ConnectedComponentValue(c, via)), One(SlotField(c, via)))
           /\ SlotField(c, via) \in FieldType
           /\ BytesField(1, ConnectedComponentValue(c, via)) \in Seq(Byte)
<1>0. 1 \in 0..63 /\ 218 \in 0..511 /\ 1 \in Nat /\ 2 \in Nat /\ 0 \in Nat /\ 0 <= 6 /\ 218 <= 218 /\ 6 \in Nat /\ 218 \in Nat
  OBVIOUS
<1>1. PICK b : b = ConnectedComponentValue(c, via)   OBVIOUS
<1>2. Sized(b, 6, 218)   BY <1>1, SlotCarries
<1>3. Sized(b, 0, 218)   BY <1>0, <1>2, SizedWider
<1>4. Carries(BytesField(1, b), One(Field(1, 2, 0, b)))   BY Zenon, <1>0, <1>3, CarriesSized
<1>5. b \in Seq(Byte)   BY <1>2 DEF Sized
<1>6. Field(1, 2, 0, b) \in FieldType   BY <1>0, <1>5, FieldTyped
<1> QED  BY <1>1, <1>4, <1>6 DEF SlotField, Carries

\* Slots carry a field each, in order.
LEMMA SlotsCarry ==
    ASSUME NEW values, NEW via, TellableSlots(values, via)
    PROVE  Carries(SlotsBytes(values, via), FieldsUpTo(values, via, Len(values)))
<1>1. PICK n \in Nat : n = Len(values)   BY DEF TellableSlots
<1>2. DOMAIN values = 1..n /\ \A i \in 1..n : TellableSlot(values[i], via)   BY <1>1 DEF TellableSlots
<1>3. PICK S : S = [i \in 1..n |-> BytesField(1, ConnectedComponentValue(values[i], via))]   OBVIOUS
<1>4. SlotsBytes(values, via) = FlattenSeq(S)   BY <1>2, <1>3 DEF SlotsBytes
<1>5. \A i \in 1..n : Carries(S[i], One(SlotField(values[i], via))) /\ SlotField(values[i], via) \in FieldType
  BY <1>2, <1>3, SlotFieldIs
<1>6. S \in [1..n -> Seq(Byte)]
  <2>1. \A i \in 1..n : BytesField(1, ConnectedComponentValue(values[i], via)) \in Seq(Byte)   BY <1>2, SlotFieldIs
  <2> QED  BY <1>3, <2>1
<1>7. PICK F : F = FieldsUpTo(values, via, n)   OBVIOUS
<1>8. F \in [1..n -> FieldType] /\ \A i \in 1..n : Carries(S[i], One(F[i]))   BY <1>5, <1>7 DEF FieldsUpTo
<1>9. Carries(FlattenSeq(S), F)   BY <1>6, <1>8, FlattenCarries
<1> QED  BY <1>1, <1>4, <1>7, <1>9

\* The vehicle reads every slot of a command that was meant, in order.
LEMMA SlotsRead ==
    ASSUME NEW values, NEW via, TellableSlots(values, via)
    PROVE  ReadSlots(SlotsBytes(values, via)) = values
<1>1. PICK n \in Nat : n = Len(values)   BY DEF TellableSlots
<1>2. PICK fs : fs = Parse(SlotsBytes(values, via), TRUE).fields   OBVIOUS
<1>3. fs = FieldsUpTo(values, via, n)
  <2>1. TRUE \in BOOLEAN   OBVIOUS
  <2> QED  BY <1>1, <1>2, <2>1, SlotsCarry, CarriesParsed
<1>4. DOMAIN fs = 1..n /\ \A i \in 1..n : fs[i] = SlotField(values[i], via)   BY <1>3 DEF FieldsUpTo
<1>5. \A i \in 1..n : ReadSlot(fs[i].bytes) = values[i]
  <2> TAKE i \in 1..n
  <2>1. fs[i].bytes = ConnectedComponentValue(values[i], via)   BY <1>4 DEF SlotField, Field
  <2>2. TellableSlot(values[i], via)   BY <1>1 DEF TellableSlots
  <2> QED  BY <2>1, <2>2, SlotReads
<1>6. ReadSlots(SlotsBytes(values, via)) = [i \in 1..n |-> values[i]]   BY <1>2, <1>4, <1>5 DEF ReadSlots
<1>7. values = [i \in 1..n |-> values[i]]   BY <1>1 DEF TellableSlots
<1> QED  BY <1>6, <1>7

---------------------------------------------------------------------------
(* ... the message and its topic ...                                      *)

\* The kind that a number and the number of a topic's field stand for
KindOf(n, k) ==
    CASE n = 4 /\ k = 2 -> "values"
      [] n = 4 /\ k = 3 -> "catalog"
      [] n = 8 /\ k = 4 -> "pair"
      [] n = 8 /\ k = 6 -> "confirm"
      [] n = 9 /\ k = 2 -> "restart"
      [] n = 9 /\ k = 0 -> "refresh"
\* The vehicle reads the kind of a request from its topic: none is taken for another.
LEMMA KindIs ==
    ASSUME NEW b, NEW id, NEW n, NEW k, NEW topic, NEW inner, Kinded(n, k), TopicTells(topic, k, inner),
           Requested(Parse(b, TRUE).fields, id, n, topic)
    PROVE  KindRead(b) = KindOf(n, k)
<1>1. \A m \in {4, 8, 9} : Has(b, m) <=> m = n   BY DEF Requested, Has
<1>2. \A m \in {4, 8, 9} : m = n => Within(b, m) = topic   BY DEF Requested, Within
<1>3. \A m \in {2, 3, 4, 6} : Has(topic, m) <=> m = k   BY DEF TopicTells, Has
<1>4. \A m \in {4, 8, 9}, l \in {2, 3, 4, 6} : HasPath(b, m, l) <=> m = n /\ l = k   BY <1>1, <1>2, <1>3 DEF HasPath
<1>5. /\ HasPath(b, 4, 2) <=> n = 4 /\ k = 2
      /\ HasPath(b, 4, 3) <=> n = 4 /\ k = 3
      /\ HasPath(b, 8, 4) <=> n = 8 /\ k = 4
      /\ HasPath(b, 8, 6) <=> n = 8 /\ k = 6
      /\ HasPath(b, 9, 2) <=> n = 9 /\ k = 2
  BY <1>4
<1>6. n = 9 /\ k = 0 => Has(b, 9) /\ Within(b, 9) = <<>>   BY <1>1, <1>2 DEF TopicTells
<1>7. Has(b, 9) => n = 9   BY <1>1
<1>8. topic = <<>> => k = 0
  <2> SUFFICES ASSUME topic = <<>>, k # 0 PROVE FALSE   OBVIOUS
  <2>1. TopicTells(<<>>, 0, <<>>)   BY NoTopicIs
  <2>2. k \in {2, 3, 4, 6}   BY DEF Kinded
  <2>3. HasBytes(Parse(<<>>, TRUE).fields, k)   BY <2>2 DEF TopicTells
  <2>4. ~HasBytes(Parse(<<>>, TRUE).fields, k)   BY <2>1, <2>2 DEF TopicTells
  <2> QED  BY <2>3, <2>4
<1>9. Has(b, 9) /\ Within(b, 9) = <<>> => n = 9 /\ k = 0   BY <1>2, <1>7, <1>8
<1> HIDE DEF HasPath, Has, Within
<1>10. CASE n = 4 /\ k = 2   BY <1>5, <1>7, <1>10 DEF KindRead, KindOf
<1>11. CASE n = 4 /\ k = 3   BY <1>5, <1>7, <1>11 DEF KindRead, KindOf
<1>12. CASE n = 8 /\ k = 4   BY <1>5, <1>7, <1>12 DEF KindRead, KindOf
<1>13. CASE n = 8 /\ k = 6   BY <1>5, <1>7, <1>13 DEF KindRead, KindOf
<1>14. CASE n = 9 /\ k = 2   BY <1>5, <1>9, <1>14 DEF KindRead, KindOf
<1>15. CASE n = 9 /\ k = 0   BY <1>5, <1>6, <1>15 DEF KindRead, KindOf
<1> QED  BY <1>10, <1>11, <1>12, <1>13, <1>14, <1>15 DEF Kinded

---------------------------------------------------------------------------
(* ... the requests ...                                                   *)

\* A request as a message, and what its topic holds
MessageOf(r, n, k, topic, inner) ==
    /\ Kinded(n, k) /\ TopicTells(topic, k, inner) /\ KindOf(n, k) = r.kind
    /\ RequestBytes(r, r.via) = RequestMessage(r.id, n, topic)
    /\ r.kind \in {"values", "catalog"} => inner = SlotsBytes(r.values, r.via)

\* The slots of a command fit their frame.
LEMMA SlotsSized ==
    ASSUME NEW values \in Commands \cup Catalogs, NEW via \in {"ble", "cloud"}, via = "ble" \/ Plain(values)
    PROVE  TellableSlots(values, via) /\ Sized(SlotsBytes(values, via), 0, 206)
<1>1. /\ values \in Seq(Slot) /\ \A i \in DOMAIN values : Len(values[i].value.s) <= MaxSlotsBytes
      /\ Len(SlotsBytes(values, via)) <= MaxSlotsBytes
  BY WireAssumption DEF WireConstants
<1>2. DOMAIN values = 1..Len(values)   BY <1>1
<1>3. \A i \in 1..Len(values) : TellableSlot(values[i], via)
  <2> TAKE i \in 1..Len(values)
  <2>1. values[i] \in Slot /\ Len(values[i].value.s) <= MaxSlotsBytes   BY <1>1, <1>2
  <2>2. values[i].value \in Values   BY <2>1 DEF Slot
  <2>3. values[i].value.kind = "int" /\ via = "cloud" => values[i].value.v >= 0   BY <1>2 DEF Plain
  <2> QED  BY <2>1, <2>2, <2>3 DEF TellableSlot, Tellable
<1>4. TellableSlots(values, via)   BY <1>1, <1>3 DEF TellableSlots
<1>5. PICK b : b = SlotsBytes(values, via)   OBVIOUS
<1>6. b \in Seq(Byte)   BY <1>4, <1>5, SlotsCarry DEF Carries
<1>7. Len(b) <= 200 /\ Len(b) \in Nat   BY <1>1, <1>5, <1>6 DEF MaxSlotsBytes
<1>8. Len(b) >= 0 /\ Len(b) <= 206   BY <1>7
<1> QED  BY <1>4, <1>5, <1>6, <1>8 DEF Sized

\* Every request is a message with the topic of its kind.
LEMMA RequestIs ==
    ASSUME NEW r \in AskedRequests, r.via = "ble" \/ Plain(r.values)
    PROVE  \E n, k, topic, inner : MessageOf(r, n, k, topic, inner)
<1>0. 2 \in 1..10 /\ 3 \in 1..10   OBVIOUS
<1>k. /\ Kinded(4, 2) /\ Kinded(4, 3) /\ Kinded(8, 4) /\ Kinded(9, 2) /\ Kinded(9, 0)
      /\ KindOf(4, 2) = "values" /\ KindOf(4, 3) = "catalog" /\ KindOf(8, 4) = "pair" /\ KindOf(9, 2) = "restart"
      /\ KindOf(9, 0) = "refresh"
  BY DEF Kinded, KindOf
<1>1. CASE r.kind = "values"
  <2>1. r.values \in Commands \cup Catalogs /\ r.via \in {"ble", "cloud"}   BY <1>1, AsksKinds
  <2>2. Sized(SlotsBytes(r.values, r.via), 0, 206)   BY <2>1, SlotsSized
  <2>3. TopicTells(SetValuesTopic(r.values, r.via), 2, SlotsBytes(r.values, r.via))   BY <1>0, <2>2, TopicIs DEF SetValuesTopic
  <2>4. RequestBytes(r, r.via) = RequestMessage(r.id, 4, SetValuesTopic(r.values, r.via))   BY <1>1 DEF RequestBytes
  <2> QED  BY <1>1, <1>k, <2>3, <2>4 DEF MessageOf
<1>2. CASE r.kind = "catalog"
  <2>1. r.values \in Commands \cup Catalogs /\ r.via \in {"ble", "cloud"} /\ r.via = "cloud"   BY <1>2, AsksKinds
  <2>2. Sized(SlotsBytes(r.values, "cloud"), 0, 206)   BY <2>1, SlotsSized
  <2>3. TopicTells(CatalogTopic(r.values), 3, SlotsBytes(r.values, "cloud"))   BY <1>0, <2>2, TopicIs DEF CatalogTopic
  <2>4. RequestBytes(r, r.via) = RequestMessage(r.id, 4, CatalogTopic(r.values))   BY <1>2 DEF RequestBytes
  <2> QED  BY <1>2, <1>k, <2>1, <2>3, <2>4 DEF MessageOf
<1>3. CASE r.kind = "pair"
  <2>1. PICK inner : TopicTells(PairTopic, 4, inner)   BY FixedTopics
  <2>2. RequestBytes(r, r.via) = RequestMessage(r.id, 8, PairTopic)   BY <1>3 DEF RequestBytes
  <2> QED  BY <1>3, <1>k, <2>1, <2>2 DEF MessageOf
<1>4. CASE r.kind = "restart"
  <2>1. PICK inner : TopicTells(RestartTopic, 2, inner)   BY FixedTopics
  <2>2. RequestBytes(r, r.via) = RequestMessage(r.id, 9, RestartTopic)   BY <1>4 DEF RequestBytes
  <2> QED  BY <1>4, <1>k, <2>1, <2>2 DEF MessageOf
<1>5. CASE r.kind = "refresh"
  <2>1. RequestBytes(r, r.via) = RequestMessage(r.id, 9, <<>>)   BY <1>5 DEF RequestBytes
  <2> QED  BY <1>5, <1>k, <2>1, NoTopicIs DEF MessageOf
<1> QED  BY <1>1, <1>2, <1>3, <1>4, <1>5, AsksKinds

\* The numbers of a topic by its kind.
LEMMA KindedNumbers == \A n, k : Kinded(n, k) => n \in {4, 8, 9} /\ (KindOf(n, k) = "values" => n = 4 /\ k = 2)
                                              /\ (KindOf(n, k) = "catalog" => n = 4 /\ k = 3)
BY DEF Kinded, KindOf

\* The vehicle reads of a request what was asked: its kind, its id and its slots.
LEMMA RequestRead ==
    ASSUME NEW r \in AskedRequests, r.via = "ble" \/ Plain(r.values)
    PROVE  /\ ReadRequest(RequestBytes(r, r.via)) = [kind |-> r.kind, id |-> r.id, values |-> r.values]
           /\ Sized(RequestBytes(r, r.via), 8, 238)
<1>1. PICK n, k, topic, inner : MessageOf(r, n, k, topic, inner)   BY RequestIs
<1>2. r.id \in 0..511
  <2>1. r.id \in 1..511   BY AsksKinds
  <2> QED  BY <2>1
<1>3. n \in {4, 8, 9} /\ Kinded(n, k)   BY <1>1, KindedNumbers DEF MessageOf
<1>4. Sized(topic, 0, 212) /\ TopicTells(topic, k, inner)   BY <1>1 DEF MessageOf, TopicTells
<1>5. PICK b : b = RequestBytes(r, r.via)   OBVIOUS
<1>6. b = RequestMessage(r.id, n, topic)   BY <1>1, <1>5 DEF MessageOf
<1>7. Sized(b, 8, 238)   BY <1>2, <1>3, <1>4, <1>6, MessageCarries
<1>8. Requested(Parse(b, TRUE).fields, r.id, n, topic)
  <2>1. TRUE \in BOOLEAN   OBVIOUS
  <2> QED  BY <1>2, <1>3, <1>4, <1>6, <2>1, MessageTells
<1>9. KindRead(b) = r.kind
  <2>1. KindRead(b) = KindOf(n, k)   BY <1>3, <1>4, <1>8, KindIs
  <2> QED  BY <1>1, <2>1 DEF MessageOf
<1>10. FirstNum(Parse(b, TRUE).fields, 1) = r.id   BY <1>8 DEF Requested
<1>11. Within(b, n) = topic   BY <1>8 DEF Requested, Within
<1>12. k # 0 => Within(topic, k) = inner   BY <1>4 DEF TopicTells, Within
<1>13. KindOf(n, k) = r.kind   BY <1>1 DEF MessageOf
<1>14. CASE r.kind = "values"
  <2>1. n = 4 /\ k = 2   BY <1>3, <1>13, <1>14, KindedNumbers
  <2>2. Within(Within(b, 4), 2) = SlotsBytes(r.values, r.via)   BY <1>1, <1>11, <1>12, <1>14, <2>1 DEF MessageOf
  <2>3. r.values \in Commands \cup Catalogs /\ r.via \in {"ble", "cloud"}   BY <1>14, AsksKinds
  <2>4. ReadSlots(SlotsBytes(r.values, r.via)) = r.values   BY <2>3, SlotsSized, SlotsRead
  <2> QED  BY <1>5, <1>7, <1>9, <1>10, <1>14, <2>2, <2>4 DEF ReadRequest, RequestOf
<1>15. CASE r.kind = "catalog"
  <2>1. n = 4 /\ k = 3   BY <1>3, <1>13, <1>15, KindedNumbers
  <2>2. Within(Within(b, 4), 3) = SlotsBytes(r.values, r.via)   BY <1>1, <1>11, <1>12, <1>15, <2>1 DEF MessageOf
  <2>3. r.values \in Commands \cup Catalogs /\ r.via \in {"ble", "cloud"}   BY <1>15, AsksKinds
  <2>4. ReadSlots(SlotsBytes(r.values, r.via)) = r.values   BY <2>3, SlotsSized, SlotsRead
  <2> QED  BY <1>5, <1>7, <1>9, <1>10, <1>15, <2>2, <2>4 DEF ReadRequest, RequestOf
<1>16. CASE r.kind \notin {"values", "catalog"}
  <2>1. r.values = <<>>   BY <1>16, AsksKinds
  <2> QED  BY <1>5, <1>7, <1>9, <1>10, <1>16, <2>1 DEF ReadRequest, RequestOf
<1> QED  BY <1>14, <1>15, <1>16

\* And of a confirmation that it is one.
LEMMA ConfirmationRead ==
    /\ ReadRequest(RequestMessage(ConfirmId, 8, ConfirmTopic)).kind = "confirm"
    /\ Sized(RequestMessage(ConfirmId, 8, ConfirmTopic), 8, 238)
<1>0. 50 \in 0..511 /\ 8 \in {4, 8, 9} /\ TRUE \in BOOLEAN /\ Kinded(8, 6) /\ KindOf(8, 6) = "confirm"   BY DEF Kinded, KindOf
<1>1. PICK inner : TopicTells(ConfirmTopic, 6, inner)   BY FixedTopics
<1>2. Sized(ConfirmTopic, 0, 212)   BY <1>1 DEF TopicTells
<1>3. PICK b : b = RequestMessage(50, 8, ConfirmTopic)   OBVIOUS
<1>4. Sized(b, 8, 238)   BY <1>0, <1>2, <1>3, MessageCarries
<1>5. Requested(Parse(b, TRUE).fields, 50, 8, ConfirmTopic)   BY <1>0, <1>2, <1>3, MessageTells
<1>6. KindRead(b) = "confirm"   BY <1>0, <1>1, <1>5, KindIs
<1>7. ReadRequest(b).kind = "confirm"   BY <1>6 DEF ReadRequest, RequestOf
<1> QED  BY <1>3, <1>4, <1>7 DEF ConfirmId

---------------------------------------------------------------------------
(* ... and what is made of them in a frame and over the cloud.            *)

\* It reads the same from a frame.
LEMMA FrameRead ==
    ASSUME NEW b, Sized(b, 8, 238)
    PROVE  ReadFrame(EncodeFrame(BleRequest(b))) = ReadRequest(b)
<1>0. 1 \in 1..10 /\ TRUE \in BOOLEAN   OBVIOUS
<1>1. PICK payload : payload = BleRequest(b)   OBVIOUS
<1>2. payload = BytesField(1, b)   BY <1>1 DEF BleRequest
<1>3. PICK fs : fs = Parse(payload, TRUE).fields   OBVIOUS
<1>4. LastBytes(fs, 1) = b /\ Sized(payload, 0, 255)   BY <1>0, <1>2, <1>3, WithinOne
<1>5. DecodeFrame(EncodeFrame(payload)) = [payload |-> payload, ok |-> TRUE]   BY <1>4, FrameOf
<1>6. DecodeFrame(EncodeFrame(payload)).payload = payload   BY <1>5
<1>7. Within(payload, 1) = b   BY <1>3, <1>4 DEF Within
<1> QED  BY <1>1, <1>6, <1>7 DEF ReadFrame

\* extract_request_id_from_payload finds the id of a request ...
LEMMA RequestFound ==
    ASSUME NEW find, \A x \in Seq(Byte) : FindRequest(x) = find[x] /\ find[x] = FindStep(find, x),
           NEW r \in AskedRequests, r.via = "ble" \/ Plain(r.values)
    PROVE  FindRequest(RequestBytes(r, r.via)) = r.id /\ r.id # None
<1>0. FALSE \in BOOLEAN   OBVIOUS
<1>1. PICK n, k, topic, inner : MessageOf(r, n, k, topic, inner)   BY RequestIs
<1>2. r.id \in 0..511 /\ r.id # None
  <2>1. PICK i \in 1..511 : i = r.id   BY AsksKinds
  <2>2. i \in 0..511 /\ i # -1   BY ONLY i \in 1..511
  <2> QED  BY ONLY <2>1, <2>2 DEF None
<1>3. n \in {4, 8, 9}   BY <1>1, KindedNumbers DEF MessageOf
<1>4. Sized(topic, 0, 212)   BY <1>1 DEF MessageOf, TopicTells
<1>5. PICK b : b = RequestBytes(r, r.via)   OBVIOUS
<1>6. b = RequestMessage(r.id, n, topic)   BY <1>1, <1>5 DEF MessageOf
<1>7. b \in Seq(Byte)   BY <1>5, RequestRead DEF Sized
<1>8. Requested(Parse(b, FALSE).fields, r.id, n, topic)   BY <1>0, <1>2, <1>3, <1>4, <1>6, MessageTells
<1>9. FirstNum(Parse(b, FALSE).fields, 1) = r.id /\ FirstNum(Parse(b, FALSE).fields, 3) = 7   BY <1>8 DEF Requested
<1>10. FindStep(find, b) = r.id
  <2>1. 7 # None   BY DEF None
  <2> QED  BY ONLY <1>2, <1>9, <2>1 DEF FindStep
<1> QED  BY <1>2, <1>5, <1>7, <1>10

\* ... and that of a wrapped one.
LEMMA WrappedFound ==
    ASSUME NEW find, \A x \in Seq(Byte) : FindRequest(x) = find[x] /\ find[x] = FindStep(find, x),
           NEW b, Sized(b, 8, 238), FindRequest(b) # None
    PROVE  FindRequest(BytesField(2, b)) = FindRequest(b)
<1>0. 2 \in 1..10 /\ FALSE \in BOOLEAN /\ 1 \in Nat   OBVIOUS
<1>1. PICK c, fs, x : c = BytesField(2, b) /\ fs = Parse(c, FALSE).fields /\ x = Field(2, 2, 0, b)   OBVIOUS
<1>2. IsOne(fs, x) /\ Sized(c, 0, 255)
  <2>1. PICK n \in 1..10 : n = 2   BY <1>0
  <2>3. PICK strict \in BOOLEAN : strict = FALSE   OBVIOUS
  <2>2. fs = Parse(BytesField(n, b), strict).fields /\ c = BytesField(n, b) /\ x = Field(n, 2, 0, b)   BY <1>1, <2>1, <2>3
  <2> QED  BY <2>2, WithinOne
<1>3. x.field = 2 /\ x.type = 2 /\ x.bytes = b   BY <1>1 DEF Field
<1>4. Where(fs, 1, 0) = {}   BY <1>2, <1>3, WhereInOne
<1>5. FirstNum(fs, 1) = None   BY <1>4, NoNum
<1>6. b \in Seq(Byte) /\ c \in Seq(Byte) /\ Len(b) >= 8   BY <1>2 DEF Sized
<1>7. DOMAIN fs = {1} /\ fs[1] = x   BY <1>2 DEF IsOne
<1>8. Nested(fs) = {1}
  <2>1. Len(b) > 2   BY <1>6
  <2> QED  BY <1>3, <1>7, <2>1 DEF Nested
<1>9. find[b] = FindRequest(b)   BY <1>6
<1>10. FoundIn(find, fs) = {1}   BY <1>3, <1>7, <1>8, <1>9 DEF FoundIn
<1>11. Min({1}) = 1   BY <1>0, OnlyOne
<1>12. FindStep(find, c) = find[fs[Min(FoundIn(find, fs))].bytes]   BY <1>1, <1>5, <1>10 DEF FindStep
<1>13. FindStep(find, c) = find[b]   BY <1>3, <1>7, <1>10, <1>11, <1>12
<1> QED  BY <1>1, <1>6, <1>9, <1>13

\* Over the cloud the vehicle reads what was asked, and the client files the request
\* under the id that the vehicle reads.
LEMMA CloudRead ==
    ASSUME NEW r \in AskedRequests, r.via = "cloud", Plain(r.values)
    PROVE  ReadCloud(CloudPayload(r), Wraps(r)) = [kind |-> r.kind, id |-> r.id, values |-> r.values]
<1>0. 2 \in 1..10 /\ TRUE \in BOOLEAN   OBVIOUS
<1>1. PICK find : \A x \in Seq(Byte) : FindRequest(x) = find[x] /\ find[x] = FindStep(find, x)   BY FindRequestUnfolds
<1>2. PICK b : b = RequestBytes(r, "cloud")   OBVIOUS
<1>3. FindRequest(b) = r.id /\ r.id # None   BY <1>1, <1>2, RequestFound
<1>4. ReadRequest(b) = [kind |-> r.kind, id |-> r.id, values |-> r.values] /\ Sized(b, 8, 238)   BY <1>2, RequestRead
<1>5. CASE Wraps(r)
  <2>1. CloudPayload(r) = BytesField(2, b)   BY <1>2, <1>5 DEF CloudPayload, CloudRequest
  <2>2. PICK c, fs : c = BytesField(2, b) /\ fs = Parse(c, TRUE).fields   OBVIOUS
  <2>3. LastBytes(fs, 2) = b   BY <1>0, <1>4, <2>2, WithinOne
  <2>4. Within(c, 2) = b   BY <2>2, <2>3 DEF Within
  <2>5. FindRequest(c) = r.id   BY <1>1, <1>3, <1>4, <2>2, WrappedFound
  <2>6. ReadCloud(c, Wraps(r)) = [ReadRequest(b) EXCEPT !.id = r.id]   BY <1>5, <2>4, <2>5 DEF ReadCloud
  <2> QED  BY <1>4, <2>1, <2>2, <2>6
<1>6. CASE ~Wraps(r)
  <2>1. CloudPayload(r) = b   BY <1>2, <1>6 DEF CloudPayload, CloudRequest
  <2>2. ReadCloud(b, Wraps(r)) = [ReadRequest(b) EXCEPT !.id = r.id]   BY <1>3, <1>6 DEF ReadCloud
  <2> QED  BY <1>4, <2>1, <2>2
<1> QED  BY <1>5, <1>6

---------------------------------------------------------------------------
(* Commands are understood, in every state.                               *)

\* The inductive invariant: a request that waits has no result yet.
HeardInv == CommandIsUnderstood /\ (open => result = NoResult)

\* A request is asked.
LEMMA AskIsUnderstood ==
    ASSUME AskedInv, NEW q \in Asks, Ask(q[1], q[2], q[3])
    PROVE  HeardInv'
<1>1. PICK n \in Nat : n = Len(asked)   BY DEF AskedInv
<1>2. MaxRequests \in Nat   BY WireAssumption DEF WireConstants
<1>3. n + 1 \in 1..MaxRequests   BY <1>1, <1>2 DEF Ask
<1>4. PICK r : r = [kind |-> q[1], id |-> RequestId(n + 1), values |-> q[2], via |-> q[3]]   OBVIOUS
<1>5. r \in AskedRequests   BY <1>3, <1>4 DEF AskedRequests
<1>6. asked' = Append(asked, r)   BY <1>1, <1>4 DEF Ask
<1>7. asked \in Seq(AskedRequests)   BY DEF AskedInv
<1>8. Len(asked') = n + 1 /\ asked'[n + 1] = r   BY <1>1, <1>5, <1>6, <1>7, AppendProperties
<1>9. Current' = r   BY <1>8 DEF Current, Last
<1>10. result' = NoResult   BY DEF Ask
<1>11. heard' = IF r.via = "ble" THEN ReadFrame(EncodeFrame(BleRequest(RequestBytes(r, r.via))))
                ELSE ReadCloud(CloudPayload(r), Wraps(r))
  BY <1>1, <1>4 DEF Ask
<1>12. ASSUME r.via = "ble" \/ Plain(r.values)
       PROVE  heard' = [kind |-> r.kind, id |-> r.id, values |-> r.values]
  <2>1. CASE r.via = "ble"   BY <1>5, <1>11, <1>12, <2>1, RequestRead, FrameRead
  <2>2. CASE r.via # "ble"
    <3>1. r.via = "cloud"   BY <1>5, <2>2, AsksKinds
    <3> QED  BY <1>5, <1>11, <1>12, <2>2, <3>1, CloudRead
  <2> QED  BY <2>1, <2>2
<1> QED  BY <1>9, <1>10, <1>12 DEF HeardInv, CommandIsUnderstood

\* A frame is looked at: a pairing that has its tokens is confirmed.
LEMMA TakeIsUnderstood ==
    ASSUME HeardInv, Take
    PROVE  HeardInv'
<1>1. PICK z : z = BleResponse(Head(frames))   OBVIOUS
<1>2. /\ open /\ asked' = asked /\ open' = ~Matches(z)
      /\ result' = IF Matches(z) THEN ResultOf(z) ELSE result
      /\ heard' = IF Matches(z) /\ Current.kind = "pair" /\ result' # NoResult THEN ReadFrame(Confirmation) ELSE heard
  BY <1>1 DEF Take
<1>3. result = NoResult   BY <1>2 DEF HeardInv
<1>4. Current' = Current   BY <1>2 DEF Current
<1>5. CASE Matches(z) /\ Current.kind = "pair" /\ result' # NoResult
  <2>1. heard' = ReadFrame(Confirmation)   BY <1>2, <1>5
  <2>2. heard'.kind = "confirm"   BY <2>1, ConfirmationRead, FrameRead DEF Confirmation
  <2>3. open' = FALSE   BY <1>2, <1>5
  <2> QED  BY <1>4, <1>5, <2>2, <2>3 DEF HeardInv, CommandIsUnderstood
<1>6. CASE Matches(z) /\ ~(Current.kind = "pair" /\ result' # NoResult)
  <2>1. heard' = heard /\ open' = FALSE   BY <1>2, <1>6
  <2> QED  BY <1>2, <1>3, <1>4, <1>6, <2>1 DEF HeardInv, CommandIsUnderstood
<1>7. CASE ~Matches(z)
  <2>1. heard' = heard /\ result' = result   BY <1>2, <1>7
  <2> QED  BY <1>2, <1>3, <1>4, <2>1 DEF HeardInv, CommandIsUnderstood
<1> QED  BY <1>5, <1>6, <1>7

\* Every step keeps the invariant.
LEMMA HeardStep == AskedInv /\ HeardInv /\ [WireNext]_wireVars => HeardInv'
<1> SUFFICES ASSUME AskedInv, HeardInv, [WireNext]_wireVars PROVE HeardInv'   OBVIOUS
<1>1. ASSUME UNCHANGED <<asked, heard, result>>, open' => open PROVE HeardInv'
  <2>1. Current' = Current   BY <1>1 DEF Current
  <2> QED  BY <1>1, <2>1 DEF HeardInv, CommandIsUnderstood
<1>2. ASSUME NEW q \in Asks, Ask(q[1], q[2], q[3]) PROVE HeardInv'   BY <1>2, AskIsUnderstood
<1>3. ASSUME NEW noise, NEW payload, Transmit(noise, payload) PROVE HeardInv'   BY <1>1, <1>3 DEF Transmit
<1>4. ASSUME NEW n, Receive(n) PROVE HeardInv'   BY <1>1, <1>4 DEF Receive
<1>5. ASSUME Take PROVE HeardInv'   BY <1>5, TakeIsUnderstood
<1>6. ASSUME TearDown PROVE HeardInv'   BY <1>1, <1>6 DEF TearDown
<1>7. ASSUME NEW r, Report(r) PROVE HeardInv'
  <2>1. asked' = asked /\ asked = <<>> /\ open' = open /\ result' = result   BY <1>7 DEF Report
  <2> QED  BY <2>1 DEF HeardInv, CommandIsUnderstood
<1>8. ASSUME UNCHANGED wireVars PROVE HeardInv'   BY <1>1, <1>8 DEF wireVars
<1>9. \A q \in Asks : Ask(q[1], q[2], q[3]) => HeardInv'   BY <1>2
<1> QED  BY <1>9, <1>3, <1>4, <1>5, <1>6, <1>7, <1>8 DEF WireNext, Push, Answer

\* What the vehicle reads of every command is what was asked, of every slot and in order,
\* over both transports, and a pairing is confirmed once it has its tokens and only then
\* (ble_pia.py:219, pia_decoder.py:378, ble_transport.py:252).
THEOREM CommandsAreUnderstood == WireSpec => []CommandIsUnderstood
<1>1. WireInit => AskedInv /\ HeardInv
  <2>1. WireInit => HeardInv   BY DEF WireInit, HeardInv, CommandIsUnderstood
  <2> QED  BY <2>1, StreamStarts
<1>2. AskedInv /\ HeardInv /\ [WireNext]_wireVars => (AskedInv /\ HeardInv)'   BY AskedStep, HeardStep
<1>3. HeardInv => CommandIsUnderstood   BY DEF HeardInv
<1> QED  BY <1>1, <1>2, <1>3, PTL DEF WireSpec

---------------------------------------------------------------------------
(* Reports.  An entry is read back: its fields ...                        *)

\* A reported value is of one of four kinds, each with numbers that its field can hold.
LEMMA ReportableKinds ==
    ASSUME NEW v, Reportable(v)
    PROVE  \/ v.kind = "int" /\ v.v \in 0..255 /\ v = Value("int", v.v, <<>>)
           \/ v.kind = "bool" /\ v.v \in {0, 1} /\ v = Value("bool", v.v, <<>>)
           \/ v.kind = "float" /\ v.v \in Byte /\ v = Value("float", v.v, <<>>)
           \/ v.kind = "str" /\ Sized(v.s, 0, 200) /\ Printable(v.s) /\ v = Value("str", 0, v.s)
<1>1. v \in Values /\ v.kind # "name" /\ v.v >= 0 /\ Len(v.s) <= 200 /\ (v.kind = "str" => Printable(v.s))
  BY DEF Reportable, MaxSlotsBytes
<1>2. CASE v.kind = "int" /\ v.v \in -256..255 /\ v = Value("int", v.v, <<>>)
  <2>1. PICK k \in -256..255 : k = v.v   BY <1>2
  <2>2. k >= 0   BY <1>1, <2>1
  <2>3. k \in 0..255   BY <2>2
  <2> QED  BY <1>2, <2>1, <2>3
<1>3. CASE v.kind \in {"str", "name"} /\ v.s \in Seq(Byte) /\ v = Value(v.kind, 0, v.s)
  <2>1. v.kind = "str"   BY <1>1, <1>3
  <2>2. Sized(v.s, 0, 200)   BY <1>1, <1>3 DEF Sized
  <2> QED  BY <1>1, <1>3, <2>1, <2>2
<1> QED  BY <1>1, <1>2, <1>3, ValueKinds

\* Every value of an entry is read back.
LEMMA ValueCarried ==
    ASSUME NEW v, Reportable(v), NEW n \in {3, 7}
    PROVE  Carried(ReportedValue(v, n), ValueField(v, n))
<1>0. n \in 0..63   OBVIOUS
<1>1. PICK four \in 0..63, five \in 0..63, six \in 0..63, max \in 0..511 : four = 4 /\ five = 5 /\ six = 6 /\ max = 200
  OBVIOUS
<1>2. CASE v.kind = "int" /\ v.v \in 0..255
  <2>1. PICK w \in 0..511 : w = v.v   BY <1>2
  <2>2. Carried(VarintField(n, w), Field(n, 0, w, <<>>))   BY Zenon, <1>0, VarintCarried
  <2> QED  BY <1>2, <2>1, <2>2 DEF ReportedValue, ValueField
<1>3. CASE v.kind = "bool" /\ v.v \in {0, 1}
  <2>1. PICK w \in 0..511 : w = v.v   BY <1>3
  <2>2. Carried(VarintField(five, w), Field(five, 0, w, <<>>))   BY Zenon, VarintCarried
  <2> QED  BY <1>1, <1>3, <2>1, <2>2 DEF ReportedValue, ValueField
<1>4. CASE v.kind = "float" /\ v.v \in Byte
  <2>2. Carried(FloatField(six, v.v), Field(six, 5, v.v, <<>>))   BY <1>4, FloatCarried
  <2> QED  BY <1>1, <1>4, <2>2 DEF ReportedValue, ValueField
<1>5. CASE v.kind = "str" /\ Sized(v.s, 0, 200)
  <2>1. Sized(v.s, 0, max)   BY <1>1, <1>5
  <2>2. Carried(BytesField(four, v.s), Field(four, 2, 0, v.s))   BY Zenon, <2>1, BytesCarried
  <2> QED  BY <1>1, <1>5, <2>2 DEF ReportedValue, ValueField
<1> QED  BY <1>2, <1>3, <1>4, <1>5, ReportableKinds

\* An entry is read back as its slot, its bus and its values, in order, and is longer
\* than the two bytes a nested message has to exceed.
LEMMA EntryCarries ==
    ASSUME NEW e, Reported(e)
    PROVE  Sized(EntryBytes(e), 4, 200) /\ \E fs : Carries(EntryBytes(e), fs) /\ EntryFields(fs, e)
<1>1. PICK n \in Nat : n = Len(e.values) /\ DOMAIN e.values = 1..n   BY DEF Reported
<1>2. PICK S, F : S = [i \in 1..n |-> ReportedValue(e.values[i], e.intField)]
                  /\ F = [i \in 1..n |-> ValueField(e.values[i], e.intField)]
  OBVIOUS
<1>3. \A i \in 1..n : Carried(ReportedValue(e.values[i], e.intField), ValueField(e.values[i], e.intField))
  <2> TAKE i \in 1..n
  <2>1. Reportable(e.values[i]) /\ e.intField \in {3, 7}   BY <1>1 DEF Reported
  <2> QED  BY <2>1, ValueCarried
<1>4. S \in [1..n -> Seq(Byte)] /\ F \in [1..n -> FieldType] /\ \A i \in 1..n : Carries(S[i], One(F[i]))
  BY <1>2, <1>3 DEF Carried
<1>5. PICK v : v = FlattenSeq(S)   OBVIOUS
<1>6. Carries(v, F)   BY <1>4, <1>5, FlattenCarries
<1>7. PICK one \in 0..63, two \in 0..63, x \in 0..511, y \in 0..511 : one = 1 /\ two = 2 /\ x = e.sid /\ y = e.bus
  <2>1. e.sid \in 0..511 /\ e.bus \in 0..511   BY DEF Reported, SlotLimit
  <2>2. 1 \in 0..63 /\ 2 \in 0..63   OBVIOUS
  <2> QED  BY <2>1, <2>2, ZenonT(40)
<1>8. PICK f, g, a, b :
          /\ f \in FieldType /\ g \in FieldType
          /\ f = Field(1, 0, e.sid, <<>>) /\ g = Field(2, 0, e.bus, <<>>)
          /\ a = VarintField(1, e.sid) /\ b = VarintField(2, e.bus) /\ Carries(a, One(f)) /\ Carries(b, One(g))
  <2>1. Carried(VarintField(one, x), Field(one, 0, x, <<>>)) /\ Carried(VarintField(two, y), Field(two, 0, y, <<>>))
    BY Zenon, VarintCarried
  <2> QED  BY <1>7, <2>1 DEF Carried
<1>9. Carries(a \o b, One(f) \o One(g))   BY <1>8, CarriesJoin
<1>10. PICK h, ab : h = One(f) \o One(g) /\ ab = a \o b   OBVIOUS
<1>11. IsTwo(h, f, g)   BY <1>8, <1>10, TwoIs
<1>12. Carries(ab \o v, h \o F)   BY <1>6, <1>9, <1>10, CarriesJoin
<1>13. EntryBytes(e) = ab \o v   BY <1>1, <1>2, <1>5, <1>8, <1>10 DEF EntryBytes
<1>14. PICK fs : fs = h \o F   OBVIOUS
<1>15. F \in Seq(FieldType) /\ Len(F) = n   BY <1>4
<1>16. FieldsJoined(fs, h, F)   BY <1>11, <1>14, <1>15, FieldsJoin DEF IsTwo
<1>17. /\ fs \in Seq(FieldType) /\ Len(fs) = 2 + n /\ fs[1] = f /\ fs[2] = g
       /\ \A i \in 1..n : fs[2 + i] = F[i]
  BY <1>11, <1>15, <1>16 DEF FieldsJoined, IsTwo
<1>18. EntryFields(fs, e)   BY <1>1, <1>2, <1>8, <1>17 DEF EntryFields
<1>19. Sized(EntryBytes(e), 4, 200)
  <2>1. Sized(a, 2, 6) /\ Sized(b, 2, 6)
    <3>1. Sized(VarintField(one, x), 2, 6) /\ Sized(VarintField(two, y), 2, 6)   BY Zenon, VarintFieldSized
    <3> QED  BY <1>7, <1>8, <3>1
  <2>2. PICK l \in Nat, h6 \in Nat : l = 2 /\ h6 = 6   OBVIOUS
  <2>3. Sized(ab, l + l, h6 + h6)   BY <1>10, <2>1, <2>2, SizedJoin
  <2>4. PICK k \in Nat : k = Len(v) /\ v \in Seq(Byte)   BY <1>6 DEF Carries
  <2>5. Sized(v, 0, k)   BY <2>4 DEF Sized
  <2>6. PICK z \in Nat : z = 0   OBVIOUS
  <2>7. l + l \in Nat /\ h6 + h6 \in Nat   OBVIOUS
  <2>8. Sized(ab \o v, (l + l) + z, (h6 + h6) + k)   BY <2>3, <2>5, <2>6, <2>7, SizedJoin
  <2>9. (l + l) + z = 4   BY <2>2, <2>6
  <2>10. Len(EntryBytes(e)) <= 200   BY DEF Reported, MaxSlotsBytes
  <2> QED  BY <1>13, <2>8, <2>9, <2>10 DEF Sized
<1> QED  BY <1>12, <1>13, <1>14, <1>18, <1>19

---------------------------------------------------------------------------
(* ... and its value.                                                     *)

\* The field a value is written in tells that value.
LEMMA ValueFieldTells ==
    ASSUME NEW v, Reportable(v), NEW n \in {3, 7}
    PROVE  TellsValue(ValueField(v, n), v, n)
<1>1. PICK f : f = ValueField(v, n)   OBVIOUS
<1>2. CASE v.kind = "int" /\ v = Value("int", v.v, <<>>)
  <2>1. f = Field(n, 0, v.v, <<>>)   BY <1>1, <1>2 DEF ValueField
  <2>2. f.field = n /\ f.type = 0 /\ f.num = v.v   BY <2>1 DEF Field
  <2> QED  BY <1>1, <1>2, <2>2 DEF TellsValue
<1>3. CASE v.kind = "bool" /\ v.v \in {0, 1} /\ v = Value("bool", v.v, <<>>)
  <2>1. f = Field(5, 0, v.v, <<>>)   BY <1>1, <1>3 DEF ValueField
  <2>2. f.field = 5 /\ f.type = 0 /\ f.num = v.v   BY <2>1 DEF Field
  <2> QED  BY <1>1, <1>3, <2>2 DEF TellsValue
<1>4. CASE v.kind = "float" /\ v = Value("float", v.v, <<>>)
  <2>1. f = Field(6, 5, v.v, <<>>)   BY <1>1, <1>4 DEF ValueField
  <2>2. f.field = 6 /\ f.type = 5 /\ f.num = v.v   BY <2>1 DEF Field
  <2> QED  BY <1>1, <1>4, <2>2 DEF TellsValue
<1>5. CASE v.kind = "str" /\ Printable(v.s) /\ v = Value("str", 0, v.s)
  <2>1. f = Field(4, 2, 0, v.s)   BY <1>1, <1>5 DEF ValueField
  <2>2. f.field = 4 /\ f.type = 2 /\ f.bytes = v.s   BY <2>1 DEF Field
  <2> QED  BY <1>1, <1>5, <2>2 DEF TellsValue
<1> QED  BY <1>2, <1>3, <1>4, <1>5, ReportableKinds

\* The fields of an entry: two for the slot and the bus, and one for each value.
LEMMA EntryLaid ==
    ASSUME NEW e, Reported(e), NEW fs, EntryFields(fs, e)
    PROVE  \E n : Entered(fs, e, n)
<1>1. PICK n \in Nat : n = Len(e.values) /\ DOMAIN e.values = 1..n /\ n # 0   BY DEF Reported
<1>2. fs \in Seq(FieldType) /\ Len(fs) = 2 + n /\ DOMAIN fs = 1..(2 + n)   BY <1>1 DEF EntryFields
<1>3. e.intField \in {3, 7} /\ e.sid \in 0..5 /\ e.bus \in 0..5   BY DEF Reported, SlotLimit
<1>4. \A i \in 1..n : TellsValue(fs[2 + i], e.values[i], e.intField)
  <2> TAKE i \in 1..n
  <2>1. Reportable(e.values[i])   BY <1>1 DEF Reported
  <2>2. fs[2 + i] = ValueField(e.values[i], e.intField)   BY <1>1 DEF EntryFields
  <2> QED  BY <1>3, <2>1, <2>2, ValueFieldTells
<1>5. \A i, j \in 1..n : e.values[i].kind = e.values[j].kind => i = j   BY <1>1 DEF Reported
<1>6. fs[1] = Field(1, 0, e.sid, <<>>) /\ fs[2] = Field(2, 0, e.bus, <<>>)   BY DEF EntryFields
<1>7. Entered(fs, e, n)   BY <1>1, <1>2, <1>3, <1>4, <1>5, <1>6 DEF Entered
<1> QED  BY <1>7

\* The expected value is the first in that order too, and none when it is the sentinel.
LEMMA ExpectedIs ==
    ASSUME NEW fs, NEW e, NEW n, Entered(fs, e, n)
    PROVE  \E v : /\ FirstOf(OfKind(e, "str"), OfKind(e, "float"), OfKind(e, "int"), OfKind(e, "bool")) = {v}
                  /\ Expected(e) = IF IsSentinel(v) THEN {} ELSE {<<<<e.bus, e.sid>>, v>>}
<1>1. Kinds = <<"str", "float", "int", "bool">>   BY DEF Kinds
<1>2. DOMAIN Kinds = 1..4 /\ Kinds[1] = "str" /\ Kinds[2] = "float" /\ Kinds[3] = "int" /\ Kinds[4] = "bool"   BY <1>1
<1>3. \E k \in 1..4 : OfKind(e, Kinds[k]) # {}
  <2>1. 1 \in 1..n /\ TellsValue(fs[2 + 1], e.values[1], e.intField)   BY DEF Entered
  <2>2. e.values[1].kind \in {"str", "float", "int", "bool"}   BY <2>1 DEF TellsValue
  <2>3. OfKind(e, e.values[1].kind) # {}   BY <2>1, OfKindIs DEF Holds
  <2>4. \E k \in 1..4 : Kinds[k] = e.values[1].kind   BY <1>2, <2>2
  <2> QED  BY <2>3, <2>4
<1> DEFINE K == {k \in 1..4 : OfKind(e, Kinds[k]) # {}}
<1>4. PICK first \in K : \A k \in K : first <= k
  <2>1. K \in SUBSET Nat /\ K # {}   BY <1>3
  <2> HIDE DEF K
  <2> QED  BY <2>1, LeastNat
<1>5. first \in 1..4 /\ OfKind(e, Kinds[first]) # {} /\ \A j \in 1..(first - 1) : OfKind(e, Kinds[j]) = {}
  <2>1. \A j \in 1..(first - 1) : j \in 1..4 /\ ~(first <= j)   OBVIOUS
  <2> QED  BY <1>4, <2>1
<1>6. PICK v : OfKind(e, Kinds[first]) = {v}   BY <1>5, OneOfKind
<1>7. FirstOf(OfKind(e, "str"), OfKind(e, "float"), OfKind(e, "int"), OfKind(e, "bool")) = {v}
  <2>1. CASE first = 1   BY <1>2, <1>6, <2>1 DEF FirstOf
  <2>2. CASE first = 2
    <3>1. 1 \in 1..(first - 1)   BY <2>2
    <3> QED  BY <1>2, <1>5, <1>6, <2>2, <3>1 DEF FirstOf
  <2>3. CASE first = 3
    <3>1. 1 \in 1..(first - 1) /\ 2 \in 1..(first - 1)   BY <2>3
    <3> QED  BY <1>2, <1>5, <1>6, <2>3, <3>1 DEF FirstOf
  <2>4. CASE first = 4
    <3>1. 1 \in 1..(first - 1) /\ 2 \in 1..(first - 1) /\ 3 \in 1..(first - 1)   BY <2>4
    <3> QED  BY <1>2, <1>5, <1>6, <2>4, <3>1 DEF FirstOf
  <2> QED  BY <1>5, <2>1, <2>2, <2>3, <2>4
<1> DEFINE Is(i) == OfKind(e, Kinds[i]) # {} /\ \A j \in 1..(i - 1) : OfKind(e, Kinds[j]) = {}
<1>8. first = CHOOSE i \in DOMAIN Kinds : Is(i)
  <2>1. first \in DOMAIN Kinds /\ Is(first)   BY <1>2, <1>5
  <2>2. ASSUME NEW i \in DOMAIN Kinds, Is(i) PROVE i = first
    <3>1. i \in 1..4 /\ first \in 1..4   BY <1>2, <1>5
    <3>2. CASE i < first
      <4>1. i \in 1..(first - 1)   BY <3>1, <3>2
      <4> QED  BY <1>5, <2>2, <4>1
    <3>3. CASE first < i
      <4>1. first \in 1..(i - 1)   BY <3>1, <3>3
      <4> QED  BY <1>5, <2>2, <4>1
    <3> QED  BY <3>1, <3>2, <3>3
  <2> HIDE DEF Is
  <2> QED  BY <2>1, <2>2
<1>9. v = CHOOSE w \in OfKind(e, Kinds[first]) : TRUE   BY <1>6
<1>10. Expected(e) = IF IsSentinel(v) THEN {} ELSE {<<<<e.bus, e.sid>>, v>>}
  BY <1>8, <1>9 DEF Expected, OfKind, IsSentinel
<1> QED  BY <1>7, <1>10

\* An entry is read as the slot it holds.
LEMMA EntryIsRead ==
    ASSUME NEW fs, NEW e, NEW n, Entered(fs, e, n)
    PROVE  {<<<<FirstNum(fs, 2), FirstNum(fs, 1)>>, v>> : v \in ValueOf(fs)} = Expected(e)
<1>1. PICK v : /\ FirstOf(OfKind(e, "str"), OfKind(e, "float"), OfKind(e, "int"), OfKind(e, "bool")) = {v}
               /\ Expected(e) = IF IsSentinel(v) THEN {} ELSE {<<<<e.bus, e.sid>>, v>>}
  BY ExpectedIs
<1>2. Preferred(fs) = {v}   BY <1>1, PreferredIs
<1>3. ValueOf(fs) = IF IsSentinel(v) THEN {} ELSE {v}   BY <1>2 DEF ValueOf, IsSentinel
<1>4. FirstNum(fs, 1) = e.sid /\ FirstNum(fs, 2) = e.bus   BY WhereHead
<1> QED  BY <1>1, <1>3, <1>4

---------------------------------------------------------------------------
(* The slots of a report: entries, lists and wrappers.                    *)

\* What is found of an entry at a depth.
EntryAt(e, depth, known) == IF Near(e, depth, known) THEN Expected(e) ELSE {}

\* A visit to an entry finds it where it may be read, and otherwise nothing: its values
\* hide no slot.
LEMMA EntryVisited ==
    ASSUME NEW e, Reported(e), NEW d \in 0..5, NEW f, NEW known, SlotsUnfold(f, known)
    PROVE  f[<<EntryBytes(e), d>>] = EntryAt(e, d, known)
<1>0. FALSE \in BOOLEAN   OBVIOUS
<1>1. PICK b, fs : b = EntryBytes(e) /\ Carries(b, fs) /\ EntryFields(fs, e)   BY EntryCarries
<1>2. PICK n : Entered(fs, e, n)   BY <1>1, EntryLaid
<1>3. b \in Seq(Byte) /\ Parse(b, FALSE).fields = fs   BY <1>0, <1>1, CarriesParsed DEF Carries
<1>4. PICK p : p = <<b, d>>   OBVIOUS
<1>5. p \in Visit /\ p[1] = b /\ p[2] = d   BY <1>3, <1>4 DEF Visit
<1>6. f[p] = SlotsStep(f, p, known)   BY <1>5 DEF SlotsUnfold
<1>7. SlotHere(fs) = <<e.bus, e.sid>> /\ IsEntry(fs)   BY <1>2, WhereHead DEF SlotHere
<1>8. ReadsHere(fs, d, known) <=> Near(e, d, known)
  <2>1. e.bus < SlotLimit /\ e.sid < SlotLimit   BY <1>2 DEF Entered, SlotLimit
  <2> QED  BY <1>7, <2>1 DEF ReadsHere, InReach, Near
<1>9. ValuesHere(fs) = Expected(e)   BY <1>2, EntryIsRead DEF ValuesHere, SlotHere
<1>10. f[p] = IF Near(e, d, known) THEN Expected(e) ELSE UNION {f[<<fs[i].bytes, d + 1>>] : i \in Nested(fs)}
  <2>1. ~(d > 5)   OBVIOUS
  <2> QED  BY <1>3, <1>5, <1>6, <1>8, <1>9, <2>1 DEF SlotsStep
<1>11. ASSUME NEW i \in Nested(fs) PROVE f[<<fs[i].bytes, d + 1>>] = {}
  <2>1. fs[i].type = 2 /\ i \in 1..(2 + n) /\ fs \in Seq(FieldType) /\ n \in Nat \ {0}
    BY <1>1, <1>2 DEF Nested, Entered, EntryFields
  <2>2. i # 1 /\ i # 2   BY <1>2, <2>1 DEF Entered, Field
  <2>3. PICK j \in 1..n : i = 2 + j   BY <2>1, <2>2, PlacesLaid
  <2>4. TellsValue(fs[i], e.values[j], e.intField)   BY <1>2, <2>3 DEF Entered
  <2>5. Printable(fs[i].bytes)   BY <2>1, <2>4 DEF TellsValue
  <2>6. PICK t : t = fs[i].bytes   OBVIOUS
  <2>7. t \in Seq(Byte)
    <3>1. i \in DOMAIN fs   BY DEF Nested
    <3>2. fs[i] \in FieldType   BY <2>1, <3>1
    <3> QED  BY <2>6, <3>2 DEF FieldType
  <2>8. d + 1 \in 0..6   OBVIOUS
  <2> QED  BY <2>5, <2>6, <2>7, <2>8, TextVisited
<1>12. UNION {f[<<fs[i].bytes, d + 1>>] : i \in Nested(fs)} = {}   BY <1>11
<1> QED  BY <1>1, <1>4, <1>10, <1>12 DEF EntryAt

\* The entries of a report that a vehicle makes, and the fields around them
Entries(S) == IsFiniteSet(S) /\ (\A e \in S : Reported(e)) /\ Len(EntriesBytes(S)) <= 400
\* The fields of a report are its entries.
FieldsOf(F, n, S) ==
    /\ OfBytes(F, n) /\ \A i \in 1..n : F[i].field = 1
    /\ \A i \in 1..n : \E e \in S : F[i].bytes = EntryBytes(e)
    /\ \A e \in S : \E i \in 1..n : F[i].bytes = EntryBytes(e)

\* The entries of a report, one after the other, are read back.
LEMMA EntriesCarry ==
    ASSUME NEW S, Entries(S)
    PROVE  \E F, n : Carries(EntriesBytes(S), F) /\ FieldsOf(F, n, S)
<1>1. PICK q : q = SetToSeq(S)   OBVIOUS
<1>2. PICK n : Enumerates(q, n, S)   BY <1>1, EntriesEnumerated DEF Entries
<1>3. n \in Nat /\ q \in [1..n -> S] /\ \A e \in S : \E i \in 1..n : q[i] = e   BY <1>2 DEF Enumerates
<1>4. PICK B, F : /\ B = [i \in 1..n |-> BytesField(1, EntryBytes(q[i]))]
                  /\ F = [i \in 1..n |-> Field(1, 2, 0, EntryBytes(q[i]))]
  OBVIOUS
<1>5. PICK one \in 0..63, max \in 0..511 : one = 1 /\ max = 200   OBVIOUS
<1>6. ASSUME NEW i \in 1..n
      PROVE  /\ Carries(B[i], One(F[i])) /\ F[i] \in FieldType /\ B[i] \in Seq(Byte)
             /\ F[i].type = 2 /\ F[i].field = 1 /\ F[i].bytes = EntryBytes(q[i])
  <2>1. Reported(q[i])   BY <1>3 DEF Entries
  <2>2. PICK b : b = EntryBytes(q[i])   OBVIOUS
  <2>3. Sized(b, 4, 200)   BY <2>1, <2>2, EntryCarries
  <2>4. Sized(b, 0, max)   BY <1>5, <2>3 DEF Sized
  <2>5. Carried(BytesField(one, b), Field(one, 2, 0, b))   BY Zenon, <2>4, BytesCarried
  <2>6. B[i] = BytesField(one, b) /\ F[i] = Field(one, 2, 0, b)   BY <1>4, <1>5, <2>2
  <2>7. Field(one, 2, 0, b).type = 2 /\ Field(one, 2, 0, b).field = one /\ Field(one, 2, 0, b).bytes = b   BY DEF Field
  <2> QED  BY <1>5, <2>2, <2>5, <2>6, <2>7 DEF Carried
<1>7. B \in [1..n -> Seq(Byte)] /\ F \in [1..n -> FieldType] /\ \A i \in 1..n : Carries(B[i], One(F[i]))
  <2>1. \A i \in 1..n : F[i] \in FieldType /\ B[i] \in Seq(Byte)   BY <1>6
  <2>2. \A i \in 1..n : Carries(B[i], One(F[i]))   BY <1>6
  <2> QED  BY <1>4, <2>1, <2>2
<1>8. Carries(FlattenSeq(B), F)   BY <1>3, <1>7, FlattenCarries
<1>9. EntriesBytes(S) = FlattenSeq(B)
  <2>1. DOMAIN q = 1..n   BY <1>3
  <2> QED  BY <1>1, <1>4, <2>1 DEF EntriesBytes
<1>10. OfBytes(F, n)   BY <1>3, <1>6, <1>7 DEF OfBytes
<1>11. FieldsOf(F, n, S)
  <2>1. \A i \in 1..n : F[i].field = 1 /\ F[i].bytes = EntryBytes(q[i]) /\ q[i] \in S   BY <1>3, <1>6
  <2> QED  BY <1>3, <1>10, <2>1 DEF FieldsOf
<1> QED  BY <1>8, <1>9, <1>11

\* The bytes of the entries: none, or more than two
LEMMA EntriesSized ==
    ASSUME NEW S, Entries(S)
    PROVE  Sized(EntriesBytes(S), IF S = {} THEN 0 ELSE 3, 400)
<1>0. FALSE \in BOOLEAN   OBVIOUS
<1>1. PICK F, n, c : c = EntriesBytes(S) /\ Carries(c, F) /\ FieldsOf(F, n, S)   BY EntriesCarry
<1>2. c \in Seq(Byte) /\ F \in Seq(FieldType) /\ Parse(c, FALSE).fields = F   BY <1>0, <1>1, CarriesParsed DEF Carries
<1>3. Shorter(F, Len(c))   BY <1>0, <1>2, PartsAreShorter
<1>4. PICK k \in Nat : k = Len(c) /\ k <= 400   BY <1>1, <1>2 DEF Entries
<1>5. CASE S = {}   BY <1>1, <1>2, <1>4, <1>5 DEF Sized
<1>6. CASE S # {}
  <2>1. PICK e \in S : Reported(e)   BY <1>6 DEF Entries
  <2>2. PICK i \in 1..n : F[i].bytes = EntryBytes(e)   BY <1>1, <2>1 DEF FieldsOf
  <2>3. i \in 1..Len(F)
    <3>1. F \in [1..n -> FieldType] /\ n \in Nat   BY <1>1 DEF FieldsOf, OfBytes
    <3> QED  BY <2>2, <3>1
  <2>4. Len(F[i].bytes) < k   BY <1>3, <1>4, <2>3 DEF Shorter
  <2>5. PICK l \in Nat : l = Len(EntryBytes(e)) /\ l >= 4   BY <2>1, EntryCarries DEF Sized
  <2>6. k >= 3   BY <2>2, <2>4, <2>5
  <2> QED  BY <1>1, <1>2, <1>4, <1>6, <2>6 DEF Sized
<1> QED  BY <1>5, <1>6

\* The slots that are read of entries at a depth
SlotsAt(S, depth, known) == UNION {EntryAt(e, depth, known) : e \in S}

\* A visit to them finds what is found of each, one level down.
LEMMA EntriesVisited ==
    ASSUME NEW S, Entries(S), NEW d \in 0..4, NEW f, NEW known, SlotsUnfold(f, known)
    PROVE  f[<<EntriesBytes(S), d>>] = SlotsAt(S, d + 1, known)
<1>1. PICK F, n, c : c = EntriesBytes(S) /\ Carries(c, F) /\ FieldsOf(F, n, S)   BY EntriesCarry
<1>2. OfBytes(F, n)   BY <1>1 DEF FieldsOf
<1>3. PICK x \in 0..5, y \in 0..5 : x = d /\ y = d + 1
  <2>1. d \in 0..5 /\ d + 1 \in 0..5   OBVIOUS
  <2> QED  BY <2>1
<1>4. ReadBeneath(f, c, x, F, n)   BY <1>1, <1>2, ListVisited
<1>5. f[<<c, x>>] = Beneath(f, F, NestedIn(F, n), y)   BY <1>3, <1>4 DEF ReadBeneath
<1>6. ASSUME NEW i \in 1..n, NEW e \in S, F[i].bytes = EntryBytes(e)
      PROVE  f[<<F[i].bytes, y>>] = EntryAt(e, y, known) /\ Len(F[i].bytes) > 2
  <2>1. Reported(e)   BY DEF Entries
  <2>2. f[<<EntryBytes(e), y>>] = EntryAt(e, y, known)   BY <2>1, EntryVisited
  <2>3. PICK l \in Nat : l = Len(EntryBytes(e)) /\ l >= 4   BY <2>1, EntryCarries DEF Sized
  <2> QED  BY <1>6, <2>2, <2>3
<1>7. NestedIn(F, n) = 1..n
  <2>1. \A i \in 1..n : Len(F[i].bytes) > 2
    <3> TAKE i \in 1..n
    <3>1. PICK e \in S : F[i].bytes = EntryBytes(e)   BY <1>1 DEF FieldsOf
    <3> QED  BY <1>6, <3>1
  <2> QED  BY <2>1 DEF NestedIn
<1>8. Beneath(f, F, 1..n, y) = SlotsAt(S, y, known)
  <2>1. \A i \in 1..n : \E e \in S : f[<<F[i].bytes, y>>] = EntryAt(e, y, known)
    <3> TAKE i \in 1..n
    <3>1. PICK e \in S : F[i].bytes = EntryBytes(e)   BY <1>1 DEF FieldsOf
    <3> QED  BY <1>6, <3>1
  <2>2. \A e \in S : \E i \in 1..n : f[<<F[i].bytes, y>>] = EntryAt(e, y, known)
    <3> TAKE e \in S
    <3>1. PICK i \in 1..n : F[i].bytes = EntryBytes(e)   BY <1>1 DEF FieldsOf
    <3> QED  BY <1>6, <3>1
  <2> QED  BY <2>1, <2>2 DEF Beneath, SlotsAt
<1> QED  BY <1>1, <1>3, <1>5, <1>7, <1>8

\* The wrappers around the entries unfold.
LEMMA WrapUnfolds ==
    ASSUME NEW b, NEW n \in 0..4
    PROVE  \E w : w[n] = Wrapped(b, n) /\ \A i \in 0..n : w[i] = WrapStep(b, w, i)
<1>1. PICK b1, b2, b3, b4 : b1 = BytesField(9, b) /\ b2 = BytesField(9, b1) /\ b3 = BytesField(9, b2) /\ b4 = BytesField(9, b3)
  OBVIOUS
<1> DEFINE level(i) == IF i = 0 THEN b ELSE IF i = 1 THEN b1 ELSE IF i = 2 THEN b2 ELSE IF i = 3 THEN b3 ELSE b4
           g == [i \in 0..n |-> level(i)]
           wrap == CHOOSE w : w = [i \in 0..n |-> WrapStep(b, w, i)]
<1>2. \A i \in 0..n : level(i) = WrapStep(b, g, i)
  <2> TAKE i \in 0..n
  <2>1. CASE i = 0   BY <2>1 DEF WrapStep
  <2>2. CASE i # 0
    <3>1. i - 1 \in 0..n /\ i \in {1, 2, 3, 4}   BY <2>2
    <3>2. g[i - 1] = level(i - 1)   BY <3>1
    <3>3. level(i) = BytesField(9, level(i - 1))   BY <1>1, <3>1
    <3> HIDE DEF g, level
    <3> QED  BY <2>2, <3>2, <3>3 DEF WrapStep
  <2> QED  BY <2>1, <2>2
<1>3. g = [i \in 0..n |-> WrapStep(b, g, i)]
  <2> HIDE DEF level
  <2> QED  BY <1>2
<1>4. \E w : w = [i \in 0..n |-> WrapStep(b, w, i)]
  <2> HIDE DEF g
  <2> QED  BY <1>3
<1>5. wrap = [i \in 0..n |-> WrapStep(b, wrap, i)]   BY <1>4
<1>6. Wrapped(b, n) = wrap[n]   BY DEF Wrapped, WrapStep
<1> HIDE DEF wrap
<1>7. \A i \in 0..n : wrap[i] = WrapStep(b, wrap, i)   BY <1>5
<1> QED  BY <1>6, <1>7

\* The wrapped entries have lengths their varints can hold.
LEMMA WrapsAreSized ==
    ASSUME NEW S, Entries(S), NEW n \in 0..4, NEW w, \A i \in 0..n : w[i] = WrapStep(EntriesBytes(S), w, i)
    PROVE  WrapsSized(w, S, n)
<1>1. PICK lo \in 0..3 : lo = IF S = {} THEN 0 ELSE 3   OBVIOUS
<1>2. w[0] = EntriesBytes(S)   BY DEF WrapStep
<1>3. Sized(w[0], lo, 400)   BY <1>1, <1>2, EntriesSized
<1> DEFINE Good == {i \in Nat : i \in 0..n => Sized(w[i], lo, 400 + 6 * i)}
<1>4. 0 \in Good
  <2>1. 400 + 6 * 0 = 400   OBVIOUS
  <2> QED  BY <1>3, <2>1
<1>5. ASSUME NEW i \in 1..n, Sized(w[i - 1], lo, 400 + 6 * (i - 1))
      PROVE  Sized(w[i], lo, 400 + 6 * i) /\ Carries(w[i], One(Field(9, 2, 0, w[i - 1])))
  <2>1. w[i] = BytesField(9, w[i - 1])   BY DEF WrapStep
  <2>2. PICK hi \in 0..424 : hi = 400 + 6 * (i - 1)
    <3>1. i \in {1, 2, 3, 4}   OBVIOUS
    <3>2. 400 + 6 * (i - 1) \in 0..424   BY <3>1
    <3> QED  BY <3>2
  <2>3. hi + 6 = 400 + 6 * i   BY <2>2
  <2>4. PICK b : b = w[i - 1] /\ Sized(b, lo, hi)   BY SMTT(40), <1>5, <2>2
  <2>5. Sized(BytesField(9, b), lo, hi + 6) /\ Carries(BytesField(9, b), One(Field(9, 2, 0, b)))   BY <2>4, WrapSized
  <2> QED  BY <2>1, <2>3, <2>4, <2>5
<1>6. ASSUME NEW i \in Nat, i \in Good PROVE i + 1 \in Good
  <2> SUFFICES ASSUME i + 1 \in 0..n PROVE Sized(w[i + 1], lo, 400 + 6 * (i + 1))   OBVIOUS
  <2>1. PICK j \in 1..n : j = i + 1 /\ j - 1 = i /\ i \in 0..n   OBVIOUS
  <2>2. Sized(w[j - 1], lo, 400 + 6 * (j - 1))   BY <1>6, <2>1
  <2>3. Sized(w[j], lo, 400 + 6 * j)   BY <1>5, <2>2
  <2> QED  BY <2>1, <2>3
<1>7. Nat \subseteq Good
  <2> HIDE DEF Good
  <2>1. Good \in SUBSET Nat   BY DEF Good
  <2> QED  BY <1>4, <1>6, <2>1, Induction
<1>8. \A i \in 0..n : Sized(w[i], lo, 400 + 6 * i)   BY <1>7
<1>9. \A i \in 1..n : Carries(w[i], One(Field(9, 2, 0, w[i - 1])))
  <2> TAKE i \in 1..n
  <2>1. PICK j \in 0..n : j = i - 1   OBVIOUS
  <2>2. Sized(w[i - 1], lo, 400 + 6 * (i - 1))   BY <1>8, <2>1
  <2> QED  BY <1>5, <2>2
<1> QED  BY <1>1, <1>8, <1>9 DEF WrapsSized

\* A visit to the outermost wrapper finds what is found of the entries at their depth.
LEMMA WrapsVisited ==
    ASSUME NEW S, Entries(S), NEW n \in 0..4, NEW w, \A i \in 0..n : w[i] = WrapStep(EntriesBytes(S), w, i),
           NEW f, NEW known, SlotsUnfold(f, known)
    PROVE  f[<<w[n], 0>>] = SlotsAt(S, n + 1, known)
<1>1. WrapsSized(w, S, n)   BY WrapsAreSized
<1>2. w[0] = EntriesBytes(S)   BY DEF WrapStep
<1>3. S = {} => SlotsAt(S, n + 1, known) = {}   BY DEF SlotsAt
<1> DEFINE Good == {i \in Nat : i \in 0..n => f[<<w[i], n - i>>] = SlotsAt(S, n + 1, known)}
<1>4. 0 \in Good
  <2>1. PICK d \in 0..4 : d = n /\ n - 0 = d   OBVIOUS
  <2>2. f[<<EntriesBytes(S), d>>] = SlotsAt(S, d + 1, known)   BY EntriesVisited
  <2> QED  BY <1>2, <2>1, <2>2
<1>5. ASSUME NEW i \in Nat, i \in Good PROVE i + 1 \in Good
  <2> SUFFICES ASSUME i + 1 \in 0..n PROVE f[<<w[i + 1], n - (i + 1)>>] = SlotsAt(S, n + 1, known)   OBVIOUS
  <2>1. PICK j \in 1..n : j = i + 1 /\ j - 1 = i /\ i \in 0..n   OBVIOUS
  <2>2. PICK nine \in Nat, d \in 0..5 : nine = 9 /\ d = n - j /\ d + 1 = n - i
    <3>1. n - j \in 0..5 /\ (n - j) + 1 = n - i   BY <2>1
    <3> QED  BY <3>1
  <2>3. PICK b, c : b = w[i] /\ c = w[j]   OBVIOUS
  <2>4. Sized(b, IF S = {} THEN 0 ELSE 3, 400 + 6 * i)   BY <1>1, <2>1, <2>3 DEF WrapsSized
  <2>5. b \in Seq(Byte) /\ (S # {} => Len(b) > 2)
    <3>1. PICK l \in Nat : l = Len(b) /\ b \in Seq(Byte)   BY <2>4 DEF Sized
    <3>2. S # {} => l >= 3   BY <2>4, <3>1 DEF Sized
    <3> QED  BY <3>1, <3>2
  <2>6. Carries(c, One(Field(nine, 2, 0, b)))   BY <1>1, <2>1, <2>2, <2>3 DEF WrapsSized
  <2>10. ReadWithin(f, c, d, b)   BY <2>5, <2>6, WrapVisited
  <2>7. f[<<c, d>>] = IF Len(b) > 2 THEN f[<<b, d + 1>>] ELSE {}   BY <2>10 DEF ReadWithin
  <2>8. f[<<b, d + 1>>] = SlotsAt(S, n + 1, known)   BY <1>5, <2>1, <2>2, <2>3
  <2>9. f[<<c, d>>] = SlotsAt(S, n + 1, known)   BY <1>3, <2>5, <2>7, <2>8
  <2> QED  BY <2>1, <2>2, <2>3, <2>9
<1>6. Nat \subseteq Good
  <2> HIDE DEF Good
  <2>1. Good \in SUBSET Nat   BY DEF Good
  <2> QED  BY <1>4, <1>5, <2>1, Induction
<1>7. n \in Nat /\ n \in 0..n /\ n - n = 0   OBVIOUS
<1> QED  BY <1>6, <1>7

\* The body of a report, decoded
Bodied(body, S, n) == body = BytesField(2, Wrapped(EntriesBytes(S), n)) /\ Entries(S) /\ n \in 0..4

\* The body of a report decodes to its slots at their depth.
LEMMA BodyDecodes ==
    ASSUME NEW body, NEW S, NEW n, Bodied(body, S, n), NEW known
    PROVE  DecodeSlots(body, known) = SlotsAt(S, n + 1, known) /\ Sized(body, 2, 430)
<1>0. FALSE \in BOOLEAN /\ n \in 0..4 /\ Entries(S)   BY DEF Bodied
<1>1. PICK w : w[n] = Wrapped(EntriesBytes(S), n) /\ \A i \in 0..n : w[i] = WrapStep(EntriesBytes(S), w, i)
  BY <1>0, WrapUnfolds
<1>2. PICK f : SlotsUnfold(f, known) /\ \A b \in Seq(Byte) : SlotsIn(b, known) = f[<<b, 0>>]   BY SlotsInUnfolds
<1>3. f[<<w[n], 0>>] = SlotsAt(S, n + 1, known)   BY <1>0, <1>1, <1>2, WrapsVisited
<1>4. WrapsSized(w, S, n)   BY <1>0, <1>1, WrapsAreSized
<1>5. PICK b : b = w[n]   OBVIOUS
<1>6. n \in 0..n   BY <1>0
<1>7. Sized(b, IF S = {} THEN 0 ELSE 3, 400 + 6 * n)   BY <1>4, <1>5, <1>6 DEF WrapsSized
<1>8. PICK two \in 0..63, z \in 0..511, max \in 0..511 : two = 2 /\ z = 0 /\ max = 424   OBVIOUS
<1>9. Sized(b, z, max)
  <2>1. PICK l \in Nat : l = Len(b) /\ b \in Seq(Byte)   BY <1>7 DEF Sized
  <2>2. l <= 400 + 6 * n   BY <1>7, <2>1 DEF Sized
  <2>3. l <= 424   BY <1>0, <2>2
  <2> QED  BY <1>8, <2>1, <2>3 DEF Sized
<1>10. body = BytesField(two, b)   BY <1>1, <1>5, <1>8 DEF Bodied
<1>11. Sized(body, 2 + z, 6 + max)   BY ZenonT(40), <1>9, <1>10, BytesFieldSized
<1>12. Sized(b, 0, max)   BY <1>8, <1>9
<1>13. Carries(body, One(Field(two, 2, 0, b)))   BY Zenon, <1>10, <1>12, CarriesSized
<1>14. b \in Seq(Byte) /\ two \in Nat   BY <1>9 DEF Sized
<1>15. PICK F : F = One(Field(two, 2, 0, b)) /\ OfBytes(F, 1) /\ F[1].bytes = b   BY <1>14, OneOfBytes
<1>16. Parse(body, FALSE).fields = F   BY <1>0, <1>13, <1>15, CarriesParsed
<1>17. {i \in DOMAIN F : F[i].type = 2} = {1}
  <2>1. DOMAIN F = 1..1 /\ \A i \in 1..1 : F[i].type = 2   BY <1>15 DEF OfBytes
  <2> QED  BY <2>1
<1>18. DecodeSlots(body, known) = SlotsIn(F[1].bytes, known)
  <2>1. DecodeSlots(body, known) = UNION {SlotsIn(F[i].bytes, known) : i \in {i \in DOMAIN F : F[i].type = 2}}
    BY ONLY ZenonT(40), <1>16 DEF DecodeSlots
  <2> QED  BY ONLY <1>17, <2>1
<1> QED  BY <1>2, <1>3, <1>5, <1>8, <1>11, <1>14, <1>15, <1>18

---------------------------------------------------------------------------
(* The envelope of a report.                                              *)

\* An entry that is taken for an envelope is quiet, unless its bus is the status of an
\* expired token.
LEMMA EntryIsQuiet ==
    ASSUME NEW find, EnvelopesUnfold(find), NEW e, Reported(e), e.bus # Expired
    PROVE  Quiet(find[EntryBytes(e)])
<1>0. FALSE \in BOOLEAN   OBVIOUS
<1>1. PICK b, fs : b = EntryBytes(e) /\ Carries(b, fs) /\ EntryFields(fs, e)   BY EntryCarries
<1>2. PICK n : Entered(fs, e, n)   BY <1>1, EntryLaid
<1>3. b \in Seq(Byte) /\ Parse(b, FALSE).fields = fs   BY <1>0, <1>1, CarriesParsed DEF Carries
<1>4. FirstNum(fs, 1) = e.sid /\ FirstNum(fs, 2) = e.bus   BY <1>2, WhereHead
<1>5. e.sid # None /\ e.bus # None   BY <1>2, Widths DEF Entered
<1>6. find[b] = EnvelopeStep(find, b)   BY <1>3 DEF EnvelopesUnfold
<1>7. find[b] = EnvelopeHere(fs)   BY <1>3, <1>4, <1>5, <1>6 DEF EnvelopeStep
<1>8. ASSUME NEW i \in PayloadsIn(fs) PROVE FALSE
  <2>1. fs[i].type = 2 /\ fs[i].field \in {5, 6, 19} /\ i \in 1..(2 + n) /\ n \in Nat \ {0}   BY <1>2 DEF PayloadsIn, Entered
  <2>2. i # 1 /\ i # 2   BY <1>2, <2>1 DEF Entered, Field
  <2>3. PICK j \in 1..n : i = 2 + j   BY <2>1, <2>2, PlacesLaid
  <2>4. TellsValue(fs[i], e.values[j], e.intField)   BY <1>2, <2>3 DEF Entered
  <2> QED  BY <2>1, <2>4 DEF TellsValue
<1>9. Carrying(fs) = FALSE   BY <1>8 DEF Carrying
<1>11. find[b].carries = Carrying(fs) /\ find[b].status = FirstNum(fs, 2)   BY <1>7 DEF EnvelopeHere
<1>10. find[b].carries = FALSE /\ find[b].status = e.bus   BY <1>4, <1>9, <1>11
<1> QED  BY <1>1, <1>10 DEF Quiet

\* The body of a report is quiet.
LEMMA BodyIsQuiet ==
    ASSUME NEW find, EnvelopesUnfold(find), NEW body, NEW S, NEW n, Bodied(body, S, n), \A e \in S : e.bus # Expired
    PROVE  Quiet(find[body])
<1>0. n \in 0..4 /\ Entries(S)   BY DEF Bodied
<1>1. PICK w : w[n] = Wrapped(EntriesBytes(S), n) /\ \A i \in 0..n : w[i] = WrapStep(EntriesBytes(S), w, i)
  BY <1>0, WrapUnfolds
<1>2. WrapsSized(w, S, n)   BY <1>0, <1>1, WrapsAreSized
<1>3. Quiet(find[EntriesBytes(S)])
  <2>1. PICK F, k, c : c = EntriesBytes(S) /\ Carries(c, F) /\ FieldsOf(F, k, S)   BY <1>0, EntriesCarry
  <2>2. OfBytes(F, k)   BY <2>1 DEF FieldsOf
  <2>3. \A i \in 1..k : Quiet(find[F[i].bytes])
    <3> TAKE i \in 1..k
    <3>1. PICK e \in S : F[i].bytes = EntryBytes(e)   BY <2>1 DEF FieldsOf
    <3>2. Reported(e) /\ e.bus # Expired   BY <1>0 DEF Entries
    <3> QED  BY <3>1, <3>2, EntryIsQuiet
  <2> QED  BY <2>1, <2>2, <2>3, ListIsQuiet
<1> DEFINE Good == {i \in Nat : i \in 0..n => Quiet(find[w[i]])}
<1>4. 0 \in Good
  <2>1. 0 \in 0..n   BY <1>0
  <2>2. w[0] = EntriesBytes(S)   BY <1>1, <2>1 DEF WrapStep
  <2> QED  BY <1>3, <2>2
<1>5. ASSUME NEW i \in Nat, i \in Good PROVE i + 1 \in Good
  <2> SUFFICES ASSUME i + 1 \in 0..n PROVE Quiet(find[w[i + 1]])   OBVIOUS
  <2>1. PICK j \in 1..n : j = i + 1 /\ j - 1 = i /\ i \in 0..n   BY <1>0
  <2>2. PICK nine, b, c : nine \in Nat /\ nine = 9 /\ b = w[i] /\ c = w[j]   OBVIOUS
  <2>3. b \in Seq(Byte)   BY <1>2, <2>1, <2>2 DEF WrapsSized, Sized
  <2>4. Carries(c, One(Field(nine, 2, 0, b)))   BY <1>2, <2>1, <2>2 DEF WrapsSized
  <2>5. Quiet(find[b])   BY <1>5, <2>1, <2>2
  <2>6. Quiet(find[c])   BY <2>2, <2>3, <2>4, <2>5, WrapIsQuiet
  <2> QED  BY <2>1, <2>2, <2>6
<1>6. Nat \subseteq Good
  <2> HIDE DEF Good
  <2>1. Good \in SUBSET Nat   BY DEF Good
  <2> QED  BY <1>4, <1>5, <2>1, Induction
<1>7. n \in Nat /\ n \in 0..n   BY <1>0
<1>8. Quiet(find[w[n]])   BY <1>6, <1>7
<1>9. PICK two, max, b : two \in 0..63 /\ max \in 0..511 /\ two = 2 /\ max = 424 /\ b = w[n]   OBVIOUS
<1>10. Sized(b, IF S = {} THEN 0 ELSE 3, 400 + 6 * n)   BY <1>2, <1>7, <1>9 DEF WrapsSized
<1>11. Sized(b, 0, max)
  <2>1. PICK l \in Nat : l = Len(b) /\ b \in Seq(Byte)   BY <1>10 DEF Sized
  <2>2. l <= 400 + 6 * n   BY <1>10, <2>1 DEF Sized
  <2>3. l <= 424   BY <1>0, <2>2
  <2> QED  BY <1>9, <2>1, <2>3 DEF Sized
<1>12. body = BytesField(two, b)   BY <1>1, <1>9 DEF Bodied
<1>13. Carries(body, One(Field(two, 2, 0, b)))   BY ZenonT(40), <1>9, <1>11, <1>12, CarriesSized
<1>14. b \in Seq(Byte) /\ two \in Nat   BY <1>9, <1>11 DEF Sized
<1> QED  BY <1>8, <1>9, <1>13, <1>14, WrapIsQuiet

---------------------------------------------------------------------------
(* Reports are read as what they hold, in every state.                    *)

\* A report is read as the slots it holds
ReadOf(r) ==
    LET envelope == FindResponse(ReportBytes(r))
    IN  IF envelope.status = Expired THEN {}
        ELSE DecodeSlots(IF envelope.carries THEN envelope.payload ELSE ReportBytes(r), r.known)
\* The slots that a report holds.
Held(r) ==
    IF r.carried /\ r.status = Expired THEN {} ELSE UNION {Expected(e) : e \in {e \in r.entries : Reaches(e, r)}}

\* What the constants say of a report.
LEMMA ReportIs ==
    ASSUME NEW r \in Reports, ReportConstants
    PROVE  /\ Entries(r.entries) /\ r.wraps \in 0..4 /\ r.carried \in BOOLEAN /\ r.status \in 0..511
           /\ r.carried \/ \A e \in r.entries : e.bus # Expired
<1>1. MaxReportBytes = 400 /\ MaxWraps = 4 /\ Wide - 1 = 511   BY Widths DEF MaxReportBytes, MaxWraps
<1>2. IsFiniteSet(r.entries) /\ \A e \in r.entries : Reported(e)   BY DEF ReportConstants
<1>3. /\ Len(EntriesBytes(r.entries)) <= MaxReportBytes /\ r.wraps \in 0..MaxWraps
      /\ r.carried \in BOOLEAN /\ r.status \in 0..(Wide - 1)
  BY DEF ReportConstants
<1>4. r.carried \/ \A e \in r.entries : e.bus # Expired   BY DEF ReportConstants
<1>5. Entries(r.entries)   BY <1>1, <1>2, <1>3 DEF Entries
<1> QED  BY ONLY ZenonT(40), <1>1, <1>3, <1>4, <1>5

\* The slots at the depth of a report are those within reach.
LEMMA HeldIs ==
    ASSUME NEW r, r.wraps \in 0..4
    PROVE  SlotsAt(r.entries, r.wraps + 1, r.known) = UNION {Expected(e) : e \in {e \in r.entries : Reaches(e, r)}}
<1>1. \A e : Near(e, r.wraps + 1, r.known) <=> Reaches(e, r)   BY DEF Near, Reaches
<1>2. \A e : EntryAt(e, r.wraps + 1, r.known) = IF Reaches(e, r) THEN Expected(e) ELSE {}   BY <1>1 DEF EntryAt
<1> QED  BY <1>2 DEF SlotsAt

\* A report is read as the slots it holds.
LEMMA ReportRead ==
    ASSUME NEW r \in Reports, ReportConstants
    PROVE  ReadOf(r) = Held(r)
<1>1. PICK S, n, k, st : S = r.entries /\ n = r.wraps /\ k = r.known /\ st = r.status   OBVIOUS
<1>2. /\ Entries(S) /\ n \in 0..4 /\ r.carried \in BOOLEAN /\ st \in 0..511
      /\ r.carried \/ \A e \in S : e.bus # Expired
  BY <1>1, ReportIs
<1>3. PICK body : body = BytesField(2, Wrapped(EntriesBytes(S), n))   OBVIOUS
<1>4. Bodied(body, S, n)   BY <1>2, <1>3 DEF Bodied
<1>5. DecodeSlots(body, k) = SlotsAt(S, n + 1, k) /\ Sized(body, 2, 430)   BY <1>4, BodyDecodes
<1>6. SlotsAt(S, n + 1, k) = UNION {Expected(e) : e \in {e \in S : Reaches(e, r)}}   BY <1>1, <1>2, HeldIs
<1>7. PICK find : EnvelopesUnfold(find)   BY FindResponseUnfolds
<1>8. PICK b : b = ReportBytes(r)   OBVIOUS
<1>9. b \in Seq(Byte) => FindResponse(b) = find[b]   BY <1>7 DEF EnvelopesUnfold
<1>10. CASE r.carried
  <2>1. Enclosed(b, st, body)
    <3>1. Timestamp = 7   BY DEF Timestamp
    <3> QED  BY <1>1, <1>3, <1>8, <1>10, <3>1 DEF ReportBytes, Enclosed
  <2>2. Opened(find[b], st, body) /\ b \in Seq(Byte)   BY <1>2, <1>5, <1>7, <2>1, EnclosedIsOpened
  <2>3. PICK v : v = FindResponse(b) /\ v.status = st /\ v.carries = TRUE /\ v.payload = body   BY <1>9, <2>2 DEF Opened
  <2>4. ReadOf(r) = IF st = Expired THEN {} ELSE DecodeSlots(body, k)   BY <1>1, <1>8, <2>3 DEF ReadOf
  <2> QED  BY <1>1, <1>5, <1>6, <1>10, <2>4 DEF Held
<1>11. CASE ~r.carried
  <2>1. b = body   BY <1>1, <1>3, <1>8, <1>11 DEF ReportBytes
  <2>2. body \in Seq(Byte)   BY <1>5 DEF Sized
  <2>3. Quiet(find[body])   BY <1>2, <1>4, <1>7, <1>11, BodyIsQuiet
  <2>4. PICK v : v = FindResponse(b) /\ v.status # Expired /\ v.carries = FALSE   BY <1>9, <2>1, <2>2, <2>3 DEF Quiet
  <2>5. ReadOf(r) = DecodeSlots(body, k)   BY <1>1, <1>8, <2>1, <2>4 DEF ReadOf
  <2> QED  BY <1>1, <1>5, <1>6, <1>11, <2>5 DEF Held
<1> QED  BY <1>2, <1>10, <1>11

\* Only the report itself changes what is read of reports.
LEMMA ReportStep == ReportConstants /\ ReportIsRead /\ [WireNext]_wireVars => ReportIsRead'
<1> SUFFICES ASSUME ReportConstants, ReportIsRead, [WireNext]_wireVars PROVE ReportIsRead'   OBVIOUS
<1>1. CASE UNCHANGED cloud
  <2>1. slots' = slots /\ report' = report   BY <1>1 DEF cloud
  <2> QED  BY <2>1 DEF ReportIsRead, Reaches
<1>2. CASE \E r \in Reports : Report(r)
  <2>1. PICK r \in Reports : Report(r)   BY <1>2
  <2>2. report' = r /\ slots' = ReadOf(r)   BY <2>1 DEF Report, ReadOf
  <2>3. slots' = Held(r)   BY <2>2, ReportRead
  <2> QED  BY <2>2, <2>3 DEF ReportIsRead, Held
<1>3. CASE \E r \in Asks : Ask(r[1], r[2], r[3])   BY <1>1, <1>3 DEF Ask
<1>4. CASE \E noise \in Noises : Push(noise)   BY <1>1, <1>4 DEF Push, Transmit
<1>5. CASE \E noise \in Noises, i \in DOMAIN asked, status \in {0, 3} : Answer(asked[i], status, noise)
  BY <1>1, <1>5 DEF Answer, Transmit
<1>6. CASE \E n \in 1..Len(tunnel) : Receive(n)   BY <1>1, <1>6 DEF Receive
<1>7. CASE Take   BY <1>1, <1>7 DEF Take
<1>8. CASE TearDown   BY <1>1, <1>8 DEF TearDown
<1>9. CASE UNCHANGED wireVars   BY <1>1, <1>9 DEF wireVars
<1> QED  BY <1>2, <1>3, <1>4, <1>5, <1>6, <1>7, <1>8, <1>9 DEF WireNext

\* ReportIsRead, in every behaviour: whatever entries a report holds, with or without a
\* payload field and however they are wrapped, the slots read of it are those entries,
\* with the value of the preferred kind, as far as the decoder may look; none of them is
\* lost, and nothing else, no text, wrapper, status or timestamp, passes for a slot
\* (pia_decoder.py decode_slots, find_response).
THEOREM ReportsAreRead == WireSpec => []ReportIsRead
<1>1. ReportConstants   BY ReportAssumption
<1>2. WireInit => ReportIsRead
  <2> SUFFICES ASSUME WireInit PROVE ReportIsRead   OBVIOUS
  <2>1. report = NoReport /\ slots = {}   BY DEF WireInit
  <2>2. report.entries = {}   BY <2>1 DEF NoReport
  <2> QED  BY <2>1, <2>2 DEF ReportIsRead
<1> QED  BY <1>1, <1>2, ReportStep, PTL DEF WireSpec
=============================================================================
