------------------------------- MODULE PiaRequests -------------------------------
(***************************************************************************)
(* The requests of one SignalR client: send_pia_request, the answers that  *)
(* _handle_message matches to them, the token refresh that an expiry       *)
(* starts and the replay that follows it, and what listen() and stop() do  *)
(* to whoever waits (signalr_client.py).                                   *)
(*                                                                         *)
(* Request ids are drawn at random from ten million and taken as distinct. *)
(* A write reaches the socket when it is called; its await ends later.     *)
(* Queues are sets: the replay takes their requests in any order.          *)
(***************************************************************************)
EXTENDS Naturals

CONSTANTS
    Requests,    \* calls of send_pia_request, each with an id of its own
    MaxExpiries, \* bound: answers that report an expired token
    MaxFaults    \* bound: a lost socket, failed exchanges and UpdateTokens

ASSUME RequestsAssumption == MaxExpiries \in Nat /\ MaxFaults \in Nat

Returned == {"answered", "refused", "failed"}  \* True, False, or it raises
RunningStates ==       \* _refresh_and_retry awaits
    { "exchanging",    \* the remote access token
      "updating",      \* the completion of UpdateTokens
      "replaying" }    \* the write of the request inFlight

VARIABLES
    pc,        \* of each send_pia_request: "writing", "waiting", ...
    future,    \* of each request: what it was resolved to
    pending,   \* the keys of _pending_requests
    waiting,   \* _waiting_request_ids
    batch,     \* queued_ids of _retry_waiting_requests still to be written
    inFlight,  \* the one whose write it awaits
    refresh,   \* _token_refresh_task; "failed" until its done callback has run
    cancelled, \* it has been cancelled and has not ended yet
    socket,    \* "open" or "closed"
    listen,    \* listen(): "running", "closing" in its finally block, "ended",
               \* or "broken" when that block was left by an exception
    stop,      \* stop(): "no", "cancelling", "closing", "done"
    connected, \* _connected
    notified,  \* _connection_lost_notified
    copies,    \* requests the hub has and has not handled
    answers,   \* answers on their way, as <<request, status>>
    executed,  \* how often the vehicle has executed each request
    expiries,  \* bound: expired answers so far
    faults     \* bound: faults so far

client == <<socket, listen, stop>>
hub == <<copies, answers, executed, expiries>>
replay == <<batch, inFlight, refresh, cancelled>>
vars == <<pc, future, pending, waiting, replay, connected, notified, client,
          hub, faults>>

TypeOK ==
    /\ pc \in [Requests -> {"idle", "writing", "waiting"} \cup Returned]
    /\ future \in [Requests -> {"none", "ok", "error"}]
    /\ pending \in SUBSET Requests
    /\ waiting \in SUBSET Requests /\ batch \in SUBSET Requests
    /\ inFlight \in SUBSET Requests
    /\ refresh \in RunningStates \cup {"none", "failed"}
    /\ cancelled \in BOOLEAN /\ connected \in BOOLEAN /\ notified \in BOOLEAN
    /\ socket \in {"open", "closed"}
    /\ listen \in {"running", "closing", "ended", "broken"}
    /\ stop \in {"no", "cancelling", "closing", "done"}
    /\ copies \in [Requests -> 0..1]
    /\ answers \in SUBSET (Requests \X {"ok", "error", "expired"})
    /\ executed \in [Requests -> Nat]
    /\ expiries \in 0..MaxExpiries /\ faults \in 0..MaxFaults

-----------------------------------------------------------------------------
Fault == faults < MaxFaults /\ faults' = faults + 1

RefreshRuns == refresh \in RunningStates

\* Mutant: the replay does not look for senders that have given up
LiveAny(q) == q

\* The requests of a queue that somebody still waits for
Live(q) == {r \in q : r \in pending /\ future[r] = "none"}

\* Those of rs that are unresolved get an exception
Fail(rs) ==
    /\ future' = [r \in Requests |->
           IF r \in rs \cap pending /\ future[r] = "none" THEN "error" ELSE future[r]]
    /\ pending' = pending \ rs

Write(r) == copies' = [copies EXCEPT ![r] = @ + 1]

Init ==
    /\ pc = [r \in Requests |-> "idle"]
    /\ future = [r \in Requests |-> "none"]
    /\ pending = {} /\ waiting = {} /\ batch = {} /\ inFlight = {}
    /\ refresh = "none" /\ cancelled = FALSE
    /\ socket = "open" /\ listen = "running" /\ stop = "no"
    /\ connected = TRUE /\ notified = FALSE
    /\ copies = [r \in Requests |-> 0] /\ answers = {}
    /\ executed = [r \in Requests |-> 0]
    /\ expiries = 0 /\ faults = 0

(***************************************************************************)
(* send_pia_request                                                        *)
(***************************************************************************)
Refuse(r) ==
    /\ pc[r] = "idle" /\ socket = "closed"
    /\ pc' = [pc EXCEPT ![r] = "refused"]
    /\ UNCHANGED <<future, pending, waiting, replay, connected, notified,
                   client, hub, faults>>

\* Mutant: a request queued for the replay is written as well
SendAnyway(r) ==
    /\ pc[r] = "idle" /\ socket = "open"
    /\ pending' = pending \cup {r}
    /\ waiting' = IF RefreshRuns THEN waiting \cup {r} ELSE waiting
    /\ pc' = [pc EXCEPT ![r] = "writing"]
    /\ Write(r)
    /\ UNCHANGED <<future, replay, connected, notified, client, answers,
                   executed, expiries, faults>>

\* Queue behind a token refresh that runs, or write
Send(r) ==
    /\ pc[r] = "idle" /\ socket = "open"
    /\ pending' = pending \cup {r}
    /\ \/ /\ RefreshRuns
          /\ waiting' = waiting \cup {r}
          /\ pc' = [pc EXCEPT ![r] = "waiting"]
          /\ UNCHANGED copies
       \/ /\ ~RefreshRuns
          /\ pc' = [pc EXCEPT ![r] = "writing"]
          /\ Write(r)
          /\ UNCHANGED waiting
    /\ UNCHANGED <<future, replay, connected, notified, client, answers,
                   executed, expiries, faults>>

Written(r) ==
    /\ pc[r] = "writing"
    /\ pc' = [pc EXCEPT ![r] = "waiting"]
    /\ UNCHANGED <<future, pending, waiting, replay, connected, notified,
                   client, hub, faults>>

WriteFails(r) ==
    /\ pc[r] = "writing" /\ socket = "closed"
    /\ pc' = [pc EXCEPT ![r] = "refused"]
    /\ pending' = pending \ {r}
    /\ connected' = FALSE /\ notified' = TRUE
    /\ UNCHANGED <<future, waiting, replay, client, hub, faults>>

Resume(r) ==
    /\ pc[r] = "waiting" /\ future[r] # "none"
    /\ pc' = [pc EXCEPT ![r] = IF future[r] = "ok" THEN "answered" ELSE "failed"]
    /\ pending' = pending \ {r}
    /\ UNCHANGED <<future, waiting, replay, connected, notified, client, hub,
                   faults>>

\* Mutant: the end of listen() is trusted to resolve every future
TimesOutConnected(r) ==
    /\ pc[r] = "waiting" /\ future[r] = "none" /\ connected
    /\ pc' = [pc EXCEPT ![r] = "refused"]
    /\ pending' = pending \ {r}
    /\ UNCHANGED <<future, waiting, replay, connected, notified, client, hub,
                   faults>>

\* PIA_REQUEST_TIMEOUT
TimesOut(r) ==
    /\ pc[r] = "waiting" /\ future[r] = "none"
    /\ pc' = [pc EXCEPT ![r] = "refused"]
    /\ pending' = pending \ {r}
    /\ UNCHANGED <<future, waiting, replay, connected, notified, client, hub,
                   faults>>

(***************************************************************************)
(* The hub and the vehicle behind it                                       *)
(***************************************************************************)
Handle(r) ==
    /\ copies[r] > 0
    /\ copies' = [copies EXCEPT ![r] = @ - 1]
    /\ \/ /\ answers' = answers \cup {<<r, "ok">>}
          /\ executed' = [executed EXCEPT ![r] = @ + 1]
          /\ UNCHANGED expiries
       \/ /\ answers' = answers \cup {<<r, "error">>}
          /\ UNCHANGED <<executed, expiries>>
       \/ /\ expiries < MaxExpiries /\ expiries' = expiries + 1
          /\ answers' = answers \cup {<<r, "expired">>}
          /\ UNCHANGED executed
    /\ UNCHANGED <<pc, future, pending, waiting, replay, connected, notified,
                   client, faults>>

(***************************************************************************)
(* _handle_message: a PiaResponse                                          *)
(***************************************************************************)
\* What arrived before the socket closed is still handled
Handles == listen = "running" /\ stop = "no"

Deliver(r) ==
    /\ Handles
    /\ \E status \in {"ok", "error"} :
          /\ <<r, status>> \in answers
          /\ answers' = answers \ {<<r, status>>}
          /\ future' = IF r \in pending /\ future[r] = "none"
                       THEN [future EXCEPT ![r] = status] ELSE future
    /\ pending' = pending \ {r}
    /\ UNCHANGED <<pc, waiting, replay, connected, notified, client, copies,
                   executed, expiries, faults>>

\* STATUS_AUTH_TOKEN_EXPIRED or STATUS_REMOTE_TOKEN_EXPIRED: queue the
\* request for the replay, and start a refresh unless one runs
DeliverExpired(r) ==
    /\ Handles
    /\ <<r, "expired">> \in answers
    /\ answers' = answers \ {<<r, "expired">>}
    /\ waiting' = waiting \cup {r}
    /\ refresh' = IF RefreshRuns THEN refresh ELSE "exchanging"
    /\ UNCHANGED <<pc, future, pending, batch, inFlight, cancelled, connected,
                   notified, client, copies, executed, expiries, faults>>

(***************************************************************************)
(* _refresh_and_retry                                                      *)
(***************************************************************************)

RefreshRaises ==
    /\ refresh' = "failed" /\ batch' = {} /\ inFlight' = {} /\ waiting' = {}
    /\ Fail(waiting)

\* The replay goes on with q: a live request is written, of q or of those
\* queued meanwhile; on a closed socket every write raises at once
Todo(q) == IF Live(q) # {} THEN Live(q) ELSE Live(waiting)

ReplayNext(q) ==
    /\ socket = "open"
    /\ \E r \in Todo(q) : /\ Write(r)
                          /\ inFlight' = {r} /\ batch' = Todo(q) \ {r}
    /\ waiting' = IF Live(q) # {} THEN waiting ELSE {}
    /\ refresh' = "replaying"
    /\ UNCHANGED <<future, pending>>

ReplayEnds(q) ==
    /\ socket = "closed" \/ Todo(q) = {}
    /\ refresh' = "none" /\ batch' = {} /\ inFlight' = {} /\ waiting' = {}
    /\ Fail(q \cup waiting)
    /\ UNCHANGED copies

Replay(q) == ReplayNext(q) \/ ReplayEnds(q)

RefreshStep == RefreshRuns /\ ~cancelled

Exchanged ==
    /\ RefreshStep /\ refresh = "exchanging"
    /\ \/ /\ socket = "open" /\ refresh' = "updating"
          /\ UNCHANGED <<future, pending, waiting, batch, inFlight, faults>>
       \/ socket = "open" /\ Fault /\ RefreshRaises
       \/ socket = "closed" /\ RefreshRaises /\ UNCHANGED faults
    /\ UNCHANGED <<pc, cancelled, connected, notified, client, hub>>

Updated ==
    /\ RefreshStep /\ refresh = "updating" /\ Handles
    /\ Replay({})
    /\ UNCHANGED <<pc, cancelled, connected, notified, client, answers,
                   executed, expiries, faults>>

\* A completion that reports an error, or none within PIA_REQUEST_TIMEOUT
UpdateFails ==
    /\ RefreshStep /\ refresh = "updating"
    /\ IF socket = "open" THEN Fault ELSE UNCHANGED faults
    /\ RefreshRaises
    /\ UNCHANGED <<pc, cancelled, connected, notified, client, hub>>

\* The write has ended; on a closed socket its request fails with the others
Replayed ==
    /\ RefreshStep /\ refresh = "replaying"
    /\ Replay(IF socket = "open" THEN batch ELSE batch \cup inFlight)
    /\ UNCHANGED <<pc, cancelled, connected, notified, client, answers,
                   executed, expiries, faults>>

\* _clear_token_refresh_task
ForgetFailed ==
    /\ refresh = "failed" /\ refresh' = "none"
    /\ UNCHANGED <<pc, future, pending, waiting, batch, inFlight, cancelled,
                   connected, notified, client, hub, faults>>

\* CancelledError is no Exception: the queue stays
RefreshCancelled ==
    /\ RefreshRuns /\ cancelled
    /\ refresh' = "none" /\ cancelled' = FALSE
    /\ batch' = {} /\ inFlight' = {}
    /\ UNCHANGED <<pc, future, pending, waiting, connected, notified, client,
                   hub, faults>>

(***************************************************************************)
(* The socket, the end of listen(), and stop()                             *)
(***************************************************************************)
SocketLost ==
    /\ socket = "open" /\ Fault
    /\ socket' = "closed"
    /\ UNCHANGED <<pc, future, pending, waiting, replay, connected, notified,
                   listen, stop, hub>>

CleanUp ==
    /\ listen' = "ended" /\ connected' = FALSE /\ notified' = TRUE
    /\ Fail(pending) /\ waiting' = {}

\* The finally block of listen() up to its first await.  A refresh that has
\* failed and whose callback has not run raises from the await, and the rest
\* of the block is skipped
ListenEnds ==
    /\ listen = "running" /\ (socket = "closed" \/ stop # "no")
    /\ IF refresh = "failed"
       THEN /\ listen' = "broken" /\ refresh' = "none" /\ connected' = FALSE
            /\ UNCHANGED <<future, pending, waiting, cancelled, notified>>
       ELSE IF RefreshRuns
       THEN /\ listen' = "closing" /\ cancelled' = TRUE /\ connected' = FALSE
            /\ UNCHANGED <<future, pending, waiting, refresh, notified>>
       ELSE CleanUp /\ UNCHANGED <<refresh, cancelled>>
    /\ UNCHANGED <<pc, batch, inFlight, socket, stop, hub, faults>>

ListenCleansUp ==
    /\ listen = "closing" /\ ~RefreshRuns
    /\ CleanUp
    /\ UNCHANGED <<pc, replay, socket, stop, hub, faults>>

StopBegins ==
    /\ stop = "no" /\ stop' = "cancelling"
    /\ cancelled' = RefreshRuns
    /\ UNCHANGED <<pc, future, pending, waiting, batch, inFlight, refresh,
                   connected, notified, socket, listen, hub, faults>>

StopCloses ==
    /\ stop = "cancelling" /\ ~RefreshRuns
    /\ stop' = "closing" /\ socket' = "closed" /\ refresh' = "none"
    /\ UNCHANGED <<pc, future, pending, waiting, batch, inFlight, cancelled,
                   connected, notified, listen, hub, faults>>

StopEnds ==
    /\ stop = "closing" /\ listen \in {"ended", "broken"}
    /\ stop' = "done" /\ connected' = FALSE
    /\ UNCHANGED <<pc, future, pending, waiting, replay, notified, socket,
                   listen, hub, faults>>

-----------------------------------------------------------------------------
Request(r) ==
    Refuse(r) \/ Send(r) \/ Written(r) \/ WriteFails(r) \/ Resume(r) \/ TimesOut(r)

Message(r) == Deliver(r) \/ DeliverExpired(r)

Refresh ==
    Exchanged \/ Updated \/ UpdateFails \/ Replayed \/ ForgetFailed \/ RefreshCancelled

Connection ==
    SocketLost \/ ListenEnds \/ ListenCleansUp \/ StopBegins \/ StopCloses \/ StopEnds

Next ==
    \/ \E r \in Requests : Request(r) \/ Handle(r) \/ Message(r)
    \/ Refresh \/ Connection

Spec == Init /\ [][Next]_vars

\* A write ends and a wait times out; the refresh's awaits have timeouts too.
\* Neither the hub nor a stop has to do anything.
FairSpec ==
    /\ Spec
    /\ \A r \in Requests : WF_vars(pc[r] # "idle" /\ Request(r))
    /\ WF_vars(Refresh) /\ WF_vars(ListenEnds \/ ListenCleansUp)
    /\ WF_vars(StopCloses \/ StopEnds)

-----------------------------------------------------------------------------
(***************************************************************************)
(* Properties                                                              *)
(***************************************************************************)

\* However expiries, refreshes and replays interleave, the vehicle executes
\* a request at most once.  (_schedule_token_refresh_retry)
NeverExecutedTwice == \A r \in Requests : executed[r] <= 1

\* A sender is told of success only when its own request was executed, and
\* no answer to another request resolves it.  (_handle_message)
SuccessIsOwn == \A r \in Requests : pc[r] = "answered" => executed[r] > 0

\* Success means that the vehicle did it, once: neither an answer to another
\* request nor the replay comes between.  (_handle_message)
SuccessIsOneExecution == NeverExecutedTwice /\ SuccessIsOwn

\* A request that its sender has given up is not written any more: the
\* coordinator may have sent the command again.  (_retry_waiting_requests)
NoWriteAfterReturn ==
    [][\A r \in Requests : copies'[r] > copies[r] => pc[r] \notin Returned]_vars

\* A queued request has a refresh that will replay or fail it, as long as
\* the client listens.  (send_pia_request, _refresh_and_retry)
QueuedHaveARefresh ==
    waiting # {} => RefreshRuns \/ listen # "running" \/ stop # "no"

\* Every request returns, also after an end of listen() that resolved
\* nothing, and a stop ends.  (send_pia_request, stop)
RequestsEnd ==
    /\ \A r \in Requests : pc[r] # "idle" ~> pc[r] \in Returned
    /\ stop # "no" ~> stop = "done"
=============================================================================
