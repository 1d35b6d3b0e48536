---------------------------- MODULE SignalRLifecycle ----------------------------
(***************************************************************************)
(* The life of the cloud session of one config entry: which asyncio tasks  *)
(* of coordinator.py start, replace, stop and lose the SignalR client, and *)
(* how a command finds a client to be sent on.                             *)
(*                                                                         *)
(* Python runs one task at a time and switches only at an await, so every  *)
(* action below is the code between two awaits of one task.  The tasks are *)
(* the coordinator's poll, the reconnect loop, the shutdown of the entry,  *)
(* user commands, and the main switch's readback verifications, which are  *)
(* tracked background tasks that force a re-authentication and then send.  *)
(*                                                                         *)
(* A client is named by the generation under which it was started; 0 is    *)
(* Python's None.  The network is bounded by a budget of faults: dropped   *)
(* sockets, failed starts, failed REST calls and failed sends each take    *)
(* one.  Time is abstract: a delay ends at some point, a session becomes   *)
(* "aged" when the settle window is over, and the wait between the poll's  *)
(* attempts is counted in polls.                                           *)
(***************************************************************************)
EXTENDS Integers

CONSTANTS
    Commands,          \* service calls that send one command
    Verifications,     \* tracked tasks: force a re-auth, then send again
    MaxFailures,       \* _MAX_CONSECUTIVE_FAILURES
    ReauthAfter,       \* _REAUTH_AFTER_FAILURES
    InitialBackoff,    \* _INITIAL_BACKOFF
    MaxBackoff,        \* _MAX_BACKOFF
    RapidDropCooldown, \* _RAPID_DROP_COOLDOWN
    Unreachable,       \* _UNREACHABLE_BACKOFF, in seconds
    UnreachablePolls,  \* the same wait, in polls of DEFAULT_SCAN_INTERVAL
    MaxFaults          \* bound: faults of the network in one behaviour

Poll == "poll"
Loop == "loop"
Shutdown == "shutdown"

Senders == Commands \cup Verifications
Tasks == Senders \cup {Poll, Loop, Shutdown}

ASSUME TasksAssumption ==
    /\ {Poll, Loop, Shutdown} \cap Senders = {}
    /\ Commands \cap Verifications = {}

ASSUME TimingAssumption ==
    /\ MaxFailures \in Nat \ {0} /\ ReauthAfter \in Nat
    /\ InitialBackoff \in Nat \ {0} /\ MaxBackoff \in Nat
    /\ RapidDropCooldown \in Nat /\ Unreachable \in Nat
    /\ InitialBackoff <= MaxBackoff /\ InitialBackoff <= RapidDropCooldown
    /\ MaxBackoff < Unreachable
    /\ UnreachablePolls \in Nat \ {0} /\ MaxFaults \in Nat

NoClient == 0
NoTask == "free"
ASSUME NoTaskAssumption == NoTask \notin Tasks

(***************************************************************************)
(* Where a task is suspended.                                              *)
(***************************************************************************)
Holding ==             \* inside "async with lock"
    { "replacing",     \* start_signalr awaits the stale client's stop()
      "connecting",    \* ... awaits client.connect()
      "subscribing",   \* ... awaits UpdateTokens and the subscriptions
      "failing",       \* ... awaits the stop() of the client that failed
      "stopping" }     \* stop_signalr awaits client.stop()
Closing == {"replacing", "failing", "stopping"}
Finished == {"delivered", "failed"}
Labels == Holding \cup Finished \cup
    { "idle",          \* not running
      "startLock",     \* start_signalr waits for the lock
      "stopLock",      \* stop_signalr waits for the lock
      "reauth",        \* force_reauth_and_reconnect awaits the OAuth2 call
      "rest",          \* the poll awaits its REST refresh
      "keepalive",     \* the poll awaits send_refresh()
      "sleeping",      \* the reconnect loop sleeps
      "settling",      \* a sender waits for the first frame
      "sending",       \* a sender awaits the client's method
      "quiescing",     \* shutdown awaits the cancelled background tasks
      "down" }         \* shutdown is over

VARIABLES
    pc,            \* where each task is suspended
    lock,          \* _signalr_start_lock: its holder
    signalr,       \* _signalr: the published client
    generation,    \* _signalr_generation
    settle,        \* of this generation: "new", "proven" by a frame
                   \* (_frame_generation), or "aged" past the settle window
    open,          \* clients whose listen() task runs on an open socket
    usable,        \* clients whose _connected flag is set
    notified,      \* those of open that have called on_connection_lost
    suppress,      \* _suppress_connection_lost_refresh
    shuttingDown,  \* _shutting_down
    failures,      \* _consecutive_failures
    backoff,       \* _reconnect_backoff
    since,         \* polls since _last_reconnect_attempt, capped
    tries,         \* attempts of the running reconnect loop
    delay,         \* its current delay
    attempt,       \* a sender's attempt: 0 is a verification's own re-auth
    using,         \* the client in a task's local variable
    faults         \* bound: faults of the network so far

lockVars == <<lock, signalr, generation>>
clientVars == <<settle, open, usable, notified>>
retryVars == <<failures, backoff, since>>
loopVars == <<tries, delay>>
senderVars == <<attempt, using>>
vars == <<pc, lockVars, clientVars, suppress, shuttingDown, retryVars,
          loopVars, senderVars, faults>>

-----------------------------------------------------------------------------
(***************************************************************************)
(* What the code reads.                                                    *)
(***************************************************************************)

\* client and client.connected, for the set u of clients flagged connected
Connected(g, u) == g # NoClient /\ g \in u

\* _await_subscription_confirmation returns at once
Settled == settle # "new"

\* The wait of the poll between two attempts, in polls
Wait == IF failures >= MaxFailures \/ backoff = Unreachable
        THEN UnreachablePolls ELSE 1

Smaller(a, b) == IF a < b THEN a ELSE b
Larger(a, b) == IF a < b THEN b ELSE a

\* The labels at which async_ensure_signalr_healthy first suspends, or
\* "sending" when it returns the client at once.  A session can only have
\* been in extended standby when its settle window is long over.
Ensured(g, u) ==
    IF ~Connected(g, u) THEN {"startLock"}
    ELSE {IF Settled THEN "sending" ELSE "settling"}
         \cup (IF settle = "aged" THEN {"stopLock"} ELSE {})

Fault == faults < MaxFaults /\ faults' = faults + 1

(***************************************************************************)
(* The code that runs when a call returns to task t, with no await before  *)
(* the task suspends again or ends.                                        *)
(***************************************************************************)

\* A sender suspends at label, holding the published client in a local
SenderAt(t, label, try) ==
    /\ pc' = [pc EXCEPT ![t] = label]
    /\ attempt' = [attempt EXCEPT ![t] = try]
    /\ using' = [using EXCEPT ![t] =
                    IF label \in {"settling", "sending"} THEN signalr' ELSE NoClient]

\* _settled_client_after_reconnect, after start_signalr or a forced re-auth;
\* a verification's own re-auth is followed by a whole command instead
SenderReturns(t) ==
    /\ \/ /\ attempt[t] = 0
          /\ \E label \in Ensured(signalr', usable') : SenderAt(t, label, 1)
       \/ /\ attempt[t] > 0
          /\ SenderAt(t, IF ~Connected(signalr', usable') THEN "failed"
                         ELSE IF Settled THEN "sending" ELSE "settling", attempt[t])
    /\ UNCHANGED loopVars

\* The tail of one turn of _reconnect_loop, and the loop's condition
LoopReturns ==
    /\ IF ~Connected(signalr', usable') /\ tries < MaxFailures /\ ~suppress'
       THEN /\ pc' = [pc EXCEPT ![Loop] = "sleeping"]
            /\ tries' = tries + 1
            /\ delay' = Larger(Smaller(delay * 2, MaxBackoff), backoff')
       ELSE /\ pc' = [pc EXCEPT ![Loop] = "idle"]
            /\ tries' = 0
            /\ delay' = InitialBackoff
    /\ UNCHANGED senderVars

PollReturns ==
    /\ pc' = [pc EXCEPT ![Poll] = "idle"]
    /\ UNCHANGED <<loopVars, senderVars>>

\* start_signalr or force_reauth_and_reconnect returns to its caller
Return(t) ==
    \/ t = Poll /\ PollReturns
    \/ t = Loop /\ LoopReturns
    \/ t \in Senders /\ SenderReturns(t)

\* ... or raises: the poll and the loop swallow it, a sender gives up
Raise(t) ==
    \/ t = Poll /\ PollReturns
    \/ t = Loop /\ LoopReturns
    \/ /\ t \in Senders
       /\ SenderAt(t, "failed", attempt[t])
       /\ UNCHANGED loopVars

\* Client g calls _on_signalr_connection_lost, once and not after listen() has
\* ended, which called it; base is what the calling step does to pc.
\* _signalr_connected_at times the current generation.
Notify(g, base) ==
    /\ notified' = (notified \cup {g}) \cap open'
    /\ IF g \in notified \/ g \notin open \/ shuttingDown \/ suppress \/ pc[Loop] # "idle"
       THEN pc' = base /\ UNCHANGED loopVars
       ELSE /\ pc' = [base EXCEPT ![Loop] = "sleeping"]
            /\ tries' = 1
            /\ delay' \in {RapidDropCooldown} \cup (IF settle = "aged" THEN {InitialBackoff} ELSE {})

\* _cancel_reconnect_task, called by t while the loop does not hold the lock
CancelLoop(t, label) ==
    /\ pc' = [pc EXCEPT ![Loop] = "idle", ![t] = label]
    /\ IF t = Loop THEN UNCHANGED loopVars ELSE tries' = 0 /\ delay' = InitialBackoff

-----------------------------------------------------------------------------
Init ==
    /\ pc = [t \in Tasks |-> "idle"]
    /\ lock = NoTask
    /\ signalr = NoClient /\ generation = 0
    /\ open = {} /\ usable = {} /\ notified = {}
    /\ suppress = FALSE /\ shuttingDown = FALSE
    /\ failures = 0 /\ backoff = InitialBackoff /\ since = UnreachablePolls
    /\ settle = "new"
    /\ tries = 0 /\ delay = InitialBackoff
    /\ attempt = [t \in Senders |-> 0]
    /\ using = [t \in Senders \cup {Poll} |-> NoClient]
    /\ faults = 0

(***************************************************************************)
(* start_signalr                                                           *)
(***************************************************************************)
StartSkipped(t) ==
    /\ pc[t] = "startLock" /\ lock = NoTask
    /\ \/ shuttingDown /\ UNCHANGED suppress
       \/ ~shuttingDown /\ Connected(signalr, usable) /\ suppress' = FALSE
    /\ UNCHANGED <<lockVars, clientVars, shuttingDown, retryVars, faults>>
    /\ Return(t)

\* _stop_signalr_locked, for a client that is no longer connected
ReplaceStale(t) ==
    /\ pc[t] = "startLock" /\ lock = NoTask /\ ~shuttingDown
    /\ signalr # NoClient /\ signalr \notin usable
    /\ lock' = t
    /\ suppress' = TRUE
    /\ CancelLoop(t, "replacing")
    /\ UNCHANGED <<signalr, generation, clientVars, shuttingDown, retryVars,
                   senderVars, faults>>

NewGeneration ==
    /\ generation' = generation + 1
    /\ signalr' = generation + 1
    /\ settle' = "new"

\* Mutant: the stale client's stop() is not awaited
OpenGenerationUnawaited(t) ==
    /\ \/ /\ pc[t] = "startLock" /\ lock = NoTask
          /\ ~shuttingDown /\ signalr = NoClient
          /\ suppress' = FALSE
       \/ pc[t] = "replacing" /\ UNCHANGED suppress
    /\ lock' = t
    /\ NewGeneration
    /\ usable' = usable \ {signalr}
    /\ pc' = [pc EXCEPT ![t] = "connecting"]
    /\ UNCHANGED <<open, notified, shuttingDown, retryVars, loopVars,
                   senderVars, faults>>

\* The stale client has stopped, or there was none: publish a new client
OpenGeneration(t) ==
    /\ \/ /\ pc[t] = "startLock" /\ lock = NoTask
          /\ ~shuttingDown /\ signalr = NoClient
          /\ suppress' = FALSE
       \/ /\ pc[t] = "replacing" /\ signalr \notin open
          /\ UNCHANGED suppress
    /\ lock' = t
    /\ NewGeneration
    /\ usable' = usable \ {signalr}
    /\ pc' = [pc EXCEPT ![t] = "connecting"]
    /\ UNCHANGED <<open, notified, shuttingDown, retryVars, loopVars,
                   senderVars, faults>>

\* client.connect() returns and start() spawns listen()
ConnectOk(t) ==
    /\ pc[t] = "connecting"
    /\ open' = open \cup {signalr}
    /\ usable' = usable \cup {signalr}
    /\ pc' = [pc EXCEPT ![t] = "subscribing"]
    /\ UNCHANGED <<lockVars, settle, notified, suppress, shuttingDown,
                   retryVars, loopVars, attempt, using, faults>>

\* UpdateTokens and a subscription succeeded; nothing looks at _connected again
SubscribeOk(t) ==
    /\ pc[t] = "subscribing" /\ signalr \in open
    /\ lock' = NoTask
    /\ backoff' = InitialBackoff /\ failures' = 0
    /\ UNCHANGED <<signalr, generation, clientVars, suppress, shuttingDown,
                   since, faults>>
    /\ Return(t)

SubscribeFails(t) ==
    /\ pc[t] = "subscribing"
    /\ signalr \in open => Fault
    /\ signalr \notin open => UNCHANGED faults
    /\ pc' = [pc EXCEPT ![t] = "failing"]
    /\ UNCHANGED <<lockVars, clientVars, suppress, shuttingDown, retryVars,
                   loopVars, senderVars>>

\* Mutant: an unexpected exception skips the release of the lock
StartFailsKeepingLock(t) ==
    /\ \/ pc[t] = "connecting" /\ Fault
       \/ pc[t] = "failing" /\ signalr \notin open /\ UNCHANGED faults
    /\ UNCHANGED <<lock, failures, backoff>>
    /\ signalr' = NoClient
    /\ usable' = usable \ {signalr}
    /\ UNCHANGED <<generation, settle, open, notified, suppress,
                   shuttingDown, since>>
    /\ Raise(t)

\* HymerConnectApiError is counted and swallowed, another exception is raised
StartFails(t) ==
    /\ \/ pc[t] = "connecting" /\ Fault
       \/ pc[t] = "failing" /\ signalr \notin open /\ UNCHANGED faults
    /\ lock' = NoTask
    /\ signalr' = NoClient
    /\ usable' = usable \ {signalr}
    /\ UNCHANGED <<generation, settle, open, notified, suppress,
                   shuttingDown, since>>
    /\ \/ /\ failures' = failures + 1
          /\ backoff' = IF failures' >= MaxFailures THEN Unreachable
                        ELSE Smaller(backoff * 2, MaxBackoff)
          /\ Return(t)
       \/ UNCHANGED <<failures, backoff>> /\ Raise(t)

(***************************************************************************)
(* stop_signalr, called by force_reauth_and_reconnect and by the shutdown  *)
(***************************************************************************)
AfterStop(t) == IF t = Shutdown THEN "down" ELSE "reauth"

BeginStop(t) ==
    /\ pc[t] = "stopLock" /\ lock = NoTask
    /\ suppress' = TRUE
    /\ IF signalr = NoClient
       THEN CancelLoop(t, AfterStop(t)) /\ UNCHANGED lock
       ELSE CancelLoop(t, "stopping") /\ lock' = t
    /\ UNCHANGED <<signalr, generation, clientVars, shuttingDown, retryVars,
                   senderVars, faults>>

\* Mutant: client.stop() is not awaited
FinishStopUnawaited(t) ==
    /\ pc[t] = "stopping"
    /\ lock' = NoTask
    /\ signalr' = NoClient
    /\ usable' = usable \ {signalr}
    /\ pc' = [pc EXCEPT ![t] = AfterStop(t)]
    /\ UNCHANGED <<generation, settle, open, notified, suppress,
                   shuttingDown, retryVars, loopVars, senderVars, faults>>

FinishStop(t) ==
    /\ pc[t] = "stopping" /\ signalr \notin open
    /\ lock' = NoTask
    /\ signalr' = NoClient
    /\ usable' = usable \ {signalr}
    /\ pc' = [pc EXCEPT ![t] = AfterStop(t)]
    /\ UNCHANGED <<generation, settle, open, notified, suppress,
                   shuttingDown, retryVars, loopVars, senderVars, faults>>

(***************************************************************************)
(* The rest of force_reauth_and_reconnect: a failed call is swallowed.     *)
(***************************************************************************)
ReauthDuringShutdown(t) ==
    /\ pc[t] = "reauth" /\ shuttingDown
    /\ UNCHANGED <<lockVars, clientVars, suppress, shuttingDown, retryVars, faults>>
    /\ Return(t)

FinishReauth(t) ==
    /\ pc[t] = "reauth" /\ ~shuttingDown
    /\ suppress' = FALSE
    /\ since' = UnreachablePolls
    /\ backoff' = InitialBackoff
    /\ pc' = [pc EXCEPT ![t] = "startLock"]
    /\ UNCHANGED <<lockVars, clientVars, shuttingDown, failures, loopVars,
                   attempt, using, faults>>

(***************************************************************************)
(* _async_update_data                                                      *)
(***************************************************************************)
PollBegins ==
    /\ pc[Poll] = "idle"
    /\ since' = Smaller(since + 1, UnreachablePolls)
    /\ pc' = [pc EXCEPT ![Poll] = "rest"]
    /\ UNCHANGED <<lockVars, clientVars, suppress, shuttingDown, failures,
                   backoff, loopVars, senderVars, faults>>

\* UpdateFailed or ConfigEntryAuthFailed, before the session is looked at
PollRestFails ==
    /\ pc[Poll] = "rest"
    /\ Fault
    /\ pc' = [pc EXCEPT ![Poll] = "idle"]
    /\ UNCHANGED <<lockVars, clientVars, suppress, shuttingDown, retryVars,
                   loopVars, senderVars>>

PollKeepsAlive ==
    /\ pc[Poll] = "rest" /\ Connected(signalr, usable)
    /\ pc' = [pc EXCEPT ![Poll] = "keepalive"]
    /\ using' = [using EXCEPT ![Poll] = signalr]
    /\ UNCHANGED <<lockVars, clientVars, suppress, shuttingDown, retryVars,
                   loopVars, attempt, faults>>

\* The reconnect loop is at work, or the backoff has not passed
PollWaits ==
    /\ pc[Poll] = "rest" /\ ~Connected(signalr, usable)
    /\ pc[Loop] # "idle" \/ since < Wait
    /\ pc' = [pc EXCEPT ![Poll] = "idle"]
    /\ UNCHANGED <<lockVars, clientVars, suppress, shuttingDown, retryVars,
                   loopVars, senderVars, faults>>

\* Mutant: the poll leaves an intentionally stopped session alone
PollReconnectsUnlessSuppressed ==
    /\ pc[Poll] = "rest" /\ ~Connected(signalr, usable)
    /\ pc[Loop] = "idle" /\ since >= Wait
    /\ since' = 0
    /\ pc' = [pc EXCEPT ![Poll] =
                IF suppress THEN "idle"
                ELSE IF failures >= ReauthAfter THEN "stopLock" ELSE "startLock"]
    /\ UNCHANGED <<lockVars, clientVars, suppress, shuttingDown, failures,
                   backoff, loopVars, senderVars, faults>>

PollReconnects ==
    /\ pc[Poll] = "rest" /\ ~Connected(signalr, usable)
    /\ pc[Loop] = "idle" /\ since >= Wait
    /\ since' = 0
    /\ pc' = [pc EXCEPT ![Poll] =
                IF failures >= ReauthAfter THEN "stopLock" ELSE "startLock"]
    /\ UNCHANGED <<lockVars, clientVars, suppress, shuttingDown, failures,
                   backoff, loopVars, senderVars, faults>>

KeepaliveEnds ==
    /\ pc[Poll] = "keepalive"
    /\ using' = [using EXCEPT ![Poll] = NoClient]
    /\ UNCHANGED <<lockVars, settle, open, suppress, shuttingDown, retryVars,
                   attempt>>
    /\ \/ /\ pc' = [pc EXCEPT ![Poll] = "idle"]
          /\ UNCHANGED <<usable, notified, loopVars, faults>>
       \/ /\ Fault
          /\ usable' = usable \ {using[Poll]}
          /\ Notify(using[Poll], [pc EXCEPT ![Poll] = "idle"])

Polls == PollBegins \/ PollRestFails \/ PollKeepsAlive \/ PollWaits
         \/ PollReconnects \/ KeepaliveEnds

(***************************************************************************)
(* _reconnect_loop                                                         *)
(***************************************************************************)
LoopWakes ==
    /\ pc[Loop] = "sleeping"
    /\ IF suppress
       THEN pc' = [pc EXCEPT ![Loop] = "idle"] /\ tries' = 0 /\ delay' = InitialBackoff
       ELSE pc' = [pc EXCEPT ![Loop] = "startLock"] /\ UNCHANGED loopVars
    /\ UNCHANGED <<lockVars, clientVars, suppress, shuttingDown, retryVars,
                   senderVars, faults>>

(***************************************************************************)
(* _try_cloud_send                                                         *)
(***************************************************************************)
CommandBegins(c) ==
    /\ c \in Commands /\ pc[c] = "idle"
    /\ UNCHANGED <<lockVars, clientVars, suppress, shuttingDown, retryVars,
                   loopVars, faults>>
    /\ \E label \in Ensured(signalr, usable) : SenderAt(c, label, 1)

\* HymerSwitch._verify_main_switch_readback, from its re-auth on
VerificationBegins(v) ==
    /\ v \in Verifications /\ pc[v] = "idle"
    /\ UNCHANGED <<lockVars, clientVars, suppress, shuttingDown, retryVars,
                   loopVars, faults>>
    /\ SenderAt(v, "stopLock", 0)

\* Mutant: the session is not looked at again after the wait
SettlingEndsUnchecked(c) ==
    /\ c \in Senders /\ pc[c] = "settling"
    /\ UNCHANGED <<lockVars, clientVars, suppress, shuttingDown, retryVars,
                   loopVars, faults>>
    /\ SenderAt(c, IF Connected(signalr, usable) THEN "sending" ELSE "failed",
                attempt[c])

\* A frame came, or the confirmation timed out: is this still the session?
SettlingEnds(c) ==
    /\ c \in Senders /\ pc[c] = "settling"
    /\ UNCHANGED <<lockVars, clientVars, suppress, shuttingDown, retryVars,
                   loopVars, faults>>
    /\ SenderAt(c, IF signalr = using[c] /\ signalr \in usable
                   THEN "sending" ELSE "failed", attempt[c])

SendOk(c) ==
    /\ c \in Senders /\ pc[c] = "sending" /\ using[c] \in open
    /\ UNCHANGED <<lockVars, clientVars, suppress, shuttingDown, retryVars,
                   loopVars, faults>>
    /\ SenderAt(c, "delivered", attempt[c])

\* A refusal, a timeout, a closed socket or (broken) a failed write, which
\* also reports the loss; the first failure marks the client disconnected
SendFails(c) ==
    /\ c \in Senders /\ pc[c] = "sending"
    /\ using[c] \in open => Fault
    /\ using[c] \notin open => UNCHANGED faults
    /\ UNCHANGED <<lockVars, settle, open, suppress, shuttingDown,
                   retryVars>>
    /\ \E broken \in BOOLEAN :
        /\ usable' = IF broken \/ attempt[c] = 1 THEN usable \ {using[c]} ELSE usable
        /\ \E label \in IF attempt[c] = 1 THEN Ensured(signalr, usable') ELSE {"failed"} :
            /\ attempt' = [attempt EXCEPT ![c] = 2]
            /\ using' = [using EXCEPT ![c] =
                    IF label \in {"settling", "sending"} THEN signalr ELSE NoClient]
            /\ LET base == [pc EXCEPT ![c] = label]
               IN  IF broken THEN Notify(using[c], base)
                   ELSE pc' = base /\ UNCHANGED <<notified, loopVars>>

(***************************************************************************)
(* The network and the clock                                               *)
(***************************************************************************)
\* _on_signalr_update with the generation of the client that got the frame;
\* once the settle window is over, nothing reads what it sets
FrameArrives(g) ==
    /\ g \in open /\ g = generation /\ settle = "new"
    /\ settle' = "proven"
    /\ UNCHANGED <<pc, lockVars, open, usable, notified, suppress,
                   shuttingDown, retryVars, loopVars, senderVars, faults>>

\* Client g's stop() is being awaited
IsClosing(g) == lock # NoTask /\ pc[lock] \in Closing /\ g = signalr

\* The socket closes, and listen()'s finally clause runs
ListenEnds(g) ==
    /\ g \in open
    /\ IsClosing(g) => UNCHANGED faults
    /\ ~IsClosing(g) => Fault
    /\ open' = open \ {g}
    /\ usable' = usable \ {g}
    /\ Notify(g, pc)
    /\ UNCHANGED <<lockVars, settle, suppress, shuttingDown, retryVars,
                   senderVars>>

SettleWindowPasses ==
    /\ settle # "aged" /\ signalr # NoClient
    /\ settle' = "aged"
    /\ UNCHANGED <<pc, lockVars, open, usable, notified, suppress,
                   shuttingDown, retryVars, loopVars, senderVars, faults>>

(***************************************************************************)
(* async_prepare_for_shutdown.  The reconnect loop and the tracked tasks   *)
(* are cancelled.  client.stop() catches CancelledError while it awaits    *)
(* its own tasks, so a task that is closing a client may survive; if it    *)
(* does not, the finally of _stop_signalr_locked forgets the client, whose *)
(* socket aiohttp closes.                                                  *)
(***************************************************************************)
PrepareForShutdown ==
    /\ pc[Shutdown] = "idle"
    /\ shuttingDown' = TRUE
    /\ suppress' = TRUE
    /\ \E surviving \in SUBSET {t \in {Loop} \cup Verifications : pc[t] \in Closing} :
        LET cancelled == ({Loop} \cup Verifications) \ surviving
            forgets == lock \in cancelled /\ pc[lock] \in {"replacing", "stopping"}
        IN  /\ pc' = [t \in Tasks |->
                        IF t = Shutdown THEN "quiescing"
                        ELSE IF t \notin cancelled \/ pc[t] \in Finished THEN pc[t]
                        ELSE IF t = Loop THEN "idle" ELSE "failed"]
            /\ lock' = IF lock \in cancelled THEN NoTask ELSE lock
            /\ signalr' = IF forgets THEN NoClient ELSE signalr
            /\ open' = IF forgets THEN open \ {signalr} ELSE open
            /\ usable' = IF forgets THEN usable \ {signalr} ELSE usable
            /\ notified' = notified \cap open'
            /\ IF Loop \in cancelled THEN tries' = 0 /\ delay' = InitialBackoff
               ELSE UNCHANGED loopVars
    /\ UNCHANGED <<generation, settle, retryVars, senderVars, faults>>

BackgroundTasksDone ==
    /\ pc[Shutdown] = "quiescing"
    /\ \A v \in Verifications : pc[v] \in Finished
    /\ pc' = [pc EXCEPT ![Shutdown] = "stopLock"]
    /\ UNCHANGED <<lockVars, clientVars, suppress, shuttingDown, retryVars,
                   loopVars, senderVars, faults>>

-----------------------------------------------------------------------------
Starts(t) ==
    \/ StartSkipped(t) \/ ReplaceStale(t) \/ OpenGeneration(t)
    \/ ConnectOk(t) \/ SubscribeOk(t) \/ SubscribeFails(t) \/ StartFails(t)

Stops(t) == BeginStop(t) \/ FinishStop(t) \/ ReauthDuringShutdown(t) \/ FinishReauth(t)

Sends(c) == SettlingEnds(c) \/ SendOk(c) \/ SendFails(c)

\* What task t does next once it runs
Step(t) ==
    \/ Starts(t) \/ Stops(t)
    \/ t = Poll /\ Polls
    \/ t = Loop /\ LoopWakes
    \/ t \in Senders /\ Sends(t)
    \/ t = Shutdown /\ BackgroundTasksDone

Network ==
    \/ \E g \in open : FrameArrives(g) \/ ListenEnds(g)
    \/ SettleWindowPasses

Next ==
    \/ \E t \in Tasks : Step(t)
    \/ \E c \in Senders : CommandBegins(c) \/ VerificationBegins(c)
    \/ Network
    \/ PrepareForShutdown

Spec == Init /\ [][Next]_vars

\* A suspended task is resumed: every await of the lifecycle has a timeout or
\* is answered, asyncio.Lock serves its waiters in order, and the poll comes
\* back with DEFAULT_SCAN_INTERVAL; a closing socket closes.  Nothing makes a
\* command, a verification, a shutdown, a frame or a fault happen.
Fairness ==
    /\ \A t \in Tasks : WF_vars(Step(t))
    /\ WF_vars(\E g \in open : IsClosing(g) /\ ListenEnds(g))

FairSpec == Spec /\ Fairness

-----------------------------------------------------------------------------
\* Every variable keeps to the values the attributes of coordinator.py take.
TypeOK ==
    /\ pc \in [Tasks -> Labels]
    /\ lock \in Tasks \cup {NoTask}
    /\ signalr \in Nat /\ generation \in Nat
    /\ open \subseteq Nat /\ usable \subseteq Nat /\ notified \subseteq open
    /\ suppress \in BOOLEAN /\ shuttingDown \in BOOLEAN
    /\ settle \in {"new", "proven", "aged"}
    /\ failures \in Nat /\ backoff \in Nat /\ since \in 0..UnreachablePolls
    /\ tries \in 0..MaxFailures /\ delay \in Nat
    /\ attempt \in [Senders -> 0..2]
    /\ using \in [Senders \cup {Poll} -> Nat]
    /\ faults \in 0..MaxFaults

\* However starts, replacements, stops, losses and cancellations interleave,
\* at most one socket listens, and it is the one of the published client,
\* which is the client of the latest generation: Azure drops a connection
\* that arrives before the last one is closed, and frames are matched to
\* the session by generation.
OneLiveSession ==
    /\ signalr \in {NoClient, generation}
    /\ open \subseteq {signalr} \ {NoClient}
    /\ usable \subseteq {signalr} \ {NoClient}

\* Once async_prepare_for_shutdown has returned, no client is published or
\* listening, no task is inside start or stop, and no reconnect loop lives;
\* a start that was in flight, or a re-auth that ends later, revives nothing.
ShutdownIsFinal ==
    pc[Shutdown] = "down" =>
        /\ signalr = NoClient /\ open = {} /\ lock = NoTask
        /\ pc[Loop] = "idle"
        /\ \A t \in Tasks : pc[t] \notin Holding

\* The lifecycle implements SessionService: a session is an open socket, its
\* number the generation, and the entry is retired when its shutdown is over.
Service == INSTANCE SessionService WITH
    current <- IF open = {} THEN 0 ELSE generation,
    last <- generation,
    attempting <- lock # NoTask /\ pc[lock] = "connecting",
    retired <- pc[Shutdown] = "down"

\* Sessions are attempted and open one at a time, each under a number of its
\* own, through every stale replacement, cancelled start and shutdown; after
\* the shutdown there is none.
ImplementsSessionService == Service!Spec

\* A sender hands its command to a client only while that client is the
\* published, connected one; a wait for confirmation that began on another
\* session, or on one that died meanwhile, does not count.
CommandsUseTheCurrentSession ==
    [][\A c \in Senders :
        pc'[c] = "sending" /\ (pc[c] # "sending" \/ attempt'[c] # attempt[c]) =>
            /\ using'[c] = signalr' /\ using'[c] \in usable'
            /\ pc[c] = "settling" => using[c] = signalr]_vars

\* When the network stops failing, the poll and the retry loop bring the
\* session back and it stays up, whatever the backoff, the suppress flag and
\* the last command left behind, unless the entry is shut down.
RecoversWhenTheNetworkDoes ==
    []~shuttingDown => <>[]Connected(signalr, usable)

\* Every command and every verification that has begun is answered, and
\* unloading never hangs on a start, a stop or a background task.
EveryTaskEnds ==
    /\ \A c \in Senders : pc[c] # "idle" ~> pc[c] \in Finished
    /\ shuttingDown ~> pc[Shutdown] = "down"
=============================================================================
