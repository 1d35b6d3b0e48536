----------------------------- MODULE MainSwitch -----------------------------
(***************************************************************************)
(* The 12 V main switch (HymerSwitch, entity_base.py 560-758).  Switching  *)
(* off makes the unit drop its connection and repeat a stale "On"; and the *)
(* unit may not receive a command at all.  So each command is verified     *)
(* against the report after 30 or 60 s, and repeated once after a full     *)
(* re-authentication.                                                      *)
(*                                                                         *)
(* The service call and its verification task are one task per command:    *)
(*   connecting  at await _ensure_client         sleeping  at the delay    *)
(*   reauth      at force_reauth_and_reconnect   done                      *)
(* CanonicalSwitch (templates/canonical.py 198-373) does the same.         *)
(* Times become the order of events: command_at is the number of the last  *)
(* send, and reports of before the bounce are over when a delay ends.      *)
(***************************************************************************)
EXTENDS Integers, Sequences

CONSTANTS MaxSwitched, MaxLost    \* bounds: commands; messages the unit does not get

ASSUME SwitchAssumption == MaxSwitched \in Nat /\ MaxLost \in Nat

VARIABLES
    main,      \* the entity: report, claim, expected, commandAt, retryCount
    task,      \* command -> its task: stage, on, at (its command_at), overtaken
    unit,      \* the vehicle: power, the messages on their way, how many got lost
    asked,     \* how many commands the user gave, and the last one's value
    retries,   \* history: how often a verification began to re-authenticate
    overridden \* history: the last send was of a command overtaken by a newer one

switchVars == <<main, task, unit, asked, retries, overridden>>

Unknown == "unknown"
Powers == {"on", "off"}
SwitchCommands == 1 .. MaxSwitched
TaskAt(stage, on) == [stage |-> stage, on |-> on, at |-> 0, overtaken |-> FALSE]
NoTask == TaskAt("free", "off")

SwitchInit ==
    /\ \E p \in Powers :
          /\ main = [report |-> p, claim |-> Unknown, expected |-> Unknown, commandAt |-> 0, retryCount |-> 0]
          /\ unit = [power |-> p, wire |-> <<>>, lost |-> 0]
          /\ asked = [count |-> 0, on |-> p]
    /\ task = [c \in SwitchCommands |-> NoTask]
    /\ retries = 0 /\ overridden = FALSE

(* async_turn_on, async_turn_off *)
Turn(on) ==
    LET c == asked.count + 1
    IN  /\ c \in SwitchCommands
        /\ asked' = [count |-> c, on |-> on]
        /\ task' = [task EXCEPT ![c] = TaskAt("connecting", on)]
        /\ main' = [main EXCEPT !.retryCount = 0]
        /\ UNCHANGED <<unit, retries, overridden>>

(* _send, after its await: the entity claims the value and the task goes on
   to the verification.  What was waiting to send meanwhile is overtaken. *)
Switched(c) ==
    /\ task[c].stage = "connecting"
    /\ unit' = [unit EXCEPT !.wire = Append(@, task[c].on)]
    /\ main' = [main EXCEPT !.claim = task[c].on, !.expected = task[c].on, !.commandAt = @ + 1]
    /\ task' = [d \in SwitchCommands |->
                   IF d = c THEN [task[c] EXCEPT !.stage = "sleeping", !.at = main.commandAt + 1]
                   ELSE [task[d] EXCEPT !.overtaken = @ \/ (task[d].stage \in {"connecting", "reauth"} /\ d < c)]]
    /\ overridden' = task[c].overtaken
    /\ UNCHANGED <<asked, retries>>

(* No client, or the send fails: the call raises, a retry only logs it. *)
SwitchFails(c) ==
    /\ task[c].stage = "connecting"
    /\ task' = [task EXCEPT ![c] = TaskAt("done", task[c].on)]
    /\ UNCHANGED <<main, unit, asked, retries, overridden>>

EndsTask(c) == task' = [task EXCEPT ![c].stage = "done"]

\* Mutant: the attempts are not counted
VerifiedForEver(c) ==
    /\ task[c].stage = "sleeping" /\ unit.wire = <<>> /\ main.report = unit.power
    /\ IF main.commandAt # task[c].at \/ main.expected # task[c].on
       THEN EndsTask(c) /\ UNCHANGED <<main, retries>>
       ELSE IF main.report = task[c].on
       THEN EndsTask(c) /\ main' = [main EXCEPT !.claim = Unknown, !.expected = Unknown] /\ UNCHANGED retries
       ELSE retries' = retries + 1 /\ task' = [task EXCEPT ![c].stage = "reauth"] /\ UNCHANGED main
    /\ UNCHANGED <<unit, asked, overridden>>
\* Mutant: a newer command is not noticed
VerifiedBlindly(c) ==
    /\ task[c].stage = "sleeping" /\ unit.wire = <<>> /\ main.report = unit.power
    /\ IF main.report = task[c].on
       THEN EndsTask(c) /\ main' = [main EXCEPT !.claim = Unknown, !.expected = Unknown] /\ UNCHANGED retries
       ELSE IF main.retryCount >= 1
       THEN /\ EndsTask(c) /\ UNCHANGED retries
            /\ main' = [main EXCEPT !.claim = Unknown, !.expected = Unknown, !.retryCount = 0]
       ELSE /\ main' = [main EXCEPT !.retryCount = @ + 1] /\ retries' = retries + 1
            /\ task' = [task EXCEPT ![c].stage = "reauth"]
    /\ UNCHANGED <<unit, asked, overridden>>

(* _verify_main_switch_readback after its delay, when what was sent before it
   has arrived or is lost and has been reported: a newer command takes over;
   the report agrees; the second mismatch gives up, the first re-authenticates. *)
Verified(c) ==
    /\ task[c].stage = "sleeping" /\ unit.wire = <<>> /\ main.report = unit.power
    /\ IF main.commandAt # task[c].at \/ main.expected # task[c].on
       THEN EndsTask(c) /\ UNCHANGED <<main, retries>>
       ELSE IF main.report = task[c].on
       THEN EndsTask(c) /\ main' = [main EXCEPT !.claim = Unknown, !.expected = Unknown] /\ UNCHANGED retries
       ELSE IF main.retryCount >= 1
       THEN /\ EndsTask(c) /\ UNCHANGED retries
            /\ main' = [main EXCEPT !.claim = Unknown, !.expected = Unknown, !.retryCount = 0]
       ELSE /\ main' = [main EXCEPT !.retryCount = @ + 1] /\ retries' = retries + 1
            /\ task' = [task EXCEPT ![c].stage = "reauth"]
    /\ UNCHANGED <<unit, asked, overridden>>

(* The coordinator has re-authenticated: the command is sent again. *)
Retried(c) ==
    /\ task[c].stage = "reauth"
    /\ task' = [task EXCEPT ![c].stage = "connecting"]
    /\ UNCHANGED <<main, unit, asked, retries, overridden>>

(* The unit gets the next message, or it is lost on a dead channel (external). *)
UnitReceives ==
    /\ unit.wire # <<>>
    /\ \/ unit' = [unit EXCEPT !.wire = Tail(@), !.power = Head(unit.wire)]
       \/ unit.lost < MaxLost /\ unit' = [unit EXCEPT !.wire = Tail(@), !.lost = @ + 1]
    /\ UNCHANGED <<main, task, asked, retries, overridden>>

(* _handle_coordinator_update: the unit reports its power, or in the bounce
   after an OFF the stale "On".  A claim that is borne out is dropped. *)
SwitchUpdate ==
    \E r \in {unit.power} \cup (IF main.claim = "off" THEN {"on"} ELSE {}) :
        /\ main' = [main EXCEPT !.report = r, !.claim = IF main.claim = r THEN Unknown ELSE main.claim]
        /\ UNCHANGED <<task, unit, asked, retries, overridden>>

SwitchExpires ==
    /\ main.claim # Unknown /\ main' = [main EXCEPT !.claim = Unknown]
    /\ UNCHANGED <<task, unit, asked, retries, overridden>>

SwitchNext ==
    \/ \E on \in Powers : Turn(on)
    \/ \E c \in SwitchCommands : Switched(c) \/ SwitchFails(c) \/ Verified(c) \/ Retried(c)
    \/ UnitReceives \/ SwitchUpdate \/ SwitchExpires

SwitchSpec == SwitchInit /\ [][SwitchNext]_switchVars

---------------------------------------------------------------------------
SwitchTypeOK ==
    /\ main.report \in Powers /\ main.claim \in Powers \cup {Unknown} /\ main.expected \in Powers \cup {Unknown}
    /\ main.commandAt \in 0 .. 3 * MaxSwitched /\ main.retryCount \in 0 .. 1
    /\ \A c \in SwitchCommands : task[c].stage \in {"free", "connecting", "sleeping", "reauth", "done"}

(* The verification "no longer loops endlessly re-authenticating" (the
   CHANGELOG.md of the integration, 648): however many messages are lost, and
   however the tasks of several commands reset each other's count, there are
   at most two re-authentications for each command of the user. *)
RetriesAreBounded == retries <= 2 * asked.count

(* The vehicle ends up as the user last asked, although one message may be
   lost on the way and older commands are still being verified: an older
   command is sent after a newer one only if it was already waiting for its
   re-authentication, or its client, when the newer one was sent. *)
LastCommandHolds ==
    (/\ unit.wire = <<>> /\ unit.lost <= 1 /\ ~overridden /\ asked.count > 0
     /\ \A c \in SwitchCommands : task[c].stage \in {"free", "done"}
     /\ \A c \in SwitchCommands : task[c].stage = "done" => task[c].at # 0) => unit.power = asked.on
=============================================================================
