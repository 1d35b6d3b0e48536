----------------------------- MODULE OAuthTokens -----------------------------
(***************************************************************************)
(* The OAuth2 tokens of one config entry: the API clients that use and     *)
(* renew them (api.py), the entry that stores them (__init__.py 156-220)   *)
(* and the flow that replaces them (config_flow.py 453-517).               *)
(*                                                                         *)
(* Each set-up of the entry makes a client.  Its calls:                    *)
(*   main   the set-up's probe of the stored tokens and its login with the *)
(*          password, then the polls                                       *)
(*   other  the SignalR session's requests and a forced re-authentication  *)
(* are at an await between two steps.  A request that is refused refreshes *)
(* the tokens and is repeated once.  A reload leaves the calls of the old  *)
(* client running.  Tokens are numbers of the pairs the server issued; an  *)
(* identity provider may or may not make a refresh token useless once it   *)
(* was used: the code stores a new one when it gets one.                   *)
(***************************************************************************)
EXTENDS Integers, Sequences

CONSTANTS
    Accounts,      \* the users who can see the vehicle
    FirstAccount,  \* the one who set the entry up
    MaxIssued,     \* bound: pairs the server issues
    MaxFaults      \* bound: expiries, failures, changed passwords and reloads

ASSUME TokensAssumption == MaxIssued \in Nat \ {0} /\ MaxFaults \in Nat /\ FirstAccount \in Accounts

VARIABLES
    server,   \* rotates; valid refresh and fresh access tokens; whose issues; is the stored password right
    entry,    \* the stored pair and account; prompt: who opened a reauth flow
    stage,    \* of the entry: setup, loaded, retry, failed
    client,   \* client -> the pair it holds
    current,  \* the client of the entry's latest set-up
    calls,    \* client and caller -> its call
    faults,   \* bound counter
    mishap    \* history: what the code cannot notice (see Mishaps)

vars == <<server, entry, stage, client, current, calls, faults, mishap>>

Clients == {1, 2}
Callers == Clients \X {"main", "other"}
None == 0
NoPair == [access |-> None, refresh |-> None]
Idle == [pc |-> "idle", purpose |-> "none", pair |-> NoPair, retried |-> FALSE, account |-> None]
(* The password was changed; the answer with a pair got lost; a refresh token was used that another call
   had renewed; a client stored its tokens after its successor was made.     *)
Mishaps == {"revoked", "lost", "raced", "stray"}

Init ==
    /\ \E rotates \in BOOLEAN, a \in {FirstAccount} :
          /\ server = [rotates |-> rotates, valid |-> {1}, fresh |-> {1}, owner |-> <<a>>, right |-> TRUE]
          /\ entry = [pair |-> [access |-> 1, refresh |-> 1], user |-> a, prompt |-> "nobody"]
    /\ stage = "setup" /\ current = 1
    /\ client = [k \in Clients |-> NoPair]
    /\ calls = [c \in Callers |-> Idle]
    /\ faults = 0 /\ mishap = {}

---------------------------------------------------------------------------
(* The identity provider (external): the next pair has a new access token, and
   a new refresh token or the one it was asked for with.                      *)
Issued == Len(server.owner)
NewPair(used) == [access |-> Issued + 1, refresh |-> IF used = None \/ server.rotates THEN Issued + 1 ELSE used]
Issue(account, used) ==
    /\ Issued < MaxIssued
    /\ server' = [server EXCEPT !.owner = Append(@, account), !.fresh = @ \cup {Issued + 1},
                    !.valid = (@ \ (IF server.rotates THEN {used} ELSE {})) \cup {NewPair(used).refresh}]

(* An access token expires; one just received lives for the repeated request. *)
JustReceived == {calls[c].pair.access : c \in {d \in Callers : calls[d].pc = "answered" \/ calls[d].retried}}
Expires ==
    /\ faults < MaxFaults /\ faults' = faults + 1
    /\ \E n \in server.fresh \ JustReceived : server' = [server EXCEPT !.fresh = @ \ {n}]
    /\ UNCHANGED <<entry, stage, client, current, calls, mishap>>
(* The user changes the password, which ends every session. *)
PasswordChanges ==
    /\ faults < MaxFaults /\ faults' = faults + 1
    /\ server' = [server EXCEPT !.fresh = {}, !.valid = {}, !.right = FALSE]
    /\ mishap' = mishap \cup {"revoked"}
    /\ UNCHANGED <<entry, stage, client, current, calls>>

---------------------------------------------------------------------------
(* A call's way on: it awaits, it ends, or it ends with an error that its
   purpose takes for a wrong login (HymerConnectAuthError) or not.            *)
Await(c, call) == calls' = [calls EXCEPT ![c] = call]
End(c) == Await(c, Idle)
Send(c, purpose, access, again) ==
    Await(c, [pc |-> "sent", purpose |-> purpose, pair |-> [NoPair EXCEPT !.access = access], retried |-> again,
              account |-> None])
LogIn(c) ==
    Await(c, [pc |-> "login", purpose |-> "login", pair |-> NoPair, retried |-> FALSE, account |-> entry.user])
SettingUp(c) == c = <<current, "main">> /\ stage = "setup"

\* Mutant: the set-up gives up with its stored tokens
AuthErrorWithoutLogin(c) ==
    CASE SettingUp(c) -> End(c) /\ UNCHANGED <<entry, stage>>
      [] calls[c].purpose = "poll" -> End(c) /\ entry' = [entry EXCEPT !.prompt = "poll"] /\ UNCHANGED stage
      [] OTHER -> End(c) /\ UNCHANGED <<entry, stage>>
AuthError(c) ==
    CASE calls[c].purpose = "probe" -> LogIn(c) /\ UNCHANGED <<entry, stage>>
      [] SettingUp(c) /\ calls[c].purpose = "login" ->
            End(c) /\ stage' = "failed" /\ entry' = [entry EXCEPT !.prompt = "setup"]
      [] calls[c].purpose = "poll" -> End(c) /\ entry' = [entry EXCEPT !.prompt = "poll"] /\ UNCHANGED stage
      [] OTHER -> End(c) /\ UNCHANGED <<entry, stage>>
ApiError(c) == End(c) /\ stage' = (IF SettingUp(c) THEN "retry" ELSE stage) /\ UNCHANGED entry

(* _async_prepare_authenticated_api, with a client for this set-up: it probes
   the stored tokens with get_account. *)
SetUp ==
    LET main == <<current, "main">>
    IN  /\ stage = "setup" /\ calls[main].pc = "idle"
        /\ client' = [client EXCEPT ![current] = entry.pair]
        /\ Send(main, "probe", entry.pair.access, FALSE)
        /\ UNCHANGED <<server, entry, stage, current, faults, mishap>>

Request(c) ==
    /\ stage = "loaded" /\ c[1] = current /\ calls[c].pc = "idle"
    /\ Send(c, IF c[2] = "main" THEN "poll" ELSE "session", client[current].access, FALSE)
    /\ UNCHANGED <<server, entry, stage, client, current, faults, mishap>>
(* force_reauth_and_reconnect *)
Reauthenticate(c) ==
    /\ stage = "loaded" /\ c = <<current, "other">> /\ calls[c].pc = "idle"
    /\ LogIn(c)
    /\ UNCHANGED <<server, entry, stage, client, current, faults, mishap>>

Accepted(c) ==
    /\ calls[c].pc = "sent" /\ calls[c].pair.access \in server.fresh
    /\ End(c)
    /\ stage' = IF SettingUp(c) THEN "loaded" ELSE stage
    /\ UNCHANGED <<server, entry, client, current, faults, mishap>>

(* _request: a first 401 refreshes with the token the client has by now. *)
Refused(c) ==
    /\ calls[c].pc = "sent" /\ calls[c].pair.access \notin server.fresh
    /\ IF calls[c].retried THEN AuthError(c)
       ELSE /\ Await(c, [calls[c] EXCEPT !.pc = "refreshing", !.pair = client[c[1]]])
            /\ UNCHANGED <<entry, stage>>
    /\ UNCHANGED <<server, client, current, faults, mishap>>

(* The server takes the refresh (external); its answer is on the way. *)
Renewed(c) ==
    LET used == calls[c].pair.refresh
    IN  /\ calls[c].pc = "refreshing" /\ used \in server.valid
        /\ Issue(server.owner[used], used)
        /\ Await(c, [calls[c] EXCEPT !.pc = "answered", !.pair = NewPair(used)])
        /\ UNCHANGED <<entry, stage, client, current, faults, mishap>>
RefreshRefused(c) ==
    /\ calls[c].pc = "refreshing" /\ calls[c].pair.refresh \notin server.valid
    /\ mishap' = mishap \cup (IF server.right THEN {"raced"} ELSE {})
    /\ AuthError(c)
    /\ UNCHANGED <<server, client, current, faults>>

(* The server takes a login (external): the password is the stored one. *)
LoggedIn(c) ==
    /\ calls[c].pc = "login" /\ (server.right \/ calls[c].account # entry.user)
    /\ Issue(calls[c].account, None)
    /\ Await(c, [calls[c] EXCEPT !.pc = "answered", !.pair = NewPair(None)])
    /\ UNCHANGED <<entry, stage, client, current, faults, mishap>>
LoginRefused(c) ==
    /\ calls[c].pc = "login" /\ ~server.right /\ calls[c].account = entry.user
    /\ AuthError(c)
    /\ UNCHANGED <<server, client, current, faults, mishap>>

\* Mutant: a new refresh token is not looked for in the answer
KeepsRefreshToken(c) ==
    LET pair == [calls[c].pair EXCEPT !.refresh = IF calls[c].purpose = "login" THEN @ ELSE client[c[1]].refresh]
    IN  /\ calls[c].pc = "answered"
        /\ client' = [client EXCEPT ![c[1]] = pair]
        /\ entry' = [entry EXCEPT !.pair = pair]
        /\ mishap' = mishap \cup (IF c[1] = current THEN {} ELSE {"stray"})
        /\ IF calls[c].purpose = "login" THEN End(c) /\ stage' = (IF SettingUp(c) THEN "loaded" ELSE stage)
           ELSE Send(c, calls[c].purpose, pair.access, TRUE) /\ UNCHANGED stage
        /\ UNCHANGED <<server, current, faults>>
\* Mutant: the repeated request has the headers of the first
KeepsHeaders(c) ==
    /\ calls[c].pc = "answered"
    /\ client' = [client EXCEPT ![c[1]] = calls[c].pair]
    /\ entry' = [entry EXCEPT !.pair = calls[c].pair]
    /\ mishap' = mishap \cup (IF c[1] = current THEN {} ELSE {"stray"})
    /\ IF calls[c].purpose = "login" THEN End(c) /\ stage' = (IF SettingUp(c) THEN "loaded" ELSE stage)
       ELSE Send(c, calls[c].purpose, client[c[1]].access, TRUE) /\ UNCHANGED stage
    /\ UNCHANGED <<server, current, faults>>

(* The answer arrives: the client takes the pair and its callback persists it
   in the entry; a refresh goes on with the repeated request. *)
Answered(c) ==
    /\ calls[c].pc = "answered"
    /\ client' = [client EXCEPT ![c[1]] = calls[c].pair]
    /\ entry' = [entry EXCEPT !.pair = calls[c].pair]
    /\ mishap' = mishap \cup (IF c[1] = current THEN {} ELSE {"stray"})
    /\ IF calls[c].purpose = "login" THEN End(c) /\ stage' = (IF SettingUp(c) THEN "loaded" ELSE stage)
       ELSE Send(c, calls[c].purpose, calls[c].pair.access, TRUE) /\ UNCHANGED stage
    /\ UNCHANGED <<server, current, faults>>

(* No connection, a time-out, or a 5xx answer. *)
Fails(c) ==
    /\ calls[c].pc # "idle" /\ faults < MaxFaults /\ faults' = faults + 1
    /\ mishap' = mishap \cup (IF calls[c].pc = "answered" THEN {"lost"} ELSE {})
    /\ ApiError(c)
    /\ UNCHANGED <<server, client, current>>

---------------------------------------------------------------------------
(* The entry's life (Home Assistant; external).                              *)
Successor == 3 - current
Replace == /\ \A who \in {"main", "other"} : calls[<<Successor, who>>].pc = "idle"
           /\ current' = Successor /\ stage' = "setup"
           /\ client' = [client EXCEPT ![Successor] = NoPair]
Reload ==
    /\ stage = "loaded" /\ faults < MaxFaults /\ faults' = faults + 1
    /\ Replace
    /\ UNCHANGED <<server, entry, calls, mishap>>
Retry ==
    /\ stage = "retry" /\ stage' = "setup"
    /\ UNCHANGED <<server, entry, client, current, calls, faults, mishap>>

\* Mutant: the flow stores the login and leaves the tokens
SignInWithoutTokens(a) ==
    /\ entry.prompt # "nobody" /\ stage # "setup"
    /\ Issued < MaxIssued
    /\ server' = [server EXCEPT !.owner = Append(@, a), !.fresh = @ \cup {Issued + 1},
                                !.valid = @ \cup {Issued + 1}, !.right = TRUE]
    /\ entry' = [entry EXCEPT !.user = a, !.prompt = "nobody"]
    /\ Replace
    /\ UNCHANGED <<calls, faults, mishap>>
(* async_step_reauth_confirm: a login of the flow's own client, whose tokens
   and account go into the entry, and a reload. *)
SignIn(a) ==
    /\ entry.prompt # "nobody" /\ stage # "setup"
    /\ Issued < MaxIssued
    /\ server' = [server EXCEPT !.owner = Append(@, a), !.fresh = @ \cup {Issued + 1},
                                !.valid = @ \cup {Issued + 1}, !.right = TRUE]
    /\ entry' = [pair |-> NewPair(None), user |-> a, prompt |-> "nobody"]
    /\ Replace
    /\ UNCHANGED <<calls, faults, mishap>>

CallStep(c) ==
    Accepted(c) \/ Refused(c) \/ Renewed(c) \/ RefreshRefused(c) \/ LoggedIn(c) \/ LoginRefused(c) \/ Answered(c)
Next ==
    \/ SetUp \/ Retry \/ Reload \/ Expires \/ PasswordChanges
    \/ \E c \in Callers : Request(c) \/ Reauthenticate(c) \/ CallStep(c) \/ Fails(c)
    \/ \E a \in Accounts : SignIn(a)

Spec == Init /\ [][Next]_vars
(* Answers come in the end, and Home Assistant sets an entry up again. *)
FairSpec == Spec /\ WF_vars(SetUp) /\ WF_vars(Retry) /\ \A c \in Callers : WF_vars(CallStep(c))

---------------------------------------------------------------------------
Pairs == [access : 0 .. MaxIssued, refresh : 0 .. MaxIssued]
(* The clients, the entry and the calls hold tokens that were issued. *)
TypeOK ==
    /\ server.valid \subseteq 1 .. Issued /\ server.fresh \subseteq 1 .. Issued /\ Issued \in 1 .. MaxIssued
    /\ entry.pair \in Pairs /\ entry.pair.refresh \in 1 .. Issued
    /\ entry.user \in Accounts /\ entry.prompt \in {"nobody", "setup", "poll"}
    /\ stage \in {"setup", "loaded", "retry", "failed"} /\ current \in Clients
    /\ client \in [Clients -> Pairs] /\ mishap \subseteq Mishaps
    /\ \A c \in Callers : calls[c].pc \in {"idle", "sent", "refreshing", "login", "answered"}
                            /\ calls[c].pair \in Pairs

(* What the entry stores can be refreshed at the next start, however refreshes,
   logins and sign-ins of two clients interleave: it is given up only by a
   changed password, an answer that got lost, or a predecessor's late answer. *)
StoredRefreshTokenWorks ==
    server.right /\ mishap \cap {"lost", "stray"} = {} /\ (\A c \in Callers : calls[c].pc # "answered")
        => entry.pair.refresh \in server.valid

(* The stored tokens are of the account that is stored, unless a call of the
   client before the sign-in persisted its own afterwards. *)
TokensAreOfTheAccount == "stray" \notin mishap => server.owner[entry.pair.refresh] = entry.user

(* A set-up asks the user to sign in only when the stored password is wrong:
   whatever became of the tokens, it logs in by itself.  A poll asks when the
   password was changed, when a refresh token had been renewed by another call
   at the same time, or in an answer that got lost. *)
PromptsHaveACause ==
    [][entry'.prompt # entry.prompt =>
          /\ entry'.prompt = "setup" => ~server.right
          /\ entry'.prompt = "poll" => mishap' \cap {"revoked", "raced", "lost"} # {}]_vars

(* A set-up ends loaded, or in the hands of the user, whatever expired or got
   lost meanwhile (or at the bound of the model). *)
SetupsEnd == stage = "setup" ~> stage \in {"loaded", "failed"} \/ Issued = MaxIssued
=============================================================================
