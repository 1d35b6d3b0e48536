-------------------------- MODULE OAuthTokensProofs --------------------------
(***************************************************************************)
(* TypeOK and TokensAreOfTheAccount of OAuthTokens, for all accounts,      *)
(* bounds and ways the calls of two clients interleave.  The first is      *)
(* inductive once every token is bounded by the number of pairs issued.    *)
(* The second rests on what the current client and its calls hold: until a *)
(* predecessor has stored tokens, all of it is of the stored account.      *)
(***************************************************************************)
EXTENDS OAuthTokens, TLAPS

PCs == {"idle", "sent", "refreshing", "login", "answered"}
Purposes == {"none", "probe", "login", "poll", "session"}
Held(n) == [access : 0 .. n, refresh : 0 .. n]
Call(n) == [pc : PCs, purpose : Purposes, pair : Held(n), retried : BOOLEAN, account : Accounts \cup {None}]

(* The types, with each token among those issued. *)
IType ==
    /\ server \in [rotates : BOOLEAN, valid : SUBSET (1 .. Issued), fresh : SUBSET (1 .. Issued),
                   owner : Seq(Accounts), right : BOOLEAN]
    /\ Issued \in 1 .. MaxIssued
    /\ entry \in [pair : Held(Issued), user : Accounts, prompt : {"nobody", "setup", "poll"}]
    /\ entry.pair.refresh # None
    /\ stage \in {"setup", "loaded", "retry", "failed"} /\ current \in Clients
    /\ client \in [Clients -> Held(Issued)] /\ mishap \in SUBSET Mishaps
    /\ calls \in [Callers -> Call(Issued)]
    /\ \A c \in Callers : /\ calls[c].pc = "answered" => calls[c].pair.refresh # None
                          /\ calls[c].pc = "login" => calls[c].account \in Accounts

(* A pair without a refresh token, or with one of the stored account. *)
OfTheUser(pair) == pair.refresh # None => server.owner[pair.refresh] = entry.user
IOwn ==
    "stray" \notin mishap =>
        /\ OfTheUser(entry.pair) /\ OfTheUser(client[current])
        /\ \A c \in Callers : c[1] = current =>
              /\ calls[c].pc \in {"refreshing", "answered"} => OfTheUser(calls[c].pair)
              /\ calls[c].pc = "login" => calls[c].account = entry.user
IInv == IType /\ IOwn

\* The first sign-in leaves every variable in its type.
LEMMA InitType == Init => IType
<1> SUFFICES ASSUME Init PROVE IType
    OBVIOUS
<1> USE TokensAssumption
<1>1. server.owner = <<FirstAccount>> /\ Issued = 1
  BY DEF Init, Issued
<1>2. entry \in [pair : Held(1), user : Accounts, prompt : {"nobody", "setup", "poll"}] /\ entry.pair.refresh # None
  BY DEF Init, Held, None
<1>3. client \in [Clients -> Held(1)]
  BY DEF Init, Held, NoPair, None
<1>4. calls \in [Callers -> Call(1)] /\ \A c \in Callers : calls[c].pc = "idle"
  BY DEF Init, Held, NoPair, None, Call, Idle, PCs, Purposes
<1> QED  BY <1>1, <1>2, <1>3, <1>4 DEF IType, Init, Clients, Mishaps

\* The first tokens belong to the account that signed in.
LEMMA InitOwn == Init => IOwn
BY TokensAssumption DEF Init, IOwn, OfTheUser, NoPair, Idle, None, Clients, Callers

(* What the steps are made of.                                             *)
LEMMA EndType ==
    ASSUME NEW c \in Callers, NEW n \in Nat, NEW call \in Call(n), calls \in [Callers -> Call(n)],
           calls' = [calls EXCEPT ![c] = call]
    PROVE  /\ calls' \in [Callers -> Call(n)] /\ calls'[c] = call
           /\ \A d \in Callers \ {c} : calls'[d] = calls[d]
OBVIOUS

\* An idle call is well typed however many tokens were issued.
LEMMA IdleCall == \A n \in Nat : Idle \in Call(n)
BY DEF Idle, Call, PCs, Purposes, Held, NoPair, None

\* Issuing tokens only widens the types.
LEMMA GrowingTypes == \A n, k \in Nat : n <= k => Held(n) \subseteq Held(k) /\ Call(n) \subseteq Call(k)
<1> TAKE n, k \in Nat
<1> HAVE n <= k
<1>1. Held(n) \subseteq Held(k)
  BY DEF Held
<1>2. Call(n) \subseteq Call(k)
  BY <1>1 DEF Call
<1> QED  BY <1>1, <1>2

Harmless(call) ==
    /\ call.pc \notin {"refreshing", "answered"}
    /\ call.pc = "login" => call.account = entry.user
EntryKeepsTokens ==
    entry' \in [pair : {entry.pair}, user : {entry.user}, prompt : {"nobody", "setup", "poll"}]

(* A call that ends, asks or logs in leaves the invariant alone.           *)
LEMMA CallMovesOn ==
    ASSUME IInv, NEW c \in Callers, NEW call \in Call(Issued), Harmless(call),
           calls' = [calls EXCEPT ![c] = call], UNCHANGED <<server, client, current>>,
           EntryKeepsTokens, stage' \in {"setup", "loaded", "retry", "failed"},
           mishap \subseteq mishap', mishap' \in SUBSET Mishaps
    PROVE  IInv'
<1>1. Issued \in Nat /\ Issued' = Issued
  BY TokensAssumption DEF IInv, IType, Issued
<1>2. /\ calls' \in [Callers -> Call(Issued)] /\ calls'[c] = call
      /\ \A d \in Callers \ {c} : calls'[d] = calls[d]
  BY <1>1, EndType DEF IInv, IType
<1>3. entry'.pair = entry.pair /\ entry'.user = entry.user
      /\ entry' \in [pair : Held(Issued), user : Accounts, prompt : {"nobody", "setup", "poll"}]
  BY DEF EntryKeepsTokens, IInv, IType
<1>4. IType'
  BY <1>1, <1>2, <1>3 DEF IInv, IType, Harmless
<1>5. IOwn'
  BY <1>2, <1>3 DEF IInv, IOwn, OfTheUser, Harmless
<1> QED  BY <1>4, <1>5 DEF IInv

\* The call of a request that is just sent is well typed and carries no answer.
LEMMA CallsMade ==
    ASSUME IInv, NEW purpose \in Purposes, NEW access \in 0 .. Issued, NEW again \in BOOLEAN
    PROVE  LET call == [pc |-> "sent", purpose |-> purpose, pair |-> [NoPair EXCEPT !.access = access],
                        retried |-> again, account |-> None]
           IN  call \in Call(Issued) /\ Harmless(call)
<1>1. [NoPair EXCEPT !.access = access] \in Held(Issued)
  BY TokensAssumption DEF Held, None, NoPair, IInv, IType
<1> QED  BY <1>1 DEF Call, PCs, Harmless

\* The call of a sign-in under way is well typed and carries no answer.
LEMMA LoginCall ==
    ASSUME IInv
    PROVE  LET call == [pc |-> "login", purpose |-> "login", pair |-> NoPair, retried |-> FALSE,
                        account |-> entry.user]
           IN  call \in Call(Issued) /\ Harmless(call)
<1>1. entry.user \in Accounts /\ NoPair \in Held(Issued)
  BY TokensAssumption DEF IInv, IType, NoPair, Held, None
<1> QED  BY <1>1 DEF Call, PCs, Purposes, Harmless

\* An idle call carries no answer and so no token of another account.
LEMMA IdleIsHarmless == IInv => Idle \in Call(Issued) /\ Harmless(Idle)
<1> SUFFICES ASSUME IInv PROVE Idle \in Call(Issued) /\ Harmless(Idle)
    OBVIOUS
<1>1. Issued \in Nat
  BY TokensAssumption DEF IInv, IType
<1> QED  BY <1>1, IdleCall DEF Harmless, Idle

\* A call that fails keeps the types and the owners of the tokens.
LEMMA ErrorsMoveOn ==
    ASSUME IInv, NEW c \in Callers, AuthError(c) \/ ApiError(c)
    PROVE  /\ \E call \in Call(Issued) : Harmless(call) /\ calls' = [calls EXCEPT ![c] = call]
           /\ EntryKeepsTokens /\ stage' \in {"setup", "loaded", "retry", "failed"}
<1>0. /\ entry = [pair |-> entry.pair, user |-> entry.user, prompt |-> entry.prompt]
      /\ entry.prompt \in {"nobody", "setup", "poll"}
      /\ stage \in {"setup", "loaded", "retry", "failed"}
  BY DEF IInv, IType
<1>1. CASE AuthError(c)
  <2>1. (End(c) \/ LogIn(c)) /\ stage' \in {stage, "failed"}
        /\ (entry' = entry \/ entry' = [entry EXCEPT !.prompt = "setup"] \/ entry' = [entry EXCEPT !.prompt = "poll"])
    BY <1>1 DEF AuthError
  <2>2. \E call \in Call(Issued) : Harmless(call) /\ calls' = [calls EXCEPT ![c] = call]
    <3>1. CASE End(c)
      BY <3>1, IdleIsHarmless DEF End, Await
    <3>2. CASE LogIn(c)
      BY <3>2, LoginCall DEF LogIn, Await
    <3> QED  BY <2>1, <3>1, <3>2
  <2>3. EntryKeepsTokens
    BY <2>1, <1>0 DEF EntryKeepsTokens
  <2> QED  BY <2>1, <2>2, <2>3, <1>0
<1>2. CASE ApiError(c)
  BY <1>2, <1>0, IdleIsHarmless DEF ApiError, End, Await, EntryKeepsTokens
<1> QED  BY <1>1, <1>2

\* Each step of a refresh keeps the types and the owners of the tokens.
LEMMA StepsOfACall ==
    ASSUME IInv, NEW c \in Callers,
           Request(c) \/ Reauthenticate(c) \/ Accepted(c) \/ RefreshRefused(c) \/ LoginRefused(c) \/ Fails(c)
    PROVE  IInv'
<1>0. /\ EntryKeepsTokens \/ entry' # entry
      /\ stage \in {"setup", "loaded", "retry", "failed"} /\ mishap \in SUBSET Mishaps
  BY DEF IInv, IType, EntryKeepsTokens
<1>1. CASE Request(c)
  <2>1. client[current].access \in 0 .. Issued
    BY DEF IInv, IType, Held
  <2>2. \E purpose \in Purposes : Send(c, purpose, client[current].access, FALSE)
    BY <1>1 DEF Request, Purposes, Callers
  <2>3. PICK call \in Call(Issued) : Harmless(call) /\ calls' = [calls EXCEPT ![c] = call]
    BY <2>1, <2>2, CallsMade DEF Send, Await
  <2> QED  BY <1>0, <1>1, <2>3, CallMovesOn DEF Request
<1>2. CASE Reauthenticate(c)
  <2>1. PICK call \in Call(Issued) : Harmless(call) /\ calls' = [calls EXCEPT ![c] = call]
    BY <1>2, LoginCall DEF Reauthenticate, LogIn, Await
  <2> QED  BY <1>0, <1>2, <2>1, CallMovesOn DEF Reauthenticate
<1>3. CASE Accepted(c)
  <2>1. Idle \in Call(Issued) /\ Harmless(Idle) /\ calls' = [calls EXCEPT ![c] = Idle]
    BY <1>3, IdleIsHarmless DEF Accepted, End, Await
  <2> QED  BY <1>0, <1>3, <2>1, CallMovesOn DEF Accepted
<1>4. CASE RefreshRefused(c) \/ LoginRefused(c) \/ Fails(c)
  <2>1. (AuthError(c) \/ ApiError(c)) /\ UNCHANGED <<server, client, current>>
        /\ mishap \subseteq mishap' /\ mishap' \in SUBSET Mishaps
    BY <1>0, <1>4 DEF RefreshRefused, LoginRefused, Fails, Mishaps
  <2> QED  BY <2>1, ErrorsMoveOn, CallMovesOn
<1> QED  BY <1>1, <1>2, <1>3, <1>4

\* A refused refresh keeps the types and the owners of the tokens.
LEMMA RefusedStep ==
    ASSUME IInv, NEW c \in Callers, Refused(c)
    PROVE  IInv'
<1>1. CASE AuthError(c)
  BY <1>1, ErrorsMoveOn, CallMovesOn DEF Refused, IInv, IType
<1>2. CASE ~AuthError(c)
  <2> DEFINE call == [calls[c] EXCEPT !.pc = "refreshing", !.pair = client[c[1]]]
  <2>1. /\ calls' = [calls EXCEPT ![c] = call]
        /\ UNCHANGED <<server, entry, stage, client, current, mishap>>
    BY <1>2 DEF Refused, Await
  <2>2. Issued \in Nat /\ Issued' = Issued
    BY <2>1, TokensAssumption DEF IInv, IType, Issued
  <2>3. call \in Call(Issued) /\ call.pc = "refreshing" /\ call.pair = client[c[1]]
    BY DEF IInv, IType, Call, PCs, Callers
  <2> HIDE DEF call
  <2>4. /\ calls' \in [Callers -> Call(Issued)] /\ calls'[c] = call
        /\ \A d \in Callers \ {c} : calls'[d] = calls[d]
    BY <2>1, <2>2, <2>3, EndType DEF IInv, IType
  <2>5. IType'
    BY <2>1, <2>2, <2>3, <2>4 DEF IInv, IType
  <2>6. IOwn'
    BY <2>1, <2>3, <2>4 DEF IInv, IOwn, OfTheUser
  <2> QED  BY <2>5, <2>6 DEF IInv
<1> QED  BY <1>1, <1>2

(* A new pair has the next number; what was issued stays whose it was.     *)
LEMMA IssueGrows ==
    ASSUME IType, NEW a \in Accounts, Issued < MaxIssued, server'.owner = Append(server.owner, a)
    PROVE  /\ Issued \in Nat \ {0} /\ Issued' = Issued + 1 /\ Issued' \in 1 .. MaxIssued
           /\ server'.owner \in Seq(Accounts) /\ server'.owner[Issued + 1] = a
           /\ \A n \in 1 .. Issued : server'.owner[n] = server.owner[n]
<1>1. server.owner \in Seq(Accounts) /\ Issued \in 1 .. MaxIssued /\ Issued = Len(server.owner)
      /\ MaxIssued \in Nat
  BY TokensAssumption DEF IType, Issued
<1>2. Issued' = Len(server'.owner)
  BY DEF Issued
<1> QED  BY <1>1, <1>2

\* Issuing a token keeps the types.
LEMMA IssueType ==
    ASSUME IType, NEW a \in Accounts, NEW used \in 0 .. Issued, Issue(a, used)
    PROVE  /\ server' \in [rotates : BOOLEAN, valid : SUBSET (1 .. Issued'), fresh : SUBSET (1 .. Issued'),
                           owner : Seq(Accounts), right : BOOLEAN]
           /\ server'.owner = Append(server.owner, a) /\ Issued < MaxIssued
           /\ NewPair(used) \in Held(Issued') /\ NewPair(used).refresh # None
           /\ NewPair(used).refresh \in {Issued + 1} \cup ({used} \ {None})
<1>0. /\ server = [rotates |-> server.rotates, valid |-> server.valid, fresh |-> server.fresh,
                   owner |-> server.owner, right |-> server.right]
      /\ server.rotates \in BOOLEAN /\ server.right \in BOOLEAN
      /\ server.valid \subseteq 1 .. Issued /\ server.fresh \subseteq 1 .. Issued
  BY DEF IType
<1>1. Issued < MaxIssued
      /\ server' = [rotates |-> server.rotates,
                    valid |-> (server.valid \ (IF server.rotates THEN {used} ELSE {})) \cup {NewPair(used).refresh},
                    fresh |-> server.fresh \cup {Issued + 1},
                    owner |-> Append(server.owner, a), right |-> server.right]
  BY <1>0 DEF Issue
<1>2. server'.owner = Append(server.owner, a)
  BY <1>1
<1>3. Issued \in Nat \ {0} /\ Issued' = Issued + 1 /\ server'.owner \in Seq(Accounts)
  BY <1>1, <1>2, IssueGrows
<1>4. /\ NewPair(used).refresh \in {Issued + 1} \cup ({used} \ {None})
      /\ NewPair(used) = [access |-> Issued + 1, refresh |-> NewPair(used).refresh]
  BY DEF NewPair
<1>5. NewPair(used).refresh \in 1 .. Issued'
  BY <1>3, <1>4 DEF None
<1>6. NewPair(used) \in Held(Issued')
  BY <1>3, <1>4, <1>5 DEF Held
<1>7. /\ server'.valid \subseteq 1 .. Issued'
      /\ server'.fresh \subseteq 1 .. Issued'
  BY <1>0, <1>1, <1>3, <1>5
<1> QED  BY <1>0, <1>1, <1>2, <1>3, <1>4, <1>5, <1>6, <1>7 DEF None

(* What was held before a pair was issued is still well typed, and whose it was. *)
LEMMA HeldBefore ==
    ASSUME IType, Issued \in Nat, Issued' = Issued + 1
    PROVE  /\ entry \in [pair : Held(Issued'), user : Accounts, prompt : {"nobody", "setup", "poll"}]
           /\ client \in [Clients -> Held(Issued')]
           /\ calls \in [Callers -> Call(Issued')]
<1>1. Held(Issued) \subseteq Held(Issued') /\ Call(Issued) \subseteq Call(Issued')
  BY GrowingTypes
<1> QED  BY <1>1 DEF IType

\* Issuing a token changes the owner of none issued before.
LEMMA OwnersStay ==
    ASSUME NEW pair \in Held(Issued), OfTheUser(pair), entry'.user = entry.user,
           \A n \in 1 .. Issued : server'.owner[n] = server.owner[n], Issued \in Nat
    PROVE  pair.refresh # None => server'.owner[pair.refresh] = entry'.user
<1>1. pair.refresh \in 0 .. Issued
  BY DEF Held
<1> QED  BY <1>1 DEF OfTheUser, None

(* The server answers a refresh or a login.                                *)
LEMMA AnswerIsOnTheWay ==
    ASSUME IInv, NEW c \in Callers, NEW a \in Accounts, NEW used \in 0 .. Issued, Issue(a, used),
           Await(c, [calls[c] EXCEPT !.pc = "answered", !.pair = NewPair(used)]),
           UNCHANGED <<entry, stage, client, current, mishap>>,
           "stray" \notin mishap /\ c[1] = current => a = entry.user /\ (used # None => server.owner[used] = a)
    PROVE  IInv'
<1> DEFINE call == [calls[c] EXCEPT !.pc = "answered", !.pair = NewPair(used)]
<1>1. /\ server' \in [rotates : BOOLEAN, valid : SUBSET (1 .. Issued'), fresh : SUBSET (1 .. Issued'),
                      owner : Seq(Accounts), right : BOOLEAN]
      /\ server'.owner = Append(server.owner, a) /\ Issued < MaxIssued
      /\ NewPair(used) \in Held(Issued') /\ NewPair(used).refresh # None
      /\ NewPair(used).refresh \in {Issued + 1} \cup ({used} \ {None})
  BY IssueType DEF IInv
<1>2. /\ Issued \in Nat \ {0} /\ Issued' = Issued + 1 /\ Issued' \in 1 .. MaxIssued
      /\ server'.owner[Issued + 1] = a
      /\ \A n \in 1 .. Issued : server'.owner[n] = server.owner[n]
  BY <1>1, IssueGrows DEF IInv
<1>3. /\ entry \in [pair : Held(Issued'), user : Accounts, prompt : {"nobody", "setup", "poll"}]
      /\ client \in [Clients -> Held(Issued')]
      /\ calls \in [Callers -> Call(Issued')]
  BY <1>2, HeldBefore DEF IInv
<1>4. call \in Call(Issued') /\ call.pc = "answered" /\ call.pair = NewPair(used)
  <2>1. calls[c] \in Call(Issued')
    BY <1>3
  <2> HIDE DEF Callers
  <2> QED  BY <1>1, <2>1 DEF Call, PCs
<1>5. calls' = [calls EXCEPT ![c] = call]
  BY DEF Await
<1> HIDE DEF call
<1>6. /\ calls' \in [Callers -> Call(Issued')] /\ calls'[c] = call
      /\ \A d \in Callers \ {c} : calls'[d] = calls[d]
  BY <1>2, <1>3, <1>4, <1>5, EndType
<1>7. IType'
  BY <1>1, <1>2, <1>3, <1>4, <1>6 DEF IInv, IType
<1>8. IOwn'
  <2> SUFFICES ASSUME "stray" \notin mishap PROVE IOwn'
      BY DEF IOwn
  <2>1. /\ entry.pair \in Held(Issued) /\ client[current] \in Held(Issued)
        /\ \A d \in Callers : calls[d].pair \in Held(Issued)
    BY DEF IInv, IType, Call
  <2>2. OfTheUser(entry.pair)' /\ OfTheUser(client[current])'
    BY <1>2, <2>1, OwnersStay DEF IInv, IOwn, OfTheUser
  <2>3. ASSUME NEW d \in Callers, d[1] = current
        PROVE  /\ calls'[d].pc \in {"refreshing", "answered"} => OfTheUser(calls[d].pair)'
               /\ calls'[d].pc = "login" => calls'[d].account = entry'.user
    <3>1. CASE d = c
      <4>1. server'.owner[NewPair(used).refresh] = entry.user
        <5>1. a = entry.user /\ (used # None => server.owner[used] = a)
          BY <2>3, <3>1
        <5>2. CASE NewPair(used).refresh = Issued + 1
          BY <1>2, <5>1, <5>2
        <5>3. CASE NewPair(used).refresh = used /\ used # None
          <6>1. used \in 1 .. Issued
            BY <1>2, <5>3 DEF None
          <6> QED  BY <1>2, <5>1, <5>3, <6>1
        <5> QED  BY <1>1, <5>2, <5>3
      <4> QED  BY <4>1, <3>1, <1>4, <1>6 DEF OfTheUser
    <3>2. CASE d # c
      <4>1. calls'[d] = calls[d]
        BY <1>6, <3>2
      <4> QED  BY <4>1, <1>2, <2>1, <2>3, OwnersStay DEF IInv, IOwn, OfTheUser
    <3> QED  BY <3>1, <3>2
  <2> QED  BY <2>2, <2>3 DEF IOwn, OfTheUser
<1> QED  BY <1>7, <1>8 DEF IInv

\* An answer of the provider keeps the types and the owners of the tokens.
LEMMA ServerAnswers ==
    ASSUME IInv, NEW c \in Callers, Renewed(c) \/ LoggedIn(c)
    PROVE  IInv'
<1>1. CASE Renewed(c)
  <2> DEFINE used == calls[c].pair.refresh
  <2>1. used \in 1 .. Issued /\ Issued \in Nat
    BY <1>1, TokensAssumption DEF Renewed, IInv, IType
  <2>2. server.owner[used] \in Accounts /\ used \in 0 .. Issued /\ used # None
    BY <2>1 DEF IInv, IType, Issued, None
  <2>3. "stray" \notin mishap /\ c[1] = current => server.owner[used] = entry.user
    BY <1>1, <2>2 DEF Renewed, IInv, IOwn, OfTheUser
  <2> QED  BY <1>1, <2>2, <2>3, AnswerIsOnTheWay DEF Renewed
<1>2. CASE LoggedIn(c)
  <2>1. calls[c].account \in Accounts
    <3>1. calls[c].pc = "login"
      BY <1>2 DEF LoggedIn
    <3>2. \A d \in Callers : calls[d].pc = "login" => calls[d].account \in Accounts
      BY DEF IInv, IType
    <3> QED  BY <3>1, <3>2
  <2>2. None \in 0 .. Issued
    BY TokensAssumption DEF IInv, IType, None
  <2>3. "stray" \notin mishap /\ c[1] = current => calls[c].account = entry.user
    BY <1>2 DEF LoggedIn, IInv, IOwn
  <2> QED  BY <1>2, <2>1, <2>2, <2>3, AnswerIsOnTheWay DEF LoggedIn
<1> QED  BY <1>1, <1>2

(* The client takes the pair of an answer, and the entry with it.          *)
LEMMA AnsweredStep ==
    ASSUME IInv, NEW c \in Callers, Answered(c)
    PROVE  IInv'
<1> DEFINE pair == calls[c].pair
<1>0. Issued \in Nat /\ Issued' = Issued /\ UNCHANGED <<server, current>>
  BY TokensAssumption DEF IInv, IType, Issued, Answered
<1>1. pair \in Held(Issued) /\ pair.refresh # None /\ pair.access \in 0 .. Issued
  <2>1. calls[c] \in Call(Issued) /\ calls[c].pc = "answered"
    BY DEF IInv, IType, Answered
  <2> QED  BY <2>1 DEF Call, Held, IInv, IType
<1>2. /\ entry' = [pair |-> pair, user |-> entry.user, prompt |-> entry.prompt]
      /\ entry.user \in Accounts /\ entry.prompt \in {"nobody", "setup", "poll"}
  BY DEF IInv, IType, Answered
<1>3. \E call \in Call(Issued) : Harmless(call) /\ calls' = [calls EXCEPT ![c] = call]
  <2>1. CASE End(c)
    BY <2>1, IdleIsHarmless DEF End, Await
  <2>2. CASE ~End(c)
    <3>1. calls[c].purpose \in Purposes /\ Send(c, calls[c].purpose, pair.access, TRUE)
      <4>1. calls[c] \in Call(Issued)
        BY DEF IInv, IType
      <4> QED  BY <2>2, <4>1 DEF Answered, Call
    <3> QED  BY <3>1, <1>1, CallsMade DEF Send, Await
  <2> QED  BY <2>1, <2>2
<1>4. PICK call \in Call(Issued) : Harmless(call) /\ calls' = [calls EXCEPT ![c] = call]
  BY <1>3
<1>5. /\ calls' \in [Callers -> Call(Issued)] /\ calls'[c] = call
      /\ \A d \in Callers \ {c} : calls'[d] = calls[d]
  BY <1>0, <1>4, EndType DEF IInv, IType
<1>6. /\ client' \in [Clients -> Held(Issued)] /\ client'[c[1]] = pair
      /\ \A k \in Clients \ {c[1]} : client'[k] = client[k]
  BY <1>1 DEF Answered, IInv, IType, Callers
<1>7. /\ stage' \in {"setup", "loaded", "retry", "failed"} /\ mishap' \in SUBSET Mishaps
      /\ "stray" \notin mishap' => "stray" \notin mishap /\ c[1] = current
  BY DEF Answered, IInv, IType, Mishaps
<1>8. "stray" \notin mishap' => OfTheUser(pair)
  BY <1>7 DEF Answered, IInv, IOwn
<1> HIDE DEF pair
<1>9. IType'
  <2>1. entry' \in [pair : Held(Issued), user : Accounts, prompt : {"nobody", "setup", "poll"}]
        /\ entry'.pair.refresh # None
    BY <1>1, <1>2
  <2>2. \A d \in Callers : /\ calls'[d].pc = "answered" => calls'[d].pair.refresh # None
                           /\ calls'[d].pc = "login" => calls'[d].account \in Accounts
    BY <1>2, <1>4, <1>5 DEF Harmless, IInv, IType
  <2> QED  BY <1>0, <1>5, <1>6, <1>7, <2>1, <2>2 DEF IInv, IType
<1>10. IOwn'
  <2> SUFFICES ASSUME "stray" \notin mishap' PROVE IOwn'
      BY DEF IOwn
  <2>1. c[1] = current /\ current \in Clients /\ client'[current] = pair /\ "stray" \notin mishap
    BY <1>6, <1>7 DEF IInv, IType
  <2>2. OfTheUser(entry.pair)' /\ OfTheUser(client[current])'
    BY <1>0, <1>2, <1>8, <2>1 DEF OfTheUser
  <2>3. ASSUME NEW d \in Callers, d[1] = current
        PROVE  /\ calls'[d].pc \in {"refreshing", "answered"} => OfTheUser(calls[d].pair)'
               /\ calls'[d].pc = "login" => calls'[d].account = entry'.user
    <3>1. CASE d = c
      BY <3>1, <1>2, <1>4, <1>5 DEF Harmless
    <3>2. CASE d # c
      BY <3>2, <1>0, <1>2, <1>5, <2>1, <2>3 DEF IInv, IOwn, OfTheUser
    <3> QED  BY <3>1, <3>2
  <2> QED  BY <1>0, <2>2, <2>3 DEF IOwn
<1> QED  BY <1>9, <1>10 DEF IInv

(* A new set-up starts with no tokens and no calls under way.              *)
LEMMA ReplaceType ==
    ASSUME IType, Replace, UNCHANGED calls
    PROVE  /\ current' \in Clients /\ stage' = "setup" /\ client' \in [Clients -> Held(Issued)]
           /\ client'[current'] = NoPair
           /\ \A d \in Callers : d[1] = current' => calls[d].pc = "idle"
<1>1. current \in Clients /\ current' = 3 - current /\ current' \in Clients
  BY DEF IType, Replace, Successor, Clients
<1>2. NoPair \in Held(Issued)
  BY TokensAssumption DEF IType, NoPair, Held, None
<1>3. client' = [client EXCEPT ![current'] = NoPair] /\ stage' = "setup"
  BY DEF Replace
<1>4. client' \in [Clients -> Held(Issued)] /\ client'[current'] = NoPair
  BY <1>1, <1>2, <1>3 DEF IType
<1>5. ASSUME NEW d \in Callers, d[1] = current' PROVE calls[d].pc = "idle"
  <2>1. d = <<current', "main">> \/ d = <<current', "other">>
    BY <1>5 DEF Callers
  <2> QED  BY <2>1 DEF Replace
<1> QED  BY <1>1, <1>3, <1>4, <1>5

\* A completed sign-in keeps the types and the owners of the tokens.
LEMMA SignInStep ==
    ASSUME IInv, NEW a \in Accounts, SignIn(a)
    PROVE  IInv'
<1>0. /\ server = [rotates |-> server.rotates, valid |-> server.valid, fresh |-> server.fresh,
                   owner |-> server.owner, right |-> server.right]
      /\ server.rotates \in BOOLEAN
      /\ server.valid \subseteq 1 .. Issued /\ server.fresh \subseteq 1 .. Issued
  BY DEF IInv, IType
<1>1. /\ Issued < MaxIssued
      /\ server' = [rotates |-> server.rotates, valid |-> server.valid \cup {Issued + 1},
                    fresh |-> server.fresh \cup {Issued + 1}, owner |-> Append(server.owner, a), right |-> TRUE]
  BY <1>0 DEF SignIn
<1>2. server'.owner = Append(server.owner, a)
  BY <1>1
<1>3. /\ Issued \in Nat \ {0} /\ Issued' = Issued + 1 /\ Issued' \in 1 .. MaxIssued
      /\ server'.owner \in Seq(Accounts) /\ server'.owner[Issued + 1] = a
  BY <1>1, <1>2, IssueGrows DEF IInv
<1>4. server' \in [rotates : BOOLEAN, valid : SUBSET (1 .. Issued'), fresh : SUBSET (1 .. Issued'),
                   owner : Seq(Accounts), right : BOOLEAN]
  <2>1. server.valid \cup {Issued + 1} \subseteq 1 .. Issued' /\ server.fresh \cup {Issued + 1} \subseteq 1 .. Issued'
    BY <1>0, <1>3
  <2> QED  BY <1>0, <1>1, <1>2, <1>3, <2>1
<1>5. NewPair(None) = [access |-> Issued + 1, refresh |-> Issued + 1]
  BY DEF NewPair
<1>6. NewPair(None) \in Held(Issued') /\ NewPair(None).refresh = Issued + 1 /\ Issued + 1 # None
  BY <1>3, <1>5 DEF Held, None
<1>7. entry' = [pair |-> NewPair(None), user |-> a, prompt |-> "nobody"]
  BY DEF SignIn
<1>8. /\ current' \in Clients /\ stage' = "setup" /\ client' \in [Clients -> Held(Issued)]
      /\ client'[current'] = NoPair /\ UNCHANGED <<calls, mishap>>
      /\ \A d \in Callers : d[1] = current' => calls[d].pc = "idle"
  BY ReplaceType DEF SignIn, IInv
<1>9. Held(Issued) \subseteq Held(Issued') /\ Call(Issued) \subseteq Call(Issued')
  BY <1>3, GrowingTypes
<1>10. IType'
  <2>1. entry' \in [pair : Held(Issued'), user : Accounts, prompt : {"nobody", "setup", "poll"}]
        /\ entry'.pair.refresh # None
    BY <1>6, <1>7
  <2>2. client' \in [Clients -> Held(Issued')] /\ calls' \in [Callers -> Call(Issued')]
    BY <1>8, <1>9 DEF IInv, IType
  <2> QED  BY <1>3, <1>4, <1>8, <2>1, <2>2 DEF IInv, IType
<1>11. IOwn'
  <2>1. OfTheUser(entry.pair)'
    BY <1>3, <1>6, <1>7 DEF OfTheUser
  <2>2. OfTheUser(client[current])'
    BY <1>8 DEF OfTheUser, NoPair
  <2> QED  BY <1>8, <2>1, <2>2 DEF IOwn
<1> QED  BY <1>10, <1>11 DEF IInv

(* The steps of the entry and of the world around it.                      *)
LEMMA EntrySteps ==
    ASSUME IInv, SetUp \/ Reload \/ Retry \/ Expires \/ PasswordChanges
    PROVE  IInv'
<1>0. Issued \in Nat /\ IType /\ IOwn
  BY TokensAssumption DEF IInv, IType
<1>1. CASE SetUp
  <2> DEFINE main == <<current, "main">>
  <2>1. main \in Callers /\ main[1] = current /\ current \in Clients
    BY <1>0 DEF IType, Callers
  <2>2. entry.pair \in Held(Issued) /\ entry.pair.access \in 0 .. Issued /\ "probe" \in Purposes
    BY <1>0 DEF IType, Held, Purposes
  <2>3. PICK call \in Call(Issued) : Harmless(call) /\ calls' = [calls EXCEPT ![main] = call]
    BY <1>1, <2>2, CallsMade DEF SetUp, Send, Await
  <2> HIDE DEF main
  <2>4. /\ calls' \in [Callers -> Call(Issued)] /\ calls'[main] = call
        /\ \A d \in Callers \ {main} : calls'[d] = calls[d]
    BY <1>0, <2>1, <2>3, EndType DEF IType
  <2>5. /\ UNCHANGED <<server, entry, stage, current, mishap>> /\ Issued' = Issued
        /\ client' = [client EXCEPT ![current] = entry.pair]
    BY <1>1 DEF SetUp, Issued
  <2>6. client' \in [Clients -> Held(Issued)] /\ client'[current] = entry.pair
    BY <1>0, <2>1, <2>2, <2>5 DEF IType
  <2>7. IType'
    BY <1>0, <2>3, <2>4, <2>5, <2>6 DEF IType, Harmless
  <2>8. IOwn'
    BY <1>0, <2>3, <2>4, <2>5, <2>6 DEF IOwn, OfTheUser, Harmless
  <2> QED  BY <2>7, <2>8 DEF IInv
<1>2. CASE Reload
  <2>1. UNCHANGED <<server, entry, calls, mishap>> /\ Issued' = Issued
    BY <1>2 DEF Reload, Issued
  <2>2. /\ current' \in Clients /\ stage' = "setup" /\ client' \in [Clients -> Held(Issued)]
        /\ client'[current'] = NoPair
        /\ \A d \in Callers : d[1] = current' => calls[d].pc = "idle"
    BY <1>0, <1>2, <2>1, ReplaceType DEF Reload
  <2>3. IType'
    BY <1>0, <2>1, <2>2 DEF IType
  <2>4. OfTheUser(client[current])'
    BY <2>2 DEF OfTheUser, NoPair
  <2>5. IOwn'
    BY <1>0, <2>1, <2>2, <2>4 DEF IOwn, OfTheUser
  <2> QED  BY <2>3, <2>5 DEF IInv
<1>3. CASE Retry
  <2>1. UNCHANGED <<server, entry, client, current, calls, mishap>> /\ stage' = "setup" /\ Issued' = Issued
    BY <1>3 DEF Retry, Issued
  <2> QED  BY <1>0, <2>1 DEF IInv, IType, IOwn, OfTheUser
<1>4. CASE Expires \/ PasswordChanges
  <2>0. /\ server = [rotates |-> server.rotates, valid |-> server.valid, fresh |-> server.fresh,
                     owner |-> server.owner, right |-> server.right]
        /\ server.rotates \in BOOLEAN /\ server.right \in BOOLEAN /\ server.owner \in Seq(Accounts)
        /\ server.valid \subseteq 1 .. Issued /\ server.fresh \subseteq 1 .. Issued
    BY <1>0 DEF IType
  <2>1. \E valid, fresh \in SUBSET (1 .. Issued), right \in BOOLEAN :
           server' = [rotates |-> server.rotates, valid |-> valid, fresh |-> fresh,
                      owner |-> server.owner, right |-> right]
    <3>1. CASE Expires
      <4>1. PICK n \in server.fresh : server' = [server EXCEPT !.fresh = @ \ {n}]
        BY <3>1 DEF Expires
      <4>2. server' = [rotates |-> server.rotates, valid |-> server.valid, fresh |-> server.fresh \ {n},
                       owner |-> server.owner, right |-> server.right]
        BY <2>0, <4>1
      <4>3. server.fresh \ {n} \in SUBSET (1 .. Issued) /\ server.valid \in SUBSET (1 .. Issued)
        BY <2>0
      <4> QED  BY <2>0, <4>2, <4>3
    <3>2. CASE PasswordChanges
      <4>1. server' = [rotates |-> server.rotates, valid |-> {}, fresh |-> {}, owner |-> server.owner,
                       right |-> FALSE]
        BY <2>0, <3>2 DEF PasswordChanges
      <4> QED  BY <4>1
    <3> QED  BY <1>4, <3>1, <3>2
  <2>2. /\ server' \in [rotates : BOOLEAN, valid : SUBSET (1 .. Issued), fresh : SUBSET (1 .. Issued),
                        owner : Seq(Accounts), right : BOOLEAN]
        /\ server'.owner = server.owner
    BY <2>0, <2>1
  <2>3. /\ UNCHANGED <<entry, stage, client, current, calls>> /\ mishap \subseteq mishap' /\ Issued' = Issued
        /\ mishap' \in SUBSET Mishaps
    BY <1>0, <1>4, <2>2 DEF Expires, PasswordChanges, Issued, IType, Mishaps
  <2>4. IType'
    BY <1>0, <2>2, <2>3 DEF IType
  <2>5. IOwn'
    BY <1>0, <2>2, <2>3 DEF IOwn, OfTheUser
  <2> QED  BY <2>4, <2>5 DEF IInv
<1> QED  BY <1>1, <1>2, <1>3, <1>4

\* Every step keeps types and owners: one case per action.
LEMMA InvStep == IInv /\ [Next]_vars => IInv'
<1> SUFFICES ASSUME IInv, [Next]_vars PROVE IInv'
    OBVIOUS
<1>1. CASE SetUp \/ Retry \/ Reload \/ Expires \/ PasswordChanges
  BY <1>1, EntrySteps
<1>2. ASSUME NEW c \in Callers, Request(c) \/ Reauthenticate(c) \/ CallStep(c) \/ Fails(c)
      PROVE  IInv'
  <2>1. CASE Answered(c)
    BY <2>1, AnsweredStep
  <2>2. CASE Renewed(c) \/ LoggedIn(c)
    BY <2>2, ServerAnswers
  <2>3. CASE Refused(c)
    BY <2>3, RefusedStep
  <2> QED  BY <1>2, <2>1, <2>2, <2>3, StepsOfACall DEF CallStep
<1>3. ASSUME NEW a \in Accounts, SignIn(a) PROVE IInv'
  BY <1>3, SignInStep
<1>4. CASE UNCHANGED vars
  <2>1. UNCHANGED <<server, entry, stage, client, current, calls, mishap>> /\ Issued' = Issued
    BY <1>4 DEF vars, Issued
  <2> QED  BY <2>1 DEF IInv, IType, IOwn, OfTheUser
<1> QED  BY <1>1, <1>2, <1>3, <1>4 DEF Next

(* The bounds and the owners hold in every state of every run of the code. *)
THEOREM IInvAlways == Spec => []IInv
<1>1. Init => IInv
  BY InitType, InitOwn DEF IInv
<1> QED  BY <1>1, InvStep, PTL DEF Spec

(* What the clients, the entry and the calls hold was issued by the server:
   no answer of a refresh or a login is mixed up with another.              *)
THEOREM TypeCorrect == Spec => []TypeOK
<1>1. IInv => TypeOK
  <2> SUFFICES ASSUME IInv PROVE TypeOK
      OBVIOUS
  <2>1. Issued \in 1 .. MaxIssued /\ MaxIssued \in Nat
    BY TokensAssumption DEF IInv, IType
  <2>2. Held(Issued) \subseteq Pairs
    BY <2>1 DEF Held, Pairs
  <2>3. \A c \in Callers : calls[c].pc \in PCs /\ calls[c].pair \in Held(Issued)
    BY DEF IInv, IType, Call
  <2>4. entry.pair \in Held(Issued) /\ entry.pair.refresh \in 1 .. Issued
    BY <2>1 DEF IInv, IType, Held, None
  <2>5. client \in [Clients -> Pairs]
    BY <2>2 DEF IInv, IType
  <2> QED  BY <2>1, <2>2, <2>3, <2>4, <2>5 DEF TypeOK, PCs, IInv, IType
<1> QED  BY <1>1, IInvAlways, PTL

(* Until a replaced client has stored its own, the tokens in the entry are of
   the account in the entry: a sign-in of another user replaces both at once,
   and no refresh or login of the current client brings back the first user's. *)
THEOREM StoredTokensAreOfTheAccount == Spec => []TokensAreOfTheAccount
<1>1. IInv => TokensAreOfTheAccount
  BY DEF IInv, IType, IOwn, OfTheUser, TokensAreOfTheAccount
<1> QED  BY <1>1, IInvAlways, PTL

---------------------------------------------------------------------------
(* What is stored can be refreshed.  With a provider that rotates, a refresh
   token is spent by its first use: the answer on its way to the current
   client has to hold one that nobody else holds until it is stored.        *)
Clear == server.right /\ mishap \cap {"lost", "stray"} = {}
Untouched(c) ==
    server.rotates =>
        /\ entry.pair.refresh # calls[c].pair.refresh
        /\ \A k \in Clients : client[k].refresh # calls[c].pair.refresh
        /\ \A d \in Callers \ {c} :
              calls[d].pc \in {"refreshing", "answered"} => calls[d].pair.refresh # calls[c].pair.refresh
IWorks ==
    Clear =>
        /\ \A c \in Callers :
              c[1] = current /\ calls[c].pc = "answered" => calls[c].pair.refresh \in server.valid /\ Untouched(c)
        /\ (\A c \in Callers : calls[c].pc # "answered") => entry.pair.refresh \in server.valid

\* The tokens of the first sign-in work.
LEMMA InitWorks == Init => IWorks
BY DEF Init, IWorks, Idle

(* A call that is not answered ends, asks, logs in or begins to refresh.   *)
LEMMA WorksMovesOn ==
    ASSUME IType, IWorks, NEW c \in Callers, calls[c].pc # "answered", calls' \in [Callers -> Call(Issued)],
           calls'[c].pc # "answered",
           calls'[c].pc = "refreshing" => calls'[c].pair = client[c[1]],
           \A d \in Callers \ {c} : calls'[d] = calls[d],
           UNCHANGED <<server, client, current>>, entry'.pair = entry.pair, mishap \subseteq mishap'
    PROVE  IWorks'
<1> SUFFICES ASSUME Clear' PROVE IWorks'
    BY DEF IWorks
<1>1. Clear
  BY DEF Clear
<1>2. (\A d \in Callers : calls'[d].pc # "answered") => entry'.pair.refresh \in server'.valid
  BY <1>1 DEF IWorks
<1>3. ASSUME NEW d \in Callers, d[1] = current, calls'[d].pc = "answered"
      PROVE  calls'[d].pair.refresh \in server'.valid /\ Untouched(d)'
  <2>1. d # c /\ calls'[d] = calls[d]
    BY <1>3
  <2>2. calls[d].pair.refresh \in server.valid /\ Untouched(d)
    BY <1>1, <1>3, <2>1 DEF IWorks
  <2>3. c[1] \in Clients
    BY DEF Callers
  <2>4. Untouched(d)'
    <3> SUFFICES ASSUME server'.rotates PROVE Untouched(d)'
        BY DEF Untouched
    <3>1. /\ entry.pair.refresh # calls[d].pair.refresh
          /\ \A k \in Clients : client[k].refresh # calls[d].pair.refresh
          /\ \A e \in Callers \ {d} :
                calls[e].pc \in {"refreshing", "answered"} => calls[e].pair.refresh # calls[d].pair.refresh
      BY <2>2 DEF Untouched
    <3>2. ASSUME NEW e \in Callers \ {d}, calls'[e].pc \in {"refreshing", "answered"}
          PROVE  calls'[e].pair.refresh # calls'[d].pair.refresh
      <4>1. CASE e = c
        BY <2>1, <2>3, <3>1, <3>2, <4>1
      <4>2. CASE e # c
        BY <2>1, <3>1, <3>2, <4>2
      <4> QED  BY <4>1, <4>2
    <3> QED  BY <2>1, <3>1, <3>2 DEF Untouched
  <2> QED  BY <2>1, <2>2, <2>4
<1> QED  BY <1>2, <1>3 DEF IWorks

\* A failed call loses no refresh token that works.
LEMMA WorksThroughErrors ==
    ASSUME IInv, IWorks, NEW c \in Callers,
           Request(c) \/ Reauthenticate(c) \/ Accepted(c) \/ Refused(c) \/ RefreshRefused(c) \/ LoginRefused(c)
           \/ Fails(c)
    PROVE  IWorks'
<1>0. IType /\ calls \in [Callers -> Call(Issued)] /\ Issued \in Nat
  BY TokensAssumption DEF IInv, IType
<1>1. UNCHANGED <<server, client, current>> /\ mishap \subseteq mishap'
  BY DEF Request, Reauthenticate, Accepted, Refused, RefreshRefused, LoginRefused, Fails
<1>2. entry'.pair = entry.pair
  <2>1. CASE AuthError(c) \/ ApiError(c)
    BY <2>1, ErrorsMoveOn DEF EntryKeepsTokens
  <2>2. CASE ~(AuthError(c) \/ ApiError(c))
    BY <2>2 DEF Request, Reauthenticate, Accepted, Refused, RefreshRefused, LoginRefused, Fails
  <2> QED  BY <2>1, <2>2
<1>3. CASE calls[c].pc = "answered"
  <2>1. Fails(c) /\ "lost" \in mishap'
    BY <1>3 DEF Request, Reauthenticate, Accepted, Refused, RefreshRefused, LoginRefused, Fails
  <2> QED  BY <2>1 DEF IWorks, Clear
<1>4. CASE calls[c].pc # "answered"
  <2>1. CASE Refused(c) /\ ~AuthError(c)
    <3>1. calls' = [calls EXCEPT ![c] = [calls[c] EXCEPT !.pc = "refreshing", !.pair = client[c[1]]]]
      BY <2>1 DEF Refused, Await
    <3>2. [calls[c] EXCEPT !.pc = "refreshing", !.pair = client[c[1]]] \in Call(Issued)
      <4>1. calls[c] \in Call(Issued) /\ client[c[1]] \in Held(Issued)
        BY <1>0 DEF IType, Callers
      <4> HIDE DEF Callers
      <4> QED  BY <4>1 DEF Call, PCs
    <3>3. calls'[c].pc = "refreshing" /\ calls'[c].pair = client[c[1]]
      <4>1. calls[c] \in Call(Issued)
        BY <1>0
      <4>2. /\ [calls[c] EXCEPT !.pc = "refreshing", !.pair = client[c[1]]].pc = "refreshing"
            /\ [calls[c] EXCEPT !.pc = "refreshing", !.pair = client[c[1]]].pair = client[c[1]]
        BY <4>1 DEF Call
      <4> QED  BY <1>0, <3>1, <4>2
    <3>4. calls' \in [Callers -> Call(Issued)] /\ \A d \in Callers \ {c} : calls'[d] = calls[d]
      BY <1>0, <3>1, <3>2, EndType
    <3> QED  BY <1>0, <1>1, <1>2, <1>4, <3>3, <3>4, WorksMovesOn
  <2>2. CASE ~(Refused(c) /\ ~AuthError(c))
    <3>1. PICK call \in Call(Issued) : Harmless(call) /\ calls' = [calls EXCEPT ![c] = call]
      <4>1. CASE AuthError(c) \/ ApiError(c)
        BY <4>1, ErrorsMoveOn
      <4>2. CASE Request(c)
        <5>1. client[current].access \in 0 .. Issued
          BY <1>0 DEF IType, Held
        <5>2. \E purpose \in Purposes : Send(c, purpose, client[current].access, FALSE)
          BY <4>2 DEF Request, Purposes, Callers
        <5> QED  BY <5>1, <5>2, CallsMade DEF Send, Await
      <4>3. CASE Reauthenticate(c)
        BY <4>3, LoginCall DEF Reauthenticate, LogIn, Await
      <4>4. CASE Accepted(c)
        BY <4>4, IdleIsHarmless DEF Accepted, End, Await
      <4> QED  BY <2>2, <4>1, <4>2, <4>3, <4>4 DEF RefreshRefused, LoginRefused, Fails
    <3>2. /\ calls' \in [Callers -> Call(Issued)] /\ calls'[c] = call
          /\ \A d \in Callers \ {c} : calls'[d] = calls[d]
      BY <1>0, <3>1, EndType
    <3> QED  BY <1>0, <1>1, <1>2, <1>4, <3>1, <3>2, WorksMovesOn DEF Harmless
  <2> QED  BY <2>1, <2>2
<1> QED  BY <1>3, <1>4

(* The server answers: the new refresh token is nobody else's, or, where the
   provider does not rotate, no token stops working.                         *)
LEMMA WorksWhenAnswered ==
    ASSUME IInv, IWorks, NEW c \in Callers, NEW a \in Accounts, NEW used \in 0 .. Issued, Issue(a, used),
           Await(c, [calls[c] EXCEPT !.pc = "answered", !.pair = NewPair(used)]),
           used # None => calls[c].pc = "refreshing" /\ calls[c].pair.refresh = used,
           UNCHANGED <<entry, stage, client, current, mishap>>
    PROVE  IWorks'
<1> SUFFICES ASSUME Clear' PROVE IWorks'
    BY DEF IWorks
<1>0. IType /\ Issued \in Nat
  BY TokensAssumption DEF IInv, IType
<1>1. /\ server = [rotates |-> server.rotates, valid |-> server.valid, fresh |-> server.fresh,
                   owner |-> server.owner, right |-> server.right]
      /\ server.valid \subseteq 1 .. Issued
  BY <1>0 DEF IType
<1>2. server' = [rotates |-> server.rotates,
                 valid |-> (server.valid \ (IF server.rotates THEN {used} ELSE {})) \cup {NewPair(used).refresh},
                 fresh |-> server.fresh \cup {Issued + 1},
                 owner |-> Append(server.owner, a), right |-> server.right]
  BY <1>1 DEF Issue
<1>3. /\ server'.rotates = server.rotates /\ server'.right = server.right
      /\ server'.valid = (server.valid \ (IF server.rotates THEN {used} ELSE {})) \cup {NewPair(used).refresh}
  BY <1>2
<1>4. Clear
  BY <1>3 DEF Clear
<1>5. /\ calls'[c].pc = "answered" /\ calls'[c].pair = NewPair(used)
      /\ \A d \in Callers \ {c} : calls'[d] = calls[d]
  <2>1. calls[c] \in Call(Issued) /\ calls \in [Callers -> Call(Issued)]
    BY <1>0 DEF IType
  <2>2. LET new == [calls[c] EXCEPT !.pc = "answered", !.pair = NewPair(used)]
        IN  new.pc = "answered" /\ new.pair = NewPair(used)
    BY <2>1 DEF Call
  <2> QED  BY <2>1, <2>2 DEF Await
<1>6. server.rotates => NewPair(used).refresh = Issued + 1
  BY DEF NewPair
<1>7. \A d \in Callers : calls[d].pair.refresh \in 0 .. Issued
  BY <1>0 DEF IType, Call, Held
<1>8. entry.pair.refresh \in 0 .. Issued /\ \A k \in Clients : client[k].refresh \in 0 .. Issued
  BY <1>0 DEF IType, Held
<1>9. ASSUME NEW d \in Callers, d[1] = current, calls'[d].pc = "answered"
      PROVE  calls'[d].pair.refresh \in server'.valid /\ Untouched(d)'
  <2>1. CASE d = c
    <3>1. calls'[d].pair.refresh \in server'.valid
      BY <1>3, <1>5, <2>1
    <3>2. ASSUME server.rotates
          PROVE  /\ entry.pair.refresh # calls'[d].pair.refresh
                 /\ \A k \in Clients : client[k].refresh # calls'[d].pair.refresh
                 /\ \A e \in Callers \ {d} : calls[e].pair.refresh # calls'[d].pair.refresh
      <4>1. calls'[d].pair.refresh = Issued + 1
        BY <1>5, <1>6, <2>1, <3>2
      <4>2. \A n \in 0 .. Issued : n # Issued + 1
        BY <1>0
      <4> QED  BY <1>7, <1>8, <4>1, <4>2
    <3> QED  BY <1>3, <1>5, <2>1, <3>1, <3>2 DEF Untouched
  <2>2. CASE d # c
    <3>1. calls'[d] = calls[d]
      BY <1>5, <2>2
    <3>2. calls[d].pair.refresh \in server.valid /\ Untouched(d)
      BY <1>4, <1>9, <3>1 DEF IWorks
    <3>3. server.rotates => calls[d].pair.refresh # used
      <4>1. CASE used = None
        <5>1. calls[d].pair.refresh \in 1 .. Issued
          BY <1>1, <3>2
        <5> QED  BY <1>0, <4>1, <5>1 DEF None
      <4>2. CASE used # None
        BY <2>2, <3>2, <4>2 DEF Untouched
      <4> QED  BY <4>1, <4>2
    <3>4. calls'[d].pair.refresh \in server'.valid
      BY <1>3, <3>1, <3>2, <3>3
    <3>5. server.rotates => calls'[c].pair.refresh # calls[d].pair.refresh
      <4>1. calls[d].pair.refresh # Issued + 1
        BY <1>0, <1>7
      <4> QED  BY <1>5, <1>6, <4>1
    <3>6. Untouched(d)'
      BY <1>3, <1>5, <2>2, <3>1, <3>2, <3>5 DEF Untouched
    <3> QED  BY <3>4, <3>6
  <2> QED  BY <2>1, <2>2
<1> QED  BY <1>5, <1>9 DEF IWorks

\* An answer of the provider keeps the token that works: it is stored or on its way.
LEMMA WorksThroughServer ==
    ASSUME IInv, IWorks, NEW c \in Callers, Renewed(c) \/ LoggedIn(c)
    PROVE  IWorks'
<1>1. CASE Renewed(c)
  <2> DEFINE used == calls[c].pair.refresh
  <2>1. used \in 1 .. Issued /\ Issued \in Nat
    BY <1>1, TokensAssumption DEF Renewed, IInv, IType
  <2>2. server.owner[used] \in Accounts /\ used \in 0 .. Issued
    BY <2>1 DEF IInv, IType, Issued
  <2> QED  BY <1>1, <2>2, WorksWhenAnswered DEF Renewed
<1>2. CASE LoggedIn(c)
  <2>1. calls[c].account \in Accounts
    <3>1. calls[c].pc = "login"
      BY <1>2 DEF LoggedIn
    <3>2. \A d \in Callers : calls[d].pc = "login" => calls[d].account \in Accounts
      BY DEF IInv, IType
    <3> QED  BY <3>1, <3>2
  <2>2. None \in 0 .. Issued
    BY TokensAssumption DEF IInv, IType, None
  <2> QED  BY <1>2, <2>1, <2>2, WorksWhenAnswered DEF LoggedIn
<1> QED  BY <1>1, <1>2

(* The answer arrives, and what it holds is stored.                        *)
LEMMA WorksWhenStored ==
    ASSUME IInv, IWorks, NEW c \in Callers, Answered(c)
    PROVE  IWorks'
<1> SUFFICES ASSUME Clear' PROVE IWorks'
    BY DEF IWorks
<1>0. IType /\ Issued \in Nat /\ UNCHANGED <<server, current>> /\ calls[c].pc = "answered"
  BY TokensAssumption DEF IInv, IType, Answered
<1>1. Clear /\ c[1] = current /\ c[1] \in Clients
  BY DEF Clear, Answered, Callers
<1>2. calls[c].pair.refresh \in server.valid
  BY <1>0, <1>1 DEF IWorks
<1>3. entry'.pair = calls[c].pair /\ client' = [client EXCEPT ![c[1]] = calls[c].pair]
  BY <1>0 DEF Answered, IType
<1>4. \A k \in Clients : client'[k] = client[k] \/ client'[k] = calls[c].pair
  BY <1>0, <1>3 DEF IType
<1>5. \E call \in Call(Issued) : Harmless(call) /\ calls' = [calls EXCEPT ![c] = call]
  <2>1. CASE End(c)
    BY <2>1, IdleIsHarmless DEF End, Await
  <2>2. CASE ~End(c)
    <3>1. calls[c] \in Call(Issued)
      BY <1>0 DEF IType
    <3>2. calls[c].purpose \in Purposes /\ Send(c, calls[c].purpose, calls[c].pair.access, TRUE)
          /\ calls[c].pair.access \in 0 .. Issued
      BY <2>2, <3>1 DEF Answered, Call, Held
    <3> QED  BY <3>2, CallsMade DEF Send, Await
  <2> QED  BY <2>1, <2>2
<1>6. PICK call \in Call(Issued) : Harmless(call) /\ calls' = [calls EXCEPT ![c] = call]
  BY <1>5
<1>7. calls'[c].pc \notin {"refreshing", "answered"} /\ \A d \in Callers \ {c} : calls'[d] = calls[d]
  BY <1>0, <1>6, EndType DEF Harmless, IType
<1>8. ASSUME NEW d \in Callers, d[1] = current, calls'[d].pc = "answered"
      PROVE  calls'[d].pair.refresh \in server'.valid /\ Untouched(d)'
  <2>1. d # c /\ calls'[d] = calls[d]
    BY <1>7, <1>8
  <2>2. calls[d].pair.refresh \in server.valid /\ Untouched(d)
    BY <1>1, <1>8, <2>1 DEF IWorks
  <2>3. server.rotates => calls[c].pair.refresh # calls[d].pair.refresh
    BY <1>0, <2>1, <2>2 DEF Untouched
  <2>4. Untouched(d)'
    BY <1>0, <1>3, <1>4, <1>7, <2>1, <2>2, <2>3 DEF Untouched
  <2> QED  BY <1>0, <2>1, <2>2, <2>4
<1> QED  BY <1>0, <1>2, <1>3, <1>8 DEF IWorks

\* Storing an answer, setting up and unloading keep the token that works.
LEMMA WorksThroughEntry ==
    ASSUME IInv, IWorks,
           SetUp \/ Reload \/ Retry \/ Expires \/ PasswordChanges \/ (\E a \in Accounts : SignIn(a))
    PROVE  IWorks'
<1>0. IType /\ Issued \in Nat
  BY TokensAssumption DEF IInv, IType
<1>1. CASE SetUp
  <2> DEFINE main == <<current, "main">>
  <2>1. main \in Callers /\ current \in Clients /\ calls[main].pc = "idle"
    BY <1>0, <1>1 DEF IType, Callers, SetUp
  <2>2. entry.pair.access \in 0 .. Issued /\ "probe" \in Purposes
    BY <1>0 DEF IType, Held, Purposes
  <2>3. PICK call \in Call(Issued) : Harmless(call) /\ calls' = [calls EXCEPT ![main] = call]
    BY <1>1, <2>2, CallsMade DEF SetUp, Send, Await
  <2> HIDE DEF main
  <2>4. calls'[main].pc \notin {"refreshing", "answered"} /\ \A d \in Callers \ {main} : calls'[d] = calls[d]
    BY <1>0, <2>1, <2>3, EndType DEF Harmless, IType
  <2>5. UNCHANGED <<server, entry, current, mishap>> /\ client' = [client EXCEPT ![current] = entry.pair]
    BY <1>1 DEF SetUp
  <2>6. \A k \in Clients : client'[k] = client[k] \/ client'[k] = entry.pair
    BY <1>0, <2>5 DEF IType
  <2>7. ASSUME Clear, NEW d \in Callers, d[1] = current, calls'[d].pc = "answered"
        PROVE  calls'[d].pair.refresh \in server'.valid /\ Untouched(d)'
    <3>1. calls'[d] = calls[d] /\ calls[d].pair.refresh \in server.valid /\ Untouched(d)
      BY <2>4, <2>7 DEF IWorks
    <3>2. Untouched(d)'
      BY <2>1, <2>4, <2>5, <2>6, <3>1 DEF Untouched
    <3> QED  BY <2>5, <3>1, <3>2
  <2>8. (\A d \in Callers : calls'[d].pc # "answered") => \A d \in Callers : calls[d].pc # "answered"
    BY <2>1, <2>4
  <2> QED  BY <2>5, <2>7, <2>8 DEF IWorks, Clear
<1>2. CASE Reload
  <2>1. UNCHANGED <<server, entry, calls, mishap>>
    BY <1>2 DEF Reload
  <2>2. \A d \in Callers : d[1] = current' => calls'[d].pc = "idle"
    BY <1>0, <1>2, <2>1, ReplaceType DEF Reload
  <2> QED  BY <2>1, <2>2 DEF IWorks, Clear
<1>3. CASE Retry
  BY <1>3 DEF Retry, IWorks, Clear, Untouched
<1>4. CASE Expires
  <2>1. PICK n \in server.fresh : server' = [server EXCEPT !.fresh = @ \ {n}]
    BY <1>4 DEF Expires
  <2>2. server'.valid = server.valid /\ server'.rotates = server.rotates /\ server'.right = server.right
    BY <1>0, <2>1 DEF IType
  <2> QED  BY <1>4, <2>2 DEF Expires, IWorks, Clear, Untouched
<1>5. CASE PasswordChanges
  <2>1. server'.right = FALSE
    BY <1>0, <1>5 DEF PasswordChanges, IType
  <2> QED  BY <2>1 DEF IWorks, Clear
<1>6. ASSUME NEW a \in Accounts, SignIn(a) PROVE IWorks'
  <2>1. \A d \in Callers : d[1] = current' => calls'[d].pc = "idle"
    BY <1>0, <1>6, ReplaceType DEF SignIn
  <2>2. entry'.pair.refresh = Issued + 1
    BY <1>6 DEF SignIn, NewPair
  <2>3. Issued + 1 \in server'.valid
    BY <1>0, <1>6 DEF SignIn, IType
  <2> QED  BY <2>1, <2>2, <2>3 DEF IWorks
<1> QED  BY <1>1, <1>2, <1>3, <1>4, <1>5, <1>6

\* Every step keeps the token that works: one case per group of actions.
LEMMA WorksStep == IInv /\ IWorks /\ [Next]_vars => IWorks'
<1> SUFFICES ASSUME IInv, IWorks, [Next]_vars PROVE IWorks'
    OBVIOUS
<1>1. CASE SetUp \/ Retry \/ Reload \/ Expires \/ PasswordChanges \/ (\E a \in Accounts : SignIn(a))
  BY <1>1, WorksThroughEntry
<1>2. ASSUME NEW c \in Callers, Request(c) \/ Reauthenticate(c) \/ CallStep(c) \/ Fails(c)
      PROVE  IWorks'
  BY <1>2, WorksThroughErrors, WorksThroughServer, WorksWhenStored DEF CallStep
<1>3. CASE UNCHANGED vars
  BY <1>3 DEF vars, IWorks, Clear, Untouched
<1> QED  BY <1>1, <1>2, <1>3 DEF Next

(* The refresh token in the entry works at the next start: refreshes, forced
   logins and sign-ins at the same time never leave one there that was spent,
   with a provider that rotates and with one that does not.                   *)
THEOREM TheStoredTokenWorks == Spec => []StoredRefreshTokenWorks
<1>1. Init => IInv /\ IWorks
  BY InitType, InitOwn, InitWorks DEF IInv
<1>2. IInv /\ IWorks /\ [Next]_vars => (IInv /\ IWorks)'
  BY InvStep, WorksStep
<1>3. IWorks => StoredRefreshTokenWorks
  BY DEF IWorks, Clear, StoredRefreshTokenWorks
<1> QED  BY <1>1, <1>2, <1>3, PTL DEF Spec

---------------------------------------------------------------------------
(* Why the user is asked.  A login is refused only when the password is    *)
(* wrong; a repeated request has an access token that is still fresh,      *)
(* since it was just received, unless the password was changed.            *)
Fine(call) ==
    /\ call.purpose = "login" => call.pc \in {"login", "answered"}
    /\ call.pc = "login" => call.purpose = "login"
    /\ call.retried => call.pc = "sent"
    /\ call.pc = "answered" \/ call.retried => call.pair.access \in server.fresh \/ "revoked" \in mishap
ICause ==
    /\ ~server.right => "revoked" \in mishap
    /\ \A c \in Callers : Fine(calls[c])

\* The first sign-in was right, and nobody has called.
LEMMA InitCause == Init => ICause
BY DEF Init, ICause, Fine, Idle

\* Nothing takes back an access token or the right password.
Keeps == /\ mishap \subseteq mishap' /\ server.fresh \subseteq server'.fresh
         /\ server.right => server'.right

\* A step of one call, which is fine after it.
LEMMA OneCallCause ==
    ASSUME IType, ICause, Keeps, NEW c \in Callers, NEW call, calls' = [calls EXCEPT ![c] = call],
           Fine(call)'
    PROVE  ICause'
<1>1. calls'[c] = call /\ \A d \in Callers \ {c} : calls'[d] = calls[d]
  BY DEF IType
<1>2. ASSUME NEW d \in Callers \ {c} PROVE Fine(calls[d])'
  BY <1>1, <1>2 DEF ICause, Fine, Keeps
<1>3. Fine(calls[c])'
  BY <1>1 DEF Fine
<1> QED  BY <1>2, <1>3 DEF ICause, Keeps

\* A step that leaves the calls alone.
LEMMA NoCallCause == ASSUME ICause, Keeps, UNCHANGED calls PROVE ICause'
BY DEF ICause, Fine, Keeps

\* A call that ends, begins a login or sends a first request is fine.
LEMMA WaysOn ==
    ASSUME IType, ICause, Keeps, NEW c \in Callers,
           \/ End(c) \/ LogIn(c)
           \/ \E purpose \in {"probe", "poll", "session"} : \E access : Send(c, purpose, access, FALSE)
    PROVE  ICause'
<1>1. CASE End(c)
  <2>1. Fine(Idle)'
    BY DEF Fine, Idle
  <2> QED  BY <1>1, <2>1, OneCallCause DEF End, Await
<1>2. CASE LogIn(c)
  <2> DEFINE call == [pc |-> "login", purpose |-> "login", pair |-> NoPair, retried |-> FALSE, account |-> entry.user]
  <2>1. PICK made : made = call
    OBVIOUS
  <2>2. Fine(made)' /\ calls' = [calls EXCEPT ![c] = made]
    BY <1>2, <2>1 DEF Fine, LogIn, Await
  <2> QED  BY <2>2, OneCallCause
<1>3. CASE \E purpose \in {"probe", "poll", "session"} : \E access : Send(c, purpose, access, FALSE)
  <2>0. PICK purpose \in {"probe", "poll", "session"} : \E access : Send(c, purpose, access, FALSE)
    BY <1>3
  <2>1. PICK access : Send(c, purpose, access, FALSE)
    BY <2>0
  <2>2. PICK made : made = [pc |-> "sent", purpose |-> purpose, pair |-> [NoPair EXCEPT !.access = access],
                            retried |-> FALSE, account |-> None]
    OBVIOUS
  <2>3. Fine(made)' /\ calls' = [calls EXCEPT ![c] = made]
    BY <2>1, <2>2 DEF Fine, Send, Await
  <2> QED  BY <2>3, OneCallCause
<1> QED  BY <1>1, <1>2, <1>3

\* What the user is asked after an authentication error of a call.
LEMMA AuthErrorCause ==
    ASSUME IType, NEW c \in Callers, AuthError(c)
    PROVE  /\ End(c) \/ LogIn(c)
           /\ entry'.prompt # entry.prompt =>
                  \/ entry'.prompt = "setup" /\ calls[c].purpose = "login"
                  \/ entry'.prompt = "poll" /\ calls[c].purpose = "poll"
BY DEF AuthError, IType

\* The answers of the provider, and what a client makes of them.
LEMMA CallStepCause ==
    ASSUME IType, ICause, NEW c \in Callers, CallStep(c)
    PROVE  /\ ICause'
           /\ entry'.prompt # entry.prompt =>
                  /\ entry'.prompt = "setup" => ~server.right
                  /\ entry'.prompt = "poll" => mishap' \cap {"revoked", "raced", "lost"} # {}
<1>0. Fine(calls[c])
  BY DEF ICause
<1>1. CASE Accepted(c)
  BY <1>1, WaysOn DEF Accepted, Keeps
<1>2. CASE Refused(c)
  <2>0. Keeps
    BY <1>2 DEF Refused, Keeps
  <2>1. CASE calls[c].retried
    <3>1. AuthError(c) /\ calls[c].pc = "sent" /\ "revoked" \in mishap'
      BY <1>0, <1>2, <2>1 DEF Refused, Fine
    <3>2. calls[c].purpose # "login"
      BY <1>0, <3>1 DEF Fine
    <3> QED  BY <2>0, <3>1, <3>2, AuthErrorCause, WaysOn
  <2>2. CASE ~calls[c].retried
    <3>1. PICK made : /\ calls' = [calls EXCEPT ![c] = made]
                      /\ made.pc = "refreshing" /\ made.retried = calls[c].retried /\ made.purpose = calls[c].purpose
      BY <1>2, <2>2 DEF Refused, Await, IType, Call
    <3>2. Fine(made)' /\ UNCHANGED entry
      BY <1>0, <1>2, <2>2, <3>1 DEF Fine, Refused
    <3> QED  BY <2>0, <3>1, <3>2, OneCallCause
  <2> QED  BY <2>1, <2>2
<1>3. CASE Renewed(c)
  <2>1. Keeps /\ Issued + 1 \in server'.fresh /\ UNCHANGED entry
    BY <1>3 DEF Renewed, Issue, Keeps, IType
  <2>2. PICK made : made = [calls[c] EXCEPT !.pc = "answered", !.pair = NewPair(calls[c].pair.refresh)]
    OBVIOUS
  <2>3. /\ made.pc = "answered" /\ made.retried = calls[c].retried /\ made.purpose = calls[c].purpose
        /\ made.pair.access = Issued + 1
    BY <2>2 DEF NewPair, IType, Call
  <2>4. Fine(made)' /\ calls' = [calls EXCEPT ![c] = made]
    BY <1>0, <1>3, <2>1, <2>2, <2>3 DEF Fine, Renewed, Await
  <2> QED  BY <2>1, <2>4, OneCallCause
<1>4. CASE RefreshRefused(c)
  <2>1. Keeps /\ AuthError(c) /\ calls[c].purpose # "login"
    BY <1>0, <1>4 DEF RefreshRefused, Keeps, Fine
  <2>2. mishap' \cap {"revoked", "raced", "lost"} # {}
    BY <1>4 DEF RefreshRefused, ICause
  <2> QED  BY <2>1, <2>2, AuthErrorCause, WaysOn
<1>5. CASE LoggedIn(c)
  <2>1. Keeps /\ Issued + 1 \in server'.fresh /\ UNCHANGED entry
    BY <1>5 DEF LoggedIn, Issue, Keeps, IType
  <2>2. PICK made : made = [calls[c] EXCEPT !.pc = "answered", !.pair = NewPair(None)]
    OBVIOUS
  <2>3. /\ made.pc = "answered" /\ made.retried = calls[c].retried /\ made.purpose = calls[c].purpose
        /\ made.pair.access = Issued + 1
    BY <2>2 DEF NewPair, IType, Call
  <2>4. Fine(made)' /\ calls' = [calls EXCEPT ![c] = made]
    BY <1>0, <1>5, <2>1, <2>2, <2>3 DEF Fine, LoggedIn, Await
  <2> QED  BY <2>1, <2>4, OneCallCause
<1>6. CASE LoginRefused(c)
  <2>1. Keeps /\ AuthError(c) /\ calls[c].purpose = "login" /\ ~server.right
    BY <1>0, <1>6 DEF LoginRefused, Keeps, Fine
  <2> QED  BY <2>1, AuthErrorCause, WaysOn
<1>7. CASE Answered(c)
  <2>1. Keeps /\ entry'.prompt = entry.prompt
    BY <1>7 DEF Answered, Keeps, IType
  <2>2. CASE calls[c].purpose = "login"
    BY <1>7, <2>1, <2>2, WaysOn DEF Answered
  <2>3. CASE calls[c].purpose # "login"
    <3>1. PICK made : /\ calls' = [calls EXCEPT ![c] = made] /\ made.pc = "sent"
                      /\ made.purpose = calls[c].purpose /\ made.pair.access = calls[c].pair.access
      BY <1>7, <2>3 DEF Answered, Send, Await, NoPair
    <3>2. Fine(made)'
      BY <1>0, <1>7, <2>1, <2>3, <3>1 DEF Fine, Keeps, Answered
    <3> QED  BY <2>1, <3>1, <3>2, OneCallCause
  <2> QED  BY <2>2, <2>3
<1> QED  BY <1>1, <1>2, <1>3, <1>4, <1>5, <1>6, <1>7 DEF CallStep

\* Every step: one case per action.
LEMMA CauseStep ==
    ASSUME IType, ICause, [Next]_vars
    PROVE  /\ ICause'
           /\ entry'.prompt # entry.prompt =>
                  /\ entry'.prompt = "setup" => ~server.right
                  /\ entry'.prompt = "poll" => mishap' \cap {"revoked", "raced", "lost"} # {}
<1>1. CASE SetUp
  <2>1. <<current, "main">> \in Callers
    BY DEF Callers, IType
  <2> QED  BY <1>1, <2>1, WaysOn DEF SetUp, Keeps
<1>2. CASE Retry
  BY <1>2, NoCallCause DEF Retry, Keeps
<1>3. CASE Reload
  BY <1>3, NoCallCause DEF Reload, Replace, Keeps
<1>4. CASE Expires
  <2>1. PICK n \in server.fresh \ JustReceived : server' = [server EXCEPT !.fresh = @ \ {n}]
    BY <1>4 DEF Expires
  <2>2. UNCHANGED <<calls, mishap, entry>> /\ server'.right = server.right /\ server'.fresh = server.fresh \ {n}
    BY <1>4, <2>1 DEF Expires, IType
  <2>3. ASSUME NEW c \in Callers PROVE Fine(calls[c])'
    <3>1. calls[c].pc = "answered" \/ calls[c].retried => calls[c].pair.access # n
      BY <2>1 DEF JustReceived
    <3> QED  BY <2>2, <3>1 DEF ICause, Fine
  <2> QED  BY <2>2, <2>3 DEF ICause
<1>5. CASE PasswordChanges
  <2>1. UNCHANGED <<calls, entry>> /\ "revoked" \in mishap'
    BY <1>5 DEF PasswordChanges
  <2> QED  BY <2>1 DEF ICause, Fine
<1>6. ASSUME NEW c \in Callers, Request(c) \/ Reauthenticate(c) \/ Fails(c)
      PROVE  ICause' /\ entry' = entry
  BY <1>6, WaysOn DEF Request, Reauthenticate, Fails, ApiError, Keeps
<1>7. ASSUME NEW a \in Accounts, SignIn(a) PROVE ICause' /\ entry'.prompt = "nobody"
  <2>1. Keeps /\ UNCHANGED calls /\ entry'.prompt = "nobody"
    BY <1>7 DEF SignIn, Keeps, IType
  <2> QED  BY <2>1, NoCallCause
<1>8. CASE UNCHANGED vars
  BY <1>8, NoCallCause DEF vars, Keeps
<1>9. CASE \E c \in Callers : CallStep(c)
  BY <1>9, CallStepCause
<1>10. CASE SetUp \/ Retry \/ Reload \/ Expires \/ PasswordChanges
  <2>1. entry' = entry
    BY <1>10 DEF SetUp, Retry, Reload, Expires, PasswordChanges
  <2> QED  BY <1>1, <1>2, <1>3, <1>4, <1>5, <1>10, <2>1
<1> QED  BY <1>6, <1>7, <1>8, <1>9, <1>10 DEF Next, vars

(* For any number of issued pairs and of faults: a set-up asks the user only
   when the stored password is wrong, and a poll only after a changed password,
   two refreshes with one token, or a lost answer.                          *)
THEOREM ThePromptsHaveACause == Spec => PromptsHaveACause
<1>1. Init => IInv /\ ICause
  BY InitType, InitOwn, InitCause DEF IInv
<1>2. IInv /\ ICause /\ [Next]_vars => (IInv /\ ICause)'
  BY InvStep, CauseStep DEF IInv
<1>3. IInv /\ ICause /\ [Next]_vars =>
          [entry'.prompt # entry.prompt =>
              /\ entry'.prompt = "setup" => ~server.right
              /\ entry'.prompt = "poll" => mishap' \cap {"revoked", "raced", "lost"} # {}]_vars
  BY CauseStep DEF IInv
<1> QED  BY <1>1, <1>2, <1>3, PTL DEF Spec, PromptsHaveACause

=============================================================================
