----------------------------- MODULE EmailAuth -----------------------------
(***************************************************************************)
(* Signing in by email: the sessions the API keeps, the refresh token that *)
(* the tabs of a browser share as a cookie, and the tabs themselves        *)
(* (apps/api/src/auth/email-auth.service.ts, email-auth.controller.ts,     *)
(* apps/web/components/providers/auth-provider.tsx,                        *)
(* services/auth-mutation-queue.ts, auth-api.ts and api-client.ts).        *)
(*                                                                         *)
(* A refresh token is a session and a number, its jti.  A refresh is a     *)
(* transaction of two steps, the locking read and the rotation; the other  *)
(* requests are one step each.  A tab gives a request up after ten seconds;*)
(* the server may still work on it.                                        *)
(***************************************************************************)
EXTENDS Integers, Sequences, FiniteSets

CONSTANTS
  Tabs,        \* of one browser
  NoTab,
  Users,
  NoUser,
  MaxSessions, \* bound: sessions
  MaxTokens,   \* bound: refresh tokens of a session
  MaxRequests, \* bound: authentication requests under way
  MaxQueue,    \* bound: authentication requests a tab has waiting
  MaxMoves     \* bound: sign-ins, sign-outs, reloads and expiries

ASSUME AuthAssumption ==
  /\ NoUser \notin Users /\ NoTab \notin Tabs
  /\ MaxTokens \in Nat \ {0} /\ MaxRequests \in Nat \ {0} /\ MaxQueue \in Nat \ {0}
  /\ MaxSessions \in Nat \ {0} /\ MaxMoves \in Nat

VARIABLES
  users,         \* identity.users
  auth_sessions, \* identity.auth_sessions
  cookie,        \* the browser's refresh cookie
  tab,           \* AuthProvider of each tab
  http,          \* authentication requests under way
  moves,         \* what the browser's user has done so far
  exchanged,     \* history: which token was rotated into which
  signedOut      \* history: tabs whose logout ended the last session, until somebody signs in

serverVars == <<users, auth_sessions, exchanged>>
browserVars == <<cookie, tab, signedOut>>
authVars == <<serverVars, browserVars, http, moves>>

Sessions == 1 .. MaxSessions
SomeUser == Users \cup {NoUser}
NoToken == <<>>
Tokens == {NoToken} \cup (Sessions \X (1 .. MaxTokens))
NoAccess == [user |-> NoUser, expired |-> FALSE]
Ops == {"register", "login", "refresh", "logout"}

(* A queued operation knows whether the tab's generation is still its own. *)
ApiSteps == {"idle", "first", "refreshing", "second", "waiting"}
Queued == [op : Ops, user : SomeUser, current : BOOLEAN]
Slots == 1 .. MaxRequests
NoRequest == [pc |-> "free", tab |-> NoTab, op |-> "refresh", user |-> NoUser, token |-> NoToken,
              ok |-> FALSE]

AuthTypeOK ==
  /\ users \subseteq Users
  /\ auth_sessions \in [Sessions -> [user : SomeUser, jti : 0 .. MaxTokens, minted : 0 .. MaxTokens,
                                     revoked : BOOLEAN, locked : BOOLEAN]]
  /\ cookie \in Tokens
  /\ tab \in [Tabs -> [user : SomeUser, access : [user : SomeUser, expired : BOOLEAN],
                       api : ApiSteps, ready : BOOLEAN, queue : Seq(Queued)]]
  /\ \A t \in Tabs : Len(tab[t].queue) <= MaxQueue
  /\ http \in [Slots -> [pc : {"free", "sent", "locked", "replied"}, tab : Tabs \cup {NoTab}, op : Ops,
                         user : SomeUser, token : Tokens, ok : BOOLEAN]]
  /\ moves \in 0 .. MaxMoves /\ signedOut \subseteq Tabs /\ exchanged \subseteq Tokens \X Tokens

(* Every tab is about to mount AuthProvider, which refreshes. *)
AuthInit ==
  /\ users = {}
  /\ auth_sessions = [s \in Sessions |-> [user |-> NoUser, jti |-> 0, minted |-> 0, revoked |-> FALSE,
                                          locked |-> FALSE]]
  /\ cookie = NoToken
  /\ tab = [t \in Tabs |-> [user |-> NoUser, access |-> NoAccess, api |-> "idle", ready |-> FALSE,
                             queue |-> <<[op |-> "refresh", user |-> NoUser, current |-> TRUE]>>]]
  /\ http = [i \in Slots |-> NoRequest] /\ moves = 0
  /\ exchanged = {} /\ signedOut = {}

-----------------------------------------------------------------------------
(* The API *)

(* A reply goes back to its tab, if that still waits for it. *)
Reply(i, ok, user, token) ==
  http' = [http EXCEPT ![i] = IF @.tab = NoTab THEN NoRequest
                              ELSE [@ EXCEPT !.pc = "replied", !.ok = ok, !.user = user, !.token = token]]
Refuse(i) == Reply(i, FALSE, NoUser, NoToken)

Receives(i, op) == http[i].pc = "sent" /\ http[i].op = op

createSession(i) ==
  LET u == http[i].user IN
  \E s \in Sessions :
    /\ \A r \in Sessions : auth_sessions[r].user = NoUser <=> r >= s
    /\ auth_sessions' = [auth_sessions EXCEPT ![s] = [@ EXCEPT !.user = u, !.jti = 1, !.minted = 1]]
    /\ Reply(i, TRUE, u, <<s, 1>>)

register(i) ==
  /\ Receives(i, "register")
  /\ \/ /\ http[i].user \notin users
        /\ createSession(i)
        /\ users' = users \cup {http[i].user}
     \/ /\ http[i].user \in users
        /\ Refuse(i)
        /\ UNCHANGED <<users, auth_sessions>>
  /\ UNCHANGED <<exchanged, browserVars, moves>>

(* The email is unknown or the password does not match; or a session is created. *)
login(i) ==
  /\ Receives(i, "login")
  /\ \/ http[i].user \in users /\ createSession(i)
     \/ Refuse(i) /\ UNCHANGED auth_sessions
  /\ UNCHANGED <<users, exchanged, browserVars, moves>>

Session(i) == auth_sessions[http[i].token[1]]
Jti(i) == http[i].token[2]

(* Mutant: the session is read without FOR UPDATE. *)
ReadableByAll(i) == TRUE
Lockable(i) == ~Session(i).locked

(* No cookie, or a session that is revoked or over.  When a session ends   *)
(* is no state of the model: any refresh may find it over.                 *)
RefreshRefused(i) ==
  /\ Receives(i, "refresh")
  /\ IF http[i].token = NoToken THEN TRUE ELSE Lockable(i)
  /\ Refuse(i)
  /\ UNCHANGED <<serverVars, browserVars, moves>>

(* A token that was rotated before revokes its session. *)
RefreshReused(i) ==
  /\ Receives(i, "refresh") /\ http[i].token # NoToken
  /\ Lockable(i) /\ ~Session(i).revoked /\ Session(i).jti # Jti(i)
  /\ auth_sessions' = [auth_sessions EXCEPT ![http[i].token[1]].revoked = TRUE]
  /\ Refuse(i)
  /\ UNCHANGED <<users, exchanged, browserVars, moves>>

RefreshReads(i) ==
  /\ Receives(i, "refresh") /\ http[i].token # NoToken
  /\ Lockable(i) /\ ~Session(i).revoked /\ Session(i).jti = Jti(i)
  /\ auth_sessions' = [auth_sessions EXCEPT ![http[i].token[1]].locked = TRUE]
  /\ http' = [http EXCEPT ![i].pc = "locked"]
  /\ UNCHANGED <<users, exchanged, browserVars, moves>>

(* The rotation; a revoked row cannot be updated, so that the transaction fails with it. *)
RefreshCommits(i) ==
  LET s == http[i].token[1]
      n == auth_sessions[s].minted + 1 IN
  /\ http[i].pc = "locked"
  /\ \/ /\ ~Session(i).revoked /\ n <= MaxTokens
        /\ auth_sessions' = [auth_sessions EXCEPT ![s] = [@ EXCEPT !.jti = n, !.minted = n, !.locked = FALSE]]
        /\ exchanged' = exchanged \cup {<<http[i].token, <<s, n>> >>}
        /\ Reply(i, TRUE, auth_sessions[s].user, <<s, n>>)
     \/ /\ auth_sessions' = [auth_sessions EXCEPT ![s].locked = FALSE]
        /\ Refuse(i)
        /\ UNCHANGED exchanged
  /\ UNCHANGED <<users, browserVars, moves>>

(* Mutant: only the latest token of a session ends it. *)
EndedByLatest(i) == Session(i).jti = Jti(i)
EndedByLogout(i) == TRUE

(* Any token of the session ends it, rotated or not. *)
logout(i) ==
  /\ Receives(i, "logout")
  /\ IF http[i].token = NoToken THEN UNCHANGED auth_sessions
     ELSE /\ ~Session(i).locked
          /\ auth_sessions' =
               [auth_sessions EXCEPT ![http[i].token[1]].revoked = @ \/ EndedByLogout(i)]
  /\ Reply(i, TRUE, NoUser, http[i].token)
  /\ UNCHANGED <<users, exchanged, browserVars, moves>>

(* A request does not arrive, or fails for another reason. *)
RequestFails(i) ==
  /\ http[i].pc = "sent" /\ http[i].tab = NoTab
  /\ Refuse(i)
  /\ UNCHANGED <<serverVars, browserVars, moves>>

ServerStep(i) ==
  \/ login(i) \/ RefreshRefused(i) \/ RefreshReused(i) \/ RefreshReads(i)
  \/ RefreshCommits(i) \/ logout(i) \/ RequestFails(i)

-----------------------------------------------------------------------------
(* The tabs *)

Move == moves < MaxMoves /\ moves' = moves + 1

(* A new generation: what is queued or under way is no longer current. *)
NewGeneration(t) == [k \in DOMAIN tab[t].queue |-> [tab[t].queue[k] EXCEPT !.current = FALSE]]

Enqueued(queue, op, user) == Append(queue, [op |-> op, user |-> user, current |-> TRUE])
Room(t) == Len(tab[t].queue) < MaxQueue

(* login and register of the dialog, which is offered to nobody signed in. *)
SignIn(t, op, u) ==
  /\ tab[t].ready /\ tab[t].user = NoUser /\ Room(t) /\ Move
  /\ tab' = [tab EXCEPT ![t].queue = Enqueued(NewGeneration(t), op, u)]
  /\ signedOut' = {}
  /\ UNCHANGED <<serverVars, cookie, http>>

SignOut(t) ==
  /\ Room(t) /\ tab[t].user # NoUser /\ Move
  /\ tab' = [tab EXCEPT ![t] = [@ EXCEPT !.user = NoUser, !.access = NoAccess,
                                         !.queue = Enqueued(NewGeneration(t), "logout", NoUser)]]
  /\ UNCHANGED <<serverVars, cookie, signedOut, http>>

(* refreshInFlight: a second caller shares the first one's promise. *)
Refreshing(t) == \E k \in DOMAIN tab[t].queue : tab[t].queue[k].op = "refresh"

QueueWithRefresh(t) ==
  IF Refreshing(t) THEN tab[t].queue ELSE Enqueued(tab[t].queue, "refresh", NoUser)

(* AuthProvider mounts again: a reload drops what the tab had waiting and refreshes. *)
Reload(t) ==
  /\ Move
  /\ tab' = [tab EXCEPT ![t] = [user |-> NoUser, access |-> NoAccess,
                                queue |-> Enqueued(<<>>, "refresh", NoUser), api |-> "idle", ready |-> FALSE]]
  /\ http' = [i \in Slots |-> IF http[i].tab # t THEN http[i]
                              ELSE IF http[i].pc = "replied" THEN NoRequest
                              ELSE [http[i] EXCEPT !.tab = NoTab]]
  /\ UNCHANGED <<serverVars, cookie, signedOut>>

Waiting(t) == {i \in Slots : http[i].tab = t}

(* AuthMutationQueue starts the next operation; fetch sends the cookie of that moment. *)
Send(t) ==
  /\ tab[t].queue # <<>> /\ Waiting(t) = {}
  /\ \E i \in Slots :
       /\ http[i].pc = "free" /\ \A j \in Slots : j < i => http[j].pc # "free"
       /\ http' = [http EXCEPT ![i] =
                     [pc |-> "sent", tab |-> t, op |-> Head(tab[t].queue).op,
                      user |-> Head(tab[t].queue).user, token |-> cookie, ok |-> FALSE]]
  /\ UNCHANGED <<serverVars, browserVars, moves>>

SameGeneration(t) == Head(tab[t].queue).current

(* An API request that waits for a refresh tries again with the token it   *)
(* brings, or fails without one.  Mutant: the promise of a failed refresh  *)
(* is never settled.                                                       *)
SettledByToken(t, ok) ==
  IF Head(tab[t].queue).op # "refresh" \/ tab[t].api # "refreshing" THEN tab[t].api
  ELSE IF ok /\ SameGeneration(t) THEN "second" ELSE "refreshing"
ApiAfter(t, ok) ==
  IF Head(tab[t].queue).op # "refresh" \/ tab[t].api # "refreshing" THEN tab[t].api
  ELSE IF ok /\ SameGeneration(t) THEN "second" ELSE "idle"

(* applySession and clearSession behind the fence of generations. *)
TabAfter(t, ok, user) ==
  LET op == Head(tab[t].queue).op
      rest == [tab[t] EXCEPT !.queue = Tail(@), !.ready = @ \/ op = "refresh", !.api = ApiAfter(t, ok)] IN
  IF ok /\ op # "logout" /\ SameGeneration(t)
    THEN [rest EXCEPT !.user = user, !.access = [user |-> user, expired |-> FALSE]]
  ELSE IF ~ok /\ op = "refresh" /\ SameGeneration(t)
    THEN [rest EXCEPT !.user = NoUser, !.access = NoAccess]
  ELSE rest

(* A refusal leaves the cookie alone; a logout clears it. *)
CookieAfter(i) == CASE ~http[i].ok -> cookie
                     [] http[i].op = "logout" -> NoToken
                     [] OTHER -> http[i].token

(* Signing in again leaves the session before alive: a logout ends the one *)
(* it names.                                                               *)
EndsLast(i) ==
  LET named == IF http[i].token = NoToken THEN {} ELSE {http[i].token[1]} IN
  \A s \in Sessions \ named : auth_sessions[s].user = NoUser \/ auth_sessions[s].revoked
SigningIn == \E t \in Tabs : \E k \in DOMAIN tab[t].queue : tab[t].queue[k].op \in {"register", "login"}

Receive(t) ==
  \E i \in Waiting(t) :
    /\ http[i].pc = "replied"
    /\ cookie' = CookieAfter(i)
    /\ tab' = [tab EXCEPT ![t] = TabAfter(t, http[i].ok, http[i].user)]
    /\ http' = [http EXCEPT ![i] = NoRequest]
    /\ signedOut' = IF http[i].op = "logout" /\ http[i].ok /\ EndsLast(i) /\ ~SigningIn /\ tab[t].user = NoUser
                      THEN signedOut \cup {t} ELSE signedOut
    /\ UNCHANGED <<serverVars, moves>>

(* Ten seconds are over: an error for the tab, whether or not headers with *)
(* the cookie have come.                                                   *)
GiveUp(t) ==
  \E i \in Waiting(t) :
    /\ \/ UNCHANGED cookie
       \/ http[i].pc = "replied" /\ cookie' = CookieAfter(i)
    /\ tab' = [tab EXCEPT ![t] = TabAfter(t, FALSE, NoUser)]
    /\ http' = [http EXCEPT ![i] = IF @.pc = "replied" THEN NoRequest ELSE [@ EXCEPT !.tab = NoTab]]
    /\ UNCHANGED <<serverVars, signedOut, moves>>

(* The access token's lifetime ends. *)
AccessExpires(t) ==
  /\ tab[t].access.user # NoUser /\ ~tab[t].access.expired /\ Move
  /\ tab' = [tab EXCEPT ![t].access.expired = TRUE]
  /\ UNCHANGED <<serverVars, cookie, signedOut, http>>

-----------------------------------------------------------------------------
(* The API client of a tab: one request at a time here *)

ApiRequest(t) ==
  /\ tab[t].api = "idle" /\ tab[t].access.user # NoUser /\ Move
  /\ tab' = [tab EXCEPT ![t].api = "first"]
  /\ UNCHANGED <<serverVars, cookie, signedOut, http>>

(* UserAuthGuard admits the token to a handler. *)
Authorized(t) == tab[t].access.user # NoUser /\ ~tab[t].access.expired

(* Without a token there is no request.  An expired one is refused: the    *)
(* first time the client refreshes, the second time it reports the error.  *)
ApiRefused(t) ==
  /\ tab[t].api \in {"first", "second"} /\ ~Authorized(t)
  /\ tab' = [tab EXCEPT ![t] =
                IF @.api = "first" /\ @.access.user # NoUser
                  THEN [@ EXCEPT !.api = "refreshing", !.queue = QueueWithRefresh(t)]
                  ELSE [@ EXCEPT !.api = "idle"]]
  /\ Len(tab'[t].queue) <= MaxQueue
  /\ UNCHANGED <<serverVars, cookie, signedOut, http, moves>>

(* Ten seconds without an answer. *)
ApiGivesUp(t) ==
  /\ tab[t].api = "waiting"
  /\ tab' = [tab EXCEPT ![t].api = "idle"]
  /\ UNCHANGED <<serverVars, cookie, signedOut, http, moves>>

(* What the user does, and what the tab's code and timers do by themselves. *)
UserStep(t) ==
  \/ \E u \in Users, op \in {"register", "login"} : SignIn(t, op, u)
  \/ SignOut(t) \/ Reload(t) \/ AccessExpires(t) \/ ApiRequest(t)
TabStep(t) == Send(t) \/ Receive(t) \/ GiveUp(t) \/ ApiRefused(t) \/ ApiGivesUp(t)

-----------------------------------------------------------------------------
(* Properties *)

(* However many tabs, retries and abandoned requests present one refresh   *)
(* token, it is exchanged at most once, so that a session has one valid    *)
(* token (refresh).                                                        *)
TokensExchangedOnce ==
  \A x, y \in exchanged : x[1] = y[1] => x = y

(* Once a tab hears that its logout ended the browser's last session, no   *)
(* late reply, other tab's refresh or reload signs it in again, until      *)
(* somebody signs in (logout, generation, AuthMutationQueue).              *)
SignedOutStaysOut == \A t \in signedOut : tab[t].user = NoUser

(* An API request that waits for a new access token waits for a refresh    *)
(* that is queued or under way in its own tab, whatever sign-ins, sign-outs*)
(* and failures came after it: no caller is left waiting (refreshInFlight).*)
WaitersAreServed ==
  \A t \in Tabs : (tab[t].api = "refreshing" => Refreshing(t)) /\ (Waiting(t) # {} => tab[t].queue # <<>>)
=============================================================================
