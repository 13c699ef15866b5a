------------------------------ MODULE Accounts ------------------------------
(***************************************************************************)
(* Accounts as a browser uses them: a registration provisions the coin     *)
(* account in its transaction, and a request with an idempotency key goes  *)
(* through the API client, which refreshes the session and tries again     *)
(* when its access token is refused (email-auth.service.ts,                *)
(* economy.service.ts, user-auth.guard.ts, api-client.ts).                 *)
(***************************************************************************)
EXTENDS EmailAuth

CONSTANTS InitialGrant, RescueBalance, MaxJobs

ASSUME EconomyAssumption ==
  InitialGrant \in Nat \ {0} /\ RescueBalance \in Nat \ {0} /\ MaxJobs \in Nat \ {0}

VARIABLES coin_accounts, coin_operations, jobs, answers, rescues

(* A tab uses one key for one intent, however often it asks. *)
INSTANCE Economy WITH Callers <- Tabs, NoCaller <- NoTab, Keys <- Tabs

coinVars == <<coin_accounts, coin_operations, jobs, answers, rescues>>
vars == <<authVars, coinVars>>

Init == AuthInit /\ EconomyInit
TypeOK == AuthTypeOK /\ EconomyTypeOK

(* One transaction creates the user, his account and his session. *)
RegisterAndProvision(i) ==
  /\ register(i)
  /\ IF users' # users THEN provisionUser(http[i].user) ELSE UNCHANGED coin_accounts
  /\ UNCHANGED <<coin_operations, jobs, answers, rescues>>

(* An admitted request runs for the token's subject; the tab waits. *)
SendRescue(t) ==
  /\ tab[t].api \in {"first", "second"} /\ Authorized(t)
  /\ Accept(t, tab[t].access.user, t)
  /\ tab' = [tab EXCEPT ![t].api = "waiting"]
  /\ UNCHANGED <<serverVars, cookie, signedOut, http, moves>>

(* An answer ends the request, if its tab has not given it up. *)
Rescue(j) ==
  /\ RescueStep(j)
  /\ tab' = [t \in Tabs |->
       IF jobs'[j].pc = "free" /\ jobs[j].caller = t /\ tab[t].api = "waiting"
         THEN [tab[t] EXCEPT !.api = "idle"] ELSE tab[t]]
  /\ UNCHANGED <<serverVars, cookie, signedOut, http, moves>>

(* A tab that gives a request up or is reloaded no longer hears of it. *)
Unheard(t) ==
  /\ jobs' = [j \in Jobs |-> IF jobs[j].caller = t /\ tab'[t].api # "waiting"
                                THEN [jobs[j] EXCEPT !.caller = NoTab] ELSE jobs[j]]
  /\ UNCHANGED <<coin_accounts, coin_operations, answers, rescues>>

BrowserStep(t) == (TabStep(t) /\ Unheard(t)) \/ SendRescue(t)
ApiStep ==
  \/ \E i \in Slots : RegisterAndProvision(i) \/ (ServerStep(i) /\ UNCHANGED coinVars)
  \/ \E j \in Jobs : Rescue(j)

Next ==
  \/ ApiStep
  \/ \E t \in Tabs : BrowserStep(t) \/ (UserStep(t) /\ Unheard(t))
  \/ \E u \in Users : (GameMoves(u) \/ WindowOpens(u)) /\ UNCHANGED authVars

Spec == Init /\ [][Next]_vars
=============================================================================
