------------------------------ MODULE Economy ------------------------------
(***************************************************************************)
(* The coin accounts of the players outside of games: the grant of a new   *)
(* account and the rescue grant that tops an account up once in a window   *)
(* (apps/api/src/economy/economy.service.ts and account.controller.ts).    *)
(*                                                                         *)
(* A rescue is two transactions, the provisioning and the grant; the       *)
(* second is the locking read and the writes that follow from it.  What    *)
(* games do with the same account comes in between.                        *)
(***************************************************************************)
EXTENDS Integers, FiniteSets

CONSTANTS
  Users, NoUser,
  Callers, NoCaller, \* who may wait for an answer
  Keys,              \* idempotency keys
  InitialGrant, RescueBalance,
  MaxJobs            \* bound: rescue requests the API works on

VARIABLES
  coin_accounts,   \* economy.coin_accounts
  coin_operations, \* economy.coin_operations of scope rescueGrant
  jobs,            \* rescue requests the API works on
  answers,         \* history: what each key was answered with
  rescues          \* history: rescue grants since the window last opened

Jobs == 1 .. MaxJobs
Coins == 0 .. InitialGrant + RescueBalance
Windows == {"never", "closed", "open"}
Account == [exists : BOOLEAN, available : Coins, reserved : Coins, rescued : Windows, locked : BOOLEAN]
NoAccount == [exists |-> FALSE, available |-> 0, reserved |-> 0, rescued |-> "never", locked |-> FALSE]
Response == [granted : BOOLEAN, available : Coins, reserved : Coins]
NoResponse == [granted |-> FALSE, available |-> 0, reserved |-> 0]
NoJob == [pc |-> "free", caller |-> NoCaller, user |-> NoUser, key |-> NoUser, seen |-> NoAccount]

EconomyTypeOK ==
  /\ coin_accounts \in [Users -> Account]
  /\ coin_operations \in [Users -> UNION {[K -> Response] : K \in SUBSET Keys}]
  /\ jobs \in [Jobs -> [pc : {"free", "start", "provisioned", "locked"}, caller : Callers \cup {NoCaller},
                        user : Users \cup {NoUser}, key : Keys \cup {NoUser}, seen : Account]]
  /\ answers \in [Users -> [Keys -> SUBSET Response]]
  /\ rescues \in [Users -> Nat]

EconomyInit ==
  /\ coin_accounts = [u \in Users |-> NoAccount]
  /\ coin_operations = [u \in Users |-> <<>>]
  /\ jobs = [j \in Jobs |-> NoJob]
  /\ answers = [u \in Users |-> [k \in Keys |-> {}]]
  /\ rescues = [u \in Users |-> 0]

-----------------------------------------------------------------------------
Total(account) == account.available + account.reserved

(* The account and its initial grant, whose operation has a fixed key. *)
provisionUser(u) ==
  coin_accounts' = [coin_accounts EXCEPT ![u] =
    IF @.exists THEN @ ELSE [NoAccount EXCEPT !.exists = TRUE, !.available = InitialGrant]]

(* The controller hands an authorized request to the service. *)
Accept(caller, u, k) ==
  \E j \in Jobs :
    /\ jobs[j].pc = "free" /\ \A i \in Jobs : i < j => jobs[i].pc # "free"
    /\ jobs' = [jobs EXCEPT ![j] = [pc |-> "start", caller |-> caller, user |-> u, key |-> k,
                                    seen |-> NoAccount]]
    /\ UNCHANGED <<coin_accounts, coin_operations, answers, rescues>>

provisionPrincipal(j) ==
  /\ jobs[j].pc = "start" /\ ~coin_accounts[jobs[j].user].locked
  /\ provisionUser(jobs[j].user)
  /\ jobs' = [jobs EXCEPT ![j].pc = "provisioned"]
  /\ UNCHANGED <<coin_operations, answers, rescues>>

(* Mutant: the account is read without FOR UPDATE. *)
ReadByAll(u) == TRUE
lockAccount(u) == ~coin_accounts[u].locked

Answer(j, response) ==
  /\ jobs' = [jobs EXCEPT ![j] = NoJob]
  /\ answers' = [answers EXCEPT ![jobs[j].user][jobs[j].key] = @ \cup {response}]

(* Mutant: a key whose operation granted nothing is tried again. *)
GrantsOnly(u) == {k \in DOMAIN coin_operations[u] : coin_operations[u][k].granted}
UsedKeys(u) == DOMAIN coin_operations[u]

RescueReplays(j) ==
  LET u == jobs[j].user
      k == jobs[j].key IN
  /\ jobs[j].pc = "provisioned" /\ lockAccount(u) /\ k \in UsedKeys(u)
  /\ Answer(j, coin_operations[u][k])
  /\ UNCHANGED <<coin_accounts, coin_operations, rescues>>

RescueReads(j) ==
  LET u == jobs[j].user IN
  /\ jobs[j].pc = "provisioned" /\ lockAccount(u) /\ jobs[j].key \notin UsedKeys(u)
  /\ coin_accounts' = [coin_accounts EXCEPT ![u].locked = TRUE]
  /\ jobs' = [jobs EXCEPT ![j].pc = "locked", ![j].seen = coin_accounts[u]]
  /\ UNCHANGED <<coin_operations, answers, rescues>>

Eligible(seen) == Total(seen) < RescueBalance /\ seen.rescued # "closed"

Stored(u, k, response) == [key \in DOMAIN coin_operations[u] \cup {k} |->
                             IF key = k THEN response ELSE coin_operations[u][key]]

(* What was read decides: nothing is granted, and that is stored too ... *)
RescueDeclines(j) ==
  LET u == jobs[j].user
      seen == jobs[j].seen
      response == [granted |-> FALSE, available |-> seen.available, reserved |-> seen.reserved] IN
  /\ jobs[j].pc = "locked" /\ ~Eligible(seen)
  /\ coin_accounts' = [coin_accounts EXCEPT ![u].locked = FALSE]
  /\ coin_operations' = [coin_operations EXCEPT ![u] = Stored(u, jobs[j].key, response)]
  /\ Answer(j, response)
  /\ UNCHANGED rescues

(* ... or the account is topped up. *)
RescueGrants(j) ==
  LET u == jobs[j].user
      seen == jobs[j].seen
      now == coin_accounts[u].available + RescueBalance - Total(seen) IN
  /\ jobs[j].pc = "locked" /\ Eligible(seen)
  /\ coin_accounts' = [coin_accounts EXCEPT ![u] = [@ EXCEPT !.available = now, !.rescued = "closed",
                                                             !.locked = FALSE]]
  /\ LET response == [granted |-> TRUE, available |-> now, reserved |-> coin_accounts[u].reserved] IN
     /\ coin_operations' = [coin_operations EXCEPT ![u] = Stored(u, jobs[j].key, response)]
     /\ Answer(j, response)
  /\ rescues' = [rescues EXCEPT ![u] = @ + 1]

(* The transaction fails and is rolled back. *)
RescueFails(j) ==
  /\ jobs[j].pc # "free"
  /\ jobs' = [jobs EXCEPT ![j] = NoJob]
  /\ coin_accounts' =
       IF jobs[j].pc = "locked" THEN [coin_accounts EXCEPT ![jobs[j].user].locked = FALSE] ELSE coin_accounts
  /\ UNCHANGED <<coin_operations, answers, rescues>>

RescueStep(j) ==
  \/ provisionPrincipal(j) \/ RescueReplays(j) \/ RescueReads(j) \/ RescueDeclines(j)
  \/ RescueGrants(j) \/ RescueFails(j)

(* A stake is reserved, given back, or lost to another player. *)
GameMoves(u) ==
  /\ coin_accounts[u].exists /\ ~coin_accounts[u].locked
  /\ \/ /\ coin_accounts[u].available > 0
        /\ coin_accounts' = [coin_accounts EXCEPT ![u].available = @ - 1, ![u].reserved = @ + 1]
     \/ /\ coin_accounts[u].reserved > 0
        /\ coin_accounts' = [coin_accounts EXCEPT ![u].available = @ + 1, ![u].reserved = @ - 1]
     \/ /\ coin_accounts[u].reserved > 0
        /\ coin_accounts' = [coin_accounts EXCEPT ![u].reserved = @ - 1]
  /\ UNCHANGED <<coin_operations, jobs, answers, rescues>>

(* The rescue window is over. *)
WindowOpens(u) ==
  /\ coin_accounts[u].rescued = "closed"
  /\ coin_accounts' = [coin_accounts EXCEPT ![u].rescued = "open"]
  /\ rescues' = [rescues EXCEPT ![u] = 0]
  /\ UNCHANGED <<coin_operations, jobs, answers>>

-----------------------------------------------------------------------------
(* Properties *)

(* Whatever requests, retries and games run beside each other, an account  *)
(* is rescued once in a window, and never beyond the rescue balance        *)
(* (rescue, lockAccount).                                                  *)
RescuedOncePerWindow ==
  \A u \in Users : /\ rescues[u] <= 1
                   /\ \A k \in Keys : \A a \in answers[u][k] : a.granted => Total(a) = RescueBalance

(* All attempts with one idempotency key get the same answer, whatever     *)
(* happened to the account in between (the stored response snapshot).      *)
OneAnswerPerKey == \A u \in Users, k \in Keys : Cardinality(answers[u][k]) <= 1
=============================================================================
