--------------------------- MODULE EconomyProofs ---------------------------
(***************************************************************************)
(* Proofs about the coin accounts of Accounts, for any number of users,    *)
(* keys and concurrent rescue requests and any grants.                     *)
(***************************************************************************)
EXTENDS EmailAuthProofs, FiniteSetTheorems

(* What a rescue request knows of its account.  From the locking read to   *)
(* the end of its transaction the balances stay as it has read them, the   *)
(* window it found open stays open, and its key is unused (lockAccount).   *)
ReadHolds(j) ==
  LET account == coin_accounts[jobs[j].user]
      seen == jobs[j].seen IN
  /\ account.locked
  /\ seen.available = account.available /\ seen.reserved = account.reserved
  /\ seen.rescued # "closed" => account.rescued # "closed"
  /\ jobs[j].key \notin DOMAIN coin_operations[jobs[j].user]
JobHolds(j) ==
  /\ jobs[j].pc # "free" => jobs[j].user \in Users /\ jobs[j].key \in Tabs
  /\ jobs[j].pc \in {"provisioned", "locked"} => coin_accounts[jobs[j].user].exists
  /\ jobs[j].pc = "locked" => ReadHolds(j)
LocksExclude ==
  \A i, j \in Jobs : jobs[i].pc = "locked" /\ jobs[j].pc = "locked" /\ jobs[i].user = jobs[j].user => i = j

(* What is kept of a user: coins within the grants, at most one rescue     *)
(* since the window opened, and answers that are the stored ones.          *)
LedgerHolds(u) ==
  /\ Total(coin_accounts[u]) <= InitialGrant + RescueBalance
  /\ rescues[u] <= 1 /\ (rescues[u] = 1 => coin_accounts[u].rescued = "closed")
  /\ coin_accounts[u].rescued = "closed" => coin_accounts[u].exists
  /\ \A k \in Tabs : \A a \in answers[u][k] :
       k \in DOMAIN coin_operations[u] /\ a = coin_operations[u][k]
  /\ \A k \in DOMAIN coin_operations[u] :
       coin_operations[u][k].granted => Total(coin_operations[u][k]) = RescueBalance

CoinInv ==
  /\ EconomyTypeOK
  /\ \A j \in Jobs : JobHolds(j)
  /\ LocksExclude
  /\ \A u \in Users : LedgerHolds(u)

-----------------------------------------------------------------------------
JobRow == [pc : {"free", "start", "provisioned", "locked"}, caller : Tabs \cup {NoTab},
           user : Users \cup {NoUser}, key : Tabs \cup {NoUser}, seen : Account]
Ledger == UNION {[K -> Response] : K \in SUBSET Tabs}

LEMMA CoinTypes ==
  ASSUME EconomyTypeOK
  PROVE  /\ coin_accounts \in [Users -> Account] /\ jobs \in [Jobs -> JobRow]
         /\ coin_operations \in [Users -> Ledger]
         /\ answers \in [Users -> [Tabs -> SUBSET Response]] /\ rescues \in [Users -> Nat]
BY DEF EconomyTypeOK, JobRow, Ledger

LEMMA CoinNumbers ==
  /\ InitialGrant \in Nat /\ RescueBalance \in Nat
  /\ \A c \in Coins : c \in Nat
BY EconomyAssumption DEF Coins

LEMMA NoJobType == NoJob \in JobRow /\ NoJob.pc = "free" /\ NoAccount \in Account
<1>1. NoAccount \in Account
  BY EconomyAssumption DEF NoAccount, Account, Coins, Windows
<1> QED
  BY <1>1 DEF NoJob, JobRow

(* What a step does to one request and to the account it is about.         *)
OneAccount(u) ==
  /\ coin_accounts' \in [Users -> Account] /\ coin_operations' \in [Users -> Ledger]
  /\ answers' \in [Users -> [Tabs -> SUBSET Response]] /\ rescues' \in [Users -> Nat]
  /\ \A v \in Users \ {u} :
       /\ coin_accounts'[v] = coin_accounts[v] /\ coin_operations'[v] = coin_operations[v]
       /\ answers'[v] = answers[v] /\ rescues'[v] = rescues[v]
OneJob(j) ==
  /\ jobs' \in [Jobs -> JobRow]
  /\ \A i \in Jobs \ {j} : jobs'[i] = jobs[i]

(* Such a step leaves the requests of others alone when no other has       *)
(* locked the account.                                                     *)
LEMMA JobStepPreserves ==
  ASSUME CoinInv, NEW j \in Jobs, NEW u \in Users, OneJob(j), OneAccount(u),
         coin_accounts[u].exists => coin_accounts'[u].exists,
         \A i \in Jobs \ {j} : jobs[i].pc = "locked" => jobs[i].user # u,
         JobHolds(j)', LedgerHolds(u)', jobs'[j].pc = "locked" => jobs'[j].user = u
  PROVE  CoinInv'
<1>1. EconomyTypeOK'
  BY DEF EconomyTypeOK, OneJob, OneAccount, JobRow, Ledger
<1>2. ASSUME NEW i \in Jobs PROVE JobHolds(i)'
  <2>1. CASE i = j
    BY <2>1
  <2>2. CASE i # j
    <3>1. jobs'[i] = jobs[i] /\ JobHolds(i)
      BY <2>2 DEF CoinInv, OneJob
    <3>2. CASE jobs[i].pc = "free"
      BY <3>1, <3>2 DEF JobHolds
    <3>3. CASE jobs[i].pc # "free"
      <4>1. jobs[i].user \in Users /\ jobs[i].key \in Tabs
        BY <3>1, <3>3 DEF JobHolds
      <4>2. CASE jobs[i].user = u
        BY <2>2, <3>1, <4>1, <4>2 DEF JobHolds
      <4>3. CASE jobs[i].user # u
        <5>1. coin_accounts'[jobs[i].user] = coin_accounts[jobs[i].user]
              /\ coin_operations'[jobs[i].user] = coin_operations[jobs[i].user]
          BY <4>1, <4>3 DEF OneAccount
        <5> QED
          BY <3>1, <4>1, <5>1 DEF JobHolds, ReadHolds
      <4> QED
        BY <4>2, <4>3
    <3> QED
      BY <3>2, <3>3
  <2> QED
    BY <2>1, <2>2
<1>3. LocksExclude'
  BY DEF CoinInv, LocksExclude, OneJob
<1>4. ASSUME NEW v \in Users PROVE LedgerHolds(v)'
  BY DEF CoinInv, LedgerHolds, OneAccount
<1> QED
  BY <1>1, <1>2, <1>3, <1>4 DEF CoinInv

(* The requests stay, or only lose their callers; the account of u moves.  *)
LEMMA AccountStepPreserves ==
  ASSUME CoinInv, NEW u \in Users, OneAccount(u), jobs' \in [Jobs -> JobRow],
         \A j \in Jobs : /\ jobs'[j].pc = jobs[j].pc /\ jobs'[j].user = jobs[j].user
                         /\ jobs'[j].key = jobs[j].key /\ jobs'[j].seen = jobs[j].seen,
         \A j \in Jobs : JobHolds(j) /\ jobs[j].user = u => JobHolds(j)',
         LedgerHolds(u)'
  PROVE  CoinInv'
<1>1. EconomyTypeOK'
  BY DEF EconomyTypeOK, OneAccount, JobRow, Ledger
<1>2. ASSUME NEW j \in Jobs PROVE JobHolds(j)'
  <2>1. JobHolds(j)
    BY DEF CoinInv
  <2>2. CASE jobs[j].user = u
    BY <2>1, <2>2
  <2>3. CASE jobs[j].pc # "free" /\ jobs[j].user # u
    <3>1. jobs[j].user \in Users
      BY <2>1, <2>3 DEF JobHolds
    <3>2. coin_accounts'[jobs[j].user] = coin_accounts[jobs[j].user]
          /\ coin_operations'[jobs[j].user] = coin_operations[jobs[j].user]
      BY <2>3, <3>1 DEF OneAccount
    <3> QED
      BY <2>1, <3>1, <3>2 DEF JobHolds, ReadHolds
  <2>4. CASE jobs[j].pc = "free"
    BY <2>4 DEF JobHolds
  <2> QED
    BY <2>2, <2>3, <2>4
<1>3. LocksExclude'
  BY DEF CoinInv, LocksExclude
<1>4. ASSUME NEW v \in Users PROVE LedgerHolds(v)'
  BY DEF CoinInv, LedgerHolds, OneAccount
<1> QED
  BY <1>1, <1>2, <1>3, <1>4 DEF CoinInv

(* The accounts stay as well.                                              *)
LEMMA AccountsKept ==
  ASSUME CoinInv, UNCHANGED <<coin_accounts, coin_operations, answers, rescues>>,
         jobs' \in [Jobs -> JobRow],
         \A j \in Jobs : /\ jobs'[j].pc = jobs[j].pc /\ jobs'[j].user = jobs[j].user
                         /\ jobs'[j].key = jobs[j].key /\ jobs'[j].seen = jobs[j].seen
  PROVE  CoinInv'
<1>1. EconomyTypeOK'
  BY DEF CoinInv, EconomyTypeOK, JobRow
<1>2. \A j \in Jobs : JobHolds(j)'
  BY DEF CoinInv, JobHolds, ReadHolds
<1>3. LocksExclude' /\ \A u \in Users : LedgerHolds(u)'
  BY DEF CoinInv, LocksExclude, LedgerHolds
<1> QED
  BY <1>1, <1>2, <1>3 DEF CoinInv

LEMMA UnheardStep ==
  ASSUME CoinInv, NEW t \in Tabs, Unheard(t)
  PROVE  CoinInv'
<1>1. jobs \in [Jobs -> JobRow]
  BY CoinTypes DEF CoinInv
<1>2. ASSUME NEW j \in Jobs
      PROVE  /\ jobs'[j] \in JobRow
             /\ jobs'[j].pc = jobs[j].pc /\ jobs'[j].user = jobs[j].user
             /\ jobs'[j].key = jobs[j].key /\ jobs'[j].seen = jobs[j].seen
  <2>1. jobs'[j] = jobs[j] \/ jobs'[j] = [jobs[j] EXCEPT !.caller = NoTab]
    BY DEF Unheard
  <2> QED
    BY <1>1, <2>1 DEF JobRow
<1>3. jobs' \in [Jobs -> JobRow]
  <2>1. jobs' = [j \in Jobs |-> jobs'[j]]
    BY DEF Unheard
  <2> QED
    BY <1>2, <2>1
<1> QED
  BY <1>2, <1>3, AccountsKept DEF Unheard

LEMMA ProvisionFacts ==
  ASSUME CoinInv, NEW u \in Users, provisionUser(u),
         UNCHANGED <<coin_operations, answers, rescues>>
  PROVE  /\ OneAccount(u) /\ LedgerHolds(u)' /\ coin_accounts'[u].exists
         /\ coin_accounts[u].exists => coin_accounts' = coin_accounts
<1> DEFINE fresh == [NoAccount EXCEPT !.exists = TRUE, !.available = InitialGrant]
<1>0. /\ coin_accounts \in [Users -> Account] /\ coin_operations \in [Users -> Ledger]
      /\ answers \in [Users -> [Tabs -> SUBSET Response]] /\ rescues \in [Users -> Nat]
      /\ LedgerHolds(u)
  BY CoinTypes DEF CoinInv
<1>1. /\ fresh \in Account /\ fresh.exists /\ fresh.available = InitialGrant /\ fresh.reserved = 0
      /\ fresh.rescued = "never"
  <2>1. InitialGrant \in Coins /\ 0 \in Coins
    BY EconomyAssumption DEF Coins
  <2>2. NoAccount \in Account /\ NoAccount.reserved = 0 /\ NoAccount.rescued = "never"
    BY NoJobType DEF NoAccount
  <2> QED
    BY <2>1, <2>2 DEF Account
<1>2. coin_accounts' = [coin_accounts EXCEPT ![u] = IF coin_accounts[u].exists THEN coin_accounts[u] ELSE fresh]
  BY DEF provisionUser
<1> HIDE DEF fresh
<1>3. CASE coin_accounts[u].exists
  <2>1. coin_accounts' = coin_accounts
    BY <1>0, <1>2, <1>3
  <2> QED
    BY <1>0, <1>3, <2>1 DEF OneAccount, LedgerHolds
<1>4. CASE ~coin_accounts[u].exists
  <2>1. /\ coin_accounts' \in [Users -> Account] /\ coin_accounts'[u] = fresh
        /\ \A v \in Users \ {u} : coin_accounts'[v] = coin_accounts[v]
    BY <1>0, <1>1, <1>2, <1>4
  <2>2. OneAccount(u)
    BY <1>0, <2>1 DEF OneAccount
  <2>3. Total(fresh) <= InitialGrant + RescueBalance
    BY <1>1, CoinNumbers DEF Total
  <2>4. rescues[u] <= 1 /\ rescues[u] # 1
    BY <1>0, <1>4 DEF LedgerHolds
  <2>5. LedgerHolds(u)'
    BY <1>0, <1>1, <2>1, <2>3, <2>4 DEF LedgerHolds
  <2> QED
    BY <1>1, <1>4, <2>1, <2>2, <2>5
<1> QED
  BY <1>3, <1>4

(* A registration's account is new or stays as it is.                      *)
LEMMA RegistrationStep ==
  ASSUME AuthInv, CoinInv, NEW i \in Slots, RegisterAndProvision(i)
  PROVE  CoinInv'
<1>0. jobs \in [Jobs -> JobRow] /\ UNCHANGED <<coin_operations, jobs, answers, rescues>>
  BY CoinTypes DEF CoinInv, RegisterAndProvision
<1>1. CASE UNCHANGED coin_accounts
  BY <1>0, <1>1, AccountsKept
<1>2. CASE provisionUser(http[i].user)
  <2>1. PICK u \in Users : u = http[i].user
    BY DEF AuthInv, SignInsAreNamed, RegisterAndProvision, register, Receives, SigningInOps
  <2>2. /\ OneAccount(u) /\ LedgerHolds(u)' /\ coin_accounts'[u].exists
        /\ coin_accounts[u].exists => coin_accounts' = coin_accounts
    BY <1>0, <1>2, <2>1, ProvisionFacts
  <2>3. ASSUME NEW j \in Jobs, JobHolds(j), jobs[j].user = u PROVE JobHolds(j)'
    BY <1>0, <2>2, <2>3 DEF JobHolds, ReadHolds
  <2> QED
    BY <1>0, <2>1, <2>2, <2>3, AccountStepPreserves
<1> QED
  BY <1>1, <1>2 DEF RegisterAndProvision

LEMMA AcceptStep ==
  ASSUME AuthInv, CoinInv, NEW t \in Tabs, SendRescue(t)
  PROVE  CoinInv'
<1> DEFINE u == tab[t].access.user
           new == [pc |-> "start", caller |-> t, user |-> u, key |-> t, seen |-> NoAccount]
<1>0. jobs \in [Jobs -> JobRow] /\ UNCHANGED <<coin_accounts, coin_operations, answers, rescues>>
  BY CoinTypes DEF CoinInv, SendRescue, Accept
<1>1. u \in Users
  BY AuthTypes DEF AuthInv, SendRescue, Authorized, TabState, SomeUser
<1>2. new \in JobRow /\ new.pc = "start" /\ new.user = u /\ new.key = t
  BY <1>1, NoJobType DEF JobRow
<1>3. PICK j \in Jobs : jobs[j].pc = "free" /\ jobs' = [jobs EXCEPT ![j] = new]
  BY DEF SendRescue, Accept
<1> HIDE DEF new, u
<1>4. OneJob(j) /\ jobs'[j] = new
  BY <1>0, <1>2, <1>3 DEF OneJob
<1>5. EconomyTypeOK'
  BY <1>0, <1>4 DEF CoinInv, EconomyTypeOK, OneJob, JobRow
<1>6. ASSUME NEW i \in Jobs PROVE JobHolds(i)'
  <2>1. CASE i = j
    BY <1>1, <1>2, <1>4, <2>1 DEF JobHolds
  <2>2. CASE i # j
    BY <1>0, <1>4, <2>2 DEF CoinInv, OneJob, JobHolds, ReadHolds
  <2> QED
    BY <2>1, <2>2
<1>7. LocksExclude'
  BY <1>2, <1>4 DEF CoinInv, LocksExclude, OneJob
<1>8. \A v \in Users : LedgerHolds(v)'
  BY <1>0 DEF CoinInv, LedgerHolds
<1> QED
  BY <1>5, <1>6, <1>7, <1>8 DEF CoinInv

(* The account of a request under way, and who has it locked.              *)
LEMMA JobFacts ==
  ASSUME CoinInv, NEW j \in Jobs, jobs[j].pc # "free"
  PROVE  /\ jobs[j] \in JobRow /\ jobs[j].user \in Users /\ jobs[j].key \in Tabs
         /\ coin_accounts[jobs[j].user] \in Account /\ coin_operations[jobs[j].user] \in Ledger
         /\ ~coin_accounts[jobs[j].user].locked \/ jobs[j].pc = "locked" =>
              \A i \in Jobs \ {j} : jobs[i].pc = "locked" => jobs[i].user # jobs[j].user
<1>1. jobs[j] \in JobRow /\ jobs[j].user \in Users /\ jobs[j].key \in Tabs
  BY CoinTypes DEF CoinInv, JobHolds
<1>2. coin_accounts[jobs[j].user] \in Account /\ coin_operations[jobs[j].user] \in Ledger
  BY <1>1, CoinTypes DEF CoinInv
<1>3. ASSUME ~coin_accounts[jobs[j].user].locked \/ jobs[j].pc = "locked",
             NEW i \in Jobs \ {j}, jobs[i].pc = "locked"
      PROVE  jobs[i].user # jobs[j].user
  BY <1>3 DEF CoinInv, JobHolds, ReadHolds, LocksExclude
<1> QED
  BY <1>1, <1>2, <1>3

LEMMA ProvisionStep ==
  ASSUME CoinInv, NEW j \in Jobs, provisionPrincipal(j)
  PROVE  CoinInv'
<1> DEFINE new == [jobs[j] EXCEPT !.pc = "provisioned"]
<1>0. /\ jobs \in [Jobs -> JobRow] /\ jobs[j].pc = "start" /\ ~coin_accounts[jobs[j].user].locked
      /\ jobs' = [jobs EXCEPT ![j] = new] /\ UNCHANGED <<coin_operations, answers, rescues>>
      /\ provisionUser(jobs[j].user)
  BY CoinTypes DEF CoinInv, provisionPrincipal
<1>1. PICK u \in Users : u = jobs[j].user
  BY <1>0, JobFacts
<1>2. /\ jobs[j] \in JobRow /\ jobs[j].key \in Tabs
      /\ \A i \in Jobs \ {j} : jobs[i].pc = "locked" => jobs[i].user # u
  BY <1>0, <1>1, JobFacts
<1>3. new \in JobRow /\ new.pc = "provisioned" /\ new.user = u /\ new.key = jobs[j].key
  BY <1>1, <1>2 DEF JobRow
<1> HIDE DEF new
<1>4. OneAccount(u) /\ LedgerHolds(u)' /\ coin_accounts'[u].exists
  BY <1>0, <1>1, ProvisionFacts
<1>5. OneJob(j) /\ jobs'[j] = new
  BY <1>0, <1>3 DEF OneJob
<1>6. JobHolds(j)'
  BY <1>2, <1>3, <1>4, <1>5 DEF JobHolds
<1> QED
  BY <1>2, <1>3, <1>4, <1>5, <1>6, JobStepPreserves

(* A used key is answered with what is stored.                             *)
LEMMA ReplayStep ==
  ASSUME CoinInv, NEW j \in Jobs, RescueReplays(j)
  PROVE  CoinInv'
<1>0. /\ jobs \in [Jobs -> JobRow] /\ coin_accounts \in [Users -> Account]
      /\ coin_operations \in [Users -> Ledger] /\ rescues \in [Users -> Nat]
      /\ answers \in [Users -> [Tabs -> SUBSET Response]]
  BY CoinTypes DEF CoinInv
<1>1. /\ jobs[j].pc = "provisioned" /\ ~coin_accounts[jobs[j].user].locked
      /\ jobs[j].key \in DOMAIN coin_operations[jobs[j].user]
      /\ jobs' = [jobs EXCEPT ![j] = NoJob]
      /\ answers' = [answers EXCEPT ![jobs[j].user][jobs[j].key] =
                       @ \cup {coin_operations[jobs[j].user][jobs[j].key]}]
      /\ UNCHANGED <<coin_accounts, coin_operations, rescues>>
  BY DEF RescueReplays, lockAccount, UsedKeys, Answer
<1>2. PICK u \in Users, key \in Tabs : u = jobs[j].user /\ key = jobs[j].key
  BY <1>1, JobFacts
<1>3. \A i \in Jobs \ {j} : jobs[i].pc = "locked" => jobs[i].user # u
  BY <1>1, <1>2, JobFacts
<1>4. OneJob(j) /\ jobs'[j] = NoJob /\ NoJob.pc = "free"
  BY <1>0, <1>1, NoJobType DEF OneJob
<1>5. coin_operations[u][key] \in Response
  BY <1>0, <1>1, <1>2 DEF Ledger
<1>6. /\ answers' \in [Users -> [Tabs -> SUBSET Response]]
      /\ \A v \in Users \ {u} : answers'[v] = answers[v]
      /\ \A k \in Tabs \ {key} : answers'[u][k] = answers[u][k]
      /\ answers'[u][key] = answers[u][key] \cup {coin_operations[u][key]}
  BY <1>0, <1>1, <1>2, <1>5
<1>7. OneAccount(u)
  BY <1>0, <1>1, <1>6 DEF OneAccount
<1>8. JobHolds(j)'
  BY <1>4 DEF JobHolds
<1>9. LedgerHolds(u)'
  <2>1. LedgerHolds(u)
    BY DEF CoinInv
  <2>2. \A k \in Tabs : \A a \in answers'[u][k] :
          k \in DOMAIN coin_operations[u] /\ a = coin_operations[u][k]
    <3>1. ASSUME NEW k \in Tabs, NEW a \in answers'[u][k]
          PROVE  k \in DOMAIN coin_operations[u] /\ a = coin_operations[u][k]
      <4>1. CASE a \in answers[u][k]
        BY <2>1, <4>1, Zenon DEF LedgerHolds
      <4>2. CASE a \notin answers[u][k]
        <5>1. k = key /\ a = coin_operations[u][key]
          BY <1>2, <1>6, <3>1, <4>2, Zenon
        <5> QED
          BY <1>1, <1>2, <5>1, Zenon
      <4> QED
        BY <4>1, <4>2
    <3> QED
      BY <3>1
  <2> QED
    BY <1>1, <2>1, <2>2 DEF LedgerHolds
<1> QED
  BY <1>1, <1>3, <1>4, <1>7, <1>8, <1>9, JobStepPreserves

(* The locking read.                                                       *)
LEMMA ReadStep ==
  ASSUME CoinInv, NEW j \in Jobs, RescueReads(j)
  PROVE  CoinInv'
<1>0. /\ jobs \in [Jobs -> JobRow] /\ coin_accounts \in [Users -> Account]
      /\ coin_operations \in [Users -> Ledger] /\ rescues \in [Users -> Nat]
      /\ answers \in [Users -> [Tabs -> SUBSET Response]]
  BY CoinTypes DEF CoinInv
<1>1. /\ jobs[j].pc = "provisioned" /\ ~coin_accounts[jobs[j].user].locked
      /\ jobs[j].key \notin DOMAIN coin_operations[jobs[j].user]
      /\ coin_accounts' = [coin_accounts EXCEPT ![jobs[j].user].locked = TRUE]
      /\ jobs' = [jobs EXCEPT ![j].pc = "locked", ![j].seen = coin_accounts[jobs[j].user]]
      /\ UNCHANGED <<coin_operations, answers, rescues>>
  BY DEF RescueReads, lockAccount, UsedKeys
<1>2. PICK u \in Users : u = jobs[j].user
  BY <1>1, JobFacts
<1>3. /\ jobs[j] \in JobRow /\ jobs[j].key \in Tabs /\ coin_accounts[u] \in Account
      /\ coin_accounts[u].exists
      /\ \A i \in Jobs \ {j} : jobs[i].pc = "locked" => jobs[i].user # u
  BY <1>1, <1>2, JobFacts DEF CoinInv, JobHolds
<1> DEFINE new == [jobs[j] EXCEPT !.pc = "locked", !.seen = coin_accounts[u]]
           account == [coin_accounts[u] EXCEPT !.locked = TRUE]
<1>4. /\ new \in JobRow /\ new.pc = "locked" /\ new.user = u /\ new.key = jobs[j].key
      /\ new.seen = coin_accounts[u]
  BY <1>2, <1>3 DEF JobRow
<1>5. /\ account \in Account /\ account.exists /\ account.locked
      /\ account.available = coin_accounts[u].available
      /\ account.reserved = coin_accounts[u].reserved /\ account.rescued = coin_accounts[u].rescued
  BY <1>3 DEF Account
<1>6. jobs' = [jobs EXCEPT ![j] = new] /\ coin_accounts' = [coin_accounts EXCEPT ![u] = account]
  <2>1. jobs' = [jobs EXCEPT ![j] = [jobs[j] EXCEPT !.pc = "locked", !.seen = coin_accounts[jobs[j].user]]]
    BY <1>0, <1>1
  <2> QED
    BY <1>1, <1>2, <2>1
<1> HIDE DEF new, account
<1>7. OneJob(j) /\ jobs'[j] = new
  BY <1>0, <1>4, <1>6 DEF OneJob
<1>71. /\ coin_accounts' \in [Users -> Account] /\ coin_accounts'[u] = account
       /\ \A v \in Users \ {u} : coin_accounts'[v] = coin_accounts[v]
  BY <1>0, <1>5, <1>6
<1>8. OneAccount(u) /\ coin_accounts'[u] = account
  BY <1>0, <1>1, <1>71 DEF OneAccount
<1>9. JobHolds(j)'
  BY <1>1, <1>2, <1>3, <1>4, <1>5, <1>7, <1>8 DEF JobHolds, ReadHolds
<1>10. LedgerHolds(u)'
  BY <1>1, <1>5, <1>8 DEF CoinInv, LedgerHolds, Total
<1> QED
  BY <1>3, <1>4, <1>5, <1>7, <1>8, <1>9, <1>10, JobStepPreserves

LEMMA FailStep ==
  ASSUME CoinInv, NEW j \in Jobs, RescueFails(j)
  PROVE  CoinInv'
<1>0. /\ jobs \in [Jobs -> JobRow] /\ coin_accounts \in [Users -> Account]
      /\ coin_operations \in [Users -> Ledger] /\ rescues \in [Users -> Nat]
      /\ answers \in [Users -> [Tabs -> SUBSET Response]]
  BY CoinTypes DEF CoinInv
<1>1. /\ jobs[j].pc # "free" /\ jobs' = [jobs EXCEPT ![j] = NoJob]
      /\ coin_accounts' = IF jobs[j].pc = "locked"
                            THEN [coin_accounts EXCEPT ![jobs[j].user].locked = FALSE] ELSE coin_accounts
      /\ UNCHANGED <<coin_operations, answers, rescues>>
  BY DEF RescueFails
<1>2. PICK u \in Users : u = jobs[j].user
  BY <1>1, JobFacts
<1>3. OneJob(j) /\ jobs'[j] = NoJob /\ NoJob.pc = "free"
  BY <1>0, <1>1, NoJobType DEF OneJob
<1>4. JobHolds(j)'
  BY <1>3 DEF JobHolds
<1>5. CASE jobs[j].pc = "locked"
  <2> DEFINE account == [coin_accounts[u] EXCEPT !.locked = FALSE]
  <2>1. /\ account \in Account /\ account.exists = coin_accounts[u].exists
        /\ account.available = coin_accounts[u].available
        /\ account.reserved = coin_accounts[u].reserved /\ account.rescued = coin_accounts[u].rescued
    BY <1>0 DEF Account
  <2>2. coin_accounts' = [coin_accounts EXCEPT ![u] = account]
    BY <1>1, <1>2, <1>5
  <2> HIDE DEF account
  <2>3. OneAccount(u) /\ coin_accounts'[u] = account
    BY <1>0, <1>1, <2>1, <2>2 DEF OneAccount
  <2>4. LedgerHolds(u)'
    BY <1>1, <2>1, <2>3 DEF CoinInv, LedgerHolds, Total
  <2>5. \A i \in Jobs \ {j} : jobs[i].pc = "locked" => jobs[i].user # u
    BY <1>2, <1>5, JobFacts
  <2> QED
    BY <1>3, <1>4, <2>1, <2>3, <2>4, <2>5, JobStepPreserves
<1>6. CASE jobs[j].pc # "locked"
  <2>1. UNCHANGED <<coin_accounts, coin_operations, answers, rescues>>
    BY <1>1, <1>6
  <2>2. EconomyTypeOK'
    BY <1>3, <2>1 DEF CoinInv, EconomyTypeOK, OneJob, JobRow
  <2>3. ASSUME NEW i \in Jobs PROVE JobHolds(i)'
    BY <1>3, <1>4, <2>1 DEF CoinInv, OneJob, JobHolds, ReadHolds
  <2>4. LocksExclude' /\ \A v \in Users : LedgerHolds(v)'
    BY <1>3, <2>1 DEF CoinInv, LocksExclude, OneJob, LedgerHolds
  <2> QED
    BY <2>2, <2>3, <2>4 DEF CoinInv
<1> QED
  BY <1>5, <1>6

(* The end of a rescue: the response is stored under the key and given.    *)
LEMMA RescueEnds ==
  ASSUME CoinInv, NEW j \in Jobs, jobs[j].pc = "locked",
         NEW u \in Users, u = jobs[j].user, NEW key \in Tabs, key = jobs[j].key,
         NEW response \in Response, response.granted => Total(response) = RescueBalance,
         NEW account \in Account, coin_accounts' = [coin_accounts EXCEPT ![u] = account],
         account.exists, Total(account) <= InitialGrant + RescueBalance,
         coin_operations' = [coin_operations EXCEPT ![u] = Stored(u, key, response)],
         jobs' = [jobs EXCEPT ![j] = NoJob],
         answers' = [answers EXCEPT ![u][key] = @ \cup {response}],
         NEW n \in Nat, rescues' = [rescues EXCEPT ![u] = n],
         n <= 1, n = 1 => account.rescued = "closed"
  PROVE  CoinInv'
<1>0. /\ jobs \in [Jobs -> JobRow] /\ coin_accounts \in [Users -> Account]
      /\ coin_operations \in [Users -> Ledger] /\ rescues \in [Users -> Nat]
      /\ answers \in [Users -> [Tabs -> SUBSET Response]]
  BY CoinTypes DEF CoinInv
<1>1. /\ key \notin DOMAIN coin_operations[u]
      /\ \A i \in Jobs \ {j} : jobs[i].pc = "locked" => jobs[i].user # u
  BY JobFacts DEF CoinInv, JobHolds, ReadHolds
<1> DEFINE ledger == Stored(u, key, response)
<1>2. /\ DOMAIN ledger = DOMAIN coin_operations[u] \cup {key} /\ ledger[key] = response
      /\ \A k \in DOMAIN coin_operations[u] : ledger[k] = coin_operations[u][k]
  BY <1>1 DEF Stored
<1>3. ledger \in Ledger
  <2>1. /\ DOMAIN coin_operations[u] \in SUBSET Tabs
        /\ \A k \in DOMAIN coin_operations[u] : coin_operations[u][k] \in Response
    BY <1>0 DEF Ledger
  <2> DEFINE K == DOMAIN coin_operations[u] \cup {key}
  <2>2. K \in SUBSET Tabs
    BY <2>1
  <2>3. ledger \in [K -> Response]
    BY <2>1 DEF Stored
  <2> QED
    BY <2>2, <2>3 DEF Ledger
<1>4. coin_operations' = [coin_operations EXCEPT ![u] = ledger]
  OBVIOUS
<1> HIDE DEF ledger
<1>5. /\ answers' \in [Users -> [Tabs -> SUBSET Response]]
      /\ \A v \in Users \ {u} : answers'[v] = answers[v]
      /\ \A k \in Tabs \ {key} : answers'[u][k] = answers[u][k]
      /\ answers'[u][key] = answers[u][key] \cup {response}
  BY <1>0
<1>6. OneAccount(u) /\ coin_accounts'[u] = account /\ coin_operations'[u] = ledger /\ rescues'[u] = n
  BY <1>0, <1>3, <1>4, <1>5 DEF OneAccount
<1>7. OneJob(j) /\ jobs'[j] = NoJob /\ NoJob.pc = "free"
  BY <1>0, NoJobType DEF OneJob
<1>8. JobHolds(j)'
  BY <1>7 DEF JobHolds
<1>9. LedgerHolds(u)'
  <2>1. LedgerHolds(u)
    BY DEF CoinInv
  <2>2. \A k \in Tabs : \A a \in answers'[u][k] : k \in DOMAIN ledger /\ a = ledger[k]
    <3>1. ASSUME NEW k \in Tabs, NEW a \in answers'[u][k]
          PROVE  k \in DOMAIN ledger /\ a = ledger[k]
      <4>1. CASE a \in answers[u][k]
        <5>1. k \in DOMAIN coin_operations[u] /\ a = coin_operations[u][k]
          BY <2>1, <4>1, Zenon DEF LedgerHolds
        <5> QED
          BY <1>2, <5>1, Zenon
      <4>2. CASE a \notin answers[u][k]
        <5>1. k = key
          BY <1>5, <3>1, <4>2, Zenon
        <5>2. a = response
          <6>1. answers'[u][k] = answers[u][k] \cup {response}
            BY <1>5, <5>1
          <6> QED
            BY <3>1, <4>2, <6>1
        <5> QED
          BY <1>2, <5>1, <5>2, Zenon
      <4> QED
        BY <4>1, <4>2
    <3> QED
      BY <3>1
  <2>3. \A k \in DOMAIN ledger : ledger[k].granted => Total(ledger[k]) = RescueBalance
    BY <1>2, <2>1 DEF LedgerHolds
  <2> QED
    BY <1>6, <2>2, <2>3 DEF LedgerHolds
<1> QED
  BY <1>1, <1>6, <1>7, <1>8, <1>9, JobStepPreserves

(* What was read is still so when the writes follow from it.               *)
LEMMA LockedFacts ==
  ASSUME CoinInv, NEW j \in Jobs, jobs[j].pc = "locked"
  PROVE  /\ jobs[j].user \in Users /\ jobs[j].key \in Tabs
         /\ coin_accounts[jobs[j].user] \in Account /\ coin_accounts[jobs[j].user].exists
         /\ jobs[j].seen.available = coin_accounts[jobs[j].user].available
         /\ jobs[j].seen.reserved = coin_accounts[jobs[j].user].reserved
         /\ jobs[j].seen.rescued # "closed" => coin_accounts[jobs[j].user].rescued # "closed"
BY JobFacts DEF CoinInv, JobHolds, ReadHolds

LEMMA DeclineStep ==
  ASSUME CoinInv, NEW j \in Jobs, RescueDeclines(j)
  PROVE  CoinInv'
<1>0. coin_accounts \in [Users -> Account] /\ rescues \in [Users -> Nat] /\ jobs[j].pc = "locked"
  BY CoinTypes DEF CoinInv, RescueDeclines
<1>1. PICK u \in Users, key \in Tabs : u = jobs[j].user /\ key = jobs[j].key
  BY <1>0, LockedFacts
<1> DEFINE seen == jobs[j].seen
           response == [granted |-> FALSE, available |-> seen.available, reserved |-> seen.reserved]
           account == [coin_accounts[u] EXCEPT !.locked = FALSE]
<1>2. /\ coin_accounts[u] \in Account /\ coin_accounts[u].exists
      /\ seen.available = coin_accounts[u].available /\ seen.reserved = coin_accounts[u].reserved
  BY <1>0, <1>1, LockedFacts
<1>3. response \in Response /\ ~response.granted
  BY <1>2 DEF Response, Account
<1>4. /\ account \in Account /\ account.exists
      /\ account.available = coin_accounts[u].available
      /\ account.reserved = coin_accounts[u].reserved /\ account.rescued = coin_accounts[u].rescued
  BY <1>2 DEF Account
<1>5. /\ coin_accounts' = [coin_accounts EXCEPT ![u] = account]
      /\ coin_operations' = [coin_operations EXCEPT ![u] = Stored(u, key, response)]
      /\ jobs' = [jobs EXCEPT ![j] = NoJob]
      /\ answers' = [answers EXCEPT ![u][key] = @ \cup {response}]
      /\ rescues' = [rescues EXCEPT ![u] = rescues[u]]
  BY <1>0, <1>1 DEF RescueDeclines, Answer
<1>6. rescues[u] \in Nat /\ rescues[u] <= 1 /\ (rescues[u] = 1 => account.rescued = "closed")
      /\ Total(account) <= InitialGrant + RescueBalance
  BY <1>0, <1>4 DEF CoinInv, LedgerHolds, Total
<1> HIDE DEF response, account
<1>7. PICK n \in Nat, a \in Account, r \in Response : n = rescues[u] /\ a = account /\ r = response
  BY <1>3, <1>4, <1>6
<1>8. /\ a.exists /\ Total(a) <= InitialGrant + RescueBalance /\ ~r.granted
      /\ n <= 1 /\ (n = 1 => a.rescued = "closed")
  BY <1>3, <1>4, <1>6, <1>7
<1>9. /\ coin_accounts' = [coin_accounts EXCEPT ![u] = a]
      /\ coin_operations' = [coin_operations EXCEPT ![u] = Stored(u, key, r)]
      /\ answers' = [answers EXCEPT ![u][key] = @ \cup {r}]
      /\ rescues' = [rescues EXCEPT ![u] = n]
      /\ jobs' = [jobs EXCEPT ![j] = NoJob]
  BY <1>5, <1>7
<1> QED
  BY <1>0, <1>1, <1>8, <1>9, RescueEnds

LEMMA GrantStep ==
  ASSUME CoinInv, NEW j \in Jobs, RescueGrants(j)
  PROVE  CoinInv'
<1>0. /\ coin_accounts \in [Users -> Account] /\ rescues \in [Users -> Nat] /\ jobs[j].pc = "locked"
      /\ Eligible(jobs[j].seen)
  BY CoinTypes DEF CoinInv, RescueGrants
<1>1. PICK u \in Users, key \in Tabs : u = jobs[j].user /\ key = jobs[j].key
  BY <1>0, LockedFacts
<1> DEFINE seen == jobs[j].seen
           now == coin_accounts[u].available + RescueBalance - Total(seen)
           response == [granted |-> TRUE, available |-> now, reserved |-> coin_accounts[u].reserved]
           account == [coin_accounts[u] EXCEPT !.available = now, !.rescued = "closed", !.locked = FALSE]
<1>2. /\ coin_accounts[u] \in Account /\ coin_accounts[u].exists
      /\ seen.available = coin_accounts[u].available /\ seen.reserved = coin_accounts[u].reserved
      /\ seen.rescued # "closed" => coin_accounts[u].rescued # "closed"
  BY <1>0, <1>1, LockedFacts
<1>21. coin_accounts[u].rescued # "closed"
  BY <1>0, <1>2 DEF Eligible
<1>22. /\ coin_accounts[u].available \in Nat /\ coin_accounts[u].reserved \in Nat
       /\ coin_accounts[u].available + coin_accounts[u].reserved < RescueBalance
       /\ coin_accounts[u].reserved \in Coins
  BY <1>0, <1>2, CoinNumbers DEF Account, Eligible, Total
<1>23. now = RescueBalance - coin_accounts[u].reserved
  BY <1>2, <1>22, CoinNumbers DEF Total
<1>24. now \in Coins /\ now + coin_accounts[u].reserved = RescueBalance
  BY <1>22, <1>23, CoinNumbers DEF Coins
<1> HIDE DEF now
<1>3. response \in Response /\ Total(response) = RescueBalance
  BY <1>22, <1>24 DEF Response, Total
<1>4. /\ account \in Account /\ account.exists /\ account.rescued = "closed"
      /\ account.available = now /\ account.reserved = coin_accounts[u].reserved
  BY <1>2, <1>24 DEF Account, Windows
<1>5. /\ coin_accounts' = [coin_accounts EXCEPT ![u] = account]
      /\ coin_operations' = [coin_operations EXCEPT ![u] = Stored(u, key, response)]
      /\ jobs' = [jobs EXCEPT ![j] = NoJob]
      /\ answers' = [answers EXCEPT ![u][key] = @ \cup {response}]
      /\ rescues' = [rescues EXCEPT ![u] = rescues[u] + 1]
  BY <1>1 DEF RescueGrants, Answer, now
<1>6. rescues[u] + 1 \in Nat /\ rescues[u] + 1 <= 1
  BY <1>0, <1>21 DEF CoinInv, LedgerHolds
<1>61. Total(account) <= InitialGrant + RescueBalance
  <2>1. Total(account) = RescueBalance
    BY <1>4, <1>24 DEF Total
  <2> QED
    BY <2>1, CoinNumbers
<1> HIDE DEF response, account
<1>7. PICK n \in Nat, a \in Account, r \in Response :
        n = rescues[u] + 1 /\ a = account /\ r = response
  BY <1>3, <1>4, <1>6
<1>8. /\ a.exists /\ Total(a) <= InitialGrant + RescueBalance /\ Total(r) = RescueBalance
      /\ n <= 1 /\ a.rescued = "closed"
  BY <1>3, <1>4, <1>6, <1>61, <1>7
<1>9. /\ coin_accounts' = [coin_accounts EXCEPT ![u] = a]
      /\ coin_operations' = [coin_operations EXCEPT ![u] = Stored(u, key, r)]
      /\ answers' = [answers EXCEPT ![u][key] = @ \cup {r}]
      /\ rescues' = [rescues EXCEPT ![u] = n]
      /\ jobs' = [jobs EXCEPT ![j] = NoJob]
  BY <1>5, <1>7
<1> QED
  BY <1>0, <1>1, <1>8, <1>9, RescueEnds

(* Games move coins of an account that nobody has locked.                  *)
LEMMA GameStep ==
  ASSUME CoinInv, NEW u \in Users, GameMoves(u)
  PROVE  CoinInv'
<1>0. /\ jobs \in [Jobs -> JobRow] /\ coin_accounts \in [Users -> Account]
      /\ coin_operations \in [Users -> Ledger] /\ rescues \in [Users -> Nat]
      /\ answers \in [Users -> [Tabs -> SUBSET Response]]
      /\ UNCHANGED <<coin_operations, jobs, answers, rescues>>
      /\ coin_accounts[u].exists /\ ~coin_accounts[u].locked
  BY CoinTypes DEF CoinInv, GameMoves
<1> DEFINE available == coin_accounts[u].available
           reserved == coin_accounts[u].reserved
<1>1. /\ available \in Nat /\ reserved \in Nat
      /\ available + reserved <= InitialGrant + RescueBalance
  BY <1>0, CoinNumbers DEF CoinInv, LedgerHolds, Total, Account
<1>2. PICK a \in Coins, r \in Coins :
        /\ a + r <= InitialGrant + RescueBalance
        /\ coin_accounts' = [coin_accounts EXCEPT ![u] = [@ EXCEPT !.available = a, !.reserved = r]]
  <2>1. CASE /\ available > 0
             /\ coin_accounts' = [coin_accounts EXCEPT ![u].available = @ - 1, ![u].reserved = @ + 1]
    <3>1. /\ available - 1 \in Coins /\ reserved + 1 \in Coins
          /\ (available - 1) + (reserved + 1) <= InitialGrant + RescueBalance
      BY <1>1, <2>1, CoinNumbers DEF Coins
    <3>2. coin_accounts' = [coin_accounts EXCEPT ![u] =
                              [@ EXCEPT !.available = available - 1, !.reserved = reserved + 1]]
      BY <1>0, <2>1
    <3> QED
      BY <3>1, <3>2
  <2>2. CASE /\ reserved > 0
             /\ coin_accounts' = [coin_accounts EXCEPT ![u].available = @ + 1, ![u].reserved = @ - 1]
    <3>1. /\ available + 1 \in Coins /\ reserved - 1 \in Coins
          /\ (available + 1) + (reserved - 1) <= InitialGrant + RescueBalance
      BY <1>1, <2>2, CoinNumbers DEF Coins
    <3>2. coin_accounts' = [coin_accounts EXCEPT ![u] =
                              [@ EXCEPT !.available = available + 1, !.reserved = reserved - 1]]
      BY <1>0, <2>2
    <3> QED
      BY <3>1, <3>2
  <2>3. CASE /\ reserved > 0
             /\ coin_accounts' = [coin_accounts EXCEPT ![u].reserved = @ - 1]
    <3>1. /\ available \in Coins /\ reserved - 1 \in Coins
          /\ available + (reserved - 1) <= InitialGrant + RescueBalance
      BY <1>1, <2>3, CoinNumbers DEF Coins
    <3>2. coin_accounts' = [coin_accounts EXCEPT ![u] =
                              [@ EXCEPT !.available = available, !.reserved = reserved - 1]]
      BY <1>0, <2>3 DEF Account
    <3> QED
      BY <3>1, <3>2
  <2> QED
    BY <2>1, <2>2, <2>3 DEF GameMoves
<1> DEFINE account == [coin_accounts[u] EXCEPT !.available = a, !.reserved = r]
<1>3. /\ account \in Account /\ account.exists /\ account.available = a /\ account.reserved = r
      /\ account.rescued = coin_accounts[u].rescued
  BY <1>0 DEF Account
<1>4. coin_accounts' = [coin_accounts EXCEPT ![u] = account]
  BY <1>2
<1> HIDE DEF account
<1>5. /\ coin_accounts' \in [Users -> Account] /\ coin_accounts'[u] = account
      /\ \A v \in Users \ {u} : coin_accounts'[v] = coin_accounts[v]
  BY <1>0, <1>3, <1>4
<1>6. OneAccount(u)
  BY <1>0, <1>5 DEF OneAccount
<1>7. ASSUME NEW j \in Jobs, JobHolds(j), jobs[j].user = u PROVE JobHolds(j)'
  BY <1>0, <1>3, <1>5, <1>7 DEF JobHolds, ReadHolds
<1>8. LedgerHolds(u)'
  BY <1>0, <1>2, <1>3, <1>5 DEF CoinInv, LedgerHolds, Total
<1> QED
  BY <1>0, <1>6, <1>7, <1>8, AccountStepPreserves

(* The window opens by itself, whoever has locked the account.             *)
LEMMA WindowStep ==
  ASSUME CoinInv, NEW u \in Users, WindowOpens(u)
  PROVE  CoinInv'
<1>0. /\ jobs \in [Jobs -> JobRow] /\ coin_accounts \in [Users -> Account]
      /\ coin_operations \in [Users -> Ledger] /\ rescues \in [Users -> Nat]
      /\ answers \in [Users -> [Tabs -> SUBSET Response]]
      /\ UNCHANGED <<coin_operations, jobs, answers>>
      /\ coin_accounts[u].rescued = "closed" /\ rescues' = [rescues EXCEPT ![u] = 0]
  BY CoinTypes DEF CoinInv, WindowOpens
<1> DEFINE account == [coin_accounts[u] EXCEPT !.rescued = "open"]
<1>1. /\ account \in Account /\ account.exists = coin_accounts[u].exists /\ account.rescued = "open"
      /\ account.available = coin_accounts[u].available /\ account.reserved = coin_accounts[u].reserved
  BY <1>0 DEF Account, Windows
<1>2. account.locked = coin_accounts[u].locked
  BY <1>0 DEF Account
<1>3. coin_accounts' = [coin_accounts EXCEPT ![u] = account]
  BY DEF WindowOpens
<1> HIDE DEF account
<1>4. /\ coin_accounts' \in [Users -> Account] /\ coin_accounts'[u] = account
      /\ \A v \in Users \ {u} : coin_accounts'[v] = coin_accounts[v]
  BY <1>0, <1>1, <1>3
<1>5. OneAccount(u) /\ rescues'[u] = 0
  BY <1>0, <1>4 DEF OneAccount
<1>6. ASSUME NEW j \in Jobs, JobHolds(j), jobs[j].user = u PROVE JobHolds(j)'
  BY <1>0, <1>1, <1>2, <1>4, <1>6 DEF JobHolds, ReadHolds
<1>7. LedgerHolds(u)'
  BY <1>0, <1>1, <1>4, <1>5 DEF CoinInv, LedgerHolds, Total
<1> QED
  BY <1>0, <1>5, <1>6, <1>7, AccountStepPreserves

-----------------------------------------------------------------------------
(* The specification.                                                      *)
LEMMA CoinStarts == EconomyInit => CoinInv
<1> SUFFICES ASSUME EconomyInit PROVE CoinInv
  OBVIOUS
<1>1. /\ coin_accounts = [u \in Users |-> NoAccount] /\ coin_operations = [u \in Users |-> <<>>]
      /\ jobs = [j \in Jobs |-> NoJob] /\ answers = [u \in Users |-> [k \in Tabs |-> {}]]
      /\ rescues = [u \in Users |-> 0]
  BY DEF EconomyInit
<1>2. <<>> \in Ledger /\ DOMAIN <<>> = {}
  <2>1. <<>> \in [{} -> Response]
    OBVIOUS
  <2> QED
    BY <2>1 DEF Ledger
<1>3. EconomyTypeOK
  <2>1. coin_operations \in [Users -> Ledger] /\ jobs \in [Jobs -> JobRow]
        /\ coin_accounts \in [Users -> Account]
    BY <1>1, <1>2, NoJobType
  <2>2. answers \in [Users -> [Tabs -> SUBSET Response]] /\ rescues \in [Users -> Nat]
    BY <1>1
  <2> QED
    BY <2>1, <2>2 DEF EconomyTypeOK, JobRow, Ledger
<1>4. (\A j \in Jobs : JobHolds(j)) /\ LocksExclude
  BY <1>1, NoJobType DEF JobHolds, LocksExclude
<1>5. ASSUME NEW u \in Users PROVE LedgerHolds(u)
  <2>1. NoAccount.rescued # "closed" /\ Total(NoAccount) = 0
    BY DEF NoAccount, Total
  <2>2. Total(NoAccount) <= InitialGrant + RescueBalance
    BY <2>1, CoinNumbers
  <2> QED
    BY <1>1, <1>2, <2>1, <2>2 DEF LedgerHolds
<1> QED
  BY <1>3, <1>4, <1>5 DEF CoinInv

LEMMA CoinStep == AuthInv /\ CoinInv /\ [Next]_vars => CoinInv'
<1> SUFFICES ASSUME AuthInv, CoinInv, [Next]_vars PROVE CoinInv'
  OBVIOUS
<1>1. ASSUME NEW i \in Slots, RegisterAndProvision(i) PROVE CoinInv'
  BY <1>1, RegistrationStep
<1>2. ASSUME UNCHANGED coinVars PROVE CoinInv'
  <2>1. jobs \in [Jobs -> JobRow]
    BY CoinTypes DEF CoinInv
  <2> QED
    BY <1>2, <2>1, AccountsKept DEF coinVars
<1>3. ASSUME NEW j \in Jobs, Rescue(j) PROVE CoinInv'
  BY <1>3, ProvisionStep, ReplayStep, ReadStep, DeclineStep, GrantStep, FailStep DEF Rescue, RescueStep
<1>4. ASSUME NEW t \in Tabs, Unheard(t) \/ SendRescue(t) PROVE CoinInv'
  BY <1>4, UnheardStep, AcceptStep
<1>5. ASSUME NEW u \in Users, GameMoves(u) \/ WindowOpens(u) PROVE CoinInv'
  BY <1>5, GameStep, WindowStep
<1>6. CASE UNCHANGED vars
  BY <1>2, <1>6 DEF vars
<1>7. CASE Next
  BY <1>1, <1>2, <1>3, <1>4, <1>5, <1>7 DEF Next, ApiStep, BrowserStep
<1> QED
  BY <1>6, <1>7

(* The accounts, the ledger and the rescue requests stay as CoinInv says:  *)
(* what a rescue has read under the account's lock still holds when it     *)
(* writes (economy.service.ts, lockAccount).                               *)
THEOREM CoinInductive == Spec => []CoinInv
BY CoinStarts, CoinStep, AuthInductive, PTL DEF Spec, Init

(* The variables of Accounts have their types, whatever its constants.     *)
THEOREM AccountsTypeCorrect == Spec => []TypeOK
<1>1. AuthInv /\ CoinInv => TypeOK
  BY DEF AuthInv, CoinInv, TypeOK
<1> QED
  BY <1>1, AuthInductive, CoinInductive, PTL

(* An account is rescued once in a window, and a rescue fills it up to the *)
(* rescue balance, whatever retries and games run beside it (rescue).      *)
THEOREM RescueCorrect == Spec => []RescuedOncePerWindow
<1>1. CoinInv => RescuedOncePerWindow
  <2> SUFFICES ASSUME CoinInv, NEW u \in Users
               PROVE  /\ rescues[u] <= 1
                      /\ \A k \in Tabs : \A a \in answers[u][k] : a.granted => Total(a) = RescueBalance
    BY DEF RescuedOncePerWindow
  <2> QED
    BY DEF CoinInv, LedgerHolds
<1> QED
  BY <1>1, CoinInductive, PTL

(* All attempts with one idempotency key get one answer (the response      *)
(* snapshot of coin_operations).                                           *)
THEOREM AnswerCorrect == Spec => []OneAnswerPerKey
<1>1. CoinInv => OneAnswerPerKey
  <2> SUFFICES ASSUME CoinInv, NEW u \in Users, NEW k \in Tabs
               PROVE  Cardinality(answers[u][k]) <= 1
    BY DEF OneAnswerPerKey
  <2>1. answers[u][k] \subseteq {coin_operations[u][k]}
    BY DEF CoinInv, LedgerHolds
  <2>2. IsFiniteSet({coin_operations[u][k]}) /\ Cardinality({coin_operations[u][k]}) = 1
    BY FS_Singleton
  <2>3. Cardinality(answers[u][k]) <= Cardinality({coin_operations[u][k]})
    BY <2>1, <2>2, FS_Subset
  <2> QED
    BY <2>2, <2>3
<1> QED
  BY <1>1, CoinInductive, PTL
=============================================================================
