-------------------------- MODULE EmailAuthProofs --------------------------
(***************************************************************************)
(* Proofs about the sessions and tabs of Accounts, for any number of tabs, *)
(* users, sessions, tokens and requests.                                   *)
(***************************************************************************)
EXTENDS Accounts, SequenceTheorems, TLAPS

SigningInOps == {"register", "login"}

(* A tab has one request under way, for the operation at the head of its   *)
(* queue (AuthMutationQueue).                                              *)
OneRequestPerTab ==
  \A i, j \in Slots : http[i].tab = http[j].tab /\ http[i].tab # NoTab => i = j
RequestsFollowQueues ==
  \A i \in Slots :
    http[i].tab # NoTab => /\ http[i].pc # "free"
                           /\ tab[http[i].tab].queue # <<>>
                           /\ http[i].op = Head(tab[http[i].tab].queue).op

(* Somebody signs in with a name.                                          *)
SignInsAreNamed ==
  /\ \A t \in Tabs : \A k \in DOMAIN tab[t].queue :
       tab[t].queue[k].op \in SigningInOps => tab[t].queue[k].user \in Users
  /\ \A i \in Slots : http[i].op \in SigningInOps /\ http[i].pc = "sent" => http[i].user \in Users

(* A session is created with its first token and then has one at a time;   *)
(* only sessions that exist have tokens.                                   *)
Issued(token) == token # NoToken => auth_sessions[token[1]].user # NoUser
SessionsCount ==
  /\ \A s \in Sessions : /\ auth_sessions[s].jti = auth_sessions[s].minted
                         /\ auth_sessions[s].user = NoUser => auth_sessions[s].jti = 0
  /\ Issued(cookie) /\ \A i \in Slots : Issued(http[i].token)

(* The row lock of refresh: what a rotation has read is still so.          *)
HasRead(i) ==
  /\ http[i].op = "refresh" /\ http[i].token # NoToken
  /\ Session(i).locked
  /\ Session(i).jti = Jti(i)
RefreshesExclude ==
  /\ \A i \in Slots : http[i].pc = "locked" => HasRead(i)
  /\ \A i, j \in Slots :
       http[i].pc = "locked" /\ http[j].pc = "locked" /\ http[i].token[1] = http[j].token[1] => i = j

(* What was exchanged is older than the session's token.                   *)
ExchangedAreOld ==
  \A x \in exchanged : x[1] # NoToken /\ x[1][2] < auth_sessions[x[1][1]].jti

(* Tokens that open nothing any more.                                      *)
Dead(token) == token # NoToken => auth_sessions[token[1]].revoked
LogoutsEnd ==
  \A i \in Slots :
    http[i].pc = "replied" /\ http[i].op = "logout" /\ http[i].ok => Dead(http[i].token)

(* As long as somebody is signed out for good, nobody signs in, and what   *)
(* the browser could still present or receive is dead.                     *)
NothingOpens ==
  signedOut # {} => /\ ~SigningIn
                    /\ Dead(cookie) /\ \A i \in Slots : Dead(http[i].token)
OnlyLogoutsSucceed ==
  \A t \in signedOut : \A i \in Waiting(t) :
    http[i].pc = "replied" /\ http[i].ok => http[i].op = "logout"

AuthInv ==
  /\ AuthTypeOK
  /\ OneRequestPerTab /\ RequestsFollowQueues /\ SignInsAreNamed
  /\ SessionsCount /\ RefreshesExclude /\ ExchangedAreOld /\ TokensExchangedOnce
  /\ LogoutsEnd /\ NothingOpens /\ OnlyLogoutsSucceed /\ SignedOutStaysOut
  /\ WaitersAreServed

-----------------------------------------------------------------------------
(* The records of the type invariant.                                      *)
SessionRow == [user : SomeUser, jti : 0 .. MaxTokens, minted : 0 .. MaxTokens,
               revoked : BOOLEAN, locked : BOOLEAN]
TabState == [user : SomeUser, access : [user : SomeUser, expired : BOOLEAN],
             api : ApiSteps, ready : BOOLEAN, queue : Seq(Queued)]
Request == [pc : {"free", "sent", "locked", "replied"}, tab : Tabs \cup {NoTab}, op : Ops,
            user : SomeUser, token : Tokens, ok : BOOLEAN]

LEMMA AuthTypes ==
  ASSUME AuthTypeOK
  PROVE  /\ auth_sessions \in [Sessions -> SessionRow] /\ tab \in [Tabs -> TabState]
         /\ http \in [Slots -> Request] /\ cookie \in Tokens /\ users \subseteq Users
         /\ exchanged \subseteq Tokens \X Tokens /\ signedOut \subseteq Tabs
         /\ moves \in 0 .. MaxMoves
         /\ \A t \in Tabs : Len(tab[t].queue) <= MaxQueue
BY DEF AuthTypeOK, SessionRow, TabState, Request

LEMMA NoRequestType ==
  /\ NoRequest \in Request /\ NoToken \in Tokens
  /\ NoRequest.pc = "free" /\ NoRequest.tab = NoTab /\ NoRequest.token = NoToken
BY DEF NoRequest, Request, Ops, SomeUser, Tokens

LEMMA TokenParts ==
  ASSUME NEW token \in Tokens, token # NoToken
  PROVE  token[1] \in Sessions /\ token[2] \in 1 .. MaxTokens /\ token = <<token[1], token[2]>>
BY DEF Tokens

LEMMA PairIsToken ==
  ASSUME NEW s \in Sessions, NEW n \in 1 .. MaxTokens
  PROVE  <<s, n>> \in Tokens /\ <<s, n>> # NoToken /\ <<s, n>>[1] = s /\ <<s, n>>[2] = n
BY DEF Tokens, NoToken

(* Rows are never deleted or unrevoked.                                    *)
SessionsGrow ==
  \A s \in Sessions : /\ auth_sessions[s].user # NoUser => auth_sessions'[s].user # NoUser
                      /\ auth_sessions[s].revoked => auth_sessions'[s].revoked

LEMMA TokensStay ==
  ASSUME SessionsGrow, NEW token \in Tokens
  PROVE  /\ Issued(token) => Issued(token)'
         /\ Dead(token) => Dead(token)'
BY TokenParts DEF SessionsGrow, Issued, Dead

-----------------------------------------------------------------------------
(* The API.  A step of the API changes one request and tells no tab        *)
(* anything yet.                                                           *)
ServerShape(i) ==
  /\ tab' = tab /\ cookie' = cookie /\ signedOut' = signedOut /\ moves' = moves
  /\ http[i].pc \in {"sent", "locked"}
  /\ http' = [http EXCEPT ![i] = http'[i]]
  /\ http'[i] \in Request
  /\ http'[i].pc \in {"free", "locked", "replied"}
  /\ http'[i].tab = http[i].tab
  /\ http'[i].tab # NoTab => http'[i].op = http[i].op /\ http'[i].pc # "free"
  /\ http'[i].tab = NoTab => http'[i] = NoRequest \/ http'[i].pc = "locked"

LEMMA ReplyShape ==
  ASSUME AuthTypeOK, NEW i \in Slots, NEW ok \in BOOLEAN, NEW user \in SomeUser, NEW token \in Tokens,
         http[i].pc \in {"sent", "locked"}, Reply(i, ok, user, token), UNCHANGED <<browserVars, moves>>
  PROVE  /\ ServerShape(i)
         /\ \/ http'[i] = NoRequest
            \/ /\ http[i].tab # NoTab /\ http'[i].pc = "replied" /\ http'[i].ok = ok
               /\ http'[i].token = token /\ http'[i].op = http[i].op
<1>1. http \in [Slots -> Request]
  BY AuthTypes
<1>2. CASE http[i].tab = NoTab
  <2>1. http' = [http EXCEPT ![i] = NoRequest]
    BY <1>2 DEF Reply
  <2>2. http'[i] = NoRequest
    BY <1>1, <2>1
  <2> QED
    BY <1>2, <2>1, <2>2, NoRequestType DEF ServerShape, browserVars
<1>3. CASE http[i].tab # NoTab
  <2> DEFINE r == [http[i] EXCEPT !.pc = "replied", !.ok = ok, !.user = user, !.token = token]
  <2>1. http' = [http EXCEPT ![i] = r]
    BY <1>3 DEF Reply
  <2>2. http'[i] = r
    BY <1>1, <2>1
  <2>3. /\ r \in Request /\ r.pc = "replied" /\ r.ok = ok /\ r.token = token
        /\ r.op = http[i].op /\ r.tab = http[i].tab
    BY <1>1 DEF Request
  <2>4. tab' = tab /\ cookie' = cookie /\ signedOut' = signedOut /\ moves' = moves
    BY DEF browserVars
  <2> HIDE DEF r
  <2>5. ServerShape(i)
    BY <1>3, <2>1, <2>2, <2>3, <2>4 DEF ServerShape
  <2> QED
    BY <1>3, <2>2, <2>3, <2>5
<1> QED
  BY <1>2, <1>3

(* What such a step has to preserve.                                       *)
SessionFacts(i) ==
  /\ auth_sessions' \in [Sessions -> SessionRow] /\ users' \subseteq Users
  /\ exchanged' \subseteq Tokens \X Tokens
  /\ SessionsGrow
  /\ \A s \in Sessions : /\ auth_sessions'[s].jti = auth_sessions'[s].minted
                         /\ auth_sessions'[s].user = NoUser => auth_sessions'[s].jti = 0
  /\ \A j \in Slots \ {i} : http[j].pc = "locked" =>
       /\ auth_sessions'[http[j].token[1]].locked
       /\ auth_sessions'[http[j].token[1]].jti = auth_sessions[http[j].token[1]].jti
  /\ ExchangedAreOld' /\ TokensExchangedOnce'

RequestFacts(i) ==
  /\ Issued(http[i].token)'
  /\ http'[i].pc = "locked" =>
       /\ HasRead(i)'
       /\ \A j \in Slots \ {i} : http[j].pc = "locked" => http[j].token[1] # http'[i].token[1]
  /\ http'[i].pc = "replied" /\ http'[i].op = "logout" /\ http'[i].ok => Dead(http[i].token)'
  /\ signedOut # {} => Dead(http[i].token)'
  /\ http'[i].pc = "replied" /\ http'[i].ok /\ http[i].tab \in signedOut => http'[i].op = "logout"

LEMMA ServerPreserves ==
  ASSUME AuthInv, NEW i \in Slots, ServerShape(i), SessionFacts(i), RequestFacts(i)
  PROVE  AuthInv'
<1>0. /\ auth_sessions \in [Sessions -> SessionRow] /\ tab \in [Tabs -> TabState]
      /\ http \in [Slots -> Request] /\ cookie \in Tokens
      /\ signedOut \subseteq Tabs /\ moves \in 0 .. MaxMoves
      /\ \A t \in Tabs : Len(tab[t].queue) <= MaxQueue
  BY AuthTypes DEF AuthInv
<1>1. /\ tab' = tab /\ cookie' = cookie /\ signedOut' = signedOut /\ moves' = moves
      /\ http' \in [Slots -> Request]
      /\ \A j \in Slots \ {i} : http'[j] = http[j]
      /\ \A j \in Slots : http'[j].tab = http[j].tab
  BY <1>0 DEF ServerShape
<1>2. AuthTypeOK'
  BY <1>0, <1>1 DEF AuthTypeOK, SessionFacts, SessionRow, TabState, Request
<1>3. OneRequestPerTab'
  BY <1>1 DEF AuthInv, OneRequestPerTab
<1>4. RequestsFollowQueues'
  BY <1>1 DEF AuthInv, RequestsFollowQueues, ServerShape
<1>5. SignInsAreNamed'
  BY <1>1 DEF AuthInv, SignInsAreNamed, ServerShape
<1>6. \A token \in Tokens : (Issued(token) => Issued(token)') /\ (Dead(token) => Dead(token)')
  BY TokensStay DEF SessionFacts
<1>61. \A j \in Slots : http[j].token \in Tokens
  BY <1>0 DEF Request
<1>7. SessionsCount'
  <2>1. Issued(cookie)'
    <3>1. cookie # NoToken => auth_sessions'[cookie[1]].user # NoUser
      BY <1>0, TokensStay DEF AuthInv, SessionsCount, Issued, SessionFacts
    <3> QED
      BY <1>1, <3>1 DEF Issued
  <2>2. ASSUME NEW j \in Slots PROVE Issued(http[j].token)'
    <3>1. CASE j = i
      BY <3>1 DEF RequestFacts, Issued
    <3>2. CASE j # i
      <4>1. http[j].token # NoToken => auth_sessions'[http[j].token[1]].user # NoUser
        BY <1>61, TokensStay DEF AuthInv, SessionsCount, Issued, SessionFacts
      <4> QED
        BY <1>1, <3>2, <4>1 DEF Issued
    <3> QED
      BY <3>1, <3>2
  <2> QED
    BY <2>1, <2>2 DEF SessionsCount, SessionFacts
<1>8. RefreshesExclude'
  <2>1. ASSUME NEW j \in Slots, http'[j].pc = "locked" PROVE HasRead(j)'
    <3>1. CASE j = i
      BY <2>1, <3>1 DEF RequestFacts
    <3>2. CASE j # i
      <4>1. http'[j] = http[j] /\ HasRead(j)
        BY <1>1, <2>1, <3>2 DEF AuthInv, RefreshesExclude
      <4> QED
        BY <1>1, <2>1, <3>2, <4>1 DEF HasRead, Session, Jti, SessionFacts
    <3> QED
      BY <3>1, <3>2
  <2>2. ASSUME NEW j \in Slots, NEW k \in Slots, http'[j].pc = "locked", http'[k].pc = "locked",
               http'[j].token[1] = http'[k].token[1]
        PROVE  j = k
    BY <1>1, <2>2 DEF AuthInv, RefreshesExclude, RequestFacts
  <2> QED
    BY <2>1, <2>2 DEF RefreshesExclude
<1>9. LogoutsEnd'
  <2> SUFFICES ASSUME NEW j \in Slots, http'[j].pc = "replied", http'[j].op = "logout", http'[j].ok
               PROVE  Dead(http[j].token)'
    BY DEF LogoutsEnd
  <2>1. CASE j = i
    BY <2>1 DEF RequestFacts, Dead
  <2>2. CASE j # i
    <3>1. Dead(http[j].token) /\ http'[j] = http[j]
      BY <1>1, <2>2 DEF AuthInv, LogoutsEnd
    <3> QED
      BY <1>6, <1>61, <3>1 DEF Dead
  <2> QED
    BY <2>1, <2>2
<1>10. NothingOpens'
  <2> SUFFICES ASSUME signedOut # {}
               PROVE  ~SigningIn' /\ Dead(cookie)' /\ \A j \in Slots : Dead(http[j].token)'
    BY <1>1 DEF NothingOpens
  <2>1. ~SigningIn' /\ Dead(cookie)'
    BY <1>0, <1>1, <1>6 DEF AuthInv, NothingOpens, SigningIn, Dead
  <2>2. ASSUME NEW j \in Slots PROVE Dead(http[j].token)'
    BY <1>1, <1>6, <1>61 DEF AuthInv, NothingOpens, RequestFacts, Dead
  <2> QED
    BY <2>1, <2>2
<1>11. OnlyLogoutsSucceed'
  BY <1>1 DEF AuthInv, OnlyLogoutsSucceed, Waiting, RequestFacts
<1>12. SignedOutStaysOut' /\ WaitersAreServed'
  BY <1>1 DEF AuthInv, SignedOutStaysOut, WaitersAreServed, Waiting, Refreshing
<1> QED
  BY <1>2, <1>3, <1>4, <1>5, <1>7, <1>8, <1>9, <1>10, <1>11, <1>12 DEF AuthInv, SessionFacts

LEMMA SessionsKept ==
  ASSUME AuthInv, NEW i \in Slots, auth_sessions' = auth_sessions, users' = users,
         exchanged' = exchanged
  PROVE  SessionFacts(i)
<1>1. auth_sessions \in [Sessions -> SessionRow] /\ users \subseteq Users
      /\ exchanged \subseteq Tokens \X Tokens
  BY AuthTypes DEF AuthInv
<1>2. ExchangedAreOld' /\ TokensExchangedOnce'
  BY DEF AuthInv, ExchangedAreOld, TokensExchangedOnce
<1>3. \A j \in Slots : http[j].pc = "locked" => auth_sessions[http[j].token[1]].locked
  BY DEF AuthInv, RefreshesExclude, HasRead, Session
<1>4. SessionsGrow
  BY DEF SessionsGrow
<1> QED
  BY <1>1, <1>2, <1>3, <1>4 DEF SessionFacts, AuthInv, SessionsCount

(* A row changes without a new token, and no other refresh has locked it.  *)
LEMMA RowUpdated ==
  ASSUME AuthInv, NEW i \in Slots, NEW s \in Sessions, NEW row \in SessionRow,
         auth_sessions' = [auth_sessions EXCEPT ![s] = row], users' = users,
         exchanged' = exchanged,
         row.user = auth_sessions[s].user, row.jti = auth_sessions[s].jti,
         row.minted = auth_sessions[s].minted, auth_sessions[s].revoked => row.revoked,
         \A j \in Slots \ {i} : http[j].pc = "locked" => http[j].token[1] # s
  PROVE  SessionFacts(i)
<1>1. auth_sessions \in [Sessions -> SessionRow] /\ users \subseteq Users
      /\ exchanged \subseteq Tokens \X Tokens
  BY AuthTypes DEF AuthInv
<1>2. /\ auth_sessions' \in [Sessions -> SessionRow]
      /\ \A r \in Sessions : r # s => auth_sessions'[r] = auth_sessions[r]
      /\ auth_sessions'[s] = row
  BY <1>1
<1>3. \A r \in Sessions : /\ auth_sessions'[r].jti = auth_sessions[r].jti
                          /\ auth_sessions'[r].minted = auth_sessions[r].minted
                          /\ auth_sessions'[r].user = auth_sessions[r].user
                          /\ auth_sessions[r].revoked => auth_sessions'[r].revoked
  BY <1>2
<1>4. ExchangedAreOld' /\ TokensExchangedOnce'
  <2>1. \A x \in exchanged : x[1] # NoToken => x[1][1] \in Sessions
    BY <1>1, TokenParts
  <2> QED
    BY <1>3, <2>1 DEF AuthInv, ExchangedAreOld, TokensExchangedOnce
<1>5. ASSUME NEW j \in Slots \ {i}, http[j].pc = "locked"
      PROVE  /\ auth_sessions'[http[j].token[1]].locked
             /\ auth_sessions'[http[j].token[1]].jti = auth_sessions[http[j].token[1]].jti
  <2>1. http[j].token[1] # s /\ auth_sessions[http[j].token[1]].locked
        /\ http[j].token \in Tokens /\ http[j].token # NoToken
    BY <1>5, AuthTypes DEF AuthInv, RefreshesExclude, HasRead, Session, Request
  <2>2. http[j].token[1] \in Sessions
    BY <2>1, TokenParts
  <2> QED
    BY <1>2, <2>1, <2>2
<1>6. SessionsGrow
  BY <1>3 DEF SessionsGrow
<1> QED
  BY <1>1, <1>2, <1>3, <1>4, <1>5, <1>6 DEF SessionFacts, AuthInv, SessionsCount

(* A refusal carries no token.                                             *)
LEMMA RefusalFacts ==
  ASSUME AuthInv, NEW i \in Slots, http[i].pc \in {"sent", "locked"}, Refuse(i),
         UNCHANGED <<browserVars, moves>>
  PROVE  ServerShape(i) /\ RequestFacts(i)
<1>1. /\ ServerShape(i)
      /\ \/ http'[i] = NoRequest
         \/ /\ http[i].tab # NoTab /\ http'[i].pc = "replied" /\ http'[i].ok = FALSE
            /\ http'[i].token = NoToken /\ http'[i].op = http[i].op
  BY ReplyShape, NoRequestType DEF AuthInv, Refuse, SomeUser
<1>2. http'[i].token = NoToken /\ http'[i].pc # "locked"
      /\ (http'[i].pc = "replied" => ~http'[i].ok)
  BY <1>1, NoRequestType
<1> QED
  BY <1>1, <1>2 DEF RequestFacts, Issued, Dead

LEMMA RefusedStep ==
  ASSUME AuthInv, NEW i \in Slots, http[i].pc \in {"sent", "locked"}, Refuse(i),
         auth_sessions' = auth_sessions, users' = users, exchanged' = exchanged,
         UNCHANGED <<browserVars, moves>>
  PROVE  AuthInv'
BY RefusalFacts, SessionsKept, ServerPreserves

LEMMA TokenOfRequest ==
  ASSUME AuthInv, NEW i \in Slots
  PROVE  /\ http[i] \in Request /\ http[i].token \in Tokens
         /\ http[i].token # NoToken =>
              /\ http[i].token[1] \in Sessions /\ http[i].token[2] \in 1 .. MaxTokens
              /\ Session(i) \in SessionRow
<1>1. http[i] \in Request /\ http[i].token \in Tokens
  BY AuthTypes DEF AuthInv, Request
<1>2. http[i].token # NoToken =>
              http[i].token[1] \in Sessions /\ http[i].token[2] \in 1 .. MaxTokens
  BY <1>1, TokenParts
<1> QED
  BY <1>1, <1>2, AuthTypes DEF AuthInv, Session

(* Another refresh that has locked its session keeps others from it.       *)
LEMMA LockExcludes ==
  ASSUME AuthInv, NEW i \in Slots, http[i].token # NoToken, ~Session(i).locked \/ http[i].pc = "locked"
  PROVE  \A j \in Slots \ {i} : http[j].pc = "locked" => http[j].token[1] # http[i].token[1]
<1> SUFFICES ASSUME NEW j \in Slots \ {i}, http[j].pc = "locked", http[j].token[1] = http[i].token[1]
             PROVE  FALSE
  OBVIOUS
<1>1. auth_sessions[http[j].token[1]].locked
  BY DEF AuthInv, RefreshesExclude, HasRead, Session
<1> QED
  BY <1>1 DEF AuthInv, RefreshesExclude, Session

LEMMA RefreshReusedStep ==
  ASSUME AuthInv, NEW i \in Slots, RefreshReused(i)
  PROVE  AuthInv'
<1> DEFINE s == http[i].token[1]
           row == [auth_sessions[s] EXCEPT !.revoked = TRUE]
<1>1. s \in Sessions /\ auth_sessions[s] \in SessionRow /\ http[i].pc = "sent"
  BY TokenOfRequest DEF RefreshReused, Session, Receives
<1>2. auth_sessions' = [auth_sessions EXCEPT ![s] = row] /\ users' = users /\ exchanged' = exchanged
  BY DEF RefreshReused
<1>3. /\ row \in SessionRow /\ row.user = auth_sessions[s].user /\ row.jti = auth_sessions[s].jti
      /\ row.minted = auth_sessions[s].minted /\ row.revoked
  BY <1>1 DEF SessionRow
<1>4. \A j \in Slots \ {i} : http[j].pc = "locked" => http[j].token[1] # s
  BY LockExcludes DEF RefreshReused, Lockable
<1> HIDE DEF row, s
<1>5. SessionFacts(i)
  BY <1>1, <1>2, <1>3, <1>4, RowUpdated
<1>6. ServerShape(i) /\ RequestFacts(i)
  BY <1>1, RefusalFacts DEF RefreshReused
<1> QED
  BY <1>5, <1>6, ServerPreserves

(* The locking read.                                                       *)
LEMMA RefreshReadsStep ==
  ASSUME AuthInv, NEW i \in Slots, RefreshReads(i)
  PROVE  AuthInv'
<1> DEFINE s == http[i].token[1]
           row == [auth_sessions[s] EXCEPT !.locked = TRUE]
           r == [http[i] EXCEPT !.pc = "locked"]
<1>1. /\ s \in Sessions /\ auth_sessions[s] \in SessionRow /\ http[i] \in Request
      /\ http[i].pc = "sent" /\ http[i].op = "refresh" /\ http[i].token # NoToken
      /\ auth_sessions[s].jti = http[i].token[2] /\ ~auth_sessions[s].revoked
  BY TokenOfRequest DEF RefreshReads, Session, Receives, Jti
<1>2. /\ auth_sessions' = [auth_sessions EXCEPT ![s] = row] /\ users' = users
      /\ exchanged' = exchanged /\ http' = [http EXCEPT ![i] = r]
      /\ tab' = tab /\ cookie' = cookie /\ signedOut' = signedOut /\ moves' = moves
  BY DEF RefreshReads, browserVars
<1>3. /\ row \in SessionRow /\ row.user = auth_sessions[s].user /\ row.jti = auth_sessions[s].jti
      /\ row.minted = auth_sessions[s].minted /\ row.revoked = auth_sessions[s].revoked
      /\ row.locked
  BY <1>1 DEF SessionRow
<1>4. \A j \in Slots \ {i} : http[j].pc = "locked" => http[j].token[1] # s
  BY LockExcludes DEF RefreshReads, Lockable
<1>5. /\ r \in Request /\ r.pc = "locked" /\ r.tab = http[i].tab /\ r.op = http[i].op
      /\ r.token = http[i].token
  BY <1>1 DEF Request
<1>6. http'[i] = r /\ auth_sessions'[s] = row
  BY <1>1, <1>2, AuthTypes DEF AuthInv
<1> HIDE DEF row, r
<1>7. ServerShape(i)
  BY <1>1, <1>2, <1>5, <1>6 DEF ServerShape
<1>8. SessionFacts(i)
  <2> HIDE DEF s
  <2> QED
    BY <1>1, <1>2, <1>3, <1>4, RowUpdated
<1>9. RequestFacts(i)
  <2>1. Issued(http[i].token)'
    BY <1>1, <1>3, <1>5, <1>6 DEF AuthInv, SessionsCount, Issued
  <2>2. HasRead(i)'
    BY <1>1, <1>3, <1>5, <1>6 DEF HasRead, Session, Jti
  <2>3. signedOut = {}
    BY <1>1 DEF AuthInv, NothingOpens, Dead
  <2> QED
    BY <1>4, <1>5, <1>6, <2>1, <2>2, <2>3 DEF RequestFacts
<1> QED
  BY <1>7, <1>8, <1>9, ServerPreserves

(* The rotation of a token: session s gets token n for its token m.         *)
Rotates(i, s, m, n) ==
  /\ http[i].pc = "locked" /\ ~Session(i).revoked
  /\ s = http[i].token[1] /\ m = http[i].token[2] /\ n = auth_sessions[s].minted + 1 /\ n <= MaxTokens
  /\ auth_sessions' = [auth_sessions EXCEPT ![s] = [@ EXCEPT !.jti = n, !.minted = n, !.locked = FALSE]]
  /\ exchanged' = exchanged \cup {<<http[i].token, <<s, n>> >>}
  /\ Reply(i, TRUE, auth_sessions[s].user, <<s, n>>) /\ users' = users
  /\ UNCHANGED <<browserVars, moves>>

LEMMA Below ==
  ASSUME NEW c \in Int, NEW d \in Int, NEW e \in Int, c < d, d < e
  PROVE  c < e
OBVIOUS

(* The token that is exchanged is the session's own, so it was not         *)
(* exchanged before.                                                       *)
LEMMA RotationStep ==
  ASSUME AuthInv, NEW i \in Slots, NEW s, NEW m, NEW n, Rotates(i, s, m, n)
  PROVE  AuthInv'
<1>0. /\ auth_sessions \in [Sessions -> SessionRow] /\ exchanged \subseteq Tokens \X Tokens
      /\ http \in [Slots -> Request] /\ users \subseteq Users
  BY AuthTypes DEF AuthInv
<1>1. /\ http[i].pc = "locked" /\ s = http[i].token[1] /\ m = http[i].token[2]
      /\ n = auth_sessions[s].minted + 1 /\ n <= MaxTokens
  BY DEF Rotates
<1>2. PICK token \in Tokens : token = http[i].token
  BY <1>0 DEF Request
<1>3. HasRead(i) /\ token # NoToken /\ http[i].op = "refresh"
  BY <1>1, <1>2 DEF AuthInv, RefreshesExclude, HasRead
<1>4. s \in Sessions /\ m \in 1 .. MaxTokens /\ token = <<s, m>> /\ token[1] = s /\ token[2] = m
  BY <1>1, <1>2, <1>3, TokenParts
<1>5. /\ auth_sessions[s] \in SessionRow /\ auth_sessions[s].jti = m
      /\ auth_sessions[s].minted = m /\ auth_sessions[s].user # NoUser
  BY <1>0, <1>1, <1>2, <1>3, <1>4 DEF AuthInv, SessionsCount, Issued, HasRead, Session, Jti
<1>6. n \in 1 .. MaxTokens /\ n \in 0 .. MaxTokens /\ n \in Int /\ m \in Int /\ m < n
  BY <1>1, <1>4, <1>5, AuthAssumption
<1>7. PICK fresh : fresh = <<s, n>>
  OBVIOUS
<1>8. fresh \in Tokens /\ fresh # NoToken /\ fresh[1] = s
  BY <1>4, <1>6, <1>7, PairIsToken
<1>9. PICK row : row = [auth_sessions[s] EXCEPT !.jti = n, !.minted = n, !.locked = FALSE]
  OBVIOUS
<1>10. /\ row \in SessionRow /\ row.user = auth_sessions[s].user /\ row.jti = n /\ row.minted = n
       /\ row.revoked = auth_sessions[s].revoked
  BY <1>5, <1>6, <1>9 DEF SessionRow
<1>11. auth_sessions' = [auth_sessions EXCEPT ![s] = row]
  BY <1>9 DEF Rotates
<1>12. /\ auth_sessions' \in [Sessions -> SessionRow] /\ auth_sessions'[s] = row
       /\ \A r \in Sessions : r # s => auth_sessions'[r] = auth_sessions[r]
  BY <1>0, <1>4, <1>10, <1>11
<1>13. PICK pair : pair = <<token, fresh>>
  OBVIOUS
<1>14. pair \in Tokens \X Tokens /\ pair[1] = token
  BY <1>8, <1>13
<1>15. exchanged' = exchanged \cup {pair} /\ users' = users
  BY <1>2, <1>7, <1>13 DEF Rotates
<1>16. SessionFacts(i)
  <2>1. SessionsGrow
    BY <1>5, <1>10, <1>12 DEF SessionsGrow
  <2>2. \A x \in exchanged : x[1] # NoToken /\ x[1] \in Tokens /\ x[1][1] \in Sessions
                             /\ x[1][2] \in Int /\ x[1][2] < auth_sessions[x[1][1]].jti
    BY <1>0, TokenParts DEF AuthInv, ExchangedAreOld
  <2>3. ASSUME NEW x \in exchanged' PROVE x[1] # NoToken /\ x[1][2] < auth_sessions'[x[1][1]].jti
    <3>1. CASE x \in exchanged
      <4>1. CASE x[1][1] # s
        BY <1>12, <2>2, <3>1, <4>1
      <4>2. CASE x[1][1] = s
        <5>1. x[1] # NoToken /\ x[1][2] \in Int /\ x[1][2] < m
          BY <1>5, <2>2, <3>1, <4>2, Zenon
        <5>2. x[1][2] < n
          BY <1>6, <5>1, Below
        <5> QED
          BY <1>10, <1>12, <4>2, <5>1, <5>2
      <4> QED
        BY <4>1, <4>2
    <3>2. CASE x = pair
      BY <1>3, <1>4, <1>6, <1>10, <1>12, <1>14, <3>2
    <3> QED
      BY <1>15, <3>1, <3>2
  <2>4. \A x \in exchanged : x[1] # token
    BY <1>4, <1>5, <1>6, <2>2
  <2>5. TokensExchangedOnce'
    <3>1. \A x, y \in exchanged : x[1] = y[1] => x = y
      BY DEF AuthInv, TokensExchangedOnce
    <3>2. \A x, y \in exchanged' : x[1] = y[1] => x = y
      BY <1>14, <1>15, <2>4, <3>1, Zenon
    <3> QED
      BY <3>2 DEF TokensExchangedOnce
  <2>6. exchanged' \subseteq Tokens \X Tokens
    BY <1>0, <1>14, <1>15, Zenon
  <2>7. ExchangedAreOld'
    BY <2>3 DEF ExchangedAreOld
  <2>8. \A r \in Sessions : /\ auth_sessions'[r].jti = auth_sessions'[r].minted
                            /\ auth_sessions'[r].user = NoUser => auth_sessions'[r].jti = 0
    BY <1>5, <1>10, <1>12 DEF AuthInv, SessionsCount
  <2>9. ASSUME NEW j \in Slots \ {i}, http[j].pc = "locked"
        PROVE  /\ auth_sessions'[http[j].token[1]].locked
               /\ auth_sessions'[http[j].token[1]].jti = auth_sessions[http[j].token[1]].jti
    <3>1. http[j].token[1] # s
      BY <1>1, <1>2, <1>3, <2>9, LockExcludes
    <3>2. auth_sessions[http[j].token[1]].locked /\ http[j].token # NoToken
      BY <2>9 DEF AuthInv, RefreshesExclude, HasRead, Session
    <3>3. http[j].token[1] \in Sessions
      BY <3>2, TokenOfRequest
    <3> QED
      BY <1>12, <3>1, <3>2, <3>3
  <2> QED
    BY <1>0, <1>12, <1>15, <2>1, <2>5, <2>6, <2>7, <2>8, <2>9 DEF SessionFacts
<1>17. /\ ServerShape(i)
       /\ \/ http'[i] = NoRequest
          \/ /\ http[i].tab # NoTab /\ http'[i].pc = "replied" /\ http'[i].ok = TRUE
             /\ http'[i].token = fresh /\ http'[i].op = http[i].op
  <2>1. Reply(i, TRUE, auth_sessions[s].user, fresh) /\ UNCHANGED <<browserVars, moves>>
    BY <1>7 DEF Rotates
  <2>2. auth_sessions[s].user \in SomeUser /\ AuthTypeOK
    BY <1>5 DEF SessionRow, AuthInv
  <2> QED
    BY <1>1, <1>8, <2>1, <2>2, ReplyShape
<1>18. signedOut = {}
  BY <1>1, <1>3, <1>2 DEF AuthInv, NothingOpens, Dead, Session, Rotates
<1>19. RequestFacts(i)
  <2>1. Issued(http[i].token)'
    BY <1>5, <1>8, <1>10, <1>12, <1>17, NoRequestType DEF Issued
  <2>2. http'[i].pc # "locked" /\ ~(http'[i].pc = "replied" /\ http'[i].op = "logout")
    BY <1>3, <1>17, NoRequestType
  <2> QED
    BY <1>18, <2>1, <2>2 DEF RequestFacts
<1> QED
  BY <1>16, <1>17, <1>19, ServerPreserves

LEMMA RefreshCommitsStep ==
  ASSUME AuthInv, NEW i \in Slots, RefreshCommits(i)
  PROVE  AuthInv'
<1> DEFINE s == http[i].token[1]
           n == auth_sessions[s].minted + 1
<1>0. http[i].pc = "locked" /\ users' = users /\ UNCHANGED <<browserVars, moves>>
  BY DEF RefreshCommits
<1>1. CASE /\ ~Session(i).revoked /\ n <= MaxTokens
           /\ auth_sessions' = [auth_sessions EXCEPT ![s] = [@ EXCEPT !.jti = n, !.minted = n, !.locked = FALSE]]
           /\ exchanged' = exchanged \cup {<<http[i].token, <<s, n>> >>}
           /\ Reply(i, TRUE, auth_sessions[s].user, <<s, n>>)
  <2>1. Rotates(i, s, http[i].token[2], n)
    BY <1>0, <1>1 DEF Rotates
  <2> HIDE DEF s, n
  <2> QED
    BY <2>1, RotationStep
<1>2. CASE /\ auth_sessions' = [auth_sessions EXCEPT ![s].locked = FALSE]
           /\ Refuse(i)
           /\ exchanged' = exchanged
  <2> DEFINE row == [auth_sessions[s] EXCEPT !.locked = FALSE]
  <2>1. http[i].token # NoToken
    BY <1>0 DEF AuthInv, RefreshesExclude, HasRead
  <2>2. s \in Sessions /\ auth_sessions[s] \in SessionRow
    BY <2>1, TokenOfRequest DEF Session
  <2>3. /\ row \in SessionRow /\ row.user = auth_sessions[s].user /\ row.jti = auth_sessions[s].jti
        /\ row.minted = auth_sessions[s].minted /\ row.revoked = auth_sessions[s].revoked
    BY <2>2 DEF SessionRow
  <2>4. auth_sessions' = [auth_sessions EXCEPT ![s] = row]
    BY <1>2
  <2>5. \A j \in Slots \ {i} : http[j].pc = "locked" => http[j].token[1] # s
    BY <1>0, <2>1, LockExcludes
  <2>6. exchanged' = exchanged /\ users' = users
    BY <1>0, <1>2
  <2> HIDE DEF row, s, n
  <2>7. SessionFacts(i)
    BY <2>2, <2>3, <2>4, <2>5, <2>6, RowUpdated
  <2> QED
    BY <1>0, <1>2, <2>7, RefusalFacts, ServerPreserves
<1> QED
  BY <1>1, <1>2 DEF RefreshCommits

LEMMA LogoutStep ==
  ASSUME AuthInv, NEW i \in Slots, logout(i)
  PROVE  AuthInv'
<1> DEFINE s == http[i].token[1]
<1>0. /\ http[i].pc = "sent" /\ http[i].op = "logout" /\ users' = users /\ exchanged' = exchanged
      /\ UNCHANGED <<browserVars, moves>> /\ Reply(i, TRUE, NoUser, http[i].token)
      /\ http[i].token \in Tokens
  BY TokenOfRequest DEF logout, Receives
<1>1. /\ ServerShape(i)
      /\ \/ http'[i] = NoRequest
         \/ /\ http'[i].pc = "replied" /\ http'[i].token = http[i].token
            /\ http'[i].op = "logout"
  BY <1>0, ReplyShape DEF AuthInv, SomeUser
<1>2. SessionFacts(i) /\ Dead(http[i].token)'
  <2>1. CASE http[i].token = NoToken
    <3>1. auth_sessions' = auth_sessions
      BY <2>1 DEF logout
    <3>2. Dead(http[i].token)'
      BY <1>1, <2>1, NoRequestType DEF Dead
    <3> QED
      BY <1>0, <3>1, <3>2, SessionsKept
  <2>2. CASE http[i].token # NoToken
    <3> DEFINE row == [auth_sessions[s] EXCEPT !.revoked = TRUE]
    <3>1. s \in Sessions /\ auth_sessions[s] \in SessionRow
      BY <2>2, TokenOfRequest DEF Session
    <3>2. auth_sessions' = [auth_sessions EXCEPT ![s] = row]
      BY <2>2, <3>1 DEF logout, EndedByLogout
    <3>3. /\ row \in SessionRow /\ row.user = auth_sessions[s].user /\ row.jti = auth_sessions[s].jti
          /\ row.minted = auth_sessions[s].minted /\ row.revoked
      BY <3>1 DEF SessionRow
    <3>4. \A j \in Slots \ {i} : http[j].pc = "locked" => http[j].token[1] # s
      BY <2>2, LockExcludes DEF logout
    <3>5. auth_sessions'[s] = row
      BY <3>1, <3>2, AuthTypes DEF AuthInv
    <3>6. Dead(http[i].token)'
      BY <1>1, <3>3, <3>5, NoRequestType DEF Dead
    <3> HIDE DEF row, s
    <3>7. SessionFacts(i)
      BY <1>0, <3>1, <3>2, <3>3, <3>4, RowUpdated
    <3> QED
      BY <3>6, <3>7
  <2> QED
    BY <2>1, <2>2
<1>3. Issued(http[i].token)'
  <2>1. http[i].token # NoToken => auth_sessions'[http[i].token[1]].user # NoUser
    BY <1>0, <1>2, TokensStay DEF AuthInv, SessionsCount, Issued, SessionFacts
  <2> QED
    BY <1>1, <2>1, NoRequestType DEF Issued
<1>4. RequestFacts(i)
  BY <1>1, <1>2, <1>3, NoRequestType DEF RequestFacts
<1> QED
  BY <1>1, <1>2, <1>4, ServerPreserves

(* A new session: its row was unused, so no token of it exists.            *)
LEMMA CreateSessionFacts ==
  ASSUME AuthInv, NEW i \in Slots, http[i].pc = "sent", http[i].op \in SigningInOps,
         createSession(i), users' \in {users, users \cup {http[i].user}}, exchanged' = exchanged,
         UNCHANGED <<browserVars, moves>>
  PROVE  AuthInv'
<1>0. /\ auth_sessions \in [Sessions -> SessionRow] /\ exchanged \subseteq Tokens \X Tokens
      /\ http \in [Slots -> Request] /\ users \subseteq Users /\ tab \in [Tabs -> TabState]
  BY AuthTypes DEF AuthInv
<1>1. http[i].user \in Users /\ http[i].user # NoUser /\ http[i].user \in SomeUser
  BY AuthAssumption DEF AuthInv, SignInsAreNamed, SomeUser
<1>2. PICK s \in Sessions :
        /\ auth_sessions[s].user = NoUser
        /\ auth_sessions' = [auth_sessions EXCEPT ![s] =
                               [@ EXCEPT !.user = http[i].user, !.jti = 1, !.minted = 1]]
        /\ Reply(i, TRUE, http[i].user, <<s, 1>>)
  <2>1. PICK s \in Sessions :
          /\ \A r \in Sessions : auth_sessions[r].user = NoUser <=> r >= s
          /\ auth_sessions' = [auth_sessions EXCEPT ![s] =
                                 [@ EXCEPT !.user = http[i].user, !.jti = 1, !.minted = 1]]
          /\ Reply(i, TRUE, http[i].user, <<s, 1>>)
    BY DEF createSession
  <2>2. auth_sessions[s].user = NoUser
    BY <2>1 DEF Sessions
  <2> QED
    BY <2>1, <2>2
<1> DEFINE row == [auth_sessions[s] EXCEPT !.user = http[i].user, !.jti = 1, !.minted = 1]
<1>3. 1 \in 1 .. MaxTokens /\ 1 \in 0 .. MaxTokens
  BY AuthAssumption
<1>4. row \in SessionRow /\ row.user = http[i].user /\ row.jti = 1 /\ row.minted = 1
      /\ row.revoked = auth_sessions[s].revoked /\ row.locked = auth_sessions[s].locked
  BY <1>0, <1>1, <1>3 DEF SessionRow
<1>5. auth_sessions' = [auth_sessions EXCEPT ![s] = row]
  BY <1>2
<1> HIDE DEF row
<1>6. /\ auth_sessions' \in [Sessions -> SessionRow] /\ auth_sessions'[s] = row
      /\ \A r \in Sessions : r # s => auth_sessions'[r] = auth_sessions[r]
  BY <1>0, <1>4, <1>5
<1>7. auth_sessions[s].jti = 0
  BY <1>2 DEF AuthInv, SessionsCount
<1>8. SessionFacts(i)
  <2>1. SessionsGrow
    BY <1>2, <1>4, <1>6 DEF SessionsGrow
  <2>2. ASSUME NEW x \in exchanged PROVE x[1] # NoToken /\ x[1][2] < auth_sessions'[x[1][1]].jti
    <3>1. x[1] # NoToken /\ x[1][1] \in Sessions /\ x[1][2] \in 1 .. MaxTokens
          /\ x[1][2] < auth_sessions[x[1][1]].jti
      BY <1>0, TokenParts DEF AuthInv, ExchangedAreOld
    <3>2. x[1][1] # s
      BY <1>7, <3>1
    <3> QED
      BY <1>6, <3>1, <3>2
  <2>3. ExchangedAreOld' /\ TokensExchangedOnce'
    BY <2>2 DEF AuthInv, ExchangedAreOld, TokensExchangedOnce
  <2>4. \A r \in Sessions : /\ auth_sessions'[r].jti = auth_sessions'[r].minted
                            /\ auth_sessions'[r].user = NoUser => auth_sessions'[r].jti = 0
    BY <1>1, <1>4, <1>6 DEF AuthInv, SessionsCount
  <2>5. ASSUME NEW j \in Slots \ {i}, http[j].pc = "locked"
        PROVE  /\ auth_sessions'[http[j].token[1]].locked
               /\ auth_sessions'[http[j].token[1]].jti = auth_sessions[http[j].token[1]].jti
    <3>1. /\ auth_sessions[http[j].token[1]].locked /\ http[j].token # NoToken
          /\ auth_sessions[http[j].token[1]].jti = http[j].token[2]
      BY <2>5 DEF AuthInv, RefreshesExclude, HasRead, Session, Jti
    <3>2. http[j].token[1] \in Sessions /\ http[j].token[2] \in 1 .. MaxTokens
      BY <3>1, TokenOfRequest
    <3>3. http[j].token[1] # s
      BY <1>7, <3>1, <3>2
    <3> QED
      BY <1>6, <3>1, <3>2, <3>3
  <2> QED
    BY <1>0, <1>1, <1>6, <2>1, <2>3, <2>4, <2>5 DEF SessionFacts
<1>9. <<s, 1>> \in Tokens /\ <<s, 1>> # NoToken /\ <<s, 1>>[1] = s
  BY <1>3, PairIsToken
<1>10. /\ ServerShape(i)
       /\ \/ http'[i] = NoRequest
          \/ /\ http[i].tab # NoTab /\ http'[i].pc = "replied"
             /\ http'[i].token = <<s, 1>> /\ http'[i].op = http[i].op
  BY <1>1, <1>2, <1>9, ReplyShape DEF AuthInv
<1>11. ASSUME http[i].tab # NoTab PROVE signedOut = {}
  <2> DEFINE t == http[i].tab
  <2>1. t \in Tabs /\ tab[t].queue \in Seq(Queued) /\ tab[t].queue # <<>>
        /\ Head(tab[t].queue).op \in SigningInOps
    BY <1>0, <1>11 DEF AuthInv, RequestsFollowQueues, Request, TabState
  <2>2. 1 \in DOMAIN tab[t].queue /\ tab[t].queue[1] = Head(tab[t].queue)
    BY <2>1
  <2>3. SigningIn
    BY <2>1, <2>2 DEF SigningIn, SigningInOps
  <2> QED
    BY <2>3 DEF AuthInv, NothingOpens
<1>12. RequestFacts(i)
  <2>1. Issued(http[i].token)'
    BY <1>1, <1>4, <1>6, <1>9, <1>10, NoRequestType DEF Issued
  <2>2. http'[i].pc # "locked" /\ ~(http'[i].pc = "replied" /\ http'[i].op = "logout")
    BY <1>10, NoRequestType DEF SigningInOps
  <2>3. signedOut # {} => http'[i] = NoRequest
    BY <1>10, <1>11
  <2>4. signedOut # {} => Dead(http[i].token)'
    BY <2>3, NoRequestType DEF Dead
  <2> QED
    BY <2>1, <2>2, <2>3, <2>4, NoRequestType DEF RequestFacts
<1> QED
  BY <1>8, <1>10, <1>12, ServerPreserves

LEMMA RegisterStep ==
  ASSUME AuthInv, NEW i \in Slots, register(i)
  PROVE  AuthInv'
<1>1. CASE createSession(i) /\ users' = users \cup {http[i].user}
  BY <1>1, CreateSessionFacts DEF register, Receives, SigningInOps
<1>2. CASE Refuse(i) /\ users' = users /\ auth_sessions' = auth_sessions
  BY <1>2, RefusedStep DEF register, Receives
<1> QED
  BY <1>1, <1>2 DEF register

LEMMA ServerStepPreserves ==
  ASSUME AuthInv, NEW i \in Slots, ServerStep(i)
  PROVE  AuthInv'
<1>1. ASSUME login(i) PROVE AuthInv'
  <2>1. CASE createSession(i)
    BY <1>1, <2>1, CreateSessionFacts DEF login, Receives, SigningInOps
  <2>2. CASE Refuse(i) /\ auth_sessions' = auth_sessions
    BY <1>1, <2>2, RefusedStep DEF login, Receives
  <2> QED
    BY <1>1, <2>1, <2>2 DEF login
<1>2. ASSUME RefreshRefused(i) \/ RequestFails(i) PROVE AuthInv'
  BY <1>2, RefusedStep DEF RefreshRefused, RequestFails, Receives, serverVars
<1> QED
  BY <1>1, <1>2, RefreshReusedStep, RefreshReadsStep, RefreshCommitsStep, LogoutStep DEF ServerStep

-----------------------------------------------------------------------------
(* The tabs.  They change requests only by sending, dropping or leaving    *)
(* them, and present only tokens they were given.                          *)
RequestKept(j) ==
  /\ http'[j].pc = http[j].pc /\ http'[j].op = http[j].op /\ http'[j].user = http[j].user
  /\ http'[j].token = http[j].token /\ http'[j].ok = http[j].ok
  /\ http'[j].tab \in {http[j].tab, NoTab}

BrowserShape ==
  /\ users' = users /\ auth_sessions' = auth_sessions /\ exchanged' = exchanged
  /\ cookie' \in {cookie, NoToken} \/ \E j \in Slots : cookie' = http[j].token
  /\ \A j \in Slots : \/ RequestKept(j)
                      \/ http'[j] = NoRequest
                      \/ http'[j].pc = "sent" /\ http'[j].token = cookie

LEMMA BrowserKeepsServer ==
  ASSUME AuthInv, BrowserShape
  PROVE  /\ SessionsCount' /\ RefreshesExclude' /\ ExchangedAreOld' /\ TokensExchangedOnce'
         /\ LogoutsEnd'
         /\ Dead(cookie) /\ (\A j \in Slots : Dead(http[j].token)) =>
              Dead(cookie)' /\ \A j \in Slots : Dead(http[j].token)'
<1>1. auth_sessions' = auth_sessions /\ exchanged' = exchanged
  BY DEF BrowserShape
<1>2. /\ cookie' = NoToken \/ cookie' = cookie \/ \E j \in Slots : cookie' = http[j].token
      /\ \A j \in Slots : \/ http'[j].token = NoToken
                          \/ http'[j].token = cookie
                          \/ http'[j].token = http[j].token
  BY NoRequestType DEF BrowserShape, RequestKept
<1>3. SessionsCount'
  BY <1>1, <1>2 DEF AuthInv, SessionsCount, Issued
<1>4. Dead(cookie) /\ (\A j \in Slots : Dead(http[j].token)) =>
              Dead(cookie)' /\ \A j \in Slots : Dead(http[j].token)'
  BY <1>1, <1>2 DEF Dead
<1>5. \A j \in Slots : http'[j].pc \in {"locked", "replied"} => RequestKept(j)
  BY NoRequestType DEF BrowserShape
<1>6. RefreshesExclude'
  BY <1>1, <1>5 DEF AuthInv, RefreshesExclude, HasRead, Session, Jti, RequestKept
<1>7. LogoutsEnd'
  BY <1>1, <1>5 DEF AuthInv, LogoutsEnd, Dead, RequestKept
<1>8. ExchangedAreOld' /\ TokensExchangedOnce'
  BY <1>1 DEF AuthInv, ExchangedAreOld, TokensExchangedOnce
<1> QED
  BY <1>3, <1>4, <1>6, <1>7, <1>8

(* Steps that put something at the end of a queue or only concern requests *)
(* of the API client.                                                      *)
QueueExtends(q, r) ==
  /\ Len(q) <= Len(r)
  /\ \A k \in 1 .. Len(q) : r[k].op = q[k].op /\ r[k].user = q[k].user

(* What is new in the queue of t: nobody signs in without a name, or while *)
(* somebody is signed out for good.                                        *)
NewIsQuiet(t) ==
  \A k \in 1 .. Len(tab'[t].queue) :
    \/ k \in 1 .. Len(tab[t].queue)
    \/ tab'[t].queue[k].op \notin SigningInOps
    \/ tab'[t].queue[k].user \in Users /\ signedOut' = {}

LEMMA ExtensionPreserves ==
  ASSUME AuthInv, serverVars' = serverVars, cookie' = cookie, http' = http,
         signedOut' \in {signedOut, {}}, moves' \in 0 .. MaxMoves,
         tab' \in [Tabs -> TabState],
         \A t \in Tabs : /\ Len(tab'[t].queue) <= MaxQueue
                         /\ QueueExtends(tab[t].queue, tab'[t].queue)
                         /\ NewIsQuiet(t)
                         /\ tab'[t].api = "refreshing" => Refreshing(t)'
                         /\ tab'[t].user \in {tab[t].user, NoUser}
  PROVE  AuthInv'
<1>0. /\ tab \in [Tabs -> TabState] /\ http \in [Slots -> Request] /\ signedOut \subseteq Tabs
      /\ users' = users /\ auth_sessions' = auth_sessions /\ exchanged' = exchanged
      /\ \A t \in Tabs : tab[t].queue \in Seq(Queued) /\ tab'[t].queue \in Seq(Queued)
  BY AuthTypes DEF AuthInv, serverVars, TabState
<1>1. AuthTypeOK'
  BY <1>0 DEF AuthInv, AuthTypeOK, TabState
<1>2. BrowserShape
  BY <1>0 DEF BrowserShape, RequestKept
<1>3. OneRequestPerTab'
  BY DEF AuthInv, OneRequestPerTab
<1>4. ASSUME NEW t \in Tabs, tab[t].queue # <<>>
      PROVE  tab'[t].queue # <<>> /\ Head(tab'[t].queue).op = Head(tab[t].queue).op
  <2>1. tab[t].queue \in Seq(Queued) /\ tab'[t].queue \in Seq(Queued) /\ 1 \in 1 .. Len(tab[t].queue)
    BY <1>0, <1>4
  <2>2. Len(tab'[t].queue) >= 1 /\ tab'[t].queue[1].op = tab[t].queue[1].op
    BY <2>1 DEF QueueExtends
  <2> QED
    BY <1>4, <2>1, <2>2
<1>5. RequestsFollowQueues'
  <2> SUFFICES ASSUME NEW i \in Slots, http[i].tab # NoTab
               PROVE  /\ http[i].pc # "free"
                      /\ tab'[http[i].tab].queue # <<>>
                      /\ http[i].op = Head(tab'[http[i].tab].queue).op
    BY DEF RequestsFollowQueues
  <2>1. http[i].tab \in Tabs
    BY <1>0 DEF Request
  <2> QED
    BY <1>4, <2>1 DEF AuthInv, RequestsFollowQueues
<1>6. SignInsAreNamed'
  <2>1. ASSUME NEW t \in Tabs, NEW k \in DOMAIN tab'[t].queue, tab'[t].queue[k].op \in SigningInOps
        PROVE  tab'[t].queue[k].user \in Users
    <3>1. k \in 1 .. Len(tab'[t].queue) /\ DOMAIN tab[t].queue = 1 .. Len(tab[t].queue)
      BY <1>0
    <3> QED
      BY <2>1, <3>1 DEF AuthInv, SignInsAreNamed, QueueExtends, NewIsQuiet
  <2> QED
    BY <2>1 DEF AuthInv, SignInsAreNamed
<1>7. ASSUME signedOut' # {} PROVE ~SigningIn'
  <2> SUFFICES ASSUME NEW t \in Tabs, NEW k \in DOMAIN tab'[t].queue,
                      tab'[t].queue[k].op \in SigningInOps
               PROVE  FALSE
    BY DEF SigningIn, SigningInOps
  <2>1. k \in 1 .. Len(tab'[t].queue) /\ DOMAIN tab[t].queue = 1 .. Len(tab[t].queue)
    BY <1>0
  <2>2. k \in DOMAIN tab[t].queue /\ tab[t].queue[k].op \in SigningInOps
    BY <1>7, <2>1 DEF NewIsQuiet, QueueExtends
  <2>3. SigningIn
    BY <2>2 DEF SigningIn, SigningInOps
  <2> QED
    BY <1>7, <2>3 DEF AuthInv, NothingOpens
<1>8. NothingOpens'
  BY <1>2, <1>7, BrowserKeepsServer DEF AuthInv, NothingOpens
<1>9. OnlyLogoutsSucceed'
  BY DEF AuthInv, OnlyLogoutsSucceed, Waiting
<1>10. SignedOutStaysOut'
  BY <1>0 DEF AuthInv, SignedOutStaysOut
<1>11. WaitersAreServed'
  BY <1>4 DEF AuthInv, WaitersAreServed, Waiting
<1> QED
  BY <1>1, <1>2, <1>3, <1>5, <1>6, <1>8, <1>9, <1>10, <1>11, BrowserKeepsServer DEF AuthInv

(* The same when one tab changes.                                          *)
LEMMA TabExtends ==
  ASSUME AuthInv, serverVars' = serverVars, cookie' = cookie, http' = http,
         signedOut' \in {signedOut, {}}, moves' \in 0 .. MaxMoves,
         NEW t \in Tabs, NEW new \in TabState, tab' = [tab EXCEPT ![t] = new],
         Len(new.queue) <= MaxQueue, QueueExtends(tab[t].queue, new.queue),
         \A k \in 1 .. Len(new.queue) : \/ k \in 1 .. Len(tab[t].queue)
                                        \/ new.queue[k].op \notin SigningInOps
                                        \/ new.queue[k].user \in Users /\ signedOut' = {},
         new.api = "refreshing" => \E k \in DOMAIN new.queue : new.queue[k].op = "refresh",
         new.user \in {tab[t].user, NoUser}
  PROVE  AuthInv'
<1>0. tab \in [Tabs -> TabState] /\ \A r \in Tabs : Len(tab[r].queue) <= MaxQueue
  BY AuthTypes DEF AuthInv
<1>1. tab' \in [Tabs -> TabState] /\ tab'[t] = new /\ \A r \in Tabs : r # t => tab'[r] = tab[r]
  BY <1>0
<1>2. ASSUME NEW r \in Tabs
      PROVE  /\ Len(tab'[r].queue) <= MaxQueue
             /\ QueueExtends(tab[r].queue, tab'[r].queue)
             /\ NewIsQuiet(r)
             /\ tab'[r].api = "refreshing" => Refreshing(r)'
             /\ tab'[r].user \in {tab[r].user, NoUser}
  <2>1. CASE r = t
    BY <1>1, <2>1 DEF NewIsQuiet, Refreshing
  <2>2. CASE r # t
    <3>1. tab'[r] = tab[r] /\ tab[r].queue \in Seq(Queued) /\ Len(tab[r].queue) \in Nat
      BY <1>0, <1>1, <2>2 DEF TabState
    <3>2. QueueExtends(tab[r].queue, tab'[r].queue) /\ NewIsQuiet(r)
      BY <3>1 DEF QueueExtends, NewIsQuiet
    <3>3. tab'[r].api = "refreshing" => Refreshing(r)'
      BY <3>1 DEF AuthInv, WaitersAreServed, Refreshing
    <3> QED
      BY <1>0, <3>1, <3>2, <3>3
  <2> QED
    BY <2>1, <2>2
<1> QED
  BY <1>1, <1>2, ExtensionPreserves

LEMMA EnqueuedExtends ==
  ASSUME NEW q \in Seq(Queued), NEW r \in Seq(Queued), Len(r) = Len(q),
         \A k \in 1 .. Len(q) : r[k].op = q[k].op /\ r[k].user = q[k].user,
         NEW op \in Ops, NEW u \in SomeUser
  PROVE  /\ Enqueued(r, op, u) \in Seq(Queued) /\ Len(Enqueued(r, op, u)) = Len(q) + 1
         /\ QueueExtends(q, Enqueued(r, op, u))
         /\ \A k \in 1 .. Len(q) + 1 :
              \/ k \in 1 .. Len(q)
              \/ Enqueued(r, op, u)[k] = [op |-> op, user |-> u, current |-> TRUE]
         /\ Enqueued(r, op, u)[Len(q) + 1] = [op |-> op, user |-> u, current |-> TRUE]
<1> DEFINE e == [op |-> op, user |-> u, current |-> TRUE]
<1>1. e \in Queued
  BY DEF Queued
<1> HIDE DEF e
<1>2. /\ Append(r, e) \in Seq(Queued) /\ Len(Append(r, e)) = Len(q) + 1
      /\ \A k \in 1 .. Len(q) : Append(r, e)[k] = r[k]
      /\ Append(r, e)[Len(q) + 1] = e
  BY <1>1
<1>3. Enqueued(r, op, u) = Append(r, e)
  BY DEF Enqueued, e
<1>4. QueueExtends(q, Append(r, e))
  BY <1>2 DEF QueueExtends
<1> QED
  BY <1>2, <1>3, <1>4 DEF e

LEMMA NewGenerationKeeps ==
  ASSUME AuthInv, NEW t \in Tabs
  PROVE  /\ tab[t] \in TabState /\ tab[t].queue \in Seq(Queued) /\ NewGeneration(t) \in Seq(Queued)
         /\ Len(NewGeneration(t)) = Len(tab[t].queue)
         /\ \A k \in 1 .. Len(tab[t].queue) :
              /\ NewGeneration(t)[k].op = tab[t].queue[k].op
              /\ NewGeneration(t)[k].user = tab[t].queue[k].user
<1>1. tab[t] \in TabState /\ tab[t].queue \in Seq(Queued)
  BY AuthTypes DEF AuthInv, TabState
<1>2. DOMAIN tab[t].queue = 1 .. Len(tab[t].queue) /\ Len(tab[t].queue) \in Nat
      /\ \A k \in 1 .. Len(tab[t].queue) : tab[t].queue[k] \in Queued
  BY <1>1
<1>3. \A k \in 1 .. Len(tab[t].queue) :
        LET e == [tab[t].queue[k] EXCEPT !.current = FALSE] IN
        e \in Queued /\ e.op = tab[t].queue[k].op /\ e.user = tab[t].queue[k].user
  BY <1>2 DEF Queued
<1>4. NewGeneration(t) = [k \in 1 .. Len(tab[t].queue) |-> [tab[t].queue[k] EXCEPT !.current = FALSE]]
  BY <1>2 DEF NewGeneration
<1>5. NewGeneration(t) \in Seq(Queued) /\ Len(NewGeneration(t)) = Len(tab[t].queue)
  BY <1>2, <1>3, <1>4, IsASeq
<1> QED
  BY <1>1, <1>3, <1>4, <1>5

(* A waiting caller's refresh is still queued after the queue has grown.   *)
LEMMA RefreshStaysQueued ==
  ASSUME NEW q \in Seq(Queued), NEW r \in Seq(Queued), QueueExtends(q, r),
         \E k \in DOMAIN q : q[k].op = "refresh"
  PROVE  \E k \in DOMAIN r : r[k].op = "refresh"
BY DEF QueueExtends

LEMMA SignInStep ==
  ASSUME AuthInv, NEW t \in Tabs, NEW op \in SigningInOps, NEW u \in Users, SignIn(t, op, u)
  PROVE  AuthInv'
<1> DEFINE q == tab[t].queue
           r == Enqueued(NewGeneration(t), op, u)
           new == [tab[t] EXCEPT !.queue = r]
<1>1. /\ tab[t] \in TabState /\ q \in Seq(Queued) /\ NewGeneration(t) \in Seq(Queued)
      /\ Len(NewGeneration(t)) = Len(q)
      /\ \A k \in 1 .. Len(q) : NewGeneration(t)[k].op = q[k].op /\ NewGeneration(t)[k].user = q[k].user
  BY NewGenerationKeeps
<1>2. op \in Ops /\ u \in SomeUser
  BY DEF SigningInOps, Ops, SomeUser
<1>3. /\ r \in Seq(Queued) /\ Len(r) = Len(q) + 1 /\ QueueExtends(q, r)
      /\ \A k \in 1 .. Len(q) + 1 : \/ k \in 1 .. Len(q)
                                    \/ r[k] = [op |-> op, user |-> u, current |-> TRUE]
  BY <1>1, <1>2, EnqueuedExtends
<1>4. /\ serverVars' = serverVars /\ cookie' = cookie /\ http' = http /\ signedOut' = {}
      /\ tab' = [tab EXCEPT ![t] = new] /\ Len(q) < MaxQueue /\ moves' \in 0 .. MaxMoves
  BY AuthTypes, AuthAssumption DEF AuthInv, SignIn, Room, Move
<1> HIDE DEF r
<1>5. /\ new \in TabState /\ new.queue = r /\ new.api = tab[t].api /\ new.user = tab[t].user
  BY <1>1, <1>3 DEF TabState
<1>6. new.api = "refreshing" => \E k \in DOMAIN r : r[k].op = "refresh"
  <2>1. tab[t].api = "refreshing" => \E k \in DOMAIN q : q[k].op = "refresh"
    BY DEF AuthInv, WaitersAreServed, Refreshing
  <2> QED
    BY <1>1, <1>3, <1>5, <2>1, RefreshStaysQueued
<1>7. Len(r) <= MaxQueue
  BY <1>1, <1>3, <1>4, AuthAssumption
<1>8. \A k \in 1 .. Len(r) : \/ k \in 1 .. Len(q)
                             \/ r[k].user \in Users /\ signedOut' = {}
  BY <1>3, <1>4
<1> HIDE DEF q, new
<1> QED
  BY <1>3, <1>4, <1>5, <1>6, <1>7, <1>8, TabExtends DEF q

LEMMA SignOutStep ==
  ASSUME AuthInv, NEW t \in Tabs, SignOut(t)
  PROVE  AuthInv'
<1> DEFINE q == tab[t].queue
           r == Enqueued(NewGeneration(t), "logout", NoUser)
           new == [tab[t] EXCEPT !.user = NoUser, !.access = NoAccess, !.queue = r]
<1>1. /\ tab[t] \in TabState /\ q \in Seq(Queued) /\ NewGeneration(t) \in Seq(Queued)
      /\ Len(NewGeneration(t)) = Len(q)
      /\ \A k \in 1 .. Len(q) : NewGeneration(t)[k].op = q[k].op /\ NewGeneration(t)[k].user = q[k].user
  BY NewGenerationKeeps
<1>2. "logout" \in Ops /\ NoUser \in SomeUser
  BY DEF Ops, SomeUser
<1>3. /\ r \in Seq(Queued) /\ Len(r) = Len(q) + 1 /\ QueueExtends(q, r)
      /\ \A k \in 1 .. Len(q) + 1 : \/ k \in 1 .. Len(q)
                                    \/ r[k] = [op |-> "logout", user |-> NoUser, current |-> TRUE]
  BY <1>1, <1>2, EnqueuedExtends
<1>4. /\ serverVars' = serverVars /\ cookie' = cookie /\ http' = http /\ signedOut' = signedOut
      /\ tab' = [tab EXCEPT ![t] = new] /\ Len(q) < MaxQueue /\ moves' \in 0 .. MaxMoves
  BY AuthTypes, AuthAssumption DEF AuthInv, SignOut, Room, Move
<1> HIDE DEF r
<1>5. /\ new \in TabState /\ new.queue = r /\ new.api = tab[t].api /\ new.user = NoUser
  BY <1>1, <1>2, <1>3 DEF TabState, NoAccess
<1>6. new.api = "refreshing" => \E k \in DOMAIN r : r[k].op = "refresh"
  <2>1. tab[t].api = "refreshing" => \E k \in DOMAIN q : q[k].op = "refresh"
    BY DEF AuthInv, WaitersAreServed, Refreshing
  <2> QED
    BY <1>1, <1>3, <1>5, <2>1, RefreshStaysQueued
<1>7. Len(r) <= MaxQueue
  BY <1>1, <1>3, <1>4, AuthAssumption
<1>8. \A k \in 1 .. Len(r) : k \in 1 .. Len(q) \/ r[k].op \notin SigningInOps
  BY <1>3 DEF SigningInOps
<1> HIDE DEF q, new
<1> QED
  BY <1>3, <1>4, <1>5, <1>6, <1>7, <1>8, TabExtends DEF q

(* The queue stays; the API client and the access token change.            *)
LEMMA QueueStays ==
  ASSUME AuthInv, serverVars' = serverVars, cookie' = cookie, http' = http,
         signedOut' = signedOut, moves' \in 0 .. MaxMoves,
         tab' \in [Tabs -> TabState],
         \A t \in Tabs : /\ tab'[t].queue = tab[t].queue /\ tab'[t].user = tab[t].user
                         /\ tab'[t].api = "refreshing" => tab[t].api = "refreshing"
  PROVE  AuthInv'
<1>1. ASSUME NEW t \in Tabs
      PROVE  /\ Len(tab'[t].queue) <= MaxQueue
             /\ QueueExtends(tab[t].queue, tab'[t].queue)
             /\ NewIsQuiet(t)
             /\ tab'[t].api = "refreshing" => Refreshing(t)'
             /\ tab'[t].user \in {tab[t].user, NoUser}
  <2>1. tab[t].queue \in Seq(Queued) /\ Len(tab[t].queue) \in Nat /\ Len(tab[t].queue) <= MaxQueue
    BY AuthTypes DEF AuthInv, TabState
  <2>2. QueueExtends(tab[t].queue, tab'[t].queue) /\ NewIsQuiet(t)
    BY <2>1 DEF QueueExtends, NewIsQuiet
  <2>3. tab'[t].api = "refreshing" => Refreshing(t)'
    BY DEF AuthInv, WaitersAreServed, Refreshing
  <2> QED
    BY <2>1, <2>2, <2>3
<1> QED
  BY <1>1, ExtensionPreserves

LEMMA ApiClientSteps ==
  ASSUME AuthInv, NEW t \in Tabs, ApiRequest(t) \/ ApiGivesUp(t) \/ AccessExpires(t) \/ SendRescue(t)
  PROVE  AuthInv'
<1>1. tab \in [Tabs -> TabState] /\ moves \in 0 .. MaxMoves
  BY AuthTypes DEF AuthInv
<1>2. /\ serverVars' = serverVars /\ cookie' = cookie /\ http' = http
      /\ signedOut' = signedOut /\ moves' \in 0 .. MaxMoves
  BY <1>1, AuthAssumption DEF ApiRequest, ApiGivesUp, AccessExpires, SendRescue, Move
<1>3. tab' \in [Tabs -> TabState] /\
      \A r \in Tabs : /\ tab'[r].queue = tab[r].queue /\ tab'[r].user = tab[r].user
                      /\ tab'[r].api = "refreshing" => tab[r].api = "refreshing"
  <2>1. CASE ApiRequest(t)
    BY <1>1, <2>1 DEF ApiRequest, TabState, ApiSteps
  <2>2. CASE ApiGivesUp(t)
    BY <1>1, <2>2 DEF ApiGivesUp, TabState, ApiSteps
  <2>3. CASE AccessExpires(t)
    BY <1>1, <2>3 DEF AccessExpires, TabState
  <2>4. CASE SendRescue(t)
    BY <1>1, <2>4 DEF SendRescue, TabState, ApiSteps
  <2> QED
    BY <2>1, <2>2, <2>3, <2>4
<1> QED
  BY <1>2, <1>3, QueueStays

LEMMA RescueKeepsAuth ==
  ASSUME AuthInv, NEW j \in Jobs, Rescue(j)
  PROVE  AuthInv'
<1>1. tab \in [Tabs -> TabState] /\ moves \in 0 .. MaxMoves
  BY AuthTypes DEF AuthInv
<1>2. /\ serverVars' = serverVars /\ cookie' = cookie /\ http' = http
      /\ signedOut' = signedOut /\ moves' = moves
  BY DEF Rescue
<1>3. ASSUME NEW r \in Tabs
      PROVE  /\ tab'[r] \in TabState /\ tab'[r].queue = tab[r].queue /\ tab'[r].user = tab[r].user
             /\ tab'[r].api = "refreshing" => tab[r].api = "refreshing"
  <2>1. tab'[r] \in {tab[r], [tab[r] EXCEPT !.api = "idle"]}
    BY DEF Rescue
  <2> QED
    BY <1>1, <2>1 DEF TabState, ApiSteps
<1>4. tab' \in [Tabs -> TabState]
  <2>1. tab' = [r \in Tabs |-> tab'[r]]
    BY DEF Rescue
  <2> QED
    BY <1>3, <2>1
<1> QED
  BY <1>1, <1>2, <1>3, <1>4, QueueStays

LEMMA ApiRefusedStep ==
  ASSUME AuthInv, NEW t \in Tabs, ApiRefused(t)
  PROVE  AuthInv'
<1> DEFINE q == tab[t].queue
           r == QueueWithRefresh(t)
           new == [tab[t] EXCEPT !.api = "refreshing", !.queue = r]
<1>0. /\ tab \in [Tabs -> TabState] /\ moves \in 0 .. MaxMoves /\ tab[t] \in TabState
      /\ q \in Seq(Queued) /\ Len(q) \in Nat
  BY AuthTypes DEF AuthInv, TabState
<1>1. /\ serverVars' = serverVars /\ cookie' = cookie /\ http' = http
      /\ signedOut' = signedOut /\ moves' = moves
  BY DEF ApiRefused
<1>2. CASE tab' = [tab EXCEPT ![t] = new] /\ Len(tab'[t].queue) <= MaxQueue
  <2>1. /\ r \in Seq(Queued) /\ QueueExtends(q, r)
        /\ \A k \in 1 .. Len(r) : k \in 1 .. Len(q) \/ r[k].op \notin SigningInOps
        /\ \E k \in DOMAIN r : r[k].op = "refresh"
    <3>1. CASE Refreshing(t)
      BY <1>0, <3>1 DEF QueueWithRefresh, Refreshing, QueueExtends
    <3>2. CASE ~Refreshing(t)
      <4> DEFINE e == Enqueued(q, "refresh", NoUser)
      <4>0. r = e
        BY <3>2 DEF QueueWithRefresh
      <4>1. "refresh" \in Ops /\ NoUser \in SomeUser
        BY DEF Ops, SomeUser
      <4>2. /\ e \in Seq(Queued) /\ Len(e) = Len(q) + 1 /\ QueueExtends(q, e)
            /\ \A k \in 1 .. Len(q) + 1 : \/ k \in 1 .. Len(q)
                                          \/ e[k] = [op |-> "refresh", user |-> NoUser, current |-> TRUE]
            /\ e[Len(q) + 1] = [op |-> "refresh", user |-> NoUser, current |-> TRUE]
        BY <1>0, <4>1, EnqueuedExtends
      <4> HIDE DEF e, r, q
      <4>3. Len(q) + 1 \in DOMAIN e /\ e[Len(q) + 1].op = "refresh"
        BY <1>0, <4>2
      <4>4. \A k \in 1 .. Len(e) : k \in 1 .. Len(q) \/ e[k].op \notin SigningInOps
        BY <4>2 DEF SigningInOps
      <4> QED
        BY <4>0, <4>2, <4>3, <4>4
    <3> QED
      BY <3>1, <3>2
  <2> HIDE DEF r
  <2>2. new \in TabState /\ new.queue = r /\ new.api = "refreshing" /\ new.user = tab[t].user
    BY <1>0, <2>1 DEF TabState, ApiSteps
  <2>3. Len(r) <= MaxQueue
    BY <1>0, <1>2, <2>2
  <2> HIDE DEF new, q
  <2> QED
    BY <1>0, <1>1, <1>2, <2>1, <2>2, <2>3, TabExtends DEF q
<1>3. CASE tab' = [tab EXCEPT ![t] = [tab[t] EXCEPT !.api = "idle"]]
  <2>1. tab' \in [Tabs -> TabState]
    BY <1>0, <1>3 DEF TabState, ApiSteps
  <2>2. \A r_ \in Tabs : /\ tab'[r_].queue = tab[r_].queue /\ tab'[r_].user = tab[r_].user
                         /\ tab'[r_].api = "refreshing" => tab[r_].api = "refreshing"
    BY <1>0, <1>3 DEF TabState
  <2> QED
    BY <1>0, <1>1, <2>1, <2>2, QueueStays
<1> QED
  BY <1>0, <1>2, <1>3 DEF ApiRefused

(* The next operation of a queue is sent with the cookie of that moment.   *)
LEMMA SendStep ==
  ASSUME AuthInv, NEW t \in Tabs, Send(t)
  PROVE  AuthInv'
<1> DEFINE q == tab[t].queue
<1>0. /\ tab \in [Tabs -> TabState] /\ http \in [Slots -> Request] /\ cookie \in Tokens
      /\ q \in Seq(Queued) /\ q # <<>> /\ t # NoTab
  BY AuthTypes, AuthAssumption DEF AuthInv, TabState, Send
<1>1. Head(q) \in Queued /\ 1 \in DOMAIN q /\ Head(q) = q[1]
  BY <1>0
<1>2. /\ serverVars' = serverVars /\ browserVars' = browserVars /\ moves' = moves
      /\ \A j \in Slots : http[j].tab # t
  BY DEF Send, Waiting
<1>3. PICK i \in Slots :
        /\ http[i].pc = "free"
        /\ http' = [http EXCEPT ![i] = [pc |-> "sent", tab |-> t, op |-> Head(q).op,
                                        user |-> Head(q).user, token |-> cookie, ok |-> FALSE]]
  BY DEF Send
<1> DEFINE new == [pc |-> "sent", tab |-> t, op |-> Head(q).op,
                   user |-> Head(q).user, token |-> cookie, ok |-> FALSE]
<1>4. /\ new \in Request /\ new.pc = "sent" /\ new.tab = t /\ new.op = Head(q).op
      /\ new.user = Head(q).user /\ new.token = cookie
  BY <1>0, <1>1 DEF Request, Queued
<1> HIDE DEF new
<1>5. /\ http' \in [Slots -> Request] /\ http'[i] = new
      /\ \A j \in Slots : j # i => http'[j] = http[j]
  BY <1>0, <1>3, <1>4 DEF new
<1>6. /\ users' = users /\ auth_sessions' = auth_sessions /\ exchanged' = exchanged
      /\ cookie' = cookie /\ tab' = tab /\ signedOut' = signedOut
  BY <1>2 DEF serverVars, browserVars
<1>7. AuthTypeOK'
  BY <1>2, <1>5, <1>6 DEF AuthInv, AuthTypeOK, Request
<1>8. BrowserShape
  <2>1. \A j \in Slots : j # i => RequestKept(j)
    BY <1>5 DEF RequestKept
  <2> QED
    BY <1>4, <1>5, <1>6, <2>1 DEF BrowserShape
<1>9. OneRequestPerTab'
  BY <1>2, <1>4, <1>5 DEF AuthInv, OneRequestPerTab
<1>10. RequestsFollowQueues'
  BY <1>0, <1>4, <1>5, <1>6 DEF AuthInv, RequestsFollowQueues
<1>11. SignInsAreNamed'
  BY <1>1, <1>4, <1>5, <1>6 DEF AuthInv, SignInsAreNamed
<1>12. NothingOpens'
  BY <1>6, <1>8, BrowserKeepsServer DEF AuthInv, NothingOpens, SigningIn
<1>13. OnlyLogoutsSucceed'
  BY <1>4, <1>5, <1>6 DEF AuthInv, OnlyLogoutsSucceed, Waiting
<1>14. SignedOutStaysOut'
  BY <1>6 DEF AuthInv, SignedOutStaysOut
<1>15. WaitersAreServed'
  BY <1>0, <1>4, <1>5, <1>6 DEF AuthInv, WaitersAreServed, Waiting, Refreshing
<1> QED
  BY <1>7, <1>8, <1>9, <1>10, <1>11, <1>12, <1>13, <1>14, <1>15, BrowserKeepsServer DEF AuthInv

(* What a tab makes of the end of its request.                             *)
LEMMA TabAfterFacts ==
  ASSUME AuthInv, NEW t \in Tabs, NEW ok \in BOOLEAN, NEW user \in SomeUser, tab[t].queue # <<>>
  PROVE  LET new == TabAfter(t, ok, user) IN
         /\ new \in TabState /\ new.queue = Tail(tab[t].queue)
         /\ new.api = "refreshing" => tab[t].api = "refreshing" /\ Head(tab[t].queue).op # "refresh"
         /\ (ok => Head(tab[t].queue).op = "logout") => new.user \in {tab[t].user, NoUser}
<1> DEFINE q == tab[t].queue
           op == Head(q).op
           rest == [tab[t] EXCEPT !.queue = Tail(@), !.ready = @ \/ op = "refresh", !.api = ApiAfter(t, ok)]
<1>0. tab[t] \in TabState /\ q \in Seq(Queued) /\ NoUser \in SomeUser
  BY AuthTypes DEF AuthInv, TabState, SomeUser
<1>1. Tail(q) \in Seq(Queued) /\ Head(q) \in Queued
  BY <1>0
<1>2. ApiAfter(t, ok) \in ApiSteps
      /\ (ApiAfter(t, ok) = "refreshing" => tab[t].api = "refreshing" /\ op # "refresh")
  BY <1>0 DEF ApiAfter, ApiSteps, TabState
<1>3. (tab[t].ready \/ op = "refresh") \in BOOLEAN
  BY <1>0 DEF TabState
<1>4. /\ rest \in TabState /\ rest.queue = Tail(q) /\ rest.api = ApiAfter(t, ok)
      /\ rest.user = tab[t].user
  BY <1>0, <1>1, <1>2, <1>3 DEF TabState
<1> DEFINE new == TabAfter(t, ok, user)
<1>5. \/ new = [rest EXCEPT !.user = user, !.access = [user |-> user, expired |-> FALSE]]
         /\ ok /\ op # "logout"
      \/ new = [rest EXCEPT !.user = NoUser, !.access = NoAccess]
      \/ new = rest
  BY DEF TabAfter
<1> HIDE DEF new, rest
<1>6. /\ new \in TabState /\ new.queue = Tail(q) /\ new.api = ApiAfter(t, ok)
      /\ \/ new.user \in {tab[t].user, NoUser}
         \/ ok /\ op # "logout"
  <2>1. CASE /\ new = [rest EXCEPT !.user = user, !.access = [user |-> user, expired |-> FALSE]]
             /\ ok /\ op # "logout"
    BY <1>4, <2>1 DEF TabState
  <2>2. CASE new = [rest EXCEPT !.user = NoUser, !.access = NoAccess]
    BY <1>0, <1>4, <2>2 DEF TabState, NoAccess
  <2>3. CASE new = rest
    BY <1>4, <2>3
  <2> QED
    BY <1>5, <2>1, <2>2, <2>3
<1> QED
  BY <1>2, <1>6 DEF new

(* A tab is done with its request: the operation leaves its queue.         *)
LEMMA RequestEnds ==
  ASSUME AuthInv, serverVars' = serverVars, moves' = moves,
         NEW t \in Tabs, NEW i \in Slots, http[i].tab = t,
         NEW new \in TabState, tab' = [tab EXCEPT ![t] = new],
         new.queue = Tail(tab[t].queue),
         new.api = "refreshing" => tab[t].api = "refreshing" /\ Head(tab[t].queue).op # "refresh",
         NEW r \in Request, http' = [http EXCEPT ![i] = r], r.tab = NoTab,
         r = NoRequest \/ RequestKept(i),
         cookie' \in {cookie, NoToken, http[i].token},
         signedOut' \in {signedOut, signedOut \cup {t}}, t \in signedOut' => new.user = NoUser,
         signedOut' # {} => ~SigningIn /\ Dead(cookie) /\ \A j \in Slots : Dead(http[j].token)
  PROVE  AuthInv'
<1> DEFINE q == tab[t].queue
<1>0. /\ tab \in [Tabs -> TabState] /\ http \in [Slots -> Request] /\ cookie \in Tokens
      /\ signedOut \subseteq Tabs /\ moves \in 0 .. MaxMoves /\ t # NoTab
      /\ q \in Seq(Queued) /\ Len(q) <= MaxQueue
      /\ http[i].token \in Tokens
  BY AuthTypes, AuthAssumption DEF AuthInv, TabState, Request
<1>1. q # <<>> /\ Head(q) = q[1] /\ http[i].op = Head(q).op
  BY <1>0 DEF AuthInv, RequestsFollowQueues
<1>2. /\ Tail(q) \in Seq(Queued) /\ Len(Tail(q)) = Len(q) - 1 /\ Len(q) \in Nat
      /\ \A k \in 1 .. Len(q) - 1 : Tail(q)[k] = q[k + 1]
      /\ DOMAIN Tail(q) = 1 .. Len(q) - 1 /\ DOMAIN q = 1 .. Len(q)
  BY <1>0, <1>1
<1>3. /\ users' = users /\ auth_sessions' = auth_sessions /\ exchanged' = exchanged
      /\ tab' \in [Tabs -> TabState] /\ tab'[t] = new /\ (\A s \in Tabs : s # t => tab'[s] = tab[s])
      /\ http' \in [Slots -> Request] /\ http'[i] = r /\ (\A j \in Slots : j # i => http'[j] = http[j])
      /\ cookie' \in Tokens /\ signedOut' \subseteq Tabs
  BY <1>0, NoRequestType DEF serverVars
<1>4. \A j \in Slots : j # i => http[j].tab # t
  BY <1>0 DEF AuthInv, OneRequestPerTab
<1>5. AuthTypeOK'
  <2>1. \A s \in Tabs : Len(tab'[s].queue) <= MaxQueue
    <3>1. \A s \in Tabs : Len(tab[s].queue) <= MaxQueue
      BY AuthTypes DEF AuthInv
    <3>2. Len(Tail(q)) <= MaxQueue
      BY <1>0, <1>2, AuthAssumption
    <3> QED
      BY <1>3, <3>1, <3>2
  <2> QED
    BY <1>0, <1>3, <2>1 DEF AuthInv, AuthTypeOK, Request, TabState
<1>6. BrowserShape
  <2>1. \A j \in Slots : RequestKept(j) \/ http'[j] = NoRequest
    BY <1>3 DEF RequestKept
  <2> QED
    BY <1>3, <2>1 DEF BrowserShape
<1>7. OneRequestPerTab'
  BY <1>3 DEF AuthInv, OneRequestPerTab
<1>8. RequestsFollowQueues'
  <2> SUFFICES ASSUME NEW j \in Slots, http'[j].tab # NoTab
               PROVE  /\ http'[j].pc # "free" /\ tab'[http'[j].tab].queue # <<>>
                      /\ http'[j].op = Head(tab'[http'[j].tab].queue).op
    BY DEF RequestsFollowQueues
  <2>1. j # i /\ http'[j] = http[j] /\ http[j].tab # t /\ http[j].tab \in Tabs
    BY <1>0, <1>3, <1>4 DEF Request
  <2>2. tab'[http[j].tab] = tab[http[j].tab]
    BY <1>3, <2>1
  <2> QED
    BY <2>1, <2>2 DEF AuthInv, RequestsFollowQueues
<1>21. tab'[t].queue = Tail(q)
  BY <1>3
<1>9. ASSUME NEW s \in Tabs, NEW k \in DOMAIN tab'[s].queue
      PROVE  \E m \in DOMAIN tab[s].queue : tab'[s].queue[k] = tab[s].queue[m]
  <2>1. CASE s = t
    <3>0. k \in DOMAIN Tail(q) /\ tab'[s].queue = Tail(q)
      BY <1>21, <1>9, <2>1
    <3> HIDE DEF q
    <3>1. k \in 1 .. Len(q) - 1 /\ tab'[s].queue[k] = q[k + 1] /\ k + 1 \in 1 .. Len(q)
      BY <1>2, <3>0
    <3> QED
      BY <1>2, <2>1, <3>1 DEF q
  <2>2. CASE s # t
    BY <1>3, <1>9, <2>2
  <2> QED
    BY <2>1, <2>2
<1>10. SignInsAreNamed'
  <2>1. ASSUME NEW s \in Tabs, NEW k \in DOMAIN tab'[s].queue, tab'[s].queue[k].op \in SigningInOps
        PROVE  tab'[s].queue[k].user \in Users
    BY <1>9, <2>1 DEF AuthInv, SignInsAreNamed
  <2>2. ASSUME NEW j \in Slots, http'[j].op \in SigningInOps, http'[j].pc = "sent"
        PROVE  http'[j].user \in Users
    BY <1>3, <2>2, NoRequestType DEF AuthInv, SignInsAreNamed, RequestKept
  <2> QED
    BY <2>1, <2>2 DEF SignInsAreNamed
<1>11. NothingOpens'
  <2>1. ~SigningIn => ~SigningIn'
    BY <1>9 DEF SigningIn
  <2> QED
    BY <1>6, <2>1, BrowserKeepsServer DEF NothingOpens
<1>12. OnlyLogoutsSucceed'
  <2> SUFFICES ASSUME NEW s \in signedOut', NEW j \in Slots, http'[j].tab = s,
                      http'[j].pc = "replied", http'[j].ok
               PROVE  http'[j].op = "logout"
    BY DEF OnlyLogoutsSucceed, Waiting
  <2>1. s \in Tabs /\ s # NoTab
    BY <1>3, AuthAssumption
  <2>2. j # i /\ http'[j] = http[j] /\ s # t
    BY <1>3, <1>4, <2>1
  <2>3. s \in signedOut
    BY <2>2
  <2> QED
    BY <2>2, <2>3 DEF AuthInv, OnlyLogoutsSucceed, Waiting
<1>13. SignedOutStaysOut'
  BY <1>0, <1>3 DEF AuthInv, SignedOutStaysOut
<1>14. WaitersAreServed'
  <2> SUFFICES ASSUME NEW s \in Tabs
               PROVE  /\ tab'[s].api = "refreshing" =>
                           \E k \in DOMAIN tab'[s].queue : tab'[s].queue[k].op = "refresh"
                      /\ \A j \in Slots : http'[j].tab = s => tab'[s].queue # <<>>
    BY DEF WaitersAreServed, Waiting, Refreshing
  <2>1. CASE s = t
    <3>1. \A j \in Slots : http'[j].tab # t
      BY <1>0, <1>3, <1>4
    <3>2. ASSUME new.api = "refreshing"
          PROVE  \E k \in 1 .. Len(q) - 1 : q[k + 1].op = "refresh"
      <4>1. PICK m \in 1 .. Len(q) : q[m].op = "refresh"
        BY <1>2, <3>2 DEF AuthInv, WaitersAreServed, Refreshing
      <4>2. m # 1
        BY <1>1, <3>2, <4>1
      <4>3. m - 1 \in 1 .. Len(q) - 1 /\ q[(m - 1) + 1].op = "refresh"
        BY <1>2, <4>1, <4>2
      <4> QED
        BY <4>3
    <3> HIDE DEF q
    <3>3. new.api = "refreshing" => \E k \in DOMAIN Tail(q) : Tail(q)[k].op = "refresh"
      BY <1>2, <3>2
    <3> QED
      BY <1>3, <1>21, <2>1, <3>1, <3>3
  <2>2. CASE s # t
    <3>1. tab'[s] = tab[s]
      BY <1>3, <2>2
    <3>2. \A j \in Slots : http'[j].tab = s => http[j].tab = s
      BY <1>3, <2>2, AuthAssumption
    <3> QED
      BY <3>1, <3>2 DEF AuthInv, WaitersAreServed, Waiting, Refreshing
  <2> QED
    BY <2>1, <2>2
<1> QED
  BY <1>5, <1>6, <1>7, <1>8, <1>10, <1>11, <1>12, <1>13, <1>14, BrowserKeepsServer DEF AuthInv

(* A reply reaches its tab.  A logout that ended the last session leaves   *)
(* only dead tokens behind.                                                *)
LEMMA ReceiveStep ==
  ASSUME AuthInv, NEW t \in Tabs, Receive(t)
  PROVE  AuthInv'
<1>1. PICK i \in Slots :
        /\ http[i].tab = t /\ http[i].pc = "replied" /\ cookie' = CookieAfter(i)
        /\ tab' = [tab EXCEPT ![t] = TabAfter(t, http[i].ok, http[i].user)]
        /\ http' = [http EXCEPT ![i] = NoRequest]
        /\ signedOut' = IF /\ http[i].op = "logout" /\ http[i].ok /\ EndsLast(i)
                           /\ ~SigningIn /\ tab[t].user = NoUser
                          THEN signedOut \cup {t} ELSE signedOut
        /\ serverVars' = serverVars /\ moves' = moves
  BY DEF Receive, Waiting
<1> DEFINE new == TabAfter(t, http[i].ok, http[i].user)
<1>2. /\ http[i] \in Request /\ http[i].ok \in BOOLEAN /\ http[i].user \in SomeUser
      /\ cookie \in Tokens /\ (\A j \in Slots : http[j].token \in Tokens) /\ t # NoTab
  BY AuthTypes, AuthAssumption DEF AuthInv, Request
<1>3. tab[t].queue # <<>> /\ http[i].op = Head(tab[t].queue).op
  BY <1>1, <1>2 DEF AuthInv, RequestsFollowQueues
<1>4. /\ new \in TabState /\ new.queue = Tail(tab[t].queue)
      /\ new.api = "refreshing" => tab[t].api = "refreshing" /\ Head(tab[t].queue).op # "refresh"
      /\ (http[i].ok => http[i].op = "logout") => new.user \in {tab[t].user, NoUser}
  BY <1>2, <1>3, TabAfterFacts
<1>5. tab' = [tab EXCEPT ![t] = new]
  BY <1>1
<1> HIDE DEF new
<1>6. cookie' \in {cookie, NoToken, http[i].token}
  BY <1>1, <1>2 DEF CookieAfter
<1>7. t \in signedOut' => new.user = NoUser
  <2>1. CASE t \in signedOut
    BY <1>1, <1>4, <2>1 DEF AuthInv, OnlyLogoutsSucceed, SignedOutStaysOut, Waiting
  <2>2. CASE t \notin signedOut
    BY <1>1, <1>4, <2>2
  <2> QED
    BY <2>1, <2>2
<1>8. signedOut' # {} => ~SigningIn /\ Dead(cookie) /\ \A j \in Slots : Dead(http[j].token)
  <2>1. CASE signedOut # {}
    BY <2>1 DEF AuthInv, NothingOpens
  <2>2. CASE signedOut = {} /\ signedOut' # {}
    <3>1. http[i].op = "logout" /\ http[i].ok /\ EndsLast(i) /\ ~SigningIn
      BY <1>1, <2>2
    <3>2. Dead(http[i].token)
      BY <1>1, <3>1 DEF AuthInv, LogoutsEnd
    <3>3. \A s \in Sessions : auth_sessions[s].user = NoUser \/ auth_sessions[s].revoked
      BY <3>1, <3>2 DEF EndsLast, Dead
    <3>4. ASSUME NEW token \in Tokens, Issued(token) PROVE Dead(token)
      BY <3>3, <3>4, TokenParts DEF Issued, Dead
    <3>5. Issued(cookie) /\ \A j \in Slots : Issued(http[j].token)
      BY DEF AuthInv, SessionsCount
    <3> QED
      BY <1>2, <3>1, <3>4, <3>5
  <2> QED
    BY <2>1, <2>2
<1>9. signedOut' \in {signedOut, signedOut \cup {t}}
  BY <1>1
<1> QED
  BY <1>1, <1>4, <1>5, <1>6, <1>7, <1>8, <1>9, NoRequestType, RequestEnds

LEMMA GiveUpStep ==
  ASSUME AuthInv, NEW t \in Tabs, GiveUp(t)
  PROVE  AuthInv'
<1>1. PICK i \in Slots :
        /\ http[i].tab = t
        /\ cookie' = cookie \/ cookie' = CookieAfter(i)
        /\ tab' = [tab EXCEPT ![t] = TabAfter(t, FALSE, NoUser)]
        /\ http' = [http EXCEPT ![i] = IF @.pc = "replied" THEN NoRequest ELSE [@ EXCEPT !.tab = NoTab]]
        /\ serverVars' = serverVars /\ signedOut' = signedOut /\ moves' = moves
  BY DEF GiveUp, Waiting
<1> DEFINE new == TabAfter(t, FALSE, NoUser)
           r == IF http[i].pc = "replied" THEN NoRequest ELSE [http[i] EXCEPT !.tab = NoTab]
<1>2. http \in [Slots -> Request] /\ t # NoTab /\ NoUser \in SomeUser
  BY AuthTypes, AuthAssumption DEF AuthInv, SomeUser
<1>3. tab[t].queue # <<>>
  BY <1>1, <1>2 DEF AuthInv, RequestsFollowQueues
<1>4. /\ new \in TabState /\ new.queue = Tail(tab[t].queue)
      /\ new.api = "refreshing" => tab[t].api = "refreshing" /\ Head(tab[t].queue).op # "refresh"
      /\ new.user \in {tab[t].user, NoUser}
  BY <1>2, <1>3, TabAfterFacts
<1>5. tab' = [tab EXCEPT ![t] = new] /\ http' = [http EXCEPT ![i] = r]
  BY <1>1
<1>6. /\ r \in Request /\ r.tab = NoTab
      /\ \/ r = NoRequest
         \/ /\ r.pc = http[i].pc /\ r.op = http[i].op /\ r.user = http[i].user
            /\ r.token = http[i].token /\ r.ok = http[i].ok
  BY <1>2, NoRequestType DEF Request
<1> HIDE DEF new, r
<1>7. r = NoRequest \/ RequestKept(i)
  BY <1>2, <1>5, <1>6 DEF RequestKept
<1>8. cookie' \in {cookie, NoToken, http[i].token}
  BY <1>1, <1>2 DEF CookieAfter, Request
<1>9. t \in signedOut' => new.user = NoUser
  BY <1>1, <1>4 DEF AuthInv, SignedOutStaysOut
<1>10. signedOut' # {} => ~SigningIn /\ Dead(cookie) /\ \A j \in Slots : Dead(http[j].token)
  BY <1>1 DEF AuthInv, NothingOpens
<1> QED
  BY <1>1, <1>4, <1>5, <1>6, <1>7, <1>8, <1>9, <1>10, RequestEnds

LEMMA ReloadStep ==
  ASSUME AuthInv, NEW t \in Tabs, Reload(t)
  PROVE  AuthInv'
<1> DEFINE e == [op |-> "refresh", user |-> NoUser, current |-> TRUE]
           new == [user |-> NoUser, access |-> NoAccess, queue |-> Append(<<>>, e),
                   api |-> "idle", ready |-> FALSE]
<1>0. /\ tab \in [Tabs -> TabState] /\ http \in [Slots -> Request] /\ t # NoTab
      /\ moves \in 0 .. MaxMoves
      /\ \A s \in Tabs : Len(tab[s].queue) <= MaxQueue
  BY AuthTypes, AuthAssumption DEF AuthInv
<1>1. e \in Queued /\ e.op = "refresh"
  BY DEF Queued, Ops, SomeUser
<1> HIDE DEF e
<1>2. /\ Append(<<>>, e) = <<e>> /\ <<e>> \in Seq(Queued) /\ Len(<<e>>) = 1 /\ <<e>>[1] = e
      /\ DOMAIN <<e>> = {1}
  BY <1>1
<1>3. /\ new \in TabState /\ new.user = NoUser /\ new.queue = <<e>> /\ new.api = "idle"
  BY <1>2 DEF TabState, SomeUser, NoAccess, ApiSteps
<1>4. /\ serverVars' = serverVars /\ cookie' = cookie /\ signedOut' = signedOut
      /\ moves' \in 0 .. MaxMoves
      /\ tab' = [tab EXCEPT ![t] = new]
      /\ http' = [i \in Slots |-> IF http[i].tab # t THEN http[i]
                                  ELSE IF http[i].pc = "replied" THEN NoRequest
                                  ELSE [http[i] EXCEPT !.tab = NoTab]]
  BY <1>0, AuthAssumption DEF Reload, Enqueued, Move, e
<1> HIDE DEF new
<1>5. /\ users' = users /\ auth_sessions' = auth_sessions /\ exchanged' = exchanged
      /\ tab' \in [Tabs -> TabState] /\ tab'[t] = new /\ (\A s \in Tabs : s # t => tab'[s] = tab[s])
  BY <1>0, <1>3, <1>4 DEF serverVars
<1>6. ASSUME NEW j \in Slots
      PROVE  /\ http'[j] \in Request
             /\ \/ http'[j] = NoRequest
                \/ http'[j] = http[j] /\ http[j].tab # t
                \/ RequestKept(j) /\ http'[j].tab = NoTab
  <2>1. CASE http[j].tab # t
    BY <1>0, <1>4, <2>1
  <2>2. CASE http[j].tab = t /\ http[j].pc = "replied"
    BY <1>0, <1>4, <2>2, NoRequestType
  <2>3. CASE http[j].tab = t /\ http[j].pc # "replied"
    <3>1. http'[j] = [http[j] EXCEPT !.tab = NoTab]
      BY <1>4, <2>3
    <3> QED
      BY <1>0, <3>1 DEF Request, RequestKept
  <2> QED
    BY <2>1, <2>2, <2>3
<1>7. http' \in [Slots -> Request]
  <2>1. http' = [j \in Slots |-> http'[j]]
    BY <1>4
  <2> QED
    BY <1>6, <2>1
<1>8. AuthTypeOK'
  <2>1. \A s \in Tabs : Len(tab'[s].queue) <= MaxQueue
    <3>1. Len(<<e>>) <= MaxQueue /\ tab'[t].queue = <<e>>
      BY <1>2, <1>3, <1>5, AuthAssumption
    <3> QED
      BY <1>0, <1>5, <3>1
  <2> QED
    BY <1>4, <1>5, <1>7, <2>1 DEF AuthInv, AuthTypeOK, Request, TabState
<1>9. BrowserShape
  <2>1. \A j \in Slots : RequestKept(j) \/ http'[j] = NoRequest
    BY <1>6 DEF RequestKept
  <2> QED
    BY <1>4, <1>5, <2>1 DEF BrowserShape
<1>10. \A j \in Slots : http'[j].tab # NoTab => http'[j] = http[j] /\ http[j].tab # t
  BY <1>6, NoRequestType
<1>11. OneRequestPerTab'
  BY <1>10 DEF AuthInv, OneRequestPerTab
<1>12. RequestsFollowQueues'
  <2> SUFFICES ASSUME NEW j \in Slots, http'[j].tab # NoTab
               PROVE  /\ http'[j].pc # "free" /\ tab'[http'[j].tab].queue # <<>>
                      /\ http'[j].op = Head(tab'[http'[j].tab].queue).op
    BY DEF RequestsFollowQueues
  <2>1. http'[j] = http[j] /\ http[j].tab # t /\ http[j].tab \in Tabs
    BY <1>0, <1>10 DEF Request
  <2>2. tab'[http[j].tab] = tab[http[j].tab]
    BY <1>5, <2>1
  <2> QED
    BY <2>1, <2>2 DEF AuthInv, RequestsFollowQueues
<1>13. \A s \in Tabs : \A k \in DOMAIN tab'[s].queue :
         \/ tab'[s].queue[k].op = "refresh"
         \/ k \in DOMAIN tab[s].queue /\ tab'[s].queue[k] = tab[s].queue[k]
  BY <1>1, <1>2, <1>3, <1>5
<1>14. SignInsAreNamed'
  <2>1. ASSUME NEW s \in Tabs, NEW k \in DOMAIN tab'[s].queue, tab'[s].queue[k].op \in SigningInOps
        PROVE  tab'[s].queue[k].user \in Users
    BY <1>13, <2>1 DEF AuthInv, SignInsAreNamed, SigningInOps
  <2>2. ASSUME NEW j \in Slots, http'[j].op \in SigningInOps, http'[j].pc = "sent"
        PROVE  http'[j].user \in Users
    BY <1>6, <2>2, NoRequestType DEF AuthInv, SignInsAreNamed, RequestKept
  <2> QED
    BY <2>1, <2>2 DEF SignInsAreNamed
<1>15. NothingOpens'
  <2>1. ~SigningIn => ~SigningIn'
    BY <1>13 DEF SigningIn
  <2> QED
    BY <1>4, <1>9, <2>1, BrowserKeepsServer DEF AuthInv, NothingOpens
<1>16. OnlyLogoutsSucceed'
  <2> SUFFICES ASSUME NEW s \in signedOut, NEW j \in Slots, http'[j].tab = s,
                      http'[j].pc = "replied", http'[j].ok
               PROVE  http'[j].op = "logout"
    BY <1>4 DEF OnlyLogoutsSucceed, Waiting
  <2>1. s # NoTab
    BY AuthTypes, AuthAssumption DEF AuthInv
  <2> QED
    BY <1>10, <2>1 DEF AuthInv, OnlyLogoutsSucceed, Waiting
<1>17. SignedOutStaysOut'
  <2>1. signedOut \subseteq Tabs
    BY AuthTypes DEF AuthInv
  <2> QED
    BY <1>3, <1>4, <1>5, <2>1 DEF AuthInv, SignedOutStaysOut
<1>18. WaitersAreServed'
  <2> SUFFICES ASSUME NEW s \in Tabs
               PROVE  /\ tab'[s].api = "refreshing" =>
                           \E k \in DOMAIN tab'[s].queue : tab'[s].queue[k].op = "refresh"
                      /\ \A j \in Slots : http'[j].tab = s => tab'[s].queue # <<>>
    BY DEF WaitersAreServed, Waiting, Refreshing
  <2>0. s # NoTab
    BY AuthAssumption
  <2>1. CASE s = t
    <3>1. tab'[s].api = "idle" /\ tab'[s].queue # <<>>
      BY <1>2, <1>3, <1>5, <2>1, SMTT(30)
    <3> QED
      BY <3>1
  <2>2. CASE s # t
    BY <1>5, <1>10, <2>0, <2>2 DEF AuthInv, WaitersAreServed, Waiting, Refreshing
  <2> QED
    BY <2>1, <2>2
<1> QED
  BY <1>8, <1>9, <1>11, <1>12, <1>14, <1>15, <1>16, <1>17, <1>18, BrowserKeepsServer DEF AuthInv

-----------------------------------------------------------------------------
(* The specification.                                                      *)
LEMMA AuthStarts == AuthInit => AuthInv
<1> SUFFICES ASSUME AuthInit PROVE AuthInv
  OBVIOUS
<1> DEFINE e == [op |-> "refresh", user |-> NoUser, current |-> TRUE]
           mounting == [user |-> NoUser, access |-> NoAccess, api |-> "idle", ready |-> FALSE,
                        queue |-> <<e>>]
           row == [user |-> NoUser, jti |-> 0, minted |-> 0, revoked |-> FALSE, locked |-> FALSE]
<1>1. e \in Queued /\ e.op = "refresh"
  BY DEF Queued, Ops, SomeUser
<1>2. row \in SessionRow /\ row.jti = 0 /\ row.minted = 0
  BY AuthAssumption DEF SessionRow, SomeUser
<1>3. /\ users = {} /\ auth_sessions = [s \in Sessions |-> row] /\ cookie = NoToken
      /\ tab = [t \in Tabs |-> mounting] /\ http = [i \in Slots |-> NoRequest] /\ moves = 0
      /\ exchanged = {} /\ signedOut = {}
  BY DEF AuthInit
<1> HIDE DEF e, row
<1>4. <<e>> \in Seq(Queued) /\ Len(<<e>>) = 1 /\ DOMAIN <<e>> = {1} /\ <<e>>[1] = e
  BY <1>1
<1>5. mounting \in TabState /\ mounting.queue = <<e>> /\ mounting.api = "idle"
  BY <1>4 DEF TabState, SomeUser, NoAccess, ApiSteps
<1> HIDE DEF mounting
<1>6. AuthTypeOK
  <2>1. \A t \in Tabs : Len(tab[t].queue) <= MaxQueue
    <3>1. 1 <= MaxQueue
      BY AuthAssumption
    <3> QED
      BY <1>3, <1>4, <1>5, <3>1
  <2>2. /\ auth_sessions \in [Sessions -> SessionRow] /\ tab \in [Tabs -> TabState]
        /\ http \in [Slots -> Request] /\ cookie \in Tokens /\ moves \in 0 .. MaxMoves
    <3>1. cookie \in Tokens /\ moves \in 0 .. MaxMoves
      BY <1>3, NoRequestType, AuthAssumption
    <3> QED
      BY <1>2, <1>3, <1>5, <3>1, NoRequestType
  <2> QED
    BY <1>3, <2>1, <2>2 DEF AuthTypeOK, SessionRow, TabState, Request
<1>7. OneRequestPerTab /\ RequestsFollowQueues /\ LogoutsEnd
  BY <1>3, NoRequestType DEF OneRequestPerTab, RequestsFollowQueues, LogoutsEnd
<1>8. SignInsAreNamed
  BY <1>1, <1>3, <1>4, <1>5, NoRequestType DEF SignInsAreNamed, SigningInOps
<1>9. SessionsCount
  BY <1>2, <1>3, NoRequestType DEF SessionsCount, Issued
<1>10. RefreshesExclude
  BY <1>3, NoRequestType DEF RefreshesExclude
<1>11. ExchangedAreOld /\ TokensExchangedOnce /\ NothingOpens /\ OnlyLogoutsSucceed /\ SignedOutStaysOut
  BY <1>3 DEF ExchangedAreOld, TokensExchangedOnce, NothingOpens, OnlyLogoutsSucceed, SignedOutStaysOut
<1>12. WaitersAreServed
  <2> SUFFICES ASSUME NEW t \in Tabs
               PROVE  /\ tab[t].api = "refreshing" => Refreshing(t)
                      /\ \A i \in Slots : http[i].tab # t
    BY DEF WaitersAreServed, Waiting
  <2> QED
    BY <1>3, <1>5, NoRequestType, AuthAssumption
<1> QED
  BY <1>6, <1>7, <1>8, <1>9, <1>10, <1>11, <1>12 DEF AuthInv

LEMMA AuthUnchanged ==
  ASSUME AuthInv, UNCHANGED authVars
  PROVE  AuthInv'
<1>1. /\ serverVars' = serverVars /\ cookie' = cookie /\ http' = http /\ signedOut' = signedOut
      /\ moves' = moves /\ tab' = tab
  BY DEF authVars, browserVars
<1>2. tab \in [Tabs -> TabState] /\ moves \in 0 .. MaxMoves
  BY AuthTypes DEF AuthInv
<1> QED
  BY <1>1, <1>2, QueueStays

LEMMA AuthStep == AuthInv /\ [Next]_vars => AuthInv'
<1> SUFFICES ASSUME AuthInv, [Next]_vars PROVE AuthInv'
  OBVIOUS
<1>1. ASSUME NEW i \in Slots, RegisterAndProvision(i) \/ ServerStep(i) PROVE AuthInv'
  BY <1>1, RegisterStep, ServerStepPreserves DEF RegisterAndProvision
<1>2. ASSUME NEW j \in Jobs, Rescue(j) PROVE AuthInv'
  BY <1>2, RescueKeepsAuth
<1>3. ASSUME NEW t \in Tabs, TabStep(t) \/ SendRescue(t) PROVE AuthInv'
  BY <1>3, SendStep, ReceiveStep, GiveUpStep, ApiRefusedStep, ApiClientSteps DEF TabStep
<1>4. ASSUME NEW t \in Tabs, UserStep(t) PROVE AuthInv'
  BY <1>4, SignInStep, SignOutStep, ReloadStep, ApiClientSteps DEF UserStep, SigningInOps
<1>5. ASSUME UNCHANGED authVars PROVE AuthInv'
  BY <1>5, AuthUnchanged
<1>6. CASE UNCHANGED vars
  BY <1>5, <1>6 DEF vars
<1>7. CASE Next
  BY <1>1, <1>2, <1>3, <1>4, <1>5, <1>7 DEF Next, ApiStep, BrowserStep
<1> QED
  BY <1>6, <1>7

(* The sessions, the cookie, the requests and the tabs stay as AuthInv     *)
(* says: the row lock of a refresh, the one request of a tab and the       *)
(* tokens that a logout leaves dead (email-auth.service.ts,                *)
(* auth-provider.tsx, auth-mutation-queue.ts).                             *)
THEOREM AuthInductive == Spec => []AuthInv
BY AuthStarts, AuthStep, PTL DEF Spec, Init

(* The variables of signing in have their types, for every number of tabs, *)
(* users, sessions and requests.                                           *)
THEOREM AuthTypeCorrect == Spec => []AuthTypeOK
<1>1. AuthInv => AuthTypeOK
  BY DEF AuthInv
<1> QED
  BY <1>1, AuthInductive, PTL

(* A refresh token is exchanged at most once, whatever tabs, retries and   *)
(* abandoned requests present it (refresh: FOR UPDATE and the jti check).  *)
THEOREM ExchangedOnceCorrect == Spec => []TokensExchangedOnce
<1>1. AuthInv => TokensExchangedOnce
  BY DEF AuthInv
<1> QED
  BY <1>1, AuthInductive, PTL

(* A tab that heard its logout end the last session stays signed out until *)
(* somebody signs in (logout, the generations of AuthProvider).            *)
THEOREM SignedOutCorrect == Spec => []SignedOutStaysOut
<1>1. AuthInv => SignedOutStaysOut
  BY DEF AuthInv
<1> QED
  BY <1>1, AuthInductive, PTL

(* An API request that waits for a new access token has a refresh queued   *)
(* or under way in its tab (refreshInFlight, AuthMutationQueue).           *)
THEOREM WaitersCorrect == Spec => []WaitersAreServed
<1>1. AuthInv => WaitersAreServed
  BY DEF AuthInv
<1> QED
  BY <1>1, AuthInductive, PTL
=============================================================================
