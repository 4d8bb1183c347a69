--------------------------- MODULE PlatformProofs ---------------------------
(***************************************************************************)
(* Accounts and their sessions, administrators, and the deletion of a      *)
(* company, for any number of users, administrators, requests and calls.   *)
(***************************************************************************)
EXTENDS Platform, DataLemmas, FiniteSetTheorems, TLAPS

---------------------------------------------------------------------------
(* The types of the accounts' rows, and of what a request knows of them.   *)

ServingState ==
  [does : {"nothing", "login", "refresh", "call", "reset", "granted"},
   grants : {"nothing", "login", "refresh", "call"},
   endpoint : Served \cup {NoEndpoint}, subject : Users \cup {"nobody"}, item : Nat,
   right : BOOLEAN, failed : Nat, lock : Lock, attempts : Nat, epoch : Nat, stamp : Nat,
   overtaken : BOOLEAN]

RowsTyped ==
  /\ scenario \in Scenarios
  /\ account \in [Users -> Account]
  /\ overrides \in [Users -> [Grantable -> {"none", "grant", "revoke"}]]
  /\ company \in {"absent", "active", "pending", "suspended"}
  /\ settings \in [maintenance : BOOLEAN, approval : BOOLEAN]
  /\ sessions \in Seq(Pair)
  /\ codes \in Seq(Code)
  /\ now \in Nat /\ changedAt \in [Users -> Nat]
  /\ resets \in [Users -> Nat]
  /\ wrong \in [Users -> Nat]
  /\ racedAccounts \subseteq Users

\* Without a company nobody is known but administrators.
Employed == company = "absent" => \A u \in Users : Known(u) => Admin(u)

\* A request that has begun is about a user, and about a pair or a code of that user.
Named(q) ==
  /\ q.does = "nothing" => q = NotServing
  /\ q.does # "nothing" => q.subject \in Users
  /\ q.does \in {"refresh", "call"} \/ q.grants \in {"refresh", "call"} =>
       q.item \in DOMAIN sessions /\ sessions[q.item].user = q.subject
  /\ q.does = "reset" => q.item \in DOMAIN codes /\ codes[q.item].user = q.subject
  /\ q.does = "granted" <=> q.grants # "nothing"

RequestsTyped ==
  /\ serving \in [Requests -> ServingState]
  /\ \A r \in Requests : Named(serving[r])

\* Pairs and codes are never removed, and keep their user.
RowsStay ==
  /\ DOMAIN sessions \subseteq DOMAIN sessions'
  /\ \A i \in DOMAIN sessions : sessions'[i].user = sessions[i].user
  /\ DOMAIN codes \subseteq DOMAIN codes'
  /\ \A k \in DOMAIN codes : codes'[k].user = codes[k].user

\* What r becomes; the others may have been overtaken.
Moves(r, q) ==
  /\ serving' \in [Requests -> ServingState]
  /\ serving'[r] = q
  /\ \A x \in Requests \ {r} :
       \/ serving'[x] = serving[x]
       \/ /\ serving[x].does \in {"login", "reset"}
          /\ serving'[x] = [serving[x] EXCEPT !.overtaken = TRUE]

LEMMA NotServingTyped ==
  /\ NotServing \in ServingState
  /\ NotServing.does = "nothing" /\ NotServing.grants = "nothing" /\ NotServing.item = 0
BY DEF NotServing, ServingState, Lock

LEMMA OvertakenSame ==
  ASSUME NEW q \in ServingState
  PROVE  LET p == [q EXCEPT !.overtaken = TRUE]
         IN /\ p \in ServingState
            /\ p.does = q.does /\ p.grants = q.grants /\ p.subject = q.subject
            /\ p.item = q.item /\ p.right = q.right /\ p.failed = q.failed
            /\ p.lock = q.lock /\ p.attempts = q.attempts /\ p.epoch = q.epoch
            /\ p.stamp = q.stamp /\ p.endpoint = q.endpoint /\ p.overtaken
BY DEF ServingState

LEMMA AloneMoves ==
  ASSUME serving \in [Requests -> ServingState], NEW r \in Requests, NEW q \in ServingState,
         serving' = [serving EXCEPT ![r] = q]
  PROVE  Moves(r, q)
BY DEF Moves

LEMMA OvertakingMoves ==
  ASSUME serving \in [Requests -> ServingState], NEW r \in Requests, NEW q \in ServingState,
         serving' = Overtaking(r, q)
  PROVE  Moves(r, q)
<1>1. \A x \in Requests : serving'[x] = IF x = r THEN q
        ELSE IF /\ serving[x].does \in {"login", "reset"}
                /\ serving[x].subject = serving[r].subject
             THEN [serving[x] EXCEPT !.overtaken = TRUE] ELSE serving[x]
  BY DEF Overtaking
<1>2. ASSUME NEW x \in Requests PROVE serving'[x] \in ServingState
  <2>1. PICK p \in ServingState : p = serving[x]
    OBVIOUS
  <2>2. [p EXCEPT !.overtaken = TRUE] \in ServingState
    BY OvertakenSame
  <2> QED BY <1>1, <2>1, <2>2
<1>3. serving' \in [Requests -> ServingState]
  BY <1>2 DEF Overtaking
<1> QED BY <1>1, <1>3 DEF Moves

\* The others are about what they were about.
LEMMA NamedStay ==
  ASSUME RequestsTyped, NEW r \in Requests, NEW q, Moves(r, q), RowsStay, Named(q)'
  PROVE  RequestsTyped'
<1> SUFFICES ASSUME NEW x \in Requests PROVE Named(serving[x])'
  BY DEF Moves, RequestsTyped
<1>1. CASE x = r
  BY <1>1 DEF Moves
<1>2. CASE x # r
  <2>1. PICK p \in ServingState : p = serving[x] /\ Named(p)
    BY DEF RequestsTyped
  <2>2. CASE serving'[x] = p
    BY <2>1, <2>2 DEF Named, RowsStay
  <2>3. CASE p.does \in {"login", "reset"} /\ serving'[x] = [p EXCEPT !.overtaken = TRUE]
    <3>1. PICK o : o = [p EXCEPT !.overtaken = TRUE]
      OBVIOUS
    <3>2. /\ o.does = p.does /\ o.grants = p.grants /\ o.subject = p.subject
          /\ o.item = p.item
      BY <3>1, OvertakenSame
    <3> QED BY <2>1, <2>3, <3>1, <3>2 DEF Named, RowsStay
  <2> QED BY <1>2, <2>1, <2>2, <2>3 DEF Moves
<1> QED BY <1>1, <1>2


\* The two columns a login and a reset write.
Wrote(u, failed, lock) ==
  /\ account' \in [Users -> Account]
  /\ \A v \in Users :
       /\ account'[v].kind = account[v].kind
       /\ account'[v].gone <=> account[v].gone
       /\ account'[v].active <=> account[v].active
       /\ account'[v].failed = IF v = u THEN failed ELSE account[v].failed
       /\ account'[v].lock = IF v = u THEN lock ELSE account[v].lock

LEMMA RowWritten ==
  ASSUME RowsTyped, NEW u \in Users, NEW new \in Account,
         new.kind = account[u].kind, new.gone <=> account[u].gone,
         new.active <=> account[u].active,
         account' = [account EXCEPT ![u] = new]
  PROVE  Wrote(u, new.failed, new.lock)
<1>1. account \in [Users -> Account]
  BY DEF RowsTyped
<1>2. account' \in [Users -> Account]
  BY <1>1
<1>3. \A v \in Users : account'[v] = IF v = u THEN new ELSE account[v]
  BY <1>1
<1>4. ASSUME NEW v \in Users
      PROVE  /\ account'[v].kind = account[v].kind
             /\ account'[v].gone <=> account[v].gone
             /\ account'[v].active <=> account[v].active
             /\ account'[v].failed = IF v = u THEN new.failed ELSE account[v].failed
             /\ account'[v].lock = IF v = u THEN new.lock ELSE account[v].lock
  <2>1. CASE v = u
    BY <1>3, <2>1
  <2>2. CASE v # u
    BY <1>3, <2>2
  <2> QED BY <2>1, <2>2
<1> QED BY <1>2, <1>4 DEF Wrote

LEMMA FailureWritten ==
  ASSUME RowsTyped, NEW r \in Requests, serving[r].subject \in Users, serving[r].failed \in Nat,
         FailLogin(r)
  PROVE  Wrote(serving[r].subject, serving[r].failed + 1,
               IF LockAfter(serving[r].failed + 1) THEN "running" ELSE account[serving[r].subject].lock)
<1>1. PICK u \in Users : u = serving[r].subject
  OBVIOUS
<1>2. PICK failed \in Nat : failed = serving[r].failed + 1
  OBVIOUS
<1>3. PICK lock \in Lock : lock = IF LockAfter(failed) THEN "running" ELSE account[u].lock
  <2>1. account[u].lock \in Lock
    BY DEF RowsTyped, Account
  <2> QED BY <2>1 DEF Lock, LockAfter
<1>4. account' = [account EXCEPT ![u].failed = failed, ![u].lock = lock, ![u].logged = TRUE]
  BY <1>1, <1>2, <1>3 DEF FailLogin, RowsTyped, Account
<1>5. PICK row \in Account : row = account[u]
  BY DEF RowsTyped
<1>6. PICK new : new = [row EXCEPT !.failed = failed, !.lock = lock, !.logged = TRUE]
  OBVIOUS
<1>7. account' = [account EXCEPT ![u] = new]
  BY <1>4, <1>5, <1>6 DEF RowsTyped
<1>8. /\ new \in Account
      /\ new.kind = row.kind /\ new.failed = failed /\ new.lock = lock
  BY <1>6 DEF Account
<1>9. (new.gone <=> row.gone) /\ (new.active <=> row.active)
  BY <1>6 DEF Account
<1>10. Wrote(u, failed, lock)
  BY <1>5, <1>7, <1>8, <1>9, RowWritten
<1> QED BY <1>1, <1>2, <1>3, <1>10

LEMMA ClearanceWritten ==
  ASSUME RowsTyped, NEW u \in Users, NEW f \in Nat, NEW l \in Lock,
         account' = [account EXCEPT ![u].failed = Write(f, 0, @), ![u].lock = Write(l, "none", @)]
  PROVE  Wrote(u, Write(f, 0, account[u].failed), Write(l, "none", account[u].lock))
<1>1. PICK row \in Account : row = account[u]
  BY DEF RowsTyped
<1>2. PICK failed \in Nat : failed = Write(f, 0, row.failed)
  BY DEF Write, Account
<1>3. PICK lock \in Lock : lock = Write(l, "none", row.lock)
  BY DEF Write, Account, Lock
<1>4. account' = [account EXCEPT ![u].failed = failed, ![u].lock = lock]
  BY <1>1, <1>2, <1>3 DEF RowsTyped, Account
<1>5. PICK new : new = [row EXCEPT !.failed = failed, !.lock = lock]
  OBVIOUS
<1>6. account' = [account EXCEPT ![u] = new]
  BY <1>1, <1>4, <1>5 DEF RowsTyped
<1>7. /\ new \in Account
      /\ new.kind = row.kind /\ new.failed = failed /\ new.lock = lock
  BY <1>5 DEF Account
<1>8. (new.gone <=> row.gone) /\ (new.active <=> row.active)
  BY <1>5 DEF Account
<1>9. Wrote(u, failed, lock)
  BY <1>1, <1>6, <1>7, <1>8, RowWritten
<1> QED BY <1>1, <1>2, <1>3, <1>9

\* A pair of tokens is issued.
LEMMA PairIssued ==
  ASSUME RowsTyped, NEW u \in Users, NEW epoch \in Nat, NEW raced \in BOOLEAN,
         sessions' = Append(sessions, NewPair(u, epoch, raced))
  PROVE  /\ sessions' \in Seq(Pair)
         /\ DOMAIN sessions' = DOMAIN sessions \cup {Len(sessions) + 1}
         /\ Len(sessions) + 1 \notin DOMAIN sessions /\ Len(sessions) \in Nat
         /\ \A i \in DOMAIN sessions : sessions'[i] = sessions[i]
         /\ sessions'[Len(sessions) + 1] = NewPair(u, epoch, raced)
<1>1. NewPair(u, epoch, raced) \in Pair
  BY DEF NewPair, Pair, TokenState, RowsTyped
<1>2. PICK s \in Seq(Pair) : s = sessions
  BY DEF RowsTyped
<1>3. PICK p \in Pair : p = NewPair(u, epoch, raced)
  BY <1>1
<1> QED BY <1>2, <1>3, SequenceAppended

---------------------------------------------------------------------------
(* What a step does to the rows.                                           *)

\* The pairs and codes of others stay; whoever answers for pairs and codes says so.
LEMMA RowsAreKept == sessions' = sessions /\ codes' = codes => RowsStay
BY DEF RowsStay

\* A request reads, is refused, or is answered.
Reading(r) ==
  \/ \E u \in Users, right \in BOOLEAN : StartLogin(r, u, right) \/ StartReset(r, u, right)
  \/ \E i \in DOMAIN sessions : StartRefresh(r, i) \/ StartCall(r, i)
  \/ ReadUser(r)
  \/ \E e \in scenario.asked : Serve(r, e)
  \/ Abort(r)
  \/ Answer(r)

\* A request writes.
Committing(r) ==
  \/ FailLogin(r) \/ FinishLogin(r) \/ FinishRefresh(r) \/ FailReset(r) \/ FinishReset(r)
  \/ \E brought \in SUBSET DOMAIN sessions : Logout(r, brought)

LEMMA HandlingIs == ASSUME NEW r, Handling(r) PROVE Reading(r) \/ Committing(r)
BY DEF Handling, Reading, Committing

LEMMA ReadingIs ==
  ASSUME NEW r, Reading(r)
  PROVE  UNCHANGED <<account, overrides, company, settings, sessions, codes, now, changedAt, changes,
                     resets, wrong, racedAccounts>>
BY DEF Reading, StartLogin, StartReset, StartRefresh, StartCall, StartWithToken, ReadUser, Serve,
       Abort, Answer

\* What a reading request becomes.
LEMMA ReadingMoves ==
  ASSUME RowsTyped, RequestsTyped, NEW r \in Requests, Reading(r)
  PROVE  \E q \in ServingState : serving' = [serving EXCEPT ![r] = q] /\ Named(q)
<1>1. PICK p \in ServingState : p = serving[r] /\ Named(p)
  BY DEF RequestsTyped
<1>2. CASE \E u \in Users, right \in BOOLEAN : StartLogin(r, u, right)
  <2>1. PICK u \in Users, right \in BOOLEAN : StartLogin(r, u, right)
    BY <1>2
  <2>2. PICK row \in Account : row = account[u]
    BY DEF RowsTyped
  <2>3. PICK epoch \in Nat : epoch = resets[u]
    BY DEF RowsTyped
  <2> DEFINE q == [NotServing EXCEPT !.does = "login", !.subject = u, !.right = right,
                          !.failed = row.failed, !.lock = row.lock, !.epoch = epoch]
  <2>4. serving' = [serving EXCEPT ![r] = q]
    BY <2>1, <2>2, <2>3 DEF StartLogin
  <2>5. q \in ServingState
    BY <2>2, NotServingTyped DEF ServingState, Account
  <2>6. Named(q)
    BY NotServingTyped DEF Named, NotServing
  <2> QED BY <2>4, <2>5, <2>6
<1>3. CASE \E u \in Users, right \in BOOLEAN : StartReset(r, u, right)
  <2>1. PICK u \in Users, right \in BOOLEAN : StartReset(r, u, right)
    BY <1>3
  <2>2. PICK row \in Account : row = account[u]
    BY DEF RowsTyped
  <2>3. PICK k \in Unused(u) : serving' = [serving EXCEPT ![r] =
            [NotServing EXCEPT !.does = "reset", !.subject = u, !.item = k, !.right = right,
                               !.failed = account[u].failed, !.lock = account[u].lock,
                               !.attempts = codes[k].attempts,
                               !.stamp = IF right THEN now ELSE 0]]
    BY <2>1 DEF StartReset
  <2>4. k \in DOMAIN codes /\ codes[k].user = u /\ k \in Nat
    BY DEF Unused, RowsTyped
  <2>5. PICK tries \in Nat : tries = codes[k].attempts
    <3>1. codes[k] \in Code
      BY <2>4 DEF RowsTyped
    <3> QED BY <3>1 DEF Code
  <2>9. PICK stamp \in Nat : stamp = IF right THEN now ELSE 0
    BY DEF RowsTyped
  <2> DEFINE q == [NotServing EXCEPT !.does = "reset", !.subject = u, !.item = k, !.right = right,
                          !.failed = row.failed, !.lock = row.lock, !.attempts = tries,
                          !.stamp = stamp]
  <2>6. serving' = [serving EXCEPT ![r] = q]
    <3>1. account[u].failed = row.failed /\ account[u].lock = row.lock /\ codes[k].attempts = tries
      BY <2>2, <2>5
    <3> QED BY <2>3, <2>9, <3>1, Zenon
  <2>7. q \in ServingState
    <3>1. row.failed \in Nat /\ row.lock \in Lock
      BY DEF Account
    <3>2. k \in Nat
      BY <2>4
    <3> QED BY <3>1, <3>2, NotServingTyped DEF ServingState
  <2>8. Named(q)
    BY <2>4, NotServingTyped DEF Named, NotServing
  <2> QED BY <2>6, <2>7, <2>8
<1>4. CASE \E i \in DOMAIN sessions : StartRefresh(r, i) \/ StartCall(r, i)
  <2>1. PICK i \in DOMAIN sessions, does \in {"refresh", "call"} : StartWithToken(r, does, i)
    BY <1>4 DEF StartRefresh, StartCall
  <2>2. i \in Nat /\ sessions[i] \in Pair
    BY DEF RowsTyped
  <2>3. PICK u \in Users : u = sessions[i].user
    BY <2>2 DEF Pair
  <2> DEFINE q == [NotServing EXCEPT !.does = does, !.subject = u, !.item = i]
  <2>4. serving' = [serving EXCEPT ![r] = q]
    BY <2>1, <2>3 DEF StartWithToken
  <2>5. q \in ServingState
    BY <2>2, NotServingTyped DEF ServingState
  <2>6. Named(q)
    BY <2>3, NotServingTyped DEF Named, NotServing
  <2> QED BY <2>4, <2>5, <2>6
<1>5. CASE ReadUser(r)
  <2> DEFINE q == [p EXCEPT !.right = TRUE]
  <2>1. serving' = [serving EXCEPT ![r] = q]
    BY <1>1, <1>5 DEF ReadUser, RequestsTyped
  <2>2. q \in ServingState
    BY DEF ServingState
  <2>3. Named(q)
    BY <1>1, <1>5 DEF Named, ServingState, ReadUser
  <2> QED BY <2>1, <2>2, <2>3
<1>6. CASE \E e \in scenario.asked : Serve(r, e)
  <2>1. PICK e \in scenario.asked : Serve(r, e)
    BY <1>6
  <2>2. e \in Served
    <3>1. scenario \in Scenario
      BY SessionsAssumption DEF RowsTyped
    <3> QED BY <3>1 DEF Scenario
  <2> DEFINE q == [p EXCEPT !.does = "granted", !.grants = "call", !.endpoint = e]
  <2>3. p.does = "call"
    BY <1>1, <2>1 DEF Serve
  <2>4. serving' = [serving EXCEPT ![r] = q]
    BY <1>1, <2>1, <2>3 DEF Serve, Granted, RequestsTyped
  <2>5. q \in ServingState
    BY <2>2 DEF ServingState
  <2>6. Named(q)
    BY <1>1, <2>3 DEF Named, ServingState
  <2> QED BY <2>4, <2>5, <2>6
<1>7. CASE Abort(r) \/ Answer(r)
  <2>1. serving' = [serving EXCEPT ![r] = NotServing]
    BY <1>7 DEF Abort, Answer
  <2>2. Named(NotServing)
    BY NotServingTyped DEF Named
  <2> QED BY <2>1, <2>2, NotServingTyped
<1> QED BY <1>2, <1>3, <1>4, <1>5, <1>6, <1>7 DEF Reading

\* A granted request stays about its user and its pair.
LEMMA GrantedNamed ==
  ASSUME NEW r \in Requests, RequestsTyped, serving[r].does \in {"login", "refresh"}
  PROVE  /\ Granted(r) \in ServingState /\ Named(Granted(r))
         /\ Granted(r).does = "granted" /\ Granted(r).grants = serving[r].does
         /\ Granted(r).subject = serving[r].subject /\ Granted(r).item = serving[r].item
<1>1. PICK p \in ServingState : p = serving[r] /\ Named(p)
  BY DEF RequestsTyped
<1>2. PICK q : q = [p EXCEPT !.does = "granted", !.grants = p.does]
  OBVIOUS
<1>3. /\ q \in ServingState /\ q.does = "granted" /\ q.grants = p.does
      /\ q.subject = p.subject /\ q.item = p.item
  BY <1>1, <1>2 DEF ServingState
<1>4. Named(q)
  BY <1>1, <1>3 DEF Named
<1> QED BY <1>1, <1>2, <1>3, <1>4 DEF Granted

\* The code of a reset is answered: one row of codes changes.
LEMMA CodeAnswered ==
  ASSUME RowsTyped, NEW k \in DOMAIN codes, NEW new \in Code, new.user = codes[k].user,
         codes' = [codes EXCEPT ![k] = new], DOMAIN sessions' = DOMAIN sessions,
         \A i \in DOMAIN sessions : sessions'[i].user = sessions[i].user
  PROVE  /\ codes' \in Seq(Code) /\ DOMAIN codes' = DOMAIN codes
         /\ \A j \in DOMAIN codes : codes'[j] = IF j = k THEN new ELSE codes[j]
         /\ RowsStay
<1>1. codes \in Seq(Code)
  BY DEF RowsTyped
<1>2. codes' \in Seq(Code) /\ DOMAIN codes' = DOMAIN codes
  BY <1>1
<1>3. \A j \in DOMAIN codes : codes'[j] = IF j = k THEN new ELSE codes[j]
  BY <1>1
<1>4. RowsStay
  BY <1>2, <1>3 DEF RowsStay
<1> QED BY <1>2, <1>3, <1>4

LEMMA CodeFailed ==
  ASSUME RowsTyped, RequestsTyped, NEW r \in Requests, FailReset(r)
  PROVE  LET q == serving[r]
             k == q.item
         IN /\ k \in DOMAIN codes /\ codes[k].user = q.subject
            /\ codes' \in Seq(Code) /\ DOMAIN codes' = DOMAIN codes
            /\ \A j \in DOMAIN codes : j # k => codes'[j] = codes[j]
            /\ codes'[k].user = codes[k].user /\ codes'[k].used = codes[k].used
            /\ codes'[k].attempts = q.attempts + 1 /\ codes'[k].tried = codes[k].tried + 1
            /\ codes'[k].uses = codes[k].uses
            /\ RowsStay
<1>1. PICK q \in ServingState : q = serving[r] /\ Named(q)
  BY DEF RequestsTyped
<1>2. PICK k \in DOMAIN codes : k = q.item /\ codes[k].user = q.subject
  BY <1>1 DEF FailReset, Named
<1>3. PICK c \in Code : c = codes[k]
  BY DEF RowsTyped
<1>4. PICK tries \in Nat : tries = q.attempts + 1
  BY DEF ServingState
<1>5. PICK tried \in Nat : tried = c.tried + 1
  BY DEF Code
<1>6. PICK new : new = [c EXCEPT !.attempts = tries, !.tried = tried]
  OBVIOUS
<1>7. /\ new \in Code /\ new.user = c.user /\ new.used = c.used /\ new.attempts = tries
      /\ new.tried = tried /\ new.uses = c.uses
  BY <1>6 DEF Code
<1>8. codes' = [codes EXCEPT ![k] = new]
  <2>1. codes' = [codes EXCEPT ![k].attempts = tries, ![k].tried = @ + 1]
    BY <1>1, <1>2, <1>4 DEF FailReset
  <2> QED BY <1>3, <1>5, <1>6, <2>1 DEF RowsTyped, Code
<1>9. sessions' = sessions
  BY DEF FailReset
<1>10. /\ codes' \in Seq(Code) /\ DOMAIN codes' = DOMAIN codes
       /\ \A j \in DOMAIN codes : codes'[j] = IF j = k THEN new ELSE codes[j]
       /\ RowsStay
  BY <1>3, <1>7, <1>8, <1>9, CodeAnswered
<1> QED BY <1>1, <1>2, <1>3, <1>4, <1>5, <1>7, <1>10

\* A pair whose tokens may have been revoked is of the same user, time and history.
SamePair(t, s) ==
  /\ t.user = s.user /\ t.iat = s.iat /\ t.epoch = s.epoch
  /\ t.raced <=> s.raced

LEMMA LogoutTyped ==
  ASSUME RowsTyped, NEW r, NEW brought, Logout(r, brought)
  PROVE  /\ sessions' \in Seq(Pair) /\ DOMAIN sessions' = DOMAIN sessions
         /\ \A i \in DOMAIN sessions : SamePair(sessions'[i], sessions[i])
<1>1. sessions \in Seq(Pair)
  BY DEF RowsTyped
<1>2. PICK item : item = serving[r].item
  OBVIOUS
<1>3. sessions' = [i \in DOMAIN sessions |->
        [sessions[i] EXCEPT !.access = IF i = item THEN "revoked" ELSE @,
                            !.refresh = IF i \in brought THEN "revoked" ELSE @]]
  BY <1>2, Zenon DEF Logout
<1>4. ASSUME NEW i \in DOMAIN sessions
      PROVE  sessions'[i] \in Pair /\ SamePair(sessions'[i], sessions[i])
  <2>1. PICK s \in Pair : s = sessions[i]
    BY <1>1
  <2>2. PICK access, refresh \in TokenState :
          /\ access = IF i = item THEN "revoked" ELSE s.access
          /\ refresh = IF i \in brought THEN "revoked" ELSE s.refresh
    BY DEF Pair, TokenState
  <2>3. PICK t : t = [s EXCEPT !.access = access, !.refresh = refresh]
    OBVIOUS
  <2>4. t \in Pair /\ t.user = s.user /\ t.iat = s.iat /\ t.epoch = s.epoch
    BY <2>3 DEF Pair
  <2>5. t.raced <=> s.raced
    BY <2>3 DEF Pair
  <2>6. sessions'[i] = t
    BY <1>3, <2>1, <2>2, <2>3 DEF Pair
  <2> QED BY <2>1, <2>4, <2>5, <2>6 DEF SamePair
<1>5. DOMAIN sessions' = DOMAIN sessions /\ sessions' = [i \in DOMAIN sessions' |-> sessions'[i]]
  BY <1>3
<1>6. sessions' \in Seq(Pair)
  <2>1. PICK t : t = sessions'
    OBVIOUS
  <2>2. DOMAIN t = DOMAIN sessions /\ t = [i \in DOMAIN t |-> t[i]] /\ \A i \in DOMAIN sessions : t[i] \in Pair
    BY <1>4, <1>5, <2>1
  <2>3. t \in Seq(Pair)
    BY <1>1, <2>2, SequenceRewritten
  <2> QED BY <2>1, <2>3
<1> QED BY <1>4, <1>5, <1>6

LEMMA CodeUsed ==
  ASSUME RowsTyped, RequestsTyped, NEW r \in Requests, FinishReset(r)
  PROVE  LET q == serving[r]
             k == q.item
         IN /\ k \in DOMAIN codes /\ codes[k].user = q.subject
            /\ codes' \in Seq(Code) /\ DOMAIN codes' = DOMAIN codes
            /\ \A j \in DOMAIN codes : j # k => codes'[j] = codes[j]
            /\ codes'[k].user = codes[k].user /\ codes'[k].used
            /\ codes'[k].attempts = codes[k].attempts /\ codes'[k].tried = codes[k].tried
            /\ codes'[k].uses = codes[k].uses + 1
            /\ RowsStay
<1>1. PICK q \in ServingState : q = serving[r] /\ Named(q)
  BY DEF RequestsTyped
<1>2. PICK k \in DOMAIN codes : k = q.item /\ codes[k].user = q.subject
  BY <1>1 DEF FinishReset, Named
<1>3. PICK c \in Code : c = codes[k]
  BY DEF RowsTyped
<1>4. PICK uses \in Nat : uses = c.uses + 1
  BY DEF Code
<1>5. PICK new : new = [c EXCEPT !.used = TRUE, !.uses = uses]
  OBVIOUS
<1>6. /\ new \in Code /\ new.user = c.user /\ new.attempts = c.attempts
      /\ new.tried = c.tried /\ new.uses = uses
  BY <1>5 DEF Code
<1>7. new.used
  BY <1>5 DEF Code
<1>8. codes' = [codes EXCEPT ![k] = new]
  <2>1. codes' = [codes EXCEPT ![k].used = TRUE, ![k].uses = @ + 1]
    BY <1>1, <1>2 DEF FinishReset
  <2> QED BY <1>3, <1>4, <1>5, <2>1 DEF RowsTyped, Code
<1>9. DOMAIN sessions' = DOMAIN sessions /\ \A i \in DOMAIN sessions : sessions'[i].user = sessions[i].user
  BY DEF FinishReset
<1>10. /\ codes' \in Seq(Code) /\ DOMAIN codes' = DOMAIN codes
       /\ \A j \in DOMAIN codes : codes'[j] = IF j = k THEN new ELSE codes[j]
       /\ RowsStay
  BY <1>3, <1>6, <1>8, <1>9, CodeAnswered
<1> QED BY <1>1, <1>2, <1>3, <1>4, <1>6, <1>7, <1>10

---------------------------------------------------------------------------
(* Every step keeps the types.                                             *)

LEMMA LoginFailed ==
  ASSUME RowsTyped, RequestsTyped, scenario' = scenario,
         NEW r \in Requests, FailLogin(r)
  PROVE  RowsTyped' /\ RowsStay /\ Moves(r, NotServing)
<1>1. PICK q \in ServingState : q = serving[r] /\ Named(q)
  BY DEF RequestsTyped
<1>2. PICK u \in Users : u = q.subject
  BY <1>1 DEF FailLogin, Named
<1>3. q.failed \in Nat
  BY DEF ServingState
<1>4. account' \in [Users -> Account]
  BY <1>1, <1>2, <1>3, FailureWritten DEF Wrote
<1>5. wrong' \in [Users -> Nat] /\ racedAccounts' \subseteq Users
  BY <1>1, <1>2 DEF FailLogin, RowsTyped
<1>6. UNCHANGED <<overrides, company, settings, sessions, codes, now, changedAt, resets>>
  BY DEF FailLogin
<1>7. Moves(r, NotServing)
  BY OvertakingMoves, NotServingTyped DEF FailLogin, RequestsTyped
<1>8. RowsTyped'
  BY <1>4, <1>5, <1>6 DEF RowsTyped
<1> QED BY <1>6, <1>7, <1>8, RowsAreKept

LEMMA LoginFinished ==
  ASSUME RowsTyped, RequestsTyped, scenario' = scenario,
         NEW r \in Requests, FinishLogin(r)
  PROVE  RowsTyped' /\ RowsStay /\ Moves(r, Granted(r)) /\ Named(Granted(r))
<1>1. PICK q \in ServingState : q = serving[r] /\ Named(q)
  BY DEF RequestsTyped
<1>2. PICK u \in Users : u = q.subject
  BY <1>1 DEF FinishLogin, Named
<1>3. q.failed \in Nat /\ q.lock \in Lock /\ q.epoch \in Nat
  BY DEF ServingState
<1>4. account' \in [Users -> Account]
  BY <1>1, <1>2, <1>3, ClearanceWritten DEF FinishLogin, Wrote
<1>5. wrong' \in [Users -> Nat] /\ racedAccounts' \subseteq Users
  BY <1>1, <1>2 DEF FinishLogin, RowsTyped
<1>6. UNCHANGED <<overrides, company, settings, codes, now, changedAt, resets>>
  BY DEF FinishLogin
<1>7. sessions' = Append(sessions, NewPair(u, q.epoch, FALSE))
  BY <1>1, <1>2 DEF FinishLogin
<1>8. sessions' \in Seq(Pair) /\ RowsStay
  BY <1>3, <1>6, <1>7, PairIssued DEF RowsStay
<1>9. Granted(r) \in ServingState /\ Named(Granted(r))
  BY <1>1, GrantedNamed DEF FinishLogin
<1>10. Moves(r, Granted(r))
  BY <1>9, OvertakingMoves DEF FinishLogin, RequestsTyped
<1>11. RowsTyped'
  BY <1>4, <1>5, <1>6, <1>8 DEF RowsTyped
<1> QED BY <1>8, <1>9, <1>10, <1>11

LEMMA RefreshFinished ==
  ASSUME RowsTyped, RequestsTyped, scenario' = scenario,
         NEW r \in Requests, FinishRefresh(r)
  PROVE  RowsTyped' /\ RowsStay /\ Moves(r, Granted(r)) /\ Named(Granted(r))
<1>1. PICK q \in ServingState : q = serving[r] /\ Named(q)
  BY DEF RequestsTyped
<1>2. PICK u \in Users : u = q.subject
  BY <1>1 DEF FinishRefresh, Named
<1>3. PICK s \in Pair : s = sessions[q.item]
  <2>1. q.item \in DOMAIN sessions
    BY <1>1 DEF FinishRefresh, Named
  <2> QED BY <2>1 DEF RowsTyped
<1>4. s.epoch \in Nat /\ s.raced \in BOOLEAN
  BY DEF Pair
<1>5. UNCHANGED <<account, overrides, company, settings, codes, now, changedAt, resets, wrong, racedAccounts>>
  BY DEF FinishRefresh
<1>6. sessions' = Append(sessions, NewPair(u, s.epoch, s.raced))
  BY <1>1, <1>2, <1>3 DEF FinishRefresh
<1>7. sessions' \in Seq(Pair) /\ RowsStay
  BY <1>4, <1>5, <1>6, PairIssued DEF RowsStay
<1>8. Granted(r) \in ServingState /\ Named(Granted(r))
  BY <1>1, GrantedNamed DEF FinishRefresh
<1>9. Moves(r, Granted(r))
  BY <1>8, AloneMoves DEF FinishRefresh, RequestsTyped
<1>10. RowsTyped'
  BY <1>5, <1>7 DEF RowsTyped
<1> QED BY <1>7, <1>8, <1>9, <1>10

LEMMA ResetFailed ==
  ASSUME RowsTyped, RequestsTyped, scenario' = scenario,
         NEW r \in Requests, FailReset(r)
  PROVE  RowsTyped' /\ RowsStay /\ Moves(r, NotServing)
<1>1. PICK q \in ServingState : q = serving[r] /\ Named(q)
  BY DEF RequestsTyped
<1>2. PICK u \in Users : u = q.subject
  BY <1>1 DEF FailReset, Named
<1>3. racedAccounts' \subseteq Users
  BY <1>1, <1>2 DEF FailReset, RowsTyped
<1>4. UNCHANGED <<account, overrides, company, settings, sessions, now, changedAt, resets, wrong>>
  BY DEF FailReset
<1>5. codes' \in Seq(Code) /\ RowsStay
  BY CodeFailed
<1>6. Moves(r, NotServing)
  BY OvertakingMoves, NotServingTyped DEF FailReset, RequestsTyped
<1>7. RowsTyped'
  BY <1>3, <1>4, <1>5 DEF RowsTyped
<1> QED BY <1>5, <1>6, <1>7

LEMMA ResetFinished ==
  ASSUME RowsTyped, RequestsTyped, scenario' = scenario,
         NEW r \in Requests, FinishReset(r)
  PROVE  RowsTyped' /\ RowsStay /\ Moves(r, NotServing)
<1>1. PICK q \in ServingState : q = serving[r] /\ Named(q)
  BY DEF RequestsTyped
<1>2. PICK u \in Users : u = q.subject
  BY <1>1 DEF FinishReset, Named
<1>3. q.failed \in Nat /\ q.lock \in Lock
  BY DEF ServingState
<1>4. account' \in [Users -> Account]
  BY <1>1, <1>2, <1>3, ClearanceWritten DEF FinishReset, Wrote
<1>5. /\ wrong' \in [Users -> Nat] /\ resets' \in [Users -> Nat]
      /\ racedAccounts' \subseteq Users
  BY <1>1, <1>2 DEF FinishReset, RowsTyped
<1>6. UNCHANGED <<overrides, company, settings, sessions, now>>
  BY DEF FinishReset
<1>7. changedAt' \in [Users -> Nat]
  <2>1. q.stamp \in Nat /\ changedAt' = [changedAt EXCEPT ![u] = q.stamp]
    BY <1>1, <1>2 DEF ServingState, FinishReset, Outdated
  <2> QED BY <2>1 DEF RowsTyped
<1>8. codes' \in Seq(Code) /\ RowsStay
  BY CodeUsed
<1>9. Moves(r, NotServing)
  BY OvertakingMoves, NotServingTyped DEF FinishReset, RequestsTyped
<1>10. RowsTyped'
  BY <1>4, <1>5, <1>6, <1>7, <1>8 DEF RowsTyped
<1> QED BY <1>8, <1>9, <1>10

LEMMA LogoutFinished ==
  ASSUME RowsTyped, RequestsTyped, scenario' = scenario,
         NEW r \in Requests, NEW brought, Logout(r, brought)
  PROVE  RowsTyped' /\ RowsStay /\ Moves(r, NotServing)
<1>1. UNCHANGED <<account, overrides, company, settings, codes, now, changedAt, resets, wrong,
                  racedAccounts>>
  BY DEF Logout
<1>2. sessions' \in Seq(Pair) /\ RowsStay
  BY <1>1, LogoutTyped DEF RowsStay, SamePair
<1>3. Moves(r, NotServing)
  BY AloneMoves, NotServingTyped DEF Logout, RequestsTyped
<1>4. RowsTyped'
  BY <1>1, <1>2 DEF RowsTyped
<1> QED BY <1>2, <1>3, <1>4

LEMMA HandlingTyped ==
  ASSUME RowsTyped, RequestsTyped, scenario' = scenario, NEW r \in Requests, Handling(r)
  PROVE  /\ RowsTyped' /\ RequestsTyped' /\ RowsStay
         /\ \E q \in ServingState : Moves(r, q) /\ Named(q)'
<1>1. CASE Reading(r)
  <2>1. PICK q \in ServingState : serving' = [serving EXCEPT ![r] = q] /\ Named(q)
    BY <1>1, ReadingMoves
  <2>2. UNCHANGED <<account, overrides, company, settings, sessions, codes, now, changedAt, resets,
                    wrong, racedAccounts>>
    BY <1>1, ReadingIs
  <2>3. RowsTyped' /\ RowsStay
    BY <2>2, RowsAreKept DEF RowsTyped
  <2>4. Moves(r, q) /\ Named(q)'
    BY <2>1, <2>2, AloneMoves DEF RequestsTyped, Named
  <2> QED BY <2>3, <2>4, NamedStay
<1>2. ASSUME RowsTyped', RowsStay, NEW q \in ServingState, Moves(r, q), Named(q)
      PROVE  /\ RowsTyped' /\ RequestsTyped' /\ RowsStay
             /\ \E p \in ServingState : Moves(r, p) /\ Named(p)'
  <2>1. Named(q)'
    BY <1>2 DEF Named, RowsStay
  <2> QED BY <1>2, <2>1, NamedStay
<1>3. NotServing \in ServingState /\ Named(NotServing)
  BY NotServingTyped DEF Named
<1>4. CASE FailLogin(r) \/ FailReset(r) \/ FinishReset(r)
  BY <1>2, <1>3, <1>4, LoginFailed, ResetFailed, ResetFinished
<1>6. CASE \E brought \in SUBSET DOMAIN sessions : Logout(r, brought)
  BY <1>2, <1>3, <1>6, LogoutFinished
<1>5. CASE FinishLogin(r) \/ FinishRefresh(r)
  <2>1. Granted(r) \in ServingState
    BY <1>5, GrantedNamed DEF FinishLogin, FinishRefresh
  <2> QED BY <1>2, <1>5, <2>1, LoginFinished, RefreshFinished
<1> QED BY <1>1, <1>4, <1>5, <1>6, HandlingIs DEF Committing

\* A decision is about the row of one account, the overrides, the company or the settings.
LEMMA DecidingIs ==
  ASSUME Deciding
  PROVE  UNCHANGED <<sessions, codes, now, changedAt, serving, resets, wrong, racedAccounts>>
BY DEF Deciding, SetCompanyStatus, CreateCompany, UpdateSettings, Register, DeleteEmployee,
       DeleteAdmin, DeleteCompany, SetActive, CreateEmployee, UpdatePermissions, Decision

\* A row of users whose failures and lock stay.
Kept(new, row) ==
  /\ new \in Account
  /\ new.failed = row.failed /\ new.lock = row.lock

\* The columns a decision writes.
Decided(new, kind, gone) == new.kind = kind /\ (new.gone <=> gone)

LEMMA RowDecided ==
  ASSUME RowsTyped, NEW u \in Users, NEW new \in Account, Kept(new, account[u]),
         account' = [account EXCEPT ![u] = new]
  PROVE  /\ account' \in [Users -> Account]
         /\ \A v \in Users : Kept(account'[v], account[v])
         /\ \A v \in Users \ {u} : account'[v] = account[v]
         /\ account'[u] = new
<1>1. account \in [Users -> Account]
  BY DEF RowsTyped
<1>2. account' \in [Users -> Account] /\ \A v \in Users : account'[v] = IF v = u THEN new ELSE account[v]
  BY <1>1
<1>3. \A v \in Users : Kept(account'[v], account[v])
  BY <1>1, <1>2 DEF Kept
<1> QED BY <1>2, <1>3

LEMMA KindSet ==
  ASSUME RowsTyped, NEW u \in Users, NEW kind \in {"absent", "owner", "employee", "admin"},
         account' = [account EXCEPT ![u].kind = kind]
  PROVE  /\ account' \in [Users -> Account]
         /\ \A v \in Users : Kept(account'[v], account[v])
<1>1. PICK row \in Account : row = account[u]
  BY DEF RowsTyped
<1>2. PICK new : new = [row EXCEPT !.kind = kind]
  OBVIOUS
<1>3. new \in Account /\ new.failed = row.failed /\ new.lock = row.lock
  BY <1>2 DEF Account
<1>4. account' = [account EXCEPT ![u] = new]
  BY <1>1, <1>2 DEF RowsTyped
<1> QED BY <1>1, <1>3, <1>4, RowDecided DEF Kept

LEMMA GoneSet ==
  ASSUME RowsTyped, NEW u \in Users, account' = [account EXCEPT ![u].gone = TRUE]
  PROVE  /\ account' \in [Users -> Account]
         /\ \A v \in Users : Kept(account'[v], account[v])
         /\ \A v \in Users : Known(v)' => Known(v) /\ account'[v].kind = account[v].kind
<1>1. PICK row \in Account : row = account[u]
  BY DEF RowsTyped
<1>2. PICK new : new = [row EXCEPT !.gone = TRUE]
  OBVIOUS
<1>3. new \in Account /\ new.failed = row.failed /\ new.lock = row.lock /\ new.gone
  BY <1>2 DEF Account
<1>4. account' = [account EXCEPT ![u] = new]
  BY <1>1, <1>2 DEF RowsTyped
<1>5. /\ account' \in [Users -> Account]
      /\ \A v \in Users : Kept(account'[v], account[v])
      /\ \A v \in Users \ {u} : account'[v] = account[v]
      /\ account'[u] = new
  BY <1>1, <1>3, <1>4, RowDecided DEF Kept
<1> QED BY <1>3, <1>5 DEF Known

LEMMA ActiveSet ==
  ASSUME RowsTyped, NEW u \in Users, NEW active \in BOOLEAN,
         account' = [account EXCEPT ![u].active = active]
  PROVE  /\ account' \in [Users -> Account]
         /\ \A v \in Users : Kept(account'[v], account[v])
         /\ \A v \in Users : Known(v)' => Known(v) /\ account'[v].kind = account[v].kind
<1>1. PICK row \in Account : row = account[u]
  BY DEF RowsTyped
<1>2. PICK new : new = [row EXCEPT !.active = active]
  OBVIOUS
<1>3. new \in Account /\ new.failed = row.failed /\ new.lock = row.lock /\ new.kind = row.kind
  BY <1>2 DEF Account
<1>6. new.gone <=> row.gone
  BY <1>2 DEF Account
<1>4. account' = [account EXCEPT ![u] = new]
  BY <1>1, <1>2 DEF RowsTyped
<1>5. /\ account' \in [Users -> Account]
      /\ \A v \in Users : Kept(account'[v], account[v])
      /\ \A v \in Users \ {u} : account'[v] = account[v]
      /\ account'[u] = new
  BY <1>1, <1>3, <1>4, RowDecided DEF Kept
<1> QED BY <1>1, <1>3, <1>5, <1>6 DEF Known

\* With a company go its owner and employees.
LEMMA CompanyGone ==
  ASSUME RowsTyped,
         account' = [u \in Users |->
           [account[u] EXCEPT !.gone = @ \/ account[u].kind \in {"owner", "employee"}]]
  PROVE  /\ account' \in [Users -> Account]
         /\ \A v \in Users : Kept(account'[v], account[v])
         /\ \A v \in Users : Known(v)' => Admin(v)'
<1>1. ASSUME NEW v \in Users
      PROVE  account'[v] \in Account /\ Kept(account'[v], account[v]) /\ (Known(v)' => Admin(v)')
  <2>1. PICK row \in Account : row = account[v]
    BY DEF RowsTyped
  <2>2. PICK gone \in BOOLEAN : gone <=> row.gone \/ row.kind \in {"owner", "employee"}
    OBVIOUS
  <2>3. PICK new : new = [row EXCEPT !.gone = gone]
    OBVIOUS
  <2>4. new \in Account /\ new.failed = row.failed /\ new.lock = row.lock /\ new.kind = row.kind
    BY <2>3 DEF Account
  <2>5. new.gone <=> gone
    BY <2>3 DEF Account
  <2>6. account'[v] = new
    <3>1. (row.gone \/ row.kind \in {"owner", "employee"}) = gone
      BY <2>2
    <3> QED BY <2>1, <2>3, <3>1
  <2>7. row.kind \in {"absent", "owner", "employee", "admin"}
    BY DEF Account
  <2> QED BY <2>1, <2>2, <2>4, <2>5, <2>6, <2>7 DEF Kept, Known, Admin
<1>2. account' \in [Users -> Account]
  BY <1>1
<1> QED BY <1>1, <1>2

\* A decision leaves the failures and the lock of every account, and a company that is
\* gone or not there yet leaves none behind but administrators.
LEMMA DecidingTyped ==
  ASSUME RowsTyped, Employed, Deciding, scenario' = scenario
  PROVE  /\ RowsTyped' /\ Employed'
         /\ \A v \in Users : Kept(account'[v], account[v])
<1>1. UNCHANGED <<sessions, codes, now, changedAt, serving, resets, wrong, racedAccounts>>
  BY DecidingIs
<1>2. \A v \in Users : Kept(account[v], account[v])
  BY DEF RowsTyped, Kept
<1>3. ASSUME account' \in [Users -> Account],
             overrides' \in [Users -> [Grantable -> {"none", "grant", "revoke"}]],
             company' \in {"absent", "active", "pending", "suspended"},
             settings' \in [maintenance : BOOLEAN, approval : BOOLEAN]
      PROVE  RowsTyped'
  BY <1>1, <1>3 DEF RowsTyped
<1>4. /\ account \in [Users -> Account]
      /\ overrides \in [Users -> [Grantable -> {"none", "grant", "revoke"}]]
      /\ company \in {"absent", "active", "pending", "suspended"}
      /\ settings \in [maintenance : BOOLEAN, approval : BOOLEAN]
  BY DEF RowsTyped
<1>5. CASE \E status \in {"active", "pending", "suspended"} : SetCompanyStatus(status)
  <2>1. /\ UNCHANGED <<account, overrides, settings>>
        /\ company' \in {"active", "pending", "suspended"}
    BY <1>5 DEF SetCompanyStatus
  <2>2. Employed'
    BY <2>1 DEF Employed
  <2> QED BY <1>2, <1>3, <1>4, <2>1, <2>2
<1>6. CASE \E status \in {"active", "pending", "suspended"}, u \in Users : CreateCompany(u, status) \/ Register(u)
  <2>1. PICK u \in Users :
          /\ account' = [account EXCEPT ![u].kind = "owner"]
          /\ company' \in {"active", "pending", "suspended"}
          /\ UNCHANGED <<overrides, settings>>
    BY <1>6 DEF CreateCompany, Register
  <2>2. Employed'
    BY <2>1 DEF Employed
  <2> QED BY <1>3, <1>4, <2>1, <2>2, KindSet
<1>7. CASE \E maintenance, approval \in BOOLEAN : UpdateSettings(maintenance, approval)
  <2>1. /\ UNCHANGED <<account, overrides, company>>
        /\ settings' \in [maintenance : BOOLEAN, approval : BOOLEAN]
    BY <1>7 DEF UpdateSettings
  <2>2. Employed'
    BY <2>1 DEF Employed, Known, Admin
  <2> QED BY <1>2, <1>3, <1>4, <2>1, <2>2
<1>8. CASE \E u \in Users : DeleteEmployee(u) \/ DeleteAdmin(u)
  <2>1. PICK u \in Users :
          /\ account' = [account EXCEPT ![u].gone = TRUE]
          /\ UNCHANGED <<overrides, company, settings>>
    BY <1>8 DEF DeleteEmployee, DeleteAdmin
  <2>2. \A v \in Users : Known(v)' => Known(v) /\ account'[v].kind = account[v].kind
    BY <2>1, GoneSet
  <2>3. Employed'
    BY <2>1, <2>2 DEF Employed, Admin
  <2> QED BY <1>3, <1>4, <2>1, <2>3, GoneSet
<1>12. CASE DeleteCompany
  <2>1. /\ account' = [u \in Users |->
             [account[u] EXCEPT !.gone = @ \/ account[u].kind \in {"owner", "employee"}]]
        /\ overrides' = [u \in Users |-> [p \in Grantable |-> "none"]]
        /\ company' = "absent" /\ settings' = settings
    BY <1>12 DEF DeleteCompany
  <2>2. /\ account' \in [Users -> Account]
        /\ \A v \in Users : Kept(account'[v], account[v])
        /\ \A v \in Users : Known(v)' => Admin(v)'
    BY <2>1, CompanyGone
  <2>3. Employed'
    BY <2>2 DEF Employed
  <2>4. overrides' \in [Users -> [Grantable -> {"none", "grant", "revoke"}]]
    BY <2>1
  <2> QED BY <1>3, <1>4, <2>1, <2>2, <2>3, <2>4
<1>9. CASE \E u \in Users, active \in BOOLEAN : SetActive(u, active)
  <2>1. PICK u \in Users, active \in BOOLEAN :
          /\ account' = [account EXCEPT ![u].active = active]
          /\ UNCHANGED <<overrides, company, settings>>
    BY <1>9 DEF SetActive
  <2>2. \A v \in Users : Known(v)' => Known(v) /\ account'[v].kind = account[v].kind
    BY <2>1, ActiveSet
  <2>3. Employed'
    BY <2>1, <2>2 DEF Employed, Admin
  <2> QED BY <1>3, <1>4, <2>1, <2>3, ActiveSet
<1>10. CASE \E u \in Users, grant \in SUBSET Grantable : CreateEmployee(u, grant)
  <2>1. PICK u \in Users, grant \in SUBSET Grantable : CreateEmployee(u, grant)
    BY <1>10
  <2>2. /\ account' = [account EXCEPT ![u].kind = "employee"]
        /\ UNCHANGED <<company, settings>> /\ company # "absent"
    BY <2>1 DEF CreateEmployee, CompanyAtWork
  <2>3. overrides' \in [Users -> [Grantable -> {"none", "grant", "revoke"}]]
    BY <1>4, <2>1 DEF CreateEmployee
  <2>4. Employed'
    BY <2>2 DEF Employed
  <2> QED BY <1>3, <1>4, <2>2, <2>3, <2>4, KindSet
<1>11. CASE \E u \in Users, grant \in SUBSET Grantable, revoke \in SUBSET Grantable :
              UpdatePermissions(u, grant, revoke)
  <2>1. PICK u \in Users, grant \in SUBSET Grantable, revoke \in SUBSET Grantable :
          UpdatePermissions(u, grant, revoke)
    BY <1>11
  <2>2. UNCHANGED <<account, company, settings>>
    BY <2>1 DEF UpdatePermissions
  <2>3. overrides' \in [Users -> [Grantable -> {"none", "grant", "revoke"}]]
    BY <1>4, <2>1 DEF UpdatePermissions
  <2>4. Employed'
    BY <2>2 DEF Employed, Known, Admin
  <2> QED BY <1>2, <1>3, <1>4, <2>2, <2>3, <2>4
<1> QED BY <1>5, <1>6, <1>7, <1>8, <1>9, <1>10, <1>11, <1>12 DEF Deciding

LEMMA CodeRequested ==
  ASSUME RowsTyped, scenario' = scenario, NEW u \in Users, RequestPasswordReset(u)
  PROVE  /\ RowsTyped' /\ RowsStay
         /\ DOMAIN codes' = DOMAIN codes \cup {Len(codes) + 1}
         /\ Len(codes) + 1 \notin DOMAIN codes
         /\ \A k \in DOMAIN codes : codes'[k] = codes[k]
         /\ codes'[Len(codes) + 1] =
              [user |-> u, used |-> FALSE, attempts |-> 0, tried |-> 0, uses |-> 0]
<1>1. PICK c \in Code : c = [user |-> u, used |-> FALSE, attempts |-> 0, tried |-> 0, uses |-> 0]
  BY DEF Code
<1>2. PICK s \in Seq(Code) : s = codes
  BY DEF RowsTyped
<1>3. codes' = Append(s, c)
  BY <1>1, <1>2 DEF RequestPasswordReset
<1>4. /\ codes' \in Seq(Code)
      /\ DOMAIN codes' = DOMAIN codes \cup {Len(codes) + 1}
      /\ Len(codes) + 1 \notin DOMAIN codes
      /\ \A k \in DOMAIN codes : codes'[k] = codes[k]
      /\ codes'[Len(codes) + 1] = c
  BY <1>2, <1>3, SequenceAppended
<1>5. UNCHANGED <<account, overrides, company, settings, sessions, now, changedAt, resets, wrong, racedAccounts>>
  BY DEF RequestPasswordReset
<1>6. RowsTyped'
  BY <1>4, <1>5 DEF RowsTyped
<1>7. RowsStay
  BY <1>4, <1>5 DEF RowsStay
<1> QED BY <1>1, <1>4, <1>6, <1>7

LEMMA LockExpired ==
  ASSUME RowsTyped, scenario' = scenario, NEW u \in Users, LockExpires(u)
  PROVE  /\ RowsTyped'
         /\ \A v \in Users :
              /\ account'[v].kind = account[v].kind
              /\ account'[v].gone <=> account[v].gone
              /\ account'[v].failed = account[v].failed
              /\ account'[v].lock = "none" <=> account[v].lock = "none"
<1>1. account \in [Users -> Account]
  BY DEF RowsTyped
<1>2. PICK row \in Account : row = account[u]
  BY <1>1
<1>3. PICK new : new = [row EXCEPT !.lock = "expired"]
  OBVIOUS
<1>4. new \in Account /\ new.failed = row.failed /\ new.lock = "expired" /\ new.kind = row.kind
  BY <1>3 DEF Account, Lock
<1>12. new.gone <=> row.gone
  BY <1>3 DEF Account
<1>5. account' = [account EXCEPT ![u] = new]
  BY <1>1, <1>2, <1>3 DEF LockExpires
<1>6. \A v \in Users : account'[v] = IF v = u THEN new ELSE account[v]
  BY <1>1, <1>5
<1>7. account' \in [Users -> Account]
  BY <1>1, <1>4, <1>5
<1>8. row.lock = "running"
  BY <1>2 DEF LockExpires
<1>9. ASSUME NEW v \in Users
      PROVE  /\ account'[v].kind = account[v].kind
             /\ account'[v].gone <=> account[v].gone
             /\ account'[v].failed = account[v].failed
             /\ account'[v].lock = "none" <=> account[v].lock = "none"
  <2>1. CASE v = u
    BY <1>2, <1>4, <1>6, <1>8, <1>12, <2>1
  <2>2. CASE v # u
    BY <1>6, <2>2
  <2> QED BY <2>1, <2>2
<1>10. UNCHANGED <<overrides, company, settings, sessions, codes, now, changedAt, resets, wrong, racedAccounts>>
  BY DEF LockExpires
<1>11. RowsTyped'
  BY <1>7, <1>10 DEF RowsTyped
<1> QED BY <1>9, <1>11

---------------------------------------------------------------------------
(* The types are kept by every step of the accounts.                       *)

AccountsTyped == RowsTyped /\ Employed /\ RequestsTyped

\* What no request does: a code asked for, time, a decision.
Beside ==
  \/ \E u \in Users : RequestPasswordReset(u) \/ LockExpires(u)
  \/ SecondPasses
  \/ Deciding

LEMMA SessionsStepIs == SessionsStep => Beside \/ \E r \in Requests : Handling(r)
BY DEF SessionsStep, Beside

LEMMA BesideServes == Beside => UNCHANGED <<serving, resets, wrong, racedAccounts>>
BY DecidingIs DEF Beside, RequestPasswordReset, LockExpires, SecondPasses

LEMMA BesideSessions == Beside => sessions' = sessions
BY DecidingIs DEF Beside, RequestPasswordReset, LockExpires, SecondPasses

LEMMA KindsStay ==
  ASSUME RowsTyped, RequestsTyped, NEW r \in Requests, Handling(r)
  PROVE  /\ company' = company
         /\ \A v \in Users : account'[v].kind = account[v].kind /\ (account'[v].gone <=> account[v].gone)
<1>1. company' = company
  BY HandlingIs, ReadingIs
     DEF Committing, FailLogin, FinishLogin, FinishRefresh, FailReset, FinishReset, Logout
<1>2. CASE account' = account
  BY <1>1, <1>2
<1>3. PICK q \in ServingState : q = serving[r] /\ Named(q)
  BY DEF RequestsTyped
<1>4. q.failed \in Nat /\ q.lock \in Lock
  BY DEF ServingState
<1>5. CASE FailLogin(r)
  <2>1. q.subject \in Users
    BY <1>3, <1>5 DEF FailLogin, Named
  <2> QED BY <1>1, <1>3, <1>4, <1>5, <2>1, FailureWritten DEF Wrote
<1>6. CASE FinishLogin(r) \/ FinishReset(r)
  <2>1. PICK u \in Users : u = q.subject
    BY <1>3, <1>6 DEF FinishLogin, FinishReset, Named
  <2>2. account' = [account EXCEPT ![u].failed = Write(q.failed, 0, @), ![u].lock = Write(q.lock, "none", @)]
    BY <1>3, <1>6, <2>1 DEF FinishLogin, FinishReset
  <2> QED BY <1>1, <1>4, <2>1, <2>2, ClearanceWritten DEF Wrote
<1>7. Reading(r) \/ FinishRefresh(r) \/ FailReset(r) \/ (\E brought : Logout(r, brought)) => account' = account
  BY ReadingIs DEF FinishRefresh, FailReset, Logout
<1> QED BY <1>2, <1>5, <1>6, <1>7, HandlingIs DEF Committing

LEMMA BesideTyped ==
  ASSUME AccountsTyped, scenario' = scenario, Beside
  PROVE  AccountsTyped' /\ RowsStay
<1>1. serving' = serving
  BY BesideServes
<1>2. ASSUME RowsStay PROVE RequestsTyped'
  <2>1. ASSUME NEW q, Named(q) PROVE Named(q)'
    BY <1>2, <2>1 DEF Named, RowsStay
  <2> QED BY <1>1, <2>1 DEF AccountsTyped, RequestsTyped
<1>4. CASE \E u \in Users : RequestPasswordReset(u)
  <2>1. PICK u \in Users : RequestPasswordReset(u)
    BY <1>4
  <2>2. account' = account /\ company' = company
    BY <2>1 DEF RequestPasswordReset
  <2>3. Employed'
    BY <2>2 DEF AccountsTyped, Employed, Known, Admin
  <2> QED BY <1>2, <2>1, <2>3, CodeRequested DEF AccountsTyped
<1>5. CASE \E u \in Users : LockExpires(u)
  <2>1. PICK u \in Users : LockExpires(u)
    BY <1>5
  <2>2. company' = company /\ sessions' = sessions /\ codes' = codes
    BY <2>1 DEF LockExpires
  <2>3. /\ RowsTyped'
        /\ \A v \in Users : account'[v].kind = account[v].kind /\ (account'[v].gone <=> account[v].gone)
    BY <2>1, LockExpired DEF AccountsTyped
  <2>4. Employed'
    BY <2>2, <2>3 DEF AccountsTyped, Employed, Known, Admin
  <2> QED BY <1>2, <2>2, <2>3, <2>4, RowsAreKept DEF AccountsTyped
<1>6. CASE SecondPasses
  <2>1. /\ UNCHANGED <<account, overrides, company, settings, sessions, codes, changedAt, resets,
                        wrong, racedAccounts>>
        /\ now' = now + 1
    BY <1>6 DEF SecondPasses
  <2>2. RowsTyped'
    BY <2>1 DEF AccountsTyped, RowsTyped
  <2>3. Employed'
    BY <2>1 DEF AccountsTyped, Employed, Known, Admin
  <2> QED BY <1>2, <2>1, <2>2, <2>3, RowsAreKept DEF AccountsTyped
<1>7. CASE Deciding
  <2>1. sessions' = sessions /\ codes' = codes
    BY <1>7, DecidingIs
  <2> QED BY <1>2, <1>7, <2>1, DecidingTyped, RowsAreKept DEF AccountsTyped
<1> QED BY <1>4, <1>5, <1>6, <1>7 DEF Beside

LEMMA AccountsStayTyped ==
  ASSUME AccountsTyped, [SessionsNext]_sessionVars
  PROVE  AccountsTyped'
<1>1. CASE UNCHANGED sessionVars
  BY <1>1 DEF AccountsTyped, RowsTyped, Employed, RequestsTyped, Named, Known, Admin, sessionVars
<1>2. CASE SessionsNext
  <2>1. SessionsStep /\ scenario' = scenario
    BY <1>2 DEF SessionsNext
  <2>2. CASE Beside
    BY <2>1, <2>2, BesideTyped
  <2>3. ASSUME NEW r \in Requests, Handling(r) PROVE AccountsTyped'
    <3>1. RowsTyped' /\ RequestsTyped'
      BY <2>1, <2>3, HandlingTyped DEF AccountsTyped
    <3>2. Employed'
      BY <2>3, KindsStay DEF AccountsTyped, Employed, Known, Admin
    <3> QED BY <3>1, <3>2 DEF AccountsTyped
  <2> QED BY <2>1, <2>2, <2>3, SessionsStepIs
<1> QED BY <1>1, <1>2

LEMMA AccountsInitiallyTyped == SessionsInit => AccountsTyped
<1> SUFFICES ASSUME SessionsInit PROVE AccountsTyped
  OBVIOUS
<1>1. PICK s \in Scenario : s = scenario /\ (s.company = "absent" => \A u \in Users : s.kinds[u] \in {"absent", "admin"})
  BY SessionsAssumption DEF SessionsInit
<1>2. account \in [Users -> Account]
  <2>1. \A u \in Users : scenario.kinds[u] \in {"absent", "owner", "employee", "admin"}
    BY <1>1 DEF Scenario
  <2>2. ASSUME NEW u \in Users
        PROVE  [kind |-> scenario.kinds[u], gone |-> FALSE, active |-> TRUE, failed |-> 0, lock |-> "none",
                logged |-> FALSE] \in Account
    BY <2>1 DEF Account, Lock
  <2> QED BY <2>2 DEF SessionsInit
<1>3. /\ overrides \in [Users -> [Grantable -> {"none", "grant", "revoke"}]]
      /\ settings \in [maintenance : BOOLEAN, approval : BOOLEAN]
      /\ now \in Nat /\ changedAt \in [Users -> Nat] /\ resets \in [Users -> Nat] /\ wrong \in [Users -> Nat]
      /\ racedAccounts \subseteq Users
  BY DEF SessionsInit
<1>4. sessions \in Seq(Pair) /\ codes \in Seq(Code)
  BY DEF SessionsInit
<1>5. company \in {"absent", "active", "pending", "suspended"}
  BY <1>1 DEF Scenario, SessionsInit
<1>6. RowsTyped
  BY <1>2, <1>3, <1>4, <1>5 DEF RowsTyped, SessionsInit
<1>7. Employed
  BY <1>1 DEF Employed, Known, Admin, SessionsInit
<1>8. Named(NotServing)
  BY NotServingTyped DEF Named
<1>9. RequestsTyped
  BY <1>8, NotServingTyped DEF RequestsTyped, SessionsInit
<1> QED BY <1>6, <1>7, <1>9 DEF AccountsTyped
---------------------------------------------------------------------------
(* A reset ends the sessions begun before it.                              *)

\* No time is in the future.
Dated(s) == s.iat <= now

Timed(q) == q.stamp <= now

\* What the property says of one pair.
Over(s) == s.epoch < resets[s.user] /\ ~s.raced => s.iat <= changedAt[s.user]

\* A reset that has taken its time and has yet to commit has come after every pair there is.
BeforeReset(s, q) ==
  ~s.raced /\ q.does = "reset" /\ q.right /\ q.subject = s.user => s.iat <= q.stamp

TimesKept ==
  /\ \A i \in DOMAIN sessions : Dated(sessions[i]) /\ Over(sessions[i])
  /\ \A r \in Requests : Timed(serving[r])
  /\ \A i \in DOMAIN sessions, r \in Requests : BeforeReset(sessions[i], serving[r])

\* As far as times go, a request is the reset it was, or none.
SameReset(p, q) ==
  /\ p.does = q.does /\ p.subject = q.subject /\ p.stamp = q.stamp
  /\ p.right <=> q.right

NoReset(p) == p.stamp \in Nat /\ p.stamp <= now /\ ~(p.does = "reset" /\ p.right)

LEMMA TimesKeptOver == TimesKept => EarlierSessionsAreOver
BY DEF TimesKept, Over, EarlierSessionsAreOver, Stale

LEMMA PairTyped ==
  ASSUME AccountsTyped, NEW i \in DOMAIN sessions
  PROVE  sessions[i].user \in Users /\ sessions[i].iat \in Nat /\ sessions[i].epoch \in Nat
<1>1. PICK s \in Pair : s = sessions[i]
  BY DEF AccountsTyped, RowsTyped
<1> QED BY <1>1 DEF Pair

LEMMA OthersSameReset ==
  ASSUME AccountsTyped, NEW r \in Requests, NEW q, Moves(r, q), NEW x \in Requests \ {r}
  PROVE  SameReset(serving'[x], serving[x])
<1>1. PICK p \in ServingState : p = serving[x]
  BY DEF AccountsTyped, RequestsTyped
<1>2. CASE serving'[x] = p
  BY <1>1, <1>2 DEF SameReset
<1>3. CASE serving'[x] = [p EXCEPT !.overtaken = TRUE]
  BY <1>1, <1>3, OvertakenSame DEF SameReset
<1> QED BY <1>1, <1>2, <1>3 DEF Moves

LEMMA BeforeResetSame ==
  ASSUME NEW s, NEW t, NEW p, NEW q, BeforeReset(s, q), SamePair(t, s), SameReset(p, q)
  PROVE  BeforeReset(t, p)
BY DEF BeforeReset, SamePair, SameReset

\* Of the pairs there are, when the clock does not go back.
LEMMA PairsStayOver ==
  ASSUME AccountsTyped, TimesKept, now' = now, changedAt' = changedAt, resets' = resets,
         NEW i \in DOMAIN sessions, SamePair(sessions'[i], sessions[i])
  PROVE  Dated(sessions[i])' /\ Over(sessions[i])'
<1>1. PICK s : s = sessions[i]
  OBVIOUS
<1>2. PICK t : t = sessions'[i]
  OBVIOUS
<1>3. /\ t.user = s.user /\ t.iat = s.iat /\ t.epoch = s.epoch
      /\ t.raced <=> s.raced
  BY <1>1, <1>2 DEF SamePair
<1>4. Dated(s) /\ Over(s)
  BY <1>1 DEF TimesKept
<1>5. Dated(t)' /\ Over(t)'
  BY <1>3, <1>4 DEF Dated, Over
<1> QED BY <1>2, <1>5

LEMMA TimesStay ==
  ASSUME AccountsTyped, TimesKept, now' = now, changedAt' = changedAt, resets' = resets,
         DOMAIN sessions' = DOMAIN sessions,
         \A i \in DOMAIN sessions : SamePair(sessions'[i], sessions[i]),
         \A x \in Requests : SameReset(serving'[x], serving[x]) \/ NoReset(serving'[x])
  PROVE  TimesKept'
<1>1. ASSUME NEW i \in DOMAIN sessions PROVE Dated(sessions[i])' /\ Over(sessions[i])'
  BY PairsStayOver
<1>2. ASSUME NEW x \in Requests PROVE Timed(serving[x])'
  <2>1. Timed(serving[x])
    BY DEF TimesKept
  <2> QED BY <2>1 DEF Timed, SameReset, NoReset
<1>3. ASSUME NEW i \in DOMAIN sessions, NEW x \in Requests
      PROVE  BeforeReset(sessions[i], serving[x])'
  <2>1. CASE SameReset(serving'[x], serving[x])
    <3>1. BeforeReset(sessions[i], serving[x])
      BY DEF TimesKept
    <3> QED BY <2>1, <3>1, BeforeResetSame
  <2>2. CASE NoReset(serving'[x])
    BY <2>2 DEF NoReset, BeforeReset
  <2> QED BY <2>1, <2>2
<1> QED BY <1>1, <1>2, <1>3 DEF TimesKept

LEMMA TimePasses ==
  ASSUME AccountsTyped, TimesKept, SecondPasses
  PROVE  TimesKept'
<1>1. /\ now' = now + 1 /\ now \in Nat
      /\ UNCHANGED <<sessions, serving, changedAt, resets>>
  BY DEF SecondPasses, AccountsTyped, RowsTyped
<1>2. ASSUME NEW i \in DOMAIN sessions PROVE Dated(sessions[i])' /\ Over(sessions[i])'
  <2>1. Dated(sessions[i]) /\ Over(sessions[i]) /\ sessions[i].iat \in Nat
    BY PairTyped DEF TimesKept
  <2> QED BY <1>1, <2>1 DEF Dated, Over
<1>3. ASSUME NEW x \in Requests PROVE Timed(serving[x])'
  <2>1. Timed(serving[x]) /\ serving[x].stamp \in Nat
    BY DEF TimesKept, AccountsTyped, RequestsTyped, ServingState
  <2> QED BY <1>1, <2>1 DEF Timed
<1>4. ASSUME NEW i \in DOMAIN sessions, NEW x \in Requests
      PROVE  BeforeReset(sessions[i], serving[x])'
  BY <1>1 DEF TimesKept, BeforeReset
<1> QED BY <1>1, <1>2, <1>3, <1>4 DEF TimesKept

\* A pair is issued by a request that is then answered.
LEMMA TimesOfNewPair ==
  ASSUME AccountsTyped, TimesKept, UNCHANGED <<now, changedAt, resets>>,
         NEW r \in Requests, NEW q, Moves(r, q), NoReset(q),
         NEW u \in Users, NEW epoch \in Nat, NEW raced \in BOOLEAN,
         sessions' = Append(sessions, NewPair(u, epoch, raced))
  PROVE  TimesKept'
<1>1. PICK t : t = NewPair(u, epoch, raced)
  OBVIOUS
<1>2. /\ t.user = u /\ t.epoch = epoch /\ t.iat = now
      /\ t.raced <=> (raced \/ epoch # resets[u] \/ ResetUnderWay(u))
  BY <1>1 DEF NewPair
<1>3. PICK n : n = Len(sessions) + 1
  OBVIOUS
<1>4. /\ DOMAIN sessions' = DOMAIN sessions \cup {n}
      /\ \A i \in DOMAIN sessions : sessions'[i] = sessions[i]
      /\ sessions'[n] = t
  BY <1>1, <1>3, PairIssued DEF AccountsTyped
<1>5. now \in Nat /\ resets[u] \in Nat
  BY DEF AccountsTyped, RowsTyped
<1>6. ASSUME NEW i \in DOMAIN sessions PROVE Dated(sessions[i])' /\ Over(sessions[i])'
  <2>1. SamePair(sessions'[i], sessions[i])
    BY <1>4 DEF SamePair
  <2> QED BY <2>1, PairsStayOver
<1>7. Dated(sessions[n])' /\ Over(sessions[n])'
  <2>1. Dated(t)' /\ Over(t)'
    BY <1>2, <1>5 DEF Dated, Over
  <2> QED BY <1>4, <2>1
<1>8. ASSUME NEW x \in Requests
      PROVE  /\ Timed(serving[x])'
             /\ \A i \in DOMAIN sessions' : BeforeReset(sessions[i], serving[x])'
  <2>1. CASE x = r
    <3>1. serving'[x] = q
      BY <2>1 DEF Moves
    <3> QED BY <3>1 DEF NoReset, Timed, BeforeReset
  <2>2. CASE x # r
    <3>1. SameReset(serving'[x], serving[x])
      BY <2>2, OthersSameReset
    <3>2. PICK p \in ServingState : p = serving[x]
      BY DEF AccountsTyped, RequestsTyped
    <3>3. PICK o : o = serving'[x]
      OBVIOUS
    <3>4. SameReset(o, p) /\ Timed(p)
      BY <3>1, <3>2, <3>3 DEF TimesKept
    <3>5. Timed(o)'
      BY <3>4 DEF Timed, SameReset
    <3>6. ASSUME NEW i \in DOMAIN sessions PROVE BeforeReset(sessions[i], serving[x])'
      <4>1. BeforeReset(sessions[i], p) /\ sessions'[i] = sessions[i]
        BY <1>4, <3>2 DEF TimesKept
      <4>2. BeforeReset(sessions'[i], o)
        BY <3>4, <4>1 DEF BeforeReset, SameReset
      <4> QED BY <3>3, <4>2
    <3>7. BeforeReset(t, o)
      <4>1. SUFFICES ASSUME ~t.raced, o.does = "reset", o.right, o.subject = t.user
                     PROVE  t.iat <= o.stamp
        BY DEF BeforeReset
      <4>2. p.does = "reset" /\ p.right /\ p.subject = u
        BY <1>2, <3>4, <4>1 DEF SameReset
      <4>3. ~(p.stamp < now)
        BY <1>2, <3>2, <4>1, <4>2 DEF ResetUnderWay
      <4>4. p.stamp \in Nat /\ o.stamp = p.stamp
        BY <3>4 DEF ServingState, SameReset
      <4> QED BY <1>2, <1>5, <4>3, <4>4
    <3> QED BY <1>4, <3>3, <3>5, <3>6, <3>7
  <2> QED BY <2>1, <2>2
<1> QED BY <1>4, <1>6, <1>7, <1>8 DEF TimesKept

\* A reset is started: its time is now.
LEMMA TimesOfStart ==
  ASSUME AccountsTyped, TimesKept, NEW r \in Requests, Reading(r)
  PROVE  TimesKept'
<1>1. UNCHANGED <<sessions, now, changedAt, resets>>
  BY ReadingIs
<1>2. PICK q \in ServingState : serving' = [serving EXCEPT ![r] = q]
  BY ReadingMoves DEF AccountsTyped
<1>3. PICK p \in ServingState : p = serving[r]
  BY DEF AccountsTyped, RequestsTyped
<1>4. serving \in [Requests -> ServingState] /\ now \in Nat
  BY DEF AccountsTyped, RequestsTyped, RowsTyped
<1>5. serving'[r] = q /\ \A x \in Requests \ {r} : serving'[x] = serving[x]
  BY <1>2, <1>4
<1>6. p.stamp \in Nat /\ p.stamp <= now
  BY <1>3 DEF ServingState, TimesKept, Timed
<1>7. CASE NoReset(q)
  <2>1. ASSUME NEW x \in Requests PROVE SameReset(serving'[x], serving[x]) \/ NoReset(serving'[x])
    BY <1>5, <1>7 DEF SameReset
  <2>2. \A i \in DOMAIN sessions : SamePair(sessions'[i], sessions[i])
    BY <1>1 DEF SamePair
  <2> QED BY <1>1, <2>1, <2>2, TimesStay
<1>8. CASE q.stamp = now
  <2>1. ASSUME NEW i \in DOMAIN sessions PROVE Dated(sessions[i])' /\ Over(sessions[i])'
    <3>1. SamePair(sessions'[i], sessions[i])
      BY <1>1 DEF SamePair
    <3> QED BY <1>1, <3>1, PairsStayOver
  <2>2. ASSUME NEW x \in Requests PROVE Timed(serving[x])'
    <3>1. CASE x = r
      BY <1>1, <1>4, <1>5, <1>8, <3>1 DEF Timed
    <3>2. CASE x # r
      BY <1>1, <1>5, <3>2 DEF Timed, TimesKept
    <3> QED BY <3>1, <3>2
  <2>3. ASSUME NEW i \in DOMAIN sessions, NEW x \in Requests
        PROVE  BeforeReset(sessions[i], serving[x])'
    <3>1. CASE x = r
      <4>1. sessions[i].iat <= now
        BY DEF TimesKept, Dated
      <4>2. BeforeReset(sessions[i], q)
        BY <1>8, <4>1 DEF BeforeReset
      <4> QED BY <1>1, <1>5, <3>1, <4>2
    <3>2. CASE x # r
      <4>1. BeforeReset(sessions[i], serving[x])
        BY DEF TimesKept
      <4> QED BY <1>1, <1>5, <3>2, <4>1
    <3> QED BY <3>1, <3>2
  <2> QED BY <1>1, <2>1, <2>2, <2>3 DEF TimesKept
<1>9. ASSUME NEW u \in Users, NEW right \in BOOLEAN, StartLogin(r, u, right) PROVE NoReset(q)
  <2>1. q = [NotServing EXCEPT !.does = "login", !.subject = u, !.right = right,
                          !.failed = account[u].failed, !.lock = account[u].lock,
                          !.epoch = resets[u]]
    BY <1>4, <1>5, <1>9 DEF StartLogin
  <2>2. q.does = "login" /\ q.stamp = 0
    BY <2>1 DEF NotServing
  <2> QED BY <1>4, <2>2 DEF NoReset
<1>10. ASSUME NEW u \in Users, NEW right \in BOOLEAN, StartReset(r, u, right)
       PROVE  NoReset(q) \/ q.stamp = now
  <2>1. PICK k \in Unused(u) : serving' = [serving EXCEPT ![r] =
            [NotServing EXCEPT !.does = "reset", !.subject = u, !.item = k, !.right = right,
                               !.failed = account[u].failed, !.lock = account[u].lock,
                               !.attempts = codes[k].attempts,
                               !.stamp = IF right THEN now ELSE 0]]
    BY <1>10 DEF StartReset
  <2>2. q = [NotServing EXCEPT !.does = "reset", !.subject = u, !.item = k, !.right = right,
                               !.failed = account[u].failed, !.lock = account[u].lock,
                               !.attempts = codes[k].attempts,
                               !.stamp = IF right THEN now ELSE 0]
    BY <1>4, <1>5, <2>1
  <2>3. q.stamp = IF right THEN now ELSE 0
    BY <2>2 DEF NotServing
  <2>4. q.right <=> right
    BY <2>2 DEF NotServing
  <2> QED BY <1>4, <2>3, <2>4 DEF NoReset
<1>11. ASSUME NEW i \in DOMAIN sessions, StartRefresh(r, i) \/ StartCall(r, i) PROVE NoReset(q)
  <2>1. PICK does \in {"refresh", "call"} : StartWithToken(r, does, i)
    BY <1>11 DEF StartRefresh, StartCall
  <2>2. q = [NotServing EXCEPT !.does = does, !.subject = sessions[i].user, !.item = i]
    BY <1>4, <1>5, <2>1 DEF StartWithToken
  <2>3. q.does \in {"refresh", "call"} /\ q.stamp = 0
    BY <2>2 DEF NotServing
  <2> QED BY <1>4, <2>3 DEF NoReset
<1>12. CASE ReadUser(r)
  <2>1. q = [p EXCEPT !.right = TRUE] /\ p.does \in {"refresh", "call"}
    BY <1>3, <1>4, <1>5, <1>12 DEF ReadUser
  <2>2. q.does = p.does /\ q.stamp = p.stamp
    BY <2>1 DEF ServingState
  <2> QED BY <1>6, <1>7, <2>1, <2>2 DEF NoReset
<1>13. ASSUME NEW e \in scenario.asked, Serve(r, e) PROVE NoReset(q)
  <2>1. q = [p EXCEPT !.does = "granted", !.grants = p.does, !.endpoint = e]
    BY <1>3, <1>4, <1>5, <1>13 DEF Serve, Granted
  <2>2. q.does = "granted" /\ q.stamp = p.stamp
    BY <2>1 DEF ServingState
  <2> QED BY <1>6, <2>2 DEF NoReset
<1>14. CASE Abort(r) \/ Answer(r)
  <2>1. q = NotServing
    BY <1>4, <1>5, <1>14 DEF Abort, Answer
  <2>2. q.does = "nothing" /\ q.stamp = 0
    BY <2>1 DEF NotServing
  <2> QED BY <1>4, <1>7, <2>2 DEF NoReset
<1> QED BY <1>7, <1>8, <1>9, <1>10, <1>11, <1>12, <1>13, <1>14 DEF Reading

\* A reset is committed: every pair that did not race it is of its second, or of an earlier one.
LEMMA TimesOfReset ==
  ASSUME AccountsTyped, TimesKept, scenario' = scenario, NEW r \in Requests, FinishReset(r)
  PROVE  TimesKept'
<1>1. PICK q \in ServingState : q = serving[r] /\ Named(q)
  BY DEF AccountsTyped, RequestsTyped
<1>2. PICK u \in Users : u = q.subject
  BY <1>1 DEF FinishReset, Named
<1>3. q.does = "reset" /\ q.right
  BY <1>1 DEF FinishReset
<1>4. changedAt \in [Users -> Nat] /\ resets \in [Users -> Nat] /\ now \in Nat /\ q.stamp \in Nat
  BY DEF AccountsTyped, RowsTyped, ServingState
<1>5. changedAt' = [changedAt EXCEPT ![u] = q.stamp] /\ resets' = [resets EXCEPT ![u] = @ + 1]
  BY <1>1, <1>2 DEF FinishReset, Outdated
<1>6. UNCHANGED <<sessions, now>>
  BY DEF FinishReset
<1>7. Moves(r, NotServing)
  BY ResetFinished DEF AccountsTyped
<1>8. ASSUME NEW i \in DOMAIN sessions PROVE Dated(sessions[i])' /\ Over(sessions[i])'
  <2>1. PICK s : s = sessions[i]
    OBVIOUS
  <2>2. s.user \in Users /\ s.iat \in Nat /\ s.epoch \in Nat
    BY <2>1, PairTyped
  <2>3. Dated(s) /\ Over(s) /\ BeforeReset(s, q)
    BY <1>1, <2>1 DEF TimesKept
  <2>4. CASE s.user = u
    <3>1. changedAt'[s.user] = q.stamp
      BY <1>4, <1>5, <2>4
    <3>2. ~s.raced => s.iat <= q.stamp
      BY <1>2, <1>3, <2>3, <2>4 DEF BeforeReset
    <3>3. Over(s)'
      BY <3>1, <3>2 DEF Over
    <3>4. Dated(s)'
      BY <1>6, <2>3 DEF Dated
    <3> QED BY <1>6, <2>1, <3>3, <3>4
  <2>5. CASE s.user # u
    <3>1. changedAt'[s.user] = changedAt[s.user] /\ resets'[s.user] = resets[s.user]
      BY <1>4, <1>5, <2>2, <2>5
    <3>2. Over(s)'
      BY <2>3, <3>1 DEF Over
    <3>3. Dated(s)'
      BY <1>6, <2>3 DEF Dated
    <3> QED BY <1>6, <2>1, <3>2, <3>3
  <2> QED BY <2>4, <2>5
<1>9. ASSUME NEW x \in Requests
      PROVE  /\ Timed(serving[x])'
             /\ \A i \in DOMAIN sessions : BeforeReset(sessions[i], serving[x])'
  <2>1. CASE x = r
    <3>1. serving'[x] = NotServing
      BY <1>7, <2>1 DEF Moves
    <3>2. NotServing.does = "nothing" /\ NotServing.stamp = 0
      BY DEF NotServing
    <3> QED BY <1>4, <1>6, <3>1, <3>2 DEF Timed, BeforeReset
  <2>2. CASE x # r
    <3>1. SameReset(serving'[x], serving[x])
      BY <1>7, <2>2, OthersSameReset
    <3>2. Timed(serving[x])'
      BY <1>6, <3>1 DEF TimesKept, Timed, SameReset
    <3>3. ASSUME NEW i \in DOMAIN sessions PROVE BeforeReset(sessions[i], serving[x])'
      <4>1. BeforeReset(sessions[i], serving[x]) /\ SamePair(sessions'[i], sessions[i])
        BY <1>6 DEF TimesKept, SamePair
      <4> QED BY <3>1, <4>1, BeforeResetSame
    <3> QED BY <3>2, <3>3
  <2> QED BY <2>1, <2>2
<1> QED BY <1>6, <1>8, <1>9 DEF TimesKept

\* The other steps of a request keep its times, or end it.
LEMMA TimesOfEnd ==
  ASSUME AccountsTyped, TimesKept, UNCHANGED <<now, changedAt, resets>>,
         DOMAIN sessions' = DOMAIN sessions,
         \A i \in DOMAIN sessions : SamePair(sessions'[i], sessions[i]),
         NEW r \in Requests, Moves(r, NotServing)
  PROVE  TimesKept'
<1>1. NotServing.does = "nothing" /\ NotServing.stamp = 0 /\ now \in Nat
  BY DEF NotServing, AccountsTyped, RowsTyped
<1>2. ASSUME NEW x \in Requests PROVE SameReset(serving'[x], serving[x]) \/ NoReset(serving'[x])
  <2>1. CASE x = r
    <3>1. serving'[x] = NotServing
      BY <2>1 DEF Moves
    <3> QED BY <1>1, <3>1 DEF NoReset
  <2>2. CASE x # r
    BY <2>2, OthersSameReset
  <2> QED BY <2>1, <2>2
<1> QED BY <1>2, TimesStay

LEMMA TimesStayKept ==
  ASSUME AccountsTyped, TimesKept, [SessionsNext]_sessionVars
  PROVE  TimesKept'
<1>1. CASE UNCHANGED <<sessions, serving, now, changedAt, resets>>
  <2>1. \A i \in DOMAIN sessions : SamePair(sessions'[i], sessions[i])
    BY <1>1 DEF SamePair
  <2>2. \A x \in Requests : SameReset(serving'[x], serving[x])
    BY <1>1 DEF SameReset
  <2> QED BY <1>1, <2>1, <2>2, TimesStay
<1>2. CASE UNCHANGED sessionVars
  BY <1>1, <1>2 DEF sessionVars
<1>3. CASE SessionsNext
  <2>1. SessionsStep /\ scenario' = scenario
    BY <1>3 DEF SessionsNext
  <2>2. CASE Beside
    BY <1>1, <2>2, TimePasses, DecidingIs DEF Beside, RequestPasswordReset, LockExpires
  <2>3. ASSUME NEW r \in Requests, Handling(r) PROVE TimesKept'
    <3>1. CASE Reading(r)
      BY <3>1, TimesOfStart
    <3>2. CASE FailLogin(r) \/ FailReset(r)
      <4>1. UNCHANGED <<sessions, now, changedAt, resets>>
        BY <3>2 DEF FailLogin, FailReset
      <4>2. Moves(r, NotServing)
        BY <2>1, <3>2, LoginFailed, ResetFailed DEF AccountsTyped
      <4>3. \A i \in DOMAIN sessions : SamePair(sessions'[i], sessions[i])
        BY <4>1 DEF SamePair
      <4> QED BY <4>1, <4>2, <4>3, TimesOfEnd
    <3>3. ASSUME NEW brought, Logout(r, brought) PROVE TimesKept'
      <4>1. UNCHANGED <<now, changedAt, resets>>
        BY <3>3 DEF Logout
      <4>2. /\ DOMAIN sessions' = DOMAIN sessions
            /\ \A i \in DOMAIN sessions : SamePair(sessions'[i], sessions[i])
        BY <3>3, LogoutTyped DEF AccountsTyped
      <4>3. Moves(r, NotServing)
        BY <2>1, <3>3, LogoutFinished DEF AccountsTyped
      <4> QED BY <4>1, <4>2, <4>3, TimesOfEnd
    <3>4. CASE FinishReset(r)
      BY <2>1, <3>4, TimesOfReset
    <3>5. CASE FinishLogin(r) \/ FinishRefresh(r)
      <4>1. PICK p \in ServingState : p = serving[r] /\ Named(p)
        BY DEF AccountsTyped, RequestsTyped
      <4>2. p.does \in {"login", "refresh"}
        BY <3>5, <4>1 DEF FinishLogin, FinishRefresh
      <4>3. p.subject \in Users /\ p.epoch \in Nat /\ p.stamp \in Nat
        BY <4>1, <4>2 DEF Named, ServingState
      <4>4. UNCHANGED <<now, changedAt, resets>>
        BY <3>5 DEF FinishLogin, FinishRefresh
      <4>5. Moves(r, Granted(r))
        BY <2>1, <3>5, LoginFinished, RefreshFinished DEF AccountsTyped
      <4>6. NoReset(Granted(r))
        <5>1. PICK q : q = [p EXCEPT !.does = "granted", !.grants = p.does]
          OBVIOUS
        <5>2. q.does = "granted" /\ q.stamp = p.stamp
          BY <5>1 DEF ServingState
        <5>3. p.stamp <= now
          BY <4>1 DEF TimesKept, Timed
        <5> QED BY <4>1, <4>3, <5>1, <5>2, <5>3 DEF Granted, NoReset
      <4>7. \E epoch \in Nat, raced \in BOOLEAN :
              sessions' = Append(sessions, NewPair(p.subject, epoch, raced))
        <5>1. CASE FinishLogin(r)
          BY <4>1, <4>3, <5>1 DEF FinishLogin
        <5>2. CASE FinishRefresh(r)
          <6>1. p.item \in DOMAIN sessions
            BY <4>1, <5>2 DEF FinishRefresh, Named
          <6>2. PICK s \in Pair : s = sessions[p.item]
            BY <6>1 DEF AccountsTyped, RowsTyped
          <6>3. s.epoch \in Nat /\ s.raced \in BOOLEAN
            BY DEF Pair
          <6>4. sessions' = Append(sessions, NewPair(p.subject, s.epoch, s.raced))
            BY <4>1, <5>2, <6>2 DEF FinishRefresh
          <6> QED BY <6>3, <6>4
        <5> QED BY <3>5, <5>1, <5>2
      <4> QED BY <4>3, <4>4, <4>5, <4>6, <4>7, TimesOfNewPair
    <3> QED BY <2>3, <3>1, <3>2, <3>3, <3>4, <3>5, HandlingIs DEF Committing
  <2> QED BY <2>1, <2>2, <2>3, SessionsStepIs
<1> QED BY <1>2, <1>3

LEMMA TimesInitiallyKept == SessionsInit => TimesKept
<1> SUFFICES ASSUME SessionsInit PROVE TimesKept
  OBVIOUS
<1>1. sessions = <<>> /\ now = 1 /\ serving = [r \in Requests |-> NotServing]
  BY DEF SessionsInit
<1>2. NotServing.stamp = 0
  BY DEF NotServing
<1> QED BY <1>1, <1>2 DEF TimesKept, Timed

---------------------------------------------------------------------------
(* Guesses are counted, on the accounts no two requests wrote at a time.   *)

\* Every wrong password and every wrong code of u counts.
Counted(u) ==
  u \notin racedAccounts =>
    /\ account[u].failed = wrong[u]
    /\ account[u].lock # "none" <=> wrong[u] >= MaxFailed
    /\ \A k \in DOMAIN codes : codes[k].user = u =>
         /\ codes[k].attempts = codes[k].tried /\ codes[k].tried <= MaxCodeAttempts
         /\ codes[k].uses = IF codes[k].used THEN 1 ELSE 0

\* What a request read of the row and of the code is still so.
UpToDate(q) ==
  q.does \in {"login", "reset"} /\ ~q.overtaken =>
    /\ q.failed = account[q.subject].failed
    /\ q.lock = "none" <=> account[q.subject].lock = "none"
    /\ q.does = "reset" => /\ q.attempts = codes[q.item].attempts
                           /\ q.attempts < MaxCodeAttempts
                           /\ ~codes[q.item].used

GuessesCounted ==
  /\ \A u \in Users : Counted(u)
  /\ \A r \in Requests : UpToDate(serving[r])

\* Nothing of u's guesses changes; a code more is one nobody has answered.
GuessesStay(u) ==
  /\ account'[u].failed = account[u].failed
  /\ account'[u].lock = "none" <=> account[u].lock = "none"
  /\ wrong'[u] = wrong[u]
  /\ \A k \in DOMAIN codes : codes[k].user = u => codes'[k] = codes[k]
  /\ \A k \in DOMAIN codes' \ DOMAIN codes :
       /\ codes'[k].attempts = 0 /\ codes'[k].tried = 0
       /\ ~codes'[k].used /\ codes'[k].uses = 0
  /\ u \in racedAccounts => u \in racedAccounts'

LEMMA CountedStays ==
  ASSUME AccountsTyped, RowsStay, NEW u \in Users, Counted(u), GuessesStay(u)
  PROVE  Counted(u)'
<1>1. MaxCodeAttempts \in Nat \ {0}
  BY SessionsAssumption
<1>2. CASE u \in racedAccounts'
  BY <1>2 DEF Counted
<1>3. CASE u \notin racedAccounts'
  <2>1. u \notin racedAccounts
    BY <1>3 DEF GuessesStay
  <2>2. /\ account'[u].failed = wrong'[u]
        /\ account'[u].lock # "none" <=> wrong'[u] >= MaxFailed
    BY <2>1 DEF Counted, GuessesStay
  <2>3. ASSUME NEW k \in DOMAIN codes', codes'[k].user = u
        PROVE  /\ codes'[k].attempts = codes'[k].tried /\ codes'[k].tried <= MaxCodeAttempts
               /\ codes'[k].uses = IF codes'[k].used THEN 1 ELSE 0
    <3>1. CASE k \in DOMAIN codes
      <4>1. codes'[k] = codes[k] /\ codes[k].user = u
        BY <2>3, <3>1 DEF RowsStay, GuessesStay
      <4> QED BY <2>1, <3>1, <4>1 DEF Counted
    <3>2. CASE k \notin DOMAIN codes
      BY <1>1, <3>2 DEF GuessesStay
    <3> QED BY <3>1, <3>2
  <2> QED BY <2>2, <2>3 DEF Counted
<1> QED BY <1>2, <1>3

LEMMA UpToDateStays ==
  ASSUME NEW q, UpToDate(q), Named(q),
         q.does \in {"login", "reset"} /\ ~q.overtaken => GuessesStay(q.subject)
  PROVE  UpToDate(q)'
BY DEF UpToDate, Named, GuessesStay

\* A step no request takes, or one that only reads.
LEMMA GuessesAllStay ==
  ASSUME AccountsTyped, GuessesCounted, RowsStay, \A u \in Users : GuessesStay(u),
         NEW r \in Requests, NEW q, Moves(r, q), UpToDate(q)'
  PROVE  GuessesCounted'
<1>1. ASSUME NEW u \in Users PROVE Counted(u)'
  BY CountedStays DEF GuessesCounted
<1>2. ASSUME NEW x \in Requests PROVE UpToDate(serving[x])'
  <2>1. PICK p \in ServingState : p = serving[x] /\ Named(p) /\ UpToDate(p)
    BY DEF AccountsTyped, RequestsTyped, GuessesCounted
  <2>2. CASE x = r
    BY <2>2 DEF Moves
  <2>3. CASE x # r /\ serving'[x] = p
    <3>1. UpToDate(p)'
      BY <2>1, UpToDateStays DEF Named
    <3> QED BY <2>3, <3>1
  <2>4. CASE x # r /\ serving'[x] = [p EXCEPT !.overtaken = TRUE]
    <3>1. PICK o : o = [p EXCEPT !.overtaken = TRUE]
      OBVIOUS
    <3>2. o.overtaken
      BY <3>1, OvertakenSame
    <3>3. UpToDate(o)'
      BY <3>2 DEF UpToDate
    <3> QED BY <2>4, <3>1, <3>3
  <2> QED BY <2>1, <2>2, <2>3, <2>4 DEF Moves
<1> QED BY <1>1, <1>2 DEF GuessesCounted

\* A request that writes overtakes those that read the same row.
LEMMA GuessesOfOthersStay ==
  ASSUME AccountsTyped, GuessesCounted, RowsStay,
         NEW r \in Requests, NEW u \in Users, u = serving[r].subject,
         NEW q \in ServingState, q.does \notin {"login", "reset"}, serving' = Overtaking(r, q),
         \A v \in Users \ {u} : GuessesStay(v), Counted(u)'
  PROVE  GuessesCounted'
<1>1. ASSUME NEW v \in Users PROVE Counted(v)'
  BY CountedStays DEF GuessesCounted
<1>2. ASSUME NEW x \in Requests PROVE UpToDate(serving[x])'
  <2>1. PICK p \in ServingState : p = serving[x] /\ Named(p) /\ UpToDate(p)
    BY DEF AccountsTyped, RequestsTyped, GuessesCounted
  <2>2. serving'[x] = IF x = r THEN q
          ELSE IF p.does \in {"login", "reset"} /\ p.subject = u
               THEN [p EXCEPT !.overtaken = TRUE] ELSE p
    BY <2>1 DEF Overtaking
  <2>3. CASE x = r
    <3>1. UpToDate(q)'
      BY DEF UpToDate
    <3> QED BY <2>2, <2>3, <3>1
  <2>4. CASE x # r /\ p.does \in {"login", "reset"} /\ p.subject = u
    <3>1. PICK o : o = [p EXCEPT !.overtaken = TRUE]
      OBVIOUS
    <3>2. o.overtaken
      BY <3>1, OvertakenSame
    <3>3. UpToDate(o)'
      BY <3>2 DEF UpToDate
    <3> QED BY <2>2, <2>4, <3>1, <3>3
  <2>5. CASE x # r /\ ~(p.does \in {"login", "reset"} /\ p.subject = u)
    <3>1. UpToDate(p)'
      BY <2>1, <2>5, UpToDateStays DEF Named
    <3> QED BY <2>2, <2>5, <3>1
  <2> QED BY <2>3, <2>4, <2>5
<1> QED BY <1>1, <1>2 DEF GuessesCounted

LEMMA GuessesStayBeside ==
  ASSUME AccountsTyped, GuessesCounted, scenario' = scenario, Beside
  PROVE  GuessesCounted'
<1>1. RowsStay /\ UNCHANGED <<serving, wrong, racedAccounts>>
  BY BesideTyped, BesideServes
<1>2. ASSUME NEW u \in Users PROVE GuessesStay(u)
  <2>2. CASE \E v \in Users : RequestPasswordReset(v)
    <3>1. PICK v \in Users : RequestPasswordReset(v)
      BY <2>2
    <3>2. PICK c : c = [user |-> v, used |-> FALSE, attempts |-> 0, tried |-> 0, uses |-> 0]
      OBVIOUS
    <3>3. c.attempts = 0 /\ c.tried = 0 /\ ~c.used /\ c.uses = 0
      BY <3>2
    <3>4. /\ DOMAIN codes' = DOMAIN codes \cup {Len(codes) + 1}
          /\ \A k \in DOMAIN codes : codes'[k] = codes[k]
          /\ codes'[Len(codes) + 1] = c
      BY <3>1, <3>2, CodeRequested DEF AccountsTyped
    <3>5. account' = account
      BY <3>1 DEF RequestPasswordReset
    <3> QED BY <1>1, <3>3, <3>4, <3>5 DEF GuessesStay
  <2>3. CASE \E v \in Users : LockExpires(v)
    <3>1. PICK v \in Users : LockExpires(v)
      BY <2>3
    <3>2. codes' = codes
      BY <3>1 DEF LockExpires
    <3>3. /\ account'[u].failed = account[u].failed
          /\ account'[u].lock = "none" <=> account[u].lock = "none"
      BY <3>1, LockExpired DEF AccountsTyped
    <3> QED BY <1>1, <3>2, <3>3 DEF GuessesStay
  <2>4. CASE SecondPasses
    BY <1>1, <2>4 DEF SecondPasses, GuessesStay
  <2>5. CASE Deciding
    <3>1. codes' = codes /\ Kept(account'[u], account[u])
      BY <2>5, DecidingIs, DecidingTyped DEF AccountsTyped
    <3> QED BY <1>1, <3>1 DEF GuessesStay, Kept
  <2> QED BY <2>2, <2>3, <2>4, <2>5 DEF Beside
<1>3. ASSUME NEW u \in Users PROVE Counted(u)'
  BY <1>1, <1>2, CountedStays DEF GuessesCounted
<1>4. ASSUME NEW x \in Requests PROVE UpToDate(serving[x])'
  <2>1. PICK p \in ServingState : p = serving[x] /\ Named(p) /\ UpToDate(p)
    BY DEF AccountsTyped, RequestsTyped, GuessesCounted
  <2>2. p.does \in {"login", "reset"} => p.subject \in Users
    BY <2>1 DEF Named
  <2>3. UpToDate(p)'
    BY <1>2, <2>1, <2>2, UpToDateStays
  <2> QED BY <1>1, <2>1, <2>3
<1> QED BY <1>3, <1>4 DEF GuessesCounted

\* What a request has just read is up to date.
LEMMA ReadUpToDate ==
  ASSUME AccountsTyped, GuessesCounted, NEW r \in Requests, Reading(r)
  PROVE  \E q \in ServingState : serving' = [serving EXCEPT ![r] = q] /\ UpToDate(q)
<1>1. PICK q \in ServingState : serving' = [serving EXCEPT ![r] = q]
  BY ReadingMoves DEF AccountsTyped
<1>2. q = serving'[r]
  BY <1>1 DEF AccountsTyped, RequestsTyped
<1>3. PICK p \in ServingState : p = serving[r]
  BY DEF AccountsTyped, RequestsTyped
<1>4. CASE \E u \in Users, right \in BOOLEAN : StartLogin(r, u, right)
  <2>1. PICK u \in Users, right \in BOOLEAN : StartLogin(r, u, right)
    BY <1>4
  <2>2. q = [NotServing EXCEPT !.does = "login", !.subject = u, !.right = right,
                          !.failed = account[u].failed, !.lock = account[u].lock,
                          !.epoch = resets[u]]
    BY <1>2, <2>1 DEF StartLogin, AccountsTyped, RequestsTyped
  <2>3. q.does = "login" /\ q.subject = u /\ q.failed = account[u].failed /\ q.lock = account[u].lock
    BY <2>2 DEF NotServing
  <2> QED BY <1>1, <2>3 DEF UpToDate
<1>5. CASE \E u \in Users, right \in BOOLEAN : StartReset(r, u, right)
  <2>1. PICK u \in Users, right \in BOOLEAN : StartReset(r, u, right)
    BY <1>5
  <2>2. PICK k \in Unused(u) :
          /\ Answerable(codes[k])
          /\ serving' = [serving EXCEPT ![r] =
               [NotServing EXCEPT !.does = "reset", !.subject = u, !.item = k, !.right = right,
                                  !.failed = account[u].failed, !.lock = account[u].lock,
                                  !.attempts = codes[k].attempts,
                                  !.stamp = IF right THEN now ELSE 0]]
    BY <2>1 DEF StartReset
  <2>3. q = [NotServing EXCEPT !.does = "reset", !.subject = u, !.item = k, !.right = right,
                               !.failed = account[u].failed, !.lock = account[u].lock,
                               !.attempts = codes[k].attempts,
                               !.stamp = IF right THEN now ELSE 0]
    BY <1>2, <2>2 DEF AccountsTyped, RequestsTyped
  <2>4. /\ q.does = "reset" /\ q.subject = u /\ q.item = k
        /\ q.failed = account[u].failed /\ q.lock = account[u].lock /\ q.attempts = codes[k].attempts
    BY <2>3 DEF NotServing
  <2>5. codes[k].attempts < MaxCodeAttempts /\ ~codes[k].used
    BY <2>2 DEF Answerable, Unused
  <2> QED BY <1>1, <2>4, <2>5 DEF UpToDate
<1>6. CASE \E i \in DOMAIN sessions : StartRefresh(r, i) \/ StartCall(r, i)
  <2>1. PICK i \in DOMAIN sessions, does \in {"refresh", "call"} : StartWithToken(r, does, i)
    BY <1>6 DEF StartRefresh, StartCall
  <2>2. q = [NotServing EXCEPT !.does = does, !.subject = sessions[i].user, !.item = i]
    BY <1>2, <2>1 DEF StartWithToken, AccountsTyped, RequestsTyped
  <2>3. q.does = does
    BY <2>2 DEF NotServing
  <2> QED BY <1>1, <2>3 DEF UpToDate
<1>7. CASE ReadUser(r)
  <2>1. q = [p EXCEPT !.right = TRUE] /\ p.does \in {"refresh", "call"}
    BY <1>2, <1>3, <1>7 DEF ReadUser, AccountsTyped, RequestsTyped
  <2>2. q.does = p.does
    BY <2>1 DEF ServingState
  <2> QED BY <1>1, <2>1, <2>2 DEF UpToDate
<1>8. CASE \E e \in scenario.asked : Serve(r, e)
  <2>1. PICK e \in scenario.asked : Serve(r, e)
    BY <1>8
  <2>2. q = [Granted(r) EXCEPT !.endpoint = e] /\ Granted(r) = [p EXCEPT !.does = "granted", !.grants = p.does]
    BY <1>2, <1>3, <2>1 DEF Serve, Granted, AccountsTyped, RequestsTyped
  <2>3. q.does = "granted"
    BY <2>2 DEF ServingState
  <2> QED BY <1>1, <2>3 DEF UpToDate
<1>9. CASE Abort(r) \/ Answer(r)
  <2>1. q = NotServing
    BY <1>2, <1>9 DEF Abort, Answer, AccountsTyped, RequestsTyped
  <2> QED BY <1>1, <2>1, NotServingTyped DEF UpToDate
<1> QED BY <1>4, <1>5, <1>6, <1>7, <1>8, <1>9 DEF Reading

LEMMA GuessesStayReading ==
  ASSUME AccountsTyped, GuessesCounted, NEW r \in Requests, Reading(r)
  PROVE  GuessesCounted'
<1>1. UNCHANGED <<account, sessions, codes, wrong, racedAccounts>>
  BY ReadingIs
<1>2. RowsStay /\ \A u \in Users : GuessesStay(u)
  BY <1>1, RowsAreKept DEF GuessesStay
<1>3. PICK q \in ServingState : serving' = [serving EXCEPT ![r] = q] /\ UpToDate(q)
  BY ReadUpToDate
<1>4. Moves(r, q) /\ UpToDate(q)'
  BY <1>1, <1>3, AloneMoves DEF AccountsTyped, RequestsTyped, UpToDate
<1> QED BY <1>2, <1>4, GuessesAllStay

\* A wrong password counts as one more, and locks the account from MaxFailed of them on.
LEMMA GuessesStayFailLogin ==
  ASSUME AccountsTyped, GuessesCounted, scenario' = scenario, NEW r \in Requests, FailLogin(r)
  PROVE  GuessesCounted'
<1>1. PICK q \in ServingState : q = serving[r] /\ Named(q) /\ UpToDate(q)
  BY DEF AccountsTyped, RequestsTyped, GuessesCounted
<1>2. PICK u \in Users : u = q.subject
  BY <1>1 DEF FailLogin, Named
<1>3. q.failed \in Nat
  BY DEF ServingState
<1>4. RowsStay /\ sessions' = sessions /\ codes' = codes
  BY LoginFailed DEF AccountsTyped, FailLogin
<1>5. Wrote(u, q.failed + 1, IF LockAfter(q.failed + 1) THEN "running" ELSE account[u].lock)
  BY <1>1, <1>2, <1>3, FailureWritten DEF AccountsTyped
<1>6. wrong' = [wrong EXCEPT ![u] = @ + 1] /\ wrong \in [Users -> Nat]
  BY <1>1, <1>2 DEF FailLogin, AccountsTyped, RowsTyped
<1>7. /\ racedAccounts \subseteq racedAccounts'
      /\ q.overtaken => u \in racedAccounts'
  BY <1>1, <1>2 DEF FailLogin
<1>8. ASSUME NEW v \in Users \ {u} PROVE GuessesStay(v)
  BY <1>4, <1>5, <1>6, <1>7 DEF GuessesStay, Wrote
<1>9. ASSUME u \notin racedAccounts' PROVE Counted(u)'
  <2>1. ~q.overtaken /\ u \notin racedAccounts
    BY <1>7, <1>9
  <2>2. q.failed = account[u].failed /\ account[u].failed = wrong[u] /\ wrong[u] \in Nat
    BY <1>1, <1>2, <1>6, <2>1 DEF UpToDate, FailLogin, GuessesCounted, Counted
  <2>3. account'[u].failed = wrong'[u] /\ wrong'[u] = wrong[u] + 1
    BY <1>5, <1>6, <2>2 DEF Wrote
  <2>4. account'[u].lock = IF wrong[u] + 1 >= MaxFailed THEN "running" ELSE account[u].lock
    BY <1>5, <2>2 DEF Wrote, LockAfter
  <2>5. account[u].lock # "none" <=> wrong[u] >= MaxFailed
    BY <2>1 DEF GuessesCounted, Counted
  <2>6. account'[u].lock # "none" <=> wrong'[u] >= MaxFailed
    BY <2>2, <2>3, <2>4, <2>5, SessionsAssumption
  <2>7. Counted(u)'
    BY <1>4, <2>1, <2>3, <2>6 DEF GuessesCounted, Counted
  <2> QED BY <2>7
<1>10. ASSUME u \in racedAccounts' PROVE Counted(u)'
  BY <1>10 DEF Counted
<1>11. serving' = Overtaking(r, NotServing)
  BY DEF FailLogin
<1>12. Counted(u)'
  BY <1>9, <1>10
<1> QED BY <1>1, <1>2, <1>4, <1>8, <1>11, <1>12, NotServingTyped, GuessesOfOthersStay

\* The right password, or a reset, clears what was counted.
LEMMA Cleared ==
  ASSUME AccountsTyped, GuessesCounted, NEW q \in ServingState, UpToDate(q),
         q.does \in {"login", "reset"}, ~q.overtaken, NEW u \in Users, u = q.subject,
         u \notin racedAccounts,
         Wrote(u, Write(q.failed, 0, account[u].failed), Write(q.lock, "none", account[u].lock)),
         wrong'[u] = 0
  PROVE  /\ account'[u].failed = wrong'[u]
         /\ account'[u].lock # "none" <=> wrong'[u] >= MaxFailed
<1>1. q.failed = account[u].failed /\ (q.lock = "none" <=> account[u].lock = "none")
  BY DEF UpToDate
<1>2. account'[u].failed = 0 /\ account'[u].lock = "none"
  BY <1>1 DEF Wrote, Write
<1> QED BY <1>2, SessionsAssumption

LEMMA GuessesStayFinishLogin ==
  ASSUME AccountsTyped, GuessesCounted, scenario' = scenario, NEW r \in Requests, FinishLogin(r)
  PROVE  GuessesCounted'
<1>1. PICK q \in ServingState : q = serving[r] /\ Named(q) /\ UpToDate(q)
  BY DEF AccountsTyped, RequestsTyped, GuessesCounted
<1>2. PICK u \in Users : u = q.subject
  BY <1>1 DEF FinishLogin, Named
<1>3. q.failed \in Nat /\ q.lock \in Lock
  BY DEF ServingState
<1>4. RowsStay /\ codes' = codes
  BY LoginFinished DEF AccountsTyped, FinishLogin
<1>5. Wrote(u, Write(q.failed, 0, account[u].failed), Write(q.lock, "none", account[u].lock))
  <2>1. account' = [account EXCEPT ![u].failed = Write(q.failed, 0, @), ![u].lock = Write(q.lock, "none", @)]
    BY <1>1, <1>2 DEF FinishLogin
  <2> QED BY <1>3, <2>1, ClearanceWritten DEF AccountsTyped
<1>6. wrong' = [wrong EXCEPT ![u] = 0] /\ wrong \in [Users -> Nat]
  BY <1>1, <1>2 DEF FinishLogin, AccountsTyped, RowsTyped
<1>7. /\ racedAccounts \subseteq racedAccounts'
      /\ q.overtaken => u \in racedAccounts'
  BY <1>1, <1>2 DEF FinishLogin
<1>8. ASSUME NEW v \in Users \ {u} PROVE GuessesStay(v)
  BY <1>4, <1>5, <1>6, <1>7 DEF GuessesStay, Wrote
<1>9. ASSUME u \notin racedAccounts' PROVE Counted(u)'
  <2>1. ~q.overtaken /\ u \notin racedAccounts
    BY <1>7, <1>9
  <2>2. wrong'[u] = 0
    BY <1>6
  <2>3. q.does = "login"
    BY <1>1 DEF FinishLogin
  <2>4. /\ account'[u].failed = wrong'[u]
        /\ account'[u].lock # "none" <=> wrong'[u] >= MaxFailed
    BY <1>1, <1>2, <1>5, <2>1, <2>2, <2>3, Cleared
  <2> QED BY <1>4, <2>1, <2>4 DEF GuessesCounted, Counted
<1>10. ASSUME u \in racedAccounts' PROVE Counted(u)'
  BY <1>10 DEF Counted
<1>11. serving' = Overtaking(r, Granted(r)) /\ q.does = "login"
  BY <1>1 DEF FinishLogin
<1>12. Granted(r) \in ServingState /\ Granted(r).does = "granted"
  BY <1>1, <1>11, GrantedNamed DEF AccountsTyped
<1>13. Counted(u)'
  BY <1>9, <1>10
<1> QED BY <1>1, <1>2, <1>4, <1>8, <1>11, <1>12, <1>13, GuessesOfOthersStay

LEMMA GuessesStayFinishRefresh ==
  ASSUME AccountsTyped, GuessesCounted, scenario' = scenario, NEW r \in Requests, FinishRefresh(r)
  PROVE  GuessesCounted'
<1>1. RowsStay /\ Moves(r, Granted(r))
  BY RefreshFinished DEF AccountsTyped
<1>2. UNCHANGED <<account, codes, wrong, racedAccounts>>
  BY DEF FinishRefresh
<1>3. \A u \in Users : GuessesStay(u)
  BY <1>2 DEF GuessesStay
<1>4. Granted(r).does = "granted"
  BY GrantedNamed DEF AccountsTyped, FinishRefresh
<1>5. PICK q : q = Granted(r)
  OBVIOUS
<1>6. UpToDate(q)'
  BY <1>4, <1>5 DEF UpToDate
<1> QED BY <1>1, <1>3, <1>5, <1>6, GuessesAllStay

LEMMA GuessesStayFailReset ==
  ASSUME AccountsTyped, GuessesCounted, scenario' = scenario, NEW r \in Requests, FailReset(r)
  PROVE  GuessesCounted'
<1>1. PICK q \in ServingState : q = serving[r] /\ Named(q) /\ UpToDate(q)
  BY DEF AccountsTyped, RequestsTyped, GuessesCounted
<1>2. PICK u \in Users : u = q.subject
  BY <1>1 DEF FailReset, Named
<1>3. account' = account /\ wrong' = wrong
  BY DEF FailReset
<1>4. PICK k \in DOMAIN codes : k = q.item /\ codes[k].user = u
  BY <1>1, <1>2, CodeFailed DEF AccountsTyped
<1>5. /\ DOMAIN codes' = DOMAIN codes
      /\ \A j \in DOMAIN codes : j # k => codes'[j] = codes[j]
      /\ codes'[k].used = codes[k].used /\ codes'[k].uses = codes[k].uses
      /\ codes'[k].attempts = q.attempts + 1 /\ codes'[k].tried = codes[k].tried + 1
      /\ RowsStay
  BY <1>1, <1>4, CodeFailed DEF AccountsTyped
<1>6. /\ racedAccounts \subseteq racedAccounts'
      /\ q.overtaken => u \in racedAccounts'
  BY <1>1, <1>2 DEF FailReset
<1>7. ASSUME NEW v \in Users \ {u} PROVE GuessesStay(v)
  BY <1>3, <1>4, <1>5, <1>6 DEF GuessesStay
<1>8. ASSUME u \notin racedAccounts' PROVE Counted(u)'
  <2>1. ~q.overtaken /\ u \notin racedAccounts /\ q.does = "reset"
    BY <1>1, <1>6, <1>8 DEF FailReset
  <2>2. q.attempts = codes[k].attempts /\ q.attempts < MaxCodeAttempts /\ ~codes[k].used
    BY <1>1, <1>4, <2>1 DEF UpToDate
  <2>3. ASSUME NEW j \in DOMAIN codes, codes[j].user = u
        PROVE  /\ codes[j].attempts = codes[j].tried /\ codes[j].tried <= MaxCodeAttempts
               /\ codes[j].uses = IF codes[j].used THEN 1 ELSE 0
    BY <2>1, <2>3 DEF GuessesCounted, Counted
  <2>4. q.attempts \in Nat /\ MaxCodeAttempts \in Nat
    BY SessionsAssumption DEF ServingState
  <2>5. /\ codes'[k].attempts = codes'[k].tried /\ codes'[k].tried <= MaxCodeAttempts
        /\ codes'[k].uses = IF codes'[k].used THEN 1 ELSE 0
    BY <1>4, <1>5, <2>2, <2>3, <2>4
  <2>6. ASSUME NEW j \in DOMAIN codes', codes'[j].user = u
        PROVE  /\ codes'[j].attempts = codes'[j].tried /\ codes'[j].tried <= MaxCodeAttempts
               /\ codes'[j].uses = IF codes'[j].used THEN 1 ELSE 0
    <3>1. CASE j = k
      BY <2>5, <3>1
    <3>2. CASE j # k
      <4>1. j \in DOMAIN codes /\ codes'[j] = codes[j]
        BY <1>5, <3>2
      <4> QED BY <2>3, <2>6, <4>1
    <3> QED BY <3>1, <3>2
  <2> QED BY <1>3, <2>1, <2>6 DEF GuessesCounted, Counted
<1>9. ASSUME u \in racedAccounts' PROVE Counted(u)'
  BY <1>9 DEF Counted
<1>10. serving' = Overtaking(r, NotServing)
  BY DEF FailReset
<1>11. Counted(u)'
  BY <1>8, <1>9
<1> QED BY <1>1, <1>2, <1>5, <1>7, <1>10, <1>11, NotServingTyped, GuessesOfOthersStay

LEMMA GuessesStayFinishReset ==
  ASSUME AccountsTyped, GuessesCounted, scenario' = scenario, NEW r \in Requests, FinishReset(r)
  PROVE  GuessesCounted'
<1>1. PICK q \in ServingState : q = serving[r] /\ Named(q) /\ UpToDate(q)
  BY DEF AccountsTyped, RequestsTyped, GuessesCounted
<1>2. PICK u \in Users : u = q.subject
  BY <1>1 DEF FinishReset, Named
<1>3. q.failed \in Nat /\ q.lock \in Lock
  BY DEF ServingState
<1>4. PICK k \in DOMAIN codes : k = q.item /\ codes[k].user = u
  BY <1>1, <1>2, CodeUsed DEF AccountsTyped
<1>5. /\ DOMAIN codes' = DOMAIN codes
      /\ \A j \in DOMAIN codes : j # k => codes'[j] = codes[j]
      /\ codes'[k].used /\ codes'[k].uses = codes[k].uses + 1
      /\ codes'[k].attempts = codes[k].attempts /\ codes'[k].tried = codes[k].tried
      /\ RowsStay
  BY <1>1, <1>4, CodeUsed DEF AccountsTyped
<1>6. Wrote(u, Write(q.failed, 0, account[u].failed), Write(q.lock, "none", account[u].lock))
  <2>1. account' = [account EXCEPT ![u].failed = Write(q.failed, 0, @), ![u].lock = Write(q.lock, "none", @)]
    BY <1>1, <1>2 DEF FinishReset
  <2> QED BY <1>3, <2>1, ClearanceWritten DEF AccountsTyped
<1>7. wrong' = [wrong EXCEPT ![u] = 0] /\ wrong \in [Users -> Nat]
  BY <1>1, <1>2 DEF FinishReset, AccountsTyped, RowsTyped
<1>8. /\ racedAccounts \subseteq racedAccounts'
      /\ q.overtaken => u \in racedAccounts'
  BY <1>1, <1>2 DEF FinishReset
<1>9. ASSUME NEW v \in Users \ {u} PROVE GuessesStay(v)
  BY <1>4, <1>5, <1>6, <1>7, <1>8 DEF GuessesStay, Wrote
<1>10. ASSUME u \notin racedAccounts' PROVE Counted(u)'
  <2>1. ~q.overtaken /\ u \notin racedAccounts /\ q.does = "reset"
    BY <1>1, <1>8, <1>10 DEF FinishReset
  <2>2. ~codes[k].used
    BY <1>1, <1>4, <2>1 DEF UpToDate
  <2>3. wrong'[u] = 0
    BY <1>7
  <2>4. /\ account'[u].failed = wrong'[u]
        /\ account'[u].lock # "none" <=> wrong'[u] >= MaxFailed
    BY <1>1, <1>2, <1>6, <2>1, <2>3, Cleared
  <2>5. ASSUME NEW j \in DOMAIN codes, codes[j].user = u
        PROVE  /\ codes[j].attempts = codes[j].tried /\ codes[j].tried <= MaxCodeAttempts
               /\ codes[j].uses = IF codes[j].used THEN 1 ELSE 0
    BY <2>1, <2>5 DEF GuessesCounted, Counted
  <2>6. ASSUME NEW j \in DOMAIN codes', codes'[j].user = u
        PROVE  /\ codes'[j].attempts = codes'[j].tried /\ codes'[j].tried <= MaxCodeAttempts
               /\ codes'[j].uses = IF codes'[j].used THEN 1 ELSE 0
    <3>1. CASE j = k
      BY <1>4, <1>5, <2>2, <2>5, <3>1
    <3>2. CASE j # k
      <4>1. j \in DOMAIN codes /\ codes'[j] = codes[j]
        BY <1>5, <3>2
      <4> QED BY <2>5, <2>6, <4>1
    <3> QED BY <3>1, <3>2
  <2> QED BY <2>4, <2>6 DEF Counted
<1>11. ASSUME u \in racedAccounts' PROVE Counted(u)'
  BY <1>11 DEF Counted
<1>12. serving' = Overtaking(r, NotServing)
  BY DEF FinishReset
<1>13. Counted(u)'
  BY <1>10, <1>11
<1> QED BY <1>1, <1>2, <1>5, <1>9, <1>12, <1>13, NotServingTyped, GuessesOfOthersStay

LEMMA GuessesStayLogout ==
  ASSUME AccountsTyped, GuessesCounted, scenario' = scenario, NEW r \in Requests, NEW brought,
         Logout(r, brought)
  PROVE  GuessesCounted'
<1>1. RowsStay /\ Moves(r, NotServing)
  BY LogoutFinished DEF AccountsTyped
<1>2. UNCHANGED <<account, codes, wrong, racedAccounts>>
  BY DEF Logout
<1>3. \A u \in Users : GuessesStay(u)
  BY <1>2 DEF GuessesStay
<1>4. UpToDate(NotServing)'
  BY NotServingTyped DEF UpToDate
<1> QED BY <1>1, <1>3, <1>4, GuessesAllStay

LEMMA GuessesStayCounted ==
  ASSUME AccountsTyped, GuessesCounted, [SessionsNext]_sessionVars
  PROVE  GuessesCounted'
<1>1. CASE UNCHANGED sessionVars
  BY <1>1 DEF sessionVars, GuessesCounted, Counted, UpToDate
<1>2. CASE SessionsNext
  <2>1. SessionsStep /\ scenario' = scenario
    BY <1>2 DEF SessionsNext
  <2>2. CASE Beside
    BY <2>1, <2>2, GuessesStayBeside
  <2>3. ASSUME NEW r \in Requests, Handling(r) PROVE GuessesCounted'
    BY <2>1, <2>3, HandlingIs, GuessesStayReading, GuessesStayFailLogin, GuessesStayFinishLogin,
       GuessesStayFinishRefresh, GuessesStayFailReset, GuessesStayFinishReset,
       GuessesStayLogout DEF Committing
  <2> QED BY <2>1, <2>2, <2>3, SessionsStepIs
<1> QED BY <1>1, <1>2

LEMMA GuessesInitiallyCounted == SessionsInit => GuessesCounted
<1> SUFFICES ASSUME SessionsInit PROVE GuessesCounted
  OBVIOUS
<1>1. ASSUME NEW u \in Users PROVE Counted(u)
  BY SessionsAssumption DEF SessionsInit, Counted
<1>2. ASSUME NEW r \in Requests PROVE UpToDate(serving[r])
  BY NotServingTyped DEF SessionsInit, UpToDate
<1> QED BY <1>1, <1>2 DEF GuessesCounted

LEMMA CountedIsBounded == AccountsTyped /\ GuessesCounted => GuessesAreBounded
<1> SUFFICES ASSUME AccountsTyped, GuessesCounted PROVE GuessesAreBounded
  OBVIOUS
<1> SUFFICES ASSUME NEW u \in Users \ racedAccounts
             PROVE  /\ account[u].failed = wrong[u]
                    /\ account[u].lock # "none" <=> wrong[u] >= MaxFailed
                    /\ \A k \in DOMAIN codes : codes[k].user = u =>
                         codes[k].tried <= MaxCodeAttempts /\ codes[k].uses <= 1
  BY DEF GuessesAreBounded
<1>1. Counted(u)
  BY DEF GuessesCounted
<1> QED BY <1>1 DEF Counted

---------------------------------------------------------------------------
(* Nothing is granted while it is barred.                                  *)

OfPermissions(endpoints) == \A e \in endpoints : e.any \subseteq Permission

LEMMA AskedOfPermissions ==
  ASSUME NEW scope, NEW any \in SUBSET Permission, NEW handlers
  PROVE  OfPermissions(Ask(scope, any, handlers))
BY DEF OfPermissions, Ask

LEMMA BothOfPermissions ==
  ASSUME NEW a, NEW b, OfPermissions(a), OfPermissions(b)
  PROVE  OfPermissions(a \cup b)
BY DEF OfPermissions

\* Whatever an endpoint asks for is a permission.
LEMMA ServedOfPermissions == OfPermissions(Served)
<1>1. /\ {} \in SUBSET Permission
      /\ {"employee.manage"} \in SUBSET Permission
      /\ {"entry.manage", "transfer.create", "payment.create", "operation.validate"} \in SUBSET Permission
      /\ {"wallet.manage"} \in SUBSET Permission
      /\ {"national_operation.manage"} \in SUBSET Permission
      /\ {"collaboration.manage"} \in SUBSET Permission
      /\ CollaborationViewers \in SUBSET Permission
      /\ {"rate.private.view"} \in SUBSET Permission
      /\ {"rate.private.manage"} \in SUBSET Permission
      /\ {"entry.manage"} \in SUBSET Permission
  BY DEF Permission, CollaborationViewers
<1>2. /\ {"transfer.create"} \in SUBSET Permission
      /\ {"operation.validate"} \in SUBSET Permission
      /\ {"transfer.create", "operation.validate"} \in SUBSET Permission
      /\ {"payment.create"} \in SUBSET Permission
      /\ {"payment.create", "operation.validate"} \in SUBSET Permission
      /\ {"client.manage"} \in SUBSET Permission
      /\ {"supplier.manage"} \in SUBSET Permission
      /\ {"dashboard.view"} \in SUBSET Permission
      /\ {"report.view"} \in SUBSET Permission
      /\ {"report.export"} \in SUBSET Permission
  BY DEF Permission
<1>3. OfPermissions(AuthEndpoints) /\ OfPermissions(CompanyEndpoints)
      /\ OfPermissions(EmployeeEndpoints) /\ OfPermissions(WalletEndpoints)
  BY <1>1, AskedOfPermissions, BothOfPermissions
     DEF AuthEndpoints, CompanyEndpoints, EmployeeEndpoints, WalletEndpoints, Company
<1>4. OfPermissions(NationalOperationEndpoints) /\ OfPermissions(CollaborationEndpoints)
      /\ OfPermissions(CollaborationChangeEndpoints) /\ OfPermissions(PrivateRateEndpoints)
      /\ OfPermissions(EntryEndpoints)
  BY <1>1, AskedOfPermissions, BothOfPermissions
     DEF NationalOperationEndpoints, CollaborationEndpoints, CollaborationChangeEndpoints,
         PrivateRateEndpoints, EntryEndpoints, Company
<1>5. OfPermissions(TransferEndpoints) /\ OfPermissions(TransferProofEndpoints)
      /\ OfPermissions(PaymentEndpoints) /\ OfPermissions(PaymentProofEndpoints)
  BY <1>2, AskedOfPermissions, BothOfPermissions
     DEF TransferEndpoints, TransferProofEndpoints, PaymentEndpoints, PaymentProofEndpoints, Company
<1>6. OfPermissions(ClientEndpoints) /\ OfPermissions(SupplierEndpoints)
      /\ OfPermissions(NotificationEndpoints) /\ OfPermissions(AuditLogEndpoints)
      /\ OfPermissions(DashboardEndpoints)
  BY <1>2, AskedOfPermissions
     DEF ClientEndpoints, SupplierEndpoints, NotificationEndpoints, AuditLogEndpoints,
         DashboardEndpoints, Company
<1>7. OfPermissions(BookReportEndpoints) /\ OfPermissions(ActivityReportEndpoints)
  BY <1>2, AskedOfPermissions, BothOfPermissions
     DEF BookReportEndpoints, ActivityReportEndpoints, Reports, Company
<1>8. OfPermissions(AdminEndpoints) /\ OfPermissions(PlatformEndpoints)
  BY <1>1, AskedOfPermissions DEF AdminEndpoints, PlatformEndpoints
<1> QED BY <1>3, <1>4, <1>5, <1>6, <1>7, <1>8 DEF OfPermissions, Served

\* What each bar on r says of the accounts.
BarsSay(r) ==
  LET q == serving[r]
      u == q.subject
  IN /\ "stale" \in BarsOn(r) => Stale(sessions[q.item])
     /\ "revoked" \in BarsOn(r) => Presented(q) = "revoked"
     /\ "inactive" \in BarsOn(r) => ~Active(u)
     /\ "locked" \in BarsOn(r) => account[u].lock = "running"
     /\ "suspended" \in BarsOn(r) => ~CompanyServed(u)
     /\ "pending" \in BarsOn(r) => ~CompanyActive(u)
     /\ "maintenance" \in BarsOn(r) => settings.maintenance /\ ~Admin(u)
     /\ \A p \in Permission : p \in BarsOn(r) => p \notin Effective(u)

AllBarsSay == \A r \in Requests : BarsSay(r)

LEMMA BarsDo == AllBarsSay
<1> SUFFICES ASSUME NEW r \in Requests PROVE BarsSay(r)
  BY DEF AllBarsSay
<1>1. PICK q : q = serving[r]
  OBVIOUS
<1>2. PICK u : u = q.subject
  OBVIOUS
<1> DEFINE bar == [stale |-> q.item # 0 /\ Stale(sessions[q.item]),
                   revoked |-> q.item # 0 /\ Presented(q) = "revoked",
                   inactive |-> ~Active(u),
                   locked |-> account[u].lock = "running",
                   suspended |-> ~CompanyServed(u),
                   pending |-> ~CompanyActive(u),
                   maintenance |-> settings.maintenance /\ ~Admin(u)]
           names == {"stale", "revoked", "inactive", "locked", "suspended", "pending", "maintenance"}
<1>3. BarsOn(r) = {b \in names : bar[b]} \cup (Permission \ Effective(u))
  BY <1>1, <1>2 DEF BarsOn
<1>4. \A p \in Permission : p \notin names
  BY DEF Permission
<1>5. /\ bar["stale"] => Stale(sessions[q.item])
      /\ bar["revoked"] => Presented(q) = "revoked"
      /\ bar["inactive"] => ~Active(u)
      /\ bar["locked"] => account[u].lock = "running"
      /\ bar["suspended"] => ~CompanyServed(u)
      /\ bar["pending"] => ~CompanyActive(u)
      /\ bar["maintenance"] => settings.maintenance /\ ~Admin(u)
  OBVIOUS
<1> HIDE DEF bar
<1> QED BY <1>1, <1>2, <1>3, <1>4, <1>5 DEF BarsSay

\* What a request in progress has passed has not barred it since it started.
Unbarred(q, bars) ==
  /\ q.does = "login" => bars \cap {"suspended", "pending", "locked", "maintenance"} = {}
  /\ q.does = "login" /\ q.right => "inactive" \notin bars
  /\ q.does \in {"refresh", "call"} => "revoked" \notin bars
  /\ q.does \in {"refresh", "call"} /\ q.right => bars \cap {"inactive", "stale"} = {}
  /\ q.does = "refresh" /\ q.right => "locked" \notin bars
  /\ q.does = "granted" =>
       /\ bars \cap {"inactive", "suspended"} = {}
       /\ q.grants \in {"login", "refresh"} => bars \cap {"pending", "locked"} = {}
       /\ q.grants = "login" => "maintenance" \notin bars
       /\ q.grants \in {"refresh", "call"} => bars \cap {"stale", "revoked"} = {}
       /\ q.grants = "call" =>
            /\ q.endpoint.scope # "platform" => "maintenance" \notin bars
            /\ q.endpoint.any = {} \/ ~(q.endpoint.any \subseteq bars)

RequestsUnbarred ==
  /\ barred \in [Requests -> SUBSET (Permission \cup
       {"stale", "revoked", "inactive", "locked", "suspended", "pending", "maintenance"})]
  /\ \A r \in Requests : Unbarred(serving[r], barred[r])

\* What has barred a request, after a step.
LEMMA WatchedIs ==
  ASSUME Watched, NEW r \in Requests
  PROVE  /\ serving'[r].does \in {"nothing", "reset"} => barred'[r] = {}
         /\ serving'[r].does \notin {"nothing", "reset"} /\ serving[r].does = "granted" =>
              barred'[r] = barred[r]
         /\ serving'[r].does \notin {"nothing", "reset"} /\ Idle(r) => barred'[r] = BarsOn(r)'
         /\ serving'[r].does \notin {"nothing", "reset"} /\ serving[r].does \notin {"granted", "nothing"} =>
              barred'[r] = barred[r] \cap BarsOn(r)'
<1>1. barred'[r] =
        IF serving'[r].does \in {"nothing", "reset"} THEN {}
        ELSE IF serving[r].does = "granted" THEN barred[r]
        ELSE IF Idle(r) THEN BarsOn(r)'
        ELSE barred[r] \cap BarsOn(r)'
  BY DEF Watched
<1> QED BY <1>1 DEF Idle

LEMMA BarsTyped ==
  ASSUME Watched, barred \in [Requests -> SUBSET (Permission \cup
           {"stale", "revoked", "inactive", "locked", "suspended", "pending", "maintenance"})]
  PROVE  (barred \in [Requests -> SUBSET (Permission \cup
           {"stale", "revoked", "inactive", "locked", "suspended", "pending", "maintenance"})])'
<1> DEFINE Bars == Permission \cup {"stale", "revoked", "inactive", "locked", "suspended", "pending", "maintenance"}
<1>1. ASSUME NEW r \in Requests PROVE BarsOn(r)' \subseteq Bars
  BY DEF BarsOn
<1>2. ASSUME NEW r \in Requests PROVE barred'[r] \subseteq Bars
  <2>1. barred[r] \subseteq Bars
    OBVIOUS
  <2> HIDE DEF Bars
  <2> QED BY <1>1, <2>1, WatchedIs DEF Idle
<1>3. barred' = [r \in Requests |-> barred'[r]]
  BY DEF Watched
<1> HIDE DEF Bars
<1>4. barred' \in [Requests -> SUBSET Bars]
  BY <1>2, <1>3
<1> QED BY <1>4 DEF Bars

\* The same request with no more bars than before.
LEMMA StillUnbarred ==
  ASSUME NEW q, NEW bars, Unbarred(q, bars), NEW p, NEW less \in SUBSET bars,
         p.does = q.does, p.right <=> q.right, p.grants = q.grants,
         p.endpoint = q.endpoint, p.does = "granted" => less = bars
  PROVE  Unbarred(p, less)
BY DEF Unbarred

\* A request the step is not about.
LEMMA OthersStayUnbarred ==
  ASSUME AccountsTyped, RequestsUnbarred, Watched, NEW x \in Requests,
         \/ serving'[x] = serving[x]
         \/ /\ serving[x].does \in {"login", "reset"}
            /\ serving'[x] = [serving[x] EXCEPT !.overtaken = TRUE]
  PROVE  Unbarred(serving[x], barred[x])'
<1>1. PICK q \in ServingState : q = serving[x] /\ Named(q)
  BY DEF AccountsTyped, RequestsTyped
<1>2. PICK p : p = serving'[x]
  OBVIOUS
<1>3. /\ p.does = q.does /\ p.item = q.item /\ p.grants = q.grants /\ p.endpoint = q.endpoint
      /\ p.right <=> q.right
  <2>1. CASE p = q
    BY <2>1
  <2>2. CASE p = [q EXCEPT !.overtaken = TRUE]
    BY <2>2, OvertakenSame
  <2> QED BY <1>1, <1>2, <2>1, <2>2
<1>4. Unbarred(q, barred[x])
  BY <1>1 DEF RequestsUnbarred
<1>5. barred'[x] \subseteq barred[x] /\ (p.does = "granted" => barred'[x] = barred[x])
  <2>1. PICK bars, current : bars = barred[x] /\ current = BarsOn(x)'
    OBVIOUS
  <2>2. /\ p.does \in {"nothing", "reset"} => barred'[x] = {}
        /\ p.does \notin {"nothing", "reset"} /\ q.does = "granted" => barred'[x] = bars
        /\ p.does \notin {"nothing", "reset"} /\ q.does \notin {"granted", "nothing"} =>
             barred'[x] = bars \cap current
    BY <1>1, <1>2, <2>1, WatchedIs
  <2> QED BY <1>3, <2>1, <2>2
<1>6. PICK less : less = barred'[x]
  OBVIOUS
<1>7. Unbarred(p, less)
  <2>1. PICK bars : bars = barred[x]
    OBVIOUS
  <2>2. Unbarred(q, bars) /\ less \in SUBSET bars /\ (p.does = "granted" => less = bars)
    BY <1>4, <1>5, <1>6, <2>1
  <2> QED BY <1>1, <1>3, <2>2, StillUnbarred
<1> QED BY <1>2, <1>6, <1>7

\* One that ends is barred by nothing, nor is one about a password's reset.
LEMMA EndedUnbarred ==
  ASSUME Watched, NEW r \in Requests, serving'[r].does \in {"nothing", "reset"}
  PROVE  Unbarred(serving[r], barred[r])'
BY DEF Unbarred

LEMMA LoginStartsUnbarred ==
  ASSUME AccountsTyped, Watched, NEW r \in Requests, NEW u \in Users, NEW right \in BOOLEAN,
         StartLogin(r, u, right)
  PROVE  Unbarred(serving[r], barred[r])'
<1>1. PICK q : q = [NotServing EXCEPT !.does = "login", !.subject = u, !.right = right,
                          !.failed = account[u].failed, !.lock = account[u].lock,
                          !.epoch = resets[u]]
  OBVIOUS
<1>2. q.does = "login" /\ q.subject = u /\ (q.right <=> right)
  BY <1>1 DEF NotServing
<1>3. serving'[r] = q
  BY <1>1 DEF StartLogin, AccountsTyped, RequestsTyped
<1>4. UNCHANGED <<account, overrides, company, settings>>
  BY DEF StartLogin
<1>5. AllBarsSay'
  BY BarsDo, PTL
<1>6. PICK bars : bars = BarsOn(r)'
  OBVIOUS
<1>7. /\ "inactive" \in bars => ~Active(u)'
      /\ "locked" \in bars => account'[u].lock = "running"
      /\ "suspended" \in bars => ~CompanyServed(u)'
      /\ "pending" \in bars => ~CompanyActive(u)'
      /\ "maintenance" \in bars => settings'.maintenance /\ ~Admin(u)'
  BY <1>2, <1>3, <1>5, <1>6 DEF AllBarsSay, BarsSay
<1>8. CompanyActive(u)' /\ CompanyServed(u)' /\ (settings'.maintenance => Admin(u)')
  BY <1>4 DEF StartLogin, CompanyActive, CompanyServed, Admin
<1>9. right => Active(u)'
  BY <1>4 DEF StartLogin, Active, Known
<1>10. account'[u].lock # "running"
  BY <1>4 DEF StartLogin
<1>11. barred'[r] = bars
  BY <1>2, <1>3, <1>6, WatchedIs DEF StartLogin
<1>12. Unbarred(q, bars)'
  BY <1>2, <1>7, <1>8, <1>9, <1>10 DEF Unbarred
<1> QED BY <1>3, <1>11, <1>12

LEMMA TokenStartsUnbarred ==
  ASSUME AccountsTyped, Watched, NEW r \in Requests, NEW i \in DOMAIN sessions,
         StartRefresh(r, i) \/ StartCall(r, i)
  PROVE  Unbarred(serving[r], barred[r])'
<1>1. PICK does \in {"refresh", "call"} :
        /\ StartWithToken(r, does, i)
        /\ IF does = "refresh" THEN sessions[i].refresh = "live" ELSE sessions[i].access = "live"
  BY DEF StartRefresh, StartCall
<1>2. PICK q : q = [NotServing EXCEPT !.does = does, !.subject = sessions[i].user, !.item = i]
  OBVIOUS
<1>3. q.does = does /\ q.item = i /\ q.grants = "nothing" /\ ~q.right
  BY <1>2 DEF NotServing
<1>4. serving'[r] = q /\ sessions' = sessions
  BY <1>1, <1>2 DEF StartWithToken, AccountsTyped, RequestsTyped
<1>5. AllBarsSay'
  BY BarsDo, PTL
<1>6. PICK bars : bars = BarsOn(r)'
  OBVIOUS
<1>7. Presented(q)' = "live"
  BY <1>1, <1>3, <1>4 DEF Presented
<1>8. "revoked" \notin bars
  BY <1>3, <1>4, <1>5, <1>6, <1>7 DEF AllBarsSay, BarsSay
<1>9. barred'[r] = bars
  BY <1>1, <1>3, <1>4, <1>6, WatchedIs DEF StartWithToken
<1>10. Unbarred(q, bars)'
  BY <1>3, <1>8 DEF Unbarred
<1> QED BY <1>4, <1>9, <1>10

LEMMA UserReadUnbarred ==
  ASSUME AccountsTyped, RequestsUnbarred, Watched, NEW r \in Requests, ReadUser(r)
  PROVE  Unbarred(serving[r], barred[r])'
<1>1. PICK p \in ServingState : p = serving[r] /\ Named(p)
  BY DEF AccountsTyped, RequestsTyped
<1>2. PICK q : q = [p EXCEPT !.right = TRUE]
  OBVIOUS
<1>3. q.does = p.does /\ q.item = p.item /\ q.subject = p.subject
  BY <1>2 DEF ServingState
<1>4. serving'[r] = q /\ UNCHANGED <<account, sessions, changedAt>>
  BY <1>1, <1>2 DEF ReadUser, AccountsTyped, RequestsTyped
<1>5. AllBarsSay'
  BY BarsDo, PTL
<1>6. PICK before, current : before = barred[r] /\ current = BarsOn(r)'
  OBVIOUS
<1>7. /\ "inactive" \in current => ~Active(q.subject)'
      /\ "locked" \in current => account'[q.subject].lock = "running"
      /\ "stale" \in current => Stale(sessions[q.item])'
  BY <1>4, <1>5, <1>6 DEF AllBarsSay, BarsSay
<1>8. p.does \in {"refresh", "call"} /\ ~Stale(sessions[p.item])
  BY <1>1 DEF ReadUser
<1>9. "revoked" \notin before /\ "stale" \notin current
  <2>1. Stale(sessions[q.item])' <=> Stale(sessions[p.item])
    BY <1>3, <1>4 DEF Stale
  <2> QED BY <1>1, <1>6, <1>7, <1>8, <2>1 DEF RequestsUnbarred, Unbarred
<1>10. "inactive" \notin current
  BY <1>1, <1>3, <1>4, <1>7 DEF ReadUser, Active, Known
<1>11. p.does = "refresh" => "locked" \notin current
  BY <1>1, <1>3, <1>4, <1>7 DEF ReadUser
<1>12. barred'[r] = before \cap current
  BY <1>1, <1>3, <1>4, <1>6, <1>8, WatchedIs
<1>13. Unbarred(q, before \cap current)'
  BY <1>3, <1>8, <1>9, <1>10, <1>11 DEF Unbarred
<1> QED BY <1>4, <1>12, <1>13

LEMMA ServedUnbarred ==
  ASSUME AccountsTyped, RequestsUnbarred, Watched, NEW r \in Requests,
         NEW e \in scenario.asked, Serve(r, e)
  PROVE  Unbarred(serving[r], barred[r])'
<1>1. PICK p \in ServingState : p = serving[r] /\ Named(p)
  BY DEF AccountsTyped, RequestsTyped
<1>2. p.does = "call" /\ p.right
  BY <1>1 DEF Serve
<1>3. PICK q : q = [p EXCEPT !.does = "granted", !.grants = "call", !.endpoint = e]
  OBVIOUS
<1>4. q.does = "granted" /\ q.grants = "call" /\ q.endpoint = e /\ q.subject = p.subject
  BY <1>3 DEF ServingState
<1>5. serving'[r] = q
  BY <1>1, <1>2, <1>3 DEF Serve, Granted, AccountsTyped, RequestsTyped
<1>6. UNCHANGED <<account, overrides, company, settings>>
  BY DEF Serve
<1>7. e.any \subseteq Permission
  <2>1. scenario \in Scenario
    BY SessionsAssumption DEF AccountsTyped, RowsTyped
  <2>2. e \in Served
    BY <2>1 DEF Scenario
  <2> QED BY <2>2, ServedOfPermissions DEF OfPermissions
<1>8. AllBarsSay'
  BY BarsDo, PTL
<1>9. PICK before, current : before = barred[r] /\ current = BarsOn(r)'
  OBVIOUS
<1>10. PICK u : u = p.subject
  OBVIOUS
<1>11. /\ "suspended" \in current => ~CompanyServed(u)'
       /\ "maintenance" \in current => settings'.maintenance /\ ~Admin(u)'
       /\ \A c \in Permission : c \in current => c \notin Effective(u)'
  BY <1>4, <1>5, <1>8, <1>9, <1>10 DEF AllBarsSay, BarsSay
<1>12. CompanyServed(u) /\ OutOfMaintenance(u, e) /\ Allowed(u, e)
  BY <1>1, <1>10 DEF Serve
<1>13. "suspended" \notin current
  BY <1>6, <1>11, <1>12 DEF CompanyServed, Admin
<1>14. e.scope # "platform" => "maintenance" \notin current
  BY <1>6, <1>11, <1>12 DEF OutOfMaintenance, Admin
<1>15. e.any = {} \/ ~(e.any \subseteq current)
  <2>1. SUFFICES ASSUME e.any # {} PROVE \E c \in e.any : c \notin current
    OBVIOUS
  <2>2. Effective(u)' = Effective(u)
    BY <1>6 DEF Effective
  <2>3. \E c \in e.any : c \in Effective(u)
    <3>1. CASE account[u].kind = "employee"
      BY <1>12, <2>1, <3>1 DEF Allowed
    <3>2. CASE account[u].kind # "employee"
      BY <1>7, <2>1, <3>2 DEF Effective
    <3> QED BY <3>1, <3>2
  <2> QED BY <1>7, <1>11, <2>2, <2>3
<1>16. before \cap {"inactive", "stale", "revoked"} = {}
  BY <1>1, <1>2, <1>9 DEF RequestsUnbarred, Unbarred
<1>17. barred'[r] = before \cap current
  BY <1>1, <1>2, <1>4, <1>5, <1>9, WatchedIs
<1>18. Unbarred(q, before \cap current)'
  BY <1>4, <1>13, <1>14, <1>15, <1>16 DEF Unbarred
<1> QED BY <1>5, <1>17, <1>18

LEMMA LoginGrantedUnbarred ==
  ASSUME AccountsTyped, RequestsUnbarred, Watched, NEW r \in Requests, FinishLogin(r)
  PROVE  Unbarred(serving[r], barred[r])'
<1>1. PICK p \in ServingState : p = serving[r] /\ Named(p)
  BY DEF AccountsTyped, RequestsTyped
<1>2. p.does = "login" /\ p.right
  BY <1>1 DEF FinishLogin
<1>3. serving'[r] = Granted(r)
  BY DEF FinishLogin, Overtaking
<1>4. PICK q : q = Granted(r)
  OBVIOUS
<1>5. q.does = "granted" /\ q.grants = "login"
  BY <1>1, <1>2, <1>4, GrantedNamed DEF AccountsTyped
<1>6. PICK before, current : before = barred[r] /\ current = BarsOn(r)'
  OBVIOUS
<1>7. before \cap {"inactive", "suspended", "pending", "locked", "maintenance"} = {}
  BY <1>1, <1>2, <1>6 DEF RequestsUnbarred, Unbarred
<1>8. barred'[r] = before \cap current
  BY <1>1, <1>2, <1>3, <1>4, <1>5, <1>6, WatchedIs
<1>9. Unbarred(q, before \cap current)'
  BY <1>5, <1>7 DEF Unbarred
<1> QED BY <1>3, <1>4, <1>8, <1>9

LEMMA RefreshGrantedUnbarred ==
  ASSUME AccountsTyped, RequestsUnbarred, Watched, NEW r \in Requests, FinishRefresh(r)
  PROVE  Unbarred(serving[r], barred[r])'
<1>1. PICK p \in ServingState : p = serving[r] /\ Named(p)
  BY DEF AccountsTyped, RequestsTyped
<1>2. p.does = "refresh" /\ p.right
  BY <1>1 DEF FinishRefresh
<1>3. serving'[r] = Granted(r)
  BY DEF FinishRefresh, AccountsTyped, RequestsTyped
<1>4. PICK q : q = Granted(r)
  OBVIOUS
<1>5. q.does = "granted" /\ q.grants = "refresh" /\ q.subject = p.subject
  BY <1>1, <1>2, <1>4, GrantedNamed DEF AccountsTyped
<1>6. AllBarsSay'
  BY BarsDo, PTL
<1>7. PICK before, current : before = barred[r] /\ current = BarsOn(r)'
  OBVIOUS
<1>8. PICK u : u = p.subject
  OBVIOUS
<1>9. /\ "suspended" \in current => ~CompanyServed(u)'
      /\ "pending" \in current => ~CompanyActive(u)'
  BY <1>3, <1>4, <1>5, <1>6, <1>7, <1>8 DEF AllBarsSay, BarsSay
<1>10. CompanyActive(u)' /\ CompanyServed(u)'
  BY <1>1, <1>8 DEF FinishRefresh, CompanyActive, CompanyServed, Admin
<1>11. before \cap {"inactive", "stale", "revoked", "locked"} = {}
  BY <1>1, <1>2, <1>7 DEF RequestsUnbarred, Unbarred
<1>12. barred'[r] = before \cap current
  BY <1>1, <1>2, <1>3, <1>4, <1>5, <1>7, WatchedIs
<1>13. Unbarred(q, before \cap current)'
  BY <1>5, <1>9, <1>10, <1>11 DEF Unbarred
<1> QED BY <1>3, <1>4, <1>12, <1>13

LEMMA RequestsStayUnbarred ==
  ASSUME AccountsTyped, RequestsUnbarred, [SessionsNext]_sessionVars
  PROVE  RequestsUnbarred'
<1>1. CASE UNCHANGED sessionVars
  BY <1>1 DEF sessionVars, RequestsUnbarred, Unbarred
<1>2. CASE SessionsNext
  <2>1. SessionsStep /\ Watched /\ scenario' = scenario
    BY <1>2 DEF SessionsNext
  <2>3. (barred \in [Requests -> SUBSET (Permission \cup
           {"stale", "revoked", "inactive", "locked", "suspended", "pending", "maintenance"})])'
    BY <2>1, BarsTyped DEF RequestsUnbarred
  <2>4. CASE Beside
    <3>1. serving' = serving
      BY <2>4, BesideServes
    <3>2. ASSUME NEW x \in Requests PROVE Unbarred(serving[x], barred[x])'
      BY <2>1, <3>1, OthersStayUnbarred
    <3> QED BY <2>3, <3>2 DEF RequestsUnbarred
  <2>5. ASSUME NEW r \in Requests, Handling(r) PROVE RequestsUnbarred'
    <3>1. PICK q \in ServingState : Moves(r, q)
      BY <2>1, <2>5, HandlingTyped DEF AccountsTyped
    <3>2. ASSUME NEW x \in Requests \ {r} PROVE Unbarred(serving[x], barred[x])'
      BY <2>1, <3>1, OthersStayUnbarred DEF Moves
    <3>3. Unbarred(serving[r], barred[r])'
      <4>1. CASE \/ FailLogin(r) \/ FailReset(r) \/ FinishReset(r) \/ Abort(r) \/ Answer(r)
                 \/ \E brought \in SUBSET DOMAIN sessions : Logout(r, brought)
        <5>1. serving'[r] = NotServing
          BY <4>1 DEF FailLogin, FailReset, FinishReset, Abort, Answer, Logout, Overtaking,
                      AccountsTyped, RequestsTyped
        <5> QED BY <2>1, <5>1, NotServingTyped, EndedUnbarred
      <4>2. ASSUME NEW u \in Users, NEW right \in BOOLEAN, StartReset(r, u, right)
            PROVE  Unbarred(serving[r], barred[r])'
        <5>1. PICK k \in Unused(u) : serving' = [serving EXCEPT ![r] =
                  [NotServing EXCEPT !.does = "reset", !.subject = u, !.item = k, !.right = right,
                                     !.failed = account[u].failed, !.lock = account[u].lock,
                                     !.attempts = codes[k].attempts,
                                     !.stamp = IF right THEN now ELSE 0]]
          BY <4>2 DEF StartReset
        <5>2. serving'[r].does = "reset"
          BY <5>1 DEF NotServing, AccountsTyped, RequestsTyped
        <5> QED BY <2>1, <5>2, EndedUnbarred
      <4> QED BY <2>1, <2>5, <4>1, <4>2, LoginStartsUnbarred, TokenStartsUnbarred, UserReadUnbarred,
                 ServedUnbarred, LoginGrantedUnbarred, RefreshGrantedUnbarred DEF Handling
    <3> QED BY <2>3, <3>2, <3>3 DEF RequestsUnbarred
  <2> QED BY <2>1, <2>4, <2>5, SessionsStepIs
<1> QED BY <1>1, <1>2

LEMMA RequestsInitiallyUnbarred == SessionsInit => RequestsUnbarred
<1> SUFFICES ASSUME SessionsInit PROVE RequestsUnbarred
  OBVIOUS
<1>1. barred = [r \in Requests |-> {}]
  BY DEF SessionsInit
<1>2. ASSUME NEW r \in Requests PROVE Unbarred(serving[r], barred[r])
  BY NotServingTyped DEF SessionsInit, Unbarred
<1> QED BY <1>1, <1>2 DEF RequestsUnbarred

LEMMA UnbarredIsGranted == RequestsUnbarred => NothingGrantedWhileBarred
BY DEF RequestsUnbarred, Unbarred, NothingGrantedWhileBarred

---------------------------------------------------------------------------
(* The bounds on pairs and codes hold whatever is in progress.             *)

\* The requests that may issue a pair.
Coming == {x \in Requests : \/ serving[x].does = "login" /\ serving[x].right
                            \/ serving[x].does = "refresh"}

WithinBounds ==
  /\ Len(sessions) + Cardinality(Coming) <= scenario.sessions
  /\ Len(codes) <= scenario.codes

LEMMA SequencesOfOneLength ==
  ASSUME NEW S, NEW s \in Seq(S), NEW t \in Seq(S), DOMAIN s = DOMAIN t
  PROVE  Len(s) = Len(t)
<1>1. Len(s) \in Nat /\ Len(t) \in Nat /\ 1..Len(s) = 1..Len(t)
  OBVIOUS
<1>2. \A m, n \in Nat : m < n => n \in 1..n /\ n \notin 1..m
  OBVIOUS
<1> QED BY <1>1, <1>2

\* One request more or less.
LEMMA OneMoreOrLess ==
  ASSUME NEW C, IsFiniteSet(C), NEW r
  PROVE  /\ Cardinality(C) \in Nat
         /\ Cardinality(C \cup {r}) \in Nat /\ Cardinality(C \cup {r}) <= Cardinality(C) + 1
         /\ Cardinality(C \ {r}) \in Nat /\ Cardinality(C \ {r}) <= Cardinality(C)
         /\ r \in C => Cardinality(C \ {r}) = Cardinality(C) - 1
<1>1. Cardinality(C) \in Nat
  BY FS_CardinalityType
<1>2. IsFiniteSet(C \cup {r}) /\ Cardinality(C \cup {r}) = IF r \in C THEN Cardinality(C) ELSE Cardinality(C) + 1
  BY FS_AddElement
<1>3. IsFiniteSet(C \ {r}) /\ Cardinality(C \ {r}) = IF r \in C THEN Cardinality(C) - 1 ELSE Cardinality(C)
  BY FS_RemoveElement
<1>4. Cardinality(C \cup {r}) \in Nat /\ Cardinality(C \ {r}) \in Nat
  BY <1>2, <1>3, FS_CardinalityType
<1> QED BY <1>1, <1>2, <1>3, <1>4

\* Those in progress but r issue what they issued.
LEMMA ComingMoves ==
  ASSUME AccountsTyped, NEW r \in Requests, NEW q, Moves(r, q)
  PROVE  Coming' = IF (q.does = "login" /\ q.right) \/ q.does = "refresh"
                   THEN Coming \cup {r} ELSE Coming \ {r}
<1>1. ASSUME NEW x \in Requests \ {r} PROVE x \in Coming' <=> x \in Coming
  <2>1. PICK p \in ServingState : p = serving[x]
    BY DEF AccountsTyped, RequestsTyped
  <2>2. CASE serving'[x] = p
    BY <2>1, <2>2 DEF Coming
  <2>3. CASE serving'[x] = [p EXCEPT !.overtaken = TRUE]
    <3>1. PICK o : o = [p EXCEPT !.overtaken = TRUE]
      OBVIOUS
    <3>2. o.does = p.does /\ (o.right <=> p.right)
      BY <3>1 DEF ServingState
    <3> QED BY <2>1, <2>3, <3>1, <3>2 DEF Coming
  <2> QED BY <2>1, <2>2, <2>3 DEF Moves
<1>2. r \in Coming' <=> ((q.does = "login" /\ q.right) \/ q.does = "refresh")
  BY DEF Moves, Coming
<1>3. Coming' \subseteq Requests /\ Coming \subseteq Requests
  BY DEF Coming
<1> QED BY <1>1, <1>2, <1>3

LEMMA BoundsKeptByRequests ==
  ASSUME AccountsTyped, WithinBounds, scenario' = scenario, NEW r \in Requests, Handling(r)
  PROVE  WithinBounds'
<1>1. PICK p \in ServingState : p = serving[r] /\ Named(p)
  BY DEF AccountsTyped, RequestsTyped
<1>2. PICK q \in ServingState : Moves(r, q)
  BY HandlingTyped DEF AccountsTyped
<1>3. q = serving'[r]
  BY <1>2 DEF Moves
<1>4. IsFiniteSet(Coming)
  BY RequestsAssumption, FS_Subset DEF Coming
<1>5. PICK C : C = Coming
  OBVIOUS
<1>6. Coming' = IF (q.does = "login" /\ q.right) \/ q.does = "refresh" THEN C \cup {r} ELSE C \ {r}
  BY <1>2, <1>5, ComingMoves
<1>7. /\ Cardinality(C) \in Nat
      /\ Cardinality(C \cup {r}) \in Nat /\ Cardinality(C \cup {r}) <= Cardinality(C) + 1
      /\ Cardinality(C \ {r}) \in Nat /\ Cardinality(C \ {r}) <= Cardinality(C)
      /\ r \in C => Cardinality(C \ {r}) = Cardinality(C) - 1
  BY <1>4, <1>5, OneMoreOrLess
<1>8. Len(sessions) \in Nat /\ Len(codes) \in Nat
  BY DEF AccountsTyped, RowsTyped
<1>9. scenario.sessions \in Nat /\ scenario.codes \in Nat
  <2>1. scenario \in Scenario
    BY SessionsAssumption DEF AccountsTyped, RowsTyped
  <2> QED BY <2>1 DEF Scenario
<1>10. Len(sessions) + Cardinality(C) <= scenario.sessions /\ Len(codes) <= scenario.codes
  BY <1>5 DEF WithinBounds
<1>11. Len(codes') = Len(codes)
  <2>1. codes' \in Seq(Code) /\ codes \in Seq(Code)
    BY HandlingTyped DEF AccountsTyped, RowsTyped
  <2>2. DOMAIN codes' = DOMAIN codes
    BY HandlingIs, ReadingIs, CodeFailed, CodeUsed
       DEF AccountsTyped, Committing, FailLogin, FinishLogin, FinishRefresh, Logout
  <2> QED BY <2>1, <2>2, SequencesOfOneLength
<1>12. ASSUME Len(sessions') + Cardinality(Coming') <= scenario.sessions PROVE WithinBounds'
  BY <1>10, <1>11, <1>12 DEF WithinBounds
<1>13. CASE q.does \notin {"login", "refresh"} /\ Len(sessions') = Len(sessions)
  BY <1>6, <1>7, <1>8, <1>9, <1>10, <1>12, <1>13
<1>14. CASE r \in C /\ Len(sessions') = Len(sessions)
  <2>1. C \cup {r} = C
    BY <1>14
  <2>2. Coming' = C \/ Coming' = C \ {r}
    BY <1>6, <2>1
  <2>3. Cardinality(Coming') \in Nat /\ Cardinality(Coming') <= Cardinality(C)
    BY <1>7, <2>2
  <2> QED BY <1>7, <1>8, <1>9, <1>10, <1>12, <1>14, <2>3
<1>15. CASE RoomForPair /\ Len(sessions') = Len(sessions)
  <2>1. Len(sessions) + Cardinality(C) < scenario.sessions
    BY <1>5, <1>15 DEF RoomForPair, Coming
  <2> QED BY <1>6, <1>7, <1>8, <1>9, <1>10, <1>12, <1>15, <2>1
<1>16. CASE q.does \notin {"login", "refresh"} /\ r \in C /\ Len(sessions') = Len(sessions) + 1
  BY <1>6, <1>7, <1>8, <1>9, <1>10, <1>12, <1>16
<1>17. CASE Reading(r)
  <2>1. Len(sessions') = Len(sessions)
    BY <1>17, ReadingIs
  <2>2. ASSUME NEW u \in Users, NEW right \in BOOLEAN, StartLogin(r, u, right) PROVE WithinBounds'
    <3>1. CASE right
      BY <1>15, <2>1, <2>2, <3>1 DEF StartLogin
    <3>2. CASE ~right
      <4>1. q = [NotServing EXCEPT !.does = "login", !.subject = u, !.right = right,
                          !.failed = account[u].failed, !.lock = account[u].lock,
                          !.epoch = resets[u]]
        BY <1>3, <2>2 DEF StartLogin, AccountsTyped, RequestsTyped
      <4>2. ~q.right /\ q.does = "login"
        BY <3>2, <4>1 DEF NotServing
      <4> QED BY <1>6, <1>7, <1>8, <1>9, <1>10, <1>12, <2>1, <4>2
    <3> QED BY <3>1, <3>2
  <2>3. ASSUME NEW u \in Users, NEW right \in BOOLEAN, StartReset(r, u, right) PROVE WithinBounds'
    <3>1. PICK k \in Unused(u) : serving' = [serving EXCEPT ![r] =
              [NotServing EXCEPT !.does = "reset", !.subject = u, !.item = k, !.right = right,
                                 !.failed = account[u].failed, !.lock = account[u].lock,
                                 !.attempts = codes[k].attempts,
                                 !.stamp = IF right THEN now ELSE 0]]
      BY <2>3 DEF StartReset
    <3>2. q.does = "reset"
      BY <1>3, <3>1 DEF NotServing, AccountsTyped, RequestsTyped
    <3> QED BY <1>13, <2>1, <3>2
  <2>4. ASSUME NEW i \in DOMAIN sessions, StartRefresh(r, i) PROVE WithinBounds'
    BY <1>15, <2>1, <2>4 DEF StartRefresh
  <2>5. ASSUME NEW i \in DOMAIN sessions, StartCall(r, i) PROVE WithinBounds'
    <3>1. q = [NotServing EXCEPT !.does = "call", !.subject = sessions[i].user, !.item = i]
      BY <1>3, <2>5 DEF StartCall, StartWithToken, AccountsTyped, RequestsTyped
    <3>2. q.does = "call"
      BY <3>1 DEF NotServing
    <3> QED BY <1>13, <2>1, <3>2
  <2>6. CASE ReadUser(r)
    <3>1. q = [p EXCEPT !.right = TRUE] /\ p.does \in {"refresh", "call"}
      BY <1>1, <1>3, <2>6 DEF ReadUser, AccountsTyped, RequestsTyped
    <3>2. q.does = p.does
      BY <3>1 DEF ServingState
    <3>3. p.does = "refresh" => r \in C
      BY <1>1, <1>5 DEF Coming
    <3> QED BY <1>13, <1>14, <2>1, <3>1, <3>2, <3>3
  <2>7. ASSUME NEW e \in scenario.asked, Serve(r, e) PROVE WithinBounds'
    <3>1. q = [Granted(r) EXCEPT !.endpoint = e] /\ Granted(r) = [p EXCEPT !.does = "granted", !.grants = p.does]
      BY <1>1, <1>3, <2>7 DEF Serve, Granted, AccountsTyped, RequestsTyped
    <3>2. q.does = "granted"
      BY <3>1 DEF ServingState
    <3> QED BY <1>13, <2>1, <3>2
  <2>8. CASE Abort(r) \/ Answer(r)
    <3>1. q = NotServing
      BY <1>3, <2>8 DEF Abort, Answer, AccountsTyped, RequestsTyped
    <3> QED BY <1>13, <2>1, <3>1, NotServingTyped
  <2> QED BY <1>17, <2>2, <2>3, <2>4, <2>5, <2>6, <2>7, <2>8 DEF Reading
<1>18. CASE \/ FailLogin(r) \/ FailReset(r) \/ FinishReset(r)
            \/ \E brought \in SUBSET DOMAIN sessions : Logout(r, brought)
  <2>1. q = NotServing
    BY <1>3, <1>18 DEF FailLogin, FailReset, FinishReset, Logout, Overtaking, AccountsTyped,
                       RequestsTyped
  <2>2. Len(sessions') = Len(sessions)
    <3>1. sessions' \in Seq(Pair) /\ sessions \in Seq(Pair)
      BY HandlingTyped DEF AccountsTyped, RowsTyped
    <3>2. DOMAIN sessions' = DOMAIN sessions
      BY <1>18 DEF FailLogin, FailReset, FinishReset, Logout
    <3> QED BY <3>1, <3>2, SequencesOfOneLength
  <2> QED BY <1>13, <2>1, <2>2, NotServingTyped
<1>19. CASE FinishLogin(r) \/ FinishRefresh(r)
  <2>1. q = Granted(r) /\ r \in C
    BY <1>1, <1>3, <1>5, <1>19 DEF FinishLogin, FinishRefresh, Overtaking, Coming, AccountsTyped, RequestsTyped
  <2>2. q.does = "granted"
    BY <1>19, <2>1, GrantedNamed DEF AccountsTyped, FinishLogin, FinishRefresh
  <2>3. \E pair : sessions' = Append(sessions, pair)
    BY <1>19 DEF FinishLogin, FinishRefresh
  <2>4. Len(sessions') = Len(sessions) + 1
    BY <2>3 DEF AccountsTyped, RowsTyped
  <2> QED BY <1>16, <2>1, <2>2, <2>4
<1> QED BY <1>17, <1>18, <1>19, HandlingIs DEF Committing

LEMMA BoundsKept ==
  ASSUME AccountsTyped, WithinBounds, [SessionsNext]_sessionVars
  PROVE  WithinBounds'
<1>1. CASE UNCHANGED sessionVars
  BY <1>1 DEF sessionVars, WithinBounds, Coming
<1>2. CASE SessionsNext
  <2>1. SessionsStep /\ scenario' = scenario
    BY <1>2 DEF SessionsNext
  <2>2. CASE Beside
    <3>1. Coming' = Coming
      BY <2>2, BesideServes DEF Coming
    <3>2. Len(sessions') = Len(sessions)
      <4>1. sessions' \in Seq(Pair) /\ sessions \in Seq(Pair)
        BY <2>1, <2>2, BesideTyped DEF AccountsTyped, RowsTyped
      <4>2. DOMAIN sessions' = DOMAIN sessions
        BY <2>2, BesideSessions
      <4> QED BY <4>1, <4>2, SequencesOfOneLength
    <3>3. Len(codes') <= scenario.codes
      <4>1. CASE \E u \in Users : RequestPasswordReset(u)
        <5>1. Len(codes) < scenario.codes /\ \E c : codes' = Append(codes, c)
          BY <4>1 DEF RequestPasswordReset
        <5>2. codes \in Seq(Code) /\ scenario \in Scenario
          BY SessionsAssumption DEF AccountsTyped, RowsTyped
        <5>3. Len(codes') = Len(codes) + 1 /\ Len(codes) \in Nat
          BY <5>1, <5>2
        <5> QED BY <5>1, <5>2, <5>3 DEF Scenario
      <4>2. CASE codes' = codes
        BY <4>2 DEF WithinBounds
      <4> QED BY <2>2, <4>1, <4>2, DecidingIs DEF Beside, LockExpires, SecondPasses
    <3> QED BY <2>1, <3>1, <3>2, <3>3 DEF WithinBounds
  <2> QED BY <2>1, <2>2, SessionsStepIs, BoundsKeptByRequests
<1> QED BY <1>1, <1>2

LEMMA BoundsInitially == SessionsInit => WithinBounds
<1> SUFFICES ASSUME SessionsInit PROVE WithinBounds
  OBVIOUS
<1>1. Coming = {}
  BY NotServingTyped DEF SessionsInit, Coming
<1>2. scenario \in Scenario
  BY SessionsAssumption DEF SessionsInit
<1>3. Len(sessions) = 0 /\ Len(codes) = 0 /\ Cardinality(Coming) = 0
  BY <1>1, FS_EmptySet DEF SessionsInit
<1> QED BY <1>2, <1>3 DEF WithinBounds, Scenario

LEMMA AccountsHaveTypes == AccountsTyped /\ WithinBounds => SessionsTypeOK
<1> SUFFICES ASSUME AccountsTyped, WithinBounds PROVE SessionsTypeOK
  OBVIOUS
<1>1. ASSUME NEW r \in Requests PROVE Idle(r) <=> serving[r] = NotServing
  BY NotServingTyped DEF AccountsTyped, RequestsTyped, Named, Idle
<1>2. Len(sessions) <= scenario.sessions
  <2>1. IsFiniteSet(Coming)
    BY RequestsAssumption, FS_Subset DEF Coming
  <2>2. Cardinality(Coming) \in Nat /\ Len(sessions) \in Nat /\ scenario \in Scenario
    BY <2>1, FS_CardinalityType, SessionsAssumption DEF AccountsTyped, RowsTyped
  <2> QED BY <2>2 DEF WithinBounds, Scenario
<1> QED BY <1>1, <1>2 DEF SessionsTypeOK, AccountsTyped, RowsTyped, Employed, WithinBounds

---------------------------------------------------------------------------
(* The platform: each part's steps leave the rows of the others.           *)

LEMMA AccountsSteps == [Next]_vars => [SessionsNext]_sessionVars
BY DEF Next, vars, ServeAccounts, ServeAdministrators, ServeDeletion

LEMMA AdministratorsSteps == [Next]_vars => [AdminsNext]_adminVars
BY DEF Next, vars, ServeAccounts, ServeAdministrators, ServeDeletion

LEMMA AccountsAlwaysTyped == Spec => []AccountsTyped
<1>1. Init => AccountsTyped
  BY AccountsInitiallyTyped DEF Init
<1>2. AccountsTyped /\ [Next]_vars => AccountsTyped'
  BY AccountsStayTyped, AccountsSteps
<1> QED BY <1>1, <1>2, PTL DEF Spec

\* reset_password ends every session begun under an earlier password, of however many
\* users and whatever the requests in progress: password_changed_at makes its tokens
\* stale whichever seconds they are of, and those whose login or refresh overlapped the reset,
\* and got its tokens in a later second, are the only exception.
THEOREM EarlierSessionsAreAlwaysOver == Spec => []EarlierSessionsAreOver
<1>1. Init => TimesKept
  BY TimesInitiallyKept DEF Init
<1>2. AccountsTyped /\ TimesKept /\ [Next]_vars => TimesKept'
  BY TimesStayKept, AccountsSteps
<1> QED BY <1>1, <1>2, TimesKeptOver, AccountsAlwaysTyped, PTL DEF Spec

\* _register_failed_attempt and the attempts of a code count every guess, for any
\* MAX_FAILED_LOGIN_ATTEMPTS and OTP_MAX_ATTEMPTS, on the accounts no two requests wrote
\* at a time.
THEOREM GuessesAreAlwaysBounded == Spec => []GuessesAreBounded
<1>1. Init => GuessesCounted
  BY GuessesInitiallyCounted DEF Init
<1>2. AccountsTyped /\ GuessesCounted /\ [Next]_vars => GuessesCounted'
  BY GuessesStayCounted, AccountsSteps
<1>3. AccountsTyped /\ GuessesCounted => GuessesAreBounded
  BY CountedIsBounded
<1> QED BY <1>1, <1>2, <1>3, AccountsAlwaysTyped, PTL DEF Spec

\* What login, refresh_token and the dependencies of an endpoint check one after the other
\* did not bar the request all along: a decision that was there when it started has been
\* seen, whatever changes between its reads.
THEOREM NothingIsGrantedWhileBarred == Spec => []NothingGrantedWhileBarred
<1>1. Init => RequestsUnbarred
  BY RequestsInitiallyUnbarred DEF Init
<1>2. AccountsTyped /\ RequestsUnbarred /\ [Next]_vars => RequestsUnbarred'
  BY RequestsStayUnbarred, AccountsSteps
<1>3. RequestsUnbarred => NothingGrantedWhileBarred
  BY UnbarredIsGranted
<1> QED BY <1>1, <1>2, <1>3, AccountsAlwaysTyped, PTL DEF Spec

---------------------------------------------------------------------------
(* Administrators: the removals in progress count the others.              *)

\* While no other removal has been committed since it counted, a removal leaves an
\* active administrator behind.
RemovalsLeaveOne ==
  \A r \in Requests :
    removing[r] # NoRemoval /\ ~removing[r].overtaken =>
      ActiveAdmins \ {removing[r].admin} # {}

AdminsInv == AdminsTypeOK /\ LastAdminStays /\ RemovalsLeaveOne

LEMMA NoRemovalIsNone == NoRemoval \notin Removal
BY DEF NoRemoval, Removal

\* One of several is not the only one.
LEMMA SeveralMoreThanOne ==
  ASSUME NEW S, NEW a, Cardinality(S) > 1
  PROVE  S \ {a} # {}
<1>1. SUFFICES ASSUME S \ {a} = {} PROVE FALSE
  OBVIOUS
<1>2. S = {} \/ S = {a}
  BY <1>1
<1>3. Cardinality(S) \in {0, 1}
  BY <1>2, FS_EmptySet, FS_Singleton
<1> QED
  BY <1>3

LEMMA AdminsInitially == AdminsInit => AdminsInv
<1> SUFFICES ASSUME AdminsInit PROVE AdminsInv
  OBVIOUS
<1>1. AdminsTypeOK
  BY DEF AdminsInit, AdminsTypeOK, AdminStatus
<1>2. FirstAdmin \in ActiveAdmins
  BY AdminsAssumption DEF AdminsInit, ActiveAdmins
<1>3. RemovalsLeaveOne
  BY DEF AdminsInit, RemovalsLeaveOne
<1> QED
  BY <1>1, <1>2, <1>3 DEF AdminsInv, LastAdminStays

\* A removal begins: those in progress are as they were, and it leaves another.
LEMMA RemovalStarts ==
  ASSUME AdminsInv, NEW r \in Requests, NEW does \in {"suspend", "delete"},
         NEW a \in Admins, NEW by \in Admins,
         StartRemoval(r, does, a, by), ActiveAdmins \ {a} # {}
  PROVE  AdminsInv'
<1>1. AdminsTypeOK'
  BY DEF AdminsInv, AdminsTypeOK, StartRemoval, Removal
<1>2. ActiveAdmins' = ActiveAdmins
  BY DEF StartRemoval, ActiveAdmins
<1>3. LastAdminStays'
  BY <1>2 DEF AdminsInv, LastAdminStays, StartRemoval
<1>4. RemovalsLeaveOne'
  <2> SUFFICES ASSUME NEW x \in Requests, removing'[x] # NoRemoval, ~removing'[x].overtaken
               PROVE  ActiveAdmins \ {removing'[x].admin} # {}
    BY <1>2 DEF RemovalsLeaveOne
  <2>1. CASE x = r
    <3>1. removing'[x].admin = a
      BY <2>1 DEF StartRemoval, AdminsInv, AdminsTypeOK
    <3> QED
      BY <3>1
  <2>2. CASE x # r
    <3>1. removing'[x] = removing[x]
      BY <2>2 DEF StartRemoval, AdminsInv, AdminsTypeOK
    <3> QED
      BY <3>1 DEF AdminsInv, RemovalsLeaveOne
  <2> QED
    BY <2>1, <2>2
<1> QED
  BY <1>1, <1>3, <1>4 DEF AdminsInv

LEMMA RemovalEnds ==
  ASSUME AdminsInv, NEW r \in Requests, FinishRemoval(r)
  PROVE  AdminsInv'
<1> DEFINE q == removing[r]
<1>1. q \in Removal
  BY DEF AdminsInv, AdminsTypeOK, FinishRemoval
<1>2. AdminsTypeOK'
  <2>1. admins' \in [Admins -> AdminStatus]
    BY <1>1 DEF AdminsInv, AdminsTypeOK, FinishRemoval, AdminStatus, Removal
  <2>2. ASSUME NEW x \in Requests
        PROVE  removing'[x] \in Removal \cup {NoRemoval}
    <3>1. CASE x = r \/ removing[x] = NoRemoval
      BY <3>1 DEF FinishRemoval
    <3>2. CASE ~(x = r \/ removing[x] = NoRemoval)
      <4>1. removing[x] \in Removal
        BY <3>2 DEF AdminsInv, AdminsTypeOK
      <4>2. removing'[x] = [removing[x] EXCEPT !.overtaken = TRUE]
        BY <3>2 DEF FinishRemoval
      <4> QED
        BY <4>1, <4>2 DEF Removal
    <3> QED
      BY <3>1, <3>2
  <2>3. removing' = [x \in Requests |-> removing'[x]]
    BY DEF FinishRemoval
  <2>4. removalsRaced' \in BOOLEAN
    BY <1>1 DEF AdminsInv, AdminsTypeOK, FinishRemoval, Removal
  <2> QED
    BY <2>1, <2>2, <2>3, <2>4 DEF AdminsTypeOK
<1>3. ActiveAdmins \ {q.admin} \subseteq ActiveAdmins'
  BY <1>1 DEF AdminsInv, AdminsTypeOK, FinishRemoval, ActiveAdmins, Removal
<1>4. LastAdminStays'
  <2>1. CASE q.overtaken
    BY <2>1 DEF FinishRemoval, LastAdminStays
  <2>2. CASE ~q.overtaken
    BY <2>2, <1>3 DEF FinishRemoval, LastAdminStays, AdminsInv, RemovalsLeaveOne
  <2> QED
    BY <2>1, <2>2
<1>5. RemovalsLeaveOne'
  <2> SUFFICES ASSUME NEW x \in Requests, removing'[x] # NoRemoval
               PROVE  removing'[x].overtaken
    BY DEF RemovalsLeaveOne
  <2>1. removing[x] \in Removal /\ removing'[x] = [removing[x] EXCEPT !.overtaken = TRUE]
    BY DEF FinishRemoval, AdminsInv, AdminsTypeOK
  <2> QED
    BY <2>1 DEF Removal
<1> QED
  BY <1>2, <1>4, <1>5 DEF AdminsInv

LEMMA RemovalAborts ==
  ASSUME AdminsInv, NEW r \in Requests, AbortRemoval(r)
  PROVE  AdminsInv'
<1>1. AdminsTypeOK'
  BY DEF AdminsInv, AdminsTypeOK, AbortRemoval
<1>2. ActiveAdmins' = ActiveAdmins
  BY DEF AbortRemoval, ActiveAdmins
<1>3. LastAdminStays'
  BY <1>2 DEF AdminsInv, LastAdminStays, AbortRemoval
<1>4. \A x \in Requests : removing'[x] \in {removing[x], NoRemoval}
  BY DEF AbortRemoval, AdminsInv, AdminsTypeOK
<1>5. RemovalsLeaveOne'
  BY <1>2, <1>4 DEF AdminsInv, RemovalsLeaveOne
<1> QED
  BY <1>1, <1>3, <1>5 DEF AdminsInv

LEMMA AdminEnabled ==
  ASSUME AdminsInv, NEW a \in Admins, Enable(a)
  PROVE  AdminsInv'
<1>1. AdminsTypeOK'
  BY DEF AdminsInv, AdminsTypeOK, Enable, AdminStatus
<1>2. ActiveAdmins \subseteq ActiveAdmins'
  BY DEF AdminsInv, AdminsTypeOK, Enable, ActiveAdmins
<1>3. LastAdminStays'
  BY <1>2 DEF Enable, LastAdminStays
<1>4. RemovalsLeaveOne'
  BY <1>2 DEF AdminsInv, RemovalsLeaveOne, Enable
<1> QED
  BY <1>1, <1>3, <1>4 DEF AdminsInv

LEMMA AdminsStep == AdminsInv /\ [AdminsNext]_adminVars => AdminsInv'
<1> SUFFICES ASSUME AdminsInv, [AdminsNext]_adminVars PROVE AdminsInv'
  OBVIOUS
<1>1. ASSUME NEW r \in Requests, NEW a \in Admins, NEW by \in Admins, StartSuspend(r, a, by)
      PROVE  AdminsInv'
  <2>1. ActiveAdmins \ {a} # {}
    BY <1>1, SeveralMoreThanOne DEF StartSuspend, OneOfSeveral
  <2> QED
    BY <1>1, <2>1, RemovalStarts DEF StartSuspend
<1>2. ASSUME NEW r \in Requests, NEW a \in Admins, NEW by \in Admins, StartDelete(r, a, by)
      PROVE  AdminsInv'
  <2>1. CASE a \in ActiveAdmins
    <3>1. ActiveAdmins \ {a} # {}
      BY <1>2, <2>1, SeveralMoreThanOne DEF StartDelete, OneOfSeveral
    <3> QED
      BY <1>2, <3>1, RemovalStarts DEF StartDelete
  <2>2. CASE a \notin ActiveAdmins
    <3>1. by \in ActiveAdmins \ {a}
      BY <1>2, <2>2 DEF StartDelete, StartRemoval
    <3> QED
      BY <1>2, <3>1, RemovalStarts DEF StartDelete
  <2> QED
    BY <2>1, <2>2
<1>3. CASE UNCHANGED adminVars
  BY <1>3 DEF adminVars, AdminsInv, AdminsTypeOK, LastAdminStays, RemovalsLeaveOne, ActiveAdmins
<1> QED
  BY <1>1, <1>2, <1>3, RemovalEnds, RemovalAborts, AdminEnabled DEF AdminsNext

\* Rows, removals in progress and history keep their types.
THEOREM AdminsTyped == AdminsSpec => []AdminsTypeOK
<1>1. AdminsInv => AdminsTypeOK
  BY DEF AdminsInv
<1> QED
  BY <1>1, AdminsInitially, AdminsStep, PTL DEF AdminsSpec

\* count_active_super_admins keeps one active, whatever the removals and however many
\* administrators there are, as long as no two removals overlap.
THEOREM AnAdminStays == AdminsSpec => []LastAdminStays
<1>1. AdminsInv => LastAdminStays
  BY DEF AdminsInv
<1> QED
  BY <1>1, AdminsInitially, AdminsStep, PTL DEF AdminsSpec

---------------------------------------------------------------------------
(* The rows the deletion of a company is about.                            *)

Formed(r) ==
  /\ r = [key |-> r.key, pending |-> r.pending, refs |-> r.refs]
  /\ r.refs = [c \in DOMAIN r.refs |-> r.refs[c]]
  /\ Columns(Table(r)) \subseteq DOMAIN r.refs

\* Made by one of n calls, or there from the start.
MadeBy(r, n) == r.key[3] \in 0..n

RowsFormed ==
  /\ IsFiniteSet(rows)
  /\ \A r \in rows : Formed(r) /\ MadeBy(r, calls)
  /\ \A r, s \in rows : r.key = s.key => r = s

LEMMA RowFormed ==
  ASSUME NEW key, NEW refs
  PROVE  /\ Formed(Row(key, refs)) /\ Row(key, refs).key = key
         /\ DOMAIN Row(key, refs).refs = Columns(key[1]) \cup DOMAIN refs
BY DEF Row, Formed, Table

\* A row with other references in the same columns, or another status.
LEMMA RowReformed ==
  ASSUME NEW r, Formed(r), NEW pending, NEW refs, DOMAIN refs = DOMAIN r.refs,
         refs = [c \in DOMAIN refs |-> refs[c]]
  PROVE  LET new == [key |-> r.key, pending |-> pending, refs |-> refs]
         IN Formed(new) /\ new.key = r.key
BY DEF Formed, Table

\* Keys name rows: as many of the ones as of the others.
LEMMA AsManyKeys ==
  ASSUME RowsFormed
  PROVE  Cardinality(Keys(rows)) = Cardinality(rows)
<1> DEFINE f == [r \in rows |-> r.key]
<1>1. Keys(rows) = {r.key : r \in rows}
  BY DEF Keys
<1>2. f \in Bijection(rows, Keys(rows))
  BY <1>1 DEF RowsFormed, Bijection, Injection, Surjection, IsInjective
<1>3. ExistsBijection(rows, Keys(rows))
  BY <1>2 DEF ExistsBijection
<1> QED BY <1>3, FS_Bijection DEF RowsFormed

\* A service call keeps keys apart if it makes rows of new keys, of different tables, or
\* under the key of the row it replaces.
Replaces(gone, new) ==
  /\ IsFiniteSet(new)
  /\ \A r \in new : /\ Formed(r)
                    /\ r.key[3] = calls + 1 \/ \E g \in gone : g.key = r.key
  /\ \A r, s \in new : r.key = s.key => r = s

LEMMA CallKeepsRows ==
  ASSUME RowsFormed, calls \in Nat, NEW gone, NEW new, Call(gone, new), Replaces(gone, new)
  PROVE  /\ RowsFormed'
         /\ deletion.deleted \subseteq Keys(rows) => (deletion.deleted \subseteq Keys(rows))'
<1>1. gone \subseteq rows /\ \A r \in gone : r.key \notin deletion.deleted
  BY DEF Call, View
<1>2. rows' = (rows \ gone) \cup new /\ calls' = calls + 1 /\ deletion' = deletion
  BY DEF Call
<1>3. IsFiniteSet(rows')
  <2>1. IsFiniteSet(rows \ gone)
    BY FS_Subset DEF RowsFormed
  <2> QED BY <1>2, <2>1, FS_Union DEF Replaces
<1>4. ASSUME NEW r \in rows' PROVE Formed(r) /\ MadeBy(r, calls')
  <2>1. CASE r \in rows
    BY <1>2, <2>1 DEF RowsFormed, MadeBy
  <2>2. CASE r \in new
    <3>1. Formed(r)
      BY <2>2 DEF Replaces
    <3>2. CASE r.key[3] = calls + 1
      BY <1>2, <3>1, <3>2 DEF MadeBy
    <3>3. CASE \E g \in gone : g.key = r.key
      <4>1. PICK g \in rows : g.key = r.key
        BY <1>1, <3>3
      <4>2. g.key[3] \in 0..calls
        BY DEF RowsFormed, MadeBy
      <4>3. r.key[3] \in 0..calls
        BY <4>1, <4>2
      <4> QED BY <1>2, <3>1, <4>3 DEF MadeBy
    <3> QED BY <2>2, <3>2, <3>3 DEF Replaces
  <2> QED BY <1>2, <2>1, <2>2
<1>5. ASSUME NEW r \in rows \ gone, NEW s \in new PROVE r.key # s.key
  <2>1. CASE s.key[3] = calls + 1
    <3>1. r.key[3] \in 0..calls
      BY DEF RowsFormed, MadeBy
    <3> QED BY <2>1, <3>1
  <2>2. CASE \E g \in gone : g.key = s.key
    BY <1>1, <2>2 DEF RowsFormed
  <2> QED BY <2>1, <2>2 DEF Replaces
<1>6. \A r, s \in rows' : r.key = s.key => r = s
  BY <1>2, <1>5 DEF RowsFormed, Replaces
<1>7. RowsFormed'
  BY <1>3, <1>4, <1>6 DEF RowsFormed
<1>8. deletion.deleted \subseteq Keys(rows) => (deletion.deleted \subseteq Keys(rows))'
  <2>1. SUFFICES ASSUME deletion.deleted \subseteq Keys(rows), NEW k \in deletion.deleted
                 PROVE  k \in Keys(rows')
    BY <1>2 DEF Keys
  <2>2. PICK r \in rows : r.key = k
    BY <2>1 DEF Keys
  <2>3. r \in rows'
    BY <1>1, <1>2, <2>1, <2>2
  <2> QED BY <2>2, <2>3 DEF Keys
<1> QED BY <1>7, <1>8

LEMMA NothingReplaces == ASSUME NEW gone PROVE Replaces(gone, {})
BY FS_EmptySet DEF Replaces

LEMMA OneMoreReplaces ==
  ASSUME NEW gone, NEW new, Replaces(gone, new), NEW r, Formed(r),
         r.key[3] = calls + 1 \/ \E g \in gone : g.key = r.key,
         \A s \in new : s.key # r.key
  PROVE  Replaces(gone, new \cup {r})
<1>1. IsFiniteSet(new \cup {r})
  BY FS_AddElement DEF Replaces
<1> QED BY <1>1 DEF Replaces

\* A row of this table made by the call in progress.
New(r, table) == Formed(r) /\ r.key[1] = table /\ r.key[3] = calls + 1

LEMMA RowNew == ASSUME NEW table, NEW x, NEW refs PROVE New(Row(Fresh(table, x), refs), table)
<1>1. Fresh(table, x)[1] = table /\ Fresh(table, x)[3] = calls + 1
  BY DEF Fresh
<1>2. Formed(Row(Fresh(table, x), refs)) /\ Row(Fresh(table, x), refs).key = Fresh(table, x)
  BY RowFormed
<1> QED BY <1>1, <1>2 DEF New

LEMMA OneNew ==
  ASSUME NEW gone, NEW new, Replaces(gone, new), NEW r, NEW table, New(r, table),
         \A s \in new : s.key[1] # table
  PROVE  Replaces(gone, new \cup {r})
BY OneMoreReplaces DEF New

\* The rows of the calls, by their tables.
LEMMA CallsMakeNew ==
  ASSUME NEW x, NEW by
  PROVE  /\ New(WalletMovement(x, by), "wallet_movements")
         /\ New(ClientMovement(x, by), "client_balance_movements")
         /\ \A table, more : New(Own(table, x, more), table)
BY RowNew DEF WalletMovement, ClientMovement, Own

LEMMA HistoryNew ==
  ASSUME NEW order, NEW by, order[1] \in {"transfers", "payments"}
  PROVE  New(History(order, by), HistoryOf[order[1]])
<1>1. PICK refs : History(order, by) = Row(Fresh(HistoryOf[order[1]], by), refs)
  BY DEF History
<1> QED BY <1>1, RowNew

LEMMA HistoryTables ==
  ASSUME NEW table \in {"transfers", "payments"}
  PROVE  HistoryOf[table] \in {"transfer_status_history", "payment_status_history"}
BY DEF HistoryOf

\* Some rows of calls, one after the other: a set of one, two or three.
LEMMA TwoNew ==
  ASSUME NEW gone, NEW a, NEW b, NEW ta, NEW tb, New(a, ta), New(b, tb), ta # tb
  PROVE  Replaces(gone, {a, b})
<1>1. Replaces(gone, {} \cup {a})
  BY NothingReplaces, OneNew
<1> DEFINE one == {} \cup {a}
<1>2. \A s \in one : s.key[1] # tb
  BY DEF New
<1>3. Replaces(gone, one)
  BY <1>1
<1>4. {a, b} = one \cup {b}
  OBVIOUS
<1> HIDE DEF one
<1>5. Replaces(gone, one \cup {b})
  BY <1>2, <1>3, OneNew
<1> QED BY <1>4, <1>5

LEMMA OneRowNew ==
  ASSUME NEW gone, NEW a, NEW ta, New(a, ta)
  PROVE  Replaces(gone, {a})
<1>1. Replaces(gone, {} \cup {a})
  BY NothingReplaces, OneNew
<1>2. {a} = {} \cup {a}
  OBVIOUS
<1> QED BY <1>1, <1>2, Zenon

LEMMA ThreeNew ==
  ASSUME NEW gone, NEW a, NEW b, NEW c, NEW ta, NEW tb, NEW tc,
         New(a, ta), New(b, tb), New(c, tc), ta # tb, ta # tc, tb # tc
  PROVE  Replaces(gone, {a, b, c})
<1>1. Replaces(gone, {a, b})
  BY TwoNew
<1>2. \A s \in {a, b} : s.key[1] # tc
  BY DEF New
<1>3. Replaces(gone, {a, b} \cup {c})
  BY <1>1, <1>2, OneNew
<1>4. {a, b, c} = {a, b} \cup {c}
  OBVIOUS
<1> QED BY <1>3, <1>4

LEMMA EntryReplaces ==
  ASSUME NEW x, CreateEntry(x)
  PROVE  \E gone, new : Call(gone, new) /\ Replaces(gone, new)
<1>1. PICK a : a = Own("entries", x, <<>>)
  OBVIOUS
<1>2. PICK b : b = WalletMovement(x, x)
  OBVIOUS
<1>3. PICK c : c = Row(Fresh("entry_lines", x), [entry_id |-> Fresh("entries", x),
                                                 wallet_id |-> Base("wallets", x)])
  OBVIOUS
<1>4. New(a, "entries") /\ New(b, "wallet_movements") /\ New(c, "entry_lines")
  BY <1>1, <1>2, <1>3, CallsMakeNew, RowNew
<1>5. Call({}, {a, b, c})
  BY <1>1, <1>2, <1>3 DEF CreateEntry
<1>6. Replaces({}, {a, b, c})
  BY <1>4, ThreeNew
<1> QED BY <1>5, <1>6

LEMMA NationalOperationReplaces ==
  ASSUME NEW x, CreateNationalOperation(x)
  PROVE  \E gone, new : Call(gone, new) /\ Replaces(gone, new)
<1>1. PICK a : a = Own("national_operations", x, <<>>)
  OBVIOUS
<1>2. PICK b : b = WalletMovement(x, x)
  OBVIOUS
<1>3. PICK c : c = Row(Fresh("national_operation_lines", x),
                       [national_operation_id |-> Fresh("national_operations", x),
                        wallet_id |-> Base("wallets", x)])
  OBVIOUS
<1>4. New(a, "national_operations") /\ New(b, "wallet_movements") /\ New(c, "national_operation_lines")
  BY <1>1, <1>2, <1>3, CallsMakeNew, RowNew
<1>5. Call({}, {a, b, c})
  BY <1>1, <1>2, <1>3 DEF CreateNationalOperation
<1>6. Replaces({}, {a, b, c})
  BY <1>4, ThreeNew
<1> QED BY <1>5, <1>6

LEMMA SupplierReplaces ==
  ASSUME NEW x, RebalanceSupplier(x)
  PROVE  \E gone, new : Call(gone, new) /\ Replaces(gone, new)
<1>1. PICK a : a = Own("supplier_balance_movements", x,
                       [supplier_id |-> Base("suppliers", x), wallet_id |-> Base("wallets", x)])
  OBVIOUS
<1>2. PICK b : b = WalletMovement(x, x)
  OBVIOUS
<1>3. New(a, "supplier_balance_movements") /\ New(b, "wallet_movements")
  BY <1>1, <1>2, CallsMakeNew
<1>4. Call({}, {a, b})
  BY <1>1, <1>2 DEF RebalanceSupplier
<1>5. Replaces({}, {a, b})
  BY <1>3, TwoNew
<1> QED BY <1>4, <1>5

LEMMA RateReplaces ==
  ASSUME NEW x, NEW collaboration, SetRate(x, collaboration)
  PROVE  \E gone, new : Call(gone, new) /\ Replaces(gone, new)
<1>1. PICK a : a = Own("private_sending_rates", x, [collaboration_id |-> collaboration])
  OBVIOUS
<1>2. New(a, "private_sending_rates")
  BY <1>1, CallsMakeNew
<1>3. Call({}, {a})
  BY <1>1 DEF SetRate
<1>4. Replaces({}, {a})
  BY <1>2, OneRowNew
<1> QED BY <1>3, <1>4

LEMMA ProofReplaces ==
  ASSUME NEW order, NEW by, UploadProof(order, by)
  PROVE  \E gone, new : Call(gone, new) /\ Replaces(gone, new)
<1>1. PICK refs : Call({}, {Row(Fresh("proofs", by), refs)})
  BY DEF UploadProof
<1>2. PICK a : a = Row(Fresh("proofs", by), refs)
  OBVIOUS
<1>3. New(a, "proofs")
  BY <1>2, RowNew
<1>4. Replaces({}, {a})
  BY <1>3, OneRowNew
<1> QED BY <1>1, <1>2, <1>4

LEMMA OrderReplaces ==
  ASSUME NEW x, NEW table \in {"transfers", "payments"}, NEW entry, NEW owed \in BOOLEAN,
         NEW paid \in BOOLEAN, CreateOrder(x, table, entry, owed, paid)
  PROVE  \E gone, new : Call(gone, new) /\ Replaces(gone, new)
<1>1. PICK order : order = Own(table, x,
                 [collaboration_id |-> Collaboration, entry_id |-> entry,
                  client_id |-> IF owed THEN Base("clients", x) ELSE Null,
                  wallet_id |-> IF paid THEN Base("wallets", x) ELSE Null])
  OBVIOUS
<1>2. New(order, table)
  BY <1>1, CallsMakeNew
<1>3. PICK a : a = [order EXCEPT !.pending = TRUE]
  OBVIOUS
<1>4. a = [key |-> order.key, pending |-> TRUE, refs |-> order.refs]
  <2>1. order = [key |-> order.key, pending |-> order.pending, refs |-> order.refs]
    BY <1>2 DEF New, Formed
  <2> QED BY <1>3, <2>1
<1>5. New(a, table)
  <2>1. order.refs = [c \in DOMAIN order.refs |-> order.refs[c]]
    BY <1>2 DEF New, Formed
  <2>2. Formed(a) /\ a.key = order.key
    BY <1>2, <1>4, <2>1, RowReformed DEF New
  <2> QED BY <1>2, <2>2 DEF New
<1>6. order.key[1] = table
  BY <1>2 DEF New
<1>7. PICK b : b = History(order.key, x)
  OBVIOUS
<1>8. New(b, HistoryOf[table]) /\ HistoryOf[table] \in {"transfer_status_history", "payment_status_history"}
  BY <1>6, <1>7, HistoryNew, HistoryTables
<1>9. PICK movements : movements = IF owed THEN {ClientMovement(x, x)} ELSE {}
  OBVIOUS
<1>10. PICK allocations : allocations =
         { Row(Fresh("entry_allocations", x), [entry_id |-> e, target_id |-> order.key]) : e \in {entry} \ {Null} }
  OBVIOUS
<1>11. Call({}, {a, b} \cup movements \cup allocations)
  <2>1. Call({}, {[order EXCEPT !.pending = TRUE], History(order.key, x)}
                  \cup (IF owed THEN {ClientMovement(x, x)} ELSE {})
                  \cup { Row(Fresh("entry_allocations", x), [entry_id |-> e, target_id |-> order.key]) :
                           e \in {entry} \ {Null} })
    BY <1>1 DEF CreateOrder
  <2> QED BY <1>3, <1>7, <1>9, <1>10, <2>1
<1>12. Replaces({}, {a, b})
  BY <1>5, <1>8, TwoNew
<1>13. /\ Replaces({}, {a, b} \cup movements)
       /\ \A s \in {a, b} \cup movements : s.key[1] # "entry_allocations"
  <2>1. \A s \in {a, b} : s.key[1] \in {"transfers", "payments", "transfer_status_history", "payment_status_history"}
    BY <1>5, <1>8 DEF New
  <2>2. CASE movements = {}
    BY <1>12, <2>1, <2>2
  <2>3. CASE movements = {ClientMovement(x, x)}
    <3>1. PICK c : c = ClientMovement(x, x)
      OBVIOUS
    <3>2. New(c, "client_balance_movements")
      BY <3>1, CallsMakeNew
    <3>3. Replaces({}, {a, b} \cup {c})
      BY <1>12, <2>1, <3>2, OneNew
    <3> QED BY <2>1, <2>3, <3>1, <3>2, <3>3 DEF New
  <2> QED BY <1>9, <2>2, <2>3
<1>14. Replaces({}, {a, b} \cup movements \cup allocations)
  <2>1. PICK before : before = {a, b} \cup movements
    OBVIOUS
  <2>2. CASE entry = Null
    <3>1. allocations = {}
      BY <1>10, <2>2
    <3> QED BY <1>13, <3>1
  <2>3. CASE entry # Null
    <3>1. PICK c : c = Row(Fresh("entry_allocations", x), [entry_id |-> entry, target_id |-> order.key])
      OBVIOUS
    <3>2. allocations = {c}
      BY <1>10, <2>3, <3>1
    <3>3. New(c, "entry_allocations")
      BY <3>1, RowNew
    <3>4. Replaces({}, before \cup {c})
      BY <1>13, <2>1, <3>3, OneNew
    <3> QED BY <2>1, <3>2, <3>4
  <2> QED BY <2>2, <2>3
<1> QED BY <1>11, <1>14

OrderTables == {"transfers", "payments", "transfer_status_history", "payment_status_history"}

LEMMA OrdersFormed ==
  ASSUME RowsFormed, NEW order \in Orders
  PROVE  Formed(order) /\ order.key[1] \in {"transfers", "payments"}
BY DEF RowsFormed, Orders, View, Table

\* An order in another status, and the step in its history.
LEMMA ChangedOrderReplaces ==
  ASSUME RowsFormed, NEW order \in Orders, NEW gone, order \in gone, NEW by,
         NEW a, Formed(a), a.key = order.key
  PROVE  /\ Replaces(gone, {a, History(order.key, by)})
         /\ \A s \in {a, History(order.key, by)} : s.key[1] \in OrderTables
<1>1. order.key[1] \in {"transfers", "payments"}
  BY OrdersFormed
<1>2. PICK b : b = History(order.key, by)
  OBVIOUS
<1>3. PICK table : table = HistoryOf[order.key[1]]
  OBVIOUS
<1>4. New(b, table) /\ table \in {"transfer_status_history", "payment_status_history"}
  BY <1>1, <1>2, <1>3, HistoryNew, HistoryTables
<1> DEFINE none == {}
<1>5. Replaces(gone, none) /\ \A s \in none : s.key # a.key
  BY NothingReplaces
<1> HIDE DEF none
<1>6. Replaces(gone, none \cup {a})
  BY <1>5, OneMoreReplaces
<1>7. none \cup {a} = {a}
  BY DEF none
<1>8. \A s \in {a} : s.key[1] # table
  BY <1>1, <1>4
<1>9. Replaces(gone, {a})
  BY <1>6, <1>7
<1>10. Replaces(gone, {a} \cup {b})
  BY <1>4, <1>8, <1>9, OneNew
<1>11. {a, b} = {a} \cup {b}
  OBVIOUS
<1>12. Replaces(gone, {a, b})
  BY <1>10, <1>11
<1> QED BY <1>1, <1>2, <1>4, <1>12 DEF New, OrderTables

LEMMA ApprovalReplaces ==
  ASSUME RowsFormed, NEW order \in Orders, Approve(order)
  PROVE  \E gone, new : Call(gone, new) /\ Replaces(gone, new)
<1>1. Formed(order) /\ order.key[1] \in {"transfers", "payments"}
  BY OrdersFormed
<1>2. PICK x, y : x = order.key[2] /\ y = Other(x)
  OBVIOUS
<1>3. PICK wallet : wallet = IF Table(order) = "transfers" THEN Base("wallets", y) ELSE order.refs.wallet_id
  OBVIOUS
<1>4. PICK a : a = [order EXCEPT !.pending = FALSE, !.refs.wallet_id = wallet]
  OBVIOUS
<1>5. PICK refs : refs = [order.refs EXCEPT !["wallet_id"] = wallet]
  OBVIOUS
<1>6. PICK old : old = order.refs /\ old = [c \in DOMAIN old |-> old[c]]
  BY <1>1 DEF Formed
<1>7. DOMAIN refs = DOMAIN old /\ refs = [c \in DOMAIN refs |-> refs[c]]
  BY <1>5, <1>6
<1>8. a = [key |-> order.key, pending |-> FALSE, refs |-> refs]
  <2>1. order = [key |-> order.key, pending |-> order.pending, refs |-> order.refs]
    BY <1>1 DEF Formed
  <2> QED BY <1>4, <1>5, <2>1
<1>9. Formed(a) /\ a.key = order.key
  BY <1>1, <1>6, <1>7, <1>8, RowReformed
<1>10. PICK b, c : /\ b = History(order.key, y)
                   /\ c = Row(Fresh("collaborator_balance_movements", x),
                              [collaboration_id |-> Collaboration,
                               debtor_company_id |-> Base("companies", x),
                               creditor_company_id |-> Base("companies", y)])
  OBVIOUS
<1>11. PICK movements : movements =
         IF Table(order) = "transfers" THEN {WalletMovement(y, y)}
         ELSE IF order.refs.wallet_id = Null THEN {} ELSE {WalletMovement(x, y)}
  OBVIOUS
<1>12. Call({order}, {a, b, c} \cup movements)
  <2>1. Call({order},
          { [order EXCEPT !.pending = FALSE,
                          !.refs.wallet_id = IF Table(order) = "transfers" THEN Base("wallets", y) ELSE @],
            History(order.key, y),
            Row(Fresh("collaborator_balance_movements", x),
                [collaboration_id |-> Collaboration,
                 debtor_company_id |-> Base("companies", x),
                 creditor_company_id |-> Base("companies", y)]) }
          \cup IF Table(order) = "transfers" THEN {WalletMovement(y, y)}
               ELSE IF order.refs.wallet_id = Null THEN {} ELSE {WalletMovement(x, y)})
    BY <1>2 DEF Approve
  <2>2. [order EXCEPT !.pending = FALSE,
                      !.refs.wallet_id = IF Table(order) = "transfers" THEN Base("wallets", y) ELSE @] = a
    BY <1>3, <1>4
  <2> QED BY <1>10, <1>11, <2>1, <2>2
<1>13. Replaces({order}, {a, b}) /\ \A s \in {a, b} : s.key[1] \in OrderTables
  BY <1>9, <1>10, ChangedOrderReplaces
<1>14. New(c, "collaborator_balance_movements")
  BY <1>10, RowNew
<1>15. PICK three : three = {a, b, c}
  OBVIOUS
<1>16. Replaces({order}, three) /\ \A s \in three : s.key[1] # "wallet_movements"
  <2>1. \A s \in {a, b} : s.key[1] # "collaborator_balance_movements"
    BY <1>13 DEF OrderTables
  <2>2. Replaces({order}, {a, b} \cup {c})
    BY <1>13, <1>14, <2>1, OneNew
  <2>3. three = {a, b} \cup {c}
    BY <1>15
  <2> QED BY <1>13, <1>14, <2>2, <2>3 DEF New, OrderTables
<1>17. Replaces({order}, three \cup movements)
  <2>1. CASE movements = {}
    BY <1>16, <2>1
  <2>2. ASSUME NEW d, New(d, "wallet_movements"), movements = {d}
        PROVE  Replaces({order}, three \cup movements)
    BY <1>16, <2>2, OneNew
  <2> QED BY <1>11, <2>1, <2>2, CallsMakeNew
<1> QED BY <1>12, <1>15, <1>17

LEMMA ClosingReplaces ==
  ASSUME RowsFormed, NEW order \in Orders, NEW by, Close(order, by)
  PROVE  \E gone, new : Call(gone, new) /\ Replaces(gone, new)
<1>1. Formed(order) /\ order.key[1] \in {"transfers", "payments"}
  BY OrdersFormed
<1>2. PICK a : a = [order EXCEPT !.pending = FALSE]
  OBVIOUS
<1>3. Formed(a) /\ a.key = order.key
  <2>1. order = [key |-> order.key, pending |-> order.pending, refs |-> order.refs]
    BY <1>1 DEF Formed
  <2>2. a = [key |-> order.key, pending |-> FALSE, refs |-> order.refs]
    BY <1>2, <2>1
  <2>3. order.refs = [c \in DOMAIN order.refs |-> order.refs[c]]
    BY <1>1 DEF Formed
  <2> QED BY <1>1, <2>2, <2>3, RowReformed
<1>4. PICK b, gone : /\ b = History(order.key, by)
                     /\ gone = {order} \cup {r \in View : Table(r) = "entry_allocations" /\ r.refs.target_id = order.key}
  OBVIOUS
<1>5. PICK movements : movements = IF order.refs.client_id = Null THEN {} ELSE {ClientMovement(order.key[2], by)}
  OBVIOUS
<1>6. Call(gone, {a, b} \cup movements)
  BY <1>2, <1>4, <1>5 DEF Close
<1>7. order \in gone
  BY <1>4
<1>8. Replaces(gone, {a, b}) /\ \A s \in {a, b} : s.key[1] \in OrderTables
  BY <1>3, <1>4, <1>7, ChangedOrderReplaces
<1>9. PICK two : two = {a, b}
  OBVIOUS
<1>10. Replaces(gone, two) /\ \A s \in two : s.key[1] # "client_balance_movements"
  BY <1>8, <1>9 DEF OrderTables
<1>11. Replaces(gone, two \cup movements)
  <2>1. CASE movements = {}
    BY <1>10, <2>1
  <2>2. ASSUME NEW d, New(d, "client_balance_movements"), movements = {d}
        PROVE  Replaces(gone, two \cup movements)
    BY <1>10, <2>2, OneNew
  <2> QED BY <1>5, <2>1, <2>2, CallsMakeNew
<1> QED BY <1>6, <1>9, <1>11

LEMMA WorkReplaces ==
  ASSUME RowsFormed, Work
  PROVE  \E gone, new : Call(gone, new) /\ Replaces(gone, new)
<1>1. ASSUME NEW x \in Parties,
             CreateEntry(x) \/ CreateNationalOperation(x) \/ RebalanceSupplier(x)
               \/ (\E c \in {Collaboration, Null} : SetRate(x, c))
      PROVE  \E gone, new : Call(gone, new) /\ Replaces(gone, new)
  BY <1>1, EntryReplaces, NationalOperationReplaces, SupplierReplaces, RateReplaces
<1>2. ASSUME NEW x \in Parties, NEW table \in {"transfers", "payments"},
             NEW e \in EntriesOf(x) \cup {Null}, NEW owed \in BOOLEAN, NEW paid \in BOOLEAN,
             CreateOrder(x, table, e, owed, paid)
      PROVE  \E gone, new : Call(gone, new) /\ Replaces(gone, new)
  BY <1>2, OrderReplaces
<1>3. ASSUME NEW o \in Orders, Approve(o)
      PROVE  \E gone, new : Call(gone, new) /\ Replaces(gone, new)
  BY <1>3, ApprovalReplaces
<1>4. ASSUME NEW o \in Orders, NEW by \in Parties, Close(o, by) \/ UploadProof(o, by)
      PROVE  \E gone, new : Call(gone, new) /\ Replaces(gone, new)
  BY <1>4, ClosingReplaces, ProofReplaces
<1> QED BY <1>1, <1>2, <1>3, <1>4 DEF Work

\* A row of this table that x has from the start.
FromStart(r, table, x) == Formed(r) /\ r.key = <<table, x, 0>>

LEMMA RowFirst == ASSUME NEW table, NEW x, NEW refs PROVE FromStart(Row(Base(table, x), refs), table, x)
BY RowFormed DEF FromStart, Base

\* Rows one more of which is of no table there is yet.
FirstOnes(set, x) ==
  /\ IsFiniteSet(set)
  /\ \A r \in set : Formed(r) /\ r.key[2] = x /\ r.key[3] = 0
  /\ \A r, s \in set : r.key = s.key => r = s

LEMMA OneMoreFirst ==
  ASSUME NEW x, NEW set, FirstOnes(set, x), NEW r, NEW table, FromStart(r, table, x),
         \A s \in set : s.key[1] # table
  PROVE  FirstOnes(set \cup {r}, x)
<1>1. IsFiniteSet(set \cup {r})
  BY FS_AddElement DEF FirstOnes
<1> QED BY <1>1 DEF FirstOnes, FromStart

LEMMA FirstRowsFormed == ASSUME NEW x PROVE FirstOnes(FirstRows(x), x)
<1>1. PICK a, b, c, d, e, f, g :
        /\ a = Row(Base("companies", x), <<>>)
        /\ b = Row(Base("users", x), [company_id |-> Base("companies", x)])
        /\ c = Row(Base("wallets", x), [company_id |-> Base("companies", x)])
        /\ d = Row(Base("clients", x), [company_id |-> Base("companies", x)])
        /\ e = Row(Base("suppliers", x), [company_id |-> Base("companies", x)])
        /\ f = Row(Base("entries", x), [company_id |-> Base("companies", x),
                                        created_by_id |-> Base("users", x)])
        /\ g = Row(Base("entry_lines", x), [entry_id |-> Base("entries", x),
                                            wallet_id |-> Base("wallets", x)])
  OBVIOUS
<1>2. PICK h, i, j, k, l, m, n :
        /\ h = Row(Base("wallet_movements", x), [wallet_id |-> Base("wallets", x),
                                                 created_by_id |-> Base("users", x)])
        /\ i = Row(Base("subscriptions", x), [company_id |-> Base("companies", x)])
        /\ j = Row(Base("notifications", x), [company_id |-> Base("companies", x)])
        /\ k = Row(Base("audit_logs", x), [company_id |-> Base("companies", x),
                                           user_id |-> Base("users", x)])
        /\ l = Row(Base("system_logs", x), [company_id |-> Base("companies", x),
                                            user_id |-> Base("users", x)])
        /\ m = Row(Base("password_reset_otps", x), [user_id |-> Base("users", x)])
        /\ n = Row(Base("user_permission_overrides", x), [user_id |-> Base("users", x)])
  OBVIOUS
<1>3. /\ FromStart(a, "companies", x) /\ FromStart(b, "users", x) /\ FromStart(c, "wallets", x)
      /\ FromStart(d, "clients", x) /\ FromStart(e, "suppliers", x) /\ FromStart(f, "entries", x)
      /\ FromStart(g, "entry_lines", x)
  BY <1>1, RowFirst
<1>4. /\ FromStart(h, "wallet_movements", x) /\ FromStart(i, "subscriptions", x)
      /\ FromStart(j, "notifications", x) /\ FromStart(k, "audit_logs", x) /\ FromStart(l, "system_logs", x)
      /\ FromStart(m, "password_reset_otps", x) /\ FromStart(n, "user_permission_overrides", x)
  BY <1>2, RowFirst
<1>5. FirstRows(x) = {a, b, c, d, e, f, g, h, i, j, k, l, m, n}
  BY <1>1, <1>2, Zenon DEF FirstRows
<1>6. \A r, s \in {a, b, c, d, e, f, g, h, i, j, k, l, m, n} : r.key[1] = s.key[1] => r = s
  BY <1>3, <1>4 DEF FromStart
<1>7. \A r \in {a, b, c, d, e, f, g, h, i, j, k, l, m, n} : Formed(r) /\ r.key[2] = x /\ r.key[3] = 0
  BY <1>3, <1>4 DEF FromStart
<1>8. IsFiniteSet({a, b, c, d, e, f, g, h, i, j, k, l, m, n})
  <2>1. IsFiniteSet({a}) /\ IsFiniteSet({h})
    BY FS_Singleton
  <2>2. IsFiniteSet({a} \cup {b} \cup {c} \cup {d} \cup {e} \cup {f} \cup {g})
    BY <2>1, FS_AddElement
  <2>3. IsFiniteSet({h} \cup {i} \cup {j} \cup {k} \cup {l} \cup {m} \cup {n})
    BY <2>1, FS_AddElement
  <2>4. IsFiniteSet(({a} \cup {b} \cup {c} \cup {d} \cup {e} \cup {f} \cup {g})
                    \cup ({h} \cup {i} \cup {j} \cup {k} \cup {l} \cup {m} \cup {n}))
    BY <2>2, <2>3, FS_Union
  <2>5. ({a} \cup {b} \cup {c} \cup {d} \cup {e} \cup {f} \cup {g})
          \cup ({h} \cup {i} \cup {j} \cup {k} \cup {l} \cup {m} \cup {n})
        = {a, b, c, d, e, f, g, h, i, j, k, l, m, n}
    OBVIOUS
  <2> QED BY <2>4, <2>5
<1> QED BY <1>5, <1>6, <1>7, <1>8 DEF FirstOnes

LEMMA RowsInitiallyFormed == DeletionInit => RowsFormed
<1> SUFFICES ASSUME DeletionInit PROVE RowsFormed
  OBVIOUS
<1>1. PICK own, other, shared : own = FirstRows(Leaver) /\ other = FirstRows(Partner) /\ shared = SharedRows
  OBVIOUS
<1>2. rows = (own \cup other) \cup shared /\ calls = 0
  BY <1>1 DEF DeletionInit, InitialRows
<1>3. FirstOnes(own, Leaver) /\ FirstOnes(other, Partner) /\ Leaver # Partner
  BY <1>1, FirstRowsFormed, DeletionAssumption
<1>4. PICK a, b :
        /\ a = Row(Collaboration, [initiator_company_id |-> Base("companies", Leaver),
                                   target_company_id |-> Base("companies", Partner)])
        /\ b = Row(Base("collaboration_rate_history", Leaver),
                   [collaboration_id |-> Collaboration,
                    proposed_by_company_id |-> Base("companies", Leaver),
                    decided_by_company_id |-> Base("companies", Partner)])
  OBVIOUS
<1>5. shared = {a, b}
  BY <1>1, <1>4 DEF SharedRows
<1>6. FromStart(a, "collaborations", Leaver) /\ FromStart(b, "collaboration_rate_history", Leaver)
  BY <1>4, RowFirst DEF Collaboration
<1>7. \A r \in own : r.key[1] \notin {"collaborations", "collaboration_rate_history"}
  <2>1. \A r \in own : \E table \in {"companies", "users", "wallets", "clients", "suppliers", "entries",
            "entry_lines", "wallet_movements", "subscriptions", "notifications", "audit_logs",
            "system_logs", "password_reset_otps", "user_permission_overrides"} : FromStart(r, table, Leaver)
    BY <1>1, RowFirst DEF FirstRows
  <2> QED BY <2>1 DEF FromStart
<1>8. FirstOnes(shared, Leaver)
  <2>1. IsFiniteSet({a} \cup {b})
    BY FS_Singleton, FS_AddElement
  <2>2. {a} \cup {b} = shared
    BY <1>5
  <2> QED BY <1>5, <1>6, <2>1, <2>2 DEF FirstOnes, FromStart
<1>9. IsFiniteSet(rows)
  <2>1. IsFiniteSet(own \cup other)
    BY <1>3, FS_Union DEF FirstOnes
  <2> QED BY <1>2, <1>8, <2>1, FS_Union DEF FirstOnes
<1>10. \A r \in rows : Formed(r) /\ MadeBy(r, calls)
  BY <1>2, <1>3, <1>8 DEF FirstOnes, MadeBy
<1>11. \A r, s \in rows : r.key = s.key => r = s
  <2>1. \A r \in own, s \in shared : r.key # s.key
    BY <1>5, <1>6, <1>7 DEF FromStart
  <2>2. \A r \in own \cup shared, s \in other : r.key # s.key
    BY <1>3, <1>8 DEF FirstOnes
  <2> QED BY <1>2, <1>3, <1>8, <2>1, <2>2 DEF FirstOnes
<1> QED BY <1>9, <1>10, <1>11 DEF RowsFormed

---------------------------------------------------------------------------
(* The statements of a deletion, and its steps.                            *)

Where == {"children", "owned", "allocations", "orders", "collaborations", "itself"}

Names ==
  { "wallet_movements", "wallet_id", "wallets", "entry_lines", "entry_id", "entries",
    "entry_allocations", "national_operation_lines", "national_operation_id",
    "national_operations", "supplier_balance_movements", "client_balance_movements",
    "client_id", "clients", "proofs", "target_id", "transfers", "payments",
    "transfer_status_history", "collaboration_id", "collaborations",
    "payment_status_history", "suppliers", "company_id", "companies", "id",
    "private_sending_rates", "subscriptions", "notifications", "audit_logs", "users" }

Statement == [where : Where, table : Names, column : Names, parents : Names]

LEMMA StatementsTyped == Statements \in Seq(Statement)
<1>1. \A where \in Where : \A table, column, parents \in Names :
        Delete(where, table, column, parents) \in Statement
  BY DEF Delete, Statement
<1>2. \A a, b, c, d \in Statement :
        <<a>> \in Seq(Statement) /\ <<a, b>> \in Seq(Statement) /\ <<a, b, c, d>> \in Seq(Statement)
  OBVIOUS
<1>3. ASSUME NEW tables \in Seq(Names) PROVE Owned(tables) \in Seq(Statement)
  <2>1. ASSUME NEW i \in DOMAIN tables
        PROVE  Delete("owned", tables[i], "company_id", "companies") \in Statement
    <3>1. tables[i] \in Names
      OBVIOUS
    <3>2. "owned" \in Where /\ "company_id" \in Names /\ "companies" \in Names
      BY DEF Where, Names
    <3> QED BY <1>1, <3>1, <3>2
  <2>2. DOMAIN tables = 1..Len(tables) /\ Len(tables) \in Nat
    OBVIOUS
  <2>3. Owned(tables) \in [1..Len(tables) -> Statement]
    BY <2>1, <2>2 DEF Owned
  <2> QED BY <2>2, <2>3, SeqDef
<1>4. /\ Owned(<<"supplier_balance_movements">>) \in Seq(Statement)
      /\ Owned(<<"proofs">>) \in Seq(Statement)
      /\ Owned(<<"transfer_status_history">>) \in Seq(Statement)
      /\ Owned(<<"payment_status_history">>) \in Seq(Statement)
  <2>1. /\ <<"supplier_balance_movements">> \in Seq(Names) /\ <<"proofs">> \in Seq(Names)
        /\ <<"transfer_status_history">> \in Seq(Names) /\ <<"payment_status_history">> \in Seq(Names)
    BY DEF Names
  <2> QED BY <1>3, <2>1
<1>5. Owned(<<"entries", "national_operations", "wallets", "clients", "suppliers">>) \in Seq(Statement)
  <2>1. <<"entries", "national_operations", "wallets", "clients", "suppliers">> \in Seq(Names)
    BY DEF Names
  <2> QED BY <1>3, <2>1
<1>6. Owned(<<"private_sending_rates", "subscriptions", "notifications", "audit_logs", "users">>)
        \in Seq(Statement)
  <2>1. <<"private_sending_rates", "subscriptions", "notifications", "audit_logs", "users">> \in Seq(Names)
    BY DEF Names
  <2> QED BY <1>3, <2>1
<1>7. /\ Children("wallet_movements", "wallet_id", "wallets") \in Statement
      /\ Children("entry_lines", "entry_id", "entries") \in Statement
      /\ Children("entry_allocations", "entry_id", "entries") \in Statement
      /\ Children("national_operation_lines", "national_operation_id", "national_operations") \in Statement
      /\ Children("client_balance_movements", "client_id", "clients") \in Statement
  <2>1. "children" \in Where
    BY DEF Where
  <2>2. /\ "wallet_movements" \in Names /\ "wallet_id" \in Names /\ "wallets" \in Names
        /\ "entry_lines" \in Names /\ "entry_allocations" \in Names /\ "entry_id" \in Names
        /\ "entries" \in Names /\ "national_operation_lines" \in Names
        /\ "national_operation_id" \in Names /\ "national_operations" \in Names
        /\ "client_balance_movements" \in Names /\ "client_id" \in Names /\ "clients" \in Names
    BY DEF Names
  <2> QED BY <1>1, <2>1, <2>2 DEF Children
<1>8. /\ Delete("allocations", "entry_allocations", "target_id", "transfers") \in Statement
      /\ Delete("allocations", "entry_allocations", "target_id", "payments") \in Statement
      /\ Delete("orders", "transfers", "collaboration_id", "collaborations") \in Statement
      /\ Delete("orders", "payments", "collaboration_id", "collaborations") \in Statement
      /\ Delete("collaborations", "collaborations", "company_id", "companies") \in Statement
      /\ Delete("itself", "companies", "id", "companies") \in Statement
  <2>1. /\ "allocations" \in Where /\ "orders" \in Where /\ "collaborations" \in Where
        /\ "itself" \in Where
    BY DEF Where
  <2>2. /\ "entry_allocations" \in Names /\ "target_id" \in Names /\ "transfers" \in Names
        /\ "payments" \in Names /\ "collaboration_id" \in Names /\ "collaborations" \in Names
        /\ "company_id" \in Names /\ "companies" \in Names /\ "id" \in Names
    BY DEF Names
  <2> QED BY <1>1, <2>1, <2>2
<1>9. \A a, b \in Seq(Statement) : a \o b \in Seq(Statement)
  OBVIOUS
<1> QED BY <1>2, <1>4, <1>5, <1>6, <1>7, <1>8, <1>9 DEF Statements

\* What a statement finds, and what cascades from it, it sees.
LEMMA FoundAreSeen ==
  ASSUME deletion.step \in Nat \ {0}, deletion.step <= Len(Statements)
  PROVE  Deleted \subseteq View
<1>1. \A table : Of(table) \subseteq View /\ OwnIn(table) \subseteq View
  BY DEF Of, OwnIn
<1>2. \A table, column, parents : Under(table, column, parents) \subseteq View
  BY <1>1 DEF Under
<1>3. \A table : /\ Collaborations \subseteq View
                 /\ OrdersConcerned(table) \subseteq View
                 /\ AllocationsConcerned(table) \subseteq View
  BY <1>1, <1>2 DEF Collaborations, OrdersConcerned, AllocationsConcerned
<1>4. \A delete, parents : Referring(delete, parents) \subseteq View
  BY <1>2 DEF Referring
<1>5. PICK s \in Statement : s = Statements[deletion.step]
  BY StatementsTyped
<1>6. Found(s) \subseteq View
  <2>1. s.where \in Where
    BY DEF Statement
  <2>2. {r \in Of("companies") : r.key = Base("companies", Leaver)} \subseteq View
    BY <1>1
  <2> QED BY <1>1, <1>2, <1>3, <2>1, <2>2 DEF Found, Where
<1>7. \A set : set \subseteq View => Doomed(set) \subseteq View
  BY <1>4 DEF Doomed
<1> QED BY <1>5, <1>6, <1>7 DEF Deleted

\* Keys name rows, and a deletion marks rows that are there.
DeletionInv ==
  /\ RowsFormed
  /\ calls \in 0..MaxCalls
  /\ deletion = [outcome |-> deletion.outcome, step |-> deletion.step,
                 deleted |-> deletion.deleted, blocking |-> deletion.blocking]
  /\ deletion.outcome \in {"none", "running", "done", "refused"}
  /\ deletion.step \in Nat \ {0}
  /\ deletion.deleted \subseteq Keys(rows)

LEMMA DeletionInitially == DeletionInit => DeletionInv
BY RowsInitiallyFormed, DeletionAssumption DEF DeletionInit, DeletionInv

LEMMA WorkKeepsRows == ASSUME DeletionInv, Work PROVE DeletionInv'
<1>1. PICK gone, new : Call(gone, new) /\ Replaces(gone, new)
  BY WorkReplaces DEF DeletionInv
<1>2. calls \in Nat /\ calls' \in 0..MaxCalls /\ deletion' = deletion
  BY <1>1, DeletionAssumption DEF Call, DeletionInv
<1>3. RowsFormed' /\ (deletion.deleted \subseteq Keys(rows) => (deletion.deleted \subseteq Keys(rows))')
  BY <1>1, <1>2, CallKeepsRows DEF DeletionInv
<1> QED BY <1>2, <1>3 DEF DeletionInv

LEMMA SameRows == ASSUME RowsFormed, rows' = rows, calls' = calls PROVE RowsFormed'
BY DEF RowsFormed

LEMMA StatementKeepsRows ==
  ASSUME DeletionInv, BeginDeletion \/ Execute \/ Refuse
  PROVE  DeletionInv'
<1>1. RowsFormed' /\ rows' = rows /\ calls' = calls
  BY SameRows DEF DeletionInv, BeginDeletion, Execute, Refuse
<1>2. Keys(rows') = Keys(rows)
  BY <1>1
<1>3. CASE BeginDeletion
  BY <1>1, <1>2, <1>3 DEF DeletionInv, BeginDeletion
<1>4. CASE Execute
  <2>1. Deleted \subseteq rows
    BY <1>4, FoundAreSeen DEF DeletionInv, Execute, View
  <2>2. Keys(Deleted) \subseteq Keys(rows)
    BY <2>1 DEF Keys
  <2>3. PICK more : more = Keys(Deleted)
    OBVIOUS
  <2>4. deletion' = [deletion EXCEPT !.step = @ + 1, !.deleted = @ \cup more]
    BY <1>4, <2>3 DEF Execute
  <2>5. deletion' = [outcome |-> deletion.outcome, step |-> deletion.step + 1,
                     deleted |-> deletion.deleted \cup more, blocking |-> deletion.blocking]
    BY <2>4 DEF DeletionInv
  <2>6. deletion'.deleted \subseteq Keys(rows')
    BY <1>2, <2>2, <2>3, <2>5 DEF DeletionInv
  <2>7. /\ deletion'.outcome = deletion.outcome
        /\ deletion'.step \in Nat \ {0}
        /\ deletion' = [outcome |-> deletion'.outcome, step |-> deletion'.step,
                        deleted |-> deletion'.deleted, blocking |-> deletion'.blocking]
    BY <2>5 DEF DeletionInv
  <2> QED BY <1>1, <2>6, <2>7 DEF DeletionInv
<1>5. CASE Refuse
  <2>1. PICK blocking : blocking = Blocking
    OBVIOUS
  <2>2. deletion' = [deletion EXCEPT !.outcome = "refused", !.deleted = {}, !.blocking = blocking]
    BY <1>5, <2>1 DEF Refuse
  <2> QED BY <1>1, <1>2, <2>2 DEF DeletionInv
<1> QED BY <1>3, <1>4, <1>5

\* What is left of a row is that row with other references.
LEMMA CommitKeepsRows == ASSUME DeletionInv, Commit PROVE DeletionInv'
<1>1. ASSUME NEW r \in rows
      PROVE  Formed(Remaining(r)) /\ Remaining(r).key = r.key
  <2>1. PICK refs : /\ refs = [c \in DOMAIN r.refs |->
                         IF r.refs[c] \in deletion.deleted
                            /\ \E k \in ForeignKeys : k.delete = "set null" /\ k.table = Table(r)
                                                      /\ k.column = c
                         THEN Null ELSE r.refs[c]]
    OBVIOUS
  <2>2. Formed(r)
    BY DEF DeletionInv, RowsFormed
  <2>3. DOMAIN refs = DOMAIN r.refs /\ refs = [c \in DOMAIN refs |-> refs[c]]
    BY <2>1
  <2>4. Remaining(r) = [r EXCEPT !.refs = refs]
    BY <2>1, Zenon DEF Remaining
  <2>5. [r EXCEPT !.refs = refs] = [key |-> r.key, pending |-> r.pending, refs |-> refs]
    BY <2>2 DEF Formed
  <2>6. PICK new : new = [key |-> r.key, pending |-> r.pending, refs |-> refs]
    OBVIOUS
  <2>7. Formed(new) /\ new.key = r.key
    BY <2>2, <2>3, <2>6, RowReformed
  <2>8. Remaining(r) = new
    BY <2>4, <2>5, <2>6
  <2> QED BY <2>7, <2>8
<1>2. rows' = {Remaining(r) : r \in View} /\ View \subseteq rows /\ calls' = calls
  BY DEF Commit, View
<1>3. IsFiniteSet(rows')
  <2> DEFINE f == [r \in View |-> Remaining(r)]
  <2>1. IsFiniteSet(View)
    BY <1>2, FS_Subset DEF DeletionInv, RowsFormed
  <2>2. f \in Surjection(View, rows')
    BY <1>2 DEF Surjection
  <2> QED BY <2>1, <2>2, FS_Surjection
<1>4. ASSUME NEW q \in rows'
      PROVE  \E r \in rows : q = Remaining(r) /\ Formed(q) /\ q.key = r.key
  BY <1>1, <1>2
<1>5. \A q \in rows' : Formed(q) /\ MadeBy(q, calls')
  BY <1>2, <1>4 DEF DeletionInv, RowsFormed, MadeBy
<1>6. \A p, q \in rows' : p.key = q.key => p = q
  BY <1>4 DEF DeletionInv, RowsFormed
<1>7. RowsFormed'
  BY <1>3, <1>5, <1>6 DEF RowsFormed
<1>8. deletion' = [deletion EXCEPT !.outcome = "done", !.deleted = {}]
  BY DEF Commit
<1> QED BY <1>2, <1>7, <1>8 DEF DeletionInv

LEMMA DeletionStep == DeletionInv /\ [DeletionNext]_deletionVars => DeletionInv'
<1> SUFFICES ASSUME DeletionInv, [DeletionNext]_deletionVars PROVE DeletionInv'
  OBVIOUS
<1>1. CASE DeletionNext
  BY <1>1, WorkKeepsRows, StatementKeepsRows, CommitKeepsRows DEF DeletionNext
<1>2. CASE UNCHANGED deletionVars
  BY <1>2, SameRows DEF deletionVars, DeletionInv, Keys
<1> QED BY <1>1, <1>2

LEMMA DeletionHasTypes == DeletionInv => DeletionTypeOK
BY AsManyKeys DEF DeletionInv, DeletionTypeOK, RowsFormed, Formed

LEMMA DeletionSteps == [Next]_vars => [DeletionNext]_deletionVars
BY DEF Next, vars, ServeAccounts, ServeAdministrators, ServeDeletion

\* Sessions and codes, administrators and the rows of two companies keep their types for
\* any number of users, requests and calls, within the bounds Scenarios and MaxCalls set.
THEOREM TypeCorrect == Spec => []TypeOK
<1>1. Init => WithinBounds /\ AdminsInv /\ DeletionInv
  BY BoundsInitially, AdminsInitially, DeletionInitially DEF Init
<1>2. AccountsTyped /\ WithinBounds /\ [Next]_vars => WithinBounds'
  BY BoundsKept, AccountsSteps
<1>3. AdminsInv /\ [Next]_vars => AdminsInv'
  BY AdminsStep, AdministratorsSteps
<1>4. DeletionInv /\ [Next]_vars => DeletionInv'
  BY DeletionStep, DeletionSteps
<1>5. AccountsTyped /\ WithinBounds /\ AdminsInv /\ DeletionInv => TypeOK
  BY AccountsHaveTypes, DeletionHasTypes DEF TypeOK, AdminsInv
<1> QED BY <1>1, <1>2, <1>3, <1>4, <1>5, AccountsAlwaysTyped, PTL DEF Spec

----------------------------------------------------------------------------
(* What the foreign keys have in common, whatever the rows.                *)

Linked(table, column, to) ==
  \E k \in ForeignKeys : k.table = table /\ k.column = column /\ k.to = to

NullOnDelete(table, column) ==
  \E k \in ForeignKeys : k.delete = "set null" /\ k.table = table /\ k.column = column

OrderRows == {"transfers", "payments"}

\* A column refers to rows of one table, wherever it occurs.
CompanyColumns ==
  { "company_id", "initiator_company_id", "target_company_id", "proposed_by_company_id",
    "decided_by_company_id", "debtor_company_id", "creditor_company_id" }

UserColumns == {"user_id", "created_by_id", "uploaded_by_id"}

Refers(column, to) ==
  \/ column \in CompanyColumns /\ to = "companies"
  \/ column \in UserColumns /\ to = "users"
  \/ column = "client_id" /\ to = "clients"
  \/ column = "collaboration_id" /\ to = "collaborations"
  \/ column \in {"entry_id", "merged_into_id"} /\ to = "entries"
  \/ column = "wallet_id" /\ to = "wallets"
  \/ column \in {"national_operation_id", "reversal_of_id"} /\ to = "national_operations"
  \/ column = "payment_id" /\ to = "payments"
  \/ column = "transfer_id" /\ to = "transfers"
  \/ column = "supplier_id" /\ to = "suppliers"

\* What a key does depends on its table and its column.
Restricting(table, column) ==
  \/ column \in {"created_by_id", "uploaded_by_id", "wallet_id"}
  \/ table \in OrderRows /\ column \in {"collaboration_id", "entry_id", "client_id"}

Nulling(table, column) ==
  \/ column \in {"merged_into_id", "reversal_of_id"}
  \/ table = "audit_logs" /\ column = "user_id"
  \/ table = "system_logs" /\ column \in {"company_id", "user_id"}

\* The tables that cascades start from, but the companies.
ParentTables ==
  { "clients", "collaborations", "entries", "national_operations", "payments", "suppliers",
    "transfers", "users" }

\* Rows a company shares with nobody.
Exclusive ==
  {"companies", "users", "wallets", "clients", "suppliers", "entries", "national_operations"}

\* The row is of the company it refers to, or whose row it refers to.
SameOwner(table, column) ==
  \/ column \in {"company_id", "user_id", "supplier_id", "national_operation_id", "entry_id",
                 "client_id", "uploaded_by_id"}
  \/ column = "created_by_id" /\ table \notin {"wallet_movements", "client_balance_movements"}
  \/ column = "wallet_id" /\ table \notin OrderRows

SharedColumns == {"collaboration_id", "transfer_id", "payment_id", "target_id"}

BetweenCompanies ==
  {"collaborations", "collaboration_rate_history", "collaborator_balance_movements"}

\* The tables whose rows may stand in the way of a deletion.
RestrictingTables ==
  { "wallet_movements", "entry_lines", "national_operation_lines", "supplier_balance_movements",
    "client_balance_movements", "proofs", "entries", "national_operations", "private_sending_rates",
    "transfers", "payments" }

Sound(delete, table, column, to) ==
  /\ Refers(column, to)
  /\ delete = IF Restricting(table, column) THEN "restrict"
              ELSE IF Nulling(table, column) THEN "set null" ELSE "cascade"
  /\ delete = "cascade" =>
       /\ table # "companies"
       /\ to # "companies" => /\ to \in ParentTables
                              /\ table \notin ParentTables \cup {"companies", "wallets"}
       /\ \/ SameOwner(table, column) /\ to \in Exclusive
          \/ column \in SharedColumns
          \/ table \in BetweenCompanies
  /\ delete = "restrict" => /\ table \in RestrictingTables
                            /\ to = "wallets" => table # "private_sending_rates"

Regular(k) == Sound(k.delete, k.table, k.column, k.to)

LEMMA SoundKeys ==
  ASSUME NEW table, NEW column, NEW to
  PROVE  /\ Sound("cascade", table, column, to) => Regular(Cascade(table, column, to))
         /\ Sound("restrict", table, column, to) => Regular(Restricted(table, column, to))
         /\ Sound("set null", table, column, to) => Regular(SetNull(table, column, to))
BY DEF Regular, Cascade, Restricted, SetNull, Key

LEMMA OfCompanyRegular ==
  \A table : table \notin {"companies", "system_logs"} => Regular(OfCompany(table))
<1> SUFFICES ASSUME NEW table, table \notin {"companies", "system_logs"}
             PROVE  Sound("cascade", table, "company_id", "companies")
  BY SoundKeys DEF OfCompany
<1> QED BY DEF Sound, Refers, CompanyColumns, UserColumns, Restricting, Nulling, SameOwner, Exclusive

LEMMA ByUserRegular == \A table \in RestrictingTables : Regular(ByUser(table))
<1> SUFFICES ASSUME NEW table \in RestrictingTables PROVE Sound("restrict", table, "created_by_id", "users")
  BY SoundKeys DEF ByUser
<1> QED BY DEF Sound, Refers, CompanyColumns, UserColumns, Restricting, RestrictingTables

LEMMA OrderKeysRegular == \A table \in OrderRows : \A k \in OrderKeys(table) : Regular(k)
<1> SUFFICES ASSUME NEW table \in OrderRows PROVE \A k \in OrderKeys(table) : Regular(k)
  OBVIOUS
<1>1. /\ Sound("restrict", table, "collaboration_id", "collaborations")
      /\ Sound("restrict", table, "entry_id", "entries")
      /\ Sound("restrict", table, "wallet_id", "wallets")
      /\ Sound("restrict", table, "client_id", "clients")
  BY DEF Sound, Refers, CompanyColumns, UserColumns, Restricting, OrderRows, RestrictingTables
<1>2. Regular(OfCompany(table)) /\ Regular(ByUser(table))
  BY OfCompanyRegular, ByUserRegular DEF OrderRows, RestrictingTables
<1> QED BY <1>1, <1>2, SoundKeys DEF OrderKeys

LEMMA CompanyCascadesSound ==
  /\ Sound("cascade", "collaborations", "initiator_company_id", "companies")
  /\ Sound("cascade", "collaborations", "target_company_id", "companies")
  /\ Sound("cascade", "collaboration_rate_history", "proposed_by_company_id", "companies")
  /\ Sound("cascade", "collaboration_rate_history", "decided_by_company_id", "companies")
  /\ Sound("cascade", "collaborator_balance_movements", "debtor_company_id", "companies")
  /\ Sound("cascade", "collaborator_balance_movements", "creditor_company_id", "companies")
BY DEF Sound, Refers, CompanyColumns, UserColumns, Restricting, Nulling, OrderRows, ParentTables,
  SameOwner, SharedColumns, BetweenCompanies, Exclusive, RestrictingTables

LEMMA CascadesSound ==
  /\ Sound("cascade", "client_balance_movements", "client_id", "clients")
  /\ Sound("cascade", "collaboration_rate_history", "collaboration_id", "collaborations")
  /\ Sound("cascade", "collaborator_balance_movements", "collaboration_id", "collaborations")
  /\ Sound("cascade", "entry_allocations", "entry_id", "entries")
  /\ Sound("cascade", "entry_lines", "entry_id", "entries")
  /\ Sound("cascade", "national_operation_lines", "national_operation_id", "national_operations")
  /\ Sound("cascade", "password_reset_otps", "user_id", "users")
  /\ Sound("cascade", "payment_status_history", "payment_id", "payments")
  /\ Sound("cascade", "private_sending_rates", "collaboration_id", "collaborations")
  /\ Sound("cascade", "proofs", "transfer_id", "transfers")
  /\ Sound("cascade", "proofs", "payment_id", "payments")
  /\ Sound("cascade", "user_permission_overrides", "user_id", "users")
  /\ Sound("cascade", "supplier_balance_movements", "supplier_id", "suppliers")
  /\ Sound("cascade", "transfer_status_history", "transfer_id", "transfers")
BY DEF Sound, Refers, CompanyColumns, UserColumns, Restricting, Nulling, OrderRows, ParentTables,
  SameOwner, SharedColumns, BetweenCompanies, Exclusive, RestrictingTables

LEMMA OtherKeysSound ==
  /\ Sound("restrict", "entry_lines", "wallet_id", "wallets")
  /\ Sound("restrict", "national_operation_lines", "wallet_id", "wallets")
  /\ Sound("restrict", "proofs", "uploaded_by_id", "users")
  /\ Sound("restrict", "supplier_balance_movements", "wallet_id", "wallets")
  /\ Sound("restrict", "wallet_movements", "wallet_id", "wallets")
  /\ Sound("set null", "audit_logs", "user_id", "users")
  /\ Sound("set null", "entries", "merged_into_id", "entries")
  /\ Sound("set null", "national_operations", "reversal_of_id", "national_operations")
  /\ Sound("set null", "system_logs", "company_id", "companies")
  /\ Sound("set null", "system_logs", "user_id", "users")
BY DEF Sound, Refers, CompanyColumns, UserColumns, Restricting, Nulling, OrderRows, ParentTables,
  SameOwner, SharedColumns, BetweenCompanies, Exclusive, RestrictingTables

LEMMA KeysRegular == \A k \in ForeignKeys : Regular(k)
<1>1. \A k \in AuditLogKeys \cup ClientKeys \cup ClientMovementKeys \cup CollaborationKeys : Regular(k)
  BY SoundKeys, OfCompanyRegular, ByUserRegular, CompanyCascadesSound, CascadesSound, OtherKeysSound
     DEF RestrictingTables, AuditLogKeys, ClientKeys, ClientMovementKeys, CollaborationKeys
<1>2. \A k \in RateHistoryKeys \cup CollaboratorMovementKeys
                 \cup EntryKeys \cup EntryAllocationKeys : Regular(k)
  BY SoundKeys, OfCompanyRegular, ByUserRegular, CompanyCascadesSound, CascadesSound, OtherKeysSound
     DEF RestrictingTables, RateHistoryKeys, CollaboratorMovementKeys, EntryKeys, EntryAllocationKeys
<1>3. \A k \in EntryLineKeys \cup NationalOperationKeys
                 \cup NationalOperationLineKeys \cup NotificationKeys : Regular(k)
  BY SoundKeys, OfCompanyRegular, ByUserRegular, CompanyCascadesSound, CascadesSound, OtherKeysSound
     DEF RestrictingTables, EntryLineKeys, NationalOperationKeys, NationalOperationLineKeys, NotificationKeys
<1>4. \A k \in PasswordResetKeys \cup PaymentHistoryKeys
                 \cup PrivateRateKeys \cup ProofKeys : Regular(k)
  BY SoundKeys, OfCompanyRegular, ByUserRegular, CompanyCascadesSound, CascadesSound, OtherKeysSound
     DEF RestrictingTables, PasswordResetKeys, PaymentHistoryKeys, PrivateRateKeys, ProofKeys
<1>5. \A k \in OverrideKeys \cup SubscriptionKeys
                 \cup SupplierKeys \cup SupplierMovementKeys : Regular(k)
  BY SoundKeys, OfCompanyRegular, ByUserRegular, CompanyCascadesSound, CascadesSound, OtherKeysSound
     DEF RestrictingTables, OverrideKeys, SubscriptionKeys, SupplierKeys, SupplierMovementKeys
<1>6. \A k \in SystemLogKeys \cup TransferHistoryKeys \cup UserKeys \cup WalletKeys : Regular(k)
  BY SoundKeys, OfCompanyRegular, ByUserRegular, CompanyCascadesSound, CascadesSound, OtherKeysSound
     DEF RestrictingTables, SystemLogKeys, TransferHistoryKeys, UserKeys, WalletKeys
<1>7. \A k \in WalletMovementKeys : Regular(k)
  BY SoundKeys, OfCompanyRegular, ByUserRegular, CompanyCascadesSound, CascadesSound, OtherKeysSound
     DEF RestrictingTables, WalletMovementKeys
<1>8. \A k \in PaymentKeys \cup TransferKeys : Regular(k)
  BY OrderKeysRegular DEF PaymentKeys, TransferKeys, OrderRows
<1> QED BY <1>1, <1>2, <1>3, <1>4, <1>5, <1>6, <1>7, <1>8 DEF ForeignKeys

\* The references that rows are made with are foreign keys.
LEMMA OwnersLinked ==
  /\ \A table \in {"users", "wallets", "clients", "suppliers", "entries", "subscriptions",
                   "notifications", "audit_logs", "system_logs", "national_operations",
                   "supplier_balance_movements", "private_sending_rates", "transfers", "payments",
                   "transfer_status_history", "payment_status_history", "proofs"} :
       Linked(table, "company_id", "companies")
  /\ \A table \in {"entries", "wallet_movements", "client_balance_movements", "national_operations",
                   "supplier_balance_movements", "private_sending_rates", "transfers", "payments"} :
       Linked(table, "created_by_id", "users")
  /\ \A table \in {"audit_logs", "system_logs", "password_reset_otps", "user_permission_overrides"} :
       Linked(table, "user_id", "users")
<1>1. \A k \in AuditLogKeys \cup ClientKeys \cup ClientMovementKeys \cup EntryKeys \cup NationalOperationKeys
         \cup NotificationKeys \cup PasswordResetKeys \cup PaymentKeys \cup PaymentHistoryKeys
         \cup PrivateRateKeys \cup ProofKeys \cup OverrideKeys \cup SubscriptionKeys \cup SupplierKeys
         \cup SupplierMovementKeys \cup SystemLogKeys \cup TransferKeys \cup TransferHistoryKeys
         \cup UserKeys \cup WalletKeys \cup WalletMovementKeys :
         Linked(k.table, k.column, k.to)
  BY DEF Linked, ForeignKeys
<1> USE DEF OfCompany, ByUser, Restricted, Cascade, SetNull, Key
<1>2. /\ OfCompany("users") \in UserKeys /\ OfCompany("wallets") \in WalletKeys
      /\ OfCompany("clients") \in ClientKeys /\ OfCompany("suppliers") \in SupplierKeys
      /\ OfCompany("entries") \in EntryKeys /\ OfCompany("subscriptions") \in SubscriptionKeys
      /\ OfCompany("notifications") \in NotificationKeys /\ OfCompany("audit_logs") \in AuditLogKeys
      /\ SetNull("system_logs", "company_id", "companies") \in SystemLogKeys
      /\ OfCompany("national_operations") \in NationalOperationKeys
      /\ OfCompany("supplier_balance_movements") \in SupplierMovementKeys
      /\ OfCompany("private_sending_rates") \in PrivateRateKeys
      /\ OfCompany("transfers") \in TransferKeys /\ OfCompany("payments") \in PaymentKeys
      /\ OfCompany("transfer_status_history") \in TransferHistoryKeys
      /\ OfCompany("payment_status_history") \in PaymentHistoryKeys
      /\ OfCompany("proofs") \in ProofKeys
  BY DEF UserKeys, WalletKeys, ClientKeys, SupplierKeys, EntryKeys, SubscriptionKeys, NotificationKeys,
     AuditLogKeys, SystemLogKeys, NationalOperationKeys, SupplierMovementKeys, PrivateRateKeys,
     TransferKeys, PaymentKeys, OrderKeys, TransferHistoryKeys, PaymentHistoryKeys, ProofKeys
<1>3. /\ ByUser("entries") \in EntryKeys /\ ByUser("wallet_movements") \in WalletMovementKeys
      /\ ByUser("client_balance_movements") \in ClientMovementKeys
      /\ ByUser("national_operations") \in NationalOperationKeys
      /\ ByUser("supplier_balance_movements") \in SupplierMovementKeys
      /\ ByUser("private_sending_rates") \in PrivateRateKeys
      /\ ByUser("transfers") \in TransferKeys /\ ByUser("payments") \in PaymentKeys
      /\ SetNull("audit_logs", "user_id", "users") \in AuditLogKeys
      /\ SetNull("system_logs", "user_id", "users") \in SystemLogKeys
      /\ Cascade("password_reset_otps", "user_id", "users") \in PasswordResetKeys
      /\ Cascade("user_permission_overrides", "user_id", "users") \in OverrideKeys
  BY DEF EntryKeys, WalletMovementKeys, ClientMovementKeys, NationalOperationKeys, SupplierMovementKeys,
     PrivateRateKeys, TransferKeys, PaymentKeys, OrderKeys, AuditLogKeys, SystemLogKeys,
     PasswordResetKeys, OverrideKeys
<1>4. /\ \A table : LET k == OfCompany(table) IN k.table = table /\ k.column = "company_id" /\ k.to = "companies"
      /\ \A table : LET k == ByUser(table) IN k.table = table /\ k.column = "created_by_id" /\ k.to = "users"
      /\ \A table, c, to : LET k == SetNull(table, c, to) IN k.table = table /\ k.column = c /\ k.to = to
      /\ \A table, c, to : LET k == Cascade(table, c, to) IN k.table = table /\ k.column = c /\ k.to = to
      /\ \A table, c, to : LET k == Restricted(table, c, to) IN k.table = table /\ k.column = c /\ k.to = to
  OBVIOUS
<1> HIDE DEF OfCompany, ByUser, Restricted, Cascade, SetNull, Key
<1>5. /\ Linked("users", "company_id", "companies") /\ Linked("wallets", "company_id", "companies")
      /\ Linked("clients", "company_id", "companies") /\ Linked("suppliers", "company_id", "companies")
      /\ Linked("entries", "company_id", "companies") /\ Linked("subscriptions", "company_id", "companies")
      /\ Linked("notifications", "company_id", "companies") /\ Linked("audit_logs", "company_id", "companies")
      /\ Linked("system_logs", "company_id", "companies")
      /\ Linked("national_operations", "company_id", "companies")
      /\ Linked("supplier_balance_movements", "company_id", "companies")
      /\ Linked("private_sending_rates", "company_id", "companies")
      /\ Linked("transfers", "company_id", "companies") /\ Linked("payments", "company_id", "companies")
      /\ Linked("transfer_status_history", "company_id", "companies")
      /\ Linked("payment_status_history", "company_id", "companies")
      /\ Linked("proofs", "company_id", "companies")
  BY <1>1, <1>2, <1>4
<1>6. /\ Linked("entries", "created_by_id", "users") /\ Linked("wallet_movements", "created_by_id", "users")
      /\ Linked("client_balance_movements", "created_by_id", "users")
      /\ Linked("national_operations", "created_by_id", "users")
      /\ Linked("supplier_balance_movements", "created_by_id", "users")
      /\ Linked("private_sending_rates", "created_by_id", "users")
      /\ Linked("transfers", "created_by_id", "users") /\ Linked("payments", "created_by_id", "users")
      /\ Linked("audit_logs", "user_id", "users") /\ Linked("system_logs", "user_id", "users")
      /\ Linked("password_reset_otps", "user_id", "users")
      /\ Linked("user_permission_overrides", "user_id", "users")
  BY <1>1, <1>3, <1>4
<1> QED BY <1>5, <1>6

LEMMA PartsLinked ==
  /\ Linked("entry_lines", "entry_id", "entries") /\ Linked("entry_lines", "wallet_id", "wallets")
  /\ Linked("wallet_movements", "wallet_id", "wallets")
  /\ Linked("client_balance_movements", "client_id", "clients")
  /\ Linked("national_operation_lines", "national_operation_id", "national_operations")
  /\ Linked("national_operation_lines", "wallet_id", "wallets")
  /\ Linked("supplier_balance_movements", "supplier_id", "suppliers")
  /\ Linked("supplier_balance_movements", "wallet_id", "wallets")
  /\ Linked("private_sending_rates", "collaboration_id", "collaborations")
  /\ Linked("entry_allocations", "entry_id", "entries")
  /\ Linked("transfer_status_history", "transfer_id", "transfers")
  /\ Linked("payment_status_history", "payment_id", "payments")
  /\ Linked("proofs", "transfer_id", "transfers") /\ Linked("proofs", "payment_id", "payments")
<1>1. \A k \in EntryLineKeys \cup WalletMovementKeys \cup ClientMovementKeys \cup NationalOperationLineKeys
         \cup SupplierMovementKeys \cup PrivateRateKeys \cup EntryAllocationKeys
         \cup TransferHistoryKeys \cup PaymentHistoryKeys \cup ProofKeys :
         Linked(k.table, k.column, k.to)
  BY DEF Linked, ForeignKeys
<1>2. /\ Cascade("entry_lines", "entry_id", "entries") \in EntryLineKeys
      /\ Restricted("entry_lines", "wallet_id", "wallets") \in EntryLineKeys
      /\ Restricted("wallet_movements", "wallet_id", "wallets") \in WalletMovementKeys
      /\ Cascade("client_balance_movements", "client_id", "clients") \in ClientMovementKeys
      /\ Cascade("national_operation_lines", "national_operation_id", "national_operations")
           \in NationalOperationLineKeys
      /\ Restricted("national_operation_lines", "wallet_id", "wallets") \in NationalOperationLineKeys
      /\ Cascade("supplier_balance_movements", "supplier_id", "suppliers") \in SupplierMovementKeys
      /\ Restricted("supplier_balance_movements", "wallet_id", "wallets") \in SupplierMovementKeys
      /\ Cascade("private_sending_rates", "collaboration_id", "collaborations") \in PrivateRateKeys
      /\ Cascade("entry_allocations", "entry_id", "entries") \in EntryAllocationKeys
      /\ Cascade("transfer_status_history", "transfer_id", "transfers") \in TransferHistoryKeys
      /\ Cascade("payment_status_history", "payment_id", "payments") \in PaymentHistoryKeys
      /\ Cascade("proofs", "transfer_id", "transfers") \in ProofKeys
      /\ Cascade("proofs", "payment_id", "payments") \in ProofKeys
  BY DEF EntryLineKeys, WalletMovementKeys, ClientMovementKeys, NationalOperationLineKeys,
     SupplierMovementKeys, PrivateRateKeys, EntryAllocationKeys, TransferHistoryKeys,
     PaymentHistoryKeys, ProofKeys
<1>3. /\ \A table, c, to : LET k == Cascade(table, c, to) IN k.table = table /\ k.column = c /\ k.to = to
      /\ \A table, c, to : LET k == Restricted(table, c, to) IN k.table = table /\ k.column = c /\ k.to = to
  BY DEF Cascade, Restricted, Key
<1> QED BY <1>1, <1>2, <1>3

LEMMA CollaborationsLinked ==
  /\ Linked("collaborations", "initiator_company_id", "companies")
  /\ Linked("collaborations", "target_company_id", "companies")
  /\ Linked("collaboration_rate_history", "collaboration_id", "collaborations")
  /\ Linked("collaboration_rate_history", "proposed_by_company_id", "companies")
  /\ Linked("collaboration_rate_history", "decided_by_company_id", "companies")
  /\ Linked("collaborator_balance_movements", "collaboration_id", "collaborations")
  /\ Linked("collaborator_balance_movements", "debtor_company_id", "companies")
  /\ Linked("collaborator_balance_movements", "creditor_company_id", "companies")
  /\ \A table \in OrderRows :
       /\ Linked(table, "collaboration_id", "collaborations") /\ Linked(table, "entry_id", "entries")
       /\ Linked(table, "wallet_id", "wallets") /\ Linked(table, "client_id", "clients")
<1>1. \A k \in CollaborationKeys \cup RateHistoryKeys \cup CollaboratorMovementKeys
                 \cup OrderKeys("transfers") \cup OrderKeys("payments") : Linked(k.table, k.column, k.to)
  BY DEF Linked, ForeignKeys, TransferKeys, PaymentKeys
<1>2. /\ Cascade("collaborations", "initiator_company_id", "companies") \in CollaborationKeys
      /\ Cascade("collaborations", "target_company_id", "companies") \in CollaborationKeys
      /\ Cascade("collaboration_rate_history", "collaboration_id", "collaborations") \in RateHistoryKeys
      /\ Cascade("collaboration_rate_history", "proposed_by_company_id", "companies") \in RateHistoryKeys
      /\ Cascade("collaboration_rate_history", "decided_by_company_id", "companies") \in RateHistoryKeys
      /\ Cascade("collaborator_balance_movements", "collaboration_id", "collaborations")
           \in CollaboratorMovementKeys
      /\ Cascade("collaborator_balance_movements", "debtor_company_id", "companies")
           \in CollaboratorMovementKeys
      /\ Cascade("collaborator_balance_movements", "creditor_company_id", "companies")
           \in CollaboratorMovementKeys
      /\ \A table \in OrderRows :
           /\ Restricted(table, "collaboration_id", "collaborations") \in OrderKeys(table)
           /\ Restricted(table, "entry_id", "entries") \in OrderKeys(table)
           /\ Restricted(table, "wallet_id", "wallets") \in OrderKeys(table)
           /\ Restricted(table, "client_id", "clients") \in OrderKeys(table)
  BY DEF CollaborationKeys, RateHistoryKeys, CollaboratorMovementKeys, OrderKeys
<1>3. /\ \A table, c, to : LET k == Cascade(table, c, to) IN k.table = table /\ k.column = c /\ k.to = to
      /\ \A table, c, to : LET k == Restricted(table, c, to) IN k.table = table /\ k.column = c /\ k.to = to
  BY DEF Cascade, Restricted, Key
<1>4. /\ Linked("collaborations", "initiator_company_id", "companies")
      /\ Linked("collaborations", "target_company_id", "companies")
      /\ Linked("collaboration_rate_history", "collaboration_id", "collaborations")
      /\ Linked("collaboration_rate_history", "proposed_by_company_id", "companies")
      /\ Linked("collaboration_rate_history", "decided_by_company_id", "companies")
      /\ Linked("collaborator_balance_movements", "collaboration_id", "collaborations")
      /\ Linked("collaborator_balance_movements", "debtor_company_id", "companies")
      /\ Linked("collaborator_balance_movements", "creditor_company_id", "companies")
  BY <1>1, <1>2, <1>3
<1>5. \A table \in OrderRows :
       /\ Linked(table, "collaboration_id", "collaborations") /\ Linked(table, "entry_id", "entries")
       /\ Linked(table, "wallet_id", "wallets") /\ Linked(table, "client_id", "clients")
  BY <1>1, <1>2, <1>3 DEF OrderRows
<1> QED BY <1>4, <1>5

LEMMA ProofsLinked == Linked("proofs", "uploaded_by_id", "users")
<1>1. \A k \in ProofKeys : Linked(k.table, k.column, k.to)
  BY DEF Linked, ForeignKeys
<1>2. Restricted("proofs", "uploaded_by_id", "users") \in ProofKeys
  BY DEF ProofKeys
<1> QED BY <1>1, <1>2 DEF Restricted, Key


----------------------------------------------------------------------------
(* The statements one by one.                                              *)

OwnedBy(table) == Delete("owned", table, "company_id", "companies")

LEMMA OwnedOne == ASSUME NEW a PROVE Owned(<<a>>) = <<OwnedBy(a)>>
<1>1. DOMAIN <<a>> = {1} /\ <<a>>[1] = a
  OBVIOUS
<1>2. Owned(<<a>>) = [i \in {1} |-> OwnedBy(<<a>>[i])]
  BY <1>1 DEF Owned, OwnedBy
<1>3. [i \in {1} |-> OwnedBy(<<a>>[i])] = [i \in {1} |-> OwnedBy(a)]
  BY <1>1
<1>4. <<OwnedBy(a)>> = [i \in {1} |-> OwnedBy(a)]
  OBVIOUS
<1> QED BY <1>2, <1>3, <1>4

LEMMA OwnedFive ==
  ASSUME NEW a, NEW b, NEW c, NEW d, NEW e
  PROVE  Owned(<<a, b, c, d, e>>) = <<OwnedBy(a), OwnedBy(b), OwnedBy(c), OwnedBy(d), OwnedBy(e)>>
<1>1. PICK t : t = <<a, b, c, d, e>>
  OBVIOUS
<1>2. DOMAIN t = 1..5 /\ t[1] = a /\ t[2] = b /\ t[3] = c /\ t[4] = d /\ t[5] = e
  BY <1>1
<1>3. PICK o : o = [i \in 1..5 |-> OwnedBy(t[i])]
  OBVIOUS
<1>4. Owned(t) = o
  BY <1>2, <1>3 DEF Owned, OwnedBy
<1>5. PICK u : u = <<OwnedBy(a), OwnedBy(b), OwnedBy(c), OwnedBy(d), OwnedBy(e)>>
  OBVIOUS
<1>6. DOMAIN u = 1..5 /\ u = [i \in 1..5 |-> u[i]]
  BY <1>5
<1>7. /\ u[1] = OwnedBy(t[1]) /\ u[2] = OwnedBy(t[2]) /\ u[3] = OwnedBy(t[3])
      /\ u[4] = OwnedBy(t[4]) /\ u[5] = OwnedBy(t[5])
  BY <1>2, <1>5
<1>8. \A i \in 1..5 : u[i] = o[i]
  BY <1>3, <1>7
<1>9. u = o
  BY <1>3, <1>6, <1>8
<1> QED BY <1>1, <1>4, <1>5, <1>9

LEMMA Joined ==
  ASSUME NEW S, NEW s \in Seq(S), NEW t \in Seq(S)
  PROVE  /\ s \o t \in Seq(S) /\ Len(s \o t) = Len(s) + Len(t)
         /\ \A i \in 1..Len(s) : (s \o t)[i] = s[i]
         /\ \A i \in Len(s) + 1 .. Len(s) + Len(t) : (s \o t)[i] = t[i - Len(s)]
OBVIOUS

LEMMA StatementAt ==
  /\ Len(Statements) = 25
  /\ Statements[1] = Children("wallet_movements", "wallet_id", "wallets")
  /\ Statements[2] = Children("entry_lines", "entry_id", "entries")
  /\ Statements[3] = Children("entry_allocations", "entry_id", "entries")
  /\ Statements[4] = Children("national_operation_lines", "national_operation_id", "national_operations")
  /\ Statements[5] = OwnedBy("supplier_balance_movements")
  /\ Statements[6] = Children("client_balance_movements", "client_id", "clients")
  /\ Statements[7] = OwnedBy("proofs")
  /\ Statements[8] = Delete("allocations", "entry_allocations", "target_id", "transfers")
  /\ Statements[9] = Delete("allocations", "entry_allocations", "target_id", "payments")
  /\ Statements[10] = OwnedBy("transfer_status_history")
  /\ Statements[11] = Delete("orders", "transfers", "collaboration_id", "collaborations")
  /\ Statements[12] = OwnedBy("payment_status_history")
  /\ Statements[13] = Delete("orders", "payments", "collaboration_id", "collaborations")
  /\ Statements[14] = OwnedBy("entries")
  /\ Statements[15] = OwnedBy("national_operations")
  /\ Statements[16] = OwnedBy("wallets")
  /\ Statements[17] = OwnedBy("clients")
  /\ Statements[18] = OwnedBy("suppliers")
  /\ Statements[19] = Delete("collaborations", "collaborations", "company_id", "companies")
  /\ Statements[20] = OwnedBy("private_sending_rates")
  /\ Statements[21] = OwnedBy("subscriptions")
  /\ Statements[22] = OwnedBy("notifications")
  /\ Statements[23] = OwnedBy("audit_logs")
  /\ Statements[24] = OwnedBy("users")
  /\ Statements[25] = Delete("itself", "companies", "id", "companies")
<1>1. PICK a1, a2, a3, a4, a5, a6, a7, a8, a9, a10, a11, a12, a13, a14, a15, a16, a17, a18, a19, a20, a21, a22, a23, a24, a25 :
        /\ a1 = Children("wallet_movements", "wallet_id", "wallets")
        /\ a2 = Children("entry_lines", "entry_id", "entries")
        /\ a3 = Children("entry_allocations", "entry_id", "entries")
        /\ a4 = Children("national_operation_lines", "national_operation_id", "national_operations")
        /\ a5 = OwnedBy("supplier_balance_movements")
        /\ a6 = Children("client_balance_movements", "client_id", "clients")
        /\ a7 = OwnedBy("proofs")
        /\ a8 = Delete("allocations", "entry_allocations", "target_id", "transfers")
        /\ a9 = Delete("allocations", "entry_allocations", "target_id", "payments")
        /\ a10 = OwnedBy("transfer_status_history")
        /\ a11 = Delete("orders", "transfers", "collaboration_id", "collaborations")
        /\ a12 = OwnedBy("payment_status_history")
        /\ a13 = Delete("orders", "payments", "collaboration_id", "collaborations")
        /\ a14 = OwnedBy("entries")
        /\ a15 = OwnedBy("national_operations")
        /\ a16 = OwnedBy("wallets")
        /\ a17 = OwnedBy("clients")
        /\ a18 = OwnedBy("suppliers")
        /\ a19 = Delete("collaborations", "collaborations", "company_id", "companies")
        /\ a20 = OwnedBy("private_sending_rates")
        /\ a21 = OwnedBy("subscriptions")
        /\ a22 = OwnedBy("notifications")
        /\ a23 = OwnedBy("audit_logs")
        /\ a24 = OwnedBy("users")
        /\ a25 = Delete("itself", "companies", "id", "companies")
  OBVIOUS
<1>2. PICK S : S = {a1, a2, a3, a4, a5, a6, a7, a8, a9, a10, a11, a12, a13, a14, a15, a16, a17, a18, a19, a20, a21, a22, a23, a24, a25}
  OBVIOUS
<1>3. PICK g1, g2, g3, g4, g5, g6, g7, g8, g9, g10, g11, g12, g13 :
        /\ g1 = <<a1, a2, a3, a4>>
        /\ g2 = <<a5>>
        /\ g3 = <<a6>>
        /\ g4 = <<a7>>
        /\ g5 = <<a8, a9>>
        /\ g6 = <<a10>>
        /\ g7 = <<a11>>
        /\ g8 = <<a12>>
        /\ g9 = <<a13>>
        /\ g10 = <<a14, a15, a16, a17, a18>>
        /\ g11 = <<a19>>
        /\ g12 = <<a20, a21, a22, a23, a24>>
        /\ g13 = <<a25>>
  OBVIOUS
<1>4. /\ g1 \in Seq(S) /\ Len(g1) = 4
      /\ g2 \in Seq(S) /\ Len(g2) = 1
      /\ g3 \in Seq(S) /\ Len(g3) = 1
      /\ g4 \in Seq(S) /\ Len(g4) = 1
      /\ g5 \in Seq(S) /\ Len(g5) = 2
      /\ g6 \in Seq(S) /\ Len(g6) = 1
      /\ g7 \in Seq(S) /\ Len(g7) = 1
      /\ g8 \in Seq(S) /\ Len(g8) = 1
      /\ g9 \in Seq(S) /\ Len(g9) = 1
      /\ g10 \in Seq(S) /\ Len(g10) = 5
      /\ g11 \in Seq(S) /\ Len(g11) = 1
      /\ g12 \in Seq(S) /\ Len(g12) = 5
      /\ g13 \in Seq(S) /\ Len(g13) = 1
  BY <1>2, <1>3
<1>5. /\ <<Children("wallet_movements", "wallet_id", "wallets"), Children("entry_lines", "entry_id", "entries"), Children("entry_allocations", "entry_id", "entries"), Children("national_operation_lines", "national_operation_id", "national_operations")>> = g1
      /\ Owned(<<"supplier_balance_movements">>) = g2
      /\ <<Children("client_balance_movements", "client_id", "clients")>> = g3
      /\ Owned(<<"proofs">>) = g4
      /\ <<Delete("allocations", "entry_allocations", "target_id", "transfers"), Delete("allocations", "entry_allocations", "target_id", "payments")>> = g5
      /\ Owned(<<"transfer_status_history">>) = g6
      /\ <<Delete("orders", "transfers", "collaboration_id", "collaborations")>> = g7
      /\ Owned(<<"payment_status_history">>) = g8
      /\ <<Delete("orders", "payments", "collaboration_id", "collaborations")>> = g9
      /\ Owned(<<"entries", "national_operations", "wallets", "clients", "suppliers">>) = g10
      /\ <<Delete("collaborations", "collaborations", "company_id", "companies")>> = g11
      /\ Owned(<<"private_sending_rates", "subscriptions", "notifications", "audit_logs", "users">>) = g12
      /\ <<Delete("itself", "companies", "id", "companies")>> = g13
  BY <1>1, <1>3, OwnedOne, OwnedFive
<1>6. PICK h2, h3, h4, h5, h6, h7, h8, h9, h10, h11, h12, h13 :
        /\ h2 = g1 \o g2
        /\ h3 = h2 \o g3
        /\ h4 = h3 \o g4
        /\ h5 = h4 \o g5
        /\ h6 = h5 \o g6
        /\ h7 = h6 \o g7
        /\ h8 = h7 \o g8
        /\ h9 = h8 \o g9
        /\ h10 = h9 \o g10
        /\ h11 = h10 \o g11
        /\ h12 = h11 \o g12
        /\ h13 = h12 \o g13
  OBVIOUS
<1>7. h13 = Statements
  BY <1>5, <1>6 DEF Statements
<1>8. /\ h2 \in Seq(S) /\ Len(h2) = 5
      /\ h2[1] = a1 /\ h2[2] = a2 /\ h2[3] = a3 /\ h2[4] = a4 /\ h2[5] = a5
  <2>a. h2 = g1 \o g2 /\ g1 \in Seq(S) /\ g2 \in Seq(S) /\ Len(g1) = 4 /\ Len(g2) = 1
    <3>1. h2 = g1 \o g2
      BY <1>6
    <3>2. g2 \in Seq(S) /\ Len(g2) = 1
      BY <1>4
    <3> QED BY <3>1, <3>2, <1>4
  <2>b. LET h == g1 \o g2
        IN /\ h \in Seq(S) /\ Len(h) = Len(g1) + Len(g2)
           /\ \A i \in 1..Len(g1) : h[i] = g1[i]
           /\ \A i \in Len(g1) + 1 .. Len(g1) + Len(g2) : h[i] = g2[i - Len(g1)]
    <3>1. g1 \in Seq(S) /\ g2 \in Seq(S)
      BY <2>a
    <3> QED BY <3>1, Joined
  <2>c. h2 \in Seq(S) /\ Len(h2) = 5
    BY <2>a, <2>b
  <2>d. \A i \in 1..4 : h2[i] = g1[i]
    BY <2>a, <2>b
  <2>1. ASSUME NEW i \in 5..5 PROVE h2[i] = g2[i - 4]
    <3>1. Len(g1) = 4 /\ Len(g2) = 1
      BY <2>a
    <3>2. i \in Len(g1) + 1 .. Len(g1) + Len(g2)
      BY <3>1
    <3>3. (g1 \o g2)[i] = g2[i - Len(g1)]
      BY <3>2, <2>b
    <3>4. h2 = g1 \o g2
      BY <2>a
    <3> QED BY <3>1, <3>3, <3>4
  <2>2. g2[1] = a5
    BY <1>3
  <2>3. g1[1] = a1 /\ g1[2] = a2 /\ g1[3] = a3 /\ g1[4] = a4
    BY <1>3
  <2>4. h2[5] = a5
    BY <2>1, <2>2
  <2> QED BY <2>3, <2>c, <2>d, <2>4
<1>9. /\ h3 \in Seq(S) /\ Len(h3) = 6
      /\ h3[1] = a1 /\ h3[2] = a2 /\ h3[3] = a3 /\ h3[4] = a4 /\ h3[5] = a5 /\ h3[6] = a6
  <2>a. h3 = h2 \o g3 /\ h2 \in Seq(S) /\ g3 \in Seq(S) /\ Len(h2) = 5 /\ Len(g3) = 1
    <3>1. h3 = h2 \o g3
      BY <1>6
    <3>2. g3 \in Seq(S) /\ Len(g3) = 1
      BY <1>4
    <3> QED BY <3>1, <3>2, <1>8
  <2>b. LET h == h2 \o g3
        IN /\ h \in Seq(S) /\ Len(h) = Len(h2) + Len(g3)
           /\ \A i \in 1..Len(h2) : h[i] = h2[i]
           /\ \A i \in Len(h2) + 1 .. Len(h2) + Len(g3) : h[i] = g3[i - Len(h2)]
    <3>1. h2 \in Seq(S) /\ g3 \in Seq(S)
      BY <2>a
    <3> QED BY <3>1, Joined
  <2>c. h3 \in Seq(S) /\ Len(h3) = 6
    BY <2>a, <2>b
  <2>d. \A i \in 1..5 : h3[i] = h2[i]
    BY <2>a, <2>b
  <2>1. ASSUME NEW i \in 6..6 PROVE h3[i] = g3[i - 5]
    <3>1. Len(h2) = 5 /\ Len(g3) = 1
      BY <2>a
    <3>2. i \in Len(h2) + 1 .. Len(h2) + Len(g3)
      BY <3>1
    <3>3. (h2 \o g3)[i] = g3[i - Len(h2)]
      BY <3>2, <2>b
    <3>4. h3 = h2 \o g3
      BY <2>a
    <3> QED BY <3>1, <3>3, <3>4
  <2>2. g3[1] = a6
    BY <1>3
  <2>4. h3[6] = a6
    BY <2>1, <2>2
  <2> QED BY <1>8, <2>c, <2>d, <2>4
<1>10. /\ h4 \in Seq(S) /\ Len(h4) = 7
      /\ h4[1] = a1 /\ h4[2] = a2 /\ h4[3] = a3 /\ h4[4] = a4 /\ h4[5] = a5 /\ h4[6] = a6
      /\ h4[7] = a7
  <2>a. h4 = h3 \o g4 /\ h3 \in Seq(S) /\ g4 \in Seq(S) /\ Len(h3) = 6 /\ Len(g4) = 1
    <3>1. h4 = h3 \o g4
      BY <1>6
    <3>2. g4 \in Seq(S) /\ Len(g4) = 1
      BY <1>4
    <3> QED BY <3>1, <3>2, <1>9
  <2>b. LET h == h3 \o g4
        IN /\ h \in Seq(S) /\ Len(h) = Len(h3) + Len(g4)
           /\ \A i \in 1..Len(h3) : h[i] = h3[i]
           /\ \A i \in Len(h3) + 1 .. Len(h3) + Len(g4) : h[i] = g4[i - Len(h3)]
    <3>1. h3 \in Seq(S) /\ g4 \in Seq(S)
      BY <2>a
    <3> QED BY <3>1, Joined
  <2>c. h4 \in Seq(S) /\ Len(h4) = 7
    BY <2>a, <2>b
  <2>d. \A i \in 1..6 : h4[i] = h3[i]
    BY <2>a, <2>b
  <2>1. ASSUME NEW i \in 7..7 PROVE h4[i] = g4[i - 6]
    <3>1. Len(h3) = 6 /\ Len(g4) = 1
      BY <2>a
    <3>2. i \in Len(h3) + 1 .. Len(h3) + Len(g4)
      BY <3>1
    <3>3. (h3 \o g4)[i] = g4[i - Len(h3)]
      BY <3>2, <2>b
    <3>4. h4 = h3 \o g4
      BY <2>a
    <3> QED BY <3>1, <3>3, <3>4
  <2>2. g4[1] = a7
    BY <1>3
  <2>4. h4[7] = a7
    BY <2>1, <2>2
  <2> QED BY <1>9, <2>c, <2>d, <2>4
<1>11. /\ h5 \in Seq(S) /\ Len(h5) = 9
      /\ h5[1] = a1 /\ h5[2] = a2 /\ h5[3] = a3 /\ h5[4] = a4 /\ h5[5] = a5 /\ h5[6] = a6
      /\ h5[7] = a7 /\ h5[8] = a8 /\ h5[9] = a9
  <2>a. h5 = h4 \o g5 /\ h4 \in Seq(S) /\ g5 \in Seq(S) /\ Len(h4) = 7 /\ Len(g5) = 2
    <3>1. h5 = h4 \o g5
      BY <1>6
    <3>2. g5 \in Seq(S) /\ Len(g5) = 2
      BY <1>4
    <3> QED BY <3>1, <3>2, <1>10
  <2>b. LET h == h4 \o g5
        IN /\ h \in Seq(S) /\ Len(h) = Len(h4) + Len(g5)
           /\ \A i \in 1..Len(h4) : h[i] = h4[i]
           /\ \A i \in Len(h4) + 1 .. Len(h4) + Len(g5) : h[i] = g5[i - Len(h4)]
    <3>1. h4 \in Seq(S) /\ g5 \in Seq(S)
      BY <2>a
    <3> QED BY <3>1, Joined
  <2>c. h5 \in Seq(S) /\ Len(h5) = 9
    BY <2>a, <2>b
  <2>d. \A i \in 1..7 : h5[i] = h4[i]
    BY <2>a, <2>b
  <2>1. ASSUME NEW i \in 8..9 PROVE h5[i] = g5[i - 7]
    <3>1. Len(h4) = 7 /\ Len(g5) = 2
      BY <2>a
    <3>2. i \in Len(h4) + 1 .. Len(h4) + Len(g5)
      BY <3>1
    <3>3. (h4 \o g5)[i] = g5[i - Len(h4)]
      BY <3>2, <2>b
    <3>4. h5 = h4 \o g5
      BY <2>a
    <3> QED BY <3>1, <3>3, <3>4
  <2>2. g5[1] = a8 /\ g5[2] = a9
    BY <1>3
  <2>4. h5[8] = a8 /\ h5[9] = a9
    BY <2>1, <2>2
  <2> QED BY <1>10, <2>c, <2>d, <2>4
<1>12. /\ h6 \in Seq(S) /\ Len(h6) = 10
      /\ h6[1] = a1 /\ h6[2] = a2 /\ h6[3] = a3 /\ h6[4] = a4 /\ h6[5] = a5 /\ h6[6] = a6
      /\ h6[7] = a7 /\ h6[8] = a8 /\ h6[9] = a9 /\ h6[10] = a10
  <2>a. h6 = h5 \o g6 /\ h5 \in Seq(S) /\ g6 \in Seq(S) /\ Len(h5) = 9 /\ Len(g6) = 1
    <3>1. h6 = h5 \o g6
      BY <1>6
    <3>2. g6 \in Seq(S) /\ Len(g6) = 1
      BY <1>4
    <3> QED BY <3>1, <3>2, <1>11
  <2>b. LET h == h5 \o g6
        IN /\ h \in Seq(S) /\ Len(h) = Len(h5) + Len(g6)
           /\ \A i \in 1..Len(h5) : h[i] = h5[i]
           /\ \A i \in Len(h5) + 1 .. Len(h5) + Len(g6) : h[i] = g6[i - Len(h5)]
    <3>1. h5 \in Seq(S) /\ g6 \in Seq(S)
      BY <2>a
    <3> QED BY <3>1, Joined
  <2>c. h6 \in Seq(S) /\ Len(h6) = 10
    BY <2>a, <2>b
  <2>d. \A i \in 1..9 : h6[i] = h5[i]
    BY <2>a, <2>b
  <2>1. ASSUME NEW i \in 10..10 PROVE h6[i] = g6[i - 9]
    <3>1. Len(h5) = 9 /\ Len(g6) = 1
      BY <2>a
    <3>2. i \in Len(h5) + 1 .. Len(h5) + Len(g6)
      BY <3>1
    <3>3. (h5 \o g6)[i] = g6[i - Len(h5)]
      BY <3>2, <2>b
    <3>4. h6 = h5 \o g6
      BY <2>a
    <3> QED BY <3>1, <3>3, <3>4
  <2>2. g6[1] = a10
    BY <1>3
  <2>4. h6[10] = a10
    BY <2>1, <2>2
  <2> QED BY <1>11, <2>c, <2>d, <2>4
<1>13. /\ h7 \in Seq(S) /\ Len(h7) = 11
      /\ h7[1] = a1 /\ h7[2] = a2 /\ h7[3] = a3 /\ h7[4] = a4 /\ h7[5] = a5 /\ h7[6] = a6
      /\ h7[7] = a7 /\ h7[8] = a8 /\ h7[9] = a9 /\ h7[10] = a10 /\ h7[11] = a11
  <2>a. h7 = h6 \o g7 /\ h6 \in Seq(S) /\ g7 \in Seq(S) /\ Len(h6) = 10 /\ Len(g7) = 1
    <3>1. h7 = h6 \o g7
      BY <1>6
    <3>2. g7 \in Seq(S) /\ Len(g7) = 1
      BY <1>4
    <3> QED BY <3>1, <3>2, <1>12
  <2>b. LET h == h6 \o g7
        IN /\ h \in Seq(S) /\ Len(h) = Len(h6) + Len(g7)
           /\ \A i \in 1..Len(h6) : h[i] = h6[i]
           /\ \A i \in Len(h6) + 1 .. Len(h6) + Len(g7) : h[i] = g7[i - Len(h6)]
    <3>1. h6 \in Seq(S) /\ g7 \in Seq(S)
      BY <2>a
    <3> QED BY <3>1, Joined
  <2>c. h7 \in Seq(S) /\ Len(h7) = 11
    BY <2>a, <2>b
  <2>d. \A i \in 1..10 : h7[i] = h6[i]
    BY <2>a, <2>b
  <2>1. ASSUME NEW i \in 11..11 PROVE h7[i] = g7[i - 10]
    <3>1. Len(h6) = 10 /\ Len(g7) = 1
      BY <2>a
    <3>2. i \in Len(h6) + 1 .. Len(h6) + Len(g7)
      BY <3>1
    <3>3. (h6 \o g7)[i] = g7[i - Len(h6)]
      BY <3>2, <2>b
    <3>4. h7 = h6 \o g7
      BY <2>a
    <3> QED BY <3>1, <3>3, <3>4
  <2>2. g7[1] = a11
    BY <1>3
  <2>4. h7[11] = a11
    BY <2>1, <2>2
  <2> QED BY <1>12, <2>c, <2>d, <2>4
<1>14. /\ h8 \in Seq(S) /\ Len(h8) = 12
      /\ h8[1] = a1 /\ h8[2] = a2 /\ h8[3] = a3 /\ h8[4] = a4 /\ h8[5] = a5 /\ h8[6] = a6
      /\ h8[7] = a7 /\ h8[8] = a8 /\ h8[9] = a9 /\ h8[10] = a10 /\ h8[11] = a11 /\ h8[12] = a12
  <2>a. h8 = h7 \o g8 /\ h7 \in Seq(S) /\ g8 \in Seq(S) /\ Len(h7) = 11 /\ Len(g8) = 1
    <3>1. h8 = h7 \o g8
      BY <1>6
    <3>2. g8 \in Seq(S) /\ Len(g8) = 1
      BY <1>4
    <3> QED BY <3>1, <3>2, <1>13
  <2>b. LET h == h7 \o g8
        IN /\ h \in Seq(S) /\ Len(h) = Len(h7) + Len(g8)
           /\ \A i \in 1..Len(h7) : h[i] = h7[i]
           /\ \A i \in Len(h7) + 1 .. Len(h7) + Len(g8) : h[i] = g8[i - Len(h7)]
    <3>1. h7 \in Seq(S) /\ g8 \in Seq(S)
      BY <2>a
    <3> QED BY <3>1, Joined
  <2>c. h8 \in Seq(S) /\ Len(h8) = 12
    BY <2>a, <2>b
  <2>d. \A i \in 1..11 : h8[i] = h7[i]
    BY <2>a, <2>b
  <2>1. ASSUME NEW i \in 12..12 PROVE h8[i] = g8[i - 11]
    <3>1. Len(h7) = 11 /\ Len(g8) = 1
      BY <2>a
    <3>2. i \in Len(h7) + 1 .. Len(h7) + Len(g8)
      BY <3>1
    <3>3. (h7 \o g8)[i] = g8[i - Len(h7)]
      BY <3>2, <2>b
    <3>4. h8 = h7 \o g8
      BY <2>a
    <3> QED BY <3>1, <3>3, <3>4
  <2>2. g8[1] = a12
    BY <1>3
  <2>4. h8[12] = a12
    BY <2>1, <2>2
  <2> QED BY <1>13, <2>c, <2>d, <2>4
<1>15. /\ h9 \in Seq(S) /\ Len(h9) = 13
      /\ h9[1] = a1 /\ h9[2] = a2 /\ h9[3] = a3 /\ h9[4] = a4 /\ h9[5] = a5 /\ h9[6] = a6
      /\ h9[7] = a7 /\ h9[8] = a8 /\ h9[9] = a9 /\ h9[10] = a10 /\ h9[11] = a11 /\ h9[12] = a12
      /\ h9[13] = a13
  <2>a. h9 = h8 \o g9 /\ h8 \in Seq(S) /\ g9 \in Seq(S) /\ Len(h8) = 12 /\ Len(g9) = 1
    <3>1. h9 = h8 \o g9
      BY <1>6
    <3>2. g9 \in Seq(S) /\ Len(g9) = 1
      BY <1>4
    <3> QED BY <3>1, <3>2, <1>14
  <2>b. LET h == h8 \o g9
        IN /\ h \in Seq(S) /\ Len(h) = Len(h8) + Len(g9)
           /\ \A i \in 1..Len(h8) : h[i] = h8[i]
           /\ \A i \in Len(h8) + 1 .. Len(h8) + Len(g9) : h[i] = g9[i - Len(h8)]
    <3>1. h8 \in Seq(S) /\ g9 \in Seq(S)
      BY <2>a
    <3> QED BY <3>1, Joined
  <2>c. h9 \in Seq(S) /\ Len(h9) = 13
    BY <2>a, <2>b
  <2>d. \A i \in 1..12 : h9[i] = h8[i]
    BY <2>a, <2>b
  <2>1. ASSUME NEW i \in 13..13 PROVE h9[i] = g9[i - 12]
    <3>1. Len(h8) = 12 /\ Len(g9) = 1
      BY <2>a
    <3>2. i \in Len(h8) + 1 .. Len(h8) + Len(g9)
      BY <3>1
    <3>3. (h8 \o g9)[i] = g9[i - Len(h8)]
      BY <3>2, <2>b
    <3>4. h9 = h8 \o g9
      BY <2>a
    <3> QED BY <3>1, <3>3, <3>4
  <2>2. g9[1] = a13
    BY <1>3
  <2>4. h9[13] = a13
    BY <2>1, <2>2
  <2> QED BY <1>14, <2>c, <2>d, <2>4
<1>16. /\ h10 \in Seq(S) /\ Len(h10) = 18
      /\ h10[1] = a1 /\ h10[2] = a2 /\ h10[3] = a3 /\ h10[4] = a4 /\ h10[5] = a5 /\ h10[6] = a6
      /\ h10[7] = a7 /\ h10[8] = a8 /\ h10[9] = a9 /\ h10[10] = a10 /\ h10[11] = a11 /\ h10[12] = a12
      /\ h10[13] = a13 /\ h10[14] = a14 /\ h10[15] = a15 /\ h10[16] = a16 /\ h10[17] = a17 /\ h10[18] = a18
  <2>a. h10 = h9 \o g10 /\ h9 \in Seq(S) /\ g10 \in Seq(S) /\ Len(h9) = 13 /\ Len(g10) = 5
    <3>1. h10 = h9 \o g10
      BY <1>6
    <3>2. g10 \in Seq(S) /\ Len(g10) = 5
      BY <1>4
    <3> QED BY <3>1, <3>2, <1>15
  <2>b. LET h == h9 \o g10
        IN /\ h \in Seq(S) /\ Len(h) = Len(h9) + Len(g10)
           /\ \A i \in 1..Len(h9) : h[i] = h9[i]
           /\ \A i \in Len(h9) + 1 .. Len(h9) + Len(g10) : h[i] = g10[i - Len(h9)]
    <3>1. h9 \in Seq(S) /\ g10 \in Seq(S)
      BY <2>a
    <3> QED BY <3>1, Joined
  <2>c. h10 \in Seq(S) /\ Len(h10) = 18
    BY <2>a, <2>b
  <2>d. \A i \in 1..13 : h10[i] = h9[i]
    BY <2>a, <2>b
  <2>1. ASSUME NEW i \in 14..18 PROVE h10[i] = g10[i - 13]
    <3>1. Len(h9) = 13 /\ Len(g10) = 5
      BY <2>a
    <3>2. i \in Len(h9) + 1 .. Len(h9) + Len(g10)
      BY <3>1
    <3>3. (h9 \o g10)[i] = g10[i - Len(h9)]
      BY <3>2, <2>b
    <3>4. h10 = h9 \o g10
      BY <2>a
    <3> QED BY <3>1, <3>3, <3>4
  <2>2. g10[1] = a14 /\ g10[2] = a15 /\ g10[3] = a16 /\ g10[4] = a17 /\ g10[5] = a18
    BY <1>3
  <2>4. h10[14] = a14 /\ h10[15] = a15 /\ h10[16] = a16 /\ h10[17] = a17 /\ h10[18] = a18
    BY <2>1, <2>2
  <2> QED BY <1>15, <2>c, <2>d, <2>4
<1>17. /\ h11 \in Seq(S) /\ Len(h11) = 19
      /\ h11[1] = a1 /\ h11[2] = a2 /\ h11[3] = a3 /\ h11[4] = a4 /\ h11[5] = a5 /\ h11[6] = a6
      /\ h11[7] = a7 /\ h11[8] = a8 /\ h11[9] = a9 /\ h11[10] = a10 /\ h11[11] = a11 /\ h11[12] = a12
      /\ h11[13] = a13 /\ h11[14] = a14 /\ h11[15] = a15 /\ h11[16] = a16 /\ h11[17] = a17 /\ h11[18] = a18
      /\ h11[19] = a19
  <2>a. h11 = h10 \o g11 /\ h10 \in Seq(S) /\ g11 \in Seq(S) /\ Len(h10) = 18 /\ Len(g11) = 1
    <3>1. h11 = h10 \o g11
      BY <1>6
    <3>2. g11 \in Seq(S) /\ Len(g11) = 1
      BY <1>4
    <3> QED BY <3>1, <3>2, <1>16
  <2>b. LET h == h10 \o g11
        IN /\ h \in Seq(S) /\ Len(h) = Len(h10) + Len(g11)
           /\ \A i \in 1..Len(h10) : h[i] = h10[i]
           /\ \A i \in Len(h10) + 1 .. Len(h10) + Len(g11) : h[i] = g11[i - Len(h10)]
    <3>1. h10 \in Seq(S) /\ g11 \in Seq(S)
      BY <2>a
    <3> QED BY <3>1, Joined
  <2>c. h11 \in Seq(S) /\ Len(h11) = 19
    BY <2>a, <2>b
  <2>d. \A i \in 1..18 : h11[i] = h10[i]
    BY <2>a, <2>b
  <2>1. ASSUME NEW i \in 19..19 PROVE h11[i] = g11[i - 18]
    <3>1. Len(h10) = 18 /\ Len(g11) = 1
      BY <2>a
    <3>2. i \in Len(h10) + 1 .. Len(h10) + Len(g11)
      BY <3>1
    <3>3. (h10 \o g11)[i] = g11[i - Len(h10)]
      BY <3>2, <2>b
    <3>4. h11 = h10 \o g11
      BY <2>a
    <3> QED BY <3>1, <3>3, <3>4
  <2>2. g11[1] = a19
    BY <1>3
  <2>4. h11[19] = a19
    BY <2>1, <2>2
  <2> QED BY <1>16, <2>c, <2>d, <2>4
<1>18. /\ h12 \in Seq(S) /\ Len(h12) = 24
      /\ h12[1] = a1 /\ h12[2] = a2 /\ h12[3] = a3 /\ h12[4] = a4 /\ h12[5] = a5 /\ h12[6] = a6
      /\ h12[7] = a7 /\ h12[8] = a8 /\ h12[9] = a9 /\ h12[10] = a10 /\ h12[11] = a11 /\ h12[12] = a12
      /\ h12[13] = a13 /\ h12[14] = a14 /\ h12[15] = a15 /\ h12[16] = a16 /\ h12[17] = a17 /\ h12[18] = a18
      /\ h12[19] = a19 /\ h12[20] = a20 /\ h12[21] = a21 /\ h12[22] = a22 /\ h12[23] = a23 /\ h12[24] = a24
  <2>a. h12 = h11 \o g12 /\ h11 \in Seq(S) /\ g12 \in Seq(S) /\ Len(h11) = 19 /\ Len(g12) = 5
    <3>1. h12 = h11 \o g12
      BY <1>6
    <3>2. g12 \in Seq(S) /\ Len(g12) = 5
      BY <1>4
    <3> QED BY <3>1, <3>2, <1>17
  <2>b. LET h == h11 \o g12
        IN /\ h \in Seq(S) /\ Len(h) = Len(h11) + Len(g12)
           /\ \A i \in 1..Len(h11) : h[i] = h11[i]
           /\ \A i \in Len(h11) + 1 .. Len(h11) + Len(g12) : h[i] = g12[i - Len(h11)]
    <3>1. h11 \in Seq(S) /\ g12 \in Seq(S)
      BY <2>a
    <3> QED BY <3>1, Joined
  <2>c. h12 \in Seq(S) /\ Len(h12) = 24
    BY <2>a, <2>b
  <2>d. \A i \in 1..19 : h12[i] = h11[i]
    BY <2>a, <2>b
  <2>1. ASSUME NEW i \in 20..24 PROVE h12[i] = g12[i - 19]
    <3>1. Len(h11) = 19 /\ Len(g12) = 5
      BY <2>a
    <3>2. i \in Len(h11) + 1 .. Len(h11) + Len(g12)
      BY <3>1
    <3>3. (h11 \o g12)[i] = g12[i - Len(h11)]
      BY <3>2, <2>b
    <3>4. h12 = h11 \o g12
      BY <2>a
    <3> QED BY <3>1, <3>3, <3>4
  <2>2. g12[1] = a20 /\ g12[2] = a21 /\ g12[3] = a22 /\ g12[4] = a23 /\ g12[5] = a24
    BY <1>3
  <2>4. h12[20] = a20 /\ h12[21] = a21 /\ h12[22] = a22 /\ h12[23] = a23 /\ h12[24] = a24
    BY <2>1, <2>2
  <2> QED BY <1>17, <2>c, <2>d, <2>4
<1>19. /\ h13 \in Seq(S) /\ Len(h13) = 25
      /\ h13[1] = a1 /\ h13[2] = a2 /\ h13[3] = a3 /\ h13[4] = a4 /\ h13[5] = a5 /\ h13[6] = a6
      /\ h13[7] = a7 /\ h13[8] = a8 /\ h13[9] = a9 /\ h13[10] = a10 /\ h13[11] = a11 /\ h13[12] = a12
      /\ h13[13] = a13 /\ h13[14] = a14 /\ h13[15] = a15 /\ h13[16] = a16 /\ h13[17] = a17 /\ h13[18] = a18
      /\ h13[19] = a19 /\ h13[20] = a20 /\ h13[21] = a21 /\ h13[22] = a22 /\ h13[23] = a23 /\ h13[24] = a24
      /\ h13[25] = a25
  <2>a. h13 = h12 \o g13 /\ h12 \in Seq(S) /\ g13 \in Seq(S) /\ Len(h12) = 24 /\ Len(g13) = 1
    <3>1. h13 = h12 \o g13
      BY <1>6
    <3>2. g13 \in Seq(S) /\ Len(g13) = 1
      BY <1>4
    <3> QED BY <3>1, <3>2, <1>18
  <2>b. LET h == h12 \o g13
        IN /\ h \in Seq(S) /\ Len(h) = Len(h12) + Len(g13)
           /\ \A i \in 1..Len(h12) : h[i] = h12[i]
           /\ \A i \in Len(h12) + 1 .. Len(h12) + Len(g13) : h[i] = g13[i - Len(h12)]
    <3>1. h12 \in Seq(S) /\ g13 \in Seq(S)
      BY <2>a
    <3> QED BY <3>1, Joined
  <2>c. h13 \in Seq(S) /\ Len(h13) = 25
    BY <2>a, <2>b
  <2>d. \A i \in 1..24 : h13[i] = h12[i]
    BY <2>a, <2>b
  <2>1. ASSUME NEW i \in 25..25 PROVE h13[i] = g13[i - 24]
    <3>1. Len(h12) = 24 /\ Len(g13) = 1
      BY <2>a
    <3>2. i \in Len(h12) + 1 .. Len(h12) + Len(g13)
      BY <3>1
    <3>3. (h12 \o g13)[i] = g13[i - Len(h12)]
      BY <3>2, <2>b
    <3>4. h13 = h12 \o g13
      BY <2>a
    <3> QED BY <3>1, <3>3, <3>4
  <2>2. g13[1] = a25
    BY <1>3
  <2>4. h13[25] = a25
    BY <2>1, <2>2
  <2> QED BY <1>18, <2>c, <2>d, <2>4
<1> QED BY <1>1, <1>7, <1>19


----------------------------------------------------------------------------
(* What the rows of a table refer to.                                      *)

\* What a row of this table and this company may have in this column.
Points(table, x, column, k) ==
  /\ \/ Linked(table, column, k[1])
     \/ table = "entry_allocations" /\ column = "target_id" /\ k[1] \in OrderRows
  /\ SameOwner(table, column) => k[2] = x
  /\ k[1] \in {"companies", "users"} => k = Base(k[1], k[2])

\* Columns that always refer to something.
Needed(table, column) ==
  \/ column = "company_id"
     /\ table \in {"supplier_balance_movements", "proofs", "entries", "national_operations",
                   "private_sending_rates", "wallets", "clients"}
  \/ column = "wallet_id" /\ table = "wallet_movements"
  \/ column = "client_id" /\ table = "client_balance_movements"
  \/ column = "entry_id" /\ table = "entry_lines"
  \/ column = "national_operation_id" /\ table = "national_operation_lines"
  \/ column = "target_id" /\ table = "entry_allocations"
  \/ column = "collaboration_id"
     /\ table \in {"transfers", "payments", "collaboration_rate_history", "collaborator_balance_movements"}

RefersRightly(r) ==
  \A c \in DOMAIN r.refs : r.refs[c] # Null => Points(Table(r), r.key[2], c, r.refs[c])

HasNeeded(r) == \A c : Needed(Table(r), c) => c \in DOMAIN r.refs /\ r.refs[c] # Null

Shaped(r) ==
  /\ r.key[2] \in Parties /\ Table(r) # "none"
  /\ RefersRightly(r)
  /\ HasNeeded(r)
  /\ Table(r) = "collaborations" =>
       r.key = Collaboration /\ r.refs.initiator_company_id = Base("companies", Leaver)

RowsShaped == \A r \in rows : Shaped(r)

\* References that may be made, and those a table needs.
MayRefer(table, x, refs) == \A c \in DOMAIN refs : refs[c] = Null \/ Points(table, x, c, refs[c])

Sufficient(table, refs) == \A c : Needed(table, c) => c \in DOMAIN refs /\ refs[c] # Null

LEMMA RowShaped ==
  ASSUME NEW key, NEW refs, MayRefer(key[1], key[2], refs), Sufficient(key[1], refs),
         key[2] \in Parties, key[1] \notin {"none", "collaborations"}
  PROVE  Shaped(Row(key, refs)) /\ Row(key, refs).key = key
<1>1. PICK r : r = Row(key, refs)
  OBVIOUS
<1>2. r.key = key /\ Table(r) = key[1]
  BY <1>1 DEF Row, Table
<1>3. /\ DOMAIN r.refs = Columns(key[1]) \cup DOMAIN refs
      /\ \A c \in DOMAIN r.refs : r.refs[c] = IF c \in DOMAIN refs THEN refs[c] ELSE Null
  BY <1>1 DEF Row
<1>4. RefersRightly(r)
  BY <1>2, <1>3 DEF RefersRightly, MayRefer
<1>5. HasNeeded(r)
  BY <1>2, <1>3 DEF HasNeeded, Sufficient
<1> QED BY <1>1, <1>2, <1>4, <1>5 DEF Shaped

LEMMA BaseParts == \A table, x : Base(table, x)[1] = table /\ Base(table, x)[2] = x /\ Base(table, x)[3] = 0
BY DEF Base

LEMMA FreshParts ==
  \A table, x : Fresh(table, x)[1] = table /\ Fresh(table, x)[2] = x /\ Fresh(table, x)[3] = calls + 1
BY DEF Fresh

\* To a row that is there from the start, of the same company or where that is not asked.
LEMMA PointsBase ==
  ASSUME NEW table, NEW x, NEW c, NEW to, NEW y, Linked(table, c, to), y = x \/ ~SameOwner(table, c)
  PROVE  Points(table, x, c, Base(to, y))
BY BaseParts DEF Points

LEMMA PointsOther ==
  ASSUME NEW table, NEW x, NEW c, NEW k, Linked(table, c, k[1]), k[1] \notin {"companies", "users"},
         k[2] = x \/ ~SameOwner(table, c)
  PROVE  Points(table, x, c, k)
BY DEF Points

LEMMA WalletMovementShaped ==
  ASSUME NEW x \in Parties, NEW by
  PROVE  /\ Shaped(WalletMovement(x, by))
         /\ New(WalletMovement(x, by), "wallet_movements")
<1>1. PICK refs : refs = [wallet_id |-> Base("wallets", x), created_by_id |-> Base("users", by)]
  OBVIOUS
<1>2. /\ DOMAIN refs = {"wallet_id", "created_by_id"}
      /\ refs["wallet_id"] = Base("wallets", x) /\ refs["created_by_id"] = Base("users", by)
  BY <1>1
<1>3. Points("wallet_movements", x, "wallet_id", Base("wallets", x))
  BY PartsLinked, PointsBase
<1>4. Points("wallet_movements", x, "created_by_id", Base("users", by))
  <2>1. ~SameOwner("wallet_movements", "created_by_id")
    BY DEF SameOwner
  <2>2. Linked("wallet_movements", "created_by_id", "users")
    BY OwnersLinked
  <2> QED BY <2>1, <2>2, PointsBase
<1>5. MayRefer("wallet_movements", x, refs)
  BY <1>2, <1>3, <1>4 DEF MayRefer
<1>6. Sufficient("wallet_movements", refs)
  <2>1. Base("wallets", x) # Null
    BY DEF Base, Null
  <2> QED BY <1>2, <2>1 DEF Sufficient, Needed
<1>7. PICK key : key = Fresh("wallet_movements", x)
  OBVIOUS
<1>8. key[1] = "wallet_movements" /\ key[2] = x
  BY <1>7, FreshParts
<1>9. Shaped(Row(key, refs)) /\ Row(key, refs).key = key
  BY <1>5, <1>6, <1>8, RowShaped
<1> QED BY <1>1, <1>7, <1>9, CallsMakeNew DEF WalletMovement

LEMMA ClientMovementShaped ==
  ASSUME NEW x \in Parties, NEW by
  PROVE  /\ Shaped(ClientMovement(x, by))
         /\ New(ClientMovement(x, by), "client_balance_movements")
<1>1. PICK refs : refs = [client_id |-> Base("clients", x), created_by_id |-> Base("users", by)]
  OBVIOUS
<1>2. /\ DOMAIN refs = {"client_id", "created_by_id"}
      /\ refs["client_id"] = Base("clients", x) /\ refs["created_by_id"] = Base("users", by)
  BY <1>1
<1>3. Points("client_balance_movements", x, "client_id", Base("clients", x))
  BY PartsLinked, PointsBase
<1>4. Points("client_balance_movements", x, "created_by_id", Base("users", by))
  <2>1. ~SameOwner("client_balance_movements", "created_by_id")
    BY DEF SameOwner
  <2>2. Linked("client_balance_movements", "created_by_id", "users")
    BY OwnersLinked
  <2> QED BY <2>1, <2>2, PointsBase
<1>5. MayRefer("client_balance_movements", x, refs)
  BY <1>2, <1>3, <1>4 DEF MayRefer
<1>6. Sufficient("client_balance_movements", refs)
  <2>1. Base("clients", x) # Null
    BY DEF Base, Null
  <2> QED BY <1>2, <2>1 DEF Sufficient, Needed
<1>7. PICK key : key = Fresh("client_balance_movements", x)
  OBVIOUS
<1>8. key[1] = "client_balance_movements" /\ key[2] = x
  BY <1>7, FreshParts
<1>9. Shaped(Row(key, refs)) /\ Row(key, refs).key = key
  BY <1>5, <1>6, <1>8, RowShaped
<1> QED BY <1>1, <1>7, <1>9, CallsMakeNew DEF ClientMovement

\* The rows with a company and an author.
Authored(table) == Linked(table, "company_id", "companies") /\ Linked(table, "created_by_id", "users")

LEMMA OwnShaped ==
  ASSUME NEW table, NEW x \in Parties, NEW more, Authored(table), MayRefer(table, x, more),
         DOMAIN more \cap {"company_id", "created_by_id"} = {},
         \A c : Needed(table, c) => c = "company_id" \/ (c \in DOMAIN more /\ more[c] # Null),
         table \notin {"none", "collaborations", "wallet_movements", "client_balance_movements"}
  PROVE  Shaped(Own(table, x, more)) /\ Own(table, x, more).key = Fresh(table, x)
<1>1. PICK refs : refs = [c \in {"company_id", "created_by_id"} \cup DOMAIN more |->
         IF c = "company_id" THEN Base("companies", x)
         ELSE IF c = "created_by_id" THEN Base("users", x) ELSE more[c]]
  OBVIOUS
<1>2. /\ DOMAIN refs = {"company_id", "created_by_id"} \cup DOMAIN more
      /\ refs["company_id"] = Base("companies", x) /\ refs["created_by_id"] = Base("users", x)
      /\ \A c \in DOMAIN more : refs[c] = more[c]
  BY <1>1
<1>3. Points(table, x, "company_id", Base("companies", x)) /\ Points(table, x, "created_by_id", Base("users", x))
  BY PointsBase DEF Authored
<1>4. MayRefer(table, x, refs)
  BY <1>2, <1>3 DEF MayRefer
<1>5. Sufficient(table, refs)
  <2>1. Base("companies", x) # Null
    BY DEF Base, Null
  <2> QED BY <1>2, <2>1 DEF Sufficient
<1>6. PICK key : key = Fresh(table, x)
  OBVIOUS
<1>7. key[1] = table /\ key[2] = x
  BY <1>6, FreshParts
<1>8. Shaped(Row(key, refs)) /\ Row(key, refs).key = key
  BY <1>4, <1>5, <1>7, RowShaped
<1> QED BY <1>1, <1>6, <1>8 DEF Own

LEMMA AllAuthored ==
  \A table \in {"entries", "national_operations", "supplier_balance_movements", "private_sending_rates",
                "transfers", "payments"} : Authored(table)
BY OwnersLinked DEF Authored

\* What a call puts in place of what: rows of the right shape, and nothing that others
\* refer to goes away.
Fits(gone, new) ==
  /\ \A r \in new : Shaped(r)
  /\ \A r \in new : r.key[3] = calls + 1 \/ \E g \in gone : g.key = r.key
  /\ \A r \in new : Table(r) = "entry_allocations" => r.refs.target_id \in Keys(new)
  /\ \A g \in gone : g.key \in Keys(new) \/ Table(g) = "entry_allocations"

LEMMA EntryFits ==
  ASSUME NEW x \in Parties, CreateEntry(x)
  PROVE  \E gone, new : Call(gone, new) /\ Fits(gone, new)
<1>1. PICK a, b : a = Own("entries", x, <<>>) /\ b = WalletMovement(x, x)
  OBVIOUS
<1>2. PICK refs : refs = [entry_id |-> Fresh("entries", x), wallet_id |-> Base("wallets", x)]
  OBVIOUS
<1>3. PICK key : key = Fresh("entry_lines", x)
  OBVIOUS
<1>4. PICK c : c = Row(key, refs)
  OBVIOUS
<1>5. Call({}, {a, b, c})
  BY <1>1, <1>2, <1>3, <1>4 DEF CreateEntry
<1>6. Shaped(a) /\ a.key[1] = "entries" /\ a.key[3] = calls + 1
  <2>1. MayRefer("entries", x, <<>>) /\ DOMAIN <<>> = {}
    BY DEF MayRefer
  <2>2. \A d : Needed("entries", d) => d = "company_id"
    BY DEF Needed
  <2>3. Authored("entries")
    BY AllAuthored
  <2>4. Shaped(Own("entries", x, <<>>)) /\ Own("entries", x, <<>>).key = Fresh("entries", x)
    BY <2>1, <2>2, <2>3, OwnShaped
  <2> QED BY <1>1, <2>4, FreshParts
<1>7. Shaped(b) /\ b.key[1] = "wallet_movements" /\ b.key[3] = calls + 1
  BY <1>1, WalletMovementShaped DEF New
<1>8. Shaped(c) /\ c.key[1] = "entry_lines" /\ c.key[3] = calls + 1
  <2>1. key[1] = "entry_lines" /\ key[2] = x
    BY <1>3, FreshParts
  <2>2. /\ DOMAIN refs = {"entry_id", "wallet_id"}
        /\ refs["entry_id"] = Fresh("entries", x) /\ refs["wallet_id"] = Base("wallets", x)
    BY <1>2
  <2>3. Points("entry_lines", x, "wallet_id", Base("wallets", x))
    BY PartsLinked, PointsBase
  <2>4. Points("entry_lines", x, "entry_id", Fresh("entries", x))
    BY PartsLinked, PointsOther, FreshParts
  <2>5. Fresh("entries", x) # Null
    BY DEF Fresh, Null
  <2>6. MayRefer("entry_lines", x, refs) /\ Sufficient("entry_lines", refs)
    BY <2>2, <2>3, <2>4, <2>5 DEF MayRefer, Sufficient, Needed
  <2>7. key[3] = calls + 1
    BY <1>3, FreshParts
  <2> QED BY <1>4, <2>1, <2>6, <2>7, RowShaped
<1>9. Fits({}, {a, b, c})
  BY <1>6, <1>7, <1>8 DEF Fits, Table
<1> QED BY <1>5, <1>9

LEMMA NationalOperationFits ==
  ASSUME NEW x \in Parties, CreateNationalOperation(x)
  PROVE  \E gone, new : Call(gone, new) /\ Fits(gone, new)
<1>1. PICK a, b : a = Own("national_operations", x, <<>>) /\ b = WalletMovement(x, x)
  OBVIOUS
<1>2. PICK refs : refs = [national_operation_id |-> Fresh("national_operations", x),
                          wallet_id |-> Base("wallets", x)]
  OBVIOUS
<1>3. PICK key : key = Fresh("national_operation_lines", x)
  OBVIOUS
<1>4. PICK c : c = Row(key, refs)
  OBVIOUS
<1>5. Call({}, {a, b, c})
  BY <1>1, <1>2, <1>3, <1>4 DEF CreateNationalOperation
<1>6. Shaped(a) /\ a.key[1] = "national_operations" /\ a.key[3] = calls + 1
  <2>1. MayRefer("national_operations", x, <<>>) /\ DOMAIN <<>> = {}
    BY DEF MayRefer
  <2>2. \A d : Needed("national_operations", d) => d = "company_id"
    BY DEF Needed
  <2>3. Authored("national_operations")
    BY AllAuthored
  <2>4. Shaped(Own("national_operations", x, <<>>)) /\ Own("national_operations", x, <<>>).key = Fresh("national_operations", x)
    BY <2>1, <2>2, <2>3, OwnShaped
  <2> QED BY <1>1, <2>4, FreshParts
<1>7. Shaped(b) /\ b.key[1] = "wallet_movements" /\ b.key[3] = calls + 1
  BY <1>1, WalletMovementShaped DEF New
<1>8. Shaped(c) /\ c.key[1] = "national_operation_lines" /\ c.key[3] = calls + 1
  <2>1. key[1] = "national_operation_lines" /\ key[2] = x
    BY <1>3, FreshParts
  <2>2. /\ DOMAIN refs = {"national_operation_id", "wallet_id"}
        /\ refs["national_operation_id"] = Fresh("national_operations", x)
        /\ refs["wallet_id"] = Base("wallets", x)
    BY <1>2
  <2>3. Points("national_operation_lines", x, "wallet_id", Base("wallets", x))
    BY PartsLinked, PointsBase
  <2>4. Points("national_operation_lines", x, "national_operation_id", Fresh("national_operations", x))
    BY PartsLinked, PointsOther, FreshParts
  <2>5. Fresh("national_operations", x) # Null
    BY DEF Fresh, Null
  <2>6. MayRefer("national_operation_lines", x, refs) /\ Sufficient("national_operation_lines", refs)
    BY <2>2, <2>3, <2>4, <2>5 DEF MayRefer, Sufficient, Needed
  <2>7. key[3] = calls + 1
    BY <1>3, FreshParts
  <2> QED BY <1>4, <2>1, <2>6, <2>7, RowShaped
<1>9. Fits({}, {a, b, c})
  BY <1>6, <1>7, <1>8 DEF Fits, Table
<1> QED BY <1>5, <1>9

LEMMA SupplierFits ==
  ASSUME NEW x \in Parties, RebalanceSupplier(x)
  PROVE  \E gone, new : Call(gone, new) /\ Fits(gone, new)
<1>1. PICK more : more = [supplier_id |-> Base("suppliers", x), wallet_id |-> Base("wallets", x)]
  OBVIOUS
<1>2. PICK a, b : a = Own("supplier_balance_movements", x, more) /\ b = WalletMovement(x, x)
  OBVIOUS
<1>3. Call({}, {a, b})
  BY <1>1, <1>2 DEF RebalanceSupplier
<1>4. Shaped(a) /\ a.key[1] = "supplier_balance_movements" /\ a.key[3] = calls + 1
  <2>1. /\ DOMAIN more = {"supplier_id", "wallet_id"}
        /\ more["supplier_id"] = Base("suppliers", x) /\ more["wallet_id"] = Base("wallets", x)
    BY <1>1
  <2>2. /\ Points("supplier_balance_movements", x, "supplier_id", Base("suppliers", x))
        /\ Points("supplier_balance_movements", x, "wallet_id", Base("wallets", x))
    BY PartsLinked, PointsBase
  <2>3. MayRefer("supplier_balance_movements", x, more)
    BY <2>1, <2>2 DEF MayRefer
  <2>4. \A d : Needed("supplier_balance_movements", d) => d = "company_id"
    BY DEF Needed
  <2>5. DOMAIN more \cap {"company_id", "created_by_id"} = {}
    BY <2>1
  <2>6. Authored("supplier_balance_movements")
    BY AllAuthored
  <2>7. Shaped(Own("supplier_balance_movements", x, more)) /\ Own("supplier_balance_movements", x, more).key = Fresh("supplier_balance_movements", x)
    BY <2>3, <2>4, <2>5, <2>6, OwnShaped
  <2> QED BY <1>2, <2>7, FreshParts
<1>5. Shaped(b) /\ b.key[1] = "wallet_movements" /\ b.key[3] = calls + 1
  BY <1>2, WalletMovementShaped DEF New
<1>6. Fits({}, {a, b})
  BY <1>4, <1>5 DEF Fits, Table
<1> QED BY <1>3, <1>6

LEMMA RateFits ==
  ASSUME NEW x \in Parties, NEW collaboration \in {Collaboration, Null}, SetRate(x, collaboration)
  PROVE  \E gone, new : Call(gone, new) /\ Fits(gone, new)
<1>1. PICK more : more = [collaboration_id |-> collaboration]
  OBVIOUS
<1>2. PICK a : a = Own("private_sending_rates", x, more)
  OBVIOUS
<1>3. Call({}, {a})
  BY <1>1, <1>2 DEF SetRate
<1>4. Shaped(a) /\ a.key[1] = "private_sending_rates" /\ a.key[3] = calls + 1
  <2>1. DOMAIN more = {"collaboration_id"} /\ more["collaboration_id"] = collaboration
    BY <1>1
  <2>2. Points("private_sending_rates", x, "collaboration_id", Collaboration)
    <3>1. ~SameOwner("private_sending_rates", "collaboration_id")
      BY DEF SameOwner
    <3> QED BY <3>1, PartsLinked, PointsBase DEF Collaboration
  <2>3. MayRefer("private_sending_rates", x, more)
    BY <2>1, <2>2 DEF MayRefer
  <2>4. \A d : Needed("private_sending_rates", d) => d = "company_id"
    BY DEF Needed
  <2>5. DOMAIN more \cap {"company_id", "created_by_id"} = {}
    BY <2>1
  <2>6. Authored("private_sending_rates")
    BY AllAuthored
  <2>7. Shaped(Own("private_sending_rates", x, more)) /\ Own("private_sending_rates", x, more).key = Fresh("private_sending_rates", x)
    BY <2>3, <2>4, <2>5, <2>6, OwnShaped
  <2> QED BY <1>2, <2>7, FreshParts
<1>5. Fits({}, {a})
  BY <1>4 DEF Fits, Table
<1> QED BY <1>3, <1>5


\* The step an order's history gets, by the company that decides.
LEMMA HistoryShaped ==
  ASSUME NEW order, order[1] \in OrderRows, NEW by \in Parties
  PROVE  /\ Shaped(History(order, by))
         /\ Table(History(order, by)) \in {"transfer_status_history", "payment_status_history"}
         /\ History(order, by).key[3] = calls + 1
<1>1. PICK table, column : table = HistoryOf[order[1]] /\ column = ColumnOf[order[1]]
  OBVIOUS
<1>2. \/ table = "transfer_status_history" /\ column = "transfer_id" /\ order[1] = "transfers"
      \/ table = "payment_status_history" /\ column = "payment_id" /\ order[1] = "payments"
  BY <1>1 DEF OrderRows, HistoryOf, ColumnOf
<1>3. PICK refs : refs = [c \in {"company_id", column} |-> IF c = "company_id" THEN Base("companies", by) ELSE order]
  OBVIOUS
<1>4. DOMAIN refs = {"company_id", column} /\ refs["company_id"] = Base("companies", by) /\ refs[column] = order
  BY <1>2, <1>3
<1>5. PICK key : key = Fresh(table, by)
  OBVIOUS
<1>6. History(order, by) = Row(key, refs)
  BY <1>1, <1>3, <1>5 DEF History
<1>7. key[1] = table /\ key[2] = by /\ key[3] = calls + 1
  BY <1>5, FreshParts
<1>8. Points(table, by, "company_id", Base("companies", by))
  <2>1. Linked(table, "company_id", "companies")
    BY <1>2, OwnersLinked
  <2> QED BY <2>1, PointsBase
<1>9. Points(table, by, column, order)
  <2>1. Linked(table, column, order[1])
    BY <1>2, PartsLinked
  <2>2. ~SameOwner(table, column) /\ order[1] \notin {"companies", "users"}
    BY <1>2 DEF SameOwner
  <2> QED BY <2>1, <2>2, PointsOther
<1>10. MayRefer(table, by, refs)
  BY <1>4, <1>8, <1>9 DEF MayRefer
<1>11. Sufficient(table, refs)
  BY <1>2 DEF Sufficient, Needed
<1>12. Shaped(Row(key, refs)) /\ Row(key, refs).key = key
  BY <1>2, <1>7, <1>10, <1>11, RowShaped
<1> QED BY <1>2, <1>6, <1>7, <1>12 DEF Table

LEMMA OrdersAreRows ==
  ASSUME NEW order \in Orders
  PROVE  order \in rows /\ order.key[1] \in OrderRows
BY DEF Orders, View, Table, OrderRows

LEMMA ProofFits ==
  ASSUME NEW order \in Orders, NEW by \in Parties, UploadProof(order, by)
  PROVE  \E gone, new : Call(gone, new) /\ Fits(gone, new)
<1>1. PICK column : column = ColumnOf[Table(order)]
  OBVIOUS
<1>2. \/ column = "transfer_id" /\ order.key[1] = "transfers"
      \/ column = "payment_id" /\ order.key[1] = "payments"
  BY <1>1, OrdersAreRows DEF OrderRows, ColumnOf, Table
<1>3. PICK refs : refs = [c \in {"company_id", "uploaded_by_id", column} |->
         IF c = "company_id" THEN Base("companies", by)
         ELSE IF c = "uploaded_by_id" THEN Base("users", by) ELSE order.key]
  OBVIOUS
<1>4. /\ DOMAIN refs = {"company_id", "uploaded_by_id", column}
      /\ refs["company_id"] = Base("companies", by) /\ refs["uploaded_by_id"] = Base("users", by)
      /\ refs[column] = order.key
  BY <1>2, <1>3
<1>5. PICK key : key = Fresh("proofs", by)
  OBVIOUS
<1>6. Call({}, {Row(key, refs)})
  BY <1>1, <1>3, <1>5 DEF UploadProof
<1>7. key[1] = "proofs" /\ key[2] = by /\ key[3] = calls + 1
  BY <1>5, FreshParts
<1>8. Points("proofs", by, "company_id", Base("companies", by))
  BY OwnersLinked, PointsBase
<1>9. Points("proofs", by, "uploaded_by_id", Base("users", by))
  BY ProofsLinked, PointsBase
<1>10. Points("proofs", by, column, order.key)
  <2>1. Linked("proofs", column, order.key[1])
    BY <1>2, PartsLinked
  <2>2. ~SameOwner("proofs", column) /\ order.key[1] \notin {"companies", "users"}
    BY <1>2 DEF SameOwner
  <2> QED BY <2>1, <2>2, PointsOther
<1>11. MayRefer("proofs", by, refs)
  BY <1>4, <1>8, <1>9, <1>10 DEF MayRefer
<1>12. Sufficient("proofs", refs)
  <2>1. Base("companies", by) # Null
    BY DEF Base, Null
  <2> QED BY <1>4, <2>1 DEF Sufficient, Needed
<1>13. Shaped(Row(key, refs)) /\ Row(key, refs).key = key
  BY <1>7, <1>11, <1>12, RowShaped
<1>14. PICK a : a = Row(key, refs)
  OBVIOUS
<1>15. Fits({}, {a})
  BY <1>7, <1>13, <1>14 DEF Fits, Table
<1> QED BY <1>6, <1>14, <1>15

\* The entry of an order is one of its creator's.
LEMMA EntriesOwn ==
  ASSUME NEW x, NEW e \in EntriesOf(x)
  PROVE  e[1] = "entries" /\ e[2] = x
BY DEF EntriesOf, Table

\* The row of an order as it is created.
LEMMA CreatedShaped ==
  ASSUME NEW x \in Parties, NEW table \in OrderRows, NEW entry \in EntriesOf(x) \cup {Null}, NEW more,
         DOMAIN more = {"collaboration_id", "entry_id", "client_id", "wallet_id"},
         more["collaboration_id"] = Collaboration, more["entry_id"] = entry,
         more["client_id"] \in {Base("clients", x), Null},
         more["wallet_id"] \in {Base("wallets", x), Null}
  PROVE  Shaped(Own(table, x, more)) /\ Own(table, x, more).key = Fresh(table, x)
<1>1. Points(table, x, "collaboration_id", Collaboration)
  <2>1. ~SameOwner(table, "collaboration_id")
    BY DEF SameOwner
  <2> QED BY <2>1, CollaborationsLinked, PointsBase DEF Collaboration
<1>2. entry = Null \/ Points(table, x, "entry_id", entry)
  BY EntriesOwn, CollaborationsLinked, PointsOther
<1>3. Points(table, x, "client_id", Base("clients", x)) /\ Points(table, x, "wallet_id", Base("wallets", x))
  BY CollaborationsLinked, PointsBase
<1>4. MayRefer(table, x, more)
  BY <1>1, <1>2, <1>3 DEF MayRefer
<1>5. Collaboration # Null
  BY DEF Collaboration, Base, Null
<1>6. \A c : Needed(table, c) => c = "company_id" \/ (c \in DOMAIN more /\ more[c] # Null)
  BY <1>5 DEF Needed, OrderRows
<1>7. Authored(table) /\ table \notin {"none", "collaborations", "wallet_movements", "client_balance_movements"}
  BY AllAuthored DEF OrderRows
<1>8. DOMAIN more \cap {"company_id", "created_by_id"} = {}
  OBVIOUS
<1> QED BY <1>4, <1>6, <1>7, <1>8, OwnShaped

\* A row keeps its shape in another status.
LEMMA SameShape ==
  ASSUME NEW r, Shaped(r), NEW s, s.key = r.key, s.refs = r.refs
  PROVE  Shaped(s)
BY DEF Shaped, RefersRightly, HasNeeded, Table

LEMMA AllocationShaped ==
  ASSUME NEW x \in Parties, NEW entry \in EntriesOf(x), NEW order, order[1] \in OrderRows, NEW c,
         c = Row(Fresh("entry_allocations", x), [entry_id |-> entry, target_id |-> order])
  PROVE  Shaped(c) /\ c.key[1] = "entry_allocations" /\ c.key[3] = calls + 1 /\ c.refs.target_id = order
<1>1. PICK refs : refs = [entry_id |-> entry, target_id |-> order]
  OBVIOUS
<1>2. DOMAIN refs = {"entry_id", "target_id"} /\ refs["entry_id"] = entry /\ refs["target_id"] = order
  BY <1>1
<1>3. PICK key : key = Fresh("entry_allocations", x)
  OBVIOUS
<1>4. key[1] = "entry_allocations" /\ key[2] = x /\ key[3] = calls + 1
  BY <1>3, FreshParts
<1>5. Points("entry_allocations", x, "entry_id", entry)
  BY EntriesOwn, PartsLinked, PointsOther
<1>6. Points("entry_allocations", x, "target_id", order)
  <2>1. ~SameOwner("entry_allocations", "target_id")
    BY DEF SameOwner
  <2> QED BY <2>1 DEF Points, OrderRows
<1>7. MayRefer("entry_allocations", x, refs)
  BY <1>2, <1>5, <1>6 DEF MayRefer
<1>8. Sufficient("entry_allocations", refs)
  <2>1. order # Null
    BY DEF Null, OrderRows
  <2> QED BY <1>2, <2>1 DEF Sufficient, Needed
<1>9. Shaped(Row(key, refs)) /\ Row(key, refs).key = key
  BY <1>4, <1>7, <1>8, RowShaped
<1>10. c = Row(key, refs)
  BY <1>1, <1>3
<1>11. Row(key, refs).refs.target_id = order
  BY <1>2 DEF Row
<1> QED BY <1>4, <1>9, <1>10, <1>11

LEMMA OrderFits ==
  ASSUME NEW x \in Parties, NEW table \in OrderRows, NEW entry \in EntriesOf(x) \cup {Null}, NEW owed \in BOOLEAN,
         NEW paid \in BOOLEAN, CreateOrder(x, table, entry, owed, paid)
  PROVE  \E gone, new : Call(gone, new) /\ Fits(gone, new)
<1>1. PICK more : more = [collaboration_id |-> Collaboration, entry_id |-> entry,
                  client_id |-> IF owed THEN Base("clients", x) ELSE Null,
                  wallet_id |-> IF paid THEN Base("wallets", x) ELSE Null]
  OBVIOUS
<1>2. PICK order : order = Own(table, x, more)
  OBVIOUS
<1>3. /\ DOMAIN more = {"collaboration_id", "entry_id", "client_id", "wallet_id"}
      /\ more["collaboration_id"] = Collaboration /\ more["entry_id"] = entry
      /\ more["client_id"] \in {Base("clients", x), Null}
      /\ more["wallet_id"] \in {Base("wallets", x), Null}
  BY <1>1
<1>4. Shaped(order) /\ order.key = Fresh(table, x)
  BY <1>2, <1>3, CreatedShaped
<1>5. order.key[1] = table /\ order.key[3] = calls + 1
  BY <1>4, FreshParts
<1>6. PICK a, b : a = [order EXCEPT !.pending = TRUE] /\ b = History(order.key, x)
  OBVIOUS
<1>7. a.key = order.key /\ a.refs = order.refs
  <2>1. order = [key |-> order.key, pending |-> order.pending, refs |-> order.refs]
    <3>1. Formed(order)
      BY <1>2, RowFormed DEF Own
    <3> QED BY <3>1 DEF Formed
  <2> QED BY <1>6, <2>1
<1>8. /\ Shaped(a) /\ Table(a) # "entry_allocations" /\ a.key[3] = calls + 1
      /\ Shaped(b) /\ Table(b) # "entry_allocations" /\ b.key[3] = calls + 1
  <2>1. Shaped(a)
    BY <1>4, <1>7, SameShape
  <2>2. a.key[1] = table /\ order.key[1] \in OrderRows /\ a.key[3] = calls + 1
    BY <1>5, <1>7
  <2>3. /\ Shaped(b) /\ Table(b) \in {"transfer_status_history", "payment_status_history"}
        /\ b.key[3] = calls + 1
    BY <1>6, <2>2, HistoryShaped
  <2> QED BY <2>1, <2>2, <2>3 DEF OrderRows, Table
<1>9. PICK movements : movements = IF owed THEN {ClientMovement(x, x)} ELSE {}
  OBVIOUS
<1>10. \A r \in movements : Shaped(r) /\ Table(r) # "entry_allocations" /\ r.key[3] = calls + 1
  BY <1>9, ClientMovementShaped DEF New, Table
<1>11. PICK allocations : allocations =
         { Row(Fresh("entry_allocations", x), [entry_id |-> e, target_id |-> order.key]) : e \in {entry} \ {Null} }
  OBVIOUS
<1>12. ASSUME NEW r \in allocations
       PROVE  Shaped(r) /\ r.refs.target_id = order.key /\ r.key[3] = calls + 1
  <2>1. PICK e \in {entry} \ {Null} :
          r = Row(Fresh("entry_allocations", x), [entry_id |-> e, target_id |-> order.key])
    BY <1>11
  <2>2. e \in EntriesOf(x) /\ order.key[1] \in OrderRows
    BY <1>5
  <2> QED BY <2>1, <2>2, AllocationShaped
<1>13. PICK new : new = {a, b} \cup movements \cup allocations
  OBVIOUS
<1>14. Call({}, new)
  <2>1. Call({}, {[order EXCEPT !.pending = TRUE], History(order.key, x)}
                  \cup (IF owed THEN {ClientMovement(x, x)} ELSE {})
                  \cup { Row(Fresh("entry_allocations", x), [entry_id |-> e, target_id |-> order.key]) :
                           e \in {entry} \ {Null} })
    BY <1>1, <1>2 DEF CreateOrder
  <2> QED BY <1>6, <1>9, <1>11, <1>13, <2>1
<1>15. order.key \in Keys(new)
  BY <1>7, <1>13 DEF Keys
<1>16. Fits({}, new)
  BY <1>8, <1>10, <1>12, <1>13, <1>15 DEF Fits
<1> QED BY <1>14, <1>16

\* The order once it is approved: a transfer names the wallet it was paid from.
LEMMA ApprovedShaped ==
  ASSUME NEW order, Shaped(order), Formed(order), order.key[1] \in OrderRows, NEW wallet, NEW y,
         wallet = order.refs.wallet_id \/ wallet = Base("wallets", y), NEW a,
         a = [order EXCEPT !.pending = FALSE, !.refs.wallet_id = wallet]
  PROVE  Shaped(a) /\ a.key = order.key
<1>1. PICK refs : refs = [order.refs EXCEPT !["wallet_id"] = wallet]
  OBVIOUS
<1>2. PICK old : old = order.refs /\ old = [c \in DOMAIN old |-> old[c]]
  BY DEF Formed
<1>3. /\ DOMAIN refs = DOMAIN old
      /\ \A c \in DOMAIN refs : refs[c] = IF c = "wallet_id" THEN wallet ELSE old[c]
  BY <1>1, <1>2
<1>4. a.key = order.key /\ a.refs = refs
  <2>1. order = [key |-> order.key, pending |-> order.pending, refs |-> order.refs]
    BY DEF Formed
  <2> QED BY <1>1, <2>1
<1>5. Table(a) = Table(order) /\ Table(order) \in OrderRows
  BY <1>4 DEF Table
<1>6. Points(Table(order), order.key[2], "wallet_id", Base("wallets", y))
  <2>1. ~SameOwner(Table(order), "wallet_id")
    BY <1>5 DEF SameOwner, OrderRows
  <2> QED BY <1>5, <2>1, CollaborationsLinked, PointsBase
<1>7. RefersRightly(a)
  <2>1. RefersRightly(order)
    BY DEF Shaped
  <2> QED BY <1>2, <1>3, <1>4, <1>5, <1>6, <2>1 DEF RefersRightly
<1>8. HasNeeded(a)
  <2>1. HasNeeded(order)
    BY DEF Shaped
  <2>2. ~Needed(Table(order), "wallet_id")
    BY <1>5 DEF Needed, OrderRows
  <2> QED BY <1>2, <1>3, <1>4, <1>5, <2>1, <2>2 DEF HasNeeded
<1>9. Table(a) \notin {"none", "collaborations"}
  BY <1>5 DEF OrderRows
<1>10. a.key[2] \in Parties
  BY <1>4 DEF Shaped
<1> QED BY <1>4, <1>7, <1>8, <1>9, <1>10 DEF Shaped

LEMMA BetweenShaped ==
  ASSUME NEW x \in Parties, NEW y, NEW c,
         c = Row(Fresh("collaborator_balance_movements", x),
                 [collaboration_id |-> Collaboration,
                  debtor_company_id |-> Base("companies", x),
                  creditor_company_id |-> Base("companies", y)])
  PROVE  Shaped(c) /\ Table(c) = "collaborator_balance_movements" /\ c.key[3] = calls + 1
<1>1. PICK refs : refs = [collaboration_id |-> Collaboration,
                          debtor_company_id |-> Base("companies", x),
                          creditor_company_id |-> Base("companies", y)]
  OBVIOUS
<1>2. /\ DOMAIN refs = {"collaboration_id", "debtor_company_id", "creditor_company_id"}
      /\ refs["collaboration_id"] = Collaboration
      /\ refs["debtor_company_id"] = Base("companies", x)
      /\ refs["creditor_company_id"] = Base("companies", y)
  BY <1>1
<1>3. PICK key : key = Fresh("collaborator_balance_movements", x)
  OBVIOUS
<1>4. key[1] = "collaborator_balance_movements" /\ key[2] = x /\ key[3] = calls + 1
  BY <1>3, FreshParts
<1>5. /\ Points("collaborator_balance_movements", x, "collaboration_id", Collaboration)
      /\ Points("collaborator_balance_movements", x, "debtor_company_id", Base("companies", x))
      /\ Points("collaborator_balance_movements", x, "creditor_company_id", Base("companies", y))
  <2>1. /\ ~SameOwner("collaborator_balance_movements", "collaboration_id")
        /\ ~SameOwner("collaborator_balance_movements", "debtor_company_id")
        /\ ~SameOwner("collaborator_balance_movements", "creditor_company_id")
    BY DEF SameOwner
  <2> QED BY <2>1, CollaborationsLinked, PointsBase DEF Collaboration
<1>6. MayRefer("collaborator_balance_movements", x, refs)
  BY <1>2, <1>5 DEF MayRefer
<1>7. Sufficient("collaborator_balance_movements", refs)
  <2>1. Collaboration # Null
    BY DEF Collaboration, Base, Null
  <2> QED BY <1>2, <2>1 DEF Sufficient, Needed
<1>8. Shaped(Row(key, refs)) /\ Row(key, refs).key = key
  BY <1>4, <1>6, <1>7, RowShaped
<1>9. c = Row(key, refs)
  BY <1>1, <1>3
<1> QED BY <1>4, <1>8, <1>9 DEF Table

LEMMA ApprovalFits ==
  ASSUME RowsFormed, RowsShaped, NEW order \in Orders, Approve(order)
  PROVE  \E gone, new : Call(gone, new) /\ Fits(gone, new)
<1>1. Formed(order) /\ Shaped(order) /\ order.key[1] \in OrderRows
  BY OrdersAreRows DEF RowsFormed, RowsShaped
<1>2. PICK x, y : x = order.key[2] /\ y = Other(x) /\ x \in Parties /\ y \in Parties
  BY <1>1 DEF Shaped, Other, Parties
<1>3. PICK wallet : wallet = IF Table(order) = "transfers" THEN Base("wallets", y) ELSE order.refs.wallet_id
  OBVIOUS
<1>4. PICK a : a = [order EXCEPT !.pending = FALSE, !.refs.wallet_id = wallet]
  OBVIOUS
<1>5. Shaped(a) /\ a.key = order.key
  BY <1>1, <1>3, <1>4, ApprovedShaped
<1>6. PICK b, c : /\ b = History(order.key, y)
                  /\ c = Row(Fresh("collaborator_balance_movements", x),
                             [collaboration_id |-> Collaboration,
                              debtor_company_id |-> Base("companies", x),
                              creditor_company_id |-> Base("companies", y)])
  OBVIOUS
<1>7. /\ Shaped(b) /\ Table(b) # "entry_allocations" /\ b.key[3] = calls + 1
      /\ Shaped(c) /\ Table(c) # "entry_allocations" /\ c.key[3] = calls + 1
  BY <1>1, <1>2, <1>6, HistoryShaped, BetweenShaped
<1>8. PICK movements : movements =
         IF Table(order) = "transfers" THEN {WalletMovement(y, y)}
         ELSE IF order.refs.wallet_id = Null THEN {} ELSE {WalletMovement(x, y)}
  OBVIOUS
<1>9. \A r \in movements : Shaped(r) /\ Table(r) # "entry_allocations" /\ r.key[3] = calls + 1
  BY <1>2, <1>8, WalletMovementShaped DEF New, Table
<1>10. PICK new : new = {a, b, c} \cup movements
  OBVIOUS
<1>11. Call({order}, new)
  <2>1. Call({order},
          { [order EXCEPT !.pending = FALSE,
                          !.refs.wallet_id = IF Table(order) = "transfers" THEN Base("wallets", y) ELSE @],
            History(order.key, y),
            Row(Fresh("collaborator_balance_movements", x),
                [collaboration_id |-> Collaboration,
                 debtor_company_id |-> Base("companies", x),
                 creditor_company_id |-> Base("companies", y)]) }
          \cup IF Table(order) = "transfers" THEN {WalletMovement(y, y)}
               ELSE IF order.refs.wallet_id = Null THEN {} ELSE {WalletMovement(x, y)})
    BY <1>2 DEF Approve
  <2>2. [order EXCEPT !.pending = FALSE,
                      !.refs.wallet_id = IF Table(order) = "transfers" THEN Base("wallets", y) ELSE @] = a
    BY <1>3, <1>4
  <2> QED BY <1>6, <1>8, <1>10, <2>1, <2>2
<1>12. Table(a) # "entry_allocations" /\ order.key \in Keys(new)
  BY <1>1, <1>5, <1>10 DEF Table, OrderRows, Keys
<1>13. Fits({order}, new)
  BY <1>5, <1>7, <1>9, <1>10, <1>12 DEF Fits
<1> QED BY <1>11, <1>13

LEMMA ClosingFits ==
  ASSUME RowsFormed, RowsShaped, NEW order \in Orders, NEW by \in Parties, Close(order, by)
  PROVE  \E gone, new : Call(gone, new) /\ Fits(gone, new)
<1>1. Formed(order) /\ Shaped(order) /\ order.key[1] \in OrderRows
  BY OrdersAreRows DEF RowsFormed, RowsShaped
<1>2. PICK a, b : a = [order EXCEPT !.pending = FALSE] /\ b = History(order.key, by)
  OBVIOUS
<1>3. a.key = order.key /\ a.refs = order.refs
  <2>1. order = [key |-> order.key, pending |-> order.pending, refs |-> order.refs]
    BY <1>1 DEF Formed
  <2> QED BY <1>2, <2>1
<1>4. /\ Shaped(a) /\ Table(a) # "entry_allocations"
      /\ Shaped(b) /\ Table(b) # "entry_allocations" /\ b.key[3] = calls + 1
  <2>1. Shaped(a)
    BY <1>1, <1>3, SameShape
  <2>2. /\ b.key[3] = calls + 1
        /\ Shaped(b) /\ Table(b) \in {"transfer_status_history", "payment_status_history"}
    BY <1>1, <1>2, HistoryShaped
  <2> QED BY <1>1, <1>3, <2>1, <2>2 DEF OrderRows, Table
<1>5. PICK gone : gone = {order} \cup {r \in View : Table(r) = "entry_allocations" /\ r.refs.target_id = order.key}
  OBVIOUS
<1>6. PICK movements : /\ movements = IF order.refs.client_id = Null THEN {}
                                        ELSE {ClientMovement(order.key[2], by)}
                       /\ order.key[2] \in Parties
  BY <1>1 DEF Shaped
<1>7. \A r \in movements : Shaped(r) /\ Table(r) # "entry_allocations" /\ r.key[3] = calls + 1
  BY <1>6, ClientMovementShaped DEF New, Table
<1>8. PICK new : new = {a, b} \cup movements
  OBVIOUS
<1>9. Call(gone, new)
  BY <1>2, <1>5, <1>6, <1>8 DEF Close
<1>10. order.key \in Keys(new)
  BY <1>3, <1>8 DEF Keys
<1>11. Fits(gone, new)
  BY <1>3, <1>4, <1>5, <1>7, <1>8, <1>10 DEF Fits
<1> QED BY <1>9, <1>11

LEMMA WorkFits ==
  ASSUME RowsFormed, RowsShaped, Work
  PROVE  \E gone, new : Call(gone, new) /\ Fits(gone, new)
<1>1. ASSUME NEW x \in Parties,
             CreateEntry(x) \/ CreateNationalOperation(x) \/ RebalanceSupplier(x)
               \/ (\E c \in {Collaboration, Null} : SetRate(x, c))
      PROVE  \E gone, new : Call(gone, new) /\ Fits(gone, new)
  BY <1>1, EntryFits, NationalOperationFits, SupplierFits, RateFits
<1>2. ASSUME NEW x \in Parties, NEW table \in {"transfers", "payments"},
             NEW e \in EntriesOf(x) \cup {Null}, NEW owed \in BOOLEAN, NEW paid \in BOOLEAN,
             CreateOrder(x, table, e, owed, paid)
      PROVE  \E gone, new : Call(gone, new) /\ Fits(gone, new)
  BY <1>2, OrderFits DEF OrderRows
<1>3. ASSUME NEW o \in Orders, Approve(o)
      PROVE  \E gone, new : Call(gone, new) /\ Fits(gone, new)
  BY <1>3, ApprovalFits
<1>4. ASSUME NEW o \in Orders, NEW by \in Parties, Close(o, by) \/ UploadProof(o, by)
      PROVE  \E gone, new : Call(gone, new) /\ Fits(gone, new)
  BY <1>4, ClosingFits, ProofFits
<1> QED BY <1>1, <1>2, <1>3, <1>4 DEF Work


\* The rows others refer to from the start.
FirstKeys(x) == {Base("companies", x), Base("users", x), Base("wallets", x), Base("entries", x)}

RefersWithin(r, keys) == \A c \in DOMAIN r.refs : r.refs[c] \in keys \cup {Null}

LEMMA RowWithin ==
  ASSUME NEW key, NEW refs, NEW keys, \A c \in DOMAIN refs : refs[c] \in keys
  PROVE  RefersWithin(Row(key, refs), keys)
BY DEF Row, RefersWithin

\* A row that a company has from the start, with one reference or with two.
LEMMA FirstOfOne ==
  ASSUME NEW table, NEW x \in Parties, NEW c, NEW to, Linked(table, c, to), NEW refs, DOMAIN refs = {c},
         refs[c] = Base(to, x), Base(to, x) \in FirstKeys(x),
         \A d : Needed(table, d) => d = c, table \notin {"none", "collaborations"}
  PROVE  Shaped(Row(Base(table, x), refs)) /\ RefersWithin(Row(Base(table, x), refs), FirstKeys(x))
<1>1. Base(table, x)[1] = table /\ Base(table, x)[2] = x
  BY BaseParts
<1>2. Points(table, x, c, Base(to, x))
  BY PointsBase
<1>3. MayRefer(table, x, refs)
  BY <1>2 DEF MayRefer
<1>4. Base(to, x) # Null
  BY DEF FirstKeys, Base, Null
<1>5. Sufficient(table, refs)
  BY <1>4 DEF Sufficient
<1>6. RefersWithin(Row(Base(table, x), refs), FirstKeys(x))
  BY RowWithin
<1>7. Shaped(Row(Base(table, x), refs))
  BY <1>1, <1>3, <1>5, RowShaped
<1> QED BY <1>6, <1>7

LEMMA FirstOfTwo ==
  ASSUME NEW table, NEW x \in Parties, NEW c, NEW to, Linked(table, c, to), NEW d, NEW at, Linked(table, d, at),
         NEW refs, DOMAIN refs = {c, d}, refs[c] = Base(to, x), refs[d] = Base(at, x),
         Base(to, x) \in FirstKeys(x), Base(at, x) \in FirstKeys(x),
         \A e : Needed(table, e) => e \in {c, d}, table \notin {"none", "collaborations"}
  PROVE  Shaped(Row(Base(table, x), refs)) /\ RefersWithin(Row(Base(table, x), refs), FirstKeys(x))
<1>1. Base(table, x)[1] = table /\ Base(table, x)[2] = x
  BY BaseParts
<1>2. Points(table, x, c, Base(to, x)) /\ Points(table, x, d, Base(at, x))
  BY PointsBase
<1>3. MayRefer(table, x, refs)
  BY <1>2 DEF MayRefer
<1>4. Base(to, x) # Null /\ Base(at, x) # Null
  BY DEF FirstKeys, Base, Null
<1>5. Sufficient(table, refs)
  BY <1>4 DEF Sufficient
<1>6. RefersWithin(Row(Base(table, x), refs), FirstKeys(x))
  BY RowWithin
<1>7. Shaped(Row(Base(table, x), refs))
  BY <1>1, <1>3, <1>5, RowShaped
<1> QED BY <1>6, <1>7

Starting(r, x) == Shaped(r) /\ RefersWithin(r, FirstKeys(x))

LEMMA FirstOfCompany ==
  ASSUME NEW x \in Parties, NEW table \in {"users", "wallets", "clients", "suppliers", "subscriptions", "notifications"}
  PROVE  Starting(Row(Base(table, x), [company_id |-> Base("companies", x)]), x)
<1>1. PICK refs : refs = [company_id |-> Base("companies", x)]
  OBVIOUS
<1>2. DOMAIN refs = {"company_id"} /\ refs["company_id"] = Base("companies", x)
  BY <1>1
<1>3. Linked(table, "company_id", "companies") /\ Base("companies", x) \in FirstKeys(x)
  BY OwnersLinked DEF FirstKeys
<1>4. \A d : Needed(table, d) => d = "company_id"
  BY DEF Needed
<1> QED BY <1>1, <1>2, <1>3, <1>4, FirstOfOne DEF Starting

LEMMA FirstOfUser ==
  ASSUME NEW x \in Parties, NEW table \in {"password_reset_otps", "user_permission_overrides"}
  PROVE  Starting(Row(Base(table, x), [user_id |-> Base("users", x)]), x)
<1>1. PICK refs : refs = [user_id |-> Base("users", x)]
  OBVIOUS
<1>2. DOMAIN refs = {"user_id"} /\ refs["user_id"] = Base("users", x)
  BY <1>1
<1>3. Linked(table, "user_id", "users") /\ Base("users", x) \in FirstKeys(x)
  BY OwnersLinked DEF FirstKeys
<1>4. \A d : Needed(table, d) => d = "user_id"
  BY DEF Needed
<1> QED BY <1>1, <1>2, <1>3, <1>4, FirstOfOne DEF Starting

LEMMA FirstOfCompanyAndUser ==
  ASSUME NEW x \in Parties, NEW table \in {"audit_logs", "system_logs"}
  PROVE  Starting(Row(Base(table, x), [company_id |-> Base("companies", x), user_id |-> Base("users", x)]), x)
<1>1. PICK refs : refs = [company_id |-> Base("companies", x), user_id |-> Base("users", x)]
  OBVIOUS
<1>2. /\ DOMAIN refs = {"company_id", "user_id"}
      /\ refs["company_id"] = Base("companies", x) /\ refs["user_id"] = Base("users", x)
  BY <1>1
<1>3. /\ Linked(table, "company_id", "companies") /\ Linked(table, "user_id", "users")
      /\ Base("companies", x) \in FirstKeys(x) /\ Base("users", x) \in FirstKeys(x)
  BY OwnersLinked DEF FirstKeys
<1>4. \A d : Needed(table, d) => d \in {"company_id", "user_id"}
  BY DEF Needed
<1> QED BY <1>1, <1>2, <1>3, <1>4, FirstOfTwo DEF Starting

LEMMA FirstOthers ==
  ASSUME NEW x \in Parties
  PROVE  /\ Starting(Row(Base("companies", x), <<>>), x)
         /\ Starting(Row(Base("entries", x), [company_id |-> Base("companies", x),
                                              created_by_id |-> Base("users", x)]), x)
         /\ Starting(Row(Base("entry_lines", x), [entry_id |-> Base("entries", x),
                                                  wallet_id |-> Base("wallets", x)]), x)
         /\ Starting(Row(Base("wallet_movements", x), [wallet_id |-> Base("wallets", x),
                                                       created_by_id |-> Base("users", x)]), x)
<1>1. Starting(Row(Base("companies", x), <<>>), x)
  <2>1. DOMAIN <<>> = {}
    OBVIOUS
  <2>2. MayRefer("companies", x, <<>>) /\ RefersWithin(Row(Base("companies", x), <<>>), FirstKeys(x))
    BY <2>1, RowWithin DEF MayRefer
  <2>3. Sufficient("companies", <<>>)
    BY DEF Sufficient, Needed
  <2>4. Base("companies", x)[1] = "companies" /\ Base("companies", x)[2] = x
    BY BaseParts
  <2>5. Shaped(Row(Base("companies", x), <<>>))
    BY <2>2, <2>3, <2>4, RowShaped
  <2> QED BY <2>2, <2>5 DEF Starting
<1> USE DEF FirstKeys
<1>2. Starting(Row(Base("entries", x), [company_id |-> Base("companies", x),
                                        created_by_id |-> Base("users", x)]), x)
  <2>1. PICK refs : refs = [company_id |-> Base("companies", x), created_by_id |-> Base("users", x)]
    OBVIOUS
  <2>2. /\ DOMAIN refs = {"company_id", "created_by_id"}
        /\ refs["company_id"] = Base("companies", x) /\ refs["created_by_id"] = Base("users", x)
    BY <2>1
  <2>3. Linked("entries", "company_id", "companies") /\ Linked("entries", "created_by_id", "users")
    BY OwnersLinked
  <2>4. \A d : Needed("entries", d) => d \in {"company_id", "created_by_id"}
    BY DEF Needed
  <2>5. Base("companies", x) \in FirstKeys(x) /\ Base("users", x) \in FirstKeys(x)
    OBVIOUS
  <2> HIDE DEF FirstKeys
  <2> QED BY <2>1, <2>2, <2>3, <2>4, <2>5, FirstOfTwo DEF Starting
<1>3. Starting(Row(Base("entry_lines", x), [entry_id |-> Base("entries", x),
                                            wallet_id |-> Base("wallets", x)]), x)
  <2>1. PICK refs : refs = [entry_id |-> Base("entries", x), wallet_id |-> Base("wallets", x)]
    OBVIOUS
  <2>2. /\ DOMAIN refs = {"entry_id", "wallet_id"}
        /\ refs["entry_id"] = Base("entries", x) /\ refs["wallet_id"] = Base("wallets", x)
    BY <2>1
  <2>3. Linked("entry_lines", "entry_id", "entries") /\ Linked("entry_lines", "wallet_id", "wallets")
    BY PartsLinked
  <2>4. \A d : Needed("entry_lines", d) => d \in {"entry_id", "wallet_id"}
    BY DEF Needed
  <2>5. Base("entries", x) \in FirstKeys(x) /\ Base("wallets", x) \in FirstKeys(x)
    OBVIOUS
  <2> HIDE DEF FirstKeys
  <2> QED BY <2>1, <2>2, <2>3, <2>4, <2>5, FirstOfTwo DEF Starting
<1>4. Starting(Row(Base("wallet_movements", x), [wallet_id |-> Base("wallets", x),
                                                 created_by_id |-> Base("users", x)]), x)
  <2>1. PICK refs : refs = [wallet_id |-> Base("wallets", x), created_by_id |-> Base("users", x)]
    OBVIOUS
  <2>2. /\ DOMAIN refs = {"wallet_id", "created_by_id"}
        /\ refs["wallet_id"] = Base("wallets", x) /\ refs["created_by_id"] = Base("users", x)
    BY <2>1
  <2>3. /\ Linked("wallet_movements", "wallet_id", "wallets")
        /\ Linked("wallet_movements", "created_by_id", "users")
    BY PartsLinked, OwnersLinked
  <2>4. \A d : Needed("wallet_movements", d) => d \in {"wallet_id", "created_by_id"}
    BY DEF Needed
  <2>5. Base("wallets", x) \in FirstKeys(x) /\ Base("users", x) \in FirstKeys(x)
    OBVIOUS
  <2> HIDE DEF FirstKeys
  <2> QED BY <2>1, <2>2, <2>3, <2>4, <2>5, FirstOfTwo DEF Starting
<1> QED BY <1>1, <1>2, <1>3, <1>4

LEMMA FirstRowsStart ==
  ASSUME NEW x \in Parties
  PROVE  (\A r \in FirstRows(x) : Starting(r, x)) /\ FirstKeys(x) \subseteq Keys(FirstRows(x))
<1>1. \A r \in FirstRows(x) : Starting(r, x)
  BY FirstOfCompany, FirstOfUser, FirstOfCompanyAndUser, FirstOthers DEF FirstRows
<1>2. \A table, refs : Row(Base(table, x), refs).key = Base(table, x)
  BY RowFormed
<1>3. \E a, b, c, d \in FirstRows(x) : /\ a.key = Base("companies", x) /\ b.key = Base("users", x)
                                       /\ c.key = Base("wallets", x) /\ d.key = Base("entries", x)
  <2>1. \E a \in FirstRows(x) : a.key = Base("companies", x)
    BY <1>2 DEF FirstRows
  <2>2. \E a \in FirstRows(x) : a.key = Base("users", x)
    BY <1>2 DEF FirstRows
  <2>3. \E a \in FirstRows(x) : a.key = Base("wallets", x)
    BY <1>2 DEF FirstRows
  <2>4. \E a \in FirstRows(x) : a.key = Base("entries", x)
    BY <1>2 DEF FirstRows
  <2> QED BY <2>1, <2>2, <2>3, <2>4
<1> QED BY <1>1, <1>3 DEF FirstKeys, Keys

\* The collaboration and its rate.
LEMMA SharedRowsStart ==
  \A r \in SharedRows :
    Shaped(r) /\ RefersWithin(r, {Collaboration, Base("companies", Leaver), Base("companies", Partner)})
<1>1. PICK refs, more :
        /\ refs = [initiator_company_id |-> Base("companies", Leaver),
                   target_company_id |-> Base("companies", Partner)]
        /\ more = [collaboration_id |-> Collaboration,
                   proposed_by_company_id |-> Base("companies", Leaver),
                   decided_by_company_id |-> Base("companies", Partner)]
  OBVIOUS
<1>2. PICK a, b : a = Row(Collaboration, refs) /\ b = Row(Base("collaboration_rate_history", Leaver), more)
  OBVIOUS
<1>3. SharedRows = {a, b}
  BY <1>1, <1>2 DEF SharedRows
<1>4. /\ DOMAIN refs = {"initiator_company_id", "target_company_id"}
      /\ refs["initiator_company_id"] = Base("companies", Leaver)
      /\ refs["target_company_id"] = Base("companies", Partner)
      /\ DOMAIN more = {"collaboration_id", "proposed_by_company_id", "decided_by_company_id"}
      /\ more["collaboration_id"] = Collaboration
      /\ more["proposed_by_company_id"] = Base("companies", Leaver)
      /\ more["decided_by_company_id"] = Base("companies", Partner)
  BY <1>1
<1>5. PICK keys : keys = {Collaboration, Base("companies", Leaver), Base("companies", Partner)}
  OBVIOUS
<1>6. RefersWithin(a, keys) /\ RefersWithin(b, keys)
  BY <1>2, <1>4, <1>5, RowWithin
<1>p. Leaver \in Parties /\ Partner \in Parties
  BY DEF Parties
<1>7. Shaped(a)
  <2>1. a.key = Collaboration /\ Table(a) = "collaborations" /\ a.key[2] = Leaver
    BY <1>2, BaseParts, RowFormed DEF Collaboration, Table
  <2>2. /\ \A c \in DOMAIN a.refs : a.refs[c] = IF c \in DOMAIN refs THEN refs[c] ELSE Null
        /\ a.refs["initiator_company_id"] = Base("companies", Leaver)
    BY <1>2, <1>4 DEF Row
  <2>3. /\ Points("collaborations", Leaver, "initiator_company_id", Base("companies", Leaver))
        /\ Points("collaborations", Leaver, "target_company_id", Base("companies", Partner))
    <3>1. /\ ~SameOwner("collaborations", "initiator_company_id")
          /\ ~SameOwner("collaborations", "target_company_id")
      BY DEF SameOwner
    <3> QED BY <3>1, CollaborationsLinked, PointsBase
  <2>4. RefersRightly(a)
    BY <1>4, <2>1, <2>2, <2>3 DEF RefersRightly
  <2>5. HasNeeded(a)
    BY <2>1 DEF HasNeeded, Needed
  <2>6. Table(a) # "none"
    BY <2>1
  <2> QED BY <1>p, <2>1, <2>2, <2>4, <2>5, <2>6 DEF Shaped
<1>8. Shaped(b)
  <2>1. PICK key : key = Base("collaboration_rate_history", Leaver)
    OBVIOUS
  <2>2. key[1] = "collaboration_rate_history" /\ key[2] = Leaver
    BY <2>1, BaseParts
  <2>3. /\ Points("collaboration_rate_history", Leaver, "collaboration_id", Collaboration)
        /\ Points("collaboration_rate_history", Leaver, "proposed_by_company_id", Base("companies", Leaver))
        /\ Points("collaboration_rate_history", Leaver, "decided_by_company_id", Base("companies", Partner))
    <3>1. /\ ~SameOwner("collaboration_rate_history", "collaboration_id")
          /\ ~SameOwner("collaboration_rate_history", "decided_by_company_id")
      BY DEF SameOwner
    <3> QED BY <3>1, CollaborationsLinked, PointsBase DEF Collaboration
  <2>4. MayRefer("collaboration_rate_history", Leaver, more)
    BY <1>4, <2>3 DEF MayRefer
  <2>5. Collaboration # Null
    BY DEF Collaboration, Base, Null
  <2>6. Sufficient("collaboration_rate_history", more)
    BY <1>4, <2>5 DEF Sufficient, Needed
  <2> QED BY <1>2, <1>p, <2>1, <2>2, <2>4, <2>6, RowShaped
<1> QED BY <1>3, <1>5, <1>6, <1>7, <1>8

\* From the start rows have their shapes and refer to rows that are there.
LEMMA RowsInitiallyShaped ==
  ASSUME DeletionInit
  PROVE  RowsShaped /\ \A r \in rows : RefersWithin(r, Keys(rows))
<1>1. PICK own, other, shared : own = FirstRows(Leaver) /\ other = FirstRows(Partner) /\ shared = SharedRows
  OBVIOUS
<1>2. rows = (own \cup other) \cup shared
  BY <1>1 DEF DeletionInit, InitialRows
<1>p. Leaver \in Parties /\ Partner \in Parties
  BY DEF Parties
<1>3. FirstKeys(Leaver) \subseteq Keys(rows) /\ FirstKeys(Partner) \subseteq Keys(rows)
  BY <1>1, <1>2, <1>p, FirstRowsStart DEF Keys
<1>4. Collaboration \in Keys(rows)
  <2>1. \E r \in SharedRows : r.key = Collaboration
    BY RowFormed DEF SharedRows
  <2> QED BY <1>1, <1>2, <2>1 DEF Keys
<1>5. \A r, keys : RefersWithin(r, keys) /\ keys \subseteq Keys(rows) => RefersWithin(r, Keys(rows))
  BY DEF RefersWithin
<1>6. Base("companies", Leaver) \in Keys(rows) /\ Base("companies", Partner) \in Keys(rows)
  BY <1>3 DEF FirstKeys
<1>7. \A r \in own : Shaped(r) /\ RefersWithin(r, FirstKeys(Leaver))
  BY <1>1, <1>p, FirstRowsStart DEF Starting
<1>8. \A r \in other : Shaped(r) /\ RefersWithin(r, FirstKeys(Partner))
  BY <1>1, <1>p, FirstRowsStart DEF Starting
<1>9. PICK keys : keys = {Collaboration, Base("companies", Leaver), Base("companies", Partner)}
  OBVIOUS
<1>10. keys \subseteq Keys(rows) /\ \A r \in shared : Shaped(r) /\ RefersWithin(r, keys)
  BY <1>1, <1>4, <1>6, <1>9, SharedRowsStart
<1>11. RowsShaped
  BY <1>2, <1>7, <1>8, <1>10 DEF RowsShaped
<1>12. ASSUME NEW r \in rows PROVE RefersWithin(r, Keys(rows))
  BY <1>2, <1>3, <1>5, <1>7, <1>8, <1>10
<1> QED BY <1>11, <1>12


----------------------------------------------------------------------------
(* What the deletion of rows does to those that refer to them.             *)

\* A foreign key of r refers to q, and does this on deletion.
Affects(delete, r, q) ==
  \E k \in ForeignKeys : /\ k.delete = delete /\ k.table = Table(r) /\ k.to = Table(q)
                         /\ r.refs[k.column] = q.key

LEMMA RefersToOne ==
  ASSUME NEW column, NEW to, NEW at, Refers(column, to), Refers(column, at)
  PROVE  to = at
BY DEF Refers, CompanyColumns, UserColumns

LEMMA KeyColumns ==
  ASSUME NEW k \in ForeignKeys, NEW r, Formed(r), k.table = Table(r)
  PROVE  k.column \in DOMAIN r.refs
BY DEF Formed, Columns

LEMMA LinkedRefers == ASSUME NEW table, NEW c, NEW to, Linked(table, c, to) PROVE Refers(c, to)
BY KeysRegular DEF Linked, Regular, Sound

\* The column of a foreign key refers to rows of the table it names.
LEMMA RefersToItsTable ==
  ASSUME NEW r, Shaped(r), Formed(r), NEW k \in ForeignKeys, k.table = Table(r), NEW q,
         r.refs[k.column] = q.key, Table(q) # "none"
  PROVE  k.to = Table(q) /\ Points(Table(r), r.key[2], k.column, q.key)
<1>1. k.column \in DOMAIN r.refs
  BY KeyColumns
<1>2. q.key # Null
  BY DEF Null, Table
<1>3. Points(Table(r), r.key[2], k.column, q.key)
  BY <1>1, <1>2 DEF Shaped, RefersRightly
<1>4. Refers(k.column, k.to)
  BY KeysRegular DEF Regular, Sound
<1>5. k.column # "target_id"
  BY <1>4 DEF Refers, CompanyColumns, UserColumns
<1>6. Linked(Table(r), k.column, Table(q))
  BY <1>3, <1>5 DEF Points, Table
<1> QED BY <1>3, <1>4, <1>6, LinkedRefers, RefersToOne

LEMMA ReferringRows ==
  ASSUME RowsFormed, RowsShaped, NEW P, P \subseteq View, NEW delete
  PROVE  \A r : r \in Referring(delete, P) <=> r \in View /\ \E q \in P : Affects(delete, r, q)
<1>0. \A r \in View : Shaped(r) /\ Formed(r) /\ Table(r) # "none"
  BY DEF RowsFormed, RowsShaped, View, Shaped
<1>1. ASSUME NEW r \in Referring(delete, P)
      PROVE  r \in View /\ \E q \in P : Affects(delete, r, q)
  <2>1. PICK k \in ForeignKeys : k.delete = delete /\ r \in Under(k.table, k.column, P)
    BY DEF Referring
  <2>2. r \in Of(k.table) /\ r.refs[k.column] \in Keys(P)
    BY <2>1 DEF Under
  <2>3. PICK q \in P : r.refs[k.column] = q.key
    BY <2>2 DEF Keys
  <2>4. r \in View /\ k.table = Table(r)
    BY <2>2 DEF Of
  <2>5. k.to = Table(q)
    BY <1>0, <2>3, <2>4, RefersToItsTable
  <2> QED BY <2>1, <2>3, <2>4, <2>5 DEF Affects
<1>2. ASSUME NEW r \in View, NEW q \in P, Affects(delete, r, q)
      PROVE  r \in Referring(delete, P)
  <2>1. PICK k \in ForeignKeys : /\ k.delete = delete /\ k.table = Table(r) /\ k.to = Table(q)
                                 /\ r.refs[k.column] = q.key
    BY <1>2 DEF Affects
  <2>2. r.refs[k.column] \in Keys(P) /\ r \in Of(k.table)
    BY <2>1 DEF Keys, Of
  <2>3. r \in Under(k.table, k.column, P)
    BY <2>2 DEF Under
  <2>4. k \in {f \in ForeignKeys : f.delete = delete /\ f.to \in {Table(p) : p \in P}}
    BY <2>1
  <2> QED BY <2>3, <2>4 DEF Referring
<1> QED BY <1>1, <1>2

\* What the foreign key is like.
LEMMA AffectsSoundly ==
  ASSUME NEW delete, NEW r, Shaped(r), Formed(r), NEW q, Table(q) # "none", Affects(delete, r, q)
  PROVE  \E c \in DOMAIN r.refs : /\ r.refs[c] = q.key /\ q.key # Null
                                  /\ Sound(delete, Table(r), c, Table(q))
                                  /\ Points(Table(r), r.key[2], c, q.key)
<1>1. PICK k \in ForeignKeys : /\ k.delete = delete /\ k.table = Table(r) /\ k.to = Table(q)
                               /\ r.refs[k.column] = q.key
  BY DEF Affects
<1>2. Regular(k)
  BY KeysRegular
<1>3. Sound(delete, Table(r), k.column, Table(q))
  BY <1>1, <1>2 DEF Regular
<1>4. k.column \in DOMAIN r.refs
  BY <1>1, KeyColumns
<1>5. Points(Table(r), r.key[2], k.column, q.key)
  BY <1>1, RefersToItsTable
<1>6. q.key # Null
  BY DEF Null, Table
<1> QED BY <1>1, <1>3, <1>4, <1>5, <1>6

\* Rows that cascade are not of the tables cascades start from, unless from a company.
LEMMA Cascading ==
  ASSUME NEW r, Shaped(r), Formed(r), NEW q, Table(q) # "none", Affects("cascade", r, q)
  PROVE  /\ Table(r) # "companies"
         /\ Table(q) # "companies" => /\ Table(q) \in ParentTables
                                      /\ Table(r) \notin ParentTables \cup {"companies", "wallets"}
BY AffectsSoundly DEF Sound

\* No chain of cascades is longer than two: nothing that cascades is left out.
LEMMA CascadesEnd ==
  ASSUME RowsFormed, RowsShaped, NEW F, F \subseteq View
  PROVE  /\ Doomed(F) \subseteq View
         /\ \A r \in View : \A q \in Doomed(F) : Affects("cascade", r, q) => r \in Doomed(F)
<1>0. \A r \in View : Shaped(r) /\ Formed(r) /\ Table(r) # "none"
  BY DEF RowsFormed, RowsShaped, View, Shaped
<1>1. PICK once, first, second :
        /\ once = F \cup first /\ first = Referring("cascade", F) /\ second = Referring("cascade", once)
  OBVIOUS
<1>2. Doomed(F) = once \cup second
  BY <1>1 DEF Doomed
<1>3. \A r : r \in first <=> r \in View /\ \E q \in F : Affects("cascade", r, q)
  BY <1>1, ReferringRows
<1>4. once \subseteq View
  BY <1>1, <1>3
<1>5. \A r : r \in second <=> r \in View /\ \E q \in once : Affects("cascade", r, q)
  BY <1>1, <1>4, ReferringRows
<1>6. ASSUME NEW r \in View, NEW q \in once \cup second, Affects("cascade", r, q)
      PROVE  r \in once \cup second
  <2>1. CASE q \in once
    BY <1>5, <1>6, <2>1
  <2>2. CASE q \notin once
    <3>1. PICK p \in once : Affects("cascade", q, p) /\ q \in View
      BY <1>5, <2>2
    <3>2. p \notin F
      BY <1>1, <1>3, <2>2, <3>1
    <3>3. PICK o \in F : Affects("cascade", p, o) /\ p \in View
      BY <1>1, <1>3, <3>1, <3>2
    <3>4. o \in View
      OBVIOUS
    <3>5. Table(p) # "companies"
      BY <1>0, <3>3, <3>4, Cascading
    <3>6. Table(q) \notin ParentTables \cup {"companies", "wallets"}
      BY <1>0, <3>1, <3>3, <3>5, Cascading
    <3>7. Table(q) = "companies" \/ Table(q) \in ParentTables
      BY <1>0, <1>6, <3>1, Cascading
    <3> QED BY <3>6, <3>7
  <2> QED BY <2>1, <2>2
<1> QED BY <1>2, <1>4, <1>5, <1>6

\* Rows of the tables cascades start from: found by the statement or with their company.
LEMMA DoomedParents ==
  ASSUME RowsFormed, RowsShaped, NEW F, F \subseteq View, NEW table, \A r \in F : Table(r) = table,
         NEW q \in Doomed(F), Table(q) \in ParentTables \cup {"wallets"}
  PROVE  table \in {Table(q), "companies"}
<1>0. \A r \in View : Shaped(r) /\ Formed(r) /\ Table(r) # "none"
  BY DEF RowsFormed, RowsShaped, View, Shaped
<1>1. PICK once, first, second :
        /\ once = F \cup first /\ first = Referring("cascade", F) /\ second = Referring("cascade", once)
  OBVIOUS
<1>2. Doomed(F) = once \cup second
  BY <1>1 DEF Doomed
<1>3. \A r : r \in first <=> r \in View /\ \E p \in F : Affects("cascade", r, p)
  BY <1>1, ReferringRows
<1>4. once \subseteq View
  BY <1>1, <1>3
<1>5. \A r : r \in second <=> r \in View /\ \E p \in once : Affects("cascade", r, p)
  BY <1>1, <1>4, ReferringRows
<1>6. CASE q \in F
  BY <1>6
<1>7. CASE q \notin F
  <2>1. PICK p \in once : Affects("cascade", q, p) /\ q \in View
    BY <1>1, <1>2, <1>3, <1>5, <1>7
  <2>2. Table(p) = "companies"
    BY <1>0, <1>4, <2>1, Cascading
  <2>3. p \in F
    <3>1. SUFFICES ASSUME p \notin F PROVE FALSE
      OBVIOUS
    <3>2. PICK o \in F : Affects("cascade", p, o) /\ p \in View
      BY <1>1, <1>3, <2>1, <3>1
    <3> QED BY <1>0, <2>2, <3>2, Cascading
  <2> QED BY <2>2, <2>3
<1> QED BY <1>6, <1>7


----------------------------------------------------------------------------
(* What the statements find.                                               *)

OwningTables == {"wallets", "entries", "national_operations", "clients"}

Told(s) ==
  \/ /\ s.where = "children"
     /\ Linked(s.table, s.column, s.parents) /\ SameOwner(s.table, s.column)
     /\ s.parents \in OwningTables
  \/ s.where = "owned" /\ Linked(s.table, "company_id", "companies")
  \/ s.where = "allocations" /\ s.table = "entry_allocations" /\ s.parents \in OrderRows
  \/ s.where = "orders" /\ s.table \in OrderRows
  \/ s.where = "collaborations" /\ s.table = "collaborations"
  \/ s.where = "itself" /\ s.table = "companies"

\* The statement that empties a table of the rows of the company, those of the tables whose
\* rows may stand in the way.
SweptAt(table, i) ==
  \/ table = "wallet_movements" /\ i = 1
  \/ table = "entry_lines" /\ i = 2
  \/ table = "national_operation_lines" /\ i = 4
  \/ table = "supplier_balance_movements" /\ i = 5
  \/ table = "client_balance_movements" /\ i = 6
  \/ table = "proofs" /\ i = 7
  \/ table = "transfers" /\ i = 11
  \/ table = "payments" /\ i = 13
  \/ table = "entries" /\ i = 14
  \/ table = "national_operations" /\ i = 15
  \/ table = "private_sending_rates" /\ i = 20

Sweeps(s) ==
  \/ s.where = "children" /\ Needed(s.table, s.column) /\ ~Nulling(s.table, s.column)
  \/ s.where = "owned" /\ Needed(s.table, "company_id")
  \/ s.where = "orders"

LEMMA DeleteParts ==
  \A where, table, column, parents :
    LET s == Delete(where, table, column, parents)
    IN s.where = where /\ s.table = table /\ s.column = column /\ s.parents = parents
BY DEF Delete

LEMMA StatementsAre ==
  /\ Statements[1] = Delete("children", "wallet_movements", "wallet_id", "wallets")
  /\ Statements[2] = Delete("children", "entry_lines", "entry_id", "entries")
  /\ Statements[3] = Delete("children", "entry_allocations", "entry_id", "entries")
  /\ Statements[4] = Delete("children", "national_operation_lines", "national_operation_id", "national_operations")
  /\ Statements[5] = Delete("owned", "supplier_balance_movements", "company_id", "companies")
  /\ Statements[6] = Delete("children", "client_balance_movements", "client_id", "clients")
  /\ Statements[7] = Delete("owned", "proofs", "company_id", "companies")
  /\ Statements[8] = Delete("allocations", "entry_allocations", "target_id", "transfers")
  /\ Statements[9] = Delete("allocations", "entry_allocations", "target_id", "payments")
  /\ Statements[10] = Delete("owned", "transfer_status_history", "company_id", "companies")
  /\ Statements[11] = Delete("orders", "transfers", "collaboration_id", "collaborations")
  /\ Statements[12] = Delete("owned", "payment_status_history", "company_id", "companies")
  /\ Statements[13] = Delete("orders", "payments", "collaboration_id", "collaborations")
  /\ Statements[14] = Delete("owned", "entries", "company_id", "companies")
  /\ Statements[15] = Delete("owned", "national_operations", "company_id", "companies")
  /\ Statements[16] = Delete("owned", "wallets", "company_id", "companies")
  /\ Statements[17] = Delete("owned", "clients", "company_id", "companies")
  /\ Statements[18] = Delete("owned", "suppliers", "company_id", "companies")
  /\ Statements[19] = Delete("collaborations", "collaborations", "company_id", "companies")
  /\ Statements[20] = Delete("owned", "private_sending_rates", "company_id", "companies")
  /\ Statements[21] = Delete("owned", "subscriptions", "company_id", "companies")
  /\ Statements[22] = Delete("owned", "notifications", "company_id", "companies")
  /\ Statements[23] = Delete("owned", "audit_logs", "company_id", "companies")
  /\ Statements[24] = Delete("owned", "users", "company_id", "companies")
  /\ Statements[25] = Delete("itself", "companies", "id", "companies")
BY StatementAt DEF OwnedBy, Children

LEMMA StatementTables ==
  /\ Statements[1].table = "wallet_movements"
  /\ Statements[2].table = "entry_lines"
  /\ Statements[3].table = "entry_allocations"
  /\ Statements[4].table = "national_operation_lines"
  /\ Statements[5].table = "supplier_balance_movements"
  /\ Statements[6].table = "client_balance_movements"
  /\ Statements[7].table = "proofs"
  /\ Statements[8].table = "entry_allocations"
  /\ Statements[9].table = "entry_allocations"
  /\ Statements[10].table = "transfer_status_history"
  /\ Statements[11].table = "transfers"
  /\ Statements[12].table = "payment_status_history"
  /\ Statements[13].table = "payments"
  /\ Statements[14].table = "entries"
  /\ Statements[15].table = "national_operations"
  /\ Statements[16].table = "wallets"
  /\ Statements[17].table = "clients"
  /\ Statements[18].table = "suppliers"
  /\ Statements[19].table = "collaborations"
  /\ Statements[20].table = "private_sending_rates"
  /\ Statements[21].table = "subscriptions"
  /\ Statements[22].table = "notifications"
  /\ Statements[23].table = "audit_logs"
  /\ Statements[24].table = "users"
  /\ Statements[25].table = "companies"
BY StatementsAre, DeleteParts

\* Rows of a table are deleted late.
LEMMA TableSteps ==
  ASSUME NEW i \in 1..25
  PROVE  /\ Statements[i].table = "companies" => i = 25
         /\ Statements[i].table = "users" => i = 24
         /\ Statements[i].table = "collaborations" => i = 19
         /\ Statements[i].table = "clients" => i = 17
         /\ Statements[i].table = "wallets" => i = 16
         /\ Statements[i].table = "entries" => i = 14
         /\ Statements[i].table = "payments" => i = 13
         /\ Statements[i].table = "transfers" => i = 11
<1>1. i \in 1..10 \/ i \in 11..20 \/ i \in 21..25
  OBVIOUS
<1>2. CASE i \in 1..10
  BY <1>2, StatementTables
<1>3. CASE i \in 11..20
  BY <1>3, StatementTables
<1>4. CASE i \in 21..25
  BY <1>4, StatementTables
<1> QED BY <1>1, <1>2, <1>3, <1>4

LEMMA StatementsTold == \A i \in 1..25 : Told(Statements[i])
<1>1. ASSUME NEW table, NEW column, NEW parents \in OwningTables,
             Linked(table, column, parents), SameOwner(table, column)
      PROVE  Told(Delete("children", table, column, parents))
  BY <1>1, DeleteParts DEF Told
<1>2. ASSUME NEW table, Linked(table, "company_id", "companies")
      PROVE  Told(Delete("owned", table, "company_id", "companies"))
  BY <1>2, DeleteParts DEF Told
<1>3. /\ Told(Delete("allocations", "entry_allocations", "target_id", "transfers"))
      /\ Told(Delete("allocations", "entry_allocations", "target_id", "payments"))
      /\ Told(Delete("orders", "transfers", "collaboration_id", "collaborations"))
      /\ Told(Delete("orders", "payments", "collaboration_id", "collaborations"))
      /\ Told(Delete("collaborations", "collaborations", "company_id", "companies"))
      /\ Told(Delete("itself", "companies", "id", "companies"))
  BY DeleteParts DEF Told, OrderRows
<1>4. /\ SameOwner("wallet_movements", "wallet_id") /\ SameOwner("entry_lines", "entry_id")
      /\ SameOwner("entry_allocations", "entry_id")
      /\ SameOwner("national_operation_lines", "national_operation_id")
      /\ SameOwner("client_balance_movements", "client_id")
  BY DEF SameOwner, OrderRows
<1>5. {"wallets", "entries", "national_operations", "clients"} \subseteq OwningTables
  BY DEF OwningTables
<1>6. /\ Told(Statements[1]) /\ Told(Statements[2]) /\ Told(Statements[3])
      /\ Told(Statements[4]) /\ Told(Statements[6])
  <2>1. Told(Delete("children", "wallet_movements", "wallet_id", "wallets"))
    BY <1>1, <1>4, <1>5, PartsLinked
  <2>2. Told(Delete("children", "entry_lines", "entry_id", "entries"))
    BY <1>1, <1>4, <1>5, PartsLinked
  <2>3. Told(Delete("children", "entry_allocations", "entry_id", "entries"))
    BY <1>1, <1>4, <1>5, PartsLinked
  <2>4. Told(Delete("children", "national_operation_lines", "national_operation_id", "national_operations"))
    BY <1>1, <1>4, <1>5, PartsLinked
  <2>5. Told(Delete("children", "client_balance_movements", "client_id", "clients"))
    BY <1>1, <1>4, <1>5, PartsLinked
  <2> QED BY <2>1, <2>2, <2>3, <2>4, <2>5, StatementsAre
<1>7. /\ Told(Statements[5]) /\ Told(Statements[7]) /\ Told(Statements[10])
      /\ Told(Statements[12]) /\ Told(Statements[14]) /\ Told(Statements[15])
  BY <1>2, OwnersLinked, StatementsAre
<1>8. /\ Told(Statements[16]) /\ Told(Statements[17]) /\ Told(Statements[18])
      /\ Told(Statements[20]) /\ Told(Statements[21]) /\ Told(Statements[22])
      /\ Told(Statements[23]) /\ Told(Statements[24])
  BY <1>2, OwnersLinked, StatementsAre
<1>9. /\ Told(Statements[8]) /\ Told(Statements[9]) /\ Told(Statements[11])
      /\ Told(Statements[13]) /\ Told(Statements[19]) /\ Told(Statements[25])
  BY <1>3, StatementsAre
<1> QED BY <1>6, <1>7, <1>8, <1>9

LEMMA SweepStatements ==
  ASSUME NEW table, NEW i, SweptAt(table, i)
  PROVE  /\ i \in 1..20 /\ Statements[i].table = table /\ Sweeps(Statements[i])
         /\ table # "private_sending_rates" => i \in 1..15
         /\ table \in OrderRows => i \in 1..13
<1>1. /\ Sweeps(Delete("children", "wallet_movements", "wallet_id", "wallets"))
      /\ Sweeps(Delete("children", "entry_lines", "entry_id", "entries"))
      /\ Sweeps(Delete("children", "national_operation_lines", "national_operation_id", "national_operations"))
      /\ Sweeps(Delete("children", "client_balance_movements", "client_id", "clients"))
  BY DeleteParts DEF Sweeps, Needed, Nulling
<1>2. \A t \in {"supplier_balance_movements", "proofs", "entries", "national_operations", "private_sending_rates"} :
        Sweeps(Delete("owned", t, "company_id", "companies"))
  BY DeleteParts DEF Sweeps, Needed
<1>3. /\ Sweeps(Delete("orders", "transfers", "collaboration_id", "collaborations"))
      /\ Sweeps(Delete("orders", "payments", "collaboration_id", "collaborations"))
  BY DeleteParts DEF Sweeps
<1>4. Sweeps(Statements[i])
  <2>1. /\ Sweeps(Statements[1]) /\ Sweeps(Statements[2]) /\ Sweeps(Statements[4]) /\ Sweeps(Statements[6])
        /\ Sweeps(Statements[11]) /\ Sweeps(Statements[13])
    BY <1>1, <1>3, StatementsAre
  <2>2. /\ Sweeps(Statements[5]) /\ Sweeps(Statements[7]) /\ Sweeps(Statements[14])
        /\ Sweeps(Statements[15]) /\ Sweeps(Statements[20])
    BY <1>2, StatementsAre
  <2> QED BY <2>1, <2>2 DEF SweptAt
<1>5. Statements[i].table = table
  BY StatementTables DEF SweptAt
<1> QED BY <1>4, <1>5 DEF SweptAt, OrderRows

LEMMA EachSwept == \A table \in RestrictingTables : \E i : SweptAt(table, i)
BY DEF RestrictingTables, SweptAt


----------------------------------------------------------------------------
(* Whose rows a deletion takes.                                            *)

\* A row of the company, or one that it shares with its partner.
Spared(r) == r.key[2] = Leaver \/ (Shared(r) /\ Table(r) \notin Exclusive)

\* Rows that refer to the company by their company_id are its own.
LEMMA OwnRows ==
  ASSUME RowsFormed, RowsShaped, NEW table, Linked(table, "company_id", "companies"), NEW r \in OwnIn(table)
  PROVE  r \in View /\ Table(r) = table /\ r.key[2] = Leaver
<1>1. r \in View /\ Table(r) = table /\ r.refs.company_id = Base("companies", Leaver)
  BY DEF OwnIn, Of
<1>2. Shaped(r) /\ Formed(r)
  BY <1>1 DEF View, RowsFormed, RowsShaped
<1>3. PICK k \in ForeignKeys : k.table = table /\ k.column = "company_id"
  BY DEF Linked
<1>4. "company_id" \in DOMAIN r.refs
  BY <1>1, <1>2, <1>3, KeyColumns
<1>5. Base("companies", Leaver) # Null
  BY DEF Base, Null
<1>6. Points(table, r.key[2], "company_id", Base("companies", Leaver))
  BY <1>1, <1>2, <1>4, <1>5 DEF Shaped, RefersRightly
<1>7. SameOwner(table, "company_id")
  BY DEF SameOwner
<1>8. Base("companies", Leaver)[2] = r.key[2]
  BY <1>6, <1>7 DEF Points
<1> QED BY <1>1, <1>8, BaseParts

LEMMA OrderShared ==
  ASSUME NEW r, Shaped(r), Table(r) \in OrderRows
  PROVE  Spared(r)
<1>1. Needed(Table(r), "collaboration_id")
  BY DEF Needed, OrderRows
<1>2. "collaboration_id" \in DOMAIN r.refs /\ r.refs["collaboration_id"] # Null
  BY <1>1 DEF Shaped, HasNeeded
<1>3. Shared(r)
  BY <1>2 DEF Shared
<1>4. Table(r) \notin Exclusive
  BY DEF Exclusive, OrderRows
<1> QED BY <1>3, <1>4 DEF Spared

LEMMA AllocationShared ==
  ASSUME NEW r, Shaped(r), Table(r) = "entry_allocations"
  PROVE  Spared(r)
<1>1. Needed(Table(r), "target_id")
  BY DEF Needed
<1>2. "target_id" \in DOMAIN r.refs /\ r.refs["target_id"] # Null
  BY <1>1 DEF Shaped, HasNeeded
<1>3. Shared(r)
  BY <1>2 DEF Shared
<1>4. Table(r) \notin Exclusive
  BY DEF Exclusive
<1> QED BY <1>3, <1>4 DEF Spared

\* The rows a statement finds.
LEMMA FoundRows ==
  ASSUME RowsFormed, RowsShaped, NEW i \in 1..25, NEW r \in Found(Statements[i])
  PROVE  r \in View /\ Table(r) = Statements[i].table /\ Spared(r)
<1>1. PICK s : s = Statements[i] /\ Told(s)
  BY StatementsTold
<1>2. \A q \in View : Shaped(q) /\ Formed(q)
  BY DEF View, RowsFormed, RowsShaped
<1>3. CASE s.where = "children"
  <2>1. r \in Under(s.table, s.column, OwnIn(s.parents))
    BY <1>1, <1>3 DEF Found
  <2>2. r \in View /\ Table(r) = s.table /\ r.refs[s.column] \in Keys(OwnIn(s.parents))
    BY <2>1 DEF Under, Of
  <2>3. PICK w \in OwnIn(s.parents) : w.key = r.refs[s.column]
    BY <2>2 DEF Keys
  <2>4. /\ Linked(s.table, s.column, s.parents) /\ SameOwner(s.table, s.column)
        /\ s.parents \in OwningTables
    BY <1>1, <1>3 DEF Told
  <2>5. Linked(s.parents, "company_id", "companies")
    BY <2>4, OwnersLinked DEF OwningTables
  <2>6. w \in View /\ Table(w) = s.parents /\ w.key[2] = Leaver
    BY <2>3, <2>5, OwnRows
  <2>7. PICK k \in ForeignKeys : k.table = s.table /\ k.column = s.column
    BY <2>4 DEF Linked
  <2>8. Table(w) # "none"
    BY <2>4, <2>6 DEF OwningTables
  <2>9. Points(Table(r), r.key[2], s.column, w.key)
    BY <1>2, <2>2, <2>3, <2>7, <2>8, RefersToItsTable
  <2>10. r.key[2] = Leaver
    BY <2>2, <2>4, <2>6, <2>9 DEF Points
  <2> QED BY <1>1, <2>2, <2>10 DEF Spared
<1>4. CASE s.where = "owned"
  <2>1. r \in OwnIn(s.table) /\ Linked(s.table, "company_id", "companies")
    BY <1>1, <1>4 DEF Found, Told
  <2> QED BY <1>1, <2>1, OwnRows DEF Spared
<1>5. CASE s.where = "allocations"
  <2>1. r \in AllocationsConcerned(s.parents) /\ s.table = "entry_allocations"
    BY <1>1, <1>5 DEF Found, Told
  <2>2. r \in View /\ Table(r) = "entry_allocations"
    BY <2>1 DEF AllocationsConcerned, Under, Of
  <2> QED BY <1>1, <1>2, <2>1, <2>2, AllocationShared
<1>6. CASE s.where = "orders"
  <2>1. r \in OrdersConcerned(s.table) /\ s.table \in OrderRows
    BY <1>1, <1>6 DEF Found, Told
  <2>2. r \in View /\ Table(r) = s.table
    BY <2>1 DEF OrdersConcerned, OwnIn, Under, Of
  <2> QED BY <1>1, <1>2, <2>1, <2>2, OrderShared
<1>7. CASE s.where = "collaborations"
  <2>1. r \in Collaborations /\ s.table = "collaborations"
    BY <1>1, <1>7 DEF Found, Told
  <2>2. r \in View /\ Table(r) = "collaborations"
    BY <2>1 DEF Collaborations, Of
  <2>3. r.key = Collaboration
    BY <1>2, <2>2 DEF Shaped
  <2>4. r.key[2] = Leaver
    BY <2>3, BaseParts DEF Collaboration
  <2> QED BY <1>1, <2>1, <2>2, <2>4 DEF Spared
<1>8. CASE s.where = "itself"
  <2>1. r \in {q \in Of("companies") : q.key = Base("companies", Leaver)} /\ s.table = "companies"
    BY <1>1, <1>8 DEF Found, Told
  <2>2. r \in View /\ Table(r) = "companies" /\ r.key[2] = Leaver
    BY <2>1, BaseParts DEF Of
  <2> QED BY <1>1, <2>1, <2>2 DEF Spared
<1> QED BY <1>1, <1>3, <1>4, <1>5, <1>6, <1>7, <1>8 DEF Told

\* A row that goes with one of the company, or with one that is shared, is so itself.
LEMMA CascadeSpares ==
  ASSUME NEW r, Shaped(r), Formed(r), NEW q, Table(q) # "none", Affects("cascade", r, q), Spared(q)
  PROVE  Spared(r)
<1>1. PICK c \in DOMAIN r.refs : /\ r.refs[c] = q.key /\ q.key # Null
                                 /\ Sound("cascade", Table(r), c, Table(q))
                                 /\ Points(Table(r), r.key[2], c, q.key)
  BY AffectsSoundly
<1>2. CASE SameOwner(Table(r), c) /\ Table(q) \in Exclusive
  <2>1. q.key[2] = r.key[2]
    BY <1>1, <1>2 DEF Points
  <2> QED BY <1>2, <2>1 DEF Spared
<1>3. CASE c \in SharedColumns
  <2>1. Shared(r)
    BY <1>1, <1>3 DEF Shared, SharedColumns
  <2>2. Table(q) # "companies"
    BY <1>1, <1>3 DEF Sound, Refers, SharedColumns, CompanyColumns, UserColumns
  <2>3. Table(r) \notin ParentTables \cup {"companies", "wallets"}
    BY <1>1, <2>2 DEF Sound
  <2>4. Table(r) \notin Exclusive
    BY <2>3 DEF Exclusive, ParentTables
  <2> QED BY <2>1, <2>4 DEF Spared
<1>4. CASE Table(r) \in BetweenCompanies
  <2>1. CASE Table(r) = "collaborations"
    <3>1. r.key[2] = Leaver
      BY <2>1, BaseParts DEF Shaped, Collaboration
    <3> QED BY <3>1 DEF Spared
  <2>2. CASE Table(r) # "collaborations"
    <3>1. Needed(Table(r), "collaboration_id") /\ Table(r) \notin Exclusive
      BY <1>4, <2>2 DEF Needed, BetweenCompanies, Exclusive
    <3>2. "collaboration_id" \in DOMAIN r.refs /\ r.refs["collaboration_id"] # Null
      BY <3>1 DEF Shaped, HasNeeded
    <3> QED BY <3>1, <3>2 DEF Spared, Shared
  <2> QED BY <2>1, <2>2
<1> QED BY <1>1, <1>2, <1>3, <1>4 DEF Sound

LEMMA DoomedSpared ==
  ASSUME RowsFormed, RowsShaped, NEW F, F \subseteq View, \A r \in F : Spared(r)
  PROVE  \A r \in Doomed(F) : Spared(r)
<1>0. \A r \in View : Shaped(r) /\ Formed(r) /\ Table(r) # "none"
  BY DEF RowsFormed, RowsShaped, View, Shaped
<1>1. ASSUME NEW P, P \subseteq View, \A r \in P : Spared(r), NEW r \in Referring("cascade", P)
      PROVE  r \in View /\ Spared(r)
  <2>1. r \in View /\ \E q \in P : Affects("cascade", r, q)
    BY <1>1, ReferringRows
  <2>2. PICK q \in P : Affects("cascade", r, q)
    BY <2>1
  <2>3. Table(q) # "none" /\ Spared(q)
    BY <1>0, <1>1
  <2> QED BY <1>0, <2>1, <2>2, <2>3, CascadeSpares
<1>2. PICK once : once = F \cup Referring("cascade", F)
  OBVIOUS
<1>3. once \subseteq View /\ \A r \in once : Spared(r)
  BY <1>1, <1>2
<1>4. \A r \in Referring("cascade", once) : Spared(r)
  BY <1>1, <1>3
<1> QED BY <1>2, <1>3, <1>4 DEF Doomed

\* What a step of the deletion deletes.
LEMMA DeletedRows ==
  ASSUME RowsFormed, RowsShaped, deletion.step \in 1..25
  PROVE  /\ Deleted \subseteq View
         /\ Found(Statements[deletion.step]) \subseteq Deleted
         /\ \A r \in View : \A q \in Deleted : Affects("cascade", r, q) => r \in Deleted
         /\ \A r \in Deleted : Spared(r)
         /\ \A r \in Deleted : Table(r) \in ParentTables \cup {"wallets"} =>
              Statements[deletion.step].table \in {Table(r), "companies"}
<1>1. PICK F : F = Found(Statements[deletion.step]) /\ Deleted = Doomed(F)
  BY DEF Deleted
<1>2. F \subseteq View /\ \A r \in F : Spared(r) /\ Table(r) = Statements[deletion.step].table
  BY <1>1, FoundRows
<1>3. F \subseteq Doomed(F)
  BY DEF Doomed
<1>4. /\ Doomed(F) \subseteq View
      /\ \A r \in View : \A q \in Doomed(F) : Affects("cascade", r, q) => r \in Doomed(F)
  BY <1>2, CascadesEnd
<1>5. \A r \in Doomed(F) : Spared(r)
  BY <1>2, DoomedSpared
<1>6. \A r \in Doomed(F) : Table(r) \in ParentTables \cup {"wallets"} =>
              Statements[deletion.step].table \in {Table(r), "companies"}
  BY <1>2, DoomedParents
<1> QED BY <1>1, <1>3, <1>4, <1>5, <1>6


----------------------------------------------------------------------------
(* What holds of the rows while a deletion runs.                           *)

\* A reference is to a row the deletion sees, to one it deleted if it will be set to null,
\* or that of an allocation to an order made while it ran.
Honoured(r, c, seen, gone, late) ==
  \/ r.refs[c] \in Keys(seen) \cup {Null}
  \/ NullOnDelete(Table(r), c) /\ r.refs[c] \in gone
  \/ c = "target_id" /\ r.refs[c] \in late

Intact ==
  deletion.outcome \in {"none", "running"} =>
    \A r \in View : \A c \in DOMAIN r.refs : Honoured(r, c, View, deletion.deleted, made)

Resolved ==
  deletion.outcome = "done" =>
    \A r \in rows : \A c \in DOMAIN r.refs : r.refs[c] \in Keys(rows) \cup {Null} \cup made

\* Before step n all rows like this one have been deleted.
Swept(r, n) ==
  /\ r.key[2] = Leaver \/ Table(r) \in OrderRows
  /\ \E i \in 1..25 : i < n /\ SweptAt(Table(r), i)

Emptied(r, n) ==
  /\ Table(r) = "entry_allocations"
  /\ (r.refs.target_id[1] = "transfers" /\ 8 < n) \/ (r.refs.target_id[1] = "payments" /\ 9 < n)

\* Only what was made since is there of what was deleted.
Sweeping ==
  Running => \A r \in View : /\ Swept(r, deletion.step) => r.key \in made
                             /\ Emptied(r, deletion.step) => r.refs.target_id \in made

PartnerSpared ==
  /\ \A r \in rows : r.key \in deletion.deleted => Spared(r)
  /\ \A r \in removed : Spared(r)

Explained == \A r \in deletion.blocking : r.key \in made \/ WrittenForPartner(r)

Started ==
  /\ deletion.outcome = "none" => deletion.step = 1
  /\ deletion.outcome # "running" => deletion.deleted = {}

CleanInv ==
  /\ RowsShaped /\ Started /\ Intact /\ Resolved
  /\ Sweeping /\ PartnerSpared /\ Explained

LEMMA ShapedRows ==
  ASSUME RowsFormed, RowsShaped
  PROVE  \A r \in View : r \in rows /\ Shaped(r) /\ Formed(r) /\ Table(r) # "none"
BY DEF RowsFormed, RowsShaped, View, Shaped

\* A reference that is needed is to a row the deletion sees.
LEMMA NeededSeen ==
  ASSUME RowsFormed, RowsShaped, Intact, Running, NEW r \in View, NEW c, Needed(Table(r), c),
         c # "target_id", ~Nulling(Table(r), c)
  PROVE  \E q \in View : /\ r.refs[c] = q.key /\ Points(Table(r), r.key[2], c, q.key)
                         /\ Linked(Table(r), c, Table(q))
<1>1. Shaped(r)
  BY ShapedRows
<1>2. c \in DOMAIN r.refs /\ r.refs[c] # Null
  BY <1>1 DEF Shaped, HasNeeded
<1>3. Points(Table(r), r.key[2], c, r.refs[c])
  BY <1>1, <1>2 DEF Shaped, RefersRightly
<1>4. Honoured(r, c, View, deletion.deleted, made)
  BY <1>2 DEF Intact, Running
<1>5. ~NullOnDelete(Table(r), c)
  <2>1. SUFFICES ASSUME NEW k \in ForeignKeys, k.delete = "set null", k.table = Table(r), k.column = c
                 PROVE  FALSE
    BY DEF NullOnDelete
  <2>2. Regular(k)
    BY KeysRegular
  <2> QED BY <2>1, <2>2 DEF Regular, Sound
<1>6. PICK q \in View : r.refs[c] = q.key
  BY <1>2, <1>4, <1>5 DEF Honoured, Keys
<1>7. Linked(Table(r), c, Table(q))
  BY <1>3, <1>6 DEF Points, Table
<1> QED BY <1>3, <1>6, <1>7

\* The rows of the company are found by the company they refer to.
LEMMA OwnFound ==
  ASSUME RowsFormed, RowsShaped, NEW r \in View, r.key[2] = Leaver, Needed(Table(r), "company_id")
  PROVE  r \in OwnIn(Table(r))
<1>1. Shaped(r)
  BY ShapedRows
<1>2. "company_id" \in DOMAIN r.refs /\ r.refs["company_id"] # Null
  BY <1>1 DEF Shaped, HasNeeded
<1>3. PICK k : k = r.refs["company_id"] /\ Points(Table(r), r.key[2], "company_id", k)
  BY <1>1, <1>2 DEF Shaped, RefersRightly
<1>4. SameOwner(Table(r), "company_id")
  BY DEF SameOwner
<1>5. Linked(Table(r), "company_id", k[1]) /\ k[2] = Leaver /\ (k[1] = "companies" => k = Base(k[1], k[2]))
  BY <1>3, <1>4 DEF Points
<1>6. k[1] = "companies"
  BY <1>5, LinkedRefers, RefersToOne DEF Refers, CompanyColumns, UserColumns
<1> QED BY <1>3, <1>5, <1>6 DEF OwnIn, Of

\* All orders are of the collaboration, and concerned.
LEMMA OrdersFound ==
  ASSUME RowsFormed, RowsShaped, Intact, Running, NEW r \in View, Table(r) \in OrderRows
  PROVE  r \in OrdersConcerned(Table(r))
<1>1. Needed(Table(r), "collaboration_id") /\ ~Nulling(Table(r), "collaboration_id")
  BY DEF Needed, Nulling, OrderRows
<1>2. PICK q \in View : /\ r.refs["collaboration_id"] = q.key
                        /\ Linked(Table(r), "collaboration_id", Table(q))
  BY <1>1, NeededSeen
<1>3. Table(q) = "collaborations"
  BY <1>2, LinkedRefers, RefersToOne DEF Refers, CompanyColumns, UserColumns
<1>4. q.refs.initiator_company_id = Base("companies", Leaver)
  BY <1>3, ShapedRows DEF Shaped
<1>5. q \in Collaborations
  BY <1>3, <1>4 DEF Collaborations, Of
<1>6. r.refs["collaboration_id"] \in Keys(Collaborations)
  BY <1>2, <1>5 DEF Keys
<1>7. r \in Under(Table(r), "collaboration_id", Collaborations)
  BY <1>6 DEF Under, Of
<1> QED BY <1>7 DEF OrdersConcerned

\* The statement that sweeps a table finds all there is to find.
LEMMA SweptFound ==
  ASSUME RowsFormed, RowsShaped, Intact, Running, deletion.step \in 1..25, NEW r \in View,
         SweptAt(Table(r), deletion.step), r.key[2] = Leaver \/ Table(r) \in OrderRows
  PROVE  r \in Found(Statements[deletion.step])
<1>1. PICK s : s = Statements[deletion.step] /\ Told(s) /\ Sweeps(s) /\ s.table = Table(r)
  BY StatementsTold, SweepStatements
<1>2. CASE s.where = "children"
  <2>1. /\ Linked(s.table, s.column, s.parents) /\ SameOwner(s.table, s.column)
        /\ s.parents \in OwningTables /\ Needed(s.table, s.column) /\ ~Nulling(s.table, s.column)
    BY <1>1, <1>2 DEF Told, Sweeps
  <2>2. s.column # "target_id"
    BY <2>1, LinkedRefers DEF Refers, CompanyColumns, UserColumns
  <2>3. PICK q \in View : /\ r.refs[s.column] = q.key /\ Points(Table(r), r.key[2], s.column, q.key)
                          /\ Linked(Table(r), s.column, Table(q))
    BY <1>1, <2>1, <2>2, NeededSeen
  <2>4. Table(q) = s.parents
    BY <1>1, <2>1, <2>3, LinkedRefers, RefersToOne
  <2>5. Table(r) \notin OrderRows
    BY <1>1, <2>1, <2>2 DEF SameOwner, Needed, OrderRows
  <2>6. q.key[2] = Leaver
    BY <1>1, <2>1, <2>3, <2>5 DEF Points
  <2>7. Needed(s.parents, "company_id")
    BY <2>1 DEF Needed, OwningTables
  <2>8. q \in OwnIn(s.parents)
    BY <2>4, <2>6, <2>7, OwnFound
  <2>9. r.refs[s.column] \in Keys(OwnIn(s.parents)) /\ r \in Of(s.table)
    BY <1>1, <2>3, <2>8 DEF Keys, Of
  <2>10. r \in Under(s.table, s.column, OwnIn(s.parents))
    BY <2>9 DEF Under
  <2> QED BY <1>1, <1>2, <2>10 DEF Found
<1>3. CASE s.where = "owned"
  <2>1. Needed(Table(r), "company_id")
    BY <1>1, <1>3 DEF Sweeps
  <2>2. Table(r) \notin OrderRows
    BY <2>1 DEF Needed, OrderRows
  <2>3. r \in OwnIn(s.table)
    BY <1>1, <2>1, <2>2, OwnFound
  <2> QED BY <1>1, <1>3, <2>3 DEF Found
<1>4. CASE s.where = "orders"
  <2>1. Table(r) \in OrderRows
    BY <1>1, <1>4 DEF Told
  <2>2. r \in OrdersConcerned(s.table)
    BY <1>1, <2>1, OrdersFound
  <2> QED BY <1>1, <1>4, <2>2 DEF Found
<1> QED BY <1>1, <1>2, <1>3, <1>4 DEF Sweeps

\* So do the two statements about allocations.
LEMMA AllocationsFound ==
  ASSUME RowsFormed, RowsShaped, Intact, Running, NEW r \in View, Table(r) = "entry_allocations",
         \/ deletion.step = 8 /\ r.refs.target_id[1] = "transfers"
         \/ deletion.step = 9 /\ r.refs.target_id[1] = "payments"
  PROVE  r \in Found(Statements[deletion.step]) \/ r.refs.target_id \in made
<1>1. PICK table, k, s : /\ k = r.refs.target_id /\ table = k[1] /\ s = Statements[deletion.step]
                         /\ s.where = "allocations" /\ s.parents = table /\ table \in OrderRows
  <2>1. /\ Statements[8].where = "allocations" /\ Statements[8].parents = "transfers"
        /\ Statements[9].where = "allocations" /\ Statements[9].parents = "payments"
    BY StatementsAre, DeleteParts
  <2> QED BY <2>1 DEF OrderRows
<1>2. SUFFICES ASSUME k \notin made PROVE r \in Found(s)
  BY <1>1
<1>3. Needed(Table(r), "target_id")
  BY DEF Needed
<1>4. "target_id" \in DOMAIN r.refs /\ r.refs["target_id"] # Null
  BY <1>3, ShapedRows DEF Shaped, HasNeeded
<1>5. Honoured(r, "target_id", View, deletion.deleted, made)
  BY <1>4 DEF Intact, Running
<1>6. ~NullOnDelete(Table(r), "target_id")
  <2>1. \A q \in ForeignKeys : Refers(q.column, q.to)
    BY KeysRegular DEF Regular, Sound
  <2> QED BY <2>1 DEF NullOnDelete, Refers, CompanyColumns, UserColumns
<1>7. PICK q \in View : k = q.key
  BY <1>1, <1>2, <1>4, <1>5, <1>6 DEF Honoured, Keys
<1>8. Table(q) = table
  BY <1>1, <1>7 DEF Table
<1>9. q \in OrdersConcerned(table)
  BY <1>1, <1>8, OrdersFound
<1>10. k \in Keys(OrdersConcerned(table))
  BY <1>7, <1>9 DEF Keys
<1>11. r \in AllocationsConcerned(table)
  BY <1>1, <1>10 DEF AllocationsConcerned, Under, Of
<1> QED BY <1>1, <1>11 DEF Found


----------------------------------------------------------------------------
(* The steps of the deletion.                                              *)

\* A row that refuses a statement was made while the deletion ran, or written in the
\* partner's books by a user of the company.
LEMMA BlockingExplained ==
  ASSUME RowsFormed, RowsShaped, Sweeping, Running, deletion.step \in 1..25, NEW b \in Blocking
  PROVE  b.key \in made \/ WrittenForPartner(b)
<1>1. b \in Referring("restrict", Deleted)
  BY DEF Blocking
<1>2. Deleted \subseteq View
  BY DeletedRows
<1>3. b \in View /\ \E q \in Deleted : Affects("restrict", b, q)
  BY <1>1, <1>2, ReferringRows
<1>4. PICK q \in Deleted : Affects("restrict", b, q)
  BY <1>3
<1>5. /\ Shaped(b) /\ Formed(b) /\ Table(q) # "none" /\ Shaped(q)
      /\ Spared(q)
      /\ Table(q) \in ParentTables \cup {"wallets"} =>
              Statements[deletion.step].table \in {Table(q), "companies"}
  BY <1>2, <1>3, ShapedRows, DeletedRows
<1>6. PICK c \in DOMAIN b.refs : /\ b.refs[c] = q.key
                                 /\ Sound("restrict", Table(b), c, Table(q))
                                 /\ Points(Table(b), b.key[2], c, q.key)
  BY <1>4, <1>5, AffectsSoundly
<1>7. /\ Restricting(Table(b), c) /\ Refers(c, Table(q)) /\ Table(b) \in RestrictingTables
      /\ Table(q) = "wallets" => Table(b) # "private_sending_rates"
  BY <1>6 DEF Sound
<1>8. PICK i : SweptAt(Table(b), i)
  BY <1>7, EachSwept
<1>9. /\ i \in 1..20
      /\ Table(b) # "private_sending_rates" => i \in 1..15
      /\ Table(b) \in OrderRows => i \in 1..13
  BY <1>8, SweepStatements
<1>10. ASSUME i < deletion.step, b.key[2] = Leaver \/ Table(b) \in OrderRows
       PROVE  b.key \in made
  <2>1. i \in 1..25
    BY <1>9
  <2>2. Swept(b, deletion.step)
    BY <1>8, <1>10, <2>1 DEF Swept
  <2> QED BY <1>3, <2>2 DEF Sweeping
<1>11. CASE c \in {"created_by_id", "uploaded_by_id"}
  <2>1. Table(q) = "users"
    BY <1>7, <1>11 DEF Refers, CompanyColumns, UserColumns
  <2>2. deletion.step \in 24..25
    <3>1. Statements[deletion.step].table \in {"users", "companies"}
      BY <1>5, <2>1 DEF ParentTables
    <3> QED BY <3>1, TableSteps
  <2>3. q.key[2] = Leaver
    BY <1>5, <2>1 DEF Spared, Exclusive
  <2>4. i < deletion.step
    BY <1>9, <2>2
  <2>5. CASE SameOwner(Table(b), c)
    <3>1. b.key[2] = Leaver
      BY <1>6, <2>3, <2>5 DEF Points
    <3> QED BY <1>10, <2>4, <3>1
  <2>6. CASE ~SameOwner(Table(b), c)
    <3>1. c = "created_by_id" /\ Table(b) \in {"wallet_movements", "client_balance_movements"}
      BY <1>11, <2>6 DEF SameOwner
    <3>2. q.key = Base("users", Leaver)
      BY <1>6, <2>1, <2>3 DEF Points, Table
    <3>3. CASE b.key[2] = Leaver
      BY <1>10, <2>4, <3>3
    <3>4. CASE b.key[2] = Partner
      BY <1>6, <3>1, <3>2, <3>4 DEF WrittenForPartner
    <3> QED BY <1>5, <3>3, <3>4 DEF Shaped, Parties
  <2> QED BY <2>5, <2>6
<1>12. CASE c = "wallet_id"
  <2>1. Table(q) = "wallets"
    BY <1>7, <1>12 DEF Refers, CompanyColumns, UserColumns
  <2>2. deletion.step \in 16..25
    <3>1. Statements[deletion.step].table \in {"wallets", "companies"}
      BY <1>5, <2>1
    <3> QED BY <3>1, TableSteps
  <2>3. q.key[2] = Leaver
    BY <1>5, <2>1 DEF Spared, Exclusive
  <2>4. i < deletion.step
    BY <1>7, <1>9, <2>1, <2>2
  <2>5. CASE Table(b) \in OrderRows
    BY <1>10, <2>4, <2>5
  <2>6. CASE Table(b) \notin OrderRows
    <3>1. SameOwner(Table(b), c)
      BY <1>12, <2>6 DEF SameOwner, OrderRows
    <3>2. b.key[2] = Leaver
      BY <1>6, <2>3, <3>1 DEF Points
    <3> QED BY <1>10, <2>4, <3>2
  <2> QED BY <2>5, <2>6
<1>13. CASE Table(b) \in OrderRows /\ c \in {"collaboration_id", "entry_id", "client_id"}
  <2>1. Table(q) \in {"collaborations", "entries", "clients"}
    BY <1>7, <1>13 DEF Refers, CompanyColumns, UserColumns
  <2>2. Statements[deletion.step].table \in {"collaborations", "entries", "clients", "companies"}
    BY <1>5, <2>1 DEF ParentTables
  <2>3. deletion.step \in 14..25
    BY <2>2, TableSteps
  <2>4. i < deletion.step
    BY <1>9, <1>13, <2>3
  <2> QED BY <1>10, <1>13, <2>4
<1> QED BY <1>7, <1>11, <1>12, <1>13 DEF Restricting

\* A row the statement leaves keeps its references.
LEMMA ExecuteKeeps ==
  ASSUME RowsFormed, RowsShaped, Intact, Sweeping, Running, deletion.step \in 1..25, Blocking = {},
         NEW r \in View \ Deleted, NEW c \in DOMAIN r.refs
  PROVE  Honoured(r, c, View \ Deleted, deletion.deleted \cup Keys(Deleted), made)
<1>1. Honoured(r, c, View, deletion.deleted, made)
  BY DEF Intact, Running
<1>2. CASE ~(\E q \in Deleted : r.refs[c] = q.key)
  BY <1>1, <1>2 DEF Honoured, Keys
<1>3. CASE \E q \in Deleted : r.refs[c] = q.key
  <2>1. PICK q \in Deleted : r.refs[c] = q.key
    BY <1>3
  <2>2. /\ Deleted \subseteq View
        /\ \A p \in View : Affects("cascade", p, q) => p \in Deleted
        /\ Table(q) \in ParentTables \cup {"wallets"} =>
              Statements[deletion.step].table \in {Table(q), "companies"}
    BY DeletedRows
  <2>3. Shaped(r) /\ Formed(r) /\ Table(q) # "none" /\ q.key # Null
    BY <2>2, ShapedRows DEF Table, Null
  <2>4. Points(Table(r), r.key[2], c, q.key)
    BY <2>1, <2>3 DEF Shaped, RefersRightly
  <2>5. CASE Linked(Table(r), c, Table(q))
    <3>1. PICK k \in ForeignKeys : k.table = Table(r) /\ k.column = c /\ k.to = Table(q)
      BY <2>5 DEF Linked
    <3>2. Affects(k.delete, r, q)
      BY <2>1, <3>1 DEF Affects
    <3>3. k.delete \in {"cascade", "restrict", "set null"}
      <4>1. Regular(k)
        BY KeysRegular
      <4> QED BY <4>1 DEF Regular, Sound
    <3>4. k.delete # "cascade"
      BY <2>2, <3>2
    <3>5. k.delete # "restrict"
      <4>1. SUFFICES ASSUME Affects("restrict", r, q) PROVE FALSE
        BY <3>2
      <4>2. r \in Referring("restrict", Deleted)
        BY <2>2, <4>1, ReferringRows
      <4> QED BY <4>2 DEF Blocking
    <3>6. NullOnDelete(Table(r), c)
      BY <3>1, <3>3, <3>4, <3>5 DEF NullOnDelete
    <3>7. r.refs[c] \in Keys(Deleted)
      BY <2>1 DEF Keys
    <3> QED BY <3>6, <3>7 DEF Honoured
  <2>6. CASE Table(r) = "entry_allocations" /\ c = "target_id" /\ Table(q) \in OrderRows
    <3>1. Statements[deletion.step].table \in {Table(q), "companies"}
      BY <2>2, <2>6 DEF ParentTables, OrderRows
    <3>2. deletion.step \in 10..25
      BY <2>6, <3>1, TableSteps DEF OrderRows
    <3>3. r.refs.target_id = q.key
      BY <2>1, <2>6
    <3>4. r.refs.target_id[1] \in OrderRows
      BY <2>6, <3>3 DEF Table
    <3>5. Emptied(r, deletion.step)
      BY <2>6, <3>2, <3>4 DEF Emptied, OrderRows
    <3>6. r.refs.target_id \in made
      BY <3>5 DEF Sweeping
    <3> QED BY <2>6, <3>6 DEF Honoured
  <2> QED BY <2>4, <2>5, <2>6 DEF Points, Table
<1> QED BY <1>2, <1>3

\* What it leaves unswept was made since.
LEMMA ExecuteSweeps ==
  ASSUME RowsFormed, RowsShaped, Intact, Sweeping, Running, deletion.step \in 1..25, NEW r \in View \ Deleted
  PROVE  /\ Swept(r, deletion.step + 1) => r.key \in made
         /\ Emptied(r, deletion.step + 1) => r.refs.target_id \in made
<1>1. r \notin Found(Statements[deletion.step])
  BY DeletedRows
<1>2. ASSUME Swept(r, deletion.step + 1) PROVE r.key \in made
  <2>1. r.key[2] = Leaver \/ Table(r) \in OrderRows
    BY <1>2 DEF Swept
  <2>2. PICK i \in 1..25 : i < deletion.step + 1 /\ SweptAt(Table(r), i)
    BY <1>2 DEF Swept
  <2>3. i # deletion.step
    BY <1>1, <2>1, <2>2, SweptFound
  <2>4. i < deletion.step
    BY <2>2, <2>3
  <2>5. Swept(r, deletion.step)
    BY <2>1, <2>2, <2>4 DEF Swept
  <2> QED BY <2>5 DEF Sweeping
<1>3. ASSUME Emptied(r, deletion.step + 1) PROVE r.refs.target_id \in made
  <2>1. CASE Emptied(r, deletion.step)
    BY <2>1 DEF Sweeping
  <2>2. CASE ~Emptied(r, deletion.step)
    <3>1. /\ Table(r) = "entry_allocations"
          /\ \/ deletion.step = 8 /\ r.refs.target_id[1] = "transfers"
             \/ deletion.step = 9 /\ r.refs.target_id[1] = "payments"
      BY <1>3, <2>2 DEF Emptied
    <3> QED BY <1>1, <3>1, AllocationsFound
  <2> QED BY <2>1, <2>2
<1> QED BY <1>2, <1>3

LEMMA ExecuteIsClean == ASSUME DeletionInv, CleanInv, Execute PROVE CleanInv'
<1>1. /\ RowsFormed /\ RowsShaped /\ Intact /\ Sweeping /\ Running /\ Blocking = {}
      /\ rows' = rows /\ made' = made /\ removed' = removed
  BY DEF DeletionInv, CleanInv, Execute
<1>2. deletion.step \in 1..25
  BY StatementAt DEF DeletionInv, Execute
<1>3. PICK D : D = Deleted
  OBVIOUS
<1>4. deletion' = [outcome |-> "running", step |-> deletion.step + 1,
                   deleted |-> deletion.deleted \cup Keys(D), blocking |-> deletion.blocking]
  <2>1. deletion' = [deletion EXCEPT !.step = @ + 1, !.deleted = @ \cup Keys(D)]
    BY <1>3 DEF Execute
  <2>2. deletion.outcome = "running"
    BY <1>1 DEF Running
  <2> QED BY <2>1, <2>2 DEF DeletionInv
<1>5. D \subseteq View
  BY <1>1, <1>2, <1>3, DeletedRows
<1>6. View' = View \ D
  <2>1. \A r \in View : r.key \in Keys(D) => r \in D
    BY <1>1, <1>5 DEF Keys, RowsFormed, View
  <2>2. View' = {r \in rows : r.key \notin deletion.deleted \cup Keys(D)}
    BY <1>1, <1>4 DEF View
  <2> QED BY <2>1, <2>2 DEF View, Keys
<1>7. RowsShaped'
  BY <1>1 DEF RowsShaped
<1>8. Started'
  BY <1>4 DEF Started
<1>9. Intact'
  <2>1. \A r \in View \ D : \A c \in DOMAIN r.refs :
          Honoured(r, c, View \ D, deletion.deleted \cup Keys(D), made)
    BY <1>1, <1>2, <1>3, ExecuteKeeps
  <2>2. deletion'.deleted = deletion.deleted \cup Keys(D)
    BY <1>4
  <2> QED BY <1>1, <1>6, <2>1, <2>2 DEF Intact
<1>10. Resolved'
  BY <1>4 DEF Resolved
<1>11. Sweeping'
  <2>1. \A r \in View \ D : /\ Swept(r, deletion.step + 1) => r.key \in made
                            /\ Emptied(r, deletion.step + 1) => r.refs.target_id \in made
    BY <1>1, <1>2, <1>3, ExecuteSweeps
  <2>2. deletion'.step = deletion.step + 1
    BY <1>4
  <2> QED BY <1>1, <1>6, <2>1, <2>2 DEF Sweeping
<1>12. PartnerSpared'
  <2>1. \A r \in D : Spared(r)
    BY <1>1, <1>2, <1>3, DeletedRows
  <2>2. ASSUME NEW r \in rows, r.key \in deletion.deleted \cup Keys(D) PROVE Spared(r)
    <3>1. CASE r.key \in deletion.deleted
      BY <3>1 DEF CleanInv, PartnerSpared
    <3>2. CASE r.key \in Keys(D)
      <4>1. PICK q \in D : q.key = r.key
        BY <3>2 DEF Keys
      <4>2. q = r
        BY <1>1, <1>5, <4>1 DEF RowsFormed, View
      <4> QED BY <2>1, <4>2
    <3> QED BY <2>2, <3>1, <3>2
  <2>3. deletion'.deleted = deletion.deleted \cup Keys(D)
    BY <1>4
  <2> QED BY <1>1, <2>2, <2>3 DEF CleanInv, PartnerSpared
<1>13. Explained'
  BY <1>1, <1>4 DEF CleanInv, Explained
<1> QED BY <1>7, <1>8, <1>9, <1>10, <1>11, <1>12, <1>13 DEF CleanInv

LEMMA RefuseIsClean == ASSUME DeletionInv, CleanInv, Refuse PROVE CleanInv'
<1>1. /\ RowsFormed /\ RowsShaped /\ Sweeping /\ Running
      /\ rows' = rows /\ made' = made /\ removed' = removed
  BY DEF DeletionInv, CleanInv, Refuse
<1>2. deletion.step \in 1..25
  BY StatementAt DEF DeletionInv, Refuse
<1>3. PICK blocking : blocking = Blocking
  OBVIOUS
<1>4. deletion' = [outcome |-> "refused", step |-> deletion.step, deleted |-> {}, blocking |-> blocking]
  <2>1. deletion' = [deletion EXCEPT !.outcome = "refused", !.deleted = {}, !.blocking = blocking]
    BY <1>3 DEF Refuse
  <2> QED BY <2>1 DEF DeletionInv
<1>5. \A b \in blocking : b.key \in made \/ WrittenForPartner(b)
  BY <1>1, <1>2, <1>3, BlockingExplained
<1>6. Explained'
  BY <1>1, <1>4, <1>5 DEF Explained
<1>7. RowsShaped'
  BY <1>1 DEF RowsShaped
<1>8. Started' /\ Intact' /\ Resolved' /\ Sweeping'
  BY <1>4 DEF Started, Intact, Resolved, Sweeping, Running
<1>9. PartnerSpared'
  BY <1>1, <1>4 DEF CleanInv, PartnerSpared
<1> QED BY <1>6, <1>7, <1>8, <1>9 DEF CleanInv

LEMMA BeginIsClean == ASSUME DeletionInv, CleanInv, BeginDeletion PROVE CleanInv'
<1>1. /\ rows' = rows /\ made' = made /\ removed' = removed /\ deletion.outcome = "none"
      /\ RowsShaped /\ Started /\ Intact
  BY DEF CleanInv, BeginDeletion
<1>2. deletion.step = 1 /\ deletion.deleted = {}
  BY <1>1 DEF Started
<1>3. deletion' = [outcome |-> "running", step |-> 1, deleted |-> {}, blocking |-> deletion.blocking]
  <2>1. deletion' = [deletion EXCEPT !.outcome = "running"]
    BY DEF BeginDeletion
  <2> QED BY <1>2, <2>1 DEF DeletionInv
<1>4. View' = View
  BY <1>1, <1>2, <1>3 DEF View
<1>5. RowsShaped'
  BY <1>1 DEF RowsShaped
<1>6. Intact'
  <2>1. \A r \in View : \A c \in DOMAIN r.refs : Honoured(r, c, View, {}, made)
    BY <1>1, <1>2 DEF Intact
  <2>2. deletion'.deleted = {}
    BY <1>3
  <2> QED BY <1>1, <1>4, <2>1, <2>2 DEF Intact
<1>7. Sweeping'
  <2>1. deletion'.step = 1
    BY <1>3
  <2>2. \A r : ~Swept(r, 1) /\ ~Emptied(r, 1)
    BY DEF Swept, Emptied
  <2> QED BY <2>1, <2>2 DEF Sweeping
<1>8. Started' /\ Resolved' /\ Explained' /\ PartnerSpared'
  BY <1>1, <1>2, <1>3 DEF Started, Resolved, Explained, PartnerSpared, CleanInv
<1> QED BY <1>5, <1>6, <1>7, <1>8 DEF CleanInv


\* What the commit makes of a row.
LEMMA RemainingIs ==
  ASSUME NEW r, Formed(r)
  PROVE  /\ Remaining(r).key = r.key /\ DOMAIN Remaining(r).refs = DOMAIN r.refs
         /\ \A c \in DOMAIN r.refs :
              Remaining(r).refs[c] = IF r.refs[c] \in deletion.deleted /\ NullOnDelete(Table(r), c)
                                     THEN Null ELSE r.refs[c]
<1>1. PICK refs : refs = [c \in DOMAIN r.refs |->
                         IF r.refs[c] \in deletion.deleted
                            /\ \E k \in ForeignKeys : k.delete = "set null" /\ k.table = Table(r)
                                                      /\ k.column = c
                         THEN Null ELSE r.refs[c]]
  OBVIOUS
<1>2. Remaining(r) = [r EXCEPT !.refs = refs]
  BY <1>1, Zenon DEF Remaining
<1>3. [r EXCEPT !.refs = refs] = [key |-> r.key, pending |-> r.pending, refs |-> refs]
  BY DEF Formed
<1>4. Remaining(r).key = r.key /\ Remaining(r).refs = refs
  BY <1>2, <1>3
<1>5. /\ DOMAIN refs = DOMAIN r.refs
      /\ \A c \in DOMAIN r.refs :
           refs[c] = IF r.refs[c] \in deletion.deleted /\ NullOnDelete(Table(r), c)
                     THEN Null ELSE r.refs[c]
  BY <1>1 DEF NullOnDelete
<1> QED BY <1>4, <1>5

LEMMA NullingColumns ==
  ASSUME NEW table, NEW c, NullOnDelete(table, c)
  PROVE  ~Needed(table, c) /\ c # "initiator_company_id"
<1>1. PICK k \in ForeignKeys : k.delete = "set null" /\ k.table = table /\ k.column = c
  BY DEF NullOnDelete
<1>2. Regular(k)
  BY KeysRegular
<1>3. Nulling(table, c)
  BY <1>1, <1>2 DEF Regular, Sound
<1> QED BY <1>3 DEF Nulling, Needed

LEMMA RemainingShaped ==
  ASSUME NEW r, Formed(r), Shaped(r)
  PROVE  Shaped(Remaining(r))
<1>1. PICK q : q = Remaining(r)
  OBVIOUS
<1>2. /\ q.key = r.key /\ Table(q) = Table(r) /\ DOMAIN q.refs = DOMAIN r.refs
      /\ \A c \in DOMAIN r.refs : q.refs[c] = r.refs[c] \/ (NullOnDelete(Table(r), c) /\ q.refs[c] = Null)
  BY <1>1, RemainingIs DEF Table
<1>3. RefersRightly(q)
  BY <1>2 DEF Shaped, RefersRightly
<1>4. HasNeeded(q)
  BY <1>2, NullingColumns DEF Shaped, HasNeeded
<1>5. Table(q) = "collaborations" => q.refs.initiator_company_id = r.refs.initiator_company_id
  <2>1. SUFFICES ASSUME Table(r) = "collaborations"
                 PROVE  q.refs["initiator_company_id"] = r.refs["initiator_company_id"]
    BY <1>2
  <2>2. PICK k \in ForeignKeys : k.table = "collaborations" /\ k.column = "initiator_company_id"
    BY CollaborationsLinked DEF Linked
  <2>3. "initiator_company_id" \in DOMAIN r.refs
    BY <2>1, <2>2, KeyColumns
  <2> QED BY <1>2, <2>3, NullingColumns
<1> QED BY <1>1, <1>2, <1>3, <1>4, <1>5 DEF Shaped

LEMMA CommitIsClean == ASSUME DeletionInv, CleanInv, Commit PROVE CleanInv'
<1>1. /\ RowsFormed /\ RowsShaped /\ Intact /\ PartnerSpared /\ Explained /\ deletion.outcome = "running"
      /\ rows' = {Remaining(r) : r \in View} /\ made' = made
      /\ removed' = {r \in rows : r.key \in deletion.deleted}
  BY DEF DeletionInv, CleanInv, Commit, Running
<1>2. deletion' = [outcome |-> "done", step |-> deletion.step, deleted |-> {}, blocking |-> deletion.blocking]
  <2>1. deletion' = [deletion EXCEPT !.outcome = "done", !.deleted = {}]
    BY DEF Commit
  <2> QED BY <2>1 DEF DeletionInv
<1>3. \A r \in View : Shaped(r) /\ Formed(r)
  BY <1>1, ShapedRows
<1>4. RowsShaped'
  BY <1>1, <1>3, RemainingShaped DEF RowsShaped
<1>5. Resolved'
  <2>1. Keys(View) \subseteq Keys(rows')
    BY <1>1, <1>3, RemainingIs DEF Keys
  <2>2. ASSUME NEW r \in View, NEW c \in DOMAIN Remaining(r).refs
        PROVE  Remaining(r).refs[c] \in Keys(rows') \cup {Null} \cup made
    <3>1. /\ c \in DOMAIN r.refs
          /\ Remaining(r).refs[c] = IF r.refs[c] \in deletion.deleted /\ NullOnDelete(Table(r), c)
                                    THEN Null ELSE r.refs[c]
      BY <1>3, RemainingIs
    <3>2. Honoured(r, c, View, deletion.deleted, made)
      BY <1>1, <3>1 DEF Intact
    <3> QED BY <2>1, <3>1, <3>2 DEF Honoured
  <2> QED BY <1>1, <2>2 DEF Resolved
<1>6. Started' /\ Intact' /\ Sweeping'
  BY <1>2 DEF Started, Intact, Sweeping, Running
<1>7. PartnerSpared'
  BY <1>1, <1>2 DEF PartnerSpared
<1>8. Explained'
  BY <1>1, <1>2 DEF Explained
<1> QED BY <1>4, <1>5, <1>6, <1>7, <1>8 DEF CleanInv

----------------------------------------------------------------------------
(* The calls.                                                              *)

\* No row refers to an allocation.
LEMMA AllocationsUnreferred ==
  ASSUME NEW r, Shaped(r), NEW c \in DOMAIN r.refs, NEW g, Table(g) = "entry_allocations"
  PROVE  r.refs[c] # g.key
<1>1. SUFFICES ASSUME r.refs[c] = g.key PROVE FALSE
  OBVIOUS
<1>2. g.key # Null
  BY DEF Null, Table
<1>3. Points(Table(r), r.key[2], c, g.key)
  BY <1>1, <1>2 DEF Shaped, RefersRightly
<1>4. ~Refers(c, "entry_allocations")
  BY DEF Refers
<1> QED BY <1>3, <1>4, LinkedRefers DEF Points, Table, OrderRows

\* What a row refers to stays, or is replaced under its key.
LEMMA CallsLeave ==
  ASSUME NEW gone, NEW new, Fits(gone, new), NEW r, Shaped(r), NEW c \in DOMAIN r.refs,
         NEW set, r.refs[c] \in Keys(set)
  PROVE  r.refs[c] \in Keys((set \ gone) \cup new)
<1>1. PICK q \in set : r.refs[c] = q.key
  BY DEF Keys
<1>2. CASE q \in gone
  <2>1. q.key \in Keys(new)
    BY <1>1, <1>2, AllocationsUnreferred DEF Fits
  <2> QED BY <1>1, <2>1 DEF Keys
<1>3. CASE q \notin gone
  BY <1>1, <1>3 DEF Keys
<1> QED BY <1>2, <1>3

LEMMA WorkIsClean == ASSUME DeletionInv, CleanInv, Work PROVE CleanInv'
<1>1. /\ RowsFormed /\ RowsShaped /\ Started /\ Intact /\ Resolved /\ Sweeping /\ PartnerSpared /\ Explained
      /\ calls \in Nat /\ deletion.deleted \subseteq Keys(rows)
  BY DeletionAssumption DEF DeletionInv, CleanInv
<1>2. PICK gone, new : Call(gone, new) /\ Fits(gone, new)
  BY <1>1, WorkFits
<1>3. /\ gone \subseteq View /\ rows' = (rows \ gone) \cup new
      /\ deletion' = deletion /\ removed' = removed
      /\ made' = IF Running THEN made \cup Keys(new) ELSE made
      /\ \A r \in new : \A c \in DOMAIN r.refs : r.refs[c] \in Keys((View \ gone) \cup new) \cup {Null}
  BY <1>2 DEF Call
<1>4. ASSUME NEW r \in new PROVE r.key \notin deletion.deleted
  <2>1. CASE r.key[3] = calls + 1
    <3>1. SUFFICES ASSUME NEW s \in rows, s.key = r.key PROVE FALSE
      BY <1>1 DEF Keys
    <3>2. s.key[3] \in 0..calls
      BY <1>1 DEF RowsFormed, MadeBy
    <3> QED BY <1>1, <2>1, <3>1, <3>2
  <2>2. CASE \E g \in gone : g.key = r.key
    BY <1>3, <2>2 DEF View
  <2> QED BY <1>2, <2>1, <2>2 DEF Fits
<1>5. View' = (View \ gone) \cup new
  BY <1>3, <1>4 DEF View
<1>6. \A r \in new : Shaped(r)
  BY <1>2 DEF Fits
<1>7. RowsShaped'
  BY <1>1, <1>3, <1>6 DEF RowsShaped
<1>8. Started'
  BY <1>1, <1>3 DEF Started
<1>9. made \subseteq made'
  BY <1>3
<1>10. Intact'
  <2>1. SUFFICES ASSUME deletion.outcome \in {"none", "running"}, NEW r \in (View \ gone) \cup new,
                        NEW c \in DOMAIN r.refs
                 PROVE  Honoured(r, c, (View \ gone) \cup new, deletion.deleted, made')
    BY <1>3, <1>5 DEF Intact
  <2>2. CASE r \in new
    BY <1>3, <2>2 DEF Honoured
  <2>3. CASE r \in View \ gone
    <3>1. Honoured(r, c, View, deletion.deleted, made) /\ Shaped(r)
      BY <1>1, <2>1, <2>3, ShapedRows DEF Intact
    <3>2. CASE r.refs[c] \in Keys(View)
      <4>1. r.refs[c] \in Keys((View \ gone) \cup new)
        BY <1>2, <3>1, <3>2, CallsLeave
      <4> QED BY <4>1 DEF Honoured
    <3> QED BY <1>9, <3>1, <3>2 DEF Honoured
  <2> QED BY <2>2, <2>3
<1>11. Resolved'
  <2>1. SUFFICES ASSUME deletion.outcome = "done", NEW r \in (rows \ gone) \cup new, NEW c \in DOMAIN r.refs
                 PROVE  r.refs[c] \in Keys((rows \ gone) \cup new) \cup {Null} \cup made'
    BY <1>3 DEF Resolved
  <2>2. CASE r \in new
    <3>1. Keys((View \ gone) \cup new) \subseteq Keys((rows \ gone) \cup new)
      BY DEF Keys, View
    <3> QED BY <1>3, <2>2, <3>1
  <2>3. CASE r \in rows \ gone
    <3>1. r.refs[c] \in Keys(rows) \cup {Null} \cup made /\ Shaped(r)
      BY <1>1, <2>1, <2>3 DEF Resolved, RowsShaped
    <3>2. CASE r.refs[c] \in Keys(rows)
      <4>1. r.refs[c] \in Keys((rows \ gone) \cup new)
        BY <1>2, <3>1, <3>2, CallsLeave
      <4> QED BY <4>1
    <3> QED BY <1>9, <3>1, <3>2
  <2> QED BY <2>2, <2>3
<1>12. Sweeping'
  <2>1. SUFFICES ASSUME Running, NEW r \in (View \ gone) \cup new
                 PROVE  /\ Swept(r, deletion.step) => r.key \in made'
                        /\ Emptied(r, deletion.step) => r.refs.target_id \in made'
    BY <1>3, <1>5 DEF Sweeping, Running
  <2>2. CASE r \in new
    <3>1. r.key \in Keys(new) /\ (Table(r) = "entry_allocations" => r.refs.target_id \in Keys(new))
      BY <1>2, <2>2 DEF Keys, Fits
    <3> QED BY <1>3, <2>1, <3>1 DEF Emptied
  <2>3. CASE r \in View \ gone
    BY <1>1, <1>9, <2>1, <2>3 DEF Sweeping
  <2> QED BY <2>2, <2>3
<1>13. PartnerSpared'
  BY <1>1, <1>3, <1>4 DEF PartnerSpared
<1>14. Explained'
  BY <1>1, <1>3, <1>9 DEF Explained
<1> QED BY <1>7, <1>8, <1>10, <1>11, <1>12, <1>13, <1>14 DEF CleanInv

LEMMA CleanInitially == DeletionInit => CleanInv
<1> SUFFICES ASSUME DeletionInit PROVE CleanInv
  OBVIOUS
<1>1. RowsShaped /\ \A r \in rows : RefersWithin(r, Keys(rows))
  BY RowsInitiallyShaped
<1>2. /\ deletion.outcome = "none" /\ deletion.step = 1 /\ deletion.deleted = {}
      /\ deletion.blocking = {} /\ made = {} /\ removed = {}
  BY DEF DeletionInit
<1>3. View = rows
  BY <1>2 DEF View
<1>4. Intact
  BY <1>1, <1>3 DEF Intact, Honoured, RefersWithin
<1> QED BY <1>1, <1>2, <1>4 DEF CleanInv, Started, Resolved, Sweeping, Running, PartnerSpared, Explained

LEMMA CleanStep == DeletionInv /\ CleanInv /\ [DeletionNext]_deletionVars => CleanInv'
<1> SUFFICES ASSUME DeletionInv, CleanInv, [DeletionNext]_deletionVars PROVE CleanInv'
  OBVIOUS
<1>1. CASE DeletionNext
  BY <1>1, WorkIsClean, BeginIsClean, ExecuteIsClean, RefuseIsClean, CommitIsClean DEF DeletionNext
<1>2. CASE UNCHANGED deletionVars
  <2>1. View' = View /\ deletion' = deletion /\ rows' = rows /\ made' = made /\ removed' = removed
    BY <1>2 DEF deletionVars, View
  <2>2. RowsShaped' /\ Started' /\ Resolved' /\ PartnerSpared' /\ Explained'
    BY <2>1 DEF CleanInv, RowsShaped, Started, Resolved, PartnerSpared, Explained
  <2>3. Intact' /\ Sweeping'
    BY <2>1 DEF CleanInv, Intact, Sweeping, Running
  <2> QED BY <2>2, <2>3 DEF CleanInv
<1> QED BY <1>1, <1>2

LEMMA CleanDeletions == CleanInv => DeletionsAreClean
<1> SUFFICES ASSUME CleanInv PROVE DeletionsAreClean
  OBVIOUS
<1>1. \A r : Spared(r) /\ r.key[2] = Partner => Shared(r)
  BY DeletionAssumption DEF Spared
<1> QED BY <1>1 DEF CleanInv, Resolved, PartnerSpared, Explained, DeletionsAreClean

\* A deletion that commits leaves no reference to a row that is gone and takes nothing of
\* the partner's but what they shared, and one that is refused is so for a row the company
\* wrote in its partner's books, whatever the two do before it and while it runs, with the
\* rows inserted meanwhile excepted: the order of its statements is right for any number of
\* calls.
THEOREM DeletionsAlwaysLeaveClean == Spec => []DeletionsAreClean
<1>1. Init => DeletionInv /\ CleanInv
  BY DeletionInitially, CleanInitially DEF Init
<1>2. DeletionInv /\ CleanInv /\ [Next]_vars => DeletionInv' /\ CleanInv'
  BY DeletionStep, CleanStep, DeletionSteps
<1> QED BY <1>1, <1>2, CleanDeletions, PTL DEF Spec
=============================================================================
