--------------------- MODULE NationalOperationsProofs ---------------------
(***************************************************************************)
(* National operations keep the promise of the wallets, number themselves  *)
(* without a gap, post what they say and balance, for any number of        *)
(* concurrent requests, wallets, companies and bodies: the row locks make  *)
(* the absolute balances the ORM writes correct.                           *)
(***************************************************************************)
EXTENDS NationalOperations, DataLemmas, MoneyLemmas, FiniteSetTheorems, TLAPS

---------------------------------------------------------------------------
(* Lemmas on the operators.                                                *)

LEMMA LockOrderSeq ==
  ASSUME NEW W \in SUBSET Wallets, NEW s \in LockOrders(W)
  PROVE  /\ s \in Seq(Wallets)
         /\ W = {s[i] : i \in DOMAIN s}
<1>1. Cardinality(W) \in Nat
  BY WalletAssumption, FS_Subset, FS_CardinalityType
<1>2. s \in [1 .. Cardinality(W) -> W]
  BY DEF LockOrders
<1>3. s \in Seq(Wallets)
  BY <1>1, <1>2
<1> QED BY <1>2, <1>3 DEF LockOrders

LEMMA FreeReferencesNat ==
  ASSUME operations \in Seq(Operation), NEW c \in Companies
  PROVE  FreeReferences(c) \subseteq Nat
<1>1. IsFiniteSet(DOMAIN operations)
  BY FS_Interval
<1>2. Cardinality(OperationsOf(c)) \in Nat
  BY <1>1, FS_Subset, FS_CardinalityType DEF OperationsOf
<1> QED BY <1>2 DEF FreeReferences, ReferenceRetries
---------------------------------------------------------------------------
(* Types.                                                                  *)

LEMMA IdleTyped == Idle \in RequestState
<1>1. (CHOOSE c \in Companies : TRUE) \in Companies
  BY WalletAssumption
<1>2. Currency \in [Wallets -> Currencies]
  BY WalletAssumption DEF Currencies
<1>3. <<>> \in Seq(Wallets)
  OBVIOUS
<1> QED BY <1>1, <1>2, <1>3 DEF Idle, RequestState, WalletRow, NoWallet, Statuses

LEMMA InitTyped == Init => TypeOK
<1> SUFFICES ASSUME Init PROVE TypeOK
  OBVIOUS
<1>1. NoWallet \in WalletRow
  BY DEF NoWallet, WalletRow, Statuses
<1>2. operations \in Seq(Operation)
  BY DEF Init
<1> QED BY <1>1, <1>2, IdleTyped DEF Init, TypeOK

LEMMA ReleaseTyped ==
  ASSUME TypeOK, NEW r \in Requests, Release(r)
  PROVE  /\ holder' \in [Wallets -> Requests \cup {NoRequest}]
         /\ request' \in [Requests -> RequestState]
BY IdleTyped DEF TypeOK, Release

LEMMA RollbackTyped ==
  ASSUME TypeOK, NEW r \in Requests, Rollback(r)
  PROVE  TypeOK'
BY ReleaseTyped DEF TypeOK, Rollback

LEMMA MovementTyped ==
  ASSUME NEW row \in WalletRow, NEW raw \in Int, CanApply(row, raw), NEW src \in Nat
  PROVE  MovementOf(row, raw, src) \in
           [before : Nat, amount : Int, after : Nat, source : Nat]
BY AppliedNat, QuantizeInt DEF MovementOf, WalletRow

LEMMA CreateWalletTyped ==
  ASSUME TypeOK, NEW w \in Wallets, NEW n \in InitialBalances, CreateWallet(w, n)
  PROVE  TypeOK'
<1> DEFINE fresh == [balance |-> 0, status |-> "active"]
<1>1. n \in Nat /\ fresh \in WalletRow
  BY RequestAssumption DEF WalletRow, Statuses
<1>2. CASE n > 0
  <2>1. CanApply(fresh, n)
    BY <1>1, <1>2 DEF CanApply
  <2>2. /\ [fresh EXCEPT !.balance = Applied(fresh, n)] \in WalletRow
        /\ MovementOf(fresh, n, 0) \in [before : Nat, amount : Int, after : Nat, source : Nat]
    BY <1>1, <2>1, AppliedNat, MovementTyped DEF WalletRow
  <2>3. /\ wallet' = [wallet EXCEPT ![w] = [fresh EXCEPT !.balance = Applied(fresh, n)]]
        /\ journal' = [journal EXCEPT ![w] = Append(@, MovementOf(fresh, n, 0))]
        /\ UNCHANGED <<operations, holder, request>>
    BY <1>2 DEF CreateWallet
  <2> QED BY <2>2, <2>3 DEF TypeOK
<1>3. CASE ~(n > 0)
  BY <1>1, <1>3 DEF CreateWallet, TypeOK
<1> QED BY <1>2, <1>3

LEMMA RequestTyped ==
  ASSUME TypeOK, NEW r \in Requests, NEW q \in RequestState,
         request' = [request EXCEPT ![r] = q]
  PROVE  request' \in [Requests -> RequestState]
BY DEF TypeOK

LEMMA StartTyped ==
  ASSUME TypeOK, NEW r \in Requests,
         (\E c \in Companies, p \in Payloads : StartCreate(r, c, p))
           \/ (\E o \in DOMAIN operations : StartCancel(r, o))
  PROVE  TypeOK'
<1>1. CASE \E c \in Companies, p \in Payloads : StartCreate(r, c, p)
  <2>1. PICK c \in Companies, p \in Payloads : StartCreate(r, c, p)
    BY <1>1
  <2>2. p \in Payload
    BY RequestAssumption
  <2>3. PICK s \in LockOrders(p.lines) :
          request' = [request EXCEPT ![r] =
                        [@ EXCEPT !.stage = "locking", !.company = c,
                                  !.lines = p.lines, !.amount = p.amount,
                                  !.currency = p.currency, !.queue = s]]
    BY <2>1 DEF StartCreate
  <2>4. s \in Seq(Wallets)
    BY <2>2, LockOrderSeq DEF Payload
  <2> DEFINE q == [request[r] EXCEPT !.stage = "locking", !.company = c,
                                     !.lines = p.lines, !.amount = p.amount,
                                     !.currency = p.currency, !.queue = s]
  <2>a. q \in RequestState
    <3>1. request[r] \in RequestState
      BY DEF TypeOK
    <3>2. /\ p.lines \in SUBSET Wallets
          /\ p.amount \in [Wallets -> Int]
          /\ p.currency \in [Wallets -> Currencies]
      BY <2>2 DEF Payload
    <3> QED BY <2>4, <3>1, <3>2 DEF RequestState
  <2>b. request' = [request EXCEPT ![r] = q]
    BY <2>3 DEF TypeOK
  <2>5. request' \in [Requests -> RequestState]
    BY <2>a, <2>b, RequestTyped
  <2> QED BY <2>1, <2>5 DEF StartCreate, TypeOK
<1>2. CASE \E o \in DOMAIN operations : StartCancel(r, o)
  <2>1. PICK o \in DOMAIN operations : StartCancel(r, o)
    BY <1>2
  <2>2. operations[o] \in Operation /\ o \in Nat
    BY DEF TypeOK
  <2>3. PICK s \in LockOrders(operations[o].lines) :
          request' = [request EXCEPT ![r] =
                        [@ EXCEPT !.stage = "locking", !.company = operations[o].company,
                                  !.lines = operations[o].lines,
                                  !.amount = Mirrored(operations[o].amount),
                                  !.cancels = o, !.queue = s]]
    BY <2>1 DEF StartCancel
  <2>4. s \in Seq(Wallets)
    BY <2>2, LockOrderSeq DEF Operation
  <2>5. Mirrored(operations[o].amount) \in [Wallets -> Int]
    BY <2>2, SubUnitsAssumption DEF Mirrored, Exact, Operation
  <2> DEFINE q == [request[r] EXCEPT !.stage = "locking",
                                     !.company = operations[o].company,
                                     !.lines = operations[o].lines,
                                     !.amount = Mirrored(operations[o].amount),
                                     !.cancels = o, !.queue = s]
  <2>a. q \in RequestState
    <3>1. request[r] \in RequestState
      BY DEF TypeOK
    <3>2. /\ operations[o].lines \in SUBSET Wallets
          /\ operations[o].company \in Companies
      BY <2>2 DEF Operation
    <3> QED BY <2>2, <2>4, <2>5, <3>1, <3>2 DEF RequestState
  <2>b. request' = [request EXCEPT ![r] = q]
    BY <2>3 DEF TypeOK
  <2>6. request' \in [Requests -> RequestState]
    BY <2>a, <2>b, RequestTyped
  <2> QED BY <2>1, <2>6 DEF StartCancel, TypeOK
<1> QED BY <1>1, <1>2

LEMMA LockWalletTyped ==
  ASSUME TypeOK, NEW r \in Requests, LockWallet(r)
  PROVE  /\ TypeOK'
         /\ Awaits(r) \in Wallets
<1> DEFINE w == Awaits(r)
           q == request[r]
<1>1. q \in RequestState
  BY DEF TypeOK
<1>2. q.queue \in Seq(Wallets) /\ q.queue # <<>>
  BY <1>1 DEF RequestState, LockWallet
<1>3. w \in Wallets /\ Tail(q.queue) \in Seq(Wallets)
  BY <1>2 DEF Awaits
<1> DEFINE new == [request[r] EXCEPT !.queue = Tail(request[r].queue), !.seen[w] = wallet[w]]
<1>4. wallet[w] \in WalletRow
  BY <1>3 DEF TypeOK
<1>5. new \in RequestState
  BY <1>1, <1>3, <1>4 DEF RequestState
<1>6. request' \in [Requests -> RequestState]
  <2>1. request' = [request EXCEPT ![r] = new]
    BY DEF LockWallet, TypeOK
  <2> QED BY <1>5, <2>1, RequestTyped
<1>7. holder' \in [Wallets -> Requests \cup {NoRequest}]
  BY <1>3 DEF LockWallet, TypeOK
<1> QED BY <1>3, <1>6, <1>7 DEF LockWallet, TypeOK

LEMMA TakeReferenceTyped ==
  ASSUME TypeOK, NEW r \in Requests, TakeReference(r)
  PROVE  TypeOK'
<1>1. request[r] \in RequestState /\ request[r].company \in Companies
  BY DEF TypeOK, RequestState
<1>2. PICK n \in FreeReferences(request[r].company) :
        request' = [request EXCEPT ![r] =
                      [@ EXCEPT !.stage = "posting", !.reference = n]]
  BY DEF TakeReference
<1>3. n \in Nat
  BY <1>1, FreeReferencesNat DEF TypeOK
<1>4. [request[r] EXCEPT !.stage = "posting", !.reference = n] \in RequestState
  BY <1>1, <1>3 DEF RequestState
<1> QED BY <1>2, <1>4, RequestTyped DEF TakeReference, TypeOK

LEMMA PostTyped ==
  ASSUME TypeOK, LocksProtect, NEW r \in Requests, Post(r)
  PROVE  TypeOK'
<1> DEFINE q == request[r]
           id == Len(operations) + 1
<1>1. q \in RequestState
  BY DEF TypeOK
<1>2. id \in Nat
  BY DEF TypeOK
<1>3. ASSUME NEW w \in q.lines
      PROVE  /\ w \in Wallets /\ q.seen[w] \in WalletRow /\ q.amount[w] \in Int
             /\ CanApply(q.seen[w], q.amount[w])
  BY <1>1 DEF RequestState, Post, Postable
<1>4. wallet' \in [Wallets -> WalletRow]
  BY <1>3, AppliedNat DEF Post, TypeOK, WalletRow
<1>5. journal' \in [Wallets -> Seq([before : Nat, amount : Int, after : Nat, source : Nat])]
  <2> DEFINE M == [before : Nat, amount : Int, after : Nat, source : Nat]
  <2>1. \A w \in q.lines : MovementOf(q.seen[w], q.amount[w], id) \in M
    BY <1>2, <1>3, MovementTyped
  <2>2. journal \in [Wallets -> Seq(M)]
    BY DEF TypeOK
  <2>3. journal' = [w \in Wallets |->
                      IF w \in q.lines
                      THEN Append(journal[w], MovementOf(q.seen[w], q.amount[w], id))
                      ELSE journal[w]]
    BY DEF Post
  <2>4. journal' \in [Wallets -> Seq(M)]
    <3> HIDE DEF M
    <3> QED BY <2>1, <2>2, <2>3
  <2> QED BY <2>4
<1>6. operations' \in Seq(Operation)
  <2> DEFINE marked == [o \in DOMAIN operations |->
                          IF o = q.cancels
                          THEN [operations[o] EXCEPT !.status = "cancelled"]
                          ELSE operations[o]]
             inserted == [company |-> q.company, lines |-> q.lines,
                          amount |-> [w \in Wallets |-> Quantize(q.amount[w])],
                          status |-> "validated", reversalOf |-> q.cancels,
                          reference |-> q.reference]
  <2>1. marked \in Seq(Operation)
    <3>1. ASSUME NEW o \in DOMAIN operations
          PROVE  marked[o] \in Operation
      <4>1. operations[o] \in Operation
        BY DEF TypeOK
      <4> QED BY <4>1 DEF Operation
    <3> QED BY <3>1 DEF TypeOK
  <2>2. inserted \in Operation
    BY <1>1, QuantizeInt DEF Operation, RequestState
  <2>3. operations' = Append(marked, inserted)
    BY DEF Post, WithOperation
  <2> QED BY <2>1, <2>2, <2>3
<1> QED BY <1>4, <1>5, <1>6, ReleaseTyped DEF Post, TypeOK
---------------------------------------------------------------------------
(* The row locks.                                                          *)

LEMMA InitLocks == Init => LocksProtect
<1> SUFFICES ASSUME Init, NEW r \in Requests
             PROVE  /\ \A w \in Wallets : holder[w] # r
                    /\ request[r].lines = {}
                    /\ request[r].stage # "posting"
  BY DEF LocksProtect
<1> QED BY RequestAssumption DEF Init, Idle

LEMMA IdleFree == Idle.lines = {} /\ Idle.stage = "idle"
<1> DEFINE company == CHOOSE c \in Companies : TRUE
<1> HIDE DEF company
<1> QED BY DEF Idle

\* Ending a transaction whose writes touched only rows it held protects the
\* rows of every other transaction.
LEMMA ReleaseKeepsLocks ==
  ASSUME TypeOK, LocksProtect, NEW r \in Requests, Release(r),
         \A w \in Wallets : wallet'[w] = wallet[w] \/ holder[w] = r
  PROVE  LocksProtect'
<1>1. \A s \in Requests : request'[s] = IF s = r THEN Idle ELSE request[s]
  BY DEF Release, TypeOK
<1>2. \A w \in Wallets : holder'[w] = IF holder[w] = r THEN NoRequest ELSE holder[w]
  BY DEF Release
<1>3. ASSUME NEW s \in Requests
      PROVE  /\ \A w \in Wallets : holder'[w] = s => /\ request'[s].seen[w] = wallet'[w]
                                                     /\ wallet'[w].status # "absent"
             /\ \A w \in request'[s].lines : holder'[w] = s \/ w \in ToLock(s)'
             /\ request'[s].stage = "posting" => request'[s].queue = <<>>
  <2>1. CASE s = r
    <3>1. request'[s].lines = {} /\ request'[s].stage = "idle"
      BY <1>1, <2>1, IdleFree
    <3>2. \A w \in Wallets : holder'[w] # s
      BY <1>2, <2>1, RequestAssumption
    <3> QED BY <3>1, <3>2
  <2>2. CASE s # r
    <3>1. request'[s] = request[s] /\ ToLock(s)' = ToLock(s)
      BY <1>1, <2>2 DEF ToLock
    <3>2. request[s].lines \subseteq Wallets
      BY DEF TypeOK, RequestState
    <3> QED BY <1>2, <2>2, <3>1, <3>2, RequestAssumption DEF LocksProtect
  <2> QED BY <2>1, <2>2
<1> QED BY <1>3 DEF LocksProtect

\* A row nobody holds may change without the locks.
LEMMA UnheldRowMayChange ==
  ASSUME TypeOK, LocksProtect, UNCHANGED <<holder, request>>,
         \A w \in Wallets : wallet'[w] = wallet[w] \/ holder[w] \notin Requests
  PROVE  LocksProtect'
<1>1. \A r \in Requests : ToLock(r)' = ToLock(r)
  BY DEF ToLock
<1> QED BY <1>1 DEF LocksProtect

LEMMA StartKeepsLocks ==
  ASSUME TypeOK, LocksProtect, NEW r \in Requests, UNCHANGED <<wallet, holder>>,
         NEW W \in SUBSET Wallets, NEW s \in LockOrders(W),
         NEW q \in RequestState, request' = [request EXCEPT ![r] = q],
         q.lines = W, q.queue = s, q.stage = "locking", q.seen = request[r].seen
  PROVE  LocksProtect'
<1>1. \A t \in Requests : request'[t] = IF t = r THEN q ELSE request[t]
  BY DEF TypeOK
<1>2. W = ToLock(r)'
  BY <1>1, LockOrderSeq DEF ToLock
<1>3. \A t \in Requests : t # r => ToLock(t)' = ToLock(t)
  BY <1>1 DEF ToLock
<1> QED BY <1>1, <1>2, <1>3 DEF LocksProtect

LEMMA StartCreateKeepsLocks ==
  ASSUME TypeOK, LocksProtect, NEW r \in Requests, NEW c \in Companies,
         NEW p \in Payloads, StartCreate(r, c, p)
  PROVE  LocksProtect'
<1>1. PICK s \in LockOrders(p.lines) :
        request' = [request EXCEPT ![r] =
                      [@ EXCEPT !.stage = "locking", !.company = c,
                                !.lines = p.lines, !.amount = p.amount,
                                !.currency = p.currency, !.queue = s]]
  BY DEF StartCreate
<1>2. p.lines \in SUBSET Wallets
  BY RequestAssumption DEF Payload
<1> DEFINE q == [request[r] EXCEPT !.stage = "locking", !.company = c,
                                   !.lines = p.lines, !.amount = p.amount,
                                   !.currency = p.currency, !.queue = s]
<1>3. request[r] \in RequestState
  BY DEF TypeOK
<1>4. q.lines = p.lines /\ q.queue = s /\ q.stage = "locking" /\ q.seen = request[r].seen
  BY <1>3 DEF RequestState
<1>5. request' = [request EXCEPT ![r] = q]
  BY <1>1 DEF TypeOK
<1>6. q = request'[r]
  BY <1>5 DEF TypeOK
<1>7. TypeOK'
  BY StartTyped
<1>8. q \in RequestState
  BY <1>6, <1>7 DEF TypeOK
<1> HIDE DEF q
<1> QED BY <1>2, <1>4, <1>5, <1>8, StartKeepsLocks DEF StartCreate

LEMMA StartCancelKeepsLocks ==
  ASSUME TypeOK, LocksProtect, NEW r \in Requests, NEW o \in DOMAIN operations,
         StartCancel(r, o)
  PROVE  LocksProtect'
<1> DEFINE op == operations[o]
<1>1. PICK s \in LockOrders(op.lines) :
        request' = [request EXCEPT ![r] =
                      [@ EXCEPT !.stage = "locking", !.company = op.company,
                                !.lines = op.lines, !.amount = Mirrored(op.amount),
                                !.cancels = o, !.queue = s]]
  BY DEF StartCancel
<1>2. op.lines \in SUBSET Wallets
  <2>1. op \in Operation
    BY DEF TypeOK
  <2> QED BY <2>1 DEF Operation
<1> DEFINE q == [request[r] EXCEPT !.stage = "locking", !.company = op.company,
                                   !.lines = op.lines, !.amount = Mirrored(op.amount),
                                   !.cancels = o, !.queue = s]
<1>3. request[r] \in RequestState
  BY DEF TypeOK
<1>4. q.lines = op.lines /\ q.queue = s /\ q.stage = "locking" /\ q.seen = request[r].seen
  BY <1>3 DEF RequestState
<1>5. request' = [request EXCEPT ![r] = q]
  BY <1>1 DEF TypeOK
<1>6. q = request'[r]
  BY <1>5 DEF TypeOK
<1>7. TypeOK'
  BY StartTyped
<1>8. q \in RequestState
  BY <1>6, <1>7 DEF TypeOK
<1> HIDE DEF q, op
<1> QED BY <1>2, <1>4, <1>5, <1>8, StartKeepsLocks DEF StartCancel

LEMMA LockWalletKeepsLocks ==
  ASSUME TypeOK, LocksProtect, NEW r \in Requests, LockWallet(r)
  PROVE  LocksProtect'
<1> DEFINE w == Awaits(r)
           queue == request[r].queue
<1>1. /\ request[r] \in RequestState
      /\ queue \in Seq(Wallets) /\ queue # <<>>
      /\ w \in Wallets
  <2>1. request[r] \in RequestState
    BY DEF TypeOK
  <2>2. queue \in Seq(Wallets) /\ queue # <<>>
    BY <2>1 DEF RequestState, LockWallet
  <2> QED BY <2>1, <2>2 DEF Awaits
<1>2. /\ wallet' = wallet
      /\ wallet[w].status # "absent"
      /\ holder[w] = NoRequest
      /\ holder' = [holder EXCEPT ![w] = r]
      /\ request' = [request EXCEPT ![r] =
                       [request[r] EXCEPT !.queue = Tail(queue), !.seen[w] = wallet[w]]]
  BY DEF LockWallet, TypeOK
<1>3. /\ request'[r].lines = request[r].lines
      /\ request'[r].stage = "locking"
      /\ request'[r].queue = Tail(queue)
      /\ request'[r].seen = [request[r].seen EXCEPT ![w] = wallet[w]]
  BY <1>1, <1>2 DEF LockWallet, TypeOK, RequestState
<1>4. \A t \in Requests : t # r => request'[t] = request[t] /\ ToLock(t)' = ToLock(t)
  BY <1>2 DEF TypeOK, ToLock
<1>5. ToLock(r) \subseteq ToLock(r)' \cup {w}
  <2>1. ToLock(r)' = {Tail(queue)[i] : i \in DOMAIN Tail(queue)}
    BY <1>3 DEF ToLock
  <2>2. ASSUME NEW i \in DOMAIN queue, i # 1
        PROVE  i - 1 \in DOMAIN Tail(queue) /\ Tail(queue)[i-1] = queue[i]
    <3>1. queue \in Seq(Wallets) /\ queue # <<>>
      BY <1>1
    <3> HIDE DEF queue
    <3>2. /\ Len(queue) \in Nat /\ DOMAIN queue = 1 .. Len(queue)
          /\ Tail(queue) \in Seq(Wallets) /\ Len(Tail(queue)) = Len(queue) - 1
      BY <3>1
    <3>3. i - 1 \in 1 .. Len(queue) - 1
      BY <2>2, <3>2
    <3> QED BY <3>1, <3>2, <3>3
  <2>3. w = queue[1]
    BY <1>1 DEF Awaits
  <2>4. ASSUME NEW i \in DOMAIN queue PROVE queue[i] \in ToLock(r)' \cup {w}
    <3>1. CASE i = 1
      BY <2>3, <3>1
    <3>2. CASE i # 1
      BY <2>1, <2>2, <3>2
    <3> QED BY <3>1, <3>2
  <2>5. ToLock(r) = {queue[i] : i \in DOMAIN queue}
    BY DEF ToLock
  <2> HIDE DEF w, queue
  <2> QED BY <2>4, <2>5
<1>6. \A v \in Wallets : holder'[v] = IF v = w THEN r ELSE holder[v]
  BY <1>2 DEF TypeOK
<1>7. ASSUME NEW t \in Requests
      PROVE  /\ \A v \in Wallets : holder'[v] = t => /\ request'[t].seen[v] = wallet'[v]
                                                     /\ wallet'[v].status # "absent"
             /\ \A v \in request'[t].lines : holder'[v] = t \/ v \in ToLock(t)'
             /\ request'[t].stage = "posting" => request'[t].queue = <<>>
  <2>0. request[t].lines \subseteq Wallets /\ request[r].seen \in [Wallets -> WalletRow]
    BY DEF TypeOK, RequestState
  <2>1. CASE t = r
    BY <1>1, <1>2, <1>3, <1>5, <1>6, <2>0, <2>1 DEF LocksProtect
  <2>2. CASE t # r
    BY <1>1, <1>2, <1>4, <1>6, <2>0, <2>2, RequestAssumption DEF LocksProtect
  <2> QED BY <2>1, <2>2
<1> QED BY <1>7 DEF LocksProtect

LEMMA TakeReferenceKeepsLocks ==
  ASSUME TypeOK, LocksProtect, NEW r \in Requests, TakeReference(r)
  PROVE  LocksProtect'
<1>1. request[r] \in RequestState
  BY DEF TypeOK
<1>2. PICK n : request' = [request EXCEPT ![r] =
                             [@ EXCEPT !.stage = "posting", !.reference = n]]
  BY DEF TakeReference
<1>3. /\ request'[r].lines = request[r].lines
      /\ request'[r].queue = request[r].queue
      /\ request'[r].seen = request[r].seen
  BY <1>1, <1>2 DEF TypeOK, RequestState
<1>4. \A t \in Requests : t # r => request'[t] = request[t]
  BY <1>2 DEF TypeOK
<1>5. \A t \in Requests : ToLock(t)' = ToLock(t)
  BY <1>3, <1>4 DEF ToLock
<1>6. request[r].queue = <<>> /\ wallet' = wallet /\ holder' = holder
  BY DEF TakeReference, ReadyToNumber
<1> QED BY <1>3, <1>4, <1>5, <1>6 DEF LocksProtect
---------------------------------------------------------------------------
(* The theorems.                                                           *)

\* The inductive invariant: the types, and what the locks protect.
IInv == TypeOK /\ LocksProtect

LEMMA ProceedKeeps ==
  ASSUME IInv, NEW r \in Requests, Proceed(r) \/ Disconnect(r)
  PROVE  IInv'
<1>1. CASE LockWallet(r)
  BY <1>1, LockWalletTyped, LockWalletKeepsLocks DEF IInv
<1>2. CASE TakeReference(r)
  BY <1>2, TakeReferenceTyped, TakeReferenceKeepsLocks DEF IInv
<1>3. CASE Post(r)
  <2>1. \A w \in Wallets : wallet'[w] = wallet[w] \/ holder[w] = r
    <3>1. request[r].queue = <<>> /\ ToLock(r) = {}
      BY <1>3 DEF IInv, LocksProtect, Post, ToLock
    <3>2. \A w \in request[r].lines : holder[w] = r
      BY <3>1 DEF IInv, LocksProtect
    <3> QED BY <1>3, <3>2 DEF Post
  <2>2. Release(r)
    BY <1>3 DEF Post
  <2> QED BY <1>3, <2>1, <2>2, PostTyped, ReleaseKeepsLocks DEF IInv
<1>4. CASE Rollback(r)
  <2>1. Release(r) /\ wallet' = wallet
    BY <1>4 DEF Rollback
  <2> QED BY <1>4, <2>1, RollbackTyped, ReleaseKeepsLocks DEF IInv
<1>5. LockRefused(r) \/ NumberingRefused(r) \/ PostRefused(r) \/ DeadlockVictim(r)
        \/ Disconnect(r) => Rollback(r)
  BY DEF LockRefused, NumberingRefused, PostRefused, DeadlockVictim, Disconnect
<1> QED BY <1>1, <1>2, <1>3, <1>4, <1>5 DEF Proceed

LEMMA IInvInductive == IInv /\ [Next]_vars => IInv'
<1> SUFFICES ASSUME IInv, [Next]_vars PROVE IInv'
  OBVIOUS
<1>1. CASE \E w \in Wallets, n \in InitialBalances : CreateWallet(w, n)
  <2>1. PICK w \in Wallets, n \in InitialBalances : CreateWallet(w, n)
    BY <1>1
  <2>2. /\ UNCHANGED <<holder, request>>
        /\ \A v \in Wallets : v # w => wallet'[v] = wallet[v]
    BY <2>1 DEF CreateWallet, IInv, TypeOK
  <2>3. holder[w] \notin Requests
    BY <2>1 DEF CreateWallet, IInv, LocksProtect
  <2> QED BY <2>1, <2>2, <2>3, CreateWalletTyped, UnheldRowMayChange DEF IInv
<1>2. CASE \E w \in Wallets, s \in {"active", "inactive"} : SetWalletStatus(w, s)
  <2>1. PICK w \in Wallets, s \in {"active", "inactive"} : SetWalletStatus(w, s)
    BY <1>2
  <2>2. /\ UNCHANGED <<holder, request>>
        /\ \A v \in Wallets : v # w => wallet'[v] = wallet[v]
        /\ holder[w] \notin Requests
    BY <2>1, RequestAssumption DEF SetWalletStatus, IInv, TypeOK
  <2>3. TypeOK'
    BY <2>1 DEF SetWalletStatus, IInv, TypeOK, WalletRow, Statuses
  <2> QED BY <2>2, <2>3, UnheldRowMayChange DEF IInv
<1>3. CASE \E r \in Requests, c \in Companies, p \in Payloads : StartCreate(r, c, p)
  BY <1>3, StartTyped, StartCreateKeepsLocks DEF IInv
<1>4. CASE \E r \in Requests, o \in DOMAIN operations : StartCancel(r, o)
  BY <1>4, StartTyped, StartCancelKeepsLocks DEF IInv
<1>5. CASE \E r \in Requests : Proceed(r) \/ Disconnect(r)
  BY <1>5, ProceedKeeps
<1>6. CASE UNCHANGED vars
  BY <1>6 DEF vars, IInv, TypeOK, LocksProtect, ToLock
<1> QED BY <1>1, <1>2, <1>3, <1>4, <1>5, <1>6 DEF Next

\* Balances stay natural numbers, rows and journals stay well formed, for every
\* number of requests, wallets and operations.
THEOREM TypeCorrect == Spec => []TypeOK
<1>1. Init => IInv
  BY InitTyped, InitLocks DEF IInv
<1>2. IInv => TypeOK
  BY DEF IInv
<1> QED BY <1>1, <1>2, IInvInductive, PTL DEF Spec

\* A row a transaction holds is, until the transaction ends, the row it read.
THEOREM LocksAlwaysProtect == Spec => []LocksProtect
<1>1. Init => IInv
  BY InitTyped, InitLocks DEF IInv
<1>2. IInv => LocksProtect
  BY DEF IInv
<1> QED BY <1>1, <1>2, IInvInductive, PTL DEF Spec
---------------------------------------------------------------------------
(* The refinement.                                                         *)

\* Appending a movement made on the row the wallet had is posting it.
LEMMA MovementPosts ==
  ASSUME NEW w \in Wallets, NEW raw \in Int, NEW src \in Nat,
         NEW row \in WalletRow, TypeOK, CanApply(row, raw),
         row.balance = wallet[w].balance, wallet[w].status # "inactive",
         wallet'[w].balance = Applied(row, raw), wallet'[w].status = "active",
         journal'[w] = Append(journal[w], MovementOf(row, raw, src))
  PROVE  Ledger!Posted(w)
<1> DEFINE m == MovementOf(row, raw, src)
           M == [before : Nat, amount : Int, after : Nat, source : Nat]
<1>1. journal[w] \in Seq(M) /\ m \in M
  BY MovementTyped DEF TypeOK
<1>2. /\ m.source = src
      /\ m = [before |-> wallet[w].balance,
              amount |-> wallet'[w].balance - wallet[w].balance,
              after |-> wallet'[w].balance, source |-> src]
  BY AppliedNat DEF MovementOf
<1> HIDE DEF m, M
<1>3. journal'[w] = Append(journal[w], m)
  BY DEF m
<1>4. Len(journal'[w]) = Len(journal[w]) + 1 /\ journal'[w][Len(journal'[w])] = m
  BY <1>1, <1>3
<1> QED BY <1>2, <1>3, <1>4 DEF Ledger!Posted

\* What the refinement rests on: a row a request holds is the row it read, and a
\* wallet is created empty.
LedgerInv == IInv /\ AbsentIsEmpty

\* A handler moves only rows of existing wallets.
LEMMA AbsentStaysEmpty == LedgerInv /\ [Next]_vars => AbsentIsEmpty'
<1> SUFFICES ASSUME LedgerInv, [Next]_vars, NEW w \in Wallets, wallet'[w].status = "absent"
             PROVE  wallet'[w].balance = 0
  BY DEF AbsentIsEmpty
<1>1. wallet[w] \in WalletRow /\ wallet \in [Wallets -> WalletRow]
  BY DEF LedgerInv, IInv, TypeOK
<1>2. CASE wallet'[w] = wallet[w]
  BY <1>2 DEF LedgerInv, AbsentIsEmpty
<1>3. ASSUME NEW v \in Wallets, NEW n \in InitialBalances, CreateWallet(v, n)
      PROVE  wallet'[w] = wallet[w]
  BY <1>1, <1>3 DEF CreateWallet
<1>4. ASSUME NEW v \in Wallets, NEW s \in {"active", "inactive"}, SetWalletStatus(v, s)
      PROVE  wallet'[w] = wallet[w]
  BY <1>1, <1>4 DEF SetWalletStatus, WalletRow
<1>5. ASSUME NEW r \in Requests, Post(r)
      PROVE  wallet'[w] = wallet[w]
  <2>1. CASE w \in request[r].lines
    <3>1. holder[w] = r
      BY <1>5, <2>1 DEF LedgerInv, IInv, LocksProtect, Post, ToLock
    <3>2. wallet[w].status # "absent"
      BY <3>1 DEF LedgerInv, IInv, LocksProtect
    <3>3. wallet'[w].status = wallet[w].status
      BY <1>1, <1>5, <2>1 DEF Post, WalletRow
    <3> QED BY <3>2, <3>3
  <2>2. CASE w \notin request[r].lines
    BY <1>5, <2>2 DEF Post
  <2> QED BY <2>1, <2>2
<1>6. CASE UNCHANGED wallet
  BY <1>2, <1>6
<1>7. \A r \in Requests : Proceed(r) \/ Disconnect(r) => Post(r) \/ UNCHANGED wallet
  BY DEF Proceed, Disconnect, LockWallet, LockRefused, TakeReference, NumberingRefused,
         PostRefused, DeadlockVictim, Rollback
<1>8. CASE UNCHANGED vars
  BY <1>6, <1>8 DEF vars
<1>9. CASE Next
  BY <1>2, <1>3, <1>4, <1>5, <1>6, <1>7, <1>9 DEF Next, StartCreate, StartCancel
<1> QED BY <1>8, <1>9


\* A handler that posts, posts one movement on each of its wallets.
LEMMA PostRefines ==
  ASSUME IInv, NEW r \in Requests, Post(r), NEW w \in Wallets
  PROVE  Ledger!Kept(w) \/ Ledger!Posted(w)
<1> DEFINE q == request[r]
           id == Len(operations) + 1
<1>1. CASE w \in q.lines
  <2>1. holder[w] = r
    BY <1>1 DEF IInv, LocksProtect, Post, ToLock
  <2>2. q.seen[w] = wallet[w]
    BY <2>1 DEF IInv, LocksProtect
  <2>3. q.amount[w] \in Int /\ q.seen[w] \in WalletRow
    BY <2>2 DEF IInv, TypeOK, RequestState
  <2>4. CanApply(q.seen[w], q.amount[w])
    BY <1>1 DEF Post, Postable
  <2>5. q.seen[w].status = "active"
    BY <2>4 DEF CanApply
  <2>6. wallet'[w] = [wallet[w] EXCEPT !.balance = Applied(q.seen[w], q.amount[w])]
    BY <1>1 DEF Post
  <2>7. wallet'[w].balance = Applied(q.seen[w], q.amount[w]) /\ wallet'[w].status = "active"
    BY <2>2, <2>3, <2>5, <2>6 DEF WalletRow
  <2>8. journal'[w] = Append(journal[w], MovementOf(q.seen[w], q.amount[w], id))
    BY <1>1 DEF Post
  <2>9. id \in Nat
    BY DEF IInv, TypeOK
  <2> HIDE DEF q, id
  <2> QED BY <2>2, <2>3, <2>4, <2>5, <2>7, <2>8, <2>9, MovementPosts DEF IInv
<1>2. CASE w \notin q.lines
  BY <1>2 DEF Post, Ledger!Kept
<1> QED BY <1>1, <1>2

\* A wallet is created empty, or with its first movement.
LEMMA CreateWalletRefines ==
  ASSUME LedgerInv, NEW v \in Wallets, NEW n \in InitialBalances, CreateWallet(v, n),
         NEW w \in Wallets
  PROVE  Ledger!Kept(w) \/ Ledger!Posted(w)
<1> DEFINE fresh == [balance |-> 0, status |-> "active"]
<1>1. n \in Nat /\ fresh \in WalletRow
  BY RequestAssumption DEF WalletRow, Statuses
<1>2. CASE w # v
  BY <1>2 DEF CreateWallet, LedgerInv, IInv, TypeOK, Ledger!Kept
<1>3. CASE w = v
  <2>1. wallet[w].status = "absent" /\ wallet[w].balance = 0
    BY <1>3 DEF CreateWallet, LedgerInv, AbsentIsEmpty
  <2>2. CASE n > 0
    <3>1. /\ wallet' = [wallet EXCEPT ![w] =
                         [fresh EXCEPT !.balance = Applied(fresh, n)]]
          /\ journal' = [journal EXCEPT ![w] = Append(@, MovementOf(fresh, n, 0))]
      BY <1>3, <2>2 DEF CreateWallet
    <3>2. /\ wallet'[w].balance = Applied(fresh, n)
          /\ wallet'[w].status = "active"
          /\ journal'[w] = Append(journal[w], MovementOf(fresh, n, 0))
      BY <3>1 DEF LedgerInv, IInv, TypeOK
    <3>3. CanApply(fresh, n)
      BY <1>1, <2>2 DEF CanApply
    <3>4. fresh.balance = wallet[w].balance
      BY <2>1
    <3> HIDE DEF fresh
    <3> QED BY <1>1, <2>1, <3>2, <3>3, <3>4, MovementPosts DEF LedgerInv, IInv
  <2>3. CASE ~(n > 0)
    <3>1. wallet' = [wallet EXCEPT ![w] = fresh] /\ journal' = journal
      BY <1>3, <2>3 DEF CreateWallet
    <3>2. wallet'[w] = fresh
      BY <3>1 DEF LedgerInv, IInv, TypeOK
    <3> QED BY <2>1, <3>1, <3>2 DEF Ledger!Kept
  <2> QED BY <2>2, <2>3
<1> QED BY <1>2, <1>3

\* Every step of the requests is, on every wallet, a posting or nothing.
LEMMA StepRefines ==
  ASSUME LedgerInv, Next, NEW w \in Wallets
  PROVE  Ledger!Kept(w) \/ Ledger!Posted(w)
<1>1. CASE wallet'[w].balance = wallet[w].balance /\ journal' = journal
             /\ (wallet'[w].status = "absent" => wallet[w].status = "absent")
  BY <1>1 DEF Ledger!Kept
<1>2. CASE UNCHANGED <<wallet, journal>>
  BY <1>1, <1>2
<1>3. ASSUME NEW v \in Wallets, NEW n \in InitialBalances, CreateWallet(v, n)
      PROVE  Ledger!Kept(w) \/ Ledger!Posted(w)
  BY <1>3, CreateWalletRefines
<1>4. ASSUME NEW v \in Wallets, NEW s \in {"active", "inactive"}, SetWalletStatus(v, s)
      PROVE  Ledger!Kept(w) \/ Ledger!Posted(w)
  <2>1. wallet[w] \in WalletRow /\ wallet \in [Wallets -> WalletRow]
    BY DEF LedgerInv, IInv, TypeOK
  <2> QED BY <1>1, <1>4, <2>1 DEF SetWalletStatus, WalletRow
<1>5. \A r \in Requests : Proceed(r) \/ Disconnect(r) => Post(r) \/ UNCHANGED <<wallet, journal>>
  BY DEF Proceed, Disconnect, LockWallet, LockRefused, TakeReference, NumberingRefused,
         PostRefused, DeadlockVictim, Rollback
<1>6. \A r \in Requests : Post(r) => Ledger!Kept(w) \/ Ledger!Posted(w)
  BY PostRefines DEF LedgerInv
<1> QED BY <1>2, <1>3, <1>4, <1>5, <1>6 DEF Next, StartCreate, StartCancel

\* Concurrent creations and cancellations of national operations implement the
\* wallets' ledger: no update is lost and no wallet overdrawn.
THEOREM NationalOperationsImplementLedger == Spec => ImplementsLedger
<1>1. Init => LedgerInv /\ Ledger!Init
  BY InitTyped, InitLocks DEF LedgerInv, IInv, AbsentIsEmpty, Init, NoWallet, Ledger!Init
<1>2. LedgerInv /\ [Next]_vars => LedgerInv'
  BY IInvInductive, AbsentStaysEmpty DEF LedgerInv
<1>3. LedgerInv /\ LedgerInv' /\ [Next]_vars => [Ledger!Next]_Ledger!vars
  <2> SUFFICES ASSUME LedgerInv, LedgerInv', [Next]_vars
               PROVE  [Ledger!Next]_Ledger!vars
    OBVIOUS
  <2>1. CASE UNCHANGED vars
    BY <2>1 DEF vars, Ledger!vars
  <2>2. CASE Next
    <3>1. /\ [w \in Wallets |-> wallet'[w].balance] \in [Wallets -> Nat]
          /\ [w \in Wallets |-> wallet'[w].status] \in [Wallets -> Ledger!Statuses]
          /\ journal' \in [Wallets -> Seq(Ledger!Movement)]
      BY DEF LedgerInv, IInv, TypeOK, WalletRow, Statuses, Ledger!Statuses, Ledger!Movement
    <3> QED BY <2>2, <3>1, StepRefines DEF Ledger!Next
  <2> QED BY <2>1, <2>2
<1> QED BY <1>1, <1>2, <1>3, PTL DEF Spec, ImplementsLedger, Ledger!Spec
---------------------------------------------------------------------------
(* Deadlocks.                                                              *)

\* A finite set of wallets has a last one: the wallet with the fewest at or
\* above it.
LEMMA LastWallet ==
  ASSUME NEW W \in SUBSET Wallets, W # {}
  PROVE  \E w \in W : \A v \in W : v <= w
<1> DEFINE above(w) == {v \in W : v >= w}
           counts == {Cardinality(above(w)) : w \in W}
<1>1. IsFiniteSet(W) /\ W \subseteq Nat
  BY WalletAssumption, FS_Subset
<1>2. \A w \in W : IsFiniteSet(above(w)) /\ Cardinality(above(w)) \in Nat
  BY <1>1, FS_Subset, FS_CardinalityType
<1>3. counts \in SUBSET Nat /\ counts # {}
  BY <1>2
<1>4. PICK w \in W : \A v \in W : Cardinality(above(w)) <= Cardinality(above(v))
  <2>1. \E c \in counts : \A d \in counts : c <= d
    <3> HIDE DEF counts
    <3> QED BY <1>3, LeastNatural
  <2> HIDE DEF above
  <2> QED BY <2>1
<1>5. ASSUME NEW v \in W, v > w
      PROVE  FALSE
  <2>0. w \in W /\ w \in Nat /\ v \in Nat /\ v > w
    BY <1>1, <1>4, <1>5
  <2>1. above(v) \in SUBSET above(w) /\ w \in above(w) /\ w \notin above(v)
    <3>1. \A u \in above(v) : u \in above(w)
      BY <1>1, <2>0
    <3>2. w \in above(w) /\ w \notin above(v)
      BY <2>0
    <3> HIDE DEF above
    <3> QED BY <3>1, <3>2
  <2>2. IsFiniteSet(above(w)) /\ Cardinality(above(w)) \in Nat /\ Cardinality(above(v)) \in Nat
    BY <1>2, <1>4, <1>5
  <2> HIDE DEF above
  <2>3. Cardinality(above(v)) <= Cardinality(above(w)) /\ Cardinality(above(w)) # Cardinality(above(v))
    BY <2>1, <2>2, FS_Subset
  <2> QED BY <1>4, <1>5, <2>2, <2>3
<1>6. \A v \in W : v <= w
  BY <1>1, <1>5
<1> QED BY <1>6

\* Where every creation locks in ascending order, creations alone cannot wait
\* for each other in a circle: nobody of the circle holds the last wallet
\* awaited in it.
LEMMA AscendingNeverDeadlocks == IInv /\ CreationsAscend => CreationsNeverDeadlock
<1> SUFFICES ASSUME IInv, CreationsAscend, NEW D \in SUBSET Requests, Deadlocked(D),
                    \A r \in D : request[r].cancels = 0
             PROVE  FALSE
  BY DEF CreationsNeverDeadlock
<1> DEFINE W == {Awaits(r) : r \in D}
<1>1. ASSUME NEW r \in D, NEW s \in D, WaitsFor(r, s)
      PROVE  /\ Awaits(r) \in Wallets /\ holder[Awaits(r)] = s
             /\ Awaits(r) \in ToLock(r)
  <2>1. request[r].queue \in Seq(Wallets) /\ request[r].queue # <<>>
    BY <1>1 DEF IInv, TypeOK, RequestState, WaitsFor
  <2>2. request[r].queue[1] = Awaits(r) /\ 1 \in DOMAIN request[r].queue
    BY <2>1 DEF Awaits
  <2> QED BY <1>1, <2>1, <2>2 DEF WaitsFor, ToLock
<1>2. \A r \in D : \E s \in D : WaitsFor(r, s)
  BY DEF Deadlocked
<1>3. W \in SUBSET Wallets /\ W # {}
  BY <1>1, <1>2 DEF Deadlocked
<1>4. PICK last \in W : \A v \in W : v <= last
  BY <1>3, LastWallet
<1>5. PICK r \in D : last = Awaits(r)
  BY <1>4
<1>6. PICK s \in D : WaitsFor(r, s)
  BY <1>2
<1>7. PICK t \in D : WaitsFor(s, t)
  BY <1>2
<1>8. Awaits(r) < Awaits(s)
  BY <1>1, <1>6, <1>7 DEF CreationsAscend
<1>9. Awaits(s) <= Awaits(r) /\ Awaits(s) \in Nat /\ Awaits(r) \in Nat
  BY <1>3, <1>4, <1>5, WalletAssumption
<1> QED BY <1>8, <1>9
\* Starting a creation, in ascending order, or a cancellation keeps the discipline.
LEMMA StartKeepsOrder ==
  ASSUME LedgerInv, CreationsAscend, NEW r \in Requests, request[r].stage = "idle",
         NEW q, request' = [request EXCEPT ![r] = q], UNCHANGED holder,
         q.stage = "locking", q.cancels = 0 => Ascending(q.queue)
  PROVE  CreationsAscend'
<1>1. \A t \in Requests : request'[t] = IF t = r THEN q ELSE request[t]
  BY DEF LedgerInv, IInv, TypeOK
<1>2. \A t \in Requests : t # r => ToLock(t)' = ToLock(t)
  BY <1>1 DEF ToLock
<1>3. \A w \in Wallets : holder[w] # r
  BY DEF CreationsAscend
<1>4. ASSUME NEW t \in Requests
      PROVE  /\ request'[t].stage = "idle" => \A w \in Wallets : holder'[w] # t
             /\ request'[t].cancels = 0 =>
                  /\ Ascending(request'[t].queue)
                  /\ \A w \in Wallets : holder'[w] = t => \A v \in ToLock(t)' : w < v
  <2>1. CASE t = r
    BY <1>1, <1>3, <2>1
  <2>2. CASE t # r
    BY <1>1, <1>2, <2>2 DEF CreationsAscend
  <2> QED BY <2>1, <2>2
<1> QED BY <1>4 DEF CreationsAscend, Ascending

LEMMA IdleAscends == Idle.stage = "idle" /\ Idle.queue = <<>>
<1> DEFINE company == CHOOSE c \in Companies : TRUE
<1> HIDE DEF company
<1> QED BY DEF Idle

\* The end of a transaction frees all it held.
LEMMA ReleaseKeepsOrder ==
  ASSUME LedgerInv, CreationsAscend, NEW r \in Requests, Release(r)
  PROVE  CreationsAscend'
<1>1. \A t \in Requests : request'[t] = IF t = r THEN Idle ELSE request[t]
  BY DEF Release, LedgerInv, IInv, TypeOK
<1>2. \A w \in Wallets : holder'[w] = IF holder[w] = r THEN NoRequest ELSE holder[w]
  BY DEF Release
<1>3. \A t \in Requests : t # r => ToLock(t)' = ToLock(t)
  BY <1>1 DEF ToLock
<1>4. \A w \in Wallets : holder'[w] # r
  BY <1>2, RequestAssumption
<1>5. ASSUME NEW t \in Requests
      PROVE  /\ request'[t].stage = "idle" => \A w \in Wallets : holder'[w] # t
             /\ request'[t].cancels = 0 =>
                  /\ Ascending(request'[t].queue)
                  /\ \A w \in Wallets : holder'[w] = t => \A v \in ToLock(t)' : w < v
  <2>1. CASE t = r
    BY <1>1, <1>4, <2>1, IdleAscends DEF Ascending
  <2>2. CASE t # r
    BY <1>1, <1>2, <1>3, <2>2, RequestAssumption DEF CreationsAscend
  <2> QED BY <2>1, <2>2
<1> QED BY <1>5 DEF CreationsAscend, Ascending

\* A creation that locks the first of its remaining wallets locks the least.
LEMMA LockWalletKeepsOrder ==
  ASSUME LedgerInv, CreationsAscend, NEW r \in Requests, LockWallet(r)
  PROVE  CreationsAscend'
<1> DEFINE w == Awaits(r)
           queue == request[r].queue
<1>1. request[r] \in RequestState /\ queue \in Seq(Wallets) /\ queue # <<>>
  BY DEF LedgerInv, IInv, TypeOK, RequestState, LockWallet
<1>2. /\ \A v \in Wallets : holder'[v] = IF v = w THEN r ELSE holder[v]
      /\ request' = [request EXCEPT ![r] =
                       [request[r] EXCEPT !.queue = Tail(queue), !.seen[w] = wallet[w]]]
  BY DEF LockWallet, LedgerInv, IInv, TypeOK
<1>3. /\ request'[r].queue = Tail(queue)
      /\ request'[r].stage = "locking"
      /\ request'[r].cancels = request[r].cancels
      /\ \A t \in Requests : t # r => request'[t] = request[t]
  BY <1>1, <1>2 DEF LockWallet, LedgerInv, IInv, TypeOK, RequestState
<1>4. \A t \in Requests : t # r => ToLock(t)' = ToLock(t)
  BY <1>3 DEF ToLock
<1>5. /\ Len(queue) \in Nat /\ DOMAIN queue = 1 .. Len(queue)
      /\ DOMAIN Tail(queue) = 1 .. Len(queue) - 1
      /\ \A i \in 1 .. Len(queue) - 1 : Tail(queue)[i] = queue[i + 1]
      /\ queue[1] = w /\ 1 \in DOMAIN queue
  <2> HIDE DEF queue
  <2>1. w = Head(queue)
    BY DEF Awaits, queue
  <2> QED BY <1>1, <2>1
<1>6. ASSUME request[r].cancels = 0
      PROVE  /\ Ascending(Tail(queue))
             /\ \A v \in ToLock(r)' : v \in ToLock(r) /\ w < v
  <2>1. Ascending(queue)
    BY <1>6 DEF CreationsAscend
  <2>2. ToLock(r)' = {Tail(queue)[i] : i \in DOMAIN Tail(queue)}
    BY <1>3 DEF ToLock
  <2>3. ToLock(r) = {queue[i] : i \in DOMAIN queue}
    BY DEF ToLock
  <2> HIDE DEF queue, w
  <2>4. Ascending(Tail(queue))
    BY <1>5, <2>1 DEF Ascending
  <2>5. \A i \in 1 .. Len(queue) - 1 : i + 1 \in DOMAIN queue /\ w < queue[i + 1]
    BY <1>5, <2>1 DEF Ascending
  <2> QED BY <1>5, <2>2, <2>3, <2>4, <2>5
<1>7. ASSUME NEW t \in Requests
      PROVE  /\ request'[t].stage = "idle" => \A v \in Wallets : holder'[v] # t
             /\ request'[t].cancels = 0 =>
                  /\ Ascending(request'[t].queue)
                  /\ \A v \in Wallets : holder'[v] = t => \A u \in ToLock(t)' : v < u
  <2> HIDE DEF queue, w
  <2>1. CASE t = r
    BY <1>2, <1>3, <1>6, <2>1 DEF CreationsAscend
  <2>2. CASE t # r
    BY <1>2, <1>3, <1>4, <2>2 DEF CreationsAscend
  <2> QED BY <2>1, <2>2
<1> QED BY <1>7 DEF CreationsAscend, Ascending
LEMMA OrderInductive == LedgerInv /\ CreationsAscend /\ [Next]_vars => CreationsAscend'
<1> SUFFICES ASSUME LedgerInv, CreationsAscend, [Next]_vars PROVE CreationsAscend'
  OBVIOUS
<1>1. ASSUME NEW r \in Requests, NEW c \in Companies, NEW p \in Payloads, StartCreate(r, c, p)
      PROVE  CreationsAscend'
  <2>1. PICK s \in LockOrders(p.lines) :
          /\ Ascending(s)
          /\ request' = [request EXCEPT ![r] =
                           [@ EXCEPT !.stage = "locking", !.company = c,
                                     !.lines = p.lines, !.amount = p.amount,
                                     !.currency = p.currency, !.queue = s]]
    BY <1>1 DEF StartCreate
  <2> DEFINE q == [request[r] EXCEPT !.stage = "locking", !.company = c,
                                     !.lines = p.lines, !.amount = p.amount,
                                     !.currency = p.currency, !.queue = s]
  <2>2. request[r] \in RequestState
    BY DEF LedgerInv, IInv, TypeOK
  <2>3. q.stage = "locking" /\ Ascending(q.queue)
    BY <2>1, <2>2 DEF RequestState
  <2>4. request' = [request EXCEPT ![r] = q]
    BY <2>1 DEF LedgerInv, IInv, TypeOK
  <2> HIDE DEF q
  <2> QED BY <1>1, <2>3, <2>4, StartKeepsOrder DEF StartCreate
<1>2. ASSUME NEW r \in Requests, NEW o \in DOMAIN operations, StartCancel(r, o)
      PROVE  CreationsAscend'
  <2> DEFINE op == operations[o]
  <2>1. PICK s \in LockOrders(op.lines) :
          request' = [request EXCEPT ![r] =
                        [@ EXCEPT !.stage = "locking", !.company = op.company,
                                  !.lines = op.lines, !.amount = Mirrored(op.amount),
                                  !.cancels = o, !.queue = s]]
    BY <1>2 DEF StartCancel
  <2> DEFINE q == [request[r] EXCEPT !.stage = "locking", !.company = op.company,
                                     !.lines = op.lines, !.amount = Mirrored(op.amount),
                                     !.cancels = o, !.queue = s]
  <2>2. request[r] \in RequestState /\ o # 0
    BY DEF LedgerInv, IInv, TypeOK
  <2>3. q.stage = "locking" /\ q.cancels # 0
    BY <2>2 DEF RequestState
  <2>4. request' = [request EXCEPT ![r] = q]
    BY <2>1 DEF LedgerInv, IInv, TypeOK
  <2> HIDE DEF q, op
  <2> QED BY <1>2, <2>3, <2>4, StartKeepsOrder DEF StartCancel
<1>3. ASSUME NEW r \in Requests, TakeReference(r)
      PROVE  CreationsAscend'
  <2>1. PICK n : request' = [request EXCEPT ![r] =
                               [@ EXCEPT !.stage = "posting", !.reference = n]]
    BY <1>3 DEF TakeReference
  <2>2. /\ request'[r].queue = request[r].queue
        /\ request'[r].cancels = request[r].cancels
        /\ request'[r].stage = "posting"
        /\ \A t \in Requests : t # r => request'[t] = request[t]
    BY <2>1 DEF LedgerInv, IInv, TypeOK, RequestState
  <2>3. \A t \in Requests : ToLock(t)' = ToLock(t)
    BY <2>2 DEF ToLock
  <2>4. holder' = holder
    BY <1>3 DEF TakeReference
  <2>5. ASSUME NEW t \in Requests
        PROVE  /\ request'[t].stage = "idle" => \A w \in Wallets : holder'[w] # t
               /\ request'[t].cancels = 0 =>
                    /\ Ascending(request'[t].queue)
                    /\ \A w \in Wallets : holder'[w] = t => \A v \in ToLock(t)' : w < v
    <3>1. CASE t = r
      BY <2>2, <2>3, <2>4, <3>1 DEF CreationsAscend
    <3>2. CASE t # r
      BY <2>2, <2>3, <2>4, <3>2 DEF CreationsAscend
    <3> QED BY <3>1, <3>2
  <2> QED BY <2>5 DEF CreationsAscend, Ascending
<1>4. ASSUME UNCHANGED <<holder, request>>
      PROVE  CreationsAscend'
  BY <1>4 DEF CreationsAscend, Ascending, ToLock
<1>5. \A r \in Requests : Proceed(r) \/ Disconnect(r)
        => LockWallet(r) \/ TakeReference(r) \/ Release(r)
  BY DEF Proceed, Disconnect, LockRefused, NumberingRefused, Post, PostRefused,
         DeadlockVictim, Rollback
<1>6. CASE UNCHANGED vars
  BY <1>4, <1>6 DEF vars
<1>7. CASE Next
  BY <1>1, <1>2, <1>3, <1>4, <1>5, <1>7, LockWalletKeepsOrder, ReleaseKeepsOrder
     DEF Next, CreateWallet, SetWalletStatus
<1> QED BY <1>6, <1>7

\* create_operation sorts its wallets before it locks them, and that is enough:
\* in any circle of waits, whatever the number of requests, there is a
\* cancellation.
THEOREM SortedLocksNeverDeadlock == Spec => []CreationsNeverDeadlock
<1>1. Init => LedgerInv /\ CreationsAscend
  <2>1. Init => LedgerInv
    BY InitTyped, InitLocks DEF LedgerInv, IInv, AbsentIsEmpty, Init, NoWallet
  <2>2. Init => CreationsAscend
    BY IdleAscends, RequestAssumption DEF Init, CreationsAscend, Ascending
  <2> QED BY <2>1, <2>2
<1>2. LedgerInv /\ [Next]_vars => LedgerInv'
  BY IInvInductive, AbsentStaysEmpty DEF LedgerInv
<1>3. LedgerInv /\ CreationsAscend => CreationsNeverDeadlock
  BY AscendingNeverDeadlocks DEF LedgerInv
<1> QED BY <1>1, <1>2, <1>3, OrderInductive, PTL DEF Spec
---------------------------------------------------------------------------
(* The companies.                                                          *)

\* A step that ends r's transaction, whatever it wrote, keeps the other requests'.
LEMMA ReleaseStaysAtHome ==
  ASSUME TypeOK, LocksStayAtHome, NEW r \in Requests, Release(r)
  PROVE  LocksStayAtHome'
<1>1. \A t \in Requests : request'[t] = IF t = r THEN Idle ELSE request[t]
  BY DEF Release, TypeOK
<1>2. \A w \in Wallets : holder'[w] = IF holder[w] = r THEN NoRequest ELSE holder[w]
  BY DEF Release
<1>3. Idle.cancels = 0
  <2> DEFINE company == CHOOSE c \in Companies : TRUE
  <2> HIDE DEF company
  <2> QED BY DEF Idle
<1>4. ASSUME NEW t \in Requests
      PROVE  /\ request'[t].stage = "idle" =>
                  request'[t].cancels = 0 /\ \A w \in Wallets : holder'[w] # t
             /\ request'[t].cancels = 0 =>
                  \A w \in Wallets : holder'[w] = t => Owner[w] = request'[t].company
             /\ request'[t].cancels # 0 =>
                  \A w \in request'[t].lines : Owner[w] = request'[t].company
  <2>1. CASE t = r
    <3>1. \A w \in Wallets : holder'[w] # t
      BY <1>2, <2>1, RequestAssumption
    <3>2. request'[t].cancels = 0
      BY <1>1, <1>3, <2>1
    <3> QED BY <3>1, <3>2
  <2>2. CASE t # r
    <3>1. request'[t] = request[t]
      BY <1>1, <2>2
    <3>2. \A w \in Wallets : holder'[w] = t => holder[w] = t
      BY <1>2, <2>2, RequestAssumption
    <3>3. \A w \in Wallets : holder[w] = t /\ holder'[w] # t => FALSE
      BY <1>2, <2>2
    <3> QED BY <3>1, <3>2, <3>3 DEF LocksStayAtHome
  <2> QED BY <2>1, <2>2
<1> QED BY <1>4 DEF LocksStayAtHome

\* A step of r alone that takes no lock.
LEMMA StepStaysAtHome ==
  ASSUME TypeOK, LocksStayAtHome, NEW r \in Requests, holder' = holder,
         NEW q, request' = [request EXCEPT ![r] = q], q.stage # "idle",
         q.cancels = 0 => \A w \in Wallets : holder[w] = r => Owner[w] = q.company,
         q.cancels # 0 => \A w \in q.lines : Owner[w] = q.company
  PROVE  LocksStayAtHome'
<1>1. \A t \in Requests : request'[t] = IF t = r THEN q ELSE request[t]
  BY DEF TypeOK
<1> QED BY <1>1 DEF LocksStayAtHome

LEMMA StartCreateStaysAtHome ==
  ASSUME TypeOK, LocksStayAtHome, NEW r \in Requests, NEW c \in Companies,
         NEW p \in Payloads, StartCreate(r, c, p)
  PROVE  LocksStayAtHome'
<1>1. PICK s \in LockOrders(p.lines) :
        request' = [request EXCEPT ![r] =
                      [@ EXCEPT !.stage = "locking", !.company = c,
                                !.lines = p.lines, !.amount = p.amount,
                                !.currency = p.currency, !.queue = s]]
  BY DEF StartCreate
<1> DEFINE q == [request[r] EXCEPT !.stage = "locking", !.company = c,
                                   !.lines = p.lines, !.amount = p.amount,
                                   !.currency = p.currency, !.queue = s]
<1>2. request[r] \in RequestState
  BY DEF TypeOK
<1>3. q.stage = "locking" /\ q.cancels = request[r].cancels
  BY <1>2 DEF RequestState
<1>4. request[r].cancels = 0 /\ \A w \in Wallets : holder[w] # r
  BY DEF StartCreate, LocksStayAtHome
<1>5. request' = [request EXCEPT ![r] = q] /\ holder' = holder
  BY <1>1 DEF TypeOK, StartCreate
<1> HIDE DEF q
<1> QED BY <1>3, <1>4, <1>5, StepStaysAtHome

LEMMA StartCancelStaysAtHome ==
  ASSUME TypeOK, LocksStayAtHome, CompaniesAreIsolated, NEW r \in Requests,
         NEW o \in DOMAIN operations, StartCancel(r, o)
  PROVE  LocksStayAtHome'
<1> DEFINE op == operations[o]
<1>1. PICK s \in LockOrders(op.lines) :
        request' = [request EXCEPT ![r] =
                      [@ EXCEPT !.stage = "locking", !.company = op.company,
                                !.lines = op.lines, !.amount = Mirrored(op.amount),
                                !.cancels = o, !.queue = s]]
  BY DEF StartCancel
<1> DEFINE q == [request[r] EXCEPT !.stage = "locking", !.company = op.company,
                                   !.lines = op.lines, !.amount = Mirrored(op.amount),
                                   !.cancels = o, !.queue = s]
<1>2. request[r] \in RequestState
  BY DEF TypeOK
<1>3. q.stage = "locking" /\ q.lines = op.lines /\ q.company = op.company /\ q.cancels = o
  BY <1>2 DEF RequestState
<1>4. \A w \in op.lines : Owner[w] = op.company
  BY DEF CompaniesAreIsolated
<1>5. request' = [request EXCEPT ![r] = q] /\ holder' = holder
  BY <1>1 DEF TypeOK, StartCancel
<1>6. o # 0
  <2>1. operations \in Seq(Operation)
    BY DEF TypeOK
  <2>2. DOMAIN operations = 1 .. Len(operations) /\ Len(operations) \in Nat
    BY <2>1
  <2> QED BY <2>2
<1> HIDE DEF q, op
<1> QED BY <1>3, <1>4, <1>5, <1>6, StepStaysAtHome

LEMMA LockWalletStaysAtHome ==
  ASSUME TypeOK, LocksStayAtHome, NEW r \in Requests, LockWallet(r)
  PROVE  LocksStayAtHome'
<1> DEFINE w == Awaits(r)
           queue == request[r].queue
<1>1. request[r] \in RequestState
  BY DEF TypeOK
<1>2. /\ Usable(r, w)
      /\ holder' = [holder EXCEPT ![w] = r]
      /\ request' = [request EXCEPT ![r] =
                       [request[r] EXCEPT !.queue = Tail(queue), !.seen[w] = wallet[w]]]
  BY DEF LockWallet, TypeOK
<1>3. /\ request'[r].stage = "locking"
      /\ request'[r].lines = request[r].lines
      /\ request'[r].company = request[r].company
      /\ request'[r].cancels = request[r].cancels
  BY <1>1, <1>2 DEF LockWallet, TypeOK, RequestState
<1>4. \A t \in Requests : t # r => request'[t] = request[t]
  BY <1>2 DEF TypeOK
<1>5. \A v \in Wallets : holder'[v] = IF v = w THEN r ELSE holder[v]
  BY <1>2 DEF TypeOK
<1>6. request[r].cancels # 0 \/ Owner[w] = request[r].company
  BY <1>2 DEF Usable
<1> HIDE DEF w
<1>7. ASSUME NEW t \in Requests
      PROVE  /\ request'[t].stage = "idle" =>
                  request'[t].cancels = 0 /\ \A v \in Wallets : holder'[v] # t
             /\ request'[t].cancels = 0 =>
                  \A v \in Wallets : holder'[v] = t => Owner[v] = request'[t].company
             /\ request'[t].cancels # 0 =>
                  \A v \in request'[t].lines : Owner[v] = request'[t].company
  <2>1. CASE t = r
    BY <1>3, <1>5, <1>6, <2>1 DEF LocksStayAtHome
  <2>2. CASE t # r
    BY <1>4, <1>5, <2>2 DEF LocksStayAtHome
  <2> QED BY <2>1, <2>2
<1> QED BY <1>7 DEF LocksStayAtHome

\* The lines of what r inserts are wallets of r's company: it holds every one.
LEMMA PostKeepsCompanies ==
  ASSUME IInv, LocksStayAtHome, CompaniesAreIsolated, NEW r \in Requests, Post(r)
  PROVE  CompaniesAreIsolated'
<1> DEFINE q == request[r]
           marked == [o \in DOMAIN operations |->
                        IF o = q.cancels
                        THEN [operations[o] EXCEPT !.status = "cancelled"]
                        ELSE operations[o]]
           new == [company |-> q.company, lines |-> q.lines,
                   amount |-> [w \in Wallets |-> Quantize(q.amount[w])],
                   status |-> "validated", reversalOf |-> q.cancels,
                   reference |-> q.reference]
<1>1. q.lines \subseteq Wallets
  BY DEF IInv, TypeOK, RequestState
<1>2. \A w \in q.lines : Owner[w] = q.company
  <2>1. q.queue = <<>> /\ ToLock(r) = {}
    BY DEF IInv, LocksProtect, Post, ToLock
  <2>2. \A w \in q.lines : holder[w] = r
    BY <2>1 DEF IInv, LocksProtect
  <2> QED BY <1>1, <2>2 DEF LocksStayAtHome
<1>3. operations \in Seq(Operation)
  BY DEF IInv, TypeOK
<1>4. DOMAIN operations = 1 .. Len(operations) /\ Len(operations) \in Nat
  BY <1>3
<1>5. \A o \in DOMAIN operations : operations[o] \in Operation
  BY <1>3
<1>6. \A o \in DOMAIN operations : /\ marked[o].lines = operations[o].lines
                                    /\ marked[o].company = operations[o].company
  BY <1>5 DEF Operation
<1>7. operations' = Append(marked, new)
  BY DEF Post, WithOperation
<1>8. new.lines = q.lines /\ new.company = q.company
  OBVIOUS
<1>9. /\ DOMAIN operations' = 1 .. Len(operations) + 1
      /\ \A o \in DOMAIN operations : operations'[o] = marked[o]
      /\ operations'[Len(operations) + 1] = new
  <2>1. marked \in Seq({marked[o] : o \in DOMAIN operations}) /\ Len(marked) = Len(operations)
    BY <1>4
  <2> HIDE DEF marked, new
  <2>2. DOMAIN marked = DOMAIN operations
    BY DEF marked
  <2> QED BY <1>4, <1>7, <2>1, <2>2
<1> HIDE DEF marked, new, q
<1>10. ASSUME NEW o \in DOMAIN operations', NEW w \in operations'[o].lines
       PROVE  Owner[w] = operations'[o].company
  <2>1. CASE o = Len(operations) + 1
    BY <1>2, <1>8, <1>9, <2>1
  <2>2. CASE o # Len(operations) + 1
    <3>1. o \in DOMAIN operations
      BY <1>4, <1>9, <2>2
    <3> QED BY <1>6, <1>9, <3>1 DEF CompaniesAreIsolated
  <2> QED BY <2>1, <2>2
<1> QED BY <1>10 DEF CompaniesAreIsolated

\* The invariant behind the isolation of companies.
IsolationInv == IInv /\ LocksStayAtHome /\ CompaniesAreIsolated

LEMMA IsolationInductive == IsolationInv /\ [Next]_vars => IsolationInv'
<1> SUFFICES ASSUME IsolationInv, [Next]_vars
             PROVE  LocksStayAtHome' /\ CompaniesAreIsolated'
  BY IInvInductive DEF IsolationInv
<1> USE DEF IsolationInv
<1>1. ASSUME NEW r \in Requests, Rollback(r)
      PROVE  LocksStayAtHome' /\ CompaniesAreIsolated'
  BY <1>1, ReleaseStaysAtHome DEF Rollback, IInv, CompaniesAreIsolated
<1>2. ASSUME NEW r \in Requests, Post(r)
      PROVE  LocksStayAtHome' /\ CompaniesAreIsolated'
  <2>1. Release(r)
    BY <1>2 DEF Post
  <2> QED BY <1>2, <2>1, ReleaseStaysAtHome, PostKeepsCompanies DEF IInv
<1>3. ASSUME NEW r \in Requests, LockWallet(r)
      PROVE  LocksStayAtHome' /\ CompaniesAreIsolated'
  <2>1. operations' = operations
    BY <1>3 DEF LockWallet
  <2> QED BY <1>3, <2>1, LockWalletStaysAtHome DEF IInv, CompaniesAreIsolated
<1>4. ASSUME NEW r \in Requests, TakeReference(r)
      PROVE  LocksStayAtHome' /\ CompaniesAreIsolated'
  <2>1. PICK n : request' = [request EXCEPT ![r] =
                               [request[r] EXCEPT !.stage = "posting", !.reference = n]]
    BY <1>4 DEF TakeReference, IInv, TypeOK
  <2> DEFINE q == [request[r] EXCEPT !.stage = "posting", !.reference = n]
  <2>2. request[r] \in RequestState
    BY DEF IInv, TypeOK
  <2>3. /\ q.stage = "posting" /\ q.lines = request[r].lines
        /\ q.company = request[r].company /\ q.cancels = request[r].cancels
    BY <2>2 DEF RequestState
  <2>4. request' = [request EXCEPT ![r] = q] /\ holder' = holder /\ operations' = operations
    BY <1>4, <2>1 DEF TakeReference
  <2> HIDE DEF q
  <2>5. LocksStayAtHome'
    <3>1. q.cancels = 0 => \A w \in Wallets : holder[w] = r => Owner[w] = q.company
      BY <2>3 DEF LocksStayAtHome
    <3>2. q.cancels # 0 => \A w \in q.lines : Owner[w] = q.company
      BY <2>3 DEF LocksStayAtHome
    <3> QED BY <2>3, <2>4, <3>1, <3>2, StepStaysAtHome DEF IInv
  <2> QED BY <2>4, <2>5 DEF CompaniesAreIsolated
<1>5. CASE \E r \in Requests, c \in Companies, p \in Payloads : StartCreate(r, c, p)
  <2>1. PICK r \in Requests, c \in Companies, p \in Payloads : StartCreate(r, c, p)
    BY <1>5
  <2>2. operations' = operations
    BY <2>1 DEF StartCreate
  <2> QED BY <2>1, <2>2, StartCreateStaysAtHome DEF IInv, CompaniesAreIsolated
<1>6. CASE \E r \in Requests, o \in DOMAIN operations : StartCancel(r, o)
  <2>1. PICK r \in Requests, o \in DOMAIN operations : StartCancel(r, o)
    BY <1>6
  <2>2. operations' = operations
    BY <2>1 DEF StartCancel
  <2> QED BY <2>1, <2>2, StartCancelStaysAtHome DEF IInv, CompaniesAreIsolated
<1>7. CASE \/ \E w \in Wallets, n \in InitialBalances : CreateWallet(w, n)
           \/ \E w \in Wallets, s \in {"active", "inactive"} : SetWalletStatus(w, s)
           \/ UNCHANGED vars
  <2>1. UNCHANGED <<operations, holder, request>>
    BY <1>7 DEF CreateWallet, SetWalletStatus, vars
  <2> QED BY <2>1 DEF LocksStayAtHome, CompaniesAreIsolated
<1>8. CASE \E r \in Requests : Proceed(r) \/ Disconnect(r)
  <2>1. PICK r \in Requests : Proceed(r) \/ Disconnect(r)
    BY <1>8
  <2>2. LockRefused(r) \/ NumberingRefused(r) \/ PostRefused(r) \/ DeadlockVictim(r)
          \/ Disconnect(r) => Rollback(r)
    BY DEF LockRefused, NumberingRefused, PostRefused, DeadlockVictim, Disconnect
  <2> QED BY <1>1, <1>2, <1>3, <1>4, <2>1, <2>2 DEF Proceed
<1> QED BY <1>5, <1>6, <1>7, <1>8 DEF Next

LEMMA InitIsolated == Init => IsolationInv
<1>1. Init => LocksStayAtHome
  <2> SUFFICES ASSUME Init, NEW r \in Requests
               PROVE  request[r].cancels = 0 /\ \A w \in Wallets : holder[w] # r
    BY DEF LocksStayAtHome
  <2> DEFINE company == CHOOSE c \in Companies : TRUE
  <2>1. request[r] = Idle
    BY DEF Init
  <2>2. Idle.cancels = 0
    <3> HIDE DEF company
    <3> QED BY DEF Idle
  <2> QED BY <2>1, <2>2, RequestAssumption DEF Init
<1>2. Init => CompaniesAreIsolated
  BY DEF Init, CompaniesAreIsolated
<1> QED BY <1>1, <1>2, InitTyped, InitLocks DEF IsolationInv, IInv

\* No operation, and no reversal of one, ever moves a wallet of another company,
\* for any number of companies, wallets and requests.
THEOREM CompaniesStayIsolated == Spec => []CompaniesAreIsolated
<1>1. IsolationInv => CompaniesAreIsolated
  BY DEF IsolationInv
<1> QED BY <1>1, InitIsolated, IsolationInductive, PTL DEF Spec
---------------------------------------------------------------------------
(* What a commit inserts.                                                  *)

\* Nothing of operation o but its status changes.
SameOperation(o) ==
  /\ operations'[o].company = operations[o].company
  /\ operations'[o].lines = operations[o].lines
  /\ operations'[o].amount = operations[o].amount
  /\ operations'[o].reversalOf = operations[o].reversalOf
  /\ operations'[o].reference = operations[o].reference

\* id is the next operation, and it is made of what the request q knows.
Inserted(id, q) ==
  /\ id \in Nat \ {0} /\ id = Len(operations) + 1
  /\ id \notin DOMAIN operations
  /\ DOMAIN operations' = DOMAIN operations \cup {id}
  /\ \A o \in DOMAIN operations : SameOperation(o)
  /\ operations'[id].company = q.company
  /\ operations'[id].lines = q.lines
  /\ \A w \in Wallets : operations'[id].amount[w] = Quantize(q.amount[w])
  /\ operations'[id].reversalOf = q.cancels
  /\ operations'[id].reference = q.reference

\* The movements of the request q are appended as those of operation id.
Journalled(id, q) ==
  \A w \in Wallets :
    journal'[w] = IF w \in q.lines
                  THEN Append(journal[w], MovementOf(q.seen[w], q.amount[w], id))
                  ELSE journal[w]

LEMMA OperationInserted ==
  ASSUME TypeOK, NEW r \in Requests, Post(r)
  PROVE  \E id \in Nat : Inserted(id, request[r]) /\ Journalled(id, request[r])
<1> DEFINE q == request[r]
           marked == [o \in DOMAIN operations |->
                        IF o = q.cancels
                        THEN [operations[o] EXCEPT !.status = "cancelled"]
                        ELSE operations[o]]
           new == [company |-> q.company, lines |-> q.lines,
                   amount |-> [w \in Wallets |-> Quantize(q.amount[w])],
                   status |-> "validated", reversalOf |-> q.cancels,
                   reference |-> q.reference]
<1>1. operations \in Seq(Operation)
  BY DEF TypeOK
<1>2. /\ DOMAIN operations = 1 .. Len(operations) /\ Len(operations) \in Nat
      /\ \A o \in DOMAIN operations : operations[o] \in Operation
  BY <1>1
<1>3. \A o \in DOMAIN operations : /\ marked[o].company = operations[o].company
                                   /\ marked[o].lines = operations[o].lines
                                   /\ marked[o].amount = operations[o].amount
                                   /\ marked[o].reversalOf = operations[o].reversalOf
                                   /\ marked[o].reference = operations[o].reference
  BY <1>2 DEF Operation
<1>4. operations' = Append(marked, new)
  BY DEF Post, WithOperation
<1>5. /\ DOMAIN operations' = 1 .. Len(operations) + 1
      /\ \A o \in DOMAIN operations : operations'[o] = marked[o]
      /\ operations'[Len(operations) + 1] = new
  <2>1. marked \in Seq({marked[o] : o \in DOMAIN operations}) /\ Len(marked) = Len(operations)
    BY <1>2
  <2> HIDE DEF marked, new
  <2>2. DOMAIN marked = DOMAIN operations
    BY DEF marked
  <2> QED BY <1>2, <1>4, <2>1, <2>2
<1>6. /\ new.company = q.company /\ new.lines = q.lines
      /\ \A w \in Wallets : new.amount[w] = Quantize(q.amount[w])
      /\ new.reversalOf = q.cancels /\ new.reference = q.reference
  OBVIOUS
<1>7. PICK id \in Nat : id = Len(operations) + 1
  BY <1>2
<1>8. Journalled(id, q)
  BY <1>7 DEF Post, Journalled
<1> HIDE DEF marked, new, q
<1>9. \A o \in DOMAIN operations : SameOperation(o)
  BY <1>3, <1>5 DEF SameOperation
<1>10. /\ id \in Nat \ {0} /\ id \notin DOMAIN operations
       /\ DOMAIN operations' = DOMAIN operations \cup {id}
  BY <1>2, <1>5, <1>7
<1>11. operations'[id] = new
  BY <1>5, <1>7
<1>12. Inserted(id, q)
  BY <1>6, <1>7, <1>9, <1>10, <1>11 DEF Inserted
<1> QED BY <1>8, <1>12 DEF q

\* r alone moves on, and now knows q.
Becomes(r, q) == \A t \in Requests : request'[t] = IF t = r THEN q ELSE request[t]

LEMMA RequestsReleased ==
  ASSUME TypeOK, NEW r \in Requests, Release(r)
  PROVE  Becomes(r, Idle)
BY DEF TypeOK, Release, Becomes

LEMMA IdleKnowsNothing == Idle.stage = "idle" /\ Idle.cancels = 0 /\ Idle.lines = {}
<1> DEFINE company == CHOOSE c \in Companies : TRUE
<1> HIDE DEF company
<1> QED BY DEF Idle

LEMMA CreationStarted ==
  ASSUME TypeOK, NEW r \in Requests, NEW c \in Companies, NEW p \in Payloads,
         StartCreate(r, c, p)
  PROVE  /\ \E q \in RequestState :
              /\ Becomes(r, q)
              /\ q.stage = "locking" /\ q.cancels = request[r].cancels
              /\ q.lines = p.lines /\ q.amount = p.amount /\ q.currency = p.currency
         /\ request[r].stage = "idle" /\ UNCHANGED <<wallet, journal, operations, holder>>
<1>1. PICK s \in LockOrders(p.lines) :
        request' = [request EXCEPT ![r] =
                      [@ EXCEPT !.stage = "locking", !.company = c,
                                !.lines = p.lines, !.amount = p.amount,
                                !.currency = p.currency, !.queue = s]]
  BY DEF StartCreate
<1>2. PICK q : q = [request[r] EXCEPT !.stage = "locking", !.company = c,
                                      !.lines = p.lines, !.amount = p.amount,
                                      !.currency = p.currency, !.queue = s]
  OBVIOUS
<1>3. /\ q.stage = "locking" /\ q.cancels = request[r].cancels
      /\ q.lines = p.lines /\ q.amount = p.amount /\ q.currency = p.currency
  BY <1>2 DEF TypeOK, RequestState
<1>4. Becomes(r, q)
  BY <1>1, <1>2 DEF TypeOK, Becomes
<1>5. q \in RequestState
  <2>1. request' \in [Requests -> RequestState]
    BY StartTyped DEF TypeOK
  <2> QED BY <1>4, <2>1 DEF Becomes
<1> QED BY <1>3, <1>4, <1>5 DEF StartCreate

LEMMA CancellationStarted ==
  ASSUME TypeOK, NEW r \in Requests, NEW o \in DOMAIN operations, StartCancel(r, o)
  PROVE  /\ \E q \in RequestState :
              /\ Becomes(r, q)
              /\ q.stage = "locking" /\ q.cancels = o
              /\ q.lines = operations[o].lines /\ q.amount = Mirrored(operations[o].amount)
         /\ UNCHANGED <<wallet, journal, operations, holder>>
<1>1. PICK s \in LockOrders(operations[o].lines) :
        request' = [request EXCEPT ![r] =
                      [@ EXCEPT !.stage = "locking", !.company = operations[o].company,
                                !.lines = operations[o].lines,
                                !.amount = Mirrored(operations[o].amount),
                                !.cancels = o, !.queue = s]]
  BY DEF StartCancel
<1>2. PICK q : q = [request[r] EXCEPT !.stage = "locking", !.company = operations[o].company,
                                      !.lines = operations[o].lines,
                                      !.amount = Mirrored(operations[o].amount),
                                      !.cancels = o, !.queue = s]
  OBVIOUS
<1>3. /\ q.stage = "locking" /\ q.cancels = o
      /\ q.lines = operations[o].lines /\ q.amount = Mirrored(operations[o].amount)
  BY <1>2 DEF TypeOK, RequestState
<1>4. Becomes(r, q)
  BY <1>1, <1>2 DEF TypeOK, Becomes
<1>5. q \in RequestState
  <2>1. request' \in [Requests -> RequestState]
    BY StartTyped DEF TypeOK
  <2> QED BY <1>4, <2>1 DEF Becomes
<1> QED BY <1>3, <1>4, <1>5 DEF StartCancel

\* Locking a row and taking a number leave what the request will write alone.
LEMMA RequestAdvanced ==
  ASSUME TypeOK, NEW r \in Requests, LockWallet(r) \/ TakeReference(r)
  PROVE  /\ \E q \in RequestState :
              /\ Becomes(r, q)
              /\ q.lines = request[r].lines /\ q.amount = request[r].amount
              /\ q.currency = request[r].currency /\ q.cancels = request[r].cancels
              /\ LockWallet(r) => q.stage = "locking"
              /\ TakeReference(r) => q.stage = "posting"
         /\ UNCHANGED <<journal, operations>>
<1>1. \E q : /\ request' = [request EXCEPT ![r] = q]
             /\ q.lines = request[r].lines /\ q.amount = request[r].amount
             /\ q.currency = request[r].currency /\ q.cancels = request[r].cancels
             /\ LockWallet(r) => q.stage = "locking"
             /\ TakeReference(r) => q.stage = "posting"
  <2>1. CASE LockWallet(r)
    <3>1. PICK q : q = [request[r] EXCEPT !.queue = Tail(request[r].queue),
                                          !.seen[Awaits(r)] = wallet[Awaits(r)]]
      OBVIOUS
    <3>2. request' = [request EXCEPT ![r] = q]
      BY <2>1, <3>1 DEF LockWallet, TypeOK
    <3>3. /\ q.lines = request[r].lines /\ q.amount = request[r].amount
          /\ q.currency = request[r].currency /\ q.cancels = request[r].cancels
          /\ q.stage = "locking" /\ request[r].queue # <<>>
      BY <2>1, <3>1 DEF LockWallet, TypeOK, RequestState
    <3>4. ~TakeReference(r)
      BY <3>3 DEF TakeReference, ReadyToNumber
    <3> QED BY <3>2, <3>3, <3>4
  <2>2. CASE TakeReference(r)
    <3>1. PICK n : request' = [request EXCEPT ![r] =
                                 [request[r] EXCEPT !.stage = "posting", !.reference = n]]
      BY <2>2 DEF TakeReference, TypeOK
    <3>2. PICK q : q = [request[r] EXCEPT !.stage = "posting", !.reference = n]
      OBVIOUS
    <3>3. /\ q.lines = request[r].lines /\ q.amount = request[r].amount
          /\ q.currency = request[r].currency /\ q.cancels = request[r].cancels
          /\ q.stage = "posting"
      BY <3>2 DEF TypeOK, RequestState
    <3>4. ~LockWallet(r)
      BY <2>2 DEF TakeReference, ReadyToNumber, LockWallet
    <3> QED BY <3>1, <3>2, <3>3, <3>4
  <2> QED BY <2>1, <2>2
<1>2. PICK q : /\ request' = [request EXCEPT ![r] = q]
               /\ q.lines = request[r].lines /\ q.amount = request[r].amount
               /\ q.currency = request[r].currency /\ q.cancels = request[r].cancels
               /\ LockWallet(r) => q.stage = "locking"
               /\ TakeReference(r) => q.stage = "posting"
  BY <1>1
<1>3. Becomes(r, q)
  BY <1>2 DEF TypeOK, Becomes
<1>4. q \in RequestState
  <2>1. TypeOK'
    BY LockWalletTyped, TakeReferenceTyped
  <2> QED BY <1>3, <2>1 DEF Becomes, TypeOK
<1>5. UNCHANGED <<journal, operations>>
  BY DEF LockWallet, TakeReference
<1> QED BY <1>2, <1>3, <1>4, <1>5

---------------------------------------------------------------------------
(* The references.                                                         *)

Issued(c) == Cardinality(OperationsOf(c))

\* A number taken is the next one or, when others committed since, an old one:
\* the unique constraint refuses those.
NumberTaken(q) == q.stage = "posting" => q.reference \in 1 .. Issued(q.company) + 1

NumberedInv ==
  IInv /\ ReferencesAreSequential /\ \A r \in Requests : NumberTaken(request[r])

LEMMA IssuedNat ==
  ASSUME TypeOK, NEW c
  PROVE  Issued(c) \in Nat /\ IsFiniteSet(OperationsOf(c))
<1>1. IsFiniteSet(DOMAIN operations)
  BY FS_Interval DEF TypeOK
<1>2. IsFiniteSet(OperationsOf(c))
  BY <1>1, FS_Subset DEF OperationsOf
<1> QED BY <1>2, FS_CardinalityType DEF Issued

\* One more operation of its company, and none of the others.
LEMMA IssuedGrows ==
  ASSUME TypeOK, NEW id, NEW q, Inserted(id, q)
  PROVE  /\ OperationsOf(q.company)' = OperationsOf(q.company) \cup {id}
         /\ Issued(q.company)' = Issued(q.company) + 1
         /\ \A c : c # q.company => OperationsOf(c)' = OperationsOf(c)
                                    /\ Issued(c)' = Issued(c)
<1>1. \A o \in DOMAIN operations : operations'[o].company = operations[o].company
  BY DEF Inserted, SameOperation
<1>2. /\ DOMAIN operations' = DOMAIN operations \cup {id} /\ id \notin DOMAIN operations
      /\ operations'[id].company = q.company
  BY DEF Inserted
<1>3. OperationsOf(q.company)' = OperationsOf(q.company) \cup {id}
  BY <1>1, <1>2 DEF OperationsOf
<1>4. \A c : c # q.company => OperationsOf(c)' = OperationsOf(c)
  BY <1>1, <1>2 DEF OperationsOf
<1>5. IsFiniteSet(OperationsOf(q.company)) /\ id \notin OperationsOf(q.company)
  BY <1>2, IssuedNat DEF OperationsOf
<1>6. Cardinality(OperationsOf(q.company) \cup {id}) = Cardinality(OperationsOf(q.company)) + 1
  BY <1>5, FS_AddElement
<1> QED BY <1>3, <1>4, <1>6 DEF Issued

\* A commit takes the next number: any other is taken.
LEMMA NumberInserted ==
  ASSUME NumberedInv, NEW r \in Requests, Post(r)
  PROVE  ReferencesAreSequential' /\ \A t \in Requests : NumberTaken(request[t])'
<1>1. TypeOK
  BY DEF NumberedInv, IInv
<1>2. PICK id \in Nat : Inserted(id, request[r])
  BY <1>1, OperationInserted
<1>3. PICK q \in RequestState : q = request[r]
  BY <1>1 DEF TypeOK
<1>4. q.company \in Companies /\ q.reference \in Nat
  BY DEF RequestState
<1>5. PICK c : c = q.company
  OBVIOUS
<1>6. Issued(c) \in Nat
  BY <1>1, IssuedNat
<1>7. Inserted(id, q)
  BY <1>2, <1>3
<1>8. /\ OperationsOf(c)' = OperationsOf(c) \cup {id} /\ Issued(c)' = Issued(c) + 1
      /\ \A d : d # c => OperationsOf(d)' = OperationsOf(d) /\ Issued(d)' = Issued(d)
  BY <1>1, <1>5, <1>7, IssuedGrows
<1>9. q.reference = Issued(c) + 1
  <2>1. q.stage = "posting"
    BY <1>3 DEF Post
  <2>2. q.reference \in 1 .. Issued(c) + 1
    BY <1>3, <1>5, <2>1 DEF NumberedInv, NumberTaken
  <2>3. \A o \in OperationsOf(c) : operations[o].reference # q.reference
    BY <1>3, <1>5 DEF Post, Postable
  <2>4. {operations[o].reference : o \in OperationsOf(c)} = 1 .. Issued(c)
    BY <1>4, <1>5 DEF NumberedInv, ReferencesAreSequential, Issued
  <2>5. q.reference \notin 1 .. Issued(c)
    BY <2>3, <2>4
  <2> QED BY <1>6, <2>2, <2>5
<1>10. /\ \A d : \A o \in OperationsOf(d) : operations'[o].reference = operations[o].reference
       /\ operations'[id].reference = q.reference
  BY <1>7 DEF Inserted, SameOperation, OperationsOf
<1>11. ASSUME NEW d \in Companies
       PROVE  {operations'[o].reference : o \in OperationsOf(d)'} = 1 .. Issued(d)'
  <2>1. {operations[o].reference : o \in OperationsOf(d)} = 1 .. Issued(d)
    BY DEF NumberedInv, ReferencesAreSequential, Issued
  <2>2. CASE d # c
    <3>1. OperationsOf(d)' = OperationsOf(d) /\ Issued(d)' = Issued(d)
      BY <1>8, <2>2
    <3> QED BY <1>10, <2>1, <3>1
  <2>3. CASE d = c
    <3>1. {operations'[o].reference : o \in OperationsOf(d) \cup {id}}
            = {operations[o].reference : o \in OperationsOf(d)} \cup {q.reference}
      BY <1>10
    <3>2. (1 .. Issued(c)) \cup {Issued(c) + 1} = 1 .. (Issued(c) + 1)
      BY <1>6
    <3> QED BY <1>8, <1>9, <2>1, <2>3, <3>1, <3>2
  <2> QED BY <2>2, <2>3
<1>12. ReferencesAreSequential'
  BY <1>11 DEF ReferencesAreSequential, Issued
<1>13. ASSUME NEW t \in Requests PROVE NumberTaken(request[t])'
  <2>1. Release(r)
    BY DEF Post
  <2>2. request'[t] = IF t = r THEN Idle ELSE request[t]
    BY <1>1, <2>1, RequestsReleased DEF Becomes
  <2>3. CASE t = r
    BY <2>2, <2>3, IdleKnowsNothing DEF NumberTaken
  <2>4. CASE t # r
    <3>1. PICK p \in RequestState : p = request[t]
      BY <1>1 DEF TypeOK
    <3>2. NumberTaken(p) /\ request'[t] = p
      BY <2>2, <2>4, <3>1 DEF NumberedInv
    <3>3. Issued(p.company) \in Nat
      BY <1>1, IssuedNat
    <3>4. Issued(p.company)' = Issued(p.company) \/ Issued(p.company)' = Issued(p.company) + 1
      BY <1>8
    <3>5. p.reference \in Nat
      BY DEF RequestState
    <3>6. p.stage = "posting" => p.reference \in 1 .. Issued(p.company)' + 1
      BY <3>2, <3>3, <3>4, <3>5 DEF NumberTaken
    <3> QED BY <3>2, <3>6 DEF NumberTaken
  <2> QED BY <2>3, <2>4
<1> QED BY <1>12, <1>13

\* Numbers are taken above those issued, one by one.
LEMMA NumberIsNext ==
  ASSUME NumberedInv, NEW r \in Requests, TakeReference(r)
  PROVE  /\ operations' = operations
         /\ \A t \in Requests : NumberTaken(request'[t])
<1>1. TypeOK
  BY DEF NumberedInv, IInv
<1>2. PICK q \in RequestState : q = request[r]
  BY <1>1 DEF TypeOK
<1>3. PICK c \in Companies : c = q.company
  BY DEF RequestState
<1>4. Issued(c) \in Nat
  BY <1>1, IssuedNat
<1>5. PICK n \in FreeReferences(c) :
         /\ \A m \in FreeReferences(c) : n <= m
         /\ request' = [request EXCEPT ![r] = [q EXCEPT !.stage = "posting", !.reference = n]]
  BY <1>1, <1>2, <1>3 DEF TakeReference, TypeOK
<1>6. n \in Issued(c) + 1 .. Issued(c) + 5
  BY <1>5 DEF FreeReferences, ReferenceRetries, Issued
<1>7. Issued(c) + 1 \in FreeReferences(c)
  <2>1. {operations[o].reference : o \in OperationsOf(c)} = 1 .. Issued(c)
    BY DEF NumberedInv, ReferencesAreSequential, Issued
  <2>2. Issued(c) + 1 \notin 1 .. Issued(c)
    BY <1>4
  <2>3. \A o \in OperationsOf(c) : operations[o].reference # Issued(c) + 1
    BY <2>1, <2>2
  <2>4. Issued(c) + 1 \in Issued(c) + 1 .. Issued(c) + 5
    BY <1>4
  <2> QED BY <2>3, <2>4 DEF FreeReferences, ReferenceRetries, Issued
<1>8. n \in 1 .. Issued(c) + 1
  BY <1>4, <1>5, <1>6, <1>7
<1>9. operations' = operations
  BY DEF TakeReference
<1>10. ASSUME NEW t \in Requests PROVE NumberTaken(request'[t])
  <2>1. CASE t = r
    <3>1. request'[t] = [q EXCEPT !.stage = "posting", !.reference = n]
      BY <1>1, <1>5, <2>1 DEF TypeOK
    <3>2. request'[t].reference = n /\ request'[t].company = c
      BY <1>3, <3>1 DEF RequestState
    <3> QED BY <1>8, <3>2 DEF NumberTaken
  <2>2. CASE t # r
    <3>1. request'[t] = request[t]
      BY <1>1, <1>5, <2>2 DEF TypeOK
    <3> QED BY <3>1 DEF NumberedInv
  <2> QED BY <2>1, <2>2
<1> QED BY <1>9, <1>10

\* A request that does not wait for its insertion has no number to keep.
LEMMA NumberUntouched ==
  ASSUME NumberedInv, operations' = operations, NEW r \in Requests, NEW q,
         q.stage # "posting", Becomes(r, q)
  PROVE  ReferencesAreSequential' /\ \A t \in Requests : NumberTaken(request[t])'
<1>1. \A c : Issued(c)' = Issued(c) /\ OperationsOf(c)' = OperationsOf(c)
  BY DEF Issued, OperationsOf
<1>2. \A t \in Requests : NumberTaken(request[t])
  BY DEF NumberedInv
<1>3. ReferencesAreSequential'
  BY <1>1 DEF NumberedInv, ReferencesAreSequential
<1>4. ASSUME NEW t \in Requests PROVE NumberTaken(request[t])'
  <2>1. CASE t = r
    BY <2>1 DEF NumberTaken, Becomes
  <2>2. CASE t # r
    BY <1>1, <1>2, <2>2 DEF NumberTaken, Becomes
  <2> QED BY <2>1, <2>2
<1> QED BY <1>3, <1>4

LEMMA NumberedInductive == NumberedInv /\ [Next]_vars => NumberedInv'
<1> SUFFICES ASSUME NumberedInv, [Next]_vars
             PROVE  ReferencesAreSequential' /\ \A t \in Requests : NumberTaken(request[t])'
  BY IInvInductive DEF NumberedInv
<1> DEFINE Numbered == ReferencesAreSequential' /\ \A t \in Requests : NumberTaken(request[t])'
<1>0. TypeOK
  BY DEF NumberedInv, IInv
<1>1. ASSUME NEW r \in Requests, Rollback(r) PROVE Numbered
  <2>1. operations' = operations /\ Release(r)
    BY <1>1 DEF Rollback
  <2>2. Becomes(r, Idle) /\ Idle.stage # "posting"
    BY <1>0, <2>1, RequestsReleased, IdleKnowsNothing
  <2> QED BY <2>1, <2>2, NumberUntouched
<1>2. ASSUME NEW r \in Requests, Post(r) PROVE Numbered
  BY <1>2, NumberInserted
<1>3. ASSUME NEW r \in Requests, LockWallet(r) PROVE Numbered
  <2>1. PICK q : Becomes(r, q) /\ q.stage = "locking" /\ operations' = operations
    BY <1>0, <1>3, RequestAdvanced
  <2> QED BY <2>1, NumberUntouched
<1>4. ASSUME NEW r \in Requests, TakeReference(r) PROVE Numbered
  <2>1. operations' = operations /\ \A t \in Requests : NumberTaken(request'[t])
    BY <1>4, NumberIsNext
  <2>2. \A c : Issued(c)' = Issued(c) /\ OperationsOf(c)' = OperationsOf(c)
    BY <2>1 DEF Issued, OperationsOf
  <2> QED BY <2>1, <2>2 DEF NumberedInv, ReferencesAreSequential, NumberTaken
<1>5. CASE \E r \in Requests, c \in Companies, p \in Payloads : StartCreate(r, c, p)
  <2>1. PICK r \in Requests, c \in Companies, p \in Payloads : StartCreate(r, c, p)
    BY <1>5
  <2>2. PICK q : Becomes(r, q) /\ q.stage = "locking" /\ operations' = operations
    BY <1>0, <2>1, CreationStarted
  <2> QED BY <2>2, NumberUntouched
<1>6. CASE \E r \in Requests, o \in DOMAIN operations : StartCancel(r, o)
  <2>1. PICK r \in Requests, o \in DOMAIN operations : StartCancel(r, o)
    BY <1>6
  <2>2. PICK q : Becomes(r, q) /\ q.stage = "locking" /\ operations' = operations
    BY <1>0, <2>1, CancellationStarted
  <2> QED BY <2>2, NumberUntouched
<1>7. CASE \/ \E w \in Wallets, n \in InitialBalances : CreateWallet(w, n)
           \/ \E w \in Wallets, s \in {"active", "inactive"} : SetWalletStatus(w, s)
           \/ UNCHANGED vars
  <2>1. UNCHANGED <<operations, request>>
    BY <1>7 DEF CreateWallet, SetWalletStatus, vars
  <2>2. \A c : Issued(c)' = Issued(c) /\ OperationsOf(c)' = OperationsOf(c)
    BY <2>1 DEF Issued, OperationsOf
  <2> QED BY <2>1, <2>2 DEF NumberedInv, ReferencesAreSequential, NumberTaken
<1>8. CASE \E r \in Requests : Proceed(r) \/ Disconnect(r)
  <2>1. PICK r \in Requests : Proceed(r) \/ Disconnect(r)
    BY <1>8
  <2>2. LockRefused(r) \/ NumberingRefused(r) \/ PostRefused(r) \/ DeadlockVictim(r)
          \/ Disconnect(r) => Rollback(r)
    BY DEF LockRefused, NumberingRefused, PostRefused, DeadlockVictim, Disconnect
  <2> QED BY <1>1, <1>2, <1>3, <1>4, <2>1, <2>2 DEF Proceed
<1> QED BY <1>5, <1>6, <1>7, <1>8 DEF Next

\* However many requests of a company count its operations at the same time, the
\* references of its operations are 1, 2, 3, ... without a gap or a duplicate
\* (_generate_unique_reference and the unique constraint).
THEOREM ReferencesAreAlwaysSequential == Spec => []ReferencesAreSequential
<1>1. Init => NumberedInv
  <2> SUFFICES ASSUME Init PROVE ReferencesAreSequential /\ \A r \in Requests : NumberTaken(request[r])
    BY InitTyped, InitLocks DEF NumberedInv, IInv
  <2>1. \A c : OperationsOf(c) = {}
    BY DEF Init, OperationsOf
  <2>2. ReferencesAreSequential
    BY <2>1, FS_EmptySet DEF ReferencesAreSequential
  <2>3. \A r \in Requests : NumberTaken(request[r])
    BY IdleKnowsNothing DEF Init, NumberTaken
  <2> QED BY <2>2, <2>3
<1>2. NumberedInv => ReferencesAreSequential
  BY DEF NumberedInv
<1> QED BY <1>1, <1>2, NumberedInductive, PTL DEF Spec

---------------------------------------------------------------------------
(* The postings of an operation.                                           *)

\* Operation o is posted on w once, with its amount, or not at all.
LinePosted(o, w) ==
  IF w \in operations[o].lines
  THEN \E i \in Postings(w, o) : /\ Postings(w, o) = {i}
                                 /\ journal[w][i].amount = operations[o].amount[w]
  ELSE Postings(w, o) = {}

\* Every movement is that of an operation or of a new wallet.
MovementsNamed(w) == \A i \in DOMAIN journal[w] : journal[w][i].source \in {0} \cup DOMAIN operations

\* An operation that reverses one moves the same wallets back.
ReversalHolds(o) ==
  operations[o].reversalOf # 0 =>
    /\ operations[o].reversalOf \in DOMAIN operations
    /\ operations[o].lines = operations[operations[o].reversalOf].lines
    /\ \A w \in operations[o].lines :
         operations[o].amount[w] = -operations[operations[o].reversalOf].amount[w]

\* A request that cancels one is about to.
CancelHolds(q) ==
  q.cancels # 0 =>
    /\ q.cancels \in DOMAIN operations
    /\ q.lines = operations[q.cancels].lines
    /\ q.amount = Mirrored(operations[q.cancels].amount)

LinesInv ==
  /\ IsolationInv
  /\ \A w \in Wallets : MovementsNamed(w)
  /\ \A o \in DOMAIN operations : ReversalHolds(o) /\ \A w \in Wallets : LinePosted(o, w)
  /\ \A r \in Requests : CancelHolds(request[r])

\* A mirrored line moves exactly the amount of the line back.
LEMMA MirroredExactly ==
  ASSUME NEW amount \in [Wallets -> Int], NEW w \in Wallets
  PROVE  Mirrored(amount)[w] = Exact(-amount[w]) /\ Quantize(Mirrored(amount)[w]) = -amount[w]
<1>1. PICK n \in Int : n = amount[w]
  OBVIOUS
<1>2. -Exact(n) = Exact(-n)
  BY SubUnitsAssumption DEF Exact
<1>3. Mirrored(amount)[w] = -Exact(n)
  BY <1>1 DEF Mirrored
<1>4. -n \in Int
  OBVIOUS
<1>5. Quantize(Exact(-n)) = -n
  BY <1>4, QuantizeExact
<1> QED BY <1>1, <1>2, <1>3, <1>5

\* A movement of another source is no posting of o; the others stay.
LEMMA PostingsKept ==
  ASSUME NEW w \in Wallets, NEW S, journal[w] \in Seq(S), NEW m \in S,
         journal'[w] = Append(journal[w], m), NEW o
  PROVE  /\ o # m.source => Postings(w, o)' = Postings(w, o)
         /\ o = m.source => Postings(w, o)' = Postings(w, o) \cup {Len(journal[w]) + 1}
         /\ \A i \in Postings(w, o) : journal'[w][i] = journal[w][i]
<1> DEFINE s == journal[w]
           t == journal'[w]
<1>1. /\ DOMAIN t = DOMAIN s \cup {Len(s) + 1} /\ Len(s) + 1 \notin DOMAIN s
      /\ \A i \in DOMAIN s : t[i] = s[i]
      /\ t[Len(s) + 1] = m
  BY SequenceAppended
<1>2. Postings(w, o) = {i \in DOMAIN s : s[i].source = o}
  BY DEF Postings
<1>3. Postings(w, o)' = {i \in DOMAIN t : t[i].source = o}
  BY DEF Postings
<1> HIDE DEF s, t
<1>4. o # m.source => Postings(w, o)' = Postings(w, o)
  BY <1>1, <1>2, <1>3
<1>5. o = m.source => Postings(w, o)' = Postings(w, o) \cup {Len(s) + 1}
  BY <1>1, <1>2, <1>3
<1>6. \A i \in Postings(w, o) : t[i] = s[i]
  BY <1>1, <1>2
<1> QED BY <1>1, <1>4, <1>5, <1>6 DEF s, t

\* A new wallet's initial movement belongs to no operation.
LEMMA CreateWalletKeepsLines ==
  ASSUME LinesInv, NEW v \in Wallets, NEW n \in InitialBalances, CreateWallet(v, n)
  PROVE  /\ UNCHANGED <<operations, request>>
         /\ \A w \in Wallets : /\ MovementsNamed(w)'
                               /\ \A o \in DOMAIN operations : LinePosted(o, w)'
<1>1. UNCHANGED <<operations, request>>
  BY DEF CreateWallet
<1>2. TypeOK
  BY DEF LinesInv, IsolationInv, IInv
<1>3. TypeOK'
  BY <1>2, CreateWalletTyped
<1> DEFINE M == [before : Nat, amount : Int, after : Nat, source : Nat]
<1>4. ASSUME NEW w \in Wallets
      PROVE  journal'[w] = journal[w] \/ \E m \in M : m.source = 0 /\ journal'[w] = Append(journal[w], m)
  <2>1. CASE n > 0 /\ w = v
    <3>1. PICK m : m = MovementOf([balance |-> 0, status |-> "active"], n, 0)
      OBVIOUS
    <3>2. journal'[w] = Append(journal[w], m)
      BY <1>2, <2>1, <3>1 DEF CreateWallet, TypeOK
    <3>3. m.source = 0
      BY <3>1 DEF MovementOf
    <3>4. m \in M
      <4>1. n \in Int /\ [balance |-> 0, status |-> "active"] \in WalletRow
        BY RequestAssumption DEF WalletRow, Statuses
      <4>2. CanApply([balance |-> 0, status |-> "active"], n)
        BY <2>1, <4>1 DEF CanApply
      <4> QED BY <3>1, <4>1, <4>2, MovementTyped
    <3> QED BY <3>2, <3>3, <3>4
  <2>2. CASE ~(n > 0 /\ w = v)
    BY <1>2, <2>2 DEF CreateWallet, TypeOK
  <2> QED BY <2>1, <2>2
<1>5. ASSUME NEW w \in Wallets
      PROVE  MovementsNamed(w)' /\ \A o \in DOMAIN operations : LinePosted(o, w)'
  <2>0. MovementsNamed(w) /\ \A o \in DOMAIN operations : LinePosted(o, w)
    BY DEF LinesInv
  <2>1. CASE journal'[w] = journal[w]
    <3>1. \A o : Postings(w, o)' = Postings(w, o)
      BY <2>1 DEF Postings
    <3> QED BY <1>1, <2>0, <2>1, <3>1 DEF MovementsNamed, LinePosted
  <2>2. ASSUME NEW m \in M, m.source = 0, journal'[w] = Append(journal[w], m)
        PROVE  MovementsNamed(w)' /\ \A o \in DOMAIN operations : LinePosted(o, w)'
    <3>1. journal[w] \in Seq(M)
      BY <1>2 DEF TypeOK
    <3> HIDE DEF M
    <3>2. ASSUME NEW o
          PROVE  /\ o # 0 => Postings(w, o)' = Postings(w, o)
                 /\ \A i \in Postings(w, o) : journal'[w][i] = journal[w][i]
      <4>1. m \in M /\ journal[w] \in Seq(M) /\ journal'[w] = Append(journal[w], m)
        BY <2>2, <3>1
      <4>2. /\ o # m.source => Postings(w, o)' = Postings(w, o)
            /\ o = m.source => Postings(w, o)' = Postings(w, o) \cup {Len(journal[w]) + 1}
            /\ \A i \in Postings(w, o) : journal'[w][i] = journal[w][i]
        BY <4>1, PostingsKept
      <4> QED BY <2>2, <4>2
    <3>3. MovementsNamed(w)'
      <4>1. /\ DOMAIN journal'[w] = DOMAIN journal[w] \cup {Len(journal[w]) + 1}
            /\ journal'[w][Len(journal[w]) + 1] = m
            /\ \A i \in DOMAIN journal[w] : journal'[w][i] = journal[w][i]
        BY <2>2, <3>1, SequenceAppended
      <4> QED BY <1>1, <2>0, <2>2, <4>1 DEF MovementsNamed
    <3>4. ASSUME NEW o \in DOMAIN operations PROVE LinePosted(o, w)'
      <4>1. o # 0
        BY <1>2 DEF TypeOK
      <4>2. Postings(w, o)' = Postings(w, o)
        BY <3>2, <4>1
      <4>3. LinePosted(o, w)
        BY <2>0
      <4> QED BY <1>1, <3>2, <4>2, <4>3 DEF LinePosted
    <3> QED BY <3>3, <3>4
  <2> QED BY <1>4, <2>1, <2>2
<1> QED BY <1>1, <1>5

\* What a commit inserts is posted, and nothing else of the journal moves.
LEMMA PostKeepsLines ==
  ASSUME LinesInv, NEW r \in Requests, Post(r)
  PROVE  /\ \A w \in Wallets : MovementsNamed(w)'
         /\ \A o \in DOMAIN operations' : \A w \in Wallets : LinePosted(o, w)'
<1>1. TypeOK
  BY DEF LinesInv, IsolationInv, IInv
<1>2. PICK id \in Nat : Inserted(id, request[r]) /\ Journalled(id, request[r])
  BY <1>1, OperationInserted
<1>3. PICK q \in RequestState : q = request[r]
  BY <1>1 DEF TypeOK
<1>4. Inserted(id, q) /\ Journalled(id, q)
  BY <1>2, <1>3
<1>5. /\ id # 0 /\ id \notin DOMAIN operations
      /\ DOMAIN operations' = DOMAIN operations \cup {id}
      /\ operations'[id].lines = q.lines
      /\ \A w \in Wallets : operations'[id].amount[w] = Quantize(q.amount[w])
  BY <1>4 DEF Inserted
<1>6. \A o \in DOMAIN operations : /\ operations'[o].lines = operations[o].lines
                                   /\ operations'[o].amount = operations[o].amount
  BY <1>4 DEF Inserted, SameOperation
<1> DEFINE M == [before : Nat, amount : Int, after : Nat, source : Nat]
<1>7. ASSUME NEW w \in Wallets
      PROVE  MovementsNamed(w)' /\ \A o \in DOMAIN operations' : LinePosted(o, w)'
  <2>0. MovementsNamed(w) /\ \A o \in DOMAIN operations : LinePosted(o, w)
    BY DEF LinesInv
  <2>1. CASE w \notin q.lines
    <3>1. journal'[w] = journal[w]
      BY <1>4, <2>1 DEF Journalled
    <3>2. \A o : Postings(w, o)' = Postings(w, o)
      BY <3>1 DEF Postings
    <3>3. Postings(w, id) = {}
      BY <1>5, <2>0 DEF Postings, MovementsNamed
    <3>4. MovementsNamed(w)'
      BY <1>5, <2>0, <3>1 DEF MovementsNamed
    <3>5. ASSUME NEW o \in DOMAIN operations PROVE LinePosted(o, w)'
      BY <1>6, <2>0, <3>1, <3>2 DEF LinePosted
    <3>6. LinePosted(id, w)'
      BY <1>5, <2>1, <3>2, <3>3 DEF LinePosted
    <3> QED BY <1>5, <3>4, <3>5, <3>6
  <2>2. CASE w \in q.lines
    <3>1. PICK m : m = MovementOf(q.seen[w], q.amount[w], id)
      OBVIOUS
    <3>2. journal'[w] = Append(journal[w], m)
      BY <1>4, <2>2, <3>1 DEF Journalled
    <3>3. m.source = id /\ m.amount = Quantize(q.amount[w])
      BY <3>1 DEF MovementOf
    <3>4. m \in M
      <4>1. q.seen[w] \in WalletRow /\ q.amount[w] \in Int
        BY DEF RequestState
      <4>2. CanApply(q.seen[w], q.amount[w])
        BY <1>3, <2>2 DEF Post, Postable
      <4> QED BY <3>1, <4>1, <4>2, MovementTyped
    <3>5. journal[w] \in Seq(M)
      BY <1>1 DEF TypeOK
    <3> HIDE DEF M
    <3>6. /\ DOMAIN journal'[w] = DOMAIN journal[w] \cup {Len(journal[w]) + 1}
          /\ journal'[w][Len(journal[w]) + 1] = m
          /\ \A i \in DOMAIN journal[w] : journal'[w][i] = journal[w][i]
      BY <3>2, <3>4, <3>5, SequenceAppended
    <3>7. ASSUME NEW o
          PROVE  /\ o # m.source => Postings(w, o)' = Postings(w, o)
                 /\ o = m.source => Postings(w, o)' = Postings(w, o) \cup {Len(journal[w]) + 1}
                 /\ \A i \in Postings(w, o) : journal'[w][i] = journal[w][i]
      BY <3>2, <3>4, <3>5, PostingsKept
    <3>8. MovementsNamed(w)'
      BY <1>5, <2>0, <3>3, <3>6 DEF MovementsNamed
    <3>9. ASSUME NEW o \in DOMAIN operations PROVE LinePosted(o, w)'
      <4>1. Postings(w, o)' = Postings(w, o) /\ \A i \in Postings(w, o) : journal'[w][i] = journal[w][i]
        BY <1>5, <3>3, <3>7
      <4>2. LinePosted(o, w)
        BY <2>0
      <4> QED BY <1>6, <4>1, <4>2 DEF LinePosted
    <3>10. LinePosted(id, w)'
      <4>1. Postings(w, id) = {}
        BY <1>5, <2>0 DEF Postings, MovementsNamed
      <4>2. Postings(w, id)' = {Len(journal[w]) + 1}
        BY <3>3, <3>7, <4>1
      <4>3. journal'[w][Len(journal[w]) + 1].amount = operations'[id].amount[w]
        BY <1>5, <3>3, <3>6
      <4> QED BY <1>5, <2>2, <4>2, <4>3 DEF LinePosted
    <3> QED BY <1>5, <3>8, <3>9, <3>10
  <2> QED BY <2>1, <2>2
<1> QED BY <1>7

\* The reversals stay right, and so do the requests that are about to make one.
LEMMA PostKeepsReversals ==
  ASSUME LinesInv, NEW r \in Requests, Post(r)
  PROVE  /\ \A o \in DOMAIN operations' : ReversalHolds(o)'
         /\ \A t \in Requests : CancelHolds(request[t])'
<1>1. TypeOK
  BY DEF LinesInv, IsolationInv, IInv
<1>2. PICK id \in Nat : Inserted(id, request[r])
  BY <1>1, OperationInserted
<1>3. PICK q \in RequestState : q = request[r]
  BY <1>1 DEF TypeOK
<1>4. Inserted(id, q)
  BY <1>2, <1>3
<1>5. /\ DOMAIN operations' = DOMAIN operations \cup {id}
      /\ operations'[id].lines = q.lines
      /\ \A w \in Wallets : operations'[id].amount[w] = Quantize(q.amount[w])
      /\ operations'[id].reversalOf = q.cancels
  BY <1>4 DEF Inserted
<1>6. \A o \in DOMAIN operations : /\ operations'[o].lines = operations[o].lines
                                   /\ operations'[o].amount = operations[o].amount
                                   /\ operations'[o].reversalOf = operations[o].reversalOf
  BY <1>4 DEF Inserted, SameOperation
<1>7. ASSUME NEW o \in DOMAIN operations PROVE ReversalHolds(o)'
  <2>1. ReversalHolds(o)
    BY DEF LinesInv
  <2> QED BY <1>5, <1>6, <2>1 DEF ReversalHolds
<1>8. ReversalHolds(id)'
  <2> SUFFICES ASSUME q.cancels # 0
               PROVE  /\ q.cancels \in DOMAIN operations'
                      /\ q.lines = operations'[q.cancels].lines
                      /\ \A w \in q.lines :
                           operations'[id].amount[w] = -operations'[q.cancels].amount[w]
    BY <1>5 DEF ReversalHolds
  <2>1. /\ q.cancels \in DOMAIN operations
        /\ q.lines = operations[q.cancels].lines
        /\ q.amount = Mirrored(operations[q.cancels].amount)
    BY <1>3 DEF LinesInv, CancelHolds
  <2>2. operations[q.cancels].amount \in [Wallets -> Int]
    <3>1. operations[q.cancels] \in Operation
      BY <1>1, <2>1 DEF TypeOK
    <3> QED BY <3>1 DEF Operation
  <2>3. \A w \in Wallets : Quantize(q.amount[w]) = -operations[q.cancels].amount[w]
    BY <2>1, <2>2, MirroredExactly
  <2>4. q.lines \subseteq Wallets
    BY DEF RequestState
  <2> QED BY <1>5, <1>6, <2>1, <2>3, <2>4
<1>9. ASSUME NEW t \in Requests PROVE CancelHolds(request[t])'
  <2>1. Becomes(r, Idle)
    BY <1>1, RequestsReleased DEF Post
  <2>2. CASE t = r
    BY <2>1, <2>2, IdleKnowsNothing DEF CancelHolds, Becomes
  <2>3. CASE t # r
    <3>1. PICK p : p = request[t]
      OBVIOUS
    <3>2. CancelHolds(p) /\ request'[t] = p
      BY <2>1, <2>3, <3>1 DEF LinesInv, Becomes
    <3> QED BY <1>5, <1>6, <3>2 DEF CancelHolds
  <2> QED BY <2>2, <2>3
<1> QED BY <1>5, <1>7, <1>8, <1>9

\* The requests that cancel keep what they read: nothing is committed.
LEMMA LinesUntouched ==
  ASSUME LinesInv, UNCHANGED <<journal, operations>>, NEW r \in Requests, NEW q,
         Becomes(r, q), CancelHolds(q)
  PROVE  /\ \A w \in Wallets : MovementsNamed(w)'
         /\ \A o \in DOMAIN operations' : ReversalHolds(o)' /\ \A w \in Wallets : LinePosted(o, w)'
         /\ \A t \in Requests : CancelHolds(request[t])'
<1>1. \A w, o : Postings(w, o)' = Postings(w, o)
  BY DEF Postings
<1>2. \A w \in Wallets : MovementsNamed(w)'
  BY DEF LinesInv, MovementsNamed
<1>3. \A o \in DOMAIN operations' : ReversalHolds(o)'
  BY DEF LinesInv, ReversalHolds
<1>4. \A o \in DOMAIN operations' : \A w \in Wallets : LinePosted(o, w)'
  BY <1>1 DEF LinesInv, LinePosted
<1>5. ASSUME NEW t \in Requests PROVE CancelHolds(request[t])'
  <2>1. CancelHolds(request'[t])
    BY DEF LinesInv, Becomes
  <2> QED BY <2>1 DEF CancelHolds
<1> QED BY <1>2, <1>3, <1>4, <1>5

LEMMA LinesInductive == LinesInv /\ [Next]_vars => LinesInv'
<1> DEFINE Held == /\ \A w \in Wallets : MovementsNamed(w)'
                   /\ \A o \in DOMAIN operations' :
                        ReversalHolds(o)' /\ \A w \in Wallets : LinePosted(o, w)'
                   /\ \A t \in Requests : CancelHolds(request[t])'
<1> SUFFICES ASSUME LinesInv, [Next]_vars PROVE Held
  BY IsolationInductive DEF LinesInv
<1>0. TypeOK /\ LocksStayAtHome
  BY DEF LinesInv, IsolationInv, IInv
<1>1. ASSUME NEW r \in Requests, Rollback(r) PROVE Held
  <2>1. Becomes(r, Idle) /\ UNCHANGED <<journal, operations>>
    BY <1>0, <1>1, RequestsReleased DEF Rollback
  <2>2. CancelHolds(Idle)
    BY IdleKnowsNothing DEF CancelHolds
  <2> QED BY <2>1, <2>2, LinesUntouched
<1>2. ASSUME NEW r \in Requests, Post(r) PROVE Held
  BY <1>2, PostKeepsLines, PostKeepsReversals
<1>3. ASSUME NEW r \in Requests, LockWallet(r) \/ TakeReference(r) PROVE Held
  <2>1. PICK q : /\ Becomes(r, q)
                 /\ q.lines = request[r].lines /\ q.amount = request[r].amount
                 /\ q.cancels = request[r].cancels
    BY <1>0, <1>3, RequestAdvanced
  <2>2. CancelHolds(q)
    BY <2>1 DEF LinesInv, CancelHolds
  <2>3. UNCHANGED <<journal, operations>>
    BY <1>0, <1>3, RequestAdvanced
  <2> QED BY <2>1, <2>2, <2>3, LinesUntouched
<1>4. CASE \E r \in Requests, c \in Companies, p \in Payloads : StartCreate(r, c, p)
  <2>1. PICK r \in Requests, c \in Companies, p \in Payloads : StartCreate(r, c, p)
    BY <1>4
  <2>2. /\ UNCHANGED <<journal, operations>> /\ request[r].stage = "idle"
        /\ \E q : Becomes(r, q) /\ q.cancels = request[r].cancels
    BY <1>0, <2>1, CreationStarted
  <2>3. PICK q : Becomes(r, q) /\ q.cancels = request[r].cancels
    BY <2>2
  <2>4. CancelHolds(q)
    BY <1>0, <2>2, <2>3 DEF LocksStayAtHome, CancelHolds
  <2> QED BY <2>2, <2>3, <2>4, LinesUntouched
<1>5. CASE \E r \in Requests, o \in DOMAIN operations : StartCancel(r, o)
  <2>1. PICK r \in Requests, o \in DOMAIN operations : StartCancel(r, o)
    BY <1>5
  <2>2. PICK q : /\ Becomes(r, q) /\ q.cancels = o
                 /\ q.lines = operations[o].lines /\ q.amount = Mirrored(operations[o].amount)
    BY <1>0, <2>1, CancellationStarted
  <2>3. CancelHolds(q)
    BY <2>2 DEF CancelHolds
  <2>4. UNCHANGED <<journal, operations>>
    BY <1>0, <2>1, CancellationStarted
  <2> QED BY <2>2, <2>3, <2>4, LinesUntouched
<1>6. CASE \E w \in Wallets, n \in InitialBalances : CreateWallet(w, n)
  <2>1. PICK w \in Wallets, n \in InitialBalances : CreateWallet(w, n)
    BY <1>6
  <2>2. /\ UNCHANGED <<operations, request>>
        /\ \A v \in Wallets : /\ MovementsNamed(v)'
                              /\ \A o \in DOMAIN operations : LinePosted(o, v)'
    BY <2>1, CreateWalletKeepsLines
  <2>3. \A o \in DOMAIN operations' : ReversalHolds(o)'
    BY <2>2 DEF LinesInv, ReversalHolds
  <2>4. \A t \in Requests : CancelHolds(request[t])'
    BY <2>2 DEF LinesInv, CancelHolds
  <2> QED BY <2>2, <2>3, <2>4
<1>7. CASE \/ \E w \in Wallets, s \in {"active", "inactive"} : SetWalletStatus(w, s)
           \/ UNCHANGED vars
  <2>1. UNCHANGED <<journal, operations, request>>
    BY <1>7 DEF SetWalletStatus, vars
  <2>2. \A w, o : Postings(w, o)' = Postings(w, o)
    BY <2>1 DEF Postings
  <2>3. \A w \in Wallets : MovementsNamed(w)'
    BY <2>1 DEF LinesInv, MovementsNamed
  <2>4. \A o \in DOMAIN operations' : ReversalHolds(o)'
    BY <2>1 DEF LinesInv, ReversalHolds
  <2>5. \A o \in DOMAIN operations' : \A w \in Wallets : LinePosted(o, w)'
    BY <2>1, <2>2 DEF LinesInv, LinePosted
  <2>6. \A t \in Requests : CancelHolds(request[t])'
    BY <2>1 DEF LinesInv, CancelHolds
  <2> QED BY <2>3, <2>4, <2>5, <2>6
<1>8. CASE \E r \in Requests : Proceed(r) \/ Disconnect(r)
  <2>1. PICK r \in Requests : Proceed(r) \/ Disconnect(r)
    BY <1>8
  <2>2. LockRefused(r) \/ NumberingRefused(r) \/ PostRefused(r) \/ DeadlockVictim(r)
          \/ Disconnect(r) => Rollback(r)
    BY DEF LockRefused, NumberingRefused, PostRefused, DeadlockVictim, Disconnect
  <2> QED BY <1>1, <1>2, <1>3, <2>1, <2>2 DEF Proceed
<1> QED BY <1>4, <1>5, <1>6, <1>7, <1>8 DEF Next

LEMMA InitLined == Init => LinesInv
<1> SUFFICES ASSUME Init
             PROVE  /\ \A w \in Wallets : MovementsNamed(w)
                    /\ \A o \in DOMAIN operations : ReversalHolds(o) /\ \A w \in Wallets : LinePosted(o, w)
                    /\ \A r \in Requests : CancelHolds(request[r])
  BY InitIsolated DEF LinesInv
<1>1. \A w \in Wallets : MovementsNamed(w)
  BY DEF Init, MovementsNamed
<1>2. DOMAIN operations = {}
  BY DEF Init
<1>3. \A r \in Requests : CancelHolds(request[r])
  BY IdleKnowsNothing DEF Init, CancelHolds
<1> QED BY <1>1, <1>2, <1>3

\* Every line of every operation is posted on its wallet once, with its amount,
\* and a reversal posts the opposite of what it reverses to the cent, for any
\* amounts however finely divided, any number of wallets and of requests
\* (create_operation, cancel_operation, apply_movement).
THEOREM LinesAreAlwaysPosted == Spec => []LinesArePosted
<1>1. LinesInv => LinesArePosted
  <2> SUFFICES ASSUME LinesInv, NEW o \in DOMAIN operations
               PROVE  /\ \A w \in operations[o].lines :
                           \E i \in Postings(w, o) : /\ Postings(w, o) = {i}
                                                     /\ journal[w][i].amount = operations[o].amount[w]
                      /\ \A w \in Wallets \ operations[o].lines : Postings(w, o) = {}
                      /\ operations[o].reversalOf # 0 =>
                           /\ operations[o].lines = operations[operations[o].reversalOf].lines
                           /\ \A w \in operations[o].lines :
                                operations[o].amount[w]
                                  = -operations[operations[o].reversalOf].amount[w]
    BY DEF LinesArePosted
  <2>1. operations[o].lines \subseteq Wallets
    <3>1. operations[o] \in Operation
      BY DEF LinesInv, IsolationInv, IInv, TypeOK
    <3> QED BY <3>1 DEF Operation
  <2>2. ReversalHolds(o) /\ \A w \in Wallets : LinePosted(o, w)
    BY DEF LinesInv
  <2> QED BY <2>1, <2>2 DEF LinePosted, ReversalHolds
<1> QED BY <1>1, InitLined, LinesInductive, PTL DEF Spec

---------------------------------------------------------------------------
(* The balance of an operation.                                            *)

\* What OperationsAreBalanced says of an operation's amounts.
WithinRounding(amount, lines) ==
  SubUnits * Magnitude(SumFunctionOnSet(amount, lines)) <= Cardinality(lines) * (SubUnits \div 2)

Balanced(amount, lines) ==
  Cardinality({Currency[w] : w \in lines}) = 1 => WithinRounding(amount, lines)

\* What is known of a creation: the body balances in the currency it declares,
\* which is compared with the wallets' once their rows are locked.
CreationBalances(q) ==
  q.cancels = 0 =>
    /\ Cardinality({q.currency[w] : w \in q.lines}) = 1 => SumFunctionOnSet(q.amount, q.lines) = 0
    /\ q.stage = "posting" => \A w \in q.lines : q.currency[w] = Currency[w]

BalanceInv ==
  /\ LinesInv
  /\ \A o \in DOMAIN operations : Balanced(operations[o].amount, operations[o].lines)
  /\ \A r \in Requests : CreationBalances(request[r])

\* A body in one currency that the schema accepts sums to zero.
LEMMA BodyBalances ==
  ASSUME NEW p \in Payload, WellFormed(p), Cardinality({p.currency[w] : w \in p.lines}) = 1
  PROVE  SumFunctionOnSet(p.amount, p.lines) = 0
<1> DEFINE declared == {p.currency[w] : w \in p.lines}
<1>1. Cardinality(declared) = 1 /\ \A c \in declared : Total(p, c) = 0
  BY DEF WellFormed
<1>2. IsFiniteSet(declared)
  <2>1. IsFiniteSet(p.lines)
    BY WalletAssumption, FS_Subset DEF Payload
  <2>2. \E f \in [p.lines -> declared] : \A y \in declared : \E x \in p.lines : f[x] = y
    <3>1. [w \in p.lines |-> p.currency[w]] \in [p.lines -> declared]
      OBVIOUS
    <3>2. \A y \in declared : \E x \in p.lines : [w \in p.lines |-> p.currency[w]][x] = y
      OBVIOUS
    <3> QED BY <3>1, <3>2
  <2>3. \E f : f \in Surjection(p.lines, declared)
    BY <2>2 DEF Surjection
  <2> HIDE DEF declared
  <2> QED BY <2>1, <2>3, FS_Surjection
<1>3. PICK c : declared = {c}
  <2> HIDE DEF declared
  <2> QED BY <1>1, <1>2, FS_Singleton
<1>4. {w \in p.lines : p.currency[w] = c} = p.lines
  BY <1>3
<1>5. Total(p, c) = 0
  BY <1>1, <1>3
<1> QED BY <1>4, <1>5 DEF Total

\* What rounding an amount changes, in the units of the amount, is at most half a cent.
LEMMA QuantizeError ==
  ASSUME NEW a \in Int
  PROVE  /\ Quantize(a) \in Int /\ SubUnits \in Int /\ SubUnits \div 2 \in Nat
         /\ SubUnits * Quantize(a) - a \in -(SubUnits \div 2) .. SubUnits \div 2
<1> DEFINE h == SubUnits \div 2
<1>1. SubUnits \in Nat \ {0} /\ h \in Nat /\ SubUnits <= 2 * h + 1
  BY SubUnitsAssumption
<1> HIDE DEF h
<1>2. ASSUME NEW b \in Nat
      PROVE  HalfUp(b) \in Nat /\ SubUnits * HalfUp(b) - b \in -h .. h
  <2>1. PICK q \in Nat : q = HalfUp(b)
    BY HalfUpBounds
  <2>2. (2 * SubUnits) * q <= 2 * b + SubUnits /\ 2 * b + SubUnits < (2 * SubUnits) * q + 2 * SubUnits
    BY <2>1, HalfUpBounds
  <2>3. PICK n \in Nat : n = SubUnits * q
    BY <1>1
  <2>4. (2 * SubUnits) * q = 2 * n
    BY <1>1, <2>3
  <2>5. 2 * n <= 2 * b + SubUnits /\ 2 * b < 2 * n + SubUnits
    BY <1>1, <2>2, <2>4
  <2>6. n - b \in -h .. h
    BY <1>1, <2>5
  <2> QED BY <2>1, <2>3, <2>6
<1>3. CASE a >= 0
  BY <1>1, <1>2, <1>3 DEF Quantize, h
<1>4. CASE ~(a >= 0)
  <2>1. PICK b \in Nat : b = -a
    BY <1>4
  <2>2. PICK q \in Nat : q = HalfUp(b)
    BY <1>2
  <2>3. Quantize(a) = -q
    BY <1>4, <2>1, <2>2 DEF Quantize
  <2>4. SubUnits * q - b \in -h .. h
    BY <1>2, <2>2
  <2>5. SubUnits * (-q) = -(SubUnits * q) /\ SubUnits * q \in Nat
    BY <1>1
  <2>6. SubUnits * (-q) - a \in -h .. h
    BY <1>1, <2>1, <2>4, <2>5
  <2> QED BY <1>1, <2>3, <2>6 DEF h
<1> QED BY <1>3, <1>4

\* A sum of terms of at most h is at most h a term.
LEMMA SumWithin ==
  ASSUME NEW S, IsFiniteSet(S), NEW f, NEW h \in Nat, \A x \in S : f[x] \in -h .. h
  PROVE  SumFunctionOnSet(f, S) \in -(Cardinality(S) * h) .. Cardinality(S) * h
<1> DEFINE P == {s \in SUBSET S :
                   SumFunctionOnSet(f, s) \in -(Cardinality(s) * h) .. Cardinality(s) * h}
<1>0. NumbersOn(f, S)
  BY DEF NumbersOn
<1>1. {} \in P
  <2>1. Cardinality({}) = 0
    BY FS_EmptySet
  <2>2. SumFunctionOnSet(f, {}) = 0
    BY SumOfNone
  <2> QED BY <2>1, <2>2
<1>2. ASSUME NEW s \in SUBSET S, NEW x \in S \ s, s \in P PROVE s \cup {x} \in P
  <2>1. /\ IsFiniteSet(s) /\ x \notin s /\ NumbersOn(f, s) /\ NumbersOn(f, s \cup {x})
        /\ f[x] \in -h .. h
    BY <1>0, <1>2, FS_Subset DEF NumbersOn
  <2>2. SumFunctionOnSet(f, s \cup {x}) = SumFunctionOnSet(f, s) + f[x]
    BY <2>1, SumOfMore
  <2>3. PICK n \in Nat : n = Cardinality(s)
    BY <2>1, FS_CardinalityType
  <2>4. Cardinality(s \cup {x}) = n + 1
    BY <2>1, <2>3, FS_AddElement
  <2>5. PICK k \in Int : k = SumFunctionOnSet(f, s)
    BY <2>1, SumTyped
  <2>6. k \in -(n * h) .. n * h
    BY <1>2, <2>3, <2>5
  <2>7. (n + 1) * h = n * h + h /\ n * h \in Nat
    BY <2>3
  <2>8. k + f[x] \in -((n + 1) * h) .. (n + 1) * h
    BY <2>1, <2>6, <2>7
  <2>9. SumFunctionOnSet(f, s \cup {x})
          \in -(Cardinality(s \cup {x}) * h) .. Cardinality(s \cup {x}) * h
    BY <2>2, <2>4, <2>5, <2>8
  <2> QED BY <2>9
<1>3. S \in P
  <2>1. \A s \in SUBSET S : \A x \in S \ s : s \in P => s \cup {x} \in P
    BY <1>2
  <2> HIDE DEF P
  <2> QED BY <1>1, <2>1, PartsInduction
<1> QED BY <1>3

\* Amounts that sum to zero exactly are within the rounding of their lines once stored.
LEMMA RoundedBalance ==
  ASSUME NEW S, IsFiniteSet(S), NEW raw, NEW stored, \A w \in S : raw[w] \in Int,
         \A w \in S : stored[w] = Quantize(raw[w]), SumFunctionOnSet(raw, S) = 0
  PROVE  WithinRounding(stored, S)
<1> DEFINE h == SubUnits \div 2
           scaled == [w \in S |-> SubUnits * stored[w]]
           opposite == [w \in S |-> (-1) * raw[w]]
           error == [w \in S |-> scaled[w] + opposite[w]]
<1>1. SubUnits \in Nat \ {0} /\ h \in Nat
  BY SubUnitsAssumption
<1>2. \A w \in S : stored[w] \in Int /\ SubUnits * stored[w] - raw[w] \in -h .. h
  BY QuantizeError
<1>3. \A w \in S : /\ scaled[w] \in Int /\ scaled[w] = SubUnits * stored[w]
                   /\ opposite[w] \in Int /\ opposite[w] = (-1) * raw[w]
                   /\ error[w] = scaled[w] + opposite[w] /\ error[w] \in -h .. h
  BY <1>1, <1>2
<1> HIDE DEF h, scaled, opposite, error
<1>4. NumbersOn(raw, S) /\ NumbersOn(stored, S) /\ NumbersOn(scaled, S) /\ NumbersOn(opposite, S)
  BY <1>2, <1>3 DEF NumbersOn
<1>5. PICK sum \in Int : sum = SumFunctionOnSet(stored, S)
  BY <1>4, SumTyped
<1>6. SumFunctionOnSet(scaled, S) = SubUnits * sum
  <2>1. SubUnits \in Int /\ \A w \in S : scaled[w] = SubUnits * stored[w]
    BY <1>1, <1>3
  <2>2. SumFunctionOnSet(scaled, S) = SubUnits * SumFunctionOnSet(stored, S)
    BY <1>4, <2>1, SumScaled
  <2> QED BY <1>5, <2>2
<1>7. SumFunctionOnSet(opposite, S) = 0
  <2>1. PICK k \in Int : k = -1
    OBVIOUS
  <2>2. \A w \in S : opposite[w] = k * raw[w]
    BY <1>3, <2>1
  <2>3. SumFunctionOnSet(opposite, S) = k * SumFunctionOnSet(raw, S)
    BY <1>4, <2>2, SumScaled
  <2>4. k * 0 = 0
    OBVIOUS
  <2> QED BY <2>3, <2>4
<1>8. SumFunctionOnSet(error, S) = SubUnits * sum
  <2>1. \A w \in S : error[w] = scaled[w] + opposite[w]
    BY <1>3
  <2>2. SumFunctionOnSet(error, S) = SumFunctionOnSet(scaled, S) + SumFunctionOnSet(opposite, S)
    BY <1>4, <2>1, SumAdded
  <2>3. SubUnits * sum + 0 = SubUnits * sum
    BY <1>1
  <2> QED BY <1>6, <1>7, <2>2, <2>3
<1>9. PICK n \in Nat : n = Cardinality(S) * h
  <2>1. Cardinality(S) \in Nat
    BY FS_CardinalityType
  <2> QED BY <1>1, <2>1
<1>10. SubUnits * sum \in -n .. n
  <2>1. \A w \in S : error[w] \in -h .. h
    BY <1>3
  <2>2. SumFunctionOnSet(error, S) \in -(Cardinality(S) * h) .. Cardinality(S) * h
    BY <1>1, <2>1, SumWithin
  <2> QED BY <1>8, <1>9, <2>2
<1>11. SubUnits * Magnitude(sum) <= n
  <2>1. CASE sum < 0
    <3>1. SubUnits * (-sum) = -(SubUnits * sum) /\ SubUnits * sum \in Int
      BY <1>1
    <3>2. Magnitude(sum) = -sum
      BY <2>1 DEF Magnitude
    <3> QED BY <1>10, <3>1, <3>2
  <2>2. CASE ~(sum < 0)
    <3>1. Magnitude(sum) = sum
      BY <2>2 DEF Magnitude
    <3> QED BY <1>10, <3>1
  <2> QED BY <2>1, <2>2
<1> QED BY <1>5, <1>9, <1>11 DEF WithinRounding, h

\* The opposite amounts balance as well.
LEMMA MirroredBalance ==
  ASSUME NEW S, IsFiniteSet(S), NEW amount, NEW mirrored, \A w \in S : amount[w] \in Int,
         \A w \in S : mirrored[w] = -amount[w], WithinRounding(amount, S)
  PROVE  WithinRounding(mirrored, S)
<1>1. NumbersOn(amount, S)
  BY DEF NumbersOn
<1>2. PICK k \in Int : k = -1
  OBVIOUS
<1>3. \A w \in S : mirrored[w] = k * amount[w]
  BY <1>2
<1>4. SumFunctionOnSet(mirrored, S) = k * SumFunctionOnSet(amount, S)
  BY <1>1, <1>3, SumScaled
<1>5. PICK sum \in Int : sum = SumFunctionOnSet(amount, S)
  BY <1>1, SumTyped
<1>6. Magnitude(k * sum) = Magnitude(sum)
  BY <1>2 DEF Magnitude
<1> QED BY <1>4, <1>5, <1>6 DEF WithinRounding

LEMMA IdleBalances == CreationBalances(Idle)
<1>1. SumFunctionOnSet(Idle.amount, Idle.lines) = 0
  BY IdleKnowsNothing, SumOfNone
<1> QED BY <1>1, IdleKnowsNothing DEF CreationBalances

LEMMA PostKeepsBalance ==
  ASSUME BalanceInv, NEW r \in Requests, Post(r)
  PROVE  /\ \A o \in DOMAIN operations' : Balanced(operations'[o].amount, operations'[o].lines)
         /\ \A t \in Requests : CreationBalances(request'[t])
<1>1. TypeOK /\ LinesInv
  BY DEF BalanceInv, LinesInv, IsolationInv, IInv
<1>2. PICK id \in Nat : Inserted(id, request[r])
  BY <1>1, OperationInserted
<1>3. PICK q \in RequestState : q = request[r]
  BY <1>1 DEF TypeOK
<1>4. PICK stored : stored = operations'[id].amount
  OBVIOUS
<1>5. /\ DOMAIN operations' = DOMAIN operations \cup {id}
      /\ operations'[id].lines = q.lines
      /\ \A w \in Wallets : stored[w] = Quantize(q.amount[w])
  BY <1>2, <1>3, <1>4 DEF Inserted
<1>6. \A o \in DOMAIN operations : /\ operations'[o].lines = operations[o].lines
                                   /\ operations'[o].amount = operations[o].amount
  BY <1>2 DEF Inserted, SameOperation
<1>7. q.lines \subseteq Wallets /\ IsFiniteSet(q.lines)
  BY WalletAssumption, FS_Subset DEF RequestState
<1>8. Balanced(stored, q.lines)
  <2> SUFFICES ASSUME Cardinality({Currency[w] : w \in q.lines}) = 1
               PROVE  WithinRounding(stored, q.lines)
    BY DEF Balanced
  <2>1. CASE q.cancels = 0
    <3>1. /\ Cardinality({q.currency[w] : w \in q.lines}) = 1 =>
               SumFunctionOnSet(q.amount, q.lines) = 0
          /\ \A w \in q.lines : q.currency[w] = Currency[w]
      BY <1>3, <2>1 DEF BalanceInv, CreationBalances, Post
    <3>2. {q.currency[w] : w \in q.lines} = {Currency[w] : w \in q.lines}
      BY <3>1
    <3>3. SumFunctionOnSet(q.amount, q.lines) = 0
      BY <3>1, <3>2
    <3>4. \A w \in q.lines : stored[w] = Quantize(q.amount[w])
      BY <1>5, <1>7
    <3>5. \A w \in q.lines : q.amount[w] \in Int
      BY <1>7 DEF RequestState
    <3> QED BY <1>7, <3>3, <3>4, <3>5, RoundedBalance
  <2>2. CASE q.cancels # 0
    <3>1. /\ q.cancels \in DOMAIN operations
          /\ q.lines = operations[q.cancels].lines
          /\ q.amount = Mirrored(operations[q.cancels].amount)
      BY <1>1, <1>3, <2>2 DEF LinesInv, CancelHolds
    <3>2. PICK op \in Operation : op = operations[q.cancels]
      BY <1>1, <3>1 DEF TypeOK
    <3>3. op.amount \in [Wallets -> Int]
      BY DEF Operation
    <3>4. \A w \in q.lines : op.amount[w] \in Int /\ stored[w] = -op.amount[w]
      BY <1>5, <1>7, <3>1, <3>2, <3>3, MirroredExactly
    <3>5. WithinRounding(op.amount, q.lines)
      BY <3>1, <3>2 DEF BalanceInv, Balanced
    <3> QED BY <1>7, <3>4, <3>5, MirroredBalance
  <2> QED BY <2>1, <2>2
<1>9. \A o \in DOMAIN operations' : Balanced(operations'[o].amount, operations'[o].lines)
  BY <1>4, <1>5, <1>6, <1>8 DEF BalanceInv
<1>10. ASSUME NEW t \in Requests PROVE CreationBalances(request'[t])
  <2>1. Becomes(r, Idle)
    BY <1>1, RequestsReleased DEF Post
  <2> QED BY <2>1, IdleBalances DEF BalanceInv, Becomes
<1> QED BY <1>9, <1>10

\* What will be written is the same; before it is, the currencies are compared.
LEMMA SameBalance ==
  ASSUME NEW p, NEW q, CreationBalances(p),
         q.lines = p.lines, q.amount = p.amount, q.currency = p.currency, q.cancels = p.cancels,
         \/ q.stage = "locking"
         \/ q.cancels = 0 => \A w \in q.lines : q.currency[w] = Currency[w]
  PROVE  CreationBalances(q)
<1>1. {q.currency[w] : w \in q.lines} = {p.currency[w] : w \in p.lines}
  BY Zenon
<1> QED BY <1>1 DEF CreationBalances

\* One request has moved on, and nothing is committed.
LEMMA BalanceUntouched ==
  ASSUME BalanceInv, operations' = operations, NEW r \in Requests, NEW q,
         Becomes(r, q), CreationBalances(q)
  PROVE  /\ \A o \in DOMAIN operations' : Balanced(operations'[o].amount, operations'[o].lines)
         /\ \A t \in Requests : CreationBalances(request'[t])
BY DEF BalanceInv, Becomes

LEMMA BalanceInductive == BalanceInv /\ [Next]_vars => BalanceInv'
<1> DEFINE Held == /\ \A o \in DOMAIN operations' :
                        Balanced(operations'[o].amount, operations'[o].lines)
                   /\ \A t \in Requests : CreationBalances(request'[t])
<1> SUFFICES ASSUME BalanceInv, [Next]_vars PROVE Held
  BY LinesInductive DEF BalanceInv, Balanced, WithinRounding, Magnitude, CreationBalances
<1>0. TypeOK /\ LocksStayAtHome
  BY DEF BalanceInv, LinesInv, IsolationInv, IInv
<1>1. ASSUME NEW r \in Requests, Rollback(r) PROVE Held
  <2>1. Becomes(r, Idle) /\ operations' = operations
    BY <1>0, <1>1, RequestsReleased DEF Rollback
  <2> QED BY <2>1, IdleBalances, BalanceUntouched
<1>2. ASSUME NEW r \in Requests, Post(r) PROVE Held
  BY <1>2, PostKeepsBalance
<1>3. ASSUME NEW r \in Requests, LockWallet(r) PROVE Held
  <2>1. operations' = operations
    BY <1>0, <1>3, RequestAdvanced
  <2>2. PICK q : /\ Becomes(r, q) /\ q.stage = "locking"
                 /\ q.lines = request[r].lines /\ q.amount = request[r].amount
                 /\ q.currency = request[r].currency /\ q.cancels = request[r].cancels
    BY <1>0, <1>3, RequestAdvanced
  <2>3. CreationBalances(q)
    <3>1. CreationBalances(request[r])
      BY DEF BalanceInv
    <3> QED BY <2>2, <3>1, SameBalance
  <2> QED BY <2>1, <2>2, <2>3, BalanceUntouched
<1>4. ASSUME NEW r \in Requests, TakeReference(r) PROVE Held
  <2>1. operations' = operations
    BY <1>0, <1>4, RequestAdvanced
  <2>2. PICK q : /\ Becomes(r, q)
                 /\ q.lines = request[r].lines /\ q.amount = request[r].amount
                 /\ q.currency = request[r].currency /\ q.cancels = request[r].cancels
    BY <1>0, <1>4, RequestAdvanced
  <2>3. CurrenciesAgree(r)
    BY <1>4 DEF TakeReference
  <2>4. CreationBalances(q)
    <3>1. CreationBalances(request[r])
      BY DEF BalanceInv
    <3>2. q.cancels = 0 => \A w \in q.lines : q.currency[w] = Currency[w]
      BY <2>2, <2>3 DEF CurrenciesAgree
    <3> QED BY <2>2, <3>1, <3>2, SameBalance
  <2> QED BY <2>1, <2>2, <2>4, BalanceUntouched
<1>5. CASE \E r \in Requests, c \in Companies, p \in Payloads : StartCreate(r, c, p)
  <2>1. PICK r \in Requests, c \in Companies, p \in Payloads : StartCreate(r, c, p)
    BY <1>5
  <2>2. operations' = operations
    BY <1>0, <2>1, CreationStarted
  <2>3. PICK q : /\ Becomes(r, q) /\ q.stage = "locking"
                 /\ q.lines = p.lines /\ q.amount = p.amount /\ q.currency = p.currency
    BY <1>0, <2>1, CreationStarted
  <2>4. p \in Payload /\ WellFormed(p)
    BY <2>1, RequestAssumption DEF StartCreate
  <2>5. Cardinality({p.currency[w] : w \in p.lines}) = 1 => SumFunctionOnSet(p.amount, p.lines) = 0
    BY <2>4, BodyBalances
  <2>7. CreationBalances(q)
    BY <2>3, <2>5 DEF CreationBalances
  <2> QED BY <2>1, <2>2, <2>3, <2>7, BalanceUntouched
<1>6. CASE \E r \in Requests, o \in DOMAIN operations : StartCancel(r, o)
  <2>1. PICK r \in Requests, o \in DOMAIN operations : StartCancel(r, o)
    BY <1>6
  <2>2. PICK q : Becomes(r, q) /\ q.cancels = o
    BY <1>0, <2>1, CancellationStarted
  <2>3. CreationBalances(q)
    BY <1>0, <2>2 DEF CreationBalances, TypeOK
  <2>4. operations' = operations
    BY <1>0, <2>1, CancellationStarted
  <2> QED BY <2>2, <2>3, <2>4, BalanceUntouched
<1>7. CASE \/ \E w \in Wallets, n \in InitialBalances : CreateWallet(w, n)
           \/ \E w \in Wallets, s \in {"active", "inactive"} : SetWalletStatus(w, s)
           \/ UNCHANGED vars
  <2>1. UNCHANGED <<operations, request>>
    BY <1>7 DEF CreateWallet, SetWalletStatus, vars
  <2> QED BY <2>1 DEF BalanceInv
<1>8. CASE \E r \in Requests : Proceed(r) \/ Disconnect(r)
  <2>1. PICK r \in Requests : Proceed(r) \/ Disconnect(r)
    BY <1>8
  <2>2. LockRefused(r) \/ NumberingRefused(r) \/ PostRefused(r) \/ DeadlockVictim(r)
          \/ Disconnect(r) => Rollback(r)
    BY DEF LockRefused, NumberingRefused, PostRefused, DeadlockVictim, Disconnect
  <2> QED BY <1>1, <1>2, <1>3, <1>4, <2>1, <2>2 DEF Proceed
<1> QED BY <1>5, <1>6, <1>7, <1>8 DEF Next

\* Whatever bodies are sent, in amounts as fine as they like and whatever currencies
\* they declare, an operation between wallets of one currency, and its reversal,
\* create or destroy no more money than half a cent a line, and none when amounts are
\* whole cents: what apply_movement's rounding line by line can cost and no more.
THEOREM OperationsAreAlwaysBalanced == Spec => []OperationsAreBalanced
<1>1. Init => BalanceInv
  <2> SUFFICES ASSUME Init
               PROVE  /\ \A o \in DOMAIN operations : Balanced(operations[o].amount, operations[o].lines)
                      /\ \A r \in Requests : CreationBalances(request[r])
    BY InitLined DEF BalanceInv
  <2>1. DOMAIN operations = {}
    BY DEF Init
  <2> QED BY <2>1, IdleBalances DEF Init
<1>2. BalanceInv => OperationsAreBalanced
  BY DEF BalanceInv, Balanced, WithinRounding, OperationsAreBalanced, SingleCurrency, Surplus
<1>3. BalanceInv /\ [Next]_vars => BalanceInv'
  BY BalanceInductive
<1> QED BY <1>1, <1>2, <1>3, PTL DEF Spec
===========================================================================
