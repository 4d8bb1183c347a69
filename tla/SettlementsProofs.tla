------------------------- MODULE SettlementsProofs -------------------------
(***************************************************************************)
(* Entries, transfers and payments, for any number of requests, wallets,   *)
(* clients and orders.                                                     *)
(***************************************************************************)
EXTENDS SettlementRaces, DataLemmas, MoneyLemmas, FiniteSetTheorems, TLAPS

---------------------------------------------------------------------------
(* What the operators of entry_service and of the orders return.           *)

AllocationRow == [entry : Nat, order : Nat, currency : Currencies, amount : Nat \ {0}]

Lines == [Wallets -> Nat]

\* The two parties of the collaboration.
LEMMA TwoParties ==
  ASSUME NEW c \in Companies
  PROVE  /\ OtherParty(c) \in Companies /\ OtherParty(c) # c
         /\ {c, OtherParty(c)} = Companies
<1> DEFINE rest == Companies \ {c}
<1>1. IsFiniteSet(rest) /\ Cardinality(rest) = 1
  <2>1. IsFiniteSet(Companies) /\ Cardinality(Companies) = 2
    BY PartiesAssumption
  <2>2. IsFiniteSet(rest) /\ Cardinality(rest) = 2 - 1
    BY <2>1, FS_RemoveElement
  <2> QED BY <2>2
<1>2. PICK d : rest = {d}
  <2> HIDE DEF rest
  <2> QED BY <1>1, FS_Singleton
<1>3. d \in Companies /\ d # c /\ Companies = {c, d}
  BY <1>2
<1>4. OtherParty(c) \in Companies /\ OtherParty(c) # c
  BY <1>3 DEF OtherParty
<1> QED BY <1>3, <1>4

LEMMA SomeParty == (CHOOSE c \in Companies : TRUE) \in Companies
<1>1. Companies # {}
  BY PartiesAssumption, FS_EmptySet
<1> QED BY <1>1

LEMMA AvailableInt ==
  ASSUME NEW lines \in Lines, NEW rows, rows \subseteq AllocationRow, IsFiniteSet(rows), NEW c
  PROVE  Available(lines, rows, c) \in Int
<1> DEFINE received == [w \in WalletsIn(c) |-> lines[w]]
           given == [a \in {x \in rows : x.currency = c} |-> a.amount]
<1>1. IsFiniteSet(DOMAIN received)
  BY WalletsAssumption, FS_Subset DEF WalletsIn
<1>2. \A w \in DOMAIN received : received[w] \in Int
  BY DEF Lines, WalletsIn
<1>3. IsFiniteSet(DOMAIN given)
  BY FS_Subset
<1>4. \A a \in DOMAIN given : given[a] \in Int
  BY DEF AllocationRow
<1> HIDE DEF received, given
<1>5. SumFunction(received) \in Int /\ SumFunction(given) \in Int
  BY <1>1, <1>2, <1>3, <1>4, TotalTyped
<1> QED BY <1>5 DEF Available, received, given

\* Without allocations all that was received is available.
LEMMA AvailableWhole ==
  ASSUME NEW lines \in Lines, NEW c
  PROVE  Available(lines, {}, c) \in Nat
<1> DEFINE received == [w \in WalletsIn(c) |-> lines[w]]
           given == [a \in {x \in {} : x.currency = c} |-> a.amount]
<1>1. IsFiniteSet(DOMAIN received)
  BY WalletsAssumption, FS_Subset DEF WalletsIn
<1>2. \A w \in DOMAIN received : received[w] \in Nat
  BY DEF Lines, WalletsIn
<1>3. DOMAIN given = {}
  OBVIOUS
<1> HIDE DEF received, given
<1>4. SumFunction(received) \in Nat /\ SumFunction(given) = 0
  BY <1>1, <1>2, <1>3, TotalTyped, TotalOfNone
<1> QED BY <1>4 DEF Available, received, given

LEMMA StatusTyped ==
  ASSUME NEW lines, NEW rows
  PROVE  recompute_status(lines, rows) \in MERGEABLE_STATUSES \cup {"consumed"}
BY DEF recompute_status, MERGEABLE_STATUSES

LEMMA RemaindersTyped ==
  ASSUME NEW lines \in Lines, NEW rows, NEW rest \in Remainders(lines, rows)
  PROVE  rest \in Lines
<1> DEFINE whole == [w \in Wallets |-> lines[w]]
           top == SumFunction(whole)
<1>1. IsFiniteSet(DOMAIN whole) /\ \A w \in DOMAIN whole : whole[w] \in Nat
  BY WalletsAssumption DEF Lines
<1>2. top \in Nat
  <2> HIDE DEF whole
  <2> QED BY <1>1, TotalTyped
<1>3. rest \in [Wallets -> 0 .. top]
  BY DEF Remainders
<1> HIDE DEF top
<1> QED BY <1>2, <1>3 DEF Lines

\* Money moved on the wallets leaves rows of wallets.
LEMMA MovedTyped ==
  ASSUME wallet \in [Wallets -> WalletRow], NEW raw \in [Wallets -> Int], CanMove(raw)
  PROVE  Moved(raw) \in [Wallets -> WalletRow]
<1> SUFFICES ASSUME NEW w \in Wallets, raw[w] # 0
             PROVE  [wallet[w] EXCEPT !.balance = Applied(wallet[w], raw[w])] \in WalletRow
  BY DEF Moved
<1>1. Applied(wallet[w], raw[w]) \in Nat
  BY AppliedNat DEF CanMove
<1> QED BY <1>1 DEF WalletRow

---------------------------------------------------------------------------
(* The inductive invariant.                                                *)

SharedRow == [order : Nat, currency : Currencies, amount : Nat,
              debtor : Companies, creditor : Companies]

MovementRow == [order : Nat, reversal : BOOLEAN, delta : Int, before : Int, after : Int]

Verdicts == {"rejected", "cancelled"}

RowsTyped ==
  /\ wallet \in [Wallets -> WalletRow]
  /\ entries \in Seq(Entry)
  /\ allocations \subseteq AllocationRow /\ IsFiniteSet(allocations)
  /\ orders \in Seq(Order)
  /\ shared \in Seq(SharedRow)
  /\ client \in [Companies -> [Phones -> ClientRow]]

\* What rows name exists; a client's reversals are those of closed orders.
RowsNamed ==
  /\ \A a \in allocations : a.entry \in DOMAIN entries /\ a.order \in DOMAIN orders
  /\ \A o \in DOMAIN orders : orders[o].entry \in 0 .. Len(entries)
  /\ \A i \in DOMAIN shared : shared[i].order \in DOMAIN orders
  /\ \A c \in Companies, p \in Phones : \A i \in DOMAIN client[c][p].movements :
       LET m == client[c][p].movements[i]
       IN m.order \in DOMAIN orders /\ (m.reversal => orders[m.order].status \in Verdicts)

\* An order being created names an entry, when it takes something of it, and a client,
\* when it changes its balance.
CreationHolds(q) ==
  /\ q.order.entry \in 0 .. Len(entries)
  /\ q.order.status = "pending"
  /\ q.allocation # 0 => q.order.entry # 0
  /\ q.entryStatus # "kept" => q.order.entry # 0
  /\ q.stage = "reading" => q.order.phone # NoPhone

\* An order being closed is locked, so it is still as it was, and what it charged its
\* client is what was read.
ClosingHolds(q) ==
  /\ q.id \in DOMAIN orders
  /\ orders[q.id].status = "pending"
  /\ q.order.status \in Verdicts
  /\ q.order = [orders[q.id] EXCEPT !.status = q.order.status]
  /\ q.entryStatus # "kept" => q.order.entry # 0
  /\ q.stage = "reading" => q.order.phone # NoPhone
  /\ q.stage = "writing" /\ q.order.phone # NoPhone => q.delta = -Charged(q.id)

RequestHolds(q) ==
  /\ q.does = "create" => CreationHolds(q)
  /\ q.does = "close" => ClosingHolds(q)
  /\ q.does = "merge" => q.sources # {} /\ q.sources \subseteq DOMAIN entries
  /\ q.does = "refund" => q.id \in DOMAIN entries
  /\ q.does \in {"merge", "refund"} => q.stage = "writing"

\* The orders' locks.
ClosersApart ==
  \A r, s \in Requests :
    request[r].does = "close" /\ request[s].does = "close" /\ request[r].id = request[s].id => r = s

RequestsHold ==
  /\ request \in [Requests -> Transaction]
  /\ \A r \in Requests : RequestHolds(request[r])
  /\ ClosersApart

RowsAgree == ApprovalsAreSettled /\ AllocationsFollowDecisions /\ ClosedOrdersLeaveClientsEven

IInv == RowsTyped /\ RowsNamed /\ RequestsHold /\ RowsAgree

LEMMA RowsAreRecords ==
  ASSUME RowsTyped
  PROVE  /\ Len(entries) \in Nat /\ DOMAIN entries = 1 .. Len(entries)
         /\ \A e \in DOMAIN entries : entries[e] \in Entry /\ entries[e].amount \in Lines
         /\ Len(orders) \in Nat /\ DOMAIN orders = 1 .. Len(orders)
         /\ \A o \in DOMAIN orders : orders[o] \in Order
         /\ \A i \in DOMAIN shared : shared[i] \in SharedRow
<1>1. \A e \in DOMAIN entries : entries[e] \in Entry
  BY DEF RowsTyped
<1>2. \A e \in DOMAIN entries : entries[e].amount \in Lines
  BY <1>1 DEF Entry, Lines
<1> QED BY <1>1, <1>2 DEF RowsTyped

LEMMA AllocationsOfTyped ==
  ASSUME RowsTyped, NEW e
  PROVE  AllocationsOf(e) \subseteq AllocationRow /\ IsFiniteSet(AllocationsOf(e))
BY FS_Subset DEF AllocationsOf, RowsTyped

LEMMA NoOrderTyped == NoOrder \in Order
<1>1. Main \in Currencies
  BY PartiesAssumption
<1> QED BY <1>1, SomeParty DEF NoOrder, Order, OrderStatuses

LEMMA NoClientTyped == NoClient \in ClientRow
<1>1. <<>> \in Seq(MovementRow)
  OBVIOUS
<1> QED BY <1>1 DEF NoClient, ClientRow, MovementRow

LEMMA IdleTyped == Idle \in Transaction /\ Idle.does = "nothing" /\ RequestHolds(Idle)
<1>1. [w \in Wallets |-> 0] \in [Wallets -> Nat]
  OBVIOUS
<1>2. Idle \in Transaction
  BY <1>1, NoOrderTyped, NoClientTyped DEF Idle, Transaction
<1>3. Idle.does = "nothing"
  BY DEF Idle
<1> QED BY <1>2, <1>3 DEF RequestHolds

LEMMA InitHolds == Init => IInv
<1> SUFFICES ASSUME Init PROVE IInv
  OBVIOUS
<1>1. /\ entries = <<>> /\ orders = <<>> /\ shared = <<>> /\ allocations = {}
      /\ DOMAIN entries = {} /\ DOMAIN orders = {} /\ DOMAIN shared = {}
      /\ entries \in Seq(Entry) /\ orders \in Seq(Order) /\ shared \in Seq(SharedRow)
  BY DEF Init
<1>2. RowsTyped
  BY <1>1, PartiesAssumption, NoClientTyped, FS_EmptySet DEF Init, RowsTyped
<1>3. RowsNamed
  <2>1. \A c \in Companies, p \in Phones : DOMAIN client[c][p].movements = {}
    BY DEF Init, NoClient
  <2> QED BY <1>1, <2>1 DEF RowsNamed
<1>4. RequestsHold
  BY IdleTyped DEF Init, RequestsHold, ClosersApart
<1>5. RowsAgree
  BY <1>1 DEF RowsAgree, ApprovalsAreSettled, AllocationsFollowDecisions, ClosedOrdersLeaveClientsEven
<1> QED BY <1>2, <1>3, <1>4, <1>5 DEF IInv

---------------------------------------------------------------------------
(* Steps that write no row.                                                *)

LEMMA ChargedSame == ASSUME NEW o, UNCHANGED <<orders, client>> PROVE Charged(o)' = Charged(o)
BY DEF Charged

LEMMA ChargedStays ==
  ASSUME NEW o, orders'[o] = orders[o], UNCHANGED client
  PROVE  Charged(o)' = Charged(o)
BY DEF Charged

\* What rows that stay say of each other stays.
LEMMA ApprovalsStay ==
  ASSUME ApprovalsAreSettled, UNCHANGED <<orders, shared>>
  PROVE  ApprovalsAreSettled'
BY DEF ApprovalsAreSettled

LEMMA AllocationsStay ==
  ASSUME AllocationsFollowDecisions, UNCHANGED <<orders, allocations>>
  PROVE  AllocationsFollowDecisions'
BY DEF AllocationsFollowDecisions, OwnAllocation

LEMMA ClientsStayEven ==
  ASSUME ClosedOrdersLeaveClientsEven, UNCHANGED <<orders, client>>
  PROVE  ClosedOrdersLeaveClientsEven'
<1>1. ASSUME NEW o PROVE NetCharge(o)' = NetCharge(o)
  BY DEF NetCharge
<1> QED BY <1>1 DEF ClosedOrdersLeaveClientsEven

LEMMA SameRowsAgree ==
  ASSUME IInv, UNCHANGED <<wallet, entries, allocations, orders, shared, client>>
  PROVE  RowsTyped' /\ RowsNamed' /\ RowsAgree'
<1>1. RowsTyped' /\ RowsNamed'
  BY DEF IInv, RowsTyped, RowsNamed
<1>2. RowsAgree'
  BY ApprovalsStay, AllocationsStay, ClientsStayEven DEF IInv, RowsAgree
<1> QED BY <1>1, <1>2

\* A request changes what it is about to write.
LEMMA RequestBecomes ==
  ASSUME IInv, NEW r \in Requests, NEW q \in Transaction, RequestHolds(q),
         request' = [request EXCEPT ![r] = q],
         q.does = "close" =>
           \A s \in Requests : s # r /\ request[s].does = "close" => request[s].id # q.id,
         UNCHANGED <<wallet, entries, allocations, orders, shared, client>>
  PROVE  IInv'
<1>1. /\ request' \in [Requests -> Transaction] /\ request'[r] = q
      /\ \A s \in Requests : s # r => request'[s] = request[s]
  BY DEF IInv, RequestsHold
<1>2. ASSUME NEW s \in Requests PROVE RequestHolds(request[s])'
  <2>1. PICK p \in Transaction : p = request'[s] /\ RequestHolds(p)
    BY <1>1 DEF IInv, RequestsHold
  <2>2. RequestHolds(p)'
    BY <2>1, ChargedSame DEF RequestHolds, CreationHolds, ClosingHolds
  <2> QED BY <2>1, <2>2 DEF RequestHolds, CreationHolds, ClosingHolds
<1>3. ClosersApart'
  <2> SUFFICES ASSUME NEW s \in Requests, NEW t \in Requests,
                      request'[s].does = "close", request'[t].does = "close",
                      request'[s].id = request'[t].id
               PROVE  s = t
    BY DEF ClosersApart
  <2>1. CASE s = r \/ t = r
    BY <1>1, <2>1
  <2>2. CASE s # r /\ t # r
    BY <1>1, <2>2 DEF IInv, RequestsHold, ClosersApart
  <2> QED BY <2>1, <2>2
<1> QED BY <1>1, <1>2, <1>3, SameRowsAgree DEF IInv, RequestsHold

LEMMA Aborts == ASSUME IInv, NEW r \in Requests, Abort(r) PROVE IInv'
<1>1. Idle.does # "close"
  BY IdleTyped
<1> QED BY <1>1, IdleTyped, RequestBecomes DEF Abort

\* The client's row as it is read.
LEMMA ClientIsRow ==
  ASSUME RowsTyped, NEW c \in Companies, NEW p \in Phones
  PROVE  client[c][p] \in ClientRow /\ client[c][p].movements \in Seq(MovementRow)
<1>1. client[c][p] \in ClientRow
  BY DEF RowsTyped
<1> QED BY <1>1 DEF ClientRow, MovementRow

\* The sum of the movements of a row that are named by a set of indices.
DeltaOf(movements, J) == SumFunction([i \in J |-> movements[i].delta])

LEMMA DeltaInt ==
  ASSUME NEW ms \in Seq(MovementRow), NEW J \in SUBSET DOMAIN ms
  PROVE  DeltaOf(ms, J) \in Int
<1> DEFINE f == [i \in J |-> ms[i].delta]
<1>1. IsFiniteSet(DOMAIN ms)
  <2>1. DOMAIN ms = 1 .. Len(ms) /\ Len(ms) \in Nat
    OBVIOUS
  <2> QED BY <2>1, FS_Interval
<1>2. IsFiniteSet(DOMAIN f)
  BY <1>1, FS_Subset
<1>3. \A i \in DOMAIN f : f[i] \in Int
  <2>1. \A i \in J : ms[i] \in MovementRow
    OBVIOUS
  <2> QED BY <2>1 DEF MovementRow
<1> HIDE DEF f
<1>4. SumFunction(f) \in Int
  BY <1>2, <1>3, TotalTyped
<1> QED BY <1>4 DEF DeltaOf, f

LEMMA ChargedInt ==
  ASSUME RowsTyped, NEW o \in DOMAIN orders, orders[o].phone # NoPhone
  PROVE  Charged(o) \in Int
<1>1. orders[o].company \in Companies /\ orders[o].phone \in Phones
  BY RowsAreRecords DEF Order
<1> DEFINE ms == client[orders[o].company][orders[o].phone].movements
           own == {i \in DOMAIN ms : ms[i].order = o /\ ~ms[i].reversal}
<1>2. ms \in Seq(MovementRow)
  BY <1>1, ClientIsRow
<1>3. Charged(o) = DeltaOf(ms, own)
  BY DEF Charged, DeltaOf
<1>4. own \in SUBSET DOMAIN ms
  OBVIOUS
<1> HIDE DEF ms, own
<1> QED BY <1>2, <1>3, <1>4, DeltaInt

LEMMA ClientIsRead == ASSUME IInv, NEW r \in Requests, ReadClient(r) PROVE IInv'
<1>1. PICK q \in Transaction : q = request[r] /\ RequestHolds(q)
  BY DEF IInv, RequestsHold
<1>2. q.stage = "reading" /\ (q.does = "create" \/ q.does = "close")
  BY <1>1 DEF ReadClient, RequestHolds, Transaction
<1> DEFINE order == IF q.does = "create" THEN q.order ELSE orders[q.id]
           delta == IF q.does = "create" THEN q.delta ELSE Reversal(q.id)
           p == [q EXCEPT !.stage = "writing", !.seen = client[order.company][order.phone],
                          !.delta = delta]
<1>3. /\ request' = [request EXCEPT ![r] = p]
      /\ UNCHANGED <<wallet, entries, allocations, orders, shared, client>>
  BY <1>1 DEF ReadClient
<1>4. q.order \in Order /\ q.delta \in Int
  BY DEF Transaction
<1>5. /\ q.does = "close" => /\ q.id \in DOMAIN orders /\ orders[q.id] \in Order
                             /\ orders[q.id].phone = q.order.phone
                             /\ orders[q.id].company = q.order.company
      /\ q.order.phone \in Phones /\ q.order.company \in Companies
  <2>1. q.does = "close" => q.id \in DOMAIN orders /\ q.order = [orders[q.id] EXCEPT !.status = q.order.status]
    BY <1>1 DEF RequestHolds, ClosingHolds
  <2>2. q.does = "close" => orders[q.id] \in Order
    BY <2>1, RowsAreRecords DEF IInv
  <2>3. q.does = "close" => orders[q.id].phone = q.order.phone /\ orders[q.id].company = q.order.company
    <3> SUFFICES ASSUME q.does = "close"
                 PROVE  orders[q.id].phone = q.order.phone /\ orders[q.id].company = q.order.company
      OBVIOUS
    <3>1. [orders[q.id] EXCEPT !.status = q.order.status].phone = orders[q.id].phone
          /\ [orders[q.id] EXCEPT !.status = q.order.status].company = orders[q.id].company
      BY <2>2 DEF Order
    <3> QED BY <2>1, <3>1
  <2>4. q.order.phone # NoPhone
    BY <1>1, <1>2 DEF RequestHolds, CreationHolds, ClosingHolds
  <2> QED BY <1>4, <2>1, <2>2, <2>3, <2>4 DEF Order
<1>6. order.company = q.order.company /\ order.phone = q.order.phone
  BY <1>2, <1>5
<1>7. client[order.company][order.phone] \in ClientRow
  BY <1>5, <1>6, ClientIsRow DEF IInv
<1>8. delta \in Int
  <2>1. CASE q.does = "create"
    BY <1>4, <2>1
  <2>2. CASE q.does = "close"
    <3>1. Charged(q.id) \in Int
      BY <1>5, <2>2, ChargedInt, PartiesAssumption DEF IInv
    <3> QED BY <2>2, <3>1 DEF Reversal
  <2> QED BY <1>2, <2>1, <2>2
<1>9. p \in Transaction
  BY <1>7, <1>8 DEF Transaction
<1>10. /\ p.does = q.does /\ p.stage = "writing" /\ p.order = q.order /\ p.id = q.id
       /\ p.allocation = q.allocation /\ p.entryStatus = q.entryStatus /\ p.delta = delta
  BY DEF Transaction
<1>11. p.does = "close" => p.delta = -Charged(p.id)
  BY <1>10 DEF Reversal
<1> HIDE DEF p, delta, order
<1>12. RequestHolds(p)
  BY <1>1, <1>2, <1>10, <1>11 DEF RequestHolds, CreationHolds, ClosingHolds
<1>13. p.does = "close" =>
         \A s \in Requests : s # r /\ request[s].does = "close" => request[s].id # p.id
  BY <1>1, <1>10 DEF IInv, RequestsHold, ClosersApart
<1> QED BY <1>3, <1>9, <1>12, <1>13, RequestBecomes

---------------------------------------------------------------------------
(* Requests that start.                                                    *)

\* A request that was idle begins.
LEMMA RequestStarts ==
  ASSUME IInv, NEW r \in Requests, NEW q \in Transaction, RequestHolds(q), q.does # "close",
         request' = [request EXCEPT ![r] = q],
         UNCHANGED <<wallet, entries, allocations, orders, shared, client>>
  PROVE  IInv'
BY RequestBecomes

LEMMA BodyTyped ==
  ASSUME NEW b \in Bodies
  PROVE  /\ b \in Body /\ b.company \in Companies /\ b.amount \in Nat \ {0}
         /\ b.currency \in Currencies /\ b.target \in Currencies
         /\ b.phone \in Phones \cup {NoPhone} /\ b.wallet \in Wallets \cup {NoWalletChosen}
<1>1. b \in Body
  BY PartiesAssumption
<1> QED BY <1>1 DEF Body

LEMMA FreeInt ==
  ASSUME RowsTyped, NEW b \in Bodies, NEW e \in DOMAIN entries
  PROVE  Free(b, e) \in Int
<1>1. Available(entries[e].amount, AllocationsOf(e), b.currency) \in Int
  BY AvailableInt, AllocationsOfTyped, RowsAreRecords
<1> QED BY <1>1, QuantizeExact DEF Free

LEMMA AllocatedTyped ==
  ASSUME RowsTyped, NEW b \in Bodies, NEW e \in 0 .. Len(entries)
  PROVE  Allocated(b, e) \in Nat /\ (Allocated(b, e) # 0 => e # 0)
<1>1. CASE e = 0
  BY <1>1 DEF Allocated
<1>2. CASE e # 0
  <2>1. e \in DOMAIN entries
    BY <1>2, RowsAreRecords
  <2>2. Free(b, e) \in Int /\ b.amount \in Int
    BY <2>1, FreeInt, BodyTyped
  <2>3. Quantize(Free(b, e)) \in Int /\ Quantize(b.amount) \in Int
    BY <2>2, QuantizeInt
  <2> QED BY <1>2, <2>3 DEF Allocated
<1> QED BY <1>1, <1>2

LEMMA ClientDeltaTyped ==
  ASSUME RowsTyped, NEW b \in Bodies, NEW e \in 0 .. Len(entries), Acceptable(b, e)
  PROVE  ClientDelta(b, e) \in Int /\ (ClientDelta(b, e) # 0 => ClientOf(b, e) # NoPhone)
<1>1. b.amount \in Int /\ Quantize(b.amount) \in Int
  <2>1. b.amount \in Int
    BY BodyTyped
  <2> QED BY <2>1, QuantizeInt
<1>2. CASE e = 0
  <2>1. ~Exceeds(b, e) /\ ~LeavesReliquat(b, e)
    BY <1>2 DEF Exceeds, LeavesReliquat
  <2>2. ClientDelta(b, e) = IF b.phone # NoPhone THEN Quantize(b.amount) ELSE 0
    BY <1>2, <2>1 DEF ClientDelta
  <2> QED BY <1>1, <1>2, <2>2 DEF ClientOf
<1>3. CASE e # 0
  <2>1. e \in DOMAIN entries
    BY <1>3, RowsAreRecords
  <2>2. Free(b, e) \in Int
    BY <2>1, FreeInt
  <2>3. b.amount - Free(b, e) \in Int /\ Free(b, e) - b.amount \in Int
    BY <1>1, <2>2
  <2>4. Quantize(b.amount - Free(b, e)) \in Int /\ Quantize(Free(b, e) - b.amount) \in Int
    BY <2>3, QuantizeInt
  <2>5. CASE Exceeds(b, e)
    <3>1. ~LeavesReliquat(b, e)
      BY <1>1, <2>2, <2>5 DEF Exceeds, LeavesReliquat
    <3>2. ClientDelta(b, e) = Quantize(b.amount - Free(b, e))
      BY <1>3, <2>5, <3>1 DEF ClientDelta
    <3> QED BY <2>4, <2>5, <3>2 DEF Acceptable
  <2>6. CASE ~Exceeds(b, e) /\ LeavesReliquat(b, e) /\ b.reliquat = "client_credit"
    <3>1. ClientDelta(b, e) = -Quantize(Free(b, e) - b.amount)
      BY <1>3, <2>6 DEF ClientDelta
    <3> QED BY <2>4, <2>6, <3>1 DEF Acceptable
  <2>7. CASE ~Exceeds(b, e) /\ ~(LeavesReliquat(b, e) /\ b.reliquat = "client_credit")
    BY <1>3, <2>7 DEF ClientDelta
  <2> QED BY <2>5, <2>6, <2>7
<1> QED BY <1>2, <1>3

LEMMA ConvertedTyped ==
  ASSUME NEW amount \in Nat, NEW from, NEW to, NEW rate \in Nat
  PROVE  Converted(amount, from, to, rate) \in Nat
<1>1. amount * rate \in Nat
  OBVIOUS
<1>2. Quantize(amount) \in Nat /\ Quantize(amount * rate) \in Nat
  BY <1>1, QuantizeInt
<1> QED BY <1>2 DEF Converted

LEMMA OrderStarts ==
  ASSUME IInv, NEW r \in Requests, NEW b \in Bodies, NEW e \in 0 .. Len(entries),
         NEW target \in Currencies, NEW converted \in Nat, NEW settles \in BOOLEAN,
         NEW chosen \in Wallets \cup {NoWalletChosen},
         StartOrder(r, b, e, target, converted, settles, chosen)
  PROVE  IInv'
<1> DEFINE allocated == Allocated(b, e)
           delta == ClientDelta(b, e)
           row == [entry |-> e, order |-> Len(orders) + 1,
                   currency |-> b.currency, amount |-> allocated]
           phone == IF delta = 0 THEN NoPhone ELSE ClientOf(b, e)
           status == IF allocated = 0 THEN "kept" ELSE StatusUpdate(e, AllocationsOf(e) \cup {row})
           stage == IF delta = 0 THEN "writing" ELSE "reading"
           order == [kind |-> b.kind, company |-> b.company, entry |-> e,
                     phone |-> phone,
                     amount |-> Quantize(b.amount), currency |-> b.currency,
                     target |-> target, converted |-> converted,
                     settles |-> settles, wallet |-> chosen, status |-> "pending"]
           q == [Idle EXCEPT !.does = "create", !.stage = stage, !.order = order,
                             !.allocation = allocated, !.delta = delta, !.entryStatus = status]
<1>1. RowsTyped /\ Acceptable(b, e)
  BY DEF IInv, StartOrder
<1>2. request' = [request EXCEPT ![r] = q]
  BY DEF StartOrder
<1>3. UNCHANGED <<wallet, entries, allocations, orders, shared, client>>
  BY DEF StartOrder
<1>4. allocated \in Nat /\ (allocated # 0 => e # 0)
  BY <1>1, AllocatedTyped
<1>5. delta \in Int /\ (delta # 0 => ClientOf(b, e) # NoPhone)
  BY <1>1, ClientDeltaTyped
<1>6. Quantize(b.amount) \in Nat
  <2>1. b.amount \in Int /\ b.amount >= 0
    BY BodyTyped
  <2> QED BY <2>1, QuantizeInt
<1>7. status \in EntryStatuses \cup {"kept"} /\ (status # "kept" => e # 0)
  BY <1>4, StatusTyped DEF StatusUpdate, EntryStatuses, MERGEABLE_STATUSES
<1>8. phone \in Phones \cup {NoPhone} /\ (delta # 0 => phone # NoPhone)
  <2>1. e # 0 => entries[e].phone \in Phones \cup {NoPhone}
    <3>1. e # 0 => entries[e] \in Entry
      BY <1>1, RowsAreRecords
    <3> QED BY <3>1 DEF Entry
  <2> QED BY <1>5, <2>1, BodyTyped DEF ClientOf
<1>9. stage \in {"reading", "writing"} /\ (stage = "reading" => delta # 0)
  OBVIOUS
<1>10. b.kind \in {"transfer", "payment"}
  BY BodyTyped DEF Body
<1> HIDE DEF allocated, delta, phone, status, stage
<1>11. e \in Nat
  BY <1>1, RowsAreRecords
<1>12. order \in Order
  BY <1>6, <1>8, <1>10, <1>11, BodyTyped DEF Order, OrderStatuses
<1>13. /\ order.entry = e /\ order.status = "pending" /\ order.phone = phone
  OBVIOUS
<1> HIDE DEF order
<1>14. q \in Transaction
  BY <1>4, <1>5, <1>7, <1>9, <1>12, IdleTyped DEF Transaction
<1>15. /\ q.does = "create" /\ q.stage = stage /\ q.order = order /\ q.allocation = allocated
       /\ q.entryStatus = status
  BY IdleTyped DEF Transaction
<1> HIDE DEF q
<1>16. RequestHolds(q)
  BY <1>4, <1>7, <1>8, <1>9, <1>13, <1>15 DEF RequestHolds, CreationHolds
<1> QED BY <1>2, <1>3, <1>14, <1>15, <1>16, RequestStarts

LEMMA TransferStarts ==
  ASSUME IInv, NEW r \in Requests, NEW b \in Bodies, NEW e \in 0 .. Len(entries),
         StartTransfer(r, b, e)
  PROVE  IInv'
<1> DEFINE rate == PrivateRate[b.company][<<b.currency, b.target>>]
           converted == Converted(b.amount, b.currency, b.target, rate)
<1>1. rate \in Nat
  <2>1. <<b.currency, b.target>> \in Currencies \X Currencies
    BY BodyTyped
  <2>2. PrivateRate[b.company] \in [Currencies \X Currencies -> Nat]
    BY BodyTyped, PartiesAssumption
  <2> QED BY <2>1, <2>2
<1> HIDE DEF rate
<1>2. converted \in Nat
  BY <1>1, BodyTyped, ConvertedTyped
<1>3. StartOrder(r, b, e, b.target, converted, FALSE, NoWalletChosen)
  BY DEF StartTransfer, rate
<1> HIDE DEF converted
<1> QED BY <1>2, <1>3, BodyTyped, OrderStarts

LEMMA PaymentStarts ==
  ASSUME IInv, NEW r \in Requests, NEW b \in Bodies, NEW e \in 0 .. Len(entries),
         StartPayment(r, b, e)
  PROVE  IInv'
<1> DEFINE converted == Converted(b.amount, b.currency, Main, CollaborativeRate)
           settles == Balance(b.company) < 0
<1>1. converted \in Nat
  BY BodyTyped, ConvertedTyped, PartiesAssumption
<1>2. StartOrder(r, b, e, Main, converted, settles, b.wallet)
  BY DEF StartPayment
<1>3. settles \in BOOLEAN
  OBVIOUS
<1>4. Main \in Currencies
  BY PartiesAssumption
<1> HIDE DEF converted, settles
<1> QED BY <1>1, <1>2, <1>3, <1>4, BodyTyped, OrderStarts

LEMMA MergeStarts ==
  ASSUME IInv, NEW r \in Requests, NEW sources \in SUBSET DOMAIN entries, StartMerge(r, sources)
  PROVE  IInv'
<1>1. RowsTyped
  BY DEF IInv
<1>2. /\ IsFiniteSet(sources) /\ sources \in SUBSET Nat
      /\ \A e \in sources : entries[e].amount \in Lines
  <2>1. IsFiniteSet(DOMAIN entries) /\ DOMAIN entries \subseteq Nat
    BY <1>1, RowsAreRecords, FS_Interval
  <2> QED BY <1>1, <2>1, FS_Subset, RowsAreRecords
<1>3. sources # {}
  <2>1. Cardinality(sources) # 0
    BY DEF StartMerge
  <2> QED BY <2>1, FS_EmptySet
<1>4. PICK rest \in [sources -> UNION {Remainders(entries[e].amount, AllocationsOf(e)) : e \in sources}] :
                  /\ \A e \in sources : rest[e] \in Remainders(entries[e].amount, AllocationsOf(e))
                  /\ request' = [request EXCEPT ![r] =
                       [Idle EXCEPT !.does = "merge", !.stage = "writing", !.sources = sources,
                                    !.lines = [w \in Wallets |->
                                                 SumFunction([e \in sources |-> rest[e][w]])]]]
  BY Zenon DEF StartMerge
<1> DEFINE column(w) == [e \in sources |-> rest[e][w]]
           lines == [w \in Wallets |-> SumFunction(column(w))]
           q == [Idle EXCEPT !.does = "merge", !.stage = "writing", !.sources = sources,
                             !.lines = lines]
<1>5. lines \in [Wallets -> Nat]
  <2> SUFFICES ASSUME NEW w \in Wallets PROVE SumFunction(column(w)) \in Nat
    OBVIOUS
  <2>1. \A e \in sources : rest[e] \in Lines
    BY <1>2, <1>4, RemaindersTyped
  <2>2. DOMAIN column(w) = sources /\ \A e \in DOMAIN column(w) : column(w)[e] \in Nat
    BY <2>1 DEF Lines
  <2> HIDE DEF column
  <2> QED BY <1>2, <2>2, TotalTyped
<1>6. request' = [request EXCEPT ![r] = q]
  BY <1>4
<1> HIDE DEF lines
<1>7. q \in Transaction
  BY <1>2, <1>5, IdleTyped DEF Transaction
<1>8. q.does = "merge" /\ q.sources = sources /\ q.stage = "writing"
  BY IdleTyped DEF Transaction
<1> HIDE DEF q
<1>9. RequestHolds(q)
  BY <1>3, <1>8 DEF RequestHolds
<1> QED BY <1>6, <1>7, <1>8, <1>9, RequestStarts DEF StartMerge

LEMMA RefundStarts ==
  ASSUME IInv, NEW r \in Requests, NEW e \in DOMAIN entries, StartRefund(r, e)
  PROVE  IInv'
<1> DEFINE lines == entries[e].amount
           q == [Idle EXCEPT !.does = "refund", !.stage = "writing", !.id = e, !.lines = lines]
<1>1. lines \in [Wallets -> Nat] /\ e \in Nat
  BY RowsAreRecords DEF IInv, Lines
<1>2. request' = [request EXCEPT ![r] = q]
  BY DEF StartRefund
<1> HIDE DEF lines
<1>3. q \in Transaction
  BY <1>1, IdleTyped DEF Transaction
<1>4. q.does = "refund" /\ q.id = e /\ q.stage = "writing"
  BY IdleTyped DEF Transaction
<1> HIDE DEF q
<1>5. RequestHolds(q)
  BY <1>4 DEF RequestHolds
<1> QED BY <1>2, <1>3, <1>4, <1>5, RequestStarts DEF StartRefund

LEMMA CloseStarts ==
  ASSUME IInv, NEW r \in Requests, NEW o \in DOMAIN orders, NEW verdict \in Verdicts,
         StartClose(r, o, verdict)
  PROVE  IInv'
<1> DEFINE e == orders[o].entry
           stage == IF orders[o].phone = NoPhone THEN "writing" ELSE "reading"
           order == [orders[o] EXCEPT !.status = verdict]
           status == IF e = 0 THEN "kept" ELSE StatusUpdate(e, AllocationsOf(e) \ OwnAllocation(o))
           q == [Idle EXCEPT !.does = "close", !.stage = stage, !.id = o, !.order = order,
                             !.entryStatus = status]
<1>1. RowsTyped
  BY DEF IInv
<1>2. o \in Nat /\ orders[o] \in Order
  BY <1>1, RowsAreRecords
<1>3. /\ order \in Order /\ order.status = verdict /\ order.entry = e
      /\ order.phone = orders[o].phone
      /\ order = [orders[o] EXCEPT !.status = order.status]
  BY <1>2 DEF Order, OrderStatuses, Verdicts
<1>4. status \in EntryStatuses \cup {"kept"} /\ (status # "kept" => e # 0)
  BY StatusTyped DEF StatusUpdate, EntryStatuses, MERGEABLE_STATUSES
<1>5. stage \in {"reading", "writing"} /\ (stage = "reading" <=> orders[o].phone # NoPhone)
  OBVIOUS
<1>6. request' = [request EXCEPT ![r] = q]
  BY DEF StartClose
<1> HIDE DEF order, status, stage, e
<1>7. q \in Transaction
  BY <1>2, <1>3, <1>4, <1>5, IdleTyped DEF Transaction
<1>8. /\ q.does = "close" /\ q.stage = stage /\ q.id = o /\ q.order = order
      /\ q.entryStatus = status
  BY IdleTyped DEF Transaction
<1> HIDE DEF q
<1>9. Decidable(o)
  BY DEF StartClose
<1>10. RequestHolds(q)
  BY <1>3, <1>4, <1>5, <1>8, <1>9 DEF RequestHolds, ClosingHolds, Decidable
<1>11. \A s \in Requests : s # r /\ request[s].does = "close" => request[s].id # q.id
  BY <1>8, <1>9 DEF Decidable
<1> QED BY <1>6, <1>7, <1>10, <1>11, RequestBecomes DEF StartClose

LEMMA Starts == ASSUME IInv, NEW r \in Requests, Start(r) PROVE IInv'
<1>1. ASSUME NEW b \in Bodies, NEW e \in 0 .. Len(entries), StartTransfer(r, b, e) PROVE IInv'
  BY <1>1, TransferStarts
<1>2. ASSUME NEW b \in Bodies, NEW e \in 0 .. Len(entries), StartPayment(r, b, e) PROVE IInv'
  BY <1>2, PaymentStarts
<1>3. ASSUME NEW sources \in SUBSET DOMAIN entries, StartMerge(r, sources) PROVE IInv'
  BY <1>3, MergeStarts
<1>4. ASSUME NEW e \in DOMAIN entries, StartRefund(r, e) PROVE IInv'
  BY <1>4, RefundStarts
<1>5. ASSUME NEW o \in DOMAIN orders, RejectTransfer(r, o) PROVE IInv'
  BY <1>5, CloseStarts DEF RejectTransfer, Verdicts
<1>6. ASSUME NEW o \in DOMAIN orders, CancelTransfer(r, o) PROVE IInv'
  BY <1>6, CloseStarts DEF CancelTransfer, Verdicts
<1>7. ASSUME NEW o \in DOMAIN orders, RejectPayment(r, o) PROVE IInv'
  BY <1>7, CloseStarts DEF RejectPayment, Verdicts
<1>8. ASSUME NEW o \in DOMAIN orders, CancelPayment(r, o) PROVE IInv'
  BY <1>8, CloseStarts DEF CancelPayment, Verdicts
<1> QED BY <1>1, <1>2, <1>3, <1>4, <1>5, <1>6, <1>7, <1>8 DEF Start

---------------------------------------------------------------------------
(* The movements of a client.                                              *)

Named(ms, o) == {i \in DOMAIN ms : ms[i].order = o}
OwnOf(ms, o) == {i \in DOMAIN ms : ms[i].order = o /\ ~ms[i].reversal}

\* One more movement, in sums over indices of the movements there were.
LEMMA MovementAdded ==
  ASSUME NEW ms \in Seq(MovementRow), NEW m \in MovementRow, NEW J \in SUBSET DOMAIN ms
  PROVE  /\ DeltaOf(Append(ms, m), J) = DeltaOf(ms, J)
         /\ DeltaOf(Append(ms, m), J \cup {Len(ms) + 1}) = DeltaOf(ms, J) + m.delta
<1> DEFINE t == Append(ms, m)
           n == Len(ms) + 1
           f == [i \in J |-> ms[i].delta]
           g == [i \in J |-> t[i].delta]
           h == [i \in J \cup {n} |-> t[i].delta]
<1>1. /\ Len(ms) \in Nat /\ DOMAIN ms = 1 .. Len(ms) /\ n \notin DOMAIN ms
      /\ \A i \in DOMAIN ms : t[i] = ms[i]
      /\ t[n] = m
  BY SequenceAppended
<1>2. \A i \in DOMAIN ms : ms[i].delta \in Int
  <2>1. \A i \in DOMAIN ms : ms[i] \in MovementRow
    OBVIOUS
  <2> QED BY <2>1 DEF MovementRow
<1>3. m.delta \in Int
  BY DEF MovementRow
<1>4. IsFiniteSet(J) /\ n \notin J
  <2>1. IsFiniteSet(DOMAIN ms)
    BY <1>1, FS_Interval
  <2> HIDE DEF n
  <2> QED BY <1>1, <2>1, FS_Subset
<1> HIDE DEF t, n
<1>5. f = g
  BY <1>1
<1>6. DOMAIN f = J /\ DOMAIN h = J \cup {n} /\ h[n] = m.delta
  BY <1>1
<1>7. NumbersOn(f, J) /\ SameOn(f, h, J)
  BY <1>1, <1>2 DEF NumbersOn, SameOn
<1>8. /\ DeltaOf(ms, J) = SumFunction(f) /\ DeltaOf(t, J) = SumFunction(g)
      /\ DeltaOf(t, J \cup {n}) = SumFunction(h)
  BY DEF DeltaOf
<1> HIDE DEF f, g, h
<1>9. SumFunction(h) = SumFunction(f) + h[n]
  <2>1. h[n] \in Int /\ DOMAIN f = J /\ DOMAIN h = J \cup {n}
    BY <1>3, <1>6
  <2> QED BY <1>4, <1>7, <2>1, TotalGrown
<1>10. DeltaOf(t, J) = DeltaOf(ms, J) /\ DeltaOf(t, J \cup {n}) = DeltaOf(ms, J) + m.delta
  BY <1>5, <1>6, <1>8, <1>9
<1> QED BY <1>10 DEF t, n

\* What one more movement does to the sums of the movements of an order.
LEMMA OneMoreMovement ==
  ASSUME NEW ms \in Seq(MovementRow), NEW m \in MovementRow, NEW o
  PROVE  /\ DeltaOf(Append(ms, m), Named(Append(ms, m), o))
              = IF m.order = o THEN DeltaOf(ms, Named(ms, o)) + m.delta
                ELSE DeltaOf(ms, Named(ms, o))
         /\ m.order # o \/ m.reversal =>
              DeltaOf(Append(ms, m), OwnOf(Append(ms, m), o)) = DeltaOf(ms, OwnOf(ms, o))
<1> DEFINE t == Append(ms, m)
           n == Len(ms) + 1
<1>1. /\ DOMAIN t = DOMAIN ms \cup {n} /\ n \notin DOMAIN ms
      /\ \A i \in DOMAIN ms : t[i] = ms[i]
      /\ t[n] = m
  BY SequenceAppended
<1>2. \A J \in SUBSET DOMAIN ms :
        DeltaOf(t, J) = DeltaOf(ms, J) /\ DeltaOf(t, J \cup {n}) = DeltaOf(ms, J) + m.delta
  BY MovementAdded
<1> HIDE DEF t, n
<1>3. /\ Named(ms, o) \in SUBSET DOMAIN ms /\ OwnOf(ms, o) \in SUBSET DOMAIN ms
      /\ Named(t, o) = IF m.order = o THEN Named(ms, o) \cup {n} ELSE Named(ms, o)
      /\ m.order # o \/ m.reversal => OwnOf(t, o) = OwnOf(ms, o)
  BY <1>1 DEF Named, OwnOf
<1>4. DeltaOf(t, Named(t, o)) = IF m.order = o THEN DeltaOf(ms, Named(ms, o)) + m.delta
                                ELSE DeltaOf(ms, Named(ms, o))
  BY <1>2, <1>3
<1>5. m.order # o \/ m.reversal => DeltaOf(t, OwnOf(t, o)) = DeltaOf(ms, OwnOf(ms, o))
  BY <1>2, <1>3
<1> QED BY <1>4, <1>5 DEF t

MovementsOn(o) == client[orders[o].company][orders[o].phone].movements

LEMMA ChargesAreSums ==
  ASSUME NEW o
  PROVE  /\ Charged(o) = DeltaOf(MovementsOn(o), OwnOf(MovementsOn(o), o))
         /\ orders[o].phone # NoPhone =>
              NetCharge(o) = DeltaOf(MovementsOn(o), Named(MovementsOn(o), o))
         /\ orders[o].phone = NoPhone => NetCharge(o) = 0
BY DEF Charged, NetCharge, DeltaOf, OwnOf, Named, MovementsOn

\* The client's row a request writes, and no other.
Bills(q, c, phone, o) ==
  /\ client' \in [Companies -> [Phones -> ClientRow]]
  /\ \A d \in Companies, p \in Phones :
       IF d = c /\ p = phone /\ q.delta # 0
       THEN client'[d][p].movements =
              Append(client[d][p].movements,
                     [order |-> o, reversal |-> q.does = "close", delta |-> q.delta,
                      before |-> q.seen.balance, after |-> q.seen.balance + q.delta])
       ELSE client'[d][p] = client[d][p]

LEMMA ClientBills ==
  ASSUME RowsTyped, NEW q \in Transaction, NEW c \in Companies,
         NEW phone \in Phones \cup {NoPhone}, NEW o \in Nat, ClientBilled(q, c, phone, o)
  PROVE  Bills(q, c, phone, o)
<1>0. NoPhone \notin Phones
  BY PartiesAssumption
<1>1. CASE phone = NoPhone \/ q.delta = 0
  <2>1. client' = client
    BY <1>1 DEF ClientBilled
  <2> QED BY <1>0, <1>1, <2>1 DEF Bills, RowsTyped
<1>2. CASE ~(phone = NoPhone \/ q.delta = 0)
  <2> DEFINE m == [order |-> o, reversal |-> q.does = "close", delta |-> q.delta,
                   before |-> q.seen.balance, after |-> q.seen.balance + q.delta]
             ms == client[c][phone].movements
             row == [known |-> TRUE, balance |-> q.seen.balance + q.delta,
                     movements |-> Append(ms, m)]
  <2>1. client' = [client EXCEPT ![c][phone] = row]
    BY <1>2 DEF ClientBilled, Billed
  <2>2. phone \in Phones
    BY <1>2
  <2>3. q.delta \in Int /\ q.seen.balance \in Int
    BY DEF Transaction, ClientRow
  <2>4. m \in MovementRow
    BY <2>3 DEF MovementRow
  <2>5. ms \in Seq(MovementRow)
    BY <2>2, ClientIsRow
  <2> HIDE DEF m, ms
  <2>6. Append(ms, m) \in Seq(MovementRow)
    BY <2>4, <2>5, SequenceAppended
  <2>7. row \in ClientRow /\ row.movements = Append(ms, m)
    BY <2>3, <2>6 DEF ClientRow, MovementRow
  <2> HIDE DEF row
  <2>8. client \in [Companies -> [Phones -> ClientRow]]
    BY DEF RowsTyped
  <2>9. client' \in [Companies -> [Phones -> ClientRow]]
    BY <2>1, <2>2, <2>7, <2>8
  <2>10. \A d \in Companies, p \in Phones :
           client'[d][p] = IF d = c /\ p = phone THEN row ELSE client[d][p]
    BY <2>1, <2>2, <2>8
  <2> QED BY <1>2, <2>7, <2>9, <2>10 DEF Bills, m, ms
<1> QED BY <1>1, <1>2

---------------------------------------------------------------------------
(* Steps that write rows: what they leave to the open requests.            *)

LEMMA OthersGoOn ==
  ASSUME RequestsHold, RowsTyped, RowsTyped',
         request' \in [Requests -> Transaction],
         \A s \in Requests : request'[s] = Idle \/ request'[s] = request[s],
         Len(entries) <= Len(entries'), Len(orders) <= Len(orders'),
         \A s \in Requests, k \in DOMAIN orders :
           request'[s] = request[s] /\ request[s].does = "close" /\ request[s].id = k =>
             /\ orders'[k] = orders[k]
             /\ orders[k].phone # NoPhone => Charged(k)' = Charged(k)
  PROVE  RequestsHold'
<1>1. /\ Len(entries) \in Nat /\ DOMAIN entries = 1 .. Len(entries)
      /\ Len(orders) \in Nat /\ DOMAIN orders = 1 .. Len(orders)
  BY RowsAreRecords
<1>2. /\ Len(entries') \in Nat /\ DOMAIN entries' = 1 .. Len(entries')
      /\ Len(orders') \in Nat /\ DOMAIN orders' = 1 .. Len(orders')
  BY DEF RowsTyped
<1>3. /\ 0 .. Len(entries) \subseteq 0 .. Len(entries') /\ DOMAIN entries \subseteq DOMAIN entries'
      /\ DOMAIN orders \subseteq DOMAIN orders'
  BY <1>1, <1>2
<1>4. ASSUME NEW s \in Requests PROVE RequestHolds(request[s])'
  <2>1. CASE request'[s] = Idle
    BY <2>1, IdleTyped DEF RequestHolds
  <2>2. CASE request'[s] = request[s]
    <3>1. PICK q \in Transaction : q = request[s] /\ q = request'[s] /\ RequestHolds(q)
      BY <2>2 DEF RequestsHold
    <3>2. q.does = "create" => CreationHolds(q)'
      BY <1>3, <3>1 DEF RequestHolds, CreationHolds
    <3>3. ASSUME q.does = "close" PROVE ClosingHolds(q)'
      <4>1. ClosingHolds(q) /\ q.id \in DOMAIN orders /\ orders'[q.id] = orders[q.id]
        BY <3>1, <3>3 DEF RequestHolds, ClosingHolds
      <4>2. q.order.phone # NoPhone => orders[q.id].phone # NoPhone
        <5>1. orders[q.id] \in Order
          BY <4>1, RowsAreRecords DEF ClosingHolds
        <5>2. [orders[q.id] EXCEPT !.status = q.order.status].phone = orders[q.id].phone
          BY <5>1 DEF Order
        <5> QED BY <4>1, <5>2 DEF ClosingHolds
      <4>3. q.order.phone # NoPhone => Charged(q.id)' = Charged(q.id)
        BY <3>1, <3>3, <4>1, <4>2
      <4> QED BY <1>3, <4>1, <4>3 DEF ClosingHolds
    <3>4. RequestHolds(q)'
      BY <1>3, <3>1, <3>2, <3>3 DEF RequestHolds
    <3> QED BY <3>1, <3>4 DEF RequestHolds, CreationHolds, ClosingHolds
  <2> QED BY <2>1, <2>2
<1>5. ClosersApart'
  BY IdleTyped DEF RequestsHold, ClosersApart
<1> QED BY <1>4, <1>5 DEF RequestsHold

LEMMA IdleAgain ==
  ASSUME RequestsHold, NEW r \in Requests, request' = [request EXCEPT ![r] = Idle]
  PROVE  /\ request' \in [Requests -> Transaction] /\ request'[r] = Idle
         /\ \A s \in Requests : s # r => request'[s] = request[s]
         /\ \A s \in Requests : request'[s] = Idle \/ request'[s] = request[s]
BY IdleTyped DEF RequestsHold

---------------------------------------------------------------------------
(* Steps that write entries.                                               *)

LEMMA EntriesWritten ==
  ASSUME IInv, wallet' \in [Wallets -> WalletRow], entries' \in Seq(Entry),
         Len(entries) <= Len(entries'),
         request' \in [Requests -> Transaction],
         \A s \in Requests : request'[s] = Idle \/ request'[s] = request[s],
         UNCHANGED <<allocations, orders, shared, client>>
  PROVE  IInv'
<1>1. RowsTyped /\ RowsTyped'
  BY DEF IInv, RowsTyped
<1>2. /\ Len(entries) \in Nat /\ DOMAIN entries = 1 .. Len(entries)
      /\ Len(entries') \in Nat /\ DOMAIN entries' = 1 .. Len(entries')
  BY <1>1, RowsAreRecords DEF RowsTyped
<1>3. DOMAIN entries \subseteq DOMAIN entries' /\ 0 .. Len(entries) \subseteq 0 .. Len(entries')
  BY <1>2
<1>4. RowsNamed'
  BY <1>3 DEF IInv, RowsNamed
<1>5. ApprovalsAreSettled' /\ AllocationsFollowDecisions'
  BY ApprovalsStay, AllocationsStay DEF IInv, RowsAgree
<1>6. ClosedOrdersLeaveClientsEven'
  BY ClientsStayEven DEF IInv, RowsAgree
<1>7. Len(orders) <= Len(orders')
  BY <1>1, RowsAreRecords
<1>8. \A o : Charged(o)' = Charged(o)
  BY ChargedSame
<1>9. RequestsHold'
  BY <1>1, <1>7, <1>8, OthersGoOn DEF IInv
<1> QED BY <1>1, <1>4, <1>5, <1>6, <1>9 DEF IInv, RowsAgree

LEMMA EntryIsCreated == ASSUME IInv, NEW b \in Receipts, CreateEntry(b) PROVE IInv'
<1> DEFINE amount == [w \in Wallets |-> Quantize(b.amount[w])]
           row == [company |-> b.company, phone |-> b.phone, amount |-> amount,
                   status |-> "unallocated", mergedInto |-> 0]
<1>1. /\ b.company \in Companies /\ b.phone \in Phones \cup {NoPhone}
      /\ b.amount \in [Wallets -> Nat]
  <2>1. b \in Receipt
    BY PartiesAssumption
  <2> QED BY <2>1 DEF Receipt
<1>2. amount \in [Wallets -> Nat]
  <2> SUFFICES ASSUME NEW w \in Wallets PROVE Quantize(b.amount[w]) \in Nat
    OBVIOUS
  <2>1. b.amount[w] \in Int /\ b.amount[w] >= 0
    BY <1>1
  <2> QED BY <2>1, QuantizeInt
<1>3. entries' = Append(entries, row)
  BY DEF CreateEntry
<1> HIDE DEF amount
<1>4. row \in Entry
  BY <1>1, <1>2 DEF Entry, EntryStatuses
<1>5. entries \in Seq(Entry) /\ wallet \in [Wallets -> WalletRow]
  BY DEF IInv, RowsTyped
<1> HIDE DEF row
<1>6. entries' \in Seq(Entry) /\ Len(entries) <= Len(entries')
  BY <1>3, <1>4, <1>5
<1>7. wallet' \in [Wallets -> WalletRow]
  <2>1. b.amount \in [Wallets -> Int]
    BY <1>1
  <2> QED BY <1>5, <2>1, MovedTyped DEF CreateEntry
<1>8. request' \in [Requests -> Transaction] /\ \A s \in Requests : request'[s] = request[s]
  BY DEF IInv, RequestsHold, CreateEntry
<1> QED BY <1>6, <1>7, <1>8, EntriesWritten DEF CreateEntry

LEMMA MergeIsWritten == ASSUME IInv, NEW r \in Requests, CommitMerge(r) PROVE IInv'
<1>1. PICK q \in Transaction : q = request[r] /\ RequestHolds(q)
  BY DEF IInv, RequestsHold
<1> DEFINE first == entries[CHOOSE e \in q.sources : TRUE]
           id == Len(entries) + 1
           marked == [e \in DOMAIN entries |->
                        IF e \in q.sources THEN [entries[e] EXCEPT !.mergedInto = id]
                        ELSE entries[e]]
           row == [company |-> first.company, phone |-> first.phone, amount |-> q.lines,
                   status |-> "unallocated", mergedInto |-> 0]
<1>2. /\ q.does = "merge" /\ entries' = Append(marked, row)
      /\ request' = [request EXCEPT ![r] = Idle]
      /\ UNCHANGED <<wallet, allocations, orders, shared, client>>
  BY <1>1 DEF CommitMerge
<1>3. /\ entries \in Seq(Entry) /\ wallet \in [Wallets -> WalletRow]
      /\ Len(entries) \in Nat /\ \A e \in DOMAIN entries : entries[e] \in Entry
  BY RowsAreRecords DEF IInv, RowsTyped
<1>4. first \in Entry
  BY <1>1, <1>2, <1>3 DEF RequestHolds
<1>5. row \in Entry
  <2>1. q.lines \in [Wallets -> Nat]
    BY DEF Transaction
  <2> HIDE DEF first
  <2> QED BY <1>4, <2>1 DEF Entry, EntryStatuses
<1>6. \A e \in DOMAIN entries : marked[e] \in Entry
  <2> SUFFICES ASSUME NEW e \in DOMAIN entries
               PROVE  [entries[e] EXCEPT !.mergedInto = id] \in Entry /\ entries[e] \in Entry
    OBVIOUS
  <2>1. entries[e] \in Entry /\ id \in Nat
    BY <1>3
  <2> HIDE DEF id
  <2> QED BY <2>1 DEF Entry
<1>7. DOMAIN marked = DOMAIN entries /\ marked = [e \in DOMAIN marked |-> marked[e]]
  OBVIOUS
<1> HIDE DEF marked, row
<1>8. marked \in Seq(Entry) /\ Len(marked) = Len(entries)
  BY <1>3, <1>6, <1>7, SequenceRewritten
<1>9. entries' \in Seq(Entry) /\ Len(entries) <= Len(entries')
  BY <1>2, <1>3, <1>5, <1>8
<1>10. wallet' \in [Wallets -> WalletRow]
  BY <1>2, <1>3
<1>11. /\ request' \in [Requests -> Transaction]
       /\ \A s \in Requests : request'[s] = Idle \/ request'[s] = request[s]
  BY <1>2, IdleAgain DEF IInv
<1> QED BY <1>2, <1>9, <1>10, <1>11, EntriesWritten

\* An entry's status changes.
LEMMA StatusWritten ==
  ASSUME RowsTyped, NEW e \in DOMAIN entries, NEW status \in EntryStatuses
  PROVE  /\ [entries EXCEPT ![e].status = status] \in Seq(Entry)
         /\ Len([entries EXCEPT ![e].status = status]) = Len(entries)
         /\ \A d \in DOMAIN entries :
              [entries EXCEPT ![e].status = status][d].amount = entries[d].amount
<1> DEFINE row == [entries[e] EXCEPT !.status = status]
<1>1. row \in Entry /\ row.amount = entries[e].amount
  BY RowsAreRecords DEF Entry
<1>2. [entries EXCEPT ![e].status = status] = [entries EXCEPT ![e] = row]
  OBVIOUS
<1>3. entries \in Seq(Entry)
  BY DEF RowsTyped
<1> HIDE DEF row
<1>4. /\ [entries EXCEPT ![e] = row] \in Seq(Entry)
      /\ \A d \in DOMAIN entries : [entries EXCEPT ![e] = row][d] = IF d = e THEN row ELSE entries[d]
  BY <1>1, <1>3, SequenceChanged
<1>5. Len([entries EXCEPT ![e] = row]) = Len(entries)
  BY <1>3
<1> QED BY <1>1, <1>2, <1>4, <1>5

LEMMA RefundIsWritten == ASSUME IInv, NEW r \in Requests, CommitRefund(r) PROVE IInv'
<1>1. PICK q \in Transaction : q = request[r] /\ RequestHolds(q)
  BY DEF IInv, RequestsHold
<1> DEFINE back == [w \in Wallets |-> -Exact(q.lines[w])]
<1>2. /\ q.does = "refund" /\ CanMove(back) /\ wallet' = Moved(back)
      /\ entries' = [entries EXCEPT ![q.id].status = "cancelled"]
      /\ request' = [request EXCEPT ![r] = Idle]
      /\ UNCHANGED <<allocations, orders, shared, client>>
  BY <1>1 DEF CommitRefund
<1>3. q.id \in DOMAIN entries /\ RowsTyped
  BY <1>1, <1>2 DEF RequestHolds, IInv
<1>4. entries' \in Seq(Entry) /\ Len(entries) <= Len(entries')
  <2>1. "cancelled" \in EntryStatuses /\ Len(entries) \in Nat
    BY <1>3, RowsAreRecords DEF EntryStatuses
  <2> QED BY <1>2, <1>3, <2>1, StatusWritten
<1>5. back \in [Wallets -> Int]
  <2> SUFFICES ASSUME NEW w \in Wallets PROVE -Exact(q.lines[w]) \in Int
    OBVIOUS
  <2>1. q.lines[w] \in Int
    BY DEF Transaction
  <2>2. Exact(q.lines[w]) \in Int
    BY <2>1, QuantizeExact
  <2> QED BY <2>2
<1> HIDE DEF back
<1>6. wallet' \in [Wallets -> WalletRow]
  BY <1>2, <1>3, <1>5, MovedTyped DEF RowsTyped
<1>7. /\ request' \in [Requests -> Transaction]
      /\ \A s \in Requests : request'[s] = Idle \/ request'[s] = request[s]
  BY <1>2, IdleAgain DEF IInv
<1> QED BY <1>2, <1>4, <1>6, <1>7, EntriesWritten

---------------------------------------------------------------------------
(* Steps that write orders.                                                *)

\* What a request's bill does to the charges of the orders there were.
LEMMA ChargesBilled ==
  ASSUME RowsTyped, NEW q \in Transaction, NEW c \in Companies,
         NEW phone \in Phones \cup {NoPhone}, NEW o \in Nat, Bills(q, c, phone, o),
         NEW k \in DOMAIN orders, orders'[k].company = orders[k].company,
         orders'[k].phone = orders[k].phone
  PROVE  /\ orders[k].phone # NoPhone /\ (k # o \/ q.does = "close") => Charged(k)' = Charged(k)
         /\ k # o => NetCharge(k)' = NetCharge(k)
         /\ k = o /\ orders[k].company = c /\ orders[k].phone = phone /\ phone # NoPhone =>
              NetCharge(k)' = NetCharge(k) + q.delta
<1>1. orders[k].company \in Companies /\ orders[k].phone \in Phones \cup {NoPhone}
  BY RowsAreRecords DEF Order
<1>2. CASE orders[k].phone = NoPhone
  <2>1. NetCharge(k) = 0 /\ NetCharge(k)' = 0
    BY <1>2 DEF NetCharge
  <2> QED BY <1>2, <2>1
<1>3. CASE orders[k].phone # NoPhone
  <2> DEFINE d == orders[k].company
             p == orders[k].phone
             ms == client[d][p].movements
             m == [order |-> o, reversal |-> q.does = "close", delta |-> q.delta,
                   before |-> q.seen.balance, after |-> q.seen.balance + q.delta]
  <2>1. d \in Companies /\ p \in Phones
    BY <1>1, <1>3
  <2>2. ms \in Seq(MovementRow) /\ MovementsOn(k) = ms /\ MovementsOn(k)' = client'[d][p].movements
    BY <2>1, ClientIsRow DEF MovementsOn
  <2>3. q.delta \in Int /\ q.seen.balance \in Int
    BY DEF Transaction, ClientRow
  <2>4. m \in MovementRow
    BY <2>3 DEF MovementRow
  <2>5. /\ Charged(k) = DeltaOf(ms, OwnOf(ms, k)) /\ NetCharge(k) = DeltaOf(ms, Named(ms, k))
        /\ Charged(k)' = DeltaOf(client'[d][p].movements, OwnOf(client'[d][p].movements, k))
        /\ NetCharge(k)' = DeltaOf(client'[d][p].movements, Named(client'[d][p].movements, k))
    BY <1>3, <2>2 DEF Charged, NetCharge, DeltaOf, OwnOf, Named, MovementsOn
  <2>6. CASE d = c /\ p = phone /\ q.delta # 0
    <3>1. client'[d][p].movements = Append(ms, m)
      BY <2>1, <2>6 DEF Bills
    <3>2. m.order = o /\ (m.reversal <=> q.does = "close") /\ m.delta = q.delta
      OBVIOUS
    <3> HIDE DEF ms, m, d, p
    <3>3. /\ DeltaOf(Append(ms, m), Named(Append(ms, m), k))
               = IF m.order = k THEN DeltaOf(ms, Named(ms, k)) + m.delta
                 ELSE DeltaOf(ms, Named(ms, k))
          /\ m.order # k \/ m.reversal =>
               DeltaOf(Append(ms, m), OwnOf(Append(ms, m), k)) = DeltaOf(ms, OwnOf(ms, k))
      BY <2>2, <2>4, OneMoreMovement
    <3>4. /\ NetCharge(k)' = IF o = k THEN NetCharge(k) + q.delta ELSE NetCharge(k)
          /\ k # o \/ q.does = "close" => Charged(k)' = Charged(k)
      BY <2>5, <3>1, <3>2, <3>3
    <3> QED BY <3>4
  <2>7. CASE ~(d = c /\ p = phone /\ q.delta # 0)
    <3>1. client'[d][p].movements = ms
      BY <2>1, <2>7 DEF Bills
    <3>2. Charged(k)' = Charged(k) /\ NetCharge(k)' = NetCharge(k)
      BY <2>5, <3>1
    <3>3. d = c /\ p = phone => q.delta = 0
      BY <2>7
    <3>4. NetCharge(k) \in Int
      <4>1. Named(ms, k) \in SUBSET DOMAIN ms
        BY DEF Named
      <4> HIDE DEF ms
      <4> QED BY <2>2, <2>5, <4>1, DeltaInt
    <3> QED BY <3>2, <3>3, <3>4
  <2> QED BY <2>6, <2>7
<1> QED BY <1>2, <1>3

\* A movement of a client is the bill's, or was there.
LEMMA MovementsBilled ==
  ASSUME RowsTyped, NEW q \in Transaction, NEW d, NEW phone, NEW o \in Nat, Bills(q, d, phone, o),
         NEW c \in Companies, NEW p \in Phones, NEW i \in DOMAIN client'[c][p].movements
  PROVE  LET m == client'[c][p].movements[i]
         IN \/ m.order = o /\ (m.reversal <=> q.does = "close")
            \/ \E j \in DOMAIN client[c][p].movements : m = client[c][p].movements[j]
<1> DEFINE ms == client[c][p].movements
           then == client'[c][p].movements
           new == [order |-> o, reversal |-> q.does = "close", delta |-> q.delta,
                   before |-> q.seen.balance, after |-> q.seen.balance + q.delta]
<1>1. then = ms \/ then = Append(ms, new)
  BY DEF Bills
<1>2. new.order = o /\ (new.reversal <=> q.does = "close")
  OBVIOUS
<1>3. ms \in Seq(MovementRow)
  BY ClientIsRow
<1>4. new \in MovementRow
  <2>1. q.delta \in Int /\ q.seen.balance \in Int
    BY DEF Transaction, ClientRow
  <2> QED BY <2>1 DEF MovementRow
<1>5. i \in DOMAIN then
  OBVIOUS
<1> HIDE DEF ms, new, then
<1>6. CASE then = ms
  BY <1>5, <1>6 DEF ms, then
<1>7. CASE then = Append(ms, new)
  <2>1. /\ DOMAIN then = DOMAIN ms \cup {Len(ms) + 1} /\ then[Len(ms) + 1] = new
        /\ \A j \in DOMAIN ms : then[j] = ms[j]
    BY <1>3, <1>4, <1>7, SequenceAppended
  <2>2. then[i] = new \/ \E j \in DOMAIN ms : then[i] = ms[j]
    BY <1>5, <2>1
  <2> QED BY <1>2, <2>2 DEF ms, then
<1> QED BY <1>1, <1>6, <1>7

LEMMA EntryIsMarked ==
  ASSUME RowsTyped, NEW e \in 0 .. Len(entries), NEW status \in EntryStatuses \cup {"kept"},
         status # "kept" => e # 0, EntryMarked(e, status)
  PROVE  entries' \in Seq(Entry) /\ Len(entries') = Len(entries)
<1>1. CASE status = "kept"
  BY <1>1 DEF EntryMarked, RowsTyped
<1>2. CASE status # "kept"
  <2>1. e \in DOMAIN entries /\ status \in EntryStatuses
    BY <1>2, RowsAreRecords
  <2> QED BY <1>2, <2>1, StatusWritten DEF EntryMarked
<1> QED BY <1>1, <1>2

\* An approval, by which the order's shared movement is recorded.
LEMMA OrderIsApproved ==
  ASSUME IInv, NEW o \in DOMAIN orders, Decidable(o), NEW row \in Order,
         row.status = "approved", row.entry = orders[o].entry,
         row.converted = orders[o].converted, row.target = orders[o].target,
         orders' = [orders EXCEPT ![o] = row], wallet' \in [Wallets -> WalletRow],
         NEW debtor \in Companies, NEW creditor \in Companies, {debtor, creditor} = Companies,
         Settled(o, debtor, creditor),
         UNCHANGED <<entries, allocations, client, request>>
  PROVE  IInv'
<1>0. /\ RowsTyped /\ RowsNamed /\ RequestsHold /\ orders[o].status = "pending"
      /\ orders[o] \in Order /\ o \in Nat
      /\ \A s \in Requests : request[s].does = "close" => request[s].id # o
  BY RowsAreRecords DEF IInv, Decidable
<1>1. /\ orders' \in Seq(Order) /\ DOMAIN orders' = DOMAIN orders /\ Len(orders') = Len(orders)
      /\ \A k \in DOMAIN orders : orders'[k] = IF k = o THEN row ELSE orders[k]
  <2>1. orders \in Seq(Order)
    BY <1>0 DEF RowsTyped
  <2> QED BY <2>1, SequenceChanged
<1> DEFINE n == Len(shared) + 1
           m == [order |-> o, currency |-> orders[o].target, amount |-> orders[o].converted,
                 debtor |-> debtor, creditor |-> creditor]
<1>2. m \in SharedRow
  BY <1>0 DEF SharedRow, Order
<1>3. /\ m.order = o /\ m.currency = orders[o].target /\ m.amount = orders[o].converted
      /\ {m.debtor, m.creditor} = Companies
  OBVIOUS
<1>4. shared' = Append(shared, m)
  BY DEF Settled
<1> HIDE DEF m
<1>5. /\ shared' \in Seq(SharedRow) /\ DOMAIN shared' = DOMAIN shared \cup {n}
      /\ n \notin DOMAIN shared /\ shared'[n] = m
      /\ \A i \in DOMAIN shared : shared'[i] = shared[i]
  BY <1>0, <1>2, <1>4, SequenceAppended DEF RowsTyped
<1> HIDE DEF n
<1>6. RowsTyped'
  BY <1>0, <1>1, <1>5 DEF RowsTyped
<1>7. RowsNamed'
  <2>1. \A a \in allocations' : a.entry \in DOMAIN entries' /\ a.order \in DOMAIN orders'
    BY <1>0, <1>1 DEF RowsNamed
  <2>2. \A k \in DOMAIN orders' : orders'[k].entry \in 0 .. Len(entries')
    BY <1>0, <1>1 DEF RowsNamed
  <2>3. \A i \in DOMAIN shared' : shared'[i].order \in DOMAIN orders'
    BY <1>0, <1>1, <1>3, <1>5 DEF RowsNamed
  <2>4. \A k \in DOMAIN orders : orders[k].status \in Verdicts => orders'[k] = orders[k]
    BY <1>0, <1>1 DEF Verdicts
  <2>5. \A c \in Companies, p \in Phones : \A i \in DOMAIN client[c][p].movements :
          /\ client[c][p].movements[i].order \in DOMAIN orders
          /\ client[c][p].movements[i].reversal =>
               orders[client[c][p].movements[i].order].status \in Verdicts
    BY <1>0 DEF RowsNamed
  <2>6. client' = client /\ DOMAIN orders' = DOMAIN orders
    BY <1>0, <1>1
  <2>7. \A c \in Companies, p \in Phones : \A i \in DOMAIN client'[c][p].movements :
          /\ client'[c][p].movements[i].order \in DOMAIN orders'
          /\ client'[c][p].movements[i].reversal =>
               orders'[client'[c][p].movements[i].order].status \in Verdicts
    BY <2>4, <2>5, <2>6
  <2> QED BY <2>1, <2>2, <2>3, <2>7 DEF RowsNamed
<1>8. RequestsHold'
  <2>1. /\ request' \in [Requests -> Transaction] /\ Len(entries) <= Len(entries')
        /\ Len(orders) <= Len(orders')
        /\ \A s \in Requests : request'[s] = request[s]
    BY <1>0, <1>1, RowsAreRecords DEF RequestsHold
  <2>2. ASSUME NEW k \in DOMAIN orders, k # o
        PROVE  orders'[k] = orders[k] /\ Charged(k)' = Charged(k)
    <3>1. orders'[k] = orders[k]
      BY <1>1, <2>2
    <3> QED BY <3>1, ChargedStays
  <2>3. \A s \in Requests, k \in DOMAIN orders :
          request[s].does = "close" /\ request[s].id = k => k # o
    BY <1>0
  <2> QED BY <1>0, <1>6, <2>1, <2>2, <2>3, OthersGoOn
<1>9. ApprovalsAreSettled'
  <2> SUFFICES ASSUME NEW k \in DOMAIN orders
               PROVE  LET own == {i \in DOMAIN shared' : shared'[i].order = k}
                      IN IF orders'[k].status # "approved" THEN own = {}
                         ELSE /\ Cardinality(own) = 1
                              /\ \A i \in own : /\ shared'[i].amount = orders'[k].converted
                                                /\ shared'[i].currency = orders'[k].target
                                                /\ {shared'[i].debtor, shared'[i].creditor} = Companies
    BY <1>1 DEF ApprovalsAreSettled
  <2> DEFINE was == {i \in DOMAIN shared : shared[i].order = k}
             own == {i \in DOMAIN shared' : shared'[i].order = k}
  <2>1. IF orders[k].status # "approved" THEN was = {}
        ELSE /\ Cardinality(was) = 1
             /\ \A i \in was : /\ shared[i].amount = orders[k].converted
                               /\ shared[i].currency = orders[k].target
                               /\ {shared[i].debtor, shared[i].creditor} = Companies
    BY DEF IInv, RowsAgree, ApprovalsAreSettled
  <2>2. own = IF k = o THEN was \cup {n} ELSE was
    BY <1>3, <1>5
  <2>3. CASE k = o
    <3>1. was = {}
      BY <1>0, <2>1, <2>3
    <3>2. own = {n} /\ Cardinality({n}) = 1
      BY <2>2, <2>3, <3>1, FS_Singleton
    <3>3. orders'[k] = row
      BY <1>1, <2>3
    <3> HIDE DEF own, was
    <3> QED BY <1>3, <1>5, <2>3, <3>2, <3>3 DEF own
  <2>4. CASE k # o
    <3>1. own = was /\ orders'[k] = orders[k]
      BY <1>1, <2>2, <2>4
    <3>2. \A i \in was : shared'[i] = shared[i]
      BY <1>5
    <3> HIDE DEF own, was
    <3> QED BY <2>1, <3>1, <3>2 DEF own
  <2> QED BY <2>3, <2>4
<1>10. AllocationsFollowDecisions'
  <2> SUFFICES ASSUME NEW a \in allocations
               PROVE  /\ orders'[a.order].status \in {"pending", "approved"}
                      /\ orders'[a.order].entry = a.entry
                      /\ OwnAllocation(a.order)' = {a}
    BY DEF AllocationsFollowDecisions
  <2>1. a.order \in DOMAIN orders
    BY <1>0 DEF RowsNamed
  <2>2. /\ orders[a.order].status \in {"pending", "approved"}
        /\ orders[a.order].entry = a.entry /\ OwnAllocation(a.order) = {a}
    BY DEF IInv, RowsAgree, AllocationsFollowDecisions
  <2>3. OwnAllocation(a.order)' = OwnAllocation(a.order)
    BY DEF OwnAllocation
  <2> QED BY <1>1, <2>1, <2>2, <2>3
<1>11. ClosedOrdersLeaveClientsEven'
  <2> SUFFICES ASSUME NEW k \in DOMAIN orders, orders'[k].status \in {"rejected", "cancelled"}
               PROVE  NetCharge(k)' = 0
    BY <1>1 DEF ClosedOrdersLeaveClientsEven
  <2>1. orders'[k] = orders[k]
    BY <1>1
  <2>2. NetCharge(k)' = NetCharge(k)
    BY <2>1 DEF NetCharge
  <2> QED BY <2>1, <2>2 DEF IInv, RowsAgree, ClosedOrdersLeaveClientsEven
<1> QED BY <1>6, <1>7, <1>8, <1>9, <1>10, <1>11 DEF IInv, RowsAgree

LEMMA OrderIsCreated == ASSUME IInv, NEW r \in Requests, CommitOrder(r) PROVE IInv'
<1>1. PICK q \in Transaction : q = request[r] /\ RequestHolds(q)
  BY DEF IInv, RequestsHold
<1> DEFINE o == Len(orders) + 1
           row == q.order
           a0 == [entry |-> q.order.entry, order |-> o,
                  currency |-> q.order.currency, amount |-> q.allocation]
           held == IF q.allocation = 0 THEN {} ELSE {a0}
<1>2. /\ q.does = "create" /\ orders' = Append(orders, row)
      /\ allocations' = allocations \cup held
      /\ EntryMarked(row.entry, q.entryStatus)
      /\ ClientBilled(q, row.company, row.phone, o)
      /\ request' = [request EXCEPT ![r] = Idle]
      /\ UNCHANGED <<wallet, shared>>
  BY <1>1 DEF CommitOrder
<1>3. RowsTyped /\ RowsNamed /\ RequestsHold /\ CreationHolds(q)
  BY <1>1, <1>2 DEF IInv, RequestHolds
<1>4. /\ row \in Order /\ row.entry \in Nat /\ row.company \in Companies
      /\ row.phone \in Phones \cup {NoPhone} /\ row.currency \in Currencies
      /\ row.status = "pending" /\ row.entry \in 0 .. Len(entries)
  BY <1>3 DEF Transaction, Order, CreationHolds
<1>5. q.allocation \in Nat /\ q.entryStatus \in EntryStatuses \cup {"kept"}
  BY DEF Transaction
<1>6. /\ orders' \in Seq(Order) /\ DOMAIN orders' = DOMAIN orders \cup {o}
      /\ o \notin DOMAIN orders /\ orders'[o] = row /\ o \in Nat
      /\ Len(orders) <= Len(orders')
      /\ \A k \in DOMAIN orders : orders'[k] = orders[k]
  <2>1. orders \in Seq(Order)
    BY <1>3 DEF RowsTyped
  <2> HIDE DEF row
  <2> QED BY <1>2, <1>4, <2>1, SequenceAppended
<1>7. a0.order = o /\ a0.entry = row.entry /\ (q.allocation # 0 => a0 \in AllocationRow)
  BY <1>4, <1>5, <1>6 DEF AllocationRow
<1> HIDE DEF o, row, a0
<1>8. entries' \in Seq(Entry) /\ Len(entries') = Len(entries) /\ DOMAIN entries' = DOMAIN entries
  <2>1. entries' \in Seq(Entry) /\ Len(entries') = Len(entries)
    BY <1>2, <1>3, <1>4, <1>5, EntryIsMarked DEF CreationHolds, row
  <2> QED BY <1>3, <2>1 DEF RowsTyped
<1>9. Bills(q, row.company, row.phone, o)
  BY <1>2, <1>3, <1>4, <1>6, ClientBills
<1>10. RowsTyped'
  <2>1. held \subseteq AllocationRow /\ IsFiniteSet(held)
    BY <1>7, FS_EmptySet, FS_Singleton
  <2>2. allocations' \subseteq AllocationRow /\ IsFiniteSet(allocations')
    BY <1>2, <1>3, <2>1, FS_Union DEF RowsTyped
  <2> QED BY <1>2, <1>3, <1>6, <1>8, <1>9, <2>2 DEF RowsTyped, Bills
<1>11. \A a \in held : a.order = o /\ a.entry = row.entry /\ row.entry \in DOMAIN entries
  <2>1. q.allocation # 0 => row.entry \in DOMAIN entries
    BY <1>3, <1>4, RowsAreRecords DEF CreationHolds, row
  <2> QED BY <1>7, <2>1
<1>12. RowsNamed'
  <2>1. \A a \in allocations' : a.entry \in DOMAIN entries' /\ a.order \in DOMAIN orders'
    BY <1>2, <1>3, <1>6, <1>8, <1>11 DEF RowsNamed
  <2>2. \A k \in DOMAIN orders' : orders'[k].entry \in 0 .. Len(entries')
    BY <1>3, <1>4, <1>6, <1>8 DEF RowsNamed
  <2>3. \A i \in DOMAIN shared' : shared'[i].order \in DOMAIN orders'
    BY <1>2, <1>3, <1>6 DEF RowsNamed
  <2>4. ASSUME NEW c \in Companies, NEW p \in Phones, NEW i \in DOMAIN client'[c][p].movements
        PROVE  LET m == client'[c][p].movements[i]
               IN m.order \in DOMAIN orders' /\ (m.reversal => orders'[m.order].status \in Verdicts)
    <3> DEFINE m == client'[c][p].movements[i]
               ms == client[c][p].movements
    <3>1. \/ m.order = o /\ (m.reversal <=> q.does = "close")
          \/ \E j \in DOMAIN ms : m = ms[j]
      BY <1>3, <1>6, <1>9, MovementsBilled
    <3>2. \A j \in DOMAIN ms : /\ ms[j].order \in DOMAIN orders
                               /\ ms[j].reversal => orders[ms[j].order].status \in Verdicts
      BY <1>3 DEF RowsNamed
    <3> HIDE DEF m, ms
    <3>3. m.order \in DOMAIN orders' /\ (m.reversal => orders'[m.order].status \in Verdicts)
      BY <1>2, <1>6, <3>1, <3>2
    <3> QED BY <3>3 DEF m
  <2> QED BY <2>1, <2>2, <2>3, <2>4 DEF RowsNamed
<1>13. ASSUME NEW k \in DOMAIN orders
       PROVE  /\ orders[k].phone # NoPhone => Charged(k)' = Charged(k)
              /\ NetCharge(k)' = NetCharge(k)
  <2>1. k # o /\ orders'[k].company = orders[k].company /\ orders'[k].phone = orders[k].phone
    BY <1>6
  <2>2. PICK c \in Companies, phone \in Phones \cup {NoPhone}, n \in Nat :
          n = o /\ Bills(q, c, phone, n)
    BY <1>4, <1>6, <1>9
  <2>3. RowsTyped
    BY <1>3
  <2> QED BY <2>1, <2>2, <2>3, ChargesBilled
<1>14. RequestsHold'
  <2>1. /\ request' \in [Requests -> Transaction]
        /\ \A s \in Requests : request'[s] = Idle \/ request'[s] = request[s]
    BY <1>2, <1>3, IdleAgain
  <2>2. Len(entries) <= Len(entries')
    BY <1>3, <1>8, RowsAreRecords
  <2>3. \A k \in DOMAIN orders :
          orders'[k] = orders[k] /\ (orders[k].phone # NoPhone => Charged(k)' = Charged(k))
    BY <1>6, <1>13
  <2> QED BY <1>3, <1>6, <1>10, <2>1, <2>2, <2>3, OthersGoOn
<1>15. ApprovalsAreSettled'
  <2> SUFFICES ASSUME NEW k \in DOMAIN orders'
               PROVE  LET own == {i \in DOMAIN shared' : shared'[i].order = k}
                      IN IF orders'[k].status # "approved" THEN own = {}
                         ELSE /\ Cardinality(own) = 1
                              /\ \A i \in own : /\ shared'[i].amount = orders'[k].converted
                                                /\ shared'[i].currency = orders'[k].target
                                                /\ {shared'[i].debtor, shared'[i].creditor} = Companies
    BY DEF ApprovalsAreSettled
  <2>0. shared' = shared
    BY <1>2
  <2>1. CASE k = o
    BY <1>3, <1>4, <1>6, <2>0, <2>1 DEF RowsNamed
  <2>2. CASE k \in DOMAIN orders
    <3>1. orders'[k] = orders[k] /\ ApprovalsAreSettled
      BY <1>6, <2>2 DEF IInv, RowsAgree
    <3> QED BY <2>0, <2>2, <3>1 DEF ApprovalsAreSettled
  <2> QED BY <1>6, <2>1, <2>2
<1>16. AllocationsFollowDecisions'
  <2> SUFFICES ASSUME NEW a \in allocations'
               PROVE  /\ orders'[a.order].status \in {"pending", "approved"}
                      /\ orders'[a.order].entry = a.entry
                      /\ {x \in allocations' : x.order = a.order} = {a}
    BY DEF AllocationsFollowDecisions, OwnAllocation
  <2>1. \A x \in allocations : x.order \in DOMAIN orders /\ x.order # o
    BY <1>3, <1>6 DEF RowsNamed
  <2>2. CASE a \in allocations
    <3>1. /\ orders[a.order].status \in {"pending", "approved"}
          /\ orders[a.order].entry = a.entry
          /\ {x \in allocations : x.order = a.order} = {a}
      BY <2>2 DEF IInv, RowsAgree, AllocationsFollowDecisions, OwnAllocation
    <3>2. {x \in allocations' : x.order = a.order} = {x \in allocations : x.order = a.order}
      BY <1>2, <1>11, <2>1, <2>2
    <3> QED BY <1>6, <2>1, <2>2, <3>1, <3>2
  <2>3. CASE a \in held
    <3>1. {x \in allocations' : x.order = a.order} = {a}
      BY <1>2, <1>11, <2>1, <2>3
    <3> QED BY <1>4, <1>6, <1>11, <2>3, <3>1
  <2> QED BY <1>2, <2>2, <2>3
<1>17. ClosedOrdersLeaveClientsEven'
  <2> SUFFICES ASSUME NEW k \in DOMAIN orders', orders'[k].status \in {"rejected", "cancelled"}
               PROVE  NetCharge(k)' = 0
    BY DEF ClosedOrdersLeaveClientsEven
  <2>1. k # o
    BY <1>4, <1>6
  <2>2. k \in DOMAIN orders /\ orders'[k] = orders[k]
    BY <1>6, <2>1
  <2>3. NetCharge(k) = 0
    BY <2>2 DEF IInv, RowsAgree, ClosedOrdersLeaveClientsEven
  <2> QED BY <1>13, <2>2, <2>3
<1> QED BY <1>10, <1>12, <1>14, <1>15, <1>16, <1>17 DEF IInv, RowsAgree

\* A pending order has no reversal.
LEMMA PendingCharge ==
  ASSUME RowsTyped, RowsNamed, NEW o \in DOMAIN orders, orders[o].status = "pending"
  PROVE  orders[o].phone # NoPhone => NetCharge(o) = Charged(o)
<1> SUFFICES ASSUME orders[o].phone # NoPhone PROVE NetCharge(o) = Charged(o)
  OBVIOUS
<1>1. orders[o].company \in Companies /\ orders[o].phone \in Phones
  BY RowsAreRecords DEF Order
<1> DEFINE ms == client[orders[o].company][orders[o].phone].movements
<1>2. \A i \in DOMAIN ms : ms[i].reversal => orders[ms[i].order].status \in Verdicts
  BY <1>1 DEF RowsNamed
<1>3. MovementsOn(o) = ms
  BY DEF MovementsOn
<1> HIDE DEF ms
<1>4. Named(ms, o) = OwnOf(ms, o)
  BY <1>2 DEF Named, OwnOf, Verdicts
<1> QED BY <1>3, <1>4, ChargesAreSums

LEMMA CloseIsWritten == ASSUME IInv, NEW r \in Requests, CommitClose(r) PROVE IInv'
<1>1. PICK q \in Transaction : q = request[r] /\ RequestHolds(q)
  BY DEF IInv, RequestsHold
<1> DEFINE o == q.id
           was == orders[o]
           row == [was EXCEPT !.status = q.order.status]
<1>2. /\ q.does = "close" /\ q.stage = "writing"
      /\ orders' = [orders EXCEPT ![o].status = q.order.status]
      /\ allocations' = allocations \ OwnAllocation(o)
      /\ EntryMarked(q.order.entry, q.entryStatus)
      /\ ClientBilled(q, q.order.company, q.order.phone, o)
      /\ request' = [request EXCEPT ![r] = Idle]
      /\ UNCHANGED <<wallet, shared>>
  BY <1>1 DEF CommitClose, WithoutAllocation
<1>3. RowsTyped /\ RowsNamed /\ RequestsHold /\ ClosingHolds(q)
  BY <1>1, <1>2 DEF IInv, RequestHolds
<1>4. /\ o \in DOMAIN orders /\ o \in Nat /\ was \in Order /\ was.status = "pending"
      /\ q.order.status \in Verdicts /\ q.order = row
      /\ q.entryStatus # "kept" => q.order.entry # 0
      /\ q.order.phone # NoPhone => q.delta = -Charged(o)
  BY <1>2, <1>3, RowsAreRecords DEF ClosingHolds
<1>5. row \in Order /\ row.status \in Verdicts
  BY <1>4 DEF Order, OrderStatuses, Verdicts
<1>6. row.entry = was.entry /\ row.company = was.company /\ row.phone = was.phone
  BY <1>4 DEF Order
<1>7. /\ q.order.entry = was.entry /\ q.order.company = was.company
      /\ q.order.phone = was.phone
  BY <1>4, <1>6
<1>8. orders' = [orders EXCEPT ![o] = row]
  BY <1>2
<1> HIDE DEF row, was, o
<1>9. /\ orders' \in Seq(Order) /\ DOMAIN orders' = DOMAIN orders
      /\ Len(orders') = Len(orders)
      /\ \A k \in DOMAIN orders : orders'[k] = IF k = o THEN row ELSE orders[k]
  <2>1. orders \in Seq(Order)
    BY <1>3 DEF RowsTyped
  <2> QED BY <1>5, <1>8, <2>1, SequenceChanged
<1>10. was.entry \in 0 .. Len(entries) /\ was.company \in Companies /\ was.phone \in Phones \cup {NoPhone}
  BY <1>3, <1>4 DEF RowsNamed, was, Order
<1>11. entries' \in Seq(Entry) /\ Len(entries') = Len(entries) /\ DOMAIN entries' = DOMAIN entries
  <2>1. q.entryStatus \in EntryStatuses \cup {"kept"}
    BY DEF Transaction
  <2>2. entries' \in Seq(Entry) /\ Len(entries') = Len(entries)
    BY <1>2, <1>3, <1>4, <1>7, <1>10, <2>1, EntryIsMarked
  <2> QED BY <1>3, <2>2 DEF RowsTyped
<1>12. Bills(q, was.company, was.phone, o)
  BY <1>2, <1>3, <1>4, <1>7, <1>10, ClientBills
<1>13. RowsTyped'
  <2>1. allocations' \subseteq AllocationRow /\ IsFiniteSet(allocations')
    BY <1>2, <1>3, FS_Subset DEF RowsTyped
  <2> QED BY <1>2, <1>3, <1>9, <1>11, <1>12, <2>1 DEF RowsTyped, Bills
<1>14. RowsNamed'
  <2>1. \A a \in allocations' : a.entry \in DOMAIN entries' /\ a.order \in DOMAIN orders'
    BY <1>2, <1>3, <1>9, <1>11 DEF RowsNamed
  <2>2. \A k \in DOMAIN orders' : orders'[k].entry \in 0 .. Len(entries')
    BY <1>3, <1>6, <1>9, <1>10, <1>11 DEF RowsNamed
  <2>3. \A i \in DOMAIN shared' : shared'[i].order \in DOMAIN orders'
    BY <1>2, <1>3, <1>9 DEF RowsNamed
  <2>4. ASSUME NEW c \in Companies, NEW p \in Phones, NEW i \in DOMAIN client'[c][p].movements
        PROVE  LET m == client'[c][p].movements[i]
               IN m.order \in DOMAIN orders' /\ (m.reversal => orders'[m.order].status \in Verdicts)
    <3> DEFINE m == client'[c][p].movements[i]
               ms == client[c][p].movements
    <3>1. \/ m.order = o /\ (m.reversal <=> q.does = "close")
          \/ \E j \in DOMAIN ms : m = ms[j]
      BY <1>3, <1>4, <1>12, MovementsBilled
    <3>2. \A j \in DOMAIN ms : /\ ms[j].order \in DOMAIN orders
                               /\ ms[j].reversal => orders[ms[j].order].status \in Verdicts
      BY <1>3 DEF RowsNamed
    <3> HIDE DEF m, ms
    <3>3. m.order \in DOMAIN orders' /\ (m.reversal => orders'[m.order].status \in Verdicts)
      BY <1>4, <1>5, <1>9, <3>1, <3>2
    <3> QED BY <3>3 DEF m
  <2> QED BY <2>1, <2>2, <2>3, <2>4 DEF RowsNamed
<1>15. ASSUME NEW k \in DOMAIN orders
       PROVE  /\ orders[k].phone # NoPhone => Charged(k)' = Charged(k)
              /\ k # o => NetCharge(k)' = NetCharge(k)
              /\ k = o /\ was.phone # NoPhone => NetCharge(k)' = NetCharge(k) + q.delta
  <2>1. /\ orders'[k].company = orders[k].company /\ orders'[k].phone = orders[k].phone
        /\ k = o => orders[k].company = was.company /\ orders[k].phone = was.phone
    BY <1>6, <1>9 DEF was
  <2>2. PICK c \in Companies, phone \in Phones \cup {NoPhone}, n \in Nat :
          n = o /\ c = was.company /\ phone = was.phone /\ Bills(q, c, phone, n)
    BY <1>4, <1>10, <1>12
  <2>3. RowsTyped
    BY <1>3
  <2> QED BY <1>2, <2>1, <2>2, <2>3, ChargesBilled
<1>16. RequestsHold'
  <2>1. /\ request' \in [Requests -> Transaction] /\ request'[r] = Idle
        /\ \A s \in Requests : request'[s] = Idle \/ request'[s] = request[s]
    BY <1>2, <1>3, IdleAgain
  <2>2. Len(entries) <= Len(entries') /\ Len(orders) <= Len(orders')
    BY <1>3, <1>9, <1>11, RowsAreRecords
  <2>3. \A k \in DOMAIN orders : orders[k].phone # NoPhone => Charged(k)' = Charged(k)
    BY <1>15
  <2>4. \A s \in Requests, k \in DOMAIN orders :
          request'[s] = request[s] /\ request[s].does = "close" /\ request[s].id = k =>
            orders'[k] = orders[k]
    <3> SUFFICES ASSUME NEW s \in Requests, NEW k \in DOMAIN orders, request'[s] = request[s],
                        request[s].does = "close", request[s].id = k
                 PROVE  orders'[k] = orders[k]
      OBVIOUS
    <3>1. s # r
      BY <2>1, IdleTyped
    <3>2. k # o
      BY <1>1, <1>2, <1>3, <3>1 DEF RequestsHold, ClosersApart, o
    <3> QED BY <1>9, <3>2
  <2> QED BY <1>3, <1>13, <2>1, <2>2, <2>3, <2>4, OthersGoOn
<1>17. ApprovalsAreSettled'
  <2> SUFFICES ASSUME NEW k \in DOMAIN orders'
               PROVE  LET own == {i \in DOMAIN shared' : shared'[i].order = k}
                      IN IF orders'[k].status # "approved" THEN own = {}
                         ELSE /\ Cardinality(own) = 1
                              /\ \A i \in own : /\ shared'[i].amount = orders'[k].converted
                                                /\ shared'[i].currency = orders'[k].target
                                                /\ {shared'[i].debtor, shared'[i].creditor} = Companies
    BY DEF ApprovalsAreSettled
  <2>1. shared' = shared /\ k \in DOMAIN orders /\ ApprovalsAreSettled
    BY <1>2, <1>9 DEF IInv, RowsAgree
  <2>2. CASE k = o
    <3>1. orders[k].status # "approved" /\ orders'[k].status # "approved"
      BY <1>4, <1>5, <1>9, <2>2 DEF Verdicts, was
    <3> QED BY <2>1, <3>1 DEF ApprovalsAreSettled
  <2>3. CASE k # o
    <3>1. orders'[k] = orders[k]
      BY <1>9, <2>1, <2>3
    <3> QED BY <2>1, <3>1 DEF ApprovalsAreSettled
  <2> QED BY <2>2, <2>3
<1>18. AllocationsFollowDecisions'
  <2> SUFFICES ASSUME NEW a \in allocations'
               PROVE  /\ orders'[a.order].status \in {"pending", "approved"}
                      /\ orders'[a.order].entry = a.entry
                      /\ {x \in allocations' : x.order = a.order} = {a}
    BY DEF AllocationsFollowDecisions, OwnAllocation
  <2>1. a \in allocations /\ a.order # o
    BY <1>2 DEF OwnAllocation
  <2>2. /\ a.order \in DOMAIN orders
        /\ orders[a.order].status \in {"pending", "approved"}
        /\ orders[a.order].entry = a.entry
        /\ {x \in allocations : x.order = a.order} = {a}
    BY <1>3, <2>1 DEF IInv, RowsNamed, RowsAgree, AllocationsFollowDecisions, OwnAllocation
  <2>3. {x \in allocations' : x.order = a.order} = {x \in allocations : x.order = a.order}
    BY <1>2, <2>1 DEF OwnAllocation
  <2> QED BY <1>9, <2>1, <2>2, <2>3
<1>19. ClosedOrdersLeaveClientsEven'
  <2> SUFFICES ASSUME NEW k \in DOMAIN orders, orders'[k].status \in {"rejected", "cancelled"}
               PROVE  NetCharge(k)' = 0
    BY <1>9 DEF ClosedOrdersLeaveClientsEven
  <2>1. CASE k # o
    <3>1. orders'[k] = orders[k] /\ NetCharge(k)' = NetCharge(k)
      BY <1>9, <1>15, <2>1
    <3> QED BY <3>1 DEF IInv, RowsAgree, ClosedOrdersLeaveClientsEven
  <2>2. CASE k = o /\ was.phone = NoPhone
    <3>1. orders'[k].phone = NoPhone
      BY <1>6, <1>9, <2>2
    <3> QED BY <3>1 DEF NetCharge
  <2>3. CASE k = o /\ was.phone # NoPhone
    <3>1. NetCharge(k)' = NetCharge(k) + q.delta
      BY <1>15, <2>3
    <3>2. NetCharge(k) = Charged(k) /\ Charged(k) \in Int
      BY <1>3, <1>4, <2>3, PendingCharge, ChargedInt DEF was
    <3>3. q.delta = -Charged(k)
      BY <1>4, <1>7, <2>3
    <3> QED BY <3>1, <3>2, <3>3
  <2> QED BY <2>1, <2>2, <2>3
<1> QED BY <1>13, <1>14, <1>16, <1>17, <1>18, <1>19 DEF IInv, RowsAgree

\* What an approval pays leaves the wallets as rows of wallets.
LEMMA OutgoingTyped ==
  ASSUME RowsTyped, NEW w \in Wallets, NEW cents \in Nat,
         CanApply(wallet[w], -Exact(cents))
  PROVE  Moved(Outgoing(w, cents)) \in [Wallets -> WalletRow]
<1>1. Exact(cents) \in Int
  BY QuantizeExact
<1>2. Outgoing(w, cents) \in [Wallets -> Int]
  BY <1>1 DEF Outgoing
<1>3. CanMove(Outgoing(w, cents))
  BY DEF CanMove, Outgoing
<1> QED BY <1>2, <1>3, MovedTyped DEF RowsTyped

LEMMA TransferIsApproved ==
  ASSUME IInv, NEW o \in DOMAIN orders, NEW w \in Wallets, ApproveTransfer(o, w)
  PROVE  IInv'
<1> DEFINE row == [orders[o] EXCEPT !.status = "approved", !.wallet = w]
           payer == OtherParty(orders[o].company)
<1>1. orders[o] \in Order /\ RowsTyped
  BY RowsAreRecords DEF IInv
<1>2. /\ row \in Order /\ row.status = "approved" /\ row.entry = orders[o].entry
      /\ row.converted = orders[o].converted /\ row.target = orders[o].target
  BY <1>1 DEF Order, OrderStatuses
<1>3. orders' = [orders EXCEPT ![o] = row]
  BY DEF ApproveTransfer
<1>4. /\ Decidable(o) /\ Settled(o, orders[o].company, payer)
      /\ UNCHANGED <<entries, allocations, client, request>>
  BY DEF ApproveTransfer
<1>5. wallet' \in [Wallets -> WalletRow]
  <2>1. orders[o].converted \in Nat
    BY <1>1 DEF Order
  <2> QED BY <1>1, <2>1, OutgoingTyped DEF ApproveTransfer
<1>6. orders[o].company \in Companies /\ payer \in Companies /\ {orders[o].company, payer} = Companies
  <2>1. orders[o].company \in Companies
    BY <1>1 DEF Order
  <2> QED BY <2>1, TwoParties
<1> HIDE DEF row, payer
<1> QED BY <1>2, <1>3, <1>4, <1>5, <1>6, OrderIsApproved

LEMMA PaymentIsApproved ==
  ASSUME IInv, NEW o \in DOMAIN orders, ApprovePayment(o)
  PROVE  IInv'
<1> DEFINE row == [orders[o] EXCEPT !.status = "approved"]
           own == orders[o].company
           other == OtherParty(own)
<1>1. orders[o] \in Order /\ RowsTyped
  BY RowsAreRecords DEF IInv
<1>2. /\ row \in Order /\ row.status = "approved" /\ row.entry = orders[o].entry
      /\ row.converted = orders[o].converted /\ row.target = orders[o].target
  BY <1>1 DEF Order, OrderStatuses
<1>3. orders' = [orders EXCEPT ![o] = row]
  BY DEF ApprovePayment
<1>4. /\ Decidable(o) /\ (Settled(o, other, own) \/ Settled(o, own, other))
      /\ UNCHANGED <<entries, allocations, client, request>>
  BY DEF ApprovePayment
<1>5. wallet' \in [Wallets -> WalletRow]
  <2>1. orders[o].amount \in Nat /\ orders[o].wallet \in Wallets \cup {NoWalletChosen}
    BY <1>1 DEF Order
  <2>2. CASE orders[o].wallet = NoWalletChosen
    BY <1>1, <2>2 DEF ApprovePayment, RowsTyped
  <2>3. CASE orders[o].wallet # NoWalletChosen
    BY <1>1, <2>1, <2>3, OutgoingTyped DEF ApprovePayment
  <2> QED BY <2>2, <2>3
<1>6. own \in Companies /\ other \in Companies /\ {own, other} = Companies /\ {other, own} = Companies
  <2>1. own \in Companies
    BY <1>1 DEF Order
  <2> HIDE DEF own
  <2> QED BY <2>1, TwoParties
<1> HIDE DEF row, own, other
<1>7. CASE Settled(o, other, own)
  BY <1>2, <1>3, <1>4, <1>5, <1>6, <1>7, OrderIsApproved
<1>8. CASE Settled(o, own, other)
  BY <1>2, <1>3, <1>4, <1>5, <1>6, <1>8, OrderIsApproved
<1> QED BY <1>4, <1>7, <1>8

---------------------------------------------------------------------------
(* The theorems.                                                           *)

LEMMA StepHolds == ASSUME IInv, [Next]_vars PROVE IInv'
<1>1. CASE UNCHANGED vars
  <2>1. /\ RowsTyped' /\ RowsNamed' /\ RowsAgree'
    BY <1>1, SameRowsAgree DEF vars
  <2>2. RequestsHold'
    <3>1. RowsTyped /\ RequestsHold /\ RowsTyped'
      BY <2>1 DEF IInv
    <3>2. /\ request' \in [Requests -> Transaction] /\ \A s \in Requests : request'[s] = request[s]
          /\ Len(entries) <= Len(entries') /\ Len(orders) <= Len(orders')
          /\ orders' = orders
      BY <1>1, <3>1, RowsAreRecords DEF vars, RequestsHold
    <3>3. \A k \in DOMAIN orders : Charged(k)' = Charged(k)
      BY <1>1, ChargedSame DEF vars
    <3> QED BY <3>1, <3>2, <3>3, OthersGoOn
  <2> QED BY <2>1, <2>2 DEF IInv
<1>2. CASE Next
  <2>1. ASSUME NEW b \in Receipts, CreateEntry(b) PROVE IInv'
    BY <2>1, EntryIsCreated
  <2>2. ASSUME NEW r \in Requests, Start(r) PROVE IInv'
    BY <2>2, Starts
  <2>3. ASSUME NEW r \in Requests, ReadClient(r) PROVE IInv'
    BY <2>3, ClientIsRead
  <2>4. ASSUME NEW r \in Requests, CommitOrder(r) PROVE IInv'
    BY <2>4, OrderIsCreated
  <2>5. ASSUME NEW r \in Requests, CommitMerge(r) PROVE IInv'
    BY <2>5, MergeIsWritten
  <2>6. ASSUME NEW r \in Requests, CommitRefund(r) PROVE IInv'
    BY <2>6, RefundIsWritten
  <2>7. ASSUME NEW r \in Requests, CommitClose(r) PROVE IInv'
    BY <2>7, CloseIsWritten
  <2>8. ASSUME NEW r \in Requests, Abort(r) PROVE IInv'
    BY <2>8, Aborts
  <2>9. ASSUME NEW o \in DOMAIN orders, NEW w \in Wallets, ApproveTransfer(o, w) PROVE IInv'
    BY <2>9, TransferIsApproved
  <2>10. ASSUME NEW o \in DOMAIN orders, ApprovePayment(o) PROVE IInv'
    BY <2>10, PaymentIsApproved
  <2> QED BY <1>2, <2>1, <2>2, <2>3, <2>4, <2>5, <2>6, <2>7, <2>8, <2>9, <2>10 DEF Next
<1> QED BY <1>1, <1>2

LEMMA AlwaysHolds == Spec => []IInv
BY InitHolds, StepHolds, PTL DEF Spec

\* Every row and every open transaction keeps its type, and allocations and orders name
\* rows that exist, however many requests are served at the same time.
THEOREM TypeCorrect == Spec => []TypeOK
<1>1. IInv => TypeOK
  <2> SUFFICES ASSUME IInv PROVE TypeOK
    OBVIOUS
  <2>1. RowsTyped /\ RowsNamed /\ request \in [Requests -> Transaction]
    BY DEF IInv, RequestsHold
  <2>2. \A a \in allocations : /\ a.entry \in DOMAIN entries /\ a.order \in DOMAIN orders
                               /\ a.currency \in Currencies /\ a.amount \in Nat \ {0}
    BY <2>1 DEF RowsTyped, RowsNamed, AllocationRow
  <2>3. \A o \in DOMAIN orders : orders[o].entry \in 0 .. Len(entries)
    BY <2>1 DEF RowsNamed
  <2> QED BY <2>1, <2>2, <2>3 DEF RowsTyped, TypeOK, SharedRow
<1> QED BY <1>1, AlwaysHolds, PTL

\* Two users of the two companies who approve, reject or cancel the same order at the same
\* time never replace a decision: whoever has the order's lock decides, once.
THEOREM OrdersStayDecided == Spec => OrdersAreDecidedOnce
<1>1. ASSUME IInv, [Next]_vars
      PROVE  [\A o \in DOMAIN orders : orders[o].status # "pending" => orders'[o] = orders[o]]_orders
  <2> SUFFICES ASSUME NEW o \in DOMAIN orders, orders[o].status # "pending", orders' # orders
               PROVE  orders'[o] = orders[o]
    OBVIOUS
  <2>0. RowsTyped /\ orders \in Seq(Order)
    BY <1>1 DEF IInv, RowsTyped
  <2>1. ASSUME NEW r \in Requests, CommitOrder(r) PROVE orders'[o] = orders[o]
    <3>1. orders' = Append(orders, request[r].order)
      BY <2>1 DEF CommitOrder
    <3>2. request[r].order \in Order
      <4>1. request[r] \in Transaction
        BY <1>1 DEF IInv, RequestsHold
      <4> QED BY <4>1 DEF Transaction
    <3> QED BY <2>0, <3>1, <3>2, SequenceAppended
  <2>2. ASSUME NEW r \in Requests, CommitClose(r) PROVE orders'[o] = orders[o]
    <3>1. orders' = [orders EXCEPT ![request[r].id].status = request[r].order.status]
      BY <2>2 DEF CommitClose
    <3>2. request[r].id # o
      <4>1. request[r].does = "close" /\ RequestHolds(request[r])
        BY <1>1, <2>2 DEF CommitClose, IInv, RequestsHold
      <4> QED BY <4>1 DEF RequestHolds, ClosingHolds
    <3> QED BY <2>0, <3>1, <3>2
  <2>3. ASSUME NEW k \in DOMAIN orders, NEW w \in Wallets, ApproveTransfer(k, w)
        PROVE  orders'[o] = orders[o]
    <3>1. k # o /\ orders' = [orders EXCEPT ![k].status = "approved", ![k].wallet = w]
      BY <2>3 DEF ApproveTransfer, Decidable
    <3> QED BY <2>0, <3>1
  <2>4. ASSUME NEW k \in DOMAIN orders, ApprovePayment(k) PROVE orders'[o] = orders[o]
    <3>1. k # o /\ orders' = [orders EXCEPT ![k].status = "approved"]
      BY <2>4 DEF ApprovePayment, Decidable
    <3> QED BY <2>0, <3>1
  <2>5. ASSUME NEW r \in Requests, Start(r) PROVE orders' = orders
    BY <2>5 DEF Start, StartTransfer, StartPayment, StartOrder, StartMerge, StartRefund,
                RejectTransfer, CancelTransfer, RejectPayment, CancelPayment, StartClose
  <2>6. ASSUME NEW r \in Requests, ReadClient(r) \/ CommitMerge(r) \/ CommitRefund(r) \/ Abort(r)
        PROVE  orders' = orders
    BY <2>6 DEF ReadClient, CommitMerge, CommitRefund, Abort
  <2>7. ASSUME NEW b \in Receipts, CreateEntry(b) PROVE orders' = orders
    BY <2>7 DEF CreateEntry
  <2> QED BY <1>1, <2>1, <2>2, <2>3, <2>4, <2>5, <2>6, <2>7 DEF Next, vars
<1> QED BY <1>1, AlwaysHolds, PTL DEF Spec, OrdersAreDecidedOnce

\* An order has moved the shared balance of the two companies if and only if it was approved:
\* once, by its converted amount, from one of them to the other.
THEOREM ApprovalsAreAlwaysSettled == Spec => []ApprovalsAreSettled
BY AlwaysHolds, PTL DEF IInv, RowsAgree

\* Money of an entry is held only by pending and approved orders, on the entry the order names,
\* once: a close frees it in the same step as it decides, whatever else is in progress.
THEOREM AllocationsAlwaysFollowDecisions == Spec => []AllocationsFollowDecisions
BY AlwaysHolds, PTL DEF IInv, RowsAgree

\* A rejected or cancelled order has taken back exactly what it charged its client, although the
\* charge was read in an earlier step, without a lock on the client, by any of the open requests.
THEOREM ClosedOrdersAlwaysLeaveClientsEven == Spec => []ClosedOrdersLeaveClientsEven
BY AlwaysHolds, PTL DEF IInv, RowsAgree

---------------------------------------------------------------------------
(* Entries, allocations and clients are read without a lock.  What a       *)
(* request read of them is still so when it writes unless another commit   *)
(* came in between, which SettlementRaces records; an entry or a client no *)
(* commit raced on is as if requests were served one after the other.      *)

EntryHolds(e) ==
  /\ \A c \in Currencies : Available(entries[e].amount, AllocationsOf(e), c) >= 0
  /\ entries[e].status # "cancelled" =>
       entries[e].status = recompute_status(entries[e].amount, AllocationsOf(e))
  /\ entries[e].status = "cancelled" => AllocationsOf(e) = {}

Explained(c, p) ==
  client[c][p].balance = DeltaOf(client[c][p].movements, DOMAIN client[c][p].movements)

\* The allocation a creation will insert for order k.
HeldRow(q, k) ==
  [entry |-> q.order.entry, order |-> k, currency |-> q.order.currency, amount |-> q.allocation]

CreationCurrent(q) ==
  LET e == q.order.entry
  IN /\ e # 0 => Usable(e)
     /\ IF q.allocation = 0 THEN q.entryStatus = "kept"
        ELSE /\ e # 0
             /\ q.allocation <= Available(entries[e].amount, AllocationsOf(e), q.order.currency)
             /\ \A k \in Nat \ DOMAIN orders :
                  q.entryStatus = StatusUpdate(e, AllocationsOf(e) \cup {HeldRow(q, k)})

OthersOf(e, o) == {a \in AllocationsOf(e) : a.order # o}

ClosingCurrent(q) ==
  LET e == q.order.entry
  IN q.entryStatus = IF e = 0 THEN "kept" ELSE StatusUpdate(e, OthersOf(e, q.id))

\* The lines of the merged entry are what is left of its sources.
MergingCurrent(q) ==
  /\ \A e \in q.sources : Usable(e)
  /\ \A d, e \in q.sources : entries[d].company = entries[e].company
  /\ \E rest : /\ \A e \in q.sources : rest[e] \in Remainders(entries[e].amount, AllocationsOf(e))
               /\ \A w \in Wallets : q.lines[w] = SumFunction([e \in q.sources |-> rest[e][w]])

\* What a request in progress read is still so.
EntriesRead(q) ==
  /\ q.does = "create" => CreationCurrent(q)
  /\ q.does = "close" => ClosingCurrent(q)
  /\ q.does = "merge" => MergingCurrent(q)
  /\ q.does = "refund" => Usable(q.id) /\ AllocationsOf(q.id) = {}

ClientRead(q) ==
  q.does \in {"create", "close"} /\ q.stage = "writing" /\ q.order.phone # NoPhone /\ q.delta # 0 =>
    q.seen = client[q.order.company][q.order.phone]

RaceInv ==
  /\ racedEntries \cup reopened \subseteq DOMAIN entries
  /\ \A e \in UnracedEntries : EntryHolds(e)
  /\ \A c \in Companies, p \in Phones : <<c, p>> \notin racedClients => Explained(c, p)
  /\ \A r \in Requests : r \notin staleEntries => EntriesRead(request[r])
  /\ \A r \in Requests : r \notin staleClients => ClientRead(request[r])

LEMMA IdleRead == EntriesRead(Idle) /\ ClientRead(Idle)
BY IdleTyped DEF EntriesRead, ClientRead

LEMMA EntriesOfExist ==
  ASSUME RowsTyped, RowsNamed, NEW q \in Transaction, RequestHolds(q)
  PROVE  EntriesOf(q) \subseteq DOMAIN entries
<1>1. q.does = "create" => q.order.entry \in 0 .. Len(entries)
  BY DEF RequestHolds, CreationHolds
<1>2. q.does = "close" => q.order.entry \in 0 .. Len(entries)
  <2> SUFFICES ASSUME q.does = "close" PROVE q.order.entry \in 0 .. Len(entries)
    OBVIOUS
  <2>1. q.id \in DOMAIN orders /\ q.order = [orders[q.id] EXCEPT !.status = q.order.status]
    BY DEF RequestHolds, ClosingHolds
  <2>2. [orders[q.id] EXCEPT !.status = q.order.status].entry = orders[q.id].entry
    BY <2>1, RowsAreRecords DEF Order
  <2> QED BY <2>1, <2>2 DEF RowsNamed
<1>3. DOMAIN entries = 1 .. Len(entries) /\ Len(entries) \in Nat
  BY RowsAreRecords
<1>4. CASE q.does \in {"create", "close"}
  <2>1. q.order.entry \in 0 .. Len(entries)
    BY <1>1, <1>2, <1>4
  <2>2. EntriesOf(q) = {q.order.entry} \ {0}
    BY <1>4 DEF EntriesOf
  <2> QED BY <1>3, <2>1, <2>2
<1>5. CASE q.does = "merge"
  BY <1>5 DEF EntriesOf, RequestHolds
<1>6. CASE q.does = "refund"
  BY <1>6 DEF EntriesOf, RequestHolds
<1>7. CASE q.does = "nothing"
  BY <1>7 DEF EntriesOf
<1> QED BY <1>4, <1>5, <1>6, <1>7 DEF Transaction

\* What EntriesOf is for each kind of transaction.
LEMMA EntriesOfEach ==
  ASSUME NEW q
  PROVE  /\ q.does \in {"create", "close"} => EntriesOf(q) = {q.order.entry} \ {0}
         /\ q.does = "merge" => EntriesOf(q) = q.sources
         /\ q.does = "refund" => EntriesOf(q) = {q.id}
BY DEF EntriesOf

\* What a commit makes stale, and where it races.
LEMMA Overtaken ==
  ASSUME NEW r \in Requests, Overtakes(r)
  PROVE  /\ \A s \in Requests : s # r /\ s \notin staleEntries' =>
              s \notin staleEntries /\ EntriesOf(request[s]) \cap EntriesOf(request[r]) = {}
         /\ \A s \in Requests : s # r /\ s \notin staleClients' =>
              s \notin staleClients /\ ClientsOf(request[s]) \cap ClientsOf(request[r]) = {}
         /\ racedEntries \subseteq racedEntries' /\ racedClients \subseteq racedClients'
         /\ r \in staleEntries => EntriesOf(request[r]) \subseteq racedEntries'
         /\ r \in staleClients => ClientsOf(request[r]) \subseteq racedClients'
         /\ racedEntries' \subseteq racedEntries \cup EntriesOf(request[r])
         /\ reopened \subseteq reopened' /\ reopened' \subseteq reopened \cup DOMAIN entries
         /\ \A e \in DOMAIN entries :
              entries[e].status = "cancelled" /\ entries'[e].status # "cancelled" => e \in reopened'
BY DEF Overtakes

---------------------------------------------------------------------------
(* Steps that leave an entry alone.                                        *)

LEMMA EntryStays ==
  ASSUME NEW e, EntryHolds(e), AllocationsOf(e)' = AllocationsOf(e),
         entries'[e].amount = entries[e].amount, entries'[e].status = entries[e].status
  PROVE  EntryHolds(e)'
BY DEF EntryHolds

LEMMA ReadingStays ==
  ASSUME NEW q, EntriesRead(q), DOMAIN orders \subseteq DOMAIN orders',
         \A e \in EntriesOf(q) : entries'[e] = entries[e] /\ AllocationsOf(e)' = AllocationsOf(e)
  PROVE  EntriesRead(q)'
<1>1. \A e \in EntriesOf(q) : Usable(e)' = Usable(e)
  BY DEF Usable
<1>2. ASSUME q.does = "create" PROVE CreationCurrent(q)'
  <2>1. CreationCurrent(q)
    BY <1>2 DEF EntriesRead
  <2>2. CASE q.order.entry = 0 /\ q.allocation = 0
    BY <2>1, <2>2 DEF CreationCurrent
  <2>3. CASE q.order.entry # 0
    <3>1. PICK e : e = q.order.entry
      OBVIOUS
    <3>2. /\ entries'[e] = entries[e] /\ AllocationsOf(e)' = AllocationsOf(e)
          /\ Usable(e)' = Usable(e)
      BY <1>1, <1>2, <2>3, <3>1, EntriesOfEach
    <3> QED BY <2>1, <3>1, <3>2 DEF CreationCurrent, StatusUpdate, HeldRow
  <2>4. CASE q.order.entry = 0 /\ q.allocation # 0
    BY <2>1, <2>4 DEF CreationCurrent
  <2> QED BY <2>2, <2>3, <2>4
<1>3. ASSUME q.does = "close" PROVE ClosingCurrent(q)'
  <2>1. ClosingCurrent(q)
    BY <1>3 DEF EntriesRead
  <2>2. CASE q.order.entry = 0
    BY <2>1, <2>2 DEF ClosingCurrent
  <2>3. CASE q.order.entry # 0
    <3>1. PICK e : e = q.order.entry
      OBVIOUS
    <3>2. entries'[e] = entries[e] /\ AllocationsOf(e)' = AllocationsOf(e)
      BY <1>3, <2>3, <3>1, EntriesOfEach
    <3>3. OthersOf(e, q.id)' = OthersOf(e, q.id)
      BY <3>2 DEF OthersOf
    <3> QED BY <2>1, <3>1, <3>2, <3>3 DEF ClosingCurrent, StatusUpdate
  <2> QED BY <2>2, <2>3
<1>4. ASSUME q.does = "merge" PROVE MergingCurrent(q)'
  <2>1. MergingCurrent(q)
    BY <1>4 DEF EntriesRead
  <2>2. \A e \in q.sources : /\ entries'[e] = entries[e] /\ AllocationsOf(e)' = AllocationsOf(e)
                             /\ Usable(e)' = Usable(e)
    BY <1>1, <1>4, EntriesOfEach
  <2> QED BY <2>1, <2>2 DEF MergingCurrent
<1>5. ASSUME q.does = "refund" PROVE Usable(q.id)' /\ AllocationsOf(q.id)' = {}
  <2>1. Usable(q.id) /\ AllocationsOf(q.id) = {} /\ q.id \in EntriesOf(q)
    BY <1>5, EntriesOfEach DEF EntriesRead
  <2> QED BY <1>1, <2>1
<1> QED BY <1>2, <1>3, <1>4, <1>5 DEF EntriesRead

LEMMA ClientReadStays ==
  ASSUME NEW q, ClientRead(q),
         q.does \in {"create", "close"} /\ q.stage = "writing" /\ q.order.phone # NoPhone
           /\ q.delta # 0 =>
           client'[q.order.company][q.order.phone] = client[q.order.company][q.order.phone]
  PROVE  ClientRead(q)'
BY DEF ClientRead

LEMMA ExplainedStays ==
  ASSUME NEW c, NEW p, Explained(c, p), client'[c][p] = client[c][p]
  PROVE  Explained(c, p)'
BY DEF Explained, DeltaOf

\* A step that writes nothing of entries, allocations and clients: a request goes on,
\* or becomes one that has just read what it needs.
LEMMA ReadingKeeps ==
  ASSUME RaceInv, UNCHANGED <<entries, allocations, client>>,
         DOMAIN orders \subseteq DOMAIN orders',
         UNCHANGED <<racedEntries, racedClients, reopened>>,
         \A s \in Requests :
           \/ /\ request'[s] = request[s]
              /\ s \notin staleEntries' => s \notin staleEntries
              /\ s \notin staleClients' => s \notin staleClients
           \/ /\ s \notin staleEntries' => EntriesRead(request'[s])
              /\ s \notin staleClients' => ClientRead(request'[s])
  PROVE  RaceInv'
<1>1. \A e : AllocationsOf(e)' = AllocationsOf(e)
  BY DEF AllocationsOf
<1>2. ASSUME NEW e \in UnracedEntries' PROVE EntryHolds(e)'
  <2>1. EntryHolds(e)
    BY DEF UnracedEntries, RaceInv
  <2> QED BY <1>1, <2>1, EntryStays
<1>3. ASSUME NEW c \in Companies, NEW p \in Phones, <<c, p>> \notin racedClients'
      PROVE  Explained(c, p)'
  BY <1>3, ExplainedStays DEF RaceInv
<1>4. ASSUME NEW s \in Requests, s \notin staleEntries' PROVE EntriesRead(request[s])'
  <2>1. PICK q : q = request'[s]
    OBVIOUS
  <2>2. EntriesRead(q)
    BY <1>4, <2>1 DEF RaceInv
  <2>3. EntriesRead(q)'
    BY <1>1, <2>2, ReadingStays
  <2> QED BY <2>1, <2>3 DEF EntriesRead, CreationCurrent, ClosingCurrent, MergingCurrent, HeldRow
<1>5. ASSUME NEW s \in Requests, s \notin staleClients' PROVE ClientRead(request[s])'
  <2>1. PICK q : q = request'[s]
    OBVIOUS
  <2>2. ClientRead(q)
    BY <1>5, <2>1 DEF RaceInv
  <2>3. ClientRead(q)'
    BY <2>2, ClientReadStays
  <2> QED BY <2>1, <2>3 DEF ClientRead
<1>6. (racedEntries \cup reopened \subseteq DOMAIN entries)'
  BY DEF RaceInv
<1> QED BY <1>2, <1>3, <1>4, <1>5, <1>6 DEF RaceInv

\* A request forgets what it read, and is now q.
LEMMA ForgettingKeeps ==
  ASSUME IInv, RaceInv, NEW r \in Requests, NEW q, EntriesRead(q), ClientRead(q),
         request' = [request EXCEPT ![r] = q], Forgets(r),
         UNCHANGED <<entries, allocations, orders, client>>
  PROVE  RaceInv'
<1>1. \A s \in Requests : request'[s] = IF s = r THEN q ELSE request[s]
  BY DEF IInv, RequestsHold
<1>2. /\ \A s \in Requests : s # r => (s \in staleEntries <=> s \in staleEntries')
      /\ \A s \in Requests : s # r => (s \in staleClients <=> s \in staleClients')
      /\ UNCHANGED <<racedEntries, racedClients, reopened>>
  BY DEF Forgets
<1> QED BY <1>1, <1>2, ReadingKeeps

\* A commit keeps the others' readings, and what holds of the rows it does not write; what
\* it writes itself is left to show.
LEMMA CommitKeeps ==
  ASSUME IInv, RaceInv, NEW r \in Requests, NEW q \in Transaction, q = request[r], Overtakes(r),
         request' = [request EXCEPT ![r] = Idle],
         DOMAIN entries \subseteq DOMAIN entries', DOMAIN orders \subseteq DOMAIN orders',
         \A e \in DOMAIN entries \ EntriesOf(q) :
           entries'[e] = entries[e] /\ AllocationsOf(e)' = AllocationsOf(e),
         \A e \in DOMAIN entries' \ DOMAIN entries : EntryHolds(e)',
         \A e \in EntriesOf(q) : r \notin staleEntries /\ EntryHolds(e) => EntryHolds(e)',
         \A c \in Companies, p \in Phones :
           <<c, p>> \notin ClientsOf(q) => client'[c][p] = client[c][p],
         \A c \in Companies, p \in Phones :
           <<c, p>> \in ClientsOf(q) /\ r \notin staleClients /\ Explained(c, p) => Explained(c, p)'
  PROVE  RaceInv'
<1>1. /\ \A s \in Requests : s # r /\ s \notin staleEntries' =>
           s \notin staleEntries /\ EntriesOf(request[s]) \cap EntriesOf(q) = {}
      /\ \A s \in Requests : s # r /\ s \notin staleClients' =>
           s \notin staleClients /\ ClientsOf(request[s]) \cap ClientsOf(q) = {}
      /\ racedEntries \subseteq racedEntries' /\ racedClients \subseteq racedClients'
      /\ r \in staleEntries => EntriesOf(q) \subseteq racedEntries'
      /\ r \in staleClients => ClientsOf(q) \subseteq racedClients'
      /\ racedEntries' \subseteq racedEntries \cup EntriesOf(q)
      /\ reopened' \subseteq reopened \cup DOMAIN entries
  BY Overtaken
<1>2. /\ request'[r] = Idle /\ \A s \in Requests : s # r => request'[s] = request[s]
  BY IdleAgain DEF IInv
<1>3. \A s \in Requests : EntriesOf(request[s]) \subseteq DOMAIN entries
  BY EntriesOfExist DEF IInv, RequestsHold
<1>4. ASSUME NEW e \in UnracedEntries' PROVE EntryHolds(e)'
  <2>1. e \in DOMAIN entries' /\ e \notin racedEntries'
    BY DEF UnracedEntries
  <2>2. CASE e \notin DOMAIN entries
    BY <2>1, <2>2
  <2>3. CASE e \in DOMAIN entries
    <3>1. EntryHolds(e)
      BY <1>1, <2>1, <2>3 DEF RaceInv, UnracedEntries
    <3>2. CASE e \in EntriesOf(q)
      BY <1>1, <2>1, <3>1, <3>2
    <3>3. CASE e \notin EntriesOf(q)
      BY <2>3, <3>1, <3>3, EntryStays
    <3> QED BY <3>2, <3>3
  <2> QED BY <2>2, <2>3
<1>5. ASSUME NEW c \in Companies, NEW p \in Phones, <<c, p>> \notin racedClients'
      PROVE  Explained(c, p)'
  <2>1. Explained(c, p)
    BY <1>1, <1>5 DEF RaceInv
  <2>2. CASE <<c, p>> \in ClientsOf(q)
    BY <1>1, <1>5, <2>1, <2>2
  <2>3. CASE <<c, p>> \notin ClientsOf(q)
    BY <2>1, <2>3, ExplainedStays
  <2> QED BY <2>2, <2>3
<1>6. ASSUME NEW s \in Requests, s \notin staleEntries' PROVE EntriesRead(request[s])'
  <2>1. CASE s = r
    BY <1>2, <2>1, IdleTyped DEF EntriesRead
  <2>2. CASE s # r
    <3>1. PICK p : p = request[s] /\ p = request'[s]
      BY <1>2, <2>2
    <3>2. EntriesRead(p) /\ EntriesOf(p) \cap EntriesOf(q) = {} /\ EntriesOf(p) \subseteq DOMAIN entries
      BY <1>1, <1>3, <1>6, <2>2, <3>1 DEF RaceInv
    <3>3. EntriesRead(p)'
      BY <3>2, ReadingStays
    <3> QED BY <3>1, <3>3 DEF EntriesRead, CreationCurrent, ClosingCurrent, MergingCurrent, HeldRow
  <2> QED BY <2>1, <2>2
<1>7. ASSUME NEW s \in Requests, s \notin staleClients' PROVE ClientRead(request[s])'
  <2>1. CASE s = r
    BY <1>2, <2>1, IdleTyped DEF ClientRead
  <2>2. CASE s # r
    <3>1. PICK p \in Transaction : p = request[s] /\ p = request'[s]
      BY <1>2, <2>2 DEF IInv, RequestsHold
    <3>2. ClientRead(p) /\ ClientsOf(p) \cap ClientsOf(q) = {}
      BY <1>1, <1>7, <2>2, <3>1 DEF RaceInv
    <3>3. p.order.company \in Companies /\ p.order.phone \in Phones \cup {NoPhone}
      BY DEF Transaction, Order
    <3>4. p.does \in {"create", "close"} /\ p.stage = "writing" /\ p.order.phone # NoPhone
            /\ p.delta # 0 =>
            client'[p.order.company][p.order.phone] = client[p.order.company][p.order.phone]
      BY <3>2, <3>3 DEF ClientsOf
    <3>5. ClientRead(p)'
      BY <3>2, <3>4, ClientReadStays
    <3> QED BY <3>1, <3>5 DEF ClientRead
  <2> QED BY <2>1, <2>2
<1>8. (racedEntries \cup reopened \subseteq DOMAIN entries)'
  <2>1. racedEntries \cup reopened \subseteq DOMAIN entries
    BY DEF RaceInv
  <2> QED BY <1>1, <1>3, <2>1
<1> QED BY <1>4, <1>5, <1>6, <1>7, <1>8 DEF RaceInv

---------------------------------------------------------------------------
(* What a creation reads and computes.                                     *)

\* An allocation more is so much less available, in its currency.
LEMMA AvailableTaken ==
  ASSUME NEW lines \in Lines, NEW rows, rows \subseteq AllocationRow, IsFiniteSet(rows),
         NEW a \in AllocationRow, a \notin rows, NEW c
  PROVE  Available(lines, rows \cup {a}, c)
           = Available(lines, rows, c) - (IF a.currency = c THEN a.amount ELSE 0)
<1> DEFINE received == SumFunction([w \in WalletsIn(c) |-> lines[w]])
           S == {x \in rows : x.currency = c}
           f == [x \in S |-> x.amount]
           g == [x \in {y \in rows \cup {a} : y.currency = c} |-> x.amount]
<1>1. received \in Int
  <2> DEFINE h == [w \in WalletsIn(c) |-> lines[w]]
  <2>1. IsFiniteSet(DOMAIN h)
    BY WalletsAssumption, FS_Subset DEF WalletsIn
  <2>2. \A w \in DOMAIN h : h[w] \in Int
    BY DEF Lines, WalletsIn
  <2> HIDE DEF h
  <2>3. SumFunction(h) \in Int
    BY <2>1, <2>2, TotalTyped
  <2> QED BY <2>3 DEF h
<1>2. IsFiniteSet(S) /\ a \notin S
  BY FS_Subset
<1>3. NumbersOn(f, S) /\ DOMAIN f = S /\ a.amount \in Int
  BY DEF NumbersOn, AllocationRow
<1>4. SumFunction(f) \in Int
  <2> HIDE DEF f, S
  <2>1. IsFiniteSet(DOMAIN f) /\ \A x \in DOMAIN f : f[x] \in Int
    BY <1>2, <1>3 DEF NumbersOn
  <2> QED BY <2>1, TotalTyped
<1>5. Available(lines, rows, c) = received - SumFunction(f)
      /\ Available(lines, rows \cup {a}, c) = received - SumFunction(g)
  BY DEF Available
<1>6. CASE a.currency = c
  <2>1. DOMAIN g = S \cup {a} /\ g[a] = a.amount /\ SameOn(f, g, S)
    BY <1>6 DEF SameOn
  <2> HIDE DEF f, g, S, received
  <2>2. SumFunction(g) = SumFunction(f) + g[a]
    <3>1. g[a] \in Int
      BY <1>3, <2>1
    <3> QED BY <1>2, <1>3, <2>1, <3>1, TotalGrown
  <2> QED BY <1>1, <1>3, <1>4, <1>5, <1>6, <2>1, <2>2
<1>7. CASE a.currency # c
  <2>1. {y \in rows \cup {a} : y.currency = c} = S
    BY <1>7
  <2>2. g = f
    BY <2>1
  <2> HIDE DEF f, g, S, received
  <2> QED BY <1>1, <1>4, <1>5, <1>7, <2>2
<1> QED BY <1>6, <1>7

LEMMA AvailableFreed ==
  ASSUME NEW lines \in Lines, NEW rows, rows \subseteq AllocationRow, IsFiniteSet(rows),
         NEW a, NEW c
  PROVE  Available(lines, rows \ {a}, c) >= Available(lines, rows, c)
<1> DEFINE rest == rows \ {a}
<1>1. CASE a \in rows
  <2>1. rest \subseteq AllocationRow /\ IsFiniteSet(rest) /\ a \in AllocationRow /\ a \notin rest
        /\ rest \cup {a} = rows
    BY <1>1, FS_Subset
  <2> HIDE DEF rest
  <2>2. Available(lines, rest \cup {a}, c)
          = Available(lines, rest, c) - (IF a.currency = c THEN a.amount ELSE 0)
    BY <2>1, AvailableTaken
  <2>3. Available(lines, rest, c) \in Int /\ a.amount \in Nat
    BY <2>1, AvailableInt DEF AllocationRow
  <2>4. Available(lines, rows, c)
          = Available(lines, rest, c) - (IF a.currency = c THEN a.amount ELSE 0)
    BY <2>1, <2>2
  <2> DEFINE had == Available(lines, rows, c)
             has == Available(lines, rest, c)
  <2>5. CASE a.currency = c
    <3>1. had = has - a.amount
      BY <2>4, <2>5
    <3> HIDE DEF had
    <3>2. has >= had
      BY <2>3, <3>1
    <3> QED BY <3>2 DEF had, rest
  <2>6. CASE a.currency # c
    <3>1. had = has - 0
      BY <2>4, <2>6
    <3> HIDE DEF had
    <3>2. has >= had
      BY <2>3, <3>1
    <3> QED BY <3>2 DEF had, rest
  <2> QED BY <2>5, <2>6
<1>2. CASE a \notin rows
  <2>1. rest = rows
    BY <1>2
  <2>2. Available(lines, rows, c) \in Int
    BY AvailableInt
  <2> QED BY <2>1, <2>2
<1> QED BY <1>1, <1>2

LEMMA FreshStatus == ASSUME NEW lines PROVE recompute_status(lines, {}) = "unallocated"
BY DEF recompute_status

\* A rounded amount is no more than the cents it is no more than.
LEMMA QuantizeBelow ==
  ASSUME NEW a \in Nat, NEW c \in Int, a <= Exact(c)
  PROVE  Quantize(a) <= c
<1>1. Exact(c) \in Int /\ (c < 0 => Exact(c) < 0)
  BY QuantizeExact, SubUnitsAssumption DEF Exact
<1>2. c \in Nat
  BY <1>1
<1> DEFINE d == 2 * SubUnits
           n == 2 * a + SubUnits
           p == n \div d
<1>3. n \in Nat /\ d \in Nat \ {0} /\ n < d * c + d
  BY <1>2, SubUnitsAssumption DEF Exact
<1>4. p = Quantize(a)
  BY DEF Quantize, HalfUp
<1> HIDE DEF n, d
<1>5. p \in Int /\ d * p <= n
  BY <1>3
<1> HIDE DEF p
<1>6. ~(p >= c + 1)
  <2> SUFFICES ASSUME p >= c + 1 PROVE FALSE
    OBVIOUS
  <2>1. d * p >= d * (c + 1)
    BY <1>2, <1>3, <1>5
  <2>2. d * (c + 1) = d * c + d
    BY <1>2, <1>3
  <2> QED BY <1>2, <1>3, <1>5, <2>1, <2>2
<1> QED BY <1>2, <1>4, <1>5, <1>6

LEMMA AllocatedIsAvailable ==
  ASSUME RowsTyped, NEW b \in Bodies, NEW e \in 0 .. Len(entries), Allocated(b, e) # 0
  PROVE  /\ e \in DOMAIN entries
         /\ Allocated(b, e) <= Available(entries[e].amount, AllocationsOf(e), b.currency)
<1>1. e # 0 /\ e \in DOMAIN entries
  BY RowsAreRecords DEF Allocated
<1> DEFINE left == Available(entries[e].amount, AllocationsOf(e), b.currency)
<1>2. left \in Int
  BY <1>1, AvailableInt, AllocationsOfTyped, RowsAreRecords
<1>3. Free(b, e) = Exact(left) /\ b.amount \in Nat
  BY BodyTyped DEF Free
<1> HIDE DEF left
<1>4. Quantize(Free(b, e)) = left /\ Free(b, e) \in Int
  BY <1>2, <1>3, QuantizeExact
<1>5. CASE Exceeds(b, e) \/ LeavesReliquat(b, e)
  <2>1. Allocated(b, e) = left
    BY <1>1, <1>4, <1>5 DEF Allocated
  <2> QED BY <1>1, <1>2, <2>1 DEF left
<1>6. CASE ~(Exceeds(b, e) \/ LeavesReliquat(b, e))
  <2>1. b.amount <= Exact(left)
    BY <1>1, <1>3, <1>4, <1>6 DEF Exceeds
  <2>2. Quantize(b.amount) <= left
    BY <1>2, <1>3, <2>1, QuantizeBelow
  <2>3. Allocated(b, e) = Quantize(b.amount)
    BY <1>1, <1>6 DEF Allocated
  <2> QED BY <1>1, <2>2, <2>3 DEF left
<1> QED BY <1>5, <1>6

\* The status computed with one more allocation does not depend on the order it is for.
LEMMA SameStatusFor ==
  ASSUME NEW lines \in Lines, NEW rows, rows \subseteq AllocationRow, IsFiniteSet(rows),
         NEW a \in AllocationRow, a \notin rows, NEW d \in AllocationRow, d \notin rows,
         a.currency = d.currency, a.amount = d.amount
  PROVE  recompute_status(lines, rows \cup {a}) = recompute_status(lines, rows \cup {d})
<1>1. \A c : Available(lines, rows \cup {a}, c)
               = Available(lines, rows, c) - (IF a.currency = c THEN a.amount ELSE 0)
  BY AvailableTaken
<1>2. \A c : Available(lines, rows \cup {d}, c)
               = Available(lines, rows, c) - (IF d.currency = c THEN d.amount ELSE 0)
  BY AvailableTaken
<1>3. \A c : Available(lines, rows \cup {a}, c) = Available(lines, rows \cup {d}, c)
  BY <1>1, <1>2, Zenon
<1> QED BY <1>3 DEF recompute_status

LEMMA OrderIsRead ==
  ASSUME IInv, NEW b \in Bodies, NEW e \in 0 .. Len(entries), Acceptable(b, e),
         NEW q, q.does = "create", q.order.entry = e, q.order.currency = b.currency,
         q.allocation = Allocated(b, e),
         q.stage = "writing" => q.delta = 0,
         q.entryStatus = IF q.allocation = 0 THEN "kept"
                         ELSE StatusUpdate(e, AllocationsOf(e) \cup {HeldRow(q, Len(orders) + 1)})
  PROVE  EntriesRead(q) /\ ClientRead(q)
<1>1. ClientRead(q)
  BY DEF ClientRead
<1>2. e # 0 => Usable(e)
  BY DEF Acceptable
<1>3. CASE q.allocation = 0
  <2>1. CreationCurrent(q)
    BY <1>2, <1>3 DEF CreationCurrent
  <2> QED BY <1>1, <2>1 DEF EntriesRead
<1>4. CASE q.allocation # 0
  <2>1. RowsTyped /\ RowsNamed /\ b.currency \in Currencies
    BY BodyTyped DEF IInv
  <2>2. /\ e \in DOMAIN entries /\ e # 0 /\ e \in Nat
        /\ Allocated(b, e) <= Available(entries[e].amount, AllocationsOf(e), b.currency)
    BY <1>4, <2>1, AllocatedIsAvailable, RowsAreRecords
  <2>3. q.allocation \in Nat \ {0}
    BY <1>4, <2>1, AllocatedTyped
  <2>4. \A k \in Nat \ DOMAIN orders : HeldRow(q, k) \in AllocationRow /\ HeldRow(q, k) \notin allocations
    BY <2>1, <2>2, <2>3 DEF HeldRow, AllocationRow, RowsNamed
  <2>5. Len(orders) + 1 \in Nat \ DOMAIN orders
    BY <2>1, RowsAreRecords
  <2>6. ASSUME NEW k \in Nat \ DOMAIN orders
        PROVE  q.entryStatus = StatusUpdate(e, AllocationsOf(e) \cup {HeldRow(q, k)})
    <3>1. PICK a : a = HeldRow(q, Len(orders) + 1)
      OBVIOUS
    <3>2. PICK d : d = HeldRow(q, k)
      OBVIOUS
    <3>3. a.currency = d.currency /\ a.amount = d.amount
      BY <3>1, <3>2 DEF HeldRow
    <3>4. /\ a \in AllocationRow /\ a \notin AllocationsOf(e)
          /\ d \in AllocationRow /\ d \notin AllocationsOf(e)
      BY <2>4, <2>5, <3>1, <3>2 DEF AllocationsOf
    <3>5. /\ AllocationsOf(e) \subseteq AllocationRow /\ IsFiniteSet(AllocationsOf(e))
          /\ entries[e].amount \in Lines
      BY <2>1, <2>2, AllocationsOfTyped, RowsAreRecords
    <3>6. recompute_status(entries[e].amount, AllocationsOf(e) \cup {a})
            = recompute_status(entries[e].amount, AllocationsOf(e) \cup {d})
      BY <3>3, <3>4, <3>5, SameStatusFor
    <3>7. StatusUpdate(e, AllocationsOf(e) \cup {a}) = StatusUpdate(e, AllocationsOf(e) \cup {d})
      BY <3>6 DEF StatusUpdate
    <3> QED BY <1>4, <3>1, <3>2, <3>7
  <2> QED BY <1>1, <1>2, <1>4, <2>2, <2>6 DEF EntriesRead, CreationCurrent
<1> QED BY <1>1, <1>3, <1>4

LEMMA OrderStartsRead ==
  ASSUME IInv, RaceInv,
         NEW r \in Requests, NEW b \in Bodies, NEW e \in 0 .. Len(entries),
         NEW target, NEW converted, NEW settles, NEW chosen,
         StartOrder(r, b, e, target, converted, settles, chosen), Forgets(r)
  PROVE  RaceInv'
<1> DEFINE allocated == Allocated(b, e)
           delta == ClientDelta(b, e)
           row == [entry |-> e, order |-> Len(orders) + 1,
                   currency |-> b.currency, amount |-> allocated]
           phone == IF delta = 0 THEN NoPhone ELSE ClientOf(b, e)
           status == IF allocated = 0 THEN "kept" ELSE StatusUpdate(e, AllocationsOf(e) \cup {row})
           stage == IF delta = 0 THEN "writing" ELSE "reading"
           order == [kind |-> b.kind, company |-> b.company, entry |-> e,
                     phone |-> phone,
                     amount |-> Quantize(b.amount), currency |-> b.currency,
                     target |-> target, converted |-> converted,
                     settles |-> settles, wallet |-> chosen, status |-> "pending"]
           q == [Idle EXCEPT !.does = "create", !.stage = stage, !.order = order,
                             !.allocation = allocated, !.delta = delta, !.entryStatus = status]
<1>1. request' = [request EXCEPT ![r] = q]
  BY DEF StartOrder
<1>2. UNCHANGED <<entries, allocations, orders, client>> /\ Acceptable(b, e)
  BY DEF StartOrder
<1>3. order.entry = e /\ order.currency = b.currency
  OBVIOUS
<1>4. stage = "writing" => delta = 0
  OBVIOUS
<1>5. status = IF allocated = 0 THEN "kept" ELSE StatusUpdate(e, AllocationsOf(e) \cup {row})
  OBVIOUS
<1> HIDE DEF order, status, stage, delta, phone
<1>6. /\ q.does = "create" /\ q.stage = stage /\ q.order = order /\ q.allocation = allocated
      /\ q.delta = delta /\ q.entryStatus = status
  BY IdleTyped DEF Transaction
<1> HIDE DEF q
<1>7. row = HeldRow(q, Len(orders) + 1)
  BY <1>3, <1>6 DEF HeldRow
<1> HIDE DEF row
<1>8. EntriesRead(q) /\ ClientRead(q)
  BY <1>2, <1>3, <1>4, <1>5, <1>6, <1>7, OrderIsRead
<1> QED BY <1>1, <1>2, <1>8, ForgettingKeeps

LEMMA MergeStartsRead ==
  ASSUME IInv, RaceInv, NEW r \in Requests, NEW sources \in SUBSET DOMAIN entries,
         StartMerge(r, sources), Forgets(r)
  PROVE  RaceInv'
<1>1. PICK rest \in [sources -> UNION {Remainders(entries[e].amount, AllocationsOf(e)) : e \in sources}] :
                  /\ \A e \in sources : rest[e] \in Remainders(entries[e].amount, AllocationsOf(e))
                  /\ request' = [request EXCEPT ![r] =
                       [Idle EXCEPT !.does = "merge", !.stage = "writing", !.sources = sources,
                                    !.lines = [w \in Wallets |->
                                                 SumFunction([e \in sources |-> rest[e][w]])]]]
  BY Zenon DEF StartMerge
<1> DEFINE lines == [w \in Wallets |-> SumFunction([e \in sources |-> rest[e][w]])]
           q == [Idle EXCEPT !.does = "merge", !.stage = "writing", !.sources = sources,
                             !.lines = lines]
<1>2. request' = [request EXCEPT ![r] = q]
  BY <1>1
<1>3. \A w \in Wallets : lines[w] = SumFunction([e \in sources |-> rest[e][w]])
  OBVIOUS
<1> HIDE DEF lines
<1>4. q.does = "merge" /\ q.sources = sources /\ q.lines = lines
  BY IdleTyped DEF Transaction
<1> HIDE DEF q
<1>5. MergingCurrent(q)
  <2>1. /\ \A e \in sources : Usable(e)
        /\ \A d, e \in sources : entries[d].company = entries[e].company
    BY DEF StartMerge
  <2>2. /\ \A e \in q.sources : rest[e] \in Remainders(entries[e].amount, AllocationsOf(e))
        /\ \A w \in Wallets : q.lines[w] = SumFunction([e \in q.sources |-> rest[e][w]])
    BY <1>1, <1>3, <1>4
  <2> QED BY <1>4, <2>1, <2>2 DEF MergingCurrent
<1>6. EntriesRead(q) /\ ClientRead(q)
  BY <1>4, <1>5 DEF EntriesRead, ClientRead
<1>7. UNCHANGED <<entries, allocations, orders, client>>
  BY DEF StartMerge
<1> QED BY <1>2, <1>6, <1>7, ForgettingKeeps

LEMMA RefundStartsRead ==
  ASSUME IInv, RaceInv, NEW r \in Requests, NEW e \in DOMAIN entries, StartRefund(r, e), Forgets(r)
  PROVE  RaceInv'
<1> DEFINE q == [Idle EXCEPT !.does = "refund", !.stage = "writing", !.id = e,
                             !.lines = entries[e].amount]
<1>1. request' = [request EXCEPT ![r] = q] /\ UNCHANGED <<entries, allocations, orders, client>>
  BY DEF StartRefund
<1>2. Usable(e) /\ AllocationsOf(e) = {}
  BY DEF StartRefund, Refundable
<1>3. q.does = "refund" /\ q.id = e
  BY IdleTyped DEF Transaction
<1> HIDE DEF q
<1>4. EntriesRead(q) /\ ClientRead(q)
  BY <1>2, <1>3 DEF EntriesRead, ClientRead
<1> QED BY <1>1, <1>4, ForgettingKeeps

LEMMA CloseStartsRead ==
  ASSUME IInv, RaceInv, NEW r \in Requests, NEW o \in DOMAIN orders, NEW verdict,
         StartClose(r, o, verdict), Forgets(r)
  PROVE  RaceInv'
<1> DEFINE e == orders[o].entry
           stage == IF orders[o].phone = NoPhone THEN "writing" ELSE "reading"
           order == [orders[o] EXCEPT !.status = verdict]
           status == IF e = 0 THEN "kept" ELSE StatusUpdate(e, AllocationsOf(e) \ OwnAllocation(o))
           q == [Idle EXCEPT !.does = "close", !.stage = stage, !.id = o, !.order = order,
                             !.entryStatus = status]
<1>1. request' = [request EXCEPT ![r] = q] /\ UNCHANGED <<entries, allocations, orders, client>>
  BY DEF StartClose
<1>2. orders[o] \in Order
  BY RowsAreRecords DEF IInv
<1>3. order.entry = e /\ order.phone = orders[o].phone
  BY <1>2 DEF Order
<1>4. stage = "writing" => orders[o].phone = NoPhone
  OBVIOUS
<1>5. status = IF e = 0 THEN "kept" ELSE StatusUpdate(e, AllocationsOf(e) \ OwnAllocation(o))
  OBVIOUS
<1> HIDE DEF order, status, stage, e
<1>6. /\ q.does = "close" /\ q.stage = stage /\ q.id = o /\ q.order = order
      /\ q.entryStatus = status
  BY IdleTyped DEF Transaction
<1> HIDE DEF q
<1>7. OthersOf(e, o) = AllocationsOf(e) \ OwnAllocation(o)
  BY DEF OthersOf, AllocationsOf, OwnAllocation
<1>8. ClosingCurrent(q)
  BY <1>3, <1>5, <1>6, <1>7 DEF ClosingCurrent
<1>9. EntriesRead(q)
  BY <1>6, <1>8 DEF EntriesRead
<1>10. ClientRead(q)
  BY <1>3, <1>4, <1>6 DEF ClientRead
<1> QED BY <1>1, <1>9, <1>10, ForgettingKeeps

LEMMA StartsRead ==
  ASSUME IInv, RaceInv, NEW r \in Requests, Start(r), Forgets(r)
  PROVE  RaceInv'
<1>1. ASSUME NEW b \in Bodies, NEW e \in 0 .. Len(entries), StartTransfer(r, b, e) PROVE RaceInv'
  BY <1>1, OrderStartsRead DEF StartTransfer
<1>2. ASSUME NEW b \in Bodies, NEW e \in 0 .. Len(entries), StartPayment(r, b, e) PROVE RaceInv'
  BY <1>2, OrderStartsRead DEF StartPayment
<1>3. ASSUME NEW sources \in SUBSET DOMAIN entries, StartMerge(r, sources) PROVE RaceInv'
  BY <1>3, MergeStartsRead
<1>4. ASSUME NEW e \in DOMAIN entries, StartRefund(r, e) PROVE RaceInv'
  BY <1>4, RefundStartsRead
<1>5. ASSUME NEW o \in DOMAIN orders, NEW verdict, StartClose(r, o, verdict) PROVE RaceInv'
  BY <1>5, CloseStartsRead
<1> QED BY <1>1, <1>2, <1>3, <1>4, <1>5
        DEF Start, RejectTransfer, CancelTransfer, RejectPayment, CancelPayment

LEMMA ClientIsReadAgain ==
  ASSUME IInv, RaceInv, NEW r \in Requests, ReadClient(r), Quiet
  PROVE  RaceInv'
<1>1. PICK q \in Transaction : q = request[r] /\ RequestHolds(q)
  BY DEF IInv, RequestsHold
<1>2. q.does = "create" \/ q.does = "close"
  BY <1>1 DEF ReadClient, RequestHolds, Transaction
<1> DEFINE order == IF q.does = "create" THEN q.order ELSE orders[q.id]
           delta == IF q.does = "create" THEN q.delta ELSE Reversal(q.id)
           p == [q EXCEPT !.stage = "writing", !.seen = client[order.company][order.phone],
                          !.delta = delta]
<1>3. /\ request' = [request EXCEPT ![r] = p]
      /\ UNCHANGED <<entries, allocations, orders, client>>
  BY <1>1 DEF ReadClient
<1>4. order.company = q.order.company /\ order.phone = q.order.phone
  <2>1. CASE q.does = "create"
    BY <2>1
  <2>2. CASE q.does = "close"
    <3>1. q.id \in DOMAIN orders /\ q.order = [orders[q.id] EXCEPT !.status = q.order.status]
      BY <1>1, <2>2 DEF RequestHolds, ClosingHolds
    <3>2. orders[q.id] \in Order
      BY <3>1, RowsAreRecords DEF IInv
    <3>3. [orders[q.id] EXCEPT !.status = q.order.status].phone = orders[q.id].phone
          /\ [orders[q.id] EXCEPT !.status = q.order.status].company = orders[q.id].company
      BY <3>2 DEF Order
    <3> QED BY <2>2, <3>1, <3>3
  <2> QED BY <1>2, <2>1, <2>2
<1> HIDE DEF order, delta
<1>5. /\ p.does = q.does /\ p.order = q.order /\ p.id = q.id /\ p.allocation = q.allocation
      /\ p.entryStatus = q.entryStatus /\ p.seen = client[order.company][order.phone]
  BY DEF Transaction
<1> HIDE DEF p
<1>6. ClientRead(p)
  BY <1>4, <1>5 DEF ClientRead
<1>7. \A k : HeldRow(p, k) = HeldRow(q, k)
  BY <1>5 DEF HeldRow
<1>8. EntriesRead(q) => EntriesRead(p)
  BY <1>2, <1>5, <1>7 DEF EntriesRead, CreationCurrent, ClosingCurrent
<1>9. r \notin staleEntries => EntriesRead(p)
  BY <1>1, <1>8 DEF RaceInv
<1>10. \A s \in Requests : request'[s] = IF s = r THEN p ELSE request[s]
  BY <1>3 DEF IInv, RequestsHold
<1>11. UNCHANGED <<staleEntries, staleClients, racedEntries, racedClients, reopened>>
  BY DEF Quiet, raceVars
<1> QED BY <1>3, <1>6, <1>9, <1>10, <1>11, ReadingKeeps

LEMMA AbortsRead ==
  ASSUME IInv, RaceInv, NEW r \in Requests, Abort(r), Forgets(r)
  PROVE  RaceInv'
BY IdleRead, ForgettingKeeps DEF Abort

LEMMA ApprovalReads ==
  ASSUME IInv, RaceInv, NEW o \in DOMAIN orders, Quiet,
         ApprovePayment(o) \/ \E w \in Wallets : ApproveTransfer(o, w)
  PROVE  RaceInv'
<1>1. DOMAIN orders' = DOMAIN orders
  <2>1. orders \in Seq(Order)
    BY DEF IInv, RowsTyped
  <2>2. CASE ApprovePayment(o)
    <3>1. orders' = [orders EXCEPT ![o].status = "approved"]
      BY <2>2 DEF ApprovePayment
    <3> QED BY <2>1, <3>1
  <2>3. ASSUME NEW w \in Wallets, ApproveTransfer(o, w) PROVE DOMAIN orders' = DOMAIN orders
    <3>1. orders' = [orders EXCEPT ![o].status = "approved", ![o].wallet = w]
      BY <2>3 DEF ApproveTransfer
    <3> QED BY <2>1, <3>1
  <2> QED BY <2>2, <2>3
<1>2. UNCHANGED <<entries, allocations, client, request>>
  BY DEF ApprovePayment, ApproveTransfer
<1>3. UNCHANGED <<staleEntries, staleClients, racedEntries, racedClients, reopened>>
  BY DEF Quiet, raceVars
<1> QED BY <1>1, <1>2, <1>3, ReadingKeeps

---------------------------------------------------------------------------
(* Steps that write entries, allocations and clients.                      *)

\* What CreateEntry writes.
LEMMA CreatedEntry ==
  ASSUME IInv, NEW b \in Receipts, CreateEntry(b)
  PROVE  LET n == Len(entries) + 1
         IN /\ n \notin DOMAIN entries /\ DOMAIN entries' = DOMAIN entries \cup {n}
            /\ Len(entries') = n
            /\ \A e \in DOMAIN entries : entries'[e] = entries[e]
            /\ entries'[n].mergedInto = 0 /\ entries'[n].status = "unallocated"
            /\ entries'[n].company = b.company
            /\ \A w \in Wallets : entries'[n].amount[w] = Quantize(b.amount[w])
<1> DEFINE amount == [w \in Wallets |-> Quantize(b.amount[w])]
           row == [company |-> b.company, phone |-> b.phone, amount |-> amount,
                   status |-> "unallocated", mergedInto |-> 0]
           n == Len(entries) + 1
<1>1. entries' = Append(entries, row)
  BY DEF CreateEntry
<1>2. row.mergedInto = 0 /\ row.status = "unallocated" /\ row.company = b.company /\ row.amount = amount
  OBVIOUS
<1>3. entries' \in Seq(Entry) /\ entries \in Seq(Entry)
  <2>1. IInv'
    BY EntryIsCreated
  <2> QED BY <2>1 DEF IInv, RowsTyped
<1> HIDE DEF row
<1>4. /\ n \notin DOMAIN entries /\ DOMAIN entries' = DOMAIN entries \cup {n} /\ Len(entries') = n
      /\ entries'[n] = row /\ \A e \in DOMAIN entries : entries'[e] = entries[e]
  BY <1>1, <1>3
<1> QED BY <1>2, <1>4

\* What CommitMerge writes.
LEMMA MergedEntry ==
  ASSUME IInv, NEW r \in Requests, CommitMerge(r)
  PROVE  LET n == Len(entries) + 1
             q == request[r]
         IN /\ n \notin DOMAIN entries /\ DOMAIN entries' = DOMAIN entries \cup {n}
            /\ Len(entries') = n
            /\ q.sources # {} /\ q.sources \subseteq DOMAIN entries
            /\ \A e \in DOMAIN entries :
                 /\ entries'[e].company = entries[e].company
                 /\ entries'[e].amount = entries[e].amount
                 /\ entries'[e].status = entries[e].status
                 /\ entries'[e].mergedInto = IF e \in q.sources THEN n ELSE entries[e].mergedInto
                 /\ e \notin q.sources => entries'[e] = entries[e]
            /\ entries'[n].mergedInto = 0 /\ entries'[n].status = "unallocated"
            /\ entries'[n].amount = q.lines
            /\ \E e \in q.sources : entries'[n].company = entries[e].company
<1>1. PICK q \in Transaction : q = request[r] /\ RequestHolds(q)
  BY DEF IInv, RequestsHold
<1> DEFINE source == CHOOSE e \in q.sources : TRUE
           first == entries[source]
           n == Len(entries) + 1
           marked == [e \in DOMAIN entries |->
                        IF e \in q.sources THEN [entries[e] EXCEPT !.mergedInto = n]
                        ELSE entries[e]]
           row == [company |-> first.company, phone |-> first.phone, amount |-> q.lines,
                   status |-> "unallocated", mergedInto |-> 0]
<1>2. q.does = "merge" /\ entries' = Append(marked, row)
  BY <1>1 DEF CommitMerge
<1>3. /\ entries \in Seq(Entry) /\ entries' \in Seq(Entry)
      /\ Len(entries) \in Nat /\ DOMAIN entries = 1 .. Len(entries)
      /\ \A e \in DOMAIN entries : entries[e] \in Entry
  <2>1. IInv'
    BY MergeIsWritten
  <2> QED BY <2>1, RowsAreRecords DEF IInv, RowsTyped
<1>4. q.sources # {} /\ q.sources \subseteq DOMAIN entries /\ source \in q.sources
  BY <1>1, <1>2 DEF RequestHolds
<1>5. /\ row.mergedInto = 0 /\ row.status = "unallocated" /\ row.amount = q.lines
      /\ row.company = entries[source].company
  OBVIOUS
<1>6. \A e \in DOMAIN entries :
        /\ marked[e].company = entries[e].company
        /\ marked[e].amount = entries[e].amount
        /\ marked[e].status = entries[e].status
        /\ marked[e].mergedInto = IF e \in q.sources THEN n ELSE entries[e].mergedInto
        /\ e \notin q.sources => marked[e] = entries[e]
  <2>1. DOMAIN entries \in SUBSET Nat
    BY <1>3
  <2> HIDE DEF n
  <2> QED BY <1>3 DEF Entry
<1>7. DOMAIN marked = DOMAIN entries /\ marked = [e \in DOMAIN entries |-> marked[e]]
  OBVIOUS
<1> HIDE DEF marked, row, first, source
<1>8. marked \in Seq({marked[e] : e \in DOMAIN entries})
  <2> DEFINE S == {marked[e] : e \in DOMAIN entries}
  <2>1. \A e \in DOMAIN entries : marked[e] \in S
    OBVIOUS
  <2> HIDE DEF S
  <2>2. marked \in [1 .. Len(entries) -> S]
    BY <1>3, <1>7, <2>1
  <2>3. marked \in Seq(S)
    BY <1>3, <2>2, SeqDef
  <2> QED BY <2>3 DEF S
<1>9. Len(marked) = Len(entries)
  BY <1>3, <1>7, <1>8
<1>10. /\ n \notin DOMAIN entries /\ DOMAIN entries' = DOMAIN entries \cup {n} /\ Len(entries') = n
       /\ entries'[n] = row /\ \A e \in DOMAIN entries : entries'[e] = marked[e]
  BY <1>2, <1>3, <1>7, <1>8, <1>9
<1> QED BY <1>1, <1>4, <1>5, <1>6, <1>10

\* What EntryMarked does to the entries.
LEMMA MarkedEntries ==
  ASSUME RowsTyped, NEW e \in 0 .. Len(entries), NEW status \in EntryStatuses \cup {"kept"},
         status # "kept" => e # 0, EntryMarked(e, status)
  PROVE  /\ DOMAIN entries' = DOMAIN entries
         /\ \A d \in DOMAIN entries : /\ entries'[d].amount = entries[d].amount
                                      /\ d # e => entries'[d] = entries[d]
         /\ e # 0 => entries'[e].status = IF status = "kept" THEN entries[e].status ELSE status
<1>1. CASE status = "kept"
  BY <1>1 DEF EntryMarked
<1>2. CASE status # "kept"
  <2>1. e \in DOMAIN entries /\ entries' = [entries EXCEPT ![e].status = status]
    BY <1>2, RowsAreRecords DEF EntryMarked
  <2>2. \A d \in DOMAIN entries : entries[d] \in Entry
    BY RowsAreRecords
  <2> QED BY <1>2, <2>1, <2>2 DEF Entry
<1> QED BY <1>1, <1>2

\* What EntryMarked leaves of the entries.
LEMMA MarkedRest ==
  ASSUME RowsTyped, NEW e \in 0 .. Len(entries), NEW status \in EntryStatuses \cup {"kept"},
         status # "kept" => e # 0, EntryMarked(e, status)
  PROVE  /\ Len(entries') = Len(entries)
         /\ DOMAIN entries' = DOMAIN entries
         /\ \A d \in DOMAIN entries : /\ entries'[d].amount = entries[d].amount
                                      /\ entries'[d].mergedInto = entries[d].mergedInto
                                      /\ entries'[d].company = entries[d].company
<1>1. CASE status = "kept"
  BY <1>1 DEF EntryMarked
<1>2. CASE status # "kept"
  <2>1. e \in DOMAIN entries /\ entries' = [entries EXCEPT ![e].status = status]
    BY <1>2, RowsAreRecords DEF EntryMarked
  <2>2. \A d \in DOMAIN entries : entries[d] \in Entry
    BY RowsAreRecords
  <2>3. entries \in Seq(Entry)
    BY DEF RowsTyped
  <2> QED BY <1>2, <2>1, <2>2, <2>3 DEF Entry
<1> QED BY <1>1, <1>2

LEMMA OrderWritten ==
  ASSUME IInv, NEW r \in Requests, CommitOrder(r) \/ CommitClose(r)
  PROVE  /\ RowsTyped /\ request[r].order.entry \in 0 .. Len(entries)
         /\ request[r].entryStatus \in EntryStatuses \cup {"kept"}
         /\ request[r].entryStatus # "kept" => request[r].order.entry # 0
         /\ EntryMarked(request[r].order.entry, request[r].entryStatus)
         /\ request' = [request EXCEPT ![r] = Idle] /\ UNCHANGED wallet
<1>1. PICK q \in Transaction : q = request[r] /\ RequestHolds(q)
  BY DEF IInv, RequestsHold
<1>2. RowsTyped /\ RowsNamed
  BY DEF IInv
<1>3. CASE CommitOrder(r)
  <2>1. CreationHolds(q)
    BY <1>1, <1>3 DEF CommitOrder, RequestHolds
  <2> QED BY <1>1, <1>2, <1>3, <2>1 DEF CommitOrder, CreationHolds, Transaction
<1>4. CASE CommitClose(r)
  <2>1. ClosingHolds(q)
    BY <1>1, <1>4 DEF CommitClose, RequestHolds
  <2>2. q.id \in DOMAIN orders /\ q.order = [orders[q.id] EXCEPT !.status = q.order.status]
    BY <2>1 DEF ClosingHolds
  <2>3. [orders[q.id] EXCEPT !.status = q.order.status].entry = orders[q.id].entry
    BY <1>2, <2>2, RowsAreRecords DEF Order
  <2>4. q.order.entry \in 0 .. Len(entries)
    BY <1>2, <2>2, <2>3 DEF RowsNamed
  <2> QED BY <1>1, <1>2, <1>4, <2>1, <2>4 DEF CommitClose, ClosingHolds, Transaction
<1> QED BY <1>3, <1>4

\* An entry that does not exist has no allocation.
LEMMA NewEntryUnused ==
  ASSUME RowsNamed, NEW e, e \notin DOMAIN entries
  PROVE  AllocationsOf(e) = {}
BY DEF RowsNamed, AllocationsOf

\* The allocation of an order, if it has one, is on the entry the order names.
LEMMA OwnAllocationIs ==
  ASSUME RowsNamed, AllocationsFollowDecisions, NEW o
  PROVE  /\ OwnAllocation(o) = {} \/ \E a \in allocations : OwnAllocation(o) = {a}
         /\ \A a \in OwnAllocation(o) : a.entry = orders[o].entry /\ a.entry \in DOMAIN entries
BY DEF RowsNamed, AllocationsFollowDecisions, OwnAllocation

\* A bill is computed on the client's row that was read, and touches no other client.
LEMMA ClientBilledAlone ==
  ASSUME RowsTyped, NEW q \in Transaction, NEW d \in Companies,
         NEW phone \in Phones \cup {NoPhone}, NEW o \in Nat, ClientBilled(q, d, phone, o),
         NEW c \in Companies, NEW p \in Phones, phone = NoPhone \/ q.delta = 0 \/ c # d \/ p # phone
  PROVE  client'[c][p] = client[c][p]
<1>1. CASE phone = NoPhone \/ q.delta = 0
  BY <1>1 DEF ClientBilled
<1>2. CASE ~(phone = NoPhone \/ q.delta = 0)
  <2> DEFINE row == Billed(client[d][phone], q.seen, o, q.does = "close", q.delta)
  <2>1. client' = [client EXCEPT ![d][phone] = row]
    BY <1>2 DEF ClientBilled
  <2>2. client \in [Companies -> [Phones -> ClientRow]]
    BY DEF RowsTyped
  <2> HIDE DEF row
  <2> QED BY <1>2, <2>1, <2>2
<1> QED BY <1>1, <1>2

LEMMA BalanceBilled ==
  ASSUME RowsTyped, NEW q \in Transaction, NEW c \in Companies, NEW p \in Phones,
         NEW o \in Nat, ClientBilled(q, c, p, o), q.delta # 0,
         q.seen = client[c][p], Explained(c, p)
  PROVE  Explained(c, p)'
<1>0. p # NoPhone
  BY PartiesAssumption
<1>1. client[c][p].balance = DeltaOf(client[c][p].movements, DOMAIN client[c][p].movements)
  BY DEF Explained
<1> DEFINE row == Billed(client[c][p], q.seen, o, q.does = "close", q.delta)
           ms == client[c][p].movements
           m == [order |-> o, reversal |-> q.does = "close", delta |-> q.delta,
                 before |-> q.seen.balance, after |-> q.seen.balance + q.delta]
<1>2. client' = [client EXCEPT ![c][p] = row]
  BY <1>0 DEF ClientBilled
<1>3. client \in [Companies -> [Phones -> ClientRow]]
  BY DEF RowsTyped
<1>4. client'[c][p] = row
  <2> HIDE DEF row
  <2> QED BY <1>2, <1>3
<1>5. row.movements = Append(ms, m) /\ row.balance = client[c][p].balance + q.delta
  BY DEF Billed
<1>6. q.delta \in Int /\ q.seen.balance \in Int
  BY DEF Transaction, ClientRow
<1>7. m \in MovementRow /\ m.delta = q.delta
  BY <1>6 DEF MovementRow
<1>8. ms \in Seq(MovementRow)
  BY ClientIsRow
<1> HIDE DEF ms, m, row
<1>9. DOMAIN Append(ms, m) = DOMAIN ms \cup {Len(ms) + 1}
  BY <1>7, <1>8, SequenceAppended
<1>10. DeltaOf(Append(ms, m), DOMAIN ms \cup {Len(ms) + 1}) = DeltaOf(ms, DOMAIN ms) + m.delta
  BY <1>7, <1>8, MovementAdded
<1>11. client'[c][p].movements = Append(ms, m)
       /\ client'[c][p].balance = DeltaOf(ms, DOMAIN ms) + m.delta
  BY <1>1, <1>4, <1>5, <1>7 DEF ms
<1>12. client'[c][p].balance = DeltaOf(client'[c][p].movements, DOMAIN client'[c][p].movements)
  BY <1>9, <1>10, <1>11
<1> QED BY <1>12 DEF Explained, DeltaOf

\* An entry that has just been inserted.
LEMMA NewEntryHolds ==
  ASSUME RowsNamed, UNCHANGED allocations, NEW e, e \notin DOMAIN entries,
         entries'[e].amount \in Lines, entries'[e].status = "unallocated"
  PROVE  EntryHolds(e)'
<1>1. AllocationsOf(e)' = {}
  BY NewEntryUnused DEF AllocationsOf
<1>2. \A c \in Currencies : Available(entries'[e].amount, {}, c) >= 0
  <2> SUFFICES ASSUME NEW c \in Currencies PROVE Available(entries'[e].amount, {}, c) >= 0
    OBVIOUS
  <2>1. PICK lines \in Lines : lines = entries'[e].amount
    OBVIOUS
  <2>2. Available(lines, {}, c) \in Nat
    BY AvailableWhole
  <2> QED BY <2>1, <2>2
<1>3. recompute_status(entries'[e].amount, {}) = "unallocated"
  BY FreshStatus
<1> QED BY <1>1, <1>2, <1>3 DEF EntryHolds

LEMMA EntryIsCreatedBeside ==
  ASSUME IInv, RaceInv, NEW b \in Receipts, CreateEntry(b), Quiet
  PROVE  RaceInv'
<1>0. PICK n : n = Len(entries) + 1
  OBVIOUS
<1>1. /\ n \notin DOMAIN entries /\ DOMAIN entries' = DOMAIN entries \cup {n}
      /\ \A e \in DOMAIN entries : entries'[e] = entries[e]
      /\ entries'[n].status = "unallocated"
  BY <1>0, CreatedEntry
<1>2. entries'[n].amount \in Lines
  <2>1. IInv'
    BY EntryIsCreated
  <2>2. entries' \in Seq(Entry)
    BY <2>1 DEF IInv, RowsTyped
  <2>3. \A e \in DOMAIN entries' : entries'[e] \in Entry
    BY <2>2
  <2>4. entries'[n] \in Entry
    BY <1>1, <2>3
  <2> QED BY <2>4 DEF Entry, Lines
<1>3. UNCHANGED <<allocations, orders, client, request>>
  BY DEF CreateEntry
<1>4. UNCHANGED <<staleEntries, staleClients, racedEntries, racedClients, reopened>>
  BY DEF Quiet, raceVars
<1>5. \A e : AllocationsOf(e)' = AllocationsOf(e)
  BY <1>3 DEF AllocationsOf
<1>6. EntryHolds(n)'
  BY <1>1, <1>2, <1>3, NewEntryHolds DEF IInv
<1>7. ASSUME NEW e \in UnracedEntries' PROVE EntryHolds(e)'
  <2>1. CASE e = n
    BY <1>6, <2>1
  <2>2. CASE e # n
    <3>1. e \in DOMAIN entries /\ EntryHolds(e)
      BY <1>1, <1>4, <2>2 DEF UnracedEntries, RaceInv
    <3> QED BY <1>1, <1>5, <3>1, EntryStays
  <2> QED BY <2>1, <2>2
<1>8. ASSUME NEW c \in Companies, NEW p \in Phones, <<c, p>> \notin racedClients'
      PROVE  Explained(c, p)'
  BY <1>3, <1>4, <1>8, ExplainedStays DEF RaceInv
<1>9. ASSUME NEW s \in Requests, s \notin staleEntries' PROVE EntriesRead(request[s])'
  <2>1. PICK q \in Transaction : q = request[s] /\ q = request'[s] /\ RequestHolds(q)
    BY <1>3 DEF IInv, RequestsHold
  <2>2. EntriesRead(q) /\ EntriesOf(q) \subseteq DOMAIN entries
    BY <1>4, <1>9, <2>1, EntriesOfExist DEF RaceInv, IInv
  <2>3. EntriesRead(q)'
    BY <1>1, <1>3, <1>5, <2>2, ReadingStays
  <2> QED BY <2>1, <2>3 DEF EntriesRead, CreationCurrent, ClosingCurrent, MergingCurrent, HeldRow
<1>10. ASSUME NEW s \in Requests, s \notin staleClients' PROVE ClientRead(request[s])'
  <2>1. PICK q : q = request[s] /\ q = request'[s]
    BY <1>3
  <2>2. ClientRead(q)
    BY <1>4, <1>10, <2>1 DEF RaceInv
  <2>3. ClientRead(q)'
    BY <1>3, <2>2, ClientReadStays
  <2> QED BY <2>1, <2>3 DEF ClientRead
<1>11. (racedEntries \cup reopened \subseteq DOMAIN entries)'
  BY <1>1, <1>4 DEF RaceInv
<1> QED BY <1>7, <1>8, <1>9, <1>10, <1>11 DEF RaceInv

LEMMA MergeIsWrittenBeside ==
  ASSUME IInv, RaceInv, NEW r \in Requests, CommitMerge(r), Overtakes(r)
  PROVE  RaceInv'
<1>1. PICK q \in Transaction : q = request[r] /\ RequestHolds(q)
  BY DEF IInv, RequestsHold
<1>0. PICK n : n = Len(entries) + 1
  OBVIOUS
<1>2. /\ n \notin DOMAIN entries /\ DOMAIN entries' = DOMAIN entries \cup {n}
      /\ \A e \in DOMAIN entries :
           /\ entries'[e].amount = entries[e].amount
           /\ entries'[e].status = entries[e].status
           /\ e \notin q.sources => entries'[e] = entries[e]
      /\ entries'[n].status = "unallocated" /\ entries'[n].amount = q.lines
      /\ q.sources \subseteq DOMAIN entries
  BY <1>0, <1>1, MergedEntry
<1>3. /\ q.does = "merge" /\ UNCHANGED <<allocations, orders, client>>
      /\ request' = [request EXCEPT ![r] = Idle]
  BY <1>1 DEF CommitMerge
<1>4. \A e : AllocationsOf(e)' = AllocationsOf(e)
  BY <1>3 DEF AllocationsOf
<1>5. EntriesOf(q) = q.sources
  BY <1>3 DEF EntriesOf
<1>6. \A e \in DOMAIN entries : EntryHolds(e) => EntryHolds(e)'
  BY <1>2, <1>4, EntryStays
<1>7. EntryHolds(n)'
  <2>1. q.lines \in Lines
    BY DEF Transaction, Lines
  <2> QED BY <1>2, <1>3, <2>1, NewEntryHolds DEF IInv
<1>8. \A c \in Companies, p \in Phones : client'[c][p] = client[c][p]
  BY <1>3
<1>9. \A c \in Companies, p \in Phones : Explained(c, p) => Explained(c, p)'
  BY <1>8, ExplainedStays
<1>10. /\ DOMAIN entries \subseteq DOMAIN entries' /\ DOMAIN orders \subseteq DOMAIN orders'
       /\ \A e \in DOMAIN entries \ EntriesOf(q) :
            entries'[e] = entries[e] /\ AllocationsOf(e)' = AllocationsOf(e)
       /\ \A e \in DOMAIN entries' \ DOMAIN entries : EntryHolds(e)'
       /\ \A e \in EntriesOf(q) : r \notin staleEntries /\ EntryHolds(e) => EntryHolds(e)'
  BY <1>2, <1>3, <1>4, <1>5, <1>6, <1>7
<1> QED BY <1>1, <1>3, <1>8, <1>9, <1>10, CommitKeeps

LEMMA RefundIsWrittenBeside ==
  ASSUME IInv, RaceInv, NEW r \in Requests, CommitRefund(r), Overtakes(r)
  PROVE  RaceInv'
<1>1. PICK q \in Transaction : q = request[r] /\ RequestHolds(q)
  BY DEF IInv, RequestsHold
<1>2. PICK k : k = q.id
  OBVIOUS
<1>3. /\ q.does = "refund" /\ entries' = [entries EXCEPT ![k].status = "cancelled"]
      /\ request' = [request EXCEPT ![r] = Idle]
      /\ UNCHANGED <<allocations, orders, client>>
  BY <1>1, <1>2 DEF CommitRefund
<1>4. k \in DOMAIN entries /\ EntriesOf(q) = {k}
  BY <1>1, <1>2, <1>3, EntriesOfEach DEF RequestHolds
<1>5. /\ DOMAIN entries' = DOMAIN entries /\ entries'[k].status = "cancelled"
      /\ entries'[k].amount = entries[k].amount
      /\ \A e \in DOMAIN entries : e # k => entries'[e] = entries[e]
  <2>1. \A e \in DOMAIN entries : entries[e] \in Entry
    BY RowsAreRecords DEF IInv
  <2> QED BY <1>3, <1>4, <2>1 DEF Entry
<1>6. \A e : AllocationsOf(e)' = AllocationsOf(e)
  BY <1>3 DEF AllocationsOf
<1>7. ASSUME r \notin staleEntries, EntryHolds(k) PROVE EntryHolds(k)'
  <2>1. AllocationsOf(k) = {}
    BY <1>1, <1>2, <1>3, <1>7 DEF RaceInv, EntriesRead
  <2> QED BY <1>5, <1>6, <1>7, <2>1 DEF EntryHolds
<1>8. \A c \in Companies, p \in Phones : client'[c][p] = client[c][p]
  BY <1>3
<1>9. \A c \in Companies, p \in Phones : Explained(c, p) => Explained(c, p)'
  BY <1>8, ExplainedStays
<1>10. /\ DOMAIN entries \subseteq DOMAIN entries' /\ DOMAIN orders \subseteq DOMAIN orders'
       /\ \A e \in DOMAIN entries \ EntriesOf(q) :
            entries'[e] = entries[e] /\ AllocationsOf(e)' = AllocationsOf(e)
       /\ \A e \in DOMAIN entries' \ DOMAIN entries : EntryHolds(e)'
       /\ \A e \in EntriesOf(q) : r \notin staleEntries /\ EntryHolds(e) => EntryHolds(e)'
  BY <1>3, <1>4, <1>5, <1>6, <1>7
<1> QED BY <1>1, <1>3, <1>8, <1>9, <1>10, CommitKeeps

LEMMA ClientIsWritten ==
  ASSUME IInv, RaceInv, NEW r \in Requests, NEW q \in Transaction, q = request[r],
         q.does \in {"create", "close"}, q.stage = "writing",
         NEW o \in Nat, ClientBilled(q, q.order.company, q.order.phone, o)
  PROVE  /\ \A c \in Companies, p \in Phones :
              <<c, p>> \notin ClientsOf(q) => client'[c][p] = client[c][p]
         /\ \A c \in Companies, p \in Phones :
              <<c, p>> \in ClientsOf(q) /\ r \notin staleClients /\ Explained(c, p) => Explained(c, p)'
<1> USE DEF IInv
<1>1. PICK d \in Companies : d = q.order.company
  BY DEF Transaction, Order
<1>2. PICK phone \in Phones \cup {NoPhone} : phone = q.order.phone
  BY DEF Transaction, Order
<1>3. ClientsOf(q) = IF phone # NoPhone /\ q.delta # 0 THEN {<<d, phone>>} ELSE {}
  BY <1>1, <1>2 DEF ClientsOf
<1>4. RowsTyped /\ ClientBilled(q, d, phone, o)
  BY <1>1, <1>2
<1>5. ASSUME NEW c \in Companies, NEW p \in Phones, <<c, p>> \notin ClientsOf(q)
      PROVE  client'[c][p] = client[c][p]
  <2>1. phone = NoPhone \/ q.delta = 0 \/ c # d \/ p # phone
    BY <1>3, <1>5
  <2> QED BY <1>4, <2>1, ClientBilledAlone
<1>6. ASSUME NEW c \in Companies, NEW p \in Phones, <<c, p>> \in ClientsOf(q),
             r \notin staleClients, Explained(c, p)
      PROVE  Explained(c, p)'
  <2>1. c = d /\ p = phone /\ phone # NoPhone /\ q.delta # 0
    BY <1>3, <1>6
  <2>2. q.seen = client[d][phone]
    BY <1>1, <1>2, <1>6, <2>1 DEF RaceInv, ClientRead
  <2> QED BY <1>4, <1>6, <2>1, <2>2, BalanceBilled
<1> QED BY <1>5, <1>6

LEMMA OrderIsCreatedBeside ==
  ASSUME IInv, RaceInv, NEW r \in Requests, CommitOrder(r), Overtakes(r)
  PROVE  RaceInv'
<1>1. PICK q \in Transaction : q = request[r] /\ RequestHolds(q)
  BY DEF IInv, RequestsHold
<1>2. PICK o \in Nat : o = Len(orders) + 1
  BY RowsAreRecords DEF IInv
<1>3. PICK e : e = q.order.entry
  OBVIOUS
<1>4. PICK a0 : a0 = HeldRow(q, o)
  OBVIOUS
<1>5. /\ q.does = "create" /\ q.stage = "writing"
      /\ allocations' = allocations \cup (IF q.allocation = 0 THEN {} ELSE {a0})
      /\ EntryMarked(e, q.entryStatus)
      /\ ClientBilled(q, q.order.company, q.order.phone, o)
      /\ request' = [request EXCEPT ![r] = Idle]
      /\ orders' = Append(orders, q.order)
  BY <1>1, <1>2, <1>3, <1>4 DEF CommitOrder, HeldRow
<1>6. /\ RowsTyped /\ RowsNamed /\ CreationHolds(q)
      /\ r \notin staleEntries => CreationCurrent(q)
  BY <1>1, <1>5 DEF IInv, RequestHolds, RaceInv, EntriesRead
<1>7. /\ q.order.currency \in Currencies /\ e \in 0 .. Len(entries)
      /\ q.allocation \in Nat /\ q.entryStatus \in EntryStatuses \cup {"kept"}
      /\ q.allocation # 0 => e \in DOMAIN entries
      /\ q.entryStatus # "kept" => e # 0
  BY <1>3, <1>6, RowsAreRecords DEF Transaction, Order, CreationHolds
<1>8. o \notin DOMAIN orders /\ 0 \notin DOMAIN entries
  BY <1>2, <1>6, RowsAreRecords
<1>9. a0.entry = e /\ a0.currency = q.order.currency /\ a0.amount = q.allocation /\ a0.order = o
  BY <1>3, <1>4 DEF HeldRow
<1>10. q.allocation # 0 => a0 \in AllocationRow /\ a0 \notin allocations
  <2> SUFFICES ASSUME q.allocation # 0 PROVE a0 \in AllocationRow /\ a0 \notin allocations
    OBVIOUS
  <2>1. e \in Nat
    BY <1>6, <1>7, RowsAreRecords
  <2> QED BY <1>3, <1>4, <1>6, <1>7, <1>8, <1>9, <2>1 DEF AllocationRow, RowsNamed, HeldRow
<1>11. /\ DOMAIN entries' = DOMAIN entries
       /\ \A d \in DOMAIN entries : /\ entries'[d].amount = entries[d].amount
                                    /\ d # e => entries'[d] = entries[d]
       /\ e # 0 => entries'[e].status = IF q.entryStatus = "kept" THEN entries[e].status
                                        ELSE q.entryStatus
  BY <1>5, <1>6, <1>7, MarkedEntries
<1>12. DOMAIN orders \subseteq DOMAIN orders'
  <2>1. orders \in Seq(Order) /\ q.order \in Order
    BY <1>6 DEF RowsTyped, Transaction
  <2> QED BY <1>5, <2>1, SequenceAppended
<1>13. EntriesOf(q) = {e} \ {0}
  BY <1>3, <1>5, EntriesOfEach
<1>14. \A d : AllocationsOf(d)' =
                IF d = e /\ q.allocation # 0 THEN AllocationsOf(e) \cup {a0} ELSE AllocationsOf(d)
  BY <1>5, <1>9 DEF AllocationsOf
<1>15. ASSUME e # 0, r \notin staleEntries, EntryHolds(e), e \in DOMAIN entries PROVE EntryHolds(e)'
  <2>1. CreationCurrent(q)
    BY <1>6, <1>15
  <2>2. CASE q.allocation = 0
    <3>1. q.entryStatus = "kept"
      BY <2>1, <2>2 DEF CreationCurrent
    <3> QED BY <1>11, <1>14, <1>15, <2>2, <3>1, EntryStays
  <2>3. CASE q.allocation # 0
    <3>1. /\ q.allocation <= Available(entries[e].amount, AllocationsOf(e), q.order.currency)
          /\ q.entryStatus = StatusUpdate(e, AllocationsOf(e) \cup {a0})
      BY <1>2, <1>3, <1>4, <1>8, <2>1, <2>3 DEF CreationCurrent
    <3>2. PICK rows : rows = AllocationsOf(e) \cup {a0}
      OBVIOUS
    <3>3. PICK lines \in Lines : lines = entries[e].amount
      BY <1>6, <1>15, RowsAreRecords
    <3>4. PICK had : had = AllocationsOf(e)
      OBVIOUS
    <3>5. /\ had \subseteq AllocationRow /\ IsFiniteSet(had) /\ a0 \notin had /\ a0 \in AllocationRow
          /\ rows = had \cup {a0}
      BY <1>6, <1>10, <2>3, <3>2, <3>4, AllocationsOfTyped DEF AllocationsOf
    <3>6. /\ AllocationsOf(e)' = rows /\ entries'[e].amount = lines
      BY <1>11, <1>14, <1>15, <2>3, <3>2, <3>3
    <3>7. entries'[e].status = recompute_status(lines, rows)
          /\ entries'[e].status # "cancelled"
      <4>1. recompute_status(lines, rows) \notin {"kept", "cancelled"}
        BY StatusTyped DEF MERGEABLE_STATUSES
      <4> QED BY <1>11, <1>15, <3>1, <3>2, <3>3, <4>1 DEF StatusUpdate
    <3>8. ASSUME NEW c \in Currencies PROVE Available(lines, rows, c) >= 0
      <4>1. Available(lines, rows, c)
              = Available(lines, had, c) - (IF a0.currency = c THEN a0.amount ELSE 0)
        BY <3>5, AvailableTaken
      <4>2. PICK left \in Int : left = Available(lines, had, c)
        BY <3>5, AvailableInt
      <4>3. left >= 0
        BY <1>15, <3>3, <3>4, <4>2 DEF EntryHolds
      <4>4. a0.currency = c => q.allocation <= left
        BY <1>9, <3>1, <3>3, <3>4, <4>2
      <4>5. left - (IF a0.currency = c THEN a0.amount ELSE 0) >= 0
        BY <1>7, <1>9, <4>3, <4>4
      <4> QED BY <4>1, <4>2, <4>5
    <3> QED BY <3>6, <3>7, <3>8 DEF EntryHolds
  <2> QED BY <2>2, <2>3
<1>16. /\ \A d \in DOMAIN entries \ EntriesOf(q) :
            entries'[d] = entries[d] /\ AllocationsOf(d)' = AllocationsOf(d)
       /\ \A d \in DOMAIN entries' \ DOMAIN entries : EntryHolds(d)'
  BY <1>8, <1>11, <1>13, <1>14
<1>17. \A d \in EntriesOf(q) : r \notin staleEntries /\ EntryHolds(d) => EntryHolds(d)'
  <2>1. e # 0 => e \in DOMAIN entries
    BY <1>6, <1>7, RowsAreRecords
  <2> QED BY <1>13, <1>15, <2>1
<1>18. /\ \A c \in Companies, p \in Phones :
            <<c, p>> \notin ClientsOf(q) => client'[c][p] = client[c][p]
       /\ \A c \in Companies, p \in Phones :
            <<c, p>> \in ClientsOf(q) /\ r \notin staleClients /\ Explained(c, p) => Explained(c, p)'
  BY <1>1, <1>5, ClientIsWritten
<1> QED BY <1>1, <1>5, <1>11, <1>12, <1>16, <1>17, <1>18, CommitKeeps

LEMMA CloseIsWrittenBeside ==
  ASSUME IInv, RaceInv, NEW r \in Requests, CommitClose(r), Overtakes(r)
  PROVE  RaceInv'
<1>1. PICK q \in Transaction : q = request[r] /\ RequestHolds(q)
  BY DEF IInv, RequestsHold
<1>2. PICK o : o = q.id
  OBVIOUS
<1>3. PICK e : e = q.order.entry
  OBVIOUS
<1>4. PICK own : own = OwnAllocation(o)
  OBVIOUS
<1>5. /\ q.does = "close" /\ q.stage = "writing" /\ allocations' = allocations \ own
      /\ EntryMarked(e, q.entryStatus)
      /\ ClientBilled(q, q.order.company, q.order.phone, o)
      /\ request' = [request EXCEPT ![r] = Idle]
      /\ orders' = [orders EXCEPT ![o].status = q.order.status]
  BY <1>1, <1>2, <1>3, <1>4 DEF CommitClose, WithoutAllocation
<1>6. /\ RowsTyped /\ RowsNamed /\ AllocationsFollowDecisions /\ ClosingHolds(q)
      /\ r \notin staleEntries => ClosingCurrent(q)
  BY <1>1, <1>5 DEF IInv, RowsAgree, RequestHolds, RaceInv, EntriesRead
<1>7. o \in DOMAIN orders /\ o \in Nat /\ e = orders[o].entry
  <2>1. o \in DOMAIN orders /\ q.order = [orders[o] EXCEPT !.status = q.order.status]
    BY <1>2, <1>6 DEF ClosingHolds
  <2>2. orders[o] \in Order /\ o \in Nat
    BY <1>6, <2>1, RowsAreRecords
  <2>3. [orders[o] EXCEPT !.status = q.order.status].entry = orders[o].entry
    BY <2>2 DEF Order
  <2> QED BY <1>3, <2>1, <2>2, <2>3
<1>8. /\ q.entryStatus \in EntryStatuses \cup {"kept"}
      /\ q.entryStatus # "kept" => e # 0
      /\ e \in 0 .. Len(entries) /\ 0 \notin DOMAIN entries
  BY <1>3, <1>6, <1>7, RowsAreRecords DEF Transaction, ClosingHolds, RowsNamed
<1>9. /\ DOMAIN entries' = DOMAIN entries
      /\ \A d \in DOMAIN entries : /\ entries'[d].amount = entries[d].amount
                                   /\ d # e => entries'[d] = entries[d]
      /\ e # 0 => entries'[e].status = IF q.entryStatus = "kept" THEN entries[e].status
                                       ELSE q.entryStatus
  BY <1>5, <1>6, <1>8, MarkedEntries
<1>10. /\ own = {} \/ \E a \in allocations : own = {a}
       /\ \A a \in own : a.entry = e /\ e \in DOMAIN entries
  BY <1>4, <1>6, <1>7, OwnAllocationIs
<1>11. \A d : AllocationsOf(d)' = AllocationsOf(d) \ own
  BY <1>5 DEF AllocationsOf
<1>12. \A d : d # e => AllocationsOf(d) \ own = AllocationsOf(d)
  BY <1>10 DEF AllocationsOf
<1>13. DOMAIN orders' = DOMAIN orders
  BY <1>5, <1>6 DEF RowsTyped
<1>14. EntriesOf(q) = {e} \ {0}
  BY <1>3, <1>5, EntriesOfEach
<1>15. ASSUME e # 0, r \notin staleEntries, EntryHolds(e), e \in DOMAIN entries PROVE EntryHolds(e)'
  <2>1. ClosingCurrent(q) /\ OthersOf(e, o) = AllocationsOf(e) \ own
    BY <1>4, <1>6, <1>15 DEF OthersOf, AllocationsOf, OwnAllocation
  <2>2. PICK rows : rows = AllocationsOf(e) \ own
    OBVIOUS
  <2>3. q.entryStatus = StatusUpdate(e, rows)
    BY <1>2, <1>3, <1>15, <2>1, <2>2 DEF ClosingCurrent
  <2>4. PICK lines \in Lines : lines = entries[e].amount
    BY <1>6, <1>15, RowsAreRecords
  <2>5. PICK had : had = AllocationsOf(e)
    OBVIOUS
  <2>6. AllocationsOf(e)' = rows /\ entries'[e].amount = lines
    BY <1>9, <1>11, <1>15, <2>2, <2>4
  <2>7. entries'[e].status = recompute_status(lines, rows) /\ entries'[e].status # "cancelled"
    <3>1. recompute_status(lines, rows) \notin {"kept", "cancelled"}
      BY StatusTyped DEF MERGEABLE_STATUSES
    <3> QED BY <1>9, <1>15, <2>3, <2>4, <3>1 DEF StatusUpdate
  <2>8. had \subseteq AllocationRow /\ IsFiniteSet(had)
    BY <1>6, <2>5, AllocationsOfTyped
  <2>9. ASSUME NEW c \in Currencies PROVE Available(lines, rows, c) >= 0
    <3>1. PICK left \in Int : left = Available(lines, had, c)
      BY <2>8, AvailableInt
    <3>2. left >= 0
      BY <1>15, <2>4, <2>5, <3>1 DEF EntryHolds
    <3>3. CASE rows = had
      BY <3>1, <3>2, <3>3
    <3>4. CASE rows # had
      <4>1. PICK a \in allocations : own = {a}
        BY <1>10, <2>2, <2>5, <3>4
      <4>2. rows = had \ {a} /\ rows \subseteq AllocationRow /\ IsFiniteSet(rows)
        BY <2>2, <2>5, <2>8, <4>1, FS_Subset
      <4>3. PICK has \in Int : has = Available(lines, rows, c)
        BY <4>2, AvailableInt
      <4>4. Available(lines, had \ {a}, c) >= Available(lines, had, c)
        BY <2>8, AvailableFreed
      <4>5. has >= left
        BY <3>1, <4>2, <4>3, <4>4
      <4> QED BY <3>1, <3>2, <4>3, <4>5
    <3> QED BY <3>3, <3>4
  <2> QED BY <2>6, <2>7, <2>9 DEF EntryHolds
<1>16. /\ \A d \in DOMAIN entries \ EntriesOf(q) :
            entries'[d] = entries[d] /\ AllocationsOf(d)' = AllocationsOf(d)
       /\ \A d \in DOMAIN entries' \ DOMAIN entries : EntryHolds(d)'
  BY <1>8, <1>9, <1>11, <1>12, <1>14
<1>17. \A d \in EntriesOf(q) : r \notin staleEntries /\ EntryHolds(d) => EntryHolds(d)'
  <2>1. e # 0 => e \in DOMAIN entries
    BY <1>6, <1>8, RowsAreRecords
  <2> QED BY <1>14, <1>15, <2>1
<1>18. /\ \A c \in Companies, p \in Phones :
            <<c, p>> \notin ClientsOf(q) => client'[c][p] = client[c][p]
       /\ \A c \in Companies, p \in Phones :
            <<c, p>> \in ClientsOf(q) /\ r \notin staleClients /\ Explained(c, p) => Explained(c, p)'
  BY <1>1, <1>5, <1>7, ClientIsWritten
<1> QED BY <1>1, <1>5, <1>9, <1>13, <1>16, <1>17, <1>18, CommitKeeps

---------------------------------------------------------------------------
(* Every step.                                                             *)

LEMMA RaceStart == ASSUME RaceInit PROVE IInv /\ RaceInv
<1>1. IInv
  BY InitHolds DEF RaceInit
<1>2. ASSUME NEW c \in Companies, NEW p \in Phones PROVE Explained(c, p)
  <2> DEFINE f == [i \in DOMAIN client[c][p].movements |-> client[c][p].movements[i].delta]
  <2>1. client[c][p].balance = 0 /\ DOMAIN client[c][p].movements = {}
    BY DEF RaceInit, Init, NoClient
  <2>2. DOMAIN f = {}
    BY <2>1
  <2> HIDE DEF f
  <2>3. SumFunction(f) = 0
    BY <2>2, TotalOfNone
  <2> QED BY <2>1, <2>3 DEF f, Explained, DeltaOf
<1>3. \A r \in Requests : EntriesRead(request[r]) /\ ClientRead(request[r])
  BY IdleRead DEF RaceInit, Init
<1>4. UnracedEntries = {} /\ racedEntries \cup reopened \subseteq DOMAIN entries
  BY DEF RaceInit, Init, UnracedEntries
<1> QED BY <1>1, <1>2, <1>3, <1>4 DEF RaceInv

LEMMA RaceSteps == ASSUME [RaceNext]_<<vars, raceVars>> PROVE [Next]_vars
BY DEF RaceNext, Next

LEMMA RaceKeeps == ASSUME IInv, RaceInv, [RaceNext]_<<vars, raceVars>> PROVE RaceInv'
<1>1. CASE UNCHANGED <<vars, raceVars>>
  BY <1>1, ReadingKeeps DEF vars, raceVars
<1>2. CASE RaceNext
  <2>1. ASSUME NEW b \in Receipts, CreateEntry(b), Quiet PROVE RaceInv'
    BY <2>1, EntryIsCreatedBeside
  <2>2. ASSUME NEW r \in Requests, Start(r), Forgets(r) PROVE RaceInv'
    BY <2>2, StartsRead
  <2>3. ASSUME NEW r \in Requests, ReadClient(r), Quiet PROVE RaceInv'
    BY <2>3, ClientIsReadAgain
  <2>4. ASSUME NEW r \in Requests, CommitOrder(r), Overtakes(r) PROVE RaceInv'
    BY <2>4, OrderIsCreatedBeside
  <2>5. ASSUME NEW r \in Requests, CommitMerge(r), Overtakes(r) PROVE RaceInv'
    BY <2>5, MergeIsWrittenBeside
  <2>6. ASSUME NEW r \in Requests, CommitRefund(r), Overtakes(r) PROVE RaceInv'
    BY <2>6, RefundIsWrittenBeside
  <2>7. ASSUME NEW r \in Requests, CommitClose(r), Overtakes(r) PROVE RaceInv'
    BY <2>7, CloseIsWrittenBeside
  <2>8. ASSUME NEW r \in Requests, Abort(r), Forgets(r) PROVE RaceInv'
    BY <2>8, AbortsRead
  <2>9. ASSUME NEW o \in DOMAIN orders, NEW w \in Wallets, ApproveTransfer(o, w), Quiet PROVE RaceInv'
    BY <2>9, ApprovalReads
  <2>10. ASSUME NEW o \in DOMAIN orders, ApprovePayment(o), Quiet PROVE RaceInv'
    BY <2>10, ApprovalReads
  <2> QED BY <1>2, <2>1, <2>2, <2>3, <2>4, <2>5, <2>6, <2>7, <2>8, <2>9, <2>10 DEF RaceNext
<1> QED BY <1>1, <1>2

LEMMA RaceAlways == RaceSpec => [](IInv /\ RaceInv)
<1>1. RaceInit => IInv /\ RaceInv
  BY RaceStart
<1>2. IInv /\ RaceInv /\ [RaceNext]_<<vars, raceVars>> => (IInv /\ RaceInv)'
  <2> SUFFICES ASSUME IInv, RaceInv, [RaceNext]_<<vars, raceVars>> PROVE (IInv /\ RaceInv)'
    OBVIOUS
  <2>1. IInv'
    BY RaceSteps, StepHolds
  <2>2. RaceInv'
    BY RaceKeeps
  <2> QED BY <2>1, <2>2
<1> QED BY <1>1, <1>2, PTL DEF RaceSpec

\* Whatever requests read without locks, no entry gave more than it received, in any currency,
\* unless a commit was made on it from a stale reading: what a creation allocates was available
\* when it read, and half-cents round to no more.
THEOREM EntriesAreNeverOverdrawn == RaceSpec => []EntriesNeverOverdrawn
<1>1. RaceInv => EntriesNeverOverdrawn
  BY DEF RaceInv, EntryHolds, EntriesNeverOverdrawn
<1> QED BY <1>1, RaceAlways, PTL

\* The stored status of such an entry, which guards its use, its merge and its refund, is the one
\* its lines and allocations give: every handler that changes the allocations writes it back.
THEOREM EntryStatusIsAlwaysCurrent == RaceSpec => []EntryStatusIsCurrent
<1>1. RaceInv => EntryStatusIsCurrent
  BY DEF RaceInv, EntryHolds, EntryStatusIsCurrent
<1> QED BY <1>1, RaceAlways, PTL

\* No order holds money of a cancelled entry, which the wallets gave back, unless the refund and
\* the order raced.
THEOREM CancelledEntriesAreNeverUsed == RaceSpec => []CancelledEntriesAreUnused
<1>1. RaceInv => CancelledEntriesAreUnused
  BY DEF RaceInv, EntryHolds, CancelledEntriesAreUnused
<1> QED BY <1>1, RaceAlways, PTL

\* A client's balance, written as an absolute value from the row that was read, is the sum of
\* the movements recorded for it, unless two requests that read the same row both committed.
THEOREM ClientBalanceIsAlwaysExplained == RaceSpec => []ClientBalanceIsExplained
<1>1. RaceInv => ClientBalanceIsExplained
  BY DEF RaceInv, Explained, DeltaOf, ClientBalanceIsExplained
<1> QED BY <1>1, RaceAlways, PTL

\* A cancelled entry no commit raced on comes back to life only by the closing of an order that
\* was pending on it and holds nothing of it.
THEOREM OnlyEmptyOrdersEverReopen == RaceSpec => OnlyEmptyOrdersReopen
<1>1. ASSUME IInv, RaceInv, [RaceNext]_<<vars, raceVars>>, NEW e \in UnracedEntries \ racedEntries',
             entries[e].status = "cancelled", entries'[e].status # "cancelled"
      PROVE  \E o \in DOMAIN orders : /\ orders[o].entry = e
                                      /\ orders[o].status = "pending"
                                      /\ orders'[o].status \in {"rejected", "cancelled"}
                                      /\ OwnAllocation(o) = {}
  <2>1. e \in DOMAIN entries /\ e \notin racedEntries' /\ AllocationsOf(e) = {} /\ ~Usable(e)
    BY <1>1 DEF UnracedEntries, RaceInv, EntryHolds, Usable, MERGEABLE_STATUSES
  <2>2. entries' # entries
    BY <1>1
  <2>3. ASSUME NEW b \in Receipts, CreateEntry(b) PROVE FALSE
    BY <1>1, <2>1, <2>3, CreatedEntry
  <2>4. ASSUME NEW r \in Requests, CommitMerge(r) PROVE FALSE
    BY <1>1, <2>1, <2>4, MergedEntry
  <2>5. ASSUME NEW r \in Requests, CommitRefund(r) PROVE FALSE
    <3>1. PICK k : k = request[r].id
      OBVIOUS
    <3>2. entries' = [entries EXCEPT ![k].status = "cancelled"]
      BY <2>5, <3>1 DEF CommitRefund
    <3>3. entries[e] \in Entry
      BY <1>1, <2>1, RowsAreRecords DEF IInv
    <3>4. entries'[e] = entries[e] \/ entries'[e] = [entries[e] EXCEPT !.status = "cancelled"]
      BY <2>1, <3>2
    <3> QED BY <1>1, <3>3, <3>4 DEF Entry
  <2>6. ASSUME NEW r \in Requests, CommitOrder(r) \/ CommitClose(r)
        PROVE  request[r].order.entry = e /\ request[r].entryStatus # "kept"
    <3>1. PICK d : d = request[r].order.entry
      OBVIOUS
    <3>2. PICK status : status = request[r].entryStatus
      OBVIOUS
    <3>3. /\ RowsTyped /\ d \in 0 .. Len(entries) /\ status \in EntryStatuses \cup {"kept"}
          /\ status # "kept" => d # 0
          /\ EntryMarked(d, status)
      BY <1>1, <2>6, <3>1, <3>2, OrderWritten
    <3>4. e # d => entries'[e] = entries[e]
      BY <2>1, <3>3, MarkedEntries
    <3>5. status # "kept"
      BY <2>2, <3>3 DEF EntryMarked
    <3> QED BY <1>1, <3>1, <3>2, <3>4, <3>5
  <2>7. ASSUME NEW r \in Requests, CommitOrder(r), Overtakes(r) PROVE FALSE
    <3>1. PICK q : q = request[r]
      OBVIOUS
    <3>2. q.does = "create" /\ q.order.entry = e /\ e # 0
      <4>1. q.does = "create"
        BY <2>7, <3>1 DEF CommitOrder
      <4>2. q.order.entry = e
        BY <2>6, <2>7, <3>1
      <4>3. e # 0
        BY <1>1, <2>1, RowsAreRecords DEF IInv
      <4> QED BY <4>1, <4>2, <4>3
    <3>3. EntriesOf(q) = {e}
      BY <3>2, EntriesOfEach
    <3>4. r \notin staleEntries
      BY <2>1, <2>7, <3>1, <3>3, Overtaken
    <3>5. CreationCurrent(q)
      BY <1>1, <3>1, <3>2, <3>4 DEF RaceInv, EntriesRead
    <3> QED BY <2>1, <3>2, <3>5 DEF CreationCurrent
  <2>8. ASSUME NEW r \in Requests, CommitClose(r)
        PROVE  \E o \in DOMAIN orders : /\ orders[o].entry = e
                                        /\ orders[o].status = "pending"
                                        /\ orders'[o].status \in {"rejected", "cancelled"}
                                        /\ OwnAllocation(o) = {}
    <3>1. PICK q \in Transaction : q = request[r] /\ RequestHolds(q)
      BY <1>1 DEF IInv, RequestsHold
    <3>2. PICK o : o = q.id
      OBVIOUS
    <3>3. ClosingHolds(q) /\ orders' = [orders EXCEPT ![o].status = q.order.status]
      BY <2>8, <3>1, <3>2 DEF CommitClose, RequestHolds
    <3>4. /\ o \in DOMAIN orders /\ orders[o].status = "pending" /\ q.order.status \in Verdicts
          /\ q.order = [orders[o] EXCEPT !.status = q.order.status]
      BY <3>2, <3>3 DEF ClosingHolds
    <3>5. orders[o] \in Order
      BY <1>1, <3>4, RowsAreRecords DEF IInv
    <3>6. orders[o].entry = e
      <4>1. [orders[o] EXCEPT !.status = q.order.status].entry = orders[o].entry
        BY <3>5 DEF Order
      <4> QED BY <2>6, <2>8, <3>1, <3>4, <4>1
    <3>7. orders'[o].status \in {"rejected", "cancelled"}
      BY <3>3, <3>4, <3>5 DEF Verdicts, Order
    <3>8. OwnAllocation(o) = {}
      <4>1. \A a \in OwnAllocation(o) : a.entry = e
        BY <1>1, <3>6, OwnAllocationIs DEF IInv, RowsAgree
      <4> QED BY <2>1, <4>1 DEF AllocationsOf, OwnAllocation
    <3> QED BY <3>4, <3>6, <3>7, <3>8
  <2>9. ASSUME NEW r \in Requests, Start(r) PROVE FALSE
    BY <2>2, <2>9 DEF Start, StartTransfer, StartPayment, StartOrder, StartMerge, StartRefund,
                      RejectTransfer, CancelTransfer, RejectPayment, CancelPayment, StartClose
  <2>10. ASSUME NEW r \in Requests, ReadClient(r) \/ Abort(r) PROVE FALSE
    BY <2>2, <2>10 DEF ReadClient, Abort
  <2>11. ASSUME NEW o \in DOMAIN orders, NEW w \in Wallets, ApproveTransfer(o, w) PROVE FALSE
    BY <2>2, <2>11 DEF ApproveTransfer
  <2>12. ASSUME NEW o \in DOMAIN orders, ApprovePayment(o) PROVE FALSE
    BY <2>2, <2>12 DEF ApprovePayment
  <2>13. RaceNext
    BY <1>1, <2>2 DEF vars
  <2> QED BY <2>3, <2>4, <2>5, <2>7, <2>8, <2>9, <2>10, <2>11, <2>12, <2>13 DEF RaceNext
<1>2. IInv /\ RaceInv /\ [RaceNext]_<<vars, raceVars>> =>
        [\A e \in UnracedEntries \ racedEntries' :
           entries[e].status = "cancelled" /\ entries'[e].status # "cancelled" =>
             \E o \in DOMAIN orders : /\ orders[o].entry = e
                                      /\ orders[o].status = "pending"
                                      /\ orders'[o].status \in {"rejected", "cancelled"}
                                      /\ OwnAllocation(o) = {}]_<<vars, raceVars>>
  BY <1>1
<1> QED BY <1>2, RaceAlways, PTL DEF RaceSpec, OnlyEmptyOrdersReopen

---------------------------------------------------------------------------
(* Orders are funded.                                                      *)

Given(o) == SumFunction([a \in OwnAllocation(o) |-> a.amount])

\* given and charged are what an order's entry and its client give.
FundedBy(order, given, charged) ==
  \/ given + charged = order.amount
  \/ charged < 0 /\ given + charged = order.amount - 1
  \/ given > order.amount /\ order.phone = NoPhone

\* An entry that was not raced on.
Trusted(e) == e # 0 /\ e \notin racedEntries

OrdersFunded ==
  \A o \in DOMAIN orders :
    orders[o].status \in {"pending", "approved"} /\ Trusted(orders[o].entry) =>
      FundedBy(orders[o], Given(o), NetCharge(o))

FundsRequested(q) ==
  q.does = "create" =>
    /\ q.delta # 0 => q.order.phone # NoPhone
    /\ Trusted(q.order.entry) => FundedBy(q.order, q.allocation, q.delta)

FundsInv == OrdersFunded /\ \A r \in Requests : FundsRequested(request[r])

LEMMA FundedOrders == ASSUME IInv, OrdersFunded PROVE OrdersAreFunded
<1>1. 0 \notin DOMAIN entries
  BY RowsAreRecords DEF IInv
<1> QED BY <1>1 DEF OrdersFunded, OrdersAreFunded, FundedBy, Given, Trusted, UnracedEntries

LEMMA SumOfOne == ASSUME NEW a, a.amount \in Int PROVE SumFunction([x \in {a} |-> x.amount]) = a.amount
<1> DEFINE f == [x \in {a} |-> x.amount]
<1>1. DOMAIN f = {a} /\ f[a] = a.amount
  OBVIOUS
<1> HIDE DEF f
<1>2. SumFunction(f) = a.amount
  BY <1>1, TotalOfOne
<1> QED BY <1>2 DEF f

\* What a creation splits between the entry, the client and a fee.
LEMMA AmountIsSplit ==
  ASSUME RowsTyped, NEW b \in Bodies, NEW e \in DOMAIN entries, EntryHolds(e)
  PROVE  \/ Allocated(b, e) + ClientDelta(b, e) = Quantize(b.amount)
         \/ ClientDelta(b, e) < 0 /\ Allocated(b, e) + ClientDelta(b, e) = Quantize(b.amount) - 1
         \/ Allocated(b, e) > Quantize(b.amount) /\ ClientDelta(b, e) = 0
<1>1. PICK amount \in Nat \ {0} : amount = b.amount
  BY BodyTyped
<1>2. e # 0
  BY RowsAreRecords
<1>3. PICK left \in Nat : left = Available(entries[e].amount, AllocationsOf(e), b.currency)
  <2>1. Available(entries[e].amount, AllocationsOf(e), b.currency) \in Int
    BY AvailableInt, AllocationsOfTyped, RowsAreRecords
  <2>2. Available(entries[e].amount, AllocationsOf(e), b.currency) >= 0
    BY BodyTyped DEF EntryHolds
  <2> QED BY <2>1, <2>2
<1>4. PICK free \in Nat : free = Exact(left)
  BY SubUnitsAssumption DEF Exact
<1>5. Free(b, e) = free /\ Quantize(free) = left
  BY <1>3, <1>4, QuantizeExact DEF Free
<1>6. PICK cents \in Nat : cents = Quantize(amount) /\ cents = HalfUp(amount)
  BY HalfUpNat DEF Quantize
<1>7. /\ Exceeds(b, e) <=> amount > free
      /\ LeavesReliquat(b, e) <=> amount < free /\ b.reliquat # "unallocated"
  BY <1>1, <1>2, <1>5 DEF Exceeds, LeavesReliquat
<1>8. CASE amount > free
  <2>1. Exceeds(b, e) /\ ~LeavesReliquat(b, e)
    BY <1>7, <1>8
  <2>2. Allocated(b, e) = left
    BY <1>2, <1>5, <2>1 DEF Allocated
  <2>3. ClientDelta(b, e) = Quantize(amount - free)
    <3>1. ClientDelta(b, e) = Quantize(b.amount - Free(b, e))
      BY <1>2, <2>1 DEF ClientDelta
    <3> QED BY <1>1, <1>5, <3>1
  <2>4. PICK over \in Nat : over = amount - free
    BY <1>8
  <2>5. amount = over + Exact(left)
    BY <1>4, <2>4
  <2>6. HalfUp(over + Exact(left)) = HalfUp(over) + left
    BY HalfUpShift
  <2>7. Quantize(over) = HalfUp(over) /\ HalfUp(over) \in Nat
    BY HalfUpNat DEF Quantize
  <2>8. left + Quantize(over) = cents
    BY <1>6, <2>5, <2>6, <2>7
  <2> QED BY <1>1, <1>6, <2>2, <2>3, <2>4, <2>8
<1>9. CASE amount < free /\ b.reliquat # "unallocated"
  <2>1. ~Exceeds(b, e) /\ LeavesReliquat(b, e)
    BY <1>7, <1>9
  <2>2. Allocated(b, e) = left
    BY <1>2, <1>5, <2>1 DEF Allocated
  <2>3. cents <= left
    <3>1. amount <= Exact(left)
      BY <1>4, <1>9
    <3>2. Quantize(amount) <= left
      BY <3>1, QuantizeBelow
    <3> QED BY <1>6, <3>2
  <2>4. CASE b.reliquat = "client_credit"
    <3>1. PICK rest \in Nat : rest = free - amount
      BY <1>9
    <3>2. PICK credit \in Nat : credit = Quantize(rest) /\ credit = HalfUp(rest)
      BY HalfUpNat DEF Quantize
    <3>3. ClientDelta(b, e) = -credit
      <4>1. ClientDelta(b, e) = -Quantize(Free(b, e) - b.amount)
        BY <1>2, <2>1, <2>4 DEF ClientDelta
      <4> QED BY <1>1, <1>5, <3>1, <3>2, <4>1
    <3>4. amount + rest = Exact(left)
      BY <1>4, <3>1
    <3>5. HalfUp(amount) + HalfUp(rest) = left \/ HalfUp(amount) + HalfUp(rest) = left + 1
      BY <3>4, HalfUpParts
    <3>6. \/ left + (-credit) = cents
          \/ -credit < 0 /\ left + (-credit) = cents - 1
      BY <1>6, <2>3, <3>2, <3>5
    <3> QED BY <1>1, <1>6, <2>2, <3>3, <3>6
  <2>5. CASE b.reliquat # "client_credit"
    <3>1. ClientDelta(b, e) = 0
      BY <1>2, <2>1, <2>5 DEF ClientDelta
    <3> QED BY <1>1, <1>6, <2>2, <2>3, <3>1
  <2> QED BY <2>4, <2>5
<1>10. CASE ~(amount > free) /\ ~(amount < free /\ b.reliquat # "unallocated")
  <2>1. ~Exceeds(b, e) /\ ~LeavesReliquat(b, e)
    BY <1>7, <1>10
  <2>2. Allocated(b, e) = cents
    BY <1>1, <1>2, <1>6, <2>1 DEF Allocated
  <2>3. ClientDelta(b, e) = 0
    BY <1>2, <2>1 DEF ClientDelta
  <2> QED BY <1>1, <1>6, <2>2, <2>3
<1> QED BY <1>8, <1>9, <1>10

\* Orders that go on are funded as they were; fresh ones have to be.
LEMMA FundsKept ==
  ASSUME OrdersFunded, racedEntries \subseteq racedEntries',
         NEW fresh, DOMAIN orders' = DOMAIN orders \cup fresh,
         \A k \in DOMAIN orders : orders'[k].status \in {"pending", "approved"} =>
           /\ orders[k].status \in {"pending", "approved"}
           /\ orders'[k].entry = orders[k].entry /\ orders'[k].phone = orders[k].phone
           /\ orders'[k].amount = orders[k].amount
           /\ Given(k)' = Given(k) /\ NetCharge(k)' = NetCharge(k),
         \A k \in fresh : Trusted(orders[k].entry)' =>
           FundedBy(orders'[k], Given(k)', NetCharge(k)')
  PROVE  OrdersFunded'
<1> SUFFICES ASSUME NEW k \in DOMAIN orders', orders'[k].status \in {"pending", "approved"},
                    Trusted(orders[k].entry)'
             PROVE  FundedBy(orders'[k], Given(k)', NetCharge(k)')
  BY DEF OrdersFunded, FundedBy, Given, Trusted
<1>1. CASE k \in fresh
  BY <1>1
<1>2. CASE k \in DOMAIN orders
  <2>1. Trusted(orders[k].entry)
    BY <1>2 DEF Trusted
  <2>2. FundedBy(orders[k], Given(k), NetCharge(k))
    BY <1>2, <2>1 DEF OrdersFunded
  <2> QED BY <1>2, <2>2 DEF FundedBy
<1> QED BY <1>1, <1>2

LEMMA FundsSame ==
  ASSUME FundsInv, UNCHANGED <<allocations, orders, client>>,
         racedEntries \subseteq racedEntries',
         \A s \in Requests : FundsRequested(request'[s])
  PROVE  FundsInv'
<1>1. \A k : Given(k)' = Given(k) /\ NetCharge(k)' = NetCharge(k)
  BY DEF Given, OwnAllocation, NetCharge
<1> DEFINE none == {}
<1>2. none = {} /\ DOMAIN orders' = DOMAIN orders \cup none
  OBVIOUS
<1> HIDE DEF none
<1>3. OrdersFunded'
  BY <1>1, <1>2, FundsKept DEF FundsInv
<1>4. \A s \in Requests : FundsRequested(request[s])'
  BY DEF FundsRequested, FundedBy, Trusted
<1> QED BY <1>3, <1>4 DEF FundsInv

\* A request that becomes q.
LEMMA FundsAfter ==
  ASSUME IInv, FundsInv, NEW r \in Requests, NEW q, FundsRequested(q),
         request' = [request EXCEPT ![r] = q],
         UNCHANGED <<allocations, orders, client>>,
         racedEntries \subseteq racedEntries'
  PROVE  FundsInv'
<1>1. \A s \in Requests : request'[s] = IF s = r THEN q ELSE request[s]
  BY DEF IInv, RequestsHold
<1>2. \A s \in Requests : FundsRequested(request'[s])
  BY <1>1 DEF FundsInv
<1> QED BY <1>2, FundsSame

LEMMA IdleFunds == FundsRequested(Idle)
BY DEF FundsRequested, Idle

LEMMA OrderStartsFunded ==
  ASSUME IInv, RaceInv, FundsInv, UNCHANGED racedEntries,
         NEW r \in Requests, NEW b \in Bodies, NEW e \in 0 .. Len(entries),
         NEW target \in Currencies, NEW converted \in Nat, NEW settles \in BOOLEAN,
         NEW chosen \in Wallets \cup {NoWalletChosen},
         StartOrder(r, b, e, target, converted, settles, chosen)
  PROVE  FundsInv'
<1> DEFINE allocated == Allocated(b, e)
           delta == ClientDelta(b, e)
           row == [entry |-> e, order |-> Len(orders) + 1,
                   currency |-> b.currency, amount |-> allocated]
           phone == IF delta = 0 THEN NoPhone ELSE ClientOf(b, e)
           status == IF allocated = 0 THEN "kept" ELSE StatusUpdate(e, AllocationsOf(e) \cup {row})
           stage == IF delta = 0 THEN "writing" ELSE "reading"
           order == [kind |-> b.kind, company |-> b.company, entry |-> e,
                     phone |-> phone,
                     amount |-> Quantize(b.amount), currency |-> b.currency,
                     target |-> target, converted |-> converted,
                     settles |-> settles, wallet |-> chosen, status |-> "pending"]
           q == [Idle EXCEPT !.does = "create", !.stage = stage, !.order = order,
                             !.allocation = allocated, !.delta = delta, !.entryStatus = status]
<1>1. RowsTyped /\ Acceptable(b, e)
  BY DEF IInv, StartOrder
<1>2. request' = [request EXCEPT ![r] = q] /\ UNCHANGED <<allocations, orders, client>>
  BY DEF StartOrder
<1>3. delta # 0 => phone # NoPhone
  BY <1>1, ClientDeltaTyped
<1>4. Trusted(e) => \/ allocated + delta = Quantize(b.amount)
                    \/ delta < 0 /\ allocated + delta = Quantize(b.amount) - 1
                    \/ allocated > Quantize(b.amount) /\ delta = 0
  <2>1. Trusted(e) => e \in DOMAIN entries /\ EntryHolds(e)
    BY <1>1, RowsAreRecords DEF RaceInv, Trusted, UnracedEntries
  <2> QED BY <1>1, <2>1, AmountIsSplit
<1>5. delta = 0 => phone = NoPhone
  OBVIOUS
<1> HIDE DEF allocated, delta, phone, status, stage
<1>6. order.entry = e /\ order.phone = phone /\ order.amount = Quantize(b.amount)
  OBVIOUS
<1> HIDE DEF order
<1>7. q.order = order /\ q.allocation = allocated /\ q.delta = delta
  BY DEF Idle
<1> HIDE DEF q
<1>8. FundsRequested(q)
  BY <1>3, <1>4, <1>5, <1>6, <1>7 DEF FundsRequested, FundedBy
<1> QED BY <1>2, <1>8, FundsAfter

LEMMA StartsFunded ==
  ASSUME IInv, RaceInv, FundsInv, UNCHANGED racedEntries, NEW r \in Requests, Start(r)
  PROVE  FundsInv'
<1>1. ASSUME NEW b \in Bodies, NEW e \in 0 .. Len(entries), StartTransfer(r, b, e) PROVE FundsInv'
  <2> DEFINE rate == PrivateRate[b.company][<<b.currency, b.target>>]
             converted == Converted(b.amount, b.currency, b.target, rate)
  <2>1. rate \in Nat
    <3>1. <<b.currency, b.target>> \in Currencies \X Currencies
      BY BodyTyped
    <3>2. PrivateRate[b.company] \in [Currencies \X Currencies -> Nat]
      BY BodyTyped, PartiesAssumption
    <3> QED BY <3>1, <3>2
  <2> HIDE DEF rate
  <2>2. converted \in Nat
    BY <2>1, BodyTyped, ConvertedTyped
  <2>3. StartOrder(r, b, e, b.target, converted, FALSE, NoWalletChosen)
    BY <1>1 DEF StartTransfer, rate
  <2> HIDE DEF converted
  <2> QED BY <2>2, <2>3, BodyTyped, OrderStartsFunded
<1>2. ASSUME NEW b \in Bodies, NEW e \in 0 .. Len(entries), StartPayment(r, b, e) PROVE FundsInv'
  <2> DEFINE converted == Converted(b.amount, b.currency, Main, CollaborativeRate)
             settles == Balance(b.company) < 0
  <2>1. converted \in Nat
    BY BodyTyped, ConvertedTyped, PartiesAssumption
  <2>2. StartOrder(r, b, e, Main, converted, settles, b.wallet)
    BY <1>2 DEF StartPayment
  <2>3. settles \in BOOLEAN
    OBVIOUS
  <2>4. Main \in Currencies
    BY PartiesAssumption
  <2>5. b.wallet \in Wallets \cup {NoWalletChosen}
    BY BodyTyped
  <2> HIDE DEF converted, settles
  <2> QED BY <2>1, <2>2, <2>3, <2>4, <2>5, OrderStartsFunded
<1>3. ASSUME NEW sources \in SUBSET DOMAIN entries, StartMerge(r, sources) PROVE FundsInv'
  <2>1. PICK lines :
          request' = [request EXCEPT ![r] =
            [Idle EXCEPT !.does = "merge", !.stage = "writing", !.sources = sources,
                         !.lines = lines]]
    BY <1>3, Zenon DEF StartMerge
  <2> DEFINE q == [Idle EXCEPT !.does = "merge", !.stage = "writing", !.sources = sources,
                               !.lines = lines]
  <2>2. FundsRequested(q)
    BY DEF FundsRequested, Idle
  <2>3. request' = [request EXCEPT ![r] = q]
    BY <2>1
  <2> HIDE DEF q
  <2> QED BY <1>3, <2>2, <2>3, FundsAfter DEF StartMerge
<1>4. ASSUME NEW e \in DOMAIN entries, StartRefund(r, e) PROVE FundsInv'
  <2> DEFINE q == [Idle EXCEPT !.does = "refund", !.stage = "writing", !.id = e,
                               !.lines = entries[e].amount]
  <2>1. request' = [request EXCEPT ![r] = q]
    BY <1>4 DEF StartRefund
  <2>2. FundsRequested(q)
    BY DEF FundsRequested, Idle
  <2> HIDE DEF q
  <2> QED BY <1>4, <2>1, <2>2, FundsAfter DEF StartRefund
<1>5. ASSUME NEW o \in DOMAIN orders, NEW verdict, StartClose(r, o, verdict) PROVE FundsInv'
  <2> DEFINE e == orders[o].entry
             stage == IF orders[o].phone = NoPhone THEN "writing" ELSE "reading"
             order == [orders[o] EXCEPT !.status = verdict]
             status == IF e = 0 THEN "kept" ELSE StatusUpdate(e, AllocationsOf(e) \ OwnAllocation(o))
             q == [Idle EXCEPT !.does = "close", !.stage = stage, !.id = o, !.order = order,
                               !.entryStatus = status]
  <2>1. request' = [request EXCEPT ![r] = q]
    BY <1>5 DEF StartClose
  <2> HIDE DEF order, status, stage, e
  <2>2. FundsRequested(q)
    BY DEF FundsRequested, Idle
  <2> HIDE DEF q
  <2> QED BY <1>5, <2>1, <2>2, FundsAfter DEF StartClose
<1> QED BY <1>1, <1>2, <1>3, <1>4, <1>5
        DEF Start, RejectTransfer, CancelTransfer, RejectPayment, CancelPayment

LEMMA ClientIsReadFunded ==
  ASSUME IInv, FundsInv, UNCHANGED racedEntries, NEW r \in Requests, ReadClient(r)
  PROVE  FundsInv'
<1>1. PICK q \in Transaction : q = request[r] /\ FundsRequested(q)
  BY DEF IInv, RequestsHold, FundsInv
<1> DEFINE order == IF q.does = "create" THEN q.order ELSE orders[q.id]
           delta == IF q.does = "create" THEN q.delta ELSE Reversal(q.id)
           p == [q EXCEPT !.stage = "writing", !.seen = client[order.company][order.phone],
                          !.delta = delta]
<1>2. request' = [request EXCEPT ![r] = p] /\ UNCHANGED <<allocations, orders, client>>
  BY <1>1 DEF ReadClient
<1>3. q.does = "create" => delta = q.delta
  OBVIOUS
<1> HIDE DEF order, delta
<1>4. p.does = q.does /\ p.order = q.order /\ p.allocation = q.allocation /\ p.delta = delta
  BY DEF Transaction
<1> HIDE DEF p
<1>5. FundsRequested(p)
  BY <1>1, <1>3, <1>4 DEF FundsRequested
<1> QED BY <1>2, <1>5, FundsAfter

\* The fields that what an order gives and charges is compared with.
SameDemand(order, row) ==
  /\ row.entry = order.entry /\ row.amount = order.amount
  /\ row.company = order.company /\ row.phone = order.phone

\* An order is approved as it was created.
LEMMA ApprovalFunded ==
  ASSUME IInv, FundsInv, UNCHANGED racedEntries, NEW o \in DOMAIN orders,
         ApprovePayment(o) \/ \E w \in Wallets : ApproveTransfer(o, w)
  PROVE  FundsInv'
<1>1. /\ orders[o] \in Order /\ orders \in Seq(Order) /\ orders[o].status = "pending"
      /\ UNCHANGED <<allocations, client, request>>
  BY RowsAreRecords DEF IInv, RowsTyped, ApprovePayment, ApproveTransfer, Decidable
<1>2. \E row : orders' = [orders EXCEPT ![o] = row] /\ SameDemand(orders[o], row)
  <2>1. CASE ApprovePayment(o)
    <3> DEFINE row == [orders[o] EXCEPT !.status = "approved"]
    <3>1. orders' = [orders EXCEPT ![o] = row]
      BY <1>1, <2>1 DEF ApprovePayment
    <3>2. SameDemand(orders[o], row)
      BY <1>1 DEF Order, SameDemand
    <3> QED BY <3>1, <3>2
  <2>2. ASSUME NEW w \in Wallets, ApproveTransfer(o, w)
        PROVE  \E row : orders' = [orders EXCEPT ![o] = row] /\ SameDemand(orders[o], row)
    <3> DEFINE row == [[orders[o] EXCEPT !.status = "approved"] EXCEPT !.wallet = w]
    <3>1. orders' = [orders EXCEPT ![o] = row]
      BY <1>1, <2>2 DEF ApproveTransfer
    <3>2. SameDemand(orders[o], row)
      BY <1>1 DEF Order, SameDemand
    <3> QED BY <3>1, <3>2
  <2> QED BY <2>1, <2>2
<1>3. PICK row : orders' = [orders EXCEPT ![o] = row] /\ SameDemand(orders[o], row)
  BY <1>2
<1> DEFINE none == {}
<1>4. none = {} /\ DOMAIN orders' = DOMAIN orders \cup none
  BY <1>3
<1> HIDE DEF none
<1>5. \A k \in DOMAIN orders :
        /\ SameDemand(orders[k], orders'[k])
        /\ orders'[k].status \in {"pending", "approved"} =>
             orders[k].status \in {"pending", "approved"}
  <2> SUFFICES ASSUME NEW k \in DOMAIN orders
               PROVE  /\ SameDemand(orders[k], orders'[k])
                      /\ orders'[k].status \in {"pending", "approved"} =>
                           orders[k].status \in {"pending", "approved"}
    OBVIOUS
  <2>1. orders'[k] = IF k = o THEN row ELSE orders[k]
    BY <1>1, <1>3
  <2>2. CASE k = o
    BY <1>1, <1>3, <2>1, <2>2
  <2>3. CASE k # o
    BY <2>1, <2>3 DEF SameDemand
  <2> QED BY <2>2, <2>3
<1>6. \A k \in DOMAIN orders : Given(k)' = Given(k) /\ NetCharge(k)' = NetCharge(k)
  <2> SUFFICES ASSUME NEW k \in DOMAIN orders
               PROVE  Given(k)' = Given(k) /\ NetCharge(k)' = NetCharge(k)
    OBVIOUS
  <2>1. orders'[k].company = orders[k].company /\ orders'[k].phone = orders[k].phone
    BY <1>5 DEF SameDemand
  <2>2. OwnAllocation(k)' = OwnAllocation(k)
    BY <1>1 DEF OwnAllocation
  <2>3. NetCharge(k)' = NetCharge(k)
    BY <1>1, <2>1 DEF NetCharge
  <2> QED BY <2>2, <2>3 DEF Given
<1>7. OrdersFunded'
  BY <1>4, <1>5, <1>6, FundsKept DEF FundsInv, SameDemand
<1> QED BY <1>1, <1>7 DEF FundsInv, FundsRequested, FundedBy, Trusted

LEMMA OrderIsCreatedFunded ==
  ASSUME IInv, FundsInv, racedEntries \subseteq racedEntries', NEW r \in Requests, CommitOrder(r)
  PROVE  FundsInv'
<1>1. PICK q \in Transaction : q = request[r] /\ RequestHolds(q) /\ FundsRequested(q)
  BY DEF IInv, RequestsHold, FundsInv
<1>0. PICK o \in Nat : o = Len(orders) + 1
  <2>1. Len(orders) + 1 \in Nat
    BY RowsAreRecords DEF IInv
  <2> QED BY <2>1
<1> DEFINE row == q.order
           a0 == [entry |-> q.order.entry, order |-> o,
                  currency |-> q.order.currency, amount |-> q.allocation]
           held == IF q.allocation = 0 THEN {} ELSE {a0}
<1>2. /\ q.does = "create" /\ orders' = Append(orders, row)
      /\ allocations' = allocations \cup held
      /\ ClientBilled(q, row.company, row.phone, o)
      /\ request' = [request EXCEPT ![r] = Idle]
  BY <1>0, <1>1 DEF CommitOrder
<1>3. /\ RowsTyped /\ RowsNamed /\ RequestsHold
      /\ row \in Order /\ row.company \in Companies /\ row.phone \in Phones \cup {NoPhone}
      /\ q.allocation \in Nat /\ q.delta \in Int
  BY DEF IInv, Transaction, Order
<1>4. /\ DOMAIN orders' = DOMAIN orders \cup {o} /\ o \notin DOMAIN orders
      /\ orders'[o] = row /\ \A k \in DOMAIN orders : orders'[k] = orders[k]
  <2>1. orders \in Seq(Order)
    BY <1>3 DEF RowsTyped
  <2> HIDE DEF row
  <2> QED BY <1>0, <1>2, <1>3, <2>1, SequenceAppended
<1>5. a0.order = o /\ a0.amount = q.allocation
  OBVIOUS
<1> HIDE DEF row, a0
<1>6. Bills(q, row.company, row.phone, o)
  BY <1>2, <1>3, <1>4, ClientBills
<1>7. ASSUME NEW k \in DOMAIN orders PROVE Given(k)' = Given(k) /\ NetCharge(k)' = NetCharge(k)
  <2>1. k # o /\ orders'[k].company = orders[k].company /\ orders'[k].phone = orders[k].phone
    BY <1>4
  <2>2. PICK c \in Companies, phone \in Phones \cup {NoPhone}, n \in Nat :
          n = o /\ Bills(q, c, phone, n)
    BY <1>3, <1>4, <1>6
  <2>3. NetCharge(k)' = NetCharge(k)
    BY <1>3, <2>1, <2>2, ChargesBilled
  <2>4. \A a \in held : a.order # k
    BY <1>5, <2>1
  <2>5. OwnAllocation(k)' = OwnAllocation(k)
    BY <1>2, <2>4 DEF OwnAllocation
  <2> QED BY <2>3, <2>5 DEF Given
<1>8. OwnAllocation(o)' = held
  <2>1. \A a \in allocations : a.order # o
    BY <1>3, <1>4 DEF RowsNamed
  <2>2. \A a \in held : a.order = o
    BY <1>5
  <2> QED BY <1>2, <2>1, <2>2 DEF OwnAllocation
<1>9. Given(o)' = q.allocation
  <2>1. Given(o)' = SumFunction([a \in held |-> a.amount])
    BY <1>8 DEF Given
  <2>2. CASE q.allocation = 0
    <3> DEFINE f == [a \in held |-> a.amount]
    <3>1. DOMAIN f = {}
      BY <2>2
    <3> HIDE DEF f
    <3>2. SumFunction(f) = 0
      BY <3>1, TotalOfNone
    <3> QED BY <2>1, <2>2, <3>2 DEF f
  <2>3. CASE q.allocation # 0
    <3>1. held = {a0}
      BY <2>3
    <3> HIDE DEF held
    <3>2. SumFunction([a \in {a0} |-> a.amount]) = a0.amount
      BY <1>3, <1>5, SumOfOne
    <3> QED BY <1>5, <2>1, <3>1, <3>2
  <2> QED BY <2>2, <2>3
<1>10. NetCharge(o)' = IF row.phone = NoPhone THEN 0 ELSE q.delta
  <2>1. CASE row.phone = NoPhone
    BY <1>4, <2>1 DEF NetCharge
  <2>2. CASE row.phone # NoPhone
    <3> DEFINE c == row.company
               p == row.phone
               ms == client[c][p].movements
               m == [order |-> o, reversal |-> q.does = "close", delta |-> q.delta,
                     before |-> q.seen.balance, after |-> q.seen.balance + q.delta]
    <3>1. c \in Companies /\ p \in Phones
      BY <1>3, <2>2
    <3>2. ms \in Seq(MovementRow)
      BY <1>3, <3>1, ClientIsRow
    <3>3. m \in MovementRow
      <4>1. q.delta \in Int /\ q.seen.balance \in Int
        BY DEF Transaction, ClientRow
      <4> QED BY <1>4, <4>1 DEF MovementRow
    <3>4. m.order = o /\ m.delta = q.delta
      OBVIOUS
    <3>5. \A i \in DOMAIN ms : ms[i].order # o
      BY <1>3, <1>4, <3>1 DEF RowsNamed
    <3>6. NetCharge(o)' = DeltaOf(client'[c][p].movements, Named(client'[c][p].movements, o))
      BY <1>4, <2>2 DEF NetCharge, DeltaOf, Named
    <3>7. IF q.delta # 0 THEN client'[c][p].movements = Append(ms, m)
          ELSE client'[c][p].movements = ms
      BY <1>6, <3>1 DEF Bills
    <3> HIDE DEF ms, m, c, p
    <3>8. Named(ms, o) = {}
      BY <3>5 DEF Named
    <3>9. DeltaOf(ms, Named(ms, o)) = 0
      <4> DEFINE f == [i \in Named(ms, o) |-> ms[i].delta]
      <4>1. DOMAIN f = {}
        BY <3>8
      <4> HIDE DEF f
      <4>2. SumFunction(f) = 0
        BY <4>1, TotalOfNone
      <4> QED BY <4>2 DEF f, DeltaOf
    <3>10. DeltaOf(Append(ms, m), Named(Append(ms, m), o)) = DeltaOf(ms, Named(ms, o)) + m.delta
      BY <3>2, <3>3, <3>4, OneMoreMovement
    <3>11. CASE q.delta # 0
      <4>1. NetCharge(o)' = m.delta
        <5>1. m.delta \in Int
          BY <1>3, <3>4
        <5>2. client'[c][p].movements = Append(ms, m)
          BY <3>7, <3>11
        <5>3. NetCharge(o)' = DeltaOf(Append(ms, m), Named(Append(ms, m), o))
          BY <3>6, <5>2
        <5>4. NetCharge(o)' = 0 + m.delta
          BY <3>9, <3>10, <5>3
        <5> QED BY <5>1, <5>4
      <4> QED BY <2>2, <3>4, <4>1
    <3>12. CASE q.delta = 0
      BY <2>2, <3>6, <3>7, <3>9, <3>12
    <3> QED BY <3>11, <3>12
  <2> QED BY <2>1, <2>2
<1>11. Trusted(row.entry) => FundedBy(row, Given(o)', NetCharge(o)')
  <2>1. /\ q.delta # 0 => row.phone # NoPhone
        /\ Trusted(row.entry) => FundedBy(row, q.allocation, q.delta)
    BY <1>1, <1>2 DEF FundsRequested, row
  <2>2. row.phone = NoPhone => q.delta = 0
    BY <2>1
  <2> QED BY <1>9, <1>10, <2>1, <2>2
<1> DEFINE fresh == {o}
<1>12. DOMAIN orders' = DOMAIN orders \cup fresh /\ \A k \in fresh : k = o
  BY <1>4
<1> HIDE DEF fresh
<1>13. OrdersFunded'
  <2>1. \A k \in fresh : Trusted(orders[k].entry)' => FundedBy(orders'[k], Given(k)', NetCharge(k)')
    BY <1>4, <1>11, <1>12 DEF Trusted
  <2> QED BY <1>4, <1>7, <1>12, <2>1, FundsKept DEF FundsInv
<1>14. \A s \in Requests : FundsRequested(request'[s])
  BY <1>2, <1>3, IdleAgain, IdleFunds DEF FundsInv
<1> QED BY <1>13, <1>14 DEF FundsInv, FundsRequested, FundedBy, Trusted

LEMMA CloseIsWrittenFunded ==
  ASSUME IInv, FundsInv, racedEntries \subseteq racedEntries', NEW r \in Requests, CommitClose(r)
  PROVE  FundsInv'
<1>1. PICK q \in Transaction : q = request[r] /\ RequestHolds(q)
  BY DEF IInv, RequestsHold
<1>2. PICK o : o = q.id
  OBVIOUS
<1>3. /\ q.does = "close" /\ allocations' = allocations \ OwnAllocation(o)
      /\ orders' = [orders EXCEPT ![o].status = q.order.status]
      /\ ClientBilled(q, q.order.company, q.order.phone, o)
      /\ request' = [request EXCEPT ![r] = Idle]
  BY <1>1, <1>2 DEF CommitClose, WithoutAllocation
<1>4. RowsTyped /\ RowsNamed /\ RequestsHold /\ ClosingHolds(q)
  BY <1>1, <1>3 DEF IInv, RequestHolds
<1>5. /\ o \in DOMAIN orders /\ o \in Nat /\ q.order.status \in Verdicts
      /\ q.order.company \in Companies /\ q.order.phone \in Phones \cup {NoPhone}
  BY <1>2, <1>4, RowsAreRecords DEF ClosingHolds, Transaction, Order
<1>6. /\ DOMAIN orders' = DOMAIN orders /\ orders'[o].status \in Verdicts
      /\ \A k \in DOMAIN orders : k # o => orders'[k] = orders[k]
  <2>1. orders \in Seq(Order) /\ orders[o] \in Order
    BY <1>4, <1>5, RowsAreRecords DEF RowsTyped
  <2>2. DOMAIN orders' = DOMAIN orders /\ \A k \in DOMAIN orders : k # o => orders'[k] = orders[k]
    BY <1>3, <1>5, <2>1
  <2>3. orders'[o] = [orders[o] EXCEPT !.status = q.order.status]
    BY <1>3, <1>5, <2>1
  <2>4. [orders[o] EXCEPT !.status = q.order.status].status = q.order.status
    BY <2>1 DEF Order
  <2> QED BY <1>5, <2>2, <2>3, <2>4
<1>7. Bills(q, q.order.company, q.order.phone, o)
  BY <1>3, <1>4, <1>5, ClientBills
<1>8. ASSUME NEW k \in DOMAIN orders, k # o
      PROVE  Given(k)' = Given(k) /\ NetCharge(k)' = NetCharge(k)
  <2>1. orders'[k].company = orders[k].company /\ orders'[k].phone = orders[k].phone
    BY <1>6, <1>8
  <2>2. NetCharge(k)' = NetCharge(k)
    BY <1>4, <1>5, <1>7, <1>8, <2>1, ChargesBilled
  <2>3. OwnAllocation(k)' = OwnAllocation(k)
    BY <1>3, <1>8 DEF OwnAllocation
  <2> QED BY <2>2, <2>3 DEF Given
<1>9. ASSUME NEW k \in DOMAIN orders, orders'[k].status \in {"pending", "approved"}
      PROVE  k # o
  BY <1>6, <1>9 DEF Verdicts
<1> DEFINE none == {}
<1>10. none = {} /\ DOMAIN orders' = DOMAIN orders \cup none
  BY <1>6
<1> HIDE DEF none
<1>11. OrdersFunded'
  BY <1>6, <1>8, <1>9, <1>10, FundsKept DEF FundsInv
<1>12. \A s \in Requests : FundsRequested(request'[s])
  BY <1>3, <1>4, IdleAgain, IdleFunds DEF FundsInv
<1> QED BY <1>11, <1>12 DEF FundsInv, FundsRequested, FundedBy, Trusted

LEMMA FundsStart == ASSUME Init PROVE FundsInv
<1>1. DOMAIN orders = {}
  BY DEF Init
<1>2. \A r \in Requests : FundsRequested(request[r])
  BY IdleFunds DEF Init
<1> QED BY <1>1, <1>2 DEF FundsInv, OrdersFunded

\* Entries that were raced on or reopened stay so.
LEMMA RacedStay ==
  ASSUME [RaceNext]_<<vars, raceVars>>
  PROVE  racedEntries \subseteq racedEntries' /\ reopened \subseteq reopened'
<1>1. CASE UNCHANGED <<vars, raceVars>>
  BY <1>1 DEF raceVars
<1>2. ASSUME NEW r \in Requests, Overtakes(r) PROVE racedEntries \subseteq racedEntries' /\ reopened \subseteq reopened'
  BY <1>2, Overtaken
<1>3. ASSUME NEW r \in Requests, Forgets(r) PROVE racedEntries \subseteq racedEntries' /\ reopened \subseteq reopened'
  BY <1>3 DEF Forgets
<1>4. ASSUME Quiet PROVE racedEntries \subseteq racedEntries' /\ reopened \subseteq reopened'
  BY <1>4 DEF Quiet, raceVars
<1> QED BY <1>1, <1>2, <1>3, <1>4 DEF RaceNext

LEMMA FundsStep ==
  ASSUME IInv, RaceInv, FundsInv, [RaceNext]_<<vars, raceVars>>
  PROVE  FundsInv'
<1>0. racedEntries \subseteq racedEntries'
  BY RacedStay
<1>1. CASE UNCHANGED <<vars, raceVars>>
  BY <1>0, <1>1, FundsSame DEF vars, FundsInv
<1>2. CASE RaceNext
  <2>0. /\ \A r \in Requests : Forgets(r) => UNCHANGED racedEntries
        /\ Quiet => UNCHANGED racedEntries
    BY DEF Forgets, Quiet, raceVars
  <2>1. ASSUME NEW b \in Receipts, CreateEntry(b) PROVE FundsInv'
    BY <1>0, <2>1, FundsSame DEF CreateEntry, FundsInv
  <2>2. ASSUME NEW r \in Requests, Start(r), Forgets(r) PROVE FundsInv'
    BY <2>0, <2>2, StartsFunded
  <2>3. ASSUME NEW r \in Requests, ReadClient(r), Quiet PROVE FundsInv'
    BY <2>0, <2>3, ClientIsReadFunded
  <2>4. ASSUME NEW r \in Requests, CommitOrder(r) PROVE FundsInv'
    BY <1>0, <2>4, OrderIsCreatedFunded
  <2>5. ASSUME NEW r \in Requests, CommitMerge(r) PROVE FundsInv'
    BY <1>0, <2>5, FundsAfter, IdleFunds DEF CommitMerge
  <2>6. ASSUME NEW r \in Requests, CommitRefund(r) PROVE FundsInv'
    BY <1>0, <2>6, FundsAfter, IdleFunds DEF CommitRefund
  <2>7. ASSUME NEW r \in Requests, CommitClose(r) PROVE FundsInv'
    BY <1>0, <2>7, CloseIsWrittenFunded
  <2>8. ASSUME NEW r \in Requests, Abort(r) PROVE FundsInv'
    BY <1>0, <2>8, FundsAfter, IdleFunds DEF Abort
  <2>9. ASSUME NEW o \in DOMAIN orders, NEW w \in Wallets, ApproveTransfer(o, w), Quiet PROVE FundsInv'
    BY <2>0, <2>9, ApprovalFunded
  <2>10. ASSUME NEW o \in DOMAIN orders, ApprovePayment(o), Quiet PROVE FundsInv'
    BY <2>0, <2>10, ApprovalFunded
  <2> QED BY <1>2, <2>1, <2>2, <2>3, <2>4, <2>5, <2>6, <2>7, <2>8, <2>9, <2>10 DEF RaceNext
<1> QED BY <1>1, <1>2

\* What an order pays is always what its entry gave plus what its client owes, whatever was
\* rounded, credited or left over in between, but for the cent that half a cent of credit is
\* rounded to; when a part is taken as a fee the entry gives more, and no client is named.
THEOREM OrdersAreAlwaysFunded == RaceSpec => []OrdersAreFunded
<1>1. RaceInit => FundsInv
  BY FundsStart DEF RaceInit
<1>2. IInv /\ RaceInv /\ FundsInv /\ [RaceNext]_<<vars, raceVars>> => FundsInv'
  BY FundsStep
<1>3. IInv /\ FundsInv => OrdersAreFunded
  BY FundedOrders DEF FundsInv
<1> QED BY <1>1, <1>2, <1>3, RaceAlways, PTL DEF RaceSpec

---------------------------------------------------------------------------
(* What a company can still use, before and after a merge.                 *)

Left(e, c) == Available(entries[e].amount, AllocationsOf(e), c)

UsableBy(co) == {d \in DOMAIN entries : Usable(d) /\ entries[d].company = co}

LEMMA SumOn ==
  ASSUME NEW S, IsFiniteSet(S), NEW f, NumbersOn(f, S), NEW e, e = [x \in S |-> f[x]]
  PROVE  SumFunction(e) = SumFunctionOnSet(f, S) /\ SumFunctionOnSet(f, S) \in Int
<1>1. DOMAIN e = S /\ SameOn(f, e, S)
  BY DEF SameOn
<1>2. SumFunction(e) = SumFunctionOnSet(e, S)
  BY <1>1 DEF SumFunction
<1> QED BY <1>1, <1>2, SumOfSame, SumTyped

\* What is left of the merged entry is what was left of its sources.
LEMMA MergedLines ==
  ASSUME RowsTyped, NEW q \in Transaction, q.sources \subseteq DOMAIN entries,
         \A e \in q.sources : EntryHolds(e), MergingCurrent(q), NEW c \in Currencies,
         NEW f, \A e \in q.sources : f[e] = Left(e, c)
  PROVE  Available(q.lines, {}, c) = SumFunctionOnSet(f, q.sources)
<1> DEFINE S == q.sources
           T == WalletsIn(c)
<1>1. IsFiniteSet(S) /\ IsFiniteSet(T) /\ T \subseteq Wallets
  <2>1. IsFiniteSet(DOMAIN entries)
    BY RowsAreRecords, FS_Interval
  <2> QED BY <2>1, WalletsAssumption, FS_Subset DEF WalletsIn
<1>2. PICK rest : /\ \A e \in S : rest[e] \in Remainders(entries[e].amount, AllocationsOf(e))
                  /\ \A w \in Wallets : q.lines[w] = SumFunction([e \in S |-> rest[e][w]])
  BY DEF MergingCurrent
<1>3. \A e \in S : /\ rest[e] \in Lines
                   /\ SumFunction([w \in T |-> rest[e][w]]) = f[e]
  <2> SUFFICES ASSUME NEW e \in S
               PROVE  rest[e] \in Lines /\ SumFunction([w \in T |-> rest[e][w]]) = f[e]
    OBVIOUS
  <2>1. e \in DOMAIN entries /\ entries[e].amount \in Lines
    BY RowsAreRecords
  <2>2. rest[e] \in Lines
    BY <1>2, <2>1, RemaindersTyped
  <2>3. SumFunction([w \in T |-> rest[e][w]]) = IF Left(e, c) > 0 THEN Left(e, c) ELSE 0
    BY <1>2 DEF Remainders, Left
  <2>4. Left(e, c) \in Int /\ Left(e, c) >= 0
    BY <2>1, AllocationsOfTyped, AvailableInt DEF EntryHolds, Left
  <2> QED BY <2>2, <2>3, <2>4
<1> HIDE DEF S, T
<1>4. IsTable(rest, S, T)
  <2>1. \A e \in S : rest[e] \in [Wallets -> Nat]
    BY <1>3 DEF Lines
  <2>2. \A e \in S : \A w \in T : rest[e][w] \in Nat
    BY <1>1, <2>1
  <2> QED BY <2>2 DEF IsTable
<1>5. SumFunctionOnSet(ColumnSums(rest, S, S, T), T) = SumFunctionOnSet(RowSums(rest, S, T), S)
  BY <1>1, <1>4, SumsExchanged
<1>6. \A e \in S : RowSums(rest, S, T)[e] = f[e] /\ f[e] \in Int
  <2> SUFFICES ASSUME NEW e \in S PROVE SumFunctionOnSet(rest[e], T) = f[e] /\ f[e] \in Int
    BY DEF RowSums
  <2>1. NumbersOn(rest[e], T)
    BY <1>4 DEF IsTable, NumbersOn
  <2>2. SumFunction([w \in T |-> rest[e][w]]) = SumFunctionOnSet(rest[e], T)
        /\ SumFunctionOnSet(rest[e], T) \in Int
    BY <1>1, <2>1, SumOn
  <2> QED BY <1>3, <2>2
<1>7. SumFunctionOnSet(RowSums(rest, S, T), S) = SumFunctionOnSet(f, S)
  BY <1>1, <1>6, SumOfSame DEF SameOn, NumbersOn
<1>8. \A w \in T : q.lines[w] = ColumnSums(rest, S, S, T)[w] /\ q.lines[w] \in Int
  <2> SUFFICES ASSUME NEW w \in T
               PROVE  q.lines[w] = SumFunctionOnSet(Column(rest, S, w), S) /\ q.lines[w] \in Int
    BY DEF ColumnSums
  <2>1. q.lines[w] = SumFunction(Column(rest, S, w))
    BY <1>1, <1>2 DEF Column, S
  <2>2. DOMAIN Column(rest, S, w) = S
    BY DEF Column
  <2>3. q.lines[w] \in Int
    BY <1>1 DEF Transaction
  <2> QED BY <2>1, <2>2, <2>3 DEF SumFunction
<1>9. SumFunctionOnSet(q.lines, T) = SumFunctionOnSet(ColumnSums(rest, S, S, T), T)
  <2>1. NumbersOn(q.lines, T) /\ SameOn(q.lines, ColumnSums(rest, S, S, T), T)
    BY <1>8 DEF NumbersOn, SameOn
  <2> QED BY <1>1, <2>1, SumOfSame
<1>10. Available(q.lines, {}, c) = SumFunctionOnSet(q.lines, T)
  <2> DEFINE received == [w \in T |-> q.lines[w]]
             given == [a \in {x \in {} : x.currency = c} |-> a.amount]
  <2>1. SumFunction(given) = 0
    <3>1. DOMAIN given = {}
      OBVIOUS
    <3> HIDE DEF given
    <3> QED BY <3>1, TotalOfNone
  <2>2. SumFunction(received) = SumFunctionOnSet(q.lines, T) /\ SumFunctionOnSet(q.lines, T) \in Int
    <3>1. NumbersOn(q.lines, T)
      BY <1>8 DEF NumbersOn
    <3> QED BY <1>1, <3>1, SumOn
  <2>3. Available(q.lines, {}, c) = SumFunction(received) - SumFunction(given)
    BY DEF Available, T
  <2> HIDE DEF received, given
  <2> QED BY <2>1, <2>2, <2>3
<1> QED BY <1>5, <1>7, <1>9, <1>10 DEF S

LEMMA MergedFunds ==
  ASSUME IInv, NEW r \in Requests, CommitMerge(r), MergingCurrent(request[r]),
         \A e \in request[r].sources : EntryHolds(e), NEW co \in Companies, NEW c \in Currencies
  PROVE  Funds(co, c)' = Funds(co, c)
<1>n. PICK n : n = Len(entries) + 1
  OBVIOUS
<1>0. PICK q \in Transaction : q = request[r]
  BY DEF IInv, RequestsHold
<1> DEFINE S == q.sources
<1>1. /\ n \notin DOMAIN entries /\ DOMAIN entries' = DOMAIN entries \cup {n}
      /\ S # {} /\ S \subseteq DOMAIN entries
      /\ \A e \in DOMAIN entries :
           /\ entries'[e].company = entries[e].company
           /\ entries'[e].amount = entries[e].amount
           /\ entries'[e].status = entries[e].status
           /\ entries'[e].mergedInto = IF e \in S THEN n ELSE entries[e].mergedInto
      /\ entries'[n].mergedInto = 0 /\ entries'[n].status = "unallocated"
      /\ entries'[n].amount = q.lines
      /\ \E e \in S : entries'[n].company = entries[e].company
  BY <1>n, <1>0, MergedEntry
<1>2. q.does = "merge" /\ UNCHANGED allocations
  BY <1>0 DEF CommitMerge
<1>3. MergingCurrent(q) /\ \A e \in q.sources : EntryHolds(e)
  BY <1>0
<1>4. RowsTyped /\ n # 0
  BY <1>n, RowsAreRecords DEF IInv
<1>5. AllocationsOf(n)' = {} /\ \A e : AllocationsOf(e)' = AllocationsOf(e)
  <2>1. \A e : AllocationsOf(e)' = AllocationsOf(e)
    BY <1>2 DEF AllocationsOf
  <2>2. AllocationsOf(n) = {}
    BY <1>1 DEF AllocationsOf, IInv, RowsNamed
  <2> QED BY <2>1, <2>2
<1> DEFINE f == [e \in DOMAIN entries \cup {n} |->
                   IF e = n THEN Available(q.lines, {}, c) ELSE Left(e, c)]
           D == UsableBy(co)
           mine == entries'[n].company = co
           D1 == (D \ S) \cup (IF mine THEN {n} ELSE {})
<1>6. /\ \A e \in D : f[e] = Left(e, c)
      /\ \A e \in S : f[e] = Left(e, c)
      /\ \A e \in D1 : f[e] = Available(entries'[e].amount, AllocationsOf(e)', c)
      /\ D \subseteq DOMAIN entries /\ n \notin D
  BY <1>1, <1>5 DEF Left, UsableBy
<1>7. UsableBy(co)' = D1
  BY <1>1, <1>4 DEF UsableBy, Usable, MERGEABLE_STATUSES
<1>8. /\ mine => S \subseteq D
      /\ ~mine => S \cap D = {}
  BY <1>1, <1>3 DEF MergingCurrent, UsableBy
<1>9. f[n] = SumFunctionOnSet(f, S)
  <2>1. f[n] = Available(q.lines, {}, c)
    OBVIOUS
  <2> HIDE DEF f
  <2> QED BY <1>1, <1>3, <1>4, <1>6, <2>1, MergedLines
<1>10. NumbersOn(f, DOMAIN entries \cup {n})
  <2>1. \A e \in DOMAIN entries : Left(e, c) \in Int
    BY <1>4, RowsAreRecords, AllocationsOfTyped, AvailableInt DEF Left
  <2>2. Available(q.lines, {}, c) \in Int
    <3>1. q.lines \in Lines
      BY DEF Transaction, Lines
    <3> QED BY <3>1, AvailableWhole
  <2> QED BY <1>1, <2>1, <2>2 DEF NumbersOn
<1>11. /\ IsFiniteSet(D) /\ IsFiniteSet(S) /\ IsFiniteSet(D \ S) /\ IsFiniteSet(D1)
  <2>1. IsFiniteSet(DOMAIN entries)
    BY <1>4, RowsAreRecords, FS_Interval
  <2>2. IsFiniteSet(D) /\ IsFiniteSet(S) /\ IsFiniteSet(D \ S)
    BY <1>1, <2>1, FS_Subset DEF UsableBy
  <2>3. IsFiniteSet((D \ S) \cup {n})
    BY <2>2, FS_AddElement
  <2> QED BY <2>2, <2>3
<1>12. Funds(co, c) = SumFunction([e \in D |-> f[e]])
  BY <1>6 DEF Funds, UsableBy, Left
<1>13. Funds(co, c)' = SumFunction([e \in D1 |-> f[e]])
  <2>1. Funds(co, c)' = SumFunction([e \in UsableBy(co)' |->
                                       Available(entries'[e].amount, AllocationsOf(e)', c)])
    BY DEF Funds, UsableBy
  <2> HIDE DEF f, D1
  <2> QED BY <1>6, <1>7, <2>1
<1> HIDE DEF f, D, D1, S
<1>14. NumbersOn(f, D) /\ NumbersOn(f, D1) /\ NumbersOn(f, S) /\ NumbersOn(f, D \ S) /\ f[n] \in Int
  BY <1>1, <1>6, <1>10 DEF NumbersOn, D1
<1>15. Funds(co, c) = SumFunctionOnSet(f, D) /\ Funds(co, c)' = SumFunctionOnSet(f, D1)
  BY <1>11, <1>12, <1>13, <1>14, SumOn
<1>16. SumFunctionOnSet(f, D1) = SumFunctionOnSet(f, D)
  <2>1. CASE mine
    <3>1. D1 = (D \ S) \cup {n} /\ n \notin D \ S
      BY <1>6, <2>1 DEF D1
    <3>2. SumFunctionOnSet(f, D1) = SumFunctionOnSet(f, D \ S) + f[n]
      BY <1>11, <1>14, <3>1, SumOfMore
    <3>3. (D \ S) \cup S = D /\ (D \ S) \cap S = {}
      BY <1>8, <2>1
    <3>5. NumbersOn(f, (D \ S) \cup S)
      BY <1>14, <3>3
    <3>4. SumFunctionOnSet(f, (D \ S) \cup S) = SumFunctionOnSet(f, D \ S) + SumFunctionOnSet(f, S)
      BY <1>11, <3>3, <3>5, SumOfBoth
    <3> QED BY <1>9, <3>2, <3>3, <3>4
  <2>2. CASE ~mine
    BY <1>8, <2>2 DEF D1
  <2> QED BY <2>1, <2>2
<1> QED BY <1>15, <1>16

\* A request that begins writes nothing yet.
LEMMA StartsLeaveEntries ==
  ASSUME NEW r \in Requests, Start(r)
  PROVE  UNCHANGED <<wallet, entries, allocations, orders, shared, client>>
BY DEF Start, StartTransfer, StartPayment, StartOrder, StartMerge, StartRefund, StartClose,
       RejectTransfer, CancelTransfer, RejectPayment, CancelPayment

\* The step that writes a merged entry is that request's commit and no other.
LEMMA MergeOvertakes ==
  ASSUME IInv, RaceInv, NEW r \in Requests, CommitMerge(r), [RaceNext]_<<vars, raceVars>>
  PROVE  Overtakes(r)
<1>1. PICK n : n = Len(entries) + 1
  OBVIOUS
<1>2. n \notin DOMAIN entries /\ DOMAIN entries' = DOMAIN entries \cup {n}
  BY <1>1, MergedEntry
<1>3. request[r].does = "merge" /\ UNCHANGED <<orders, allocations>>
  BY DEF CommitMerge
<1>4. request' = [request EXCEPT ![r] = Idle]
  BY DEF CommitMerge
<1>5. request'[r] = Idle /\ \A s \in Requests : s # r => request'[s] = request[s]
  BY <1>4, IdleAgain DEF IInv
<1>6. request' # request
  BY <1>3, <1>5, IdleTyped
<1>7. entries' # entries /\ DOMAIN entries' # DOMAIN entries
  BY <1>2
<1>8. RaceNext
  BY <1>6 DEF vars
<1>9. ASSUME NEW b \in Receipts, CreateEntry(b) PROVE FALSE
  BY <1>6, <1>9 DEF CreateEntry
<1>10. ASSUME NEW s \in Requests, Start(s) PROVE FALSE
  BY <1>7, <1>10, StartsLeaveEntries
<1>11. ASSUME NEW s \in Requests, ReadClient(s) PROVE FALSE
  BY <1>7, <1>11 DEF ReadClient
<1>12. ASSUME NEW s \in Requests, CommitOrder(s) \/ CommitClose(s) PROVE FALSE
  <2>1. PICK e \in 0 .. Len(entries), status \in EntryStatuses \cup {"kept"} :
          (status # "kept" => e # 0) /\ EntryMarked(e, status)
    BY <1>12, OrderWritten
  <2>2. DOMAIN entries' = DOMAIN entries
    BY <2>1, MarkedEntries DEF IInv
  <2> QED BY <1>7, <2>2
<1>13. ASSUME NEW s \in Requests, CommitMerge(s), Overtakes(s) PROVE Overtakes(r)
  <2>1. request[s].does = "merge" /\ request' = [request EXCEPT ![s] = Idle]
    BY <1>13 DEF CommitMerge
  <2>2. request'[s] = Idle
    BY <2>1, IdleAgain DEF IInv
  <2>3. s = r
    BY <1>5, <2>1, <2>2, IdleTyped
  <2> QED BY <1>13, <2>3
<1>14. ASSUME NEW s \in Requests, CommitRefund(s) PROVE FALSE
  BY <1>7, <1>14 DEF CommitRefund
<1>15. ASSUME NEW s \in Requests, Abort(s) PROVE FALSE
  BY <1>7, <1>15 DEF Abort
<1>16. ASSUME NEW o \in DOMAIN orders, NEW w \in Wallets, ApproveTransfer(o, w) PROVE FALSE
  BY <1>7, <1>16 DEF ApproveTransfer
<1>17. ASSUME NEW o \in DOMAIN orders, ApprovePayment(o) PROVE FALSE
  BY <1>7, <1>17 DEF ApprovePayment
<1> QED BY <1>8, <1>9, <1>10, <1>11, <1>12, <1>13, <1>14, <1>15, <1>16, <1>17 DEF RaceNext

\* A merge neither creates nor loses money that a company can still use, whatever is created,
\* closed, cancelled or merged beside it, unless one of its own sources was raced on: the lines
\* of the merged entry are what was left of its sources, in each currency, and it is that entry
\* that can be used now, no more its sources.
THEOREM MergesAlwaysPreserveFunds == RaceSpec => MergesPreserveFunds
<1>1. ASSUME IInv, RaceInv, [RaceNext]_<<vars, raceVars>>,
             NEW r \in Requests, CommitMerge(r), request[r].sources \cap racedEntries' = {},
             NEW co \in Companies, NEW c \in Currencies
      PROVE  Funds(co, c)' = Funds(co, c)
  <2>1. PICK q : q = request[r]
    OBVIOUS
  <2>2. q.does = "merge" /\ q.sources # {} /\ q.sources \subseteq DOMAIN entries
    BY <1>1, <2>1, MergedEntry DEF CommitMerge
  <2>3. EntriesOf(q) = q.sources
    BY <2>2, EntriesOfEach
  <2>4. /\ racedEntries \subseteq racedEntries'
        /\ r \in staleEntries => q.sources \subseteq racedEntries'
    BY <1>1, <2>1, <2>3, MergeOvertakes, Overtaken
  <2>5. r \notin staleEntries /\ \A e \in q.sources : e \in UnracedEntries
    BY <1>1, <2>1, <2>2, <2>4 DEF UnracedEntries
  <2>6. MergingCurrent(q) /\ \A e \in q.sources : EntryHolds(e)
    BY <1>1, <2>1, <2>2, <2>5 DEF RaceInv, EntriesRead
  <2> QED BY <1>1, <2>1, <2>6, MergedFunds
<1>2. IInv /\ RaceInv /\ [RaceNext]_<<vars, raceVars>> =>
        [\A r \in Requests :
           CommitMerge(r) /\ request[r].sources \cap racedEntries' = {} =>
             \A co \in Companies, c \in Currencies : Funds(co, c)' = Funds(co, c)]_<<vars, raceVars>>
  BY <1>1
<1> QED BY <1>2, RaceAlways, PTL DEF RaceSpec, MergesPreserveFunds

---------------------------------------------------------------------------
(* A wallet and the rows that explain its balance.                         *)

\* The entries that received money, those that gave it back, the orders paid.
ReceivedEntries == {e \in DOMAIN entries : \A d \in DOMAIN entries : entries[d].mergedInto # e}
RefundedEntries == {e \in DOMAIN entries : entries[e].status = "cancelled"}
PaidFrom(w) == {o \in DOMAIN orders : orders[o].status = "approved" /\ orders[o].wallet = w}

Cost(o) == IF orders[o].kind = "transfer" THEN orders[o].converted ELSE orders[o].amount

OnWallet(S, w) == [e \in S |-> entries[e].amount[w]]
CostOf(S) == [o \in S |-> Cost(o)]

In(w)   == SumFunction(OnWallet(ReceivedEntries, w))
Back(w) == SumFunction(OnWallet(RefundedEntries, w))
Out(w)  == SumFunction(CostOf(PaidFrom(w)))

Books(w) == wallet[w].balance = Opening[w].balance + In(w) - Back(w) - Out(w)

\* No entry with money on w was raced on or reopened.
Clean(w) == \A e \in racedEntries \cup reopened : entries[e].amount[w] = 0

\* A merged entry with money on w has it from one of its sources.
Bears(w) ==
  \A e \in DOMAIN entries :
    entries[e].amount[w] # 0 /\ (\E d \in DOMAIN entries : entries[d].mergedInto = e) =>
      \E d \in DOMAIN entries : entries[d].mergedInto = e /\ entries[d].amount[w] # 0

MergersExist == \A d \in DOMAIN entries : entries[d].mergedInto \in DOMAIN entries \cup {0}

\* What a request is about to write, whatever became of what it read.
LinesOf(q) ==
  /\ q.does \in {"create", "close"} => q.entryStatus # "cancelled"
  /\ q.does = "refund" => q.lines = entries[q.id].amount
  /\ q.does = "merge" => \A w \in Wallets :
       q.lines[w] # 0 => \E e \in q.sources : entries[e].amount[w] # 0

LinesInv == MergersExist /\ \A r \in Requests : LinesOf(request[r])

BooksInv == \A w \in Wallets : Clean(w) => Books(w) /\ Bears(w)

LEMMA BooksAre == ASSUME BooksInv PROVE WalletsMatchBooks
<1> SUFFICES ASSUME NEW w \in Wallets, Clean(w)
             PROVE  wallet[w].balance =
                      Opening[w].balance
                        + SumFunction([e \in ReceivedEntries |-> entries[e].amount[w]])
                        - SumFunction([e \in RefundedEntries |-> entries[e].amount[w]])
                        - SumFunction([o \in PaidFrom(w) |->
                            IF orders[o].kind = "transfer" THEN orders[o].converted
                            ELSE orders[o].amount])
  BY DEF WalletsMatchBooks, Clean, ReceivedEntries, RefundedEntries, PaidFrom
<1>1. /\ In(w) = SumFunction([e \in ReceivedEntries |-> entries[e].amount[w]])
      /\ Back(w) = SumFunction([e \in RefundedEntries |-> entries[e].amount[w]])
      /\ Out(w) = SumFunction([o \in PaidFrom(w) |->
           IF orders[o].kind = "transfer" THEN orders[o].converted ELSE orders[o].amount])
  BY DEF In, Back, Out, OnWallet, CostOf, Cost
<1>2. Books(w)
  BY DEF BooksInv
<1> QED BY <1>1, <1>2 DEF Books

LEMMA BooksTyped ==
  ASSUME RowsTyped, NEW w \in Wallets
  PROVE  /\ In(w) \in Int /\ Back(w) \in Int /\ Out(w) \in Int
         /\ IsFiniteSet(ReceivedEntries) /\ IsFiniteSet(RefundedEntries) /\ IsFiniteSet(PaidFrom(w))
         /\ NumbersOn(OnWallet(ReceivedEntries, w), ReceivedEntries)
         /\ NumbersOn(OnWallet(RefundedEntries, w), RefundedEntries)
         /\ NumbersOn(CostOf(PaidFrom(w)), PaidFrom(w))
         /\ wallet[w].balance \in Nat /\ Opening[w].balance \in Nat
<1>1. IsFiniteSet(DOMAIN entries) /\ IsFiniteSet(DOMAIN orders)
  BY RowsAreRecords, FS_Interval
<1>2. /\ ReceivedEntries \subseteq DOMAIN entries /\ RefundedEntries \subseteq DOMAIN entries
      /\ PaidFrom(w) \subseteq DOMAIN orders
  BY DEF ReceivedEntries, RefundedEntries, PaidFrom
<1>3. IsFiniteSet(ReceivedEntries) /\ IsFiniteSet(RefundedEntries) /\ IsFiniteSet(PaidFrom(w))
  BY <1>1, <1>2, FS_Subset
<1>4. \A e \in DOMAIN entries : entries[e].amount[w] \in Int
  BY RowsAreRecords DEF Lines
<1>5. \A o \in DOMAIN orders : Cost(o) \in Int
  BY RowsAreRecords DEF Order, Cost
<1>6. ASSUME NEW S, S \subseteq DOMAIN entries, IsFiniteSet(S)
      PROVE  NumbersOn(OnWallet(S, w), S) /\ SumFunction(OnWallet(S, w)) \in Int
  <2>1. DOMAIN OnWallet(S, w) = S /\ \A e \in S : OnWallet(S, w)[e] \in Int
    BY <1>4, <1>6 DEF OnWallet
  <2> QED BY <1>6, <2>1, TotalTyped DEF NumbersOn
<1>7. NumbersOn(CostOf(PaidFrom(w)), PaidFrom(w)) /\ SumFunction(CostOf(PaidFrom(w))) \in Int
  <2>1. DOMAIN CostOf(PaidFrom(w)) = PaidFrom(w)
        /\ \A o \in PaidFrom(w) : CostOf(PaidFrom(w))[o] \in Int
    BY <1>2, <1>5 DEF CostOf
  <2> QED BY <1>3, <2>1, TotalTyped DEF NumbersOn
<1>8. wallet[w].balance \in Nat /\ Opening[w].balance \in Nat
  BY PartiesAssumption DEF RowsTyped, WalletRow
<1> QED BY <1>2, <1>3, <1>6, <1>7, <1>8 DEF In, Back, Out

\* Sums over two sets that differ by zeros only.
LEMMA SameBearing ==
  ASSUME NEW S, IsFiniteSet(S), NEW T, IsFiniteSet(T), NEW f, NumbersOn(f, S \cup T),
         \A x \in S \cup T : f[x] # 0 => (x \in S <=> x \in T)
  PROVE  SumFunctionOnSet(f, S) = SumFunctionOnSet(f, T)
<1>1. ASSUME NEW A, NEW B, IsFiniteSet(A), A \subseteq S \cup T,
             \A x \in S \cup T : f[x] # 0 => (x \in A <=> x \in B)
      PROVE  SumFunctionOnSet(f, A) = SumFunctionOnSet(f, A \cap B)
  <2>0. PICK both, rest : both = A \cap B /\ rest = A \ B
    OBVIOUS
  <2>1. IsFiniteSet(both) /\ IsFiniteSet(rest)
    BY <1>1, <2>0, FS_Subset
  <2>2. both \cup rest = A /\ both \cap rest = {}
    BY <2>0
  <2>3. \A x \in rest : f[x] = 0
    BY <1>1, <2>0
  <2>4. SumFunctionOnSet(f, rest) = 0
    BY <2>1, <2>3, SumOfZeros
  <2>5. NumbersOn(f, both \cup rest) /\ NumbersOn(f, both)
    BY <1>1, <2>2 DEF NumbersOn
  <2>6. SumFunctionOnSet(f, both \cup rest) = SumFunctionOnSet(f, both) + SumFunctionOnSet(f, rest)
    BY <2>1, <2>2, <2>5, SumOfBoth
  <2>7. SumFunctionOnSet(f, both) \in Int
    BY <2>1, <2>5, SumTyped
  <2>8. SumFunctionOnSet(f, both \cup rest) = SumFunctionOnSet(f, both)
    BY <2>4, <2>6, <2>7
  <2> QED BY <2>0, <2>2, <2>8
<1>2. SumFunctionOnSet(f, S) = SumFunctionOnSet(f, S \cap T)
  BY <1>1
<1>3. SumFunctionOnSet(f, T) = SumFunctionOnSet(f, T \cap S)
  BY <1>1
<1>4. S \cap T = T \cap S
  OBVIOUS
<1> QED BY <1>2, <1>3, <1>4

LEMMA FiniteEntries ==
  RowsTyped =>
    IsFiniteSet(DOMAIN entries) /\ \A e \in DOMAIN entries : entries[e].amount \in Lines
BY RowsAreRecords, FS_Interval

\* The same entries but for those with nothing on w: the same sum.
LEMMA EntriesSame ==
  ASSUME IInv, IInv', NEW w \in Wallets, DOMAIN entries \subseteq DOMAIN entries',
         \A e \in DOMAIN entries : entries'[e].amount = entries[e].amount,
         NEW S, S \subseteq DOMAIN entries, NEW T, T \subseteq DOMAIN entries',
         \A e \in DOMAIN entries' : entries'[e].amount[w] # 0 => (e \in S <=> e \in T)
  PROVE  SumFunction([e \in T |-> entries'[e].amount[w]]) = SumFunction(OnWallet(S, w))
<1>1. PICK f : f = [e \in DOMAIN entries' |-> entries'[e].amount[w]]
  OBVIOUS
<1>2. IsFiniteSet(DOMAIN entries') /\ \A e \in DOMAIN entries' : entries'[e].amount \in Lines
  <2>1. RowsTyped'
    BY DEF IInv
  <2>2. (RowsTyped => IsFiniteSet(DOMAIN entries)
                      /\ \A e \in DOMAIN entries : entries[e].amount \in Lines)'
    BY FiniteEntries, PTL
  <2> QED BY <2>1, <2>2
<1>3. \A e \in DOMAIN entries' : f[e] = entries'[e].amount[w] /\ f[e] \in Int
  BY <1>1, <1>2 DEF Lines
<1>4. IsFiniteSet(S) /\ IsFiniteSet(T)
  BY <1>2, FS_Subset
<1>5. NumbersOn(f, S \cup T) /\ NumbersOn(f, S) /\ NumbersOn(f, T)
  BY <1>3 DEF NumbersOn
<1>6. SumFunctionOnSet(f, S) = SumFunctionOnSet(f, T)
  BY <1>3, <1>4, <1>5, SameBearing
<1>7. OnWallet(S, w) = [e \in S |-> f[e]]
  BY <1>3 DEF OnWallet
<1>8. [e \in T |-> entries'[e].amount[w]] = [e \in T |-> f[e]]
  BY <1>3
<1>9. SumFunction(OnWallet(S, w)) = SumFunctionOnSet(f, S)
  BY <1>4, <1>5, <1>7, SumOn
<1>10. SumFunction([e \in T |-> f[e]]) = SumFunctionOnSet(f, T)
  BY <1>4, <1>5, SumOn
<1> QED BY <1>6, <1>8, <1>9, <1>10

LEMMA InSame ==
  ASSUME IInv, IInv', NEW w \in Wallets, DOMAIN entries \subseteq DOMAIN entries',
         \A e \in DOMAIN entries : entries'[e].amount = entries[e].amount,
         \A e \in DOMAIN entries' :
           entries'[e].amount[w] # 0 => (e \in ReceivedEntries <=> e \in ReceivedEntries')
  PROVE  In(w)' = In(w)
<1>1. PICK S, T : S = ReceivedEntries /\ T = ReceivedEntries'
  OBVIOUS
<1>2. S \subseteq DOMAIN entries /\ T \subseteq DOMAIN entries'
  BY <1>1 DEF ReceivedEntries
<1>3. \A e \in DOMAIN entries' : entries'[e].amount[w] # 0 => (e \in S <=> e \in T)
  BY <1>1
<1>4. SumFunction([e \in T |-> entries'[e].amount[w]]) = SumFunction(OnWallet(S, w))
  BY <1>2, <1>3, EntriesSame
<1> QED BY <1>1, <1>4 DEF In, OnWallet

LEMMA BackSame ==
  ASSUME IInv, IInv', NEW w \in Wallets, DOMAIN entries \subseteq DOMAIN entries',
         \A e \in DOMAIN entries : entries'[e].amount = entries[e].amount,
         \A e \in DOMAIN entries' :
           entries'[e].amount[w] # 0 => (e \in RefundedEntries <=> e \in RefundedEntries')
  PROVE  Back(w)' = Back(w)
<1>1. PICK S, T : S = RefundedEntries /\ T = RefundedEntries'
  OBVIOUS
<1>2. S \subseteq DOMAIN entries /\ T \subseteq DOMAIN entries'
  BY <1>1 DEF RefundedEntries
<1>3. \A e \in DOMAIN entries' : entries'[e].amount[w] # 0 => (e \in S <=> e \in T)
  BY <1>1
<1>4. SumFunction([e \in T |-> entries'[e].amount[w]]) = SumFunction(OnWallet(S, w))
  BY <1>2, <1>3, EntriesSame
<1> QED BY <1>1, <1>4 DEF Back, OnWallet

LEMMA CostsSame ==
  ASSUME NEW w, PaidFrom(w)' = PaidFrom(w), \A o \in PaidFrom(w) : orders'[o] = orders[o]
  PROVE  Out(w)' = Out(w)
<1>1. CostOf(PaidFrom(w))' = CostOf(PaidFrom(w))
  BY DEF CostOf, Cost
<1> QED BY <1>1 DEF Out

LEMMA OrdersSame ==
  ASSUME UNCHANGED orders, NEW w
  PROVE  Out(w)' = Out(w)
<1>1. PaidFrom(w)' = PaidFrom(w)
  BY DEF PaidFrom
<1> QED BY <1>1, CostsSame

LEMMA RowsSame ==
  ASSUME UNCHANGED entries, NEW w
  PROVE  In(w)' = In(w) /\ Back(w)' = Back(w)
<1>1. ReceivedEntries' = ReceivedEntries /\ RefundedEntries' = RefundedEntries
  BY DEF ReceivedEntries, RefundedEntries
<1>2. OnWallet(ReceivedEntries, w)' = OnWallet(ReceivedEntries, w)
  BY <1>1 DEF OnWallet
<1>3. OnWallet(RefundedEntries, w)' = OnWallet(RefundedEntries, w)
  BY <1>1 DEF OnWallet
<1> QED BY <1>2, <1>3 DEF In, Back

LEMMA BearsKept ==
  ASSUME DOMAIN entries' = DOMAIN entries, NEW w, Bears(w),
         \A d \in DOMAIN entries : /\ entries'[d].amount = entries[d].amount
                                   /\ entries'[d].mergedInto = entries[d].mergedInto
  PROVE  Bears(w)'
BY DEF Bears

\* A movement of a whole number of cents.
LEMMA CentsMoved ==
  ASSUME RowsTyped, NEW raw, wallet' = Moved(raw), NEW w \in Wallets, raw[w] \in Int
  PROVE  wallet'[w].balance = wallet[w].balance + Quantize(raw[w])
<1>1. wallet[w] \in WalletRow /\ wallet[w].balance \in Nat
  BY DEF RowsTyped, WalletRow
<1>2. CASE raw[w] = 0
  <2>1. wallet'[w] = wallet[w]
    BY <1>2 DEF Moved
  <2>2. Quantize(0) = 0
    <3>1. Exact(0) = 0
      BY SubUnitsAssumption DEF Exact
    <3> QED BY <3>1, QuantizeExact
  <2> QED BY <1>1, <1>2, <2>1, <2>2
<1>3. CASE raw[w] # 0
  <2>1. wallet'[w] = [wallet[w] EXCEPT !.balance = Applied(wallet[w], raw[w])]
    BY <1>3 DEF Moved
  <2>2. wallet'[w].balance = Applied(wallet[w], raw[w])
    BY <1>1, <2>1 DEF WalletRow
  <2> QED BY <2>2 DEF Applied
<1> QED BY <1>2, <1>3

LEMMA CreatedBooks ==
  ASSUME IInv, MergersExist, NEW b \in Receipts, CreateEntry(b), NEW w \in Wallets, Books(w), Bears(w)
  PROVE  Books(w)' /\ Bears(w)'
<1>n. PICK n : n = Len(entries) + 1
  OBVIOUS
<1>1. /\ n \notin DOMAIN entries /\ DOMAIN entries' = DOMAIN entries \cup {n}
      /\ \A e \in DOMAIN entries : entries'[e] = entries[e]
      /\ entries'[n].mergedInto = 0 /\ entries'[n].status = "unallocated"
      /\ entries'[n].amount[w] = Quantize(b.amount[w])
  BY <1>n, CreatedEntry
<1>2. wallet' = Moved(b.amount) /\ UNCHANGED orders /\ b.amount[w] \in Nat
  <2>1. b.amount \in [Wallets -> Nat]
    BY PartiesAssumption DEF Receipt
  <2> QED BY <2>1 DEF CreateEntry
<1>3. RowsTyped /\ n \in Nat /\ n # 0 /\ DOMAIN entries = 1 .. n - 1
  BY <1>n, RowsAreRecords DEF IInv
<1>4. wallet'[w].balance = wallet[w].balance + Quantize(b.amount[w])
      /\ Quantize(b.amount[w]) \in Int
  <2>1. b.amount[w] \in Int
    BY <1>2
  <2>2. Quantize(b.amount[w]) \in Int
    BY <2>1, QuantizeInt
  <2>3. wallet' = Moved(b.amount) /\ RowsTyped
    BY <1>2, <1>3
  <2>4. wallet'[w].balance = wallet[w].balance + Quantize(b.amount[w])
    BY <2>1, <2>3, CentsMoved
  <2> QED BY <2>2, <2>4
<1>5. ReceivedEntries' = ReceivedEntries \cup {n}
  <2>1. \A d \in DOMAIN entries : entries[d].mergedInto # n
    BY <1>1, <1>3 DEF MergersExist
  <2>2. \A e \in DOMAIN entries' : entries'[n].mergedInto # e
    BY <1>1, <1>3
  <2> QED BY <1>1, <2>1, <2>2 DEF ReceivedEntries
<1>6. RefundedEntries' = RefundedEntries
  BY <1>1 DEF RefundedEntries
<1>7. Back(w)' = Back(w)
  <2>1. RefundedEntries \subseteq DOMAIN entries
    BY DEF RefundedEntries
  <2>2. [e \in RefundedEntries' |-> entries'[e].amount[w]] = [e \in RefundedEntries |-> entries[e].amount[w]]
    BY <1>1, <1>6, <2>1
  <2> QED BY <2>2 DEF Back, OnWallet
<1>8. In(w)' = In(w) + Quantize(b.amount[w])
  <2>1. PICK f : f = OnWallet(ReceivedEntries, w)
    OBVIOUS
  <2>2. PICK g : g = OnWallet(ReceivedEntries, w)'
    OBVIOUS
  <2>3. PICK S : S = ReceivedEntries
    OBVIOUS
  <2>4. DOMAIN f = S /\ DOMAIN g = S \cup {n} /\ n \notin S /\ SameOn(f, g, S)
        /\ g[n] = Quantize(b.amount[w])
    <3>1. S \subseteq DOMAIN entries
      BY <2>3 DEF ReceivedEntries
    <3>2. f = [e \in S |-> entries[e].amount[w]]
      BY <2>1, <2>3 DEF OnWallet
    <3>3. g = [e \in S \cup {n} |-> entries'[e].amount[w]]
      BY <1>5, <2>2, <2>3 DEF OnWallet
    <3> QED BY <1>1, <3>1, <3>2, <3>3 DEF SameOn
  <2>5. NumbersOn(f, S) /\ IsFiniteSet(S)
    BY <1>3, <2>1, <2>3, BooksTyped
  <2>6. SumFunction(g) = SumFunction(f) + g[n]
    <3>1. g[n] \in Int
      BY <1>4, <2>4
    <3>2. DOMAIN f = S /\ DOMAIN g = S \cup {n} /\ n \notin S /\ SameOn(f, g, S)
      BY <2>4
    <3> QED BY <2>5, <3>1, <3>2, TotalGrown
  <2>7. In(w)' = SumFunction(g)
    BY <2>2 DEF In, OnWallet
  <2>8. In(w) = SumFunction(f)
    BY <2>1 DEF In
  <2> QED BY <2>4, <2>6, <2>7, <2>8
<1>9. Out(w)' = Out(w)
  BY <1>2, OrdersSame
<1>10. In(w) \in Int /\ Back(w) \in Int /\ Out(w) \in Int
       /\ wallet[w].balance \in Nat /\ Opening[w].balance \in Nat
  BY <1>3, BooksTyped
<1>11. wallet'[w].balance = Opening[w].balance + (In(w) + Quantize(b.amount[w])) - Back(w) - Out(w)
  BY <1>4, <1>10 DEF Books
<1>12. Bears(w)'
  <2>1. \A d \in DOMAIN entries' : entries'[d].mergedInto \in DOMAIN entries \cup {0}
    BY <1>1 DEF MergersExist
  <2>2. \A e \in DOMAIN entries' : (\E d \in DOMAIN entries' : entries'[d].mergedInto = e) =>
          e \in DOMAIN entries /\ \E d \in DOMAIN entries : entries[d].mergedInto = e
    BY <1>1, <1>3, <2>1
  <2> QED BY <1>1, <2>2 DEF Bears
<1> QED BY <1>7, <1>8, <1>9, <1>11, <1>12 DEF Books

LEMMA MergedBooks ==
  ASSUME IInv, IInv', RaceInv, LinesInv, NEW r \in Requests, CommitMerge(r), Overtakes(r),
         NEW w \in Wallets, Clean(w)', Books(w), Bears(w)
  PROVE  Books(w)' /\ Bears(w)'
<1>n. PICK n : n = Len(entries) + 1
  OBVIOUS
<1>0. PICK q \in Transaction : q = request[r] /\ LinesOf(q)
  BY DEF IInv, RequestsHold, LinesInv
<1>1. /\ n \notin DOMAIN entries /\ DOMAIN entries' = DOMAIN entries \cup {n}
      /\ q.sources # {} /\ q.sources \subseteq DOMAIN entries
      /\ \A e \in DOMAIN entries :
           /\ entries'[e].amount = entries[e].amount
           /\ entries'[e].status = entries[e].status
           /\ entries'[e].mergedInto = IF e \in q.sources THEN n ELSE entries[e].mergedInto
      /\ entries'[n].mergedInto = 0 /\ entries'[n].status = "unallocated"
      /\ entries'[n].amount = q.lines
  BY <1>n, <1>0, MergedEntry
<1>2. n # 0 /\ 0 \notin DOMAIN entries
  BY <1>n, RowsAreRecords DEF IInv
<1>3. q.does = "merge" /\ UNCHANGED <<wallet, orders>>
  BY <1>0 DEF CommitMerge
<1>4. ASSUME NEW d \in q.sources PROVE entries[d].mergedInto = 0 \/ entries[d].amount[w] = 0
  <2>1. CASE r \notin staleEntries
    BY <1>0, <1>3, <2>1 DEF RaceInv, EntriesRead, MergingCurrent, Usable
  <2>2. CASE r \in staleEntries
    <3>1. EntriesOf(q) = q.sources
      BY <1>3, EntriesOfEach
    <3>2. d \in racedEntries'
      BY <1>0, <2>2, <3>1, Overtaken
    <3> QED BY <1>1, <3>2 DEF Clean
  <2> QED BY <2>1, <2>2
<1>5. ASSUME NEW e \in DOMAIN entries, NEW d \in DOMAIN entries,
             entries[d].mergedInto = e, entries[d].amount[w] # 0
      PROVE  entries'[d].mergedInto = e /\ entries'[d].amount[w] # 0
  BY <1>1, <1>2, <1>4, <1>5
<1>6. ASSUME NEW e \in DOMAIN entries, NEW d \in DOMAIN entries', entries'[d].mergedInto = e
      PROVE  d \in DOMAIN entries /\ entries[d].mergedInto = e
  BY <1>1, <1>2, <1>6
<1>7. ASSUME NEW e \in DOMAIN entries', entries'[e].amount[w] # 0
      PROVE  e \in ReceivedEntries <=> e \in ReceivedEntries'
  <2>1. CASE e = n
    BY <1>1, <2>1 DEF ReceivedEntries
  <2>2. CASE e \in DOMAIN entries
    <3>1. CASE e \in ReceivedEntries
      BY <1>6, <1>7, <2>2, <3>1 DEF ReceivedEntries
    <3>2. CASE e \notin ReceivedEntries
      <4>1. PICK d \in DOMAIN entries : entries[d].mergedInto = e /\ entries[d].amount[w] # 0
        BY <1>1, <1>7, <2>2, <3>2 DEF ReceivedEntries, Bears
      <4>2. d \in DOMAIN entries' /\ entries'[d].mergedInto = e
        BY <1>1, <1>5, <2>2, <4>1
      <4> QED BY <3>2, <4>2 DEF ReceivedEntries
    <3> QED BY <3>1, <3>2
  <2> QED BY <1>1, <2>1, <2>2
<1>8. Bears(w)'
  <2> SUFFICES ASSUME NEW e \in DOMAIN entries', entries'[e].amount[w] # 0,
                      NEW d \in DOMAIN entries', entries'[d].mergedInto = e
               PROVE  \E s \in DOMAIN entries' :
                        entries'[s].mergedInto = e /\ entries'[s].amount[w] # 0
    BY DEF Bears
  <2>1. CASE e = n
    <3>1. PICK s \in q.sources : entries[s].amount[w] # 0
      BY <1>0, <1>1, <1>3, <2>1 DEF LinesOf
    <3> QED BY <1>1, <2>1, <3>1
  <2>2. CASE e \in DOMAIN entries
    <3>1. d \in DOMAIN entries /\ entries[d].mergedInto = e
      BY <1>6, <2>2
    <3>2. PICK s \in DOMAIN entries : entries[s].mergedInto = e /\ entries[s].amount[w] # 0
      BY <1>1, <2>2, <3>1 DEF Bears
    <3> QED BY <1>1, <1>5, <2>2, <3>2
  <2> QED BY <1>1, <2>1, <2>2
<1>9. RefundedEntries' = RefundedEntries
  BY <1>1 DEF RefundedEntries
<1>10. In(w)' = In(w) /\ Back(w)' = Back(w)
  BY <1>1, <1>7, <1>9, InSame, BackSame
<1>11. Out(w)' = Out(w)
  BY <1>3, OrdersSame
<1> QED BY <1>3, <1>8, <1>10, <1>11 DEF Books

LEMMA RefundedBooks ==
  ASSUME IInv, IInv', RaceInv, LinesInv, NEW r \in Requests, CommitRefund(r), Overtakes(r),
         NEW w \in Wallets, Clean(w)', Books(w), Bears(w)
  PROVE  Books(w)' /\ Bears(w)'
<1>0. PICK q \in Transaction : q = request[r] /\ LinesOf(q) /\ RequestHolds(q)
  BY DEF IInv, RequestsHold, LinesInv
<1>n. PICK n : n = q.id
  OBVIOUS
<1> DEFINE back == [v \in Wallets |-> -Exact(q.lines[v])]
<1>1. /\ q.does = "refund" /\ wallet' = Moved(back)
      /\ entries' = [entries EXCEPT ![n].status = "cancelled"]
      /\ UNCHANGED orders
  BY <1>0, <1>n DEF CommitRefund
<1>2. n \in DOMAIN entries /\ q.lines = entries[n].amount
  BY <1>0, <1>n, <1>1 DEF RequestHolds, LinesOf
<1>3. RowsTyped
  BY DEF IInv
<1>4. /\ DOMAIN entries' = DOMAIN entries
      /\ \A e \in DOMAIN entries : /\ entries'[e].amount = entries[e].amount
                                   /\ entries'[e].mergedInto = entries[e].mergedInto
                                   /\ e # n => entries'[e].status = entries[e].status
      /\ entries'[n].status = "cancelled"
  <2>1. \A e \in DOMAIN entries : entries[e] \in Entry
    BY <1>3, RowsAreRecords
  <2> QED BY <1>1, <1>2, <2>1 DEF Entry
<1>5. PICK cents : cents = entries[n].amount[w]
  OBVIOUS
<1>6. cents \in Nat /\ q.lines[w] = cents
  BY <1>2, <1>3, <1>5, RowsAreRecords DEF Lines
<1>7. wallet'[w].balance = wallet[w].balance - cents
  <2>1. back[w] = -Exact(cents)
    BY <1>6
  <2>2. -Exact(cents) = Exact(-cents) /\ -Exact(cents) \in Int
    BY <1>6, SubUnitsAssumption DEF Exact
  <2>3. Quantize(-Exact(cents)) = -cents
    BY <1>6, <2>2, QuantizeExact
  <2> HIDE DEF back
  <2>4. wallet'[w].balance = wallet[w].balance + Quantize(back[w])
    BY <1>1, <1>3, <2>1, <2>2, CentsMoved
  <2>5. wallet[w].balance \in Nat
    BY <1>3, BooksTyped
  <2> QED BY <1>6, <2>1, <2>3, <2>4, <2>5
<1>8. ReceivedEntries' = ReceivedEntries
  BY <1>4 DEF ReceivedEntries
<1>9. RefundedEntries' = RefundedEntries \cup {n}
  BY <1>2, <1>4 DEF RefundedEntries
<1>15. n \in RefundedEntries => cents = 0
  <2>1. CASE r \notin staleEntries
    BY <1>0, <1>n, <1>1, <2>1 DEF RaceInv, EntriesRead, Usable, RefundedEntries, MERGEABLE_STATUSES
  <2>2. CASE r \in staleEntries
    <3>1. EntriesOf(q) = {n}
      BY <1>n, <1>1, EntriesOfEach
    <3>2. n \in racedEntries'
      BY <1>0, <2>2, <3>1, Overtaken
    <3> QED BY <1>2, <1>4, <1>5, <3>2 DEF Clean
  <2> QED BY <2>1, <2>2
<1>16. Bears(w)'
  BY <1>4, BearsKept
<1>10. In(w)' = In(w)
  <2>1. ReceivedEntries \subseteq DOMAIN entries
    BY DEF ReceivedEntries
  <2>2. [e \in ReceivedEntries' |-> entries'[e].amount[w]] = [e \in ReceivedEntries |-> entries[e].amount[w]]
    BY <1>4, <1>8, <2>1
  <2> QED BY <2>2 DEF In, OnWallet
<1>11. ASSUME n \notin RefundedEntries PROVE Back(w)' = Back(w) + cents
  <2>1. PICK f : f = OnWallet(RefundedEntries, w)
    OBVIOUS
  <2>2. PICK g : g = OnWallet(RefundedEntries, w)'
    OBVIOUS
  <2>3. PICK S : S = RefundedEntries
    OBVIOUS
  <2>4. DOMAIN f = S /\ DOMAIN g = S \cup {n} /\ n \notin S /\ SameOn(f, g, S) /\ g[n] = cents
    <3>1. S \subseteq DOMAIN entries
      BY <2>3 DEF RefundedEntries
    <3>2. f = [e \in S |-> entries[e].amount[w]]
      BY <2>1, <2>3 DEF OnWallet
    <3>3. g = [e \in S \cup {n} |-> entries'[e].amount[w]]
      BY <1>9, <2>2, <2>3 DEF OnWallet
    <3> QED BY <1>2, <1>4, <1>5, <1>9, <1>11, <2>3, <3>1, <3>2, <3>3 DEF SameOn
  <2>5. NumbersOn(f, S) /\ IsFiniteSet(S)
    BY <1>3, <2>1, <2>3, BooksTyped
  <2>6. SumFunction(g) = SumFunction(f) + g[n]
    <3>1. g[n] \in Int
      BY <1>6, <2>4
    <3> QED BY <2>4, <2>5, <3>1, TotalGrown
  <2>7. Back(w)' = SumFunction(g)
    BY <2>2 DEF Back, OnWallet
  <2>8. Back(w) = SumFunction(f)
    BY <2>1 DEF Back
  <2> QED BY <2>4, <2>6, <2>7, <2>8
<1>17. ASSUME n \in RefundedEntries PROVE Back(w)' = Back(w)
  <2>1. RefundedEntries' = RefundedEntries
    BY <1>9, <1>17
  <2> QED BY <1>4, <2>1, BackSame
<1>18. (n \notin RefundedEntries => Back(w)' = Back(w) + cents)
       /\ (n \in RefundedEntries => Back(w)' = Back(w))
  BY <1>11, <1>17
<1>12. Out(w)' = Out(w)
  BY <1>1, OrdersSame
<1>13. In(w) \in Int /\ Back(w) \in Int /\ Out(w) \in Int
       /\ wallet[w].balance \in Nat /\ Opening[w].balance \in Nat
  BY <1>3, BooksTyped
<1>14. wallet'[w].balance = Opening[w].balance + In(w) - (Back(w) + cents) - Out(w)
  BY <1>6, <1>7, <1>13 DEF Books
<1>19. Back(w)' = Back(w) + cents
  BY <1>13, <1>15, <1>18
<1> QED BY <1>10, <1>12, <1>14, <1>16, <1>19 DEF Books

LEMMA ApprovedBooks ==
  ASSUME RowsTyped, NEW o \in DOMAIN orders, orders[o].status # "approved",
         NEW row, row.status = "approved", orders' = [orders EXCEPT ![o] = row],
         UNCHANGED entries,
         NEW cents \in Nat, cents = IF row.kind = "transfer" THEN row.converted ELSE row.amount,
         IF row.wallet \in Wallets THEN wallet' = Moved(Outgoing(row.wallet, cents))
                                   ELSE wallet' = wallet,
         NEW w \in Wallets, Books(w)
  PROVE  Books(w)'
<1>1. In(w)' = In(w) /\ Back(w)' = Back(w)
  BY RowsSame
<1>2. /\ DOMAIN orders' = DOMAIN orders /\ orders'[o] = row
      /\ \A p \in DOMAIN orders : p # o => orders'[p] = orders[p]
  OBVIOUS
<1>3. In(w) \in Int /\ Back(w) \in Int /\ Out(w) \in Int
      /\ wallet[w].balance \in Nat /\ Opening[w].balance \in Nat
  BY BooksTyped
<1>4. CASE row.wallet = w
  <2>1. wallet' = Moved(Outgoing(w, cents))
    BY <1>4
  <2>2. wallet'[w].balance = wallet[w].balance - cents
    <3>1. Outgoing(w, cents)[w] = -Exact(cents)
      BY DEF Outgoing
    <3>2. -Exact(cents) = Exact(-cents) /\ -Exact(cents) \in Int
      BY SubUnitsAssumption DEF Exact
    <3>3. Quantize(-Exact(cents)) = -cents
      BY <3>2, QuantizeExact
    <3>4. wallet'[w].balance = wallet[w].balance + Quantize(Outgoing(w, cents)[w])
      BY <2>1, <3>1, <3>2, CentsMoved
    <3> QED BY <1>3, <3>1, <3>3, <3>4
  <2>3. PaidFrom(w)' = PaidFrom(w) \cup {o} /\ o \notin PaidFrom(w)
    BY <1>2, <1>4 DEF PaidFrom
  <2>4. Out(w)' = Out(w) + cents
    <3>1. PICK f : f = CostOf(PaidFrom(w))
      OBVIOUS
    <3>2. PICK g : g = CostOf(PaidFrom(w))'
      OBVIOUS
    <3>3. PICK S : S = PaidFrom(w)
      OBVIOUS
    <3>4. DOMAIN f = S /\ DOMAIN g = S \cup {o} /\ o \notin S /\ SameOn(f, g, S) /\ g[o] = cents
      <4>1. S \subseteq DOMAIN orders
        BY <3>3 DEF PaidFrom
      <4>2. f = [p \in S |-> IF orders[p].kind = "transfer" THEN orders[p].converted ELSE orders[p].amount]
        BY <3>1, <3>3 DEF CostOf, Cost
      <4>3. g = [p \in S \cup {o} |->
                   IF orders'[p].kind = "transfer" THEN orders'[p].converted ELSE orders'[p].amount]
        BY <2>3, <3>2, <3>3 DEF CostOf, Cost
      <4>4. g[o] = cents
        BY <1>2, <4>3
      <4>5. \A p \in S : orders'[p] = orders[p]
        BY <1>2, <2>3, <3>3, <4>1
      <4> QED BY <2>3, <3>3, <4>2, <4>3, <4>4, <4>5 DEF SameOn
    <3>5. NumbersOn(f, S) /\ IsFiniteSet(S)
      BY <3>1, <3>3, BooksTyped
    <3>6. SumFunction(g) = SumFunction(f) + g[o]
      <4>1. g[o] \in Int
        BY <3>4
      <4>2. DOMAIN f = S /\ DOMAIN g = S \cup {o} /\ o \notin S /\ SameOn(f, g, S)
        BY <3>4
      <4> QED BY <3>5, <4>1, <4>2, TotalGrown
    <3>7. Out(w)' = SumFunction(g)
      BY <3>2 DEF Out, CostOf
    <3>8. Out(w) = SumFunction(f)
      BY <3>1 DEF Out
    <3> QED BY <3>4, <3>6, <3>7, <3>8
  <2>5. wallet'[w].balance = Opening[w].balance + In(w) - Back(w) - (Out(w) + cents)
    BY <1>3, <2>2 DEF Books
  <2> QED BY <1>1, <2>4, <2>5 DEF Books
<1>5. CASE row.wallet # w
  <2>1. wallet'[w] = wallet[w]
    <3>1. CASE row.wallet \in Wallets
      BY <1>5, <3>1 DEF Moved, Outgoing
    <3>2. CASE row.wallet \notin Wallets
      BY <3>2
    <3> QED BY <3>1, <3>2
  <2>2. PaidFrom(w)' = PaidFrom(w) /\ \A p \in PaidFrom(w) : orders'[p] = orders[p]
    BY <1>2, <1>5 DEF PaidFrom
  <2>3. Out(w)' = Out(w)
    BY <2>2, CostsSame
  <2> QED BY <1>1, <2>1, <2>3 DEF Books
<1> QED BY <1>4, <1>5

LEMMA OrderBooks ==
  ASSUME IInv, IInv', RaceInv, LinesInv, NEW r \in Requests, CommitOrder(r) \/ CommitClose(r),
         Overtakes(r), NEW w \in Wallets, Clean(w)', Books(w), Bears(w)
  PROVE  Books(w)' /\ Bears(w)'
<1>1. PICK q \in Transaction : q = request[r] /\ RequestHolds(q) /\ LinesOf(q)
  BY DEF IInv, RequestsHold, LinesInv
<1>2. /\ RowsTyped /\ q.order.entry \in 0 .. Len(entries)
      /\ q.entryStatus \in EntryStatuses \cup {"kept"}
      /\ q.entryStatus # "kept" => q.order.entry # 0
      /\ EntryMarked(q.order.entry, q.entryStatus) /\ UNCHANGED wallet
  BY <1>1, OrderWritten
<1>3. q.entryStatus # "cancelled"
  BY <1>1 DEF LinesOf, CommitOrder, CommitClose
<1>4. /\ DOMAIN entries' = DOMAIN entries
      /\ \A d \in DOMAIN entries : /\ entries'[d].amount = entries[d].amount
                                   /\ entries'[d].mergedInto = entries[d].mergedInto
  BY <1>2, MarkedRest
<1>5. ReceivedEntries' = ReceivedEntries
  BY <1>4 DEF ReceivedEntries
<1>6. ASSUME NEW e \in DOMAIN entries', entries'[e].amount[w] # 0
      PROVE  e \in RefundedEntries <=> e \in RefundedEntries'
  <2>1. entries'[e].status = "cancelled" => entries[e].status = "cancelled"
    BY <1>2, <1>3, <1>4, MarkedEntries
  <2>2. entries[e].status = "cancelled" /\ entries'[e].status # "cancelled" => e \in reopened'
    BY <1>4, Overtaken
  <2>3. e \notin reopened'
    BY <1>6 DEF Clean
  <2> QED BY <1>4, <2>1, <2>2, <2>3 DEF RefundedEntries
<1>7. PaidFrom(w)' = PaidFrom(w) /\ \A o \in PaidFrom(w) : orders'[o] = orders[o]
  <2>1. orders \in Seq(Order) /\ Len(orders) \in Nat /\ DOMAIN orders = 1 .. Len(orders)
        /\ \A o \in DOMAIN orders : orders[o] \in Order
    BY <1>2, RowsAreRecords DEF RowsTyped
  <2>2. CASE CommitOrder(r)
    <3>1. orders' = Append(orders, q.order) /\ q.order.status = "pending" /\ q.order \in Order
      BY <1>1, <2>2 DEF CommitOrder, RequestHolds, CreationHolds, Transaction
    <3>2. /\ DOMAIN orders' = DOMAIN orders \cup {Len(orders) + 1} /\ orders'[Len(orders) + 1] = q.order
          /\ \A o \in DOMAIN orders : orders'[o] = orders[o]
      BY <2>1, <3>1, SequenceAppended
    <3> QED BY <3>1, <3>2 DEF PaidFrom
  <2>3. CASE CommitClose(r)
    <3>1. /\ q.id \in DOMAIN orders /\ orders[q.id].status = "pending"
          /\ q.order.status \in Verdicts
          /\ orders' = [orders EXCEPT ![q.id].status = q.order.status]
      BY <1>1, <2>3 DEF CommitClose, RequestHolds, ClosingHolds
    <3>2. /\ DOMAIN orders' = DOMAIN orders
          /\ \A o \in DOMAIN orders : o # q.id => orders'[o] = orders[o]
          /\ orders'[q.id].status = q.order.status
      BY <2>1, <3>1 DEF Order
    <3> QED BY <3>1, <3>2 DEF PaidFrom, Verdicts
  <2> QED BY <2>2, <2>3
<1>8. In(w)' = In(w) /\ Back(w)' = Back(w) /\ Out(w)' = Out(w)
  <2>1. In(w)' = In(w)
    BY <1>4, <1>5, InSame
  <2>2. Back(w)' = Back(w)
    BY <1>4, <1>6, BackSame
  <2>3. Out(w)' = Out(w)
    BY <1>7, CostsSame
  <2> QED BY <2>1, <2>2, <2>3
<1>9. Bears(w)'
  BY <1>4, BearsKept
<1> QED BY <1>2, <1>8, <1>9 DEF Books

LEMMA BooksKept ==
  ASSUME UNCHANGED <<wallet, entries, orders>>, NEW w, Books(w), Bears(w)
  PROVE  Books(w)' /\ Bears(w)'
<1>1. Books(w)'
  BY RowsSame, OrdersSame DEF Books
<1>2. Bears(w)'
  BY BearsKept
<1> QED BY <1>1, <1>2

\* Entries stay, with their lines.
LEMMA EntriesStay ==
  ASSUME IInv, [Next]_vars
  PROVE  /\ DOMAIN entries \subseteq DOMAIN entries'
         /\ \A e \in DOMAIN entries : entries'[e].amount = entries[e].amount
<1>0. ASSUME UNCHANGED entries
      PROVE  /\ DOMAIN entries \subseteq DOMAIN entries'
             /\ \A e \in DOMAIN entries : entries'[e].amount = entries[e].amount
  BY <1>0
<1>1. ASSUME NEW b \in Receipts, CreateEntry(b)
      PROVE  /\ DOMAIN entries \subseteq DOMAIN entries'
             /\ \A e \in DOMAIN entries : entries'[e].amount = entries[e].amount
  <2>1. PICK n : n = Len(entries) + 1
    OBVIOUS
  <2>2. DOMAIN entries' = DOMAIN entries \cup {n} /\ \A e \in DOMAIN entries : entries'[e] = entries[e]
    BY <1>1, <2>1, CreatedEntry
  <2> QED BY <2>2
<1>2. ASSUME NEW r \in Requests, CommitOrder(r) \/ CommitClose(r)
      PROVE  /\ DOMAIN entries \subseteq DOMAIN entries'
             /\ \A e \in DOMAIN entries : entries'[e].amount = entries[e].amount
  <2>1. PICK e \in 0 .. Len(entries), status \in EntryStatuses \cup {"kept"} :
          (status # "kept" => e # 0) /\ EntryMarked(e, status)
    BY <1>2, OrderWritten
  <2> QED BY <2>1, MarkedEntries DEF IInv
<1>3. ASSUME NEW r \in Requests, CommitMerge(r)
      PROVE  /\ DOMAIN entries \subseteq DOMAIN entries'
             /\ \A e \in DOMAIN entries : entries'[e].amount = entries[e].amount
  <2>1. PICK n : n = Len(entries) + 1
    OBVIOUS
  <2>2. DOMAIN entries' = DOMAIN entries \cup {n}
        /\ \A e \in DOMAIN entries : entries'[e].amount = entries[e].amount
    BY <1>3, <2>1, MergedEntry
  <2> QED BY <2>2
<1>4. ASSUME NEW r \in Requests, CommitRefund(r)
      PROVE  /\ DOMAIN entries \subseteq DOMAIN entries'
             /\ \A e \in DOMAIN entries : entries'[e].amount = entries[e].amount
  <2>1. entries' = [entries EXCEPT ![request[r].id].status = "cancelled"]
    BY <1>4 DEF CommitRefund
  <2>2. \A e \in DOMAIN entries : entries[e] \in Entry
    BY RowsAreRecords DEF IInv
  <2> QED BY <2>1, <2>2 DEF Entry
<1>5. CASE UNCHANGED vars
  BY <1>0, <1>5 DEF vars
<1>6. ASSUME NEW r \in Requests, Start(r) PROVE UNCHANGED entries
  BY <1>6, StartsLeaveEntries
<1>7. ASSUME NEW r \in Requests, ReadClient(r) \/ Abort(r) PROVE UNCHANGED entries
  BY <1>7 DEF ReadClient, Abort
<1>8. ASSUME NEW o \in DOMAIN orders, NEW w \in Wallets, ApproveTransfer(o, w) \/ ApprovePayment(o)
      PROVE  UNCHANGED entries
  BY <1>8 DEF ApproveTransfer, ApprovePayment
<1>9. ASSUME NEW o \in DOMAIN orders, ApprovePayment(o) PROVE UNCHANGED entries
  BY <1>9 DEF ApprovePayment
<1> QED BY <1>0, <1>1, <1>2, <1>3, <1>4, <1>5, <1>6, <1>7, <1>8, <1>9 DEF Next

---------------------------------------------------------------------------
(* Steps of requests, and the wallets' books.                              *)

\* An approval takes from the wallet what the order then counts as paid.
LEMMA TransferBooks ==
  ASSUME IInv, NEW o \in DOMAIN orders, NEW v \in Wallets, ApproveTransfer(o, v),
         NEW w \in Wallets, Books(w)
  PROVE  Books(w)'
<1> DEFINE row == [orders[o] EXCEPT !.status = "approved", !.wallet = v]
<1>1. orders[o] \in Order /\ RowsTyped
  BY RowsAreRecords DEF IInv
<1>2. /\ row.status = "approved" /\ row.wallet = v /\ row.converted = orders[o].converted
      /\ row.kind = orders[o].kind /\ orders[o].converted \in Nat
  BY <1>1 DEF Order
<1>3. orders' = [orders EXCEPT ![o] = row]
  BY DEF ApproveTransfer
<1>4. /\ orders[o].kind = "transfer" /\ orders[o].status = "pending" /\ UNCHANGED entries
      /\ wallet' = Moved(Outgoing(v, orders[o].converted))
  BY DEF ApproveTransfer, Decidable
<1> HIDE DEF row
<1> QED BY <1>1, <1>2, <1>3, <1>4, ApprovedBooks

LEMMA PaymentBooks ==
  ASSUME IInv, NEW o \in DOMAIN orders, ApprovePayment(o), NEW w \in Wallets, Books(w)
  PROVE  Books(w)'
<1> DEFINE row == [orders[o] EXCEPT !.status = "approved"]
<1>1. orders[o] \in Order /\ RowsTyped
  BY RowsAreRecords DEF IInv
<1>2. /\ row.status = "approved" /\ row.wallet = orders[o].wallet /\ row.amount = orders[o].amount
      /\ row.kind = orders[o].kind /\ orders[o].amount \in Nat
      /\ orders[o].wallet \in Wallets \cup {NoWalletChosen}
  BY <1>1 DEF Order
<1>3. orders' = [orders EXCEPT ![o] = row]
  BY DEF ApprovePayment
<1>4. /\ orders[o].kind = "payment" /\ orders[o].status = "pending" /\ UNCHANGED entries
      /\ IF orders[o].wallet = NoWalletChosen THEN wallet' = wallet
         ELSE wallet' = Moved(Outgoing(orders[o].wallet, orders[o].amount))
  BY DEF ApprovePayment, Decidable
<1>5. orders[o].wallet \in Wallets <=> orders[o].wallet # NoWalletChosen
  BY <1>2, PartiesAssumption
<1> HIDE DEF row
<1>6. IF row.wallet \in Wallets THEN wallet' = Moved(Outgoing(row.wallet, row.amount))
                                ELSE wallet' = wallet
  BY <1>2, <1>4, <1>5
<1>7. row.amount \in Nat /\ row.kind # "transfer"
  BY <1>2, <1>4
<1>8. row.amount = IF row.kind = "transfer" THEN row.converted ELSE row.amount
  BY <1>7
<1>9. orders[o].status # "approved"
  BY <1>4
<1> QED BY <1>1, <1>2, <1>3, <1>4, <1>6, <1>7, <1>8, <1>9, ApprovedBooks

LEMMA IdleLines == ASSUME NEW q, q.does = "nothing" PROVE LinesOf(q)
BY DEF LinesOf

\* Lines never change, so what a request read of them is what they are.
LEMMA LinesKept ==
  ASSUME RequestsHold, \A s \in Requests : LinesOf(request[s]),
         DOMAIN entries \subseteq DOMAIN entries',
         \A e \in DOMAIN entries : entries'[e].amount = entries[e].amount,
         \A s \in Requests : request'[s] = request[s] \/ request'[s] = Idle
  PROVE  (\A s \in Requests : LinesOf(request[s]))'
<1> SUFFICES ASSUME NEW s \in Requests PROVE LinesOf(request[s])'
  OBVIOUS
<1>1. CASE request'[s] = Idle
  BY <1>1, IdleTyped DEF LinesOf
<1>2. CASE request'[s] = request[s]
  <2>1. PICK q : q = request[s] /\ q = request'[s] /\ RequestHolds(q) /\ LinesOf(q)
    BY <1>2 DEF RequestsHold
  <2>2. LinesOf(q)'
    BY <2>1 DEF RequestHolds, LinesOf
  <2> QED BY <2>1, <2>2 DEF LinesOf
<1> QED BY <1>1, <1>2

\* A request begins, or goes on, with the lines it has just read.
LEMMA LinesBegun ==
  ASSUME RequestsHold, LinesInv, UNCHANGED entries, NEW r \in Requests, NEW q, LinesOf(q),
         request' = [request EXCEPT ![r] = q]
  PROVE  LinesInv'
<1>1. \A s \in Requests : request'[s] = request[s] \/ request'[s] = q
  BY DEF RequestsHold
<1>2. \A s \in Requests : LinesOf(request'[s])
  BY <1>1 DEF LinesInv
<1>3. MergersExist'
  BY DEF LinesInv, MergersExist
<1> QED BY <1>2, <1>3 DEF LinesInv, LinesOf

\* A status computed from lines and allocations is never "cancelled".
LEMMA StatusIsFresh == \A e, rows : StatusUpdate(e, rows) # "cancelled"
BY StatusTyped DEF StatusUpdate, MERGEABLE_STATUSES

LEMMA OrderLines ==
  ASSUME IInv, LinesInv, NEW r \in Requests, NEW b \in Bodies, NEW e \in 0 .. Len(entries),
         NEW target, NEW converted, NEW settles, NEW chosen,
         StartOrder(r, b, e, target, converted, settles, chosen)
  PROVE  LinesInv'
<1>1. PICK q : /\ request' = [request EXCEPT ![r] = q]
               /\ q.does = "create"
               /\ q.entryStatus = "kept" \/ \E k, rows : q.entryStatus = StatusUpdate(k, rows)
  <2> DEFINE allocated == Allocated(b, e)
             delta == ClientDelta(b, e)
             row == [entry |-> e, order |-> Len(orders) + 1,
                     currency |-> b.currency, amount |-> allocated]
             order == [kind |-> b.kind, company |-> b.company, entry |-> e,
                       phone |-> IF delta = 0 THEN NoPhone ELSE ClientOf(b, e),
                       amount |-> Quantize(b.amount), currency |-> b.currency,
                       target |-> target, converted |-> converted,
                       settles |-> settles, wallet |-> chosen, status |-> "pending"]
             stage == IF delta = 0 THEN "writing" ELSE "reading"
             status == IF allocated = 0 THEN "kept"
                       ELSE StatusUpdate(e, AllocationsOf(e) \cup {row})
             q == [Idle EXCEPT !.does = "create", !.stage = stage, !.order = order,
                               !.allocation = allocated, !.delta = delta,
                               !.entryStatus = status]
  <2>1. request' = [request EXCEPT ![r] = q]
    BY DEF StartOrder
  <2>2. status = "kept" \/ \E k, rows : status = StatusUpdate(k, rows)
    OBVIOUS
  <2> HIDE DEF allocated, delta, row, order, stage, status
  <2>3. q.does = "create" /\ q.entryStatus = status
    BY DEF Idle
  <2> HIDE DEF q
  <2> QED BY <2>1, <2>2, <2>3
<1>2. LinesOf(q)
  BY <1>1, StatusIsFresh DEF LinesOf
<1>3. UNCHANGED entries
  BY DEF StartOrder
<1> QED BY <1>1, <1>2, <1>3, LinesBegun DEF IInv

LEMMA MergeLines ==
  ASSUME IInv, LinesInv, NEW r \in Requests, NEW sources \in SUBSET DOMAIN entries,
         StartMerge(r, sources)
  PROVE  LinesInv'
<1>1. PICK rest \in [sources -> UNION {Remainders(entries[e].amount, AllocationsOf(e)) : e \in sources}] :
                  /\ \A e \in sources : rest[e] \in Remainders(entries[e].amount, AllocationsOf(e))
                  /\ request' = [request EXCEPT ![r] =
                       [Idle EXCEPT !.does = "merge", !.stage = "writing", !.sources = sources,
                                    !.lines = [w \in Wallets |->
                                                 SumFunction([e \in sources |-> rest[e][w]])]]]
  BY Zenon DEF StartMerge
<1> DEFINE lines == [w \in Wallets |-> SumFunction([e \in sources |-> rest[e][w]])]
           q == [Idle EXCEPT !.does = "merge", !.stage = "writing", !.sources = sources, !.lines = lines]
<1>2. \A w \in Wallets : lines[w] = SumFunction([e \in sources |-> rest[e][w]])
  OBVIOUS
<1>3. request' = [request EXCEPT ![r] = q]
  BY <1>1
<1> HIDE DEF lines
<1>4. q.does = "merge" /\ q.sources = sources /\ q.lines = lines
  BY DEF Idle
<1> HIDE DEF q
<1>5. ASSUME NEW w \in Wallets, \A e \in sources : entries[e].amount[w] = 0 PROVE lines[w] = 0
  <2>1. IsFiniteSet(sources) /\ \A e \in sources : entries[e].amount \in Lines
    <3>1. IsFiniteSet(DOMAIN entries)
      BY RowsAreRecords, FS_Interval DEF IInv
    <3> QED BY <3>1, FS_Subset, RowsAreRecords DEF IInv
  <2>2. ASSUME NEW e \in sources PROVE rest[e][w] = 0
    <3>1. rest[e] \in Remainders(entries[e].amount, AllocationsOf(e))
      BY <1>1
    <3>2. rest[e] \in Lines
      BY <2>1, <3>1, RemaindersTyped
    <3>3. rest[e][w] <= entries[e].amount[w]
      BY <3>1 DEF Remainders
    <3> QED BY <1>5, <3>2, <3>3 DEF Lines
  <2> DEFINE f == [e \in sources |-> rest[e][w]]
  <2>3. DOMAIN f = sources /\ \A e \in sources : f[e] = 0
    BY <2>2
  <2>4. lines[w] = SumFunction(f)
    BY <1>2
  <2> HIDE DEF f
  <2>5. SumFunctionOnSet(f, sources) = 0
    BY <2>1, <2>3, SumOfZeros
  <2> QED BY <2>3, <2>4, <2>5 DEF SumFunction
<1>6. LinesOf(q)
  BY <1>4, <1>5 DEF LinesOf
<1>7. UNCHANGED entries
  BY DEF StartMerge
<1> QED BY <1>3, <1>6, <1>7, LinesBegun DEF IInv

LEMMA RefundLines ==
  ASSUME IInv, LinesInv, NEW r \in Requests, NEW e \in DOMAIN entries, StartRefund(r, e)
  PROVE  LinesInv'
<1> DEFINE lines == entries[e].amount
           q == [Idle EXCEPT !.does = "refund", !.stage = "writing", !.id = e, !.lines = lines]
<1>1. request' = [request EXCEPT ![r] = q] /\ UNCHANGED entries
  BY DEF StartRefund
<1> HIDE DEF lines
<1>2. q.does = "refund" /\ q.id = e /\ q.lines = lines
  BY DEF Idle
<1> HIDE DEF q
<1>3. LinesOf(q)
  BY <1>2 DEF LinesOf, lines
<1> QED BY <1>1, <1>3, LinesBegun DEF IInv

LEMMA CloseLines ==
  ASSUME IInv, LinesInv, NEW r \in Requests, NEW o \in DOMAIN orders,
         NEW verdict, StartClose(r, o, verdict)
  PROVE  LinesInv'
<1> DEFINE stage == IF orders[o].phone = NoPhone THEN "writing" ELSE "reading"
           order == [orders[o] EXCEPT !.status = verdict]
           e == orders[o].entry
           status == IF e = 0 THEN "kept" ELSE StatusUpdate(e, AllocationsOf(e) \ OwnAllocation(o))
           q == [Idle EXCEPT !.does = "close", !.stage = stage, !.id = o, !.order = order,
                             !.entryStatus = status]
<1>1. request' = [request EXCEPT ![r] = q] /\ UNCHANGED entries
  BY DEF StartClose
<1>2. status # "cancelled"
  BY StatusIsFresh
<1> HIDE DEF stage, order, e, status
<1>3. q.does = "close" /\ q.entryStatus = status
  BY DEF Idle
<1> HIDE DEF q
<1>4. LinesOf(q)
  BY <1>2, <1>3 DEF LinesOf
<1> QED BY <1>1, <1>4, LinesBegun DEF IInv

LEMMA StartLines ==
  ASSUME IInv, LinesInv, NEW r \in Requests, Start(r)
  PROVE  LinesInv'
<1>1. ASSUME NEW b \in Bodies, NEW e \in 0 .. Len(entries), StartTransfer(r, b, e) \/ StartPayment(r, b, e)
      PROVE  LinesInv'
  <2>1. PICK target, converted, settles, chosen : StartOrder(r, b, e, target, converted, settles, chosen)
    BY <1>1, Zenon DEF StartTransfer, StartPayment
  <2> QED BY <2>1, OrderLines
<1>2. ASSUME NEW sources \in SUBSET DOMAIN entries, StartMerge(r, sources) PROVE LinesInv'
  BY <1>2, MergeLines
<1>3. ASSUME NEW e \in DOMAIN entries, StartRefund(r, e) PROVE LinesInv'
  BY <1>3, RefundLines
<1>4. ASSUME NEW o \in DOMAIN orders,
             RejectTransfer(r, o) \/ CancelTransfer(r, o) \/ RejectPayment(r, o) \/ CancelPayment(r, o)
      PROVE  LinesInv'
  <2>1. StartClose(r, o, "rejected") \/ StartClose(r, o, "cancelled")
    BY <1>4 DEF RejectTransfer, CancelTransfer, RejectPayment, CancelPayment
  <2> QED BY <2>1, CloseLines
<1> QED BY <1>1, <1>2, <1>3, <1>4 DEF Start

LEMMA ClientReadLines ==
  ASSUME IInv, LinesInv, NEW r \in Requests, ReadClient(r)
  PROVE  LinesInv'
<1>1. PICK q \in Transaction : q = request[r] /\ LinesOf(q) /\ RequestHolds(q)
  BY DEF IInv, RequestsHold, LinesInv
<1>2. q.does = "create" \/ q.does = "close"
  BY <1>1 DEF ReadClient, RequestHolds, Transaction
<1> DEFINE order == IF q.does = "create" THEN q.order ELSE orders[q.id]
           delta == IF q.does = "create" THEN q.delta ELSE Reversal(q.id)
           seen == client[order.company][order.phone]
           p == [q EXCEPT !.stage = "writing", !.seen = seen, !.delta = delta]
<1>3. request' = [request EXCEPT ![r] = p] /\ UNCHANGED entries
  BY <1>1 DEF ReadClient
<1> HIDE DEF order, delta, seen
<1>4. p.does = q.does /\ p.entryStatus = q.entryStatus
  BY DEF Transaction
<1> HIDE DEF p
<1>5. LinesOf(p)
  BY <1>1, <1>2, <1>4 DEF LinesOf
<1> QED BY <1>3, <1>5, LinesBegun DEF IInv

LEMMA LinesStep ==
  ASSUME IInv, LinesInv, [Next]_vars
  PROVE  LinesInv'
<1>1. /\ DOMAIN entries \subseteq DOMAIN entries'
      /\ \A e \in DOMAIN entries : entries'[e].amount = entries[e].amount
  BY EntriesStay
<1>2. ASSUME \A s \in Requests : request'[s] = request[s] \/ request'[s] = Idle, MergersExist'
      PROVE  LinesInv'
  <2>1. (\A s \in Requests : LinesOf(request[s]))'
    BY <1>1, <1>2, LinesKept DEF IInv, LinesInv
  <2> QED BY <1>2, <2>1 DEF LinesInv
<1>3. \A r \in Requests : request' = [request EXCEPT ![r] = Idle] =>
        \A s \in Requests : request'[s] = request[s] \/ request'[s] = Idle
  BY DEF IInv, RequestsHold
<1>4. UNCHANGED entries => MergersExist'
  BY DEF LinesInv, MergersExist
<1>5. ASSUME UNCHANGED <<entries, request>> PROVE LinesInv'
  BY <1>2, <1>4, <1>5
<1>6. CASE UNCHANGED vars
  BY <1>5, <1>6 DEF vars
<1>7. ASSUME NEW b \in Receipts, CreateEntry(b) PROVE LinesInv'
  <2>1. PICK n : n = Len(entries) + 1
    OBVIOUS
  <2>2. /\ DOMAIN entries' = DOMAIN entries \cup {n} /\ entries'[n].mergedInto = 0
        /\ \A e \in DOMAIN entries : entries'[e] = entries[e]
    BY <1>7, <2>1, CreatedEntry
  <2>3. MergersExist'
    BY <2>2 DEF LinesInv, MergersExist
  <2>4. UNCHANGED request
    BY <1>7 DEF CreateEntry
  <2> QED BY <1>2, <2>3, <2>4
<1>8. ASSUME NEW r \in Requests, CommitOrder(r) \/ CommitClose(r) PROVE LinesInv'
  <2>1. PICK e \in 0 .. Len(entries), status \in EntryStatuses \cup {"kept"} :
          (status # "kept" => e # 0) /\ EntryMarked(e, status)
    BY <1>8, OrderWritten
  <2>2. DOMAIN entries' = DOMAIN entries
        /\ \A d \in DOMAIN entries : entries'[d].mergedInto = entries[d].mergedInto
    BY <2>1, MarkedRest DEF IInv
  <2>3. MergersExist'
    BY <2>2 DEF LinesInv, MergersExist
  <2>4. request' = [request EXCEPT ![r] = Idle]
    BY <1>8, OrderWritten
  <2> QED BY <1>2, <1>3, <2>3, <2>4
<1>9. ASSUME NEW r \in Requests, CommitMerge(r) PROVE LinesInv'
  <2>1. PICK n : n = Len(entries) + 1
    OBVIOUS
  <2>2. /\ DOMAIN entries' = DOMAIN entries \cup {n} /\ entries'[n].mergedInto = 0
        /\ \A e \in DOMAIN entries :
             entries'[e].mergedInto = n \/ entries'[e].mergedInto = entries[e].mergedInto
    BY <1>9, <2>1, MergedEntry
  <2>3. MergersExist'
    BY <2>2 DEF LinesInv, MergersExist
  <2>4. request' = [request EXCEPT ![r] = Idle]
    BY <1>9 DEF CommitMerge
  <2> QED BY <1>2, <1>3, <2>3, <2>4
<1>10. ASSUME NEW r \in Requests, CommitRefund(r) PROVE LinesInv'
  <2>1. entries' = [entries EXCEPT ![request[r].id].status = "cancelled"]
        /\ request' = [request EXCEPT ![r] = Idle]
    BY <1>10 DEF CommitRefund
  <2>2. \A e \in DOMAIN entries : entries[e] \in Entry
    BY RowsAreRecords DEF IInv
  <2>3. DOMAIN entries' = DOMAIN entries
        /\ \A d \in DOMAIN entries : entries'[d].mergedInto = entries[d].mergedInto
    BY <2>1, <2>2 DEF Entry
  <2>4. MergersExist'
    BY <2>3 DEF LinesInv, MergersExist
  <2> QED BY <1>2, <1>3, <2>1, <2>4
<1>11. ASSUME NEW r \in Requests, Abort(r) PROVE LinesInv'
  <2>1. request' = [request EXCEPT ![r] = Idle] /\ UNCHANGED entries
    BY <1>11 DEF Abort
  <2> QED BY <1>2, <1>3, <1>4, <2>1
<1>12. ASSUME NEW o \in DOMAIN orders, NEW w \in Wallets, ApproveTransfer(o, w) PROVE LinesInv'
  BY <1>5, <1>12 DEF ApproveTransfer
<1>13. ASSUME NEW o \in DOMAIN orders, ApprovePayment(o) PROVE LinesInv'
  BY <1>5, <1>13 DEF ApprovePayment
<1>14. ASSUME NEW r \in Requests, Start(r) PROVE LinesInv'
  BY <1>14, StartLines
<1>15. ASSUME NEW r \in Requests, ReadClient(r) PROVE LinesInv'
  BY <1>15, ClientReadLines
<1> QED BY <1>6, <1>7, <1>8, <1>9, <1>10, <1>11, <1>12, <1>13, <1>14, <1>15 DEF Next

LEMMA BooksStep ==
  ASSUME IInv, IInv', RaceInv, LinesInv, [RaceNext]_<<vars, raceVars>>,
         NEW w \in Wallets, Clean(w)', Books(w), Bears(w)
  PROVE  Books(w)' /\ Bears(w)'
<1>0. ASSUME UNCHANGED <<wallet, entries, orders>> PROVE Books(w)' /\ Bears(w)'
  BY <1>0, BooksKept
<1>1. CASE UNCHANGED <<vars, raceVars>>
  BY <1>0, <1>1 DEF vars
<1>2. CASE RaceNext
  <2>1. ASSUME NEW b \in Receipts, CreateEntry(b) PROVE Books(w)' /\ Bears(w)'
    BY <2>1, CreatedBooks DEF LinesInv
  <2>2. ASSUME NEW r \in Requests, Start(r) PROVE Books(w)' /\ Bears(w)'
    BY <1>0, <2>2, StartsLeaveEntries
  <2>3. ASSUME NEW r \in Requests, ReadClient(r) PROVE Books(w)' /\ Bears(w)'
    BY <1>0, <2>3 DEF ReadClient
  <2>4. ASSUME NEW r \in Requests, CommitOrder(r), Overtakes(r) PROVE Books(w)' /\ Bears(w)'
    BY <2>4, OrderBooks
  <2>5. ASSUME NEW r \in Requests, CommitMerge(r), Overtakes(r) PROVE Books(w)' /\ Bears(w)'
    BY <2>5, MergedBooks
  <2>6. ASSUME NEW r \in Requests, CommitRefund(r), Overtakes(r) PROVE Books(w)' /\ Bears(w)'
    BY <2>6, RefundedBooks
  <2>7. ASSUME NEW r \in Requests, CommitClose(r), Overtakes(r) PROVE Books(w)' /\ Bears(w)'
    BY <2>7, OrderBooks
  <2>8. ASSUME NEW r \in Requests, Abort(r) PROVE Books(w)' /\ Bears(w)'
    BY <1>0, <2>8 DEF Abort
  <2>9. ASSUME UNCHANGED entries PROVE Bears(w)'
    BY <2>9, BearsKept
  <2>10. ASSUME NEW o \in DOMAIN orders, NEW v \in Wallets, ApproveTransfer(o, v)
         PROVE  Books(w)' /\ Bears(w)'
    <3>1. UNCHANGED entries
      BY <2>10 DEF ApproveTransfer
    <3> QED BY <2>9, <2>10, <3>1, TransferBooks
  <2>11. ASSUME NEW o \in DOMAIN orders, ApprovePayment(o) PROVE Books(w)' /\ Bears(w)'
    <3>1. UNCHANGED entries
      BY <2>11 DEF ApprovePayment
    <3> QED BY <2>9, <2>11, <3>1, PaymentBooks
  <2> QED BY <1>2, <2>1, <2>2, <2>3, <2>4, <2>5, <2>6, <2>7, <2>8, <2>10, <2>11 DEF RaceNext
<1> QED BY <1>1, <1>2

LEMMA BooksStart == ASSUME Init PROVE \A w \in Wallets : Books(w)
<1> SUFFICES ASSUME NEW w \in Wallets PROVE Books(w)
  OBVIOUS
<1>1. IInv
  BY InitHolds
<1>2. DOMAIN entries = {} /\ DOMAIN orders = {} /\ wallet = Opening
  BY DEF Init
<1>3. ReceivedEntries = {} /\ RefundedEntries = {} /\ PaidFrom(w) = {}
  BY <1>2 DEF ReceivedEntries, RefundedEntries, PaidFrom
<1>4. \A f : DOMAIN f = {} => SumFunction(f) = 0
  BY TotalOfNone
<1>5. In(w) = 0 /\ Back(w) = 0 /\ Out(w) = 0
  BY <1>3, <1>4 DEF In, Back, Out, OnWallet, CostOf
<1>6. Opening[w].balance \in Nat
  BY <1>1, BooksTyped DEF IInv
<1> QED BY <1>2, <1>5, <1>6 DEF Books

\* A wallet's balance is always explained by the entries, the refunds and the approved orders,
\* whatever requests do at the same time, unless an entry with money on it was raced on or
\* reopened: what a refunded entry gave back would count as received once more.  A merged entry
\* with money on a wallet has it from a source with money there, so remerging sources that have
\* none makes nothing of it received money.
THEOREM WalletsAlwaysMatchBooks == RaceSpec => []WalletsMatchBooks
<1>1. RaceInit => LinesInv /\ BooksInv
  <2> SUFFICES ASSUME RaceInit PROVE LinesInv /\ BooksInv
    OBVIOUS
  <2>1. Init /\ DOMAIN entries = {} /\ \A r \in Requests : request[r] = Idle
    BY DEF RaceInit, Init
  <2>2. LinesInv
    BY <2>1, IdleTyped, IdleLines DEF LinesInv, MergersExist
  <2>3. \A w \in Wallets : Books(w) /\ Bears(w)
    BY <2>1, BooksStart DEF Bears
  <2> QED BY <2>2, <2>3 DEF BooksInv
<1>2. IInv /\ RaceInv /\ LinesInv /\ BooksInv /\ [RaceNext]_<<vars, raceVars>>
        => (LinesInv /\ BooksInv)'
  <2> SUFFICES ASSUME IInv, RaceInv, LinesInv, BooksInv, [RaceNext]_<<vars, raceVars>>
               PROVE  (LinesInv /\ BooksInv)'
    OBVIOUS
  <2>1. [Next]_vars
    BY RaceSteps
  <2>2. IInv' /\ LinesInv'
    BY <2>1, StepHolds, LinesStep
  <2>3. ASSUME NEW w \in Wallets, Clean(w)' PROVE Books(w)' /\ Bears(w)'
    <3>1. /\ DOMAIN entries \subseteq DOMAIN entries'
          /\ \A e \in DOMAIN entries : entries'[e].amount = entries[e].amount
      BY <2>1, EntriesStay
    <3>2. racedEntries \subseteq racedEntries' /\ reopened \subseteq reopened'
      BY RacedStay
    <3>3. Clean(w)
      BY <2>3, <3>1, <3>2 DEF Clean, RaceInv
    <3>4. Books(w) /\ Bears(w)
      BY <3>3 DEF BooksInv
    <3> QED BY <2>2, <2>3, <3>4, BooksStep
  <2> QED BY <2>2, <2>3 DEF BooksInv
<1>3. BooksInv => WalletsMatchBooks
  BY BooksAre
<1> QED BY <1>1, <1>2, <1>3, RaceAlways, PTL DEF RaceSpec

=============================================================================
