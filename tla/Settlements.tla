---------------------------- MODULE Settlements ----------------------------
(***************************************************************************)
(* Entries, transfers and payments between the two companies of an         *)
(* accepted collaboration: what an entry received is allocated to orders   *)
(* (transfers and payments), an order is approved, rejected or cancelled   *)
(* once, and wallets, client balances and the collaborators' shared        *)
(* balance follow.                                                         *)
(*                                                                         *)
(* Each request is one transaction (READ COMMITTED).  Orders and wallets   *)
(* are locked with SELECT ... FOR UPDATE before they are changed; entries, *)
(* allocations and clients are read without a lock and written later, as   *)
(* absolute values computed from what was read.  A handler that works on   *)
(* locked rows only is one step; the others read in one step or two and    *)
(* write in the last.                                                      *)
(***************************************************************************)
EXTENDS EntryService

CONSTANTS
  Requests,           \* the requests being served at the same time
  Companies,          \* the two parties of the collaboration
  Owner,              \* [Wallets -> Companies]: wallet.company_id
  Opening,            \* [Wallets -> WalletRow]: the wallets before
  Phones,             \* the clients' phones
  NoPhone,            \* "no client named"
  NoWalletChosen,     \* "no wallet"
  Main,               \* collaboration.currency
  CollaborativeRate,  \* the collaboration's current rate
  PrivateRate,        \* [Companies -> [Currencies \X Currencies -> Nat]], the
                      \* active private rate of a pair, zero when there is none
  Receipts,           \* bodies of create_entry
  Bodies,             \* bodies of create_transfer and create_payment, less entry_id
  MaxEntries,         \* bound: rows of entries
  MaxOrders           \* bound: rows of transfers and payments

Receipt == [company : Companies, phone : Phones \cup {NoPhone}, amount : [Wallets -> Nat]]

Body == [kind : {"transfer", "payment"}, company : Companies, amount : Nat \ {0},
         currency : Currencies, target : Currencies,
         phone : Phones \cup {NoPhone},
         reliquat : {"unallocated", "fee", "client_credit"},
         wallet : Wallets \cup {NoWalletChosen}]

ASSUME PartiesAssumption ==
  /\ IsFiniteSet(Companies) /\ Cardinality(Companies) = 2
  /\ Owner \in [Wallets -> Companies]
  /\ Opening \in [Wallets -> WalletRow]
  /\ NoPhone \notin Phones
  /\ NoWalletChosen \notin Wallets
  /\ Main \in Currencies
  /\ CollaborativeRate \in Nat
  /\ PrivateRate \in [Companies -> [Currencies \X Currencies -> Nat]]
  /\ Receipts \subseteq Receipt
  /\ Bodies \subseteq Body

OtherParty(c) == CHOOSE d \in Companies : d # c

---------------------------------------------------------------------------
VARIABLES
  wallet,       \* [Wallets -> WalletRow]
  entries,      \* Seq(entry): entries and their lines
  allocations,  \* set of entry_allocations rows
  orders,       \* Seq(order): transfers and payments
  shared,       \* Seq(movement): collaborator_balance_movements
  client,       \* [Companies -> [Phones -> client row]]
  request       \* [Requests -> what the request is about to write]

vars == <<wallet, entries, allocations, orders, shared, client, request>>

Entry ==
  [company : Companies, phone : Phones \cup {NoPhone}, amount : [Wallets -> Nat],
   status : EntryStatuses, mergedInto : Nat]

OrderStatuses == {"pending", "approved", "rejected", "cancelled"}

Order ==
  [kind : {"transfer", "payment"}, company : Companies, entry : Nat,
   phone : Phones \cup {NoPhone}, amount : Nat, currency : Currencies,
   target : Currencies, converted : Nat, settles : BOOLEAN,
   wallet : Wallets \cup {NoWalletChosen}, status : OrderStatuses]

NoOrder ==
  [kind |-> "transfer", company |-> CHOOSE c \in Companies : TRUE, entry |-> 0,
   phone |-> NoPhone, amount |-> 0, currency |-> Main, target |-> Main,
   converted |-> 0, settles |-> FALSE, wallet |-> NoWalletChosen, status |-> "pending"]

\* balance and its movements; a client that is not known has no row.
ClientRow ==
  [known : BOOLEAN, balance : Int,
   movements : Seq([order : Nat, reversal : BOOLEAN, delta : Int, before : Int, after : Int])]

NoClient == [known |-> FALSE, balance |-> 0, movements |-> <<>>]

\* A transaction in progress: what it does, the rows it will write and the
\* client row it read.  entryStatus is "kept" when the entry's status will not
\* be written (the ORM writes a column only when its value changes).
Idle ==
  [does |-> "nothing", stage |-> "reading", order |-> NoOrder, id |-> 0,
   allocation |-> 0, delta |-> 0, entryStatus |-> "kept", seen |-> NoClient,
   lines |-> [w \in Wallets |-> 0], sources |-> {}]

Transaction ==
  [does : {"nothing", "create", "close", "merge", "refund"},
   stage : {"reading", "writing"}, order : Order, id : Nat,
   allocation : Nat, delta : Int, entryStatus : EntryStatuses \cup {"kept"},
   seen : ClientRow, lines : [Wallets -> Nat], sources : SUBSET Nat]

Init ==
  /\ wallet      = Opening
  /\ entries     = <<>>
  /\ allocations = {}
  /\ orders      = <<>>
  /\ shared      = <<>>
  /\ client      = [c \in Companies |-> [p \in Phones |-> NoClient]]
  /\ request     = [r \in Requests |-> Idle]

---------------------------------------------------------------------------
(* Entries.                                                                *)

AllocationsOf(e) == {a \in allocations : a.entry = e}

\* A movement of a signed exact amount on each wallet, all or none.
CanMove(raw) == \A w \in Wallets : raw[w] # 0 => CanApply(wallet[w], raw[w])
Moved(raw) ==
  [w \in Wallets |->
     IF raw[w] = 0 THEN wallet[w]
     ELSE [wallet[w] EXCEPT !.balance = Applied(wallet[w], raw[w])]]

\* Bound: the rows there would be if every open request committed.
Open(does) == Cardinality({r \in Requests : request[r].does = does})
RoomForEntry == Len(entries) + Open("merge") < MaxEntries
RoomForOrder == Len(orders) + Open("create") < MaxOrders

\* create_entry: its wallets are locked before anything is read of them.
CreateEntry(b) ==
  /\ RoomForEntry
  /\ \A w \in Wallets : b.amount[w] > 0 => Owner[w] = b.company
  /\ CanMove(b.amount)
  /\ wallet' = Moved(b.amount)
  /\ entries' = Append(entries, [company |-> b.company, phone |-> b.phone,
                                 amount |-> [w \in Wallets |-> Quantize(b.amount[w])],
                                 status |-> "unallocated", mergedInto |-> 0])
  /\ UNCHANGED <<allocations, orders, shared, client, request>>

\* An entry that is not merged, and still has something left by its status.
Usable(e) ==
  /\ entries[e].mergedInto = 0
  /\ entries[e].status \in MERGEABLE_STATUSES

\* merge_entries up to its first write.
StartMerge(r, sources) ==
  /\ request[r] = Idle
  /\ RoomForEntry
  /\ Cardinality(sources) >= 2
  /\ \A e \in sources : Usable(e) /\ entries[e].phone # NoPhone
  /\ \A d, e \in sources : /\ entries[d].company = entries[e].company
                           /\ entries[d].phone = entries[e].phone
  /\ \E rest \in [sources -> UNION {Remainders(entries[e].amount, AllocationsOf(e)) : e \in sources}] :
       /\ \A e \in sources : rest[e] \in Remainders(entries[e].amount, AllocationsOf(e))
       /\ request' = [request EXCEPT ![r] =
            [Idle EXCEPT !.does = "merge", !.stage = "writing", !.sources = sources,
                         !.lines = [w \in Wallets |->
                                      SumFunction([e \in sources |-> rest[e][w]])]]]
  /\ UNCHANGED <<wallet, entries, allocations, orders, shared, client>>

CommitMerge(r) ==
  LET q == request[r]
      first == entries[CHOOSE e \in q.sources : TRUE]
      id == Len(entries) + 1
      marked == [e \in DOMAIN entries |->
                   IF e \in q.sources THEN [entries[e] EXCEPT !.mergedInto = id]
                   ELSE entries[e]]
  IN /\ q.does = "merge"
     /\ entries' = Append(marked, [company |-> first.company, phone |-> first.phone,
                                   amount |-> q.lines, status |-> "unallocated",
                                   mergedInto |-> 0])
     /\ request' = [request EXCEPT ![r] = Idle]
     /\ UNCHANGED <<wallet, allocations, orders, shared, client>>

\* Mutant: an entry in use can be cancelled.
RefundableInUse(e) == Usable(e)

\* Mutant: the status of the entry is not looked at.
RefundableAgain(e) == entries[e].mergedInto = 0 /\ AllocationsOf(e) = {}

Refundable(e) == Usable(e) /\ AllocationsOf(e) = {}

\* cancel_entry up to its first lock.
StartRefund(r, e) ==
  /\ request[r] = Idle
  /\ Refundable(e)
  /\ request' = [request EXCEPT ![r] =
       [Idle EXCEPT !.does = "refund", !.stage = "writing", !.id = e,
                    !.lines = entries[e].amount]]
  /\ UNCHANGED <<wallet, entries, allocations, orders, shared, client>>

\* The wallets are locked and give the money back.
CommitRefund(r) ==
  LET q == request[r]
      back == [w \in Wallets |-> -Exact(q.lines[w])]
  IN /\ q.does = "refund"
     /\ CanMove(back)
     /\ wallet' = Moved(back)
     /\ entries' = [entries EXCEPT ![q.id].status = "cancelled"]
     /\ request' = [request EXCEPT ![r] = Idle]
     /\ UNCHANGED <<allocations, orders, shared, client>>

---------------------------------------------------------------------------
(* What an order takes from its entry and leaves to its client.  e is the  *)
(* entry of the order, zero when it has none.                              *)

\* The entry's available amount in the order's currency, as an exact amount.
Free(b, e) == Exact(Available(entries[e].amount, AllocationsOf(e), b.currency))

Exceeds(b, e) == e # 0 /\ b.amount > Free(b, e)

\* What is left of the entry is not left available.
LeavesReliquat(b, e) ==
  e # 0 /\ b.amount < Free(b, e) /\ b.reliquat # "unallocated"

\* Mutant: the amount asked for is allocated, available or not.
AllocatedAsAsked(b, e) == IF e = 0 THEN 0 ELSE Quantize(b.amount)

\* allocation_amount; no row is inserted unless it is positive.
Allocated(b, e) ==
  IF e = 0 THEN 0
  ELSE LET cents == IF Exceeds(b, e) \/ LeavesReliquat(b, e)
                    THEN Quantize(Free(b, e)) ELSE Quantize(b.amount)
       IN IF cents > 0 THEN cents ELSE 0

\* Mutant: the client owes the whole amount, whatever the entry covers.
DeltaOfWholeAmount(b, e) == IF Exceeds(b, e) THEN Quantize(b.amount) ELSE 0

\* The change of the client's balance: what is missing is a debt, what is left a
\* credit; without an entry the whole amount is a debt.
ClientDelta(b, e) ==
  CASE Exceeds(b, e) -> Quantize(b.amount - Free(b, e))
    [] LeavesReliquat(b, e) /\ b.reliquat = "client_credit"
         -> -Quantize(Free(b, e) - b.amount)
    [] e = 0 /\ b.phone # NoPhone -> Quantize(b.amount)
    [] OTHER -> 0

ClientOf(b, e) == IF b.phone = NoPhone /\ e # 0 THEN entries[e].phone ELSE b.phone

\* The refusals before anything is written.
Acceptable(b, e) ==
  /\ e # 0 => Usable(e) /\ entries[e].company = b.company
  /\ Exceeds(b, e) \/ (LeavesReliquat(b, e) /\ b.reliquat = "client_credit")
       => ClientOf(b, e) # NoPhone

Converted(amount, from, to, rate) ==
  IF from = to THEN Quantize(amount) ELSE Quantize(amount * rate)

\* get_balance_for_company: every movement of the collaboration counts, whatever
\* its currency.
Balance(c) ==
  SumFunction([i \in DOMAIN shared |-> IF shared[i].creditor = c THEN shared[i].amount ELSE 0])
    - SumFunction([i \in DOMAIN shared |-> IF shared[i].debtor = c THEN shared[i].amount ELSE 0])

---------------------------------------------------------------------------
(* Creation of orders.                                                     *)

\* Mutant: the allocation's insert or delete is not flushed before the rows of the
\* entry are read again.
StatusUnflushed(e, rows) ==
  LET status == recompute_status(entries[e].amount, AllocationsOf(e))
  IN IF status = entries[e].status THEN "kept" ELSE status

\* The status written beside an allocation or its deletion, from what was read.
StatusUpdate(e, rows) ==
  LET status == recompute_status(entries[e].amount, rows)
  IN IF status = entries[e].status THEN "kept" ELSE status

\* Up to the reading of the client, if there is one: nothing is locked.
StartOrder(r, b, e, target, converted, settles, chosen) ==
  LET allocated == Allocated(b, e)
      delta == ClientDelta(b, e)
      row == [entry |-> e, order |-> Len(orders) + 1,
              currency |-> b.currency, amount |-> allocated]
  IN /\ request[r] = Idle
     /\ RoomForOrder
     /\ Acceptable(b, e)
     /\ request' = [request EXCEPT ![r] =
          [Idle EXCEPT
             !.does = "create",
             !.stage = IF delta = 0 THEN "writing" ELSE "reading",
             !.order = [kind |-> b.kind, company |-> b.company, entry |-> e,
                        phone |-> IF delta = 0 THEN NoPhone ELSE ClientOf(b, e),
                        amount |-> Quantize(b.amount), currency |-> b.currency,
                        target |-> target, converted |-> converted,
                        settles |-> settles, wallet |-> chosen, status |-> "pending"],
             !.allocation = allocated,
             !.delta = delta,
             !.entryStatus = IF allocated = 0 THEN "kept"
                             ELSE StatusUpdate(e, AllocationsOf(e) \cup {row})]]
     /\ UNCHANGED <<wallet, entries, allocations, orders, shared, client>>

\* create_transfer: paid in the body's target currency, at the active private
\* rate of the pair, without which there is no transfer.
StartTransfer(r, b, e) ==
  LET rate == PrivateRate[b.company][<<b.currency, b.target>>]
  IN /\ b.kind = "transfer"
     /\ rate > 0
     /\ StartOrder(r, b, e, b.target, Converted(b.amount, b.currency, b.target, rate),
                   FALSE, NoWalletChosen)

\* create_payment: in the collaboration's currency; whether it settles a debt of
\* its creator is decided now, from the balance as it is now.
StartPayment(r, b, e) ==
  /\ b.kind = "payment"
  /\ b.wallet # NoWalletChosen =>
       e = 0 /\ Owner[b.wallet] = b.company /\ Currency[b.wallet] = b.currency
  /\ StartOrder(r, b, e, Main, Converted(b.amount, b.currency, Main, CollaborativeRate),
                Balance(b.company) < 0, b.wallet)

\* What the orders' own movements did to a client, by get_by_source: the
\* reversals have another source_type.
Charged(o) ==
  LET movements == client[orders[o].company][orders[o].phone].movements
      own == {i \in DOMAIN movements : movements[i].order = o /\ ~movements[i].reversal}
  IN SumFunction([i \in own |-> movements[i].delta])

\* Mutant: the client's charge is repeated.
RepeatedCharge(o) == Charged(o)

\* reverse_movements_for_source takes back the net effect of the order.
Reversal(o) == -Charged(o)

\* get_or_create_client or get_client: the client's row is read, without a lock.
ReadClient(r) ==
  LET q == request[r]
      order == IF q.does = "create" THEN q.order ELSE orders[q.id]
  IN /\ q.does # "nothing"
     /\ q.stage = "reading"
     /\ request' = [request EXCEPT ![r] =
          [q EXCEPT !.stage = "writing",
                    !.seen = client[order.company][order.phone],
                    !.delta = IF q.does = "create" THEN q.delta ELSE Reversal(q.id)]]
     /\ UNCHANGED <<wallet, entries, allocations, orders, shared, client>>

\* Mutant: the previous balance is forgotten.
BilledFromZero(row, seen, o, reversal, delta) ==
  [known |-> TRUE, balance |-> delta,
   movements |-> Append(row.movements,
                        [order |-> o, reversal |-> reversal, delta |-> delta,
                         before |-> seen.balance, after |-> delta])]

\* apply_balance_delta computes on the row that was read; movements are inserts.
Billed(row, seen, o, reversal, delta) ==
  [known |-> TRUE, balance |-> seen.balance + delta,
   movements |-> Append(row.movements,
                        [order |-> o, reversal |-> reversal, delta |-> delta,
                         before |-> seen.balance, after |-> seen.balance + delta])]

\* The client's row after the request, which may find the client created
\* meanwhile (the unique constraint on company and phone refuses a second).
ClientBilled(q, c, phone, o) ==
  IF phone = NoPhone \/ q.delta = 0 THEN client' = client
  ELSE /\ q.seen.known \/ ~client[c][phone].known
       /\ client' = [client EXCEPT ![c][phone] =
                       Billed(client[c][phone], q.seen, o, q.does = "close", q.delta)]

EntryMarked(e, status) ==
  entries' = IF status = "kept" THEN entries
             ELSE [entries EXCEPT ![e].status = status]

\* The order, its allocation, the entry's status and the client's debt or credit.
CommitOrder(r) ==
  LET q == request[r]
      o == Len(orders) + 1
  IN /\ q.does = "create"
     /\ q.stage = "writing"
     /\ orders' = Append(orders, q.order)
     /\ allocations' = allocations \cup
          (IF q.allocation = 0 THEN {}
           ELSE {[entry |-> q.order.entry, order |-> o,
                  currency |-> q.order.currency, amount |-> q.allocation]})
     /\ EntryMarked(q.order.entry, q.entryStatus)
     /\ ClientBilled(q, q.order.company, q.order.phone, o)
     /\ request' = [request EXCEPT ![r] = Idle]
     /\ UNCHANGED <<wallet, shared>>

---------------------------------------------------------------------------
(* Decisions on orders, under the order's row lock.                        *)

\* Mutant: the order is read without its lock.
DecidableUnlocked(o) == orders[o].status = "pending"

\* lock_by_id waits for the row; the status is that of the locked row.
Decidable(o) ==
  /\ \A r \in Requests : ~(request[r].does = "close" /\ request[r].id = o)
  /\ orders[o].status = "pending"

Settled(o, debtor, creditor) ==
  shared' = Append(shared, [order |-> o, currency |-> orders[o].target,
                            amount |-> orders[o].converted,
                            debtor |-> debtor, creditor |-> creditor])

\* The cents o takes out of w.
Outgoing(w, cents) == [v \in Wallets |-> IF v = w THEN -Exact(cents) ELSE 0]

\* approve_transfer: the other party pays the beneficiary from a wallet of its
\* own in the target currency and becomes the creditor.
ApproveTransfer(o, w) ==
  LET t == orders[o]
      payer == OtherParty(t.company)
  IN /\ t.kind = "transfer"
     /\ Decidable(o)
     /\ Owner[w] = payer
     /\ Currency[w] = t.target
     /\ CanApply(wallet[w], -Exact(t.converted))
     /\ wallet' = Moved(Outgoing(w, t.converted))
     /\ orders' = [orders EXCEPT ![o].status = "approved", ![o].wallet = w]
     /\ Settled(o, t.company, payer)
     /\ UNCHANGED <<entries, allocations, client, request>>

\* approve_payment: the creator's wallet, when one was chosen, gives the amount;
\* a payment that settles a debt makes its creator the creditor.
ApprovePayment(o) ==
  LET p == orders[o]
      other == OtherParty(p.company)
  IN /\ p.kind = "payment"
     /\ Decidable(o)
     /\ IF p.wallet = NoWalletChosen THEN wallet' = wallet
        ELSE /\ CanApply(wallet[p.wallet], -Exact(p.amount))
             /\ wallet' = Moved(Outgoing(p.wallet, p.amount))
     /\ orders' = [orders EXCEPT ![o].status = "approved"]
     /\ IF p.settles THEN Settled(o, other, p.company) ELSE Settled(o, p.company, other)
     /\ UNCHANGED <<entries, allocations, client, request>>

OwnAllocation(o) == {a \in allocations : a.order = o}

\* Up to the reading of the client: the order is locked, its allocation found and
\* the status of its entry computed without it.
StartClose(r, o, verdict) ==
  LET e == orders[o].entry
  IN /\ request[r] = Idle
     /\ Decidable(o)
     /\ request' = [request EXCEPT ![r] =
          [Idle EXCEPT
             !.does = "close",
             !.stage = IF orders[o].phone = NoPhone THEN "writing" ELSE "reading",
             !.id = o,
             !.order = [orders[o] EXCEPT !.status = verdict],
             !.entryStatus = IF e = 0 THEN "kept"
                             ELSE StatusUpdate(e, AllocationsOf(e) \ OwnAllocation(o))]]
     /\ UNCHANGED <<wallet, entries, allocations, orders, shared, client>>

\* reject_transfer and reject_payment (by the other party), cancel_transfer and
\* cancel_payment (by the creator).
RejectTransfer(r, o) == orders[o].kind = "transfer" /\ StartClose(r, o, "rejected")
CancelTransfer(r, o) == orders[o].kind = "transfer" /\ StartClose(r, o, "cancelled")
RejectPayment(r, o)  == orders[o].kind = "payment" /\ StartClose(r, o, "rejected")
CancelPayment(r, o)  == orders[o].kind = "payment" /\ StartClose(r, o, "cancelled")

\* Mutant: the allocation stays.
NothingFreed(o) == allocations

WithoutAllocation(o) == allocations \ OwnAllocation(o)

\* The verdict, the allocation's deletion, the entry's status and the client's
\* reversal.
CommitClose(r) ==
  LET q == request[r]
  IN /\ q.does = "close"
     /\ q.stage = "writing"
     /\ orders' = [orders EXCEPT ![q.id].status = q.order.status]
     /\ allocations' = WithoutAllocation(q.id)
     /\ EntryMarked(q.order.entry, q.entryStatus)
     /\ ClientBilled(q, q.order.company, q.order.phone, q.id)
     /\ request' = [request EXCEPT ![r] = Idle]
     /\ UNCHANGED <<wallet, shared>>

---------------------------------------------------------------------------
\* A transaction fails (a refusal after its reads, a constraint, a deadlock, the
\* connection): nothing of it remains.
Abort(r) ==
  /\ request[r] # Idle
  /\ request' = [request EXCEPT ![r] = Idle]
  /\ UNCHANGED <<wallet, entries, allocations, orders, shared, client>>

Start(r) ==
  \/ \E b \in Bodies, e \in 0 .. Len(entries) : StartTransfer(r, b, e)
  \/ \E b \in Bodies, e \in 0 .. Len(entries) : StartPayment(r, b, e)
  \/ \E sources \in SUBSET DOMAIN entries : StartMerge(r, sources)
  \/ \E e \in DOMAIN entries : StartRefund(r, e)
  \/ \E o \in DOMAIN orders : RejectTransfer(r, o)
  \/ \E o \in DOMAIN orders : CancelTransfer(r, o)
  \/ \E o \in DOMAIN orders : RejectPayment(r, o)
  \/ \E o \in DOMAIN orders : CancelPayment(r, o)

Next ==
  \/ \E b \in Receipts : CreateEntry(b)
  \/ \E r \in Requests : Start(r)
  \/ \E r \in Requests : ReadClient(r)
  \/ \E r \in Requests : CommitOrder(r)
  \/ \E r \in Requests : CommitMerge(r)
  \/ \E r \in Requests : CommitRefund(r)
  \/ \E r \in Requests : CommitClose(r)
  \/ \E r \in Requests : Abort(r)
  \/ \E o \in DOMAIN orders, w \in Wallets : ApproveTransfer(o, w)
  \/ \E o \in DOMAIN orders : ApprovePayment(o)

Spec == Init /\ [][Next]_vars

---------------------------------------------------------------------------
(* Properties.                                                             *)

\* Every row and every open transaction has its type; allocations and orders
\* name rows that exist.
TypeOK ==
  /\ wallet \in [Wallets -> WalletRow]
  /\ entries \in Seq(Entry)
  /\ \A a \in allocations :
       /\ a.entry \in DOMAIN entries
       /\ a.order \in DOMAIN orders
       /\ a.currency \in Currencies
       /\ a.amount \in Nat \ {0}
  /\ orders \in Seq(Order)
  /\ \A o \in DOMAIN orders : orders[o].entry \in 0 .. Len(entries)
  /\ shared \in Seq([order : Nat, currency : Currencies, amount : Nat,
                     debtor : Companies, creditor : Companies])
  /\ client \in [Companies -> [Phones -> ClientRow]]
  /\ request \in [Requests -> Transaction]

\* An order is decided once: whatever two users of the two companies ask at the
\* same time (approve, reject, cancel), a decision is never replaced.
OrdersAreDecidedOnce ==
  [][\A o \in DOMAIN orders : orders[o].status # "pending" => orders'[o] = orders[o]]_orders

\* An order moved the shared balance if and only if it was approved, once, by its
\* converted amount, between the two companies of the collaboration.
ApprovalsAreSettled ==
  \A o \in DOMAIN orders :
    LET own == {i \in DOMAIN shared : shared[i].order = o}
    IN IF orders[o].status # "approved" THEN own = {}
       ELSE /\ Cardinality(own) = 1
            /\ \A i \in own : /\ shared[i].amount = orders[o].converted
                              /\ shared[i].currency = orders[o].target
                              /\ {shared[i].debtor, shared[i].creditor} = Companies

\* Money of an entry is held by an order only while the order is pending or once
\* it is approved, and it is held on the entry the order names, once.
AllocationsFollowDecisions ==
  \A a \in allocations :
    /\ orders[a.order].status \in {"pending", "approved"}
    /\ orders[a.order].entry = a.entry
    /\ OwnAllocation(a.order) = {a}

\* The sum of an order's movements on its client, reversals included.
NetCharge(o) ==
  IF orders[o].phone = NoPhone THEN 0
  ELSE LET movements == client[orders[o].company][orders[o].phone].movements
       IN SumFunction([i \in {k \in DOMAIN movements : movements[k].order = o} |->
                         movements[i].delta])

\* A rejected or cancelled order leaves no debt and no credit to its client:
\* what it charged was reversed, once (reverse_movements_for_source).
ClosedOrdersLeaveClientsEven ==
  \A o \in DOMAIN orders :
    orders[o].status \in {"rejected", "cancelled"} => NetCharge(o) = 0

---------------------------------------------------------------------------
(* What the documents say and the code does not do.                        *)

\* "Une dette client doit être créée automatiquement si le montant déclaré dépasse
\* l'entrée disponible": no entry gives more than it received, in any currency.  Two
\* orders that read the same entry at the same time make it do so.
NoEntryOverdrawn ==
  \A e \in DOMAIN entries, c \in Currencies :
    Available(entries[e].amount, AllocationsOf(e), c) >= 0

\* "L'entrée liée redevient disponible ou partiellement disponible": the entry a
\* closed order had money of can be used again.
ClosingFreesTheEntry ==
  [][\A o \in DOMAIN orders :
       orders[o].status = "pending" /\ orders'[o].status \in {"rejected", "cancelled"}
         /\ OwnAllocation(o) # {}
       => Usable(orders[o].entry)']_vars

\* A cancelled entry stays cancelled, and is not refunded a second time.
CancelledEntriesStayCancelled ==
  [][\A e \in DOMAIN entries :
       entries[e].status = "cancelled" => entries'[e].status = "cancelled"]_entries
============================================================================
