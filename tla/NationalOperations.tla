------------------------ MODULE NationalOperations ------------------------
(***************************************************************************)
(* National operations (deposit, withdrawal, exchange, rebalancing) and    *)
(* their cancellation, as concurrent requests over the wallets table.      *)
(*                                                                         *)
(* Each request is one database transaction (READ COMMITTED).  It reads    *)
(* without locks, then takes the wallet rows it needs one by one with      *)
(* SELECT ... FOR UPDATE, then reads a reference number, then writes and   *)
(* commits.  A row lock is held until the transaction ends; what a         *)
(* transaction wrote is visible to the others when it commits; the ORM     *)
(* writes a balance as an absolute value computed from the row it read.    *)
(***************************************************************************)
EXTENDS WalletService, FiniteSets, Functions

CONSTANTS
  Requests,        \* the requests being served at the same time
  Wallets,         \* wallet ids, ordered like the UUIDs sorted() compares
  Companies,
  Owner,           \* [Wallets -> Companies]: wallet.company_id
  Currency,        \* [Wallets -> currencies]: wallet.currency
  Payloads,        \* request bodies a client may send to create an operation
  InitialBalances, \* initial balances of new wallets, in exact units
  MaxOperations,   \* bound: rows of national_operations
  NoRequest        \* "the row is not locked"

Currencies == {Currency[w] : w \in Wallets}

\* The body of a create request: a line per wallet of "lines", with its signed
\* exact amount (amount_in positive, amount_out negative) and its declared
\* currency, and the exchange rate, zero when the body has none.
Payload ==
  [lines : SUBSET Wallets, amount : [Wallets -> Int],
   currency : [Wallets -> Currencies], rate : Nat]

ASSUME WalletAssumption ==
  /\ Wallets \subseteq Nat
  /\ IsFiniteSet(Wallets)
  /\ Owner \in [Wallets -> Companies]
  /\ Currency \in [Wallets -> Currencies]
  /\ Companies # {}

ASSUME RequestAssumption ==
  /\ NoRequest \notin Requests
  /\ Payloads \subseteq Payload
  /\ InitialBalances \subseteq Nat
  /\ MaxOperations \in Nat

---------------------------------------------------------------------------
(* The request body's own validation (schemas/national_operation.py).      *)

Total(p, c) ==
  SumFunctionOnSet(p.amount, {w \in p.lines : p.currency[w] = c})

Magnitude(n) == IF n < 0 THEN -n ELSE n

\* At least two lines, every one with a positive amount in one direction; one
\* currency: entries equal exits and no rate; two currencies: a net exit in
\* one, a net entry in the other, equal to a cent at the given rate.
WellFormed(p) ==
  LET declared == {p.currency[w] : w \in p.lines}
  IN /\ Cardinality(p.lines) >= 2
     /\ \A w \in p.lines : p.amount[w] # 0
     /\ \/ /\ Cardinality(declared) = 1
           /\ p.rate = 0
           /\ \A c \in declared : Total(p, c) = 0
        \/ /\ Cardinality(declared) = 2
           /\ p.rate > 0
           /\ \E from, to \in declared :
                /\ Total(p, from) < 0
                /\ Total(p, to) > 0
                /\ Magnitude(-Total(p, from) * p.rate - Total(p, to)) <= SubUnits

---------------------------------------------------------------------------
VARIABLES
  wallet,       \* [Wallets -> WalletRow]: the committed wallets rows
  journal,      \* [Wallets -> Seq(movement)]: the committed wallet_movements
  operations,   \* Seq(operation): the committed national_operations and lines
  holder,       \* [Wallets -> Requests or NoRequest]: the row locks
  request       \* [Requests -> what the request knows so far]

vars == <<wallet, journal, operations, holder, request>>

\* status CANCELLED is the only change an operation sees after its insertion.
Operation ==
  [company : Companies, lines : SUBSET Wallets, amount : [Wallets -> Int],
   status : {"validated", "cancelled"}, reversalOf : Nat, reference : Nat]

\* A request between two calls.
Idle == [stage |-> "idle", company |-> CHOOSE c \in Companies : TRUE,
         lines |-> {}, amount |-> [w \in Wallets |-> 0], currency |-> Currency,
         cancels |-> 0, queue |-> <<>>,
         seen |-> [w \in Wallets |-> NoWallet], reference |-> 0]

RequestState ==
  [stage : {"idle", "locking", "posting"}, company : Companies,
   lines : SUBSET Wallets, amount : [Wallets -> Int],
   currency : [Wallets -> Currencies],
   cancels : Nat, queue : Seq(Wallets),
   seen : [Wallets -> WalletRow], reference : Nat]

Init ==
  /\ wallet     = [w \in Wallets |-> NoWallet]
  /\ journal    = [w \in Wallets |-> <<>>]
  /\ operations = <<>>
  /\ holder     = [w \in Wallets |-> NoRequest]
  /\ request    = [r \in Requests |-> Idle]

---------------------------------------------------------------------------
(* Wallets.                                                                *)

\* create_wallet: the row and, when there is one, its initial movement.
CreateWallet(w, initial) ==
  /\ wallet[w].status = "absent"
  /\ LET fresh == [balance |-> 0, status |-> "active"]
     IN IF initial > 0
        THEN /\ wallet' = [wallet EXCEPT ![w] =
                             [fresh EXCEPT !.balance = Applied(fresh, initial)]]
             /\ journal' = [journal EXCEPT ![w] =
                              Append(@, MovementOf(fresh, initial, 0))]
        ELSE /\ wallet' = [wallet EXCEPT ![w] = fresh]
             /\ UNCHANGED journal
  /\ UNCHANGED <<operations, holder, request>>

\* set_wallet_status reads without a lock; its UPDATE of the status column
\* waits for the row lock.
SetWalletStatus(w, status) ==
  /\ wallet[w].status # "absent"
  /\ wallet[w].status # status
  /\ holder[w] = NoRequest
  /\ wallet' = [wallet EXCEPT ![w].status = status]
  /\ UNCHANGED <<journal, operations, holder, request>>

---------------------------------------------------------------------------
(* Locking.                                                                *)

\* The orders in which the rows of a set of wallets can be locked.
LockOrders(W) ==
  {s \in [1..Cardinality(W) -> W] : \A w \in W : \E i \in DOMAIN s : s[i] = w}

\* Mutant: the wallets are locked in the order of the body's lines.
AsListed(s) == TRUE

Ascending(s) == \A i, j \in DOMAIN s : i < j => s[i] < s[j]

\* Mutant: the session is never closed, so the row locks stay.
ReleaseRequestOnly(r) ==
  /\ holder'  = holder
  /\ request' = [request EXCEPT ![r] = Idle]

\* The end of a transaction, with or without its writes.
Release(r) ==
  /\ holder'  = [w \in Wallets |-> IF holder[w] = r THEN NoRequest ELSE holder[w]]
  /\ request' = [request EXCEPT ![r] = Idle]

\* An exception anywhere in the handler: nothing of it remains.
Rollback(r) ==
  /\ Release(r)
  /\ UNCHANGED <<wallet, journal, operations>>

---------------------------------------------------------------------------
(* Requests.                                                               *)

\* Bound: the operations there would be if every open request committed.
RoomForOperation ==
  Len(operations) + Cardinality({r \in Requests : request[r].stage # "idle"})
    < MaxOperations

\* create_operation up to its first lock: the distinct wallets of the body, to
\* be locked in ascending order of id.
StartCreate(r, company, p) ==
  /\ request[r].stage = "idle"
  /\ RoomForOperation
  /\ WellFormed(p)
  /\ \E s \in LockOrders(p.lines) :
       /\ Ascending(s)
       /\ request' = [request EXCEPT ![r] =
                        [@ EXCEPT !.stage = "locking", !.company = company,
                                  !.lines = p.lines, !.amount = p.amount,
                                  !.currency = p.currency, !.queue = s]]
  /\ UNCHANGED <<wallet, journal, operations, holder>>

\* Mutant: the lines of the reversal repeat those of the operation.
Repeated(amount) == [w \in Wallets |-> Exact(amount[w])]

\* The lines of a reversal: entries become exits and exits entries.
Mirrored(amount) == [w \in Wallets |-> -Exact(amount[w])]

\* cancel_operation up to its first lock: the operation and its lines are read
\* without a lock, its status is checked, and its wallets will be locked in the
\* order of the lines.  The lines come ordered by created_at, which is the same
\* for all of them (now() is the transaction's start): any order.
StartCancel(r, o) ==
  /\ request[r].stage = "idle"
  /\ RoomForOperation
  /\ operations[o].status = "validated"
  /\ LET op == operations[o]
     IN \E s \in LockOrders(op.lines) :
          request' = [request EXCEPT ![r] =
                        [@ EXCEPT !.stage = "locking", !.company = op.company,
                                  !.lines = op.lines,
                                  !.amount = Mirrored(op.amount),
                                  !.cancels = o, !.queue = s]]
  /\ UNCHANGED <<wallet, journal, operations, holder>>

\* The row the request is about to lock.
Awaits(r) == Head(request[r].queue)

\* Mutant: the wallet's company is not checked.
UsableByAnyone(r, w) == TRUE

\* Only create_operation checks whose wallet it is: a cancellation's wallets are
\* those of an operation of the company.
Usable(r, w) == request[r].cancels # 0 \/ Owner[w] = request[r].company

\* Mutant: the row is read with a plain SELECT, which does not wait.
ReadWallet(r) ==
  /\ request[r].stage = "locking"
  /\ request[r].queue # <<>>
  /\ LET w == Awaits(r)
     IN /\ wallet[w].status # "absent"
        /\ Usable(r, w)
        /\ request' = [request EXCEPT ![r] =
                          [@ EXCEPT !.queue = Tail(request[r].queue),
                                    !.seen[w] = wallet[w]]]
  /\ UNCHANGED <<wallet, journal, operations, holder>>

\* wallet_repository.lock_by_id: waits for the row, then reads it afresh.
LockWallet(r) ==
  /\ request[r].stage = "locking"
  /\ request[r].queue # <<>>
  /\ LET w == Awaits(r)
     IN /\ wallet[w].status # "absent"
        /\ holder[w] = NoRequest
        /\ Usable(r, w)
        /\ holder'  = [holder EXCEPT ![w] = r]
        /\ request' = [request EXCEPT ![r] =
                          [@ EXCEPT !.queue = Tail(request[r].queue),
                                    !.seen[w] = wallet[w]]]
  /\ UNCHANGED <<wallet, journal, operations>>

\* "Wallet introuvable": no such row, or (once its lock is obtained) a wallet of
\* another company.
LockRefused(r) ==
  /\ request[r].stage = "locking"
  /\ request[r].queue # <<>>
  /\ \/ wallet[Awaits(r)].status = "absent"
     \/ holder[Awaits(r)] = NoRequest /\ ~Usable(r, Awaits(r))
  /\ Rollback(r)

OperationsOf(company) == {o \in DOMAIN operations : operations[o].company = company}

\* The numbers _generate_unique_reference tries: from the number of references
\* already issued to the company, five candidates, those nobody has taken.
ReferenceRetries == 5
FreeReferences(company) ==
  LET issued == Cardinality(OperationsOf(company))
  IN {n \in issued + 1 .. issued + ReferenceRetries :
        \A o \in OperationsOf(company) : operations[o].reference # n}

\* Mutant: the declared currency of a line is taken at its word.
CurrenciesTrusted(r) == TRUE

CurrenciesAgree(r) ==
  request[r].cancels = 0 =>
    \A w \in request[r].lines : request[r].currency[w] = Currency[w]

ReadyToNumber(r) == request[r].stage = "locking" /\ request[r].queue = <<>>

\* Once every row is locked: the first free candidate becomes the reference.
TakeReference(r) ==
  /\ ReadyToNumber(r)
  /\ CurrenciesAgree(r)
  /\ \E n \in FreeReferences(request[r].company) :
       /\ \A m \in FreeReferences(request[r].company) : n <= m
       /\ request' = [request EXCEPT ![r] =
                        [@ EXCEPT !.stage = "posting", !.reference = n]]
  /\ UNCHANGED <<wallet, journal, operations, holder>>

\* A line not in its wallet's currency, or five candidates taken.
NumberingRefused(r) ==
  /\ ReadyToNumber(r)
  /\ ~(CurrenciesAgree(r) /\ FreeReferences(request[r].company) # {})
  /\ Rollback(r)

\* Mutant: no unique constraint on (company, reference).
PostableUnnumbered(r) ==
  \A w \in request[r].lines : CanApply(request[r].seen[w], request[r].amount[w])

\* The rest of the handler runs on locked rows: the operation is inserted (the
\* unique constraint on company and reference), apply_movement runs line by
\* line on the row read under the lock.
Postable(r) ==
  /\ \A o \in OperationsOf(request[r].company) :
       operations[o].reference # request[r].reference
  /\ \A w \in request[r].lines :
       CanApply(request[r].seen[w], request[r].amount[w])

\* The inserted operation; a cancellation also marks the operation it cancels,
\* without looking at its status again.
WithOperation(r) ==
  LET q == request[r]
      marked == [o \in DOMAIN operations |->
                   IF o = q.cancels
                   THEN [operations[o] EXCEPT !.status = "cancelled"]
                   ELSE operations[o]]
  IN Append(marked, [company |-> q.company,
                     lines |-> q.lines,
                     amount |-> [w \in Wallets |-> Quantize(q.amount[w])],
                     status |-> "validated", reversalOf |-> q.cancels,
                     reference |-> q.reference])

\* Movements, operation, lines and commit.
Post(r) ==
  /\ request[r].stage = "posting"
  /\ Postable(r)
  /\ LET q == request[r]
         id == Len(operations) + 1
     IN /\ wallet' = [w \in Wallets |->
                        IF w \in q.lines
                        THEN [wallet[w] EXCEPT !.balance = Applied(q.seen[w], q.amount[w])]
                        ELSE wallet[w]]
        /\ journal' = [w \in Wallets |->
                         IF w \in q.lines
                         THEN Append(journal[w], MovementOf(q.seen[w], q.amount[w], id))
                         ELSE journal[w]]
        /\ operations' = WithOperation(r)
  /\ Release(r)

\* An inactive wallet, an insufficient balance, a zero amount or a reference
\* taken meanwhile: the exception rolls everything back.
PostRefused(r) ==
  /\ request[r].stage = "posting"
  /\ ~Postable(r)
  /\ Rollback(r)

---------------------------------------------------------------------------
(* Failures.                                                               *)

\* The process dies or the connection is lost: PostgreSQL rolls back.
Disconnect(r) ==
  /\ request[r].stage # "idle"
  /\ Rollback(r)

\* r waits for a row that s holds.
WaitsFor(r, s) ==
  /\ request[r].stage = "locking"
  /\ request[r].queue # <<>>
  /\ holder[Awaits(r)] = s

\* Every request of D waits for one of D, and is waited for by one of D.
Deadlocked(D) ==
  /\ D # {}
  /\ \A r \in D : \E s \in D : WaitsFor(r, s)
  /\ \A s \in D : \E r \in D : WaitsFor(r, s)

\* PostgreSQL breaks a cycle of waits by failing one of its transactions.
DeadlockVictim(r) ==
  /\ \E D \in SUBSET Requests : r \in D /\ Deadlocked(D)
  /\ Rollback(r)

---------------------------------------------------------------------------
\* What the handler itself does next, without being asked.
Proceed(r) ==
  \/ LockWallet(r)
  \/ LockRefused(r)
  \/ TakeReference(r)
  \/ NumberingRefused(r)
  \/ Post(r)
  \/ PostRefused(r)
  \/ DeadlockVictim(r)

Next ==
  \/ \E w \in Wallets, n \in InitialBalances : CreateWallet(w, n)
  \/ \E w \in Wallets, s \in {"active", "inactive"} : SetWalletStatus(w, s)
  \/ \E r \in Requests, c \in Companies, p \in Payloads : StartCreate(r, c, p)
  \/ \E r \in Requests, o \in DOMAIN operations : StartCancel(r, o)
  \/ \E r \in Requests : Proceed(r)
  \/ \E r \in Requests : Disconnect(r)

Spec == Init /\ [][Next]_vars

\* The event loop runs every handler on, and PostgreSQL serves the waiters of a
\* row in turn, so a request is not passed over for ever.
FairSpec == Spec /\ \A r \in Requests : SF_vars(Proceed(r))

---------------------------------------------------------------------------
(* Properties.                                                             *)

TypeOK ==
  /\ wallet \in [Wallets -> WalletRow]
  /\ journal \in [Wallets -> Seq([before : Nat, amount : Int, after : Nat, source : Nat])]
  /\ operations \in Seq(Operation)
  /\ holder \in [Wallets -> Requests \cup {NoRequest}]
  /\ request \in [Requests -> RequestState]

\* The wallets r still has to lock.
ToLock(r) == {request[r].queue[i] : i \in DOMAIN request[r].queue}

\* What the row locks are for.  A row a request holds exists and is still the
\* row it read; every wallet of its lines is held or still to be locked; when it
\* posts, nothing is left to lock.
LocksProtect ==
  \A r \in Requests :
    /\ \A w \in Wallets : holder[w] = r => /\ request[r].seen[w] = wallet[w]
                                           /\ wallet[w].status # "absent"
    /\ \A w \in request[r].lines : holder[w] = r \/ w \in ToLock(r)
    /\ request[r].stage = "posting" => request[r].queue = <<>>

\* The discipline of the sorted locks: an idle request holds nothing; a creation
\* locks its wallets in ascending order, each above all it holds.
CreationsAscend ==
  \A r \in Requests :
    /\ request[r].stage = "idle" => \A w \in Wallets : holder[w] # r
    /\ request[r].cancels = 0 =>
         /\ Ascending(request[r].queue)
         /\ \A w \in Wallets : holder[w] = r => \A v \in ToLock(r) : w < v

\* What isolates the companies: an idle request holds nothing and cancels
\* nothing; a creation holds only wallets of its company (lock, then look); the
\* lines of a cancellation are those of an operation of its company.
LocksStayAtHome ==
  \A r \in Requests :
    /\ request[r].stage = "idle" =>
         request[r].cancels = 0 /\ \A w \in Wallets : holder[w] # r
    /\ request[r].cancels = 0 =>
         \A w \in Wallets : holder[w] = r => Owner[w] = request[r].company
    /\ request[r].cancels # 0 =>
         \A w \in request[r].lines : Owner[w] = request[r].company

\* A wallet that was never created has no money.
AbsentIsEmpty == \A w \in Wallets : wallet[w].status = "absent" => wallet[w].balance = 0

\* The wallets keep their promise under every interleaving of creations,
\* cancellations and status changes, although a balance is written as an
\* absolute value computed from a row read earlier.
Ledger == INSTANCE WalletLedger WITH
            balance <- [w \in Wallets |-> wallet[w].balance],
            status  <- [w \in Wallets |-> wallet[w].status],
            Sources <- Nat
ImplementsLedger == Ledger!Spec

\* The postings of an operation on a wallet.
Postings(w, o) == {i \in DOMAIN journal[w] : journal[w][i].source = o}

\* Every line of every operation is posted on its wallet exactly once, with its
\* amount, and an operation moves no other wallet; the reversal of an operation
\* posts on the same wallets the opposite amounts, to the cent, however many
\* operations and status changes came between (cancel_operation mirrors the
\* stored, rounded lines, create_operation the amounts of the body).
LinesArePosted ==
  \A o \in DOMAIN operations :
    LET op == operations[o]
    IN /\ \A w \in op.lines :
            \E i \in Postings(w, o) : /\ Postings(w, o) = {i}
                                     /\ journal[w][i].amount = op.amount[w]
       /\ \A w \in Wallets \ op.lines : Postings(w, o) = {}
       /\ op.reversalOf # 0 =>
            LET cancelled == operations[op.reversalOf]
            IN /\ op.lines = cancelled.lines
               /\ \A w \in op.lines : op.amount[w] = -cancelled.amount[w]

\* The references of a company are 1, 2, 3, ... without a gap and without a
\* duplicate, although the number is counted in one statement and inserted in a
\* later one (_generate_unique_reference, the daily sequence of one day).
ReferencesAreSequential ==
  \A c \in Companies :
    {operations[o].reference : o \in OperationsOf(c)} = 1 .. Cardinality(OperationsOf(c))

\* The comment on create_operation's sorted locks: creations never wait for each
\* other in a circle, so every deadlock involves a cancellation.
CreationsNeverDeadlock ==
  \A D \in SUBSET Requests :
    Deadlocked(D) => \E r \in D : request[r].cancels # 0

\* The operations whose wallets all have one currency, and what such an
\* operation brings in beyond what it takes out, in cents.
SingleCurrency(op) == Cardinality({Currency[w] : w \in op.lines}) = 1
Surplus(op) == SumFunctionOnSet(op.amount, op.lines)

\* An operation between wallets of one currency, whatever currencies its body
\* declared, and its reversal, create or destroy no more money than rounding
\* costs: half a cent a line (apply_movement rounds every line by itself, after
\* the totals were compared exactly), and nothing when requests send whole cents.
OperationsAreBalanced ==
  \A o \in DOMAIN operations :
    SingleCurrency(operations[o]) =>
      SubUnits * Magnitude(Surplus(operations[o]))
        <= Cardinality(operations[o].lines) * (SubUnits \div 2)

\* An operation moves only wallets of its own company.
CompaniesAreIsolated ==
  \A o \in DOMAIN operations :
    \A w \in operations[o].lines : Owner[w] = operations[o].company

\* An operation is cancelled at most once ("Seule une operation validee peut
\* etre annulee"): it has at most one reversal, and has one exactly when it is
\* marked cancelled.
AtMostOneReversal ==
  \A o \in DOMAIN operations :
    LET reversals == {v \in DOMAIN operations : operations[v].reversalOf = o}
    IN /\ Cardinality(reversals) <= 1
       /\ operations[o].status = "cancelled" <=> reversals # {}

\* Every request ends.
RequestsEnd == \A r \in Requests : request[r].stage # "idle" ~> request[r].stage = "idle"
===========================================================================
