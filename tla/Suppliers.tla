----------------------------- MODULE Suppliers -----------------------------
(***************************************************************************)
(* The suppliers of a company, each with a balance, and their rebalancing: *)
(* a debt brings money into a wallet, a payment takes it out.  The wallet  *)
(* is locked before it is changed; the supplier was read before that,      *)
(* without a lock, and its balance is written as an absolute value.        *)
(***************************************************************************)
EXTENDS Transactions, WalletService, Functions

CONSTANTS
  Codes,            \* supplier codes, unique in the company
  Wallets,          \* the company's wallets, in the suppliers' currency
  WalletsBefore,    \* [Wallets -> WalletRow]
  InitialBalances,  \* exact initial balances of new suppliers
  Rebalances,       \* bodies of rebalance_supplier
  Elsewhere,        \* bound: what other services may have moved on a wallet, in cents
  MaxMovements      \* bound: rows of supplier_balance_movements

SupplierMovementType == {"debt", "payment"}

Rebalance == [supplier : Codes, type : SupplierMovementType, amount : Nat \ {0}, wallet : Wallets]

ASSUME SuppliersAssumption ==
  /\ WalletsBefore \in [Wallets -> WalletRow]
  /\ InitialBalances \subseteq Int
  /\ Rebalances \subseteq Rebalance
  /\ Elsewhere \subseteq Int /\ 0 \in Elsewhere
  /\ MaxMovements \in Nat

VARIABLES
  supplier,           \* [Codes -> supplier row]
  supplierWallet,     \* [Wallets -> WalletRow]
  movedElsewhere,     \* [Wallets -> cents]: moved by the other services
  supplierMovements,  \* Seq(supplier_balance_movements row)
  rebalancing,        \* [Requests -> a rebalancing in progress]
  racedSuppliers      \* history: the suppliers written from a stale read

supplierVars ==
  <<supplier, supplierWallet, movedElsewhere, supplierMovements, rebalancing, racedSuppliers>>

SupplierRow == [known : BOOLEAN, opening : Int, balance : Int]
NoSupplier == [known |-> FALSE, opening |-> 0, balance |-> 0]

SupplierMovement ==
  [supplier : Codes, reference : Nat, wallet : Wallets, type : SupplierMovementType,
   amount : Nat, before : Int, after : Int]

NotRebalancing ==
  [stage |-> "idle", subject |-> "none", body |-> {}, seen |-> 0,
   row |-> NoWallet, reference |-> 0,
   overtaken |-> FALSE]

SuppliersInit ==
  /\ supplier          = [s \in Codes |-> NoSupplier]
  /\ supplierWallet    = WalletsBefore
  /\ movedElsewhere    = [w \in Wallets |-> 0]
  /\ supplierMovements = <<>>
  /\ rebalancing       = [r \in Requests |-> NotRebalancing]
  /\ racedSuppliers    = {}

---------------------------------------------------------------------------
\* create_supplier: the code is free, by the query and by the unique constraint.
CreateSupplier(s, raw) ==
  /\ ~supplier[s].known
  /\ supplier' = [supplier EXCEPT ![s] =
       [known |-> TRUE, opening |-> Quantize(raw), balance |-> Quantize(raw)]]
  /\ UNCHANGED <<supplierWallet, movedElsewhere, supplierMovements, rebalancing, racedSuppliers>>

\* rebalance_supplier up to the wallet's lock: the supplier is read.
StartRebalance(r, b) ==
  /\ rebalancing[r].stage = "idle"
  /\ Len(supplierMovements)
       + Cardinality({x \in Requests : rebalancing[x].stage # "idle"}) < MaxMovements
  /\ supplier[b.supplier].known
  /\ rebalancing' = [rebalancing EXCEPT ![r] =
       [NotRebalancing EXCEPT !.stage = "reading", !.subject = b.supplier, !.body = b,
                              !.seen = supplier[b.supplier].balance]]
  /\ UNCHANGED <<supplier, supplierWallet, movedElsewhere, supplierMovements, racedSuppliers>>

\* Mutant: the wallet is read without its lock.
NobodyHolds(w) == TRUE

WalletIsFree(w) ==
  \A x \in Requests : rebalancing[x].stage = "writing" => rebalancing[x].body.wallet # w

\* _generate_unique_reference: the number after those of the day, or one of the next
\* four, that no committed row has.  The retries pass only over rows committed
\* between the count and the look-up, so the first number not taken is found.
NextReference == Len(supplierMovements) + 1

\* The direction on the wallet: a debt is money received.
Signed(b) == IF b.type = "debt" THEN b.amount ELSE -b.amount

\* wallet_repository.lock_by_id waits for the row, then the movement is refused or not
\* on the row as it is; the reference is looked up behind the lock.
LockWallet(r) ==
  LET b == rebalancing[r].body
  IN /\ rebalancing[r].stage = "reading"
     /\ WalletIsFree(b.wallet)
     /\ CanApply(supplierWallet[b.wallet], Exact(Quantize(Signed(b))))
     /\ rebalancing' = [rebalancing EXCEPT ![r].stage = "writing",
                                           ![r].row = supplierWallet[b.wallet],
                                           ![r].reference = NextReference]
     /\ UNCHANGED <<supplier, supplierWallet, movedElsewhere, supplierMovements, racedSuppliers>>

\* Mutant: the supplier's balance moves the way the wallet does.
SupplierDeltaReversed(b) == Quantize(Signed(b))

\* A debt lowers the supplier's balance, a payment raises it.
SupplierDelta(b) == -Quantize(Signed(b))

\* The supplier's balance computed from what was read, the wallet's from the locked
\* row, the movement under a reference nobody took meanwhile.
CommitRebalance(r) ==
  LET q == rebalancing[r]
      b == q.body
      after == q.seen + SupplierDelta(b)
  IN /\ q.stage = "writing"
     /\ \A i \in DOMAIN supplierMovements : supplierMovements[i].reference # q.reference
     /\ supplier' = [supplier EXCEPT ![b.supplier].balance = after]
     /\ supplierWallet' = [supplierWallet EXCEPT ![b.wallet].balance =
                             Applied(q.row, Exact(Quantize(Signed(b))))]
     /\ supplierMovements' = Append(supplierMovements,
          [supplier |-> b.supplier, reference |-> q.reference, wallet |-> b.wallet,
           type |-> b.type, amount |-> Quantize(b.amount), before |-> q.seen, after |-> after])
     /\ rebalancing' = AfterCommit(rebalancing, r, NotRebalancing)
     /\ racedSuppliers' = RacedAfter(racedSuppliers, q)
     /\ UNCHANGED movedElsewhere

\* Refused, or rolled back: by apply_movement, by the unique reference, by a lost
\* connection.
AbortRebalance(r) ==
  /\ rebalancing[r].stage # "idle"
  /\ rebalancing' = [rebalancing EXCEPT ![r] = NotRebalancing]
  /\ UNCHANGED <<supplier, supplierWallet, movedElsewhere, supplierMovements, racedSuppliers>>

\* Any other service's movement on the wallet, under the same lock.
MoveElsewhere(w, sum) ==
  LET raw == Exact(sum - movedElsewhere[w])
  IN /\ WalletIsFree(w)
     /\ CanApply(supplierWallet[w], raw)
     /\ supplierWallet' = [supplierWallet EXCEPT ![w].balance = Applied(supplierWallet[w], raw)]
     /\ movedElsewhere' = [movedElsewhere EXCEPT ![w] = sum]
     /\ UNCHANGED <<supplier, supplierMovements, rebalancing, racedSuppliers>>

SuppliersNext ==
  \/ \E s \in Codes, raw \in InitialBalances : CreateSupplier(s, raw)
  \/ \E r \in Requests, b \in Rebalances : StartRebalance(r, b)
  \/ \E r \in Requests : LockWallet(r)
  \/ \E r \in Requests : CommitRebalance(r)
  \/ \E r \in Requests : AbortRebalance(r)
  \/ \E w \in Wallets, sum \in Elsewhere : MoveElsewhere(w, sum)

SuppliersSpec == SuppliersInit /\ [][SuppliersNext]_supplierVars

---------------------------------------------------------------------------
\* Every row has its type.
SuppliersTypeOK ==
  /\ supplier \in [Codes -> SupplierRow]
  /\ supplierWallet \in [Wallets -> WalletRow]
  /\ movedElsewhere \in [Wallets -> Elsewhere]
  /\ supplierMovements \in Seq(SupplierMovement)
  /\ \A r \in Requests :
       /\ rebalancing[r].stage \in {"idle", "reading", "writing"}
       /\ rebalancing[r].stage # "idle" => rebalancing[r].body \in Rebalances
  /\ racedSuppliers \subseteq Codes

\* What the chosen movements, a set of indices, brought in.
MovementsOf(chosen) ==
  SumFunctionOnSet([i \in DOMAIN supplierMovements |-> Signed(supplierMovements[i])], chosen)

WithSupplier(s) == {i \in DOMAIN supplierMovements : supplierMovements[i].supplier = s}
OnWallet(w) == {i \in DOMAIN supplierMovements : supplierMovements[i].wallet = w}

\* What the company owes a supplier is what the rebalancings moved: its balance is
\* the initial one, less the debts, plus the payments, as long as no two
\* rebalancings of that supplier overlapped (the second one's write then covers the
\* first, whatever their wallets: rebalance_supplier reads it without a lock).
SupplierBalanceIsExplained ==
  \A s \in Codes :
    supplier[s].known /\ s \notin racedSuppliers =>
      supplier[s].balance =
        supplier[s].opening - MovementsOf(WithSupplier(s))

\* Whatever overlaps, with another rebalancing or another service, the wallets hold
\* what the rebalancings brought in and took out
\* ("Toute opération fournisseur doit modifier ... le solde du wallet concerné"):
\* the row lock covers the read, the refusal and the write.
WalletsFollowRebalances ==
  \A w \in Wallets :
    supplierWallet[w].balance =
      WalletsBefore[w].balance + movedElsewhere[w] + MovementsOf(OnWallet(w))

============================================================================
