--------------------------- MODULE WalletService ---------------------------
(***************************************************************************)
(* wallet_service.apply_movement, the one function through which every     *)
(* service moves a wallet's money, as operators on a wallet row.           *)
(***************************************************************************)
EXTENDS Money, Sequences

Statuses == {"absent", "active", "inactive"}

\* A row of the wallets table.
WalletRow == [balance : Nat, status : Statuses]

NoWallet == [balance |-> 0, status |-> "absent"]

\* Mutant: an exit is not compared with the balance.
CanOverdraw(row, raw) == raw # 0 /\ row.status = "active"

\* apply_movement's three refusals, for a movement of the signed exact amount
\* raw (positive: IN, negative: OUT) on the row it was given.
CanApply(row, raw) ==
  /\ raw # 0
  /\ row.status = "active"
  /\ raw < 0 => row.balance >= -Quantize(raw)

\* The balance it writes.
Applied(row, raw) == row.balance + Quantize(raw)

\* The wallet_movements row it inserts.
MovementOf(row, raw, source) ==
  [before |-> row.balance, amount |-> Quantize(raw),
   after |-> Applied(row, raw), source |-> source]
============================================================================
