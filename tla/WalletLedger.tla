--------------------------- MODULE WalletLedger ---------------------------
(***************************************************************************)
(* What the wallets of D-Transfert promise, whatever moves their money     *)
(* (national operations, entries, transfers, payments, suppliers): a       *)
(* wallet's balance changes only by a posted movement, a movement starts   *)
(* from the balance it found and ends at the balance it leaves, no balance *)
(* is ever negative, and only an active wallet is moved.                   *)
(***************************************************************************)
EXTENDS Integers, Sequences

CONSTANTS Wallets,      \* wallet identifiers
          Sources       \* what a movement may come from (operation, entry, ...)

VARIABLES balance,      \* [Wallets -> Nat], in cents
          status,       \* [Wallets -> Statuses]
          journal       \* [Wallets -> Seq(Movement)], the wallet_movements rows

vars == <<balance, status, journal>>

Statuses == {"absent", "active", "inactive"}

Movement == [before : Nat, amount : Int, after : Nat, source : Sources]

Init ==
  /\ balance = [w \in Wallets |-> 0]
  /\ status  = [w \in Wallets |-> "absent"]
  /\ journal = [w \in Wallets |-> <<>>]

---------------------------------------------------------------------------

\* The wallet keeps its balance and its journal; its status may be set.
Kept(w) ==
  /\ balance'[w] = balance[w]
  /\ journal'[w] = journal[w]
  /\ status'[w] = "absent" => status[w] = "absent"

\* One movement is posted on a wallet that is active (or was just created).
Posted(w) ==
  /\ status'[w] = "active"
  /\ status[w] # "inactive"
  /\ Len(journal'[w]) = Len(journal[w]) + 1
  /\ LET posted == journal'[w][Len(journal'[w])]
     IN /\ journal'[w] = Append(journal[w], posted)
        /\ posted.source \in Sources
        /\ posted = [before |-> balance[w], amount |-> balance'[w] - balance[w],
                      after |-> balance'[w], source |-> posted.source]

Next ==
  /\ balance' \in [Wallets -> Nat]
  /\ status'  \in [Wallets -> Statuses]
  /\ journal' \in [Wallets -> Seq(Movement)]
  /\ \A w \in Wallets : Kept(w) \/ Posted(w)

Spec == Init /\ [][Next]_vars

---------------------------------------------------------------------------

TypeOK ==
  /\ balance \in [Wallets -> Nat]
  /\ status  \in [Wallets -> Statuses]
  /\ journal \in [Wallets -> Seq(Movement)]

\* Every movement starts where the one before it ended, the first from zero.
Chained(j) ==
  \A i \in DOMAIN j :
    /\ j[i].before = IF i = 1 THEN 0 ELSE j[i-1].after
    /\ j[i].after = j[i].before + j[i].amount

\* The balance a journal explains.
Closing(j) == IF j = <<>> THEN 0 ELSE j[Len(j)].after

\* The journal of a wallet is a chain that ends at the wallet's balance: the
\* history of movements accounts for every cent (wallet_service.apply_movement
\* writes balance_before and balance_after beside the new balance).
JournalExplainsBalance ==
  \A w \in Wallets : Chained(journal[w]) /\ balance[w] = Closing(journal[w])
===========================================================================
