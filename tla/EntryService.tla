--------------------------- MODULE EntryService ---------------------------
(***************************************************************************)
(* Entries: money received from a client on some wallets, later allocated  *)
(* to transfers and payments.  The functions of entry_service on the rows  *)
(* of entries, entry_lines and entry_allocations.                          *)
(***************************************************************************)
EXTENDS WalletService, FiniteSets, Functions

CONSTANTS Wallets,   \* wallet ids
          Currency   \* [Wallets -> currencies]: wallet.currency

ASSUME WalletsAssumption == IsFiniteSet(Wallets)

Currencies == {Currency[w] : w \in Wallets}

WalletsIn(c) == {w \in Wallets : Currency[w] = c}

\* The statuses the code gives an entry (two more are declared and never set).
EntryStatuses == {"unallocated", "partially_allocated", "consumed", "cancelled"}

MERGEABLE_STATUSES == {"unallocated", "partially_allocated"}

\* available_by_currency for one currency: the entry's lines, a sum of cents on
\* each wallet, less its allocations, one at most per order.
Available(lines, allocations, c) ==
  SumFunction([w \in WalletsIn(c) |-> lines[w]])
    - SumFunction([a \in {x \in allocations : x.currency = c} |-> a.amount])

recompute_status(lines, allocations) ==
  IF allocations = {} THEN "unallocated"
  ELSE IF \A c \in Currencies : Available(lines, allocations, c) <= 0
       THEN "consumed"
       ELSE "partially_allocated"

\* Mutant: the merged entry takes over the whole lines of its sources.
WholeLines(lines, allocations) == {lines}

\* What merge_entries carries over of a source: in each currency, what is left
\* of it, taken from its lines one after the other.  The order of the lines is
\* that of created_at, the same for all of them, so any line may be the last one
\* touched, the only one taken in part.
Remainders(lines, allocations) ==
  LET left(c) == Available(lines, allocations, c)
      top == SumFunction([w \in Wallets |-> lines[w]])
  IN {rest \in [Wallets -> 0 .. top] :
        /\ \A w \in Wallets : rest[w] <= lines[w]
        /\ \A c \in Currencies :
             /\ SumFunction([w \in WalletsIn(c) |-> rest[w]])
                  = IF left(c) > 0 THEN left(c) ELSE 0
             /\ Cardinality({w \in WalletsIn(c) : rest[w] \in 1 .. lines[w] - 1}) <= 1}
===========================================================================
