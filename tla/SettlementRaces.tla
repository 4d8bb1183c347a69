-------------------------- MODULE SettlementRaces --------------------------
(***************************************************************************)
(* What overlapping requests do to entries and clients.  A request reads   *)
(* them without a lock and writes them later; when another one committed   *)
(* on the same entry or client in between, what it read is stale, and its  *)
(* own commit races with the other one.  The variables below record that   *)
(* and nothing else: they never keep a step of Settlements from happening. *)
(* The properties say what holds of every entry and every client no commit *)
(* raced on, whatever other requests are doing to it and to others.        *)
(***************************************************************************)
EXTENDS Settlements

VARIABLES
  staleEntries,   \* requests that read an entry another one has written since
  staleClients,   \* requests that read a client's balance another one has written since
  racedEntries,   \* entries a commit was made on from a stale reading
  racedClients,   \* <<company, phone>> of clients whose balance was so written
  reopened        \* entries that were cancelled and no longer are

raceVars == <<staleEntries, staleClients, racedEntries, racedClients, reopened>>

\* The entries a transaction reads and commits on.
EntriesOf(q) ==
  CASE q.does \in {"create", "close"} -> {q.order.entry} \ {0}
    [] q.does = "merge"               -> q.sources
    [] q.does = "refund"              -> {q.id}
    [] OTHER                          -> {}

\* The client whose balance a transaction has read and will write.
ClientsOf(q) ==
  IF q.does \in {"create", "close"} /\ q.stage = "writing" /\ q.order.phone # NoPhone /\ q.delta # 0
  THEN {<<q.order.company, q.order.phone>>}
  ELSE {}

Quiet == UNCHANGED raceVars

\* A transaction that begins or is given up has read nothing yet.
Forgets(r) ==
  /\ staleEntries' = staleEntries \ {r}
  /\ staleClients' = staleClients \ {r}
  /\ UNCHANGED <<racedEntries, racedClients, reopened>>

\* A commit makes what the others read of its rows stale.
Overtakes(r) ==
  LET q == request[r]
      sharing(Rows(_)) == {s \in Requests : Rows(request[s]) \cap Rows(q) # {}}
  IN /\ staleEntries' = (staleEntries \cup sharing(EntriesOf)) \ {r}
     /\ staleClients' = (staleClients \cup sharing(ClientsOf)) \ {r}
     /\ racedEntries' = racedEntries \cup (IF r \in staleEntries THEN EntriesOf(q) ELSE {})
     /\ racedClients' = racedClients \cup (IF r \in staleClients THEN ClientsOf(q) ELSE {})
     /\ reopened' = reopened \cup {e \in DOMAIN entries : /\ entries[e].status = "cancelled"
                                                          /\ entries'[e].status # "cancelled"}

RaceInit ==
  /\ Init
  /\ staleEntries = {} /\ staleClients = {}
  /\ racedEntries = {} /\ racedClients = {} /\ reopened = {}

\* The steps of Next, each with what it overtakes.
RaceNext ==
  \/ \E b \in Receipts : CreateEntry(b) /\ Quiet
  \/ \E r \in Requests : Start(r) /\ Forgets(r)
  \/ \E r \in Requests : ReadClient(r) /\ Quiet
  \/ \E r \in Requests : CommitOrder(r) /\ Overtakes(r)
  \/ \E r \in Requests : CommitMerge(r) /\ Overtakes(r)
  \/ \E r \in Requests : CommitRefund(r) /\ Overtakes(r)
  \/ \E r \in Requests : CommitClose(r) /\ Overtakes(r)
  \/ \E r \in Requests : Abort(r) /\ Forgets(r)
  \/ \E o \in DOMAIN orders, w \in Wallets : ApproveTransfer(o, w) /\ Quiet
  \/ \E o \in DOMAIN orders : ApprovePayment(o) /\ Quiet

RaceSpec == RaceInit /\ [][RaceNext]_<<vars, raceVars>>

---------------------------------------------------------------------------
(* Properties.                                                             *)

UnracedEntries == DOMAIN entries \ racedEntries

\* No entry gave more than it received, in any currency, unless two requests that
\* read it at the same time both committed.
EntriesNeverOverdrawn ==
  \A e \in UnracedEntries, c \in Currencies :
    Available(entries[e].amount, AllocationsOf(e), c) >= 0

\* The stored status of such an entry, which decides what may still be done with
\* it, is the one its lines and allocations give.
EntryStatusIsCurrent ==
  \A e \in UnracedEntries :
    entries[e].status # "cancelled" =>
      entries[e].status = recompute_status(entries[e].amount, AllocationsOf(e))

\* No order holds money of such an entry once it is cancelled: that money left the
\* wallets.
CancelledEntriesAreUnused ==
  \A e \in UnracedEntries : entries[e].status = "cancelled" => AllocationsOf(e) = {}

\* A client's balance is the sum of the movements recorded for it, unless two
\* requests that read it at the same time both committed.
ClientBalanceIsExplained ==
  \A c \in Companies, p \in Phones :
    <<c, p>> \notin racedClients =>
      client[c][p].balance =
        SumFunction([i \in DOMAIN client[c][p].movements |-> client[c][p].movements[i].delta])

\* What an order pays is what its entry gave plus what its client owes, less what
\* the client was credited, but for the cent that half a cent of credit is rounded
\* to; only a fee makes the entry give more than is paid.
OrdersAreFunded ==
  \A o \in DOMAIN orders :
    orders[o].status \in {"pending", "approved"} /\ orders[o].entry \in UnracedEntries =>
      LET given == SumFunction([a \in OwnAllocation(o) |-> a.amount])
          charged == NetCharge(o)
      IN \/ given + charged = orders[o].amount
         \/ charged < 0 /\ given + charged = orders[o].amount - 1
         \/ given > orders[o].amount /\ orders[o].phone = NoPhone

\* A cancelled entry comes back to life only by the closing of an order that was
\* pending on it and holds nothing of it.
OnlyEmptyOrdersReopen ==
  [][\A e \in UnracedEntries \ racedEntries' :
       entries[e].status = "cancelled" /\ entries'[e].status # "cancelled" =>
         \E o \in DOMAIN orders : /\ orders[o].entry = e
                                  /\ orders[o].status = "pending"
                                  /\ orders'[o].status \in {"rejected", "cancelled"}
                                  /\ OwnAllocation(o) = {}]_<<vars, raceVars>>

\* A wallet holds its opening balance, what the entries received on it, less what
\* cancelled entries gave back and what approved orders paid from it, as long as
\* no entry with money on it was raced on or reopened.  A merged entry received
\* nothing, and gives back what it took over.
WalletsMatchBooks ==
  \A w \in Wallets :
    (\A e \in racedEntries \cup reopened : entries[e].amount[w] = 0) =>
      LET received == {e \in DOMAIN entries : \A d \in DOMAIN entries : entries[d].mergedInto # e}
          refunded == {e \in DOMAIN entries : entries[e].status = "cancelled"}
          paid == {o \in DOMAIN orders : orders[o].status = "approved" /\ orders[o].wallet = w}
      IN wallet[w].balance =
           Opening[w].balance
             + SumFunction([e \in received |-> entries[e].amount[w]])
             - SumFunction([e \in refunded |-> entries[e].amount[w]])
             - SumFunction([o \in paid |-> IF orders[o].kind = "transfer" THEN orders[o].converted
                                           ELSE orders[o].amount])

\* What a company can still use of its entries in a currency.
Funds(co, c) ==
  SumFunction([e \in {d \in DOMAIN entries : Usable(d) /\ entries[d].company = co} |->
                 Available(entries[e].amount, AllocationsOf(e), c)])

\* A merge neither creates nor loses usable money: the merged entry takes over
\* exactly what was left of its sources ("double dépense" otherwise, says the
\* comment of merge_entries), unless one of them was raced on.
MergesPreserveFunds ==
  [][\A r \in Requests :
       CommitMerge(r) /\ request[r].sources \cap racedEntries' = {} =>
         \A co \in Companies, c \in Currencies : Funds(co, c)' = Funds(co, c)]_<<vars, raceVars>>
============================================================================
