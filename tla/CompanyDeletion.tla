-------------------------- MODULE CompanyDeletion --------------------------
(***************************************************************************)
(* A company is deleted with all its data, statement after statement in    *)
(* one transaction, while it and its partner may go on working.  Rows are  *)
(* kept with what they refer to and nothing else: what a service call      *)
(* inserts, deletes and refers to decides whether a statement is refused   *)
(* by a foreign key and what the commit leaves behind.                     *)
(***************************************************************************)
EXTENDS Integers, Sequences, FiniteSets, Schema

CONSTANTS
  Leaver,      \* the company that is deleted
  Partner,     \* the other party of its collaboration
  MaxCalls     \* bound: service calls of the two

ASSUME DeletionAssumption == Leaver # Partner /\ MaxCalls \in Nat

VARIABLES
  rows,        \* committed rows
  calls,       \* number of service calls
  deletion,    \* the deletion of Leaver
  made,        \* history: keys of the rows inserted while it ran
  removed      \* history: the rows its commit removed

deletionVars == <<rows, calls, deletion, made, removed>>

Parties == {Leaver, Partner}

Other(x) == IF x = Leaver THEN Partner ELSE Leaver

\* A row is known by its table, the company it was made for and the call that made it.
Null == <<"none", "none", 0>>

Row(key, refs) ==
  [key |-> key, pending |-> FALSE,
   refs |-> [c \in Columns(key[1]) \cup DOMAIN refs |-> IF c \in DOMAIN refs THEN refs[c] ELSE Null]]

Table(r) == r.key[1]

Keys(set) == {r.key : r \in set}

\* The rows that exist from the start, before any call.
Base(table, x) == <<table, x, 0>>

Collaboration == Base("collaborations", Leaver)

\* What a company has from the start, an entry among it.
FirstRows(x) ==
  { Row(Base("companies", x), <<>>),
    Row(Base("users", x), [company_id |-> Base("companies", x)]),
    Row(Base("wallets", x), [company_id |-> Base("companies", x)]),
    Row(Base("clients", x), [company_id |-> Base("companies", x)]),
    Row(Base("suppliers", x), [company_id |-> Base("companies", x)]),
    Row(Base("entries", x), [company_id |-> Base("companies", x),
                             created_by_id |-> Base("users", x)]),
    Row(Base("entry_lines", x), [entry_id |-> Base("entries", x),
                                 wallet_id |-> Base("wallets", x)]),
    Row(Base("wallet_movements", x), [wallet_id |-> Base("wallets", x),
                                      created_by_id |-> Base("users", x)]),
    Row(Base("subscriptions", x), [company_id |-> Base("companies", x)]),
    Row(Base("notifications", x), [company_id |-> Base("companies", x)]),
    Row(Base("audit_logs", x), [company_id |-> Base("companies", x),
                                user_id |-> Base("users", x)]),
    Row(Base("system_logs", x), [company_id |-> Base("companies", x),
                                 user_id |-> Base("users", x)]),
    Row(Base("password_reset_otps", x), [user_id |-> Base("users", x)]),
    Row(Base("user_permission_overrides", x), [user_id |-> Base("users", x)]) }

\* The collaboration of the two and its agreed rate.
SharedRows ==
  { Row(Collaboration, [initiator_company_id |-> Base("companies", Leaver),
                        target_company_id |-> Base("companies", Partner)]),
    Row(Base("collaboration_rate_history", Leaver),
        [collaboration_id |-> Collaboration,
         proposed_by_company_id |-> Base("companies", Leaver),
         decided_by_company_id |-> Base("companies", Partner)]) }

InitialRows == FirstRows(Leaver) \cup FirstRows(Partner) \cup SharedRows

DeletionInit ==
  /\ rows = InitialRows
  /\ calls = 0
  /\ deletion = [outcome |-> "none", step |-> 1, deleted |-> {}, blocking |-> {}]
  /\ made = {}
  /\ removed = {}

Running == deletion.outcome = "running"

\* What the statements of the deletion see, and what other requests need not wait for.
View == {r \in rows : r.key \notin deletion.deleted}

---------------------------------------------------------------------------
(* Service calls, by the rows they touch.                                  *)

\* gone is replaced by new; every row new refers to has to be there.
Call(gone, new) ==
  /\ calls < MaxCalls
  /\ gone \subseteq View
  /\ \A r \in new : \A c \in DOMAIN r.refs :
       r.refs[c] \in Keys((View \ gone) \cup new) \cup {Null}
  /\ rows' = (rows \ gone) \cup new
  /\ calls' = calls + 1
  /\ made' = IF Running THEN made \cup Keys(new) ELSE made
  /\ UNCHANGED <<deletion, removed>>

Fresh(table, x) == <<table, x, calls + 1>>

\* A movement of the wallet or the client of x, made by a user of by.
WalletMovement(x, by) ==
  Row(Fresh("wallet_movements", x),
      [wallet_id |-> Base("wallets", x), created_by_id |-> Base("users", by)])

ClientMovement(x, by) ==
  Row(Fresh("client_balance_movements", x),
      [client_id |-> Base("clients", x), created_by_id |-> Base("users", by)])

Own(table, x, more) ==
  Row(Fresh(table, x),
      [c \in {"company_id", "created_by_id"} \cup DOMAIN more |->
         IF c = "company_id" THEN Base("companies", x)
         ELSE IF c = "created_by_id" THEN Base("users", x) ELSE more[c]])

CreateEntry(x) ==
  Call({}, { Own("entries", x, <<>>), WalletMovement(x, x),
             Row(Fresh("entry_lines", x), [entry_id |-> Fresh("entries", x),
                                           wallet_id |-> Base("wallets", x)]) })

CreateNationalOperation(x) ==
  Call({}, { Own("national_operations", x, <<>>), WalletMovement(x, x),
             Row(Fresh("national_operation_lines", x),
                 [national_operation_id |-> Fresh("national_operations", x),
                  wallet_id |-> Base("wallets", x)]) })

RebalanceSupplier(x) ==
  Call({}, { Own("supplier_balance_movements", x,
                 [supplier_id |-> Base("suppliers", x), wallet_id |-> Base("wallets", x)]),
             WalletMovement(x, x) })

\* For the collaboration or for any.
SetRate(x, collaboration) ==
  Call({}, {Own("private_sending_rates", x, [collaboration_id |-> collaboration])})

\* The tables of the two kinds of orders: their history, and how theirs refer to them.
HistoryOf == [transfers |-> "transfer_status_history", payments |-> "payment_status_history"]
ColumnOf == [transfers |-> "transfer_id", payments |-> "payment_id"]

\* A step in the history of an order, by the company x.
History(order, x) ==
  Row(Fresh(HistoryOf[order[1]], x),
      [c \in {"company_id", ColumnOf[order[1]]} |->
         IF c = "company_id" THEN Base("companies", x) ELSE order])

\* create_transfer, create_payment: covered by an entry, in whole or in part, owed by a
\* client or not; a payment may be made from a wallet instead of an entry.
CreateOrder(x, table, entry, owed, paid) ==
  LET order == Own(table, x,
                 [collaboration_id |-> Collaboration, entry_id |-> entry,
                  client_id |-> IF owed THEN Base("clients", x) ELSE Null,
                  wallet_id |-> IF paid THEN Base("wallets", x) ELSE Null])
  IN /\ paid => table = "payments" /\ entry = Null
     /\ Call({}, { [order EXCEPT !.pending = TRUE], History(order.key, x) }
          \cup (IF owed THEN {ClientMovement(x, x)} ELSE {})
          \cup { Row(Fresh("entry_allocations", x), [entry_id |-> e, target_id |-> order.key]) :
                   e \in {entry} \ {Null} })

\* By the other party: it pays a transfer from its own wallet, and moves the creator's
\* for a payment made from one.
Approve(order) ==
  LET x == order.key[2]
      y == Other(x)
      isTransfer == Table(order) = "transfers"
  IN /\ order.pending
     /\ Call({order},
          { [order EXCEPT !.pending = FALSE,
                          !.refs.wallet_id = IF isTransfer THEN Base("wallets", y) ELSE @],
            History(order.key, y),
            Row(Fresh("collaborator_balance_movements", x),
                [collaboration_id |-> Collaboration,
                 debtor_company_id |-> Base("companies", x),
                 creditor_company_id |-> Base("companies", y)]) }
          \cup IF isTransfer THEN {WalletMovement(y, y)}
               ELSE IF order.refs.wallet_id = Null THEN {} ELSE {WalletMovement(x, y)})

\* reject by the other party, cancel by the creator: the allocation is given back, the
\* client's debt is undone by a movement of the user who closes.
Close(order, by) ==
  LET x == order.key[2]
      allocations == {a \in View : Table(a) = "entry_allocations" /\ a.refs.target_id = order.key}
  IN /\ order.pending
     /\ Call({order} \cup allocations,
          {[order EXCEPT !.pending = FALSE], History(order.key, by)}
            \cup IF order.refs.client_id = Null THEN {} ELSE {ClientMovement(x, by)})

UploadProof(order, by) ==
  Call({}, {Row(Fresh("proofs", by),
              [c \in {"company_id", "uploaded_by_id", ColumnOf[Table(order)]} |->
                 IF c = "company_id" THEN Base("companies", by)
                 ELSE IF c = "uploaded_by_id" THEN Base("users", by) ELSE order.key])})

Orders == {r \in View : Table(r) \in {"transfers", "payments"}}

EntriesOf(x) == {r.key : r \in {e \in View : Table(e) = "entries" /\ e.key[2] = x}}

Work ==
  \/ \E x \in Parties :
       \/ CreateEntry(x)
       \/ CreateNationalOperation(x)
       \/ RebalanceSupplier(x)
       \/ \E c \in {Collaboration, Null} : SetRate(x, c)
       \/ \E table \in {"transfers", "payments"}, e \in EntriesOf(x) \cup {Null},
             owed, paid \in BOOLEAN : CreateOrder(x, table, e, owed, paid)
  \/ \E o \in Orders : Approve(o)
  \/ \E o \in Orders, by \in Parties : Close(o, by) \/ UploadProof(o, by)

---------------------------------------------------------------------------
(* The deletion.                                                           *)

Of(table) == {r \in View : Table(r) = table}

OwnIn(table) == {r \in Of(table) : r.refs.company_id = Base("companies", Leaver)}

\* The rows of a table whose column refers to one of some rows.
Under(table, column, parents) ==
  LET found == Keys(parents)
  IN IF found = {} THEN {} ELSE {r \in Of(table) : r.refs[column] \in found}

Collaborations ==
  {r \in Of("collaborations") :
     Base("companies", Leaver) \in {r.refs.initiator_company_id, r.refs.target_company_id}}

\* Mutant: only its own orders are deleted.
OrdersOfItsOwn(table) == OwnIn(table)

\* Its own orders and those of its partners through a collaboration with it.
OrdersConcerned(table) ==
  OwnIn(table) \cup Under(table, "collaboration_id", Collaborations)

AllocationsConcerned(table) == Under("entry_allocations", "target_id", OrdersConcerned(table))

Delete(where, table, column, parents) ==
  [where |-> where, table |-> table, column |-> column, parents |-> parents]

Children(table, column, parents) == Delete("children", table, column, parents)

Owned(tables) == [i \in DOMAIN tables |-> Delete("owned", tables[i], "company_id", "companies")]

\* The DELETE statements, in their order.
Statements ==
  << Children("wallet_movements", "wallet_id", "wallets"),
     Children("entry_lines", "entry_id", "entries"),
     Children("entry_allocations", "entry_id", "entries"),
     Children("national_operation_lines", "national_operation_id", "national_operations") >>
  \o Owned(<<"supplier_balance_movements">>)
  \o << Children("client_balance_movements", "client_id", "clients") >>
  \o Owned(<<"proofs">>)
  \o << Delete("allocations", "entry_allocations", "target_id", "transfers"),
        Delete("allocations", "entry_allocations", "target_id", "payments") >>
  \o Owned(<<"transfer_status_history">>)
  \o << Delete("orders", "transfers", "collaboration_id", "collaborations") >>
  \o Owned(<<"payment_status_history">>)
  \o << Delete("orders", "payments", "collaboration_id", "collaborations") >>
  \o Owned(<<"entries", "national_operations", "wallets", "clients", "suppliers">>)
  \o << Delete("collaborations", "collaborations", "company_id", "companies") >>
  \o Owned(<<"private_sending_rates", "subscriptions", "notifications", "audit_logs", "users">>)
  \o << Delete("itself", "companies", "id", "companies") >>

\* The rows a statement finds.
Found(s) ==
  CASE s.where = "children" -> Under(s.table, s.column, OwnIn(s.parents))
    [] s.where = "owned" -> OwnIn(s.table)
    [] s.where = "allocations" -> AllocationsConcerned(s.parents)
    [] s.where = "orders" -> OrdersConcerned(s.table)
    [] s.where = "collaborations" -> Collaborations
    [] s.where = "itself" -> {r \in Of("companies") : r.key = Base("companies", Leaver)}

\* The rows that refer to one of some rows by a foreign key that does this on deletion.
Referring(delete, parents) ==
  LET tables == {Table(p) : p \in parents}
      keys == {k \in ForeignKeys : k.delete = delete /\ k.to \in tables}
  IN UNION {Under(k.table, k.column, parents) : k \in keys}

\* With what cascades from it: no chain of cascades is longer than two.
Doomed(set) ==
  LET once == set \cup Referring("cascade", set)
  IN once \cup Referring("cascade", once)

\* The rows the statement of this step deletes, and those that refuse it.
Deleted == Doomed(Found(Statements[deletion.step]))

Blocking == Referring("restrict", Deleted) \ Deleted

BeginDeletion ==
  /\ deletion.outcome = "none"
  /\ deletion' = [deletion EXCEPT !.outcome = "running"]
  /\ UNCHANGED <<rows, calls, made, removed>>

Execute ==
  /\ Running
  /\ deletion.step <= Len(Statements)
  /\ Blocking = {}
  /\ deletion' = [deletion EXCEPT !.step = @ + 1, !.deleted = @ \cup Keys(Deleted)]
  /\ UNCHANGED <<rows, calls, made, removed>>

\* A foreign key refuses the statement: everything is rolled back.
Refuse ==
  /\ Running
  /\ deletion.step <= Len(Statements)
  /\ Blocking # {}
  /\ deletion' = [deletion EXCEPT !.outcome = "refused", !.deleted = {}, !.blocking = Blocking]
  /\ UNCHANGED <<rows, calls, made, removed>>

\* What is left of a row whose references to deleted rows are set to null.
Remaining(r) ==
  [r EXCEPT !.refs = [c \in DOMAIN @ |->
     IF @[c] \in deletion.deleted
        /\ \E k \in ForeignKeys : k.delete = "set null" /\ k.table = Table(r) /\ k.column = c
     THEN Null ELSE @[c]]]

Commit ==
  /\ Running
  /\ deletion.step > Len(Statements)
  /\ rows' = {Remaining(r) : r \in View}
  /\ removed' = {r \in rows : r.key \in deletion.deleted}
  /\ deletion' = [deletion EXCEPT !.outcome = "done", !.deleted = {}]
  /\ UNCHANGED <<calls, made>>

DeletionNext == Work \/ BeginDeletion \/ Execute \/ Refuse \/ Commit

DeletionSpec == DeletionInit /\ [][DeletionNext]_deletionVars

---------------------------------------------------------------------------
(* Properties.                                                             *)

DeletionTypeOK ==
  /\ \A r \in rows : Columns(Table(r)) \subseteq DOMAIN r.refs
  /\ Cardinality(Keys(rows)) = Cardinality(rows)
  /\ deletion.outcome \in {"none", "running", "done", "refused"}
  /\ deletion.deleted \subseteq Keys(rows)
  /\ calls \in 0..MaxCalls

\* The partner's row of a collaboration, an order, or what belongs to an order.
Shared(r) ==
  \E c \in {"collaboration_id", "transfer_id", "payment_id", "target_id"} \cap DOMAIN r.refs :
    r.refs[c] # Null

\* A row of the partner's books that a user of the company wrote: the movement of a
\* payment it approved, of a client's debt it undid by a rejection.
WrittenForPartner(r) ==
  /\ Table(r) \in {"wallet_movements", "client_balance_movements"}
  /\ r.key[2] = Partner /\ r.refs.created_by_id = Base("users", Leaver)

\* A deletion that commits leaves no reference to a row that is gone, the allocations of
\* orders (no foreign key) included, and takes nothing of the partner's but what they
\* shared; one that is refused is so for a row the company wrote in its partner's books.
\* Either may differ for rows inserted while the deletion ran.
DeletionsAreClean ==
  /\ deletion.outcome = "done" =>
       /\ \A r \in rows : \A c \in DOMAIN r.refs :
            r.refs[c] \in Keys(rows) \cup {Null} \cup made
       /\ \A r \in removed : r.key[2] = Partner => Shared(r)
  /\ \A r \in deletion.blocking : r.key \in made \/ WrittenForPartner(r)

\* "L'ordre de suppression respecte les contraintes FK RESTRICT présentes dans le
\* schéma": a deletion nobody disturbs is never refused.
DeletionsComplete == deletion.outcome = "refused" => made # {}
============================================================================
