# D-Transfert: specification and verification

D-Transfert is the backend of a money-transfer service used by agencies ("companies").
A company keeps wallets, receives money from clients, moves money between its own
wallets, and works with other companies ("collaborators") who pay beneficiaries on its
behalf. The program is FastAPI with SQLAlchemy's async ORM over PostgreSQL.

This directory holds TLA+ modules translated from `app/`, TLC configurations that check
small instances of them, and TLAPS proofs of their safety properties for every instance.
`PROJECT.json` maps each definition to the lines it models, lists the runs, the mutants
(plausible bugs each property was seen to catch), the hazards and the theorems.

    tlc -workers 2 -config MCNationalOperations.cfg MCNationalOperations
    tlapm NationalOperationsProofs.tla

## 1. The system

### How a request runs

Every HTTP request has one session and one transaction (`core/database.py`): READ
COMMITTED, autoflush off, objects not expired at commit. A handler runs SELECTs, changes
ORM objects, flushes, and commits once at its end; an exception leaves the session to be
closed, which rolls everything back. Three facts decide what can go wrong:

- **Row locks.** `SELECT ... FOR UPDATE` is used by `lock_by_id` of wallets, transfers
  and payments, and nowhere else. A lock lasts until the transaction ends. Entries,
  allocations, clients, collaborations, rates, suppliers and users are read without a lock.
- **Absolute writes.** The ORM writes `UPDATE ... SET balance = <value>` with a value
  computed in Python from the row as it was read. Without a lock, a concurrent change is lost.
- **Only changed columns are written.** A status recomputed to its old value writes nothing.

### Components

| Component | State | Operations | What makes it correct |
|---|---|---|---|
| Wallets and movements | balance, status, append-only movements | `apply_movement`, `create_wallet`, `set_wallet_status` | every cent explained by a movement, never negative, only active wallets move |
| National operations | operation, lines, reference | `create_operation`, `cancel_operation` | all or nothing, balanced lines, one reversal, references without a gap, no deadlock |
| Entries | entry, lines on wallets, allocations, status | `create_entry`, `merge_entries`, `cancel_entry` | never give more than was received; the status says what is left |
| Transfers, payments | order, status, history | create, approve, reject, cancel | decided once; settled if and only if approved; a closed order leaves no trace on entry and client |
| Clients | balance, append-only movements | `get_or_create_client`, `apply_balance_delta`, `reverse_movements_for_source` | the balance is the sum of the movements |
| Shared balance | append-only debtor/creditor movements | `create`, `get_balance_for_company` | one movement per approved order |
| Collaborations | status, rate proposals and history | request, accept, reject, cancel, update, propose/accept/reject rate, suspend, archive | one open collaboration per pair, one pending proposal, decided by the other party; what was agreed stays |
| Private rates | rates with an active flag | `set_rate`, `set_active_status`, the choice in `create_transfer` | one active rate per slot; a transfer takes the most specific |
| Authentication, sessions | users, failed attempts, one-time codes, revoked tokens | login, refresh, logout, reset, the checks of each call | guesses are bounded; nothing is granted to who was barred; a reset ends every session |
| Employees, companies, settings | rows, grants, company status, maintenance | create, permit, (de)activate, delete, suspend, approve | decisions bar what starts after them |
| Platform administrators | rows | create, suspend, delete | an active one stays |
| Deletion of a company | all tables | 25 statements in one transaction | nothing dangles, nothing of the partner's goes but what was shared |
| Notifications | rows, in-process subscribers | `notify`, broadcast after commit, stream, mark as read | heard only after the row is visible, never after a rollback, by every open stream |
| Suppliers | balance, movements | create, rebalance | balance and wallet are the sum of the movements |
| Proofs of payment | file and status | upload, status of the order | follows the decision |
| HTTP layer | none | endpoints with a scope and permissions | one transaction per request, the caller checked first |
| Backups, audit, logs, dashboards | files, append-only rows, none | | |

Interactions: national operations, entries, orders and suppliers all move money through
`apply_movement`; orders read and mark entries, charge clients, and on approval append
to the shared balance; orders need an accepted collaboration with a current rate and,
for transfers, an active private rate; every mutation appends an audit row and most
insert a notification in the same transaction. Every call but login, refresh, registration
and reset goes through `get_current_user`, which reads token, user, company, settings and
permissions in separate statements. The deletion of a company crosses every table.

### What is hard in it

Two requests in an order nobody tested; rows read without a lock and written later;
locks taken in two orders; money rounded after it was balanced; status recomputed from
allocations whatever it was; a merge or a refund of an entry an order still names; the
two companies of a collaboration deciding at once on rows neither locks; tokens issued
while the password is reset; a broadcast between a commit and a crash; a deletion ordered
by hand over 26 tables of foreign keys. The
hazards in `PROJECT.json` list these at their lines, with the properties that cover them.

## 2. The modules

    Money ── WalletService ─┬─ NationalOperations ─┬─ MCNationalOperations
                            │      │ refines       └─ NationalOperationsProofs
                            │      WalletLedger ──── WalletLedgerProofs
                            ├─ EntryService ── Settlements ─┬─ MCSettlements ──┐
                            │                               └─ SettlementRaces ┴ MCSettlementRaces
                            │                                        └─ SettlementsProofs
                            └─ Suppliers ─────────┐
    Transactions ─┬─ PrivateRates, Proofs, Notifications ─┴─ BackOffice ─┬─ MCBackOffice
                  ├─ PlatformAdmins ─┐                                   └─ BackOfficeProofs
    Endpoints ────┴─ Sessions ───────┼─ Platform ─┬─ MCPlatform
    Schema ── CompanyDeletion ───────┘            └─ PlatformProofs
    Collaborations ─┬─ MCCollaborations
                    └─ CollaborationsProofs
    DataLemmas, MoneyLemmas ── the five *Proofs of the services

- **Money**: exact amounts (integers in `SubUnits` to the cent) and cents, with the
  code's `quantize(0.01, ROUND_HALF_UP)` between them.
- **WalletService**: `apply_movement` on a wallet row: its three refusals (`CanApply`),
  the balance written (`Applied`), the movement inserted (`MovementOf`). Every module
  that moves money uses these.
- **WalletLedger**: the abstract promise. In a step each wallet either keeps its balance
  and its journal or, being active, gets one movement that starts at the balance found
  and ends at the one left. It knows no request, lock or operation.
- **NationalOperations**: `create_operation` and `cancel_operation` as transactions with
  row locks. `request[r]` is what a handler holds in memory: the lines, the wallets still
  to lock, the rows it read. The steps are the statements another transaction can come
  between: `StartCreate`/`StartCancel` (body validation, unlocked reads), one
  `LockWallet` per row, `TakeReference`, `Post` (the rest, to the commit). Refusals
  (`LockRefused`, `NumberingRefused`, `PostRefused`), a lost connection (`Disconnect`)
  and PostgreSQL's choice of a deadlock victim (`DeadlockVictim`) roll back.
  `CreateWallet` and `SetWalletStatus` are the wallets' own operations.
- **EntryService**: `available_by_currency`, `recompute_status` and the distribution of
  what is left of a merged entry over its lines, as operators.
- **Settlements**: entries, orders, clients, shared balance and wallets of two
  collaborating companies. `create_*` is `Start...` (entry and allocations read, amounts
  split), `ReadClient` (client row read, or its creation begun), `CommitOrder`. Rejection
  and cancellation are `StartClose` (order locked), `ReadClient`, `CommitClose`.
  `merge_entries` and `cancel_entry` are a reading and a writing step. Approval and
  `create_entry` read only rows they have locked, so each is one step.
- **SettlementRaces**: history on top of `Settlements`, with every step as it is there. It records
  whose reading of an entry or a client another commit has made old (`staleEntries`,
  `staleClients`), on which entries and clients such a request committed all the same
  (`racedEntries`, `racedClients`), and which cancelled entries came back (`reopened`).
- **Transactions**: what the following modules share: requests served at the same time,
  and the history of who read an old row.
- **Collaborations**: a handler is a `Start...` (the collaboration read, party and status
  checked), `ReadProposal` (the pending proposal, with `Refuse` for one too many) and a
  `Commit...` that writes by primary key whatever happened meanwhile. `FailUndefined` is
  suspend and archive: `_other_party` is defined in the router's module, not in the
  service's, so both end in a `NameError` and change nothing. A request keeps the
  `current_rate_id` of the collaboration it was given: the old rate of a proposal is that one's,
  whatever is current when the pending proposal is read. `told` is the rows of notifications,
  each with the company that acted and the proposal it announces.
- **Suppliers**: `StartRebalance` reads the supplier, `LockWallet` waits for the wallet's
  row and takes a reference, `CommitRebalance` writes both balances; `MoveElsewhere` is any
  other service on the wallet.
- **PrivateRates**: changes of rate as a reading and a writing step; `RatesFor` is the
  choice of `create_transfer` (six slots, the most specific first).
- **Proofs**: uploads (file, then row) beside decisions, which hold the order's lock and
  update the proofs committed by then.
- **Notifications**: `Notify` inserts and sets a broadcast aside in the session;
  `CommitNotifications`, then `BroadcastAfterCommit` to the queues of that moment; `RollBack`
  discards; `Deliver`, `Subscribe` and `Unsubscribe` are a stream's; `Crash` loses whatever
  the process held.
- **BackOffice**: the four above side by side. They write no row in common, so a behaviour
  of the composition serves requests of one of them; nothing is lost by not interleaving.
- **Endpoints**: every endpoint that wants a caller, with the scope and the permissions its
  dependencies ask for, router by router.
- **Sessions**: accounts, tokens, codes. `StartLogin`/`FailLogin`/`FinishLogin`,
  `StartRefresh`/`ReadUser`/`FinishRefresh`, `StartCall`/`ReadUser`/`Serve`,
  `StartReset`/`FailReset`/`FinishReset` are the statements between which another request
  can commit; `Write` is the ORM's rule that only changed columns are written. Decisions of
  owners and administrators (`Register`, `SetCompanyStatus`, `UpdatePermissions`, ...) are
  one step each, guarded by who can take them: `SetActive` spares the administrator's own account
  and the last active one, `DeleteAdmin` too, and `DeleteCompany` deletes the company's users. A
  deleted user is `gone`: a request that read its row still knows what it was. Time is seconds
  (`now`): a token has the second it was issued in, `changedAt` the one in which
  `reset_password` computed `password_changed_at`, before its commit, and a session is stale if
  the first is not later than the second (the time of the reset has microseconds, the token's is truncated).
  A lock expires by `LockExpires`; a token or code that expired is one nobody presents. `Logout`
  revokes the access token of its call and whatever refresh token it is sent.
- **PlatformAdmins**: suspension and deletion of super administrators, who are counted
  before and written after.
- **Schema**: the foreign keys, table by table, with what each does on deletion.
- **CompanyDeletion**: rows as keys and references. Service calls insert and delete the rows
  they do in the code; the deletion executes its 25 statements (`Statements`), each of which
  finds rows, takes what cascades and is refused by what restricts; it runs beside other calls.
- **Platform**: sessions, administrators and the deletion side by side, as BackOffice. They do share
  rows: `delete_company` and `delete_platform_admin` delete users, whom `Sessions` keeps. Each part
  has the accounts it needs, and the decisions that reach into another part are repeated there
  (`DeleteCompany`, `DeleteAdmin` and `SetActive` of `Sessions`).
- **MC\*** modules: the instances. **\*Proofs**: the theorems. **DataLemmas**, **MoneyLemmas**: the
  lemmas they share, on sequences, sets and sums, and on rounding.

### Reductions and omissions inside the modules

- A handler that reads and writes only rows it holds locked until its commit is one step.
  Several SELECTs of one handler with no lock between them are read as one snapshot; the
  waits of foreign-key checks are ignored.
- The lines of an operation or an entry all have the same `created_at` (`now()` is the
  start of the transaction), so an ORDER BY on it allows any order: `LockOrders` and
  `Remainders` are sets.
- One line per wallet in a body; several lines on one wallet add up under the same lock.
- Reference numbers are those of a single day. Entries, transfers and payments number
  theirs by the same function, which `Settlements` leaves out; its `Abort` covers the
  failures of the unique constraint.
- `Settlements` takes the collaboration, its rate and the private rates as constants; proofs
  of payment and notifications have modules of their own; history rows and audit are left out.
- **Races as history.** Where the code locks nothing, overlapping requests break what a
  request alone keeps. `overtaken` (`stale...` in `SettlementRaces`) marks an open request when another
  one commits on the same subject (pair of companies, supplier, slot of a rate, account, entry,
  client), and `raced...` the subjects on which such a request committed all the same. Properties
  speak of the subjects that are not raced, whatever happens to the others at the same time; the runs
  `double_spend` and `accepted_terms` show what happens on a raced one, and the mutants that the
  exemption leaves much to violate.
- The history of `Sessions` is about the moment of a reset only: a pair of tokens is `raced` if its
  password was checked before a reset that was over when it was issued, or if it was issued in a later
  second than a reset under way took its time. What makes an older session stale is the
  comparison of times the code makes.
- In `Sessions` the history `barred` holds what barred a request in *every* state from its
  start to its granting. Nothing weaker can be asked of checks made on unlocked rows one
  after another, and nothing stronger is: a decision bars whatever starts after it.
- A refresh does not revoke the token it is given, does not look at the maintenance mode, and a
  password set by an employer or administrator (`update_employee`, `update_company_user`,
  `update_platform_admin`) leaves sessions valid: the model has the first two as the code has
  them, and leaves the third out, which changes no state it keeps.
- A code that was superseded by a newer one is looked at again once the newer is used.
- A deactivated wallet is not an action of `Settlements` (it is one of
  `NationalOperations`); a refusal by an inactive wallet only keeps an action from happening.

## 3. The runs

| Run | Question | Answer |
|---|---|---|
| `national_operations` | two concurrent requests, four wallets, two companies, three operations, half cents | holds (88,661 states) |
| `double_reversal` | is an operation cancelled at most once? | **no** |
| `settlements` | two concurrent requests on two entries, two orders, half cents, two currencies | holds (534,577 states) |
| `settlements_merges` | two concurrent requests on three entries of which two merge, two orders | holds (292,100 states) |
| `double_spend` | can two orders spend the same money of an entry? | **yes** |
| `stranded_entry` | does closing an order make its entry usable again? | **not if it was merged** |
| `reopened_entry` | does a cancelled entry stay cancelled? | **no** |
| `collaborations` | two concurrent requests of two companies, on unlocked rows | holds (523,017 states) |
| `accepted_terms` | is an accepted collaboration never cancelled nor updated? | **no** |
| `back_office` | two concurrent requests to suppliers, rates, proofs or notifications | holds (250,905 states) |
| `platform` | sessions under guesses, resets and decisions; administrators; a deletion | holds (502,468 states) |
| `undeletable_company` | can a company always be deleted? | **no** |

`national_operations` checks that a held row is still the row that was read
(`LocksProtect`), every line is posted exactly once and a reversal gives back what was
posted (`LinesArePosted`), references run 1, 2, 3... (`ReferencesAreSequential`),
creations never deadlock among themselves (`CreationsNeverDeadlock`), an operation in one
currency is out of balance by its rounding at most, half a cent a line, and not at all where
amounts are whole cents (`OperationsAreBalanced`), a company moves only its own wallets
(`CompaniesAreIsolated`), the whole implements `WalletLedger` (`ImplementsLedger`) and
every request ends (`RequestsEnd`). Absence of deadlock as such is not claimed:
cancellations lock in an arbitrary order, TLC reaches cycles, and PostgreSQL breaks them.

`settlements` checks what the order's row lock protects, whatever overlaps: a decision is never
replaced (`OrdersAreDecidedOnce`), an order moves the shared balance if and only if it is
approved (`ApprovalsAreSettled`), only a pending or approved order holds an allocation
(`AllocationsFollowDecisions`), a rejected or cancelled one leaves its client even
(`ClosedOrdersLeaveClientsEven`). And it checks what holds of every entry and every client no commit
raced on, whatever other requests are doing meanwhile: an entry never gives more than it received
(`EntriesNeverOverdrawn`), its stored status is the one its allocations give
(`EntryStatusIsCurrent`), no order holds money of it once it is cancelled
(`CancelledEntriesAreUnused`), a client's balance is the sum of its movements
(`ClientBalanceIsExplained`), an order pays what its entry gave and its client owes, but for one
cent of rounding (`OrdersAreFunded`), and a cancelled entry comes back only by the closing of an
order that holds nothing of it (`OnlyEmptyOrdersReopen`; that it does come back is the run
`reopened_entry`). The run uses `RaceSpec`, whose steps are those of `Spec` with the history.

`settlements_merges` adds the merge: it neither creates nor loses usable money
(`MergesPreserveFunds`), and a wallet holds its opening balance and what entries, refunds and
approved orders did to it, as long as no entry with money on it was raced on or reopened
(`WalletsMatchBooks`).

`collaborations` checks that a pair of companies has one open collaboration
(`OneActivePerPair`) with at most one pending proposal, decided by the party that did not
make it, and a current rate that was accepted (`QuietPairsAgree`, which also wants a proposal's old
rate to be the one in force), that what was agreed stays until the two agree again
(`AgreedTermsAreFinal`: an accepted collaboration may be suspended or archived, as `TODO.md:665-673`
says, even though the code that would do it fails), all for pairs whose requests did not overlap. It
also checks, with no such exemption, that every offer, the first and each later one, was announced to
the party that did not make it and to it alone, and every verdict to the party that waited for it
(`CounterpartIsTold`). Overlapping requests break the first two in the obvious ways (two requests, two
proposals). The third one is broken by a cancellation or an update that read the collaboration while
it was pending and writes after it was accepted: `accepted_terms`. `QuietPairsAgree` also records that a target may reject the first rate by itself and
then accept: a collaboration without a rate, on which no order can be created until one is proposed.

`back_office` checks that a supplier's balance is its opening one moved by its rebalancings
(`SupplierBalanceIsExplained`: not if two overlapped), that the wallet is right whatever
overlaps (`WalletsFollowRebalances`: it is locked), that one rate applies to a transfer
(`TransfersHaveOneRate`), that proofs committed
when the decision went over them follow it, while later ones stay pending for ever
(`ProofsFollowDecisions`), that a stream hears only committed rows of its company, once
(`NothingPhantomHeard`), and hears all of them as long as it is open and the process runs
(`ConnectedListenersHear`, liveness).

`platform` checks that wrong passwords and codes are counted exactly and bounded on accounts
no two requests wrote at a time (`GuessesAreBounded`), that a reset ends the sessions begun
under an earlier password, by comparing the code's times (`EarlierSessionsAreOver`: except tokens whose
password was checked before the reset and which were issued in a later second than the reset took
its time, of which the comment at `auth_service.py:224` says they cannot be), that nothing is
granted to who was barred all along (`NothingGrantedWhileBarred`), that an active super
administrator stays unless removals overlapped (`LastAdminStays`), and that a deleted
company leaves nothing dangling and takes nothing of its partner's but what they shared
(`DeletionsAreClean`). An order created between the deletion of allocations and the deletion of
orders goes without its allocation; rows made while the deletion ran are therefore exempt.

### Findings

1. **Double reversal** (`national_operation_service.py:153`). The status is checked before
   the locks and never again, so two overlapping cancellations both post a reversal, although
   the message and `test_cancel_already_cancelled_operation_rejected` say it is refused.
2. **Accepted, then cancelled** (`collaboration_service.py:159`). Acceptance and cancellation both
   check "pending" on unlocked reads: overlapping, both succeed, and the accepted collaboration ends
   cancelled, although `test_cannot_update_or_cancel_accepted_collaboration` expects a refusal. An
   update (line 200) rewrites the accepted currency and rate in the same way.
3. **Double spend** (`transfer_service.py:152`). Two orders on one entry both get all of
   it, and no client debt is recorded.
4. **Stranded entry** (`transfer_service.py:404`). What a rejected order gives back to an
   entry merged meanwhile can no longer be used, merged or refunded.
5. **Reopened entry** (`payment_service.py:377`). An order without an allocation (other
   currency) does not stop the refund of its entry; its rejection makes the cancelled entry unallocated,
   and it can be refunded again.
6. **Undeletable company** (`admin_service.py:620`). Approving a partner's payment made from
   a wallet, or rejecting a partner's order with a client's debt, writes a movement in the
   partner's books in the name of the company's user. `delete_company` deletes only the
   movements of the company's own wallets and clients, then its users, which the foreign key refuses.

Also met while modelling, without a run of its own:

- Suspend and archive always fail (`collaboration_service.py:389, 417`), so no collaboration ever
  leaves `accepted` that way.
- The body's balance is checked exactly and each line is then rounded (`wallet_service.py:30`): +0.005,
  +0.005, -0.01 posts +0.01, +0.01, -0.01, while `TODO.md:526` says "Total des entrées = Total des
  sorties". `OperationsAreBalanced` says how far apart they can be; with `SubUnits` = 1 it is equality.
- An approved transfer is recorded in the shared balance in its target currency
  (`transfer_service.py:342`), and `collaborator_balance_repository.py:36` adds the amounts of all
  currencies, while `TODO.md:164-168` and `700` want it in the collaboration's main currency.

### Bounds, and why they are enough

- *Requests* = 2: every property is about a pair of transactions, or one and the
  committed state. The proofs of section 4 lift what is said of
  overlapping requests to any number. Requests are interchangeable and no MC constant names one, so
  the two settlement runs use their symmetry; their temporal properties are action
  properties on rows, which a permutation of requests leaves as they are. No liveness
  property is checked under symmetry.
- `MaxOperations` = 3: an operation, its cancellation and a third one between or after
  them. Wallets: three in one currency and one in another. Two amounts of half a cent against one of a
  cent are rounded apart, operations in both directions make cycles of waits possible, a rate crosses
  currencies, and a body may declare a currency its wallet does not have. `SubUnits` = 2: half cents.
- *Entries*: one received on two wallets and one on one wallet of the same currency (a
  distribution of the remainder over lines exists), and the entry a merge makes of
  them. *Orders*: 2, in bodies that ask for more than the entry has, as much, and
  less, with each of the three fates of the rest, a payment from a wallet, and clients
  named by the body or by the entry. Amounts are a few cents and half cents (`SubUnits` = 2), and
  one order is in a currency its entry never received. `settlements_merges` has a third entry, the merged
  one, and two bodies.
- *Collaborations*: two companies, two rates, one opening body, one update that changes the rate and
  not the currency (both are written by the same request from the same check; the theorem
  `AgreedTermsStay` covers both), `MaxRows` = 4 rows of collaborations and proposals: two collaborations
  in succession, or one with three proposals. Companies and requests are interchangeable (no
  constant names one), so their symmetry is used; there is no liveness property.
- *Back office*: two suppliers and two wallets of which one bears only one payment, three
  movements; three rates over three slots of a transfer's six, the ones a body can reach from
  one collaboration; one transfer and one payment, two proofs; two companies, two streams,
  two notifications in up to two transactions. Each is one more than the pair its properties relate.
- *Platform*: one user in seven scenarios (`MCScenarios`), each a bound on one kind of event:
  guesses of passwords and a code, sessions across a reset, or two or three decisions
  while calls of three scopes are made. `MaxFailed` and `MaxCodeAttempts` are 2 instead of 5.
  Three administrators (two may fall while a third acts). Two companies and two service calls
  before, during or after the deletion, on top of rows in every table: an order needs one
  call and its approval, rejection or proof the second.
- `CHECK_DEADLOCK FALSE` in the runs other than `MCNationalOperations`: when the bounds
  are reached (every order decided, every entry spent, every call made), the system rightly
  has nothing left to do. `MCNationalOperations` does check deadlock.

### Fairness

`FairSpec` asks for strong fairness of `Proceed(r)`, what a started handler does by
itself. Its justification: the event loop resumes every coroutine whose awaited query
has returned; PostgreSQL queues the waiters of a row, so a waiter is not passed over
for ever (weak fairness would allow that, the row being taken again and again); its deadlock
detector always ends a cycle. Starting requests, disconnecting and administration are not fair.
`RequestsEnd` fails when locks are not released, as its mutant shows. `BackOffice` asks for
weak fairness of `BroadcastAfterCommit` and `Deliver`: the event loop goes on with a coroutine
whose commit returned and with a stream whose queue is not empty; nothing is assumed of
services, users or browsers. `Settlements` claims no
liveness: no rule says that an order must be decided.

## 4. What is proved

42 theorems; each holds for all values of the constants that satisfy the named assumptions of
its module. The assumptions give the constants their shape (an owner and a currency per wallet,
bodies the schemas accept, two parties of a collaboration) and say that requests, wallets and
companies are finitely many, without which sums and counts mean nothing. TLC evaluates them in the runs.

`WalletLedgerProofs` (the abstract ledger):

- `LedgerTyped`, `JournalsExplainBalances`: balances are never negative and each wallet's
  journal is an unbroken chain from zero to its balance. The type invariant alone is inductive;
  the chain needs it.

`NationalOperationsProofs`:

- `TypeCorrect`, `LocksAlwaysProtect`: for any number of requests, a row a request holds is
  the row it read. `TypeOK` is not inductive alone: `Post` computes the new balance from the
  row in `request[r].seen` and writes it over `wallet`, so the two are inductive together (`IInv`).
- `NationalOperationsImplementLedger`: each step maps to a step or a stutter of
  `WalletLedger`. `Post` is the interesting case: each of its lines is a `Posted` step because
  the row read is the current row. `LedgerInv` adds `AbsentIsEmpty` to `IInv`, for the
  wallet that starts with a balance. With `JournalsExplainBalances` this says that no
  interleaving of operations, cancellations, failures and status changes loses a movement.
- `SortedLocksNeverDeadlock`: in any cycle of waits, of any length, some request is a
  cancellation. The invariant is `CreationsAscend`: a creation holds only wallets below all those
  it still wants. In a cycle of creations alone, the largest wallet awaited is held
  by a member that awaits a larger one.
- `CompaniesStayIsolated`: no operation and no reversal moves another company's wallet.
  A cancellation does not check whose wallets it locks; `LocksStayAtHome` says why it need
  not: its lines are those of an operation of the company, which is the property itself,
  so the two are inductive together with `IInv`.
- `ReferencesAreAlwaysSequential`: the number a request took is the next one, or one that others
  have issued since and the unique constraint refuses (`NumberTaken`).
- `LinesAreAlwaysPosted`: `LinesInv` adds to the property that a movement names an operation that
  exists and that a reversal, open or committed, mirrors its original. That a reversal moves
  exactly what was posted rests on `QuantizeExact`: a negated amount of whole cents is not rounded again.
- `OperationsAreAlwaysBalanced`, whatever amounts and currencies bodies declare: the exact amounts
  sum to zero (`CreationBalances`, on open requests too, since the currency a body declares is compared
  with the wallets' only once they are locked), a rounded amount differs from the exact one by half a
  cent at most (`QuantizeError`), and sums of terms that differ by at most d differ by d a term
  (`SumWithin`). A reversal mirrors what was posted.

`SettlementsProofs`, in two layers:

- Of `Spec`: `TypeCorrect`, `OrdersStayDecided`, `ApprovalsAreAlwaysSettled`,
  `AllocationsAlwaysFollowDecisions`, `ClosedOrdersAlwaysLeaveClientsEven`. `IInv` says what an open
  request has in hand: a closing holds the order's lock, so its order is still pending, no other
  request closes it (`ClosersApart`), and its allocations and the client's charge are still what it
  read; a creation's allocation and charge belong to an order that does not exist yet.
- Of `RaceSpec`, for any number of requests at the same time and any amounts and currencies:
  `EntriesAreNeverOverdrawn`, `EntryStatusIsAlwaysCurrent`, `CancelledEntriesAreNeverUsed`,
  `ClientBalanceIsAlwaysExplained`, `OnlyEmptyOrdersEverReopen`, `OrdersAreAlwaysFunded`,
  `MergesAlwaysPreserveFunds`, `WalletsAlwaysMatchBooks`. The inductive invariant, `RaceInv`, says
  that what an open request read of an entry or a client is still so unless it is marked stale, and
  that the unraced rows agree; a commit either is from a current reading, or races. No assumption says
  that requests are served one after another, or that amounts are whole cents. On top of it:
  - `FundsInv` gives each open creation its split between entry, client and fee, with the cent
    that half a cent of credit is rounded to.
  - For merges, what a merge has in hand is what its sources, distinct and of one company, can still
    pay; the rest is exchanging two sums, over sources and over lines (`SumsExchanged`).
  - `BooksInv`: each kind of commit moves the books and the wallet by the same amount, and a merged
    entry bears on a wallet only if one of its sources does (`LinesInv`, `Bears`). The books of a wallet
    stop matching only when an entry with money on it is raced on, or comes back to life: the
    refund stays posted but leaves the books.

`CollaborationsProofs`: `TypeCorrect`, `OneActivePerPairAlways`, `QuietPairsAgreeAlways`,
`AgreedTermsStay`, `CounterpartIsAlwaysTold`. A handler writes rows it read in earlier steps
without a lock, so the invariant is about those reads: as long as nobody else committed on its
pair, what it read is still so (`ReadsHold`), and on a pair without races the rows agree
(`QuietRows`). `CounterpartIsTold` needs none of it: it holds even where requests overlapped.

`BackOfficeProofs`: `TypeCorrect` and, service by service,

- `ProofsAlwaysFollowDecisions`: a decision holds the order's lock until it has updated the proofs
  committed by then, and a proof is late only where a decision was there (`LateIsDecided`).
- `TransfersAlwaysHaveOneRate`, `NewRatesAlwaysTakeEffect` (an action property): on a slot whose changes did
  not overlap one rate is active, and what a change read of it still holds.
- `NothingPhantomIsHeard`: what is broadcast was committed by the session that set it aside, no two
  sessions hold the same row, and none that is held has been heard.
- `SupplierBalanceIsAlwaysExplained`, `WalletsAlwaysFollowRebalances`: the wallet row a rebalancing holds
  is the current one; the supplier row it read is, unless another committed since.

`PlatformProofs`:

- `TypeCorrect`: with `WithinBounds` (sessions that exist and those about to be issued stay within the
  scenario) and `DeletionInv` (keys name rows, for every service call and every statement of the
  deletion, what a commit leaves of a row included).
- `EarlierSessionsAreAlwaysOver`: a reset takes its time before it commits, so the invariant relates the
  times of sessions and open resets to the second it is, on the typed rows and requests
  (`AccountsTyped`: a request in progress is about a pair or a code of its user).
- `GuessesAreAlwaysBounded`: `GuessesCounted` says that the row, the lock and the count of wrong guesses
  agree, and that what an open login or reset read is up to date as long as it is not overtaken.
- `NothingIsGrantedWhileBarred`: `RequestsUnbarred` says of every stage of a request which bars its checks
  so far have excluded.
- `AdminsTyped`, `AnAdminStays`: `LastAdminStays` is not inductive, the commit of a
  removal relies on a count made earlier. The strengthening (`RemovalsLeaveOne`) says that, as long as
  no other removal committed since, what an open removal counted still holds.
- `DeletionsAlwaysLeaveClean`: the order of the 25 statements is right, for any number of calls of the two
  companies before them and between any two. The argument has three layers. The schema: every foreign
  key is classified by its table and column (`Sound`), from which no chain of cascades is longer than two
  (`CascadesEnd`, what `Doomed` relies on). The rows: each has the references its table always has, to
  rows of the right table and, where `SameOwner` says so, of the same company (`Shaped`, kept by each of
  the calls). The deletion, in `CleanInv`: what a row refers to is seen, or deleted and about to be set
  to null (`Intact`); the rows of a table whose statement is past were made meanwhile (`Sweeping`);
  all that is marked is the company's own or shared (`PartnerSpared`). The statement that
  sweeps a table finds all of its rows because what they refer to is still there (`SweptFound`): tables
  that restrict are swept before those they refer to, so what refuses a statement was made meanwhile
  or written in the partner's books (`BlockingExplained`).

Sums are `SumFunction` and `SumFunctionOnSet` of the community modules. The library's induction takes an
operator as a parameter and cannot be cited, so `DataLemmas` derives what the proofs need of them
(a sum with one term more, scaled, non-negative, of two functions, of the rows or
the columns of a table) from a least natural number that
would be a counterexample.

Only model-checked: `RequestsEnd`, `ConnectedListenersHear` (liveness, out of the prover's reach).
Only proved: `NewRatesTakeEffect`, that a rate which is set is the one the next transfer takes. Every
safety property the passing runs check is also proved.

## 5. What is not modelled, and the plan

Done: every module of section 2, and the proofs of section 4.

Left out: backups (pg_dump and files), password hashing and token encoding, file contents,
rate limiting (a library), dashboards and reports (read-only; their endpoints and permissions are
in `Endpoints`), the demonstration script, changes of names, phones, currencies of a company and
its subscription (one row, no rule), matricules and their uniqueness (the numbering of
references in `NationalOperations` is the same pattern), the schemas' wording and pagination.
The shared balance adds amounts of different currencies
(`collaborator_balance_repository.py:36`), which `TODO.md:164-168` and `700` do not want; the model
records the movements as the code does, and no property speaks of their sum.
