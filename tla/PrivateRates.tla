---------------------------- MODULE PrivateRates ----------------------------
(***************************************************************************)
(* The private sending rates of a company for one source currency.  A rate *)
(* has a slot: the collaboration, the mode of sending and the target       *)
(* currency it is for, each possibly null; one rate of a slot is meant to  *)
(* be active, and a transfer takes the active rate of the most specific    *)
(* slot.  The active rate of a slot is read without a lock, then retired.  *)
(***************************************************************************)
EXTENDS Transactions

CONSTANTS
  Partners,         \* the company's collaborations
  Modes,            \* transfer.send_mode
  Targets,          \* target currencies
  Anything,         \* null: any collaboration, mode or currency
  PartnerCurrency,  \* [Partners -> Targets]: collaboration.currency
  RateBodies,       \* the slots asked for in bodies of set_rate
  MaxPrivateRates   \* bound: rows of private_sending_rates

Slot == [partner : Partners \cup {Anything}, mode : Modes \cup {Anything},
         target : Targets \cup {Anything}]

ASSUME PrivateRatesAssumption ==
  /\ Anything \notin Partners \cup Modes \cup Targets
  /\ PartnerCurrency \in [Partners -> Targets]
  /\ RateBodies \subseteq Slot
  /\ MaxPrivateRates \in Nat

VARIABLES
  privateRates,   \* Seq([slot, active]): private_sending_rates
  changingRate,   \* [Requests -> a change of rate in progress]
  racedSlots      \* history: the slots written from a stale read

rateVars == <<privateRates, changingRate, racedSlots>>

NoSlot == [partner |-> "none", mode |-> "none", target |-> "none"]

NotChanging ==
  [does |-> "nothing", subject |-> NoSlot, retired |-> 0, rate |-> 0, overtaken |-> FALSE]

RatesInit ==
  /\ privateRates = <<>>
  /\ changingRate = [r \in Requests |-> NotChanging]
  /\ racedSlots   = {}

---------------------------------------------------------------------------
\* _resolve_target_currency: a rate for a collaboration aims at the collaboration's
\* currency unless the body says otherwise.
Resolved(b) ==
  IF b.target = Anything /\ b.partner # Anything
  THEN [b EXCEPT !.target = PartnerCurrency[b.partner]] ELSE b

\* get_active_by_scope; the country of a rate is not part of its slot.
ActiveIn(slot) ==
  {i \in DOMAIN privateRates : privateRates[i].active /\ privateRates[i].slot = slot}

\* scalar_one_or_none: none, or the only one; with two the request fails.
OnlyActive(slot, i) ==
  IF ActiveIn(slot) = {} THEN i = 0 ELSE ActiveIn(slot) = {i}

\* set_rate up to its writes.
StartSetRate(r, b) ==
  LET slot == Resolved(b)
  IN /\ changingRate[r].does = "nothing"
     /\ Len(privateRates)
          + Cardinality({x \in Requests : changingRate[x].does = "set"}) < MaxPrivateRates
     /\ \E i \in 0 .. Len(privateRates) :
          /\ OnlyActive(slot, i)
          /\ changingRate' = [changingRate EXCEPT ![r] =
               [NotChanging EXCEPT !.does = "set", !.subject = slot, !.retired = i]]
     /\ UNCHANGED <<privateRates, racedSlots>>

\* set_active_status(True): the rate that is active instead, if there is another, is
\* to be retired.  A rate that was read active is not written.
StartActivate(r, i) ==
  LET slot == privateRates[i].slot
  IN /\ changingRate[r].does = "nothing"
     /\ \E j \in 0 .. Len(privateRates) :
          /\ OnlyActive(slot, j)
          /\ changingRate' = [changingRate EXCEPT ![r] =
               [NotChanging EXCEPT !.does = "activate", !.subject = slot,
                                   !.retired = IF j = i THEN 0 ELSE j,
                                   !.rate = IF privateRates[i].active THEN 0 ELSE i]]
     /\ UNCHANGED <<privateRates, racedSlots>>

\* set_active_status(False).
StartDeactivate(r, i) ==
  /\ changingRate[r].does = "nothing"
  /\ changingRate' = [changingRate EXCEPT ![r] =
       [NotChanging EXCEPT !.does = "deactivate", !.subject = privateRates[i].slot,
                           !.retired = IF privateRates[i].active THEN i ELSE 0]]
  /\ UNCHANGED <<privateRates, racedSlots>>

\* Mutant: the rate that was active stays active.
NotRetired(i) == privateRates

Retired(i) == IF i = 0 THEN privateRates ELSE [privateRates EXCEPT ![i].active = FALSE]

CommitRate(r) ==
  LET q == changingRate[r]
  IN /\ q.does # "nothing"
     /\ privateRates' =
          CASE q.does = "set" -> Append(Retired(q.retired), [slot |-> q.subject, active |-> TRUE])
            [] q.rate # 0     -> [Retired(q.retired) EXCEPT ![q.rate].active = TRUE]
            [] OTHER          -> Retired(q.retired)
     /\ changingRate' = AfterCommit(changingRate, r, NotChanging)
     /\ racedSlots' = RacedAfter(racedSlots, q)

AbortRate(r) ==
  /\ changingRate[r].does # "nothing"
  /\ changingRate' = [changingRate EXCEPT ![r] = NotChanging]
  /\ UNCHANGED <<privateRates, racedSlots>>

RatesNext ==
  \/ \E r \in Requests, b \in RateBodies : StartSetRate(r, b)
  \/ \E r \in Requests, i \in DOMAIN privateRates : StartActivate(r, i) \/ StartDeactivate(r, i)
  \/ \E r \in Requests : CommitRate(r)
  \/ \E r \in Requests : AbortRate(r)

RatesSpec == RatesInit /\ [][RatesNext]_rateVars

---------------------------------------------------------------------------
(* What create_transfer makes of the rates.                                *)

\* The slots a transfer looks into, the most specific first: the collaboration and
\* the mode, the collaboration, neither; in each the target currency, then any.
SlotsTried(p, m, t) ==
  LET Try(partner, mode, target) == [partner |-> partner, mode |-> mode, target |-> target]
  IN << Try(p, m, t), Try(p, m, Anything), Try(p, Anything, t), Try(p, Anything, Anything),
        Try(Anything, Anything, t), Try(Anything, Anything, Anything) >>

\* The rates it may take: those of the first slot that has an active one.
RatesFor(p, m, t) ==
  LET tried == SlotsTried(p, m, t)
  IN UNION {ActiveIn(tried[n]) :
              n \in {k \in DOMAIN tried : \A j \in 1 .. k - 1 : ActiveIn(tried[j]) = {}}}

---------------------------------------------------------------------------
\* Every row has its type, and an open change names rows that exist.
RatesTypeOK ==
  /\ privateRates \in Seq([slot : Slot, active : BOOLEAN])
  /\ \A r \in Requests :
       /\ changingRate[r].does \in {"nothing", "set", "activate", "deactivate"}
       /\ {changingRate[r].retired, changingRate[r].rate} \subseteq 0 .. Len(privateRates)
  /\ racedSlots \subseteq Slot

\* One rate applies to a transfer, whatever slots are filled ("c'est celui-là qui sera
\* utilisé pour les prochains envois"), unless two changes of one of its slots
\* overlapped: both then leave their rate active.
TransfersHaveOneRate ==
  \A p \in Partners, m \in Modes, t \in Targets :
    LET tried == SlotsTried(p, m, t)
    IN (\A n \in DOMAIN tried : tried[n] \notin racedSlots) => Cardinality(RatesFor(p, m, t)) <= 1

\* A new rate takes effect: once it is set, a transfer of its slot takes it and no
\* earlier one, unless changes of the slot overlapped
\* (test_private_rate_versioning_deactivates_previous).
NewRatesTakeEffect ==
  [][\A p \in Partners, m \in Modes :
       LET slot == [partner |-> p, mode |-> m, target |-> PartnerCurrency[p]]
           new == Len(privateRates')
       IN /\ new > Len(privateRates)
          /\ privateRates'[new].slot = slot
          /\ slot \notin racedSlots'
          => RatesFor(p, m, PartnerCurrency[p])' = {new}]_privateRates
============================================================================
