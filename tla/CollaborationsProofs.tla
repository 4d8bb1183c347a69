------------------------ MODULE CollaborationsProofs ------------------------
(***************************************************************************)
(* Two companies agree once: for any number of companies, of requests      *)
(* served at the same time and of rows, what one request at a time keeps   *)
(* is kept by any interleaving in which no request of the pair commits on  *)
(* what it read before another one committed.                              *)
(***************************************************************************)
EXTENDS Collaborations, DataLemmas, FiniteSetTheorems, TLAPS

---------------------------------------------------------------------------
(* The inductive invariant.                                                *)

Handlers ==
  {"request", "accept", "reject", "cancel", "update", "propose", "accept_rate",
   "reject_rate", "shelve"}

Transaction ==
  [does : Handlers \cup {"nothing"}, stage : {"reading", "ready"},
   by : Companies \cup {Unset}, pair : SUBSET Companies, id : Nat, proposal : Nat,
   current : Nat,
   oldRate : Rates \cup {Unset}, rate : Rates \cup {Unset},
   currency : Currencies \cup {Unset}, overtaken : BOOLEAN]

\* A request to be: of two companies, in a currency, at a rate.
Asks(q) ==
  /\ q.rate \in Rates /\ q.currency \in Currencies
  /\ \E target \in Companies : target # q.by /\ q.pair = {q.by, target}

\* A request on a collaboration of its company, and on a proposal of that collaboration.
Concerns(q) ==
  /\ q.id \in DOMAIN collaborations
  /\ q.pair = Parties(q.id)
  /\ q.proposal # 0 =>
       /\ q.proposal \in DOMAIN proposals
       /\ proposals[q.proposal].collaboration = q.id
  /\ q.current # 0 => q.current \in DOMAIN proposals
  /\ q.does \in {"accept", "reject"} => q.by = collaborations[q.id].target
  /\ q.does = "cancel" => q.by = collaborations[q.id].initiator
  /\ q.does = "propose" => q.rate \in Rates /\ q.proposal = 0
  /\ q.does \in {"accept_rate", "reject_rate"} =>
       q.proposal # 0 /\ proposals[q.proposal].proposedBy # q.by

\* The handlers that read the pending proposal in a step of its own.
Readers == {"accept", "reject", "update", "propose"}

\* What a request holds in memory, as far as no other request can change it.
WellFormed(q) ==
  /\ q \in Transaction
  /\ q.stage = "reading" => q.does \in Readers /\ q.proposal = 0
  /\ q.does # "nothing" => q.by \in q.pair
  /\ q.does = "request" => Asks(q)
  /\ q.does \notin {"nothing", "request"} => Concerns(q)

RequestsTyped == \A r \in Requests : WellFormed(request[r])

\* The pair of a request that could commit now without a race.
Fresh(q) == ~q.overtaken /\ q.pair \notin raced

\* What a request read is still so.
StillTrue(q) ==
  /\ q.does = "request" =>
       \A k \in DOMAIN collaborations :
         Parties(k) = q.pair => collaborations[k].status \notin {"pending", "accepted"}
  /\ q.does \in {"accept", "reject", "cancel", "update"} =>
       collaborations[q.id].status = "pending"
  /\ q.does = "propose" =>
       /\ collaborations[q.id].status = "accepted"
       /\ q.current = collaborations[q.id].currentRate
       /\ q.stage = "ready" => q.oldRate = RateOf(q.current)
  /\ q.does \in Readers /\ q.stage = "ready" =>
       PendingProposals(q.id) = IF q.proposal = 0 THEN {} ELSE {q.proposal}
  /\ q.does \in {"accept_rate", "reject_rate"} => proposals[q.proposal].status = "proposed"

\* The reads of a request hold as long as nobody else committed on its pair.
ReadsHold == \A r \in Requests : Fresh(request[r]) => StillTrue(request[r])

\* What a pair without races keeps, in terms of its rows alone.
OnlyActive(k) ==
  \A j \in DOMAIN collaborations :
    /\ Parties(j) = Parties(k)
    /\ {collaborations[j].status, collaborations[k].status} \subseteq {"pending", "accepted"}
    => j = k

OnlyPending(k) == \A i, j \in PendingProposals(k) : i = j

OthersDecide(k) ==
  \A i \in DOMAIN proposals :
    proposals[i].collaboration = k /\ proposals[i].status # "proposed" =>
      proposals[i].decidedBy = OtherParty(k, proposals[i].proposedBy)

\* Before a collaboration is accepted only its initiator has proposed, and as long as
\* it has no rate there is its first proposal, rejected or still to be decided.
FirstProposals(k) ==
  /\ collaborations[k].status = "pending" =>
       \A i \in DOMAIN proposals :
         proposals[i].collaboration = k =>
           proposals[i].proposedBy = collaborations[k].initiator
  /\ collaborations[k].status \in {"pending", "accepted"} /\ collaborations[k].currentRate = 0 =>
       \E i \in DOMAIN proposals :
         /\ proposals[i].collaboration = k
         /\ proposals[i].oldRate = Unset
         /\ \/ proposals[i].status = "rejected"
            \/ proposals[i].status = "proposed" /\ collaborations[k].status = "pending"

RateAccepted(k) ==
  collaborations[k].currentRate # 0 =>
    proposals[collaborations[k].currentRate].status = "accepted"

\* A proposal still to be decided was made against the rate in force.
OldRatesInForce(k) ==
  \A i \in PendingProposals(k) : proposals[i].oldRate = RateOf(collaborations[k].currentRate)

QuietRows ==
  \A k \in DOMAIN collaborations :
    Parties(k) \notin raced =>
      /\ OnlyActive(k)
      /\ OnlyPending(k)
      /\ OthersDecide(k)
      /\ FirstProposals(k)
      /\ RateAccepted(k)
      /\ OldRatesInForce(k)

Typed == TypeOK /\ RequestsTyped

IInv == Typed /\ ReadsHold /\ QuietRows

---------------------------------------------------------------------------
(* What a commit writes.                                                   *)

PartiesOf(row) == {row.initiator, row.target}

\* Rows of the pair; what names a row, and whoever was told, stays.
Writes(pair) ==
  /\ told \subseteq told'
  /\ DOMAIN collaborations \subseteq DOMAIN collaborations'
  /\ DOMAIN proposals \subseteq DOMAIN proposals'
  /\ \A k \in DOMAIN collaborations :
       /\ collaborations'[k].initiator = collaborations[k].initiator
       /\ collaborations'[k].target = collaborations[k].target
       /\ Parties(k) # pair => collaborations'[k] = collaborations[k]
  /\ \A k \in DOMAIN collaborations' :
       k \notin DOMAIN collaborations => PartiesOf(collaborations'[k]) = pair
  /\ \A i \in DOMAIN proposals :
       /\ proposals'[i].collaboration = proposals[i].collaboration
       /\ proposals'[i].proposedBy = proposals[i].proposedBy
       /\ proposals'[i].oldRate = proposals[i].oldRate
       /\ Parties(proposals[i].collaboration) # pair => proposals'[i] = proposals[i]
  /\ \A i \in DOMAIN proposals' :
       i \notin DOMAIN proposals =>
         /\ proposals'[i].collaboration \in DOMAIN collaborations'
         /\ PartiesOf(collaborations'[proposals'[i].collaboration]) = pair

\* The collaboration of a request becomes row, the proposal it read becomes offer.
InPlace(q, row, offer) ==
  /\ DOMAIN collaborations' = DOMAIN collaborations
  /\ DOMAIN proposals' = DOMAIN proposals
  /\ \A k \in DOMAIN collaborations :
       collaborations'[k] = IF k = q.id THEN row ELSE collaborations[k]
  /\ \A i \in DOMAIN proposals :
       proposals'[i] = IF i = q.proposal THEN offer ELSE proposals[i]

\* What it becomes is a row like the one it was.
Like(q, row, offer) ==
  /\ row \in Collaboration
  /\ row.initiator = collaborations[q.id].initiator
  /\ row.target = collaborations[q.id].target
  /\ row.currentRate \in {collaborations[q.id].currentRate, q.proposal}
  /\ q.proposal # 0 =>
       /\ offer \in Proposal
       /\ offer.collaboration = q.id
       /\ offer.proposedBy = proposals[q.proposal].proposedBy
       /\ offer.oldRate = proposals[q.proposal].oldRate

---------------------------------------------------------------------------
(* Lemmas on rows.                                                         *)

LEMMA IdleIsTyped == Idle \in Transaction /\ Idle.does = "nothing"
BY DEF Idle, Transaction, Handlers

LEMMA IdleWellFormed == WellFormed(Idle) /\ StillTrue(Idle)
BY IdleIsTyped DEF WellFormed, StillTrue, Idle, Readers

\* The verdict on the proposal that was read.
LEMMA VerdictRows ==
  ASSUME Typed, NEW r \in Requests, Concerns(request[r]),
         request[r].does \in Handlers, NEW verdict \in RateProposalStatus,
         proposals' = Decided(request[r], verdict)
  PROVE  LET q == request[r]
             offer == [proposals[q.proposal] EXCEPT !.status = verdict, !.decidedBy = q.by]
         IN /\ proposals' \in Seq(Proposal)
            /\ DOMAIN proposals' = DOMAIN proposals
            /\ \A i \in DOMAIN proposals :
                 proposals'[i] = IF i = q.proposal THEN offer ELSE proposals[i]
<1> DEFINE q == request[r]
           offer == [proposals[q.proposal] EXCEPT !.status = verdict, !.decidedBy = q.by]
<1>1. proposals \in Seq(Proposal) /\ q.by \in Companies
  BY DEF Typed, TypeOK, RequestsTyped, WellFormed, Transaction, Handlers, Parties, Concerns
<1>2. CASE q.proposal = 0
  <2>1. 0 \notin DOMAIN proposals
    BY <1>1
  <2> QED BY <1>1, <1>2, <2>1 DEF Decided
<1>3. CASE q.proposal # 0
  <2>1. q.proposal \in DOMAIN proposals
    BY <1>3 DEF Concerns
  <2>2. proposals[q.proposal] \in Proposal
    BY <1>1, <2>1
  <2>3. offer \in Proposal
    BY <1>1, <2>2 DEF Proposal, RateProposalStatus
  <2>4. proposals' = [proposals EXCEPT ![q.proposal] = offer]
    BY <1>3 DEF Decided
  <2> HIDE DEF offer, q
  <2>5. /\ proposals' \in Seq(Proposal) /\ DOMAIN proposals' = DOMAIN proposals
        /\ \A i \in DOMAIN proposals :
             proposals'[i] = IF i = q.proposal THEN offer ELSE proposals[i]
    BY <1>1, <2>3, <2>4, SequenceChanged
  <2> QED BY <1>3, <2>5 DEF offer, q
<1> QED BY <1>2, <1>3

\* The rows each in-place commit leaves.
AcceptedRow(q) ==
  [collaborations[q.id] EXCEPT !.status = "accepted",
                               !.currentRate = IF q.proposal = 0 THEN @ ELSE q.proposal]

OfferAs(q, verdict) ==
  [proposals[q.proposal] EXCEPT !.status = verdict, !.decidedBy = q.by]

RowAs(q, status) == [collaborations[q.id] EXCEPT !.status = status]

RatedRow(q) == [collaborations[q.id] EXCEPT !.currentRate = q.proposal]

UpdatedRow(q) ==
  [collaborations[q.id] EXCEPT !.currency = IF q.currency = Unset THEN @ ELSE q.currency]

UpdatedOffer(q) ==
  [proposals[q.proposal] EXCEPT !.newRate = IF q.rate = Unset THEN @ ELSE q.rate]

\* The collaboration row and the proposal of an in-place commit.
RowOf(q) ==
  CASE q.does = "accept"      -> AcceptedRow(q)
    [] q.does = "reject"      -> RowAs(q, "rejected")
    [] q.does = "cancel"      -> RowAs(q, "cancelled")
    [] q.does = "update"      -> UpdatedRow(q)
    [] q.does = "accept_rate" -> RatedRow(q)
    [] OTHER                  -> collaborations[q.id]

OfferOf(q) ==
  CASE q.does \in {"accept", "accept_rate"} -> OfferAs(q, "accepted")
    [] q.does \in {"reject", "reject_rate"} -> OfferAs(q, "rejected")
    [] q.does = "update"                    -> UpdatedOffer(q)
    [] OTHER                                -> proposals[q.proposal]

CommitInPlace(r) ==
  \/ CommitAccept(r) \/ CommitReject(r) \/ CommitCancel(r)
  \/ CommitUpdate(r) \/ CommitAcceptRate(r) \/ CommitRejectRate(r)

\* What every request on a collaboration may count on.
LEMMA ConcernedRows ==
  ASSUME Typed, NEW r \in Requests, request[r].does \notin {"nothing", "request"}
  PROVE  LET q == request[r]
         IN /\ q \in Transaction /\ Concerns(q)
            /\ q.by \in Companies /\ q.by \in Parties(q.id)
            /\ collaborations \in Seq(Collaboration) /\ proposals \in Seq(Proposal)
            /\ q.id \in DOMAIN collaborations /\ collaborations[q.id] \in Collaboration
            /\ q.proposal # 0 => /\ q.proposal \in DOMAIN proposals
                                 /\ proposals[q.proposal] \in Proposal
            /\ 0 \notin DOMAIN proposals
<1>1. /\ request[r] \in Transaction /\ Concerns(request[r])
      /\ request[r].by \in request[r].pair
      /\ collaborations \in Seq(Collaboration) /\ proposals \in Seq(Proposal)
  BY DEF Typed, TypeOK, RequestsTyped, WellFormed
<1>2. request[r].by \in Companies /\ request[r].by \in Parties(request[r].id)
  BY <1>1 DEF Transaction, Concerns
<1> QED BY <1>1, <1>2 DEF Concerns

\* The rows written by a commit in place, verdict or update.
LEMMA StatusRows ==
  ASSUME Typed, NEW r \in Requests, request[r].does \notin {"nothing", "request"},
         NEW row \in Collaboration,
         collaborations' = [collaborations EXCEPT ![request[r].id] = row]
  PROVE  /\ collaborations' \in Seq(Collaboration)
         /\ DOMAIN collaborations' = DOMAIN collaborations
         /\ \A k \in DOMAIN collaborations :
              collaborations'[k] = IF k = request[r].id THEN row ELSE collaborations[k]
<1>1. collaborations \in Seq(Collaboration)
  BY ConcernedRows
<1> QED BY <1>1, SequenceChanged

LEMMA AcceptRows ==
  ASSUME Typed, NEW r \in Requests, CommitAccept(r)
  PROVE  LET q == request[r]
         IN /\ collaborations' \in Seq(Collaboration) /\ proposals' \in Seq(Proposal)
            /\ InPlace(q, AcceptedRow(q), OfferAs(q, "accepted"))
            /\ Like(q, AcceptedRow(q), OfferAs(q, "accepted"))
<1> DEFINE q == request[r]
           row == AcceptedRow(q)
<1>1. q.does = "accept"
  BY DEF CommitAccept
<1>a. /\ collaborations[q.id] \in Collaboration
      /\ q.proposal \in Nat
  BY <1>1, ConcernedRows DEF Transaction
<1>2. row \in Collaboration
  BY <1>a DEF AcceptedRow, Collaboration, CollaborationStatus
<1>3. collaborations' = [collaborations EXCEPT ![q.id] = row]
  BY <1>1, ConcernedRows DEF CommitAccept, AcceptedRow, WithStatus, Collaboration
<1>4. proposals' = Decided(q, "accepted")
  BY DEF CommitAccept
<1>b. /\ q.by \in Companies
      /\ q.proposal # 0 => /\ proposals[q.proposal] \in Proposal
                           /\ proposals[q.proposal].collaboration = q.id
  BY <1>1, ConcernedRows DEF Concerns
<1>5. Like(q, row, OfferAs(q, "accepted"))
  BY <1>a, <1>b, <1>2 DEF Like, AcceptedRow, OfferAs, Collaboration, Proposal, RateProposalStatus
<1> HIDE DEF row
<1> QED BY <1>1, <1>2, <1>3, <1>4, <1>5, ConcernedRows, StatusRows, VerdictRows
           DEF InPlace, OfferAs, row, Handlers, RateProposalStatus

LEMMA RejectRows ==
  ASSUME Typed, NEW r \in Requests, CommitReject(r)
  PROVE  LET q == request[r]
         IN /\ collaborations' \in Seq(Collaboration) /\ proposals' \in Seq(Proposal)
            /\ InPlace(q, RowAs(q, "rejected"), OfferAs(q, "rejected"))
            /\ Like(q, RowAs(q, "rejected"), OfferAs(q, "rejected"))
<1> DEFINE q == request[r]
           row == RowAs(q, "rejected")
<1>1. q.does = "reject" /\ q \in Transaction
  BY ConcernedRows DEF CommitReject
<1>2. collaborations[q.id] \in Collaboration /\ q.proposal \in Nat
  BY <1>1, ConcernedRows DEF Transaction
<1>3. row \in Collaboration
  BY <1>1, <1>2 DEF RowAs, Collaboration, CollaborationStatus
<1>4. collaborations' = [collaborations EXCEPT ![q.id] = row]
  BY <1>1, ConcernedRows DEF CommitReject, RowAs, WithStatus, Collaboration
<1>5. proposals' = Decided(q, "rejected")
  BY DEF CommitReject
<1>6. Like(q, row, OfferAs(q, "rejected"))
  BY <1>1, <1>3, ConcernedRows DEF Like, RowAs, OfferAs, Collaboration, Proposal,
                                   RateProposalStatus, Concerns
<1> HIDE DEF row
<1> QED BY <1>1, <1>3, <1>4, <1>5, <1>6, ConcernedRows, StatusRows, VerdictRows
           DEF InPlace, OfferAs, row, Handlers, RateProposalStatus

LEMMA CancelRows ==
  ASSUME Typed, NEW r \in Requests, CommitCancel(r)
  PROVE  LET q == request[r]
         IN /\ collaborations' \in Seq(Collaboration) /\ proposals' \in Seq(Proposal)
            /\ InPlace(q, RowAs(q, "cancelled"), proposals[q.proposal])
            /\ Like(q, RowAs(q, "cancelled"), proposals[q.proposal])
<1> DEFINE q == request[r]
           row == RowAs(q, "cancelled")
<1>1. q.does = "cancel" /\ q \in Transaction
  BY ConcernedRows DEF CommitCancel
<1>2. collaborations[q.id] \in Collaboration /\ q.proposal \in Nat
  BY <1>1, ConcernedRows DEF Transaction
<1>3. row \in Collaboration
  BY <1>1, <1>2 DEF RowAs, Collaboration, CollaborationStatus
<1>4. collaborations' = [collaborations EXCEPT ![q.id] = row]
  BY <1>1, ConcernedRows DEF CommitCancel, RowAs, WithStatus, Collaboration
<1>5. proposals' = proposals
  BY DEF CommitCancel
<1>6. Like(q, row, proposals[q.proposal])
  BY <1>1, <1>3, ConcernedRows DEF Like, RowAs, Collaboration, Concerns
<1> HIDE DEF row
<1> QED BY <1>1, <1>3, <1>4, <1>5, <1>6, ConcernedRows, StatusRows DEF InPlace, row

LEMMA AcceptRateRows ==
  ASSUME Typed, NEW r \in Requests, CommitAcceptRate(r)
  PROVE  LET q == request[r]
         IN /\ collaborations' \in Seq(Collaboration) /\ proposals' \in Seq(Proposal)
            /\ InPlace(q, RatedRow(q), OfferAs(q, "accepted"))
            /\ Like(q, RatedRow(q), OfferAs(q, "accepted"))
<1> DEFINE q == request[r]
           row == RatedRow(q)
<1>1. q.does = "accept_rate" /\ q \in Transaction
  BY ConcernedRows DEF CommitAcceptRate
<1>2. collaborations[q.id] \in Collaboration /\ q.proposal \in Nat
  BY <1>1, ConcernedRows DEF Transaction
<1>3. row \in Collaboration
  BY <1>1, <1>2 DEF RatedRow, Collaboration, CollaborationStatus
<1>4. collaborations' = [collaborations EXCEPT ![q.id] = row]
  BY <1>1, ConcernedRows DEF CommitAcceptRate, RatedRow
<1>5. proposals' = Decided(q, "accepted")
  BY DEF CommitAcceptRate
<1>6. Like(q, row, OfferAs(q, "accepted"))
  BY <1>1, <1>3, ConcernedRows DEF Like, RatedRow, OfferAs, Collaboration, Proposal,
                                   RateProposalStatus, Concerns
<1> HIDE DEF row
<1> QED BY <1>1, <1>3, <1>4, <1>5, <1>6, ConcernedRows, StatusRows, VerdictRows
           DEF InPlace, OfferAs, row, Handlers, RateProposalStatus

LEMMA RejectRateRows ==
  ASSUME Typed, NEW r \in Requests, CommitRejectRate(r)
  PROVE  LET q == request[r]
         IN /\ collaborations' \in Seq(Collaboration) /\ proposals' \in Seq(Proposal)
            /\ InPlace(q, collaborations[q.id], OfferAs(q, "rejected"))
            /\ Like(q, collaborations[q.id], OfferAs(q, "rejected"))
<1> DEFINE q == request[r]
           row == collaborations[q.id]
<1>1. q.does = "reject_rate" /\ q \in Transaction
  BY ConcernedRows DEF CommitRejectRate
<1>2. collaborations[q.id] \in Collaboration /\ q.proposal \in Nat
  BY <1>1, ConcernedRows DEF Transaction
<1>3. row \in Collaboration
  BY <1>1, <1>2 DEF Collaboration, CollaborationStatus
<1>4. collaborations' = collaborations
  BY DEF CommitRejectRate
<1>5. proposals' = Decided(q, "rejected")
  BY DEF CommitRejectRate
<1>6. Like(q, row, OfferAs(q, "rejected"))
  BY <1>1, <1>3, ConcernedRows DEF Like, OfferAs, Collaboration, Proposal,
                                   RateProposalStatus, Concerns
<1> QED BY <1>1, <1>4, <1>5, <1>6, ConcernedRows, VerdictRows
           DEF InPlace, OfferAs, Handlers, RateProposalStatus

LEMMA UpdateRows ==
  ASSUME Typed, NEW r \in Requests, CommitUpdate(r)
  PROVE  LET q == request[r]
         IN /\ collaborations' \in Seq(Collaboration) /\ proposals' \in Seq(Proposal)
            /\ InPlace(q, UpdatedRow(q), UpdatedOffer(q))
            /\ Like(q, UpdatedRow(q), UpdatedOffer(q))
<1> DEFINE q == request[r]
           row == UpdatedRow(q)
<1>1. q.does = "update" /\ q \in Transaction
  BY ConcernedRows DEF CommitUpdate
<1>2. collaborations[q.id] \in Collaboration /\ q.proposal \in Nat
  BY <1>1, ConcernedRows DEF Transaction
<1>3. row \in Collaboration
  BY <1>1, <1>2 DEF UpdatedRow, Collaboration, CollaborationStatus, Transaction
<1>4. /\ collaborations' \in Seq(Collaboration)
      /\ DOMAIN collaborations' = DOMAIN collaborations
      /\ \A k \in DOMAIN collaborations :
           collaborations'[k] = IF k = q.id THEN row ELSE collaborations[k]
  <2>1. CASE q.currency = Unset
    <3>1. collaborations' = collaborations /\ row = collaborations[q.id]
      BY <1>2, <2>1 DEF CommitUpdate, UpdatedRow, Collaboration
    <3> QED BY <1>1, <3>1, ConcernedRows
  <2>2. CASE q.currency # Unset
    <3>1. collaborations' = [collaborations EXCEPT ![q.id] = row]
      BY <2>2 DEF CommitUpdate, UpdatedRow
    <3> HIDE DEF row
    <3> QED BY <1>1, <1>3, <3>1, StatusRows
  <2> QED BY <2>1, <2>2
<1>5. q.proposal # 0 => UpdatedOffer(q) \in Proposal
  <2>1. q.rate \in Rates \cup {Unset}
    BY <1>1 DEF Transaction
  <2>2. q.proposal # 0 => proposals[q.proposal] \in Proposal
    BY <1>1, ConcernedRows
  <2> QED BY <2>1, <2>2 DEF UpdatedOffer, Proposal
<1>6. /\ proposals' \in Seq(Proposal)
      /\ DOMAIN proposals' = DOMAIN proposals
      /\ \A i \in DOMAIN proposals :
           proposals'[i] = IF i = q.proposal THEN UpdatedOffer(q) ELSE proposals[i]
  <2>0. proposals \in Seq(Proposal) /\ 0 \notin DOMAIN proposals
    BY <1>1, ConcernedRows
  <2>1. CASE q.proposal = 0 \/ q.rate = Unset
    <3>1. proposals' = proposals
      BY <2>1 DEF CommitUpdate
    <3>2. q.proposal # 0 => UpdatedOffer(q) = proposals[q.proposal]
      BY <1>1, <2>1, ConcernedRows DEF UpdatedOffer, Proposal
    <3> QED BY <2>0, <3>1, <3>2
  <2>2. CASE ~(q.proposal = 0 \/ q.rate = Unset)
    <3>1. proposals' = [proposals EXCEPT ![q.proposal] = UpdatedOffer(q)]
      BY <2>2 DEF CommitUpdate, UpdatedOffer
    <3> HIDE DEF q
    <3> QED BY <2>0, <2>2, <1>5, <3>1, SequenceChanged
  <2> QED BY <2>1, <2>2
<1>7. Like(q, row, UpdatedOffer(q))
  <2>1. /\ row.initiator = collaborations[q.id].initiator
        /\ row.target = collaborations[q.id].target
        /\ row.currentRate = collaborations[q.id].currentRate
    BY <1>2 DEF UpdatedRow, Collaboration
  <2>2. q.proposal # 0 =>
          /\ UpdatedOffer(q).collaboration = q.id
          /\ UpdatedOffer(q).proposedBy = proposals[q.proposal].proposedBy
          /\ UpdatedOffer(q).oldRate = proposals[q.proposal].oldRate
    BY <1>1, ConcernedRows DEF UpdatedOffer, Proposal, Concerns
  <2> HIDE DEF row
  <2> QED BY <1>3, <1>5, <2>1, <2>2 DEF Like
<1> HIDE DEF row
<1> QED BY <1>4, <1>6, <1>7 DEF InPlace, row

\* A commit in place writes rows like those it found.
LEMMA InPlaceRows ==
  ASSUME Typed, NEW r \in Requests, CommitInPlace(r)
  PROVE  LET q == request[r]
         IN /\ collaborations' \in Seq(Collaboration) /\ proposals' \in Seq(Proposal)
            /\ InPlace(q, RowOf(q), OfferOf(q))
            /\ Like(q, RowOf(q), OfferOf(q))
            /\ q.does \in {"accept", "reject", "cancel", "update", "accept_rate", "reject_rate"}
            /\ Committed(r)
            /\ told \subseteq told'
<1> DEFINE q == request[r]
<1>1. CASE CommitAccept(r)
  <2>1. q.does = "accept" /\ Committed(r) /\ told \subseteq told'
    BY <1>1 DEF CommitAccept, Notified
  <2>2. RowOf(q) = AcceptedRow(q) /\ OfferOf(q) = OfferAs(q, "accepted")
    BY <2>1 DEF RowOf, OfferOf
  <2> QED BY <1>1, <2>1, <2>2, AcceptRows
<1>2. CASE CommitReject(r)
  <2>1. q.does = "reject" /\ Committed(r) /\ told \subseteq told'
    BY <1>2 DEF CommitReject, Notified
  <2>2. RowOf(q) = RowAs(q, "rejected") /\ OfferOf(q) = OfferAs(q, "rejected")
    BY <2>1 DEF RowOf, OfferOf
  <2> QED BY <1>2, <2>1, <2>2, RejectRows
<1>3. CASE CommitCancel(r)
  <2>1. q.does = "cancel" /\ Committed(r) /\ told \subseteq told'
    BY <1>3 DEF CommitCancel, Notified
  <2>2. RowOf(q) = RowAs(q, "cancelled") /\ OfferOf(q) = proposals[q.proposal]
    BY <2>1 DEF RowOf, OfferOf
  <2> QED BY <1>3, <2>1, <2>2, CancelRows
<1>4. CASE CommitUpdate(r)
  <2>1. q.does = "update" /\ Committed(r) /\ told' = told
    BY <1>4 DEF CommitUpdate
  <2>2. RowOf(q) = UpdatedRow(q) /\ OfferOf(q) = UpdatedOffer(q)
    BY <2>1 DEF RowOf, OfferOf
  <2> QED BY <1>4, <2>1, <2>2, UpdateRows
<1>5. CASE CommitAcceptRate(r)
  <2>1. q.does = "accept_rate" /\ Committed(r) /\ told' = told
    BY <1>5 DEF CommitAcceptRate
  <2>2. RowOf(q) = RatedRow(q) /\ OfferOf(q) = OfferAs(q, "accepted")
    BY <2>1 DEF RowOf, OfferOf
  <2> QED BY <1>5, <2>1, <2>2, AcceptRateRows
<1>6. CASE CommitRejectRate(r)
  <2>1. q.does = "reject_rate" /\ Committed(r) /\ told' = told
    BY <1>6 DEF CommitRejectRate
  <2>2. RowOf(q) = collaborations[q.id] /\ OfferOf(q) = OfferAs(q, "rejected")
    BY <2>1 DEF RowOf, OfferOf
  <2> QED BY <1>6, <2>1, <2>2, RejectRateRows
<1> QED BY <1>1, <1>2, <1>3, <1>4, <1>5, <1>6 DEF CommitInPlace

\* The rows request_collaboration inserts: one of each table.
LEMMA RequestRows ==
  ASSUME Typed, NEW r \in Requests, CommitRequest(r)
  PROVE  LET q == request[r]
             k == Len(collaborations) + 1
             i == Len(proposals) + 1
         IN /\ collaborations' \in Seq(Collaboration) /\ proposals' \in Seq(Proposal)
            /\ k \in Nat \ {0} /\ k \notin DOMAIN collaborations
            /\ i \in Nat \ {0} /\ i \notin DOMAIN proposals
            /\ DOMAIN collaborations' = DOMAIN collaborations \cup {k}
            /\ DOMAIN proposals' = DOMAIN proposals \cup {i}
            /\ \A j \in DOMAIN collaborations : collaborations'[j] = collaborations[j]
            /\ \A j \in DOMAIN proposals : proposals'[j] = proposals[j]
            /\ collaborations'[k].initiator = q.by
            /\ collaborations'[k].target \in Companies \ {q.by}
            /\ q.pair = {q.by, collaborations'[k].target}
            /\ collaborations'[k].status = "pending"
            /\ collaborations'[k].currentRate = 0
            /\ proposals'[i].collaboration = k
            /\ proposals'[i].oldRate = Unset
            /\ proposals'[i].status = "proposed"
            /\ proposals'[i].proposedBy = q.by
            /\ told' = told \cup {[company |-> collaborations'[k].target, by |-> q.by,
                                   type |-> "collaboration_request", collaboration |-> k,
                                   offer |-> i]}
            /\ q.does = "request"
            /\ Committed(r)
<1> DEFINE q == request[r]
           target == CHOOSE c \in q.pair : c # q.by
           row == [initiator |-> q.by, target |-> target, currency |-> q.currency,
                   status |-> "pending", currentRate |-> 0]
           offer == [collaboration |-> Len(collaborations) + 1, oldRate |-> Unset,
                     newRate |-> q.rate, status |-> "proposed", proposedBy |-> q.by,
                     decidedBy |-> Unset]
<1>1. q.does = "request" /\ Committed(r)
  BY DEF CommitRequest
<1>2. /\ q \in Transaction /\ q.by \in q.pair /\ q.by \in Companies /\ Asks(q)
      /\ collaborations \in Seq(Collaboration) /\ proposals \in Seq(Proposal)
  BY <1>1 DEF Typed, TypeOK, RequestsTyped, WellFormed, Transaction
<1>3. target \in Companies \ {q.by} /\ q.pair = {q.by, target}
  <2>1. PICK t \in Companies : t # q.by /\ q.pair = {q.by, t}
    BY <1>2 DEF Asks
  <2>2. target \in q.pair /\ target # q.by
    BY <2>1
  <2> QED BY <2>1, <2>2
<1>4. row \in Collaboration
  BY <1>2, <1>3 DEF Asks, Collaboration, CollaborationStatus
<1>5. Len(collaborations) + 1 \in Nat
  BY <1>2
<1>6. offer \in Proposal
  BY <1>2, <1>5 DEF Asks, Proposal, RateProposalStatus
<1>7. /\ collaborations' = Append(collaborations, row)
      /\ proposals' = Append(proposals, offer)
      /\ told' = told \cup {[company |-> row.target, by |-> q.by, type |-> "collaboration_request",
                             collaboration |-> Len(collaborations) + 1, offer |-> Len(proposals) + 1]}
  BY DEF CommitRequest, Notified
<1>8. /\ row.initiator = q.by /\ row.target = target /\ row.status = "pending"
      /\ row.currentRate = 0
      /\ offer.collaboration = Len(collaborations) + 1 /\ offer.oldRate = Unset
      /\ offer.status = "proposed" /\ offer.proposedBy = q.by
  OBVIOUS
<1> HIDE DEF row, offer, target, q
<1>9. /\ collaborations' \in Seq(Collaboration)
      /\ Len(collaborations) + 1 \in Nat \ {0}
      /\ Len(collaborations) + 1 \notin DOMAIN collaborations
      /\ DOMAIN collaborations' = DOMAIN collaborations \cup {Len(collaborations) + 1}
      /\ \A j \in DOMAIN collaborations : collaborations'[j] = collaborations[j]
      /\ collaborations'[Len(collaborations) + 1] = row
  BY <1>2, <1>4, <1>7, SequenceAppended
<1>10. /\ proposals' \in Seq(Proposal)
       /\ Len(proposals) + 1 \in Nat \ {0}
       /\ Len(proposals) + 1 \notin DOMAIN proposals
       /\ DOMAIN proposals' = DOMAIN proposals \cup {Len(proposals) + 1}
       /\ \A j \in DOMAIN proposals : proposals'[j] = proposals[j]
       /\ proposals'[Len(proposals) + 1] = offer
  BY <1>2, <1>6, <1>7, SequenceAppended
<1>11. told' = told \cup {[company |-> collaborations'[Len(collaborations) + 1].target,
                           by |-> q.by, type |-> "collaboration_request",
                           collaboration |-> Len(collaborations) + 1,
                           offer |-> Len(proposals) + 1]}
  BY <1>7, <1>9
<1> QED BY <1>1, <1>3, <1>8, <1>9, <1>10, <1>11 DEF q

\* The row propose_rate_change inserts.
LEMMA ProposeRows ==
  ASSUME Typed, NEW r \in Requests, CommitPropose(r)
  PROVE  LET q == request[r]
             i == Len(proposals) + 1
         IN /\ collaborations' = collaborations /\ proposals' \in Seq(Proposal)
            /\ i \in Nat \ {0} /\ i \notin DOMAIN proposals
            /\ DOMAIN proposals' = DOMAIN proposals \cup {i}
            /\ \A j \in DOMAIN proposals : proposals'[j] = proposals[j]
            /\ proposals'[i].collaboration = q.id
            /\ proposals'[i].status = "proposed"
            /\ proposals'[i].proposedBy = q.by
            /\ proposals'[i].oldRate = q.oldRate
            /\ told' = told \cup {[company |-> OtherParty(q.id, q.by), by |-> q.by,
                             type |-> "rate_proposed", collaboration |-> q.id,
                             offer |-> Len(proposals) + 1]}
            /\ q.does = "propose"
            /\ Committed(r)
<1> DEFINE q == request[r]
           offer == [collaboration |-> q.id, oldRate |-> q.oldRate, newRate |-> q.rate,
                     status |-> "proposed", proposedBy |-> q.by, decidedBy |-> Unset]
<1>1. q.does = "propose" /\ Committed(r)
  BY DEF CommitPropose
<1>2. /\ q \in Transaction /\ Concerns(q) /\ q.by \in Companies /\ proposals \in Seq(Proposal)
  BY <1>1, ConcernedRows
<1>3. offer \in Proposal
  BY <1>1, <1>2 DEF Concerns, Transaction, Proposal, RateProposalStatus
<1>4. /\ collaborations' = collaborations /\ proposals' = Append(proposals, offer)
      /\ told' = told \cup {[company |-> OtherParty(q.id, q.by), by |-> q.by,
                             type |-> "rate_proposed", collaboration |-> q.id,
                             offer |-> Len(proposals) + 1]}
  BY DEF CommitPropose, Notified, ToTell
<1>5. /\ offer.collaboration = q.id /\ offer.status = "proposed" /\ offer.proposedBy = q.by
      /\ offer.oldRate = q.oldRate
  OBVIOUS
<1> HIDE DEF offer
<1>6. /\ proposals' \in Seq(Proposal)
      /\ Len(proposals) + 1 \in Nat \ {0}
      /\ Len(proposals) + 1 \notin DOMAIN proposals
      /\ DOMAIN proposals' = DOMAIN proposals \cup {Len(proposals) + 1}
      /\ \A j \in DOMAIN proposals : proposals'[j] = proposals[j]
      /\ proposals'[Len(proposals) + 1] = offer
  BY <1>2, <1>3, <1>4, SequenceAppended
<1> QED BY <1>1, <1>4, <1>5, <1>6

Commits == {"request", "accept", "reject", "cancel", "update", "propose", "accept_rate",
            "reject_rate"}

\* Whatever commits writes rows of its pair only, all of them typed.
LEMMA CommitWrites ==
  ASSUME Typed, NEW r \in Requests, Commit(r)
  PROVE  /\ collaborations' \in Seq(Collaboration) /\ proposals' \in Seq(Proposal)
         /\ Writes(request[r].pair)
         /\ request[r].does \in Commits
         /\ Committed(r)
<1> DEFINE q == request[r]
<1>0. /\ \A k \in DOMAIN collaborations : collaborations[k] \in Collaboration
      /\ \A i \in DOMAIN proposals :
           /\ proposals[i] \in Proposal
           /\ proposals[i].collaboration \in DOMAIN collaborations
  BY DEF Typed, TypeOK
<1>1. CASE CommitInPlace(r)
  <2>1. /\ collaborations' \in Seq(Collaboration) /\ proposals' \in Seq(Proposal)
        /\ InPlace(q, RowOf(q), OfferOf(q)) /\ Like(q, RowOf(q), OfferOf(q))
        /\ q.does \in Commits /\ q.does # "request" /\ q.does # "nothing"
        /\ Committed(r) /\ told \subseteq told'
    BY <1>1, InPlaceRows DEF Commits
  <2>2. Concerns(q) /\ 0 \notin DOMAIN proposals
    BY <2>1, ConcernedRows
  <2>3. /\ DOMAIN collaborations' = DOMAIN collaborations
        /\ DOMAIN proposals' = DOMAIN proposals
    BY <2>1 DEF InPlace
  <2>4. ASSUME NEW k \in DOMAIN collaborations
        PROVE  /\ collaborations'[k].initiator = collaborations[k].initiator
               /\ collaborations'[k].target = collaborations[k].target
               /\ Parties(k) # q.pair => collaborations'[k] = collaborations[k]
    BY <2>1, <2>2 DEF InPlace, Like, Concerns
  <2>5. ASSUME NEW i \in DOMAIN proposals
        PROVE  /\ proposals'[i].collaboration = proposals[i].collaboration
               /\ proposals'[i].proposedBy = proposals[i].proposedBy
               /\ proposals'[i].oldRate = proposals[i].oldRate
               /\ Parties(proposals[i].collaboration) # q.pair => proposals'[i] = proposals[i]
    BY <2>1, <2>2 DEF InPlace, Like, Concerns
  <2>6. Writes(q.pair)
    BY <2>1, <2>3, <2>4, <2>5 DEF Writes
  <2> QED BY <2>1, <2>6
<1>2. CASE CommitRequest(r)
  <2> DEFINE n == Len(collaborations) + 1
             m == Len(proposals) + 1
  <2>1. /\ collaborations' \in Seq(Collaboration) /\ proposals' \in Seq(Proposal)
        /\ DOMAIN collaborations' = DOMAIN collaborations \cup {n}
        /\ DOMAIN proposals' = DOMAIN proposals \cup {m}
        /\ \A j \in DOMAIN collaborations : collaborations'[j] = collaborations[j]
        /\ \A j \in DOMAIN proposals : proposals'[j] = proposals[j]
        /\ q.pair = {collaborations'[n].initiator, collaborations'[n].target}
        /\ proposals'[m].collaboration = n
        /\ told \subseteq told'
        /\ q.does = "request"
        /\ Committed(r)
    BY <1>2, RequestRows
  <2> HIDE DEF n, m
  <2>2. PartiesOf(collaborations'[n]) = q.pair
    BY <2>1 DEF PartiesOf
  <2>3. Writes(q.pair)
    BY <2>1, <2>2 DEF Writes
  <2> QED BY <2>1, <2>3 DEF Commits
<1>3. CASE CommitPropose(r)
  <2> DEFINE m == Len(proposals) + 1
  <2>1. /\ collaborations' = collaborations /\ proposals' \in Seq(Proposal)
        /\ DOMAIN proposals' = DOMAIN proposals \cup {m}
        /\ \A j \in DOMAIN proposals : proposals'[j] = proposals[j]
        /\ proposals'[m].collaboration = q.id
        /\ told \subseteq told'
        /\ q.does = "propose"
        /\ Committed(r)
    BY <1>3, ProposeRows
  <2> HIDE DEF m
  <2>2. Concerns(q) /\ collaborations \in Seq(Collaboration)
    BY <2>1, ConcernedRows
  <2>3. q.id \in DOMAIN collaborations' /\ PartiesOf(collaborations'[q.id]) = q.pair
    BY <2>1, <2>2 DEF Parties, PartiesOf, Concerns
  <2>4. Writes(q.pair)
    BY <2>1, <2>3 DEF Writes
  <2> QED BY <2>1, <2>2, <2>4 DEF Commits
<1> QED BY <1>1, <1>2, <1>3 DEF Commit, CommitInPlace

\* What a commit leaves of the open requests.
LEMMA CommitEnds ==
  ASSUME Typed, NEW r \in Requests, Committed(r)
  PROVE  /\ raced \subseteq raced' /\ raced' \subseteq raced \cup {request[r].pair}
         /\ request[r].overtaken => request[r].pair \in raced'
         /\ request'[r] = Idle
         /\ DOMAIN request' = Requests
         /\ \A x \in Requests \ {r} :
              /\ request[x].pair # request[r].pair => request'[x] = request[x]
              /\ request[x].pair = request[r].pair =>
                   request'[x] = [request[x] EXCEPT !.overtaken = request[r].pair \notin raced']
BY DEF Committed

---------------------------------------------------------------------------
(* Types.                                                                  *)

LEMMA PartiesTyped ==
  ASSUME Typed, NEW k \in DOMAIN collaborations
  PROVE  /\ collaborations[k] \in Collaboration
         /\ Parties(k) \subseteq Companies
         /\ Parties(k) = {collaborations[k].initiator, collaborations[k].target}
         /\ collaborations[k].initiator # collaborations[k].target
         /\ \A c \in Parties(k) : OtherParty(k, c) \in Companies
<1>1. /\ collaborations[k] \in Collaboration
      /\ collaborations[k].initiator # collaborations[k].target
  BY DEF Typed, TypeOK
<1>2. collaborations[k].initiator \in Companies /\ collaborations[k].target \in Companies
  BY <1>1 DEF Collaboration
<1> QED BY <1>1, <1>2 DEF Parties, OtherParty

\* The notices of the commits, and what each of them says.
Verdicts == {"accept", "reject", "cancel"}

VerdictNotice(q, n) ==
  /\ q.does = "accept" => n.type = "collaboration_accepted" /\ n.by = collaborations[q.id].target
  /\ q.does = "reject" => n.type = "collaboration_rejected" /\ n.by = collaborations[q.id].target
  /\ q.does = "cancel" => n.type = "collaboration_rejected" /\ n.by = collaborations[q.id].initiator

\* A notice goes to the party of a collaboration that did not cause it.
ToTheOther(row, n) ==
  /\ row.initiator # row.target
  /\ \/ n.by = row.initiator /\ n.company = row.target
     \/ n.by = row.target /\ n.company = row.initiator

LEMMA VerdictNotices ==
  ASSUME Typed, NEW r \in Requests, CommitAccept(r) \/ CommitReject(r) \/ CommitCancel(r)
  PROVE  LET q == request[r]
         IN /\ q.does \in Verdicts /\ q.id \in DOMAIN collaborations
            /\ \E n \in Notification :
                 /\ told' = told \cup {n} /\ n.offer = 0 /\ n.collaboration = q.id
                 /\ ToTheOther(collaborations[q.id], n) /\ VerdictNotice(q, n)
<1> DEFINE q == request[r]
<1>1. q.does \in Verdicts
  BY DEF CommitAccept, CommitReject, CommitCancel, Verdicts
<1>2. /\ q.id \in DOMAIN collaborations /\ q.id \in Nat /\ q.by \in Companies
      /\ q.does \in {"accept", "reject"} => q.by = collaborations[q.id].target
      /\ q.does = "cancel" => q.by = collaborations[q.id].initiator
  BY <1>1, ConcernedRows DEF Verdicts, Concerns, Transaction
<1>3. /\ collaborations[q.id].initiator # collaborations[q.id].target
      /\ collaborations[q.id].initiator \in Companies /\ collaborations[q.id].target \in Companies
  BY <1>2, PartiesTyped DEF Collaboration
<1>4. PICK company \in Companies, type \in NotificationType :
        /\ Notified(company, q.by, type, q.id, 0)
        /\ q.does \in {"accept", "reject"} => company = collaborations[q.id].initiator
        /\ q.does = "cancel" => company = collaborations[q.id].target
        /\ q.does = "accept" => type = "collaboration_accepted"
        /\ q.does \in {"reject", "cancel"} => type = "collaboration_rejected"
  BY <1>3 DEF CommitAccept, CommitReject, CommitCancel, NotificationType
<1> DEFINE n == [company |-> company, by |-> q.by, type |-> type, collaboration |-> q.id,
                 offer |-> 0]
<1>5. /\ n.company = company /\ n.by = q.by /\ n.type = type /\ n.collaboration = q.id
      /\ n.offer = 0 /\ n \in Notification
  BY <1>2, <1>4 DEF Notification
<1>6. told' = told \cup {n}
  BY <1>4 DEF Notified
<1> HIDE DEF n
<1>7. ToTheOther(collaborations[q.id], n) /\ VerdictNotice(q, n)
  BY <1>1, <1>2, <1>3, <1>4, <1>5 DEF ToTheOther, VerdictNotice, Verdicts
<1> QED BY <1>1, <1>2, <1>5, <1>6, <1>7

LEMMA RequestNotices ==
  ASSUME Typed, NEW r \in Requests, CommitRequest(r)
  PROVE  LET k == Len(collaborations) + 1
         IN /\ k \in DOMAIN collaborations'
            /\ \E n \in Notification :
                 /\ told' = told \cup {n} /\ n.offer = Len(proposals) + 1 /\ n.collaboration = k
                 /\ ToTheOther(collaborations'[k], n) /\ n.by = request[r].by
<1> DEFINE q == request[r]
           k == Len(collaborations) + 1
           m == Len(proposals) + 1
           n == [company |-> collaborations'[k].target, by |-> q.by,
                 type |-> "collaboration_request", collaboration |-> k, offer |-> m]
<1>1. /\ k \in DOMAIN collaborations' /\ k \in Nat /\ m \in Nat
      /\ collaborations'[k].target \in Companies
      /\ collaborations'[k].initiator = q.by
      /\ collaborations'[k].initiator # collaborations'[k].target
      /\ told' = told \cup {n}
      /\ q.does = "request"
  BY RequestRows
<1>2. q.by \in Companies
  BY <1>1 DEF Typed, RequestsTyped, WellFormed, Transaction
<1> HIDE DEF k, m
<1>3. /\ n.company = collaborations'[k].target /\ n.by = q.by /\ n.collaboration = k
      /\ n.offer = m /\ n \in Notification
  BY <1>1, <1>2 DEF Notification, NotificationType
<1> HIDE DEF n
<1>4. ToTheOther(collaborations'[k], n)
  BY <1>1, <1>3 DEF ToTheOther
<1> QED BY <1>1, <1>3, <1>4 DEF k, m

LEMMA ProposeNotices ==
  ASSUME Typed, NEW r \in Requests, CommitPropose(r)
  PROVE  LET k == request[r].id
         IN /\ k \in DOMAIN collaborations
            /\ \E n \in Notification :
                 /\ told' = told \cup {n} /\ n.offer = Len(proposals) + 1 /\ n.collaboration = k
                 /\ ToTheOther(collaborations[k], n) /\ n.by = request[r].by
<1> DEFINE q == request[r]
           k == q.id
           m == Len(proposals) + 1
           n == [company |-> OtherParty(k, q.by), by |-> q.by, type |-> "rate_proposed",
                 collaboration |-> k, offer |-> m]
<1>1. told' = told \cup {n} /\ m \in Nat /\ q.does = "propose"
  BY ProposeRows
<1>2. k \in DOMAIN collaborations /\ k \in Nat /\ q.by \in Companies /\ q.by \in Parties(k)
  BY <1>1, ConcernedRows DEF Transaction
<1> HIDE DEF k, m
<1>3. /\ n.company = OtherParty(k, q.by) /\ n.by = q.by /\ n.collaboration = k
      /\ n.offer = m /\ n \in Notification
  BY <1>1, <1>2, PartiesTyped DEF Notification, NotificationType
<1> HIDE DEF n
<1>4. ToTheOther(collaborations[k], n)
  BY <1>2, <1>3, PartiesTyped DEF ToTheOther, Parties, OtherParty
<1> QED BY <1>1, <1>2, <1>3, <1>4 DEF k, m

LEMMA ToldTyped ==
  ASSUME Typed, NEW r \in Requests, Commit(r)
  PROVE  told' \subseteq Notification /\ \A n \in told' : n.collaboration \in DOMAIN collaborations'
<1>1. /\ told \subseteq Notification
      /\ \A n \in told : n.collaboration \in DOMAIN collaborations'
  BY CommitWrites DEF Typed, TypeOK, Writes
<1>2. \/ told' = told
      \/ \E n \in Notification :
           told' = told \cup {n} /\ n.collaboration \in DOMAIN collaborations'
  <2>1. CASE CommitRequest(r)
    BY <2>1, RequestNotices
  <2>2. CASE CommitPropose(r)
    BY <2>2, ProposeNotices, ProposeRows
  <2>3. CASE CommitAccept(r) \/ CommitReject(r) \/ CommitCancel(r)
    BY <2>3, VerdictNotices, CommitWrites DEF Writes
  <2>4. CASE CommitUpdate(r) \/ CommitAcceptRate(r) \/ CommitRejectRate(r)
    BY <2>4 DEF CommitUpdate, CommitAcceptRate, CommitRejectRate
  <2> QED BY <2>1, <2>2, <2>3, <2>4 DEF Commit
<1> QED BY <1>1, <1>2

\* The rows inserted, and the rows that were there, are as the types want them.
LEMMA CommitRowsTyped ==
  ASSUME Typed, NEW r \in Requests, Commit(r)
  PROVE  /\ \A k \in DOMAIN collaborations' :
              /\ collaborations'[k].initiator # collaborations'[k].target
              /\ collaborations'[k].currentRate # 0 =>
                   /\ collaborations'[k].currentRate \in DOMAIN proposals'
                   /\ proposals'[collaborations'[k].currentRate].collaboration = k
         /\ \A i \in DOMAIN proposals' :
              /\ proposals'[i].collaboration \in DOMAIN collaborations'
              /\ proposals'[i].proposedBy \in
                   PartiesOf(collaborations'[proposals'[i].collaboration])
<1> DEFINE q == request[r]
<1>0. /\ \A k \in DOMAIN collaborations :
           /\ collaborations[k].initiator # collaborations[k].target
           /\ collaborations[k].currentRate # 0 =>
                /\ collaborations[k].currentRate \in DOMAIN proposals
                /\ proposals[collaborations[k].currentRate].collaboration = k
      /\ \A i \in DOMAIN proposals :
           /\ proposals[i].collaboration \in DOMAIN collaborations
           /\ proposals[i].proposedBy \in PartiesOf(collaborations[proposals[i].collaboration])
  BY DEF Typed, TypeOK, Parties, PartiesOf
<1>1. Writes(q.pair)
  BY CommitWrites
<1>2. ASSUME NEW i \in DOMAIN proposals
      PROVE  /\ proposals'[i].collaboration \in DOMAIN collaborations'
             /\ proposals'[i].proposedBy \in
                  PartiesOf(collaborations'[proposals'[i].collaboration])
  BY <1>0, <1>1 DEF Writes, PartiesOf
<1>3. CASE CommitInPlace(r)
  <2>1. InPlace(q, RowOf(q), OfferOf(q)) /\ Like(q, RowOf(q), OfferOf(q))
    BY <1>3, InPlaceRows
  <2>2. q.does \notin {"nothing", "request"}
    BY <1>3, InPlaceRows
  <2>3. Concerns(q) /\ 0 \notin DOMAIN proposals
    BY <2>2, ConcernedRows
  <2>4. ASSUME NEW k \in DOMAIN collaborations
        PROVE  /\ collaborations'[k].initiator # collaborations'[k].target
               /\ collaborations'[k].currentRate # 0 =>
                    /\ collaborations'[k].currentRate \in DOMAIN proposals'
                    /\ proposals'[collaborations'[k].currentRate].collaboration = k
    <3>1. collaborations'[k].initiator # collaborations'[k].target
      BY <1>0, <1>1 DEF Writes
    <3>2. CASE k # q.id
      BY <1>0, <1>1, <2>1, <3>2 DEF InPlace, Writes
    <3>3. CASE k = q.id
      <4>1. collaborations'[k].currentRate \in {collaborations[k].currentRate, q.proposal}
        BY <2>1, <3>3 DEF InPlace, Like
      <4> QED BY <1>0, <1>1, <2>1, <2>3, <3>1, <3>3, <4>1 DEF Writes, Concerns
    <3> QED BY <3>2, <3>3, <3>1
  <2> QED BY <1>2, <2>1, <2>4 DEF InPlace
<1>4. CASE CommitRequest(r)
  <2> DEFINE n == Len(collaborations) + 1
             m == Len(proposals) + 1
  <2>1. /\ DOMAIN collaborations' = DOMAIN collaborations \cup {n}
        /\ DOMAIN proposals' = DOMAIN proposals \cup {m}
        /\ \A j \in DOMAIN collaborations : collaborations'[j] = collaborations[j]
        /\ \A j \in DOMAIN proposals : proposals'[j] = proposals[j]
        /\ collaborations'[n].initiator = q.by
        /\ collaborations'[n].target # q.by
        /\ collaborations'[n].currentRate = 0
        /\ proposals'[m].collaboration = n
        /\ proposals'[m].proposedBy = q.by
    BY <1>4, RequestRows
  <2> HIDE DEF n, m
  <2> QED BY <1>0, <1>2, <2>1 DEF PartiesOf
<1>5. CASE CommitPropose(r)
  <2> DEFINE m == Len(proposals) + 1
  <2>1. /\ collaborations' = collaborations
        /\ DOMAIN proposals' = DOMAIN proposals \cup {m}
        /\ \A j \in DOMAIN proposals : proposals'[j] = proposals[j]
        /\ proposals'[m].collaboration = q.id
        /\ proposals'[m].proposedBy = q.by
        /\ q.does = "propose"
    BY <1>5, ProposeRows
  <2>2. q.id \in DOMAIN collaborations /\ q.by \in PartiesOf(collaborations[q.id])
    BY <2>1, ConcernedRows DEF Parties, PartiesOf
  <2> HIDE DEF m
  <2> QED BY <1>0, <1>2, <2>1, <2>2
<1> QED BY <1>3, <1>4, <1>5 DEF Commit, CommitInPlace

LEMMA RacedTyped ==
  ASSUME Typed, NEW r \in Requests, Commit(r)
  PROVE  raced' \subseteq {PartiesOf(collaborations'[k]) : k \in DOMAIN collaborations'}
<1> DEFINE q == request[r]
           pairs == {PartiesOf(collaborations'[k]) : k \in DOMAIN collaborations'}
<1>1. raced' \subseteq raced \cup {q.pair} /\ Writes(q.pair)
  BY CommitWrites, CommitEnds
<1>2. raced \subseteq pairs
  <2>1. raced \subseteq {Parties(k) : k \in DOMAIN collaborations}
    BY DEF Typed, TypeOK
  <2>2. \A k \in DOMAIN collaborations :
          k \in DOMAIN collaborations' /\ PartiesOf(collaborations'[k]) = Parties(k)
    BY <1>1 DEF Writes, Parties, PartiesOf
  <2> QED BY <2>1, <2>2
<1>3. q.pair \in pairs
  <2>1. CASE CommitRequest(r)
    <3> DEFINE n == Len(collaborations) + 1
    <3>1. /\ n \in DOMAIN collaborations'
          /\ q.pair = {collaborations'[n].initiator, collaborations'[n].target}
      BY <2>1, RequestRows
    <3> QED BY <3>1 DEF PartiesOf
  <2>2. CASE ~CommitRequest(r)
    <3>1. q.does \notin {"request", "nothing"}
      <4>1. CASE CommitPropose(r)
        BY <4>1, ProposeRows
      <4>2. CASE CommitInPlace(r)
        BY <4>2, InPlaceRows
      <4> QED BY <2>2, <4>1, <4>2 DEF Commit, CommitInPlace
    <3>2. Concerns(q)
      BY <3>1, ConcernedRows
    <3> QED BY <1>1, <3>2 DEF Writes, Concerns, Parties, PartiesOf
  <2> QED BY <2>1, <2>2
<1> QED BY <1>1, <1>2, <1>3

\* Another request's rows are not another's to change.
LEMMA ConcernsKept ==
  ASSUME Typed, NEW pair, Writes(pair), NEW q \in Transaction, NEW x \in Transaction,
         Concerns(q),
         x.id = q.id, x.pair = q.pair, x.proposal = q.proposal, x.does = q.does,
         x.by = q.by, x.rate = q.rate, x.current = q.current
  PROVE  /\ x.id \in DOMAIN collaborations'
         /\ x.pair = PartiesOf(collaborations'[x.id])
         /\ x.proposal # 0 =>
              /\ x.proposal \in DOMAIN proposals'
              /\ proposals'[x.proposal].collaboration = x.id
         /\ x.current # 0 => x.current \in DOMAIN proposals'
         /\ x.does \in {"accept", "reject"} => x.by = collaborations'[x.id].target
         /\ x.does = "cancel" => x.by = collaborations'[x.id].initiator
         /\ x.does = "propose" => x.rate \in Rates /\ x.proposal = 0
         /\ x.does \in {"accept_rate", "reject_rate"} =>
              x.proposal # 0 /\ proposals'[x.proposal].proposedBy # x.by
BY DEF Concerns, Writes, Parties, PartiesOf

LEMMA RequestsTypedAtCommit ==
  ASSUME Typed, NEW r \in Requests, Commit(r)
  PROVE  RequestsTyped'
<1> SUFFICES ASSUME NEW y \in Requests
             PROVE  /\ request'[y] \in Transaction
                    /\ request'[y].stage = "reading" =>
                         request'[y].does \in Readers /\ request'[y].proposal = 0
                    /\ request'[y].does # "nothing" => request'[y].by \in request'[y].pair
                    /\ request'[y].does = "request" => Asks(request'[y])
                    /\ request'[y].does \notin {"nothing", "request"} => Concerns(request[y])'
  BY DEF RequestsTyped, WellFormed, Asks
<1>1. Writes(request[r].pair) /\ Committed(r)
  BY CommitWrites
<1>2. CASE y = r
  BY <1>1, <1>2, CommitEnds, IdleIsTyped, IdleWellFormed DEF WellFormed
<1>3. CASE y # r
  <2> DEFINE q == request[y]
             x == request'[y]
  <2>1. /\ q \in Transaction
        /\ q.stage = "reading" => q.does \in Readers /\ q.proposal = 0
        /\ q.does # "nothing" => q.by \in q.pair
        /\ q.does = "request" => Asks(q)
        /\ q.does \notin {"nothing", "request"} => Concerns(q)
    BY DEF Typed, RequestsTyped, WellFormed
  <2>2. PICK b \in BOOLEAN : x = [q EXCEPT !.overtaken = b]
    <3>1. CASE q.pair = request[r].pair
      BY <1>1, <1>3, <3>1, CommitEnds
    <3>2. CASE q.pair # request[r].pair
      BY <1>1, <1>3, <2>1, <3>2, CommitEnds DEF Transaction
    <3> QED BY <3>1, <3>2
  <2>3. /\ x \in Transaction /\ x.does = q.does /\ x.by = q.by /\ x.pair = q.pair
        /\ x.id = q.id /\ x.proposal = q.proposal /\ x.rate = q.rate
        /\ x.currency = q.currency /\ x.stage = q.stage /\ x.current = q.current
    BY <2>1, <2>2 DEF Transaction
  <2> HIDE DEF q, x
  <2>4. x.does = "request" => Asks(x)
    BY <2>1, <2>3 DEF Asks
  <2>5. ASSUME x.does \notin {"nothing", "request"} PROVE Concerns(request[y])'
    <3>1. Concerns(q)
      BY <2>1, <2>3, <2>5
    <3> QED BY <1>1, <2>1, <2>3, <3>1, ConcernsKept DEF Concerns, Parties, PartiesOf, x
  <2> QED BY <2>1, <2>3, <2>4, <2>5 DEF x
<1> QED BY <1>2, <1>3

LEMMA CommitTyped ==
  ASSUME Typed, NEW r \in Requests, Commit(r)
  PROVE  Typed'
<1>1. TypeOK'
  BY CommitWrites, CommitRowsTyped, ToldTyped, RacedTyped DEF TypeOK, Parties, PartiesOf
<1> QED BY <1>1, RequestsTypedAtCommit DEF Typed

---------------------------------------------------------------------------
(* Steps that write no row.                                                *)

\* What a request becomes in such a step.
Becomes(r, x) ==
  /\ request' = [request EXCEPT ![r] = x]
  /\ UNCHANGED <<collaborations, proposals, told, raced>>

LEMMA BecomesTyped ==
  ASSUME Typed, NEW r \in Requests, NEW x, Becomes(r, x), WellFormed(x)
  PROVE  Typed'
<1>1. TypeOK'
  BY DEF Typed, TypeOK, Becomes, Parties
<1>2. ASSUME NEW y \in Requests PROVE WellFormed(request[y])'
  <2>1. request'[y] = x \/ request'[y] = request[y]
    BY DEF Becomes
  <2>2. WellFormed(request[y])
    BY DEF Typed, RequestsTyped
  <2> QED BY <2>1, <2>2 DEF Becomes, WellFormed, Asks, Concerns, Parties
<1> QED BY <1>1, <1>2 DEF Typed, RequestsTyped

\* A request opens on what it has just read.
LEMMA StartOnOpens ==
  ASSUME Typed, NEW r \in Requests, NEW c \in Companies, NEW k \in DOMAIN collaborations,
         NEW does \in Handlers \ {"request", "accept_rate", "reject_rate"},
         NEW stage \in {"reading", "ready"}, NEW rate \in Rates \cup {Unset},
         NEW currency \in Currencies \cup {Unset},
         StartOn(r, c, k, does, stage, rate, currency),
         does \in {"accept", "reject"} => c = collaborations[k].target,
         does = "cancel" => c = collaborations[k].initiator,
         does \in {"accept", "reject", "cancel", "update"} => collaborations[k].status = "pending",
         does = "propose" => collaborations[k].status = "accepted" /\ rate \in Rates,
         does \in Readers <=> stage = "reading"
  PROVE  \E x : Becomes(r, x) /\ WellFormed(x) /\ StillTrue(x)
<1> DEFINE current == IF does = "propose" THEN collaborations[k].currentRate ELSE 0
           x == [Idle EXCEPT !.does = does, !.stage = stage, !.by = c, !.pair = Parties(k),
                             !.id = k, !.rate = rate, !.currency = currency,
                             !.current = current]
<1>1. Becomes(r, x) /\ c \in Parties(k)
  BY DEF StartOn, Opened, Becomes
<1>2. /\ x.does = does /\ x.stage = stage /\ x.by = c /\ x.pair = Parties(k) /\ x.id = k
      /\ x.rate = rate /\ x.currency = currency /\ x.proposal = 0 /\ x.current = current
  BY DEF Idle
<1>3. /\ k \in Nat /\ current \in Nat
      /\ current # 0 => current \in DOMAIN proposals
      /\ does = "propose" => current = collaborations[k].currentRate
  BY PartiesTyped DEF Typed, TypeOK, Collaboration
<1> HIDE DEF current
<1>a. Parties(k) \subseteq Companies
  BY PartiesTyped
<1>4. x \in Transaction
  BY <1>3, <1>a DEF Transaction, Idle
<1> HIDE DEF x
<1>b. Concerns(x)
  BY <1>1, <1>2, <1>3 DEF Concerns
<1>5. WellFormed(x)
  BY <1>1, <1>2, <1>4, <1>b DEF WellFormed, Handlers, Readers
<1>6. StillTrue(x)
  BY <1>2, <1>3 DEF StillTrue, Handlers, Readers
<1> QED BY <1>1, <1>5, <1>6

LEMMA StartRequestOpens ==
  ASSUME Typed, NEW r \in Requests, NEW c \in Companies, NEW target \in Companies,
         NEW currency \in Currencies, NEW rate \in Rates,
         StartRequest(r, c, target, currency, rate)
  PROVE  \E x : Becomes(r, x) /\ WellFormed(x) /\ StillTrue(x)
<1> DEFINE x == [Idle EXCEPT !.does = "request", !.by = c, !.pair = {c, target},
                             !.currency = currency, !.rate = rate]
<1>1. Becomes(r, x) /\ c # target /\ ActiveBetween(c, target) = {}
  BY DEF StartRequest, Opened, Becomes
<1>2. /\ x.does = "request" /\ x.by = c /\ x.pair = {c, target}
      /\ x.currency = currency /\ x.rate = rate /\ x.stage = "ready"
  BY DEF Idle
<1>3. x \in Transaction
  BY DEF Transaction, Idle, Handlers
<1> HIDE DEF x
<1>4. WellFormed(x)
  BY <1>1, <1>2, <1>3 DEF WellFormed, Asks, Readers
<1>5. StillTrue(x)
  BY <1>1, <1>2 DEF StillTrue, ActiveBetween, Readers
<1> QED BY <1>1, <1>4, <1>5

LEMMA StartDecisionOpens ==
  ASSUME Typed, NEW r \in Requests, NEW c \in Companies, NEW i \in DOMAIN proposals,
         NEW does \in {"accept_rate", "reject_rate"}, StartDecision(r, c, i, does)
  PROVE  \E x : Becomes(r, x) /\ WellFormed(x) /\ StillTrue(x)
<1> DEFINE k == proposals[i].collaboration
           x == [Idle EXCEPT !.does = does, !.by = c, !.pair = Parties(k),
                             !.id = k, !.proposal = i]
<1>1. /\ Becomes(r, x) /\ c \in Parties(k) /\ proposals[i].status = "proposed"
      /\ proposals[i].proposedBy # c
  BY DEF StartDecision, Opened, Becomes
<1>2. /\ x.does = does /\ x.by = c /\ x.pair = Parties(k) /\ x.id = k /\ x.proposal = i
      /\ x.stage = "ready" /\ x.current = 0
  BY DEF Idle
<1>3. k \in DOMAIN collaborations /\ k \in Nat /\ i \in Nat /\ i # 0
  BY DEF Typed, TypeOK
<1>4. x \in Transaction
  BY <1>3, PartiesTyped DEF Transaction, Idle, Handlers
<1>5. proposals[i].collaboration = k
  OBVIOUS
<1> HIDE DEF x, k
<1>6. WellFormed(x)
  BY <1>1, <1>2, <1>3, <1>4, <1>5 DEF WellFormed, Concerns, Readers
<1>7. StillTrue(x)
  BY <1>1, <1>2 DEF StillTrue, Readers
<1> QED BY <1>1, <1>6, <1>7

LEMMA StartOpens ==
  ASSUME Typed, NEW r \in Requests, NEW c \in Companies, Start(r, c)
  PROVE  \E x : Becomes(r, x) /\ WellFormed(x) /\ StillTrue(x)
<1>1. CASE \E target \in Companies, body \in Openings :
             StartRequest(r, c, target, body.currency, body.rate)
  <2>1. PICK target \in Companies, body \in Openings :
          StartRequest(r, c, target, body.currency, body.rate)
    BY <1>1
  <2>2. body.currency \in Currencies /\ body.rate \in Rates
    BY CollaborationsAssumption
  <2> QED BY <2>1, <2>2, StartRequestOpens
<1>2. CASE \E k \in DOMAIN collaborations :
             \/ StartAccept(r, c, k) \/ StartReject(r, c, k) \/ StartCancel(r, c, k)
             \/ StartSuspend(r, c, k) \/ StartArchive(r, c, k)
  <2>1. PICK k \in DOMAIN collaborations :
             \/ StartAccept(r, c, k) \/ StartReject(r, c, k) \/ StartCancel(r, c, k)
             \/ StartSuspend(r, c, k) \/ StartArchive(r, c, k)
    BY <1>2
  <2>2. PICK does \in {"accept", "reject", "cancel", "shelve"}, stage \in {"reading", "ready"} :
          /\ StartOn(r, c, k, does, stage, Unset, Unset)
          /\ does \in {"accept", "reject"} => c = collaborations[k].target
          /\ does = "cancel" => c = collaborations[k].initiator
          /\ does \in {"accept", "reject"} <=> stage = "reading"
          /\ does # "shelve" => collaborations[k].status = "pending"
    BY <2>1 DEF StartAccept, StartReject, StartCancel, StartSuspend, StartArchive
  <2> QED BY <2>2, StartOnOpens DEF Handlers, Readers
<1>3. CASE \E k \in DOMAIN collaborations, rate \in NewRates : StartPropose(r, c, k, rate)
  <2>1. PICK k \in DOMAIN collaborations, rate \in NewRates : StartPropose(r, c, k, rate)
    BY <1>3
  <2>2. rate \in Rates
    BY CollaborationsAssumption
  <2> QED BY <2>1, <2>2, StartOnOpens DEF StartPropose, Handlers, Readers
<1>4. CASE \E k \in DOMAIN collaborations, body \in Updates :
             StartUpdate(r, c, k, body.currency, body.rate)
  <2>1. PICK k \in DOMAIN collaborations, body \in Updates :
          StartUpdate(r, c, k, body.currency, body.rate)
    BY <1>4
  <2>2. body.rate \in Rates \cup {Unset} /\ body.currency \in Currencies \cup {Unset}
    BY CollaborationsAssumption
  <2>3. PICK currency \in Currencies \cup {Unset} :
          /\ StartOn(r, c, k, "update", "reading", body.rate, currency)
          /\ collaborations[k].status = "pending"
    BY <2>1, <2>2 DEF StartUpdate
  <2> QED BY <2>2, <2>3, StartOnOpens DEF Handlers, Readers
<1>5. CASE \E i \in DOMAIN proposals : StartAcceptRate(r, c, i) \/ StartRejectRate(r, c, i)
  BY <1>5, StartDecisionOpens DEF StartAcceptRate, StartRejectRate
<1> QED BY <1>1, <1>2, <1>3, <1>4, <1>5 DEF Start

\* The second read: the handlers that look for the pending proposal find none or one.
LEMMA ReadOpens ==
  ASSUME Typed, NEW r \in Requests, ReadProposal(r)
  PROVE  \E x : /\ Becomes(r, x) /\ WellFormed(x)
                /\ x.pair = request[r].pair /\ x.overtaken = request[r].overtaken
                /\ StillTrue(request[r]) => StillTrue(x)
<1> DEFINE q == request[r]
           pending == PendingProposals(q.id)
<1>1. q.stage = "reading" /\ q.does \in Readers /\ q.proposal = 0 /\ WellFormed(q)
  BY DEF ReadProposal, Typed, RequestsTyped, WellFormed
<1>2. /\ q \in Transaction /\ Concerns(q) /\ q.by \in q.pair
      /\ q.id \in DOMAIN collaborations /\ collaborations[q.id] \in Collaboration
      /\ proposals \in Seq(Proposal) /\ 0 \notin DOMAIN proposals
  BY <1>1, ConcernedRows DEF WellFormed, Readers
<1>3. CASE q.does # "propose" /\ pending = {}
  <2> DEFINE x == [q EXCEPT !.stage = "ready"]
  <2>1. Becomes(r, x)
    BY <1>3 DEF ReadProposal, Becomes, Proposable
  <2>2. /\ x \in Transaction /\ x.does = q.does /\ x.stage = "ready" /\ x.by = q.by
        /\ x.pair = q.pair /\ x.id = q.id /\ x.proposal = 0 /\ x.rate = q.rate
        /\ x.overtaken = q.overtaken /\ x.current = q.current
    BY <1>1, <1>2 DEF Transaction
  <2> HIDE DEF x
  <2>3. WellFormed(x)
    BY <1>1, <1>2, <2>2 DEF WellFormed, Concerns, Readers
  <2>4. StillTrue(q) => StillTrue(x)
    BY <1>1, <1>3, <2>2 DEF StillTrue, Readers
  <2> QED BY <2>1, <2>2, <2>3, <2>4
<1>4. CASE q.does # "propose" /\ pending # {}
  <2>1. PICK i \in pending :
          /\ pending = {i}
          /\ Becomes(r, [q EXCEPT !.stage = "ready", !.proposal = i,
                !.rate = IF q.rate = proposals[i].newRate THEN Unset ELSE q.rate])
    BY <1>4 DEF ReadProposal, Becomes, Proposable
  <2> DEFINE x == [q EXCEPT !.stage = "ready", !.proposal = i,
                     !.rate = IF q.rate = proposals[i].newRate THEN Unset ELSE q.rate]
  <2>2. /\ i \in DOMAIN proposals /\ proposals[i].collaboration = q.id
        /\ i \in Nat /\ i # 0
    BY <1>2 DEF PendingProposals
  <2>3. /\ x \in Transaction /\ x.does = q.does /\ x.stage = "ready" /\ x.by = q.by
        /\ x.pair = q.pair /\ x.id = q.id /\ x.proposal = i
        /\ x.overtaken = q.overtaken /\ x.current = q.current
    BY <1>1, <1>2, <2>2 DEF Transaction
  <2>4. Becomes(r, x)
    BY <2>1
  <2> HIDE DEF x
  <2>5. WellFormed(x)
    BY <1>1, <1>2, <1>4, <2>2, <2>3 DEF WellFormed, Concerns, Readers
  <2>6. StillTrue(q) => StillTrue(x)
    BY <1>1, <1>4, <2>1, <2>2, <2>3 DEF StillTrue, Readers
  <2> QED BY <2>3, <2>4, <2>5, <2>6
<1>5. CASE q.does = "propose"
  <2> DEFINE old == RateOf(q.current)
             x == [q EXCEPT !.stage = "ready", !.oldRate = old]
  <2>1. Becomes(r, x) /\ pending = {}
    BY <1>5 DEF ReadProposal, Becomes, Proposable
  <2>2. old \in Rates \cup {Unset}
    <3>1. q.current # 0 => q.current \in DOMAIN proposals
      BY <1>2 DEF Concerns
    <3>2. q.current # 0 => proposals[q.current] \in Proposal
      BY <1>2, <3>1
    <3> QED BY <3>2 DEF Proposal, RateOf
  <2>3. /\ x \in Transaction /\ x.does = q.does /\ x.stage = "ready" /\ x.by = q.by
        /\ x.pair = q.pair /\ x.id = q.id /\ x.proposal = 0 /\ x.rate = q.rate
        /\ x.overtaken = q.overtaken /\ x.current = q.current /\ x.oldRate = RateOf(q.current)
    <3> HIDE DEF old
    <3>1. /\ x \in Transaction /\ x.does = q.does /\ x.stage = "ready" /\ x.by = q.by
          /\ x.pair = q.pair /\ x.id = q.id /\ x.proposal = 0 /\ x.rate = q.rate
          /\ x.overtaken = q.overtaken /\ x.current = q.current /\ x.oldRate = old
      BY <1>1, <1>2, <2>2 DEF Transaction
    <3> QED BY <3>1 DEF old
  <2> HIDE DEF x
  <2>4. WellFormed(x)
    BY <1>1, <1>2, <2>3 DEF WellFormed, Concerns, Readers
  <2>5. StillTrue(q) => StillTrue(x)
    BY <1>1, <1>5, <2>1, <2>3 DEF StillTrue, Readers
  <2> QED BY <2>1, <2>3, <2>4, <2>5
<1> QED BY <1>3, <1>4, <1>5

\* What a request did not commit leaves the rows, and the reads of the others, alone.
LEMMA BecomesKeeps ==
  ASSUME IInv, NEW r \in Requests, NEW x, Becomes(r, x), WellFormed(x),
         Fresh(x) => StillTrue(x)
  PROVE  IInv'
<1>1. Typed'
  BY BecomesTyped DEF IInv
<1>2. ReadsHold'
  <2> SUFFICES ASSUME NEW y \in Requests, Fresh(request[y])' PROVE StillTrue(request[y])'
    BY DEF ReadsHold
  <2>2. CASE request'[y] = x
    BY <2>2 DEF Becomes, Fresh, StillTrue, RateOf, PendingProposals, Parties
  <2>3. CASE request'[y] = request[y]
    BY <2>3 DEF IInv, ReadsHold, Becomes, Fresh, StillTrue, RateOf, PendingProposals,
               Parties
  <2> QED BY <2>2, <2>3 DEF Becomes
<1>3. QuietRows'
  <2>1. UNCHANGED <<collaborations, proposals, raced>> /\ QuietRows
    BY DEF IInv, Becomes
  <2> QED BY <2>1 DEF QuietRows, OnlyActive, OnlyPending, PendingProposals, OthersDecide,
                     FirstProposals, RateAccepted, OldRatesInForce, RateOf, Parties, OtherParty
<1> QED BY <1>1, <1>2, <1>3 DEF IInv

---------------------------------------------------------------------------
(* Steps that commit: the rows of other pairs, and those who read them.    *)

\* A collaboration of another pair, and its proposals, stay as they are.
LEMMA PairKept ==
  ASSUME Typed, NEW pair, Writes(pair), NEW k \in DOMAIN collaborations, Parties(k) # pair
  PROVE  /\ k \in DOMAIN collaborations' /\ collaborations'[k] = collaborations[k]
         /\ \A i \in DOMAIN proposals :
              proposals[i].collaboration = k =>
                i \in DOMAIN proposals' /\ proposals'[i] = proposals[i]
         /\ \A i \in DOMAIN proposals' :
              proposals'[i].collaboration = k =>
                i \in DOMAIN proposals /\ proposals'[i] = proposals[i]
         /\ PendingProposals(k)' = PendingProposals(k)
<1>1. k \in DOMAIN collaborations' /\ collaborations'[k] = collaborations[k]
  BY DEF Writes
<1>2. ASSUME NEW i \in DOMAIN proposals, proposals[i].collaboration = k
      PROVE  i \in DOMAIN proposals' /\ proposals'[i] = proposals[i]
  BY <1>2 DEF Writes
<1>3. ASSUME NEW i \in DOMAIN proposals', proposals'[i].collaboration = k
      PROVE  i \in DOMAIN proposals /\ proposals'[i] = proposals[i]
  <2>1. i \in DOMAIN proposals
    BY <1>1, <1>3 DEF Writes, Parties, PartiesOf
  <2> QED BY <1>2, <1>3, <2>1 DEF Writes
<1>4. PendingProposals(k)' = PendingProposals(k)
  BY <1>2, <1>3 DEF PendingProposals
<1> QED BY <1>1, <1>2, <1>3, <1>4

\* Whoever could commit without a race after another one could before it, and its
\* reads are of rows the other did not write.
LEMMA CommitKeepsReads ==
  ASSUME IInv, NEW r \in Requests, Commit(r)
  PROVE  ReadsHold'
<1> SUFFICES ASSUME NEW y \in Requests, Fresh(request[y])' PROVE StillTrue(request[y])'
  BY DEF ReadsHold
<1> DEFINE pair == request[r].pair
<1>1. Typed /\ Writes(pair) /\ Committed(r)
  BY CommitWrites DEF IInv
<1>2. CASE y = r
  <2>1. request'[y] = Idle
    BY <1>1, <1>2, CommitEnds
  <2>2. request'[y].does = "nothing"
    BY <2>1, IdleIsTyped
  <2> QED BY <2>2 DEF StillTrue, Readers
<1>3. CASE y # r /\ request[y].pair = pair
  <2>1. request'[y] = [request[y] EXCEPT !.overtaken = pair \notin raced']
    BY <1>1, <1>3, CommitEnds
  <2>2. request[y] \in Transaction
    BY <1>1 DEF Typed, RequestsTyped, WellFormed
  <2>3. request'[y].overtaken = (pair \notin raced') /\ request'[y].pair = pair
    BY <1>3, <2>1, <2>2 DEF Transaction
  <2> QED BY <2>3 DEF Fresh
<1>4. CASE y # r /\ request[y].pair # pair
  <2> DEFINE q == request[y]
  <2>1. request'[y] = q /\ raced \subseteq raced'
    BY <1>1, <1>4, CommitEnds
  <2>2. StillTrue(q) /\ WellFormed(q)
    BY <2>1 DEF Fresh, IInv, ReadsHold, Typed, RequestsTyped
  <2>3. CASE q.does = "nothing"
    BY <2>1, <2>3 DEF StillTrue, Readers
  <2>4. CASE q.does = "request"
    <3>1. ASSUME NEW k \in DOMAIN collaborations', PartiesOf(collaborations'[k]) = q.pair
          PROVE  collaborations'[k].status \notin {"pending", "accepted"}
      <4>1. k \in DOMAIN collaborations /\ Parties(k) = q.pair
        BY <1>1, <1>4, <3>1 DEF Writes, Parties, PartiesOf
      <4>2. collaborations'[k] = collaborations[k]
        BY <1>1, <1>4, <4>1, PairKept
      <4> QED BY <2>2, <2>4, <4>1, <4>2 DEF StillTrue
    <3> QED BY <2>1, <2>4, <3>1 DEF StillTrue, Readers, Parties, PartiesOf
  <2>5. CASE q.does \notin {"nothing", "request"}
    <3>1. /\ q.id \in DOMAIN collaborations /\ q.pair = Parties(q.id)
          /\ q.proposal # 0 => /\ q.proposal \in DOMAIN proposals
                               /\ proposals[q.proposal].collaboration = q.id
          /\ q.does \in {"accept_rate", "reject_rate"} => q.proposal # 0
      BY <2>2, <2>5 DEF WellFormed, Concerns
    <3> HIDE DEF q
    <3>2. /\ collaborations'[q.id] = collaborations[q.id]
          /\ q.proposal # 0 => proposals'[q.proposal] = proposals[q.proposal]
      BY <1>1, <1>4, <3>1, PairKept DEF q
    <3>a. q.does = "propose" /\ q.current # 0 => proposals'[q.current] = proposals[q.current]
      <4>1. q.does = "propose" => q.current = collaborations[q.id].currentRate
        BY <2>2 DEF StillTrue
      <4>2. q.does = "propose" /\ q.current # 0 =>
              /\ q.current \in DOMAIN proposals
              /\ proposals[q.current].collaboration = q.id
        BY <1>1, <3>1, <4>1 DEF Typed, TypeOK
      <4> QED BY <1>1, <1>4, <3>1, <4>2, PairKept DEF q
    <3>3. \A n \in DOMAIN collaborations : Parties(n) # pair =>
            {i \in DOMAIN proposals' :
               proposals'[i].collaboration = n /\ proposals'[i].status = "proposed"}
            = PendingProposals(n)
      <4> SUFFICES ASSUME NEW n \in DOMAIN collaborations, Parties(n) # pair
                   PROVE  PendingProposals(n)' = PendingProposals(n)
        BY DEF PendingProposals
      <4> QED BY <1>1, PairKept
    <3>4. {i \in DOMAIN proposals' :
             proposals'[i].collaboration = q.id /\ proposals'[i].status = "proposed"}
            = PendingProposals(q.id)
      BY <1>4, <3>1, <3>3 DEF q
    <3> QED BY <2>1, <2>2, <2>5, <3>1, <3>2, <3>a, <3>4 DEF StillTrue, RateOf, PendingProposals, q
  <2> QED BY <2>3, <2>4, <2>5
<1> QED BY <1>2, <1>3, <1>4

\* What QuietRows says of one collaboration, of its proposals first.
Agrees(k) == OnlyPending(k) /\ OthersDecide(k) /\ FirstProposals(k) /\ RateAccepted(k)
             /\ OldRatesInForce(k)

Quiet(k) == OnlyActive(k) /\ Agrees(k)

\* A collaboration written by no commit, with the proposals it had.
LEMMA RowKept ==
  ASSUME Typed, NEW k \in DOMAIN collaborations,
         k \in DOMAIN collaborations', collaborations'[k] = collaborations[k],
         \A i \in DOMAIN proposals :
           proposals[i].collaboration = k =>
             i \in DOMAIN proposals' /\ proposals'[i] = proposals[i],
         \A i \in DOMAIN proposals' :
           proposals'[i].collaboration = k =>
             i \in DOMAIN proposals /\ proposals'[i] = proposals[i],
         Agrees(k)
  PROVE  Agrees(k)'
<1>1. OnlyPending(k)'
  BY DEF Agrees, OnlyPending, PendingProposals
<1>2. OthersDecide(k)'
  BY DEF Agrees, OthersDecide, OtherParty
<1>3. FirstProposals(k)'
  BY DEF Agrees, FirstProposals
<1>4. RateAccepted(k)'
  BY DEF Agrees, RateAccepted, Typed, TypeOK
<1>5. OldRatesInForce(k)'
  <2>1. RateOf(collaborations[k].currentRate)' = RateOf(collaborations[k].currentRate)
    BY DEF RateOf, Typed, TypeOK
  <2> QED BY <2>1 DEF Agrees, OldRatesInForce, PendingProposals
<1> QED BY <1>1, <1>2, <1>3, <1>4, <1>5 DEF Agrees

\* A collaboration of another pair is as quiet as it was.
LEMMA OthersStayQuiet ==
  ASSUME Typed, NEW pair, Writes(pair), NEW k \in DOMAIN collaborations, Parties(k) # pair,
         Quiet(k)
  PROVE  Quiet(k)'
<1>1. OnlyActive(k)'
  <2> SUFFICES ASSUME NEW j \in DOMAIN collaborations', Parties(j)' = Parties(k)',
                      {collaborations'[j].status, collaborations'[k].status}
                        \subseteq {"pending", "accepted"}
               PROVE  j = k
    BY DEF OnlyActive
  <2>1. j \in DOMAIN collaborations /\ Parties(j) = Parties(k)
    BY PairKept DEF Writes, Parties, PartiesOf
  <2>2. collaborations'[j] = collaborations[j] /\ collaborations'[k] = collaborations[k]
    BY <2>1, PairKept
  <2> QED BY <2>1, <2>2 DEF Quiet, OnlyActive
<1>2. Agrees(k)'
  BY PairKept, RowKept DEF Quiet
<1> QED BY <1>1, <1>2 DEF Quiet

---------------------------------------------------------------------------
(* Steps that commit: the rows of the pair, when nobody overtook them.     *)

\* A commit in place opens no proposal and, when what it read still holds, puts no
\* collaboration back among the pending and accepted ones.
LEMMA InPlaceOpensNothing ==
  ASSUME Typed, NEW r \in Requests, CommitInPlace(r), StillTrue(request[r])
  PROVE  LET q == request[r]
         IN /\ RowOf(q).status \in {"pending", "accepted"} =>
                 collaborations[q.id].status \in {"pending", "accepted"}
            /\ RowOf(q).status = "pending" => collaborations[q.id].status = "pending"
            /\ q.proposal # 0 /\ OfferOf(q).status = "proposed" =>
                 proposals[q.proposal].status = "proposed"
<1> DEFINE q == request[r]
<1>1. q.does \in {"accept", "reject", "cancel", "update", "accept_rate", "reject_rate"}
  BY InPlaceRows
<1>2. /\ collaborations[q.id] \in Collaboration
      /\ q.proposal # 0 => proposals[q.proposal] \in Proposal
  BY <1>1, ConcernedRows
<1>3. /\ RowOf(q).status \in {"pending", "accepted"} =>
           collaborations[q.id].status \in {"pending", "accepted"}
      /\ RowOf(q).status = "pending" => collaborations[q.id].status = "pending"
  BY <1>1, <1>2 DEF RowOf, AcceptedRow, RowAs, UpdatedRow, RatedRow, Collaboration, StillTrue
<1>4. q.proposal # 0 /\ OfferOf(q).status = "proposed" =>
        proposals[q.proposal].status = "proposed"
  BY <1>1, <1>2 DEF OfferOf, OfferAs, UpdatedOffer, Proposal
<1> QED BY <1>3, <1>4

\* The verdict, when there is one, is given by the party that did not propose.
LEMMA OthersStillDecide ==
  ASSUME Typed, NEW r \in Requests, CommitInPlace(r), StillTrue(request[r]),
         NEW k, k = request[r].id, Agrees(k)
  PROVE  OthersDecide(k)'
<1> DEFINE q == request[r]
<1>1. /\ q.does \in {"accept", "reject", "cancel", "update", "accept_rate", "reject_rate"}
      /\ InPlace(q, RowOf(q), OfferOf(q)) /\ Like(q, RowOf(q), OfferOf(q))
  BY InPlaceRows
<1>2. /\ Concerns(q) /\ q.by \in Parties(k) /\ k \in DOMAIN collaborations
      /\ q.proposal # 0 => q.proposal \in DOMAIN proposals /\ proposals[q.proposal] \in Proposal
      /\ 0 \notin DOMAIN proposals
  BY <1>1, ConcernedRows
<1>3. /\ collaborations'[k].initiator = collaborations[k].initiator
      /\ collaborations'[k].target = collaborations[k].target
      /\ collaborations[k].initiator # collaborations[k].target
  BY <1>1, <1>2, PartiesTyped DEF InPlace, Like
<1> SUFFICES ASSUME NEW i \in DOMAIN proposals', proposals'[i].collaboration = k,
                    proposals'[i].status # "proposed"
             PROVE  proposals'[i].decidedBy = OtherParty(k, proposals'[i].proposedBy)
  BY <1>3 DEF OthersDecide, OtherParty
<1>5. CASE i # q.proposal
  BY <1>1, <1>5 DEF InPlace, Agrees, OthersDecide
<1>6. CASE i = q.proposal
  <2>1. /\ i \in DOMAIN proposals /\ proposals'[i] = OfferOf(q) /\ q.proposal # 0
        /\ proposals[i] \in Proposal /\ proposals[i].collaboration = k
        /\ proposals'[i].proposedBy = proposals[i].proposedBy
    BY <1>1, <1>2, <1>6 DEF InPlace, Concerns, Like
  <2>2. proposals[i].proposedBy \in Parties(k)
    BY <2>1 DEF Typed, TypeOK
  <2>3. CASE q.does \in {"accept", "reject"}
    <3>1. proposals'[i].decidedBy = q.by
      BY <2>1, <2>3, <1>6 DEF OfferOf, OfferAs, Proposal
    <3>2. q.by = collaborations[k].target /\ collaborations[k].status = "pending"
      BY <1>2, <2>3 DEF Concerns, StillTrue
    <3>3. proposals[i].proposedBy = collaborations[k].initiator
      BY <2>1, <3>2 DEF Agrees, FirstProposals
    <3> QED BY <1>3, <2>1, <3>1, <3>2, <3>3 DEF OtherParty
  <2>4. CASE q.does \in {"accept_rate", "reject_rate"}
    <3>1. proposals'[i].decidedBy = q.by
      BY <2>1, <2>4, <1>6 DEF OfferOf, OfferAs, Proposal
    <3>2. proposals[i].proposedBy # q.by
      BY <1>2, <1>6, <2>4 DEF Concerns
    <3> QED BY <1>2, <1>3, <2>1, <2>2, <3>1, <3>2 DEF OtherParty, Parties
  <2>5. CASE q.does \in {"cancel", "update"}
    <3>1. /\ proposals'[i].decidedBy = proposals[i].decidedBy
          /\ proposals'[i].status = proposals[i].status
      BY <2>1, <2>5, <1>6 DEF OfferOf, UpdatedOffer, Proposal
    <3> QED BY <2>1, <3>1 DEF Agrees, OthersDecide
  <2> QED BY <1>1, <2>3, <2>4, <2>5
<1> QED BY <1>5, <1>6

\* A rate that is current was accepted: the proposal a request is about to write is one
\* still to be decided, and accepting it is what makes it current.
LEMMA RateStillAccepted ==
  ASSUME Typed, NEW r \in Requests, CommitInPlace(r), StillTrue(request[r]),
         NEW k, k = request[r].id, Agrees(k), request[r].stage = "ready"
  PROVE  RateAccepted(k)'
<1> DEFINE q == request[r]
           current == collaborations[k].currentRate
<1>1. /\ q.does \in {"accept", "reject", "cancel", "update", "accept_rate", "reject_rate"}
      /\ InPlace(q, RowOf(q), OfferOf(q)) /\ Like(q, RowOf(q), OfferOf(q))
  BY InPlaceRows
<1>2. /\ Concerns(q) /\ k \in DOMAIN collaborations /\ collaborations[k] \in Collaboration
      /\ q.proposal # 0 => q.proposal \in DOMAIN proposals /\ proposals[q.proposal] \in Proposal
      /\ 0 \notin DOMAIN proposals
  BY <1>1, ConcernedRows
<1>3. current # 0 => current \in DOMAIN proposals /\ proposals[current].status = "accepted"
  BY <1>2 DEF Agrees, RateAccepted, Typed, TypeOK
<1>4. collaborations'[k] = RowOf(q)
  BY <1>1, <1>2 DEF InPlace
<1>5. CASE q.does \in {"accept", "accept_rate"} /\ q.proposal # 0
  <2>1. RowOf(q).currentRate = q.proposal
    BY <1>2, <1>5 DEF RowOf, AcceptedRow, RatedRow, Collaboration
  <2>2. proposals'[q.proposal].status = "accepted"
    BY <1>1, <1>2, <1>5 DEF InPlace, OfferOf, OfferAs, Proposal
  <2> QED BY <1>4, <2>1, <2>2 DEF RateAccepted
<1>6. CASE ~(q.does \in {"accept", "accept_rate"} /\ q.proposal # 0)
  <2>1. q.does # "accept_rate"
    BY <1>2, <1>6 DEF Concerns
  <2>2. RowOf(q).currentRate = current
    BY <1>1, <1>2, <1>6, <2>1 DEF RowOf, AcceptedRow, RowAs, UpdatedRow, Collaboration
  <2>3. q.proposal # 0 /\ q.does # "cancel" => proposals[q.proposal].status = "proposed"
    BY <1>1 DEF StillTrue, Readers, PendingProposals
  <2>4. current # 0 => proposals'[current].status = "accepted"
    <3>1. CASE current # q.proposal
      BY <1>1, <1>3, <3>1 DEF InPlace
    <3>2. CASE q.does = "cancel"
      BY <1>1, <1>3, <3>2 DEF InPlace, OfferOf
    <3> QED BY <1>3, <2>3, <3>1, <3>2
  <2> QED BY <1>4, <2>2, <2>4 DEF RateAccepted
<1> QED BY <1>5, <1>6

\* A collaboration still has the proposal it was asked with, or one that was accepted.
LEMMA FirstProposalsStay ==
  ASSUME Typed, NEW r \in Requests, CommitInPlace(r), StillTrue(request[r]),
         NEW k, k = request[r].id, Agrees(k), request[r].stage = "ready"
  PROVE  FirstProposals(k)'
<1> DEFINE q == request[r]
<1>1. /\ q.does \in {"accept", "reject", "cancel", "update", "accept_rate", "reject_rate"}
      /\ InPlace(q, RowOf(q), OfferOf(q)) /\ Like(q, RowOf(q), OfferOf(q))
  BY InPlaceRows
<1>2. /\ Concerns(q) /\ k \in DOMAIN collaborations /\ collaborations[k] \in Collaboration
      /\ q.proposal # 0 => q.proposal \in DOMAIN proposals /\ proposals[q.proposal] \in Proposal
      /\ 0 \notin DOMAIN proposals
      /\ collaborations \in Seq(Collaboration)
  BY <1>1, ConcernedRows
<1>3. /\ collaborations'[k] = RowOf(q)
      /\ collaborations'[k].initiator = collaborations[k].initiator
  BY <1>1, <1>2 DEF InPlace, Like
<1>4. \A i \in DOMAIN proposals' :
        /\ i \in DOMAIN proposals
        /\ proposals'[i].collaboration = proposals[i].collaboration
        /\ proposals'[i].proposedBy = proposals[i].proposedBy
        /\ proposals'[i].oldRate = proposals[i].oldRate
  BY <1>1, <1>2 DEF InPlace, Like, Concerns
<1>5. ASSUME collaborations'[k].status = "pending",
             NEW i \in DOMAIN proposals', proposals'[i].collaboration = k
      PROVE  proposals'[i].proposedBy = collaborations'[k].initiator
  <2>1. collaborations[k].status = "pending"
    BY <1>3, <1>5, InPlaceOpensNothing
  <2> QED BY <1>3, <1>4, <1>5, <2>1 DEF Agrees, FirstProposals
<1>6. ASSUME collaborations'[k].status \in {"pending", "accepted"},
             collaborations'[k].currentRate = 0
      PROVE  \E i \in DOMAIN proposals' :
               /\ proposals'[i].collaboration = k
               /\ proposals'[i].oldRate = Unset
               /\ \/ proposals'[i].status = "rejected"
                  \/ proposals'[i].status = "proposed" /\ collaborations'[k].status = "pending"
  <2>1. collaborations[k].status \in {"pending", "accepted"}
    BY <1>3, <1>6, InPlaceOpensNothing
  <2>2. q.does \in {"accept", "update", "reject_rate"}
    <3>1. q.does # "accept_rate"
      BY <1>2, <1>3, <1>6 DEF RowOf, RatedRow, Collaboration, Concerns
    <3>2. q.does \notin {"reject", "cancel"}
      BY <1>2, <1>3, <1>6 DEF RowOf, RowAs, Collaboration
    <3> QED BY <1>1, <3>1, <3>2
  <2>3. q.does = "accept" => q.proposal = 0
    BY <1>2, <1>3, <1>6 DEF RowOf, AcceptedRow, Collaboration
  <2>4. collaborations[k].currentRate = 0
    BY <1>2, <1>3, <1>6, <2>2, <2>3 DEF RowOf, AcceptedRow, UpdatedRow, Collaboration
  <2>5. PICK i \in DOMAIN proposals :
          /\ proposals[i].collaboration = k
          /\ proposals[i].oldRate = Unset
          /\ \/ proposals[i].status = "rejected"
             \/ proposals[i].status = "proposed" /\ collaborations[k].status = "pending"
    BY <2>1, <2>4 DEF Agrees, FirstProposals
  <2>6. i \in DOMAIN proposals'
    BY <1>1 DEF InPlace
  <2>7. CASE q.does = "accept"
    <3>1. PendingProposals(k) = {} /\ proposals'[i] = proposals[i]
      BY <1>1, <1>2, <2>3, <2>7 DEF StillTrue, Readers, InPlace
    <3>2. proposals[i].status # "proposed"
      BY <2>5, <3>1 DEF PendingProposals
    <3> QED BY <2>5, <2>6, <3>1, <3>2
  <2>8. CASE q.does = "update"
    <3>1. collaborations'[k].status = collaborations[k].status
      BY <1>2, <1>3, <2>8 DEF RowOf, UpdatedRow, Collaboration
    <3>2. proposals'[i].status = proposals[i].status
      BY <1>1, <1>2, <2>8 DEF InPlace, OfferOf, UpdatedOffer, Proposal
    <3> QED BY <1>4, <2>5, <2>6, <3>1, <3>2
  <2>9. CASE q.does = "reject_rate"
    <3>1. collaborations'[k].status = collaborations[k].status
      BY <1>3, <2>9 DEF RowOf
    <3>2. proposals'[i].status \in {proposals[i].status, "rejected"}
      <4>1. CASE i = q.proposal
        <5>1. proposals'[i] = OfferOf(q) /\ OfferOf(q) = OfferAs(q, "rejected")
          BY <1>1, <2>9, <4>1 DEF InPlace, OfferOf
        <5>2. i # 0 /\ proposals[q.proposal] \in Proposal
          BY <1>2, <4>1
        <5> QED BY <5>1, <5>2 DEF OfferAs, Proposal
      <4>2. CASE i # q.proposal
        BY <1>1, <4>2 DEF InPlace
      <4> QED BY <4>1, <4>2
    <3> QED BY <1>4, <2>5, <2>6, <3>1, <3>2
  <2> QED BY <2>2, <2>7, <2>8, <2>9
<1> QED BY <1>5, <1>6 DEF FirstProposals

\* A proposal that is still pending after a commit in place is the one an update wrote, or
\* one a cancellation left, and the rate in force is what it was.
LEMMA OldRatesStay ==
  ASSUME Typed, NEW r \in Requests, CommitInPlace(r), StillTrue(request[r]),
         NEW k, k = request[r].id, Agrees(k), request[r].stage = "ready"
  PROVE  OldRatesInForce(k)'
<1> DEFINE q == request[r]
           current == collaborations[k].currentRate
<1>1. /\ q.does \in {"accept", "reject", "cancel", "update", "accept_rate", "reject_rate"}
      /\ InPlace(q, RowOf(q), OfferOf(q)) /\ Like(q, RowOf(q), OfferOf(q))
  BY InPlaceRows
<1>2. /\ Concerns(q) /\ k \in DOMAIN collaborations /\ collaborations[k] \in Collaboration
      /\ q.proposal # 0 => q.proposal \in DOMAIN proposals /\ proposals[q.proposal] \in Proposal
      /\ 0 \notin DOMAIN proposals
  BY <1>1, ConcernedRows
<1>3. current # 0 => current \in DOMAIN proposals /\ proposals[current].status = "accepted"
  BY <1>2 DEF Agrees, RateAccepted, Typed, TypeOK
<1>4. /\ collaborations'[k] = RowOf(q)
      /\ \A i \in DOMAIN proposals' :
           /\ i \in DOMAIN proposals
           /\ proposals'[i].collaboration = proposals[i].collaboration
           /\ proposals'[i].oldRate = proposals[i].oldRate
           /\ i # q.proposal => proposals'[i] = proposals[i]
           /\ i = q.proposal => proposals'[i] = OfferOf(q)
  BY <1>1, <1>2 DEF InPlace, Like, Concerns
<1>5. \A i \in PendingProposals(k) : proposals[i].oldRate = RateOf(current)
  BY DEF Agrees, OldRatesInForce
<1>6. CASE q.does \in {"cancel", "update"}
  <2>1. RowOf(q).currentRate = current
    BY <1>2, <1>6 DEF RowOf, RowAs, UpdatedRow, Collaboration
  <2>2. RateOf(current) = IF current = 0 THEN Unset ELSE proposals'[current].newRate
    <3>1. q.does = "update" /\ q.proposal # 0 => proposals[q.proposal].status = "proposed"
      BY <1>1 DEF StillTrue, Readers, PendingProposals
    <3>2. current # 0 => proposals'[current] = proposals[current]
      BY <1>1, <1>3, <1>6, <3>1 DEF InPlace, OfferOf
    <3> QED BY <3>2 DEF RateOf
  <2>3. \A i \in DOMAIN proposals' : proposals'[i].status = proposals[i].status
    <3> SUFFICES ASSUME NEW i \in DOMAIN proposals', i = q.proposal
                 PROVE  OfferOf(q).status = proposals[i].status
      BY <1>4
    <3> QED BY <1>2, <1>4, <1>6 DEF OfferOf, UpdatedOffer, Proposal
  <2>4. \A i \in PendingProposals(k)' : i \in PendingProposals(k)
    BY <1>4, <2>3 DEF PendingProposals
  <2>5. \A i \in PendingProposals(k)' : proposals'[i].oldRate = RateOf(current)
    BY <1>4, <1>5, <2>4 DEF PendingProposals
  <2>6. RateOf(collaborations[k].currentRate)' = RateOf(current)
    BY <1>4, <2>1, <2>2 DEF RateOf
  <2> QED BY <2>5, <2>6 DEF OldRatesInForce
<1>7. CASE q.does \in {"accept", "reject", "accept_rate", "reject_rate"}
  <2>1. \A i \in PendingProposals(k) : i = q.proposal
    <3>1. CASE q.does \in {"accept", "reject"}
      BY <3>1 DEF StillTrue, Readers
    <3>2. CASE q.does \in {"accept_rate", "reject_rate"}
      <4>1. q.proposal \in PendingProposals(k)
        BY <1>2, <3>2 DEF StillTrue, Concerns, PendingProposals
      <4> QED BY <4>1 DEF Agrees, OnlyPending
    <3> QED BY <1>7, <3>1, <3>2
  <2>2. q.proposal # 0 => OfferOf(q).status # "proposed"
    BY <1>2, <1>7 DEF OfferOf, OfferAs, Proposal
  <2>3. PendingProposals(k)' = {}
    BY <1>2, <1>4, <2>1, <2>2 DEF PendingProposals
  <2> QED BY <2>3 DEF OldRatesInForce
<1> QED BY <1>1, <1>6, <1>7

LEMMA InPlaceStaysQuiet ==
  ASSUME Typed, NEW r \in Requests, CommitInPlace(r), StillTrue(request[r]),
         NEW k \in DOMAIN collaborations, Quiet(k)
  PROVE  Quiet(k)'
<1> DEFINE q == request[r]
<1>1. /\ q.does \in {"accept", "reject", "cancel", "update", "accept_rate", "reject_rate"}
      /\ InPlace(q, RowOf(q), OfferOf(q)) /\ Like(q, RowOf(q), OfferOf(q))
      /\ q.stage = "ready"
  BY InPlaceRows DEF Committed
<1>2. /\ Concerns(q) /\ 0 \notin DOMAIN proposals
      /\ q.proposal # 0 => q.proposal \in DOMAIN proposals
  BY <1>1, ConcernedRows
<1>3. OnlyActive(k)'
  <2> SUFFICES ASSUME NEW j \in DOMAIN collaborations', Parties(j)' = Parties(k)',
                      {collaborations'[j].status, collaborations'[k].status}
                        \subseteq {"pending", "accepted"}
               PROVE  j = k
    BY DEF OnlyActive
  <2>1. j \in DOMAIN collaborations /\ Parties(j) = Parties(k)
    BY <1>1 DEF InPlace, Like, Parties
  <2>2. \A n \in {j, k} :
          collaborations'[n].status \in {"pending", "accepted"} =>
            collaborations[n].status \in {"pending", "accepted"}
    BY <1>1, <2>1, InPlaceOpensNothing DEF InPlace
  <2> QED BY <2>1, <2>2 DEF Quiet, OnlyActive
<1>4. CASE k = q.id
  <2>1. OnlyPending(k)'
    <3>1. \A i \in DOMAIN proposals' :
            /\ i \in DOMAIN proposals
            /\ proposals'[i].collaboration = proposals[i].collaboration
            /\ proposals'[i].status = "proposed" => proposals[i].status = "proposed"
      BY <1>1, <1>2, InPlaceOpensNothing DEF InPlace, Like, Concerns
    <3> QED BY <3>1 DEF Quiet, Agrees, OnlyPending, PendingProposals
  <2>2. OthersDecide(k)' /\ FirstProposals(k)' /\ RateAccepted(k)'
    BY <1>1, <1>4, OthersStillDecide, FirstProposalsStay, RateStillAccepted DEF Quiet
  <2>3. OldRatesInForce(k)'
    BY <1>1, <1>4, OldRatesStay DEF Quiet
  <2> QED BY <1>3, <2>1, <2>2, <2>3 DEF Quiet, Agrees
<1>5. CASE k # q.id
  <2>1. /\ k \in DOMAIN collaborations' /\ collaborations'[k] = collaborations[k]
        /\ \A i \in DOMAIN proposals :
             proposals[i].collaboration = k =>
               i \in DOMAIN proposals' /\ proposals'[i] = proposals[i]
        /\ \A i \in DOMAIN proposals' :
             proposals'[i].collaboration = k =>
               i \in DOMAIN proposals /\ proposals'[i] = proposals[i]
    BY <1>1, <1>2, <1>5 DEF InPlace, Like, Concerns
  <2>2. Agrees(k)'
    BY <2>1, RowKept DEF Quiet
  <2> QED BY <1>3, <2>2 DEF Quiet
<1> QED BY <1>4, <1>5

\* A collaboration asked for is the only one pending or accepted between its parties.
LEMMA RequestStaysQuiet ==
  ASSUME Typed, NEW r \in Requests, CommitRequest(r), StillTrue(request[r]),
         NEW k \in DOMAIN collaborations', Parties(k)' = request[r].pair,
         \A j \in DOMAIN collaborations : Parties(j) = request[r].pair => Quiet(j)
  PROVE  Quiet(k)'
<1> DEFINE q == request[r]
           n == Len(collaborations) + 1
           m == Len(proposals) + 1
<1>1. /\ n \in Nat \ {0} /\ n \notin DOMAIN collaborations
      /\ m \in Nat \ {0} /\ m \notin DOMAIN proposals
      /\ DOMAIN collaborations' = DOMAIN collaborations \cup {n}
      /\ DOMAIN proposals' = DOMAIN proposals \cup {m}
      /\ \A j \in DOMAIN collaborations : collaborations'[j] = collaborations[j]
      /\ \A j \in DOMAIN proposals : proposals'[j] = proposals[j]
      /\ collaborations'[n].initiator = q.by
      /\ q.pair = {q.by, collaborations'[n].target}
      /\ collaborations'[n].status = "pending"
      /\ collaborations'[n].currentRate = 0
      /\ proposals'[m].collaboration = n
      /\ proposals'[m].oldRate = Unset
      /\ proposals'[m].status = "proposed"
      /\ proposals'[m].proposedBy = q.by
      /\ q.does = "request"
  BY RequestRows
<1>2. \A j \in DOMAIN collaborations :
        Parties(j) = q.pair => collaborations[j].status \notin {"pending", "accepted"}
  BY <1>1 DEF StillTrue
<1>3. \A i \in DOMAIN proposals : proposals[i].collaboration \in DOMAIN collaborations
  BY DEF Typed, TypeOK
<1> HIDE DEF n, m
<1>4. OnlyActive(k)'
  <2> SUFFICES ASSUME NEW j \in DOMAIN collaborations', Parties(j)' = Parties(k)',
                      {collaborations'[j].status, collaborations'[k].status}
                        \subseteq {"pending", "accepted"}
               PROVE  j = k
    BY DEF OnlyActive
  <2>1. \A i \in {j, k} : i \in DOMAIN collaborations => Parties(i) = q.pair
    BY <1>1 DEF Parties
  <2>2. j = n /\ k = n
    BY <1>1, <1>2, <2>1
  <2> QED BY <2>2
<1>5. CASE k = n
  <2>1. \A i \in DOMAIN proposals' : proposals'[i].collaboration = k => i = m
    BY <1>1, <1>3, <1>5
  <2>2. OnlyPending(k)'
    BY <2>1 DEF OnlyPending, PendingProposals
  <2>3. OthersDecide(k)'
    BY <1>1, <2>1 DEF OthersDecide
  <2>4. FirstProposals(k)'
    BY <1>1, <1>5, <2>1 DEF FirstProposals
  <2>5. RateAccepted(k)'
    BY <1>1, <1>5 DEF RateAccepted
  <2>6. OldRatesInForce(k)'
    BY <1>1, <1>5, <2>1 DEF OldRatesInForce, RateOf, PendingProposals
  <2> QED BY <1>4, <2>2, <2>3, <2>4, <2>5, <2>6 DEF Quiet, Agrees
<1>6. CASE k # n
  <2>1. k \in DOMAIN collaborations /\ Parties(k) = q.pair
    BY <1>1, <1>6 DEF Parties
  <2>2. /\ collaborations'[k] = collaborations[k]
        /\ \A i \in DOMAIN proposals :
             proposals[i].collaboration = k =>
               i \in DOMAIN proposals' /\ proposals'[i] = proposals[i]
        /\ \A i \in DOMAIN proposals' :
             proposals'[i].collaboration = k =>
               i \in DOMAIN proposals /\ proposals'[i] = proposals[i]
    BY <1>1, <1>6, <2>1
  <2>3. Agrees(k)'
    BY <2>1, <2>2, RowKept DEF Quiet
  <2> QED BY <1>4, <2>3 DEF Quiet
<1> QED BY <1>5, <1>6

\* A rate proposed is the only one pending, on a collaboration that stays accepted.
LEMMA ProposeStaysQuiet ==
  ASSUME Typed, NEW r \in Requests, CommitPropose(r), StillTrue(request[r]),
         NEW k \in DOMAIN collaborations, Quiet(k)
  PROVE  Quiet(k)'
<1> DEFINE q == request[r]
           m == Len(proposals) + 1
<1>1. /\ collaborations' = collaborations
      /\ m \notin DOMAIN proposals
      /\ DOMAIN proposals' = DOMAIN proposals \cup {m}
      /\ \A j \in DOMAIN proposals : proposals'[j] = proposals[j]
      /\ proposals'[m].collaboration = q.id
      /\ proposals'[m].status = "proposed"
      /\ proposals'[m].oldRate = q.oldRate
      /\ q.does = "propose" /\ q.stage = "ready"
  BY ProposeRows DEF Committed
<1>2. q.proposal = 0
  BY <1>1, ConcernedRows DEF Concerns
<1>3. /\ PendingProposals(q.id) = {} /\ collaborations[q.id].status = "accepted"
      /\ q.oldRate = RateOf(collaborations[q.id].currentRate)
  BY <1>1, <1>2 DEF StillTrue, Readers
<1> HIDE DEF m
<1>4. OnlyActive(k)'
  BY <1>1 DEF Quiet, OnlyActive, Parties
<1>5. CASE k = q.id
  <2>1. OnlyPending(k)'
    <3>1. \A i \in PendingProposals(k)' : i = m
      BY <1>1, <1>3, <1>5 DEF PendingProposals
    <3> QED BY <3>1 DEF OnlyPending
  <2>2. OthersDecide(k)'
    BY <1>1 DEF Quiet, Agrees, OthersDecide, OtherParty
  <2>3. FirstProposals(k)'
    BY <1>1, <1>3, <1>5 DEF Quiet, Agrees, FirstProposals
  <2>4. RateAccepted(k)'
    BY <1>1 DEF Quiet, Agrees, RateAccepted, Typed, TypeOK
  <2>5. OldRatesInForce(k)'
    <3>1. \A i \in PendingProposals(k)' : i = m
      BY <1>1, <1>3, <1>5 DEF PendingProposals
    <3>2. RateOf(collaborations[k].currentRate)' = RateOf(collaborations[k].currentRate)
      BY <1>1 DEF RateOf, Typed, TypeOK
    <3> QED BY <1>1, <1>3, <1>5, <3>1, <3>2 DEF OldRatesInForce
  <2> QED BY <1>4, <2>1, <2>2, <2>3, <2>4, <2>5 DEF Quiet, Agrees
<1>6. CASE k # q.id
  BY <1>1, <1>4, <1>6, RowKept DEF Quiet
<1> QED BY <1>5, <1>6

\* A commit keeps quiet every pair it does not race on.
LEMMA CommitKeepsQuiet ==
  ASSUME IInv, NEW r \in Requests, Commit(r)
  PROVE  QuietRows'
<1> DEFINE pair == request[r].pair
<1>1. Typed /\ Writes(pair) /\ Committed(r)
  BY CommitWrites DEF IInv
<1>2. /\ raced \subseteq raced'
      /\ request[r].overtaken => pair \in raced'
  BY <1>1, CommitEnds
<1>3. \A k \in DOMAIN collaborations : Parties(k) \notin raced => Quiet(k)
  BY DEF IInv, QuietRows, Quiet, Agrees
<1> HIDE DEF pair
<1> SUFFICES ASSUME NEW k \in DOMAIN collaborations', Parties(k)' \notin raced'
             PROVE  Quiet(k)'
  BY DEF QuietRows, Quiet, Agrees
<1>4. CASE Parties(k)' # pair
  <2>1. k \in DOMAIN collaborations /\ Parties(k)' = Parties(k)
    BY <1>1, <1>4 DEF Writes, Parties, PartiesOf
  <2> QED BY <1>1, <1>2, <1>3, <1>4, <2>1, OthersStayQuiet
<1>5. CASE Parties(k)' = pair
  <2>1. pair \notin raced' /\ pair \notin raced /\ StillTrue(request[r])
    BY <1>2, <1>5 DEF IInv, ReadsHold, Fresh, pair
  <2>2. \A j \in DOMAIN collaborations : Parties(j) = pair => Quiet(j)
    BY <1>3, <2>1
  <2>3. CASE CommitRequest(r)
    BY <1>1, <1>5, <2>1, <2>2, <2>3, RequestStaysQuiet DEF pair
  <2>4. CASE CommitPropose(r)
    <3>1. k \in DOMAIN collaborations /\ Parties(k) = pair
      BY <1>1, <1>5, <2>4, ProposeRows DEF Parties
    <3> QED BY <1>1, <2>1, <2>2, <2>4, <3>1, ProposeStaysQuiet
  <2>5. CASE CommitInPlace(r)
    <3>1. DOMAIN collaborations' = DOMAIN collaborations
      BY <1>1, <2>5, InPlaceRows DEF InPlace
    <3>2. k \in DOMAIN collaborations /\ Parties(k) = pair
      BY <1>1, <1>5, <3>1 DEF Writes, Parties
    <3> QED BY <1>1, <2>1, <2>2, <2>5, <3>2, InPlaceStaysQuiet
  <2> QED BY <2>3, <2>4, <2>5 DEF Commit, CommitInPlace
<1> QED BY <1>4, <1>5

---------------------------------------------------------------------------
(* The inductive invariant holds.                                          *)

\* Every step of a request either leaves the rows alone or commits.
LEMMA StepBecomes ==
  ASSUME IInv, NEW r \in Requests,
         \/ \E c \in Companies : Start(r, c)
         \/ ReadProposal(r) \/ Refuse(r) \/ FailUndefined(r) \/ Abort(r)
  PROVE  \E x : Becomes(r, x) /\ WellFormed(x) /\ (Fresh(x) => StillTrue(x))
<1>1. CASE \E c \in Companies : Start(r, c)
  BY <1>1, StartOpens DEF IInv
<1>2. CASE ReadProposal(r)
  <2>1. PICK x : /\ Becomes(r, x) /\ WellFormed(x)
                 /\ x.pair = request[r].pair /\ x.overtaken = request[r].overtaken
                 /\ StillTrue(request[r]) => StillTrue(x)
    BY <1>2, ReadOpens DEF IInv
  <2> QED BY <2>1 DEF IInv, ReadsHold, Fresh
<1>3. CASE Refuse(r) \/ FailUndefined(r) \/ Abort(r)
  <2>1. Becomes(r, Idle)
    BY <1>3 DEF Refuse, FailUndefined, Abort, Becomes
  <2> QED BY <2>1, IdleWellFormed
<1> QED BY <1>1, <1>2, <1>3

LEMMA IInvInit == Init => IInv
<1> SUFFICES ASSUME Init PROVE IInv
  OBVIOUS
<1>1. /\ DOMAIN collaborations = {} /\ DOMAIN proposals = {}
      /\ collaborations \in Seq(Collaboration) /\ proposals \in Seq(Proposal)
  BY DEF Init
<1>2. TypeOK
  BY <1>1 DEF Init, TypeOK
<1>3. \A r \in Requests : request[r] = Idle
  BY DEF Init
<1>4. RequestsTyped /\ ReadsHold
  BY <1>3, IdleWellFormed DEF RequestsTyped, ReadsHold
<1>5. QuietRows
  BY <1>1 DEF QuietRows
<1> QED BY <1>2, <1>4, <1>5 DEF IInv, Typed

LEMMA IInvNext == IInv /\ [Next]_vars => IInv'
<1> SUFFICES ASSUME IInv, [Next]_vars PROVE IInv'
  OBVIOUS
<1>1. ASSUME NEW r \in Requests,
             \/ \E c \in Companies : Start(r, c)
             \/ ReadProposal(r) \/ Refuse(r) \/ FailUndefined(r) \/ Abort(r)
      PROVE  IInv'
  BY <1>1, StepBecomes, BecomesKeeps
<1>2. ASSUME NEW r \in Requests, Commit(r) PROVE IInv'
  <2>1. Typed'
    BY <1>2, CommitTyped DEF IInv
  <2> QED BY <1>2, <2>1, CommitKeepsReads, CommitKeepsQuiet DEF IInv
<1>3. CASE UNCHANGED vars
  <2>1. Typed'
    BY <1>3 DEF vars, IInv, Typed, TypeOK, RequestsTyped, WellFormed, Asks, Concerns, Parties
  <2>2. ReadsHold'
    BY <1>3 DEF vars, IInv, ReadsHold, Fresh, StillTrue, RateOf, PendingProposals, Parties
  <2>3. QuietRows'
    BY <1>3 DEF vars, IInv, QuietRows, OnlyActive, OnlyPending, PendingProposals, OthersDecide,
                FirstProposals, RateAccepted, OldRatesInForce, RateOf, Parties, OtherParty
  <2> QED BY <2>1, <2>2, <2>3 DEF IInv
<1> QED BY <1>1, <1>2, <1>3 DEF Next

LEMMA IInvHolds == Spec => []IInv
BY IInvInit, IInvNext, PTL DEF Spec

---------------------------------------------------------------------------
(* What follows.                                                           *)

\* The rows and notifications have their types, and what they name exists: a proposal
\* its collaboration and its proposer, a collaboration its current rate.
THEOREM TypeCorrect == Spec => []TypeOK
BY IInvHolds, PTL DEF IInv, Typed

\* Two companies share one pending or active collaboration at most, unless requests
\* for that pair overlapped (request_collaboration, get_active_between).
THEOREM OneActivePerPairAlways == Spec => []OneActivePerPair
<1>1. IInv => OneActivePerPair
  <2> SUFFICES ASSUME IInv, NEW c \in Companies, NEW d \in Companies, {c, d} \notin raced
               PROVE  Cardinality(ActiveBetween(c, d)) <= 1
    BY DEF OneActivePerPair
  <2>1. \A j, k \in ActiveBetween(c, d) : j = k
    BY DEF IInv, QuietRows, OnlyActive, ActiveBetween
  <2> QED BY <2>1, OneAtMost
<1> QED BY <1>1, IInvHolds, PTL

\* Unless requests for the pair overlapped, a collaboration has one pending proposal at
\* most, made against the rate in force, the party that did not propose decides, the current rate was accepted, and an
\* accepted collaboration has a rate or a first proposal that was rejected
\* (accept_collaboration, accept_rate_proposal, propose_rate_change).
THEOREM QuietPairsAgreeAlways == Spec => []QuietPairsAgree
<1>1. IInv => QuietPairsAgree
  <2> SUFFICES ASSUME IInv, NEW k \in DOMAIN collaborations, Parties(k) \notin raced
               PROVE  /\ Cardinality(PendingProposals(k)) <= 1
                      /\ OldRatesInForce(k)
                      /\ OthersDecide(k)
                      /\ RateAccepted(k)
                      /\ collaborations[k].status = "accepted" /\ collaborations[k].currentRate = 0 =>
                           \E i \in DOMAIN proposals : /\ proposals[i].collaboration = k
                                                       /\ proposals[i].oldRate = Unset
                                                       /\ proposals[i].status = "rejected"
    BY DEF QuietPairsAgree, OthersDecide, RateAccepted, OldRatesInForce
  <2>1. /\ OnlyPending(k) /\ OthersDecide(k) /\ FirstProposals(k) /\ RateAccepted(k)
        /\ OldRatesInForce(k)
    BY DEF IInv, QuietRows
  <2>2. Cardinality(PendingProposals(k)) <= 1
    BY <2>1, OneAtMost DEF OnlyPending
  <2> QED BY <2>1, <2>2 DEF FirstProposals
<1> QED BY <1>1, IInvHolds, PTL

\* AgreedTermsAreFinal, of one collaboration that is not pending.
TermsKept(k) ==
  LET row == collaborations'[k]
  IN /\ row.currency = collaborations[k].currency
     /\ row.status \in StatusesAfter(collaborations[k].status)
     /\ row.currentRate # collaborations[k].currentRate =>
          /\ row.currentRate \in PendingProposals(k)
          /\ proposals'[row.currentRate].status = "accepted"
          /\ proposals'[row.currentRate].decidedBy # proposals[row.currentRate].proposedBy

\* What a commit changes of the terms of its pair was still open when it was read.
LEMMA CommitKeepsTerms ==
  ASSUME IInv, NEW r \in Requests, Commit(r)
  PROVE  /\ \A k \in DOMAIN collaborations :
              Parties(k) \notin raced' /\ collaborations[k].status # "pending" =>
                TermsKept(k)
         /\ \A i \in DOMAIN proposals :
              /\ Parties(proposals[i].collaboration) \notin raced'
              /\ proposals[i].status # "proposed"
              => proposals'[i] = proposals[i]
<1> DEFINE q == request[r]
           pair == q.pair
<1>1. Typed /\ Writes(pair) /\ Committed(r)
  BY CommitWrites DEF IInv
<1>2. pair \notin raced' => StillTrue(q)
  BY <1>1, CommitEnds DEF IInv, ReadsHold, Fresh
<1>3. CASE ~CommitInPlace(r)
  <2>1. /\ \A k \in DOMAIN collaborations : collaborations'[k] = collaborations[k]
        /\ \A i \in DOMAIN proposals : proposals'[i] = proposals[i]
    <3>1. CASE CommitRequest(r)
      BY <1>1, <3>1, RequestRows
    <3>2. CASE CommitPropose(r)
      BY <1>1, <3>2, ProposeRows
    <3> QED BY <1>3, <3>1, <3>2 DEF Commit, CommitInPlace
  <2> QED BY <2>1 DEF TermsKept, StatusesAfter
<1>4. CASE CommitInPlace(r)
  <2>1. /\ q.does \in {"accept", "reject", "cancel", "update", "accept_rate", "reject_rate"}
        /\ InPlace(q, RowOf(q), OfferOf(q))
        /\ q.stage = "ready"
    BY <1>1, <1>4, InPlaceRows DEF Committed
  <2>2. /\ Concerns(q) /\ q.id \in DOMAIN collaborations /\ pair = Parties(q.id)
        /\ collaborations[q.id] \in Collaboration
        /\ 0 \notin DOMAIN proposals
    BY <1>1, <2>1, ConcernedRows DEF Concerns
  <2>3. ASSUME NEW k \in DOMAIN collaborations, Parties(k) \notin raced',
               collaborations[k].status # "pending"
        PROVE  TermsKept(k)
    <3>1. CASE k # q.id
      BY <2>1, <3>1 DEF InPlace, TermsKept, StatusesAfter
    <3>2. CASE k = q.id
      <4>1. q.does \in {"accept_rate", "reject_rate"}
        BY <1>2, <2>1, <2>2, <2>3, <3>2 DEF StillTrue
      <4>2. /\ collaborations'[k] = RowOf(q)
            /\ RowOf(q).currency = collaborations[k].currency
            /\ RowOf(q).status = collaborations[k].status
            /\ RowOf(q).currentRate = IF q.does = "accept_rate" THEN q.proposal
                                      ELSE collaborations[k].currentRate
        BY <2>1, <2>2, <3>2, <4>1 DEF InPlace, RowOf, RatedRow, Collaboration
      <4>3. /\ q.proposal \in PendingProposals(k) /\ proposals[q.proposal].proposedBy # q.by
            /\ proposals[q.proposal] \in Proposal
        BY <1>1, <1>2, <2>1, <2>2, <2>3, <3>2, <4>1, ConcernedRows
           DEF StillTrue, Concerns, PendingProposals
      <4>4. q.does = "accept_rate" =>
              /\ proposals'[q.proposal].status = "accepted"
              /\ proposals'[q.proposal].decidedBy = q.by
        BY <2>1, <4>3 DEF InPlace, OfferOf, OfferAs, Proposal, PendingProposals
      <4> QED BY <4>2, <4>3, <4>4 DEF TermsKept, StatusesAfter
    <3> QED BY <3>1, <3>2
  <2>4. ASSUME NEW i \in DOMAIN proposals, Parties(proposals[i].collaboration) \notin raced',
               proposals[i].status # "proposed"
        PROVE  proposals'[i] = proposals[i]
    <3>1. CASE i # q.proposal
      BY <2>1, <3>1 DEF InPlace
    <3>2. CASE i = q.proposal
      <4>1. q.proposal # 0 /\ proposals[i].collaboration = q.id
        BY <2>2, <3>2 DEF Concerns
      <4>2. q.does = "cancel"
        BY <1>2, <2>1, <2>2, <2>4, <3>2, <4>1 DEF StillTrue, Readers, PendingProposals
      <4> QED BY <2>1, <3>2, <4>2 DEF InPlace, OfferOf
    <3> QED BY <3>1, <3>2
  <2> QED BY <2>3, <2>4
<1> QED BY <1>3, <1>4

\* What two companies agreed on stays until they agree again, unless requests for the pair
\* overlapped: a decided proposal and the currency of a collaboration that is no longer
\* pending never change, the latter is suspended or archived at most, and its current rate
\* gives way only to a pending proposal accepted by the party that did not make it
\* (update_collaboration, cancel_collaboration, accept_rate_proposal).
THEOREM AgreedTermsStay == Spec => AgreedTermsAreFinal
<1> DEFINE Kept ==
      /\ \A k \in DOMAIN collaborations :
           Parties(k) \notin raced' /\ collaborations[k].status # "pending" =>
             TermsKept(k)
      /\ \A i \in DOMAIN proposals :
           /\ Parties(proposals[i].collaboration) \notin raced'
           /\ proposals[i].status # "proposed"
           => proposals'[i] = proposals[i]
<1>1. IInv /\ [Next]_vars => [Kept]_<<collaborations, proposals>>
  <2> SUFFICES ASSUME IInv, [Next]_vars PROVE [Kept]_<<collaborations, proposals>>
    OBVIOUS
  <2>1. ASSUME NEW r \in Requests,
               \/ \E c \in Companies : Start(r, c)
               \/ ReadProposal(r) \/ Refuse(r) \/ FailUndefined(r) \/ Abort(r)
        PROVE  UNCHANGED <<collaborations, proposals>>
    BY <2>1, StepBecomes DEF Becomes
  <2>2. ASSUME NEW r \in Requests, Commit(r) PROVE Kept
    BY <2>2, CommitKeepsTerms
  <2> QED BY <2>1, <2>2 DEF Next, vars
<1> QED BY <1>1, IInvHolds, PTL DEF AgreedTermsAreFinal, TermsKept, Spec

---------------------------------------------------------------------------
(* Who is told.                                                            *)

\* Somebody was told of k, with that type, by that company.
Announced(k, type, by) ==
  \E n \in told : n.collaboration = k /\ n.type = type /\ n.by = by

\* CounterpartIsTold, of one collaboration and of one proposal.
RowTold(k) ==
  LET row == collaborations[k]
  IN /\ row.status = "accepted" => Announced(k, "collaboration_accepted", row.target)
     /\ row.status = "rejected" => Announced(k, "collaboration_rejected", row.target)
     /\ row.status = "cancelled" => Announced(k, "collaboration_rejected", row.initiator)

OfferTold(i) ==
  /\ \E n \in told : n.offer = i
  /\ \A n \in told :
       n.offer = i => n.company = OtherParty(proposals[i].collaboration, proposals[i].proposedBy)

\* The inductive form: a notice is of a proposal that exists, if it is of one.
TellingInv ==
  /\ \A n \in told :
       ToTheOther(collaborations[n.collaboration], n) /\ n.offer \in DOMAIN proposals \cup {0}
  /\ \A i \in DOMAIN proposals : OfferTold(i)
  /\ \A k \in DOMAIN collaborations : RowTold(k)

LEMMA TellingTells ==
  ASSUME TellingInv
  PROVE  CounterpartIsTold
<1>1. \A n \in told : n.company = OtherParty(n.collaboration, n.by) /\ n.company # n.by
  BY DEF TellingInv, ToTheOther, OtherParty
<1>2. ASSUME NEW i \in DOMAIN proposals
      PROVE  {n.company : n \in {m \in told : m.offer = i}}
               = {OtherParty(proposals[i].collaboration, proposals[i].proposedBy)}
  BY DEF TellingInv, OfferTold
<1>3. \A k \in DOMAIN collaborations : RowTold(k)
  BY DEF TellingInv
<1> QED BY <1>1, <1>2, <1>3 DEF CounterpartIsTold, RowTold, Announced

\* What a commit adds to the notices keeps those of the rows that were there.
LEMMA ToldStays ==
  ASSUME Typed, TellingInv, NEW r \in Requests, Commit(r)
  PROVE  /\ \A n \in told : /\ ToTheOther(collaborations'[n.collaboration], n)
                            /\ n.offer \in DOMAIN proposals' \cup {0}
         /\ \A i \in DOMAIN proposals :
              /\ \E n \in told' : n.offer = i
              /\ \A n \in told : n.offer = i =>
                   n.company = OtherParty(proposals[i].collaboration, proposals[i].proposedBy)'
         /\ \A k \in DOMAIN collaborations :
              collaborations'[k].status = collaborations[k].status => RowTold(k)'
<1> DEFINE pair == request[r].pair
<1>1. Writes(pair)
  BY CommitWrites
<1> HIDE DEF pair
<1>2. ASSUME NEW n \in told
      PROVE  /\ ToTheOther(collaborations'[n.collaboration], n)
             /\ n.offer \in DOMAIN proposals' \cup {0}
  <2>1. n.collaboration \in DOMAIN collaborations
    BY DEF Typed, TypeOK
  <2>2. ToTheOther(collaborations[n.collaboration], n) /\ n.offer \in DOMAIN proposals \cup {0}
    BY DEF TellingInv
  <2> QED BY <1>1, <2>1, <2>2 DEF Writes, ToTheOther
<1>3. ASSUME NEW i \in DOMAIN proposals
      PROVE  /\ \E n \in told' : n.offer = i
             /\ \A n \in told : n.offer = i =>
                  n.company = OtherParty(proposals[i].collaboration, proposals[i].proposedBy)'
  <2>1. OfferTold(i) /\ proposals[i].collaboration \in DOMAIN collaborations
    BY DEF TellingInv, Typed, TypeOK
  <2> QED BY <1>1, <2>1 DEF Writes, OfferTold, OtherParty
<1>4. ASSUME NEW k \in DOMAIN collaborations, collaborations'[k].status = collaborations[k].status
      PROVE  RowTold(k)'
  <2>1. RowTold(k)
    BY DEF TellingInv
  <2> QED BY <1>1, <1>4, <2>1 DEF Writes, RowTold, Announced
<1> QED BY <1>2, <1>3, <1>4

\* A verdict on a collaboration tells the party that waits for it.
LEMMA VerdictTells ==
  ASSUME Typed, TellingInv, NEW r \in Requests, CommitInPlace(r)
  PROVE  TellingInv'
<1> DEFINE q == request[r]
<1>0. Commit(r)
  BY DEF CommitInPlace, Commit
<1>1. /\ q.does \in {"accept", "reject", "cancel", "update", "accept_rate", "reject_rate"}
      /\ InPlace(q, RowOf(q), OfferOf(q)) /\ Like(q, RowOf(q), OfferOf(q))
  BY InPlaceRows
<1>a. PICK k : k = q.id
  OBVIOUS
<1>2. /\ k \in DOMAIN collaborations /\ collaborations[k] \in Collaboration
      /\ 0 \notin DOMAIN proposals
  BY <1>1, <1>a, ConcernedRows
<1>3. /\ collaborations'[k] = RowOf(q)
      /\ collaborations'[k].initiator = collaborations[k].initiator
      /\ collaborations'[k].target = collaborations[k].target
      /\ DOMAIN collaborations' = DOMAIN collaborations
      /\ DOMAIN proposals' = DOMAIN proposals
      /\ \A x \in DOMAIN collaborations : x # k => collaborations'[x] = collaborations[x]
  BY <1>1, <1>2, <1>a DEF InPlace, Like
<1>4. CASE q.does \in Verdicts
  <2>1. CommitAccept(r) \/ CommitReject(r) \/ CommitCancel(r)
    BY <1>0, <1>4 DEF Verdicts, Commit, CommitRequest, CommitUpdate, CommitPropose, CommitAcceptRate,
                      CommitRejectRate
  <2>2. PICK n \in Notification :
          /\ told' = told \cup {n} /\ n.offer = 0 /\ n.collaboration = k
          /\ ToTheOther(collaborations[k], n) /\ VerdictNotice(q, n)
    BY <1>a, <2>1, VerdictNotices
  <2>3. \A m \in told' : /\ ToTheOther(collaborations'[m.collaboration], m)
                         /\ m.offer \in DOMAIN proposals' \cup {0}
    BY <1>0, <1>3, <2>2, ToldStays DEF ToTheOther
  <2>4. ASSUME NEW i \in DOMAIN proposals' PROVE OfferTold(i)'
    BY <1>0, <1>2, <1>3, <2>2, ToldStays DEF OfferTold
  <2>5. RowTold(k)'
    <3>1. q.does = "accept" => collaborations'[k].status = "accepted"
      BY <1>2, <1>3, <1>a DEF RowOf, AcceptedRow, Collaboration
    <3>2. q.does = "reject" => collaborations'[k].status = "rejected"
      BY <1>2, <1>3, <1>a DEF RowOf, RowAs, Collaboration
    <3>3. q.does = "cancel" => collaborations'[k].status = "cancelled"
      BY <1>2, <1>3, <1>a DEF RowOf, RowAs, Collaboration
    <3>4. n \in told' /\ n.collaboration = k
      BY <2>2
    <3>5. \A type, by : n.type = type /\ n.by = by => Announced(k, type, by)'
      BY <3>4 DEF Announced
    <3>6. VerdictNotice(q, n)
      BY <2>2
    <3>7. CASE q.does = "accept"
      BY <1>3, <1>a, <3>1, <3>5, <3>6, <3>7 DEF RowTold, VerdictNotice
    <3>8. CASE q.does = "reject"
      BY <1>3, <1>a, <3>2, <3>5, <3>6, <3>8 DEF RowTold, VerdictNotice
    <3>9. CASE q.does = "cancel"
      BY <1>3, <1>a, <3>3, <3>5, <3>6, <3>9 DEF RowTold, VerdictNotice
    <3> QED BY <1>4, <3>7, <3>8, <3>9 DEF Verdicts
  <2>6. ASSUME NEW x \in DOMAIN collaborations', x # k PROVE RowTold(x)'
    BY <1>0, <1>3, <2>6, ToldStays
  <2>7. \A x \in DOMAIN collaborations' : RowTold(x)'
    BY <2>5, <2>6
  <2> QED BY <2>3, <2>4, <2>7 DEF TellingInv
<1>5. CASE q.does \notin Verdicts
  <2>1. told' = told
    BY <1>0, <1>5 DEF Verdicts, CommitInPlace, CommitAccept, CommitReject, CommitCancel, CommitUpdate,
                      CommitAcceptRate, CommitRejectRate
  <2>2. collaborations'[k].status = collaborations[k].status
    BY <1>1, <1>2, <1>3, <1>a, <1>5 DEF Verdicts, RowOf, UpdatedRow, RatedRow, Collaboration
  <2>3. \A n \in told' : /\ ToTheOther(collaborations'[n.collaboration], n)
                         /\ n.offer \in DOMAIN proposals' \cup {0}
    BY <1>0, <2>1, ToldStays
  <2>4. ASSUME NEW i \in DOMAIN proposals' PROVE OfferTold(i)'
    BY <1>0, <1>3, <2>1, ToldStays DEF OfferTold
  <2>5. ASSUME NEW x \in DOMAIN collaborations' PROVE RowTold(x)'
    <3>1. x \in DOMAIN collaborations /\ collaborations'[x].status = collaborations[x].status
      BY <1>3, <2>2
    <3> QED BY <1>0, <3>1, ToldStays
  <2> QED BY <2>3, <2>4, <2>5 DEF TellingInv
<1> QED BY <1>4, <1>5

\* A new collaboration and a new rate tell the party they are proposed to.
LEMMA OfferTells ==
  ASSUME Typed, TellingInv, NEW r \in Requests, CommitRequest(r) \/ CommitPropose(r)
  PROVE  TellingInv'
<1> DEFINE q == request[r]
<1>a. PICK m : m = Len(proposals) + 1
  OBVIOUS
<1>0. Commit(r)
  BY DEF Commit
<1>1. /\ m # 0 /\ m \notin DOMAIN proposals /\ DOMAIN proposals' = DOMAIN proposals \cup {m}
      /\ proposals'[m].proposedBy = q.by
  <2>1. CASE CommitRequest(r)
    BY <1>a, <2>1, RequestRows
  <2>2. CASE CommitPropose(r)
    BY <1>a, <2>2, ProposeRows
  <2> QED BY <2>1, <2>2
<1>2. PICK n \in Notification :
        /\ told' = told \cup {n} /\ n.offer = m /\ n.collaboration \in DOMAIN collaborations'
        /\ n.collaboration = proposals'[m].collaboration
        /\ ToTheOther(collaborations'[n.collaboration], n) /\ n.by = q.by
  <2>1. CASE CommitRequest(r)
    <3>1. proposals'[m].collaboration = Len(collaborations) + 1
      BY <1>a, <2>1, RequestRows
    <3> QED BY <1>a, <2>1, <3>1, RequestNotices
  <2>2. CASE CommitPropose(r)
    <3>1. proposals'[m].collaboration = q.id /\ collaborations' = collaborations
      BY <1>a, <2>2, ProposeRows
    <3> QED BY <1>a, <2>2, <3>1, ProposeNotices
  <2> QED BY <2>1, <2>2
<1>3. ASSUME NEW k \in DOMAIN collaborations' PROVE RowTold(k)'
  <2>1. CASE k \in DOMAIN collaborations
    <3>1. collaborations'[k] = collaborations[k]
      <4>1. CASE CommitRequest(r)
        BY <2>1, <4>1, RequestRows
      <4>2. CASE CommitPropose(r)
        BY <4>2, ProposeRows
      <4> QED BY <4>1, <4>2
    <3> QED BY <1>0, <2>1, <3>1, ToldStays
  <2>2. CASE k \notin DOMAIN collaborations
    <3>1. collaborations'[k].status = "pending"
      <4>1. CASE CommitRequest(r)
        BY <2>2, <4>1, RequestRows
      <4>2. CASE CommitPropose(r)
        BY <2>2, <4>2, ProposeRows
      <4> QED BY <4>1, <4>2
    <3> QED BY <3>1 DEF RowTold
  <2> QED BY <2>1, <2>2
<1>4. \A x \in told' : /\ ToTheOther(collaborations'[x.collaboration], x)
                       /\ x.offer \in DOMAIN proposals' \cup {0}
  BY <1>0, <1>1, <1>2, ToldStays
<1>5. ASSUME NEW i \in DOMAIN proposals' PROVE OfferTold(i)'
  <2>1. CASE i = m
    <3>1. \A x \in told : x.offer # m
      BY <1>1 DEF TellingInv
    <3>2. n.company = OtherParty(proposals[m].collaboration, proposals[m].proposedBy)'
      BY <1>1, <1>2 DEF ToTheOther, OtherParty
    <3>3. n \in told' /\ n.offer = m /\ \A x \in told' : x.offer = m => x = n
      BY <1>2, <3>1
    <3>4. OfferTold(m)'
      BY <3>2, <3>3 DEF OfferTold
    <3> QED BY <2>1, <3>4
  <2>2. CASE i # m
    BY <1>0, <1>1, <1>2, <2>2, ToldStays DEF OfferTold
  <2> QED BY <2>1, <2>2
<1> QED BY <1>3, <1>4, <1>5 DEF TellingInv

\* Every offer, the first rate and each one after it, was announced to the party that did
\* not make it, every verdict on a collaboration by the party that gave it, and nobody is
\* told of what it did itself (notification_service.notify as called in
\* collaboration_service).
THEOREM CounterpartIsAlwaysTold == Spec => []CounterpartIsTold
<1>1. Init => TellingInv
  BY DEF Init, TellingInv
<1>2. IInv /\ TellingInv /\ [Next]_vars => TellingInv'
  <2> SUFFICES ASSUME IInv, TellingInv, [Next]_vars PROVE TellingInv'
    OBVIOUS
  <2>1. ASSUME NEW r \in Requests,
               \/ \E c \in Companies : Start(r, c)
               \/ ReadProposal(r) \/ Refuse(r) \/ FailUndefined(r) \/ Abort(r)
        PROVE  UNCHANGED <<collaborations, proposals, told>>
    BY <2>1, StepBecomes DEF Becomes
  <2>2. ASSUME NEW r \in Requests, Commit(r) PROVE TellingInv'
    BY <2>2, VerdictTells, OfferTells DEF IInv, Commit, CommitInPlace
  <2>3. CASE UNCHANGED <<collaborations, proposals, told>>
    BY <2>3 DEF TellingInv, OfferTold, RowTold, Announced, OtherParty
  <2> QED BY <2>1, <2>2, <2>3 DEF Next, vars
<1> QED BY <1>1, <1>2, IInvHolds, TellingTells, PTL DEF Spec

=============================================================================
