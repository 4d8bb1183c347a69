--------------------------- MODULE Collaborations ---------------------------
(***************************************************************************)
(* The collaboration of two companies and the rate they agree on: one asks *)
(* for it with a first rate, the other accepts or rejects, either proposes *)
(* a new rate later and the other decides.                                 *)
(*                                                                         *)
(* Each request is one transaction (READ COMMITTED).  No row is locked:    *)
(* the collaboration is read and its status checked in one step, its       *)
(* pending proposal is read in a second one, and the last step writes, by  *)
(* primary key, whatever was committed meanwhile.  The anomalies this      *)
(* allows are told apart by a history variable: overtaken marks an open    *)
(* request of a pair of companies for which another request has committed  *)
(* since its first read, and raced the pairs for which such a request has  *)
(* committed all the same.                                                 *)
(***************************************************************************)
EXTENDS Integers, Sequences, FiniteSets

CONSTANTS
  Requests,           \* the requests being served at the same time
  Companies,          \* the companies, one user of each or several
  Rates,              \* the rates they may propose
  Currencies,         \* the currencies a collaboration may be held in
  Openings,           \* the bodies of request_collaboration, less the target
  Updates,            \* the bodies of update_collaboration
  NewRates,           \* the rates asked for in bodies of propose_rate_change
  Unset,              \* a column that is null, a field the body leaves out
  MaxRows             \* bound: rows of collaborations and their proposals

ASSUME CollaborationsAssumption ==
  /\ Companies # {} /\ Rates # {} /\ Currencies # {}
  /\ Unset \notin Rates \cup Currencies \cup Companies
  /\ Openings \subseteq [rate : Rates, currency : Currencies] /\ NewRates \subseteq Rates
  /\ Updates \subseteq [rate : Rates \cup {Unset}, currency : Currencies \cup {Unset}]
  /\ MaxRows \in Nat

VARIABLES
  collaborations,  \* Seq(Collaboration)
  proposals,       \* Seq(Proposal): collaboration_rate_history
  told,            \* set of notifications inserted; by and offer are history
  request,         \* [Requests -> what the request is about to write]
  raced            \* history: the pairs a stale request was committed for

vars == <<collaborations, proposals, told, request, raced>>

CollaborationStatus ==
  {"pending", "accepted", "rejected", "suspended", "archived", "cancelled"}

RateProposalStatus == {"proposed", "accepted", "rejected"}

Collaboration ==
  [initiator : Companies, target : Companies, currency : Currencies,
   status : CollaborationStatus, currentRate : Nat]

Proposal ==
  [collaboration : Nat, oldRate : Rates \cup {Unset}, newRate : Rates,
   status : RateProposalStatus, proposedBy : Companies,
   decidedBy : Companies \cup {Unset}]

NotificationType ==
  {"collaboration_request", "collaboration_accepted", "collaboration_rejected",
   "rate_proposed"}

\* Who is told what by whom, and of which proposal, zero if it is of none.
Notification ==
  [company : Companies, by : Companies, type : NotificationType, collaboration : Nat, offer : Nat]

Parties(k) == {collaborations[k].initiator, collaborations[k].target}

OtherParty(k, c) ==
  IF collaborations[k].initiator = c THEN collaborations[k].target
  ELSE collaborations[k].initiator

\* A request as it stands between two of its steps: does names its handler,
\* stage whether the pending proposal is still to be read, current the current_rate_id
\* of the collaboration it was given.
Idle ==
  [does |-> "nothing", stage |-> "ready", by |-> Unset, pair |-> {}, id |-> 0,
   proposal |-> 0, current |-> 0, oldRate |-> Unset, rate |-> Unset, currency |-> Unset,
   overtaken |-> FALSE]

Init ==
  /\ collaborations = <<>>
  /\ proposals      = <<>>
  /\ told           = {}
  /\ request        = [r \in Requests |-> Idle]
  /\ raced          = {}

---------------------------------------------------------------------------
(* Reading.                                                                *)

\* Mutant: a pending request does not stand in the way of another.
ActiveBetweenAccepted(c, d) ==
  {k \in DOMAIN collaborations : Parties(k) = {c, d} /\ collaborations[k].status = "accepted"}

\* get_active_between, in either direction.
ActiveBetween(c, d) ==
  {k \in DOMAIN collaborations :
     Parties(k) = {c, d} /\ collaborations[k].status \in {"pending", "accepted"}}

\* Mutant: the pending proposal of any collaboration.
PendingAnywhere(k) == {i \in DOMAIN proposals : proposals[i].status = "proposed"}

\* get_pending_proposal; the handler fails when there are two.
PendingProposals(k) ==
  {i \in DOMAIN proposals :
     proposals[i].collaboration = k /\ proposals[i].status = "proposed"}

Opened(r, q) ==
  /\ request[r] = Idle
  /\ request' = [request EXCEPT ![r] = q]
  /\ UNCHANGED <<collaborations, proposals, told, raced>>

\* Bound: the rows there would be if every open request committed.
Open(does) == Cardinality({r \in Requests : request[r].does = does})
Room(rows) ==
  Len(collaborations) + Len(proposals) + 2 * Open("request") + Open("propose") + rows <= MaxRows

\* request_collaboration up to its first insert: the companies are two, and
\* nothing is pending or active between them.
StartRequest(r, c, target, currency, rate) ==
  /\ Room(2)
  /\ target # c
  /\ ActiveBetween(c, target) = {}
  /\ Opened(r, [Idle EXCEPT !.does = "request", !.by = c, !.pair = {c, target},
                            !.currency = currency, !.rate = rate])

\* _get_owned_collaboration and the check of the status; what each handler wants of
\* the company and the status is its own.
StartOn(r, c, k, does, stage, rate, currency) ==
  /\ c \in Parties(k)
  /\ Opened(r, [Idle EXCEPT !.does = does, !.stage = stage, !.by = c, !.pair = Parties(k),
                            !.id = k, !.rate = rate, !.currency = currency,
                            !.current = IF does = "propose" THEN collaborations[k].currentRate
                                        ELSE 0])

StartAccept(r, c, k) ==
  /\ collaborations[k].target = c
  /\ collaborations[k].status = "pending"
  /\ StartOn(r, c, k, "accept", "reading", Unset, Unset)

StartReject(r, c, k) ==
  /\ collaborations[k].target = c
  /\ collaborations[k].status = "pending"
  /\ StartOn(r, c, k, "reject", "reading", Unset, Unset)

\* Mutant: an accepted collaboration can still be cancelled by its initiator.
StartCancelLate(r, c, k) ==
  /\ collaborations[k].initiator = c
  /\ collaborations[k].status \in {"pending", "accepted"}
  /\ StartOn(r, c, k, "cancel", "ready", Unset, Unset)

\* cancel_collaboration does not look at the proposal, which stays proposed.
StartCancel(r, c, k) ==
  /\ collaborations[k].initiator = c
  /\ collaborations[k].status = "pending"
  /\ StartOn(r, c, k, "cancel", "ready", Unset, Unset)

\* A field that already has the value asked for is not written.
StartUpdate(r, c, k, currency, rate) ==
  /\ collaborations[k].initiator = c
  /\ collaborations[k].status = "pending"
  /\ StartOn(r, c, k, "update", "reading", rate,
             IF currency = collaborations[k].currency THEN Unset ELSE currency)

StartPropose(r, c, k, rate) ==
  /\ Room(1)
  /\ collaborations[k].status = "accepted"
  /\ StartOn(r, c, k, "propose", "reading", rate, Unset)

\* Mutant: a proposal may be decided by its proposer.
StartDecisionByAnyone(r, c, i, does) ==
  LET k == proposals[i].collaboration
  IN /\ c \in Parties(k)
     /\ proposals[i].status = "proposed"
     /\ Opened(r, [Idle EXCEPT !.does = does, !.by = c, !.pair = Parties(k),
                               !.id = k, !.proposal = i])

\* accept_rate_proposal and reject_rate_proposal read the proposal by its own id and
\* never look at the status of the collaboration.
StartDecision(r, c, i, does) ==
  LET k == proposals[i].collaboration
  IN /\ c \in Parties(k)
     /\ proposals[i].status = "proposed"
     /\ proposals[i].proposedBy # c
     /\ Opened(r, [Idle EXCEPT !.does = does, !.by = c, !.pair = Parties(k),
                               !.id = k, !.proposal = i])

StartAcceptRate(r, c, i) == StartDecision(r, c, i, "accept_rate")
StartRejectRate(r, c, i) == StartDecision(r, c, i, "reject_rate")

StartSuspend(r, c, k) ==
  /\ collaborations[k].status = "accepted"
  /\ StartOn(r, c, k, "shelve", "ready", Unset, Unset)

StartArchive(r, c, k) ==
  /\ collaborations[k].status \in {"accepted", "suspended"}
  /\ StartOn(r, c, k, "shelve", "ready", Unset, Unset)

\* The rate of a proposal, unset for none: old_rate is that of current_rate_id.
RateOf(i) == IF i = 0 THEN Unset ELSE proposals[i].newRate

\* propose_rate_change wants no pending proposal.
Proposable(pending) == pending = {}

\* The second read: the pending proposal, none or one, and for propose_rate_change
\* the rate it would replace, of the collaboration as it was read before.
ReadProposal(r) ==
  LET q == request[r]
      pending == PendingProposals(q.id)
  IN /\ q.stage = "reading"
     /\ \/ /\ q.does # "propose"
           /\ \/ /\ pending = {}
                 /\ request' = [request EXCEPT ![r].stage = "ready"]
              \/ \E i \in pending :
                   /\ pending = {i}
                   /\ request' = [request EXCEPT
                        ![r].stage = "ready", ![r].proposal = i,
                        ![r].rate = IF q.rate = proposals[i].newRate THEN Unset ELSE q.rate]
        \/ /\ q.does = "propose"
           /\ Proposable(pending)
           /\ request' = [request EXCEPT
                ![r].stage = "ready",
                ![r].oldRate = RateOf(q.current)]
     /\ UNCHANGED <<collaborations, proposals, told, raced>>

\* The second read ends the request: a proposal is pending already, or there are
\* two of them where the query expects one at most.
Refuse(r) ==
  LET q == request[r]
      pending == PendingProposals(q.id)
  IN /\ q.stage = "reading"
     /\ \/ q.does = "propose" /\ ~Proposable(pending)
        \/ Cardinality(pending) > 1
     /\ request' = [request EXCEPT ![r] = Idle]
     /\ UNCHANGED <<collaborations, proposals, told, raced>>

---------------------------------------------------------------------------
(* Writing.                                                                *)

\* The request ends; the others of its pair have now read old rows, which says nothing
\* more of a pair that is raced already.
Committed(r) ==
  LET q == request[r]
  IN /\ q.stage = "ready"
     /\ raced' = IF q.overtaken THEN raced \cup {q.pair} ELSE raced
     /\ request' = [x \in Requests |->
          IF x = r THEN Idle
          ELSE IF request[x].pair = q.pair
          THEN [request[x] EXCEPT !.overtaken = q.pair \notin raced']
          ELSE request[x]]

Notified(company, by, type, k, offer) ==
  told' = told \cup {[company |-> company, by |-> by, type |-> type, collaboration |-> k,
                      offer |-> offer]}

CommitRequest(r) ==
  LET q == request[r]
      k == Len(collaborations) + 1
      target == CHOOSE c \in q.pair : c # q.by
  IN /\ q.does = "request"
     /\ collaborations' = Append(collaborations,
          [initiator |-> q.by, target |-> target, currency |-> q.currency,
           status |-> "pending", currentRate |-> 0])
     /\ proposals' = Append(proposals,
          [collaboration |-> k, oldRate |-> Unset, newRate |-> q.rate,
           status |-> "proposed", proposedBy |-> q.by, decidedBy |-> Unset])
     /\ Notified(target, q.by, "collaboration_request", k, Len(proposals) + 1)
     /\ Committed(r)

\* The verdict on the proposal that was read, if there was one.
Decided(q, verdict) ==
  IF q.proposal = 0 THEN proposals
  ELSE [proposals EXCEPT ![q.proposal].status = verdict,
                         ![q.proposal].decidedBy = q.by]

WithStatus(k, status) == [collaborations EXCEPT ![k].status = status]

CommitAccept(r) ==
  LET q == request[r]
      accepted == WithStatus(q.id, "accepted")
  IN /\ q.does = "accept"
     /\ proposals' = Decided(q, "accepted")
     /\ collaborations' =
          IF q.proposal = 0 THEN accepted
          ELSE [accepted EXCEPT ![q.id].currentRate = q.proposal]
     /\ Notified(collaborations[q.id].initiator, q.by, "collaboration_accepted", q.id, 0)
     /\ Committed(r)

CommitReject(r) ==
  LET q == request[r]
  IN /\ q.does = "reject"
     /\ proposals' = Decided(q, "rejected")
     /\ collaborations' = WithStatus(q.id, "rejected")
     /\ Notified(collaborations[q.id].initiator, q.by, "collaboration_rejected", q.id, 0)
     /\ Committed(r)

\* The target is told with the type of a rejection.
CommitCancel(r) ==
  LET q == request[r]
  IN /\ q.does = "cancel"
     /\ collaborations' = WithStatus(q.id, "cancelled")
     /\ Notified(collaborations[q.id].target, q.by, "collaboration_rejected", q.id, 0)
     /\ Committed(r)
     /\ UNCHANGED proposals

\* The currency of the collaboration and the rate of its pending proposal; nobody is
\* told.
CommitUpdate(r) ==
  LET q == request[r]
  IN /\ q.does = "update"
     /\ collaborations' = IF q.currency = Unset THEN collaborations
                          ELSE [collaborations EXCEPT ![q.id].currency = q.currency]
     /\ proposals' = IF q.rate = Unset \/ q.proposal = 0 THEN proposals
                     ELSE [proposals EXCEPT ![q.proposal].newRate = q.rate]
     /\ Committed(r)
     /\ UNCHANGED told

\* Mutant: the initiator is told of every rate, and the target of none.
InitiatorIsTold(k, c) == collaborations[k].initiator

ToTell(k, c) == OtherParty(k, c)

CommitPropose(r) ==
  LET q == request[r]
  IN /\ q.does = "propose"
     /\ proposals' = Append(proposals,
          [collaboration |-> q.id, oldRate |-> q.oldRate, newRate |-> q.rate,
           status |-> "proposed", proposedBy |-> q.by, decidedBy |-> Unset])
     /\ Notified(ToTell(q.id, q.by), q.by, "rate_proposed", q.id, Len(proposals) + 1)
     /\ Committed(r)
     /\ UNCHANGED collaborations

CommitAcceptRate(r) ==
  LET q == request[r]
  IN /\ q.does = "accept_rate"
     /\ proposals' = Decided(q, "accepted")
     /\ collaborations' = [collaborations EXCEPT ![q.id].currentRate = q.proposal]
     /\ Committed(r)
     /\ UNCHANGED told

CommitRejectRate(r) ==
  LET q == request[r]
  IN /\ q.does = "reject_rate"
     /\ proposals' = Decided(q, "rejected")
     /\ Committed(r)
     /\ UNCHANGED <<collaborations, told>>

\* suspend_collaboration and archive_collaboration set the status, then call
\* _other_party, which their module neither defines nor imports: the NameError
\* rolls the transaction back.
FailUndefined(r) ==
  /\ request[r].does = "shelve"
  /\ request' = [request EXCEPT ![r] = Idle]
  /\ UNCHANGED <<collaborations, proposals, told, raced>>

\* The connection is lost before the commit: nothing of the transaction remains.
Abort(r) ==
  /\ request[r] # Idle
  /\ request' = [request EXCEPT ![r] = Idle]
  /\ UNCHANGED <<collaborations, proposals, told, raced>>

---------------------------------------------------------------------------
Start(r, c) ==
  \/ \E target \in Companies, body \in Openings :
       StartRequest(r, c, target, body.currency, body.rate)
  \/ \E k \in DOMAIN collaborations :
       \/ StartAccept(r, c, k)
       \/ StartReject(r, c, k)
       \/ StartCancel(r, c, k)
       \/ StartSuspend(r, c, k)
       \/ StartArchive(r, c, k)
       \/ \E rate \in NewRates : StartPropose(r, c, k, rate)
       \/ \E body \in Updates : StartUpdate(r, c, k, body.currency, body.rate)
  \/ \E i \in DOMAIN proposals : StartAcceptRate(r, c, i) \/ StartRejectRate(r, c, i)

Commit(r) ==
  \/ CommitRequest(r)
  \/ CommitAccept(r)
  \/ CommitReject(r)
  \/ CommitCancel(r)
  \/ CommitUpdate(r)
  \/ CommitPropose(r)
  \/ CommitAcceptRate(r)
  \/ CommitRejectRate(r)

Next ==
  \E r \in Requests :
    \/ \E c \in Companies : Start(r, c)
    \/ ReadProposal(r)
    \/ Refuse(r)
    \/ Commit(r)
    \/ FailUndefined(r)
    \/ Abort(r)

Spec == Init /\ [][Next]_vars

---------------------------------------------------------------------------
(* Properties.                                                             *)

\* Every row has its type; a proposal names a collaboration and one of its parties
\* proposed it; the current rate of a collaboration is one of its own proposals.
TypeOK ==
  /\ collaborations \in Seq(Collaboration)
  /\ proposals \in Seq(Proposal)
  /\ \A k \in DOMAIN collaborations :
       /\ collaborations[k].initiator # collaborations[k].target
       /\ collaborations[k].currentRate # 0 =>
            /\ collaborations[k].currentRate \in DOMAIN proposals
            /\ proposals[collaborations[k].currentRate].collaboration = k
  /\ \A i \in DOMAIN proposals :
       /\ proposals[i].collaboration \in DOMAIN collaborations
       /\ proposals[i].proposedBy \in Parties(proposals[i].collaboration)
  /\ told \subseteq Notification
  /\ \A n \in told : n.collaboration \in DOMAIN collaborations
  /\ raced \subseteq {Parties(k) : k \in DOMAIN collaborations}

\* Two companies share one pending or active collaboration at most, unless requests
\* for that pair overlapped (request_collaboration, get_active_between).
OneActivePerPair ==
  \A c, d \in Companies :
    {c, d} \notin raced => Cardinality(ActiveBetween(c, d)) <= 1

\* Unless requests for the pair overlapped, a collaboration has one pending proposal at
\* most, made against the rate in force (old_rate); a proposal is decided by the party that
\* did not make it ("Le proposant ne peut pas accepter sa propre proposition", but
\* accept_collaboration takes whatever is pending when it gets there), and the current rate
\* is one that was accepted.  An accepted collaboration without a rate is one whose target
\* rejected the first proposal by itself before accepting the collaboration.
QuietPairsAgree ==
  \A k \in DOMAIN collaborations :
    Parties(k) \notin raced =>
      /\ Cardinality(PendingProposals(k)) <= 1
      /\ \A i \in PendingProposals(k) :
           proposals[i].oldRate = RateOf(collaborations[k].currentRate)
      /\ \A i \in DOMAIN proposals :
           proposals[i].collaboration = k /\ proposals[i].status # "proposed" =>
             proposals[i].decidedBy = OtherParty(k, proposals[i].proposedBy)
      /\ collaborations[k].currentRate # 0 =>
           proposals[collaborations[k].currentRate].status = "accepted"
      /\ collaborations[k].status = "accepted" /\ collaborations[k].currentRate = 0 =>
           \E i \in DOMAIN proposals : /\ proposals[i].collaboration = k
                                       /\ proposals[i].oldRate = Unset
                                       /\ proposals[i].status = "rejected"

\* The statuses that may follow one that is not "pending" (the checks of
\* suspend_collaboration and archive_collaboration).
StatusesAfter(status) ==
  {status} \cup CASE status = "accepted"  -> {"suspended", "archived"}
                 [] status = "suspended" -> {"archived"}
                 [] OTHER                -> {}

\* What two companies agreed on stays until they agree again, unless requests for the
\* pair overlapped: a decided proposal never changes, nor does the currency of a
\* collaboration that is not pending any more; such a collaboration is suspended or
\* archived at most, a refusal or a cancellation being final; and the current rate of an
\* accepted one is replaced only by a proposal that was pending, the party that did not
\* make it accepting it in that step.
AgreedTermsAreFinal ==
  [][/\ \A k \in DOMAIN collaborations :
          Parties(k) \notin raced' /\ collaborations[k].status # "pending" =>
            LET row == collaborations'[k]
            IN /\ row.currency = collaborations[k].currency
               /\ row.status \in StatusesAfter(collaborations[k].status)
               /\ row.currentRate # collaborations[k].currentRate =>
                    /\ row.currentRate \in PendingProposals(k)
                    /\ proposals'[row.currentRate].status = "accepted"
                    /\ proposals'[row.currentRate].decidedBy # proposals[row.currentRate].proposedBy
     /\ \A i \in DOMAIN proposals :
          /\ Parties(proposals[i].collaboration) \notin raced'
          /\ proposals[i].status # "proposed"
          => proposals'[i] = proposals[i]]_<<collaborations, proposals>>

\* Every offer, the first rate and each one after it, was announced to the party that did
\* not make it, and to it alone (test_rate_proposal_notifies_other_party); every verdict
\* on a collaboration was announced by the party that gave it to the other one; nobody
\* is told of what it did itself.
CounterpartIsTold ==
  LET Announced(k, type, by) ==
        \E n \in told : n.collaboration = k /\ n.type = type /\ n.by = by
  IN /\ \A n \in told : n.company = OtherParty(n.collaboration, n.by) /\ n.company # n.by
     /\ \A i \in DOMAIN proposals :
          {n.company : n \in {m \in told : m.offer = i}}
            = {OtherParty(proposals[i].collaboration, proposals[i].proposedBy)}
     /\ \A k \in DOMAIN collaborations :
          LET row == collaborations[k]
          IN /\ row.status = "accepted" => Announced(k, "collaboration_accepted", row.target)
             /\ row.status = "rejected" => Announced(k, "collaboration_rejected", row.target)
             /\ row.status = "cancelled" => Announced(k, "collaboration_rejected", row.initiator)

---------------------------------------------------------------------------
(* What a test says, and overlapping requests break.                       *)

\* An accepted collaboration can be neither cancelled nor updated
\* (test_cannot_update_or_cancel_accepted_collaboration): it is decided once, whatever its
\* two parties ask at the same time, and its currency and the value of its rate stay as
\* they are until another rate is accepted.
AcceptedIsNotTouched ==
  [][\A k \in DOMAIN collaborations :
       collaborations[k].status = "accepted" =>
         LET rate == collaborations[k].currentRate
         IN /\ collaborations'[k].status \in StatusesAfter("accepted")
            /\ collaborations'[k].currency = collaborations[k].currency
            /\ rate # 0 => proposals'[rate].newRate = proposals[rate].newRate
    ]_<<collaborations, proposals>>

============================================================================
