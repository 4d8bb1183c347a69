------------------------------- MODULE Proofs -------------------------------
(***************************************************************************)
(* Proofs of payment: files the two parties of an order (a transfer or a   *)
(* payment) upload for it at any time, whose status follows the decision   *)
(* on the order.  A decision holds the order's row lock and updates the    *)
(* proofs committed by then; an upload takes no lock.                      *)
(***************************************************************************)
EXTENDS Transactions

CONSTANTS
  Uploaders,     \* the two companies of the collaboration
  ProvenOrders,  \* [orders -> [kind, creator]]: the orders, all pending at first
  MaxProofs      \* bound: rows of proofs

ASSUME ProofsAssumption ==
  /\ Cardinality(Uploaders) = 2
  /\ \A o \in DOMAIN ProvenOrders :
       /\ ProvenOrders[o].kind \in {"transfer", "payment"}
       /\ ProvenOrders[o].creator \in Uploaders
  /\ MaxProofs \in Nat

VARIABLES
  verdict,      \* [orders -> status]
  attached,     \* [orders -> proof_id, zero when null]
  proofs,       \* Seq(proof): rows of proofs
  storedFiles,  \* number of files written to the upload directory
  proving       \* [Requests -> an upload or a decision in progress]

proofVars == <<verdict, attached, proofs, storedFiles, proving>>

ProofStatus == {"pending", "validated", "rejected"}

\* late is history: the decision on the order had already gone over its proofs.
Proof == [order : DOMAIN ProvenOrders, company : Uploaders, file : Nat,
          status : ProofStatus, late : BOOLEAN]

NotProving == [does |-> "nothing", order |-> "none", company |-> "none", file |-> 0,
               status |-> "pending", proof |-> 0, seen |-> {}]

ProofsInit ==
  /\ verdict     = [o \in DOMAIN ProvenOrders |-> "pending"]
  /\ attached    = [o \in DOMAIN ProvenOrders |-> 0]
  /\ proofs      = <<>>
  /\ storedFiles = 0
  /\ proving     = [r \in Requests |-> NotProving]

---------------------------------------------------------------------------
\* upload_transfer_proof and upload_payment_proof: the order is read, whatever its
\* status, the file's type and size are accepted and the file is written.
StartUpload(r, c, o) ==
  /\ proving[r].does = "nothing"
  /\ storedFiles < MaxProofs
  /\ storedFiles' = storedFiles + 1
  /\ proving' = [proving EXCEPT ![r] =
       [NotProving EXCEPT !.does = "upload", !.order = o, !.company = c,
                          !.file = storedFiles + 1]]
  /\ UNCHANGED <<verdict, attached, proofs>>

\* The order is decided, or its row is locked by a decision.
Decided(o) ==
  \/ verdict[o] # "pending"
  \/ \E r \in Requests : proving[r].does = "decide" /\ proving[r].order = o

\* Mutant: a new proof takes the status of its order.
CommitUploadAccepted(r) ==
  LET q == proving[r]
  IN /\ q.does = "upload"
     /\ proofs' = Append(proofs, [order |-> q.order, company |-> q.company, file |-> q.file,
                                  status |-> IF verdict[q.order] = "approved" THEN "validated"
                                             ELSE "pending",
                                  late |-> verdict[q.order] # "pending"])
     /\ proving' = [proving EXCEPT ![r] = NotProving]
     /\ UNCHANGED <<verdict, attached, storedFiles>>

CommitUpload(r) ==
  LET q == proving[r]
  IN /\ q.does = "upload"
     /\ proofs' = Append(proofs, [order |-> q.order, company |-> q.company, file |-> q.file,
                                  status |-> "pending", late |-> verdict[q.order] # "pending"])
     /\ proving' = [proving EXCEPT ![r] = NotProving]
     /\ UNCHANGED <<verdict, attached, storedFiles>>

\* The proof an approval names: one of the transfer's, uploaded by the approving
\* company; approve_payment stores the identifier it is given.
Attachable(o, c, p) ==
  ProvenOrders[o].kind = "transfer" => proofs[p].order = o /\ proofs[p].company = c

\* set_status_for_transfer and set_status_for_payment: one UPDATE over the committed
\* rows of the order, whatever they were.
ProofsOf(o) == {p \in DOMAIN proofs : proofs[p].order = o}

ProofVerdict(status) == IF status = "approved" THEN "validated" ELSE "rejected"

\* A decision up to its commit: the order is locked and pending, its proofs are
\* updated.  The creator cancels, the other party approves or rejects.
StartVerdict(r, c, o, status, p) ==
  /\ proving[r].does = "nothing"
  /\ ~Decided(o)
  /\ (status = "cancelled") = (c = ProvenOrders[o].creator)
  /\ p # 0 => status = "approved" /\ Attachable(o, c, p)
  /\ proving' = [proving EXCEPT ![r] =
       [NotProving EXCEPT !.does = "decide", !.order = o, !.company = c,
                          !.status = status, !.proof = p, !.seen = ProofsOf(o)]]
  /\ UNCHANGED <<verdict, attached, proofs, storedFiles>>

CommitVerdict(r) ==
  LET q == proving[r]
  IN /\ q.does = "decide"
     /\ verdict' = [verdict EXCEPT ![q.order] = q.status]
     /\ attached' = [attached EXCEPT ![q.order] = q.proof]
     /\ proofs' = [p \in DOMAIN proofs |->
          IF p \in q.seen THEN [proofs[p] EXCEPT !.status = ProofVerdict(q.status)]
          ELSE IF proofs[p].order = q.order THEN [proofs[p] EXCEPT !.late = TRUE]
          ELSE proofs[p]]
     /\ proving' = [proving EXCEPT ![r] = NotProving]
     /\ UNCHANGED storedFiles

\* The transaction is rolled back; a file already written stays, without a row.
AbortProving(r) ==
  /\ proving[r].does # "nothing"
  /\ proving' = [proving EXCEPT ![r] = NotProving]
  /\ UNCHANGED <<verdict, attached, proofs, storedFiles>>

ProofsNext ==
  \E r \in Requests :
    \/ \E c \in Uploaders, o \in DOMAIN ProvenOrders : StartUpload(r, c, o)
    \/ \E c \in Uploaders, o \in DOMAIN ProvenOrders, p \in 0 .. Len(proofs),
          status \in {"approved", "rejected", "cancelled"} : StartVerdict(r, c, o, status, p)
    \/ CommitUpload(r)
    \/ CommitVerdict(r)
    \/ AbortProving(r)

ProofsSpec == ProofsInit /\ [][ProofsNext]_proofVars

---------------------------------------------------------------------------
\* Every row has its type; a proof has a file of its own, written before the row.
ProofsTypeOK ==
  /\ verdict \in [DOMAIN ProvenOrders -> {"pending", "approved", "rejected", "cancelled"}]
  /\ attached \in [DOMAIN ProvenOrders -> 0 .. Len(proofs)]
  /\ proofs \in Seq(Proof)
  /\ \A p, q \in DOMAIN proofs :
       /\ proofs[p].file \in 1 .. storedFiles
       /\ proofs[p].file = proofs[q].file => p = q

\* A proof has the status of the decision on its order if it was there when the
\* decision went over the proofs, and stays pending for ever otherwise; the proof
\* attached to an approved transfer is one of the transfer's own, of the company
\* that paid, and validated.
ProofsFollowDecisions ==
  /\ \A p \in DOMAIN proofs :
       proofs[p].status =
         IF proofs[p].late \/ verdict[proofs[p].order] = "pending" THEN "pending"
         ELSE ProofVerdict(verdict[proofs[p].order])
  /\ \A o \in DOMAIN ProvenOrders :
       ProvenOrders[o].kind = "transfer" /\ attached[o] # 0 =>
         LET p == proofs[attached[o]]
         IN /\ p.order = o
            /\ p.company # ProvenOrders[o].creator
            /\ p.status = "validated"
============================================================================
