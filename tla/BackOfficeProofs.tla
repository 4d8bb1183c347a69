-------------------------- MODULE BackOfficeProofs --------------------------
(***************************************************************************)
(* The four services around the settlements, for any number of requests,   *)
(* rows, companies and streams.  Each service has an inductive invariant   *)
(* of its own, kept by its own steps and by those of the other services,   *)
(* which leave its state alone.                                            *)
(***************************************************************************)
EXTENDS BackOffice, DataLemmas, MoneyLemmas, FiniteSetTheorems, TLAPS

---------------------------------------------------------------------------
(* Proofs of payment.                                                      *)

OrderOrNone == DOMAIN ProvenOrders \cup {"none"}

UploaderOrNone == Uploaders \cup {"none"}

\* An upload or a decision in progress.
ProvingState ==
  [does : {"nothing", "upload", "decide"}, order : OrderOrNone, company : UploaderOrNone, file : Nat,
   status : {"pending", "approved", "rejected", "cancelled"}, proof : Nat, seen : SUBSET Nat]

\* An upload has written its file, which no row names yet.
UploadHolds(q) ==
  /\ q.order \in DOMAIN ProvenOrders
  /\ q.company \in Uploaders
  /\ q.file \in 1 .. storedFiles
  /\ \A p \in DOMAIN proofs : proofs[p].file # q.file

\* A decision holds its order's lock, so the order is still pending, and the proof it
\* names is one that could be named.
DecisionHolds(q) ==
  /\ q.order \in DOMAIN ProvenOrders
  /\ q.status # "pending"
  /\ verdict[q.order] = "pending"
  /\ q.seen \subseteq DOMAIN proofs
  /\ \A p \in q.seen : proofs[p].order = q.order
  /\ q.proof # 0 =>
       /\ q.proof \in DOMAIN proofs
       /\ q.status = "approved"
       /\ ProvenOrders[q.order].kind = "transfer" =>
            q.proof \in q.seen /\ proofs[q.proof].company # ProvenOrders[q.order].creator

RequestsProve ==
  /\ storedFiles \in Nat
  /\ proving \in [Requests -> ProvingState]
  /\ \A r \in Requests :
       /\ proving[r].does = "upload" => UploadHolds(proving[r])
       /\ proving[r].does = "decide" => DecisionHolds(proving[r])

\* No two requests write one file or decide one order.
RequestsApart ==
  \A r, s \in Requests :
    /\ proving[r].does = proving[s].does
    /\ \/ proving[r].does = "upload" /\ proving[r].file = proving[s].file
       \/ proving[r].does = "decide" /\ proving[r].order = proving[s].order
    => r = s

LateIsDecided == \A p \in DOMAIN proofs : proofs[p].late => verdict[proofs[p].order] # "pending"

ProofsInv ==
  ProofsTypeOK /\ RequestsProve /\ RequestsApart /\ LateIsDecided /\ ProofsFollowDecisions

LEMMA NotProvingTyped == NotProving \in ProvingState /\ NotProving.does = "nothing"
BY DEF NotProving, ProvingState, OrderOrNone, UploaderOrNone

LEMMA ProofsInvInit == ProofsInit => ProofsInv
<1> SUFFICES ASSUME ProofsInit PROVE ProofsInv
  OBVIOUS
<1>1. /\ DOMAIN proofs = {} /\ proofs \in Seq(Proof) /\ Len(proofs) = 0
      /\ storedFiles = 0
      /\ proving \in [Requests -> ProvingState]
      /\ \A r \in Requests : proving[r].does = "nothing"
      /\ verdict \in [DOMAIN ProvenOrders -> {"pending"}]
      /\ attached \in [DOMAIN ProvenOrders -> {0}]
  BY NotProvingTyped DEF ProofsInit
<1>2. ProofsTypeOK
  BY <1>1 DEF ProofsTypeOK
<1>3. RequestsProve /\ RequestsApart /\ LateIsDecided /\ ProofsFollowDecisions
  BY <1>1 DEF RequestsProve, RequestsApart, LateIsDecided, ProofsFollowDecisions
<1> QED BY <1>2, <1>3 DEF ProofsInv

\* What one request writes of its own state, the others keeping theirs.
LEMMA OneRequestProves ==
  ASSUME NEW table \in [Requests -> ProvingState], NEW r \in Requests, NEW q \in ProvingState
  PROVE  /\ [table EXCEPT ![r] = q] \in [Requests -> ProvingState]
         /\ [table EXCEPT ![r] = q][r] = q
         /\ \A s \in Requests : s # r => [table EXCEPT ![r] = q][s] = table[s]
OBVIOUS

LEMMA UploadStarts ==
  ASSUME ProofsInv, NEW r \in Requests, NEW c \in Uploaders, NEW o \in DOMAIN ProvenOrders,
         StartUpload(r, c, o)
  PROVE  ProofsInv'
<1>1. storedFiles \in Nat /\ proving \in [Requests -> ProvingState]
  BY DEF ProofsInv, RequestsProve
<1>2. PICK q \in ProvingState :
        /\ q.does = "upload" /\ q.order = o /\ q.company = c /\ q.file = storedFiles + 1
        /\ proving' = [proving EXCEPT ![r] = q]
  <2> DEFINE q == [NotProving EXCEPT !.does = "upload", !.order = o, !.company = c,
                                     !.file = storedFiles + 1]
  <2>1. q \in ProvingState
    <3>1. o \in OrderOrNone /\ c \in UploaderOrNone /\ storedFiles + 1 \in Nat
      BY <1>1 DEF OrderOrNone, UploaderOrNone
    <3> QED BY <3>1, NotProvingTyped DEF ProvingState
  <2>2. q.does = "upload" /\ q.order = o /\ q.company = c /\ q.file = storedFiles + 1
    BY DEF NotProving
  <2>3. proving' = [proving EXCEPT ![r] = q]
    BY DEF StartUpload
  <2> QED BY <2>1, <2>2, <2>3
<1>3. storedFiles' = storedFiles + 1 /\ UNCHANGED <<verdict, attached, proofs>>
  BY DEF StartUpload
<1>4. /\ proving' \in [Requests -> ProvingState] /\ proving'[r] = q
      /\ \A s \in Requests : s # r => proving'[s] = proving[s]
  BY <1>1, <1>2, OneRequestProves
<1>5. ProofsTypeOK'
  BY <1>1, <1>3 DEF ProofsInv, ProofsTypeOK
<1>6. RequestsProve'
  <2>1. UploadHolds(q)'
    BY <1>1, <1>2, <1>3 DEF UploadHolds, ProofsInv, ProofsTypeOK
  <2>2. ASSUME NEW s \in Requests, s # r
        PROVE  /\ (proving[s].does = "upload" => UploadHolds(proving[s]))'
               /\ (proving[s].does = "decide" => DecisionHolds(proving[s]))'
    BY <1>1, <1>3, <1>4, <2>2 DEF ProofsInv, RequestsProve, UploadHolds, DecisionHolds
  <2>3. /\ (proving[r].does = "upload" => UploadHolds(proving[r]))'
        /\ (proving[r].does = "decide" => DecisionHolds(proving[r]))'
    BY <1>2, <1>4, <2>1 DEF UploadHolds
  <2> QED BY <1>1, <1>3, <1>4, <2>2, <2>3 DEF RequestsProve
<1>7. RequestsApart'
  <2>1. \A s \in Requests : proving[s].does = "upload" => proving[s].file # q.file
    BY <1>1, <1>2 DEF ProofsInv, RequestsProve, UploadHolds
  <2> QED BY <1>2, <1>4, <2>1 DEF RequestsApart, ProofsInv
<1>8. LateIsDecided' /\ ProofsFollowDecisions'
  BY <1>3 DEF LateIsDecided, ProofsFollowDecisions, ProofsInv
<1> QED BY <1>5, <1>6, <1>7, <1>8 DEF ProofsInv

LEMMA ProvingAborts ==
  ASSUME ProofsInv, NEW r \in Requests, AbortProving(r)
  PROVE  ProofsInv'
<1>1. /\ storedFiles \in Nat /\ proving \in [Requests -> ProvingState]
      /\ proving' = [proving EXCEPT ![r] = NotProving]
      /\ UNCHANGED <<verdict, attached, proofs, storedFiles>>
  BY DEF ProofsInv, RequestsProve, AbortProving
<1>2. /\ proving' \in [Requests -> ProvingState] /\ proving'[r].does = "nothing"
      /\ \A s \in Requests : s # r => proving'[s] = proving[s]
  BY <1>1, NotProvingTyped, OneRequestProves
<1>3. RequestsProve'
  BY <1>1, <1>2 DEF ProofsInv, RequestsProve, UploadHolds, DecisionHolds
<1>4. RequestsApart'
  BY <1>2 DEF ProofsInv, RequestsApart
<1>5. ProofsTypeOK' /\ LateIsDecided' /\ ProofsFollowDecisions'
  BY <1>1 DEF ProofsInv, ProofsTypeOK, LateIsDecided, ProofsFollowDecisions
<1> QED BY <1>3, <1>4, <1>5 DEF ProofsInv

LEMMA UploadCommits ==
  ASSUME ProofsInv, NEW r \in Requests, CommitUpload(r)
  PROVE  ProofsInv'
<1>1. /\ storedFiles \in Nat /\ proving \in [Requests -> ProvingState]
      /\ proving' = [proving EXCEPT ![r] = NotProving]
      /\ UNCHANGED <<verdict, attached, storedFiles>>
  BY DEF ProofsInv, RequestsProve, CommitUpload
<1>2. /\ proving' \in [Requests -> ProvingState] /\ proving'[r].does = "nothing"
      /\ \A s \in Requests : s # r => proving'[s] = proving[s]
  BY <1>1, NotProvingTyped, OneRequestProves
<1>3. PICK q \in ProvingState : q = proving[r]
  BY <1>1
<1>4. q.does = "upload" /\ UploadHolds(q)
  BY <1>3 DEF CommitUpload, ProofsInv, RequestsProve
<1>5. PICK row \in Proof :
        /\ proofs' = Append(proofs, row)
        /\ row.order = q.order /\ row.company = q.company /\ row.file = q.file
        /\ row.status = "pending" /\ (row.late <=> verdict[q.order] # "pending")
  <2> DEFINE row == [order |-> q.order, company |-> q.company, file |-> q.file,
                     status |-> "pending", late |-> verdict[q.order] # "pending"]
  <2>1. row \in Proof
    BY <1>1, <1>4 DEF UploadHolds, Proof, ProofStatus
  <2>2. proofs' = Append(proofs, row)
    BY <1>3 DEF CommitUpload
  <2> QED BY <2>1, <2>2
<1> DEFINE n == Len(proofs) + 1
<1>6. /\ proofs' \in Seq(Proof)
      /\ Len(proofs) \in Nat /\ DOMAIN proofs = 1 .. Len(proofs)
      /\ DOMAIN proofs' = DOMAIN proofs \cup {n} /\ n \notin DOMAIN proofs
      /\ \A p \in DOMAIN proofs : proofs'[p] = proofs[p]
      /\ proofs'[n] = row
      /\ Len(proofs') = n
  BY <1>5, SequenceAppended DEF ProofsInv, ProofsTypeOK
<1>7. n \in Nat /\ Len(proofs) < n
  BY <1>6
<1> HIDE DEF n
<1>8. ProofsTypeOK'
  <2>1. attached' \in [DOMAIN ProvenOrders -> 0 .. Len(proofs')]
    BY <1>1, <1>6, <1>7 DEF ProofsInv, ProofsTypeOK
  <2>2. ASSUME NEW p \in DOMAIN proofs', NEW k \in DOMAIN proofs'
        PROVE  /\ proofs'[p].file \in 1 .. storedFiles'
               /\ proofs'[p].file = proofs'[k].file => p = k
    BY <1>1, <1>4, <1>5, <1>6 DEF ProofsInv, ProofsTypeOK, UploadHolds
  <2> QED BY <1>1, <1>6, <2>1, <2>2 DEF ProofsInv, ProofsTypeOK
<1>9. RequestsProve'
  <2> SUFFICES ASSUME NEW s \in Requests, s # r
               PROVE  /\ proving[s].does = "upload" => UploadHolds(proving[s])'
                      /\ proving[s].does = "decide" => DecisionHolds(proving[s])'
    BY <1>1, <1>2 DEF RequestsProve
  <2>1. PICK x \in ProvingState : x = proving[s]
    BY <1>1
  <2>2. ASSUME x.does = "upload" PROVE UploadHolds(x)'
    <3>1. UploadHolds(x) /\ x.file # q.file
      BY <1>3, <1>4, <2>1, <2>2 DEF ProofsInv, RequestsProve, RequestsApart
    <3> QED BY <1>1, <1>5, <1>6, <3>1 DEF UploadHolds
  <2>3. ASSUME x.does = "decide" PROVE DecisionHolds(x)'
    <3>1. DecisionHolds(x)
      BY <2>1, <2>3 DEF ProofsInv, RequestsProve
    <3> QED BY <1>1, <1>6, <3>1 DEF DecisionHolds
  <2> QED BY <1>2, <2>1, <2>2, <2>3 DEF UploadHolds, DecisionHolds
<1>10. RequestsApart'
  BY <1>2 DEF ProofsInv, RequestsApart
<1>11. LateIsDecided'
  BY <1>1, <1>5, <1>6 DEF ProofsInv, LateIsDecided
<1>12. ProofsFollowDecisions'
  <2>1. ASSUME NEW p \in DOMAIN proofs'
        PROVE  proofs'[p].status =
                 IF proofs'[p].late \/ verdict'[proofs'[p].order] = "pending" THEN "pending"
                 ELSE ProofVerdict(verdict'[proofs'[p].order])
    <3>1. CASE p = n
      BY <1>1, <1>5, <1>6, <3>1
    <3>2. CASE p # n
      BY <1>1, <1>6, <3>2 DEF ProofsInv, ProofsFollowDecisions
    <3> QED BY <3>1, <3>2
  <2>2. \A o \in DOMAIN ProvenOrders : attached[o] # 0 => attached[o] \in DOMAIN proofs
    BY <1>6 DEF ProofsInv, ProofsTypeOK
  <2> QED BY <1>1, <1>6, <2>1, <2>2 DEF ProofsInv, ProofsFollowDecisions, ProofVerdict
<1> QED BY <1>8, <1>9, <1>10, <1>11, <1>12 DEF ProofsInv

LEMMA VerdictStarts ==
  ASSUME ProofsInv, NEW r \in Requests, NEW c \in Uploaders, NEW o \in DOMAIN ProvenOrders,
         NEW status \in {"approved", "rejected", "cancelled"}, NEW p \in 0 .. Len(proofs),
         StartVerdict(r, c, o, status, p)
  PROVE  ProofsInv'
<1>1. /\ storedFiles \in Nat /\ proving \in [Requests -> ProvingState]
      /\ proofs \in Seq(Proof) /\ DOMAIN proofs = 1 .. Len(proofs) /\ Len(proofs) \in Nat
  BY DEF ProofsInv, RequestsProve, ProofsTypeOK
<1>2. PICK q \in ProvingState :
        /\ q.does = "decide" /\ q.order = o /\ q.status = status
        /\ q.proof = p /\ q.seen = ProofsOf(o)
        /\ proving' = [proving EXCEPT ![r] = q]
  <2> DEFINE q == [NotProving EXCEPT !.does = "decide", !.order = o, !.company = c,
                                     !.status = status, !.proof = p, !.seen = ProofsOf(o)]
  <2>1. q \in ProvingState
    <3>1. /\ o \in OrderOrNone /\ c \in UploaderOrNone /\ p \in Nat
          /\ ProofsOf(o) \in SUBSET Nat
          /\ status \in {"pending", "approved", "rejected", "cancelled"}
      BY <1>1 DEF OrderOrNone, UploaderOrNone, ProofsOf
    <3> HIDE DEF q
    <3>2. \A x \in ProvingState : [x EXCEPT !.does = "decide", !.order = o, !.company = c,
                           !.status = status, !.proof = p, !.seen = ProofsOf(o)] \in ProvingState
      BY <3>1 DEF ProvingState
    <3> QED BY <3>2, NotProvingTyped DEF q
  <2>2. /\ q.does = "decide" /\ q.order = o /\ q.status = status
        /\ q.proof = p /\ q.seen = ProofsOf(o)
    BY DEF NotProving
  <2>3. proving' = [proving EXCEPT ![r] = q]
    BY DEF StartVerdict
  <2> QED BY <2>1, <2>2, <2>3
<1>3. UNCHANGED <<verdict, attached, proofs, storedFiles>>
  BY DEF StartVerdict
<1>4. /\ proving' \in [Requests -> ProvingState] /\ proving'[r] = q
      /\ \A s \in Requests : s # r => proving'[s] = proving[s]
  BY <1>1, <1>2, OneRequestProves
<1>5. DecisionHolds(q)
  <2>1. /\ verdict[o] = "pending"
        /\ \A x \in ProofsOf(o) : x \in DOMAIN proofs /\ proofs[x].order = o
    BY DEF StartVerdict, Decided, ProofsOf
  <2>2. ASSUME p # 0 PROVE p \in DOMAIN proofs /\ status = "approved"
    BY <1>1, <2>2 DEF StartVerdict
  <2>3. ASSUME p # 0, ProvenOrders[o].kind = "transfer"
        PROVE  p \in ProofsOf(o) /\ proofs[p].company # ProvenOrders[o].creator
    BY <2>2, <2>3 DEF StartVerdict, Attachable, ProofsOf
  <2> QED BY <1>2, <2>1, <2>2, <2>3 DEF DecisionHolds
<1>6. RequestsProve'
  <2>1. ASSUME NEW s \in Requests, s # r
        PROVE  /\ (proving[s].does = "upload" => UploadHolds(proving[s]))'
               /\ (proving[s].does = "decide" => DecisionHolds(proving[s]))'
    BY <1>3, <1>4, <2>1 DEF ProofsInv, RequestsProve, UploadHolds, DecisionHolds
  <2>2. /\ (proving[r].does = "upload" => UploadHolds(proving[r]))'
        /\ (proving[r].does = "decide" => DecisionHolds(proving[r]))'
    BY <1>2, <1>3, <1>4, <1>5 DEF DecisionHolds
  <2> QED BY <1>1, <1>3, <1>4, <2>1, <2>2 DEF RequestsProve
<1>7. RequestsApart'
  <2>1. \A s \in Requests : proving[s].does = "decide" => proving[s].order # o
    BY DEF StartVerdict, Decided
  <2> QED BY <1>2, <1>4, <2>1 DEF ProofsInv, RequestsApart
<1>8. ProofsTypeOK' /\ LateIsDecided' /\ ProofsFollowDecisions'
  BY <1>3 DEF ProofsInv, ProofsTypeOK, LateIsDecided, ProofsFollowDecisions
<1> QED BY <1>6, <1>7, <1>8 DEF ProofsInv

\* One decision goes over the proofs it saw and passes by the others of its order.
LEMMA VerdictRewrites ==
  ASSUME ProofsInv, NEW r \in Requests, CommitVerdict(r), NEW q, q = proving[r]
  PROVE  /\ proofs' \in Seq(Proof) /\ Len(proofs') = Len(proofs)
         /\ DOMAIN proofs' = DOMAIN proofs
         /\ \A p \in DOMAIN proofs :
              /\ proofs'[p].order = proofs[p].order
              /\ proofs'[p].company = proofs[p].company
              /\ proofs'[p].file = proofs[p].file
              /\ proofs'[p].status = IF p \in q.seen THEN ProofVerdict(q.status)
                                     ELSE proofs[p].status
              /\ proofs'[p].late <=> \/ proofs[p].late
                                     \/ p \notin q.seen /\ proofs[p].order = q.order
<1> DEFINE rows == [p \in DOMAIN proofs |->
              IF p \in q.seen THEN [proofs[p] EXCEPT !.status = ProofVerdict(q.status)]
              ELSE IF proofs[p].order = q.order THEN [proofs[p] EXCEPT !.late = TRUE]
              ELSE proofs[p]]
<1>1. proofs' = rows
  BY DEF CommitVerdict
<1>2. ASSUME NEW p \in DOMAIN proofs
      PROVE  /\ rows[p] \in Proof
             /\ rows[p].order = proofs[p].order
             /\ rows[p].company = proofs[p].company
             /\ rows[p].file = proofs[p].file
             /\ rows[p].status = IF p \in q.seen THEN ProofVerdict(q.status)
                                 ELSE proofs[p].status
             /\ rows[p].late <=> \/ proofs[p].late
                                 \/ p \notin q.seen /\ proofs[p].order = q.order
  <2>1. proofs[p] \in Proof
    BY DEF ProofsInv, ProofsTypeOK
  <2>2. ProofVerdict(q.status) \in ProofStatus
    BY DEF ProofVerdict, ProofStatus
  <2>3. CASE p \in q.seen
    BY <2>1, <2>2, <2>3 DEF Proof
  <2>4. CASE p \notin q.seen /\ proofs[p].order = q.order
    BY <2>1, <2>4 DEF Proof
  <2>5. CASE p \notin q.seen /\ proofs[p].order # q.order
    BY <2>1, <2>5 DEF Proof
  <2> QED BY <2>3, <2>4, <2>5
<1>3. DOMAIN rows = DOMAIN proofs /\ rows = [p \in DOMAIN rows |-> rows[p]]
  OBVIOUS
<1>4. proofs \in Seq(Proof)
  BY DEF ProofsInv, ProofsTypeOK
<1> HIDE DEF rows
<1>5. rows \in Seq(Proof) /\ Len(rows) = Len(proofs)
  BY <1>2, <1>3, <1>4, SequenceRewritten
<1> QED BY <1>1, <1>2, <1>3, <1>5

LEMMA VerdictCommits ==
  ASSUME ProofsInv, NEW r \in Requests, CommitVerdict(r)
  PROVE  ProofsInv'
<1>1. /\ storedFiles \in Nat /\ proving \in [Requests -> ProvingState]
      /\ proving' = [proving EXCEPT ![r] = NotProving]
      /\ storedFiles' = storedFiles
  BY DEF ProofsInv, RequestsProve, CommitVerdict
<1>2. /\ proving' \in [Requests -> ProvingState] /\ proving'[r].does = "nothing"
      /\ \A s \in Requests : s # r => proving'[s] = proving[s]
  BY <1>1, NotProvingTyped, OneRequestProves
<1>3. PICK q \in ProvingState : q = proving[r]
  BY <1>1
<1>4. q.does = "decide" /\ DecisionHolds(q)
  BY <1>3 DEF CommitVerdict, ProofsInv, RequestsProve
<1>5. /\ verdict' = [verdict EXCEPT ![q.order] = q.status]
      /\ attached' = [attached EXCEPT ![q.order] = q.proof]
  BY <1>3 DEF CommitVerdict
<1>6. /\ proofs' \in Seq(Proof) /\ Len(proofs') = Len(proofs)
      /\ DOMAIN proofs' = DOMAIN proofs
      /\ \A p \in DOMAIN proofs :
           /\ proofs'[p].order = proofs[p].order
           /\ proofs'[p].company = proofs[p].company
           /\ proofs'[p].file = proofs[p].file
           /\ proofs'[p].status = IF p \in q.seen THEN ProofVerdict(q.status)
                                  ELSE proofs[p].status
           /\ proofs'[p].late <=> \/ proofs[p].late
                                  \/ p \notin q.seen /\ proofs[p].order = q.order
  BY <1>3, VerdictRewrites
<1>7. /\ q.order \in DOMAIN ProvenOrders
      /\ q.status \in {"approved", "rejected", "cancelled"} /\ verdict[q.order] = "pending"
      /\ q.seen \subseteq DOMAIN proofs /\ \A p \in q.seen : proofs[p].order = q.order
  BY <1>4 DEF DecisionHolds, ProvingState
<1>8. /\ verdict \in [DOMAIN ProvenOrders -> {"pending", "approved", "rejected", "cancelled"}]
      /\ attached \in [DOMAIN ProvenOrders -> 0 .. Len(proofs)]
      /\ proofs \in Seq(Proof)
      /\ \A p \in DOMAIN proofs : proofs[p].order \in DOMAIN ProvenOrders
  <2>1. \A p \in DOMAIN proofs : proofs[p] \in Proof
    BY DEF ProofsInv, ProofsTypeOK
  <2> QED BY <2>1 DEF ProofsInv, ProofsTypeOK, Proof
<1>9. \A o \in DOMAIN ProvenOrders :
        /\ verdict'[o] = IF o = q.order THEN q.status ELSE verdict[o]
        /\ attached'[o] = IF o = q.order THEN q.proof ELSE attached[o]
  BY <1>5, <1>8
<1>10. ProofsTypeOK'
  <2>1. q.proof \in 0 .. Len(proofs)
    BY <1>4, <1>8 DEF DecisionHolds, ProvingState
  <2>2. /\ verdict' \in [DOMAIN ProvenOrders -> {"pending", "approved", "rejected", "cancelled"}]
        /\ attached' \in [DOMAIN ProvenOrders -> 0 .. Len(proofs')]
    BY <1>5, <1>6, <1>7, <1>8, <2>1
  <2> QED BY <1>1, <1>6, <2>2 DEF ProofsInv, ProofsTypeOK
<1>11. RequestsProve'
  <2> SUFFICES ASSUME NEW s \in Requests, s # r
               PROVE  /\ proving[s].does = "upload" => UploadHolds(proving[s])'
                      /\ proving[s].does = "decide" => DecisionHolds(proving[s])'
    BY <1>1, <1>2 DEF RequestsProve
  <2>1. PICK x \in ProvingState : x = proving[s]
    BY <1>1
  <2>2. ASSUME x.does = "upload" PROVE UploadHolds(x)'
    <3>1. UploadHolds(x)
      BY <2>1, <2>2 DEF ProofsInv, RequestsProve
    <3> QED BY <1>1, <1>6, <3>1 DEF UploadHolds
  <2>3. ASSUME x.does = "decide" PROVE DecisionHolds(x)'
    <3>1. DecisionHolds(x) /\ x.order # q.order
      BY <1>3, <1>4, <2>1, <2>3 DEF ProofsInv, RequestsProve, RequestsApart
    <3> QED BY <1>6, <1>9, <3>1 DEF DecisionHolds
  <2> QED BY <1>2, <2>1, <2>2, <2>3 DEF UploadHolds, DecisionHolds
<1>12. RequestsApart'
  BY <1>2 DEF ProofsInv, RequestsApart
<1>13. LateIsDecided'
  BY <1>6, <1>7, <1>8, <1>9 DEF ProofsInv, LateIsDecided
<1>14. \A p \in DOMAIN proofs :
         proofs[p].order = q.order => ~proofs[p].late /\ proofs[p].status = "pending"
  BY <1>7 DEF ProofsInv, LateIsDecided, ProofsFollowDecisions
<1>15. ASSUME NEW p \in DOMAIN proofs
       PROVE  proofs'[p].status =
                IF proofs'[p].late \/ verdict'[proofs'[p].order] = "pending" THEN "pending"
                ELSE ProofVerdict(verdict'[proofs'[p].order])
  <2>1. CASE p \in q.seen
    BY <1>6, <1>7, <1>8, <1>9, <1>14, <2>1
  <2>2. CASE p \notin q.seen /\ proofs[p].order = q.order
    BY <1>6, <1>8, <1>9, <1>14, <2>2
  <2>3. CASE p \notin q.seen /\ proofs[p].order # q.order
    BY <1>6, <1>8, <1>9, <2>3 DEF ProofsInv, ProofsFollowDecisions
  <2> QED BY <2>1, <2>2, <2>3
<1>16. ASSUME NEW o \in DOMAIN ProvenOrders,
              ProvenOrders[o].kind = "transfer", attached'[o] # 0
       PROVE  /\ proofs'[attached'[o]].order = o
              /\ proofs'[attached'[o]].company # ProvenOrders[o].creator
              /\ proofs'[attached'[o]].status = "validated"
  <2>1. CASE o = q.order
    <3>1. /\ attached'[o] = q.proof /\ q.proof \in q.seen /\ q.status = "approved"
          /\ proofs[q.proof].company # ProvenOrders[o].creator
      BY <1>4, <1>9, <1>16, <2>1 DEF DecisionHolds
    <3> QED BY <1>6, <1>7, <2>1, <3>1 DEF ProofVerdict
  <2>2. CASE o # q.order
    <3>1. attached'[o] = attached[o] /\ attached[o] \in DOMAIN proofs
      BY <1>8, <1>9, <1>16, <2>2
    <3>2. /\ proofs[attached[o]].order = o
          /\ proofs[attached[o]].company # ProvenOrders[o].creator
          /\ proofs[attached[o]].status = "validated"
      BY <1>16, <3>1 DEF ProofsInv, ProofsFollowDecisions
    <3>3. attached[o] \notin q.seen
      BY <1>7, <2>2, <3>2
    <3> QED BY <1>6, <3>1, <3>2, <3>3
  <2> QED BY <2>1, <2>2
<1>17. ProofsFollowDecisions'
  BY <1>6, <1>15, <1>16 DEF ProofsFollowDecisions, ProofVerdict
<1> QED BY <1>10, <1>11, <1>12, <1>13, <1>17 DEF ProofsInv

LEMMA ProofsInvNext == ProofsInv /\ [Next]_vars => ProofsInv'
<1> SUFFICES ASSUME ProofsInv, [Next]_vars PROVE ProofsInv'
  OBVIOUS
<1>1. CASE ProofsNext
  BY <1>1, UploadStarts, UploadCommits, VerdictStarts, VerdictCommits, ProvingAborts
     DEF ProofsNext
<1>2. CASE UNCHANGED proofVars
  BY <1>2 DEF proofVars, ProofsInv, ProofsTypeOK, RequestsProve, UploadHolds, DecisionHolds,
              RequestsApart, LateIsDecided, ProofsFollowDecisions
<1>3. ProofsNext \/ UNCHANGED proofVars
  BY DEF Next, ServeSuppliers, ServePrivateRates, ServeProofs, ServeNotifications, vars
<1> QED BY <1>1, <1>2, <1>3

LEMMA ProofsInvHolds == Spec => []ProofsInv
<1>1. Init => ProofsInv
  BY ProofsInvInit DEF Init
<1> QED BY <1>1, ProofsInvNext, PTL DEF Spec

\* A proof has the status of the decision on its order if it was there when the
\* decision went over the proofs, and the proof attached to an approved transfer is one
\* of the transfer's own, of the company that paid, validated, whatever uploads and
\* decisions overlap (set_status_for_transfer and approve_transfer).
THEOREM ProofsAlwaysFollowDecisions == Spec => []ProofsFollowDecisions
BY ProofsInvHolds, PTL DEF ProofsInv

---------------------------------------------------------------------------
(* Private sending rates.                                                  *)

RateRow == [slot : Slot, active : BOOLEAN]

SlotOrNone == Slot \cup {NoSlot}

Changes == {"set", "activate", "deactivate"}

\* A change of rate in progress.
ChangeState ==
  [does : Changes \cup {"nothing"}, subject : SlotOrNone, retired : Nat, rate : Nat,
   overtaken : BOOLEAN]

\* The rows a change names are of its slot.
OfSlot(q, i) == i \in DOMAIN privateRates /\ privateRates[i].slot = q.subject

ChangeHolds(q) ==
  /\ q.does # "nothing" => q.subject \in Slot
  /\ q.retired # 0 => OfSlot(q, q.retired)
  /\ q.rate # 0 => OfSlot(q, q.rate) /\ q.does = "activate" /\ q.rate # q.retired

\* A change that makes a rate active read the one that is active instead, as long as
\* nobody else committed on the slot.
ReadHolds(q) ==
  /\ ~q.overtaken
  /\ q.subject \notin racedSlots
  /\ q.does = "set" \/ q.rate # 0
  => \A i \in ActiveIn(q.subject) : i = q.retired

OneActivePerSlot ==
  \A i, j \in DOMAIN privateRates :
    /\ privateRates[i].active /\ privateRates[j].active
    /\ privateRates[i].slot = privateRates[j].slot
    /\ privateRates[i].slot \notin racedSlots
    => i = j

RatesInv ==
  /\ privateRates \in Seq(RateRow)
  /\ racedSlots \subseteq Slot
  /\ changingRate \in [Requests -> ChangeState]
  /\ \A r \in Requests : ChangeHolds(changingRate[r]) /\ ReadHolds(changingRate[r])
  /\ OneActivePerSlot

LEMMA NotChangingTyped ==
  /\ NotChanging \in ChangeState /\ NotChanging.does = "nothing"
  /\ NotChanging.retired = 0 /\ NotChanging.rate = 0
BY DEF NotChanging, ChangeState, SlotOrNone

LEMMA RatesInvInit == RatesInit => RatesInv
<1> SUFFICES ASSUME RatesInit PROVE RatesInv
  OBVIOUS
<1>1. /\ privateRates \in Seq(RateRow) /\ DOMAIN privateRates = {}
      /\ racedSlots = {}
      /\ changingRate \in [Requests -> ChangeState]
      /\ \A r \in Requests : changingRate[r] = NotChanging
  BY NotChangingTyped DEF RatesInit
<1> QED BY <1>1, NotChangingTyped DEF RatesInv, ChangeHolds, ReadHolds, OneActivePerSlot

\* A request starts a change: it names rows of its slot, as they are now.
LEMMA ChangeOpens ==
  ASSUME RatesInv, NEW r \in Requests, NEW q \in ChangeState,
         changingRate' = [changingRate EXCEPT ![r] = q],
         ChangeHolds(q), ReadHolds(q), UNCHANGED <<privateRates, racedSlots>>
  PROVE  RatesInv'
<1>1. changingRate' \in [Requests -> ChangeState]
  BY DEF RatesInv
<1>2. \A s \in Requests : changingRate'[s] = IF s = r THEN q ELSE changingRate[s]
  BY DEF RatesInv
<1>3. ASSUME NEW s \in Requests
      PROVE  ChangeHolds(changingRate[s])' /\ ReadHolds(changingRate[s])'
  <2>1. CASE s = r
    BY <1>2, <2>1 DEF ChangeHolds, OfSlot, ReadHolds, ActiveIn
  <2>2. CASE s # r
    BY <1>2, <2>2 DEF RatesInv, ChangeHolds, OfSlot, ReadHolds, ActiveIn
  <2> QED BY <2>1, <2>2
<1> QED BY <1>1, <1>3 DEF RatesInv, OneActivePerSlot

LEMMA RateRowTyped ==
  ASSUME RatesInv, NEW i \in DOMAIN privateRates
  PROVE  privateRates[i] \in RateRow /\ privateRates[i].slot \in Slot
<1>1. privateRates[i] \in RateRow
  BY DEF RatesInv
<1> QED BY <1>1 DEF RateRow

\* What OnlyActive finds.
LEMMA OnlyActiveFound ==
  ASSUME RatesInv, NEW slot, NEW i \in 0 .. Len(privateRates), OnlyActive(slot, i)
  PROVE  /\ i \in Nat
         /\ i # 0 => i \in DOMAIN privateRates /\ privateRates[i].slot = slot
         /\ \A j \in ActiveIn(slot) : j = i
<1>1. DOMAIN privateRates = 1 .. Len(privateRates) /\ Len(privateRates) \in Nat
  BY DEF RatesInv
<1>2. i \in Nat
  BY <1>1
<1>3. CASE ActiveIn(slot) = {}
  BY <1>2, <1>3 DEF OnlyActive
<1>4. CASE ActiveIn(slot) # {}
  BY <1>2, <1>4 DEF OnlyActive, ActiveIn
<1> QED BY <1>3, <1>4

LEMMA ResolvedIsSlot == ASSUME NEW b \in RateBodies PROVE Resolved(b) \in Slot
<1>1. b \in Slot
  BY PrivateRatesAssumption
<1>2. CASE b.target = Anything /\ b.partner # Anything
  <2>1. b.partner \in Partners
    BY <1>1, <1>2 DEF Slot
  <2>2. PartnerCurrency[b.partner] \in Targets
    BY <2>1, PrivateRatesAssumption
  <2> QED BY <1>1, <1>2, <2>2 DEF Resolved, Slot
<1>3. CASE ~(b.target = Anything /\ b.partner # Anything)
  BY <1>1, <1>3 DEF Resolved
<1> QED BY <1>2, <1>3

LEMMA SetRateStarts ==
  ASSUME RatesInv, NEW r \in Requests, NEW b \in RateBodies, StartSetRate(r, b)
  PROVE  RatesInv'
<1>1. PICK slot \in Slot : slot = Resolved(b)
  BY ResolvedIsSlot
<1>2. PICK i \in 0 .. Len(privateRates) :
        /\ OnlyActive(slot, i)
        /\ changingRate' = [changingRate EXCEPT ![r] =
             [NotChanging EXCEPT !.does = "set", !.subject = slot, !.retired = i]]
  BY <1>1 DEF StartSetRate
<1> DEFINE q == [NotChanging EXCEPT !.does = "set", !.subject = slot, !.retired = i]
<1>3. /\ i \in Nat
      /\ i # 0 => i \in DOMAIN privateRates /\ privateRates[i].slot = slot
      /\ \A j \in ActiveIn(slot) : j = i
  BY <1>2, OnlyActiveFound
<1>4. q.does = "set" /\ q.subject = slot /\ q.retired = i /\ q.rate = 0
  BY DEF NotChanging
<1>5. q \in ChangeState
  <2>1. slot \in SlotOrNone
    BY DEF SlotOrNone
  <2> QED BY <1>3, <2>1, NotChangingTyped DEF ChangeState, Changes
<1>6. changingRate' = [changingRate EXCEPT ![r] = q] /\ UNCHANGED <<privateRates, racedSlots>>
  BY <1>2 DEF StartSetRate
<1> HIDE DEF q
<1>7. ChangeHolds(q) /\ ReadHolds(q)
  BY <1>3, <1>4 DEF ChangeHolds, ReadHolds, OfSlot
<1> QED BY <1>5, <1>6, <1>7, ChangeOpens

LEMMA ActivationStarts ==
  ASSUME RatesInv, NEW r \in Requests, NEW i \in DOMAIN privateRates, StartActivate(r, i)
  PROVE  RatesInv'
<1>1. PICK slot \in Slot : slot = privateRates[i].slot
  BY RateRowTyped
<1>2. PICK j \in 0 .. Len(privateRates) :
        /\ OnlyActive(slot, j)
        /\ changingRate' = [changingRate EXCEPT ![r] =
             [NotChanging EXCEPT !.does = "activate", !.subject = slot,
                                 !.retired = IF j = i THEN 0 ELSE j,
                                 !.rate = IF privateRates[i].active THEN 0 ELSE i]]
  BY <1>1 DEF StartActivate
<1> DEFINE retired == IF j = i THEN 0 ELSE j
           rate == IF privateRates[i].active THEN 0 ELSE i
           q == [NotChanging EXCEPT !.does = "activate", !.subject = slot,
                                    !.retired = retired, !.rate = rate]
<1>3. /\ j \in Nat
      /\ j # 0 => j \in DOMAIN privateRates /\ privateRates[j].slot = slot
      /\ \A k \in ActiveIn(slot) : k = j
  BY <1>2, OnlyActiveFound
<1>4. i \in Nat /\ i # 0
  BY DEF RatesInv
<1>5. retired \in Nat /\ rate \in Nat
  BY <1>3, <1>4
<1>6. changingRate' = [changingRate EXCEPT ![r] = q] /\ UNCHANGED <<privateRates, racedSlots>>
  BY <1>2 DEF StartActivate
<1>7. /\ retired # 0 => retired = j /\ j # i
      /\ rate # 0 => rate = i /\ ~privateRates[i].active
  OBVIOUS
<1>8. rate # 0 => j # i
  <2>1. j # 0 => j \in ActiveIn(slot)
    BY <1>2, <1>3 DEF OnlyActive
  <2> QED BY <1>4, <1>7, <2>1 DEF ActiveIn
<1> HIDE DEF retired, rate
<1>9. q.does = "activate" /\ q.subject = slot /\ q.retired = retired /\ q.rate = rate
  BY DEF NotChanging
<1>10. q \in ChangeState
  <2>1. slot \in SlotOrNone
    BY DEF SlotOrNone
  <2> QED BY <1>5, <2>1, NotChangingTyped DEF ChangeState, Changes
<1> HIDE DEF q
<1>11. ChangeHolds(q)
  BY <1>1, <1>3, <1>4, <1>7, <1>8, <1>9 DEF ChangeHolds, OfSlot
<1>12. ReadHolds(q)
  BY <1>3, <1>8, <1>9 DEF ReadHolds, retired
<1> QED BY <1>6, <1>10, <1>11, <1>12, ChangeOpens

LEMMA DeactivationStarts ==
  ASSUME RatesInv, NEW r \in Requests, NEW i \in DOMAIN privateRates, StartDeactivate(r, i)
  PROVE  RatesInv'
<1>1. PICK slot \in Slot : slot = privateRates[i].slot
  BY RateRowTyped
<1> DEFINE retired == IF privateRates[i].active THEN i ELSE 0
           q == [NotChanging EXCEPT !.does = "deactivate", !.subject = slot, !.retired = retired]
<1>2. changingRate' = [changingRate EXCEPT ![r] = q] /\ UNCHANGED <<privateRates, racedSlots>>
  BY <1>1 DEF StartDeactivate
<1>3. retired \in Nat /\ (retired # 0 => retired = i)
  BY DEF RatesInv
<1> HIDE DEF retired
<1>4. q.does = "deactivate" /\ q.subject = slot /\ q.retired = retired /\ q.rate = 0
  BY DEF NotChanging
<1>5. q \in ChangeState
  <2>1. slot \in SlotOrNone
    BY DEF SlotOrNone
  <2> QED BY <1>3, <2>1, NotChangingTyped DEF ChangeState, Changes
<1> HIDE DEF q
<1>6. ChangeHolds(q) /\ ReadHolds(q)
  BY <1>1, <1>3, <1>4 DEF ChangeHolds, ReadHolds, OfSlot
<1> QED BY <1>2, <1>5, <1>6, ChangeOpens

LEMMA RateAborts ==
  ASSUME RatesInv, NEW r \in Requests, AbortRate(r)
  PROVE  RatesInv'
<1>1. ChangeHolds(NotChanging) /\ ReadHolds(NotChanging)
  BY NotChangingTyped DEF ChangeHolds, ReadHolds
<1> QED BY <1>1, NotChangingTyped, ChangeOpens DEF AbortRate

\* A change commits: in its slot the row that was to be retired is not active any more,
\* and the one that was to be active is; the rows of other slots are as they were.
LEMMA RateCommitWrites ==
  ASSUME RatesInv, NEW r \in Requests, CommitRate(r), NEW q, q = changingRate[r]
  PROVE  /\ privateRates' \in Seq(RateRow)
         /\ DOMAIN privateRates \subseteq DOMAIN privateRates'
         /\ \A i \in DOMAIN privateRates :
              /\ privateRates'[i].slot = privateRates[i].slot
              /\ i = q.retired => ~privateRates'[i].active
              /\ i # q.retired /\ i # q.rate =>
                   privateRates'[i].active = privateRates[i].active
         /\ q.does # "set" =>
              DOMAIN privateRates' = DOMAIN privateRates /\ Len(privateRates') = Len(privateRates)
         /\ q.does = "set" =>
              /\ q.rate = 0
              /\ Len(privateRates') = Len(privateRates) + 1
              /\ DOMAIN privateRates' = DOMAIN privateRates \cup {Len(privateRates')}
              /\ Len(privateRates') \notin DOMAIN privateRates
              /\ privateRates'[Len(privateRates')].slot = q.subject
              /\ privateRates'[Len(privateRates')].active
<1> DEFINE kept == Retired(q.retired)
<1>1. /\ privateRates \in Seq(RateRow) /\ DOMAIN privateRates = 1 .. Len(privateRates)
      /\ Len(privateRates) \in Nat
      /\ ChangeHolds(q) /\ q.does # "nothing" /\ q \in ChangeState
  BY DEF RatesInv, CommitRate
<1>2. /\ kept \in Seq(RateRow) /\ DOMAIN kept = DOMAIN privateRates
      /\ Len(kept) = Len(privateRates)
      /\ \A i \in DOMAIN privateRates :
           /\ kept[i].slot = privateRates[i].slot
           /\ i = q.retired => ~kept[i].active
           /\ i # q.retired => kept[i] = privateRates[i]
  <2>1. CASE q.retired = 0
    BY <1>1, <2>1 DEF Retired
  <2>2. CASE q.retired # 0
    <3> DEFINE row == [privateRates[q.retired] EXCEPT !.active = FALSE]
    <3>1. q.retired \in DOMAIN privateRates
      BY <1>1, <2>2 DEF ChangeHolds, OfSlot
    <3>2. privateRates[q.retired] \in RateRow
      BY <3>1, RateRowTyped
    <3>3. row \in RateRow /\ row.slot = privateRates[q.retired].slot /\ ~row.active
      BY <3>2 DEF RateRow
    <3>4. kept = [privateRates EXCEPT ![q.retired] = row]
      BY <2>2 DEF Retired
    <3> HIDE DEF row, kept
    <3>5. /\ kept \in Seq(RateRow) /\ DOMAIN kept = DOMAIN privateRates
          /\ \A i \in DOMAIN privateRates :
               kept[i] = IF i = q.retired THEN row ELSE privateRates[i]
      BY <1>1, <3>3, <3>4, SequenceChanged
    <3>6. Len(kept) = Len(privateRates)
      BY <1>1, <3>5
    <3> QED BY <3>3, <3>5, <3>6
  <2> QED BY <2>1, <2>2
<1> HIDE DEF kept
<1>3. CASE q.does = "set"
  <2> DEFINE row == [slot |-> q.subject, active |-> TRUE]
  <2>1. row \in RateRow /\ row.slot = q.subject /\ row.active
    BY <1>1 DEF RateRow, ChangeHolds
  <2>2. q.rate = 0
    BY <1>1, <1>3 DEF ChangeHolds
  <2>3. privateRates' = Append(kept, row)
    BY <1>3, <2>2 DEF CommitRate, kept
  <2> HIDE DEF row
  <2>4. /\ privateRates' \in Seq(RateRow)
        /\ DOMAIN privateRates' = DOMAIN kept \cup {Len(kept) + 1}
        /\ Len(kept) + 1 \notin DOMAIN kept
        /\ \A i \in DOMAIN kept : privateRates'[i] = kept[i]
        /\ privateRates'[Len(kept) + 1] = row
        /\ Len(privateRates') = Len(kept) + 1
    BY <1>2, <2>1, <2>3, SequenceAppended
  <2> QED BY <1>2, <1>3, <2>1, <2>2, <2>4
<1>4. CASE q.does # "set" /\ q.rate # 0
  <2> DEFINE row == [kept[q.rate] EXCEPT !.active = TRUE]
  <2>1. q.rate \in DOMAIN kept /\ q.rate # q.retired
    BY <1>1, <1>2, <1>4 DEF ChangeHolds, OfSlot
  <2>2. kept[q.rate] \in RateRow
    BY <1>2, <2>1
  <2>3. row \in RateRow /\ row.slot = kept[q.rate].slot
    BY <2>2 DEF RateRow
  <2>4. privateRates' = [kept EXCEPT ![q.rate] = row]
    BY <1>4 DEF CommitRate, kept
  <2> HIDE DEF row
  <2>5. /\ privateRates' \in Seq(RateRow) /\ DOMAIN privateRates' = DOMAIN kept
        /\ \A i \in DOMAIN kept : privateRates'[i] = IF i = q.rate THEN row ELSE kept[i]
    BY <1>2, <2>3, <2>4, SequenceChanged
  <2>6. Len(privateRates') = Len(kept)
    BY <1>2, <2>5
  <2> QED BY <1>2, <1>4, <2>1, <2>3, <2>5, <2>6
<1>5. CASE q.does # "set" /\ q.rate = 0
  <2>1. privateRates' = kept
    BY <1>5 DEF CommitRate, kept
  <2> QED BY <1>2, <1>5, <2>1
<1> QED BY <1>3, <1>4, <1>5

\* Once a change is committed that nobody overtook, in a slot that is not raced, only the
\* rate it meant to be active can be.
LEMMA CommitLeavesOne ==
  ASSUME RatesInv, NEW r \in Requests, CommitRate(r), NEW q, q = changingRate[r],
         q.subject \notin racedSlots',
         NEW i \in DOMAIN privateRates', NEW j \in DOMAIN privateRates',
         privateRates'[i].active, privateRates'[j].active,
         privateRates'[i].slot = q.subject, privateRates'[j].slot = q.subject
  PROVE  /\ i = j
         /\ q.does = "set" => i = Len(privateRates')
<1>1. ~q.overtaken /\ q.subject \notin racedSlots
  BY DEF CommitRate, RacedAfter
<1>2. ReadHolds(q) /\ ChangeHolds(q)
  BY DEF RatesInv
<1>3. /\ \A k \in DOMAIN privateRates :
           /\ privateRates'[k].slot = privateRates[k].slot
           /\ k = q.retired => ~privateRates'[k].active
           /\ k # q.retired /\ k # q.rate =>
                privateRates'[k].active = privateRates[k].active
      /\ q.does # "set" => DOMAIN privateRates' = DOMAIN privateRates
      /\ q.does = "set" =>
           DOMAIN privateRates' = DOMAIN privateRates \cup {Len(privateRates')}
  BY RateCommitWrites
<1>4. CASE q.does = "set" \/ q.rate # 0
  <2>1. \A k \in DOMAIN privateRates :
          privateRates[k].active /\ privateRates[k].slot = q.subject => k = q.retired
    BY <1>1, <1>2, <1>4 DEF ReadHolds, ActiveIn
  <2>2. ASSUME NEW k \in DOMAIN privateRates,
               privateRates'[k].active, privateRates'[k].slot = q.subject
        PROVE  k = q.rate /\ q.rate # 0
    <3>1. k # q.retired /\ privateRates[k].slot = q.subject
      BY <1>3, <2>2
    <3>2. k = q.rate
      BY <1>3, <2>1, <2>2, <3>1
    <3>3. k # 0
      BY DEF RatesInv
    <3> QED BY <3>2, <3>3
  <2>3. q.does = "set" => q.rate = 0
    BY <1>2 DEF ChangeHolds
  <2> QED BY <1>3, <1>4, <2>2, <2>3
<1>5. CASE q.does # "set" /\ q.rate = 0
  <2>1. ASSUME NEW k \in DOMAIN privateRates,
               privateRates'[k].active, privateRates'[k].slot = q.subject
        PROVE  privateRates[k].active /\ privateRates[k].slot = q.subject
    <3>1. k # q.retired /\ k # q.rate /\ privateRates[k].slot = q.subject
      BY <1>3, <1>5, <2>1 DEF RatesInv
    <3> QED BY <1>3, <2>1, <3>1
  <2> QED BY <1>1, <1>3, <1>5, <2>1 DEF RatesInv, OneActivePerSlot
<1> QED BY <1>4, <1>5

\* The other slots are as they were.
LEMMA OtherSlotsStay ==
  ASSUME RatesInv, NEW r \in Requests, CommitRate(r), NEW slot, slot # changingRate[r].subject
  PROVE  /\ \A i \in DOMAIN privateRates' :
              privateRates'[i].slot = slot => i \in DOMAIN privateRates
         /\ \A i \in DOMAIN privateRates : privateRates'[i].slot = slot =>
              /\ privateRates[i].slot = slot
              /\ privateRates'[i].active = privateRates[i].active
         /\ racedSlots \subseteq racedSlots'
         /\ slot \in racedSlots' => slot \in racedSlots
<1>1. PICK q \in ChangeState : q = changingRate[r]
  BY DEF RatesInv
<1>2. ChangeHolds(q)
  BY <1>1 DEF RatesInv
<1>3. /\ \A k \in DOMAIN privateRates :
           /\ privateRates'[k].slot = privateRates[k].slot
           /\ k # q.retired /\ k # q.rate =>
                privateRates'[k].active = privateRates[k].active
      /\ q.does # "set" => DOMAIN privateRates' = DOMAIN privateRates
      /\ q.does = "set" =>
           /\ DOMAIN privateRates' = DOMAIN privateRates \cup {Len(privateRates')}
           /\ privateRates'[Len(privateRates')].slot = q.subject
  BY <1>1, RateCommitWrites
<1>4. \A k \in DOMAIN privateRates : k # 0
  BY DEF RatesInv
<1>5. racedSlots' = IF q.overtaken THEN racedSlots \cup {q.subject} ELSE racedSlots
  BY <1>1 DEF CommitRate, RacedAfter
<1> QED BY <1>1, <1>2, <1>3, <1>4, <1>5 DEF ChangeHolds, OfSlot

LEMMA RateCommits ==
  ASSUME RatesInv, NEW r \in Requests, CommitRate(r)
  PROVE  RatesInv'
<1>1. PICK q \in ChangeState : q = changingRate[r]
  BY DEF RatesInv
<1>2. q.does # "nothing" /\ q.subject \in Slot /\ changingRate \in [Requests -> ChangeState]
  BY <1>1 DEF RatesInv, ChangeHolds, CommitRate
<1>3. /\ privateRates' \in Seq(RateRow)
      /\ DOMAIN privateRates \subseteq DOMAIN privateRates'
      /\ \A i \in DOMAIN privateRates : privateRates'[i].slot = privateRates[i].slot
  BY <1>1, RateCommitWrites
<1>4. racedSlots' \subseteq Slot
  BY <1>1, <1>2 DEF RatesInv, CommitRate, RacedAfter
<1>5. \A x \in Requests :
        changingRate'[x] =
          IF x = r THEN NotChanging
          ELSE IF changingRate[x].subject = q.subject
               THEN [changingRate[x] EXCEPT !.overtaken = TRUE] ELSE changingRate[x]
  BY <1>1 DEF CommitRate, AfterCommit
<1>6. ASSUME NEW x \in Requests
      PROVE  changingRate'[x] \in ChangeState
             /\ ChangeHolds(changingRate[x])' /\ ReadHolds(changingRate[x])'
  <2>1. CASE x = r
    <3>1. changingRate'[x] = NotChanging
      BY <1>5, <2>1
    <3> QED BY <3>1, NotChangingTyped DEF ChangeHolds, ReadHolds
  <2>2. CASE x # r /\ changingRate[x].subject = q.subject
    <3>1. PICK z \in ChangeState : z = changingRate[x]
      BY <1>2
    <3> DEFINE y == [z EXCEPT !.overtaken = TRUE]
    <3>2. /\ y \in ChangeState /\ y.overtaken /\ y.does = z.does /\ y.subject = z.subject
          /\ y.retired = z.retired /\ y.rate = z.rate
      BY DEF ChangeState
    <3>3. changingRate'[x] = y
      BY <1>5, <2>2, <3>1
    <3> HIDE DEF y
    <3>4. ChangeHolds(z)
      BY <3>1 DEF RatesInv
    <3> QED BY <1>3, <3>2, <3>3, <3>4 DEF ChangeHolds, OfSlot, ReadHolds
  <2>3. CASE x # r /\ changingRate[x].subject # q.subject
    <3>1. PICK z \in ChangeState : z = changingRate[x]
      BY <1>2
    <3>2. changingRate'[x] = z
      BY <1>5, <2>3, <3>1
    <3>3. ChangeHolds(z) /\ ReadHolds(z)
      BY <3>1 DEF RatesInv
    <3>4. /\ ActiveIn(z.subject)' \subseteq ActiveIn(z.subject)
          /\ racedSlots \subseteq racedSlots'
      BY <1>1, <2>3, <3>1, OtherSlotsStay DEF ActiveIn
    <3>5. ReadHolds(z)'
      BY <3>3, <3>4 DEF ReadHolds
    <3>6. ChangeHolds(z)'
      BY <1>3, <3>3 DEF ChangeHolds, OfSlot
    <3> QED BY <3>2, <3>5, <3>6 DEF ReadHolds, ChangeHolds, OfSlot, ActiveIn
  <2> QED BY <2>1, <2>2, <2>3
<1>7. changingRate' \in [Requests -> ChangeState]
  BY <1>6 DEF CommitRate, AfterCommit
<1>8. OneActivePerSlot'
  <2> SUFFICES ASSUME NEW i \in DOMAIN privateRates', NEW j \in DOMAIN privateRates',
                      privateRates'[i].active, privateRates'[j].active,
                      privateRates'[i].slot = privateRates'[j].slot,
                      privateRates'[i].slot \notin racedSlots'
               PROVE  i = j
    BY DEF OneActivePerSlot
  <2>1. CASE privateRates'[i].slot = q.subject
    BY <1>1, <2>1, CommitLeavesOne
  <2>2. CASE privateRates'[i].slot # q.subject
    <3> DEFINE slot == privateRates'[i].slot
    <3>1. /\ i \in DOMAIN privateRates /\ j \in DOMAIN privateRates
          /\ privateRates[i].slot = slot /\ privateRates[j].slot = slot
          /\ privateRates[i].active /\ privateRates[j].active
          /\ slot \notin racedSlots
      BY <1>1, <2>2, OtherSlotsStay
    <3> QED BY <3>1 DEF RatesInv, OneActivePerSlot
  <2> QED BY <2>1, <2>2
<1> QED BY <1>3, <1>4, <1>6, <1>7, <1>8 DEF RatesInv

LEMMA RatesInvNext == RatesInv /\ [Next]_vars => RatesInv'
<1> SUFFICES ASSUME RatesInv, [Next]_vars PROVE RatesInv'
  OBVIOUS
<1>1. CASE RatesNext
  BY <1>1, SetRateStarts, ActivationStarts, DeactivationStarts, RateCommits, RateAborts
     DEF RatesNext
<1>2. CASE UNCHANGED rateVars
  BY <1>2 DEF rateVars, RatesInv, ChangeHolds, OfSlot, ReadHolds, ActiveIn, OneActivePerSlot
<1>3. RatesNext \/ UNCHANGED rateVars
  BY DEF Next, ServeSuppliers, ServePrivateRates, ServeProofs, ServeNotifications, vars
<1> QED BY <1>1, <1>2, <1>3

LEMMA RatesInvHolds == Spec => []RatesInv
<1>1. Init => RatesInv
  BY RatesInvInit DEF Init
<1> QED BY <1>1, RatesInvNext, PTL DEF Spec

LEMMA SlotsTriedInOrder ==
  ASSUME NEW p, NEW m, NEW t
  PROVE  /\ DOMAIN SlotsTried(p, m, t) = 1 .. 6
         /\ SlotsTried(p, m, t)[1] = [partner |-> p, mode |-> m, target |-> t]
BY DEF SlotsTried

LEMMA OneRateIsTaken == RatesInv => TransfersHaveOneRate
<1> SUFFICES ASSUME RatesInv, NEW p \in Partners, NEW m \in Modes, NEW t \in Targets,
                    NEW tried, tried = SlotsTried(p, m, t),
                    \A n \in DOMAIN tried : tried[n] \notin racedSlots
             PROVE  Cardinality(RatesFor(p, m, t)) <= 1
  BY DEF TransfersHaveOneRate
<1>1. ASSUME NEW i \in RatesFor(p, m, t), NEW j \in RatesFor(p, m, t)
      PROVE  i = j
  <2>1. PICK n \in DOMAIN tried :
          i \in ActiveIn(tried[n]) /\ \A h \in 1 .. n - 1 : ActiveIn(tried[h]) = {}
    BY <1>1 DEF RatesFor
  <2>2. PICK k \in DOMAIN tried :
          j \in ActiveIn(tried[k]) /\ \A h \in 1 .. k - 1 : ActiveIn(tried[h]) = {}
    BY <1>1 DEF RatesFor
  <2>3. n \in 1 .. 6 /\ k \in 1 .. 6
    BY SlotsTriedInOrder
  <2>4. n = k
    BY <2>1, <2>2, <2>3
  <2> QED BY <2>1, <2>2, <2>4 DEF RatesInv, OneActivePerSlot, ActiveIn
<1> QED BY <1>1, OneAtMost

\* One rate applies to a transfer, whatever slots are filled, unless two changes of one of
\* its slots overlapped (create_transfer takes the active rate of the most specific slot).
THEOREM TransfersAlwaysHaveOneRate == Spec => []TransfersHaveOneRate
BY RatesInvHolds, OneRateIsTaken, PTL

LEMMA SetRateTakesEffect ==
  ASSUME RatesInv, NEW r \in Requests, CommitRate(r), NEW p \in Partners, NEW m \in Modes,
         NEW t, t = PartnerCurrency[p], NEW slot, slot = [partner |-> p, mode |-> m, target |-> t],
         NEW new, new = Len(privateRates'), new > Len(privateRates),
         privateRates'[new].slot = slot, slot \notin racedSlots'
  PROVE  RatesFor(p, m, t)' = {new}
<1>1. PICK q \in ChangeState : q = changingRate[r]
  BY DEF RatesInv
<1>2. Len(privateRates) \in Nat
  BY DEF RatesInv
<1>3. q.does = "set"
  BY <1>1, <1>2, RateCommitWrites
<1>4. /\ new \in DOMAIN privateRates' /\ privateRates'[new].active
      /\ privateRates'[new].slot = q.subject
  BY <1>1, <1>3, RateCommitWrites
<1>5. \A i \in DOMAIN privateRates' :
        privateRates'[i].active /\ privateRates'[i].slot = slot => i = new
  BY <1>1, <1>3, <1>4, CommitLeavesOne
<1>6. ActiveIn(slot)' = {new}
  BY <1>4, <1>5 DEF ActiveIn
<1>7. PICK tried : tried = SlotsTried(p, m, t) /\ DOMAIN tried = 1 .. 6 /\ tried[1] = slot
  BY SlotsTriedInOrder
<1>8. {k \in DOMAIN tried : \A j \in 1 .. k - 1 : ActiveIn(tried[j])' = {}} = {1}
  <2>1. \A k \in DOMAIN tried : k # 1 => 1 \in 1 .. k - 1
    BY <1>7
  <2> QED BY <1>6, <1>7, <2>1
<1>9. RatesFor(p, m, t)' =
        UNION {ActiveIn(tried[n])' :
                 n \in {k \in DOMAIN tried : \A j \in 1 .. k - 1 : ActiveIn(tried[j])' = {}}}
  BY <1>7 DEF RatesFor
<1>10. RatesFor(p, m, t)' = UNION {ActiveIn(tried[n])' : n \in {1}}
  BY <1>8, <1>9, Zenon
<1>11. {ActiveIn(tried[n])' : n \in {1}} = {{new}}
  BY <1>6, <1>7
<1>12. UNION {{new}} = {new}
  OBVIOUS
<1> QED BY <1>10, <1>11, <1>12

\* A new rate takes effect: once it is set, a transfer of its slot takes it and no earlier
\* one, unless changes of the slot overlapped (private_rate_service.set_rate).
THEOREM NewRatesAlwaysTakeEffect == Spec => NewRatesTakeEffect
<1> DEFINE TakesEffect ==
      \A p \in Partners, m \in Modes :
        LET slot == [partner |-> p, mode |-> m, target |-> PartnerCurrency[p]]
            new == Len(privateRates')
        IN /\ new > Len(privateRates)
           /\ privateRates'[new].slot = slot
           /\ slot \notin racedSlots'
           => RatesFor(p, m, PartnerCurrency[p])' = {new}
<1>1. RatesInv /\ [Next]_vars => TakesEffect \/ UNCHANGED privateRates
  <2> SUFFICES ASSUME RatesInv, [Next]_vars PROVE TakesEffect \/ UNCHANGED privateRates
    OBVIOUS
  <2>1. ASSUME NEW r \in Requests, CommitRate(r) PROVE TakesEffect
    BY <2>1, SetRateTakesEffect
  <2>2. RatesNext \/ UNCHANGED rateVars
    BY DEF Next, ServeSuppliers, ServePrivateRates, ServeProofs, ServeNotifications, vars
  <2> QED BY <2>1, <2>2 DEF RatesNext, rateVars, StartSetRate, StartActivate, StartDeactivate,
                            AbortRate
<1>2. RatesInv /\ [Next]_vars => [TakesEffect]_privateRates
  BY <1>1
<1> QED BY <1>2, RatesInvHolds, PTL DEF Spec, NewRatesTakeEffect

---------------------------------------------------------------------------
(* Notifications.                                                          *)

SessionState == [stage : {"idle", "open", "committed"}, pending : SUBSET Nat]

\* What a stream got since it was opened, sent or waiting.
Got(l) == heard[l] \o queue[l]

\* The broadcasts set aside are of rows of the transaction, inserted while it is open and
\* committed once it is.
PendingRows ==
  \A r \in Requests :
    /\ notifying[r].stage = "idle" => notifying[r].pending = {}
    /\ \A n \in notifying[r].pending :
         /\ n \in DOMAIN notifications
         /\ notifications[n].stage =
              IF notifying[r].stage = "open" THEN "inserted" ELSE "committed"

\* No row is of two transactions.
PendingApart ==
  \A r, s \in Requests : \A n \in notifying[r].pending : n \in notifying[s].pending => r = s

\* No row is heard before its transaction broadcasts it.
PendingUnheard ==
  \A l \in Streams, r \in Requests :
    \A k \in DOMAIN Got(l) : Got(l)[k] \notin notifying[r].pending

\* What a stream got is committed rows of its company, each once.
HeardRows(l) ==
  /\ \A k \in DOMAIN Got(l) :
       /\ Got(l)[k] \in DOMAIN notifications
       /\ notifications[Got(l)[k]].stage = "committed"
       /\ notifications[Got(l)[k]].company = stream[l]
  /\ \A j, k \in DOMAIN Got(l) : Got(l)[j] = Got(l)[k] => j = k

NotificationsTyped ==
  /\ notifications \in Seq(NotificationRow)
  /\ notifying \in [Requests -> SessionState]
  /\ stream \in [Streams -> Listened \cup {Closed}]
  /\ queue \in [Streams -> Seq(Nat)]
  /\ heard \in [Streams -> Seq(Nat)]

NotificationsInv ==
  /\ NotificationsTyped
  /\ PendingRows
  /\ PendingApart
  /\ PendingUnheard
  /\ \A l \in Streams : HeardRows(l)

LEMMA QuietTyped == Quiet \in SessionState /\ Quiet.stage = "idle" /\ Quiet.pending = {}
BY DEF Quiet, SessionState

LEMMA NothingGot == DOMAIN (<<>> \o <<>>) = {} /\ <<>> \in Seq(Nat)
OBVIOUS

LEMMA NotificationsInvInit == NotificationsInit => NotificationsInv
<1> SUFFICES ASSUME NotificationsInit PROVE NotificationsInv
  OBVIOUS
<1>1. /\ notifications \in Seq(NotificationRow)
      /\ notifying \in [Requests -> SessionState]
      /\ stream \in [Streams -> Listened \cup {Closed}]
      /\ queue \in [Streams -> Seq(Nat)] /\ heard \in [Streams -> Seq(Nat)]
  BY QuietTyped, NothingGot DEF NotificationsInit
<1>2. \A r \in Requests : notifying[r].pending = {}
  BY QuietTyped DEF NotificationsInit
<1>3. \A l \in Streams : DOMAIN Got(l) = {}
  BY NothingGot DEF NotificationsInit, Got
<1> QED BY <1>1, <1>2, <1>3 DEF NotificationsInv, NotificationsTyped, PendingRows, PendingApart,
                                PendingUnheard, HeardRows

\* The pending broadcasts of a company, in order.
LEMMA InOrderLists ==
  ASSUME NEW S, S \subseteq Nat, IsFiniteSet(S)
  PROVE  /\ InOrder(S) \in Seq(S)
         /\ \A j, k \in DOMAIN InOrder(S) : InOrder(S)[j] = InOrder(S)[k] => j = k
<1> DEFINE C == Cardinality(S)
           Upto(n) == {m \in S : m <= n}
           s == InOrder(S)
<1>1. DOMAIN s = 1 .. C /\ s = [k \in 1 .. C |-> s[k]]
  BY DEF InOrder
<1>2. ASSUME NEW k \in 1 .. C PROVE s[k] \in S /\ Cardinality(Upto(s[k])) = k
  <2>1. \E n \in S : Cardinality(Upto(n)) = k
    BY Ranked
  <2>2. s[k] = CHOOSE n \in S : Cardinality(Upto(n)) = k
    BY DEF InOrder
  <2> HIDE DEF s, Upto
  <2> QED BY <2>1, <2>2
<1>3. C \in Nat
  BY FS_CardinalityType
<1> HIDE DEF s, C, Upto
<1>4. s \in [1 .. C -> S]
  BY <1>1, <1>2
<1>5. s \in Seq(S)
  BY <1>3, <1>4, SeqDef
<1>6. \A j, k \in DOMAIN s : s[j] = s[k] => j = k
  BY <1>1, <1>2
<1> QED BY <1>5, <1>6 DEF s

\* The rows once transactions have ended.
LEMMA EndedRows ==
  ASSUME NotificationsTyped, NEW rows, NEW stage \in {"committed", "gone"}
  PROVE  /\ Ended(rows, stage) \in Seq(NotificationRow)
         /\ DOMAIN Ended(rows, stage) = DOMAIN notifications
         /\ \A n \in DOMAIN notifications :
              /\ Ended(rows, stage)[n].company = notifications[n].company
              /\ n \in rows => Ended(rows, stage)[n].stage = stage
              /\ n \notin rows => Ended(rows, stage)[n] = notifications[n]
<1> DEFINE t == Ended(rows, stage)
<1>1. DOMAIN t = DOMAIN notifications /\ t = [n \in DOMAIN t |-> t[n]]
  BY DEF Ended
<1>2. ASSUME NEW n \in DOMAIN notifications
      PROVE  /\ t[n] \in NotificationRow
             /\ t[n].company = notifications[n].company
             /\ n \in rows => t[n].stage = stage
             /\ n \notin rows => t[n] = notifications[n]
  <2>1. notifications[n] \in NotificationRow
    BY DEF NotificationsTyped
  <2>2. CASE n \in rows
    <3>1. t[n] = [notifications[n] EXCEPT !.stage = stage]
      BY <2>2 DEF Ended
    <3> QED BY <2>1, <2>2, <3>1 DEF NotificationRow
  <2>3. CASE n \notin rows
    <3>1. t[n] = notifications[n]
      BY <2>3 DEF Ended
    <3> QED BY <2>1, <2>3, <3>1
  <2> QED BY <2>2, <2>3
<1> HIDE DEF t
<1>3. notifications \in Seq(NotificationRow)
  BY DEF NotificationsTyped
<1>4. t \in Seq(NotificationRow)
  BY <1>1, <1>2, <1>3, SequenceRewritten
<1> QED BY <1>1, <1>2, <1>4 DEF t

LEMMA Notifies ==
  ASSUME NotificationsInv, NEW r \in Requests, NEW c \in Listened, Notify(r, c)
  PROVE  NotificationsInv'
<1>1. NotificationsTyped
  BY DEF NotificationsInv
<1> DEFINE n == Len(notifications) + 1
           row == [company |-> c, stage |-> "inserted", read |-> FALSE]
<1>2. row \in NotificationRow /\ row.stage = "inserted"
  BY DEF NotificationRow
<1>3. notifications' = Append(notifications, row) /\ UNCHANGED <<stream, queue, heard>>
  BY DEF Notify
<1> HIDE DEF row
<1>4. /\ notifications' \in Seq(NotificationRow)
      /\ n \in Nat /\ n \notin DOMAIN notifications
      /\ DOMAIN notifications' = DOMAIN notifications \cup {n}
      /\ \A k \in DOMAIN notifications : notifications'[k] = notifications[k]
      /\ notifications'[n] = row
  BY <1>1, <1>2, <1>3, SequenceAppended DEF NotificationsTyped
<1>5. PICK q \in SessionState : q = notifying[r] /\ q.stage \in {"idle", "open"}
  BY <1>1 DEF NotificationsTyped, Notify
<1> DEFINE s == [q EXCEPT !.stage = "open", !.pending = @ \cup {n}]
<1>6. notifying' = [notifying EXCEPT ![r] = s]
  BY <1>5 DEF Notify
<1> HIDE DEF n
<1>7. s \in SessionState /\ s.stage = "open" /\ s.pending = q.pending \cup {n}
  BY <1>4 DEF SessionState
<1> HIDE DEF s
<1>8. notifying' \in [Requests -> SessionState]
      /\ \A x \in Requests : notifying'[x] = IF x = r THEN s ELSE notifying[x]
  BY <1>1, <1>6, <1>7 DEF NotificationsTyped
<1>9. \A x \in Requests : \A k \in notifying[x].pending : k \in DOMAIN notifications
  BY DEF NotificationsInv, PendingRows
<1>10. NotificationsTyped'
  BY <1>1, <1>3, <1>4, <1>8 DEF NotificationsTyped
<1>11. PendingRows'
  BY <1>2, <1>4, <1>5, <1>7, <1>8 DEF NotificationsInv, PendingRows
<1>12. PendingApart'
  BY <1>4, <1>5, <1>7, <1>8, <1>9 DEF NotificationsInv, PendingApart
<1>13. \A l \in Streams : Got(l)' = Got(l)
  BY <1>3 DEF Got
<1>14. PendingUnheard'
  BY <1>4, <1>5, <1>7, <1>8, <1>13 DEF NotificationsInv, PendingUnheard, HeardRows
<1>15. \A l \in Streams : HeardRows(l)'
  BY <1>3, <1>4, <1>13 DEF NotificationsInv, HeardRows
<1> QED BY <1>10, <1>11, <1>12, <1>14, <1>15 DEF NotificationsInv

\* A transaction ends, committed or rolled back: its own rows change stage.
LEMMA TransactionEnds ==
  ASSUME NotificationsInv, NEW r \in Requests, notifying[r].stage = "open",
         NEW stage \in {"committed", "gone"}, NEW s \in SessionState,
         notifications' = Ended(notifying[r].pending, stage),
         notifying' = [notifying EXCEPT ![r] = s],
         \/ stage = "gone" /\ s = Quiet
         \/ stage = "committed" /\ s.stage = "committed" /\ s.pending = notifying[r].pending,
         UNCHANGED <<stream, queue, heard>>
  PROVE  NotificationsInv'
<1>1. NotificationsTyped
  BY DEF NotificationsInv
<1> DEFINE rows == notifying[r].pending
<1>2. /\ notifications' \in Seq(NotificationRow)
      /\ DOMAIN notifications' = DOMAIN notifications
      /\ \A n \in DOMAIN notifications :
           /\ notifications'[n].company = notifications[n].company
           /\ n \in rows => notifications'[n].stage = stage
           /\ n \notin rows => notifications'[n] = notifications[n]
  BY <1>1, EndedRows
<1>3. notifying' \in [Requests -> SessionState]
      /\ \A x \in Requests : notifying'[x] = IF x = r THEN s ELSE notifying[x]
  BY <1>1 DEF NotificationsTyped
<1>4. s.pending \subseteq rows /\ (s.stage = "idle" => s.pending = {})
      /\ (s.pending # {} => s.stage = "committed" /\ stage = "committed")
  BY QuietTyped
<1>5. NotificationsTyped'
  BY <1>1, <1>2, <1>3 DEF NotificationsTyped
<1>6. PendingRows'
  <2> SUFFICES ASSUME NEW x \in Requests
               PROVE  /\ notifying'[x].stage = "idle" => notifying'[x].pending = {}
                      /\ \A n \in notifying'[x].pending :
                           /\ n \in DOMAIN notifications'
                           /\ notifications'[n].stage =
                                IF notifying'[x].stage = "open" THEN "inserted" ELSE "committed"
    BY DEF PendingRows
  <2>1. CASE x = r
    BY <1>2, <1>3, <1>4, <2>1 DEF NotificationsInv, PendingRows
  <2>2. CASE x # r
    <3>1. \A n \in notifying[x].pending : n \notin rows
      BY <2>2 DEF NotificationsInv, PendingApart
    <3> QED BY <1>2, <1>3, <2>2, <3>1 DEF NotificationsInv, PendingRows
  <2> QED BY <2>1, <2>2
<1>7. PendingApart'
  BY <1>3, <1>4 DEF NotificationsInv, PendingApart
<1>8. \A l \in Streams : Got(l)' = Got(l)
  BY DEF Got
<1>9. PendingUnheard'
  BY <1>3, <1>4, <1>8 DEF NotificationsInv, PendingUnheard
<1>10. \A l \in Streams : HeardRows(l)'
  <2>1. \A l \in Streams : \A k \in DOMAIN Got(l) : Got(l)[k] \notin rows
    BY DEF NotificationsInv, PendingUnheard
  <2> QED BY <1>2, <1>8, <2>1 DEF NotificationsInv, HeardRows
<1> QED BY <1>5, <1>6, <1>7, <1>9, <1>10 DEF NotificationsInv

LEMMA CommitsNotifications ==
  ASSUME NotificationsInv, NEW r \in Requests, CommitNotifications(r)
  PROVE  NotificationsInv'
<1>1. PICK q \in SessionState : q = notifying[r]
  BY DEF NotificationsInv, NotificationsTyped
<1> DEFINE s == [q EXCEPT !.stage = "committed"]
<1>2. s \in SessionState /\ s.stage = "committed" /\ s.pending = q.pending
  BY DEF SessionState
<1>3. notifying' = [notifying EXCEPT ![r] = s]
  BY <1>1 DEF CommitNotifications
<1> HIDE DEF s
<1> QED BY <1>1, <1>2, <1>3, TransactionEnds DEF CommitNotifications

LEMMA RollsBack ==
  ASSUME NotificationsInv, NEW r \in Requests, RollBack(r)
  PROVE  NotificationsInv'
BY QuietTyped, TransactionEnds DEF RollBack, DiscardedAfterRollback

LEMMA NumbersJoined ==
  ASSUME NEW a \in Seq(Nat), NEW b \in Seq(Nat), NEW c \in Seq(Nat)
  PROVE  (a \o b) \o c = a \o (b \o c)
BY ConcatAssociative

\* What is broadcast to a stream: rows of the transaction, of the stream's company.
LEMMA PublishedRows ==
  ASSUME NotificationsInv, NEW r \in Requests, NEW l \in Streams
  PROVE  /\ Published(r)[l] \subseteq Nat /\ IsFiniteSet(Published(r)[l])
         /\ \A n \in Published(r)[l] :
              n \in notifying[r].pending /\ notifications[n].company = stream[l]
<1>1. Published(r)[l] \subseteq PendingFor(r, stream[l])
  BY DEF Published
<1>2. Published(r)[l] \in SUBSET (1 .. Len(notifications)) /\ Len(notifications) \in Nat
  <2>1. DOMAIN notifications = 1 .. Len(notifications) /\ Len(notifications) \in Nat
    BY DEF NotificationsInv, NotificationsTyped
  <2> QED BY <1>1, <2>1 DEF PendingFor, NotificationsInv, PendingRows
<1>3. IsFiniteSet(Published(r)[l])
  <2>1. IsFiniteSet(1 .. Len(notifications))
    BY <1>2, FS_Interval
  <2> QED BY <1>2, <2>1, FS_Subset
<1> QED BY <1>1, <1>2, <1>3 DEF PendingFor

LEMMA Broadcasts ==
  ASSUME NotificationsInv, NEW r \in Requests, BroadcastAfterCommit(r)
  PROVE  NotificationsInv'
<1>1. NotificationsTyped
  BY DEF NotificationsInv
<1>2. /\ queue' = [l \in Streams |-> queue[l] \o InOrder(Published(r)[l])]
      /\ notifying' = [notifying EXCEPT ![r] = Quiet]
      /\ notifying[r].stage = "committed"
      /\ UNCHANGED <<notifications, stream, heard>>
  BY DEF BroadcastAfterCommit
<1>3. notifying' \in [Requests -> SessionState]
      /\ \A x \in Requests : notifying'[x] = IF x = r THEN Quiet ELSE notifying[x]
  BY <1>1, <1>2, QuietTyped DEF NotificationsTyped
<1>4. ASSUME NEW l \in Streams
      PROVE  /\ queue'[l] \in Seq(Nat)
             /\ \A k \in DOMAIN Got(l)' :
                  \/ k \in DOMAIN Got(l) /\ Got(l)'[k] = Got(l)[k]
                  \/ k \notin DOMAIN Got(l) /\ Got(l)'[k] \in Published(r)[l]
             /\ \A j, k \in DOMAIN Got(l)' :
                  j \notin DOMAIN Got(l) /\ k \notin DOMAIN Got(l) /\ Got(l)'[j] = Got(l)'[k]
                  => j = k
  <2> DEFINE new == InOrder(Published(r)[l])
             got == Got(l)
  <2>1. /\ new \in Seq(Published(r)[l])
        /\ \A j, k \in DOMAIN new : new[j] = new[k] => j = k
    BY PublishedRows, InOrderLists
  <2>2. new \in Seq(Nat) /\ \A k \in DOMAIN new : new[k] \in Published(r)[l]
    BY <2>1, PublishedRows, SeqMonotonic
  <2>3. queue[l] \in Seq(Nat) /\ heard[l] \in Seq(Nat) /\ got \in Seq(Nat)
    BY <1>1 DEF NotificationsTyped, Got
  <2>4. queue'[l] = queue[l] \o new
    BY <1>2
  <2>5. Got(l)' = heard[l] \o (queue[l] \o new)
    BY <1>2, <2>4 DEF Got
  <2> HIDE DEF new, got
  <2>6. Got(l)' = got \o new
    <3>1. (heard[l] \o queue[l]) \o new = heard[l] \o (queue[l] \o new)
      BY <2>2, <2>3, NumbersJoined
    <3> QED BY <2>5, <3>1 DEF Got, got
  <2>7. /\ Len(got \o new) = Len(got) + Len(new)
        /\ DOMAIN got = 1 .. Len(got) /\ DOMAIN new = 1 .. Len(new)
        /\ DOMAIN (got \o new) = 1 .. Len(got) + Len(new)
        /\ Len(got) \in Nat /\ Len(new) \in Nat
        /\ \A k \in 1 .. Len(got) + Len(new) :
             (got \o new)[k] = IF k <= Len(got) THEN got[k] ELSE new[k - Len(got)]
    BY <2>2, <2>3, ConcatProperties
  <2>8. ASSUME NEW k \in DOMAIN (got \o new)
        PROVE  \/ k \in DOMAIN got /\ (got \o new)[k] = got[k]
               \/ /\ k \notin DOMAIN got /\ k - Len(got) \in DOMAIN new
                  /\ (got \o new)[k] = new[k - Len(got)]
    BY <2>7
  <2>9. \A j, k \in DOMAIN (got \o new) :
          j \notin DOMAIN got /\ k \notin DOMAIN got /\ (got \o new)[j] = (got \o new)[k] => j = k
    <3> SUFFICES ASSUME NEW j \in DOMAIN (got \o new), NEW k \in DOMAIN (got \o new),
                        j \notin DOMAIN got, k \notin DOMAIN got,
                        (got \o new)[j] = (got \o new)[k]
                 PROVE  j = k
      OBVIOUS
    <3>1. j - Len(got) = k - Len(got)
      BY <2>1, <2>8 DEF new
    <3> QED BY <2>7, <3>1
  <2>10. queue'[l] \in Seq(Nat)
    BY <2>2, <2>3, <2>4, ConcatProperties
  <2> QED BY <2>2, <2>6, <2>8, <2>9, <2>10 DEF got
<1>5. NotificationsTyped'
  <2>1. queue' \in [Streams -> Seq(Nat)]
    BY <1>2, <1>4
  <2> QED BY <1>1, <1>2, <1>3, <2>1 DEF NotificationsTyped
<1>6. PendingRows' /\ PendingApart'
  BY <1>2, <1>3, QuietTyped DEF NotificationsInv, PendingRows, PendingApart
<1>7. PendingUnheard'
  <2> SUFFICES ASSUME NEW l \in Streams, NEW x \in Requests, x # r, NEW k \in DOMAIN Got(l)'
               PROVE  Got(l)'[k] \notin notifying[x].pending
    BY <1>3, QuietTyped DEF PendingUnheard
  <2>1. CASE k \in DOMAIN Got(l) /\ Got(l)'[k] = Got(l)[k]
    BY <2>1 DEF NotificationsInv, PendingUnheard
  <2>2. CASE Got(l)'[k] \in Published(r)[l]
    BY <2>2, PublishedRows DEF NotificationsInv, PendingApart
  <2> QED BY <1>4, <2>1, <2>2
<1>8. ASSUME NEW l \in Streams PROVE HeardRows(l)'
  <2>1. ASSUME NEW k \in DOMAIN Got(l)'
        PROVE  /\ Got(l)'[k] \in DOMAIN notifications
               /\ notifications[Got(l)'[k]].stage = "committed"
               /\ notifications[Got(l)'[k]].company = stream[l]
    <3>1. CASE k \in DOMAIN Got(l) /\ Got(l)'[k] = Got(l)[k]
      BY <3>1 DEF NotificationsInv, HeardRows
    <3>2. CASE Got(l)'[k] \in Published(r)[l]
      BY <1>2, <3>2, PublishedRows DEF NotificationsInv, PendingRows
    <3> QED BY <1>4, <3>1, <3>2
  <2>2. ASSUME NEW j \in DOMAIN Got(l)', NEW k \in DOMAIN Got(l)', Got(l)'[j] = Got(l)'[k]
        PROVE  j = k
    <3>1. CASE j \in DOMAIN Got(l) /\ k \in DOMAIN Got(l)
      BY <1>4, <2>2, <3>1 DEF NotificationsInv, HeardRows
    <3>2. CASE j \notin DOMAIN Got(l) /\ k \notin DOMAIN Got(l)
      BY <1>4, <2>2, <3>2
    <3>3. \A n \in Published(r)[l] : n \in notifying[r].pending
      BY PublishedRows
    <3>4. \A h \in DOMAIN Got(l) : Got(l)[h] \notin notifying[r].pending
      BY DEF NotificationsInv, PendingUnheard
    <3> QED BY <1>4, <2>2, <3>1, <3>2, <3>3, <3>4
  <2> QED BY <1>2, <2>1, <2>2 DEF HeardRows
<1> QED BY <1>5, <1>6, <1>7, <1>8 DEF NotificationsInv

\* A step of the streams that leaves each with what it got, or with nothing.
LEMMA StreamsStep ==
  ASSUME NotificationsInv, UNCHANGED <<notifications, notifying>>,
         stream' \in [Streams -> Listened \cup {Closed}],
         queue' \in [Streams -> Seq(Nat)], heard' \in [Streams -> Seq(Nat)],
         \A l \in Streams :
           \/ DOMAIN Got(l)' = {}
           \/ Got(l)' = Got(l) /\ stream'[l] = stream[l]
  PROVE  NotificationsInv'
<1>1. NotificationsTyped'
  BY DEF NotificationsInv, NotificationsTyped
<1>2. PendingRows' /\ PendingApart'
  BY DEF NotificationsInv, PendingRows, PendingApart
<1>3. PendingUnheard'
  BY DEF NotificationsInv, PendingUnheard
<1>4. ASSUME NEW l \in Streams PROVE HeardRows(l)'
  <2>1. HeardRows(l)
    BY DEF NotificationsInv
  <2>2. CASE DOMAIN Got(l)' = {}
    BY <2>2 DEF HeardRows
  <2>3. CASE Got(l)' = Got(l) /\ stream'[l] = stream[l]
    BY <2>1, <2>3 DEF HeardRows
  <2> QED BY <2>2, <2>3
<1> QED BY <1>1, <1>2, <1>3, <1>4 DEF NotificationsInv

LEMMA Subscribes ==
  ASSUME NotificationsInv, NEW l \in Streams, NEW c \in Listened, Subscribe(l, c)
  PROVE  NotificationsInv'
<1>1. NotificationsTyped
  BY DEF NotificationsInv
<1>2. /\ stream[l] = Closed /\ stream' = [stream EXCEPT ![l] = c]
      /\ UNCHANGED <<notifications, notifying, queue, heard>>
  BY DEF Subscribe
<1>3. stream' \in [Streams -> Listened \cup {Closed}]
      /\ \A x \in Streams : x # l => stream'[x] = stream[x]
  BY <1>1, <1>2 DEF NotificationsTyped
<1>4. \A x \in Streams : Got(x)' = Got(x)
  BY <1>2 DEF Got
<1>5. DOMAIN Got(l) = {}
  <2> SUFFICES ASSUME NEW k \in DOMAIN Got(l) PROVE FALSE
    OBVIOUS
  <2>1. /\ Got(l)[k] \in DOMAIN notifications
        /\ notifications[Got(l)[k]].company = Closed
    BY <1>2 DEF NotificationsInv, HeardRows
  <2>2. notifications[Got(l)[k]] \in NotificationRow
    BY <1>1, <2>1 DEF NotificationsTyped
  <2> QED BY <2>1, <2>2, NotificationsAssumption DEF NotificationRow
<1>6. queue' \in [Streams -> Seq(Nat)] /\ heard' \in [Streams -> Seq(Nat)]
  BY <1>1, <1>2 DEF NotificationsTyped
<1> QED BY <1>2, <1>3, <1>4, <1>5, <1>6, StreamsStep

LEMMA Unsubscribes ==
  ASSUME NotificationsInv, NEW l \in Streams, Unsubscribe(l)
  PROVE  NotificationsInv'
<1>1. NotificationsTyped
  BY DEF NotificationsInv
<1>2. /\ stream' = [stream EXCEPT ![l] = Closed]
      /\ queue' = [queue EXCEPT ![l] = <<>>] /\ heard' = [heard EXCEPT ![l] = <<>>]
      /\ UNCHANGED <<notifications, notifying>>
  BY DEF Unsubscribe
<1>3. /\ stream' \in [Streams -> Listened \cup {Closed}]
      /\ queue' \in [Streams -> Seq(Nat)] /\ heard' \in [Streams -> Seq(Nat)]
      /\ heard'[l] = <<>> /\ queue'[l] = <<>>
      /\ \A x \in Streams : x # l => /\ stream'[x] = stream[x]
                                     /\ queue'[x] = queue[x] /\ heard'[x] = heard[x]
  BY <1>1, <1>2, NothingGot DEF NotificationsTyped
<1>4. DOMAIN Got(l)' = {} /\ \A x \in Streams : x # l => Got(x)' = Got(x)
  BY <1>3, NothingGot DEF Got
<1> QED BY <1>2, <1>3, <1>4, StreamsStep

LEMMA Delivers ==
  ASSUME NotificationsInv, NEW l \in Streams, Deliver(l)
  PROVE  NotificationsInv'
<1>1. NotificationsTyped
  BY DEF NotificationsInv
<1>2. PICK a \in Seq(Nat), b \in Seq(Nat) : a = heard[l] /\ b = queue[l]
  BY <1>1 DEF NotificationsTyped
<1>3. /\ b # <<>>
      /\ heard' = [heard EXCEPT ![l] = Append(a, Head(b))]
      /\ queue' = [queue EXCEPT ![l] = Tail(b)]
      /\ UNCHANGED <<notifications, notifying, stream>>
  BY <1>2 DEF Deliver
<1>4. Tail(b) \in Seq(Nat) /\ Append(a, Head(b)) \in Seq(Nat)
  BY <1>3
<1>5. Append(a, Head(b)) \o Tail(b) = a \o b
  BY <1>3, HeadMoved
<1>6. /\ queue' \in [Streams -> Seq(Nat)] /\ heard' \in [Streams -> Seq(Nat)]
      /\ heard'[l] = Append(a, Head(b)) /\ queue'[l] = Tail(b)
      /\ \A x \in Streams : x # l => queue'[x] = queue[x] /\ heard'[x] = heard[x]
  BY <1>1, <1>3, <1>4 DEF NotificationsTyped
<1>7. \A x \in Streams : Got(x)' = Got(x)
  BY <1>2, <1>5, <1>6 DEF Got
<1>8. stream' \in [Streams -> Listened \cup {Closed}] /\ stream' = stream
  BY <1>1, <1>3 DEF NotificationsTyped
<1> QED BY <1>3, <1>6, <1>7, <1>8, StreamsStep

LEMMA MarksAsRead ==
  ASSUME NotificationsInv, NEW c \in Listened, NEW n \in DOMAIN notifications, MarkAsRead(c, n)
  PROVE  NotificationsInv'
<1>1. NotificationsTyped
  BY DEF NotificationsInv
<1> DEFINE row == [notifications[n] EXCEPT !.read = TRUE]
<1>2. notifications' = [notifications EXCEPT ![n] = row]
      /\ UNCHANGED <<notifying, stream, queue, heard>>
  BY DEF MarkAsRead
<1>3. /\ row \in NotificationRow
      /\ row.stage = notifications[n].stage /\ row.company = notifications[n].company
  <2>1. notifications[n] \in NotificationRow
    BY <1>1 DEF NotificationsTyped
  <2> QED BY <2>1 DEF NotificationRow
<1> HIDE DEF row
<1>4. /\ notifications' \in Seq(NotificationRow)
      /\ DOMAIN notifications' = DOMAIN notifications
      /\ \A k \in DOMAIN notifications :
           /\ notifications'[k].stage = notifications[k].stage
           /\ notifications'[k].company = notifications[k].company
  BY <1>1, <1>2, <1>3, SequenceChanged DEF NotificationsTyped
<1>5. \A l \in Streams : Got(l)' = Got(l)
  BY <1>2 DEF Got
<1>6. NotificationsTyped'
  BY <1>1, <1>2, <1>4 DEF NotificationsTyped
<1>7. PendingRows' /\ PendingApart'
  BY <1>2, <1>4 DEF NotificationsInv, PendingRows, PendingApart
<1>8. PendingUnheard'
  BY <1>2, <1>5 DEF NotificationsInv, PendingUnheard
<1>9. \A l \in Streams : HeardRows(l)'
  BY <1>2, <1>4, <1>5 DEF NotificationsInv, HeardRows
<1> QED BY <1>6, <1>7, <1>8, <1>9 DEF NotificationsInv

LEMMA Crashes == ASSUME NotificationsInv, Crash PROVE NotificationsInv'
<1>1. NotificationsTyped
  BY DEF NotificationsInv
<1>2. notifications' \in Seq(NotificationRow)
  BY <1>1, EndedRows DEF Crash
<1>3. /\ notifying' \in [Requests -> SessionState]
      /\ \A r \in Requests : notifying'[r].pending = {}
      /\ stream' \in [Streams -> Listened \cup {Closed}]
      /\ queue' \in [Streams -> Seq(Nat)] /\ heard' \in [Streams -> Seq(Nat)]
  BY QuietTyped, NothingGot DEF Crash
<1>4. \A l \in Streams : DOMAIN Got(l)' = {}
  BY NothingGot DEF Crash, Got
<1>5. NotificationsTyped'
  BY <1>2, <1>3 DEF NotificationsTyped
<1>6. PendingRows' /\ PendingApart' /\ PendingUnheard' /\ \A l \in Streams : HeardRows(l)'
  BY <1>3, <1>4 DEF PendingRows, PendingApart, PendingUnheard, HeardRows
<1> QED BY <1>5, <1>6 DEF NotificationsInv

LEMMA NotificationsInvNext == NotificationsInv /\ [Next]_vars => NotificationsInv'
<1> SUFFICES ASSUME NotificationsInv, [Next]_vars PROVE NotificationsInv'
  OBVIOUS
<1>1. CASE NotificationsNext
  <2>1. CASE \E r \in Requests, c \in Listened : Notify(r, c)
    BY <2>1, Notifies
  <2>2. CASE \E r \in Requests :
               CommitNotifications(r) \/ BroadcastAfterCommit(r) \/ RollBack(r)
    BY <2>2, CommitsNotifications, Broadcasts, RollsBack
  <2>3. CASE \E l \in Streams, c \in Listened : Subscribe(l, c)
    BY <2>3, Subscribes
  <2>4. CASE \E l \in Streams : Deliver(l) \/ Unsubscribe(l)
    BY <2>4, Delivers, Unsubscribes
  <2>5. CASE \E c \in Listened, n \in DOMAIN notifications : MarkAsRead(c, n)
    BY <2>5, MarksAsRead
  <2>6. CASE Crash
    BY <2>6, Crashes
  <2> QED BY <1>1, <2>1, <2>2, <2>3, <2>4, <2>5, <2>6 DEF NotificationsNext
<1>2. CASE UNCHANGED notificationVars
  <2>1. /\ UNCHANGED <<notifications, notifying, stream, queue, heard>>
        /\ \A l \in Streams : Got(l)' = Got(l)
    BY <1>2 DEF notificationVars, Got
  <2>2. stream' \in [Streams -> Listened \cup {Closed}]
        /\ queue' \in [Streams -> Seq(Nat)] /\ heard' \in [Streams -> Seq(Nat)]
    BY <2>1 DEF NotificationsInv, NotificationsTyped
  <2> QED BY <2>1, <2>2, StreamsStep
<1>3. NotificationsNext \/ UNCHANGED notificationVars
  BY DEF Next, ServeSuppliers, ServePrivateRates, ServeProofs, ServeNotifications, vars
<1> QED BY <1>1, <1>2, <1>3

LEMMA NotificationsInvHolds == Spec => []NotificationsInv
<1>1. Init => NotificationsInv
  BY NotificationsInvInit DEF Init
<1> QED BY <1>1, NotificationsInvNext, PTL DEF Spec

\* What a stream gets is committed rows of its own company, each once, whatever
\* transactions are rolled back, streams closed and processes restarted
\* (_broadcast_after_commit, _discard_pending_after_rollback).
THEOREM NothingPhantomIsHeard == Spec => []NothingPhantomHeard
<1>1. NotificationsInv => NothingPhantomHeard
  BY DEF NotificationsInv, HeardRows, Got, NothingPhantomHeard
<1> QED BY <1>1, NotificationsInvHolds, PTL

---------------------------------------------------------------------------
(* Suppliers.                                                              *)

SupplierOrNone == Codes \cup {"none"}

BodyOrNone == Rebalances \cup {{}}

\* A rebalancing in progress.
RebalanceState ==
  [stage : {"idle", "reading", "writing"}, subject : SupplierOrNone, body : BodyOrNone, seen : Int,
   row : WalletRow, reference : Nat, overtaken : BOOLEAN]

\* The supplier was read as it still is, unless another rebalancing of it committed; the
\* wallet, once locked, is the row that was read.
RebalanceHolds(q) ==
  /\ q.stage # "idle" =>
       /\ q.body \in Rebalances
       /\ q.subject = q.body.supplier
       /\ supplier[q.subject].known
       /\ ~q.overtaken => q.seen = supplier[q.subject].balance
  /\ q.stage = "writing" =>
       /\ q.row = supplierWallet[q.body.wallet]
       /\ CanApply(q.row, Exact(Quantize(Signed(q.body))))

\* The lock: no two rebalancings write one wallet.
WritersApart ==
  \A r, s \in Requests :
    /\ rebalancing[r].stage = "writing" /\ rebalancing[s].stage = "writing"
    /\ rebalancing[r].body.wallet = rebalancing[s].body.wallet
    => r = s

SuppliersTyped ==
  /\ supplier \in [Codes -> SupplierRow]
  /\ supplierWallet \in [Wallets -> WalletRow]
  /\ movedElsewhere \in [Wallets -> Elsewhere]
  /\ supplierMovements \in Seq(SupplierMovement)
  /\ rebalancing \in [Requests -> RebalanceState]
  /\ racedSuppliers \subseteq Codes

MovedIsKnown == \A i \in DOMAIN supplierMovements : supplier[supplierMovements[i].supplier].known

SuppliersInv ==
  /\ SuppliersTyped
  /\ \A r \in Requests : RebalanceHolds(rebalancing[r])
  /\ WritersApart
  /\ MovedIsKnown
  /\ SupplierBalanceIsExplained
  /\ WalletsFollowRebalances

LEMMA NotRebalancingTyped == NotRebalancing \in RebalanceState /\ NotRebalancing.stage = "idle"
BY DEF NotRebalancing, RebalanceState, SupplierOrNone, BodyOrNone, NoWallet, WalletRow, Statuses

\* The amount a rebalancing moves is rounded to the cent, whatever its direction.
LEMMA SignedRounds ==
  ASSUME NEW b \in Rebalance
  PROVE  /\ Signed(b) \in Int
         /\ Quantize(b.amount) \in Nat
         /\ Quantize(Signed(b)) \in Int
         /\ Quantize(Signed(b)) = IF b.type = "debt" THEN Quantize(b.amount)
                                  ELSE -Quantize(b.amount)
<1>1. b.amount \in Nat
  BY DEF Rebalance
<1>2. Quantize(b.amount) \in Nat /\ Quantize(-b.amount) = -Quantize(b.amount)
  BY <1>1, QuantizeInt, QuantizeOdd
<1> QED BY <1>1, <1>2 DEF Signed

LEMMA SignedMovement == ASSUME NEW m \in SupplierMovement PROVE Signed(m) \in Int
BY DEF Signed, SupplierMovement

\* What the movements are summed over.
Brought(movements) == [i \in DOMAIN movements |-> Signed(movements[i])]

LEMMA MovementAppended ==
  ASSUME SuppliersTyped, NEW m \in SupplierMovement,
         supplierMovements' = Append(supplierMovements, m)
  PROVE  /\ \A s \in Codes :
              /\ MovementsOf(WithSupplier(s)) \in Int
              /\ MovementsOf(WithSupplier(s))' =
                   MovementsOf(WithSupplier(s)) + IF s = m.supplier THEN Signed(m) ELSE 0
         /\ \A w \in Wallets :
              /\ MovementsOf(OnWallet(w)) \in Int
              /\ MovementsOf(OnWallet(w))' =
                   MovementsOf(OnWallet(w)) + IF w = m.wallet THEN Signed(m) ELSE 0
<1> DEFINE n == Len(supplierMovements)
           f == Brought(supplierMovements)
           e == Brought(supplierMovements')
<1>1. /\ n \in Nat /\ DOMAIN supplierMovements = 1 .. n
      /\ DOMAIN supplierMovements' = (1 .. n) \cup {n + 1} /\ n + 1 \notin 1 .. n
      /\ \A i \in 1 .. n : supplierMovements'[i] = supplierMovements[i]
      /\ supplierMovements'[n + 1] = m
  BY SequenceAppended DEF SuppliersTyped
<1>2. \A i \in 1 .. n : supplierMovements[i] \in SupplierMovement
  BY <1>1 DEF SuppliersTyped
<1>3. NumbersOn(f, 1 .. n) /\ SameOn(f, e, 1 .. n) /\ e[n + 1] = Signed(m) /\ e[n + 1] \in Int
  <2>1. \A i \in 1 .. n : f[i] = Signed(supplierMovements[i]) /\ e[i] = f[i]
    BY <1>1 DEF Brought
  <2>2. e[n + 1] = Signed(m)
    BY <1>1 DEF Brought
  <2> HIDE DEF f, e
  <2> QED BY <1>2, <2>1, <2>2, SignedMovement DEF NumbersOn, SameOn
<1>4. /\ \A D : MovementsOf(D) = SumFunctionOnSet(f, D)
      /\ \A s : MovementsOf(WithSupplier(s))' = SumFunctionOnSet(e, WithSupplier(s)')
      /\ \A w : MovementsOf(OnWallet(w))' = SumFunctionOnSet(e, OnWallet(w)')
  BY DEF MovementsOf, Brought
<1>5. ASSUME NEW D \in SUBSET (1 .. n)
      PROVE  /\ SumFunctionOnSet(f, D) \in Int
             /\ SumFunctionOnSet(e, D) = SumFunctionOnSet(f, D)
             /\ SumFunctionOnSet(e, D \cup {n + 1}) = SumFunctionOnSet(f, D) + Signed(m)
  <2> HIDE DEF n, f, e
  <2> DEFINE S == 1 .. n
             x == n + 1
  <2>1. /\ IsFiniteSet(S) /\ D \in SUBSET S /\ x \notin S
        /\ NumbersOn(f, S) /\ SameOn(f, e, S) /\ e[x] \in Int
    BY <1>1, <1>3, FS_Interval
  <2>2. /\ SumFunctionOnSet(e, D \cup {x}) = SumFunctionOnSet(f, D) + e[x]
        /\ SumFunctionOnSet(f, D) \in Int /\ SumFunctionOnSet(e, D) = SumFunctionOnSet(f, D)
    <3> HIDE DEF S, x
    <3> QED BY <2>1, SumGrown
  <2> QED BY <1>3, <2>2
<1>6. ASSUME NEW s \in Codes
      PROVE  /\ WithSupplier(s) \in SUBSET (1 .. n)
             /\ WithSupplier(s)' = IF s = m.supplier THEN WithSupplier(s) \cup {n + 1}
                                   ELSE WithSupplier(s)
  BY <1>1 DEF WithSupplier
<1>7. ASSUME NEW w \in Wallets
      PROVE  /\ OnWallet(w) \in SUBSET (1 .. n)
             /\ OnWallet(w)' = IF w = m.wallet THEN OnWallet(w) \cup {n + 1} ELSE OnWallet(w)
  BY <1>1 DEF OnWallet
<1> HIDE DEF n, f, e
<1>8. ASSUME NEW s \in Codes
      PROVE  /\ MovementsOf(WithSupplier(s)) \in Int
             /\ MovementsOf(WithSupplier(s))' =
                  MovementsOf(WithSupplier(s)) + IF s = m.supplier THEN Signed(m) ELSE 0
  <2>1. PICK D \in SUBSET (1 .. n), E \in {WithSupplier(s)'} :
          D = WithSupplier(s) /\ E = IF s = m.supplier THEN D \cup {n + 1} ELSE D
    BY <1>6
  <2>2. MovementsOf(WithSupplier(s)) = SumFunctionOnSet(f, D)
        /\ MovementsOf(WithSupplier(s))' = SumFunctionOnSet(e, E)
    BY <1>4, <2>1
  <2>3. SumFunctionOnSet(f, D) \in Int
    BY <1>5
  <2>4. SumFunctionOnSet(e, E) = SumFunctionOnSet(f, D) + IF s = m.supplier THEN Signed(m) ELSE 0
    <3>1. CASE s = m.supplier
      BY <1>5, <2>1, <3>1
    <3>2. CASE s # m.supplier
      <4>1. SumFunctionOnSet(e, D) = SumFunctionOnSet(f, D) /\ E = D
        BY <1>5, <2>1, <3>2
      <4> QED BY <2>3, <3>2, <4>1
    <3> QED BY <3>1, <3>2
  <2> QED BY <2>2, <2>3, <2>4
<1>9. ASSUME NEW w \in Wallets
      PROVE  /\ MovementsOf(OnWallet(w)) \in Int
             /\ MovementsOf(OnWallet(w))' =
                  MovementsOf(OnWallet(w)) + IF w = m.wallet THEN Signed(m) ELSE 0
  <2>1. PICK D \in SUBSET (1 .. n), E \in {OnWallet(w)'} :
          D = OnWallet(w) /\ E = IF w = m.wallet THEN D \cup {n + 1} ELSE D
    BY <1>7
  <2>2. MovementsOf(OnWallet(w)) = SumFunctionOnSet(f, D)
        /\ MovementsOf(OnWallet(w))' = SumFunctionOnSet(e, E)
    BY <1>4, <2>1
  <2>3. SumFunctionOnSet(f, D) \in Int
    BY <1>5
  <2>4. SumFunctionOnSet(e, E) = SumFunctionOnSet(f, D) + IF w = m.wallet THEN Signed(m) ELSE 0
    <3>1. CASE w = m.wallet
      BY <1>5, <2>1, <3>1
    <3>2. CASE w # m.wallet
      <4>1. SumFunctionOnSet(e, D) = SumFunctionOnSet(f, D) /\ E = D
        BY <1>5, <2>1, <3>2
      <4> QED BY <2>3, <3>2, <4>1
    <3> QED BY <3>1, <3>2
  <2> QED BY <2>2, <2>3, <2>4
<1> QED BY <1>8, <1>9

LEMMA SuppliersInvInit == SuppliersInit => SuppliersInv
<1> SUFFICES ASSUME SuppliersInit PROVE SuppliersInv
  OBVIOUS
<1>1. /\ DOMAIN supplierMovements = {} /\ supplierMovements \in Seq(SupplierMovement)
      /\ rebalancing \in [Requests -> RebalanceState]
      /\ \A r \in Requests : rebalancing[r].stage = "idle"
  BY NotRebalancingTyped DEF SuppliersInit
<1>2. SuppliersTyped
  BY <1>1, SuppliersAssumption DEF SuppliersInit, SuppliersTyped, SupplierRow, NoSupplier
<1>3. (\A r \in Requests : RebalanceHolds(rebalancing[r])) /\ WritersApart /\ MovedIsKnown
  BY <1>1 DEF RebalanceHolds, WritersApart, MovedIsKnown
<1>4. SupplierBalanceIsExplained
  BY DEF SuppliersInit, NoSupplier, SupplierBalanceIsExplained
<1>5. WalletsFollowRebalances
  <2>1. \A w \in Wallets : OnWallet(w) = {}
    BY <1>1 DEF OnWallet
  <2>2. MovementsOf({}) = 0
    BY SumOfNone DEF MovementsOf
  <2>3. \A w \in Wallets : WalletsBefore[w].balance \in Nat
    BY SuppliersAssumption DEF WalletRow
  <2>4. supplierWallet = WalletsBefore /\ \A w \in Wallets : movedElsewhere[w] = 0
    BY DEF SuppliersInit
  <2> QED BY <2>1, <2>2, <2>3, <2>4 DEF WalletsFollowRebalances
<1> QED BY <1>2, <1>3, <1>4, <1>5 DEF SuppliersInv

\* One request changes its state, nothing else is written.
LEMMA RebalanceBecomes ==
  ASSUME SuppliersInv, NEW r \in Requests, NEW q \in RebalanceState, RebalanceHolds(q),
         rebalancing' = [rebalancing EXCEPT ![r] = q],
         q.stage = "writing" =>
           \A x \in Requests : rebalancing[x].stage = "writing" => rebalancing[x].body.wallet # q.body.wallet,
         UNCHANGED <<supplier, supplierWallet, movedElsewhere, supplierMovements, racedSuppliers>>
  PROVE  SuppliersInv'
<1>1. /\ rebalancing' \in [Requests -> RebalanceState]
      /\ \A x \in Requests : rebalancing'[x] = IF x = r THEN q ELSE rebalancing[x]
  BY DEF SuppliersInv, SuppliersTyped
<1>2. SuppliersTyped'
  BY <1>1 DEF SuppliersInv, SuppliersTyped
<1>3. ASSUME NEW x \in Requests PROVE RebalanceHolds(rebalancing[x])'
  <2>1. CASE x = r
    BY <1>1, <2>1 DEF RebalanceHolds
  <2>2. CASE x # r
    <3>1. rebalancing'[x] = rebalancing[x] /\ RebalanceHolds(rebalancing[x])
      BY <1>1, <2>2 DEF SuppliersInv
    <3> QED BY <3>1 DEF RebalanceHolds
  <2> QED BY <2>1, <2>2
<1>4. WritersApart'
  BY <1>1 DEF SuppliersInv, WritersApart
<1>5. MovedIsKnown' /\ SupplierBalanceIsExplained' /\ WalletsFollowRebalances'
  BY DEF SuppliersInv, MovedIsKnown, SupplierBalanceIsExplained, WalletsFollowRebalances,
         MovementsOf, WithSupplier, OnWallet
<1> QED BY <1>2, <1>3, <1>4, <1>5 DEF SuppliersInv

LEMMA RebalanceStarts ==
  ASSUME SuppliersInv, NEW r \in Requests, NEW b \in Rebalances, StartRebalance(r, b)
  PROVE  SuppliersInv'
<1> DEFINE q == [NotRebalancing EXCEPT !.stage = "reading", !.subject = b.supplier, !.body = b,
                                       !.seen = supplier[b.supplier].balance]
<1>1. b.supplier \in Codes /\ supplier[b.supplier] \in SupplierRow
  BY SuppliersAssumption DEF Rebalance, SuppliersInv, SuppliersTyped
<1>2. /\ q.stage = "reading" /\ q.subject = b.supplier /\ q.body = b
      /\ q.seen = supplier[b.supplier].balance
  BY DEF NotRebalancing
<1>3. q \in RebalanceState
  <2>1. b.supplier \in SupplierOrNone /\ b \in BodyOrNone /\ supplier[b.supplier].balance \in Int
    BY <1>1 DEF SupplierOrNone, BodyOrNone, SupplierRow
  <2> QED BY <2>1, NotRebalancingTyped DEF RebalanceState
<1>4. /\ rebalancing' = [rebalancing EXCEPT ![r] = q]
      /\ supplier[b.supplier].known
      /\ UNCHANGED <<supplier, supplierWallet, movedElsewhere, supplierMovements, racedSuppliers>>
  BY DEF StartRebalance
<1> HIDE DEF q
<1>5. RebalanceHolds(q)
  BY <1>2, <1>4 DEF RebalanceHolds
<1> QED BY <1>2, <1>3, <1>4, <1>5, RebalanceBecomes

LEMMA WalletLocks ==
  ASSUME SuppliersInv, NEW r \in Requests, LockWallet(r)
  PROVE  SuppliersInv'
<1>1. PICK p \in RebalanceState : p = rebalancing[r]
  BY DEF SuppliersInv, SuppliersTyped
<1>2. PICK row \in WalletRow : row = supplierWallet[p.body.wallet]
  <2>1. p.stage = "reading"
    BY <1>1 DEF LockWallet
  <2>2. p.body \in Rebalance
    BY <1>1, <2>1, SuppliersAssumption DEF SuppliersInv, RebalanceHolds
  <2> QED BY <2>2 DEF Rebalance, SuppliersInv, SuppliersTyped
<1> DEFINE q == [p EXCEPT !.stage = "writing", !.row = row, !.reference = NextReference]
<1>3. /\ q.stage = "writing" /\ q.row = row /\ q.subject = p.subject /\ q.body = p.body
      /\ q.seen = p.seen /\ q.overtaken = p.overtaken
  BY DEF RebalanceState
<1>4. q \in RebalanceState
  <2>1. NextReference \in Nat
    BY DEF NextReference, SuppliersInv, SuppliersTyped
  <2> QED BY <2>1 DEF RebalanceState
<1>5. rebalancing' = [rebalancing EXCEPT ![r] = q]
  BY <1>1, <1>2 DEF LockWallet, SuppliersInv, SuppliersTyped
<1>6. /\ p.stage = "reading" /\ WalletIsFree(p.body.wallet)
      /\ CanApply(row, Exact(Quantize(Signed(p.body))))
      /\ UNCHANGED <<supplier, supplierWallet, movedElsewhere, supplierMovements, racedSuppliers>>
  BY <1>1, <1>2 DEF LockWallet
<1> HIDE DEF q
<1>7. RebalanceHolds(q)
  <2>1. RebalanceHolds(p)
    BY <1>1 DEF SuppliersInv
  <2> QED BY <1>2, <1>3, <1>6, <2>1 DEF RebalanceHolds
<1>8. \A x \in Requests : rebalancing[x].stage = "writing" => rebalancing[x].body.wallet # q.body.wallet
  BY <1>3, <1>6 DEF WalletIsFree
<1> QED BY <1>4, <1>5, <1>6, <1>7, <1>8, RebalanceBecomes

LEMMA RebalanceAborts ==
  ASSUME SuppliersInv, NEW r \in Requests, AbortRebalance(r)
  PROVE  SuppliersInv'
<1>1. RebalanceHolds(NotRebalancing)
  BY NotRebalancingTyped DEF RebalanceHolds
<1> QED BY <1>1, NotRebalancingTyped, RebalanceBecomes DEF AbortRebalance

LEMMA SupplierIsCreated ==
  ASSUME SuppliersInv, NEW s \in Codes, NEW raw \in InitialBalances, CreateSupplier(s, raw)
  PROVE  SuppliersInv'
<1> DEFINE row == [known |-> TRUE, opening |-> Quantize(raw), balance |-> Quantize(raw)]
<1>1. Quantize(raw) \in Int /\ row \in SupplierRow
  BY QuantizeInt, SuppliersAssumption DEF SupplierRow
<1>2. /\ ~supplier[s].known /\ supplier' = [supplier EXCEPT ![s] = row]
      /\ UNCHANGED <<supplierWallet, movedElsewhere, supplierMovements, rebalancing, racedSuppliers>>
  BY DEF CreateSupplier
<1>3. /\ supplier' \in [Codes -> SupplierRow] /\ supplier'[s] = row
      /\ \A x \in Codes : x # s => supplier'[x] = supplier[x]
  BY <1>1, <1>2 DEF SuppliersInv, SuppliersTyped
<1>4. row.known /\ row.opening = row.balance /\ row.balance \in Int
  BY <1>1
<1> HIDE DEF row
<1>5. SuppliersTyped'
  BY <1>2, <1>3 DEF SuppliersInv, SuppliersTyped
<1>6. ASSUME NEW r \in Requests PROVE RebalanceHolds(rebalancing[r])'
  <2>1. RebalanceHolds(rebalancing[r])
    BY DEF SuppliersInv
  <2>2. rebalancing[r].stage # "idle" =>
          rebalancing[r].body \in Rebalance /\ rebalancing[r].subject \in Codes
    BY <2>1, SuppliersAssumption DEF RebalanceHolds, Rebalance
  <2>3. rebalancing[r].stage # "idle" => rebalancing[r].subject # s
    BY <1>2, <2>1 DEF RebalanceHolds
  <2> QED BY <1>2, <1>3, <2>1, <2>2, <2>3 DEF RebalanceHolds
<1>7. MovedIsKnown' /\ WritersApart'
  <2>1. \A i \in DOMAIN supplierMovements : supplierMovements[i] \in SupplierMovement
    BY DEF SuppliersInv, SuppliersTyped
  <2>2. \A i \in DOMAIN supplierMovements : supplierMovements[i].supplier \in Codes
    BY <2>1 DEF SupplierMovement
  <2> QED BY <1>2, <1>3, <1>4, <2>2 DEF SuppliersInv, MovedIsKnown, WritersApart
<1>8. WalletsFollowRebalances'
  BY <1>2 DEF SuppliersInv, WalletsFollowRebalances, MovementsOf, OnWallet
<1>9. SupplierBalanceIsExplained'
  <2>1. \A x \in Codes : MovementsOf(WithSupplier(x))' = MovementsOf(WithSupplier(x))
    BY <1>2 DEF MovementsOf, WithSupplier
  <2>2. MovementsOf(WithSupplier(s)) = 0
    <3>1. WithSupplier(s) = {}
      BY <1>2 DEF WithSupplier, SuppliersInv, MovedIsKnown
    <3> QED BY <3>1, SumOfNone DEF MovementsOf
  <2>3. ASSUME NEW x \in Codes, supplier'[x].known, x \notin racedSuppliers
        PROVE  supplier'[x].balance = supplier'[x].opening - MovementsOf(WithSupplier(x))
    <3>1. CASE x = s
      BY <1>3, <1>4, <2>2, <3>1
    <3>2. CASE x # s
      BY <1>3, <2>3, <3>2 DEF SuppliersInv, SupplierBalanceIsExplained
    <3> QED BY <3>1, <3>2
  <2> QED BY <1>2, <2>1, <2>3 DEF SupplierBalanceIsExplained
<1> QED BY <1>5, <1>6, <1>7, <1>8, <1>9 DEF SuppliersInv

LEMMA WalletMovementsTyped ==
  ASSUME SuppliersTyped, NEW w \in Wallets
  PROVE  MovementsOf(OnWallet(w)) \in Int
<1>1. DOMAIN supplierMovements = 1 .. Len(supplierMovements) /\ Len(supplierMovements) \in Nat
      /\ \A i \in DOMAIN supplierMovements : supplierMovements[i] \in SupplierMovement
  BY DEF SuppliersTyped
<1>2. IsFiniteSet(OnWallet(w))
  <2>1. IsFiniteSet(DOMAIN supplierMovements)
    BY <1>1, FS_Interval
  <2>2. OnWallet(w) \in SUBSET (DOMAIN supplierMovements)
    BY DEF OnWallet
  <2> QED BY <2>1, <2>2, FS_Subset
<1>3. NumbersOn(Brought(supplierMovements), OnWallet(w))
  BY <1>1, SignedMovement DEF NumbersOn, Brought, OnWallet
<1> QED BY <1>2, <1>3, SumTyped DEF MovementsOf, Brought

LEMMA MovedElsewhere ==
  ASSUME SuppliersInv, NEW w \in Wallets, NEW sum \in Elsewhere, MoveElsewhere(w, sum)
  PROVE  SuppliersInv'
<1> DEFINE change == sum - movedElsewhere[w]
<1>1. PICK row \in WalletRow : row = supplierWallet[w]
  BY DEF SuppliersInv, SuppliersTyped
<1>2. movedElsewhere[w] \in Int /\ sum \in Int /\ change \in Int
  <2>1. movedElsewhere[w] \in Elsewhere
    BY DEF SuppliersInv, SuppliersTyped
  <2>2. Elsewhere \subseteq Int
    BY SuppliersAssumption
  <2>3. movedElsewhere[w] \in Int /\ sum \in Int
    BY <2>1, <2>2
  <2> QED BY <2>3
<1>3. /\ WalletIsFree(w) /\ CanApply(row, Exact(change))
      /\ supplierWallet' = [supplierWallet EXCEPT ![w].balance = Applied(row, Exact(change))]
      /\ movedElsewhere' = [movedElsewhere EXCEPT ![w] = sum]
      /\ UNCHANGED <<supplier, supplierMovements, rebalancing, racedSuppliers>>
  BY <1>1 DEF MoveElsewhere
<1> HIDE DEF change
<1>4. Applied(row, Exact(change)) \in Nat /\ Applied(row, Exact(change)) = row.balance + change
  <2>1. Exact(change) \in Int /\ Quantize(Exact(change)) = change
    BY <1>2, QuantizeExact
  <2> QED BY <1>3, <2>1, AppliedNat DEF Applied
<1>5. /\ supplierWallet' \in [Wallets -> WalletRow]
      /\ supplierWallet'[w].balance = row.balance + change
      /\ \A x \in Wallets : x # w => supplierWallet'[x] = supplierWallet[x]
  BY <1>1, <1>3, <1>4 DEF SuppliersInv, SuppliersTyped, WalletRow
<1>6. /\ movedElsewhere' \in [Wallets -> Elsewhere] /\ movedElsewhere'[w] = sum
      /\ \A x \in Wallets : x # w => movedElsewhere'[x] = movedElsewhere[x]
  BY <1>3 DEF SuppliersInv, SuppliersTyped
<1>7. SuppliersTyped'
  BY <1>3, <1>5, <1>6 DEF SuppliersInv, SuppliersTyped
<1>8. ASSUME NEW r \in Requests PROVE RebalanceHolds(rebalancing[r])'
  <2>1. RebalanceHolds(rebalancing[r])
    BY DEF SuppliersInv
  <2>2. rebalancing[r].stage = "writing" =>
          rebalancing[r].body \in Rebalance /\ rebalancing[r].body.wallet \in Wallets
    BY <2>1, SuppliersAssumption DEF RebalanceHolds, Rebalance
  <2>3. rebalancing[r].stage = "writing" => rebalancing[r].body.wallet # w
    BY <1>3 DEF WalletIsFree
  <2> QED BY <1>3, <1>5, <2>1, <2>2, <2>3 DEF RebalanceHolds
<1>9. MovedIsKnown' /\ WritersApart' /\ SupplierBalanceIsExplained'
  BY <1>3 DEF SuppliersInv, MovedIsKnown, WritersApart, SupplierBalanceIsExplained, MovementsOf,
              WithSupplier
<1>10. WalletsFollowRebalances'
  <2>1. \A x \in Wallets : MovementsOf(OnWallet(x))' = MovementsOf(OnWallet(x))
    BY <1>3 DEF MovementsOf, OnWallet
  <2>2. ASSUME NEW x \in Wallets
        PROVE  supplierWallet'[x].balance =
                 WalletsBefore[x].balance + movedElsewhere'[x] + MovementsOf(OnWallet(x))
    <3>1. CASE x = w
      <4>1. row.balance = WalletsBefore[w].balance + movedElsewhere[w] + MovementsOf(OnWallet(w))
        BY <1>1 DEF SuppliersInv, WalletsFollowRebalances
      <4>2. MovementsOf(OnWallet(w)) \in Int /\ WalletsBefore[w].balance \in Nat
        BY WalletMovementsTyped, SuppliersAssumption DEF WalletRow, SuppliersInv
      <4> QED BY <1>2, <1>5, <1>6, <3>1, <4>1, <4>2 DEF change
    <3>2. CASE x # w
      BY <1>5, <1>6, <3>2 DEF SuppliersInv, WalletsFollowRebalances
    <3> QED BY <3>1, <3>2
  <2> QED BY <2>1, <2>2 DEF WalletsFollowRebalances
<1> QED BY <1>7, <1>8, <1>9, <1>10 DEF SuppliersInv

LEMMA RebalanceCommits ==
  ASSUME SuppliersInv, NEW r \in Requests, CommitRebalance(r)
  PROVE  SuppliersInv'
<1>1. PICK q \in RebalanceState : q = rebalancing[r]
  BY DEF SuppliersInv, SuppliersTyped
<1>2. PICK b \in Rebalance : b = q.body /\ b \in Rebalances
  BY <1>1, SuppliersAssumption DEF SuppliersInv, RebalanceHolds, CommitRebalance
<1> DEFINE moved == Quantize(Signed(b))
           after == q.seen - moved
           m == [supplier |-> b.supplier, reference |-> q.reference, wallet |-> b.wallet,
                 type |-> b.type, amount |-> Quantize(b.amount), before |-> q.seen, after |-> after]
<1>3. /\ q.stage = "writing" /\ q.seen \in Int /\ q.row \in WalletRow /\ q.reference \in Nat
      /\ q.overtaken \in BOOLEAN
      /\ q.subject = b.supplier /\ b.supplier \in Codes /\ b.wallet \in Wallets
      /\ supplier[b.supplier].known
      /\ ~q.overtaken => q.seen = supplier[b.supplier].balance
      /\ q.row = supplierWallet[b.wallet] /\ CanApply(q.row, Exact(moved))
  BY <1>1, <1>2 DEF RebalanceState, Rebalance, SuppliersInv, RebalanceHolds, CommitRebalance
<1>4. moved \in Int /\ Signed(b) \in Int /\ Quantize(b.amount) \in Nat
      /\ moved = IF b.type = "debt" THEN Quantize(b.amount) ELSE -Quantize(b.amount)
  BY SignedRounds
<1>5. m \in SupplierMovement /\ Signed(m) = moved
  <2>1. after \in Int
    BY <1>3, <1>4
  <2> QED BY <1>3, <1>4, <2>1 DEF SupplierMovement, Rebalance, Signed
<1>6. q.seen + SupplierDelta(b) = after
  BY <1>3, <1>4 DEF SupplierDelta
<1>7. /\ supplier' = [supplier EXCEPT ![b.supplier].balance = after]
      /\ supplierWallet' = [supplierWallet EXCEPT ![b.wallet].balance = Applied(q.row, Exact(moved))]
      /\ supplierMovements' = Append(supplierMovements, m)
      /\ rebalancing' = AfterCommit(rebalancing, r, NotRebalancing)
      /\ racedSuppliers' = RacedAfter(racedSuppliers, q)
      /\ UNCHANGED movedElsewhere
  BY <1>1, <1>2, <1>6 DEF CommitRebalance
<1>8. m.supplier = b.supplier /\ m.wallet = b.wallet /\ after = q.seen - moved /\ after \in Int
  BY <1>3, <1>4
<1> HIDE DEF moved, after, m
<1>9. Applied(q.row, Exact(moved)) \in Nat /\ Applied(q.row, Exact(moved)) = q.row.balance + moved
  <2>1. Exact(moved) \in Int /\ Quantize(Exact(moved)) = moved
    BY <1>4, QuantizeExact
  <2> QED BY <1>3, <2>1, AppliedNat DEF Applied
<1>10. /\ supplierWallet' \in [Wallets -> WalletRow]
       /\ supplierWallet'[b.wallet].balance = q.row.balance + moved
       /\ \A x \in Wallets : x # b.wallet => supplierWallet'[x] = supplierWallet[x]
  BY <1>3, <1>7, <1>9 DEF SuppliersInv, SuppliersTyped, WalletRow
<1>11. /\ supplier' \in [Codes -> SupplierRow]
       /\ supplier'[b.supplier].balance = after
       /\ supplier'[b.supplier].opening = supplier[b.supplier].opening
       /\ supplier'[b.supplier].known
       /\ \A x \in Codes : x # b.supplier => supplier'[x] = supplier[x]
  BY <1>3, <1>7, <1>8 DEF SuppliersInv, SuppliersTyped, SupplierRow
<1>12. /\ supplierMovements' \in Seq(SupplierMovement)
       /\ DOMAIN supplierMovements' = DOMAIN supplierMovements \cup {Len(supplierMovements) + 1}
       /\ \A i \in DOMAIN supplierMovements : supplierMovements'[i] = supplierMovements[i]
       /\ supplierMovements'[Len(supplierMovements) + 1] = m
  BY <1>5, <1>7, SequenceAppended DEF SuppliersInv, SuppliersTyped
<1>13. racedSuppliers' = IF q.overtaken THEN racedSuppliers \cup {b.supplier} ELSE racedSuppliers
  BY <1>3, <1>7 DEF RacedAfter
<1>14. /\ rebalancing' \in [Requests -> RebalanceState]
       /\ rebalancing'[r] = NotRebalancing
       /\ \A x \in Requests \ {r} :
            IF rebalancing[x].subject = b.supplier
            THEN rebalancing'[x] = [rebalancing[x] EXCEPT !.overtaken = TRUE]
            ELSE rebalancing'[x] = rebalancing[x]
  <2>1. \A x \in Requests : rebalancing[x] \in RebalanceState
    BY DEF SuppliersInv, SuppliersTyped
  <2>2. \A p \in RebalanceState : [p EXCEPT !.overtaken = TRUE] \in RebalanceState
    BY DEF RebalanceState
  <2>3. rebalancing[r].subject = b.supplier
    BY <1>1, <1>3
  <2> QED BY <1>7, <2>1, <2>2, <2>3, NotRebalancingTyped DEF AfterCommit
<1>15. SuppliersTyped'
  BY <1>3, <1>7, <1>10, <1>11, <1>12, <1>13, <1>14 DEF SuppliersInv, SuppliersTyped
<1>16. ASSUME NEW x \in Requests \ {r}
       PROVE  /\ rebalancing'[x].stage = rebalancing[x].stage
              /\ rebalancing'[x].body = rebalancing[x].body
              /\ rebalancing'[x].subject = rebalancing[x].subject
              /\ rebalancing'[x].seen = rebalancing[x].seen
              /\ rebalancing'[x].row = rebalancing[x].row
              /\ ~rebalancing'[x].overtaken =>
                   ~rebalancing[x].overtaken /\ rebalancing[x].subject # b.supplier
  <2>1. PICK p \in RebalanceState : p = rebalancing[x]
    BY DEF SuppliersInv, SuppliersTyped
  <2>2. CASE p.subject = b.supplier
    <3>1. rebalancing'[x] = [p EXCEPT !.overtaken = TRUE]
      BY <1>14, <2>1, <2>2
    <3> QED BY <2>1, <3>1 DEF RebalanceState
  <2>3. CASE p.subject # b.supplier
    <3>1. rebalancing'[x] = p
      BY <1>14, <2>1, <2>3
    <3> QED BY <2>1, <2>3, <3>1
  <2> QED BY <2>2, <2>3
<1>17. ASSUME NEW x \in Requests PROVE RebalanceHolds(rebalancing[x])'
  <2>1. CASE x = r
    BY <1>14, <2>1, NotRebalancingTyped DEF RebalanceHolds
  <2>2. CASE x # r
    <3>1. RebalanceHolds(rebalancing[x])
      BY DEF SuppliersInv
    <3>2. rebalancing[x].stage # "idle" =>
            /\ rebalancing[x].body \in Rebalance
            /\ rebalancing[x].subject \in Codes /\ rebalancing[x].body.wallet \in Wallets
      BY <3>1, SuppliersAssumption DEF RebalanceHolds, Rebalance
    <3>3. rebalancing[x].stage = "writing" => rebalancing[x].body.wallet # b.wallet
      BY <1>1, <1>2, <1>3, <2>2 DEF SuppliersInv, WritersApart
    <3>4. rebalancing[x].stage # "idle" => supplier'[rebalancing[x].subject].known
      BY <1>11, <3>1, <3>2 DEF RebalanceHolds
    <3>5. rebalancing[x].stage # "idle" /\ ~rebalancing'[x].overtaken =>
            rebalancing[x].seen = supplier'[rebalancing[x].subject].balance
      BY <1>11, <1>16, <2>2, <3>1, <3>2 DEF RebalanceHolds
    <3>6. rebalancing[x].stage = "writing" =>
            rebalancing[x].row = supplierWallet'[rebalancing[x].body.wallet]
      BY <1>10, <3>1, <3>2, <3>3 DEF RebalanceHolds
    <3> QED BY <1>16, <2>2, <3>1, <3>4, <3>5, <3>6 DEF RebalanceHolds
  <2> QED BY <2>1, <2>2
<1>18. WritersApart'
  <2> SUFFICES ASSUME NEW x \in Requests, NEW y \in Requests,
                      rebalancing'[x].stage = "writing", rebalancing'[y].stage = "writing",
                      rebalancing'[x].body.wallet = rebalancing'[y].body.wallet
               PROVE  x = y
    BY DEF WritersApart
  <2>1. x # r /\ y # r
    BY <1>14, NotRebalancingTyped
  <2> QED BY <1>16, <2>1 DEF SuppliersInv, WritersApart
<1>19. MovedIsKnown'
  <2> SUFFICES ASSUME NEW i \in DOMAIN supplierMovements'
               PROVE  supplier'[supplierMovements'[i].supplier].known
    BY DEF MovedIsKnown
  <2>1. CASE i \in DOMAIN supplierMovements
    <3>1. supplierMovements[i] \in SupplierMovement /\ supplier[supplierMovements[i].supplier].known
      BY <2>1 DEF SuppliersInv, SuppliersTyped, MovedIsKnown
    <3>2. supplierMovements[i].supplier \in Codes
      BY <3>1 DEF SupplierMovement
    <3> QED BY <1>11, <1>12, <2>1, <3>1, <3>2
  <2>2. CASE i = Len(supplierMovements) + 1
    BY <1>8, <1>11, <1>12, <2>2
  <2> QED BY <1>12, <2>1, <2>2
<1>20. /\ \A s \in Codes :
            /\ MovementsOf(WithSupplier(s)) \in Int
            /\ MovementsOf(WithSupplier(s))' =
                 MovementsOf(WithSupplier(s)) + IF s = b.supplier THEN moved ELSE 0
       /\ \A w \in Wallets :
            /\ MovementsOf(OnWallet(w)) \in Int
            /\ MovementsOf(OnWallet(w))' =
                 MovementsOf(OnWallet(w)) + IF w = b.wallet THEN moved ELSE 0
  BY <1>5, <1>7, <1>8, MovementAppended DEF SuppliersInv
<1>21. SupplierBalanceIsExplained'
  <2> SUFFICES ASSUME NEW s \in Codes, supplier'[s].known, s \notin racedSuppliers'
               PROVE  supplier'[s].balance = supplier'[s].opening - MovementsOf(WithSupplier(s))'
    BY DEF SupplierBalanceIsExplained
  <2>1. PICK total \in Int : total = MovementsOf(WithSupplier(s))
    BY <1>20
  <2>2. CASE s = b.supplier
    <3>1. ~q.overtaken /\ s \notin racedSuppliers
      BY <1>13, <2>2
    <3>2. supplier[s].balance = supplier[s].opening - total
      BY <1>3, <2>1, <2>2, <3>1 DEF SuppliersInv, SupplierBalanceIsExplained
    <3>3. MovementsOf(WithSupplier(s))' = total + moved
      BY <1>20, <2>1, <2>2
    <3>4. supplier[s].opening \in Int
      BY DEF SuppliersInv, SuppliersTyped, SupplierRow
    <3> QED BY <1>3, <1>4, <1>8, <1>11, <2>2, <3>1, <3>2, <3>3, <3>4
  <2>3. CASE s # b.supplier
    <3>1. supplier'[s] = supplier[s] /\ s \notin racedSuppliers
      BY <1>11, <1>13, <2>3
    <3>2. supplier[s].balance = supplier[s].opening - total
      BY <2>1, <3>1 DEF SuppliersInv, SupplierBalanceIsExplained
    <3>3. MovementsOf(WithSupplier(s))' = total
      BY <1>20, <2>1, <2>3
    <3> QED BY <3>1, <3>2, <3>3
  <2> QED BY <2>2, <2>3
<1>22. WalletsFollowRebalances'
  <2> SUFFICES ASSUME NEW w \in Wallets
               PROVE  supplierWallet'[w].balance =
                        WalletsBefore[w].balance + movedElsewhere'[w] + MovementsOf(OnWallet(w))'
    BY DEF WalletsFollowRebalances
  <2>1. PICK total \in Int : total = MovementsOf(OnWallet(w))
    BY <1>20
  <2>2. supplierWallet[w].balance = WalletsBefore[w].balance + movedElsewhere[w] + total
    BY <2>1 DEF SuppliersInv, WalletsFollowRebalances
  <2>3. WalletsBefore[w].balance \in Nat /\ movedElsewhere[w] \in Int
    BY SuppliersAssumption DEF WalletRow, SuppliersInv, SuppliersTyped
  <2>4. CASE w = b.wallet
    <3>1. MovementsOf(OnWallet(w))' = total + moved
      BY <1>20, <2>1, <2>4
    <3>2. supplierWallet'[w].balance = supplierWallet[w].balance + moved
      BY <1>3, <1>10, <2>4
    <3> QED BY <1>4, <1>7, <2>2, <2>3, <3>1, <3>2
  <2>5. CASE w # b.wallet
    <3>1. MovementsOf(OnWallet(w))' = total
      BY <1>20, <2>1, <2>5
    <3> QED BY <1>7, <1>10, <2>2, <2>5, <3>1
  <2> QED BY <2>4, <2>5
<1> QED BY <1>15, <1>17, <1>18, <1>19, <1>21, <1>22 DEF SuppliersInv

LEMMA SuppliersInvNext == SuppliersInv /\ [Next]_vars => SuppliersInv'
<1> SUFFICES ASSUME SuppliersInv, [Next]_vars PROVE SuppliersInv'
  OBVIOUS
<1>1. CASE SuppliersNext
  BY <1>1, SupplierIsCreated, RebalanceStarts, WalletLocks, RebalanceCommits, RebalanceAborts,
     MovedElsewhere DEF SuppliersNext
<1>2. CASE UNCHANGED supplierVars
  BY <1>2 DEF supplierVars, SuppliersInv, SuppliersTyped, RebalanceHolds, WritersApart, MovedIsKnown,
              SupplierBalanceIsExplained, WalletsFollowRebalances, MovementsOf, WithSupplier, OnWallet
<1>3. SuppliersNext \/ UNCHANGED supplierVars
  BY DEF Next, ServeSuppliers, ServePrivateRates, ServeProofs, ServeNotifications, vars
<1> QED BY <1>1, <1>2, <1>3

LEMMA SuppliersInvHolds == Spec => []SuppliersInv
<1>1. Init => SuppliersInv
  BY SuppliersInvInit DEF Init
<1> QED BY <1>1, SuppliersInvNext, PTL DEF Spec

\* A supplier's balance is what its rebalancings left, unless two of them overlapped, for
\* any suppliers, wallets and requests (rebalance_supplier, whose read takes no lock).
THEOREM SupplierBalanceIsAlwaysExplained == Spec => []SupplierBalanceIsExplained
BY SuppliersInvHolds, PTL DEF SuppliersInv

\* The wallets follow the rebalancings to the cent, whatever overlaps: the wallet's row
\* lock covers the read, the refusal and the write (rebalance_supplier, lock_by_id).
THEOREM WalletsAlwaysFollowRebalances == Spec => []WalletsFollowRebalances
BY SuppliersInvHolds, PTL DEF SuppliersInv

---------------------------------------------------------------------------
(* Types.                                                                  *)

LEMMA StreamsHoldRows ==
  ASSUME NotificationsInv, NEW l \in Streams
  PROVE  {queue[l], heard[l]} \subseteq Seq(DOMAIN notifications)
<1>1. queue[l] \in Seq(Nat) /\ heard[l] \in Seq(Nat)
  BY DEF NotificationsInv, NotificationsTyped
<1>2. \A k \in DOMAIN Got(l) : Got(l)[k] \in DOMAIN notifications
  BY DEF NotificationsInv, HeardRows
<1>3. ASSUME NEW a \in Seq(Nat), NEW b \in Seq(Nat), NEW D,
             \A k \in DOMAIN (a \o b) : (a \o b)[k] \in D
      PROVE  a \in Seq(D) /\ b \in Seq(D)
  BY <1>3, PartsOfWhole
<1> QED BY <1>1, <1>2, <1>3 DEF Got

LEMMA NotificationsAreTyped == NotificationsInv => NotificationsTypeOK
<1> SUFFICES ASSUME NotificationsInv PROVE NotificationsTypeOK
  OBVIOUS
<1>1. ASSUME NEW r \in Requests
      PROVE  /\ notifying[r].stage \in {"idle", "open", "committed"}
             /\ notifying[r].pending \subseteq DOMAIN notifications
  BY DEF NotificationsInv, NotificationsTyped, SessionState, PendingRows
<1> QED BY <1>1, StreamsHoldRows DEF NotificationsInv, NotificationsTyped, NotificationsTypeOK

LEMMA RatesAreTyped == RatesInv => RatesTypeOK
<1> SUFFICES ASSUME RatesInv PROVE RatesTypeOK
  OBVIOUS
<1>1. privateRates \in Seq([slot : Slot, active : BOOLEAN]) /\ racedSlots \subseteq Slot
  BY DEF RatesInv, RateRow
<1>2. DOMAIN privateRates \subseteq 0 .. Len(privateRates) /\ 0 \in 0 .. Len(privateRates)
  BY <1>1
<1>3. ASSUME NEW r \in Requests
      PROVE  /\ changingRate[r].does \in {"nothing", "set", "activate", "deactivate"}
             /\ {changingRate[r].retired, changingRate[r].rate} \subseteq 0 .. Len(privateRates)
  <2>1. changingRate[r] \in ChangeState /\ ChangeHolds(changingRate[r])
    BY DEF RatesInv
  <2>2. changingRate[r].does \in {"nothing", "set", "activate", "deactivate"}
    BY <2>1 DEF ChangeState, Changes
  <2>3. /\ changingRate[r].retired = 0 \/ changingRate[r].retired \in DOMAIN privateRates
        /\ changingRate[r].rate = 0 \/ changingRate[r].rate \in DOMAIN privateRates
    BY <2>1 DEF ChangeHolds, OfSlot
  <2> QED BY <1>2, <2>2, <2>3
<1> QED BY <1>1, <1>3 DEF RatesTypeOK

LEMMA SuppliersAreTyped == SuppliersInv => SuppliersTypeOK
<1> SUFFICES ASSUME SuppliersInv PROVE SuppliersTypeOK
  OBVIOUS
<1>1. ASSUME NEW r \in Requests
      PROVE  /\ rebalancing[r].stage \in {"idle", "reading", "writing"}
             /\ rebalancing[r].stage # "idle" => rebalancing[r].body \in Rebalances
  BY DEF SuppliersInv, SuppliersTyped, RebalanceState, RebalanceHolds
<1> QED BY <1>1 DEF SuppliersInv, SuppliersTyped, SuppliersTypeOK

\* The rows, requests, streams and queues of the four services keep their types.
THEOREM TypeCorrect == Spec => []TypeOK
<1>1. SuppliersInv /\ RatesInv /\ ProofsInv /\ NotificationsInv => TypeOK
  BY SuppliersAreTyped, RatesAreTyped, NotificationsAreTyped DEF ProofsInv, TypeOK
<1> QED BY <1>1, SuppliersInvHolds, RatesInvHolds, ProofsInvHolds, NotificationsInvHolds, PTL

=============================================================================
