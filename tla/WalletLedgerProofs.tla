------------------------ MODULE WalletLedgerProofs ------------------------
(***************************************************************************)
(* The ledger's promise implies that a wallet's journal always explains    *)
(* its balance to the cent, for every set of wallets and sources.          *)
(***************************************************************************)
EXTENDS WalletLedger, TLAPS

\* The type of every variable (balances stay natural numbers: no wallet is ever
\* overdrawn).
THEOREM LedgerTyped == Spec => []TypeOK
<1>1. Init => TypeOK
  BY DEF Init, TypeOK, Statuses
<1>2. TypeOK /\ [Next]_vars => TypeOK'
  BY DEF Next, vars, TypeOK
<1> QED BY <1>1, <1>2, PTL DEF Spec

\* One wallet: keeping it or posting on it keeps its journal a chain that ends
\* at its balance.
LEMMA PostingExtendsChain ==
  ASSUME TypeOK, TypeOK', NEW w \in Wallets, Kept(w) \/ Posted(w),
         Chained(journal[w]), balance[w] = Closing(journal[w])
  PROVE  Chained(journal'[w]) /\ balance'[w] = Closing(journal'[w])
<1> DEFINE j == journal[w]
           k == journal'[w]
<1>1. j \in Seq(Movement) /\ k \in Seq(Movement)
  BY DEF TypeOK
<1>2. CASE Kept(w)
  BY <1>2 DEF Kept
<1>3. CASE Posted(w)
  <2> DEFINE posted == k[Len(k)]
  <2>1. /\ k = Append(j, posted)
        /\ posted.before = balance[w]
        /\ posted.amount = balance'[w] - balance[w]
        /\ posted.after = balance'[w]
    BY <1>3 DEF Posted
  <2>2. balance[w] \in Nat /\ balance'[w] \in Nat
    BY DEF TypeOK
  <2>3. /\ Len(k) = Len(j) + 1
        /\ DOMAIN k = 1 .. Len(j) + 1
        /\ DOMAIN j = 1 .. Len(j)
        /\ Len(j) \in Nat
        /\ \A i \in 1 .. Len(j) : k[i] = j[i]
    BY <1>1, <1>3, <2>1 DEF Posted
  <2>4. ASSUME NEW i \in DOMAIN k
        PROVE  /\ k[i].before = IF i = 1 THEN 0 ELSE k[i-1].after
               /\ k[i].after = k[i].before + k[i].amount
    <3>1. CASE i \in DOMAIN j
      <4>1. /\ j[i].before = IF i = 1 THEN 0 ELSE j[i-1].after
            /\ j[i].after = j[i].before + j[i].amount
        BY <3>1 DEF Chained
      <4>2. i # 1 => i - 1 \in DOMAIN j
        BY <2>3, <3>1
      <4> QED BY <2>3, <3>1, <4>1, <4>2
    <3>2. CASE i = Len(j) + 1
      <4>1. k[i] = posted
        BY <2>3, <3>2
      <4>2. k[i].after = k[i].before + k[i].amount
        BY <2>1, <2>2, <4>1
      <4>3. CASE Len(j) = 0
        <5>1. j = <<>>
          BY <1>1, <4>3
        <5> QED BY <2>1, <3>2, <4>1, <4>2, <4>3, <5>1 DEF Closing
      <4>4. CASE Len(j) > 0
        <5>1. j # <<>> /\ i # 1 /\ i - 1 = Len(j) /\ k[i-1] = j[Len(j)]
          BY <2>3, <3>2, <4>4
        <5> QED BY <2>1, <4>1, <4>2, <5>1 DEF Closing
      <4> QED BY <2>3, <4>3, <4>4
    <3> QED BY <2>3, <3>1, <3>2
  <2>5. k # <<>>
    BY <2>3
  <2> QED BY <2>1, <2>4, <2>5 DEF Chained, Closing
<1> QED BY <1>2, <1>3

\* The journal of movements accounts for every wallet's balance at all times.
THEOREM JournalsExplainBalances == Spec => []JournalExplainsBalance
<1>1. Init => JournalExplainsBalance
  <2> SUFFICES ASSUME Init, NEW w \in Wallets
               PROVE  Chained(journal[w]) /\ balance[w] = Closing(journal[w])
    BY DEF JournalExplainsBalance
  <2>1. journal[w] = <<>> /\ balance[w] = 0
    BY DEF Init
  <2>2. DOMAIN journal[w] = {}
    BY <2>1
  <2> QED BY <2>1, <2>2 DEF Chained, Closing
<1>2. TypeOK /\ TypeOK' /\ JournalExplainsBalance /\ [Next]_vars
        => JournalExplainsBalance'
  <2> SUFFICES ASSUME TypeOK, TypeOK', JournalExplainsBalance, [Next]_vars
               PROVE  JournalExplainsBalance'
    OBVIOUS
  <2>1. CASE UNCHANGED vars
    BY <2>1 DEF vars, JournalExplainsBalance, Chained, Closing
  <2>2. CASE Next
    <3>1. ASSUME NEW w \in Wallets
          PROVE  Chained(journal'[w]) /\ balance'[w] = Closing(journal'[w])
      BY <2>2, PostingExtendsChain DEF Next, JournalExplainsBalance
    <3> QED BY <3>1 DEF JournalExplainsBalance, Chained, Closing
  <2> QED BY <2>1, <2>2
<1> QED BY <1>1, <1>2, LedgerTyped, PTL DEF Spec
===========================================================================
