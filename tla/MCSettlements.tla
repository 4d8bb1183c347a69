--------------------------- MODULE MCSettlements ---------------------------
(* Companies A and B: A receives money of currency "x" from one client on   *)
(* two wallets, B pays beneficiaries from a wallet in "u".  Amounts are of a *)
(* few cents and half cents: what matters is whether an order asks for less *)
(* than its entry has, as much, or more, and what is rounded.               *)
EXTENDS Settlements, TLC

MCWallets == {"a1", "a2", "b1"}
MCOwner == [w \in MCWallets |-> IF w = "b1" THEN "B" ELSE "A"]
MCCurrency == [w \in MCWallets |-> IF w = "b1" THEN "u" ELSE "x"]

\* A wallet that can pay one transfer, and not two.
MCOpening ==
  [w \in MCWallets |-> [balance |-> IF w = "b1" THEN 5 ELSE 0, status |-> "active"]]

\* A sends from "x" to "u" at a rate of two; no other pair has an active rate.
MCPrivateRate ==
  [c \in {"A", "B"} |-> [pair \in {"x", "u"} \X {"x", "u"} |->
                           IF c = "A" /\ pair = <<"x", "u">> THEN 2 ELSE 0]]

Received(a1, a2) ==
  [company |-> "A", phone |-> "p", amount |-> [w \in MCWallets |->
     CASE w = "a1" -> a1 [] w = "a2" -> a2 [] OTHER -> 0]]

Sent(amount, phone, reliquat) ==
  [kind |-> "transfer", company |-> "A", amount |-> amount, currency |-> "x",
   target |-> "u", phone |-> phone, reliquat |-> reliquat, wallet |-> "none"]

Paid(amount, chosen, reliquat) ==
  [kind |-> "payment", company |-> "A", amount |-> amount, currency |-> "x",
   target |-> "x", phone |-> "none", reliquat |-> reliquat, wallet |-> chosen]

\* Two entries of the client at most, one of them on two wallets.
OneReceipt == {Received(4, 2)}
TwoReceipts == {Received(4, 2), Received(4, 0)}

\* A payment in a currency its entry never received.
OtherCurrency ==
  [kind |-> "payment", company |-> "A", amount |-> 1, currency |-> "u", target |-> "x",
   phone |-> "none", reliquat |-> "unallocated", wallet |-> "none"]

\* More than an entry has, charged to the client; less, credited to the client or
\* left available; a payment from a wallet; one of another currency.
MCBodies ==
  { Sent(7, "p", "unallocated"), Sent(3, "none", "client_credit"),
    Paid(1, "none", "unallocated"), Paid(2, "a1", "fee"), OtherCurrency }

\* Part of what an entry has, or what is left of it.
MergeBodies == { Sent(3, "none", "unallocated"), Paid(2, "a1", "fee") }

OtherCurrencyBodies == {OtherCurrency}

\* Two requests are interchangeable.
RequestSymmetry == Permutations(Requests)
============================================================================
