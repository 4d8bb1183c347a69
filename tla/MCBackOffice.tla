---------------------------- MODULE MCBackOffice ----------------------------
(* Two requests at a time.                                                 *)
EXTENDS BackOffice

MCWalletsBefore == [w \in Wallets |-> [balance |-> 3, status |-> "active"]]

\* An initial balance with a fraction of a cent.
MCInitialBalances == {14}

\* A debt and a payment the wallet bears once, on one wallet or on two.
MCRebalances ==
  { [supplier |-> s, type |-> "payment", amount |-> 20, wallet |-> "w1"] : s \in Codes }
    \cup { [supplier |-> "s1", type |-> "debt", amount |-> 10, wallet |-> w] : w \in Wallets }

MCPartnerCurrency == [p \in Partners |-> "u"]

\* For the collaboration with a mode of sending or none, and for any collaboration.
MCRateBodies ==
  { [partner |-> p, mode |-> m, target |-> Anything] :
      p \in Partners, m \in Modes \cup {Anything} }
    \cup {[partner |-> Anything, mode |-> Anything, target |-> Anything]}

\* A transfer of A that B approves, and a payment of B that A approves.
MCProvenOrders ==
  [o \in {"t", "p"} |-> IF o = "t" THEN [kind |-> "transfer", creator |-> "A"]
                        ELSE [kind |-> "payment", creator |-> "B"]]
=============================================================================
