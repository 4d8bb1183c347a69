----------------------- MODULE MCNationalOperations -----------------------
(* Two companies; the first owns every wallet: 1, 2 and 3 in currency "a",  *)
(* 4 in currency "b".  The second sends requests on them all the same.      *)
EXTENDS NationalOperations, TLC

MCWallets == 1..4
MCOwner == [w \in MCWallets |-> "c1"]
MCCurrency == [w \in MCWallets |-> IF w = 4 THEN "b" ELSE "a"]

\* The body with these amounts, each declared in the currency given.
Body(amount, currency, rate) ==
  [lines |-> DOMAIN amount,
   amount |-> [w \in MCWallets |-> IF w \in DOMAIN amount THEN amount[w] ELSE 0],
   currency |-> [w \in MCWallets |-> IF w \in DOMAIN currency THEN currency[w] ELSE MCCurrency[w]],
   rate |-> rate]

\* In half cents: a cent from wallet 1 to wallet 2; a cent out of 3, half of it
\* into 1 and half into 2; 3 against 4 at a rate of two; 1 against 2 at a rate
\* of three, the second declared in the wrong currency.
MCPayloads ==
  { Body(1 :> -2 @@ 2 :> 2, <<>>, 0),
    Body(1 :> 1 @@ 2 :> 1 @@ 3 :> -2, <<>>, 0),
    Body(3 :> -2 @@ 4 :> 4, <<>>, 2),
    Body(1 :> -2 @@ 2 :> 6, 2 :> "b", 3) }
===========================================================================
