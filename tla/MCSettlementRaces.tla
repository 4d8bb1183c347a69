------------------------- MODULE MCSettlementRaces -------------------------
(* The companies, wallets and bodies of MCSettlements, with what overlapping *)
(* requests do to entries and clients.                                       *)
EXTENDS MCSettlements, SettlementRaces
============================================================================
