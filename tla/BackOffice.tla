----------------------------- MODULE BackOffice -----------------------------
(***************************************************************************)
(* Four services around the settlements: suppliers, private sending rates, *)
(* proofs of payment and notifications.  They write no row in common, so   *)
(* any interleaving of theirs projects on one behaviour of each: a         *)
(* behaviour of this module serves requests for one of them, whichever     *)
(* Init chooses.                                                           *)
(***************************************************************************)
EXTENDS Suppliers, PrivateRates, Proofs, Notifications

VARIABLE part    \* the service the requests are for

vars == <<part, supplierVars, rateVars, proofVars, notificationVars>>

Init ==
  /\ part \in {"suppliers", "private rates", "proofs", "notifications"}
  /\ SuppliersInit
  /\ RatesInit
  /\ ProofsInit
  /\ NotificationsInit

ServeSuppliers ==
  /\ part = "suppliers"
  /\ SuppliersNext
  /\ UNCHANGED <<part, rateVars, proofVars, notificationVars>>

ServePrivateRates ==
  /\ part = "private rates"
  /\ RatesNext
  /\ UNCHANGED <<part, supplierVars, proofVars, notificationVars>>

ServeProofs ==
  /\ part = "proofs"
  /\ ProofsNext
  /\ UNCHANGED <<part, supplierVars, rateVars, notificationVars>>

ServeNotifications ==
  /\ part = "notifications"
  /\ NotificationsNext
  /\ UNCHANGED <<part, supplierVars, rateVars, proofVars>>

Next == ServeSuppliers \/ ServePrivateRates \/ ServeProofs \/ ServeNotifications

\* What the event loop does leaves the other services alone.
Alone == UNCHANGED <<part, supplierVars, rateVars, proofVars>>

\* The event loop is fair to a coroutine whose commit returned and to a stream that
\* has something in its queue.  Nothing is assumed of services, users or browsers.
Fairness ==
  /\ \A r \in Requests : WF_vars(BroadcastAfterCommit(r) /\ Alone)
  /\ \A l \in Streams : WF_vars(Deliver(l) /\ Alone)

Spec == Init /\ [][Next]_vars /\ Fairness

\* The types of the four services.
TypeOK ==
  /\ SuppliersTypeOK
  /\ RatesTypeOK
  /\ ProofsTypeOK
  /\ NotificationsTypeOK
=============================================================================
