--------------------------- MODULE PlatformAdmins ---------------------------
(***************************************************************************)
(* The super administrators of the platform: created, suspended,           *)
(* reactivated and deleted by one another, as long as an active one stays. *)
(* The active ones are counted without a lock, the row is written at the   *)
(* commit.                                                                 *)
(***************************************************************************)
EXTENDS Transactions

CONSTANTS
  Admins,
  FirstAdmin    \* the one scripts/seed_super_admin.py makes

ASSUME AdminsAssumption == FirstAdmin \in Admins

VARIABLES
  admins,          \* [Admins -> status of the row of users]
  removing,        \* [Requests -> a suspension or deletion in progress]
  removalsRaced    \* history: a removal was committed on an old count

adminVars == <<admins, removing, removalsRaced>>

AdminStatus == {"absent", "active", "suspended", "deleted"}

\* admin is the one removed, by the caller.
Removal ==
  [does : {"suspend", "delete"}, admin : Admins, by : Admins, overtaken : BOOLEAN]

NoRemoval == [does |-> "nothing"]

ActiveAdmins == {a \in Admins : admins[a] = "active"}

AdminsInit ==
  /\ admins = [a \in Admins |-> IF a = FirstAdmin THEN "active" ELSE "absent"]
  /\ removing = [r \in Requests |-> NoRemoval]
  /\ removalsRaced = FALSE

Removable(a) == admins[a] \in {"active", "suspended"}

\* Mutant: the suspended ones are counted too.
OneOfSeveralAccounts == Cardinality({a \in Admins : Removable(a)}) > 1

\* count_active_super_admins is more than one.
OneOfSeveral == Cardinality(ActiveAdmins) > 1

StartRemoval(r, does, a, by) ==
  /\ removing[r] = NoRemoval
  /\ by \in ActiveAdmins
  /\ Removable(a)
  /\ removing' = [removing EXCEPT ![r] =
       [does |-> does, admin |-> a, by |-> by, overtaken |-> FALSE]]
  /\ UNCHANGED <<admins, removalsRaced>>

\* set_user_status up to the write: not oneself, and one of several active ones.
StartSuspend(r, a, by) ==
  /\ a # by
  /\ OneOfSeveral
  /\ StartRemoval(r, "suspend", a, by)

\* delete_platform_admin up to the write: an active one only if it is one of several.
StartDelete(r, a, by) ==
  /\ a \in ActiveAdmins => OneOfSeveral
  /\ StartRemoval(r, "delete", a, by)

\* The commit: the row is still there, and the caller's, which the audit log refers to.
FinishRemoval(r) ==
  LET q == removing[r]
  IN /\ q # NoRemoval
     /\ Removable(q.admin) /\ Removable(q.by)
     /\ admins' = [admins EXCEPT ![q.admin] = IF q.does = "delete" THEN "deleted" ELSE "suspended"]
     /\ removing' = [x \in Requests |->
          IF x = r \/ removing[x] = NoRemoval THEN NoRemoval
          ELSE [removing[x] EXCEPT !.overtaken = TRUE]]
     /\ removalsRaced' = (removalsRaced \/ q.overtaken)

\* Refused (the account has dependencies, its row is gone) or interrupted.
AbortRemoval(r) ==
  /\ removing[r] # NoRemoval
  /\ removing' = [removing EXCEPT ![r] = NoRemoval]
  /\ UNCHANGED <<admins, removalsRaced>>

\* create_platform_admin, set_user_status with is_active.
Enable(a) ==
  /\ ActiveAdmins # {}
  /\ admins[a] \in {"absent", "suspended"}
  /\ admins' = [admins EXCEPT ![a] = "active"]
  /\ UNCHANGED <<removing, removalsRaced>>

AdminsNext ==
  \/ \E r \in Requests, a, by \in Admins : StartSuspend(r, a, by) \/ StartDelete(r, a, by)
  \/ \E r \in Requests : FinishRemoval(r) \/ AbortRemoval(r)
  \/ \E a \in Admins : Enable(a)

AdminsSpec == AdminsInit /\ [][AdminsNext]_adminVars

---------------------------------------------------------------------------
AdminsTypeOK ==
  /\ admins \in [Admins -> AdminStatus]
  /\ removing \in [Requests -> Removal \cup {NoRemoval}]
  /\ removalsRaced \in BOOLEAN

\* There is always a super administrator who can log in, whatever sequence of
\* suspensions, deletions and reactivations led there, unless two removals overlapped
\* (each counts before the other commits).
LastAdminStays == removalsRaced \/ ActiveAdmins # {}
=============================================================================
