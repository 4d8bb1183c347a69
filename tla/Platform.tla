------------------------------ MODULE Platform ------------------------------
(***************************************************************************)
(* The platform under the companies' business: accounts and sessions,      *)
(* platform administrators, the deletion of a company.  All three see the  *)
(* users table, each as much of it as its requests read.  Whatever a call  *)
(* does to what a part sees is an action of that part: delete_company,     *)
(* delete_platform_admin and set_user_status are told in full where their  *)
(* statements interleave, and again in Sessions (DeleteCompany,            *)
(* DeleteAdmin, SetActive) as what they do to the accounts and sessions.   *)
(* So no part reads a variable of another, any interleaving of theirs      *)
(* projects on one behaviour of each, and a behaviour of this module       *)
(* serves requests for one of them, whichever Init chooses.                *)
(***************************************************************************)
EXTENDS Sessions, PlatformAdmins, CompanyDeletion

VARIABLE part    \* what the requests are for

vars == <<part, sessionVars, adminVars, deletionVars>>

Init ==
  /\ part \in {"accounts", "administrators", "deletion"}
  /\ SessionsInit
  /\ part # "accounts" => scenario = CHOOSE s \in Scenarios : TRUE
  /\ AdminsInit
  /\ DeletionInit

ServeAccounts ==
  /\ part = "accounts"
  /\ SessionsNext
  /\ UNCHANGED <<part, adminVars, deletionVars>>

ServeAdministrators ==
  /\ part = "administrators"
  /\ AdminsNext
  /\ UNCHANGED <<part, sessionVars, deletionVars>>

ServeDeletion ==
  /\ part = "deletion"
  /\ DeletionNext
  /\ UNCHANGED <<part, sessionVars, adminVars>>

Next == ServeAccounts \/ ServeAdministrators \/ ServeDeletion

Spec == Init /\ [][Next]_vars

\* The types of the part that is served; the others are as Init left them.
TypeOK ==
  /\ part = "accounts" => SessionsTypeOK
  /\ part = "administrators" => AdminsTypeOK
  /\ part = "deletion" => DeletionTypeOK
=============================================================================
