------------------------------ MODULE Sessions ------------------------------
(***************************************************************************)
(* Accounts and their sessions: login with a lock after repeated failures, *)
(* refresh, logout, reset of the password by a one-time code, the checks   *)
(* every authenticated call goes through, and the decisions of owners and  *)
(* administrators those checks read.  Rows are read without a lock and     *)
(* written later, only in the columns the transaction changed.             *)
(*                                                                         *)
(* A lock expires when its action says so; a token or code that has        *)
(* expired is one that nobody presents any more.  A token carries its time *)
(* of issue (iat), truncated to the second, the account the time of its    *)
(* last reset (password_changed_at), which is not: a token of the second   *)
(* of the reset is older than it.  Passwords are right or wrong.           *)
(***************************************************************************)
EXTENDS Transactions, Endpoints

CONSTANTS
  Users,
  Grantable,       \* the permissions an employer gives and takes
  MaxFailed,       \* MAX_FAILED_LOGIN_ATTEMPTS
  MaxCodeAttempts, \* OTP_MAX_ATTEMPTS
  Scenarios        \* bounds on what happens: a behaviour keeps to one of these

\* What the users and their company are at first, the active administrators there are
\* besides, the endpoints called, and how many seconds are told apart, failures counted on an
\* account, pairs of tokens issued, one-time codes requested, decisions of owners and administrators taken.
Scenario ==
  [kinds : [Users -> {"absent", "owner", "employee", "admin"}], company : {"absent", "active"},
   others : Nat, asked : SUBSET Served, seconds : Nat, failures : Nat, sessions : Nat,
   codes : Nat, changes : Nat]

ASSUME SessionsAssumption ==
  /\ Grantable \subseteq Permission
  /\ MaxFailed \in Nat \ {0} /\ MaxCodeAttempts \in Nat \ {0}
  /\ \A s \in Scenarios :
       /\ s \in Scenario
       /\ s.company = "absent" => \A u \in Users : s.kinds[u] \in {"absent", "admin"}

VARIABLES
  scenario,     \* the bounds of this behaviour
  account,      \* [Users -> row of users]
  overrides,    \* [Users -> [Grantable -> "none", "grant" or "revoke"]]
  company,      \* companies.status of the users' company
  settings,     \* [maintenance, approval]: the row of platform_settings
  sessions,     \* Seq(pair of tokens)
  codes,        \* Seq(row of password_reset_otps)
  now,          \* the current second
  changedAt,    \* [Users -> second of password_changed_at, 0 if it is null]
  serving,      \* [Requests -> a request in progress]
  changes,      \* number of decisions of owners and administrators
  barred,       \* history: [Requests -> what has barred it since it started]
  resets,       \* history: [Users -> number of resets]
  wrong,        \* history: [Users -> wrong passwords answered in a row]
  racedAccounts \* history: the users whose row was written from a stale read

sessionVars ==
  <<scenario, account, overrides, company, settings, sessions, codes, now, changedAt, serving, changes,
    barred, resets, wrong, racedAccounts>>

Lock == {"none", "running", "expired"}

\* gone: the row has been deleted; a request that read it still knows what it was.
Account == [kind : {"absent", "owner", "employee", "admin"}, gone : BOOLEAN, active : BOOLEAN,
            failed : Nat, lock : Lock, logged : BOOLEAN]

TokenState == {"live", "revoked"}

\* epoch and raced are history: the resets when the password was checked, and whether
\* one was under way when the tokens were issued, or over since the check.
Pair == [user : Users, access : TokenState, refresh : TokenState, iat : Nat, epoch : Nat,
         raced : BOOLEAN]

\* tried and uses are history: wrong answers to the code, resets by it.
Code == [user : Users, used : BOOLEAN, attempts : Nat, tried : Nat, uses : Nat]

NoEndpoint == [handler |-> "none", scope |-> "account", any |-> {}]

\* A request in progress: whose it is, the pair or the code it is about, what it read,
\* the time a reset took, and whether another request wrote that row since; granted, what
\* was, and the endpoint of a call.
NotServing ==
  [does |-> "nothing", grants |-> "nothing", endpoint |-> NoEndpoint, subject |-> "nobody",
   item |-> 0, right |-> FALSE, failed |-> 0, lock |-> "none", attempts |-> 0, epoch |-> 0,
   stamp |-> 0, overtaken |-> FALSE]

SessionsInit ==
  /\ scenario \in Scenarios
  /\ company = scenario.company
  /\ account = [u \in Users |-> [kind |-> scenario.kinds[u], gone |-> FALSE, active |-> TRUE,
                                 failed |-> 0, lock |-> "none", logged |-> FALSE]]
  /\ overrides = [u \in Users |-> [p \in Grantable |-> "none"]]
  /\ settings = [maintenance |-> FALSE, approval |-> FALSE]
  /\ sessions = <<>>
  /\ codes = <<>>
  /\ now = 1
  /\ changedAt = [u \in Users |-> 0]
  /\ serving = [r \in Requests |-> NotServing]
  /\ changes = 0
  /\ barred = [r \in Requests |-> {}]
  /\ resets = [u \in Users |-> 0]
  /\ wrong = [u \in Users |-> 0]
  /\ racedAccounts = {}

Known(u) == account[u].kind # "absent" /\ ~account[u].gone

Admin(u) == account[u].kind = "admin"

---------------------------------------------------------------------------
(* Checks on an account and its company.                                   *)

\* _ensure_company_active: neither suspended nor waiting for approval.
CompanyActive(u) == Admin(u) \/ company = "active"

\* get_current_user is content with a company that is not suspended.
CompanyServed(u) == Admin(u) \/ company \in {"active", "pending"}

\* is_active, read with the row.
Active(u) == Known(u) /\ account[u].active

\* get_effective_permission_codes: the employee's role has no permission of its own.
Effective(u) ==
  IF account[u].kind = "employee" THEN {p \in Grantable : overrides[u][p] = "grant"}
  ELSE Permission

\* Mutant: any override lets an employee pass.
AllowedByAnyOverride(u, e) ==
  /\ e.scope \in {"company", "owner"} => ~Admin(u)
  /\ e.scope = "owner" => account[u].kind = "owner"
  /\ e.scope = "platform" => Admin(u)
  /\ account[u].kind = "employee" /\ e.any # {} =>
       \E p \in e.any \cap Grantable : overrides[u][p] # "none"

\* The dependencies of an endpoint.
Allowed(u, e) ==
  /\ e.scope \in {"company", "owner"} => ~Admin(u)
  /\ e.scope = "owner" => account[u].kind = "owner"
  /\ e.scope = "platform" => Admin(u)
  /\ account[u].kind = "employee" /\ e.any # {} => e.any \cap Effective(u) # {}

\* Maintenance spares super administrators and the paths of the administration.
OutOfMaintenance(u, e) == ~settings.maintenance \/ Admin(u) \/ e.scope = "platform"

---------------------------------------------------------------------------
(* Requests in progress.                                                   *)

Idle(r) == serving[r].does = "nothing"

\* UPDATE writes a column only if the transaction changed what it read.
Write(read, new, row) == IF new = read THEN row ELSE new

\* The requests once r committed on the row of its user: it is over, and what the
\* others read of that row is old.
Overtaking(r, over) ==
  [x \in Requests |->
     IF x = r THEN over
     ELSE IF /\ serving[x].does \in {"login", "reset"}
             /\ serving[x].subject = serving[r].subject THEN [serving[x] EXCEPT !.overtaken = TRUE]
     ELSE serving[x]]

Granted(r) == [serving[r] EXCEPT !.does = "granted", !.grants = serving[r].does]

\* A reset of u has taken its time, in a second that is over, and has yet to commit.
ResetUnderWay(u) ==
  \E x \in Requests :
    LET q == serving[x]
    IN q.does = "reset" /\ q.right /\ q.subject = u /\ q.stamp < now

\* A pair of tokens for u, who proved the password when there had been epoch resets.
NewPair(u, epoch, raced) ==
  [user |-> u, access |-> "live", refresh |-> "live", iat |-> now, epoch |-> epoch,
   raced |-> raced \/ epoch # resets[u] \/ ResetUnderWay(u)]

\* Mutant: the time of the reset is truncated too, its second is not before it.
StaleIfEarlier(s) == s.iat < changedAt[s.user]

\* iat < password_changed_at, which is somewhere in its second.
Stale(s) == s.iat <= changedAt[s.user]

\* Bound: pairs of tokens issued or to be issued.
RoomForPair ==
  Len(sessions) + Cardinality({x \in Requests : \/ serving[x].does = "login" /\ serving[x].right
                                               \/ serving[x].does = "refresh"}) < scenario.sessions

---------------------------------------------------------------------------
(* Login.                                                                  *)

\* login up to the answer: the user, the setting and the company are read, the lock
\* is compared with the clock, the password is verified.
StartLogin(r, u, right) ==
  /\ Idle(r)
  /\ Known(u)
  /\ settings.maintenance => Admin(u)
  /\ CompanyActive(u)
  /\ account[u].lock # "running"
  /\ IF right THEN account[u].active /\ RoomForPair ELSE account[u].failed < scenario.failures
  /\ serving' = [serving EXCEPT ![r] =
       [NotServing EXCEPT !.does = "login", !.subject = u, !.right = right,
                          !.failed = account[u].failed, !.lock = account[u].lock,
                          !.epoch = resets[u]]]
  /\ UNCHANGED <<account, overrides, company, settings, sessions, codes, now, changedAt,
                 changes, resets, wrong, racedAccounts>>

\* Mutant: the last failure before the lock is not counted.
LockAfterLate(failed) == failed > MaxFailed

LockAfter(failed) == failed >= MaxFailed

\* A wrong password: one more failure than was read, and a lock from the fifth on.
FailLogin(r) ==
  LET q == serving[r]
      u == q.subject
  IN /\ q.does = "login" /\ ~q.right
     /\ Known(u)
     /\ account' = [account EXCEPT
          ![u].failed = q.failed + 1,
          ![u].lock = IF LockAfter(q.failed + 1) THEN "running" ELSE @,
          ![u].logged = TRUE]
     /\ wrong' = [wrong EXCEPT ![u] = @ + 1]
     /\ racedAccounts' = racedAccounts \cup IF q.overtaken THEN {u} ELSE {}
     /\ serving' = Overtaking(r, NotServing)
     /\ UNCHANGED <<overrides, company, settings, sessions, codes, now, changedAt, changes, resets>>

\* The right one: failures and an expired lock are cleared, then tokens are issued.
FinishLogin(r) ==
  LET q == serving[r]
      u == q.subject
  IN /\ q.does = "login" /\ q.right
     /\ Known(u)
     /\ account' = [account EXCEPT ![u].failed = Write(q.failed, 0, @),
                                   ![u].lock = Write(q.lock, "none", @)]
     /\ wrong' = [wrong EXCEPT ![u] = 0]
     /\ racedAccounts' = racedAccounts \cup IF q.overtaken THEN {u} ELSE {}
     /\ sessions' = Append(sessions, NewPair(u, q.epoch, FALSE))
     /\ serving' = Overtaking(r, Granted(r))
     /\ UNCHANGED <<overrides, company, settings, codes, now, changedAt, changes, resets>>

---------------------------------------------------------------------------
(* Tokens.                                                                 *)

\* A token of the pair is decoded and not among the revoked ones.
StartWithToken(r, does, i) ==
  /\ Idle(r)
  /\ serving' = [serving EXCEPT ![r] =
       [NotServing EXCEPT !.does = does, !.subject = sessions[i].user, !.item = i]]
  /\ UNCHANGED <<account, overrides, company, settings, sessions, codes, now, changedAt,
                 changes, resets, wrong, racedAccounts>>

StartRefresh(r, i) ==
  /\ sessions[i].refresh = "live"
  /\ RoomForPair
  /\ StartWithToken(r, "refresh", i)

StartCall(r, i) ==
  /\ sessions[i].access = "live"
  /\ scenario.asked # {}
  /\ StartWithToken(r, "call", i)

\* The user's row: active, not locked when it refreshes, no reset since the token.
ReadUser(r) ==
  LET q == serving[r]
  IN /\ q.does \in {"refresh", "call"} /\ ~q.right
     /\ Active(q.subject)
     /\ q.does = "refresh" => account[q.subject].lock # "running"
     /\ ~Stale(sessions[q.item])
     /\ serving' = [serving EXCEPT ![r].right = TRUE]
     /\ UNCHANGED <<account, overrides, company, settings, sessions, codes, now, changedAt,
                    changes, resets, wrong, racedAccounts>>

\* The company, then another pair; the one presented stays valid.
FinishRefresh(r) ==
  LET q == serving[r]
      s == sessions[q.item]
  IN /\ q.does = "refresh" /\ q.right
     /\ CompanyActive(q.subject)
     /\ sessions' = Append(sessions, NewPair(q.subject, s.epoch, s.raced))
     /\ serving' = [serving EXCEPT ![r] = Granted(r)]
     /\ UNCHANGED <<account, overrides, company, settings, codes, now, changedAt, changes,
                    resets, wrong, racedAccounts>>

\* The company, the setting and the permissions, then the handler.
Serve(r, e) ==
  LET q == serving[r]
  IN /\ q.does = "call" /\ q.right
     /\ CompanyServed(q.subject)
     /\ OutOfMaintenance(q.subject, e)
     /\ Allowed(q.subject, e)
     /\ serving' = [serving EXCEPT ![r] = [Granted(r) EXCEPT !.endpoint = e]]
     /\ UNCHANGED <<account, overrides, company, settings, sessions, codes, now, changedAt,
                    changes, resets, wrong, racedAccounts>>

\* The handler of a call to logout: the access token of the call and the refresh token
\* that came with it, of whatever pair, if there was one.
Logout(r, brought) ==
  LET q == serving[r]
  IN /\ q.does = "granted" /\ q.endpoint.handler = "logout"
     /\ sessions' = [i \in DOMAIN sessions |->
          [sessions[i] EXCEPT !.access = IF i = q.item THEN "revoked" ELSE @,
                              !.refresh = IF i \in brought THEN "revoked" ELSE @]]
     /\ serving' = [serving EXCEPT ![r] = NotServing]
     /\ UNCHANGED <<account, overrides, company, settings, codes, now, changedAt, changes,
                    resets, wrong, racedAccounts>>

---------------------------------------------------------------------------
(* Reset of the password.                                                  *)

RequestPasswordReset(u) ==
  /\ Known(u)
  /\ Len(codes) < scenario.codes
  /\ codes' = Append(codes, [user |-> u, used |-> FALSE, attempts |-> 0, tried |-> 0,
                             uses |-> 0])
  /\ UNCHANGED <<account, overrides, company, settings, sessions, now, changedAt, serving,
                 changes, resets, wrong, racedAccounts>>

\* get_latest_unused.
Unused(u) == {k \in DOMAIN codes : codes[k].user = u /\ ~codes[k].used}

Answerable(c) == c.attempts < MaxCodeAttempts

\* reset_password up to its commit: the right code sets password_changed_at then and there.
StartReset(r, u, right) ==
  /\ Idle(r)
  /\ Known(u)
  /\ \E k \in Unused(u) :
       /\ \A x \in Unused(u) : x <= k
       /\ Answerable(codes[k])
       /\ serving' = [serving EXCEPT ![r] =
            [NotServing EXCEPT !.does = "reset", !.subject = u, !.item = k, !.right = right,
                               !.failed = account[u].failed, !.lock = account[u].lock,
                               !.attempts = codes[k].attempts,
                               !.stamp = IF right THEN now ELSE 0]]
  /\ UNCHANGED <<account, overrides, company, settings, sessions, codes, now, changedAt,
                 changes, resets, wrong, racedAccounts>>

FailReset(r) ==
  LET q == serving[r]
  IN /\ q.does = "reset" /\ ~q.right
     /\ Known(q.subject)
     /\ codes' = [codes EXCEPT ![q.item].attempts = q.attempts + 1, ![q.item].tried = @ + 1]
     /\ racedAccounts' = racedAccounts \cup IF q.overtaken THEN {q.subject} ELSE {}
     /\ serving' = Overtaking(r, NotServing)
     /\ UNCHANGED <<account, overrides, company, settings, sessions, now, changedAt, changes,
                    resets, wrong>>

\* Mutant: password_changed_at is left as it was, as when an employer sets a password.
NotOutdated(u, stamp) == changedAt

\* password_changed_at, as it was set before the commit.
Outdated(u, stamp) == [changedAt EXCEPT ![u] = stamp]

\* The new password, with the failures and the lock that were read cleared.
FinishReset(r) ==
  LET q == serving[r]
      u == q.subject
  IN /\ q.does = "reset" /\ q.right
     /\ Known(u)
     /\ codes' = [codes EXCEPT ![q.item].used = TRUE, ![q.item].uses = @ + 1]
     /\ account' = [account EXCEPT ![u].failed = Write(q.failed, 0, @),
                                   ![u].lock = Write(q.lock, "none", @)]
     /\ wrong' = [wrong EXCEPT ![u] = 0]
     /\ changedAt' = Outdated(u, q.stamp)
     /\ resets' = [resets EXCEPT ![u] = @ + 1]
     /\ racedAccounts' = racedAccounts \cup IF q.overtaken THEN {u} ELSE {}
     /\ serving' = Overtaking(r, NotServing)
     /\ UNCHANGED <<overrides, company, settings, sessions, now, changes>>

\* Refused at any point, or its connection lost: nothing is written.
Abort(r) ==
  /\ serving[r].does \in {"login", "refresh", "call", "reset"}
  /\ serving' = [serving EXCEPT ![r] = NotServing]
  /\ UNCHANGED <<account, overrides, company, settings, sessions, codes, now, changedAt,
                 changes, resets, wrong, racedAccounts>>

\* The answer is sent.
Answer(r) ==
  /\ serving[r].does = "granted"
  /\ serving' = [serving EXCEPT ![r] = NotServing]
  /\ UNCHANGED <<account, overrides, company, settings, sessions, codes, now, changedAt,
                 changes, resets, wrong, racedAccounts>>

---------------------------------------------------------------------------
(* Time.                                                                   *)

LockExpires(u) ==
  /\ account[u].lock = "running"
  /\ account' = [account EXCEPT ![u].lock = "expired"]
  /\ UNCHANGED <<overrides, company, settings, sessions, codes, now, changedAt, serving, changes,
                 resets, wrong, racedAccounts>>

SecondPasses ==
  /\ now < scenario.seconds
  /\ now' = now + 1
  /\ UNCHANGED <<account, overrides, company, settings, sessions, codes, changedAt, serving,
                 changes, resets, wrong, racedAccounts>>

---------------------------------------------------------------------------
(* Decisions of owners and administrators.                                 *)

Decision ==
  /\ changes < scenario.changes
  /\ changes' = changes + 1
  /\ UNCHANGED <<sessions, codes, now, changedAt, serving, resets, wrong, racedAccounts>>

\* Mutant: a company that is not suspended lets its callers in, the absent one too.
CompanyNotSuspended == company # "suspended" /\ ~settings.maintenance

\* A caller of the users' company passes get_current_user.
CompanyAtWork == company \in {"active", "pending"} /\ ~settings.maintenance

\* count_active_super_admins, those who are among Users and those who are not.
ActiveSuperAdmins ==
  scenario.others + Cardinality({u \in Users : Admin(u) /\ Active(u)})

\* An active administrator other than u takes the decision.
AdministratorBut(u) == scenario.others > 0 \/ \E v \in Users \ {u} : Admin(v) /\ Active(v)

Administrator == ActiveSuperAdmins > 0

\* has_user_dependencies: logs, codes and overrides, of what is modelled here.
Unreferenced(u) ==
  /\ \A p \in Grantable : overrides[u][p] = "none"
  /\ \A k \in DOMAIN codes : codes[k].user # u
  /\ ~account[u].logged

\* register: refused in maintenance, pending where approval is required.
Register(u) ==
  /\ Decision
  /\ account[u].kind = "absent" /\ company = "absent"
  /\ ~settings.maintenance
  /\ company' = IF settings.approval THEN "pending" ELSE "active"
  /\ account' = [account EXCEPT ![u].kind = "owner"]
  /\ UNCHANGED <<overrides, settings>>

\* admin_service.create_company: in the status the administrator gives.
CreateCompany(u, status) ==
  /\ Decision
  /\ Administrator
  /\ account[u].kind = "absent" /\ company = "absent"
  /\ company' = status
  /\ account' = [account EXCEPT ![u].kind = "owner"]
  /\ UNCHANGED <<overrides, settings>>

SetCompanyStatus(status) ==
  /\ Decision
  /\ Administrator
  /\ company # "absent"
  /\ company' = status
  /\ UNCHANGED <<account, overrides, settings>>

UpdateSettings(maintenance, approval) ==
  /\ Decision
  /\ Administrator
  /\ settings' = [maintenance |-> maintenance, approval |-> approval]
  /\ UNCHANGED <<account, overrides, company>>

CreateEmployee(u, grant) ==
  /\ Decision
  /\ account[u].kind = "absent"
  /\ CompanyAtWork
  /\ account' = [account EXCEPT ![u].kind = "employee"]
  /\ overrides' = [overrides EXCEPT ![u] = [p \in Grantable |-> IF p \in grant THEN "grant" ELSE @[p]]]
  /\ UNCHANGED <<company, settings>>

UpdatePermissions(u, grant, revoke) ==
  /\ Decision
  /\ account[u].kind = "employee" /\ Known(u)
  /\ CompanyAtWork
  /\ overrides' = [overrides EXCEPT ![u] =
       [p \in Grantable |-> IF p \in revoke THEN "revoke" ELSE IF p \in grant THEN "grant" ELSE @[p]]]
  /\ UNCHANGED <<account, company, settings>>

\* By the company for an employee, by an administrator for anyone, except that an
\* administrator is suspended by another one, and not the last who is active.
SetActive(u, active) ==
  /\ Decision
  /\ Known(u)
  /\ \/ account[u].kind = "employee" /\ CompanyAtWork
     \/ ~Admin(u) /\ Administrator
     \/ Admin(u) /\ active /\ Administrator
     \/ Admin(u) /\ ~active /\ AdministratorBut(u) /\ ActiveSuperAdmins > 1
  /\ account' = [account EXCEPT ![u].active = active]
  /\ UNCHANGED <<overrides, company, settings>>

\* Only an employee no other row refers to.
DeleteEmployee(u) ==
  /\ Decision
  /\ account[u].kind = "employee" /\ Known(u)
  /\ CompanyAtWork
  /\ Unreferenced(u)
  /\ account' = [account EXCEPT ![u].gone = TRUE]
  /\ UNCHANGED <<overrides, company, settings>>

\* delete_platform_admin: not the last active one, and one no other row refers to.
DeleteAdmin(u) ==
  /\ Decision
  /\ Admin(u) /\ Known(u)
  /\ Administrator
  /\ account[u].active => ActiveSuperAdmins > 1
  /\ Unreferenced(u)
  /\ account' = [account EXCEPT ![u].gone = TRUE]
  /\ UNCHANGED <<overrides, company, settings>>

\* delete_company, as far as accounts go: its users are deleted with it, their overrides
\* and codes by cascade (nobody can answer a code of theirs any more).
DeleteCompany ==
  /\ Decision
  /\ Administrator
  /\ company # "absent"
  /\ company' = "absent"
  /\ account' = [u \in Users |->
       [account[u] EXCEPT !.gone = @ \/ account[u].kind \in {"owner", "employee"}]]
  /\ overrides' = [u \in Users |-> [p \in Grantable |-> "none"]]
  /\ UNCHANGED settings

---------------------------------------------------------------------------
Handling(r) ==
  \/ \E u \in Users, right \in BOOLEAN : StartLogin(r, u, right) \/ StartReset(r, u, right)
  \/ \E i \in DOMAIN sessions : StartRefresh(r, i) \/ StartCall(r, i)
  \/ FailLogin(r)
  \/ FinishLogin(r)
  \/ ReadUser(r)
  \/ FinishRefresh(r)
  \/ \E e \in scenario.asked : Serve(r, e)
  \/ FailReset(r)
  \/ FinishReset(r)
  \/ Abort(r)
  \/ Answer(r)
  \/ Logout(r, {}) \/ \E i \in DOMAIN sessions : Logout(r, {i})

Deciding ==
  \/ \E status \in {"active", "pending", "suspended"} :
       SetCompanyStatus(status) \/ \E u \in Users : CreateCompany(u, status)
  \/ \E maintenance, approval \in BOOLEAN : UpdateSettings(maintenance, approval)
  \/ \E u \in Users : Register(u) \/ DeleteEmployee(u) \/ DeleteAdmin(u)
  \/ DeleteCompany
  \/ \E u \in Users, active \in BOOLEAN : SetActive(u, active)
  \/ \E u \in Users, grant \in SUBSET Grantable : CreateEmployee(u, grant)
  \/ \E u \in Users, grant \in SUBSET Grantable, revoke \in SUBSET Grantable :
       UpdatePermissions(u, grant, revoke)

SessionsStep ==
  \/ \E r \in Requests : Handling(r)
  \/ \E u \in Users : RequestPasswordReset(u) \/ LockExpires(u)
  \/ SecondPasses
  \/ Deciding

\* The token of its pair a refresh or a call presents.
Presented(q) ==
  IF "refresh" \in {q.does, q.grants} THEN sessions[q.item].refresh ELSE sessions[q.item].access

\* What bars the request r in the current state.
BarsOn(r) ==
  LET q == serving[r]
      u == q.subject
      bar == [stale |-> q.item # 0 /\ Stale(sessions[q.item]),
              revoked |-> q.item # 0 /\ Presented(q) = "revoked",
              inactive |-> ~Active(u),
              locked |-> account[u].lock = "running",
              suspended |-> ~CompanyServed(u),
              pending |-> ~CompanyActive(u),
              maintenance |-> settings.maintenance /\ ~Admin(u)]
  IN {b \in DOMAIN bar : bar[b]} \cup (Permission \ Effective(u))

\* History: what barred a request in every state from its start to its granting.
Watched ==
  barred' = [r \in Requests |->
    IF serving'[r].does \in {"nothing", "reset"} THEN {}
    ELSE IF serving[r].does = "granted" THEN barred[r]
    ELSE IF Idle(r) THEN BarsOn(r)'
    ELSE barred[r] \cap BarsOn(r)']

SessionsNext == SessionsStep /\ Watched /\ UNCHANGED scenario

---------------------------------------------------------------------------
(* Properties.                                                             *)

\* Every row has its type, and a user who is not an administrator has a company.
SessionsTypeOK ==
  /\ account \in [Users -> Account]
  /\ overrides \in [Users -> [Grantable -> {"none", "grant", "revoke"}]]
  /\ company \in {"absent", "active", "pending", "suspended"}
  /\ company = "absent" => \A u \in Users : Known(u) => Admin(u)
  /\ settings \in [maintenance : BOOLEAN, approval : BOOLEAN]
  /\ sessions \in Seq(Pair) /\ Len(sessions) <= scenario.sessions
  /\ codes \in Seq(Code) /\ Len(codes) <= scenario.codes
  /\ now \in Nat /\ changedAt \in [Users -> Nat]
  /\ \A r \in Requests : Idle(r) <=> serving[r] = NotServing
  /\ resets \in [Users -> Nat]
  /\ racedAccounts \subseteq Users

\* Once a reset of the password is committed, every session begun under an earlier password
\* is over, whichever second its tokens, the reset and its commit are of, and whatever other
\* resets there are: only those survive whose login or refresh overlapped the reset, being
\* checked before its commit and issued in a later second than it took its time (the
\* comment at password_changed_at says "forcément" of these too).
EarlierSessionsAreOver ==
  \A i \in DOMAIN sessions :
    LET s == sessions[i]
    IN s.epoch < resets[s.user] /\ ~s.raced => Stale(s)

\* On an account no two requests wrote at a time, every wrong password since the last
\* right one or the last reset counts, from MaxFailed of them on there is a lock, and a
\* code that was tried MaxCodeAttempts times or used once is worth nothing.
GuessesAreBounded ==
  \A u \in Users \ racedAccounts :
    /\ account[u].failed = wrong[u]
    /\ account[u].lock # "none" <=> wrong[u] >= MaxFailed
    /\ \A k \in DOMAIN codes : codes[k].user = u =>
         codes[k].tried <= MaxCodeAttempts /\ codes[k].uses <= 1

\* A login, a refresh or a call is granted only if nothing that bars it held from its
\* start to its granting: a decision, a logout, a reset or a withdrawn permission bars
\* every request that starts after it.
NothingGrantedWhileBarred ==
  \A r \in Requests :
    LET q == serving[r]
    IN q.does = "granted" =>
         /\ barred[r] \cap {"inactive", "suspended"} = {}
         /\ q.grants \in {"login", "refresh"} => barred[r] \cap {"pending", "locked"} = {}
         /\ q.grants = "login" => "maintenance" \notin barred[r]
         /\ q.grants \in {"refresh", "call"} => barred[r] \cap {"stale", "revoked"} = {}
         /\ q.grants = "call" =>
              /\ q.endpoint.scope # "platform" => "maintenance" \notin barred[r]
              /\ q.endpoint.any = {} \/ ~(q.endpoint.any \subseteq barred[r])
=============================================================================
