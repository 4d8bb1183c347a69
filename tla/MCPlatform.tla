----------------------------- MODULE MCPlatform -----------------------------
(* One user's account, three administrators, two companies.                *)
EXTENDS Platform

MCGrantable == {"client.manage"}

Called(handlers) == {e \in Served : e.handler \in handlers}

MCStarts ==
  { <<"absent", "absent">>, <<"absent", "active">>, <<"admin", "absent">>,
    <<"owner", "active">>, <<"employee", "active">> }

\* Guessing passwords and a code; sessions across a reset; decisions of the company and
\* the platform, whoever the user is, while calls of three scopes are made.
MCScenarios ==
  { [kinds |-> [u \in Users |-> "owner"], company |-> "active", others |-> 0,
     asked |-> {}, seconds |-> 1,
     failures |-> 3, sessions |-> 1, codes |-> 1, changes |-> 0],
    [kinds |-> [u \in Users |-> "employee"], company |-> "active", others |-> 0,
     asked |-> Called({"logout"}), seconds |-> 2,
     failures |-> 0, sessions |-> 2, codes |-> 1, changes |-> 0] }
    \cup { [kinds |-> [u \in Users |-> s[1]], company |-> s[2],
            others |-> 1, asked |-> Called({"create_client", "me", "update_settings"}),
            seconds |-> 1, failures |-> 0, sessions |-> 1, codes |-> 0,
            changes |-> IF s = <<"absent", "absent">> THEN 3 ELSE 2] : s \in MCStarts }
=============================================================================
