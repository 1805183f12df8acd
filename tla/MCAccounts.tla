----------------------------- MODULE MCAccounts -----------------------------
(* The traffic of the instances: sessions alone, links and passwords with   *)
(* requests that overlap, and everything with one request and one job;     *)
(* and, in a scene of its own, the directory.                              *)
EXTENDS Accounts, Directory, TLC

CONSTANTS r1, r2, j1, j2, u1, u2, ro1, ro2, co1, e1, e2

SessionTraffic ==
  [requests |-> {r1, r2}, jobs |-> {}, named |-> {TRUE},
   ops |-> {"register", "login", "refresh", "logout"}]

LinkTraffic ==
  [requests |-> {}, jobs |-> {j1, j2}, named |-> {TRUE},
   ops |-> {"create", "forgot", "reset_password"}]

AccountTraffic ==
  [requests |-> {r1, r2}, jobs |-> {j1}, named |-> BOOLEAN,
   ops |-> {"register", "create", "change_password",
      "accept_terms", "deactivate", "update", "replace"}]

MCMixes == {SessionTraffic, LinkTraffic, AccountTraffic}

\* Roles and levels; roles and permissions; roles over restarts; companies and
\* their users; companies and their products.
MCTopics ==
  {[ops |-> {"add_role", "swap_roles", "remove_role", "edit_role", "add_level"},
    errands |-> {e1}, names |-> {"admin", AgentName}],
   [ops |-> {"grant", "add_to_roles", "edit_role", "edit_permission"},
    errands |-> {e1}, names |-> RoleName],
   [ops |-> {"edit_role", "remove_role", "restart"},
    errands |-> {}, names |-> RoleName],
   [ops |-> {"edit_company", "add_users", "remove_users", "replace_user"},
    errands |-> {e1, e2}, names |-> {}],
   [ops |-> {"edit_company", "edit_product", "add_products", "remove_products",
             "add_companies", "remove_companies", "restart"},
    errands |-> {e1}, names |-> {}]}

MCNeeded == [op \in UNION {t.ops : t \in MCTopics} |->
               IF op \in {"edit_role", "edit_permission"} THEN "edit" ELSE "use"]

MCSeeded == [r \in Role |-> CASE r = ro1 -> "admin" [] r = ro2 -> AgentName [] OTHER -> NoName]

MCGranted == [n \in RoleName |-> IF n = "admin" THEN {"edit", "use"} ELSE {}]

MCStaff == [n \in RoleName |-> CASE n = "admin" -> {u1} [] n = AgentName -> {u2} [] OTHER -> {}]

MCHired == [u \in User |-> IF u = u2 THEN co1 ELSE NoCompany]

VARIABLE scene   \* "accounts" or "directory": the other one does nothing

AccountsScene ==
  /\ scene = "accounts" /\ AcctNext /\ UNCHANGED dirVars

DirectoryScene ==
  /\ scene = "directory" /\ DirNext /\ UNCHANGED vars

ScenesInit ==
  /\ AcctInit /\ DirInit
  /\ \/ scene = "accounts" /\ topic = CHOOSE s \in Topics : TRUE
     \/ scene = "directory" /\ mix = CHOOSE m \in Mixes : TRUE

ScenesSpec ==
  ScenesInit /\ [][(AccountsScene \/ DirectoryScene) /\ UNCHANGED scene]_<<vars, dirVars, scene>>

Symmetry == Permutations(Id) \union Permutations(Link) \union Permutations({r1, r2})
              \union Permutations({e1, e2})
=============================================================================
