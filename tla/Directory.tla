------------------------------ MODULE Directory ------------------------------
(***************************************************************************)
(* Who may do what, and who belongs where: roles, permissions and support  *)
(* levels of the users (app/domains/auth), companies, their users and      *)
(* their products (app/domains/companies and products).                    *)
(*                                                                         *)
(* Everything is rows of relations.  An operation that adds rows checks    *)
(* first and inserts later; what was checked may be gone by then.  The     *)
(* foreign keys have no cascade: an insertion that names a row that is     *)
(* gone fails and rolls its transaction back, and so does the deletion of  *)
(* a row that is still named.  Companies and products are only marked as   *)
(* deleted, so their rows stay for the foreign keys.                       *)
(*                                                                         *)
(* The container runs the seed (app/seed) whenever it starts, over what is *)
(* in the tables by then.                                                  *)
(***************************************************************************)
EXTENDS FiniteSets

CONSTANTS
  User, Role, Permission, SupportLevel, Company, Product,
  RoleName,    \* names a role may have; unique in the table
  AgentName,   \* "agent"
  NoName,      \* there is no such role
  NoCompany,   \* company_id is NULL
  Errand,      \* requests in flight at the same time
  Needed,      \* operation -> the permission its route requires
  Seeded,      \* Role -> the name the seed gives this id, or NoName
  Granted,     \* RoleName -> the permissions the seed gives it
  Staff,       \* RoleName -> the users the seed gives it
  Stocked,     \* the companies and products the seed inserts
  Sold,        \* the rows of company_products the seed inserts
  Hired,       \* User -> the company the seed inserts him with
  Topics       \* [ops, errands, names]: the operations, the requests in flight,
               \* and the names given to roles, of a behaviour

ASSUME DirectoryAssumption ==
  /\ AgentName \in RoleName /\ NoName \notin RoleName
  /\ NoCompany \notin Company
  /\ Seeded \in [Role -> RoleName \union {NoName}]
  /\ Granted \in [RoleName -> SUBSET Permission]
  /\ Staff \in [RoleName -> SUBSET User]
  /\ Sold \subseteq (Company \intersect Stocked) \X (Product \intersect Stocked)
  /\ Hired \in [User -> (Company \intersect Stocked) \union {NoCompany}]
  /\ \A t \in Topics : t.names \subseteq RoleName

VARIABLES
  roleName,         \* Role -> its name, or NoName
  permission,       \* the permissions that exist
  userRoles,        \* user_roles
  rolePermissions,  \* role_permissions
  userLevels,       \* user_levels
  company, product, \* -> "absent", "live" or "deleted"
  employer,         \* users.company_id
  companyProducts,  \* company_products
  errand,           \* Errand -> [pc, op, add, remove]
  topic             \* the member of Topics this behaviour runs

accessVars == <<roleName, permission, userRoles, rolePermissions, userLevels>>
catalogVars == <<company, product, employer, companyProducts>>
dirVars == <<accessVars, catalogVars, errand, topic>>

ExistingRoles == {r \in Role : roleName[r] # NoName}

\* get_user_permissions: over all roles of the user.
Holds(u, p) == \E r \in Role : <<u, r>> \in userRoles /\ <<r, p>> \in rolePermissions

\* require_permission: some user can send the request.
Permitted(op) == \E u \in User : Holds(u, Needed[op])

\* user_has_role
IsAgent(u) == \E r \in Role : <<u, r>> \in userRoles /\ roleName[r] = AgentName

NoErrand == [pc |-> "idle", op |-> "none", add |-> {}, remove |-> {}]

Starts(e, op) ==
  /\ errand[e].pc = "idle" /\ e \in topic.errands
  /\ op \in topic.ops /\ Permitted(op)

\* The checks are made; add and remove are the rows the operation is about.
Checked(e, op, add, remove) ==
  errand' = [errand EXCEPT ![e] = [pc |-> "checked", op |-> op, add |-> add,
                                   remove |-> remove]]

Finished(e) == errand' = [errand EXCEPT ![e] = NoErrand]

Ready(e, ops) == errand[e].pc = "checked" /\ errand[e].op \in ops

-----------------------------------------------------------------------------
(* Roles of users.                                                         *)

\* POST /users/{id}/roles: the user and the roles exist.
CheckAddRole(e) ==
  /\ Starts(e, "add_role")
  /\ \E u \in User, r \in ExistingRoles : Checked(e, "add_role", {<<u, r>>}, {})
  /\ UNCHANGED <<accessVars, catalogVars, topic>>

\* PATCH /users/{id}/roles: the roles to add exist; the others are not looked up.
CheckSwapRoles(e) ==
  /\ Starts(e, "swap_roles")
  /\ \E u \in User, r \in ExistingRoles, old \in Role :
       Checked(e, "swap_roles", {<<u, r>>}, {<<u, old>>})
  /\ UNCHANGED <<accessVars, catalogVars, topic>>

\* Mutant: the removal is committed by itself.
RemovesFirst(rows, add, remove, kept) ==
  (rows \ remove) \union (IF kept THEN add ELSE {})

\* The transaction: delete, then insert; all of it or nothing.
Rewritten(rows, add, remove, kept) ==
  IF kept THEN (rows \ remove) \union add ELSE rows

WriteRoles(e) ==
  /\ Ready(e, {"add_role", "swap_roles"})
  /\ userRoles' = Rewritten(userRoles, errand[e].add, errand[e].remove,
                    \A row \in errand[e].add : row[2] \in ExistingRoles)
  /\ Finished(e)
  /\ UNCHANGED <<roleName, permission, rolePermissions, userLevels, catalogVars, topic>>

\* DELETE /users/{id}/roles
RemoveRole ==
  /\ "remove_role" \in topic.ops /\ Permitted("remove_role")
  /\ \E row \in userRoles : userRoles' = userRoles \ {row}
  /\ UNCHANGED <<roleName, permission, rolePermissions, userLevels, catalogVars,
                 errand, topic>>

-----------------------------------------------------------------------------
(* Roles and permissions.                                                  *)

\* The unique index: INSERT and UPDATE fail on a name that is taken.
NameFree(n) == \A r \in Role : roleName[r] # n

CreateRole ==
  /\ "edit_role" \in topic.ops /\ Permitted("edit_role")
  /\ \E r \in Role \ ExistingRoles, n \in topic.names :
       NameFree(n) /\ roleName' = [roleName EXCEPT ![r] = n]
  /\ UNCHANGED <<permission, userRoles, rolePermissions, userLevels, catalogVars,
                 errand, topic>>

\* PUT and PATCH /roles/{id}: any role, also one the code asks for by name.
RenameRole ==
  /\ "edit_role" \in topic.ops /\ Permitted("edit_role")
  /\ \E r \in ExistingRoles, n \in topic.names :
       NameFree(n) /\ roleName' = [roleName EXCEPT ![r] = n]
  /\ UNCHANGED <<permission, userRoles, rolePermissions, userLevels, catalogVars,
                 errand, topic>>

\* Refused by the foreign keys while the role is named.
DeleteRole ==
  /\ "edit_role" \in topic.ops /\ Permitted("edit_role")
  /\ \E r \in ExistingRoles :
       /\ \A row \in userRoles : row[2] # r
       /\ \A row \in rolePermissions : row[1] # r
       /\ roleName' = [roleName EXCEPT ![r] = NoName]
  /\ UNCHANGED <<permission, userRoles, rolePermissions, userLevels, catalogVars,
                 errand, topic>>

CreatePermission ==
  /\ "edit_permission" \in topic.ops /\ Permitted("edit_permission")
  /\ \E p \in Permission \ permission : permission' = permission \union {p}
  /\ UNCHANGED <<roleName, userRoles, rolePermissions, userLevels, catalogVars,
                 errand, topic>>

DeletePermission ==
  /\ "edit_permission" \in topic.ops /\ Permitted("edit_permission")
  /\ \E p \in permission :
       /\ \A row \in rolePermissions : row[2] # p
       /\ permission' = permission \ {p}
  /\ UNCHANGED <<roleName, userRoles, rolePermissions, userLevels, catalogVars,
                 errand, topic>>

\* POST /roles/{id}/permissions: one role, permissions that all exist.
CheckGrant(e) ==
  /\ Starts(e, "grant")
  /\ \E r \in ExistingRoles, ps \in SUBSET permission \ {{}} :
       Checked(e, "grant", {r} \X ps, {})
  /\ UNCHANGED <<accessVars, catalogVars, topic>>

\* POST /permissions/{id}/roles: one permission, roles that all exist.
CheckAddToRoles(e) ==
  /\ Starts(e, "add_to_roles")
  /\ \E p \in permission, rs \in SUBSET ExistingRoles \ {{}} :
       Checked(e, "add_to_roles", rs \X {p}, {})
  /\ UNCHANGED <<accessVars, catalogVars, topic>>

WriteGrants(e) ==
  /\ Ready(e, {"grant", "add_to_roles"})
  /\ rolePermissions' = Rewritten(rolePermissions, errand[e].add, {},
                          \A row \in errand[e].add :
                            row[1] \in ExistingRoles /\ row[2] \in permission)
  /\ Finished(e)
  /\ UNCHANGED <<roleName, permission, userRoles, userLevels, catalogVars, topic>>

-----------------------------------------------------------------------------
(* Support levels.                                                         *)

\* POST /users/{id}/levels/{id}: only an agent may get a level.
CheckAddLevel(e) ==
  /\ Starts(e, "add_level")
  /\ \E u \in User, l \in SupportLevel :
       IsAgent(u) /\ Checked(e, "add_level", {<<u, l>>}, {})
  /\ UNCHANGED <<accessVars, catalogVars, topic>>

WriteLevel(e) ==
  /\ Ready(e, {"add_level"})
  /\ userLevels' = userLevels \union errand[e].add
  /\ Finished(e)
  /\ UNCHANGED <<roleName, permission, userRoles, rolePermissions, catalogVars, topic>>

DeleteLevel ==
  /\ "add_level" \in topic.ops /\ Permitted("add_level")
  /\ \E row \in userLevels : userLevels' = userLevels \ {row}
  /\ UNCHANGED <<roleName, permission, userRoles, rolePermissions, catalogVars,
                 errand, topic>>

-----------------------------------------------------------------------------
(* Companies and products.                                                 *)

Live(f) == {x \in DOMAIN f : f[x] = "live"}

Known(f) == {x \in DOMAIN f : f[x] # "absent"}

\* create: INSERT.
CreateCompany ==
  /\ "edit_company" \in topic.ops /\ Permitted("edit_company")
  /\ \E c \in Company : company[c] = "absent" /\ company' = [company EXCEPT ![c] = "live"]
  /\ UNCHANGED <<accessVars, product, employer, companyProducts, errand, topic>>

\* soft_delete: the users and the products of the company stay with it.
SoftDeleteCompany ==
  /\ "edit_company" \in topic.ops /\ Permitted("edit_company")
  /\ \E c \in Live(company) : company' = [company EXCEPT ![c] = "deleted"]
  /\ UNCHANGED <<accessVars, product, employer, companyProducts, errand, topic>>

CreateProduct ==
  /\ "edit_product" \in topic.ops /\ Permitted("edit_product")
  /\ \E p \in Product : product[p] = "absent" /\ product' = [product EXCEPT ![p] = "live"]
  /\ UNCHANGED <<accessVars, company, employer, companyProducts, errand, topic>>

SoftDeleteProduct ==
  /\ "edit_product" \in topic.ops /\ Permitted("edit_product")
  /\ \E p \in Live(product) : product' = [product EXCEPT ![p] = "deleted"]
  /\ UNCHANGED <<accessVars, company, employer, companyProducts, errand, topic>>

\* POST and DELETE /companies/{id}/users: the company is not deleted.
CheckUsers(e, op) ==
  /\ Starts(e, op)
  /\ \E c \in Live(company), us \in SUBSET User \ {{}} :
       Checked(e, op, IF op = "add_users" THEN us \X {c} ELSE {},
                      IF op = "remove_users" THEN us \X {c} ELSE {})
  /\ UNCHANGED <<accessVars, catalogVars, topic>>

\* associate_users: wherever the users are now.
AssociateUsers(e) ==
  /\ Ready(e, {"add_users"})
  /\ employer' = [u \in User |->
       IF \E row \in errand[e].add : row[1] = u
       THEN (CHOOSE row \in errand[e].add : row[1] = u)[2] ELSE employer[u]]
  /\ Finished(e)
  /\ UNCHANGED <<accessVars, company, product, companyProducts, topic>>

\* Mutant: the users are removed from whatever company they are in.
NamesTheUser(row, u, c) == row[1] = u

\* The WHERE clause of disassociate_users.
NamesTheMember(row, u, c) == row = <<u, c>>

DisassociateUsers(e) ==
  /\ Ready(e, {"remove_users"})
  /\ employer' = [u \in User |->
       IF \E row \in errand[e].remove : NamesTheMember(row, u, employer[u])
       THEN NoCompany ELSE employer[u]]
  /\ Finished(e)
  /\ UNCHANGED <<accessVars, company, product, companyProducts, topic>>

\* PUT /users/{id}: a body without company_id writes NULL; with one, the foreign
\* key asks only that its row is there.
ReplaceUser(u, c) ==
  /\ "replace_user" \in topic.ops /\ Permitted("replace_user")
  /\ employer' = [employer EXCEPT ![u] = c]
  /\ UNCHANGED <<accessVars, company, product, companyProducts, errand, topic>>

\* POST and DELETE /companies/{id}/products: the company is not deleted.
CheckProducts(e, op) ==
  /\ Starts(e, op)
  /\ \E c \in Live(company), ps \in SUBSET Product \ {{}} :
       Checked(e, op, IF op = "add_products" THEN {c} \X ps ELSE {},
                      IF op = "remove_products" THEN {c} \X ps ELSE {})
  /\ UNCHANGED <<accessVars, catalogVars, topic>>

\* POST and DELETE /products/{id}/companies: the product is not deleted.
CheckCompanies(e, op) ==
  /\ Starts(e, op)
  /\ \E p \in Live(product), cs \in SUBSET Company \ {{}} :
       Checked(e, op, IF op = "add_companies" THEN cs \X {p} ELSE {},
                      IF op = "remove_companies" THEN cs \X {p} ELSE {})
  /\ UNCHANGED <<accessVars, catalogVars, topic>>

\* ON CONFLICT DO NOTHING; 404 for a row that was never there.
WriteSales(e) ==
  /\ Ready(e, {"add_products", "remove_products", "add_companies", "remove_companies"})
  /\ companyProducts' = Rewritten(companyProducts, errand[e].add, errand[e].remove,
                          \A row \in errand[e].add :
                            row[1] \in Known(company) /\ row[2] \in Known(product))
  /\ Finished(e)
  /\ UNCHANGED <<accessVars, company, product, employer, topic>>

\* The request fails, or the process stops, before its transaction commits.
Abandon(e) ==
  /\ errand[e].pc # "idle"
  /\ Finished(e)
  /\ UNCHANGED <<accessVars, catalogVars, topic>>

-----------------------------------------------------------------------------
(* The seed: INSERT ... ON CONFLICT DO NOTHING throughout.                 *)

\* seed_roles: by id; a row whose id or whose name is taken is left out.
SeedRoles(names) ==
  [r \in Role |-> IF names[r] = NoName /\ \A q \in Role : names[q] # Seeded[r]
                  THEN Seeded[r] ELSE names[r]]

\* seed_permissions
SeedPermissions(rows) == rows \union Permission

Named(names, n) == {r \in Role : names[r] = n}

\* Mutant: the permissions go to the ids of seed_roles.
GrantsById(names) == UNION {Named(Seeded, n) \X Granted[n] : n \in RoleName}

\* seed_role_permissions: the roles are looked up by name.
SeedGrants(names) == UNION {Named(names, n) \X Granted[n] : n \in RoleName}

\* seed_users and seed_example_user_roles: by name, too.
SeedStaff(names) == UNION {Staff[n] \X Named(names, n) : n \in RoleName}

\* seed_example_companies_and_products: a row that is there stays as it is.
SeedCatalog(rows) ==
  [x \in DOMAIN rows |-> IF rows[x] = "absent" /\ x \in Stocked THEN "live" ELSE rows[x]]

\* The container starts again: requests in flight are gone, and the seed runs in
\* one transaction.  The users exist and keep their company.
Restart ==
  /\ "restart" \in topic.ops
  /\ roleName' = SeedRoles(roleName)
  /\ permission' = SeedPermissions(permission)
  /\ rolePermissions' = rolePermissions \union SeedGrants(roleName')
  /\ userRoles' = userRoles \union SeedStaff(roleName')
  /\ company' = SeedCatalog(company) /\ product' = SeedCatalog(product)
  /\ companyProducts' = companyProducts \union Sold
  /\ errand' = [e \in Errand |-> NoErrand]
  /\ UNCHANGED <<userLevels, employer, topic>>

-----------------------------------------------------------------------------

\* The seed has run over empty tables.
DirInit ==
  /\ roleName = SeedRoles([r \in Role |-> NoName])
  /\ permission = SeedPermissions({})
  /\ rolePermissions = SeedGrants(roleName)
  /\ userRoles = SeedStaff(roleName)
  /\ userLevels = {}
  /\ company = SeedCatalog([c \in Company |-> "absent"])
  /\ product = SeedCatalog([p \in Product |-> "absent"])
  /\ employer = Hired
  /\ companyProducts = Sold
  /\ errand = [e \in Errand |-> NoErrand]
  /\ topic \in Topics

ErrandNext(e) ==
  \/ CheckAddRole(e) \/ CheckSwapRoles(e) \/ WriteRoles(e)
  \/ CheckGrant(e) \/ CheckAddToRoles(e) \/ WriteGrants(e)
  \/ CheckAddLevel(e) \/ WriteLevel(e)
  \/ \E op \in {"add_users", "remove_users"} : CheckUsers(e, op)
  \/ AssociateUsers(e) \/ DisassociateUsers(e)
  \/ \E op \in {"add_products", "remove_products"} : CheckProducts(e, op)
  \/ \E op \in {"add_companies", "remove_companies"} : CheckCompanies(e, op)
  \/ WriteSales(e) \/ Abandon(e)

DirNext ==
  \/ \E e \in Errand : ErrandNext(e)
  \/ RemoveRole \/ CreateRole \/ RenameRole \/ DeleteRole
  \/ CreatePermission \/ DeletePermission \/ DeleteLevel
  \/ CreateCompany \/ SoftDeleteCompany \/ CreateProduct \/ SoftDeleteProduct
  \/ \E u \in User, c \in Known(company) \union {NoCompany} : ReplaceUser(u, c)
  \/ Restart

DirSpec == DirInit /\ [][DirNext]_dirVars

-----------------------------------------------------------------------------
(* Properties.                                                             *)

\* A change of roles is whole: a step of PATCH /users/{id}/roles that takes a
\* role away leaves the user with the role he was to get instead, also when
\* that role is deleted between the check and the transaction.
WholeRoleChange ==
  [][\A e \in Errand :
       Ready(e, {"swap_roles"}) /\ errand'[e].pc = "idle" /\ userRoles \ userRoles' # {} =>
         errand[e].add \subseteq userRoles']_dirVars

\* A user is left without a company only by a removal that names the company he
\* is in, or by a PUT of that very user: the removal from the old company that
\* comes after his move leaves him in the new one.
MembersKept ==
  [][\A u \in User :
       employer[u] # NoCompany /\ employer'[u] = NoCompany =>
         \/ ReplaceUser(u, NoCompany)
         \/ \E e \in Errand :
              Ready(e, {"remove_users"}) /\ <<u, employer[u]>> \in errand[e].remove]_dirVars

\* A restart ends a lock-out: whatever was renamed, made or taken away, once the
\* seed has run its users can do again what their roles are for, unless no role
\* has the name any more.  Roles are inserted by id and given by name.
StaffRecovers ==
  [][Restart =>
       \A n \in RoleName : \A u \in Staff[n] :
         Named(roleName', n) # {} => \A p \in Granted[n] : Holds(u, p)']_dirVars

\* What a role or a company refers to exists: requests whose checks are out
\* of date leave no row behind that names a role, a permission, a company or
\* a product that is not there.
NoDanglingRow ==
  /\ \A row \in userRoles : row[2] \in ExistingRoles
  /\ \A row \in rolePermissions : row[1] \in ExistingRoles /\ row[2] \in permission
  /\ \A row \in companyProducts : row[1] \in Known(company) /\ row[2] \in Known(product)
  /\ \A u \in User : employer[u] \in Known(company) \union {NoCompany}

\* What the service says of support levels: "Only users with agent role can
\* receive support levels".  The role is checked before the insertion and may
\* be taken away in between, or later.
LevelsNeedRole == \A row \in userLevels : IsAgent(row[1])
=============================================================================
