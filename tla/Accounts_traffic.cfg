SPECIFICATION ScenesSpec
CONSTANTS
  r1 = r1
  r2 = r2
  j1 = j1
  j2 = j2
  Request = {r1, r2}
  Id = {i1, i2, i3}
  Limit = 2
  MaxSecond = 0
  MaxRotation = 1
  SessionOps = {"login", "refresh", "logout"}
  Job = {j1, j2}
  Link = {k1, k2, k3}
  Password = {p1}
  NoPassword = NoPassword
  ro2 = ro2
  e1 = e1
  e2 = e2
  User = {u1, u2}
  Role = {ro1, ro2, ro3}
  Permission = {"edit", "use"}
  SupportLevel = {1}
  Company = {co1, co2}
  Product = {pr1}
  RoleName = {"admin", "agent", "other"}
  AgentName = "agent"
  NoName = NoName
  NoCompany = NoCompany
  Errand = {e1, e2}
  u1 = u1
  u2 = u2
  ro1 = ro1
  co1 = co1
  Stocked = {co1}
  Sold = {}
CONSTANTS
  Mixes <- MCMixes
  Needed <- MCNeeded
  Seeded <- MCSeeded
  Granted <- MCGranted
  Staff <- MCStaff
  Hired <- MCHired
  Topics <- MCTopics
SYMMETRY Symmetry
INVARIANTS OneWinner SessionLimit LinkOnce NewestLinks
PROPERTIES RevokedIsFinal WholeRoleChange MembersKept StaffRecovers
CHECK_DEADLOCK FALSE
