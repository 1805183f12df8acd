SPECIFICATION ReportsSpec
CONSTANTS
  a1 = a1
  a2 = a2
  co1 = co1
  co2 = co2
  Company = {co1, co2}
  Task = {h1}
  Agent = {a1, a2}
  NoAgent = NoAgent
  Request = {r1}
  Admin = Admin
  Level = {1, 2}
  Comment = {c1}
  NoItem = NoItem
  MaxHistory = 2
  Crashes = TRUE
  FirstDay = 25
  LastDay = 26
  MonthDays = 2
  TopLimit = 1
  PageSize = 2
CONSTANTS
  Detail <- MCDetail
  LevelsOf <- MCLevelsOf
  Operation <- MCOperations
  Arrivals <- MCArrivals
  Archives <- MCArchives
  Period <- MCPeriod
INVARIANTS DashboardAgrees PagesCover ChartsAddUp
PROPERTIES ImplementsBoard
