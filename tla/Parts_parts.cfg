CONSTANTS
  a1 = a1
  a2 = a2
  Browsers = {b1, b2}
  Callers = {b1}
  Addresses = {a1, a2}
  Allowed = {a1}
  Caps = {"catalogue_manager", "moderator"}
  MaxIdentities = 2
  LinkLife = 0
  SessionLife = 0
  LinkRetain = 1
  SessionRetain = 1
  LastDay = 2
  Nothing = Nothing
  SeedAccounts <- MCSeedAccounts
  Wanted <- MCWanted
  MaxMeddling = 1
  pa = pa
  pb = pb
  pc = pc
  pd = pd
  Packages = {pa, pb, pc, pd}
  Unknown = Unknown
  Workspaces <- MCWorkspaces
  Runners = {r1, r2}
  Histories <- MCHistories
  Folders = {"persistence"}
  Registry <- MCRegistry
  LibraryTables = {"auth.session"}
  Reserved = {"order"}
  Denied = {"org"}
  Plural = {"orders"}
  Purposes = {"name", "set_updated_at"}
  MaxName = 63
  Nobody = Nobody
SPECIFICATION PartsSpec
CHECK_DEADLOCK FALSE
INVARIANTS PartsTypeOK SessionsHaveUsers SeedDelivers BuiltInOrder VerdictHonest AppliedOnceInOrder GateKeepsDatabase
PROPERTIES AccountsKept ServedByRight
