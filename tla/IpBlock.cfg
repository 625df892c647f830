SPECIFICATION FairSpec
CONSTANTS
  u1 = u1  u2 = u2  c1 = c1  a1 = a1  a2 = a2  e1 = e1  e2 = e2  e3 = e3
  Users = {u1, u2}
  Cpus = {c1}
  Addrs = {a1, a2}
  Entries = {e1, e2}
  Nobody = Nobody
  NoEntry = NoEntry
  NoAddr = NoAddr
INVARIANTS
    WalkersSafe
    NothingLeaks
PROPERTIES
    BlacklistSpec
    CallsReturn
CHECK_DEADLOCK FALSE
