SPECIFICATION MCSpec
CONSTANTS
  p1 = p1
  h1 = h1
  e1 = e1
  t1 = t1
  t2 = t2
  u1 = u1
  a1 = a1
  d1 = d1
  d2 = d2
  w1 = w1
  Phones = {p1}
  Emails = {e1}
  Nobody = Nobody
  Handlers = {h1}
  Payloads <- MCPayloads
  Edits = {"block", "unblock", "remove", "active"}
  SessionTTL = 2
  ProofTTL = 1
  Threads = {t1, t2}
  NotWaiting = NotWaiting
  Limit <- MCLimit
  CodeTTL = 2
  Cooldown = 1
  LongWindow = 2
  Horizon = 2
  SweepEvery = 3
  PhoneProofTTL = 1
  MaxDelay = 1
  MaxTime = 3
  MaxCodes = 1
  MaxRestarts = 1
  Tokens = {d1, d2}
  Users = {u1}
  Admins = {a1}
  NoOne = NoOne
  Writers = {w1}
  Requests <- MCRequests
SYMMETRY MCSymmetry
INVARIANTS
  MCTypeOK
  SessionsEndWithAccount
  AtMostLimitPerWindow
  CodesProvePhone
PROPERTIES
  AccountsChangeInTurn
  CampaignsAreHonest
  DevicesFollowOwners
CHECK_DEADLOCK FALSE
