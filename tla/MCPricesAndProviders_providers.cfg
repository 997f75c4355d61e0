SPECIFICATION MCSpec
CONSTANTS
  ad1 = ad1
  ad2 = ad2
  r1 = r1
  r2 = r2
  c1 = c1
  c2 = c2
  q1 = q1
  q2 = q2
  s1 = s1
  s2 = s2
  p1 = p1
  p2 = p2
  Editors = {ad1, ad2}
  Unset = Unset
  Configured <- MCConfigured
  Drafts <- MCDrafts
  Buys <- MCBuys
  Cost = 6
  Step = 4
  MaxRows = 4
  MaxDay = 1
  Requesters = {r1, r2}
  Nothing = Nothing
  Backoff = 1
  MaxEdits = 2
  MaxMoment = 1
  Calls = {c1, c2}
  NoToken = NoToken
  TokenLife = 4
  Margin = 2
  MaxIssued = 4
  Callers = {r1, r2}
  Queries = {q1, q2}
  Locations = Locations
  Uncached = Uncached
  Idle = Idle
  Ttl = 2
  MaxEntries = 1
  MaxLag = 1
  MaxVersion = 1
  ESims = {s1, s2}
  Lists = {{s1}, {s1, s2}}
  Handlers = {c1, c2}
  Processes = {p1, p2}
  Nobody = Nobody
  BatchSize = 1
  MaxUsed <- MCMaxUsed
INVARIANTS
  MCTypeOK
  AnsweredEditsAreShown
  SlotsAreUsed
PROPERTIES
  KeysKeepOneValue
  ShownIsCharged
  CallsAreSound
  CachesServeRecent
  SyncsKeepUsage
CHECK_DEADLOCK FALSE
