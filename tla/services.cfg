CONSTANTS
  writer = writer
  reader = reader
  viewer = viewer
  Agent = {writer, reader, viewer}
  Vendor <- VendorOf
  ReadOnly = {reader, viewer}
  Serialize = TRUE
  MaxActive = 2
  MaxPerVendor = 2
  MaxQueued = 1
  MaxTurns = 2
  MaxAsk = 3
  MaxBroken = 1
  MaxKillAll = 1
  MaxStop = 1
  p1 = p1
  p2 = p2
  p3 = p3
  Proc = {p1, p2, p3}
  Inode = {1, 2, 3, 4, 5}
  MaxTokens = 4
  MaxDeaths = 1
  start = start
  did = did
  bad = bad
  go = go
  stop = stop
  Request = {start, did, bad, go, stop}
  Content <- ContentOf
  LapCap = 1
  Limit <- LimitOf
  Reserve = 3
  MaxTokensOf = 3
  MaxCrash = 1
  MaxDelta = 2
  MaxRound = 3
  c1 = c1
  c2 = c2
  foreign = foreign
  Commit = {c1, c2}
  Foreign = foreign
  MaxStir = 4
  MaxWatcher = 4
  failure = failure
  WakeupKind = {failure}
  MaxProposal = 2
  MaxObserved = 2
  MaxPile = 1
  MaxIncident = 1
  d1 = d1
  d2 = d2
  Participant = {d1, d2}
  Required = 2
  MaxAttempt = 1
  MaxStirs = 4
  q1 = q1
  q2 = q2
  q3 = q3
  q4 = q4
  Planner = {q1, q2}
  Synth = q3
  Verifier = q4
  Hub = FALSE
  AutoGates = TRUE
  Picked = {q1}
  MaxStirring = 3
  m1 = m1
  m2 = m2
  Mate = {m1, m2}
  Thread = {"source"}
  TurnCap = 2
  MaxMoves = 1
  MaxDelivery = 2
  MaxJolt = 3
  nobody = nobody
  Nobody = nobody
  s1 = s1
  s2 = s2
  s3 = s3
  k1 = k1
  k2 = k2
  e1 = e1
  e2 = e2
  Peer = {s1, s2, s3}
  Founder = {s1, s2}
  Cluster = {k1, k2}
  Drawn = k1
  Edge = {e1, e2}
  Wish <- WishOf
  MaxEdit = 3
SPECIFICATION Spec
VIEW InView
CHECK_DEADLOCK FALSE
INVARIANT TypesOK
INVARIANT TurnsAccounted
INVARIANT Exclusive
INVARIANT ToldOnce
INVARIANT StaysControllable
INVARIANT ViewIsLive
INVARIANT WatchersHold
INVARIANT ApprovedIsActive
INVARIANT NothingUnheard
INVARIANT WakeupsCurrent
INVARIANT StillNotifiable
INVARIANT BarrierKept
INVARIANT CouncilOnTrack
INVARIANT AgreementInformed
INVARIANT WaitsForPerson
 
INVARIANT GraphKept
PROPERTY QueuedRunMoves
