\* A Solana home: a plain transfer and two orders, skips, burns, strands, retries.
\* Adapted base, launched quote; the pool's output leaves dust either way.
SPECIFICATION AdminSpec
CONSTANTS
  m1 = m1
  u1 = u1
  platform = platform
  Mirrors <- Mirror1
  Users = {u1}
  Recipients = {platform}
  NoUser = NoUser
  MaxRequests = 2
  MirrorQuantum <- QuantumMirror
  MirrorFloat <- Float
  MaxNonce = 2
  Trades <- BuyAndSell
  PartnerIds = {}
  Signers = {}
  Authorizations = {}
  PartnerTerms = {}
  InitialPartner <- NoTerms
  PlatformTerms = {}
  InitialPlatform <- FreePlatform
  PartnerOnly = {}
  InvalidatedNonces = {}
  FeeUnit = 4
  MaxPartnerFee = 1
  MaxPlatformFee = 1
  TokenAccepts = {TRUE}
  StrayAmounts = {}
  SweepAmounts = {}
  SweepWhileComposing = FALSE
  HomeQuantum <- QuantumHome
  HomeFloat <- Pool
  PoolOutputs = {2, 5}
  MaxU64 = 100
  Outputs = {1, 2, 3, 4, 5}
  NoticeLimit = 9
  DirectAmounts = {2}
  Adapted <- BaseAdapted
  AdminStrands = TRUE
  AdminCancels = TRUE
INVARIANTS
  KilledBeforeNotice
  DebtsAreKept
PROPERTIES
  EveryOrderHeardOf
  
CHECK_DEADLOCK FALSE
