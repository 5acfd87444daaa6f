\* A mirror and a Solana home: an order and a plain transfer of an adapted asset,
\* paid in a launched one; two measurements that may overlap, a page that asks.
SPECIFICATION ReportSpec
CONSTANTS
  m1 = m1
  u1 = u1
  platform = platform
  Mirrors <- OneMirror
  EvmOrder <- OnlyM1
  Finest <- FinestOfAll
  MaxReadings = 2
  Users = {u1}
  Recipients = {platform}
  NoUser = NoUser
  MaxRequests = 1
  MirrorQuantum <- QuantumMirror
  MirrorFloat <- Float
  MaxNonce = 1
  Trades <- SellOnly
  PartnerIds = {}
  Signers = {}
  Authorizations = {}
  PartnerTerms = {}
  InitialPartner <- NoTerms
  PlatformTerms = {}
  InitialPlatform <- FreePlatform
  PartnerOnly = {}
  InvalidatedNonces = {}
  FeeUnit = 4
  MaxPartnerFee = 1
  MaxPlatformFee = 1
  TokenAccepts = {TRUE}
  StrayAmounts = {}
  SweepAmounts = {}
  SweepWhileComposing = FALSE
  HomeQuantum <- QuantumHome
  HomeFloat <- Pool
  PoolOutputs = {0, 5}
  MaxU64 = 100
  Outputs = {1, 2, 3, 4, 5}
  NoticeLimit = 9
  DirectAmounts = {1}
  Adapted <- BaseAdapted
  AdminStrands = TRUE
  AdminCancels = TRUE
INVARIANT
  MeasuredWhole
PROPERTY
  NeverBack
CHECK_DEADLOCK FALSE
