\* One mirror, an asset that existed before, two requests in either direction, a
\* relay that can run out of native gas, an operator who may cancel what is stuck.
SPECIFICATION Spec
CONSTANTS
  m1 = m1
  u1 = u1
  partner = partner
  platform = platform
  Mirrors <- Mirror1
  Users = {u1}
  Recipients = {platform}
  NoUser = NoUser
  MaxRequests = 2
  MirrorQuantum <- QuantumMirror
  MirrorFloat <- Float
  MaxNonce = 2
  DirectAmounts = {}
  Trades <- BuyAndSell
  PartnerIds = {}
  Signers = {}
  Authorizations = {}
  PartnerTerms = {}
  InitialPartner <- NoTerms
  PlatformTerms = {}
  InitialPlatform <- FreePlatform
  PartnerOnly = {}
  InvalidatedNonces = {}
  FeeUnit = 4
  MaxPartnerFee = 1
  MaxPlatformFee = 1
  TokenAccepts = {TRUE}
  StrayAmounts = {}
  SweepAmounts = {}
  SweepWhileComposing = FALSE
  HomeQuantum <- QuantumHome
  HomeFloat <- Pool
  Adapted <- BaseAdapted
  ComposeValue = 1
  InitialNative = 0
  MaxNative = 1
  FundAmounts = {1}
  WithdrawAmounts = {1}
  ReturnQuotes = {1, 9}
  NoticeQuotes = {1}
  PoolOutputs = {2, 5}
  Claimants = {u1}
  MaxNotices = 3
  MaxUint = 100
  DustSwept = TRUE
  Outputs = {1, 2, 3, 4, 5}
  NoticeLimit = 9
INVARIANTS
  TypeOK
  
  CancelledNeverExecutes
  NonceNamesOrder
  FloorHonoured
  StrandsCanCross
  
  FlowIsInFlight

  
CHECK_DEADLOCK FALSE
