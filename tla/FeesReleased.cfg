\* A strand whose notice could not be paid for, claimed on the home chain.
SPECIFICATION DeliveredSpec
CONSTANTS
  m1 = m1
  u1 = u1
  partner = partner
  platform = platform
  Mirrors <- Mirror1
  Users = {u1}
  Recipients = {platform}
  NoUser = NoUser
  MaxRequests = 1
  MirrorQuantum <- QuantumMirror
  MirrorFloat <- Float
  MaxNonce = 2
  DirectAmounts = {}
  Trades <- BuyAndSell
  PartnerIds = {}
  Signers = {}
  Authorizations = {}
  PartnerTerms = {}
  InitialPartner <- NoTerms
  PlatformTerms = {}
  InitialPlatform <- PaidPlatform
  PartnerOnly = {}
  InvalidatedNonces = {}
  FeeUnit = 4
  MaxPartnerFee = 1
  MaxPlatformFee = 1
  TokenAccepts = {TRUE}
  StrayAmounts = {}
  SweepAmounts = {}
  SweepWhileComposing = FALSE
  HomeQuantum <- QuantumHome
  HomeFloat <- Pool
  Adapted = {}
  ComposeValue = 1
  InitialNative = 0
  MaxNative = 1
  FundAmounts = {1}
  WithdrawAmounts = {1}
  ReturnQuotes = {1, 9}
  NoticeQuotes = {1, 9}
  PoolOutputs = {0, 5}
  Claimants = {u1}
  MaxNotices = 3
  MaxUint = 100
  DustSwept = FALSE
PROPERTY
  FeesReleased
CHECK_DEADLOCK FALSE
