\* An owner who sweeps while a settlement waits for its lzCompose.
SPECIFICATION PromiseSpec
CONSTANTS
  m1 = m1
  u1 = u1
  partner = partner
  platform = platform
  key = key
  newKey = newKey
  Mirrors <- Mirror1
  Users = {u1}
  Recipients = {partner, platform}
  NoUser = NoUser
  MaxRequests = 2
  MirrorQuantum <- Quantum
  MirrorFloat <- Float
  MaxNonce = 2
  DirectAmounts = {}
  Trades <- Buys
  PartnerIds = {1}
  Signers = {key, newKey}
  Authorizations <- Signed
  PartnerTerms = {}
  InitialPartner <- Registered
  PlatformTerms = {}
  InitialPlatform <- PlatformPaid
  PartnerOnly = {}
  InvalidatedNonces = {}
  FeeUnit = 7
  MaxPartnerFee = 2
  MaxPlatformFee = 1
  TokenAccepts = {TRUE, FALSE}
  StrayAmounts = {}
  SweepAmounts = {1, 2, 3, 4}
  SweepWhileComposing = TRUE
  Outputs = {2}
  NoticeLimit = 1
INVARIANT
  FeesHeld
CHECK_DEADLOCK FALSE
