\* Fees of two orders, one of them through a partner: settlements, notices,
\* claims, stray tokens and sweeps in every order, a token that may refuse.
SPECIFICATION PromiseSpec
CONSTANTS
  m1 = m1
  u1 = u1
  partner = partner
  platform = platform
  key = key
  newKey = newKey
  Mirrors <- Mirror1
  Users = {u1}
  Recipients = {partner, platform}
  NoUser = NoUser
  MaxRequests = 2
  MirrorQuantum <- Quantum
  MirrorFloat <- Float
  MaxNonce = 2
  DirectAmounts = {}
  Trades <- Buys
  PartnerIds = {1}
  Signers = {key, newKey}
  Authorizations <- Signed
  PartnerTerms <- Rotated
  InitialPartner <- Registered
  PlatformTerms <- PlatformFree
  InitialPlatform <- PlatformPaid
  PartnerOnly = {TRUE}
  InvalidatedNonces <- FirstNonce
  FeeUnit = 7
  MaxPartnerFee = 2
  MaxPlatformFee = 1
  TokenAccepts = {TRUE, FALSE}
  StrayAmounts = {6}
  SweepAmounts = {3}
  SweepWhileComposing = FALSE
  Outputs = {2}
  NoticeLimit = 1
INVARIANTS
  ReserveIsOwed
  PayoutsCovered
PROPERTIES
  EarnedAsTaken
  KeepsDesk
  
CHECK_DEADLOCK FALSE
