\* A buy through a partner and a sell, notices and settlements in any order,
\* terms changed while the buy is away, a store wired at any time.
SPECIFICATION LiveSpec
CONSTANTS
  s1 = s1
  u1 = u1
  partner = partner
  platform = platform
  key = key
  Mirrors <- Mirror1
  Users = {u1}
  Recipients = {partner, platform}
  NoUser = NoUser
  MaxRequests = 2
  MirrorQuantum <- Quantum
  MirrorFloat <- Float
  MaxNonce = 2
  DirectAmounts = {5}
  Solana = s1
  Trades <- SellOnly
  PartnerIds = {1}
  Signers = {key}
  CoSigned <- Signed
  PartnerTerms <- Moved
  PlatformTerms <- PlatformPaid
  PartnerOnly = {TRUE}
  RelayWired = {TRUE}
  FeeUnit = 7
  MaxPartnerFee = 2
  MaxPlatformFee = 1
  Outputs = {2}
  NoticeLimit = 1
INVARIANTS
  VaultIsOwed
  IndexLeadsHome
PROPERTIES
  PaidAsTaken
  NothingWithheld
  KeepsDesk
CHECK_DEADLOCK FALSE
