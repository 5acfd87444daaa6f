\* A watch or a drain over an EVM home and a Solana mirror: composes that revert,
\* calls that throw, scans as long as the signature limit allows.
SPECIFICATION LiveSpec
CONSTANTS
  mirror = mirror
  home = home
  o1 = o1
  o2 = o2
  r1 = r1
  r2 = r2
  d = d
  None = None
  SignatureLimit = 2
  Evm = {home}
  Svm = {mirror}
  Order <- HomeFirst
  Packets = {o1, o2, r1, r2, d}
  Route <- AllTrips
  Sent = {o1, o2, d}
  Composed = {o1, o2, r1, r2}
  Reply <- AllReplies
  MaxRounds = 20
  MaxFaults = 2
  MaxReverts = 2
INVARIANTS
  NoneFallsBetweenScans
  RetriesAreQueued

  
