SPECIFICATION LiveSpec
CONSTANTS
  e = e
  s = s
  first = first
  second = second
  Evm = {e}
  Solana = {s}
  Journeys = {first, second}
  Users = {"alice"}
  Wishes <- TwoOrders
  Quantum <- Quanta
  HomeQuantum <- HomeQuanta
  MaxUint = 100000
  FeeUnit = 100
  Slippage = 10
  FirstTerms <- AtFirst
  LaterTerms <- Later
  FirstPool <- Deep
  LaterPools <- ThinMarket
  FirstAllowance = 50
  Prices = {3, 4}
  MaxMoves = 1
INVARIANTS
  QuotedIsDelivered
  PlacedOnce
  AnswersAgree
PROPERTIES
  BuiltIsAccepted
  
CHECK_DEADLOCK FALSE
