SPECIFICATION LiveSpec
CONSTANTS
  eth = eth
  arb = arb
  bnb = bnb
  sol = sol
  eclipse = eclipse
  Evm = {eth, arb, bnb}
  Solana = {sol, eclipse}
  Config <- BothHomes
  AtFirst = 2
  Given = FALSE
  Adapting <- SolanaAdapts
  MaxEvents = 2

  
PROPERTIES
  Untouched
  CompletedAtLast
CHECK_DEADLOCK FALSE
