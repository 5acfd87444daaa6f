\* A web server and the webhook process over one mirror: two orders, of one instance
\* and the next, or one order and a read that fails or a process that ends.
SPECIFICATION LiveSpec
CONSTANTS
  m1 = m1
  web = web
  hooks = hooks
  Torn = Torn
  Procs = {web, hooks}
  Readers = {hooks}
  Mirrors <- OnlyOne
  Outcomes = {"filled"}
  ViaPartner <- Every
  MaxOrders = 1
  MaxInstances = 2
  MaxEvents = 2
  MaxAttempts = 2
INVARIANT
  SettledIsTrue
PROPERTIES
  OwedUntilDelivered
  EveryOutcomeTold
