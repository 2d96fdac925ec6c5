CONSTANTS
  ann = ann bob = bob news = news slow = slow quick = quick
  Subscribers <- MCSubscribers
  Items <- MCItems
  Runs <- MCRuns
  Hung = {slow}
  Interval = 1
  Ttl = 2
  MaxCrashes = 1
SPECIFICATION Spec
INVARIANT DeliveryInv
