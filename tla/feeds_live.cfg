CONSTANTS
  ann = ann news = news bob = bob slow = slow quick = quick
  Subscribers = {ann}
  Items <- MCItems
  Runs <- MCRuns
  Hung = {slow}
  Interval = 1
  Ttl = 2
  MaxCrashes = 1
SPECIFICATION FairSpec
PROPERTIES EveryArticleArrives
