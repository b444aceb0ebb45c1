CONSTANTS
  home = home  dev = dev  ops = ops  a = a  b = b  foo = foo  bar = bar
  kfoo = kfoo  kbar = kbar  tls = tls
  Opaque = Opaque  Unset = Unset
  SecretTypes = {Opaque, tls}
  NoCrypt = NoCrypt  NoSecret = NoSecret  Foreign = Foreign
  NoJob = NoJob  NoTask = NoTask
  Namespaces = {home, dev, ops}
  SecretNames = {foo, bar}
  StoreKeys = {kfoo, kbar}
  Workers = {w1}
  Patterns <- MCPatterns
  Matches <- MCMatches
  Informers <- MCInformers
  Crypts <- AllThree
  Specs <- LiveSpecs
  EnvMoves <- LiveMoves
  MaxMoves = 4
  Plans <- LivePlans
  InitNamespaces = {home}
SPECIFICATION FairPlanSpec
PROPERTIES EventuallyUpToDate OrphansCollected
CHECK_DEADLOCK FALSE
