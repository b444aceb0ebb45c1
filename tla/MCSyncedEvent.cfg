CONSTANTS
  home = home  dev = dev  ops = ops  a = a  b = b  foo = foo  bar = bar
  kfoo = kfoo  kbar = kbar  tls = tls
  Opaque = Opaque  Unset = Unset
  SecretTypes = {Opaque, tls}
  NoCrypt = NoCrypt  NoSecret = NoSecret  Foreign = Foreign
  NoJob = NoJob  NoTask = NoTask
  Namespaces = {home, dev}
  SecretNames = {foo}
  StoreKeys = {kfoo}
  Workers = {w1}
  Patterns <- MCPatterns
  Matches <- MCMatches
  Informers <- MCInformers
  Crypts <- JustA
  Specs <- OneSpec
  EnvMoves <- FailMoves
  MaxMoves = 2
  InitNamespaces = {home, dev}
SPECIFICATION Spec
PROPERTIES SyncedMeansNoFailure
CHECK_DEADLOCK FALSE
