CONSTANTS
  home = home  dev = dev  ops = ops  a = a  b = b  foo = foo  bar = bar
  kfoo = kfoo  kbar = kbar  tls = tls
  Opaque = Opaque  Unset = Unset
  SecretTypes = {Opaque, tls}
  NoCrypt = NoCrypt  NoSecret = NoSecret  Foreign = Foreign
  NoJob = NoJob  NoTask = NoTask
  Namespaces = {home, dev}
  SecretNames = {foo}
  StoreKeys = {kfoo}
  Workers = {w1}
  Patterns <- MCPatterns
  Matches <- MCMatches
  Informers <- MCInformers
  InitNamespaces = {home, dev}
  Crypts <- JustA
  Specs <- OpaqueOrTls
  EnvMoves <- TypeMoves
  MaxMoves = 3
SPECIFICATION FairSpec
PROPERTIES DataFollowsStore
CHECK_DEADLOCK FALSE
