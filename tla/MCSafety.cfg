CONSTANTS
  home = home  dev = dev  ops = ops  a = a  b = b  foo = foo  bar = bar
  kfoo = kfoo  kbar = kbar  tls = tls
  Opaque = Opaque  Unset = Unset
  SecretTypes = {Opaque, tls}
  NoCrypt = NoCrypt  NoSecret = NoSecret  Foreign = Foreign
  NoJob = NoJob  NoTask = NoTask
  Namespaces = {home, dev}
  SecretNames = {foo}
  StoreKeys = {kfoo}
  Workers = {w1, w2}
  Patterns <- MCPatterns
  Matches <- MCMatches
  Informers <- MCInformers
  Crypts <- AandB
  Specs <- SafetySpecs
  EnvMoves <- SafetyMoves
  MaxMoves = 4
  Plans <- SafetyPlans
  InitNamespaces = {home}
SPECIFICATION PlanSpec
SYMMETRY WorkerSymmetry
INVARIANTS TypeOK ExclusiveSync SyncInv SettledByEvents
PROPERTIES NeverRegress ImplementsSecretMirror
CHECK_DEADLOCK FALSE
