CONSTANTS
  Callers = {g1, g2}
  Types = {crypts, secrets}
  Nobody = Nobody
SPECIFICATION FairSpec
INVARIANTS SharedInformer HonestWait
PROPERTIES ImplementsRegistry CallsReturn
