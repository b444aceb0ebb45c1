CONSTANTS
  Fields = {user, password}
  user = user  password = password
  Spellings <- Both
  Normal <- MCNormal
SPECIFICATION Spec
INVARIANTS WholeOrNothing ConsulServesDataModel
