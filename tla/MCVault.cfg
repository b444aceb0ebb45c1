CONSTANTS
  Fields = {user, password}
  user = user  password = password
  Spellings <- Vault
  Normal <- MCNormal
SPECIFICATION Spec
INVARIANTS ServesDataModel
