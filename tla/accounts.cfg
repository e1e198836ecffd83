CONSTANTS
  Requests = {r1, r2}
  Ids = {1, 2}
  Names = {n1, n2}
  Admin = n1
  Perfis = {1, 2}
  Ops = {"login", "create", "edit", "perfil", "senha", "conta", "logout", "delete", "new_perfil", "drop"}
  MaxVersion = 2
  MaxTokens = 2
  MaxAsked = 5
  None = None
SPECIFICATION Spec
SYMMETRY Symmetry
CHECK_DEADLOCK FALSE
INVARIANTS TypeOK ProfilesExist RevokedIsRefused
