CONSTANTS
  None = None
  Stmt = {s1, s2, s3}
  Expr = {e1, e2}
  StmtHandle = {sh1, sh2, sh3}
  ExprHandle = {eh1, eh2}
SPECIFICATION Spec
SYMMETRY Symmetry
CHECK_DEADLOCK FALSE
INVARIANTS TypeOK HandleOwnsRef OwnerNeverDangles HolderAlive Rooted
PROPERTIES NoLiveChildDeleted ImplementsForest
