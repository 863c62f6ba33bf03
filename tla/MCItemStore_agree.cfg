SPECIFICATION Spec
CONSTANTS
  Items = {x1, u1}
  Uploads = {u1}
  Locals = {l1}
  None = None
  TempBase = 3
  MaxInode = 3
INVARIANTS TypeOK TombstonesHold TableAgrees RowsKeepTheirInode FoldersAgree
