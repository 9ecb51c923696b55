SPECIFICATION Spec
CONSTANTS
  Size = 3
  Seqs <- MCSeqs
  MaxLog = 8
INVARIANTS
  TypeOK
  PoolPartition
  TreeIsList
  WindowIsRecent
  RepeatsFarApart
PROPERTY ImplementsDedup
