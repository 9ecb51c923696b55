SPECIFICATION MainSpec
CONSTANTS
  NoAddr = NoAddr
  NoFd = NoFd
  v4 = v4
  v6 = v6
  Numbers <- MCNumbers
  Lines <- MCLines
  MaxLines = 3
  Portless <- MCPortless
  Families <- MCFamilies
  MaxAddrs = 2
  Inherited <- MCInherited
INVARIANTS
  MainTypeOK
  ConfigAsWritten
  ResourcesAccounted
  InterfacesAsConfigured
  
  DetachKeepsSockets
CHECK_DEADLOCK FALSE
