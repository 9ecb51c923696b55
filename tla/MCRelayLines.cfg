SPECIFICATION MainSpec
CONSTANTS
  NoAddr = NoAddr
  NoFd = NoFd
  v4 = v4
  v6 = v6
  Numbers <- MCNumbers
  Lines <- MCHalf
  MaxLines = 3
  Portless <- MCPortless
  Families <- MCFamilies
  MaxAddrs = 2
  Inherited <- MCAllOpen
INVARIANT RelayLinesHonoured
CHECK_DEADLOCK FALSE
