SPECIFICATION TableSpec
CONSTANTS
  Servers = {s1, s2}
  NoServer = NoServer
  Cells <- MCCells
  SizeModulus = 8
  MaxPort = 2
  MaxPool = 1
  DefaultPort = 1
  DefaultPool = 1
  Authorities = {"ca"}
  Unset = "none"
  Files <- MCFiles
  MaxId = 3
SYMMETRY ServerSymmetry
INVARIANTS
  TableTypeOK
  OneHandlePerServer
  EveryConnectionOwned
