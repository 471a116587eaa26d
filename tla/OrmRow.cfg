SPECIFICATION RowSpec
CONSTANTS
  CellMax = 2
  MaxRecords = 2
  MaxRows = 3
  MaxFlight = 2
INVARIANTS
  OneRowPerRecord
