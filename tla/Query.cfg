SPECIFICATION Spec
CONSTANTS
  Int32Max = 7
  Int64Max = 63
  MaxMicro = 40
  Clock = 19
  TimeZone = 3
  Day = 8
  DayLen = 8
  Devices = {1, 2, 3}
  PageLen = 2
  DefaultCount = 9
  MaxCount = 20
  Dates <- MCDates
  Units <- MCUnits
  Matches <- MCMatches
  Names <- MCNames
  Types <- MCTypes
  Records <- MCRecords
  Tables <- MCTables
  Missing <- MCMissing
  Statements <- MCStatements
INVARIANT TypeOK
INVARIANT PageExact
 
INVARIANT SnapshotExact
PROPERTY Progress
