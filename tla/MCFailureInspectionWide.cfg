CONSTANTS
  Evidence <- LongLogs
  CharBytes = 4
  MaxTotalBytes = 16384
  SectionBytes = 32000
  MaxItems = 20
  Floor = 256
  MarkerBytes = 29
  ItemBytes = 2000
  DigitBytes = 4
  MaxDeployed = 1
SPECIFICATION InspectionSpec
PROPERTIES
  InspectionEnds
CHECK_DEADLOCK FALSE
