SPECIFICATION MissingSpec
CONSTANTS
  Item = {1}
  MaxReports = 1
  MaxFiles = 1
PROPERTIES
  OutageSparesFiles
