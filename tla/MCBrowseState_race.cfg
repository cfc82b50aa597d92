SPECIFICATION BrowseSpec
CONSTANTS
  Devices = {r1, r2}
  MaxTime = 2
PROPERTIES
  KeepsNewest
