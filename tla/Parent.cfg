SPECIFICATION ParentSpec
CONSTANTS
  Hosts = {h1, h2}
  MaxOptions = 2
  TableSize = 2
  GenreAttempts = 5
  StationAttempts = 10
  StationCount = 2
  MaxUrls = 2
  FdLimit = 4
  McPipeCap = 2
  CtlCap = 3
INVARIANTS SendsToTheAskedFor OneRequestAtATime
PROPERTIES CatalogueEnds ExitEndsChildren TuningEnds
\* The program exits, and so does the fetcher, on command.
CHECK_DEADLOCK FALSE
