SPECIFICATION ScannerSpec
CONSTANTS
    Editors = {e1}
    Specs = {"first", "second", "third"}
    FirstSpec = "first"
    MaxSaves = 3
    MaxRuns = 1
PROPERTIES
    PublishedWasTested
