\* Three changes of the target anywhere in the scan; page 7 is free.
CONSTANTS
    LastPage = 7
    Areas = {"exe", "dll", "late", "blob"}
    Images = {"exe", "dll", "late"}
    First <- Place
    Size <- Extent
    ImageSize <- Extent
    Loaded <- AtStart
    Anchor = "anchor"
    Free = "free"
    Null = "null"
    MaxModules = 4
    MaxChanges = 3
SPECIFICATION DiscoverySpec
INVARIANTS DiscoveryTypeOK RegionsFaithful LoadedListed CodeFoundOnce
PROPERTIES ScanEnds
