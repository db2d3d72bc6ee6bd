SPECIFICATION DiskSpec
CONSTANTS
    MaxValue = 2
    LogLevels = {"INFO", "DEBUG"}
    TlsSections = {"on", "broken"}
    InitialFiles <- ShippedFiles
    NoFile = NoFile
    MaxEdits = 1
    Interval = 1
    MaxRetention = 2
    MaxClock = 3
    MaxChanges = 2
INVARIANTS
    SettingsInvariant
    StoreFollowsConfig
    SnapshotsInvariant
    UnsavedIsTimed
PROPERTIES
    SavesAtomically
    IntactGivesWayToLater
CONSTRAINT MCOneOrBoth
