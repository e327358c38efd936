SPECIFICATION FairSpec
CONSTANTS
    MaxWrites = 4
    RedisFails = TRUE
PROPERTIES ZonesNeverRegress ZonesConverge
