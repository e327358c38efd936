SPECIFICATION RegistrySpec
CONSTANTS
    MaxWrites = 2
    RedisFails = FALSE
INVARIANTS NotifiedChangeIsLoaded
