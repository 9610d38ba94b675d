SPECIFICATION Spec
CONSTANTS
    Defaults <- MCDefaults
    Files <- MCFiles
    Profiles <- MCProfiles
    Shells <- MCShells
    Catalogs <- MCCatalogs
    MaxLost = 1
INVARIANT DryRunForced
