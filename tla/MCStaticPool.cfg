SPECIFICATION Spec
CONSTANTS
    PoolSize = 4
    MaxInt = 7
    Sizes <- MCSizes
    MaxCalls = 4
INVARIANTS TypeOK BlocksShareThePool GrantsWhatIsFree
