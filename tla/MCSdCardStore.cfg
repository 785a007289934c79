SPECIFICATION Spec
CONSTANTS
    MaxTm = 3
    Time <- MCTime
    Sizes <- MCSizes
    MaxFaults = 2
INVARIANTS TypeOK HandlerMatchesData InfoKeepsAcknowledged ReadsPeriodButLast
PROPERTIES DeletesOldestOnly StoreAppends ImplementsLog
