SPECIFICATION FairKeysSpec
CONSTANTS
    a1 = a1
    a2 = a2
    Accounts <- MCAccounts
    NoAccount = NoAccount
    EmptyAccount = EmptyAccount
    HistoryLimit = 2
    MaxKeys = 3
    MaxFaultyKeys = 2
    Requests <- MCRequests
    FaultSets <- MCFaultSets
CHECK_DEADLOCK FALSE
INVARIANTS
    AccountsKeepTheirKeys
    OneGeneration
    FactoryResetForgets
PROPERTIES
    AccountGetsKey
