SPECIFICATION FairSpec
CONSTANTS
    MaxSends = 3
    MaxPending = 2
    NumConfirmations = 2
    SafeAbortNonceTooLowCount = 2
    ReorgDepth = 1
    MaxBumps = 1
    MaxFaults = 1
    BackendCloses = FALSE
INVARIANTS TypeOK OwnNonces NoNonceGap ConfirmedStays FailsOnlyByFault
 
CHECK_DEADLOCK FALSE
