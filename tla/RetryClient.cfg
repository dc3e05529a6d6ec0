\* Every kind of call, every set of credentials, maxRetries as in the code.
SPECIFICATION Spec
CONSTANTS
    MaxRetries = 3
    NoCred = NoCred
INVARIANTS RetryInv SuccessMeansDone DuplicatesNeedLoss BoundedSends
CHECK_DEADLOCK FALSE
