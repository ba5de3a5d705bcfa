SPECIFICATION FairSpec
CONSTANT SpuriousWakeups = TRUE
INVARIANTS NoStolenSignal JobsRunOnce FailureIsKept
PROPERTIES CallsReturn ImplementsService
