SPECIFICATION FairSpec
CONSTANTS
    Regimes <- MCRegimes
INVARIANTS
    AvailabilityHonest
    ReadyIsSubscribed
PROPERTIES
    RetainedAfterDebounce
    ArmedBecomesReady
