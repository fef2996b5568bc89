SPECIFICATION FailsafeSpec
CONSTANTS
    EntryTimer = 5
    LinkUpDebounce = 3
    MaxGap = 2
    Wrap = 16
PROPERTIES
    WatchdogSpec
