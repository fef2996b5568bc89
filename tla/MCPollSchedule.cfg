SPECIFICATION PollFairSpec
CONSTANTS
    N = 5
    Fast = {0, 1, 3}
    Echoed = {3, 4}
    Interval = 5
    Margin = 1
    Durations = {1, 2}
    Longest = 2
    Threshold = 2
INVARIANTS
    
    RoundsAreFair
PROPERTIES
    DiscoveryEnds
