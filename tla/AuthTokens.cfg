\* Two processes that restart, five configurations, two tokens and the half
\* seconds around their expiry.
SPECIFICATION Spec
CONSTANTS
    Configs <- MCConfigs
    Scopes <- MCScopes
    TicksPerSecond = 2
    MaxClock = 4
    MaxTokens = 2
    Down = Down
INVARIANTS
    AuthTypeOK
    AcceptedWasEntitled
    NewestTokenServes
    FrontsAgree
