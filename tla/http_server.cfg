CONSTANTS
    Old = old
    Pods = {old, new}
    Requests = {r1, r2}
    DrainDelay = 1
    ShutdownTimeout = 5
    StatementTimeout = 2
    GracePeriod = 12
    KubeProxyLag = 1
    MaxOutages = 1

SPECIFICATION Spec
INVARIANTS
    ServerTypeOK
    RoutedIsListening
    SomeoneServes
    DisturbedLate
    NeverKilled
    FailuresAreLogged
PROPERTIES
    ExitsInTime
    BackInService
    EveryCallIsAnswered
CHECK_DEADLOCK FALSE
