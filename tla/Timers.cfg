SPECIFICATION Spec
CONSTANTS
    Lag = 2
    Delay = 4
INVARIANTS
    BeatingIsServed
    ReconnectWindow
    SilentIsForgotten
