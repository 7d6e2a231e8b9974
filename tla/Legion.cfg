SPECIFICATION Spec
CONSTANTS
    d1 = d1
    d2 = d2
    NULL = NULL
    Daemons <- TwoDaemons
    MaxForks = 3
INVARIANTS TypeOK RunningIsActive NoZombieLeft KillsHaveTarget
PROPERTIES StartEnds StopKills
CHECK_DEADLOCK FALSE
