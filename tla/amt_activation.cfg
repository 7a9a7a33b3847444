SPECIFICATION Spec
CONSTANT MaxFaults = 2
INVARIANT OneDeactivation
INVARIANT TimerSet
PROPERTY GetsActivated
CHECK_DEADLOCK FALSE
