SPECIFICATION Spec
CONSTANTS
    cpu = cpu
    disk = disk
    gpu = gpu
    nic = nic
    usb = usb
    Things <- MCThings
    kind <- MCKind
    UpdateInterval = 1
    StatusInterval = 1
    MaxDuration = 1
    MaxRetries = 1
    MaxFaults = 1
    MaxChanges = 2
INVARIANTS QuietIsCurrent
PROPERTIES NoFalseNegative HardwareArrives SignalEnds
