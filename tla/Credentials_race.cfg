SPECIFICATION Spec
CONSTANTS
    Procs = {p1}
    Modes = {local, online}
    Default = local
    Absent = absent
    Empty = empty
    Garbled = garbled
    MaxDevices = 2
    MaxErrors = 2
INVARIANT Durable
