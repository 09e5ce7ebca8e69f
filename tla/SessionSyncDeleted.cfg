SPECIFICATION MonitoredSpec
CONSTANTS
    Device = {d1}
    MaxSession = 1
    MaxStream = 1
    MaxChanges = 2
    Attempts = 1
    None = None
PROPERTIES
    DeletedDeviceIsAnnounced
CHECK_DEADLOCK FALSE
