\* Every control code, side by side with reads; once every request is used,
\* nothing more happens.
CONSTANTS
    r1 = r1  r2 = r2
    Requests <- TwoRequests
    Ioctls = {"GET_DEVICE_DESCRIPTOR", "GET_REPORT_DESCRIPTOR", "GET_DEVICE_ATTRIBUTES", "READ_REPORT", "GET_FEATURE", "SET_FEATURE", "GET_STRING", "GET_INDEXED_STRING", "OTHER"}
    HidDeviceMode = "MULTI"
    DeviceType = "PS3_DUALSHOCK"
    MaxReports = 3
SPECIFICATION FairSpec
CHECK_DEADLOCK FALSE
INVARIANT CompletedOnce
INVARIANT ReadsInOrder
INVARIANT NoOvertaking
PROPERTY NoneLeftBehind
