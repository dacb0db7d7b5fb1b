SPECIFICATION FairSpec
CONSTANTS
    FirstSockets = 1
    OtherSockets = 1
    Devices <- MCDevices
    Conns <- MCConns
    DeviceOf <- MCDeviceOf
    Requests = {r1}
    StaleTicks = 1
    None = None
CHECK_DEADLOCK FALSE
INVARIANTS
    ResultFromOwnDevice
    ConfirmedRevocation
PROPERTIES
    RevokedFailsClosed
    RequestsSettle
    RevokedSocketsClose
    SilentSocketCloses
