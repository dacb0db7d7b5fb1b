SPECIFICATION MeshFairSpec
CONSTANTS
    Devices = {"a"}
    Sockets = 2
    Conns <- MCConns
    DeviceOf <- MCDeviceOf
    Requests = {r1}
    StaleTicks = 0
    None = None
CHECK_DEADLOCK FALSE
INVARIANTS
    OpenSocketIsLive
    OutcomeIsTruthful
    ExitMeansRevoked
PROPERTIES
    Reconnects
