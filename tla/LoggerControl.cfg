SPECIFICATION ControlFairSpec
CONSTANTS
    Kinds = {"ping", "start", "stop", "status"}
    MaxArrivals = 4
    MaxClicks = 1
    Names = {"IronSoft"}
    Speeds = {0, 1}
INVARIANTS
    ControlTypeOK
    ReadsDevice
    TrafficBounded
PROPERTIES
    ControlsFollowDevice
