SPECIFICATION InventorySpec
CONSTANTS
    d1 = d1
    d2 = d2
    d3 = d3
    p1 = p1
    s1 = s1
    www = www
    addr = addr
    None = None
    DiscoverySteps = {d1, d2, d3}
    PortSteps = {p1}
    ServiceSteps = {s1}
    Hosts = {www, addr}
    Plugins = {"subfinder", "amass", "assetfinder", "theharvester"}
    PortNumbers = {443}
    Versions = {"unknown", "1.0"}
    UnknownVersion = "unknown"
    Discoveries <- MCDiscoveries
    Scans <- MCScans
    Detections <- MCDetections
SYMMETRY Interchangeable
INVARIANTS
    ConfidenceIsHighest
    OneAssetPerFingerprint
    HistoryIsBorneOut
CHECK_DEADLOCK FALSE
