SPECIFICATION Spec
CONSTANTS
    Device = {d1, d2}
    Client = {c1, c2}
    MaxClients = 2
    MaxPoints = 3
    MaxHistory = 2
    Address = {a, b}
    DeviceName = {n1, n2}
    Networks <- OwnAndShared
    Static = {a}
    Advertised = {b}
    Self = self
    Versions = 2
    Temps = {10, 50, 55, 60, 70}
    DefaultLimit = 80
    ModelLimit = 100
    HealthSpan = 4
    Warmup = 2
    MaxSamples = 4
    GoodRecovery = 1
    FairRecovery = 2
    MaxClock = 5
    ScoredTemps = {60, 66, 95, 100}
    ThermalCap = 2
    VolatilityMin = 2
    VolatilityCap = 3
    MaxReadings = 4
    ViewedDevice = {v1, v2}
    TempSets = {{}, {"temperature_c"}, {"temperature_edge"}, {"temperature_c", "temperature_junction_c"}, {"cpu_temp_c"}}
    MaxBatch = 3
    MaxTime = 2
    PduReload = {h1, h2}
    TargetLists = {1, 2}
    PduPaces = {1, 2}
    MaxStores = 2
    Machines <- Layers
INVARIANTS
    ServesWhatItLists
    BridgeKeepsAll
    ViewsAgree
    NoMissedUpdate
    SpikeReported
    OnlySteadierIsSafer
    ViewsShowScoredReading
    NoPollerLeaked
    SettingsRespected
PROPERTIES
    DownPeerShown
CHECK_DEADLOCK FALSE
