SPECIFICATION Spec
CONSTANTS
    Adapter = {a1, a2}
    Unregistered = {}
    MaxReadings = 2
    ChanCap = 1
    Subscriber = {normalizer, loop}
    Boot = {normalizer}
    Nobody = Nobody
    Reload = {r1, r2}
    Refused = {1}
    MaxEdits = 2
    Kinds = {"fake", "dcgm", "slurm", "rocm", "nvidia_consumer", "linux_thermal", "apple_silicon"}
    Intervals = {1, 2, 3}
    ReadingsCap = 2
    Sensor = {s1, s2}
    Updater = {u1, u2}
    Paces = {1, 2, 3}
    MaxChanges = 2
    Pod = {p1, p2}
    GpuCounts = {0, 1}
    MaxPodEvents = 2
INVARIANTS
    OnlyDashboardMisses
    SubscribersFollow
    IntervalsFollowed
PROPERTIES
    Shutdown
    CatchesUp
CHECK_DEADLOCK FALSE
