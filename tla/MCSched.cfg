SPECIFICATION Spec
CONSTANTS
    NPROC = 2
    NCPU = 2
    Locker = {1, 2}
    Sleeper = {2}
    Killer = {}
    SleepTicks = 1
    MaxTicks = 1
INVARIANTS
    StackOwned
    LocksCounted
    SleepLockKept
