SPECIFICATION FairSpec
CONSTANTS
    NPROC = 2
    NCPU = 1
    Locker = {1, 2}
    Sleeper = {2}
    Killer = {1}
    SleepTicks = 1
    MaxTicks = 1
PROPERTIES
    SleepersRun
    ClockTicks
