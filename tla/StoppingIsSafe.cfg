CONSTANTS
    PassiveCycles = 3
    MaxFds = 5
    MaxDevices = 2
SPECIFICATION Spec
INVARIANT StoppingIsSafe
