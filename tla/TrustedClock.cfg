SPECIFICATION ClockFairSpec
CONSTANTS
    NumServers = 3
    Honest <- MCHonest
    Wrong <- MCWrong
    Delays <- MCDelays
    Epochs <- MCEpochs
    Steps <- MCSteps
    MaxJumps = 2
    MaxRoundTrip = 3
    JumpThreshold = 1
    Era = 64
    NtpUnixDelta = 54
INVARIANT
    Trusted
PROPERTY
    Corrected
