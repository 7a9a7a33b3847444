SPECIFICATION TokensSpec
CONSTANTS
    NodeAgent = nodeAgent
    Others = {otherAgent}
    Release = releaseService
    Life = 3
    MaxGeneration = 2
    MaxFaults = 1
INVARIANTS MemoryIsFile NoExpiredToken
PROPERTIES TokensArrive
