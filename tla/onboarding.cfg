SPECIFICATION Spec
CONSTANTS
    Settings <- Calls
    Terminals = {ttyS0, ttyS1}
    MaxAttempts = 3
    MaxRetries = 3
    MaxGeneration = 2
    MaxBoots = 3
INVARIANTS DoneIsComplete
PROPERTIES CredentialsAsPromised LoginEnds
