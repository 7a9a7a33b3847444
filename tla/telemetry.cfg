SPECIFICATION Spec
CONSTANTS
    Groups = {logHost, logCluster}
    Offers <- SomeOffers
    MaxFaults = 2
    MaxChanges = 2
INVARIANTS EmptyIsInit
PROPERTIES ConfigArrives ReadyFollows
