SPECIFICATION Spec
CONSTANTS
    MaxColumns = 3
    Copies <- MCCopies
    MaxConfigs = 3
    MaxEvents = 5
INVARIANT
    NamesOpen
PROPERTIES
    RepairedBeforeReopened
    OpenRecovers
