SPECIFICATION Spec
CONSTANTS
  Modes = {"regular", "test"}
  MaxRestarts = 2
INVARIANT ActiveUnlessNoCommand
PROPERTY StaysActive
PROPERTY RemovalEnds
