CONSTANT MaxCommands = 3
SPECIFICATION FairSpec
INVARIANTS RuntimeInvariant NoOrphan
PROPERTY StopHonoured
