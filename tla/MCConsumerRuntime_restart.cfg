CONSTANT MaxCommands = 1
SPECIFICATION Spec
INVARIANT RestartGoesOn
