SPECIFICATION AuthorizationSpec
CONSTANTS
    MaxTokens = 3
INVARIANTS
    AuthorizationInvariant
PROPERTIES
    AgentsAreHeard
