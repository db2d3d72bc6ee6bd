SPECIFICATION FairSpec
CONSTANTS
    RestPayloads <- MCRestPayloads
    McpPayloads <- MCMcpPayloads
    Capabilities = {"chatopcommand", "nullcommand", "command_shutdown_agent"}
    NextActions = {"PackageAvailable", "CommandAgent", "ApplyConfig"}
    MaxCommands = 2
INVARIANTS
    CommandsInvariant
PROPERTIES
    HandlerInFolderIsFound
    DisabledRunsNothing
    EveryCommandSent
