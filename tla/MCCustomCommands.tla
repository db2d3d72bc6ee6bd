-------------------------- MODULE MCCustomCommands --------------------------
EXTENDS CustomCommands, TLC

\* The pairs with these keys; a key whose value is None is left out.
Pairs(classifier, operation, action, capability, fqdn) ==
    LET all == "classifier" :> classifier @@ "operation" :> operation @@ "action" :> action
               @@ "capability" :> capability @@ "fqdn" :> fqdn
    IN [key \in {k \in DOMAIN all : all[k] # None} |-> all[key]]

\* Restart and resync, an unsupported action, custom commands by operation,
\* by action and by capability (also where they disagree), an operation
\* nobody knows, and the generic custom_command.
MCRestPayloads ==
    {Pairs("command", "restart", None, None, None),
     Pairs("command", None, "forceresync", None, None),
     Pairs("command", "pause", None, None, None),
     Pairs("custom", "chatopcommand", None, None, None),
     Pairs("custom", None, "nullcommand", None, None),
     Pairs("custom", "chatopcommand", "nullcommand", "command_shutdown_agent", None),
     Pairs("custom", "reload", None, "chatopcommand", None),
     Pairs("custom", "reload", None, None, None),
     Pairs("custom_command", "reload", None, None, None),
     Pairs("custom_command", "reload", None, "nullcommand", None)}

\* No reserved parameter; fqdn is not one.
MCMcpPayloads ==
    {Pairs("custom", "shutdownagent", None, None, None),
     Pairs("custom", "nullcommand", None, None, "chatopcommand"),
     Pairs("custom", "nullcommand", None, "unknown", None)}

=============================================================================
