--------------------------- MODULE MCProviderDisk ---------------------------
(* Instances of ProviderDisk small enough for TLC. *)
EXTENDS ProviderDisk

\* A file with ordered thresholds, as the repository ships it, and one whose
\* heartbeat frequency is zero.
Shipped == [delayed |-> 1, significant |-> 2, heartbeat |-> 1, enabled |-> TRUE,
            log |-> "INFO", tls |-> "on"]
ShippedFiles == {Shipped, [Shipped EXCEPT !.heartbeat = 0]}

\* Bound: the settings, while there is no snapshot and no change to be saved;
MCSettings == retention = 1 /\ clock = 0 /\ changes = 0 /\ files = <<>> /\ task = Idle
\* or the snapshots, while requests change CONFIG and the saving of the file fails;
MCSnapshots ==
    /\ file = Shipped /\ backup = NoFile /\ edits = 0 /\ folderUsable
    /\ config \in {Shipped, [Shipped EXCEPT !.enabled = FALSE]}
    /\ save.at \in {"idle", "load"} /\ save.request # "client"
    /\ storeHeartbeat = 1 /\ ~heartbeatApart
\* or both, while one second passes and one change is made.
MCBoth ==
    /\ clock <= 1 /\ changes <= 1
    /\ edits = 0 /\ storeHeartbeat = 1
    /\ \A content \in {config, file, backup} \ {NoFile} :
          content.log = "INFO" /\ content.heartbeat <= 1
MCOneOrBoth == MCSettings \/ MCSnapshots \/ MCBoth
=============================================================================
