---------------------------- MODULE SettingsCell ----------------------------
(***************************************************************************)
(* What the settings pages of the provider promise: the settings in force  *)
(* change by accepted requests only, they are saved as a whole or not at   *)
(* all, a save touches nothing of the file that the provider does not own, *)
(* and a start takes the saved settings.  ProviderSettings has the files,  *)
(* the order of the writes and the failures, and implements this.          *)
(***************************************************************************)
EXTENDS Integers

CONSTANTS Contents,    \* what a configuration file can say
          LogLevels,   \* log levels that the command line can ask for
          MaxEdits     \* bound: how often an operator edits the file

VARIABLES inForce,     \* the settings that the running provider works with
          saved,       \* the settings that the disk holds
          up,          \* the provider runs
          edits        \* how often an operator has edited the file

cellVars == <<inForce, saved, up, edits>>

\* A request for thresholds and persistence leaves the others alone ...
AcceptedComms(old, new) ==
    /\ new.delayed \in 1 .. (new.significant - 1)
    /\ new = [old EXCEPT !.delayed = new.delayed, !.significant = new.significant,
                         !.enabled = new.enabled]

\* ... and so does a request for the heartbeat frequency of the clients.
AcceptedClient(old, new) ==
    /\ new.heartbeat >= 1
    /\ new = [old EXCEPT !.heartbeat = new.heartbeat]

CellInit ==
    /\ saved \in Contents
    /\ inForce \in Contents
    /\ up = FALSE
    /\ edits = 0

Request ==
    /\ up
    /\ inForce' \in Contents
    /\ AcceptedComms(inForce, inForce') \/ AcceptedClient(inForce, inForce')
    /\ UNCHANGED <<saved, up, edits>>

\* Saving is atomic.  The TLS section belongs to the operator.
Save ==
    /\ up
    /\ saved' = [inForce EXCEPT !.tls = saved.tls]
    /\ UNCHANGED <<inForce, up, edits>>

\* A start may leave persistence off and take another log level; it raises a
\* frequency below one.
Start ==
    /\ ~up
    /\ up' = TRUE
    /\ \E enabled \in {FALSE, saved.enabled}, log \in LogLevels :
          inForce' = [saved EXCEPT !.enabled = enabled, !.log = log,
                         !.heartbeat = IF saved.heartbeat < 1 THEN 1 ELSE saved.heartbeat]
    /\ UNCHANGED <<saved, edits>>

Stop ==
    /\ up
    /\ up' = FALSE
    /\ UNCHANGED <<inForce, saved, edits>>

OperatorEdit ==
    /\ edits < MaxEdits
    /\ edits' = edits + 1
    /\ saved' \in Contents
    /\ UNCHANGED <<inForce, up>>

CellNext == Request \/ Save \/ Start \/ Stop \/ OperatorEdit

CellSpec == CellInit /\ [][CellNext]_cellVars
=============================================================================
