---------------------------- MODULE SettingsFile ----------------------------
(***************************************************************************)
(* What the configuration file of the provider (config/opamp.json) can     *)
(* say, as far as its settings are told apart.                             *)
(***************************************************************************)
EXTENDS Integers

CONSTANTS MaxValue,      \* bound: largest number of seconds
          LogLevels,     \* names of log levels
          TlsSections,   \* what the section "tls" can say
          InitialFiles,  \* what the file can say at first
          NoFile,        \* a missing, empty or torn file: json.loads raises
          MaxEdits       \* bound: how often an operator edits the file

ASSUME SettingsAssumption ==
    /\ MaxValue \in Nat \ {0}
    /\ MaxEdits \in Nat

Values == 0 .. MaxValue

\* The keys of the section "provider" that the model tells apart.  webui_port,
\* retryAfterSeconds, latest_docs_url and the modes of authorization travel
\* like delayed_comms_seconds, but no request changes them; the history size,
\* the retentions and the autosave interval are handled like the heartbeat.
Contents == [delayed : Values, significant : Values, heartbeat : Values,
             enabled : BOOLEAN, log : LogLevels, tls : TlsSections]

ASSUME InitialFilesAssumption == InitialFiles \subseteq Contents /\ NoFile \notin Contents
=============================================================================
