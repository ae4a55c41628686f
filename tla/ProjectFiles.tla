---------------------------- MODULE ProjectFiles ----------------------------
(***************************************************************************)
(* What the models of the config commands share: the files that manifests  *)
(* map ports into (ConfigMutation has the processes that write them,       *)
(* ConfigDocuments what is written) and the name under which apply keeps   *)
(* the copy of each (_safe_backup_name, agent/portforge_agent/             *)
(* config_manager.py).                                                     *)
(***************************************************************************)
CONSTANTS
    File,        \* the files named in the config mappings of manifests
    BackupName,  \* _safe_backup_name of each file
    Absent       \* what is read of a file that does not exist

ASSUME BackupAssumption == BackupName \in [File -> STRING]

=============================================================================
