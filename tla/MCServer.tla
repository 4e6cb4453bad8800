------------------------------ MODULE MCServer ------------------------------
(***************************************************************************)
(* Four components modelled without each other's state: the storage         *)
(* clients, the storage configuration, the accounts of clients and the      *)
(* restore.  Since no step of one enables, disables or changes a step of    *)
(* another, their interleavings show nothing that each by itself does not;  *)
(* a behaviour of this module is one of one of them, and the others stay as *)
(* they start.                                                              *)
(***************************************************************************)
EXTENDS CloudClients, StorageConfig, Accounts, Restore

VARIABLE part  \* the component that moves

serverVars == <<part, cloudVars, storageVars, accountVars, restoreVars>>

\* One entry of each type, and a second file.
Snapshot == << [type |-> "d", path |-> "dir"], [type |-> "l", path |-> "link"],
               [type |-> "f", path |-> "file1"], [type |-> "f", path |-> "file2"] >>

\* The provider, and the restore's options and files, vary at the start.
ServerInit ==
    /\ part \in {"cloud", "storage", "accounts", "restore"}
    /\ CloudInit /\ StorageInit /\ AccountsInit /\ RestoreInit
    /\ part # "cloud" => provider = "local"
    /\ part # "restore" => ~overwrite /\ \A p \in Paths : fs[p] = Gone

ServerNext ==
    /\ UNCHANGED part
    /\ \/ /\ part = "cloud" /\ CloudNext
          /\ UNCHANGED <<storageVars, accountVars, restoreVars>>
       \/ /\ part = "storage" /\ StorageNext
          /\ UNCHANGED <<cloudVars, accountVars, restoreVars>>
       \/ /\ part = "accounts" /\ AccountsNext
          /\ UNCHANGED <<cloudVars, storageVars, restoreVars>>
       \/ /\ part = "restore" /\ RestoreNext
          /\ UNCHANGED <<cloudVars, storageVars, accountVars>>

ServerSpec == ServerInit /\ [][ServerNext]_serverVars /\ CloudFairness
=============================================================================
