----------------------------- MODULE MCVmTasks ------------------------------
(* One call of any kind; what other calls do to the VM is in Disturb. *)
EXTENDS VmTasks, TLC
CONSTANT c1
MCAllowed == c1 :> {"start", "shutdown", "stop", "delete", "create", "config", "exec", "snapshot",
                    "unsnapshot", "rollback", "backup", "reset", "ensure", "wait"}
=============================================================================
