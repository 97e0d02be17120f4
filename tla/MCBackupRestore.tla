-------------------------- MODULE MCBackupRestore --------------------------
(* Four backup files: the first one of ours, whose config.json was copied  *)
(* before the key was made; one of ours that is damaged; one from another  *)
(* installation; and an old unencrypted one without a config.json.         *)
EXTENDS BackupRestore, TLC

CONSTANTS ours, damaged, foreign, legacy

Ours == [key |-> "own", sound |-> TRUE, sidecar |-> TRUE, uploads |-> TRUE,
         carries |-> NoKey]
Damaged == [Ours EXCEPT !.sound = FALSE]
Foreign == [key |-> "foreign", sound |-> TRUE, sidecar |-> FALSE,
            uploads |-> FALSE, carries |-> "foreign"]
Legacy == [key |-> Plain, sound |-> TRUE, sidecar |-> FALSE, uploads |-> TRUE,
           carries |-> Gone]

Files == {ours, damaged, foreign, legacy}
Inside == ours :> Ours @@ damaged :> Damaged @@ foreign :> Foreign @@ legacy :> Legacy
=============================================================================
