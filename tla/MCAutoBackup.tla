---------------------------- MODULE MCAutoBackup ----------------------------
(* Automatic backups: the settings administrators choose among.            *)
EXTENDS AutoBackup
KeepOrNot == [enabled : {TRUE}, keep : BOOLEAN]
OnOrOff == [enabled : BOOLEAN, keep : {TRUE}]
=============================================================================
