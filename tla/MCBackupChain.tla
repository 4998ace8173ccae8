---------------------------- MODULE MCBackupChain ----------------------------
(* BackupChain on two own devices, of which the first backs up by itself. *)
EXTENDS BackupChain

MCDevice == {1, 2}
MCAuto == {1}
MCEntry == {"payment", "receipt"}
MCFile == {"receipt"}
=============================================================================
