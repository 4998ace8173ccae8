--------------------------- MODULE MCBackupSettings ---------------------------
(* BackupSettings with few devices and backups. *)
EXTENDS BackupSettings

TwoDevices == {"laptop", "phone"}
OneDevice == {"laptop"}
NoMember == {}
PhoneOfMember == {"phone"}
FullBackups == {[cid |-> "A", base |-> "A"], [cid |-> "B", base |-> "B"]}
TwoChains == FullBackups \cup {[cid |-> "A1", base |-> "A"]}
CardAndRun == {"card", "run"}
BothCards == {"card", "credits"}
NotYetTaken == {FALSE}
AnyVerdict == BOOLEAN
=============================================================================
