----------------------------- MODULE MCDeviceSync -----------------------------
(* DeviceSync with three own devices; two of them may be removed. *)
EXTENDS DeviceSync

MCDevice == {1, 2, 3}
MCPerson == {1}
MCRemovable == {2, 3}
MCRestarting == {2}
\* Dials into the device that removes, which is never removed itself.
SlowIn == {<<2, 1>>}
SlowAll == MCDevice \X MCDevice
=============================================================================
