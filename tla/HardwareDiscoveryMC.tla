------------------------ MODULE HardwareDiscoveryMC ------------------------
(***************************************************************************)
(* HardwareDiscovery for TLC: one thing of each section but "system" and   *)
(* "memory", which are gathered like the CPU and the disks.                *)
(***************************************************************************)
EXTENDS HardwareDiscovery

CONSTANTS cpu, disk, gpu, nic, usb

MCThings == {cpu, disk, gpu, nic, usb}
MCKind == [t \in MCThings |-> CASE t = cpu -> "cpu" [] t = disk -> "storage" [] t = gpu -> "gpu"
                                [] t = nic -> "network" [] t = usb -> "usb"]
=============================================================================
