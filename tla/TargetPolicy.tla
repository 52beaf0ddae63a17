---------------------------- MODULE TargetPolicy ----------------------------
(***************************************************************************)
(* The decisions of stratum-migrate that are tables: which VM engine the   *)
(* bundle is for, what firmware and architecture that engine accepts, and  *)
(* which controller a disk is exposed on.  Names are in lower case and     *)
(* without blanks, as every caller here passes them.                       *)
(***************************************************************************)

Buses    == {"scsi", "virtio"}
Engines  == {"canvas", "canvas3d", "stratum"}
Policies == {"auto", "preserve"} \union Buses

NoBus   == ""         \* normalizeDiskBus knows no portable bus for it
Refused == "refused"  \* an error in place of an engine
-----------------------------------------------------------------------------
(* Engine, firmware and architecture *)

StratumTargetSupported(arch, firmware) ==
  \/ arch = "x86_64" /\ firmware \in {"uefi", "secureboot"}
  \/ arch = "aarch64" /\ firmware = "uefi"

(* True where the code returns no error.                                   *)
ValidateTargetContract(engine, arch, firmware) ==
  engine = "stratum" =>
    /\ arch \in {"x86_64", "aarch64"}
    /\ firmware \notin {"bios", ""}
    /\ ~(arch = "aarch64" /\ firmware = "secureboot")
    /\ firmware \in {"uefi", "secureboot"}

ResolveTargetEngine(requested, arch, firmware) ==
  CASE requested = "auto" ->
         IF StratumTargetSupported(arch, firmware) THEN "stratum" ELSE "canvas"
    [] requested = "stratum" /\ ~ValidateTargetContract("stratum", arch, firmware) ->
         Refused
    [] OTHER -> requested
-----------------------------------------------------------------------------
(* Disk controllers *)

NormalizeDiskBus(bus) ==
  CASE bus \in {"virtio", "virtio-blk"}                      -> "virtio"
    [] bus \in {"scsi", "virtio-scsi", "sata", "ahci", "ide"} -> "scsi"
    [] OTHER                                                  -> NoBus

PreservedBus(bus) == IF bus \in Buses THEN bus ELSE "scsi"

(* The bus a backend's output is filed under before the engine counts.     *)
ChooseConversionOutputBus(sourceBus, policy, backendBus) ==
  CASE policy \in Buses                       -> policy
    [] policy = "preserve"                    -> PreservedBus(sourceBus)
    [] policy = "auto" /\ NormalizeDiskBus(backendBus) # NoBus
                                              -> NormalizeDiskBus(backendBus)
    [] OTHER                                  -> "scsi"

(* Mutant: the driver virt-v2v prepared the guest for decides.             *)
ChooseRuntimeBusAsConverted(sourceBus, policy, convertedBus, engine) ==
  CASE policy \in Buses    -> policy
    [] policy = "preserve" -> PreservedBus(NormalizeDiskBus(sourceBus))
    [] policy = "auto" /\ NormalizeDiskBus(convertedBus) # NoBus
                           -> NormalizeDiskBus(convertedBus)
    [] OTHER               -> "scsi"

(* The bus the migrated guest sees.  Under "preserve" the source bus is    *)
(* normalised first here, and not above.                                   *)
ChooseRuntimeBus(sourceBus, policy, convertedBus, engine) ==
  CASE policy \in Buses       -> policy
    [] policy = "preserve"    -> PreservedBus(NormalizeDiskBus(sourceBus))
    [] policy = "auto" /\ engine # "stratum" /\ NormalizeDiskBus(convertedBus) # NoBus
                              -> NormalizeDiskBus(convertedBus)
    [] OTHER                  -> "scsi"

RuntimeDiskDevice(engine, bus) ==
  CASE NormalizeDiskBus(bus) = "virtio"                        -> "virtio-blk"
    [] NormalizeDiskBus(bus) = "scsi" /\ engine = "stratum"    -> "vmbus-scsi-storvsc"
    [] NormalizeDiskBus(bus) = "scsi" /\ engine # "stratum"    -> "virtio-scsi"
    [] OTHER                                                   -> NoBus
-----------------------------------------------------------------------------
(* Network adapters *)

PortableNICs == {"virtio", "vmxnet3", "e1000e"}

(* Whatever is not portable becomes e1000e.                                *)
NormalizeNIC(model) ==
  CASE model \in {"virtio", "virtio-net-pci"} -> "virtio"
    [] model = "vmxnet3"                      -> "vmxnet3"
    [] OTHER                                  -> "e1000e"
=============================================================================
