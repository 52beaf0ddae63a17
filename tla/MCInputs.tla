------------------------------ MODULE MCInputs ------------------------------
(***************************************************************************)
(* The instance of Inputs that TLC explores: the tools of a host, and what *)
(* a document says of its machines, their settings and their quantities.   *)
(***************************************************************************)
EXTENDS Inputs, TLC

(* The first two are named, the last three are places the program knows.   *)
MCNamedTools == {"mine", "qemu-img"}
MCTools == {"mine", "qemu-img", "stratumimg", "virt-v2v"}
MCV2VPlaces  == <<"virt-v2v">>
MCQemuPlaces == <<"stratumimg", "qemu-img">>

(* Two words, each of which can be an id, a name or both.                  *)
MCTexts == {"a", "b"}

MCFirmwareKeys == {"firmware", "firmwaretype"}
MCSecureKeys   == {"uefi.secureboot.enabled"}
MCTPMKeys      == {"vtpm.present", "tpm.enabled"}
MCKeys         == MCFirmwareKeys \union MCSecureKeys \union MCTPMKeys

MCValues   == {"efi", "bios", "true", "false"}
MCSaysEFI  == {"efi"}
MCSaysTrue == {"true"}

FirmwareConfigs == [key : MCFirmwareKeys, value : {"efi", "bios"}]
                     \union [key : MCSecureKeys, value : {"true", "false"}]
TPMConfigs      == [key : MCTPMKeys, value : {"true", "false"}]
MCConfigs       == FirmwareConfigs \union TPMConfigs

(* Adapters, one of them a passed-through device of no model, and a TPM.   *)
Adapter(names) == [nic |-> TRUE, names |-> names, tpm |-> FALSE]

AdapterItems == {Adapter({"e1000", "e1000e"}), Adapter({"e1000"}), Adapter({"virtio"}),
                 Adapter({})}
TPMItems     == {Adapter({"virtio"}), [nic |-> FALSE, names |-> {}, tpm |-> TRUE]}
MCGuestItems == AdapterItems \union TPMItems

(* The bound on a document: up to four settings on the firmware and        *)
(* adapters, not four settings, or up to four settings on the TPM beside up*)
(* to two items.                                                           *)
MCBound ==
  \/ /\ ToSet(guestItems) \subseteq AdapterItems /\ ToSet(elements) \subseteq FirmwareConfigs
     /\ Len(elements) <= 3 /\ Len(elements) + Len(guestItems) <= 4
  \/ /\ ToSet(guestItems) \subseteq TPMItems /\ ToSet(elements) \subseteq TPMConfigs
     /\ Len(guestItems) <= 2

(* A KiB of 2 bytes, a MiB of 4, a GiB of 8.                               *)
MCMultiplier == "byte" :> 1 @@ "KiB" :> 2 @@ "MiB" :> 4 @@ "GiB" :> 8

(* -1, 0, 0.5, 1, 1.5, 4.5 and one that is too large.                      *)
MCQuantities == {-2, 0, 1, 2, 3, 9, 20000}

(* Units matter for memory, and quantities for memory and processors.      *)
MCSizeItems ==
       [type : {"4"}, number : {TRUE}, halves : MCQuantities, units : DOMAIN MCMultiplier]
  \union [type : {"3"}, number : {TRUE}, halves : MCQuantities, units : {"byte"}]
  \union [type : {"3", "4", "10"}, number : {FALSE}, halves : {0}, units : {"byte"}]
=============================================================================
