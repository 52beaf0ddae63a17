--------------------------- MODULE GuestDetection ---------------------------
(***************************************************************************)
(* What ParseOVF takes from the VMware settings and the items of a virtual *)
(* system: the firmware, whether there is a virtual TPM, the model of the  *)
(* network adapters.  The settings go into a Go map, and the loops over it *)
(* visit its keys in an order that differs from run to run.                *)
(*                                                                         *)
(* A key is one the code looks for or one it does not; a value is what it  *)
(* says.  The classes may overlap: firmware.secure_boot is of two.         *)
(***************************************************************************)
EXTENDS Integers, Sequences, FiniteSets

CONSTANTS Keys,         \* the keys of Config elements, in lower case
          FirmwareKeys, \* those that are or contain firmware, or are efi,
          SecureKeys,   \* contain secureboot, but for dots and underlines,
          TPMKeys,      \* and contain tpm
          Values,       \* their values
          SaysEFI,      \* those that contain efi,
          SaysTrue,     \* and those boolFromText takes for true
          Configs,      \* the Config elements a system can have
          GuestItems,   \* the Item elements it can have
          MaxConfigs,   \* bound on the former
          MaxGuestItems \* and on the latter

(* Mutant: the shorter name first.                                         *)
ModelsShortFirst == <<"vmxnet3", "e1000", "e1000e", "rtl8139", "virtio">>

(* The order in which models are looked for, and counted.                  *)
Models == <<"vmxnet3", "e1000e", "e1000", "rtl8139", "virtio">>

ModelNames == {Models[k] : k \in DOMAIN Models}

GuestItem == [nic   : BOOLEAN,            \* ResourceType 10
              names : SUBSET ModelNames,  \* the models its texts contain
              tpm   : BOOLEAN]            \* whether they contain tpm

ASSUME GuestDetectionAssumption ==
  /\ FirmwareKeys \subseteq Keys /\ SecureKeys \subseteq Keys /\ TPMKeys \subseteq Keys
  /\ SaysEFI \subseteq Values /\ SaysTrue \subseteq Values
  /\ Configs \subseteq [key : Keys, value : Values]
  /\ GuestItems \subseteq GuestItem
  \* who says e1000e says e1000
  /\ \A i \in GuestItems : "e1000e" \in i.names => "e1000" \in i.names
  /\ {MaxConfigs, MaxGuestItems} \subseteq Nat

VARIABLES elements,   \* the Config elements read
          guestItems, \* the Item elements
          option,     \* --tpm
          guestStep,  \* the loop ParseOVF is in
          config,     \* key -> its value, for the keys that are there
          pending,    \* the keys a loop has not visited
          efi,        \* whether a value visited says EFI
          firmware,   \* as detected
          tpm,        \* whether there is a virtual TPM
          counts,     \* model -> the adapters of this model
          guestNext,  \* the item that is next
          enabled     \* whether the template has a TPM

guestSource == <<elements, guestItems, option>>
found       == <<firmware, tpm>>
guestVars   == <<guestSource, guestStep, config, pending, efi, found, counts,
                 guestNext, enabled>>

GuestInit ==
  /\ elements = <<>>
  /\ guestItems \in UNION {[1..n -> GuestItems] : n \in 0..MaxGuestItems}
  /\ option \in {"auto", "none", "tpm2"}
  /\ guestStep = "config"
  /\ config = <<>>
  /\ pending = {}
  /\ efi = FALSE
  /\ firmware = "bios" /\ tpm = FALSE
  /\ counts = [m \in ModelNames |-> 0]
  /\ guestNext = 1
  /\ enabled = FALSE
-----------------------------------------------------------------------------
(* parseFirmwareAndTPM *)

(* A later element of the same key replaces the earlier one.               *)
ReadConfig(e) ==
  /\ guestStep = "config" /\ Len(elements) < MaxConfigs
  /\ elements' = Append(elements, e)
  /\ config' = [k \in DOMAIN config \union {e.key} |->
                  IF k = e.key THEN e.value ELSE config[k]]
  /\ UNCHANGED <<guestItems, option, guestStep, pending, efi, found, counts,
                 guestNext, enabled>>

EndOfConfig ==
  /\ guestStep = "config"
  /\ guestStep' = "firmware" /\ pending' = DOMAIN config
  /\ UNCHANGED <<guestSource, config, efi, found, counts, guestNext, enabled>>

VisitFirmware(k) ==
  /\ guestStep = "firmware" /\ k \in pending
  /\ pending' = pending \ {k}
  /\ efi' = (efi \/ (k \in FirmwareKeys /\ config[k] \in SaysEFI))
  /\ UNCHANGED <<guestSource, guestStep, config, found, counts, guestNext, enabled>>

EndOfFirmware ==
  /\ guestStep = "firmware" /\ pending = {}
  /\ firmware' = IF efi THEN "uefi" ELSE "bios"
  /\ guestStep' = "secure" /\ pending' = DOMAIN config
  /\ UNCHANGED <<guestSource, config, efi, tpm, counts, guestNext, enabled>>

VisitSecure(k) ==
  /\ guestStep = "secure" /\ k \in pending
  /\ pending' = pending \ {k}
  /\ firmware' = IF k \in SecureKeys /\ config[k] \in SaysTrue THEN "secureboot" ELSE firmware
  /\ UNCHANGED <<guestSource, guestStep, config, efi, tpm, counts, guestNext, enabled>>

EndOfSecure ==
  /\ guestStep = "secure" /\ pending = {}
  /\ guestStep' = "tpm" /\ pending' = DOMAIN config
  /\ UNCHANGED <<guestSource, config, efi, found, counts, guestNext, enabled>>

(* Mutant: the first setting of a TPM that is visited decides.             *)
VisitTPMFirst(k) ==
  /\ guestStep = "tpm" /\ k \in pending
  /\ pending' = IF k \in TPMKeys THEN {} ELSE pending \ {k}
  /\ tpm' = (k \in TPMKeys /\ config[k] \in SaysTrue)
  /\ UNCHANGED <<guestSource, guestStep, config, efi, firmware, counts, guestNext, enabled>>

(* The first that says so ends the loop.                                   *)
VisitTPM(k) ==
  /\ guestStep = "tpm" /\ k \in pending
  /\ tpm' = (k \in TPMKeys /\ config[k] \in SaysTrue)
  /\ pending' = IF tpm' THEN {} ELSE pending \ {k}
  /\ UNCHANGED <<guestSource, guestStep, config, efi, firmware, counts, guestNext, enabled>>

(* The items are looked at only if no setting says so.                     *)
EndOfTPM ==
  /\ guestStep = "tpm" /\ pending = {}
  /\ tpm' = (tpm \/ \E k \in DOMAIN guestItems : guestItems[k].tpm)
  /\ guestStep' = "nics"
  /\ UNCHANGED <<guestSource, config, pending, efi, firmware, counts, guestNext, enabled>>
-----------------------------------------------------------------------------
(* pickNICModel *)

(* Mutant: the item after an adapter is passed over.                       *)
CountNICAndSkip ==
  /\ guestStep = "nics" /\ guestNext <= Len(guestItems)
  /\ guestNext' = IF guestItems[guestNext].nic THEN guestNext + 2 ELSE guestNext + 1
  /\ UNCHANGED <<guestSource, guestStep, config, pending, efi, found, counts, enabled>>

(* The first model, in the order of Models, that the texts contain.        *)
ModelOf(item) ==
  {Models[k] : k \in {j \in DOMAIN Models : /\ Models[j] \in item.names
                                           /\ \A h \in 1..(j - 1) : Models[h] \notin item.names}}

CountNIC ==
  /\ guestStep = "nics" /\ guestNext <= Len(guestItems)
  /\ guestNext' = guestNext + 1
  /\ counts' = [m \in ModelNames |->
                  IF guestItems[guestNext].nic /\ m \in ModelOf(guestItems[guestNext])
                  THEN counts[m] + 1 ELSE counts[m]]
  /\ UNCHANGED <<guestSource, guestStep, config, pending, efi, found, enabled>>

(* The first of the most frequent ones; e1000e where there are none.       *)
NICModel ==
  IF \A m \in ModelNames : counts[m] = 0 THEN "e1000e"
  ELSE Models[CHOOSE k \in DOMAIN Models :
                /\ \A j \in DOMAIN Models : counts[Models[j]] <= counts[Models[k]]
                /\ \A j \in 1..(k - 1) : counts[Models[j]] < counts[Models[k]]]

(* Run and RenderTemplateYAML: the template has a TPM or it has none.      *)
Finish ==
  /\ guestStep = "nics" /\ guestNext > Len(guestItems)
  /\ enabled' = IF option = "auto" THEN tpm ELSE option = "tpm2"
  /\ guestStep' = "done"
  /\ UNCHANGED <<guestSource, config, pending, efi, found, counts, guestNext>>

GuestEnded == guestStep = "done"

GuestSteps ==
  \/ \E e \in Configs : ReadConfig(e)
  \/ \E k \in Keys : VisitFirmware(k) \/ VisitSecure(k) \/ VisitTPM(k)
  \/ EndOfConfig \/ EndOfFirmware \/ EndOfSecure \/ EndOfTPM
  \/ CountNIC \/ Finish

GuestSpec == GuestInit /\ [][GuestSteps]_guestVars
-----------------------------------------------------------------------------
GuestTypeOK ==
  /\ elements \in Seq(Configs)
  /\ guestItems \in Seq(GuestItems)
  /\ guestStep \in {"config", "firmware", "secure", "tpm", "nics", "done"}
  /\ DOMAIN config \subseteq Keys /\ \A k \in DOMAIN config : config[k] \in Values
  /\ pending \subseteq DOMAIN config
  /\ efi \in BOOLEAN
  /\ firmware \in {"bios", "uefi", "secureboot"}
  /\ tpm \in BOOLEAN
  /\ counts \in [ModelNames -> 0..Len(guestItems)]
  /\ guestNext \in 1..(Len(guestItems) + 1)
  /\ enabled \in BOOLEAN

(* The document says something of a class of keys: the last element of one *)
(* of these keys has such a value.                                         *)
Says(keys, values) ==
  \E n \in DOMAIN elements :
    /\ elements[n].key \in keys
    /\ elements[n].value \in values
    /\ \A o \in DOMAIN elements : o > n => elements[o].key # elements[n].key

(* The firmware depends on the document alone and not on the order of the  *)
(* map: Secure Boot where a setting enables it, whatever the others say,   *)
(* else UEFI where one says EFI, else BIOS.                                *)
FirmwareOfTheDocument ==
  guestStep \in {"tpm", "nics", "done"} =>
    firmware = IF Says(SecureKeys, SaysTrue) THEN "secureboot"
               ELSE IF Says(FirmwareKeys, SaysEFI) THEN "uefi" ELSE "bios"

(* README: "When the OVF declares a vTPM, the default --tpm auto enables a *)
(* fresh STRATUM TPM 2.0 device"; by a setting or by an item, in whatever  *)
(* order these are visited, and only then.                                 *)
FreshTPMWhereDeclared ==
  guestStep = "done" /\ option = "auto" =>
    (enabled <=> Says(TPMKeys, SaysTrue) \/ \E k \in DOMAIN guestItems : guestItems[k].tpm)

(* What the texts of an adapter mean: the one model they name; who says    *)
(* e1000e has said e1000, and means e1000e.                                *)
Means(item, m) == item.names = {m} \/ (m = "e1000e" /\ item.names = {"e1000", "e1000e"})

(* Where every adapter means one model or none, no other model is meant by *)
(* more adapters than the one that is taken: an e1000e counts for itself   *)
(* only.                                                                   *)
MostCommonNIC ==
  LET NICs        == {k \in DOMAIN guestItems : guestItems[k].nic}
      Adapters(m) == {k \in NICs : Means(guestItems[k], m)}
  IN  /\ guestStep = "done"
      /\ \A k \in NICs : guestItems[k].names = {} \/ \E m \in ModelNames : Means(guestItems[k], m)
      => \A m \in ModelNames : Cardinality(Adapters(m)) <= Cardinality(Adapters(NICModel))

(* Two runs on one document come to the same, and to what it says, however *)
(* the maps are visited.                                                   *)
SettingsOfTheDocument ==
  FirmwareOfTheDocument /\ FreshTPMWhereDeclared /\ MostCommonNIC
=============================================================================
