-------------------------- MODULE MigrationProofs --------------------------
(***************************************************************************)
(* Theorems about Migration, for any set of options, any .nvram files and  *)
(* any way to name them.  They rest on facts about the tables of           *)
(* TargetPolicy and CanvasTemplate, and on one inductive invariant that    *)
(* says what Run knows at each of its steps.                               *)
(***************************************************************************)
EXTENDS Migration, TLAPS

Examined  == {"parse", "resolve", "convert", "nvram", "template", "done"}
Resolved  == {"convert", "nvram", "template", "done"}
Converted == {"nvram", "template", "done"}

(* The manifest: an appliance that contradicts it is let through only on   *)
(* request, or to virt-v2v, which is the backend then and does not convert *)
(* it.                                                                     *)
ManifestInv ==
  /\ pc \in {"select", "manifest"} => verified = Unknown
  /\ verified = "virt-v2v" => backend = "virt-v2v"
  /\ pc \in Examined /\ ~intact => cfg.skipManifest \/ verified = "virt-v2v"
  /\ pc \in Converted /\ verified = "virt-v2v" => intact

(* The backend has a qemu-img where there is one, and uses it.             *)
CheckInv ==
  /\ pc \in Examined \union {"manifest"} => qemuImg = host.qemuImg
  /\ pc \in Converted /\ qemuImg => checked

(* The engine is the one for the machine the OVF describes; a conversion   *)
(* changes at most the firmware, by virt-v2v alone; the contract has       *)
(* been looked at again before a template is rendered, and the template is *)
(* of the machine it was looked at for.                                    *)
EngineInv ==
  /\ pc \in Resolved =>
       /\ engine = ResolveTargetEngine(cfg.engine, Arch, Override(cfg.firmware, vm.firmware))
       /\ engine # Refused
  /\ pc \in Converted => result \in {vm.firmware, "uefi", "secureboot"}
  /\ pc \in Converted /\ result # vm.firmware => backend = "virt-v2v"
  /\ pc \in {"template", "done"} => ValidateTargetContract(engine, Arch, Firmware)
  /\ pc # "done" => rendered = {}
  /\ \A o \in rendered : o.engine = engine /\ o.arch = Arch /\ o.firmware = Firmware

MigrationInv == TypeOK /\ ManifestInv /\ CheckInv /\ EngineInv
-----------------------------------------------------------------------------
(* The tables *)

(* What a choice of disk bus can come to is a bus the template offers.     *)
LEMMA RuntimeBusOffered ==
  ASSUME NEW bus, NEW policy \in Policies, NEW converted0, NEW e
  PROVE  ChooseRuntimeBus(bus, policy, converted0, e) \in Buses
BY DEF ChooseRuntimeBus, PreservedBus, NormalizeDiskBus, Buses, Policies, NoBus

(* NormalizeNIC knows no other adapters than the template does.            *)
LEMMA NICPortable == ASSUME NEW model PROVE NormalizeNIC(model) \in PortableNICs
BY DEF NormalizeNIC, PortableNICs

(* The two statements of what STRATUM accepts, the one that chooses the    *)
(* engine and the one that has the last word, are the same table.          *)
LEMMA ContractsAgree ==
  ASSUME NEW arch \in Arches, NEW firmware \in Firmwares
  PROVE  StratumTargetSupported(arch, firmware)
           <=> ValidateTargetContract("stratum", arch, firmware)
BY DEF StratumTargetSupported, ValidateTargetContract, Arches, Firmwares

(* A resolved engine is an engine, is the one asked for unless none was,   *)
(* and accepts the machine it was resolved for.                            *)
LEMMA ResolvedEngine ==
  ASSUME NEW requested \in Engines \union {"auto"}, NEW arch \in Arches,
         NEW firmware \in Firmwares,
         ResolveTargetEngine(requested, arch, firmware) # Refused
  PROVE  /\ ResolveTargetEngine(requested, arch, firmware) \in Engines
         /\ ValidateTargetContract(ResolveTargetEngine(requested, arch, firmware),
                                   arch, firmware)
         /\ requested # "auto" =>
              ResolveTargetEngine(requested, arch, firmware) = requested
<1>1. CASE requested = "auto"
  BY <1>1, ContractsAgree DEF ResolveTargetEngine, Engines, ValidateTargetContract
<1>2. CASE requested = "stratum"
  BY <1>2 DEF ResolveTargetEngine, Engines, Refused
<1>3. CASE requested \in {"canvas", "canvas3d"}
  BY <1>3 DEF ResolveTargetEngine, Engines, ValidateTargetContract
<1> QED BY <1>1, <1>2, <1>3 DEF Engines

(* A template of a machine its engine accepts offers each of its values.   *)
LEMMA AcceptedIsUsable ==
  ASSUME NEW o \in TemplateOptions,
         ValidateTargetContract(o.engine, o.arch, o.firmware)
  PROVE  Usable(o)
<1> DEFINE fields == {"guest_os", "qemu_acceleration", "qemu_nic", "disk_interface",
                      "qemu_arch", "qemu_machine", "qemu_cpu_model", "firmware",
                      "memory_encryption_mode", "qemu_version"}
<1>1. /\ o.engine \in Engines /\ o.arch \in Arches /\ o.firmware \in Firmwares
      /\ o.nic \in PortableNICs /\ o.diskBus \in Buses /\ o.guestOS \in GuestOSes
  BY DEF TemplateOptions
<1>2. DOMAIN Values(o) = fields
  BY DEF Values
<1>3. ASSUME NEW f \in {"guest_os", "qemu_nic", "disk_interface", "qemu_version"}
      PROVE  Values(o)[f] \in Choices(o, f)
  <2>1. DOMAIN CommonChoices = {"guest_os", "qemu_nic", "disk_interface", "qemu_version"}
    BY DEF CommonChoices
  <2>2. Choices(o, f) = CommonChoices[f]
    BY <2>1, <1>3 DEF Choices
  <2>3. CASE f = "guest_os"
    BY <1>1, <2>2, <2>3 DEF Values, CommonChoices
  <2>4. CASE f = "qemu_nic"
    BY <1>1, <2>2, <2>4 DEF Values, CommonChoices, PortableNICs
  <2>5. CASE f = "disk_interface"
    BY <1>1, <2>2, <2>5 DEF Values, CommonChoices, Buses
  <2>6. CASE f = "qemu_version"
    BY <1>1, <2>2, <2>6 DEF Values, CommonChoices, Engines
  <2> QED BY <1>3, <2>3, <2>4, <2>5, <2>6
<1>4. ASSUME NEW f \in fields \ {"guest_os", "qemu_nic", "disk_interface", "qemu_version"}
      PROVE  Values(o)[f] \in Choices(o, f)
  <2>1. Choices(o, f) = IF o.engine = "stratum" THEN StratumChoices(o.arch)[f]
                                               ELSE CanvasChoices[f]
    BY <1>4 DEF Choices, CommonChoices
  <2>2. CASE o.engine = "stratum"
    <3>1. /\ o.arch \in {"x86_64", "aarch64"}
          /\ o.firmware \in IF o.arch = "x86_64" THEN {"uefi", "secureboot"} ELSE {"uefi"}
      BY <2>2 DEF ValidateTargetContract
    <3>2. CASE f = "firmware"
      BY <3>1, <3>2, <2>1, <2>2 DEF Values, StratumChoices
    <3>3. CASE f = "qemu_arch"
      BY <3>1, <3>3, <2>1, <2>2 DEF Values, StratumChoices
    <3>4. CASE f \in {"qemu_acceleration", "qemu_cpu_model", "memory_encryption_mode"}
      BY <3>4, <2>1, <2>2 DEF Values, StratumChoices
    <3>5. CASE f = "qemu_machine"
      BY <3>5, <2>1, <2>2 DEF Values, StratumChoices
    <3> QED BY <1>4, <3>2, <3>3, <3>4, <3>5
  <2>3. CASE o.engine # "stratum"
    BY <1>1, <1>4, <2>1, <2>3 DEF Values, CanvasChoices, Machine, Arches, Firmwares
  <2> QED BY <2>2, <2>3
<1> QED BY <1>2, <1>3, <1>4 DEF Usable
-----------------------------------------------------------------------------
(* The invariant *)

(* The fields of an option record, and what Override makes of them.        *)
LEMMA OptionTypes ==
  ASSUME TypeOK
  PROVE  /\ cfg.engine \in Engines \union {"auto"}
         /\ cfg.skipManifest \in BOOLEAN /\ cfg.keepNVRAM \in BOOLEAN
         /\ vm.firmware \in Firmwares /\ vm.nvram \subseteq NVRAMFiles
         /\ Arch \in Arches /\ Firmware \in Firmwares
         /\ Override(cfg.firmware, vm.firmware) \in Firmwares
         /\ host.qemuImg \in BOOLEAN
<1>1. cfg \in ConfigFields
  BY MigrationAssumption DEF TypeOK
<1>2. /\ vm.arch \in Arches /\ vm.firmware \in Firmwares /\ vm.nvram \subseteq NVRAMFiles
  BY DEF TypeOK, Machines, Arches
<1> QED BY <1>1, <1>2 DEF TypeOK, ConfigFields, Hosts, Arch, Firmware, Override

LEMMA InitMigration == Init => MigrationInv
<1> SUFFICES ASSUME Init PROVE MigrationInv
  OBVIOUS
<1>1. TypeOK
  BY DEF Init, TypeOK, Machines, Firmwares, Unknown
<1>2. ManifestInv /\ CheckInv /\ EngineInv
  BY DEF Init, ManifestInv, CheckInv, EngineInv, Unknown, Examined, Resolved, Converted
<1> QED BY <1>1, <1>2 DEF MigrationInv

LEMMA SelectStep == MigrationInv /\ SelectBackend => MigrationInv'
<1> SUFFICES ASSUME MigrationInv, SelectBackend PROVE MigrationInv'
  OBVIOUS
<1> USE DEF MigrationInv, SelectBackend, choices, appliance, converted, nvram
<1>1. TypeOK'
  <2>1. cfg.backend \in {"auto", "qemu-img", "virt-v2v"}
    BY MigrationAssumption DEF TypeOK, ConfigFields
  <2>2. BackendWanted \in {"qemu-img", "virt-v2v"}
    BY <2>1 DEF BackendWanted
  <2> QED BY <2>2 DEF TypeOK, Hosts
<1>2. ManifestInv'
  BY DEF ManifestInv, Examined, Converted, Unknown
<1>3. CheckInv'
  BY DEF CheckInv, Converted
<1>4. EngineInv'
  BY DEF EngineInv, Resolved, Converted, Arch, Firmware
<1> QED BY <1>1, <1>2, <1>3, <1>4

LEMMA ManifestStep == MigrationInv /\ CheckManifest => MigrationInv'
<1> SUFFICES ASSUME MigrationInv, CheckManifest PROVE MigrationInv'
  OBVIOUS
<1> USE DEF MigrationInv, CheckManifest, choices, tools, converted, nvram
<1>1. /\ verified' \in {"nobody", "here", "virt-v2v"}
      /\ verified' = "virt-v2v" => backend = "virt-v2v"
      /\ verified' = "nobody" => cfg.skipManifest
  BY OptionTypes
<1>2. TypeOK'
  BY <1>1 DEF TypeOK
<1>3. ManifestInv' /\ CheckInv' /\ EngineInv'
  BY <1>1 DEF ManifestInv, CheckInv, EngineInv, Examined, Resolved, Converted,
              Arch, Firmware
<1> QED BY <1>2, <1>3

LEMMA ParseStep == MigrationInv /\ ParseOVF => MigrationInv'
<1> SUFFICES ASSUME MigrationInv, ParseOVF PROVE MigrationInv'
  OBVIOUS
<1> USE DEF MigrationInv, ParseOVF, choices, tools, converted, nvram
<1>1. TypeOK'
  BY DEF TypeOK
<1>2. ManifestInv' /\ CheckInv'
  BY DEF ManifestInv, CheckInv, Examined, Converted
<1>3. EngineInv'
  BY DEF EngineInv, Resolved, Converted
<1> QED BY <1>1, <1>2, <1>3

LEMMA ResolveStep == MigrationInv /\ ResolveEngine => MigrationInv'
<1> SUFFICES ASSUME MigrationInv, ResolveEngine PROVE MigrationInv'
  OBVIOUS
<1> USE DEF MigrationInv, ResolveEngine, choices, tools, appliance, converted, nvram
<1>1. TypeOK'
  BY OptionTypes, ResolvedEngine DEF TypeOK
<1>2. ManifestInv' /\ CheckInv'
  BY DEF ManifestInv, CheckInv, Examined, Converted
<1>3. EngineInv'
  BY DEF EngineInv, Resolved, Converted, Arch
<1> QED BY <1>1, <1>2, <1>3

LEMMA ConvertStep == MigrationInv /\ Convert => MigrationInv'
<1> SUFFICES ASSUME MigrationInv, Convert PROVE MigrationInv'
  OBVIOUS
<1> USE DEF MigrationInv, Convert, choices, tools, appliance
<1>1. result' \in {vm.firmware, "uefi", "secureboot"}
  OBVIOUS
<1>2. TypeOK'
  BY <1>1, OptionTypes DEF TypeOK, Firmwares
<1>3. ManifestInv' /\ CheckInv'
  BY DEF ManifestInv, CheckInv, Examined, Converted
<1>4. EngineInv'
  BY <1>1 DEF EngineInv, Resolved, Converted, Arch
<1> QED BY <1>2, <1>3, <1>4

LEMMA CopyStep == ASSUME NEW f \in NVRAMFiles, MigrationInv, CopyNVRAM(f)
                  PROVE  MigrationInv'
<1> USE DEF MigrationInv, CopyNVRAM, choices, tools, appliance, converted
<1>1. TypeOK'
  BY DEF TypeOK
<1>2. ManifestInv' /\ CheckInv' /\ EngineInv'
  BY DEF ManifestInv, CheckInv, EngineInv, Arch, Firmware
<1> QED BY <1>1, <1>2

LEMMA ContractStep == MigrationInv /\ CheckContract => MigrationInv'
<1> SUFFICES ASSUME MigrationInv, CheckContract PROVE MigrationInv'
  OBVIOUS
<1> USE DEF MigrationInv, CheckContract, choices, tools, appliance, converted, nvram
<1>1. TypeOK'
  BY DEF TypeOK
<1>2. ManifestInv' /\ CheckInv' /\ EngineInv'
  BY DEF ManifestInv, CheckInv, EngineInv, Examined, Resolved, Converted, Arch, Firmware
<1> QED BY <1>1, <1>2

LEMMA RenderStep == MigrationInv /\ RenderTemplate => MigrationInv'
<1> SUFFICES ASSUME MigrationInv, RenderTemplate PROVE MigrationInv'
  OBVIOUS
<1> USE DEF MigrationInv, RenderTemplate, choices, tools, appliance, converted, nvram
<1>1. engine \in Engines
  BY OptionTypes, ResolvedEngine DEF EngineInv, Resolved
<1>2. RuntimeBuses \subseteq Buses
  <2> SUFFICES ASSUME NEW b \in RuntimeBuses PROVE b \in Buses
    OBVIOUS
  <2>1. PICK t \in Policies \X SourceBuses \X {"", "virtio", "scsi", "ide"} :
          b = ChooseRuntimeBus(t[2], t[1], ChooseConversionOutputBus(t[2], t[1], t[3]),
                               engine)
    BY DEF RuntimeBuses
  <2>2. t[1] \in Policies
    OBVIOUS
  <2> QED BY <2>1, <2>2, RuntimeBusOffered, Zenon
<1>3. PICK o \in TemplateOptions : /\ rendered' = {o}
                                  /\ o.engine = engine
                                  /\ o.arch = Arch /\ o.firmware = Firmware
  <2>1. PICK nic \in PortableNICs, bus \in Buses, os \in GuestOSes :
          rendered' = {[engine |-> engine, arch |-> Arch, firmware |-> Firmware,
                        nic |-> nic, diskBus |-> bus, guestOS |-> os]}
    <3>1. PICK nic \in SourceNICs, option \in PortableNICs \union {"auto"},
               bus \in RuntimeBuses, os \in GuestOSes :
            rendered' = {[engine |-> engine, arch |-> Arch, firmware |-> Firmware,
                          nic |-> NormalizeNIC(Override(option, nic)),
                          diskBus |-> bus, guestOS |-> os]}
      BY Zenon
    <3>2. NormalizeNIC(Override(option, nic)) \in PortableNICs
      BY NICPortable, Zenon
    <3> QED BY <1>2, <3>1, <3>2
  <2>2. Arch \in Arches /\ Firmware \in Firmwares
    BY OptionTypes
  <2> DEFINE o == [engine |-> engine, arch |-> Arch, firmware |-> Firmware,
                   nic |-> nic, diskBus |-> bus, guestOS |-> os]
  <2>3. o \in TemplateOptions
    BY <1>1, <2>1, <2>2 DEF TemplateOptions
  <2> WITNESS o \in TemplateOptions
  <2> QED BY <2>1
<1>4. TypeOK'
  BY <1>3 DEF TypeOK
<1>5. ManifestInv' /\ CheckInv'
  BY DEF ManifestInv, CheckInv, Examined, Converted
<1>6. EngineInv'
  BY <1>3 DEF EngineInv, Resolved, Converted, Arch, Firmware
<1> QED BY <1>4, <1>5, <1>6

LEMMA GiveUpStep == MigrationInv /\ GiveUp => MigrationInv'
BY DEF MigrationInv, GiveUp, choices, tools, appliance, converted, nvram, TypeOK,
       ManifestInv, CheckInv, EngineInv, Examined, Resolved, Converted, Arch, Firmware

LEMMA MigrationStep == MigrationInv /\ [Next]_vars => MigrationInv'
<1>1. MigrationInv /\ UNCHANGED vars => MigrationInv'
  BY DEF MigrationInv, vars, choices, tools, appliance, converted, nvram, TypeOK,
         ManifestInv, CheckInv, EngineInv, Arch, Firmware
<1> QED
  BY <1>1, SelectStep, ManifestStep, ParseStep, ResolveStep, ConvertStep, CopyStep,
     ContractStep, RenderStep, GiveUpStep DEF Next

LEMMA MigrationInvariant == Spec => []MigrationInv
BY InitMigration, MigrationStep, PTL DEF Spec
-----------------------------------------------------------------------------
(* The theorems *)

(* Every value of the model stays in its type.                             *)
THEOREM MigrationTypeCorrect == Spec => []TypeOK
BY MigrationInvariant, PTL DEF MigrationInv

(* ContractKept: a bundle satisfies the contract of its engine, although   *)
(* ResolveTargetEngine ran before the conversion changed the firmware.     *)
THEOREM BundleKeepsContract == Spec => []ContractKept
<1>1. MigrationInv => ContractKept
  BY DEF MigrationInv, EngineInv, ContractKept
<1> QED BY <1>1, MigrationInvariant, PTL

(* TemplateUsable: canvas.yml offers every value it proposes.              *)
THEOREM TemplateAlwaysUsable == Spec => []TemplateUsable
<1>1. MigrationInv => TemplateUsable
  BY AcceptedIsUsable DEF MigrationInv, EngineInv, TypeOK, TemplateUsable
<1> QED BY <1>1, MigrationInvariant, PTL

(* LateRefusalForArmOnly: the second look at the contract refuses what the *)
(* first accepted only for an ARM guest that virt-v2v finds to have Secure *)
(* Boot, for any options.                                                  *)
THEOREM LateRefusalIsForArm == Spec => []LateRefusalForArmOnly
<1>1. MigrationInv => LateRefusalForArmOnly
  <2> SUFFICES ASSUME MigrationInv, pc = "nvram",
                      ~ValidateTargetContract(engine, Arch, Firmware)
               PROVE  /\ backend = "virt-v2v"
                      /\ cfg.firmware = "auto"
                      /\ Arch = "aarch64" /\ vm.firmware = "uefi"
                      /\ result = "secureboot"
    BY DEF LateRefusalForArmOnly
  <2> DEFINE before == Override(cfg.firmware, vm.firmware)
  <2>1. /\ Arch \in Arches /\ before \in Firmwares /\ Firmware \in Firmwares
        /\ cfg.engine \in Engines \union {"auto"}
    BY OptionTypes DEF MigrationInv
  <2>2. engine = ResolveTargetEngine(cfg.engine, Arch, before) /\ engine # Refused
    BY DEF MigrationInv, EngineInv, Resolved
  <2>3. engine = "stratum"
    BY DEF ValidateTargetContract
  <2>4. ValidateTargetContract("stratum", Arch, before)
    <3> HIDE DEF before
    <3> QED BY <2>1, <2>2, <2>3, ContractsAgree, Zenon DEF ResolveTargetEngine, Refused
  <2>5. before # Firmware
    BY <2>3, <2>4
  <2>6. cfg.firmware = "auto" /\ before = vm.firmware /\ Firmware = result
    BY <2>5 DEF Override, Firmware
  <2>7. result \in {"uefi", "secureboot"} /\ backend = "virt-v2v"
    BY <2>5, <2>6 DEF MigrationInv, EngineInv, Converted
  <2>8. Arch = "aarch64" /\ before = "uefi" /\ Firmware = "secureboot"
    <3> HIDE DEF before
    <3> QED BY <2>1, <2>3, <2>4, <2>6, <2>7 DEF ValidateTargetContract
  <2> QED BY <2>6, <2>7, <2>8
<1> QED BY <1>1, MigrationInvariant, PTL

(* BadApplianceNeverBundled: whoever the manifest is left to checks it.    *)
THEOREM ManifestHonoured == Spec => []BadApplianceNeverBundled
<1>1. MigrationInv => BadApplianceNeverBundled
  BY DEF MigrationInv, ManifestInv, BadApplianceNeverBundled, Examined, Converted, TypeOK
<1> QED BY <1>1, MigrationInvariant, PTL

(* CheckedWhenPossible: qemu-img check is run wherever there is a qemu-img.*)
THEOREM DisksChecked == Spec => []CheckedWhenPossible
<1>1. MigrationInv => CheckedWhenPossible
  BY DEF MigrationInv, CheckInv, CheckedWhenPossible, Examined, Converted
<1> QED BY <1>1, MigrationInvariant, PTL

(* The .nvram files: those that are no longer to be copied are stored under*)
(* their names, if the names are different.                                *)
NamesDiffer == \A f, g \in vm.nvram : BaseName(f) = BaseName(g) => f = g

NVRAMInv ==
  /\ pc \in Converted => toCopy \subseteq vm.nvram
  /\ pc \in {"template", "done"} => toCopy = {}
  /\ pc \in Converted /\ cfg.keepNVRAM /\ NamesDiffer =>
       \A f \in vm.nvram \ toCopy : stored[BaseName(f)] = f

(* Copying one file keeps what is stored of the others, because it goes to *)
(* another name.                                                           *)
LEMMA CopyKeepsNVRAM ==
  ASSUME NEW f \in NVRAMFiles, TypeOK, NVRAMInv, CopyNVRAM(f)
  PROVE  NVRAMInv'
<1>1. /\ pc = "nvram" /\ pc' = pc /\ f \in toCopy /\ toCopy' = toCopy \ {f}
      /\ stored' = [stored EXCEPT ![BaseName(f)] = f]
      /\ vm' = vm /\ cfg' = cfg
  BY DEF CopyNVRAM, choices, appliance
<1>2. toCopy \subseteq vm.nvram /\ vm.nvram \subseteq NVRAMFiles
  BY <1>1, OptionTypes DEF NVRAMInv, Converted
<1>3. ASSUME NamesDiffer, cfg.keepNVRAM, NEW g \in vm.nvram \ toCopy'
      PROVE  stored'[BaseName(g)] = g
  <2>1. stored \in [BaseNames -> NVRAMFiles \union {NoFile}]
    BY DEF TypeOK
  <2>2. BaseName(f) \in BaseNames /\ BaseName(g) \in BaseNames
    BY <1>2, <1>3 DEF BaseNames
  <2>3. CASE g = f
    BY <1>1, <2>1, <2>2, <2>3
  <2>4. CASE g # f
    <3>1. BaseName(g) # BaseName(f)
      BY <1>1, <1>2, <1>3, <2>4 DEF NamesDiffer
    <3>2. g \in vm.nvram \ toCopy
      BY <1>1, <1>3, <2>4
    <3>3. stored[BaseName(g)] = g
      BY <1>1, <1>3, <3>2 DEF NVRAMInv, Converted
    <3> QED BY <1>1, <2>1, <2>2, <3>1, <3>3
  <2> QED BY <2>3, <2>4
<1> QED
  BY <1>1, <1>2, <1>3 DEF NVRAMInv, NamesDiffer

LEMMA StepKeepsNVRAM == TypeOK /\ NVRAMInv /\ [Next]_vars => NVRAMInv'
<1> SUFFICES ASSUME TypeOK, NVRAMInv, [Next]_vars PROVE NVRAMInv'
  OBVIOUS
<1>1. CASE SelectBackend \/ CheckManifest \/ ParseOVF \/ ResolveEngine \/ GiveUp
  BY <1>1 DEF SelectBackend, CheckManifest, ParseOVF, ResolveEngine, GiveUp,
              NVRAMInv, Converted
<1>2. CASE Convert
  BY <1>2, OptionTypes DEF Convert, choices, appliance, NVRAMInv, Converted, NamesDiffer
<1>3. ASSUME NEW f \in NVRAMFiles, CopyNVRAM(f) PROVE NVRAMInv'
  BY <1>3, CopyKeepsNVRAM
<1>4. CASE CheckContract \/ RenderTemplate
  BY <1>4 DEF CheckContract, RenderTemplate, choices, appliance, nvram,
              NVRAMInv, Converted, NamesDiffer
<1>5. CASE UNCHANGED vars
  BY <1>5 DEF vars, choices, appliance, nvram, NVRAMInv, NamesDiffer
<1> QED BY <1>1, <1>2, <1>3, <1>4, <1>5 DEF Next

(* NVRAMKeptByName: no .nvram file is lost on the way to the bundle unless *)
(* another one has the same base name.                                     *)
THEOREM DistinctNVRAMKept == Spec => []NVRAMKeptByName
<1>1. Init => NVRAMInv
  BY DEF Init, NVRAMInv, Converted
<1>2. NVRAMInv => NVRAMKeptByName
  BY DEF NVRAMInv, NVRAMKeptByName, NamesDiffer, Converted
<1>3. MigrationInv => TypeOK
  BY DEF MigrationInv
<1> QED
  BY <1>1, <1>2, <1>3, StepKeepsNVRAM, MigrationInvariant, PTL DEF Spec
=============================================================================
