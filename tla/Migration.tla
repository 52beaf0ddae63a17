----------------------------- MODULE Migration -----------------------------
(***************************************************************************)
(* One invocation of Run, from its options to the payload of the bundle:   *)
(* the order in which it learns about the host, the appliance and the      *)
(* converted guest, and what it decides on the way with what it knows.     *)
(* The engine is chosen from the OVF before the conversion; the firmware   *)
(* that goes into the bundle is known only after it.                       *)
(*                                                                         *)
(* What happens to OUTPUT is in Publication, where the disks go is in      *)
(* DiskPlacement.  An option that is looked at in one place only is chosen *)
(* there; the others are in cfg.  An error of the host or of a tool ends    *)
(* the run at any step (GiveUp); a refusal of the program itself is an     *)
(* absent next step, after which GiveUp is all that is left.               *)
(***************************************************************************)
EXTENDS CanvasTemplate

CONSTANTS Configs,     \* the combinations of options to be considered
          NVRAMFiles,  \* the .nvram files an appliance can have
          BaseName(_), \* the last element of the path of such a file
          NoFile       \* what is stored under a name that is not used

BaseNames == {BaseName(f) : f \in NVRAMFiles}

ConfigFields ==
  [source       : {"ova", "directory"},
   backend      : {"auto", "qemu-img", "virt-v2v"},
   engine       : Engines \union {"auto"},
   firmware     : Firmwares \union {"auto"},
   arch         : Arches \union {"auto"},
   skipManifest : BOOLEAN,
   keepNVRAM    : BOOLEAN]

ASSUME MigrationAssumption ==
  /\ Configs \subseteq ConfigFields
  /\ NoFile \notin NVRAMFiles

VARIABLES cfg,       \* the options
          host,      \* which tools the host has
          pc,        \* the next step of Run, or how it ended
          backend,   \* the backend selected
          qemuImg,   \* whether the backend was given a qemu-img
          intact,    \* whether the files of the appliance match its manifest
          verified,  \* who compares them
          vm,        \* what ParseOVF found
          engine,    \* the target engine
          result,    \* the firmware of the converted guest
          checked,   \* whether qemu-img check has passed on every disk
          toCopy,    \* the .nvram files still to be copied
          stored,    \* name under vmware-nvram/ -> the file it is a copy of
          rendered   \* what the template was rendered with, as a set: {} before

choices   == <<cfg, host>>
tools     == <<backend, qemuImg>>
appliance == <<intact, verified, vm>>
converted == <<result, checked>>
nvram     == <<toCopy, stored>>
vars      == <<choices, pc, tools, appliance, engine, converted, nvram, rendered>>

Unknown == "unknown"

Hosts == [virtV2V : BOOLEAN, qemuImg : BOOLEAN, qemuImgNamed : BOOLEAN]

(* What ParseOVF can find in an appliance.                                 *)
Machines == [arch : {"x86_64", "i386", "aarch64"}, firmware : Firmwares,
             nvram : SUBSET NVRAMFiles]
SourceBuses == {"nvme", "sata", "ide", "scsi", "unknown"}
SourceNICs  == {"vmxnet3", "e1000e", "e1000", "rtl8139", "virtio"}

TypeOK ==
  /\ cfg \in Configs
  /\ host \in Hosts
  /\ pc \in {"select", "manifest", "parse", "resolve", "convert", "nvram",
             "template", "done", "failed"}
  /\ backend \in {Unknown, "qemu-img", "virt-v2v"}
  /\ qemuImg \in BOOLEAN
  /\ intact \in BOOLEAN
  /\ verified \in {Unknown, "nobody", "here", "virt-v2v"}
  /\ vm \in Machines
  /\ engine \in Engines \union {Unknown}
  /\ result \in Firmwares
  /\ checked \in BOOLEAN
  /\ toCopy \subseteq NVRAMFiles
  /\ stored \in [BaseNames -> NVRAMFiles \union {NoFile}]
  /\ rendered \subseteq TemplateOptions

(* An option that is not "auto" is used instead of what was found.         *)
Override(option, found) == IF option = "auto" THEN found ELSE option

Arch == Override(cfg.arch, vm.arch)

(* Mutant: what the conversion found out takes precedence.                 *)
FirmwareAsConverted == IF result = "bios" THEN Override(cfg.firmware, result)
                                          ELSE result

(* The firmware of the bundle, known after the conversion.                 *)
Firmware == Override(cfg.firmware, result)

Init ==
  /\ cfg \in Configs
  /\ host \in Hosts
  /\ pc = "select"
  /\ backend = Unknown /\ qemuImg = FALSE
  /\ intact = TRUE /\ verified = Unknown
  /\ vm = [arch |-> "x86_64", firmware |-> "bios", nvram |-> {}]
  /\ engine = Unknown
  /\ result = "bios" /\ checked = FALSE
  /\ toCopy = {} /\ stored = [n \in BaseNames |-> NoFile]
  /\ rendered = {}
-----------------------------------------------------------------------------
(* Before the conversion *)

BackendWanted ==
  IF cfg.backend # "auto" THEN cfg.backend
  ELSE IF host.virtV2V THEN "virt-v2v" ELSE "qemu-img"

(* Mutant: virt-v2v found for "auto" is used without a look for qemu-img.  *)
SelectBackendOnly ==
  /\ pc = "select"
  /\ backend' = BackendWanted
  /\ backend' = "virt-v2v" => host.virtV2V
  /\ ~host.qemuImg => backend' = "virt-v2v" /\ ~host.qemuImgNamed
  /\ qemuImg' = (host.qemuImg /\ (cfg.backend = "auto" => ~host.virtV2V))
  /\ pc' = "manifest"
  /\ UNCHANGED <<choices, appliance, engine, converted, nvram, rendered>>

(* qemu-img is optional beside virt-v2v, unless the user has named one.    *)
SelectBackend ==
  /\ pc = "select"
  /\ backend' = BackendWanted
  /\ backend' = "virt-v2v" => host.virtV2V
  /\ ~host.qemuImg => backend' = "virt-v2v" /\ ~host.qemuImgNamed
  /\ qemuImg' = host.qemuImg
  /\ pc' = "manifest"
  /\ UNCHANGED <<choices, appliance, engine, converted, nvram, rendered>>

(* Mutant: the check of an OVA is left to virt-v2v, whatever the backend.  *)
CheckManifestDelegated ==
  /\ pc = "manifest"
  /\ intact' \in BOOLEAN
  /\ verified' = CASE cfg.skipManifest   -> "nobody"
                   [] ~cfg.skipManifest /\ cfg.source = "ova" -> "virt-v2v"
                   [] OTHER              -> "here"
  /\ verified' = "here" => intact'
  /\ pc' = "parse"
  /\ UNCHANGED <<choices, tools, vm, engine, converted, nvram, rendered>>

(* virt-v2v reads the OVA itself, and only its metadata was extracted.     *)
CheckManifest ==
  /\ pc = "manifest"
  /\ intact' \in BOOLEAN
  /\ verified' = CASE cfg.skipManifest -> "nobody"
                   [] ~cfg.skipManifest /\ cfg.source = "ova"
                                        /\ backend = "virt-v2v" -> "virt-v2v"
                   [] OTHER -> "here"
  /\ verified' = "here" => intact'
  /\ pc' = "parse"
  /\ UNCHANGED <<choices, tools, vm, engine, converted, nvram, rendered>>

ParseOVF ==
  /\ pc = "parse"
  /\ vm' \in Machines
  /\ pc' = "resolve"
  /\ UNCHANGED <<choices, tools, intact, verified, engine, converted, nvram, rendered>>

ResolveEngine ==
  /\ pc = "resolve"
  /\ engine' = ResolveTargetEngine(cfg.engine, Arch, Override(cfg.firmware, vm.firmware))
  /\ engine' # Refused
  /\ pc' = "convert"
  /\ UNCHANGED <<choices, tools, appliance, converted, nvram, rendered>>
-----------------------------------------------------------------------------
(* The conversion and after *)

(* The one backend has checked every disk when it succeeds, the other      *)
(* where it has the tool for it.  virt-v2v does not convert an OVA that    *)
(* contradicts its manifest, and the domain it writes may have a firmware  *)
(* loader whatever the OVF said.                                           *)
Convert ==
  /\ pc = "convert"
  /\ \/ backend = "qemu-img" /\ result' = vm.firmware /\ checked' = TRUE
     \/ /\ backend = "virt-v2v"
        /\ verified = "virt-v2v" => intact
        /\ result' \in {vm.firmware, "uefi", "secureboot"}
        /\ checked' = qemuImg
  /\ toCopy' = IF cfg.keepNVRAM THEN vm.nvram ELSE {}
  /\ pc' = "nvram"
  /\ UNCHANGED <<choices, tools, appliance, engine, stored, rendered>>

(* Mutant: the loop ends after the first file.                             *)
CopyNVRAMFirst(f) ==
  /\ pc = "nvram"
  /\ f \in toCopy
  /\ stored' = [stored EXCEPT ![BaseName(f)] = f]
  /\ toCopy' = {}
  /\ UNCHANGED <<choices, pc, tools, appliance, engine, converted, rendered>>

(* Files the OVF references come in the order of a Go map.                 *)
CopyNVRAM(f) ==
  /\ pc = "nvram"
  /\ f \in toCopy
  /\ stored' = [stored EXCEPT ![BaseName(f)] = f]
  /\ toCopy' = toCopy \ {f}
  /\ UNCHANGED <<choices, pc, tools, appliance, engine, converted, rendered>>

(* Mutant: the contract is not looked at again after the conversion.       *)
CheckContractNot ==
  /\ pc = "nvram" /\ toCopy = {}
  /\ pc' = "template"
  /\ UNCHANGED <<choices, tools, appliance, engine, converted, nvram, rendered>>

CheckContract ==
  /\ pc = "nvram" /\ toCopy = {}
  /\ ValidateTargetContract(engine, Arch, Firmware)
  /\ pc' = "template"
  /\ UNCHANGED <<choices, tools, appliance, engine, converted, nvram, rendered>>

(* Disks[0].OutputBus, after NormalizeRuntimeDisks.                        *)
RuntimeBuses ==
  LET Bus(policy, source, xml) ==
        ChooseRuntimeBus(source, policy,
                         ChooseConversionOutputBus(source, policy, xml), engine)
  IN  {Bus(t[1], t[2], t[3]) :
         t \in Policies \X SourceBuses \X {"", "virtio", "scsi", "ide"}}

RenderTemplate ==
  /\ pc = "template"
  /\ \E nic \in SourceNICs, option \in PortableNICs \union {"auto"},
        bus \in RuntimeBuses, os \in GuestOSes :
       rendered' = {[engine |-> engine, arch |-> Arch, firmware |-> Firmware,
                     nic |-> NormalizeNIC(Override(option, nic)),
                     diskBus |-> bus, guestOS |-> os]}
  /\ pc' = "done"
  /\ UNCHANGED <<choices, tools, appliance, engine, converted, nvram>>

GiveUp ==
  /\ pc \notin {"done", "failed"}
  /\ pc' = "failed"
  /\ UNCHANGED <<choices, tools, appliance, engine, converted, nvram, rendered>>

Next == \/ SelectBackend \/ CheckManifest \/ ParseOVF \/ ResolveEngine
        \/ Convert \/ (\E f \in NVRAMFiles : CopyNVRAM(f)) \/ CheckContract
        \/ RenderTemplate \/ GiveUp

Spec == Init /\ [][Next]_vars
-----------------------------------------------------------------------------
(* Properties *)

(* What is bundled satisfies the contract of the engine it is for, though  *)
(* the engine was chosen before virt-v2v had its say on the firmware.      *)
ContractKept ==
  \A o \in rendered : ValidateTargetContract(o.engine, o.arch, o.firmware)

(* Every value the template proposes is one its own list offers: the three *)
(* tables (engine, contract, lists) agree on every path to a bundle.       *)
TemplateUsable == \A o \in rendered : Usable(o)

(* The engine was accepted with what the OVF and the options said.  After  *)
(* a conversion of hours the contract refuses it in one case only: an ARM  *)
(* guest, UEFI to the OVF, whose domain virt-v2v writes with Secure Boot,  *)
(* and no --firmware to settle it.  The first look (run.go:107) and the    *)
(* second (run.go:209) agree on everything else, options included.         *)
LateRefusalForArmOnly ==
  pc = "nvram" /\ ~ValidateTargetContract(engine, Arch, Firmware) =>
    /\ backend = "virt-v2v"
    /\ cfg.firmware = "auto"
    /\ Arch = "aarch64" /\ vm.firmware = "uefi" /\ result = "secureboot"

(* README: "--qemu-version auto ... safely falls back to CANVAS" when the  *)
(* VM is not compatible with STRATUM: with the default the contract would  *)
(* refuse nothing.  It does, in the one case of LateRefusalForArmOnly.     *)
AutoFallsBack ==
  pc = "nvram" /\ cfg.engine = "auto" =>
    ValidateTargetContract(engine, Arch, Firmware)

(* No backend's disks are bundled for an appliance that contradicts its    *)
(* manifest, unless the user asked for no comparison: whoever the check is *)
(* left to is someone who makes it.                                        *)
BadApplianceNeverBundled ==
  pc = "done" /\ ~intact => cfg.skipManifest

(* README: "Converted qcow2 disks are checked when qemu-img is available." *)
(* True for both backends and for either way to come to one.               *)
CheckedWhenPossible == pc = "done" /\ host.qemuImg => checked

(* Every .nvram file is kept on request when no two of the appliance share *)
(* the last element of their path.  When two do, one of them is lost, and  *)
(* which one depends on the order of a Go map (NVRAMKept does not hold).   *)
NVRAMKeptByName ==
  /\ pc = "done" /\ cfg.keepNVRAM
  /\ \A f, g \in vm.nvram : BaseName(f) = BaseName(g) => f = g
  => \A f \in vm.nvram : stored[BaseName(f)] = f

(* README: "The source file is stored under migration-source/vmware-nvram" *)
(* - without the condition on the names.                                   *)
NVRAMKept ==
  pc = "done" /\ cfg.keepNVRAM => \A f \in vm.nvram : stored[BaseName(f)] = f

(* README: "--qemu-version auto ... prefers STRATUM whenever the imported  *)
(* VM is compatible", the VM being what the bundle says it is.             *)
AutoPrefersStratum ==
  \A o \in rendered :
    cfg.engine = "auto" =>
      (StratumTargetSupported(o.arch, o.firmware) => o.engine = "stratum")
=============================================================================
