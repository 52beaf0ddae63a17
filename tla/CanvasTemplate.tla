--------------------------- MODULE CanvasTemplate ---------------------------
(***************************************************************************)
(* canvas.yml, the template a bundle carries: the fields that are a choice *)
(* from a list, and the lists, which depend on the engine.  A template is  *)
(* usable when every value it proposes is on its list.                     *)
(***************************************************************************)
EXTENDS TargetPolicy

(* What RenderTemplateYAML is called with, as far as it decides a choice.  *)
Arches    == {"x86_64", "i386", "aarch64", "arm"}
Firmwares == {"bios", "uefi", "secureboot"}
GuestOSes == {"windows", "linux", "other"}

TemplateOptions == [engine : Engines, arch : Arches, firmware : Firmwares,
                    nic : PortableNICs, diskBus : Buses, guestOS : GuestOSes]

Machine(arch) == IF arch \in {"aarch64", "arm"} THEN "virt" ELSE "q35"

Values(o) ==
  [guest_os               |-> o.guestOS,
   qemu_acceleration      |-> IF o.engine = "stratum" THEN "kvm" ELSE "auto",
   qemu_nic               |-> o.nic,
   disk_interface         |-> o.diskBus,
   qemu_arch              |-> o.arch,
   qemu_machine           |-> Machine(o.arch),
   qemu_cpu_model         |-> IF o.engine = "stratum" THEN "host" ELSE "auto",
   firmware               |-> o.firmware,
   memory_encryption_mode |-> "off",
   qemu_version           |-> o.engine]

(* The lists that are the same for every engine.                           *)
CommonChoices ==
  [guest_os       |-> GuestOSes \union {""},
   qemu_nic       |-> {"virtio", "vmxnet3", "e1000e"},
   disk_interface |-> {"virtio", "scsi"},
   qemu_version   |-> {"stratum", "canvas", "canvas3d"}]

CanvasChoices ==
  [qemu_acceleration      |-> {"auto", "kvm", "tcg"},
   qemu_arch              |-> {"x86_64", "i386", "aarch64", "arm"},
   qemu_machine           |-> {"q35", "pc", "virt"},
   qemu_cpu_model         |-> {"auto", "host", "Penryn", "qemu64", "max"},
   firmware               |-> {"bios", "uefi", "secureboot"},
   memory_encryption_mode |-> {"off", "amd-sev", "amd-sev-es", "amd-sev-snp",
                               "intel-tdx"}]

(* Mutant: the two architectures have each other's firmware list.          *)
StratumChoicesSwapped(arch) ==
  [qemu_acceleration      |-> {"kvm"},
   qemu_arch              |-> {"x86_64", "aarch64"},
   qemu_machine           |-> {Machine(arch)},
   qemu_cpu_model         |-> {"host"},
   firmware               |-> IF arch # "x86_64" THEN {"uefi", "secureboot"}
                                                 ELSE {"uefi"},
   memory_encryption_mode |-> {"off"}]

StratumChoices(arch) ==
  [qemu_acceleration      |-> {"kvm"},
   qemu_arch              |-> {"x86_64", "aarch64"},
   qemu_machine           |-> {Machine(arch)},
   qemu_cpu_model         |-> {"host"},
   firmware               |-> IF arch = "x86_64" THEN {"uefi", "secureboot"}
                                                 ELSE {"uefi"},
   memory_encryption_mode |-> {"off"}]

Choices(o, field) ==
  IF field \in DOMAIN CommonChoices THEN CommonChoices[field]
  ELSE IF o.engine = "stratum" THEN StratumChoices(o.arch)[field]
  ELSE CanvasChoices[field]

Usable(o) == \A field \in DOMAIN Values(o) : Values(o)[field] \in Choices(o, field)
=============================================================================
