--------------------------- MODULE DiskPlacement ---------------------------
(***************************************************************************)
(* Where the converted disks are.  A backend files every disk in the image *)
(* directory under a name of the bus it was converted for, one disk after  *)
(* the other (RunQEMUImgBackend, RunVirtV2VBackend).  Only then is the     *)
(* engine's own bus decided on, and NormalizeRuntimeDisks renames all of   *)
(* them in the same directory, where a new name may still be the name of a *)
(* disk that comes later.                                                  *)
(*                                                                         *)
(* A rename replaces what its new name led to: `at' says for every disk    *)
(* under which name its data can be found, or that it is lost.             *)
(***************************************************************************)
EXTENDS Naturals, DiskNames, TargetPolicy

CONSTANTS NumDisks,     \* the number of disks of the virtual machine
          Controllers,  \* the controllers an OVF can attach a disk to
          XMLBuses      \* the buses the XML of virt-v2v can name for a disk

Disks == 1..NumDisks

ASSUME DiskPlacementAssumption == NumDisks \in Nat \ {0}

VARIABLES request,    \* the backend, the --disk-bus policy and the engine
          controller, \* disk -> its controller in the OVF
          backendBus, \* disk -> its bus in the XML of virt-v2v, or NoBus
          pc,         \* the loop Run is in
          disk,       \* the disk that loop has come to
          busCounts,  \* bus -> the disks named for it so far
          result,     \* disk -> OutputBus, and the index that names its file
          plans,      \* disk -> the bus and index it is to be renamed to
          at          \* disk -> the name its data is under

inputs == <<request, controller, backendBus>>
vars   == <<inputs, pc, disk, busCounts, result, plans, at>>

(* The bus of a controller: the word in its subtype, name or description   *)
(* that the code looks for first, then its ResourceType.  A disk without a *)
(* controller, or beyond those of the OVF, is like one of no known kind.   *)
controllerBus(item) ==
  IF item.word \in {"nvme", "sata"} THEN item.word
  ELSE IF item.word = "ide"  \/ item.type = "5" THEN "ide"
  ELSE IF item.word = "scsi" \/ item.type = "6" THEN "scsi"
  ELSE IF item.type = "20" THEN "sata"
  ELSE "unknown"

sourceBus(d) == controllerBus(controller[d])

Prefix == [scsi |-> "sd", virtio |-> "virtio"]

(* DiskFilename: different buses never share a name.                       *)
DiskFilename(bus, index) == <<Prefix[bus], alphaSuffix(index)>>

Temp(d)   == <<"tmp", d>>     \* .runtime-normalize-d.tmp
Source(d) == <<"source", d>>  \* outside the image directory
Lost      == <<"lost", 0>>    \* replaced by another file

Filename(slot) == DiskFilename(slot.bus, slot.index)

Slots    == [bus : Buses, index : 0..(NumDisks - 1)]
Unnamed  == [bus |-> NoBus, index |-> 0]
Names    == {Filename(slot) : slot \in Slots}
Temps    == {Temp(d) : d \in Disks}
Sources  == {Source(d) : d \in Disks}

TypeOK ==
  /\ request \in [backend : {"qemu-img", "virt-v2v"}, policy : Policies,
                  engine : Engines]
  /\ controller \in [Disks -> Controllers]
  /\ backendBus \in [Disks -> XMLBuses \union {NoBus}]
  /\ pc \in {"convert", "plan", "park", "settle", "done", "failed"}
  /\ disk \in Disks
  /\ busCounts \in [Buses -> 0..NumDisks]
  /\ result \in [Disks -> Slots \union {Unnamed}]
  /\ plans \in [Disks -> Slots \union {Unnamed}]
  /\ at \in [Disks -> Names \union Temps \union Sources \union {Lost}]

Init ==
  /\ request \in [backend : {"qemu-img", "virt-v2v"}, policy : Policies,
                  engine : Engines]
  /\ controller \in [Disks -> Controllers]
  /\ backendBus \in [Disks -> IF request.backend = "virt-v2v" THEN XMLBuses
                                                              ELSE {NoBus}]
  /\ pc = "convert"
  /\ disk = 1
  /\ busCounts = [bus \in Buses |-> 0]
  /\ result = [d \in Disks |-> Unnamed]
  /\ plans = [d \in Disks |-> Unnamed]
  /\ at = [d \in Disks |-> Source(d)]

(* os.Rename, for data that is there: old becomes new, and what new led to *)
(* is gone.                                                                *)
Rename(old, new) ==
  /\ \E d \in Disks : at[d] = old
  /\ at' = [d \in Disks |-> CASE at[d] = old                 -> new
                              [] at[d] = new /\ old # new    -> Lost
                              [] at[d] \notin {old, new}     -> at[d]]

Counted(bus) == [busCounts EXCEPT ![bus] = @ + 1]

(* To the next disk, or to the loop that follows.                          *)
Advance(following) ==
  IF disk < NumDisks
  THEN disk' = disk + 1 /\ UNCHANGED pc
  ELSE disk' = 1 /\ pc' = following
-----------------------------------------------------------------------------
(* One turn of the loop of RunQEMUImgBackend or RunVirtV2VBackend: the     *)
(* renamed file is the converted .partial or the disk virt-v2v wrote.      *)
ConvertDisk ==
  LET bus == ChooseConversionOutputBus(sourceBus(disk), request.policy,
                                       backendBus[disk])
  IN  /\ pc = "convert"
      /\ bus \in Buses
      /\ Rename(Source(disk), DiskFilename(bus, busCounts[bus]))
      /\ result' = [result EXCEPT ![disk] = [bus |-> bus, index |-> busCounts[bus]]]
      /\ Advance("plan")
      /\ busCounts' = IF pc' = "plan" THEN [b \in Buses |-> 0] ELSE Counted(bus)
      /\ UNCHANGED <<inputs, plans>>

(* Mutant: the position in the list takes the place of the count.          *)
PlanDiskByPosition ==
  LET bus == ChooseRuntimeBus(sourceBus(disk), request.policy,
                              result[disk].bus, request.engine)
  IN  /\ pc = "plan"
      /\ bus \in Buses
      /\ plans' = [plans EXCEPT ![disk] = [bus |-> bus, index |-> disk - 1]]
      /\ busCounts' = Counted(bus)
      /\ Advance("park")
      /\ UNCHANGED <<inputs, result, at>>

(* NormalizeRuntimeDisks decides on every new name before it touches one.  *)
PlanDisk ==
  LET bus == ChooseRuntimeBus(sourceBus(disk), request.policy,
                              result[disk].bus, request.engine)
  IN  /\ pc = "plan"
      /\ bus \in Buses
      /\ plans' = [plans EXCEPT ![disk] = [bus |-> bus, index |-> busCounts[bus]]]
      /\ busCounts' = Counted(bus)
      /\ Advance("park")
      /\ UNCHANGED <<inputs, result, at>>

(* Mutant: one pass of renames, each straight to the new name.             *)
ParkDiskInPlace ==
  /\ pc = "park"
  /\ Rename(Filename(result[disk]), Filename(plans[disk]))
  /\ Advance("settle")
  /\ UNCHANGED <<inputs, busCounts, result, plans>>

(* First it moves every disk out of the way, to a temporary name.  (Its    *)
(* os.Remove of that name finds nothing: the directory is this run's.)     *)
ParkDisk ==
  /\ pc = "park"
  /\ Rename(Filename(result[disk]), Temp(disk))
  /\ Advance("settle")
  /\ UNCHANGED <<inputs, busCounts, result, plans>>

(* Mutant: the file is renamed, and its entry in result is not.            *)
SettleDiskUnreported ==
  /\ pc = "settle"
  /\ Rename(Temp(disk), Filename(plans[disk]))
  /\ Advance("done")
  /\ UNCHANGED <<inputs, busCounts, result, plans>>

(* Then it gives every disk its new name.                                  *)
SettleDisk ==
  /\ pc = "settle"
  /\ Rename(Temp(disk), Filename(plans[disk]))
  /\ result' = [result EXCEPT ![disk] = plans[disk]]
  /\ Advance("done")
  /\ UNCHANGED <<inputs, busCounts, plans>>

(* Any command or system call of these loops can fail, which ends Run.     *)
GiveUp ==
  /\ pc \notin {"done", "failed"}
  /\ pc' = "failed"
  /\ UNCHANGED <<inputs, disk, busCounts, result, plans, at>>

Ended == pc \in {"done", "failed"} /\ UNCHANGED vars

Next == ConvertDisk \/ PlanDisk \/ ParkDisk \/ SettleDisk \/ GiveUp \/ Ended

Spec == Init /\ [][Next]_vars
-----------------------------------------------------------------------------
(* No disk is ever replaced by another, whatever the buses in the OVF and  *)
(* in the XML are and wherever the loops are cut short.                    *)
NothingLost == \A d \in Disks : at[d] # Lost

(* What the bundle packs, the report lists and the template relies on:     *)
(* every disk is under the name that result has for it.                    *)
WhereReported == pc = "done" => \A d \in Disks : at[d] = Filename(result[d])

(* Names on a bus follow the order of the disks and skip none: the first   *)
(* disk of a bus is its first name, whichever renames came between.        *)
NamedInOrder ==
  pc = "done" =>
    \A d \in Disks :
      LET before == {e \in 1..(d - 1) : result[e].bus = result[d].bus}
      IN  /\ \A e \in before : result[e].index < result[d].index
          /\ \A i \in 0..(result[d].index - 1) : \E e \in before : result[e].index = i

(* The bus of every disk at the end, under every policy: an explicit bus   *)
(* wins, the default under STRATUM is SCSI whatever virt-v2v prepared the  *)
(* guest for, only CANVAS follows the conversion, and "preserve" ends with *)
(* SCSI for every controller.  This is README:207-212 except for one line: *)
(* "preserve" should keep portable VirtIO, which controllerBus never finds *)
(* (VirtIOPreserved below does not hold).  README:136 promises Legacy BIOS *)
(* on CANVAS a SCSI-compatible path: the code has no rule for that.        *)
RuntimeContract ==
  pc = "done" =>
    \A d \in Disks :
      result[d].bus = "virtio" <=>
        \/ request.policy = "virtio"
        \/ /\ request.policy = "auto"
           /\ request.engine # "stratum"
           /\ backendBus[d] \in {"virtio", "virtio-blk"}

(* README: the policy "preserve" preserves portable VirtIO.  It does not   *)
(* hold: no controller of an OVF is VirtIO to controllerBus.               *)
VirtIOPreserved ==
  pc = "done" /\ request.policy = "preserve" =>
    \A d \in Disks : controller[d].word = "virtio" => result[d].bus = "virtio"

(* The names are planned with suffixes that count in letters, for more     *)
(* disks than a bus can have: none is skipped, and none is that of another *)
(* disk, also at z and zz, where alphaSuffix carries.                      *)
CountsInLetters == pc = "plan" => SuffixesCount
=============================================================================
