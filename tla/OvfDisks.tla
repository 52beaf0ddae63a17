------------------------------ MODULE OvfDisks ------------------------------
(***************************************************************************)
(* Which disks a virtual machine has, and in which order.  ParseOVF reads  *)
(* the files and disks of the whole envelope and the hardware items of the *)
(* selected virtual system; it derives a reference from every disk item,   *)
(* sorts the references and attaches the disk of each, once.  The order is *)
(* the order of the names of the converted disks, so of the boot disk.     *)
(*                                                                         *)
(* A document is whatever the elements that come off the XML make it: the  *)
(* three reading actions accept any element, up to the bounds.  (Those the *)
(* code passes over, such as a File without an id, have no effect.)        *)
(***************************************************************************)
EXTENDS Integers, Sequences, Functions, NaturalOrder

CONSTANTS DiskIDs,      \* the disk ids a document can use
          Name,         \* disk id -> the runs it is made of
          Instances,    \* the instance ids of items, NoInstance among them
          Number,       \* instance id -> parseInt(id, 10000)
          FileElements, \* [file, href]: what a File element can say
          DiskElements, \* [disk, file]: what a Disk element can say
          Items,        \* what an Item of the virtual system can say
          MaxFiles,     \* bound on the File elements,
          MaxDisks,     \* on the Disk elements,
          MaxItems      \* and on the items of a document

NoInstance == "none"  \* an item without Parent, or without InstanceID
NoDisk     == "none"  \* HostResource names no disk
NoAddress  == -1      \* neither AddressOnParent nor Address

Buses == {"nvme", "sata", "ide", "scsi", "unknown"}

(* Where a href leads: SecureResolve follows none out of the directory.    *)
Hrefs == {"present", "missing", "outside"}

FileIDs == {e.file : e \in FileElements} \union {e.file : e \in DiskElements}

HardwareItem ==
  [type     : {"disk", "other"},        \* ResourceType 17, or another
   instance : Instances,
   bus      : Buses,                    \* its controllerBus
   parent   : Instances,
   address  : Nat \union {NoAddress},
   disk     : DiskIDs \union {NoDisk}]  \* extractDiskID of its HostResource

ASSUME OvfDisksAssumption ==
  /\ NoDisk \notin DiskIDs
  /\ Name \in [DiskIDs -> Seq(Runs)]
  /\ \A d \in DiskIDs : FitsInt(Name[d])
  /\ Number \in [Instances -> Nat]
  /\ NoInstance \in Instances
  /\ \A e \in FileElements : e.href \in Hrefs
  /\ \A e \in DiskElements : e.disk \in DiskIDs
  /\ Items \subseteq HardwareItem
  /\ {MaxFiles, MaxDisks, MaxItems} \subseteq Nat

VARIABLES requireDiskFiles, \* the argument of ParseOVF: the backend is qemu-img
          hardware,         \* the system has a VirtualHardwareSection
          pc,               \* the loop ParseOVF is in
          budget,           \* how many more elements that loop can meet
          files,            \* file id -> where it leads, or "undefined"
          disks,            \* disk id -> its file, or "undefined"
          diskOrder,        \* the disk ids, as defined
          items,            \* the items of the virtual system
          controllers,      \* instance id -> its bus
          next,             \* the item, then the reference, that is next
          refs,             \* the references to disks
          attached          \* the disks attached so far

inputs   == <<requireDiskFiles, hardware>>
document == <<inputs, files, disks, diskOrder, items, controllers>>
vars     == <<document, pc, budget, next, refs, attached>>

Undefined == "undefined"

Init ==
  /\ requireDiskFiles \in BOOLEAN
  /\ hardware \in BOOLEAN
  /\ pc = "files"
  /\ budget = MaxFiles
  /\ files = [f \in FileIDs |-> Undefined]
  /\ disks = [d \in DiskIDs |-> Undefined]
  /\ diskOrder = <<>>
  /\ items = <<>>
  /\ controllers = [i \in Instances |-> "unknown"]
  /\ next = 1
  /\ refs = <<>>
  /\ attached = <<>>
-----------------------------------------------------------------------------
(* A later element with the same id replaces the earlier one.              *)
ReadFile(e) ==
  /\ pc = "files" /\ budget > 0
  /\ budget' = budget - 1
  /\ files' = [files EXCEPT ![e.file] = e.href]
  /\ UNCHANGED <<inputs, pc, disks, diskOrder, items, controllers,
                 next, refs, attached>>

ReadDisk(e) ==
  /\ pc = "disks" /\ budget > 0
  /\ budget' = budget - 1
  /\ disks' = [disks EXCEPT ![e.disk] = e.file]
  /\ diskOrder' = Append(diskOrder, e.disk)
  /\ UNCHANGED <<inputs, pc, files, items, controllers, next, refs,
                 attached>>

(* Mutant: the first item with an instance id keeps it.                    *)
ControllerFirst(item) ==
  IF controllers[item.instance] = "unknown"
  THEN [controllers EXCEPT ![item.instance] = item.bus]
  ELSE controllers

(* Any item of a known bus is remembered under its instance id, the last   *)
(* one with that id.                                                       *)
Controller(item) ==
  IF item.instance # NoInstance /\ item.bus # "unknown"
  THEN [controllers EXCEPT ![item.instance] = item.bus]
  ELSE controllers

(* The items are looked at twice, so that a disk may precede its controller*)
(* in the document: here, and by CollectRef.                               *)
ReadItem(item) ==
  /\ pc = "items" /\ budget > 0
  /\ budget' = budget - 1
  /\ items' = Append(items, item)
  /\ controllers' = Controller(item)
  /\ UNCHANGED <<inputs, pc, files, disks, diskOrder, next, refs,
                 attached>>

(* The end of the elements of one kind.                                    *)
EndOfElements ==
  /\ \/ pc = "files" /\ pc' = "disks" /\ budget' = MaxDisks
     \/ /\ pc = "disks"
        /\ pc' = IF hardware THEN "items" ELSE "failed"
        /\ budget' = MaxItems
     \/ pc = "items" /\ pc' = "refs"  /\ budget' = 0
  /\ UNCHANGED <<document, next, refs, attached>>

IsReference(item) == item.type = "disk" /\ item.disk # NoDisk

(* An item without an address takes its position, counted from 0.          *)
ReferenceOf(i) ==
  [parent     |-> Number[items[i].parent],
   address    |-> IF items[i].address = NoAddress THEN i - 1 ELSE items[i].address,
   disk       |-> items[i].disk,
   sourceBus  |-> controllers[items[i].parent],
   controller |-> items[i].parent]

CollectRef ==
  /\ pc = "refs" /\ next <= Len(items)
  /\ next' = next + 1
  /\ refs' = IF IsReference(items[next]) THEN Append(refs, ReferenceOf(next))
                                         ELSE refs
  /\ UNCHANGED <<document, pc, budget, attached>>

(* A virtual system that refers to no disk gets those of the envelope.     *)
EndOfRefs ==
  /\ pc = "refs" /\ next > Len(items)
  /\ pc' = "sort"
  /\ refs' = IF refs # <<>> THEN refs
             ELSE [k \in DOMAIN diskOrder |->
                     [parent |-> 0, address |-> k - 1, disk |-> diskOrder[k],
                      sourceBus |-> "unknown", controller |-> NoInstance]]
  /\ UNCHANGED <<document, budget, next, attached>>

Less(a, b) ==
  \/ a.parent < b.parent
  \/ a.parent = b.parent /\ a.address < b.address
  \/ /\ a.parent = b.parent
     /\ a.address = b.address
     /\ NaturalLess(Name[a.disk], Name[b.disk])

(* Mutant: by controller and name, whatever the addresses.                 *)
SortRefsByName ==
  /\ pc = "sort"
  /\ pc' = "attach"
  /\ next' = 1
  /\ \E place \in Bijection(DOMAIN refs, DOMAIN refs) :
       /\ refs' = [k \in DOMAIN refs |-> refs[place[k]]]
       /\ \A j, k \in DOMAIN refs : j < k =>
            /\ refs'[j].parent <= refs'[k].parent
            /\ refs'[j].parent = refs'[k].parent =>
                 ~NaturalLess(Name[refs'[k].disk], Name[refs'[j].disk])
  /\ UNCHANGED <<document, budget, attached>>

(* sort.Slice, which is not stable: references neither of which is less    *)
(* come out in either order.                                               *)
SortRefs ==
  /\ pc = "sort"
  /\ pc' = "attach"
  /\ next' = 1
  /\ \E place \in Bijection(DOMAIN refs, DOMAIN refs) :
       /\ refs' = [k \in DOMAIN refs |-> refs[place[k]]]
       /\ \A j, k \in DOMAIN refs : j < k => ~Less(refs'[k], refs'[j])
  /\ UNCHANGED <<document, budget, attached>>

Seen(disk) == \E k \in DOMAIN attached : attached[k].disk = disk

(* Mutant: whether the file is there is left to the backend.               *)
UsableIfInside(disk) ==
  /\ disks[disk] # Undefined
  /\ files[disks[disk]] \in {"present", "missing"}

(* The disk and its file are defined, the href stays inside the directory  *)
(* and, for qemu-img, the file is there.                                   *)
Usable(disk) ==
  /\ disks[disk] # Undefined
  /\ \/ files[disks[disk]] = "present"
     \/ files[disks[disk]] = "missing" /\ ~requireDiskFiles

(* Mutant: a reference that leads nowhere is passed over.                  *)
AttachRefIfUsable ==
  /\ pc = "attach" /\ next <= Len(refs)
  /\ next' = next + 1
  /\ attached' = IF Seen(refs[next].disk) \/ ~Usable(refs[next].disk)
                 THEN attached ELSE Append(attached, refs[next])
  /\ UNCHANGED <<document, pc, budget, refs>>

AttachRef ==
  /\ pc = "attach" /\ next <= Len(refs)
  /\ \/ /\ Seen(refs[next].disk)
        /\ next' = next + 1
        /\ UNCHANGED <<pc, attached>>
     \/ /\ ~Seen(refs[next].disk) /\ Usable(refs[next].disk)
        /\ next' = next + 1
        /\ attached' = Append(attached, refs[next])
        /\ UNCHANGED pc
     \/ /\ ~Seen(refs[next].disk) /\ ~Usable(refs[next].disk)
        /\ pc' = "failed"
        /\ UNCHANGED <<next, attached>>
  /\ UNCHANGED <<document, budget, refs>>

EndOfDisks ==
  /\ pc = "attach" /\ next > Len(refs)
  /\ pc' = IF attached = <<>> THEN "failed" ELSE "done"
  /\ UNCHANGED <<document, budget, next, refs, attached>>

Ended == pc \in {"done", "failed"} /\ UNCHANGED vars

Next ==
  \/ \E e \in FileElements : ReadFile(e)
  \/ \E e \in DiskElements : ReadDisk(e)
  \/ \E item \in Items : ReadItem(item)
  \/ EndOfElements \/ CollectRef \/ EndOfRefs \/ SortRefs
  \/ AttachRef \/ EndOfDisks \/ Ended

Spec == Init /\ [][Next]_vars
-----------------------------------------------------------------------------
Reference == [parent : Nat, address : Nat, disk : DiskIDs,
              sourceBus : Buses, controller : Instances]

TypeOK ==
  /\ requireDiskFiles \in BOOLEAN
  /\ hardware \in BOOLEAN
  /\ pc \in {"files", "disks", "items", "refs", "sort", "attach", "done", "failed"}
  /\ budget \in Nat
  /\ files \in [FileIDs -> Hrefs \union {Undefined}]
  /\ disks \in [DiskIDs -> FileIDs \union {Undefined}]
  /\ diskOrder \in Seq(DiskIDs)
  /\ items \in Seq(Items)
  /\ controllers \in [Instances -> Buses]
  /\ next \in Nat \ {0}
  /\ refs \in Seq(Reference)
  /\ attached \in Seq(Reference)

named == {i \in DOMAIN items : IsReference(items[i])}

DefinedDisks == {diskOrder[k] : k \in DOMAIN diskOrder}

(* The disks a machine of this document is to have.                        *)
WantedDisks == IF named = {} THEN DefinedDisks ELSE {items[i].disk : i \in named}

AttachedDisks == {attached[k].disk : k \in DOMAIN attached}

(* A disk that several items refer to is converted once: the bundle does   *)
(* not hold it twice under two names.                                      *)
AttachedOnce ==
  \A j, k \in DOMAIN attached : attached[j].disk = attached[k].disk => j = k

(* No disk is dropped on the way.  A machine that is not refused has every *)
(* disk its items refer to and no other one; only where they refer to none *)
(* at all does it have the disks of the envelope, other machines' as well. *)
AllNamedAttached ==
  pc = "done" => AttachedDisks = WantedDisks

(* The order of the disks is that of controllers, then of addresses, then  *)
(* of names, each disk being where the first of its items puts it, whatever*)
(* the sort does with equals.  The items' own order decides only where an  *)
(* item says no address, which its position then is; two disks that are    *)
(* equal in all three may come out either way.                             *)
InControllerOrder ==
  pc = "done" /\ named # {} =>
    \A j, k \in DOMAIN attached : j < k =>
      \A i \in named : items[i].disk = attached[k].disk =>
        /\ ~Less(ReferenceOf(i), attached[j])
        /\ ~Less(ReferenceOf(i), attached[k])

(* The bus that --disk-bus preserve goes by is the one the document gives  *)
(* the disk's controller last, wherever the controller is listed.          *)
BusOfItsController ==
  pc = "done" =>
    \A k \in DOMAIN attached :
      LET declaring == {i \in DOMAIN items : /\ items[i].instance = attached[k].controller
                                             /\ items[i].bus # "unknown"}
      IN  IF attached[k].controller = NoInstance \/ declaring = {}
          THEN attached[k].sourceBus = "unknown"
          ELSE \E i \in declaring : /\ attached[k].sourceBus = items[i].bus
                                    /\ \A h \in declaring : h <= i

(* What the backend is given to read is inside the appliance, and with     *)
(* qemu-img it is there.                                                   *)
OnlyUsableAttached ==
  \A k \in DOMAIN attached :
    LET d == attached[k].disk
    IN  /\ d \in DefinedDisks
        /\ files[disks[d]] # "outside"
        /\ requireDiskFiles => files[disks[d]] = "present"

(* ParseOVF refuses a document only for a disk the machine has that cannot *)
(* be used, or for having no disk or no hardware at all.                   *)
RefusedWithReason ==
  pc = "failed" =>
    ~hardware \/ WantedDisks = {} \/ \E d \in WantedDisks : ~Usable(d)

(* The machine has the disks it is to have: every one, once, and no other. *)
ExactlyTheDisks == AttachedOnce /\ AllNamedAttached

(* What cannot be used is neither given to the backend nor passed over in  *)
(* silence, and nothing else is refused.                                   *)
UsableOrRefused == OnlyUsableAttached /\ RefusedWithReason

(* When the references are sorted, NaturalLess is a strict weak order on   *)
(* the names whose numbers an int can hold: otherwise the order of the     *)
(* disks would depend on the order in which they were found.               *)
StrictWeakOrder == pc = "sort" => NamesOrdered
=============================================================================
