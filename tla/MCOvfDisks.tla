----------------------------- MODULE MCOvfDisks -----------------------------
(***************************************************************************)
(* The instance of OvfDisks that TLC explores: what the elements of a      *)
(* document can say, and the names of its disks under NaturalLess.         *)
(***************************************************************************)
EXTENDS OvfDisks

(* In the order of their texts: - 01 1 10 2 b                              *)
Digits(text, value) == [digits |-> TRUE, text |-> text, value |-> value]
Other(text)         == [digits |-> FALSE, text |-> text, value |-> NotANumber]

MCRuns == {Other(0), Digits(1, 1), Digits(2, 1), Digits(3, 10), Digits(5, 2), Other(6)}

(* Between 10 and 2: the digits 10000000000000000000, which no int holds.  *)
MCLongRuns == {Digits(3, 10), Digits(4, NotANumber), Digits(5, 2)}

(* The ids b, b1 and b01, of which the last two are equal to NaturalLess.  *)
MCNames == [b   |-> <<Other(6)>>,
            b1  |-> <<Other(6), Digits(2, 1)>>,
            b01 |-> <<Other(6), Digits(1, 1)>>]

MCDiskIDs == DOMAIN MCNames

(* Parents that are no number share the number 10000.                      *)
MCInstances == {"3", "4", "s0", NoInstance}
MCNumber    == [i \in MCInstances |-> CASE i = "3" -> 3 [] i = "4" -> 4
                                        [] OTHER -> 10000]

ControllerItem(instance, bus) ==
  [type |-> "other", instance |-> instance, bus |-> bus, parent |-> NoInstance,
   address |-> NoAddress, disk |-> NoDisk]

DiskItem(parent, address, disk) ==
  [type |-> "disk", instance |-> NoInstance, bus |-> "unknown", parent |-> parent,
   address |-> address, disk |-> disk]

(* For the order: controllers declared late, twice or never, every disk    *)
(* with any parent and address.                                            *)
OrderItems ==
  {ControllerItem("3", "scsi"), ControllerItem("3", "sata"), ControllerItem("3", "unknown")}
  \union {DiskItem("3", address, disk) : address \in {NoAddress, 0, 1}, disk \in MCDiskIDs}
  \union {DiskItem(parent, 0, "b") : parent \in {"4", "s0", NoInstance}}

(* For what can be wrong: files that are there, are not, lead out or are   *)
(* not defined; disks defined twice or not at all; items without a disk.   *)
BrokenItems == {DiskItem("3", 0, "b"), DiskItem("3", NoAddress, "b1"), DiskItem("3", 2, NoDisk),
                ControllerItem("3", "scsi")}

MCFiles == [file : {"f", "g"}, href : Hrefs]
MCDisks == [disk : {"b", "b1"}, file : {"f", "g"}] \union {[disk |-> "b01", file |-> "f"]}
MCItems == OrderItems \union BrokenItems

(* The bound on the documents: every order of items where the file is      *)
(* there, and any file and disk where there are few items.                 *)
Plain ==
  /\ files["f"] \in {"present", Undefined} /\ files["g"] = Undefined
  /\ \A d \in DiskIDs : disks[d] # "g"

Few ==
  /\ Len(items) <= 2 /\ Range(items) \subseteq BrokenItems
  /\ disks["b01"] = Undefined

MCBound == Plain \/ Few
=============================================================================
