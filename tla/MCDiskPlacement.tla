-------------------------- MODULE MCDiskPlacement --------------------------
(***************************************************************************)
(* The instance of DiskPlacement that TLC explores.  With three disks a    *)
(* name can be taken by a disk that comes later while another is still to  *)
(* be moved.                                                               *)
(***************************************************************************)
EXTENDS DiskPlacement

(* One controller of a known kind, one of VirtIO and one that says nothing.*)
MCControllers == {[word |-> "scsi",   type |-> "6"],
                  [word |-> "virtio", type |-> "20"],
                  [word |-> "none",   type |-> "other"]}

MCXMLBuses == {"virtio", "scsi", "usb"}
=============================================================================
