------------------------ MODULE MCVirtV2VConversion ------------------------
(***************************************************************************)
(* The domains TLC tries: two disks of the OVF and a file that is neither, *)
(* each in any place, as a disk or a CD-ROM, once or twice, or not at all. *)
(***************************************************************************)
EXTENDS VirtV2VConversion

MCElements ==
  {[device |-> "disk", file |-> f] : f \in Files}
    \union {[device |-> "", file |-> 2], [device |-> "cdrom", file |-> Extra],
            [device |-> "cdrom", file |-> NoFile], [device |-> "disk", file |-> NoFile]}

MCDomains == UNION {[1..n -> MCElements] : n \in 0..MaxDisks}
=============================================================================
