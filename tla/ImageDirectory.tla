--------------------------- MODULE ImageDirectory ---------------------------
(***************************************************************************)
(* What a backend promises of the directory that goes into the bundle: it  *)
(* fills with one whole disk after the other, in their order, each under   *)
(* its own name, and the backend succeeds when all are there.  Commands,   *)
(* temporary files and copies between devices are not visible here, except *)
(* that they may make it fail.                                             *)
(***************************************************************************)
EXTENDS Naturals

CONSTANTS MaxDisks,  \* bound on the disks of a machine
          Missing    \* what is under a name that is not used

Disks == 1..MaxDisks

VARIABLES wanted,  \* the disks to be converted are 1 to wanted
          image,   \* disk -> the disk whose data is under its name, or Missing
          outcome  \* of the backend

Init ==
  /\ wanted \in 0..MaxDisks
  /\ image = [d \in Disks |-> Missing]
  /\ outcome = "running"

File(d) ==
  /\ outcome = "running"
  /\ d <= wanted
  /\ \A e \in Disks : image[e] = IF e < d THEN e ELSE Missing
  /\ image' = [image EXCEPT ![d] = d]
  /\ UNCHANGED <<wanted, outcome>>

Succeed ==
  /\ outcome = "running"
  /\ wanted > 0
  /\ \A d \in Disks : image[d] = IF d <= wanted THEN d ELSE Missing
  /\ outcome' = "done"
  /\ UNCHANGED <<wanted, image>>

Fail ==
  /\ outcome = "running"
  /\ outcome' = "failed"
  /\ UNCHANGED <<wanted, image>>

Next == (\E d \in Disks : File(d)) \/ Succeed \/ Fail

Spec == Init /\ [][Next]_<<wanted, image, outcome>>
=============================================================================
