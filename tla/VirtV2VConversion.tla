------------------------- MODULE VirtV2VConversion -------------------------
(***************************************************************************)
(* The virt-v2v backend, step by step: RunVirtV2VBackend looks at the      *)
(* program it is to run, runs it, reads the domain XML it has written and  *)
(* moves the disks of the domain into the image directory, by copies where *)
(* that is on another device.                                              *)
(*                                                                         *)
(* virt-v2v is external: it writes any domain whose disks are any of the   *)
(* files, which may be there, damaged or not.  A file converted from the   *)
(* d-th attached disk of the OVF is the file d; any other is an Extra.     *)
(***************************************************************************)
EXTENDS Integers, Sequences, FiniteSets

CONSTANTS NumAttached, \* the attached disks of the OVF are 1 to NumAttached
          Extra,       \* a file that is of none of them, such as an ISO image
          NoFile,      \* a device without a file
          Domains,     \* the disk elements of the XML, as virt-v2v may write it
          MaxDisks,    \* bound on them
          Missing      \* what is under a name that is not used

Disks == 1..MaxDisks
Files == (1..NumAttached) \union {Extra}

(* item.Device and item.Source; an absent device attribute means a disk.   *)
Element == [device : {"", "disk", "cdrom"}, file : Files \union {NoFile}]

(* The XML files virt-v2v can leave: that of the name it was given, others.*)
XMLNames == {"expected", "other", "another"}

Copied == [file : Files, whole : BOOLEAN, sound : BOOLEAN]

ASSUME VirtV2VConversionAssumption ==
  /\ NumAttached \in Nat /\ MaxDisks \in Nat
  /\ Extra \notin Nat /\ NoFile \notin Files
  /\ Domains \subseteq UNION {[1..n -> Element] : n \in 0..MaxDisks}
  /\ Missing \notin Copied

VARIABLES qemuImg,  \* whether a qemu-img was found
          domain,   \* the disk elements of the XML
          files,    \* file -> what is there
          pc,       \* the step that is next
          next,     \* the element, then the disk, that is next
          disks,    \* the files of the disks of the domain, once read
          partial,  \* the file DISK.partial in the image directory
          image,    \* k -> the file under the name of the k-th disk there
          result    \* k -> the file and the OVF disk the report gives for it

external == <<qemuImg, domain>>
vars     == <<external, files, pc, next, disks, partial, image, result>>

Init ==
  /\ qemuImg \in BOOLEAN
  /\ domain \in Domains
  /\ files \in [Files -> {"good", "damaged", "link", "absent"}]
  /\ pc = "look"
  /\ next = 1
  /\ disks = <<>>
  /\ partial = Missing
  /\ image = [k \in Disks |-> Missing]
  /\ result = <<>>

Goto(step) == pc' = step /\ UNCHANGED <<external, files, next, disks, partial, image, result>>
Fail       == Goto("failed")
-----------------------------------------------------------------------------
(* Before the disks *)

(* No argument may be one that the program manages itself, and if virt-v2v *)
(* tells of its capabilities there have to be these two.                   *)
Fit(managed, caps) ==
  /\ ~managed
  /\ caps = {} \/ {"input:ova", "output:local"} \subseteq caps

Look ==
  /\ pc = "look"
  /\ \/ \E managed \in BOOLEAN, caps \in SUBSET {"input:ova", "output:local", "more"} :
          IF Fit(managed, caps) THEN Goto("run") ELSE Fail
     \/ Fail

Run == pc = "run" /\ (Goto("xml") \/ Fail)

(* The XML of the expected name, or else the only one.                     *)
ChooseXML ==
  /\ pc = "xml"
  /\ \/ \E xmls \in SUBSET XMLNames :
          IF "expected" \in xmls \/ Cardinality(xmls) = 1 THEN Goto("read") ELSE Fail
     \/ Fail

IsDisk(element) == element.device \in {"", "disk"} /\ element.file # NoFile

(* Mutant: what is passed over is looked at again.                         *)
ReadElementAgain ==
  /\ pc = "read" /\ next <= Len(domain)
  /\ \/ ~IsDisk(domain[next]) /\ UNCHANGED vars
     \/ /\ IsDisk(domain[next])
        /\ files[domain[next].file] # "absent"
        /\ next' = next + 1
        /\ disks' = Append(disks, domain[next].file)
        /\ UNCHANGED <<external, files, pc, partial, image, result>>
     \/ IsDisk(domain[next]) /\ Fail

(* Anything but a disk with a file is passed over; a disk has to be there. *)
ReadElement ==
  /\ pc = "read" /\ next <= Len(domain)
  /\ \/ /\ ~IsDisk(domain[next])
        /\ next' = next + 1
        /\ UNCHANGED <<external, files, pc, disks, partial, image, result>>
     \/ /\ IsDisk(domain[next])
        /\ files[domain[next].file] # "absent"
        /\ next' = next + 1
        /\ disks' = Append(disks, domain[next].file)
        /\ UNCHANGED <<external, files, pc, partial, image, result>>
     \/ IsDisk(domain[next]) /\ Fail

EndOfElements ==
  /\ pc = "read" /\ next > Len(domain)
  /\ \/ /\ disks # <<>>
        /\ pc' = "move" /\ next' = 1
        /\ UNCHANGED <<external, files, disks, partial, image, result>>
     \/ disks = <<>> /\ Fail
-----------------------------------------------------------------------------
(* MoveFile and the check, for one disk after the other *)

Data(file) == [file |-> file, whole |-> TRUE, sound |-> files[file] = "good"]

(* A link is refused, and so is what has been moved already.  Across       *)
(* devices there is no rename.                                             *)
Move ==
  /\ pc = "move" /\ next <= Len(disks)
  /\ \/ /\ files[disks[next]] \in {"good", "damaged"}
        /\ image' = [image EXCEPT ![next] = Data(disks[next])]
        /\ files' = [files EXCEPT ![disks[next]] = "absent"]
        /\ pc' = "chmod"
        /\ UNCHANGED <<external, next, disks, partial, result>>
     \/ files[disks[next]] \in {"good", "damaged"} /\ Goto("copy")
     \/ Fail

Chmod == pc = "chmod" /\ (Goto("check") \/ Fail)

(* Mutant: the copy is made under the name of the disk itself.             *)
CopyInPlace ==
  /\ pc = "copy"
  /\ \E whole \in BOOLEAN :
       /\ image' = [image EXCEPT ![next] = [Data(disks[next]) EXCEPT !.whole = whole]]
       /\ pc' = IF whole THEN "remove" ELSE "failed"
  /\ UNCHANGED <<external, files, next, disks, partial, result>>

(* An error after the partial file is opened: os.Remove is called on what  *)
(* is written so far, and may fail, which is ignored.                      *)
AbortCopy(written) ==
  /\ pc' = "failed" /\ partial' \in {Missing, written}
  /\ UNCHANGED <<external, files, next, disks, image, result>>

(* CopyFile: into a partial file, and a rename.  An error before the file  *)
(* is open leaves none; in the copy or the close, a part or all.           *)
Copy ==
  /\ pc = "copy"
  /\ \/ /\ partial' = Data(disks[next])
        /\ pc' = "rename"
        /\ UNCHANGED <<external, files, next, disks, image, result>>
     \/ Fail
     \/ \E whole \in BOOLEAN : AbortCopy([Data(disks[next]) EXCEPT !.whole = whole])

RenameCopy ==
  /\ pc = "rename"
  /\ \/ /\ image' = [image EXCEPT ![next] = partial] /\ partial' = Missing
        /\ pc' = "remove"
        /\ UNCHANGED <<external, files, next, disks, result>>
     \/ AbortCopy(partial)

(* Mutant: the source of a copy stays.                                     *)
RemoveSourceNot == pc = "remove" /\ Goto("check")

RemoveSource ==
  /\ pc = "remove"
  /\ \/ /\ files' = [files EXCEPT ![disks[next]] = "absent"]
        /\ pc' = "check"
        /\ UNCHANGED <<external, next, disks, partial, image, result>>
     \/ Fail

(* Mutant: the position is that among the elements of the domain.          *)
ReportedByElement ==
  LET position == CHOOSE n \in DOMAIN domain : domain[n].file = disks[next]
  IN  [file |-> disks[next], ovf |-> IF position <= NumAttached THEN position ELSE 0]

(* The k-th disk of virt-v2v is taken for the k-th of the OVF.             *)
Reported == [file |-> disks[next], ovf |-> IF next <= NumAttached THEN next ELSE 0]

(* qemu-img check, where there is one, and the entry in the result.        *)
Check ==
  /\ pc = "check"
  /\ \/ /\ qemuImg => image[next].sound
        /\ next' = next + 1
        /\ result' = Append(result, Reported)
        /\ pc' = "move"
        /\ UNCHANGED <<external, files, disks, partial, image>>
     \/ Fail

Return == pc = "move" /\ next > Len(disks) /\ Goto("done")

Step == \/ Look \/ Run \/ ChooseXML \/ ReadElement \/ EndOfElements \/ Move
        \/ Chmod \/ Copy \/ RenameCopy \/ RemoveSource \/ Check \/ Return

Ended == pc \in {"done", "failed"} /\ UNCHANGED vars

Next == Step \/ Ended

Spec == Init /\ [][Next]_vars

(* The commands return, whatever they do.                                  *)
FairSpec == Spec /\ WF_vars(Step)
-----------------------------------------------------------------------------
TypeOK ==
  /\ qemuImg \in BOOLEAN
  /\ domain \in Domains
  /\ files \in [Files -> {"good", "damaged", "link", "absent"}]
  /\ pc \in {"look", "run", "xml", "read", "move", "chmod", "copy", "rename",
             "remove", "check", "done", "failed"}
  /\ next \in 1..(MaxDisks + 1)
  /\ disks \in Seq(Files)
  /\ partial \in Copied \union {Missing}
  /\ image \in [Disks -> Copied \union {Missing}]
  /\ result \in Seq([file : Files, ovf : 0..NumAttached])

(* README: "Converted qcow2 disks are checked when qemu-img is available"; *)
(* the check comes after the move, and stops the backend all the same.     *)
(* And a backend that succeeds has filed every disk of the domain once.    *)
OnlySoundDisks ==
  pc = "done" =>
    \A k \in DOMAIN disks : /\ image[k] # Missing
                            /\ image[k].file = disks[k] /\ image[k].whole
                            /\ qemuImg => image[k].sound

(* The disks among the first n elements; so the k-th disk of the domain is *)
(* the one that is the last of k.                                          *)
DisksTo(n) == {j \in 1..n : IsDisk(domain[j])}

DisksOfDomain == DisksTo(Len(domain))

(* README: "Preserves the converted disk order from that XML."  Where the  *)
(* domain has the disks of the OVF in their order, every disk is reported  *)
(* as the one it is (whose controller decides its bus), whatever CD-ROMs   *)
(* and empty devices there are between them.                               *)
SourceReported ==
  pc = "done" /\ (\A n \in DisksOfDomain : domain[n].file = Cardinality(DisksTo(n))) =>
    \A k \in DOMAIN result : result[k].file = k /\ result[k].ovf = k

(* A backend that succeeds leaves no partial file in the directory that is *)
(* bundled, and no second copy of a disk that takes up the space of the    *)
(* first (README, large migrations).  While there is a partial file its    *)
(* disk is where virt-v2v left it and not yet under its own name; the file *)
(* stays only when its removal failed, after the backend has.              *)
NothingLeft ==
  /\ partial # Missing =>
       /\ pc \in {"rename", "failed"}
       /\ files[disks[next]] # "absent" /\ image[next] = Missing
  /\ pc = "done" => \A k \in DOMAIN disks : files[disks[k]] = "absent"

(* The image directory as the rest of Run may think of it; 0 is no disk.   *)
Directory == INSTANCE ImageDirectory WITH
  wanted  <- Cardinality(DisksOfDomain),
  image   <- [k \in Disks |->
                IF image[k] = Missing THEN Missing
                ELSE IF /\ image[k].whole
                        /\ \E n \in DisksOfDomain : /\ Cardinality(DisksTo(n)) = k
                                                    /\ domain[n].file = image[k].file
                THEN k ELSE 0],
  outcome <- IF pc \in {"done", "failed"} THEN pc ELSE "running"

ImplementsDirectory == Directory!Spec

(* The backend ends, with all of its disks or with an error.               *)
BackendEnds == <>(pc \in {"done", "failed"})

(* All that is left when the backend has succeeded are sound disks.        *)
SoundDisksOnly == OnlySoundDisks /\ NothingLeft
=============================================================================
