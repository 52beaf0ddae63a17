--------------------------- MODULE QemuConversion ---------------------------
(***************************************************************************)
(* The qemu-img backend, command by command: PrepareCompressedSource and   *)
(* ConvertWithQEMUImg for one disk after the other.  An error ends the     *)
(* backend, at any command; what it leaves behind is what this module is   *)
(* about.                                                                  *)
(*                                                                         *)
(* A file is its data: of which disk, still compressed or not (within the  *)
(* format it has), and whether all of it is there.  qemu-img is external:  *)
(* `info' tells the format, and takes a gzip file for raw; `convert' may   *)
(* write a file that is not whole and not say so, which `check' then does. *)
(***************************************************************************)
EXTENDS Naturals

CONSTANTS NumDisks,  \* the attached disks are 1 to NumDisks
          Sources,   \* what the source of a disk can be
          Names,     \* the names decompressed files can have
          Missing    \* what is under a name that is not used

Disks == 1..NumDisks

(* The `allowed' of ConvertWithQEMUImg.                                    *)
Recognised == {"vmdk", "raw", "qcow2", "vdi", "vhdx", "vpc", "qed"}
Formats == Recognised \union {"other"}

(* `name' is filepath.Base without .gz, or with .decompressed: sources of  *)
(* one name in different directories share it.                             *)
Source == [compression : {"none", "gzip", "other"},  \* what the OVF says
           gzipped     : BOOLEAN,                    \* what the file is
           format      : Formats,                    \* of the disk image
           name        : Names]

File == [disk : Disks, gzipped : BOOLEAN, format : Formats, whole : BOOLEAN]

ASSUME QemuConversionAssumption ==
  /\ NumDisks \in Nat \ {0}
  /\ Sources \subseteq Source
  /\ Missing \notin File

VARIABLES source,       \* disk -> its source
          pc,           \* the command that is next
          disk,         \* the disk the loop has come to
          decompressed, \* name -> the file in workdir/decompressed
          partial,      \* the file DISK.partial in the image directory
          image         \* disk -> the file under its name there

vars == <<source, pc, disk, decompressed, partial, image>>

Init ==
  /\ source \in [Disks -> Sources]
  /\ pc = "prepare"
  /\ disk = 1
  /\ decompressed = [n \in Names |-> Missing]
  /\ partial = Missing
  /\ image = [d \in Disks |-> Missing]

Original(d) == [disk |-> d, gzipped |-> source[d].gzipped,
                format |-> source[d].format, whole |-> TRUE]

(* What qemu-img is given to read.                                         *)
Input(d) == IF source[d].compression = "gzip" THEN decompressed[source[d].name]
                                              ELSE Original(d)

(* What qemu-img info says of a file.                                      *)
Info(file) == IF file.gzipped THEN "raw" ELSE file.format

(* An error return before there is a partial file, and after: os.Remove is *)
(* called on the file written so far, and may fail, which is ignored.      *)
Fail           == pc' = "failed" /\ UNCHANGED <<source, disk, decompressed, partial, image>>
Abort(written) == /\ pc' = "failed" /\ partial' \in {Missing, written}
                  /\ UNCHANGED <<source, disk, decompressed, image>>
-----------------------------------------------------------------------------
(* PrepareCompressedSource *)

(* Nothing is said of the compression, or it is "identity", or it is one   *)
(* the program undoes; any other is an error.                              *)
Prepare ==
  /\ pc = "prepare" /\ disk <= NumDisks
  /\ \/ /\ source[disk].compression = "gzip" /\ pc' = "decompress"
        /\ UNCHANGED <<source, disk, decompressed, partial, image>>
     \/ /\ source[disk].compression = "none" /\ pc' = "info"
        /\ UNCHANGED <<source, disk, decompressed, partial, image>>
     \/ Fail

Decompressed(whole) ==
  decompressed' = [decompressed EXCEPT ![source[disk].name] =
                     [disk |-> disk, gzipped |-> FALSE, format |-> source[disk].format,
                      whole |-> whole]]

(* Mutant: a file that is there is not written again.                      *)
DecompressOnce ==
  /\ pc = "decompress"
  /\ \/ /\ source[disk].gzipped
        /\ IF decompressed[source[disk].name] = Missing THEN Decompressed(TRUE)
                                                        ELSE UNCHANGED decompressed
        /\ pc' = "info"
        /\ UNCHANGED <<source, disk, partial, image>>
     \/ Fail

(* The file is truncated and written anew.  Data that ends early, or that  *)
(* is no gzip data, is an error.                                           *)
Decompress ==
  /\ pc = "decompress"
  /\ \/ /\ source[disk].gzipped
        /\ Decompressed(TRUE)
        /\ pc' = "info"
        /\ UNCHANGED <<source, disk, partial, image>>
     \/ /\ source[disk].gzipped
        /\ Decompressed(FALSE)
        /\ pc' = "failed"
        /\ UNCHANGED <<source, disk, partial, image>>
     \/ Fail
-----------------------------------------------------------------------------
(* ConvertWithQEMUImg *)

InspectSource ==
  /\ pc = "info"
  /\ \/ /\ Info(Input(disk)) \in Recognised
        /\ pc' = "convert"
        /\ UNCHANGED <<source, disk, decompressed, partial, image>>
     \/ Fail

(* A file of the partial name would be removed first; the directory is new *)
(* and has none.  What a convert that fails has written is a part, or all. *)
Convert ==
  /\ pc = "convert"
  /\ \E whole \in BOOLEAN, format \in {"qcow2", "raw"} :
       LET written == [Input(disk) EXCEPT !.format = format,
                                          !.whole = Input(disk).whole /\ whole]
       IN  \/ /\ partial' = written
              /\ pc' = "check"
              /\ UNCHANGED <<source, disk, decompressed, image>>
           \/ Abort(written)

(* Mutant: the check is made, and its result is not looked at.             *)
CheckIgnored ==
  /\ pc = "check"
  /\ pc' = "inspect"
  /\ UNCHANGED <<source, disk, decompressed, partial, image>>

Check ==
  /\ pc = "check"
  /\ \/ /\ partial.whole
        /\ pc' = "inspect"
        /\ UNCHANGED <<source, disk, decompressed, partial, image>>
     \/ Abort(partial)

InspectOutput ==
  /\ pc = "inspect"
  /\ \/ /\ partial.format = "qcow2"
        /\ pc' = "rename"
        /\ UNCHANGED <<source, disk, decompressed, partial, image>>
     \/ Abort(partial)

(* Mutant: the loop starts again at the disk it has just filed.            *)
RenameAgain ==
  /\ pc = "rename"
  /\ image' = [image EXCEPT ![disk] = partial]
  /\ partial' = Missing
  /\ pc' = "prepare"
  /\ UNCHANGED <<source, disk, decompressed>>

(* os.Chmod and os.Rename, and on to the next disk.                        *)
Rename ==
  /\ pc = "rename"
  /\ \/ /\ image' = [image EXCEPT ![disk] = partial]
        /\ partial' = Missing
        /\ disk' = disk + 1
        /\ pc' = "prepare"
        /\ UNCHANGED <<source, decompressed>>
     \/ Abort(partial)

Return ==
  /\ pc = "prepare" /\ disk > NumDisks
  /\ pc' = "done"
  /\ UNCHANGED <<source, disk, decompressed, partial, image>>

Command == \/ Prepare \/ Decompress \/ InspectSource \/ Convert \/ Check
           \/ InspectOutput \/ Rename \/ Return

Ended == pc \in {"done", "failed"} /\ UNCHANGED vars

Next == Command \/ Ended

Spec == Init /\ [][Next]_vars

(* The commands return, whatever they do.                                  *)
FairSpec == Spec /\ WF_vars(Command)
-----------------------------------------------------------------------------
TypeOK ==
  /\ source \in [Disks -> Sources]
  /\ pc \in {"prepare", "decompress", "info", "convert", "check", "inspect",
             "rename", "done", "failed"}
  /\ disk \in 1..(NumDisks + 1)
  /\ decompressed \in [Names -> File \union {Missing}]
  /\ partial \in File \union {Missing}
  /\ image \in [Disks -> File \union {Missing}]

(* A file under the name of a disk is that disk's, and not one whose name  *)
(* before or after decompression was the same; it is a whole qcow2 image   *)
(* of a format the program accepts; and what the OVF calls compressed was  *)
(* decompressed (README), which a converted gzip file would not show.      *)
OnlyFinishedDisks ==
  \A d \in Disks : image[d] # Missing =>
    /\ image[d].disk = d
    /\ image[d].whole
    /\ image[d].format = "qcow2"
    /\ source[d].compression = "gzip" => ~image[d].gzipped
    /\ source[d].compression # "other"
    /\ source[d].gzipped \/ source[d].format \in Recognised

(* README: "Output is written to partial files and renamed only after      *)
(* success."  A partial file is that of the disk which is being converted, *)
(* never beside its finished one, and a backend that succeeds leaves none  *)
(* in the directory that is bundled.  One may be left where its removal    *)
(* failed, by a backend that has failed.                                   *)
NoPartialBundled ==
  partial # Missing =>
    /\ pc \in {"check", "inspect", "rename", "failed"}
    /\ partial.disk = disk /\ image[disk] = Missing

(* The image directory as the rest of Run may think of it; 0 is no disk.   *)
Directory == INSTANCE ImageDirectory WITH
  MaxDisks <- NumDisks,
  wanted  <- NumDisks,
  image   <- [d \in Disks |->
                IF image[d] = Missing THEN Missing
                ELSE IF image[d].whole /\ image[d].format = "qcow2" THEN image[d].disk
                ELSE 0],
  outcome <- IF pc \in {"done", "failed"} THEN pc ELSE "running"

ImplementsDirectory == Directory!Spec

(* The backend ends, with all of its disks or with an error.               *)
BackendEnds == <>(pc \in {"done", "failed"})

(* However a conversion ends, all it leaves under the names of disks are   *)
(* finished ones; and beside them, if it succeeds, nothing.                *)
FinishedDisksOnly == OnlyFinishedDisks /\ NoPartialBundled
=============================================================================
