------------------------ MODULE QemuConversionProofs ------------------------
(***************************************************************************)
(* Theorems about QemuConversion, for any number of disks and any sources. *)
(* The invariant follows the data of the one disk in work from its source  *)
(* to its name: what qemu-img is given to read is that disk's, and so is   *)
(* the partial file, which is whole once it has been checked and qcow2     *)
(* once it has been inspected.                                             *)
(***************************************************************************)
EXTENDS QemuConversion, TLAPS

Working == {"decompress", "info", "convert", "check", "inspect", "rename"}

(* A file that can be filed for a disk, but for its format and integrity.  *)
OfDisk(file, d) ==
  /\ file \in File
  /\ file.disk = d
  /\ source[d].compression = "gzip" => ~file.gzipped

Accepted(d) ==
  /\ source[d].compression # "other"
  /\ source[d].gzipped \/ source[d].format \in Recognised

InputInv ==
  /\ pc \in Working => disk \in Disks /\ source[disk].compression # "other"
  /\ pc = "decompress" => source[disk].compression = "gzip"
  /\ pc \in {"info", "convert"} =>
       /\ OfDisk(Input(disk), disk)
       /\ source[disk].compression = "gzip" => source[disk].gzipped
       /\ ~Input(disk).gzipped => Input(disk).format = source[disk].format
       /\ Input(disk).gzipped => source[disk].gzipped
  /\ pc \in {"convert", "check", "inspect", "rename"} => Accepted(disk)

PartialInv ==
  /\ pc \in {"check", "inspect", "rename"} => OfDisk(partial, disk)
  /\ pc \notin {"check", "inspect", "rename", "failed"} => partial = Missing
  /\ pc = "failed" /\ partial # Missing => OfDisk(partial, disk) /\ disk \in Disks
  /\ pc \in {"inspect", "rename"} => partial.whole
  /\ pc = "rename" => partial.format = "qcow2"

(* The disks before the one in work are there, the others are not.         *)
ImageInv ==
  \A d \in Disks :
    /\ image[d] # Missing =>
         OfDisk(image[d], d) /\ image[d].whole /\ image[d].format = "qcow2" /\ Accepted(d)
    /\ image[d] = Missing <=> d >= disk
  
DoneInv == pc = "done" => disk > NumDisks

Inv == TypeOK /\ InputInv /\ PartialInv /\ ImageInv /\ DoneInv
-----------------------------------------------------------------------------
LEMMA SourceType == TypeOK => \A d \in Disks : source[d] \in Source
BY QemuConversionAssumption DEF TypeOK

LEMMA OriginalType ==
  ASSUME TypeOK, NEW d \in Disks
  PROVE  Original(d) \in File
BY SourceType DEF Original, File, Source

LEMMA InitInv == Init => Inv
<1> SUFFICES ASSUME Init PROVE Inv
  OBVIOUS
<1>1. TypeOK
  BY QemuConversionAssumption DEF Init, TypeOK, Disks
<1>2. InputInv /\ PartialInv /\ DoneInv
  BY DEF Init, InputInv, PartialInv, DoneInv, Working
<1>3. ImageInv
  BY QemuConversionAssumption DEF Init, ImageInv, Disks
<1> QED BY <1>1, <1>2, <1>3 DEF Inv

(* An error return keeps the invariant, with or without a partial file,    *)
(* and whether or not that file can be removed.                            *)
LEMMA ErrorInv ==
  ASSUME Inv,
         \/ Fail /\ pc \in {"prepare", "decompress", "info"}
         \/ \E written : Abort(written) /\ OfDisk(written, disk) /\ disk \in Disks
  PROVE  Inv'
<1>1. /\ pc' = "failed"
      /\ partial' = Missing \/ (OfDisk(partial', disk) /\ disk \in Disks)
      /\ UNCHANGED <<source, disk, decompressed, image>>
  BY DEF Fail, Abort, Inv, PartialInv
<1>2. TypeOK'
  BY <1>1 DEF Inv, TypeOK, OfDisk
<1>3. InputInv' /\ PartialInv' /\ DoneInv'
  BY <1>1 DEF InputInv, PartialInv, DoneInv, Working, OfDisk
<1>4. ImageInv'
  BY <1>1 DEF Inv, ImageInv, OfDisk, Accepted
<1> QED BY <1>2, <1>3, <1>4 DEF Inv

LEMMA PrepareInv == Inv /\ Prepare => Inv'
<1> SUFFICES ASSUME Inv, Prepare PROVE Inv'
  OBVIOUS
<1>0. disk \in Disks
  BY DEF Prepare, Inv, TypeOK, Disks
<1>1. source[disk] \in Source
  BY <1>0, SourceType DEF Inv
<1>2. CASE Fail
  BY <1>2, ErrorInv DEF Prepare
<1>3. CASE ~Fail
  <2>1. /\ UNCHANGED <<source, disk, decompressed, partial, image>>
        /\ \/ source[disk].compression = "gzip" /\ pc' = "decompress"
           \/ source[disk].compression = "none" /\ pc' = "info"
    BY <1>3 DEF Prepare
  <2>2. TypeOK'
    BY <2>1 DEF Inv, TypeOK
  <2>3. partial = Missing
    BY DEF Prepare, Inv, PartialInv
  <2>4. PartialInv' /\ DoneInv'
    BY <2>1, <2>3 DEF PartialInv, DoneInv
  <2>5. ImageInv'
    BY <2>1 DEF Inv, ImageInv, OfDisk, Accepted
  <2>6. CASE pc' = "decompress"
    BY <1>0, <2>1, <2>6, <2>2, <2>4, <2>5 DEF Inv, InputInv, Working
  <2>7. CASE pc' = "info"
    <3>1. source[disk].compression = "none"
      BY <2>1, <2>7
    <3>2. Input(disk)' = Original(disk)
      BY <2>1, <3>1 DEF Input, Original
    <3>3. Original(disk) \in File
      BY <1>0, OriginalType DEF Inv
    <3>4. InputInv'
      BY <1>0, <2>1, <2>7, <3>1, <3>2, <3>3 DEF InputInv, Working, OfDisk, Original
    <3> QED BY <2>2, <2>4, <2>5, <3>4 DEF Inv
  <2> QED BY <2>1, <2>6, <2>7
<1> QED BY <1>2, <1>3

LEMMA DecompressInv == Inv /\ Decompress => Inv'
<1> SUFFICES ASSUME Inv, Decompress PROVE Inv'
  OBVIOUS
<1> DEFINE written(whole) ==
      [disk |-> disk, gzipped |-> FALSE, format |-> source[disk].format, whole |-> whole]
<1>0. disk \in Disks /\ source[disk].compression = "gzip"
  BY DEF Decompress, Inv, InputInv, Working
<1>1. source[disk] \in Source
  BY <1>0, SourceType DEF Inv
<1>2. /\ written(TRUE).disk = disk /\ written(TRUE).gzipped = FALSE
      /\ written(TRUE).format = source[disk].format
  OBVIOUS
<1>3. ASSUME NEW whole \in BOOLEAN
      PROVE  written(whole) \in File
  <2>1. source[disk].format \in Formats
    BY <1>1 DEF Source
  <2> QED BY <1>0, <2>1 DEF File
<1> HIDE DEF written
<1>4. CASE Fail
  BY <1>4, ErrorInv DEF Decompress
<1>5. CASE ~Fail
  <2>1. PICK whole \in BOOLEAN :
          /\ decompressed' = [decompressed EXCEPT ![source[disk].name] = written(whole)]
          /\ source[disk].gzipped
          /\ pc' = IF whole THEN "info" ELSE "failed"
          /\ UNCHANGED <<source, disk, partial, image>>
    BY <1>5 DEF Decompress, Decompressed, written
  <2>2. source[disk].name \in Names
    BY <1>1 DEF Source
  <2>3. TypeOK'
    BY <2>1, <2>2, <1>3 DEF Inv, TypeOK
  <2>4. partial = Missing
    BY DEF Decompress, Inv, PartialInv
  <2>5. PartialInv' /\ DoneInv'
    BY <2>1, <2>4 DEF PartialInv, DoneInv
  <2>6. ImageInv'
    BY <2>1 DEF Inv, ImageInv, OfDisk, Accepted
  <2>7. CASE whole
    <3>1. Input(disk)' = written(TRUE)
      BY <1>0, <2>1, <2>2, <2>7 DEF Input, Inv, TypeOK
    <3>2. /\ Input(disk)' \in File /\ Input(disk)'.disk = disk
          /\ Input(disk)'.gzipped = FALSE /\ Input(disk)'.format = source[disk].format
      BY <1>2, <1>3, <3>1
    <3>3. pc' = "info" /\ disk' = disk /\ source' = source
      BY <2>1, <2>7
    <3>4. OfDisk(Input(disk), disk)'
      BY <3>2, <3>3 DEF OfDisk
    <3>5. InputInv'
      BY <1>0, <2>1, <3>2, <3>3, <3>4 DEF InputInv, Working
    <3> QED BY <2>3, <2>5, <2>6, <3>5 DEF Inv
  <2>8. CASE ~whole
    BY <2>1, <2>8, <2>3, <2>5, <2>6 DEF Inv, InputInv, Working
  <2> QED BY <2>7, <2>8
<1> QED BY <1>4, <1>5

LEMMA InspectSourceInv == Inv /\ InspectSource => Inv'
<1> SUFFICES ASSUME Inv, InspectSource PROVE Inv'
  OBVIOUS
<1>1. CASE Fail
  BY <1>1, ErrorInv DEF InspectSource
<1>2. CASE ~Fail
  <2>1. /\ pc = "info" /\ pc' = "convert"
        /\ Info(Input(disk)) \in Recognised
        /\ UNCHANGED <<source, disk, decompressed, partial, image>>
    BY <1>2 DEF InspectSource
  <2>2. TypeOK'
    BY <2>1 DEF Inv, TypeOK
  <2>3. PartialInv' /\ DoneInv'
    BY <2>1 DEF Inv, PartialInv, DoneInv
  <2>4. ImageInv'
    BY <2>1 DEF Inv, ImageInv, OfDisk, Accepted
  <2>5. Input(disk)' = Input(disk)
    BY <2>1 DEF Input, Original
  <2>6. Accepted(disk)
    BY <2>1 DEF Inv, InputInv, Accepted, Info, Working
  <2>7. InputInv'
    BY <2>1, <2>5, <2>6 DEF Inv, InputInv, Accepted, OfDisk, Working
  <2> QED BY <2>2, <2>3, <2>4, <2>7 DEF Inv
<1> QED BY <1>1, <1>2

LEMMA ConvertInv == Inv /\ Convert => Inv'
<1> SUFFICES ASSUME Inv, Convert PROVE Inv'
  OBVIOUS
<1> DEFINE converted(whole, format) ==
      [Input(disk) EXCEPT !.format = format, !.whole = Input(disk).whole /\ whole]
<1>0. disk \in Disks /\ OfDisk(Input(disk), disk)
  BY DEF Convert, Inv, InputInv, Working
<1>1. ASSUME NEW whole \in BOOLEAN, NEW format \in {"qcow2", "raw"}
      PROVE  OfDisk(converted(whole, format), disk)
  BY <1>0 DEF OfDisk, File, Formats, Recognised
<1> HIDE DEF converted
<1>2. PICK whole \in BOOLEAN, format \in {"qcow2", "raw"} :
        \/ /\ partial' = converted(whole, format)
           /\ pc = "convert" /\ pc' = "check"
           /\ UNCHANGED <<source, disk, decompressed, image>>
        \/ Abort(converted(whole, format))
  BY DEF Convert, converted
<1>3. CASE Abort(converted(whole, format))
  BY <1>0, <1>1, <1>3, ErrorInv
<1>4. CASE ~Abort(converted(whole, format))
  <2>1. /\ partial' = converted(whole, format)
        /\ pc = "convert" /\ pc' = "check"
        /\ UNCHANGED <<source, disk, decompressed, image>>
    BY <1>2, <1>4
  <2>3. OfDisk(partial, disk)'
    BY <1>1, <2>1 DEF OfDisk
  <2>4. TypeOK'
    BY <2>1, <2>3 DEF Inv, TypeOK, OfDisk
  <2>5. PartialInv' /\ DoneInv'
    BY <2>1, <2>3 DEF PartialInv, DoneInv
  <2>6. ImageInv'
    BY <2>1 DEF Inv, ImageInv, OfDisk, Accepted
  <2>7. InputInv'
    BY <2>1 DEF Inv, InputInv, Accepted, Working
  <2> QED BY <2>4, <2>5, <2>6, <2>7 DEF Inv
<1> QED BY <1>3, <1>4

LEMMA InspectionsInv == Inv /\ (Check \/ InspectOutput) => Inv'
<1> SUFFICES ASSUME Inv, Check \/ InspectOutput PROVE Inv'
  OBVIOUS
<1>0. OfDisk(partial, disk) /\ disk \in Disks
  BY DEF Check, InspectOutput, Inv, PartialInv, InputInv, Working
<1>1. CASE Abort(partial)
  BY <1>0, <1>1, ErrorInv
<1>2. CASE ~Abort(partial)
  <2>1. /\ UNCHANGED <<source, disk, decompressed, partial, image>>
        /\ \/ pc = "check" /\ pc' = "inspect" /\ partial.whole
           \/ pc = "inspect" /\ pc' = "rename" /\ partial.format = "qcow2"
    BY <1>2 DEF Check, InspectOutput
  <2>2. TypeOK'
    BY <2>1 DEF Inv, TypeOK
  <2>3. PartialInv' /\ DoneInv'
    BY <2>1 DEF Inv, PartialInv, DoneInv, OfDisk
  <2>4. ImageInv'
    BY <2>1 DEF Inv, ImageInv, OfDisk, Accepted
  <2>5. InputInv'
    BY <2>1 DEF Inv, InputInv, Accepted, Working
  <2> QED BY <2>2, <2>3, <2>4, <2>5 DEF Inv
<1> QED BY <1>1, <1>2

LEMMA RenameInv == Inv /\ Rename => Inv'
<1> SUFFICES ASSUME Inv, Rename PROVE Inv'
  OBVIOUS
<1>0. OfDisk(partial, disk) /\ disk \in Disks
  BY DEF Rename, Inv, PartialInv, InputInv, Working
<1>1. CASE Abort(partial)
  BY <1>0, <1>1, ErrorInv
<1>2. CASE ~Abort(partial)
  <2>1. /\ pc = "rename" /\ pc' = "prepare"
        /\ image' = [image EXCEPT ![disk] = partial]
        /\ partial' = Missing
        /\ disk' = disk + 1
        /\ UNCHANGED <<source, decompressed>>
    BY <1>2 DEF Rename
  <2>2. disk \in Disks /\ disk \in Nat /\ NumDisks \in Nat /\ disk <= NumDisks
    BY <2>1, QemuConversionAssumption DEF Inv, InputInv, Working, Disks
  <2>3. /\ OfDisk(partial, disk) /\ partial.whole /\ partial.format = "qcow2"
        /\ Accepted(disk) /\ partial # Missing
    BY <2>1, QemuConversionAssumption DEF Inv, PartialInv, InputInv, OfDisk
  <2>4. TypeOK'
    BY <2>1, <2>2, <2>3 DEF Inv, TypeOK, OfDisk, Disks
  <2>5. PartialInv' /\ DoneInv' /\ InputInv'
    BY <2>1 DEF PartialInv, DoneInv, InputInv, Working
  <2>6. ImageInv'
    <3> SUFFICES ASSUME NEW d \in Disks
                 PROVE  /\ image'[d] # Missing =>
                             /\ OfDisk(image[d], d)' /\ image'[d].whole
                             /\ image'[d].format = "qcow2" /\ Accepted(d)'
                        /\ image'[d] = Missing <=> d >= disk'
      BY DEF ImageInv
    <3>1. /\ image[d] # Missing =>
               OfDisk(image[d], d) /\ image[d].whole /\ image[d].format = "qcow2" /\ Accepted(d)
          /\ image[d] = Missing <=> d >= disk
      BY DEF Inv, ImageInv
    <3>2. d \in Nat
      BY DEF Disks
    <3>3. CASE d = disk
      <4>1. image'[d] = partial
        BY <2>1, <2>2, <3>3 DEF Inv, TypeOK
      <4> QED BY <4>1, <2>1, <2>2, <2>3, <3>3 DEF OfDisk, Accepted
    <3>4. CASE d # disk
      <4>1. image'[d] = image[d]
        BY <2>1, <3>4 DEF Inv, TypeOK
      <4>2. d >= disk' <=> d >= disk
        BY <2>1, <2>2, <3>2, <3>4
      <4> QED BY <4>1, <4>2, <2>1, <3>1 DEF OfDisk, Accepted
    <3> QED BY <3>3, <3>4
  <2> QED BY <2>4, <2>5, <2>6 DEF Inv
<1> QED BY <1>1, <1>2

LEMMA ReturnInv == Inv /\ Return => Inv'
<1> SUFFICES ASSUME Inv, Return PROVE Inv'
  OBVIOUS
<1>1. /\ pc = "prepare" /\ disk > NumDisks /\ pc' = "done"
      /\ UNCHANGED <<source, disk, decompressed, partial, image>>
  BY DEF Return
<1>2. TypeOK'
  BY <1>1 DEF Inv, TypeOK
<1>3. InputInv' /\ PartialInv' /\ DoneInv'
  BY <1>1 DEF Inv, InputInv, PartialInv, DoneInv, Working
<1>4. ImageInv'
  BY <1>1 DEF Inv, ImageInv, OfDisk, Accepted
<1> QED BY <1>2, <1>3, <1>4 DEF Inv

LEMMA StutterInv == Inv /\ UNCHANGED vars => Inv'
<1> SUFFICES ASSUME Inv, UNCHANGED vars PROVE Inv'
  OBVIOUS
<1>1. UNCHANGED <<source, pc, disk, decompressed, partial, image>>
  BY DEF vars
<1>2. TypeOK' /\ DoneInv'
  BY <1>1 DEF Inv, TypeOK, DoneInv
<1>3. InputInv'
  BY <1>1 DEF Inv, InputInv, OfDisk, Input, Original, Accepted
<1>4. PartialInv' /\ ImageInv'
  BY <1>1 DEF Inv, PartialInv, ImageInv, OfDisk, Accepted
<1> QED BY <1>2, <1>3, <1>4 DEF Inv

LEMMA NextInv == Inv /\ [Next]_vars => Inv'
BY PrepareInv, DecompressInv, InspectSourceInv, ConvertInv, InspectionsInv,
   RenameInv, ReturnInv, StutterInv DEF Next, Command, Ended

LEMMA Invariance == Spec => []Inv
BY InitInv, NextInv, PTL DEF Spec
-----------------------------------------------------------------------------
(* Type correctness, for any number of disks and any sources.              *)
THEOREM ConversionTypeCorrect == Spec => []TypeOK
BY Invariance, PTL DEF Inv

(* What is under the name of a disk is that disk, whole, checked and       *)
(* decompressed, whatever names the sources share.                         *)
THEOREM FiledDisksFinished == Spec => []OnlyFinishedDisks
<1>1. Inv => OnlyFinishedDisks
  BY DEF Inv, ImageInv, OnlyFinishedDisks, OfDisk, Accepted
<1> QED BY <1>1, Invariance, PTL

(* A partial file is that of the disk in work, never beside its finished   *)
(* one, and only a backend that fails can leave it, where os.Remove fails. *)
THEOREM PartialsNotBundled == Spec => []NoPartialBundled
<1>1. Inv => NoPartialBundled
  <2> SUFFICES ASSUME Inv, partial # Missing
               PROVE  /\ pc \in {"check", "inspect", "rename", "failed"}
                      /\ partial.disk = disk /\ image[disk] = Missing
    BY DEF NoPartialBundled
  <2>1. pc \in {"check", "inspect", "rename", "failed"}
    BY DEF Inv, PartialInv
  <2>2. OfDisk(partial, disk) /\ disk \in Disks
    BY <2>1 DEF Inv, PartialInv, InputInv, Working
  <2>3. image[disk] = Missing
    BY <2>2 DEF Inv, ImageInv, Disks
  <2> QED BY <2>1, <2>2, <2>3 DEF OfDisk
<1> QED BY <1>1, Invariance, PTL
-----------------------------------------------------------------------------
(* The refinement *)

Under(d) == IF image[d] = Missing THEN Missing
            ELSE IF image[d].whole /\ image[d].format = "qcow2" THEN image[d].disk
            ELSE 0

Outcome == IF pc \in {"done", "failed"} THEN pc ELSE "running"

(* The directory as the invariant describes it: the disks before the one   *)
(* in work.                                                                *)
LEMMA DirectoryFilled ==
  Inv => \A d \in Disks : Under(d) = IF d < disk THEN d ELSE Missing
<1> SUFFICES ASSUME Inv, NEW d \in Disks
             PROVE  Under(d) = IF d < disk THEN d ELSE Missing
  OBVIOUS
<1>1. /\ image[d] # Missing =>
           image[d].disk = d /\ image[d].whole /\ image[d].format = "qcow2"
      /\ image[d] = Missing <=> d >= disk
  BY DEF Inv, ImageInv, OfDisk
<1>2. d \in Nat /\ disk \in Nat
  BY QemuConversionAssumption DEF Inv, TypeOK, Disks
<1> QED BY <1>1, <1>2 DEF Under

LEMMA DirectoryUnchanged ==
  ASSUME UNCHANGED image
  PROVE  UNCHANGED [d \in Disks |-> Under(d)]
BY DEF Under

(* Every command files the next disk, or ends the backend, or is not seen. *)
LEMMA StepFiles ==
  ASSUME Inv, Inv', Rename, pc' # "failed"
  PROVE  /\ disk \in Disks
         /\ \A e \in Disks : Under(e) = IF e < disk THEN e ELSE Missing
         /\ [d \in Disks |-> Under(d)]' = [[d \in Disks |-> Under(d)] EXCEPT ![disk] = disk]
         /\ Outcome = "running" /\ Outcome' = "running"
<1>1. /\ pc = "rename" /\ pc' = "prepare" /\ disk' = disk + 1
  BY DEF Rename, Abort
<1>2. disk \in Disks /\ disk \in Nat
  BY <1>1 DEF Inv, InputInv, Working, Disks
<1>3. \A e \in Disks : Under(e) = IF e < disk THEN e ELSE Missing
  BY DirectoryFilled
<1>4. \A e \in Disks : Under(e)' = IF e < disk + 1 THEN e ELSE Missing
  <2> SUFFICES ASSUME NEW e \in Disks
               PROVE  Under(e)' = IF e < disk + 1 THEN e ELSE Missing
    OBVIOUS
  <2>1. /\ image'[e] # Missing =>
             image'[e].disk = e /\ image'[e].whole /\ image'[e].format = "qcow2"
        /\ image'[e] = Missing <=> e >= disk + 1
    BY <1>1 DEF Inv, ImageInv, OfDisk
  <2>2. e \in Nat
    BY DEF Disks
  <2> QED BY <2>1, <2>2, <1>2 DEF Under
<1>5. \A e \in Disks : Under(e)' = IF e = disk THEN disk ELSE Under(e)
  <2>1. \A e \in Disks : e \in Nat
    BY DEF Disks
  <2> QED BY <2>1, <1>2, <1>3, <1>4
<1>6. Outcome = "running" /\ Outcome' = "running"
  BY <1>1 DEF Outcome
<1> QED BY <1>2, <1>3, <1>5, <1>6

(* The backend implements the promise of ImageDirectory: whole disks, one  *)
(* after the other, whatever partial files there are in between.           *)
THEOREM ConversionImplementsDirectory == Spec => ImplementsDirectory
<1> DEFINE abstract == [d \in Disks |-> Under(d)]
<1>1. Init => Directory!Init
  BY QemuConversionAssumption DEF Init, Directory!Init, Directory!Disks, Disks
<1>2. Inv /\ Inv' /\ [Next]_vars => [Directory!Next]_<<NumDisks, abstract, Outcome>>
  <2> SUFFICES ASSUME Inv, Inv', [Next]_vars
               PROVE  [Directory!Next]_<<NumDisks, abstract, Outcome>>
    OBVIOUS
  <2>0. Directory!Disks = Disks
    BY DEF Directory!Disks, Disks
  <2>1. CASE Rename /\ pc' # "failed"
    <3>1. PICK d \in Disks : d = disk
      BY <2>1, StepFiles
    <3>2. Directory!File(d)
      BY <2>0, <2>1, <3>1, StepFiles DEF Directory!File, Under, Outcome, Disks
    <3> QED BY <2>0, <3>2 DEF Directory!Next
  <2>2. CASE Return
    <3>1. /\ pc = "prepare" /\ pc' = "done" /\ disk > NumDisks
          /\ UNCHANGED image
      BY <2>2 DEF Return
    <3>2. disk \in Nat /\ NumDisks \in Nat
      BY QemuConversionAssumption DEF Inv, TypeOK
    <3>3. \A d \in Disks : Under(d) = IF d <= NumDisks THEN d ELSE Missing
      BY <3>1, <3>2, DirectoryFilled DEF Disks
    <3>4. NumDisks > 0
      BY QemuConversionAssumption
    <3>5. Directory!Succeed
      BY <2>0, <3>1, <3>3, <3>4, DirectoryUnchanged DEF Directory!Succeed, Under
    <3> QED BY <3>5 DEF Directory!Next
  <2>3. CASE pc' = "failed" /\ pc # "failed"
    <3>1. UNCHANGED image /\ pc # "done"
      BY <2>3 DEF Next, Command, Ended, vars, Prepare, Decompress, InspectSource, Convert,
                  Check, InspectOutput, Rename, Return, Fail, Abort
    <3>2. Directory!Fail
      BY <2>3, <3>1, DirectoryUnchanged DEF Directory!Fail, Under
    <3> QED BY <3>2 DEF Directory!Next
  <2>4. CASE ~Rename /\ ~Return /\ ~(pc' = "failed" /\ pc # "failed")
    <3>1. UNCHANGED image /\ (pc' = pc \/ {pc, pc'} \intersect {"done", "failed"} = {})
      BY <2>4 DEF Next, Command, Ended, vars, Prepare, Decompress, InspectSource, Convert,
                  Check, InspectOutput, Fail, Abort
    <3>2. UNCHANGED abstract
      BY <3>1, DirectoryUnchanged
    <3>3. UNCHANGED Outcome
      BY <3>1 DEF Outcome
    <3> QED BY <3>2, <3>3
  <2>5. CASE Rename /\ pc' = "failed" /\ pc = "failed"
    BY <2>5 DEF Rename
  <2> QED BY <2>1, <2>2, <2>3, <2>4, <2>5
<1> QED BY <1>1, <1>2, Invariance, PTL
         DEF Spec, ImplementsDirectory, Directory!Spec, Under, Outcome

(* What a conversion leaves under the names of disks is finished; beside   *)
(* them, a partial file of the disk that failed or nothing.                *)
THEOREM FinishedOrNothing == Spec => []FinishedDisksOnly
  BY FiledDisksFinished, PartialsNotBundled, PTL DEF FinishedDisksOnly
=============================================================================
