---------------------- MODULE VirtV2VConversionProofs ----------------------
(***************************************************************************)
(* Theorems about VirtV2VConversion, for any number of disks and whatever  *)
(* domain and files virt-v2v leaves.  The invariant follows one disk from  *)
(* the file virt-v2v wrote to its name in the image directory, on the two  *)
(* ways MoveFile has, and keeps what was made sure of the disks before it. *)
(***************************************************************************)
EXTENDS VirtV2VConversion, SequenceTheorems, FiniteSetTheorems, TLAPS

InDisk == {"chmod", "copy", "rename", "remove", "check"}

(* How far the two loops have come.                                        *)
LoopInv ==
  /\ pc \in {"look", "run", "xml"} => next = 1 /\ disks = <<>>
  /\ pc = "read" => next <= Len(domain) + 1 /\ Len(disks) < next
  /\ pc \in InDisk \union {"move", "done"} =>
       Len(disks) <= MaxDisks /\ next <= Len(disks) + 1
  /\ pc \in InDisk => next <= Len(disks)
  /\ pc = "done" => next > Len(disks)

(* The k-th disk is under its name, all of it.                             *)
Filed(k) ==
  /\ image[k] \in Copied
  /\ image[k].file = disks[k] /\ image[k].whole

(* The disks before the one in work have got through the check.            *)
BeforeInv ==
  pc \in InDisk \union {"move", "done"} =>
    \A k \in 1..Len(disks) : k < next =>
      /\ Filed(k)
      /\ qemuImg => image[k].sound
      /\ files[disks[k]] = "absent"

(* The one in work is in one place at each step, or in two.                *)
CurrentInv ==
  /\ pc \in {"chmod", "remove", "check"} => Filed(next)
  /\ pc \in {"chmod", "check"} => files[disks[next]] = "absent"
  /\ pc = "rename" => partial \in Copied /\ partial.file = disks[next] /\ partial.whole
  /\ pc \notin {"rename", "failed"} => partial = Missing

Inv == TypeOK /\ LoopInv /\ BeforeInv /\ CurrentInv
-----------------------------------------------------------------------------
LEMMA DomainType ==
  ASSUME TypeOK
  PROVE  /\ domain \in Seq(Element) /\ Len(domain) \in 0..MaxDisks
         /\ \A n \in 1..Len(domain) : domain[n] \in Element
<1>1. PICK n \in 0..MaxDisks : domain \in [1..n -> Element]
  BY VirtV2VConversionAssumption DEF TypeOK
<1>2. n \in Nat /\ MaxDisks \in Nat
  BY VirtV2VConversionAssumption
<1>3. domain \in Seq(Element)
  BY <1>1, <1>2, SeqDef
<1>4. Len(domain) = n
  <2> DEFINE len == Len(domain)
  <2>1. DOMAIN domain = 1..len /\ len \in Nat
    BY <1>3, LenProperties
  <2>2. 1..n = 1..len
    BY <1>1, <2>1
  <2>3. len \in Nat
    BY <2>1
  <2> HIDE DEF len
  <2>4. n <= len /\ len <= n
    BY <1>2, <2>2, <2>3
  <2>5. len = n
    BY <1>2, <2>3, <2>4
  <2> QED BY <2>5 DEF len
<1>5. \A k \in 1..Len(domain) : domain[k] \in Element
  BY <1>1, <1>4
<1>6. Len(domain) \in 0..MaxDisks
  BY <1>1, <1>4
<1> QED BY <1>3, <1>5, <1>6

LEMMA LoopTypes ==
  ASSUME Inv
  PROVE  /\ next \in Nat \ {0} /\ MaxDisks \in Nat
         /\ disks \in Seq(Files) /\ Len(disks) \in Nat
         /\ \A k \in 1..Len(disks) : disks[k] \in Files
         /\ pc \in InDisk => next \in Disks /\ next \in 1..Len(disks)
<1>1. next \in Nat \ {0} /\ MaxDisks \in Nat /\ disks \in Seq(Files)
  BY VirtV2VConversionAssumption DEF Inv, TypeOK
<1>2. Len(disks) \in Nat /\ \A k \in 1..Len(disks) : disks[k] \in Files
  BY <1>1, LenProperties, ElementOfSeq
<1>3. pc \in InDisk => next \in Disks /\ next \in 1..Len(disks)
  BY <1>1, <1>2 DEF Inv, LoopInv, Disks
<1> QED BY <1>1, <1>2, <1>3

LEMMA DataType ==
  ASSUME NEW file \in Files
  PROVE  Data(file) \in Copied /\ Data(file).file = file /\ Data(file).whole
BY DEF Data, Copied

LEMMA InitInv == Init => Inv
<1> SUFFICES ASSUME Init PROVE Inv
  OBVIOUS
<1>1. TypeOK
  <2>1. <<>> \in Seq(Files) /\ <<>> \in Seq([file : Files, ovf : 0..NumAttached])
    BY EmptySeq
  <2> QED BY <2>1, VirtV2VConversionAssumption DEF Init, TypeOK
<1> QED BY <1>1 DEF Init, Inv, LoopInv, BeforeInv, CurrentInv, InDisk

(* The steps that only lead on, or to the error return.                    *)
LEMMA GotoInv ==
  ASSUME Inv, NEW step, Goto(step),
         \/ step = "failed" /\ pc # "rename"
         \/ pc = "look" /\ step = "run"
         \/ pc = "run" /\ step = "xml"
         \/ pc = "xml" /\ step = "read"
         \/ pc = "move" /\ step = "copy" /\ next <= Len(disks)
         \/ pc = "chmod" /\ step = "check"
         \/ pc = "move" /\ step = "done" /\ next > Len(disks)
  PROVE  Inv'
<1>1. /\ pc' = step
      /\ UNCHANGED <<qemuImg, domain, files, next, disks, partial, image, result>>
  BY DEF Goto, external
<1>2. TypeOK'
  BY <1>1 DEF Inv, TypeOK
<1>3. LoopInv'
  <2>1. Len(<<>>) = 0
    BY EmptySeq
  <2>2. Len(domain) \in Nat /\ Len(disks) \in Nat
    BY DomainType, LoopTypes DEF Inv
  <2> QED BY <1>1, <2>1, <2>2 DEF Inv, LoopInv, InDisk
<1>4. BeforeInv'
  BY <1>1 DEF Inv, BeforeInv, InDisk, Filed
<1>5. CurrentInv'
  BY <1>1 DEF Inv, CurrentInv, Filed
<1> QED BY <1>2, <1>3, <1>4, <1>5 DEF Inv

LEMMA BeginInv == Inv /\ (Look \/ Run \/ ChooseXML \/ Chmod \/ Return) => Inv'
<1>1. ASSUME Inv, Look PROVE Inv'
  <2>1. pc = "look" /\ (Goto("run") \/ Goto("failed"))
    BY <1>1 DEF Look, Fail
  <2> QED BY <1>1, <2>1, GotoInv
<1>2. ASSUME Inv, Run PROVE Inv'
  BY <1>2, GotoInv DEF Run, Fail
<1>3. ASSUME Inv, ChooseXML PROVE Inv'
  <2>1. pc = "xml" /\ (Goto("read") \/ Goto("failed"))
    BY <1>3 DEF ChooseXML, Fail
  <2> QED BY <1>3, <2>1, GotoInv
<1>4. ASSUME Inv, Chmod PROVE Inv'
  BY <1>4, GotoInv DEF Chmod, Fail
<1>5. ASSUME Inv, Return PROVE Inv'
  BY <1>5, GotoInv DEF Return
<1> QED BY <1>1, <1>2, <1>3, <1>4, <1>5

(* The loop over the elements adds at most one disk for each.              *)
LEMMA ReadInv == Inv /\ ReadElement => Inv'
<1> SUFFICES ASSUME Inv, ReadElement PROVE Inv'
  OBVIOUS
<1>1. pc = "read" /\ next <= Len(domain) /\ Len(disks) < next
  BY DEF ReadElement, Inv, LoopInv
<1>2. /\ Len(domain) \in 0..MaxDisks /\ domain[next] \in Element
      /\ next \in Nat \ {0} /\ Len(disks) \in Nat /\ disks \in Seq(Files)
      /\ MaxDisks \in Nat
  BY <1>1, DomainType, LoopTypes DEF Inv
<1>3. CASE Fail
  BY <1>1, <1>3, GotoInv DEF Fail
<1>4. CASE ~Fail
  <2>1. /\ next' = next + 1 /\ pc' = pc
        /\ UNCHANGED <<qemuImg, domain, files, partial, image, result>>
        /\ \/ disks' = disks
           \/ IsDisk(domain[next]) /\ disks' = Append(disks, domain[next].file)
    BY <1>4 DEF ReadElement, external
  <2>2. disks' \in Seq(Files) /\ Len(disks') \in Nat /\ Len(disks') <= Len(disks) + 1
    <3>1. CASE disks' = disks
      BY <1>2, <3>1
    <3>2. CASE IsDisk(domain[next]) /\ disks' = Append(disks, domain[next].file)
      <4>1. domain[next].file \in Files
        BY <1>2, <3>2 DEF IsDisk, Element
      <4> QED BY <1>2, <3>2, <4>1, AppendProperties
    <3> QED BY <2>1, <3>1, <3>2
  <2>3. TypeOK'
    BY <1>1, <1>2, <2>1, <2>2 DEF Inv, TypeOK
  <2>4. LoopInv'
    BY <1>1, <1>2, <2>1, <2>2 DEF LoopInv, InDisk
  <2>5. BeforeInv' /\ CurrentInv'
    BY <1>1, <2>1 DEF Inv, BeforeInv, CurrentInv, InDisk
  <2> QED BY <2>3, <2>4, <2>5 DEF Inv
<1> QED BY <1>3, <1>4

LEMMA EndOfElementsInv == Inv /\ EndOfElements => Inv'
<1> SUFFICES ASSUME Inv, EndOfElements PROVE Inv'
  OBVIOUS
<1>1. pc = "read" /\ next > Len(domain) /\ next <= Len(domain) + 1 /\ Len(disks) < next
  BY DEF EndOfElements, Inv, LoopInv
<1>2. /\ Len(domain) \in 0..MaxDisks /\ next \in Nat \ {0} /\ Len(disks) \in Nat
      /\ MaxDisks \in Nat
  BY DomainType, LoopTypes DEF Inv
<1>3. CASE Fail
  BY <1>1, <1>3, GotoInv DEF Fail
<1>4. CASE ~Fail
  <2>1. /\ pc' = "move" /\ next' = 1
        /\ UNCHANGED <<qemuImg, domain, files, disks, partial, image, result>>
    BY <1>4 DEF EndOfElements, external
  <2>2. TypeOK'
    BY <1>2, <2>1 DEF Inv, TypeOK
  <2>3. LoopInv'
    BY <1>1, <1>2, <2>1 DEF LoopInv, InDisk
  <2>4. BeforeInv' /\ CurrentInv'
    BY <1>1, <1>2, <2>1 DEF Inv, BeforeInv, CurrentInv
  <2> QED BY <2>2, <2>3, <2>4 DEF Inv
<1> QED BY <1>3, <1>4
-----------------------------------------------------------------------------
(* The steps for the disk that is next leave those before it alone.        *)
LEMMA OthersInv ==
  ASSUME Inv, pc \in InDisk \union {"move"}, next <= Len(disks),
         UNCHANGED <<qemuImg, disks, next>>,
         \A k \in Disks : k # next => image'[k] = image[k],
         \A f \in Files : files'[f] # files[f] => files'[f] = "absent"
  PROVE  BeforeInv'
<1> SUFFICES ASSUME NEW k \in 1..Len(disks), k < next
             PROVE  Filed(k)' /\ (qemuImg => image'[k].sound) /\ files'[disks[k]] = "absent"
  BY DEF BeforeInv
<1>1. k \in Disks /\ k # next /\ disks[k] \in Files
  BY LoopTypes DEF Inv, LoopInv, Disks
<1>2. Filed(k) /\ (qemuImg => image[k].sound) /\ files[disks[k]] = "absent"
  BY DEF Inv, BeforeInv
<1> QED BY <1>1, <1>2 DEF Filed

LEMMA MoveInv == Inv /\ Move => Inv'
<1> SUFFICES ASSUME Inv, Move PROVE Inv'
  OBVIOUS
<1>1. pc = "move" /\ next <= Len(disks)
  BY DEF Move
<1>2. CASE Fail \/ Goto("copy")
  BY <1>1, <1>2, GotoInv DEF Fail
<1>3. CASE ~Fail /\ ~Goto("copy")
  <2>1. /\ image' = [image EXCEPT ![next] = Data(disks[next])]
        /\ files' = [files EXCEPT ![disks[next]] = "absent"]
        /\ pc' = "chmod"
        /\ UNCHANGED <<qemuImg, domain, next, disks, partial, result>>
    BY <1>3 DEF Move, external
  <2>2. next \in 1..Len(disks) /\ next \in Disks /\ disks[next] \in Files
    BY <1>1, LoopTypes DEF Inv, LoopInv, Disks
  <2>3. Data(disks[next]) \in Copied /\ Data(disks[next]).file = disks[next]
        /\ Data(disks[next]).whole
    BY <2>2, DataType
  <2>4. TypeOK'
    BY <2>1, <2>2, <2>3 DEF Inv, TypeOK
  <2>5. LoopInv'
    BY <1>1, <2>1 DEF Inv, LoopInv, InDisk
  <2>6. BeforeInv'
    BY <1>1, <2>1, OthersInv DEF Inv, TypeOK
  <2>7. CurrentInv'
    BY <1>1, <2>1, <2>2, <2>3 DEF Inv, TypeOK, CurrentInv, Filed
  <2> QED BY <2>4, <2>5, <2>6, <2>7 DEF Inv
<1> QED BY <1>2, <1>3

LEMMA AbortCopyInv ==
  ASSUME Inv, NEW written \in Copied, AbortCopy(written)
  PROVE  Inv'
<1>1. /\ pc' = "failed" /\ partial' \in {Missing, written}
      /\ UNCHANGED <<qemuImg, domain, files, next, disks, image, result>>
  BY DEF AbortCopy, external
<1>2. TypeOK'
  BY <1>1 DEF Inv, TypeOK
<1> QED BY <1>1, <1>2 DEF Inv, LoopInv, BeforeInv, CurrentInv, InDisk

LEMMA CopyInv == Inv /\ (Copy \/ RenameCopy \/ RemoveSource) => Inv'
<1> SUFFICES ASSUME Inv, Copy \/ RenameCopy \/ RemoveSource PROVE Inv'
  OBVIOUS
<1>1. CASE Fail /\ pc # "rename"
  BY <1>1, GotoInv DEF Fail
<1>2. CASE Copy /\ pc' # "failed"
  <2>1. /\ pc = "copy" /\ pc' = "rename" /\ partial' = Data(disks[next])
        /\ UNCHANGED <<qemuImg, domain, files, next, disks, image, result>>
    BY <1>2 DEF Copy, AbortCopy, Fail, Goto, external
  <2>2. next \in 1..Len(disks) /\ disks[next] \in Files /\ next <= Len(disks)
    BY <2>1, LoopTypes DEF Inv, LoopInv, InDisk
  <2>3. partial' \in Copied /\ partial'.file = disks[next] /\ partial'.whole
    BY <2>1, <2>2, DataType
  <2>4. TypeOK' /\ LoopInv'
    BY <2>1, <2>3 DEF Inv, TypeOK, LoopInv, InDisk
  <2>5. BeforeInv'
    BY <2>1, <2>2, OthersInv DEF InDisk
  <2>6. CurrentInv'
    BY <2>1, <2>3 DEF CurrentInv
  <2> QED BY <2>4, <2>5, <2>6 DEF Inv
<1>3. CASE RenameCopy /\ pc' # "failed"
  <2>1. /\ pc = "rename" /\ partial' = Missing
        /\ image' = [image EXCEPT ![next] = partial] /\ pc' = "remove"
        /\ UNCHANGED <<qemuImg, domain, files, next, disks, result>>
    BY <1>3 DEF RenameCopy, AbortCopy, external
  <2>2. /\ next \in 1..Len(disks) /\ next \in Disks /\ next <= Len(disks)
        /\ partial \in Copied /\ partial.file = disks[next] /\ partial.whole
    BY <2>1, LoopTypes DEF Inv, LoopInv, InDisk, CurrentInv
  <2>3. TypeOK' /\ LoopInv'
    BY <2>1, <2>2 DEF Inv, TypeOK, LoopInv, InDisk
  <2>4. \A k \in Disks : k # next => image'[k] = image[k]
    BY <2>1 DEF Inv, TypeOK
  <2>5. BeforeInv'
    BY <2>1, <2>2, <2>4, OthersInv DEF InDisk
  <2>6. CurrentInv'
    BY <2>1, <2>2 DEF Inv, TypeOK, CurrentInv, Filed
  <2> QED BY <2>3, <2>5, <2>6 DEF Inv
<1>4. CASE RemoveSource /\ ~Fail
  <2>1. /\ pc = "remove" /\ pc' = "check"
        /\ files' = [files EXCEPT ![disks[next]] = "absent"]
        /\ UNCHANGED <<qemuImg, domain, next, disks, partial, image, result>>
    BY <1>4 DEF RemoveSource, external
  <2>2. next \in 1..Len(disks) /\ disks[next] \in Files /\ next <= Len(disks)
    BY <2>1, LoopTypes DEF Inv, LoopInv, InDisk
  <2>3. TypeOK' /\ LoopInv'
    BY <2>1, <2>2 DEF Inv, TypeOK, LoopInv, InDisk
  <2>4. BeforeInv'
    BY <2>1, <2>2, OthersInv DEF Inv, TypeOK, InDisk
  <2>5. CurrentInv'
    BY <2>1, <2>2 DEF Inv, TypeOK, CurrentInv, Filed
  <2> QED BY <2>3, <2>4, <2>5 DEF Inv
<1>5. CASE Copy /\ pc' = "failed" /\ ~Fail
  <2>1. PICK whole \in BOOLEAN : AbortCopy([Data(disks[next]) EXCEPT !.whole = whole])
    BY <1>5 DEF Copy
  <2>2. disks[next] \in Files
    BY <1>5, LoopTypes DEF Copy, InDisk
  <2>3. [Data(disks[next]) EXCEPT !.whole = whole] \in Copied
    BY <2>2 DEF Data, Copied
  <2> QED BY <2>1, <2>3, AbortCopyInv
<1>6. CASE RenameCopy /\ pc' = "failed"
  <2>1. AbortCopy(partial)
    BY <1>6 DEF RenameCopy
  <2>2. partial \in Copied
    BY <1>6 DEF RenameCopy, Inv, CurrentInv
  <2> QED BY <2>1, <2>2, AbortCopyInv
<1>7. Copy => pc = "copy"
  BY DEF Copy
<1>8. RemoveSource => pc = "remove"
  BY DEF RemoveSource
<1> QED BY <1>1, <1>2, <1>3, <1>4, <1>5, <1>6, <1>7, <1>8

(* A disk that gets through the check joins those before it.               *)
LEMMA CheckInv == Inv /\ Check => Inv'
<1> SUFFICES ASSUME Inv, Check PROVE Inv'
  OBVIOUS
<1>1. pc = "check"
  BY DEF Check
<1>2. CASE Fail
  BY <1>1, <1>2, GotoInv DEF Fail
<1>3. CASE ~Fail
  <2>1. /\ qemuImg => image[next].sound
        /\ next' = next + 1 /\ pc' = "move" /\ result' = Append(result, Reported)
        /\ UNCHANGED <<qemuImg, domain, files, disks, partial, image>>
    BY <1>3 DEF Check, external
  <2>2. /\ next \in 1..Len(disks) /\ next \in Disks /\ disks[next] \in Files
        /\ Len(disks) \in Nat /\ MaxDisks \in Nat
    BY <1>1, LoopTypes DEF InDisk
  <2>3. Reported \in [file : Files, ovf : 0..NumAttached]
    BY <2>2, VirtV2VConversionAssumption DEF Reported
  <2>4. result' \in Seq([file : Files, ovf : 0..NumAttached])
    BY <2>1, <2>3, AppendProperties DEF Inv, TypeOK
  <2>5. TypeOK'
    BY <2>1, <2>2, <2>4 DEF Inv, TypeOK, Disks
  <2>6. LoopInv'
    BY <1>1, <2>1, <2>2 DEF Inv, LoopInv, InDisk
  <2>7. BeforeInv'
    <3> SUFFICES ASSUME NEW k \in 1..Len(disks), k < next + 1
                 PROVE  Filed(k)' /\ (qemuImg => image[k].sound)
                        /\ files[disks[k]] = "absent"
      BY <2>1 DEF BeforeInv
    <3>1. CASE k < next
      BY <1>1, <2>1, <3>1 DEF Inv, BeforeInv, InDisk, Filed
    <3>2. CASE k = next
      BY <1>1, <2>1, <3>2 DEF Inv, CurrentInv, Filed
    <3> QED BY <2>2, <3>1, <3>2
  <2>8. CurrentInv'
    BY <1>1, <2>1 DEF Inv, CurrentInv
  <2> QED BY <2>5, <2>6, <2>7, <2>8 DEF Inv
<1> QED BY <1>2, <1>3

LEMMA Invariance == Spec => []Inv
<1>1. Inv /\ UNCHANGED vars => Inv'
  BY DEF vars, external, Inv, TypeOK, LoopInv, BeforeInv, CurrentInv, Filed
<1>2. Inv /\ [Next]_vars => Inv'
  BY <1>1, BeginInv, ReadInv, EndOfElementsInv, MoveInv, CopyInv, CheckInv
     DEF Next, Step, Ended
<1> QED BY InitInv, <1>2, PTL DEF Spec
-----------------------------------------------------------------------------
(* The theorems *)

(* Every value of the model stays in its type.                             *)
THEOREM BackendTypeCorrect == Spec => []TypeOK
BY Invariance, PTL DEF Inv

(* OnlySoundDisks: when the backend succeeds, every disk of the domain is  *)
(* under its name, whole, and passed by qemu-img if there is one.          *)
THEOREM ReportedDisksSound == Spec => []OnlySoundDisks
<1>1. Inv => OnlySoundDisks
  <2> SUFFICES ASSUME Inv, pc = "done", NEW k \in DOMAIN disks
               PROVE  /\ image[k] # Missing
                      /\ image[k].file = disks[k] /\ image[k].whole
                      /\ qemuImg => image[k].sound
    BY DEF OnlySoundDisks
  <2>1. k \in 1..Len(disks) /\ k < next
    BY LoopTypes, LenProperties DEF Inv, LoopInv
  <2>2. Filed(k) /\ (qemuImg => image[k].sound)
    BY <2>1 DEF Inv, BeforeInv
  <2> QED BY <2>2, VirtV2VConversionAssumption DEF Filed
<1> QED BY <1>1, Invariance, PTL
-----------------------------------------------------------------------------
(* The order of the disks *)

(* The disks taken from the first n elements are those, in their order.    *)
Placed(n) ==
  /\ Len(disks) = Cardinality(DisksTo(n))
  /\ \A k \in 1..Len(disks) :
       \E j \in DisksTo(n) : Cardinality(DisksTo(j)) = k /\ domain[j].file = disks[k]

(* What the report says of the disks before the one in work.               *)
ReportInv ==
  /\ Len(result) = next - 1
  /\ \A k \in 1..Len(result) :
       result[k] = [file |-> disks[k], ovf |-> IF k <= NumAttached THEN k ELSE 0]

Before == {"look", "run", "xml"}
Moving == InDisk \union {"move", "done"}

OrderInv ==
  /\ pc \in Before \union {"read"} => result = <<>>
  /\ pc = "read" => Placed(next - 1)
  /\ pc \in Moving => disks # <<>> /\ Placed(Len(domain)) /\ ReportInv

(* Nothing is under a name before its disk is moved there.                 *)
NamesInv ==
  \A k \in Disks :
    \/ pc \in Before \union {"read"}
    \/ pc \in {"move", "copy", "rename", "done"} /\ k >= next
    \/ pc \in {"chmod", "remove", "check"} /\ k > next
    => image[k] = Missing

LEMMA OneDiskMore ==
  ASSUME NEW n \in Nat
  PROVE  /\ IsFiniteSet(DisksTo(n)) /\ Cardinality(DisksTo(n)) \in 0..n
         /\ DisksTo(0) = {} /\ Cardinality(DisksTo(0)) = 0
         /\ IsDisk(domain[n + 1]) => /\ Cardinality(DisksTo(n + 1)) = Cardinality(DisksTo(n)) + 1
                                     /\ n + 1 \in DisksTo(n + 1)
         /\ ~IsDisk(domain[n + 1]) => DisksTo(n + 1) = DisksTo(n)
         /\ DisksTo(n) \subseteq DisksTo(n + 1)
<1>1. IsFiniteSet(1..n) /\ Cardinality(1..n) = n
  BY FS_Interval
<1>2. DisksTo(n) \subseteq 1..n
  BY DEF DisksTo
<1>3. IsFiniteSet(DisksTo(n)) /\ Cardinality(DisksTo(n)) <= n
  BY <1>1, <1>2, FS_Subset
<1>4. Cardinality(DisksTo(n)) \in Nat
  BY <1>3, FS_CardinalityType
<1>5. DisksTo(0) = {} /\ Cardinality(DisksTo(0)) = 0
  BY FS_EmptySet DEF DisksTo
<1>6. ASSUME IsDisk(domain[n + 1])
      PROVE  /\ Cardinality(DisksTo(n + 1)) = Cardinality(DisksTo(n)) + 1
             /\ n + 1 \in DisksTo(n + 1)
  <2>1. DisksTo(n + 1) = DisksTo(n) \union {n + 1} /\ n + 1 \notin DisksTo(n)
    BY <1>6 DEF DisksTo
  <2> QED BY <1>3, <2>1, FS_AddElement
<1>7. ~IsDisk(domain[n + 1]) => DisksTo(n + 1) = DisksTo(n)
  BY DEF DisksTo
<1>8. DisksTo(n) \subseteq DisksTo(n + 1)
  BY DEF DisksTo
<1> QED BY <1>3, <1>4, <1>5, <1>6, <1>7, <1>8

LEMMA DomainFixed ==
  ASSUME UNCHANGED domain
  PROVE  /\ \A n : DisksTo(n)' = DisksTo(n)
         /\ DisksOfDomain' = DisksOfDomain
BY DEF DisksTo, DisksOfDomain, IsDisk

LEMMA OrderInitially == Init => OrderInv /\ NamesInv
BY DEF Init, OrderInv, NamesInv, Moving, InDisk

(* The steps outside the loops.                                            *)
LEMMA GotoOrder ==
  ASSUME Inv, OrderInv, NamesInv, NEW step, Goto(step),
         \/ step = "failed"
         \/ pc = "look" /\ step = "run"
         \/ pc = "run" /\ step = "xml"
         \/ pc = "xml" /\ step = "read"
         \/ pc = "move" /\ step \in {"copy", "done"}
         \/ pc = "chmod" /\ step = "check"
  PROVE  OrderInv' /\ NamesInv'
<1>1. /\ pc' = step
      /\ UNCHANGED <<qemuImg, domain, files, next, disks, partial, image, result>>
  BY DEF Goto, external
<1>2. \A n : Placed(n)' <=> Placed(n)
  BY <1>1, DomainFixed DEF Placed
<1>3. ReportInv' <=> ReportInv
  BY <1>1 DEF ReportInv
<1>4. pc = "xml" => Placed(next - 1)
  <2> SUFFICES ASSUME pc = "xml" PROVE Placed(next - 1)
    OBVIOUS
  <2>1. next - 1 = 0 /\ disks = <<>>
    BY DEF Inv, LoopInv
  <2>2. Cardinality(DisksTo(0)) = 0 /\ 0 \in Nat
    BY OneDiskMore
  <2> QED BY <2>1, <2>2 DEF Placed
<1>5. OrderInv'
  BY <1>1, <1>2, <1>3, <1>4 DEF OrderInv, Before, Moving, InDisk
<1>6. NamesInv'
  BY <1>1 DEF NamesInv, Before
<1> QED BY <1>5, <1>6

(* The loop over the elements adds a disk at its place.                    *)
LEMMA ReadOrder ==
  ASSUME Inv, OrderInv, NamesInv, ReadElement
  PROVE  OrderInv' /\ NamesInv'
<1>1. /\ pc = "read" /\ next <= Len(domain) /\ Placed(next - 1) /\ result = <<>>
      /\ next - 1 \in Nat /\ (next - 1) + 1 = next /\ next \in Nat
      /\ disks \in Seq(Files) /\ Len(disks) \in Nat
  BY LoopTypes DEF ReadElement, OrderInv
<1>2. CASE Fail
  BY <1>2, GotoOrder DEF Fail
<1>3. CASE ~Fail
  <2>1. /\ next' = next + 1 /\ pc' = pc /\ next' - 1 = next
        /\ UNCHANGED <<qemuImg, domain, files, partial, image, result>>
        /\ \/ ~IsDisk(domain[next]) /\ disks' = disks
           \/ IsDisk(domain[next]) /\ disks' = Append(disks, domain[next].file)
    BY <1>1, <1>3 DEF ReadElement, external
  <2>2. \A n : DisksTo(n)' = DisksTo(n)
    BY <2>1, DomainFixed
  <2>3. CASE ~IsDisk(domain[next]) /\ disks' = disks
    <3>1. DisksTo(next) = DisksTo(next - 1)
      BY <1>1, <2>3, OneDiskMore
    <3>2. Placed(next)
      BY <1>1, <3>1 DEF Placed
    <3>3. (Placed(next - 1))'
      BY <2>1, <2>2, <2>3, <3>2 DEF Placed
    <3>4. OrderInv'
      BY <1>1, <2>1, <3>3 DEF OrderInv, Moving, InDisk
    <3> QED BY <1>1, <2>1, <3>4 DEF NamesInv, Before
  <2>4. CASE IsDisk(domain[next]) /\ disks' = Append(disks, domain[next].file)
    <3>1. /\ Cardinality(DisksTo(next)) = Cardinality(DisksTo(next - 1)) + 1
          /\ next \in DisksTo(next) /\ DisksTo(next - 1) \subseteq DisksTo(next)
      BY <1>1, <2>4, OneDiskMore
    <3>2. domain[next].file \in Files
      <4>1. /\ \A n \in 1..Len(domain) : domain[n] \in Element
            /\ Len(domain) \in Nat /\ next \in Nat \ {0} /\ next <= Len(domain)
        BY <1>1, DomainType, LoopTypes DEF Inv
      <4>2. domain[next] \in Element
        BY <4>1
      <4> QED BY <2>4, <4>2 DEF IsDisk, Element
    <3>3. /\ Len(disks') = Len(disks) + 1 /\ disks'[Len(disks) + 1] = domain[next].file
          /\ \A k \in 1..Len(disks) : disks'[k] = disks[k]
      BY <1>1, <2>4, <3>2
    <3>4. Len(disks') = Cardinality(DisksTo(next))
      BY <1>1, <3>1, <3>3 DEF Placed
    <3>5. ASSUME NEW k \in 1..Len(disks')
          PROVE  \E j \in DisksTo(next) :
                   Cardinality(DisksTo(j)) = k /\ domain[j].file = disks'[k]
      <4>1. CASE k = Len(disks) + 1
        BY <3>1, <3>3, <3>4, <4>1
      <4>2. CASE k \in 1..Len(disks)
        BY <1>1, <3>1, <3>3, <4>2 DEF Placed
      <4> QED BY <1>1, <3>3, <4>1, <4>2
    <3>6. (Placed(next - 1))'
      BY <2>1, <2>2, <3>4, <3>5 DEF Placed
    <3>7. OrderInv'
      BY <1>1, <2>1, <3>6 DEF OrderInv, Moving, InDisk
    <3> QED BY <1>1, <2>1, <3>7 DEF NamesInv, Before
  <2> QED BY <2>1, <2>3, <2>4
<1> QED BY <1>2, <1>3

LEMMA EndOrder ==
  ASSUME Inv, OrderInv, NamesInv, EndOfElements
  PROVE  OrderInv' /\ NamesInv'
<1>1. /\ pc = "read" /\ next > Len(domain) /\ next <= Len(domain) + 1
      /\ next \in Nat /\ Len(domain) \in Nat
      /\ Placed(next - 1) /\ result = <<>>
  BY LoopTypes, DomainType DEF EndOfElements, Inv, OrderInv, LoopInv
<1>2. CASE Fail
  BY <1>2, GotoOrder DEF Fail
<1>3. CASE ~Fail
  <2>1. /\ disks # <<>> /\ pc' = "move" /\ next' = 1
        /\ UNCHANGED <<qemuImg, domain, files, disks, partial, image, result>>
    BY <1>3 DEF EndOfElements, external
  <2>2. next - 1 = Len(domain)
    BY <1>1
  <2>3. Placed(Len(domain))'
    BY <1>1, <2>1, <2>2, DomainFixed DEF Placed
  <2>4. ReportInv'
    BY <1>1, <2>1 DEF ReportInv
  <2>5. OrderInv'
    BY <2>1, <2>3, <2>4 DEF OrderInv, Before
  <2> QED BY <1>1, <2>1, <2>5 DEF NamesInv, Before
<1> QED BY <1>2, <1>3

(* The steps for one disk keep the order, and file under its name only.    *)
LEMMA MoveOrder ==
  ASSUME Inv, OrderInv, NamesInv, Move \/ Copy \/ RenameCopy \/ RemoveSource
  PROVE  OrderInv' /\ NamesInv'
<1>1. CASE Fail \/ (pc = "move" /\ Goto("copy"))
  BY <1>1, GotoOrder DEF Fail
<1>2. CASE ~Fail /\ ~(pc = "move" /\ Goto("copy"))
  <2>1. /\ pc \in {"move", "copy", "rename", "remove"}
        /\ pc' \in InDisk \union {"failed"}
        /\ UNCHANGED <<domain, next, disks, result>>
    BY <1>2 DEF Move, Copy, RenameCopy, RemoveSource, AbortCopy, external, InDisk
  <2>2. OrderInv'
    <3>1. Placed(Len(domain))' <=> Placed(Len(domain))
      BY <2>1, DomainFixed DEF Placed
    <3>2. ReportInv' <=> ReportInv
      BY <2>1 DEF ReportInv
    <3> QED BY <2>1, <3>1, <3>2 DEF OrderInv, Before, Moving, InDisk
  <2>3. ASSUME NEW k \in Disks, k > next, pc' # "failed" PROVE image'[k] = Missing
    <3>1. k # next /\ k >= next
      BY <2>3, LoopTypes DEF Disks
    <3>2. image'[k] = image[k]
      BY <1>2, <3>1 DEF Inv, TypeOK, Move, Copy, RenameCopy, RemoveSource, AbortCopy
    <3>3. image[k] = Missing
      BY <2>1, <2>3, <3>1 DEF NamesInv
    <3> QED BY <3>2, <3>3
  <2>4. ASSUME NEW k \in Disks, k >= next, pc' = "rename" PROVE image'[k] = Missing
    <3>1. pc = "copy" /\ UNCHANGED image
      BY <1>2, <2>4 DEF Move, Copy, RenameCopy, RemoveSource, AbortCopy
    <3> QED BY <2>4, <3>1 DEF NamesInv
  <2>5. pc' \in {"chmod", "rename", "remove", "check", "failed"}
    BY <1>2 DEF Move, Copy, RenameCopy, RemoveSource, AbortCopy
  <2>6. NamesInv'
    BY <2>1, <2>3, <2>4, <2>5 DEF NamesInv, Before
  <2> QED BY <2>2, <2>6
<1> QED BY <1>1, <1>2

LEMMA CheckOrder ==
  ASSUME Inv, OrderInv, NamesInv, Check
  PROVE  OrderInv' /\ NamesInv'
<1>1. CASE Fail
  BY <1>1, GotoOrder DEF Fail
<1>2. CASE ~Fail
  <2>1. /\ pc = "check" /\ next' = next + 1 /\ pc' = "move"
        /\ result' = Append(result, Reported)
        /\ UNCHANGED <<qemuImg, domain, files, disks, partial, image>>
    BY <1>2 DEF Check, external
  <2>2. /\ disks # <<>> /\ Placed(Len(domain)) /\ ReportInv
        /\ next \in Nat \ {0} /\ result \in Seq([file : Files, ovf : 0..NumAttached])
    BY <2>1, LoopTypes DEF OrderInv, Moving, InDisk, Inv, TypeOK
  <2>3. Placed(Len(domain))'
    BY <2>1, <2>2, DomainFixed DEF Placed
  <2>4. ReportInv'
    <3>1. Len(result) = next - 1 /\ Len(result) \in Nat
      BY <2>2 DEF ReportInv
    <3>2. /\ Len(result') = next /\ result'[next] = Reported
          /\ \A k \in 1..(next - 1) : result'[k] = result[k]
      BY <2>1, <2>2, <3>1
    <3>3. \A k \in 1..next : k \in 1..(next - 1) \/ k = next
      BY <2>2
    <3> QED BY <2>1, <2>2, <3>1, <3>2, <3>3 DEF ReportInv, Reported
  <2>5. OrderInv'
    BY <2>1, <2>2, <2>3, <2>4 DEF OrderInv, Before
  <2>6. NamesInv'
    BY <2>1, <2>2 DEF NamesInv, Before, Disks
  <2> QED BY <2>5, <2>6
<1> QED BY <1>1, <1>2

LEMMA OrderKept == Inv /\ OrderInv /\ NamesInv /\ [Next]_vars => OrderInv' /\ NamesInv'
<1> SUFFICES ASSUME Inv, OrderInv, NamesInv, [Next]_vars PROVE OrderInv' /\ NamesInv'
  OBVIOUS
<1>1. CASE Look \/ Run \/ ChooseXML \/ Chmod \/ Return
  <2>1. \/ Goto("failed")
        \/ pc = "look" /\ Goto("run")
        \/ pc = "run" /\ Goto("xml")
        \/ pc = "xml" /\ Goto("read")
        \/ pc = "chmod" /\ Goto("check")
        \/ pc = "move" /\ Goto("done")
    BY <1>1 DEF Look, Run, ChooseXML, Chmod, Return, Fail
  <2> QED BY <2>1, GotoOrder
<1>2. CASE UNCHANGED vars
  <2>1. UNCHANGED <<domain, pc, next, disks, image, result>>
    BY <1>2 DEF vars, external
  <2>2. \A n : Placed(n)' <=> Placed(n)
    BY <2>1, DomainFixed DEF Placed
  <2>3. ReportInv' <=> ReportInv
    BY <2>1 DEF ReportInv
  <2> QED BY <2>1, <2>2, <2>3 DEF OrderInv, NamesInv
<1> QED
  BY <1>1, <1>2, ReadOrder, EndOrder, MoveOrder, CheckOrder DEF Next, Step, Ended

LEMMA OrderInvariance == Spec => [](Inv /\ OrderInv /\ NamesInv)
<1>1. Inv /\ OrderInv /\ NamesInv /\ [Next]_vars /\ Inv' => (Inv /\ OrderInv /\ NamesInv)'
  BY OrderKept
<1> QED BY InitInv, OrderInitially, Invariance, <1>1, PTL DEF Spec

(* While there is a partial file its disk is in the one other place only.  *)
PartialInv ==
  /\ pc \in {"copy", "rename"} => files[disks[next]] # "absent"
  /\ partial # Missing =>
       /\ pc \in {"rename", "failed"}
       /\ files[disks[next]] # "absent" /\ image[next] = Missing

LEMMA PartialKept ==
  ASSUME Inv, NamesInv, PartialInv, [Next]_vars
  PROVE  PartialInv'
<1>1. ASSUME NEW step, Goto(step), pc \notin {"rename", "failed"},
             step \notin {"copy", "rename"} \/ files[disks[next]] # "absent"
      PROVE  PartialInv'
  BY <1>1 DEF Goto, PartialInv
<1>2. ASSUME partial' = Missing, pc' \notin {"copy", "rename"}
      PROVE  PartialInv'
  BY <1>2 DEF PartialInv
<1>3. pc \notin {"rename", "failed"} => partial = Missing
  BY DEF Inv, CurrentInv
<1>4. CASE Look \/ Run \/ ChooseXML \/ Chmod \/ Return
  BY <1>1, <1>4 DEF Look, Run, ChooseXML, Chmod, Return, Fail
<1>5. CASE ReadElement \/ EndOfElements \/ RemoveSource \/ Check
  <2>1. pc \in {"read", "remove", "check"} /\ pc' \in {"read", "move", "check", "failed"}
        /\ partial' = partial
    BY <1>5 DEF ReadElement, EndOfElements, RemoveSource, Check, Fail, Goto
  <2> QED BY <1>2, <1>3, <2>1
<1>6. CASE Move
  <2>1. \/ pc = "move" /\ pc' = "chmod" /\ partial' = partial
        \/ pc = "move" /\ files[disks[next]] # "absent" /\ Goto("copy")
        \/ pc = "move" /\ Goto("failed")
    BY <1>6 DEF Move, Fail
  <2> QED BY <1>1, <1>2, <1>3, <2>1
<1>7. CASE Copy
  <2>1. pc = "copy" /\ pc' \in {"rename", "failed"} /\ UNCHANGED <<files, next, disks, image>>
    BY <1>7 DEF Copy, AbortCopy, Fail, Goto
  <2>2. next \in Disks /\ next >= next
    BY <2>1, LoopTypes DEF InDisk
  <2>3. image[next] = Missing
    BY <2>1, <2>2 DEF NamesInv
  <2> QED BY <2>1, <2>3 DEF PartialInv
<1>8. CASE RenameCopy
  <2>1. pc = "rename"
    BY <1>8 DEF RenameCopy
  <2>2. CASE AbortCopy(partial)
    BY <2>1, <2>2 DEF AbortCopy, PartialInv
  <2>3. CASE ~AbortCopy(partial)
    BY <1>2, <1>8, <2>3 DEF RenameCopy
  <2> QED BY <2>2, <2>3
<1>9. CASE UNCHANGED vars
  BY <1>9 DEF vars, PartialInv
<1> QED BY <1>4, <1>5, <1>6, <1>7, <1>8, <1>9 DEF Next, Step, Ended

(* NothingLeft: a partial file is only where its disk is still with        *)
(* virt-v2v, and one that stays is of a backend that failed; after success *)
(* no disk is left where virt-v2v wrote it, also where it was copied.      *)
THEOREM NothingLeftBehind == Spec => []NothingLeft
<1>1. Init => PartialInv
  BY DEF Init, PartialInv
<1>2. Spec => []PartialInv
  BY <1>1, PartialKept, OrderInvariance, PTL DEF Spec
<1>3. Inv /\ PartialInv => NothingLeft
  <2> SUFFICES ASSUME Inv, PartialInv, pc = "done", NEW k \in DOMAIN disks
               PROVE  files[disks[k]] = "absent"
    BY DEF NothingLeft, PartialInv
  <2>1. k \in 1..Len(disks) /\ k < next
    BY LoopTypes, LenProperties DEF Inv, LoopInv
  <2> QED BY <2>1 DEF Inv, BeforeInv
<1> QED BY <1>2, <1>3, Invariance, PTL

(* When the backend succeeds all that is left are sound disks.             *)
THEOREM SoundOrNothing == Spec => []SoundDisksOnly
  BY ReportedDisksSound, NothingLeftBehind, PTL DEF SoundDisksOnly

(* SourceReported: where the domain has the disks of the OVF in their      *)
(* order each is reported as the one it is, whatever is between them.      *)
THEOREM DisksReportedTruly == Spec => []SourceReported
<1>1. Inv /\ OrderInv /\ NamesInv => SourceReported
  <2> SUFFICES ASSUME Inv, OrderInv, pc = "done",
                      \A n \in DisksOfDomain : domain[n].file = Cardinality(DisksTo(n)),
                      NEW k \in DOMAIN result
               PROVE  result[k].file = k /\ result[k].ovf = k
    BY DEF SourceReported
  <2>1. Placed(Len(domain)) /\ ReportInv
    BY DEF OrderInv, Moving
  <2>2. /\ result \in Seq([file : Files, ovf : 0..NumAttached]) /\ next \in Nat
        /\ next <= Len(disks) + 1 /\ Len(disks) \in Nat
    BY LoopTypes DEF Inv, TypeOK, LoopInv
  <2>3. k \in 1..Len(result) /\ k \in 1..Len(disks) /\ k \in Nat
    BY <2>1, <2>2 DEF ReportInv
  <2>4. result[k] = [file |-> disks[k], ovf |-> IF k <= NumAttached THEN k ELSE 0]
    BY <2>1, <2>3 DEF ReportInv
  <2>5. disks[k] = k
    BY <2>1, <2>3 DEF Placed, DisksOfDomain
  <2>6. k <= NumAttached
    <3>1. k \in Files
      BY <2>3, <2>5, LoopTypes
    <3> QED BY <2>3, <3>1, VirtV2VConversionAssumption DEF Files
  <2> QED BY <2>4, <2>5, <2>6
<1> QED BY <1>1, OrderInvariance, PTL
-----------------------------------------------------------------------------
(* The refinement *)

Wanted == Cardinality(DisksOfDomain)

Under(k) ==
  IF image[k] = Missing THEN Missing
  ELSE IF /\ image[k].whole
          /\ \E n \in DisksOfDomain : /\ Cardinality(DisksTo(n)) = k
                                      /\ domain[n].file = image[k].file
  THEN k ELSE 0

Outcome == IF pc \in {"done", "failed"} THEN pc ELSE "running"

LEMMA WantedType == Inv => DisksTo(Len(domain)) = DisksOfDomain /\ Wanted \in 0..MaxDisks
<1> SUFFICES ASSUME Inv PROVE Wanted \in 0..MaxDisks
  BY DEF DisksOfDomain
<1>1. Len(domain) \in 0..MaxDisks /\ MaxDisks \in Nat
  BY DomainType, VirtV2VConversionAssumption DEF Inv
<1>2. Cardinality(DisksTo(Len(domain))) \in 0..Len(domain)
  BY <1>1, OneDiskMore
<1> QED BY <1>1, <1>2 DEF Wanted, DisksOfDomain

(* Each of the disks that have been read is wanted, in its place.          *)
LEMMA PlaceWanted ==
  ASSUME Inv, OrderInv, pc \in Moving, NEW k \in 1..Len(disks)
  PROVE  /\ k \in Disks /\ k <= Wanted
         /\ \E n \in DisksOfDomain : Cardinality(DisksTo(n)) = k /\ domain[n].file = disks[k]
<1>1. Placed(Len(domain)) /\ Len(disks) = Wanted
  BY DEF OrderInv, Placed, Wanted, DisksOfDomain
<1>2. Wanted \in Nat /\ MaxDisks \in Nat /\ Wanted <= MaxDisks
  BY WantedType, VirtV2VConversionAssumption
<1>3. k \in Disks /\ k <= Wanted
  BY <1>1, <1>2 DEF Disks
<1> QED BY <1>1, <1>3 DEF Placed, DisksOfDomain

LEMMA FiledIsWanted ==
  ASSUME Inv, OrderInv, pc \in Moving, NEW k \in 1..Len(disks), Filed(k)
  PROVE  Under(k) = k
<1>1. image[k] # Missing /\ image[k].whole /\ image[k].file = disks[k]
  BY VirtV2VConversionAssumption DEF Filed
<1> QED BY <1>1, PlaceWanted DEF Under

(* The directory when a disk is next, and when all have been.              *)
LEMMA DirectoryFilled ==
  ASSUME Inv, OrderInv, NamesInv, pc \in {"move", "copy", "rename", "done"}
  PROVE  \A k \in Disks : Under(k) = IF k < next THEN k ELSE Missing
<1> SUFFICES ASSUME NEW k \in Disks PROVE Under(k) = IF k < next THEN k ELSE Missing
  OBVIOUS
<1>1. k \in Nat \ {0} /\ next \in Nat /\ Len(disks) \in Nat /\ next <= Len(disks) + 1
  BY LoopTypes DEF Disks, Inv, LoopInv, InDisk
<1>2. CASE k < next
  <2>1. k \in 1..Len(disks)
    BY <1>1, <1>2
  <2>2. Filed(k)
    BY <1>2, <2>1 DEF Inv, BeforeInv, InDisk
  <2> QED BY <1>2, <2>1, <2>2, FiledIsWanted DEF Moving, InDisk
<1>3. CASE ~(k < next)
  <2>1. image[k] = Missing
    BY <1>1, <1>3 DEF NamesInv
  <2> QED BY <1>3, <2>1 DEF Under
<1> QED BY <1>2, <1>3

LEMMA DirectoryUnchanged ==
  ASSUME UNCHANGED <<image, domain>>
  PROVE  Wanted' = Wanted /\ \A k : Under(k)' = Under(k)
BY DomainFixed DEF Under, Wanted

(* The move of a disk, or the rename of its copy, files it.                *)
LEMMA StepFiles ==
  ASSUME Inv, OrderInv, NamesInv, Inv',
         pc \in {"move", "rename"}, pc' \in {"chmod", "remove"}, next <= Len(disks),
         UNCHANGED <<domain, disks, next>>, \A k \in Disks : k # next => image'[k] = image[k]
  PROVE  /\ next \in Disks /\ next <= Wanted /\ Wanted' = Wanted
         /\ \A k \in Disks : Under(k) = IF k < next THEN k ELSE Missing
         /\ \A k \in Disks : Under(k)' = IF k = next THEN next ELSE Under(k)
<1>1. next \in Disks /\ next \in 1..Len(disks)
  BY LoopTypes DEF Disks, Inv, LoopInv, InDisk
<1>2. \A k \in Disks : Under(k) = IF k < next THEN k ELSE Missing
  BY DirectoryFilled
<1>3. Under(next)' = next /\ next <= Wanted /\ Wanted' = Wanted
  <2>1. Filed(next)'
    BY DEF Inv, CurrentInv
  <2>2. image'[next] # Missing /\ image'[next].whole /\ image'[next].file = disks[next]
    BY <2>1, VirtV2VConversionAssumption DEF Filed
  <2>3. /\ next <= Wanted
        /\ \E n \in DisksOfDomain :
             Cardinality(DisksTo(n)) = next /\ domain[n].file = disks[next]
    BY <1>1, PlaceWanted DEF Moving, InDisk
  <2>4. Under(next)' = next
    BY <2>2, <2>3, DomainFixed DEF Under
  <2>5. Wanted' = Wanted
    BY DomainFixed DEF Wanted
  <2> QED BY <2>3, <2>4, <2>5
<1>4. ASSUME NEW k \in Disks, k # next PROVE Under(k)' = Under(k)
  BY <1>4, DomainFixed DEF Under
<1> QED BY <1>1, <1>2, <1>3, <1>4

(* The backend implements the promise of ImageDirectory: the disks of the  *)
(* domain, whole, one after the other, by moves or by copies.              *)
THEOREM BackendImplementsDirectory == Spec => ImplementsDirectory
<1> DEFINE abstract == [k \in Disks |-> Under(k)]
           AllInv == Inv /\ OrderInv /\ NamesInv
<1>1. Init => Directory!Init
  <2> SUFFICES ASSUME Init PROVE Directory!Init
    OBVIOUS
  <2>1. Wanted \in 0..MaxDisks
    BY InitInv, WantedType
  <2>2. \A k \in Disks : Under(k) = Missing
    BY DEF Init, Under
  <2>3. abstract = [k \in Disks |-> Missing]
    BY <2>2
  <2>4. Outcome = "running"
    BY DEF Init, Outcome
  <2> QED BY <2>1, <2>3, <2>4 DEF Directory!Init, Directory!Disks, Disks, Under, Wanted, Outcome
<1>2. AllInv /\ AllInv' /\ [Next]_vars => [Directory!Next]_<<Wanted, abstract, Outcome>>
  <2> SUFFICES ASSUME AllInv, AllInv', [Next]_vars
               PROVE  [Directory!Next]_<<Wanted, abstract, Outcome>>
    OBVIOUS
  <2>0. Directory!Disks = Disks
    BY DEF Directory!Disks, Disks
  <2>1. CASE /\ pc \in {"move", "rename"} /\ pc' \in {"chmod", "remove"}
             /\ Move \/ RenameCopy
    <3>1. /\ UNCHANGED <<domain, disks, next>> /\ next <= Len(disks)
          /\ \A k \in Disks : k # next => image'[k] = image[k]
      <4>1. pc \in {"move", "rename"} /\ (pc = "rename" => next <= Len(disks))
        BY <2>1 DEF Inv, LoopInv, InDisk
      <4> QED BY <2>1, <4>1 DEF Move, RenameCopy, AbortCopy, Goto, Fail, external, Inv, TypeOK
    <3>2. PICK d \in Disks : d = next
      BY <2>1, <3>1, StepFiles
    <3>3. /\ d <= Wanted /\ Wanted' = Wanted
          /\ \A k \in Disks : Under(k) = IF k < d THEN k ELSE Missing
          /\ \A k \in Disks : Under(k)' = IF k = d THEN d ELSE Under(k)
      BY <2>1, <3>1, <3>2, StepFiles
    <3>4. abstract' = [abstract EXCEPT ![d] = d]
      BY <3>3
    <3>5. Outcome = "running" /\ Outcome' = "running"
      BY <2>1 DEF Outcome
    <3>6. Directory!File(d)
      BY <2>0, <3>3, <3>4, <3>5 DEF Directory!File, Under, Outcome, Wanted
    <3> QED BY <2>0, <3>6 DEF Directory!Next
  <2>2. CASE Return
    <3>1. pc = "move" /\ pc' = "done" /\ next > Len(disks) /\ UNCHANGED <<image, domain>>
      BY <2>2 DEF Return, Goto, external
    <3>2. /\ disks # <<>> /\ Len(disks) = Wanted /\ disks \in Seq(Files) /\ Len(disks) \in Nat
          /\ next \in Nat /\ next <= Len(disks) + 1
      BY <3>1, LoopTypes DEF OrderInv, Moving, Placed, Wanted, DisksOfDomain, Inv, LoopInv
    <3>3. Wanted > 0 /\ next = Wanted + 1 /\ Wanted \in Nat
      BY <3>1, <3>2
    <3>4. \A k \in Disks : Under(k) = IF k <= Wanted THEN k ELSE Missing
      <4>1. \A k \in Disks : k \in Nat /\ (k < next <=> k <= Wanted)
        BY <3>3 DEF Disks
      <4> QED BY <3>1, <4>1, DirectoryFilled
    <3>5. Outcome = "running" /\ Outcome' = "done"
      BY <3>1 DEF Outcome
    <3>6. Wanted' = Wanted /\ abstract' = abstract
      BY <3>1, DirectoryUnchanged
    <3>7. Directory!Succeed
      BY <2>0, <3>3, <3>4, <3>5, <3>6 DEF Directory!Succeed, Under, Outcome, Wanted
    <3> QED BY <3>7 DEF Directory!Next
  <2>3. CASE pc' = "failed" /\ UNCHANGED <<image, domain>> /\ pc \notin {"done", "failed"}
    <3>1. Outcome = "running" /\ Outcome' = "failed"
      BY <2>3 DEF Outcome
    <3>2. Wanted' = Wanted /\ abstract' = abstract
      BY <2>3, DirectoryUnchanged
    <3>3. Directory!Fail
      BY <3>1, <3>2 DEF Directory!Fail, Under, Outcome, Wanted
    <3> QED BY <3>3 DEF Directory!Next
  <2>4. CASE UNCHANGED <<image, domain>> /\ Outcome' = Outcome
    BY <2>4, DirectoryUnchanged
  <2>5. \/ pc \in {"move", "rename"} /\ pc' \in {"chmod", "remove"} /\ (Move \/ RenameCopy)
        \/ Return
        \/ pc' = "failed" /\ UNCHANGED <<image, domain>> /\ pc \notin {"done", "failed"}
        \/ UNCHANGED <<image, domain>> /\ Outcome' = Outcome
    BY DEF Next, Step, Ended, vars, Look, Run, ChooseXML, ReadElement, EndOfElements, Move, Chmod,
           Copy, AbortCopy, RenameCopy, RemoveSource, Check, Fail, Goto, external, Outcome
  <2> QED BY <2>1, <2>2, <2>3, <2>4, <2>5
<1> QED
  BY <1>1, <1>2, OrderInvariance, PTL
     DEF Spec, ImplementsDirectory, Directory!Spec, Under, Outcome, Wanted
=============================================================================
