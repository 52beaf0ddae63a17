--------------------------- MODULE OvfDisksProofs ---------------------------
(***************************************************************************)
(* Theorems about OvfDisks, for documents of any size.                     *)
(***************************************************************************)
EXTENDS OvfDisks, SequenceTheorems, WellFoundedInduction, TLAPS

(* Nothing is collected before the last item is read.                      *)
Reading ==
  pc \in {"files", "disks", "items"} => refs = <<>> /\ attached = <<>> /\ next = 1

(* A disk with a file has been defined.                                    *)
Defined == \A d \in DiskIDs : disks[d] # Undefined => d \in DefinedDisks

(* The bus of an instance is that of the last item that declares one.      *)
Declaring(instance) ==
  {i \in DOMAIN items : items[i].instance = instance /\ items[i].bus # "unknown"}

LastDeclared ==
  \A instance \in Instances :
    IF instance = NoInstance \/ Declaring(instance) = {}
    THEN controllers[instance] = "unknown"
    ELSE \E i \in Declaring(instance) :
           controllers[instance] = items[i].bus /\ \A h \in Declaring(instance) : h <= i

(* The references collected so far are those of the items passed.          *)
Collecting ==
  pc = "refs" =>
    /\ attached = <<>>
    /\ next <= Len(items) + 1
    /\ \A k \in DOMAIN refs : \E i \in named : i < next /\ refs[k] = ReferenceOf(i)
    /\ \A i \in named : i < next => \E k \in DOMAIN refs : refs[k] = ReferenceOf(i)

(* There is a reference for every disk the machine is to have, and none    *)
(* for any other.                                                          *)
Complete ==
  /\ \A k \in DOMAIN refs :
       IF named = {}
       THEN /\ refs[k].disk \in DefinedDisks
            /\ refs[k].controller = NoInstance /\ refs[k].sourceBus = "unknown"
       ELSE \E i \in named : refs[k] = ReferenceOf(i)
  /\ \A i \in named : \E k \in DOMAIN refs : refs[k] = ReferenceOf(i)
  /\ named = {} => \A d \in DefinedDisks : \E k \in DOMAIN refs : refs[k].disk = d

Sorting == pc = "sort" => attached = <<>> /\ Complete

Sorted == \A j, k \in DOMAIN refs : j < k => ~Less(refs[k], refs[j])

(* Every reference passed has its disk attached, by the first reference to *)
(* it.                                                                     *)
Attaching ==
  pc \in {"attach", "done"} =>
    /\ Complete
    /\ Sorted
    /\ next <= Len(refs) + 1
    /\ \A j \in DOMAIN attached : \E k \in 1..(next - 1) : attached[j] = refs[k]
    /\ \A k \in 1..(next - 1) : Seen(refs[k].disk)
    /\ \A k \in DOMAIN attached : \A j \in 1..k : \A h \in DOMAIN refs :
         refs[h].disk = attached[k].disk => ~Less(refs[h], attached[j])

AllPassed == pc = "done" => next > Len(refs) /\ attached # <<>>

AttachedUsable == \A k \in DOMAIN attached : Usable(attached[k].disk)

DisksInv ==
  /\ TypeOK /\ Reading /\ Defined /\ LastDeclared /\ Collecting /\ Sorting
  /\ Attaching /\ AllPassed /\ AttachedOnce /\ AttachedUsable /\ RefusedWithReason
-----------------------------------------------------------------------------
(* NaturalLess orders names as words are ordered, run by run.  Two runs    *)
(* are the same to it, or one of them is before the other.                 *)
FitRuns == {r \in Runs : r.digits => r.value # NotANumber}

FitNames == {s \in Seq(Runs) : FitsInt(s)}

Before(r, t) ==
  /\ Differs(r, t)
  /\ IF Numbers(r, t) THEN r.value < t.value ELSE r.text < t.text

(* The two names are the same up to run i - 1, and there a comes to its    *)
(* end or has the run that is before that of b.                            *)
Decides(a, b, i) ==
  /\ i \in 1..Len(b)
  /\ \A j \in 1..(i - 1) : j <= Len(a) /\ ~Differs(a[j], b[j])
  /\ \/ i = Len(a) + 1
     \/ i <= Len(a) /\ Before(a[i], b[i])

LEMMA LeastNatural ==
  ASSUME NEW S \in SUBSET Nat, S # {}
  PROVE  \E n \in S : \A m \in S : n <= m
  <1> DEFINE Smaller == {p \in Nat \X Nat : p[1] < p[2]}
  <1>1. IsWellFoundedOn(Smaller, Nat)
    BY NatLessThanWellFounded DEF OpToRel
  <1>2. PICK n \in S : \A m \in S : <<m, n>> \notin Smaller
    <2> HIDE DEF Smaller
    <2>1. QED
      BY <1>1, WFMin
  <1>3. ASSUME NEW m \in S PROVE n <= m
    <2>1. <<m, n>> \in Nat \X Nat /\ <<m, n>>[1] = m /\ <<m, n>>[2] = n
      OBVIOUS
    <2>2. ~(m < n)
      BY <1>2, <2>1
    <2>3. QED
      BY <2>2
  <1>4. QED
    BY <1>3

(* Before is a strict weak order on runs, and the runs it does not tell    *)
(* apart are those that do not differ.                                     *)
LEMMA RunsOrdered ==
  ASSUME NEW r \in FitRuns, NEW t \in FitRuns, NEW u \in FitRuns
  PROVE  /\ ~Differs(r, r)
         /\ Differs(r, t) <=> Differs(t, r)
         /\ Differs(r, t) => Before(r, t) \/ Before(t, r)
         /\ ~(Before(r, t) /\ Before(t, r))
         /\ ~Differs(r, t) /\ ~Differs(t, u) => ~Differs(r, u)
         /\ ~Differs(r, t) /\ Before(t, u) => Before(r, u)
         /\ Before(r, t) /\ ~Differs(t, u) => Before(r, u)
         /\ Before(r, t) /\ Before(t, u) => Before(r, u)
  <1> DEFINE Kind(x) == x.digits <=> x.value # NotANumber
             Apart(x, y) == x.digits # y.digits => x.text # y.text
  <1>1. ASSUME NEW x \in FitRuns
        PROVE  /\ x.digits \in BOOLEAN /\ x.text \in Nat
               /\ x.value \in Nat \union {NotANumber} /\ Kind(x)
    BY NaturalOrderAssumption DEF FitRuns, Run
  <1>2. ASSUME NEW x \in FitRuns, NEW y \in FitRuns PROVE Apart(x, y)
    BY NaturalOrderAssumption, <1>1 DEF FitRuns
  <1>3. ASSUME NEW x \in FitRuns, NEW y \in FitRuns, NEW z \in FitRuns,
               x.digits, ~y.digits, z.digits
        PROVE  y.text < x.text <=> y.text < z.text
    BY NaturalOrderAssumption, <1>3 DEF FitRuns
  <1>4. ASSUME NEW x \in FitRuns, NEW y \in FitRuns
        PROVE  Numbers(x, y) <=> x.digits /\ y.digits
    BY <1>1 DEF Numbers
  <1>5. NotANumber \in Int
    BY DEF NotANumber
  <1>6. QED
    BY <1>1, <1>2, <1>3, <1>4, <1>5 DEF Differs, Before

(* Every run of a name that fits is one that fits.                         *)
LEMMA FitNameRuns ==
  ASSUME NEW s \in FitNames
  PROVE  /\ Len(s) \in Nat /\ DOMAIN s = 1..Len(s)
         /\ \A j \in 1..Len(s) : s[j] \in FitRuns
  BY DEF FitNames, FitsInt, FitRuns

(* What the loop of NaturalLess comes to.                                  *)
LEMMA LessDecided ==
  ASSUME NEW a \in FitNames, NEW b \in FitNames
  PROVE  NaturalLess(a, b) <=> \E i \in Nat : Decides(a, b, i)
  <1> DEFINE both == DOMAIN a \intersect DOMAIN b
             differs == {i \in both : Differs(a[i], b[i])}
  <1>1. /\ Len(a) \in Nat /\ DOMAIN a = 1..Len(a)
        /\ Len(b) \in Nat /\ DOMAIN b = 1..Len(b)
    BY FitNameRuns
  <1>2. ASSUME NaturalLess(a, b) PROVE \E i \in Nat : Decides(a, b, i)
    <2>1. CASE differs = {}
      <3>1. Len(a) < Len(b)
        BY <1>2, <2>1 DEF NaturalLess
      <3>2. Decides(a, b, Len(a) + 1)
        BY <1>1, <2>1, <3>1 DEF Decides
      <3>3. QED
        BY <1>1, <3>2
    <2>2. CASE differs # {}
      <3>1. PICK i \in differs :
              /\ \A j \in differs : i <= j
              /\ IF Numbers(a[i], b[i]) THEN a[i].value < b[i].value
                                        ELSE a[i].text < b[i].text
        BY <1>2, <2>2 DEF NaturalLess
      <3>2. Decides(a, b, i)
        BY <1>1, <3>1 DEF Decides, Before
      <3>3. QED
        BY <1>1, <3>2
    <2>3. QED
      BY <2>1, <2>2
  <1>3. ASSUME NEW i \in Nat, Decides(a, b, i) PROVE NaturalLess(a, b)
    <2>1. i \in 1..Len(b) /\ \A j \in 1..(i - 1) : j \in both /\ ~Differs(a[j], b[j])
      BY <1>1, <1>3 DEF Decides
    <2>2. CASE i = Len(a) + 1
      <3>1. differs = {} /\ Len(a) < Len(b)
        BY <1>1, <2>1, <2>2
      <3>2. QED
        BY <3>1 DEF NaturalLess
    <2>3. CASE i <= Len(a) /\ Before(a[i], b[i])
      <3>1. i \in differs /\ \A j \in differs : i <= j
        BY <1>1, <2>1, <2>3 DEF Before
      <3>2. QED
        BY <2>3, <3>1 DEF NaturalLess, Before
    <2>4. QED
      BY <1>3, <2>2, <2>3 DEF Decides
  <1>4. QED
    BY <1>2, <1>3

LEMMA LessAsymmetric ==
  ASSUME NEW a \in FitNames, NEW b \in FitNames, NaturalLess(a, b)
  PROVE  ~NaturalLess(b, a)
  <1>1. SUFFICES ASSUME NaturalLess(b, a) PROVE FALSE
    OBVIOUS
  <1>2. PICK i \in Nat : Decides(a, b, i)
    BY LessDecided
  <1>3. PICK k \in Nat : Decides(b, a, k)
    BY <1>1, LessDecided
  <1>4. /\ Len(a) \in Nat /\ Len(b) \in Nat
        /\ \A j \in 1..Len(a) : a[j] \in FitRuns
        /\ \A j \in 1..Len(b) : b[j] \in FitRuns
    BY FitNameRuns
  <1>5. i \in 1..Len(b) /\ k \in 1..Len(a)
    BY <1>2, <1>3 DEF Decides
  <1>6. CASE i < k
    <2>1. i <= Len(b) /\ i <= Len(a) /\ ~Differs(b[i], a[i]) /\ Before(a[i], b[i])
      BY <1>2, <1>3, <1>4, <1>5, <1>6 DEF Decides
    <2>2. a[i] \in FitRuns /\ b[i] \in FitRuns
      BY <1>4, <1>5, <2>1
    <2>3. QED
      BY <2>1, <2>2, RunsOrdered DEF Before
  <1>7. CASE k < i
    <2>1. k <= Len(b) /\ k <= Len(a) /\ ~Differs(a[k], b[k]) /\ Before(b[k], a[k])
      BY <1>2, <1>3, <1>4, <1>5, <1>7 DEF Decides
    <2>2. a[k] \in FitRuns /\ b[k] \in FitRuns
      BY <1>4, <1>5, <2>1
    <2>3. QED
      BY <2>1, <2>2, RunsOrdered DEF Before
  <1>8. CASE i = k
    <2>1. i <= Len(a) /\ i <= Len(b) /\ Before(a[i], b[i]) /\ Before(b[i], a[i])
      BY <1>2, <1>3, <1>4, <1>5, <1>8 DEF Decides
    <2>2. a[i] \in FitRuns /\ b[i] \in FitRuns
      BY <1>4, <1>5, <2>1
    <2>3. QED
      BY <2>1, <2>2, RunsOrdered
  <1>9. QED
    BY <1>6, <1>7, <1>8

(* Of two names of which one is less, a third is more than that one or     *)
(* less than the other.  It is decided where it first departs from a.      *)
LEMMA LessSeparates ==
  ASSUME NEW a \in FitNames, NEW b \in FitNames, NEW c \in FitNames, NaturalLess(a, b)
  PROVE  NaturalLess(a, c) \/ NaturalLess(c, b)
  <1>1. PICK i \in Nat : Decides(a, b, i)
    BY LessDecided
  <1>2. /\ Len(a) \in Nat /\ Len(b) \in Nat /\ Len(c) \in Nat
        /\ \A j \in 1..Len(a) : a[j] \in FitRuns
        /\ \A j \in 1..Len(b) : b[j] \in FitRuns
        /\ \A j \in 1..Len(c) : c[j] \in FitRuns
    BY FitNameRuns
  <1>3. i \in 1..Len(b) /\ i <= Len(a) + 1
    BY <1>1, <1>2 DEF Decides
  <1> DEFINE Departs == {j \in 1..i : j > Len(c) \/ j > Len(a) \/ Differs(a[j], c[j])}
  <1>4. CASE Departs = {}
    <2>1. \A j \in 1..i : j <= Len(c) /\ j <= Len(a) /\ ~Differs(a[j], c[j])
      BY <1>2, <1>4
    <2>2. Before(a[i], b[i])
      BY <1>1, <1>2, <1>3, <2>1 DEF Decides
    <2>3. ASSUME NEW j \in 1..i
          PROVE  a[j] \in FitRuns /\ b[j] \in FitRuns /\ c[j] \in FitRuns
      BY <1>2, <1>3, <2>1
    <2>4. \A j \in 1..i : ~Differs(c[j], a[j])
      BY <2>1, <2>3, RunsOrdered
    <2>5. Before(c[i], b[i])
      BY <1>3, <2>2, <2>3, <2>4, RunsOrdered
    <2>6. ASSUME NEW j \in 1..(i - 1) PROVE ~Differs(c[j], b[j])
      <3>1. ~Differs(a[j], b[j]) /\ j \in 1..i
        BY <1>1 DEF Decides
      <3>2. QED
        BY <2>3, <2>4, <3>1, RunsOrdered
    <2>7. Decides(c, b, i)
      BY <1>2, <1>3, <2>1, <2>5, <2>6 DEF Decides
    <2>8. QED
      BY <2>7, LessDecided
  <1>5. CASE Departs # {}
    <2>1. PICK m \in Departs : \A j \in Departs : m <= j
      <3>1. Departs \in SUBSET Nat
        OBVIOUS
      <3> HIDE DEF Departs
      <3>2. QED
        BY <1>5, <3>1, LeastNatural
    <2>2. m \in 1..i /\ m \in 1..Len(b) /\ m \in Nat
      BY <1>2, <1>3, <2>1
    <2>3. ASSUME NEW j \in 1..(m - 1)
          PROVE  /\ j <= Len(a) /\ j <= Len(c) /\ ~Differs(a[j], c[j])
                 /\ ~Differs(a[j], b[j]) /\ ~Differs(c[j], b[j])
      <3>1. j \in 1..i /\ j \notin Departs /\ j \in Nat
        <4>1. j \in 1..i /\ j \in Nat /\ ~(m <= j)
          BY <2>2
        <4> HIDE DEF Departs
        <4>2. QED
          BY <2>1, <4>1
      <3>2. j <= Len(a) /\ j <= Len(c) /\ ~Differs(a[j], c[j])
        BY <1>2, <3>1
      <3>3. ~Differs(a[j], b[j])
        BY <1>1, <2>2, <3>1 DEF Decides
      <3>4. a[j] \in FitRuns /\ b[j] \in FitRuns /\ c[j] \in FitRuns
        BY <1>2, <1>3, <3>1, <3>2
      <3>5. QED
        BY <3>2, <3>3, <3>4, RunsOrdered
    <2>4. CASE m > Len(c)
      <3>1. m = Len(c) + 1
        <4>1. m - 1 \in 1..(m - 1) => m - 1 <= Len(c)
          BY <2>3
        <4>2. QED
          BY <1>2, <2>2, <2>4, <4>1
      <3>2. Decides(c, b, m)
        BY <2>2, <2>3, <3>1 DEF Decides
      <3>3. QED
        BY <2>2, <3>2, LessDecided
    <2>5. CASE m <= Len(c) /\ m > Len(a)
      <3>1. m = Len(a) + 1
        BY <1>2, <1>3, <2>2, <2>5
      <3>2. Decides(a, c, m)
        BY <1>2, <2>2, <2>3, <2>5, <3>1 DEF Decides
      <3>3. QED
        BY <2>2, <3>2, LessDecided
    <2>6. CASE m <= Len(c) /\ m <= Len(a)
      <3>1. Differs(a[m], c[m])
        BY <1>2, <2>1, <2>2, <2>6
      <3>2. a[m] \in FitRuns /\ b[m] \in FitRuns /\ c[m] \in FitRuns
        BY <1>2, <2>2, <2>6
      <3>3. CASE Before(a[m], c[m])
        <4>1. Decides(a, c, m)
          BY <1>2, <2>2, <2>3, <2>6, <3>3 DEF Decides
        <4>2. QED
          BY <2>2, <4>1, LessDecided
      <3>4. CASE Before(c[m], a[m])
        <4>1. ~Differs(a[m], b[m]) \/ Before(a[m], b[m])
          BY <1>1, <1>2, <2>2, <2>6 DEF Decides
        <4>2. Before(c[m], b[m])
          BY <3>2, <3>4, <4>1, RunsOrdered
        <4>3. Decides(c, b, m)
          BY <1>2, <2>2, <2>3, <2>6, <4>2 DEF Decides
        <4>4. QED
          BY <2>2, <4>3, LessDecided
      <3>5. QED
        BY <3>1, <3>2, <3>3, <3>4, RunsOrdered
    <2>7. QED
      BY <1>2, <2>2, <2>4, <2>5, <2>6
  <1>6. QED
    BY <1>4, <1>5

(* So NaturalLess is a strict weak order, on names of any length.          *)
LEMMA NamesWeaklyOrdered == StrictWeakOn(FitNames)
  <1>1. ASSUME NEW s \in FitNames PROVE ~NaturalLess(s, s)
    BY LessAsymmetric
  <1>2. ASSUME NEW s \in FitNames, NEW t \in FitNames, NEW u \in FitNames,
               NaturalLess(s, t)
        PROVE  /\ NaturalLess(t, u) => NaturalLess(s, u)
               /\ NaturalLess(s, u) \/ NaturalLess(u, t)
    BY <1>2, LessAsymmetric, LessSeparates
  <1>3. QED
    BY <1>1, <1>2 DEF StrictWeakOn
-----------------------------------------------------------------------------
(* What ReferenceOf makes of a disk item is a reference.                   *)
LEMMA ReferenceTyped ==
  ASSUME TypeOK, NEW i \in named
  PROVE  ReferenceOf(i) \in Reference
  <1>1. i \in Nat \ {0} /\ items[i] \in Items
    BY DEF named, TypeOK
  <1>2. items[i] \in HardwareItem
    BY <1>1, OvfDisksAssumption
  <1>3. items[i].disk \in DiskIDs
    BY <1>2 DEF named, IsReference, HardwareItem
  <1>4. /\ items[i].parent \in Instances
        /\ items[i].address \in Nat \union {NoAddress}
    BY <1>2 DEF HardwareItem
  <1>5. Number[items[i].parent] \in Nat /\ controllers[items[i].parent] \in Buses
    BY <1>4, OvfDisksAssumption DEF TypeOK
  <1>6. QED
    BY <1>1, <1>3, <1>4, <1>5 DEF ReferenceOf, Reference, NoAddress

(* Less orders by two numbers, then by name.                               *)
LEMMA LessIrreflexive ==
  ASSUME NEW r \in Reference
  PROVE  ~Less(r, r)
  <1>1. Name[r.disk] \in FitNames
    BY OvfDisksAssumption DEF Reference, FitNames
  <1>2. ~NaturalLess(Name[r.disk], Name[r.disk])
    BY <1>1, NamesWeaklyOrdered DEF StrictWeakOn
  <1>3. QED
    BY <1>2 DEF Less, Reference

LEMMA InitDisks == Init => DisksInv
  <1> SUFFICES ASSUME Init PROVE DisksInv
    OBVIOUS
  <1> USE OvfDisksAssumption DEF Init
  <1>1. TypeOK
    BY DEF TypeOK, Buses
  <1>2. LastDeclared
    BY DEF LastDeclared, Declaring
  <1>3. QED
    BY <1>1, <1>2 DEF DisksInv, Reading, Defined, Collecting, Sorting, Attaching,
       AllPassed, AttachedOnce, AttachedUsable, RefusedWithReason, Undefined

LEMMA TypePreserved == TypeOK /\ [Next]_vars => TypeOK'
  <1> SUFFICES ASSUME TypeOK, [Next]_vars PROVE TypeOK'
    OBVIOUS
  <1> USE OvfDisksAssumption DEF TypeOK
  <1>1. ASSUME NEW e \in FileElements, ReadFile(e) PROVE TypeOK'
    <2>1. files' \in [FileIDs -> Hrefs \union {Undefined}]
      BY <1>1 DEF ReadFile, FileIDs
    <2>2. QED
      BY <1>1, <2>1 DEF ReadFile, inputs
  <1>2. ASSUME NEW e \in DiskElements, ReadDisk(e) PROVE TypeOK'
    <2>1. disks' \in [DiskIDs -> FileIDs \union {Undefined}]
      BY <1>2 DEF ReadDisk, FileIDs
    <2>2. diskOrder' \in Seq(DiskIDs)
      BY <1>2 DEF ReadDisk
    <2>3. QED
      BY <1>2, <2>1, <2>2 DEF ReadDisk, inputs
  <1>3. ASSUME NEW item \in Items, ReadItem(item) PROVE TypeOK'
    <2>1. item.bus \in Buses
      BY DEF HardwareItem
    <2>2. controllers' \in [Instances -> Buses]
      BY <1>3, <2>1 DEF ReadItem, Controller
    <2>3. items' \in Seq(Items)
      BY <1>3 DEF ReadItem
    <2>4. QED
      BY <1>3, <2>2, <2>3 DEF ReadItem, inputs
  <1>4. CASE EndOfElements
    BY <1>4 DEF EndOfElements, document, inputs
  <1>5. CASE CollectRef
    <2>1. refs' \in Seq(Reference)
      <3>1. CASE IsReference(items[next])
        <4>1. next \in named
          BY <1>5, <3>1 DEF CollectRef, named
        <4>2. ReferenceOf(next) \in Reference
          BY <4>1, ReferenceTyped
        <4>3. QED
          BY <1>5, <3>1, <4>2 DEF CollectRef
      <3>2. CASE ~IsReference(items[next])
        BY <1>5, <3>2 DEF CollectRef
      <3>3. QED
        BY <3>1, <3>2
    <2>2. QED
      BY <1>5, <2>1 DEF CollectRef, document, inputs
  <1>6. CASE EndOfRefs
    <2>1. refs' \in Seq(Reference)
      <3>1. CASE refs # <<>>
        BY <1>6, <3>1 DEF EndOfRefs
      <3>2. CASE refs = <<>>
        <4>1. Len(diskOrder) \in Nat /\ DOMAIN diskOrder = 1..Len(diskOrder)
          OBVIOUS
        <4>2. refs' = [k \in 1..Len(diskOrder) |->
                         [parent |-> 0, address |-> k - 1, disk |-> diskOrder[k],
                          sourceBus |-> "unknown", controller |-> NoInstance]]
          BY <1>6, <3>2, <4>1 DEF EndOfRefs
        <4>3. \A k \in 1..Len(diskOrder) : refs'[k] \in Reference
          BY <4>2 DEF Reference, Buses
        <4>4. QED
          BY <4>1, <4>2, <4>3
      <3>3. QED
        BY <3>1, <3>2
    <2>2. QED
      BY <1>6, <2>1 DEF EndOfRefs, document, inputs
  <1>7. CASE SortRefs
    <2>1. PICK place \in Bijection(DOMAIN refs, DOMAIN refs) :
            refs' = [k \in DOMAIN refs |-> refs[place[k]]]
      BY <1>7 DEF SortRefs
    <2>2. place \in [DOMAIN refs -> DOMAIN refs]
      BY DEF Bijection, Injection
    <2>3. Len(refs) \in Nat /\ DOMAIN refs = 1..Len(refs)
      OBVIOUS
    <2>4. refs' \in Seq(Reference)
      BY <2>1, <2>2, <2>3
    <2>5. QED
      BY <1>7, <2>4 DEF SortRefs, document, inputs
  <1>8. CASE AttachRef
    <2>1. refs[next] \in Reference
      BY <1>8 DEF AttachRef
    <2>2. attached' = attached \/ attached' = Append(attached, refs[next])
      BY <1>8 DEF AttachRef
    <2>3. attached' \in Seq(Reference)
      <3>1. attached \in Seq(Reference)
        OBVIOUS
      <3>2. Append(attached, refs[next]) \in Seq(Reference)
        BY <3>1, <2>1, AppendProperties
      <3>3. QED
        BY <2>2, <3>1, <3>2
    <2>4. QED
      BY <1>8, <2>3 DEF AttachRef, document, inputs
  <1>9. CASE EndOfDisks
    BY <1>9 DEF EndOfDisks, document, inputs
  <1>10. CASE UNCHANGED vars
    BY <1>10 DEF vars, document, inputs
  <1>11. QED
    BY <1>1, <1>2, <1>3, <1>4, <1>5, <1>6, <1>7, <1>8, <1>9, <1>10 DEF Next, Ended

(* The part of the state a document consists of is fixed once it is read.  *)
LEMMA DocumentFixed ==
  ASSUME UNCHANGED document
  PROVE  /\ named' = named /\ DefinedDisks' = DefinedDisks /\ WantedDisks' = WantedDisks
         /\ \A i : ReferenceOf(i)' = ReferenceOf(i)
         /\ \A d : Usable(d)' = Usable(d)
         /\ Defined' = Defined /\ LastDeclared' = LastDeclared
  BY DEF document, inputs, named, DefinedDisks, WantedDisks, ReferenceOf, Usable, Defined,
     LastDeclared, Declaring

(* While elements are read there is nothing but the document.              *)
LEMMA WhileReading ==
  ASSUME Reading, pc \in {"files", "disks", "items"},
         pc' \in {"files", "disks", "items"}, UNCHANGED <<next, refs, attached>>
  PROVE  /\ Reading' /\ Collecting' /\ Sorting' /\ Attaching' /\ AllPassed'
         /\ AttachedOnce' /\ AttachedUsable' /\ RefusedWithReason'
  BY DEF Reading, Collecting, Sorting, Attaching, AllPassed, AttachedOnce,
     AttachedUsable, RefusedWithReason

LEMMA ReadFileStep ==
  ASSUME DisksInv, TypeOK', NEW e \in FileElements, ReadFile(e)
  PROVE  DisksInv'
  <1>1. Defined' /\ LastDeclared'
    BY DEF DisksInv, ReadFile, Defined, DefinedDisks, LastDeclared, Declaring
  <1>2. QED
    BY <1>1, WhileReading DEF DisksInv, ReadFile

LEMMA ReadDiskStep ==
  ASSUME DisksInv, TypeOK', NEW e \in DiskElements, ReadDisk(e)
  PROVE  DisksInv'
  <1>1. LastDeclared'
    BY DEF DisksInv, ReadDisk, LastDeclared, Declaring
  <1>2. Defined'
    <2>1. diskOrder \in Seq(DiskIDs) /\ disks \in [DiskIDs -> FileIDs \union {Undefined}]
      BY DEF DisksInv, TypeOK
    <2>2. e.disk \in DiskIDs
      BY OvfDisksAssumption
    <2>3. \A k \in DOMAIN diskOrder : k \in DOMAIN diskOrder' /\ diskOrder'[k] = diskOrder[k]
      BY <2>1, <2>2 DEF ReadDisk
    <2>4. \E k \in DOMAIN diskOrder' : diskOrder'[k] = e.disk
      <3>1. Len(diskOrder') = Len(diskOrder) + 1 /\ diskOrder'[Len(diskOrder) + 1] = e.disk
        BY <2>1, <2>2 DEF ReadDisk
      <3>2. Len(diskOrder) + 1 \in DOMAIN diskOrder'
        BY <2>1, <2>2, <3>1 DEF ReadDisk
      <3>3. QED
        BY <3>1, <3>2
    <2>5. \A d \in DiskIDs : d # e.disk => disks'[d] = disks[d]
      BY <2>1 DEF ReadDisk
    <2>6. QED
      BY <2>3, <2>4, <2>5 DEF DisksInv, Defined, DefinedDisks
  <1>3. QED
    BY <1>1, <1>2, WhileReading DEF DisksInv, ReadDisk

LEMMA ReadItemStep ==
  ASSUME DisksInv, TypeOK', NEW item \in Items, ReadItem(item)
  PROVE  DisksInv'
  <1>1. Defined'
    BY DEF DisksInv, ReadItem, Defined, DefinedDisks
  <1>2. LastDeclared'
    <2> DEFINE n == Len(items) + 1
    <2>1. /\ items \in Seq(Items) /\ controllers \in [Instances -> Buses]
          /\ item \in HardwareItem
      BY OvfDisksAssumption DEF DisksInv, TypeOK
    <2>2. /\ item.instance \in Instances /\ item.bus \in Buses
          /\ Len(items) \in Nat /\ n \in Nat
      BY <2>1 DEF HardwareItem
    <2>3. /\ DOMAIN items = 1..(n - 1) /\ DOMAIN items' = 1..n /\ items'[n] = item
          /\ \A i \in 1..(n - 1) : items'[i] = items[i]
      BY <2>1 DEF ReadItem
    <2>4. SUFFICES ASSUME NEW instance \in Instances
                   PROVE  IF instance = NoInstance \/ Declaring(instance)' = {}
                          THEN controllers'[instance] = "unknown"
                          ELSE \E i \in Declaring(instance)' :
                                 /\ controllers'[instance] = items'[i].bus
                                 /\ \A h \in Declaring(instance)' : h <= i
      BY DEF LastDeclared
    <2>5. CASE instance # NoInstance /\ item.instance = instance /\ item.bus # "unknown"
      <3>1. n \in Declaring(instance)' /\ \A h \in Declaring(instance)' : h <= n
        BY <2>3, <2>2, <2>5 DEF Declaring
      <3>2. controllers'[instance] = item.bus
        BY <2>1, <2>2, <2>5 DEF ReadItem, Controller
      <3>3. QED
        BY <3>1, <3>2, <2>3, <2>5
    <2>6. CASE instance = NoInstance
      BY <2>1, <2>6 DEF ReadItem, Controller, DisksInv, LastDeclared
    <2>7. CASE instance # NoInstance /\ ~(item.instance = instance /\ item.bus # "unknown")
      <3>1. Declaring(instance)' = Declaring(instance)
        BY <2>2, <2>3, <2>7 DEF Declaring
      <3>2. controllers'[instance] = controllers[instance]
        BY <2>1, <2>2, <2>7 DEF ReadItem, Controller
      <3>3. \A i \in Declaring(instance) : items'[i] = items[i]
        BY <2>3 DEF Declaring
      <3>4. QED
        BY <3>1, <3>2, <3>3, <2>7 DEF DisksInv, LastDeclared
    <2>8. QED
      BY <2>5, <2>6, <2>7
  <1>3. QED
    BY <1>1, <1>2, WhileReading DEF DisksInv, ReadItem

LEMMA EndOfElementsStep ==
  ASSUME DisksInv, TypeOK', EndOfElements
  PROVE  DisksInv'
  <1>1. /\ Defined' /\ LastDeclared'
    BY DocumentFixed DEF DisksInv, EndOfElements
  <1>2. /\ refs = <<>> /\ attached = <<>> /\ next = 1
        /\ UNCHANGED <<document, next, refs, attached>>
        /\ pc' \in {"disks", "items", "failed", "refs"} /\ (pc' = "failed" => ~hardware)
    BY DEF DisksInv, EndOfElements, Reading
  <1>3. Len(items) \in Nat /\ items' = items /\ hardware' = hardware
    BY <1>2 DEF DisksInv, TypeOK, document, inputs
  <1>4. Collecting'
    <2>1. \A i \in named' : ~(i < 1)
      BY <1>3 DEF named, DisksInv, TypeOK
    <2>2. QED
      BY <1>2, <1>3, <2>1 DEF Collecting
  <1>5. Reading' /\ Sorting' /\ Attaching' /\ AllPassed' /\ AttachedOnce' /\ AttachedUsable'
    BY <1>2 DEF Reading, Sorting, Attaching, AllPassed, AttachedOnce, AttachedUsable
  <1>6. RefusedWithReason'
    BY <1>2, <1>3 DEF RefusedWithReason
  <1>7. QED
    BY <1>1, <1>4, <1>5, <1>6 DEF DisksInv

LEMMA CollectRefStep ==
  ASSUME DisksInv, TypeOK', CollectRef
  PROVE  DisksInv'
  <1>1. Defined' /\ LastDeclared' /\ named' = named /\ \A i : ReferenceOf(i)' = ReferenceOf(i)
    BY DocumentFixed DEF DisksInv, CollectRef
  <1>2. /\ refs \in Seq(Reference) /\ next \in Nat \ {0} /\ items' = items
        /\ next' = next + 1 /\ Len(items) \in Nat /\ pc = "refs" /\ pc' = "refs"
        /\ attached = <<>> /\ attached' = <<>> /\ next <= Len(items)
    BY DEF DisksInv, TypeOK, CollectRef, document, Collecting
  <1>3. Collecting'
    <2>1. CASE IsReference(items[next])
      <3>1. refs' = Append(refs, ReferenceOf(next)) /\ next \in named
        BY <2>1, <1>2 DEF CollectRef, named, DisksInv, TypeOK
      <3>2. ReferenceOf(next) \in Reference
        BY <3>1, ReferenceTyped DEF DisksInv
      <3>3. /\ DOMAIN refs = 1..Len(refs) /\ DOMAIN refs' = 1..(Len(refs) + 1)
            /\ \A k \in DOMAIN refs : refs'[k] = refs[k]
            /\ refs'[Len(refs) + 1] = ReferenceOf(next) /\ Len(refs) \in Nat
        BY <1>2, <3>1, <3>2
      <3>4. \A k \in DOMAIN refs' : \E i \in named : i < next' /\ refs'[k] = ReferenceOf(i)
        <4>1. \A k \in DOMAIN refs : \E i \in named : i < next' /\ refs'[k] = ReferenceOf(i)
          <5>1. TAKE k \in DOMAIN refs
          <5>2. PICK i \in named : i < next /\ refs[k] = ReferenceOf(i)
            BY <1>2 DEF DisksInv, Collecting
          <5>3. i \in Nat
            BY DEF named, DisksInv, TypeOK
          <5>4. QED
            BY <5>2, <5>3, <3>3, <1>2
        <4>2. QED
          BY <4>1, <3>1, <3>3, <1>2
      <3>5. \A i \in named : i < next' => \E k \in DOMAIN refs' : refs'[k] = ReferenceOf(i)
        <4>1. TAKE i \in named
        <4>2. HAVE i < next'
        <4>3. i \in Nat
          BY DEF named, DisksInv, TypeOK
        <4>4. CASE i = next
          BY <4>4, <3>3
        <4>5. CASE i < next
          <5>1. PICK k \in DOMAIN refs : refs[k] = ReferenceOf(i)
            BY <4>5, <1>2 DEF DisksInv, Collecting
          <5>2. QED
            BY <5>1, <3>3
        <4>6. QED
          BY <4>2, <4>3, <4>4, <4>5, <1>2
      <3>6. QED
        BY <3>4, <3>5, <1>1, <1>2 DEF Collecting
    <2>2. CASE ~IsReference(items[next])
      <3>1. refs' = refs /\ next \notin named
        BY <2>2 DEF CollectRef, named
      <3>2. \A i \in named : i \in Nat /\ (i < next' <=> i < next)
        BY <3>1, <1>2 DEF named, DisksInv, TypeOK
      <3>3. QED
        BY <3>1, <3>2, <1>1, <1>2 DEF DisksInv, Collecting
    <2>3. QED
      BY <2>1, <2>2
  <1>4. QED
    BY <1>1, <1>2, <1>3 DEF DisksInv, Reading, Sorting, Attaching, AllPassed, AttachedOnce,
       AttachedUsable, RefusedWithReason

LEMMA EndOfRefsStep ==
  ASSUME DisksInv, TypeOK', EndOfRefs
  PROVE  DisksInv'
  <1>1. /\ Defined' /\ LastDeclared' /\ named' = named /\ DefinedDisks' = DefinedDisks
        /\ \A i : ReferenceOf(i)' = ReferenceOf(i)
    BY DocumentFixed DEF DisksInv, EndOfRefs
  <1>2. /\ pc = "refs" /\ pc' = "sort" /\ attached = <<>> /\ attached' = <<>>
        /\ next \in Nat /\ Len(items) \in Nat /\ next > Len(items)
        /\ refs \in Seq(Reference) /\ diskOrder \in Seq(DiskIDs)
    BY DEF DisksInv, TypeOK, EndOfRefs, Collecting
  <1>3. \A i \in named : i < next
    BY <1>2 DEF named, DisksInv, TypeOK
  <1>4. Complete'
    <2>1. CASE refs # <<>>
      <3>1. refs' = refs /\ 1 \in DOMAIN refs
        BY <2>1, <1>2 DEF EndOfRefs
      <3>2. named # {}
        BY <3>1, <1>2 DEF DisksInv, Collecting
      <3>3. QED
        BY <3>1, <3>2, <1>1, <1>2, <1>3 DEF DisksInv, Collecting, Complete
    <2>2. CASE refs = <<>>
      <3>1. named = {}
        BY <2>2, <1>2, <1>3 DEF DisksInv, Collecting
      <3>2. /\ DOMAIN refs' = DOMAIN diskOrder
            /\ \A k \in DOMAIN diskOrder :
                 /\ refs'[k].disk = diskOrder[k] /\ refs'[k].controller = NoInstance
                 /\ refs'[k].sourceBus = "unknown"
        BY <2>2 DEF EndOfRefs
      <3>3. \A k \in DOMAIN diskOrder : diskOrder[k] \in DefinedDisks
        BY DEF DefinedDisks
      <3>4. \A d \in DefinedDisks : \E k \in DOMAIN diskOrder : diskOrder[k] = d
        BY DEF DefinedDisks
      <3>5. QED
        BY <3>1, <3>2, <3>3, <3>4, <1>1 DEF Complete
    <2>3. QED
      BY <2>1, <2>2
  <1>5. QED
    BY <1>1, <1>2, <1>4 DEF DisksInv, Reading, Collecting, Sorting, Attaching, AllPassed,
       AttachedOnce, AttachedUsable, RefusedWithReason

LEMMA SortRefsStep ==
  ASSUME DisksInv, TypeOK', SortRefs
  PROVE  DisksInv'
  <1>1. /\ Defined' /\ LastDeclared' /\ named' = named /\ DefinedDisks' = DefinedDisks
        /\ \A i : ReferenceOf(i)' = ReferenceOf(i)
    BY DocumentFixed DEF DisksInv, SortRefs
  <1>2. PICK place \in Bijection(DOMAIN refs, DOMAIN refs) :
          /\ refs' = [k \in DOMAIN refs |-> refs[place[k]]]
          /\ \A j, k \in DOMAIN refs : j < k => ~Less(refs'[k], refs'[j])
    BY DEF SortRefs
  <1>3. /\ place \in [DOMAIN refs -> DOMAIN refs]
        /\ \A k \in DOMAIN refs : \E j \in DOMAIN refs : place[j] = k
    BY DEF Bijection, Injection, Surjection
  <1>4. /\ pc = "sort" /\ pc' = "attach" /\ attached = <<>> /\ attached' = <<>>
        /\ next' = 1 /\ Complete
    BY DEF DisksInv, SortRefs, Sorting
  <1>5. DOMAIN refs' = DOMAIN refs
    BY <1>2
  <1>6. Complete'
    <2>1. \A k \in DOMAIN refs : \E j \in DOMAIN refs : refs'[k] = refs[j]
      BY <1>2, <1>3
    <2>2. \A k \in DOMAIN refs : \E j \in DOMAIN refs : refs'[j] = refs[k]
      BY <1>2, <1>3
    <2>3. CASE named = {}
      <3>1. \A k \in DOMAIN refs :
              /\ refs[k].disk \in DefinedDisks
              /\ refs[k].controller = NoInstance /\ refs[k].sourceBus = "unknown"
        BY <1>4, <2>3 DEF Complete
      <3>2. \A d \in DefinedDisks : \E k \in DOMAIN refs : refs[k].disk = d
        BY <1>4, <2>3 DEF Complete
      <3>3. \A d \in DefinedDisks : \E k \in DOMAIN refs : refs'[k].disk = d
        BY <3>2, <2>2
      <3>4. \A k \in DOMAIN refs :
              /\ refs'[k].disk \in DefinedDisks
              /\ refs'[k].controller = NoInstance /\ refs'[k].sourceBus = "unknown"
        BY <3>1, <2>1
      <3>5. QED
        BY <3>3, <3>4, <2>3, <1>1, <1>5 DEF Complete
    <2>4. CASE named # {}
      <3>1. \A k \in DOMAIN refs : \E i \in named : refs'[k] = ReferenceOf(i)
        BY <1>4, <2>1, <2>4 DEF Complete
      <3>2. \A i \in named : \E k \in DOMAIN refs : refs'[k] = ReferenceOf(i)
        BY <1>4, <2>2 DEF Complete
      <3>3. QED
        BY <3>1, <3>2, <2>4, <1>1, <1>5 DEF Complete
    <2>5. QED
      BY <2>3, <2>4
  <1>7. Sorted'
    BY <1>2, <1>5 DEF Sorted
  <1>8. Attaching'
    <2>1. Len(refs') \in Nat
      BY DEF TypeOK
    <2>2. QED
      BY <1>4, <1>6, <1>7, <2>1 DEF Attaching
  <1>9. QED
    BY <1>1, <1>4, <1>8 DEF DisksInv, Reading, Collecting, Sorting, AllPassed,
       AttachedOnce, AttachedUsable, RefusedWithReason

(* What a step of the last loop does to the disks attached so far.         *)
LEMMA AttachRefStep ==
  ASSUME DisksInv, TypeOK', AttachRef
  PROVE  DisksInv'
  <1>1. /\ Defined' /\ LastDeclared' /\ named' = named /\ DefinedDisks' = DefinedDisks
        /\ WantedDisks' = WantedDisks
        /\ \A i : ReferenceOf(i)' = ReferenceOf(i)
        /\ \A d : Usable(d)' = Usable(d)
        /\ hardware' = hardware
    BY DocumentFixed DEF DisksInv, AttachRef, document, inputs
  <1>2. /\ pc = "attach" /\ refs' = refs /\ refs \in Seq(Reference)
        /\ next \in Nat \ {0} /\ next <= Len(refs) /\ Len(refs) \in Nat
        /\ attached \in Seq(Reference) /\ Attaching /\ Complete /\ Sorted
        /\ Complete' /\ Sorted'
    <2>1. /\ pc = "attach" /\ refs' = refs /\ next <= Len(refs)
      BY DEF AttachRef
    <2>2. Attaching /\ Complete /\ Sorted
      BY <2>1 DEF DisksInv, Attaching
    <2>3. Complete' /\ Sorted'
      BY <1>1, <2>1, <2>2 DEF Complete, Sorted, Less
    <2>4. QED
      BY <2>1, <2>2, <2>3 DEF DisksInv, TypeOK
  <1>3. refs[next] \in Reference /\ next \in DOMAIN refs
    BY <1>2
  <1>4. refs[next].disk \in WantedDisks
    <2>1. CASE named = {}
      BY <2>1, <1>2, <1>3 DEF Complete, WantedDisks
    <2>2. CASE named # {}
      <3>1. PICK i \in named : refs[next] = ReferenceOf(i)
        BY <2>2, <1>2, <1>3 DEF Complete
      <3>2. refs[next].disk = items[i].disk
        BY <3>1 DEF ReferenceOf
      <3>3. QED
        BY <2>2, <3>2 DEF WantedDisks
    <2>3. QED
      BY <2>1, <2>2
  <1>5. CASE Seen(refs[next].disk)
    <2>1. next' = next + 1 /\ pc' = pc /\ attached' = attached
      BY <1>5 DEF AttachRef
    <2>2. Attaching'
      <3>1. \A j \in DOMAIN attached : \E k \in 1..(next' - 1) : attached[j] = refs[k]
        BY <2>1, <1>2 DEF Attaching
      <3>2. \A k \in 1..(next' - 1) : Seen(refs[k].disk)
        BY <1>5, <2>1, <1>2 DEF Attaching
      <3>3. \A k \in DOMAIN attached : \A j \in 1..k : \A h \in DOMAIN refs :
              refs[h].disk = attached[k].disk => ~Less(refs[h], attached[j])
        BY <1>2 DEF Attaching
      <3>4. QED
        BY <3>1, <3>2, <3>3, <2>1, <1>2 DEF Attaching, Seen, Less
    <2>3. QED
      BY <1>1, <1>2, <2>1, <2>2 DEF DisksInv, Reading, Collecting, Sorting, AllPassed,
         AttachedOnce, AttachedUsable, RefusedWithReason
  <1>6. CASE ~Seen(refs[next].disk) /\ Usable(refs[next].disk)
    <2> DEFINE n == Len(attached) + 1
    <2>1. next' = next + 1 /\ pc' = pc /\ attached' = Append(attached, refs[next])
      BY <1>6 DEF AttachRef
    <2>2. /\ DOMAIN attached = 1..(n - 1) /\ DOMAIN attached' = 1..n /\ n \in Nat \ {0}
          /\ \A k \in 1..(n - 1) : attached'[k] = attached[k]
          /\ attached'[n] = refs[next]
      BY <2>1, <1>2, <1>3
    <2>3. AttachedOnce'
      <3>1. \A k \in 1..(n - 1) : attached[k].disk # refs[next].disk
        BY <1>6, <2>2 DEF Seen
      <3>2. QED
        BY <3>1, <2>2 DEF DisksInv, AttachedOnce
    <2>4. AttachedUsable'
      BY <1>1, <1>6, <2>2 DEF DisksInv, AttachedUsable
    <2>5. \A j \in DOMAIN attached' : \E k \in 1..(next' - 1) : attached'[j] = refs[k]
      <3>1. TAKE j \in DOMAIN attached'
      <3>2. CASE j = n
        BY <3>2, <2>1, <2>2, <1>2
      <3>3. CASE j # n
        <4>1. j \in DOMAIN attached /\ attached'[j] = attached[j]
          BY <3>3, <2>2
        <4>2. PICK k \in 1..(next - 1) : attached[j] = refs[k]
          BY <4>1, <1>2 DEF Attaching
        <4>3. QED
          BY <4>1, <4>2, <2>1, <1>2
      <3>4. QED
        BY <3>2, <3>3
    <2>6. \A k \in 1..next : \E m \in DOMAIN attached' : attached'[m].disk = refs[k].disk
      <3>1. TAKE k \in 1..next
      <3>2. CASE k = next
        BY <3>2, <2>2
      <3>3. CASE k # next
        <4>1. Seen(refs[k].disk)
          BY <3>3, <1>2 DEF Attaching
        <4>2. PICK m \in DOMAIN attached : attached[m].disk = refs[k].disk
          BY <4>1 DEF Seen
        <4>3. m \in DOMAIN attached' /\ attached'[m].disk = refs[k].disk
          BY <4>2, <2>2
        <4>4. QED
          BY <4>3
      <3>4. QED
        BY <3>2, <3>3
    <2>7. ASSUME NEW k \in DOMAIN attached', NEW j \in 1..k, NEW h \in DOMAIN refs,
                 refs[h].disk = attached'[k].disk
          PROVE  ~Less(refs[h], attached'[j])
      <3>1. CASE k # n
        <4>1. k \in DOMAIN attached /\ attached'[k] = attached[k] /\ attached'[j] = attached[j]
          BY <3>1, <2>2
        <4>2. QED
          BY <4>1, <2>7, <1>2 DEF Attaching
      <3>2. CASE k = n
        <4>1. refs[h].disk = refs[next].disk
          BY <2>7, <3>2, <2>2
        <4>2. h >= next
          <5>1. h \in 1..(next - 1) => Seen(refs[h].disk)
            BY <1>2 DEF Attaching
          <5>2. QED
            BY <4>1, <5>1, <1>6, <1>2
        <4>3. PICK i \in 1..(next' - 1) : attached'[j] = refs[i]
          BY <2>5, <2>2
        <4>4. i <= h /\ i \in DOMAIN refs /\ refs[i] \in Reference
          BY <4>2, <4>3, <2>1, <1>2
        <4>5. CASE i = h
          BY <4>3, <4>4, <4>5, LessIrreflexive
        <4>6. CASE i # h
          BY <4>3, <4>4, <4>6, <1>2 DEF Sorted
        <4>7. QED
          BY <4>5, <4>6
      <3>3. QED
        BY <3>1, <3>2
    <2>8. Attaching'
      <3>1. next' <= Len(refs') + 1
        BY <2>1, <1>2
      <3>2. \A k \in DOMAIN attached' : \A j \in 1..k : \A h \in DOMAIN refs' :
              refs'[h].disk = attached'[k].disk => ~Less(refs'[h], attached'[j])
        BY <2>7, <1>2
      <3>3. (\A k \in 1..(next - 1) : Seen(refs[k].disk))'
        BY <2>1, <2>6, <1>2 DEF Seen
      <3>4. \A j \in DOMAIN attached' : \E k \in 1..(next' - 1) : attached'[j] = refs'[k]
        BY <2>5, <1>2
      <3>5. QED
        BY <3>1, <3>2, <3>3, <3>4, <1>2 DEF Attaching, Less
    <2>9. QED
      BY <1>1, <1>2, <2>1, <2>3, <2>4, <2>8 DEF DisksInv, Reading, Collecting, Sorting,
         AllPassed, RefusedWithReason
  <1>7. CASE ~Seen(refs[next].disk) /\ ~Usable(refs[next].disk)
    <2>1. pc' = "failed" /\ next' = next /\ attached' = attached
      BY <1>7 DEF AttachRef
    <2>2. RefusedWithReason'
      BY <1>1, <1>4, <1>7 DEF RefusedWithReason
    <2>3. QED
      BY <1>1, <2>1, <2>2 DEF DisksInv, Reading, Collecting, Sorting, Attaching, AllPassed,
         AttachedOnce, AttachedUsable
  <1>8. QED
    BY <1>5, <1>6, <1>7

LEMMA EndOfDisksStep ==
  ASSUME DisksInv, TypeOK', EndOfDisks
  PROVE  DisksInv'
  <1>1. /\ Defined' /\ LastDeclared' /\ named' = named /\ DefinedDisks' = DefinedDisks
        /\ WantedDisks' = WantedDisks
        /\ \A i : ReferenceOf(i)' = ReferenceOf(i)
        /\ \A d : Usable(d)' = Usable(d)
        /\ hardware' = hardware
    BY DocumentFixed DEF DisksInv, EndOfDisks, document, inputs
  <1>2. /\ pc = "attach" /\ UNCHANGED <<refs, next, attached>> /\ next > Len(refs)
        /\ refs \in Seq(Reference) /\ next \in Nat /\ Len(refs) \in Nat
        /\ attached \in Seq(Reference) /\ Complete
        /\ \A k \in 1..(next - 1) : Seen(refs[k].disk)
        /\ Attaching
    BY DEF DisksInv, EndOfDisks, TypeOK, Attaching
  <1>3. CASE attached = <<>>
    <2>1. pc' = "failed"
      BY <1>3 DEF EndOfDisks
    <2>2. DOMAIN refs = {}
      <3>1. \A k \in 1..(next - 1) : FALSE
        BY <1>2, <1>3 DEF Seen
      <3>2. QED
        BY <3>1, <1>2
    <2>3. WantedDisks = {}
      BY <2>2, <1>2 DEF Complete, WantedDisks
    <2>4. QED
      BY <1>1, <1>2, <2>1, <2>3 DEF DisksInv, Reading, Collecting, Sorting, Attaching,
         AllPassed, AttachedOnce, AttachedUsable, RefusedWithReason
  <1>4. CASE attached # <<>>
    <2>1. pc' = "done"
      BY <1>4 DEF EndOfDisks
    <2>2. Complete'
      BY <1>1, <1>2 DEF Complete
    <2>3. Attaching'
      BY <1>2, <2>2 DEF Attaching, Sorted, Less, Seen
    <2>4. QED
      BY <1>1, <1>2, <1>4, <2>1, <2>3 DEF DisksInv, Reading, Collecting, Sorting,
         AllPassed, AttachedOnce, AttachedUsable, RefusedWithReason
  <1>5. QED
    BY <1>3, <1>4

LEMMA StutterStep ==
  ASSUME DisksInv, UNCHANGED vars
  PROVE  DisksInv'
  <1>1. /\ Defined' /\ LastDeclared' /\ named' = named /\ DefinedDisks' = DefinedDisks
        /\ WantedDisks' = WantedDisks
        /\ \A i : ReferenceOf(i)' = ReferenceOf(i)
        /\ \A d : Usable(d)' = Usable(d)
    BY DocumentFixed DEF DisksInv, vars
  <1>2. TypeOK'
    BY TypePreserved DEF DisksInv
  <1>3. Complete' = Complete /\ Sorted' = Sorted
    BY <1>1 DEF vars, Complete, Sorted, Less
  <1>4. \A d : Seen(d)' = Seen(d)
    BY DEF vars, Seen
  <1>5. Collecting' /\ Sorting'
    BY <1>1, <1>3 DEF DisksInv, vars, document, Collecting, Sorting
  <1>6. Attaching'
    BY <1>1, <1>3, <1>4 DEF DisksInv, vars, Attaching, Less
  <1>7. QED
    BY <1>1, <1>2, <1>5, <1>6 DEF DisksInv, vars, document, inputs, Reading, AllPassed,
       AttachedOnce, AttachedUsable, RefusedWithReason

LEMMA DisksInvariant == Spec => []DisksInv
  <1>1. DisksInv /\ [Next]_vars => DisksInv'
    <2> SUFFICES ASSUME DisksInv, [Next]_vars PROVE DisksInv'
      OBVIOUS
    <2>1. TypeOK'
      BY TypePreserved DEF DisksInv
    <2>2. QED
      BY <2>1, ReadFileStep, ReadDiskStep, ReadItemStep, EndOfElementsStep, CollectRefStep,
         EndOfRefsStep, SortRefsStep, AttachRefStep, EndOfDisksStep, StutterStep
         DEF Next, Ended
  <1>2. QED
    BY <1>1, InitDisks, PTL DEF Spec
-----------------------------------------------------------------------------
(* Type correctness of OvfDisks, for documents of any size.                *)
THEOREM DisksTypeCorrect == Spec => []TypeOK
  <1>1. DisksInv => TypeOK
    BY DEF DisksInv
  <1>2. QED
    BY <1>1, DisksInvariant, PTL

(* ParseOVF attaches no disk twice, however many items refer to it.        *)
THEOREM NoDiskTwice == Spec => []AttachedOnce
  <1>1. DisksInv => AttachedOnce
    BY DEF DisksInv
  <1>2. QED
    BY <1>1, DisksInvariant, PTL

(* ParseOVF drops no disk its items refer to and adds none.                *)
THEOREM NoDiskDropped == Spec => []AllNamedAttached
  <1>1. DisksInv => AllNamedAttached
    <2> SUFFICES ASSUME DisksInv, pc = "done" PROVE AttachedDisks = WantedDisks
      BY DEF AllNamedAttached
    <2>1. /\ Attaching /\ Complete /\ next > Len(refs) /\ refs \in Seq(Reference)
          /\ next <= Len(refs) + 1 /\ next \in Nat /\ attached \in Seq(Reference)
      BY DEF DisksInv, Attaching, AllPassed, TypeOK
    <2>2. DOMAIN refs = 1..(next - 1)
      BY <2>1
    <2>3. ASSUME NEW k \in DOMAIN refs PROVE refs[k].disk \in WantedDisks
      <3>1. CASE named = {}
        BY <3>1, <2>1 DEF Complete, WantedDisks
      <3>2. CASE named # {}
        <4>1. PICK i \in named : refs[k] = ReferenceOf(i)
          BY <3>2, <2>1 DEF Complete
        <4>2. refs[k].disk = items[i].disk
          BY <4>1 DEF ReferenceOf
        <4>3. QED
          BY <3>2, <4>2 DEF WantedDisks
      <3>3. QED
        BY <3>1, <3>2
    <2>4. AttachedDisks \subseteq WantedDisks
      <3>1. \A j \in DOMAIN attached : \E k \in DOMAIN refs : attached[j] = refs[k]
        BY <2>1, <2>2 DEF Attaching
      <3>2. QED
        BY <3>1, <2>3 DEF AttachedDisks
    <2>5. WantedDisks \subseteq AttachedDisks
      <3>1. ASSUME NEW d \in WantedDisks PROVE \E k \in DOMAIN refs : refs[k].disk = d
        <4>1. CASE named = {}
          BY <4>1, <2>1 DEF Complete, WantedDisks
        <4>2. CASE named # {}
          <5>1. PICK i \in named : items[i].disk = d
            BY <4>2 DEF WantedDisks
          <5>2. PICK k \in DOMAIN refs : refs[k] = ReferenceOf(i)
            BY <2>1 DEF Complete
          <5>3. QED
            BY <5>1, <5>2 DEF ReferenceOf
        <4>3. QED
          BY <4>1, <4>2
      <3>2. \A k \in DOMAIN refs : Seen(refs[k].disk)
        BY <2>1, <2>2 DEF Attaching
      <3>3. QED
        BY <3>1, <3>2 DEF Seen, AttachedDisks
    <2>6. QED
      BY <2>4, <2>5
  <1>2. QED
    BY <1>1, DisksInvariant, PTL

(* The disks are in the order of their controllers, addresses and names,   *)
(* whatever the sort does with equals.                                     *)
THEOREM DisksInOrder == Spec => []InControllerOrder
  <1>1. DisksInv => InControllerOrder
    <2> SUFFICES ASSUME DisksInv, pc = "done", named # {},
                        NEW j \in DOMAIN attached, NEW k \in DOMAIN attached, j < k,
                        NEW i \in named, items[i].disk = attached[k].disk
                 PROVE  /\ ~Less(ReferenceOf(i), attached[j])
                        /\ ~Less(ReferenceOf(i), attached[k])
      BY DEF InControllerOrder
    <2>1. Attaching /\ Complete /\ attached \in Seq(Reference)
      BY DEF DisksInv, Attaching, TypeOK
    <2>2. PICK h \in DOMAIN refs : refs[h] = ReferenceOf(i)
      BY <2>1 DEF Complete
    <2>3. refs[h].disk = attached[k].disk
      BY <2>2 DEF ReferenceOf
    <2>4. j \in 1..k /\ k \in 1..k
      BY <2>1
    <2>5. ~Less(refs[h], attached[j]) /\ ~Less(refs[h], attached[k])
      BY <2>1, <2>3, <2>4 DEF Attaching
    <2>6. QED
      BY <2>2, <2>5
  <1>2. QED
    BY <1>1, DisksInvariant, PTL

(* The bus of a disk is that of its controller, wherever that is listed.   *)
THEOREM BusFromController == Spec => []BusOfItsController
  <1>1. DisksInv => BusOfItsController
    <2> SUFFICES ASSUME DisksInv, pc = "done", NEW k \in DOMAIN attached
                 PROVE  IF attached[k].controller = NoInstance
                           \/ Declaring(attached[k].controller) = {}
                        THEN attached[k].sourceBus = "unknown"
                        ELSE \E i \in Declaring(attached[k].controller) :
                               /\ attached[k].sourceBus = items[i].bus
                               /\ \A h \in Declaring(attached[k].controller) : h <= i
      BY DEF BusOfItsController, Declaring
    <2>1. Attaching /\ Complete /\ attached \in Seq(Reference) /\ next <= Len(refs) + 1
      BY DEF DisksInv, Attaching, TypeOK
    <2>2. PICK h \in DOMAIN refs : attached[k] = refs[h]
      <3>1. PICK h \in 1..(next - 1) : attached[k] = refs[h]
        BY <2>1 DEF Attaching
      <3>2. refs \in Seq(Reference) /\ next \in Nat
        BY DEF DisksInv, TypeOK
      <3>3. QED
        BY <3>1, <3>2, <2>1
    <2>3. CASE named = {}
      BY <2>1, <2>2, <2>3 DEF Complete
    <2>4. CASE named # {}
      <3>1. PICK i \in named : attached[k] = ReferenceOf(i)
        BY <2>1, <2>2, <2>4 DEF Complete
      <3>2. /\ attached[k].controller \in Instances
            /\ attached[k].sourceBus = controllers[attached[k].controller]
        BY <3>1, <2>1 DEF ReferenceOf, Reference
      <3>3. QED
        BY <3>2 DEF DisksInv, LastDeclared
    <2>5. QED
      BY <2>3, <2>4
  <1>2. QED
    BY <1>1, DisksInvariant, PTL

(* Only defined disks whose file may be read are attached.                 *)
THEOREM AttachedDisksUsable == Spec => []OnlyUsableAttached
  <1>1. DisksInv => OnlyUsableAttached
    <2> SUFFICES ASSUME DisksInv, NEW k \in DOMAIN attached, NEW d, d = attached[k].disk
                 PROVE  /\ d \in DefinedDisks
                        /\ files[disks[d]] # "outside"
                        /\ requireDiskFiles => files[disks[d]] = "present"
      BY DEF OnlyUsableAttached
    <2>1. d \in DiskIDs
      <3>1. attached \in Seq(Reference)
        BY DEF DisksInv, TypeOK
      <3>2. attached[k] \in Reference
        BY <3>1
      <3>3. QED
        BY <3>2 DEF Reference
    <2>2. Usable(d)
      BY DEF DisksInv, AttachedUsable
    <2>3. QED
      BY <2>1, <2>2 DEF DisksInv, Defined, Usable
  <1>2. QED
    BY <1>1, DisksInvariant, PTL

(* A document is refused only for a reason.                                *)
THEOREM RefusalsJustified == Spec => []RefusedWithReason
  <1>1. DisksInv => RefusedWithReason
    BY DEF DisksInv
  <1>2. QED
    BY <1>1, DisksInvariant, PTL
(* Every disk the machine is to have is attached, once, and no other.      *)
THEOREM DisksExactly == Spec => []ExactlyTheDisks
  BY NoDiskTwice, NoDiskDropped, PTL DEF ExactlyTheDisks

(* What cannot be used is refused, and nothing else.                       *)
THEOREM RefusedOrUsable == Spec => []UsableOrRefused
  BY AttachedDisksUsable, RefusalsJustified, PTL DEF UsableOrRefused

(* When ParseOVF sorts, NaturalLess is the order sort.Slice asks for.      *)
THEOREM OrderIsStrictWeak == Spec => []StrictWeakOrder
  <1>1. {s \in Strings : FitsInt(s)} \subseteq FitNames
    BY DEF Strings, FitNames
  <1>2. StrictWeakOrder
    BY <1>1, NamesWeaklyOrdered DEF StrictWeakOn, StrictWeakOrder, NamesOrdered
  <1>3. QED
    BY <1>2, PTL
=============================================================================
