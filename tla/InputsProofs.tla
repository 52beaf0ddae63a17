----------------------------- MODULE InputsProofs -----------------------------
(***************************************************************************)
(* Theorems about what a run learns before it converts, for any host and   *)
(* any document.  Each of the four parts has an invariant that its steps   *)
(* keep; the theorems, at the end, are of the specification of all four.   *)
(***************************************************************************)
EXTENDS Inputs, SequenceTheorems, FiniteSetTheorems, WellFoundedInduction, TLAPS

(* The tools.  What has been looked at is at the front of a list, and      *)
(* nothing of it can be executed.                                          *)
Passed(rest, list) ==
  \E n \in 0..Len(list) :
    /\ rest = SubSeq(list, n + 1, Len(list))
    /\ \A k \in 1..n : list[k] \notin usable

HostTyped ==
  /\ wanted \in {"auto", "qemu-img", "virt-v2v"}
  /\ v2vOption \in Named /\ v2vEnv \in Named /\ qemuOption \in Named
  /\ qemuEnvs \in [1..2 -> Named]
  /\ usable \in SUBSET Tools

(* What the search for virt-v2v has come to once there is none any more.   *)
BackendChosen ==
  \/ /\ backend = "virt-v2v" /\ wanted # "qemu-img" /\ HasV2V
     /\ virtV2V \in usable
     /\ v2vOption \in usable => virtV2V = v2vOption
  \/ /\ backend = "qemu-img" /\ virtV2V = NoTool
     /\ wanted = "qemu-img" \/ (wanted = "auto" /\ ~HasV2V)

ToolInv ==
  /\ HostTyped /\ ToolTypeOK
  /\ toolStep = "virt-v2v" =>
       /\ wanted # "qemu-img" /\ backend = "qemu-img"
       /\ virtV2V = NoTool /\ qemuImg = NoTool
       /\ Passed(queue, V2VQueue)
  /\ toolStep = "qemu-img" => BackendChosen /\ qemuImg = NoTool /\ Passed(queue, QemuQueue)
  /\ toolStep = "done" =>
       /\ BackendChosen
       /\ \/ /\ qemuImg \in usable /\ HasQemu
             /\ qemuOption \in usable => qemuImg = qemuOption
          \/ qemuImg = NoTool /\ ~HasQemu /\ backend = "virt-v2v" /\ ~QemuNamed
  /\ toolStep = "failed" =>
       \/ wanted = "virt-v2v" /\ ~HasV2V
       \/ BackendChosen /\ ~HasQemu /\ (backend = "virt-v2v" => QemuNamed)

LEMMA QueuesTyped ==
  ASSUME HostTyped
  PROVE  /\ V2VQueue \in Seq(Tools \union Named) /\ QemuQueue \in Seq(Tools \union Named)
         /\ V2VQueue # <<>> /\ QemuQueue # <<>>
         /\ v2vOption \in usable => V2VQueue[1] = v2vOption
         /\ qemuOption \in usable => QemuQueue[1] = qemuOption
  <1> USE ToolDiscoveryAssumption
  <1>1. FirstNonEmpty(qemuEnvs) \in Named
    BY DEF HostTyped, FirstNonEmpty, Named
  <1> DEFINE v == IF v2vOption = NoTool THEN v2vEnv ELSE v2vOption
             q == IF qemuOption = NoTool THEN FirstNonEmpty(qemuEnvs) ELSE qemuOption
  <1>2. v \in Named /\ q \in Named
    BY <1>1 DEF HostTyped
  <1>3. /\ v2vOption \in usable => v = v2vOption
        /\ qemuOption \in usable => q = qemuOption
    BY DEF HostTyped
  <1>4. V2VQueue = <<v>> \o V2VPlaces /\ QemuQueue = <<q>> \o QemuPlaces
    BY DEF V2VQueue, QemuQueue
  <1> HIDE DEF v, q
  <1>5. ASSUME NEW w \in Named, NEW places \in Seq(Tools)
        PROVE  /\ <<w>> \o places \in Seq(Tools \union Named)
               /\ <<w>> \o places # <<>>
               /\ (<<w>> \o places)[1] = w
    <2>1. <<w>> \in Seq(Tools \union Named) /\ places \in Seq(Tools \union Named)
      OBVIOUS
    <2>2. Len(<<w>> \o places) = 1 + Len(places) /\ Len(places) \in Nat
      BY <2>1
    <2>3. QED
      BY <2>1, <2>2
  <1>6. QED
    BY <1>2, <1>3, <1>4, <1>5

(* Along a list, from its front to its end.                                *)
LEMMA PassedNone ==
  ASSUME NEW list \in Seq(Tools \union Named)
  PROVE  Passed(list, list)
  <1>1. Len(list) \in Nat /\ SubSeq(list, 1, Len(list)) = list
    OBVIOUS
  <1>2. 0 \in 0..Len(list) /\ list = SubSeq(list, 0 + 1, Len(list))
    BY <1>1
  <1>3. QED
    BY <1>2 DEF Passed

LEMMA PassedHead ==
  ASSUME NEW list \in Seq(Tools \union Named), NEW rest, Passed(rest, list), rest # <<>>
  PROVE  /\ Head(rest) \in ToSet(list)
         /\ list[1] \in usable /\ Head(rest) \in usable => Head(rest) = list[1]
         /\ Head(rest) \notin usable => Passed(Tail(rest), list)
  <1>1. PICK n \in 0..Len(list) :
          rest = SubSeq(list, n + 1, Len(list)) /\ \A k \in 1..n : list[k] \notin usable
    BY DEF Passed
  <1>2. Len(list) \in Nat /\ n \in Nat /\ n <= Len(list)
    OBVIOUS
  <1>3. n < Len(list)
    <2>1. n = Len(list) => rest = <<>>
      BY <1>1, <1>2
    <2>2. QED
      BY <1>2, <2>1
  <1>4. Head(rest) = list[n + 1] /\ Tail(rest) = SubSeq(list, n + 2, Len(list))
    BY <1>1, <1>2, <1>3
  <1>5. Head(rest) \in ToSet(list)
    BY <1>2, <1>3, <1>4 DEF ToSet
  <1>6. list[1] \in usable /\ Head(rest) \in usable => Head(rest) = list[1]
    BY <1>1, <1>2, <1>3, <1>4
  <1>7. ASSUME Head(rest) \notin usable PROVE Passed(Tail(rest), list)
    <2>1. /\ n + 1 \in 0..Len(list) /\ Tail(rest) = SubSeq(list, (n + 1) + 1, Len(list))
          /\ \A k \in 1..(n + 1) : list[k] \notin usable
      BY <1>1, <1>2, <1>3, <1>4, <1>7
    <2>2. QED
      BY <2>1 DEF Passed
  <1>8. QED
    BY <1>5, <1>6, <1>7

LEMMA PassedAll ==
  ASSUME NEW list \in Seq(Tools \union Named), Passed(<<>>, list)
  PROVE  ToSet(list) \intersect usable = {}
  <1>1. PICK n \in 0..Len(list) :
          <<>> = SubSeq(list, n + 1, Len(list)) /\ \A k \in 1..n : list[k] \notin usable
    BY DEF Passed
  <1>2. Len(list) \in Nat /\ n \in Nat /\ n <= Len(list)
    OBVIOUS
  <1>3. n = Len(list)
    <2>1. SUFFICES ASSUME n < Len(list) PROVE FALSE
      BY <1>2
    <2>2. \A k \in (n + 1)..Len(list) : list[k] \in Tools \union Named
      BY <1>2
    <2>3. Len(SubSeq(list, n + 1, Len(list))) = Len(list) - (n + 1) + 1
      BY <1>2, <2>1, <2>2, SubSeqProperties
    <2>4. Len(SubSeq(list, n + 1, Len(list))) = Len(<<>>) /\ Len(<<>>) = 0
      BY <1>1
    <2>5. QED
      BY <1>2, <2>1, <2>3, <2>4
  <1>4. QED
    BY <1>1, <1>2, <1>3 DEF ToSet

LEMMA ToolInitially == ToolInit => ToolInv
  <1> SUFFICES ASSUME ToolInit PROVE ToolInv
    OBVIOUS
  <1>1. HostTyped
    BY DEF ToolInit, HostTyped
  <1>2. queue \in Seq(Tools \union Named)
    BY <1>1, QueuesTyped DEF ToolInit
  <1>3. ToolTypeOK
    BY <1>2 DEF ToolInit, ToolTypeOK
  <1>4. CASE wanted = "qemu-img"
    BY <1>1, <1>3, <1>4, QueuesTyped, PassedNone DEF ToolInit, ToolInv, BackendChosen
  <1>5. CASE wanted # "qemu-img"
    BY <1>1, <1>3, <1>5, QueuesTyped, PassedNone DEF ToolInit, ToolInv
  <1>6. QED
    BY <1>4, <1>5

(* The host does not change while it is searched.                          *)
LEMMA HostFixed ==
  ASSUME UNCHANGED host
  PROVE  /\ HostTyped' = HostTyped /\ V2VQueue' = V2VQueue /\ QemuQueue' = QemuQueue
         /\ HasV2V' = HasV2V /\ HasQemu' = HasQemu /\ QemuNamed' = QemuNamed
         /\ usable' = usable /\ wanted' = wanted
         /\ v2vOption' = v2vOption /\ qemuOption' = qemuOption
  BY DEF host, HostTyped, V2VQueue, QemuQueue, HasV2V, HasQemu, QemuNamed

LEMMA ToolStepsKeep == ToolInv /\ [ToolSteps]_toolVars => ToolInv'
  <1> SUFFICES ASSUME ToolInv, [ToolSteps]_toolVars PROVE ToolInv'
    OBVIOUS
  <1>1. UNCHANGED host
    BY DEF ToolSteps, PassOver, FindV2V, NoV2V, FindQemu, NoQemu, toolVars
  <1>2. /\ HostTyped /\ ToolTypeOK /\ HostTyped'
        /\ V2VQueue \in Seq(Tools \union Named) /\ QemuQueue \in Seq(Tools \union Named)
        /\ V2VQueue # <<>> /\ QemuQueue # <<>>
        /\ v2vOption \in usable => V2VQueue[1] = v2vOption
        /\ qemuOption \in usable => QemuQueue[1] = qemuOption
    BY <1>1, HostFixed, QueuesTyped DEF ToolInv
  <1>3. CASE PassOver
    <2>1. /\ queue # <<>> /\ Head(queue) \notin usable /\ queue' = Tail(queue)
          /\ UNCHANGED <<host, toolStep, backend, virtV2V, qemuImg>>
      BY <1>3 DEF PassOver
    <2>2. queue' \in Seq(Tools \union Named)
      BY <1>2, <2>1 DEF ToolTypeOK
    <2>3. BackendChosen' = BackendChosen
      BY <1>1, <2>1, HostFixed DEF BackendChosen
    <2>4. CASE toolStep = "virt-v2v"
      <3>1. Passed(queue, V2VQueue)
        BY <2>4 DEF ToolInv
      <3>2. Passed(Tail(queue), V2VQueue)
        BY <1>2, <2>1, <3>1, PassedHead
      <3>3. Passed(queue, V2VQueue)'
        BY <1>1, <2>1, <3>2, HostFixed DEF Passed
      <3>4. QED
        BY <1>1, <1>2, <2>1, <2>2, <2>4, <3>3, HostFixed DEF ToolInv, ToolTypeOK
    <2>5. CASE toolStep = "qemu-img"
      <3>1. Passed(queue, QemuQueue)
        BY <2>5 DEF ToolInv
      <3>2. Passed(Tail(queue), QemuQueue)
        BY <1>2, <2>1, <3>1, PassedHead
      <3>3. Passed(queue, QemuQueue)'
        BY <1>1, <2>1, <3>2, HostFixed DEF Passed
      <3>4. QED
        BY <1>1, <1>2, <2>1, <2>2, <2>3, <2>5, <3>3, HostFixed DEF ToolInv, ToolTypeOK
    <2>6. QED
      BY <1>3, <2>4, <2>5 DEF PassOver
  <1>4. CASE FindV2V
    <2>1. /\ toolStep = "virt-v2v" /\ queue # <<>> /\ Head(queue) \in usable
          /\ virtV2V' = Head(queue) /\ backend' = "virt-v2v"
          /\ toolStep' = "qemu-img" /\ queue' = QemuQueue /\ qemuImg' = qemuImg
      BY <1>4 DEF FindV2V
    <2>2. Passed(queue, V2VQueue) /\ wanted # "qemu-img" /\ qemuImg = NoTool
      BY <2>1 DEF ToolInv
    <2>3. /\ Head(queue) \in ToSet(V2VQueue)
          /\ V2VQueue[1] \in usable => Head(queue) = V2VQueue[1]
      BY <1>2, <2>1, <2>2, PassedHead
    <2>4. BackendChosen'
      BY <1>1, <1>2, <2>1, <2>2, <2>3, HostFixed DEF BackendChosen, HasV2V
    <2>5. Passed(queue, QemuQueue)'
      <3>1. Passed(QemuQueue, QemuQueue)
        BY <1>2, PassedNone
      <3>2. QED
        BY <1>1, <2>1, <3>1, HostFixed DEF Passed
    <2>6. ToolTypeOK'
      BY <1>1, <1>2, <2>1, <2>2, HostFixed DEF ToolTypeOK
    <2>7. QED
      BY <1>2, <2>1, <2>2, <2>4, <2>5, <2>6 DEF ToolInv
  <1>5. CASE NoV2V
    <2>1. /\ toolStep = "virt-v2v" /\ queue = <<>>
          /\ UNCHANGED <<backend, virtV2V, qemuImg>>
          /\ \/ wanted = "auto" /\ toolStep' = "qemu-img" /\ queue' = QemuQueue
             \/ wanted # "auto" /\ toolStep' = "failed" /\ queue' = queue
      BY <1>5 DEF NoV2V
    <2>2. /\ Passed(queue, V2VQueue) /\ wanted \in {"auto", "virt-v2v"} /\ backend = "qemu-img"
          /\ virtV2V = NoTool /\ qemuImg = NoTool
      BY <1>2, <2>1 DEF ToolInv, HostTyped
    <2>3. ~HasV2V
      BY <1>2, <2>1, <2>2, PassedAll DEF HasV2V
    <2>4. ToolTypeOK'
      BY <1>1, <1>2, <2>1, <2>2, HostFixed DEF ToolTypeOK
    <2>5. CASE wanted = "auto"
      <3>1. BackendChosen'
        BY <1>1, <2>1, <2>2, <2>3, <2>5, HostFixed DEF BackendChosen
      <3>2. Passed(queue, QemuQueue)'
        <4>1. Passed(QemuQueue, QemuQueue)
          BY <1>2, PassedNone
        <4>2. QED
          BY <1>1, <2>1, <2>5, <4>1, HostFixed DEF Passed
      <3>3. QED
        BY <1>2, <2>1, <2>2, <2>4, <2>5, <3>1, <3>2 DEF ToolInv
    <2>6. CASE wanted = "virt-v2v"
      BY <1>1, <1>2, <2>1, <2>3, <2>4, <2>6, HostFixed DEF ToolInv
    <2>7. QED
      BY <2>2, <2>5, <2>6
  <1>6. CASE FindQemu
    <2>1. /\ toolStep = "qemu-img" /\ queue # <<>> /\ Head(queue) \in usable
          /\ qemuImg' = Head(queue) /\ toolStep' = "done"
          /\ UNCHANGED <<queue, backend, virtV2V>>
      BY <1>6 DEF FindQemu
    <2>2. Passed(queue, QemuQueue) /\ BackendChosen
      BY <2>1 DEF ToolInv
    <2>3. /\ Head(queue) \in ToSet(QemuQueue)
          /\ QemuQueue[1] \in usable => Head(queue) = QemuQueue[1]
      BY <1>2, <2>1, <2>2, PassedHead
    <2>4. BackendChosen'
      BY <1>1, <2>1, <2>2, HostFixed DEF BackendChosen
    <2>5. ToolTypeOK'
      BY <1>1, <1>2, <2>1, HostFixed DEF ToolTypeOK
    <2>6. QED
      BY <1>1, <1>2, <2>1, <2>3, <2>4, <2>5, HostFixed DEF ToolInv, HasQemu
  <1>7. CASE NoQemu
    <2>1. /\ toolStep = "qemu-img" /\ queue = <<>>
          /\ toolStep' = IF backend = "virt-v2v" /\ ~QemuNamed THEN "done" ELSE "failed"
          /\ UNCHANGED <<queue, backend, virtV2V, qemuImg>>
      BY <1>7 DEF NoQemu
    <2>2. Passed(queue, QemuQueue) /\ BackendChosen /\ qemuImg = NoTool
      BY <2>1 DEF ToolInv
    <2>3. ~HasQemu
      BY <1>2, <2>1, <2>2, PassedAll DEF HasQemu
    <2>4. BackendChosen'
      BY <1>1, <2>1, <2>2, HostFixed DEF BackendChosen
    <2>5. ToolTypeOK'
      BY <1>1, <1>2, <2>1, HostFixed DEF ToolTypeOK
    <2>6. QED
      BY <1>1, <1>2, <2>1, <2>2, <2>3, <2>4, <2>5, HostFixed DEF ToolInv
  <1>8. CASE UNCHANGED toolVars
    <2>1. UNCHANGED <<toolStep, queue, backend, virtV2V, qemuImg>>
      BY <1>8 DEF toolVars
    <2>2. BackendChosen' = BackendChosen
      BY <1>1, <2>1, HostFixed DEF BackendChosen
    <2>3. /\ Passed(queue, V2VQueue)' = Passed(queue, V2VQueue)
          /\ Passed(queue, QemuQueue)' = Passed(queue, QemuQueue)
      BY <1>1, <2>1, HostFixed DEF Passed
    <2>4. ToolTypeOK'
      BY <1>1, <1>2, <2>1, HostFixed DEF ToolTypeOK
    <2>5. QED
      BY <1>1, <1>2, <2>1, <2>2, <2>3, <2>4, HostFixed DEF ToolInv
  <1>9. QED
    BY <1>3, <1>4, <1>5, <1>6, <1>7, <1>8 DEF ToolSteps

LEMMA ToolInvImplies == ToolInv => ToolTypeOK /\ ToolsFound
  <1> SUFFICES ASSUME ToolInv PROVE ToolsFound
    BY DEF ToolInv
  <1>1. NoTool \notin usable
    BY ToolDiscoveryAssumption DEF ToolInv, HostTyped
  <1>2. wanted \in {"auto", "qemu-img", "virt-v2v"} /\ backend \in {"qemu-img", "virt-v2v"}
    BY DEF ToolInv, HostTyped, ToolTypeOK
  <1>3. SelectsAsMigration
    BY <1>1, <1>2 DEF ToolInv, BackendChosen, SelectsAsMigration
  <1>4. qemuOption \in usable => HasQemu
    <2>1. /\ QemuQueue \in Seq(Tools \union Named) /\ QemuQueue # <<>>
          /\ qemuOption \in usable => QemuQueue[1] = qemuOption
      BY QueuesTyped DEF ToolInv
    <2>2. 1 \in DOMAIN QemuQueue
      BY <2>1
    <2>3. QED
      BY <2>1, <2>2 DEF HasQemu, ToSet
  <1>5. NamedToolPreferred
    BY <1>1, <1>4 DEF ToolInv, BackendChosen, NamedToolPreferred
  <1>6. QED
    BY <1>3, <1>5 DEF ToolsFound
-----------------------------------------------------------------------------
(* The virtual systems.  What the loop has selected so far is the last that*)
(* answers to --vm of those it has passed, if any of them does.            *)
VMInv ==
  /\ VMTypeOK
  /\ vmSelector \in Texts \union {None} /\ vmBackend \in {"qemu-img", "virt-v2v"}
  /\ preferred \in Nat \ {0}
  /\ vmStep = "select" =>
       /\ selected # 0 => Answers(selected)
       /\ \A k \in DOMAIN systems : k < vmNext /\ Answers(k) => k <= selected
  /\ SelectedOnPurpose /\ DisksOfTheMachine

LEMMA SystemsTyped ==
  ASSUME VMTypeOK
  PROVE  /\ Len(systems) \in 0..MaxSystems /\ DOMAIN systems = 1..Len(systems)
         /\ \A k \in DOMAIN systems : systems[k] \in System
  <1>1. PICK n \in 0..MaxSystems : systems \in [1..n -> System]
    BY DEF VMTypeOK
  <1>2. n \in Nat /\ systems \in Seq(System) /\ Len(systems) = n
    BY <1>1, VirtualSystemsAssumption
  <1>3. QED
    BY <1>1, <1>2

LEMMA VMInitially == VMInit => VMInv
  <1> SUFFICES ASSUME VMInit PROVE VMInv
    OBVIOUS
  <1>1. PICK n \in 0..MaxSystems : systems \in [1..n -> System]
    BY DEF VMInit
  <1>2. n \in Nat /\ Len(systems) \in Nat
    BY <1>1, VirtualSystemsAssumption
  <1>3. VMTypeOK
    BY <1>1, <1>2, VirtualSystemsAssumption DEF VMInit, VMTypeOK
  <1>4. \A k \in DOMAIN systems : ~(k < 1)
    BY <1>1
  <1>5. QED
    BY <1>2, <1>3, <1>4, VirtualSystemsAssumption
       DEF VMInit, VMInv, SelectedOnPurpose, DisksOfTheMachine

LEMMA VMStepsKeep == VMInv /\ [VMSteps]_vmVars => VMInv'
  <1> SUFFICES ASSUME VMInv, [VMSteps]_vmVars PROVE VMInv'
    OBVIOUS
  <1>1. UNCHANGED vmInputs
    BY DEF VMSteps, LookAt, Select, Name, Convert, vmVars
  <1>2. /\ VMTypeOK /\ Len(systems) \in 0..MaxSystems /\ DOMAIN systems = 1..Len(systems)
        /\ Len(systems) \in Nat /\ MaxSystems \in Nat
        /\ \A k \in DOMAIN systems : systems[k] \in System
        /\ selected \in 0..Len(systems) /\ vmNext \in 1..(MaxSystems + 1)
    BY SystemsTyped, VirtualSystemsAssumption DEF VMInv, VMTypeOK
  <1>3. /\ \A k : Answers(k)' = Answers(k)
        /\ Answering' = Answering
        /\ UNCHANGED <<systems, vmSelector, vmBackend, preferred>>
    BY <1>1 DEF vmInputs, Answers, Answering
  <1>4. CASE LookAt
    <2>1. /\ vmStep = "select" /\ vmNext <= Len(systems) /\ vmNext' = vmNext + 1
          /\ selected' = IF Answers(vmNext) THEN vmNext ELSE selected
          /\ UNCHANGED <<vmStep, vmName, converted>>
      BY <1>4 DEF LookAt
    <2>2. VMTypeOK'
      BY <1>2, <1>3, <2>1 DEF VMTypeOK
    <2>3. selected' # 0 => Answers(selected')
      BY <2>1 DEF VMInv
    <2>4. ASSUME NEW k \in DOMAIN systems, k < vmNext', Answers(k) PROVE k <= selected'
      <3>1. k = vmNext \/ k < vmNext
        BY <1>2, <2>1, <2>4
      <3>2. k < vmNext => k <= selected
        BY <2>1, <2>4 DEF VMInv
      <3>3. QED
        BY <1>2, <2>1, <2>4, <3>1, <3>2
    <2>5. QED
      BY <1>3, <2>1, <2>2, <2>3, <2>4
         DEF VMInv, SelectedOnPurpose, DisksOfTheMachine, Answers
  <1>5. CASE Select
    <2>1. /\ vmStep = "select" /\ vmNext > Len(systems)
          /\ UNCHANGED <<vmNext, vmName, converted>>
          /\ \/ selected # 0 /\ vmStep' = "name" /\ selected' = selected
             \/ /\ selected = 0 /\ vmSelector = None /\ Len(systems) = 1
                /\ selected' = 1 /\ vmStep' = "name"
             \/ /\ selected = 0 /\ (vmSelector # None \/ Len(systems) # 1)
                /\ vmStep' = "refused" /\ selected' = selected
      BY <1>5 DEF Select
    <2>2. VMTypeOK'
      BY <1>2, <1>3, <2>1 DEF VMTypeOK
    <2>3. \A k \in Answering : k <= selected
      BY <1>2, <2>1 DEF VMInv, Answering
    <2>4. /\ selected # 0 => vmSelector # None /\ selected \in Answering
          /\ selected = 0 => Answering = {}
      BY <1>2, <2>1, <2>3 DEF VMInv, Answering, Answers
    <2>5. SelectedOnPurpose'
      BY <1>3, <2>1, <2>3, <2>4 DEF SelectedOnPurpose
    <2>6. QED
      BY <1>3, <2>1, <2>2, <2>5 DEF VMInv, DisksOfTheMachine
  <1>6. CASE Name
    <2>1. /\ vmStep = "name" /\ vmStep' = "convert"
          /\ vmName' = Or(Or(systems[selected].name, systems[selected].id), Default)
          /\ UNCHANGED <<vmNext, selected, converted>>
      BY <1>6 DEF Name
    <2>2. selected \in DOMAIN systems
      BY <1>2, <2>1 DEF VMInv, SelectedOnPurpose, Answering
    <2>3. /\ systems[selected].id \in Texts \union {None}
          /\ systems[selected].name \in Texts \union {None}
      BY <1>2, <2>2 DEF System
    <2>4. VMTypeOK'
      BY <1>2, <1>3, <2>1, <2>3 DEF VMTypeOK, Or
    <2>5. SelectedOnPurpose'
      BY <1>3, <2>1 DEF VMInv, SelectedOnPurpose
    <2>6. QED
      BY <1>3, <2>1, <2>4, <2>5 DEF VMInv, DisksOfTheMachine
  <1>7. CASE Convert
    <2>1. /\ vmStep = "convert" /\ UNCHANGED <<vmNext, selected, vmName>>
          /\ \/ vmBackend = "qemu-img" /\ converted' = Given /\ vmStep' = "done"
             \/ /\ vmBackend = "virt-v2v" /\ preferred <= Len(systems)
                /\ converted' = {preferred} /\ vmStep' = "done"
             \/ converted' = {} /\ vmStep' = "failed"
      BY <1>7 DEF Convert
    <2>2. selected \in DOMAIN systems
      BY <1>2, <2>1 DEF VMInv, SelectedOnPurpose, Answering
    <2>3. converted' \subseteq DOMAIN systems
      <3>1. Given \subseteq DOMAIN systems
        BY <2>2 DEF Given
      <3>2. preferred \in Nat \ {0}
        BY DEF VMInv
      <3>3. QED
        BY <1>2, <2>1, <3>1, <3>2
    <2>4. VMTypeOK'
      <3>1. vmStep' \in {"done", "failed"}
        BY <2>1
      <3>2. QED
        BY <1>2, <1>3, <2>1, <2>3, <3>1 DEF VMTypeOK
    <2>5. SelectedOnPurpose'
      BY <1>3, <2>1 DEF VMInv, SelectedOnPurpose
    <2>6. DisksOfTheMachine'
      BY <1>3, <2>1 DEF DisksOfTheMachine, Given
    <2>7. QED
      BY <1>3, <2>1, <2>4, <2>5, <2>6 DEF VMInv
  <1>8. CASE UNCHANGED vmVars
    BY <1>3, <1>8 DEF vmVars, VMInv, VMTypeOK, SelectedOnPurpose, DisksOfTheMachine
  <1>9. QED
    BY <1>4, <1>5, <1>6, <1>7, <1>8 DEF VMSteps
-----------------------------------------------------------------------------
(* The settings and the adapters.  For every key that is there the map has *)
(* the value of the last element of this key.                              *)
LastOfKey(n) == \A o \in DOMAIN elements : o > n => elements[o].key # elements[n].key

LastSettings ==
  /\ \A k \in DOMAIN config : \E n \in DOMAIN elements :
       elements[n].key = k /\ elements[n].value = config[k] /\ LastOfKey(n)
  /\ \A n \in DOMAIN elements : LastOfKey(n) =>
       elements[n].key \in DOMAIN config /\ config[elements[n].key] = elements[n].value

(* One of some keys has one of some values.                                *)
Set(visited, keys, values) == \E k \in visited : k \in keys /\ config[k] \in values

Visited == DOMAIN config \ pending

FirmwareFound(secure) ==
  firmware = IF Set(secure, SecureKeys, SaysTrue) THEN "secureboot"
             ELSE IF Set(DOMAIN config, FirmwareKeys, SaysEFI) THEN "uefi" ELSE "bios"

AdaptersTo(n, m) ==
  {k \in 1..n : guestItems[k].nic /\ ModelOf(guestItems[k]) = {m}}

GuestInv ==
  /\ GuestTypeOK
  /\ option \in {"auto", "none", "tpm2"}
  /\ LastSettings
  /\ guestStep = "config" => efi = FALSE
  /\ guestStep = "firmware" => (efi <=> Set(Visited, FirmwareKeys, SaysEFI))
  /\ guestStep = "secure" => FirmwareFound(Visited)
  /\ guestStep \in {"tpm", "nics", "done"} => FirmwareFound(DOMAIN config)
  /\ guestStep \in {"config", "firmware", "secure"} => ~tpm
  /\ guestStep = "tpm" =>
       /\ tpm => Set(DOMAIN config, TPMKeys, SaysTrue)
       /\ ~tpm => ~Set(Visited, TPMKeys, SaysTrue)
       /\ tpm => pending = {}
  /\ guestStep \in {"nics", "done"} =>
       (tpm <=> \/ Set(DOMAIN config, TPMKeys, SaysTrue)
                \/ \E k \in DOMAIN guestItems : guestItems[k].tpm)
  /\ \A m \in ModelNames : counts[m] = Cardinality(AdaptersTo(guestNext - 1, m))
  /\ guestStep = "done" =>
       /\ guestNext = Len(guestItems) + 1
       /\ enabled = IF option = "auto" THEN tpm ELSE option = "tpm2"

(* What the map says is what the document says.                            *)
LEMMA SetSays ==
  ASSUME LastSettings, NEW keys, NEW values
  PROVE  Set(DOMAIN config, keys, values) <=> Says(keys, values)
  BY DEF LastSettings, LastOfKey, Set, Says

(* A model is that of an adapter, or the adapter has none.                 *)
LEMMA ModelUnique ==
  ASSUME NEW item, NEW m \in ModelOf(item)
  PROVE  ModelOf(item) = {m}
  <1>1. DOMAIN Models = 1..5
    BY DEF Models
  <1> DEFINE First(k) == Models[k] \in item.names /\ \A h \in 1..(k - 1) : Models[h] \notin item.names
  <1>2. ModelOf(item) = {Models[k] : k \in {j \in 1..5 : First(j)}}
    BY <1>1 DEF ModelOf
  <1>3. ASSUME NEW j \in 1..5, NEW k \in 1..5, First(j), First(k) PROVE j = k
    <2>1. ~(j < k)
      BY <1>3
    <2>2. ~(k < j)
      BY <1>3
    <2>3. QED
      BY <2>1, <2>2
  <1> HIDE DEF First
  <1>4. QED
    BY <1>2, <1>3

(* The model counted for an adapter is the one it means.                   *)
LEMMA ModelMeant ==
  ASSUME NEW item, NEW m \in ModelNames, Means(item, m)
  PROVE  ModelOf(item) = {m}
  <1>1. /\ DOMAIN Models = 1..5 /\ Models[1] = "vmxnet3" /\ Models[2] = "e1000e"
        /\ Models[3] = "e1000" /\ Models[4] = "rtl8139" /\ Models[5] = "virtio"
    BY DEF Models
  <1>2. CASE m = "e1000e" /\ item.names = {"e1000", "e1000e"}
    <2>1. 2 \in DOMAIN Models /\ Models[2] \in item.names
          /\ \A h \in 1..(2 - 1) : Models[h] \notin item.names
      BY <1>1, <1>2
    <2>2. Models[2] \in ModelOf(item)
      BY <2>1 DEF ModelOf
    <2>3. QED
      BY <1>1, <1>2, <2>2, ModelUnique
  <1>3. CASE item.names = {m}
    <2>1. PICK j \in 1..5 : m = Models[j]
      BY <1>1 DEF ModelNames
    <2>2. \A h \in 1..(j - 1) : Models[h] # Models[j]
      BY <1>1, <2>1
    <2>3. \A h \in 1..(j - 1) : Models[h] \notin item.names
      BY <1>3, <2>1, <2>2
    <2>4. m \in ModelOf(item)
      BY <1>1, <1>3, <2>1, <2>3 DEF ModelOf
    <2>5. QED
      BY <2>4, ModelUnique
  <1>4. QED
    BY <1>2, <1>3 DEF Means

LEMMA MeaningCounted ==
  ASSUME NEW item, item.names = {} \/ \E m \in ModelNames : Means(item, m)
  PROVE  \A m \in ModelNames : Means(item, m) <=> ModelOf(item) = {m}
  <1>1. CASE item.names = {}
    <2>1. ModelOf(item) = {}
      BY <1>1 DEF ModelOf
    <2>2. QED
      BY <1>1, <2>1 DEF Means
  <1>2. CASE \E m \in ModelNames : Means(item, m)
    BY <1>2, ModelMeant
  <1>3. QED
    BY <1>1, <1>2

LEMMA AdaptersFinite ==
  ASSUME NEW n \in Nat, NEW m
  PROVE  /\ IsFiniteSet(AdaptersTo(n, m)) /\ Cardinality(AdaptersTo(n, m)) \in 0..n
  <1>1. IsFiniteSet(1..n) /\ Cardinality(1..n) = n
    BY FS_Interval
  <1>2. AdaptersTo(n, m) \subseteq 1..n
    BY DEF AdaptersTo
  <1>3. /\ IsFiniteSet(AdaptersTo(n, m)) /\ Cardinality(AdaptersTo(n, m)) <= n
    BY <1>1, <1>2, FS_Subset
  <1>4. Cardinality(AdaptersTo(n, m)) \in Nat
    BY <1>3, FS_CardinalityType
  <1>5. QED
    BY <1>3, <1>4

LEMMA OneAdapterMore ==
  ASSUME NEW n \in Nat, NEW m
  PROVE  Cardinality(AdaptersTo(n + 1, m)) =
           Cardinality(AdaptersTo(n, m)) +
             IF guestItems[n + 1].nic /\ m \in ModelOf(guestItems[n + 1]) THEN 1 ELSE 0
  <1>1. guestItems[n + 1].nic /\ m \in ModelOf(guestItems[n + 1])
          => AdaptersTo(n + 1, m) = AdaptersTo(n, m) \union {n + 1}
    BY ModelUnique DEF AdaptersTo
  <1>2. ~(guestItems[n + 1].nic /\ m \in ModelOf(guestItems[n + 1]))
          => AdaptersTo(n + 1, m) = AdaptersTo(n, m)
    BY DEF AdaptersTo
  <1>3. n + 1 \notin AdaptersTo(n, m)
    BY DEF AdaptersTo
  <1>4. /\ IsFiniteSet(AdaptersTo(n, m)) /\ Cardinality(AdaptersTo(n, m)) \in Nat
    BY AdaptersFinite
  <1>5. Cardinality(AdaptersTo(n, m) \union {n + 1}) = Cardinality(AdaptersTo(n, m)) + 1
    BY <1>3, <1>4, FS_AddElement
  <1>6. CASE guestItems[n + 1].nic /\ m \in ModelOf(guestItems[n + 1])
    BY <1>1, <1>5, <1>6
  <1>7. CASE ~(guestItems[n + 1].nic /\ m \in ModelOf(guestItems[n + 1]))
    BY <1>2, <1>4, <1>7
  <1>8. QED
    BY <1>6, <1>7

(* The loop of pickNICModel: one model is the first of the most frequent.  *)
LEMMA FirstMost ==
  ASSUME NEW c \in [1..5 -> Nat]
  PROVE  \E k \in 1..5 : /\ \A j \in 1..5 : c[j] <= c[k]
                         /\ \A j \in 1..(k - 1) : c[j] < c[k]
  <1> DEFINE Most(n) == \E k \in 1..n : /\ \A j \in 1..n : c[j] <= c[k]
                                        /\ \A j \in 1..(k - 1) : c[j] < c[k]
  <1>1. Most(1)
    OBVIOUS
  <1>2. ASSUME NEW n \in 1..4, Most(n) PROVE Most(n + 1)
    <2>1. PICK k \in 1..n : /\ \A j \in 1..n : c[j] <= c[k]
                            /\ \A j \in 1..(k - 1) : c[j] < c[k]
      BY <1>2
    <2>2. CASE c[n + 1] <= c[k]
      BY <2>1, <2>2
    <2>3. CASE c[n + 1] > c[k]
      <3>1. /\ \A j \in 1..(n + 1) : c[j] <= c[n + 1]
            /\ \A j \in 1..((n + 1) - 1) : c[j] < c[n + 1]
        BY <2>1, <2>3
      <3>2. QED
        BY <3>1
    <2>4. QED
      BY <2>1, <2>2, <2>3
  <1>3. Most(1 + 1) /\ 1 + 1 = 2
    BY <1>1, <1>2
  <1>4. Most(2 + 1) /\ 2 + 1 = 3
    BY <1>2, <1>3
  <1>5. Most(3 + 1) /\ 3 + 1 = 4
    BY <1>2, <1>4
  <1>6. Most(4 + 1) /\ 4 + 1 = 5
    BY <1>2, <1>5
  <1>7. QED
    BY <1>6

LEMMA NICModelMost ==
  ASSUME counts \in [ModelNames -> Nat]
  PROVE  NICModel \in ModelNames /\ \A m \in ModelNames : counts[m] <= counts[NICModel]
  <1>1. DOMAIN Models = 1..5 /\ \A k \in 1..5 : Models[k] \in ModelNames
    BY DEF Models, ModelNames
  <1>2. \A m \in ModelNames : \E k \in 1..5 : m = Models[k]
    BY <1>1 DEF ModelNames
  <1>3. "e1000e" \in ModelNames
    <2>1. 2 \in DOMAIN Models /\ Models[2] = "e1000e"
      BY DEF Models
    <2>2. QED
      BY <2>1 DEF ModelNames
  <1>4. CASE \A m \in ModelNames : counts[m] = 0
    BY <1>3, <1>4 DEF NICModel
  <1>5. CASE ~\A m \in ModelNames : counts[m] = 0
    <2> DEFINE c == [k \in 1..5 |-> counts[Models[k]]]
               Best(k) == /\ \A j \in DOMAIN Models : counts[Models[j]] <= counts[Models[k]]
                          /\ \A j \in 1..(k - 1) : counts[Models[j]] < counts[Models[k]]
    <2>1. c \in [1..5 -> Nat]
      BY <1>1
    <2>2. PICK k \in 1..5 : /\ \A j \in 1..5 : c[j] <= c[k]
                            /\ \A j \in 1..(k - 1) : c[j] < c[k]
      <3> HIDE DEF c
      <3>1. QED
        BY <2>1, FirstMost
    <2>3. Best(k)
      BY <1>1, <2>2
    <2>4. NICModel = Models[CHOOSE i \in DOMAIN Models : Best(i)]
      BY <1>5 DEF NICModel
    <2> HIDE DEF c, Best
    <2>5. PICK b \in DOMAIN Models : b = (CHOOSE i \in DOMAIN Models : Best(i)) /\ Best(b)
      BY <1>1, <2>3
    <2>6. NICModel = Models[b] /\ \A j \in 1..5 : counts[Models[j]] <= counts[Models[b]]
      BY <1>1, <2>4, <2>5 DEF Best
    <2>7. QED
      BY <1>1, <1>2, <2>5, <2>6
  <1>6. QED
    BY <1>4, <1>5

LEMMA GuestInitially == GuestInit => GuestInv
  <1> SUFFICES ASSUME GuestInit PROVE GuestInv
    OBVIOUS
  <1>1. PICK n \in 0..MaxGuestItems : guestItems \in [1..n -> GuestItems]
    BY DEF GuestInit
  <1>2. guestItems \in Seq(GuestItems) /\ Len(guestItems) \in Nat
    BY <1>1, GuestDetectionAssumption
  <1>3. DOMAIN config = {} /\ DOMAIN elements = {}
    BY DEF GuestInit
  <1>4. GuestTypeOK
    <2>1. elements \in Seq(Configs)
      BY DEF GuestInit
    <2>2. counts \in [ModelNames -> 0..Len(guestItems)]
      BY <1>2 DEF GuestInit
    <2>3. guestNext \in 1..(Len(guestItems) + 1)
      BY <1>2 DEF GuestInit
    <2>4. QED
      BY <1>2, <1>3, <2>1, <2>2, <2>3 DEF GuestInit, GuestTypeOK
  <1>5. LastSettings
    BY <1>3 DEF LastSettings
  <1>6. \A m \in ModelNames : counts[m] = Cardinality(AdaptersTo(guestNext - 1, m))
    <2>1. guestNext - 1 = 0
      BY DEF GuestInit
    <2>2. \A m : AdaptersTo(0, m) = {}
      BY DEF AdaptersTo
    <2>3. QED
      BY <2>1, <2>2, FS_EmptySet DEF GuestInit
  <1>7. QED
    BY <1>4, <1>5, <1>6 DEF GuestInit, GuestInv

(* Reading one more element of Config keeps what the map has.              *)
LEMMA OneElementMore ==
  ASSUME GuestInv, NEW e \in Configs, ReadConfig(e)
  PROVE  /\ LastSettings'
         /\ DOMAIN config' \subseteq Keys /\ \A k \in DOMAIN config' : config'[k] \in Values
         /\ elements' \in Seq(Configs) /\ DOMAIN config \subseteq DOMAIN config'
  <1>1. /\ elements' = Append(elements, e)
        /\ config' = [k \in DOMAIN config \union {e.key} |->
                         IF k = e.key THEN e.value ELSE config[k]]
        /\ elements \in Seq(Configs) /\ e.key \in Keys /\ e.value \in Values
    BY GuestDetectionAssumption DEF ReadConfig, GuestInv, GuestTypeOK
  <1>2. PICK n \in Nat :
          /\ DOMAIN elements = 1..n /\ DOMAIN elements' = 1..(n + 1)
          /\ elements'[n + 1] = e /\ \A k \in 1..n : elements'[k] = elements[k]
    <2>1. /\ Len(elements) \in Nat
          /\ DOMAIN elements = 1..Len(elements) /\ DOMAIN elements' = 1..(Len(elements) + 1)
          /\ elements'[Len(elements) + 1] = e
          /\ \A k \in 1..Len(elements) : elements'[k] = elements[k]
      BY <1>1
    <2>2. QED
      BY <2>1
  <1>3. /\ DOMAIN config' = DOMAIN config \union {e.key}
        /\ config'[e.key] = e.value
        /\ \A k \in DOMAIN config : k # e.key => config'[k] = config[k]
    BY <1>1
  <1>4. LastOfKey(n + 1)'
    BY <1>2 DEF LastOfKey
  <1>5. \A k \in 1..n : LastOfKey(k)' <=> LastOfKey(k) /\ elements[k].key # e.key
    BY <1>2 DEF LastOfKey
  <1>6. ASSUME NEW k \in DOMAIN config'
        PROVE  \E o \in DOMAIN elements' :
                 elements'[o].key = k /\ elements'[o].value = config'[k] /\ LastOfKey(o)'
    <2>1. CASE k = e.key
      BY <1>2, <1>3, <1>4, <2>1
    <2>2. CASE k # e.key
      <3>1. PICK o \in 1..n : elements[o].key = k /\ elements[o].value = config[k] /\ LastOfKey(o)
        BY <1>2, <1>3, <1>6, <2>2 DEF GuestInv, LastSettings
      <3>2. o \in 1..(n + 1)
        BY <1>2
      <3>3. QED
        BY <1>2, <1>3, <1>5, <1>6, <2>2, <3>1, <3>2
    <2>3. QED
      BY <2>1, <2>2
  <1>7. ASSUME NEW o \in DOMAIN elements', LastOfKey(o)'
        PROVE  elements'[o].key \in DOMAIN config' /\ config'[elements'[o].key] = elements'[o].value
    <2>1. CASE o = n + 1
      BY <1>2, <1>3, <2>1
    <2>2. CASE o \in 1..n
      <3>1. LastOfKey(o) /\ elements[o].key # e.key
        BY <1>5, <1>7, <2>2
      <3>2. elements[o].key \in DOMAIN config /\ config[elements[o].key] = elements[o].value
        BY <1>2, <2>2, <3>1 DEF GuestInv, LastSettings
      <3>3. QED
        BY <1>2, <1>3, <2>2, <3>1, <3>2
    <2>3. QED
      BY <1>2, <2>1, <2>2
  <1>8. LastSettings'
    BY <1>6, <1>7 DEF LastSettings
  <1>9. /\ DOMAIN config' \subseteq Keys
        /\ \A k \in DOMAIN config' : config'[k] \in Values
    BY <1>1, <1>3 DEF GuestInv, GuestTypeOK
  <1>10. elements' \in Seq(Configs)
    BY <1>1
  <1>11. QED
    BY <1>3, <1>8, <1>9, <1>10

(* Once the settings are read they stay.                                   *)
LEMMA SettingsFixed ==
  ASSUME UNCHANGED <<elements, config>>
  PROVE  /\ LastSettings' = LastSettings
         /\ \A visited, keys, values : Set(visited, keys, values)' <=> Set(visited, keys, values)
         /\ \A visited : FirmwareFound(visited)' <=>
              firmware' = IF Set(visited, SecureKeys, SaysTrue) THEN "secureboot"
                          ELSE IF Set(DOMAIN config, FirmwareKeys, SaysEFI) THEN "uefi" ELSE "bios"
  <1>1. LastSettings' = LastSettings
    BY DEF LastSettings, LastOfKey
  <1>2. \A visited, keys, values : Set(visited, keys, values)' <=> Set(visited, keys, values)
    BY DEF Set
  <1>3. QED
    BY <1>1, <1>2 DEF FirmwareFound

(* Steps after which the adapters counted are as before, in all loops but  *)
(* the last.                                                               *)
LEMMA CountsFixed ==
  ASSUME GuestInv, UNCHANGED <<guestItems, counts, guestNext>>
  PROVE  /\ (\A m \in ModelNames : counts[m] = Cardinality(AdaptersTo(guestNext - 1, m)))'
         /\ guestItems' \in Seq(GuestItems) /\ counts' \in [ModelNames -> 0..Len(guestItems')]
         /\ guestNext' \in 1..(Len(guestItems') + 1)
  BY DEF GuestInv, GuestTypeOK, AdaptersTo

LEMMA GuestStepsKeep == GuestInv /\ [GuestSteps]_guestVars => GuestInv'
  <1> SUFFICES ASSUME GuestInv, [GuestSteps]_guestVars PROVE GuestInv'
    OBVIOUS
  <1> USE DEF guestSource, found
  <1>1. ASSUME NEW e \in Configs, ReadConfig(e) PROVE GuestInv'
    <2>1. /\ guestStep = "config"
          /\ UNCHANGED <<guestItems, option, guestStep, pending, efi, firmware, tpm, counts,
                         guestNext, enabled>>
      BY <1>1 DEF ReadConfig
    <2>2. GuestTypeOK'
      BY <1>1, <2>1, OneElementMore, CountsFixed DEF GuestInv, GuestTypeOK
    <2>3. QED
      BY <1>1, <2>1, <2>2, OneElementMore, CountsFixed DEF GuestInv
  <1>2. CASE EndOfConfig
    <2>1. /\ guestStep = "config" /\ guestStep' = "firmware" /\ pending' = DOMAIN config
          /\ UNCHANGED <<elements, guestItems, option, config, efi, firmware, tpm, counts,
                         guestNext, enabled>>
      BY <1>2 DEF EndOfConfig
    <2>2. GuestTypeOK'
      BY <2>1, CountsFixed DEF GuestInv, GuestTypeOK
    <2>3. ~Set(Visited, FirmwareKeys, SaysEFI)' /\ ~efi'
      BY <2>1 DEF GuestInv, Set, Visited
    <2>4. QED
      BY <2>1, <2>2, <2>3, CountsFixed, SettingsFixed DEF GuestInv
  <1>3. ASSUME NEW k \in Keys, VisitFirmware(k) PROVE GuestInv'
    <2>1. /\ guestStep = "firmware" /\ k \in pending /\ pending' = pending \ {k}
          /\ efi' = (efi \/ (k \in FirmwareKeys /\ config[k] \in SaysEFI))
          /\ UNCHANGED <<elements, guestItems, option, guestStep, config, firmware, tpm, counts,
                         guestNext, enabled>>
      BY <1>3 DEF VisitFirmware
    <2>2. GuestTypeOK'
      BY <2>1, CountsFixed DEF GuestInv, GuestTypeOK
    <2>3. efi' <=> Set(Visited, FirmwareKeys, SaysEFI)'
      BY <2>1 DEF GuestInv, GuestTypeOK, Set, Visited
    <2>4. QED
      BY <2>1, <2>2, <2>3, CountsFixed, SettingsFixed DEF GuestInv
  <1>4. CASE EndOfFirmware
    <2>1. /\ guestStep = "firmware" /\ pending = {} /\ pending' = DOMAIN config
          /\ firmware' = IF efi THEN "uefi" ELSE "bios"
          /\ guestStep' = "secure"
          /\ UNCHANGED <<elements, guestItems, option, config, efi, tpm, counts, guestNext, enabled>>
      BY <1>4 DEF EndOfFirmware
    <2>2. GuestTypeOK'
      BY <2>1, CountsFixed DEF GuestInv, GuestTypeOK
    <2>3. efi <=> Set(DOMAIN config, FirmwareKeys, SaysEFI)
      BY <2>1 DEF GuestInv, Visited, Set
    <2>4. ~Set(Visited, SecureKeys, SaysTrue)'
      BY <2>1 DEF Set, Visited
    <2>5. Set(DOMAIN config, FirmwareKeys, SaysEFI)' <=> Set(DOMAIN config, FirmwareKeys, SaysEFI)
      BY <2>1 DEF Set
    <2>6. FirmwareFound(Visited)'
      BY <2>1, <2>3, <2>4, <2>5 DEF FirmwareFound
    <2>7. QED
      BY <2>1, <2>2, <2>6, CountsFixed, SettingsFixed DEF GuestInv
  <1>5. ASSUME NEW k \in Keys, VisitSecure(k) PROVE GuestInv'
    <2>1. /\ guestStep = "secure" /\ k \in pending /\ pending' = pending \ {k}
          /\ firmware' = IF k \in SecureKeys /\ config[k] \in SaysTrue
                         THEN "secureboot" ELSE firmware
          /\ UNCHANGED <<elements, guestItems, option, guestStep, config, efi, tpm, counts,
                         guestNext, enabled>>
      BY <1>5 DEF VisitSecure
    <2>2. GuestTypeOK'
      BY <2>1, CountsFixed DEF GuestInv, GuestTypeOK
    <2>3. Set(Visited, SecureKeys, SaysTrue)'
            <=> Set(Visited, SecureKeys, SaysTrue) \/ (k \in SecureKeys /\ config[k] \in SaysTrue)
      BY <2>1 DEF GuestInv, GuestTypeOK, Set, Visited
    <2>4. Set(DOMAIN config, FirmwareKeys, SaysEFI)' <=> Set(DOMAIN config, FirmwareKeys, SaysEFI)
      BY <2>1 DEF Set
    <2>5. FirmwareFound(Visited)
      BY <2>1 DEF GuestInv
    <2>6. FirmwareFound(Visited)'
      BY <2>1, <2>3, <2>4, <2>5 DEF FirmwareFound
    <2>7. QED
      BY <2>1, <2>2, <2>6, CountsFixed, SettingsFixed DEF GuestInv
  <1>6. CASE EndOfSecure
    <2>1. /\ guestStep = "secure" /\ pending = {} /\ guestStep' = "tpm" /\ pending' = DOMAIN config
          /\ UNCHANGED <<elements, guestItems, option, config, efi, firmware, tpm, counts,
                         guestNext, enabled>>
      BY <1>6 DEF EndOfSecure
    <2>2. GuestTypeOK'
      BY <2>1, CountsFixed DEF GuestInv, GuestTypeOK
    <2>3. Visited = DOMAIN config /\ FirmwareFound(Visited)
      BY <2>1 DEF GuestInv, Visited
    <2>4. FirmwareFound(DOMAIN config)'
      BY <2>1, <2>3 DEF FirmwareFound, Set
    <2>5. ~Set(Visited, TPMKeys, SaysTrue)' /\ ~tpm'
      BY <2>1 DEF GuestInv, Set, Visited
    <2>6. QED
      BY <2>1, <2>2, <2>4, <2>5, CountsFixed, SettingsFixed DEF GuestInv
  <1>7. ASSUME NEW k \in Keys, VisitTPM(k) PROVE GuestInv'
    <2>1. /\ guestStep = "tpm" /\ k \in pending
          /\ tpm' = (k \in TPMKeys /\ config[k] \in SaysTrue)
          /\ pending' = IF tpm' THEN {} ELSE pending \ {k}
          /\ UNCHANGED <<elements, guestItems, option, guestStep, config, efi, firmware, counts,
                         guestNext, enabled>>
      BY <1>7 DEF VisitTPM
    <2>2. GuestTypeOK'
      BY <2>1, CountsFixed DEF GuestInv, GuestTypeOK
    <2>3. FirmwareFound(DOMAIN config)'
      BY <2>1 DEF GuestInv, FirmwareFound, Set
    <2>4. /\ tpm' => Set(DOMAIN config, TPMKeys, SaysTrue)'
          /\ ~tpm' => ~Set(Visited, TPMKeys, SaysTrue)'
      BY <2>1 DEF GuestInv, GuestTypeOK, Set, Visited
    <2>5. QED
      BY <2>1, <2>2, <2>3, <2>4, CountsFixed, SettingsFixed DEF GuestInv
  <1>8. CASE EndOfTPM
    <2>1. /\ guestStep = "tpm" /\ pending = {} /\ guestStep' = "nics"
          /\ tpm' = (tpm \/ \E k \in DOMAIN guestItems : guestItems[k].tpm)
          /\ UNCHANGED <<elements, guestItems, option, config, pending, efi, firmware, counts,
                         guestNext, enabled>>
      BY <1>8 DEF EndOfTPM
    <2>2. GuestTypeOK'
      BY <2>1, CountsFixed DEF GuestInv, GuestTypeOK
    <2>3. FirmwareFound(DOMAIN config)'
      BY <2>1 DEF GuestInv, FirmwareFound, Set
    <2>4. tpm <=> Set(DOMAIN config, TPMKeys, SaysTrue)
      BY <2>1 DEF GuestInv, GuestTypeOK, Visited
    <2>5. (tpm <=> \/ Set(DOMAIN config, TPMKeys, SaysTrue)
                   \/ \E k \in DOMAIN guestItems : guestItems[k].tpm)'
      BY <2>1, <2>4 DEF Set
    <2>6. QED
      BY <2>1, <2>2, <2>3, <2>5, CountsFixed, SettingsFixed DEF GuestInv
  <1>9. CASE CountNIC
    <2>1. /\ guestStep = "nics" /\ guestNext <= Len(guestItems) /\ guestNext' = guestNext + 1
          /\ counts' = [m \in ModelNames |->
                           IF guestItems[guestNext].nic /\ m \in ModelOf(guestItems[guestNext])
                           THEN counts[m] + 1 ELSE counts[m]]
          /\ UNCHANGED <<elements, guestItems, option, guestStep, config, pending, efi, firmware,
                         tpm, enabled>>
      BY <1>9 DEF CountNIC
    <2>2. /\ Len(guestItems) \in Nat /\ guestNext \in Nat /\ guestNext - 1 \in Nat
          /\ (guestNext - 1) + 1 = guestNext /\ guestNext' - 1 = guestNext
          /\ guestNext' \in 1..(Len(guestItems) + 1)
      BY <2>1 DEF GuestInv, GuestTypeOK
    <2>4. ASSUME NEW m \in ModelNames
          PROVE  counts'[m] = Cardinality(AdaptersTo(guestNext - 1, m))'
      <3>1. counts[m] = Cardinality(AdaptersTo(guestNext - 1, m))
        BY DEF GuestInv
      <3>2. Cardinality(AdaptersTo(guestNext, m)) =
              Cardinality(AdaptersTo(guestNext - 1, m)) +
                IF guestItems[guestNext].nic /\ m \in ModelOf(guestItems[guestNext]) THEN 1 ELSE 0
        BY <2>2, OneAdapterMore
      <3>3. counts[m] \in Nat
        BY <2>2, <3>1, AdaptersFinite
      <3>4. counts'[m] = Cardinality(AdaptersTo(guestNext, m))
        BY <2>1, <3>1, <3>2, <3>3
      <3>5. AdaptersTo(guestNext - 1, m)' = AdaptersTo(guestNext, m)
        BY <2>1, <2>2 DEF AdaptersTo
      <3>6. QED
        BY <3>4, <3>5
    <2>5. counts' \in [ModelNames -> 0..Len(guestItems)]
      <3>1. ASSUME NEW m \in ModelNames PROVE counts'[m] \in 0..Len(guestItems)
        <4>1. AdaptersTo(guestNext - 1, m)' = AdaptersTo(guestNext, m)
          BY <2>1, <2>2 DEF AdaptersTo
        <4>2. Cardinality(AdaptersTo(guestNext, m)) \in 0..guestNext
          BY <2>2, AdaptersFinite
        <4>3. QED
          BY <2>1, <2>2, <2>4, <4>1, <4>2
      <3>2. counts' = [m \in ModelNames |-> counts'[m]]
        BY <2>1
      <3>3. QED
        BY <3>1, <3>2
    <2>6. GuestTypeOK'
      BY <2>1, <2>2, <2>5 DEF GuestInv, GuestTypeOK
    <2>7. FirmwareFound(DOMAIN config)'
      BY <2>1 DEF GuestInv, FirmwareFound, Set
    <2>8. (tpm <=> \/ Set(DOMAIN config, TPMKeys, SaysTrue)
                   \/ \E k \in DOMAIN guestItems : guestItems[k].tpm)'
      BY <2>1 DEF GuestInv, Set
    <2>9. QED
      BY <2>1, <2>4, <2>6, <2>7, <2>8, SettingsFixed DEF GuestInv
  <1>10. CASE Finish
    <2>1. /\ guestStep = "nics" /\ guestNext > Len(guestItems) /\ guestStep' = "done"
          /\ enabled' = IF option = "auto" THEN tpm ELSE option = "tpm2"
          /\ UNCHANGED <<elements, guestItems, option, config, pending, efi, firmware, tpm, counts,
                         guestNext>>
      BY <1>10 DEF Finish
    <2>2. enabled' \in BOOLEAN /\ guestNext = Len(guestItems) + 1
      <3>1. Len(guestItems) \in Nat /\ guestNext \in 1..(Len(guestItems) + 1) /\ tpm \in BOOLEAN
        BY DEF GuestInv, GuestTypeOK
      <3>2. enabled' \in BOOLEAN
        <4>1. CASE option = "auto"
          BY <2>1, <3>1, <4>1
        <4>2. CASE option # "auto"
          BY <2>1, <4>2
        <4>3. QED
          BY <4>1, <4>2
      <3>3. guestNext = Len(guestItems) + 1
        BY <2>1, <3>1
      <3>4. QED
        BY <3>2, <3>3
    <2>3. GuestTypeOK'
      BY <2>1, <2>2, CountsFixed DEF GuestInv, GuestTypeOK
    <2>4. FirmwareFound(DOMAIN config)'
      BY <2>1 DEF GuestInv, FirmwareFound, Set
    <2>5. (tpm <=> \/ Set(DOMAIN config, TPMKeys, SaysTrue)
                   \/ \E k \in DOMAIN guestItems : guestItems[k].tpm)'
      BY <2>1 DEF GuestInv, Set
    <2>6. QED
      BY <2>1, <2>2, <2>3, <2>4, <2>5, CountsFixed, SettingsFixed DEF GuestInv
  <1>11. CASE UNCHANGED guestVars
    <2>1. UNCHANGED <<elements, guestItems, option, guestStep, config, pending, efi, firmware,
                      tpm, counts, guestNext, enabled>>
      BY <1>11 DEF guestVars
    <2>2. GuestTypeOK'
      BY <2>1, CountsFixed DEF GuestInv, GuestTypeOK
    <2>3. Visited' = Visited /\ \A visited : FirmwareFound(visited)' <=> FirmwareFound(visited)
      BY <2>1, SettingsFixed DEF Visited, FirmwareFound
    <2>4. QED
      BY <2>1, <2>2, <2>3, CountsFixed, SettingsFixed DEF GuestInv
  <1>12. QED
    BY <1>1, <1>2, <1>3, <1>4, <1>5, <1>6, <1>7, <1>8, <1>9, <1>10, <1>11 DEF GuestSteps

LEMMA GuestInvImplies == GuestInv => SettingsOfTheDocument
  <1> SUFFICES ASSUME GuestInv PROVE SettingsOfTheDocument
    OBVIOUS
  <1>1. \A keys, values : Set(DOMAIN config, keys, values) <=> Says(keys, values)
    BY SetSays DEF GuestInv
  <1>2. FirmwareOfTheDocument
    BY <1>1 DEF GuestInv, FirmwareFound, FirmwareOfTheDocument
  <1>3. FreshTPMWhereDeclared
    BY <1>1 DEF GuestInv, GuestTypeOK, FreshTPMWhereDeclared
  <1>4. MostCommonNIC
    <2> DEFINE NICs        == {k \in DOMAIN guestItems : guestItems[k].nic}
               Adapters(m) == {k \in NICs : Means(guestItems[k], m)}
    <2>1. SUFFICES ASSUME guestStep = "done",
                          \A k \in NICs : \/ guestItems[k].names = {}
                                          \/ \E m \in ModelNames : Means(guestItems[k], m)
                   PROVE  \A m \in ModelNames :
                            Cardinality(Adapters(m)) <= Cardinality(Adapters(NICModel))
      BY <2>1 DEF MostCommonNIC
    <2> HIDE DEF NICs, Adapters
    <2>2. guestNext - 1 = Len(guestItems)
      BY <2>1 DEF GuestInv, GuestTypeOK
    <2>3. \A m \in ModelNames : counts[m] = Cardinality(AdaptersTo(Len(guestItems), m))
      BY <2>2 DEF GuestInv
    <2>4. counts \in [ModelNames -> Nat]
      BY DEF GuestInv, GuestTypeOK
    <2>5. NICModel \in ModelNames /\ \A m \in ModelNames : counts[m] <= counts[NICModel]
      BY <2>4, NICModelMost
    <2>6. \A m \in ModelNames : Adapters(m) = AdaptersTo(Len(guestItems), m)
      <3>1. DOMAIN guestItems = 1..Len(guestItems)
        BY DEF GuestInv, GuestTypeOK
      <3>2. \A k \in NICs : \A m \in ModelNames :
              Means(guestItems[k], m) <=> ModelOf(guestItems[k]) = {m}
        BY <2>1, MeaningCounted
      <3>3. QED
        BY <3>1, <3>2 DEF AdaptersTo, NICs, Adapters
    <2>7. QED
      BY <2>3, <2>5, <2>6
  <1>5. QED
    BY <1>2, <1>3, <1>4 DEF SettingsOfTheDocument
-----------------------------------------------------------------------------
(* The quantities.  Sums is what it says: a least counterexample shows that*)
(* its equation has a solution as far as any n.                            *)
LEMMA LeastNatural ==
  ASSUME NEW S \in SUBSET Nat, S # {}
  PROVE  \E n \in S : \A m \in S : n <= m
  <1> DEFINE Smaller == {p \in Nat \X Nat : p[1] < p[2]}
  <1>1. IsWellFoundedOn(Smaller, Nat)
    BY NatLessThanWellFounded DEF OpToRel
  <1>2. PICK n \in S : \A m \in S : <<m, n>> \notin Smaller
    <2> HIDE DEF Smaller
    <2>1. QED
      BY <1>1, WFMin
  <1>3. ASSUME NEW m \in S PROVE n <= m
    <2>1. <<m, n>> \in Nat \X Nat /\ <<m, n>>[1] = m /\ <<m, n>>[2] = n
      OBVIOUS
    <2>2. ~(m < n)
      BY <1>2, <2>1
    <2>3. QED
      BY <2>2
  <1>4. QED
    BY <1>3

SumTo(g, f, n) == g = [k \in 0..n |-> IF k = 0 THEN 0 ELSE g[k - 1] + f[k]]

LEMMA OneSumMore ==
  ASSUME NEW n \in Nat, NEW f, f[n + 1] \in Int, NEW g \in [0..n -> Int], SumTo(g, f, n)
  PROVE  \E h \in [0..(n + 1) -> Int] : SumTo(h, f, n + 1)
  <1> DEFINE h == [k \in 0..(n + 1) |-> IF k = n + 1 THEN g[n] + f[n + 1] ELSE g[k]]
  <1>1. g[n] \in Int
    OBVIOUS
  <1>2. h \in [0..(n + 1) -> Int]
    <2>1. ASSUME NEW k \in 0..(n + 1) PROVE (IF k = n + 1 THEN g[n] + f[n + 1] ELSE g[k]) \in Int
      <3>1. k # n + 1 => k \in 0..n
        OBVIOUS
      <3>2. QED
        BY <1>1, <3>1
    <2>2. QED
      BY <2>1
  <1>3. ASSUME NEW k \in 0..(n + 1) PROVE h[k] = IF k = 0 THEN 0 ELSE h[k - 1] + f[k]
    <2>1. CASE k = n + 1
      <3>1. n \in 0..(n + 1) /\ n # n + 1 /\ k # 0 /\ k - 1 = n
        BY <2>1
      <3>2. h[n] = g[n] /\ h[n + 1] = g[n] + f[n + 1]
        BY <3>1
      <3>3. QED
        BY <2>1, <3>1, <3>2
    <2>2. CASE k \in 0..n
      <3>1. g[k] = IF k = 0 THEN 0 ELSE g[k - 1] + f[k]
        BY <2>2 DEF SumTo
      <3>2. h[k] = g[k]
        BY <2>2
      <3>3. k # 0 => k - 1 \in 0..n /\ k - 1 # n + 1 /\ k - 1 \in 0..(n + 1)
        BY <2>2
      <3>4. k # 0 => h[k - 1] = g[k - 1]
        BY <3>3
      <3>5. QED
        BY <3>1, <3>2, <3>4
    <2>3. QED
      BY <2>1, <2>2
  <1>4. h = [k \in 0..(n + 1) |-> h[k]]
    OBVIOUS
  <1> HIDE DEF h
  <1>5. SumTo(h, f, n + 1)
    BY <1>3, <1>4 DEF SumTo
  <1>6. QED
    BY <1>2, <1>5

LEMMA SumsAdd ==
  ASSUME NEW L \in Nat, NEW f \in [1..L -> Int]
  PROVE  /\ Sums(f) \in [0..L -> Int] /\ Sums(f)[0] = 0
         /\ \A n \in 1..L : Sums(f)[n] = Sums(f)[n - 1] + f[n]
  <1> DEFINE Has(n) == \E g \in [0..n -> Int] : SumTo(g, f, n)
             Bad == {n \in 0..L : ~Has(n)}
  <1>1. Bad = {}
    <2>1. SUFFICES ASSUME Bad # {} PROVE FALSE
      OBVIOUS
    <2>2. PICK n \in Bad : \A m \in Bad : n <= m
      <3> HIDE DEF Bad, Has
      <3>1. Bad \in SUBSET Nat
        BY DEF Bad
      <3>2. QED
        BY <2>1, <3>1, LeastNatural
    <2>3. Has(0)
      <3>1. LET g == [k \in 0..0 |-> 0]
            IN  g \in [0..0 -> Int] /\ g = [k \in 0..0 |-> IF k = 0 THEN 0 ELSE g[k - 1] + f[k]]
        OBVIOUS
      <3>2. QED
        BY <3>1 DEF SumTo
    <2>4. n # 0
      <3> HIDE DEF Has
      <3>1. QED
        BY <2>2, <2>3
    <2>5. n - 1 \in 0..L /\ n - 1 \in Nat /\ (n - 1) + 1 = n /\ n \in 1..L
      BY <2>2, <2>4
    <2>6. Has(n - 1)
      <3> HIDE DEF Has
      <3>1. n - 1 \notin Bad
        BY <2>2, <2>5
      <3>2. QED
        BY <2>5, <3>1
    <2>7. f[(n - 1) + 1] \in Int
      BY <2>5
    <2>8. Has((n - 1) + 1)
      BY <2>5, <2>6, <2>7, OneSumMore
    <2>9. QED
      BY <2>2, <2>5, <2>8
  <1>2. L \in 0..L /\ Len(f) = L
    OBVIOUS
  <1>3. \E g : g = [n \in 0..L |-> IF n = 0 THEN 0 ELSE g[n - 1] + f[n]]
    BY <1>1, <1>2 DEF SumTo
  <1>4. Sums(f) = [n \in 0..L |-> IF n = 0 THEN 0 ELSE Sums(f)[n - 1] + f[n]]
    BY <1>2, <1>3 DEF Sums
  <1> DEFINE s == Sums(f)
  <1>5. DOMAIN s = 0..L /\ s[0] = 0 /\ \A n \in 1..L : s[n] = s[n - 1] + f[n]
    <2> HIDE DEF s
    <2>1. s = [n \in 0..L |-> IF n = 0 THEN 0 ELSE s[n - 1] + f[n]]
      BY <1>4 DEF s
    <2>2. QED
      BY <2>1
  <1> HIDE DEF s
  <1>6. \A n \in 0..L : s[n] \in Int
    <2> DEFINE Odd == {n \in 0..L : s[n] \notin Int}
    <2>1. SUFFICES ASSUME Odd # {} PROVE FALSE
      OBVIOUS
    <2>2. PICK n \in Odd : \A m \in Odd : n <= m
      <3> HIDE DEF Odd
      <3>1. Odd \in SUBSET Nat
        BY DEF Odd
      <3>2. QED
        BY <2>1, <3>1, LeastNatural
    <2>3. n \in 1..L
      BY <1>5, <2>2
    <2>4. s[n] = s[n - 1] + f[n] /\ f[n] \in Int
      BY <1>5, <2>3
    <2>5. n - 1 \in 0..L /\ n - 1 \notin Odd
      BY <2>2, <2>3
    <2>6. QED
      BY <2>2, <2>4, <2>5
  <1>7. s = [n \in 0..L |-> s[n]]
    <2>1. s = [n \in 0..L |-> IF n = 0 THEN 0 ELSE s[n - 1] + f[n]]
      BY <1>4 DEF s
    <2>2. QED
      BY <2>1
  <1>8. s \in [0..L -> Int]
    BY <1>6, <1>7
  <1>9. QED
    BY <1>5, <1>8 DEF s

(* Rounding up, for a quotient by any number of bytes.                     *)
LEMMA CeilBounds ==
  ASSUME NEW m \in Int, NEW n \in Nat \ {0}
  PROVE  Ceil(m, n) \in Int /\ m <= Ceil(m, n) * n /\ Ceil(m, n) * n < m + n
  <1> DEFINE q == (-m) \div n
  <1>1. q \in Int /\ q * n <= -m /\ -m < q * n + n
    OBVIOUS
  <1>2. Ceil(m, n) = -q
    BY DEF Ceil
  <1> HIDE DEF q
  <1>3. (-q) * n = -(q * n) /\ q * n \in Int
    BY <1>1
  <1>4. QED
    BY <1>1, <1>2, <1>3

LEMMA CeilNoPositive ==
  ASSUME NEW m \in Int, m <= 0, NEW n \in Nat \ {0}
  PROVE  Ceil(m, n) <= 0
  <1>1. Ceil(m, n) \in Int /\ Ceil(m, n) * n < m + n
    BY CeilBounds
  <1>2. CASE Ceil(m, n) >= 1
    <2>1. Ceil(m, n) * n >= n
      BY <1>1, <1>2
    <2>2. QED
      BY <1>1, <2>1
  <1>3. QED
    BY <1>1, <1>2

(* The int64: what fits is kept, and what does not becomes one.            *)
LEMMA WrapKeeps ==
  ASSUME NEW m \in Int
  PROVE  InRange(Wrap(m)) /\ (InRange(m) => Wrap(m) = m)
  <1> DEFINE size == 2 * MaxInt + 2
             n == m + MaxInt + 1
  <1>1. MaxInt \in Nat /\ size \in Nat \ {0} /\ n \in Int
    BY HardwareQuantitiesAssumption
  <1>2. Wrap(m) = (n % size) - MaxInt - 1
    BY DEF Wrap
  <1>3. \A a \in Nat \ {0}, b \in Int : b % a \in 0..(a - 1) /\ (b \in 0..(a - 1) => b % a = b)
    OBVIOUS
  <1>4. n % size \in 0..(size - 1) /\ (n \in 0..(size - 1) => n % size = n)
    <2> HIDE DEF n, size
    <2>1. QED
      BY <1>1, <1>3
  <1>5. InRange(m) => n \in 0..(size - 1)
    BY <1>1 DEF InRange
  <1>6. QED
    BY <1>1, <1>2, <1>4, <1>5 DEF InRange

LEMMA ConversionFits ==
  ASSUME NEW halves \in Int, NEW n \in ToInt64(halves)
  PROVE  /\ InRange(n) /\ n \in Int
         /\ halves <= 0 => n <= 0
         /\ halves >= 0 /\ InRange(halves \div 2) => n = halves \div 2
  <1>1. MaxInt \in Nat
    BY HardwareQuantitiesAssumption
  <1>2. Truncated(halves) \in Int
    BY CeilBounds DEF Truncated
  <1>3. halves <= 0 => Truncated(halves) <= 0
    <2>1. CASE halves = 0
      BY <2>1 DEF Truncated
    <2>2. CASE halves < 0
      BY <2>2, CeilNoPositive DEF Truncated
    <2>3. QED
      BY <2>1, <2>2
  <1>4. halves >= 0 => Truncated(halves) = halves \div 2
    BY DEF Truncated
  <1>5. QED
    BY <1>1, <1>2, <1>3, <1>4 DEF ToInt64, InRange

(* What one memory item gets, of the MiBs an int64 of bytes can have.      *)
MostMiBs == (MaxInt \div MiB) + 1

LEMMA OneItemsMemory ==
  ASSUME NEW b \in 1..MaxInt
  PROVE  /\ Larger(1, Ceil(b, MiB)) \in 1..MostMiBs
         /\ b <= Larger(1, Ceil(b, MiB)) * MiB
         /\ Larger(1, Ceil(b, MiB)) * MiB <= b + (MiB - 1)
  <1> DEFINE c == Ceil(b, MiB)
             q == MaxInt \div MiB
  <1>1. MaxInt \in Nat /\ MiB \in Nat \ {0} /\ b \in Nat /\ 1 <= b /\ b <= MaxInt
    BY HardwareQuantitiesAssumption
  <1>2. q \in Nat /\ MaxInt < q * MiB + MiB
    BY <1>1
  <1>3. c \in Int /\ b <= c * MiB /\ c * MiB < b + MiB
    BY <1>1, CeilBounds
  <1>4. MostMiBs = q + 1
    BY DEF MostMiBs
  <1>5. Larger(1, c) = IF 1 > c THEN 1 ELSE c
    BY DEF Larger
  <1> HIDE DEF c, q
  <1>6. c <= q + 1
    <2>1. SUFFICES ASSUME c >= q + 2 PROVE FALSE
      BY <1>2, <1>3
    <2>2. c * MiB >= (q + 2) * MiB
      BY <1>1, <1>2, <1>3, <2>1
    <2>3. (q + 2) * MiB = q * MiB + MiB + MiB /\ q * MiB \in Nat /\ c * MiB \in Int
      BY <1>1, <1>2, <1>3
    <2>4. QED
      BY <1>1, <1>2, <1>3, <2>2, <2>3
  <1>7. CASE c >= 1
    BY <1>1, <1>2, <1>3, <1>4, <1>5, <1>6, <1>7 DEF c
  <1>8. CASE c < 1
    <2>1. c * MiB <= 0
      BY <1>1, <1>3, <1>8
    <2>2. QED
      BY <1>1, <1>3, <2>1
  <1>9. QED
    BY <1>3, <1>7, <1>8

LEMMA MemoryFits ==
  ASSUME NEW n \in Nat, n < MiB
  PROVE  MostMiBs \in Nat /\ n * MostMiBs \in Nat /\ n * MostMiBs <= MaxInt
  <1> DEFINE q == MaxInt \div MiB
  <1>1. MaxInt \in Nat /\ MiB \in Nat \ {0} /\ MaxInt >= MiB * MiB
    BY HardwareQuantitiesAssumption
  <1>2. q \in Nat /\ q * MiB <= MaxInt /\ MaxInt < q * MiB + MiB
    BY <1>1
  <1>3. MostMiBs = q + 1
    BY DEF MostMiBs
  <1> HIDE DEF q
  <1>4. q >= MiB
    <2>1. SUFFICES ASSUME q <= MiB - 1 PROVE FALSE
      BY <1>1, <1>2
    <2>2. q * MiB <= (MiB - 1) * MiB
      BY <1>1, <1>2, <2>1
    <2>3. (MiB - 1) * MiB = MiB * MiB - MiB
      BY <1>1
    <2>4. QED
      BY <1>1, <1>2, <2>2, <2>3
  <1>5. n * (q + 1) <= (MiB - 1) * (q + 1)
    BY <1>1, <1>2
  <1>6. (MiB - 1) * (q + 1) = q * MiB + MiB - q - 1
    BY <1>1, <1>2
  <1>7. QED
    BY <1>1, <1>2, <1>3, <1>4, <1>5, <1>6

(* The loop: what it has added up of the items it has passed.              *)
Counted(S, n) == Cardinality((1..n) \intersect S)

LEMMA OneCountedMore ==
  ASSUME NEW S, NEW n \in Nat
  PROVE  /\ Counted(S, n) \in 0..n /\ Counted(S, 0) = 0
         /\ Counted(S, n + 1) = Counted(S, n) + IF n + 1 \in S THEN 1 ELSE 0
  <1>1. IsFiniteSet(1..n) /\ Cardinality(1..n) = n
    BY FS_Interval
  <1>2. IsFiniteSet((1..n) \intersect S) /\ Cardinality((1..n) \intersect S) <= n
    BY <1>1, FS_Subset
  <1>3. Cardinality((1..n) \intersect S) \in Nat
    BY <1>2, FS_CardinalityType
  <1>4. Counted(S, 0) = 0
    <2>1. (1..0) \intersect S = {}
      OBVIOUS
    <2>2. QED
      BY <2>1, FS_EmptySet DEF Counted
  <1>5. CASE n + 1 \in S
    <2>1. (1..(n + 1)) \intersect S = ((1..n) \intersect S) \union {n + 1}
      BY <1>5
    <2>2. n + 1 \notin (1..n) \intersect S
      OBVIOUS
    <2>3. Cardinality(((1..n) \intersect S) \union {n + 1}) = Cardinality((1..n) \intersect S) + 1
      BY <1>2, <2>2, FS_AddElement
    <2>4. QED
      BY <1>2, <1>3, <1>4, <1>5, <2>1, <2>3 DEF Counted
  <1>6. CASE n + 1 \notin S
    <2>1. (1..(n + 1)) \intersect S = (1..n) \intersect S
      BY <1>6
    <2>2. QED
      BY <1>2, <1>3, <1>4, <1>6, <2>1 DEF Counted
  <1>7. QED
    BY <1>5, <1>6

Stating == {k \in Of("4") : sizeItems[k].number}

SilentTo(n) == \A k \in (1..n) \intersect Stating : sizeItems[k].halves <= 0

NoProcessorsTo(n) == \A k \in (1..n) \intersect Of("3") : ~sizeItems[k].number

Modest == Len(sizeItems) < MiB /\ \A k \in Of("4") : Sensible(k)

(* Processors that make up a number of them.                               *)
Counting ==
  /\ \A k \in Of("3") : sizeItems[k].number => sizeItems[k].halves >= 0
  /\ \A n \in DOMAIN sizeItems : ProcessorsAsked[n] <= MaxInt

MemoryTo(n) ==
  /\ Counted(Of("4"), n) <= ramMiB /\ ramMiB <= n * MostMiBs
  /\ MemoryAsked[n] <= ramMiB * MiB
  /\ ramMiB * MiB <= MemoryAsked[n] + Counted(Of("4"), n) * (MiB - 1)

SizeInv ==
  /\ SizeTypeOK
  /\ sizeItems \in Seq(SizeItems) /\ Len(sizeItems) <= MaxSizeItems
  /\ ethernet = Counted(Of("10"), sizeNext - 1)
  /\ sizeStep = "items" =>
       /\ SilentTo(sizeNext - 1) => ramMiB = Counted(Stating, sizeNext - 1)
       /\ NoProcessorsTo(sizeNext - 1) => cpu = 0
       /\ Counting => cpu = ProcessorsAsked[sizeNext - 1] /\ cpu >= 0
       /\ Modest => MemoryTo(sizeNext - 1)
  /\ sizeStep # "items" => sizeNext = Len(sizeItems) + 1
  /\ MemorySuffices /\ ProcessorsCounted /\ DefaultsWhereSilent /\ AdaptersCounted

LEMMA ItemsTyped ==
  ASSUME sizeItems \in Seq(SizeItems)
  PROVE  /\ Len(sizeItems) \in Nat /\ DOMAIN sizeItems = 1..Len(sizeItems)
         /\ \A k \in 1..Len(sizeItems) :
              /\ sizeItems[k] \in SizeItem /\ sizeItems[k].halves \in Int
              /\ Multiplier[sizeItems[k].units] \in Nat \ {0}
              /\ sizeItems[k].halves * Multiplier[sizeItems[k].units] \in Int
              /\ Bytes(k) \in Int
         /\ \A k \in 0..Len(sizeItems) : MemoryAsked[k] \in Int
         /\ MemoryAsked[0] = 0
         /\ \A k \in 1..Len(sizeItems) :
              MemoryAsked[k] = MemoryAsked[k - 1] + IF k \in Of("4") THEN Bytes(k) ELSE 0
         /\ \A k \in 0..Len(sizeItems) : ProcessorsAsked[k] \in Int
         /\ ProcessorsAsked[0] = 0
         /\ \A k \in 1..Len(sizeItems) :
              ProcessorsAsked[k] = ProcessorsAsked[k - 1] +
                IF k \in Of("3") /\ sizeItems[k].number THEN sizeItems[k].halves \div 2 ELSE 0
  <1>1. Len(sizeItems) \in Nat /\ DOMAIN sizeItems = 1..Len(sizeItems)
    OBVIOUS
  <1>2. ASSUME NEW k \in 1..Len(sizeItems)
        PROVE  /\ sizeItems[k] \in SizeItem /\ sizeItems[k].halves \in Int
               /\ Multiplier[sizeItems[k].units] \in Nat \ {0}
               /\ sizeItems[k].halves * Multiplier[sizeItems[k].units] \in Int
               /\ Bytes(k) \in Int
    <2>1. sizeItems[k] \in SizeItem
      BY <1>2, HardwareQuantitiesAssumption
    <2>2. sizeItems[k].halves \in Quantities /\ sizeItems[k].units \in DOMAIN Multiplier
      BY <2>1 DEF SizeItem
    <2>3. sizeItems[k].halves \in Int /\ Multiplier[sizeItems[k].units] \in Nat \ {0}
      <3>1. Quantities \subseteq Int /\ \A u \in DOMAIN Multiplier : Multiplier[u] \in Nat \ {0}
        BY HardwareQuantitiesAssumption
      <3>2. QED
        BY <2>2, <3>1
    <2>4. sizeItems[k].halves * Multiplier[sizeItems[k].units] \in Int
      BY <2>3
    <2>5. QED
      BY <2>1, <2>3, <2>4 DEF Bytes
  <1> DEFINE f == [k \in DOMAIN sizeItems |-> IF k \in Of("4") THEN Bytes(k) ELSE 0]
  <1>3. f \in [1..Len(sizeItems) -> Int]
    BY <1>1, <1>2
  <1>4. \A k \in 1..Len(sizeItems) : f[k] = IF k \in Of("4") THEN Bytes(k) ELSE 0
    BY <1>1
  <1>5. MemoryAsked = Sums(f)
    BY DEF MemoryAsked
  <1> HIDE DEF f
  <1>6. /\ Sums(f) \in [0..Len(sizeItems) -> Int] /\ Sums(f)[0] = 0
        /\ \A k \in 1..Len(sizeItems) : Sums(f)[k] = Sums(f)[k - 1] + f[k]
    BY <1>1, <1>3, SumsAdd
  <1> DEFINE g == [k \in DOMAIN sizeItems |->
                     IF k \in Of("3") /\ sizeItems[k].number THEN sizeItems[k].halves \div 2 ELSE 0]
  <1>7. g \in [1..Len(sizeItems) -> Int]
    BY <1>1, <1>2
  <1>8. \A k \in 1..Len(sizeItems) :
          g[k] = IF k \in Of("3") /\ sizeItems[k].number THEN sizeItems[k].halves \div 2 ELSE 0
    BY <1>1
  <1>9. ProcessorsAsked = Sums(g)
    BY DEF ProcessorsAsked
  <1> HIDE DEF g
  <1>10. /\ Sums(g) \in [0..Len(sizeItems) -> Int] /\ Sums(g)[0] = 0
         /\ \A k \in 1..Len(sizeItems) : Sums(g)[k] = Sums(g)[k - 1] + g[k]
    BY <1>1, <1>7, SumsAdd
  <1>11. QED
    BY <1>1, <1>2, <1>4, <1>5, <1>6, <1>8, <1>9, <1>10

(* The document does not change while it is read.                          *)
LEMMA DocumentFixed ==
  ASSUME UNCHANGED sizeItems
  PROVE  /\ \A type : Of(type)' = Of(type)
         /\ Stating' = Stating /\ MemoryAsked' = MemoryAsked /\ Modest' = Modest
         /\ ProcessorsAsked' = ProcessorsAsked /\ Counting' = Counting
         /\ \A S, n : Counted(S, n)' = Counted(S, n)
         /\ \A n : SilentTo(n)' = SilentTo(n) /\ NoProcessorsTo(n)' = NoProcessorsTo(n)
  <1>1. \A type : Of(type)' = Of(type)
    BY DEF Of
  <1>2. \A k : Bytes(k)' = Bytes(k) /\ Sensible(k)' = Sensible(k)
    BY DEF Bytes, Sensible, InRange
  <1>3. Stating' = Stating
    BY <1>1 DEF Stating
  <1>4. MemoryAsked' = MemoryAsked
    BY <1>1, <1>2 DEF MemoryAsked
  <1>5. Modest' = Modest
    BY <1>1, <1>2 DEF Modest
  <1>6. ProcessorsAsked' = ProcessorsAsked
    BY <1>1 DEF ProcessorsAsked
  <1>7. Counting' = Counting
    BY <1>1, <1>6 DEF Counting
  <1>8. QED
    BY <1>1, <1>3, <1>4, <1>5, <1>6, <1>7 DEF Counted, SilentTo, NoProcessorsTo

LEMMA SizeInitially == SizeInit => SizeInv
  <1> SUFFICES ASSUME SizeInit PROVE SizeInv
    OBVIOUS
  <1>1. MaxSizeItems \in Nat /\ MaxInt \in Nat /\ MiB \in Nat
    BY HardwareQuantitiesAssumption
  <1>2. PICK n \in 0..MaxSizeItems : sizeItems \in [1..n -> SizeItems]
    BY DEF SizeInit
  <1>3. n \in Nat /\ sizeItems \in Seq(SizeItems) /\ Len(sizeItems) = n
    BY <1>1, <1>2
  <1>4. /\ sizeStep = "items" /\ sizeNext = 1 /\ cpu = 0 /\ ramMiB = 0 /\ ethernet = 0
        /\ sizeNext - 1 = 0
    BY DEF SizeInit
  <1>5. SizeTypeOK
    BY <1>1, <1>3, <1>4 DEF SizeTypeOK, InRange
  <1>6. \A S : Counted(S, 0) = 0
    BY OneCountedMore, 0 \in Nat
  <1>7. MemoryTo(0)
    <2>1. MemoryAsked[0] = 0
      BY <1>3, ItemsTyped
    <2>2. MostMiBs \in Int
      BY <1>1, HardwareQuantitiesAssumption DEF MostMiBs
    <2>3. QED
      BY <1>1, <1>4, <1>6, <2>1, <2>2 DEF MemoryTo
  <1>8. MemorySuffices /\ ProcessorsCounted /\ DefaultsWhereSilent /\ AdaptersCounted
    BY <1>4 DEF MemorySuffices, ProcessorsCounted, DefaultsWhereSilent, AdaptersCounted
  <1>9. ProcessorsAsked[0] = 0
    BY <1>3, ItemsTyped
  <1>10. QED
    BY <1>1, <1>2, <1>3, <1>4, <1>5, <1>6, <1>7, <1>8, <1>9 DEF SizeInv

(* The item the loop has come to, and what it changes of the sums.         *)
LEMMA ItemHere ==
  ASSUME SizeInv, NEW type, Here(type)
  PROVE  /\ sizeNext \in 1..Len(sizeItems) /\ sizeNext - 1 \in Nat /\ (sizeNext - 1) + 1 = sizeNext
         /\ Len(sizeItems) \in Nat /\ Len(sizeItems) <= MaxInt /\ MaxInt \in Nat
         /\ \A t : sizeNext \in Of(t) <=> t = type
         /\ sizeNext \in Stating <=> type = "4" /\ ThisItem.number
         /\ \A S : /\ Counted(S, sizeNext - 1) \in 0..(sizeNext - 1)
                   /\ Counted(S, sizeNext) =
                        Counted(S, sizeNext - 1) + IF sizeNext \in S THEN 1 ELSE 0
         /\ MemoryAsked[sizeNext - 1] \in Int
         /\ MemoryAsked[sizeNext] =
              MemoryAsked[sizeNext - 1] + IF type = "4" THEN Bytes(sizeNext) ELSE 0
         /\ SilentTo(sizeNext) <=>
              SilentTo(sizeNext - 1) /\ (sizeNext \in Stating => ThisItem.halves <= 0)
         /\ NoProcessorsTo(sizeNext) <=>
              NoProcessorsTo(sizeNext - 1) /\ (type = "3" => ~ThisItem.number)
         /\ ProcessorsAsked[sizeNext - 1] \in Int
         /\ ProcessorsAsked[sizeNext] =
              ProcessorsAsked[sizeNext - 1] +
                IF type = "3" /\ ThisItem.number THEN ThisItem.halves \div 2 ELSE 0
         /\ Counting => /\ type = "3" /\ ThisItem.number => ThisItem.halves >= 0
                        /\ ProcessorsAsked[sizeNext] <= MaxInt
  <1>1. /\ sizeNext <= Len(sizeItems) /\ ThisItem.type = type
        /\ sizeNext \in 1..(Len(sizeItems) + 1) /\ Len(sizeItems) <= MaxSizeItems
        /\ sizeItems \in Seq(SizeItems) /\ MaxSizeItems \in Nat
        /\ MaxSizeItems <= MaxInt /\ MaxInt \in Nat
    BY HardwareQuantitiesAssumption DEF Here, SizeInv, SizeTypeOK
  <1>2. /\ Len(sizeItems) \in Nat /\ DOMAIN sizeItems = 1..Len(sizeItems)
        /\ \A k \in 0..Len(sizeItems) : MemoryAsked[k] \in Int
        /\ \A k \in 1..Len(sizeItems) :
             MemoryAsked[k] = MemoryAsked[k - 1] + IF k \in Of("4") THEN Bytes(k) ELSE 0
    BY <1>1, ItemsTyped
  <1>3. /\ sizeNext \in 1..Len(sizeItems) /\ sizeNext - 1 \in Nat /\ (sizeNext - 1) + 1 = sizeNext
        /\ Len(sizeItems) <= MaxInt /\ sizeNext - 1 \in 0..Len(sizeItems)
    BY <1>1, <1>2
  <1>4. \A t : sizeNext \in Of(t) <=> t = type
    BY <1>1, <1>2, <1>3 DEF Of, ThisItem
  <1>5. sizeNext \in Stating <=> type = "4" /\ ThisItem.number
    BY <1>4 DEF Stating, ThisItem
  <1>6. \A S : /\ Counted(S, sizeNext - 1) \in 0..(sizeNext - 1)
              /\ Counted(S, sizeNext) =
                   Counted(S, sizeNext - 1) + IF sizeNext \in S THEN 1 ELSE 0
    <2>1. SUFFICES ASSUME NEW S
                   PROVE  /\ Counted(S, sizeNext - 1) \in 0..(sizeNext - 1)
                          /\ Counted(S, (sizeNext - 1) + 1) =
                               Counted(S, sizeNext - 1) + IF (sizeNext - 1) + 1 \in S THEN 1 ELSE 0
      BY <1>3
    <2>2. QED
      BY <1>3, OneCountedMore
  <1>7. 1..sizeNext = (1..(sizeNext - 1)) \union {sizeNext}
    BY <1>3
  <1>8. SilentTo(sizeNext) <=>
          SilentTo(sizeNext - 1) /\ (sizeNext \in Stating => ThisItem.halves <= 0)
    BY <1>7 DEF SilentTo, ThisItem
  <1>9. NoProcessorsTo(sizeNext) <=>
          NoProcessorsTo(sizeNext - 1) /\ (type = "3" => ~ThisItem.number)
    BY <1>4, <1>7 DEF NoProcessorsTo, ThisItem
  <1>10. /\ MemoryAsked[sizeNext - 1] \in Int
         /\ MemoryAsked[sizeNext] =
              MemoryAsked[sizeNext - 1] + IF type = "4" THEN Bytes(sizeNext) ELSE 0
    BY <1>2, <1>3, <1>4
  <1>11. /\ ProcessorsAsked[sizeNext - 1] \in Int
         /\ ProcessorsAsked[sizeNext] =
              ProcessorsAsked[sizeNext - 1] +
                IF type = "3" /\ ThisItem.number THEN ThisItem.halves \div 2 ELSE 0
    <2>1. sizeNext \in Of("3") <=> type = "3"
      BY <1>4
    <2>2. QED
      BY <1>1, <1>3, <2>1, ItemsTyped DEF ThisItem
  <1>12. Counting => /\ type = "3" /\ ThisItem.number => ThisItem.halves >= 0
                     /\ ProcessorsAsked[sizeNext] <= MaxInt
    BY <1>2, <1>3, <1>4 DEF Counting, ThisItem
  <1>13. QED
    BY <1>1, <1>2, <1>3, <1>4, <1>5, <1>6, <1>8, <1>9, <1>10, <1>11, <1>12

(* A step of the loop keeps the invariant if its sums go on.               *)
LEMMA ItemPassed ==
  ASSUME SizeInv, NEW type, Here(type), sizeNext' = sizeNext + 1,
         UNCHANGED <<sizeItems, sizeStep, template>>,
         InRange(cpu'), InRange(ramMiB'), ethernet' = Counted(Of("10"), sizeNext),
         SilentTo(sizeNext) => ramMiB' = Counted(Stating, sizeNext),
         NoProcessorsTo(sizeNext) => cpu' = 0,
         Counting => cpu' = ProcessorsAsked[sizeNext] /\ cpu' >= 0,
         Modest => /\ Counted(Of("4"), sizeNext) <= ramMiB' /\ ramMiB' <= sizeNext * MostMiBs
                   /\ MemoryAsked[sizeNext] <= ramMiB' * MiB
                   /\ ramMiB' * MiB <= MemoryAsked[sizeNext] + Counted(Of("4"), sizeNext) * (MiB - 1)
  PROVE  SizeInv'
  <1>1. sizeStep = "items" /\ sizeStep' = "items" /\ sizeNext' - 1 = sizeNext
    BY ItemHere DEF Here
  <1>2. sizeItems' \in Seq(SizeItems) /\ Len(sizeItems') <= MaxSizeItems
    BY DEF SizeInv
  <1>3. sizeNext' \in 1..(Len(sizeItems') + 1) /\ ethernet' \in 0..Len(sizeItems')
    <2>1. /\ sizeNext \in 1..Len(sizeItems) /\ Len(sizeItems) \in Nat
          /\ Counted(Of("10"), sizeNext - 1) \in 0..(sizeNext - 1)
          /\ Counted(Of("10"), sizeNext) =
               Counted(Of("10"), sizeNext - 1) + IF sizeNext \in Of("10") THEN 1 ELSE 0
      BY ItemHere
    <2>2. QED
      BY <2>1
  <1>4. SizeTypeOK'
    BY <1>1, <1>3 DEF SizeTypeOK, InRange
  <1>5. /\ (ethernet = Counted(Of("10"), sizeNext - 1))'
        /\ (SilentTo(sizeNext - 1) => ramMiB = Counted(Stating, sizeNext - 1))'
        /\ (NoProcessorsTo(sizeNext - 1) => cpu = 0)'
        /\ (Counting => cpu = ProcessorsAsked[sizeNext - 1] /\ cpu >= 0)'
    BY <1>1, DocumentFixed
  <1>6. (Modest => MemoryTo(sizeNext - 1))'
    BY <1>1, DocumentFixed DEF MemoryTo, MostMiBs
  <1>7. (MemorySuffices /\ ProcessorsCounted /\ DefaultsWhereSilent /\ AdaptersCounted)'
    BY <1>1 DEF MemorySuffices, ProcessorsCounted, DefaultsWhereSilent, AdaptersCounted
  <1>8. QED
    BY <1>1, <1>2, <1>4, <1>5, <1>6, <1>7 DEF SizeInv

LEMMA NoProcessorItem ==
  ASSUME SizeInv, NEW type, type # "3", Here(type), cpu' = cpu
  PROVE  /\ InRange(cpu')
         /\ NoProcessorsTo(sizeNext) => cpu' = 0
         /\ Counting => cpu' = ProcessorsAsked[sizeNext] /\ cpu' >= 0
  <1>1. sizeStep = "items" /\ InRange(cpu)
    BY DEF Here, SizeInv, SizeTypeOK
  <1>2. /\ ProcessorsAsked[sizeNext - 1] \in Int
        /\ ProcessorsAsked[sizeNext] =
             ProcessorsAsked[sizeNext - 1] +
               IF type = "3" /\ ThisItem.number THEN ThisItem.halves \div 2 ELSE 0
        /\ NoProcessorsTo(sizeNext) => NoProcessorsTo(sizeNext - 1)
    BY ItemHere
  <1>3. ProcessorsAsked[sizeNext] = ProcessorsAsked[sizeNext - 1]
    BY <1>2
  <1>4. QED
    BY <1>1, <1>2, <1>3 DEF SizeInv

LEMMA NoMemoryItem ==
  ASSUME SizeInv, NEW type, type # "4", Here(type), ramMiB' = ramMiB
  PROVE  /\ InRange(ramMiB')
         /\ SilentTo(sizeNext) => ramMiB' = Counted(Stating, sizeNext)
         /\ Modest => /\ Counted(Of("4"), sizeNext) <= ramMiB' /\ ramMiB' <= sizeNext * MostMiBs
                      /\ MemoryAsked[sizeNext] <= ramMiB' * MiB
                      /\ ramMiB' * MiB <= MemoryAsked[sizeNext] + Counted(Of("4"), sizeNext) * (MiB - 1)
  <1>1. sizeStep = "items" /\ InRange(ramMiB) /\ ramMiB \in Int
    BY DEF Here, SizeInv, SizeTypeOK, InRange
  <1>2. /\ sizeNext \notin Of("4") /\ sizeNext \notin Stating /\ sizeNext \in Nat
        /\ MemoryAsked[sizeNext - 1] \in Int
        /\ \A S : Counted(S, sizeNext - 1) \in 0..(sizeNext - 1)
    BY ItemHere
  <1>3. \A S : sizeNext \notin S => Counted(S, sizeNext) = Counted(S, sizeNext - 1)
    <2>1. SUFFICES ASSUME NEW S, sizeNext \notin S
                   PROVE  Counted(S, sizeNext) = Counted(S, sizeNext - 1)
      OBVIOUS
    <2>2. /\ Counted(S, sizeNext - 1) \in 0..(sizeNext - 1)
          /\ Counted(S, sizeNext) = Counted(S, sizeNext - 1) + IF sizeNext \in S THEN 1 ELSE 0
      BY ItemHere
    <2>3. QED
      BY <2>1, <2>2
  <1>4. MemoryAsked[sizeNext] = MemoryAsked[sizeNext - 1]
    <2>1. MemoryAsked[sizeNext] =
            MemoryAsked[sizeNext - 1] + IF type = "4" THEN Bytes(sizeNext) ELSE 0
      BY ItemHere
    <2>2. QED
      BY <1>2, <2>1
  <1>5. SilentTo(sizeNext) => ramMiB' = Counted(Stating, sizeNext)
    <2>1. SilentTo(sizeNext) => SilentTo(sizeNext - 1)
      BY ItemHere
    <2>2. QED
      BY <1>1, <1>2, <1>3, <2>1 DEF SizeInv
  <1>6. (sizeNext - 1) * MostMiBs <= sizeNext * MostMiBs /\ sizeNext * MostMiBs \in Int
        /\ (sizeNext - 1) * MostMiBs \in Int
    <2>1. MostMiBs \in Nat
      BY HardwareQuantitiesAssumption DEF MostMiBs
    <2>2. QED
      BY <1>2, <2>1
  <1>7. Modest => MemoryTo(sizeNext - 1)
    BY <1>1 DEF SizeInv
  <1>8. ASSUME Modest
        PROVE  /\ Counted(Of("4"), sizeNext) <= ramMiB' /\ ramMiB' <= sizeNext * MostMiBs
               /\ MemoryAsked[sizeNext] <= ramMiB' * MiB
               /\ ramMiB' * MiB <= MemoryAsked[sizeNext] + Counted(Of("4"), sizeNext) * (MiB - 1)
    <2>1. /\ Counted(Of("4"), sizeNext) <= ramMiB /\ ramMiB <= (sizeNext - 1) * MostMiBs
          /\ MemoryAsked[sizeNext] <= ramMiB * MiB
          /\ ramMiB * MiB <= MemoryAsked[sizeNext] + Counted(Of("4"), sizeNext) * (MiB - 1)
      BY <1>2, <1>3, <1>4, <1>7, <1>8 DEF MemoryTo
    <2>2. ramMiB <= sizeNext * MostMiBs
      BY <1>1, <1>6, <2>1
    <2>3. QED
      BY <2>1, <2>2
  <1>9. QED
    BY <1>1, <1>5, <1>8

LEMMA AddAdapterKeeps == SizeInv /\ AddAdapter => SizeInv'
  <1> SUFFICES ASSUME SizeInv, AddAdapter PROVE SizeInv'
    OBVIOUS
  <1>1. /\ Here("10") /\ sizeNext' = sizeNext + 1 /\ ethernet' = ethernet + 1
        /\ UNCHANGED <<sizeItems, sizeStep, cpu, ramMiB, template>>
    BY DEF AddAdapter
  <1>2. /\ InRange(cpu')
        /\ NoProcessorsTo(sizeNext) => cpu' = 0
        /\ Counting => cpu' = ProcessorsAsked[sizeNext] /\ cpu' >= 0
    BY <1>1, NoProcessorItem
  <1>3. ethernet' = Counted(Of("10"), sizeNext)
    <2>1. /\ sizeNext \in Of("10")
          /\ Counted(Of("10"), sizeNext) =
               Counted(Of("10"), sizeNext - 1) + IF sizeNext \in Of("10") THEN 1 ELSE 0
      BY <1>1, ItemHere
    <2>2. QED
      BY <1>1, <2>1 DEF SizeInv
  <1>4. /\ InRange(ramMiB')
        /\ SilentTo(sizeNext) => ramMiB' = Counted(Stating, sizeNext)
        /\ Modest => /\ Counted(Of("4"), sizeNext) <= ramMiB' /\ ramMiB' <= sizeNext * MostMiBs
                     /\ MemoryAsked[sizeNext] <= ramMiB' * MiB
                     /\ ramMiB' * MiB <= MemoryAsked[sizeNext] + Counted(Of("4"), sizeNext) * (MiB - 1)
    BY <1>1, NoMemoryItem
  <1>5. QED
    BY <1>1, <1>2, <1>3, <1>4, ItemPassed

LEMMA AddProcessorsKeeps == SizeInv /\ AddProcessors => SizeInv'
  <1> SUFFICES ASSUME SizeInv, AddProcessors PROVE SizeInv'
    OBVIOUS
  <1>1. /\ Here("3") /\ sizeNext' = sizeNext + 1
        /\ UNCHANGED <<sizeItems, sizeStep, ramMiB, ethernet, template>>
    BY DEF AddProcessors
  <1>2. sizeStep = "items" /\ InRange(cpu) /\ cpu \in Int
    BY <1>1 DEF Here, SizeInv, SizeTypeOK, InRange
  <1>3. InRange(cpu')
    <2>1. CASE UNCHANGED cpu
      BY <1>2, <2>1 DEF InRange
    <2>2. ASSUME NEW n \in ToInt64(ThisItem.halves), cpu' = Wrap(cpu + Larger(0, n))
          PROVE  InRange(cpu')
      <3>1. ThisItem.halves \in Int
        BY <1>1, ItemHere, ItemsTyped DEF ThisItem, SizeInv
      <3>2. n \in Int
        BY <2>2, <3>1, ConversionFits
      <3>3. cpu + Larger(0, n) \in Int
        BY <1>2, <3>2 DEF Larger
      <3>4. InRange(Wrap(cpu + Larger(0, n)))
        BY <3>3, WrapKeeps
      <3>5. QED
        BY <2>2, <3>4
    <2>3. QED
      BY <2>1, <2>2 DEF AddProcessors
  <1>4. ethernet' = Counted(Of("10"), sizeNext)
    <2>1. /\ sizeNext \notin Of("10") /\ Counted(Of("10"), sizeNext - 1) \in 0..(sizeNext - 1)
          /\ Counted(Of("10"), sizeNext) =
               Counted(Of("10"), sizeNext - 1) + IF sizeNext \in Of("10") THEN 1 ELSE 0
      BY <1>1, ItemHere
    <2>2. QED
      BY <1>1, <2>1 DEF SizeInv
  <1>5. NoProcessorsTo(sizeNext) => cpu' = 0
    <2>1. NoProcessorsTo(sizeNext) => NoProcessorsTo(sizeNext - 1) /\ ~ThisItem.number
      BY <1>1, ItemHere
    <2>2. ~ThisItem.number => cpu' = cpu
      BY DEF AddProcessors
    <2>3. QED
      BY <1>2, <2>1, <2>2 DEF SizeInv
  <1>6. /\ InRange(ramMiB')
        /\ SilentTo(sizeNext) => ramMiB' = Counted(Stating, sizeNext)
        /\ Modest => /\ Counted(Of("4"), sizeNext) <= ramMiB' /\ ramMiB' <= sizeNext * MostMiBs
                     /\ MemoryAsked[sizeNext] <= ramMiB' * MiB
                     /\ ramMiB' * MiB <= MemoryAsked[sizeNext] + Counted(Of("4"), sizeNext) * (MiB - 1)
    BY <1>1, NoMemoryItem
  <1>7. ASSUME Counting PROVE cpu' = ProcessorsAsked[sizeNext] /\ cpu' >= 0
    <2>1. /\ cpu = ProcessorsAsked[sizeNext - 1] /\ cpu >= 0
          /\ ProcessorsAsked[sizeNext] <= MaxInt /\ MaxInt \in Nat
          /\ ProcessorsAsked[sizeNext] =
               cpu + IF ThisItem.number THEN ThisItem.halves \div 2 ELSE 0
          /\ ThisItem.number => ThisItem.halves >= 0
      BY <1>1, <1>2, <1>7, ItemHere DEF SizeInv
    <2>2. CASE ~ThisItem.number /\ UNCHANGED cpu
      BY <1>2, <2>1, <2>2
    <2>3. ASSUME ThisItem.number, NEW n \in ToInt64(ThisItem.halves),
                 cpu' = Wrap(cpu + Larger(0, n))
          PROVE  cpu' = ProcessorsAsked[sizeNext] /\ cpu' >= 0
      <3>1. ThisItem.halves \in Int /\ ThisItem.halves >= 0
        BY <1>1, <2>1, <2>3, ItemHere, ItemsTyped DEF ThisItem, SizeInv
      <3> DEFINE half == ThisItem.halves \div 2
      <3>2. half \in Nat
        BY <3>1
      <3>3. ProcessorsAsked[sizeNext] = cpu + half
        BY <2>1, <2>3
      <3>4. n \in Int /\ (InRange(half) => n = half)
        BY <2>3, <3>1, ConversionFits
      <3> HIDE DEF half
      <3>5. InRange(half) /\ InRange(cpu + half)
        BY <1>2, <2>1, <3>2, <3>3 DEF InRange
      <3>6. Larger(0, n) = half
        BY <3>2, <3>4, <3>5 DEF Larger
      <3>7. cpu + half \in Int /\ cpu' = Wrap(cpu + half)
        BY <1>2, <2>3, <3>2, <3>6
      <3>8. cpu' = cpu + half
        BY <3>5, <3>7, WrapKeeps
      <3>9. QED
        BY <1>2, <2>1, <3>2, <3>3, <3>8
    <2>4. QED
      BY <2>2, <2>3 DEF AddProcessors
  <1>8. QED
    BY <1>1, <1>3, <1>4, <1>5, <1>6, <1>7, ItemPassed

(* What one number adds to the memory: at least a MiB, at least what it    *)
(* asks for, and less than a MiB more.                                     *)
LEMMA AddMemoryKeeps == SizeInv /\ AddMemory => SizeInv'
  <1> SUFFICES ASSUME SizeInv, AddMemory PROVE SizeInv'
    OBVIOUS
  <1> DEFINE asked == ThisItem.halves * Multiplier[ThisItem.units]
  <1>1. /\ Here("4") /\ sizeNext' = sizeNext + 1
        /\ UNCHANGED <<sizeItems, sizeStep, cpu, ethernet, template>>
    BY DEF AddMemory
  <1>2. /\ sizeStep = "items" /\ InRange(ramMiB) /\ ramMiB \in Int /\ InRange(cpu)
        /\ MiB \in Nat \ {0} /\ MaxInt \in Nat
    BY <1>1, HardwareQuantitiesAssumption DEF Here, SizeInv, SizeTypeOK, InRange
  <1>3. /\ sizeNext \in 1..Len(sizeItems) /\ sizeNext \in Of("4") /\ sizeNext \notin Of("10")
        /\ sizeNext \notin Of("3") /\ (sizeNext \in Stating <=> ThisItem.number)
        /\ sizeNext \in Nat /\ Len(sizeItems) \in Nat /\ Len(sizeItems) <= MaxInt
    BY <1>1, ItemHere
  <1>4. asked \in Int /\ ThisItem.halves \in Int /\ Multiplier[ThisItem.units] \in Nat \ {0}
    BY <1>3, ItemsTyped DEF ThisItem, SizeInv
  <1>5. /\ Counted(Of("10"), sizeNext) = Counted(Of("10"), sizeNext - 1)
        /\ Counted(Of("4"), sizeNext) = Counted(Of("4"), sizeNext - 1) + 1
        /\ Counted(Of("4"), sizeNext - 1) \in Nat
        /\ Counted(Stating, sizeNext - 1) \in 0..(sizeNext - 1)
        /\ ThisItem.number => Counted(Stating, sizeNext) = Counted(Stating, sizeNext - 1) + 1
        /\ ~ThisItem.number => Counted(Stating, sizeNext) = Counted(Stating, sizeNext - 1)
    <2>1. ASSUME NEW S
          PROVE  /\ Counted(S, sizeNext - 1) \in 0..(sizeNext - 1)
                 /\ sizeNext \in S => Counted(S, sizeNext) = Counted(S, sizeNext - 1) + 1
                 /\ sizeNext \notin S => Counted(S, sizeNext) = Counted(S, sizeNext - 1)
      <3>1. /\ Counted(S, sizeNext - 1) \in 0..(sizeNext - 1)
            /\ Counted(S, sizeNext) = Counted(S, sizeNext - 1) + IF sizeNext \in S THEN 1 ELSE 0
        BY <1>1, ItemHere
      <3>2. QED
        BY <3>1
    <2>2. QED
      BY <1>3, <2>1
  <1>6. /\ MemoryAsked[sizeNext - 1] \in Int
        /\ MemoryAsked[sizeNext] = MemoryAsked[sizeNext - 1] + Bytes(sizeNext)
        /\ Bytes(sizeNext) = asked \div 2
    <2>1. /\ MemoryAsked[sizeNext - 1] \in Int
          /\ MemoryAsked[sizeNext] =
               MemoryAsked[sizeNext - 1] + IF "4" = "4" THEN Bytes(sizeNext) ELSE 0
      BY <1>1, ItemHere
    <2>2. QED
      BY <2>1 DEF Bytes, ThisItem
  <1>7. ethernet' = Counted(Of("10"), sizeNext)
    BY <1>1, <1>5 DEF SizeInv
  <1>8. /\ NoProcessorsTo(sizeNext) => cpu' = 0
        /\ Counting => cpu' = ProcessorsAsked[sizeNext] /\ cpu' >= 0
    BY <1>1, NoProcessorItem
  <1>9. /\ SilentTo(sizeNext) => ramMiB = Counted(Stating, sizeNext - 1)
        /\ SilentTo(sizeNext) /\ ThisItem.number => ThisItem.halves <= 0
    BY <1>1, <1>2, <1>3, ItemHere DEF SizeInv
  <1>10. CASE ~ThisItem.number /\ UNCHANGED ramMiB
    <2>1. ~Modest
      BY <1>3, <1>10 DEF Modest, Sensible, ThisItem
    <2>2. SilentTo(sizeNext) => ramMiB' = Counted(Stating, sizeNext)
      BY <1>5, <1>9, <1>10
    <2>3. InRange(ramMiB') /\ InRange(cpu')
      BY <1>1, <1>2, <1>10 DEF InRange
    <2>4. QED
      BY <1>1, <1>7, <1>8, <2>1, <2>2, <2>3, ItemPassed
  <1>11. ASSUME ThisItem.number, NEW bytes \in ToInt64(asked),
                ramMiB' = Wrap(ramMiB + Larger(1, Ceil(bytes, MiB)))
         PROVE  SizeInv'
    <2> DEFINE more == Larger(1, Ceil(bytes, MiB))
    <2>1. bytes \in Int
      BY <1>4, <1>11, ConversionFits
    <2>2. more \in Int /\ more >= 1
      <3>1. Ceil(bytes, MiB) \in Int
        BY <1>2, <2>1, CeilBounds
      <3>2. QED
        BY <3>1 DEF Larger
    <2>3. InRange(ramMiB') /\ (InRange(ramMiB + more) => ramMiB' = ramMiB + more)
      <3>1. ramMiB + more \in Int
        BY <1>2, <2>2
      <3>2. QED
        BY <1>11, <3>1, WrapKeeps
    <2>4. SilentTo(sizeNext) => ramMiB' = Counted(Stating, sizeNext)
      <3>1. SUFFICES ASSUME SilentTo(sizeNext) PROVE ramMiB' = Counted(Stating, sizeNext)
        OBVIOUS
      <3>2. ThisItem.halves <= 0
        BY <1>9, <1>11, <3>1
      <3>3. asked <= 0
        <4>1. \A h \in Int, m \in Nat \ {0} : h <= 0 => h * m <= 0
          OBVIOUS
        <4>2. QED
          BY <1>4, <3>2, <4>1
      <3>4. bytes <= 0
        BY <1>4, <1>11, <3>3, ConversionFits
      <3>5. more = 1
        <4>1. Ceil(bytes, MiB) \in Int /\ Ceil(bytes, MiB) <= 0
          BY <1>2, <2>1, <3>4, CeilBounds, CeilNoPositive
        <4>2. QED
          BY <4>1 DEF Larger
      <3>6. ramMiB = Counted(Stating, sizeNext - 1) /\ InRange(ramMiB + 1)
        BY <1>2, <1>3, <1>5, <1>9, <3>1 DEF InRange
      <3>7. QED
        BY <1>5, <1>11, <2>3, <3>5, <3>6
    <2>5. ASSUME Modest
          PROVE  /\ Counted(Of("4"), sizeNext) <= ramMiB' /\ ramMiB' <= sizeNext * MostMiBs
                 /\ MemoryAsked[sizeNext] <= ramMiB' * MiB
                 /\ ramMiB' * MiB <= MemoryAsked[sizeNext] + Counted(Of("4"), sizeNext) * (MiB - 1)
      <3>1. asked \div 2 >= 1 /\ InRange(asked \div 2)
        BY <1>3, <1>6, <2>5 DEF Modest, Sensible
      <3>2. asked >= 0
        <4> HIDE DEF asked
        <4>1. QED
          BY <1>4, <3>1
      <3>3. bytes = asked \div 2 /\ bytes \in 1..MaxInt
        <4>1. bytes = asked \div 2
          BY <1>4, <1>11, <3>1, <3>2, ConversionFits
        <4>2. QED
          BY <1>2, <2>1, <3>1, <4>1 DEF InRange
      <3>4. more \in 1..MostMiBs /\ bytes <= more * MiB /\ more * MiB <= bytes + (MiB - 1)
        BY <3>3, OneItemsMemory
      <3>5. MemoryTo(sizeNext - 1)
        BY <1>2, <2>5 DEF SizeInv
      <3>6. /\ MostMiBs \in Nat /\ sizeNext * MostMiBs \in Nat /\ sizeNext * MostMiBs <= MaxInt
        <4>1. sizeNext < MiB
          BY <1>2, <1>3, <2>5 DEF Modest
        <4>2. QED
          BY <1>3, <4>1, MemoryFits
      <3>7. /\ Counted(Of("4"), sizeNext - 1) <= ramMiB /\ ramMiB <= (sizeNext - 1) * MostMiBs
            /\ MemoryAsked[sizeNext - 1] <= ramMiB * MiB
            /\ ramMiB * MiB <= MemoryAsked[sizeNext - 1] + Counted(Of("4"), sizeNext - 1) * (MiB - 1)
        BY <3>5 DEF MemoryTo
      <3> HIDE DEF more
      <3>8. (sizeNext - 1) * MostMiBs + MostMiBs = sizeNext * MostMiBs
            /\ (sizeNext - 1) * MostMiBs \in Int
        BY <1>3, <3>6
      <3>9. ramMiB + more <= sizeNext * MostMiBs /\ InRange(ramMiB + more)
        BY <1>2, <1>5, <2>2, <3>4, <3>6, <3>7, <3>8 DEF InRange
      <3>10. ramMiB' = ramMiB + more
        BY <2>3, <3>9
      <3>11. /\ (ramMiB + more) * MiB = ramMiB * MiB + more * MiB
             /\ ramMiB * MiB \in Int /\ more * MiB \in Int
        BY <1>2, <2>2
      <3>12. /\ (Counted(Of("4"), sizeNext - 1) + 1) * (MiB - 1) =
                  Counted(Of("4"), sizeNext - 1) * (MiB - 1) + (MiB - 1)
             /\ Counted(Of("4"), sizeNext - 1) * (MiB - 1) \in Int
        <4>1. \A c \in Nat, m \in Nat : (c + 1) * m = c * m + m /\ c * m \in Int
          OBVIOUS
        <4>2. MiB - 1 \in Nat
          BY <1>2
        <4>3. QED
          BY <1>5, <4>1, <4>2
      <3>13. MemoryAsked[sizeNext] = MemoryAsked[sizeNext - 1] + bytes
        BY <1>6, <3>3
      <3>14. /\ MemoryAsked[sizeNext] <= ramMiB' * MiB
             /\ ramMiB' * MiB <= MemoryAsked[sizeNext] + Counted(Of("4"), sizeNext) * (MiB - 1)
        BY <1>2, <1>5, <1>6, <2>1, <3>4, <3>7, <3>10, <3>11, <3>12, <3>13
      <3>15. Counted(Of("4"), sizeNext) <= ramMiB'
        BY <1>2, <1>5, <2>2, <3>7, <3>10
      <3>16. QED
        BY <3>9, <3>10, <3>14, <3>15
    <2>6. InRange(cpu')
      BY <1>1, <1>2 DEF InRange
    <2>7. QED
      BY <1>1, <1>7, <1>8, <2>3, <2>4, <2>5, <2>6, ItemPassed
  <1>12. QED
    BY <1>10, <1>11 DEF AddMemory

(* What ParseOVF makes of the sums, and what the template makes of those.  *)
LEMMA DefaultsKeeps == SizeInv /\ Defaults => SizeInv'
  <1> SUFFICES ASSUME SizeInv, Defaults PROVE SizeInv'
    OBVIOUS
  <1>1. /\ sizeStep = "items" /\ sizeNext > Len(sizeItems) /\ sizeStep' = "render"
        /\ cpu' = IF cpu = 0 THEN 2 ELSE cpu
        /\ ramMiB' = IF ramMiB = 0 THEN 2048 ELSE ramMiB
        /\ UNCHANGED <<sizeItems, sizeNext, ethernet, template>>
    BY DEF Defaults
  <1>2. /\ MiB \in Nat \ {0} /\ MaxInt \in Nat /\ MaxInt >= 2048
        /\ InRange(cpu) /\ InRange(ramMiB) /\ ramMiB \in Int
        /\ sizeItems \in Seq(SizeItems) /\ Len(sizeItems) \in Nat
        /\ DOMAIN sizeItems = 1..Len(sizeItems)
        /\ sizeNext = Len(sizeItems) + 1 /\ sizeNext - 1 = Len(sizeItems)
    BY <1>1, HardwareQuantitiesAssumption DEF SizeInv, SizeTypeOK, InRange
  <1>3. SizeTypeOK'
    <2>1. InRange(cpu') /\ InRange(ramMiB')
      BY <1>1, <1>2 DEF InRange
    <2>2. ethernet' \in 0..Len(sizeItems') /\ sizeNext' \in 1..(Len(sizeItems') + 1)
      BY <1>1 DEF SizeInv, SizeTypeOK
    <2>3. QED
      BY <1>1, <2>1, <2>2 DEF SizeTypeOK
  <1>4. /\ (1..Len(sizeItems)) \intersect Of("4") = Of("4")
        /\ (1..Len(sizeItems)) \intersect Of("3") = Of("3")
        /\ (1..Len(sizeItems)) \intersect Stating = Stating
    BY <1>2 DEF Of, Stating
  <1>5. IsFiniteSet(Of("4")) /\ IsFiniteSet(Stating)
    <2>1. IsFiniteSet(1..Len(sizeItems))
      BY <1>2, FS_Interval
    <2>2. QED
      BY <1>4, <2>1, FS_Subset
  <1>6. /\ Counted(Of("4"), Len(sizeItems)) = Cardinality(Of("4"))
        /\ Counted(Stating, Len(sizeItems)) = Cardinality(Stating)
    BY <1>4 DEF Counted
  <1>7. MemorySuffices'
    <2>1. SUFFICES ASSUME Of("4") # {}, Modest
                   PROVE  /\ MemoryAsked[Len(sizeItems)] <= ramMiB' * MiB
                          /\ ramMiB' * MiB <=
                               MemoryAsked[Len(sizeItems)] + Cardinality(Of("4")) * (MiB - 1)
      <3>1. /\ Of("4")' = Of("4") /\ MemoryAsked' = MemoryAsked
            /\ Len(sizeItems)' = Len(sizeItems) /\ (Modest' <=> Modest)
        BY <1>1, DocumentFixed
      <3>2. QED
        BY <2>1, <3>1 DEF MemorySuffices, Modest
    <2>2. /\ Cardinality(Of("4")) <= ramMiB /\ MemoryAsked[Len(sizeItems)] <= ramMiB * MiB
          /\ ramMiB * MiB <= MemoryAsked[Len(sizeItems)] + Cardinality(Of("4")) * (MiB - 1)
      BY <1>1, <1>2, <1>6, <2>1 DEF SizeInv, MemoryTo
    <2>3. Cardinality(Of("4")) \in Nat /\ Cardinality(Of("4")) # 0
      BY <1>5, <2>1, FS_CardinalityType, FS_EmptySet
    <2>4. ramMiB' = ramMiB
      BY <1>1, <1>2, <2>2, <2>3
    <2>5. QED
      BY <2>2, <2>4
  <1>8. DefaultsWhereSilent'
    <2>1. SUFFICES /\ Stating = {} => ramMiB' = 2048
                   /\ Stating # {} /\ (\A k \in Stating : sizeItems[k].halves <= 0)
                        => ramMiB' = Cardinality(Stating)
                   /\ (\A k \in Of("3") : ~sizeItems[k].number) => cpu' = 2
      <3>1. Of("4")' = Of("4") /\ Of("3")' = Of("3")
        BY <1>1, DocumentFixed
      <3>2. (DefaultsWhereSilent <=>
               (sizeStep = "render" =>
                  /\ Stating = {} => ramMiB = 2048
                  /\ Stating # {} /\ (\A k \in Stating : sizeItems[k].halves <= 0)
                       => ramMiB = Cardinality(Stating)
                  /\ (\A k \in Of("3") : ~sizeItems[k].number) => cpu = 2))'
        BY DEF DefaultsWhereSilent, Stating
      <3>3. Stating' = Stating
        BY <1>1, DocumentFixed
      <3>4. QED
        BY <1>1, <2>1, <3>1, <3>2, <3>3
    <2>2. (\A k \in Stating : sizeItems[k].halves <= 0) => ramMiB = Cardinality(Stating)
      BY <1>1, <1>2, <1>4, <1>6 DEF SizeInv, SilentTo
    <2>3. Stating = {} => ramMiB' = 2048
      BY <1>1, <2>2, FS_EmptySet
    <2>4. Stating # {} => Cardinality(Stating) # 0
      BY <1>5, FS_EmptySet
    <2>5. (\A k \in Of("3") : ~sizeItems[k].number) => cpu = 0
      BY <1>1, <1>2, <1>4 DEF SizeInv, NoProcessorsTo
    <2>6. QED
      BY <1>1, <2>2, <2>3, <2>4, <2>5
  <1>9. (ProcessorsCounted /\ AdaptersCounted)'
    <2>1. Counting /\ ProcessorsAsked[Len(sizeItems)] # 0 => cpu' = ProcessorsAsked[Len(sizeItems)]
      BY <1>1, <1>2 DEF SizeInv
    <2>2. /\ Counting' = Counting /\ ProcessorsAsked' = ProcessorsAsked
          /\ Len(sizeItems)' = Len(sizeItems)
      BY <1>1, DocumentFixed
    <2>3. ProcessorsCounted'
      BY <2>1, <2>2 DEF ProcessorsCounted, Counting
    <2>4. QED
      BY <1>1, <2>3 DEF AdaptersCounted
  <1>10. (ethernet = Counted(Of("10"), sizeNext - 1))'
    BY <1>1, DocumentFixed DEF SizeInv
  <1>11. QED
    BY <1>1, <1>2, <1>3, <1>7, <1>8, <1>9, <1>10 DEF SizeInv

LEMMA RenderKeeps == SizeInv /\ Render => SizeInv'
  <1> SUFFICES ASSUME SizeInv, Render PROVE SizeInv'
    OBVIOUS
  <1>1. /\ sizeStep = "render" /\ sizeStep' = "done"
        /\ template' = [cpu |-> Larger(1, cpu), ram |-> Larger(128, ramMiB),
                        ethernet |-> Larger(0, ethernet)]
        /\ UNCHANGED <<sizeItems, sizeNext, cpu, ramMiB, ethernet>>
    BY DEF Render
  <1>2. SizeTypeOK'
    BY <1>1 DEF SizeInv, SizeTypeOK, InRange
  <1>3. /\ Len(sizeItems) \in Nat /\ DOMAIN sizeItems = 1..Len(sizeItems)
        /\ sizeNext - 1 = Len(sizeItems) /\ ethernet \in Nat /\ cpu \in Int /\ ramMiB \in Int
    BY <1>1, HardwareQuantitiesAssumption DEF SizeInv, SizeTypeOK, InRange
  <1>4. ethernet = Cardinality(Of("10"))
    <2>1. (1..Len(sizeItems)) \intersect Of("10") = Of("10")
      BY <1>3 DEF Of
    <2>2. QED
      BY <1>3, <2>1 DEF SizeInv, Counted
  <1>5. AdaptersCounted'
    <2>1. Of("10")' = Of("10")
      BY <1>1, DocumentFixed
    <2>2. template'.ethernet = ethernet
      BY <1>1, <1>3 DEF Larger
    <2>3. QED
      BY <1>4, <2>1, <2>2 DEF AdaptersCounted
  <1>6. (MemorySuffices /\ ProcessorsCounted /\ DefaultsWhereSilent)'
    BY <1>1 DEF MemorySuffices, ProcessorsCounted, DefaultsWhereSilent
  <1>7. (ethernet = Counted(Of("10"), sizeNext - 1))'
    BY <1>1, DocumentFixed DEF SizeInv
  <1>8. QED
    BY <1>1, <1>2, <1>5, <1>6, <1>7 DEF SizeInv

LEMMA SizeStepsKeep == SizeInv /\ [SizeSteps]_sizeVars => SizeInv'
  <1> SUFFICES ASSUME SizeInv, UNCHANGED sizeVars PROVE SizeInv'
    BY AddProcessorsKeeps, AddMemoryKeeps, AddAdapterKeeps, DefaultsKeeps, RenderKeeps DEF SizeSteps
  <1>1. UNCHANGED <<sizeItems, sizeStep, sizeNext, cpu, ramMiB, ethernet, template>>
    BY DEF sizeVars
  <1>2. SizeTypeOK'
    BY <1>1 DEF SizeInv, SizeTypeOK, InRange
  <1>3. /\ (ethernet = Counted(Of("10"), sizeNext - 1))'
        /\ (SilentTo(sizeNext - 1) => ramMiB = Counted(Stating, sizeNext - 1))'
              <=> (SilentTo(sizeNext - 1) => ramMiB = Counted(Stating, sizeNext - 1))
        /\ (NoProcessorsTo(sizeNext - 1) => cpu = 0)' <=> (NoProcessorsTo(sizeNext - 1) => cpu = 0)
        /\ (Counting => cpu = ProcessorsAsked[sizeNext - 1] /\ cpu >= 0)'
              <=> (Counting => cpu = ProcessorsAsked[sizeNext - 1] /\ cpu >= 0)
        /\ (Modest => MemoryTo(sizeNext - 1))' <=> (Modest => MemoryTo(sizeNext - 1))
    BY <1>1, DocumentFixed DEF SizeInv, MemoryTo, MostMiBs
  <1>4. /\ Of("3")' = Of("3") /\ Of("4")' = Of("4") /\ Of("10")' = Of("10")
        /\ MemoryAsked' = MemoryAsked /\ (Modest' <=> Modest) /\ Stating' = Stating
        /\ ProcessorsAsked' = ProcessorsAsked
    BY <1>1, DocumentFixed
  <1>5. MemorySuffices' <=> MemorySuffices
    BY <1>1, <1>4 DEF MemorySuffices, Modest
  <1>6. DefaultsWhereSilent' <=> DefaultsWhereSilent
    <2>1. DefaultsWhereSilent <=>
            (sizeStep = "render" =>
               /\ Stating = {} => ramMiB = 2048
               /\ Stating # {} /\ (\A k \in Stating : sizeItems[k].halves <= 0)
                    => ramMiB = Cardinality(Stating)
               /\ (\A k \in Of("3") : ~sizeItems[k].number) => cpu = 2)
      BY DEF DefaultsWhereSilent, Stating
    <2>2. DefaultsWhereSilent' <=>
            (sizeStep = "render" =>
               /\ Stating = {} => ramMiB = 2048
               /\ Stating # {} /\ (\A k \in Stating : sizeItems[k].halves <= 0)
                    => ramMiB = Cardinality(Stating)
               /\ (\A k \in Of("3") : ~sizeItems[k].number) => cpu = 2)'
      BY DEF DefaultsWhereSilent, Stating
    <2>3. QED
      BY <1>1, <1>4, <2>1, <2>2
  <1>7. /\ AdaptersCounted' <=> AdaptersCounted
        /\ ProcessorsCounted' <=> ProcessorsCounted
    BY <1>1, <1>4 DEF AdaptersCounted, ProcessorsCounted
  <1>8. QED
    BY <1>1, <1>2, <1>3, <1>5, <1>6, <1>7 DEF SizeInv
-----------------------------------------------------------------------------
(* The four side by side: where a part is not the one that runs, it is     *)
(* where its own invariant holds.                                          *)
InputsInv == ToolInv /\ VMInv /\ GuestInv /\ SizeInv

LEMMA ToolIdleHolds == ToolIdle => ToolInv
  <1> SUFFICES ASSUME ToolIdle PROVE ToolInv
    OBVIOUS
  <1>1. HostTyped /\ ToolTypeOK
    BY DEF ToolIdle, HostTyped, ToolTypeOK, Named
  <1>2. ~HasV2V /\ ~HasQemu
    BY DEF ToolIdle, HasV2V, HasQemu
  <1>3. BackendChosen /\ toolStep = "failed" /\ backend = "qemu-img"
    BY <1>2 DEF ToolIdle, BackendChosen
  <1>4. QED
    BY <1>1, <1>2, <1>3 DEF ToolInv

LEMMA VMIdleHolds == VMIdle => VMInv
  <1> SUFFICES ASSUME VMIdle PROVE VMInv
    OBVIOUS
  <1>1. systems \in [1..0 -> System] /\ 0 \in 0..MaxSystems /\ Len(systems) = 0
    BY VirtualSystemsAssumption DEF VMIdle
  <1>2. VMTypeOK
    BY <1>1, VirtualSystemsAssumption DEF VMIdle, VMTypeOK
  <1>3. SelectedOnPurpose /\ DisksOfTheMachine
    BY DEF VMIdle, SelectedOnPurpose, DisksOfTheMachine
  <1>4. QED
    BY <1>2, <1>3 DEF VMIdle, VMInv

LEMMA GuestIdleHolds == GuestIdle => GuestInv
  <1> SUFFICES ASSUME GuestIdle PROVE GuestInv
    OBVIOUS
  <1>1. /\ elements \in Seq(Configs) /\ guestItems \in Seq(GuestItems) /\ Len(guestItems) = 0
        /\ DOMAIN config = {} /\ DOMAIN elements = {} /\ DOMAIN guestItems = {}
    BY DEF GuestIdle
  <1>2. counts \in [ModelNames -> 0..0] /\ guestNext \in 1..(0 + 1)
    BY DEF GuestIdle
  <1>3. GuestTypeOK
    BY <1>1, <1>2 DEF GuestIdle, GuestTypeOK
  <1>4. LastSettings
    BY <1>1 DEF LastSettings
  <1>5. FirmwareFound(DOMAIN config) /\ ~Set(DOMAIN config, TPMKeys, SaysTrue)
    BY <1>1 DEF GuestIdle, FirmwareFound, Set
  <1>6. \A m \in ModelNames : counts[m] = Cardinality(AdaptersTo(guestNext - 1, m))
    <2>1. guestNext - 1 = 0
      BY DEF GuestIdle
    <2>2. \A m : AdaptersTo(0, m) = {}
      BY DEF AdaptersTo
    <2>3. QED
      BY <2>1, <2>2, FS_EmptySet DEF GuestIdle
  <1>7. guestStep = "done" /\ option = "auto" /\ ~tpm /\ ~enabled /\ guestNext = Len(guestItems) + 1
    BY <1>1 DEF GuestIdle
  <1>8. /\ ~\E k \in DOMAIN guestItems : guestItems[k].tpm
        /\ enabled = IF option = "auto" THEN tpm ELSE option = "tpm2"
    BY <1>1 DEF GuestIdle
  <1>9. /\ guestStep \in {"nics", "done"} =>
            (tpm <=> \/ Set(DOMAIN config, TPMKeys, SaysTrue)
                     \/ \E k \in DOMAIN guestItems : guestItems[k].tpm)
        /\ option \in {"auto", "none", "tpm2"}
    BY <1>5, <1>7, <1>8
  <1>10. QED
    BY <1>3, <1>4, <1>5, <1>6, <1>7, <1>8, <1>9 DEF GuestInv

LEMMA SizeIdleHolds == SizeIdle => SizeInv
  <1> SUFFICES ASSUME SizeIdle PROVE SizeInv
    OBVIOUS
  <1>1. /\ sizeItems = <<>> /\ sizeItems \in Seq(SizeItems) /\ Len(sizeItems) = 0
        /\ sizeNext = 1 /\ sizeNext - 1 = 0
    BY DEF SizeIdle
  <1>2. Of("10") = {} /\ Cardinality({}) = 0
    BY <1>1, FS_EmptySet DEF Of
  <1>3. SizeTypeOK /\ Len(sizeItems) <= MaxSizeItems
    BY <1>1, HardwareQuantitiesAssumption DEF SizeIdle, SizeTypeOK, InRange
  <1>4. ethernet = Counted(Of("10"), sizeNext - 1)
    BY <1>1, <1>2 DEF SizeIdle, Counted
  <1>5. MemorySuffices /\ ProcessorsCounted /\ DefaultsWhereSilent /\ AdaptersCounted
    <2>1. sizeStep = "done"
      BY DEF SizeIdle
    <2>2. MemorySuffices /\ ProcessorsCounted /\ DefaultsWhereSilent
      BY <2>1 DEF MemorySuffices, ProcessorsCounted, DefaultsWhereSilent
    <2>3. template.ethernet = 0
      BY DEF SizeIdle
    <2>4. QED
      BY <1>2, <2>2, <2>3 DEF AdaptersCounted
  <1>6. QED
    BY <1>1, <1>3, <1>4, <1>5 DEF SizeIdle, SizeInv

LEMMA InputsInitially == Init => InputsInv
  BY ToolInitially, VMInitially, GuestInitially, SizeInitially,
     ToolIdleHolds, VMIdleHolds, GuestIdleHolds, SizeIdleHolds DEF Init, InputsInv

LEMMA InputsKept == InputsInv /\ [Next]_inputVars => InputsInv'
  <1> SUFFICES ASSUME InputsInv, [Next]_inputVars PROVE InputsInv'
    OBVIOUS
  <1>1. /\ [ToolSteps]_toolVars /\ [VMSteps]_vmVars
        /\ [GuestSteps]_guestVars /\ [SizeSteps]_sizeVars
    BY DEF Next, Ended, inputVars
  <1>2. QED
    BY <1>1, ToolStepsKeep, VMStepsKeep, GuestStepsKeep, SizeStepsKeep DEF InputsInv

LEMMA InputsAlways == Spec => []InputsInv
  BY InputsInitially, InputsKept, PTL DEF Spec

(* For any host and any document every part keeps to its type: no loop     *)
(* passes the end of what it reads, and no number of CPUs or MiBs leaves   *)
(* the int64s, whatever the document states.                               *)
THEOREM InputsTyped == Spec => []TypeOK
  <1>1. InputsInv => TypeOK
    BY ToolInvImplies DEF InputsInv, VMInv, GuestInv, SizeInv, TypeOK
  <1>2. QED
    BY <1>1, InputsAlways, PTL

(* The searches for virt-v2v and qemu-img find what the host has, what was *)
(* named first, in whatever order the places are and however many.         *)
THEOREM ToolsAreFound == Spec => []ToolsFound
  <1>1. InputsInv => ToolsFound
    BY ToolInvImplies DEF InputsInv
  <1>2. QED
    BY <1>1, InputsAlways, PTL

(* In any document the machine migrated is the last that --vm fits, or the *)
(* only one, and what qemu-img converts for it are its own disks where it  *)
(* has any.                                                                *)
THEOREM OneMachineMeant == Spec => []MachineMeant
  <1>1. InputsInv => MachineMeant
    BY DEF InputsInv, VMInv, MachineMeant
  <1>2. QED
    BY <1>1, InputsAlways, PTL

(* The order in which a Go map is visited does not show in the machine:    *)
(* firmware, TPM and network model are those of the document.              *)
THEOREM DocumentDecidesSettings == Spec => []SettingsOfTheDocument
  <1>1. InputsInv => SettingsOfTheDocument
    BY GuestInvImplies DEF InputsInv
  <1>2. QED
    BY <1>1, InputsAlways, PTL

(* Whatever quantities a document states and however many of them: memory  *)
(* is rounded up by less than a MiB for each, processors and adapters are  *)
(* added up, and the defaults are for what is not stated.                  *)
THEOREM DocumentDecidesQuantities == Spec => []QuantitiesOfTheDocument
  <1>1. InputsInv => QuantitiesOfTheDocument
    BY DEF InputsInv, SizeInv, QuantitiesOfTheDocument
  <1>2. QED
    BY <1>1, InputsAlways, PTL
=============================================================================
