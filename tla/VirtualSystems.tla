--------------------------- MODULE VirtualSystems ---------------------------
(***************************************************************************)
(* Which machine of a document is migrated.  ParseOVF compares --vm with   *)
(* one virtual system after the other; what it selects gives the bundle    *)
(* its name and hardware.  The disks come from the backend: qemu-img is    *)
(* given those that the hardware of the system selected names, or, when it *)
(* names none, every disk of the document; virt-v2v is given the OVA or the*)
(* directory of the descriptor, and nothing of the selection.              *)
(***************************************************************************)
EXTENDS Naturals, Sequences

CONSTANTS Texts,      \* the ids and names that documents use
          None,       \* an id, a name or a --vm that is not there
          Default,    \* the name of the descriptor file
          MaxSystems  \* bound on the virtual systems of a document

(* The hardware of a system names disks of its own, or none.               *)
System == [id : Texts \union {None}, name : Texts \union {None}, attaches : BOOLEAN]

ASSUME VirtualSystemsAssumption ==
  /\ None \notin Texts
  /\ MaxSystems \in Nat

VARIABLES systems,    \* the virtual systems of the document
          vmSelector, \* --vm
          vmBackend,  \* the backend selected
          preferred,  \* the system virt-v2v takes
          vmStep,     \* what Run is doing
          vmNext,     \* the system the loop has come to
          selected,   \* the system selected so far, 0 for none
          vmName,     \* the name of the machine in the bundle
          converted   \* the systems whose disks are in the bundle

vmInputs == <<systems, vmSelector, vmBackend, preferred>>
vmVars   == <<vmInputs, vmStep, vmNext, selected, vmName, converted>>

Or(text, fallback) == IF text = None THEN fallback ELSE text

VMInit ==
  /\ systems \in UNION {[1..n -> System] : n \in 0..MaxSystems}
  /\ vmSelector \in Texts \union {None}
  /\ vmBackend \in {"qemu-img", "virt-v2v"}
  /\ preferred \in 1..MaxSystems
  /\ vmStep = "select" /\ vmNext = 1 /\ selected = 0
  /\ vmName = None /\ converted = {}

(* A system without a name has its id for one.                             *)
Answers(k) ==
  /\ vmSelector # None
  /\ vmSelector \in {systems[k].id, Or(systems[k].name, systems[k].id)}

(* The loop goes on after a match, so that the last one counts.            *)
LookAt ==
  /\ vmStep = "select" /\ vmNext <= Len(systems)
  /\ vmNext' = vmNext + 1
  /\ selected' = IF Answers(vmNext) THEN vmNext ELSE selected
  /\ UNCHANGED <<vmInputs, vmStep, vmName, converted>>

(* Mutant: without --vm the first of several is taken.                     *)
SelectFirst ==
  /\ vmStep = "select" /\ vmNext > Len(systems)
  /\ \/ /\ selected # 0
        /\ vmStep' = "name" /\ UNCHANGED selected
     \/ /\ selected = 0 /\ vmSelector = None /\ systems # <<>>
        /\ selected' = 1 /\ vmStep' = "name"
     \/ /\ selected = 0 /\ (vmSelector # None \/ systems = <<>>)
        /\ vmStep' = "refused" /\ UNCHANGED selected
  /\ UNCHANGED <<vmInputs, vmNext, vmName, converted>>

Select ==
  /\ vmStep = "select" /\ vmNext > Len(systems)
  /\ \/ /\ selected # 0
        /\ vmStep' = "name" /\ UNCHANGED selected
     \/ /\ selected = 0 /\ vmSelector = None /\ Len(systems) = 1
        /\ selected' = 1 /\ vmStep' = "name"
     \/ /\ selected = 0 /\ (vmSelector # None \/ Len(systems) # 1)
        /\ vmStep' = "refused" /\ UNCHANGED selected
  /\ UNCHANGED <<vmInputs, vmNext, vmName, converted>>

Name ==
  /\ vmStep = "name"
  /\ vmName' = Or(Or(systems[selected].name, systems[selected].id), Default)
  /\ vmStep' = "convert"
  /\ UNCHANGED <<vmInputs, vmNext, selected, converted>>

(* Mutant: always all the disks of the document.                           *)
GivenAll == {k \in DOMAIN systems : systems[k].attaches}

(* The disks qemu-img is given, by the systems that name them: those of the*)
(* system selected, or all of the document when it names none.             *)
Given == IF systems[selected].attaches THEN {selected}
                                       ELSE {k \in DOMAIN systems : systems[k].attaches}

(* virt-v2v may find that there are several, or no disks, and refuse.      *)
Convert ==
  /\ vmStep = "convert"
  /\ \/ vmBackend = "qemu-img" /\ converted' = Given /\ vmStep' = "done"
     \/ /\ vmBackend = "virt-v2v" /\ preferred <= Len(systems) /\ systems[preferred].attaches
        /\ converted' = {preferred} /\ vmStep' = "done"
     \/ converted' = {} /\ vmStep' = "failed"
  /\ UNCHANGED <<vmInputs, vmNext, selected, vmName>>

VMEnded == vmStep \in {"done", "refused", "failed"}

VMSteps == LookAt \/ Select \/ Name \/ Convert

VMSpec == VMInit /\ [][VMSteps]_vmVars
-----------------------------------------------------------------------------
Answering == {k \in DOMAIN systems : Answers(k)}

VMTypeOK ==
  /\ \E n \in 0..MaxSystems : systems \in [1..n -> System]
  /\ vmStep \in {"select", "name", "convert", "done", "refused", "failed"}
  /\ vmNext \in 1..(MaxSystems + 1)
  /\ selected \in 0..Len(systems)
  /\ vmName \in Texts \union {None, Default}
  /\ converted \subseteq DOMAIN systems

(* A machine is migrated when it was asked for, or when it is the only one *)
(* and nothing was asked for: of several the program never picks one by    *)
(* itself, and it refuses only a --vm that fits no machine.  A --vm that   *)
(* fits several means the last of them, which nothing reports.             *)
SelectedOnPurpose ==
  /\ vmStep \in {"name", "convert", "done"} =>
       IF vmSelector = None
       THEN selected = 1 /\ Len(systems) = 1
       ELSE selected \in Answering /\ \A k \in Answering : k <= selected
  /\ vmStep = "refused" =>
       IF vmSelector = None THEN Len(systems) # 1 ELSE Answering = {}

(* Where qemu-img converts, the disks in the bundle are those of the       *)
(* machine whose name and hardware the bundle has and of no other, unless  *)
(* this machine names none.                                                *)
DisksOfTheMachine ==
  vmStep = "done" /\ vmBackend = "qemu-img" /\ systems[selected].attaches =>
    converted = {selected}

(* "VirtualSystem id or name when an OVF contains multiple VMs": of a      *)
(* machine that has disks it is these which are converted, with either     *)
(* backend.                                                                *)
SelectedConverted ==
  vmStep = "done" /\ systems[selected].attaches => converted = {selected}

(* From --vm to the disks of the bundle one machine is meant, as far as the*)
(* backend can be told which.                                              *)
MachineMeant == SelectedOnPurpose /\ DisksOfTheMachine
=============================================================================
