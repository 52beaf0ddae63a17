------------------------------- MODULE Inputs -------------------------------
(***************************************************************************)
(* What a run learns before it converts: the tools of the host, the machine*)
(* that is meant, its settings and adapters, its quantities.  None of the  *)
(* four reads what another one finds, so they are side by side: one of them*)
(* runs, the others are where an empty document, or a host without tools,  *)
(* leaves them.                                                            *)
(***************************************************************************)
EXTENDS ToolDiscovery, VirtualSystems, GuestDetection, HardwareQuantities

(* No tools; no virtual system; a virtual system that says nothing.        *)
ToolIdle ==
  /\ wanted = "auto" /\ v2vOption = NoTool /\ v2vEnv = NoTool /\ qemuOption = NoTool
  /\ qemuEnvs = <<NoTool, NoTool>> /\ usable = {} /\ toolStep = "failed" /\ queue = <<>>
  /\ backend = "qemu-img" /\ virtV2V = NoTool /\ qemuImg = NoTool

VMIdle ==
  /\ systems = <<>> /\ vmSelector = None /\ vmBackend = "qemu-img" /\ preferred = 1
  /\ vmStep = "refused" /\ vmNext = 1 /\ selected = 0 /\ vmName = None /\ converted = {}

GuestIdle ==
  /\ elements = <<>> /\ guestItems = <<>> /\ option = "auto" /\ guestStep = "done"
  /\ config = <<>> /\ pending = {} /\ efi = FALSE /\ firmware = "bios" /\ tpm = FALSE
  /\ counts = [m \in ModelNames |-> 0] /\ guestNext = 1 /\ enabled = FALSE

SizeIdle ==
  /\ sizeItems = <<>> /\ sizeStep = "done" /\ sizeNext = 1
  /\ cpu = 2 /\ ramMiB = 2048 /\ ethernet = 0
  /\ template = [cpu |-> 2, ram |-> 2048, ethernet |-> 0]

Init ==
  \/ ToolInit /\ VMIdle /\ GuestIdle /\ SizeIdle
  \/ ToolIdle /\ VMInit /\ GuestIdle /\ SizeIdle
  \/ ToolIdle /\ VMIdle /\ GuestInit /\ SizeIdle
  \/ ToolIdle /\ VMIdle /\ GuestIdle /\ SizeInit

inputVars == <<toolVars, vmVars, guestVars, sizeVars>>

Ended ==
  /\ ToolEnded /\ VMEnded /\ GuestEnded /\ SizeEnded
  /\ UNCHANGED inputVars

Next ==
  \/ ToolSteps  /\ UNCHANGED <<vmVars, guestVars, sizeVars>>
  \/ VMSteps    /\ UNCHANGED <<toolVars, guestVars, sizeVars>>
  \/ GuestSteps /\ UNCHANGED <<toolVars, vmVars, sizeVars>>
  \/ SizeSteps  /\ UNCHANGED <<toolVars, vmVars, guestVars>>
  \/ Ended

Spec == Init /\ [][Next]_inputVars

(* The parts keep to their types, also where loops pass their ends.        *)
TypeOK == ToolTypeOK /\ VMTypeOK /\ GuestTypeOK /\ SizeTypeOK
=============================================================================
