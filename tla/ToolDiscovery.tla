--------------------------- MODULE ToolDiscovery ---------------------------
(***************************************************************************)
(* Which external programs a run uses: selectBackend and the searches for  *)
(* virt-v2v and qemu-img it makes.  A search goes through what was named,  *)
(* by an option or by the environment, and then through the places that    *)
(* the program knows, until something there can be executed.               *)
(***************************************************************************)
EXTENDS Sequences, SequencesExt

CONSTANTS Tools,        \* what can be looked for
          NamedTools,   \* those of them that options and variables name
          V2VPlaces,    \* where virt-v2v is looked for, in this order
          QemuPlaces,   \* and qemu-img
          NoTool,       \* an option or a variable that is empty,
          Blank         \* or of spaces only

Named == NamedTools \union {NoTool, Blank}

ASSUME ToolDiscoveryAssumption ==
  /\ NamedTools \subseteq Tools
  /\ NoTool \notin Tools /\ Blank \notin Tools /\ NoTool # Blank
  /\ V2VPlaces \in Seq(Tools) /\ QemuPlaces \in Seq(Tools)

VARIABLES wanted,      \* --backend
          v2vOption,   \* --virt-v2v
          v2vEnv,      \* STRATUM_VIRT_V2V
          qemuOption,  \* --qemu-img
          qemuEnvs,    \* STRATUM_QEMU_IMG and STRATUMD_QEMU_IMG_BINARY
          usable,      \* the tools that can be executed
          toolStep,    \* the search that is made
          queue,       \* what it has not looked at
          backend, virtV2V, qemuImg  \* the results of selectBackend

host == <<wanted, v2vOption, v2vEnv, qemuOption, qemuEnvs, usable>>
toolVars == <<host, toolStep, queue, backend, virtV2V, qemuImg>>

(* firstNonEmpty takes a blank variable for an empty one.                  *)
FirstNonEmpty(s) == IF s[1] \notin {NoTool, Blank} THEN s[1]
                    ELSE IF s[2] \notin {NoTool, Blank} THEN s[2] ELSE NoTool

(* What is named goes first; a blank option hides the environment.         *)
V2VQueue  == <<IF v2vOption = NoTool THEN v2vEnv ELSE v2vOption>> \o V2VPlaces

QemuQueue == <<IF qemuOption = NoTool THEN FirstNonEmpty(qemuEnvs) ELSE qemuOption>>
               \o QemuPlaces

ToolInit ==
  /\ wanted \in {"auto", "qemu-img", "virt-v2v"}
  /\ v2vOption \in Named /\ v2vEnv \in Named /\ qemuOption \in Named
  /\ qemuEnvs \in [1..2 -> Named]
  /\ usable \in SUBSET Tools
  /\ toolStep = IF wanted = "qemu-img" THEN "qemu-img" ELSE "virt-v2v"
  /\ queue = IF wanted = "qemu-img" THEN QemuQueue ELSE V2VQueue
  /\ backend = "qemu-img" /\ virtV2V = NoTool /\ qemuImg = NoTool

(* FindExecutable *)
PassOver ==
  /\ toolStep \in {"virt-v2v", "qemu-img"} /\ queue # <<>>
  /\ Head(queue) \notin usable
  /\ queue' = Tail(queue)
  /\ UNCHANGED <<host, toolStep, backend, virtV2V, qemuImg>>

FindV2V ==
  /\ toolStep = "virt-v2v" /\ queue # <<>> /\ Head(queue) \in usable
  /\ virtV2V' = Head(queue)
  /\ backend' = "virt-v2v"
  /\ toolStep' = "qemu-img" /\ queue' = QemuQueue
  /\ UNCHANGED <<host, qemuImg>>

(* Without virt-v2v "auto" means qemu-img.                                 *)
NoV2V ==
  /\ toolStep = "virt-v2v" /\ queue = <<>>
  /\ IF wanted = "auto" THEN toolStep' = "qemu-img" /\ queue' = QemuQueue
                        ELSE toolStep' = "failed" /\ UNCHANGED queue
  /\ UNCHANGED <<host, backend, virtV2V, qemuImg>>

FindQemu ==
  /\ toolStep = "qemu-img" /\ queue # <<>> /\ Head(queue) \in usable
  /\ qemuImg' = Head(queue)
  /\ toolStep' = "done"
  /\ UNCHANGED <<host, queue, backend, virtV2V>>

QemuNamed == \E n \in {qemuOption, qemuEnvs[1], qemuEnvs[2]} : n \in Tools

(* Mutant: qemu-img is optional beside virt-v2v, also where it was named.  *)
NoQemuOptional ==
  /\ toolStep = "qemu-img" /\ queue = <<>>
  /\ toolStep' = IF backend = "virt-v2v" THEN "done" ELSE "failed"
  /\ UNCHANGED <<host, queue, backend, virtV2V, qemuImg>>

(* tryDiscoverQEMUImg: beside virt-v2v, qemu-img is optional where nobody  *)
(* has named one.                                                          *)
NoQemu ==
  /\ toolStep = "qemu-img" /\ queue = <<>>
  /\ toolStep' = IF backend = "virt-v2v" /\ ~QemuNamed THEN "done" ELSE "failed"
  /\ UNCHANGED <<host, queue, backend, virtV2V, qemuImg>>

ToolEnded == toolStep \in {"done", "failed"}

ToolSteps == PassOver \/ FindV2V \/ NoV2V \/ FindQemu \/ NoQemu

ToolSpec == ToolInit /\ [][ToolSteps]_toolVars
-----------------------------------------------------------------------------
ToolTypeOK ==
  /\ toolStep \in {"virt-v2v", "qemu-img", "done", "failed"}
  /\ queue \in Seq(Tools \union Named)
  /\ backend \in {"qemu-img", "virt-v2v"}
  /\ virtV2V \in usable \union {NoTool}
  /\ qemuImg \in usable \union {NoTool}

HasV2V  == ToSet(V2VQueue)  \intersect usable # {}
HasQemu == ToSet(QemuQueue) \intersect usable # {}

(* The searches come to what Migration says of a host in its SelectBackend:*)
(* which backend there is and whether it gets a qemu-img depends on there  *)
(* being one of each tool and on one being named, and on nothing else.     *)
SelectsAsMigration ==
  LET chosen == IF wanted # "auto" THEN wanted
                ELSE IF HasV2V THEN "virt-v2v" ELSE "qemu-img"
      works  == /\ chosen = "virt-v2v" => HasV2V
                /\ ~HasQemu => chosen = "virt-v2v" /\ ~QemuNamed
  IN  /\ toolStep = "done" => works /\ backend = chosen /\ (qemuImg # NoTool <=> HasQemu)
      /\ toolStep = "failed" => ~works

(* A tool that was named by an option, and can be executed, is the one     *)
(* that is used, whatever else there is.                                   *)
NamedToolPreferred ==
  toolStep = "done" =>
    /\ qemuOption \in usable => qemuImg = qemuOption
    /\ backend = "virt-v2v" /\ v2vOption \in usable => virtV2V = v2vOption

(* The options are "path to qemu-img" and "path to virt-v2v": no other one *)
(* is used than the one that was named.                                    *)
NamedToolUsed ==
  toolStep = "done" /\ qemuOption \in Tools => qemuImg = qemuOption

(* Whoever names a tool, and whatever the host has, the searches find what *)
(* there is, what was named before anything else.                          *)
ToolsFound == SelectsAsMigration /\ NamedToolPreferred
=============================================================================
