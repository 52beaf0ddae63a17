---------------------------- MODULE MCAppliance ----------------------------
(***************************************************************************)
(* The instance of Appliance that TLC explores: two descriptors, one of    *)
(* them in a directory of its own, a manifest beside each, and a disk.     *)
(***************************************************************************)
EXTENDS Appliance, SequencesExt

CONSTANT MaxTokens  \* bound on the tokens of a reference

MCPaths       == {"a.ovf", "a.mf", "b/b.ovf", "b/b.mf", "disk.vmdk", "a.nvram"}
MCDescriptors == {"a.ovf", "b/b.ovf"}
MCManifests   == {"a.mf", "b/b.mf"}
MCNVRAM       == {"a.nvram"}

(* Three contents of data, and three that are manifests: one lists the     *)
(* disk, one the disk and the descriptor beside it, and one is no manifest.*)
MCContents == {"v1", "v2", "lists disk", "lists both", "garbage"}
MCHrefs    == {"disk.vmdk", "a.ovf", "../disk.vmdk"}

Entry(href, digest) == [kind |-> "entry", href |-> href, digest |-> digest]
Blank   == [kind |-> "blank", href |-> "a.ovf", digest |-> "v1"]
Garbage == [kind |-> "garbage", href |-> "a.ovf", digest |-> "v1"]

MCLines ==
  [c \in MCContents |->
     CASE c = "lists disk" -> <<Entry("disk.vmdk", "v1")>>
       [] c = "lists both" -> <<Blank, Entry("a.ovf", "v1"), Entry("disk.vmdk", "v1")>>
       [] OTHER            -> <<Blank, Garbage>>]

(* References of the manifest in the directory b lead to nothing there.    *)
MCSpelling == [h \in MCHrefs |-> IF h = "../disk.vmdk" THEN <<"..", "/", "x">> ELSE <<"x">>]

MCResolve ==
  [m \in MCManifests |-> [h \in MCHrefs |->
     IF SecureResolve("none", MCSpelling[h]) = Refused THEN Outside
     ELSE IF m = "a.mf" THEN h ELSE "b/b.ovf"]]

File(path, content) == [path |-> path, type |-> "file", content |-> content]
Special(path, type) == [path |-> path, type |-> type, content |-> "v1"]

MCMembers ==
  {File("a.ovf", "v1"), File("b/b.ovf", "v1"), File("a.nvram", "v1"), File("a.nvram", "v2"),
   File("a.mf", "lists both"), File("a.mf", "lists disk"), File("b/b.mf", "garbage"),
   File("disk.vmdk", "v1"), File("disk.vmdk", "v2"),
   Special("disk.vmdk", "link"), Special(Outside, "file"), Special(Root, "dir"),
   Special("a.mf", "dir"), Special("a.nvram", "other")}

(* A directory: any descriptors and manifests, disk and NVRAM as they come.*)
MCTrees ==
  {t \in [MCPaths -> {"v1", "v2", "lists disk", "lists both", "garbage", Absent, Symlink}] :
     /\ t["a.ovf"] \in {"v1", "v2", Absent, Symlink}
     /\ t["b/b.ovf"] \in {"v1", Absent}
     /\ t["a.mf"] \in {"lists disk", "lists both", Absent}
     /\ t["b/b.mf"] \in {"lists disk", "garbage", Absent}
     /\ t["disk.vmdk"] \in {"v1", "v2", Absent, Symlink}
     /\ t["a.nvram"] = "v1"}

MCReferences == BoundedSeq(Tokens, MaxTokens)
=============================================================================
