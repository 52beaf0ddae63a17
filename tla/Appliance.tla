----------------------------- MODULE Appliance -----------------------------
(***************************************************************************)
(* From the source to a descriptor that may be parsed: the extraction of   *)
(* an OVA, the search for the descriptor and the comparison of the files   *)
(* with the manifests.  For virt-v2v, which reads the OVA itself, only the *)
(* metadata is extracted, and so the comparison is left to virt-v2v: most  *)
(* of the files a manifest lists are not there.                            *)
(*                                                                         *)
(* An OVA is whatever its members make it: Extract accepts any, one after  *)
(* the other.  A content stands for itself and for its digest, and Lines   *)
(* says what it reads like as a manifest.                                  *)
(***************************************************************************)
EXTENDS Naturals, Sequences, PathNames

CONSTANTS Paths,        \* the paths an appliance can use
          Descriptors,  \* those that end in .ovf,
          Manifests,    \* in .mf,
          OtherMetadata,\* and in .nvram, .cert or .pem
          Contents,     \* the contents a file can have
          Lines,        \* content -> its lines
          Hrefs,        \* what a line can name
          Resolve,      \* manifest -> href -> where SecureResolve leads
          Members,      \* the members an OVA can have
          MaxMembers,   \* bound on the members of an OVA
          Trees         \* the directories to be considered as a source

Outside == "outside"  \* a path that leads out of the directory
Root    == "root"     \* the directory itself

Absent  == "absent"
Dir     == "dir"
Symlink == "symlink"
NotAFile == {Absent, Dir, Symlink}

NoRequest == "none"

Line   == [kind : {"blank", "entry", "garbage"}, href : Hrefs, digest : Contents]
Member == [path    : Paths \union {Root, Outside},  \* its cleaned name
           \* "link": a link, a device or a FIFO; "other": a record of no kind
           \* that the code names, which it passes over
           type    : {"file", "dir", "link", "other"},
           content : Contents]

ASSUME ApplianceAssumption ==
  /\ Descriptors \subseteq Paths
  /\ Manifests \subseteq Paths
  /\ OtherMetadata \subseteq Paths
  /\ Root \notin Paths /\ Outside \notin Paths /\ NoRequest \notin Paths
  /\ Contents \intersect NotAFile = {}
  /\ Lines \in [Contents -> Seq(Line)]
  /\ Resolve \in [Manifests -> [Hrefs -> Paths \union {Outside}]]
  /\ Members \subseteq Member
  /\ Trees \subseteq [Paths -> Contents \union NotAFile]
  /\ MaxMembers \in Nat

VARIABLES source,     \* what the source is
          backend,    \* the backend selected
          skip,       \* --skip-manifest-check
          requested,  \* where --ovf-descriptor leads, if it is given
          members,    \* the members of the OVA so far
          pc,         \* what Run is doing
          tree,       \* path -> what is there, in the directory Run looks at
          descriptor, \* the descriptor found
          pending,    \* the manifests not compared yet
          manifest,   \* the one being compared
          line        \* its next line

cfg   == <<source, backend, skip, requested>>
check == <<pending, manifest, line>>
vars  == <<cfg, members, pc, tree, descriptor, check>>

Metadata == Descriptors \union Manifests \union OtherMetadata

MetadataOnly == backend = "virt-v2v"

Files(kind) == {p \in kind : tree[p] \in Contents}

Init ==
  /\ source \in {"ova", "directory"}
  /\ backend \in {"qemu-img", "virt-v2v"}
  /\ skip \in BOOLEAN
  /\ requested \in Paths \union {Outside, NoRequest}
  /\ members = <<>>
  /\ IF source = "ova" THEN pc = "extract" /\ tree = [p \in Paths |-> Absent]
                       ELSE pc = "find" /\ tree \in Trees
  /\ descriptor = Root
  /\ pending = {} /\ manifest = Root /\ line = 1

Refuse == pc' = "refused" /\ UNCHANGED <<cfg, tree, descriptor, check>>
-----------------------------------------------------------------------------
(* SafeExtractOVA *)

Unsafe(member) ==
  member.path # Root /\ (member.path = Outside \/ member.type = "link")

(* Passed over: the directory itself, records that are no files and, in    *)
(* metadata mode, every file that is none.                                 *)
Skipped(member) ==
  \/ member.path = Root
  \/ ~Unsafe(member) /\ member.type = "other"
  \/ ~Unsafe(member) /\ MetadataOnly /\ member.path \notin Metadata /\ member.type # "dir"

(* Mutant: a file that is there already is kept.                           *)
WrittenOnce(member) ==
  IF tree[member.path] # Absent THEN tree
  ELSE [tree EXCEPT ![member.path] = IF member.type = "dir" THEN Dir ELSE member.content]

(* A later member of the same name truncates the file of the earlier one.  *)
Written(member) ==
  [tree EXCEPT ![member.path] = IF member.type = "dir" THEN Dir ELSE member.content]

(* A file cannot take the place of a directory, nor the reverse.           *)
Clash(member) ==
  (member.type = "dir" /\ tree[member.path] \in Contents)
    \/ (member.type = "file" /\ tree[member.path] = Dir)

Extract(member) ==
  /\ pc = "extract" /\ Len(members) < MaxMembers
  /\ members' = Append(members, member)
  /\ \/ Skipped(member) /\ UNCHANGED <<cfg, pc, tree, descriptor, check>>
     \/ ~Skipped(member) /\ Unsafe(member) /\ Refuse
     \/ /\ ~Skipped(member) /\ ~Unsafe(member) /\ Clash(member)
        /\ pc' = "error"
        /\ UNCHANGED <<cfg, tree, descriptor, check>>
     \/ /\ ~Skipped(member) /\ ~Unsafe(member) /\ ~Clash(member)
        /\ tree' = Written(member)
        /\ UNCHANGED <<cfg, pc, descriptor, check>>

EndOfArchive ==
  /\ pc = "extract"
  /\ pc' = "find"
  /\ UNCHANGED <<cfg, members, tree, descriptor, check>>
-----------------------------------------------------------------------------
(* FindOVFDescriptor *)

(* SortedWalkFiles gives up at the first symbolic link.                    *)
Walkable == \A p \in Paths : tree[p] # Symlink

IsFile(path)  == path \in Paths /\ tree[path] \in Contents
IsALink(path) == path \in Paths /\ tree[path] = Symlink

(* A path that was asked for has to be a file, or a link to one, which     *)
(* os.Stat follows; otherwise there has to be one descriptor.              *)
FindDescriptor ==
  /\ pc = "find"
  /\ \/ /\ \/ /\ IsFile(requested) \/ IsALink(requested)
              /\ descriptor' = requested
           \/ /\ requested = NoRequest /\ Walkable
              /\ descriptor' \in Descriptors /\ Files(Descriptors) = {descriptor'}
        /\ pc' = "manifest"
        /\ UNCHANGED <<cfg, tree, check>>
     \/ requested # NoRequest /\ ~IsFile(requested) /\ Refuse
     \/ /\ requested = NoRequest
        /\ ~Walkable \/ \A p \in Paths : Files(Descriptors) # {p}
        /\ Refuse
  /\ UNCHANGED members
-----------------------------------------------------------------------------
(* VerifyOVFManifests *)

(* virt-v2v is left to compare an OVA.                                     *)
Delegated == source = "ova" /\ backend = "virt-v2v"

StartVerification ==
  /\ pc = "manifest"
  /\ \/ (skip \/ Delegated) /\ pc' = "parse" /\ UNCHANGED <<cfg, tree, descriptor, check>>
     \/ ~skip /\ ~Delegated /\ ~Walkable /\ Refuse
     \/ /\ ~skip /\ ~Delegated /\ Walkable
        /\ pc' = "verify"
        /\ pending' = Files(Manifests)
        /\ UNCHANGED <<cfg, tree, descriptor, manifest, line>>
  /\ UNCHANGED members

OpenManifest(m) ==
  /\ pc = "verify" /\ manifest = Root
  /\ m \in pending
  /\ pending' = pending \ {m}
  /\ manifest' = m /\ line' = 1
  /\ UNCHANGED <<cfg, members, pc, tree, descriptor>>

(* A blank line or a comment says nothing, any other line has to name a    *)
(* file inside the directory that is there and has the digest.             *)
Matches(m, l) ==
  \/ l.kind = "blank"
  \/ /\ l.kind = "entry"
     /\ Resolve[m][l.href] # Outside
     /\ tree[Resolve[m][l.href]] = l.digest

VerifyLine ==
  /\ pc = "verify" /\ manifest # Root
  /\ line <= Len(Lines[tree[manifest]])
  /\ \/ /\ Matches(manifest, Lines[tree[manifest]][line])
        /\ line' = line + 1
        /\ UNCHANGED <<cfg, pc, tree, descriptor, pending, manifest>>
     \/ ~Matches(manifest, Lines[tree[manifest]][line]) /\ Refuse
  /\ UNCHANGED members

(* Mutant: the first manifest is taken for the only one.                   *)
EndOfManifestFirst ==
  /\ pc = "verify" /\ manifest # Root
  /\ line > Len(Lines[tree[manifest]])
  /\ manifest' = Root /\ pending' = {}
  /\ UNCHANGED <<cfg, members, pc, tree, descriptor, line>>

EndOfManifest ==
  /\ pc = "verify" /\ manifest # Root
  /\ line > Len(Lines[tree[manifest]])
  /\ manifest' = Root
  /\ UNCHANGED <<cfg, members, pc, tree, descriptor, pending, line>>

EndOfVerification ==
  /\ pc = "verify" /\ manifest = Root /\ pending = {}
  /\ pc' = "parse"
  /\ UNCHANGED <<cfg, members, tree, descriptor, check>>

(* Any read or write can fail.                                             *)
GiveUp ==
  /\ pc \notin {"parse", "refused", "error"}
  /\ pc' = "error"
  /\ UNCHANGED <<cfg, members, tree, descriptor, check>>

Ended == pc \in {"parse", "refused", "error"} /\ UNCHANGED vars

Next ==
  \/ \E member \in Members : Extract(member)
  \/ EndOfArchive \/ FindDescriptor \/ StartVerification
  \/ \E m \in Manifests : OpenManifest(m)
  \/ VerifyLine \/ EndOfManifest \/ EndOfVerification \/ GiveUp \/ Ended

Spec == Init /\ [][Next]_vars
-----------------------------------------------------------------------------
TypeOK ==
  /\ source \in {"ova", "directory"}
  /\ backend \in {"qemu-img", "virt-v2v"}
  /\ skip \in BOOLEAN
  /\ requested \in Paths \union {Outside, NoRequest}
  /\ members \in Seq(Members)
  /\ pc \in {"extract", "find", "manifest", "verify", "parse", "refused", "error"}
  /\ tree \in [Paths -> Contents \union NotAFile]
  /\ descriptor \in Paths \union {Root}
  /\ pending \subseteq Manifests
  /\ manifest \in Manifests \union {Root}
  /\ line \in Nat \ {0}

(* The members that are files of this path, in an archive that was read.   *)
FilesAt(path) ==
  {i \in DOMAIN members : members[i].path = path /\ members[i].type = "file"}

(* README: absolute paths, parent traversal and links are refused, in both *)
(* modes and wherever in the archive they are.                             *)
UnsafeNeverParsed ==
  pc \notin {"extract", "refused"} => \A i \in DOMAIN members : ~Unsafe(members[i])

(* What the tool parses is what the OVA says last, also where only the     *)
(* metadata was extracted: for every path it is the content of the last    *)
(* member of that name.                                                    *)
LastMemberWins ==
  source = "ova" /\ pc \notin {"refused", "error"} =>
    \A p \in Paths :
      IF FilesAt(p) # {} /\ (MetadataOnly => p \in Metadata)
      THEN \E i \in FilesAt(p) : /\ tree[p] = members[i].content
                                 /\ \A h \in FilesAt(p) : h <= i
      ELSE tree[p] \notin Contents

(* The content a source has at a path: of an OVA, of its last member.      *)
ContentOf(p) ==
  IF source = "directory" THEN tree[p]
  ELSE IF FilesAt(p) = {} THEN Absent
  ELSE members[CHOOSE i \in FilesAt(p) : \A h \in FilesAt(p) : h <= i].content

(* Every line of every manifest agrees with the source.                    *)
Consistent ==
  \A m \in Manifests : ContentOf(m) \in Contents =>
    \A n \in DOMAIN Lines[ContentOf(m)] :
      LET l == Lines[ContentOf(m)][n]
      IN  l.kind = "blank" \/ ( /\ l.kind = "entry"
                                /\ Resolve[m][l.href] # Outside
                                /\ ContentOf(Resolve[m][l.href]) = l.digest )

(* README: checksums are verified before conversion unless the user skips  *)
(* that: only an OVA for virt-v2v gets further with manifests that do not  *)
(* agree with the appliance itself, whatever was extracted of it.          *)
InconsistentNeverParsed ==
  pc = "parse" /\ ~Consistent => skip \/ (source = "ova" /\ backend = "virt-v2v")

(* A good appliance is not refused, for either backend: the reason why the *)
(* comparison must not be made on an extract.                              *)
RefusedWithReason ==
  pc = "refused" =>
    \/ \E i \in DOMAIN members : Unsafe(members[i])
    \/ ~Walkable
    \/ requested # NoRequest /\ ~IsFile(requested)
    \/ requested = NoRequest /\ \A p \in Paths : Files(Descriptors) # {p}
    \/ ~skip /\ ~Consistent

(* A descriptor that was not asked for is the only one there is.           *)
DescriptorUnambiguous ==
  pc \in {"manifest", "verify", "parse"} =>
    IF requested = NoRequest THEN Files(Descriptors) = {descriptor}
                             ELSE descriptor = requested /\ tree[requested] \notin {Absent, Dir}

(* What is parsed is what the source has: nothing, if any member of an     *)
(* archive is unsafe, else the last member of every path; and of several   *)
(* descriptors the one that was asked for.                                 *)
SourceFaithful == UnsafeNeverParsed /\ LastMemberWins /\ DescriptorUnambiguous

(* Unless someone else is to compare, or nobody, what is parsed has every  *)
(* digest its manifests list, and what has them is not refused.            *)
ParsedIfConsistent == InconsistentNeverParsed /\ RefusedWithReason

(* When references are resolved: SecureResolve draws the line where        *)
(* walking along the directories draws it.                                 *)
InsideExactly == pc = "verify" => StaysInside /\ InsideAccepted
=============================================================================
