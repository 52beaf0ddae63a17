-------------------------- MODULE ApplianceProofs --------------------------
(***************************************************************************)
(* Theorems about Appliance, for archives and manifests of any size.       *)
(***************************************************************************)
EXTENDS Appliance, SequenceTheorems, FiniteSetTheorems, WellFoundedInduction,
        TLAPS

(* Every member passed over or extracted so far is safe.                   *)
AllSafe == pc # "refused" => \A i \in DOMAIN members : ~Unsafe(members[i])

(* Manifests are compared by one who may, on a tree without links.         *)
Comparing ==
  /\ pc = "verify" => /\ ~skip /\ ~Delegated /\ Walkable
                      /\ pending \union {manifest} \subseteq Files(Manifests) \union {Root}
  /\ pc # "verify" /\ pc \notin {"refused", "error", "parse"} =>
       pending = {} /\ manifest = Root
  /\ pc = "parse" => skip \/ Delegated \/ (pending = {} /\ manifest = Root /\ Walkable)

(* The manifests done with match, and so do the lines passed.              *)
AllMatch(m) == \A n \in DOMAIN Lines[tree[m]] : Matches(m, Lines[tree[m]][n])

Compared ==
  pc = "verify" \/ (pc = "parse" /\ ~skip /\ ~Delegated) =>
    /\ \A m \in Files(Manifests) \ (pending \union {manifest}) : AllMatch(m)
    /\ manifest # Root =>
         \A n \in DOMAIN Lines[tree[manifest]] :
           n < line => Matches(manifest, Lines[tree[manifest]][n])

(* Members are read only from an OVA, and a directory stays what it was.   *)
Sources == source = "directory" => members = <<>> /\ pc # "extract"

ApplianceInv ==
  /\ TypeOK /\ AllSafe /\ LastMemberWins /\ Sources /\ Comparing /\ Compared
  /\ DescriptorUnambiguous /\ RefusedWithReason
-----------------------------------------------------------------------------
LEMMA InitAppliance == Init => ApplianceInv
  <1> SUFFICES ASSUME Init PROVE ApplianceInv
    OBVIOUS
  <1> USE ApplianceAssumption DEF Init
  <1>1. tree \in [Paths -> Contents \union NotAFile]
    <2>1. CASE source = "ova"
      BY <2>1 DEF NotAFile
    <2>2. CASE source = "directory"
      BY <2>2
    <2>3. QED
      BY <2>1, <2>2
  <1>2. members \in Seq(Members) /\ DOMAIN members = {} /\ members = <<>>
    OBVIOUS
  <1>3. pc \in {"extract", "find"} /\ (pc = "extract" <=> source = "ova")
    OBVIOUS
  <1>4. TypeOK
    BY <1>1, <1>2, <1>3 DEF TypeOK
  <1>5. LastMemberWins
    <2> SUFFICES ASSUME source = "ova", NEW p \in Paths PROVE FilesAt(p) = {} /\ tree[p] \notin Contents
      BY DEF LastMemberWins
    <2>1. FilesAt(p) = {}
      BY <1>2 DEF FilesAt
    <2>2. tree[p] = Absent
      OBVIOUS
    <2>3. QED
      BY <2>1, <2>2 DEF NotAFile
  <1>6. QED
    BY <1>2, <1>3, <1>4, <1>5 DEF ApplianceInv, AllSafe, Sources, Comparing, Compared,
       DescriptorUnambiguous, RefusedWithReason

LEMMA TypePreserved == TypeOK /\ [Next]_vars => TypeOK'
  <1> SUFFICES ASSUME TypeOK, [Next]_vars PROVE TypeOK'
    OBVIOUS
  <1> USE ApplianceAssumption DEF TypeOK, cfg, check
  <1>1. ASSUME NEW member \in Members, Extract(member) PROVE TypeOK'
    <2>1. members' \in Seq(Members)
      BY <1>1 DEF Extract
    <2>2. /\ UNCHANGED <<cfg, descriptor, pending, manifest, line>>
          /\ pc' \in {"extract", "refused", "error"} /\ pc = "extract"
          /\ tree' = tree \/ (~Skipped(member) /\ ~Unsafe(member) /\ tree' = Written(member))
      BY <1>1 DEF Extract, Refuse
    <2>3. tree' \in [Paths -> Contents \union NotAFile]
      <3>1. Written(member) \in [Paths -> Contents \union NotAFile]
        <4>1. member.content \in Contents
          BY DEF Member
        <4>2. Dir \in NotAFile
          BY DEF NotAFile
        <4>3. QED
          BY <4>1, <4>2 DEF Written
      <3>2. QED
        BY <2>2, <3>1
    <2>4. QED
      BY <2>1, <2>2, <2>3
  <1>2. CASE EndOfArchive
    BY <1>2 DEF EndOfArchive
  <1>3. CASE FindDescriptor
    <2>1. descriptor' \in Paths \union {Root} /\ pc' \in {"manifest", "refused"}
          /\ UNCHANGED <<cfg, members, tree, check>>
      BY <1>3 DEF FindDescriptor, Refuse, IsFile, IsALink
    <2>2. QED
      BY <2>1
  <1>4. CASE StartVerification
    <2>1. pending' \in SUBSET Manifests /\ pc' \in {"parse", "verify", "refused"}
          /\ UNCHANGED <<cfg, members, tree, descriptor, manifest, line>>
      BY <1>4 DEF StartVerification, Refuse, Files
    <2>2. QED
      BY <2>1
  <1>5. ASSUME NEW m \in Manifests, OpenManifest(m) PROVE TypeOK'
    BY <1>5 DEF OpenManifest
  <1>6. CASE VerifyLine
    <2>1. line' \in Nat \ {0} /\ pc' \in {"verify", "refused"}
          /\ UNCHANGED <<cfg, members, tree, descriptor, pending, manifest>>
      BY <1>6 DEF VerifyLine, Refuse
    <2>2. QED
      BY <2>1
  <1>7. CASE EndOfManifest
    BY <1>7 DEF EndOfManifest
  <1>8. CASE EndOfVerification
    BY <1>8 DEF EndOfVerification
  <1>9. CASE GiveUp
    BY <1>9 DEF GiveUp
  <1>10. CASE UNCHANGED vars
    BY <1>10 DEF vars
  <1>11. QED
    BY <1>1, <1>2, <1>3, <1>4, <1>5, <1>6, <1>7, <1>8, <1>9, <1>10 DEF Next, Ended

(* An archive that has been read is not changed by what follows.           *)
LEMMA SourceFixed ==
  ASSUME UNCHANGED <<cfg, members, tree>>
  PROVE  /\ \A p : FilesAt(p)' = FilesAt(p) /\ ContentOf(p)' = ContentOf(p)
         /\ \A m, l : Matches(m, l)' = Matches(m, l)
         /\ Files(Descriptors)' = Files(Descriptors)
         /\ Files(Manifests)' = Files(Manifests)
         /\ \A m : AllMatch(m)' = AllMatch(m)
         /\ \A member : Unsafe(member)' = Unsafe(member)
         /\ Consistent' = Consistent /\ Walkable' = Walkable /\ Delegated' = Delegated
         /\ \A p : IsFile(p)' = IsFile(p)
  BY DEF cfg, FilesAt, ContentOf, Matches, Files, AllMatch, Unsafe, Consistent, Walkable,
     Delegated, IsFile

(* What a step that leaves the source alone preserves of it.               *)
LEMMA SourceKept ==
  ASSUME ApplianceInv, UNCHANGED <<cfg, members, tree>>,
         pc \notin {"refused", "error"}, pc' # "extract"
  PROVE  AllSafe' /\ LastMemberWins' /\ Sources'
  <1>1. \A p : FilesAt(p)' = FilesAt(p)
    BY SourceFixed
  <1>2. AllSafe'
    BY SourceFixed DEF ApplianceInv, AllSafe
  <1>3. LastMemberWins'
    BY <1>1 DEF ApplianceInv, LastMemberWins, cfg, MetadataOnly
  <1>4. Sources'
    BY DEF ApplianceInv, Sources, cfg
  <1>5. QED
    BY <1>2, <1>3, <1>4

(* Of a source that is compared here, everything has been extracted.       *)
LEMMA ComparedTree ==
  ASSUME ApplianceInv, pc \in {"manifest", "verify", "parse"}, ~Delegated, NEW p \in Paths
  PROVE  /\ tree[p] \in Contents => ContentOf(p) = tree[p]
         /\ ContentOf(p) \in Contents => tree[p] = ContentOf(p)
  <1>1. CASE source = "directory"
    BY <1>1 DEF ContentOf
  <1>2. CASE source = "ova"
    <2>1. ~MetadataOnly
      BY <1>2 DEF Delegated, MetadataOnly, ApplianceInv, TypeOK
    <2>2. CASE FilesAt(p) = {}
      BY <1>2, <2>2, ApplianceAssumption DEF ContentOf, ApplianceInv, LastMemberWins, NotAFile
    <2>3. CASE FilesAt(p) # {}
      <3>1. PICK i \in FilesAt(p) : tree[p] = members[i].content /\ \A h \in FilesAt(p) : h <= i
        BY <1>2, <2>1, <2>3 DEF ApplianceInv, LastMemberWins
      <3>2. FilesAt(p) \subseteq Nat
        BY DEF FilesAt, ApplianceInv, TypeOK
      <3>3. \A j \in FilesAt(p) : (\A h \in FilesAt(p) : h <= j) => j = i
        BY <3>1, <3>2
      <3>4. (CHOOSE j \in FilesAt(p) : \A h \in FilesAt(p) : h <= j) = i
        BY <3>1, <3>3
      <3>5. ContentOf(p) = members[i].content
        BY <1>2, <2>3, <3>4 DEF ContentOf
      <3>6. QED
        BY <3>1, <3>5
    <2>4. QED
      BY <2>2, <2>3
  <1>3. QED
    BY <1>1, <1>2 DEF ApplianceInv, TypeOK

LEMMA ExtractStep ==
  ASSUME ApplianceInv, TypeOK', NEW member \in Members, Extract(member)
  PROVE  ApplianceInv'
  <1> DEFINE n == Len(members) + 1
  <1>1. /\ pc = "extract" /\ UNCHANGED <<cfg, descriptor, check>>
        /\ source = "ova" /\ source' = "ova"
        /\ members \in Seq(Members) /\ members' = Append(members, member)
    BY DEF Extract, Refuse, ApplianceInv, Sources, TypeOK, cfg
  <1>2. /\ DOMAIN members = 1..(n - 1) /\ DOMAIN members' = 1..n /\ n \in Nat \ {0}
        /\ members'[n] = member /\ \A i \in 1..(n - 1) : members'[i] = members[i]
    BY <1>1
  <1>3. /\ \A m : Unsafe(m)' = Unsafe(m)
        /\ \A i \in 1..(n - 1) : ~Unsafe(members[i])
    BY <1>1, <1>2 DEF Unsafe, ApplianceInv, AllSafe
  <1>4. \A p \in Paths : IF member.path = p /\ member.type = "file"
                         THEN FilesAt(p)' = FilesAt(p) \union {n}
                         ELSE FilesAt(p)' = FilesAt(p)
    <2> TAKE p \in Paths
    <2>1. FilesAt(p) = {i \in 1..(n - 1) : members[i].path = p /\ members[i].type = "file"}
      BY <1>2 DEF FilesAt
    <2>2. FilesAt(p)' = {i \in 1..n : members'[i].path = p /\ members'[i].type = "file"}
      BY <1>2 DEF FilesAt
    <2>3. QED
      BY <2>1, <2>2, <1>2
  <1>5. \A p \in Paths : FilesAt(p) \subseteq 1..(n - 1)
    BY <1>2 DEF FilesAt
  <1>6. pending = {} /\ manifest = Root
    BY <1>1 DEF ApplianceInv, Comparing
  <1>7. /\ member \in Member /\ member.content \in Contents
        /\ member.path \in Paths \union {Root, Outside}
        /\ member.type \in {"file", "dir", "link", "other"}
    BY ApplianceAssumption DEF Member
  <1>8. CASE Skipped(member) /\ UNCHANGED <<pc, tree>>
    <2>1. ~Unsafe(member)
      BY <1>8 DEF Skipped, Unsafe
    <2>2. AllSafe'
      BY <1>2, <1>3, <2>1 DEF AllSafe
    <2>3. LastMemberWins'
      <3> SUFFICES ASSUME NEW p \in Paths
                   PROVE  IF FilesAt(p)' # {} /\ (MetadataOnly' => p \in Metadata)
                          THEN \E i \in FilesAt(p)' : /\ tree'[p] = members'[i].content
                                                      /\ \A h \in FilesAt(p)' : h <= i
                          ELSE tree'[p] \notin Contents
        BY DEF LastMemberWins, Metadata
      <3>1. IF FilesAt(p) # {} /\ (MetadataOnly => p \in Metadata)
            THEN \E i \in FilesAt(p) : /\ tree[p] = members[i].content
                                       /\ \A h \in FilesAt(p) : h <= i
            ELSE tree[p] \notin Contents
        BY <1>1 DEF ApplianceInv, LastMemberWins
      <3>2. MetadataOnly' = MetadataOnly /\ tree' = tree
        BY <1>1, <1>8 DEF MetadataOnly, cfg
      <3>3. CASE member.path = p /\ member.type = "file"
        <4>1. MetadataOnly /\ p \notin Metadata
          BY <1>8, <3>3, ApplianceAssumption DEF Skipped
        <4>2. QED
          BY <3>1, <3>2, <4>1
      <3>4. CASE ~(member.path = p /\ member.type = "file")
        <4>1. FilesAt(p)' = FilesAt(p) /\ \A i \in FilesAt(p) : members'[i] = members[i]
          BY <1>2, <1>4, <1>5, <3>4
        <4>2. QED
          BY <3>1, <3>2, <4>1
      <3>5. QED
        BY <3>3, <3>4
    <2>4. QED
      BY <1>1, <1>6, <1>8, <2>2, <2>3 DEF ApplianceInv, cfg, check, Sources, Comparing, Compared,
         DescriptorUnambiguous, RefusedWithReason
  <1>9. CASE Unsafe(member) /\ Refuse
    <2>1. RefusedWithReason'
      BY <1>2, <1>3, <1>9 DEF RefusedWithReason
    <2>2. QED
      BY <1>1, <1>6, <1>9, <2>1 DEF ApplianceInv, Refuse, cfg, AllSafe, LastMemberWins,
         Sources, Comparing, Compared, DescriptorUnambiguous
  <1>10. CASE ~Unsafe(member) /\ pc' = "error" /\ UNCHANGED tree
    <2>1. AllSafe'
      BY <1>2, <1>3, <1>10 DEF AllSafe
    <2>2. QED
      BY <1>1, <1>6, <1>10, <2>1 DEF ApplianceInv, cfg, check, LastMemberWins,
         Sources, Comparing, Compared, DescriptorUnambiguous, RefusedWithReason
  <1>11. CASE ~Skipped(member) /\ ~Unsafe(member) /\ tree' = Written(member) /\ pc' = pc
              /\ ~Clash(member)
    <2>1. AllSafe'
      BY <1>2, <1>3, <1>11 DEF AllSafe
    <2>2. /\ member.path \in Paths /\ member.type \in {"file", "dir"}
          /\ MetadataOnly /\ member.type = "file" => member.path \in Metadata
      BY <1>7, <1>11 DEF Skipped, Unsafe
    <2>3. /\ tree \in [Paths -> Contents \union NotAFile]
          /\ tree'[member.path] = IF member.type = "dir" THEN Dir ELSE member.content
          /\ \A p \in Paths : p # member.path => tree'[p] = tree[p]
      BY <1>11, <2>2 DEF Written, ApplianceInv, TypeOK
    <2>4. LastMemberWins'
      <3> SUFFICES ASSUME NEW p \in Paths
                   PROVE  IF FilesAt(p)' # {} /\ (MetadataOnly' => p \in Metadata)
                          THEN \E i \in FilesAt(p)' : /\ tree'[p] = members'[i].content
                                                      /\ \A h \in FilesAt(p)' : h <= i
                          ELSE tree'[p] \notin Contents
        BY DEF LastMemberWins, Metadata
      <3>1. IF FilesAt(p) # {} /\ (MetadataOnly => p \in Metadata)
            THEN \E i \in FilesAt(p) : /\ tree[p] = members[i].content
                                       /\ \A h \in FilesAt(p) : h <= i
            ELSE tree[p] \notin Contents
        BY <1>1 DEF ApplianceInv, LastMemberWins
      <3>2. MetadataOnly' = MetadataOnly
        BY <1>1 DEF MetadataOnly, cfg
      <3>3. CASE member.path = p /\ member.type = "file"
        <4>1. n \in FilesAt(p)' /\ \A h \in FilesAt(p)' : h <= n
          BY <1>4, <1>5, <3>3, <1>2
        <4>2. tree'[p] = members'[n].content
          BY <2>3, <3>3, <1>2
        <4>3. MetadataOnly => p \in Metadata
          BY <2>2, <3>3
        <4>4. QED
          BY <4>1, <4>2, <4>3, <3>2
      <3>4. CASE member.path = p /\ member.type = "dir"
        <4>1. tree[p] \notin Contents /\ tree'[p] = Dir
          BY <1>11, <2>3, <3>4 DEF Clash
        <4>2. ~(FilesAt(p) # {} /\ (MetadataOnly => p \in Metadata))
          <5>1. \A i \in FilesAt(p) : members[i].content \in Contents
            <6>1. \A i \in 1..(n - 1) : members[i] \in Members
              BY <1>1, <1>2
            <6>2. \A m \in Members : m.content \in Contents
              BY ApplianceAssumption DEF Member
            <6>3. QED
              BY <1>5, <6>1, <6>2
          <5>2. QED
            BY <3>1, <4>1, <5>1
        <4>3. FilesAt(p)' = FilesAt(p)
          BY <1>4, <3>4
        <4>4. Dir \notin Contents
          BY ApplianceAssumption DEF NotAFile
        <4>5. QED
          BY <3>2, <4>1, <4>2, <4>3, <4>4
      <3>5. CASE member.path # p
        <4>1. /\ FilesAt(p)' = FilesAt(p) /\ \A i \in FilesAt(p) : members'[i] = members[i]
              /\ tree'[p] = tree[p]
          BY <1>2, <1>4, <1>5, <2>3, <3>5
        <4>2. QED
          BY <3>1, <3>2, <4>1
      <3>6. QED
        BY <2>2, <3>3, <3>4, <3>5
    <2>5. QED
      BY <1>1, <1>6, <1>11, <2>1, <2>4 DEF ApplianceInv, cfg, check, Sources, Comparing,
         Compared, DescriptorUnambiguous, RefusedWithReason
  <1>12. QED
    BY <1>8, <1>9, <1>10, <1>11 DEF Extract

LEMMA EndOfArchiveStep ==
  ASSUME ApplianceInv, TypeOK', EndOfArchive
  PROVE  ApplianceInv'
  <1>1. /\ pc = "extract" /\ pc' = "find" /\ UNCHANGED <<cfg, members, tree, descriptor, check>>
    BY DEF EndOfArchive
  <1>2. AllSafe' /\ LastMemberWins' /\ Sources'
    BY <1>1, SourceKept
  <1>3. QED
    BY <1>1, <1>2 DEF ApplianceInv, cfg, check, Comparing, Compared, DescriptorUnambiguous,
       RefusedWithReason

LEMMA FindDescriptorStep ==
  ASSUME ApplianceInv, TypeOK', FindDescriptor
  PROVE  ApplianceInv'
  <1>1. /\ pc = "find" /\ pc' \in {"manifest", "refused"}
        /\ UNCHANGED <<cfg, members, tree, check>>
    BY DEF FindDescriptor, Refuse
  <1>2. AllSafe' /\ LastMemberWins' /\ Sources'
    BY <1>1, SourceKept
  <1>3. Comparing' /\ Compared'
    BY <1>1 DEF ApplianceInv, cfg, check, Comparing, Compared
  <1>4. Files(Descriptors)' = Files(Descriptors) /\ requested' = requested /\ tree' = tree
        /\ Walkable' = Walkable /\ \A p : IsFile(p)' = IsFile(p)
    BY <1>1, SourceFixed DEF cfg
  <1>5. CASE pc' = "manifest"
    <2>1. \/ (IsFile(requested) \/ IsALink(requested)) /\ descriptor' = requested
          \/ requested = NoRequest /\ Files(Descriptors) = {descriptor'}
      BY <1>5 DEF FindDescriptor, Refuse
    <2>2. DescriptorUnambiguous'
      <3>1. CASE (IsFile(requested) \/ IsALink(requested)) /\ descriptor' = requested
        <4>1. requested \in Paths /\ tree[requested] \notin {Absent, Dir}
          BY <3>1, ApplianceAssumption DEF IsFile, IsALink, NotAFile, Symlink, Absent, Dir
        <4>2. requested # NoRequest
          BY <4>1, ApplianceAssumption
        <4>3. QED
          BY <3>1, <4>1, <4>2, <1>4 DEF DescriptorUnambiguous
      <3>2. CASE requested = NoRequest /\ Files(Descriptors) = {descriptor'}
        BY <3>2, <1>4 DEF DescriptorUnambiguous
      <3>3. QED
        BY <2>1, <3>1, <3>2
    <2>3. QED
      BY <1>2, <1>3, <1>5, <2>2 DEF ApplianceInv, RefusedWithReason
  <1>6. CASE pc' = "refused"
    <2>1. \/ requested # NoRequest /\ ~IsFile(requested)
          \/ requested = NoRequest /\ (~Walkable \/ \A p \in Paths : Files(Descriptors) # {p})
      BY <1>6 DEF FindDescriptor, Refuse
    <2>2. RefusedWithReason'
      BY <2>1, <1>4 DEF RefusedWithReason
    <2>3. QED
      BY <1>2, <1>3, <1>6, <2>2 DEF ApplianceInv, DescriptorUnambiguous
  <1>7. QED
    BY <1>1, <1>5, <1>6

LEMMA DescriptorKept ==
  ASSUME ApplianceInv, UNCHANGED <<cfg, members, tree, descriptor>>,
         pc \in {"manifest", "verify", "parse"}
  PROVE  DescriptorUnambiguous'
  BY SourceFixed DEF ApplianceInv, DescriptorUnambiguous, cfg

LEMMA StartVerificationStep ==
  ASSUME ApplianceInv, TypeOK', StartVerification
  PROVE  ApplianceInv'
  <1>1. /\ pc = "manifest" /\ pc' \in {"parse", "verify", "refused"}
        /\ UNCHANGED <<cfg, members, tree, descriptor, manifest, line>>
    BY DEF StartVerification, Refuse, cfg, check
  <1>2. AllSafe' /\ LastMemberWins' /\ Sources' /\ DescriptorUnambiguous'
    BY <1>1, SourceKept, DescriptorKept
  <1>3. /\ pending = {} /\ manifest = Root /\ manifest' = Root
        /\ Walkable' = Walkable /\ Delegated' = Delegated /\ skip' = skip
        /\ Files(Manifests)' = Files(Manifests)
    BY <1>1, SourceFixed DEF ApplianceInv, Comparing, cfg
  <1>4. CASE (skip \/ Delegated) /\ pc' = "parse" /\ pending' = pending
    BY <1>2, <1>3, <1>4 DEF ApplianceInv, Comparing, Compared, RefusedWithReason
  <1>5. CASE ~skip /\ ~Delegated /\ ~Walkable /\ pc' = "refused" /\ pending' = pending
    BY <1>2, <1>3, <1>5 DEF ApplianceInv, Comparing, Compared, RefusedWithReason
  <1>6. CASE ~skip /\ ~Delegated /\ Walkable /\ pc' = "verify" /\ pending' = Files(Manifests)
    BY <1>2, <1>3, <1>6 DEF ApplianceInv, Comparing, Compared, RefusedWithReason
  <1>7. QED
    BY <1>4, <1>5, <1>6 DEF StartVerification, Refuse, check

LEMMA OpenManifestStep ==
  ASSUME ApplianceInv, TypeOK', NEW m \in Manifests, OpenManifest(m)
  PROVE  ApplianceInv'
  <1>1. /\ pc = "verify" /\ pc' = "verify" /\ UNCHANGED <<cfg, members, tree, descriptor>>
        /\ manifest = Root /\ m \in pending /\ pending' = pending \ {m}
        /\ manifest' = m /\ line' = 1
    BY DEF OpenManifest
  <1>2. AllSafe' /\ LastMemberWins' /\ Sources' /\ DescriptorUnambiguous'
    BY <1>1, SourceKept, DescriptorKept
  <1>3. /\ Walkable' = Walkable /\ Delegated' = Delegated /\ skip' = skip
        /\ Files(Manifests)' = Files(Manifests)
        /\ \A f : AllMatch(f)' = AllMatch(f)
        /\ tree' = tree
    BY <1>1, SourceFixed DEF cfg
  <1>4. m \in Files(Manifests) /\ tree[m] \in Contents /\ Root \notin Files(Manifests)
    BY <1>1, ApplianceAssumption DEF ApplianceInv, Comparing, Files
  <1>5. Comparing'
    BY <1>1, <1>3, <1>4 DEF ApplianceInv, Comparing
  <1>6. Compared'
    <2>1. \A f \in Files(Manifests) \ (pending' \union {manifest'}) : AllMatch(f)
      BY <1>1, <1>4 DEF ApplianceInv, Compared
    <2>2. \A n \in DOMAIN Lines[tree[m]] : ~(n < 1)
      BY <1>4, ApplianceAssumption
    <2>3. QED
      BY <1>1, <1>3, <2>1, <2>2 DEF Compared
  <1>7. QED
    BY <1>1, <1>2, <1>5, <1>6 DEF ApplianceInv, RefusedWithReason

(* A line that does not match what was extracted does not match the source.*)
LEMMA MismatchIsReal ==
  ASSUME ApplianceInv, pc = "verify", NEW m \in Files(Manifests),
         NEW n \in DOMAIN Lines[tree[m]], ~Matches(m, Lines[tree[m]][n])
  PROVE  ~Consistent
  <1> DEFINE l == Lines[tree[m]][n]
             target == Resolve[m][l.href]
  <1>1. ~Delegated /\ m \in Manifests /\ m \in Paths /\ tree[m] \in Contents
    BY ApplianceAssumption DEF ApplianceInv, Comparing, Files
  <1>2. ContentOf(m) = tree[m]
    BY <1>1, ComparedTree
  <1>3. l \in Line /\ target \in Paths \union {Outside} /\ l.digest \in Contents
    <2>1. Lines[tree[m]] \in Seq(Line)
      BY <1>1, ApplianceAssumption
    <2>2. l \in Line
      BY <2>1
    <2>3. l.href \in Hrefs /\ l.digest \in Contents
      BY <2>2 DEF Line
    <2>4. QED
      BY <1>1, <2>2, <2>3, ApplianceAssumption
  <1>4. l.kind # "blank"
    BY DEF Matches
  <1>5. l.kind = "entry" /\ target # Outside => ContentOf(target) # l.digest
    <2> SUFFICES ASSUME l.kind = "entry", target # Outside, ContentOf(target) = l.digest
                 PROVE  FALSE
      OBVIOUS
    <2>1. target \in Paths /\ ContentOf(target) \in Contents
      BY <1>3
    <2>2. tree[target] = ContentOf(target)
      BY <1>1, <2>1, ComparedTree
    <2>3. QED
      BY <2>2 DEF Matches
  <1>6. SUFFICES ASSUME Consistent PROVE FALSE
    OBVIOUS
  <1>7. l.kind = "blank" \/ (l.kind = "entry" /\ target # Outside /\ ContentOf(target) = l.digest)
    BY <1>1, <1>2, <1>6 DEF Consistent
  <1>8. QED
    BY <1>4, <1>5, <1>7

LEMMA VerifyLineStep ==
  ASSUME ApplianceInv, TypeOK', VerifyLine
  PROVE  ApplianceInv'
  <1>1. /\ pc = "verify" /\ manifest # Root /\ UNCHANGED <<cfg, members, tree, descriptor>>
        /\ pending' = pending /\ manifest' = manifest /\ pc' \in {"verify", "refused"}
        /\ line <= Len(Lines[tree[manifest]]) /\ line \in Nat \ {0}
    BY DEF VerifyLine, Refuse, check, ApplianceInv, TypeOK
  <1>2. AllSafe' /\ LastMemberWins' /\ Sources' /\ DescriptorUnambiguous'
    BY <1>1, SourceKept, DescriptorKept
  <1>3. /\ Walkable' = Walkable /\ Delegated' = Delegated /\ skip' = skip
        /\ Files(Manifests)' = Files(Manifests) /\ Consistent' = Consistent
        /\ \A f : AllMatch(f)' = AllMatch(f)
        /\ \A f, l : Matches(f, l)' = Matches(f, l)
        /\ tree' = tree
    BY <1>1, SourceFixed DEF cfg
  <1>4. /\ manifest \in Files(Manifests) /\ tree[manifest] \in Contents
        /\ Lines[tree[manifest]] \in Seq(Line) /\ line \in DOMAIN Lines[tree[manifest]]
    BY <1>1, ApplianceAssumption DEF ApplianceInv, Comparing, Files
  <1>5. Comparing'
    BY <1>1, <1>3 DEF ApplianceInv, Comparing
  <1>6. CASE Matches(manifest, Lines[tree[manifest]][line]) /\ pc' = "verify" /\ line' = line + 1
    <2>1. \A n \in DOMAIN Lines[tree[manifest]] :
            n < line + 1 => Matches(manifest, Lines[tree[manifest]][n])
      <3>1. \A n \in DOMAIN Lines[tree[manifest]] : n \in Nat /\ (n < line + 1 => n < line \/ n = line)
        BY <1>1, <1>4
      <3>2. \A n \in DOMAIN Lines[tree[manifest]] :
              n < line => Matches(manifest, Lines[tree[manifest]][n])
        BY <1>1 DEF ApplianceInv, Compared
      <3>3. QED
        BY <3>1, <3>2, <1>6
    <2>2. \A f \in Files(Manifests) \ (pending \union {manifest}) : AllMatch(f)
      BY <1>1 DEF ApplianceInv, Compared
    <2>3. Compared'
      BY <1>1, <1>3, <1>6, <2>1, <2>2 DEF Compared
    <2>4. QED
      BY <1>2, <1>5, <1>6, <2>3 DEF ApplianceInv, RefusedWithReason
  <1>7. CASE ~Matches(manifest, Lines[tree[manifest]][line]) /\ pc' = "refused"
    <2>1. ~Consistent
      BY <1>1, <1>4, <1>7, MismatchIsReal
    <2>2. ~skip
      BY <1>1 DEF ApplianceInv, Comparing
    <2>3. QED
      BY <1>2, <1>3, <1>5, <1>7, <2>1, <2>2 DEF ApplianceInv, RefusedWithReason, Compared
  <1>8. QED
    BY <1>6, <1>7 DEF VerifyLine, Refuse

LEMMA EndOfManifestStep ==
  ASSUME ApplianceInv, TypeOK', EndOfManifest
  PROVE  ApplianceInv'
  <1>1. /\ pc = "verify" /\ pc' = "verify" /\ UNCHANGED <<cfg, members, tree, descriptor>>
        /\ pending' = pending /\ manifest # Root /\ manifest' = Root /\ line' = line
        /\ line > Len(Lines[tree[manifest]]) /\ line \in Nat
    BY DEF EndOfManifest, ApplianceInv, TypeOK
  <1>2. AllSafe' /\ LastMemberWins' /\ Sources' /\ DescriptorUnambiguous'
    BY <1>1, SourceKept, DescriptorKept
  <1>3. /\ Walkable' = Walkable /\ Delegated' = Delegated /\ skip' = skip
        /\ Files(Manifests)' = Files(Manifests)
        /\ \A f : AllMatch(f)' = AllMatch(f)
        /\ tree' = tree
    BY <1>1, SourceFixed DEF cfg
  <1>4. /\ manifest \in Files(Manifests) /\ tree[manifest] \in Contents
        /\ Lines[tree[manifest]] \in Seq(Line)
    BY <1>1, ApplianceAssumption DEF ApplianceInv, Comparing, Files
  <1>5. AllMatch(manifest)
    <2>1. \A n \in DOMAIN Lines[tree[manifest]] : n < line
      BY <1>1, <1>4
    <2>2. QED
      BY <1>1, <2>1 DEF ApplianceInv, Compared, AllMatch
  <1>6. Compared'
    <2>1. \A f \in Files(Manifests) \ (pending \union {Root}) : AllMatch(f)
      BY <1>1, <1>5 DEF ApplianceInv, Compared
    <2>2. QED
      BY <1>1, <1>3, <2>1 DEF Compared
  <1>7. Comparing'
    BY <1>1, <1>3 DEF ApplianceInv, Comparing
  <1>8. QED
    BY <1>1, <1>2, <1>6, <1>7 DEF ApplianceInv, RefusedWithReason

LEMMA EndOfVerificationStep ==
  ASSUME ApplianceInv, TypeOK', EndOfVerification
  PROVE  ApplianceInv'
  <1>1. /\ pc = "verify" /\ pc' = "parse" /\ manifest = Root /\ pending = {}
        /\ UNCHANGED <<cfg, members, tree, descriptor, pending, manifest, line>>
    BY DEF EndOfVerification, check
  <1>2. AllSafe' /\ LastMemberWins' /\ Sources' /\ DescriptorUnambiguous'
    BY <1>1, SourceKept, DescriptorKept
  <1>3. /\ Walkable' = Walkable /\ Delegated' = Delegated /\ skip' = skip
        /\ Files(Manifests)' = Files(Manifests)
        /\ \A f : AllMatch(f)' = AllMatch(f)
    BY <1>1, SourceFixed DEF cfg
  <1>4. Comparing' /\ Compared'
    BY <1>1, <1>3 DEF ApplianceInv, Comparing, Compared
  <1>5. QED
    BY <1>1, <1>2, <1>4 DEF ApplianceInv, RefusedWithReason

LEMMA GiveUpStep ==
  ASSUME ApplianceInv, TypeOK', GiveUp
  PROVE  ApplianceInv'
  <1>1. /\ pc \notin {"parse", "refused", "error"} /\ pc' = "error"
        /\ UNCHANGED <<cfg, members, tree, descriptor, check>>
    BY DEF GiveUp
  <1>2. AllSafe' /\ LastMemberWins' /\ Sources'
    BY <1>1, SourceKept
  <1>3. QED
    BY <1>1, <1>2 DEF ApplianceInv, Comparing, Compared, DescriptorUnambiguous,
       RefusedWithReason

LEMMA StutterStep ==
  ASSUME ApplianceInv, UNCHANGED vars
  PROVE  ApplianceInv'
  <1>1. UNCHANGED <<cfg, members, tree, pc, descriptor, pending, manifest, line>>
    BY DEF vars, check
  <1>2. TypeOK'
    BY TypePreserved DEF ApplianceInv
  <1>3. AllSafe'
    BY <1>1, SourceFixed DEF ApplianceInv, AllSafe
  <1>4. LastMemberWins' /\ Sources'
    BY <1>1, SourceFixed DEF ApplianceInv, LastMemberWins, Sources, cfg, MetadataOnly
  <1>5. Comparing'
    BY <1>1, SourceFixed DEF ApplianceInv, Comparing, cfg
  <1>6. Compared'
    BY <1>1, SourceFixed DEF ApplianceInv, Compared, cfg
  <1>7. DescriptorUnambiguous' /\ RefusedWithReason'
    BY <1>1, SourceFixed DEF ApplianceInv, DescriptorUnambiguous, RefusedWithReason, cfg
  <1>8. QED
    BY <1>2, <1>3, <1>4, <1>5, <1>6, <1>7 DEF ApplianceInv

LEMMA ApplianceInvariant == Spec => []ApplianceInv
  <1>1. ApplianceInv /\ [Next]_vars => ApplianceInv'
    <2> SUFFICES ASSUME ApplianceInv, [Next]_vars PROVE ApplianceInv'
      OBVIOUS
    <2>1. TypeOK'
      BY TypePreserved DEF ApplianceInv
    <2>2. QED
      BY <2>1, ExtractStep, EndOfArchiveStep, FindDescriptorStep, StartVerificationStep,
         OpenManifestStep, VerifyLineStep, EndOfManifestStep, EndOfVerificationStep,
         GiveUpStep, StutterStep DEF Next, Ended
  <1>2. QED
    BY <1>1, InitAppliance, PTL DEF Spec
-----------------------------------------------------------------------------
(* Type correctness of Appliance, for archives of any size.                *)
THEOREM ApplianceTypeCorrect == Spec => []TypeOK
  <1>1. ApplianceInv => TypeOK
    BY DEF ApplianceInv
  <1>2. QED
    BY <1>1, ApplianceInvariant, PTL

(* No archive with an escaping path or a link is read beyond it.           *)
THEOREM UnsafeRefused == Spec => []UnsafeNeverParsed
  <1>1. ApplianceInv => UnsafeNeverParsed
    BY DEF ApplianceInv, AllSafe, UnsafeNeverParsed
  <1>2. QED
    BY <1>1, ApplianceInvariant, PTL

(* What is extracted, in either mode, is the content of the last member of *)
(* that name.                                                              *)
THEOREM ExtractFaithful == Spec => []LastMemberWins
  <1>1. ApplianceInv => LastMemberWins
    BY DEF ApplianceInv
  <1>2. QED
    BY <1>1, ApplianceInvariant, PTL

(* Where the comparison is made here, an appliance that contradicts its    *)
(* manifests gets no further.                                              *)
THEOREM ContradictionStopped == Spec => []InconsistentNeverParsed
  <1>1. ApplianceInv => InconsistentNeverParsed
    <2> SUFFICES ASSUME ApplianceInv, pc = "parse", ~skip, ~Delegated PROVE Consistent
      BY DEF InconsistentNeverParsed, Delegated
    <2>1. pending = {} /\ manifest = Root /\ \A m \in Files(Manifests) : AllMatch(m)
      <3>1. pending = {} /\ manifest = Root
        BY DEF ApplianceInv, Comparing
      <3>2. Root \notin Files(Manifests)
        BY ApplianceAssumption DEF Files
      <3>3. QED
        BY <3>1, <3>2 DEF ApplianceInv, Compared
    <2>2. SUFFICES ASSUME NEW m \in Manifests, ContentOf(m) \in Contents,
                          NEW n \in DOMAIN Lines[ContentOf(m)]
                   PROVE  LET l == Lines[ContentOf(m)][n]
                          IN  l.kind = "blank" \/ ( /\ l.kind = "entry"
                                                    /\ Resolve[m][l.href] # Outside
                                                    /\ ContentOf(Resolve[m][l.href]) = l.digest )
      BY DEF Consistent
    <2> DEFINE l == Lines[ContentOf(m)][n]
    <2>3. tree[m] = ContentOf(m) /\ m \in Files(Manifests)
      BY <2>2, ComparedTree, ApplianceAssumption DEF Files
    <2>4. Matches(m, l)
      BY <2>1, <2>2, <2>3 DEF AllMatch
    <2>5. CASE l.kind = "blank"
      BY <2>5
    <2>6. CASE l.kind = "entry" /\ Resolve[m][l.href] # Outside /\ tree[Resolve[m][l.href]] = l.digest
      <3>1. l \in Line
        <4>1. Lines[ContentOf(m)] \in Seq(Line)
          BY <2>2, ApplianceAssumption
        <4>2. QED
          BY <4>1, <2>2
      <3>2. l.href \in Hrefs /\ l.digest \in Contents
        BY <3>1 DEF Line
      <3>3. Resolve[m][l.href] \in Paths
        BY <2>6, <3>2, ApplianceAssumption
      <3>4. ContentOf(Resolve[m][l.href]) = l.digest
        BY <2>6, <3>2, <3>3, ComparedTree
      <3>5. QED
        BY <2>6, <3>4
    <2>7. QED
      BY <2>4, <2>5, <2>6 DEF Matches
  <1>2. QED
    BY <1>1, ApplianceInvariant, PTL

(* An appliance is refused only for a reason, though a part of it may not  *)
(* have been extracted.                                                    *)
THEOREM GoodApplianceAccepted == Spec => []RefusedWithReason
  <1>1. ApplianceInv => RefusedWithReason
    BY DEF ApplianceInv
  <1>2. QED
    BY <1>1, ApplianceInvariant, PTL

(* The descriptor is the one that was asked for or the only one.           *)
THEOREM OneDescriptor == Spec => []DescriptorUnambiguous
  <1>1. ApplianceInv => DescriptorUnambiguous
    BY DEF ApplianceInv
  <1>2. QED
    BY <1>1, ApplianceInvariant, PTL
(* A source is parsed as what it is, or not at all.                        *)
THEOREM SourceTaken == Spec => []SourceFaithful
  BY UnsafeRefused, ExtractFaithful, OneDescriptor, PTL DEF SourceFaithful

(* Where Run compares, the manifests alone decide whether it goes on.      *)
THEOREM ManifestsDecide == Spec => []ParsedIfConsistent
  BY ContradictionStopped, GoodApplianceAccepted, PTL DEF ParsedIfConsistent
-----------------------------------------------------------------------------
(* References, of any length.  The loop of filepath.Clean is a recursive   *)
(* function, so its equation has to have a solution: as far as any length, *)
(* by a least counterexample, and then as far as all of them.              *)

LEMMA LeastNatural ==
  ASSUME NEW S \in SUBSET Nat, S # {}
  PROVE  \E n \in S : \A m \in S : n <= m
  <1> DEFINE Smaller == {p \in Nat \X Nat : p[1] < p[2]}
  <1>1. IsWellFoundedOn(Smaller, Nat)
    BY NatLessThanWellFounded DEF OpToRel
  <1>2. PICK n \in S : \A m \in S : <<m, n>> \notin Smaller
    <2> HIDE DEF Smaller
    <2>1. QED
      BY <1>1, WFMin
  <1>3. ASSUME NEW m \in S PROVE n <= m
    <2>1. <<m, n>> \in Nat \X Nat /\ <<m, n>>[1] = m /\ <<m, n>>[2] = n
      OBVIOUS
    <2>2. ~(m < n)
      BY <1>2, <2>1
    <2>3. QED
      BY <2>2
  <1>4. QED
    BY <1>3

(* The paths without the last token.                                       *)
Before(s) == SubSeq(s, 1, Len(s) - 1)

LEMMA Shortened ==
  ASSUME NEW s \in Seq(Tokens), s # <<>>
  PROVE  /\ Len(s) \in Nat \ {0}
         /\ Before(s) \in Seq(Tokens) /\ Len(Before(s)) = Len(s) - 1
         /\ s[Len(s)] \in Tokens
         /\ s = Append(Before(s), s[Len(s)])
  <1>1. Len(s) \in Nat \ {0} /\ s[Len(s)] \in Tokens
    OBVIOUS
  <1>2. /\ Before(s) \in Seq(Tokens) /\ Len(Before(s)) = Len(s) - 1
        /\ \A k \in 1..(Len(s) - 1) : Before(s)[k] = s[k]
    <2> DEFINE n == Len(s) - 1
    <2>1. n \in Int /\ n \in Nat
      BY <1>1
    <2>2. \A k \in 1..n : s[k] \in Tokens
      BY <1>1
    <2> HIDE DEF n
    <2>3. /\ SubSeq(s, 1, n) \in Seq(Tokens)
          /\ Len(SubSeq(s, 1, n)) = IF 1 <= n THEN n - 1 + 1 ELSE 0
          /\ \A k \in 1..(n - 1 + 1) : SubSeq(s, 1, n)[k] = s[1 + k - 1]
      BY <2>1, <2>2, SubSeqProperties, 1 \in Int
    <2>4. n - 1 + 1 = n /\ \A k \in 1..n : 1 + k - 1 = k
      BY <2>1
    <2>5. /\ SubSeq(s, 1, n) \in Seq(Tokens) /\ Len(SubSeq(s, 1, n)) = n
          /\ \A k \in 1..n : SubSeq(s, 1, n)[k] = s[k]
      BY <2>1, <2>3, <2>4
    <2>6. QED
      BY <2>5 DEF Before, n
  <1>3. s = Append(Before(s), s[Len(s)])
    <2> DEFINE b == Before(s)
               u == Append(b, s[Len(s)])
    <2> HIDE DEF b
    <2>1. /\ b \in Seq(Tokens) /\ Len(b) = Len(s) - 1
          /\ \A k \in 1..(Len(s) - 1) : b[k] = s[k]
      BY <1>2 DEF b
    <2>2. /\ u \in Seq(Tokens) /\ Len(u) = Len(b) + 1
          /\ \A k \in 1..Len(b) : u[k] = b[k]
          /\ u[Len(b) + 1] = s[Len(s)]
      BY <1>1, <2>1, AppendProperties
    <2> HIDE DEF u
    <2>3. Len(u) = Len(s) /\ \A k \in 1..Len(s) : u[k] = s[k]
      BY <1>1, <2>1, <2>2
    <2>4. u = s
      BY <2>2, <2>3, SeqEqual
    <2>5. QED
      BY <2>4 DEF u, b
  <1>4. QED
    BY <1>1, <1>2, <1>3

LEMMA Lengthened ==
  ASSUME NEW s \in Seq(Tokens), NEW t \in Tokens
  PROVE  /\ Append(s, t) \in Seq(Tokens) /\ Append(s, t) # <<>>
         /\ Len(Append(s, t)) = Len(s) + 1
         /\ \A k \in 1..Len(s) : Append(s, t)[k] = s[k]
         /\ Append(s, t)[Len(s) + 1] = t
         /\ Before(Append(s, t)) = s
  <1>1. /\ Append(s, t) \in Seq(Tokens) /\ Append(s, t) # <<>>
        /\ Len(Append(s, t)) = Len(s) + 1
        /\ \A k \in 1..Len(s) : Append(s, t)[k] = s[k]
        /\ Append(s, t)[Len(s) + 1] = t
    BY AppendProperties
  <1>2. Before(Append(s, t)) = s
    <2> DEFINE u == Append(s, t)
    <2>1. u \in Seq(Tokens) /\ u # <<>> /\ Len(u) = Len(s) + 1 /\ u[Len(s) + 1] = t
      BY <1>1
    <2> HIDE DEF u
    <2>2. Before(u) \in Seq(Tokens) /\ u = Append(Before(u), t)
      BY <2>1, Shortened
    <2>3. Append(s, t) = Append(Before(u), t)
      BY <2>2 DEF u
    <2>4. s = Before(u)
      BY <2>2, <2>3, AppendInjective
    <2>5. QED
      BY <2>4 DEF u
  <1>3. QED
    BY <1>1, <1>2

(* A set of paths that has the empty one, and with a path any that is one  *)
(* token longer, has all of them.                                          *)
LEMMA AllPaths ==
  ASSUME NEW G, <<>> \in G,
         \A s \in Seq(Tokens), t \in Tokens : s \in G => Append(s, t) \in G
  PROVE  Seq(Tokens) \subseteq G
  <1> DEFINE Bad == {n \in Nat : \E s \in Seq(Tokens) : Len(s) = n /\ s \notin G}
  <1>1. SUFFICES Bad = {}
    <2> SUFFICES ASSUME NEW s \in Seq(Tokens), Bad = {} PROVE s \in G
      OBVIOUS
    <2>1. Len(s) \in Nat /\ Len(s) \notin Bad
      OBVIOUS
    <2>2. QED
      BY <2>1
  <1>2. SUFFICES ASSUME Bad # {} PROVE FALSE
    OBVIOUS
  <1>3. PICK n \in Bad : \A m \in Bad : n <= m
    <2>1. Bad \in SUBSET Nat
      OBVIOUS
    <2> HIDE DEF Bad
    <2>2. QED
      BY <1>2, <2>1, LeastNatural
  <1>4. PICK s \in Seq(Tokens) : Len(s) = n /\ s \notin G
    BY <1>3
  <1>5. s # <<>>
    BY <1>4
  <1>6. Before(s) \in G
    <2>1. Before(s) \in Seq(Tokens) /\ Len(Before(s)) \in Nat /\ Len(Before(s)) < n
      BY <1>4, <1>5, Shortened
    <2>2. Len(Before(s)) \notin Bad
      BY <1>3, <2>1
    <2>3. QED
      BY <2>1, <2>2
  <1>7. Append(Before(s), s[Len(s)]) \in G
    BY <1>5, <1>6, Shortened
  <1>8. QED
    BY <1>4, <1>5, <1>7, Shortened

Nothing == [path |-> <<>>, name |-> <<>>]

Shorter(n) == {s \in Seq(Tokens) : Len(s) <= n}

(* A function that does what reading does on the paths of a set.           *)
Reads(f, S) == f = [s \in S |-> IF s = <<>> THEN Nothing ELSE Read(f[Before(s)], s[Len(s)])]

LEMMA ReadsAlike ==
  ASSUME NEW n \in Nat, NEW m \in Nat, NEW f, NEW g,
         Reads(f, Shorter(n)), Reads(g, Shorter(m))
  PROVE  \A s \in Seq(Tokens) : Len(s) <= n /\ Len(s) <= m => f[s] = g[s]
  <1> DEFINE G == {s \in Seq(Tokens) : Len(s) <= n /\ Len(s) <= m => f[s] = g[s]}
  <1>1. ASSUME NEW s \in Seq(Tokens), Len(s) <= n, Len(s) <= m
        PROVE  /\ f[s] = IF s = <<>> THEN Nothing ELSE Read(f[Before(s)], s[Len(s)])
               /\ g[s] = IF s = <<>> THEN Nothing ELSE Read(g[Before(s)], s[Len(s)])
    <2>1. s \in Shorter(n) /\ s \in Shorter(m)
      BY <1>1 DEF Shorter
    <2>2. QED
      BY <2>1 DEF Reads
  <1>2. <<>> \in G
    <2>1. <<>> \in Seq(Tokens)
      OBVIOUS
    <2>2. QED
      BY <2>1, <1>1
  <1>3. ASSUME NEW s \in Seq(Tokens), NEW t \in Tokens, s \in G PROVE Append(s, t) \in G
    <2> SUFFICES ASSUME Len(Append(s, t)) <= n, Len(Append(s, t)) <= m
                 PROVE  f[Append(s, t)] = g[Append(s, t)]
      BY Lengthened
    <2> DEFINE u == Append(s, t)
    <2>1. /\ u \in Seq(Tokens) /\ u # <<>> /\ Len(u) = Len(s) + 1
          /\ u[Len(u)] = t /\ Before(u) = s
      BY Lengthened
    <2> HIDE DEF u
    <2>2. Len(u) <= n /\ Len(u) <= m
      BY DEF u
    <2>3. f[s] = g[s]
      BY <1>3, <2>1, <2>2
    <2>4. f[u] = g[u]
      BY <1>1, <2>1, <2>2, <2>3
    <2>5. QED
      BY <2>4 DEF u
  <1> HIDE DEF G
  <1>4. Seq(Tokens) \subseteq G
    BY <1>2, <1>3, AllPaths
  <1>5. QED
    BY <1>4 DEF G

LEMMA OneTokenMore ==
  ASSUME NEW n \in Nat, NEW f, Reads(f, Shorter(n))
  PROVE  \E g : Reads(g, Shorter(n + 1))
  <1> DEFINE g == [s \in Shorter(n + 1) |->
                     IF s = <<>> THEN Nothing ELSE Read(f[Before(s)], s[Len(s)])]
  <1>1. ASSUME NEW s \in Shorter(n) PROVE g[s] = f[s]
    <2>1. s \in Shorter(n + 1)
      BY DEF Shorter
    <2>2. QED
      BY <2>1 DEF Reads
  <1>2. ASSUME NEW s \in Shorter(n + 1), s # <<>> PROVE g[Before(s)] = f[Before(s)]
    <2>1. s \in Seq(Tokens) /\ Len(s) <= n + 1
      BY DEF Shorter
    <2>2. Before(s) \in Shorter(n)
      BY <1>2, <2>1, Shortened DEF Shorter
    <2> HIDE DEF g
    <2>3. QED
      BY <1>1, <2>2
  <1>3. g = [s \in Shorter(n + 1) |->
               IF s = <<>> THEN Nothing ELSE Read(g[Before(s)], s[Len(s)])]
    <2> DEFINE h == [s \in Shorter(n + 1) |->
                       IF s = <<>> THEN Nothing ELSE Read(g[Before(s)], s[Len(s)])]
    <2>1. ASSUME NEW s \in Shorter(n + 1) PROVE g[s] = h[s]
      <3>1. g[s] = IF s = <<>> THEN Nothing ELSE Read(f[Before(s)], s[Len(s)])
        OBVIOUS
      <3>2. h[s] = IF s = <<>> THEN Nothing ELSE Read(g[Before(s)], s[Len(s)])
        OBVIOUS
      <3> HIDE DEF g, h
      <3>3. QED
        BY <1>2, <3>1, <3>2
    <2>2. g = [s \in Shorter(n + 1) |-> g[s]]
      OBVIOUS
    <2> HIDE DEF g
    <2>3. QED
      BY <2>1, <2>2
  <1> HIDE DEF g
  <1>4. QED
    BY <1>3 DEF Reads

LEMMA ReadsExist == \A n \in Nat : \E f : Reads(f, Shorter(n))
  <1> DEFINE Bad == {n \in Nat : ~ \E f : Reads(f, Shorter(n))}
  <1>1. SUFFICES ASSUME Bad # {} PROVE FALSE
    OBVIOUS
  <1>2. PICK n \in Bad : \A m \in Bad : n <= m
    <2>1. Bad \in SUBSET Nat
      OBVIOUS
    <2> HIDE DEF Bad
    <2>2. QED
      BY <1>1, <2>1, LeastNatural
  <1>3. n # 0
    <2> DEFINE f == [s \in Shorter(0) |-> Nothing]
    <2>1. \A s \in Shorter(0) : s = <<>>
      BY DEF Shorter
    <2>2. Reads(f, Shorter(0))
      BY <2>1 DEF Reads
    <2>3. QED
      BY <1>2, <2>2
  <1>4. n - 1 \in Nat /\ n - 1 \notin Bad
    BY <1>2, <1>3
  <1>5. PICK f : Reads(f, Shorter(n - 1))
    BY <1>4
  <1>6. \E g : Reads(g, Shorter((n - 1) + 1))
    BY <1>4, <1>5, OneTokenMore
  <1>7. QED
    BY <1>2, <1>6

(* What the definition of reading says of one path.                        *)
LEMMA ReadingPath ==
  /\ reading[<<>>] = Nothing
  /\ \A s \in Seq(Tokens), t \in Tokens : reading[Append(s, t)] = Read(reading[s], t)
  <1> DEFINE part(n) == CHOOSE f : Reads(f, Shorter(n))
             all == [s \in Seq(Tokens) |-> part(Len(s))[s]]
  <1>1. ASSUME NEW n \in Nat PROVE Reads(part(n), Shorter(n))
    BY ReadsExist
  <1>2. ASSUME NEW s \in Seq(Tokens), s # <<>>
        PROVE  part(Len(s))[Before(s)] = all[Before(s)]
    <2>1. /\ Len(s) \in Nat /\ Before(s) \in Seq(Tokens)
          /\ Len(Before(s)) \in Nat /\ Len(Before(s)) <= Len(s)
      BY <1>2, Shortened
    <2>2. all[Before(s)] = part(Len(Before(s)))[Before(s)]
      BY <2>1
    <2>3. Reads(part(Len(s)), Shorter(Len(s)))
      BY <1>1, <2>1
    <2>4. Reads(part(Len(Before(s))), Shorter(Len(Before(s))))
      BY <1>1, <2>1
    <2> HIDE DEF part, all
    <2>5. QED
      BY <2>1, <2>2, <2>3, <2>4, ReadsAlike
  <1>3. ASSUME NEW s \in Seq(Tokens)
        PROVE  all[s] = IF s = <<>> THEN Nothing ELSE Read(all[Before(s)], s[Len(s)])
    <2>1. all[s] = part(Len(s))[s]
      OBVIOUS
    <2>2. Len(s) \in Nat /\ s \in Shorter(Len(s))
      BY DEF Shorter
    <2>3. Reads(part(Len(s)), Shorter(Len(s)))
      BY <1>1, <2>2
    <2> HIDE DEF part, all
    <2>4. part(Len(s))[s] = IF s = <<>> THEN Nothing
                            ELSE Read(part(Len(s))[Before(s)], s[Len(s)])
      BY <2>2, <2>3 DEF Reads
    <2>5. QED
      BY <1>2, <2>1, <2>4
  <1>4. Reads(all, Seq(Tokens))
    <2>1. all = [s \in Seq(Tokens) |-> all[s]]
      OBVIOUS
    <2> HIDE DEF all
    <2>2. QED
      BY <1>3, <2>1 DEF Reads
  <1>5. Reads(reading, Seq(Tokens))
    <2> HIDE DEF all
    <2>1. QED
      BY <1>4 DEF Reads, reading, Nothing, Before
  <1>6. QED
    <2>1. <<>> \in Seq(Tokens)
      OBVIOUS
    <2>2. reading[<<>>] = Nothing
      BY <1>5, <2>1 DEF Reads
    <2>3. ASSUME NEW s \in Seq(Tokens), NEW t \in Tokens
          PROVE  reading[Append(s, t)] = Read(reading[s], t)
      <3>1. reading[Append(s, t)] =
              IF Append(s, t) = <<>> THEN Nothing
              ELSE Read(reading[Before(Append(s, t))], Append(s, t)[Len(Append(s, t))])
        BY <1>5, Lengthened DEF Reads
      <3>2. QED
        BY <3>1, Lengthened
    <2>4. QED
      BY <2>2, <2>3
-----------------------------------------------------------------------------
(* The names of a path that is one token longer are the names of the path, *)
(* except for the last.                                                    *)

LEMMA StartsKept ==
  ASSUME NEW s \in Seq(Tokens), NEW t \in Tokens, NEW k \in 1..(Len(s) + 1)
  PROVE  Starts(Append(s, t), k) = Starts(s, k)
  <1> DEFINE u == Append(s, t)
  <1>1. \A i \in 1..Len(s) : u[i] = s[i]
    BY Lengthened
  <1>2. Len(s) \in Nat
    OBVIOUS
  <1> HIDE DEF u
  <1>3. ASSUME NEW i \in 0..(k - 1)
        PROVE  (i = 0 \/ u[i] = "/") <=> (i = 0 \/ s[i] = "/")
    <2>1. i = 0 \/ i \in 1..Len(s)
      BY <1>2
    <2>2. QED
      BY <1>1, <2>1
  <1>4. ASSUME NEW i \in 0..(k - 1)
        PROVE  \A j \in (i + 1)..(k - 1) : u[j] # "/" <=> s[j] # "/"
    <2>1. \A j \in (i + 1)..(k - 1) : j \in 1..Len(s)
      BY <1>2
    <2>2. QED
      BY <1>1, <2>1
  <1>5. Starts(u, k) = Starts(s, k)
    BY <1>3, <1>4 DEF Starts
  <1>6. QED
    BY <1>5 DEF u

(* After a slash the next name starts there, else the name goes on.        *)
LEMMA StartsNext ==
  ASSUME NEW s \in Seq(Tokens), NEW t \in Tokens
  PROVE  Starts(Append(s, t), Len(s) + 2) =
           IF t = "/" THEN {Len(s) + 1} ELSE Starts(s, Len(s) + 1)
  <1> DEFINE u == Append(s, t)
             n == Len(s)
  <1>1. /\ n \in Nat /\ u[n + 1] = t
        /\ \A i \in 1..n : u[i] = s[i]
    BY Lengthened
  <1> HIDE DEF u, n
  <1>2. (n + 2) - 1 = n + 1 /\ (n + 1) - 1 = n
    BY <1>1
  <1>3. CASE t = "/"
    <2>1. n + 1 \in Starts(u, n + 2)
      BY <1>1, <1>2, <1>3 DEF Starts
    <2>2. ASSUME NEW i \in Starts(u, n + 2) PROVE i = n + 1
      <3>1. i \in 0..(n + 1) /\ \A j \in (i + 1)..(n + 1) : u[j] # "/"
        BY <1>2 DEF Starts
      <3>2. n + 1 \notin (i + 1)..(n + 1)
        BY <1>1, <1>3, <3>1
      <3>3. QED
        BY <1>1, <3>1, <3>2
    <2>3. QED
      BY <1>3, <2>1, <2>2 DEF u, n
  <1>4. CASE t # "/"
    <2>1. ASSUME NEW i \in Starts(u, n + 2) PROVE i \in Starts(s, n + 1)
      <3>1. /\ i \in 0..(n + 1) /\ (i = 0 \/ u[i] = "/")
            /\ \A j \in (i + 1)..(n + 1) : u[j] # "/"
        BY <1>2 DEF Starts
      <3>2. i \in 0..n
        BY <1>1, <1>4, <3>1
      <3>3. i = 0 \/ s[i] = "/"
        BY <1>1, <3>1, <3>2
      <3>4. \A j \in (i + 1)..n : j \in 1..n /\ j \in (i + 1)..(n + 1)
        BY <1>1, <3>2
      <3>5. QED
        BY <1>1, <1>2, <3>1, <3>2, <3>3, <3>4 DEF Starts
    <2>2. ASSUME NEW i \in Starts(s, n + 1) PROVE i \in Starts(u, n + 2)
      <3>1. /\ i \in 0..n /\ (i = 0 \/ s[i] = "/")
            /\ \A j \in (i + 1)..n : s[j] # "/"
        BY <1>2 DEF Starts
      <3>2. i = 0 \/ u[i] = "/"
        BY <1>1, <3>1
      <3>3. ASSUME NEW j \in (i + 1)..(n + 1) PROVE u[j] # "/"
        <4>1. j = n + 1 \/ (j \in 1..n /\ j \in (i + 1)..n)
          BY <1>1, <3>1
        <4>2. QED
          BY <1>1, <1>4, <3>1, <4>1
      <3>4. i \in 0..(n + 1)
        BY <1>1, <3>1
      <3>5. QED
        BY <1>2, <3>2, <3>3, <3>4 DEF Starts
    <2>3. QED
      BY <1>4, <2>1, <2>2 DEF u, n
  <1>5. QED
    BY <1>3, <1>4

LEMMA NameStarts ==
  ASSUME NEW s \in Seq(Tokens)
  PROVE  \A k \in 1..(Len(s) + 1) : Starts(s, k) # {}
  <1> DEFINE G == {p \in Seq(Tokens) : \A k \in 1..(Len(p) + 1) : Starts(p, k) # {}}
  <1>1. <<>> \in G
    <2>1. 0 \in Starts(<<>>, 1)
      BY DEF Starts
    <2>2. \A k \in 1..(Len(<<>>) + 1) : k = 1
      OBVIOUS
    <2>3. QED
      BY <2>1, <2>2
  <1>2. ASSUME NEW p \in Seq(Tokens), NEW t \in Tokens, p \in G PROVE Append(p, t) \in G
    <2>1. Append(p, t) \in Seq(Tokens) /\ Len(Append(p, t)) = Len(p) + 1 /\ Len(p) \in Nat
      BY Lengthened
    <2>2. \A k \in 1..(Len(p) + 1) : Starts(Append(p, t), k) # {}
      BY <1>2, StartsKept
    <2>3. Starts(Append(p, t), Len(p) + 2) # {}
      <3>1. Len(p) + 1 \in 1..(Len(p) + 1)
        BY <2>1
      <3>2. Starts(p, Len(p) + 1) # {}
        BY <1>2, <3>1
      <3>3. QED
        BY <3>2, StartsNext
    <2>4. \A k \in 1..(Len(Append(p, t)) + 1) : k \in 1..(Len(p) + 1) \/ k = Len(p) + 2
      BY <2>1
    <2>5. QED
      BY <2>1, <2>2, <2>3, <2>4
  <1> HIDE DEF G
  <1>3. s \in G
    BY <1>1, <1>2, AllPaths
  <1>4. QED
    BY <1>3 DEF G

Start(s, k) == CHOOSE i \in Starts(s, k) : TRUE

LEMMA StartInPath ==
  ASSUME NEW s \in Seq(Tokens), NEW k \in 1..(Len(s) + 1)
  PROVE  Start(s, k) \in 0..(k - 1)
  <1>1. Starts(s, k) # {}
    BY NameStarts
  <1>2. Start(s, k) \in Starts(s, k)
    BY <1>1 DEF Start
  <1>3. QED
    BY <1>2 DEF Starts

(* The part of a path from a to b.                                         *)
LEMMA PartOfPath ==
  ASSUME NEW s \in Seq(Tokens), NEW a \in Nat, NEW b \in Nat, a <= b, b <= Len(s)
  PROVE  /\ SubSeq(s, a + 1, b) \in Seq(Tokens)
         /\ Len(SubSeq(s, a + 1, b)) = b - a
         /\ \A i \in 1..(b - a) : SubSeq(s, a + 1, b)[i] = s[a + i]
  <1>1. \A i \in (a + 1)..b : s[i] \in Tokens
    OBVIOUS
  <1>2. a + 1 \in Int /\ b \in Int
    OBVIOUS
  <1>3. /\ SubSeq(s, a + 1, b) \in Seq(Tokens)
        /\ Len(SubSeq(s, a + 1, b)) = IF a + 1 <= b THEN b - (a + 1) + 1 ELSE 0
        /\ \A i \in 1..(b - (a + 1) + 1) : SubSeq(s, a + 1, b)[i] = s[(a + 1) + i - 1]
    BY <1>1, <1>2, SubSeqProperties
  <1>4. b - (a + 1) + 1 = b - a /\ \A i \in Nat : (a + 1) + i - 1 = a + i
    OBVIOUS
  <1>5. QED
    BY <1>3, <1>4

LEMMA NameInPath ==
  ASSUME NEW s \in Seq(Tokens), NEW k \in 1..(Len(s) + 1)
  PROVE  Name(s, k) \in Seq(Tokens)
  <1>1. Start(s, k) \in Nat /\ k - 1 \in Nat /\ Start(s, k) <= k - 1 /\ k - 1 <= Len(s)
    BY StartInPath
  <1>2. SubSeq(s, Start(s, k) + 1, k - 1) \in Seq(Tokens)
    BY <1>1, PartOfPath
  <1>3. QED
    BY <1>2 DEF Name, Start

LEMMA NameKept ==
  ASSUME NEW s \in Seq(Tokens), NEW t \in Tokens, NEW k \in 1..(Len(s) + 1)
  PROVE  Name(Append(s, t), k) = Name(s, k)
  <1> DEFINE u == Append(s, t)
             a == Start(s, k)
  <1>1. /\ u \in Seq(Tokens) /\ Len(u) = Len(s) + 1
        /\ \A i \in 1..Len(s) : u[i] = s[i]
    BY Lengthened
  <1>2. Start(u, k) = a
    BY StartsKept DEF Start
  <1>3. a \in Nat /\ k - 1 \in Nat /\ a <= k - 1 /\ k - 1 <= Len(s) /\ Len(s) \in Nat
    BY StartInPath
  <1> HIDE DEF u, a
  <1>4. /\ SubSeq(s, a + 1, k - 1) \in Seq(Tokens)
        /\ Len(SubSeq(s, a + 1, k - 1)) = (k - 1) - a
        /\ \A i \in 1..((k - 1) - a) : SubSeq(s, a + 1, k - 1)[i] = s[a + i]
    BY <1>3, PartOfPath
  <1>5. /\ SubSeq(u, a + 1, k - 1) \in Seq(Tokens)
        /\ Len(SubSeq(u, a + 1, k - 1)) = (k - 1) - a
        /\ \A i \in 1..((k - 1) - a) : SubSeq(u, a + 1, k - 1)[i] = u[a + i]
    <2>1. k - 1 <= Len(u)
      BY <1>1, <1>3
    <2>2. QED
      BY <1>1, <1>3, <2>1, PartOfPath
  <1>6. \A i \in 1..((k - 1) - a) : a + i \in 1..Len(s)
    BY <1>3
  <1>7. SubSeq(u, a + 1, k - 1) = SubSeq(s, a + 1, k - 1)
    <2> DEFINE v == SubSeq(s, a + 1, k - 1)
               w == SubSeq(u, a + 1, k - 1)
    <2> HIDE DEF v, w
    <2>1. v \in Seq(Tokens) /\ w \in Seq(Tokens) /\ Len(w) = Len(v)
      BY <1>4, <1>5 DEF v, w
    <2>2. \A i \in 1..Len(w) : w[i] = v[i]
      BY <1>1, <1>4, <1>5, <1>6 DEF v, w
    <2>3. w = v
      BY <2>1, <2>2, SeqEqual
    <2>4. QED
      BY <2>3 DEF v, w
  <1>8. QED
    BY <1>2, <1>7 DEF Name, Start, u, a

(* The name that is being read.                                            *)
LEMMA NameNext ==
  ASSUME NEW s \in Seq(Tokens), NEW t \in Tokens
  PROVE  Name(Append(s, t), Len(s) + 2) =
           IF t = "/" THEN <<>> ELSE Append(Name(s, Len(s) + 1), t)
  <1> DEFINE u == Append(s, t)
             n == Len(s)
  <1>1. /\ u \in Seq(Tokens) /\ Len(u) = n + 1 /\ u[n + 1] = t /\ n \in Nat
        /\ \A i \in 1..n : u[i] = s[i]
    BY Lengthened
  <1>2. Start(u, n + 2) = IF t = "/" THEN n + 1 ELSE Start(s, n + 1)
    <2>1. Starts(u, n + 2) = IF t = "/" THEN {n + 1} ELSE Starts(s, n + 1)
      BY StartsNext
    <2> HIDE DEF u, n
    <2>2. CASE t = "/"
      <3>1. Starts(u, n + 2) # {} /\ \A i \in Starts(u, n + 2) : i = n + 1
        BY <2>1, <2>2
      <3>2. QED
        BY <2>2, <3>1 DEF Start
    <2>3. CASE t # "/"
      BY <2>1, <2>3 DEF Start
    <2>4. QED
      BY <2>2, <2>3
  <1>3. Start(s, n + 1) \in 0..n
    <2>1. n + 1 \in 1..(Len(s) + 1) /\ (n + 1) - 1 = n
      BY <1>1
    <2>2. QED
      BY <2>1, StartInPath
  <1>4. (n + 2) - 1 = n + 1 /\ (n + 1) - 1 = n
    BY <1>1
  <1>5. Len(s) = n
    OBVIOUS
  <1> HIDE DEF u, n
  <1>6. CASE t = "/"
    <2>1. SubSeq(u, (n + 1) + 1, n + 1) = <<>>
      <3>1. (n + 1) + 1 \in Int /\ n + 1 \in Int /\ n + 1 < (n + 1) + 1
        BY <1>1
      <3>2. QED
        BY <3>1, SubSeqEmpty
    <2>2. Name(u, n + 2) = <<>>
      BY <1>2, <1>4, <1>6, <2>1 DEF Name, Start
    <2>3. QED
      BY <1>6, <2>2 DEF u, n
  <1>7. CASE t # "/"
    <2> DEFINE a == Start(s, n + 1)
    <2>1. Start(u, n + 2) = a /\ a \in Nat /\ a <= n
      BY <1>1, <1>2, <1>3, <1>7
    <2> HIDE DEF a
    <2> DEFINE v == SubSeq(s, a + 1, n)
               w == SubSeq(u, a + 1, n + 1)
               x == Append(v, t)
    <2>2. /\ v \in Seq(Tokens) /\ Len(v) = n - a
          /\ \A i \in 1..(n - a) : v[i] = s[a + i]
      BY <1>1, <1>5, <2>1, PartOfPath
    <2>3. /\ w \in Seq(Tokens) /\ Len(w) = (n + 1) - a
          /\ \A i \in 1..((n + 1) - a) : w[i] = u[a + i]
      <3>1. a <= n + 1 /\ n + 1 \in Nat /\ n + 1 <= Len(u)
        BY <1>1, <2>1
      <3>2. QED
        BY <1>1, <2>1, <3>1, PartOfPath
    <2> HIDE DEF v, w
    <2>4. /\ x \in Seq(Tokens) /\ Len(x) = Len(v) + 1
          /\ \A i \in 1..Len(v) : x[i] = v[i]
          /\ x[Len(v) + 1] = t
      BY <2>2, AppendProperties
    <2> HIDE DEF x
    <2>5. ASSUME NEW i \in 1..Len(w) PROVE w[i] = x[i]
      <3>1. CASE i = n + 1 - a
        <4>1. a + i = n + 1 /\ i = Len(v) + 1
          BY <1>1, <2>1, <2>2, <3>1
        <4>2. QED
          BY <1>1, <2>3, <2>4, <2>5, <4>1
      <3>2. CASE i # n + 1 - a
        <4>1. i \in 1..(n - a) /\ a + i \in 1..n
          BY <1>1, <2>1, <2>3, <3>2
        <4>2. QED
          BY <1>1, <2>2, <2>3, <2>4, <2>5, <4>1
      <3>3. QED
        BY <3>1, <3>2
    <2>6. w = x
      <3>1. Len(w) = Len(x)
        BY <1>1, <2>1, <2>2, <2>3, <2>4
      <3>2. QED
        BY <2>3, <2>4, <2>5, <3>1, SeqEqual
    <2>7. Name(u, n + 2) = w
      BY <1>4, <2>1 DEF Name, Start, w
    <2>8. Name(s, n + 1) = v
      BY <1>4 DEF Name, Start, v, a
    <2>9. QED
      BY <1>7, <2>6, <2>7, <2>8 DEF u, n, x
  <1>8. QED
    BY <1>6, <1>7
-----------------------------------------------------------------------------
(* How often a path has gone up and down, token by token.                  *)

LEMMA Steps ==
  ASSUME NEW s \in Seq(Tokens), NEW k \in 0..Len(s)
  PROVE  /\ Up(s, k) \in Nat /\ Down(s, k) \in Nat
         /\ k = 0 => Up(s, k) = 0 /\ Down(s, k) = 0
  <1> DEFINE up   == {i \in Ends(s, k) : Name(s, i) \in Parent}
             down == {i \in Ends(s, k) : Name(s, i) \notin Parent \union Current}
  <1>1. up \in SUBSET (1..k) /\ down \in SUBSET (1..k)
    BY DEF Ends
  <1>2. IsFiniteSet(1..k)
    BY FS_Interval
  <1>3. k = 0 => up = {} /\ down = {}
    BY <1>1
  <1> HIDE DEF up, down
  <1>4. IsFiniteSet(up) /\ IsFiniteSet(down)
    BY <1>1, <1>2, FS_Subset
  <1>5. Cardinality(up) \in Nat /\ Cardinality(down) \in Nat
    BY <1>4, FS_CardinalityType
  <1>6. k = 0 => Cardinality(up) = 0 /\ Cardinality(down) = 0
    BY <1>3, FS_EmptySet
  <1>7. QED
    BY <1>5, <1>6 DEF Up, Down, up, down

(* The last name takes one step more, or none.                             *)
LEMMA LastStep ==
  ASSUME NEW s \in Seq(Tokens)
  PROVE  LET n    == Len(s)
             last == Name(s, n + 1)
         IN  /\ Up(s, n + 1) = IF last \in Parent THEN Up(s, n) + 1 ELSE Up(s, n)
             /\ Down(s, n + 1) = IF last \notin Parent \union Current
                                 THEN Down(s, n) + 1 ELSE Down(s, n)
  <1> DEFINE n == Len(s)
             last == Name(s, n + 1)
             up(k)   == {i \in Ends(s, k) : Name(s, i) \in Parent}
             down(k) == {i \in Ends(s, k) : Name(s, i) \notin Parent \union Current}
  <1>1. n \in Nat
    OBVIOUS
  <1>2. Ends(s, n + 1) = Ends(s, n) \union {n + 1} /\ Ends(s, n) \in SUBSET (1..n)
    BY <1>1 DEF Ends
  <1> HIDE DEF n
  <1>3. IsFiniteSet(up(n)) /\ IsFiniteSet(down(n)) /\ n + 1 \notin up(n) /\ n + 1 \notin down(n)
    <2>1. IsFiniteSet(1..n)
      BY <1>1, FS_Interval
    <2>2. up(n) \in SUBSET (1..n) /\ down(n) \in SUBSET (1..n)
      BY <1>2
    <2>3. n + 1 \notin 1..n
      BY <1>1
    <2> HIDE DEF up, down
    <2>4. QED
      BY <2>1, <2>2, <2>3, FS_Subset
  <1>4. up(n + 1) = IF last \in Parent THEN up(n) \union {n + 1} ELSE up(n)
    BY <1>2
  <1>5. down(n + 1) = IF last \notin Parent \union Current
                      THEN down(n) \union {n + 1} ELSE down(n)
    BY <1>2
  <1>6. /\ Up(s, n + 1) = Cardinality(up(n + 1)) /\ Up(s, n) = Cardinality(up(n))
        /\ Down(s, n + 1) = Cardinality(down(n + 1)) /\ Down(s, n) = Cardinality(down(n))
    BY DEF Up, Down
  <1> HIDE DEF up, down, last
  <1>7. Up(s, n + 1) = IF last \in Parent THEN Up(s, n) + 1 ELSE Up(s, n)
    BY <1>3, <1>4, <1>6, FS_AddElement
  <1>8. Down(s, n + 1) = IF last \notin Parent \union Current THEN Down(s, n) + 1 ELSE Down(s, n)
    BY <1>3, <1>5, <1>6, FS_AddElement
  <1>9. QED
    BY <1>7, <1>8 DEF n, last

(* The steps of the longer path are those of the path, as far as that goes,*)
(* and then the last one if a slash ends its name.                         *)
LEMMA StepsKept ==
  ASSUME NEW s \in Seq(Tokens), NEW t \in Tokens,
         NEW k \in 0..(Len(s) + 1), k <= Len(s) \/ t = "/"
  PROVE  Up(Append(s, t), k) = Up(s, k) /\ Down(Append(s, t), k) = Down(s, k)
  <1> DEFINE u == Append(s, t)
  <1>1. /\ Len(s) \in Nat /\ Len(u) = Len(s) + 1 /\ u[Len(s) + 1] = t
        /\ \A i \in 1..Len(s) : u[i] = s[i]
    BY Lengthened
  <1>2. \A i \in 1..(Len(s) + 1) : Name(u, i) = Name(s, i)
    BY NameKept
  <1> HIDE DEF u
  <1>3. \A i \in 1..k : (i = Len(u) + 1 \/ u[i] = "/") <=> (i = Len(s) + 1 \/ s[i] = "/")
    <2> SUFFICES ASSUME NEW i \in 1..k
                 PROVE  (i = Len(u) + 1 \/ u[i] = "/") <=> (i = Len(s) + 1 \/ s[i] = "/")
      OBVIOUS
    <2>1. CASE i \in 1..Len(s)
      BY <1>1, <2>1
    <2>2. CASE i \notin 1..Len(s)
      <3>1. i = Len(s) + 1 /\ t = "/"
        BY <1>1, <2>2
      <3>2. QED
        BY <1>1, <3>1
    <2>3. QED
      BY <2>1, <2>2
  <1>4. Ends(u, k) = Ends(s, k) /\ \A i \in Ends(s, k) : i \in 1..(Len(s) + 1)
    BY <1>1, <1>3 DEF Ends
  <1>5. QED
    <2>1. {i \in Ends(u, k) : Name(u, i) \in Parent} = {i \in Ends(s, k) : Name(s, i) \in Parent}
      BY <1>2, <1>4
    <2>2. {i \in Ends(u, k) : Name(u, i) \notin Parent \union Current} =
            {i \in Ends(s, k) : Name(s, i) \notin Parent \union Current}
      BY <1>2, <1>4
    <2>3. QED
      BY <2>1, <2>2 DEF Up, Down, u

(* No slash, no step.                                                      *)
LEMMA NoStep ==
  ASSUME NEW s \in Seq(Tokens), NEW t \in Tokens, t # "/"
  PROVE  /\ Up(Append(s, t), Len(s) + 1) = Up(s, Len(s))
         /\ Down(Append(s, t), Len(s) + 1) = Down(s, Len(s))
  <1> DEFINE u == Append(s, t)
             n == Len(s)
  <1>1. n \in Nat /\ Len(u) = n + 1 /\ u[n + 1] = t
    BY Lengthened
  <1>2. Up(u, n) = Up(s, n) /\ Down(u, n) = Down(s, n)
    <2>1. n \in 0..(Len(s) + 1) /\ n <= Len(s)
      BY <1>1
    <2>2. QED
      BY <2>1, StepsKept
  <1> HIDE DEF u, n
  <1>3. Ends(u, n + 1) = Ends(u, n)
    <2>1. \A i \in 1..(n + 1) : i \in 1..n \/ i = n + 1
      BY <1>1
    <2>2. 1..n \subseteq 1..(n + 1) /\ n + 1 # Len(u) + 1
      BY <1>1
    <2>3. QED
      BY <1>1, <2>1, <2>2 DEF Ends
  <1>4. Up(u, n + 1) = Up(u, n) /\ Down(u, n + 1) = Down(u, n)
    BY <1>3 DEF Up, Down
  <1>5. QED
    BY <1>2, <1>4 DEF u, n

(* A clean path is as deep as the walk has led, or starts with a parent if *)
(* the walk has ever left the directory.                                   *)
Placed(path, inside, depth) ==
  IF inside THEN /\ \A k \in DOMAIN path : path[k] \notin Parent \union Current
                 /\ Len(path) = depth
            ELSE path # <<>> /\ path[1] \in Parent

LEMMA Entered ==
  ASSUME NEW path \in Seq(Seq(Tokens)), NEW name \in Seq(Tokens),
         NEW inside \in BOOLEAN, NEW depth \in Int, Placed(path, inside, depth)
  PROVE  /\ Enter(path, name) \in Seq(Seq(Tokens))
         /\ name \in Current => Placed(Enter(path, name), inside, depth)
         /\ name \in Parent =>
              Placed(Enter(path, name), inside /\ 0 <= depth - 1, depth - 1)
         /\ name \notin Parent \union Current =>
              Placed(Enter(path, name), inside, depth + 1)
  <1> DEFINE n == Len(path)
             front == SubSeq(path, 1, n - 1)
             longer == Append(path, name)
  <1>1. n \in Nat /\ (path # <<>> <=> n # 0) /\ DOMAIN path = 1..n
    OBVIOUS
  <1>2. path # <<>> => /\ front \in Seq(Seq(Tokens)) /\ Len(front) = n - 1
                       /\ \A k \in 1..(n - 1) : front[k] = path[k]
    <2> SUFFICES ASSUME path # <<>>
                 PROVE  /\ front \in Seq(Seq(Tokens)) /\ Len(front) = n - 1
                        /\ \A k \in 1..(n - 1) : front[k] = path[k]
      OBVIOUS
    <2> DEFINE m == n - 1
    <2>1. m \in Int /\ m \in Nat /\ 1 \in Int
      BY <1>1
    <2>2. \A k \in 1..m : path[k] \in Seq(Tokens)
      BY <1>1
    <2> HIDE DEF m
    <2>3. /\ SubSeq(path, 1, m) \in Seq(Seq(Tokens))
          /\ Len(SubSeq(path, 1, m)) = IF 1 <= m THEN m - 1 + 1 ELSE 0
          /\ \A k \in 1..(m - 1 + 1) : SubSeq(path, 1, m)[k] = path[1 + k - 1]
      BY <2>1, <2>2, SubSeqProperties
    <2>4. m - 1 + 1 = m /\ \A k \in 1..m : 1 + k - 1 = k
      BY <2>1
    <2>5. /\ SubSeq(path, 1, m) \in Seq(Seq(Tokens)) /\ Len(SubSeq(path, 1, m)) = m
          /\ \A k \in 1..m : SubSeq(path, 1, m)[k] = path[k]
      BY <2>1, <2>3, <2>4
    <2>6. QED
      BY <2>5 DEF m
  <1>3. /\ longer \in Seq(Seq(Tokens)) /\ longer # <<>> /\ Len(longer) = n + 1
        /\ \A k \in 1..n : longer[k] = path[k]
        /\ longer[n + 1] = name
    BY AppendProperties
  <1> HIDE DEF n, front, longer
  <1>4. Enter(path, name) = IF name \in Current THEN path
                            ELSE IF name \in Parent /\ path # <<>> /\ path[n] \notin Parent
                            THEN front ELSE longer
    BY DEF Enter, n, front, longer
  <1>5. Enter(path, name) \in Seq(Seq(Tokens))
    BY <1>2, <1>3, <1>4
  <1>6. name \notin Parent \/ name \notin Current
    <2>1. \A x \in Parent : (Len(x) = 1 /\ x[1] = "..") \/ Len(x) = 2
      BY DEF Parent
    <2>2. \A x \in Current : (Len(x) = 1 /\ x[1] = ".") \/ Len(x) = 0
      BY DEF Current
    <2>3. QED
      BY <2>1, <2>2
  <1>7. inside => /\ \A k \in 1..n : path[k] \notin Parent \union Current
                  /\ n = depth
    BY <1>1 DEF Placed, n
  <1>8. ~inside => path # <<>> /\ path[1] \in Parent
    BY DEF Placed
  <1>9. name \in Current => Placed(Enter(path, name), inside, depth)
    BY <1>4
  <1>10. ASSUME name \in Parent
         PROVE  Placed(Enter(path, name), inside /\ 0 <= depth - 1, depth - 1)
    <2>1. CASE path # <<>> /\ path[n] \notin Parent
      <3>1. Enter(path, name) = front /\ n - 1 \in Nat
        BY <1>1, <1>4, <1>6, <1>10, <2>1
      <3>2. CASE inside
        <4>1. 0 <= depth - 1 /\ Len(front) = depth - 1
          BY <1>1, <1>2, <1>7, <2>1, <3>2
        <4>2. DOMAIN front = 1..(n - 1)
          BY <1>2, <2>1, <3>1
        <4>3. \A k \in 1..(n - 1) : front[k] \notin Parent \union Current
          BY <1>1, <1>2, <1>7, <2>1, <3>2
        <4>4. QED
          BY <3>1, <3>2, <4>1, <4>2, <4>3 DEF Placed
      <3>3. CASE ~inside
        <4>1. n # 1 /\ 1 \in 1..(n - 1)
          BY <1>1, <1>8, <2>1, <3>3
        <4>2. front # <<>> /\ front[1] \in Parent
          BY <1>1, <1>2, <1>8, <2>1, <3>3, <4>1
        <4>3. QED
          BY <3>1, <3>3, <4>2 DEF Placed
      <3>4. QED
        BY <3>2, <3>3
    <2>2. CASE path = <<>> \/ path[n] \in Parent
      <3>1. Enter(path, name) = longer
        BY <1>4, <1>6, <1>10, <2>2
      <3>2. CASE inside
        <4>1. path = <<>> /\ n = 0
          BY <1>1, <1>7, <2>2, <3>2
        <4>2. ~(0 <= depth - 1)
          BY <1>7, <3>2, <4>1
        <4>3. longer # <<>> /\ longer[1] \in Parent
          <5>1. n + 1 = 1
            BY <4>1
          <5>2. longer[1] = name /\ Len(longer) = 1
            BY <1>3, <5>1
          <5>3. QED
            BY <1>3, <1>10, <5>2
        <4>4. QED
          BY <3>1, <4>2, <4>3 DEF Placed
      <3>3. CASE ~inside
        <4>1. 1 \in 1..n
          BY <1>1, <1>8, <3>3
        <4>2. longer # <<>> /\ longer[1] \in Parent
          BY <1>1, <1>3, <1>8, <3>3, <4>1
        <4>3. QED
          BY <3>1, <3>3, <4>2 DEF Placed
      <3>4. QED
        BY <3>2, <3>3
    <2>3. QED
      BY <2>1, <2>2
  <1>11. ASSUME name \notin Parent \union Current
         PROVE  Placed(Enter(path, name), inside, depth + 1)
    <2>1. Enter(path, name) = longer
      BY <1>4, <1>11
    <2>2. CASE inside
      <3>1. DOMAIN longer = 1..(n + 1) /\ Len(longer) = depth + 1
        BY <1>1, <1>3, <1>7, <2>2
      <3>2. \A k \in 1..(n + 1) : k \in 1..n \/ k = n + 1
        BY <1>1
      <3>3. \A k \in 1..(n + 1) : longer[k] \notin Parent \union Current
        BY <1>3, <1>7, <1>11, <2>2, <3>2
      <3>4. QED
        BY <2>1, <2>2, <3>1, <3>3 DEF Placed
    <2>3. CASE ~inside
      <3>1. 1 \in 1..n
        BY <1>1, <1>8, <2>3
      <3>2. longer # <<>> /\ longer[1] \in Parent
        BY <1>1, <1>3, <1>8, <2>3, <3>1
      <3>3. QED
        BY <2>1, <2>3, <3>2 DEF Placed
    <2>4. QED
      BY <2>2, <2>3
  <1>12. QED
    BY <1>5, <1>9, <1>10, <1>11

(* Where reading is after a path, and what a slash after it would make of  *)
(* that: the clean path.                                                   *)
Depth(s, k) == Down(s, k) - Up(s, k)

ReadWell(s) ==
  /\ reading[s].path \in Seq(Seq(Tokens))
  /\ reading[s].name = Name(s, Len(s) + 1)
  /\ Placed(reading[s].path, NeverOutside(s, Len(s)), Depth(s, Len(s)))

LEMMA CleanPlaced ==
  ASSUME NEW s \in Seq(Tokens), ReadWell(s)
  PROVE  /\ Clean(s) \in Seq(Seq(Tokens))
         /\ Placed(Clean(s), NeverOutside(s, Len(s) + 1), Depth(s, Len(s) + 1))
  <1> DEFINE n == Len(s)
             path == reading[s].path
             name == Name(s, n + 1)
             inside == NeverOutside(s, n)
  <1>1. n \in Nat /\ Clean(s) = Enter(path, name) /\ Placed(path, inside, Depth(s, n))
        /\ path \in Seq(Seq(Tokens))
    BY DEF ReadWell, Clean
  <1>2. /\ Up(s, n) \in Nat /\ Down(s, n) \in Nat
        /\ Up(s, n + 1) = IF name \in Parent THEN Up(s, n) + 1 ELSE Up(s, n)
        /\ Down(s, n + 1) = IF name \notin Parent \union Current THEN Down(s, n) + 1 ELSE Down(s, n)
    BY Steps, LastStep
  <1>3. name \in Seq(Tokens)
    BY NameInPath
  <1>4. inside \in BOOLEAN
    BY DEF NeverOutside
  <1>5. NeverOutside(s, n + 1) <=> inside /\ 0 <= Depth(s, n + 1)
    <2>1. \A k \in 1..(n + 1) : k \in 1..n \/ k = n + 1
      BY <1>1
    <2>2. 1..n \subseteq 1..(n + 1) /\ n + 1 \in 1..(n + 1)
      BY <1>1
    <2>3. Up(s, n + 1) <= Down(s, n + 1) <=> 0 <= Depth(s, n + 1)
      BY <1>2 DEF Depth
    <2>4. QED
      BY <2>1, <2>2, <2>3 DEF NeverOutside
  <1>6. Depth(s, n) \in Int
    BY <1>2 DEF Depth
  <1> DEFINE deep == Depth(s, n)
  <1>7. inside => 0 <= deep
    <2>1. inside => Len(path) = deep /\ Len(path) \in Nat
      BY <1>1 DEF Placed
    <2>2. QED
      BY <2>1
  <1> HIDE DEF path, name, inside, n, deep
  <1>8. /\ Enter(path, name) \in Seq(Seq(Tokens))
        /\ name \in Current => Placed(Enter(path, name), inside, deep)
        /\ name \in Parent => Placed(Enter(path, name), inside /\ 0 <= deep - 1, deep - 1)
        /\ name \notin Parent \union Current => Placed(Enter(path, name), inside, deep + 1)
    BY <1>1, <1>3, <1>4, <1>6, Entered DEF deep
  <1>9. Placed(Clean(s), NeverOutside(s, n + 1), Depth(s, n + 1))
    <2>1. CASE name \in Parent
      <3>1. Depth(s, n + 1) = deep - 1
        <4>1. Depth(s, n + 1) = Down(s, n) - (Up(s, n) + 1)
          BY <1>2, <2>1 DEF Depth
        <4>2. QED
          BY <1>2, <4>1 DEF Depth, deep
      <3>2. QED
        BY <1>1, <1>5, <1>8, <2>1, <3>1 DEF Placed
    <2>2. CASE name \in Current /\ name \notin Parent
      <3>1. Depth(s, n + 1) = deep
        BY <1>2, <2>2 DEF Depth, deep
      <3>2. QED
        BY <1>1, <1>5, <1>7, <1>8, <2>2, <3>1 DEF Placed
    <2>3. CASE name \notin Parent \union Current
      <3>1. Depth(s, n + 1) = deep + 1 /\ (inside => 0 <= deep + 1)
        <4>1. Depth(s, n + 1) = (Down(s, n) + 1) - Up(s, n)
          BY <1>2, <2>3 DEF Depth
        <4>2. Depth(s, n + 1) = deep + 1
          BY <1>2, <4>1 DEF Depth, deep
        <4>3. QED
          BY <1>6, <1>7, <4>2 DEF deep
      <3>2. QED
        BY <1>1, <1>5, <1>8, <2>3, <3>1 DEF Placed
    <2>4. QED
      BY <2>1, <2>2, <2>3
  <1>10. QED
    BY <1>1, <1>8, <1>9 DEF n

LEMMA EveryPathReadWell == \A s \in Seq(Tokens) : ReadWell(s)
  <1> DEFINE G == {s \in Seq(Tokens) : ReadWell(s)}
  <1>1. <<>> \in G
    <2>1. reading[<<>>].path = <<>> /\ reading[<<>>].name = <<>>
      BY ReadingPath DEF Nothing
    <2>2. <<>> \in Seq(Tokens) /\ Len(<<>>) = 0 /\ <<>> \in Seq(Seq(Tokens))
      OBVIOUS
    <2>3. Name(<<>>, 1) = <<>>
      <3>1. Start(<<>>, 1) \in 0..(1 - 1)
        <4>1. 1 \in 1..(Len(<<>>) + 1)
          OBVIOUS
        <4>2. QED
          BY <2>2, <4>1, StartInPath
      <3>2. Start(<<>>, 1) = 0 /\ 1 - 1 = 0 /\ 0 + 1 = 1
        BY <3>1
      <3>3. SubSeq(<<>>, 1, 0) = <<>>
        BY SubSeqEmpty
      <3>4. QED
        BY <3>2, <3>3 DEF Name, Start
    <2>4. NeverOutside(<<>>, 0)
      BY DEF NeverOutside
    <2>5. Depth(<<>>, 0) = 0
      <3>1. Up(<<>>, 0) = 0 /\ Down(<<>>, 0) = 0
        <4>1. 0 \in 0..Len(<<>>)
          OBVIOUS
        <4>2. QED
          BY <2>2, <4>1, Steps
      <3>2. QED
        BY <3>1 DEF Depth
    <2>6. ReadWell(<<>>)
      BY <2>1, <2>2, <2>3, <2>4, <2>5 DEF ReadWell, Placed
    <2>7. QED
      BY <2>2, <2>6
  <1>2. ASSUME NEW s \in Seq(Tokens), NEW t \in Tokens, s \in G PROVE Append(s, t) \in G
    <2> DEFINE u == Append(s, t)
               n == Len(s)
    <2>1. /\ u \in Seq(Tokens) /\ Len(u) = n + 1 /\ n \in Nat
          /\ (n + 1) + 1 = n + 2
      BY Lengthened
    <2>2. ReadWell(s)
      BY <1>2
    <2>3. reading[u] = Read(reading[s], t)
      BY ReadingPath
    <2>4. Name(u, n + 2) = IF t = "/" THEN <<>> ELSE Append(Name(s, n + 1), t)
      BY NameNext
    <2>5. \A k \in 0..n : Up(u, k) = Up(s, k) /\ Down(u, k) = Down(s, k)
      <3> SUFFICES ASSUME NEW k \in 0..n PROVE Up(u, k) = Up(s, k) /\ Down(u, k) = Down(s, k)
        OBVIOUS
      <3>1. k \in 0..(Len(s) + 1) /\ k <= Len(s)
        BY <2>1
      <3>2. QED
        BY <3>1, StepsKept
    <2>6. \A k \in 1..(n + 1) : k \in 1..n \/ k = n + 1
      BY <2>1
    <2>7. 1..n \subseteq 1..(n + 1) /\ 1..n \subseteq 0..n /\ n + 1 \in 1..(n + 1)
      BY <2>1
    <2>8. CASE t = "/"
      <3>1. Up(u, n + 1) = Up(s, n + 1) /\ Down(u, n + 1) = Down(s, n + 1)
        <4>1. n + 1 \in 0..(Len(s) + 1)
          BY <2>1
        <4>2. QED
          BY <2>8, <4>1, StepsKept
      <3>2. NeverOutside(u, n + 1) = NeverOutside(s, n + 1)
        BY <2>5, <2>6, <2>7, <3>1 DEF NeverOutside
      <3>3. Depth(u, n + 1) = Depth(s, n + 1)
        BY <3>1 DEF Depth
      <3>4. reading[u].path = Clean(s) /\ reading[u].name = <<>>
        BY <2>3, <2>8 DEF Read, Clean
      <3>5. /\ Clean(s) \in Seq(Seq(Tokens))
            /\ Placed(Clean(s), NeverOutside(s, n + 1), Depth(s, n + 1))
        BY <2>2, CleanPlaced
      <3> HIDE DEF u, n
      <3>6. ReadWell(u)
        BY <2>1, <2>4, <2>8, <3>2, <3>3, <3>4, <3>5 DEF ReadWell
      <3>7. QED
        BY <2>1, <3>6 DEF u
    <2>9. CASE t # "/"
      <3>1. Up(u, n + 1) = Up(s, n) /\ Down(u, n + 1) = Down(s, n)
        BY <2>9, NoStep
      <3>2. NeverOutside(u, n + 1) = NeverOutside(s, n)
        <4>1. n = 0 => Up(s, n) = 0 /\ Down(s, n) = 0
          <5>1. n \in 0..Len(s)
            BY <2>1
          <5>2. QED
            BY <5>1, Steps
        <4>2. n # 0 => n \in 1..n
          BY <2>1
        <4>3. NeverOutside(s, n) => Up(s, n) <= Down(s, n)
          BY <4>1, <4>2 DEF NeverOutside
        <4> HIDE DEF u, n
        <4>4. QED
          BY <2>5, <2>6, <2>7, <3>1, <4>3 DEF NeverOutside
      <3>3. Depth(u, n + 1) = Depth(s, n)
        BY <3>1 DEF Depth
      <3>4. reading[u].path = reading[s].path /\ reading[u].name = Append(reading[s].name, t)
        BY <2>3, <2>9 DEF Read
      <3>5. /\ reading[s].path \in Seq(Seq(Tokens)) /\ reading[s].name = Name(s, n + 1)
            /\ Placed(reading[s].path, NeverOutside(s, n), Depth(s, n))
        BY <2>2 DEF ReadWell
      <3> HIDE DEF u, n
      <3>6. ReadWell(u)
        BY <2>1, <2>4, <2>9, <3>2, <3>3, <3>4, <3>5 DEF ReadWell
      <3>7. QED
        BY <2>1, <3>6 DEF u
    <2>10. QED
      BY <2>8, <2>9
  <1> HIDE DEF G
  <1>3. Seq(Tokens) \subseteq G
    BY <1>1, <1>2, AllPaths
  <1>4. QED
    BY <1>3 DEF G
-----------------------------------------------------------------------------
LEMMA DecodedPath ==
  ASSUME NEW href \in Seq(Tokens)
  PROVE  Decode(href) \in Seq(Tokens) /\ Len(Decode(href)) = Len(href)
  <1>1. \A t \in Tokens : Decoded(t) \in Tokens
    BY DEF Decoded, Tokens
  <1>2. DOMAIN href = 1..Len(href) /\ \A k \in 1..Len(href) : href[k] \in Tokens
    OBVIOUS
  <1>3. Decode(href) \in [1..Len(href) -> Tokens]
    BY <1>1, <1>2 DEF Decode
  <1>4. QED
    BY <1>3

(* What the four conditions of SecureResolve let through.                  *)
LEMMA Resolved ==
  ASSUME NEW scheme \in Schemes, NEW href \in Seq(Tokens), SecureResolve(scheme, href) # Refused
  PROVE  LET decoded == Decode(PathOf(scheme, href))
         IN  /\ PathOf(scheme, href) \in Seq(Tokens)
             /\ SecureResolve(scheme, href) = Clean(decoded)
             /\ ~LeadsOut(Clean(decoded))
  <1>1. PathOf(scheme, href) \in Seq(Tokens)
    BY DEF PathOf
  <1>2. QED
    BY <1>1 DEF SecureResolve

LEMMA ReferencesStayInside == StaysInside
  <1> SUFFICES ASSUME NEW scheme \in Schemes, NEW href \in References,
                      SecureResolve(scheme, href) # Refused
               PROVE  LET path == SecureResolve(scheme, href)
                          walk == Decode(href)
                          end  == Len(href) + 1
                      IN  /\ \A k \in DOMAIN path : path[k] \notin Parent \union Current
                          /\ scheme = "none" =>
                               /\ NeverOutside(walk, end)
                               /\ Len(path) = Down(walk, end) - Up(walk, end)
    BY DEF StaysInside
  <1>1. href \in Seq(Tokens)
    BY PathNamesAssumption
  <1> DEFINE decoded == Decode(PathOf(scheme, href))
             path == SecureResolve(scheme, href)
  <1>2. /\ PathOf(scheme, href) \in Seq(Tokens)
        /\ path = Clean(decoded) /\ ~LeadsOut(Clean(decoded))
    BY <1>1, Resolved
  <1>3. decoded \in Seq(Tokens)
    BY <1>2, DecodedPath
  <1> DEFINE end == Len(decoded) + 1
  <1> HIDE DEF decoded, path
  <1>4. Placed(path, NeverOutside(decoded, end), Depth(decoded, end))
    BY <1>2, <1>3, EveryPathReadWell, CleanPlaced
  <1>5. NeverOutside(decoded, end)
    BY <1>2, <1>4 DEF Placed, LeadsOut
  <1>6. /\ \A k \in DOMAIN path : path[k] \notin Parent \union Current
        /\ Len(path) = Depth(decoded, end)
    BY <1>4, <1>5 DEF Placed
  <1>7. scheme = "none" => decoded = Decode(href) /\ end = Len(href) + 1
    <2>1. scheme = "none" => PathOf(scheme, href) = href
      BY DEF PathOf
    <2>2. QED
      BY <1>1, <2>1, DecodedPath DEF decoded
  <1> HIDE DEF end
  <1>8. QED
    BY <1>5, <1>6, <1>7 DEF Depth, path

LEMMA InsideReferencesAccepted == InsideAccepted
  <1> SUFFICES ASSUME NEW href \in References,
                      NeverOutside(Decode(href), Len(href) + 1),
                      ~Slash(Decode(href)), \A k \in DOMAIN href : href[k] # "%zz"
               PROVE  SecureResolve("none", href) # Refused
    BY DEF InsideAccepted
  <1> DEFINE decoded == Decode(href)
             end == Len(href) + 1
  <1>1. href \in Seq(Tokens)
    BY PathNamesAssumption
  <1>2. decoded \in Seq(Tokens) /\ Len(decoded) + 1 = end
    BY <1>1, DecodedPath
  <1>3. PathOf("none", href) = href
    BY DEF PathOf
  <1> HIDE DEF decoded, end
  <1>4. /\ Clean(decoded) \in Seq(Seq(Tokens))
        /\ Placed(Clean(decoded), NeverOutside(decoded, end), Depth(decoded, end))
    BY <1>2, EveryPathReadWell, CleanPlaced
  <1>5. NeverOutside(decoded, end)
    BY DEF decoded, end
  <1>6. ~LeadsOut(Clean(decoded))
    <2>1. SUFFICES ASSUME Clean(decoded) # <<>> PROVE Clean(decoded)[1] \notin Parent
      BY DEF LeadsOut
    <2>2. 1 \in DOMAIN Clean(decoded)
      BY <1>4, <2>1
    <2>3. QED
      BY <1>4, <1>5, <2>2 DEF Placed
  <1>7. SecureResolve("none", href) = Clean(decoded)
    BY <1>3, <1>6 DEF SecureResolve, decoded
  <1>8. Refused \notin Seq(Seq(Tokens))
    <2>1. "refused" \notin Tokens
      BY DEF Tokens
    <2>2. Len(Refused) = 1 /\ Refused[1] = <<"refused">> /\ <<"refused">>[1] = "refused"
          /\ Len(<<"refused">>) = 1
      BY DEF Refused
    <2>3. SUFFICES ASSUME Refused \in Seq(Seq(Tokens)) PROVE FALSE
      OBVIOUS
    <2>4. Refused[1] \in Seq(Tokens)
      <3>1. 1 \in 1..Len(Refused)
        BY <2>2
      <3>2. QED
        BY <2>3, <3>1, ElementOfSeq
    <2>5. <<"refused">>[1] \in Tokens
      BY <2>2, <2>4
    <2>6. QED
      BY <2>1, <2>2, <2>5
  <1>9. QED
    BY <1>4, <1>7, <1>8

(* README: "OVF file references cannot escape the appliance directory".    *)
(* For references of any length, SecureResolve refuses what ever leads out *)
(* of the directory on its way, in whatever disguise, and nothing else.    *)
THEOREM ReferencesInside == Spec => []InsideExactly
  <1>1. InsideExactly
    BY ReferencesStayInside, InsideReferencesAccepted DEF InsideExactly
  <1>2. QED
    BY <1>1, PTL
=============================================================================
