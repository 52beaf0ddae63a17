# A verification of stratum-migrate

`stratum-migrate` turns a VMware appliance (an OVA file or an unpacked OVF
directory) into a `.stratumarsenal` bundle: a ZIP with a manifest, a template
(`canvas.yml`) and the disks of the machine as qcow2. This directory holds TLA+
models of the program, the TLC runs that check them, and theorems that the TLAPS
proof system checks. Every definition is translated from the Go code; comments
in the modules name the functions, `PROJECT.json` the lines.

## 1. The system

| component | state it keeps | operations | interacts with |
|---|---|---|---|
| command line (`cmd/stratum-migrate/main.go`) | `Config` | flag parsing, exit status | calls `Run` once |
| orchestrator (`run.go`, `Run`) | working directory, engine, firmware, result, OUTPUT | backend selection, manifest decision, engine choice, conversion, contract check, template, bundle, report | everything below, in one fixed order |
| engine and device policy (`run.go`, `util.go`) | none, tables | `ResolveTargetEngine`, `ValidateTargetContract`, `ChooseConversionOutputBus`, `ChooseRuntimeBus`, NIC normalisation | consulted before and after the conversion |
| tool discovery (`run.go`, `util.go`) | none | `selectBackend`, `FindExecutable` | decides which backend there is |
| OVF parsing (`ovf.go`) | `OVFModel` | `ParseOVF`, `controllerBus`, firmware, guest and NIC detection | feeds both backends and the policy |
| manifest verification (`ovf.go`) | none | `VerifyOVFManifests` | skipped, done here, or left to virt-v2v |
| OVA extraction (`archive.go`) | files of the working directory | `SafeExtractOVA` (all or metadata only) | before parsing |
| qemu-img backend (`qemuimg.go`) | image directory, `busCounts` | one conversion and check per OVF disk | external `qemu-img` |
| virt-v2v backend (`virtv2v.go`) | image directory, `busCounts` | one external conversion, then one move per disk of its XML | external `virt-v2v`, `qemu-img` |
| runtime disk normalisation (`run.go`) | image directory, result | plan, rename away, rename back | after the engine is final |
| template rendering (`template.go`) | none | `RenderTemplateYAML` | values and lists depend on the engine |
| bundle (`bundle.go`) | OUTPUT.partial, OUTPUT | `CreateBundle`, `ValidateCreatedBundle` | the only state shared between invocations |
| file utilities (`util.go`) | none | `MoveFile`, `CopyFile`, hashing, path resolution, sorting | all |
| build scripts (`Makefile`, `scripts`) | none | release build | not part of the program |

The program is sequential: no goroutine, no callback, no signal handler. What is
hard about it is elsewhere:

* **The output path is shared.** Two invocations can name one OUTPUT, and every
  invocation with that OUTPUT uses the same `OUTPUT.partial`. `Run` looks at
  OUTPUT before a conversion that may take hours and renames over it afterwards.
* **Processes die.** A kill runs no deferred call and leaves the partial file; a
  power loss takes the data of files that were not synced.
* **Decisions are made with what is known at the time.** The engine is chosen
  from the OVF, the firmware of the bundle comes from the conversion; the bus a
  disk is converted for is not the bus it is exposed on.
* **Names are reused within a directory.** Disks are named twice, and the second
  naming renames files to names that other disks still have.
* **Responsibility moves.** Who checks the manifest and the disks depends on the
  source, the backend and the tools of the host.
* **Documents say anything.** Elements come in any order, are repeated, missing or
  contradict each other; archives hold a name twice; settings are kept in a Go
  map, whose order differs from run to run.
* **Commands fail in the middle.** Each disk takes several commands and files, and
  an error ends the backend between any two of them.
* **Cleanups fail too.** Every error path removes the partial file it leaves, and
  ignores the error of the removal, so that the file can stay all the same.

What makes each part correct:

* output: OUTPUT is empty or a whole bundle at every moment, is replaced only
  with consent, and exit status 0 means it is the bundle of this very run;
* disks: none is overwritten, each is where the result says, names follow the
  order of the disks, the bus is the one its policy and engine give;
* orchestration: the bundle satisfies the contract of its engine, the template
  offers what it proposes, no appliance contradicting its manifest gets through
  unasked, the disks are checked where that is possible;
* appliance: what is parsed is what the archive held, references lead to files
  inside it, every disk of the selected machine is attached once, in the order of
  its controllers;
* backends: a file in the image directory is a whole, checked disk, and the one its
  name says.

`PROJECT.json` lists the hazards with their lines and the properties that would
notice them going wrong.

## 2. The modules

| module | models | corresponds to |
|---|---|---|
| `BundleSlot` | what is promised of an output path: one atomic slot for whole bundles | the README's words on OUTPUT, as `Publication` implements them |
| `Publication` | any number of invocations at one OUTPUT | `Run` from `os.Stat(output)` on, `CreateBundle`, `ValidateCreatedBundle` |
| `TargetPolicy` | the tables of engine, contract, buses, NICs | `run.go`, `util.go` |
| `CanvasTemplate` | the choices of `canvas.yml` and their lists | `template.go` |
| `Migration` | one `Run` from its options to the rendered template | `Run`, `selectBackend`, the two backends as far as they decide |
| `ImageDirectory` | what a backend promises of the directory that is bundled | what `Run` relies on when a backend has returned |
| `QemuConversion` | the commands and files of every disk | `RunQEMUImgBackend`, `PrepareCompressedSource`, `ConvertWithQEMUImg` |
| `VirtV2VConversion` | the command, the choice of the XML, its disks, moves and copies | `RunVirtV2VBackend`, `readVirtV2VOutput`, `MoveFile`, `CopyFile` |
| `DiskPlacement` | where every disk is, from its conversion to its final name | the loops of both backends, `NormalizeRuntimeDisks` |
| `DiskNames` | the letters of a disk | `alphaSuffix` |
| `Appliance` | from the source to a descriptor that may be parsed | `SafeExtractOVA`, `FindOVFDescriptor`, `VerifyOVFManifests`, and the part of `Run` that calls them |
| `PathNames` | where a reference leads | `SecureResolve` |
| `OvfDisks` | which disks a machine has, and in which order | `ParseOVF`: files, disks, items, references, sorting, attachment |
| `NaturalOrder` | the order of names | `NaturalLess` |
| `VirtualSystems` | which machine of a document is migrated | `--vm` in `ParseOVF` and in the two backends |
| `GuestDetection` | firmware, Secure Boot, vTPM, model of the adapters | `parseFirmwareAndTPM`, `pickNICModel` and their use |
| `HardwareQuantities` | CPUs, memory, number of adapters | the loop over the items, `parseScaledBytes`, the least values of the template |
| `ToolDiscovery` | which external programs are used | `selectBackend`, `FindExecutable` |
| `Inputs` | the four modules before, side by side | what `Run` learns before it converts |
| `MC...` | constants and bounds of the instances | |
| `...Proofs` | theorems about the module of that name and those it extends | |

**Publication.** An invocation `r` has a program counter (`pc`), its flag
(`overwrite`) and the file it holds open (`fd`). The directory is two entries,
`output` and `partial`, each leading to a file or to nothing; a file is named by
the invocation that created it (`Prior` is a bundle from earlier), because
`O_EXCL` lets an invocation create one file. `content` says which parts are in
a file and who wrote each, `synced` which files would survive a power loss. One
action stands for one system call, or for one part of the ZIP, with its error
return: before `CreateBundle` an error just ends the run, in `CreateBundle`
every error path also tries to remove the entry `OUTPUT.partial`, whosever file
it leads to by then. `RemovePartial` is this `os.Remove`, whose error the code
ignores: it may leave the entry, at the beginning of `CreateBundle`, where
`O_EXCL` then refuses, and on every error path. `refused` is a history variable,
the invocations that tried to remove their own file and could not. The ZIP is five parts in the order `CreateBundle` writes them;
`imageEntry` is the directory entry that alone satisfies
`ValidateCreatedBundle`, `imageData` the disks, which the code does not look
for. `Kill` and `PowerLoss` are external. `Overlap` says whether an invocation
may start while another runs; every step is the same either way.

**DiskPlacement.** `at` says under which name the data of a disk can be found;
`Rename` is `os.Rename`, after which the disk that had the new name is `Lost`.
The loops keep the code's `busCounts`, `plans` and `result`. A name is a pair of
prefix and suffix, and the suffix is that of `alphaSuffix`, a recursive function in
`DiskNames`.

**Migration.** The steps of `Run` in their order; `pc` is the next one. A refusal
of the program (no backend, engine that cannot run the guest, bad checksum,
contract) is a guard that does not hold, after which `GiveUp`, the error return
any step has, is all that is left. virt-v2v is external: it may report the
firmware of the OVF, UEFI or Secure Boot, and it does not convert an OVA whose
manifest it was left to check and that does not match. `ParseOVF` may return any
machine; `.nvram` files are copied in any order, which covers the random order of
the Go map they come from (those found in the directory come sorted, which is one
of these orders). `CanvasTemplate` and `TargetPolicy` are extended, not
instantiated: they have no state.

**Appliance.** `tree` is the directory the tool looks at: the source itself, or
what the members of the OVA have made of it so far, one `Extract` per member in
either mode of `SafeExtractOVA`. A content stands for itself and for its digest;
`Lines` says what it reads like as a manifest, and `pending`, `manifest`, `line`
are the two loops of `VerifyOVFManifests`. `pc = "refused"` is an error the code
has a reason for, `"error"` one of the file system. Where a manifest line leads is
the constant `Resolve`, which the instance computes with `PathNames`, a
translation of `SecureResolve` on references made of tokens (`..`, `%2f`, a
backslash and so on). `reading` is the loop of `filepath.Clean`, which is external;
what it is compared with, walking along the names and counting the steps up and
down, uses neither it nor any recursion. Two consequences of the code that the model made visible: a
symbolic link anywhere in an unpacked directory fails the migration in one of the
walks for files, unless both `--ovf-descriptor` and `--skip-manifest-check` are
given; and a `file:` reference, which `SecureResolve` strips of its scheme by
`url.Parse`, never leads to a file, since what is absolute is refused and what is
relative is opaque and has no path.

**OvfDisks.** A document is whatever `ReadFile`, `ReadDisk` and `ReadItem` accept,
one XML element each; `CollectRef` derives a reference from each disk item with
the code's defaults, `SortRefs` takes any order an unstable sort by
`Less` can give, and `AttachRef` resolves one reference, or skips a disk that is
already attached, or fails. A disk id is named by its runs of digits and of other
characters (`Name`), which `NaturalLess` of `NaturalOrder` compares. No number in a
name is too long for an `int` (`FitsInt`): beyond that the order is no order.
`requireDiskFiles` is the parameter of `ParseOVF` that depends on the backend.

**The backends.** In both modules a file is a record of what can be wrong with it
(of which disk, compressed, in which format, whole, sound), and one action is one
command or one call of the file system, with its error return. `QemuConversion`
keeps the directory of decompressed files, in which sources of one name share a
place. `Abort` is the error return after qemu-img has begun to write: the partial
file is removed, or stays if that fails, as in `AbortCopy` of the other module.
`VirtV2VConversion` lets virt-v2v write any domain over files in any
condition; `MoveFile` is a rename, or across devices a copy to `DISK.partial`, a
rename, and the removal of the original. Both implement `ImageDirectory`, in which
the only step besides success and failure is that the next disk is filed whole.

**The inputs.** `ToolDiscovery`, `VirtualSystems`, `GuestDetection` and
`HardwareQuantities` are small state machines over what a host or a document can
say; none reads what another one finds. Loops over a Go map take any key that is
left. `VirtualSystems` says which disks the backend is given as well as which
system is parsed: `converted` is the set of systems whose disks are in the bundle,
since one that names no disk gets those of the whole document (`Given`). In `HardwareQuantities` a quantity is a number of halves, a MiB has
four bytes and an `int64` few values, so that rounding, zero, negative and
overflowing sizes all occur; the theorems hold for any such values. `Inputs` puts
the four side by side: one runs, the others are where an empty document, or a host
without tools, leaves them.

The components meet in `TargetPolicy`, which the policy modules share, and in the
order of `Run`: `ToolDiscovery` gives the backend that `Migration` selects (which
`SelectsAsMigration` compares), `Appliance` what `OvfDisks` and the inputs read,
`OvfDisks` the disks of the two conversions and of `DiskPlacement`, and
`Migration` ends where `Publication` has its step `Convert` behind it.
`ImageDirectory` is what lets the rest of `Run` forget about commands. Composing
them in one state space would multiply independent states.

## 3. The runs

| run | instance | states | shows |
|---|---|---|---|
| `sequential` | 3 invocations, no overlap | 1 180 533 | `OutputWhole`, `NothingStalePublished`, `NoReplacementWithoutConsent`, `SuccessIsOwnBundle`, and that `Publication` implements `BundleSlot` |
| `overlap` | 2 invocations, overlap, fairness | 18 551 | what survives overlap: `OneWriterPerFile`, `NoPartialLeftBehind`, `EveryRunEnds` |
| `disk_placement` | 3 disks, 3 controllers, 3 XML buses; suffixes up to index 750 | 226 800 | `NothingLost`, `WhereReported`, `NamedInOrder`, `RuntimeContract` for every policy; `CountsInLetters` through both carries |
| `migration` | every target option with every backend, and every source with every backend, on all 8 hosts; up to 3 `.nvram` files, two of one name | 2 405 974 | `ContractKept`, `TemplateUsable`, `LateRefusalForArmOnly`, `BadApplianceNeverBundled`, `CheckedWhenPossible`, `NVRAMKeptByName` |
| `appliance` | archives of up to 4 of 14 members, 288 directories, both backends; references of up to 5 tokens | 3 450 500 | `SourceFaithful`, `ParsedIfConsistent`, `InsideExactly` |
| `ovf_disks` | 3 items, 3 disks, 2 files, in any order | 6 349 608 | `ExactlyTheDisks`, `InControllerOrder`, `BusOfItsController`, `UsableOrRefused`; `StrictWeakOrder` of `NaturalLess` |
| `qemu_conversion` | 3 disks of 24 sources, fairness | 144 128 | `FinishedDisksOnly`, that it implements `ImageDirectory`, `BackendEnds` |
| `virt_v2v_conversion` | domains of up to 3 elements, 2 OVF disks, fairness | 728 688 | `SoundDisksOnly`, `SourceReported`, that it implements `ImageDirectory`, `BackendEnds` |
| `inputs` | 4 tools; 3 virtual systems; 4 settings and adapters; 3 quantities | 1 586 525 | `ToolsFound`, `MachineMeant`, `SettingsOfTheDocument`, `QuantitiesOfTheDocument`, type |

Three more runs show a disagreement between the code and what the repository says:

| run | counterexample |
|---|---|
| `overlap_torn` | one invocation closes its file, another removes and recreates OUTPUT.partial, the first renames the unfinished file to OUTPUT (README: "renamed only after success") |
| `auto_refused` | `--qemu-version auto` chooses STRATUM for an ARM guest that the OVF calls UEFI; virt-v2v writes a domain with Secure Boot, and the contract refuses the engine after the conversion (README:129: "safely falls back to CANVAS when it is not", and README:137 names CANVAS) |
| `virtual_systems_mixed` | with `--vm` and virt-v2v the name and hardware are those of one system, the disks those of another (flag help: "VirtualSystem id or name when an OVF contains multiple VMs") |

**Further disagreements.** These properties say what a text says, and TLC refutes
them at once when they replace the properties of the configuration named:

| property | configuration | text | code |
|---|---|---|---|
| `PublishedWasValidated` | `PublicationSequential.cfg` | README:299, renamed "after successful validation" | `bundle.go:72` renames, `run.go:281` validates after it |
| `NoReplacementWithoutConsent` with `Overlap = TRUE` | `PublicationSequential.cfg` | the error of `run.go:141` | the rename of `bundle.go:72` does not look again: both found OUTPUT free, the second replaces the first |
| `OverwriteReplaces` | `PublicationSequential.cfg`, as a property | `main.go:62`, "replace an existing output file"; README:368, "renamed only after success" | `run.go:143` removes the old bundle before anything is converted; an invocation that then fails or dies leaves none, though the rename at the end would have replaced it |
| `VirtIOPreserved` | `DiskPlacement.cfg` | README:210, "preserve portable VirtIO" | `controllerBus` (`ovf.go:391`) never says `virtio` |
| `NVRAMKept` | `Migration.cfg` | README:234, the source file is stored | `./vm.nvram` and `old/vm.nvram` are copied to one name (`run.go:179`, `ovf.go:272`) |
| `AutoPrefersStratum` | `Migration.cfg` | README:129, STRATUM whenever compatible | the engine is chosen before virt-v2v corrects the firmware (`run.go:107`, `run.go:201`, `virtv2v.go:155`) |
| `NamedToolUsed` | `Inputs.cfg` | `main.go:51`, `main.go:53`, the paths of the tools | a tool named and not there is passed over for another one (`util.go:180`, `run.go:474`) |
| `StrictWeakOn(Strings)`, without `FitsInt`, with `Runs <- MCLongRuns`, `MaxRuns = 1` | `OvfDisks.cfg` | `util.go:390`, natural order | digits too long for an `int` are compared as text, other digits as numbers: three names can form a cycle (`util.go:397`) |

One text disagrees with another: README:136 gives a Legacy BIOS guest on CANVAS a
"SCSI-compatible path", README:209 gives CANVAS the converted portable bus, which
can be VirtIO. The code has no rule for BIOS and does the second, which
`RuntimeContract` states.

**Properties in parts.** Some properties of the runs are conjunctions of parts with
names and comments of their own: `SourceFaithful` (`UnsafeNeverParsed`,
`LastMemberWins`, `DescriptorUnambiguous`), `ParsedIfConsistent`
(`InconsistentNeverParsed`, `Appliance`'s `RefusedWithReason`), `ExactlyTheDisks`
(`AttachedOnce`, `AllNamedAttached`), `UsableOrRefused` (`OnlyUsableAttached`,
`OvfDisks`' `RefusedWithReason`), `ToolsFound` (`SelectsAsMigration`,
`NamedToolPreferred`), `MachineMeant` (`SelectedOnPurpose`,
`DisksOfTheMachine`), `SettingsOfTheDocument` (`FirmwareOfTheDocument`,
`FreshTPMWhereDeclared`, `MostCommonNIC`), `QuantitiesOfTheDocument`
(`MemorySuffices`, `ProcessorsCounted`, `DefaultsWhereSilent`, `AdaptersCounted`),
`FinishedDisksOnly` (`OnlyFinishedDisks`, `NoPartialBundled`), `SoundDisksOnly`
(`OnlySoundDisks`, `NothingLeft`). `CountsInLetters`, `StrictWeakOrder` and
`InsideExactly` are about operators, not states; they are evaluated at one step of
a run, over all indices up to `MaxIndex`, all triples of names of up to `MaxRuns`
runs, and all references of up to `MaxTokens` tokens.

**Bounds.** Two invocations are the fewest that can race for the two entries, and
the safety properties of `overlap` are proved for any number; that every run ends
does not depend on how many there are, since each step an invocation can take
either fails or moves it on, whatever the entries hold. Three without overlap let a
killed one be followed by a retry and by an overwrite of that retry. Three disks
on two buses are the least number for which one rename chain can run into a name
that is in use while another disk is still to be moved, and for which a sort can
break a tie between two of them; index 702 is the first suffix of three letters.
The tables of `Migration` are complete: every architecture, firmware, engine and
backend the program knows occurs. Four members let a name occur twice beside a
descriptor and a manifest; three virtual systems let two match a `--vm` beside one
that does not. Three elements of a domain put a CD-ROM between two disks.

Two runs cut their instance down with a CONSTRAINT. In `MCOvfDisks`, `Plain` has
every order of three items over documents whose files are there, `Few` every
missing, outside, redefined or undefined file and disk with up to two items: the
resolution of a disk does not depend on its place in the order, and the order not
on where its file is. In `MCInputs`, settings for the firmware and for the TPM do
not occur in one document, since no loop reads both, and of the four inputs one
varies at a time. TLC checks invariants on states at the edge of a constraint
too, and no liveness property is checked under one.

**Deadlock.** `CHECK_DEADLOCK FALSE` is given for `migration` alone, where a run
that has ended stops. The other models have an explicit step for having ended.

**Fairness.** In `Publication`, `FairSpec` assumes weak fairness of `Step(r)`, the
steps of one invocation together; in `QemuConversion` and `VirtV2VConversion` of
the steps of the backend together. A process that can take a step is scheduled
some day, and the commands it waits for return. No fairness is assumed of
starting, killing or losing power, nor of any particular outcome of a step. The
code has no timeout, so a command that hangs for ever hangs the run; that
assumption is real and is listed among the hazards.

**Mutants.** Every property of a passing run has a mutant, a definition before
the one it replaces with a comment that says what is wrong with it (a dropped
`f.Sync`, a missing `O_EXCL`, a single pass of renames, a contract not checked
again, a partial file not removed). With the mutant in place TLC finds the
property violated.

## 4. What is proved

All proofs are checked by `tlapm` with Z3, Zenon and LS4. They assume only the
named assumptions of the modules, which TLC evaluates on every run:

* `PublicationAssumption`: the names of files differ;
* `DiskPlacementAssumption`: there is a disk (`ValidateConfig` and both backends
  refuse a machine without); `DiskNamesAssumption`: `MaxIndex` is a number;
* `MigrationAssumption`: options are ones `ValidateConfig` lets pass;
* `OvfDisksAssumption`, `ApplianceAssumption`, `PathNamesAssumption`,
  `QemuConversionAssumption`, `VirtV2VConversionAssumption`,
  `ToolDiscoveryAssumption`, `VirtualSystemsAssumption`: the constants have their
  types, and the values that stand for nothing are not names;
* `NaturalOrderAssumption`: a run of digits stands on the same side of another run
  as any other run of digits does, as it does in ASCII; `OvfDisksAssumption` adds
  that the numbers in names fit an `int`, without which the order of disks is
  refuted (section 3);
* `GuestDetectionAssumption`: who says `e1000e` says `e1000`, which is a matter of
  `strings.Contains`;
* `HardwareQuantitiesAssumption`: an `int64` holds 2048, the square of a MiB and the
  number of items.

`PublicationProofs`, for any set of invocations and either value of `Overlap`:

* `TypeCorrect`, and `NoMixedBundle` (`OneWriterPerFile`): the strengthening says
  that an open file is its holder's own, because only `OpenPartial` sets `fd`;
* `CleanExit` (`NoPartialLeftBehind`): an entry `OUTPUT.partial` that leads to
  the file of `r` implies that `r` is past `open`, and each way out of there
  renames the file, tries to remove it, or dies; who tried and did not succeed is
  in `refused`.

The same module, assuming `~Overlap`: `OutputAlwaysWhole`,
`StaleNeverPublished`, `ReplacementNeedsConsent`, `SuccessMeansOwnBundle`, and
`PublicationImplementsSlot`, the refinement of `BundleSlot`. None of these is
inductive. The invariant they share (`SeqInv`) says, for the one active
invocation, which parts its file has at each step, that the file is synced from
`close` on, that OUTPUT is free from `convert` to `rename`, that from its open to its rename
OUTPUT.partial leads to its own file, and that OUTPUT leads only to whole, synced
files. What an earlier invocation left at OUTPUT.partial is either removed or stops
the next one at `O_EXCL`, so it is never what the rename files
(`StaleNeverPublished`). The last of these is why a power loss cannot hurt;
the one before it, which overlap breaks, is why the rename replaces nothing. The
refinement maps `withdraw` to the slot's `Withdraw`, the rename to `Publish`,
`Start` to `Allow` or a stutter, and every other step to a stutter; a torn file
at OUTPUT would map to a value the slot cannot have.

`DiskPlacementProofs`, for any number of disks, any controllers and XML buses:
`PlacementTypeCorrect`, `NoDiskLost`, `ReportedTruly`, `NamesInOrder`,
`RuntimeContractKept`, `SuffixesCounted`. `PlacementInv` says loop by loop where each disk is: before
the loop's disk under its new name, from it on under the old one; that `busCounts`
is one more than the last index in use on a bus; and that the names taken on a
bus are exactly the indices below its count. That these names differ is the lemma
`SuffixesDiffer`; that they count in letters, at every index and not only up to 750,
is `SuffixesCounted`.

`MigrationProofs`, for any options, `.nvram` files and way to name them:
`MigrationTypeCorrect`, `BundleKeepsContract`, `TemplateAlwaysUsable`,
`LateRefusalIsForArm`, `ManifestHonoured`, `DisksChecked`, `DistinctNVRAMKept`. `MigrationInv` has three parts: what is known about the
manifest, about the check of the disks, and about the engine. The lemma
`ContractsAgree` shows that the two hand-written statements of what STRATUM
accepts are one table, `AcceptedIsUsable` that the lists of the template are a
third copy of it. For the `.nvram` files `NVRAMInv` says that, if their names differ,
those copied so far are stored under them.

`OvfDisksProofs`, for any document: `DisksTypeCorrect`, `DisksExactly`,
`DisksInOrder`, `BusFromController`, `RefusedOrUsable`, `OrderIsStrictWeak`. `DisksInv` goes along the
loops: while items are read the controllers are those of the last declaration
(`LastDeclared`); while references are collected, each stems from an item and each
disk item passed has one (`Collecting`); a sort keeps the set and puts it in order
whatever it does with ties (`Sorting`); while disks are attached, all references
passed are attached, once, in their order (`Attaching`, `AllPassed`). The order of
names is strict and weak because the first runs in which two names differ decide,
and among runs of one kind the comparison is that of numbers or of texts; a third
name differs from one of the two no later than they differ from each other.

`ApplianceProofs`, for any archive or directory: `ApplianceTypeCorrect`,
`SourceTaken`, `ManifestsDecide`, `ReferencesInside`. `ApplianceInv` says that what has been extracted
is the last member of each name and that none was unsafe, and that every line
before the one being compared, and every manifest neither pending nor being
compared, agrees with the directory. `LastMemberWins`, which one of the runs' properties
rests on, is part of it because that is what turns a statement about the directory
into one about the archive; with metadata only, nothing is compared.
`ReferencesInside` is about references of any length. Its induction goes along the
tokens (`EveryPathReadWell`): as long as the walk has not left the directory, the
clean path so far has no parent in it and is as long as the walk is deep; once the
walk has left, the path starts with a parent and will for ever (`Placed`). So the
one test of the first name at the end sees an escape anywhere on the way.

`QemuConversionProofs`, for any number of disks and any sources:
`ConversionTypeCorrect`, `FinishedOrNothing`, and `ConversionImplementsDirectory`,
in which `Rename` is the one step that files a disk. The invariant (`InputInv`,
`PartialInv`, `ImageInv`, `DoneInv`) says what the input and the partial file are
at each command: that a decompressed file is the current disk's although names are
shared is why the sources do not get mixed up. It does not say that a backend that
fails has removed its partial file, which the code does not make sure of; it says
whose the file is, and that the disk's own name is free as long as it is there.

`VirtV2VConversionProofs`, for any domain and files: `BackendTypeCorrect`,
`SoundOrNothing`, `DisksReportedTruly`, `BackendImplementsDirectory`. The invariant
(`Inv`) says of the disks before the loop that they are filed, whole, checked and
gone from where they were, and of the current one, step by step, where its copy and
its original are. `OrderInv` ties the list of files to the elements that are disks,
by counting those read so far; `NamesInv` says that nothing is under a name before
its disk is moved there, so that the names in use are those `ImageDirectory` has:
`Move` and `RenameCopy` file a disk, every other step is a stutter, a success or a
failure. `PartialInv` adds that while there is a partial file, its disk is still
where virt-v2v left it: also when the removal of the file fails, after which the
backend has failed, no disk is in two places.

`InputsProofs`, for any host and documents of any size, all of the composed
specification: `InputsTyped`, the type correctness of the four parts together;
`ToolsAreFound` (what is left of the queue still holds the first tool that can be
executed, if the whole list did); `OneMachineMeant` (the system selected so far is
the last so far that answers, and what qemu-img converts is what `Given` says);
`DocumentDecidesSettings` (a map loop that has visited some keys, in whatever order,
has seen exactly what those say; the counts of adapters are cardinalities);
`DocumentDecidesQuantities` (the memory so far is at least what the items so far ask
for, exceeds it by less than one MiB for each memory item among them, and has not
overflowed; the processors so far are the sum of those of the items). Each part has
an invariant of its own; that the parts have no variable in common is what makes
their conjunction inductive, and is claimed as nothing more.

**Recursion.** Three theorems are about recursive functions: `SuffixesCounted`,
`ReferencesInside`, and `DocumentDecidesQuantities` (its sums). The induction
theorems of the library have an operator as a parameter, which the provers cannot
instantiate, so the modules prove the two facts needed from well-foundedness: a
set of numbers that is not empty has a least one (`LeastNatural`), and, in
`ApplianceProofs`, a set of paths that has the empty one and is closed under one
token more has them all (`AllPaths`). First they show that the equation of the
function has a solution on arguments up to any size, and that two such solutions
agree; then that the function, defined by `CHOOSE`, is one.

**Only model-checked.** `EveryRunEnds` and the two `BackendEnds`: liveness under
fairness and `ENABLED` are beyond the prover. The three properties of the runs that
expect a violation have no theorem, as they do not hold. Every other property of the
runs is proved, from inductive invariants that TLC checked on the same instances
first.

## 5. What is not modelled

* Text of bundle, template, report and warnings; hashes, gzip and tar framing, ZIP
  compression, qcow2 options, permissions.
* The words by which the guest system and its architecture are recognised, the
  list of `.nvram` files, MAC addresses and the UUID: `Migration` takes any outcome
  of the first two; nothing depends on the rest beyond its own field.
* The correctness of virt-v2v and qemu-img. What they may return is a
  nondeterministic choice; what they do to the guest is not observed.
* Names, versions, identity and the diagnostics files: no decision depends on them
  beyond their own field. Flag parsing and printed text of the command line.
* Directories that are changed by other programs during a run, and file systems
  whose rename is not atomic or whose directory entries do not survive a power
  loss.
* The build and release scripts.

Hazards that no property covers, each with its note in `PROJECT.json`:

* after the bundle is in place an error writing the report fails the run
  (`run.go:328`), so that exit status 1 goes with a complete bundle; no text
  promises another outcome;
* no external command has a timeout (`virtv2v.go:139`), which the fairness above
  assumes away;
* between the look at OUTPUT and the rename another invocation can publish
  (`run.go:139`), an old bundle is removed before there is a new one
  (`run.go:143`), and one of two `.nvram` files of one name is lost (`ovf.go:261`):
  properties that say otherwise are stated and do not hold (section 3);
* the order and number of virt-v2v's disks are taken to be those of the OVF
  (`virtv2v.go:174`), `--vm` silently means the last match (`ovf.go:165`), and a
  memory size without units is one of bytes (`ovf.go:589`): no text of the
  repository says what should happen instead.

## 6. The plan

Done, in this order: publication (the only shared state), disk placement (the
only place where the program can lose data by itself), the tables, the
orchestration; then the disks of a document, extraction and manifests, the two
backends as implementations of one directory, the tools, and the settings and
quantities of a document; proofs of every invariant and refinement that is checked.

Left:

1. A module in which the step `Convert` of `Publication` and the conversion of
   `Migration` are refined by `ImageDirectory` and `DiskPlacement`.
2. A bound on what overlap can do: an OUTPUT that is torn is some active
   invocation's own file, or that of one that failed.

## 7. Running it

    tlc -config PublicationSequential.cfg MCPublication.tla
    tlapm PublicationProofs.tla

Most runs finish within seconds, the largest (`ovf_disks`, `migration`,
`appliance`) in about a minute each.
