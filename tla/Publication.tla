---------------------------- MODULE Publication ----------------------------
(***************************************************************************)
(* The life of the file OUTPUT.  Every invocation of stratum-migrate that  *)
(* names the same output path decides early whether it may use the path    *)
(* (Run), converts for a long time, writes the bundle to OUTPUT.partial,   *)
(* renames it to OUTPUT (CreateBundle), re-opens OUTPUT to check it        *)
(* (ValidateCreatedBundle) and writes its report.  Invocations share       *)
(* nothing but these two directory entries; they can be killed at any      *)
(* point, and the host can lose power.                                     *)
(*                                                                         *)
(* A file is named by the invocation that created it.  A directory entry   *)
(* is the file it leads to, or NoFile; an invocation that has opened a     *)
(* file keeps writing to it whatever happens to the entry.                 *)
(***************************************************************************)
EXTENDS Naturals

CONSTANTS Runs,     \* the invocations that use this OUTPUT
          Prior,    \* the file a bundle found at OUTPUT at the start is in
          NoFile,   \* the value of a directory entry that does not exist
          Overlap   \* whether an invocation may start while another one runs

ASSUME PublicationAssumption ==
  /\ Prior \notin Runs
  /\ NoFile \notin Runs \union {Prior}
  /\ Overlap \in BOOLEAN

VARIABLES pc,         \* invocation -> its next step, or how it ended
          overwrite,  \* invocation -> its --overwrite flag
          output,     \* the entry OUTPUT
          partial,    \* the entry OUTPUT.partial
          fd,         \* invocation -> the file it holds open for writing
          content,    \* file -> the parts in it, each with who wrote it
          synced,     \* the files whose content is on stable storage
          validated,  \* the invocations that got past ValidateCreatedBundle
          refused     \* history: the invocations that the file system refused
                      \* the removal of their own OUTPUT.partial

entries == <<output, partial>>
data    == <<content, synced>>
history == <<validated, refused>>
vars    == <<pc, overwrite, entries, fd, data, history>>

Files == Runs \union {Prior}

(* What CreateBundle puts into the ZIP, in this order.  addDirectoryToZip  *)
(* writes the entry of the directory before what is under it; zw.Close     *)
(* writes the central directory.                                           *)
Parts == {"manifest", "template", "imageEntry", "imageData", "directory"}

Ended   == {"done", "failed", "crashed"}
Steps   == Parts \union {"stat", "withdraw", "convert", "clear", "open",
                         "sync", "close", "rename", "validate", "report"}
PCs     == Steps \union Ended \union {"idle"}

Active(r) == pc[r] \in Steps

(* A file is a whole bundle when its creator wrote every part, alone.      *)
Whole(f) == content[f] = {f} \X Parts

TypeOK ==
  /\ pc \in [Runs -> PCs]
  /\ overwrite \in [Runs -> BOOLEAN]
  /\ output \in Files \union {NoFile}
  /\ partial \in Files \union {NoFile}
  /\ fd \in [Runs -> Files \union {NoFile}]
  /\ content \in [Files -> SUBSET (Files \X Parts)]
  /\ synced \subseteq Files
  /\ validated \subseteq Runs
  /\ refused \subseteq Runs

Init ==
  /\ pc = [r \in Runs |-> "idle"]
  /\ overwrite = [r \in Runs |-> FALSE]
  /\ output \in {NoFile, Prior}
  /\ partial = NoFile
  /\ fd = [r \in Runs |-> NoFile]
  /\ content = [f \in Files |-> IF f = Prior THEN {Prior} \X Parts ELSE {}]
  /\ synced = {Prior}
  /\ validated = {}
  /\ refused = {}

Goto(r, step) == pc' = [pc EXCEPT ![r] = step]

(* The error return of a step that holds no file and cleans up nothing.    *)
GiveUp(r) ==
  /\ Goto(r, "failed")
  /\ UNCHANGED <<overwrite, entries, fd, data, history>>
-----------------------------------------------------------------------------
(* Run, before and up to its use of OUTPUT *)

Start(r) ==
  /\ pc[r] = "idle"
  /\ Overlap \/ \A q \in Runs : ~Active(q)
  /\ \E consent \in BOOLEAN : overwrite' = [overwrite EXCEPT ![r] = consent]
  /\ Goto(r, "stat")
  /\ UNCHANGED <<entries, fd, data, history>>

(* Mutant: the flag is not looked at.                                      *)
CheckOutputAnyway(r) ==
  /\ pc[r] = "stat"
  /\ \/ Goto(r, IF output = NoFile THEN "convert" ELSE "withdraw")
     \/ Goto(r, "failed")
  /\ UNCHANGED <<overwrite, entries, fd, data, history>>

(* os.Stat(output): a free path, a path to be replaced, a refusal, or an   *)
(* error that is not os.IsNotExist.                                        *)
CheckOutput(r) ==
  /\ pc[r] = "stat"
  /\ \/ /\ output = NoFile
        /\ Goto(r, "convert")
        /\ UNCHANGED <<overwrite, entries, fd, data, history>>
     \/ /\ output # NoFile
        /\ overwrite[r]
        /\ Goto(r, "withdraw")
        /\ UNCHANGED <<overwrite, entries, fd, data, history>>
     \/ GiveUp(r)

(* Mutant: a removal that finds nothing is tried again, and again.         *)
WithdrawOutputRetrying(r) ==
  /\ pc[r] = "withdraw"
  /\ IF output = NoFile THEN UNCHANGED vars
     ELSE /\ output' = NoFile
          /\ Goto(r, "convert")
          /\ UNCHANGED <<overwrite, partial, fd, data, history>>

(* os.Remove(output), which fails when another invocation removed it.      *)
WithdrawOutput(r) ==
  /\ pc[r] = "withdraw"
  /\ \/ /\ output # NoFile
        /\ output' = NoFile
        /\ Goto(r, "convert")
        /\ UNCHANGED <<overwrite, partial, fd, data, history>>
     \/ GiveUp(r)

(* Everything between, in the invocation's own working directory.          *)
Convert(r) ==
  /\ pc[r] = "convert"
  /\ \/ /\ Goto(r, "clear")
        /\ UNCHANGED <<overwrite, entries, fd, data, history>>
     \/ GiveUp(r)
-----------------------------------------------------------------------------
(* CreateBundle *)

(* _ = os.Remove(partial): whatever file is there loses its entry, or the  *)
(* file system refuses and nobody looks at the error.                      *)
RemovePartial(r) ==
  /\ \/ /\ partial' = NoFile
        /\ UNCHANGED refused
     \/ /\ partial # NoFile
        /\ UNCHANGED partial
        /\ refused' = IF partial = r THEN refused \union {r} ELSE refused
  /\ UNCHANGED validated

(* MkdirAll, then the removal of what an earlier run left.                 *)
ClearPartial(r) ==
  /\ pc[r] = "clear"
  /\ \/ /\ RemovePartial(r)
        /\ Goto(r, "open")
        /\ UNCHANGED <<overwrite, output, fd, data>>
     \/ GiveUp(r)

(* Mutant: O_CREATE without O_EXCL opens a file that is there.             *)
OpenPartialShared(r) ==
  /\ pc[r] = "open"
  /\ \/ /\ partial' = IF partial = NoFile THEN r ELSE partial
        /\ fd' = [fd EXCEPT ![r] = partial']
        /\ Goto(r, "manifest")
        /\ UNCHANGED <<overwrite, output, data, history>>
     \/ GiveUp(r)

(* OpenFile(O_CREATE|O_EXCL): a new file, never one that is there; if the  *)
(* removal was refused, or another invocation was faster, an error.        *)
OpenPartial(r) ==
  /\ pc[r] = "open"
  /\ \/ /\ partial = NoFile
        /\ partial' = r
        /\ fd' = [fd EXCEPT ![r] = r]
        /\ Goto(r, "manifest")
        /\ UNCHANGED <<overwrite, output, data, history>>
     \/ GiveUp(r)

(* Mutant: addDirectoryToZip adds the directory and none of its files.     *)
AfterPartNoData == [manifest   |-> "template",  template  |-> "imageEntry",
                    imageEntry |-> "directory", imageData |-> "directory",
                    directory  |-> "sync"]

AfterPart == [manifest   |-> "template",  template  |-> "imageEntry",
              imageEntry |-> "imageData", imageData |-> "directory",
              directory  |-> "sync"]

WritePart(r) ==
  /\ pc[r] \in Parts
  /\ content' = [content EXCEPT ![fd[r]] = @ \union {<<r, pc[r]>>}]
  /\ synced' = synced \ {fd[r]}
  /\ Goto(r, AfterPart[pc[r]])
  /\ UNCHANGED <<overwrite, entries, fd, history>>

(* The error paths before the rename: close the file, try to remove the    *)
(* entry OUTPUT.partial.  The cleanup closure first calls zw.Close, which  *)
(* can still write the central directory of what is there.                 *)
AbortBundle(r) ==
  /\ pc[r] \in Parts \union {"sync", "close"}
  /\ \/ /\ pc[r] \in Parts \ {"directory"}
        /\ content' = [content EXCEPT ![fd[r]] = @ \union {<<r, "directory">>}]
        /\ synced' = synced \ {fd[r]}
     \/ UNCHANGED data
  /\ fd' = [fd EXCEPT ![r] = NoFile]
  /\ RemovePartial(r)
  /\ Goto(r, "failed")
  /\ UNCHANGED <<overwrite, output>>

(* Mutant: the file is closed and renamed without f.Sync.                  *)
SyncPartialNot(r) ==
  /\ pc[r] = "sync"
  /\ Goto(r, "close")
  /\ UNCHANGED <<overwrite, entries, fd, data, history>>

SyncPartial(r) ==
  /\ pc[r] = "sync"
  /\ synced' = synced \union {fd[r]}
  /\ Goto(r, "close")
  /\ UNCHANGED <<overwrite, entries, fd, content, history>>

ClosePartial(r) ==
  /\ pc[r] = "close"
  /\ fd' = [fd EXCEPT ![r] = NoFile]
  /\ Goto(r, "rename")
  /\ UNCHANGED <<overwrite, entries, data, history>>

(* Mutant: a rename that fails leaves OUTPUT.partial where it is.          *)
RenamePartialLeaving(r) ==
  /\ pc[r] = "rename"
  /\ \/ /\ partial # NoFile
        /\ output' = partial
        /\ partial' = NoFile
        /\ Goto(r, "validate")
     \/ /\ Goto(r, "failed")
        /\ UNCHANGED entries
  /\ UNCHANGED <<overwrite, fd, data, history>>

(* os.Rename(partial, output): whatever the entry OUTPUT.partial leads to  *)
(* replaces whatever OUTPUT led to.  On an error the entry is removed, if  *)
(* that can be done.                                                       *)
RenamePartial(r) ==
  /\ pc[r] = "rename"
  /\ \/ /\ partial # NoFile
        /\ output' = partial
        /\ partial' = NoFile
        /\ Goto(r, "validate")
        /\ UNCHANGED history
     \/ /\ RemovePartial(r)
        /\ Goto(r, "failed")
        /\ UNCHANGED output
  /\ UNCHANGED <<overwrite, fd, data>>
-----------------------------------------------------------------------------
(* Run, after CreateBundle *)

PartsIn(f) == {p \in Parts : \E w \in Files : <<w, p>> \in content[f]}

(* The ZIP opens, holds manifest.json, and has some entry under the path   *)
(* of each asset: the disks themselves are not looked for.                 *)
Acceptable(f) ==
  /\ f # NoFile
  /\ {"directory", "manifest", "template", "imageEntry"} \subseteq PartsIn(f)

ValidateOutput(r) ==
  /\ pc[r] = "validate"
  /\ \/ /\ Acceptable(output)
        /\ validated' = validated \union {r}
        /\ Goto(r, "report")
        /\ UNCHANGED <<overwrite, entries, fd, data, refused>>
     \/ GiveUp(r)

WriteReport(r) ==
  /\ pc[r] = "report"
  /\ \/ /\ Goto(r, "done")
        /\ UNCHANGED <<overwrite, entries, fd, data, history>>
     \/ GiveUp(r)
-----------------------------------------------------------------------------
(* What can happen to an invocation from outside *)

(* The process dies (SIGINT and SIGKILL alike: nothing handles a signal,   *)
(* no deferred call runs); the kernel closes its files.                    *)
Kill(r) ==
  /\ Active(r)
  /\ Goto(r, "crashed")
  /\ fd' = [fd EXCEPT ![r] = NoFile]
  /\ UNCHANGED <<overwrite, entries, data, history>>

(* The host loses power.  Directory entries survive; of the files that     *)
(* were not synced any may come back empty.                                *)
PowerLoss ==
  /\ \E r \in Runs : Active(r)
  /\ pc' = [r \in Runs |-> IF Active(r) THEN "crashed" ELSE pc[r]]
  /\ fd' = [r \in Runs |-> NoFile]
  /\ \E lost \in SUBSET (Files \ synced) :
       content' = [f \in Files |-> IF f \in lost THEN {} ELSE content[f]]
  /\ UNCHANGED <<overwrite, entries, synced, history>>

AllEnded ==
  /\ \A r \in Runs : pc[r] \in Ended
  /\ UNCHANGED vars

Step(r) ==
  \/ CheckOutput(r)   \/ WithdrawOutput(r) \/ Convert(r)
  \/ ClearPartial(r)  \/ OpenPartial(r)    \/ WritePart(r)
  \/ AbortBundle(r)   \/ SyncPartial(r)    \/ ClosePartial(r)
  \/ RenamePartial(r) \/ ValidateOutput(r) \/ WriteReport(r)

Next ==
  \/ \E r \in Runs : Start(r) \/ Step(r) \/ Kill(r)
  \/ PowerLoss
  \/ AllEnded

Spec == Init /\ [][Next]_vars

(* A started invocation is scheduled, and the commands it runs return.     *)
FairSpec == Spec /\ \A r \in Runs : WF_vars(Step(r))
-----------------------------------------------------------------------------
(* Properties that hold whether or not invocations overlap *)

(* What is in a file was written by the invocation that created it, so no  *)
(* bundle mixes two migrations: os.Remove followed by O_EXCL in            *)
(* CreateBundle gives every invocation a file of its own.                  *)
OneWriterPerFile ==
  \A f \in Files : \A part \in content[f] : part[1] = f

(* An OUTPUT.partial whose maker is not at work is one that was killed, or *)
(* that was refused the removal when it tried, which every error path of   *)
(* CreateBundle does once the file is there; and none of them succeeded.   *)
NoPartialLeftBehind ==
  \A r \in Runs : partial = r =>
    \/ Active(r) /\ pc[r] \notin {"validate", "report"}
    \/ pc[r] = "crashed"
    \/ pc[r] = "failed" /\ r \in refused

(* Every invocation that starts comes to an end, also when it loses a race *)
(* for one of the two entries.                                             *)
EveryRunEnds == \A r \in Runs : Active(r) ~> ~Active(r)

(* Properties that hold when invocations do not overlap *)

(* What is at OUTPUT is a whole bundle at every moment, also after a kill  *)
(* or a power loss: the file is complete and synced before the rename.     *)
OutputWhole == output # NoFile => Whole(output)

(* A bundle found at OUTPUT is only ever taken away by an invocation that  *)
(* was given --overwrite.                                                  *)
NoReplacementWithoutConsent ==
  [][(output # NoFile /\ output' # output) =>
       \E r \in Runs : overwrite[r] /\ pc[r] = "withdraw"]_vars

(* What appears at OUTPUT is the file of the invocation that renames it,   *)
(* never an OUTPUT.partial that a killed or failed one left: one that      *)
(* cannot be removed stops a later run at O_EXCL instead of being taken.   *)
NothingStalePublished ==
  [][\A r \in Runs : (output' = r /\ output # r) =>
                        pc[r] = "rename" /\ pc'[r] = "validate"]_vars

(* Exit status 0 means that OUTPUT is the whole bundle of this very run.   *)
SuccessIsOwnBundle ==
  [][\A r \in Runs : (pc[r] # "done" /\ pc'[r] = "done") =>
                       output = r /\ Whole(r)]_vars

(* README: the package is renamed to OUTPUT "after successful validation". *)
PublishedWasValidated == output \in Runs => output \in validated

(* main.go: --overwrite is there to "replace an existing output file", so  *)
(* that a bundle at OUTPUT goes away for the sake of another one only, and *)
(* a conversion that fails leaves the one that is there.                   *)
OverwriteReplaces == [][output # NoFile => output' # NoFile]_vars

(* Without overlap the file handling is one atomic slot for whole bundles. *)
(* A file at OUTPUT that is not a whole bundle has no counterpart there.   *)
Slot == INSTANCE BundleSlot WITH
  Empty   <- NoFile,
  slot    <- IF output # NoFile /\ ~Whole(output) THEN "torn" ELSE output,
  consent <- {r \in Runs : overwrite[r]}

(* The steps of Run, CreateBundle and ValidateCreatedBundle implement the  *)
(* promise of BundleSlot.                                                  *)
ImplementsSlot == Slot!Spec
=============================================================================
