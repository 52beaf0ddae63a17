------------------------- MODULE PublicationProofs -------------------------
(***************************************************************************)
(* Theorems about Publication: first those that hold for any set of        *)
(* invocations, whether or not they overlap, then those about invocations  *)
(* that do not.                                                            *)
(***************************************************************************)
EXTENDS Publication, TLAPS

(* The steps in which an invocation holds its file open.                   *)
Writing == Parts \union {"sync", "close"}

(* An invocation holds its own file open, exactly while it writes.         *)
OwnFile == \A r \in Runs : fd[r] = IF pc[r] \in Writing THEN r ELSE NoFile

(* OUTPUT.partial is the file of someone who will remove or rename it, who *)
(* was killed before, or who failed and could not remove it.               *)
PartialAccounted ==
  /\ partial # Prior
  /\ \A r \in Runs : partial = r =>
       \/ pc[r] \in Writing \union {"rename", "crashed"}
       \/ pc[r] = "failed" /\ r \in refused

(* The invariant that is inductive for any pattern of invocations.         *)
SharedInv ==
  /\ TypeOK
  /\ OwnFile
  /\ OneWriterPerFile
  /\ PartialAccounted

LEMMA PCFacts ==
  /\ Writing \subseteq Steps
  /\ Steps \cap Ended = {}
  /\ "idle" \notin Steps
  /\ Parts \subseteq Writing
  /\ \A p \in Parts : AfterPart[p] \in Writing
  BY DEF Writing, Parts, Steps, Ended, AfterPart

LEMMA InitShared == Init => SharedInv
  <1> SUFFICES ASSUME Init PROVE SharedInv
    OBVIOUS
  <1> USE PublicationAssumption
  <1>1. TypeOK
    BY DEF Init, TypeOK, Files, PCs
  <1>2. OwnFile
    BY DEF Init, OwnFile, Writing, Parts
  <1>3. OneWriterPerFile
    BY DEF Init, OneWriterPerFile, Files
  <1>4. PartialAccounted
    BY DEF Init, PartialAccounted
  <1>5. QED
    BY <1>1, <1>2, <1>3, <1>4 DEF SharedInv

LEMMA TypeStep == TypeOK /\ OwnFile /\ [Next]_vars => TypeOK'
  <1> SUFFICES ASSUME TypeOK, OwnFile, [Next]_vars PROVE TypeOK'
    OBVIOUS
  <1> USE PublicationAssumption DEF TypeOK, PCs, Files
  <1>1. ASSUME NEW r \in Runs, Start(r) PROVE TypeOK'
    BY <1>1 DEF Start, Goto, Steps, entries, data, history
  <1>2. ASSUME NEW r \in Runs, CheckOutput(r) PROVE TypeOK'
    BY <1>2 DEF CheckOutput, GiveUp, Goto, Steps, Ended, entries, data, history
  <1>3. ASSUME NEW r \in Runs, WithdrawOutput(r) PROVE TypeOK'
    BY <1>3 DEF WithdrawOutput, GiveUp, Goto, Steps, Ended, entries, data, history
  <1>4. ASSUME NEW r \in Runs, Convert(r) PROVE TypeOK'
    BY <1>4 DEF Convert, GiveUp, Goto, Steps, Ended, entries, data, history
  <1>5. ASSUME NEW r \in Runs, ClearPartial(r) PROVE TypeOK'
    BY <1>5 DEF ClearPartial, RemovePartial, GiveUp, Goto, Steps, Ended, entries, data, history
  <1>6. ASSUME NEW r \in Runs, OpenPartial(r) PROVE TypeOK'
    BY <1>6 DEF OpenPartial, GiveUp, Goto, Steps, Parts, Ended, entries, data, history
  <1>7. ASSUME NEW r \in Runs, WritePart(r) PROVE TypeOK'
    <2>1. fd[r] = r /\ AfterPart[pc[r]] \in Steps
      BY <1>7, PCFacts DEF WritePart, OwnFile
    <2>2. content' \in [Files -> SUBSET (Files \X Parts)]
      BY <1>7, <2>1 DEF WritePart
    <2>3. QED
      BY <1>7, <2>1, <2>2 DEF WritePart, Goto, entries, history
  <1>8. ASSUME NEW r \in Runs, AbortBundle(r) PROVE TypeOK'
    <2>1. fd[r] = r
      BY <1>8, PCFacts DEF AbortBundle, OwnFile, Writing
    <2>2. content' \in [Files -> SUBSET (Files \X Parts)] /\ synced' \subseteq Files
      BY <1>8, <2>1 DEF AbortBundle, data, Parts
    <2>3. QED
      BY <1>8, <2>2 DEF AbortBundle, RemovePartial, Goto, Ended
  <1>9. ASSUME NEW r \in Runs, SyncPartial(r) PROVE TypeOK'
    <2>1. fd[r] = r
      BY <1>9, PCFacts DEF SyncPartial, OwnFile, Writing
    <2>2. QED
      BY <1>9, <2>1 DEF SyncPartial, Goto, Steps, entries, history
  <1>10. ASSUME NEW r \in Runs, ClosePartial(r) PROVE TypeOK'
    BY <1>10 DEF ClosePartial, Goto, Steps, entries, data, history
  <1>11. ASSUME NEW r \in Runs, RenamePartial(r) PROVE TypeOK'
    BY <1>11 DEF RenamePartial, RemovePartial, Goto, Steps, Ended, data, history
  <1>12. ASSUME NEW r \in Runs, ValidateOutput(r) PROVE TypeOK'
    BY <1>12 DEF ValidateOutput, GiveUp, Goto, Steps, Ended, entries, data, history
  <1>13. ASSUME NEW r \in Runs, WriteReport(r) PROVE TypeOK'
    BY <1>13 DEF WriteReport, GiveUp, Goto, Ended, entries, data, history
  <1>14. ASSUME NEW r \in Runs, Kill(r) PROVE TypeOK'
    BY <1>14 DEF Kill, Goto, Ended, entries, data, history
  <1>15. CASE PowerLoss
    BY <1>15 DEF PowerLoss, Ended, entries, history
  <1>16. CASE AllEnded \/ UNCHANGED vars
    BY <1>16 DEF AllEnded, vars, entries, data, history
  <1>17. QED
    BY <1>1, <1>2, <1>3, <1>4, <1>5, <1>6, <1>7, <1>8, <1>9, <1>10, <1>11,
       <1>12, <1>13, <1>14, <1>15, <1>16 DEF Next, Step

LEMMA SharedStep == SharedInv /\ [Next]_vars => SharedInv'
  <1> SUFFICES ASSUME SharedInv, [Next]_vars PROVE SharedInv'
    OBVIOUS
  <1> USE PublicationAssumption, PCFacts DEF SharedInv
  <1>t. TypeOK'
    BY TypeStep
  <1> DEFINE Rest == OwnFile /\ OneWriterPerFile /\ PartialAccounted
  <1> USE DEF TypeOK, OwnFile, PartialAccounted, Goto, GiveUp
  <1>1. ASSUME NEW r \in Runs,
               \/ Start(r) \/ CheckOutput(r) \/ WithdrawOutput(r) \/ Convert(r)
               \/ ValidateOutput(r) \/ WriteReport(r)
        PROVE  Rest'
    <2>1. /\ pc[r] \notin Writing \union {"rename", "crashed", "failed"}
          /\ pc'[r] \notin Writing
          /\ \A q \in Runs \ {r} : pc'[q] = pc[q]
      BY <1>1 DEF Start, CheckOutput, WithdrawOutput, Convert, ValidateOutput,
                  WriteReport, Writing, Parts
    <2>2. UNCHANGED <<partial, fd, content, refused>>
      BY <1>1 DEF Start, CheckOutput, WithdrawOutput, Convert, ValidateOutput,
                  WriteReport, entries, data, history
    <2>3. QED
      BY <2>1, <2>2 DEF OneWriterPerFile
  <1>2. ASSUME NEW r \in Runs, ClearPartial(r) PROVE Rest'
    BY <1>2 DEF ClearPartial, RemovePartial, OneWriterPerFile, entries, data, history,
                Files, Writing, Parts
  <1>3. ASSUME NEW r \in Runs, OpenPartial(r) PROVE Rest'
    BY <1>3 DEF OpenPartial, OneWriterPerFile, entries, data, history, Files, Writing,
                Parts
  <1>4. ASSUME NEW r \in Runs, WritePart(r) PROVE Rest'
    <2>1. fd[r] = r /\ AfterPart[pc[r]] \in Writing
      BY <1>4 DEF WritePart
    <2>2. OneWriterPerFile'
      BY <1>4, <2>1 DEF WritePart, OneWriterPerFile, Files
    <2>3. OwnFile' /\ PartialAccounted'
      BY <1>4, <2>1 DEF WritePart, entries, history
    <2>4. QED
      BY <2>2, <2>3
  <1>5. ASSUME NEW r \in Runs, AbortBundle(r) PROVE Rest'
    <2>1. fd[r] = r
      BY <1>5 DEF AbortBundle, Writing
    <2>2. OneWriterPerFile'
      BY <1>5, <2>1 DEF AbortBundle, OneWriterPerFile, Files, data
    <2>3. OwnFile' /\ PartialAccounted'
      BY <1>5, <2>1 DEF AbortBundle, RemovePartial, Files, Writing, Parts
    <2>4. QED
      BY <2>2, <2>3
  <1>6. ASSUME NEW r \in Runs, SyncPartial(r) PROVE Rest'
    BY <1>6 DEF SyncPartial, OneWriterPerFile, entries, history, Writing, Parts
  <1>7. ASSUME NEW r \in Runs, ClosePartial(r) PROVE Rest'
    BY <1>7 DEF ClosePartial, OneWriterPerFile, entries, data, history, Writing, Parts
  <1>8. ASSUME NEW r \in Runs, RenamePartial(r) PROVE Rest'
    BY <1>8 DEF RenamePartial, RemovePartial, OneWriterPerFile, data, history, Files,
                Writing, Parts
  <1>9. ASSUME NEW r \in Runs, Kill(r) PROVE Rest'
    BY <1>9 DEF Kill, OneWriterPerFile, entries, data, history, Writing, Parts
  <1>10. CASE PowerLoss
    <2>1. OneWriterPerFile'
      BY <1>10 DEF PowerLoss, OneWriterPerFile, Files
    <2>2. OwnFile' /\ PartialAccounted'
      BY <1>10 DEF PowerLoss, Active, Steps, entries, history, Writing, Parts
    <2>3. QED
      BY <1>t, <2>1, <2>2
  <1>11. CASE AllEnded \/ UNCHANGED vars
    BY <1>t, <1>11 DEF AllEnded, vars, entries, data, history, OneWriterPerFile
  <1>12. QED
    BY <1>t, <1>1, <1>2, <1>3, <1>4, <1>5, <1>6, <1>7, <1>8, <1>9, <1>10,
       <1>11 DEF Next, Step

LEMMA SharedInvariant == Spec => []SharedInv
  BY InitShared, SharedStep, PTL DEF Spec

(* The values of the variables are what the code can put there.            *)
THEOREM TypeCorrect == Spec => []TypeOK
  <1>1. SharedInv => TypeOK
    BY DEF SharedInv
  <1>2. QED
    BY <1>1, SharedInvariant, PTL

(* No file mixes two invocations, however they overlap, are killed or lose *)
(* power: CreateBundle removes OUTPUT.partial and creates it with O_EXCL.  *)
THEOREM NoMixedBundle == Spec => []OneWriterPerFile
  <1>1. SharedInv => OneWriterPerFile
    BY DEF SharedInv
  <1>2. QED
    BY <1>1, SharedInvariant, PTL

(* Every way out of CreateBundle renames the entry it made or tries to     *)
(* remove it: an OUTPUT.partial nobody is at work on is from an invocation *)
(* that was killed, or that failed and could not remove it, and none that  *)
(* came past the rename leaves one.                                        *)
THEOREM CleanExit == Spec => []NoPartialLeftBehind
  <1>1. SharedInv => NoPartialLeftBehind
    BY PCFacts DEF SharedInv, PartialAccounted, NoPartialLeftBehind, Active,
                   Steps, Writing, Parts
  <1>2. QED
    BY <1>1, SharedInvariant, PTL
-----------------------------------------------------------------------------
(* Invocations that do not overlap: OUTPUT holds a whole bundle at every   *)
(* moment, none of them a stale OUTPUT.partial, a bundle goes away only    *)
(* with consent, and the file handling implements the slot of BundleSlot.  *)

(* The parts in a file when its writer is about to write the given one.    *)
Earlier ==
  [manifest   |-> {},
   template   |-> {"manifest"},
   imageEntry |-> {"manifest", "template"},
   imageData  |-> {"manifest", "template", "imageEntry"},
   directory  |-> {"manifest", "template", "imageEntry", "imageData"}]

(* The steps between finding OUTPUT free and renaming onto it.             *)
BeforeRename == {"convert", "clear", "open", "rename"} \union Writing

(* At most one invocation is running.                                      *)
Exclusive == \A q, r \in Runs : Active(q) /\ Active(r) => q = r

(* How far an invocation has come says what its file holds, and when it is *)
(* safe on disk.                                                           *)
Progress ==
  \A r \in Runs :
    /\ pc[r] \in {"idle", "stat", "withdraw", "convert", "clear", "open"}
         => content[r] = {}
    /\ pc[r] \in Parts => content[r] = {r} \X Earlier[pc[r]]
    /\ pc[r] \in {"sync", "close", "rename", "validate", "report", "done"}
         => Whole(r)
    /\ pc[r] \in {"close", "rename", "validate", "report", "done"}
         => r \in synced

(* The entry OUTPUT.partial, seen by the invocation that is running: from  *)
(* the open to the rename it is its own.  Before, it may be a stale one.   *)
PartialOwned ==
  \A r \in Runs : pc[r] \in Writing \union {"rename"} => partial = r

(* The entry OUTPUT: free from the check until the rename, the new bundle  *)
(* after it, and never a file that is still being written.                 *)
OutputOwned ==
  \A r \in Runs :
    /\ pc[r] \in BeforeRename => output = NoFile
    /\ pc[r] \in {"validate", "report"} => output = r
    /\ output = r => pc[r] \in {"validate", "report"} \union Ended

(* What is at OUTPUT is complete and on stable storage.                    *)
OutputSafe == output # NoFile => Whole(output) /\ output \in synced

(* The --overwrite flag is read when the invocation starts, and OUTPUT is  *)
(* removed only under it.                                                  *)
Consent ==
  \A r \in Runs :
    /\ pc[r] = "idle" => ~overwrite[r]
    /\ pc[r] = "withdraw" => overwrite[r]

(* The invariant that is inductive when invocations do not overlap.        *)
SeqInv ==
  /\ SharedInv
  /\ Exclusive
  /\ Progress
  /\ PartialOwned
  /\ OutputOwned
  /\ OutputSafe
  /\ Consent

(* Everything in SeqInv that the shared part does not already prove.       *)
Rest ==
  Exclusive /\ Progress /\ PartialOwned /\ OutputOwned /\ OutputSafe /\ Consent

LEMMA InitSequential == Init => SeqInv
  <1> SUFFICES ASSUME Init PROVE SeqInv
    OBVIOUS
  <1> USE PublicationAssumption DEF Init
  <1>1. SharedInv
    BY InitShared
  <1>2. Exclusive
    BY DEF Exclusive, Active, Steps, Parts
  <1>3. Progress
    BY DEF Progress, Files, Parts
  <1>4. PartialOwned /\ OutputOwned /\ Consent
    BY DEF PartialOwned, OutputOwned, Consent, BeforeRename, Writing, Parts
  <1>5. OutputSafe
    BY DEF OutputSafe, Whole, Files
  <1>6. QED
    BY <1>1, <1>2, <1>3, <1>4, <1>5 DEF SeqInv

(* While one invocation runs, every other one is waiting or has ended.     *)
LEMMA OthersAtRest ==
  ASSUME TypeOK, Exclusive, NEW r \in Runs, Active(r)
  PROVE  \A q \in Runs \ {r} : pc[q] \in Ended \union {"idle"}
  BY DEF TypeOK, PCs, Exclusive, Active

LEMMA SequentialStep ==
  ASSUME ~Overlap
  PROVE  SeqInv /\ [Next]_vars => SeqInv'
  <1> SUFFICES ASSUME SeqInv, [Next]_vars PROVE SeqInv'
    OBVIOUS
  <1>s. SharedInv'
    BY SharedStep DEF SeqInv
  <1> USE PublicationAssumption, PCFacts
      DEF SeqInv, SharedInv, TypeOK, OwnFile, Goto, GiveUp, Rest
  <1> USE DEF Exclusive, PartialOwned, OutputOwned, OutputSafe, Consent, Progress
  <1> USE DEF Active, BeforeRename, Writing, Steps, Ended, PCs, Files
  <1>1. ASSUME NEW r \in Runs, Start(r) PROVE Rest'
    BY <1>1 DEF Start, entries, data, history, Whole, Parts
  <1>2. ASSUME NEW r \in Runs, CheckOutput(r) PROVE Rest'
    BY <1>2, OthersAtRest DEF CheckOutput, entries, data, history, Whole, Parts
  <1>3. ASSUME NEW r \in Runs, WithdrawOutput(r) PROVE Rest'
    BY <1>3, OthersAtRest DEF WithdrawOutput, entries, data, history, Whole, Parts
  <1>4. ASSUME NEW r \in Runs, Convert(r) PROVE Rest'
    BY <1>4, OthersAtRest DEF Convert, entries, data, history, Whole, Parts
  <1>5. ASSUME NEW r \in Runs, ClearPartial(r) PROVE Rest'
    BY <1>5, OthersAtRest DEF ClearPartial, RemovePartial, entries, data, history, Whole, Parts
  <1>6. ASSUME NEW r \in Runs, OpenPartial(r) PROVE Rest'
    <2>1. \A q \in Runs \ {r} : pc[q] \in Ended \union {"idle"}
      BY <1>6, OthersAtRest DEF OpenPartial
    <2>2. (Exclusive /\ PartialOwned /\ OutputOwned /\ OutputSafe /\ Consent)'
      BY <1>6, <2>1 DEF OpenPartial, entries, data, history, Whole, Parts
    <2>3. CASE pc'[r] = "manifest"
      <3>1. content' = content /\ synced' = synced /\ content[r] = {}
        BY <1>6 DEF OpenPartial, data
      <3>2. {r} \X Earlier["manifest"] = {}
        BY DEF Earlier
      <3>3. \A q \in Runs \ {r} : pc'[q] = pc[q]
        BY <1>6 DEF OpenPartial
      <3>4. Progress'
        BY <2>3, <3>1, <3>2, <3>3 DEF Whole
      <3>5. QED
        BY <2>2, <3>4
    <2>4. CASE pc'[r] # "manifest"
      BY <1>6, <2>2, <2>4 DEF OpenPartial, entries, data, history, Whole, Parts
    <2>5. QED
      BY <2>3, <2>4
  <1>7. ASSUME NEW r \in Runs, WritePart(r) PROVE Rest'
    <2>1. \A q \in Runs \ {r} : pc[q] \in Ended \union {"idle"} /\ pc'[q] = pc[q]
      BY <1>7, OthersAtRest DEF WritePart
    <2>2. /\ fd[r] = r
          /\ content' = [content EXCEPT ![r] = @ \union {<<r, pc[r]>>}]
          /\ synced' = synced \ {r}
          /\ pc' = [pc EXCEPT ![r] = AfterPart[pc[r]]]
          /\ UNCHANGED <<output, partial, overwrite>>
      BY <1>7 DEF WritePart, entries
    <2>3. output = NoFile /\ pc[r] \in Parts
      BY <1>7 DEF WritePart
    <2>4. pc'[r] \in Writing \ {"close", "manifest"}
      BY <2>2, <2>3 DEF AfterPart, Parts
    <2>5. (Exclusive /\ PartialOwned /\ OutputOwned /\ OutputSafe /\ Consent)'
      BY <2>1, <2>2, <2>3, <2>4 DEF Parts
    <2>6. content'[r] = IF pc'[r] = "sync" THEN {r} \X Parts
                                          ELSE {r} \X Earlier[pc'[r]]
      <3>1. content'[r] = {r} \X (Earlier[pc[r]] \union {pc[r]})
        BY <2>2, <2>3
      <3>2. Earlier[pc[r]] \union {pc[r]}
              = IF AfterPart[pc[r]] = "sync" THEN Parts ELSE Earlier[AfterPart[pc[r]]]
        BY <2>3 DEF Earlier, AfterPart, Parts
      <3>3. QED
        BY <2>2, <3>1, <3>2
    <2>7. Progress'
      <3>1. ASSUME NEW q \in Runs \ {r}
            PROVE  content'[q] = content[q] /\ (q \in synced' <=> q \in synced)
        BY <2>2
      <3>2. QED
        BY <2>1, <2>4, <2>6, <3>1 DEF Whole, Parts
    <2>8. QED
      BY <2>5, <2>7
  <1>8. ASSUME NEW r \in Runs, AbortBundle(r) PROVE Rest'
    BY <1>8, OthersAtRest DEF AbortBundle, RemovePartial, entries, data, history, Whole, Parts
  <1>9. ASSUME NEW r \in Runs, SyncPartial(r) PROVE Rest'
    BY <1>9, OthersAtRest DEF SyncPartial, entries, data, history, Whole, Parts
  <1>10. ASSUME NEW r \in Runs, ClosePartial(r) PROVE Rest'
    BY <1>10, OthersAtRest DEF ClosePartial, entries, data, history, Whole, Parts
  <1>11. ASSUME NEW r \in Runs, RenamePartial(r) PROVE Rest'
    BY <1>11, OthersAtRest DEF RenamePartial, RemovePartial, entries, data, history, Whole, Parts
  <1>12. ASSUME NEW r \in Runs, ValidateOutput(r) PROVE Rest'
    BY <1>12, OthersAtRest DEF ValidateOutput, entries, data, history, Whole, Parts
  <1>13. ASSUME NEW r \in Runs, WriteReport(r) PROVE Rest'
    BY <1>13, OthersAtRest DEF WriteReport, entries, data, history, Whole, Parts
  <1>14. ASSUME NEW r \in Runs, Kill(r) PROVE Rest'
    BY <1>14, OthersAtRest DEF Kill, entries, data, history, Whole, Parts
  <1>15. ASSUME PowerLoss PROVE Rest'
    BY <1>15 DEF PowerLoss, entries, data, history, Whole, Parts
  <1>16. ASSUME AllEnded \/ UNCHANGED vars PROVE Rest'
    BY <1>16 DEF AllEnded, vars, entries, data, history, Whole, Parts
  <1>17. QED
    BY <1>s, <1>1, <1>2, <1>3, <1>4, <1>5, <1>6, <1>7, <1>8, <1>9, <1>10,
       <1>11, <1>12, <1>13, <1>14, <1>15, <1>16 DEF Next, Step

LEMMA SequentialInvariant ==
  ASSUME ~Overlap
  PROVE  Spec => []SeqInv
  BY InitSequential, SequentialStep, PTL DEF Spec

(* Whatever is at OUTPUT is a whole bundle, at every moment and whatever   *)
(* is killed: complete and synced before the rename in CreateBundle.       *)
THEOREM OutputAlwaysWhole ==
  ASSUME ~Overlap
  PROVE  Spec => []OutputWhole
  <1>1. SeqInv => OutputWhole
    BY DEF SeqInv, OutputSafe, OutputWhole
  <1>2. QED
    BY <1>1, SequentialInvariant, PTL

(* Whatever OUTPUT.partial an earlier invocation left, and whether or not  *)
(* it could be removed, only the file of the invocation that renames it    *)
(* gets to OUTPUT.                                                         *)
THEOREM StaleNeverPublished ==
  ASSUME ~Overlap
  PROVE  Spec => NothingStalePublished
  <1>1. SeqInv /\ [Next]_vars =>
          [\A r \in Runs : (output' = r /\ output # r) =>
                              pc[r] = "rename" /\ pc'[r] = "validate"]_vars
    <2> SUFFICES ASSUME SeqInv, [Next]_vars, NEW r \in Runs,
                        output' = r, output # r
                 PROVE  pc[r] = "rename" /\ pc'[r] = "validate"
      OBVIOUS
    <2> USE PublicationAssumption DEF SeqInv, SharedInv, TypeOK
    <2>1. PICK q \in Runs : RenamePartial(q) \/ WithdrawOutput(q)
      BY DEF Next, Step, Start, CheckOutput, Convert, ClearPartial, OpenPartial,
             WritePart, AbortBundle, SyncPartial, ClosePartial, ValidateOutput,
             WriteReport, Kill, PowerLoss, AllEnded, GiveUp, Goto, entries, vars
    <2>2. RenamePartial(q)
      BY <2>1 DEF WithdrawOutput, GiveUp, entries
    <2>3. partial = q
      BY <2>2 DEF RenamePartial, PartialOwned
    <2>4. output' = partial /\ pc[q] = "rename" /\ pc'[q] = "validate"
      BY <2>2 DEF RenamePartial, Goto
    <2>5. QED
      BY <2>3, <2>4
  <1>2. QED
    BY <1>1, SequentialInvariant, PTL DEF Spec, NothingStalePublished

(* Only an invocation that was given --overwrite takes a bundle away, and  *)
(* only in front of its conversion.                                        *)
THEOREM ReplacementNeedsConsent ==
  ASSUME ~Overlap
  PROVE  Spec => NoReplacementWithoutConsent
  <1>1. SeqInv /\ [Next]_vars =>
          [(output # NoFile /\ output' # output) =>
             \E r \in Runs : overwrite[r] /\ pc[r] = "withdraw"]_vars
    <2> SUFFICES ASSUME SeqInv, [Next]_vars, output # NoFile, output' # output
                 PROVE  \E r \in Runs : overwrite[r] /\ pc[r] = "withdraw"
      OBVIOUS
    <2>1. ASSUME NEW r \in Runs, RenamePartial(r) PROVE FALSE
      BY <2>1 DEF RenamePartial, SeqInv, OutputOwned, BeforeRename
    <2>2. PICK r \in Runs : WithdrawOutput(r)
      BY <2>1 DEF Next, Step, Start, CheckOutput, Convert, ClearPartial,
                  OpenPartial, WritePart, AbortBundle, SyncPartial, ClosePartial,
                  ValidateOutput, WriteReport, Kill, PowerLoss, AllEnded, GiveUp,
                  Goto, entries, vars
    <2>3. QED
      BY <2>2 DEF WithdrawOutput, SeqInv, Consent
  <1>2. QED
    BY <1>1, SequentialInvariant, PTL DEF Spec, NoReplacementWithoutConsent
(* An invocation that reports success left its own whole bundle at OUTPUT. *)
THEOREM SuccessMeansOwnBundle ==
  ASSUME ~Overlap
  PROVE  Spec => SuccessIsOwnBundle
  <1>1. SeqInv /\ [Next]_vars =>
          [\A r \in Runs : (pc[r] # "done" /\ pc'[r] = "done") =>
                              output = r /\ Whole(r)]_vars
    <2> SUFFICES ASSUME SeqInv, [Next]_vars, NEW r \in Runs,
                        pc[r] # "done", pc'[r] = "done"
                 PROVE  output = r /\ Whole(r)
      OBVIOUS
    <2> USE DEF SeqInv, SharedInv, TypeOK, Goto, GiveUp
    <2>1. WriteReport(r)
      BY PCFacts DEF Next, Step, Start, CheckOutput, WithdrawOutput, Convert,
                  ClearPartial, OpenPartial, WritePart, AbortBundle, SyncPartial,
                  ClosePartial, RenamePartial, ValidateOutput, WriteReport, Kill,
                  PowerLoss, AllEnded, vars, Writing, Parts
    <2>2. pc[r] = "report"
      BY <2>1 DEF WriteReport
    <2>3. QED
      BY <2>2 DEF OutputOwned, Progress
  <1>2. QED
    BY <1>1, SequentialInvariant, PTL DEF Spec, SuccessIsOwnBundle
-----------------------------------------------------------------------------
(* The slot of BundleSlot, as the files show it.                           *)
shownSlot    == IF output # NoFile /\ ~Whole(output) THEN "torn" ELSE output
shownConsent == {r \in Runs : overwrite[r]}

LEMMA RefinedInit == Init => Slot!Init
  <1> SUFFICES ASSUME Init PROVE Slot!Init
    OBVIOUS
  <1>1. output # NoFile => Whole(output)
    BY PublicationAssumption DEF Init, Whole, Files
  <1>2. shownSlot \in {NoFile, Prior} /\ shownConsent = {}
    BY <1>1 DEF Init, shownSlot, shownConsent
  <1>3. QED
    BY <1>2 DEF Slot!Init, shownSlot, shownConsent

(* WithdrawOutput withdraws, RenamePartial publishes, a start with         *)
(* --overwrite allows; nothing else shows.                                 *)
LEMMA RefinedStep ==
  SeqInv /\ SeqInv' /\ [Next]_vars => [Slot!Next]_<<shownSlot, shownConsent>>
  <1> SUFFICES ASSUME SeqInv, SeqInv', [Next]_vars
               PROVE  \/ Slot!Next
                      \/ shownSlot' = shownSlot /\ shownConsent' = shownConsent
    OBVIOUS
  <1> USE PublicationAssumption DEF SeqInv, SharedInv, TypeOK
  <1>1. shownSlot = output /\ shownSlot' = output'
    BY DEF shownSlot, OutputSafe
  <1>2. ASSUME NEW r \in Runs, Start(r)
        PROVE  \/ Slot!Allow(r)
               \/ shownSlot' = shownSlot /\ shownConsent' = shownConsent
    <2>1. output' = output /\ shownConsent' \in {shownConsent, shownConsent \union {r}}
      BY <1>2 DEF Start, Consent, entries, shownConsent
    <2>2. QED
      BY <1>1, <2>1 DEF Slot!Allow, shownSlot, shownConsent
  <1>3. ASSUME NEW r \in Runs, WithdrawOutput(r)
        PROVE  \/ Slot!Withdraw(r)
               \/ shownSlot' = shownSlot /\ shownConsent' = shownConsent
    <2>1. shownConsent' = shownConsent
      BY <1>3 DEF WithdrawOutput, GiveUp, shownConsent
    <2>2. r \in shownConsent
      BY <1>3 DEF WithdrawOutput, Consent, shownConsent
    <2>3. CASE output' = output
      BY <1>1, <2>1, <2>3
    <2>4. CASE output # NoFile /\ output' = NoFile
      BY <1>1, <2>1, <2>2, <2>4 DEF Slot!Withdraw, shownSlot, shownConsent
    <2>5. QED
      BY <1>3, <2>3, <2>4 DEF WithdrawOutput, GiveUp, entries
  <1>4. ASSUME NEW r \in Runs, RenamePartial(r)
        PROVE  \/ Slot!Publish(r)
               \/ shownSlot' = shownSlot /\ shownConsent' = shownConsent
    <2>1. shownConsent' = shownConsent
      BY <1>4 DEF RenamePartial, shownConsent
    <2>2. output = NoFile /\ partial = r
      BY <1>4 DEF RenamePartial, OutputOwned, PartialOwned, BeforeRename
    <2>3. output' = r \/ output' = output
      BY <1>4, <2>2 DEF RenamePartial
    <2>4. QED
      BY <1>1, <2>1, <2>2, <2>3 DEF Slot!Publish, shownSlot, shownConsent
  <1>5. ASSUME NEW r \in Runs,
               \/ CheckOutput(r) \/ Convert(r) \/ ClearPartial(r)
               \/ OpenPartial(r) \/ WritePart(r) \/ AbortBundle(r)
               \/ SyncPartial(r) \/ ClosePartial(r) \/ ValidateOutput(r)
               \/ WriteReport(r) \/ Kill(r)
        PROVE  shownSlot' = shownSlot /\ shownConsent' = shownConsent
    <2>1. output' = output /\ overwrite' = overwrite
      BY <1>5 DEF CheckOutput, Convert, ClearPartial, OpenPartial, WritePart,
                  AbortBundle, SyncPartial, ClosePartial, ValidateOutput,
                  WriteReport, Kill, GiveUp, entries
    <2>2. QED
      BY <1>1, <2>1 DEF shownConsent
  <1>6. CASE PowerLoss \/ AllEnded \/ UNCHANGED vars
    BY <1>1, <1>6 DEF PowerLoss, AllEnded, vars, entries, shownConsent
  <1>7. QED
    BY <1>2, <1>3, <1>4, <1>5, <1>6 DEF Next, Step, Slot!Next

(* Without overlap, all the file handling of Run and CreateBundle amounts  *)
(* to an atomic slot for whole bundles.                                    *)
THEOREM PublicationImplementsSlot ==
  ASSUME ~Overlap
  PROVE  Spec => ImplementsSlot
  <1>1. []SeqInv /\ [][Next]_vars => [][Slot!Next]_<<shownSlot, shownConsent>>
    BY RefinedStep, PTL
  <1>2. QED
    BY <1>1, RefinedInit, SequentialInvariant, PTL
       DEF Spec, ImplementsSlot, Slot!Spec, shownSlot, shownConsent
=============================================================================
