----------------------------- MODULE BundleSlot -----------------------------
(***************************************************************************)
(* What stratum-migrate promises about an output path when invocations do  *)
(* not overlap: the path is empty or holds one whole bundle.  A bundle     *)
(* appears at once, only where there is none, and disappears only at the   *)
(* hands of an invocation that was allowed to replace it.  Crashes, power  *)
(* losses and failed conversions are not visible here, except that they    *)
(* may keep a bundle from appearing.                                       *)
(***************************************************************************)
CONSTANTS Runs,   \* the invocations
          Prior,  \* the bundle that may be there at the start
          Empty   \* no bundle

VARIABLES slot,    \* the bundle at the path, or Empty
          consent  \* the invocations that may replace a bundle

Init ==
  /\ slot \in {Empty, Prior}
  /\ consent = {}

Allow(r) ==
  /\ consent' = consent \union {r}
  /\ UNCHANGED slot

Withdraw(r) ==
  /\ r \in consent
  /\ slot # Empty
  /\ slot' = Empty
  /\ UNCHANGED consent

Publish(r) ==
  /\ slot = Empty
  /\ slot' = r
  /\ UNCHANGED consent

Next == \E r \in Runs : Allow(r) \/ Withdraw(r) \/ Publish(r)

Spec == Init /\ [][Next]_<<slot, consent>>
=============================================================================
