---------------------------- MODULE NaturalOrder ----------------------------
(***************************************************************************)
(* NaturalLess, by which disks and descriptors are ordered.  A string is   *)
(* its runs of digits and of other characters, in turn.  A run has a text, *)
(* of which only the place among all texts matters, and a run of digits    *)
(* that an int can hold has a value.                                       *)
(***************************************************************************)
EXTENDS Integers, Sequences

CONSTANTS Runs,    \* the runs that strings are made of
          MaxRuns  \* bound on the runs of the strings TLC compares

NotANumber == -1  \* strconv.Atoi fails

Run == [digits : BOOLEAN, text : Nat, value : Nat \union {NotANumber}]

(* Only digits are a number, and the first character of any other text     *)
(* puts it before all texts of digits, or after them.                      *)
ASSUME NaturalOrderAssumption ==
  /\ Runs \subseteq Run /\ MaxRuns \in Nat
  /\ \A r \in Runs : ~r.digits => r.value = NotANumber
  /\ \A o, r, t \in Runs : ~o.digits /\ r.digits /\ t.digits =>
       o.text # r.text /\ (o.text < r.text <=> o.text < t.text)

Numbers(r, t) == r.value # NotANumber /\ t.value # NotANumber

(* Mutant: a number and a text are passed over, and not compared.          *)
DiffersInKind(r, t) ==
  IF Numbers(r, t) THEN r.value # t.value
  ELSE r.digits = t.digits /\ r.text # t.text

(* The loop of NaturalLess ends at such a pair of runs.                    *)
Differs(r, t) == IF Numbers(r, t) THEN r.value # t.value ELSE r.text # t.text

NaturalLess(a, b) ==
  LET both    == DOMAIN a \intersect DOMAIN b
      differs == {i \in both : Differs(a[i], b[i])}
  IN  IF differs = {} THEN Len(a) < Len(b)
      ELSE \E i \in differs :
             /\ \A j \in differs : i <= j
             /\ IF Numbers(a[i], b[i]) THEN a[i].value < b[i].value
                                       ELSE a[i].text < b[i].text
-----------------------------------------------------------------------------
Strings ==
  {s \in UNION {[1..n -> Runs] : n \in 0..MaxRuns} :
     \A k \in 1..(Len(s) - 1) : s[k].digits # s[k + 1].digits}

(* An int can hold every number in the string.                             *)
FitsInt(s) == \A k \in DOMAIN s : s[k].digits => s[k].value # NotANumber

(* What sort.Slice asks of an order.                                       *)
StrictWeakOn(S) ==
  /\ \A s \in S : ~NaturalLess(s, s)
  /\ \A s, t \in S : NaturalLess(s, t) =>
       \A u \in S :
         /\ NaturalLess(t, u) => NaturalLess(s, u)
         \* no third string is equal to two of which one is less
         /\ NaturalLess(s, u) \/ NaturalLess(u, t)

NamesOrdered == StrictWeakOn({s \in Strings : FitsInt(s)})
=============================================================================
