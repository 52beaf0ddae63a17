------------------------------ MODULE DiskNames ------------------------------
(***************************************************************************)
(* The letters that tell the disks of one bus apart: a, b, ..., z, aa, ab, *)
(* ...  A letter is a number from 0 to 25 here, a suffix a sequence.       *)
(***************************************************************************)
EXTENDS Integers, Sequences

CONSTANT MaxIndex  \* the last index whose suffix is compared with the next

ASSUME DiskNamesAssumption == MaxIndex \in Nat

Letters == 26

(* Mutant: the remainder of the value, not of its predecessor.             *)
lettersBase26[value \in Nat] ==
  IF value = 0 THEN <<>>
  ELSE Append(lettersBase26[value \div Letters], value % Letters)

(* The loop of alphaSuffix: what is left of the value yields the letters   *)
(* in front.                                                               *)
letters[value \in Nat] ==
  IF value = 0 THEN <<>>
  ELSE Append(letters[(value - 1) \div Letters], (value - 1) % Letters)

alphaSuffixBase26(index) == lettersBase26[IF index < 0 THEN 1 ELSE index + 1]

alphaSuffix(index) == letters[IF index < 0 THEN 1 ELSE index + 1]
-----------------------------------------------------------------------------
(* t comes after s when one counts in letters: the last letter that is not *)
(* z goes up and all after it become a; if there is none, there is one     *)
(* letter more.                                                            *)
Follows(t, s) ==
  \/ /\ \A k \in DOMAIN s : s[k] = Letters - 1
     /\ t = [k \in 1..(Len(s) + 1) |-> 0]
  \/ \E k \in DOMAIN s :
       /\ s[k] < Letters - 1
       /\ \A j \in DOMAIN s : j > k => s[j] = Letters - 1
       /\ t = [j \in DOMAIN s |-> IF j < k THEN s[j] ELSE IF j = k THEN s[k] + 1 ELSE 0]

(* Consecutive indices have consecutive suffixes, shorter ones first.      *)
SuffixesCount ==
  \A index \in 0..MaxIndex : Follows(alphaSuffix(index + 1), alphaSuffix(index))
=============================================================================
