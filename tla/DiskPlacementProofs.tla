------------------------ MODULE DiskPlacementProofs ------------------------
(***************************************************************************)
(* Theorems about DiskPlacement for any number of disks on any buses.      *)
(***************************************************************************)
EXTENDS DiskPlacement, SequenceTheorems, WellFoundedInduction, TLAPS

(* The bus a disk is to have in the end.                                   *)
runtimeBus(d) ==
  ChooseRuntimeBus(sourceBus(d), request.policy,
                   ChooseConversionOutputBus(sourceBus(d), request.policy, backendBus[d]),
                   request.engine)

convertedBus(d) ==
  ChooseConversionOutputBus(sourceBus(d), request.policy, backendBus[d])

(* The first n disks have slots of their own, and the counts say how many  *)
(* of each bus are taken.                                                  *)
Counting(f, counts, n) ==
  /\ \A d \in 1..n : f[d] \in Slots
  /\ \A d, e \in 1..n : f[d] = f[e] => d = e
  /\ \A d \in 1..n : f[d].index < counts[f[d].bus]
  /\ \A bus \in Buses : counts[bus] <= n

(* The first n disks have slots in order, and none is skipped.             *)
InOrder(f, n) ==
  \A d \in 1..n :
    /\ \A e \in 1..(d - 1) : f[e].bus = f[d].bus => f[e].index < f[d].index
    /\ \A i \in 0..(f[d].index - 1) :
         \E e \in 1..(d - 1) : f[e].bus = f[d].bus /\ f[e].index = i

(* Every slot below the count is taken.                                    *)
Filled(f, counts, n) ==
  \A bus \in Buses : \A i \in 0..(counts[bus] - 1) :
    \E d \in 1..n : f[d].bus = bus /\ f[d].index = i

(* All disks have slots of their own.                                      *)
Named(f) ==
  /\ \A d \in Disks : f[d] \in Slots
  /\ \A d, e \in Disks : f[d] = f[e] => d = e

(* Where every disk is, loop by loop.                                      *)
Converting ==
  pc = "convert" =>
    /\ Counting(result, busCounts, disk - 1)
    /\ \A d \in 1..(disk - 1) : result[d].bus = convertedBus(d)
    /\ \A d \in Disks : at[d] = IF d < disk THEN Filename(result[d]) ELSE Source(d)

Planning ==
  pc = "plan" =>
    /\ Named(result)
    /\ \A d \in Disks : result[d].bus = convertedBus(d)
    /\ \A d \in Disks : at[d] = Filename(result[d])
    /\ Counting(plans, busCounts, disk - 1)
    /\ InOrder(plans, disk - 1)
    /\ Filled(plans, busCounts, disk - 1)
    /\ \A d \in 1..(disk - 1) : plans[d].bus = runtimeBus(d)

Planned ==
  /\ Named(plans)
  /\ InOrder(plans, NumDisks)
  /\ \A d \in Disks : plans[d].bus = runtimeBus(d)

Parking ==
  pc = "park" =>
    /\ Planned
    /\ Named(result)
    /\ \A d \in Disks : at[d] = IF d < disk THEN Temp(d) ELSE Filename(result[d])

Settling ==
  pc = "settle" =>
    /\ Planned
    /\ \A d \in Disks : at[d] = IF d < disk THEN Filename(plans[d]) ELSE Temp(d)
    /\ \A d \in 1..(disk - 1) : result[d] = plans[d]

Settled ==
  pc = "done" =>
    /\ Planned
    /\ result = plans
    /\ \A d \in Disks : at[d] = Filename(plans[d])

PlacementInv ==
  TypeOK /\ Converting /\ Planning /\ Parking /\ Settling /\ Settled /\ NothingLost
-----------------------------------------------------------------------------
(* The suffixes of DiskNames.  The function is recursive, and an induction *)
(* over its argument takes here the form of a least counterexample.        *)

LEMMA LeastNatural ==
  ASSUME NEW S \in SUBSET Nat, S # {}
  PROVE  \E n \in S : \A m \in S : n <= m
<1> DEFINE Less == {p \in Nat \X Nat : p[1] < p[2]}
<1>1. IsWellFoundedOn(Less, Nat)
  BY NatLessThanWellFounded DEF OpToRel
<1>2. PICK n \in S : \A m \in S : <<m, n>> \notin Less
  <2> HIDE DEF Less
  <2> QED BY <1>1, WFMin
<1>3. ASSUME NEW m \in S PROVE n <= m
  <2>1. <<m, n>> \in Nat \X Nat /\ <<m, n>>[1] = m /\ <<m, n>>[2] = n
    OBVIOUS
  <2>2. ~(m < n)
    BY <1>2, <2>1
  <2> QED BY <2>2
<1> QED BY <1>3

(* What the definition of letters says of one value.                       *)
Equation(f, value) ==
  f[value] = IF value = 0 THEN <<>>
             ELSE Append(f[(value - 1) \div Letters], (value - 1) % Letters)

(* A function that does what letters does as far as n.                     *)
UpTo(f, n) == DOMAIN f = 0..n /\ \A value \in 0..n : Equation(f, value)

LEMMA Quotient ==
  ASSUME NEW value \in Nat, value # 0
  PROVE  /\ (value - 1) \div Letters \in 0..(value - 1)
         /\ (value - 1) % Letters \in 0..(Letters - 1)
         /\ value - 1 = (Letters * ((value - 1) \div Letters)) + ((value - 1) % Letters)
  BY DEF Letters

LEMMA Unique ==
  ASSUME NEW f, NEW g, NEW n \in Nat, NEW m \in Nat, UpTo(f, n), UpTo(g, m)
  PROVE  \A value \in 0..n : value <= m => f[value] = g[value]
<1> DEFINE Bad == {value \in 0..n : value <= m /\ f[value] # g[value]}
<1>1. SUFFICES ASSUME Bad # {} PROVE FALSE
  OBVIOUS
<1>2. PICK value \in Bad : \A w \in Bad : value <= w
  <2>1. Bad \in SUBSET Nat
    OBVIOUS
  <2> HIDE DEF Bad
  <2> QED BY <1>1, <2>1, LeastNatural
<1>3. CASE value = 0
  BY <1>2, <1>3 DEF UpTo, Equation
<1>4. CASE value # 0
  <2> DEFINE before == (value - 1) \div Letters
  <2>1. before \in 0..(value - 1)
    BY <1>2, <1>4, Quotient
  <2>2. before \notin Bad
    <3> HIDE DEF before, Bad
    <3>1. value \in Nat
      BY <1>2 DEF Bad
    <3> QED BY <1>2, <2>1, <3>1
  <2>3. f[before] = g[before]
    <3> HIDE DEF before
    <3> QED BY <1>2, <2>1, <2>2
  <2>4. Equation(f, value) /\ Equation(g, value)
    BY <1>2 DEF UpTo
  <2>5. f[value] = Append(f[before], (value - 1) % Letters)
    BY <1>4, <2>4 DEF Equation
  <2>6. g[value] = Append(g[before], (value - 1) % Letters)
    BY <1>4, <2>4 DEF Equation
  <2>7. f[value] = g[value]
    <3> HIDE DEF before
    <3> QED BY <2>3, <2>5, <2>6
  <2> QED BY <1>2, <2>7
<1> QED BY <1>3, <1>4

LEMMA Exists == \A n \in Nat : \E f : UpTo(f, n)
<1> DEFINE Bad == {n \in Nat : ~\E f : UpTo(f, n)}
<1>1. SUFFICES ASSUME Bad # {} PROVE FALSE
  OBVIOUS
<1>2. PICK n \in Bad : \A m \in Bad : n <= m
  <2> HIDE DEF Bad
  <2>1. Bad \in SUBSET Nat
    BY DEF Bad
  <2> QED BY <1>1, <2>1, LeastNatural
<1>3. n # 0
  <2>1. UpTo([value \in 0..0 |-> <<>>], 0)
    BY DEF UpTo, Equation
  <2> QED BY <1>2, <2>1
<1>4. PICK f : UpTo(f, n - 1)
  <2>1. n - 1 \in Nat /\ ~(n <= n - 1)
    BY <1>2, <1>3
  <2>2. n - 1 \notin Bad
    BY <1>2, <2>1
  <2> QED BY <2>1, <2>2
<1> DEFINE last == Append(f[(n - 1) \div Letters], (n - 1) % Letters)
           g == [value \in 0..n |-> IF value = n THEN last ELSE f[value]]
<1>5. UpTo(g, n)
  <2> SUFFICES ASSUME NEW value \in 0..n PROVE Equation(g, value)
    BY DEF UpTo
  <2>1. n \in Nat /\ value \in Nat
    BY <1>2
  <2>2. CASE value = n
    <3>1. (n - 1) \div Letters \in 0..(n - 1)
      BY <1>3, <2>1, Quotient
    <3>2. g[(n - 1) \div Letters] = f[(n - 1) \div Letters]
      <4> DEFINE q == (n - 1) \div Letters
      <4> HIDE DEF q
      <4> SUFFICES g[q] = f[q] BY DEF q
      <4>1. q \in 0..(n - 1)
        BY <3>1 DEF q
      <4>2. q \in 0..n /\ q # n
        BY <4>1, <2>1
      <4> QED BY <4>2
    <3>3. g[value] = last
      BY <2>2
    <3> QED BY <3>2, <3>3, <2>2, <1>3 DEF Equation
  <2>3. CASE value # n
    <3>1. value \in 0..(n - 1) /\ g[value] = f[value]
      BY <2>1, <2>3
    <3>2. Equation(f, value)
      BY <1>4, <3>1 DEF UpTo
    <3>3. value # 0 => /\ (value - 1) \div Letters \in 0..(value - 1)
                       /\ g[(value - 1) \div Letters] = f[(value - 1) \div Letters]
      <4> SUFFICES ASSUME value # 0
                   PROVE  /\ (value - 1) \div Letters \in 0..(value - 1)
                          /\ g[(value - 1) \div Letters] = f[(value - 1) \div Letters]
        OBVIOUS
      <4> DEFINE q == (value - 1) \div Letters
      <4>1. q \in 0..(value - 1)
        BY <2>1, Quotient
      <4> HIDE DEF q
      <4>2. q \in 0..n /\ q # n
        BY <4>1, <2>1
      <4>3. g[q] = f[q]
        BY <4>2
      <4> QED BY <4>1, <4>3 DEF q
    <3> QED BY <3>1, <3>2, <3>3 DEF Equation
  <2> QED BY <2>2, <2>3
<1> QED BY <1>2, <1>5

(* The definition of letters has a solution, so letters is one.            *)
LEMMA LettersOfValue == \A value \in Nat : Equation(letters, value)
<1> DEFINE prefix(n) == CHOOSE f : UpTo(f, n)
           all == [n \in Nat |-> prefix(n)[n]]
<1>1. ASSUME NEW n \in Nat PROVE UpTo(prefix(n), n)
  BY Exists
<1>2. ASSUME NEW n \in Nat, NEW m \in 0..n PROVE prefix(n)[m] = all[m]
  <2>1. m \in Nat /\ m \in 0..m /\ m <= n
    OBVIOUS
  <2>2. UpTo(prefix(n), n) /\ UpTo(prefix(m), m)
    BY <1>1, <2>1
  <2>3. prefix(m)[m] = prefix(n)[m]
    <3> HIDE DEF prefix
    <3> QED BY <2>1, <2>2, Unique
  <2> QED BY <2>1, <2>3
<1>3. ASSUME NEW n \in Nat PROVE Equation(all, n)
  <2> HIDE DEF prefix, all
  <2>1. Equation(prefix(n), n)
    BY <1>1 DEF UpTo
  <2>2. prefix(n)[n] = all[n]
    BY <1>2
  <2>3. n # 0 => prefix(n)[(n - 1) \div Letters] = all[(n - 1) \div Letters]
    <3> DEFINE q == (n - 1) \div Letters
    <3>1. n # 0 => q \in 0..(n - 1)
      BY Quotient
    <3> HIDE DEF q
    <3>2. n # 0 => q \in 0..n
      BY <3>1
    <3>3. n # 0 => prefix(n)[q] = all[q]
      BY <3>2, <1>2
    <3> QED BY <3>3 DEF q
  <2> QED BY <2>1, <2>2, <2>3 DEF Equation
<1>4. all = [value \in Nat |->
              IF value = 0 THEN <<>>
              ELSE Append(all[(value - 1) \div Letters], (value - 1) % Letters)]
  <2>1. all = [value \in Nat |-> all[value]]
    OBVIOUS
  <2> HIDE DEF all
  <2> QED BY <2>1, <1>3 DEF Equation
<1>5. letters = [value \in Nat |->
                  IF value = 0 THEN <<>>
                  ELSE Append(letters[(value - 1) \div Letters], (value - 1) % Letters)]
  <2> HIDE DEF all
  <2> QED BY <1>4 DEF letters
<1> QED
  <2> SUFFICES ASSUME NEW value \in Nat PROVE Equation(letters, value)
    OBVIOUS
  <2> QED BY <1>5 DEF Equation

LEMMA LettersZero == letters[0] = <<>>
  BY LettersOfValue, 0 \in Nat DEF Equation

LEMMA LettersAppend ==
  ASSUME NEW value \in Nat, value # 0
  PROVE  letters[value] = Append(letters[(value - 1) \div Letters], (value - 1) % Letters)
<1>1. Equation(letters, value)
  BY LettersOfValue
<1> QED BY <1>1 DEF Equation

LEMMA LettersInOrder == \A value \in Nat : letters[value] \in Seq(0..(Letters - 1))
<1> DEFINE Bad == {value \in Nat : letters[value] \notin Seq(0..(Letters - 1))}
<1>1. SUFFICES ASSUME Bad # {} PROVE FALSE
  OBVIOUS
<1>2. PICK value \in Bad : \A w \in Bad : value <= w
  <2> HIDE DEF Bad
  <2>1. Bad \in SUBSET Nat
    BY DEF Bad
  <2> QED BY <1>1, <2>1, LeastNatural
<1> DEFINE before == (value - 1) \div Letters
           digit  == (value - 1) % Letters
<1>3. value \in Nat /\ value # 0
  <2>1. <<>> \in Seq(0..(Letters - 1))
    OBVIOUS
  <2> QED BY <1>2, <2>1, LettersZero
<1>4. before \in 0..(value - 1) /\ digit \in 0..(Letters - 1)
  BY <1>3, Quotient
<1>5. letters[value] = Append(letters[before], digit)
  BY <1>3, LettersAppend
<1> HIDE DEF before, digit
<1>6. letters[before] \in Seq(0..(Letters - 1))
  <2>1. before \in Nat /\ ~(value <= before)
    BY <1>3, <1>4
  <2> QED BY <1>2, <2>1
<1>7. letters[value] \in Seq(0..(Letters - 1))
  <2> HIDE DEF Bad
  <2> QED BY <1>4, <1>5, <1>6, AppendProperties
<1> QED BY <1>2, <1>7

(* No two indices have the same suffix.                                    *)
LEMMA SuffixesDiffer ==
  \A i, j \in Nat : alphaSuffix(i) = alphaSuffix(j) => i = j
<1> DEFINE Bad == {v \in Nat : \E w \in Nat : w # v /\ letters[v] = letters[w]}
<1>1. ASSUME Bad # {} PROVE FALSE
  <2>1. PICK v \in Bad : \A u \in Bad : v <= u
    <3> HIDE DEF Bad
    <3>1. Bad \in SUBSET Nat
      BY DEF Bad
    <3> QED BY <1>1, <3>1, LeastNatural
  <2>2. PICK w \in Nat : w # v /\ letters[v] = letters[w]
    BY <2>1
  <2>3. v \in Nat /\ v < w
    <3>1. w \in Bad
      BY <2>1, <2>2
    <3> QED BY <2>1, <2>2, <3>1
  <2> DEFINE p(n) == (n - 1) \div Letters
             d(n) == (n - 1) % Letters
  <2>4. w # 0 /\ letters[w] = Append(letters[p(w)], d(w))
    <3>1. w # 0
      BY <2>2, <2>3
    <3> QED BY <2>2, <3>1, LettersAppend
  <2>5. /\ p(w) \in 0..(w - 1) /\ d(w) \in 0..(Letters - 1)
        /\ w - 1 = (Letters * p(w)) + d(w)
    BY <2>4, Quotient
  <2>6. letters[p(w)] \in Seq(0..(Letters - 1))
    <3> HIDE DEF p, d
    <3>1. p(w) \in Nat
      BY <2>2, <2>5
    <3> QED BY <3>1, LettersInOrder
  <2>7. v # 0
    <3> HIDE DEF p, d
    <3>1. Append(letters[p(w)], d(w)) # <<>>
      BY <2>5, <2>6
    <3> QED BY <2>2, <2>4, <3>1, LettersZero
  <2>8. /\ letters[v] = Append(letters[p(v)], d(v))
        /\ p(v) \in 0..(v - 1) /\ d(v) \in 0..(Letters - 1)
        /\ v - 1 = (Letters * p(v)) + d(v)
    BY <2>3, <2>7, Quotient, LettersAppend
  <2> HIDE DEF p, d
  <2>9. letters[p(v)] \in Seq(0..(Letters - 1))
    <3>1. p(v) \in Nat
      BY <2>3, <2>8
    <3> QED BY <3>1, LettersInOrder
  <2>10. letters[p(v)] = letters[p(w)] /\ d(v) = d(w)
    <3>1. Append(letters[p(v)], d(v)) = Append(letters[p(w)], d(w))
      BY <2>2, <2>4, <2>8
    <3> DEFINE Alphabet == 0..(Letters - 1)
    <3>2. /\ d(v) \in Alphabet /\ d(w) \in Alphabet
          /\ letters[p(v)] \in Seq(Alphabet) /\ letters[p(w)] \in Seq(Alphabet)
      BY <2>5, <2>6, <2>8, <2>9
    <3> HIDE DEF Alphabet
    <3> QED BY <3>1, <3>2, AppendInjective
  <2>11. p(v) = p(w)
    <3>1. p(v) \in Nat /\ ~(v <= p(v)) /\ p(w) \in Nat
      BY <2>2, <2>3, <2>5, <2>8
    <3>2. p(v) \notin Bad
      <4> HIDE DEF Bad
      <4> QED BY <2>1, <3>1
    <3> QED BY <2>10, <3>1, <3>2
  <2>12. v - 1 = w - 1
    <3>1. (Letters * p(v)) + d(v) = (Letters * p(w)) + d(w)
      BY <2>10, <2>11
    <3> QED BY <2>5, <2>8, <3>1
  <2> QED BY <2>2, <2>3, <2>12
<1>2. \A v, w \in Nat : letters[v] = letters[w] => v = w
  BY <1>1
<1> QED
  <2> SUFFICES ASSUME NEW i \in Nat, NEW j \in Nat, alphaSuffix(i) = alphaSuffix(j)
               PROVE  i = j
    OBVIOUS
  <2>1. letters[i + 1] = letters[j + 1] /\ i + 1 \in Nat /\ j + 1 \in Nat
    BY DEF alphaSuffix
  <2>2. i + 1 = j + 1
    BY <1>2, <2>1
  <2> QED BY <2>2

(* Counting: a last letter before z goes up, and a z makes an a of itself  *)
(* and goes on in front.                                                   *)
LEMMA FollowsStep ==
  ASSUME NEW s \in Seq(0..(Letters - 1)), NEW x \in 0..(Letters - 2)
  PROVE  Follows(Append(s, x + 1), Append(s, x))
<1> DEFINE u == Append(s, x)
           t == Append(s, x + 1)
           k == Len(s) + 1
<1>1. Letters = 26
  BY DEF Letters
<1>2. /\ DOMAIN u = 1..(Len(s) + 1) /\ DOMAIN t = 1..(Len(s) + 1)
      /\ \A j \in 1..Len(s) : u[j] = s[j] /\ t[j] = s[j]
      /\ u[k] = x /\ t[k] = x + 1
  OBVIOUS
<1>3. Len(s) \in Nat /\ t \in Seq(Nat)
  BY <1>1
<1> HIDE DEF u, t
<1>4. t = [j \in DOMAIN u |-> IF j < k THEN u[j] ELSE IF j = k THEN u[k] + 1 ELSE 0]
  <2>1. t = [j \in DOMAIN u |-> t[j]]
    BY <1>2, <1>3
  <2>2. \A j \in DOMAIN u :
          t[j] = IF j < k THEN u[j] ELSE IF j = k THEN u[k] + 1 ELSE 0
    BY <1>2, <1>3
  <2> QED BY <2>1, <2>2
<1>5. /\ k \in DOMAIN u /\ u[k] < Letters - 1
      /\ \A j \in DOMAIN u : j > k => u[j] = Letters - 1
  BY <1>1, <1>2, <1>3
<1>6. Follows(t, u)
  BY <1>4, <1>5 DEF Follows
<1> QED BY <1>6 DEF u, t

LEMMA FollowsCarry ==
  ASSUME NEW s \in Seq(0..(Letters - 1)), NEW t \in Seq(0..(Letters - 1)), Follows(t, s)
  PROVE  Follows(Append(t, 0), Append(s, Letters - 1))
<1> DEFINE u == Append(s, Letters - 1)
           v == Append(t, 0)
<1>1. Letters = 26
  BY DEF Letters
<1>2. /\ DOMAIN u = 1..(Len(s) + 1) /\ DOMAIN v = 1..(Len(t) + 1)
      /\ \A j \in 1..Len(s) : u[j] = s[j]
      /\ \A j \in 1..Len(t) : v[j] = t[j]
      /\ u[Len(s) + 1] = Letters - 1 /\ v[Len(t) + 1] = 0
  BY <1>1
<1>3. /\ Len(s) \in Nat /\ Len(t) \in Nat
      /\ DOMAIN s = 1..Len(s) /\ DOMAIN t = 1..Len(t)
      /\ Len(u) = Len(s) + 1
      /\ \A j \in DOMAIN s : s[j] \in 0..25
      /\ \A j \in DOMAIN t : t[j] \in 0..25
  <2>1. s \in Seq(0..25) /\ t \in Seq(0..25)
    BY <1>1
  <2>2. Len(u) = Len(s) + 1
    BY <1>1
  <2> HIDE DEF u
  <2> QED BY <2>1, <2>2, LenProperties, ElementOfSeq
<1>4. v = [j \in DOMAIN v |-> v[j]]
  <2>1. v \in Seq(0..25)
    BY <1>1
  <2> HIDE DEF v
  <2> QED BY <2>1
<1> HIDE DEF u, v
<1>5. CASE /\ \A k \in DOMAIN s : s[k] = Letters - 1
           /\ t = [k \in 1..(Len(s) + 1) |-> 0]
  <2>1. Len(t) = Len(s) + 1
    BY <1>3, <1>5
  <2>2. \A j \in 1..(Len(t) + 1) : v[j] = 0
    BY <1>2, <1>3, <1>5, <2>1
  <2>3. v = [k \in 1..(Len(u) + 1) |-> 0]
    BY <1>2, <1>3, <1>4, <2>1, <2>2
  <2>4. ASSUME NEW k \in DOMAIN u PROVE u[k] = Letters - 1
    <3>1. k \in 1..Len(s) \/ k = Len(s) + 1
      BY <1>2, <1>3
    <3> QED BY <1>2, <1>3, <1>5, <3>1
  <2>5. Follows(v, u)
    BY <2>3, <2>4 DEF Follows
  <2> QED BY <2>5 DEF u, v
<1>6. ASSUME NEW k \in DOMAIN s, s[k] < Letters - 1,
             \A j \in DOMAIN s : j > k => s[j] = Letters - 1,
             t = [j \in DOMAIN s |-> IF j < k THEN s[j] ELSE IF j = k THEN s[k] + 1 ELSE 0]
      PROVE  Follows(v, u)
  <2>1. Len(t) = Len(s) /\ k \in 1..Len(s) /\ DOMAIN v = DOMAIN u
    BY <1>2, <1>3, <1>6
  <2>2. /\ k \in DOMAIN u /\ u[k] = s[k] /\ u[k] < Letters - 1
        /\ k \in Nat /\ k <= Len(s)
    BY <1>2, <1>3, <1>6, <2>1
  <2>3. ASSUME NEW j \in DOMAIN u
        PROVE  /\ j > k => u[j] = Letters - 1
               /\ v[j] = IF j < k THEN u[j] ELSE IF j = k THEN u[k] + 1 ELSE 0
    <3>1. CASE j \in 1..Len(s)
      BY <1>2, <1>3, <1>6, <2>1, <2>2, <3>1
    <3>2. CASE j = Len(s) + 1
      BY <1>2, <1>3, <2>1, <2>2, <3>2
    <3> QED BY <1>2, <1>3, <3>1, <3>2
  <2>4. v = [j \in DOMAIN u |-> IF j < k THEN u[j] ELSE IF j = k THEN u[k] + 1 ELSE 0]
    BY <1>4, <2>1, <2>3
  <2> QED BY <2>2, <2>3, <2>4 DEF Follows
<1>7. Follows(v, u)
  BY <1>5, <1>6 DEF Follows, u, v
<1> QED BY <1>7 DEF u, v

LEMMA LettersFollow == \A value \in Nat : Follows(letters[value + 1], letters[value])
<1> DEFINE Bad == {value \in Nat : ~Follows(letters[value + 1], letters[value])}
<1>1. SUFFICES ASSUME Bad # {} PROVE FALSE
  OBVIOUS
<1>2. PICK value \in Bad : \A w \in Bad : value <= w
  <2> HIDE DEF Bad
  <2>1. Bad \in SUBSET Nat
    BY DEF Bad
  <2> QED BY <1>1, <2>1, LeastNatural
<1>3. value \in Nat
  BY <1>2
<1>4. letters[0] = <<>> /\ letters[value + 1] = Append(letters[value \div 26], value % 26)
  <2>1. value + 1 \in Nat /\ value + 1 # 0 /\ (value + 1) - 1 = value
    BY <1>3
  <2>2. letters[value + 1] = Append(letters[((value + 1) - 1) \div Letters], ((value + 1) - 1) % Letters)
    BY <2>1, LettersAppend
  <2> QED BY <2>1, <2>2, LettersZero DEF Letters
<1>5. CASE value = 0
  <2>1. letters[value + 1] = Append(<<>>, 0)
    <3>1. value \div 26 = 0 /\ value % 26 = 0
      BY <1>5
    <3> QED BY <1>4, <3>1
  <2>2. Append(<<>>, 0) = [k \in 1..(Len(<<>>) + 1) |-> 0]
    OBVIOUS
  <2>3. Follows(Append(<<>>, 0), <<>>)
    BY <2>2 DEF Follows
  <2> QED BY <1>2, <1>4, <1>5, <2>1, <2>3
<1>6. CASE value # 0
  <2> DEFINE before == (value - 1) \div 26
             digit  == (value - 1) % 26
  <2>1. letters[value] = Append(letters[before], digit)
    BY <1>3, <1>6, LettersAppend DEF Letters
  <2>2. before \in 0..(value - 1) /\ digit \in 0..25
    BY <1>3, <1>6
  <2>3. /\ digit < 25 => value \div 26 = before /\ value % 26 = digit + 1
        /\ digit = 25 => value \div 26 = before + 1 /\ value % 26 = 0
    BY <1>3, <1>6
  <2> HIDE DEF before, digit
  <2>4. letters[before] \in Seq(0..25) /\ letters[before + 1] \in Seq(0..25)
    BY <2>2, LettersInOrder DEF Letters
  <2>5. CASE digit < 25
    <3>1. Follows(Append(letters[before], digit + 1), Append(letters[before], digit))
      <4>1. letters[before] \in Seq(0..(Letters - 1)) /\ digit \in 0..(Letters - 2)
        BY <2>2, <2>4, <2>5 DEF Letters
      <4> QED BY <4>1, FollowsStep
    <3> QED BY <1>2, <1>4, <2>1, <2>3, <2>5, <3>1
  <2>6. CASE digit = 25
    <3>1. Follows(letters[before + 1], letters[before])
      <4>1. before \in Nat /\ ~(value <= before)
        BY <1>3, <2>2
      <4> QED BY <1>2, <4>1
    <3>2. Follows(Append(letters[before + 1], 0), Append(letters[before], 25))
      BY <2>4, <3>1, FollowsCarry DEF Letters
    <3> QED BY <1>2, <1>4, <2>1, <2>3, <2>6, <3>2
  <2> QED BY <2>2, <2>5, <2>6
<1> QED BY <1>5, <1>6
-----------------------------------------------------------------------------
(* Both choices of a bus end in a portable one, whatever the OVF and the   *)
(* XML say, so DiskFilename has a name for every disk.                     *)
LEMMA ConversionBusPortable ==
  ASSUME NEW source, NEW policy \in Policies, NEW backend
  PROVE  ChooseConversionOutputBus(source, policy, backend) \in Buses
  BY DEF ChooseConversionOutputBus, Policies, Buses, PreservedBus,
         NormalizeDiskBus, NoBus

LEMMA RuntimeBusPortable ==
  ASSUME NEW source, NEW policy \in Policies, NEW converted, NEW engine
  PROVE  ChooseRuntimeBus(source, policy, converted, engine) \in Buses
  BY DEF ChooseRuntimeBus, Policies, Buses, PreservedBus, NormalizeDiskBus, NoBus

(* Different slots have different file names, and none is the name of a    *)
(* temporary file or of a file outside the image directory.                *)
LEMMA NamesApart ==
  /\ \A s, t \in Slots : Filename(s) = Filename(t) => s = t
  /\ \A s \in Slots, d \in Disks :
       Filename(s) # Temp(d) /\ Filename(s) # Source(d) /\ Filename(s) # Lost
  /\ \A d, e \in Disks :
       /\ Temp(d) = Temp(e) => d = e
       /\ Source(d) = Source(e) => d = e
       /\ Temp(d) # Source(e) /\ Temp(d) # Lost /\ Source(d) # Lost
  <1>1. ASSUME NEW s \in Slots, NEW t \in Slots, Filename(s) = Filename(t)
        PROVE  s = t
    <2>1. Prefix[s.bus] = Prefix[t.bus] /\ alphaSuffix(s.index) = alphaSuffix(t.index)
      BY <1>1 DEF Filename, DiskFilename
    <2>2. s.bus = t.bus
      BY <2>1 DEF Slots, Prefix, Buses
    <2>3. s.index = t.index
      <3>1. s.index \in Nat /\ t.index \in Nat
        BY DiskPlacementAssumption DEF Slots
      <3> QED BY <2>1, <3>1, SuffixesDiffer
    <2>4. QED
      BY <2>2, <2>3 DEF Slots
  <1>2. ASSUME NEW s \in Slots, NEW d \in Disks
        PROVE  Filename(s) # Temp(d) /\ Filename(s) # Source(d) /\ Filename(s) # Lost
    <2>1. Prefix[s.bus] \in {"sd", "virtio"}
      BY DEF Slots, Prefix, Buses
    <2>2. QED
      BY <2>1 DEF Filename, DiskFilename, Temp, Source, Lost
  <1>3. QED
    BY <1>1, <1>2 DEF Temp, Source, Lost

(* A rename onto a name no other disk has moves one disk and no other.     *)
LEMMA RenameMoves ==
  ASSUME NEW d \in Disks, NEW new, at = [e \in Disks |-> at[e]],
         Rename(at[d], new),
         \A e \in Disks \ {d} : at[e] # at[d] /\ at[e] # new
  PROVE  at' = [at EXCEPT ![d] = new]
  BY DEF Rename

LEMMA InitPlacement == Init => PlacementInv
  <1> SUFFICES ASSUME Init PROVE PlacementInv
    OBVIOUS
  <1> USE DiskPlacementAssumption DEF Init, Disks
  <1>1. TypeOK
    <2>1. at \in [Disks -> Sources]
      BY DEF Sources
    <2>2. pc = "convert" /\ disk \in Disks /\ busCounts \in [Buses -> 0..NumDisks]
      OBVIOUS
    <2>3. backendBus \in [Disks -> XMLBuses \union {NoBus}]
      OBVIOUS
    <2>4. QED
      BY <2>1, <2>2, <2>3 DEF TypeOK
  <1>2. Converting
    BY DEF Converting, Counting, Buses
  <1>3. NothingLost
    BY NamesApart DEF NothingLost
  <1>4. QED
    BY <1>1, <1>2, <1>3 DEF PlacementInv, Planning, Parking, Settling, Settled
-----------------------------------------------------------------------------
LEMMA TakeNext ==
  ASSUME TypeOK, NEW f \in [Disks -> Slots \union {Unnamed}], NEW n \in Disks,
         NEW bus \in Buses, Counting(f, busCounts, n - 1)
  PROVE  LET slot == [bus |-> bus, index |-> busCounts[bus]]
             g    == [f EXCEPT ![n] = slot]
         IN  /\ slot \in Slots
             /\ Counting(g, Counted(bus), n)
             /\ Counted(bus) \in [Buses -> 0..NumDisks]
  <1> DEFINE slot == [bus |-> bus, index |-> busCounts[bus]]
             g    == [f EXCEPT ![n] = slot]
  <1> USE DiskPlacementAssumption DEF Disks
  <1>1. busCounts \in [Buses -> 0..NumDisks] /\ \A b \in Buses : busCounts[b] <= n - 1
    BY DEF TypeOK, Counting
  <1>2. slot \in Slots
    BY <1>1 DEF Slots
  <1>3. Counted(bus) \in [Buses -> 0..NumDisks] /\ \A b \in Buses : Counted(bus)[b] <= n
    BY <1>1 DEF Counted
  <1>4. \A d \in 1..(n - 1) :
          /\ g[d] = f[d] /\ f[d] \in Slots /\ f[d] # slot
          /\ f[d].index < Counted(bus)[f[d].bus]
    <2>1. SUFFICES ASSUME NEW d \in 1..(n - 1)
                   PROVE  /\ g[d] = f[d] /\ f[d] \in Slots /\ f[d] # slot
                          /\ f[d].index < Counted(bus)[f[d].bus]
      OBVIOUS
    <2>2. f[d] \in Slots /\ f[d].index < busCounts[f[d].bus]
      BY DEF Counting
    <2>3. f[d].bus \in Buses /\ f[d].index \in Nat
      BY <2>2 DEF Slots
    <2>4. f[d] # slot
      BY <1>1, <2>2, <2>3
    <2>5. f[d].index < Counted(bus)[f[d].bus]
      BY <1>1, <2>2, <2>3 DEF Counted
    <2>6. QED
      BY <2>2, <2>4, <2>5
  <1>5. g[n] = slot /\ slot.index < Counted(bus)[slot.bus]
    BY <1>1 DEF Counted
  <1>6. Counting(g, Counted(bus), n)
    <2>1. \A d \in 1..n : g[d] \in Slots
      BY <1>2, <1>4, <1>5
    <2>2. \A d, e \in 1..n : g[d] = g[e] => d = e
      <3>1. \A d, e \in 1..(n - 1) : f[d] = f[e] => d = e
        BY DEF Counting
      <3>2. QED
        BY <1>4, <1>5, <3>1
    <2>3. \A d \in 1..n : g[d].index < Counted(bus)[g[d].bus]
      BY <1>4, <1>5
    <2>4. QED
      BY <1>3, <2>1, <2>2, <2>3 DEF Counting
  <1>7. QED
    BY <1>2, <1>3, <1>6

(* It is the next in order, too.                                           *)
LEMMA TakeNextInOrder ==
  ASSUME TypeOK, NEW f \in [Disks -> Slots \union {Unnamed}], NEW n \in Disks,
         NEW bus \in Buses, Counting(f, busCounts, n - 1),
         InOrder(f, n - 1), Filled(f, busCounts, n - 1)
  PROVE  LET g == [f EXCEPT ![n] = [bus |-> bus, index |-> busCounts[bus]]]
         IN  InOrder(g, n) /\ Filled(g, Counted(bus), n)
  <1> DEFINE slot == [bus |-> bus, index |-> busCounts[bus]]
             g    == [f EXCEPT ![n] = slot]
  <1> USE DiskPlacementAssumption DEF Disks
  <1>1. busCounts \in [Buses -> 0..NumDisks]
    BY DEF TypeOK
  <1>2. \A d \in 1..(n - 1) : g[d] = f[d] /\ f[d] \in Slots
    BY DEF Counting
  <1>3. g[n] = slot /\ slot.bus = bus /\ slot.index = busCounts[bus]
    OBVIOUS
  <1>4. InOrder(g, n)
    <2>1. ASSUME NEW d \in 1..(n - 1)
          PROVE  /\ \A e \in 1..(d - 1) : g[e].bus = g[d].bus => g[e].index < g[d].index
                 /\ \A i \in 0..(g[d].index - 1) :
                      \E e \in 1..(d - 1) : g[e].bus = g[d].bus /\ g[e].index = i
      BY <1>2 DEF InOrder
    <2>2. \A e \in 1..(n - 1) : g[e].bus = bus => g[e].index < busCounts[bus]
      BY <1>2 DEF Counting
    <2>3. \A i \in 0..(busCounts[bus] - 1) :
            \E e \in 1..(n - 1) : g[e].bus = bus /\ g[e].index = i
      BY <1>2 DEF Filled
    <2>4. QED
      BY <1>3, <2>1, <2>2, <2>3 DEF InOrder
  <1>5. Filled(g, Counted(bus), n)
    <2>1. SUFFICES ASSUME NEW b \in Buses, NEW i \in 0..(Counted(bus)[b] - 1)
                   PROVE  \E d \in 1..n : g[d].bus = b /\ g[d].index = i
      BY DEF Filled
    <2>2. CASE b = bus /\ i = busCounts[bus]
      BY <1>3, <2>2
    <2>3. CASE ~(b = bus /\ i = busCounts[bus])
      <3>1. i \in 0..(busCounts[b] - 1)
        BY <1>1, <2>3 DEF Counted
      <3>2. PICK d \in 1..(n - 1) : f[d].bus = b /\ f[d].index = i
        BY <3>1 DEF Filled
      <3>3. QED
        BY <1>2, <3>2
    <2>4. QED
      BY <2>2, <2>3
  <1>6. QED
    BY <1>4, <1>5
-----------------------------------------------------------------------------
LEMMA ConvertStep == PlacementInv /\ ConvertDisk => PlacementInv'
  <1> SUFFICES ASSUME PlacementInv, ConvertDisk PROVE PlacementInv'
    OBVIOUS
  <1> DEFINE bus  == convertedBus(disk)
             slot == [bus |-> bus, index |-> busCounts[bus]]
  <1> USE DiskPlacementAssumption DEF Disks
  <1>1. /\ pc = "convert" /\ bus \in Buses
        /\ Rename(Source(disk), Filename(slot))
        /\ result' = [result EXCEPT ![disk] = slot]
        /\ Advance("plan")
        /\ busCounts' = IF pc' = "plan" THEN [b \in Buses |-> 0] ELSE Counted(bus)
        /\ UNCHANGED <<request, controller, backendBus, plans>>
    BY DEF ConvertDisk, convertedBus, Filename, inputs
  <1>2. TypeOK /\ Converting /\ NothingLost
    BY DEF PlacementInv
  <1>3. disk \in Disks /\ disk \in Nat /\ disk - 1 \in Nat
    BY <1>2 DEF TypeOK
  <1>4. /\ Counting(result, busCounts, disk - 1)
        /\ \A d \in 1..(disk - 1) : result[d].bus = convertedBus(d)
        /\ \A d \in Disks : at[d] = IF d < disk THEN Filename(result[d]) ELSE Source(d)
    BY <1>1, <1>2 DEF Converting
  <1>5. /\ slot \in Slots
        /\ Counting(result', Counted(bus), disk)
        /\ Counted(bus) \in [Buses -> 0..NumDisks]
    BY <1>1, <1>2, <1>3, <1>4, TakeNext DEF TypeOK
  <1>6. \A d \in 1..(disk - 1) : result[d] \in Slots /\ result[d] # slot
    BY <1>1, <1>2, <1>4 DEF Counting, TypeOK
  <1>7. at' = [at EXCEPT ![disk] = Filename(slot)]
    <2>1. at[disk] = Source(disk)
      BY <1>3, <1>4
    <2>2. \A e \in Disks \ {disk} : at[e] # Source(disk) /\ at[e] # Filename(slot)
      BY <1>3, <1>4, <1>5, <1>6, NamesApart
    <2>3. QED
      BY <1>1, <1>2, <1>3, <2>1, <2>2, RenameMoves DEF TypeOK
  <1>8. /\ \A d \in 1..disk : result'[d].bus = convertedBus(d)'
        /\ \A d \in Disks : at'[d] = IF d < disk + 1 THEN Filename(result'[d]) ELSE Source(d)
    <2>1. result'[disk] = slot /\ \A d \in Disks \ {disk} : result'[d] = result[d]
      BY <1>1, <1>2 DEF TypeOK
    <2>2. \A d \in Disks : convertedBus(d)' = convertedBus(d)
      BY <1>1 DEF convertedBus, sourceBus
    <2>3. at'[disk] = Filename(slot) /\ \A d \in Disks \ {disk} : at'[d] = at[d]
      BY <1>2, <1>7 DEF TypeOK
    <2>4. QED
      BY <1>3, <1>4, <2>1, <2>2, <2>3
  <1>9. TypeOK'
    <2>1. disk' \in Disks /\ pc' \in {"convert", "plan"}
      BY <1>1, <1>3 DEF Advance
    <2>2. busCounts' \in [Buses -> 0..NumDisks]
      BY <1>1, <1>5
    <2>3. Filename(slot) \in Names
      BY <1>5 DEF Names
    <2>4. QED
      BY <1>1, <1>2, <1>5, <1>7, <2>1, <2>2, <2>3 DEF TypeOK
  <1>10. NothingLost'
    BY <1>2, <1>5, <1>7, NamesApart DEF NothingLost, TypeOK
  <1>11. CASE disk < NumDisks
    <2>1. pc' = "convert" /\ disk' = disk + 1 /\ busCounts' = Counted(bus)
      BY <1>1, <1>11 DEF Advance
    <2>2. Converting'
      BY <1>3, <1>5, <1>8, <2>1 DEF Converting
    <2>3. QED
      BY <1>9, <1>10, <2>1, <2>2
         DEF PlacementInv, Planning, Parking, Settling, Settled
  <1>12. CASE ~(disk < NumDisks)
    <2>1. /\ disk = NumDisks
          /\ pc' = "plan" /\ disk' = 1 /\ busCounts' = [b \in Buses |-> 0]
      BY <1>1, <1>3, <1>12 DEF Advance
    <2>2. Named(result)'
      BY <1>5, <2>1 DEF Named, Counting
    <2>3. /\ \A d \in Disks : result'[d].bus = convertedBus(d)'
          /\ \A d \in Disks : at'[d] = Filename(result'[d])
      BY <1>8, <2>1
    <2>4. /\ Counting(plans', busCounts', 0) /\ InOrder(plans', 0)
          /\ Filled(plans', busCounts', 0)
      BY <2>1 DEF Counting, InOrder, Filled
    <2>5. Planning'
      BY <2>1, <2>2, <2>3, <2>4 DEF Planning
    <2>6. QED
      BY <1>9, <1>10, <2>1, <2>5
         DEF PlacementInv, Converting, Parking, Settling, Settled
  <1>13. QED
    BY <1>11, <1>12
LEMMA PlanStep == PlacementInv /\ PlanDisk => PlacementInv'
  <1> SUFFICES ASSUME PlacementInv, PlanDisk PROVE PlacementInv'
    OBVIOUS
  <1> DEFINE bus  == ChooseRuntimeBus(sourceBus(disk), request.policy,
                                      result[disk].bus, request.engine)
             slot == [bus |-> bus, index |-> busCounts[bus]]
  <1> USE DiskPlacementAssumption DEF Disks
  <1>1. /\ pc = "plan" /\ bus \in Buses
        /\ plans' = [plans EXCEPT ![disk] = slot]
        /\ busCounts' = Counted(bus)
        /\ Advance("park")
        /\ UNCHANGED <<request, controller, backendBus, result, at>>
    BY DEF PlanDisk, inputs
  <1>2. TypeOK /\ Planning /\ NothingLost
    BY DEF PlacementInv
  <1>3. disk \in Disks /\ disk \in Nat /\ disk - 1 \in Nat
    BY <1>2 DEF TypeOK
  <1>4. /\ Named(result)
        /\ \A d \in Disks : result[d].bus = convertedBus(d)
        /\ \A d \in Disks : at[d] = Filename(result[d])
        /\ Counting(plans, busCounts, disk - 1)
        /\ InOrder(plans, disk - 1)
        /\ Filled(plans, busCounts, disk - 1)
        /\ \A d \in 1..(disk - 1) : plans[d].bus = runtimeBus(d)
    BY <1>1, <1>2 DEF Planning
  <1>5. /\ slot \in Slots
        /\ Counting(plans', busCounts', disk)
        /\ busCounts' \in [Buses -> 0..NumDisks]
    BY <1>1, <1>2, <1>3, <1>4, TakeNext DEF TypeOK
  <1>6. InOrder(plans', disk) /\ Filled(plans', busCounts', disk)
    BY <1>1, <1>2, <1>3, <1>4, TakeNextInOrder DEF TypeOK
  <1>7. bus = runtimeBus(disk)
    BY <1>3, <1>4 DEF runtimeBus, convertedBus
  <1>8. \A d \in 1..disk : plans'[d].bus = runtimeBus(d)'
    <2>1. plans'[disk] = slot /\ \A d \in Disks \ {disk} : plans'[d] = plans[d]
      BY <1>1, <1>2 DEF TypeOK
    <2>2. \A d \in Disks : runtimeBus(d)' = runtimeBus(d)
      BY <1>1 DEF runtimeBus, sourceBus
    <2>3. QED
      BY <1>3, <1>4, <1>7, <2>1, <2>2
  <1>9. TypeOK'
    <2>1. disk' \in Disks /\ pc' \in {"plan", "park"}
      BY <1>1, <1>3 DEF Advance
    <2>2. QED
      BY <1>1, <1>2, <1>5, <2>1 DEF TypeOK
  <1>10. NothingLost'
    BY <1>1, <1>2 DEF NothingLost
  <1>11. Named(result)' /\ \A d \in Disks : result'[d].bus = convertedBus(d)'
    BY <1>1, <1>4 DEF Named, convertedBus, sourceBus
  <1>12. CASE disk < NumDisks
    <2>1. pc' = "plan" /\ disk' = disk + 1 /\ disk' - 1 = disk
      BY <1>1, <1>3, <1>12 DEF Advance
    <2>2. Planning'
      BY <1>1, <1>4, <1>5, <1>6, <1>8, <1>11, <2>1 DEF Planning
    <2>3. QED
      BY <1>9, <1>10, <2>1, <2>2
         DEF PlacementInv, Converting, Parking, Settling, Settled
  <1>13. CASE ~(disk < NumDisks)
    <2>1. disk = NumDisks /\ pc' = "park" /\ disk' = 1
      BY <1>1, <1>3, <1>13 DEF Advance
    <2>2. Planned'
      BY <1>5, <1>6, <1>8, <2>1 DEF Planned, Named, Counting
    <2>3. Parking'
      BY <1>1, <1>4, <1>11, <2>1, <2>2 DEF Parking
    <2>4. QED
      BY <1>9, <1>10, <2>1, <2>3
         DEF PlacementInv, Converting, Planning, Settling, Settled
  <1>14. QED
    BY <1>12, <1>13

LEMMA ParkStep == PlacementInv /\ ParkDisk => PlacementInv'
  <1> SUFFICES ASSUME PlacementInv, ParkDisk PROVE PlacementInv'
    OBVIOUS
  <1> USE DiskPlacementAssumption DEF Disks
  <1>1. /\ pc = "park"
        /\ Rename(Filename(result[disk]), Temp(disk))
        /\ Advance("settle")
        /\ UNCHANGED <<request, controller, backendBus, busCounts, result, plans>>
    BY DEF ParkDisk, inputs
  <1>2. TypeOK /\ Parking /\ NothingLost
    BY DEF PlacementInv
  <1>3. disk \in Disks /\ disk \in Nat
    BY <1>2 DEF TypeOK
  <1>4. /\ Planned /\ Named(result)
        /\ \A d \in Disks : at[d] = IF d < disk THEN Temp(d) ELSE Filename(result[d])
    BY <1>1, <1>2 DEF Parking
  <1>5. at' = [at EXCEPT ![disk] = Temp(disk)]
    <2>1. at[disk] = Filename(result[disk])
      BY <1>3, <1>4
    <2>2. \A e \in Disks \ {disk} : at[e] # at[disk] /\ at[e] # Temp(disk)
      BY <1>3, <1>4, NamesApart DEF Named
    <2>3. QED
      BY <1>1, <1>2, <1>3, <2>1, <2>2, RenameMoves DEF TypeOK
  <1>6. \A d \in Disks :
          at'[d] = IF d < disk + 1 THEN Temp(d) ELSE Filename(result[d])
    BY <1>2, <1>3, <1>4, <1>5 DEF TypeOK
  <1>7. TypeOK'
    <2>1. disk' \in Disks /\ pc' \in {"park", "settle"}
      BY <1>1, <1>3 DEF Advance
    <2>2. QED
      BY <1>1, <1>2, <1>3, <1>5, <2>1 DEF TypeOK, Temps
  <1>8. NothingLost'
    BY <1>2, <1>3, <1>5, NamesApart DEF NothingLost, TypeOK
  <1>9. Planned' /\ Named(result)'
    BY <1>1, <1>4 DEF Planned, Named, InOrder, runtimeBus, sourceBus
  <1>10. CASE disk < NumDisks
    <2>1. pc' = "park" /\ disk' = disk + 1
      BY <1>1, <1>10 DEF Advance
    <2>2. Parking'
      BY <1>1, <1>6, <1>9, <2>1 DEF Parking
    <2>3. QED
      BY <1>7, <1>8, <2>1, <2>2
         DEF PlacementInv, Converting, Planning, Settling, Settled
  <1>11. CASE ~(disk < NumDisks)
    <2>1. disk = NumDisks /\ pc' = "settle" /\ disk' = 1
      BY <1>1, <1>3, <1>11 DEF Advance
    <2>2. Settling'
      BY <1>6, <1>9, <2>1 DEF Settling
    <2>3. QED
      BY <1>7, <1>8, <2>1, <2>2
         DEF PlacementInv, Converting, Planning, Parking, Settled
  <1>12. QED
    BY <1>10, <1>11

LEMMA SettleStep == PlacementInv /\ SettleDisk => PlacementInv'
  <1> SUFFICES ASSUME PlacementInv, SettleDisk PROVE PlacementInv'
    OBVIOUS
  <1> USE DiskPlacementAssumption DEF Disks
  <1>1. /\ pc = "settle"
        /\ Rename(Temp(disk), Filename(plans[disk]))
        /\ result' = [result EXCEPT ![disk] = plans[disk]]
        /\ Advance("done")
        /\ UNCHANGED <<request, controller, backendBus, busCounts, plans>>
    BY DEF SettleDisk, inputs
  <1>2. TypeOK /\ Settling /\ NothingLost
    BY DEF PlacementInv
  <1>3. disk \in Disks /\ disk \in Nat
    BY <1>2 DEF TypeOK
  <1>4. /\ Planned
        /\ \A d \in Disks : at[d] = IF d < disk THEN Filename(plans[d]) ELSE Temp(d)
        /\ \A d \in 1..(disk - 1) : result[d] = plans[d]
    BY <1>1, <1>2 DEF Settling
  <1>5. \A d, e \in Disks : plans[d] \in Slots /\ (plans[d] = plans[e] => d = e)
    BY <1>4 DEF Planned, Named
  <1>6. at' = [at EXCEPT ![disk] = Filename(plans[disk])]
    <2>1. at[disk] = Temp(disk)
      BY <1>3, <1>4
    <2>2. \A e \in Disks \ {disk} : at[e] # at[disk] /\ at[e] # Filename(plans[disk])
      BY <1>3, <1>4, <1>5, NamesApart
    <2>3. QED
      BY <1>1, <1>2, <1>3, <2>1, <2>2, RenameMoves DEF TypeOK
  <1>7. \A d \in Disks :
          at'[d] = IF d < disk + 1 THEN Filename(plans[d]) ELSE Temp(d)
    BY <1>2, <1>3, <1>4, <1>6 DEF TypeOK
  <1>8. \A d \in 1..disk : result'[d] = plans[d]
    BY <1>1, <1>2, <1>3, <1>4 DEF TypeOK
  <1>9. TypeOK'
    <2>1. disk' \in Disks /\ pc' \in {"settle", "done"}
      BY <1>1, <1>3 DEF Advance
    <2>2. result' \in [Disks -> Slots \union {Unnamed}]
      BY <1>1, <1>2, <1>3, <1>5 DEF TypeOK
    <2>3. Filename(plans[disk]) \in Names
      BY <1>3, <1>5 DEF Names
    <2>4. at' \in [Disks -> Names \union Temps \union Sources \union {Lost}]
      BY <1>2, <1>6, <2>3 DEF TypeOK
    <2>5. QED
      BY <1>1, <1>2, <2>1, <2>2, <2>4 DEF TypeOK
  <1>10. NothingLost'
    BY <1>2, <1>3, <1>5, <1>6, NamesApart DEF NothingLost, TypeOK
  <1>11. Planned'
    BY <1>1, <1>4 DEF Planned, Named, InOrder, runtimeBus, sourceBus
  <1>12. CASE disk < NumDisks
    <2>1. pc' = "settle" /\ disk' = disk + 1 /\ disk' - 1 = disk
      BY <1>1, <1>3, <1>12 DEF Advance
    <2>2. Settling'
      BY <1>1, <1>7, <1>8, <1>11, <2>1 DEF Settling
    <2>3. QED
      BY <1>9, <1>10, <2>1, <2>2
         DEF PlacementInv, Converting, Planning, Parking, Settled
  <1>13. CASE ~(disk < NumDisks)
    <2>1. disk = NumDisks /\ pc' = "done"
      BY <1>1, <1>3, <1>13 DEF Advance
    <2>2. \A d \in Disks : at'[d] = Filename(plans[d]) /\ result'[d] = plans[d]
      BY <1>7, <1>8, <2>1
    <2>3. result' = plans'
      BY <1>1, <1>2, <1>9, <2>2 DEF TypeOK
    <2>4. Settled'
      BY <1>1, <1>11, <2>1, <2>2, <2>3 DEF Settled
    <2>5. QED
      BY <1>9, <1>10, <2>1, <2>4
         DEF PlacementInv, Converting, Planning, Parking, Settling
  <1>14. QED
    BY <1>12, <1>13

LEMMA PlacementStep == PlacementInv /\ [Next]_vars => PlacementInv'
  <1> SUFFICES ASSUME PlacementInv, [Next]_vars PROVE PlacementInv'
    OBVIOUS
  <1>1. CASE GiveUp
    BY <1>1 DEF GiveUp, inputs, PlacementInv, TypeOK, NothingLost,
                Converting, Planning, Parking, Settling, Settled
  <1>2. CASE Ended \/ UNCHANGED vars
    <2>1. UNCHANGED <<request, controller, backendBus, pc, disk, busCounts,
                      result, plans, at>>
      BY <1>2 DEF Ended, vars, inputs
    <2>2. QED
      BY <2>1 DEF PlacementInv, TypeOK, NothingLost, Converting, Planning,
                  Parking, Settling, Settled, Planned, Named, Counting, InOrder,
                  Filled, convertedBus, runtimeBus, sourceBus
  <1>3. QED
    BY <1>1, <1>2, ConvertStep, PlanStep, ParkStep, SettleStep DEF Next

LEMMA PlacementInvariant == Spec => []PlacementInv
  BY InitPlacement, PlacementStep, PTL DEF Spec

(* The loops stay within the disks, the counts and the names there are.    *)
THEOREM PlacementTypeCorrect == Spec => []TypeOK
  <1>1. PlacementInv => TypeOK
    BY DEF PlacementInv
  <1>2. QED
    BY <1>1, PlacementInvariant, PTL

(* No rename of the backends or of NormalizeRuntimeDisks ever replaces a   *)
(* disk, for any number of disks on any mix of buses.                      *)
THEOREM NoDiskLost == Spec => []NothingLost
  <1>1. PlacementInv => NothingLost
    BY DEF PlacementInv
  <1>2. QED
    BY <1>1, PlacementInvariant, PTL

(* After NormalizeRuntimeDisks every disk is where result says it is.      *)
THEOREM ReportedTruly == Spec => []WhereReported
  <1>1. PlacementInv => WhereReported
    BY DEF PlacementInv, Settled, WhereReported
  <1>2. QED
    BY <1>1, PlacementInvariant, PTL

(* The names of each bus follow the disk order without a gap.              *)
THEOREM NamesInOrder == Spec => []NamedInOrder
  <1>1. PlacementInv => NamedInOrder
    <2> SUFFICES ASSUME PlacementInv, pc = "done", NEW d \in Disks
                 PROVE  LET before == {e \in 1..(d - 1) : result[e].bus = result[d].bus}
                        IN  /\ \A e \in before : result[e].index < result[d].index
                            /\ \A i \in 0..(result[d].index - 1) :
                                 \E e \in before : result[e].index = i
      BY DEF NamedInOrder
    <2>1. InOrder(result, NumDisks)
      BY DEF PlacementInv, Settled, Planned
    <2>2. QED
      BY <2>1 DEF InOrder, Disks
  <1>2. QED
    BY <1>1, PlacementInvariant, PTL

(* The runtime controller, for any controllers and any XML: the conversion *)
(* decides only for CANVAS under the default policy, and "preserve" comes  *)
(* to SCSI for every controller, contrary to README:210.                   *)
THEOREM RuntimeContractKept == Spec => []RuntimeContract
  <1>1. PlacementInv => RuntimeContract
    <2> SUFFICES ASSUME PlacementInv, pc = "done", NEW d \in Disks
                 PROVE  result[d].bus = "virtio" <=>
                          \/ request.policy = "virtio"
                          \/ /\ request.policy = "auto"
                             /\ request.engine # "stratum"
                             /\ backendBus[d] \in {"virtio", "virtio-blk"}
      BY DEF RuntimeContract
    <2>1. result[d].bus = runtimeBus(d)
      BY DEF PlacementInv, Settled, Planned
    <2>2. request.policy \in {"auto", "preserve", "scsi", "virtio"}
      BY DEF PlacementInv, TypeOK, Policies, Buses
    <2>3. CASE request.policy = "preserve"
      <3>1. sourceBus(d) \notin {"virtio", "virtio-blk"}
        BY DEF sourceBus, controllerBus
      <3>2. NormalizeDiskBus(sourceBus(d)) # "virtio"
        BY <3>1 DEF NormalizeDiskBus, NoBus
      <3>3. PreservedBus(NormalizeDiskBus(sourceBus(d))) # "virtio"
        BY <3>2 DEF PreservedBus
      <3>4. QED
        BY <2>1, <2>3, <3>3 DEF runtimeBus, ChooseRuntimeBus, Buses
    <2>4. CASE request.policy # "preserve"
      BY <2>1, <2>2, <2>4 DEF runtimeBus, ChooseRuntimeBus,
         ChooseConversionOutputBus, NormalizeDiskBus, Buses, NoBus
    <2>5. QED
      BY <2>3, <2>4
  <1>2. QED
    BY <1>1, PlacementInvariant, PTL

(* DiskFilename counts in letters at every index.                          *)
THEOREM SuffixesCounted == Spec => []CountsInLetters
  <1>1. CountsInLetters
    <2>1. ASSUME NEW index \in 0..MaxIndex
          PROVE  Follows(alphaSuffix(index + 1), alphaSuffix(index))
      <3>1. index \in Nat /\ index + 1 \in Nat
        BY DiskNamesAssumption
      <3>2. alphaSuffix(index) = letters[index + 1]
            /\ alphaSuffix(index + 1) = letters[(index + 1) + 1]
        BY <3>1 DEF alphaSuffix
      <3> QED BY <3>1, <3>2, LettersFollow
    <2> QED BY <2>1 DEF CountsInLetters, SuffixesCount
  <1> QED BY <1>1, PTL
=============================================================================
