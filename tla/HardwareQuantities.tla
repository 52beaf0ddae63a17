------------------------- MODULE HardwareQuantities -------------------------
(***************************************************************************)
(* How many CPUs, how much memory and how many network adapters a machine  *)
(* gets: the loops of ParseOVF over the items of the virtual system, with  *)
(* its defaults, and the least values RenderTemplateYAML puts in.          *)
(*                                                                         *)
(* A quantity is a number of halves, so that 3 stands for "1.5", or it is  *)
(* no number.  A MiB has few bytes here, and an int64 few values.          *)
(***************************************************************************)
EXTENDS Integers, Sequences, FiniteSets

CONSTANTS MiB,        \* bytes in a MiB
          MaxInt,     \* the largest int64
          Multiplier, \* allocation units -> bytes in one of them
          Quantities, \* the numbers of halves that items can state
          SizeItems,  \* the items that a system can have
          MaxSizeItems  \* bound on the items of a system

SizeItem == [type   : {"3", "4", "10"},  \* processors, memory, a network adapter
             number : BOOLEAN,           \* whether the quantity is a number
             halves : Quantities,        \* which number
             units  : DOMAIN Multiplier]

ASSUME HardwareQuantitiesAssumption ==
  /\ MiB \in Nat \ {0} /\ MaxInt \in Nat /\ MaxInt >= 2048 /\ MaxInt >= MiB * MiB
  /\ MaxSizeItems \in 0..MaxInt
  /\ \A u \in DOMAIN Multiplier : Multiplier[u] \in Nat \ {0}
  /\ Quantities \subseteq Int
  /\ SizeItems \subseteq SizeItem

VARIABLES sizeItems, \* the items of the system
          sizeStep,  \* whether the loop goes on
          sizeNext,  \* the item it has come to
          cpu, ramMiB, ethernet,  \* the sums, then the result of ParseOVF
          template   \* the numbers in the template, once it is rendered

sizeVars == <<sizeItems, sizeStep, sizeNext, cpu, ramMiB, ethernet, template>>

Larger(m, n) == IF m > n THEN m ELSE n

Ceil(m, n) == -((-m) \div n)

Truncated(halves) == IF halves >= 0 THEN halves \div 2 ELSE Ceil(halves, 2)

InRange(m) == m \in (-MaxInt - 1)..MaxInt

(* A conversion of a float to an int64.  For a float that does not fit the *)
(* result depends on the processor: x86 has the least int64, ARM the one   *)
(* that is next.                                                           *)
ToInt64(halves) ==
  IF InRange(Truncated(halves)) THEN {Truncated(halves)}
  ELSE {-MaxInt - 1, IF halves > 0 THEN MaxInt ELSE -MaxInt - 1}

Wrap(m) == ((m + MaxInt + 1) % (2 * MaxInt + 2)) - MaxInt - 1

SizeInit ==
  /\ sizeItems \in UNION {[1..n -> SizeItems] : n \in 0..MaxSizeItems}
  /\ sizeStep = "items" /\ sizeNext = 1
  /\ cpu = 0 /\ ramMiB = 0 /\ ethernet = 0
  /\ template = <<>>

ThisItem == sizeItems[sizeNext]

Here(type) == sizeStep = "items" /\ sizeNext <= Len(sizeItems) /\ ThisItem.type = type

(* parseInt, with 0 for what is no number.                                 *)
AddProcessors ==
  /\ Here("3")
  /\ sizeNext' = sizeNext + 1
  /\ \/ ~ThisItem.number /\ UNCHANGED cpu
     \/ /\ ThisItem.number
        /\ \E n \in ToInt64(ThisItem.halves) : cpu' = Wrap(cpu + Larger(0, n))
  /\ UNCHANGED <<sizeItems, sizeStep, ramMiB, ethernet, template>>

(* Mutant: one MiB more also where the bytes are whole MiBs.               *)
AddMemoryPlusOne ==
  /\ Here("4")
  /\ sizeNext' = sizeNext + 1
  /\ \/ ~ThisItem.number /\ UNCHANGED ramMiB
     \/ /\ ThisItem.number
        /\ \E bytes \in ToInt64(ThisItem.halves * Multiplier[ThisItem.units]) :
             ramMiB' = Wrap(ramMiB + Larger(1, (bytes \div MiB) + 1))
  /\ UNCHANGED <<sizeItems, sizeStep, cpu, ethernet, template>>

(* parseScaledBytes.  A number without units is one of bytes; what is no   *)
(* number counts for nothing, any other for one MiB at the least.          *)
AddMemory ==
  /\ Here("4")
  /\ sizeNext' = sizeNext + 1
  /\ \/ ~ThisItem.number /\ UNCHANGED ramMiB
     \/ /\ ThisItem.number
        /\ \E bytes \in ToInt64(ThisItem.halves * Multiplier[ThisItem.units]) :
             ramMiB' = Wrap(ramMiB + Larger(1, Ceil(bytes, MiB)))
  /\ UNCHANGED <<sizeItems, sizeStep, cpu, ethernet, template>>

AddAdapter ==
  /\ Here("10")
  /\ sizeNext' = sizeNext + 1
  /\ ethernet' = ethernet + 1
  /\ UNCHANGED <<sizeItems, sizeStep, cpu, ramMiB, template>>

Defaults ==
  /\ sizeStep = "items" /\ sizeNext > Len(sizeItems)
  /\ cpu' = IF cpu = 0 THEN 2 ELSE cpu
  /\ ramMiB' = IF ramMiB = 0 THEN 2048 ELSE ramMiB
  /\ sizeStep' = "render"
  /\ UNCHANGED <<sizeItems, sizeNext, ethernet, template>>

Render ==
  /\ sizeStep = "render"
  /\ template' = [cpu |-> Larger(1, cpu), ram |-> Larger(128, ramMiB),
                  ethernet |-> Larger(0, ethernet)]
  /\ sizeStep' = "done"
  /\ UNCHANGED <<sizeItems, sizeNext, cpu, ramMiB, ethernet>>

SizeEnded == sizeStep = "done"

SizeSteps == AddProcessors \/ AddMemory \/ AddAdapter \/ Defaults \/ Render

SizeSpec == SizeInit /\ [][SizeSteps]_sizeVars
-----------------------------------------------------------------------------
SizeTypeOK ==
  /\ sizeStep \in {"items", "render", "done"}
  /\ sizeNext \in 1..(Len(sizeItems) + 1)
  /\ InRange(cpu)
  /\ InRange(ramMiB)
  /\ ethernet \in 0..Len(sizeItems)

Of(type) == {k \in DOMAIN sizeItems : sizeItems[k].type = type}

Bytes(k) == (sizeItems[k].halves * Multiplier[sizeItems[k].units]) \div 2

(* A quantity of memory that a machine can have: a byte at the least.      *)
Sensible(k) == sizeItems[k].number /\ Bytes(k) >= 1 /\ InRange(Bytes(k))

(* What the items ask for, the first n of them, for every n.               *)
Sums(f) ==
  LET sum[n \in 0..Len(f)] == IF n = 0 THEN 0 ELSE sum[n - 1] + f[n]
  IN  sum

MemoryAsked ==
  Sums([k \in DOMAIN sizeItems |-> IF k \in Of("4") THEN Bytes(k) ELSE 0])

(* Of a fraction of a processor nothing counts.                            *)
ProcessorsAsked ==
  Sums([k \in DOMAIN sizeItems |->
          IF k \in Of("3") /\ sizeItems[k].number THEN sizeItems[k].halves \div 2 ELSE 0])

(* A machine is never given less memory than the items of its document ask *)
(* for together, and of what it is given beyond that every item has less   *)
(* than one MiB; whatever the units, and also for fractions of them.  (With*)
(* as many items as a MiB has bytes the sum of what each can ask for may   *)
(* pass an int64.)                                                         *)
MemorySuffices ==
  /\ sizeStep = "render" /\ Of("4") # {} /\ Len(sizeItems) < MiB
  /\ \A k \in Of("4") : Sensible(k)
  => LET bytes == MemoryAsked[Len(sizeItems)]
     IN  /\ bytes <= ramMiB * MiB
         /\ ramMiB * MiB <= bytes + Cardinality(Of("4")) * (MiB - 1)

(* A machine has the processors of all its items together, where these make*)
(* up a number of processors: no item states a negative one, and the sum is*)
(* neither 0 nor too large.                                                *)
ProcessorsCounted ==
  /\ sizeStep = "render"
  /\ \A k \in Of("3") : sizeItems[k].number => sizeItems[k].halves >= 0
  /\ \A n \in DOMAIN sizeItems : ProcessorsAsked[n] <= MaxInt
  /\ ProcessorsAsked[Len(sizeItems)] # 0
  => cpu = ProcessorsAsked[Len(sizeItems)]

(* The defaults are for documents that say nothing: two CPUs, and 2048     *)
(* MiB only if no item states a number; items that state 0 or less get     *)
(* one MiB each, not the default.                                          *)
DefaultsWhereSilent ==
  LET Stating == {k \in Of("4") : sizeItems[k].number}
  IN  sizeStep = "render" =>
        /\ Stating = {} => ramMiB = 2048
        /\ Stating # {} /\ (\A k \in Stating : sizeItems[k].halves <= 0) =>
             ramMiB = Cardinality(Stating)
        /\ (\A k \in Of("3") : ~sizeItems[k].number) => cpu = 2

(* The template has an adapter for every one of the document, whatever the *)
(* items between them.                                                     *)
AdaptersCounted ==
  sizeStep = "done" => template.ethernet = Cardinality(Of("10"))

(* The machine is as large as its document says, where that says something *)
(* a machine can be, and has the defaults where it says nothing.  What the *)
(* units of a document mean is Multiplier, here as in the code: a quantity *)
(* without units is one of bytes.                                          *)
QuantitiesOfTheDocument ==
  MemorySuffices /\ ProcessorsCounted /\ DefaultsWhereSilent /\ AdaptersCounted
=============================================================================
