------------------------- MODULE ThreadPlanProofs -------------------------
(***************************************************************************)
(* Theorems about ThreadPlan, for every machine, every amount of work and  *)
(* every sequence of setter calls.                                         *)
(***************************************************************************)
EXTENDS ThreadPlan, TLAPS

LEMMA MinMax ==
  ASSUME NEW a \in Nat, NEW b \in Nat
  PROVE  /\ AtMost(a, b) \in Nat /\ AtMost(a, b) <= a /\ AtMost(a, b) <= b
         /\ AtMost(a, b) = a \/ AtMost(a, b) = b
         /\ AtLeast(a, b) \in Nat /\ AtLeast(a, b) >= a /\ AtLeast(a, b) >= b
         /\ AtLeast(a, b) = a \/ AtLeast(a, b) = b
  BY DEF AtMost, AtLeast

LEMMA Quotient ==
  ASSUME NEW a \in Nat, NEW b \in Nat \ {0}
  PROVE  a \div b \in Nat /\ (a \div b) * b <= a
  OBVIOUS

LEMMA StackSizeValue == \A n : StackSizeFor(n) = 4 \/ StackSizeFor(n) = 16
  BY DEF StackSizeFor, SmallStack, LargeStack

LEMMA BaseBounds ==
  ASSUME NEW m \in Machines, NEW items \in Nat
  PROVE  /\ Base(m, items) \in Nat /\ Base(m, items) >= 1
         /\ Base(m, items) <= AtLeast(items, 1) /\ Base(m, items) <= HardMaxThreads
<1>1. m.cores * 100 \in Nat
  BY PlanAssumption
<1> QED
  BY <1>1, PlanAssumption DEF Base, AtMost, AtLeast

LEMMA UsableNat == ASSUME NEW mem \in Nat PROVE Usable(mem) \in Nat
  BY DEF Usable

LEMMA MemCapNat ==
  ASSUME NEW m \in Machines, m.mem # Unknown, NEW n \in Nat
  PROVE  /\ MemCap(m, n) \in Nat /\ MemCap(m, n) >= 1
         /\ Usable(m.mem) >= LargeStack => MemCap(m, n) * StackSizeFor(n) <= Usable(m.mem)
<1>1. m.mem \in Nat /\ Usable(m.mem) \in Nat
  BY PlanAssumption, UsableNat
<1>2. ASSUME NEW s \in {4, 16}
      PROVE  /\ AtLeast(Usable(m.mem) \div s, 1) \in Nat /\ AtLeast(Usable(m.mem) \div s, 1) >= 1
             /\ Usable(m.mem) >= 16 => AtLeast(Usable(m.mem) \div s, 1) * s <= Usable(m.mem)
  <2>1. Usable(m.mem) \div s \in Nat /\ (Usable(m.mem) \div s) * s <= Usable(m.mem)
    BY <1>1, Quotient
  <2> QED
    BY <1>1, <2>1 DEF AtLeast
<1> QED
  BY <1>2, StackSizeValue DEF MemCap, LargeStack

(* The count the program chooses: at least one, no more than the work. *)
LEMMA ChosenBounds ==
  ASSUME NEW m \in Machines, NEW items \in Nat
  PROVE  /\ Chosen(m, items) \in Nat /\ Chosen(m, items) >= 1
         /\ Chosen(m, items) <= Base(m, items)
         /\ Chosen(m, items) <= AtLeast(items, 1) /\ Chosen(m, items) <= HardMaxThreads
<1>1. Base(m, items) \in Nat /\ Base(m, items) >= 1
  BY BaseBounds
<1>2. Chosen(m, items) \in Nat /\ Chosen(m, items) >= 1 /\ Chosen(m, items) <= Base(m, items)
  BY <1>1, MemCapNat DEF Chosen, AtMost, AtLeast
<1> QED
  BY <1>1, <1>2, BaseBounds, PlanAssumption DEF AtLeast

(* The stacks of an automatic plan against the memory: the cap is sound    *)
(* for the stack size it was computed with.                                *)
LEMMA ChosenFits ==
  ASSUME NEW m \in Machines, m.mem # Unknown, NEW items \in Nat,
         Usable(m.mem) >= LargeStack
  PROVE  /\ Chosen(m, items) * AutoStack(m, items) <= 4 * Usable(m.mem)
         /\ Chosen(m, items) > ManyThreads \/ Base(m, items) <= ManyThreads
              => Chosen(m, items) * AutoStack(m, items) <= Usable(m.mem)
<1> DEFINE base == Base(m, items)
           chosen == Chosen(m, items)
           usable == Usable(m.mem)
<1>1. base \in Nat /\ base >= 1
  BY BaseBounds
<1>2. MemCap(m, base) \in Nat /\ MemCap(m, base) >= 1
      /\ MemCap(m, base) * StackSizeFor(base) <= usable
  BY <1>1, MemCapNat
<1>3. chosen \in Nat /\ chosen <= base /\ chosen <= MemCap(m, base)
  BY <1>1, <1>2 DEF Chosen, AtMost, AtLeast
<1>4. usable \in Nat
  BY PlanAssumption, UsableNat
<1>5. chosen * StackSizeFor(base) <= usable
  <2>1. CASE StackSizeFor(base) = 4
    BY <1>2, <1>3, <1>4, <2>1
  <2>2. CASE StackSizeFor(base) = 16
    BY <1>2, <1>3, <1>4, <2>2
  <2> QED
    BY <2>1, <2>2, StackSizeValue
<1>6. chosen * StackSizeFor(chosen) <= 4 * usable
  <2>1. (StackSizeFor(base) = 4 \/ StackSizeFor(base) = 16)
        /\ (StackSizeFor(chosen) = 4 \/ StackSizeFor(chosen) = 16)
    BY StackSizeValue
  <2> HIDE DEF chosen, base, usable
  <2> QED
    BY <1>3, <1>4, <1>5, <2>1
<1>7. chosen > ManyThreads \/ base <= ManyThreads => StackSizeFor(chosen) = StackSizeFor(base)
  BY <1>1, <1>3, PlanAssumption DEF StackSizeFor
<1> QED
  BY <1>5, <1>6, <1>7 DEF AutoStack

-----------------------------------------------------------------------------
(* What holds of the builder between the calls. *)
UnderConstruction ==
  ~built =>
    /\ threadsSet => threads = asked.threads /\ threads >= 1
    /\ stackSet => stack = asked.stack /\ stack >= MinStack
    /\ threadsSet /\ ~stackSet => stack = StackSizeFor(threads)

Types ==
  /\ machine \in Machines /\ work \in Nat
  /\ threads \in Nat /\ stack \in Nat
  /\ threadsSet \in BOOLEAN /\ stackSet \in BOOLEAN /\ built \in BOOLEAN
  /\ asked \in [threads : Nat, stack : Nat, calls : Nat]

(* A plan nobody influenced is the one `auto_threads` returns. *)
AutoPlan ==
  built /\ ~threadsSet =>
    /\ threads = Chosen(machine, AtLeast(work, 1))
    /\ ~stackSet => stack = AutoStack(machine, AtLeast(work, 1))

PlanInv == Types /\ UnderConstruction /\ OrderIrrelevant /\ CountsBounded /\ AutoPlan

LEMMA InitPlan == Init => PlanInv
<1> SUFFICES ASSUME Init PROVE PlanInv
  OBVIOUS
<1>1. Types
  BY PlanAssumption DEF Init, Types
<1> QED
  BY <1>1 DEF Init, PlanInv, UnderConstruction, OrderIrrelevant, CountsBounded, AutoPlan

LEMMA ThreadsCall ==
  ASSUME PlanInv, NEW n \in Nat, CallThreads(n)
  PROVE  PlanInv'
<1>1. AtLeast(n, 1) \in Nat /\ AtLeast(n, 1) >= 1
  BY DEF AtLeast
<1>2. StackSizeFor(AtLeast(n, 1)) \in Nat
  BY StackSizeValue
<1>3. asked' \in [threads : Nat, stack : Nat, calls : Nat] /\ asked'.threads = AtLeast(n, 1)
      /\ asked'.stack = asked.stack
  <2>1. asked \in [threads : Nat, stack : Nat, calls : Nat]
    BY DEF PlanInv, Types
  <2>2. asked' = [threads |-> AtLeast(n, 1), stack |-> asked.stack, calls |-> asked.calls + 1]
    BY DEF CallThreads
  <2> QED
    BY <1>1, <2>1, <2>2
<1>4. Types' /\ threads' = AtLeast(n, 1) /\ threadsSet' /\ ~built'
  BY <1>1, <1>2, <1>3 DEF CallThreads, PlanInv, Types
<1> QED
  BY <1>1, <1>3, <1>4 DEF CallThreads, FollowsThreads, PlanInv, Types, UnderConstruction,
     OrderIrrelevant, CountsBounded, AutoPlan

LEMMA PlanStep == PlanInv /\ [Next]_vars => PlanInv'
<1> SUFFICES ASSUME PlanInv, [Next]_vars PROVE PlanInv'
  OBVIOUS
<1>1. ASSUME NEW n \in ThreadCounts, CallThreads(n) PROVE PlanInv'
  BY <1>1, ThreadsCall, PlanAssumption
<1>2. ASSUME NEW arg \in ThreadArgs, CallThreads(Resolve(arg, machine, work)) PROVE PlanInv'
  <2>1. AtLeast(work, 1) \in Nat /\ machine \in Machines
    BY DEF PlanInv, Types, AtLeast
  <2>2. Resolve(arg, machine, work) \in Nat
    <3>1. CASE arg.how = "Auto"
      BY <2>1, <3>1, ChosenBounds DEF Resolve
    <3>2. CASE arg.how = "Max"
      BY <2>1, <3>2, PlanAssumption DEF Resolve, AtMost
    <3>3. CASE arg.how = "Fixed" /\ arg.n \in Nat
      BY <2>1, <3>3 DEF Resolve, AtMost, AtLeast
    <3> QED
      BY <3>1, <3>2, <3>3, PlanAssumption DEF ThreadArgs
  <2> QED
    BY <1>2, <2>2, ThreadsCall
<1>3. ASSUME NEW n \in StackSizes, CallStackSize(n) PROVE PlanInv'
  <2>1. AtLeast(n, MinStack) \in Nat /\ AtLeast(n, MinStack) >= MinStack
    BY PlanAssumption DEF AtLeast, MinStack
  <2>2. asked' \in [threads : Nat, stack : Nat, calls : Nat]
        /\ asked'.stack = AtLeast(n, MinStack) /\ asked'.threads = asked.threads
    <3>1. asked \in [threads : Nat, stack : Nat, calls : Nat]
      BY DEF PlanInv, Types
    <3>2. asked' = [threads |-> asked.threads, stack |-> AtLeast(n, MinStack),
                   calls |-> asked.calls + 1]
      BY <1>3 DEF CallStackSize
    <3> QED
      BY <2>1, <3>1, <3>2
  <2>3. Types'
    BY <1>3, <2>1, <2>2 DEF CallStackSize, PlanInv, Types
  <2> QED
    BY <1>3, <2>1, <2>2, <2>3 DEF CallStackSize, PlanInv, Types, UnderConstruction,
       OrderIrrelevant, CountsBounded, AutoPlan
<1>4. CASE Build
  <2> DEFINE items == AtLeast(work, 1)
  <2>1. items \in Nat /\ items >= 1 /\ AtLeast(items, 1) = items /\ machine \in Machines
    BY DEF PlanInv, Types, AtLeast
  <2>2. /\ Chosen(machine, items) \in Nat /\ Chosen(machine, items) >= 1
        /\ Chosen(machine, items) <= items /\ Chosen(machine, items) <= HardMaxThreads
    BY <2>1, ChosenBounds
  <2>3. StackSizeFor(threads) \in Nat /\ StackSizeFor(threads) >= MinStack
        /\ AutoStack(machine, items) = StackSizeFor(Chosen(machine, items))
        /\ AutoStack(machine, items) \in Nat /\ AutoStack(machine, items) >= MinStack
    BY StackSizeValue DEF AutoStack, MinStack
  <2>4. CASE threadsSet
    BY <1>4, <2>3, <2>4 DEF Build, PlanInv, Types, UnderConstruction, OrderIrrelevant, CountsBounded,
       AutoPlan, MinStack
  <2>5. CASE ~threadsSet
    BY <1>4, <2>1, <2>2, <2>3, <2>5 DEF Build, PlanInv, Types, UnderConstruction, OrderIrrelevant,
       CountsBounded, AutoPlan
  <2> QED
    BY <2>4, <2>5
<1>5. CASE UNCHANGED vars
  BY <1>5 DEF vars, PlanInv, Types, UnderConstruction, OrderIrrelevant, CountsBounded, AutoPlan
<1> QED
  BY <1>1, <1>2, <1>3, <1>4, <1>5 DEF Next

(***************************************************************************)
(* In whatever order the builder's setters are called, the last explicit   *)
(* thread count and the last explicit stack size are what is built, and a  *)
(* stack nobody chose fits the thread count that is built.                 *)
(***************************************************************************)
THEOREM OrderTheorem == Spec => []OrderIrrelevant
<1>1. PlanInv => OrderIrrelevant
  BY DEF PlanInv
<1> QED
  BY InitPlan, PlanStep, <1>1, PTL DEF Spec

(***************************************************************************)
(* `pass` always gets a thread and a stack; a count nobody chose exceeds   *)
(* neither the work nor HARD_MAX_THREADS, and no value of --threads asks   *)
(* for more threads than there are items.                                  *)
(***************************************************************************)
THEOREM BoundTheorem == Spec => []PlanBounded
<1>1. PlanInv => PlanBounded
  <2> SUFFICES ASSUME PlanInv PROVE ResolveBounded
    BY DEF PlanInv, PlanBounded
  <2> DEFINE items == AtLeast(work, 1)
  <2>1. items \in Nat /\ items >= 1 /\ AtLeast(items, 1) = items /\ machine \in Machines
    BY DEF PlanInv, Types, AtLeast
  <2>2. Chosen(machine, items) \in 1..items
    BY <2>1, ChosenBounds
  <2>3. ASSUME NEW arg \in ThreadArgs PROVE Resolve(arg, machine, work) \in 1..items
    <3>1. CASE arg.how = "Auto"
      BY <2>2, <3>1 DEF Resolve
    <3>2. CASE arg.how = "Max"
      BY <2>1, <3>2, PlanAssumption DEF Resolve, AtMost
    <3>3. CASE arg.how = "Fixed" /\ arg.n \in Nat
      <4>1. Resolve(arg, machine, work) = AtLeast(AtMost(arg.n, items), 1)
        BY <3>3 DEF Resolve
      <4> HIDE DEF items
      <4> QED
        BY <2>1, <3>3, <4>1 DEF AtMost, AtLeast
    <3> QED
      BY <3>1, <3>2, <3>3, PlanAssumption DEF ThreadArgs
  <2>4. built /\ ~threadsSet => threads = Resolve([how |-> "Auto", n |-> 0], machine, work)
    BY DEF PlanInv, AutoPlan, Resolve
  <2> QED
    BY <2>3, <2>4 DEF ResolveBounded
<1> QED
  BY InitPlan, PlanStep, <1>1, PTL DEF Spec

(***************************************************************************)
(* The stacks of an automatic plan fit in 70% of the available memory,     *)
(* except where the cap brings the count down across the threshold of the  *)
(* stack size: there they fit in four times that.                          *)
(***************************************************************************)
THEOREM MemoryTheorem == Spec => []MemoryBounded
<1>1. PlanInv => MemoryBounded
  <2> SUFFICES ASSUME PlanInv, Automatic, OneFits
               PROVE  /\ threads * stack <= 4 * Usable(machine.mem)
                      /\ threads > ManyThreads \/ Base(machine, AtLeast(work, 1)) <= ManyThreads
                           => threads * stack <= Usable(machine.mem)
    BY DEF MemoryBounded
  <2>1. AtLeast(work, 1) \in Nat /\ machine \in Machines /\ machine.mem # Unknown
    BY DEF PlanInv, Types, AtLeast, Automatic
  <2>2. threads = Chosen(machine, AtLeast(work, 1)) /\ stack = AutoStack(machine, AtLeast(work, 1))
    BY DEF PlanInv, AutoPlan, Automatic
  <2> QED
    BY <2>1, <2>2, ChosenFits DEF OneFits
<1> QED
  BY InitPlan, PlanStep, <1>1, PTL DEF Spec
===========================================================================
