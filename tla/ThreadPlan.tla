---------------------------- MODULE ThreadPlan ----------------------------
(***************************************************************************)
(* How many worker threads a scan gets and how large their stacks are:     *)
(* `auto_threads` and `stack_size_for` of src/src/threads.rs,              *)
(* `ThreadArg::resolve` of src/src/cli.rs, and the builder of ScanCfg in   *)
(* src/src/scan.rs, whose setters may be called in any order.              *)
(*                                                                         *)
(* Memory is counted in units of 64 KiB, which every size in the code is a *)
(* multiple of: a quotient of bytes is the quotient of units.              *)
(***************************************************************************)
EXTENDS Integers

CONSTANTS
  Machines,       \* [cores, mem]: the cores and the megabytes available, or Unknown
  WorkItems,      \* targets.len() * ports.len() of a scan
  ThreadCounts,   \* what a caller may pass to threads() or --threads
  StackSizes,     \* what a caller may pass to stack_size()
  HardMaxThreads, \* HARD_MAX_THREADS
  ManyThreads,    \* 2000: above it stacks are small
  MaxCalls        \* bound: setter calls before build()

Unknown == -1

ASSUME PlanAssumption ==
  /\ Machines \subseteq [cores : Nat \ {0}, mem : Nat \union {Unknown}]
  /\ WorkItems \subseteq Nat
  /\ ThreadCounts \subseteq Nat
  /\ StackSizes \subseteq Nat
  /\ HardMaxThreads \in Nat \ {0}
  /\ ManyThreads \in Nat
  /\ MaxCalls \in Nat

VARIABLES
  machine, work,
  threads, stack,        \* the fields of the ScanCfg under construction
  threadsSet, stackSet,  \* threads_set, stack_set
  built,
  asked                  \* history: the last arguments of the setters, and their calls

vars == <<machine, work, threads, stack, threadsSet, stackSet, built, asked>>

AtMost(n, bound) == IF n <= bound THEN n ELSE bound
AtLeast(n, bound) == IF n >= bound THEN n ELSE bound

SmallStack == 4   \* 256 KiB
LargeStack == 16  \* 1 MiB
MinStack == 1     \* 64 KiB

StackSizeFor(n) == IF n > ManyThreads THEN SmallStack ELSE LargeStack

(* 70% of the available memory, in units. *)
Usable(mem) == (mem * 16 * 7) \div 10

\* Mutant: the work is not looked at.
Base_IgnoresWork(m, items) == AtLeast(AtMost(m.cores * 100, HardMaxThreads), 1)
Base(m, items) == AtLeast(AtMost(AtMost(m.cores * 100, items), HardMaxThreads), 1)

\* Mutant: the cap always assumes the small stack.
MemCap_SmallStack(m, n) == AtLeast(Usable(m.mem) \div SmallStack, 1)
(* How many threads fit, with the stack that n threads would get. *)
MemCap(m, n) == AtLeast(Usable(m.mem) \div StackSizeFor(n), 1)

Chosen(m, items) ==
  LET base == Base(m, items)
  IN IF m.mem = Unknown THEN base ELSE AtLeast(AtMost(base, MemCap(m, base)), 1)

AutoStack(m, items) == StackSizeFor(Chosen(m, items))

(* ThreadArg: --threads auto, max or a number, which is not 0. *)
ThreadArgs ==
  [how : {"Auto", "Max"}, n : {0}] \union [how : {"Fixed"}, n : ThreadCounts \ {0}]

\* Mutant: `max` is not limited by the work.
Resolve_MaxUnlimited(arg, m, items) ==
  CASE arg.how = "Auto" -> Chosen(m, AtLeast(items, 1))
    [] arg.how = "Max" -> HardMaxThreads
    [] arg.how = "Fixed" -> AtLeast(AtMost(arg.n, AtLeast(items, 1)), 1)
Resolve(arg, m, items) ==
  CASE arg.how = "Auto" -> Chosen(m, AtLeast(items, 1))
    [] arg.how = "Max" -> AtMost(HardMaxThreads, AtLeast(items, 1))
    [] arg.how = "Fixed" -> AtLeast(AtMost(arg.n, AtLeast(items, 1)), 1)

-----------------------------------------------------------------------------
Init ==
  /\ machine \in Machines
  /\ work \in WorkItems
  /\ threads = 0
  /\ stack = 0
  /\ threadsSet = FALSE
  /\ stackSet = FALSE
  /\ built = FALSE
  /\ asked = [threads |-> 0, stack |-> 0, calls |-> 0]

\* Mutant: threads() always chooses the stack, one set before it included.
FollowsThreads_Always == TRUE
FollowsThreads == ~stackSet

(* ScanCfgBuilder::threads *)
CallThreads(n) ==
  /\ ~built /\ asked.calls < MaxCalls
  /\ threads' = AtLeast(n, 1)
  /\ stack' = IF FollowsThreads THEN StackSizeFor(threads') ELSE stack
  /\ threadsSet' = TRUE
  /\ asked' = [threads |-> AtLeast(n, 1), stack |-> asked.stack, calls |-> asked.calls + 1]
  /\ UNCHANGED <<machine, work, stackSet, built>>

(* ScanCfgBuilder::stack_size *)
CallStackSize(n) ==
  /\ ~built /\ asked.calls < MaxCalls
  /\ stack' = AtLeast(n, MinStack)
  /\ stackSet' = TRUE
  /\ asked' = [threads |-> asked.threads, stack |-> AtLeast(n, MinStack), calls |-> asked.calls + 1]
  /\ UNCHANGED <<machine, work, threads, threadsSet, built>>

(* ScanCfgBuilder::build; a stack that is still 0 is one nobody chose. *)
Build ==
  /\ ~built
  /\ built' = TRUE
  /\ \/ /\ ~threadsSet
        /\ threads' = Chosen(machine, AtLeast(work, 1))
        /\ stack' = IF stackSet THEN stack ELSE AutoStack(machine, AtLeast(work, 1))
     \/ /\ threadsSet
        /\ stack' = IF stack = 0 THEN StackSizeFor(threads) ELSE stack
        /\ UNCHANGED threads
  /\ UNCHANGED <<machine, work, threadsSet, stackSet, asked>>

(* The library's callers set any count; the program resolves --threads first. *)
Next ==
  \/ \E n \in ThreadCounts : CallThreads(n)
  \/ \E arg \in ThreadArgs : CallThreads(Resolve(arg, machine, work))
  \/ \E n \in StackSizes : CallStackSize(n)
  \/ Build
  \/ built /\ UNCHANGED vars

Spec == Init /\ [][Next]_vars

-----------------------------------------------------------------------------
(***************************************************************************)
(* The order of the calls does not matter: what a caller asked for last is *)
(* what is built, and a stack nobody asked for is the one that fits the    *)
(* thread count that is built, not an earlier one.                         *)
(***************************************************************************)
OrderIrrelevant ==
  built =>
    /\ threadsSet => threads = asked.threads
    /\ stackSet => stack = asked.stack
    /\ ~stackSet => stack = StackSizeFor(threads)

CountsBounded ==
  /\ built => threads >= 1 /\ stack >= MinStack
  /\ built /\ ~threadsSet => threads <= AtLeast(work, 1) /\ threads <= HardMaxThreads

ResolveBounded ==
  /\ \A arg \in ThreadArgs : Resolve(arg, machine, work) \in 1..AtLeast(work, 1)
  /\ built /\ ~threadsSet =>
       threads = Resolve([how |-> "Auto", n |-> 0], machine, work)

(***************************************************************************)
(* However the thread count is come by, `pass` gets at least one thread    *)
(* and a stack of at least 64 KiB; a count the program chose exceeds       *)
(* neither the work nor HARD_MAX_THREADS.  --threads auto, max and a       *)
(* number never ask for more threads than there are items, and `auto` asks *)
(* for what a builder left alone would take.                               *)
(***************************************************************************)
PlanBounded == CountsBounded /\ ResolveBounded

(* The memory of all stacks of an automatic plan, where one thread fits. *)
Automatic == built /\ ~threadsSet /\ ~stackSet /\ machine.mem # Unknown
OneFits == Usable(machine.mem) >= LargeStack

(***************************************************************************)
(* What the code guarantees of memory: the stacks fit in 70% of what is    *)
(* available, unless the cap brought the count down across ManyThreads,    *)
(* where the stack grows fourfold; then they fit in four times that.       *)
(***************************************************************************)
MemoryBounded ==
  Automatic /\ OneFits =>
    /\ threads * stack <= 4 * Usable(machine.mem)
    /\ threads > ManyThreads \/ Base(machine, AtLeast(work, 1)) <= ManyThreads
         => threads * stack <= Usable(machine.mem)

(***************************************************************************)
(* The documented formula (threads.rs:30): chosen * stack_size is at most  *)
(* 70% of the available memory.                                            *)
(***************************************************************************)
MemoryRespected ==
  Automatic /\ OneFits => threads * stack <= Usable(machine.mem)
===========================================================================
