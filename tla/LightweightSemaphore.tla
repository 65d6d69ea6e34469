------------------------ MODULE LightweightSemaphore ------------------------
(***************************************************************************)
(* lightweightsemaphore.hpp: a count that threads change by atomic         *)
(* operations, and a kernel semaphore for those that have to sleep.        *)
(*                                                                         *)
(* A step is one atomic operation, or one call of the kernel semaphore.    *)
(* tryWait, wait and wait(timeout) are tryWaitMany and waitMany for one    *)
(* permit, so a caller has the number of permits it asks for in `max`.     *)
(***************************************************************************)
EXTENDS Integers, FiniteSets

CONSTANTS
  Threads,
  MaxSpins      \* m_maxSpins, 10000 in the code

ASSUME SpinsAssumption == MaxSpins \in Nat

VARIABLES
  m_count,      \* permits there are, or minus the threads that sleep without one
  m_sema,       \* the value of the kernel semaphore
  caller        \* what each thread does in the semaphore

semVars == <<m_count, m_sema, caller>>

(* "none" is tryWait, "zero" a timeout of 0, "some" a positive one, and      *)
(* "forever" a wait without timeout.                                         *)
Timeouts == {"none", "zero", "some", "forever"}

Outside == [pc |-> "out", max |-> 0, taken |-> 0, timeout |-> "none", old |-> 0,
            spins |-> 0, toRelease |-> 0]

SemInit ==
  /\ m_count = 0
  /\ m_sema = 0
  /\ caller = [t \in Threads |-> Outside]

Minimum(a, b) == IF a < b THEN a ELSE b

At(t, pc) == caller[t].pc = pc

(* The thread's next place, and the value it has loaded if it will use it. *)
Goes(t, pc, old) == caller' = [caller EXCEPT ![t].pc = pc, ![t].old = old]

Refused(t) == caller' = [caller EXCEPT ![t] = [Outside EXCEPT !.pc = "refused"]]

Granted(t, n) ==
  caller' = [caller EXCEPT ![t] = [Outside EXCEPT !.pc = "granted", !.taken = n]]

(* One permit after the count was lowered: a thread that asked for more tries *)
(* once for the rest.                                                        *)
GainsOne(t) ==
  IF caller[t].max = 1 THEN Granted(t, 1)
  ELSE caller' = [caller EXCEPT ![t].taken = 1, ![t].pc = "try", ![t].old = 0]

-----------------------------------------------------------------------------
(* wait, tryWait, waitMany, tryWaitMany. *)

Waits(t, max, timeout) ==
  /\ At(t, "out")
  /\ caller' = [caller EXCEPT ![t] = [Outside EXCEPT !.pc = "try", !.max = max,
                                        !.timeout = timeout, !.spins = MaxSpins]]
  /\ UNCHANGED <<m_count, m_sema>>

(* Nothing to take.  A thread that has a permit already is content with it. *)
TryFails(t) ==
  IF caller[t].taken > 0 THEN Granted(t, caller[t].taken)
  ELSE IF caller[t].timeout = "none" THEN Refused(t) ELSE Goes(t, "spin", 0)

TryLoads(t) ==
  /\ At(t, "try")
  /\ IF m_count > 0 THEN Goes(t, "tryCas", m_count) ELSE TryFails(t)
  /\ UNCHANGED <<m_count, m_sema>>

TryCas(t) ==
  /\ At(t, "tryCas")
  /\ IF m_count = caller[t].old
     THEN LET n == Minimum(m_count, caller[t].max - caller[t].taken)
          IN  m_count' = m_count - n /\ Granted(t, caller[t].taken + n)
     ELSE /\ IF m_count > 0 THEN Goes(t, "tryCas", m_count) ELSE TryFails(t)
          /\ UNCHANGED m_count
  /\ UNCHANGED m_sema

SpinLoads(t) ==
  /\ At(t, "spin")
  /\ LET self == caller[t]
     IN  caller' = [caller EXCEPT ![t] =
           IF self.spins = 0 THEN [self EXCEPT !.pc = "sub"]
           ELSE IF m_count <= 0 THEN [self EXCEPT !.spins = self.spins - 1]
           ELSE [self EXCEPT !.spins = self.spins - 1, !.pc = "spinCas", !.old = m_count]]
  /\ UNCHANGED <<m_count, m_sema>>

SpinCas(t) ==
  /\ At(t, "spinCas")
  /\ IF m_count = caller[t].old
     THEN LET n == Minimum(m_count, caller[t].max)
          IN  m_count' = m_count - n /\ Granted(t, n)
     ELSE Goes(t, "spin", 0) /\ UNCHANGED m_count
  /\ UNCHANGED m_sema

(* Mutant: a count of 0 is taken for a permit. *)
SubtractsFromNone(t) ==
  /\ At(t, "sub")
  /\ m_count' = m_count - 1
  /\ IF m_count >= 0 THEN GainsOne(t)
     ELSE Goes(t, IF caller[t].timeout = "zero" THEN "timedOut" ELSE "asleep", 0)
  /\ UNCHANGED m_sema

(* fetch_sub.  With nothing to take, the thread is now counted as asleep. *)
Subtracts(t) ==
  /\ At(t, "sub")
  /\ m_count' = m_count - 1
  /\ IF m_count > 0 THEN GainsOne(t)
     ELSE Goes(t, IF caller[t].timeout = "zero" THEN "timedOut" ELSE "asleep", 0)
  /\ UNCHANGED m_sema

Wakes(t) ==
  /\ At(t, "asleep")
  /\ m_sema > 0
  /\ m_sema' = m_sema - 1
  /\ GainsOne(t)
  /\ UNCHANGED m_count

TimesOut(t) ==
  /\ At(t, "asleep")
  /\ caller[t].timeout = "some"
  /\ m_sema = 0
  /\ Goes(t, "timedOut", 0)
  /\ UNCHANGED <<m_count, m_sema>>

(* Mutant: the thread always takes its part of the count back. *)
LeavesAnyway(t) ==
  /\ At(t, "timedOut")
  /\ Goes(t, "adjust", m_count)
  /\ UNCHANGED <<m_count, m_sema>>

(* The count still counts the thread as asleep.  It may take that back while *)
(* the count is negative; otherwise a signal has counted it in, and has      *)
(* posted for it or is about to.                                             *)
LooksAgain(t) ==
  /\ At(t, "timedOut")
  /\ IF m_count >= 0 THEN Goes(t, "tryPost", 0) ELSE Goes(t, "adjust", m_count)
  /\ UNCHANGED <<m_count, m_sema>>

TriesPost(t) ==
  /\ At(t, "tryPost")
  /\ IF m_sema > 0
     THEN m_sema' = m_sema - 1 /\ GainsOne(t)
     ELSE Goes(t, "timedOut", 0) /\ UNCHANGED m_sema
  /\ UNCHANGED m_count

Adjusts(t) ==
  /\ At(t, "adjust")
  /\ IF m_count = caller[t].old
     THEN m_count' = m_count + 1 /\ Refused(t)
     ELSE Goes(t, "timedOut", 0) /\ UNCHANGED m_count
  /\ UNCHANGED m_sema

-----------------------------------------------------------------------------
(* signal: one fetch_add, then a post for each thread it counts in. *)

(* Mutant: nobody is woken. *)
SignalsOnlyCount(t, count) ==
  /\ At(t, "out")
  /\ m_count' = m_count + count
  /\ UNCHANGED <<m_sema, caller>>

Signals(t, count) ==
  /\ At(t, "out")
  /\ LET toRelease == Minimum(-m_count, count)
     IN  caller' = [caller EXCEPT ![t] = IF toRelease > 0
                      THEN [Outside EXCEPT !.pc = "posting", !.toRelease = toRelease]
                      ELSE Outside]
  /\ m_count' = m_count + count
  /\ UNCHANGED m_sema

Posts(t) ==
  /\ At(t, "posting")
  /\ m_sema' = m_sema + 1
  /\ LET self == caller[t]
     IN  caller' = [caller EXCEPT ![t] = IF self.toRelease = 1 THEN Outside
                                        ELSE [self EXCEPT !.toRelease = self.toRelease - 1]]
  /\ UNCHANGED m_count

availableApprox == IF m_count > 0 THEN m_count ELSE 0

SemStep(t) ==
  \/ TryLoads(t) \/ TryCas(t) \/ SpinLoads(t) \/ SpinCas(t) \/ Subtracts(t)
  \/ Wakes(t) \/ TimesOut(t) \/ LooksAgain(t) \/ TriesPost(t) \/ Adjusts(t)
  \/ Posts(t)

-----------------------------------------------------------------------------
(* Counted as asleep: between the fetch_sub and a permit or the adjustment. *)
Sleepers == {t \in Threads : caller[t].pc \in {"asleep", "timedOut", "tryPost", "adjust"}}

(* Sleepers that a signal has counted in. *)
CountedIn == Cardinality(Sleepers) + Minimum(m_count, 0)

(* The numbers f[t] of all threads in S together, one pair for each unit.    *)
Total(f, S) == Cardinality(UNION {{t} \X (1 .. f[t]) : t \in S})

(* Posts still to be made. *)
Posting == Total([t \in Threads |-> caller[t].toRelease], Threads)
=============================================================================
