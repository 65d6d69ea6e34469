------------------------- MODULE BlockingQueueProofs -------------------------
(***************************************************************************)
(* BlockingQueue for any finite number of threads, any bulk and any number *)
(* of spins: posts match the sleepers they are for, and permits match the  *)
(* elements.  Both are equations between totals over the threads; how the  *)
(* step of one thread changes a total comes first.                         *)
(***************************************************************************)
EXTENDS BlockingQueue, FiniteSetTheorems, TLAPS

-----------------------------------------------------------------------------
(* The inductive invariant *)

SleeperPcs == {"asleep", "timedOut", "tryPost", "adjust"}
WaiterPcs == {"try", "tryCas", "spin", "spinCas", "sub"} \cup SleeperPcs
Pcs == WaiterPcs \cup {"out", "granted", "refused", "posting"}

Callers ==
  [pc : Pcs, max : Nat, taken : Nat, timeout : Timeouts, old : Int, spins : Nat, toRelease : Nat]

(* What a caller holds where it is: at most one permit before it is done,   *)
(* and only on the second try; a count it has loaded to take from is        *)
(* positive, and one it has loaded to take itself back from is negative.    *)
IsCaller(c) ==
  /\ c \in Callers
  /\ c.pc \in WaiterPcs => c.max >= 1
  /\ c.pc \in {"try", "tryCas"} => c.taken <= 1 /\ c.taken < c.max
  /\ c.pc \notin {"try", "tryCas", "granted"} => c.taken = 0
  /\ c.pc \in {"tryCas", "spinCas"} => c.old > 0
  /\ c.pc = "adjust" => c.old < 0
  /\ c.pc = "granted" => c.taken >= 1
  /\ c.pc = "posting" <=> c.toRelease > 0

Types ==
  /\ m_count \in Int
  /\ m_sema \in Nat
  /\ caller \in [Threads -> Callers]
  /\ \A t \in Threads : IsCaller(caller[t])
  /\ \A t \in Senders : caller[t].pc \in {"out", "posting"}
  /\ elements \in Nat
  /\ sent \in Nat
  /\ unsignalled \in [Threads -> Nat]

Balance ==
  elements = size_approx + InHand + CountedIn + Total(unsignalled, Senders)

IndInv ==
  /\ Types
  /\ WakeupsMatchSleepers
  /\ Balance

-----------------------------------------------------------------------------
(* Totals *)

Units(f, S) == UNION {{t} \X (1 .. f[t]) : t \in S}

LEMMA PartIs ==
  ASSUME NEW t, NEW n \in Nat
  PROVE  IsFiniteSet({t} \X (1 .. n)) /\ Cardinality({t} \X (1 .. n)) = n
<1>1. IsFiniteSet({t}) /\ Cardinality({t}) = 1
  BY FS_Singleton
<1>2. IsFiniteSet(1 .. n) /\ Cardinality(1 .. n) = n
  BY FS_Interval
<1>3. /\ IsFiniteSet({t} \X (1 .. n))
      /\ Cardinality({t} \X (1 .. n)) = Cardinality({t}) * Cardinality(1 .. n)
  <2>. DEFINE one == {t}
              range == 1 .. n
  <2>. HIDE DEF one, range
  <2>1. IsFiniteSet(one \X range) /\ Cardinality(one \X range) = Cardinality(one) * Cardinality(range)
    <3>1. IsFiniteSet(one) /\ IsFiniteSet(range)
      BY <1>1, <1>2 DEF one, range
    <3>. QED
      BY <3>1, FS_Product
  <2>. QED
    BY <2>1 DEF one, range
<1>. QED
  BY <1>1, <1>2, <1>3

LEMMA UnitsAre ==
  ASSUME NEW S, IsFiniteSet(S), NEW f, \A t \in S : f[t] \in Nat
  PROVE  IsFiniteSet(Units(f, S)) /\ Total(f, S) = Cardinality(Units(f, S)) /\ Total(f, S) \in Nat
<1>. DEFINE parts == {{t} \X (1 .. f[t]) : t \in S}
            part == [t \in S |-> {t} \X (1 .. f[t])]
<1>1. \A t \in S : IsFiniteSet({t} \X (1 .. f[t]))
  BY PartIs
<1>2. IsFiniteSet(parts)
  <2>1. part \in Surjection(S, parts)
    BY DEF Surjection
  <2>. HIDE DEF part, parts
  <2>. QED
    BY <2>1, FS_Surjection
<1>3. IsFiniteSet(UNION parts)
  BY <1>1, <1>2, FS_UNION
<1>. QED
  BY <1>3, FS_CardinalityType DEF Units, Total

LEMMA TotalIsNat ==
  ASSUME NEW S, IsFiniteSet(S), NEW f, \A t \in S : f[t] \in Nat
  PROVE  /\ Total(f, S) \in Nat
         /\ (\A t \in S : f[t] = 0) => Total(f, S) = 0
<1>1. ASSUME \A t \in S : f[t] = 0
      PROVE  Units(f, S) = {}
  BY <1>1 DEF Units
<1>. QED
  BY <1>1, UnitsAre, FS_EmptySet

LEMMA TotalStays ==
  ASSUME NEW S, NEW f, NEW h, \A t \in S : h[t] = f[t]
  PROVE  Total(h, S) = Total(f, S)
<1>1. Units(h, S) = Units(f, S)
  BY DEF Units
<1>. QED
  BY <1>1 DEF Units, Total

LEMMA TotalChanges ==
  ASSUME NEW S, IsFiniteSet(S), NEW f, NEW h, NEW a \in S,
         \A t \in S : f[t] \in Nat /\ h[t] \in Nat,
         \A t \in S \ {a} : h[t] = f[t]
  PROVE  Total(h, S) = Total(f, S) + (h[a] - f[a])
<1>. DEFINE others == Units(f, S \ {a})
<1>1. IsFiniteSet(others) /\ Cardinality(others) \in Nat
  BY FS_Subset, UnitsAre, FS_CardinalityType
<1>2. /\ Units(f, S) = others \cup ({a} \X (1 .. f[a]))
      /\ Units(h, S) = others \cup ({a} \X (1 .. h[a]))
  BY DEF Units
<1>3. /\ others \cap ({a} \X (1 .. f[a])) = {}
      /\ others \cap ({a} \X (1 .. h[a])) = {}
  BY DEF Units
<1>. HIDE DEF others
<1>4. /\ Cardinality(Units(f, S)) = Cardinality(others) + f[a]
      /\ Cardinality(Units(h, S)) = Cardinality(others) + h[a]
  <2>1. ASSUME NEW n \in Nat, others \cap ({a} \X (1 .. n)) = {}
        PROVE  Cardinality(others \cup ({a} \X (1 .. n))) = Cardinality(others) + n
    <3>. DEFINE part == {a} \X (1 .. n)
    <3>1. IsFiniteSet(part) /\ Cardinality(part) = n /\ others \cap part = {}
      BY <2>1, PartIs
    <3>. HIDE DEF part
    <3>2. Cardinality(others \cup part) = Cardinality(others) + n - 0
      BY <1>1, <3>1, FS_Union, FS_EmptySet
    <3>. QED
      BY <1>1, <3>2 DEF part
  <2>. QED
    BY <1>2, <1>3, <2>1
<1>. QED
  BY <1>1, <1>4, UnitsAre

-----------------------------------------------------------------------------
(* One thread's step and the totals *)

Asleep(c) == IF c.pc \in SleeperPcs THEN 1 ELSE 0

(* The step makes c the caller of t, and what it does to the counts is what *)
(* it does to the thread's part of each sum.                                *)
Fits(t, c) ==
  /\ IsCaller(c)
  /\ t \in Senders => c.pc \in {"out", "posting"}
  /\ caller' = [caller EXCEPT ![t] = c]
  /\ m_count' \in Int
  /\ m_sema' \in Nat
  /\ elements' \in Nat
  /\ sent' \in Nat
  /\ unsignalled' \in [Threads -> Nat]
  /\ \A u \in Threads \ {t} : unsignalled'[u] = unsignalled[u]
  /\ t \in Takers => unsignalled'[t] = unsignalled[t]
  /\ (m_sema' - m_sema) + (c.toRelease - caller[t].toRelease)
       = (Asleep(c) - Asleep(caller[t])) + (Minimum(m_count', 0) - Minimum(m_count, 0))
  /\ elements' - elements
       = (m_count' - m_count) + (c.taken - caller[t].taken) + (Asleep(c) - Asleep(caller[t]))
           + (unsignalled'[t] - unsignalled[t])

LEMMA Finite == IsFiniteSet(Threads) /\ IsFiniteSet(Senders) /\ IsFiniteSet(Takers)
<1>1. Senders \in SUBSET Threads /\ Takers \in SUBSET Threads
  BY QueueThreads
<1>. QED
  BY <1>1, QueueThreads, FS_Subset

LEMMA PostingTotal ==
  ASSUME Types
  PROVE  /\ Posting \in Nat
         /\ \A t \in Threads : \A c : Fits(t, c) => Posting' = Posting + (c.toRelease - caller[t].toRelease)
<1>. DEFINE f == [t \in Threads |-> caller[t].toRelease]
            h == [t \in Threads |-> caller'[t].toRelease]
<1>1. \A t \in Threads : f[t] \in Nat
  BY DEF Types, Callers
<1>2. Posting = Total(f, Threads) /\ Posting' = Total(h, Threads)
  BY DEF Posting
<1>3. Posting \in Nat
  BY <1>1, <1>2, Finite, TotalIsNat
<1>4. ASSUME NEW t \in Threads, NEW c, Fits(t, c)
      PROVE  Posting' = Posting + (c.toRelease - caller[t].toRelease)
  <2>1. h[t] = c.toRelease /\ \A u \in Threads \ {t} : h[u] = f[u]
    BY <1>4 DEF Fits, Types
  <2>2. c.toRelease \in Nat
    BY <1>4 DEF Fits, IsCaller, Callers
  <2>3. \A u \in Threads : f[u] \in Nat /\ h[u] \in Nat
    BY <1>1, <2>1, <2>2
  <2>. HIDE DEF f, h
  <2>4. Total(h, Threads) = Total(f, Threads) + (h[t] - f[t])
    BY <2>1, <2>3, Finite, TotalChanges
  <2>5. f[t] = caller[t].toRelease
    BY DEF f
  <2>. QED
    BY <1>2, <2>1, <2>4, <2>5
<1>. QED
  BY <1>3, <1>4

LEMMA InHandTotal ==
  ASSUME Types
  PROVE  /\ InHand \in Nat
         /\ \A t \in Threads : \A c : Fits(t, c) => InHand' = InHand + (c.taken - caller[t].taken)
<1>. DEFINE f == [t \in Takers |-> caller[t].taken]
            h == [t \in Takers |-> caller'[t].taken]
<1>1. \A t \in Takers : f[t] \in Nat
  BY QueueThreads DEF Types, Callers
<1>2. InHand = Total(f, Takers) /\ InHand' = Total(h, Takers)
  BY DEF InHand
<1>3. InHand \in Nat
  BY <1>1, <1>2, Finite, TotalIsNat
<1>4. ASSUME NEW t \in Threads, NEW c, Fits(t, c)
      PROVE  InHand' = InHand + (c.taken - caller[t].taken)
  <2>1. /\ \A u \in Takers \ {t} : h[u] = f[u]
        /\ t \in Takers => h[t] = c.taken
    BY <1>4, QueueThreads DEF Fits, Types
  <2>2. c.taken \in Nat /\ caller[t].taken \in Nat
    BY <1>4 DEF Fits, IsCaller, Types, Callers
  <2>3. \A u \in Takers : f[u] \in Nat /\ h[u] \in Nat
    BY <1>1, <2>1, <2>2
  <2>4. t \in Takers => f[t] = caller[t].taken
    OBVIOUS
  <2>5. CASE t \in Takers
    <3>. HIDE DEF f, h
    <3>1. Total(h, Takers) = Total(f, Takers) + (h[t] - f[t])
      BY <2>1, <2>3, <2>5, Finite, TotalChanges
    <3>. QED
      BY <1>2, <2>1, <2>4, <2>5, <3>1
  <2>6. CASE t \in Senders
    <3>1. t \notin Takers
      BY <2>6, QueueThreads
    <3>2. c.taken = 0 /\ caller[t].taken = 0
      BY <1>4, <2>6 DEF Fits, IsCaller, Types
    <3>. HIDE DEF f, h
    <3>3. Total(h, Takers) = Total(f, Takers)
      BY <2>1, <2>3, <3>1, Finite, TotalStays
    <3>. QED
      BY <1>2, <1>3, <3>2, <3>3
  <2>. QED
    BY <2>5, <2>6, QueueThreads
<1>. QED
  BY <1>3, <1>4

LEMMA SleepersCount ==
  ASSUME Types
  PROVE  /\ Cardinality(Sleepers) \in Nat
         /\ \A t \in Threads : \A c : Fits(t, c) =>
              Cardinality(Sleepers') = Cardinality(Sleepers) + (Asleep(c) - Asleep(caller[t]))
<1>1. IsFiniteSet(Sleepers) /\ Cardinality(Sleepers) \in Nat
  <2>1. Sleepers \in SUBSET Threads
    BY DEF Sleepers
  <2>. QED
    BY <2>1, Finite, FS_Subset, FS_CardinalityType
<1>2. ASSUME NEW t \in Threads, NEW c, Fits(t, c)
      PROVE  Cardinality(Sleepers') = Cardinality(Sleepers) + (Asleep(c) - Asleep(caller[t]))
  <2>1. Sleepers' = IF c.pc \in SleeperPcs THEN Sleepers \cup {t} ELSE Sleepers \ {t}
    BY <1>2 DEF Fits, Types, Sleepers, SleeperPcs
  <2>2. t \in Sleepers <=> caller[t].pc \in SleeperPcs
    BY DEF Sleepers, SleeperPcs
  <2>3. CASE c.pc \in SleeperPcs
    <3>1. Cardinality(Sleepers')
            = IF t \in Sleepers THEN Cardinality(Sleepers) ELSE Cardinality(Sleepers) + 1
      BY <1>1, <2>1, <2>3, FS_AddElement
    <3>. QED
      BY <1>1, <2>2, <2>3, <3>1 DEF Asleep
  <2>4. CASE c.pc \notin SleeperPcs
    <3>1. Cardinality(Sleepers')
            = IF t \in Sleepers THEN Cardinality(Sleepers) - 1 ELSE Cardinality(Sleepers)
      BY <1>1, <2>1, <2>4, FS_RemoveElement
    <3>. QED
      BY <1>1, <2>2, <2>4, <3>1 DEF Asleep
  <2>. QED
    BY <2>3, <2>4
<1>. QED
  BY <1>1, <1>2

LEMMA UnsignalledTotal ==
  ASSUME Types
  PROVE  /\ Total(unsignalled, Senders) \in Nat
         /\ \A t \in Threads : \A c : Fits(t, c) =>
              Total(unsignalled', Senders)
                = Total(unsignalled, Senders) + (unsignalled'[t] - unsignalled[t])
<1>1. \A t \in Threads : unsignalled[t] \in Nat
  BY DEF Types
<1>2. Total(unsignalled, Senders) \in Nat
  BY <1>1, Finite, TotalIsNat, QueueThreads
<1>3. ASSUME NEW t \in Threads, NEW c, Fits(t, c)
      PROVE  Total(unsignalled', Senders)
               = Total(unsignalled, Senders) + (unsignalled'[t] - unsignalled[t])
  <2>1. \A u \in Threads : unsignalled[u] \in Nat /\ unsignalled'[u] \in Nat
    BY <1>1, <1>3 DEF Fits
  <2>2. \A u \in Senders \ {t} : unsignalled'[u] = unsignalled[u]
    BY <1>3, QueueThreads DEF Fits
  <2>3. CASE t \in Senders
    <3>1. \A u \in Senders : unsignalled[u] \in Nat /\ unsignalled'[u] \in Nat
      BY <2>1, QueueThreads
    <3>. DEFINE f == unsignalled
                h == unsignalled'
    <3>2. /\ \A u \in Senders : f[u] \in Nat /\ h[u] \in Nat
          /\ \A u \in Senders \ {t} : h[u] = f[u]
      BY <2>2, <3>1
    <3>. HIDE DEF f, h
    <3>3. Total(h, Senders) = Total(f, Senders) + (h[t] - f[t])
      BY <2>3, <3>2, Finite, TotalChanges
    <3>. QED
      BY <3>3 DEF f, h
  <2>4. CASE t \in Takers
    <3>1. unsignalled'[t] = unsignalled[t] /\ t \notin Senders
      BY <1>3, <2>4, QueueThreads DEF Fits
    <3>2. Total(unsignalled', Senders) = Total(unsignalled, Senders)
      BY <2>1, <2>2, <3>1, QueueThreads, Finite, TotalStays
    <3>. QED
      BY <1>1, <1>2, <3>1, <3>2
  <2>. QED
    BY <2>3, <2>4, QueueThreads
<1>. QED
  BY <1>2, <1>3

(* The step of a thread that fits preserves the invariant. *)
LEMMA FitsInv ==
  ASSUME IndInv, NEW t \in Threads, NEW c, Fits(t, c)
  PROVE  IndInv'
<1>1. Types'
  <2>1. /\ m_count' \in Int /\ m_sema' \in Nat /\ elements' \in Nat /\ sent' \in Nat
        /\ unsignalled' \in [Threads -> Nat]
    BY DEF Fits
  <2>2. /\ caller' \in [Threads -> Callers]
        /\ \A u \in Threads : IsCaller(caller'[u])
        /\ \A u \in Senders : caller'[u].pc \in {"out", "posting"}
    BY QueueThreads DEF IndInv, Types, Fits, IsCaller
  <2>. QED
    BY <2>1, <2>2 DEF Types, IsCaller
<1>2. /\ m_count \in Int /\ m_count' \in Int /\ m_sema \in Nat /\ m_sema' \in Nat
      /\ elements \in Nat /\ elements' \in Nat
      /\ Asleep(c) \in {0, 1} /\ Asleep(caller[t]) \in {0, 1}
      /\ c.taken \in Nat /\ caller[t].taken \in Nat
      /\ c.toRelease \in Nat /\ caller[t].toRelease \in Nat
      /\ unsignalled[t] \in Nat /\ unsignalled'[t] \in Nat
  BY DEF IndInv, Types, Fits, IsCaller, Callers, Asleep
<1>3. Minimum(m_count, 0) \in Int /\ Minimum(m_count', 0) \in Int
  BY <1>2 DEF Minimum
<1>4. WakeupsMatchSleepers'
  <2>1. m_sema + Posting = Cardinality(Sleepers) + Minimum(m_count, 0)
    BY DEF IndInv, WakeupsMatchSleepers, CountedIn
  <2>2. /\ Posting \in Nat /\ Posting' = Posting + (c.toRelease - caller[t].toRelease)
        /\ Cardinality(Sleepers) \in Nat
        /\ Cardinality(Sleepers') = Cardinality(Sleepers) + (Asleep(c) - Asleep(caller[t]))
    BY PostingTotal, SleepersCount DEF IndInv
  <2>3. (m_sema' - m_sema) + (c.toRelease - caller[t].toRelease)
          = (Asleep(c) - Asleep(caller[t])) + (Minimum(m_count', 0) - Minimum(m_count, 0))
    BY DEF Fits
  <2>4. m_sema' + Posting' = Cardinality(Sleepers') + Minimum(m_count', 0)
    BY <1>2, <1>3, <2>1, <2>2, <2>3
  <2>. QED
    BY <2>4 DEF WakeupsMatchSleepers, CountedIn
<1>5. Balance'
  <2>1. elements = m_count + InHand + Cardinality(Sleepers) + Total(unsignalled, Senders)
    BY <1>2, InHandTotal, SleepersCount, UnsignalledTotal
       DEF IndInv, Balance, size_approx, availableApprox, CountedIn, Minimum
  <2>2. /\ InHand \in Nat /\ InHand' = InHand + (c.taken - caller[t].taken)
        /\ Cardinality(Sleepers) \in Nat
        /\ Cardinality(Sleepers') = Cardinality(Sleepers) + (Asleep(c) - Asleep(caller[t]))
    BY InHandTotal, SleepersCount DEF IndInv
  <2>3. /\ Total(unsignalled, Senders) \in Nat
        /\ Total(unsignalled', Senders)
             = Total(unsignalled, Senders) + (unsignalled'[t] - unsignalled[t])
    BY UnsignalledTotal DEF IndInv
  <2>4. elements' - elements
          = (m_count' - m_count) + (c.taken - caller[t].taken) + (Asleep(c) - Asleep(caller[t]))
              + (unsignalled'[t] - unsignalled[t])
    BY DEF Fits
  <2>5. /\ InHand' \in Int /\ Cardinality(Sleepers') \in Int
        /\ Total(unsignalled', Senders) \in Int
    BY <1>2, <2>2, <2>3
  <2>6. elements'
          = m_count' + InHand' + Cardinality(Sleepers') + Total(unsignalled', Senders)
    <3>1. \A e, f, m, n, h, i, k, l, u, v, a, b, d \in Int :
            /\ e = m + h + k + u
            /\ i = h + a
            /\ l = k + b
            /\ v = u + d
            /\ f - e = (n - m) + a + b + d
            => f = n + i + l + v
      OBVIOUS
    <3>2. /\ c.taken - caller[t].taken \in Int /\ Asleep(c) - Asleep(caller[t]) \in Int
          /\ unsignalled'[t] - unsignalled[t] \in Int
      BY <1>2
    <3>. QED
      BY <1>2, <2>1, <2>2, <2>3, <2>4, <2>5, <3>1, <3>2
  <2>. QED
    BY <1>2, <2>5, <2>6 DEF Balance, size_approx, availableApprox, CountedIn, Minimum
<1>. QED
  BY <1>1, <1>4, <1>5 DEF IndInv

-----------------------------------------------------------------------------
(* The callers a step can make *)

Gone(c, pc, old) == [c EXCEPT !.pc = pc, !.old = old]
Grant(n) == [Outside EXCEPT !.pc = "granted", !.taken = n]
Refusal == [Outside EXCEPT !.pc = "refused"]
Gained(c) == IF c.max = 1 THEN Grant(1) ELSE [c EXCEPT !.taken = 1, !.pc = "try", !.old = 0]

LEMMA OutsideIs ==
  /\ IsCaller(Outside) /\ Outside.pc = "out" /\ Outside.taken = 0 /\ Outside.toRelease = 0
  /\ Asleep(Outside) = 0
BY DEF Outside, IsCaller, Callers, Pcs, WaiterPcs, SleeperPcs, Timeouts, Asleep

LEMMA GrantIs ==
  ASSUME NEW n \in Nat \ {0}
  PROVE  IsCaller(Grant(n)) /\ Grant(n).taken = n /\ Grant(n).toRelease = 0 /\ Asleep(Grant(n)) = 0
<1>1. Outside \in Callers /\ Outside.toRelease = 0
  BY OutsideIs DEF IsCaller
<1>2. PICK pc \in Pcs : pc = "granted"
  BY DEF Pcs
<1>3. PICK o \in Callers : o = Outside
  BY <1>1
<1>4. [o EXCEPT !.pc = pc, !.taken = n] \in Callers
  BY DEF Callers
<1>5. Grant(n) = [o EXCEPT !.pc = pc, !.taken = n]
  BY <1>2, <1>3 DEF Grant
<1>6. Grant(n).pc = pc /\ Grant(n).taken = n /\ Grant(n).toRelease = 0
  BY <1>1, <1>3, <1>5 DEF Callers
<1>. QED
  BY <1>2, <1>4, <1>5, <1>6 DEF IsCaller, WaiterPcs, SleeperPcs, Asleep

LEMMA RefusalIs ==
  IsCaller(Refusal) /\ Refusal.taken = 0 /\ Refusal.toRelease = 0 /\ Asleep(Refusal) = 0
BY DEF Refusal, Outside, IsCaller, Callers, Pcs, WaiterPcs, SleeperPcs, Timeouts, Asleep

LEMMA GainedIs ==
  ASSUME NEW c, IsCaller(c), c.pc \in {"sub", "asleep", "tryPost"}
  PROVE  IsCaller(Gained(c)) /\ Gained(c).taken = 1 /\ Gained(c).toRelease = 0 /\ Asleep(Gained(c)) = 0
<1>1. CASE c.max = 1
  BY <1>1, GrantIs DEF Gained
<1>2. CASE c.max # 1
  <2>1. c \in Callers /\ c.max \in Nat /\ c.max > 1 /\ c.toRelease = 0
    BY <1>2 DEF IsCaller, Callers, WaiterPcs, SleeperPcs
  <2>2. PICK pc \in Pcs, one \in Nat, zero \in Int : pc = "try" /\ one = 1 /\ zero = 0
    BY DEF Pcs, WaiterPcs
  <2>3. Gained(c) = [c EXCEPT !.taken = one, !.pc = pc, !.old = zero]
    BY <1>2, <2>2 DEF Gained
  <2>4. Gained(c) \in Callers
    BY <2>1, <2>3 DEF Callers
  <2>5. /\ Gained(c).pc = pc /\ Gained(c).taken = one
        /\ Gained(c).max = c.max /\ Gained(c).toRelease = c.toRelease
    <3>. HIDE DEF Gained
    <3>. QED
      BY <2>1, <2>3 DEF Callers
  <2>. QED
    BY <2>1, <2>2, <2>4, <2>5 DEF IsCaller, WaiterPcs, SleeperPcs, Asleep
<1>. QED
  BY <1>1, <1>2

LEMMA GoneIs ==
  ASSUME NEW c, IsCaller(c), NEW pc \in WaiterPcs, c.pc \in WaiterPcs, NEW old \in Int,
         pc \in {"tryCas", "spinCas"} => old > 0,
         pc = "adjust" => old < 0,
         pc \in {"try", "tryCas"} => c.pc \in {"try", "tryCas"},
         pc \notin {"try", "tryCas"} => c.taken = 0
  PROVE  /\ IsCaller(Gone(c, pc, old))
         /\ Gone(c, pc, old).taken = c.taken
         /\ Gone(c, pc, old).toRelease = c.toRelease
         /\ Gone(c, pc, old).pc = pc
BY DEF Gone, IsCaller, Callers, Pcs, WaiterPcs, SleeperPcs

(* Which caller each of the model's operators makes. *)
LEMMA Makes ==
  ASSUME Types, NEW t \in Threads
  PROVE  /\ \A pc, old : Goes(t, pc, old) => caller' = [caller EXCEPT ![t] = Gone(caller[t], pc, old)]
         /\ \A n : Granted(t, n) => caller' = [caller EXCEPT ![t] = Grant(n)]
         /\ Refused(t) => caller' = [caller EXCEPT ![t] = Refusal]
         /\ GainsOne(t) => caller' = [caller EXCEPT ![t] = Gained(caller[t])]
<1>1. caller \in [Threads -> Callers]
  BY DEF Types
<1>2. ASSUME NEW pc, NEW old, Goes(t, pc, old)
      PROVE  caller' = [caller EXCEPT ![t] = Gone(caller[t], pc, old)]
  BY <1>1, <1>2 DEF Goes, Gone, Callers
<1>3. ASSUME NEW n, Granted(t, n)
      PROVE  caller' = [caller EXCEPT ![t] = Grant(n)]
  BY <1>3 DEF Granted, Grant
<1>4. ASSUME Refused(t)
      PROVE  caller' = [caller EXCEPT ![t] = Refusal]
  BY <1>4 DEF Refused, Refusal
<1>5. ASSUME GainsOne(t)
      PROVE  caller' = [caller EXCEPT ![t] = Gained(caller[t])]
  BY <1>1, <1>3, <1>5 DEF GainsOne, Gained, Callers
<1>. QED
  BY <1>2, <1>3, <1>4, <1>5

-----------------------------------------------------------------------------
(* The steps in the semaphore *)

OthersStay == UNCHANGED <<elements, sent, unsignalled>>

(* A step in the semaphore fits when the count, the thread's permits and    *)
(* its sleeping change together, and so do the posts and those counted in.  *)
LEMMA SemFits ==
  ASSUME Types, OthersStay, NEW t \in Takers, NEW c, IsCaller(c),
         caller' = [caller EXCEPT ![t] = c],
         m_count' \in Int,
         m_sema' \in Nat,
         m_count' + c.taken + Asleep(c) = m_count + caller[t].taken + Asleep(caller[t]),
         m_sema' + c.toRelease + Asleep(caller[t]) + Minimum(m_count, 0)
           = m_sema + caller[t].toRelease + Asleep(c) + Minimum(m_count', 0)
  PROVE  Fits(t, c)
<1>1. t \in Threads /\ t \notin Senders
  BY QueueThreads
<1>2. IsCaller(caller[t])
  BY <1>1 DEF Types
<1>3. /\ c.taken \in Int /\ c.toRelease \in Int /\ Asleep(c) \in Int
      /\ caller[t].taken \in Int /\ caller[t].toRelease \in Int /\ Asleep(caller[t]) \in Int
      /\ m_count \in Int /\ m_sema \in Int
      /\ Minimum(m_count, 0) \in Int /\ Minimum(m_count', 0) \in Int
  BY <1>2 DEF IsCaller, Callers, Asleep, Types, Minimum
<1>4. /\ elements' = elements /\ elements \in Nat /\ sent' = sent /\ sent \in Nat
      /\ unsignalled' = unsignalled /\ unsignalled \in [Threads -> Nat]
  BY DEF OthersStay, Types
<1>5. (m_sema' - m_sema) + (c.toRelease - caller[t].toRelease)
       = (Asleep(c) - Asleep(caller[t])) + (Minimum(m_count', 0) - Minimum(m_count, 0))
  BY <1>3
<1>6. elements' - elements
       = (m_count' - m_count) + (c.taken - caller[t].taken) + (Asleep(c) - Asleep(caller[t]))
           + (unsignalled'[t] - unsignalled[t])
  BY <1>1, <1>3, <1>4
<1>. QED
  BY <1>1, <1>4, <1>5, <1>6 DEF Fits

(* A thread that has loaded no count of use keeps what it has or gives up.  *)
LEMMA TryFailsFits ==
  ASSUME Types, OthersStay, NEW t \in Takers, caller[t].pc \in {"try", "tryCas"}, TryFails(t),
         UNCHANGED <<m_count, m_sema>>
  PROVE  \E c : Fits(t, c)
<1>. DEFINE o == caller[t]
<1>1. t \in Threads /\ IsCaller(o) /\ Asleep(o) = 0 /\ o.toRelease = 0 /\ o.taken \in Nat
  BY QueueThreads DEF Types, IsCaller, Callers, Asleep, SleeperPcs
<1>2. m_count' = m_count /\ m_sema' = m_sema /\ m_count \in Int /\ m_sema \in Nat
      /\ Minimum(m_count, 0) \in Int
  BY DEF Types, Minimum
<1>3. CASE o.taken > 0
  <2>. DEFINE c == Grant(o.taken)
  <2>1. caller' = [caller EXCEPT ![t] = c]
    BY <1>1, <1>3, Makes DEF TryFails
  <2>2. IsCaller(c) /\ c.taken = o.taken /\ c.toRelease = 0 /\ Asleep(c) = 0
    BY <1>1, <1>3, GrantIs
  <2>. HIDE DEF c
  <2>. QED
    BY <1>1, <1>2, <2>1, <2>2, SemFits
<1>4. CASE o.taken = 0 /\ o.timeout = "none"
  <2>1. caller' = [caller EXCEPT ![t] = Refusal]
    BY <1>1, <1>4, Makes DEF TryFails
  <2>. QED
    BY <1>1, <1>2, <1>4, <2>1, RefusalIs, SemFits
<1>5. CASE o.taken = 0 /\ o.timeout # "none"
  <2>. DEFINE c == Gone(o, "spin", 0)
  <2>1. caller' = [caller EXCEPT ![t] = c]
    BY <1>1, <1>5, Makes DEF TryFails
  <2>2. IsCaller(c) /\ c.taken = 0 /\ c.toRelease = 0 /\ Asleep(c) = 0
    <3>1. PICK pc \in WaiterPcs, zero \in Int : pc = "spin" /\ zero = 0
      BY DEF WaiterPcs
    <3>2. o.pc \in WaiterPcs
      BY DEF WaiterPcs
    <3>3. /\ IsCaller(Gone(o, pc, zero)) /\ Gone(o, pc, zero).taken = o.taken
          /\ Gone(o, pc, zero).toRelease = o.toRelease /\ Gone(o, pc, zero).pc = pc
      BY <1>1, <1>5, <3>1, <3>2, GoneIs
    <3>. QED
      BY <1>1, <1>5, <3>1, <3>3 DEF Asleep, SleeperPcs
  <2>. HIDE DEF c
  <2>. QED
    BY <1>1, <1>2, <1>5, <2>1, <2>2, SemFits
<1>. QED
  BY <1>1, <1>3, <1>4, <1>5

LEMMA TryFits ==
  ASSUME Types, OthersStay, NEW t \in Takers, TryLoads(t) \/ TryCas(t)
  PROVE  \E c : Fits(t, c)
<1>. DEFINE o == caller[t]
<1>1. t \in Threads /\ IsCaller(o) /\ Asleep(o) = 0 /\ o.toRelease = 0
      /\ o.taken \in Nat /\ o.max \in Nat /\ o.taken < o.max /\ o.pc \in {"try", "tryCas"}
  BY QueueThreads DEF Types, IsCaller, Callers, Asleep, SleeperPcs, TryLoads, TryCas, At
<1>2. m_count \in Int /\ m_sema \in Nat /\ m_sema' = m_sema /\ Minimum(m_count, 0) \in Int
  BY DEF Types, Minimum, TryLoads, TryCas
<1>3. CASE TryFails(t) /\ UNCHANGED m_count
  BY <1>1, <1>2, <1>3, TryFailsFits
<1>4. CASE Goes(t, "tryCas", m_count) /\ m_count > 0 /\ UNCHANGED m_count
  <2>. DEFINE c == Gone(o, "tryCas", m_count)
  <2>1. caller' = [caller EXCEPT ![t] = c]
    BY <1>1, <1>4, Makes
  <2>2. IsCaller(c) /\ c.taken = o.taken /\ c.toRelease = 0 /\ Asleep(c) = 0
    BY <1>1, <1>2, <1>4 DEF Gone, IsCaller, Callers, Pcs, WaiterPcs, SleeperPcs, Asleep
  <2>. HIDE DEF c
  <2>. QED
    BY <1>1, <1>2, <1>4, <2>1, <2>2, SemFits
<1>5. CASE TryCas(t) /\ m_count = o.old
  <2>. DEFINE n == Minimum(m_count, o.max - o.taken)
  <2>1. m_count > 0 /\ n \in Nat /\ 0 < n /\ n <= m_count
    BY <1>1, <1>2, <1>5 DEF TryCas, At, IsCaller, Minimum
  <2>2. m_count' = m_count - n /\ caller' = [caller EXCEPT ![t] = Grant(o.taken + n)]
    BY <1>1, <1>5, Makes DEF TryCas
  <2>3. Minimum(m_count, 0) = 0 /\ Minimum(m_count', 0) = 0 /\ m_count' \in Int
    BY <1>2, <2>1, <2>2 DEF Minimum
  <2>. HIDE DEF n
  <2>. DEFINE c == Grant(o.taken + n)
  <2>4. IsCaller(c) /\ c.taken = o.taken + n /\ c.toRelease = 0 /\ Asleep(c) = 0
    BY <1>1, <2>1, GrantIs
  <2>. HIDE DEF c
  <2>5. caller' = [caller EXCEPT ![t] = c]
    BY <2>2 DEF c
  <2>6. m_count' + c.taken + Asleep(c) = m_count + o.taken + Asleep(o)
    BY <1>1, <1>2, <2>1, <2>2, <2>4
  <2>7. m_sema' + c.toRelease + Asleep(o) + Minimum(m_count, 0)
          = m_sema + o.toRelease + Asleep(c) + Minimum(m_count', 0)
    BY <1>1, <1>2, <2>3, <2>4
  <2>. QED
    BY <1>1, <1>2, <2>3, <2>4, <2>5, <2>6, <2>7, SemFits
<1>. QED
  BY <1>3, <1>4, <1>5 DEF TryLoads, TryCas

(* A move that changes no count, and leaves a sleeper asleep and no other. *)
MayMove(o, pc, old) ==
  /\ pc \in WaiterPcs /\ o.pc \in WaiterPcs /\ old \in Int
  /\ pc \in {"tryCas", "spinCas"} => old > 0
  /\ pc = "adjust" => old < 0
  /\ pc \notin {"try", "tryCas"} /\ o.taken = 0
  /\ pc \in SleeperPcs <=> o.pc \in SleeperPcs

LEMMA MoveFits ==
  ASSUME Types, OthersStay, NEW t \in Takers, NEW pc, NEW old, MayMove(caller[t], pc, old),
         Goes(t, pc, old), UNCHANGED <<m_count, m_sema>>
  PROVE  \E c : Fits(t, c)
<1>. DEFINE o == caller[t]
            c == Gone(o, pc, old)
<1>1. t \in Threads /\ IsCaller(o)
  BY QueueThreads DEF Types
<1>2. caller' = [caller EXCEPT ![t] = c]
  BY <1>1, Makes
<1>3. IsCaller(c) /\ c.taken = o.taken /\ c.toRelease = o.toRelease /\ c.pc = pc
  BY <1>1, GoneIs DEF MayMove
<1>4. Asleep(c) = Asleep(o) /\ Asleep(c) \in Int
  BY <1>3 DEF Asleep, MayMove
<1>. HIDE DEF c
<1>5. m_count' = m_count /\ m_count \in Int /\ m_sema' = m_sema /\ m_sema \in Nat
  BY DEF Types
<1>. QED
  BY <1>1, <1>2, <1>3, <1>4, <1>5, SemFits

LEMMA SpinFits ==
  ASSUME Types, OthersStay, NEW t \in Takers, SpinLoads(t) \/ SpinCas(t)
  PROVE  \E c : Fits(t, c)
<1>. DEFINE o == caller[t]
<1>1. /\ t \in Threads /\ IsCaller(o) /\ o \in Callers /\ o.pc \in {"spin", "spinCas"}
      /\ Asleep(o) = 0 /\ o.toRelease = 0 /\ o.taken = 0 /\ o.max \in Nat /\ o.max >= 1
  BY QueueThreads DEF Types, IsCaller, Callers, Asleep, WaiterPcs, SleeperPcs, SpinLoads, SpinCas, At
<1>2. m_count \in Int /\ m_sema \in Nat /\ m_sema' = m_sema /\ Minimum(m_count, 0) \in Int
  BY DEF Types, Minimum, SpinLoads, SpinCas
<1>3. CASE SpinLoads(t)
  <2>1. PICK sub, cas \in Pcs : sub = "sub" /\ cas = "spinCas"
    BY DEF Pcs, WaiterPcs
  <2>. DEFINE c == IF o.spins = 0 THEN [o EXCEPT !.pc = "sub"]
                  ELSE IF m_count <= 0 THEN [o EXCEPT !.spins = o.spins - 1]
                  ELSE [o EXCEPT !.spins = o.spins - 1, !.pc = "spinCas", !.old = m_count]
  <2>2. caller' = [caller EXCEPT ![t] = c]
    BY <1>3 DEF SpinLoads
  <2>3. /\ c \in Callers /\ c.taken = 0 /\ c.toRelease = 0 /\ c.max = o.max
        /\ c.pc \in {sub, cas, "spin"}
        /\ c.pc = cas => c.old > 0
    <3>1. o.spins \in Nat /\ o.pc = "spin"
      BY <1>1, <1>3 DEF Callers, SpinLoads, At
    <3>2. CASE o.spins = 0
      <4>1. c = [o EXCEPT !.pc = sub]
        BY <2>1, <3>2
      <4>. HIDE DEF c
      <4>. QED
        BY <1>1, <2>1, <4>1 DEF Callers
    <3>3. CASE o.spins # 0 /\ m_count <= 0
      <4>1. PICK n \in Nat : n = o.spins - 1
        BY <3>1, <3>3
      <4>2. c = [o EXCEPT !.spins = n]
        BY <3>3, <4>1
      <4>. HIDE DEF c
      <4>. QED
        BY <1>1, <2>1, <3>1, <4>2 DEF Callers
    <3>4. CASE o.spins # 0 /\ m_count > 0
      <4>1. PICK n \in Nat : n = o.spins - 1
        BY <3>1, <3>4
      <4>2. c = [o EXCEPT !.spins = n, !.pc = cas, !.old = m_count]
        BY <1>2, <2>1, <3>4, <4>1
      <4>. HIDE DEF c
      <4>3. c \in Callers
        BY <1>1, <1>2, <4>2 DEF Callers
      <4>4. c.taken = o.taken /\ c.toRelease = o.toRelease /\ c.max = o.max /\ c.pc = cas /\ c.old = m_count
        BY <1>1, <4>2 DEF Callers
      <4>. QED
        BY <1>1, <3>4, <4>3, <4>4
    <3>. QED
      BY <1>2, <3>2, <3>3, <3>4
  <2>. HIDE DEF c
  <2>4. IsCaller(c) /\ Asleep(c) = 0
    BY <1>1, <2>1, <2>3 DEF IsCaller, Asleep, SleeperPcs
  <2>5. m_count' = m_count
    BY <1>3 DEF SpinLoads
  <2>. QED
    BY <1>1, <1>2, <2>2, <2>3, <2>4, <2>5, SemFits
<1>4. CASE SpinCas(t) /\ m_count # o.old
  <2>1. MayMove(o, "spin", 0) /\ Goes(t, "spin", 0) /\ m_count' = m_count
    BY <1>1, <1>4 DEF SpinCas, MayMove, WaiterPcs, SleeperPcs
  <2>. QED
    BY <1>2, <2>1, MoveFits
<1>5. CASE SpinCas(t) /\ m_count = o.old
  <2>. DEFINE n == Minimum(m_count, o.max)
  <2>1. m_count > 0 /\ n \in Nat /\ 0 < n /\ n <= m_count
    BY <1>1, <1>2, <1>5 DEF SpinCas, At, IsCaller, Minimum
  <2>2. m_count' = m_count - n /\ caller' = [caller EXCEPT ![t] = Grant(n)]
    BY <1>1, <1>5, Makes DEF SpinCas
  <2>3. Minimum(m_count, 0) = 0 /\ Minimum(m_count', 0) = 0 /\ m_count' \in Int
    BY <1>2, <2>1, <2>2 DEF Minimum
  <2>. HIDE DEF n
  <2>. DEFINE c == Grant(n)
  <2>4. IsCaller(c) /\ c.taken = n /\ c.toRelease = 0 /\ Asleep(c) = 0
    BY <2>1, GrantIs
  <2>. HIDE DEF c
  <2>5. caller' = [caller EXCEPT ![t] = c]
    BY <2>2 DEF c
  <2>6. m_count' + c.taken + Asleep(c) = m_count + o.taken + Asleep(o)
    BY <1>1, <1>2, <2>1, <2>2, <2>4
  <2>7. m_sema' + c.toRelease + Asleep(o) + Minimum(m_count, 0)
          = m_sema + o.toRelease + Asleep(c) + Minimum(m_count', 0)
    BY <1>1, <1>2, <2>3, <2>4
  <2>. QED
    BY <1>1, <1>2, <2>3, <2>4, <2>5, <2>6, <2>7, SemFits
<1>. QED
  BY <1>3, <1>4, <1>5

LEMMA SubtractsFits ==
  ASSUME Types, OthersStay, NEW t \in Takers, Subtracts(t)
  PROVE  \E c : Fits(t, c)
<1>. DEFINE o == caller[t]
<1>1. /\ t \in Threads /\ IsCaller(o) /\ o.pc = "sub" /\ o.pc \in WaiterPcs
      /\ Asleep(o) = 0 /\ o.toRelease = 0 /\ o.taken = 0
  BY QueueThreads DEF Types, IsCaller, Callers, Asleep, WaiterPcs, SleeperPcs, Subtracts, At
<1>2. /\ m_count \in Int /\ m_sema \in Nat /\ m_sema' = m_sema /\ m_count' = m_count - 1
      /\ m_count' \in Int
  BY DEF Types, Subtracts
<1>3. CASE m_count > 0
  <2>. DEFINE c == Gained(o)
  <2>1. caller' = [caller EXCEPT ![t] = c]
    BY <1>1, <1>3, Makes DEF Subtracts
  <2>2. IsCaller(c) /\ c.taken = 1 /\ c.toRelease = 0 /\ Asleep(c) = 0
    BY <1>1, GainedIs
  <2>. HIDE DEF c
  <2>3. Minimum(m_count, 0) = 0 /\ Minimum(m_count', 0) = 0
    BY <1>2, <1>3 DEF Minimum
  <2>4. m_count' + c.taken + Asleep(c) = m_count + o.taken + Asleep(o)
    BY <1>1, <1>2, <2>1, <2>2, <2>3
  <2>5. m_sema' + c.toRelease + Asleep(o) + Minimum(m_count, 0)
         = m_sema + o.toRelease + Asleep(c) + Minimum(m_count', 0)
    BY <1>1, <1>2, <2>1, <2>2, <2>3
  <2>. QED
    BY <1>1, <1>2, <2>1, <2>2, <2>3, <2>4, <2>5, SemFits
<1>4. CASE ~ (m_count > 0)
  <2>1. PICK pc \in {"timedOut", "asleep"} : Goes(t, pc, 0)
    BY <1>4 DEF Subtracts
  <2>. DEFINE c == Gone(o, pc, 0)
  <2>2. caller' = [caller EXCEPT ![t] = c]
    BY <1>1, <2>1, Makes
  <2>3. pc \in WaiterPcs /\ pc \in SleeperPcs
    BY DEF WaiterPcs, SleeperPcs
  <2>4. PICK zero \in Int : zero = 0
    OBVIOUS
  <2>5. /\ IsCaller(Gone(o, pc, zero)) /\ Gone(o, pc, zero).taken = o.taken
        /\ Gone(o, pc, zero).toRelease = o.toRelease /\ Gone(o, pc, zero).pc = pc
    BY <1>1, <2>3, GoneIs
  <2>6. IsCaller(c) /\ c.taken = 0 /\ c.toRelease = 0 /\ Asleep(c) = 1
    BY <1>1, <2>3, <2>4, <2>5 DEF Asleep
  <2>. HIDE DEF c
  <2>7. Minimum(m_count, 0) = m_count /\ Minimum(m_count', 0) = m_count'
    BY <1>2, <1>4 DEF Minimum
  <2>8. m_count' + c.taken + Asleep(c) = m_count + o.taken + Asleep(o)
    BY <1>1, <1>2, <2>2, <2>6, <2>7
  <2>9. m_sema' + c.toRelease + Asleep(o) + Minimum(m_count, 0)
         = m_sema + o.toRelease + Asleep(c) + Minimum(m_count', 0)
    BY <1>1, <1>2, <2>2, <2>6, <2>7
  <2>. QED
    BY <1>1, <1>2, <2>2, <2>6, <2>7, <2>8, <2>9, SemFits
<1>. QED
  BY <1>3, <1>4

(* Both ways to take a post. *)
LEMMA WakeFits ==
  ASSUME Types, OthersStay, NEW t \in Takers, caller[t].pc \in {"asleep", "tryPost"},
         m_sema > 0, m_sema' = m_sema - 1, m_count' = m_count, GainsOne(t)
  PROVE  \E c : Fits(t, c)
<1>. DEFINE o == caller[t]
            c == Gained(o)
<1>1. /\ t \in Threads /\ IsCaller(o) /\ Asleep(o) = 1 /\ o.toRelease = 0 /\ o.taken = 0
  BY QueueThreads DEF Types, IsCaller, Callers, Asleep, WaiterPcs, SleeperPcs
<1>2. m_count \in Int /\ m_sema \in Nat /\ m_sema' \in Nat /\ Minimum(m_count, 0) \in Int
  BY DEF Types, Minimum
<1>3. caller' = [caller EXCEPT ![t] = c]
  BY <1>1, Makes
<1>4. IsCaller(c) /\ c.taken = 1 /\ c.toRelease = 0 /\ Asleep(c) = 0
  BY <1>1, GainedIs
<1>. HIDE DEF c
<1>5. m_count' + c.taken + Asleep(c) = m_count + o.taken + Asleep(o)
  BY <1>1, <1>2, <1>3, <1>4
<1>6. m_sema' + c.toRelease + Asleep(o) + Minimum(m_count, 0)
       = m_sema + o.toRelease + Asleep(c) + Minimum(m_count', 0)
  BY <1>1, <1>2, <1>3, <1>4
<1>. QED
  BY <1>1, <1>2, <1>3, <1>4, <1>5, <1>6, SemFits

LEMMA AdjustFits ==
  ASSUME Types, OthersStay, NEW t \in Takers, Adjusts(t)
  PROVE  \E c : Fits(t, c)
<1>. DEFINE o == caller[t]
<1>1. /\ t \in Threads /\ IsCaller(o) /\ o.pc = "adjust" /\ Asleep(o) = 1
      /\ o.toRelease = 0 /\ o.taken = 0 /\ o.old < 0 /\ o.old \in Int
  BY QueueThreads DEF Types, IsCaller, Callers, Asleep, WaiterPcs, SleeperPcs, Adjusts, At
<1>2. m_count \in Int /\ m_sema \in Nat /\ m_sema' = m_sema
  BY DEF Types, Adjusts
<1>3. CASE m_count = o.old
  <2>1. m_count' = m_count + 1 /\ caller' = [caller EXCEPT ![t] = Refusal]
    BY <1>1, <1>3, Makes DEF Adjusts
  <2>2. Minimum(m_count, 0) = m_count /\ Minimum(m_count', 0) = m_count' /\ m_count' \in Int
    BY <1>1, <1>2, <1>3, <2>1 DEF Minimum
  <2>. DEFINE c == Refusal
  <2>3. IsCaller(c) /\ c.taken = 0 /\ c.toRelease = 0 /\ Asleep(c) = 0
    BY RefusalIs
  <2>. HIDE DEF c
  <2>4. caller' = [caller EXCEPT ![t] = c]
    BY <2>1 DEF c
  <2>5. m_count' + c.taken + Asleep(c) = m_count + o.taken + Asleep(o)
    BY <1>1, <1>2, <2>1, <2>2, <2>3, <2>4
  <2>6. m_sema' + c.toRelease + Asleep(o) + Minimum(m_count, 0)
         = m_sema + o.toRelease + Asleep(c) + Minimum(m_count', 0)
    BY <1>1, <1>2, <2>1, <2>2, <2>3, <2>4
  <2>. QED
    BY <1>1, <1>2, <2>1, <2>2, <2>3, <2>4, <2>5, <2>6, SemFits
<1>4. CASE m_count # o.old
  <2>1. MayMove(o, "timedOut", 0) /\ Goes(t, "timedOut", 0) /\ m_count' = m_count
    BY <1>1, <1>4 DEF Adjusts, MayMove, WaiterPcs, SleeperPcs
  <2>. QED
    BY <1>2, <2>1, MoveFits
<1>. QED
  BY <1>3, <1>4

(* The other steps of a sleeper. *)
LEMMA SleeperFits ==
  ASSUME Types, OthersStay, NEW t \in Takers,
         Wakes(t) \/ TimesOut(t) \/ LooksAgain(t) \/ TriesPost(t)
  PROVE  \E c : Fits(t, c)
<1>. DEFINE o == caller[t]
<1>1. IsCaller(o) /\ t \in Threads /\ m_count \in Int
  BY QueueThreads DEF Types
<1>2. CASE Wakes(t)
  BY <1>2, WakeFits DEF Wakes, At
<1>3. CASE TimesOut(t)
  <2>1. MayMove(o, "timedOut", 0)
    BY <1>1, <1>3 DEF TimesOut, At, MayMove, IsCaller, WaiterPcs, SleeperPcs
  <2>. QED
    BY <1>3, <2>1, MoveFits DEF TimesOut
<1>4. CASE LooksAgain(t) /\ m_count >= 0
  <2>1. MayMove(o, "tryPost", 0)
    BY <1>1, <1>4 DEF LooksAgain, At, MayMove, IsCaller, WaiterPcs, SleeperPcs
  <2>. QED
    BY <1>4, <2>1, MoveFits DEF LooksAgain
<1>5. CASE LooksAgain(t) /\ ~ (m_count >= 0)
  <2>1. MayMove(o, "adjust", m_count)
    BY <1>1, <1>5 DEF LooksAgain, At, MayMove, IsCaller, WaiterPcs, SleeperPcs
  <2>. QED
    BY <1>5, <2>1, MoveFits DEF LooksAgain
<1>6. CASE TriesPost(t) /\ m_sema > 0
  BY <1>6, WakeFits DEF TriesPost, At
<1>7. CASE TriesPost(t) /\ ~ (m_sema > 0)
  <2>1. MayMove(o, "timedOut", 0)
    BY <1>1, <1>7 DEF TriesPost, At, MayMove, IsCaller, WaiterPcs, SleeperPcs
  <2>. QED
    BY <1>7, <2>1, MoveFits DEF TriesPost
<1>. QED
  BY <1>2, <1>3, <1>4, <1>5, <1>6, <1>7

(* A post is one more in the kernel semaphore and one less to make. *)
LEMMA PostFits ==
  ASSUME Types, OthersStay, NEW t \in Threads, Posts(t)
  PROVE  \E c : Fits(t, c)
<1>. DEFINE o == caller[t]
            c == IF o.toRelease = 1 THEN Outside ELSE [o EXCEPT !.toRelease = o.toRelease - 1]
<1>1. /\ o \in Callers /\ IsCaller(o) /\ o.pc = "posting" /\ o.toRelease \in Nat /\ o.toRelease >= 1
      /\ o.taken = 0 /\ Asleep(o) = 0
  BY DEF Posts, At, Types, IsCaller, Callers, Asleep, SleeperPcs
<1>2. caller' = [caller EXCEPT ![t] = c]
  BY DEF Posts
<1>3. IsCaller(c) /\ c.taken = 0 /\ Asleep(c) = 0 /\ c.toRelease = o.toRelease - 1
      /\ c.pc \in {"out", "posting"}
  <2>1. CASE o.toRelease = 1
    BY <1>1, <2>1, OutsideIs
  <2>2. CASE o.toRelease # 1
    <3>1. PICK n \in Nat : n = o.toRelease - 1 /\ n > 0
      BY <1>1, <2>2
    <3>2. c = [o EXCEPT !.toRelease = n]
      BY <2>2, <3>1
    <3>. HIDE DEF c
    <3>3. c \in Callers /\ c.pc = o.pc /\ c.taken = o.taken /\ c.toRelease = n
      BY <1>1, <3>2 DEF Callers
    <3>. QED
      BY <1>1, <3>1, <3>3 DEF IsCaller, WaiterPcs, SleeperPcs, Asleep
  <2>. QED
    BY <2>1, <2>2
<1>. HIDE DEF c
<1>4. /\ m_count \in Int /\ m_count' = m_count /\ m_sema \in Nat /\ m_sema' = m_sema + 1
      /\ Minimum(m_count, 0) \in Int /\ elements' = elements /\ elements \in Nat
      /\ sent' = sent /\ sent \in Nat /\ unsignalled' = unsignalled
      /\ unsignalled \in [Threads -> Nat]
  BY DEF Posts, Types, OthersStay, Minimum
<1>5. (m_sema' - m_sema) + (c.toRelease - o.toRelease)
       = (Asleep(c) - Asleep(o)) + (Minimum(m_count', 0) - Minimum(m_count, 0))
  BY <1>1, <1>3, <1>4
<1>6. elements' - elements
       = (m_count' - m_count) + (c.taken - o.taken) + (Asleep(c) - Asleep(o))
           + (unsignalled'[t] - unsignalled[t])
  BY <1>1, <1>3, <1>4
<1>7. m_count' \in Int /\ m_sema' \in Nat /\ elements' \in Nat /\ sent' \in Nat
      /\ unsignalled' \in [Threads -> Nat]
  BY <1>4
<1>. QED
  BY <1>2, <1>3, <1>4, <1>5, <1>6, <1>7 DEF Fits

LEMMA SemStepFits ==
  ASSUME Types, OthersStay, NEW t \in Takers, SemStep(t)
  PROVE  \E c : Fits(t, c)
<1>1. CASE TryLoads(t) \/ TryCas(t)
  BY <1>1, TryFits
<1>2. CASE SpinLoads(t) \/ SpinCas(t)
  BY <1>2, SpinFits
<1>3. CASE Subtracts(t)
  BY <1>3, SubtractsFits
<1>4. CASE Wakes(t) \/ TimesOut(t) \/ LooksAgain(t) \/ TriesPost(t)
  BY <1>4, SleeperFits
<1>5. CASE Adjusts(t)
  BY <1>5, AdjustFits
<1>6. CASE Posts(t)
  BY <1>6, PostFits, QueueThreads
<1>. QED
  BY <1>1, <1>2, <1>3, <1>4, <1>5, <1>6 DEF SemStep

-----------------------------------------------------------------------------
(* The steps of the queue around it *)

LEMMA EnqueueFits ==
  ASSUME Types, NEW t \in Senders, NEW n \in Nat, Enqueues(t, n)
  PROVE  \E c : Fits(t, c)
<1>. DEFINE c == caller[t]
<1>1. /\ t \in Threads /\ t \notin Takers /\ IsCaller(c) /\ c.pc \in {"out", "posting"}
      /\ c.taken \in Nat /\ c.toRelease \in Nat /\ Asleep(c) \in Int
  BY QueueThreads DEF Types, IsCaller, Callers, Asleep
<1>2. caller' = [caller EXCEPT ![t] = c]
  BY <1>1 DEF Enqueues, semVars, Types
<1>3. /\ m_count' = m_count /\ m_count \in Int /\ m_sema' = m_sema /\ m_sema \in Nat
      /\ Minimum(m_count, 0) \in Int
      /\ elements \in Nat /\ elements' = elements + n /\ sent \in Nat /\ sent' = sent + n
      /\ unsignalled \in [Threads -> Nat] /\ unsignalled[t] = 0
      /\ unsignalled' = [unsignalled EXCEPT ![t] = n]
  BY DEF Enqueues, semVars, Types, Minimum
<1>4. /\ unsignalled' \in [Threads -> Nat] /\ unsignalled'[t] = n
      /\ \A u \in Threads \ {t} : unsignalled'[u] = unsignalled[u]
      /\ elements' \in Nat /\ sent' \in Nat
  BY <1>1, <1>3
<1>. HIDE DEF c
<1>5. caller[t] = c
  BY DEF c
<1>6. (m_sema' - m_sema) + (c.toRelease - caller[t].toRelease)
       = (Asleep(c) - Asleep(caller[t])) + (Minimum(m_count', 0) - Minimum(m_count, 0))
  BY <1>1, <1>3, <1>5
<1>7. elements' - elements
       = (m_count' - m_count) + (c.taken - caller[t].taken) + (Asleep(c) - Asleep(caller[t]))
           + (unsignalled'[t] - unsignalled[t])
  BY <1>1, <1>3, <1>4, <1>5
<1>. QED
  BY <1>1, <1>2, <1>3, <1>4, <1>6, <1>7 DEF Fits

(* The fetch_add turns a negative count into posts to make, one for each    *)
(* sleeper it counts in.                                                    *)
LEMMA SignalFits ==
  ASSUME Types, NEW t \in Senders, SignalsEnqueued(t)
  PROVE  \E c : Fits(t, c)
<1>. DEFINE count == unsignalled[t]
            toRelease == Minimum(-m_count, count)
            c == IF toRelease > 0 THEN [Outside EXCEPT !.pc = "posting", !.toRelease = toRelease]
                 ELSE Outside
            o == caller[t]
<1>1. /\ t \in Threads /\ t \notin Takers /\ IsCaller(o) /\ o.pc = "out"
      /\ o.taken = 0 /\ o.toRelease = 0 /\ Asleep(o) = 0
  BY QueueThreads
     DEF Types, IsCaller, Callers, Asleep, SleeperPcs, WaiterPcs, SignalsEnqueued, Signals, At
<1>2. caller' = [caller EXCEPT ![t] = c]
  BY DEF SignalsEnqueued, Signals
<1>3. /\ m_count \in Int /\ count \in Nat /\ count > 0 /\ m_count' = m_count + count
      /\ m_sema' = m_sema /\ m_sema \in Nat /\ elements' = elements /\ elements \in Nat
      /\ sent' = sent /\ sent \in Nat /\ unsignalled \in [Threads -> Nat]
      /\ unsignalled' = [unsignalled EXCEPT ![t] = 0]
  BY <1>1 DEF SignalsEnqueued, Signals, Types
<1>4. IsCaller(c) /\ c.taken = 0 /\ Asleep(c) = 0 /\ c.pc \in {"out", "posting"}
      /\ c.toRelease = IF toRelease > 0 THEN toRelease ELSE 0
  <2>1. toRelease \in Int
    BY <1>3 DEF Minimum
  <2>2. CASE toRelease > 0
    <3>1. PICK n \in Nat : n = toRelease
      BY <2>1, <2>2
    <3>2. PICK pc \in Pcs : pc = "posting"
      BY DEF Pcs
    <3>3. PICK out \in Callers : out = Outside
      BY OutsideIs DEF IsCaller
    <3>4. c = [out EXCEPT !.pc = pc, !.toRelease = n]
      BY <2>2, <3>1, <3>2, <3>3
    <3>5. out.taken = 0
      BY <3>3, OutsideIs
    <3>. HIDE DEF c
    <3>6. c \in Callers
      BY <3>4 DEF Callers
    <3>7. c.pc = pc /\ c.taken = out.taken /\ c.toRelease = n
      BY <3>4 DEF Callers
    <3>. HIDE DEF toRelease
    <3>. QED
      BY <2>2, <3>1, <3>2, <3>5, <3>6, <3>7 DEF IsCaller, WaiterPcs, SleeperPcs, Asleep
  <2>3. CASE ~ (toRelease > 0)
    BY <2>3, OutsideIs
  <2>. QED
    BY <2>2, <2>3
<1>. HIDE DEF c
<1>5. /\ unsignalled' \in [Threads -> Nat] /\ unsignalled'[t] = 0
      /\ \A u \in Threads \ {t} : unsignalled'[u] = unsignalled[u]
      /\ m_count' \in Int
  BY <1>1, <1>3
<1>6. /\ Minimum(m_count, 0) \in Int /\ Minimum(m_count', 0) \in Int /\ c.toRelease \in Nat
      /\ c.toRelease = Minimum(m_count', 0) - Minimum(m_count, 0)
  BY <1>3, <1>4 DEF Minimum
<1>7. (m_sema' - m_sema) + (c.toRelease - o.toRelease)
       = (Asleep(c) - Asleep(o)) + (Minimum(m_count', 0) - Minimum(m_count, 0))
  BY <1>1, <1>3, <1>4, <1>6
<1>8. elements' - elements
       = (m_count' - m_count) + (c.taken - o.taken) + (Asleep(c) - Asleep(o))
           + (unsignalled'[t] - unsignalled[t])
  BY <1>1, <1>3, <1>4, <1>5
<1>. QED
  BY <1>1, <1>2, <1>3, <1>4, <1>5, <1>7, <1>8 DEF Fits

LEMMA DequeueFits ==
  ASSUME Types, NEW t \in Takers, NEW max \in Nat, max >= 1, NEW timeout \in Timeouts,
         Dequeues(t, max, timeout)
  PROVE  \E c : Fits(t, c)
<1>. DEFINE o == caller[t]
            c == [Outside EXCEPT !.pc = "try", !.max = max, !.timeout = timeout, !.spins = MaxSpins]
<1>1. /\ t \in Threads /\ IsCaller(o) /\ o.taken = 0 /\ o.toRelease = 0 /\ Asleep(o) = 0
  BY QueueThreads
     DEF Types, IsCaller, Callers, Asleep, SleeperPcs, WaiterPcs, Dequeues, Waits, At
<1>2. caller' = [caller EXCEPT ![t] = c] /\ OthersStay /\ m_count' = m_count /\ m_sema' = m_sema
  BY DEF Dequeues, Waits, OthersStay
<1>3. IsCaller(c) /\ c.taken = 0 /\ c.toRelease = 0 /\ Asleep(c) = 0
  <2>1. PICK out \in Callers : out = Outside
    BY OutsideIs DEF IsCaller
  <2>2. PICK pc \in Pcs : pc = "try"
    BY DEF Pcs, WaiterPcs
  <2>3. c = [out EXCEPT !.pc = pc, !.max = max, !.timeout = timeout, !.spins = MaxSpins]
    BY <2>1, <2>2
  <2>. HIDE DEF c
  <2>4. c \in Callers
    BY <2>3, SpinsAssumption DEF Callers
  <2>5. c.pc = pc /\ c.max = max /\ c.taken = out.taken /\ c.toRelease = out.toRelease
    BY <2>3 DEF Callers
  <2>. QED
    BY <2>1, <2>2, <2>4, <2>5, OutsideIs DEF IsCaller, WaiterPcs, SleeperPcs, Asleep
<1>. HIDE DEF c
<1>4. m_count \in Int /\ m_sema \in Nat /\ Minimum(m_count, 0) \in Int
  BY DEF Types, Minimum
<1>5. m_count' + c.taken + Asleep(c) = m_count + o.taken + Asleep(o)
  BY <1>1, <1>2, <1>3, <1>4
<1>6. m_sema' + c.toRelease + Asleep(o) + Minimum(m_count, 0)
       = m_sema + o.toRelease + Asleep(c) + Minimum(m_count', 0)
  BY <1>1, <1>2, <1>3, <1>4
<1>. QED
  BY <1>1, <1>2, <1>3, <1>4, <1>5, <1>6, SemFits

LEMMA TakeFits ==
  ASSUME Types, NEW t \in Takers, TakesElements(t)
  PROVE  \E c : Fits(t, c)
<1>. DEFINE o == caller[t]
<1>1. /\ t \in Threads /\ t \notin Senders /\ o \in Callers /\ IsCaller(o)
      /\ o.pc = "granted" /\ o.taken \in Nat
      /\ o.toRelease = 0 /\ Asleep(o) = 0
  BY QueueThreads DEF Types, IsCaller, Callers, Asleep, SleeperPcs, TakesElements, At
<1>2. PICK n \in 1 .. Minimum(elements, o.taken) :
        /\ elements' = elements - n
        /\ caller' = [caller EXCEPT ![t] = IF n = o.taken THEN Outside
                                           ELSE [o EXCEPT !.taken = o.taken - n]]
  BY DEF TakesElements
<1>3. /\ m_count' = m_count /\ m_count \in Int /\ m_sema' = m_sema /\ m_sema \in Nat
      /\ Minimum(m_count, 0) \in Int /\ elements \in Nat
      /\ sent' = sent /\ sent \in Nat
      /\ unsignalled' = unsignalled /\ unsignalled \in [Threads -> Nat]
  BY DEF TakesElements, Types, Minimum
<1>4. n \in Nat /\ 1 <= n /\ n <= elements /\ n <= o.taken
  BY <1>1, <1>3 DEF Minimum
<1>. DEFINE c == IF n = o.taken THEN Outside ELSE [o EXCEPT !.taken = o.taken - n]
<1>5. IsCaller(c) /\ c.taken = o.taken - n /\ c.toRelease = 0 /\ Asleep(c) = 0
  <2>1. CASE n = o.taken
    BY <1>1, <2>1, OutsideIs
  <2>2. CASE n # o.taken
    <3>1. PICK left \in Nat : left = o.taken - n /\ left >= 1
      BY <1>1, <1>4, <2>2
    <3>2. c = [o EXCEPT !.taken = left]
      BY <2>2, <3>1
    <3>. HIDE DEF c
    <3>3. c \in Callers /\ c.pc = o.pc /\ c.taken = left /\ c.toRelease = o.toRelease
      BY <1>1, <3>2 DEF Callers
    <3>. QED
      BY <1>1, <3>1, <3>3 DEF IsCaller, WaiterPcs, SleeperPcs, Asleep
  <2>. QED
    BY <2>1, <2>2
<1>6. caller' = [caller EXCEPT ![t] = c]
  BY <1>2
<1>. HIDE DEF c
<1>7. (m_sema' - m_sema) + (c.toRelease - o.toRelease)
       = (Asleep(c) - Asleep(o)) + (Minimum(m_count', 0) - Minimum(m_count, 0))
  BY <1>1, <1>3, <1>5
<1>8. elements' - elements
       = (m_count' - m_count) + (c.taken - o.taken) + (Asleep(c) - Asleep(o))
           + (unsignalled'[t] - unsignalled[t])
  BY <1>1, <1>2, <1>3, <1>4, <1>5
<1>9. elements' \in Nat
  BY <1>2, <1>3, <1>4
<1>. QED
  BY <1>1, <1>3, <1>5, <1>6, <1>7, <1>8, <1>9 DEF Fits

LEMMA ReturnFits ==
  ASSUME Types, NEW t \in Takers, ReturnsNothing(t)
  PROVE  \E c : Fits(t, c)
<1>. DEFINE o == caller[t]
            c == Outside
<1>1. /\ t \in Threads /\ IsCaller(o) /\ o.taken = 0 /\ o.toRelease = 0 /\ Asleep(o) = 0
  BY QueueThreads DEF Types, IsCaller, Callers, Asleep, SleeperPcs, WaiterPcs, ReturnsNothing, At
<1>2. caller' = [caller EXCEPT ![t] = c] /\ OthersStay /\ m_count' = m_count /\ m_sema' = m_sema
  BY DEF ReturnsNothing, OthersStay
<1>3. IsCaller(c) /\ c.taken = 0 /\ c.toRelease = 0 /\ Asleep(c) = 0
  BY OutsideIs
<1>. HIDE DEF c
<1>4. m_count \in Int /\ m_sema \in Nat /\ Minimum(m_count, 0) \in Int
  BY DEF Types, Minimum
<1>5. m_count' + c.taken + Asleep(c) = m_count + o.taken + Asleep(o)
  BY <1>1, <1>2, <1>3, <1>4
<1>6. m_sema' + c.toRelease + Asleep(o) + Minimum(m_count, 0)
       = m_sema + o.toRelease + Asleep(c) + Minimum(m_count', 0)
  BY <1>1, <1>2, <1>3, <1>4
<1>. QED
  BY <1>1, <1>2, <1>3, <1>4, <1>5, <1>6, SemFits

-----------------------------------------------------------------------------
(* The invariant is inductive *)

LEMMA InitInv ==
  ASSUME Init
  PROVE  IndInv
<1>1. Types
  <2>1. PICK out \in Callers : out = Outside
    BY OutsideIs DEF IsCaller
  <2>2. caller = [t \in Threads |-> out]
    BY <2>1 DEF Init, SemInit
  <2>3. IsCaller(out) /\ out.pc \in {"out", "posting"}
    BY <2>1, OutsideIs
  <2>4. /\ caller \in [Threads -> Callers]
        /\ \A t \in Threads : caller[t] = out
    BY <2>2
  <2>5. /\ \A t \in Threads : IsCaller(caller[t])
        /\ \A t \in Senders : caller[t].pc \in {"out", "posting"}
    BY <2>3, <2>4, QueueThreads
  <2>. QED
    BY <2>4, <2>5 DEF Init, SemInit, Types
<1>2. Posting = 0 /\ InHand = 0 /\ Total(unsignalled, Senders) = 0
  <2>1. \A t \in Threads : caller[t].toRelease = 0 /\ caller[t].taken = 0 /\ unsignalled[t] = 0
    BY OutsideIs DEF Init, SemInit
  <2>. DEFINE f == [t \in Threads |-> caller[t].toRelease]
              g == [t \in Takers |-> caller[t].taken]
  <2>2. /\ \A t \in Threads : f[t] \in Nat /\ f[t] = 0
        /\ \A t \in Takers : g[t] \in Nat /\ g[t] = 0
        /\ \A t \in Senders : unsignalled[t] \in Nat /\ unsignalled[t] = 0
    BY <2>1, QueueThreads
  <2>3. Posting = Total(f, Threads) /\ InHand = Total(g, Takers)
    BY DEF Posting, InHand
  <2>. HIDE DEF f, g
  <2>. QED
    BY <2>2, <2>3, Finite, TotalIsNat
<1>3. Cardinality(Sleepers) = 0
  <2>1. Sleepers = {}
    BY OutsideIs DEF Init, SemInit, Sleepers
  <2>. QED
    BY <2>1, FS_EmptySet
<1>4. m_count = 0 /\ m_sema = 0 /\ elements = 0
  BY DEF Init, SemInit
<1>. QED
  BY <1>1, <1>2, <1>3, <1>4
     DEF IndInv, WakeupsMatchSleepers, Balance, CountedIn, Minimum, size_approx, availableApprox

LEMMA NextInv ==
  ASSUME IndInv, [Next]_vars
  PROVE  IndInv'
<1>. USE DEF IndInv
<1>1. ASSUME NEW t \in Senders, NEW n \in 1 .. MaxBulk, Enqueues(t, n)
      PROVE  IndInv'
  <2>1. n \in Nat /\ t \in Threads
    BY QueueThreads
  <2>. QED
    BY <1>1, <2>1, EnqueueFits, FitsInv
<1>2. ASSUME NEW t \in Senders, SenderStep(t)
      PROVE  IndInv'
  BY <1>2, SignalFits, PostFits, FitsInv, QueueThreads DEF SenderStep, OthersStay
<1>3. ASSUME NEW t \in Takers, NEW max \in 1 .. MaxBulk, NEW timeout \in Timeouts,
             Dequeues(t, max, timeout)
      PROVE  IndInv'
  <2>1. max \in Nat /\ max >= 1 /\ t \in Threads
    BY QueueThreads
  <2>. QED
    BY <1>3, <2>1, DequeueFits, FitsInv
<1>4. ASSUME NEW t \in Takers, SemStep(t) /\ OthersStay
      PROVE  IndInv'
  BY <1>4, SemStepFits, FitsInv, QueueThreads
<1>5. ASSUME NEW t \in Takers, TakesElements(t) \/ ReturnsNothing(t)
      PROVE  IndInv'
  BY <1>5, TakeFits, ReturnFits, FitsInv, QueueThreads
<1>6. CASE UNCHANGED vars
  <2>1. Types'
    BY <1>6 DEF vars, Types
  <2>2. WakeupsMatchSleepers'
    BY <1>6 DEF vars, WakeupsMatchSleepers, CountedIn, Posting, Sleepers
  <2>3. Balance'
    BY <1>6 DEF vars, Balance, size_approx, availableApprox, InHand, CountedIn, Sleepers
  <2>. QED
    BY <2>1, <2>2, <2>3
<1>. QED
  BY <1>1, <1>2, <1>3, <1>4, <1>5, <1>6 DEF Next, TakerStep, OthersStay

-----------------------------------------------------------------------------
(* Theorems *)

(* The inductive invariant of the queue: for any finite number of threads,  *)
(* any bulk, any number of elements and of spins.                           *)
THEOREM Invariance == Spec => []IndInv
<1>1. Init => IndInv
  BY InitInv
<1>2. IndInv /\ [Next]_vars => IndInv'
  BY NextInv
<1>. QED
  BY <1>1, <1>2, PTL DEF Spec

(* LightweightSemaphore loses no wake-up and leaves none over.              *)
THEOREM NoWakeupIsLost == Spec => []WakeupsMatchSleepers
<1>1. IndInv => WakeupsMatchSleepers
  BY DEF IndInv
<1>. QED
  BY <1>1, Invariance, PTL

(* Permits and elements match, and a permit finds an element.               *)
THEOREM PermitsAreBacked == Spec => []PermitsHaveElements
<1>1. ASSUME IndInv
      PROVE  PermitsHaveElements
  <2>1. /\ Posting \in Nat /\ m_sema \in Nat /\ m_sema + Posting = CountedIn
        /\ Total(unsignalled, Senders) \in Nat /\ InHand \in Nat
        /\ size_approx \in Nat
    BY <1>1, PostingTotal, UnsignalledTotal, InHandTotal
       DEF IndInv, Types, WakeupsMatchSleepers, size_approx, availableApprox
  <2>2. elements = size_approx + InHand + CountedIn + Total(unsignalled, Senders)
    BY <1>1 DEF IndInv, Balance
  <2>. QED
    BY <2>1, <2>2 DEF PermitsHaveElements
<1>. QED
  BY <1>1, Invariance, PTL
=============================================================================
