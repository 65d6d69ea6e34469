------------------------ MODULE ConcurrentQueueProofs ------------------------
(***************************************************************************)
(* ConcurrentQueue for any producers and consumers, blocks, bulk and       *)
(* scenarios: what consumers have claimed and found good is backed by      *)
(* elements, so headIndex never passes tailIndex, although every consumer  *)
(* checks its claim against loads that may be old and counters that wrap   *)
(* around.                                                                 *)
(*                                                                         *)
(* The claims of one producer are intervals on a line, in the order in     *)
(* which they were made.  The code has them modulo 2^w only; the inductive *)
(* invariant says that there are places `m` on the line that they are      *)
(* modulo 2^w.  A claim that was found good, in whole or in part, shows    *)
(* that the tail has come so far that all earlier ones are good as well,   *)
(* whenever they are checked.                                              *)
(***************************************************************************)
EXTENDS ConcurrentQueue, FiniteSetsExt, Functions, FiniteSetTheorems, WellFoundedInduction, TLAPS

-----------------------------------------------------------------------------
(* What SumFunctionOnSet of the community modules sums to.  It folds over    *)
(* the set by a function that is recursive on subsets; the lemmas about it   *)
(* are proved by induction on their size, in the form that a non-empty set   *)
(* of natural numbers has a least element.                                   *)

(* A non-empty set of natural numbers has a least element: induction.       *)
LEMMA LeastNat ==
  ASSUME NEW N \in SUBSET Nat, N # {}
  PROVE  \E n \in N : \A m \in N : n <= m
<1>. DEFINE Below == {ss \in Nat \X Nat : ss[1] < ss[2]}
<1>1. IsWellFoundedOn(Below, Nat)
  BY NatLessThanWellFounded DEF OpToRel
<1>2. PICK n \in N : \A m \in N : ~ (<<m, n>> \in Below)
  BY <1>1, WFMin
<1>3. ASSUME NEW m \in N
      PROVE  n <= m
  <2>1. n \in Nat /\ m \in Nat
    OBVIOUS
  <2>2. m < n => <<m, n>> \in Below
    BY <2>1
  <2>. QED
    BY <1>2, <2>1, <2>2
<1>. QED
  BY <1>3

Picked(s) == CHOOSE x \in s : TRUE

(* The equation of the recursive function behind SumFunctionOnSet(f, S), at s. *)
SumAt(g, f, s) == IF s = {} THEN 0 ELSE f[Picked(s)] + g[s \ {Picked(s)}]

IsSum(g, f, S) == g = [s \in SUBSET S |-> SumAt(g, f, s)]

LEMMA PickedIsIn ==
  ASSUME NEW s, s # {}
  PROVE  Picked(s) \in s
BY DEF Picked

LEMMA Rest ==
  ASSUME NEW S, IsFiniteSet(S), NEW s \in SUBSET S, s # {}
  PROVE  /\ IsFiniteSet(s) /\ Cardinality(s) \in Nat
         /\ s \ {Picked(s)} \in SUBSET S
         /\ Cardinality(s \ {Picked(s)}) = Cardinality(s) - 1
         /\ Cardinality(s \ {Picked(s)}) \in Nat
BY PickedIsIn, FS_Subset, FS_RemoveElement, FS_CardinalityType

(* There is such a function: by induction on the size of the sets it sums over. *)
LEMMA SumExists ==
  ASSUME NEW S, IsFiniteSet(S), NEW f
  PROVE  \E g : IsSum(g, f, S)
<1>. DEFINE UpTo(g, n) == \A s \in SUBSET S : Cardinality(s) <= n => g[s] = SumAt(g, f, s)
            Bad == {n \in Nat : ~ \E g : UpTo(g, n)}
<1>1. Bad = {}
  <2>1. SUFFICES ASSUME NEW n \in Bad, \A m \in Bad : n <= m
                 PROVE  FALSE
    BY LeastNat
  <2>2. n # 0
    <3>1. ASSUME NEW s \in SUBSET S, Cardinality(s) <= 0
          PROVE  [t \in SUBSET S |-> 0][s] = SumAt([t \in SUBSET S |-> 0], f, s)
      <4>1. s = {}
        BY <3>1, FS_Subset, FS_CardinalityType, FS_EmptySet
      <4>. QED
        BY <4>1 DEF SumAt
    <3>2. UpTo([t \in SUBSET S |-> 0], 0)
      BY <3>1
    <3>. QED
      BY <3>2
  <2>3. PICK g : UpTo(g, n - 1)
    BY <2>1, <2>2
  <2>. DEFINE h == [s \in SUBSET S |-> IF Cardinality(s) <= n - 1 THEN g[s] ELSE SumAt(g, f, s)]
  <2>4. ASSUME NEW s \in SUBSET S, Cardinality(s) <= n
        PROVE  h[s] = SumAt(h, f, s)
    <3>1. CASE s = {}
      BY <3>1, <2>3, <2>2, FS_EmptySet DEF SumAt
    <3>2. CASE s # {}
      <4>1. h[s \ {Picked(s)}] = g[s \ {Picked(s)}]
        <5>1. /\ s \ {Picked(s)} \in SUBSET S
              /\ Cardinality(s) \in Nat
              /\ Cardinality(s \ {Picked(s)}) = Cardinality(s) - 1
          BY <3>2, Rest
        <5>2. n \in Nat /\ Cardinality(s) <= n
          BY <2>1, <2>4
        <5>3. Cardinality(s \ {Picked(s)}) <= n - 1
          BY <5>1, <5>2
        <5>. QED
          BY <5>1, <5>3
      <4>2. SumAt(h, f, s) = SumAt(g, f, s)
        BY <4>1 DEF SumAt
      <4>3. h[s] = SumAt(g, f, s)
        BY <2>3
      <4>. QED
        BY <4>2, <4>3
    <3>. QED
      BY <3>1, <3>2
  <2>5. UpTo(h, n)
    BY <2>4
  <2>. QED
    BY <2>5
<1>2. Cardinality(S) \in Nat
  BY FS_CardinalityType
<1>3. PICK g : UpTo(g, Cardinality(S))
  BY <1>1, <1>2
<1>. DEFINE h == [s \in SUBSET S |-> g[s]]
<1>4. ASSUME NEW s \in SUBSET S
      PROVE  h[s] = SumAt(h, f, s)
  <2>1. g[s] = SumAt(g, f, s)
    BY <1>3, FS_Subset
  <2>2. SumAt(g, f, s) = SumAt(h, f, s)
    BY Rest DEF SumAt
  <2>. QED
    BY <2>1, <2>2
<1>5. IsSum(h, f, S)
  BY <1>4 DEF IsSum
<1>. QED
  BY <1>5

(* So SumFunctionOnSet is the value of one at the whole set. *)
LEMMA SumIs ==
  ASSUME NEW S, IsFiniteSet(S), NEW f
  PROVE  \E g : IsSum(g, f, S) /\ SumFunctionOnSet(f, S) = g[S]
<1>. DEFINE g == CHOOSE h : IsSum(h, f, S)
<1>1. IsSum(g, f, S)
  BY SumExists
<1>2. SumFunctionOnSet(f, S) = g[S]
  BY DEF SumFunctionOnSet, FoldFunctionOnSet, MapThenFoldSet, IsSum, SumAt, Picked
<1>. QED
  BY <1>1, <1>2

(* A set of subsets of S has one with the fewest elements. *)
LEMMA LeastSubset ==
  ASSUME NEW S, IsFiniteSet(S), NEW Bad \in SUBSET SUBSET S, Bad # {}
  PROVE  \E s \in Bad : \A t \in SUBSET S : Cardinality(t) < Cardinality(s) => t \notin Bad
<1>1. \A s \in SUBSET S : Cardinality(s) \in Nat
  BY FS_Subset, FS_CardinalityType
<1>. DEFINE Sizes == {Cardinality(s) : s \in Bad}
<1>2. Sizes \in SUBSET Nat /\ Sizes # {}
  BY <1>1
<1>3. PICK n \in Sizes : \A m \in Sizes : n <= m
  BY <1>2, LeastNat
<1>4. PICK s \in Bad : n = Cardinality(s)
  BY <1>3
<1>5. ASSUME NEW t \in Bad, Cardinality(t) < Cardinality(s)
      PROVE  FALSE
  BY <1>1, <1>3, <1>4, <1>5
<1>. QED
  BY <1>5

(* What a function sums to, at each subset, after a change at one element.  *)
LEMMA SumsDiffer ==
  ASSUME NEW S, IsFiniteSet(S), NEW f, NEW h, NEW a,
         \A x \in S : f[x] \in Int /\ h[x] \in Int,
         \A x \in S \ {a} : h[x] = f[x],
         NEW F, IsSum(F, f, S), NEW H, IsSum(H, h, S)
  PROVE  \A s \in SUBSET S :
           /\ F[s] \in Int
           /\ H[s] = F[s] + (IF a \in s THEN h[a] - f[a] ELSE 0)
<1>. DEFINE Good(s) == /\ F[s] \in Int
                      /\ H[s] = F[s] + (IF a \in s THEN h[a] - f[a] ELSE 0)
            Bad == {s \in SUBSET S : ~ Good(s)}
<1>1. ASSUME NEW s \in Bad, \A t \in SUBSET S : Cardinality(t) < Cardinality(s) => t \notin Bad
      PROVE  FALSE
  <2>1. F[s] = SumAt(F, f, s) /\ H[s] = SumAt(H, h, s)
    BY DEF IsSum
  <2>2. s # {}
    BY <2>1 DEF SumAt
  <2>. DEFINE x == Picked(s)
              r == s \ {x}
  <2>3. /\ r \in SUBSET S
        /\ Cardinality(r) < Cardinality(s)
        /\ x \in s
    <3>1. /\ r \in SUBSET S
          /\ Cardinality(s) \in Nat
          /\ Cardinality(r) = Cardinality(s) - 1
      BY <2>2, Rest
    <3>. QED
      BY <2>2, <3>1, PickedIsIn
  <2>4. Good(r)
    BY <1>1, <2>3
  <2>5. F[s] = f[x] + F[r] /\ H[s] = h[x] + H[r]
    BY <2>1, <2>2 DEF SumAt
  <2>6. f[x] \in Int /\ h[x] \in Int
    BY <2>3
  <2>7. CASE x = a
    BY <2>3, <2>4, <2>5, <2>6, <2>7
  <2>8. CASE x # a
    <3>1. h[x] = f[x]
      BY <2>3, <2>8
    <3>2. a \in s => f[a] \in Int /\ h[a] \in Int
      OBVIOUS
    <3>. QED
      BY <2>3, <2>4, <2>5, <2>6, <2>8, <3>1, <3>2
  <2>. QED
    BY <2>7, <2>8
<1>2. Bad \in SUBSET SUBSET S
  OBVIOUS
<1>3. Bad = {}
  <2>. HIDE DEF Bad
  <2>. QED
    BY <1>1, <1>2, LeastSubset
<1>. QED
  BY <1>3

(* A sum of natural numbers is one, and 0 if they all are. *)
LEMMA SumsAreNat ==
  ASSUME NEW S, IsFiniteSet(S), NEW f, \A x \in S : f[x] \in Nat, NEW F, IsSum(F, f, S)
  PROVE  \A s \in SUBSET S : F[s] \in Nat /\ ((\A x \in s : f[x] = 0) => F[s] = 0)
<1>. DEFINE Good(s) == F[s] \in Nat /\ ((\A x \in s : f[x] = 0) => F[s] = 0)
            Bad == {s \in SUBSET S : ~ Good(s)}
<1>1. ASSUME NEW s \in Bad, \A t \in SUBSET S : Cardinality(t) < Cardinality(s) => t \notin Bad
      PROVE  FALSE
  <2>1. F[s] = SumAt(F, f, s)
    BY DEF IsSum
  <2>2. s # {}
    BY <2>1 DEF SumAt
  <2>. DEFINE x == Picked(s)
              r == s \ {x}
  <2>3. /\ r \in SUBSET S
        /\ Cardinality(r) < Cardinality(s)
        /\ x \in s
    <3>1. /\ r \in SUBSET S
          /\ Cardinality(s) \in Nat
          /\ Cardinality(r) = Cardinality(s) - 1
      BY <2>2, Rest
    <3>. QED
      BY <2>2, <3>1, PickedIsIn
  <2>4. Good(r)
    BY <1>1, <2>3
  <2>5. F[s] = f[x] + F[r]
    BY <2>1, <2>2 DEF SumAt
  <2>6. f[x] \in Nat
    BY <2>3
  <2>. QED
    BY <2>3, <2>4, <2>5, <2>6
<1>2. Bad \in SUBSET SUBSET S
  OBVIOUS
<1>3. Bad = {}
  <2>. HIDE DEF Bad
  <2>. QED
    BY <1>1, <1>2, LeastSubset
<1>. QED
  BY <1>3

(* The same of the operator: what a sum of natural numbers is ... *)
LEMMA SumOfNat ==
  ASSUME NEW S, IsFiniteSet(S), NEW f, \A x \in S : f[x] \in Nat
  PROVE  /\ SumFunctionOnSet(f, S) \in Nat
         /\ (\A x \in S : f[x] = 0) => SumFunctionOnSet(f, S) = 0
<1>1. PICK F : IsSum(F, f, S) /\ SumFunctionOnSet(f, S) = F[S]
  BY SumIs
<1>2. F[S] \in Nat /\ ((\A x \in S : f[x] = 0) => F[S] = 0)
  BY <1>1, SumsAreNat
<1>. QED
  BY <1>1, <1>2

LEMMA SumIsInt ==
  ASSUME NEW S, IsFiniteSet(S), NEW f, \A x \in S : f[x] \in Int
  PROVE  SumFunctionOnSet(f, S) \in Int
<1>1. PICK F : IsSum(F, f, S) /\ SumFunctionOnSet(f, S) = F[S]
  BY SumIs
<1>2. F[S] \in Int
  BY <1>1, SumsDiffer
<1>. QED
  BY <1>1, <1>2

(* ... and how it changes with one summand, or not. *)
LEMMA SumChanges ==
  ASSUME NEW S, IsFiniteSet(S), NEW f, NEW h, NEW a \in S,
         \A x \in S : f[x] \in Int /\ h[x] \in Int,
         \A x \in S \ {a} : h[x] = f[x]
  PROVE  SumFunctionOnSet(h, S) = SumFunctionOnSet(f, S) + (h[a] - f[a])
<1>1. PICK F : IsSum(F, f, S) /\ SumFunctionOnSet(f, S) = F[S]
  BY SumIs
<1>2. PICK H : IsSum(H, h, S) /\ SumFunctionOnSet(h, S) = H[S]
  BY SumIs
<1>3. H[S] = F[S] + (IF a \in S THEN h[a] - f[a] ELSE 0)
  BY <1>1, <1>2, SumsDiffer
<1>. QED
  BY <1>1, <1>2, <1>3

LEMMA SumStays ==
  ASSUME NEW S, IsFiniteSet(S), NEW f, NEW h,
         \A x \in S : f[x] \in Int /\ h[x] = f[x]
  PROVE  SumFunctionOnSet(h, S) = SumFunctionOnSet(f, S)
<1>1. CASE S = {}
  <2>1. PICK F : IsSum(F, f, S) /\ SumFunctionOnSet(f, S) = F[S]
    BY SumIs
  <2>2. PICK H : IsSum(H, h, S) /\ SumFunctionOnSet(h, S) = H[S]
    BY SumIs
  <2>. QED
    BY <1>1, <2>1, <2>2 DEF IsSum, SumAt
<1>2. CASE S # {}
  <2>1. PICK a \in S : TRUE
    BY <1>2
  <2>2. SumFunctionOnSet(h, S) = SumFunctionOnSet(f, S) + (h[a] - f[a])
    BY SumChanges
  <2>3. SumFunctionOnSet(f, S) \in Int
    BY SumIsInt
  <2>. QED
    BY <2>2, <2>3
<1>. QED
  BY <1>1, <1>2

(* Summand by summand less or equal ... *)
LEMMA SumsCompare ==
  ASSUME NEW S, IsFiniteSet(S), NEW f, NEW h,
         \A x \in S : f[x] \in Int /\ h[x] \in Int /\ f[x] <= h[x],
         NEW F, IsSum(F, f, S), NEW H, IsSum(H, h, S)
  PROVE  \A s \in SUBSET S : F[s] \in Int /\ H[s] \in Int /\ F[s] <= H[s]
<1>. DEFINE Good(s) == F[s] \in Int /\ H[s] \in Int /\ F[s] <= H[s]
            Bad == {s \in SUBSET S : ~ Good(s)}
<1>1. ASSUME NEW s \in Bad, \A t \in SUBSET S : Cardinality(t) < Cardinality(s) => t \notin Bad
      PROVE  FALSE
  <2>1. F[s] = SumAt(F, f, s) /\ H[s] = SumAt(H, h, s)
    BY DEF IsSum
  <2>2. s # {}
    BY <2>1 DEF SumAt
  <2>. DEFINE x == Picked(s)
              r == s \ {x}
  <2>3. /\ r \in SUBSET S
        /\ Cardinality(r) < Cardinality(s)
        /\ x \in s
    <3>1. /\ r \in SUBSET S
          /\ Cardinality(s) \in Nat
          /\ Cardinality(r) = Cardinality(s) - 1
      BY <2>2, Rest
    <3>. QED
      BY <2>2, <3>1, PickedIsIn
  <2>4. Good(r)
    BY <1>1, <2>3
  <2>5. F[s] = f[x] + F[r] /\ H[s] = h[x] + H[r]
    BY <2>1, <2>2 DEF SumAt
  <2>6. f[x] \in Int /\ h[x] \in Int /\ f[x] <= h[x]
    BY <2>3
  <2>. QED
    BY <2>3, <2>4, <2>5, <2>6
<1>2. Bad \in SUBSET SUBSET S
  OBVIOUS
<1>3. Bad = {}
  <2>. HIDE DEF Bad
  <2>. QED
    BY <1>1, <1>2, LeastSubset
<1>. QED
  BY <1>3

LEMMA SumIsLess ==
  ASSUME NEW S, IsFiniteSet(S), NEW f, NEW h,
         \A x \in S : f[x] \in Int /\ h[x] \in Int /\ f[x] <= h[x]
  PROVE  SumFunctionOnSet(f, S) <= SumFunctionOnSet(h, S)
<1>1. PICK F : IsSum(F, f, S) /\ SumFunctionOnSet(f, S) = F[S]
  BY SumIs
<1>2. PICK H : IsSum(H, h, S) /\ SumFunctionOnSet(h, S) = H[S]
  BY SumIs
<1>3. F[S] <= H[S]
  BY <1>1, <1>2, SumsCompare
<1>. QED
  BY <1>1, <1>2, <1>3

(* ... and so at most k for each of the elements, if no summand is more.    *)
LEMMA SumAtMost ==
  ASSUME NEW S, IsFiniteSet(S), NEW f, NEW k \in Int,
         \A x \in S : f[x] \in Int /\ f[x] <= k
  PROVE  SumFunctionOnSet(f, S) <= k * Cardinality(S)
<1>1. PICK F : IsSum(F, f, S) /\ SumFunctionOnSet(f, S) = F[S]
  BY SumIs
<1>. DEFINE Good(s) == F[s] \in Int /\ F[s] <= k * Cardinality(s)
            Bad == {s \in SUBSET S : ~ Good(s)}
<1>2. ASSUME NEW s \in Bad, \A t \in SUBSET S : Cardinality(t) < Cardinality(s) => t \notin Bad
      PROVE  FALSE
  <2>1. F[s] = SumAt(F, f, s)
    BY <1>1 DEF IsSum
  <2>2. CASE s = {}
    <3>1. F[s] = 0 /\ Cardinality(s) = 0
      BY <2>1, <2>2, FS_EmptySet DEF SumAt
    <3>. QED
      BY <3>1
  <2>3. CASE s # {}
    <3>. DEFINE x == Picked(s)
                r == s \ {x}
    <3>1. /\ r \in SUBSET S
          /\ Cardinality(s) \in Nat /\ Cardinality(r) \in Nat
          /\ Cardinality(r) = Cardinality(s) - 1
          /\ x \in s
      BY <2>3, Rest, PickedIsIn
    <3>2. Good(r)
      BY <1>2, <3>1
    <3>3. F[s] = f[x] + F[r] /\ f[x] \in Int /\ f[x] <= k
      BY <2>1, <2>3, <3>1 DEF SumAt
    <3>4. \A n \in Nat : k * (n - 1) = k * n - k /\ k * n \in Int
      OBVIOUS
    <3>5. k * Cardinality(r) = k * Cardinality(s) - k /\ k * Cardinality(s) \in Int
      BY <3>1, <3>4
    <3>. HIDE DEF x, r
    <3>6. F[s] \in Int /\ F[s] <= k * Cardinality(s)
      BY <3>2, <3>3, <3>5
    <3>. QED
      BY <3>6
  <2>. QED
    BY <2>2, <2>3
<1>3. Bad \in SUBSET SUBSET S
  OBVIOUS
<1>4. Bad = {}
  <2>. HIDE DEF Bad
  <2>. QED
    BY <1>2, <1>3, LeastSubset
<1>. QED
  BY <1>1, <1>4

-----------------------------------------------------------------------------
(* The inductive invariant *)

Claiming == {"tail", "overcommit", "optimistic", "claim"}
Taking == {"take", "index", "front", "slot", "read", "empty", "unindex", "free"}
CallPcs == {"idle", "survey", "check", "give"} \cup Claiming \cup Taking

(* Records of a call, the fields that play no part here with any value. *)
Records(kinds, ats, gots, firsts, lasts, headers, slots, blocks) ==
  [pc : CallPcs, kind : kinds, max : Nat, at : ats, rest : Seq(Producers), got : gots,
   best : Int, nonEmpty : Int, tail : Int, over : Nat, want : Nat, mine : Int, give : Nat,
   first : firsts, last : lasts, header : headers, slot : slots, block : blocks]

IsRecord(d) ==
  d \in Records({d.kind}, {d.at}, {d.got}, {d.first}, {d.last}, {d.header}, {d.slot}, {d.block})

IsEnqueue(e) ==
  e \in [pc : {e.pc}, n : Nat, need : {e.need}, base : {e.base}, first : {e.first},
         start : {e.start}, slots : {e.slots}, front : {e.front}]

(* The producers that a call has still to go to, once each. *)
Ahead(d) == {d.rest[i] : i \in DOMAIN d.rest}

IsCall(d) ==
  /\ IsRecord(d)
  /\ d.pc # "idle" => d.max \in 1 .. MaxBulk
  /\ d.pc \notin {"idle", "survey"} => d.at \in Producers \ Ahead(d) /\ IsInjective(d.rest)
  /\ d.pc = "survey" =>
       d.rest # <<>> /\ (d.best > 0 \/ d.nonEmpty # 0 => d.at \in Producers)
  /\ d.pc \in {"claim", "check"} \cup Taking => d.want \in 1 .. d.max
  /\ d.pc = "give" => d.give >= 1 /\ d.want + d.give <= d.max

Tokens == [desired : Int, current : Int, known : Int, consumed : Int]

Types ==
  /\ tailIndex \in [Producers -> Nat] /\ headIndex \in [Producers -> Nat]
  /\ dequeueOptimisticCount \in [Producers -> Int] /\ dequeueOvercommit \in [Producers -> Nat]
  /\ enq = [p \in Producers |-> enq[p]] /\ \A p \in Producers : IsEnqueue(enq[p])
  /\ deq = [c \in Consumers |-> deq[c]] /\ \A c \in Consumers : IsCall(deq[c])
  /\ token \in [Consumers -> Tokens] /\ globalExplicitConsumerOffset \in Int
  /\ scenario \in Scenarios

(* A load of dequeueOvercommit is never too large, only too old. *)
LoadsAreOld ==
  \A c \in Consumers :
    deq[c].pc \in {"optimistic", "claim", "check"} => deq[c].over <= dequeueOvercommit[At(c)]

(* What the call may still give back to the producer. *)
MayGiveBack(d, p) ==
  IF d.pc = "survey" \/ p \in Ahead(d) \/ (d.at = p /\ d.pc \in Claiming)
  THEN MaxBulk ELSE UndecidedOf(d, p)

(* No counter of what was given back wraps around. *)
GiveBacks(p) == SumFunction([c \in Consumers |-> MayGiveBack(deq[c], p)])

OvercommitIsBounded ==
  \A p \in Producers :
    dequeueOvercommit[p] + GiveBacks(p) <= MaxOvercommit - 1 + MaxBulk * Cardinality(Consumers)

(* All that was ever claimed of the producer. *)
Claimed(p) == dequeueOvercommit[p] + headIndex[p] + Granted(p) + Undecided(p)

Checking(d, p) == d.at = p /\ d.pc = "check"

(* The claims that begin at `place` or before it and are not checked yet. *)
ClaimOf(d, p, start, place) == IF Checking(d, p) /\ start <= place THEN d.want ELSE 0

ClaimedUpTo(p, m, place) == SumFunction([c \in Consumers |-> ClaimOf(deq[c], p, m[c], place)])

(* What is granted if all claims up to there are. *)
GrantedUpTo(p, m, place) == headIndex[p] + Granted(p) + ClaimedUpTo(p, m, place)

(* Consumer c's claim of p: it begins at m[c].  When all before it and it    *)
(* are granted, then either the elements are there, or there are no more     *)
(* grants than up to where it ends for the consumer's own loads.             *)
ClaimIsSafe(p, m, c) ==
  LET d == deq[c]
      all == GrantedUpTo(p, m, m[c])
  IN  /\ d.mine = m[c] % IndexValues
      /\ m[c] + d.want <= Claimed(p)
      /\ m[c] - d.over <= tailIndex[p] + (IndexValues \div 2)
      /\ all <= tailIndex[p] \/ all <= m[c] + d.want - d.over

ClaimsAreSafe(p, m) ==
  \A c \in Consumers : Checking(deq[c], p) => ClaimIsSafe(p, m, c)

CountersAgree(p) ==
  /\ dequeueOptimisticCount[p] = Claimed(p) % IndexValues
  /\ headIndex[p] + Granted(p) <= tailIndex[p]

IndInv ==
  /\ Types
  /\ LoadsAreOld
  /\ OvercommitIsBounded
  /\ \A p \in Producers : CountersAgree(p)
  /\ \E m \in [Consumers -> Int] : \A p \in Producers : ClaimsAreSafe(p, m)

-----------------------------------------------------------------------------
(* Arithmetic on index_t *)

LEMMA ModIs ==
  ASSUME NEW n \in Nat \ {0}, NEW a \in Int
  PROVE  a % n \in 0 .. n - 1 /\ a \div n \in Int /\ a = n * (a \div n) + (a % n)
OBVIOUS

LEMMA ModOf ==
  ASSUME NEW n \in Nat \ {0}, NEW q \in Int, NEW r \in 0 .. n - 1
  PROVE  (n * q + r) % n = r
OBVIOUS

LEMMA ModAdd ==
  ASSUME NEW n \in Nat \ {0}, NEW a \in Int, NEW b \in Int
  PROVE  ((a % n) + b) % n = (a + b) % n
<1>. DEFINE r == a % n
            q == a \div n
            s == (r + b) % n
            t == (r + b) \div n
<1>1. r \in Int /\ q \in Int /\ a = n * q + r
  BY ModIs
<1>2. s \in 0 .. n - 1 /\ t \in Int /\ r + b = n * t + s
  BY <1>1, ModIs
<1>. HIDE DEF r, q, s, t
<1>3. a + b = n * q + n * t + s
  BY <1>1, <1>2
<1>4. n * q + n * t = n * (q + t)
  BY <1>1, <1>2
<1>5. a + b = n * (q + t) + s
  BY <1>1, <1>2, <1>3, <1>4
<1>6. (n * (q + t) + s) % n = s
  BY <1>1, <1>2, ModOf
<1>. QED
  BY <1>5, <1>6 DEF r, s

LEMMA ModSub ==
  ASSUME NEW n \in Nat \ {0}, NEW a \in Int, NEW b \in Int
  PROVE  (b - (a % n)) % n = (b - a) % n
<1>. DEFINE r == a % n
            q == a \div n
            s == (b - a) % n
            t == (b - a) \div n
<1>1. r \in Int /\ q \in Int /\ a = n * q + r
  BY ModIs
<1>2. s \in 0 .. n - 1 /\ t \in Int /\ b - a = n * t + s
  <2>1. PICK x \in Int : x = b - a
    OBVIOUS
  <2>2. x % n \in 0 .. n - 1 /\ x \div n \in Int /\ x = n * (x \div n) + (x % n)
    BY ModIs
  <2>. QED
    BY <2>1, <2>2
<1>. HIDE DEF r, q, s, t
<1>3. b - r = n * q + n * t + s
  BY <1>1, <1>2
<1>4. n * q + n * t = n * (q + t)
  BY <1>1, <1>2
<1>5. b - r = n * (q + t) + s
  BY <1>1, <1>2, <1>3, <1>4
<1>6. (n * (q + t) + s) % n = s
  BY <1>1, <1>2, ModOf
<1>. QED
  BY <1>5, <1>6 DEF r, s

(* A difference that circular_less_than finds positive is positive, if it is *)
(* not below minus half the range.                                           *)
LEMMA LessIs ==
  ASSUME NEW x \in Int, - (IndexValues \div 2) <= x, Less(0, x % IndexValues)
  PROVE  x % IndexValues \in 1 .. x
<1>. DEFINE n == IndexValues
            r == x % n
<1>1. n \in Nat \ {0} /\ n \div 2 \in Nat /\ 2 * (n \div 2) \in {n, n - 1}
  BY ClaimAssumption
<1>2. r \in 0 .. n - 1 /\ (0 - r) % n > n \div 2
  BY <1>1, ModIs DEF Less
<1>3. r # 0
  <2>1. 0 % n = 0
    BY <1>1
  <2>. QED
    BY <1>1, <1>2, <2>1
<1>4. (0 - r) % n = n - r
  BY <1>1, <1>2, <1>3
<1>5. ~ (x < 0)
  <2>1. SUFFICES ASSUME x < 0 PROVE FALSE
    OBVIOUS
  <2>2. r = x + n
    BY <1>1, <2>1
  <2>. QED
    BY <1>1, <1>2, <1>4, <2>1, <2>2
<1>6. r <= x
  BY <1>1, <1>5
<1>. QED
  BY <1>1, <1>2, <1>3, <1>6

-----------------------------------------------------------------------------
(* Calls *)

LEMMA TailIs ==
  ASSUME NEW S, NEW s \in Seq(S), s # <<>>
  PROVE  /\ Head(s) \in S /\ Tail(s) \in Seq(S)
         /\ \A i \in DOMAIN Tail(s) : i \in Nat /\ i + 1 \in DOMAIN s /\ Tail(s)[i] = s[i + 1]
         /\ 1 \in DOMAIN s /\ Head(s) = s[1]
OBVIOUS

LEMMA NoCallIs ==
  /\ IsCall(NoCall) /\ NoCall.pc = "idle"
  /\ \A p \in Producers : MayGiveBack(NoCall, p) = 0
BY DEF NoCall, IsCall, IsRecord, Records, CallPcs, Claiming, Taking, NoBlock, MayGiveBack, UndecidedOf, Ahead

(* The next producer is one that the call has not been to. *)
LEMMA NextProducerIs ==
  ASSUME NEW d, d.rest \in Seq(Producers), IsInjective(d.rest), d.max \in 1 .. MaxBulk
  PROVE  /\ IsCall(NextProducer(d)) /\ NextProducer(d).pc \in {"idle", "tail"}
         /\ \A p \in Producers \ Ahead(d) : MayGiveBack(NextProducer(d), p) = 0
<1>1. CASE d.rest = <<>>
  BY <1>1, NoCallIs DEF NextProducer
<1>2. CASE d.rest # <<>>
  <2>. DEFINE e == NextProducer(d)
  <2>1. e = [NoCall EXCEPT !.pc = "tail", !.kind = d.kind, !.max = d.max, !.got = d.got,
                           !.at = Head(d.rest), !.rest = Tail(d.rest)]
    BY <1>2 DEF NextProducer
  <2>2. /\ Head(d.rest) \in Producers /\ Tail(d.rest) \in Seq(Producers)
        /\ \A i \in DOMAIN Tail(d.rest) :
              i \in Nat /\ i + 1 \in DOMAIN d.rest /\ Tail(d.rest)[i] = d.rest[i + 1]
        /\ 1 \in DOMAIN d.rest /\ Head(d.rest) = d.rest[1]
    BY <1>2, TailIs
  <2>3. IsRecord(e) /\ e.pc = "tail" /\ e.max = d.max /\ e.at = Head(d.rest) /\ e.rest = Tail(d.rest)
    <3>1. PICK pc \in CallPcs : pc = "tail"
      BY DEF CallPcs, Claiming
    <3>2. d.max \in Nat
      BY ClaimAssumption
    <3>. DEFINE R == [pc : CallPcs, kind : {"none", d.kind}, max : Nat, at : {"none"} \cup Producers,
                      rest : Seq(Producers), got : {<<>>, d.got}, best : {0}, nonEmpty : {0}, tail : {0},
                      over : {0}, want : {0}, mine : {0}, give : {0}, first : {0}, last : {0},
                      header : {0}, slot : {0}, block : {NoBlock}]
    <3>3. NoCall \in R
      BY DEF NoCall, CallPcs
    <3>4. PICK n \in R : n = NoCall
      BY <3>3
    <3>5. e = [n EXCEPT !.pc = pc, !.kind = d.kind, !.max = d.max, !.got = d.got,
                        !.at = Head(d.rest), !.rest = Tail(d.rest)]
      BY <2>1, <3>1, <3>4
    <3>. HIDE DEF e
    <3>6. e \in R /\ e.pc = pc /\ e.max = d.max /\ e.at = Head(d.rest) /\ e.rest = Tail(d.rest)
      BY <2>2, <3>1, <3>2, <3>4, <3>5
    <3>. QED
      BY <3>1, <3>6 DEF IsRecord, Records
  <2>4. IsInjective(Tail(d.rest)) /\ Head(d.rest) \notin {Tail(d.rest)[i] : i \in DOMAIN Tail(d.rest)}
    <3>1. ASSUME NEW i \in DOMAIN Tail(d.rest), NEW j \in DOMAIN Tail(d.rest),
                 Tail(d.rest)[i] = Tail(d.rest)[j]
          PROVE  i = j
      BY <2>2, <3>1 DEF IsInjective
    <3>2. ASSUME NEW i \in DOMAIN Tail(d.rest), Tail(d.rest)[i] = Head(d.rest)
          PROVE  FALSE
      BY <2>2, <3>2 DEF IsInjective
    <3>. QED
      BY <3>1, <3>2 DEF IsInjective
  <2>. HIDE DEF e
  <2>5. IsCall(e)
    BY <2>2, <2>3, <2>4 DEF IsCall, Ahead, Taking
  <2>6. ASSUME NEW p \in Producers \ Ahead(d)
        PROVE  MayGiveBack(e, p) = 0
    <3>1. p # e.at /\ p \notin Ahead(e)
      BY <2>2, <2>3 DEF Ahead
    <3>. QED
      BY <2>3, <3>1 DEF MayGiveBack, UndecidedOf
  <2>. QED
    BY <2>3, <2>5, <2>6 DEF e
<1>. QED
  BY <1>1, <1>2

-----------------------------------------------------------------------------
(* Sums over the consumers, and how the step of one of them changes them *)

(* A step of one consumer. *)
CallBecomes(c, d) == IsCall(d) /\ deq' = [deq EXCEPT ![c] = d]

LEMMA FiniteConsumers == IsFiniteSet(Consumers)
BY ClaimAssumption

LEMMA ContributionsAre ==
  ASSUME NEW d, IsCall(d), NEW p \in Producers
  PROVE  /\ GrantedTo(d, p) \in Nat /\ UndecidedOf(d, p) \in Nat
         /\ MayGiveBack(d, p) \in Nat /\ MayGiveBack(d, p) <= MaxBulk
         /\ UndecidedOf(d, p) <= MayGiveBack(d, p)
         /\ \A start, place : /\ ClaimOf(d, p, start, place) \in Nat
                              /\ ClaimOf(d, p, start, place) <= UndecidedOf(d, p)
<1>1. d.want \in Nat /\ d.give \in Nat /\ d.max \in Nat
  BY DEF IsCall, IsRecord, Records
<1>2. UndecidedOf(d, p) \in Nat /\ UndecidedOf(d, p) <= MaxBulk
  BY <1>1, ClaimAssumption DEF IsCall, UndecidedOf
<1>. QED
  BY <1>1, <1>2, ClaimAssumption DEF GrantedTo, MayGiveBack, ClaimOf, UndecidedOf, Checking

LEMMA SumsOfCalls ==
  ASSUME NEW q, \A c \in Consumers : IsCall(q[c]), NEW p \in Producers
  PROVE  LET granted == SumFunction([c \in Consumers |-> GrantedTo(q[c], p)])
             undecided == SumFunction([c \in Consumers |-> UndecidedOf(q[c], p)])
             giveBacks == SumFunction([c \in Consumers |-> MayGiveBack(q[c], p)])
         IN  /\ granted \in Nat /\ undecided \in Nat /\ giveBacks \in Nat
             /\ undecided <= giveBacks
             /\ giveBacks <= MaxBulk * Cardinality(Consumers)
             /\ \A m, place :
                  LET claimed == SumFunction([c \in Consumers |-> ClaimOf(q[c], p, m[c], place)])
                  IN  claimed \in Nat /\ claimed <= undecided
<1>. DEFINE g == [c \in Consumers |-> GrantedTo(q[c], p)]
            u == [c \in Consumers |-> UndecidedOf(q[c], p)]
            b == [c \in Consumers |-> MayGiveBack(q[c], p)]
<1>1. \A c \in Consumers : /\ g[c] \in Nat /\ u[c] \in Nat /\ b[c] \in Nat
                           /\ u[c] <= b[c] /\ b[c] <= MaxBulk
  BY ContributionsAre
<1>2. /\ SumFunction(g) = SumFunctionOnSet(g, Consumers)
      /\ SumFunction(u) = SumFunctionOnSet(u, Consumers)
      /\ SumFunction(b) = SumFunctionOnSet(b, Consumers)
  BY DEF SumFunction
<1>3. ASSUME NEW m, NEW place
      PROVE  LET claimed == SumFunction([c \in Consumers |-> ClaimOf(q[c], p, m[c], place)])
             IN  claimed \in Nat /\ claimed <= SumFunction(u)
  <2>. DEFINE l == [c \in Consumers |-> ClaimOf(q[c], p, m[c], place)]
  <2>1. \A c \in Consumers : l[c] \in Nat /\ l[c] <= u[c]
    BY ContributionsAre
  <2>2. SumFunction(l) = SumFunctionOnSet(l, Consumers)
    BY DEF SumFunction
  <2>3. SumFunctionOnSet(l, Consumers) \in Nat
    <3>. HIDE DEF l
    <3>. QED
      BY <2>1, SumOfNat, FiniteConsumers
  <2>4. SumFunctionOnSet(l, Consumers) <= SumFunctionOnSet(u, Consumers)
    <3>. HIDE DEF l, u
    <3>1. \A c \in Consumers : l[c] \in Int /\ u[c] \in Int /\ l[c] <= u[c]
      BY <1>1, <2>1
    <3>. QED
      BY <3>1, SumIsLess, FiniteConsumers
  <2>. QED
    BY <1>2, <2>2, <2>3, <2>4
<1>. HIDE DEF g, u, b
<1>4. /\ SumFunctionOnSet(g, Consumers) \in Nat
      /\ SumFunctionOnSet(u, Consumers) \in Nat
      /\ SumFunctionOnSet(b, Consumers) \in Nat
  BY <1>1, SumOfNat, FiniteConsumers
<1>5. SumFunctionOnSet(u, Consumers) <= SumFunctionOnSet(b, Consumers)
  BY <1>1, SumIsLess, FiniteConsumers
<1>6. SumFunctionOnSet(b, Consumers) <= MaxBulk * Cardinality(Consumers)
  <2>1. MaxBulk \in Int /\ \A c \in Consumers : b[c] \in Int /\ b[c] <= MaxBulk
    BY <1>1, ClaimAssumption
  <2>. QED
    BY <2>1, SumAtMost, FiniteConsumers
<1>. QED
  BY <1>2, <1>3, <1>4, <1>5, <1>6 DEF g, u, b

LEMMA SumsAre ==
  ASSUME Types, NEW p \in Producers
  PROVE  /\ Granted(p) \in Nat /\ Undecided(p) \in Nat /\ GiveBacks(p) \in Nat
         /\ Undecided(p) <= GiveBacks(p)
         /\ \A m, place :
              ClaimedUpTo(p, m, place) \in Nat /\ ClaimedUpTo(p, m, place) <= Undecided(p)
<1>1. \A c \in Consumers : IsCall(deq[c])
  BY DEF Types
<1>. QED
  BY <1>1, SumsOfCalls DEF Granted, Undecided, GiveBacks, ClaimedUpTo

LEMMA CallsAfter ==
  ASSUME Types, NEW c \in Consumers, NEW d, CallBecomes(c, d)
  PROVE  /\ deq' = [e \in Consumers |-> deq'[e]] /\ \A e \in Consumers : IsCall(deq'[e])
         /\ deq'[c] = d /\ \A e \in Consumers \ {c} : deq'[e] = deq[e]
BY DEF Types, CallBecomes

LEMMA SumsAfter ==
  ASSUME Types, NEW p \in Producers,
         NEW c \in Consumers, NEW d, CallBecomes(c, d)
  PROVE  /\ Granted(p)' \in Nat /\ Undecided(p)' \in Nat /\ GiveBacks(p)' \in Nat
         /\ GiveBacks(p)' <= MaxBulk * Cardinality(Consumers)
         /\ \A m, place :
              ClaimedUpTo(p, m, place)' \in Nat /\ ClaimedUpTo(p, m, place)' <= Undecided(p)'
<1>1. \A e \in Consumers : IsCall(deq'[e])
  BY CallsAfter
<1>2. PICK q : q = deq'
  OBVIOUS
<1>3. \A e \in Consumers : IsCall(q[e])
  BY <1>1, <1>2
<1>4. /\ Granted(p)' = SumFunction([e \in Consumers |-> GrantedTo(q[e], p)])
      /\ Undecided(p)' = SumFunction([e \in Consumers |-> UndecidedOf(q[e], p)])
      /\ GiveBacks(p)' = SumFunction([e \in Consumers |-> MayGiveBack(q[e], p)])
      /\ \A m, place : ClaimedUpTo(p, m, place)'
                        = SumFunction([e \in Consumers |-> ClaimOf(q[e], p, m[e], place)])
  BY <1>2 DEF Granted, Undecided, GiveBacks, ClaimedUpTo
<1>5. LET granted == SumFunction([e \in Consumers |-> GrantedTo(q[e], p)])
          undecided == SumFunction([e \in Consumers |-> UndecidedOf(q[e], p)])
          giveBacks == SumFunction([e \in Consumers |-> MayGiveBack(q[e], p)])
      IN  /\ granted \in Nat /\ undecided \in Nat /\ giveBacks \in Nat
          /\ giveBacks <= MaxBulk * Cardinality(Consumers)
          /\ \A m, place :
               LET claimed == SumFunction([e \in Consumers |-> ClaimOf(q[e], p, m[e], place)])
               IN  claimed \in Nat /\ claimed <= undecided
  BY <1>3, SumsOfCalls
<1>. QED
  BY <1>4, <1>5

LEMMA GrantedStep ==
  ASSUME Types, NEW p \in Producers,
         NEW c \in Consumers, NEW d, CallBecomes(c, d)
  PROVE  Granted(p)' = Granted(p) + (GrantedTo(d, p) - GrantedTo(deq[c], p))
<1>. DEFINE f == [e \in Consumers |-> GrantedTo(deq[e], p)]
            h == [e \in Consumers |-> GrantedTo(deq'[e], p)]
<1>1. deq'[c] = d /\ \A e \in Consumers \ {c} : deq'[e] = deq[e]
  BY CallsAfter
<1>2. \A e \in Consumers : f[e] \in Int /\ h[e] \in Int
  <2>1. \A e \in Consumers : IsCall(deq[e]) /\ IsCall(deq'[e])
    BY CallsAfter DEF Types
  <2>. QED
    BY <2>1, ContributionsAre
<1>3. \A e \in Consumers \ {c} : h[e] = f[e]
  BY <1>1
<1>4. Granted(p) = SumFunctionOnSet(f, Consumers) /\ Granted(p)' = SumFunctionOnSet(h, Consumers)
  BY DEF Granted, SumFunction
<1>5. f[c] = GrantedTo(deq[c], p) /\ h[c] = GrantedTo(d, p)
  BY <1>1
<1>. HIDE DEF f, h
<1>6. SumFunctionOnSet(h, Consumers) = SumFunctionOnSet(f, Consumers) + (h[c] - f[c])
  BY <1>2, <1>3, SumChanges, FiniteConsumers
<1>. QED
  BY <1>4, <1>5, <1>6

LEMMA UndecidedStep ==
  ASSUME Types, NEW p \in Producers,
         NEW c \in Consumers, NEW d, CallBecomes(c, d)
  PROVE  Undecided(p)' = Undecided(p) + (UndecidedOf(d, p) - UndecidedOf(deq[c], p))
<1>. DEFINE f == [e \in Consumers |-> UndecidedOf(deq[e], p)]
            h == [e \in Consumers |-> UndecidedOf(deq'[e], p)]
<1>1. deq'[c] = d /\ \A e \in Consumers \ {c} : deq'[e] = deq[e]
  BY CallsAfter
<1>2. \A e \in Consumers : f[e] \in Int /\ h[e] \in Int
  <2>1. \A e \in Consumers : IsCall(deq[e]) /\ IsCall(deq'[e])
    BY CallsAfter DEF Types
  <2>. QED
    BY <2>1, ContributionsAre
<1>3. \A e \in Consumers \ {c} : h[e] = f[e]
  BY <1>1
<1>4. Undecided(p) = SumFunctionOnSet(f, Consumers) /\ Undecided(p)' = SumFunctionOnSet(h, Consumers)
  BY DEF Undecided, SumFunction
<1>5. f[c] = UndecidedOf(deq[c], p) /\ h[c] = UndecidedOf(d, p)
  BY <1>1
<1>. HIDE DEF f, h
<1>6. SumFunctionOnSet(h, Consumers) = SumFunctionOnSet(f, Consumers) + (h[c] - f[c])
  BY <1>2, <1>3, SumChanges, FiniteConsumers
<1>. QED
  BY <1>4, <1>5, <1>6

LEMMA GiveBacksStep ==
  ASSUME Types, NEW p \in Producers,
         NEW c \in Consumers, NEW d, CallBecomes(c, d)
  PROVE  GiveBacks(p)' = GiveBacks(p) + (MayGiveBack(d, p) - MayGiveBack(deq[c], p))
<1>. DEFINE f == [e \in Consumers |-> MayGiveBack(deq[e], p)]
            h == [e \in Consumers |-> MayGiveBack(deq'[e], p)]
<1>1. deq'[c] = d /\ \A e \in Consumers \ {c} : deq'[e] = deq[e]
  BY CallsAfter
<1>2. \A e \in Consumers : f[e] \in Int /\ h[e] \in Int
  <2>1. \A e \in Consumers : IsCall(deq[e]) /\ IsCall(deq'[e])
    BY CallsAfter DEF Types
  <2>. QED
    BY <2>1, ContributionsAre
<1>3. \A e \in Consumers \ {c} : h[e] = f[e]
  BY <1>1
<1>4. GiveBacks(p) = SumFunctionOnSet(f, Consumers) /\ GiveBacks(p)' = SumFunctionOnSet(h, Consumers)
  BY DEF GiveBacks, SumFunction
<1>5. f[c] = MayGiveBack(deq[c], p) /\ h[c] = MayGiveBack(d, p)
  BY <1>1
<1>. HIDE DEF f, h
<1>6. SumFunctionOnSet(h, Consumers) = SumFunctionOnSet(f, Consumers) + (h[c] - f[c])
  BY <1>2, <1>3, SumChanges, FiniteConsumers
<1>. QED
  BY <1>4, <1>5, <1>6

LEMMA ClaimedStep ==
  ASSUME Types, NEW p \in Producers,
         NEW c \in Consumers, NEW d, CallBecomes(c, d)
  PROVE  \A m, place :
           ClaimedUpTo(p, m, place)'
             = ClaimedUpTo(p, m, place) + (ClaimOf(d, p, m[c], place) - ClaimOf(deq[c], p, m[c], place))
<1>. SUFFICES ASSUME NEW m, NEW place
              PROVE  ClaimedUpTo(p, m, place)' = ClaimedUpTo(p, m, place)
                       + (ClaimOf(d, p, m[c], place) - ClaimOf(deq[c], p, m[c], place))
  OBVIOUS
<1>. DEFINE f == [e \in Consumers |-> ClaimOf(deq[e], p, m[e], place)]
            h == [e \in Consumers |-> ClaimOf(deq'[e], p, m[e], place)]
<1>1. deq'[c] = d /\ \A e \in Consumers \ {c} : deq'[e] = deq[e]
  BY CallsAfter
<1>2. \A e \in Consumers : f[e] \in Int /\ h[e] \in Int
  <2>1. \A e \in Consumers : IsCall(deq[e]) /\ IsCall(deq'[e])
    BY CallsAfter DEF Types
  <2>. QED
    BY <2>1, ContributionsAre
<1>3. \A e \in Consumers \ {c} : h[e] = f[e]
  BY <1>1
<1>4. /\ ClaimedUpTo(p, m, place) = SumFunctionOnSet(f, Consumers)
      /\ ClaimedUpTo(p, m, place)' = SumFunctionOnSet(h, Consumers)
  BY DEF ClaimedUpTo, SumFunction
<1>5. f[c] = ClaimOf(deq[c], p, m[c], place) /\ h[c] = ClaimOf(d, p, m[c], place)
  BY <1>1
<1>. HIDE DEF f, h
<1>6. SumFunctionOnSet(h, Consumers) = SumFunctionOnSet(f, Consumers) + (h[c] - f[c])
  BY <1>2, <1>3, SumChanges, FiniteConsumers
<1>. QED
  BY <1>4, <1>5, <1>6

(* Claims up to a later place are no fewer. *)
LEMMA MoreUpToLater ==
  ASSUME Types, NEW p \in Producers, NEW c \in Consumers, NEW d, CallBecomes(c, d),
         NEW m \in [Consumers -> Int], NEW i \in Int, NEW j \in Int, i <= j
  PROVE  ClaimedUpTo(p, m, i)' <= ClaimedUpTo(p, m, j)'
<1>. DEFINE f == [e \in Consumers |-> ClaimOf(deq'[e], p, m[e], i)]
            h == [e \in Consumers |-> ClaimOf(deq'[e], p, m[e], j)]
<1>1. \A e \in Consumers : f[e] \in Int /\ h[e] \in Int /\ f[e] <= h[e]
  <2>1. SUFFICES ASSUME NEW e \in Consumers
                 PROVE  f[e] \in Nat /\ h[e] \in Nat /\ f[e] <= h[e]
    OBVIOUS
  <2>2. f[e] \in Nat /\ h[e] \in Nat
    BY CallsAfter, ContributionsAre
  <2>3. m[e] <= i => m[e] <= j
    OBVIOUS
  <2>. QED
    BY <2>2, <2>3 DEF ClaimOf
<1>2. ClaimedUpTo(p, m, i)' = SumFunctionOnSet(f, Consumers)
  BY DEF ClaimedUpTo, SumFunction
<1>3. ClaimedUpTo(p, m, j)' = SumFunctionOnSet(h, Consumers)
  BY DEF ClaimedUpTo, SumFunction
<1>. HIDE DEF f, h
<1>4. SumFunctionOnSet(f, Consumers) <= SumFunctionOnSet(h, Consumers)
  BY <1>1, SumIsLess, FiniteConsumers
<1>. QED
  BY <1>2, <1>3, <1>4

-----------------------------------------------------------------------------
(* What keeps the invariant *)

(* A claim stays safe when the tail and the sum of claims only grow, and     *)
(* what is granted up to it does not, or is backed.                          *)
LEMMA ClaimStays ==
  ASSUME Types, NEW m \in [Consumers -> Int], NEW p \in Producers, ClaimsAreSafe(p, m),
         tailIndex'[p] \in Nat, tailIndex[p] <= tailIndex'[p],
         Claimed(p)' \in Int, Claimed(p) <= Claimed(p)',
         NEW e \in Consumers, Checking(deq'[e], p), deq'[e] = deq[e],
         GrantedUpTo(p, m, m[e])' \in Int,
         \/ GrantedUpTo(p, m, m[e])' <= GrantedUpTo(p, m, m[e])
         \/ GrantedUpTo(p, m, m[e])' <= tailIndex'[p]
  PROVE  ClaimIsSafe(p, m, e)'
<1>1. tailIndex[p] \in Nat /\ Claimed(p) \in Int
  BY SumsAre DEF Types, Claimed
<1>2. Checking(deq[e], p) /\ ClaimIsSafe(p, m, e)
  BY DEF ClaimsAreSafe
<1>3. deq[e].want \in Nat /\ deq[e].over \in Nat /\ m[e] \in Int
  BY DEF Types, IsCall, IsRecord, Records
<1>4. GrantedUpTo(p, m, m[e]) \in Int
  BY SumsAre DEF GrantedUpTo, Types
<1>5. IndexValues \div 2 \in Int
  BY ClaimAssumption
<1>. DEFINE all == GrantedUpTo(p, m, m[e])
            after == GrantedUpTo(p, m, m[e])'
<1>6. /\ deq[e].mine = m[e] % IndexValues
      /\ m[e] + deq[e].want <= Claimed(p)
      /\ m[e] - deq[e].over <= tailIndex[p] + (IndexValues \div 2)
      /\ all <= tailIndex[p] \/ all <= m[e] + deq[e].want - deq[e].over
  BY <1>2 DEF ClaimIsSafe
<1>7. after \in Int /\ (after <= all \/ after <= tailIndex'[p])
  OBVIOUS
<1>. HIDE DEF all, after
<1>8. after <= tailIndex'[p] \/ after <= m[e] + deq[e].want - deq[e].over
  BY <1>1, <1>3, <1>4, <1>6, <1>7 DEF all
<1>9. m[e] + deq[e].want <= Claimed(p)'
  BY <1>1, <1>3, <1>6
<1>10. m[e] - deq[e].over <= tailIndex'[p] + (IndexValues \div 2)
  BY <1>1, <1>3, <1>5, <1>6
<1>. QED
  BY <1>6, <1>8, <1>9, <1>10 DEF ClaimIsSafe, after

LEMMA ClaimsStay ==
  ASSUME Types, NEW m \in [Consumers -> Int], NEW p \in Producers, ClaimsAreSafe(p, m),
         tailIndex'[p] \in Nat, tailIndex[p] <= tailIndex'[p],
         Claimed(p)' \in Int, Claimed(p) <= Claimed(p)',
         \A e \in Consumers : Checking(deq'[e], p) =>
           /\ deq'[e] = deq[e]
           /\ GrantedUpTo(p, m, m[e])' \in Int
           /\ \/ GrantedUpTo(p, m, m[e])' <= GrantedUpTo(p, m, m[e])
              \/ GrantedUpTo(p, m, m[e])' <= tailIndex'[p]
  PROVE  ClaimsAreSafe(p, m)'
<1>1. SUFFICES ASSUME NEW e \in Consumers, Checking(deq'[e], p)
               PROVE  ClaimIsSafe(p, m, e)'
  BY DEF ClaimsAreSafe
<1>2. /\ deq'[e] = deq[e]
      /\ GrantedUpTo(p, m, m[e])' \in Int
      /\ \/ GrantedUpTo(p, m, m[e])' <= GrantedUpTo(p, m, m[e])
         \/ GrantedUpTo(p, m, m[e])' <= tailIndex'[p]
  BY <1>1
<1>. QED
  BY <1>1, <1>2, ClaimStays

Deciding == {"check", "give", "take"}

OthersAreTyped ==
  /\ token' \in [Consumers -> Tokens] /\ globalExplicitConsumerOffset' \in Int
  /\ UNCHANGED <<tailIndex, enq, scenario>>

(* A step of a call that makes, checks, gives back or takes nothing. *)
QuietStep(c, d) ==
  /\ CallBecomes(c, d)
  /\ deq[c].pc \notin Deciding /\ d.pc \notin Deciding
  /\ d.pc \in {"optimistic", "claim"} => d.over <= dequeueOvercommit[d.at]
  /\ MayCall \/ \A p \in Producers : MayGiveBack(d, p) <= MayGiveBack(deq[c], p)
  /\ UNCHANGED indices
  /\ OthersAreTyped

LEMMA TypesAfter ==
  ASSUME Types, NEW c \in Consumers, NEW d, CallBecomes(c, d), OthersAreTyped,
         headIndex' \in [Producers -> Nat], dequeueOptimisticCount' \in [Producers -> Int],
         dequeueOvercommit' \in [Producers -> Nat]
  PROVE  Types'
<1>1. deq' = [e \in Consumers |-> deq'[e]] /\ \A e \in Consumers : IsCall(deq'[e])
  BY CallsAfter
<1>2. /\ tailIndex' \in [Producers -> Nat] /\ enq' = [p \in Producers |-> enq'[p]]
      /\ \A p \in Producers : IsEnqueue(enq'[p])
      /\ scenario' \in Scenarios
  BY DEF Types, OthersAreTyped
<1>. QED
  BY <1>1, <1>2 DEF Types, OthersAreTyped

LEMMA LoadsStayOld ==
  ASSUME Types, LoadsAreOld, NEW c \in Consumers, NEW d, CallBecomes(c, d),
         dequeueOvercommit' \in [Producers -> Nat],
         \A p \in Producers : dequeueOvercommit[p] <= dequeueOvercommit'[p],
         d.pc \in {"optimistic", "claim", "check"} => d.over <= dequeueOvercommit'[d.at]
  PROVE  LoadsAreOld'
<1>1. SUFFICES ASSUME NEW e \in Consumers, deq'[e].pc \in {"optimistic", "claim", "check"}
               PROVE  deq'[e].over <= dequeueOvercommit'[deq'[e].at]
  BY DEF LoadsAreOld, At
<1>2. CASE e = c
  BY <1>1, <1>2, CallsAfter
<1>3. CASE e # c
  <2>1. deq'[e] = deq[e]
    BY <1>3, CallsAfter
  <2>2. deq[e].at \in Producers /\ deq[e].over \in Nat
    BY <1>1, <2>1 DEF Types, IsCall, IsRecord, Records
  <2>3. deq[e].over <= dequeueOvercommit[deq[e].at]
    BY <1>1, <2>1 DEF LoadsAreOld, At
  <2>4. dequeueOvercommit[deq[e].at] \in Nat /\ dequeueOvercommit'[deq[e].at] \in Nat
    BY <2>2 DEF Types
  <2>5. dequeueOvercommit[deq[e].at] <= dequeueOvercommit'[deq[e].at]
    BY <2>2
  <2>. QED
    BY <2>1, <2>2, <2>3, <2>4, <2>5
<1>. QED
  BY <1>2, <1>3

LEMMA OvercommitStaysBounded ==
  ASSUME Types, OvercommitIsBounded, NEW c \in Consumers, NEW d, CallBecomes(c, d),
         dequeueOvercommit' \in [Producers -> Nat],
         \A p \in Producers :
           \/ MayCall /\ dequeueOvercommit'[p] = dequeueOvercommit[p]
           \/ dequeueOvercommit'[p] + MayGiveBack(d, p)
                <= dequeueOvercommit[p] + MayGiveBack(deq[c], p)
  PROVE  OvercommitIsBounded'
<1>1. SUFFICES ASSUME NEW p \in Producers
               PROVE  dequeueOvercommit'[p] + GiveBacks(p)'
                        <= MaxOvercommit - 1 + MaxBulk * Cardinality(Consumers)
  BY DEF OvercommitIsBounded
<1>2. /\ dequeueOvercommit[p] \in Nat /\ dequeueOvercommit'[p] \in Nat
      /\ GiveBacks(p) \in Nat /\ GiveBacks(p)' \in Nat
      /\ GiveBacks(p)' <= MaxBulk * Cardinality(Consumers)
  BY SumsAre, SumsAfter DEF Types
<1>3. MaxOvercommit \in Nat /\ MaxBulk * Cardinality(Consumers) \in Int
  <2>1. Cardinality(Consumers) \in Nat
    BY FiniteConsumers, FS_CardinalityType
  <2>. QED
    BY <2>1, ClaimAssumption
<1>4. CASE MayCall /\ dequeueOvercommit'[p] = dequeueOvercommit[p]
  <2>1. dequeueOvercommit'[p] <= MaxOvercommit - 1
    BY <1>2, <1>3, <1>4 DEF MayCall
  <2>. QED
    BY <1>2, <1>3, <2>1
<1>5. CASE dequeueOvercommit'[p] + MayGiveBack(d, p)
             <= dequeueOvercommit[p] + MayGiveBack(deq[c], p)
  <2>1. GiveBacks(p)' = GiveBacks(p) + (MayGiveBack(d, p) - MayGiveBack(deq[c], p))
    BY GiveBacksStep
  <2>2. MayGiveBack(d, p) \in Nat /\ MayGiveBack(deq[c], p) \in Nat
    BY ContributionsAre DEF Types, CallBecomes
  <2>3. dequeueOvercommit[p] + GiveBacks(p) <= MaxOvercommit - 1 + MaxBulk * Cardinality(Consumers)
    BY DEF OvercommitIsBounded
  <2>. QED
    BY <1>2, <1>3, <1>5, <2>1, <2>2, <2>3
<1>. QED
  BY <1>4, <1>5

LEMMA QuietSums ==
  ASSUME Types, NEW c \in Consumers, NEW d, QuietStep(c, d), NEW p \in Producers
  PROVE  /\ Granted(p)' = Granted(p) /\ Undecided(p)' = Undecided(p)
         /\ Claimed(p)' = Claimed(p)
         /\ \A m, place : GrantedUpTo(p, m, place)' = GrantedUpTo(p, m, place)
<1>1. CallBecomes(c, d)
  BY DEF QuietStep
<1>2. /\ GrantedTo(d, p) = 0 /\ GrantedTo(deq[c], p) = 0
      /\ UndecidedOf(d, p) = 0 /\ UndecidedOf(deq[c], p) = 0
      /\ \A start, place : ClaimOf(d, p, start, place) = 0 /\ ClaimOf(deq[c], p, start, place) = 0
  BY DEF QuietStep, Deciding, GrantedTo, UndecidedOf, ClaimOf, Checking
<1>3. /\ Granted(p) \in Nat /\ Undecided(p) \in Nat
      /\ \A m, place : ClaimedUpTo(p, m, place) \in Nat
  BY SumsAre
<1>4. Granted(p)' = Granted(p) /\ Undecided(p)' = Undecided(p)
  <2>1. /\ Granted(p)' = Granted(p) + (GrantedTo(d, p) - GrantedTo(deq[c], p))
        /\ Undecided(p)' = Undecided(p) + (UndecidedOf(d, p) - UndecidedOf(deq[c], p))
    BY <1>1, GrantedStep, UndecidedStep
  <2>. QED
    BY <1>2, <1>3, <2>1
<1>5. \A m, place : ClaimedUpTo(p, m, place)' = ClaimedUpTo(p, m, place)
  <2>1. \A m, place :
          ClaimedUpTo(p, m, place)'
            = ClaimedUpTo(p, m, place) + (ClaimOf(d, p, m[c], place) - ClaimOf(deq[c], p, m[c], place))
    BY <1>1, ClaimedStep
  <2>. QED
    BY <1>2, <1>3, <2>1
<1>6. headIndex' = headIndex /\ dequeueOvercommit' = dequeueOvercommit
  BY DEF QuietStep, indices
<1>. QED
  BY <1>4, <1>5, <1>6 DEF Claimed, GrantedUpTo

LEMMA QuietInv ==
  ASSUME IndInv, NEW c \in Consumers, NEW d, QuietStep(c, d)
  PROVE  IndInv'
<1>1. Types /\ CallBecomes(c, d) /\ OthersAreTyped
  BY DEF IndInv, QuietStep
<1>2. /\ headIndex' = headIndex /\ dequeueOptimisticCount' = dequeueOptimisticCount
      /\ dequeueOvercommit' = dequeueOvercommit /\ tailIndex' = tailIndex
  BY DEF QuietStep, indices
<1>3. /\ headIndex \in [Producers -> Nat] /\ tailIndex \in [Producers -> Nat]
      /\ dequeueOptimisticCount \in [Producers -> Int] /\ dequeueOvercommit \in [Producers -> Nat]
  BY <1>1 DEF Types
<1>4. Types'
  BY <1>1, <1>2, <1>3, TypesAfter
<1>5. LoadsAreOld'
  <2>1. \A p \in Producers : dequeueOvercommit[p] <= dequeueOvercommit'[p]
    BY <1>2, <1>3
  <2>2. d.pc \in {"optimistic", "claim", "check"} => d.over <= dequeueOvercommit'[d.at]
    BY <1>2 DEF QuietStep, Deciding
  <2>3. LoadsAreOld /\ dequeueOvercommit' \in [Producers -> Nat]
    BY <1>2, <1>3 DEF IndInv
  <2>. QED
    BY <1>1, <2>1, <2>2, <2>3, LoadsStayOld
<1>6. OvercommitIsBounded'
  <2>1. ASSUME NEW p \in Producers
        PROVE  \/ MayCall /\ dequeueOvercommit'[p] = dequeueOvercommit[p]
               \/ dequeueOvercommit'[p] + MayGiveBack(d, p)
                    <= dequeueOvercommit[p] + MayGiveBack(deq[c], p)
    <3>1. /\ MayGiveBack(d, p) \in Nat /\ MayGiveBack(deq[c], p) \in Nat
          /\ dequeueOvercommit[p] \in Nat
      BY <1>1, <1>3, ContributionsAre DEF Types, CallBecomes
    <3>2. MayCall \/ MayGiveBack(d, p) <= MayGiveBack(deq[c], p)
      BY DEF QuietStep
    <3>. QED
      BY <1>2, <3>1, <3>2
  <2>2. OvercommitIsBounded /\ dequeueOvercommit' \in [Producers -> Nat]
    BY <1>2, <1>3 DEF IndInv
  <2>. QED
    BY <1>1, <2>1, <2>2, OvercommitStaysBounded
<1>7. ASSUME NEW p \in Producers
      PROVE  CountersAgree(p)'
  BY <1>1, <1>2, QuietSums DEF IndInv, CountersAgree
<1>8. PICK m \in [Consumers -> Int] : \A p \in Producers : ClaimsAreSafe(p, m)
  BY DEF IndInv
<1>9. ASSUME NEW p \in Producers
      PROVE  ClaimsAreSafe(p, m)'
  <2>1. /\ Claimed(p)' = Claimed(p) /\ \A place : GrantedUpTo(p, m, place)' = GrantedUpTo(p, m, place)
    BY <1>1, QuietSums
  <2>2. Claimed(p) \in Int /\ \A place : GrantedUpTo(p, m, place) \in Int
    BY <1>1, <1>3, SumsAre DEF Claimed, GrantedUpTo
  <2>3. ASSUME NEW e \in Consumers, Checking(deq'[e], p)
        PROVE  deq'[e] = deq[e]
    BY <1>1, <2>3, CallsAfter DEF QuietStep, Deciding, Checking
  <2>4. tailIndex'[p] \in Nat /\ tailIndex[p] <= tailIndex'[p]
    BY <1>2, <1>3
  <2>5. Claimed(p)' \in Int /\ Claimed(p) <= Claimed(p)'
    BY <2>1, <2>2
  <2>6. ASSUME NEW e \in Consumers
        PROVE  /\ GrantedUpTo(p, m, m[e])' \in Int
               /\ GrantedUpTo(p, m, m[e])' <= GrantedUpTo(p, m, m[e])
    BY <2>1, <2>2
  <2>. QED
    BY <1>1, <1>8, <2>3, <2>4, <2>5, <2>6, ClaimsStay
<1>. QED
  BY <1>4, <1>5, <1>6, <1>7, <1>8, <1>9 DEF IndInv

-----------------------------------------------------------------------------
(* Steps of a call that make, check, give back or take nothing *)

QuietCall(o, d) ==
  /\ IsCall(d) /\ d.pc \notin Deciding
  /\ \A p \in Producers : MayGiveBack(d, p) <= MayGiveBack(o, p)

LEMMA StillACall ==
  ASSUME NEW o, IsCall(o), o.pc \notin {"idle", "survey"},
         NEW d, IsRecord(d), d.pc \notin {"idle", "survey"} \cup Deciding,
         d.at = o.at, d.rest = o.rest, d.max = o.max,
         d.pc \in {"claim"} \cup Taking => d.want \in 1 .. d.max,
         d.pc \in Claiming => o.pc \in Claiming
  PROVE  QuietCall(o, d)
<1>1. Ahead(d) = Ahead(o)
  BY DEF Ahead
<1>2. IsCall(d)
  BY <1>1 DEF IsCall, Deciding
<1>3. ASSUME NEW p \in Producers
      PROVE  MayGiveBack(d, p) <= MayGiveBack(o, p)
  <2>1. MayGiveBack(d, p) = IF p \in Ahead(o) \/ (o.at = p /\ d.pc \in Claiming) THEN MaxBulk ELSE 0
    BY <1>1 DEF MayGiveBack, UndecidedOf, Deciding
  <2>2. p \in Ahead(o) \/ (o.at = p /\ o.pc \in Claiming) => MayGiveBack(o, p) = MaxBulk
    BY DEF MayGiveBack
  <2>3. MayGiveBack(o, p) \in Nat /\ MaxBulk \in Nat
    BY ContributionsAre, ClaimAssumption
  <2>. QED
    BY <2>1, <2>2, <2>3
<1>. QED
  BY <1>2, <1>3 DEF QuietCall

(* The call leaves the producer that it is at. *)
LEMMA LeavesProducer ==
  ASSUME NEW o, IsCall(o), o.pc \notin {"idle", "survey"},
         NEW d, d.rest = o.rest, d.max \in 1 .. MaxBulk
  PROVE  QuietCall(o, NextProducer(d)) /\ NextProducer(d).pc \in {"idle", "tail"}
<1>1. d.rest \in Seq(Producers) /\ IsInjective(d.rest)
  BY DEF IsCall, IsRecord, Records
<1>2. /\ IsCall(NextProducer(d)) /\ NextProducer(d).pc \in {"idle", "tail"}
      /\ \A p \in Producers \ Ahead(d) : MayGiveBack(NextProducer(d), p) = 0
  BY <1>1, NextProducerIs
<1>3. Ahead(d) = Ahead(o)
  BY DEF Ahead
<1>4. ASSUME NEW p \in Producers
      PROVE  MayGiveBack(NextProducer(d), p) <= MayGiveBack(o, p)
  <2>1. MayGiveBack(o, p) \in Nat
    BY ContributionsAre
  <2>2. p \in Ahead(o) => MayGiveBack(o, p) = MaxBulk
    BY DEF MayGiveBack
  <2>3. MayGiveBack(NextProducer(d), p) <= MaxBulk
    BY <1>2, ContributionsAre
  <2>. QED
    BY <1>2, <1>3, <2>1, <2>2, <2>3
<1>. QED
  BY <1>2, <1>4 DEF QuietCall, Deciding

LEMMA LeavesForGood ==
  ASSUME NEW o, IsCall(o)
  PROVE  QuietCall(o, NoCall)
BY NoCallIs, ContributionsAre DEF QuietCall, Deciding

LEMMA ServedIs ==
  ASSUME NEW o, IsCall(o), o.pc \in Taking
  PROVE  QuietCall(o, Served(o)) /\ Served(o).pc \in {"idle", "tail"}
<1>. DEFINE n == o.max - o.want
            e == [o EXCEPT !.max = n]
<1>1. o.max \in 1 .. MaxBulk /\ o.want \in 1 .. o.max /\ n \in Nat /\ n <= MaxBulk
  BY ClaimAssumption DEF IsCall, Taking
<1>2. CASE n = 0
  BY <1>2, LeavesForGood, NoCallIs DEF Served
<1>3. CASE n # 0
  <2>1. e.rest = o.rest /\ e.max = n
    BY DEF IsCall, IsRecord, Records
  <2>. HIDE DEF e
  <2>2. n \in 1 .. MaxBulk
    BY <1>1, <1>3, ClaimAssumption
  <2>3. o.pc \notin {"idle", "survey"}
    BY DEF Taking
  <2>4. e.max \in 1 .. MaxBulk
    BY <2>1, <2>2
  <2>5. QuietCall(o, NextProducer(e)) /\ NextProducer(e).pc \in {"idle", "tail"}
    BY <2>1, <2>3, <2>4, LeavesProducer
  <2>. QED
    BY <1>3, <2>5 DEF Served, e
<1>. QED
  BY <1>2, <1>3

LEMMA AfterBlockIs ==
  ASSUME NEW o, IsCall(o), o.pc \in Taking, NEW capacity
  PROVE  QuietCall(o, AfterBlock(o, capacity)) /\ AfterBlock(o, capacity).pc \in {"idle", "tail", "read"}
<1>1. CASE EndOfBlock(o) = o.last
  BY <1>1, ServedIs DEF AfterBlock
<1>2. CASE EndOfBlock(o) # o.last
  <2>1. PICK pc \in CallPcs : pc = "read"
    BY DEF CallPcs, Taking
  <2>. DEFINE d == [o EXCEPT !.pc = pc, !.block = NoBlock, !.first = EndOfBlock(o),
                             !.slot = (o.slot + 1) % capacity]
  <2>2. AfterBlock(o, capacity) = d
    BY <1>2, <2>1 DEF AfterBlock
  <2>3. IsRecord(d) /\ d.pc = pc /\ d.max = o.max /\ d.at = o.at /\ d.rest = o.rest /\ d.want = o.want
    BY DEF IsCall, IsRecord, Records
  <2>. HIDE DEF d
  <2>4. o.want \in 1 .. o.max /\ o.pc \notin {"idle", "survey"}
    BY DEF IsCall, Taking
  <2>5. QuietCall(o, d)
    BY <2>1, <2>3, <2>4, StillACall DEF Claiming, Deciding
  <2>. QED
    BY <2>1, <2>2, <2>3, <2>5
<1>. QED
  BY <1>1, <1>2

Quiet(c) ==
  \E d : /\ Goes(c, d) /\ QuietCall(deq[c], d)
         /\ deq[c].pc \notin Deciding
         /\ d.pc \in {"optimistic", "claim"} => d.over <= dequeueOvercommit[d.at]

LEMMA StaysInv ==
  ASSUME IndInv, NEW c \in Consumers, Quiet(c), UNCHANGED indices, OthersAreTyped
  PROVE  IndInv'
<1>1. PICK d : /\ Goes(c, d) /\ QuietCall(deq[c], d)
               /\ deq[c].pc \notin Deciding
               /\ d.pc \in {"optimistic", "claim"} => d.over <= dequeueOvercommit[d.at]
  BY DEF Quiet
<1>2. QuietStep(c, d)
  BY <1>1 DEF QuietStep, QuietCall, CallBecomes, Goes
<1>. QED
  BY <1>2, QuietInv

LEMMA LoadsAreQuiet ==
  ASSUME Types, LoadsAreOld, NEW c \in Consumers, LoadsTail(c) \/ LoadsOvercommit(c) \/ LoadsOptimistic(c)
  PROVE  Quiet(c)
<1>. DEFINE o == deq[c]
<1>1. /\ IsCall(o)
      /\ o.pc \in {"tail", "overcommit", "optimistic"}
  BY DEF Types, LoadsTail, LoadsOvercommit, LoadsOptimistic, Dequeues
<1>2. /\ o.at \in Producers /\ o.max \in 1 .. MaxBulk /\ IsRecord(o)
      /\ o.pc \notin {"idle", "survey"} \cup Deciding /\ o.pc \in Claiming
  BY <1>1 DEF IsCall, Deciding, Claiming
<1>3. /\ tailIndex[o.at] \in Int /\ dequeueOvercommit[o.at] \in Nat
      /\ dequeueOptimisticCount[o.at] \in Int
      /\ o.tail \in Int /\ o.over \in Nat
  BY <1>2 DEF Types, IsRecord, Records
<1>4. CASE LoadsTail(c)
  <2>1. PICK pc \in CallPcs : pc = "overcommit"
    BY DEF CallPcs, Claiming
  <2>. DEFINE d == [o EXCEPT !.pc = pc, !.tail = tailIndex[o.at]]
  <2>2. Goes(c, d)
    BY <1>4, <2>1 DEF LoadsTail, At
  <2>. HIDE DEF o
  <2>3. IsRecord(d) /\ d.pc = pc /\ d.max = o.max /\ d.at = o.at /\ d.rest = o.rest
    BY <1>2, <1>3 DEF IsRecord, Records
  <2>. HIDE DEF d
  <2>4. QuietCall(o, d)
    BY <1>1, <1>2, <2>1, <2>3, StillACall DEF Claiming, Deciding, Taking
  <2>. QED
    BY <1>2, <2>1, <2>2, <2>3, <2>4 DEF Quiet, o
<1>5. CASE LoadsOvercommit(c)
  <2>1. PICK pc \in CallPcs : pc = "optimistic"
    BY DEF CallPcs, Claiming
  <2>. DEFINE d == [o EXCEPT !.pc = pc, !.over = dequeueOvercommit[o.at]]
  <2>2. Goes(c, d)
    BY <1>5, <2>1 DEF LoadsOvercommit, At
  <2>. HIDE DEF o
  <2>3. /\ IsRecord(d) /\ d.pc = pc /\ d.max = o.max /\ d.at = o.at /\ d.rest = o.rest
        /\ d.over = dequeueOvercommit[o.at]
    BY <1>2, <1>3 DEF IsRecord, Records
  <2>. HIDE DEF d
  <2>4. QuietCall(o, d)
    BY <1>1, <1>2, <2>1, <2>3, StillACall DEF Claiming, Deciding, Taking
  <2>5. d.over <= dequeueOvercommit[d.at]
    BY <1>3, <2>3
  <2>. QED
    BY <1>2, <2>2, <2>4, <2>5 DEF Quiet, o
<1>6. CASE LoadsOptimistic(c)
  <2>. DEFINE desired == (o.tail - (dequeueOptimisticCount[o.at] - o.over)) % IndexValues
  <2>1. CASE Less(0, desired)
    <3>1. desired \in Nat /\ desired # 0
      <4>1. IndexValues \in Nat \ {0} /\ IndexValues \div 2 \in Nat
        BY ClaimAssumption
      <4>2. PICK x \in Int : x = o.tail - (dequeueOptimisticCount[o.at] - o.over)
        BY <1>3
      <4>3. x % IndexValues \in Nat
        BY <4>1
      <4>4. 0 % IndexValues = 0 /\ 0 - 0 = 0
        BY <4>1
      <4>. QED
        BY <2>1, <4>1, <4>2, <4>3, <4>4 DEF Less
    <3>. DEFINE want == Min2(desired, o.max)
    <3>2. want \in 1 .. o.max /\ want \in Nat
      <4>. HIDE DEF desired
      <4>. QED
        BY <1>2, <3>1, ClaimAssumption DEF Min2
    <3>3. PICK pc \in CallPcs : pc = "claim"
      BY DEF CallPcs, Claiming
    <3>4. PICK z \in Int : z = 0
      OBVIOUS
    <3>. DEFINE d == [o EXCEPT !.pc = pc, !.tail = z, !.want = want]
    <3>5. Goes(c, d)
      BY <1>6, <2>1, <3>3, <3>4 DEF LoadsOptimistic
    <3>. HIDE DEF o, want
    <3>6. /\ IsRecord(d) /\ d.pc = pc /\ d.max = o.max /\ d.at = o.at /\ d.rest = o.rest
          /\ d.want = want /\ d.over = o.over
      BY <1>2, <3>2 DEF IsRecord, Records
    <3>. HIDE DEF d
    <3>7. QuietCall(o, d)
      BY <1>1, <1>2, <3>2, <3>3, <3>6, StillACall DEF Claiming, Deciding
    <3>8. d.over <= dequeueOvercommit[d.at]
      BY <1>6, <3>6 DEF LoadsAreOld, At, LoadsOptimistic, Dequeues, o
    <3>. QED
      BY <1>2, <3>5, <3>7, <3>8 DEF Quiet, o
  <2>2. CASE ~ Less(0, desired)
    <3>1. Goes(c, NextProducer(o))
      BY <1>6, <2>2 DEF LoadsOptimistic
    <3>. HIDE DEF o
    <3>2. QuietCall(o, NextProducer(o)) /\ NextProducer(o).pc \in {"idle", "tail"}
      BY <1>1, <1>2, LeavesProducer
    <3>. QED
      BY <1>2, <3>1, <3>2 DEF Quiet, o
  <2>. QED
    BY <2>1, <2>2
<1>. QED
  BY <1>4, <1>5, <1>6


LEMMA GoesOnTaking ==
  ASSUME NEW o, IsCall(o), o.pc \in Taking \ {"take"},
         NEW d, IsRecord(d), d.pc \in Taking \ {"take"},
         d.max = o.max, d.at = o.at, d.rest = o.rest, d.want = o.want
  PROVE  QuietCall(o, d)
<1>1. o.want \in 1 .. o.max
  BY DEF IsCall
<1>. QED
  BY <1>1, StillACall DEF Taking, Claiming, Deciding

(* What a consumer does with the places that it took. *)
LEMMA TakingIsQuiet ==
  ASSUME Types, NEW c \in Consumers,
         \/ LoadsBlockIndex(c) \/ LoadsFront(c) \/ ExplicitMovesOut(c) \/ SetsFlags(c)
         \/ LoadsImplicitIndex(c) \/ FindsSlot(c) \/ ImplicitMovesOut(c) \/ Counts(c)
         \/ TakesOutOfIndex(c) \/ FreesBlock(c)
  PROVE  Quiet(c)
<1>. DEFINE o == deq[c]
<1>1. IsCall(o) /\ o.pc \in Taking \ {"take"}
  BY DEF Types, Taking, LoadsBlockIndex, LoadsFront, ExplicitMovesOut, SetsFlags, LoadsImplicitIndex, FindsSlot,
         ImplicitMovesOut, Counts, TakesOutOfIndex, FreesBlock, Dequeues
<1>2. IsRecord(o) /\ o.pc \in Taking /\ o.pc \notin Deciding
  BY <1>1 DEF IsCall, Deciding, Taking
<1>3. ASSUME NEW d, Goes(c, d), QuietCall(o, d), d.pc \notin {"optimistic", "claim"}
      PROVE  Quiet(c)
  BY <1>2, <1>3 DEF Quiet
<1>4. ASSUME NEW capacity, Goes(c, AfterBlock(o, capacity))
      PROVE  Quiet(c)
  <2>1. QuietCall(o, AfterBlock(o, capacity)) /\ AfterBlock(o, capacity).pc \in {"idle", "tail", "read"}
    BY <1>1, <1>2, AfterBlockIs
  <2>. QED
    BY <1>3, <1>4, <2>1
<1>5. CASE LoadsBlockIndex(c) \/ LoadsImplicitIndex(c)
  <2>1. PICK pc \in CallPcs \cap (Taking \ {"take"}) : \E x : Goes(c, [o EXCEPT !.pc = pc, !.header = x])
    <3>1. CASE LoadsBlockIndex(c)
      <4>1. PICK pc \in CallPcs \cap (Taking \ {"take"}) : pc = "front"
        BY DEF CallPcs, Taking
      <4>. QED
        BY <3>1, <4>1 DEF LoadsBlockIndex
    <3>2. CASE LoadsImplicitIndex(c)
      <4>1. PICK pc \in CallPcs \cap (Taking \ {"take"}) : pc = "slot"
        BY DEF CallPcs, Taking
      <4>. QED
        BY <3>2, <4>1 DEF LoadsImplicitIndex
    <3>. QED
      BY <1>5, <3>1, <3>2
  <2>2. PICK x : Goes(c, [o EXCEPT !.pc = pc, !.header = x])
    BY <2>1
  <2>. DEFINE d == [o EXCEPT !.pc = pc, !.header = x]
  <2>. HIDE DEF o
  <2>3. IsRecord(d) /\ d.pc = pc /\ d.max = o.max /\ d.at = o.at /\ d.rest = o.rest /\ d.want = o.want
    BY <1>2, <2>1 DEF IsRecord, Records
  <2>4. Goes(c, d)
    BY <2>2
  <2>. HIDE DEF d
  <2>5. QuietCall(o, d) /\ d.pc \notin {"optimistic", "claim"}
    BY <1>1, <2>1, <2>3, GoesOnTaking DEF Taking
  <2>. QED
    BY <1>3, <2>4, <2>5
<1>6. CASE LoadsFront(c) \/ FindsSlot(c)
  <2>1. PICK pc \in CallPcs \cap (Taking \ {"take"}) : pc = "read"
    BY DEF CallPcs, Taking
  <2>2. PICK x : Goes(c, [o EXCEPT !.pc = pc, !.slot = x])
    BY <1>6, <2>1 DEF LoadsFront, FindsSlot
  <2>. DEFINE d == [o EXCEPT !.pc = pc, !.slot = x]
  <2>. HIDE DEF o
  <2>3. IsRecord(d) /\ d.pc = pc /\ d.max = o.max /\ d.at = o.at /\ d.rest = o.rest /\ d.want = o.want
    BY <1>2, <2>1 DEF IsRecord, Records
  <2>4. Goes(c, d)
    BY <2>2
  <2>. HIDE DEF d
  <2>5. QuietCall(o, d) /\ d.pc \notin {"optimistic", "claim"}
    BY <1>1, <2>1, <2>3, GoesOnTaking DEF Taking
  <2>. QED
    BY <1>3, <2>4, <2>5
<1>7. CASE ExplicitMovesOut(c) \/ ImplicitMovesOut(c)
  <2>1. PICK pc \in CallPcs \cap (Taking \ {"take"}) : pc = "empty"
    BY DEF CallPcs, Taking
  <2>2. PICK b : MovesOut(c, b)
    BY <1>7 DEF ExplicitMovesOut, ImplicitMovesOut
  <2>3. PICK got : Goes(c, [o EXCEPT !.pc = pc, !.block = b, !.got = got])
    BY <2>1, <2>2 DEF MovesOut
  <2>. DEFINE d == [o EXCEPT !.pc = pc, !.block = b, !.got = got]
  <2>. HIDE DEF o
  <2>4. IsRecord(d) /\ d.pc = pc /\ d.max = o.max /\ d.at = o.at /\ d.rest = o.rest /\ d.want = o.want
    BY <1>2, <2>1 DEF IsRecord, Records
  <2>5. Goes(c, d)
    BY <2>3
  <2>. HIDE DEF d
  <2>6. QuietCall(o, d) /\ d.pc \notin {"optimistic", "claim"}
    BY <1>1, <2>1, <2>4, GoesOnTaking DEF Taking
  <2>. QED
    BY <1>3, <2>5, <2>6
<1>8. ASSUME NEW pc \in CallPcs \cap (Taking \ {"take"}), Goes(c, [o EXCEPT !.pc = pc])
      PROVE  Quiet(c)
  <2>. DEFINE d == [o EXCEPT !.pc = pc]
  <2>. HIDE DEF o
  <2>1. IsRecord(d) /\ d.pc = pc /\ d.max = o.max /\ d.at = o.at /\ d.rest = o.rest /\ d.want = o.want
    BY <1>2 DEF IsRecord, Records
  <2>2. Goes(c, d)
    BY <1>8
  <2>. HIDE DEF d
  <2>3. QuietCall(o, d) /\ d.pc \notin {"optimistic", "claim"}
    BY <1>1, <2>1, GoesOnTaking DEF Taking
  <2>. QED
    BY <1>3, <2>2, <2>3
<1>9. CASE TakesOutOfIndex(c)
  <2>1. PICK pc \in CallPcs \cap (Taking \ {"take"}) : pc = "free"
    BY DEF CallPcs, Taking
  <2>. QED
    BY <1>8, <1>9, <2>1 DEF TakesOutOfIndex
<1>10. CASE SetsFlags(c) \/ FreesBlock(c)
  BY <1>4, <1>10 DEF SetsFlags, FreesBlock
<1>11. CASE Counts(c)
  <2>1. PICK pc \in CallPcs \cap (Taking \ {"take"}) : pc = "unindex"
    BY DEF CallPcs, Taking
  <2>2. \/ Goes(c, [o EXCEPT !.pc = pc])
        \/ Goes(c, AfterBlock(o, implicitIndex[o.at][o.header].capacity))
    BY <1>11, <2>1 DEF Counts
  <2>. QED
    BY <1>4, <1>8, <2>2
<1>. QED
  BY <1>5, <1>6, <1>7, <1>9, <1>10, <1>11

(* A call starts when not too many claims were given back. *)
LEMMA CallStarts ==
  ASSUME IndInv, NEW c \in Consumers, NEW d, MayCall, deq[c].pc = "idle",
         Goes(c, d), IsCall(d), d.pc \in {"idle", "survey", "tail"},
         UNCHANGED indices, OthersAreTyped
  PROVE  IndInv'
BY QuietInv DEF QuietStep, CallBecomes, Goes, Deciding

LEMMA ProducersAre ==
  /\ ProducerList \in Seq(Producers) /\ ProducerList # <<>> /\ IsInjective(ProducerList)
  /\ Len(ProducerList) \in Nat \ {0} /\ DOMAIN ProducerList = 1 .. Len(ProducerList)
  /\ \A i \in 1 .. Len(ProducerList) : ProducerList[i] \in Producers
<1>1. ProducerList \in Seq(Producers) /\ ProducerList # <<>> /\ IsInjective(ProducerList)
  BY CallAssumption
<1>. QED
  BY <1>1

LEMMA Concatenated ==
  ASSUME NEW S, NEW s \in Seq(S), NEW t \in Seq(S)
  PROVE  /\ s \o t \in Seq(S) /\ Len(s \o t) = Len(s) + Len(t)
         /\ \A k \in 1 .. Len(s) : (s \o t)[k] = s[k]
         /\ \A k \in Len(s) + 1 .. Len(s) + Len(t) : (s \o t)[k] = t[k - Len(s)]
OBVIOUS

(* All producers, once each, from one of them on. *)
LEMMA AllFromIs ==
  ASSUME NEW p \in Producers
  PROVE  AllFrom(p) \in Seq(Producers) /\ IsInjective(AllFrom(p))
<1>. DEFINE L == ProducerList
            n == Len(L)
            j == CHOOSE k \in DOMAIN L : L[k] = p
<1>1. j \in DOMAIN L /\ L[j] = p
  BY DEF Producers
<1>2. PICK i : i = j
  OBVIOUS
<1>3. i \in 1 .. n /\ L[i] = p /\ n \in Nat
  BY <1>1, <1>2, ProducersAre
<1>. DEFINE before == SubSeq(L, 1, i - 1)
            after == SubSeq(L, i + 1, n)
            s == <<p>> \o before \o after
<1>4. AllFrom(p) = s
  BY <1>2 DEF AllFrom
<1>5. /\ before \in Seq(Producers) /\ Len(before) = i - 1
      /\ \A k \in 1 .. i - 1 : before[k] = L[k]
      /\ after \in Seq(Producers) /\ Len(after) = n - i
      /\ \A k \in 1 .. n - i : after[k] = L[k + i]
  <2>. DEFINE P == Producers
  <2>1. L \in Seq(P)
    BY ProducersAre
  <2>2. \A k \in 1 .. n : L[k] \in P
    BY ProducersAre
  <2>. HIDE DEF L, P
  <2>3. /\ before \in Seq(P) /\ Len(before) = i - 1
        /\ \A k \in 1 .. i - 1 : before[k] = L[k]
    BY <1>3, <2>1, <2>2
  <2>4. /\ after \in Seq(P) /\ Len(after) = n - i
        /\ \A k \in 1 .. n - i : after[k] = L[k + i]
    BY <1>3, <2>1, <2>2
  <2>. QED
    BY <2>3, <2>4 DEF P
<1>. HIDE DEF before, after, L
<1>6. /\ s \in Seq(Producers) /\ Len(s) = n
      /\ \A k \in 1 .. n : s[k] = L[IF k = 1 THEN i ELSE IF k <= i THEN k - 1 ELSE k]
  <2>. DEFINE t == <<p>> \o before
  <2>1. /\ t \in Seq(Producers) /\ Len(t) = i /\ t[1] = p
        /\ \A k \in 2 .. i : t[k] = before[k - 1]
    BY <1>3, <1>5
  <2>2. s = t \o after
    OBVIOUS
  <2>. HIDE DEF t, s
  <2>3. /\ s \in Seq(Producers) /\ Len(s) = n
        /\ \A k \in 1 .. i : s[k] = t[k]
        /\ \A k \in i + 1 .. n : s[k] = after[k - i]
    <3>1. t \in Seq(Producers) /\ after \in Seq(Producers) /\ Len(t) = i /\ Len(after) = n - i
      BY <1>5, <2>1
    <3>. HIDE DEF after
    <3>2. s \in Seq(Producers) /\ Len(s) = Len(t) + Len(after)
      BY <2>2, <3>1, Concatenated
    <3>3. \A k \in 1 .. Len(t) : s[k] = t[k]
      BY <2>2, <3>1, Concatenated
    <3>4. \A k \in Len(t) + 1 .. Len(t) + Len(after) : s[k] = after[k - Len(t)]
      BY <2>2, <3>1, Concatenated
    <3>5. Len(t) + Len(after) = n
      BY <1>3, <3>1
    <3>. QED
      BY <3>1, <3>2, <3>3, <3>4, <3>5
  <2>4. ASSUME NEW k \in 1 .. n
        PROVE  s[k] = L[IF k = 1 THEN i ELSE IF k <= i THEN k - 1 ELSE k]
    <3>1. CASE k = 1
      BY <1>3, <2>1, <2>3, <3>1
    <3>2. CASE k \in 2 .. i
      <4>1. s[k] = before[k - 1] /\ k - 1 \in 1 .. i - 1
        BY <1>3, <2>1, <2>3, <3>2
      <4>. QED
        BY <1>3, <1>5, <3>2, <4>1
    <3>3. CASE k \in i + 1 .. n
      <4>1. s[k] = after[k - i] /\ k - i \in 1 .. n - i
        BY <1>3, <2>3, <3>3
      <4>2. after[k - i] = L[k - i + i] /\ k - i + i = k
        BY <1>3, <1>5, <4>1
      <4>. QED
        BY <1>3, <3>3, <4>1, <4>2
    <3>. QED
      BY <1>3, <3>1, <3>2, <3>3
  <2>. QED
    BY <2>3, <2>4
<1>7. IsInjective(L) /\ DOMAIN L = 1 .. n
  BY ProducersAre DEF L
<1>8. IsInjective(s)
  <2>. HIDE DEF s
  <2>1. SUFFICES ASSUME NEW a \in 1 .. n, NEW b \in 1 .. n, s[a] = s[b]
                 PROVE  a = b
    BY <1>6 DEF IsInjective
  <2>. DEFINE at(k) == IF k = 1 THEN i ELSE IF k <= i THEN k - 1 ELSE k
  <2>2. at(a) \in 1 .. n /\ at(b) \in 1 .. n
    BY <1>3
  <2>3. L[at(a)] = L[at(b)]
    BY <1>6, <2>1
  <2>4. at(a) = at(b)
    <3>. HIDE DEF at
    <3>. QED
      BY <1>7, <2>2, <2>3 DEF IsInjective
  <2>. QED
    BY <1>3, <2>4
<1>. QED
  BY <1>4, <1>6, <1>8

LEMMA CallsAre ==
  ASSUME NEW kind, NEW max \in 1 .. MaxBulk, NEW rest \in Seq(Producers), IsInjective(rest)
  PROVE  LET d == NextProducer([NoCall EXCEPT !.kind = kind, !.max = max, !.rest = rest])
         IN  IsCall(d) /\ d.pc \in {"idle", "tail"}
<1>. DEFINE e == [NoCall EXCEPT !.kind = kind, !.max = max, !.rest = rest]
<1>1. e.max = max /\ e.rest = rest
  BY DEF NoCall
<1>. HIDE DEF e
<1>2. IsCall(NextProducer(e)) /\ NextProducer(e).pc \in {"idle", "tail"}
  <2>1. e.rest \in Seq(Producers) /\ IsInjective(e.rest) /\ e.max \in 1 .. MaxBulk
    BY <1>1
  <2>. QED
    BY <2>1, NextProducerIs
<1>. QED
  BY <1>2 DEF e

LEMMA SurveyStarts ==
  LET d == [NoCall EXCEPT !.pc = "survey", !.kind = "single", !.max = 1, !.rest = ProducerList]
  IN  IsCall(d) /\ d.pc = "survey"
<1>. DEFINE d == [NoCall EXCEPT !.pc = "survey", !.kind = "single", !.max = 1, !.rest = ProducerList]
<1>1. /\ d.pc = "survey" /\ d.max = 1 /\ d.rest = ProducerList /\ d.best = 0 /\ d.nonEmpty = 0
  BY DEF NoCall
<1>2. IsRecord(d)
  <2>1. PICK pc \in CallPcs : pc = "survey"
    BY DEF CallPcs
  <2>2. PICK one \in Nat : one = 1
    OBVIOUS
  <2>3. d = [NoCall EXCEPT !.pc = pc, !.kind = "single", !.max = one, !.rest = ProducerList]
    BY <2>1, <2>2
  <2>4. IsRecord(NoCall)
    BY NoCallIs DEF IsCall
  <2>. HIDE DEF d
  <2>5. ProducerList \in Seq(Producers)
    BY ProducersAre
  <2>. QED
    BY <2>3, <2>4, <2>5 DEF IsRecord, Records
<1>. HIDE DEF d
<1>3. 1 \in 1 .. MaxBulk
  BY ClaimAssumption
<1>4. IsCall(d)
  BY <1>1, <1>2, <1>3, ProducersAre DEF IsCall, Claiming, Taking
<1>. QED
  BY <1>1, <1>4 DEF d

LEMMA SurveyIsQuiet ==
  ASSUME Types, NEW c \in Consumers, Surveys(c)
  PROVE  Quiet(c)
<1>. DEFINE o == deq[c]
            p == Head(o.rest)
            size == SizeApprox(p)
            e == [o EXCEPT !.rest = Tail(o.rest),
                           !.nonEmpty = IF size > 0 THEN o.nonEmpty + 1 ELSE o.nonEmpty,
                           !.best = IF size > o.best THEN size ELSE o.best,
                           !.at = IF size > o.best THEN p ELSE o.at]
<1>1. /\ IsCall(o) /\ IsRecord(o) /\ o.pc = "survey" /\ Goes(c, SurveyEnds(e))
      /\ o.max \in 1 .. MaxBulk /\ o.rest # <<>> /\ o.rest \in Seq(Producers)
      /\ o.best > 0 \/ o.nonEmpty # 0 => o.at \in Producers
  BY DEF Types, Surveys, Dequeues, IsCall, IsRecord, Records
<1>2. p \in Producers /\ Tail(o.rest) \in Seq(Producers)
  <2>. HIDE DEF o
  <2>. QED
    BY <1>1, TailIs
<1>3. size \in Nat
  <2>1. headIndex[p] \in Nat /\ tailIndex[p] \in Nat
    BY <1>2 DEF Types
  <2>2. PICK x \in Int : x = tailIndex[p] - headIndex[p]
    BY <2>1
  <2>3. x % IndexValues \in Nat
    BY ClaimAssumption
  <2>. QED
    BY <2>2, <2>3 DEF SizeApprox
<1>. HIDE DEF size, p
<1>4. /\ IsRecord(e) /\ e.pc = "survey" /\ e.max = o.max /\ e.rest = Tail(o.rest)
      /\ e.best > 0 \/ e.nonEmpty # 0 => e.at \in Producers
  <2>. HIDE DEF o
  <2>1. o.best \in Int /\ o.nonEmpty \in Int
    BY <1>1 DEF IsRecord, Records
  <2>2. /\ IsRecord(e) /\ e.pc = "survey" /\ e.max = o.max /\ e.rest = Tail(o.rest)
        /\ e.nonEmpty = IF size > 0 THEN o.nonEmpty + 1 ELSE o.nonEmpty
        /\ e.best = IF size > o.best THEN size ELSE o.best
        /\ e.at = IF size > o.best THEN p ELSE o.at
    <3>1. PICK rest \in Seq(Producers) : rest = Tail(o.rest)
      BY <1>2
    <3>2. PICK nonEmpty \in Int : nonEmpty = IF size > 0 THEN o.nonEmpty + 1 ELSE o.nonEmpty
      BY <2>1
    <3>3. PICK best \in Int : best = IF size > o.best THEN size ELSE o.best
      BY <1>3, <2>1
    <3>4. PICK at : at = IF size > o.best THEN p ELSE o.at
      OBVIOUS
    <3>5. e = [o EXCEPT !.rest = rest, !.nonEmpty = nonEmpty, !.best = best, !.at = at]
      BY <3>1, <3>2, <3>3, <3>4
    <3>. HIDE DEF e
    <3>6. /\ IsRecord(e) /\ e.pc = "survey" /\ e.max = o.max /\ e.rest = rest
          /\ e.nonEmpty = nonEmpty /\ e.best = best /\ e.at = at
      BY <1>1, <3>5 DEF IsRecord, Records
    <3>. QED
      BY <3>1, <3>2, <3>3, <3>4, <3>6
  <2>. HIDE DEF e
  <2>3. CASE size > o.best
    BY <1>1, <1>2, <2>2, <2>3
  <2>4. CASE ~ (size > o.best)
    BY <1>1, <1>3, <2>1, <2>2, <2>4
  <2>. QED
    BY <2>2, <2>3, <2>4
<1>5. \A q \in Producers : MayGiveBack(o, q) = MaxBulk
  BY <1>1 DEF MayGiveBack
<1>6. PICK d : d = SurveyEnds(e)
  OBVIOUS
<1>. SUFFICES IsCall(d) /\ d.pc \in {"idle", "survey", "tail"}
  <2>1. SUFFICES ASSUME IsCall(d) /\ d.pc \in {"idle", "survey", "tail"}
                 PROVE  Quiet(c)
    OBVIOUS
  <2>2. QuietCall(o, d)
    BY <1>5, <2>1, ContributionsAre DEF QuietCall, Deciding
  <2>3. Goes(c, d) /\ o.pc \notin Deciding
    BY <1>1, <1>6 DEF Deciding
  <2>. QED
    BY <2>1, <2>2, <2>3 DEF Quiet
<1>. HIDE DEF o, e
<1>7. CASE e.rest # <<>> /\ e.nonEmpty < 3
  BY <1>1, <1>4, <1>6, <1>7 DEF SurveyEnds, IsCall, Claiming, Taking
<1>8. CASE ~ (e.rest # <<>> /\ e.nonEmpty < 3) /\ e.nonEmpty = 0
  BY <1>6, <1>8, NoCallIs DEF SurveyEnds
<1>9. CASE ~ (e.rest # <<>> /\ e.nonEmpty < 3) /\ e.nonEmpty # 0
  <2>. DEFINE f == [e EXCEPT !.rest = AllFrom(e.at)]
  <2>1. AllFrom(e.at) \in Seq(Producers) /\ IsInjective(AllFrom(e.at))
    BY <1>4, <1>9, AllFromIs
  <2>2. f.rest = AllFrom(e.at) /\ f.max = o.max
    BY <1>4 DEF IsRecord, Records
  <2>3. d = NextProducer(f)
    BY <1>6, <1>9 DEF SurveyEnds
  <2>. HIDE DEF f
  <2>4. f.rest \in Seq(Producers) /\ IsInjective(f.rest) /\ f.max \in 1 .. MaxBulk
    BY <1>1, <2>1, <2>2
  <2>. QED
    BY <2>3, <2>4, NextProducerIs
<1>. QED
  BY <1>7, <1>8, <1>9

LEMMA RotatedIs ==
  ASSUME Types, NEW c \in Consumers
  PROVE  Rotated(c) \in Tokens
<1>1. /\ token[c].desired \in Int /\ token[c].known \in Int /\ globalExplicitConsumerOffset \in Int
      /\ Len(ProducerList) \in Nat \ {0} /\ FirstOffset[c] \in Int
  BY ProducersAre, CallAssumption DEF Types, Tokens
<1>. DEFINE n == Len(ProducerList)
            desired == IF token[c].desired = 0 THEN n - (FirstOffset[c] % n) ELSE token[c].desired
            place == 1 + ((desired - 1 + (globalExplicitConsumerOffset - token[c].known)) % n)
<1>2. desired \in Int
  <2>1. FirstOffset[c] % n \in Int
    BY <1>1
  <2>. QED
    BY <1>1, <2>1
<1>. HIDE DEF desired
<1>3. place \in Int
  <2>1. PICK x \in Int : x = desired - 1 + (globalExplicitConsumerOffset - token[c].known)
    BY <1>1, <1>2
  <2>2. x % n \in Int
    BY <1>1
  <2>. QED
    BY <2>1, <2>2
<1>. HIDE DEF place
<1>4. Rotated(c) = [desired |-> place, current |-> place, known |-> globalExplicitConsumerOffset,
                    consumed |-> 0]
  BY DEF Rotated, desired, place
<1>. QED
  BY <1>1, <1>3, <1>4 DEF Tokens

(* Once round all producers, from any place. *)
LEMMA RoundIs ==
  ASSUME NEW a \in Int
  PROVE  LET n == Len(ProducerList)
             round == [i \in 1 .. n |-> ProducerList[1 + ((a - 1 + i - 1) % n)]]
         IN  round \in Seq(Producers) /\ IsInjective(round)
<1>. DEFINE n == Len(ProducerList)
            at(i) == 1 + ((a - 1 + i - 1) % n)
            round == [i \in 1 .. n |-> ProducerList[at(i)]]
<1>1. n \in Nat \ {0}
  BY ProducersAre
<1>. HIDE DEF n
<1>2. ASSUME NEW i \in Int, i \in 1 .. n
      PROVE  at(i) \in 1 .. n /\ \E q \in Int : a - 2 + i = n * q + (at(i) - 1)
  <2>1. PICK x \in Int : x = a - 1 + i - 1
    BY <1>1
  <2>2. x % n \in 0 .. n - 1 /\ x \div n \in Int /\ x = n * (x \div n) + (x % n)
    BY <1>1, ModIs
  <2>3. at(i) = 1 + (x % n)
    BY <1>1, <2>1
  <2>4. x = a - 2 + i
    BY <1>1, <2>1
  <2>. HIDE DEF at
  <2>5. PICK r : r = x % n
    OBVIOUS
  <2>6. at(i) = 1 + r /\ r \in 0 .. n - 1 /\ x = n * (x \div n) + r
    BY <2>2, <2>3, <2>5
  <2>7. at(i) \in 1 .. n /\ r = at(i) - 1
    BY <1>1, <2>6
  <2>. QED
    BY <2>2, <2>4, <2>6, <2>7
<1>. HIDE DEF at
<1>3. round \in Seq(Producers)
  <2>1. \A i \in 1 .. n : ProducerList[at(i)] \in Producers
    BY <1>1, <1>2, ProducersAre DEF n
  <2>. QED
    BY <1>1, <2>1
<1>4. ASSUME NEW i \in 1 .. n, NEW j \in 1 .. n, round[i] = round[j]
      PROVE  i = j
  <2>1. ProducerList[at(i)] = ProducerList[at(j)]
    BY <1>4
  <2>2. at(i) = at(j)
    BY <1>1, <1>2, <2>1, ProducersAre DEF IsInjective, n
  <2>3. PICK q \in Int : a - 2 + i = n * q + (at(i) - 1)
    <3>1. i \in Int
      BY <1>1
    <3>. QED
      BY <1>2, <3>1
  <2>4. PICK r \in Int : a - 2 + j = n * r + (at(j) - 1)
    <3>1. j \in Int
      BY <1>1
    <3>. QED
      BY <1>2, <3>1
  <2>5. at(i) \in Int
    <3>1. i \in Int
      BY <1>1
    <3>2. at(i) \in 1 .. n
      BY <1>2, <3>1
    <3>. QED
      BY <1>1, <3>2
  <2>6. n * q \in Int /\ n * r \in Int /\ n * q - n * r = n * (q - r)
    BY <1>1, <2>3, <2>4
  <2>7. i - j = n * (q - r)
    BY <1>1, <2>2, <2>3, <2>4, <2>5, <2>6
  <2>8. PICK k \in Int : k = q - r
    OBVIOUS
  <2>9. ~ (k >= 1) /\ ~ (k <= -1)
    <3>1. k >= 1 => n * k >= n
      BY <1>1
    <3>2. k <= -1 => n * k <= - n
      BY <1>1
    <3>. QED
      BY <1>1, <2>7, <2>8, <3>1, <3>2
  <2>10. k = 0
    BY <2>9
  <2>11. n * k = 0
    BY <1>1, <2>10
  <2>. QED
    BY <1>1, <2>7, <2>8, <2>11
<1>5. IsInjective(round)
  BY <1>4 DEF IsInjective
<1>. QED
  BY <1>3, <1>5 DEF n, at

LEMMA CountingIsTyped ==
  ASSUME Types, NEW c \in Consumers, At(c) \in Producers, CountsForToken(c)
  PROVE  token' \in [Consumers -> Tokens] /\ globalExplicitConsumerOffset' \in Int
<1>. DEFINE t == token[c]
            own == At(c) = ProducerList[t.current]
            place == CHOOSE i \in DOMAIN ProducerList : ProducerList[i] = At(c)
<1>1. t \in Tokens /\ token \in [Consumers -> Tokens] /\ globalExplicitConsumerOffset \in Int
  BY DEF Types
<1>2. place \in Int
  <2>1. place \in DOMAIN ProducerList
    BY DEF Producers
  <2>. HIDE DEF place
  <2>. QED
    BY <2>1, ProducersAre
<1>. HIDE DEF place
<1>3. PICK one \in Int : one = 1
  OBVIOUS
<1>. DEFINE mine == [t EXCEPT !.consumed = t.consumed + 1]
            others == [t EXCEPT !.consumed = one, !.current = place]
<1>4. mine \in Tokens /\ others \in Tokens
  <2>. HIDE DEF t
  <2>1. t.consumed + 1 \in Int
    BY <1>1 DEF Tokens
  <2>. QED
    BY <1>1, <1>2, <1>3, <2>1 DEF Tokens
<1>5. CASE deq[c].kind = "token" /\ deq'[c] = NoCall
  <2>1. token' = [token EXCEPT ![c] = IF own THEN mine ELSE others]
    BY <1>1, <1>3, <1>5 DEF CountsForToken, place
  <2>2. globalExplicitConsumerOffset' \in Int
    BY <1>1, <1>5 DEF CountsForToken
  <2>. HIDE DEF mine, others, own
  <2>. QED
    BY <1>1, <1>4, <2>1, <2>2
<1>6. CASE ~ (deq[c].kind = "token" /\ deq'[c] = NoCall)
  BY <1>1, <1>6 DEF CountsForToken, tokenVars
<1>. QED
  BY <1>5, <1>6

LEMMA CallInv ==
  ASSUME IndInv, NEW c \in Consumers, CallStep(c), UNCHANGED <<enq, scenario>>
  PROVE  IndInv'
<1>. USE DEF IndInv
<1>1. Types /\ UNCHANGED indices /\ UNCHANGED <<tailIndex, enq, scenario>>
  BY DEF CallStep, indices
<1>2. UNCHANGED tokenVars => OthersAreTyped
  BY <1>1 DEF OthersAreTyped, tokenVars, Types
<1>3. CASE \E max \in 2 .. MaxBulk : CallsBulk(c, max) /\ UNCHANGED tokenVars
  <2>1. PICK max \in 2 .. MaxBulk : CallsBulk(c, max) /\ UNCHANGED tokenVars
    BY <1>3
  <2>. DEFINE d == NextProducer([NoCall EXCEPT !.kind = "bulk", !.max = max, !.rest = ProducerList])
  <2>2. IsCall(d) /\ d.pc \in {"idle", "tail"}
    <3>1. max \in 1 .. MaxBulk
      BY ClaimAssumption
    <3>. QED
      BY <3>1, CallsAre, ProducersAre
  <2>3. deq[c].pc = "idle" /\ MayCall /\ Goes(c, d)
    BY <2>1 DEF CallsBulk, Dequeues, CallStep
  <2>. HIDE DEF d
  <2>. QED
    BY <1>1, <1>2, <2>1, <2>2, <2>3, CallStarts
<1>4. CASE CallsSingle(c) /\ UNCHANGED tokenVars
  <2>. DEFINE d == [NoCall EXCEPT !.pc = "survey", !.kind = "single", !.max = 1, !.rest = ProducerList]
  <2>1. IsCall(d) /\ d.pc = "survey"
    BY SurveyStarts
  <2>2. deq[c].pc = "idle" /\ MayCall /\ Goes(c, d)
    BY <1>4 DEF CallsSingle, Dequeues, CallStep
  <2>. HIDE DEF d
  <2>. QED
    BY <1>1, <1>2, <1>4, <2>1, <2>2, CallStarts
<1>5. CASE CallsWithToken(c)
  <2>1. PICK t : t = IF token[c].desired = 0 \/ token[c].known # globalExplicitConsumerOffset
                     THEN Rotated(c) ELSE token[c]
    OBVIOUS
  <2>2. t \in Tokens
    BY <1>1, <2>1, RotatedIs DEF Types
  <2>. DEFINE n == Len(ProducerList)
              round == [i \in 1 .. n |-> ProducerList[1 + ((t.current - 1 + i - 1) % n)]]
              d == NextProducer([NoCall EXCEPT !.kind = "token", !.max = 1, !.rest = round])
  <2>3. /\ deq[c].pc = "idle" /\ MayCall /\ Goes(c, d)
        /\ token' = [token EXCEPT ![c] = t] /\ UNCHANGED globalExplicitConsumerOffset
    BY <1>5, <2>1 DEF CallsWithToken, Dequeues, CallStep
  <2>4. round \in Seq(Producers) /\ IsInjective(round)
    <3>1. t.current \in Int
      BY <2>2 DEF Tokens
    <3>. QED
      BY <3>1, RoundIs
  <2>. HIDE DEF round
  <2>5. IsCall(d) /\ d.pc \in {"idle", "tail"}
    <3>1. PICK one \in 1 .. MaxBulk : one = 1
      BY ClaimAssumption
    <3>. QED
      BY <2>4, <3>1, CallsAre
  <2>6. OthersAreTyped
    BY <1>1, <2>2, <2>3 DEF OthersAreTyped, Types
  <2>. HIDE DEF d
  <2>. QED
    BY <1>1, <2>3, <2>5, <2>6, CallStarts
<1>6. CASE Surveys(c) /\ UNCHANGED tokenVars
  BY <1>1, <1>2, <1>6, SurveyIsQuiet, StaysInv
<1>. QED
  BY <1>3, <1>4, <1>5, <1>6 DEF CallStep

LEMMA TakingInv ==
  ASSUME IndInv, NEW c \in Consumers, ExplicitDequeueStep(c) \/ ImplicitDequeueStep(c),
         CountsForToken(c), UNCHANGED indices, UNCHANGED <<enq, scenario>>
  PROVE  IndInv'
<1>1. Types /\ UNCHANGED tailIndex
  BY DEF IndInv, indices
<1>2. Quiet(c)
  BY <1>1, TakingIsQuiet DEF ExplicitDequeueStep, ImplicitDequeueStep
<1>3. At(c) \in Producers
  <2>1. /\ IsCall(deq[c])
        /\ deq[c].pc \in {"index", "front", "slot", "read", "empty", "unindex", "free"}
    BY <1>1 DEF Types, ExplicitDequeueStep, ImplicitDequeueStep, LoadsBlockIndex, LoadsFront, ExplicitMovesOut,
           SetsFlags, LoadsImplicitIndex, FindsSlot, ImplicitMovesOut, Counts, TakesOutOfIndex, FreesBlock,
           Dequeues
  <2>. QED
    BY <2>1 DEF IsCall, At
<1>4. OthersAreTyped
  BY <1>1, <1>3, CountingIsTyped DEF OthersAreTyped
<1>. QED
  BY <1>2, <1>4, StaysInv

-----------------------------------------------------------------------------
(* The steps with which a consumer gets the right to take elements *)

(* A call whose claim was checked: n of it are granted. *)
Checked(o, n) ==
  [o EXCEPT !.pc = IF n < o.want THEN "give" ELSE "take",
            !.want = n, !.give = o.want - n, !.mine = 0, !.over = 0]

LEMMA CheckedIs ==
  ASSUME NEW o, IsCall(o), o.pc = "check", NEW n \in 0 .. o.want
  PROVE  /\ IsCall(Checked(o, n)) /\ Checked(o, n).at = o.at
         /\ Checked(o, n).pc \in {"give", "take"}
         /\ \A p \in Producers :
              /\ GrantedTo(Checked(o, n), p) = IF p = o.at THEN n ELSE 0
              /\ UndecidedOf(Checked(o, n), p) = IF p = o.at THEN o.want - n ELSE 0
              /\ MayGiveBack(Checked(o, n), p) <= MayGiveBack(o, p)
<1>. DEFINE d == Checked(o, n)
<1>1. /\ IsRecord(o) /\ o.pc = "check" /\ o.want \in 1 .. o.max /\ o.max \in 1 .. MaxBulk
      /\ o.at \in Producers \ Ahead(o) /\ IsInjective(o.rest)
  BY DEF IsCall
<1>2. n \in Nat /\ o.want \in Nat /\ o.max \in Nat /\ o.want - n \in Nat
  BY <1>1, ClaimAssumption
<1>3. PICK pc \in CallPcs : pc = IF n < o.want THEN "give" ELSE "take"
  BY DEF CallPcs, Taking
<1>4. PICK give \in Nat : give = o.want - n
  BY <1>2
<1>5. d = [o EXCEPT !.pc = pc, !.want = n, !.give = give, !.mine = 0, !.over = 0]
  BY <1>3, <1>4 DEF Checked
<1>. HIDE DEF d
<1>6. /\ IsRecord(d) /\ d.pc = pc /\ d.want = n /\ d.give = give
      /\ d.max = o.max /\ d.at = o.at /\ d.rest = o.rest
  <2>. DEFINE R == Records({o.kind}, {o.at}, {o.got}, {o.first}, {o.last}, {o.header}, {o.slot}, {o.block})
  <2>1. o \in R
    BY <1>1 DEF IsRecord
  <2>2. /\ d \in R /\ d.pc = pc /\ d.want = n /\ d.give = give
        /\ d.max = o.max /\ d.rest = o.rest
    <3>1. PICK want \in Nat : want = n
      BY <1>2
    <3>2. PICK z \in Nat : z = 0
      OBVIOUS
    <3>3. d = [o EXCEPT !.pc = pc, !.want = want, !.give = give, !.mine = z, !.over = z]
      BY <1>5, <3>1, <3>2
    <3>4. z \in Int
      OBVIOUS
    <3>5. d \in R
      BY <2>1, <3>3, <3>4 DEF Records
    <3>6. d.pc = pc /\ d.want = want /\ d.give = give /\ d.max = o.max /\ d.rest = o.rest
      BY <2>1, <3>3 DEF Records
    <3>. QED
      BY <3>1, <3>5, <3>6
  <2>3. /\ d.kind = o.kind /\ d.at = o.at /\ d.got = o.got /\ d.first = o.first /\ d.last = o.last
        /\ d.header = o.header /\ d.slot = o.slot /\ d.block = o.block
    BY <2>2 DEF Records
  <2>. QED
    BY <2>2, <2>3 DEF IsRecord
<1>7. Ahead(d) = Ahead(o)
  BY <1>6 DEF Ahead
<1>8. IsCall(d)
  BY <1>1, <1>2, <1>3, <1>4, <1>6, <1>7 DEF IsCall, Taking
<1>9. ASSUME NEW p \in Producers
      PROVE  /\ GrantedTo(d, p) = IF p = d.at THEN n ELSE 0
             /\ UndecidedOf(d, p) = IF p = d.at THEN o.want - n ELSE 0
             /\ UndecidedOf(o, p) = IF p = d.at THEN o.want ELSE 0
             /\ MayGiveBack(d, p) <= MayGiveBack(o, p)
  <2>1. /\ GrantedTo(d, p) = IF p = d.at THEN n ELSE 0
        /\ UndecidedOf(d, p) = IF p = d.at THEN o.want - n ELSE 0
        /\ UndecidedOf(o, p) = IF p = d.at THEN o.want ELSE 0
    BY <1>1, <1>2, <1>3, <1>4, <1>6 DEF GrantedTo, UndecidedOf
  <2>2. /\ MayGiveBack(d, p) = IF p \in Ahead(o) THEN MaxBulk ELSE UndecidedOf(d, p)
        /\ MayGiveBack(o, p) = IF p \in Ahead(o) THEN MaxBulk ELSE UndecidedOf(o, p)
    BY <1>1, <1>3, <1>6, <1>7 DEF MayGiveBack, Claiming
  <2>3. UndecidedOf(d, p) <= UndecidedOf(o, p)
    BY <1>2, <2>1
  <2>. QED
    BY <2>1, <2>2, <2>3, ClaimAssumption
<1>. QED
  BY <1>3, <1>6, <1>8, <1>9 DEF d

(* What the steps of a call leave as it was to the producers that they do    *)
(* not decide about.                                                         *)
LEMMA NothingIsClaimed ==
  ASSUME Types, NEW c \in Consumers, NEW d, CallBecomes(c, d),
         NEW p \in Producers, NEW m \in [Consumers -> Int],
         CountersAgree(p), ClaimsAreSafe(p, m), ~ Checking(d, p),
         tailIndex' = tailIndex,
         dequeueOptimisticCount'[p] = dequeueOptimisticCount[p],
         Claimed(p)' = Claimed(p),
         headIndex'[p] + Granted(p)' = headIndex[p] + Granted(p),
         \A n, place : ClaimedUpTo(p, n, place)' = ClaimedUpTo(p, n, place)
  PROVE  CountersAgree(p)' /\ ClaimsAreSafe(p, m)'
<1>1. CountersAgree(p)'
  BY DEF CountersAgree
<1>2. \A n, place : GrantedUpTo(p, n, place)' = GrantedUpTo(p, n, place)
  BY DEF GrantedUpTo
<1>3. Claimed(p) \in Int /\ (\A n, place : GrantedUpTo(p, n, place) \in Int) /\ tailIndex[p] \in Nat
  BY SumsAre DEF Claimed, GrantedUpTo, Types
<1>4. ASSUME NEW e \in Consumers, Checking(deq'[e], p)
      PROVE  deq'[e] = deq[e]
  BY <1>4, CallsAfter
<1>5. tailIndex'[p] \in Nat /\ tailIndex[p] <= tailIndex'[p]
  BY <1>3
<1>6. Claimed(p)' \in Int /\ Claimed(p) <= Claimed(p)'
  BY <1>3
<1>7. ASSUME NEW e \in Consumers
      PROVE  /\ GrantedUpTo(p, m, m[e])' \in Int
             /\ GrantedUpTo(p, m, m[e])' <= GrantedUpTo(p, m, m[e])
  BY <1>2, <1>3
<1>. QED
  BY <1>1, <1>4, <1>5, <1>6, <1>7, ClaimsStay

(* The sums after the step of a call, in terms of the call before and after. *)
LEMMA SumsStep ==
  ASSUME Types, NEW c \in Consumers, NEW d, CallBecomes(c, d), NEW p \in Producers
  PROVE  /\ Granted(p) \in Nat /\ Undecided(p) \in Nat
         /\ Granted(p)' \in Nat /\ Undecided(p)' \in Nat
         /\ Granted(p)' = Granted(p) + (GrantedTo(d, p) - GrantedTo(deq[c], p))
         /\ Undecided(p)' = Undecided(p) + (UndecidedOf(d, p) - UndecidedOf(deq[c], p))
         /\ \A m, place :
              /\ ClaimedUpTo(p, m, place) \in Nat /\ ClaimedUpTo(p, m, place)' \in Nat
              /\ ClaimedUpTo(p, m, place)' <= Undecided(p)'
              /\ ClaimedUpTo(p, m, place)' = ClaimedUpTo(p, m, place)
                   + (ClaimOf(d, p, m[c], place) - ClaimOf(deq[c], p, m[c], place))
BY SumsAre, SumsAfter, GrantedStep, UndecidedStep, ClaimedStep

LEMMA Elsewhere ==
  ASSUME Types, NEW c \in Consumers, NEW d, CallBecomes(c, d),
         NEW p \in Producers, NEW m \in [Consumers -> Int],
         CountersAgree(p), ClaimsAreSafe(p, m),
         At(c) # p, d.at # p \/ d.pc \notin Deciding,
         tailIndex' = tailIndex,
         headIndex'[p] = headIndex[p],
         dequeueOptimisticCount'[p] = dequeueOptimisticCount[p],
         dequeueOvercommit'[p] = dequeueOvercommit[p]
  PROVE  CountersAgree(p)' /\ ClaimsAreSafe(p, m)'
<1>1. /\ GrantedTo(d, p) = 0 /\ GrantedTo(deq[c], p) = 0
      /\ UndecidedOf(d, p) = 0 /\ UndecidedOf(deq[c], p) = 0
      /\ \A start, place : ClaimOf(d, p, start, place) = 0 /\ ClaimOf(deq[c], p, start, place) = 0
  BY DEF At, Deciding, GrantedTo, UndecidedOf, ClaimOf, Checking
<1>2. /\ Granted(p)' = Granted(p) /\ Undecided(p)' = Undecided(p)
      /\ \A n, place : ClaimedUpTo(p, n, place)' = ClaimedUpTo(p, n, place)
  <2>1. Granted(p)' = Granted(p)
    <3>1. Granted(p) \in Nat /\ Granted(p)' = Granted(p) + (0 - 0)
      BY <1>1, SumsStep
    <3>. QED
      BY <3>1
  <2>2. Undecided(p)' = Undecided(p)
    <3>1. Undecided(p) \in Nat /\ Undecided(p)' = Undecided(p) + (0 - 0)
      BY <1>1, SumsStep
    <3>. QED
      BY <3>1
  <2>3. ASSUME NEW n, NEW place
        PROVE  ClaimedUpTo(p, n, place)' = ClaimedUpTo(p, n, place)
    <3>1. /\ ClaimedUpTo(p, n, place) \in Nat
          /\ ClaimedUpTo(p, n, place)' = ClaimedUpTo(p, n, place) + (0 - 0)
      BY <1>1, SumsStep
    <3>. QED
      BY <3>1
  <2>. QED
    BY <2>1, <2>2, <2>3
<1>3. Claimed(p)' = Claimed(p)
  BY <1>2 DEF Claimed
<1>4. ~ Checking(d, p)
  BY DEF Checking, Deciding
<1>. QED
  BY <1>2, <1>3, <1>4, NothingIsClaimed

(* The checked claim backs what it grants. *)
LEMMA CheckIs ==
  ASSUME Types, NEW c \in Consumers, Checks(c), NEW m \in [Consumers -> Int],
         ClaimsAreSafe(At(c), m)
  PROVE  \E n \in 0 .. deq[c].want :
           /\ CallBecomes(c, Checked(deq[c], n))
           /\ n > 0 => n <= tailIndex[At(c)] + deq[c].over - m[c]
<1>. DEFINE o == deq[c]
            T == tailIndex[o.at]
            actual == (T - (o.mine - o.over)) % IndexValues
            n == IF Less(0, actual) THEN Min2(actual, o.want) ELSE 0
            x == T + o.over - m[c]
<1>1. /\ IsCall(o) /\ o.pc = "check" /\ o.at \in Producers
      /\ o.want \in Nat /\ o.over \in Nat /\ o.mine \in Int /\ T \in Nat /\ m[c] \in Int
  BY DEF Types, Checks, Dequeues, IsCall, IsRecord, Records
<1>2. Goes(c, Checked(o, n))
  BY DEF Checks, Checked
<1>3. o.mine = m[c] % IndexValues /\ m[c] - o.over <= T + (IndexValues \div 2)
  <2>1. Checking(o, o.at)
    BY <1>1 DEF Checking
  <2>. QED
    BY <2>1 DEF ClaimsAreSafe, ClaimIsSafe, At
<1>. HIDE DEF o, T
<1>4. IndexValues \in Nat \ {0} /\ IndexValues \div 2 \in Nat
  BY ClaimAssumption
<1>5. actual = x % IndexValues
  <2>1. PICK b \in Int : b = T + o.over
    BY <1>1
  <2>2. (b - (m[c] % IndexValues)) % IndexValues = (b - m[c]) % IndexValues
    BY <1>1, <1>4, ModSub
  <2>3. m[c] % IndexValues \in Int
    BY <1>1, <1>4
  <2>4. T - (o.mine - o.over) = b - (m[c] % IndexValues)
    BY <1>1, <1>3, <2>1, <2>3
  <2>5. x = b - m[c]
    BY <1>1, <2>1
  <2>. QED
    BY <2>2, <2>4, <2>5
<1>6. x \in Int /\ - (IndexValues \div 2) <= x
  BY <1>1, <1>3, <1>4
<1>. HIDE DEF actual, x
<1>7. Less(0, actual) => actual \in 1 .. x
  BY <1>5, <1>6, LessIs
<1>8. n \in 0 .. o.want /\ (n > 0 => n <= x)
  <2>1. CASE Less(0, actual)
    BY <1>1, <1>6, <1>7, <2>1 DEF Min2
  <2>2. CASE ~ Less(0, actual)
    BY <1>1, <2>2
  <2>. QED
    BY <2>1, <2>2
<1>. HIDE DEF n
<1>9. CallBecomes(c, Checked(o, n))
  BY <1>1, <1>2, <1>8, CheckedIs DEF CallBecomes, Goes
<1>. QED
  BY <1>8, <1>9 DEF o, x, T, At

(* Nothing that was claimed is lost, and what is granted is backed. *)
LEMMA CheckKeepsClaims ==
  ASSUME Types, NEW c \in Consumers, deq[c].pc = "check", UNCHANGED indices,
         NEW p \in Producers, p = deq[c].at, NEW m \in [Consumers -> Int],
         CountersAgree(p), ClaimsAreSafe(p, m),
         NEW n \in 0 .. deq[c].want, CallBecomes(c, Checked(deq[c], n)),
         n > 0 => n <= tailIndex[p] + deq[c].over - m[c]
  PROVE  CountersAgree(p)' /\ ClaimsAreSafe(p, m)'
<1>. DEFINE o == deq[c]
            d == Checked(o, n)
            T == tailIndex[p]
            H == headIndex[p]
<1>1. /\ IsCall(o) /\ o.want \in Nat /\ o.over \in Nat /\ m[c] \in Int
      /\ T \in Nat /\ H \in Nat /\ dequeueOvercommit[p] \in Nat /\ n \in Nat
  BY DEF Types, IsCall, IsRecord, Records
<1>2. /\ GrantedTo(d, p) = n /\ UndecidedOf(d, p) = o.want - n /\ d.pc \in {"give", "take"}
  BY <1>1, CheckedIs
<1>3. /\ GrantedTo(o, p) = 0 /\ UndecidedOf(o, p) = o.want /\ Checking(o, p) /\ ~ Checking(d, p)
  BY <1>2 DEF GrantedTo, UndecidedOf, Checking
<1>4. UNCHANGED <<tailIndex, headIndex, dequeueOvercommit, dequeueOptimisticCount>>
  BY DEF indices
<1>5. CallBecomes(c, d)
  OBVIOUS
<1>. HIDE DEF d
<1>6. /\ Granted(p) \in Nat /\ Undecided(p) \in Nat /\ Granted(p)' \in Nat /\ Undecided(p)' \in Nat
      /\ Granted(p)' = Granted(p) + n /\ Undecided(p)' = Undecided(p) - n
  <2>1. /\ Granted(p) \in Nat /\ Undecided(p) \in Nat /\ Granted(p)' \in Nat /\ Undecided(p)' \in Nat
        /\ Granted(p)' = Granted(p) + (GrantedTo(d, p) - GrantedTo(o, p))
        /\ Undecided(p)' = Undecided(p) + (UndecidedOf(d, p) - UndecidedOf(o, p))
    BY <1>5, SumsStep
  <2>. QED
    BY <1>1, <1>2, <1>3, <2>1
<1>7. ASSUME NEW place
      PROVE  /\ ClaimedUpTo(p, m, place) \in Nat /\ ClaimedUpTo(p, m, place)' \in Nat
             /\ ClaimedUpTo(p, m, place)' = ClaimedUpTo(p, m, place)
                  - (IF m[c] <= place THEN o.want ELSE 0)
  <2>1. /\ ClaimedUpTo(p, m, place) \in Nat /\ ClaimedUpTo(p, m, place)' \in Nat
        /\ ClaimedUpTo(p, m, place)' = ClaimedUpTo(p, m, place)
             + (ClaimOf(d, p, m[c], place) - ClaimOf(o, p, m[c], place))
    BY <1>5, SumsStep
  <2>2. /\ ClaimOf(d, p, m[c], place) = 0
        /\ ClaimOf(o, p, m[c], place) = IF m[c] <= place THEN o.want ELSE 0
    BY <1>3 DEF ClaimOf
  <2>. QED
    BY <1>1, <2>1, <2>2
<1>8. Claimed(p) \in Int /\ Claimed(p)' = Claimed(p)
  BY <1>1, <1>4, <1>6 DEF Claimed
<1>9. ASSUME NEW place
      PROVE  /\ GrantedUpTo(p, m, place) \in Int /\ GrantedUpTo(p, m, place)' \in Int
             /\ H + Granted(p)' <= GrantedUpTo(p, m, place)'
             /\ GrantedUpTo(p, m, place)' = GrantedUpTo(p, m, place) + n
                  - (IF m[c] <= place THEN o.want ELSE 0)
  <2>1. GrantedUpTo(p, m, place)' = H + Granted(p)' + ClaimedUpTo(p, m, place)'
    BY <1>4 DEF GrantedUpTo
  <2>2. GrantedUpTo(p, m, place) = H + Granted(p) + ClaimedUpTo(p, m, place)
    BY DEF GrantedUpTo
  <2>. QED
    BY <1>1, <1>6, <1>7, <2>1, <2>2
<1>10. n > 0 => GrantedUpTo(p, m, m[c])' <= T
  <2>1. ClaimIsSafe(p, m, c)
    BY <1>3 DEF ClaimsAreSafe
  <2>2. \/ GrantedUpTo(p, m, m[c]) <= T
        \/ GrantedUpTo(p, m, m[c]) <= m[c] + o.want - o.over
    BY <2>1 DEF ClaimIsSafe
  <2>3. /\ GrantedUpTo(p, m, m[c]) \in Int
        /\ GrantedUpTo(p, m, m[c])' = GrantedUpTo(p, m, m[c]) + n - o.want
    BY <1>1, <1>9
  <2>4. n <= o.want /\ (n > 0 => n <= T + o.over - m[c])
    OBVIOUS
  <2>. HIDE DEF o, T
  <2>. QED
    BY <1>1, <2>2, <2>3, <2>4
<1>11. CountersAgree(p)'
  <2>1. H + Granted(p)' <= T
    <3>1. CASE n = 0
      BY <1>6, <3>1 DEF CountersAgree
    <3>2. CASE n > 0
      <4>1. H + Granted(p)' <= GrantedUpTo(p, m, m[c])' /\ GrantedUpTo(p, m, m[c])' \in Int
        BY <1>9
      <4>. QED
        BY <1>1, <1>6, <1>10, <3>2, <4>1
    <3>. QED
      BY <1>1, <3>1, <3>2
  <2>. QED
    BY <1>4, <1>8, <2>1 DEF CountersAgree
<1>12. ASSUME NEW e \in Consumers, Checking(deq'[e], p)
       PROVE  /\ deq'[e] = deq[e]
              /\ GrantedUpTo(p, m, m[e])' \in Int
              /\ \/ GrantedUpTo(p, m, m[e])' <= GrantedUpTo(p, m, m[e])
                 \/ GrantedUpTo(p, m, m[e])' <= T
  <2>1. deq'[e] = deq[e]
    BY <1>3, <1>5, <1>12, CallsAfter
  <2>2. m[e] \in Int
    OBVIOUS
  <2>3. /\ GrantedUpTo(p, m, m[e]) \in Int /\ GrantedUpTo(p, m, m[e])' \in Int
        /\ GrantedUpTo(p, m, m[e])' = GrantedUpTo(p, m, m[e]) + n
             - (IF m[c] <= m[e] THEN o.want ELSE 0)
    BY <1>9
  <2>4. CASE m[c] <= m[e] \/ n = 0
    <3>1. n <= o.want
      OBVIOUS
    <3>2. GrantedUpTo(p, m, m[e])' <= GrantedUpTo(p, m, m[e])
      <4>. HIDE DEF o
      <4>. QED
        BY <1>1, <2>3, <2>4, <3>1
    <3>. QED
      BY <2>1, <2>3, <3>2
  <2>5. CASE ~ (m[c] <= m[e]) /\ n > 0
    <3>1. ClaimedUpTo(p, m, m[e])' <= ClaimedUpTo(p, m, m[c])'
      BY <1>1, <1>5, <2>2, <2>5, MoreUpToLater
    <3>2. /\ ClaimedUpTo(p, m, m[e])' \in Nat /\ ClaimedUpTo(p, m, m[c])' \in Nat
      BY <1>7
    <3>3. /\ GrantedUpTo(p, m, m[e])' = H + Granted(p)' + ClaimedUpTo(p, m, m[e])'
          /\ GrantedUpTo(p, m, m[c])' = H + Granted(p)' + ClaimedUpTo(p, m, m[c])'
      BY <1>4 DEF GrantedUpTo
    <3>. QED
      BY <1>1, <1>6, <1>10, <2>1, <2>5, <3>1, <3>2, <3>3
  <2>. QED
    BY <1>1, <2>1, <2>3, <2>4, <2>5
<1>13. tailIndex'[p] = T /\ T <= tailIndex'[p]
  BY <1>1, <1>4
<1>14. Claimed(p) <= Claimed(p)' /\ Claimed(p)' \in Int
  BY <1>8
<1>15. ClaimsAreSafe(p, m)'
  BY <1>1, <1>12, <1>13, <1>14, ClaimsStay
<1>. QED
  BY <1>11, <1>15

(* A step of claiming leaves the enqueues and the tokens alone. *)
ClaimsOnly == UNCHANGED <<tailIndex, enq, scenario, token, globalExplicitConsumerOffset>>

LEMMA ClaimingIsTyped ==
  ASSUME Types, ClaimsOnly, NEW c \in Consumers, NEW d, CallBecomes(c, d),
         headIndex' \in [Producers -> Nat], dequeueOptimisticCount' \in [Producers -> Int],
         dequeueOvercommit' \in [Producers -> Nat]
  PROVE  Types'
<1>1. OthersAreTyped
  BY DEF Types, ClaimsOnly, OthersAreTyped
<1>. QED
  BY <1>1, TypesAfter

LEMMA ChecksInv ==
  ASSUME IndInv, NEW c \in Consumers, Checks(c), ClaimsOnly
  PROVE  IndInv'
<1>. DEFINE o == deq[c]
<1>1. /\ Types /\ LoadsAreOld /\ OvercommitIsBounded /\ UNCHANGED indices
      /\ o.pc = "check" /\ IsCall(o) /\ o.at \in Producers
  BY DEF IndInv, Types, Checks, Dequeues, IsCall
<1>2. /\ UNCHANGED <<tailIndex, headIndex, dequeueOvercommit, dequeueOptimisticCount>>
      /\ headIndex \in [Producers -> Nat] /\ dequeueOptimisticCount \in [Producers -> Int]
      /\ dequeueOvercommit \in [Producers -> Nat]
  BY <1>1 DEF indices, Types
<1>3. PICK m \in [Consumers -> Int] : \A p \in Producers : ClaimsAreSafe(p, m)
  BY DEF IndInv
<1>4. PICK n \in 0 .. o.want :
        /\ CallBecomes(c, Checked(o, n))
        /\ n > 0 => n <= tailIndex[o.at] + o.over - m[c]
  BY <1>1, <1>3, CheckIs DEF At
<1>. DEFINE d == Checked(o, n)
<1>5. /\ IsCall(d) /\ d.at = o.at /\ d.pc \in {"give", "take"}
      /\ \A p \in Producers : MayGiveBack(d, p) <= MayGiveBack(o, p)
  BY <1>1, CheckedIs
<1>6. CallBecomes(c, d)
  BY <1>4
<1>7. ASSUME NEW p \in Producers
      PROVE  CountersAgree(p)' /\ ClaimsAreSafe(p, m)'
  <2>1. CountersAgree(p) /\ ClaimsAreSafe(p, m)
    BY <1>3 DEF IndInv
  <2>2. CASE p = o.at
    BY <1>1, <1>4, <2>1, <2>2, CheckKeepsClaims
  <2>3. CASE p # o.at
    <3>1. At(c) # p /\ d.at # p
      BY <1>5, <2>3 DEF At
    <3>. HIDE DEF d
    <3>. QED
      BY <1>1, <1>2, <1>6, <2>1, <3>1, Elsewhere
  <2>. QED
    BY <2>2, <2>3
<1>. HIDE DEF d
<1>8. Types'
  BY <1>1, <1>2, <1>6, ClaimingIsTyped
<1>9. LoadsAreOld'
  <2>1. \A p \in Producers : dequeueOvercommit[p] <= dequeueOvercommit'[p]
    BY <1>2
  <2>. QED
    BY <1>1, <1>2, <1>5, <1>6, <2>1, LoadsStayOld
<1>10. OvercommitIsBounded'
  <2>1. ASSUME NEW p \in Producers
        PROVE  dequeueOvercommit'[p] + MayGiveBack(d, p) <= dequeueOvercommit[p] + MayGiveBack(o, p)
    <3>1. MayGiveBack(d, p) \in Nat /\ MayGiveBack(o, p) \in Nat /\ dequeueOvercommit[p] \in Nat
      BY <1>1, <1>2, <1>5, ContributionsAre
    <3>. QED
      BY <1>2, <1>5, <3>1
  <2>. QED
    BY <1>1, <1>2, <1>6, <2>1, OvercommitStaysBounded
<1>. QED
  BY <1>7, <1>8, <1>9, <1>10 DEF IndInv

(* A call that has taken places by headIndex. *)
Took(o, first, last) == [o EXCEPT !.pc = "index", !.first = first, !.last = last]

LEMMA TookIs ==
  ASSUME NEW o, IsCall(o), o.pc = "take", NEW first, NEW last
  PROVE  /\ QuietCall(o, Took(o, first, last))
         /\ Took(o, first, last).pc = "index" /\ Took(o, first, last).at = o.at
         /\ \A p \in Producers :
              /\ UndecidedOf(Took(o, first, last), p) = 0 /\ UndecidedOf(o, p) = 0
              /\ GrantedTo(Took(o, first, last), p) = 0
              /\ GrantedTo(o, p) = IF p = o.at THEN o.want ELSE 0
<1>1. PICK pc \in CallPcs : pc = "index"
  BY DEF CallPcs, Taking
<1>. DEFINE d == [o EXCEPT !.pc = pc, !.first = first, !.last = last]
<1>2. IsRecord(o) /\ o.want \in 1 .. o.max
  BY DEF IsCall, Taking
<1>3. IsRecord(d) /\ d.pc = pc /\ d.max = o.max /\ d.at = o.at /\ d.rest = o.rest /\ d.want = o.want
  BY <1>2 DEF IsRecord, Records
<1>4. d = Took(o, first, last)
  BY <1>1 DEF Took
<1>. HIDE DEF d
<1>5. QuietCall(o, d)
  BY <1>1, <1>2, <1>3, StillACall DEF Taking, Claiming, Deciding
<1>6. \A p \in Producers : /\ UndecidedOf(d, p) = 0 /\ UndecidedOf(o, p) = 0
                           /\ GrantedTo(d, p) = 0
                           /\ GrantedTo(o, p) = IF p = o.at THEN o.want ELSE 0
  BY <1>1, <1>3 DEF UndecidedOf, GrantedTo
<1>. QED
  BY <1>1, <1>3, <1>4, <1>5, <1>6

(* A call that has given back what it claimed too many. *)
GaveBack(o) ==
  IF o.want > 0 THEN [o EXCEPT !.pc = "take", !.give = 0] ELSE NextProducer(o)

LEMMA GaveBackIs ==
  ASSUME NEW o, IsCall(o), o.pc = "give"
  PROVE  /\ IsCall(GaveBack(o)) /\ GaveBack(o).pc \in {"take", "idle", "tail"}
         /\ GaveBack(o).at = o.at \/ GaveBack(o).pc \notin Deciding
         /\ \A p \in Producers :
              /\ UndecidedOf(GaveBack(o), p) = 0
              /\ UndecidedOf(o, p) = IF p = o.at THEN o.give ELSE 0
              /\ GrantedTo(GaveBack(o), p) = GrantedTo(o, p)
              /\ MayGiveBack(GaveBack(o), p) + UndecidedOf(o, p) <= MayGiveBack(o, p)
<1>1. /\ IsRecord(o) /\ o.want \in Nat /\ o.give \in Nat /\ o.give >= 1 /\ o.want + o.give <= o.max
      /\ o.max \in 1 .. MaxBulk /\ o.at \in Producers \ Ahead(o) /\ IsInjective(o.rest)
      /\ o.rest \in Seq(Producers)
  BY DEF IsCall, IsRecord, Records
<1>2. \A p \in Producers : /\ UndecidedOf(o, p) = IF p = o.at THEN o.give ELSE 0
                           /\ GrantedTo(o, p) = IF p = o.at THEN o.want ELSE 0
                           /\ MayGiveBack(o, p) = IF p \in Ahead(o) THEN MaxBulk ELSE UndecidedOf(o, p)
  BY DEF UndecidedOf, GrantedTo, MayGiveBack, Claiming
<1>3. CASE o.want > 0
  <2>1. PICK pc \in CallPcs : pc = "take"
    BY DEF CallPcs, Taking
  <2>2. PICK z \in Nat : z = 0
    OBVIOUS
  <2>. DEFINE d == [o EXCEPT !.pc = pc, !.give = z]
  <2>3. d = GaveBack(o)
    BY <1>3, <2>1, <2>2 DEF GaveBack
  <2>4. IsRecord(d) /\ d.pc = pc /\ d.max = o.max /\ d.at = o.at /\ d.rest = o.rest /\ d.want = o.want
    BY <1>1 DEF IsRecord, Records
  <2>. HIDE DEF d
  <2>5. Ahead(d) = Ahead(o)
    BY <2>4 DEF Ahead
  <2>6. o.want \in 1 .. o.max
    BY <1>1, <1>3, ClaimAssumption
  <2>7. IsCall(d)
    BY <1>1, <2>1, <2>4, <2>5, <2>6 DEF IsCall
  <2>8. ASSUME NEW p \in Producers
        PROVE  /\ UndecidedOf(d, p) = 0
               /\ GrantedTo(d, p) = GrantedTo(o, p)
               /\ MayGiveBack(d, p) = IF p \in Ahead(o) THEN MaxBulk ELSE 0
    BY <1>2, <2>1, <2>4, <2>5 DEF UndecidedOf, GrantedTo, MayGiveBack, Claiming
  <2>9. ASSUME NEW p \in Producers
        PROVE  MayGiveBack(d, p) + UndecidedOf(o, p) <= MayGiveBack(o, p)
    <3>1. p \in Ahead(o) => p # o.at
      BY <1>1
    <3>. QED
      BY <1>1, <1>2, <2>8, <3>1, ClaimAssumption
  <2>. QED
    BY <1>2, <2>1, <2>3, <2>4, <2>7, <2>8, <2>9
<1>4. CASE ~ (o.want > 0)
  <2>1. GaveBack(o) = NextProducer(o)
    BY <1>4 DEF GaveBack
  <2>2. QuietCall(o, NextProducer(o)) /\ NextProducer(o).pc \in {"idle", "tail"}
    BY <1>1, LeavesProducer
  <2>3. \A p \in Producers \ Ahead(o) : MayGiveBack(NextProducer(o), p) = 0
    BY <1>1, NextProducerIs
  <2>4. \A p \in Producers : GrantedTo(o, p) = 0
    BY <1>1, <1>2, <1>4
  <2>5. \A p \in Producers : UndecidedOf(NextProducer(o), p) = 0 /\ GrantedTo(NextProducer(o), p) = 0
    BY <2>2 DEF UndecidedOf, GrantedTo
  <2>6. ASSUME NEW p \in Producers
        PROVE  MayGiveBack(NextProducer(o), p) + UndecidedOf(o, p) <= MayGiveBack(o, p)
    <3>1. CASE p = o.at
      BY <1>1, <1>2, <2>3, <3>1
    <3>2. CASE p # o.at
      <4>1. MayGiveBack(NextProducer(o), p) \in Nat
        BY <2>2, ContributionsAre DEF QuietCall
      <4>. QED
        BY <1>2, <2>2, <3>2, <4>1 DEF QuietCall
    <3>. QED
      BY <3>1, <3>2
  <2>. QED
    BY <1>2, <2>1, <2>2, <2>4, <2>5, <2>6 DEF QuietCall, Deciding
<1>. QED
  BY <1>1, <1>3, <1>4

(* A call that has made its claim. *)
Made(o, mine) == [o EXCEPT !.pc = "check", !.mine = mine]

LEMMA MadeIs ==
  ASSUME NEW o, IsCall(o), o.pc = "claim", NEW mine \in Int
  PROVE  /\ IsCall(Made(o, mine)) /\ Made(o, mine).pc = "check" /\ Made(o, mine).at = o.at
         /\ Made(o, mine).want = o.want /\ Made(o, mine).over = o.over /\ Made(o, mine).mine = mine
         /\ \A p \in Producers :
              /\ UndecidedOf(Made(o, mine), p) = IF p = o.at THEN o.want ELSE 0
              /\ UndecidedOf(o, p) = 0 /\ GrantedTo(Made(o, mine), p) = 0 /\ GrantedTo(o, p) = 0
              /\ MayGiveBack(Made(o, mine), p) <= MayGiveBack(o, p)
<1>1. PICK pc \in CallPcs : pc = "check"
  BY DEF CallPcs
<1>. DEFINE d == [o EXCEPT !.pc = pc, !.mine = mine]
<1>2. /\ IsRecord(o) /\ o.want \in 1 .. o.max /\ o.max \in 1 .. MaxBulk
      /\ o.at \in Producers \ Ahead(o) /\ IsInjective(o.rest)
  BY DEF IsCall
<1>3. /\ IsRecord(d) /\ d.pc = pc /\ d.max = o.max /\ d.at = o.at /\ d.rest = o.rest
      /\ d.want = o.want /\ d.over = o.over /\ d.mine = mine
  BY <1>2 DEF IsRecord, Records
<1>4. d = Made(o, mine)
  BY <1>1 DEF Made
<1>. HIDE DEF d
<1>5. Ahead(d) = Ahead(o)
  BY <1>3 DEF Ahead
<1>6. IsCall(d)
  BY <1>1, <1>2, <1>3, <1>5 DEF IsCall, Taking
<1>7. \A p \in Producers : /\ UndecidedOf(d, p) = IF p = o.at THEN o.want ELSE 0
                           /\ UndecidedOf(o, p) = 0 /\ GrantedTo(d, p) = 0 /\ GrantedTo(o, p) = 0
  BY <1>1, <1>3 DEF UndecidedOf, GrantedTo
<1>8. ASSUME NEW p \in Producers
      PROVE  MayGiveBack(d, p) <= MayGiveBack(o, p)
  <2>1. CASE p \in Ahead(o) \/ p = o.at
    <3>1. MayGiveBack(o, p) = MaxBulk
      BY <2>1 DEF MayGiveBack, Claiming
    <3>. QED
      BY <1>6, <3>1, ContributionsAre
  <2>2. CASE ~ (p \in Ahead(o) \/ p = o.at)
    <3>1. MayGiveBack(d, p) = 0
      BY <1>1, <1>3, <1>5, <1>7, <2>2 DEF MayGiveBack, Claiming
    <3>2. MayGiveBack(o, p) \in Nat
      BY ContributionsAre
    <3>. QED
      BY <3>1, <3>2
  <2>. QED
    BY <2>1, <2>2
<1>. QED
  BY <1>1, <1>3, <1>4, <1>6, <1>7, <1>8

LEMMA TakesInv ==
  ASSUME IndInv, NEW c \in Consumers, Takes(c), ClaimsOnly
  PROVE  IndInv'
<1>. DEFINE o == deq[c]
<1>1. /\ Types /\ LoadsAreOld /\ OvercommitIsBounded
      /\ o.pc = "take" /\ IsCall(o) /\ o.at \in Producers /\ o.want \in Nat
  BY DEF IndInv, Types, Takes, Dequeues, IsCall, IsRecord, Records
<1>2. PICK q \in Producers : q = o.at
  BY <1>1
<1>3. /\ UNCHANGED <<tailIndex, dequeueOvercommit, dequeueOptimisticCount>>
      /\ headIndex' = [headIndex EXCEPT ![q] = headIndex[q] + o.want]
      /\ headIndex \in [Producers -> Nat] /\ dequeueOptimisticCount \in [Producers -> Int]
      /\ dequeueOvercommit \in [Producers -> Nat]
  BY <1>1, <1>2 DEF Types, Takes
<1>4. PICK m \in [Consumers -> Int] : \A p \in Producers : ClaimsAreSafe(p, m)
  BY DEF IndInv
<1>5. PICK first, last : Goes(c, Took(o, first, last))
  BY DEF Takes, Took
<1>. DEFINE d == Took(o, first, last)
<1>6. /\ QuietCall(o, d) /\ d.pc = "index" /\ d.at = q
      /\ \A p \in Producers : /\ UndecidedOf(d, p) = 0 /\ UndecidedOf(o, p) = 0
                              /\ GrantedTo(d, p) = 0
                              /\ GrantedTo(o, p) = IF p = q THEN o.want ELSE 0
  BY <1>1, <1>2, TookIs
<1>7. Goes(c, d)
  BY <1>5
<1>. HIDE DEF d
<1>8. CallBecomes(c, d)
  BY <1>6, <1>7 DEF CallBecomes, Goes, QuietCall
<1>9. CountersAgree(q)' /\ ClaimsAreSafe(q, m)'
  <2>1. CountersAgree(q) /\ ClaimsAreSafe(q, m)
    BY <1>1, <1>4 DEF IndInv
  <2>2. /\ Granted(q) \in Nat /\ Undecided(q) \in Nat
        /\ Granted(q)' = Granted(q) + (GrantedTo(d, q) - GrantedTo(o, q))
        /\ Undecided(q)' = Undecided(q) + (UndecidedOf(d, q) - UndecidedOf(o, q))
    BY <1>1, <1>8, SumsStep
  <2>3. /\ Granted(q)' = Granted(q) - o.want /\ Undecided(q)' = Undecided(q)
    BY <1>1, <1>6, <2>2
  <2>4. ASSUME NEW n, NEW place
        PROVE  ClaimedUpTo(q, n, place)' = ClaimedUpTo(q, n, place)
    <3>1. /\ ClaimedUpTo(q, n, place) \in Nat
          /\ ClaimedUpTo(q, n, place)' = ClaimedUpTo(q, n, place)
               + (ClaimOf(d, q, n[c], place) - ClaimOf(o, q, n[c], place))
      BY <1>1, <1>8, SumsStep
    <3>2. ClaimOf(d, q, n[c], place) = 0 /\ ClaimOf(o, q, n[c], place) = 0
      BY <1>1, <1>6 DEF ClaimOf, Checking
    <3>. QED
      BY <3>1, <3>2
  <2>5. headIndex'[q] = headIndex[q] + o.want /\ headIndex[q] \in Nat
    BY <1>1, <1>3
  <2>6. headIndex'[q] + Granted(q)' = headIndex[q] + Granted(q)
    BY <1>1, <2>2, <2>3, <2>5
  <2>7. dequeueOvercommit[q] \in Nat
    BY <1>1, <1>3
  <2>8. Claimed(q)' = Claimed(q)
    <3>1. Claimed(q)' = dequeueOvercommit[q] + headIndex'[q] + Granted(q)' + Undecided(q)
      BY <1>3, <2>3 DEF Claimed
    <3>2. Claimed(q) = dequeueOvercommit[q] + headIndex[q] + Granted(q) + Undecided(q)
      BY DEF Claimed
    <3>. QED
      BY <1>1, <2>2, <2>3, <2>5, <2>7, <3>1, <3>2
  <2>9. ~ Checking(d, q)
    BY <1>6 DEF Checking
  <2>. QED
    BY <1>1, <1>3, <1>8, <2>1, <2>4, <2>6, <2>8, <2>9, NothingIsClaimed
<1>10. ASSUME NEW p \in Producers
      PROVE  CountersAgree(p)' /\ ClaimsAreSafe(p, m)'
  <2>1. CountersAgree(p) /\ ClaimsAreSafe(p, m)
    BY <1>4 DEF IndInv
  <2>2. CASE p = q
    BY <1>9, <2>2
  <2>3. CASE p # q
    BY <1>1, <1>2, <1>3, <1>6, <1>8, <2>1, <2>3, Elsewhere DEF At, Deciding
  <2>. QED
    BY <2>2, <2>3
<1>11. Types'
  <2>1. headIndex' \in [Producers -> Nat]
    BY <1>1, <1>3
  <2>. QED
    BY <1>1, <1>3, <1>8, <2>1, ClaimingIsTyped
<1>12. LoadsAreOld'
  <2>1. \A p \in Producers : dequeueOvercommit[p] <= dequeueOvercommit'[p]
    BY <1>3
  <2>. QED
    BY <1>1, <1>3, <1>6, <1>8, <2>1, LoadsStayOld
<1>13. OvercommitIsBounded'
  <2>1. ASSUME NEW p \in Producers
        PROVE  dequeueOvercommit'[p] + MayGiveBack(d, p) <= dequeueOvercommit[p] + MayGiveBack(o, p)
    <3>1. MayGiveBack(d, p) \in Nat /\ MayGiveBack(o, p) \in Nat /\ dequeueOvercommit[p] \in Nat
      BY <1>1, <1>3, <1>6, ContributionsAre DEF QuietCall
    <3>2. MayGiveBack(d, p) <= MayGiveBack(o, p)
      BY <1>6 DEF QuietCall
    <3>. QED
      BY <1>3, <3>1, <3>2
  <2>. QED
    BY <1>1, <1>3, <1>8, <2>1, OvercommitStaysBounded
<1>. QED
  BY <1>10, <1>11, <1>12, <1>13 DEF IndInv

(* What was given back of a producer does not wrap around. *)
LEMMA OvercommitIsSmall ==
  ASSUME Types, OvercommitIsBounded, NEW p \in Producers
  PROVE  /\ dequeueOvercommit[p] \in Nat /\ Undecided(p) \in Nat
         /\ dequeueOvercommit[p] + Undecided(p) <= IndexValues \div 2
<1>1. /\ dequeueOvercommit[p] \in Nat /\ Undecided(p) \in Nat /\ GiveBacks(p) \in Nat
      /\ Undecided(p) <= GiveBacks(p)
  BY SumsAre DEF Types
<1>2. dequeueOvercommit[p] + GiveBacks(p) <= MaxOvercommit - 1 + MaxBulk * Cardinality(Consumers)
  BY DEF OvercommitIsBounded
<1>3. PICK bound \in Int : bound = MaxOvercommit - 1 + MaxBulk * Cardinality(Consumers)
  <2>1. Cardinality(Consumers) \in Nat
    BY FiniteConsumers, FS_CardinalityType
  <2>. QED
    BY <2>1, ClaimAssumption
<1>4. bound <= IndexValues \div 2 /\ IndexValues \div 2 \in Nat
  BY <1>3, ClaimAssumption
<1>. QED
  BY <1>1, <1>2, <1>3, <1>4

LEMMA GivesBackInv ==
  ASSUME IndInv, NEW c \in Consumers, GivesBack(c), ClaimsOnly
  PROVE  IndInv'
<1>. DEFINE o == deq[c]
            d == GaveBack(o)
<1>1. /\ Types /\ LoadsAreOld /\ OvercommitIsBounded
      /\ o.pc = "give" /\ IsCall(o) /\ o.at \in Producers
      /\ o.want \in Nat /\ o.give \in Nat /\ o.give >= 1
  BY DEF IndInv, Types, GivesBack, Dequeues, IsCall, IsRecord, Records
<1>2. PICK q \in Producers : q = o.at
  BY <1>1
<1>3. /\ UNCHANGED <<tailIndex, headIndex, dequeueOptimisticCount>>
      /\ dequeueOvercommit' = [dequeueOvercommit EXCEPT ![q] = (dequeueOvercommit[q] + o.give) % IndexValues]
      /\ headIndex \in [Producers -> Nat] /\ dequeueOptimisticCount \in [Producers -> Int]
      /\ dequeueOvercommit \in [Producers -> Nat]
  BY <1>1, <1>2 DEF Types, GivesBack
<1>4. PICK m \in [Consumers -> Int] : \A p \in Producers : ClaimsAreSafe(p, m)
  BY DEF IndInv
<1>5. Goes(c, d)
  BY DEF GivesBack, GaveBack
<1>6. /\ IsCall(d) /\ d.pc \in {"take", "idle", "tail"}
      /\ d.at = o.at \/ d.pc \notin Deciding
      /\ \A p \in Producers :
           /\ UndecidedOf(d, p) = 0
           /\ UndecidedOf(o, p) = IF p = o.at THEN o.give ELSE 0
           /\ GrantedTo(d, p) = GrantedTo(o, p)
           /\ MayGiveBack(d, p) + UndecidedOf(o, p) <= MayGiveBack(o, p)
  BY <1>1, GaveBackIs
<1>. HIDE DEF d
<1>7. CallBecomes(c, d)
  BY <1>5, <1>6 DEF CallBecomes, Goes
<1>8. /\ Granted(q) \in Nat /\ Undecided(q) \in Nat
      /\ Granted(q)' = Granted(q)
      /\ Undecided(q)' = Undecided(q) - o.give
  <2>1. /\ Granted(q) \in Nat /\ Undecided(q) \in Nat
        /\ Granted(q)' = Granted(q) + (GrantedTo(d, q) - GrantedTo(o, q))
        /\ Undecided(q)' = Undecided(q) + (UndecidedOf(d, q) - UndecidedOf(o, q))
    BY <1>1, <1>7, SumsStep
  <2>2. GrantedTo(o, q) \in Nat
    BY <1>1, ContributionsAre
  <2>. QED
    BY <1>1, <1>2, <1>6, <2>1, <2>2
<1>9. dequeueOvercommit'[q] = dequeueOvercommit[q] + o.give
  <2>1. dequeueOvercommit[q] \in Nat /\ dequeueOvercommit[q] + Undecided(q) <= IndexValues \div 2
    BY <1>1, OvercommitIsSmall
  <2>2. Undecided(q)' \in Nat
    BY <1>1, <1>7, SumsStep
  <2>3. PICK x \in Nat : x = dequeueOvercommit[q] + o.give
    BY <1>1, <2>1
  <2>4. x <= IndexValues \div 2
    BY <1>1, <1>8, <2>1, <2>2, <2>3, ClaimAssumption
  <2>5. x % IndexValues = x
    <3>1. IndexValues \in Nat \ {0} /\ IndexValues \div 2 < IndexValues
      BY ClaimAssumption
    <3>. QED
      BY <2>4, <3>1
  <2>. QED
    BY <1>3, <2>3, <2>5
<1>10. CountersAgree(q)' /\ ClaimsAreSafe(q, m)'
  <2>1. CountersAgree(q) /\ ClaimsAreSafe(q, m)
    BY <1>4 DEF IndInv
  <2>2. ASSUME NEW n, NEW place
        PROVE  ClaimedUpTo(q, n, place)' = ClaimedUpTo(q, n, place)
    <3>1. /\ ClaimedUpTo(q, n, place) \in Nat
          /\ ClaimedUpTo(q, n, place)' = ClaimedUpTo(q, n, place)
               + (ClaimOf(d, q, n[c], place) - ClaimOf(o, q, n[c], place))
      BY <1>1, <1>7, SumsStep
    <3>2. ClaimOf(d, q, n[c], place) = 0 /\ ClaimOf(o, q, n[c], place) = 0
      BY <1>1, <1>6 DEF ClaimOf, Checking
    <3>. QED
      BY <3>1, <3>2
  <2>3. headIndex'[q] + Granted(q)' = headIndex[q] + Granted(q)
    BY <1>3, <1>8
  <2>4. Claimed(q)' = Claimed(q)
    <3>1. Claimed(q)' = dequeueOvercommit'[q] + headIndex[q] + Granted(q)' + Undecided(q)'
      BY <1>3 DEF Claimed
    <3>2. Claimed(q) = dequeueOvercommit[q] + headIndex[q] + Granted(q) + Undecided(q)
      BY DEF Claimed
    <3>3. dequeueOvercommit[q] \in Nat /\ headIndex[q] \in Nat
      BY <1>3
    <3>. QED
      BY <1>1, <1>8, <1>9, <3>1, <3>2, <3>3
  <2>5. ~ Checking(d, q)
    BY <1>6 DEF Checking
  <2>. QED
    BY <1>1, <1>3, <1>7, <2>1, <2>2, <2>3, <2>4, <2>5, NothingIsClaimed
<1>11. ASSUME NEW p \in Producers
       PROVE  CountersAgree(p)' /\ ClaimsAreSafe(p, m)'
  <2>1. CountersAgree(p) /\ ClaimsAreSafe(p, m)
    BY <1>4 DEF IndInv
  <2>2. CASE p = q
    BY <1>10, <2>2
  <2>3. CASE p # q
    <3>1. dequeueOvercommit'[p] = dequeueOvercommit[p]
      BY <1>3, <2>3
    <3>2. At(c) # p /\ (d.at # p \/ d.pc \notin Deciding)
      BY <1>2, <1>6, <2>3 DEF At
    <3>. QED
      BY <1>1, <1>3, <1>7, <2>1, <3>1, <3>2, Elsewhere
  <2>. QED
    BY <2>2, <2>3
<1>12. dequeueOvercommit' \in [Producers -> Nat]
  <2>1. dequeueOvercommit[q] + o.give \in Nat
    BY <1>1, <1>3
  <2>2. dequeueOvercommit' = [dequeueOvercommit EXCEPT ![q] = dequeueOvercommit[q] + o.give]
    <3>1. dequeueOvercommit'[q] = (dequeueOvercommit[q] + o.give) % IndexValues
      BY <1>3
    <3>. QED
      BY <1>3, <1>9, <3>1
  <2>. QED
    BY <1>3, <2>1, <2>2
<1>13. ASSUME NEW p \in Producers
       PROVE  dequeueOvercommit'[p] = dequeueOvercommit[p] + UndecidedOf(o, p)
  <2>1. dequeueOvercommit[p] \in Nat
    BY <1>3
  <2>2. CASE p = q
    BY <1>2, <1>6, <1>9, <2>2
  <2>3. CASE p # q
    <3>1. dequeueOvercommit'[p] = dequeueOvercommit[p] /\ UndecidedOf(o, p) = 0
      BY <1>2, <1>3, <1>6, <2>3
    <3>. QED
      BY <2>1, <3>1
  <2>. QED
    BY <2>2, <2>3
<1>14. \A p \in Producers : UndecidedOf(o, p) \in Nat
  BY <1>1, ContributionsAre
<1>15. Types'
  BY <1>1, <1>3, <1>7, <1>12, ClaimingIsTyped
<1>16. LoadsAreOld'
  <2>1. ASSUME NEW p \in Producers
        PROVE  dequeueOvercommit[p] <= dequeueOvercommit'[p]
    <3>1. dequeueOvercommit[p] \in Nat /\ UndecidedOf(o, p) \in Nat
      BY <1>3, <1>14
    <3>. QED
      BY <1>13, <3>1
  <2>. QED
    BY <1>1, <1>6, <1>7, <1>12, <2>1, LoadsStayOld
<1>17. OvercommitIsBounded'
  <2>1. ASSUME NEW p \in Producers
        PROVE  dequeueOvercommit'[p] + MayGiveBack(d, p) <= dequeueOvercommit[p] + MayGiveBack(o, p)
    <3>1. /\ MayGiveBack(d, p) \in Nat /\ MayGiveBack(o, p) \in Nat /\ dequeueOvercommit[p] \in Nat
          /\ UndecidedOf(o, p) \in Nat
      BY <1>1, <1>3, <1>6, <1>14, ContributionsAre
    <3>2. MayGiveBack(d, p) + UndecidedOf(o, p) <= MayGiveBack(o, p)
      BY <1>6
    <3>. QED
      BY <1>13, <3>1, <3>2
  <2>. QED
    BY <1>1, <1>7, <1>12, <2>1, OvercommitStaysBounded
<1>. QED
  BY <1>11, <1>15, <1>16, <1>17 DEF IndInv

(* Places may be changed where nothing is to be checked. *)
LEMMA OtherPlaces ==
  ASSUME NEW p \in Producers, NEW m \in [Consumers -> Int], ClaimsAreSafe(p, m),
         NEW c \in Consumers, deq[c].pc # "check", NEW i \in Int
  PROVE  ClaimsAreSafe(p, [m EXCEPT ![c] = i])
<1>. DEFINE n == [m EXCEPT ![c] = i]
<1>1. \A e \in Consumers : Checking(deq[e], p) => e # c /\ n[e] = m[e]
  BY DEF Checking
<1>. HIDE DEF n
<1>2. ASSUME NEW place
      PROVE  GrantedUpTo(p, n, place) = GrantedUpTo(p, m, place)
  <2>1. \A e \in Consumers : ClaimOf(deq[e], p, n[e], place) = ClaimOf(deq[e], p, m[e], place)
    BY <1>1 DEF ClaimOf
  <2>2. [e \in Consumers |-> ClaimOf(deq[e], p, n[e], place)]
          = [e \in Consumers |-> ClaimOf(deq[e], p, m[e], place)]
    BY <2>1
  <2>. QED
    BY <2>2 DEF GrantedUpTo, ClaimedUpTo
<1>. QED
  BY <1>1, <1>2 DEF ClaimsAreSafe, ClaimIsSafe, n

(* A new claim begins where all others end. *)
LEMMA ClaimKeepsClaims ==
  ASSUME Types, LoadsAreOld, OvercommitIsBounded, NEW c \in Consumers, deq[c].pc = "claim",
         NEW p \in Producers, p = deq[c].at, NEW m \in [Consumers -> Int], m[c] = Claimed(p),
         CountersAgree(p), ClaimsAreSafe(p, m),
         CallBecomes(c, Made(deq[c], dequeueOptimisticCount[p])),
         UNCHANGED <<tailIndex, headIndex, dequeueOvercommit>>,
         dequeueOptimisticCount'[p] = (dequeueOptimisticCount[p] + deq[c].want) % IndexValues
  PROVE  CountersAgree(p)' /\ ClaimsAreSafe(p, m)'
<1>. DEFINE o == deq[c]
            d == Made(o, dequeueOptimisticCount[p])
            T == tailIndex[p]
            H == headIndex[p]
            V == dequeueOvercommit[p]
            half == IndexValues \div 2
<1>1. /\ IsCall(o) /\ o.want \in Nat /\ o.over \in Nat /\ m[c] \in Int
      /\ T \in Nat /\ H \in Nat /\ V \in Nat /\ dequeueOptimisticCount[p] \in Int
      /\ half \in Nat /\ IndexValues \in Nat \ {0}
  <2>1. IndexValues \in Nat \ {0} /\ half \in Nat
    BY ClaimAssumption
  <2>. HIDE DEF half
  <2>2. IsCall(o) /\ T \in Nat /\ H \in Nat /\ V \in Nat /\ dequeueOptimisticCount[p] \in Int
    BY DEF Types
  <2>. HIDE DEF T, H, V
  <2>. QED
    BY <2>1, <2>2 DEF IsCall, IsRecord, Records
<1>2. o.over <= V /\ V + Undecided(p) <= half
  BY OvercommitIsSmall DEF LoadsAreOld, At
<1>3. /\ IsCall(d) /\ d.pc = "check" /\ d.at = p /\ d.want = o.want /\ d.over = o.over
      /\ d.mine = dequeueOptimisticCount[p]
      /\ UndecidedOf(d, p) = o.want /\ UndecidedOf(o, p) = 0
      /\ GrantedTo(d, p) = 0 /\ GrantedTo(o, p) = 0
  <2>1. PICK mine \in Int : mine = dequeueOptimisticCount[p]
    BY <1>1
  <2>. QED
    BY <1>1, <2>1, MadeIs
<1>4. CallBecomes(c, d)
  OBVIOUS
<1>. HIDE DEF d
<1>5. /\ Granted(p) \in Nat /\ Undecided(p) \in Nat /\ Undecided(p)' \in Nat
      /\ Granted(p)' = Granted(p) /\ Undecided(p)' = Undecided(p) + o.want
  <2>1. /\ Granted(p) \in Nat /\ Undecided(p) \in Nat /\ Undecided(p)' \in Nat
        /\ Granted(p)' = Granted(p) + (GrantedTo(d, p) - GrantedTo(o, p))
        /\ Undecided(p)' = Undecided(p) + (UndecidedOf(d, p) - UndecidedOf(o, p))
    BY <1>4, SumsStep
  <2>. QED
    BY <1>1, <1>3, <2>1
<1>6. /\ Claimed(p) = V + H + Granted(p) + Undecided(p)
      /\ Claimed(p)' = Claimed(p) + o.want
      /\ Claimed(p) \in Int
  <2>1. Claimed(p) = V + H + Granted(p) + Undecided(p)
    BY DEF Claimed
  <2>2. Claimed(p)' = V + H + Granted(p)' + Undecided(p)'
    BY DEF Claimed
  <2>. QED
    BY <1>1, <1>5, <2>1, <2>2
<1>7. dequeueOptimisticCount[p] = Claimed(p) % IndexValues /\ H + Granted(p) <= T
  BY DEF CountersAgree
<1>8. CountersAgree(p)'
  <2>1. dequeueOptimisticCount'[p] = Claimed(p)' % IndexValues
    <3>1. PICK a \in Int : a = Claimed(p)
      BY <1>6
    <3>2. PICK want \in Int : want = o.want
      BY <1>1
    <3>3. ((a % IndexValues) + want) % IndexValues = (a + want) % IndexValues
      BY <1>1, ModAdd
    <3>. QED
      BY <1>6, <1>7, <3>1, <3>2, <3>3
  <2>. QED
    BY <1>5, <1>7, <2>1 DEF CountersAgree
<1>9. ASSUME NEW e \in Consumers \ {c}, Checking(deq'[e], p)
      PROVE  ClaimIsSafe(p, m, e)'
  <2>1. deq'[e] = deq[e]
    BY <1>4, CallsAfter
  <2>2. m[e] + deq[e].want <= Claimed(p) /\ deq[e].want \in Nat \ {0} /\ m[e] \in Int
    <3>1. Checking(deq[e], p) /\ IsCall(deq[e])
      BY <1>9, <2>1 DEF Types
    <3>2. m[e] + deq[e].want <= Claimed(p)
      BY <3>1 DEF ClaimsAreSafe, ClaimIsSafe
    <3>3. deq[e].want \in 1 .. deq[e].max /\ deq[e].want \in Nat
      BY <3>1 DEF IsCall, IsRecord, Records, Checking
    <3>4. deq[e].want \in Nat \ {0}
      <4>1. deq[e].want # 0
        BY <3>3
      <4>. QED
        BY <3>3, <4>1
    <3>. QED
      BY <3>2, <3>4
  <2>3. ~ (m[c] <= m[e])
    BY <1>6, <2>2
  <2>4. GrantedUpTo(p, m, m[e])' = GrantedUpTo(p, m, m[e]) /\ GrantedUpTo(p, m, m[e]) \in Int
    <3>1. /\ ClaimedUpTo(p, m, m[e]) \in Nat
          /\ ClaimedUpTo(p, m, m[e])' = ClaimedUpTo(p, m, m[e])
               + (ClaimOf(d, p, m[c], m[e]) - ClaimOf(o, p, m[c], m[e]))
      BY <1>4, SumsStep
    <3>2. ClaimOf(d, p, m[c], m[e]) = 0 /\ ClaimOf(o, p, m[c], m[e]) = 0
      BY <2>3 DEF ClaimOf, Checking
    <3>3. ClaimedUpTo(p, m, m[e])' = ClaimedUpTo(p, m, m[e])
      BY <3>1, <3>2
    <3>. QED
      BY <1>1, <1>5, <3>1, <3>3 DEF GrantedUpTo
  <2>5. GrantedUpTo(p, m, m[e])' \in Int /\ GrantedUpTo(p, m, m[e])' <= GrantedUpTo(p, m, m[e])
    BY <2>4
  <2>6. Claimed(p)' \in Int /\ Claimed(p) <= Claimed(p)' /\ tailIndex'[p] \in Nat /\ T <= tailIndex'[p]
    BY <1>1, <1>6
  <2>. QED
    BY <1>9, <2>1, <2>5, <2>6, ClaimStays
<1>10. ClaimIsSafe(p, m, c)'
  <2>1. deq'[c] = d
    BY <1>4, CallsAfter
  <2>2. m[c] - o.over <= T + half
    BY <1>1, <1>2, <1>5, <1>6, <1>7
  <2>3. GrantedUpTo(p, m, m[c])' <= m[c] + o.want - o.over
    <3>1. ClaimedUpTo(p, m, m[c])' \in Nat /\ ClaimedUpTo(p, m, m[c])' <= Undecided(p)'
      BY <1>4, SumsStep
    <3>2. GrantedUpTo(p, m, m[c])' = H + Granted(p)' + ClaimedUpTo(p, m, m[c])'
      BY DEF GrantedUpTo
    <3>3. m[c] = V + H + Granted(p) + Undecided(p)
      BY <1>6
    <3>. HIDE DEF o, T, H, V
    <3>. QED
      BY <1>1, <1>2, <1>5, <3>1, <3>2, <3>3
  <2>4. m[c] + o.want <= Claimed(p)'
    BY <1>1, <1>6
  <2>5. d.mine = m[c] % IndexValues
    BY <1>3, <1>7
  <2>. QED
    BY <1>3, <2>1, <2>2, <2>3, <2>4, <2>5 DEF ClaimIsSafe
<1>. QED
  BY <1>8, <1>9, <1>10 DEF ClaimsAreSafe

LEMMA ClaimsInv ==
  ASSUME IndInv, NEW c \in Consumers, Claims(c), ClaimsOnly
  PROVE  IndInv'
<1>. DEFINE o == deq[c]
<1>1. /\ Types /\ LoadsAreOld /\ OvercommitIsBounded
      /\ o.pc = "claim" /\ IsCall(o) /\ o.at \in Producers /\ o.want \in Nat
  BY DEF IndInv, Types, Claims, Dequeues, IsCall, IsRecord, Records
<1>2. PICK q \in Producers : q = o.at
  BY <1>1
<1>3. /\ UNCHANGED <<tailIndex, headIndex, dequeueOvercommit>>
      /\ dequeueOptimisticCount'
           = [dequeueOptimisticCount EXCEPT ![q] = (dequeueOptimisticCount[q] + o.want) % IndexValues]
      /\ headIndex \in [Producers -> Nat] /\ dequeueOptimisticCount \in [Producers -> Int]
      /\ dequeueOvercommit \in [Producers -> Nat]
  BY <1>1, <1>2 DEF Types, Claims
<1>. DEFINE d == Made(o, dequeueOptimisticCount[q])
<1>4. /\ IsCall(d) /\ d.pc = "check" /\ d.at = q /\ d.over = o.over
      /\ \A p \in Producers : MayGiveBack(d, p) <= MayGiveBack(o, p)
  <2>1. PICK mine \in Int : mine = dequeueOptimisticCount[q]
    BY <1>3
  <2>. QED
    BY <1>1, <1>2, <2>1, MadeIs
<1>5. CallBecomes(c, d)
  <2>1. Goes(c, d)
    BY <1>2 DEF Claims, Made
  <2>. HIDE DEF d
  <2>. QED
    BY <1>4, <2>1 DEF CallBecomes, Goes
<1>6. PICK m0 \in [Consumers -> Int] : \A p \in Producers : ClaimsAreSafe(p, m0)
  BY DEF IndInv
<1>7. PICK i \in Int : i = Claimed(q)
  <2>1. Claimed(q) \in Int
    BY <1>1, <1>3, SumsAre DEF Claimed
  <2>. QED
    BY <2>1
<1>8. PICK m \in [Consumers -> Int] : m[c] = Claimed(q) /\ \A p \in Producers : ClaimsAreSafe(p, m)
  <2>. DEFINE moved == [m0 EXCEPT ![c] = i]
  <2>1. moved \in [Consumers -> Int] /\ moved[c] = Claimed(q)
    BY <1>6, <1>7
  <2>2. \A p \in Producers : ClaimsAreSafe(p, moved)
    BY <1>1, <1>6, <1>7, OtherPlaces
  <2>. HIDE DEF moved
  <2>. QED
    BY <2>1, <2>2
<1>9. ASSUME NEW p \in Producers
      PROVE  CountersAgree(p)' /\ ClaimsAreSafe(p, m)'
  <2>1. CountersAgree(p) /\ ClaimsAreSafe(p, m)
    BY <1>8 DEF IndInv
  <2>2. CASE p = q
    <3>1. dequeueOptimisticCount'[p] = (dequeueOptimisticCount[p] + o.want) % IndexValues
      BY <1>3, <2>2
    <3>. QED
      BY <1>1, <1>2, <1>3, <1>5, <1>8, <2>1, <2>2, <3>1, ClaimKeepsClaims
  <2>3. CASE p # q
    <3>1. dequeueOptimisticCount'[p] = dequeueOptimisticCount[p]
      BY <1>3, <2>3
    <3>2. At(c) # p /\ d.at # p
      BY <1>2, <1>4, <2>3 DEF At
    <3>. HIDE DEF d
    <3>. QED
      BY <1>1, <1>3, <1>5, <2>1, <3>1, <3>2, Elsewhere
  <2>. QED
    BY <2>2, <2>3
<1>. HIDE DEF d
<1>10. Types'
  <2>1. dequeueOptimisticCount' \in [Producers -> Int]
    <3>1. PICK x \in Int : x = dequeueOptimisticCount[q] + o.want
      BY <1>1, <1>3
    <3>2. x % IndexValues \in Int
      BY ClaimAssumption
    <3>. QED
      BY <1>3, <3>1, <3>2
  <2>. QED
    BY <1>1, <1>3, <1>5, <2>1, ClaimingIsTyped
<1>11. LoadsAreOld'
  <2>1. \A p \in Producers : dequeueOvercommit[p] <= dequeueOvercommit'[p]
    BY <1>3
  <2>2. d.over <= dequeueOvercommit'[d.at]
    BY <1>1, <1>2, <1>3, <1>4 DEF LoadsAreOld, At
  <2>. QED
    BY <1>1, <1>3, <1>5, <2>1, <2>2, LoadsStayOld
<1>12. OvercommitIsBounded'
  <2>1. ASSUME NEW p \in Producers
        PROVE  dequeueOvercommit'[p] + MayGiveBack(d, p) <= dequeueOvercommit[p] + MayGiveBack(o, p)
    <3>1. MayGiveBack(d, p) \in Nat /\ MayGiveBack(o, p) \in Nat /\ dequeueOvercommit[p] \in Nat
      BY <1>1, <1>3, <1>4, ContributionsAre
    <3>. QED
      BY <1>3, <1>4, <3>1
  <2>. QED
    BY <1>1, <1>3, <1>5, <2>1, OvercommitStaysBounded
<1>. QED
  BY <1>9, <1>10, <1>11, <1>12 DEF IndInv

LEMMA ClaimInv ==
  ASSUME IndInv, NEW c \in Consumers, ClaimStep(c), UNCHANGED tokenVars, UNCHANGED <<enq, scenario>>
  PROVE  IndInv'
<1>1. CASE LoadsTail(c) \/ LoadsOvercommit(c) \/ LoadsOptimistic(c)
  <2>1. Types /\ LoadsAreOld /\ UNCHANGED indices
    BY <1>1 DEF IndInv, LoadsTail, LoadsOvercommit, LoadsOptimistic
  <2>2. Quiet(c)
    BY <1>1, <2>1, LoadsAreQuiet
  <2>3. OthersAreTyped
    BY <2>1 DEF OthersAreTyped, Types, tokenVars, indices
  <2>. QED
    BY <2>1, <2>2, <2>3, StaysInv
<1>2. CASE Claims(c) \/ Checks(c) \/ GivesBack(c) \/ Takes(c)
  <2>1. ClaimsOnly
    BY <1>2 DEF ClaimsOnly, tokenVars, Claims, Checks, GivesBack, Takes, indices
  <2>. QED
    BY <1>2, <2>1, ClaimsInv, ChecksInv, GivesBackInv, TakesInv
<1>. QED
  BY <1>1, <1>2 DEF ClaimStep

-----------------------------------------------------------------------------
(* Enqueues: only the store of the tail matters to claims, and it is larger *)

EnqueueGoes(p) == UNCHANGED enq \/ \E e : IsEnqueue(e) /\ Proceeds(p, e)

LEMMA NoEnqueueIs == IsEnqueue(NoEnqueue)
BY DEF IsEnqueue, NoEnqueue, NoBlock

LEMMA EnqueueWith ==
  ASSUME NEW e, IsEnqueue(e), NEW pc, NEW need, NEW base, NEW first, NEW slots, NEW front
  PROVE  /\ IsEnqueue([e EXCEPT !.pc = pc])
         /\ IsEnqueue([e EXCEPT !.base = base])
         /\ IsEnqueue([e EXCEPT !.first = first])
         /\ IsEnqueue([e EXCEPT !.pc = pc, !.base = base])
         /\ IsEnqueue([e EXCEPT !.pc = pc, !.front = front])
         /\ IsEnqueue([e EXCEPT !.slots = slots, !.front = front])
         /\ IsEnqueue([e EXCEPT !.need = need, !.first = first, !.pc = pc])
         /\ IsEnqueue([e EXCEPT !.need = need, !.base = base, !.first = first, !.pc = pc])
<1>1. IsEnqueue([e EXCEPT !.pc = pc])
  BY DEF IsEnqueue
<1>2. IsEnqueue([e EXCEPT !.base = base])
  BY DEF IsEnqueue
<1>3. IsEnqueue([e EXCEPT !.first = first])
  BY DEF IsEnqueue
<1>4. IsEnqueue([e EXCEPT !.pc = pc, !.base = base])
  BY DEF IsEnqueue
<1>5. IsEnqueue([e EXCEPT !.pc = pc, !.front = front])
  BY DEF IsEnqueue
<1>6. IsEnqueue([e EXCEPT !.slots = slots, !.front = front])
  BY DEF IsEnqueue
<1>7. IsEnqueue([e EXCEPT !.need = need, !.first = first, !.pc = pc])
  BY DEF IsEnqueue
<1>8. IsEnqueue([e EXCEPT !.need = need, !.base = base, !.first = first, !.pc = pc])
  BY DEF IsEnqueue
<1>. QED
  BY <1>1, <1>2, <1>3, <1>4, <1>5, <1>6, <1>7, <1>8

LEMMA StartIs ==
  ASSUME NEW p \in Producers, NEW n \in Nat
  PROVE  IsEnqueue(StartOf(p, n))
<1>1. PICK need : need = NeededBlocks(tailIndex[p], n)
  OBVIOUS
<1>2. PICK base : base = Base(tailIndex[p] - 1)
  OBVIOUS
<1>3. PICK start : start = tailBlock[p]
  OBVIOUS
<1>4. PICK pc : pc = IF NeededBlocks(tailIndex[p], n) = 0 THEN "construct" ELSE "blocks"
  OBVIOUS
<1>. DEFINE e == [NoEnqueue EXCEPT !.n = n, !.need = need, !.base = base, !.start = start, !.pc = pc]
<1>5. e = StartOf(p, n)
  BY <1>1, <1>2, <1>3, <1>4 DEF StartOf
<1>6. IsEnqueue(e)
  BY NoEnqueueIs DEF IsEnqueue
<1>. QED
  BY <1>5, <1>6

LEMMA StartGoes ==
  ASSUME Types, NEW p \in Producers, NEW n \in 1 .. Min2(MaxBulk, scenario.sends[p] - tailIndex[p]),
         ExplicitEnqueues(p, n) \/ ImplicitEnqueues(p, n)
  PROVE  EnqueueGoes(p)
<1>1. n \in Nat
  <2>1. scenario.sends[p] \in Nat /\ tailIndex[p] \in Nat
    BY CallAssumption DEF Types
  <2>2. Min2(MaxBulk, scenario.sends[p] - tailIndex[p]) \in Int
    BY <2>1, ClaimAssumption DEF Min2
  <2>. QED
    BY <2>2
<1>2. IsEnqueue(StartOf(p, n))
  BY <1>1, StartIs
<1>3. CASE ExplicitEnqueues(p, n)
  <2>1. PICK e : e = StartOf(p, n)
    OBVIOUS
  <2>2. PICK slots, front : Proceeds(p, [e EXCEPT !.slots = slots, !.front = front])
    BY <1>3, <2>1 DEF ExplicitEnqueues
  <2>. QED
    BY <1>2, <2>1, <2>2, EnqueueWith DEF EnqueueGoes
<1>4. CASE ImplicitEnqueues(p, n)
  BY <1>2, <1>4 DEF EnqueueGoes, ImplicitEnqueues
<1>. QED
  BY <1>3, <1>4

LEMMA ExplicitGoes ==
  ASSUME Types, NEW p \in Producers, ExplicitEnqueueStep(p)
  PROVE  EnqueueGoes(p)
<1>1. PICK e : e = enq[p]
  OBVIOUS
<1>2. IsEnqueue(e)
  BY <1>1 DEF Types
<1>3. CASE TakesBlockAhead(p) \/ ExplicitGetsBlock(p)
  <2>1. PICK b, next : Appends(p, b, next)
    BY <1>3 DEF TakesBlockAhead, ExplicitGetsBlock
  <2>2. PICK need : need = e.need - 1
    OBVIOUS
  <2>3. PICK base : base = e.base + BLOCK_SIZE
    OBVIOUS
  <2>4. PICK first : first = IF e.first = NoBlock THEN b ELSE e.first
    OBVIOUS
  <2>5. PICK pc : pc = IF e.need = 1 THEN "construct" ELSE next
    OBVIOUS
  <2>6. Proceeds(p, [e EXCEPT !.need = need, !.base = base, !.first = first, !.pc = pc])
    BY <1>1, <2>1, <2>2, <2>3, <2>4, <2>5 DEF Appends
  <2>. QED
    BY <1>2, <2>6, EnqueueWith DEF EnqueueGoes
<1>4. CASE FindsNoneAhead(p) \/ HasRoom(p) \/ ExplicitConstructs(p)
  <2>1. PICK pc : Proceeds(p, [e EXCEPT !.pc = pc])
    BY <1>1, <1>4 DEF FindsNoneAhead, HasRoom, ExplicitConstructs
  <2>. QED
    BY <1>2, <2>1, EnqueueWith DEF EnqueueGoes
<1>5. CASE ExplicitHasNoRoom(p) \/ ExplicitGetsNoBlock(p) \/ ExplicitStores(p)
  BY <1>5, NoEnqueueIs DEF ExplicitHasNoRoom, ExplicitGetsNoBlock, ExplicitStores, Reverts, StoresTail, EnqueueGoes
<1>6. CASE NewBlockIndex(p)
  <2>1. PICK pc, front : Proceeds(p, [e EXCEPT !.pc = pc, !.front = front])
    BY <1>1, <1>6 DEF NewBlockIndex
  <2>. QED
    BY <1>2, <2>1, EnqueueWith DEF EnqueueGoes
<1>7. CASE ExplicitLooksInFreeList(p)
  BY <1>7 DEF ExplicitLooksInFreeList, EnqueueGoes
<1>. QED
  BY <1>3, <1>4, <1>5, <1>6, <1>7 DEF ExplicitEnqueueStep

LEMMA ImplicitGoes ==
  ASSUME Types, NEW p \in Producers, ImplicitEnqueueStep(p)
  PROVE  EnqueueGoes(p)
<1>1. PICK e : e = enq[p]
  OBVIOUS
<1>2. IsEnqueue(e)
  BY <1>1 DEF Types
<1>3. CASE ImplicitHasNoRoom(p) \/ InsertsEntry(p) \/ ImplicitGetsNoBlock(p)
  <2>1. PICK pc, base : Proceeds(p, [e EXCEPT !.pc = pc, !.base = base])
    BY <1>1, <1>3 DEF ImplicitHasNoRoom, InsertsEntry, ImplicitGetsNoBlock
  <2>. QED
    BY <1>2, <2>1, EnqueueWith DEF EnqueueGoes
<1>4. CASE EnlargesIndex(p) \/ ImplicitLooksInFreeList(p)
  BY <1>4 DEF EnlargesIndex, ImplicitLooksInFreeList, EnqueueGoes
<1>5. CASE ImplicitGetsBlock(p)
  <2>1. PICK need, first, pc : Proceeds(p, [e EXCEPT !.need = need, !.first = first, !.pc = pc])
    BY <1>1, <1>5 DEF ImplicitGetsBlock
  <2>. QED
    BY <1>2, <2>1, EnqueueWith DEF EnqueueGoes
<1>6. CASE UndoesEntry(p)
  <2>1. PICK base : Proceeds(p, [e EXCEPT !.base = base])
    BY <1>1, <1>6 DEF UndoesEntry
  <2>. QED
    BY <1>2, <2>1, EnqueueWith DEF EnqueueGoes
<1>7. CASE FreesNewBlock(p)
  <2>1. PICK first : Proceeds(p, [e EXCEPT !.first = first])
    BY <1>1, <1>7 DEF FreesNewBlock
  <2>. QED
    BY <1>2, <2>1, EnqueueWith DEF EnqueueGoes
<1>8. CASE ImplicitFails(p) \/ ImplicitStores(p)
  BY <1>8, NoEnqueueIs DEF ImplicitFails, ImplicitStores, StoresTail, EnqueueGoes
<1>9. CASE ImplicitConstructs(p)
  <2>1. PICK pc : Proceeds(p, [e EXCEPT !.pc = pc])
    BY <1>1, <1>9 DEF ImplicitConstructs
  <2>. QED
    BY <1>2, <2>1, EnqueueWith DEF EnqueueGoes
<1>. QED
  BY <1>3, <1>4, <1>5, <1>6, <1>7, <1>8, <1>9 DEF ImplicitEnqueueStep

(* Tails may grow. *)
LEMMA TailGrows ==
  ASSUME IndInv,
         UNCHANGED <<deq, headIndex, dequeueOptimisticCount, dequeueOvercommit, tokenVars, scenario>>,
         tailIndex' \in [Producers -> Nat], \A p \in Producers : tailIndex[p] <= tailIndex'[p],
         enq' = [p \in Producers |-> enq'[p]], \A p \in Producers : IsEnqueue(enq'[p])
  PROVE  IndInv'
<1>1. Types /\ Types'
  BY DEF IndInv, Types, tokenVars
<1>2. LoadsAreOld'
  BY DEF IndInv, LoadsAreOld, At
<1>3. \A p \in Producers :
        /\ Granted(p)' = Granted(p) /\ Undecided(p)' = Undecided(p) /\ GiveBacks(p)' = GiveBacks(p)
        /\ \A m, place : ClaimedUpTo(p, m, place)' = ClaimedUpTo(p, m, place)
  BY DEF Granted, Undecided, GiveBacks, ClaimedUpTo
<1>4. OvercommitIsBounded'
  BY <1>3 DEF IndInv, OvercommitIsBounded
<1>5. \A p \in Producers : /\ Claimed(p)' = Claimed(p)
                           /\ \A m, place : GrantedUpTo(p, m, place)' = GrantedUpTo(p, m, place)
  BY <1>3 DEF Claimed, GrantedUpTo
<1>6. \A p \in Producers : /\ Granted(p) \in Nat /\ headIndex[p] \in Nat /\ Claimed(p) \in Int
                           /\ tailIndex[p] \in Nat /\ tailIndex'[p] \in Nat
                           /\ \A m, place : GrantedUpTo(p, m, place) \in Int
  BY <1>1, SumsAre DEF Types, Claimed, GrantedUpTo
<1>7. ASSUME NEW p \in Producers
      PROVE  CountersAgree(p)'
  <2>1. CountersAgree(p)
    BY DEF IndInv
  <2>2. headIndex[p] + Granted(p) <= tailIndex'[p]
    BY <1>6, <2>1 DEF CountersAgree
  <2>. QED
    BY <1>3, <1>5, <2>1, <2>2 DEF CountersAgree
<1>8. PICK m \in [Consumers -> Int] : \A p \in Producers : ClaimsAreSafe(p, m)
  BY DEF IndInv
<1>9. ASSUME NEW p \in Producers
      PROVE  ClaimsAreSafe(p, m)'
  <2>1. ASSUME NEW e \in Consumers, Checking(deq'[e], p)
        PROVE  /\ deq'[e] = deq[e]
               /\ GrantedUpTo(p, m, m[e])' \in Int
               /\ GrantedUpTo(p, m, m[e])' <= GrantedUpTo(p, m, m[e])
    BY <1>5, <1>6
  <2>2. Claimed(p)' \in Int /\ Claimed(p) <= Claimed(p)'
    BY <1>5, <1>6
  <2>. QED
    BY <1>1, <1>6, <1>8, <2>1, <2>2, ClaimsStay
<1>. QED
  BY <1>1, <1>2, <1>4, <1>7, <1>8, <1>9 DEF IndInv

LEMMA EnqueueInv ==
  ASSUME IndInv, NEW p \in Producers, EnqueueStep(p)
  PROVE  IndInv'
<1>1. Types
  BY DEF IndInv
<1>2. EnqueueGoes(p)
  BY <1>1, StartGoes, ExplicitGoes, ImplicitGoes DEF EnqueueStep
<1>3. enq' = [q \in Producers |-> enq'[q]] /\ \A q \in Producers : IsEnqueue(enq'[q])
  <2>1. enq = [q \in Producers |-> enq[q]] /\ \A q \in Producers : IsEnqueue(enq[q])
    BY <1>1 DEF Types
  <2>2. CASE UNCHANGED enq
    BY <2>1, <2>2
  <2>3. CASE \E e : IsEnqueue(e) /\ Proceeds(p, e)
    <3>1. PICK e : IsEnqueue(e) /\ enq' = [enq EXCEPT ![p] = e]
      BY <2>3 DEF Proceeds
    <3>. QED
      BY <2>1, <3>1
  <2>. QED
    BY <1>2, <2>2, <2>3 DEF EnqueueGoes
<1>4. /\ UNCHANGED <<deq, headIndex, dequeueOptimisticCount, dequeueOvercommit, tokenVars, scenario>>
      /\ \/ UNCHANGED tailIndex
         \/ tailIndex' = [tailIndex EXCEPT ![p] = tailIndex[p] + enq[p].n]
  <2>1. UNCHANGED <<deq, tokenVars, scenario>>
    BY DEF EnqueueStep
  <2>2. UNCHANGED indices \/ StoresTail(p)
    <3>1. CASE \E n : ExplicitEnqueues(p, n) \/ ImplicitEnqueues(p, n)
      BY <3>1 DEF ExplicitEnqueues, ImplicitEnqueues
    <3>2. CASE ExplicitEnqueueStep(p)
      BY <3>2 DEF ExplicitEnqueueStep, TakesBlockAhead, FindsNoneAhead, ExplicitHasNoRoom, NewBlockIndex,
             HasRoom, ExplicitLooksInFreeList, ExplicitGetsBlock, ExplicitGetsNoBlock, ExplicitConstructs,
             ExplicitStores, Reverts
    <3>3. CASE ImplicitEnqueueStep(p)
      BY <3>3 DEF ImplicitEnqueueStep, ImplicitHasNoRoom, InsertsEntry, EnlargesIndex,
             ImplicitLooksInFreeList, ImplicitGetsBlock, ImplicitGetsNoBlock, UndoesEntry, FreesNewBlock,
             ImplicitFails, ImplicitConstructs, ImplicitStores
    <3>. QED
      BY <3>1, <3>2, <3>3 DEF EnqueueStep
  <2>. QED
    BY <2>1, <2>2 DEF indices, StoresTail
<1>5. tailIndex' \in [Producers -> Nat] /\ \A q \in Producers : tailIndex[q] <= tailIndex'[q]
  <2>1. tailIndex \in [Producers -> Nat] /\ enq[p].n \in Nat
    BY <1>1 DEF Types, IsEnqueue
  <2>2. PICK n \in Nat : n = enq[p].n
    BY <2>1
  <2>3. CASE UNCHANGED tailIndex
    BY <2>1, <2>3
  <2>4. CASE tailIndex' = [tailIndex EXCEPT ![p] = tailIndex[p] + n]
    BY <2>1, <2>4
  <2>. QED
    BY <1>4, <2>2, <2>3, <2>4
<1>. QED
  BY <1>3, <1>4, <1>5, TailGrows

(* The other steps change none of this. *)
LEMMA OthersInv ==
  ASSUME IndInv,
         UNCHANGED <<deq, enq, tailIndex, headIndex, dequeueOptimisticCount, dequeueOvercommit,
                     tokenVars, scenario>>
  PROVE  IndInv'
<1>1. /\ tailIndex \in [Producers -> Nat] /\ enq = [p \in Producers |-> enq[p]]
      /\ \A p \in Producers : IsEnqueue(enq[p])
  BY DEF IndInv, Types
<1>2. \A p \in Producers : tailIndex[p] <= tailIndex'[p]
  BY <1>1
<1>. QED
  BY <1>1, <1>2, TailGrows

LEMMA DequeueInv ==
  ASSUME IndInv, NEW c \in Consumers, DequeueStep(c)
  PROVE  IndInv'
<1>1. UNCHANGED <<enq, scenario>>
  BY DEF DequeueStep
<1>2. CASE CallStep(c)
  BY <1>1, <1>2, CallInv
<1>3. CASE ClaimStep(c) /\ UNCHANGED tokenVars
  BY <1>1, <1>3, ClaimInv
<1>4. CASE /\ ExplicitDequeueStep(c) \/ ImplicitDequeueStep(c)
           /\ CountsForToken(c) /\ UNCHANGED indices
  BY <1>1, <1>4, TakingInv
<1>. QED
  BY <1>2, <1>3, <1>4 DEF DequeueStep

-----------------------------------------------------------------------------
(* The theorems *)

LEMMA InitInv == Init => IndInv
<1>1. SUFFICES ASSUME Init PROVE IndInv
  OBVIOUS
<1>2. /\ tailIndex = [p \in Producers |-> 0] /\ headIndex = tailIndex
      /\ dequeueOptimisticCount = tailIndex /\ dequeueOvercommit = tailIndex
      /\ enq = [p \in Producers |-> NoEnqueue] /\ deq = [c \in Consumers |-> NoCall]
      /\ token = [c \in Consumers |-> [desired |-> 0, current |-> 0, known |-> -1, consumed |-> 0]]
      /\ globalExplicitConsumerOffset = 0 /\ scenario \in Scenarios
  BY <1>1 DEF Init, BaseInit
<1>3. Types
  <2>1. tailIndex \in [Producers -> Nat] /\ tailIndex \in [Producers -> Int]
    BY <1>2
  <2>2. [desired |-> 0, current |-> 0, known |-> -1, consumed |-> 0] \in Tokens
    BY DEF Tokens
  <2>3. token \in [Consumers -> Tokens]
    BY <1>2, <2>2
  <2>4. enq = [p \in Producers |-> enq[p]] /\ \A p \in Producers : IsEnqueue(enq[p])
    BY <1>2, NoEnqueueIs
  <2>5. deq = [c \in Consumers |-> deq[c]] /\ \A c \in Consumers : IsCall(deq[c])
    BY <1>2, NoCallIs
  <2>. QED
    BY <1>2, <2>1, <2>3, <2>4, <2>5 DEF Types
<1>4. \A c \in Consumers : deq[c] = NoCall /\ deq[c].pc = "idle"
  BY <1>2, NoCallIs
<1>5. LoadsAreOld
  BY <1>4 DEF LoadsAreOld
<1>6. ASSUME NEW f, f = [c \in Consumers |-> 0]
      PROVE  SumFunction(f) = 0
  <2>1. SumFunction(f) = SumFunctionOnSet(f, Consumers)
    BY <1>6 DEF SumFunction
  <2>2. \A c \in Consumers : f[c] \in Nat /\ f[c] \in Int /\ f[c] <= 0
    BY <1>6
  <2>3. SumFunctionOnSet(f, Consumers) \in Nat
    BY <2>2, SumOfNat, FiniteConsumers
  <2>4. SumFunctionOnSet(f, Consumers) <= 0 * Cardinality(Consumers)
    BY <2>2, SumAtMost, FiniteConsumers
  <2>5. Cardinality(Consumers) \in Nat
    BY FiniteConsumers, FS_CardinalityType
  <2>. QED
    BY <2>1, <2>3, <2>4, <2>5
<1>7. ASSUME NEW p \in Producers
      PROVE  Granted(p) = 0 /\ Undecided(p) = 0 /\ GiveBacks(p) = 0
  <2>1. \A c \in Consumers : /\ GrantedTo(deq[c], p) = 0 /\ UndecidedOf(deq[c], p) = 0
                             /\ MayGiveBack(deq[c], p) = 0
    BY <1>4, NoCallIs DEF GrantedTo, UndecidedOf
  <2>2. /\ [c \in Consumers |-> GrantedTo(deq[c], p)] = [c \in Consumers |-> 0]
        /\ [c \in Consumers |-> UndecidedOf(deq[c], p)] = [c \in Consumers |-> 0]
        /\ [c \in Consumers |-> MayGiveBack(deq[c], p)] = [c \in Consumers |-> 0]
    BY <2>1
  <2>. QED
    BY <1>6, <2>2 DEF Granted, Undecided, GiveBacks
<1>8. OvercommitIsBounded
  <2>1. Cardinality(Consumers) \in Nat /\ MaxBulk \in Nat /\ MaxOvercommit \in Nat \ {0}
    BY FiniteConsumers, FS_CardinalityType, ClaimAssumption
  <2>2. MaxBulk * Cardinality(Consumers) \in Nat
    BY <2>1
  <2>3. PICK bound \in Nat : bound = MaxOvercommit - 1 + MaxBulk * Cardinality(Consumers)
    BY <2>1, <2>2
  <2>4. \A p \in Producers : dequeueOvercommit[p] = 0
    BY <1>2
  <2>. QED
    BY <1>7, <2>3, <2>4 DEF OvercommitIsBounded
<1>9. ASSUME NEW p \in Producers
      PROVE  CountersAgree(p)
  <2>1. 0 % IndexValues = 0
    BY ClaimAssumption
  <2>2. /\ headIndex[p] = 0 /\ dequeueOvercommit[p] = 0 /\ dequeueOptimisticCount[p] = 0
        /\ tailIndex[p] = 0
    BY <1>2
  <2>. QED
    BY <1>7, <2>1, <2>2 DEF CountersAgree, Claimed
<1>10. \E m \in [Consumers -> Int] : \A p \in Producers : ClaimsAreSafe(p, m)
  <2>1. \A p \in Producers : \A m : ClaimsAreSafe(p, m)
    BY <1>4 DEF ClaimsAreSafe, Checking
  <2>2. [c \in Consumers |-> 0] \in [Consumers -> Int]
    OBVIOUS
  <2>. QED
    BY <2>1, <2>2
<1>. QED
  BY <1>3, <1>5, <1>8, <1>9, <1>10 DEF IndInv

LEMMA NextInv == IndInv /\ [Next]_vars => IndInv'
<1>1. SUFFICES ASSUME IndInv, [Next]_vars PROVE IndInv'
  OBVIOUS
<1>2. CASE \E p \in Producers : EnqueueStep(p)
  BY <1>1, <1>2, EnqueueInv
<1>3. CASE \E c \in Consumers : DequeueStep(c)
  BY <1>1, <1>3, DequeueInv
<1>4. CASE \E t \in Producers \cup Consumers : FreeListStep(t)
  BY <1>1, <1>4, OthersInv DEF FreeListStep, indices
<1>5. CASE UNCHANGED vars
  BY <1>1, <1>5, OthersInv DEF vars, indices
<1>. QED
  BY <1>1, <1>2, <1>3, <1>4, <1>5 DEF Next

(* The inductive invariant holds in every state that the queue can be in.    *)
THEOREM Invariance == Spec => []IndInv
BY InitInv, NextInv, PTL DEF Spec

(* Claims that were found good are backed by elements, and no claim is lost, *)
(* for any number of producers and consumers: the check of a claim against   *)
(* loads of dequeueOvercommit and tailIndex that may be old, modulo 2^w, is  *)
(* right (ProducerBase::dequeue, concurrentqueue.hpp:1977).                  *)
THEOREM ClaimsAreSound == Spec => []ClaimsAreBacked
<1>1. IndInv => ClaimsAreBacked
  <2>1. SUFFICES ASSUME IndInv, NEW p \in Producers
                 PROVE  /\ headIndex[p] + Granted(p) <= tailIndex[p]
                        /\ (dequeueOptimisticCount[p] - dequeueOvercommit[p]) % IndexValues
                              = (headIndex[p] + Granted(p) + Undecided(p)) % IndexValues
    BY DEF ClaimsAreBacked
  <2>2. Types /\ CountersAgree(p)
    BY <2>1 DEF IndInv
  <2>3. /\ Granted(p) \in Nat /\ Undecided(p) \in Nat /\ headIndex[p] \in Nat
        /\ dequeueOvercommit[p] \in Nat /\ Claimed(p) \in Int
    BY <2>2, SumsAre DEF Types, Claimed
  <2>4. PICK a \in Int : a = Claimed(p)
    BY <2>3
  <2>5. PICK b \in Int : b = - dequeueOvercommit[p]
    BY <2>3
  <2>6. ((a % IndexValues) + b) % IndexValues = (a + b) % IndexValues
    BY ClaimAssumption, ModAdd
  <2>7. a + b = headIndex[p] + Granted(p) + Undecided(p)
    BY <2>3, <2>4, <2>5 DEF Claimed
  <2>8. dequeueOptimisticCount[p] - dequeueOvercommit[p] = (a % IndexValues) + b
    <3>1. dequeueOptimisticCount[p] = a % IndexValues /\ a % IndexValues \in Int
      BY <2>2, <2>4, ClaimAssumption DEF CountersAgree
    <3>. QED
      BY <2>3, <2>5, <3>1
  <2>. QED
    BY <2>2, <2>6, <2>7, <2>8 DEF CountersAgree
<1>. QED
  BY <1>1, Invariance, PTL
=============================================================================
