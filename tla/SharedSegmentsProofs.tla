------------------------- MODULE SharedSegmentsProofs -------------------------
(***************************************************************************)
(* Files in shared memory, proved for any number of processes and bounds:  *)
(* Inv of SharedSegments is inductive, and who writes is alone, the counts *)
(* are exact, and shared_free and shared_recover destroy what nobody uses. *)
(***************************************************************************)
EXTENDS SharedSegments, FiniteSetTheorems, WellFoundedInduction, TLAPS

----------------------------------------------------------------------------
(* Counting writers, and choosing a handle.                                *)

\* Sets of processes are finite, and grow and shrink by one.
LEMMA ProcSets ==
  ASSUME NEW S \in SUBSET Proc
  PROVE  /\ IsFiniteSet(S) /\ Cardinality(S) \in Nat
         /\ Cardinality(S) = 0 <=> S = {}
         /\ \A p : p \notin S => Cardinality(S \cup {p}) = Cardinality(S) + 1
         /\ \A p \in S : Cardinality(S \ {p}) = Cardinality(S) - 1
<1>1. IsFiniteSet(S)
  BY SegmentBounds, FS_Subset
<1> QED
  BY <1>1, FS_CardinalityType, FS_EmptySet, FS_AddElement, FS_RemoveElement

\* Handles has an element that no process has mapped.
LEMMA HandleFree ==
  ASSUME \/ gt.key \notin Handles
         \/ \E p \in Proc : lt[p].p = gt.key
  PROVE  FreeHandle \in Handles /\ FreeHandle # SHARED_INVALID
<1> DEFINE f == [ p \in Proc |-> lt[p].p ]
           Mine == { f[p] : p \in Proc }
<1>1. IsFiniteSet(Mine) /\ Cardinality(Mine) <= Cardinality(Proc)
  <2>1. IsFiniteSet(Proc)
    BY SegmentBounds
  <2>2. f \in Surjection(Proc, Mine)
    BY DEF Surjection
  <2> HIDE DEF f, Mine
  <2> QED
    BY <2>1, <2>2, FS_Surjection
<1>2. IsFiniteSet(Handles) /\ Cardinality(Handles) = Cardinality(Proc) + 1 /\ Cardinality(Proc) \in Nat
  BY ProcSets, FS_Interval DEF Handles
<1>3. PICK h \in Handles : h \notin Mine
  <2>1. CASE Handles \subseteq Mine
    <3>1. Cardinality(Handles) <= Cardinality(Mine) /\ Cardinality(Mine) \in Nat
      BY <1>1, <2>1, FS_Subset, FS_CardinalityType
    <3> QED
      BY <1>1, <1>2, <3>1
  <2> QED
    BY <2>1
<1>4. h # gt.key /\ \A p \in Proc : lt[p].p # h
  BY <1>3
<1>5. FreeHandle \in Handles
  BY <1>4 DEF FreeHandle
<1> QED
  BY <1>2, <1>5 DEF Handles, SHARED_INVALID

\* Who could have a write lock is alone with the segment.
LEMMA Alone ==
  ASSUME Inv, NEW p \in Proc, shared_mux(p, "write")
  PROVE  \A q \in Proc \ {p} : lock[q] = "none" /\ lt[q].lkcnt = 0
BY DEF shared_mux, Inv, ProcessOK

\* So is who has one.
LEMMA WriterAlone ==
  ASSUME Inv, NEW p \in Proc, lt[p].lkcnt = -1 \/ lock[p] = "write"
  PROVE  /\ lock[p] = "write"
         /\ \A q \in Proc \ {p} : lock[q] = "none" /\ lt[q].lkcnt = 0
BY DEF LocksOK, Inv, ProcessOK

\* The counts of writers before and after a step of one process.
LEMMA WritersAfter ==
  ASSUME Inv, TypeOK', NEW p \in Proc, \A q \in Proc \ {p} : lt'[q] = lt[q]
  PROVE  Cardinality(Writers') =
           Cardinality(Writers) + (IF lt'[p].lkcnt = -1 THEN 1 ELSE 0)
                                - (IF lt[p].lkcnt = -1 THEN 1 ELSE 0)
<1>1. Writers \in SUBSET Proc /\ Cardinality(Writers) \in Nat
  BY ProcSets DEF Writers
<1>2. CASE (lt'[p].lkcnt = -1) <=> (lt[p].lkcnt = -1)
  <2>1. Writers' = Writers
    BY <1>2 DEF Writers
  <2> QED
    BY <1>1, <1>2, <2>1
<1>3. CASE lt'[p].lkcnt = -1 /\ lt[p].lkcnt # -1
  <2>1. p \notin Writers /\ Writers' = Writers \cup {p}
    BY <1>3 DEF Writers
  <2> QED
    BY <1>1, <1>3, <2>1, ProcSets
<1>4. CASE lt'[p].lkcnt # -1 /\ lt[p].lkcnt = -1
  <2>1. p \in Writers /\ Writers' = Writers \ {p}
    BY <1>4 DEF Writers
  <2> QED
    BY <1>1, <1>4, <2>1, ProcSets
<1> QED
  BY <1>2, <1>3, <1>4

----------------------------------------------------------------------------
(* The sum of the semaphore: MapThenSumSet is a recursive function on the  *)
(* sets of processes, whose existence is shown by the size of the sets.    *)

\* The sets of at most n processes.
Upto(n) == { T \in SUBSET Proc : Cardinality(T) <= n }

\* One step of the sum.
SumBody(s, f, T) == IF T = {} THEN 0 ELSE LET x == CHOOSE x \in T : TRUE IN s[x] + f[T \ {x}]

LEMMA SumUnfold ==
  ASSUME NEW s
  PROVE  Total(s) =
           (CHOOSE f : f = [ T \in SUBSET Proc |-> SumBody(s, f, T) ])[Proc]
BY DEF Total, MapThenSumSet, MapThenFoldSet, SumBody

\* Induction on the natural numbers, as a fact about a set.
LEMMA SizeInduction ==
  ASSUME NEW S, 0 \in S, \A n \in Nat : n \in S => n + 1 \in S
  PROVE  \A n \in Nat : n \in S
<1> DEFINE T == { n \in Nat : n \notin S }
<1>1. SUFFICES ASSUME T # {}
               PROVE  FALSE
  OBVIOUS
<1>2. PICK x \in T : \A y \in T : ~ (<< y, x >> \in OpToRel(<, Nat))
  <2>1. T \subseteq Nat
    OBVIOUS
  <2> HIDE DEF T
  <2> QED
    BY <1>1, <2>1, NatLessThanWellFounded, WFMin
<1>3. x \in Nat \ {0} /\ x - 1 \in Nat /\ (x - 1) + 1 = x
  OBVIOUS
<1>4. x - 1 \in T
  BY <1>3
<1>5. << x - 1, x >> \in OpToRel(<, Nat)
  BY <1>3 DEF OpToRel
<1> QED
  BY <1>2, <1>4, <1>5

\* The set that is left when an element is taken out is smaller.
LEMMA SmallerSet ==
  ASSUME NEW n \in Nat, NEW T \in Upto(n + 1), T # {}
  PROVE  LET x == CHOOSE x \in T : TRUE IN x \in T /\ x \in Proc /\ T \ {x} \in Upto(n)
<1> DEFINE x == CHOOSE x \in T : TRUE
<1>1. x \in T /\ T \in SUBSET Proc /\ Cardinality(T) <= n + 1
  BY DEF Upto
<1> HIDE DEF x
<1>2. Cardinality(T \ {x}) = Cardinality(T) - 1 /\ Cardinality(T) \in Nat /\ x \in Proc
  BY <1>1, ProcSets
<1>3. T \ {x} \in Upto(n)
  BY <1>1, <1>2 DEF Upto
<1> QED
  BY <1>1, <1>2, <1>3 DEF x

\* The sets of processes by size.
LEMMA UptoSizes ==
  /\ Upto(0) = {{}}
  /\ \A n \in Nat : Upto(n) \subseteq Upto(n + 1)
  /\ Cardinality(Proc) \in Nat /\ Upto(Cardinality(Proc)) = SUBSET Proc
<1>1. \A T \in SUBSET Proc : Cardinality(T) <= 0 <=> T = {}
  BY ProcSets
<1>2. \A T \in SUBSET Proc : Cardinality(T) \in Nat
  BY ProcSets
<1>3. \A T \in SUBSET Proc : Cardinality(T) <= Cardinality(Proc)
  BY SegmentBounds, FS_Subset
<1> QED
  BY <1>1, <1>2, <1>3 DEF Upto

LEMMA SumExists ==
  ASSUME NEW s
  PROVE  \E f : f = [ T \in SUBSET Proc |-> SumBody(s, f, T) ]
<1> DEFINE S == { n \in Nat : \E f : f = [ T \in Upto(n) |-> SumBody(s, f, T) ] }
<1>1. 0 \in S
  <2> DEFINE f == [ T \in {{}} |-> 0 ]
  <2>1. f = [ T \in Upto(0) |-> SumBody(s, f, T) ]
    BY UptoSizes DEF SumBody
  <2> HIDE DEF f
  <2> QED
    BY <2>1
<1>2. ASSUME NEW n \in Nat, n \in S
      PROVE  n + 1 \in S
  <2>1. PICK f : f = [ T \in Upto(n) |-> SumBody(s, f, T) ]
    BY <1>2
  <2> DEFINE g == [ T \in Upto(n + 1) |-> SumBody(s, f, T) ]
  <2>2. \A T \in Upto(n) : g[T] = f[T]
    BY <2>1, UptoSizes
  <2>3. ASSUME NEW T \in Upto(n + 1)
        PROVE  SumBody(s, f, T) = SumBody(s, g, T)
    <3>1. CASE T = {}
      BY <3>1 DEF SumBody
    <3>2. CASE T # {}
      <4> DEFINE x == CHOOSE x \in T : TRUE
      <4>1. T \ {x} \in Upto(n)
        BY <3>2, SmallerSet
      <4>2. g[T \ {x}] = f[T \ {x}]
        BY <2>2, <4>1
      <4> HIDE DEF g
      <4> QED
        BY <4>2 DEF SumBody
    <3> QED
      BY <3>1, <3>2
  <2>4. g = [ T \in Upto(n + 1) |-> SumBody(s, g, T) ]
    BY <2>3
  <2> HIDE DEF g
  <2> QED
    BY <2>4
<1>3. Cardinality(Proc) \in S
  <2> HIDE DEF S
  <2> QED
    BY <1>1, <1>2, SizeInduction, UptoSizes
<1> QED
  BY <1>3, UptoSizes

\* A sum of natural numbers is no less than any of them.
LEMMA SumBounds ==
  ASSUME NEW s \in [ Proc -> Nat ], NEW p \in Proc
  PROVE  Total(s) \in Nat /\ s[p] <= Total(s)
<1> DEFINE f == CHOOSE f : f = [ T \in SUBSET Proc |-> SumBody(s, f, T) ]
           S == { n \in Nat : \A T \in Upto(n) : f[T] \in Nat /\ \A q \in T : s[q] <= f[T] }
<1>1. f = [ T \in SUBSET Proc |-> SumBody(s, f, T) ] /\ Total(s) = f[Proc]
  BY SumExists, SumUnfold
<1> HIDE DEF f
<1>2. f[{}] = 0
  BY <1>1 DEF SumBody
<1>3. 0 \in S
  BY <1>2, UptoSizes
<1>4. ASSUME NEW n \in Nat, n \in S
      PROVE  n + 1 \in S
  <2> SUFFICES ASSUME NEW T \in Upto(n + 1)
               PROVE  f[T] \in Nat /\ \A q \in T : s[q] <= f[T]
    OBVIOUS
  <2>1. CASE T = {}
    BY <1>2, <2>1
  <2>2. CASE T # {}
    <3> DEFINE x == CHOOSE x \in T : TRUE
    <3>1. x \in T /\ x \in Proc /\ T \ {x} \in Upto(n) /\ T \in SUBSET Proc
      BY <2>2, SmallerSet DEF Upto
    <3>2. f[T] = s[x] + f[T \ {x}]
      BY <1>1, <2>2, <3>1 DEF SumBody
    <3>3. f[T \ {x}] \in Nat /\ \A q \in T \ {x} : s[q] <= f[T \ {x}]
      BY <1>4, <3>1
    <3> HIDE DEF x
    <3>4. s[x] \in Nat /\ \A q \in T : s[q] \in Nat
      BY <3>1
    <3>5. f[T] \in Nat
      BY <3>2, <3>3, <3>4
    <3>6. ASSUME NEW q \in T
          PROVE  s[q] <= f[T]
      <4>1. CASE q = x
        BY <3>2, <3>3, <3>4, <4>1
      <4>2. CASE q # x
        <5>1. s[q] <= f[T \ {x}]
          BY <3>3, <4>2
        <5> QED
          BY <3>2, <3>3, <3>4, <5>1
      <4> QED
        BY <4>1, <4>2
    <3> QED
      BY <3>5, <3>6
  <2> QED
    BY <2>1, <2>2
<1>5. Cardinality(Proc) \in S
  <2> HIDE DEF S
  <2> QED
    BY <1>3, <1>4, SizeInduction, UptoSizes
<1>6. Proc \in Upto(Cardinality(Proc))
  BY UptoSizes
<1>7. f[Proc] \in Nat /\ \A q \in Proc : s[q] <= f[Proc]
  BY <1>5, <1>6
<1> QED
  BY <1>1, <1>7

\* The sum after one summand has changed.
LEMMA SumChange ==
  ASSUME NEW s \in [ Proc -> Int ], NEW t \in [ Proc -> Int ], NEW p \in Proc,
         \A q \in Proc \ {p} : t[q] = s[q]
  PROVE  Total(s) \in Int /\ Total(t) = Total(s) + t[p] - s[p]
<1> DEFINE f == CHOOSE f : f = [ T \in SUBSET Proc |-> SumBody(s, f, T) ]
           g == CHOOSE h : h = [ T \in SUBSET Proc |-> SumBody(t, h, T) ]
           More(T) == IF p \in T THEN t[p] - s[p] ELSE 0
           S == { n \in Nat : \A T \in Upto(n) : f[T] \in Int /\ g[T] = f[T] + More(T) }
<1>1. f = [ T \in SUBSET Proc |-> SumBody(s, f, T) ] /\ Total(s) = f[Proc]
  BY SumExists, SumUnfold
<1>2. g = [ T \in SUBSET Proc |-> SumBody(t, g, T) ] /\ Total(t) = g[Proc]
  BY SumExists, SumUnfold
<1> HIDE DEF f, g
<1>3. f[{}] = 0 /\ g[{}] = 0
  BY <1>1, <1>2 DEF SumBody
<1>4. 0 \in S
  <2>1. \A T \in Upto(0) : f[T] \in Int /\ g[T] = f[T] + More(T)
    <3>1. SUFFICES ASSUME NEW T \in Upto(0)
                   PROVE  f[T] \in Int /\ g[T] = f[T] + More(T)
      OBVIOUS
    <3>2. T = {} /\ More(T) = 0
      BY UptoSizes
    <3>3. f[T] = 0 /\ g[T] = 0
      BY <1>3, <3>2
    <3> HIDE DEF More
    <3> QED
      BY <3>2, <3>3
  <2> QED
    BY <2>1
<1>5. ASSUME NEW n \in Nat, n \in S
      PROVE  n + 1 \in S
  <2> SUFFICES ASSUME NEW T \in Upto(n + 1)
               PROVE  f[T] \in Int /\ g[T] = f[T] + More(T)
    OBVIOUS
  <2>1. CASE T = {}
    BY <1>3, <2>1
  <2>2. CASE T # {}
    <3> DEFINE x == CHOOSE x \in T : TRUE
    <3>1. x \in T /\ x \in Proc /\ T \ {x} \in Upto(n) /\ T \in SUBSET Proc
      BY <2>2, SmallerSet DEF Upto
    <3>2. f[T] = s[x] + f[T \ {x}] /\ g[T] = t[x] + g[T \ {x}]
      BY <1>1, <1>2, <2>2, <3>1 DEF SumBody
    <3>3. f[T \ {x}] \in Int /\ g[T \ {x}] = f[T \ {x}] + More(T \ {x})
      BY <1>5, <3>1
    <3> HIDE DEF x
    <3>4. s[x] \in Int /\ t[x] \in Int /\ s[p] \in Int /\ t[p] \in Int
      BY <3>1
    <3>5. CASE x = p
      BY <3>1, <3>2, <3>3, <3>4, <3>5
    <3>6. CASE x # p
      <4>1. t[x] = s[x] /\ More(T \ {x}) = More(T)
        BY <3>1, <3>6
      <4>2. More(T) \in Int
        BY <3>4
      <4> HIDE DEF More
      <4> QED
        BY <3>2, <3>3, <3>4, <4>1, <4>2
    <3> QED
      BY <3>5, <3>6
  <2> QED
    BY <2>1, <2>2
<1>6. Cardinality(Proc) \in S
  <2> HIDE DEF S
  <2> QED
    BY <1>4, <1>5, SizeInduction, UptoSizes
<1>7. Proc \in Upto(Cardinality(Proc))
  BY UptoSizes
<1>8. f[Proc] \in Int /\ g[Proc] = f[Proc] + More(Proc)
  BY <1>6, <1>7
<1>9. s[p] \in Int /\ t[p] \in Int
  OBVIOUS
<1> QED
  BY <1>1, <1>2, <1>8, <1>9

\* Nothing has been added to a new semaphore.
LEMMA SumNothing == Total(NoSem) = 0
<1> DEFINE f == CHOOSE f : f = [ T \in SUBSET Proc |-> SumBody(NoSem, f, T) ]
           S == { n \in Nat : \A T \in Upto(n) : f[T] = 0 }
<1>1. f = [ T \in SUBSET Proc |-> SumBody(NoSem, f, T) ] /\ Total(NoSem) = f[Proc]
  BY SumExists, SumUnfold
<1> HIDE DEF f
<1>2. 0 \in S
  BY <1>1, UptoSizes DEF SumBody
<1>3. ASSUME NEW n \in Nat, n \in S
      PROVE  n + 1 \in S
  <2> SUFFICES ASSUME NEW T \in Upto(n + 1)
               PROVE  f[T] = 0
    OBVIOUS
  <2>1. CASE T = {}
    BY <1>1, <2>1 DEF SumBody
  <2>2. CASE T # {}
    <3> DEFINE x == CHOOSE x \in T : TRUE
    <3>1. x \in Proc /\ T \ {x} \in Upto(n) /\ T \in SUBSET Proc
      BY <2>2, SmallerSet DEF Upto
    <3>2. f[T] = NoSem[x] + f[T \ {x}]
      BY <1>1, <2>2, <3>1 DEF SumBody
    <3>3. f[T \ {x}] = 0
      BY <1>3, <3>1
    <3> HIDE DEF x
    <3> QED
      BY <3>1, <3>2, <3>3 DEF NoSem
  <2> QED
    BY <2>1, <2>2
<1>4. Cardinality(Proc) \in S
  <2> HIDE DEF S
  <2> QED
    BY <1>2, <1>3, SizeInduction, UptoSizes
<1>5. Proc \in Upto(Cardinality(Proc))
  BY UptoSizes
<1> QED
  BY <1>1, <1>4, <1>5

----------------------------------------------------------------------------
(* The semaphore.                                                          *)

\* What the semaphore is, and that it is the sum of what processes added to it
\* and of what the kernel did not take.
Counted == /\ semval \in Nat /\ sem \in [ Proc -> Int ] /\ withheld \in Nat
           /\ semval = Total(sem) + withheld

LEMMA InvCounts == Inv => Counted
BY DEF Inv, TypeOK, Counted

LEMMA SameCount ==
  ASSUME Inv, UNCHANGED semaphore
  PROVE  Counted' /\ sem' = sem
BY DEF Inv, TypeOK, Counted, semaphore

LEMMA DeltaCount ==
  ASSUME Inv, NEW p \in Proc, NEW delta \in Int, shared_delta_process(p, delta)
  PROVE  /\ Counted' /\ sem'[p] = sem[p] + delta
         /\ \A q \in Proc \ {p} : sem'[q] = sem[q]
<1>1. /\ sem \in [ Proc -> Int ] /\ semval \in Nat /\ withheld \in Nat
      /\ semval = Total(sem) + withheld
  BY InvCounts DEF Counted
<1>2. /\ sem' \in [ Proc -> Int ] /\ sem'[p] = sem[p] + delta
      /\ \A q \in Proc \ {p} : sem'[q] = sem[q]
  BY <1>1 DEF shared_delta_process
<1>3. Total(sem) \in Int /\ Total(sem') = Total(sem) + sem'[p] - sem[p]
  BY <1>1, <1>2, SumChange
<1>4. semval' \in Nat /\ withheld' = withheld /\ semval' = semval + delta /\ sem[p] \in Int
  BY <1>1 DEF shared_delta_process
<1> QED
  BY <1>1, <1>2, <1>3, <1>4 DEF Counted

LEMMA NewCount ==
  ASSUME NEW p \in Proc, semval' = 1, sem' = [ NoSem EXCEPT ![p] = 1 ], withheld' = 0
  PROVE  Counted' /\ sem'[p] = 1 /\ \A q \in Proc \ {p} : sem'[q] = 0
<1>1. NoSem \in [ Proc -> Int ] /\ NoSem[p] = 0
  BY DEF NoSem
<1>2. sem' \in [ Proc -> Int ] /\ sem'[p] = 1 /\ \A q \in Proc \ {p} : sem'[q] = NoSem[q] /\ sem'[q] = 0
  BY DEF NoSem
<1>3. Total(sem') = Total(NoSem) + sem'[p] - NoSem[p]
  BY <1>1, <1>2, SumChange
<1> QED
  BY <1>1, <1>2, <1>3, SumNothing DEF Counted

LEMMA NoCount ==
  ASSUME semval' = 0, sem' = NoSem, withheld' = 0
  PROVE  Counted' /\ \A q \in Proc : sem'[q] = 0
BY SumNothing DEF Counted, NoSem

LEMMA UndoneCount ==
  ASSUME Inv, NEW p \in Proc, Undone(p)
  PROVE  Counted' /\ sem'[p] = 0 /\ \A q \in Proc \ {p} : sem'[q] = sem[q]
<1>1. /\ sem \in [ Proc -> Int ] /\ semval \in Nat /\ withheld \in Nat
      /\ semval = Total(sem) + withheld /\ sem[p] \in Int
  BY InvCounts DEF Counted
<1>2. /\ sem' \in [ Proc -> Int ] /\ sem'[p] = 0
      /\ \A q \in Proc \ {p} : sem'[q] = sem[q]
  BY <1>1 DEF Undone
<1>3. Total(sem) \in Int /\ Total(sem') = Total(sem) + sem'[p] - sem[p]
  BY <1>1, <1>2, SumChange
<1>4. /\ semval' = IF semval > sem[p] THEN semval - sem[p] ELSE 0
      /\ withheld' = withheld + (IF semval > sem[p] THEN 0 ELSE sem[p] - semval)
  BY DEF Undone
<1> QED
  BY <1>1, <1>2, <1>3, <1>4 DEF Counted

----------------------------------------------------------------------------
(* A step of one process leaves the others alone.                          *)

\* The others use the segment that they used.
LEMMA OthersKeep ==
  ASSUME Inv, NEW p \in Proc, gt'.key = gt.key, cut \ {p} \subseteq cut',
         NEW q \in Proc \ {p},
         lt'[q] = lt[q] /\ proc'[q] = proc[q] /\ lock'[q] = lock[q] /\ sem'[q] = sem[q]
  PROVE  ProcessOK(q)'
BY DEF Inv, ProcessOK

\* The others do not use the segment that was there.
LEMMA OthersLeft ==
  ASSUME Inv, NEW p \in Proc, NEW q \in Proc \ {p}, lt[q].lkcnt = 0,
         lt'[q] = lt[q] /\ proc'[q] = proc[q] /\ lock'[q] = lock[q],
         q \in cut' \/ sem'[q] = lt[q].tcnt,
         gt'.key = SHARED_INVALID => lt[q].tcnt = 0 \/ q \in cut'
  PROVE  ProcessOK(q)'
BY DEF Inv, ProcessOK

\* What remains to be seen of a step of process p.
LEMMA OneProcess ==
  ASSUME Inv, TypeOK', NEW p \in Proc,
         \A q \in Proc \ {p} : lt'[q] = lt[q] /\ lock'[q] = lock[q],
         lock'[p] \in { "none", lock[p] } \/ shared_mux(p, lock'[p]),
         Counted', ProcessOK(p)',
         \A q \in Proc \ {p} : ProcessOK(q)',
         gt'.nprocdebug = died' + Cardinality(Writers)
                            + (IF lt'[p].lkcnt = -1 THEN 1 ELSE 0)
                            - (IF lt[p].lkcnt = -1 THEN 1 ELSE 0),
         gt'.key = SHARED_INVALID => died' = 0
  PROVE  Inv'
<1>1. LocksOK'
  <2> SUFFICES ASSUME NEW q \in Proc, NEW r \in Proc, lock'[q] = "write", r # q
               PROVE  lock'[r] = "none"
    BY DEF LocksOK
  <2>1. CASE q = p
    BY <2>1 DEF Inv, LocksOK, shared_mux
  <2>2. CASE r = p
    BY <2>2 DEF Inv, LocksOK, shared_mux, TypeOK
  <2>3. CASE q # p /\ r # p
    BY <2>3 DEF Inv, LocksOK
  <2> QED
    BY <2>1, <2>2, <2>3
<1>2. gt'.nprocdebug = died' + Cardinality(Writers')
  <2>1. Cardinality(Writers) \in Nat /\ died' \in Nat
    BY ProcSets DEF Writers, TypeOK
  <2> QED
    BY <2>1, WritersAfter
<1> QED
  BY <1>1, <1>2 DEF Inv, Counted

\* The types of what a step of one process assigns.
LEMMA TypesOfOne ==
  ASSUME Inv, NEW p \in Proc, NEW t \in Tables, NEW l \in { "none", "read", "write" },
         NEW pc \in Steps, NEW mode \in Modes, NEW remove \in BOOLEAN
  PROVE  /\ [ lt EXCEPT ![p] = t ] \in [ Proc -> Tables ]
         /\ [ lock EXCEPT ![p] = l ] \in [ Proc -> { "none", "read", "write" } ]
         /\ [ proc EXCEPT ![p] = [ pc |-> pc, mode |-> mode, remove |-> remove ] ]
              \in [ Proc -> [ pc : Steps, mode : Modes, remove : BOOLEAN ] ]
<1>1. [ pc |-> pc, mode |-> mode, remove |-> remove ] \in [ pc : Steps, mode : Modes, remove : BOOLEAN ]
  BY Zenon
<1> QED
  BY <1>1 DEF Inv, TypeOK

Procs == [ pc : Steps, mode : Modes, remove : BOOLEAN ]

LEMMA EntryRecord ==
  ASSUME NEW key \in Handles \cup {SHARED_INVALID}, NEW n \in Int, NEW persist \in BOOLEAN
  PROVE  [ key |-> key, nprocdebug |-> n, persist |-> persist ] \in Entries
BY Zenon DEF Entries

\* Assignments to one field of the entry.
LEMMA SetEntry ==
  ASSUME NEW e \in Entries, NEW key \in Handles \cup {SHARED_INVALID}, NEW n \in Int,
         NEW persist \in BOOLEAN
  PROVE  /\ e.key \in Handles \cup {SHARED_INVALID} /\ e.nprocdebug \in Int /\ e.persist \in BOOLEAN
         /\ LET f == [ e EXCEPT !.key = key ]
            IN  f \in Entries /\ f.key = key /\ f.nprocdebug = e.nprocdebug
         /\ LET f == [ e EXCEPT !.nprocdebug = n ]
            IN  f \in Entries /\ f.key = e.key /\ f.nprocdebug = n
         /\ LET f == [ e EXCEPT !.persist = persist ]
            IN  f \in Entries /\ f.key = e.key /\ f.nprocdebug = e.nprocdebug
BY Zenon DEF Entries

\* Assignments to one field of the table of a process.
LEMMA SetTcnt ==
  ASSUME NEW f \in [ Proc -> Tables ], NEW p \in Proc, NEW n \in Nat,
         NEW g, g = [ f EXCEPT ![p].tcnt = n ]
  PROVE  /\ g \in [ Proc -> Tables ] /\ \A q \in Proc \ {p} : g[q] = f[q]
         /\ g[p].tcnt = n /\ g[p].p = f[p].p /\ g[p].lkcnt = f[p].lkcnt
BY DEF Tables

LEMMA SetP ==
  ASSUME NEW f \in [ Proc -> Tables ], NEW p \in Proc, NEW h \in Handles \cup {NULL},
         NEW g, g = [ f EXCEPT ![p].p = h ]
  PROVE  /\ g \in [ Proc -> Tables ] /\ \A q \in Proc \ {p} : g[q] = f[q]
         /\ g[p].p = h /\ g[p].tcnt = f[p].tcnt /\ g[p].lkcnt = f[p].lkcnt
BY DEF Tables

LEMMA SetLkcnt ==
  ASSUME NEW f \in [ Proc -> Tables ], NEW p \in Proc, NEW n \in -1 .. 1,
         NEW g, g = [ f EXCEPT ![p].lkcnt = n ]
  PROVE  /\ g \in [ Proc -> Tables ] /\ \A q \in Proc \ {p} : g[q] = f[q]
         /\ g[p].lkcnt = n /\ g[p].p = f[p].p /\ g[p].tcnt = f[p].tcnt
BY DEF Tables

LEMMA GoesTo ==
  ASSUME Inv, NEW p \in Proc, NEW pc \in Steps, Goes(p, pc)
  PROVE  /\ proc' \in [ Proc -> Procs ]
         /\ proc'[p].pc = pc /\ proc'[p].mode = proc[p].mode /\ proc'[p].remove = proc[p].remove
         /\ \A q \in Proc \ {p} : proc'[q] = proc[q]
<1>1. proc \in [ Proc -> Procs ]
  BY DEF Inv, TypeOK, Procs
<1>2. [ proc[p] EXCEPT !.pc = pc ] \in Procs
  BY <1>1, Zenon DEF Procs
<1>3. proc' = [ proc EXCEPT ![p] = [ @ EXCEPT !.pc = pc ] ]
  BY DEF Goes
<1> QED
  BY <1>1, <1>2, <1>3 DEF Procs

LEMMA GoesIdle ==
  ASSUME Inv, NEW p \in Proc, proc' = [ proc EXCEPT ![p] = Idle ]
  PROVE  /\ proc' \in [ Proc -> Procs ]
         /\ proc'[p].pc = "idle"
         /\ \A q \in Proc \ {p} : proc'[q] = proc[q]
<1>1. Idle \in Procs
  BY Zenon DEF Idle, Procs, Steps, Modes
<1>2. proc \in [ Proc -> Procs ] /\ Idle.pc = "idle"
  BY DEF Inv, TypeOK, Procs, Idle
<1> QED
  BY <1>1, <1>2

\* shared_demux gives no lock to anybody.
LEMMA Demuxed ==
  ASSUME Inv, NEW p \in Proc, shared_demux(p)
  PROVE  /\ lock' \in [ Proc -> { "none", "read", "write" } ]
         /\ lock'[p] = "none" /\ \A q \in Proc \ {p} : lock'[q] = lock[q]
BY DEF shared_demux, Inv, TypeOK

----------------------------------------------------------------------------
(* The steps of Next.                                                      *)

LEMMA CallOpenStep ==
  ASSUME Inv, NEW p \in Proc, NEW mode \in Modes, NEW remove \in BOOLEAN, CallOpen(p, mode, remove)
  PROVE  Inv'
<1>1. /\ proc[p].pc = "idle" /\ UNCHANGED << gt, headed, lock, lt, died, cut >>
      /\ Counted' /\ sem' = sem
  BY SameCount DEF CallOpen
<1>2. proc' \in [ Proc -> Procs ] /\ proc'[p].pc = "opening" /\ \A q \in Proc \ {p} : proc'[q] = proc[q]
  <2> DEFINE r == [ pc |-> "opening", mode |-> mode, remove |-> remove ]
  <2>1. r \in Procs /\ r.pc = "opening" /\ proc \in [ Proc -> Procs ] /\ proc' = [ proc EXCEPT ![p] = r ]
    BY Zenon DEF CallOpen, Inv, TypeOK, Procs, Steps
  <2> QED
    BY <2>1
<1>3. TypeOK'
  BY <1>1, <1>2 DEF Inv, TypeOK, Procs, Counted
<1>4. ProcessOK(p)'
  BY <1>1, <1>2 DEF Inv, ProcessOK
<1>5. \A q \in Proc \ {p} : ProcessOK(q)'
  BY <1>1, <1>2, OthersKeep
<1>6. lt[p].lkcnt = 0 /\ Cardinality(Writers) \in Nat
  BY <1>1, ProcSets DEF Inv, ProcessOK, Writers
<1> QED
  BY <1>1, <1>3, <1>4, <1>5, <1>6, OneProcess DEF Inv, TypeOK, Entries

LEMMA MallocStep ==
  ASSUME Inv, NEW p \in Proc, shared_malloc(p)
  PROVE  Inv'
<1>1. /\ proc[p].pc = "idle" /\ lt[p].tcnt = 0 /\ shared_mux(p, "write")
      /\ gt.key = SHARED_INVALID /\ died' = died /\ cut' = cut
      /\ gt' = [ key |-> FreeHandle, nprocdebug |-> 0, persist |-> TRUE ]
      /\ headed' = headed \ { FreeHandle }
      /\ semval' = 1 /\ sem' = [ NoSem EXCEPT ![p] = 1 ] /\ withheld' = 0
  BY DEF shared_malloc
<1>2. FreeHandle \in Handles /\ FreeHandle # SHARED_INVALID
  <2>1. SHARED_INVALID \notin Handles
    BY DEF SHARED_INVALID, Handles
  <2> QED
    BY <1>1, <2>1, HandleFree
<1>3. gt' \in Entries /\ gt'.key = FreeHandle /\ gt'.nprocdebug = 0
  <2>1. 0 \in Int
    OBVIOUS
  <2>2. [ key |-> FreeHandle, nprocdebug |-> 0, persist |-> TRUE ] \in Entries
    BY <1>2, <2>1, EntryRecord, Zenon
  <2> QED
    BY <1>1, <2>2
<1>4. /\ lt' \in [ Proc -> Tables ]
      /\ lt'[p].tcnt = 1 /\ lt'[p].lkcnt = 0 /\ lt'[p].p = NULL
      /\ \A q \in Proc \ {p} : lt'[q] = lt[q]
  <2> DEFINE t == [ NoTable EXCEPT !.tcnt = 1 ]
  <2>1. t \in Tables /\ t.tcnt = 1 /\ t.lkcnt = 0 /\ t.p = NULL
    BY DEF Tables, NoTable
  <2> HIDE DEF t
  <2>2. lt' = [ lt EXCEPT ![p] = t ] /\ lt \in [ Proc -> Tables ]
    BY DEF shared_malloc, Inv, TypeOK, t
  <2> QED
    BY <2>1, <2>2
<1>5. /\ proc' \in [ Proc -> Procs ]
      /\ proc'[p].pc = "created" /\ proc'[p].mode = "write"
      /\ \A q \in Proc \ {p} : proc'[q] = proc[q]
  <2> DEFINE r == [ pc |-> "created", mode |-> "write", remove |-> FALSE ]
  <2>1. r \in Procs /\ r.pc = "created" /\ r.mode = "write"
    BY Zenon DEF Procs, Steps, Modes
  <2>2. proc \in [ Proc -> Procs ] /\ proc' = [ proc EXCEPT ![p] = r ]
    BY DEF shared_malloc, Inv, TypeOK, Procs
  <2> HIDE DEF r
  <2> QED
    BY <2>1, <2>2
<1>6. Counted' /\ sem'[p] = 1 /\ \A q \in Proc \ {p} : sem'[q] = 0
  BY <1>1, NewCount
<1>7. lock' \in [ Proc -> { "none", "read", "write" } ] /\ lock'[p] = "none"
      /\ \A q \in Proc \ {p} : lock'[q] = lock[q]
  BY Demuxed DEF shared_malloc
<1>8. TypeOK'
  BY <1>1, <1>2, <1>3, <1>4, <1>5, <1>6, <1>7 DEF Inv, TypeOK, Procs, Counted
<1>9. ProcessOK(p)'
  BY <1>4, <1>5, <1>6, <1>2, <1>3 DEF ProcessOK
<1>10. \A q \in Proc \ {p} : lt[q].lkcnt = 0 /\ (lt[q].tcnt = 0 \/ q \in cut)
  BY <1>1, Alone DEF Inv, ProcessOK
<1>11. \A q \in Proc \ {p} : ProcessOK(q)'
  BY <1>1, <1>2, <1>3, <1>4, <1>5, <1>6, <1>7, <1>10, OthersLeft
<1>12. lt[p].lkcnt = 0 /\ Cardinality(Writers) = 0 /\ died = 0
  <2>1. lt[p].lkcnt = 0 /\ died = 0
    BY <1>1 DEF Inv, ProcessOK
  <2>2. Writers = {}
    BY <1>10, <2>1 DEF Writers
  <2> QED
    BY <2>1, <2>2, ProcSets
<1> QED
  BY <1>1, <1>2, <1>3, <1>4, <1>6, <1>7, <1>8, <1>9, <1>11, <1>12, OneProcess

LEMMA AttachStep ==
  ASSUME Inv, NEW p \in Proc, shared_attach(p)
  PROVE  Inv'
<1>1. /\ proc[p].pc = "opening" /\ shared_demux(p)
      /\ gt' = gt /\ headed' = headed /\ died' = died /\ cut' = cut
  BY DEF shared_attach
<1>2. lock' \in [ Proc -> { "none", "read", "write" } ] /\ lock'[p] = "none"
      /\ \A q \in Proc \ {p} : lock'[q] = lock[q]
  BY <1>1, Demuxed
<1>3. /\ lt \in [ Proc -> Tables ] /\ sem \in [ Proc -> Int ] /\ lt[p].lkcnt = 0 /\ lt[p] \in Tables
      /\ Cardinality(Writers) \in Nat /\ gt.nprocdebug \in Int /\ died \in Nat
      /\ gt.nprocdebug = died + Cardinality(Writers) /\ (gt.key = SHARED_INVALID => died = 0)
  BY <1>1, ProcSets DEF Inv, TypeOK, ProcessOK, Entries, Writers
<1>4. CASE gt.key = SHARED_INVALID
  <2>1. proc' \in [ Proc -> Procs ] /\ proc'[p].pc = "idle" /\ \A q \in Proc \ {p} : proc'[q] = proc[q]
    BY <1>4, GoesIdle DEF shared_attach
  <2>2. Counted' /\ sem' = sem /\ lt' = lt
    BY <1>4, SameCount DEF shared_attach
  <2>3. TypeOK'
    BY <1>1, <1>2, <2>1, <2>2 DEF Inv, TypeOK, Procs, Counted
  <2>4. ProcessOK(p)'
    BY <1>1, <1>3, <2>1, <2>2 DEF Inv, ProcessOK
  <2>5. \A q \in Proc \ {p} : ProcessOK(q)'
    BY <1>1, <1>2, <2>1, <2>2, OthersKeep
  <2> QED
    BY <1>1, <1>2, <1>3, <2>2, <2>3, <2>4, <2>5, OneProcess
<1>5. CASE gt.key # SHARED_INVALID
  <2>1. proc' \in [ Proc -> Procs ] /\ proc'[p].pc = "attached" /\ \A q \in Proc \ {p} : proc'[q] = proc[q]
    BY <1>5, GoesTo DEF shared_attach, Steps
  <2>2. Counted' /\ sem'[p] = sem[p] + 1 /\ \A q \in Proc \ {p} : sem'[q] = sem[q]
    BY <1>5, DeltaCount DEF shared_attach
  <2>3. /\ lt' \in [ Proc -> Tables ]
        /\ lt'[p].tcnt = lt[p].tcnt + 1 /\ lt'[p].lkcnt = 0 /\ lt'[p].p = NULL
        /\ \A q \in Proc \ {p} : lt'[q] = lt[q]
    <3> DEFINE f == [ lt EXCEPT ![p].tcnt = lt[p].tcnt + 1 ]
    <3>1. /\ f \in [ Proc -> Tables ] /\ \A q \in Proc \ {p} : f[q] = lt[q]
          /\ f[p].tcnt = lt[p].tcnt + 1 /\ f[p].lkcnt = lt[p].lkcnt
      BY <1>3, SetTcnt DEF Tables
    <3>2. lt' = [ f EXCEPT ![p].p = NULL ]
      BY <1>5 DEF shared_attach
    <3>3. NULL \in Handles \cup {NULL}
      OBVIOUS
    <3> HIDE DEF f
    <3>4. /\ lt' \in [ Proc -> Tables ] /\ \A q \in Proc \ {p} : lt'[q] = f[q]
          /\ lt'[p].p = NULL /\ lt'[p].tcnt = f[p].tcnt /\ lt'[p].lkcnt = f[p].lkcnt
      BY <3>1, <3>2, <3>3, SetP
    <3> QED
      BY <1>3, <3>1, <3>4
  <2>4. TypeOK'
    BY <1>1, <1>2, <2>1, <2>2, <2>3 DEF Inv, TypeOK, Procs, Counted
  <2>5. ProcessOK(p)'
    BY <1>1, <1>3, <1>5, <2>1, <2>2, <2>3 DEF Inv, ProcessOK, Tables
  <2>6. \A q \in Proc \ {p} : ProcessOK(q)'
    BY <1>1, <1>2, <2>1, <2>2, <2>3, OthersKeep
  <2> QED
    BY <1>1, <1>2, <1>3, <2>2, <2>3, <2>4, <2>5, <2>6, OneProcess
<1> QED
  BY <1>4, <1>5

LEMMA LockStep ==
  ASSUME Inv, NEW p \in Proc, shared_lock(p)
  PROVE  Inv'
<1> DEFINE mode == proc[p].mode
<1>1. /\ proc[p].pc \in { "created", "attached", "relocking" } /\ shared_mux(p, mode)
      /\ Counted' /\ sem' = sem /\ died' = died /\ cut' = cut
  BY SameCount DEF shared_lock
<1>2. /\ lt \in [ Proc -> Tables ] /\ sem \in [ Proc -> Int ] /\ lt[p].lkcnt = 0 /\ lt[p] \in Tables
      /\ lt[p].p = NULL /\ lt[p].tcnt > 0 /\ mode \in { "write", "read" } /\ gt \in Entries
      /\ Cardinality(Writers) \in Nat /\ gt.nprocdebug \in Int /\ died \in Nat
      /\ gt.nprocdebug = died + Cardinality(Writers) /\ (gt.key = SHARED_INVALID => died = 0)
      /\ gt.key \in Handles \cup {SHARED_INVALID}
  BY <1>1, ProcSets DEF Inv, TypeOK, ProcessOK, Entries, Writers, Modes
<1>3. CASE ~ Mappable(p)
  <2>1. /\ gt' = gt /\ headed' = headed /\ lt' = lt /\ shared_demux(p)
        /\ proc' = [ proc EXCEPT ![p] = IF @.pc = "relocking" THEN Idle ELSE [ @ EXCEPT !.pc = "refused" ] ]
    BY <1>3 DEF shared_lock, NotLocked
  <2>2. /\ proc' \in [ Proc -> Procs ] /\ proc'[p].pc \in { "idle", "refused" }
        /\ \A q \in Proc \ {p} : proc'[q] = proc[q]
    <3>1. CASE proc[p].pc = "relocking"
      <4>1. proc' = [ proc EXCEPT ![p] = Idle ]
        BY <2>1, <3>1
      <4> QED
        BY <4>1, GoesIdle
    <3>2. CASE proc[p].pc # "relocking"
      <4>1. Goes(p, "refused")
        BY <2>1, <3>2 DEF Goes
      <4> QED
        BY <4>1, GoesTo DEF Steps
    <3> QED
      BY <3>1, <3>2
  <2>3. lock' \in [ Proc -> { "none", "read", "write" } ] /\ lock'[p] = "none"
        /\ \A q \in Proc \ {p} : lock'[q] = lock[q]
    BY <2>1, Demuxed
  <2>4. TypeOK'
    BY <1>1, <2>1, <2>2, <2>3 DEF Inv, TypeOK, Procs, Counted
  <2>5. ProcessOK(p)'
    BY <1>1, <1>2, <2>1, <2>2 DEF Inv, ProcessOK
  <2>6. \A q \in Proc \ {p} : ProcessOK(q)'
    BY <1>1, <2>1, <2>2, <2>3, OthersKeep
  <2> QED
    BY <1>1, <1>2, <2>1, <2>3, <2>4, <2>5, <2>6, OneProcess
<1>4. CASE Mappable(p)
  <2>1. Locks(p) /\ Mapped(p) = gt.key /\ gt.key # SHARED_INVALID
    BY <1>2, <1>4 DEF shared_lock, Mappable, Mapped
  <2> DEFINE n == IF mode = "write" THEN -1 ELSE 1
             k == IF mode = "write" THEN gt.nprocdebug + 1 ELSE gt.nprocdebug
  <2>2. /\ lt' \in [ Proc -> Tables ] /\ \A q \in Proc \ {p} : lt'[q] = lt[q]
        /\ lt'[p].p = gt.key /\ lt'[p].tcnt = lt[p].tcnt /\ lt'[p].lkcnt = n
    <3>0. PICK f : f = [ lt EXCEPT ![p].p = gt.key ]
      OBVIOUS
    <3>1. /\ f \in [ Proc -> Tables ] /\ \A q \in Proc \ {p} : f[q] = lt[q]
          /\ f[p].p = gt.key /\ f[p].tcnt = lt[p].tcnt /\ f[p].lkcnt = lt[p].lkcnt
      <4>1. gt.key \in Handles \cup {NULL}
        BY <1>2 DEF NULL, SHARED_INVALID
      <4>2. lt \in [ Proc -> Tables ]
        BY <1>2
      <4> HIDE DEF mode, n, k
      <4> QED
        BY <3>0, <4>1, <4>2 DEF Tables
    <3>2. lt' = [ f EXCEPT ![p].lkcnt = IF mode = "write" THEN -1 ELSE f[p].lkcnt + 1 ]
      BY <2>1, <3>0 DEF Locks
    <3> HIDE DEF mode
    <3>3. lt' = [ f EXCEPT ![p].lkcnt = n ] /\ n \in -1 .. 1
      BY <1>2, <3>1, <3>2
    <3> HIDE DEF n
    <3>4. /\ lt' \in [ Proc -> Tables ] /\ \A q \in Proc \ {p} : lt'[q] = f[q]
          /\ lt'[p].lkcnt = n /\ lt'[p].tcnt = f[p].tcnt /\ lt'[p].p = f[p].p
      BY <3>1, <3>3, SetLkcnt
    <3> QED
      BY <3>1, <3>4
  <2>3. gt' \in Entries /\ gt'.key = gt.key /\ gt'.nprocdebug = k
    <3>1. gt' = [ gt EXCEPT !.nprocdebug = k ] /\ k \in Int
      BY <1>2, <2>1 DEF Locks
    <3>2. gt.key \in Handles \cup {SHARED_INVALID} /\ TRUE \in BOOLEAN
      BY <1>2
    <3> HIDE DEF k
    <3> QED
      BY <1>2, <3>1, <3>2 DEF Entries
  <2>4. lock' \in [ Proc -> { "none", "read", "write" } ] /\ lock'[p] = mode
        /\ \A q \in Proc \ {p} : lock'[q] = lock[q]
    BY <1>2, <2>1 DEF Locks, Inv, TypeOK
  <2>5. /\ proc' \in [ Proc -> Procs ] /\ proc'[p].pc \in { "open", "unopened" } /\ proc'[p].mode = mode
        /\ \A q \in Proc \ {p} : proc'[q] = proc[q]
    <3>1. PICK pc \in { "open", "unopened" } : Goes(p, pc)
      BY <2>1 DEF Locks
    <3> QED
      BY <3>1, GoesTo DEF Steps
  <2>6. headed' \subseteq Handles
    BY <1>2, <2>1 DEF Locks, Inv, TypeOK
  <2> HIDE DEF mode
  <2>7. TypeOK'
    BY <1>1, <2>2, <2>3, <2>4, <2>5, <2>6 DEF Inv, TypeOK, Procs, Counted
  <2>8. ProcessOK(p)'
    BY <1>1, <1>2, <2>1, <2>2, <2>3, <2>4, <2>5 DEF Inv, ProcessOK
  <2>9. \A q \in Proc \ {p} : ProcessOK(q)'
    BY <1>1, <2>2, <2>3, <2>4, <2>5, OthersKeep
  <2>10. gt'.nprocdebug = died' + Cardinality(Writers) + (IF lt'[p].lkcnt = -1 THEN 1 ELSE 0)
                            - (IF lt[p].lkcnt = -1 THEN 1 ELSE 0)
    BY <1>1, <1>2, <2>2, <2>3
  <2> QED
    BY <1>1, <1>2, <2>1, <2>2, <2>3, <2>4, <2>7, <2>8, <2>9, <2>10, OneProcess
<1> QED
  BY <1>3, <1>4

LEMMA ReallocStep ==
  ASSUME Inv, NEW p \in Proc, shared_realloc(p)
  PROVE  Inv'
<1>1. /\ proc[p].pc = "open" /\ lt[p].lkcnt = -1
      /\ Counted' /\ sem' = sem /\ lock' = lock /\ proc' = proc /\ died' = died /\ cut' = cut
      /\ gt' = [ gt EXCEPT !.key = FreeHandle ] /\ lt' = [ lt EXCEPT ![p].p = FreeHandle ]
      /\ (headed' = headed \cup { FreeHandle } \/ headed' = headed \ { FreeHandle })
  BY SameCount DEF shared_realloc
<1>2. FreeHandle \in Handles /\ FreeHandle # SHARED_INVALID
  <2>1. lt[p].p = gt.key
    BY <1>1 DEF Inv, ProcessOK
  <2> QED
    BY <2>1, HandleFree
<1>3. gt' \in Entries /\ gt'.key = FreeHandle /\ gt'.nprocdebug = gt.nprocdebug
  <2>1. gt \in Entries /\ FreeHandle \in Handles \cup {SHARED_INVALID} /\ 0 \in Int /\ TRUE \in BOOLEAN
    BY <1>2 DEF Inv, TypeOK
  <2> QED
    BY <1>1, <2>1, SetEntry
<1>4. /\ lt' \in [ Proc -> Tables ] /\ \A q \in Proc \ {p} : lt'[q] = lt[q]
      /\ lt'[p].p = FreeHandle /\ lt'[p].tcnt = lt[p].tcnt /\ lt'[p].lkcnt = lt[p].lkcnt
  <2>1. lt \in [ Proc -> Tables ] /\ FreeHandle \in Handles \cup {NULL}
    BY <1>2 DEF Inv, TypeOK
  <2> QED
    BY <1>1, <2>1 DEF Tables
<1>5. TypeOK'
  BY <1>1, <1>2, <1>3, <1>4 DEF Inv, TypeOK, Counted
<1>6. ProcessOK(p)'
  BY <1>1, <1>2, <1>3, <1>4 DEF Inv, ProcessOK
<1>7. \A q \in Proc \ {p} : lt[q].lkcnt = 0 /\ (q \in cut \/ sem[q] = lt[q].tcnt)
  BY <1>1, WriterAlone DEF Inv, ProcessOK
<1>8. \A q \in Proc \ {p} : ProcessOK(q)'
  BY <1>1, <1>2, <1>3, <1>4, <1>7, OthersLeft
<1>9. /\ gt.nprocdebug = died + Cardinality(Writers) /\ died \in Nat /\ Cardinality(Writers) \in Nat
  BY ProcSets DEF Inv, TypeOK, Writers
<1> QED
  BY <1>1, <1>2, <1>3, <1>4, <1>5, <1>6, <1>8, <1>9, OneProcess

\* shared_unlock by one who has the segment locked.
LEMMA Unlocked ==
  ASSUME Inv, NEW p \in Proc, NEW persist \in BOOLEAN, shared_unlock(p, persist),
         proc[p].pc \in { "open", "unopened" }, NEW pc \in { "unlocked", "relocking" },
         proc' \in [ Proc -> Procs ], proc'[p].pc = pc,
         \A q \in Proc \ {p} : proc'[q] = proc[q],
         UNCHANGED << headed, semaphore, died, cut >>
  PROVE  Inv'
<1>0. Counted' /\ sem' = sem
  BY SameCount
<1> DEFINE n == IF lt[p].lkcnt > 0 THEN gt.nprocdebug ELSE gt.nprocdebug - 1
<1>1. /\ lt \in [ Proc -> Tables ] /\ gt \in Entries /\ lt[p].tcnt > 0 /\ lt[p].lkcnt \in { -1, 1 }
      /\ gt.nprocdebug = died + Cardinality(Writers) /\ died \in Nat /\ Cardinality(Writers) \in Nat
      /\ gt.nprocdebug \in Int /\ gt.key \in Handles \cup {SHARED_INVALID}
  BY ProcSets DEF Inv, TypeOK, ProcessOK, Writers, Entries
<1>2. /\ lt' \in [ Proc -> Tables ] /\ \A q \in Proc \ {p} : lt'[q] = lt[q]
      /\ lt'[p].p = NULL /\ lt'[p].tcnt = lt[p].tcnt /\ lt'[p].lkcnt = 0
  <2>1. PICK f : f = [ lt EXCEPT ![p].lkcnt = 0 ]
    OBVIOUS
  <2>2. lt' = [ f EXCEPT ![p].p = NULL ]
    <3>1. (IF lt[p].lkcnt > 0 THEN lt[p].lkcnt - 1 ELSE 0) = 0
      BY <1>1
    <3>2. lt' = [ lt EXCEPT ![p].lkcnt = 0, ![p].p = NULL ]
      BY <3>1 DEF shared_unlock
    <3> QED
      BY <2>1, <3>2
  <2>3. /\ f \in [ Proc -> Tables ] /\ \A q \in Proc \ {p} : f[q] = lt[q]
        /\ f[p].lkcnt = 0 /\ f[p].tcnt = lt[p].tcnt
    <3>1. 0 \in -1 .. 1
      OBVIOUS
    <3> QED
      BY <1>1, <2>1, <3>1, SetLkcnt
  <2>4. NULL \in Handles \cup {NULL}
    OBVIOUS
  <2>5. /\ lt' \in [ Proc -> Tables ] /\ \A q \in Proc \ {p} : lt'[q] = f[q]
        /\ lt'[p].p = NULL /\ lt'[p].tcnt = f[p].tcnt /\ lt'[p].lkcnt = f[p].lkcnt
    BY <2>2, <2>3, <2>4 DEF Tables
  <2> QED
    BY <2>3, <2>5
<1>3. gt' \in Entries /\ gt'.key = gt.key /\ gt'.nprocdebug = n
  <2>1. n \in Int
    BY <1>1
  <2>2. PICK e : e = [ gt EXCEPT !.persist = persist ]
    OBVIOUS
  <2>3. e \in Entries /\ e.key = gt.key /\ e.nprocdebug = gt.nprocdebug
    BY <1>1, <2>1, <2>2, SetEntry
  <2>4. gt' = [ e EXCEPT !.nprocdebug = n ]
    BY <2>2 DEF shared_unlock
  <2> HIDE DEF n
  <2> QED
    BY <1>1, <2>1, <2>3, <2>4, SetEntry
<1>4. lock' \in [ Proc -> { "none", "read", "write" } ] /\ lock'[p] = "none"
      /\ \A q \in Proc \ {p} : lock'[q] = lock[q]
  BY Demuxed DEF shared_unlock
<1>5. TypeOK'
  BY <1>0, <1>2, <1>3, <1>4 DEF Inv, TypeOK, Procs, Counted
<1>6. ProcessOK(p)'
  BY <1>0, <1>1, <1>2, <1>3 DEF Inv, ProcessOK
<1>7. \A q \in Proc \ {p} : ProcessOK(q)'
  BY <1>0, <1>2, <1>3, <1>4, OthersKeep
<1>8. gt'.nprocdebug = died' + Cardinality(Writers) + (IF lt'[p].lkcnt = -1 THEN 1 ELSE 0)
                          - (IF lt[p].lkcnt = -1 THEN 1 ELSE 0)
  BY <1>1, <1>2, <1>3
<1>9. gt'.key = SHARED_INVALID => died' = 0
  BY <1>3 DEF Inv
<1> QED
  BY <1>0, <1>2, <1>4, <1>5, <1>6, <1>7, <1>8, <1>9, OneProcess

LEMMA UnlockSteps ==
  ASSUME Inv, NEW p \in Proc, Close(p) \/ RemoveLocked(p) \/ RemoveOpen(p)
  PROVE  Inv'
<1>1. gt.persist \in BOOLEAN /\ FALSE \in BOOLEAN
  BY Zenon DEF Inv, TypeOK, Entries
<1>2. CASE Close(p) \/ RemoveLocked(p)
  <2>1. /\ proc[p].pc \in { "open", "unopened" } /\ Goes(p, "unlocked")
        /\ UNCHANGED << headed, semaphore, died, cut >>
        /\ shared_unlock(p, gt.persist) \/ shared_unlock(p, FALSE)
    BY <1>2 DEF Close, RemoveLocked
  <2>2. /\ proc' \in [ Proc -> Procs ] /\ proc'[p].pc = "unlocked"
        /\ \A q \in Proc \ {p} : proc'[q] = proc[q]
    BY <2>1, GoesTo DEF Steps
  <2> QED
    BY <1>1, <2>1, <2>2, Unlocked
<1>3. CASE RemoveOpen(p)
  <2> DEFINE r == [ pc |-> "relocking", mode |-> "write", remove |-> TRUE ]
  <2>1. r \in Procs /\ r.pc = "relocking"
    BY Zenon DEF Procs, Steps, Modes
  <2>2. proc \in [ Proc -> Procs ] /\ proc' = [ proc EXCEPT ![p] = r ]
    BY <1>3 DEF RemoveOpen, Inv, TypeOK, Procs
  <2> HIDE DEF r
  <2>3. /\ proc' \in [ Proc -> Procs ] /\ proc'[p].pc = "relocking"
        /\ \A q \in Proc \ {p} : proc'[q] = proc[q]
    BY <2>1, <2>2
  <2> QED
    BY <1>1, <1>3, <2>3, Unlocked DEF RemoveOpen
<1> QED
  BY <1>2, <1>3

\* The process that destroys the segment leaves it, and no other has it locked.
LEMMA Destroyed ==
  ASSUME Inv, NEW p \in Proc, shared_destroy_entry(p), shared_demux(p), headed' = headed,
         \A q \in Proc \ {p} : lt[q].lkcnt = 0,
         lt' \in [ Proc -> Tables ], lt'[p].tcnt = 0, lt'[p].lkcnt = 0,
         \A q \in Proc \ {p} : lt'[q] = lt[q],
         proc' \in [ Proc -> Procs ], proc'[p].pc = "idle",
         \A q \in Proc \ {p} : proc'[q] = proc[q]
  PROVE  Inv'
<1>1. /\ gt' = shared_clear_entry /\ died' = 0
      /\ semval' = 0 /\ sem' = NoSem /\ withheld' = 0
      /\ cut' = { q \in Proc \ {p} : lt[q].tcnt > 0 }
  BY DEF shared_destroy_entry
<1>2. gt' \in Entries /\ gt'.key = SHARED_INVALID /\ gt'.nprocdebug = 0
  <2>1. 0 \in Int /\ FALSE \in BOOLEAN /\ SHARED_INVALID \in Handles \cup {SHARED_INVALID}
    OBVIOUS
  <2>2. shared_clear_entry \in Entries
    BY <2>1, EntryRecord, Zenon DEF shared_clear_entry
  <2> QED
    BY <1>1, <2>2 DEF shared_clear_entry
<1>3. lock' \in [ Proc -> { "none", "read", "write" } ] /\ lock'[p] = "none"
      /\ \A q \in Proc \ {p} : lock'[q] = lock[q]
  BY Demuxed
<1>4. Counted' /\ \A q \in Proc : sem'[q] = 0
  BY <1>1, NoCount
<1>5. TypeOK'
  BY <1>1, <1>2, <1>3, <1>4 DEF Inv, TypeOK, Procs, Counted
<1>6. ProcessOK(p)'
  BY <1>2, <1>4 DEF ProcessOK
<1>7. \A q \in Proc \ {p} : lt[q].tcnt = 0 \/ q \in cut'
  <2>1. \A q \in Proc : lt[q].tcnt \in Nat
    BY DEF Inv, TypeOK, Tables
  <2> QED
    BY <1>1, <2>1
<1>8. \A q \in Proc \ {p} : ProcessOK(q)'
  BY <1>2, <1>3, <1>4, <1>7, OthersLeft
<1>9. /\ Cardinality(Writers) = IF lt[p].lkcnt = -1 THEN 1 ELSE 0
  <2>1. Writers = IF lt[p].lkcnt = -1 THEN {p} ELSE {}
    BY DEF Writers
  <2> QED
    BY <2>1, FS_Singleton, FS_EmptySet
<1> QED
  BY <1>1, <1>2, <1>3, <1>4, <1>5, <1>6, <1>8, <1>9, OneProcess

LEMMA FreeStep ==
  ASSUME Inv, NEW p \in Proc, shared_free(p)
  PROVE  Inv'
<1>1. /\ proc[p].pc \in { "unlocked", "refused", "blocked" } /\ shared_mux(p, "write")
      /\ headed' = headed
  BY DEF shared_free
<1>2. /\ lt \in [ Proc -> Tables ] /\ gt \in Entries /\ lt[p].tcnt > 0 /\ lt[p].tcnt \in Nat
      /\ lt[p].lkcnt = 0 /\ sem \in [ Proc -> Int ] /\ Mapped(p) \in Handles \cup {NULL}
      /\ gt.nprocdebug = died + Cardinality(Writers) /\ died \in Nat /\ Cardinality(Writers) \in Nat
      /\ (gt.key = SHARED_INVALID => died = 0)
  BY <1>1, ProcSets DEF Inv, TypeOK, ProcessOK, Writers, Entries, Tables, Mapped, NULL, SHARED_INVALID
<1>3. \A q \in Proc \ {p} : lt[q].lkcnt = 0
  BY <1>1, Alone
<1>4. CASE /\ proc' = [ proc EXCEPT ![p] = Idle ] /\ shared_demux(p)
           /\ UNCHANGED << gt, semaphore, lt, died, cut >>
  <2>1. /\ proc' \in [ Proc -> Procs ] /\ proc'[p].pc = "idle"
        /\ \A q \in Proc \ {p} : proc'[q] = proc[q]
    BY <1>4, GoesIdle
  <2>2. lock' \in [ Proc -> { "none", "read", "write" } ] /\ lock'[p] = "none"
        /\ \A q \in Proc \ {p} : lock'[q] = lock[q]
    BY <1>4, Demuxed
  <2>3. Counted' /\ sem' = sem
    BY <1>4, SameCount
  <2>4. TypeOK'
    BY <1>1, <1>4, <2>1, <2>2, <2>3 DEF Inv, TypeOK, Procs, Counted
  <2>5. ProcessOK(p)'
    BY <1>1, <1>2, <1>4, <2>1, <2>3 DEF Inv, ProcessOK
  <2>6. \A q \in Proc \ {p} : ProcessOK(q)'
    BY <1>4, <2>1, <2>2, <2>3, OthersKeep
  <2> QED
    BY <1>2, <1>4, <2>2, <2>3, <2>4, <2>5, <2>6, OneProcess
<1>5. CASE /\ Goes(p, "blocked") /\ lock' = [ lock EXCEPT ![p] = "write" ]
           /\ UNCHANGED << gt, semaphore, lt, died, cut >>
  <2>1. /\ proc' \in [ Proc -> Procs ] /\ proc'[p].pc = "blocked"
        /\ \A q \in Proc \ {p} : proc'[q] = proc[q]
    BY <1>5, GoesTo DEF Steps
  <2>2. lock' \in [ Proc -> { "none", "read", "write" } ] /\ lock'[p] = "write"
        /\ \A q \in Proc \ {p} : lock'[q] = lock[q]
    BY <1>5 DEF Inv, TypeOK
  <2>3. Counted' /\ sem' = sem
    BY <1>5, SameCount
  <2>4. TypeOK'
    BY <1>1, <1>5, <2>1, <2>2, <2>3 DEF Inv, TypeOK, Procs, Counted
  <2>5. ProcessOK(p)'
    BY <1>1, <1>2, <1>5, <2>1, <2>3 DEF Inv, ProcessOK
  <2>6. \A q \in Proc \ {p} : ProcessOK(q)'
    BY <1>5, <2>1, <2>2, <2>3, OthersKeep
  <2> QED
    BY <1>1, <1>2, <1>5, <2>2, <2>3, <2>4, <2>5, <2>6, OneProcess
<1>6. CASE /\ lt' = [ lt EXCEPT ![p].tcnt = @ - 1,
                                ![p].p = IF lt[p].tcnt > 1 THEN Mapped(p) ELSE NULL ]
           /\ IF lt[p].tcnt <= 1 /\ semval = 1 /\ ~ gt.persist
              THEN shared_destroy_entry(p)
              ELSE shared_delta_process(p, -1) /\ UNCHANGED << gt, died, cut >>
           /\ proc' = [ proc EXCEPT ![p] = Idle ] /\ shared_demux(p)
  <2>1. /\ proc' \in [ Proc -> Procs ] /\ proc'[p].pc = "idle"
        /\ \A q \in Proc \ {p} : proc'[q] = proc[q]
    BY <1>6, GoesIdle
  <2>2. lock' \in [ Proc -> { "none", "read", "write" } ] /\ lock'[p] = "none"
        /\ \A q \in Proc \ {p} : lock'[q] = lock[q]
    BY <1>6, Demuxed
  <2>3. /\ lt' \in [ Proc -> Tables ] /\ \A q \in Proc \ {p} : lt'[q] = lt[q]
        /\ lt'[p].tcnt = lt[p].tcnt - 1 /\ lt'[p].lkcnt = 0
    <3>1. PICK f : f = [ lt EXCEPT ![p].tcnt = lt[p].tcnt - 1 ]
      OBVIOUS
    <3>2. PICK h \in Handles \cup {NULL} : lt' = [ f EXCEPT ![p].p = h ]
      BY <1>2, <1>6, <3>1
    <3>3. lt[p].tcnt - 1 \in Nat
      BY <1>2
    <3>4. /\ f \in [ Proc -> Tables ] /\ \A q \in Proc \ {p} : f[q] = lt[q]
          /\ f[p].tcnt = lt[p].tcnt - 1 /\ f[p].lkcnt = 0
      BY <1>2, <3>1, <3>3 DEF Tables
    <3> QED
      BY <3>2, <3>4 DEF Tables
  <2>4. CASE lt[p].tcnt <= 1 /\ shared_destroy_entry(p)
    <3>1. lt'[p].tcnt = 0
      BY <1>2, <2>3, <2>4
    <3> QED
      BY <1>1, <1>3, <1>6, <2>1, <2>3, <2>4, <3>1, Destroyed
  <2>5. CASE shared_delta_process(p, -1) /\ UNCHANGED << gt, died, cut >>
    <3>1. Counted' /\ sem'[p] = sem[p] - 1 /\ \A q \in Proc \ {p} : sem'[q] = sem[q]
      <4>1. -1 \in Int /\ sem[p] \in Int
        BY <1>2
      <4>2. Counted' /\ sem'[p] = sem[p] + (-1) /\ \A q \in Proc \ {p} : sem'[q] = sem[q]
        BY <2>5, <4>1, DeltaCount
      <4> QED
        BY <4>1, <4>2
    <3>2. TypeOK'
      BY <1>1, <2>1, <2>2, <2>3, <2>5, <3>1 DEF Inv, TypeOK, Procs, Counted
    <3>3. ProcessOK(p)'
      <4>1. ProcessOK(p) /\ lt'[p].tcnt # lt[p].tcnt
        BY <1>2, <2>3 DEF Inv
      <4>2. gt.key = SHARED_INVALID => p \in cut
        BY <1>2, <4>1 DEF ProcessOK
      <4> QED
        BY <1>2, <2>1, <2>3, <2>5, <3>1, <4>1, <4>2 DEF ProcessOK
    <3>4. \A q \in Proc \ {p} : ProcessOK(q)'
      BY <2>1, <2>2, <2>3, <2>5, <3>1, OthersKeep
    <3> QED
      BY <1>2, <2>2, <2>3, <2>5, <3>1, <3>2, <3>3, <3>4, OneProcess
  <2> QED
    BY <1>6, <2>4, <2>5
<1> QED
  BY <1>4, <1>5, <1>6 DEF shared_free

LEMMA RecoverStep ==
  ASSUME Inv, NEW p \in Proc, shared_recover(p)
  PROVE  Inv'
<1>1. /\ proc[p].pc = "idle" /\ lt[p].tcnt = 0 /\ shared_mux(p, "write")
      /\ shared_destroy_entry(p) /\ shared_demux(p) /\ UNCHANGED << headed, lt, proc >>
  BY DEF shared_recover
<1>2. /\ lt' \in [ Proc -> Tables ] /\ proc' \in [ Proc -> Procs ] /\ lt[p].lkcnt = 0
  BY <1>1 DEF Inv, TypeOK, ProcessOK, Procs
<1> QED
  BY <1>1, <1>2, Alone, Destroyed

\* What Ends and Undone leave.
LEMMA Ended ==
  ASSUME Inv, NEW p \in Proc, Ends(p)
  PROVE  /\ proc' \in [ Proc -> Procs ] /\ proc'[p].pc = "idle"
         /\ lt' \in [ Proc -> Tables ] /\ lt'[p].tcnt = 0 /\ lt'[p].lkcnt = 0
         /\ lock' \in [ Proc -> { "none", "read", "write" } ] /\ lock'[p] = "none"
         /\ \A q \in Proc \ {p} : proc'[q] = proc[q] /\ lt'[q] = lt[q] /\ lock'[q] = lock[q]
         /\ headed' = headed /\ shared_demux(p)
<1>1. shared_demux(p) /\ headed' = headed
  BY DEF Ends
<1>2. /\ proc' \in [ Proc -> Procs ] /\ proc'[p].pc = "idle"
      /\ \A q \in Proc \ {p} : proc'[q] = proc[q]
  BY GoesIdle DEF Ends
<1>3. /\ lt' \in [ Proc -> Tables ] /\ lt'[p].tcnt = 0 /\ lt'[p].lkcnt = 0
      /\ \A q \in Proc \ {p} : lt'[q] = lt[q]
  <2>1. NoTable \in Tables /\ NoTable.tcnt = 0 /\ NoTable.lkcnt = 0
    BY DEF NoTable, Tables
  <2> QED
    BY <2>1 DEF Ends, Inv, TypeOK
<1> QED
  BY <1>1, <1>2, <1>3, Demuxed

LEMMA UndoneStep ==
  ASSUME Inv, NEW p \in Proc, Undone(p), Ends(p),
         died' = IF lt[p].lkcnt = -1 THEN died + 1 ELSE died
  PROVE  Inv'
<1>1. /\ gt' = gt /\ cut' = cut \ {p}
      /\ Counted' /\ sem'[p] = 0 /\ \A q \in Proc \ {p} : sem'[q] = sem[q]
  BY UndoneCount DEF Undone
<1>2. /\ gt.nprocdebug = died + Cardinality(Writers) /\ died \in Nat /\ Cardinality(Writers) \in Nat
      /\ gt.key = SHARED_INVALID => died = 0 /\ lt[p].lkcnt = 0
  BY ProcSets DEF Inv, TypeOK, ProcessOK, Writers
<1>3. TypeOK'
  BY <1>1, <1>2, Ended DEF Inv, TypeOK, Procs, Counted
<1>4. ProcessOK(p)'
  BY <1>1, Ended DEF ProcessOK
<1>5. \A q \in Proc \ {p} : ProcessOK(q)'
  BY <1>1, Ended, OthersKeep
<1>6. gt'.nprocdebug = died' + Cardinality(Writers) + (IF lt'[p].lkcnt = -1 THEN 1 ELSE 0)
                          - (IF lt[p].lkcnt = -1 THEN 1 ELSE 0)
  <2>1. lt'[p].lkcnt = 0
    BY Ended
  <2> QED
    BY <1>1, <1>2, <2>1
<1> QED
  BY <1>1, <1>2, <1>3, <1>4, <1>5, <1>6, Ended, OneProcess

LEMMA EndSteps ==
  ASSUME Inv, NEW p \in Proc, shared_cleanup(p) \/ Crash(p)
  PROVE  Inv'
<1>1. CASE Crash(p)
  BY <1>1, UndoneStep DEF Crash
<1>2. CASE shared_cleanup(p) /\ lt[p].lkcnt = -1
  <2>1. shared_destroy_entry(p) /\ Ends(p)
    BY <1>2 DEF shared_cleanup
  <2>2. \A q \in Proc \ {p} : lt[q].lkcnt = 0
    BY <1>2, WriterAlone
  <2> QED
    BY <2>1, <2>2, Ended, Destroyed
<1>3. CASE shared_cleanup(p) /\ lt[p].lkcnt # -1
  <2>1. Undone(p) /\ died' = died /\ Ends(p)
    BY <1>3 DEF shared_cleanup
  <2> QED
    BY <1>3, <2>1, UndoneStep
<1> QED
  BY <1>1, <1>2, <1>3

----------------------------------------------------------------------------
(* The invariant, and what follows from it.                                *)

LEMMA InitInv == Init => Inv
<1> SUFFICES ASSUME Init
             PROVE  Inv
  OBVIOUS
<1>1. gt \in Entries /\ gt.key = SHARED_INVALID /\ gt.nprocdebug = 0
  <2>1. 0 \in Int /\ FALSE \in BOOLEAN /\ SHARED_INVALID \in Handles \cup {SHARED_INVALID}
    OBVIOUS
  <2>2. shared_clear_entry \in Entries
    BY <2>1, EntryRecord, Zenon DEF shared_clear_entry
  <2> QED
    BY <2>2 DEF Init, shared_clear_entry
<1>2. NoTable \in Tables /\ NoTable.tcnt = 0 /\ NoTable.lkcnt = 0
  BY DEF NoTable, Tables
<1>3. Idle \in Procs /\ Idle.pc = "idle"
  BY Zenon DEF Idle, Procs, Steps, Modes
<1>4. TypeOK
  BY <1>1, <1>2, <1>3 DEF Init, TypeOK, Procs, NoSem
<1>5. \A p \in Proc : ProcessOK(p)
  BY <1>1, <1>2, <1>3 DEF Init, ProcessOK, NoSem
<1>6. LocksOK
  BY DEF Init, LocksOK
<1>7. Cardinality(Writers) = 0
  <2>1. Writers = {}
    BY <1>2 DEF Init, Writers
  <2> QED
    BY <2>1, FS_EmptySet
<1> QED
  BY <1>1, <1>4, <1>5, <1>6, <1>7, SumNothing DEF Init, Inv

LEMMA StutterStep == Inv /\ UNCHANGED vars => Inv'
BY DEF vars, semaphore, Inv, TypeOK, LocksOK, ProcessOK, Writers

\* Inv is an invariant, whatever processes do and wherever they die.
THEOREM SegmentInvariance == Spec => []Inv
<1>1. Inv /\ [Next]_vars => Inv'
  BY CallOpenStep, MallocStep, AttachStep, LockStep, ReallocStep, UnlockSteps, FreeStep,
     RecoverStep, EndSteps, StutterStep DEF Next
<1> QED
  BY InitInv, <1>1, PTL DEF Spec

\* Who writes is alone with the segment that the table names, and who reads
\* reads that one (shared_mux, shared_lock).
THEOREM AccessIsExclusive == Spec => []AccessExclusive
<1>1. Inv => AccessExclusive
  BY WriterAlone DEF Inv, ProcessOK, AccessExclusive
<1> QED
  BY SegmentInvariance, <1>1, PTL

\* The semaphore and nprocdebug are what shared_free and shared_recover take
\* them for, up to what the kernel withheld from it when it was at zero.
THEOREM CountsAreExact == Spec => []CountsExact
<1>1. ASSUME Inv, cut = {}
      PROVE  semval = Total(Attached) + withheld
  <2>1. sem = Attached
    BY <1>1 DEF Inv, TypeOK, ProcessOK, Attached
  <2> QED
    BY <1>1, <2>1 DEF Inv
<1>2. Inv => CountsExact
  BY <1>1 DEF Inv, ProcessOK, CountsExact, Writers
<1> QED
  BY SegmentInvariance, <1>2, PTL

----------------------------------------------------------------------------
(* What is destroyed.                                                      *)

\* With exact counts, shared_free destroys when nobody else is attached.
LEMMA FreeDestroys ==
  ASSUME Inv, NEW p \in Proc, shared_free(p), cut = {}
  PROVE  cut' = {}
<1>1. /\ proc[p].pc \in { "unlocked", "refused", "blocked" }
      /\ lt \in [ Proc -> Tables ] /\ lt[p].tcnt \in Nat /\ lt[p].tcnt > 0
      /\ \A q \in Proc : sem[q] = lt[q].tcnt /\ lt[q].tcnt \in Nat
      /\ sem \in [ Proc -> Int ] /\ withheld \in Nat /\ semval = Total(sem) + withheld
  BY DEF shared_free, Inv, TypeOK, ProcessOK, Tables
<1> DEFINE left == [ sem EXCEPT ![p] = @ - 1 ]
<1>2. /\ left \in [ Proc -> Nat ] /\ left[p] = sem[p] - 1
      /\ \A q \in Proc \ {p} : left[q] = lt[q].tcnt /\ left[q] = sem[q]
  BY <1>1
<1>3. ASSUME semval = 1
      PROVE  \A q \in Proc \ {p} : lt[q].tcnt = 0
  <2> HIDE DEF left
  <2>1. left \in [ Proc -> Int ] /\ sem[p] \in Int
    BY <1>1, <1>2
  <2>2. Total(sem) \in Int /\ Total(left) = Total(sem) + left[p] - sem[p]
    BY <1>1, <1>2, <2>1, SumChange
  <2>3. Total(left) <= 0
    BY <1>1, <1>2, <1>3, <2>1, <2>2
  <2>4. \A q \in Proc : Total(left) \in Nat /\ left[q] <= Total(left)
    BY <1>2, SumBounds
  <2> QED
    BY <1>1, <1>2, <2>3, <2>4
<1>4. CASE semval = 1 /\ shared_destroy_entry(p)
  BY <1>3, <1>4 DEF shared_destroy_entry
<1>5. CASE cut' = cut
  BY <1>5
<1> QED
  BY <1>4, <1>5 DEF shared_free

\* With exact counts, shared_recover destroys when nobody is attached, or when
\* more died than are attached.
LEMMA RecoverDestroys ==
  ASSUME Inv, NEW p \in Proc, shared_recover(p), cut = {}
  PROVE  cut' = {} \/ died > semval
<1>1. /\ shared_mux(p, "write") /\ shared_destroy_entry(p) /\ proc[p].pc = "idle"
      /\ gt.nprocdebug > semval \/ semval = 0
  BY DEF shared_recover
<1>2. gt.nprocdebug = died
  <2>1. Writers = {}
    BY <1>1, Alone DEF Writers, Inv, ProcessOK
  <2>2. died \in Nat /\ gt.nprocdebug = died + Cardinality(Writers)
    BY DEF Inv, TypeOK
  <2> QED
    BY <2>1, <2>2, FS_EmptySet
<1>3. /\ sem \in [ Proc -> Nat ] /\ \A q \in Proc : sem[q] = lt[q].tcnt
      /\ withheld \in Nat /\ semval = Total(sem) + withheld
  BY DEF Inv, TypeOK, ProcessOK, Tables
<1>4. ASSUME semval = 0
      PROVE  cut' = {}
  <2>1. \A q \in Proc : lt[q].tcnt = 0
    <3>1. \A q \in Proc : Total(sem) \in Nat /\ sem[q] <= Total(sem)
      BY <1>3, SumBounds
    <3>2. \A q \in Proc : sem[q] \in Nat
      BY <1>3
    <3> QED
      BY <1>3, <1>4, <3>1, <3>2
  <2> QED
    BY <1>1, <2>1 DEF shared_destroy_entry
<1> QED
  BY <1>1, <1>2, <1>4

\* A segment in use is destroyed by a writer that exits, or after more writers
\* died than processes use it: shared_free and shared_recover count right.
THEOREM UnusedDestroyed == Spec => DestroysUnused
<1> DEFINE Destroys == \/ cut' \subseteq cut \/ cut # {}
                       \/ died > semval
                       \/ \E p \in Proc : lt[p].lkcnt = -1 /\ lt'[p] = NoTable
<1>1. Inv /\ [Next]_vars => [Destroys]_vars
  <2> SUFFICES ASSUME Inv, Next, cut = {}
               PROVE  Destroys
    OBVIOUS
  <2>1. PICK p \in Proc :
          \/ shared_malloc(p)
          \/ \E mode \in Modes, remove \in BOOLEAN : CallOpen(p, mode, remove)
          \/ shared_attach(p) \/ shared_lock(p) \/ shared_free(p)
          \/ shared_realloc(p) \/ Close(p) \/ RemoveLocked(p) \/ RemoveOpen(p)
          \/ shared_recover(p) \/ shared_cleanup(p) \/ Crash(p)
    BY DEF Next
  <2>2. CASE shared_free(p)
    BY <2>2, FreeDestroys
  <2>3. CASE shared_recover(p)
    BY <2>3, RecoverDestroys
  <2>4. CASE shared_cleanup(p) /\ lt[p].lkcnt = -1
    BY <2>4 DEF shared_cleanup, Ends, Inv, TypeOK
  <2>5. CASE Crash(p) \/ (shared_cleanup(p) /\ lt[p].lkcnt # -1)
    BY <2>5 DEF Crash, shared_cleanup, Undone
  <2>6. CASE cut' = cut
    BY <2>6
  <2> QED
    BY <2>1, <2>2, <2>3, <2>4, <2>5, <2>6
    DEF shared_malloc, CallOpen, shared_attach, shared_lock, shared_realloc, Close, RemoveLocked,
        RemoveOpen
<1> QED
  BY SegmentInvariance, <1>1, PTL DEF Spec, DestroysUnused

=============================================================================
