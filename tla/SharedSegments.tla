--------------------------- MODULE SharedSegments ---------------------------
(***************************************************************************)
(* FITS files in shared memory: src/c_src/cfitsio/drvrsmem.c.  Processes   *)
(* create, open, write, close and remove the file "h<idx>", a segment of   *)
(* shared memory named in one entry of a global table.  The byte idx of a  *)
(* lock file, locked with fcntl, guards the entry; a semaphore counts the  *)
(* processes that use the segment; a process that dies loses its locks,    *)
(* and what it added to the semaphore is taken back (SEM_UNDO), though     *)
(* never below zero.                                                       *)
(*                                                                         *)
(* The model has one entry: entries share nothing but the range of keys.   *)
(* Each shared_ function is one step, taken when the lock that it waits    *)
(* for is free, as it holds that lock for all it does; a smem_ function is *)
(* the sequence of its shared_ calls, and processes interleave, die and    *)
(* begin again between any two.  A process has the file open once at a     *)
(* time: cfitsio reuses a file that is open, unless it is opened for       *)
(* reading only.  What is left out: such a second opening, failing system  *)
(* calls, a death within a shared_ function, the creation and removal of   *)
(* the table itself, and the bytes of the file.                            *)
(***************************************************************************)
EXTENDS Integers, FiniteSets, FiniteSetsExt

CONSTANTS
  Proc,          \* the processes
  MaxDied,       \* the bound on the writers that may die with one segment
  MaxOpens       \* the bound on the tcnt of a process

ASSUME SegmentBounds == IsFiniteSet(Proc) /\ { MaxDied, MaxOpens } \subseteq Nat

VARIABLES
  gt,       \* shared_gt[idx]: key (and handle), nprocdebug, PERSIST attribute
  headed,   \* the segments whose DAL_SHM_SEGHEAD is filled in
  semval,   \* the value of the semaphore shared_gt[idx].sem
  sem,      \* what each process has added to it, and the kernel will undo
  lock,     \* the fcntl lock of each process on byte idx
  lt,       \* shared_lt[idx] of each process: p, tcnt, lkcnt
  proc,     \* where each process is: pc, and the open's mode and purpose
  died,     \* how many died while they held the segment for writing
  cut,      \* the processes whose segment was destroyed while they used it
  withheld  \* what the kernel could not take from the semaphore, being at zero

semaphore == << semval, sem, withheld >>
vars == << gt, headed, semaphore, lock, lt, proc, died, cut >>

SHARED_INVALID == 0
NULL == 0
Handles == 1 .. Cardinality(Proc) + 1
Modes == { "read", "write" }

shared_clear_entry == [ key |-> SHARED_INVALID, nprocdebug |-> 0, persist |-> FALSE ]
NoTable == [ p |-> NULL, tcnt |-> 0, lkcnt |-> 0 ]
Idle == [ pc |-> "idle", mode |-> "read", remove |-> FALSE ]
NoSem == [ p \in Proc |-> 0 ]

----------------------------------------------------------------------------
\* shared_mux: a lock is granted when no other process's lock excludes it.
shared_mux(p, mode) ==
  \A q \in Proc \ {p} : IF mode = "write" THEN lock[q] = "none" ELSE lock[q] # "write"

\* shared_demux, at the end of a call: it drops whatever lock the process has.
shared_demux(p) == lock' = [ lock EXCEPT ![p] = "none" ]

\* semop with SEM_UNDO: it waits rather than make the semaphore negative.
shared_delta_process(p, delta) ==
  /\ semval + delta >= 0 /\ semval' = semval + delta
  /\ sem' = [ sem EXCEPT ![p] = @ + delta ]
  /\ UNCHANGED withheld

Goes(p, pc) == proc' = [ proc EXCEPT ![p].pc = pc ]

\* shared_destroy_entry: semaphore and segment are removed, whoever has them.
shared_destroy_entry(p) ==
  /\ gt' = shared_clear_entry /\ died' = 0
  /\ semval' = 0 /\ sem' = NoSem /\ withheld' = 0
  /\ cut' = { q \in Proc \ {p} : lt[q].tcnt > 0 }

\* A key that no segment has, also none that is removed but still mapped.
FreeHandle == CHOOSE h \in Handles : h # gt.key /\ \A p \in Proc : lt[p].p # h

Init == /\ gt = shared_clear_entry /\ headed = {}
        /\ semval = 0 /\ sem = NoSem /\ withheld = 0
        /\ lock = [ p \in Proc |-> "none" ]
        /\ lt = [ p \in Proc |-> NoTable ]
        /\ proc = [ p \in Proc |-> Idle ]
        /\ died = 0 /\ cut = {}

----------------------------------------------------------------------------
(* Creating and opening.                                                   *)

\* shared_malloc for smem_create: it does not wait, and fails without effect.
shared_malloc(p) ==
  /\ proc[p].pc = "idle" /\ lt[p].tcnt = 0
  /\ shared_mux(p, "write") /\ gt.key = SHARED_INVALID
  /\ gt' = [ key |-> FreeHandle, nprocdebug |-> 0, persist |-> TRUE ]
  /\ headed' = headed \ { FreeHandle }
  /\ semval' = 1 /\ sem' = [ NoSem EXCEPT ![p] = 1 ] /\ withheld' = 0
  /\ lt' = [ lt EXCEPT ![p] = [ NoTable EXCEPT !.tcnt = 1 ] ]
  /\ proc' = [ proc EXCEPT ![p] = [ pc |-> "created", mode |-> "write", remove |-> FALSE ] ]
  /\ shared_demux(p)
  /\ UNCHANGED << died, cut >>

\* smem_open is called, or smem_remove of a file that is not open.
CallOpen(p, mode, remove) ==
  /\ proc[p].pc = "idle" /\ lt[p].tcnt < MaxOpens /\ (remove => mode = "write")
  /\ proc' = [ proc EXCEPT ![p] = [ pc |-> "opening", mode |-> mode, remove |-> remove ] ]
  /\ UNCHANGED << gt, headed, semaphore, lock, lt, died, cut >>

\* Mutant of shared_attach: a failing shared_attach returns with its lock.
shared_attachHeld(p) ==
  /\ proc[p].pc = "opening" /\ shared_mux(p, "write")
  /\ IF gt.key = SHARED_INVALID
     THEN /\ proc' = [ proc EXCEPT ![p] = Idle ] /\ UNCHANGED << semaphore, lt >>
          /\ lock' = [ lock EXCEPT ![p] = "write" ]
     ELSE /\ shared_delta_process(p, 1)
          /\ lt' = [ lt EXCEPT ![p].tcnt = @ + 1, ![p].p = NULL ]
          /\ Goes(p, "attached") /\ shared_demux(p)
  /\ UNCHANGED << gt, headed, died, cut >>

\* The segment is resizable: it is mapped, and detached again.
shared_attach(p) ==
  /\ proc[p].pc = "opening" /\ shared_mux(p, "write")
  /\ IF gt.key = SHARED_INVALID
     THEN proc' = [ proc EXCEPT ![p] = Idle ] /\ UNCHANGED << semaphore, lt >>
     ELSE /\ shared_delta_process(p, 1)
          /\ lt' = [ lt EXCEPT ![p].tcnt = @ + 1, ![p].p = NULL ]
          /\ Goes(p, "attached")
  /\ shared_demux(p)
  /\ UNCHANGED << gt, headed, died, cut >>

\* shared_map finds the segment that the table names, unless there is none.
Mappable(p) == (lt[p].p = NULL \/ lt[p].lkcnt # 0) => gt.key # SHARED_INVALID
Mapped(p) == IF lt[p].p = NULL \/ lt[p].lkcnt # 0 THEN gt.key ELSE lt[p].p

\* The lock is kept.  A creator then fills in the header of the file; others
\* give up unless it is there.
Locks(p) ==
  LET mode == proc[p].mode
      creates == proc[p].pc = "created"
  IN /\ lt' = [ lt EXCEPT ![p].p = Mapped(p),
                          ![p].lkcnt = IF mode = "write" THEN -1 ELSE @ + 1 ]
     /\ gt' = [ gt EXCEPT !.nprocdebug = IF mode = "write" THEN @ + 1 ELSE @ ]
     /\ lock' = [ lock EXCEPT ![p] = mode ]
     /\ headed' = IF creates THEN headed \cup { Mapped(p) } ELSE headed
     /\ Goes(p, IF Mapped(p) \in headed \/ creates \/ proc[p].pc = "relocking"
                THEN "open" ELSE "unopened")

\* Without a segment to map the opener goes on to shared_free, and smem_remove,
\* which had the file open for reading, returns.
NotLocked(p) ==
  /\ shared_demux(p)
  /\ proc' = [ proc EXCEPT ![p] = IF @.pc = "relocking" THEN Idle ELSE [ @ EXCEPT !.pc = "refused" ] ]
  /\ UNCHANGED << gt, headed, lt >>

shared_lock(p) ==
  /\ proc[p].pc \in { "created", "attached", "relocking" }
  /\ shared_mux(p, proc[p].mode)
  /\ IF Mappable(p) THEN Locks(p) ELSE NotLocked(p)
  /\ UNCHANGED << semaphore, died, cut >>

----------------------------------------------------------------------------
(* An open file.                                                           *)

\* smem_write past the end: a new segment takes the place of the old one.
shared_realloc(p) ==
  /\ proc[p].pc = "open" /\ ~ proc[p].remove /\ lt[p].lkcnt = -1
  /\ gt' = [ gt EXCEPT !.key = FreeHandle ]
  /\ headed' = IF lt[p].p \in headed THEN headed \cup { FreeHandle }
                                     ELSE headed \ { FreeHandle }
  /\ lt' = [ lt EXCEPT ![p].p = FreeHandle ]
  /\ UNCHANGED << semaphore, lock, proc, died, cut >>

\* Mutant of shared_unlock: the segment stays mapped.
shared_unlockMapped(p, persist) ==
  /\ lt' = [ lt EXCEPT ![p].lkcnt = IF @ > 0 THEN @ - 1 ELSE 0 ]
  /\ gt' = [ gt EXCEPT !.persist = persist,
                       !.nprocdebug = IF lt[p].lkcnt > 0 THEN @ ELSE @ - 1 ]
  /\ shared_demux(p)

\* The caller holds the lock; the segment, resizable, is detached.
shared_unlock(p, persist) ==
  LET lkcnt == IF lt[p].lkcnt > 0 THEN lt[p].lkcnt - 1 ELSE 0
  IN /\ lt' = [ lt EXCEPT ![p].lkcnt = lkcnt, ![p].p = IF lkcnt = 0 THEN NULL ELSE @ ]
     /\ gt' = [ gt EXCEPT !.persist = persist,
                          !.nprocdebug = IF lt[p].lkcnt > 0 THEN @ ELSE @ - 1 ]
     /\ shared_demux(p)

\* smem_close, and smem_open of a file without a header: unlock, then free.
Close(p) ==
  /\ \/ proc[p].pc = "unopened"
     \/ proc[p].pc = "open" /\ ~ proc[p].remove
  /\ shared_unlock(p, gt.persist)
  /\ Goes(p, "unlocked")
  /\ UNCHANGED << headed, semaphore, died, cut >>

\* smem_remove of a file locked for writing: without PERSIST, closing removes it.
RemoveLocked(p) ==
  /\ proc[p].pc = "open" /\ proc[p].mode = "write"
  /\ shared_unlock(p, FALSE)
  /\ Goes(p, "unlocked")
  /\ UNCHANGED << headed, semaphore, died, cut >>

\* smem_remove of a file locked for reading: the lock is given back first.
RemoveOpen(p) ==
  /\ proc[p].pc = "open" /\ proc[p].mode = "read"
  /\ shared_unlock(p, gt.persist)
  /\ proc' = [ proc EXCEPT ![p] = [ pc |-> "relocking", mode |-> "write", remove |-> TRUE ] ]
  /\ UNCHANGED << headed, semaphore, died, cut >>

----------------------------------------------------------------------------
(* Giving up a file: shared_free.                                          *)

\* The segment is mapped, if it still can be, and the semaphore taken down: at
\* zero that waits, with the lock held, for the death of one who took too much.
shared_free(p) ==
  /\ proc[p].pc \in { "unlocked", "refused", "blocked" } /\ shared_mux(p, "write")
  /\ proc[p].pc = "blocked" => semval > 0
  /\ IF lt[p].p = NULL /\ gt.key = SHARED_INVALID
     THEN /\ proc' = [ proc EXCEPT ![p] = Idle ] /\ shared_demux(p)
          /\ UNCHANGED << gt, semaphore, lt, died, cut >>
     ELSE IF semval = 0
     THEN /\ Goes(p, "blocked") /\ lock' = [ lock EXCEPT ![p] = "write" ]
          /\ UNCHANGED << gt, semaphore, lt, died, cut >>
     ELSE /\ lt' = [ lt EXCEPT ![p].tcnt = @ - 1,
                               ![p].p = IF lt[p].tcnt > 1 THEN Mapped(p) ELSE NULL ]
          /\ IF lt[p].tcnt <= 1 /\ semval = 1 /\ ~ gt.persist
             THEN shared_destroy_entry(p)
             ELSE shared_delta_process(p, -1) /\ UNCHANGED << gt, died, cut >>
          /\ proc' = [ proc EXCEPT ![p] = Idle ] /\ shared_demux(p)
  /\ UNCHANGED headed

----------------------------------------------------------------------------
(* Recovery, exits and deaths.                                             *)

\* Mutant of shared_recover: as many writers died as processes use the segment.
shared_recoverEarly(p) ==
  /\ proc[p].pc = "idle" /\ lt[p].tcnt = 0
  /\ gt.key # SHARED_INVALID /\ shared_mux(p, "write")
  /\ gt.nprocdebug >= semval
  /\ shared_destroy_entry(p) /\ shared_demux(p)
  /\ UNCHANGED << headed, lt, proc >>

\* A process that does not use the segment destroys it if it finds it locked by
\* nobody, and used by fewer processes than have left their writing unfinished.
shared_recover(p) ==
  /\ proc[p].pc = "idle" /\ lt[p].tcnt = 0
  /\ gt.key # SHARED_INVALID /\ shared_mux(p, "write")
  /\ gt.nprocdebug > semval \/ semval = 0
  /\ shared_destroy_entry(p) /\ shared_demux(p)
  /\ UNCHANGED << headed, lt, proc >>

\* What the kernel does for a process that ends, by itself or not.
Ends(p) == /\ shared_demux(p)
           /\ lt' = [ lt EXCEPT ![p] = NoTable ]
           /\ proc' = [ proc EXCEPT ![p] = Idle ]
           /\ UNCHANGED headed

\* Mutant of Undone: the semaphore is not taken back (no SEM_UNDO).
UndoneNever(p) == /\ sem' = [ sem EXCEPT ![p] = 0 ]
                  /\ cut' = cut \ {p} /\ UNCHANGED << gt, semval, withheld >>

\* Linux holds the semaphore at zero, and what it did not take is never taken.
Undone(p) == /\ semval' = IF semval > sem[p] THEN semval - sem[p] ELSE 0
             /\ withheld' = withheld + (IF semval > sem[p] THEN 0 ELSE sem[p] - semval)
             /\ sem' = [ sem EXCEPT ![p] = 0 ]
             /\ cut' = cut \ {p}
             /\ UNCHANGED gt

\* exit() with the file open: shared_cleanup destroys what is locked for writing.
shared_cleanup(p) ==
  /\ proc[p].pc = "open" /\ ~ proc[p].remove
  /\ IF lt[p].lkcnt = -1 THEN shared_destroy_entry(p) ELSE Undone(p) /\ UNCHANGED died
  /\ Ends(p)

\* Any other end of a process that has something to lose, or to be undone.
Crash(p) ==
  /\ proc[p] # Idle \/ lt[p].tcnt # 0 \/ sem[p] # 0
  /\ lt[p].lkcnt = -1 => died < MaxDied
  /\ died' = IF lt[p].lkcnt = -1 THEN died + 1 ELSE died
  /\ Undone(p)
  /\ Ends(p)

----------------------------------------------------------------------------
Next ==
  \E p \in Proc :
    \/ shared_malloc(p)
    \/ \E mode \in Modes, remove \in BOOLEAN : CallOpen(p, mode, remove)
    \/ shared_attach(p) \/ shared_lock(p) \/ shared_free(p)
    \/ shared_realloc(p) \/ Close(p) \/ RemoveLocked(p) \/ RemoveOpen(p)
    \/ shared_recover(p) \/ shared_cleanup(p) \/ Crash(p)

\* A lock that is free again and again is granted in the end (waiters for fcntl
\* locks queue in the kernel), and programs close or remove what they opened.
Fairness ==
  \A p \in Proc : /\ SF_vars(shared_attach(p) \/ shared_lock(p) \/ shared_free(p))
                  /\ WF_vars(Close(p) \/ RemoveLocked(p) \/ RemoveOpen(p))

Spec == Init /\ [][Next]_vars /\ Fairness

----------------------------------------------------------------------------
(* Properties.                                                             *)

\* The types of the variables.
Steps == { "idle", "opening", "created", "attached", "relocking", "open", "unopened",
           "unlocked", "refused", "blocked" }
Entries == [ key : Handles \cup {SHARED_INVALID}, nprocdebug : Int, persist : BOOLEAN ]
Tables == [ p : Handles \cup {NULL}, tcnt : Nat, lkcnt : -1 .. 1 ]

TypeOK ==
  /\ gt \in Entries /\ headed \subseteq Handles
  /\ semval \in Nat /\ sem \in [ Proc -> Int ] /\ withheld \in Nat
  /\ lock \in [ Proc -> { "none", "read", "write" } ]
  /\ lt \in [ Proc -> Tables ]
  /\ proc \in [ Proc -> [ pc : Steps, mode : Modes, remove : BOOLEAN ] ]
  /\ died \in Nat /\ cut \subseteq Proc

\* A process that writes is alone with the segment and those that read hold a
\* read lock; each has mapped the segment that the table names, also after others
\* resized, removed or recovered it (shared_lock).
AccessExclusive ==
  \A p \in Proc : lt[p].lkcnt # 0 =>
    /\ lock[p] = IF lt[p].lkcnt = -1 THEN "write" ELSE "read"
    /\ lt[p].lkcnt = -1 => \A q \in Proc \ {p} : lt[q].lkcnt = 0
    /\ lt[p].p = gt.key

Total(count) == MapThenSumSet(LAMBDA p : count[p], Proc)
Attached == [ p \in Proc |-> lt[p].tcnt ]

\* The semaphore counts the uses of the segment, and nprocdebug the processes
\* that write it or died writing: what shared_free and shared_recover decide on.
\* The exception is a segment destroyed under its users (cut): they take from the
\* next one's semaphore what they did not add, and if others die while it is at
\* zero it stays too high (withheld): shared_free then never removes the segment,
\* and shared_recover does not before writers die with it.
CountsExact ==
  /\ cut = {} => semval = Total(Attached) + withheld
  /\ \A p \in Proc \ cut : sem[p] = lt[p].tcnt
  /\ gt.nprocdebug = died + Cardinality({ p \in Proc : lt[p].lkcnt = -1 })

\* A write lock of fcntl excludes every other lock.
LocksOK == \A p, q \in Proc : lock[p] = "write" /\ q # p => lock[q] = "none"

\* A process has the segment of the table mapped and locked from shared_lock to
\* shared_unlock, and not before; it is attached meanwhile.  Its semaphore counts
\* that, and the table names a segment, unless its own was destroyed.
ProcessOK(p) ==
  /\ lt[p].lkcnt = IF proc[p].pc \notin { "open", "unopened" } THEN 0
                   ELSE IF proc[p].mode = "write" THEN -1 ELSE 1
  /\ lt[p].lkcnt # 0 =>
       /\ lock[p] = IF lt[p].lkcnt = -1 THEN "write" ELSE "read"
       /\ lt[p].p = gt.key /\ gt.key # SHARED_INVALID
  /\ proc[p].pc \in { "created", "attached", "relocking" } => lt[p].p = NULL
  /\ proc[p].pc \notin { "idle", "opening" } => lt[p].tcnt > 0
  /\ p \in cut \/ sem[p] = lt[p].tcnt
  /\ gt.key = SHARED_INVALID => lt[p].tcnt = 0 \/ p \in cut

Writers == { p \in Proc : lt[p].lkcnt = -1 }

\* Together they are inductive.
Inv ==
  /\ TypeOK /\ LocksOK
  /\ semval = Total(sem) + withheld
  /\ \A p \in Proc : ProcessOK(p)
  /\ gt.nprocdebug = died + Cardinality(Writers)
  /\ gt.key = SHARED_INVALID => died = 0

\* A segment that others use is destroyed only by a writer that exits, or by one
\* that recovers after more writers died than processes use it, or when it was
\* destroyed before under one of them (shared_free, shared_recover).
DestroysUnused ==
  [][ \/ cut' \subseteq cut \/ cut # {}
      \/ died > semval
      \/ \E p \in Proc : lt[p].lkcnt = -1 /\ lt'[p] = NoTable ]_vars

\* No process waits for ever in a call, whoever dies meanwhile with whatever
\* lock: it returns, with the file open or closed, as long as no segment is
\* destroyed under its users; one that is leads shared_free to wait at zero.
CallsReturn ==
  \A p \in Proc : proc[p] # Idle /\ (proc[p].pc = "open" => proc[p].remove)
                    ~> \/ proc[p].pc \in { "idle", "open" } /\ ~ proc[p].remove
                       \/ cut # {}
=============================================================================
