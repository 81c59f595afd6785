----------------------------- MODULE HearlpixNif -----------------------------
(***************************************************************************)
(* The Erlang module hearlpix and its NIF library: Erlang processes that   *)
(* create HEALPix bases, pass the handles among each other, call functions *)
(* on them and forget them (src/hearlpix.erl, c_src/hearlpix_nif.cpp).     *)
(*                                                                         *)
(* A handle is an Erlang resource: it is destroyed when the last reference *)
(* is gone, which may be a term on any process's heap or the reference     *)
(* new_base itself holds while it builds the base.  Processes run on       *)
(* several schedulers, so the steps of their calls interleave.  A C++      *)
(* exception that leaves a NIF ends the virtual machine.                   *)
(*                                                                         *)
(* Callers use the API of module hearlpix and respect the types in its     *)
(* -spec lines; they may pass any value of the type: an Erlang integer has *)
(* no bound, and a pixel number need not be one of a pixel.                *)
(***************************************************************************)
EXTENDS Integers, Sequences, FiniteSets

CONSTANTS
  Processes,  \* Erlang processes
  Handles,    \* resources that can exist at a time: the bound of the model
  Numbers,    \* integers that are passed as Order, Pix, Step, Nside ...
  OrderMax,   \* order_max, 29
  IntBits,    \* bits of a C int
  LongBits,   \* bits of an int64
  None        \* neither a process nor a handle

ASSUME NifAssumption ==
  /\ Numbers \subseteq Int
  /\ None \notin Handles \cup Processes
  /\ OrderMax \in Nat
  /\ IntBits \in Nat \ {0} /\ LongBits \in Nat \ {0}

\* There are finitely many processes, and an int holds every order of a base.
ASSUME ProcessesAssumption == IsFiniteSet(Processes)
ASSUME OrdersFit ==
  /\ 29 <= OrderMax /\ OrderMax < 2^(IntBits-1)
  /\ 2^(IntBits-1) \in Nat /\ 2^IntBits = 2 * 2^(IntBits-1)

VARIABLES
  thrower,    \* the process whose call ended the virtual machine, or None
  handle,     \* for each resource: references, and the base it points to
  terms,      \* the handles each process has on its heap or in its mailbox
  call        \* the call each process is in, or what its last call returned

vars == << thrower, handle, terms, call >>

----------------------------------------------------------------------------
(* Integers of C.                                                          *)

FitsIn(n, bits) == n \in -(2^(bits-1)) .. 2^(bits-1) - 1

\* int64 order passed to T_Healpix_Base (int order, ...)
narrow(n) == ((n + 2^(IntBits-1)) % 2^IntBits) - 2^(IntBits-1)

----------------------------------------------------------------------------
(* The functions.  Kinds of arguments are "base", "float" and "int".       *)

\* -spec lines of hearlpix.erl, one for each way in which the C++ functions
\* treat their arguments.  pix2ring stands for all functions of one pixel or
\* ring, ang2pix for the one of a latitude too, boundaries_as_vec for its three
\* forms, get_ring_info for the functions that are not implemented.
Specs ==
  [ query_disc           |-> { << "base", "float", "float", "float" >>,
                               << "base", "float", "float", "float", "float" >> },
    query_disc_inclusive |-> { << "base", "float", "float", "float", "int" >>,
                               << "base", "float", "float", "float", "float", "int" >> },
    ang2pix              |-> { << "base", "float", "float" >> },
    pix2ring             |-> { << "base", "int" >> },
    boundaries_as_vec    |-> { << "base", "int", "int" >> },
    get_ring_info        |-> { << "base", "int" >> },
    conformable          |-> { << "base", "base" >> },
    nside2order          |-> { << "int" >> },
    npix2nside           |-> { << "int" >> } ]

IntArguments(args) == { i \in 1 .. Len(args) : args[i] = "int" }

\* nif_funcs: the C++ function that a name and an arity are bound to.
nif_funcs(name, arity) ==
  IF name = "query_disc_inclusive" /\ arity = 5 THEN "query_disc" ELSE name

\* enif_get_int64 and enif_get_long read 64 bits, enif_get_int (Step) an int.
GetterBits(function, i) ==
  IF function = "boundaries_as_vec" /\ i = 3 THEN IntBits ELSE LongBits

\* Mutant of Accepts: query_disc takes a direction in two angles only.
AcceptsAngles(function, args, ints) ==
  CASE function = "query_disc" ->
         /\ Len(args) = 4
         /\ args[1] = "base" /\ \A i \in 2 .. Len(args) : args[i] = "float"
    [] function = "query_disc_inclusive" -> Len(args) \in {4, 5}
    [] function = "get_ring_info" -> TRUE
    [] OTHER -> /\ args \in Specs[function]
                /\ \A i \in IntArguments(args) : FitsIn(ints[i], GetterBits(function, i))

\* The enif_get_... calls at the start of the C++ function succeed.
\* (query_disc_inclusive, with argc 4 or 5, reads one argument more;
\* get_ring_info reads none.)
Accepts(function, args, ints) ==
  CASE function = "query_disc" ->
         /\ Len(args) \in {4, 5}
         /\ args[1] = "base" /\ \A i \in 2 .. Len(args) : args[i] = "float"
    [] function = "query_disc_inclusive" -> Len(args) \in {4, 5}
    [] function = "get_ring_info" -> TRUE
    [] OTHER -> /\ args \in Specs[function]
                /\ \A i \in IntArguments(args) : FitsIn(ints[i], GetterBits(function, i))

IsNpix(n) == \E nside \in 0 .. n : n = 12 * nside * nside

\* The library throws: planck_assert (theta in [0,pi], nside > 0, a npix), or
\* the allocation of an answer: more pixels than memory holds (query_disc),
\* out.resize(4*step) with a negative step converted to tsize (boundaries).
Throws(function, ints, good) ==
  \/ function \in { "ang2pix", "query_disc" } /\ ~good
  \/ function = "nside2order" /\ ints[1] <= 0
  \/ function = "npix2nside" /\ ~IsNpix(ints[1])
  \/ function = "boundaries_as_vec" /\ ints[3] < 0

PixelFunctions == { "pix2ring", "boundaries_as_vec" }

\* The library is asked for a pixel that the base does not have, and does not
\* check: nest2xyf and ring2xyf read beyond a table or divide by zero.
Undefined(function, good) == function \in PixelFunctions /\ ~good

Answer(function) ==
  CASE function \in { "query_disc", "query_disc_inclusive", "boundaries_as_vec" } -> "list"
    [] function = "get_ring_info" -> "error"
    [] OTHER -> "value"

----------------------------------------------------------------------------

NoBase == [ refs |-> 0, base |-> "none", order |-> 0, scheme |-> "none", asked |-> 0 ]
Returned(name, value) == [ step |-> "returned", fun |-> name, value |-> value ]

Init ==
  /\ thrower = None
  /\ handle = [ h \in Handles |-> NoBase ]
  /\ terms = [ p \in Processes |-> {} ]
  /\ call = [ p \in Processes |-> Returned("none", "none") ]

At(p, step) == thrower = None /\ call[p].step = step
Step(p, step) == call' = [call EXCEPT ![p].step = step]
Return(p, value) == call' = [call EXCEPT ![p] = Returned(call[p].fun, value)]

\* An exception leaves the NIF.
Throw(p) == thrower' = p /\ UNCHANGED << handle, terms, call >>

\* Mutant of dropped: the destructor runs one reference early.
droppedEarly(h) ==
  IF handle[h].refs <= 2 THEN NoBase ELSE [handle[h] EXCEPT !.refs = @ - 1]

\* One reference less; the last one runs healpix_handle_dtor.
dropped(h) ==
  IF handle[h].refs = 1 THEN NoBase ELSE [handle[h] EXCEPT !.refs = @ - 1]

Free == { h \in Handles : handle[h].refs = 0 }

----------------------------------------------------------------------------
(* hearlpix:new/2 and new_base.                                            *)

\* Mutants of NewGuard: without the upper bound, and with the lower one off by one.
NewGuardUnbounded(order, scheme) == order >= 0 \/ scheme = "nest"
NewGuardOffByOne(order, scheme) ==
  \/ order >= -1 /\ order <= 29 /\ scheme = "ring"
  \/ scheme = "nest"

\* The guard: "," binds tighter than ";".
NewGuard(order, scheme) ==
  \/ order >= 0 /\ order <= 29 /\ scheme = "ring"
  \/ scheme = "nest"

\* The second conjunct keeps the number of resources within Handles.
CallNew(p, order, scheme) ==
  /\ At(p, "returned")
  /\ Cardinality(Free) > Cardinality({ q \in Processes : At(q, "args") })
  /\ NewGuard(order, scheme)
  /\ call' = [call EXCEPT ![p] = [ step |-> "args", fun |-> "new", order |-> order,
                                   scheme |-> scheme, h |-> None ]]
  /\ UNCHANGED << thrower, handle, terms >>

NoClauseForNew(p, order, scheme) ==
  /\ At(p, "returned") /\ ~NewGuard(order, scheme)
  /\ call' = [call EXCEPT ![p] = Returned("new", "function_clause")]
  /\ UNCHANGED << thrower, handle, terms >>

NewBadarg(p) ==
  /\ At(p, "args") /\ ~FitsIn(call[p].order, LongBits)
  /\ Return(p, "badarg")
  /\ UNCHANGED << thrower, handle, terms >>

\* enif_alloc_resource
Alloc(p) ==
  /\ At(p, "args") /\ FitsIn(call[p].order, LongBits)
  /\ \E h \in Free :
       /\ handle' = [handle EXCEPT ![h].refs = 1]
       /\ call' = [call EXCEPT ![p].step = "construct", ![p].h = h]
  /\ UNCHANGED << thrower, terms >>

\* Set: planck_assert ((order>=0)&&(order<=order_max), "bad order")
ConstructionThrows(p) ==
  /\ At(p, "construct") /\ narrow(call[p].order) \notin 0 .. OrderMax
  /\ Throw(p)

Construct(p) ==
  /\ At(p, "construct") /\ narrow(call[p].order) \in 0 .. OrderMax
  /\ LET c == call[p] IN
       handle' = [handle EXCEPT ![c.h] =
                    [ refs |-> @.refs, base |-> "built", order |-> narrow(c.order),
                      scheme |-> c.scheme, asked |-> c.order ]]
  /\ Step(p, "make")
  /\ UNCHANGED << thrower, terms >>

\* Mutant of MakeResource: the term is handed out without a reference.
MakeResourceUncounted(p) ==
  /\ At(p, "make")
  /\ terms' = [terms EXCEPT ![p] = @ \cup {call[p].h}]
  /\ Step(p, "release")
  /\ UNCHANGED << thrower, handle >>

\* enif_make_resource
MakeResource(p) ==
  /\ At(p, "make")
  /\ handle' = [handle EXCEPT ![call[p].h].refs = @ + 1]
  /\ terms' = [terms EXCEPT ![p] = @ \cup {call[p].h}]
  /\ Step(p, "release")
  /\ UNCHANGED thrower

\* Mutant of Release: it may come before the base is constructed.
ReleaseEarly(p) ==
  /\ At(p, "construct") \/ At(p, "release")
  /\ handle' = [handle EXCEPT ![call[p].h] = dropped(call[p].h)]
  /\ Return(p, "base")
  /\ UNCHANGED << thrower, terms >>

\* enif_release_resource, and return {ok, Base}
Release(p) ==
  /\ At(p, "release")
  /\ handle' = [handle EXCEPT ![call[p].h] = dropped(call[p].h)]
  /\ Return(p, "base")
  /\ UNCHANGED << thrower, terms >>

----------------------------------------------------------------------------
(* The other functions.                                                    *)

\* args names the kind of each argument, ints has the integers among them and
\* hs the handles.  good says of the others, and of pixel numbers, that the
\* library is made for them: theta in [0,pi], a pixel of the base, an answer
\* that fits in memory.
CallFunction(p, name, args, ints, hs, good) ==
  /\ At(p, "returned")
  /\ call' = [call EXCEPT ![p] = [ step |-> "run", fun |-> name, args |-> args,
                                   ints |-> ints, hs |-> hs, good |-> good ]]
  /\ UNCHANGED << thrower, handle, terms >>

\* What runs on the base is one step: it changes nothing and nothing it
\* reads changes.  An undefined one ends the virtual machine or answers.
RunFunction(p) ==
  /\ At(p, "run")
  /\ LET c == call[p]
         function == nif_funcs(c.fun, Len(c.args))
         accepted == Accepts(function, c.args, c.ints)
         throws == Throws(function, c.ints, c.good)
     IN \/ /\ ~accepted
           /\ Return(p, "badarg") /\ UNCHANGED << thrower, handle, terms >>
        \/ /\ accepted /\ (throws \/ Undefined(function, c.good))
           /\ Throw(p)
        \/ /\ accepted /\ ~throws
           /\ Return(p, Answer(function)) /\ UNCHANGED << thrower, handle, terms >>

----------------------------------------------------------------------------
(* What the processes do with handles between calls.                       *)

Send(p, q, h) ==
  /\ At(p, "returned") /\ h \in terms[p] /\ h \notin terms[q]
  /\ terms' = [terms EXCEPT ![q] = @ \cup {h}]
  /\ handle' = [handle EXCEPT ![h].refs = @ + 1]
  /\ UNCHANGED << thrower, call >>

\* A garbage collection, or the end of the process.
Forget(p, h) ==
  /\ At(p, "returned") /\ h \in terms[p]
  /\ terms' = [terms EXCEPT ![p] = @ \ {h}]
  /\ handle' = [handle EXCEPT ![h] = dropped(h)]
  /\ UNCHANGED << thrower, call >>

----------------------------------------------------------------------------

\* The steps a call takes once it was made.
Proceed(p) ==
  \/ NewBadarg(p) \/ Alloc(p) \/ ConstructionThrows(p) \/ Construct(p)
  \/ MakeResource(p) \/ Release(p)
  \/ RunFunction(p)

Ranged(name) == name \in { "ang2pix", "query_disc" } \cup PixelFunctions
NumberOfBases(args) == Cardinality({ i \in 1 .. Len(args) : args[i] = "base" })

Begin(p) ==
  \/ \E order \in Numbers, scheme \in { "ring", "nest" } :
       CallNew(p, order, scheme) \/ NoClauseForNew(p, order, scheme)
  \/ At(p, "returned") /\ \E name \in DOMAIN Specs : \E args \in Specs[name] :
       \E ints \in [ IntArguments(args) -> Numbers ] :
       \E hs \in SUBSET terms[p], good \in BOOLEAN :
         /\ NumberOfBases(args) > 0 <=> hs # {}
         /\ Cardinality(hs) <= NumberOfBases(args)
         /\ ~good => Ranged(name)
         /\ name \in PixelFunctions /\ (ints[2] < 0 \/ ~FitsIn(ints[2], LongBits)) => ~good
         /\ CallFunction(p, name, args, ints, hs, good)
  \/ \E h \in Handles : Forget(p, h) \/ \E q \in Processes : Send(p, q, h)

Stopped == thrower # None /\ UNCHANGED vars

Next == Stopped \/ \E p \in Processes : Begin(p) \/ Proceed(p)

Spec == Init /\ [][Next]_vars

----------------------------------------------------------------------------
(* Properties.                                                             *)

\* The types of the variables.
Names == DOMAIN Specs \cup { "new", "none" }
Values == { "none", "base", "list", "value", "error", "badarg", "function_clause" }
ReturnedCalls == [ step : {"returned"}, fun : Names, value : Values ]
NewCalls ==
  [ step : { "args", "construct", "make", "release" }, fun : {"new"}, order : Numbers,
    scheme : { "ring", "nest" }, h : Handles \cup {None} ]
FunctionCalls ==
  [ step : {"run"}, fun : DOMAIN Specs, args : UNION { Specs[name] : name \in DOMAIN Specs },
    ints : UNION { [ I -> Numbers ] : I \in SUBSET Nat }, hs : SUBSET Handles, good : BOOLEAN ]

TypeOK ==
  /\ thrower \in Processes \cup {None}
  /\ handle \in [ Handles -> [ refs : Nat, base : { "none", "built" }, order : Int,
                               scheme : { "none", "ring", "nest" }, asked : Int ] ]
  /\ terms \in [ Processes -> SUBSET Handles ]
  /\ call \in [ Processes -> ReturnedCalls \cup NewCalls \cup FunctionCalls ]

\* A process that is building handle h and has not released it yet.
Builds(p, h) ==
  call[p].step \in { "construct", "make", "release" } /\ call[p].h = h

\* The reference count of a resource is the number of processes that can
\* reach it, and new_base itself until enif_release_resource: it is neither
\* destroyed under somebody's hands nor kept when nobody is left.
RefsExact ==
  \A h \in Handles :
    handle[h].refs = Cardinality({ p \in Processes : h \in terms[p] })
                   + Cardinality({ p \in Processes : Builds(p, h) })

\* Whatever another process forgets in the meantime, the base a call runs on
\* is there, and so is the one of every handle a process may still pass.
BaseThere ==
  \A p \in Processes :
    /\ \A h \in terms[p] : handle[h].base = "built"
    /\ call[p].step = "run" => \A h \in call[p].hs : handle[h].base = "built"

\* healpix_handle_dtor only ever sees a handle whose base was constructed.
DestroysBuilt ==
  [][ \A h \in Handles :
        handle[h].refs > 0 /\ handle'[h].refs = 0 => handle[h].base = "built" ]_vars

\* A ring base has the order that was asked for.
RingAsAsked ==
  \A h \in Handles :
    handle[h].base = "built" /\ handle[h].scheme = "ring" =>
      handle[h].order = handle[h].asked

\* The arguments of a call are ones that its function has a meaning for: those
\* the library's comments and assertions name (healpix_base.cc:43, 49, 697,
\* healpix_base.h:151), a number of steps, and a pixel of the base.
Meaningful(c) ==
  CASE c.fun = "new" -> c.order \in 0 .. OrderMax
    [] c.fun = "nside2order" -> c.ints[1] > 0
    [] c.fun = "npix2nside" -> IsNpix(c.ints[1])
    [] c.fun = "boundaries_as_vec" -> c.good /\ c.ints[3] >= 0
    [] OTHER -> c.good

\* No call with meaningful arguments ends the virtual machine, and of the
\* others only those that nobody checks: neither hearlpix:new/2 (ring bases), nor
\* the argument getters, nor the table of NIFs, which never runs
\* query_disc_inclusive, keep them from the library.
AbortsOnlyUnchecked ==
  \A p \in Processes :
    thrower = p =>
      /\ ~Meaningful(call[p])
      /\ call[p].fun = "new" => call[p].scheme = "nest"
      /\ call[p].fun \notin { "query_disc_inclusive", "get_ring_info", "conformable" }
      /\ call[p].fun = "boundaries_as_vec" => FitsIn(call[p].ints[3], IntBits)

\* An integer of the call does not fit the C type it is read into.
TooWide(c) ==
  CASE c.step = "args" -> ~FitsIn(c.order, LongBits)
    [] c.step = "run" ->
         \/ \E i \in DOMAIN c.ints : ~FitsIn(c.ints[i], LongBits)
         \/ c.fun = "boundaries_as_vec" /\ ~FitsIn(c.ints[3], IntBits)
    [] OTHER -> FALSE

\* Of the calls that respect the -spec lines, whichever arity of a function they
\* choose, only these raise badarg: query_disc_inclusive, which the table of NIFs
\* binds wrongly (line 114 of hearlpix.erl promises an answer), and those with an
\* integer that is too wide, but for the functions that are not implemented.
BadargsKnown ==
  [][ \A p \in Processes :
        call[p].step # "returned" /\ call'[p] = Returned(call[p].fun, "badarg")
          => \/ call[p].fun = "query_disc_inclusive"
             \/ TooWide(call[p]) /\ call[p].fun # "get_ring_info" ]_vars

\* A call of new has passed the guard of hearlpix:new/2.  From the allocation to
\* the release nobody else builds the resource, nobody else has a term for it
\* before there is one, and there is none before the base is constructed.
NewOK(p) ==
  /\ call[p].step \in { "args", "construct", "make", "release" } =>
       NewGuard(call[p].order, call[p].scheme)
  /\ call[p].step \in { "construct", "make", "release" } =>
       /\ call[p].h \in Handles
       /\ \A q \in Processes : Builds(q, call[p].h) => q = p
  /\ call[p].step \in { "construct", "make" } =>
       \A q \in Processes : call[p].h \notin terms[q]
  /\ call[p].step \in { "make", "release" } => handle[call[p].h].base = "built"

NewInv == \A p \in Processes : NewOK(p)

\* A call runs on handles that its process keeps, with arguments of a -spec line.
RunInv ==
  \A p \in Processes :
    call[p].step = "run" =>
      /\ call[p].hs \subseteq terms[p] /\ call[p].args \in Specs[call[p].fun]
      /\ call[p].ints \in [ IntArguments(call[p].args) -> Numbers ]

\* Together they are inductive.
Inv ==
  /\ TypeOK /\ NewInv /\ RunInv
  /\ RefsExact /\ BaseThere /\ RingAsAsked /\ AbortsOnlyUnchecked

=============================================================================
