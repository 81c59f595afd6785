-------------------------- MODULE HearlpixNifProofs --------------------------
(***************************************************************************)
(* The life of the handles, proved for any number of processes, resources  *)
(* and orders: Inv of HearlpixNif is inductive, and the safety properties  *)
(* follow from it.                                                         *)
(***************************************************************************)
EXTENDS HearlpixNif, FiniteSetTheorems, TLAPS

Users(h) == { p \in Processes : h \in terms[p] }
Builders(h) == { p \in Processes : Builds(p, h) }
Calls == ReturnedCalls \cup NewCalls \cup FunctionCalls

----------------------------------------------------------------------------
(* Counting processes, and integers of C.                                  *)

\* Sets of processes are finite, and grow and shrink by one.
LEMMA ProcessSets ==
  ASSUME NEW S \in SUBSET Processes
  PROVE  /\ Cardinality(S) \in Nat
         /\ Cardinality(S) = 0 <=> S = {}
         /\ \A p : p \notin S => Cardinality(S \cup {p}) = Cardinality(S) + 1
         /\ \A p \in S : Cardinality(S \ {p}) = Cardinality(S) - 1
<1>1. IsFiniteSet(S)
  BY ProcessesAssumption, FS_Subset
<1> QED
  BY <1>1, FS_CardinalityType, FS_EmptySet, FS_AddElement, FS_RemoveElement

\* An order that a base can have survives the conversion to int.
LEMMA NarrowOrder ==
  ASSUME NEW n \in 0 .. OrderMax
  PROVE  narrow(n) = n
<1> DEFINE half == 2^(IntBits-1)
<1>1. half \in Nat /\ OrderMax < half /\ OrderMax \in Nat /\ 2^IntBits = 2 * half
  BY OrdersFit, NifAssumption
<1> HIDE DEF half
<1>2. (n + half) % (2 * half) = n + half
  BY <1>1
<1> QED
  BY <1>1, <1>2 DEF narrow, half

\* The counts behind RefsExact.
LEMMA Counts ==
  ASSUME Inv, NEW h \in Handles
  PROVE  /\ Users(h) \in SUBSET Processes /\ Builders(h) \in SUBSET Processes
         /\ handle[h].refs = Cardinality(Users(h)) + Cardinality(Builders(h))
         /\ Cardinality(Users(h)) \in Nat /\ Cardinality(Builders(h)) \in Nat
         /\ handle[h].refs = 0 => Users(h) = {} /\ Builders(h) = {}
         /\ handle[h].refs = 1 => \A p, q \in Users(h) \cup Builders(h) : p = q
<1>1. Users(h) \in SUBSET Processes /\ Builders(h) \in SUBSET Processes
  BY DEF Users, Builders
<1>2. handle[h].refs = Cardinality(Users(h)) + Cardinality(Builders(h))
  BY DEF Inv, RefsExact, Users, Builders
<1>3. ASSUME handle[h].refs = 1, NEW p \in Users(h) \cup Builders(h),
             NEW q \in Users(h) \cup Builders(h)
      PROVE  p = q
  <2> DEFINE U == Users(h)
             B == Builders(h)
  <2>1. U \in SUBSET Processes /\ B \in SUBSET Processes
    BY <1>1
  <2>2. \/ Cardinality(U) = 1 /\ B = {}
        \/ Cardinality(B) = 1 /\ U = {}
    BY <1>2, <1>3, <2>1, ProcessSets
  <2>3. ASSUME NEW S \in SUBSET Processes, Cardinality(S) = 1, p \in S, q \in S
        PROVE  p = q
    <3>1. IsFiniteSet(S)
      BY ProcessesAssumption, FS_Subset
    <3> QED
      BY <2>3, <3>1, FS_Singleton
  <2> HIDE DEF U, B
  <2> QED
    BY <1>3, <2>1, <2>2, <2>3 DEF U, B
<1> QED
  BY <1>1, <1>2, <1>3, ProcessSets

----------------------------------------------------------------------------
(* Steps of a call that leave handles and terms alone.                     *)

\* What the record of a call has to say for the invariant.
GoodCall(p, c) ==
  /\ c \in Calls
  /\ c.step \in { "returned", "args", "run" }
  /\ c.step = "args" => NewGuard(c.order, c.scheme)
  /\ c.step = "run" =>
       /\ c.hs \subseteq terms[p] /\ c.args \in Specs[c.fun]
       /\ c.ints \in [ IntArguments(c.args) -> Numbers ]

LEMMA OnlyCallChanges ==
  ASSUME Inv, NEW p \in Processes, NEW c, GoodCall(p, c),
         thrower = None, call[p].step \in { "returned", "args", "run" },
         call' = [call EXCEPT ![p] = c], UNCHANGED << thrower, handle, terms >>
  PROVE  Inv'
<1>1. c \in Calls /\ call \in [ Processes -> Calls ]
  BY DEF GoodCall, Inv, TypeOK, Calls
<1>2. /\ call'[p] = c
      /\ \A q \in Processes \ {p} : call'[q] = call[q]
  BY <1>1
<1>3. \A q \in Processes : \A h : Builds(q, h)' <=> Builds(q, h)
  BY <1>2 DEF GoodCall, Builds
<1>4. TypeOK'
  BY <1>1 DEF Inv, TypeOK, Calls
<1>5. NewInv'
  BY <1>2, <1>3 DEF Inv, NewInv, NewOK, GoodCall
<1>6. RunInv'
  BY <1>2 DEF Inv, RunInv, GoodCall
<1>7. RefsExact'
  BY <1>3 DEF Inv, RefsExact
<1>8. BaseThere'
  BY <1>2 DEF Inv, BaseThere, GoodCall
<1>9. RingAsAsked' /\ AbortsOnlyUnchecked'
  BY NifAssumption DEF Inv, RingAsAsked, AbortsOnlyUnchecked
<1> QED
  BY <1>4, <1>5, <1>6, <1>7, <1>8, <1>9 DEF Inv

\* The record that Return leaves.
LEMMA GoodReturn ==
  ASSUME NEW p \in Processes, NEW name \in Names, NEW value \in Values
  PROVE  GoodCall(p, Returned(name, value))
BY DEF GoodCall, Returned, Calls, ReturnedCalls

\* A call whose step is known is a record of that kind.
LEMMA CallKinds ==
  ASSUME Inv, NEW p \in Processes
  PROVE  /\ call[p].step = "returned" => call[p] \in ReturnedCalls
         /\ call[p].step \in { "args", "construct", "make", "release" } => call[p] \in NewCalls
         /\ call[p].step = "run" => call[p] \in FunctionCalls
         /\ call[p].fun \in Names
<1>1. call[p] \in ReturnedCalls \cup NewCalls \cup FunctionCalls
  BY DEF Inv, TypeOK
<1>2. call[p] \in ReturnedCalls => call[p].step = "returned" /\ call[p].fun \in Names
  BY DEF ReturnedCalls
<1>3. call[p] \in NewCalls =>
        call[p].step \in { "args", "construct", "make", "release" } /\ call[p].fun \in Names
  BY DEF NewCalls, Names
<1>4. call[p] \in FunctionCalls => call[p].step = "run" /\ call[p].fun \in Names
  BY DEF FunctionCalls, Names
<1> QED
  BY <1>1, <1>2, <1>3, <1>4

LEMMA CallNewStep ==
  ASSUME Inv, NEW p \in Processes, NEW order \in Numbers, NEW scheme \in { "ring", "nest" },
         CallNew(p, order, scheme) \/ NoClauseForNew(p, order, scheme)
  PROVE  Inv'
<1>1. CASE CallNew(p, order, scheme)
  <2> DEFINE c == [ step |-> "args", fun |-> "new", order |-> order, scheme |-> scheme, h |-> None ]
  <2>1. GoodCall(p, c)
    BY <1>1 DEF CallNew, GoodCall, Calls, NewCalls
  <2> QED
    BY <1>1, <2>1, OnlyCallChanges DEF CallNew, At
<1>2. CASE NoClauseForNew(p, order, scheme)
  <2>1. GoodCall(p, Returned("new", "function_clause"))
    BY GoodReturn DEF Names, Values
  <2> QED
    BY <1>2, <2>1, OnlyCallChanges DEF NoClauseForNew, At
<1> QED
  BY <1>1, <1>2

LEMMA NewBadargStep ==
  ASSUME Inv, NEW p \in Processes, NewBadarg(p)
  PROVE  Inv'
<1>1. call[p].fun = "new"
  BY CallKinds DEF NewBadarg, At, NewCalls
<1>2. GoodCall(p, Returned(call[p].fun, "badarg"))
  BY <1>1, GoodReturn DEF Names, Values
<1> QED
  BY <1>2, OnlyCallChanges DEF NewBadarg, At, Return

LEMMA CallFunctionStep ==
  ASSUME Inv, NEW p \in Processes, NEW name \in DOMAIN Specs, NEW args \in Specs[name],
         NEW ints \in [ IntArguments(args) -> Numbers ],
         NEW hs \in SUBSET terms[p], NEW good \in BOOLEAN, CallFunction(p, name, args, ints, hs, good)
  PROVE  Inv'
<1> DEFINE c == [ step |-> "run", fun |-> name, args |-> args,
                  ints |-> ints, hs |-> hs, good |-> good ]
<1>1. hs \in SUBSET Handles
  BY DEF Inv, TypeOK
<1>2. c \in FunctionCalls
  <2>1. IntArguments(args) \in SUBSET Nat
    BY DEF IntArguments
  <2>2. ints \in UNION { [ I -> Numbers ] : I \in SUBSET Nat }
    BY <2>1
  <2> QED
    BY <1>1, <2>2, Zenon DEF FunctionCalls
<1>3. GoodCall(p, c)
  BY <1>2 DEF GoodCall, Calls
<1> QED
  BY <1>3, OnlyCallChanges DEF CallFunction, At

\* The functions that run are the ones called, but for query_disc_inclusive,
\* whose arguments no function accepts.
LEMMA Bound ==
  ASSUME NEW name \in DOMAIN Specs, NEW args \in Specs[name], NEW ints
  PROVE  LET function == nif_funcs(name, Len(args))
         IN  /\ name # "query_disc_inclusive" => function = name
             /\ name = "query_disc_inclusive" => ~Accepts(function, args, ints)
             /\ name \in { "query_disc", "get_ring_info" } => Accepts(function, args, ints)
             /\ function \in DOMAIN Specs
<1>1. CASE name = "query_disc"
  <2>1. args \in { << "base", "float", "float", "float" >>,
                   << "base", "float", "float", "float", "float" >> }
    BY <1>1 DEF Specs
  <2>2. Accepts("query_disc", args, ints)
    BY <2>1 DEF Accepts
  <2> QED
    BY <1>1, <2>2 DEF nif_funcs, Specs
<1>2. CASE name = "query_disc_inclusive"
  <2>1. args \in { << "base", "float", "float", "float", "int" >>,
                   << "base", "float", "float", "float", "float", "int" >> }
    BY <1>2 DEF Specs
  <2>2. (Len(args) = 5 /\ args[5] = "int") \/ Len(args) = 6
    <3>1. CASE args = << "base", "float", "float", "float", "int" >>
      BY <3>1
    <3>2. CASE args = << "base", "float", "float", "float", "float", "int" >>
      BY <3>2
    <3> QED
      BY <2>1, <3>1, <3>2
  <2>3. 5 \in 2 .. 5 /\ 6 \notin {4, 5} /\ "int" # "float"
    OBVIOUS
  <2>4. ~ (Len(args) \in {4, 5} /\ \A i \in 2 .. Len(args) : args[i] = "float")
    BY <2>2, <2>3, Zenon
  <2>5. ~Accepts("query_disc", args, ints)
    BY <2>4, Zenon DEF Accepts
  <2>6. CASE Len(args) = 5
    BY <1>2, <2>5, <2>6 DEF nif_funcs, Specs
  <2>7. CASE Len(args) = 6
    BY <1>2, <2>3, <2>7 DEF nif_funcs, Accepts, Specs
  <2> QED
    BY <2>2, <2>6, <2>7
<1>3. CASE name \notin { "query_disc", "query_disc_inclusive" }
  <2>1. nif_funcs(name, Len(args)) = name
    BY <1>3 DEF nif_funcs
  <2> QED
    BY <1>3, <2>1 DEF Accepts
<1> QED
  BY <1>1, <1>2, <1>3

\* The integers of a call of boundaries_as_vec and of nside2order, npix2nside.
LEMMA IntegersOfCall ==
  /\ \A args \in Specs.boundaries_as_vec :
       args = << "base", "int", "int" >> /\ IntArguments(args) = {2, 3}
  /\ \A args \in Specs.nside2order \cup Specs.npix2nside : IntArguments(args) = {1}
<1>1. IntArguments(<< "base", "int", "int" >>) = {2, 3}
  BY DEF IntArguments
<1>2. IntArguments(<< "int" >>) = {1}
  BY DEF IntArguments
<1> QED
  BY <1>1, <1>2 DEF Specs

\* What the library ends on of what it is given, the caller may not mean.
LEMMA Ends ==
  ASSUME NEW c, c.fun \in DOMAIN Specs, c.args \in Specs[c.fun],
         c.good \in BOOLEAN, c.ints \in [ IntArguments(c.args) -> Numbers ],
         LET function == nif_funcs(c.fun, Len(c.args))
         IN  /\ Accepts(function, c.args, c.ints)
             /\ Throws(function, c.ints, c.good) \/ Undefined(function, c.good)
  PROVE  /\ ~Meaningful(c) /\ c.fun # "new"
         /\ c.fun \notin { "query_disc_inclusive", "get_ring_info", "conformable" }
         /\ c.fun = "boundaries_as_vec" => FitsIn(c.ints[3], IntBits)
<1>1. /\ c.fun # "query_disc_inclusive" /\ nif_funcs(c.fun, Len(c.args)) = c.fun
      /\ Accepts(c.fun, c.args, c.ints)
      /\ Throws(c.fun, c.ints, c.good) \/ Undefined(c.fun, c.good)
  BY Bound
<1>2. c.fun \in { "ang2pix", "query_disc", "nside2order", "npix2nside", "boundaries_as_vec",
                  "pix2ring" }
  BY <1>1 DEF Throws, Undefined, PixelFunctions
<1>3. ~Meaningful(c)
  <2>1. CASE c.fun \in { "ang2pix", "query_disc", "pix2ring" }
    BY <1>1, <2>1 DEF Throws, Undefined, PixelFunctions, Meaningful
  <2>2. CASE c.fun = "nside2order"
    <3>1. c.ints[1] \in Int
      BY <2>2, IntegersOfCall, NifAssumption
    <3> QED
      BY <1>1, <2>2, <3>1 DEF Throws, Undefined, PixelFunctions, Meaningful
  <2>3. CASE c.fun = "npix2nside"
    BY <1>1, <2>3 DEF Throws, Undefined, PixelFunctions, Meaningful
  <2>4. CASE c.fun = "boundaries_as_vec"
    <3>1. c.ints[3] \in Int
      BY <2>4, IntegersOfCall, NifAssumption
    <3> QED
      BY <1>1, <2>4, <3>1 DEF Throws, Undefined, PixelFunctions, Meaningful
  <2> QED
    BY <1>2, <2>1, <2>2, <2>3, <2>4
<1>4. ASSUME c.fun = "boundaries_as_vec"
      PROVE  FitsIn(c.ints[3], IntBits)
  <2>1. 3 \in IntArguments(c.args)
    BY <1>4, IntegersOfCall
  <2> QED
    BY <1>1, <1>4, <2>1 DEF Accepts, GetterBits
<1> QED
  BY <1>2, <1>3, <1>4

----------------------------------------------------------------------------
(* The virtual machine goes down.                                          *)

LEMMA ThrowStep ==
  ASSUME Inv, NEW p \in Processes, Throw(p),
         /\ ~Meaningful(call[p])
         /\ call[p].fun = "new" => call[p].scheme = "nest"
         /\ call[p].fun \notin { "query_disc_inclusive", "get_ring_info", "conformable" }
         /\ call[p].fun = "boundaries_as_vec" => FitsIn(call[p].ints[3], IntBits)
  PROVE  Inv'
<1>1. thrower' = p /\ UNCHANGED << handle, terms, call >>
  BY DEF Throw
<1>2. TypeOK' /\ NewInv' /\ RunInv' /\ RefsExact' /\ BaseThere' /\ RingAsAsked'
  BY <1>1 DEF Inv, TypeOK, NewInv, NewOK, RunInv, RefsExact, Builds, BaseThere, RingAsAsked
<1>3. AbortsOnlyUnchecked'
  BY <1>1 DEF AbortsOnlyUnchecked, Meaningful
<1> QED
  BY <1>2, <1>3 DEF Inv

\* A ring base is asked for with an order that a base can have.
LEMMA RingOrders ==
  ASSUME NEW order \in Int, NEW scheme, NewGuard(order, scheme)
  PROVE  scheme = "nest" \/ (scheme = "ring" /\ order \in 0 .. OrderMax /\ narrow(order) = order)
<1>1. CASE scheme = "nest"
  BY <1>1
<1>2. CASE order >= 0 /\ order <= 29 /\ scheme = "ring"
  <2>1. order \in 0 .. OrderMax
    BY <1>2, OrdersFit, NifAssumption
  <2> QED
    BY <1>2, <2>1, NarrowOrder
<1> QED
  BY <1>1, <1>2 DEF NewGuard

LEMMA ConstructionThrowsStep ==
  ASSUME Inv, NEW p \in Processes, ConstructionThrows(p)
  PROVE  Inv'
<1>1. /\ call[p] \in NewCalls /\ call[p].step = "construct"
      /\ narrow(call[p].order) \notin 0 .. OrderMax /\ Throw(p)
  BY CallKinds DEF ConstructionThrows, At
<1>2. call[p].fun = "new" /\ call[p].order \in Int /\ NewGuard(call[p].order, call[p].scheme)
  BY <1>1, NifAssumption DEF NewCalls, Inv, NewInv, NewOK
<1>3. call[p].scheme = "nest"
  BY <1>1, <1>2, RingOrders
<1>4. call[p].order \notin 0 .. OrderMax
  BY <1>1, NarrowOrder
<1>5. ~Meaningful(call[p])
  BY <1>2, <1>4 DEF Meaningful
<1> QED
  BY <1>1, <1>2, <1>3, <1>5, ThrowStep

LEMMA RunFunctionStep ==
  ASSUME Inv, NEW p \in Processes, RunFunction(p)
  PROVE  Inv'
<1> DEFINE c == call[p]
           function == nif_funcs(c.fun, Len(c.args))
<1>1. /\ At(p, "run") /\ c \in FunctionCalls /\ c.fun \in DOMAIN Specs
      /\ c.args \in Specs[c.fun] /\ c.ints \in [ IntArguments(c.args) -> Numbers ]
      /\ c.good \in BOOLEAN
  BY CallKinds DEF RunFunction, At, Inv, RunInv, FunctionCalls
<1>2. c.fun \in Names /\ "badarg" \in Values /\ Answer(function) \in Values
  BY <1>1 DEF Names, Values, Answer
<1>3. CASE Return(p, "badarg") /\ UNCHANGED << thrower, handle, terms >>
  BY <1>1, <1>2, <1>3, GoodReturn, OnlyCallChanges DEF At, Return
<1>4. CASE /\ Accepts(function, c.args, c.ints)
           /\ Throws(function, c.ints, c.good) \/ Undefined(function, c.good)
           /\ Throw(p)
  <2>1. /\ ~Meaningful(c) /\ c.fun # "new"
        /\ c.fun \notin { "query_disc_inclusive", "get_ring_info", "conformable" }
        /\ c.fun = "boundaries_as_vec" => FitsIn(c.ints[3], IntBits)
    BY <1>1, <1>4, Ends
  <2> QED
    BY <1>4, <2>1, ThrowStep
<1>5. CASE Return(p, Answer(function)) /\ UNCHANGED << thrower, handle, terms >>
  BY <1>1, <1>2, <1>5, GoodReturn, OnlyCallChanges DEF At, Return
<1> QED
  BY <1>3, <1>4, <1>5 DEF RunFunction

----------------------------------------------------------------------------
(* Steps that change a resource.                                           *)

\* RefsExact after a step that changes the references of one resource.
LEMMA RefsOfOne ==
  ASSUME Inv, NEW h \in Handles,
         \A g \in Handles \ {h} :
           handle'[g].refs = handle[g].refs /\ Users(g)' = Users(g) /\ Builders(g)' = Builders(g),
         handle'[h].refs = Cardinality(Users(h)') + Cardinality(Builders(h)')
  PROVE  RefsExact'
<1> SUFFICES ASSUME NEW g \in Handles
             PROVE  handle'[g].refs = Cardinality(Users(g)') + Cardinality(Builders(g)')
  BY DEF RefsExact, Users, Builders
<1>1. CASE g = h
  BY <1>1
<1>2. CASE g # h
  BY <1>2, Counts
<1> QED
  BY <1>1, <1>2

LEMMA AllocStep ==
  ASSUME Inv, NEW p \in Processes, Alloc(p)
  PROVE  Inv'
<1>1. call[p] \in NewCalls /\ call[p].step = "args" /\ thrower = None
  BY CallKinds DEF Alloc, At
<1>2. PICK h \in Free :
        /\ handle' = [handle EXCEPT ![h].refs = 1]
        /\ call' = [call EXCEPT ![p].step = "construct", ![p].h = h]
  BY DEF Alloc
<1>3. thrower' = None /\ terms' = terms
  BY <1>1 DEF Alloc
<1>4. h \in Handles /\ handle[h].refs = 0 /\ Users(h) = {} /\ Builders(h) = {}
  BY <1>2, Counts DEF Free
<1>5. /\ call' \in [ Processes -> Calls ]
      /\ \A q \in Processes \ {p} : call'[q] = call[q]
      /\ call'[p] = [call[p] EXCEPT !.step = "construct", !.h = h]
      /\ call'[p] \in NewCalls
  <2>1. call \in [ Processes -> Calls ]
    BY DEF Inv, TypeOK, Calls
  <2>2. call'[p] = [call[p] EXCEPT !.step = "construct", !.h = h]
    BY <1>2, <2>1
  <2>3. call'[p] \in NewCalls
    BY <1>1, <1>4, <2>2 DEF NewCalls
  <2> QED
    BY <1>2, <2>1, <2>2, <2>3 DEF Calls
<1>6. /\ call'[p].step = "construct" /\ call'[p].h = h
      /\ call'[p].order = call[p].order /\ call'[p].scheme = call[p].scheme
  BY <1>1, <1>5 DEF NewCalls
<1>7. /\ handle'[h].refs = 1
      /\ \A g \in Handles : handle'[g].base = handle[g].base /\ handle'[g].scheme = handle[g].scheme
                              /\ handle'[g].order = handle[g].order /\ handle'[g].asked = handle[g].asked
      /\ \A g \in Handles \ {h} : handle'[g] = handle[g]
  BY <1>2, <1>4 DEF Inv, TypeOK
<1>8. TypeOK'
  BY <1>2, <1>3, <1>4, <1>5, NifAssumption DEF Inv, TypeOK, Calls
<1>9. \A q \in Processes : \A g : Builds(q, g)' <=> (IF q = p THEN g = h ELSE Builds(q, g))
  BY <1>5, <1>6 DEF Builds
<1>10. NewInv'
  <2>1. \A q \in Processes : ~Builds(q, h) /\ h \notin terms[q]
    BY <1>4 DEF Users, Builders
  <2>2. \A q \in Processes : NewOK(q)
    BY DEF Inv, NewInv
  <2>3. NewOK(p)'
    BY <1>1, <1>3, <1>4, <1>6, <1>9, <2>1, <2>2 DEF NewOK
  <2>4. ASSUME NEW q \in Processes \ {p}
        PROVE  NewOK(q)'
    <3>1. call'[q] = call[q] /\ (Builds(q, h) <=> FALSE)
      BY <1>5, <2>1
    <3>2. call[q].step \in { "construct", "make", "release" } => call[q].h # h
      BY <3>1 DEF Builds
    <3> QED
      BY <1>3, <1>7, <1>9, <2>2, <3>1, <3>2 DEF NewOK
  <2> QED
    BY <2>3, <2>4 DEF NewInv
<1>11. RunInv'
  BY <1>3, <1>5, <1>6 DEF Inv, RunInv
<1>12. RefsExact'
  <2>1. \A g \in Handles \ {h} : Users(g)' = Users(g) /\ Builders(g)' = Builders(g)
    BY <1>1, <1>3, <1>9 DEF Users, Builders, Builds
  <2>2. Users(h)' = {} /\ Builders(h)' = {p}
    BY <1>3, <1>4, <1>9 DEF Users, Builders
  <2>3. Cardinality(Users(h)') = 0 /\ Cardinality(Builders(h)') = 1
    BY <2>2, FS_EmptySet, FS_Singleton
  <2> QED
    BY <1>4, <1>7, <2>1, <2>3, RefsOfOne
<1>13. BaseThere' /\ RingAsAsked'
  <2>1. \A q \in Processes : call'[q].step = "run" => call'[q] = call[q]
    BY <1>5, <1>6
  <2>2. \A q \in Processes : call[q].step = "run" => call[q].hs \subseteq Handles
    BY DEF Inv, TypeOK, RunInv
  <2>3. \A q \in Processes : terms[q] \subseteq Handles
    BY DEF Inv, TypeOK
  <2> QED
    BY <1>3, <1>7, <2>1, <2>2, <2>3 DEF Inv, BaseThere, RingAsAsked
<1>14. AbortsOnlyUnchecked'
  BY <1>3, <1>5, <1>6, NifAssumption DEF Inv, AbortsOnlyUnchecked
<1> QED
  BY <1>8, <1>10, <1>11, <1>12, <1>13, <1>14 DEF Inv

\* A step of new_base on a resource it builds: where its call is before and after.
LEMMA BuildingCall ==
  ASSUME Inv, NEW p \in Processes, At(p, "construct") \/ At(p, "make") \/ At(p, "release")
  PROVE  /\ call[p] \in NewCalls /\ call[p].h \in Handles /\ Builds(p, call[p].h)
         /\ thrower = None
         /\ NewOK(p)
         /\ handle[call[p].h].refs > 0
         /\ call \in [ Processes -> Calls ]
<1>1. call[p].step \in { "construct", "make", "release" } /\ thrower = None
  BY DEF At
<1>2. call[p] \in NewCalls /\ NewOK(p)
  BY <1>1, CallKinds DEF Inv, NewInv
<1>3. call[p].h \in Handles /\ Builds(p, call[p].h)
  BY <1>1, <1>2 DEF NewOK, Builds
<1>4. p \in Builders(call[p].h)
  BY <1>3 DEF Builders
<1>5. handle[call[p].h].refs # 0
  BY <1>3, <1>4, Counts
<1>6. handle[call[p].h].refs \in Nat /\ call \in [ Processes -> Calls ]
  BY <1>3 DEF Inv, TypeOK, Calls
<1> QED
  BY <1>1, <1>2, <1>3, <1>5, <1>6

LEMMA StepTo ==
  ASSUME Inv, NEW p \in Processes, At(p, "construct") \/ At(p, "make"),
         NEW step \in { "make", "release" }, Step(p, step)
  PROVE  /\ call' \in [ Processes -> Calls ]
         /\ \A q \in Processes \ {p} : call'[q] = call[q]
         /\ call'[p] \in NewCalls
         /\ call'[p].step = step /\ call'[p].h = call[p].h /\ call'[p].fun = "new"
         /\ call'[p].order = call[p].order /\ call'[p].scheme = call[p].scheme
         /\ \A q \in Processes : \A g : Builds(q, g)' <=> Builds(q, g)
<1>1. call[p] \in NewCalls /\ call \in [ Processes -> Calls ] /\ Builds(p, call[p].h)
  BY BuildingCall
<1>2. call'[p] = [call[p] EXCEPT !.step = step] /\ \A q \in Processes \ {p} : call'[q] = call[q]
  BY <1>1 DEF Step
<1>3. /\ call'[p] \in NewCalls
      /\ call'[p].step = step /\ call'[p].h = call[p].h /\ call'[p].fun = "new"
      /\ call'[p].order = call[p].order /\ call'[p].scheme = call[p].scheme
  BY <1>1, <1>2 DEF NewCalls
<1>4. call' \in [ Processes -> Calls ]
  BY <1>1, <1>2, <1>3 DEF Step, Calls
<1>5. \A q \in Processes : \A g : Builds(q, g)' <=> Builds(q, g)
  BY <1>1, <1>2, <1>3 DEF Builds
<1> QED
  BY <1>2, <1>3, <1>4, <1>5

LEMMA ConstructStep ==
  ASSUME Inv, NEW p \in Processes, Construct(p)
  PROVE  Inv'
<1> DEFINE h == call[p].h
           order == call[p].order
           scheme == call[p].scheme
<1>1. /\ thrower = None /\ thrower' = None /\ terms' = terms
      /\ narrow(order) \in 0 .. OrderMax
      /\ At(p, "construct") /\ Step(p, "make")
  BY DEF Construct, At
<1>2. /\ call[p] \in NewCalls /\ h \in Handles /\ Builds(p, h) /\ NewOK(p)
      /\ order \in Int /\ scheme \in { "ring", "nest" } /\ call[p].step = "construct"
  BY <1>1, BuildingCall, NifAssumption DEF NewCalls, At
<1>3. /\ handle' \in [ Handles -> [ refs : Nat, base : { "none", "built" }, order : Int,
                                    scheme : { "none", "ring", "nest" }, asked : Int ] ]
      /\ handle'[h] = [ refs |-> handle[h].refs, base |-> "built", order |-> narrow(order),
                        scheme |-> scheme, asked |-> order ]
      /\ \A g \in Handles \ {h} : handle'[g] = handle[g]
  <2>1. handle' = [handle EXCEPT ![h] =
                     [ refs |-> handle[h].refs, base |-> "built", order |-> narrow(order),
                       scheme |-> scheme, asked |-> order ]]
    BY DEF Construct
  <2>2. narrow(order) \in Int /\ handle[h].refs \in Nat
    BY <1>1, <1>2, NifAssumption DEF Inv, TypeOK
  <2> HIDE DEF h, order, scheme
  <2> QED
    BY <1>2, <2>1, <2>2 DEF Inv, TypeOK
<1>4. /\ \A g \in Handles : handle'[g].refs = handle[g].refs
      /\ \A g \in Handles : handle[g].base = "built" => handle'[g].base = "built"
      /\ handle'[h].base = "built"
  BY <1>3
<1> HIDE DEF h, order, scheme
<1>5. /\ call' \in [ Processes -> Calls ]
      /\ \A q \in Processes \ {p} : call'[q] = call[q]
      /\ call'[p].step = "make" /\ call'[p].h = h /\ call'[p].order = order /\ call'[p].scheme = scheme
      /\ \A q \in Processes : \A g : Builds(q, g)' <=> Builds(q, g)
  BY <1>1, StepTo DEF h, order, scheme
<1>6. TypeOK'
  BY <1>1, <1>3, <1>5 DEF Inv, TypeOK, Calls
<1>7. NewInv'
  <2>1. NewOK(p)'
    BY <1>1, <1>2, <1>4, <1>5 DEF NewOK, h, order, scheme
  <2>2. ASSUME NEW q \in Processes \ {p}
        PROVE  NewOK(q)'
    <3>1. NewOK(q)
      BY DEF Inv, NewInv
    <3> QED
      BY <1>1, <1>4, <1>5, <3>1 DEF NewOK
  <2> QED
    BY <2>1, <2>2 DEF NewInv
<1>8. RunInv'
  BY <1>1, <1>5 DEF Inv, RunInv
<1>9. RefsExact'
  BY <1>1, <1>4, <1>5 DEF Inv, RefsExact
<1>10. BaseThere'
  <2>1. \A q \in Processes : call'[q].step = "run" => call'[q] = call[q] /\ call[q].hs \subseteq Handles
    BY <1>5 DEF Inv, RunInv, TypeOK
  <2>2. \A q \in Processes : terms[q] \subseteq Handles
    BY DEF Inv, TypeOK
  <2> QED
    BY <1>1, <1>4, <2>1, <2>2 DEF Inv, BaseThere
<1>11. RingAsAsked'
  <2>1. scheme = "ring" => narrow(order) = order
    BY <1>2, RingOrders DEF NewOK, order, scheme
  <2> QED
    BY <1>3, <2>1 DEF Inv, RingAsAsked
<1>12. AbortsOnlyUnchecked'
  BY <1>1, <1>5, NifAssumption DEF Inv, AbortsOnlyUnchecked
<1> QED
  BY <1>6, <1>7, <1>8, <1>9, <1>10, <1>11, <1>12 DEF Inv

LEMMA MakeResourceStep ==
  ASSUME Inv, NEW p \in Processes, MakeResource(p)
  PROVE  Inv'
<1>0. PICK h : h = call[p].h
  OBVIOUS
<1>1. /\ thrower = None /\ thrower' = None
      /\ At(p, "make") /\ Step(p, "release") /\ call[p].step = "make"
  BY DEF MakeResource, At
<1>2. h \in Handles /\ Builds(p, h) /\ NewOK(p)
  BY <1>0, <1>1, BuildingCall
<1>3. /\ handle' \in [ Handles -> [ refs : Nat, base : { "none", "built" }, order : Int,
                                    scheme : { "none", "ring", "nest" }, asked : Int ] ]
      /\ \A g \in Handles : handle'[g].base = handle[g].base /\ handle'[g].scheme = handle[g].scheme
                              /\ handle'[g].order = handle[g].order /\ handle'[g].asked = handle[g].asked
      /\ handle'[h].refs = handle[h].refs + 1
      /\ \A g \in Handles \ {h} : handle'[g] = handle[g]
  <2>1. handle' = [handle EXCEPT ![h].refs = @ + 1]
    BY <1>0 DEF MakeResource
  <2> QED
    BY <1>2, <2>1 DEF Inv, TypeOK
<1>4. /\ terms' \in [ Processes -> SUBSET Handles ]
      /\ \A q \in Processes : terms'[q] = IF q = p THEN terms[p] \cup {h} ELSE terms[q]
  <2>1. terms' = [terms EXCEPT ![p] = @ \cup {h}]
    BY <1>0 DEF MakeResource
  <2> QED
    BY <1>2, <2>1 DEF Inv, TypeOK
<1>5. /\ call' \in [ Processes -> Calls ]
      /\ \A q \in Processes \ {p} : call'[q] = call[q]
      /\ call'[p].step = "release" /\ call'[p].h = h
      /\ call'[p].order = call[p].order /\ call'[p].scheme = call[p].scheme
      /\ \A q \in Processes : \A g : Builds(q, g)' <=> Builds(q, g)
  BY <1>0, <1>1, StepTo
<1>6. TypeOK'
  BY <1>1, <1>3, <1>4, <1>5 DEF Inv, TypeOK, Calls
<1>7. NewInv'
  <2>1. NewOK(p)'
    BY <1>0, <1>1, <1>2, <1>3, <1>5 DEF NewOK
  <2>2. ASSUME NEW q \in Processes \ {p}
        PROVE  NewOK(q)'
    <3>1. NewOK(q)
      BY DEF Inv, NewInv
    <3>2. ~Builds(q, h)
      BY <1>0, <1>1, <1>2 DEF NewOK
    <3>3. call[q].step \in { "construct", "make", "release" } => call[q].h # h
      BY <3>2 DEF Builds
    <3> QED
      BY <1>3, <1>4, <1>5, <3>1, <3>3 DEF NewOK
  <2> QED
    BY <2>1, <2>2 DEF NewInv
<1>8. RunInv'
  BY <1>4, <1>5 DEF Inv, RunInv
<1>9. RefsExact'
  <2>1. \A g \in Handles \ {h} : Users(g)' = Users(g) /\ Builders(g)' = Builders(g)
    BY <1>4, <1>5 DEF Users, Builders
  <2>2. Builders(h)' = Builders(h) /\ Users(h) = {} /\ Users(h)' = Users(h) \cup {p}
    BY <1>0, <1>1, <1>2, <1>4, <1>5 DEF Users, Builders, NewOK
  <2>3. Cardinality(Users(h)) = 0 /\ Cardinality(Users(h)') = 1
    BY <2>2, FS_EmptySet, FS_Singleton
  <2>4. /\ Builders(h)' = Builders(h)
        /\ handle[h].refs = Cardinality(Users(h)) + Cardinality(Builders(h))
        /\ Cardinality(Builders(h)) \in Nat
    BY <1>2, <2>2, Counts
  <2>5. handle'[h].refs = Cardinality(Users(h)') + Cardinality(Builders(h)')
    BY <1>3, <2>3, <2>4
  <2> QED
    BY <1>2, <1>3, <2>1, <2>5, RefsOfOne
<1>10. BaseThere' /\ RingAsAsked'
  <2>1. \A q \in Processes : call'[q].step = "run" => call'[q] = call[q] /\ call[q].hs \subseteq Handles
    BY <1>5 DEF Inv, RunInv, TypeOK
  <2>2. \A q \in Processes : terms[q] \subseteq Handles
    BY DEF Inv, TypeOK
  <2>3. handle[h].base = "built"
    BY <1>0, <1>1, <1>2 DEF NewOK
  <2> QED
    BY <1>2, <1>3, <1>4, <2>1, <2>2, <2>3 DEF Inv, BaseThere, RingAsAsked
<1>11. AbortsOnlyUnchecked'
  BY <1>1, <1>5, NifAssumption DEF Inv, AbortsOnlyUnchecked
<1> QED
  BY <1>6, <1>7, <1>8, <1>9, <1>10, <1>11 DEF Inv

\* One reference less.
LEMMA Dropping ==
  ASSUME Inv, NEW h \in Handles, handle[h].refs > 0,
         handle' = [handle EXCEPT ![h] = dropped(h)]
  PROVE  /\ handle' \in [ Handles -> [ refs : Nat, base : { "none", "built" }, order : Int,
                                       scheme : { "none", "ring", "nest" }, asked : Int ] ]
         /\ handle'[h].refs = handle[h].refs - 1
         /\ handle'[h] = IF handle[h].refs = 1 THEN NoBase ELSE [handle[h] EXCEPT !.refs = @ - 1]
         /\ \A g \in Handles \ {h} : handle'[g] = handle[g]
<1>1. handle \in [ Handles -> [ refs : Nat, base : { "none", "built" }, order : Int,
                                scheme : { "none", "ring", "nest" }, asked : Int ] ]
  BY DEF Inv, TypeOK
<1>2. dropped(h) \in [ refs : Nat, base : { "none", "built" }, order : Int,
                       scheme : { "none", "ring", "nest" }, asked : Int ]
  BY <1>1 DEF dropped, NoBase
<1>3. dropped(h).refs = handle[h].refs - 1
  BY <1>1 DEF dropped, NoBase
<1> QED
  BY <1>1, <1>2, <1>3 DEF dropped

LEMMA ReleaseStep ==
  ASSUME Inv, NEW p \in Processes, Release(p)
  PROVE  Inv'
<1>0. PICK h : h = call[p].h
  OBVIOUS
<1>1. /\ thrower = None /\ thrower' = None /\ terms' = terms
      /\ At(p, "release") /\ call[p].step = "release"
  BY DEF Release, At
<1>2. h \in Handles /\ Builds(p, h) /\ NewOK(p) /\ handle[h].refs > 0 /\ call[p].fun = "new"
  BY <1>0, <1>1, BuildingCall DEF NewCalls
<1>3. /\ handle' \in [ Handles -> [ refs : Nat, base : { "none", "built" }, order : Int,
                                    scheme : { "none", "ring", "nest" }, asked : Int ] ]
      /\ handle'[h].refs = handle[h].refs - 1
      /\ handle'[h] = IF handle[h].refs = 1 THEN NoBase ELSE [handle[h] EXCEPT !.refs = @ - 1]
      /\ \A g \in Handles \ {h} : handle'[g] = handle[g]
  BY <1>0, <1>2, Dropping DEF Release
<1>4. handle[h] \in [ refs : Nat, base : { "none", "built" }, order : Int,
                      scheme : { "none", "ring", "nest" }, asked : Int ]
  BY <1>2 DEF Inv, TypeOK
<1>5. /\ call' \in [ Processes -> Calls ]
      /\ \A q \in Processes \ {p} : call'[q] = call[q]
      /\ call'[p] = Returned("new", "base")
  <2>1. call' = [call EXCEPT ![p] = Returned("new", "base")] /\ call \in [ Processes -> Calls ]
    BY <1>1, <1>2, BuildingCall DEF Release, Return
  <2>2. Returned("new", "base") \in Calls
    BY DEF Returned, Calls, ReturnedCalls, Names, Values
  <2> QED
    BY <2>1, <2>2
<1>6. call'[p].step = "returned" /\ call'[p].value = "base"
  BY <1>5 DEF Returned
<1>7. \A q \in Processes : \A g : Builds(q, g)' <=> q # p /\ Builds(q, g)
  BY <1>5, <1>6 DEF Builds
<1>8. \A q \in Processes \ {p} : ~Builds(q, h)
  BY <1>0, <1>1, <1>2 DEF NewOK
<1>9. \A q \in Processes : h \in terms[q] => handle'[h].base = "built"
  <2> SUFFICES ASSUME NEW q \in Processes, h \in terms[q]
               PROVE  handle'[h].base = "built"
    OBVIOUS
  <2>1. q \in Users(h) /\ p \in Builders(h)
    BY <1>2 DEF Users, Builders
  <2>2. handle[h].refs # 1 /\ handle[h].base = "built"
    <3>1. Cardinality(Users(h)) # 0 /\ Cardinality(Builders(h)) # 0
      BY <1>2, <2>1, Counts, ProcessSets
    <3> QED
      BY <1>2, <3>1, Counts DEF Inv, BaseThere
  <2> QED
    BY <1>3, <1>4, <2>2
<1>10. TypeOK'
  BY <1>1, <1>3, <1>5 DEF Inv, TypeOK, Calls
<1>11. NewInv'
  <2>1. NewOK(p)'
    BY <1>6 DEF NewOK
  <2>2. ASSUME NEW q \in Processes \ {p}
        PROVE  NewOK(q)'
    <3>1. NewOK(q)
      BY DEF Inv, NewInv
    <3>2. call[q].step \in { "construct", "make", "release" } => call[q].h # h
      BY <1>8 DEF Builds
    <3> QED
      BY <1>1, <1>3, <1>5, <1>7, <3>1, <3>2 DEF NewOK
  <2> QED
    BY <2>1, <2>2 DEF NewInv
<1>12. RunInv'
  BY <1>1, <1>5, <1>6 DEF Inv, RunInv
<1>13. RefsExact'
  <2>1. \A g \in Handles \ {h} : Users(g)' = Users(g) /\ Builders(g)' = Builders(g)
    BY <1>1, <1>2, <1>7 DEF Users, Builders, Builds
  <2>2. p \in Builders(h) /\ Builders(h)' = Builders(h) \ {p} /\ Users(h)' = Users(h)
    BY <1>1, <1>2, <1>7 DEF Users, Builders
  <2>3. handle'[h].refs = Cardinality(Users(h)') + Cardinality(Builders(h)')
    BY <1>2, <1>3, <2>2, Counts, ProcessSets
  <2> QED
    BY <1>2, <1>3, <2>1, <2>3, RefsOfOne
<1>14. BaseThere'
  <2>1. \A q \in Processes, g \in Handles : g \in terms[q] => handle'[g].base = "built"
    BY <1>3, <1>9 DEF Inv, BaseThere
  <2>2. \A q \in Processes : call'[q].step = "run" => call'[q] = call[q] /\ call[q].hs \subseteq terms[q]
    BY <1>5, <1>6 DEF Inv, RunInv
  <2>3. \A q \in Processes : terms[q] \subseteq Handles
    BY DEF Inv, TypeOK
  <2> QED
    BY <1>1, <2>1, <2>2, <2>3 DEF BaseThere
<1>15. RingAsAsked'
  BY <1>2, <1>3, <1>4 DEF Inv, RingAsAsked, NoBase
<1>16. AbortsOnlyUnchecked'
  BY <1>1, <1>5, <1>6, NifAssumption DEF Inv, AbortsOnlyUnchecked
<1> QED
  BY <1>10, <1>11, <1>12, <1>13, <1>14, <1>15, <1>16 DEF Inv

LEMMA SendStep ==
  ASSUME Inv, NEW p \in Processes, NEW q \in Processes, NEW h \in Handles, Send(p, q, h)
  PROVE  Inv'
<1>1. /\ thrower = None /\ thrower' = None /\ call' = call
      /\ h \in terms[p] /\ h \notin terms[q]
  BY DEF Send, At
<1>2. handle[h].base = "built"
  BY <1>1 DEF Inv, BaseThere
<1>3. /\ handle' \in [ Handles -> [ refs : Nat, base : { "none", "built" }, order : Int,
                                    scheme : { "none", "ring", "nest" }, asked : Int ] ]
      /\ \A g \in Handles : handle'[g].base = handle[g].base /\ handle'[g].scheme = handle[g].scheme
                              /\ handle'[g].order = handle[g].order /\ handle'[g].asked = handle[g].asked
      /\ handle'[h].refs = handle[h].refs + 1
      /\ \A g \in Handles \ {h} : handle'[g] = handle[g]
  BY DEF Send, Inv, TypeOK
<1>4. /\ terms' \in [ Processes -> SUBSET Handles ]
      /\ \A r \in Processes : terms'[r] = IF r = q THEN terms[q] \cup {h} ELSE terms[r]
  BY DEF Send, Inv, TypeOK
<1>5. \A r \in Processes : \A g : Builds(r, g)' <=> Builds(r, g)
  BY <1>1 DEF Builds
<1>6. TypeOK'
  BY <1>1, <1>3, <1>4 DEF Inv, TypeOK
<1>7. NewInv'
  <2> SUFFICES ASSUME NEW r \in Processes
               PROVE  NewOK(r)'
    BY DEF NewInv
  <2>1. NewOK(r)
    BY DEF Inv, NewInv
  <2>2. call[r].step \in { "construct", "make" } => call[r].h # h
    BY <1>1, <2>1 DEF NewOK
  <2> QED
    BY <1>1, <1>3, <1>4, <1>5, <2>1, <2>2 DEF NewOK
<1>8. RunInv'
  BY <1>1, <1>4 DEF Inv, RunInv
<1>9. RefsExact'
  <2>1. \A g \in Handles \ {h} : Users(g)' = Users(g) /\ Builders(g)' = Builders(g)
    BY <1>4, <1>5 DEF Users, Builders
  <2>2. Builders(h)' = Builders(h) /\ q \notin Users(h) /\ Users(h)' = Users(h) \cup {q}
    BY <1>1, <1>4, <1>5 DEF Users, Builders
  <2>3. Cardinality(Users(h)') = Cardinality(Users(h)) + 1
    BY <2>2, Counts, ProcessSets
  <2>4. handle'[h].refs = Cardinality(Users(h)') + Cardinality(Builders(h)')
    BY <1>3, <2>2, <2>3, Counts
  <2> QED
    BY <1>3, <2>1, <2>4, RefsOfOne
<1>10. BaseThere' /\ RingAsAsked'
  <2>1. \A r \in Processes : call[r].step = "run" => call[r].hs \subseteq Handles
    BY DEF Inv, RunInv, TypeOK
  <2>2. \A r \in Processes : terms[r] \subseteq Handles
    BY DEF Inv, TypeOK
  <2> QED
    BY <1>1, <1>2, <1>3, <1>4, <2>1, <2>2 DEF Inv, BaseThere, RingAsAsked
<1>11. AbortsOnlyUnchecked'
  BY <1>1 DEF Inv, AbortsOnlyUnchecked
<1> QED
  BY <1>6, <1>7, <1>8, <1>9, <1>10, <1>11 DEF Inv

LEMMA ForgetStep ==
  ASSUME Inv, NEW p \in Processes, NEW h \in Handles, Forget(p, h)
  PROVE  Inv'
<1>1. /\ thrower = None /\ thrower' = None /\ call' = call
      /\ h \in terms[p] /\ call[p].step = "returned"
  BY DEF Forget, At
<1>2. p \in Users(h) /\ handle[h].refs > 0 /\ handle[h].refs \in Nat
  <2>1. p \in Users(h) /\ handle[h].refs \in Nat
    BY <1>1 DEF Users, Inv, TypeOK
  <2> QED
    BY <2>1, Counts
<1>3. /\ handle' \in [ Handles -> [ refs : Nat, base : { "none", "built" }, order : Int,
                                    scheme : { "none", "ring", "nest" }, asked : Int ] ]
      /\ handle'[h].refs = handle[h].refs - 1
      /\ handle'[h] = IF handle[h].refs = 1 THEN NoBase ELSE [handle[h] EXCEPT !.refs = @ - 1]
      /\ \A g \in Handles \ {h} : handle'[g] = handle[g]
  BY <1>2, Dropping DEF Forget
<1>4. handle[h] \in [ refs : Nat, base : { "none", "built" }, order : Int,
                      scheme : { "none", "ring", "nest" }, asked : Int ]
  BY DEF Inv, TypeOK
<1>5. /\ terms' \in [ Processes -> SUBSET Handles ]
      /\ \A q \in Processes : terms'[q] = IF q = p THEN terms[p] \ {h} ELSE terms[q]
  BY DEF Forget, Inv, TypeOK
<1>6. \A q \in Processes : \A g : Builds(q, g)' <=> Builds(q, g)
  BY <1>1 DEF Builds
<1>7. ASSUME NEW q \in Processes, q # p, h \in terms[q] \/ Builds(q, h)
      PROVE  handle[h].refs # 1
  <2>1. q \in Users(h) \cup Builders(h)
    BY <1>7 DEF Users, Builders
  <2> QED
    BY <1>2, <1>7, <2>1, Counts
<1>8. \A q \in Processes : q # p /\ (h \in terms[q] \/ Builds(q, h))
                             => handle'[h].base = handle[h].base
  BY <1>3, <1>4, <1>7
<1>9. TypeOK'
  BY <1>1, <1>3, <1>5 DEF Inv, TypeOK
<1>10. NewInv'
  <2> SUFFICES ASSUME NEW q \in Processes
               PROVE  NewOK(q)'
    BY DEF NewInv
  <2>1. NewOK(q)
    BY DEF Inv, NewInv
  <2>2. call[q].step \in { "make", "release" } => handle'[call[q].h].base = "built"
    BY <1>1, <1>3, <1>8, <2>1 DEF NewOK, Builds
  <2> QED
    BY <1>1, <1>5, <1>6, <2>1, <2>2 DEF NewOK
<1>11. RunInv'
  BY <1>1, <1>5 DEF Inv, RunInv
<1>12. RefsExact'
  <2>1. \A g \in Handles \ {h} : Users(g)' = Users(g) /\ Builders(g)' = Builders(g)
    BY <1>5, <1>6 DEF Users, Builders
  <2>2. Builders(h)' = Builders(h) /\ Users(h)' = Users(h) \ {p}
    BY <1>1, <1>5, <1>6 DEF Users, Builders
  <2>3. Cardinality(Users(h)') = Cardinality(Users(h)) - 1
    BY <1>2, <2>2, Counts, ProcessSets
  <2>4. handle'[h].refs = Cardinality(Users(h)') + Cardinality(Builders(h)')
    BY <1>3, <2>2, <2>3, Counts
  <2> QED
    BY <1>3, <2>1, <2>4, RefsOfOne
<1>13. BaseThere'
  <2>1. \A q \in Processes, g \in Handles : g \in terms'[q] => handle'[g].base = "built"
    BY <1>3, <1>5, <1>8 DEF Inv, BaseThere
  <2>2. \A q \in Processes : call[q].step = "run" => call[q].hs \subseteq terms'[q]
    BY <1>1, <1>5 DEF Inv, RunInv
  <2>3. \A q \in Processes : terms'[q] \subseteq Handles
    BY <1>5
  <2> QED
    BY <1>1, <2>1, <2>2, <2>3 DEF BaseThere
<1>14. RingAsAsked'
  BY <1>3, <1>4 DEF Inv, RingAsAsked, NoBase
<1>15. AbortsOnlyUnchecked'
  BY <1>1 DEF Inv, AbortsOnlyUnchecked
<1> QED
  BY <1>9, <1>10, <1>11, <1>12, <1>13, <1>14, <1>15 DEF Inv

----------------------------------------------------------------------------
(* The invariant, and what follows from it.                                *)

LEMMA InitInv == Init => Inv
<1> SUFFICES ASSUME Init
             PROVE  Inv
  OBVIOUS
<1>1. \A p \in Processes : /\ call[p] = Returned("none", "none")
                           /\ call[p].step = "returned" /\ call[p].value = "none"
                           /\ terms[p] = {}
  BY DEF Init, Returned
<1>2. \A h \in Handles : handle[h] = NoBase /\ handle[h].refs = 0 /\ handle[h].base = "none"
  BY DEF Init, NoBase
<1>3. TypeOK
  BY DEF Init, TypeOK, NoBase, Returned, ReturnedCalls, Names, Values
<1>4. NewInv /\ RunInv /\ BaseThere /\ RingAsAsked
  BY <1>1, <1>2 DEF NewInv, NewOK, RunInv, BaseThere, RingAsAsked
<1>5. RefsExact
  <2> SUFFICES ASSUME NEW h \in Handles
               PROVE  handle[h].refs = Cardinality(Users(h)) + Cardinality(Builders(h))
    BY DEF RefsExact, Users, Builders
  <2>1. Users(h) = {} /\ Builders(h) = {}
    BY <1>1 DEF Users, Builders, Builds
  <2> QED
    BY <1>2, <2>1, FS_EmptySet
<1>6. AbortsOnlyUnchecked
  BY NifAssumption DEF Init, AbortsOnlyUnchecked
<1> QED
  BY <1>3, <1>4, <1>5, <1>6 DEF Inv

LEMMA ProceedStep ==
  ASSUME Inv, NEW p \in Processes, Proceed(p)
  PROVE  Inv'
BY NewBadargStep, AllocStep, ConstructionThrowsStep, ConstructStep, MakeResourceStep, ReleaseStep,
   RunFunctionStep DEF Proceed

LEMMA BeginStep ==
  ASSUME Inv, NEW p \in Processes, Begin(p)
  PROVE  Inv'
BY CallNewStep, CallFunctionStep, ForgetStep, SendStep DEF Begin

LEMMA StutterStep == Inv /\ UNCHANGED vars => Inv'
BY DEF vars, Inv, TypeOK, NewInv, NewOK, RunInv, RefsExact, Builds, BaseThere, RingAsAsked,
       AbortsOnlyUnchecked

\* Inv is an invariant: for any number of processes and resources, in any
\* interleaving of their calls.
THEOREM HandleInvariance == Spec => []Inv
<1>1. Inv /\ [Next]_vars => Inv'
  BY ProceedStep, BeginStep, StutterStep DEF Next, Stopped
<1> QED
  BY InitInv, <1>1, PTL DEF Spec

\* A reference count is the number of terms and builders that hold the
\* resource (enif_alloc_resource, enif_make_resource, enif_release_resource).
THEOREM ReferencesExact == Spec => []RefsExact
<1>1. Inv => RefsExact
  BY DEF Inv
<1> QED
  BY HandleInvariance, <1>1, PTL

\* Every handle a process has, and every handle a call runs on, points to a
\* base that new_base constructed and no destructor has run on.
THEOREM BasesThere == Spec => []BaseThere
<1>1. Inv => BaseThere
  BY DEF Inv
<1> QED
  BY HandleInvariance, <1>1, PTL

\* The guard of hearlpix:new/2 keeps the conversion of a ring base's order to
\* int from changing it.
THEOREM RingOrdersAsAsked == Spec => []RingAsAsked
<1>1. Inv => RingAsAsked
  BY DEF Inv
<1> QED
  BY HandleInvariance, <1>1, PTL

\* No call with meaningful arguments ends the virtual machine, and none of those
\* that hearlpix:new/2, the getters and the table of NIFs keep from the library.
THEOREM AbortsKnown == Spec => []AbortsOnlyUnchecked
<1>1. Inv => AbortsOnlyUnchecked
  BY DEF Inv
<1> QED
  BY HandleInvariance, <1>1, PTL

\* No call that respects its -spec line raises badarg but those of
\* query_disc_inclusive and those with an integer too wide for its getter.
THEOREM BadargCallsKnown == Spec => BadargsKnown
<1> DEFINE Known ==
      \A p \in Processes :
        call[p].step # "returned" /\ call'[p] = Returned(call[p].fun, "badarg")
          => \/ call[p].fun = "query_disc_inclusive"
             \/ TooWide(call[p]) /\ call[p].fun # "get_ring_info"
<1>1. Inv /\ [Next]_vars => [Known]_vars
  <2> SUFFICES ASSUME Inv, Next, NEW p \in Processes,
                      call[p].step # "returned", call'[p] = Returned(call[p].fun, "badarg")
               PROVE  \/ call[p].fun = "query_disc_inclusive"
                      \/ TooWide(call[p]) /\ call[p].fun # "get_ring_info"
    OBVIOUS
  <2>1. /\ call \in [ Processes -> Calls ]
        /\ call'[p].step = "returned" /\ call'[p].value = "badarg"
    BY DEF Inv, TypeOK, Calls, Returned
  <2>2. PICK q \in Processes : Begin(q) \/ Proceed(q)
    BY <2>1 DEF Next, Stopped, vars
  <2>3. CASE Begin(q)
    <3>1. call' = call \/ call[q].step = "returned"
      BY <2>3 DEF Begin, CallNew, NoClauseForNew, CallFunction, Send, Forget, At
    <3>2. q # p => call'[p] = call[p]
      BY <2>1, <2>3 DEF Begin, CallNew, NoClauseForNew, CallFunction, Send, Forget
    <3> QED
      BY <2>1, <3>1, <3>2
  <2>4. CASE Proceed(q)
    <3>1. q = p
      <4> SUFFICES ASSUME q # p
                   PROVE  call'[p] = call[p]
        BY <2>1
      <4> QED
        BY <2>1, <2>4 DEF Proceed, NewBadarg, Alloc, ConstructionThrows, Construct, MakeResource,
             Release, RunFunction, Return, Step, Throw
    <3>2. CASE NewBadarg(p)
      <4>1. call[p].fun = "new" /\ call[p].step = "args" /\ TooWide(call[p])
        BY <3>2, CallKinds DEF NewBadarg, At, NewCalls, TooWide
      <4> QED
        BY <4>1
    <3>3. CASE RunFunction(p)
      <4> DEFINE c == call[p]
                 function == nif_funcs(c.fun, Len(c.args))
      <4>1. /\ c.step = "run" /\ c.fun \in DOMAIN Specs /\ c.args \in Specs[c.fun]
            /\ c.ints \in [ IntArguments(c.args) -> Numbers ]
        BY <3>3, CallKinds DEF RunFunction, At, Inv, RunInv, FunctionCalls
      <4>2. ~Accepts(function, c.args, c.ints)
        <5>1. \A value \in { Answer(function) } : value # "badarg"
          BY DEF Answer
        <5>2. ASSUME Return(p, Answer(function))
              PROVE  FALSE
          BY <2>1, <5>1, <5>2 DEF Return, Returned
        <5>3. ~Throw(p)
          BY <2>1 DEF Throw
        <5> QED
          BY <3>3, <5>2, <5>3 DEF RunFunction
      <4>3. CASE c.fun # "query_disc_inclusive"
        <5>1. function = c.fun /\ c.fun \notin { "query_disc", "get_ring_info" }
          BY <4>1, <4>2, <4>3, Bound
        <5>2. PICK i \in IntArguments(c.args) : ~FitsIn(c.ints[i], GetterBits(c.fun, i))
          BY <4>1, <4>2, <4>3, <5>1 DEF Accepts
        <5>3. TooWide(c)
          BY <4>1, <5>2 DEF TooWide, GetterBits
        <5> QED
          BY <5>1, <5>3
      <4> QED
        BY <4>3
    <3> QED
      BY <2>1, <2>4, <3>1, <3>2, <3>3 DEF Proceed, Alloc, ConstructionThrows, Construct,
           MakeResource, Release, Return, Returned, Step, Throw, At
  <2> QED
    BY <2>2, <2>3, <2>4
<1> QED
  BY HandleInvariance, <1>1, PTL DEF Spec, BadargsKnown

\* The destructor runs on constructed bases only: its delete meets no
\* uninitialized pointer.
THEOREM DestructorMeetsBuilt == Spec => DestroysBuilt
<1> DEFINE Destroys ==
      \A h \in Handles : handle[h].refs > 0 /\ handle'[h].refs = 0 => handle[h].base = "built"
<1>1. Inv /\ [Next]_vars => [Destroys]_vars
  <2> SUFFICES ASSUME Inv, Next, NEW g \in Handles, handle[g].refs > 0, handle'[g].refs = 0
               PROVE  handle[g].base = "built"
    OBVIOUS
  <2>1. handle \in [ Handles -> [ refs : Nat, base : { "none", "built" }, order : Int,
                                  scheme : { "none", "ring", "nest" }, asked : Int ] ]
    BY DEF Inv, TypeOK
  <2>2. PICK p \in Processes : Begin(p) \/ Proceed(p)
    BY DEF Next, Stopped, vars
  <2>3. ASSUME NEW h \in Handles, Forget(p, h) 
        PROVE  handle[g].base = "built"
    <3>1. g = h
      BY <2>1, <2>3 DEF Forget
    <3> QED
      BY <2>3, <3>1 DEF Forget, Inv, BaseThere
  <2>4. CASE Release(p)
    <3>1. g = call[p].h
      BY <2>1, <2>4 DEF Release
    <3> QED
      BY <2>4, <3>1 DEF Release, At, Inv, NewInv, NewOK
  <2>5. ASSUME NEW q \in Processes, NEW h \in Handles, Send(p, q, h) 
        PROVE  FALSE
    BY <2>1, <2>5 DEF Send
  <2>6. CASE Alloc(p)
    BY <2>1, <2>6 DEF Alloc, Free
  <2>7. CASE Construct(p)
    BY <2>1, <2>7 DEF Construct
  <2>8. CASE MakeResource(p)
    BY <2>1, <2>8 DEF MakeResource
  <2>9. CASE UNCHANGED handle
    BY <2>9
  <2> QED
    BY <2>2, <2>3, <2>4, <2>5, <2>6, <2>7, <2>8, <2>9
    DEF Begin, Proceed, CallNew, NoClauseForNew, NewBadarg, ConstructionThrows, Throw,
        RunFunction, CallFunction
<1> QED
  BY HandleInvariance, <1>1, PTL DEF Spec, DestroysBuilt

=============================================================================
