--------------------------- MODULE ResolverProofs ---------------------------
(***************************************************************************)
(* Proofs about Resolver, for any set of addresses, any address tables and *)
(* any answers of the probes.                                              *)
(***************************************************************************)
EXTENDS ResolverOracle, TLAPS, SequenceTheorems, FiniteSetTheorems

-----------------------------------------------------------------------------
(* What the three ways to change a stack of frames do to it.               *)

(* Pushing an activation (a call of resolveOne) keeps those below it.       *)
LEMMA Pushed ==
  ASSUME NEW s \in Seq(Frame), NEW n \in Names
  PROVE  LET t == Append(s, [name |-> n, src |-> 1, tr |-> 1]) IN
         /\ t \in Seq(Frame)
         /\ Len(t) = Len(s) + 1
         /\ \A i \in 1 .. Len(s) : t[i] = s[i]
         /\ t[Len(s) + 1].name = n
<1> DEFINE f == [name |-> n, src |-> 1, tr |-> 1]
<1>1. f \in Frame
  BY DEF Frame
<1>2. f.name = n
  OBVIOUS
<1> HIDE DEF f
<1>3. /\ Append(s, f) \in Seq(Frame)
      /\ Len(Append(s, f)) = Len(s) + 1
      /\ \A i \in 1 .. Len(s) : Append(s, f)[i] = s[i]
      /\ Append(s, f)[Len(s) + 1] = f
  BY <1>1, AppendProperties
<1> QED
  BY <1>2, <1>3 DEF f

(* Returning from an activation keeps those below it.                       *)
LEMMA Popped ==
  ASSUME NEW s \in Seq(Frame), s # <<>>
  PROVE  LET t == SubSeq(s, 1, Len(s) - 1) IN
         /\ t \in Seq(Frame)
         /\ Len(t) = Len(s) - 1
         /\ \A i \in 1 .. Len(t) : t[i] = s[i]
<1>1. Len(s) \in Nat \ {0}
  BY EmptySeq
<1>2. \A i \in 1 .. Len(s) - 1 : s[i] \in Frame
  BY <1>1, ElementOfSeq
<1> DEFINE t == SubSeq(s, 1, Len(s) - 1)
<1>3. 1 \in Int /\ Len(s) - 1 \in Int
  BY <1>1
<1>4. /\ t \in Seq(Frame)
      /\ Len(t) = IF 1 <= Len(s) - 1 THEN (Len(s) - 1) - 1 + 1 ELSE 0
      /\ \A i \in 1 .. (Len(s) - 1) - 1 + 1 : t[i] = s[1 + i - 1]
  BY <1>2, <1>3, SubSeqProperties
<1> HIDE DEF t
<1>5. ASSUME NEW n \in Nat \ {0}, NEW m, m = IF 1 <= n - 1 THEN (n - 1) - 1 + 1 ELSE 0
      PROVE  m = n - 1 /\ (n - 1) - 1 + 1 = m
  BY <1>5
<1>6. Len(t) = Len(s) - 1 /\ (Len(s) - 1) - 1 + 1 = Len(t)
  BY <1>1, <1>4, <1>5
<1>7. \A i \in 1 .. Len(t) : t[i] = s[i]
  BY <1>1, <1>4, <1>6
<1> QED
  BY <1>4, <1>6, <1>7 DEF t

(* NextSource and ApplyTransformer replace the last frame by one of the    *)
(* same name.                                                              *)
LEMMA Replaced ==
  ASSUME NEW s \in Seq(Frame), s # <<>>, NEW f \in Frame, f.name = s[Len(s)].name
  PROVE  LET t == [s EXCEPT ![Len(s)] = f] IN
         /\ t \in Seq(Frame)
         /\ Len(t) = Len(s)
         /\ \A i \in 1 .. Len(s) : t[i].name = s[i].name
<1>1. Len(s) \in 1 .. Len(s)
  BY EmptySeq
<1> QED
  BY <1>1, ExceptSeq

-----------------------------------------------------------------------------
(* How the actions can change the stack.  None disturbs a frame that is    *)
(* not the last, and none changes the name of a frame.                     *)

SameNames ==
  /\ Len(stack') = Len(stack)
  /\ \A i \in 1 .. Len(stack) : stack'[i].name = stack[i].name

Push(n) ==
  /\ n \in Names
  /\ table[n] = Unset
  /\ Len(stack') = Len(stack) + 1
  /\ \A i \in 1 .. Len(stack) : stack'[i].name = stack[i].name
  /\ stack'[Len(stack) + 1].name = n

Pop ==
  /\ Len(stack') = Len(stack) - 1
  /\ \A i \in 1 .. Len(stack') : stack'[i].name = stack[i].name

(* The running activation and the lists it walks have their types.          *)
LEMMA TopFrame ==
  ASSUME TypeOK, stack # <<>>
  PROVE  /\ Depth \in Nat \ {0}
         /\ Top \in Frame
         /\ Top.name \in Names
         /\ Sources \in Seq(Source)
         /\ Transformers \in Seq(Transformer)
<1>1. Depth \in Nat \ {0}
  BY EmptySeq DEF TypeOK, Depth
<1>2. Top \in Frame
  BY <1>1, ElementOfSeq DEF TypeOK, Depth, Top
<1>3. Top.name \in Names
  BY <1>2 DEF Frame
<1>4. list[Top.name] \in Entry
  BY <1>3 DEF TypeOK
<1> QED
  BY <1>1, <1>2, <1>3, <1>4 DEF Entry, Sources, Transformers

(* Resolver.resolveOne answers from the table or pushes one activation.     *)
LEMMA ResolveOneStack ==
  ASSUME TypeOK, NEW n, ResolveOne(n)
  PROVE  /\ stack' \in Seq(Frame)
         /\ ret' \in Result
         /\ stack' = stack \/ (Push(n) /\ ret' = Pending)
<1>1. CASE n \in Names /\ table[n] # Unset /\ ret' = Ok(table[n]) /\ stack' = stack
  BY <1>1 DEF TypeOK, Ok, Result
<1>2. CASE n \notin Names /\ ret' = Failed /\ stack' = stack
  BY <1>2 DEF TypeOK, Failed, Result
<1>3. CASE /\ n \in Names /\ table[n] = Unset /\ ret' = Pending
           /\ stack' = Append(stack, [name |-> n, src |-> 1, tr |-> 1])
  <2>1. /\ stack' \in Seq(Frame)
        /\ Len(stack') = Len(stack) + 1
        /\ \A i \in 1 .. Len(stack) : stack'[i] = stack[i]
        /\ stack'[Len(stack) + 1].name = n
    BY <1>3, Pushed DEF TypeOK
  <2> QED
    BY <1>3, <2>1 DEF Push, Pending, Result
<1> QED
  BY <1>1, <1>2, <1>3 DEF ResolveOne

(* Moving to the next source keeps the names on the stack.                  *)
LEMMA NextSourceStack ==
  ASSUME TypeOK, NextSource
  PROVE  stack' \in Seq(Frame) /\ SameNames
<1> DEFINE f == [Top EXCEPT !.src = @ + 1, !.tr = 1]
<1>1. stack # <<>>
  BY DEF NextSource, InCall
<1>2. f \in Frame /\ f.name = Top.name
  <2> DEFINE g == [Top EXCEPT !.src = @ + 1]
  <2>1. Top \in Frame
    BY <1>1, TopFrame
  <2>2. g \in Frame /\ g.name = Top.name
    BY <2>1 DEF Frame
  <2>3. f = [g EXCEPT !.tr = 1]
    BY <2>1 DEF Frame
  <2> HIDE DEF f, g
  <2> QED
    BY <2>2, <2>3 DEF Frame
<1>3. stack' = [stack EXCEPT ![Len(stack)] = f]
  BY DEF NextSource, Depth, Top, TypeOK
<1> HIDE DEF f
<1> QED
  BY <1>1, <1>2, <1>3, Replaced DEF TypeOK, SameNames, Top, Depth

(* Applying a transformer keeps the names on the stack.                     *)
LEMMA ApplyTransformerStack ==
  ASSUME TypeOK, ApplyTransformer
  PROVE  stack' \in Seq(Frame) /\ SameNames
<1> DEFINE f == [Top EXCEPT !.tr = @ + 1]
<1>1. stack # <<>>
  BY DEF ApplyTransformer, InCall
<1>2. f \in Frame /\ f.name = Top.name
  BY <1>1, TopFrame DEF Frame
<1>3. stack' = [stack EXCEPT ![Len(stack)] = f]
  BY DEF ApplyTransformer, Depth, Top, TypeOK
<1> HIDE DEF f
<1> QED
  BY <1>1, <1>2, <1>3, Replaced DEF TypeOK, SameNames, Top, Depth

(* Finishing an entry pops exactly one activation.                          *)
LEMMA FinishEntryStack ==
  ASSUME TypeOK, FinishEntry
  PROVE  stack' \in Seq(Frame) /\ Pop
<1>1. stack # <<>> /\ stack' = SubSeq(stack, 1, Len(stack) - 1)
  BY DEF FinishEntry, InCall, Depth
<1> QED
  BY <1>1, Popped DEF TypeOK, Pop

(* A transformer leaves a value that the loop can inspect.                  *)
LEMMA ApplyTransformerRet ==
  ASSUME TypeOK, ApplyTransformer
  PROVE  ret' \in Result
<1>1. stack # <<>> /\ Top.tr \in Nat \ {0} /\ Top.tr <= Len(Transformers)
  BY TopFrame DEF ApplyTransformer, InCall, Frame
<1>2. Transformers[Top.tr] \in [IPs \cup {NoIP} -> IPs \cup {NoIP}]
  <2>1. Transformers \in Seq(Transformer) /\ Len(Transformers) \in Nat
    BY <1>1, TopFrame, LenProperties
  <2>2. Top.tr \in 1 .. Len(Transformers)
    BY <1>1, <2>1
  <2>3. Transformers[Top.tr] \in Transformer
    BY <2>1, <2>2, ElementOfSeq
  <2> QED
    BY <2>3 DEF Transformer
<1>3. ret.ip \in IPs \cup {NoIP}
  BY DEF TypeOK, Result
<1>4. Transformers[Top.tr][ret.ip] \in IPs \cup {NoIP}
  BY <1>2, <1>3
<1> QED
  BY <1>4 DEF ApplyTransformer, Answer, Failed, Ok, Result

-----------------------------------------------------------------------------
(* Every step keeps the types.                                              *)
LEMMA TypeInductive == TypeOK /\ [Next]_vars => TypeOK'
<1> SUFFICES ASSUME TypeOK, [Next]_vars PROVE TypeOK'
  OBVIOUS
<1>1. CASE UNCHANGED vars
  BY <1>1 DEF TypeOK, vars
<1>2. ASSUME NEW n \in Names, PickName(n) PROVE TypeOK'
  BY <1>2, ResolveOneStack DEF PickName, TypeOK
<1>3. ASSUME NEW t \in Refs, LookupReference(t) PROVE TypeOK'
  <2>1. CASE StartChain(t)
    BY <2>1, ResolveOneStack DEF StartChain, TypeOK
  <2>2. CASE ExtendChain(t)
    BY <2>2, ResolveOneStack DEF ExtendChain, TypeOK
  <2>3. CASE ReportLoop(t)
    BY <2>3 DEF ReportLoop, TypeOK, Failed, Result
  <2> QED
    BY <1>3, <2>1, <2>2, <2>3 DEF LookupReference
<1>4. ASSUME NEW p \in Probes, LookupProbe(p) PROVE TypeOK'
  BY <1>4 DEF LookupProbe, TypeOK, Answer, Failed, Ok, Result
<1>5. CASE ApplyTransformer
  BY <1>5, ApplyTransformerStack, ApplyTransformerRet DEF ApplyTransformer, TypeOK
<1>6. CASE NextSource
  BY <1>6, NextSourceStack DEF NextSource, TypeOK, Pending, Result
<1>7. CASE FinishEntry
  <2>1. ret.ip \in IPs \cup {NoIP}
    BY DEF TypeOK, Result
  <2>2. table' \in [Names -> IPs \cup {NoIP, Unset}]
    BY <1>7, <2>1 DEF FinishEntry, TypeOK
  <2>3. ret' \in Result
    BY <1>7, <2>1 DEF FinishEntry, Answer, Failed, Ok, Result
  <2> QED
    BY <1>7, <2>2, <2>3, FinishEntryStack DEF FinishEntry, TypeOK
<1>8. CASE NextName \/ Abort \/ Complete \/ NetworkChanges
  BY <1>8, ResolverAssumption
     DEF NextName, Abort, Complete, NetworkChanges, TypeOK, Pending, Result
<1>9. CASE NewPass
  BY <1>9, ResolverAssumption DEF NewPass, TypeOK, Pending, Result
<1> QED
  BY <1>1, <1>2, <1>3, <1>4, <1>5, <1>6, <1>7, <1>8, <1>9 DEF Next, Internal

(* The variables of a pass keep their types: in particular the table only  *)
(* ever holds addresses or nil, and every frame is of a configured name.   *)
THEOREM TypeCorrect == Spec => []TypeOK
<1>1. Init => TypeOK
  BY ResolverAssumption, EmptySeq DEF Init, TypeOK, Pending, Result
<1> QED
  BY <1>1, TypeInductive, PTL DEF Spec

-----------------------------------------------------------------------------
(* A name leaves left when it enters the table, and both start a pass anew. *)
LEMMA LeftInductive == TypeOK /\ LeftIsUnresolved /\ [Next]_vars => LeftIsUnresolved'
<1> SUFFICES ASSUME TypeOK, LeftIsUnresolved, [Next]_vars PROVE LeftIsUnresolved'
  OBVIOUS
<1>1. CASE UNCHANGED <<left, table>>
  BY <1>1 DEF LeftIsUnresolved
<1>2. CASE FinishEntry
  <2>1. Top.name \in Names
    BY <1>2, TopFrame DEF FinishEntry, InCall
  <2>2. ret.ip # Unset
    BY ResolverAssumption DEF TypeOK, Result
  <2>3. \A n \in Names : table'[n] = IF n = Top.name THEN ret.ip ELSE table[n]
    BY <1>2, <2>1 DEF FinishEntry, TypeOK
  <2> QED
    BY <1>2, <2>2, <2>3 DEF FinishEntry, LeftIsUnresolved
<1>3. CASE NewPass
  BY <1>3 DEF NewPass, LeftIsUnresolved
<1>4. FinishEntry \/ NewPass \/ UNCHANGED <<left, table>>
  BY DEF vars, Next, Internal, PickName, LookupReference, StartChain, ExtendChain,
         ReportLoop, LookupProbe, ApplyTransformer, NextSource, NextName, Abort,
         Complete, NetworkChanges
<1> QED
  BY <1>1, <1>2, <1>3, <1>4

(* The loop of Resolve in resolver.go ends because resolveOne removes from *)
(* left exactly the names it enters into the result table: a name is in    *)
(* one of the two and never in both.                                       *)
THEOREM LeftCorrect == Spec => []LeftIsUnresolved
<1>1. Init => LeftIsUnresolved
  BY DEF Init, LeftIsUnresolved
<1> QED
  BY <1>1, LeftInductive, TypeCorrect, PTL DEF Spec

-----------------------------------------------------------------------------
(* Resolve fails because of an address that it has found to have no value, *)
(* and when it succeeds it has been through all of them.                   *)
PassOutcome ==
  /\ Resolving /\ stack = <<>> /\ ret.st = "err" => \E n \in Names : table[n] = NoIP
  /\ phase = "failed" => \E n \in Names : table[n] = NoIP
  /\ phase = "resolved" => left = {}

(* Every step keeps that: the call that fails has entered nil in the table. *)
LEMMA OutcomeInductive ==
  TypeOK /\ LeftIsUnresolved /\ PassOutcome /\ [Next]_vars => PassOutcome'
<1> SUFFICES ASSUME TypeOK, LeftIsUnresolved, PassOutcome, [Next]_vars PROVE PassOutcome'
  OBVIOUS
<1>1. CASE UNCHANGED <<phase, left, table, stack, ret>>
  BY <1>1 DEF PassOutcome, Resolving
<1>2. ASSUME NEW n \in Names, PickName(n) PROVE PassOutcome'
  <2>1. ret'.st # "err"
    <3>1. table[n] = Unset
      BY <1>2 DEF PickName, LeftIsUnresolved
    <3> QED
      BY <1>2, <3>1 DEF PickName, ResolveOne, Pending
  <2> QED
    BY <1>2, <2>1 DEF PickName, Resolving, PassOutcome
<1>3. ASSUME InCall, phase' = phase, stack' # <<>> PROVE PassOutcome'
  BY <1>3 DEF InCall, Resolving, PassOutcome
<1>4. ASSUME NEW t \in Refs, LookupReference(t) PROVE PassOutcome'
  <2>1. InCall /\ phase' = phase /\ (stack' = stack \/ ResolveOne(t))
    BY <1>4 DEF LookupReference, StartChain, ExtendChain, ReportLoop, AtSource
  <2>2. stack' # <<>>
    <3>1. CASE stack' = stack
      BY <2>1, <3>1 DEF InCall
    <3>2. CASE Push(t)
      BY <3>2, EmptySeq, LenProperties DEF Push, TypeOK
    <3> QED
      BY <2>1, <3>1, <3>2, ResolveOneStack
  <2> QED
    BY <1>3, <2>1, <2>2
<1>5. ASSUME NEW p \in Probes, LookupProbe(p) PROVE PassOutcome'
  BY <1>3, <1>5 DEF LookupProbe, AtSource, InCall
<1>6. CASE ApplyTransformer \/ NextSource
  <2>1. InCall /\ phase' = phase /\ SameNames
    BY <1>6, ApplyTransformerStack, NextSourceStack DEF ApplyTransformer, NextSource
  <2>2. stack' # <<>>
    BY <2>1, EmptySeq DEF SameNames, InCall, TypeOK
  <2> QED
    BY <1>3, <2>1, <2>2
<1>7. CASE FinishEntry
  <2>1. Top.name \in Names
    BY <1>7, TopFrame DEF FinishEntry, InCall
  <2>2. ret'.st = "err" => table'[Top.name] = NoIP
    BY <1>7, <2>1 DEF FinishEntry, Answer, Failed, Ok, TypeOK
  <2>3. phase' = phase /\ Resolving
    BY <1>7 DEF FinishEntry, InCall
  <2>4. ret'.st = "err" => \E n \in Names : table'[n] = NoIP
    BY <2>1, <2>2
  <2> QED
    BY <2>3, <2>4 DEF PassOutcome, Resolving
<1>8. CASE NextName \/ Abort \/ Complete \/ NewPass
  BY <1>8 DEF NextName, Abort, Complete, NewPass, PassOutcome, Resolving, Pending
<1>9. CASE NetworkChanges \/ UNCHANGED vars
  BY <1>1, <1>9 DEF NetworkChanges, vars
<1> QED
  BY <1>2, <1>4, <1>5, <1>6, <1>7, <1>8, <1>9 DEF Next, Internal

-----------------------------------------------------------------------------
(* The names of all frames but the outermost are in the reference chain,   *)
(* which is what makes the test in reference.go bound the recursion.       *)
ChainCoversStack ==
  /\ Depth <= 1 => chain = {}
  /\ \A i \in 2 .. Depth : stack[i].name \in chain

(* Every frame but the outermost was entered through a reference of the    *)
(* one before it.                                                          *)
StackFollowsReferences ==
  \A i \in 2 .. Depth : stack[i].name \in References(stack[i - 1].name)

(* The depth of the recursion is a number.                                  *)
LEMMA DepthIsNat == TypeOK => Depth \in Nat
  BY LenProperties DEF TypeOK, Depth

(* A lookup of a reference is one the running entry is configured with.     *)
LEMMA ReferenceOfTop ==
  ASSUME TypeOK, NEW t \in Refs, LookupReference(t)
  PROVE  /\ stack # <<>>
         /\ t \in References(Top.name)
         /\ UNCHANGED list
<1>1. stack # <<>> /\ Top.src <= Len(Sources)
      /\ Sources[Top.src] = [type |-> "reference", source |-> t] /\ UNCHANGED list
  BY DEF LookupReference, StartChain, ExtendChain, ReportLoop, AtSource, InCall
<1>2. Top.src \in Nat \ {0}
  BY <1>1, TopFrame DEF Frame
<1>3. Len(Sources) \in Nat /\ DOMAIN Sources = 1 .. Len(Sources)
  BY <1>1, TopFrame, LenProperties
<1>4. Top.src \in DOMAIN Sources
  BY <1>1, <1>2, <1>3
<1> QED
  BY <1>1, <1>4 DEF References, Sources

(* The steps that leave the names on the stack, and the chain, alone.      *)
Calm ==
  \/ ApplyTransformer \/ NextSource
  \/ NextName \/ Abort \/ Complete \/ NewPass \/ NetworkChanges
  \/ (\E p \in Probes : LookupProbe(p)) \/ (\E t \in Refs : ReportLoop(t))
  \/ UNCHANGED vars

(* The steps that neither call nor return keep stack, list and chain.       *)
LEMMA CalmStack == TypeOK /\ Calm => SameNames /\ UNCHANGED <<list, chain>>
<1> SUFFICES ASSUME TypeOK, Calm PROVE SameNames /\ UNCHANGED <<list, chain>>
  OBVIOUS
<1>1. CASE ApplyTransformer
  BY <1>1, ApplyTransformerStack DEF ApplyTransformer
<1>2. CASE NextSource
  BY <1>2, NextSourceStack DEF NextSource
<1>3. CASE UNCHANGED <<list, chain, stack>>
  BY <1>3 DEF SameNames
<1> QED
  BY <1>1, <1>2, <1>3 DEF Calm, NextName, Abort, Complete, NewPass, NetworkChanges,
                          LookupProbe, ReportLoop, vars

(* Every step is calm, a return, a call by Resolve or a call by a reference.*)
LEMMA StepKinds ==
  [Next]_vars => \/ Calm \/ FinishEntry \/ \E n \in Names : PickName(n)
                 \/ \E t \in Refs : StartChain(t) \/ ExtendChain(t)
  BY DEF Next, Internal, LookupReference, Calm

(* Every step keeps the chain ahead of the stack, and names apart below    *)
(* the outermost call.                                                     *)
LEMMA RecursionInductive ==
  TypeOK /\ BoundedRecursion /\ ChainCoversStack /\ [Next]_vars
    => BoundedRecursion' /\ ChainCoversStack'
<1> SUFFICES ASSUME TypeOK, BoundedRecursion, ChainCoversStack, [Next]_vars
             PROVE  BoundedRecursion' /\ ChainCoversStack'
  OBVIOUS
<1> Depth \in Nat
  BY DepthIsNat
<1>1. CASE Calm
  BY <1>1, CalmStack DEF SameNames, BoundedRecursion, ChainCoversStack, Depth
<1>2. CASE FinishEntry
  BY <1>2, FinishEntryStack DEF FinishEntry, Pop, BoundedRecursion, ChainCoversStack, Depth
<1>3. ASSUME NEW n \in Names, PickName(n) PROVE BoundedRecursion' /\ ChainCoversStack'
  <2>1. Depth = 0 /\ chain' = {}
    BY <1>3 DEF PickName, ChainCoversStack, Depth
  <2>2. Depth' \in {0, 1}
    BY <1>3, <2>1, ResolveOneStack DEF PickName, Push, Depth
  <2> QED
    BY <2>1, <2>2 DEF BoundedRecursion, ChainCoversStack
<1>4. ASSUME NEW t \in Refs, StartChain(t) PROVE BoundedRecursion' /\ ChainCoversStack'
  <2>1. CASE stack' = stack
    <3>1. Depth' = 1 /\ chain' = {}
      BY <1>4, <2>1 DEF StartChain, Depth
    <3> QED
      BY <3>1 DEF BoundedRecursion, ChainCoversStack
  <2>2. CASE Push(t)
    <3>1. Depth = 1 /\ Depth' = 2 /\ stack'[2].name = t
      BY <1>4, <2>2 DEF StartChain, Push, Depth
    <3>2. stack' # stack
      BY <3>1 DEF Depth
    <3>3. chain' = {t}
      BY <1>4, <3>2 DEF StartChain
    <3> QED
      BY <3>1, <3>3 DEF BoundedRecursion, ChainCoversStack
  <2> QED
    BY <1>4, <2>1, <2>2, ResolveOneStack DEF StartChain
<1>5. ASSUME NEW t \in Refs, ExtendChain(t) PROVE BoundedRecursion' /\ ChainCoversStack'
  <2>1. CASE stack' = stack
    BY <1>5, <2>1 DEF ExtendChain, BoundedRecursion, ChainCoversStack, Depth
  <2>2. CASE Push(t)
    <3>1. \A i \in 2 .. Depth : stack'[i].name = stack[i].name /\ stack[i].name # t
      BY <1>5, <2>2 DEF ExtendChain, Push, ChainCoversStack, Depth
    <3>2. Depth' = Depth + 1 /\ stack'[Depth + 1].name = t /\ chain' = chain \cup {t}
      BY <1>5, <2>2 DEF ExtendChain, Push, Depth
    <3>3. BoundedRecursion'
      BY <3>1, <3>2 DEF BoundedRecursion
    <3>4. Depth > 1
      BY <1>5 DEF ExtendChain
    <3>5. ChainCoversStack'
      BY <3>1, <3>2, <3>4 DEF ChainCoversStack
    <3> QED
      BY <3>3, <3>5
  <2> QED
    BY <1>5, <2>1, <2>2, ResolveOneStack DEF ExtendChain
<1> QED
  BY <1>1, <1>2, <1>3, <1>4, <1>5, StepKinds

(* Whatever cycles the references of the configuration form, the recursion *)
(* of ipResolver.resolve through reference.Lookup is bounded by the number *)
(* of addresses: below the outermost call no address is entered twice.     *)
THEOREM RecursionIsBounded == Spec => []BoundedRecursion
<1> DEFINE I == BoundedRecursion /\ ChainCoversStack
<1>1. Init => I
  BY EmptySeq DEF Init, BoundedRecursion, ChainCoversStack, Depth
<1>2. TypeOK /\ I /\ [Next]_vars => I'
  BY RecursionInductive
<1>3. I => BoundedRecursion
  OBVIOUS
<1> QED
  BY <1>1, <1>2, <1>3, TypeCorrect, PTL DEF Spec

-----------------------------------------------------------------------------
(* No step changes the configuration.                                       *)
LEMMA ListIsConstant == [Next]_vars => list' = list
  BY DEF Next, Internal, vars, PickName, LookupReference, StartChain, ExtendChain,
         ReportLoop, LookupProbe, ApplyTransformer, NextSource, FinishEntry, NextName,
         Abort, Complete, NewPass, NetworkChanges

(* Only the reset of a pass and the end of an entry write the table.        *)
LEMMA TableChanges ==
  [Next]_vars => UNCHANGED table \/ NewPass \/ FinishEntry
  BY DEF Next, Internal, vars, PickName, LookupReference, StartChain, ExtendChain,
         ReportLoop, LookupProbe, ApplyTransformer, NextSource, NextName,
         Abort, Complete, NetworkChanges

(* A reference that leads to another activation.                           *)
LEMMA Descent ==
  ASSUME TypeOK, NEW t \in Refs, StartChain(t) \/ ExtendChain(t)
  PROVE  \/ stack' = stack
         \/ stack # <<>> /\ Push(t) /\ t \in References(Top.name)
  BY ResolveOneStack, ReferenceOfTop DEF LookupReference, StartChain, ExtendChain

(* The end of an entry writes the result of that entry alone.               *)
LEMMA FinishTable ==
  ASSUME TypeOK, FinishEntry
  PROVE  /\ Top.name \in Names
         /\ \A n \in Names : table'[n] = IF n = Top.name THEN ret.ip ELSE table[n]
<1>1. Top.name \in Names
  BY TopFrame DEF FinishEntry, InCall
<1> QED
  BY <1>1 DEF FinishEntry, TypeOK

(* The rankings of the addresses that show that references do not form a   *)
(* cycle.                                                                  *)
Rankings ==
  {rank \in [Names -> 1 .. Cardinality(Names)] :
     \A n \in Names : \A m \in References(n) \cap Names : rank[m] < rank[n]}

(* The rankings of a configuration without cycles do not change.            *)
LEMMA RankingsAreConstant == [Next]_vars => Rankings' = Rankings
<1> SUFFICES ASSUME [Next]_vars PROVE Rankings' = Rankings
  OBVIOUS
<1>1. list' = list
  BY ListIsConstant
<1>2. ASSUME NEW n PROVE References(n)' = References(n)
  BY <1>1 DEF References
<1>3. ASSUME NEW rank
      PROVE  (\A n \in Names : \A m \in References(n)' \cap Names : rank[m] < rank[n])
               <=> (\A n \in Names : \A m \in References(n) \cap Names : rank[m] < rank[n])
  BY <1>2
<1> QED
  BY <1>3 DEF Rankings

(* Every ranking decreases along the stack.                                *)
StackDescends ==
  \A rank \in Rankings : \A i, j \in 1 .. Depth :
     i < j => rank[stack[j].name] < rank[stack[i].name]

(* The addresses that are being resolved have no result yet.               *)
OpenEntries ==
  Rankings # {} => \A i \in 1 .. Depth : table[stack[i].name] = Unset

(* Every activation is of a configured name.                                *)
LEMMA FrameNames == TypeOK => \A i \in 1 .. Depth : stack[i].name \in Names
<1> SUFFICES ASSUME TypeOK, NEW i \in 1 .. Depth PROVE stack[i].name \in Names
  OBVIOUS
<1>1. stack[i] \in Frame
  BY ElementOfSeq DEF TypeOK, Depth
<1> QED
  BY <1>1 DEF Frame

(* A ranking gives every name a number.                                     *)
LEMMA RankType ==
  ASSUME TypeOK, NEW rank \in Rankings, NEW n \in Names
  PROVE  rank[n] \in Nat
<1>1. Cardinality(Names) \in Nat
  BY ResolverAssumption, FS_CardinalityType
<1> QED
  BY <1>1 DEF Rankings

(* Every step keeps the ranks falling along the stack.                      *)
LEMMA StackDescendsInductive ==
  TypeOK /\ StackDescends /\ [Next]_vars => StackDescends'
<1> SUFFICES ASSUME TypeOK, StackDescends, [Next]_vars PROVE StackDescends'
  OBVIOUS
<1> SUFFICES ASSUME NEW rank \in Rankings,
                    NEW i \in 1 .. Depth', NEW j \in 1 .. Depth', i < j
             PROVE  rank[stack'[j].name] < rank[stack'[i].name]
  BY RankingsAreConstant DEF StackDescends
<1> Depth \in Nat
  BY DepthIsNat
<1>1. CASE Calm \/ UNCHANGED stack
  <2>1. SameNames
    BY <1>1, CalmStack DEF SameNames
  <2> QED
    BY <2>1 DEF SameNames, StackDescends, Depth
<1>2. CASE FinishEntry
  BY <1>2, FinishEntryStack DEF Pop, StackDescends, Depth
<1>3. ASSUME NEW n \in Names, PickName(n) PROVE FALSE
  <2>1. Depth = 0
    BY <1>3 DEF PickName, Depth
  <2>2. Depth' \in {0, 1}
    BY <1>3, <2>1, ResolveOneStack DEF PickName, Push, Depth
  <2> QED
    BY <2>2
<1>4. ASSUME NEW t \in Refs, stack # <<>>, Push(t), t \in References(Top.name)
      PROVE  rank[stack'[j].name] < rank[stack'[i].name]
  <2>1. Depth >= 1 /\ Depth' = Depth + 1
    BY <1>4, TopFrame DEF Push, Depth
  <2>2. \A k \in 1 .. Depth : stack'[k].name = stack[k].name
    BY <1>4 DEF Push, Depth
  <2>3. CASE j <= Depth
    BY <2>1, <2>2, <2>3 DEF StackDescends
  <2>4. CASE j = Depth + 1
    <3>1. t \in Names /\ stack'[j].name = t
      BY <1>4, <2>4 DEF Push, Depth
    <3>2. Top.name \in Names
      BY <1>4, TopFrame
    <3>3. rank[t] < rank[Top.name]
      BY <1>4, <3>1, <3>2 DEF Rankings
    <3>4. i \in 1 .. Depth /\ stack[i].name \in Names
      BY <2>1, <2>4, FrameNames
    <3>5. rank[Top.name] <= rank[stack[i].name]
      <4>1. CASE i = Depth
        BY <4>1, <3>2, RankType DEF Top
      <4>2. CASE i < Depth
        BY <4>2, <2>1, <3>2, <3>4, RankType DEF StackDescends, Top
      <4> QED
        BY <4>1, <4>2, <3>4
    <3>6. rank[t] \in Nat /\ rank[Top.name] \in Nat /\ rank[stack[i].name] \in Nat
      BY <3>1, <3>2, <3>4, RankType
    <3> QED
      BY <2>2, <3>1, <3>3, <3>4, <3>5, <3>6
  <2> QED
    BY <2>1, <2>3, <2>4
<1> QED
  BY <1>1, <1>2, <1>3, <1>4, StepKinds, Descent

(* Every step keeps the entries being resolved unset in the table.          *)
LEMMA OpenEntriesInductive ==
  TypeOK /\ StackDescends /\ OpenEntries /\ [Next]_vars => OpenEntries'
<1> SUFFICES ASSUME TypeOK, StackDescends, OpenEntries, [Next]_vars PROVE OpenEntries'
  OBVIOUS
<1> SUFFICES ASSUME NEW rank \in Rankings, NEW i \in 1 .. Depth'
             PROVE  table'[stack'[i].name] = Unset
  BY RankingsAreConstant DEF OpenEntries
<1> Depth \in Nat
  BY DepthIsNat
<1> \A k \in 1 .. Depth : table[stack[k].name] = Unset /\ stack[k].name \in Names
  BY FrameNames DEF OpenEntries
<1>1. CASE FinishEntry
  <2>1. stack # <<>> /\ Depth \in Nat \ {0}
    BY <1>1, TopFrame DEF FinishEntry, InCall
  <2>2. i \in 1 .. Depth - 1 /\ stack'[i].name = stack[i].name
    BY <1>1, <2>1, FinishEntryStack DEF Pop, Depth
  <2>3. rank[Top.name] < rank[stack[i].name]
    BY <2>1, <2>2 DEF StackDescends, Top
  <2>4. stack[i].name \in Names /\ rank[stack[i].name] \in Nat
    BY <2>1, <2>2, RankType
  <2>5. stack[i].name # Top.name
    BY <2>3, <2>4
  <2> QED
    BY <1>1, <2>1, <2>2, <2>4, <2>5, FinishTable
<1>2. CASE NewPass
  BY <1>2 DEF NewPass, Depth
<1>3. CASE UNCHANGED table /\ (Calm \/ UNCHANGED stack)
  <2>1. SameNames
    BY <1>3, CalmStack DEF SameNames
  <2> QED
    BY <1>3, <2>1 DEF SameNames, Depth
<1>4. ASSUME NEW n \in Names, Push(n), UNCHANGED table PROVE table'[stack'[i].name] = Unset
  <2>1. CASE i <= Depth
    BY <1>4, <2>1 DEF Push, Depth
  <2>2. CASE i = Depth + 1
    BY <1>4, <2>2 DEF Push, Depth
  <2>3. Depth' = Depth + 1
    BY <1>4 DEF Push, Depth
  <2> QED
    BY <2>1, <2>2, <2>3
<1>5. ASSUME NEW n \in Names, PickName(n)
      PROVE  UNCHANGED table /\ (stack' = stack \/ Push(n))
  BY <1>5, ResolveOneStack DEF PickName
<1>6. ASSUME NEW t \in Refs, StartChain(t) \/ ExtendChain(t)
      PROVE  UNCHANGED table /\ (stack' = stack \/ (Push(t) /\ t \in Names))
  BY <1>6, Descent DEF StartChain, ExtendChain, Push
<1> QED
  BY <1>1, <1>2, <1>3, <1>4, <1>5, <1>6, StepKinds, TableChanges

(* Where references do not form a cycle, resolveOne fills every entry of   *)
(* the result table once per pass: however the map iteration, references   *)
(* to references, failing sources and a changing network mix, no entry an  *)
(* address was built on is replaced later in the pass.                     *)
THEOREM EntriesAreFinal == Spec => ResolvedOnce
<1> DEFINE I == StackDescends /\ OpenEntries
<1>1. Init => I
  BY DEF Init, StackDescends, OpenEntries, Depth
<1>2. TypeOK /\ I /\ [Next]_vars => I'
  BY StackDescendsInductive, OpenEntriesInductive
<1>3. TypeOK /\ I /\ [Next]_vars =>
        [Resolving /\ (\E n \in Names : table[n] \notin {Unset, table'[n]}) => ~Acyclic]_vars
  <2> SUFFICES ASSUME TypeOK, OpenEntries, [Next]_vars, Acyclic, Resolving,
                      NEW n \in Names, table[n] # Unset
               PROVE  table'[n] = table[n]
    OBVIOUS
  <2>1. CASE FinishEntry
    <3>1. Rankings # {}
      BY DEF Acyclic, Rankings
    <3>2. Depth \in Nat \ {0}
      BY <2>1, TopFrame DEF FinishEntry, InCall
    <3>3. table[Top.name] = Unset
      BY <3>1, <3>2 DEF OpenEntries, Top
    <3> QED
      BY <2>1, <3>3, FinishTable
  <2>2. ~NewPass
    BY DEF NewPass
  <2> QED
    BY <2>1, <2>2, TableChanges
<1> QED
  BY <1>1, <1>2, <1>3, TypeCorrect, PTL DEF Spec, ResolvedOnce

-----------------------------------------------------------------------------
(* An entry that is nil while the pass goes on is that of an address some  *)
(* other one refers to; the one the loop of Resolve has asked for itself   *)
(* makes it give up at once.                                               *)
NilIsReferenced ==
  \A n \in Names : table[n] = NoIP =>
     \/ \E m \in Names : n \in References(m)
     \/ stack = <<>> /\ ret.st = "err"

ResolvedIsDone == phase = "resolved" => ret = Pending

(* No step changes what the entries refer to.                               *)
LEMMA ReferencesAreConstant == [Next]_vars => \A n : References(n)' = References(n)
<1> SUFFICES ASSUME [Next]_vars, NEW n PROVE References(n)' = References(n)
  OBVIOUS
<1>1. list' = list
  BY ListIsConstant
<1> QED
  BY <1>1 DEF References

(* Every step keeps each activation a reference of the one below it.        *)
LEMMA StackFollowsInductive ==
  TypeOK /\ StackFollowsReferences /\ [Next]_vars => StackFollowsReferences'
<1> SUFFICES ASSUME TypeOK, StackFollowsReferences, [Next]_vars
             PROVE  StackFollowsReferences'
  OBVIOUS
<1> SUFFICES ASSUME NEW i \in 2 .. Depth'
             PROVE  stack'[i].name \in References(stack'[i - 1].name)
  BY ReferencesAreConstant DEF StackFollowsReferences
<1> Depth \in Nat
  BY DepthIsNat
<1>1. CASE Calm \/ UNCHANGED stack
  <2>1. SameNames
    BY <1>1, CalmStack DEF SameNames
  <2> QED
    BY <2>1 DEF SameNames, StackFollowsReferences, Depth
<1>2. CASE FinishEntry
  BY <1>2, FinishEntryStack DEF Pop, StackFollowsReferences, Depth
<1>3. ASSUME NEW n \in Names, PickName(n) PROVE FALSE
  <2>1. Depth = 0
    BY <1>3 DEF PickName, Depth
  <2>2. Depth' \in {0, 1}
    BY <1>3, <2>1, ResolveOneStack DEF PickName, Push, Depth
  <2> QED
    BY <2>2
<1>4. ASSUME NEW t \in Refs, stack # <<>>, Push(t), t \in References(Top.name)
      PROVE  stack'[i].name \in References(stack'[i - 1].name)
  <2>1. Depth >= 1 /\ Depth' = Depth + 1 /\ stack'[Depth + 1].name = t
    BY <1>4, TopFrame DEF Push, Depth
  <2>2. \A k \in 1 .. Depth : stack'[k].name = stack[k].name
    BY <1>4 DEF Push, Depth
  <2>3. CASE i <= Depth
    BY <2>1, <2>2, <2>3 DEF StackFollowsReferences
  <2>4. CASE i = Depth + 1
    BY <1>4, <2>1, <2>2, <2>4 DEF Top
  <2> QED
    BY <2>1, <2>3, <2>4
<1> QED
  BY <1>1, <1>2, <1>3, <1>4, StepKinds, Descent

(* A pass of Resolve that succeeds leaves an address nil only if another   *)
(* address refers to it: an address that has to be published and is not    *)
(* behind a reference is never silently skipped by the publisher.          *)
THEOREM NilIsBehindReference == Spec => []NilOnlyIfReferenced
<1> DEFINE I == StackFollowsReferences /\ NilIsReferenced /\ ResolvedIsDone
<1>1. Init => I
  BY ResolverAssumption
     DEF Init, StackFollowsReferences, NilIsReferenced, ResolvedIsDone, Depth
<1>2. TypeOK /\ I /\ [Next]_vars => I'
  <2> SUFFICES ASSUME TypeOK, StackFollowsReferences, NilIsReferenced, ResolvedIsDone,
                      [Next]_vars
               PROVE  NilIsReferenced' /\ ResolvedIsDone'
    BY StackFollowsInductive
  <2> \A n : References(n)' = References(n)
    BY ReferencesAreConstant
  <2>1. CASE FinishEntry
    <3>1. stack # <<>> /\ Depth \in Nat \ {0} /\ Top.name \in Names /\ Resolving
      BY <2>1, TopFrame DEF FinishEntry, InCall
    <3>2. ASSUME NEW n \in Names, table'[n] = NoIP
          PROVE  \/ \E m \in Names : n \in References(m)
                 \/ stack' = <<>> /\ ret'.st = "err"
      <4>1. CASE n # Top.name
        <5>1. table[n] = NoIP
          BY <2>1, <3>2, <4>1, FinishTable
        <5> QED
          BY <3>1, <5>1 DEF NilIsReferenced
      <4>2. CASE n = Top.name /\ Depth = 1
        <5>1. ret.ip = NoIP
          BY <2>1, <3>2, <4>2, FinishTable
        <5>2. ret'.st = "err"
          BY <2>1, <5>1 DEF FinishEntry, Answer, Failed
        <5>3. stack' = <<>>
          BY <2>1, <4>2, FinishEntryStack, EmptySeq DEF Pop, Depth
        <5> QED
          BY <5>2, <5>3
      <4>3. CASE n = Top.name /\ Depth > 1
        <5>1. Depth - 1 \in 1 .. Depth /\ Depth \in 2 .. Depth
          BY <3>1, <4>3
        <5>2. stack[Depth - 1].name \in Names
          BY <5>1, FrameNames
        <5>3. n \in References(stack[Depth - 1].name)
          BY <4>3, <5>1 DEF StackFollowsReferences, Top
        <5> QED
          BY <5>2, <5>3
      <4> QED
        BY <3>1, <4>1, <4>2, <4>3
    <3>3. phase' # "resolved"
      BY <2>1, <3>1 DEF FinishEntry, Resolving
    <3> QED
      BY <3>2, <3>3 DEF NilIsReferenced, ResolvedIsDone
  <2>2. CASE NewPass
    BY <2>2, ResolverAssumption DEF NewPass, NilIsReferenced, ResolvedIsDone
  <2>3. CASE UNCHANGED vars \/ Abort \/ NetworkChanges
    BY <2>3 DEF vars, Abort, NetworkChanges, NilIsReferenced, ResolvedIsDone, Resolving
  <2>4. CASE Complete
    BY <2>4 DEF Complete, NilIsReferenced, ResolvedIsDone
  <2>5. CASE /\ Resolving /\ UNCHANGED <<table, phase>>
             /\ stack # <<>> \/ ret.st # "err"
    BY <2>5 DEF Resolving, NilIsReferenced, ResolvedIsDone
  <2>6. ASSUME NEW n \in Names, PickName(n)
        PROVE  /\ Resolving /\ UNCHANGED <<table, phase>>
               /\ ret.st # "err"
    BY <2>6 DEF PickName, Pending
  <2>7. ASSUME NEW t \in Refs, LookupReference(t)
        PROVE  Resolving /\ UNCHANGED <<table, phase>> /\ stack # <<>>
    BY <2>7 DEF LookupReference, StartChain, ExtendChain, ReportLoop, AtSource, InCall
  <2>8. ASSUME ApplyTransformer \/ NextSource \/ (\E p \in Probes : LookupProbe(p))
        PROVE  Resolving /\ UNCHANGED <<table, phase>> /\ stack # <<>>
    BY <2>8 DEF ApplyTransformer, NextSource, LookupProbe, AtSource, InCall
  <2>9. ASSUME NextName
        PROVE  Resolving /\ UNCHANGED <<table, phase>> /\ ret.st # "err"
    BY <2>9 DEF NextName
  <2> QED
    BY <2>1, <2>2, <2>3, <2>4, <2>5, <2>6, <2>7, <2>8, <2>9 DEF Next, Internal
<1>3. TypeOK /\ I => NilOnlyIfReferenced
  BY DEF NilIsReferenced, ResolvedIsDone, NilOnlyIfReferenced, Pending
<1> QED
  BY <1>1, <1>2, <1>3, TypeCorrect, PTL DEF Spec

-----------------------------------------------------------------------------
(* What the frames hold, beyond the names.                                 *)

(* A frame that waits for a call, or has one to make, has applied no        *)
(* transformer to the answer of its source yet.                            *)
FramesFresh ==
  /\ \A i \in 1 .. Depth - 1 : stack[i].tr = 1
  /\ stack # <<>> /\ ret = Pending => Top.tr = 1

(* A frame that is not the last waits for a reference to the next one.     *)
Waits(i) ==
  LET srcs == list[stack[i].name].sources IN
  /\ stack[i].src \in DOMAIN srcs
  /\ srcs[stack[i].src] = [type |-> "reference", source |-> stack[i + 1].name]

FramesWait == \A i \in 1 .. Depth - 1 : Waits(i)

(* Between passes nothing is being resolved.                               *)
IdleIsEmpty == ~Resolving => stack = <<>>

FramesOK == FramesFresh /\ FramesWait /\ IdleIsEmpty

(* What becomes of the frames where the last one is replaced.              *)
LEMMA ReplacedLast ==
  ASSUME NEW s \in Seq(Frame), s # <<>>, NEW f \in Frame
  PROVE  LET t == [s EXCEPT ![Len(s)] = f] IN
         /\ Len(t) = Len(s) /\ t[Len(s)] = f
         /\ \A i \in 1 .. Len(s) - 1 : t[i] = s[i]
<1>1. Len(s) \in Nat \ {0} /\ Len(s) \in 1 .. Len(s)
  BY EmptySeq
<1>2. /\ Len([s EXCEPT ![Len(s)] = f]) = Len(s)
      /\ \A j \in 1 .. Len(s) : [s EXCEPT ![Len(s)] = f][j] = IF j = Len(s) THEN f ELSE s[j]
  BY <1>1, ExceptSeq
<1>3. \A i \in 1 .. Len(s) - 1 : i \in 1 .. Len(s) /\ i # Len(s)
  BY <1>1
<1> QED
  BY <1>1, <1>2, <1>3

(* NextSource moves the running activation on to its next source.          *)
LEMMA NextSourceFrames ==
  ASSUME TypeOK, NextSource
  PROVE  /\ Depth' = Depth /\ (\A i \in 1 .. Depth - 1 : stack'[i] = stack[i])
         /\ Top' = [name |-> Top.name, src |-> Top.src + 1, tr |-> 1]
<1> DEFINE f == [name |-> Top.name, src |-> Top.src + 1, tr |-> 1]
<1>1. stack # <<>> /\ Top \in Frame /\ Depth \in Nat \ {0}
  BY TopFrame DEF NextSource, InCall
<1>2. f \in Frame
  BY <1>1 DEF Frame
<1>3. stack' = [stack EXCEPT ![Len(stack)] = f]
  <2>1. [[Top EXCEPT !.src = @ + 1] EXCEPT !.tr = 1] = f
    <3> DEFINE g == [name |-> Top.name, src |-> Top.src + 1, tr |-> Top.tr]
    <3>1. [Top EXCEPT !.src = @ + 1] = g
      BY <1>1 DEF Frame
    <3>2. [g EXCEPT !.tr = 1] = f
      OBVIOUS
    <3> HIDE DEF f, g
    <3> QED
      BY <3>1, <3>2
  <2>2. stack' = [stack EXCEPT ![Len(stack)] = [[Top EXCEPT !.src = @ + 1] EXCEPT !.tr = 1]]
    BY <1>1 DEF NextSource, Depth, Top, TypeOK
  <2> HIDE DEF f
  <2> QED
    BY <2>1, <2>2
<1> HIDE DEF f
<1>4. /\ Len(stack') = Len(stack) /\ stack'[Len(stack)] = f
      /\ \A i \in 1 .. Len(stack) - 1 : stack'[i] = stack[i]
  BY <1>1, <1>2, <1>3, ReplacedLast DEF TypeOK
<1> QED
  BY <1>4 DEF f, Depth, Top

(* ApplyTransformer moves the running activation to its next transformer. *)
LEMMA ApplyTransformerFrames ==
  ASSUME TypeOK, ApplyTransformer
  PROVE  /\ Depth' = Depth /\ (\A i \in 1 .. Depth - 1 : stack'[i] = stack[i])
         /\ Top' = [name |-> Top.name, src |-> Top.src, tr |-> Top.tr + 1]
<1> DEFINE f == [name |-> Top.name, src |-> Top.src, tr |-> Top.tr + 1]
<1>1. stack # <<>> /\ Top \in Frame /\ Depth \in Nat \ {0}
  BY TopFrame DEF ApplyTransformer, InCall
<1>2. f \in Frame
  BY <1>1 DEF Frame
<1>3. stack' = [stack EXCEPT ![Len(stack)] = f]
  <2>1. [Top EXCEPT !.tr = @ + 1] = f
    BY <1>1 DEF Frame
  <2>2. stack' = [stack EXCEPT ![Len(stack)] = [Top EXCEPT !.tr = @ + 1]]
    BY <1>1 DEF ApplyTransformer, Depth, Top, TypeOK
  <2> HIDE DEF f
  <2> QED
    BY <2>1, <2>2
<1> HIDE DEF f
<1>4. /\ Len(stack') = Len(stack) /\ stack'[Len(stack)] = f
      /\ \A i \in 1 .. Len(stack) - 1 : stack'[i] = stack[i]
  BY <1>1, <1>2, <1>3, ReplacedLast DEF TypeOK
<1> QED
  BY <1>4 DEF f, Depth, Top

(* FinishEntry takes the running activation off the stack.                 *)
LEMMA FinishEntryFrames ==
  ASSUME TypeOK, FinishEntry
  PROVE  /\ stack # <<>> /\ Depth \in Nat \ {0}
         /\ Depth' = Depth - 1 /\ (\A i \in 1 .. Depth' : stack'[i] = stack[i])
<1>1. stack # <<>> /\ stack' = SubSeq(stack, 1, Len(stack) - 1)
  BY DEF FinishEntry, InCall, Depth
<1> QED
  BY <1>1, Popped, TopFrame DEF TypeOK, Depth

(* A call of resolveOne answers from the table, or it opens a frame.       *)
Opens(n) ==
  /\ n \in Names /\ table[n] = Unset /\ ret' = Pending
  /\ Depth' = Depth + 1 /\ \A i \in 1 .. Depth : stack'[i] = stack[i]
  /\ Top' = [name |-> n, src |-> 1, tr |-> 1]

Answers(n) ==
  /\ stack' = stack
  /\ ret' = IF n \in Names THEN Ok(table[n]) ELSE Failed
  /\ n \in Names => table[n] # Unset

(* resolveOne either opens an activation or answers from the table.        *)
LEMMA ResolveOneFrames ==
  ASSUME TypeOK, NEW n, ResolveOne(n)
  PROVE  Opens(n) \/ Answers(n)
<1>1. CASE stack' = stack
  <2>1. CASE n \in Names /\ table[n] = Unset /\ stack' = Append(stack, [name |-> n, src |-> 1, tr |-> 1])
    <3>1. Len(stack') = Len(stack) + 1 /\ Len(stack) \in Nat
      BY <2>1, Pushed, LenProperties DEF TypeOK
    <3> QED
      BY <1>1, <3>1
  <2> QED
    BY <1>1, <2>1 DEF ResolveOne, Answers
<1>2. CASE /\ n \in Names /\ table[n] = Unset /\ ret' = Pending
           /\ stack' = Append(stack, [name |-> n, src |-> 1, tr |-> 1])
  <2> DEFINE f == [name |-> n, src |-> 1, tr |-> 1]
  <2>1. f \in Frame
    BY <1>2 DEF Frame
  <2> HIDE DEF f
  <2>2. stack' = Append(stack, f) /\ stack \in Seq(Frame)
    BY <1>2 DEF f, TypeOK
  <2>3. /\ Len(stack') = Len(stack) + 1 /\ stack'[Len(stack) + 1] = f
        /\ \A i \in 1 .. Len(stack) : stack'[i] = stack[i]
    BY <2>1, <2>2, AppendProperties
  <2> QED
    BY <1>2, <2>3 DEF f, Opens, Depth, Top
<1> QED
  BY <1>1, <1>2 DEF ResolveOne

(* Where no frame changes, the frames are in order as long as the last one *)
(* does not come to make a call anew.                                      *)
LEMMA StillFrames ==
  ASSUME FramesOK, UNCHANGED <<stack, list>>,
         stack # <<>> /\ ret' = Pending => ret = Pending,
         Resolving' \/ stack = <<>>
  PROVE  FramesOK'
  BY DEF FramesOK, FramesFresh, FramesWait, Waits, IdleIsEmpty, Depth, Top

(* Nor do the frames before the last one matter to what becomes of it.     *)
LEMMA LastFrames ==
  ASSUME TypeOK, FramesOK, UNCHANGED list, Resolving',
         Depth' = Depth, \A i \in 1 .. Depth - 1 : stack'[i] = stack[i],
         Top'.name = Top.name, ret' = Pending => Top'.tr = 1
  PROVE  FramesOK'
<1>1. Depth \in Nat
  BY DepthIsNat
<1>2. ASSUME NEW i \in 1 .. Depth - 1
      PROVE  stack'[i].tr = 1 /\ Waits(i)'
  <2>1. i + 1 \in 1 .. Depth - 1 \/ i + 1 = Depth
    BY <1>1
  <2>2. stack'[i + 1].name = stack[i + 1].name
    BY <2>1 DEF Top
  <2> QED
    BY <2>2 DEF FramesOK, FramesFresh, FramesWait, Waits
<1> QED
  BY <1>2 DEF FramesOK, FramesFresh, FramesWait, IdleIsEmpty

(* An activation that is opened is in order, and so is the one below it.   *)
LEMMA OpenFrames ==
  ASSUME TypeOK, FramesOK, NEW n, Opens(n), UNCHANGED list, Resolving',
         stack # <<>> =>
           /\ Top.src \in DOMAIN Sources /\ ret = Pending
           /\ Sources[Top.src] = [type |-> "reference", source |-> n]
  PROVE  FramesOK'
<1>1. Depth \in Nat /\ (Depth >= 1 => stack # <<>>)
  BY DepthIsNat, EmptySeq DEF Depth
<1>2. ASSUME NEW i \in 1 .. Depth
      PROVE  stack'[i].tr = 1 /\ Waits(i)'
  <2>1. CASE i < Depth
    <3>1. i \in 1 .. Depth - 1 /\ i + 1 \in 1 .. Depth
      BY <1>1, <2>1
    <3>2. stack'[i] = stack[i] /\ stack'[i + 1] = stack[i + 1]
      BY <3>1 DEF Opens
    <3> QED
      BY <3>1, <3>2 DEF FramesOK, FramesFresh, FramesWait, Waits
  <2>2. CASE i = Depth
    <3>1. stack # <<>> /\ stack'[i] = Top /\ stack'[i + 1] = [name |-> n, src |-> 1, tr |-> 1]
      BY <1>1, <2>2 DEF Opens, Top
    <3> QED
      BY <3>1 DEF FramesOK, FramesFresh, Waits, Sources
  <2> QED
    BY <1>1, <2>1, <2>2
<1>3. Depth' - 1 = Depth
  BY <1>1 DEF Opens
<1> QED
  BY <1>2, <1>3 DEF FramesOK, FramesFresh, FramesWait, IdleIsEmpty, Opens

(* No step brings the activations out of order.                            *)
LEMMA FramesInductive ==
  TypeOK /\ FramesOK /\ [Next]_vars => FramesOK'
<1> SUFFICES ASSUME TypeOK, FramesOK, [Next]_vars PROVE FramesOK'
  OBVIOUS
<1>0. UNCHANGED list
  BY ListIsConstant
<1>1. ASSUME NEW n \in Names, PickName(n) PROVE FramesOK'
  <2>1. Opens(n) \/ Answers(n)
    BY <1>1, ResolveOneFrames DEF PickName
  <2> QED
    BY <1>0, <1>1, <2>1, OpenFrames, StillFrames DEF PickName, Answers, Resolving
<1>2. ASSUME NEW t \in Refs, LookupReference(t) PROVE FramesOK'
  <2>1. /\ stack # <<>> /\ ret = Pending /\ Resolving'
        /\ Sources[Top.src] = [type |-> "reference", source |-> t]
    BY <1>2 DEF LookupReference, StartChain, ExtendChain, ReportLoop, AtSource, InCall, Resolving
  <2>2. Top.src \in DOMAIN Sources
    <3>1. Top.src \in Nat \ {0} /\ Sources \in Seq(Source)
      BY <2>1, TopFrame DEF Frame
    <3>2. Top.src <= Len(Sources)
      BY <1>2 DEF LookupReference, StartChain, ExtendChain, ReportLoop, AtSource
    <3> QED
      BY <3>1, <3>2, LenProperties
  <2>3. Opens(t) \/ stack' = stack
    BY <1>2, ResolveOneFrames DEF LookupReference, StartChain, ExtendChain, ReportLoop, Answers
  <2> QED
    BY <1>0, <2>1, <2>2, <2>3, OpenFrames, StillFrames
<1>3. CASE ApplyTransformer
  <2>1. /\ Depth' = Depth /\ (\A i \in 1 .. Depth - 1 : stack'[i] = stack[i])
        /\ Top' = [name |-> Top.name, src |-> Top.src, tr |-> Top.tr + 1]
    BY <1>3, ApplyTransformerFrames
  <2>2. ret' # Pending /\ Resolving'
    BY <1>3 DEF ApplyTransformer, Answer, Failed, Ok, Pending, InCall, Resolving
  <2> QED
    BY <1>0, <2>1, <2>2, LastFrames
<1>4. CASE NextSource
  <2>1. /\ Depth' = Depth /\ (\A i \in 1 .. Depth - 1 : stack'[i] = stack[i])
        /\ Top' = [name |-> Top.name, src |-> Top.src + 1, tr |-> 1]
    BY <1>4, NextSourceFrames
  <2>2. Resolving'
    BY <1>4 DEF NextSource, InCall, Resolving
  <2> QED
    BY <1>0, <2>1, <2>2, LastFrames
<1>5. CASE FinishEntry
  <2>1. /\ Depth \in Nat \ {0}
        /\ Depth' = Depth - 1 /\ (\A i \in 1 .. Depth' : stack'[i] = stack[i])
    BY <1>5, FinishEntryFrames
  <2>2. ret' # Pending /\ Resolving'
    BY <1>5 DEF FinishEntry, Answer, Failed, Ok, Pending, InCall, Resolving
  <2>3. ASSUME NEW i \in 1 .. Depth' - 1 PROVE stack'[i].tr = 1 /\ Waits(i)'
    <3>1. i \in 1 .. Depth - 1 /\ i \in 1 .. Depth' /\ i + 1 \in 1 .. Depth'
      BY <2>1
    <3> QED
      BY <1>0, <2>1, <3>1 DEF FramesOK, FramesFresh, FramesWait, Waits
  <2> QED
    BY <2>2, <2>3 DEF FramesOK, FramesFresh, FramesWait, IdleIsEmpty
<1>6. ASSUME NEW p \in Probes, LookupProbe(p) PROVE FramesOK'
  <2>1. UNCHANGED stack /\ ret' # Pending /\ Resolving'
    BY <1>6 DEF LookupProbe, Answer, Failed, Ok, Pending, AtSource, InCall, Resolving
  <2> QED
    BY <1>0, <2>1, StillFrames
<1>7. CASE NextName \/ Abort \/ Complete \/ NewPass
  <2>1. stack = <<>>
    BY <1>7 DEF NextName, Abort, Complete, NewPass, FramesOK, IdleIsEmpty
  <2> QED
    BY <1>0, <1>7, <2>1, StillFrames DEF NextName, Abort, Complete, NewPass
<1>8. CASE NetworkChanges \/ UNCHANGED vars
  BY <1>0, <1>8, StillFrames DEF NetworkChanges, vars, Resolving, FramesOK, IdleIsEmpty
<1> QED
  BY <1>1, <1>2, <1>3, <1>4, <1>5, <1>6, <1>7, <1>8 DEF Next, Internal

-----------------------------------------------------------------------------
(* The address in hand has gone through the first transformers of its      *)
(* entry, from an answer of one of its sources.                            *)

Underway(n, m, ip) ==
  \E v \in [0 .. m -> IPs] :
     /\ v[0] \in SourceAnswers(n)
     /\ \A k \in 1 .. m : v[k] = list[n].transformers[k][v[k - 1]]
     /\ v[m] = ip

InHand ==
  stack # <<>> /\ ret.st = "ok" /\ ret.ip \in IPs =>
    /\ Top.tr <= Len(Transformers) + 1
    /\ Underway(Top.name, Top.tr - 1, ret.ip)

(* The network is steady, and references are acyclic.                      *)
Steady == list \notin Drifting /\ Rankings # {}

TableDerived == \A n \in Names : table[n] \in IPs => Underway(n, Len(list[n].transformers), table[n])

(* What resolveOne answers from the table is either nil or an address.     *)
ProvenanceOK ==
  Steady /\ Resolving => InHand /\ TableDerived

(* Whether the network is steady is fixed by the configuration.            *)
LEMMA SteadyStays == [Next]_vars => Steady' = Steady
  BY RankingsAreConstant, ListIsConstant DEF Steady

(* Within a pass an entry that is set stays, and so does what a source has *)
(* answered, if the references are acyclic and the network is steady.      *)
LEMMA AnswersStay ==
  ASSUME TypeOK, OpenEntries, Steady, Resolving, [Next]_vars
  PROVE  /\ \A n \in Names : table[n] # Unset => table'[n] = table[n]
         /\ world' = world
         /\ \A n, ip : \A m \in Nat : Underway(n, m, ip) => Underway(n, m, ip)'
<1>1. ASSUME NEW n \in Names, table[n] # Unset PROVE table'[n] = table[n]
  <2>1. CASE FinishEntry
    <3>1. Depth \in Nat \ {0}
      BY <2>1, TopFrame DEF FinishEntry, InCall
    <3>2. table[Top.name] = Unset
      BY <3>1 DEF OpenEntries, Steady, Top
    <3> QED
      BY <1>1, <2>1, <3>2, FinishTable
  <2>2. ~NewPass
    BY DEF NewPass
  <2> QED
    BY <2>1, <2>2, TableChanges
<1>2. world' = world
  BY DEF Steady, Next, Internal, vars, PickName, LookupReference, StartChain, ExtendChain,
         ReportLoop, LookupProbe, ApplyTransformer, NextSource, FinishEntry, NextName,
         Abort, Complete, NewPass, NetworkChanges
<1>3. ASSUME NEW n, NEW x \in SourceAnswers(n), x \in IPs PROVE x \in SourceAnswers(n)'
  <2>1. \A t \in References(n) \cap Names : table[t] = x => table'[t] = x
    BY <1>1, <1>3, ResolverAssumption
  <2> QED
    BY <1>2, <1>3, <2>1, ListIsConstant, ReferencesAreConstant DEF SourceAnswers
<1>4. ASSUME NEW n, NEW ip, NEW m \in Nat, Underway(n, m, ip) PROVE Underway(n, m, ip)'
  <2>1. PICK v \in [0 .. m -> IPs] :
          /\ v[0] \in SourceAnswers(n)
          /\ \A k \in 1 .. m : v[k] = list[n].transformers[k][v[k - 1]]
          /\ v[m] = ip
    BY <1>4 DEF Underway
  <2>2. v[0] \in IPs
    BY <2>1
  <2>3. v[0] \in SourceAnswers(n)'
    BY <1>3, <2>1, <2>2
  <2> QED
    BY <2>1, <2>3, ListIsConstant DEF Underway
<1> QED
  BY <1>1, <1>2, <1>4

(* An answer of a source is under way before the first transformer.        *)
LEMMA UnderwayStarts ==
  ASSUME NEW n, NEW ip \in SourceAnswers(n), ip \in IPs
  PROVE  Underway(n, 0, ip)
<1> DEFINE v == [k \in 0 .. 0 |-> ip]
<1>1. v \in [0 .. 0 -> IPs] /\ v[0] = ip
  OBVIOUS
<1>2. 1 .. 0 = {}
  OBVIOUS
<1> HIDE DEF v
<1> QED
  BY <1>1, <1>2 DEF Underway

(* A transformer that yields an address brings it one further.             *)
LEMMA UnderwayGoesOn ==
  ASSUME NEW n, NEW m \in Nat, NEW ip, Underway(n, m, ip),
         NEW x \in IPs, x = list[n].transformers[m + 1][ip]
  PROVE  Underway(n, m + 1, x)
<1>1. PICK v \in [0 .. m -> IPs] :
        /\ v[0] \in SourceAnswers(n)
        /\ \A k \in 1 .. m : v[k] = list[n].transformers[k][v[k - 1]]
        /\ v[m] = ip
  BY DEF Underway
<1> DEFINE w == [k \in 0 .. m + 1 |-> IF k = m + 1 THEN x ELSE v[k]]
<1>2. w \in [0 .. m + 1 -> IPs]
  <2>1. \A k \in 0 .. m + 1 : k # m + 1 => k \in 0 .. m
    OBVIOUS
  <2>2. \A k \in 0 .. m + 1 : w[k] \in IPs
    BY <1>1, <2>1
  <2> QED
    BY <2>2
<1>3. \A k \in 0 .. m : w[k] = v[k]
  OBVIOUS
<1>4. w[m + 1] = x
  OBVIOUS
<1> HIDE DEF w
<1>5. w[0] = v[0] /\ w[m] = ip
  BY <1>1, <1>3
<1>6. ASSUME NEW k \in 1 .. m + 1 PROVE w[k] = list[n].transformers[k][w[k - 1]]
  <2>1. CASE k = m + 1
    <3>1. k - 1 = m
      BY <2>1
    <3> QED
      BY <1>4, <1>5, <2>1, <3>1
  <2>2. CASE k # m + 1
    <3>1. k \in 1 .. m /\ k \in 0 .. m /\ k - 1 \in 0 .. m
      BY <2>2
    <3> QED
      BY <1>1, <1>3, <3>1
  <2> QED
    BY <2>1, <2>2
<1> QED
  BY <1>1, <1>2, <1>4, <1>5, <1>6 DEF Underway

(* No step hands on an address that is not derived from an answer.         *)
LEMMA ProvenanceInductive ==
  TypeOK /\ OpenEntries /\ FramesOK /\ ProvenanceOK /\ [Next]_vars => ProvenanceOK'
<1> SUFFICES ASSUME TypeOK, OpenEntries, FramesOK, ProvenanceOK, [Next]_vars, Steady, Resolving'
             PROVE  InHand' /\ TableDerived'
  BY SteadyStays DEF ProvenanceOK
<1>1. CASE ~Resolving
  <2>1. NewPass
    BY <1>1 DEF Resolving, Next, Internal, vars, PickName, LookupReference, StartChain, ExtendChain,
       ReportLoop, LookupProbe, ApplyTransformer, NextSource, FinishEntry, NextName,
       Abort, Complete, NetworkChanges, AtSource, InCall
  <2>2. ret'.st # "ok" /\ \A n \in Names : table'[n] \notin IPs
    BY <2>1, ResolverAssumption DEF NewPass, Pending
  <2> QED
    BY <2>2 DEF InHand, TableDerived
<1>2. CASE Resolving
  <2>1. InHand /\ TableDerived
    BY <1>2 DEF ProvenanceOK
  <2>2. /\ \A n \in Names : table[n] # Unset => table'[n] = table[n]
        /\ \A n, ip : \A m \in Nat : Underway(n, m, ip) => Underway(n, m, ip)'
        /\ UNCHANGED <<list, world>>
    BY <1>2, AnswersStay, ListIsConstant
  <2>3. \A n \in Names : Len(list[n].transformers) \in Nat
    BY LenProperties DEF TypeOK, Entry
  <2>4. ~FinishEntry => TableDerived'
    <3>1. ~NewPass
      BY <1>2 DEF NewPass
    <3>2. ~FinishEntry => UNCHANGED table
      BY <3>1, TableChanges
    <3> QED
      BY <2>1, <2>2, <2>3, <3>2 DEF TableDerived
  <2>5. ASSUME NEW x, stack # <<>>, UNCHANGED <<stack, list>>, ret = Pending,
               x \in SourceAnswers(Top.name), ret'.st = "ok" => ret'.ip = x
        PROVE  InHand'
    <3>1. Top.tr = 1 /\ Top' = Top
      BY <2>5 DEF FramesOK, FramesFresh, Top, Depth
    <3>2. PICK m : m = Top.name
      OBVIOUS
    <3>3. x \in IPs => Underway(m, 0, x)'
      BY <2>2, <2>5, <3>2, UnderwayStarts
    <3>4. Len(Transformers) \in Nat /\ Transformers' = Transformers
      BY <2>5, <3>1, TopFrame, LenProperties DEF Transformers
    <3> QED
      BY <2>5, <3>1, <3>2, <3>3, <3>4 DEF InHand
  <2>6. ASSUME NEW n \in Names, PickName(n) PROVE InHand'
    <3>1. Opens(n) \/ Answers(n)
      BY <2>6, ResolveOneFrames DEF PickName
    <3> QED
      BY <2>6, <3>1 DEF PickName, Opens, Answers, Pending, InHand
  <2>7. ASSUME NEW t \in Refs, LookupReference(t) PROVE InHand'
    <3>1. stack # <<>> /\ ret = Pending /\ t \in References(Top.name)
      BY <2>7, ReferenceOfTop DEF LookupReference, StartChain, ExtendChain, ReportLoop, AtSource
    <3>2. Opens(t) \/ Answers(t) \/ (UNCHANGED stack /\ ret' = Failed)
      BY <2>7, ResolveOneFrames DEF LookupReference, StartChain, ExtendChain, ReportLoop
    <3>3. CASE Answers(t) /\ t \in Names
      <4>1. table[t] \in SourceAnswers(Top.name)
        BY <3>1, <3>3 DEF SourceAnswers
      <4> QED
        BY <2>2, <2>5, <3>1, <3>3, <4>1 DEF Answers, Ok
    <3> QED
      BY <3>2, <3>3 DEF Opens, Answers, Pending, Failed, InHand
  <2>8. ASSUME NEW p \in Probes, LookupProbe(p) PROVE InHand'
    <3>1. /\ stack # <<>> /\ UNCHANGED stack /\ ret = Pending /\ ret' = Answer(world[p])
          /\ Sources[Top.src] = [type |-> "probe", source |-> p] /\ Top.src <= Len(Sources)
      BY <2>8 DEF LookupProbe, AtSource, InCall
    <3>2. Top.src \in DOMAIN Sources
      BY <3>1, TopFrame, LenProperties DEF Frame
    <3>3. world[p] \in SourceAnswers(Top.name)
      BY <3>1, <3>2 DEF SourceAnswers, Sources
    <3> QED
      BY <2>2, <2>5, <3>1, <3>3 DEF Answer, Failed, Ok
  <2>9. ASSUME ApplyTransformer PROVE InHand'
    <3>1. /\ stack # <<>> /\ Top.tr <= Len(Transformers) /\ ret.st = "ok"
          /\ ret' = Answer(Transformers[Top.tr][ret.ip])
      BY <2>9 DEF ApplyTransformer, InCall
    <3>2. Top' = [name |-> Top.name, src |-> Top.src, tr |-> Top.tr + 1] /\ Top \in Frame
      BY <2>9, <3>1, ApplyTransformerFrames, TopFrame
    <3>3. Top.tr \in Nat \ {0} /\ Top.name \in Names /\ Len(Transformers) \in Nat
          /\ Transformers \in Seq(Transformer)
      BY <3>1, TopFrame, LenProperties DEF Frame
    <3>4. Transformers[Top.tr] \in Transformer
      BY <3>1, <3>3, ElementOfSeq
    <3>5. Transformers[Top.tr][NoIP] = NoIP /\ ret.ip \in IPs \cup {NoIP}
      BY <3>4 DEF Transformer, TypeOK, Result
    <3>x. PICK x : x = Transformers[Top.tr][ret.ip]
      OBVIOUS
    <3>m. PICK m : m = Top.name
      OBVIOUS
    <3>k. PICK k : k = Top.tr
      OBVIOUS
    <3>6. ASSUME x \in IPs PROVE Underway(m, k, x)'
      <4>1. ret.ip \in IPs
        BY <3>5, <3>6, <3>x, ResolverAssumption
      <4>2. Underway(m, k - 1, ret.ip)
        BY <2>1, <3>1, <3>m, <3>k, <4>1 DEF InHand
      <4>3. k \in Nat /\ k - 1 \in Nat /\ (k - 1) + 1 = k
        BY <3>3, <3>k
      <4>4. x = list[m].transformers[(k - 1) + 1][ret.ip]
        BY <3>x, <3>m, <3>k, <4>3 DEF Transformers
      <4>5. Underway(m, (k - 1) + 1, x)
        BY <3>6, <4>2, <4>3, <4>4, UnderwayGoesOn
      <4> QED
        BY <2>2, <4>3, <4>5
    <3>7. Transformers' = Transformers
      BY <2>2, <3>2 DEF Transformers
    <3>8. ret'.st = "ok" /\ ret'.ip \in IPs => ret'.ip = x /\ x \in IPs
      BY <3>1, <3>x DEF Answer, Failed, Ok
    <3>9. Top'.tr - 1 = k /\ Top'.name = m /\ Top'.tr <= Len(Transformers) + 1
      BY <3>1, <3>2, <3>3, <3>m, <3>k
    <3> QED
      BY <3>6, <3>7, <3>8, <3>9 DEF InHand
  <2>10. ASSUME NextSource PROVE InHand'
    <3>1. ret'.st # "ok"
      BY <2>10 DEF NextSource, Pending
    <3> QED
      BY <3>1 DEF InHand
  <2>11. CASE FinishEntry
    <3>1. /\ stack # <<>> /\ Depth \in Nat \ {0} /\ Top.name \in Names
          /\ Depth' = Depth - 1 /\ (\A i \in 1 .. Depth' : stack'[i] = stack[i])
          /\ \A n \in Names : table'[n] = IF n = Top.name THEN ret.ip ELSE table[n]
      BY <2>11, FinishEntryFrames, TopFrame, FinishTable
    <3>2. ret.ip \in IPs => ret.st = "ok" /\ Top.tr > Len(Transformers)
      BY <2>11, ResolverAssumption DEF FinishEntry, Pending
    <3>3. ret.ip \in IPs => Underway(Top.name, Len(list[Top.name].transformers), ret.ip)
      <4>1. Top.tr \in Nat \ {0} /\ Len(Transformers) \in Nat
        BY <3>1, TopFrame, LenProperties DEF Frame
      <4>2. ret.ip \in IPs => Top.tr - 1 = Len(Transformers) /\ Underway(Top.name, Top.tr - 1, ret.ip)
        BY <2>1, <3>1, <3>2, <4>1 DEF InHand
      <4> QED
        BY <4>2 DEF Transformers
    <3>4. TableDerived'
      BY <2>1, <2>2, <2>3, <3>1, <3>3 DEF TableDerived
    <3>5. ASSUME stack' # <<>>, ret'.st = "ok", ret'.ip \in IPs
          PROVE  (Top.tr <= Len(Transformers) + 1 /\ Underway(Top.name, Top.tr - 1, ret.ip))'
      <4>1. Depth' # 0 /\ Depth - 1 \in 1 .. Depth - 1 /\ Depth' \in 1 .. Depth'
        <5>1. TypeOK'
          BY TypeInductive
        <5> QED
          BY <3>1, <3>5, <5>1, EmptySeq DEF TypeOK, Depth
      <4>2. Top' = stack[Depth - 1] /\ stack[Depth - 1].tr = 1
        BY <3>1, <4>1 DEF Top, FramesOK, FramesFresh
      <4>m. PICK m : m = stack[Depth - 1].name
        OBVIOUS
      <4>3. m \in Names /\ Top.name \in References(m)
        <5>1. Waits(Depth - 1) /\ stack[Depth - 1 + 1] = Top
          BY <3>1, <4>1 DEF FramesOK, FramesWait, Top
        <5>2. Depth - 1 \in 1 .. Depth
          BY <4>1, <3>1
        <5> QED
          BY <3>1, <4>m, <5>1, <5>2, FrameNames, ResolverAssumption DEF Waits, References
      <4>4. ret'.ip = ret.ip
        BY <2>11, <3>5 DEF FinishEntry, Answer, Failed, Ok
      <4>5. (ret.ip \in SourceAnswers(Top.name))'
        <5>1. table'[Top.name] = ret'.ip
          BY <3>1, <4>4
        <5>2. Top.name \in References(m)' \cap Names
          BY <3>1, <4>3, ReferencesAreConstant
        <5>3. Top'.name = m
          BY <4>2, <4>m
        <5> QED
          BY <5>1, <5>2, <5>3 DEF SourceAnswers
      <4>6. Underway(Top.name, 0, ret.ip)'
        <5> DEFINE v == [k \in 0 .. 0 |-> ret'.ip]
        <5>1. v \in [0 .. 0 -> IPs] /\ v[0] = ret'.ip
          BY <3>5
        <5>2. 1 .. 0 = {}
          OBVIOUS
        <5> HIDE DEF v
        <5> QED
          BY <4>5, <5>1, <5>2 DEF Underway
      <4>7. Len(Transformers)' \in Nat /\ (Top.tr - 1)' = 0
        BY <2>2, <2>3, <4>2, <4>3, <4>m DEF Transformers
      <4> QED
        BY <4>2, <4>6, <4>7
    <3> QED
      BY <3>4, <3>5 DEF InHand
  <2>12. ASSUME NextName \/ Abort \/ Complete PROVE InHand'
    <3>1. stack' = <<>>
      BY <2>12 DEF NextName, Abort, Complete
    <3> QED
      BY <3>1 DEF InHand
  <2>13. ASSUME NetworkChanges \/ UNCHANGED vars PROVE InHand'
    <3>1. UNCHANGED <<stack, ret, list>>
      BY <2>13 DEF NetworkChanges, vars
    <3>2. Top' = Top /\ Transformers' = Transformers
      BY <3>1 DEF Top, Depth, Transformers
    <3>3. PICK m, k, ip : m = Top.name /\ k = Top.tr - 1 /\ ip = ret.ip
      OBVIOUS
    <3>4. stack # <<>> => k \in Nat
      BY <3>3, TopFrame DEF Frame
    <3>5. ASSUME stack # <<>>, ret.st = "ok", ip \in IPs
          PROVE  Top.tr <= Len(Transformers) + 1 /\ Underway(m, k, ip)'
      BY <2>1, <2>2, <3>3, <3>4, <3>5 DEF InHand
    <3> QED
      BY <3>1, <3>2, <3>3, <3>5 DEF InHand
  <2>14. ~NewPass
    BY <1>2 DEF NewPass
  <2> QED
    BY <2>4, <2>6, <2>7, <2>8, <2>9, <2>10, <2>11, <2>12, <2>13, <2>14 DEF Next, Internal, FinishEntry,
       PickName, LookupReference, StartChain, ExtendChain, ReportLoop, LookupProbe, ApplyTransformer,
       NextSource, NextName, Abort, Complete, NetworkChanges, vars
<1> QED
  BY <1>1, <1>2

(* Every address that a pass records has gone through all the transformers *)
(* of its entry, from what one of its sources has answered, while          *)
(* references do not form a cycle and the network is steady.               *)
THEOREM ProvenanceHolds == Spec => []Provenance
<1> DEFINE I == StackDescends /\ OpenEntries /\ FramesOK /\ ProvenanceOK
<1>1. Init => I
  <2> SUFFICES ASSUME Init PROVE I
    OBVIOUS
  <2>1. Depth = 0 /\ ret = Pending /\ Resolving /\ \A n \in Names : table[n] \notin IPs
    BY ResolverAssumption DEF Init, Depth, Resolving
  <2> QED
    BY <2>1 DEF Init, StackDescends, OpenEntries, Depth, FramesOK, FramesFresh, FramesWait, IdleIsEmpty,
                ProvenanceOK, InHand, TableDerived, Resolving
<1>2. TypeOK /\ I /\ [Next]_vars => I'
  BY StackDescendsInductive, OpenEntriesInductive, FramesInductive, ProvenanceInductive
<1>3. TypeOK /\ I => Provenance
  BY DEF ProvenanceOK, Steady, TableDerived, Underway, Derived, Provenance, Acyclic, Rankings
<1> QED
  BY <1>1, <1>2, <1>3, TypeCorrect, PTL DEF Spec

-----------------------------------------------------------------------------
(* What a pass ought to yield is well defined: both recursions of the      *)
(* oracle have a solution.                                                 *)

Below == {p \in Nat \X Nat : p[1] < p[2]}

(* A set of numbers has a least one.                                       *)
LEMMA LeastNumber ==
  ASSUME NEW S \in SUBSET Nat, S # {}
  PROVE  \E m \in S : \A n \in S : m <= n
<1>1. IsWellFoundedOn(Below, Nat)
  <2>1. OpToRel(<, Nat) = Below
    BY Zenon DEF OpToRel, Below
  <2> QED
    BY <2>1, NatLessThanWellFounded, Zenon
<1>2. PICK m \in S : \A n \in S : <<n, m>> \notin Below
  BY <1>1, WFMin
<1>3. ASSUME NEW n \in S PROVE m <= n
  <2>1. <<n, m>> \in Nat \X Nat /\ <<n, m>> \notin Below
    BY <1>2
  <2>2. ~(<<n, m>>[1] < <<n, m>>[2])
    BY <2>1 DEF Below
  <2> QED
    BY <2>2
<1> QED
  BY <1>3

(* What holds of 0, and is passed on from each number to the next, holds   *)
(* of n.                                                                   *)
LEMMA InductionTo ==
  ASSUME NEW S \in SUBSET Nat, 0 \in S, NEW n \in Nat,
         \A k \in 0 .. n - 1 : k \in S => k + 1 \in S
  PROVE  n \in S
<1> SUFFICES ASSUME n \notin S PROVE FALSE
  OBVIOUS
<1>1. PICK m \in (0 .. n) \ S : \A k \in (0 .. n) \ S : m <= k
  <2>1. (0 .. n) \ S \in SUBSET Nat /\ (0 .. n) \ S # {}
    OBVIOUS
  <2> QED
    BY <2>1, LeastNumber
<1>2. m # 0 /\ m - 1 \in 0 .. n - 1 /\ m - 1 \in 0 .. n
  BY <1>1
<1>3. m - 1 \in S
  BY <1>1, <1>2
<1> QED
  BY <1>1, <1>2, <1>3

(* Transformed satisfies its recursion, if anything does.                  *)
LEMMA TransformedSolves ==
  ASSUME NEW n, NEW ip,
         \E f : f = [k \in 0 .. Len(list[n].transformers) |->
                       IF k = 0 THEN ip ELSE list[n].transformers[k][f[k - 1]]]
  PROVE  Transformed(n, ip) =
           [k \in 0 .. Len(list[n].transformers) |->
              IF k = 0 THEN ip ELSE list[n].transformers[k][Transformed(n, ip)[k - 1]]]
  BY DEF Transformed

(* Expected satisfies its recursion, if anything does.                     *)
LEMMA ExpectedSolves ==
  ASSUME \E f : f = [n \in Names |-> FirstYield(n, f)]
  PROVE  Expected = [n \in Names |-> FirstYield(n, Expected)]
  BY DEF Expected

Address == IPs \cup {NoIP}

(* Transformers take addresses to addresses, and none to none.             *)
LEMMA TransformersType ==
  ASSUME TypeOK, NEW n \in Names
  PROVE  /\ Len(list[n].transformers) \in Nat
         /\ \A k \in 1 .. Len(list[n].transformers) :
              /\ \A ip \in Address : list[n].transformers[k][ip] \in Address
              /\ list[n].transformers[k][NoIP] = NoIP
<1>1. list[n].transformers \in Seq(Transformer)
  BY DEF TypeOK, Entry
<1>2. \A k \in 1 .. Len(list[n].transformers) : list[n].transformers[k] \in Transformer
  BY <1>1, ElementOfSeq
<1> QED
  BY <1>1, <1>2, LenProperties DEF Transformer, Address

(* An address goes through one transformer after the other, and where one  *)
(* fails nothing comes of it.                                              *)
LEMMA TransformedSteps ==
  ASSUME TypeOK, NEW n \in Names, NEW ip \in Address
  PROVE  LET ts == list[n].transformers
             T  == Transformed(n, ip) IN
         /\ T[0] = ip
         /\ \A k \in 1 .. Len(ts) : T[k] = ts[k][T[k - 1]]
         /\ \A k \in 0 .. Len(ts) : T[k] \in Address /\ (T[k] = NoIP => T[Len(ts)] = NoIP)
<1> DEFINE ts == list[n].transformers
           L  == Len(ts)
<1>1. /\ L \in Nat
      /\ \A k \in 1 .. L : (\A x \in Address : ts[k][x] \in Address) /\ ts[k][NoIP] = NoIP
  BY TransformersType
<1> HIDE DEF L
<1>2. \E f \in [0 .. L -> Address] : f[0] = ip /\ \A k \in 1 .. L : f[k] = ts[k][f[k - 1]]
  <2> DEFINE S == {m \in Nat : m <= L => \E f \in [0 .. L -> Address] :
                                 f[0] = ip /\ \A k \in 1 .. m : f[k] = ts[k][f[k - 1]]}
  <2>1. 0 \in S
    <3>1. [k \in 0 .. L |-> ip] \in [0 .. L -> Address] /\ [k \in 0 .. L |-> ip][0] = ip
      BY <1>1
    <3>2. 1 .. 0 = {}
      OBVIOUS
    <3> QED
      BY <3>1, <3>2
  <2>2. ASSUME NEW m \in 0 .. L - 1, m \in S PROVE m + 1 \in S
    <3>1. PICK f \in [0 .. L -> Address] : f[0] = ip /\ \A k \in 1 .. m : f[k] = ts[k][f[k - 1]]
      BY <1>1, <2>2
    <3>2. m + 1 \in 1 .. L /\ m \in 0 .. L /\ m + 1 \in 0 .. L
      BY <1>1, <2>2
    <3>3. PICK g \in [0 .. L -> Address] :
            g[m + 1] = ts[m + 1][f[m]] /\ \A k \in 0 .. L : k # m + 1 => g[k] = f[k]
      <4> DEFINE g == [f EXCEPT ![m + 1] = ts[m + 1][f[m]]]
      <4>1. g \in [0 .. L -> Address] /\ g[m + 1] = ts[m + 1][f[m]]
        BY <1>1, <3>1, <3>2
      <4>2. \A k \in 0 .. L : k # m + 1 => g[k] = f[k]
        BY <3>1
      <4> QED
        BY <4>1, <4>2
    <3>4. g[0] = ip
      BY <1>1, <3>1, <3>3
    <3>5. ASSUME NEW k \in 1 .. m + 1 PROVE g[k] = ts[k][g[k - 1]]
      <4>1. k - 1 \in 0 .. L /\ k - 1 # m + 1 /\ k \in 0 .. L
        BY <1>1, <3>2
      <4>2. g[k - 1] = f[k - 1]
        BY <3>3, <4>1
      <4>3. CASE k = m + 1
        <5>1. k - 1 = m
          BY <4>3
        <5> QED
          BY <3>3, <4>2, <4>3, <5>1
      <4>4. CASE k # m + 1
        <5>1. k \in 1 .. m
          BY <4>4
        <5> QED
          BY <3>1, <3>3, <4>1, <4>2, <4>4, <5>1
      <4> QED
        BY <4>3, <4>4
    <3>6. \E h \in [0 .. L -> Address] : h[0] = ip /\ \A k \in 1 .. m + 1 : h[k] = ts[k][h[k - 1]]
      BY <3>4, <3>5
    <3>7. m + 1 \in Nat
      OBVIOUS
    <3> QED
      BY <3>6, <3>7
  <2>3. S \in SUBSET Nat
    OBVIOUS
  <2>4. L \in S
    <3> HIDE DEF S
    <3> QED
      BY <1>1, <2>1, <2>2, <2>3, InductionTo
  <2> QED
    BY <1>1, <2>4
<1>3. PICK f \in [0 .. L -> Address] : f[0] = ip /\ \A k \in 1 .. L : f[k] = ts[k][f[k - 1]]
  BY <1>2
<1>4. f = [k \in 0 .. L |-> IF k = 0 THEN ip ELSE ts[k][f[k - 1]]]
  <2>1. \A k \in 0 .. L : k # 0 => k \in 1 .. L
    BY <1>1
  <2>2. \A k \in 0 .. L : f[k] = IF k = 0 THEN ip ELSE ts[k][f[k - 1]]
    BY <1>3, <2>1
  <2> QED
    BY <1>3, <2>2
<1> DEFINE T == Transformed(n, ip)
<1>5. T = [k \in 0 .. L |-> IF k = 0 THEN ip ELSE ts[k][T[k - 1]]]
  BY <1>4, TransformedSolves DEF L
<1> HIDE DEF T
<1>6. T[0] = ip /\ \A k \in 1 .. L : T[k] = ts[k][T[k - 1]]
  <2>1. \A k \in 0 .. L : T[k] = IF k = 0 THEN ip ELSE ts[k][T[k - 1]]
    BY <1>5
  <2> QED
    BY <1>1, <2>1
<1>7. ASSUME NEW k \in 0 .. L PROVE T[k] \in Address
  <2> DEFINE S == {m \in Nat : m <= L => T[m] \in Address}
  <2>1. 0 \in S
    BY <1>6
  <2>2. ASSUME NEW m \in 0 .. k - 1, m \in S PROVE m + 1 \in S
    <3>1. m + 1 \in 1 .. L /\ (m + 1) - 1 = m /\ m <= L
      BY <1>1, <1>7, <2>2
    <3>2. T[m] \in Address
      BY <2>2, <3>1
    <3>3. T[m + 1] = ts[m + 1][T[m]]
      BY <1>6, <3>1
    <3> QED
      BY <1>1, <3>1, <3>2, <3>3
  <2>3. S \in SUBSET Nat /\ k \in Nat
    BY <1>1
  <2>4. k \in S
    <3> HIDE DEF S
    <3> QED
      BY <2>1, <2>2, <2>3, InductionTo
  <2> QED
    BY <1>1, <2>4
<1>8. ASSUME NEW k \in 0 .. L, T[k] = NoIP PROVE T[L] = NoIP
  <2> DEFINE S == {m \in Nat : k + m <= L => T[k + m] = NoIP}
  <2>1. 0 \in S
    BY <1>8
  <2>2. ASSUME NEW m \in 0 .. (L - k) - 1, m \in S PROVE m + 1 \in S
    <3>1. k + (m + 1) \in 1 .. L /\ (k + (m + 1)) - 1 = k + m /\ k + m <= L
      BY <1>1, <1>8, <2>2
    <3>2. T[k + m] = NoIP
      BY <2>2, <3>1
    <3>3. T[k + (m + 1)] = ts[k + (m + 1)][T[k + m]]
      BY <1>6, <3>1
    <3>4. T[k + (m + 1)] = NoIP
      BY <1>1, <3>1, <3>2, <3>3
    <3> QED
      BY <3>4
  <2>3. S \in SUBSET Nat /\ L - k \in Nat /\ k + (L - k) = L
    BY <1>1
  <2>4. L - k \in S
    <3> HIDE DEF S
    <3> QED
      BY <2>1, <2>2, <2>3, InductionTo
  <2> QED
    BY <1>1, <2>3, <2>4
<1> QED
  BY <1>6, <1>7, <1>8 DEF T, L

(* What a source yields has the type of an address, given addresses for    *)
(* the others; where the source answers nothing, so does it.               *)
LEMMA YieldType ==
  ASSUME TypeOK, NEW n \in Names, NEW i \in DOMAIN list[n].sources, NEW e \in [Names -> Address]
  PROVE  /\ Raw(n, i, e) \in Address
         /\ Yield(n, i, e) \in Address
         /\ Raw(n, i, e) = NoIP => Yield(n, i, e) = NoIP
<1>1. list[n].sources \in Seq(Source)
  BY DEF TypeOK, Entry
<1>2. list[n].sources[i] \in Source
  BY <1>1, LenProperties, ElementOfSeq
<1>3. Raw(n, i, e) \in Address
  BY <1>2 DEF Raw, Source, TypeOK, Address
<1>4. Len(list[n].transformers) \in Nat
  BY TransformersType
<1>5. 0 \in 0 .. Len(list[n].transformers) /\ Len(list[n].transformers) \in 0 .. Len(list[n].transformers)
  BY <1>4
<1> QED
  BY <1>3, <1>5, TransformedSteps DEF Yield

(* The first source that yields something.                                 *)
LEMMA FirstYieldIs ==
  ASSUME TypeOK, NEW n \in Names, NEW e \in [Names -> Address]
  PROVE  /\ FirstYield(n, e) \in Address
         /\ (\A i \in DOMAIN list[n].sources : Yield(n, i, e) = NoIP) => FirstYield(n, e) = NoIP
         /\ \A i \in DOMAIN list[n].sources :
              (Yield(n, i, e) # NoIP /\ \A j \in 1 .. i - 1 : Yield(n, j, e) = NoIP)
                => FirstYield(n, e) = Yield(n, i, e)
<1>1. DOMAIN list[n].sources = 1 .. Len(list[n].sources) /\ Len(list[n].sources) \in Nat
  BY LenProperties DEF TypeOK, Entry
<1> DEFINE Y == Yielding(n, e)
           m == CHOOSE i \in Y : \A j \in Y : i <= j
<1>2. ASSUME Y # {} PROVE m \in Y /\ \A j \in Y : m <= j
  <2>1. Y \in SUBSET Nat
    BY <1>1 DEF Yielding
  <2>2. \E i \in Y : \A j \in Y : i <= j
    BY <1>2, <2>1, LeastNumber
  <2> QED
    BY <2>2
<1> HIDE DEF m
<1>3. FirstYield(n, e) = IF Y = {} THEN NoIP ELSE Yield(n, m, e)
  BY DEF FirstYield, m
<1>4. Y \subseteq DOMAIN list[n].sources /\ \A i \in DOMAIN list[n].sources : i \in Y <=> Yield(n, i, e) # NoIP
  BY DEF Yielding
<1>5. FirstYield(n, e) \in Address
  <2>1. Y # {} => Yield(n, m, e) \in Address
    BY <1>2, <1>4, YieldType
  <2> QED
    BY <1>3, <2>1 DEF Address
<1>6. (\A i \in DOMAIN list[n].sources : Yield(n, i, e) = NoIP) => FirstYield(n, e) = NoIP
  BY <1>3, <1>4
<1>7. ASSUME NEW i \in DOMAIN list[n].sources, Yield(n, i, e) # NoIP,
             \A j \in 1 .. i - 1 : Yield(n, j, e) = NoIP
      PROVE  FirstYield(n, e) = Yield(n, i, e)
  <2>1. i \in Y /\ m \in Y /\ m <= i /\ m \in DOMAIN list[n].sources
    BY <1>2, <1>4, <1>7
  <2>2. ~(m < i)
    <3>1. m < i => m \in 1 .. i - 1
      BY <1>1, <2>1
    <3> QED
      BY <1>4, <1>7, <2>1, <3>1
  <2>3. m = i
    BY <1>1, <2>1, <2>2
  <2> QED
    BY <1>3, <2>1, <2>3
<1> QED
  BY <1>5, <1>6, <1>7

(* What an address yields depends on those it refers to alone.             *)
LEMMA YieldDepends ==
  ASSUME TypeOK, NEW n \in Names, NEW e, NEW f, \A t \in References(n) \cap Names : e[t] = f[t]
  PROVE  FirstYield(n, e) = FirstYield(n, f)
<1>1. ASSUME NEW i \in DOMAIN list[n].sources PROVE Raw(n, i, e) = Raw(n, i, f)
  <2>1. list[n].sources[i] \in Source
    BY LenProperties, ElementOfSeq DEF TypeOK, Entry
  <2>2. CASE list[n].sources[i].type = "probe"
    BY <2>2 DEF Raw
  <2>3. CASE list[n].sources[i].type # "probe"
    <3>1. list[n].sources[i] = [type |-> "reference", source |-> list[n].sources[i].source]
          /\ list[n].sources[i].source \in Refs
      BY <2>1, <2>3 DEF Source
    <3>2. list[n].sources[i].source \in References(n)
      BY <3>1 DEF References
    <3> QED
      BY <2>3, <3>2 DEF Raw
  <2> QED
    BY <2>2, <2>3
<1>2. \A i \in DOMAIN list[n].sources : Yield(n, i, e) = Yield(n, i, f)
  BY <1>1 DEF Yield
<1>3. Yielding(n, e) = Yielding(n, f)
  BY <1>2 DEF Yielding
<1> DEFINE m == CHOOSE i \in Yielding(n, e) : \A j \in Yielding(n, e) : i <= j
<1>4. Yielding(n, e) # {} => m \in DOMAIN list[n].sources
  <2>1. Yielding(n, e) \in SUBSET Nat
    BY LenProperties DEF TypeOK, Entry, Yielding
  <2>2. Yielding(n, e) # {} => m \in Yielding(n, e)
    BY <2>1, LeastNumber
  <2> QED
    BY <2>2 DEF Yielding
<1>5. m = CHOOSE i \in Yielding(n, f) : \A j \in Yielding(n, f) : i <= j
  BY <1>3
<1> HIDE DEF m
<1>6. FirstYield(n, e) = IF Yielding(n, e) = {} THEN NoIP ELSE Yield(n, m, e)
  BY DEF FirstYield, m
<1>7. FirstYield(n, f) = IF Yielding(n, f) = {} THEN NoIP ELSE Yield(n, m, f)
  BY <1>5 DEF FirstYield
<1> QED
  BY <1>2, <1>3, <1>4, <1>6, <1>7

(* Without a cycle of references there is a solution of what a pass ought  *)
(* to yield, and what is expected is one.                                  *)
LEMMA ExpectedSteps ==
  ASSUME TypeOK, Rankings # {}
  PROVE  /\ Expected \in [Names -> Address]
         /\ \A n \in Names : Expected[n] = FirstYield(n, Expected)
<1>1. PICK rank : rank \in Rankings
  OBVIOUS
<1> DEFINE N == Cardinality(Names)
<1>2. N \in Nat /\ \A n \in Names : rank[n] \in 1 .. N
  BY <1>1, ResolverAssumption, FS_CardinalityType DEF Rankings
<1>3. \A n \in Names : \A t \in References(n) \cap Names : rank[t] < rank[n]
  BY <1>1 DEF Rankings
<1> HIDE DEF N
<1> DEFINE Solves(f, m) == \A n \in Names : rank[n] <= m => f[n] = FirstYield(n, f)
           S == {m \in Nat : \E f \in [Names -> Address] : Solves(f, m)}
<1>4. 0 \in S
  <2>1. [n \in Names |-> NoIP] \in [Names -> Address]
    BY DEF Address
  <2>2. Solves([n \in Names |-> NoIP], 0)
    BY <1>2
  <2> HIDE DEF Solves
  <2> QED
    BY <2>1, <2>2
<1>5. ASSUME NEW m \in 0 .. N - 1, m \in S PROVE m + 1 \in S
  <2>1. PICK f \in [Names -> Address] : Solves(f, m)
    BY <1>5
  <2> DEFINE g == [n \in Names |-> IF rank[n] = m + 1 THEN FirstYield(n, f) ELSE f[n]]
  <2>2. g \in [Names -> Address]
    <3>1. \A n \in Names : g[n] \in Address
      BY <2>1, FirstYieldIs
    <3> QED
      BY <3>1
  <2>3. ASSUME NEW n \in Names, rank[n] <= m + 1 PROVE g[n] = FirstYield(n, g)
    <3>1. \A t \in References(n) \cap Names : g[t] = f[t]
      BY <1>2, <1>3, <2>3
    <3>2. FirstYield(n, g) = FirstYield(n, f)
      <4> HIDE DEF g
      <4> QED
        BY <3>1, YieldDepends
    <3>3. rank[n] = m + 1 \/ rank[n] <= m
      BY <1>2, <2>3
    <3>4. rank[n] # m + 1 => f[n] = FirstYield(n, f)
      BY <2>1, <3>3
    <3> QED
      BY <3>2, <3>4
  <2>4. Solves(g, m + 1)
    BY <2>3
  <2>5. m + 1 \in Nat
    OBVIOUS
  <2> HIDE DEF g, Solves
  <2> QED
    BY <2>2, <2>4, <2>5
<1>6. S \in SUBSET Nat
  OBVIOUS
<1>7. N \in S
  <2> HIDE DEF S
  <2> QED
    BY <1>2, <1>4, <1>5, <1>6, InductionTo
<1>8. PICK f \in [Names -> Address] : Solves(f, N)
  BY <1>7
<1>9. \A n \in Names : f[n] = FirstYield(n, f)
  BY <1>2, <1>8
<1>10. f = [n \in Names |-> FirstYield(n, f)]
  BY <1>9
<1>11. Expected = [n \in Names |-> FirstYield(n, Expected)]
  BY <1>10, ExpectedSolves
<1> DEFINE X == {m \in Nat : \A n \in Names : rank[n] <= m => Expected[n] \in Address}
<1>12. 0 \in X
  BY <1>2
<1>13. ASSUME NEW m \in 0 .. N - 1, m \in X PROVE m + 1 \in X
  <2>1. ASSUME NEW n \in Names, rank[n] <= m + 1 PROVE Expected[n] \in Address
    <3> DEFINE g == [t \in Names |-> IF rank[t] <= m THEN Expected[t] ELSE NoIP]
    <3>1. g \in [Names -> Address]
      <4>1. \A t \in Names : g[t] \in Address
        BY <1>13 DEF Address
      <4> QED
        BY <4>1
    <3>2. \A t \in References(n) \cap Names : Expected[t] = g[t]
      BY <1>2, <1>3, <2>1
    <3> HIDE DEF g
    <3>3. FirstYield(n, Expected) = FirstYield(n, g)
      BY <3>2, YieldDepends
    <3>4. Expected[n] = FirstYield(n, Expected)
      BY <1>11
    <3> QED
      BY <3>1, <3>3, <3>4, FirstYieldIs
  <2> QED
    BY <2>1
<1>14. X \in SUBSET Nat
  OBVIOUS
<1>15. N \in X
  <2> HIDE DEF X
  <2> QED
    BY <1>2, <1>12, <1>13, <1>14, InductionTo
<1>16. \A n \in Names : Expected[n] \in Address
  BY <1>2, <1>15
<1> QED
  BY <1>11, <1>16

(* While the configuration and the answers of the probes stay, so does     *)
(* what a pass ought to yield.                                             *)
LEMMA OracleStays ==
  ASSUME UNCHANGED <<list, world>>
  PROVE  /\ Expected' = Expected
         /\ \A n, ip : Transformed(n, ip)' = Transformed(n, ip)
         /\ \A n, i, e : Raw(n, i, e)' = Raw(n, i, e)
         /\ \A n, i, e : Yield(n, i, e)' = Yield(n, i, e)
<1>1. Expected' = Expected
  BY DEF Expected, FirstYield, Yielding, Yield, Transformed, Raw
<1>2. \A n, ip : Transformed(n, ip)' = Transformed(n, ip)
  BY DEF Transformed
<1>3. \A n, i, e : Raw(n, i, e)' = Raw(n, i, e)
  BY DEF Raw
<1>4. \A n, i, e : Yield(n, i, e)' = Yield(n, i, e)
  BY DEF Yield, Transformed, Raw
<1> QED
  BY <1>1, <1>2, <1>3, <1>4

-----------------------------------------------------------------------------
(* Where references come last, the chain is no longer than the stack until *)
(* the reference of the last frame has been answered; from then on nothing *)
(* below the outermost call asks for a reference again.                    *)
Answered ==
  \/ Top.src > Len(Sources)
  \/ ret # Pending /\ Sources[Top.src].type = "reference"

ChainFresh ==
  ReferencesLast /\ stack # <<>> =>
    chain \subseteq {stack[i].name : i \in 2 .. Depth} \/ Answered

(* The chain only grows where a reference enters a name.                   *)
LEMMA ChainFreshInductive ==
  TypeOK /\ ChainCoversStack /\ FramesOK /\ ChainFresh /\ [Next]_vars => ChainFresh'
<1> SUFFICES ASSUME TypeOK, ChainCoversStack, FramesOK, ChainFresh, [Next]_vars,
                    ReferencesLast, stack' # <<>>
             PROVE  (chain \subseteq {stack[i].name : i \in 2 .. Depth} \/ Answered)'
  BY ListIsConstant DEF ChainFresh, ReferencesLast
<1>0. UNCHANGED list /\ Depth \in Nat
  BY ListIsConstant, DepthIsNat
<1>1. ASSUME NEW n \in Names, PickName(n)
      PROVE  (chain \subseteq {stack[i].name : i \in 2 .. Depth})'
  BY <1>1 DEF PickName, ChainCoversStack, Depth
<1>2. ASSUME NEW t \in Refs, LookupReference(t)
      PROVE  (chain \subseteq {stack[i].name : i \in 2 .. Depth} \/ Answered)'
  <2>1. /\ stack # <<>> /\ ret = Pending /\ Top.src <= Len(Sources)
        /\ Sources[Top.src] = [type |-> "reference", source |-> t]
    BY <1>2 DEF LookupReference, StartChain, ExtendChain, ReportLoop, AtSource, InCall
  <2>2. Top.src \in Nat /\ Len(Sources) \in Nat
    BY <2>1, TopFrame, LenProperties DEF Frame
  <2>3. chain \subseteq {stack[i].name : i \in 2 .. Depth}
    BY <2>1, <2>2 DEF ChainFresh, Answered
  <2>4. CASE UNCHANGED stack /\ ret' # Pending
    <3>1. Top' = Top /\ Sources' = Sources
      BY <1>0, <2>4 DEF Top, Depth, Sources
    <3> QED
      BY <2>1, <2>4, <3>1 DEF Answered
  <2>5. CASE Opens(t)
    <3>1. chain' \subseteq chain \cup {t}
      BY <1>2, <2>5 DEF LookupReference, StartChain, ExtendChain, ReportLoop
    <3>2. Depth \in Nat \ {0} /\ Depth' = Depth + 1
      BY <2>1, <2>5, TopFrame DEF Opens
    <3>3. \A i \in 2 .. Depth : i \in 2 .. Depth' /\ stack'[i] = stack[i]
      BY <2>5, <3>2 DEF Opens
    <3>4. Depth' \in 2 .. Depth' /\ stack'[Depth'].name = t
      BY <2>5, <3>2 DEF Opens, Top
    <3>5. \A x \in chain' : \E i \in 2 .. Depth' : x = stack'[i].name
      BY <2>3, <3>1, <3>3, <3>4
    <3> QED
      BY <3>5
  <2>6. Opens(t) \/ (UNCHANGED stack /\ ret' # Pending)
    BY <1>2, ResolveOneFrames
    DEF LookupReference, StartChain, ExtendChain, ReportLoop, Answers, Ok, Failed, Pending
  <2> QED
    BY <2>4, <2>5, <2>6
<1>3. ASSUME NEW p \in Probes, LookupProbe(p)
      PROVE  (chain \subseteq {stack[i].name : i \in 2 .. Depth})'
  <2>1. /\ stack # <<>> /\ ret = Pending /\ Top.src <= Len(Sources) /\ UNCHANGED <<stack, chain>>
    BY <1>3 DEF LookupProbe, AtSource, InCall
  <2>2. Top.src \in Nat /\ Len(Sources) \in Nat
    BY <2>1, TopFrame, LenProperties DEF Frame
  <2> QED
    BY <2>1, <2>2 DEF ChainFresh, Answered, Depth
<1>4. CASE ApplyTransformer \/ NextSource
  <2>1. stack # <<>> /\ UNCHANGED chain /\ ret # Pending
    BY <1>4 DEF ApplyTransformer, NextSource, InCall, Pending
  <2>2. /\ Depth' = Depth /\ (\A i \in 1 .. Depth - 1 : stack'[i] = stack[i])
        /\ Top'.name = Top.name /\ Top'.src = IF ApplyTransformer THEN Top.src ELSE Top.src + 1
    BY <1>4, ApplyTransformerFrames, NextSourceFrames
  <2>3. Sources' = Sources /\ Len(Sources) \in Nat /\ DOMAIN Sources = 1 .. Len(Sources) /\ Top.src \in Nat \ {0}
    BY <1>0, <2>1, <2>2, TopFrame, LenProperties DEF Sources, Frame
  <2>4. CASE chain \subseteq {stack[i].name : i \in 2 .. Depth}
    <3>1. \A i \in 2 .. Depth : stack'[i].name = stack[i].name
      <4>1. \A i \in 2 .. Depth : i \in 1 .. Depth - 1 \/ i = Depth
        BY <1>0
      <4> QED
        BY <2>2, <4>1 DEF Top
    <3> QED
      BY <2>1, <2>2, <2>4, <3>1
  <2>5. CASE Answered
    <3>1. CASE ApplyTransformer
      <4>1. ret' # Pending
        BY <3>1 DEF ApplyTransformer, Answer, Failed, Ok, Pending
      <4> QED
        BY <2>1, <2>2, <2>3, <2>5, <3>1, <4>1 DEF Answered
    <3>2. CASE ~ApplyTransformer
      <4>1. Top.src >= Len(Sources)
        <5>1. Top.src \in DOMAIN Sources /\ Sources[Top.src].type = "reference" => Top.src = Len(Sources)
          BY <2>1, TopFrame DEF ReferencesLast, Sources
        <5> QED
          BY <2>3, <2>5, <5>1 DEF Answered
      <4> QED
        BY <2>2, <2>3, <3>2, <4>1 DEF Answered
    <3> QED
      BY <3>1, <3>2
  <2> QED
    BY <2>1, <2>4, <2>5 DEF ChainFresh
<1>5. CASE FinishEntry
  <2>1. /\ Depth \in Nat \ {0}
        /\ Depth' = Depth - 1 /\ (\A i \in 1 .. Depth' : stack'[i] = stack[i])
    BY <1>5, FinishEntryFrames
  <2>2. ret' # Pending
    BY <1>5 DEF FinishEntry, Answer, Failed, Ok, Pending
  <2>3. Depth' \in 1 .. Depth - 1 /\ Depth' \in 1 .. Depth'
    <3>1. stack' \in Seq(Frame)
      BY <1>5, FinishEntryStack
    <3>2. Depth' # 0
      BY <3>1, EmptySeq DEF Depth
    <3> QED
      BY <2>1, <3>2
  <2>4. Waits(Depth')
    BY <2>3 DEF FramesOK, FramesWait
  <2>5. Top' = stack[Depth'] /\ Sources' = list[stack[Depth'].name].sources
    BY <1>0, <2>1, <2>3 DEF Top, Sources
  <2> QED
    BY <2>2, <2>4, <2>5 DEF Answered, Waits
<1>6. ASSUME NextName \/ Abort \/ Complete \/ NewPass PROVE FALSE
  BY <1>6 DEF NextName, Abort, Complete, NewPass, FramesOK, IdleIsEmpty
<1>7. CASE NetworkChanges \/ UNCHANGED vars
  <2>1. UNCHANGED <<stack, chain, ret, list>>
    BY <1>7 DEF NetworkChanges, vars
  <2> QED
    BY <2>1 DEF ChainFresh, Answered, Top, Sources, Depth
<1> QED
  BY <1>1, <1>2, <1>3, <1>4, <1>5, <1>6, <1>7 DEF Next, Internal

-----------------------------------------------------------------------------
(* A pass does what is expected of it.  The sources before the one a frame *)
(* is at have yielded nothing; the address in hand is what its transformers*)
(* have made of its answer so far; and an error means that nothing comes   *)
(* of that source.                                                         *)

Foreseeable == list \notin Drifting /\ ReferencesLast /\ Rankings # {}

Tried(n, s) == \A j \in DOMAIN list[n].sources : j < s => Yield(n, j, Expected) = NoIP

Holding(f, ip) ==
  /\ f.src \in DOMAIN list[f.name].sources
  /\ f.tr <= Len(list[f.name].transformers) + 1
  /\ ip = Transformed(f.name, Raw(f.name, f.src, Expected))[f.tr - 1]
  /\ ip = NoIP => list[f.name].sources[f.src].type = "reference"

Refused(f) ==
  /\ f.src \in DOMAIN list[f.name].sources
  /\ Yield(f.name, f.src, Expected) = NoIP

TableExpected == \A n \in Names : table[n] \in {Unset, Expected[n]}

FailureExpected == \E n \in Names : Expected[n] = NoIP

StackTried == \A i \in 1 .. Depth : Tried(stack[i].name, stack[i].src)

RetExpected ==
  /\ stack # <<>> /\ ret.st = "ok" => Holding(Top, ret.ip)
  /\ stack # <<>> /\ ret.st = "err" => Refused(Top)
  /\ stack = <<>> /\ ret.st = "err" => FailureExpected

OracleOK ==
  Foreseeable =>
    /\ TableExpected
    /\ phase = "failed" => FailureExpected
    /\ Resolving => StackTried /\ RetExpected

DoneIsEmpty == phase = "resolved" => left = {}

(* While the network is steady, none of this is changed by looking on.     *)
LEMMA JudgementStays ==
  ASSUME UNCHANGED <<list, world>>
  PROVE  /\ Expected' = Expected
         /\ FailureExpected' = FailureExpected
         /\ \A n, s : Tried(n, s) => Tried(n, s)'
         /\ \A f, ip : Holding(f, ip) => Holding(f, ip)'
         /\ \A f : Refused(f) => Refused(f)'
<1>1. /\ Expected' = Expected
      /\ \A n, ip : Transformed(n, ip)' = Transformed(n, ip)
      /\ \A n, i, e : Raw(n, i, e)' = Raw(n, i, e)
      /\ \A n, i, e : Yield(n, i, e)' = Yield(n, i, e)
  BY OracleStays
<1>2. ASSUME NEW n, NEW s, Tried(n, s) PROVE Tried(n, s)'
  BY <1>1, <1>2 DEF Tried
<1>3. ASSUME NEW f, NEW ip, Holding(f, ip) PROVE Holding(f, ip)'
  BY <1>1, <1>3 DEF Holding
<1>4. ASSUME NEW f, Refused(f) PROVE Refused(f)'
  BY <1>1, <1>4 DEF Refused
<1> QED
  BY <1>1, <1>2, <1>3, <1>4 DEF FailureExpected

(* The answer of a source, before any transformer.                         *)
LEMMA Arrives ==
  ASSUME TypeOK, Foreseeable, NEW f \in Frame, f.tr = 1,
         f.src \in DOMAIN list[f.name].sources,
         NEW x, x = Raw(f.name, f.src, Expected)
  PROVE  /\ x \in Address
         /\ x = NoIP => Refused(f)
         /\ x # NoIP \/ list[f.name].sources[f.src].type = "reference" => Holding(f, x)
<1>1. f.name \in Names
  BY DEF Frame
<1>2. Expected \in [Names -> Address]
  BY ExpectedSteps DEF Foreseeable
<1>3. x \in Address /\ (x = NoIP => Yield(f.name, f.src, Expected) = NoIP)
  BY <1>1, <1>2, YieldType
<1>4. Transformed(f.name, x)[f.tr - 1] = x
  BY <1>1, <1>3, TransformedSteps
<1>5. f.tr <= Len(list[f.name].transformers) + 1
  BY <1>1, TransformersType
<1> QED
  BY <1>3, <1>4, <1>5 DEF Refused, Holding

(* One more transformer.                                                   *)
LEMMA Proceeds ==
  ASSUME TypeOK, Foreseeable, NEW f \in Frame, NEW ip, Holding(f, ip),
         f.tr <= Len(list[f.name].transformers),
         NEW x, x = list[f.name].transformers[f.tr][ip],
         NEW g, g = [name |-> f.name, src |-> f.src, tr |-> f.tr + 1]
  PROVE  /\ x = NoIP => Refused(g)
         /\ x # NoIP => Holding(g, x)
<1>1. f.name \in Names /\ f.tr \in Nat \ {0} /\ f.src \in DOMAIN list[f.name].sources
  BY DEF Frame, Holding
<1>2. Expected \in [Names -> Address] /\ Len(list[f.name].transformers) \in Nat
  BY <1>1, ExpectedSteps, TransformersType DEF Foreseeable
<1>3. PICK r : r = Raw(f.name, f.src, Expected)
  OBVIOUS
<1>4. r \in Address
  BY <1>1, <1>2, <1>3, YieldType
<1>5. f.tr \in 1 .. Len(list[f.name].transformers) /\ f.tr \in 0 .. Len(list[f.name].transformers)
  BY <1>1, <1>2
<1>6. x = Transformed(f.name, r)[f.tr]
  BY <1>1, <1>3, <1>4, <1>5, TransformedSteps DEF Holding
<1>7. x = NoIP => Transformed(f.name, r)[Len(list[f.name].transformers)] = NoIP
  <2>1. \A k \in 0 .. Len(list[f.name].transformers) :
          Transformed(f.name, r)[k] = NoIP
            => Transformed(f.name, r)[Len(list[f.name].transformers)] = NoIP
    BY <1>1, <1>4, TransformedSteps
  <2> QED
    BY <1>5, <1>6, <2>1
<1>8. g.name = f.name /\ g.src = f.src /\ g.tr = f.tr + 1 /\ g.tr - 1 = f.tr
  BY <1>1
<1>9. g.tr <= Len(list[f.name].transformers) + 1
  BY <1>2, <1>5, <1>8
<1> QED
  BY <1>1, <1>3, <1>6, <1>7, <1>8, <1>9 DEF Refused, Holding, Yield

(* What a frame has in hand at the end is what is expected of its address. *)
LEMMA Concludes ==
  ASSUME TypeOK, Foreseeable, NEW f \in Frame, Tried(f.name, f.src), NEW ip,
         \/ Holding(f, ip) /\ f.tr > Len(list[f.name].transformers)
         \/ ip = NoIP /\ f.src > Len(list[f.name].sources)
  PROVE  ip = Expected[f.name]
<1>1. f.name \in Names /\ f.tr \in Nat \ {0} /\ f.src \in Nat \ {0}
  BY DEF Frame
<1>2. /\ Expected \in [Names -> Address] /\ Expected[f.name] = FirstYield(f.name, Expected)
      /\ Len(list[f.name].transformers) \in Nat
  BY <1>1, ExpectedSteps, TransformersType DEF Foreseeable
<1>3. DOMAIN list[f.name].sources = 1 .. Len(list[f.name].sources) /\ Len(list[f.name].sources) \in Nat
  BY <1>1, LenProperties DEF TypeOK, Entry
<1>4. ASSUME \A j \in DOMAIN list[f.name].sources : Yield(f.name, j, Expected) = NoIP
      PROVE  Expected[f.name] = NoIP
  BY <1>1, <1>2, <1>4, FirstYieldIs
<1>5. CASE ip = NoIP /\ f.src > Len(list[f.name].sources)
  <2>1. \A j \in DOMAIN list[f.name].sources : j < f.src
    BY <1>1, <1>3, <1>5
  <2> QED
    BY <1>4, <1>5, <2>1 DEF Tried
<1>6. CASE Holding(f, ip) /\ f.tr > Len(list[f.name].transformers)
  <2>1. f.tr - 1 = Len(list[f.name].transformers) /\ f.src \in DOMAIN list[f.name].sources
    BY <1>1, <1>2, <1>6 DEF Holding
  <2>2. ip = Yield(f.name, f.src, Expected)
    BY <1>6, <2>1 DEF Holding, Yield
  <2>3. CASE ip = NoIP
    <3>1. f.src = Len(list[f.name].sources)
      BY <1>1, <1>6, <2>1, <2>3 DEF Holding, Foreseeable, ReferencesLast
    <3>2. \A j \in DOMAIN list[f.name].sources : j < f.src \/ j = f.src
      BY <1>3, <3>1
    <3> QED
      BY <1>4, <2>2, <2>3, <3>2 DEF Tried
  <2>4. CASE ip # NoIP
    <3>1. \A j \in 1 .. f.src - 1 : j \in DOMAIN list[f.name].sources /\ j < f.src
      BY <1>1, <1>3, <2>1
    <3> QED
      BY <1>1, <1>2, <2>1, <2>2, <2>4, <3>1, FirstYieldIs DEF Tried
  <2> QED
    BY <2>3, <2>4
<1> QED
  BY <1>5, <1>6

(* No loop is reported where references do not form a cycle and come last. *)
LEMMA NoLoop ==
  ASSUME TypeOK, StackDescends, ChainFresh, Foreseeable, NEW t \in Refs, ReportLoop(t)
  PROVE  FALSE
<1>1. /\ stack # <<>> /\ ret = Pending /\ Top.src <= Len(Sources) /\ t \in chain
      /\ t \in References(Top.name)
  BY ReferenceOfTop DEF ReportLoop, AtSource, InCall, LookupReference
<1>2. Top.src \in Nat /\ Len(Sources) \in Nat /\ Depth \in Nat \ {0} /\ Top.name \in Names
  BY <1>1, TopFrame, LenProperties DEF Frame
<1>3. ~Answered
  BY <1>1, <1>2 DEF Answered
<1>4. PICK i \in 2 .. Depth : t = stack[i].name
  BY <1>1, <1>3 DEF ChainFresh, Foreseeable
<1>5. PICK rank : rank \in Rankings
  BY DEF Foreseeable
<1>6. t \in Names
  BY <1>2, <1>4, FrameNames
<1>7. rank[t] < rank[Top.name] /\ rank[t] \in Nat /\ rank[Top.name] \in Nat
  BY <1>1, <1>2, <1>5, <1>6, RankType DEF Rankings
<1>8. i # Depth
  BY <1>4, <1>7 DEF Top
<1>9. rank[Top.name] < rank[t]
  BY <1>2, <1>4, <1>5, <1>8 DEF StackDescends, Top
<1> QED
  BY <1>7, <1>9

(* A step that leaves the table alone, and the stack up to where the last   *)
(* frame stands, only has to account for what the call returned.           *)
LEMMA StillExpected ==
  ASSUME TypeOK, TableExpected, StackTried, UNCHANGED <<list, world, table>>,
         Depth' = Depth, \A i \in 1 .. Depth - 1 : stack'[i] = stack[i],
         stack # <<>> => Top'.name = Top.name /\ Top'.src = Top.src
  PROVE  TableExpected' /\ StackTried'
<1>1. TableExpected'
  BY JudgementStays DEF TableExpected
<1>2. ASSUME NEW i \in 1 .. Depth
      PROVE  Tried(stack[i].name, stack[i].src)'
  <2>1. Depth \in Nat /\ stack # <<>>
    BY DepthIsNat, EmptySeq DEF Depth
  <2>2. stack'[i].name = stack[i].name /\ stack'[i].src = stack[i].src
    <3>1. i \in 1 .. Depth - 1 \/ i = Depth
      BY <2>1
    <3> QED
      BY <2>1, <3>1 DEF Top
  <2>3. PICK n, s : n = stack[i].name /\ s = stack[i].src
    OBVIOUS
  <2>4. Tried(n, s)'
    BY <2>3, JudgementStays DEF StackTried
  <2> QED
    BY <2>2, <2>3, <2>4
<1> QED
  BY <1>1, <1>2 DEF StackTried

(* A call of resolveOne: what it answers from the table is as expected,    *)
(* and of what it opens a frame for no source has been tried.              *)
LEMMA OpenExpected ==
  ASSUME TypeOK, TableExpected, StackTried, UNCHANGED <<list, world, table>>,
         NEW n, Opens(n)
  PROVE  TableExpected' /\ StackTried' /\ RetExpected'
<1>1. TableExpected'
  BY JudgementStays DEF TableExpected
<1>2. ASSUME NEW i \in 1 .. Depth + 1
      PROVE  Tried(stack[i].name, stack[i].src)'
  <2>1. CASE i \in 1 .. Depth
    <3>1. PICK m, s : m = stack[i].name /\ s = stack[i].src
      OBVIOUS
    <3>2. stack'[i] = stack[i]
      BY <2>1 DEF Opens
    <3>3. Tried(m, s)'
      BY <2>1, <3>1, JudgementStays DEF StackTried
    <3> QED
      BY <3>1, <3>2, <3>3
  <2>2. CASE i = Depth + 1
    <3>1. stack'[i].name = n /\ stack'[i].src = 1
      BY <2>2 DEF Opens, Top
    <3>2. \A j \in DOMAIN list[n].sources : ~(j < 1)
      BY LenProperties DEF Opens, TypeOK, Entry
    <3>3. Tried(n, 1)
      BY <3>2 DEF Tried
    <3>4. Tried(n, 1)'
      BY <3>3, JudgementStays
    <3> QED
      BY <3>1, <3>4
  <2> QED
    BY <2>1, <2>2, DepthIsNat
<1>3. RetExpected'
  BY DEF Opens, Pending, RetExpected
<1> QED
  BY <1>1, <1>2, <1>3 DEF StackTried, Opens

(* A source answers x.                                                     *)
LEMMA AnswerExpected ==
  ASSUME TypeOK, FramesOK, Foreseeable, TableExpected, StackTried,
         UNCHANGED <<list, world, table, stack>>,
         stack # <<>>, ret = Pending, Top.src \in DOMAIN Sources,
         NEW x, x = Raw(Top.name, Top.src, Expected),
         \/ ret' = Answer(x)
         \/ Sources[Top.src].type = "reference" /\ ret' = Ok(x)
  PROVE  TableExpected' /\ StackTried' /\ RetExpected'
<1>1. Top' = Top /\ Depth' = Depth
  BY DEF Top, Depth
<1>2. Top \in Frame /\ Top.tr = 1
  BY TopFrame DEF FramesOK, FramesFresh
<1>3. PICK f : f = Top
  OBVIOUS
<1>4. /\ x = NoIP => Refused(f)
      /\ x # NoIP \/ Sources[Top.src].type = "reference" => Holding(f, x)
  BY <1>2, <1>3, Arrives DEF Sources
<1>5. /\ x = NoIP => Refused(f)'
      /\ x # NoIP \/ Sources[Top.src].type = "reference" => Holding(f, x)'
  BY <1>4, JudgementStays
<1>6. /\ ret'.st = "ok" => ret'.ip = x /\ (x # NoIP \/ Sources[Top.src].type = "reference")
      /\ ret'.st = "err" => x = NoIP
  BY DEF Answer, Ok, Failed
<1>7. RetExpected'
  BY <1>1, <1>3, <1>5, <1>6 DEF RetExpected
<1> QED
  BY <1>1, <1>7, StillExpected

(* A source answers what the oracle has for it.                            *)
LEMMA OracleSource ==
  ASSUME TypeOK, StackDescends, ChainFresh, FramesOK, Foreseeable, TableExpected, StackTried,
         UNCHANGED list,
         \/ \E t \in Refs : LookupReference(t)
         \/ \E p \in Probes : LookupProbe(p)
  PROVE  TableExpected' /\ StackTried' /\ RetExpected'
<1>1. /\ stack # <<>> /\ ret = Pending /\ Top.src <= Len(Sources)
      /\ UNCHANGED <<world, table>>
  BY DEF LookupReference, StartChain, ExtendChain, ReportLoop, LookupProbe, AtSource, InCall
<1>2. Top.src \in DOMAIN Sources
  BY <1>1, TopFrame, LenProperties DEF Frame
<1>3. ASSUME NEW p \in Probes, LookupProbe(p) PROVE TableExpected' /\ StackTried' /\ RetExpected'
  <2>1. /\ Sources[Top.src] = [type |-> "probe", source |-> p]
        /\ ret' = Answer(world[p]) /\ UNCHANGED stack
    BY <1>3 DEF LookupProbe
  <2>2. world[p] = Raw(Top.name, Top.src, Expected)
    BY <2>1 DEF Raw, Sources
  <2> QED
    BY <1>1, <1>2, <2>1, <2>2, AnswerExpected
<1>4. ASSUME NEW t \in Refs, LookupReference(t) PROVE TableExpected' /\ StackTried' /\ RetExpected'
  <2>1. /\ Sources[Top.src] = [type |-> "reference", source |-> t]
        /\ Opens(t) \/ Answers(t)
    BY <1>4, ResolveOneFrames, NoLoop DEF LookupReference, StartChain, ExtendChain, ReportLoop
  <2>2. Raw(Top.name, Top.src, Expected) = IF t \in Names THEN Expected[t] ELSE NoIP
    BY <2>1 DEF Raw, Sources
  <2>3. CASE Opens(t)
    BY <1>1, <2>3, OpenExpected
  <2>4. CASE Answers(t) /\ t \in Names
    <3>1. ret' = Ok(Expected[t]) /\ UNCHANGED stack
      BY <2>4 DEF Answers, TableExpected
    <3> QED
      BY <1>1, <1>2, <2>1, <2>2, <2>4, <3>1, AnswerExpected
  <2>5. CASE Answers(t) /\ t \notin Names
    <3>1. ret' = Answer(NoIP) /\ UNCHANGED stack
      BY <2>5 DEF Answers, Answer
    <3> QED
      BY <1>1, <1>2, <2>2, <2>5, <3>1, AnswerExpected
  <2> QED
    BY <2>1, <2>3, <2>4, <2>5
<1> QED
  BY <1>3, <1>4

(* A transformer goes on along the values of the oracle.                   *)
LEMMA OracleTransformer ==
  ASSUME TypeOK, Foreseeable, TableExpected, StackTried, RetExpected, UNCHANGED list,
         ApplyTransformer
  PROVE  TableExpected' /\ StackTried' /\ RetExpected'
<1>1. /\ stack # <<>> /\ ret.st = "ok" /\ Top.tr <= Len(Transformers)
      /\ ret' = Answer(Transformers[Top.tr][ret.ip]) /\ UNCHANGED <<world, table>>
  BY DEF ApplyTransformer, InCall
<1>2. /\ Depth' = Depth /\ (\A i \in 1 .. Depth - 1 : stack'[i] = stack[i])
      /\ Top' = [name |-> Top.name, src |-> Top.src, tr |-> Top.tr + 1] /\ Top \in Frame
  BY <1>1, ApplyTransformerFrames, TopFrame
<1>3. TableExpected' /\ StackTried'
  BY <1>1, <1>2, StillExpected
<1>4. PICK f, ip : f = Top /\ ip = ret.ip
  OBVIOUS
<1>5. PICK x : x = Transformers[Top.tr][ret.ip]
  OBVIOUS
<1>6. PICK g : g = [name |-> f.name, src |-> f.src, tr |-> f.tr + 1]
  OBVIOUS
<1>7. Holding(f, ip) /\ f \in Frame /\ f.tr <= Len(list[f.name].transformers)
      /\ x = list[f.name].transformers[f.tr][ip]
  BY <1>1, <1>2, <1>4, <1>5 DEF RetExpected, Transformers
<1>8. (x = NoIP => Refused(g)) /\ (x # NoIP => Holding(g, x))
  BY <1>6, <1>7, Proceeds
<1>9. (x = NoIP => Refused(g)') /\ (x # NoIP => Holding(g, x)')
  BY <1>1, <1>8, JudgementStays
<1>10. /\ ret'.st = "ok" => ret'.ip = x /\ x # NoIP
       /\ ret'.st = "err" => x = NoIP
       /\ Top' = g
  BY <1>1, <1>2, <1>4, <1>5, <1>6 DEF Answer, Ok, Failed
<1>11. stack' # <<>>
  BY <1>1 DEF ApplyTransformer
<1>12. RetExpected'
  BY <1>9, <1>10, <1>11 DEF RetExpected
<1> QED
  BY <1>3, <1>12

(* A source that is given up on yields nothing in the oracle either.       *)
LEMMA OracleNextSource ==
  ASSUME TypeOK, Foreseeable, TableExpected, StackTried, RetExpected, UNCHANGED list,
         NextSource
  PROVE  TableExpected' /\ StackTried' /\ RetExpected'
<1>1. stack # <<>> /\ ret.st = "err" /\ ret' = Pending /\ UNCHANGED <<world, table>>
  BY DEF NextSource, InCall
<1>2. /\ Depth' = Depth /\ (\A i \in 1 .. Depth - 1 : stack'[i] = stack[i])
      /\ Top' = [name |-> Top.name, src |-> Top.src + 1, tr |-> 1]
      /\ Top \in Frame /\ Depth \in Nat \ {0} /\ Top.name \in Names
  BY <1>1, NextSourceFrames, TopFrame
<1>3. TableExpected'
  BY <1>1, JudgementStays DEF TableExpected
<1>4. RetExpected'
  BY <1>1 DEF RetExpected, Pending
<1>5. ASSUME NEW i \in 1 .. Depth PROVE Tried(stack[i].name, stack[i].src)'
  <2>1. CASE i # Depth
    <3>1. PICK n, s : n = stack[i].name /\ s = stack[i].src
      OBVIOUS
    <3>2. stack'[i] = stack[i]
      BY <1>2, <2>1
    <3>3. Tried(n, s)'
      BY <1>1, <3>1, JudgementStays DEF StackTried
    <3> QED
      BY <3>1, <3>2, <3>3
  <2>2. CASE i = Depth
    <3>1. PICK n, s : n = Top.name /\ s = Top.src
      OBVIOUS
    <3>2. Tried(n, s) /\ Yield(n, s, Expected) = NoIP /\ s \in Nat
      BY <1>1, <1>2, <3>1 DEF RetExpected, Refused, StackTried, Top, Frame
    <3>3. DOMAIN list[n].sources \subseteq Nat
      BY <1>2, <3>1, LenProperties DEF TypeOK, Entry
    <3>4. Tried(n, s + 1)
      <4>1. \A j \in DOMAIN list[n].sources : j < s + 1 => j < s \/ j = s
        BY <3>2, <3>3
      <4> QED
        BY <3>2, <4>1 DEF Tried
    <3>5. Tried(n, s + 1)'
      BY <1>1, <3>4, JudgementStays
    <3>6. stack'[i].name = n /\ stack'[i].src = s + 1
      BY <1>2, <2>2, <3>1 DEF Top
    <3> QED
      BY <3>5, <3>6
  <2> QED
    BY <2>1, <2>2
<1> QED
  BY <1>2, <1>3, <1>4, <1>5 DEF StackTried

(* What an activation returns and records is what the oracle has for it.   *)
LEMMA OracleFinish ==
  ASSUME TypeOK, FramesOK, Foreseeable, TableExpected, StackTried, RetExpected, UNCHANGED list,
         FinishEntry
  PROVE  TableExpected' /\ StackTried' /\ RetExpected'
<1>1. /\ stack # <<>> /\ Depth \in Nat \ {0} /\ Top \in Frame /\ Top.name \in Names
      /\ Depth' = Depth - 1 /\ (\A i \in 1 .. Depth' : stack'[i] = stack[i])
      /\ \A n \in Names : table'[n] = IF n = Top.name THEN ret.ip ELSE table[n]
      /\ ret' = Answer(ret.ip) /\ UNCHANGED world
  BY FinishEntryFrames, TopFrame, FinishTable DEF FinishEntry
<1>2. ret.ip = Expected[Top.name]
  <2>1. Tried(Top.name, Top.src)
    BY <1>1 DEF StackTried, Top
  <2>2. CASE ret.st = "ok" /\ Top.tr > Len(Transformers)
    BY <1>1, <2>1, <2>2, Concludes DEF RetExpected, Transformers
  <2>3. CASE ret = Pending /\ Top.src > Len(Sources)
    BY <1>1, <2>1, <2>3, Concludes DEF Pending, Sources
  <2> QED
    BY <2>2, <2>3 DEF FinishEntry
<1>3. TableExpected'
  BY <1>1, <1>2, JudgementStays DEF TableExpected
<1>4. StackTried'
  <2>1. ASSUME NEW i \in 1 .. Depth - 1 PROVE Tried(stack[i].name, stack[i].src)'
    <3>1. PICK n, s : n = stack[i].name /\ s = stack[i].src
      OBVIOUS
    <3>2. stack'[i] = stack[i] /\ i \in 1 .. Depth
      BY <1>1
    <3>3. Tried(n, s)'
      BY <1>1, <3>1, <3>2, JudgementStays DEF StackTried
    <3> QED
      BY <3>1, <3>2, <3>3
  <2> QED
    BY <1>1, <2>1 DEF StackTried
<1>5. CASE stack' = <<>>
  <2>1. ret'.st = "err" => Expected[Top.name] = NoIP
    BY <1>1, <1>2 DEF Answer, Ok
  <2>2. ret'.st = "err" => FailureExpected'
    BY <1>1, <2>1, JudgementStays DEF FailureExpected
  <2>3. RetExpected'
    BY <1>5, <2>2 DEF RetExpected
  <2> QED
    BY <1>3, <1>4, <2>3
<1>6. CASE stack' # <<>>
  <2>1. Depth' # 0 /\ Depth - 1 \in 1 .. Depth - 1 /\ Depth' \in 1 .. Depth'
    <3>1. TypeOK'
      BY TypeInductive DEF Next, Internal
    <3> QED
      BY <1>1, <1>6, <3>1, EmptySeq DEF TypeOK, Depth
  <2>2. PICK f : f = stack[Depth - 1]
    OBVIOUS
  <2>3. Top' = f /\ f.tr = 1 /\ f \in Frame
    <3>1. Depth - 1 \in 1 .. Len(stack)
      BY <1>1, <2>1 DEF Depth
    <3> QED
      BY <1>1, <2>1, <2>2, <3>1, ElementOfSeq DEF Top, FramesOK, FramesFresh, TypeOK
  <2>4. /\ f.src \in DOMAIN list[f.name].sources
        /\ list[f.name].sources[f.src] = [type |-> "reference", source |-> Top.name]
    <3>1. Waits(Depth - 1) /\ stack[Depth - 1 + 1] = Top
      BY <1>1, <2>1 DEF FramesOK, FramesWait, Top
    <3> QED
      BY <2>2, <3>1 DEF Waits
  <2>5. ret.ip = Raw(f.name, f.src, Expected)
    BY <1>1, <1>2, <2>4 DEF Raw
  <2>6. PICK x : x = ret.ip
    OBVIOUS
  <2>7. (x = NoIP => Refused(f)) /\ (x # NoIP => Holding(f, x))
    BY <2>3, <2>4, <2>5, <2>6, Arrives
  <2>8. (x = NoIP => Refused(f)') /\ (x # NoIP => Holding(f, x)')
    BY <1>1, <2>7, JudgementStays
  <2>9. /\ ret'.st = "ok" => ret'.ip = x /\ x # NoIP
        /\ ret'.st = "err" => x = NoIP
    BY <1>1, <2>6 DEF Answer, Ok, Failed
  <2>10. RetExpected'
    BY <1>6, <2>3, <2>8, <2>9 DEF RetExpected
  <2> QED
    BY <1>3, <1>4, <2>10
<1> QED
  BY <1>5, <1>6

(* No step departs from the oracle.                                        *)
LEMMA OracleInductive ==
  TypeOK /\ StackDescends /\ FramesOK /\ ChainFresh /\ OracleOK /\ [Next]_vars => OracleOK'
<1> SUFFICES ASSUME TypeOK, StackDescends, FramesOK, ChainFresh, OracleOK, [Next]_vars, Foreseeable'
             PROVE  /\ TableExpected'
                    /\ (phase = "failed" => FailureExpected)'
                    /\ Resolving' => StackTried' /\ RetExpected'
  BY DEF OracleOK
<1>1. UNCHANGED list /\ Foreseeable
  BY ListIsConstant, RankingsAreConstant DEF Foreseeable, ReferencesLast
<1>2. /\ TableExpected
      /\ phase = "failed" => FailureExpected
      /\ Resolving => StackTried /\ RetExpected
  BY <1>1 DEF OracleOK
<1>3. CASE NewPass
  <2>1. stack' = <<>> /\ ret'.st = "pending" /\ phase' = "resolving" /\ \A n \in Names : table'[n] = Unset
    BY <1>3 DEF NewPass, FramesOK, IdleIsEmpty, Pending
  <2>2. Depth' = 0
    BY <2>1 DEF Depth
  <2> QED
    BY <2>1, <2>2 DEF TableExpected, StackTried, RetExpected
<1>4. ASSUME Resolving, UNCHANGED phase, TableExpected' /\ StackTried' /\ RetExpected'
      PROVE  /\ TableExpected'
             /\ (phase = "failed" => FailureExpected)'
             /\ Resolving' => StackTried' /\ RetExpected'
  BY <1>4 DEF Resolving
<1>5. ASSUME NEW n \in Names, PickName(n) PROVE TableExpected' /\ StackTried' /\ RetExpected'
  <2>1. /\ Resolving /\ stack = <<>> /\ ret = Pending /\ UNCHANGED <<world, table>>
        /\ Opens(n) \/ Answers(n)
    BY <1>5, ResolveOneFrames DEF PickName
  <2>2. CASE Opens(n)
    BY <1>1, <1>2, <2>1, <2>2, OpenExpected
  <2>3. CASE Answers(n)
    <3>1. stack' = <<>> /\ Depth' = Depth /\ ret'.st # "err" /\ Depth = 0
      BY <2>1, <2>3 DEF Answers, Ok, Depth
    <3>2. TableExpected' /\ StackTried'
      BY <1>1, <1>2, <2>1, <3>1, StillExpected
    <3> QED
      BY <3>1, <3>2 DEF RetExpected
  <2> QED
    BY <2>1, <2>2, <2>3
<1>6. ASSUME NextName PROVE TableExpected' /\ StackTried' /\ RetExpected'
  <2>1. /\ Resolving /\ stack = <<>> /\ stack' = <<>> /\ Depth' = Depth /\ Depth = 0
        /\ ret'.st # "err" /\ UNCHANGED <<world, table>>
    BY <1>6 DEF NextName, Pending, Depth
  <2>2. TableExpected' /\ StackTried'
    BY <1>1, <1>2, <2>1, StillExpected
  <2> QED
    BY <2>1, <2>2 DEF RetExpected
<1>7. CASE Abort \/ Complete
  <2>1. Resolving /\ stack = <<>> /\ UNCHANGED <<world, table>> /\ phase' # "resolving"
        /\ (phase' = "failed" => ret.st = "err")
    BY <1>7 DEF Abort, Complete
  <2>2. TableExpected'
    BY <1>1, <1>2, <2>1, JudgementStays DEF TableExpected
  <2>3. phase' = "failed" => FailureExpected'
    BY <1>1, <1>2, <2>1, JudgementStays DEF RetExpected
  <2> QED
    BY <2>1, <2>2, <2>3 DEF Resolving
<1>8. CASE UNCHANGED vars
  <2>1. UNCHANGED <<list, world, table, stack, ret, phase>>
    BY <1>8 DEF vars
  <2>2. TableExpected' /\ (phase' = "failed" => FailureExpected')
    BY <1>2, <2>1, JudgementStays DEF TableExpected
  <2>3. ASSUME Resolving PROVE StackTried' /\ RetExpected'
    <3>1. StackTried'
      BY <1>2, <2>1, <2>3, StillExpected DEF Depth, Top
    <3>2. PICK f, ip : f = Top /\ ip = ret.ip
      OBVIOUS
    <3>3. /\ stack # <<>> /\ ret.st = "ok" => Holding(f, ip)'
          /\ stack # <<>> /\ ret.st = "err" => Refused(f)'
          /\ stack = <<>> /\ ret.st = "err" => FailureExpected'
      BY <1>2, <2>1, <2>3, <3>2, JudgementStays DEF RetExpected
    <3>4. Top' = f /\ ret'.ip = ip
      BY <2>1, <3>2 DEF Top, Depth
    <3> QED
      BY <2>1, <3>1, <3>3, <3>4 DEF RetExpected
  <2> QED
    BY <2>1, <2>2, <2>3 DEF Resolving
<1>9. ~NetworkChanges
  BY <1>1 DEF NetworkChanges, Foreseeable
<1>10. ASSUME ApplyTransformer \/ NextSource \/ FinishEntry
              \/ (\E t \in Refs : LookupReference(t)) \/ (\E p \in Probes : LookupProbe(p))
       PROVE  Resolving /\ UNCHANGED phase
  BY <1>10 DEF ApplyTransformer, NextSource, FinishEntry, LookupReference, StartChain, ExtendChain,
               ReportLoop, LookupProbe, AtSource, InCall
<1>11. ASSUME ApplyTransformer \/ NextSource \/ FinishEntry
              \/ (\E t \in Refs : LookupReference(t)) \/ (\E p \in Probes : LookupProbe(p))
       PROVE  TableExpected' /\ StackTried' /\ RetExpected'
  BY <1>1, <1>2, <1>10, <1>11, OracleSource, OracleTransformer, OracleNextSource, OracleFinish
<1>12. ASSUME NextName \/ \E n \in Names : PickName(n)
       PROVE  Resolving /\ UNCHANGED phase
  BY <1>12 DEF NextName, PickName
<1> QED
  BY <1>3, <1>4, <1>5, <1>6, <1>7, <1>8, <1>9, <1>10, <1>11, <1>12 DEF Next, Internal

(* No name is left when a pass has come to its end.                        *)
LEMMA DoneInductive == DoneIsEmpty /\ [Next]_vars => DoneIsEmpty'
  BY DEF DoneIsEmpty, Resolving, InCall, AtSource, Next, Internal, vars, PickName, LookupReference,
         StartChain, ExtendChain, ReportLoop, LookupProbe, ApplyTransformer, NextSource, FinishEntry,
         NextName, Abort, Complete, NewPass, NetworkChanges

(* Where references come last and form no cycle, and the network is        *)
(* steady, Resolver.Resolve records for every address what its sources and *)
(* transformers say, whatever the order in which Go ranges over the map of *)
(* names and whichever addresses were resolved as a reference before.  It  *)
(* fails only if some address has no value, and it does fail if one that   *)
(* no other refers to has none.                                            *)
THEOREM OracleHolds == Spec => []MatchesOracle
<1> DEFINE I == /\ StackDescends /\ BoundedRecursion /\ ChainCoversStack
               /\ FramesOK /\ ChainFresh /\ OracleOK /\ DoneIsEmpty
<1>1. Init => I
  <2> SUFFICES ASSUME Init PROVE I
    OBVIOUS
  <2>1. Depth = 0 /\ stack = <<>> /\ ret.st = "pending" /\ ret = Pending /\ Resolving /\ chain = {}
        /\ phase = "resolving" /\ \A n \in Names : table[n] = Unset
    BY DEF Init, Depth, Resolving, Pending
  <2> QED
    BY <2>1 DEF StackDescends, BoundedRecursion, ChainCoversStack, FramesOK, FramesFresh,
                FramesWait, IdleIsEmpty, ChainFresh, OracleOK, TableExpected, StackTried, RetExpected, DoneIsEmpty, Resolving
<1>2. TypeOK /\ I /\ [Next]_vars => I'
  BY StackDescendsInductive, RecursionInductive, FramesInductive, ChainFreshInductive,
     OracleInductive, DoneInductive
<1>3. TypeOK /\ LeftIsUnresolved /\ NilOnlyIfReferenced /\ I => MatchesOracle
  <2> SUFFICES ASSUME TypeOK, LeftIsUnresolved, NilOnlyIfReferenced, OracleOK, DoneIsEmpty,
                      list \notin Drifting, ReferencesLast, Acyclic
               PROVE  /\ \A n \in Names : table[n] \in {Unset, Expected[n]}
                      /\ phase = "failed" => \E n \in Names : Expected[n] = NoIP
                      /\ phase = "resolved" =>
                           \A n \in Names : (\A m \in Names : n \notin References(m))
                                               => Expected[n] # NoIP
    BY DEF MatchesOracle
  <2>1. TableExpected /\ (phase = "failed" => FailureExpected)
    BY DEF OracleOK, Foreseeable, Acyclic, Rankings
  <2>2. ASSUME phase = "resolved", NEW n \in Names, \A m \in Names : n \notin References(m)
        PROVE  Expected[n] # NoIP
    <3>1. table[n] # Unset
      BY <2>2 DEF LeftIsUnresolved, DoneIsEmpty
    <3>2. table[n] # NoIP
      BY <2>2 DEF NilOnlyIfReferenced
    <3> QED
      BY <2>1, <3>1, <3>2 DEF TableExpected
  <2> QED
    BY <2>1, <2>2 DEF TableExpected, FailureExpected
<1> QED
  BY <1>1, <1>2, <1>3, TypeCorrect, LeftCorrect, NilIsBehindReference, PTL DEF Spec
=============================================================================
