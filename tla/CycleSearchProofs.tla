------------------------- MODULE CycleSearchProofs -------------------------
(***************************************************************************)
(* What holds of _gate_reachable for every valid profile: when it returns, *)
(* its answer is the one the stage graph dictates.                         *)
(*                                                                         *)
(* The first phase collects the least closed set.  In the two searches the *)
(* grey stages are the path, each a successor of the one before; a finished*)
(* stage only leads to finished ones, and no cycle lies among these: so a  *)
(* grey successor of the top closes a cycle, and when nothing is white or  *)
(* grey any more there is none.                                            *)
(***************************************************************************)
EXTENDS CycleSearch, SequenceTheorems, TLAPS

-----------------------------------------------------------------------------
\* The inductive invariant.

Frame == [name : nodes, pending : SUBSET nodes]

TypeOK ==
    /\ profile \in Profiles
    /\ phase \in {"reach", "corrections", "branchings", "answered"}
    /\ seen \subseteq StageNames(profile) /\ frontier \subseteq StageNames(profile)
    /\ nodes \subseteq StageNames(profile)
    /\ colour \in [nodes -> {"white", "grey", "black"}]
    /\ stack \in Seq(Frame)

\* What was collected is reachable, and what it leads to is known.
Collected ==
    IF phase = "reach"
    THEN /\ seen \cup frontier \subseteq ReachableStages(profile)
         /\ profile.initial \in seen \cup frontier
         /\ \A s \in seen : Successors(profile, s) \subseteq seen \cup frontier
    ELSE seen = ReachableStages(profile)

CorrectionFree == {s \in ReachableStages(profile) : StageArity(profile, s) # "correction"}
BranchFree == {s \in ReachableStages(profile) : StageArity(profile, s) # "branching"}

\* What the search in hand is confined to, and what is settled before it.
Confined ==
    /\ phase = "corrections" => nodes = CorrectionFree
    /\ phase = "branchings" => nodes = BranchFree /\ ~HasCycle(profile, CorrectionFree)

\* The grey stages are the path, and what was looked at from a stage of it
\* is finished or is the next stage of it.
Path ==
    /\ \A i, j \in 1..Len(stack) : stack[i].name = stack[j].name => i = j
    /\ \A n \in nodes : colour[n] = "grey" <=> \E i \in 1..Len(stack) : stack[i].name = n
    /\ \A i, j \in 1..Len(stack) : j = i + 1 => stack[j].name \in Successors(profile, stack[i].name)
    /\ \A i \in 1..Len(stack) :
          /\ stack[i].pending \subseteq Inside(stack[i].name)
          /\ \A t \in Inside(stack[i].name) \ stack[i].pending :
                colour[t] = "black" \/ \E j \in 1..Len(stack) : j = i + 1 /\ stack[j].name = t

Black == {n \in nodes : colour[n] = "black"}

Finished ==
    /\ \A n \in Black : Inside(n) \subseteq Black
    /\ ~HasCycle(profile, Black)

IInv == TypeOK /\ Collected /\ Confined /\ (Searching => Path /\ Finished) /\ GateRight

-----------------------------------------------------------------------------
\* The graph.

\* Every outcome of a valid profile leads to a stage of it.
LEMMA SuccessorsIn ==
    ASSUME NEW p, ValidProfile(p), NEW s \in StageNames(p)
    PROVE  Successors(p, s) \subseteq StageNames(p)
<1>1. CASE IsTerminal(p, s)
  BY <1>1 DEF ValidProfile, Successors
<1>2. CASE ~IsTerminal(p, s)
  BY <1>2 DEF ValidProfile, Successors
<1> QED BY <1>1, <1>2

\* The reachable stages are closed, and every closed set holds them.
LEMMA ReachableIs ==
    ASSUME NEW p, ValidProfile(p)
    PROVE  /\ ReachableStages(p) \subseteq StageNames(p) /\ p.initial \in ReachableStages(p)
           /\ \A s \in ReachableStages(p) : Successors(p, s) \subseteq ReachableStages(p)
           /\ \A S \in SUBSET StageNames(p) :
                 p.initial \in S /\ (\A s \in S : Successors(p, s) \subseteq S)
                 => ReachableStages(p) \subseteq S
<1> DEFINE Closed(S) == p.initial \in S /\ \A s \in S : Successors(p, s) \subseteq S
<1>1. ReachableStages(p) = {s \in StageNames(p) : \A S \in SUBSET StageNames(p) : Closed(S) => s \in S}
  BY DEF ReachableStages
<1>2. p.initial \in ReachableStages(p)
  BY <1>1 DEF ValidProfile
<1>3. ASSUME NEW s \in ReachableStages(p), NEW t \in Successors(p, s) PROVE t \in ReachableStages(p)
  <2>1. s \in StageNames(p) /\ t \in StageNames(p)
    BY <1>1, SuccessorsIn
  <2>2. ASSUME NEW S \in SUBSET StageNames(p), Closed(S) PROVE t \in S
    BY <1>1, <2>2
  <2> QED BY <1>1, <2>1, <2>2
<1> QED BY <1>1, <1>2, <1>3

\* A stage that only leads to a part without a cycle, and to which no stage
\* of that part leads back, closes none.
LEMMA NoCycleAdded ==
    ASSUME NEW p, NEW all, NEW part \in SUBSET all, NEW n \in all, n \notin part,
           Successors(p, n) \cap all \subseteq part,
           \A s \in part : Successors(p, s) \cap all \subseteq part,
           ~HasCycle(p, part)
    PROVE  ~HasCycle(p, part \cup {n})
<1> SUFFICES ASSUME NEW C \in (SUBSET (part \cup {n})) \ {{}}, \A s \in C : Successors(p, s) \cap C # {}
             PROVE  FALSE
  BY DEF HasCycle
<1> DEFINE B == C \ {n}
<1>1. \A s \in C : Successors(p, s) \cap C \subseteq part
  <2> SUFFICES ASSUME NEW s \in C, NEW t \in Successors(p, s) \cap C PROVE t \in part
    OBVIOUS
  <2>1. t \in all /\ (s = n \/ s \in part)
    OBVIOUS
  <2> QED BY <2>1
<1>2. B # {}
  <2>1. PICK s : s \in C
    OBVIOUS
  <2>2. PICK t : t \in Successors(p, s) \cap C
    BY <2>1
  <2> QED BY <1>1, <2>1, <2>2
<1>3. \A s \in B : Successors(p, s) \cap B # {}
  <2> SUFFICES ASSUME NEW s \in B PROVE Successors(p, s) \cap B # {}
    OBVIOUS
  <2>1. PICK t : t \in Successors(p, s) \cap C
    OBVIOUS
  <2> QED BY <1>1, <2>1
<1>4. B \in (SUBSET part) \ {{}}
  BY <1>2
<1> QED BY <1>3, <1>4 DEF HasCycle

-----------------------------------------------------------------------------
\* Facts about the state.

LEMMA Valid ==
    ASSUME TypeOK
    PROVE  /\ ValidProfile(profile) /\ Len(stack) \in Nat
           /\ stack # <<>> => Len(stack) \in 1..Len(stack)
           /\ \A i \in 1..Len(stack) : stack[i] \in Frame
           /\ ReachableStages(profile) \subseteq StageNames(profile)
           /\ \A n \in nodes : n \in StageNames(profile) /\ colour[n] \in {"white", "grey", "black"}
<1>1. ValidProfile(profile)
  BY ProfilesAssumption DEF TypeOK
<1>2. Len(stack) \in Nat /\ (stack # <<>> => Len(stack) \in 1..Len(stack))
      /\ \A i \in 1..Len(stack) : stack[i] \in Frame
  BY DEF TypeOK
<1> QED BY <1>1, <1>2, ReachableIs DEF TypeOK

\* A grey stage that the top leads to closes a cycle: the path from it on.
LEMMA GreyCloses ==
    ASSUME TypeOK, Path, stack # <<>>, NEW target \in Top.pending, colour[target] = "grey"
    PROVE  HasCycle(profile, nodes)
<1>1. PICK l \in Nat : l = Len(stack) /\ l \in 1..l
  BY Valid
<1>2. \A i \in 1..l : stack[i].name \in nodes /\ stack[i].pending \subseteq nodes
  BY <1>1, Valid DEF Frame
<1>3. target \in nodes /\ target \in Successors(profile, stack[l].name)
  <2>1. target \in Inside(stack[l].name)
    BY <1>1 DEF Path, Top
  <2> QED BY <2>1 DEF Inside
<1>4. PICK k \in 1..l : stack[k].name = target
  BY <1>1, <1>3 DEF Path
<1> DEFINE C == {stack[i].name : i \in k..l}
<1>5. C \in (SUBSET nodes) \ {{}}
  <2>1. k \in k..l /\ \A i \in k..l : i \in 1..l
    BY <1>1
  <2> QED BY <1>2, <2>1
<1>6. ASSUME NEW i \in k..l PROVE Successors(profile, stack[i].name) \cap C # {}
  <2>1. CASE i = l
    <3>1. k \in k..l
      BY <1>1
    <3> QED BY <1>3, <1>4, <2>1, <3>1
  <2>2. CASE i # l
    <3>1. i \in 1..l /\ i + 1 \in 1..l /\ i + 1 \in k..l
      BY <1>1, <2>2
    <3>2. stack[i + 1].name \in Successors(profile, stack[i].name)
      BY <1>1, <3>1 DEF Path
    <3> QED BY <3>1, <3>2
  <2> QED BY <2>1, <2>2
<1>7. \A s \in C : Successors(profile, s) \cap C # {}
  BY <1>6
<1> HIDE DEF C
<1> QED BY <1>5, <1>7 DEF HasCycle

-----------------------------------------------------------------------------
\* The first phase.

LEMMA CollectIInv == IInv /\ Collect => IInv'
<1> SUFFICES ASSUME IInv, Collect PROVE IInv'
  OBVIOUS
<1>1. PICK name \in frontier :
        /\ seen' = seen \cup {name}
        /\ frontier' = (frontier \ {name}) \cup (IF name \in seen THEN {} ELSE Successors(profile, name))
  BY DEF Collect
<1>2. phase = "reach" /\ UNCHANGED <<profile, phase, nodes, colour, stack, gate>> /\ TypeOK
  BY DEF IInv, Collect
<1>3. name \in StageNames(profile) /\ Successors(profile, name) \subseteq StageNames(profile)
  BY <1>2, Valid, SuccessorsIn DEF TypeOK
<1>4. TypeOK'
  <2>1. Frame' = Frame
    BY <1>2 DEF Frame
  <2> QED BY <1>1, <1>2, <1>3, <2>1 DEF TypeOK
<1>5. Collected'
  <2>1. /\ seen \cup frontier \subseteq ReachableStages(profile)
        /\ profile.initial \in seen \cup frontier
        /\ \A s \in seen : Successors(profile, s) \subseteq seen \cup frontier
    BY <1>2 DEF IInv, Collected
  <2>2. Successors(profile, name) \subseteq ReachableStages(profile)
    BY <2>1, <1>2, Valid, ReachableIs
  <2>3. seen' \cup frontier' \subseteq ReachableStages(profile)
    BY <1>1, <2>1, <2>2
  <2>4. seen \cup frontier \subseteq seen' \cup frontier'
    BY <1>1
  <2>5. \A s \in seen' : Successors(profile, s) \subseteq seen' \cup frontier'
    BY <1>1, <2>1, <2>4
  <2>6. profile.initial \in seen' \cup frontier'
    BY <2>1, <2>4
  <2> QED BY <1>2, <2>3, <2>5, <2>6 DEF Collected
<1>6. Confined' /\ ~Searching' /\ GateRight'
  BY <1>2 DEF Confined, Searching, GateRight
<1> QED BY <1>4, <1>5, <1>6 DEF IInv

\* A search that starts: everything is white.
LEMMA ConfineStarts ==
    ASSUME TypeOK, NEW next, next \in {"corrections", "branchings"},
           NEW arity, Confine(next, arity), seen = ReachableStages(profile),
           UNCHANGED <<profile, seen, frontier, gate>>
    PROVE  /\ TypeOK' /\ Path' /\ Finished'
           /\ nodes' = {s \in ReachableStages(profile) : StageArity(profile, s) # arity}
<1>1. /\ phase' = next /\ nodes' = {n \in seen : StageArity(profile, n) # arity}
      /\ colour' = [n \in nodes' |-> "white"] /\ stack' = <<>>
  BY DEF Confine
<1>2. TypeOK'
  BY <1>1 DEF TypeOK
<1>3. Path'
  BY <1>1 DEF Path
<1>4. Black' = {}
  BY <1>1 DEF Black
<1>5. Finished'
  BY <1>4 DEF Finished, HasCycle
<1> QED BY <1>1, <1>2, <1>3, <1>5

LEMMA SearchCorrectionFreeIInv == IInv /\ SearchCorrectionFree => IInv'
<1> SUFFICES ASSUME IInv, SearchCorrectionFree PROVE IInv'
  OBVIOUS
<1>1. /\ phase = "reach" /\ frontier = {} /\ Confine("corrections", "correction") /\ TypeOK
      /\ UNCHANGED <<profile, seen, frontier, gate>>
  BY DEF IInv, SearchCorrectionFree
<1>2. phase' = "corrections"
  BY <1>1 DEF Confine
<1>3. seen = ReachableStages(profile)
  <2>1. /\ seen \subseteq ReachableStages(profile) /\ profile.initial \in seen
        /\ \A s \in seen : Successors(profile, s) \subseteq seen
        /\ seen \in SUBSET StageNames(profile)
    BY <1>1 DEF IInv, TypeOK, Collected
  <2>2. ReachableStages(profile) \subseteq seen
    BY <1>1, <2>1, Valid, ReachableIs
  <2> QED BY <2>1, <2>2
<1>4. /\ TypeOK' /\ Path' /\ Finished'
      /\ nodes' = {s \in ReachableStages(profile) : StageArity(profile, s) # "correction"}
  BY <1>1, <1>3, ConfineStarts
<1>5. Collected' /\ Confined' /\ GateRight'
  BY <1>1, <1>2, <1>3, <1>4 DEF Collected, Confined, CorrectionFree, GateRight
<1> QED BY <1>4, <1>5 DEF IInv

-----------------------------------------------------------------------------
\* The searches.

\* Nothing is white and the path is empty: all is finished.
LEMMA AllFinished ==
    ASSUME TypeOK, Path, Finished, stack = <<>>, White = {}
    PROVE  ~HasCycle(profile, nodes)
<1>1. \A n \in nodes : colour[n] = "black"
  BY Valid DEF White, Path
<1>2. Black = nodes
  BY <1>1 DEF Black
<1> QED BY <1>2 DEF Finished

LEMMA SearchBranchFreeIInv == IInv /\ SearchBranchFree => IInv'
<1> SUFFICES ASSUME IInv, SearchBranchFree PROVE IInv'
  OBVIOUS
<1>1. /\ phase = "corrections" /\ stack = <<>> /\ White = {} /\ Confine("branchings", "branching")
      /\ TypeOK /\ UNCHANGED <<profile, seen, frontier, gate>>
  BY DEF IInv, SearchBranchFree
<1>2. phase' = "branchings"
  BY <1>1 DEF Confine
<1>3. seen = ReachableStages(profile) /\ nodes = CorrectionFree
  BY <1>1 DEF IInv, Collected, Confined
<1>4. ~HasCycle(profile, CorrectionFree)
  BY <1>1, <1>3, AllFinished DEF IInv, Searching
<1>5. /\ TypeOK' /\ Path' /\ Finished'
      /\ nodes' = {s \in ReachableStages(profile) : StageArity(profile, s) # "branching"}
  BY <1>1, <1>3, ConfineStarts
<1>6. Collected' /\ Confined' /\ GateRight'
  BY <1>1, <1>2, <1>3, <1>4, <1>5 DEF Collected, Confined, CorrectionFree, BranchFree, GateRight
<1> QED BY <1>5, <1>6 DEF IInv

\* Neither search found a cycle.
LEMMA AnswerIInv == IInv /\ Answer => IInv'
<1> SUFFICES ASSUME IInv, Answer PROVE IInv'
  OBVIOUS
<1>1. /\ phase = "branchings" /\ stack = <<>> /\ White = {} /\ TypeOK
      /\ phase' = "answered" /\ gate' = "convergence"
      /\ UNCHANGED <<profile, seen, frontier, nodes, colour, stack>>
  BY DEF IInv, Answer
<1>2. ~HasCycle(profile, CorrectionFree) /\ ~HasCycle(profile, BranchFree)
  <2>1. nodes = BranchFree /\ ~HasCycle(profile, CorrectionFree)
    BY <1>1 DEF IInv, Confined
  <2> QED BY <1>1, <2>1, AllFinished DEF IInv, Searching
<1>3. GateRight'
  BY <1>1, <1>2 DEF GateRight, GateReachable, CorrectionFree, BranchFree
<1>4. TypeOK'
  <2>1. Frame' = Frame
    BY <1>1 DEF Frame
  <2> QED BY <1>1, <2>1 DEF TypeOK
<1>5. Collected' /\ Confined' /\ ~Searching'
  BY <1>1 DEF IInv, Collected, Confined, Searching
<1> QED BY <1>3, <1>4, <1>5 DEF IInv

\* A step of a search that stays in it.
LEMMA StepsOn ==
    ASSUME IInv, Searching, TypeOK', Path', Finished',
           UNCHANGED <<profile, phase, seen, frontier, nodes, gate>>
    PROVE  IInv'
<1>1. Collected'
  BY DEF IInv, Collected
<1>2. Confined' /\ GateRight'
  BY DEF IInv, Searching, Confined, CorrectionFree, BranchFree, GateRight
<1> QED BY <1>1, <1>2 DEF IInv

\* What is painted grey was white, so nothing finished is touched.
LEMMA GreyKeepsFinished ==
    ASSUME TypeOK, Finished, NEW n \in nodes, colour[n] = "white", Paint(n, "grey"),
           UNCHANGED <<profile, nodes>>
    PROVE  Finished'
<1>1. colour' = [colour EXCEPT ![n] = "grey"]
  BY DEF Paint
<1>2. Black' = Black
  BY <1>1 DEF TypeOK, Black
<1> QED BY <1>2 DEF Finished, Inside

LEMMA RootIInv == ASSUME IInv, NEW name \in nodes, Root(name) PROVE IInv'
<1>1. /\ Searching /\ stack = <<>> /\ colour[name] = "white" /\ TypeOK /\ Path /\ Finished
      /\ Paint(name, "grey") /\ stack' = <<[name |-> name, pending |-> Inside(name)]>>
      /\ UNCHANGED <<profile, phase, seen, frontier, nodes, gate>>
  BY DEF IInv, Root, White
<1>2. colour' = [colour EXCEPT ![name] = "grey"]
  BY <1>1 DEF Paint
<1>3. Finished'
  BY <1>1, GreyKeepsFinished
<1> DEFINE f == [name |-> name, pending |-> Inside(name)]
<1>4. f \in Frame /\ f.name = name /\ f.pending = Inside(name)
  BY DEF Frame, Inside
<1> HIDE DEF f
<1>5. Len(stack') = 1 /\ stack'[1] = f /\ stack' \in Seq(Frame) /\ \A i \in 1..Len(stack') : i = 1
  BY <1>1, <1>4 DEF f
<1>6. TypeOK'
  <2>1. Frame' = Frame
    BY <1>1 DEF Frame
  <2> QED BY <1>1, <1>2, <1>5, <2>1 DEF TypeOK
<1>7. Path'
  <2>1. \A n \in nodes : colour'[n] = "grey" <=> n = name
    BY <1>1, <1>2 DEF TypeOK, Path
  <2>2. Inside(name)' = Inside(name)
    BY <1>1 DEF Inside
  <2>3. \A i \in 1..Len(stack') : stack'[i].name = name /\ stack'[i].pending = Inside(name)
    BY <1>4, <1>5
  <2> QED BY <1>1, <1>5, <2>1, <2>2, <2>3 DEF Path
<1> QED BY <1>1, <1>3, <1>6, <1>7, StepsOn

\* The top of the path leads to nothing but finished stages.
LEMMA FinishIInv == IInv /\ Finish => IInv'
<1> SUFFICES ASSUME IInv, Finish PROVE IInv'
  OBVIOUS
<1>1. /\ Searching /\ stack # <<>> /\ Top.pending = {} /\ TypeOK /\ Path /\ Finished
      /\ Paint(Top.name, "black") /\ stack' = SubSeq(stack, 1, Len(stack) - 1)
      /\ UNCHANGED <<profile, phase, seen, frontier, nodes, gate>>
  BY DEF IInv, Finish
<1>2. PICK l \in Nat, n \in nodes : l = Len(stack) /\ l \in 1..l /\ n = stack[l].name
  BY <1>1, Valid DEF Frame
<1>3. colour' = [colour EXCEPT ![n] = "black"] /\ colour[n] = "grey" /\ Top = stack[l]
  BY <1>1, <1>2 DEF Paint, Top, Path
<1>4. /\ Len(stack') = l - 1 /\ stack' \in Seq(Frame)
      /\ \A i \in 1..(l - 1) : stack'[i] = stack[i] /\ i \in 1..l
  <2>1. l - 1 \in Nat /\ stack \in Seq(Frame)
    BY <1>1, <1>2 DEF TypeOK
  <2>2. \A i \in 1..(l - 1) : i \in 1..l
    BY <1>2
  <2> QED BY <1>1, <1>2, <2>1, <2>2
<1>5. TypeOK'
  <2>1. Frame' = Frame
    BY <1>1 DEF Frame
  <2> QED BY <1>1, <1>3, <1>4, <2>1 DEF TypeOK
<1>6. Black' = Black \cup {n} /\ n \notin Black
  BY <1>1, <1>3 DEF Black, TypeOK
<1>7. Inside(n) \subseteq Black
  <2>1. \A t \in Inside(n) : t \in nodes /\ colour[t] = "black"
    BY <1>1, <1>2, <1>3 DEF Path, Inside
  <2> QED BY <2>1 DEF Black
<1>8. Finished'
  <2>1. \A m : Inside(m)' = Inside(m)
    BY <1>1 DEF Inside
  <2>2. \A m \in Black' : Inside(m)' \subseteq Black'
    BY <1>1, <1>6, <1>7, <2>1 DEF Finished
  <2>3. ~HasCycle(profile, Black \cup {n})
    <3>1. Black \in SUBSET nodes
      BY DEF Black
    <3> QED BY <1>1, <1>6, <1>7, <3>1, NoCycleAdded DEF Finished, Inside
  <2> QED BY <1>1, <1>6, <2>2, <2>3 DEF Finished
<1>9. Path'
  <2>1. \A i, j \in 1..Len(stack') : stack'[i].name = stack'[j].name => i = j
    BY <1>1, <1>2, <1>4 DEF Path
  <2>2. ASSUME NEW m \in nodes'
        PROVE  colour'[m] = "grey" <=> \E i \in 1..Len(stack') : stack'[i].name = m
    <3>1. CASE m = n
      <4>1. colour'[m] = "black"
        BY <1>1, <1>3, <3>1 DEF TypeOK
      <4>2. \A i \in 1..(l - 1) : stack[i].name # n
        BY <1>1, <1>2, <1>4 DEF Path
      <4> QED BY <1>4, <3>1, <4>1, <4>2
    <3>2. CASE m # n
      <4>1. colour'[m] = colour[m] /\ m \in nodes
        BY <1>1, <1>3, <3>2 DEF TypeOK
      <4>2. \A i \in 1..l : stack[i].name = m => i \in 1..(l - 1)
        BY <1>2, <3>2
      <4> QED BY <1>1, <1>2, <1>4, <4>1, <4>2 DEF Path
    <3> QED BY <3>1, <3>2
  <2>3. \A i, j \in 1..Len(stack') :
           j = i + 1 => stack'[j].name \in Successors(profile', stack'[i].name)
    BY <1>1, <1>2, <1>4 DEF Path
  <2>4. ASSUME NEW i \in 1..Len(stack')
        PROVE  /\ stack'[i].pending \subseteq Inside(stack[i].name)'
               /\ \A t \in Inside(stack[i].name)' \ stack'[i].pending :
                     colour'[t] = "black" \/ \E j \in 1..Len(stack') : j = i + 1 /\ stack'[j].name = t
    <3>1. i \in 1..l /\ i \in 1..(l - 1) /\ stack'[i] = stack[i]
      BY <1>4
    <3>2. Inside(stack[i].name)' = Inside(stack[i].name)
      BY <1>1, <3>1 DEF Inside
    <3>3. stack[i].pending \subseteq Inside(stack[i].name)
      BY <1>1, <1>2, <3>1 DEF Path
    <3>4. ASSUME NEW t \in Inside(stack[i].name) \ stack[i].pending
          PROVE  colour'[t] = "black" \/ \E j \in 1..Len(stack') : j = i + 1 /\ stack'[j].name = t
      <4>1. t \in nodes /\ (colour[t] = "black" \/ \E j \in 1..l : j = i + 1 /\ stack[j].name = t)
        <5>1. t \in nodes
          BY DEF Inside
        <5>2. i \in 1..Len(stack)
          BY <1>2, <3>1
        <5> QED BY <1>1, <1>2, <5>1, <5>2 DEF Path
      <4>2. CASE colour[t] = "black"
        BY <1>1, <1>3, <4>1, <4>2 DEF TypeOK
      <4>3. ASSUME NEW j \in 1..l, j = i + 1, stack[j].name = t
            PROVE  colour'[t] = "black" \/ \E k \in 1..Len(stack') : k = i + 1 /\ stack'[k].name = t
        <5>1. CASE j = l
          BY <1>1, <1>2, <1>3, <4>1, <4>3, <5>1 DEF TypeOK
        <5>2. CASE j # l
          BY <1>2, <1>4, <4>3, <5>2
        <5> QED BY <5>1, <5>2
      <4> QED BY <4>1, <4>2, <4>3
    <3> QED BY <3>1, <3>2, <3>3, <3>4
  <2> QED BY <2>1, <2>2, <2>3, <2>4 DEF Path
<1> QED BY <1>1, <1>5, <1>8, <1>9, StepsOn

\* The frame the top leaves behind when it has looked at target.
LEMMA RestIs ==
    ASSUME TypeOK, stack # <<>>, NEW target \in nodes
    PROVE  /\ Rest(target) \in Seq(Frame) /\ Len(Rest(target)) = Len(stack)
           /\ \A i \in 1..Len(stack) :
                 /\ Rest(target)[i] \in Frame
                 /\ Rest(target)[i].name = stack[i].name
                 /\ i # Len(stack) => Rest(target)[i].pending = stack[i].pending
                 /\ i = Len(stack) => Rest(target)[i].pending = stack[i].pending \ {target}
<1>1. PICK l \in Nat : l = Len(stack) /\ l \in 1..l
  BY Valid
<1> DEFINE f == [stack[l] EXCEPT !.pending = stack[l].pending \ {target}]
<1>2. stack[l] \in Frame
  BY <1>1, Valid
<1>3. f \in Frame /\ f.name = stack[l].name /\ f.pending = stack[l].pending \ {target}
  BY <1>2 DEF Frame
<1>4. Rest(target) = [stack EXCEPT ![l] = f]
  BY <1>1 DEF Rest
<1> HIDE DEF f
<1>5. stack \in Seq(Frame)
  BY DEF TypeOK
<1>6. Rest(target) \in Seq(Frame) /\ Len(Rest(target)) = l
  BY <1>1, <1>3, <1>4, <1>5
<1>7. \A i \in 1..l : Rest(target)[i] = IF i = l THEN f ELSE stack[i]
  BY <1>1, <1>4, <1>5
<1>8. \A i \in 1..l : stack[i] \in Frame
  BY <1>1, Valid
<1> QED BY <1>1, <1>3, <1>6, <1>7, <1>8

\* The next successor of the top is looked at.
LEMMA LookIInv == ASSUME IInv, NEW target \in nodes, Look(target) PROVE IInv'
<1>1. /\ Searching /\ stack # <<>> /\ target \in Top.pending /\ TypeOK /\ Path /\ Finished
      /\ UNCHANGED <<profile, seen, frontier, nodes>>
  BY DEF IInv, Look
<1>2. PICK l \in Nat : l = Len(stack) /\ l \in 1..l
  BY <1>1, Valid
<1>3. target \in stack[l].pending /\ target \in Inside(stack[l].name)
  <2>1. target \in stack[l].pending
    BY <1>1, <1>2 DEF Top
  <2> QED BY <1>1, <1>2, <2>1 DEF Path
<1>4. CASE colour[target] = "grey"
  <2>1. phase' = "answered" /\ gate' = "caps" /\ UNCHANGED <<colour, stack>>
    BY <1>4 DEF Look, ClosesCycle
  <2>2. HasCycle(profile, nodes)
    BY <1>1, <1>4, GreyCloses
  <2>3. nodes = CorrectionFree \/ nodes = BranchFree
    BY <1>1 DEF IInv, Searching, Confined
  <2>4. ~GateReachable(profile)
    BY <2>2, <2>3 DEF GateReachable, CorrectionFree, BranchFree
  <2>5. GateRight'
    BY <1>1, <2>1, <2>4 DEF GateRight
  <2>6. TypeOK'
    <3>1. Frame' = Frame
      BY <1>1 DEF Frame
    <3> QED BY <1>1, <2>1, <3>1 DEF TypeOK
  <2>7. Collected' /\ Confined' /\ ~Searching'
    BY <1>1, <2>1 DEF IInv, Collected, Confined, Searching
  <2> QED BY <2>5, <2>6, <2>7 DEF IInv
<1>5. CASE colour[target] # "grey"
  <2>1. UNCHANGED <<phase, gate>>
    BY <1>5 DEF Look, ClosesCycle
  <2> DEFINE r == Rest(target)
  <2>2. /\ r \in Seq(Frame) /\ Len(r) = l
        /\ \A i \in 1..l :
              /\ r[i] \in Frame /\ r[i].name = stack[i].name
              /\ i # l => r[i].pending = stack[i].pending
              /\ i = l => r[i].pending = stack[i].pending \ {target}
    BY <1>1, <1>2, RestIs
  <2> HIDE DEF r
  <2>3. \A i \in 1..l : \A j \in 1..l : j = i + 1 => i # l
    BY <1>2
  <2>4. CASE colour[target] = "white"
    <3> DEFINE f == [name |-> target, pending |-> Inside(target)]
    <3>1. Paint(target, "grey") /\ stack' = Append(r, f)
      BY <1>5, <2>4 DEF Look, ClosesCycle, r
    <3>2. f \in Frame /\ f.name = target /\ f.pending = Inside(target)
      BY DEF Frame, Inside
    <3> HIDE DEF f
    <3>3. colour' = [colour EXCEPT ![target] = "grey"]
      BY <3>1 DEF Paint
    <3>4. /\ Len(stack') = l + 1 /\ stack' \in Seq(Frame) /\ stack'[l + 1] = f
          /\ \A i \in 1..l : stack'[i] = r[i]
      BY <1>2, <2>2, <3>1, <3>2
    <3>5. \A i \in 1..(l + 1) : i = l + 1 \/ i \in 1..l
      BY <1>2
    <3>6. TypeOK'
      <4>1. Frame' = Frame
        BY <1>1 DEF Frame
      <4> QED BY <1>1, <2>1, <3>3, <3>4, <4>1 DEF TypeOK
    <3>7. Finished'
      BY <1>1, <2>4, <3>1, GreyKeepsFinished
    <3>8. \A i \in 1..l : stack[i].name # target
      BY <1>1, <1>2, <2>4 DEF Path
    <3>9. Path'
      <4>1. \A i \in 1..l : stack'[i].name = stack[i].name
        BY <2>2, <3>4
      <4>2. \A i, j \in 1..Len(stack') : stack'[i].name = stack'[j].name => i = j
        <5>1. \A i, j \in 1..l : stack[i].name = stack[j].name => i = j
          BY <1>1, <1>2 DEF Path
        <5> QED BY <3>2, <3>4, <3>5, <3>8, <4>1, <5>1
      <4>3. ASSUME NEW m \in nodes'
            PROVE  colour'[m] = "grey" <=> \E i \in 1..Len(stack') : stack'[i].name = m
        <5>1. CASE m = target
          <6>1. colour'[m] = "grey"
            BY <1>1, <3>3, <5>1 DEF TypeOK
          <6>2. l + 1 \in 1..Len(stack')
            BY <1>2, <3>4
          <6> QED BY <3>2, <3>4, <5>1, <6>1, <6>2
        <5>2. CASE m # target
          <6>1. colour'[m] = colour[m] /\ m \in nodes
            BY <1>1, <3>3, <5>2 DEF TypeOK
          <6>2. colour[m] = "grey" <=> \E i \in 1..l : stack[i].name = m
            BY <1>1, <1>2, <6>1 DEF Path
          <6>3. \A i \in 1..l : i \in 1..(l + 1)
            BY <1>2
          <6> QED BY <3>2, <3>4, <3>5, <4>1, <5>2, <6>1, <6>2, <6>3
        <5> QED BY <5>1, <5>2
      <4>4. ASSUME NEW i \in 1..Len(stack'), NEW j \in 1..Len(stack'), j = i + 1
            PROVE  stack'[j].name \in Successors(profile', stack'[i].name)
        <5>1. i \in 1..l /\ (j \in 1..l \/ (j = l + 1 /\ i = l))
          BY <1>2, <3>4, <4>4
        <5>2. CASE j \in 1..l
          <6>1. stack[j].name \in Successors(profile, stack[i].name)
            BY <1>1, <1>2, <4>4, <5>1, <5>2 DEF Path
          <6> QED BY <1>1, <4>1, <5>1, <5>2, <6>1
        <5>3. CASE j = l + 1 /\ i = l
          <6>1. target \in Successors(profile, stack[l].name)
            BY <1>3 DEF Inside
          <6> QED BY <1>1, <3>2, <3>4, <4>1, <5>1, <5>3, <6>1
        <5> QED BY <5>1, <5>2, <5>3
      <4>5. ASSUME NEW i \in 1..Len(stack')
            PROVE  /\ stack'[i].pending \subseteq Inside(stack[i].name)'
                   /\ \A t \in Inside(stack[i].name)' \ stack'[i].pending :
                         colour'[t] = "black" \/ \E j \in 1..Len(stack') : j = i + 1 /\ stack'[j].name = t
        <5>1. \A n : Successors(profile, n) \cap nodes = Successors(profile', n) \cap nodes'
          BY <1>1
        <5>2. CASE i = l + 1
          <6>1. stack'[i].name = target /\ stack'[i].pending = Successors(profile', target) \cap nodes'
            BY <3>2, <3>4, <5>1, <5>2 DEF Inside
          <6> QED BY <6>1 DEF Inside
        <5>3. CASE i \in 1..l
          <6>1. stack[i].pending \subseteq Inside(stack[i].name)
            BY <1>1, <1>2, <5>3 DEF Path
          <6>2. \A t \in Inside(stack[i].name) \ stack[i].pending :
                   t \in nodes /\ (colour[t] = "black" \/ \E j \in 1..l : j = i + 1 /\ stack[j].name = t)
            BY <1>1, <1>2, <5>3 DEF Path, Inside
          <6>3. Inside(stack[i].name)' = Inside(stack[i].name)
            BY <4>1, <5>1, <5>3 DEF Inside
          <6>4. \A t \in nodes : colour[t] = "black" => colour'[t] = "black"
            BY <1>1, <2>4, <3>3 DEF TypeOK
          <6>5. \A j \in 1..l : j \in 1..Len(stack')
            BY <1>2, <3>4
          <6>6. CASE i = l
            <7>1. stack'[i].pending = stack[i].pending \ {target}
              BY <2>2, <3>4, <5>3, <6>6
            <7>2. l + 1 \in 1..Len(stack') /\ l + 1 = i + 1 /\ stack'[l + 1].name = target
              BY <1>2, <3>2, <3>4, <6>6
            <7>3. \A t \in Inside(stack[i].name) \ stack[i].pending : t \in nodes /\ colour[t] = "black"
              BY <1>2, <6>2, <6>6
            <7> QED BY <6>1, <6>3, <6>4, <7>1, <7>2, <7>3
          <6>7. CASE i # l
            <7>1. stack'[i].pending = stack[i].pending
              BY <2>2, <3>4, <5>3, <6>7
            <7> QED BY <4>1, <6>1, <6>2, <6>3, <6>4, <6>5, <7>1
          <6> QED BY <6>6, <6>7
        <5> QED BY <3>4, <3>5, <5>2, <5>3
      <4> QED BY <4>2, <4>3, <4>4, <4>5 DEF Path
    <3> QED BY <1>1, <2>1, <3>6, <3>7, <3>9, StepsOn
  <2>5. CASE colour[target] # "white"
    <3>1. stack' = r /\ UNCHANGED colour
      BY <1>5, <2>5 DEF Look, ClosesCycle, r
    <3>2. colour[target] = "black"
      BY <1>1, <1>5, <2>5, Valid
    <3>3. TypeOK'
      <4>1. Frame' = Frame
        BY <1>1 DEF Frame
      <4> QED BY <1>1, <2>1, <2>2, <3>1, <4>1 DEF TypeOK
    <3>4. Finished'
      BY <1>1, <3>1 DEF Finished, Black, Inside
    <3>5. Len(stack') = l /\ \A i \in 1..l : stack'[i].name = stack[i].name
      BY <2>2, <3>1
    <3>6. Path'
      <4>1. \A i, j \in 1..Len(stack') : stack'[i].name = stack'[j].name => i = j
        BY <1>1, <1>2, <3>5 DEF Path
      <4>2. \A m \in nodes' : colour'[m] = "grey" <=> \E i \in 1..Len(stack') : stack'[i].name = m
        BY <1>1, <1>2, <3>1, <3>5 DEF Path
      <4>3. \A i, j \in 1..Len(stack') :
               j = i + 1 => stack'[j].name \in Successors(profile', stack'[i].name)
        BY <1>1, <1>2, <3>5 DEF Path
      <4>4. ASSUME NEW i \in 1..Len(stack')
            PROVE  /\ stack'[i].pending \subseteq Inside(stack[i].name)'
                   /\ \A t \in Inside(stack[i].name)' \ stack'[i].pending :
                         colour'[t] = "black" \/ \E j \in 1..Len(stack') : j = i + 1 /\ stack'[j].name = t
        <5>1. i \in 1..l
          BY <3>5
        <5>2. /\ stack[i].pending \subseteq Inside(stack[i].name)
              /\ \A t \in Inside(stack[i].name) \ stack[i].pending :
                    colour[t] = "black" \/ \E j \in 1..l : j = i + 1 /\ stack[j].name = t
          BY <1>1, <1>2, <5>1 DEF Path
        <5>3. Inside(stack[i].name)' = Inside(stack[i].name)
          BY <1>1, <3>5, <5>1 DEF Inside
        <5>4. \/ stack'[i].pending = stack[i].pending
              \/ stack'[i].pending = stack[i].pending \ {target}
          BY <2>2, <3>1, <5>1
        <5>5. \A t \in Inside(stack[i].name) \ stack'[i].pending :
                 colour[t] = "black" \/ \E j \in 1..l : j = i + 1 /\ stack[j].name = t
          BY <3>2, <5>2, <5>4
        <5> QED BY <3>1, <3>5, <5>2, <5>3, <5>4, <5>5
      <4> QED BY <4>1, <4>2, <4>3, <4>4 DEF Path
    <3> QED BY <1>1, <2>1, <3>3, <3>4, <3>6, StepsOn
  <2> QED BY <2>4, <2>5
<1> QED BY <1>4, <1>5

-----------------------------------------------------------------------------
\* Every step keeps the invariant.
LEMMA NextIInv == IInv /\ [Next]_vars => IInv'
<1> SUFFICES ASSUME IInv, [Next]_vars PROVE IInv'
  OBVIOUS
<1>1. CASE UNCHANGED vars
  <2>1. UNCHANGED <<profile, phase, seen, frontier, nodes, colour, stack, gate>>
    BY <1>1 DEF vars
  <2>2. Frame' = Frame
    BY <2>1 DEF Frame
  <2>3. TypeOK' /\ Collected' /\ Confined' /\ GateRight'
    BY <2>1, <2>2 DEF IInv, TypeOK, Collected, Confined, CorrectionFree, BranchFree, GateRight
  <2>4. Searching => Path' /\ Finished'
    BY <2>1 DEF IInv, Path, Finished, Black, Inside
  <2> QED BY <2>1, <2>3, <2>4 DEF IInv, Searching
<1>2. CASE Next
  BY <1>2, CollectIInv, SearchCorrectionFreeIInv, RootIInv, FinishIInv, LookIInv,
     SearchBranchFreeIInv, AnswerIInv DEF Next
<1> QED BY <1>1, <1>2

LEMMA InitIInv == Init => IInv
<1> SUFFICES ASSUME Init PROVE IInv
  OBVIOUS
<1>1. ValidProfile(profile)
  BY ProfilesAssumption DEF Init
<1>2. profile.initial \in ReachableStages(profile) /\ profile.initial \in StageNames(profile)
  BY <1>1, ReachableIs
<1>3. TypeOK
  <2>1. colour \in [nodes -> {"white", "grey", "black"}] /\ stack \in Seq(Frame)
    BY DEF Init
  <2> QED BY <1>2, <2>1 DEF Init, TypeOK
<1> QED BY <1>2, <1>3 DEF Init, IInv, Collected, Confined, Searching, GateRight

\* When _gate_reachable returns, its answer is the one the graph dictates,
\* for every frozen profile that _validate_profile accepted and every order
\* in which its sets of names are walked.
THEOREM AnswerRight == Spec => []GateRight
<1>1. IInv => GateRight
  BY DEF IInv
<1> QED BY InitIInv, NextIInv, <1>1, PTL DEF Spec
=============================================================================
