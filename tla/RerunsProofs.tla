---------------------------- MODULE RerunsProofs ----------------------------
(* Proofs about Reruns for every set of tables and every set of shunts.        *)
(*                                                                            *)
(* Shunts (SInv): a run that is remembered is the run of the shunts of the    *)
(* table with some edits; the variants of a candidate are tried one after the *)
(* other, so the better one is of the candidate whose turn it is; an edit is  *)
(* accepted with the run that earned the gate; and what is concluded is the   *)
(* run of all of them together, which for one edit is the last one accepted.  *)
(*                                                                            *)
(* Bad data (BInv): an estimate writes columns of results and nothing else    *)
(* (RowLike, NodeLike, BranchLike), so the rows that are checked after it are *)
(* those that entered it, and only a removal makes them fewer.  A reading     *)
(* that was removed is switched off, so it is not removed again.              *)
(*                                                                            *)
(* Readings enter once (EInv): the tables stay alike to those of the call, so *)
(* what was assembled stays true of them; the rows of one reading are told    *)
(* apart by its axis, and what the reduction leaves of them is one row or     *)
(* none.  To be joined by merged branches is an equivalence, so a             *)
(* representative represents itself and a supernode has one balance, whose    *)
(* value is the sum over its members.                                         *)
(*                                                                            *)
(* Estimates describe rows (DInv): what is known after each writer of a call, *)
(* by the tables of the case, so that later writers do not disturb it: the    *)
(* problem (Posed), the answer (Answers), the role estimates (Overlays), the  *)
(* results of nodes and branches (Placed), of the rows (Measures) and of the  *)
(* call (Summed).  Of the rows of a reading, RowsByReading says which fates   *)
(* exclude each other; the answer has a number for every bus because the      *)
(* forest of merged branches reaches every bus of a supernode (ScalesAll).    *)
EXTENDS Reruns, WellFoundedInduction, NaturalsInduction, FiniteSetTheorems, SequenceTheorems, TLAPS

(* The trials of edited copies                                                *)

\* The shunts of a model with these edits.
Edited(model, edits) ==
    [s \in DOMAIN model.shunts |->
        LET shunt == model.shunts[s]
        IN IF shunt.node \notin DOMAIN edits THEN shunt
           ELSE IF edits[shunt.node] = "off" THEN [shunt EXCEPT !.status = FALSE]
           ELSE [shunt EXCEPT !.b = -@]]

\* The run of the copy with these edits came out as r.
WasRun(model, runs, edits, r) == Edited(model, edits) \in DOMAIN runs /\ runs[Edited(model, edits)] = r

\* A run that earns the gate.
Better(r, than) == r \in ColdRuns /\ Below(r, than.rn2 - Gate)

Single(n, mode) == [k \in {n} |-> mode]

\* Both variants of a candidate are still to try, the off variant first.
InPairs ==
    /\ todo \in Seq(Range(Candidates) \X Modes)
    /\ \A k \in DOMAIN todo :
          todo[k][2] = "off" => k + 1 \in DOMAIN todo /\ todo[k + 1] = <<todo[k][1], "flip">>

\* The better variant so far is one of the candidate whose turn it is.
BestIsRun ==
    best # None =>
        /\ todo # <<>> /\ Head(todo)[2] = "flip"
        /\ best.mode \in Modes
        /\ WasRun(input, seen, Single(Head(todo)[1], best.mode), best.run) /\ Better(best.run, base)

AcceptedWereRun ==
    /\ IsFiniteSet(DOMAIN accepted) /\ accepted \in [DOMAIN accepted -> Modes]
    /\ spc \in {"base", "classify"} => accepted = NoEdits /\ todo = <<>>
    /\ spc \notin {"base", "classify"} => DOMAIN accepted \subseteq Range(Candidates)
    /\ \A n \in DOMAIN accepted : \E r : WasRun(input, seen, Single(n, accepted[n]), r) /\ Better(r, base)
    /\ \A n : DOMAIN accepted = {n} => WasRun(input, seen, accepted, last)

Concluded ==
    \/ final = base /\ report.edits = NoEdits
    \/ /\ report.edits = accepted /\ accepted # NoEdits
       /\ WasRun(input, seen, accepted, final) /\ Better(final, base)

SInv ==
    /\ input \in Inputs /\ spc \in {"base", "classify", "try", "joint", "done"}
    /\ \A t \in DOMAIN seen : seen[t] \in ColdRuns
    /\ spc # "done" => final = None
    /\ spc \in {"classify", "try", "joint"} => base \in BaseRuns \ {None}
    /\ spc \in {"try", "joint"} => report = [candidates |-> Len(Candidates), edits |-> NoEdits]
    /\ final # None => base \in BaseRuns \ {None} /\ Concluded
    /\ spc \in {"base", "classify"} => best = None
    /\ spc = "joint" => accepted # NoEdits
    /\ InPairs /\ BestIsRun /\ AcceptedWereRun

\* A function on 1 .. n is a sequence of length n.
LEMMA FunctionIsSequence ==
    ASSUME NEW X, NEW n \in Nat, NEW s \in [1 .. n -> X]
    PROVE  s \in Seq(X) /\ Len(s) = n
<1>1. s \in Seq(X)
  BY SeqDef
<1>2. Len(s) \in Nat /\ DOMAIN s = 1 .. Len(s)
  BY <1>1, LenProperties
<1>3. 1 .. Len(s) = 1 .. n
  BY <1>2
<1>4. QED
  BY <1>1, <1>2, <1>3

\* The candidates are a sequence.
LEMMA CandidatesListed ==
    ASSUME input \in Inputs
    PROVE  Candidates \in Seq(Range(Candidates))
<1> DEFINE N == IF MaxCandidates < Cardinality(Nominated) THEN MaxCandidates ELSE Cardinality(Nominated)
           C == Candidates
<1>1. Cardinality(Nominated) \in Nat
  <2>1. IsFiniteSet(DOMAIN input.nominal)
    BY RunsAssumption
  <2>2. Nominated \subseteq DOMAIN input.nominal
    BY DEF Nominated
  <2>3. QED
    BY <2>1, <2>2, FS_Subset, FS_CardinalityType
<1>2. N \in Nat
  BY <1>1, RunsAssumption
<1>3. DOMAIN C = 1 .. N /\ C = [k \in 1 .. N |-> C[k]]
  <2>1. {j \in 1 .. Cardinality(Nominated) : j <= MaxCandidates} = 1 .. N
    BY <1>1, RunsAssumption
  <2>2. QED
    BY <2>1 DEF Candidates
<1> HIDE DEF C, N
<1>4. C \in [1 .. N -> Range(C)]
  BY <1>3 DEF Range
<1>5. C \in Seq(Range(C))
  BY <1>2, <1>4, FunctionIsSequence
<1>6. QED
  BY <1>5 DEF C

LEMMA EditedShunts == \A edits : EditShunts(edits) = Edited(input, edits)
BY DEF EditShunts, Edited

\* The candidates depend on the model and the base run alone.
LEMMA SameCandidates ==
    ASSUME input' = input, base' = base
    PROVE  Candidates' = Candidates
<1>1. \A i : Deviation(i)' = Deviation(i) /\ (Nominates(i)' <=> Nominates(i))
  BY DEF Deviation, Nominates
<1>2. \A n : Nominations(n)' = Nominations(n)
  BY <1>1 DEF Nominations
<1>3. Nominated' = Nominated
  BY <1>2 DEF Nominated
<1>4. \A n : Place(n)' = Place(n)
  BY <1>1, <1>2, <1>3 DEF Place
<1>5. QED
  BY <1>3, <1>4 DEF Candidates

\* A run joins what has been run, and nothing that was run is run otherwise.
LEMMA TrialRuns ==
    ASSUME NEW edits, NEW run \in ColdRuns, Trial(edits, run), input' = input,
           \A t \in DOMAIN seen : seen[t] \in ColdRuns
    PROVE  /\ \A t \in DOMAIN seen' : seen'[t] \in ColdRuns
           /\ \A e, r : WasRun(input, seen, e, r) => WasRun(input', seen', e, r)
           /\ run # None => WasRun(input', seen', edits, run)
<1> DEFINE table == Edited(input, edits)
<1>1. EditShunts(edits) = table
  BY EditedShunts
<1> HIDE DEF table
<1>2. CASE EditsNothing(edits)
  BY <1>2 DEF Trial, WasRun
<1>3. CASE ~EditsNothing(edits) /\ table \in DOMAIN seen
  BY <1>1, <1>3 DEF Trial, WasRun, table
<1>4. CASE ~EditsNothing(edits) /\ table \notin DOMAIN seen
  <2>1. seen' = [t \in DOMAIN seen \cup {table} |-> IF t = table THEN run ELSE seen[t]]
    BY <1>1, <1>4 DEF Trial
  <2>2. QED
    BY <1>4, <2>1 DEF WasRun, table
<1>5. QED
  BY <1>2, <1>3, <1>4

LEMMA InitTrials == Init => SInv
<1> SUFFICES ASSUME Init PROVE SInv
  OBVIOUS
<1>1. /\ input \in Inputs /\ spc = "base" /\ base = None /\ seen = [t \in {} |-> None]
      /\ todo = <<>> /\ best = None /\ accepted = NoEdits /\ last = None
      /\ report = None /\ final = None
  BY DEF Init, ShuntsInit
<1>2. DOMAIN seen = {}
  BY <1>1
<1>3. DOMAIN accepted = {} /\ accepted \in [DOMAIN accepted -> Modes] /\ IsFiniteSet(DOMAIN accepted)
  BY <1>1, FS_EmptySet DEF NoEdits
<1>4. InPairs
  BY <1>1 DEF InPairs
<1>5. QED
  BY <1>1, <1>2, <1>3, <1>4 DEF SInv, BestIsRun, AcceptedWereRun

LEMMA BaseRunStep == SInv /\ BaseRun => SInv'
<1> SUFFICES ASSUME SInv, BaseRun PROVE SInv'
  OBVIOUS
<1>1. /\ spc = "base" /\ final = None /\ best = None /\ todo = <<>> /\ accepted = NoEdits
      /\ UNCHANGED <<input, seen, todo, best, accepted, last, report>>
  BY DEF BaseRun, SInv, AcceptedWereRun
<1>2. base' \in BaseRuns
  BY DEF BaseRun
<1>3. /\ base' = None => spc' = "done" /\ final' = None
      /\ base' # None => spc' = "classify" /\ final' = None
  BY <1>1 DEF BaseRun
<1>4. DOMAIN accepted = {}
  BY <1>1 DEF NoEdits
<1>5. InPairs'
  BY <1>1 DEF InPairs
<1>6. BestIsRun'
  BY <1>1 DEF BestIsRun
<1>7. AcceptedWereRun'
  BY <1>1, <1>3, <1>4 DEF AcceptedWereRun, SInv
<1>8. QED
  BY <1>1, <1>2, <1>3, <1>5, <1>6, <1>7 DEF SInv

LEMMA ClassifyStep == SInv /\ Classify => SInv'
<1> SUFFICES ASSUME SInv, Classify PROVE SInv'
  OBVIOUS
<1>1. /\ spc = "classify" /\ final = None /\ best = None /\ todo = <<>> /\ accepted = NoEdits
      /\ base \in BaseRuns \ {None} /\ input \in Inputs
      /\ UNCHANGED <<input, base, seen, best, accepted, last>>
  BY DEF Classify, SInv, AcceptedWereRun
<1>2. Candidates' = Candidates
  BY <1>1, SameCandidates
<1>3. DOMAIN accepted = {}
  BY <1>1 DEF NoEdits
<1>4. CASE Candidates = <<>>
  <2>1. /\ spc' = "done" /\ final' = base /\ report' = [candidates |-> 0, edits |-> NoEdits]
        /\ todo' = <<>>
    BY <1>1, <1>4 DEF Classify
  <2>2. InPairs'
    BY <2>1 DEF InPairs
  <2>3. BestIsRun' /\ AcceptedWereRun'
    BY <1>1, <1>3, <2>1 DEF BestIsRun, AcceptedWereRun, SInv
  <2>4. Concluded'
    BY <1>1, <2>1 DEF Concluded
  <2>5. QED
    BY <1>1, <2>1, <2>2, <2>3, <2>4 DEF SInv
<1>5. CASE Candidates # <<>>
  <2> DEFINE n == Len(Candidates)
             pair(k) == <<Candidates[(k + 1) \div 2], IF k % 2 = 1 THEN "off" ELSE "flip">>
  <2>1. /\ spc' = "try" /\ final' = None
        /\ report' = [candidates |-> n, edits |-> NoEdits]
        /\ todo' = [k \in 1 .. 2 * n |-> pair(k)]
    BY <1>1, <1>5 DEF Classify
  <2>2. n \in Nat /\ 2 * n \in Nat /\ \A k \in 1 .. n : Candidates[k] \in Range(Candidates)
    BY <1>1, CandidatesListed, LenProperties
  <2> HIDE DEF n
  <2>3. \A k \in 1 .. 2 * n : (k + 1) \div 2 \in 1 .. n
    BY <2>2
  <2>4. todo' \in [1 .. 2 * n -> Range(Candidates) \X Modes]
    BY <2>1, <2>2, <2>3 DEF Modes
  <2>5. todo' \in Seq(Range(Candidates) \X Modes)
    BY <2>2, <2>4, FunctionIsSequence
  <2>6. ASSUME NEW k \in 1 .. 2 * n, k % 2 = 1
        PROVE  k + 1 \in 1 .. 2 * n /\ (k + 2) \div 2 = (k + 1) \div 2 /\ (k + 1) % 2 # 1
    BY <2>2, <2>6
  <2>7. ASSUME NEW k \in 1 .. 2 * n, todo'[k][2] = "off"
        PROVE  k + 1 \in 1 .. 2 * n /\ todo'[k + 1] = <<todo'[k][1], "flip">>
    <3>1. todo'[k] = pair(k) /\ k % 2 = 1
      BY <2>1, <2>7
    <3>2. k + 1 \in 1 .. 2 * n /\ (k + 2) \div 2 = (k + 1) \div 2 /\ (k + 1) % 2 # 1 /\ (k + 1) + 1 = k + 2
      BY <2>6, <3>1
    <3>3. todo'[k + 1] = pair(k + 1)
      BY <2>1, <3>2
    <3>4. QED
      BY <3>1, <3>2, <3>3
  <2>8. DOMAIN todo' = 1 .. 2 * n
    BY <2>1
  <2>9. InPairs'
    BY <1>2, <2>5, <2>7, <2>8 DEF InPairs
  <2>10. BestIsRun' /\ AcceptedWereRun'
    BY <1>1, <1>3, <2>1 DEF BestIsRun, AcceptedWereRun, SInv
  <2>11. QED
    BY <1>1, <1>2, <2>1, <2>9, <2>10 DEF SInv, n
<1>6. QED
  BY <1>4, <1>5

\* The rest of the list is in pairs, once an off variant has been taken with
\* its flip variant in turn.
LEMMA RestInPairs ==
    ASSUME InPairs, todo # <<>>, todo' = Tail(todo), Candidates' = Candidates
    PROVE  /\ Head(todo) = todo[1] /\ Head(todo) \in Range(Candidates) \X Modes
           /\ InPairs'
           /\ Head(todo)[2] = "off" => todo' # <<>> /\ Head(todo') = <<Head(todo)[1], "flip">>
<1> DEFINE T == Range(Candidates) \X Modes
<1>1. todo \in Seq(T)
  BY DEF InPairs
<1> HIDE DEF T
<1>2. /\ Head(todo) \in T /\ Tail(todo) \in Seq(T) /\ Len(Tail(todo)) = Len(todo) - 1
      /\ \A i \in 1 .. Len(Tail(todo)) : Tail(todo)[i] = todo[i + 1]
  BY <1>1, HeadTailProperties
<1>3. Len(todo) \in Nat /\ DOMAIN todo = 1 .. Len(todo) /\ Len(todo) > 0
  BY <1>1, LenProperties, EmptySeq
<1>4. Head(todo) = todo[1]
  BY <1>1
<1>5. DOMAIN todo' = 1 .. Len(todo) - 1
  BY <1>2, LenProperties
<1>6. \A k \in DOMAIN todo : todo[k][2] = "off" => k + 1 \in DOMAIN todo /\ todo[k + 1] = <<todo[k][1], "flip">>
  BY DEF InPairs
<1>7. \A k \in DOMAIN todo' : todo'[k] = todo[k + 1] /\ k + 1 \in DOMAIN todo
  BY <1>2, <1>3, <1>5
<1>8. ASSUME NEW k \in DOMAIN todo', todo'[k][2] = "off"
      PROVE  k + 1 \in DOMAIN todo' /\ todo'[k + 1] = <<todo'[k][1], "flip">>
  <2>1. todo[k + 1][2] = "off" /\ k + 1 \in DOMAIN todo
    BY <1>7, <1>8
  <2>2. (k + 1) + 1 \in DOMAIN todo /\ todo[(k + 1) + 1] = <<todo[k + 1][1], "flip">>
    BY <1>6, <2>1
  <2>3. k + 1 \in DOMAIN todo'
    BY <1>3, <1>5, <2>2
  <2>4. QED
    BY <1>7, <2>2, <2>3
<1>9. InPairs'
  BY <1>2, <1>8 DEF InPairs, T
<1>10. ASSUME Head(todo)[2] = "off" PROVE todo' # <<>> /\ Head(todo') = <<Head(todo)[1], "flip">>
  <2>1. 1 \in DOMAIN todo
    BY <1>3
  <2>2. 1 + 1 \in DOMAIN todo /\ todo[1 + 1] = <<todo[1][1], "flip">>
    BY <1>4, <1>6, <1>10, <2>1
  <2>3. 1 \in DOMAIN todo'
    BY <1>3, <1>5, <2>2
  <2>4. todo'[1] = <<todo[1][1], "flip">>
    BY <1>7, <2>2, <2>3
  <2>5. todo' # <<>>
    <3>1. DOMAIN <<>> = {}
      OBVIOUS
    <3>2. QED
      BY <2>3, <3>1
  <2>6. Head(todo') = todo'[1]
    BY <1>2, <2>5
  <2>7. QED
    BY <1>4, <2>4, <2>5, <2>6
<1>11. QED
  BY <1>2, <1>4, <1>9, <1>10 DEF T

LEMMA RunIsNumber == \A r \in ColdRuns \cup BaseRuns : r # None => r.rn2 \in Int
BY RunsAssumption

LEMMA TryVariantStep == SInv /\ TryVariant => SInv'
<1> SUFFICES ASSUME SInv, TryVariant PROVE SInv'
  OBVIOUS
<1> DEFINE n == Head(todo)[1]
           mode == Head(todo)[2]
           bar == IF best = None THEN Bar ELSE best.run.rn2
           now(run) == IF Below(run, bar) THEN [mode |-> mode, run |-> run] ELSE best
<1>1. /\ spc = "try" /\ todo # <<>> /\ todo' = Tail(todo)
      /\ UNCHANGED <<input, spc, base, report, final>>
  BY DEF TryVariant
<1>2. /\ final = None /\ base \in BaseRuns \ {None} /\ input \in Inputs /\ InPairs /\ BestIsRun
      /\ AcceptedWereRun /\ \A t \in DOMAIN seen : seen[t] \in ColdRuns
      /\ report = [candidates |-> Len(Candidates), edits |-> NoEdits]
  BY <1>1 DEF SInv
<1>3. Candidates' = Candidates
  BY <1>1, SameCandidates
<1>4. /\ Head(todo) \in Range(Candidates) \X Modes /\ InPairs'
      /\ mode = "off" => todo' # <<>> /\ Head(todo') = <<n, "flip">>
  BY <1>1, <1>2, <1>3, RestInPairs
<1>5. n \in Range(Candidates) /\ mode \in Modes
  BY <1>4
<1>6. PICK run \in ColdRuns :
         /\ Trial([k \in {n} |-> mode], run)
         /\ IF mode = "off" THEN best' = now(run) /\ UNCHANGED <<accepted, last>>
            ELSE /\ best' = None
                 /\ accepted' = IF now(run) = None THEN accepted
                                ELSE [k \in DOMAIN accepted \cup {n} |->
                                         IF k = n THEN now(run).mode ELSE accepted[k]]
                 /\ last' = IF now(run) = None THEN last ELSE now(run).run
  BY DEF TryVariant
<1>7. /\ \A t \in DOMAIN seen' : seen'[t] \in ColdRuns
      /\ \A e, r : WasRun(input, seen, e, r) => WasRun(input', seen', e, r)
      /\ run # None => WasRun(input', seen', Single(n, mode), run)
  BY <1>1, <1>2, <1>6, TrialRuns DEF Single
<1>8. \A r : Better(r, base) => Better(r, base')
  BY <1>1
<1>9. Bar \in Int /\ (best # None => best.run.rn2 \in Int /\ best.run.rn2 < Bar)
  <2>1. base.rn2 \in Int /\ Gate \in Int
    BY <1>2, RunIsNumber, RunsAssumption
  <2>2. best # None => best.run \in ColdRuns /\ best.run # None /\ best.run.rn2 < Bar
    BY <1>2 DEF BestIsRun, Better, Below, Bar
  <2>3. QED
    BY <2>1, <2>2, RunIsNumber DEF Bar
<1> DEFINE b == now(run)
<1>10. b # None => b.mode \in Modes /\ WasRun(input', seen', Single(n, b.mode), b.run) /\ Better(b.run, base')
  <2>1. CASE Below(run, bar)
    <3>1. b = [mode |-> mode, run |-> run]
      BY <2>1
    <3>2. run # None /\ run.rn2 < bar /\ run.rn2 \in Int
      BY <2>1, RunIsNumber DEF Below
    <3>3. Better(run, base)
      BY <1>9, <3>2 DEF Better, Below, Bar
    <3>4. QED
      BY <1>5, <1>7, <1>8, <3>1, <3>2, <3>3
  <2>2. CASE ~Below(run, bar)
    <3>1. b = best
      BY <2>2
    <3>2. QED
      BY <1>2, <1>7, <1>8, <3>1 DEF BestIsRun
  <2>3. QED
    BY <2>1, <2>2
<1>11. /\ mode = "off" => best' = b /\ UNCHANGED <<accepted, last>>
       /\ mode # "off" => /\ best' = None
                          /\ b = None => UNCHANGED <<accepted, last>>
                          /\ b # None =>
                               /\ accepted' = [k \in DOMAIN accepted \cup {n} |->
                                                  IF k = n THEN b.mode ELSE accepted[k]]
                               /\ last' = b.run
  BY <1>6
<1> HIDE DEF b, now, bar
<1>12. BestIsRun'
  <2>1. CASE mode = "off"
    BY <1>4, <1>10, <1>11, <2>1 DEF BestIsRun
  <2>2. CASE mode # "off"
    BY <1>11, <2>2 DEF BestIsRun
  <2>3. QED
    BY <2>1, <2>2
<1>13. AcceptedWereRun'
  <2>1. CASE UNCHANGED <<accepted, last>>
    BY <1>1, <1>2, <1>3, <1>7, <1>8, <2>1 DEF AcceptedWereRun
  <2>2. CASE mode # "off" /\ b # None
    <3>1. accepted' = [k \in DOMAIN accepted \cup {n} |-> IF k = n THEN b.mode ELSE accepted[k]]
          /\ last' = b.run
      BY <1>11, <2>2
    <3>2. b.mode \in Modes /\ WasRun(input', seen', Single(n, b.mode), b.run) /\ Better(b.run, base')
      BY <1>10, <2>2
    <3>3. /\ IsFiniteSet(DOMAIN accepted) /\ accepted \in [DOMAIN accepted -> Modes]
          /\ DOMAIN accepted \subseteq Range(Candidates)
          /\ \A k \in DOMAIN accepted : \E r : WasRun(input, seen, Single(k, accepted[k]), r) /\ Better(r, base)
      BY <1>1, <1>2 DEF AcceptedWereRun
    <3>4. DOMAIN accepted' = DOMAIN accepted \cup {n}
      BY <3>1
    <3>5. IsFiniteSet(DOMAIN accepted')
      BY <3>3, <3>4, FS_AddElement
    <3>6. accepted' \in [DOMAIN accepted' -> Modes]
      BY <3>1, <3>2, <3>3
    <3>7. DOMAIN accepted' \subseteq Range(Candidates')
      BY <1>3, <1>5, <3>3, <3>4
    <3>8. ASSUME NEW k \in DOMAIN accepted' PROVE \E r : WasRun(input', seen', Single(k, accepted'[k]), r) /\ Better(r, base')
      <4>1. CASE k = n
        <5>1. accepted'[k] = b.mode
          BY <3>1, <4>1
        <5>2. QED
          BY <3>2, <4>1, <5>1
      <4>2. CASE k # n
        <5>1. k \in DOMAIN accepted /\ accepted'[k] = accepted[k]
          BY <3>1, <3>4, <4>2
        <5>2. PICK r : WasRun(input, seen, Single(k, accepted[k]), r) /\ Better(r, base)
          BY <3>3, <5>1
        <5>3. QED
          BY <1>7, <1>8, <5>1, <5>2
      <4>3. QED
        BY <4>1, <4>2
    <3>9. ASSUME NEW k, DOMAIN accepted' = {k} PROVE WasRun(input', seen', accepted', last')
      <4>1. k = n
        BY <3>4, <3>9
      <4>2. accepted' = Single(n, b.mode)
        BY <3>1, <3>4, <3>9, <4>1 DEF Single
      <4>3. QED
        BY <3>1, <3>2, <4>2
    <3>10. spc' = "try"
      BY <1>1
    <3>11. QED
      BY <3>5, <3>6, <3>7, <3>8, <3>9, <3>10 DEF AcceptedWereRun
  <2>3. QED
    BY <1>11, <2>1, <2>2
<1>14. QED
  BY <1>1, <1>2, <1>3, <1>4, <1>7, <1>12, <1>13 DEF SInv

\* The trials end on the base run or on a run that earns the gate.
LEMMA ConcludeStep ==
    ASSUME SInv, spc \in {"try", "joint"}, NEW run, Conclude(run), accepted # NoEdits,
           UNCHANGED <<input, base, todo, best, accepted, last>>,
           \A t \in DOMAIN seen' : seen'[t] \in ColdRuns,
           \A e, r : WasRun(input, seen, e, r) => WasRun(input', seen', e, r),
           run # None => WasRun(input', seen', accepted, run) /\ run \in ColdRuns
    PROVE  SInv'
<1>1. /\ base \in BaseRuns \ {None} /\ input \in Inputs /\ InPairs /\ BestIsRun /\ AcceptedWereRun
      /\ report = [candidates |-> Len(Candidates), edits |-> NoEdits]
      /\ spc \notin {"base", "classify"}
  BY DEF SInv
<1>2. Candidates' = Candidates
  BY SameCandidates
<1>3. InPairs'
  BY <1>1, <1>2 DEF InPairs
<1>4. BestIsRun'
  BY <1>1 DEF BestIsRun
<1>5. spc' = "done"
  BY DEF Conclude
<1>6. AcceptedWereRun'
  BY <1>1, <1>2, <1>5 DEF AcceptedWereRun
<1>7. Concluded'
  <2>1. CASE Below(run, Bar)
    <3>1. final' = run /\ report' = [candidates |-> Len(Candidates), edits |-> accepted]
      BY <1>1, <2>1 DEF Conclude
    <3>2. run # None
      BY <2>1 DEF Below
    <3>3. QED
      BY <2>1, <3>1, <3>2 DEF Concluded, Better, Bar
  <2>2. CASE ~Below(run, Bar)
    BY <1>1, <2>2 DEF Conclude, Concluded
  <2>3. QED
    BY <2>1, <2>2
<1>8. QED
  BY <1>1, <1>3, <1>4, <1>5, <1>6, <1>7 DEF SInv

LEMMA ConclusionStep == SInv /\ Conclusion => SInv'
<1> SUFFICES ASSUME SInv, Conclusion PROVE SInv'
  OBVIOUS
<1>1. spc = "try" /\ UNCHANGED <<input, base, seen, todo, best, accepted, last>>
  BY DEF Conclusion
<1>2. /\ base \in BaseRuns \ {None} /\ input \in Inputs /\ InPairs /\ BestIsRun /\ AcceptedWereRun
      /\ report = [candidates |-> Len(Candidates), edits |-> NoEdits] /\ final = None
      /\ \A t \in DOMAIN seen : seen[t] \in ColdRuns
  BY <1>1 DEF SInv
<1>3. Candidates' = Candidates
  BY <1>1, SameCandidates
<1>4. InPairs' /\ BestIsRun'
  BY <1>1, <1>2, <1>3 DEF InPairs, BestIsRun
<1>5. CASE accepted = NoEdits
  <2>1. final' = base /\ spc' = "done" /\ report' = report
    BY <1>5 DEF Conclusion
  <2>2. AcceptedWereRun'
    BY <1>1, <1>2, <1>3, <2>1 DEF AcceptedWereRun
  <2>3. Concluded'
    BY <1>1, <1>2, <2>1 DEF Concluded
  <2>4. QED
    BY <1>1, <1>2, <1>4, <2>1, <2>2, <2>3 DEF SInv
<1>6. CASE accepted # NoEdits /\ Cardinality(DOMAIN accepted) = 1
  <2>1. Conclude(last)
    BY <1>6 DEF Conclusion
  <2>2. PICK n : DOMAIN accepted = {n}
    BY <1>2, <1>6, FS_Singleton DEF AcceptedWereRun
  <2>3. WasRun(input, seen, accepted, last)
    BY <1>2, <2>2 DEF AcceptedWereRun
  <2>4. last \in ColdRuns
    BY <1>2, <2>3 DEF WasRun
  <2>5. WasRun(input', seen', accepted, last) /\ \A t \in DOMAIN seen' : seen'[t] \in ColdRuns
    BY <1>1, <1>2, <2>3
  <2>6. \A e, r : WasRun(input, seen, e, r) => WasRun(input', seen', e, r)
    BY <1>1
  <2>7. QED
    BY <1>1, <1>6, <2>1, <2>4, <2>5, <2>6, ConcludeStep
<1>7. CASE accepted # NoEdits /\ Cardinality(DOMAIN accepted) # 1
  <2>1. spc' = "joint" /\ final' = final /\ report' = report
    BY <1>7 DEF Conclusion
  <2>2. AcceptedWereRun'
    BY <1>1, <1>2, <1>3, <2>1 DEF AcceptedWereRun
  <2>3. QED
    BY <1>1, <1>2, <1>3, <1>4, <1>7, <2>1, <2>2 DEF SInv
<1>8. QED
  BY <1>5, <1>6, <1>7

LEMMA JointRunStep == SInv /\ JointRun => SInv'
<1> SUFFICES ASSUME SInv, JointRun PROVE SInv'
  OBVIOUS
<1>1. spc = "joint" /\ UNCHANGED <<input, base, todo, best, accepted, last>>
  BY DEF JointRun
<1>2. PICK run \in ColdRuns : Trial(accepted, run) /\ Conclude(run)
  BY DEF JointRun
<1>3. \A t \in DOMAIN seen : seen[t] \in ColdRuns
  BY DEF SInv
<1> accepted # NoEdits
  BY <1>1 DEF SInv
<1>4. /\ \A t \in DOMAIN seen' : seen'[t] \in ColdRuns
      /\ \A e, r : WasRun(input, seen, e, r) => WasRun(input', seen', e, r)
      /\ run # None => WasRun(input', seen', accepted, run)
  BY <1>1, <1>2, <1>3, TrialRuns
<1>5. QED
  BY <1>1, <1>2, <1>4, ConcludeStep

LEMMA TrialsStep == SInv /\ ShuntsNext => SInv'
BY BaseRunStep, ClassifyStep, TryVariantStep, ConclusionStep, JointRunStep DEF ShuntsNext

LEMMA TrialsStutter == SInv /\ UNCHANGED svars => SInv'
<1> SUFFICES ASSUME SInv, UNCHANGED svars PROVE SInv'
  OBVIOUS
<1>1. UNCHANGED <<input, spc, base, seen, todo, best, accepted, last, report, final>>
  BY DEF svars
<1>2. Candidates' = Candidates
  BY <1>1, SameCandidates
<1>3. InPairs' /\ BestIsRun' /\ AcceptedWereRun'
  BY <1>1, <1>2 DEF SInv, InPairs, BestIsRun, AcceptedWereRun
<1>4. Concluded' <=> Concluded
  BY <1>1 DEF Concluded
<1>5. QED
  BY <1>1, <1>2, <1>3, <1>4 DEF SInv

\* What the invariant says of the returned run.
ShuntsAgree ==
    final # None =>
        IF report.edits = NoEdits THEN final = base
        ELSE /\ EditShunts(report.edits) \in DOMAIN seen
             /\ final = seen[EditShunts(report.edits)]
             /\ base.rn2 - final.rn2 > Gate
             /\ DOMAIN report.edits \subseteq Range(Candidates)
             /\ \A n \in DOMAIN report.edits :
                   LET alone == [k \in {n} |-> report.edits[n]]
                   IN base.rn2 - seen[EditShunts(alone)].rn2 > Gate

LEMMA TrialsAgree == SInv => ShuntsAgree
<1> SUFFICES ASSUME SInv, final # None, ~(report.edits = NoEdits /\ final = base)
             PROVE  /\ report.edits # NoEdits
                    /\ EditShunts(report.edits) \in DOMAIN seen
                    /\ final = seen[EditShunts(report.edits)]
                    /\ base.rn2 - final.rn2 > Gate
                    /\ DOMAIN report.edits \subseteq Range(Candidates)
                    /\ \A n \in DOMAIN report.edits :
                          base.rn2 - seen[EditShunts([k \in {n} |-> report.edits[n]])].rn2 > Gate
  BY DEF ShuntsAgree
<1>1. base \in BaseRuns \ {None} /\ Concluded /\ AcceptedWereRun /\ spc = "done"
  BY DEF SInv
<1>2. report.edits = accepted /\ accepted # NoEdits /\ WasRun(input, seen, accepted, final) /\ Better(final, base)
  BY <1>1 DEF Concluded
<1>3. base.rn2 \in Int /\ Gate \in Int
  BY <1>1, RunIsNumber, RunsAssumption
<1>4. ASSUME NEW r, Better(r, base) PROVE base.rn2 - r.rn2 > Gate
  <2>1. r.rn2 \in Int /\ r.rn2 < base.rn2 - Gate
    BY <1>4, RunIsNumber DEF Better, Below
  <2>2. QED
    BY <1>3, <2>1
<1>5. EditShunts(accepted) \in DOMAIN seen /\ final = seen[EditShunts(accepted)]
  BY <1>2, EditedShunts DEF WasRun
<1>6. DOMAIN accepted \subseteq Range(Candidates)
  BY <1>1 DEF AcceptedWereRun
<1>7. ASSUME NEW n \in DOMAIN accepted
      PROVE  base.rn2 - seen[EditShunts([k \in {n} |-> accepted[n]])].rn2 > Gate
  <2>1. PICK r : WasRun(input, seen, Single(n, accepted[n]), r) /\ Better(r, base)
    BY <1>1 DEF AcceptedWereRun
  <2>2. seen[EditShunts(Single(n, accepted[n]))] = r
    BY <2>1, EditedShunts DEF WasRun
  <2>3. QED
    BY <1>4, <2>1, <2>2 DEF Single
<1>8. QED
  BY <1>2, <1>4, <1>5, <1>6, <1>7

-----------------------------------------------------------------------------
(* What a call leaves of its tables: everything but the columns of results,   *)
(* and the status and quality of a removed reading.                           *)
RowLike(r, s) ==
    /\ DOMAIN r = RowFields
    /\ r.kind = s.kind /\ r.obj = s.obj /\ r.side = s.side /\ r.pseudo = s.pseudo
    /\ r.value = s.value /\ r.var = s.var /\ r.role = s.role /\ r.range = s.range

NodeLike(r, s) ==
    /\ DOMAIN r = NodeFields
    /\ r.status = s.status /\ r.slack = s.slack /\ r.priority = s.priority /\ r.vn = s.vn
    /\ r.gen = s.gen /\ r.load = s.load /\ r.box = s.box /\ r.input = s.input /\ r.lc = s.lc

BranchLike(r, s) ==
    /\ DOMAIN r = BranchFields
    /\ r.from = s.from /\ r.to = s.to /\ r.status = s.status /\ r.z = s.z /\ r.ratio = s.ratio

RowsLike(t, u) == DOMAIN t = DOMAIN u /\ \A i \in DOMAIN u : RowLike(t[i], u[i])
NodesLike(t, u) == DOMAIN t = DOMAIN u /\ \A n \in DOMAIN u : NodeLike(t[n], u[n])
BranchesLike(t, u) == DOMAIN t = DOMAIN u /\ \A b \in DOMAIN u : BranchLike(t[b], u[b])

\* Columns of results do not tell two rows, nodes or branches apart.
LEMMA ResultColumns ==
    /\ \A r, s, e : RowLike(r, s) => RowLike([r EXCEPT !.est = e], s)
    /\ \A r, s, e : NodeLike(r, s) => NodeLike([r EXCEPT !.est = e], s)
    /\ \A r, s, v, w, c, d : NodeLike(r, s) =>
          NodeLike([r EXCEPT !.vm = v, !.solved = w, !.calc = c, !.imb = d], s)
    /\ \A r, s, c, d : NodeLike(r, s) => NodeLike([r EXCEPT !.calc = c, !.imb = d], s)
    /\ \A r, s, f : BranchLike(r, s) => BranchLike([r EXCEPT !.flow = f], s)
<1>1. ASSUME NEW r, NEW s, NEW e, RowLike(r, s) PROVE RowLike([r EXCEPT !.est = e], s)
  BY <1>1 DEF RowLike, RowFields
<1>2. ASSUME NEW r, NEW s, NEW e, NodeLike(r, s) PROVE NodeLike([r EXCEPT !.est = e], s)
  BY <1>2 DEF NodeLike, NodeFields
<1>3. ASSUME NEW r, NEW s, NEW v, NEW w, NEW c, NEW d, NodeLike(r, s)
      PROVE  NodeLike([r EXCEPT !.vm = v, !.solved = w, !.calc = c, !.imb = d], s)
  BY <1>3 DEF NodeLike, NodeFields
<1>4. ASSUME NEW r, NEW s, NEW c, NEW d, NodeLike(r, s)
      PROVE  NodeLike([r EXCEPT !.calc = c, !.imb = d], s)
  BY <1>4 DEF NodeLike, NodeFields
<1>5. ASSUME NEW r, NEW s, NEW f, BranchLike(r, s) PROVE BranchLike([r EXCEPT !.flow = f], s)
  BY <1>5 DEF BranchLike, BranchFields
<1>6. QED
  BY <1>1, <1>2, <1>3, <1>4, <1>5

\* The tables of a call are like themselves.
LEMMA TablesLike ==
    ASSUME case \in Cases
    PROVE  /\ RowsLike(case.rows, case.rows) /\ NodesLike(case.nodes, case.nodes)
           /\ BranchesLike(case.branches, case.branches)
BY CasesAssumption DEF IsCase, RowsLike, NodesLike, BranchesLike, RowLike, NodeLike, BranchLike

\* The writers of results change columns of results.
LEMMA NodeResultsLike ==
    ASSUME NEW net, NEW ref, NodesLike(net, ref), NEW br, NEW lines, NEW flow, NEW volt
    PROVE  NodesLike(NodeResults(net, br, lines, flow, volt), ref)
<1> DEFINE calc(n) == [a \in Axes |-> Sent(br, lines, flow, a, n)]
           imb(n) == [a \in Axes |-> calc(n)[a] - (net[n].input["gen"][a] - net[n].input["load"][a])]
           new == NodeResults(net, br, lines, flow, volt)
<1>1. DOMAIN new = DOMAIN net
  BY DEF NodeResults
<1>2. \A n \in DOMAIN net : \/ new[n] = net[n]
                            \/ \E v, c, d : new[n] = [net[n] EXCEPT !.vm = v, !.solved = TRUE, !.calc = c, !.imb = d]
  <2> SUFFICES ASSUME NEW n \in DOMAIN net, new[n] # net[n]
               PROVE  \E v, c, d : new[n] = [net[n] EXCEPT !.vm = v, !.solved = TRUE, !.calc = c, !.imb = d]
    OBVIOUS
  <2>1. new[n] = [net[n] EXCEPT !.vm = volt[n], !.solved = TRUE, !.calc = calc(n), !.imb = imb(n)]
    BY SMT DEF NodeResults
  <2> HIDE DEF calc, imb, new
  <2> QED
    BY <2>1
<1> HIDE DEF calc, imb, new
<1>3. ASSUME NEW n \in DOMAIN ref PROVE NodeLike(new[n], ref[n])
  <2>1. NodeLike(net[n], ref[n]) /\ n \in DOMAIN net
    BY DEF NodesLike
  <2>2. CASE new[n] = net[n]
    BY <2>1, <2>2
  <2>3. CASE new[n] # net[n]
    <3>1. PICK v, c, d : new[n] = [net[n] EXCEPT !.vm = v, !.solved = TRUE, !.calc = c, !.imb = d]
      BY <1>2, <2>1, <2>3
    <3>2. NodeLike([net[n] EXCEPT !.vm = v, !.solved = TRUE, !.calc = c, !.imb = d], ref[n])
      BY <2>1, Zenon, ResultColumns
    <3>3. QED
      BY <3>1, <3>2
  <2>4. QED
    BY <2>2, <2>3
<1>4. QED
  BY <1>1, <1>3 DEF NodesLike, new

LEMMA MergedNodeResultsLike ==
    ASSUME NEW net, NEW ref, NodesLike(net, ref), NEW br, NEW sn, NEW flows
    PROVE  NodesLike(MergedNodeResults(net, br, sn, flows), ref)
<1> DEFINE extra(n, a) == Sent(br, sn.edges, flows, a, n)
           calc(n) == [a \in Axes |-> net[n].calc[a] + extra(n, a)]
           imb(n) == [a \in Axes |-> net[n].imb[a] + extra(n, a)]
           new == MergedNodeResults(net, br, sn, flows)
<1>1. DOMAIN new = DOMAIN net
  BY DEF MergedNodeResults
<1>2. \A n \in DOMAIN net : new[n] = net[n] \/ \E c, d : new[n] = [net[n] EXCEPT !.calc = c, !.imb = d]
  <2> SUFFICES ASSUME NEW n \in DOMAIN net, new[n] # net[n]
               PROVE  \E c, d : new[n] = [net[n] EXCEPT !.calc = c, !.imb = d]
    OBVIOUS
  <2>1. new[n] = [net[n] EXCEPT !.calc = calc(n), !.imb = imb(n)]
    BY SMT DEF MergedNodeResults
  <2> HIDE DEF extra, calc, imb, new
  <2> QED
    BY <2>1
<1> HIDE DEF extra, calc, imb, new
<1>3. ASSUME NEW n \in DOMAIN ref PROVE NodeLike(new[n], ref[n])
  <2>1. NodeLike(net[n], ref[n]) /\ n \in DOMAIN net
    BY DEF NodesLike
  <2>2. CASE new[n] = net[n]
    BY <2>1, <2>2
  <2>3. CASE new[n] # net[n]
    <3>1. PICK c, d : new[n] = [net[n] EXCEPT !.calc = c, !.imb = d]
      BY <1>2, <2>1, <2>3
    <3>2. NodeLike([net[n] EXCEPT !.calc = c, !.imb = d], ref[n])
      BY <2>1, Zenon, ResultColumns
    <3>3. QED
      BY <3>1, <3>2
  <2>4. QED
    BY <2>2, <2>3
<1>4. QED
  BY <1>1, <1>3 DEF NodesLike, new

LEMMA BranchResultsLike ==
    ASSUME NEW net, NEW ref, BranchesLike(net, ref), NEW lines, NEW flow
    PROVE  /\ BranchesLike(BranchResults(net, lines, flow), ref)
           /\ BranchesLike(MergedBranchResults(net, flow), ref)
<1>1. \A b \in DOMAIN ref : BranchLike(BranchResults(net, lines, flow)[b], ref[b])
  BY ResultColumns DEF BranchResults, BranchesLike
<1>2. \A b \in DOMAIN ref : BranchLike(MergedBranchResults(net, flow)[b], ref[b])
  BY ResultColumns DEF MergedBranchResults, BranchesLike
<1>3. DOMAIN BranchResults(net, lines, flow) = DOMAIN net /\ DOMAIN MergedBranchResults(net, flow) = DOMAIN net
  BY DEF BranchResults, MergedBranchResults
<1>4. QED
  BY <1>1, <1>2, <1>3 DEF BranchesLike

\* A table whose nodes differ in their estimates.
LEMMA EstimatedLike ==
    ASSUME NEW net, NEW ref, NodesLike(net, ref), NEW new, DOMAIN new = DOMAIN net,
           \A n \in DOMAIN net : new[n] = net[n] \/ \E e : new[n] = [net[n] EXCEPT !.est = e]
    PROVE  NodesLike(new, ref)
<1>1. ASSUME NEW n \in DOMAIN ref PROVE NodeLike(new[n], ref[n])
  <2>1. NodeLike(net[n], ref[n]) /\ n \in DOMAIN net
    BY DEF NodesLike
  <2>2. CASE new[n] = net[n]
    BY <2>1, <2>2
  <2>3. CASE \E e : new[n] = [net[n] EXCEPT !.est = e]
    <3>1. PICK e : new[n] = [net[n] EXCEPT !.est = e]
      BY <2>3
    <3>2. NodeLike([net[n] EXCEPT !.est = e], ref[n])
      BY <2>1, Zenon, ResultColumns
    <3>3. QED
      BY <3>1, <3>2
  <2>4. QED
    BY <2>1, <2>2, <2>3
<1>2. QED
  BY <1>1 DEF NodesLike

LEMMA SplitLike ==
    ASSUME NEW net
    PROVE  /\ DOMAIN SplitInjections(net) = DOMAIN net
           /\ \A n \in DOMAIN net : \/ SplitInjections(net)[n] = net[n]
                                    \/ \E e : SplitInjections(net)[n] = [net[n] EXCEPT !.est = e]
BY DEF SplitInjections

LEMMA CharacteristicLike ==
    ASSUME NEW net
    PROVE  /\ DOMAIN ApplyLoadCharacteristic(net) = DOMAIN net
           /\ \A n \in DOMAIN net :
                 \/ ApplyLoadCharacteristic(net)[n] = net[n]
                 \/ \E e : ApplyLoadCharacteristic(net)[n] = [net[n] EXCEPT !.est = e]
<1> DEFINE est(n) == [net[n].est EXCEPT !["load"] = [a \in Axes |-> AtCharacteristic(net[n], a)]]
<1>1. \A n \in DOMAIN net :
         \/ ApplyLoadCharacteristic(net)[n] = net[n]
         \/ ApplyLoadCharacteristic(net)[n] = [net[n] EXCEPT !.est = est(n)]
  BY DEF ApplyLoadCharacteristic
<1>2. DOMAIN ApplyLoadCharacteristic(net) = DOMAIN net
  BY DEF ApplyLoadCharacteristic
<1> HIDE DEF est
<1>3. QED
  BY <1>1, <1>2

LEMMA ReconcileLike ==
    ASSUME NEW net, NEW respect
    PROVE  /\ DOMAIN ReconcileNodeBalance(net, respect) = DOMAIN net
           /\ \A n \in DOMAIN net :
                 \/ ReconcileNodeBalance(net, respect)[n] = net[n]
                 \/ \E e : ReconcileNodeBalance(net, respect)[n] = [net[n] EXCEPT !.est = e]
<1> DEFINE value(n, a) == IF respect THEN WithinBounds(net[n], a) ELSE Target(net[n], a)
           est(n) == [net[n].est EXCEPT ![Taker(net[n])] = [a \in Axes |-> value(n, a)]]
<1>1. \A n : Reconciled(net[n], respect) = net[n] \/ Reconciled(net[n], respect) = [net[n] EXCEPT !.est = est(n)]
  BY DEF Reconciled
<1> HIDE DEF est
<1>2. \A n \in DOMAIN net :
         \/ ReconcileNodeBalance(net, respect)[n] = net[n]
         \/ ReconcileNodeBalance(net, respect)[n] = [net[n] EXCEPT !.est = est(n)]
  BY <1>1 DEF ReconcileNodeBalance
<1>3. DOMAIN ReconcileNodeBalance(net, respect) = DOMAIN net
  BY DEF ReconcileNodeBalance
<1>4. QED
  BY <1>2, <1>3

\* The rows that are checked, told by the tables of the call and two columns.
CheckedOf(c, t) ==
    {i \in DOMAIN c.rows :
        /\ t[i].status /\ t[i].quality # Bad
        /\ c.rows[i].value # None /\ c.rows[i].var # None /\ c.rows[i].var > 0
        /\ IF c.rows[i].kind \in FlowKinds
           THEN c.rows[i].obj \in Lines(c.nodes, c.branches, {}) /\ c.rows[i].side \in {0, 1}
           ELSE c.rows[i].obj \in Buses(c.nodes)}

TablesAlike(c, t, ns, bs) == RowsLike(t, c.rows) /\ NodesLike(ns, c.nodes) /\ BranchesLike(bs, c.branches)

LEMMA SameLines ==
    ASSUME NEW c, NEW t, NEW ns, NEW bs, TablesAlike(c, t, ns, bs)
    PROVE  Buses(ns) = Buses(c.nodes) /\ Lines(ns, bs, {}) = Lines(c.nodes, c.branches, {})
<1>1. DOMAIN ns = DOMAIN c.nodes /\ \A n \in DOMAIN c.nodes : ns[n].status = c.nodes[n].status
  BY DEF TablesAlike, NodesLike, NodeLike
<1>2. DOMAIN bs = DOMAIN c.branches
  BY DEF TablesAlike, BranchesLike
<1>3. \A b \in DOMAIN c.branches : /\ bs[b].status = c.branches[b].status
                                   /\ bs[b].from = c.branches[b].from /\ bs[b].to = c.branches[b].to
  BY DEF TablesAlike, BranchesLike, BranchLike
<1>4. Buses(ns) = Buses(c.nodes)
  BY <1>1 DEF Buses
<1>5. ActiveBranches(bs) = ActiveBranches(c.branches) /\ ActiveBranches(bs) \subseteq DOMAIN c.branches
  BY <1>2, <1>3 DEF ActiveBranches
<1>6. QED
  BY <1>3, <1>4, <1>5 DEF Lines

LEMMA CheckedRows ==
    ASSUME NEW c, NEW t, NEW ns, NEW bs, TablesAlike(c, t, ns, bs)
    PROVE  UsedRows(t, ns, Lines(ns, bs, {})) = CheckedOf(c, t)
<1>1. DOMAIN t = DOMAIN c.rows
  BY DEF TablesAlike, RowsLike
<1>2. \A i \in DOMAIN c.rows : /\ t[i].kind = c.rows[i].kind /\ t[i].obj = c.rows[i].obj
                               /\ t[i].side = c.rows[i].side /\ t[i].value = c.rows[i].value
                               /\ t[i].var = c.rows[i].var
  BY DEF TablesAlike, RowsLike, RowLike
<1>3. QED
  BY <1>1, <1>2, SameLines DEF UsedRows, CheckedOf

LEMMA SameChecked ==
    ASSUME NEW c, NEW t, NEW u,
           \A i \in DOMAIN c.rows : (t[i].status <=> u[i].status) /\ t[i].quality = u[i].quality
    PROVE  CheckedOf(c, t) = CheckedOf(c, u)
BY DEF CheckedOf

\* Without a limit no branch is merged and no flow withdrawn.
LEMMA NothingMerged ==
    ASSUME NEW c, NEW t, NEW ns, NEW bs, TablesAlike(c, t, ns, bs)
    PROVE  /\ MergedBranches(ns, bs, None) = {}
           /\ UsedRows(WithoutFlows(t, {}), ns, Lines(ns, bs, {})) = CheckedOf(c, t)
<1> DEFINE u == WithoutFlows(t, {})
<1>1. MergedBranches(ns, bs, None) = {}
  BY DEF MergedBranches
<1>2. DOMAIN u = DOMAIN t /\ DOMAIN t = DOMAIN c.rows
  BY DEF WithoutFlows, TablesAlike, RowsLike
<1>3. ASSUME NEW i \in DOMAIN c.rows
      PROVE  RowLike(u[i], c.rows[i]) /\ (t[i].status <=> u[i].status) /\ t[i].quality = u[i].quality
  <2>1. RowLike(t[i], c.rows[i])
    BY DEF TablesAlike, RowsLike
  <2>2. u[i] = [t[i] EXCEPT !.status = t[i].status /\ ~(t[i].kind \in FlowKinds /\ t[i].obj \in {})]
    BY <1>2 DEF WithoutFlows
  <2> HIDE DEF u
  <2>3. RowLike(u[i], c.rows[i]) /\ t[i].quality = u[i].quality
    BY <2>1, <2>2 DEF RowLike, RowFields
  <2>4. u[i].status = (t[i].status /\ ~(t[i].kind \in FlowKinds /\ t[i].obj \in {}))
    BY <2>1, <2>2 DEF RowLike, RowFields
  <2>5. QED
    BY <2>3, <2>4
<1> HIDE DEF u
<1>4. TablesAlike(c, u, ns, bs)
  BY <1>2, <1>3 DEF TablesAlike, RowsLike
<1>5. UsedRows(u, ns, Lines(ns, bs, {})) = CheckedOf(c, u)
  BY <1>4, CheckedRows
<1>6. CheckedOf(c, t) = CheckedOf(c, u)
  BY <1>3, SameChecked
<1>7. QED
  BY <1>1, <1>5, <1>6 DEF u

-----------------------------------------------------------------------------
(* The steps of a call leave its tables alike.                                *)

LEMMA BoxesTables ==
    ASSUME TablesAlike(case, m, nodes, branches), WriteBoxes
    PROVE  TablesAlike(case, m', nodes', branches') /\ UNCHANGED <<case, prob>>
<1> DEFINE est(n) == [part \in Parts |-> [a \in Axes |->
               IF <<n, part, a>> \in DOMAIN sol.box THEN WrittenBox(n, part, a) ELSE nodes[n].est[part][a]]]
           new == BoxEstimates
<1>1. DOMAIN new = DOMAIN nodes /\ \A n \in DOMAIN nodes : new[n] = [nodes[n] EXCEPT !.est = est(n)]
  BY SMT DEF BoxEstimates
<1> HIDE DEF est, new
<1>2. NodesLike(new, case.nodes)
  BY <1>1, EstimatedLike DEF TablesAlike
<1>3. QED
  BY <1>2 DEF WriteBoxes, TablesAlike, new

LEMMA ResultsTables ==
    ASSUME TablesAlike(case, m, nodes, branches), WriteResults
    PROVE  TablesAlike(case, m', nodes', branches') /\ UNCHANGED <<case, prob>>
<1> DEFINE flows == MergedFlows(nodes, branches, prob.sn, Outflow)
           solved == NodeResults(nodes, branches, prob.lines, sol.flow, sol.volt)
<1>1. UNCHANGED <<case, m, prob>>
  BY DEF WriteResults
<1>2. /\ nodes' = MergedNodeResults(solved, branches, prob.sn, flows)
      /\ branches' = MergedBranchResults(BranchResults(branches, prob.lines, sol.flow), flows)
  BY DEF WriteResults
<1> HIDE DEF flows
<1>3. NodesLike(solved, case.nodes)
  BY NodeResultsLike DEF TablesAlike
<1> HIDE DEF solved
<1>4. NodesLike(nodes', case.nodes)
  BY <1>2, <1>3, MergedNodeResultsLike
<1>5. BranchesLike(branches', case.branches)
  BY <1>2, BranchResultsLike DEF TablesAlike
<1>6. QED
  BY <1>1, <1>4, <1>5 DEF TablesAlike

LEMMA MeasurementsTables ==
    ASSUME TablesAlike(case, m, nodes, branches), WriteMeasurements
    PROVE  /\ TablesAlike(case, m', nodes', branches') /\ UNCHANGED <<case, prob>>
           /\ \A i \in DOMAIN m :
                 /\ m'[i].est = IF i \in DOMAIN roleEst THEN roleEst[i]
                                ELSE IF i \in prob.used THEN Evaluated(m[i]) ELSE None
                 /\ m'[i].status = m[i].status /\ m'[i].quality = m[i].quality
<1> DEFINE est(i) == IF i \in DOMAIN roleEst THEN roleEst[i]
                     ELSE IF i \in prob.used THEN Evaluated(m[i]) ELSE None
<1>1. UNCHANGED <<case, nodes, branches, prob>>
  BY DEF WriteMeasurements
<1>2. m' = [i \in DOMAIN m |-> [m[i] EXCEPT !.est = est(i)]]
  BY DEF WriteMeasurements
<1> HIDE DEF est
<1>3. DOMAIN m' = DOMAIN m /\ DOMAIN m = DOMAIN case.rows
  BY <1>2 DEF TablesAlike, RowsLike
<1>4. ASSUME NEW i \in DOMAIN case.rows
      PROVE  /\ RowLike(m'[i], case.rows[i]) /\ m'[i].est = est(i)
             /\ m'[i].status = m[i].status /\ m'[i].quality = m[i].quality
  <2>1. m'[i] = [m[i] EXCEPT !.est = est(i)] /\ RowLike(m[i], case.rows[i])
    BY <1>2, <1>3 DEF TablesAlike, RowsLike
  <2>2. RowLike([m[i] EXCEPT !.est = est(i)], case.rows[i])
    BY <2>1, Zenon, ResultColumns
  <2>3. DOMAIN m[i] = RowFields
    BY <2>1 DEF RowLike
  <2>4. m'[i].est = est(i) /\ m'[i].status = m[i].status /\ m'[i].quality = m[i].quality
    BY <2>1, <2>3 DEF RowFields
  <2>5. QED
    BY <2>1, <2>2, <2>4
<1>5. QED
  BY <1>1, <1>3, <1>4 DEF TablesAlike, RowsLike, est

LEMMA SplitTables ==
    ASSUME TablesAlike(case, m, nodes, branches), SplitWls
    PROVE  TablesAlike(case, m', nodes', branches') /\ UNCHANGED <<case, prob>>
<1>1. NodesLike(SplitInjections(nodes), case.nodes)
  BY SplitLike, EstimatedLike DEF TablesAlike
<1>2. NodesLike(ApplyLoadCharacteristic(SplitInjections(nodes)), case.nodes)
  BY <1>1, CharacteristicLike, EstimatedLike
<1>3. QED
  BY <1>2 DEF SplitWls, TablesAlike

LEMMA ReconcileTables ==
    ASSUME TablesAlike(case, m, nodes, branches), Reconcile
    PROVE  TablesAlike(case, m', nodes', branches') /\ UNCHANGED <<case, prob>>
<1>1. NodesLike(ReconcileNodeBalance(nodes, cfg.respect), case.nodes)
  <2> DEFINE new == ReconcileNodeBalance(nodes, cfg.respect)
  <2>1. /\ DOMAIN new = DOMAIN nodes
        /\ \A n \in DOMAIN nodes : new[n] = nodes[n] \/ \E e : new[n] = [nodes[n] EXCEPT !.est = e]
    BY ReconcileLike, Zenon
  <2> HIDE DEF new
  <2>2. NodesLike(new, case.nodes)
    BY <2>1, EstimatedLike DEF TablesAlike
  <2>3. QED
    BY <2>2 DEF new
<1>2. NodesLike(nodes', case.nodes)
  BY <1>1 DEF Reconcile, TablesAlike
<1>3. QED
  BY <1>2 DEF Reconcile, TablesAlike

-----------------------------------------------------------------------------
Gone == {removed[k] : k \in DOMAIN removed}

\* The readings that are gone are switched off, counted once each.
Removals ==
    /\ removed \in Seq(DOMAIN case.rows)
    /\ Gone \subseteq DOMAIN case.rows /\ IsFiniteSet(Gone) /\ Cardinality(Gone) = Len(removed)
    /\ \A i \in Gone : ~m[i].status

\* The clean-up has removed a reading after its last estimate.
GaveUp == cleaned # None /\ cleaned = FALSE /\ result.success

BInv ==
    /\ case \in Cases /\ case.cfg = DefaultConfig
    /\ TablesAlike(case, m, nodes, branches)
    /\ pc \in {"call", "failed", "wls", "results", "rows", "split", "balance", "return", "done"}
    /\ roleEst = <<>>
    /\ Removals
    /\ cleaned = None => Len(removed) <= MaxRejections
    /\ cleaned # None => pc = "done" /\ cleaned \in BOOLEAN
    /\ cleaned # None /\ cleaned = TRUE => result.success
    /\ pc \notin {"call", "failed"} =>
          prob.used = CheckedOf(case, m) \cup (IF GaveUp THEN {removed[Len(removed)]} ELSE {})
    /\ GaveUp => Len(removed) = MaxRejections + 1
    /\ pc \in {"split", "balance", "return", "done"} => \A i \in DOMAIN m \ prob.used : m[i].est = None
    /\ pc = "done" => result.used = prob.used

LEMMA NoneIsFewer == \A l : l = 0 => l <= MaxRejections
<1>1. MaxRejections \in Nat
  BY CleaningAssumption
<1>2. 0 <= MaxRejections
  BY <1>1
<1>3. QED
  BY <1>2

LEMMA EmptyDomain == DOMAIN <<>> = {}
OBVIOUS

LEMMA InitCleaning == ASSUME Init, caller = "bad data" PROVE BInv
<1>1. /\ case \in Cases /\ case.cfg = DefaultConfig /\ pc = "call" /\ roleEst = <<>>
      /\ m = case.rows /\ nodes = case.nodes /\ branches = case.branches
      /\ removed = <<>> /\ cleaned = None
  BY DEF Init, EstimateInit, cfg
<1>2. TablesAlike(case, m, nodes, branches)
  BY <1>1, TablesLike DEF TablesAlike
<1>3. Removals
  <2>1. DOMAIN removed = {} /\ removed \in Seq(DOMAIN case.rows) /\ Len(removed) = 0
    <3>1. <<>> \in Seq(DOMAIN case.rows) /\ Len(<<>>) = 0
      BY EmptySeq
    <3>2. QED
      BY <1>1, <3>1, EmptyDomain, Zenon
  <2>2. Gone = {}
    BY <2>1 DEF Gone
  <2>3. QED
    BY <2>1, <2>2, FS_EmptySet DEF Removals
<1>4. Len(removed) = 0
  BY <1>1, EmptySeq, Zenon
<1>5. Len(removed) <= MaxRejections
  BY <1>4, NoneIsFewer, Zenon
<1>6. /\ pc \notin {"split", "balance", "return", "done"} /\ ~(pc \notin {"call", "failed"})
      /\ pc # "done" /\ ~GaveUp
  BY <1>1 DEF GaveUp
<1>7. cleaned = None
  BY <1>1
<1>8. QED
  BY <1>1, <1>2, <1>3, <1>5, <1>6, <1>7, Zenon DEF BInv

-----------------------------------------------------------------------------
(* A step that leaves the readings' status and quality alone. *)
LEMMA RemovalsStay ==
    ASSUME Removals, UNCHANGED <<case, removed>>,
           \A i \in DOMAIN case.rows : m'[i].status <=> m[i].status
    PROVE  Removals'
<1>1. Gone' = Gone
  BY DEF Gone
<1>2. QED
  BY <1>1 DEF Removals

LEMMA AssembleCleaning == BInv /\ Assemble /\ UNCHANGED loop => BInv'
<1> SUFFICES ASSUME BInv, Assemble, UNCHANGED loop PROVE BInv'
  OBVIOUS
<1>1. UNCHANGED <<case, m, nodes, branches, removed, cleaned>> /\ pc = "call" /\ roleEst' = <<>>
  BY DEF Assemble, tables, loop
<1>2. cleaned = None /\ cfg.merge = None /\ cfg.alg = "wls"
  BY <1>1, CleaningAssumption DEF BInv, cfg
<1>3. Removals'
  BY <1>1, RemovalsStay DEF BInv
<1>4. \/ pc' = "failed"
      \/ pc' = "wls" /\ prob'.used = CheckedOf(case, m)
  <2>1. CASE Rejected \/ NetworkFails(nodes)
    BY <2>1 DEF Assemble
  <2>2. CASE ~(Rejected \/ NetworkFails(nodes))
    <3> DEFINE edges == MergedBranches(nodes, branches, cfg.merge)
               used == UsedRows(WithoutFlows(m, edges), nodes, Lines(nodes, branches, edges))
    <3>1. pc' = cfg.alg /\ prob'.used = used
      BY <2>2 DEF Assemble
    <3>2. edges = {} /\ used = CheckedOf(case, m)
      BY <1>2, NothingMerged DEF BInv
    <3>3. QED
      BY <1>2, <3>1, <3>2
  <2>3. QED
    BY <2>1, <2>2
<1>5. ~GaveUp'
  BY <1>1, <1>2 DEF GaveUp
<1>6. QED
  BY <1>1, <1>2, <1>3, <1>4, <1>5 DEF BInv

\* A step of the estimate after the problem is built, which only writes results.
Writes ==
    /\ UNCHANGED <<case, prob, roleEst, removed, cleaned>>
    /\ TablesAlike(case, m', nodes', branches')
    /\ \A i \in DOMAIN case.rows : (m'[i].status <=> m[i].status) /\ m'[i].quality = m[i].quality

LEMMA WritesKeep ==
    ASSUME BInv, Writes, pc \notin {"call", "failed", "done"}, cleaned = None
    PROVE  /\ case' \in Cases /\ case'.cfg = DefaultConfig
           /\ TablesAlike(case', m', nodes', branches')
           /\ roleEst' = <<>> /\ Removals' /\ cleaned' = None /\ Len(removed') <= MaxRejections
           /\ prob'.used = CheckedOf(case', m') /\ ~GaveUp'
           /\ DOMAIN m' = DOMAIN m
<1>1. prob.used = CheckedOf(case, m)
  BY DEF BInv, GaveUp
<1>2. CheckedOf(case, m') = CheckedOf(case, m)
  BY SameChecked DEF Writes
<1>3. DOMAIN m' = DOMAIN case.rows /\ DOMAIN m = DOMAIN case.rows
  BY DEF Writes, BInv, TablesAlike, RowsLike
<1>4. Removals'
  BY RemovalsStay DEF BInv, Writes
<1>5. QED
  BY <1>1, <1>2, <1>3, <1>4 DEF BInv, Writes, GaveUp

LEMMA UnchangedWrites ==
    ASSUME BInv, UNCHANGED <<case, m, nodes, branches, prob, roleEst, removed, cleaned>>
    PROVE  Writes
BY DEF BInv, Writes

\* An estimate that runs has no verdict of the clean-up.
LEMMA NoVerdictYet == ASSUME BInv, pc # "done" PROVE cleaned = None
BY DEF BInv

LEMMA SolveCleaning == BInv /\ SolveWls /\ UNCHANGED loop => BInv'
<1> SUFFICES ASSUME BInv, SolveWls, UNCHANGED loop PROVE BInv'
  OBVIOUS
<1>1. pc = "wls" /\ pc' = "results" /\ UNCHANGED <<case, m, nodes, branches, prob, roleEst, removed, cleaned>>
  BY DEF SolveWls, tables, loop
<1>2. Writes /\ cleaned = None
  BY <1>1, UnchangedWrites, NoVerdictYet
<1>3. QED
  BY <1>1, <1>2, WritesKeep DEF BInv

LEMMA ResultsCleaning == BInv /\ WriteResults /\ UNCHANGED loop => BInv'
<1> SUFFICES ASSUME BInv, WriteResults, UNCHANGED loop PROVE BInv'
  OBVIOUS
<1>1. pc = "results" /\ pc' = "rows" /\ UNCHANGED <<m, roleEst, removed, cleaned>>
  BY DEF WriteResults, loop
<1>2. TablesAlike(case, m', nodes', branches') /\ UNCHANGED <<case, prob>>
  BY ResultsTables DEF BInv
<1>3. Writes /\ cleaned = None
  BY <1>1, <1>2, NoVerdictYet DEF BInv, Writes
<1>4. QED
  BY <1>1, <1>3, WritesKeep DEF BInv

LEMMA MeasurementsCleaning == BInv /\ WriteMeasurements /\ UNCHANGED loop => BInv'
<1> SUFFICES ASSUME BInv, WriteMeasurements, UNCHANGED loop PROVE BInv'
  OBVIOUS
<1>1. pc = "rows" /\ pc' \in {"split", "balance"} /\ UNCHANGED <<roleEst, removed, cleaned>>
  BY DEF WriteMeasurements, loop
<1>2. /\ TablesAlike(case, m', nodes', branches') /\ UNCHANGED <<case, prob>>
      /\ \A i \in DOMAIN m :
            /\ m'[i].est = IF i \in DOMAIN roleEst THEN roleEst[i]
                           ELSE IF i \in prob.used THEN Evaluated(m[i]) ELSE None
            /\ m'[i].status = m[i].status /\ m'[i].quality = m[i].quality
  BY MeasurementsTables DEF BInv
<1>3. DOMAIN m' = DOMAIN m /\ DOMAIN m = DOMAIN case.rows
  BY <1>2 DEF BInv, TablesAlike, RowsLike
<1>4. Writes /\ cleaned = None
  BY <1>1, <1>2, <1>3, NoVerdictYet DEF BInv, Writes
<1>5. \A i \in DOMAIN m' \ prob'.used : m'[i].est = None
  BY <1>2, <1>3, EmptyDomain DEF BInv
<1>6. QED
  BY <1>1, <1>4, <1>5, WritesKeep DEF BInv

LEMMA SplitCleaning == BInv /\ SplitWls /\ UNCHANGED loop => BInv'
<1> SUFFICES ASSUME BInv, SplitWls, UNCHANGED loop PROVE BInv'
  OBVIOUS
<1>1. pc = "split" /\ pc' = "balance" /\ UNCHANGED <<m, roleEst, removed, cleaned>>
  BY DEF SplitWls, loop
<1>2. TablesAlike(case, m', nodes', branches') /\ UNCHANGED <<case, prob>>
  BY SplitTables DEF BInv
<1>3. Writes /\ cleaned = None
  BY <1>1, <1>2, NoVerdictYet DEF BInv, Writes
<1>4. QED
  BY <1>1, <1>2, <1>3, WritesKeep DEF BInv

LEMMA ReconcileCleaning == BInv /\ Reconcile /\ UNCHANGED loop => BInv'
<1> SUFFICES ASSUME BInv, Reconcile, UNCHANGED loop PROVE BInv'
  OBVIOUS
<1>1. pc = "balance" /\ pc' = "return" /\ UNCHANGED <<m, roleEst, removed, cleaned>>
  BY DEF Reconcile, loop
<1>2. TablesAlike(case, m', nodes', branches') /\ UNCHANGED <<case, prob>>
  BY ReconcileTables DEF BInv
<1>3. Writes /\ cleaned = None
  BY <1>1, <1>2, NoVerdictYet DEF BInv, Writes
<1>4. QED
  BY <1>1, <1>2, <1>3, WritesKeep DEF BInv

LEMMA ReturnCleaning == BInv /\ Return /\ UNCHANGED loop => BInv'
<1> SUFFICES ASSUME BInv, Return, UNCHANGED loop PROVE BInv'
  OBVIOUS
<1>1. /\ pc = "return" /\ pc' = "done" /\ result'.used = prob.used
      /\ UNCHANGED <<case, m, nodes, branches, prob, roleEst, removed, cleaned>>
  BY DEF Return, tables, loop
<1>2. Writes /\ cleaned = None
  BY <1>1, UnchangedWrites, NoVerdictYet
<1>3. QED
  BY <1>1, <1>2, WritesKeep DEF BInv

LEMMA EstimateCleaning == BInv /\ EstimateNext /\ UNCHANGED loop => BInv'
<1> SUFFICES ASSUME BInv, EstimateNext, UNCHANGED loop PROVE BInv'
  OBVIOUS
<1>1. pc \notin {"ipm_pd", "ipm", "fallback", "boxes"}
  BY DEF BInv
<1>2. ~SolvePd /\ ~SolveIpm /\ ~WriteBoxes
  BY <1>1 DEF SolvePd, SolveIpm, WriteBoxes
<1>3. QED
  BY <1>2, AssembleCleaning, SolveCleaning, ResultsCleaning, MeasurementsCleaning, SplitCleaning,
     ReconcileCleaning, ReturnCleaning, Zenon DEF EstimateNext

LEMMA StopStep == ASSUME BInv, Cleaning, NEW v \in BOOLEAN, v <=> result.success, StopCleaning(v) PROVE BInv'
<1>1. /\ pc = "done" /\ cleaned = None /\ cleaned' = v
      /\ UNCHANGED <<case, pc, m, nodes, branches, prob, roleEst, result, removed>>
  BY DEF Cleaning, StopCleaning, evars
<1>2. ~GaveUp
  BY <1>1 DEF GaveUp
<1>3. ~GaveUp'
  BY <1>1 DEF GaveUp
<1>4. Removals'
  BY <1>1, RemovalsStay DEF BInv
<1>5. prob.used = CheckedOf(case, m)
  BY <1>1, <1>2 DEF BInv
<1>6. cleaned' # None => pc' = "done" /\ cleaned' \in BOOLEAN
  BY <1>1
<1>7. cleaned' # None /\ cleaned' = TRUE => result'.success
  BY <1>1
<1>8. cleaned' = None => Len(removed') <= MaxRejections
  BY <1>1 DEF BInv
<1>9. QED
  BY <1>1, <1>3, <1>4, <1>5, <1>6, <1>7, <1>8 DEF BInv

\* The reading that is dropped was switched on, so it had not been dropped.
LEMMA DropOne ==
    ASSUME BInv, Cleaning, NEW bad \in Checked, UNCHANGED <<case, nodes, branches>>,
           m' = [m EXCEPT ![bad].status = FALSE, ![bad].quality = Bad], removed' = Append(removed, bad)
    PROVE  /\ TablesAlike(case, m', nodes, branches)
           /\ Removals' /\ Len(removed') = Len(removed) + 1 /\ removed'[Len(removed')] = bad
           /\ CheckedOf(case, m) = CheckedOf(case, m') \cup {bad}
           /\ DOMAIN m' = DOMAIN m /\ \A i \in DOMAIN m : m'[i].est = m[i].est
<1>1. Checked = CheckedOf(case, m)
  BY CheckedRows DEF Checked, BInv
<1>2. bad \in DOMAIN case.rows /\ m[bad].status /\ DOMAIN m = DOMAIN case.rows
  BY <1>1 DEF CheckedOf, BInv, TablesAlike, RowsLike
<1>3. DOMAIN m' = DOMAIN m
  OBVIOUS
<1>4. \A i \in DOMAIN m : i # bad => m'[i] = m[i]
  OBVIOUS
<1>5. /\ RowLike(m'[bad], case.rows[bad]) /\ ~m'[bad].status /\ m'[bad].quality = Bad
      /\ m'[bad].est = m[bad].est
  <2>1. m'[bad] = [m[bad] EXCEPT !.status = FALSE, !.quality = Bad]
    BY <1>2
  <2>2. RowLike(m[bad], case.rows[bad])
    BY <1>2 DEF BInv, TablesAlike, RowsLike
  <2> DEFINE old == m[bad]
             new == m'[bad]
             row == case.rows[bad]
  <2> HIDE DEF old, new, row
  <2>3. new = [old EXCEPT !.status = FALSE, !.quality = Bad] /\ RowLike(old, row)
    BY <2>1, <2>2 DEF old, new, row
  <2>4. DOMAIN old = RowFields
    BY <2>3 DEF RowLike
  <2>5. new.status = FALSE /\ new.quality = Bad /\ new.est = old.est
    BY <2>3, <2>4 DEF RowFields
  <2>6. RowLike(new, row)
    BY <2>3, <2>4 DEF RowLike, RowFields
  <2>7. QED
    BY <2>5, <2>6 DEF old, new, row
<1>6. TablesAlike(case, m', nodes, branches)
  <2>1. \A i \in DOMAIN case.rows : RowLike(m'[i], case.rows[i])
    BY <1>2, <1>4, <1>5 DEF BInv, TablesAlike, RowsLike
  <2>2. QED
    BY <1>2, <1>3, <2>1 DEF BInv, TablesAlike, RowsLike
<1>7. \A i \in DOMAIN m : m'[i].est = m[i].est
  BY <1>4, <1>5
<1>8. CheckedOf(case, m) = CheckedOf(case, m') \cup {bad}
  <2>1. \A i : i \in CheckedOf(case, m') <=> i \in CheckedOf(case, m) /\ i # bad
    BY <1>2, <1>4, <1>5 DEF CheckedOf
  <2>2. bad \in CheckedOf(case, m)
    BY <1>1
  <2>3. QED
    BY <2>1, <2>2
<1>9. Removals
  BY DEF BInv
<1> DEFINE S == DOMAIN case.rows
<1>10. /\ removed \in Seq(S) /\ Gone \subseteq S /\ IsFiniteSet(Gone) /\ Cardinality(Gone) = Len(removed)
       /\ \A i \in Gone : ~m[i].status
  BY <1>9 DEF Removals
<1>11. bad \in S
  BY <1>2
<1> HIDE DEF S
<1>12. /\ removed' \in Seq(S) /\ Len(removed') = Len(removed) + 1 /\ Len(removed) \in Nat
       /\ DOMAIN removed = 1 .. Len(removed) /\ DOMAIN removed' = 1 .. Len(removed')
       /\ \A k \in 1 .. Len(removed) : removed'[k] = removed[k]
       /\ removed'[Len(removed) + 1] = bad
  BY <1>10, <1>11, AppendProperties, LenProperties
<1>13. removed'[Len(removed')] = bad
  BY <1>12
<1>14. Gone' = Gone \cup {bad}
  <2>1. 1 .. Len(removed') = 1 .. Len(removed) \cup {Len(removed) + 1}
    BY <1>12
  <2>2. QED
    BY <1>12, <2>1 DEF Gone
<1>15. bad \notin Gone
  BY <1>2, <1>10
<1>16. IsFiniteSet(Gone \cup {bad}) /\ Cardinality(Gone \cup {bad}) = Cardinality(Gone) + 1
  BY <1>10, <1>15, FS_AddElement
<1>17. \A i \in Gone' : ~m'[i].status
  BY <1>2, <1>4, <1>5, <1>10, <1>14 DEF S
<1>18. Removals'
  BY <1>10, <1>11, <1>12, <1>14, <1>16, <1>17 DEF Removals, S
<1>19. QED
  BY <1>3, <1>6, <1>7, <1>8, <1>12, <1>13, <1>18

LEMMA RejectStep == BInv /\ RejectWorst => BInv'
<1> SUFFICES ASSUME BInv, RejectWorst PROVE BInv'
  OBVIOUS
<1>1. /\ Cleaning /\ result.success /\ pc = "done" /\ cleaned = None
      /\ UNCHANGED <<case, nodes, branches, prob, roleEst, result>>
  BY DEF RejectWorst, Cleaning
<1>2. PICK bad \in Checked : /\ m' = [m EXCEPT ![bad].status = FALSE, ![bad].quality = Bad]
                             /\ removed' = Append(removed, bad)
  BY DEF RejectWorst
<1>3. /\ TablesAlike(case, m', nodes, branches)
      /\ Removals' /\ Len(removed') = Len(removed) + 1 /\ removed'[Len(removed')] = bad
      /\ CheckedOf(case, m) = CheckedOf(case, m') \cup {bad}
      /\ DOMAIN m' = DOMAIN m /\ \A i \in DOMAIN m : m'[i].est = m[i].est
  BY <1>1, <1>2, DropOne
<1>4. Len(removed) \in Nat /\ Len(removed) <= MaxRejections /\ MaxRejections \in Nat
  BY <1>1, LenProperties, CleaningAssumption DEF BInv, Removals
<1>5. prob.used = CheckedOf(case, m) /\ result.used = prob.used
      /\ \A i \in DOMAIN m \ prob.used : m[i].est = None
  BY <1>1 DEF BInv, GaveUp
<1>6. \A i \in DOMAIN m' \ prob'.used : m'[i].est = None
  BY <1>1, <1>3, <1>5
<1>7. CASE Len(removed) = MaxRejections
  <2>1. cleaned' = FALSE /\ pc' = "done"
    BY <1>1, <1>7 DEF RejectWorst
  <2>2. Len(removed') = MaxRejections + 1
    BY <1>3, <1>7
  <2>3. prob'.used = CheckedOf(case', m') \cup {removed'[Len(removed')]}
    BY <1>1, <1>3, <1>5
  <2>4. cleaned' # None
    BY <2>1, CleaningAssumption
  <2>5. GaveUp'
    BY <1>1, <2>1, <2>4 DEF GaveUp
  <2>6. cleaned' # TRUE
    BY <2>1
  <2>7. QED
    BY <1>1, <1>3, <1>5, <1>6, <2>1, <2>2, <2>3, <2>4, <2>5, <2>6 DEF BInv
<1>8. CASE Len(removed) # MaxRejections
  <2>1. pc' = "call" /\ cleaned' = None
    BY <1>1, <1>8 DEF RejectWorst
  <2>2. Len(removed') <= MaxRejections
    BY <1>3, <1>4, <1>8
  <2>3. ~GaveUp'
    BY <2>1 DEF GaveUp
  <2>4. QED
    BY <1>1, <1>3, <2>1, <2>2, <2>3 DEF BInv
<1>9. QED
  BY <1>7, <1>8


LEMMA CleaningStutter == BInv /\ UNCHANGED vars => BInv'
<1> SUFFICES ASSUME BInv, UNCHANGED vars PROVE BInv'
  OBVIOUS
<1>1. /\ UNCHANGED <<case, pc, m, nodes, branches, prob, roleEst, result, removed, cleaned>>
  BY DEF vars, evars
<1>2. Removals'
  BY <1>1, RemovalsStay DEF BInv
<1>3. GaveUp' <=> GaveUp
  BY <1>1 DEF GaveUp
<1>4. QED
  BY <1>1, <1>2, <1>3 DEF BInv

-----------------------------------------------------------------------------
(* The two halves together.                                                   *)

Inv ==
    /\ SInv
    /\ caller = "bad data" => BInv

LEMMA InitInv == Init => Inv
BY InitTrials, InitCleaning DEF Inv

LEMMA InvStep == Inv /\ [Next]_vars => Inv'
<1> SUFFICES ASSUME Inv, [Next]_vars PROVE Inv'
  OBVIOUS
<1>1. SInv /\ (caller = "bad data" => BInv)
  BY DEF Inv
<1>2. CASE Solve
  <2>1. UNCHANGED svars /\ UNCHANGED loop /\ caller' = caller /\ EstimateNext
    BY <1>2 DEF Solve, loop
  <2>2. SInv'
    BY <1>1, <2>1, TrialsStutter
  <2>3. caller = "bad data" => BInv'
    BY <1>1, <2>1, EstimateCleaning
  <2>4. QED
    BY <2>1, <2>2, <2>3 DEF Inv
<1>3. CASE RunTrials
  <2>1. SInv'
    BY <1>1, <1>3, TrialsStep DEF RunTrials
  <2>2. caller' # "bad data"
    BY <1>3 DEF RunTrials
  <2>3. QED
    BY <2>1, <2>2 DEF Inv
<1>4. CASE EstimateFailed \/ TestPassed
  <2>1. PICK v \in BOOLEAN : Cleaning /\ (v <=> result.success) /\ StopCleaning(v)
    BY <1>4 DEF EstimateFailed, TestPassed
  <2>2. UNCHANGED svars
    BY <2>1 DEF StopCleaning
  <2>3. SInv'
    BY <1>1, <2>2, TrialsStutter
  <2>4. BInv'
    BY <1>1, <2>1, StopStep DEF Cleaning
  <2>5. QED
    BY <2>3, <2>4 DEF Inv
<1>5. CASE RejectWorst
  <2>1. UNCHANGED svars /\ caller = "bad data"
    BY <1>5 DEF RejectWorst, Cleaning
  <2>2. SInv'
    BY <1>1, <2>1, TrialsStutter
  <2>3. BInv'
    BY <1>1, <1>5, <2>1, RejectStep
  <2>4. QED
    BY <2>2, <2>3 DEF Inv
<1>6. CASE UNCHANGED vars
  <2>1. UNCHANGED svars /\ caller' = caller
    BY <1>6 DEF vars
  <2>2. SInv'
    BY <1>1, <2>1, TrialsStutter
  <2>3. caller = "bad data" => BInv'
    BY <1>1, <1>6, CleaningStutter
  <2>4. QED
    BY <2>1, <2>2, <2>3 DEF Inv
<1>7. QED
  BY <1>2, <1>3, <1>4, <1>5, <1>6 DEF Next

\* What the invariant says of the clean-up.
CleaningAgrees ==
    cleaned # None =>
        /\ Gone \cap Checked = {} /\ Cardinality(Gone) = Len(removed)
        /\ cleaned => /\ result.success /\ result.used = Checked
                      /\ \A i \in Gone : m[i].est = None
        /\ ~cleaned /\ result.success =>
              /\ Len(removed) = MaxRejections + 1
              /\ result.used = Checked \cup {removed[Len(removed)]}

LEMMA CleaningReports == BInv => CleaningAgrees
<1> SUFFICES ASSUME BInv, cleaned # None
             PROVE  /\ Gone \cap Checked = {} /\ Cardinality(Gone) = Len(removed)
                    /\ cleaned => /\ result.success /\ result.used = Checked
                                  /\ \A i \in Gone : m[i].est = None
                    /\ ~cleaned /\ result.success =>
                          /\ Len(removed) = MaxRejections + 1
                          /\ result.used = Checked \cup {removed[Len(removed)]}
  BY DEF CleaningAgrees
<1>1. pc = "done" /\ cleaned \in BOOLEAN /\ result.used = prob.used
  BY DEF BInv
<1>2. Checked = CheckedOf(case, m)
  BY CheckedRows DEF Checked, BInv
<1>3. \A i \in Checked : m[i].status
  BY <1>2 DEF CheckedOf
<1>4. /\ Gone \subseteq DOMAIN m /\ Cardinality(Gone) = Len(removed)
      /\ \A i \in Gone : ~m[i].status
  BY DEF BInv, Removals, TablesAlike, RowsLike
<1>5. Gone \cap Checked = {}
  BY <1>3, <1>4
<1>6. ASSUME cleaned
      PROVE  result.success /\ result.used = Checked /\ \A i \in Gone : m[i].est = None
  <2>1. ~GaveUp /\ result.success
    BY <1>1, <1>6 DEF GaveUp, BInv
  <2>2. prob.used = Checked
    BY <1>1, <1>2, <2>1 DEF BInv
  <2>3. \A i \in DOMAIN m \ prob.used : m[i].est = None
    BY <1>1 DEF BInv
  <2>4. QED
    BY <1>1, <1>4, <1>5, <2>1, <2>2, <2>3
<1>7. ASSUME ~cleaned, result.success
      PROVE  Len(removed) = MaxRejections + 1 /\ result.used = Checked \cup {removed[Len(removed)]}
  <2>1. GaveUp
    BY <1>1, <1>7 DEF GaveUp
  <2>2. QED
    BY <1>1, <1>2, <2>1 DEF BInv
<1>8. QED
  BY <1>4, <1>5, <1>6, <1>7

THEOREM ReportsMatchResults == Spec => []ReportMatchesResult
<1>1. Init => Inv
  BY InitInv
<1>2. Inv /\ [Next]_vars => Inv'
  BY InvStep
<1>3. Inv => ReportMatchesResult
  <2> SUFFICES ASSUME Inv PROVE ReportMatchesResult
    OBVIOUS
  <2>1. ShuntsAgree
    BY TrialsAgree DEF Inv
  <2>2. caller = "bad data" => CleaningAgrees
    BY CleaningReports DEF Inv
  <2> DEFINE Shunts == final # None =>
                 IF report.edits = NoEdits THEN final = base
                 ELSE /\ EditShunts(report.edits) \in DOMAIN seen
                      /\ final = seen[EditShunts(report.edits)]
                      /\ base.rn2 - final.rn2 > Gate
                      /\ \A n \in DOMAIN report.edits : \E k \in DOMAIN Candidates : Candidates[k] = n
                      /\ \A n \in DOMAIN report.edits :
                            LET alone == [k \in {n} |-> report.edits[n]]
                            IN base.rn2 - seen[EditShunts(alone)].rn2 > Gate
  <2>3. Shunts
    BY <2>1, Zenon DEF ShuntsAgree, Range
  <2>4. QED
    BY <2>2, <2>3 DEF ReportMatchesResult, CleaningAgrees, Gone
<1>4. QED
  BY <1>1, <1>2, <1>3, PTL DEF Spec

-----------------------------------------------------------------------------
\* The rows of the setup, and those of one reading among them.
Setup(used) == IF cfg.alg = "wls" THEN BaseProblem(used) ELSE BuildIpmSetup(m, nodes, used, cfg)

Roles == cfg.roles /\ cfg.alg # "wls"

RowsOf(used, i) ==
    IF Roles /\ m[i].kind \in InjectionKinds
    THEN InjectionRows(m, used, BoxVars(nodes, cfg), i, AxisOf(m[i].kind))
    ELSE {DataRow(m[i], i)}

\* The balance of a bus, with a variance from the readings.
DataOf(used) == {r \in UNION {RowsOf(used, i) : i \in used} : r.block = "data"}

BalanceOf(used, n, a) ==
    [block |-> "balance", kind |-> a, part |-> "none", obj |-> n, side |-> -1,
     value |-> FixedInjection(nodes[n], a, cfg), var |-> BalanceVar(nodes[n], a, DataOf(used), cfg),
     id |-> 0, eq |-> IsHard(nodes[n], cfg)]

LEMMA PlannedDomain == ASSUME NEW t, NEW used, NEW boxVars, NEW c PROVE DOMAIN PlannedVars(t, used, boxVars, c) = DOMAIN boxVars
BY DEF PlannedVars

LEMMA SetupVars ==
    ASSUME NEW used
    PROVE  DOMAIN Setup(used).vars = IF cfg.alg = "wls" THEN {} ELSE DOMAIN BoxVars(nodes, cfg)
<1>1. CASE cfg.alg = "wls"
  BY <1>1, EmptyDomain DEF Setup, BaseProblem
<1>2. CASE cfg.alg # "wls"
  BY <1>2, PlannedDomain DEF Setup, BuildIpmSetup
<1>3. QED
  BY <1>1, <1>2

\* The readings enter by their rows.
LEMMA ReadingRowsOf ==
    ASSUME NEW used, cfg.alg # "wls"
    PROVE  ReadingRows(m, used, BoxVars(nodes, cfg), cfg) = UNION {RowsOf(used, i) : i \in used}
BY DEF ReadingRows, RowsOf, Roles

\* A row of the setup is one of a reading, a balance or a prior.
LEMMA SetupRows ==
    ASSUME NEW used
    PROVE  /\ \A i \in used : RowsOf(used, i) \subseteq Setup(used).rows
           /\ \A r \in Setup(used).rows :
                 \/ \E i \in used : r \in RowsOf(used, i)
                 \/ r.id = 0 /\ r.block = "prior"
                 \/ cfg.alg # "wls" /\ \E n \in Buses(nodes), a \in Axes : r = BalanceOf(used, n, a)
           /\ cfg.alg # "wls" =>
                 \A n \in Buses(nodes), a \in Axes : BalanceOf(used, n, a) \in Setup(used).rows
<1>1. CASE cfg.alg = "wls"
  <2>1. Setup(used).rows = {DataRow(m[i], i) : i \in used}
    BY <1>1 DEF Setup, BaseProblem
  <2>2. \A i \in used : RowsOf(used, i) = {DataRow(m[i], i)}
    BY <1>1 DEF RowsOf, Roles
  <2>3. QED
    BY <1>1, <2>1, <2>2
<1>2. CASE cfg.alg # "wls"
  <2> DEFINE boxVars == BoxVars(nodes, cfg)
             planned == IF cfg.roles THEN PlannedVars(m, used, boxVars, cfg) ELSE boxVars
             rows == UNION {RowsOf(used, i) : i \in used}
  <2>1. Setup(used).rows = rows \cup BalanceRows(nodes, DataOf(used), cfg) \cup PriorRows(planned)
    BY <1>2, ReadingRowsOf DEF Setup, BuildIpmSetup, DataOf
  <2>2. \A r \in PriorRows(planned) : r.id = 0 /\ r.block = "prior"
    BY DEF PriorRows
  <2>3. BalanceRows(nodes, DataOf(used), cfg) = {BalanceOf(used, n, a) : n \in Buses(nodes), a \in Axes}
    BY DEF BalanceRows, BalanceOf
  <2> HIDE DEF planned
  <2>4. QED
    BY <1>2, <2>1, <2>2, <2>3
<1>3. QED
  BY <1>1, <1>2

\* The rows of a reading carry its id.
LEMMA RowsOfShape ==
    ASSUME NEW used, NEW i \in used, NEW r \in RowsOf(used, i)
    PROVE  /\ r.id = i /\ r.obj = m[i].obj /\ r.block \in {"data", "part"}
           /\ r.block = "data" => r.kind = m[i].kind
           /\ \E x : RowsOf(used, i) = {x}
<1> DEFINE d == DataRow(m[i], i)
           n == m[i].obj
           a == AxisOf(m[i].kind)
           parts == PartRows(m, used, n, a)
           p == [d EXCEPT !.block = "part", !.kind = a, !.part = RolePart(m[i])]
           v == SumFunction([k \in parts |-> m[k].role * m[k].value])
           w == SumFunction([k \in parts |-> m[k].var])
           f == [d EXCEPT !.value = v, !.var = w]
           boxVars == BoxVars(nodes, cfg)
           rows == InjectionRows(m, used, boxVars, i, a)
<1>0. rows = IF m[i].role = 0 THEN IF Splits(m, used, boxVars, n, a) THEN {} ELSE {d}
             ELSE IF Splits(m, used, boxVars, n, a) THEN {p}
             ELSE IF IsFolded(m, used, boxVars, i, n, a) THEN {f} ELSE {}
  BY Zenon DEF InjectionRows
<1>1. RowsOf(used, i) = {} \/ RowsOf(used, i) = {d} \/ RowsOf(used, i) = {p} \/ RowsOf(used, i) = {f}
  <2>1. RowsOf(used, i) = {d} \/ RowsOf(used, i) = rows
    BY Zenon DEF RowsOf
  <2> HIDE DEF rows, d, p, f
  <2>2. QED
    BY <1>0, <2>1
<1>2. d.id = i /\ d.obj = n /\ d.block = "data" /\ d.kind = m[i].kind
  BY DEF DataRow
<1>3. p.id = i /\ p.obj = n /\ p.block = "part"
  BY DEF DataRow
<1> HIDE DEF v, w
<1>4. f.id = i /\ f.obj = n /\ f.block = "data" /\ f.kind = m[i].kind
  BY DEF DataRow
<1> HIDE DEF d, p, f, n
<1>5. \E x : RowsOf(used, i) = {x} /\ x \in {d, p, f}
  BY <1>1
<1>6. r \in {d, p, f}
  BY <1>5
<1>7. QED
  BY <1>2, <1>3, <1>4, <1>5, <1>6 DEF n

\* A reduced row keeps the id, the block and the object.
LEMMA ReducedShape ==
    ASSUME NEW rows, NEW boxVars, NEW sn, NEW r, NEW s \in ReduceRow(rows, boxVars, sn, r)
    PROVE  /\ s.id = r.id /\ s.block = r.block /\ s.obj = r.obj /\ s.kind = r.kind /\ s.part = r.part
           /\ r.block # "balance" => s.value = r.value
<1> DEFINE q == SuperBalance(rows, sn, r)
           c == [Plain(r) EXCEPT !.form = "converted"]
<1>1. s \in {q, c, Plain(r)} /\ (r.block # "balance" => s \in {c, Plain(r)})
  BY DEF ReduceRow
<1>2. q.id = r.id /\ q.block = r.block /\ q.obj = r.obj /\ q.kind = r.kind /\ q.part = r.part
  BY SMT DEF SuperBalance, Plain
<1>3. /\ c.id = r.id /\ c.block = r.block /\ c.obj = r.obj /\ c.kind = r.kind /\ c.part = r.part
      /\ c.value = r.value
  BY DEF Plain
<1>4. /\ Plain(r).id = r.id /\ Plain(r).block = r.block /\ Plain(r).obj = r.obj
      /\ Plain(r).kind = r.kind /\ Plain(r).part = r.part /\ Plain(r).value = r.value
  BY DEF Plain
<1> HIDE DEF q, c
<1>5. QED
  BY <1>1, <1>2, <1>3, <1>4

-----------------------------------------------------------------------------
(* What a reading becomes.                                                    *)

\* The rows of the solver for one reading.
OutOf(used, sn, i) == {s \in ReduceRows(Setup(used).rows, Setup(used).vars, sn) : s.id = i}

\* The readings of an injection of n are lost: its supernode has no box for them.
LostAt(used, sn, n, a) == IsMerged(sn, n) /\ ~HasBox(Setup(used).vars, n, a)

\* The net reading that the parts of a node add up to.
NetOf(used, n, a) ==
    SumFunction([k \in PartRows(m, used, n, a) |-> m[k].role * m[k].value])

\* Rows that carry a reading, as the row of a part or as a row of the table.
CarriesPart(s, i) == s.block = "part" /\ s.id = i /\ s.part = RolePart(m[i])
CarriesNet(s, used, i, n, a) ==
    s.block = "data" /\ s.id = i /\ (m[i].role # 0 => s.value = NetOf(used, n, a))

LEMMA AxisOfKind == \A a \in Axes : AxisOf(InjKind[a]) = a /\ InjKind[a] \in InjectionKinds
BY DEF AxisOf, InjKind, InjectionKinds, Axes

LEMMA NoAxisIsKind == \A a \in Axes : a \notin InjectionKinds
BY DEF InjectionKinds, Axes

(* The rows of the solver that carry the id of a reading come from its rows.  *)
LEMMA OutOfRows ==
    ASSUME NEW used, used \subseteq Nat \ {0}, NEW sn, NEW i \in used
    PROVE  OutOf(used, sn, i) =
               UNION {ReduceRow(Setup(used).rows, Setup(used).vars, sn, r) : r \in RowsOf(used, i)}
<1> DEFINE rows == Setup(used).rows
           boxVars == Setup(used).vars
<1>1. ASSUME NEW s \in OutOf(used, sn, i)
      PROVE  \E r \in RowsOf(used, i) : s \in ReduceRow(rows, boxVars, sn, r)
  <2>1. PICK r \in rows : s \in ReduceRow(rows, boxVars, sn, r) /\ s.id = i
    BY DEF OutOf, ReduceRows
  <2>2. r.id = i /\ r.id # 0
    BY <2>1, ReducedShape
  <2>3. \A n, a : r # BalanceOf(used, n, a)
    BY <2>2 DEF BalanceOf
  <2>4. PICK j \in used : r \in RowsOf(used, j)
    <3>1. \/ \E j \in used : r \in RowsOf(used, j)
          \/ r.id = 0
          \/ \E n \in Buses(nodes), a \in Axes : r = BalanceOf(used, n, a)
      BY <2>1, SetupRows
    <3>2. QED
      BY <2>2, <2>3, <3>1
  <2>5. QED
    BY <2>1, <2>2, <2>4, RowsOfShape
<1>2. ASSUME NEW r \in RowsOf(used, i), NEW s \in ReduceRow(rows, boxVars, sn, r)
      PROVE  s \in OutOf(used, sn, i)
  <2>1. r \in rows /\ r.id = i
    BY SetupRows, RowsOfShape
  <2>2. s.id = i
    BY <2>1, ReducedShape
  <2>3. QED
    BY <2>1, <2>2 DEF OutOf, ReduceRows
<1> HIDE DEF rows, boxVars
<1>3. QED
  BY <1>1, <1>2 DEF rows, boxVars

\* A data row of an injection is carried on, unless it is lost.
LEMMA DataOut ==
    ASSUME NEW used, used \subseteq Nat \ {0}, NEW sn, NEW n, NEW a \in Axes, NEW i \in used,
           m[i].kind = InjKind[a], m[i].obj = n, NEW r, RowsOf(used, i) = {r}, r.block = "data"
    PROVE  /\ LostAt(used, sn, n, a) => OutOf(used, sn, i) = {}
           /\ LostAt(used, sn, n, a) \/
                 \E s : OutOf(used, sn, i) = {s} /\ s.block = "data" /\ s.id = i /\ s.value = r.value
<1>1. r.kind = InjKind[a] /\ r.obj = n /\ r.id = i
  BY RowsOfShape
<1> DEFINE rows == Setup(used).rows
           boxVars == Setup(used).vars
<1>2. OutOf(used, sn, i) = ReduceRow(rows, boxVars, sn, r)
  <2>1. OutOf(used, sn, i) = UNION {ReduceRow(rows, boxVars, sn, q) : q \in {r}}
    BY OutOfRows
  <2> HIDE DEF rows, boxVars
  <2>2. QED
    BY <2>1
<1>3. AxisOf(r.kind) = a /\ r.kind \in InjectionKinds
  BY <1>1, AxisOfKind
<1>4. IsMemberInjection(sn, r) <=> IsMerged(sn, n)
  BY <1>1, <1>3 DEF IsMemberInjection
<1>5. CASE LostAt(used, sn, n, a)
  BY <1>1, <1>2, <1>3, <1>4, <1>5 DEF ReduceRow, LostAt
<1>6. CASE ~LostAt(used, sn, n, a)
  <2>1. \E s : ReduceRow(rows, boxVars, sn, r) = {s}
    BY <1>1, <1>3, <1>4, <1>6 DEF ReduceRow, LostAt
  <2>2. PICK s : ReduceRow(rows, boxVars, sn, r) = {s}
    BY <2>1
  <2>3. s.block = "data" /\ s.id = i /\ s.value = r.value
    BY <1>1, <2>2, ReducedShape
  <2>4. QED
    BY <1>2, <1>6, <2>2, <2>3
<1>7. QED
  BY <1>5, <1>6

(* With the roles: where the parts of a node are measured they stand for all  *)
(* of its readings, else the net readings do, and without any the sum.        *)
LEMMA PlannedOut ==
    ASSUME NEW used, used \subseteq Nat \ {0}, NEW sn, NEW n, NEW a \in Axes, Roles, NEW i \in used,
           m[i].kind = InjKind[a], m[i].obj = n
    PROVE  LET splits == Splits(m, used, BoxVars(nodes, cfg), n, a)
               stands == m[i].role = 0 \/ IsFolded(m, used, BoxVars(nodes, cfg), i, n, a)
               lost == LostAt(used, sn, n, a)
               out == OutOf(used, sn, i)
           IN /\ splits /\ m[i].role = 0 => out = {}
              /\ splits /\ m[i].role # 0 => \E s : out = {s} /\ CarriesPart(s, i)
              /\ ~splits /\ lost => out = {}
              /\ ~splits /\ ~lost /\ stands => \E s : out = {s} /\ CarriesNet(s, used, i, n, a)
              /\ ~splits /\ ~stands => out = {}
<1> DEFINE parts == PartRows(m, used, n, a)
           boxVars == BoxVars(nodes, cfg)
           out == OutOf(used, sn, i)
           d == DataRow(m[i], i)
           p == [d EXCEPT !.block = "part", !.kind = a, !.part = RolePart(m[i])]
           v == SumFunction([k \in parts |-> m[k].role * m[k].value])
           w == SumFunction([k \in parts |-> m[k].var])
           f == [d EXCEPT !.value = v, !.var = w]
<1>1. RowsOf(used, i) = InjectionRows(m, used, boxVars, i, a)
  BY AxisOfKind DEF RowsOf
<1>2. InjectionRows(m, used, boxVars, i, a) =
        IF m[i].role = 0 THEN IF Splits(m, used, boxVars, n, a) THEN {} ELSE {d}
        ELSE IF Splits(m, used, boxVars, n, a) THEN {p}
        ELSE IF IsFolded(m, used, boxVars, i, n, a) THEN {f} ELSE {}
  BY Zenon DEF InjectionRows
<1>3. RowsOf(used, i) = {} => out = {}
  <2>1. out = UNION {ReduceRow(Setup(used).rows, Setup(used).vars, sn, r) : r \in RowsOf(used, i)}
    BY OutOfRows
  <2>2. QED
    BY <2>1
<1>4. d.block = "data"
  BY DEF DataRow
<1>5. f.block = "data" /\ f.value = v
  <2> HIDE DEF v, w
  <2>1. QED
    BY DEF DataRow
<1>6. p.block = "part" /\ p.id = i /\ p.part = RolePart(m[i])
  BY DEF DataRow
<1>7. ASSUME RowsOf(used, i) = {p}
      PROVE  \E s : out = {s} /\ s.block = "part" /\ s.id = i /\ s.part = RolePart(m[i])
  <2> HIDE DEF p, d
  <2>1. out = ReduceRow(Setup(used).rows, Setup(used).vars, sn, p)
    BY <1>7, OutOfRows
  <2>2. ReduceRow(Setup(used).rows, Setup(used).vars, sn, p) = {Plain(p)}
    BY <1>6 DEF ReduceRow, IsMemberInjection
  <2>3. Plain(p).block = "part" /\ Plain(p).id = i /\ Plain(p).part = RolePart(m[i])
    BY <1>6 DEF Plain
  <2>4. QED
    BY <2>1, <2>2, <2>3
<1> HIDE DEF p, d, f, v, w, out, parts, boxVars
<1>8. CASE Splits(m, used, boxVars, n, a)
  BY <1>1, <1>2, <1>3, <1>7, <1>8 DEF out, parts, boxVars, CarriesPart
<1>9. CASE ~Splits(m, used, boxVars, n, a) /\ (m[i].role = 0 \/ IsFolded(m, used, boxVars, i, n, a))
  <2>1. CASE m[i].role = 0
    <3>1. RowsOf(used, i) = {d}
      BY <1>1, <1>2, <1>9, <2>1
    <3>2. /\ LostAt(used, sn, n, a) => out = {}
          /\ LostAt(used, sn, n, a) \/ \E s : out = {s} /\ s.block = "data" /\ s.id = i /\ s.value = d.value
      BY <1>4, <3>1, DataOut DEF out
    <3>3. QED
      BY <1>9, <2>1, <3>2 DEF out, parts, boxVars, CarriesNet
  <2>2. CASE m[i].role # 0
    <3>1. RowsOf(used, i) = {f}
      BY <1>1, <1>2, <1>9, <2>2
    <3>2. /\ LostAt(used, sn, n, a) => out = {}
          /\ LostAt(used, sn, n, a) \/ \E s : out = {s} /\ s.block = "data" /\ s.id = i /\ s.value = f.value
      <4>1. f.block = "data"
        BY <1>5
      <4>2. QED
        BY <3>1, <4>1, DataOut DEF out
    <3>3. /\ LostAt(used, sn, n, a) => out = {}
          /\ LostAt(used, sn, n, a) \/ \E s : out = {s} /\ s.block = "data" /\ s.id = i /\ s.value = v
      BY <1>5, <3>2
    <3>4. QED
      BY <1>9, <2>2, <3>3 DEF out, parts, boxVars, v, NetOf, CarriesNet
  <2>3. QED
    BY <2>1, <2>2
<1>10. CASE ~Splits(m, used, boxVars, n, a) /\ ~(m[i].role = 0 \/ IsFolded(m, used, boxVars, i, n, a))
  BY <1>1, <1>2, <1>3, <1>10 DEF out, parts, boxVars
<1>11. QED
  BY <1>8, <1>9, <1>10

\* Without the roles a reading stands as it is.
LEMMA PlainOut ==
    ASSUME NEW used, used \subseteq Nat \ {0}, NEW sn, NEW n, NEW a \in Axes, ~Roles, NEW i \in used,
           m[i].kind = InjKind[a], m[i].obj = n
    PROVE  /\ LostAt(used, sn, n, a) => OutOf(used, sn, i) = {}
           /\ LostAt(used, sn, n, a) \/ \E s : OutOf(used, sn, i) = {s} /\ s.block = "data" /\ s.id = i
<1> DEFINE d == DataRow(m[i], i)
<1>1. RowsOf(used, i) = {d} /\ d.block = "data"
  BY DEF RowsOf, DataRow
<1> HIDE DEF d
<1>2. QED
  BY <1>1, DataOut

-----------------------------------------------------------------------------
(* Least numbers                                                              *)

(* The relation of the library is the order of the naturals.                  *)
LEMMA LessIsLess == \A y, z \in Nat : <<y, z>> \in OpToRel(<, Nat) <=> y < z
BY DEF OpToRel

(* A nonempty set of naturals has a least member.                             *)
LEMMA LeastNumber ==
    ASSUME NEW T, T \subseteq Nat, T # {}
    PROVE  \E x \in T : \A y \in T : x <= y
<1> DEFINE R == OpToRel(<, Nat)
<1>1. IsWellFoundedOn(R, Nat)
  BY NatLessThanWellFounded
<1>2. \A y, z \in Nat : <<y, z>> \in R <=> y < z
  BY LessIsLess
<1> HIDE DEF R
<1>3. T \subseteq Nat /\ T # {}
  OBVIOUS
<1>4. \E x \in T : \A y \in T : ~(<<y, x>> \in R)
  BY <1>1, <1>3, WFMin
<1>5. PICK x \in T : \A y \in T : ~(<<y, x>> \in R)
  BY <1>4
<1>6. ASSUME NEW y \in T PROVE x <= y
  <2>1. x \in Nat /\ y \in Nat /\ ~(<<y, x>> \in R)
    BY <1>5
  <2>2. QED
    BY <1>2, <2>1
<1>7. QED
  BY <1>6

LEMMA LeastIsMember ==
    ASSUME NEW T, T \subseteq Nat, T # {}
    PROVE  Min(T) \in T
BY LeastNumber DEF Min

-----------------------------------------------------------------------------
(* The readings of an injection                                               *)

ReadingsIn(p, t, n, a) == {i \in p.used : t[i].kind = InjKind[a] /\ t[i].obj = n}

\* What ReadingsEnterOnce says of the readings of a bus, and of its balance.
OnceAt(p, t, c, n, a) ==
    LET ids == ReadingsIn(p, t, n, a)
        parts == {i \in ids : t[i].role # 0 /\ c.roles /\ c.alg # "wls"}
        rows == {r \in p.solved : r.id \in ids}
        own == {r \in rows : r.block = "part"}
    IN /\ \A i \in ids : Cardinality({r \in rows : r.id = i}) <= 1
       /\ own # {} => /\ own = rows /\ {r.id : r \in own} = parts
                      /\ \A r \in own : <<n, r.part, a>> \in DOMAIN p.setup.vars
       /\ own = {} /\ rows # {} =>
             IF parts # ids THEN {r.id : r \in rows} = ids \ parts
             ELSE /\ Cardinality(rows) = 1
                  /\ \A r \in rows : r.value = SumFunction([i \in parts |-> t[i].role * t[i].value])
       /\ ids # {} /\ rows = {} => IsMerged(p.sn, n) /\ ~HasBox(p.setup.vars, n, a)

LEMMA AssembledOnce ==
    ASSUME NEW used, used \subseteq Nat \ {0}, NEW sn, NEW p, p.used = used, p.sn = sn, p.setup = Setup(used),
           p.solved = ReduceRows(Setup(used).rows, Setup(used).vars, sn),
           NEW n, NEW a \in Axes
    PROVE  OnceAt(p, m, cfg, n, a)
<1> DEFINE ids == ReadingsIn(p, m, n, a)
           parts == {i \in ids : m[i].role # 0 /\ cfg.roles /\ cfg.alg # "wls"}
           rows == {r \in p.solved : r.id \in ids}
           own == {r \in rows : r.block = "part"}
           out(i) == OutOf(used, sn, i)
           sum == SumFunction([i \in parts |-> m[i].role * m[i].value])
<1>1. /\ ids = {i \in used : m[i].kind = InjKind[a] /\ m[i].obj = n}
      /\ \A i \in ids : i \in used /\ m[i].kind = InjKind[a] /\ m[i].obj = n
  BY DEF ReadingsIn
<1>2. rows = UNION {out(i) : i \in ids} /\ \A i \in ids : \A r \in out(i) : r.id = i
  BY DEF OutOf
<1>3. \A i \in ids : {r \in rows : r.id = i} = out(i)
  BY DEF OutOf
<1> DEFINE splits == Splits(m, used, BoxVars(nodes, cfg), n, a)
           folded(i) == IsFolded(m, used, BoxVars(nodes, cfg), i, n, a)
           lost == LostAt(used, sn, n, a)
<1>11. ASSUME Roles, NEW i \in ids
       PROVE  /\ splits /\ m[i].role = 0 => out(i) = {}
              /\ splits /\ m[i].role # 0 => \E s : out(i) = {s} /\ CarriesPart(s, i)
              /\ ~splits /\ lost => out(i) = {}
              /\ ~splits /\ ~lost /\ (m[i].role = 0 \/ folded(i)) =>
                    \E s : out(i) = {s} /\ CarriesNet(s, used, i, n, a)
              /\ ~splits /\ ~(m[i].role = 0 \/ folded(i)) => out(i) = {}
  <2>1. i \in used /\ m[i].kind = InjKind[a] /\ m[i].obj = n
    BY <1>1
  <2> HIDE DEF ids, parts, rows, own, sum
  <2>2. QED
    BY <1>11, <2>1, PlannedOut
<1>12. ASSUME ~Roles, NEW i \in ids
       PROVE  /\ lost => out(i) = {}
              /\ lost \/ \E s : out(i) = {s} /\ s.block = "data" /\ s.id = i
  <2>1. i \in used /\ m[i].kind = InjKind[a] /\ m[i].obj = n
    BY <1>1
  <2> HIDE DEF ids
  <2>2. QED
    BY <1>12, <2>1, PlainOut
<1>4. \A i \in ids : out(i) = {} \/ \E s : out(i) = {s}
  <2> HIDE DEF ids, out, splits, folded, lost
  <2>1. QED
    BY <1>11, <1>12
<1>5. \A i \in ids : Cardinality({r \in rows : r.id = i}) <= 1
  <2> SUFFICES ASSUME NEW i \in ids PROVE Cardinality(out(i)) <= 1
    BY <1>3
  <2> HIDE DEF out, ids
  <2>1. CASE out(i) = {}
    BY <2>1, FS_EmptySet
  <2>2. CASE \E s : out(i) = {s}
    <3>1. PICK s : out(i) = {s}
      BY <2>2
    <3>2. Cardinality(out(i)) = 1
      BY <3>1, FS_Singleton, Zenon
    <3>3. QED
      BY <3>2
  <2>3. QED
    BY <1>4, <2>1, <2>2
\* The parts of the node stand for its readings.
<1>6. CASE Roles /\ Splits(m, used, BoxVars(nodes, cfg), n, a)
  <2>1. \A i \in ids : /\ m[i].role = 0 => out(i) = {}
                       /\ m[i].role # 0 => \E s : out(i) = {s} /\ CarriesPart(s, i)
    BY <1>6, <1>11
  <2>2. parts = {i \in ids : m[i].role # 0} /\ parts = PartRows(m, used, n, a)
    BY <1>1, <1>6 DEF Roles, PartRows
  <2>3. parts # {} /\ \A i \in parts : <<n, RolePart(m[i]), a>> \in DOMAIN Setup(used).vars
    BY <1>6, <2>2, SetupVars DEF Splits, Roles
  <2> HIDE DEF ids, parts, out
  <2>4. parts \subseteq ids /\ \A i \in ids : i \notin parts => out(i) = {}
    BY <2>1, <2>2
  <2>5. \A i \in parts : \E s : out(i) = {s} /\ s.block = "part" /\ s.id = i /\ s.part = RolePart(m[i])
    BY <2>1, <2>2 DEF CarriesPart
  <2>6. \A r \in rows : \E i \in parts : out(i) = {r} /\ r.block = "part" /\ r.id = i /\ r.part = RolePart(m[i])
    BY <1>2, <2>4, <2>5
  <2>7. \A i \in parts : \E r \in rows : r.id = i
    BY <1>2, <2>4, <2>5
  <2> HIDE DEF rows
  <2>8. own = rows /\ {r.id : r \in own} = parts /\ rows # {}
    BY <2>3, <2>6, <2>7
  <2>9. \A r \in own : <<n, r.part, a>> \in DOMAIN p.setup.vars
    BY <2>3, <2>6
  <2>10. QED
    BY <1>5, <2>8, <2>9 DEF OnceAt, ids, parts, rows
\* They are lost with the boxes of the supernode.
<1>7. CASE ~(Roles /\ Splits(m, used, BoxVars(nodes, cfg), n, a)) /\ LostAt(used, sn, n, a)
  <2>1. \A i \in ids : out(i) = {}
    <3> SUFFICES ASSUME NEW i \in ids PROVE out(i) = {}
      OBVIOUS
    <3>1. CASE Roles
      BY <1>1, <1>7, <3>1, PlannedOut
    <3>2. CASE ~Roles
      BY <1>1, <1>7, <3>2, PlainOut
    <3>3. QED
      BY <3>1, <3>2
  <2>2. rows = {}
    BY <1>2, <2>1
  <2>3. QED
    BY <1>5, <1>7, <2>2 DEF OnceAt, LostAt
\* Without the roles every reading stands as it is.
<1>8. CASE ~Roles /\ ~LostAt(used, sn, n, a)
  <2>1. \A i \in ids : \E s : out(i) = {s} /\ s.block = "data" /\ s.id = i
    BY <1>1, <1>8, PlainOut
  <2>2. parts = {}
    BY <1>8 DEF Roles
  <2> HIDE DEF ids, parts, out
  <2>3. \A r \in rows : r.block = "data" /\ r.id \in ids
    BY <1>2, <2>1
  <2>4. \A i \in ids : \E r \in rows : r.id = i
    BY <1>2, <2>1
  <2> HIDE DEF rows
  <2>5. own = {} /\ {r.id : r \in rows} = ids /\ (rows = {} <=> ids = {})
    BY <2>3, <2>4
  <2>6. QED
    BY <1>5, <2>2, <2>5 DEF OnceAt, ids, parts, rows
\* The net readings, or the sum of the parts.
<1>9. CASE Roles /\ ~Splits(m, used, BoxVars(nodes, cfg), n, a) /\ ~LostAt(used, sn, n, a)
  <2> DEFINE least == Min(parts)
  <2>1. parts = {i \in ids : m[i].role # 0} /\ parts = PartRows(m, used, n, a)
    BY <1>1, <1>9 DEF Roles, PartRows
  <2>2. ids \ parts = NetRows(m, used, n, a)
    BY <1>1, <2>1 DEF NetRows
  <2>3. \A i \in ids : folded(i) <=> ids \ parts = {} /\ i = least
    BY <1>9, <2>1, <2>2, Zenon DEF IsFolded
  <2>4. \A i \in ids : /\ m[i].role = 0 \/ folded(i) =>
                             \E s : out(i) = {s} /\ s.block = "data" /\ s.id = i /\ (m[i].role # 0 => s.value = sum)
                       /\ ~(m[i].role = 0 \/ folded(i)) => out(i) = {}
    <3>1. NetOf(used, n, a) = sum
      BY <2>1 DEF NetOf
    <3> HIDE DEF sum, ids, out, folded
    <3>2. QED
      BY <1>9, <1>11, <3>1 DEF CarriesNet
  <2> HIDE DEF ids, parts, out, sum, least, folded
  <2>5. CASE parts = ids
    <3>1. CASE ids = {}
      <4>1. rows = {}
        BY <1>2, <3>1
      <4>2. QED
        BY <1>5, <3>1, <4>1 DEF OnceAt, ids, rows
    <3>2. CASE ids # {}
      <4>1. least \in ids
        <5>1. parts \subseteq Nat
          BY <1>1, <2>5
        <5>2. QED
          BY <2>5, <3>2, <5>1, LeastIsMember DEF least
      <4>2. \A i \in ids : i # least => out(i) = {}
        BY <2>1, <2>3, <2>4, <2>5
      <4>3. PICK s : out(least) = {s} /\ s.block = "data" /\ s.value = sum
        BY <2>1, <2>3, <2>4, <2>5, <4>1
      <4>4. rows = {s}
        BY <1>2, <4>1, <4>2, <4>3
      <4> HIDE DEF rows
      <4>5. Cardinality(rows) = 1 /\ rows # {} /\ own = {}
        BY <4>3, <4>4, FS_Singleton
      <4>6. QED
        BY <1>5, <2>5, <4>3, <4>4, <4>5 DEF OnceAt, ids, parts, rows, sum
    <3>3. QED
      BY <3>1, <3>2
  <2>6. CASE parts # ids
    <3>1. ids \ parts # {} /\ parts \subseteq ids
      BY <2>1, <2>6
    <3>2. \A i \in ids : IF i \in parts THEN out(i) = {}
                         ELSE \E s : out(i) = {s} /\ s.block = "data" /\ s.id = i
      BY <2>1, <2>3, <2>4, <3>1
    <3>3. \A r \in rows : r.block = "data" /\ r.id \in ids \ parts
      BY <1>2, <3>2
    <3>4. \A i \in ids \ parts : \E r \in rows : r.id = i
      BY <1>2, <3>2
    <3> HIDE DEF rows
    <3>5. own = {} /\ {r.id : r \in rows} = ids \ parts /\ rows # {}
      BY <3>1, <3>3, <3>4
    <3>6. QED
      BY <1>5, <2>6, <3>5 DEF OnceAt, ids, parts, rows
  <2>7. QED
    BY <2>5, <2>6
<1>10. QED
  BY <1>6, <1>7, <1>8, <1>9

-----------------------------------------------------------------------------
(* The supernodes                                                             *)

\* The edges of a supernode join buses.
Joins(ns, br, edges) == \A b \in edges : br[b].from \in Buses(ns) /\ br[b].to \in Buses(ns)

LEMMA MergedJoin ==
    ASSUME NEW ns, NEW br, NEW limit
    PROVE  Joins(ns, br, MergedBranches(ns, br, limit))
BY DEF Joins, MergedBranches, Lines

\* Closed under the edges.
Closed(br, edges, S) == \A x \in S : Neighbours(br, edges, x) \subseteq S

LEMMA ClosedComplement ==
    ASSUME NEW ns, NEW br, NEW edges, Joins(ns, br, edges), NEW S, Closed(br, edges, S)
    PROVE  Closed(br, edges, Buses(ns) \ S)
BY DEF Closed, Neighbours, Joins

LEMMA JoinedBy ==
    ASSUME NEW ns, NEW br, NEW edges, NEW n
    PROVE  Joined(ns, br, edges, n) =
              {k \in Buses(ns) : \A S \in SUBSET Buses(ns) : n \in S /\ Closed(br, edges, S) => k \in S}
BY DEF Joined, Closed

\* To be joined is an equivalence: what is joined with a bus is joined with the same.
LEMMA JoinedAlike ==
    ASSUME NEW ns, NEW br, NEW edges, Joins(ns, br, edges), NEW n \in Buses(ns),
           NEW k \in Joined(ns, br, edges, n)
    PROVE  Joined(ns, br, edges, k) = Joined(ns, br, edges, n)
<1>1. k \in Buses(ns) /\ \A S \in SUBSET Buses(ns) : n \in S /\ Closed(br, edges, S) => k \in S
  BY JoinedBy
<1>2. ASSUME NEW S \in SUBSET Buses(ns), Closed(br, edges, S) PROVE k \in S <=> n \in S
  <2>1. Closed(br, edges, Buses(ns) \ S)
    BY <1>2, ClosedComplement
  <2>2. n \in Buses(ns) \ S => k \in Buses(ns) \ S
    BY <1>1, <2>1
  <2>3. QED
    BY <1>1, <1>2, <2>2
<1>3. QED
  BY <1>2, JoinedBy

LEMMA JoinedSelf ==
    ASSUME NEW ns, NEW br, NEW edges, NEW n \in Buses(ns)
    PROVE  n \in Joined(ns, br, edges, n) /\ Joined(ns, br, edges, n) \subseteq Buses(ns)
BY JoinedBy

(* The representative of a supernode is in it and represents itself.          *)
LEMMA Represented ==
    ASSUME NEW ns, DOMAIN ns \subseteq Nat, NEW br, NEW edges, Joins(ns, br, edges), NEW n \in Buses(ns)
    PROVE  LET rep == Supernodes(ns, br, edges).rep
           IN /\ DOMAIN rep = Buses(ns) /\ rep[n] \in Buses(ns) /\ rep[rep[n]] = rep[n]
              /\ rep[n] \in Joined(ns, br, edges, n)
<1> DEFINE rep == Supernodes(ns, br, edges).rep
           members == Joined(ns, br, edges, n)
<1>1. rep = [k \in Buses(ns) |-> Representative(ns, Joined(ns, br, edges, k))]
  BY DEF Supernodes
<1>2. members \subseteq Buses(ns) /\ n \in members /\ Buses(ns) \subseteq Nat
  BY JoinedSelf DEF Buses
<1>3. rep[n] \in members
  <2>1. Min(members) \in members
    BY <1>2, LeastIsMember
  <2> HIDE DEF rep
  <2>2. QED
    BY <1>1, <2>1 DEF Representative
<1>4. Joined(ns, br, edges, rep[n]) = members
  BY <1>3, JoinedAlike
<1> HIDE DEF rep
<1>5. QED
  BY <1>1, <1>2, <1>3, <1>4 DEF rep

-----------------------------------------------------------------------------
(* The balances                                                               *)

Some(s) == CHOOSE x \in s : TRUE

\* g sums f over every subset of D.
Sums(f, D, g) ==
    g = [s \in SUBSET D |-> IF s = {} THEN 0 ELSE f[Some(s)] + g[s \ {Some(s)}]]

LEMMA SumIsSums ==
    ASSUME NEW f
    PROVE  SumFunction(f) = (CHOOSE g : Sums(f, DOMAIN f, g))[DOMAIN f]
BY DEF SumFunction, SumFunctionOnSet, FoldFunctionOnSet, MapThenFoldSet, Sums, Some

\* A sum over one number is the number.
LEMMA SumOfOne ==
    ASSUME NEW f, NEW x, DOMAIN f = {x}, f[x] \in Int
    PROVE  SumFunction(f) = f[x]
<1> DEFINE one == [s \in SUBSET {x} |-> IF s = {} THEN 0 ELSE f[x]]
           G == CHOOSE g : Sums(f, {x}, g)
<1>1. Some({x}) = x
  BY DEF Some
<1>2. \A s \in SUBSET {x} : s = {} \/ s = {x}
  OBVIOUS
<1>3. one[{}] = 0 /\ f[x] + 0 = f[x] /\ {x} \ {x} = {} /\ {x} # {}
  OBVIOUS
<1>4. Sums(f, {x}, one)
  <2>1. \A s \in SUBSET {x} : one[s] = IF s = {} THEN 0 ELSE f[Some(s)] + one[s \ {Some(s)}]
    <3>1. one[{x}] = f[x]
      OBVIOUS
    <3> HIDE DEF one
    <3>2. QED
      BY <1>1, <1>2, <1>3, <3>1
  <2>2. one = [s \in SUBSET {x} |-> one[s]]
    OBVIOUS
  <2> HIDE DEF one
  <2>3. QED
    BY <2>1, <2>2 DEF Sums
<1>5. Sums(f, {x}, G)
  <2> HIDE DEF one
  <2>1. QED
    BY <1>4
<1> HIDE DEF one, G
<1>6. G[{}] = 0 /\ G[{x}] = f[x] + G[{}]
  BY <1>1, <1>3, <1>5 DEF Sums
<1>7. QED
  BY <1>3, <1>6, SumIsSums DEF G

BalanceAt(p, ns, c, n, a) ==
    LET carriers == {r \in p.solved : r.block = "balance" /\ r.kind = a /\ r.obj \in Members(p.sn, n)}
        given == [k \in Members(p.sn, n) |-> FixedInjection(ns[k], a, c)]
    IN /\ Cardinality(carriers) = 1
       /\ \A r \in carriers : r.value = SumFunction(given)

\* Only a row of the balance of a member becomes one of its supernode.
LEMMA BalanceRowsOf ==
    ASSUME NEW used, cfg.alg # "wls", NEW r \in Setup(used).rows, r.block = "balance"
    PROVE  \E n \in Buses(nodes), a \in Axes : r = BalanceOf(used, n, a)
BY SetupRows, RowsOfShape

LEMMA BalanceShape ==
    ASSUME NEW used, NEW n, NEW a
    PROVE  LET b == BalanceOf(used, n, a)
           IN b.block = "balance" /\ b.kind = a /\ b.obj = n /\ b.value = FixedInjection(nodes[n], a, cfg)
BY DEF BalanceOf

(* The balance of a supernode adds up the fixed injections of its members.    *)
LEMMA SuperValue ==
    ASSUME NEW used, cfg.alg # "wls", NEW sn, DOMAIN sn.rep = Buses(nodes), NEW n \in Buses(nodes), NEW a \in Axes
    PROVE  SuperBalance(Setup(used).rows, sn, BalanceOf(used, n, a)).value =
              SumFunction([k \in Members(sn, n) |-> FixedInjection(nodes[k], a, cfg)])
<1> DEFINE rows == Setup(used).rows
           r == BalanceOf(used, n, a)
           parts == {b \in rows : b.block = "balance" /\ b.kind = a /\ b.obj \in Members(sn, n)}
           of(k) == CHOOSE b \in parts : b.obj = k
<1>1. SuperBalance(rows, sn, r).value = SumFunction([k \in Members(sn, n) |-> of(k).value])
  BY BalanceShape, SMT DEF SuperBalance, Plain
<1>2. ASSUME NEW k \in Members(sn, n) PROVE of(k).value = FixedInjection(nodes[k], a, cfg)
  <2>1. k \in Buses(nodes)
    BY DEF Members
  <2>2. BalanceOf(used, k, a) \in parts
    <3>1. BalanceOf(used, k, a) \in rows
      BY <2>1, SetupRows
    <3>2. QED
      BY <3>1, BalanceShape
  <2>3. ASSUME NEW b \in parts, b.obj = k PROVE b = BalanceOf(used, k, a)
    <3>1. b \in rows /\ b.block = "balance" /\ b.kind = a
      OBVIOUS
    <3>2. PICK l \in Buses(nodes), x \in Axes : b = BalanceOf(used, l, x)
      BY <3>1, BalanceRowsOf
    <3>3. QED
      BY <2>3, <3>1, <3>2, BalanceShape
  <2>4. of(k) = BalanceOf(used, k, a)
    <3>1. BalanceOf(used, k, a).obj = k
      BY BalanceShape
    <3> HIDE DEF parts
    <3>2. QED
      BY <2>2, <2>3, <3>1
  <2> HIDE DEF of, parts
  <2>5. QED
    BY <2>4, BalanceShape
<1>3. [k \in Members(sn, n) |-> of(k).value] = [k \in Members(sn, n) |-> FixedInjection(nodes[k], a, cfg)]
  <2> HIDE DEF of
  <2>1. QED
    BY <1>2
<1>4. QED
  BY <1>1, <1>3

LEMMA AlikeMembers ==
    ASSUME NEW sn, NEW n \in DOMAIN sn.rep, NEW k \in Members(sn, n)
    PROVE  Members(sn, k) = Members(sn, n)
BY DEF Members

LEMMA FixedIsNumber ==
    ASSUME NEW node, node.input \in [Parts -> [Axes -> Int]], NEW a \in Axes, NEW c
    PROVE  FixedInjection(node, a, c) \in Int
<1>1. node.input["gen"][a] \in Int /\ node.input["load"][a] \in Int
  BY DEF Parts
<1>2. PartSign["gen"] = 1 /\ PartSign["load"] = -1
  BY DEF PartSign
<1>3. QED
  BY <1>1, <1>2 DEF FixedInjection

(* Every bus has one balance per axis, alone or within its supernode.         *)
LEMMA AssembledBalance ==
    ASSUME NEW used, NEW sn, NEW p, p.sn = sn, p.setup = Setup(used),
           p.solved = ReduceRows(Setup(used).rows, Setup(used).vars, sn), cfg.alg # "wls",
           IsFiniteSet(Buses(nodes)), DOMAIN sn.rep = Buses(nodes),
           NEW n \in Buses(nodes), NEW a \in Axes, nodes[n].input \in [Parts -> [Axes -> Int]],
           sn.rep[n] \in Buses(nodes), sn.rep[sn.rep[n]] = sn.rep[n]
    PROVE  BalanceAt(p, nodes, cfg, n, a)
<1> DEFINE rows == Setup(used).rows
           boxVars == Setup(used).vars
           carriers == {r \in p.solved : r.block = "balance" /\ r.kind = a /\ r.obj \in Members(sn, n)}
           own(k) == ReduceRow(rows, boxVars, sn, BalanceOf(used, k, a))
           sum == SumFunction([k \in Members(sn, n) |-> FixedInjection(nodes[k], a, cfg)])
           rep == sn.rep[n]
<1>1. n \in Members(sn, n) /\ rep \in Members(sn, n) /\ Members(sn, n) \subseteq Buses(nodes)
  BY DEF Members
<1>2. carriers = UNION {own(k) : k \in Members(sn, n)}
  <2>1. ASSUME NEW s \in carriers PROVE \E k \in Members(sn, n) : s \in own(k)
    <3>1. PICK r \in rows : s \in ReduceRow(rows, boxVars, sn, r)
      BY DEF ReduceRows
    <3>2. r.block = "balance" /\ r.kind = a /\ r.obj \in Members(sn, n)
      BY <3>1, ReducedShape
    <3>3. PICK k \in Buses(nodes), b \in Axes : r = BalanceOf(used, k, b)
      BY <3>2, BalanceRowsOf
    <3>4. k \in Members(sn, n) /\ b = a
      BY <3>2, <3>3, BalanceShape
    <3>5. QED
      BY <3>1, <3>3, <3>4
  <2>2. ASSUME NEW k \in Members(sn, n), NEW s \in own(k) PROVE s \in carriers
    <3>1. BalanceOf(used, k, a) \in rows
      BY <1>1, <2>2, SetupRows
    <3>2. s \in p.solved
      BY <2>2, <3>1 DEF ReduceRows
    <3>3. s.block = "balance" /\ s.kind = a /\ s.obj = k
      BY <2>2, ReducedShape, BalanceShape
    <3>4. QED
      BY <2>2, <3>2, <3>3
  <2> HIDE DEF carriers, own
  <2>3. QED
    BY <2>1, <2>2
<1>3. \E s : carriers = {s} /\ s.value = sum
  <2>1. CASE IsMerged(sn, n)
    <3>1. \A k \in Members(sn, n) : IsMerged(sn, k) /\ sn.rep[k] = rep
      BY <1>1, <2>1, AlikeMembers DEF IsMerged, Members
    <3>2. \A k \in Members(sn, n) : k # rep => own(k) = {}
      BY <3>1, BalanceShape DEF ReduceRow
    <3>3. own(rep) = {SuperBalance(rows, sn, BalanceOf(used, rep, a))}
      BY <1>1, <3>1, BalanceShape DEF ReduceRow
    <3>4. SuperBalance(rows, sn, BalanceOf(used, rep, a)).value = sum
      <4>1. Members(sn, rep) = Members(sn, n)
        BY <1>1, AlikeMembers
      <4>2. QED
        BY <4>1, SuperValue
    <3> HIDE DEF carriers, own, sum, rows, rep
    <3>5. QED
      BY <1>1, <1>2, <3>2, <3>3, <3>4
  <2>2. CASE ~IsMerged(sn, n)
    <3>1. Members(sn, n) = {n}
      <4>1. IsFiniteSet(Members(sn, n)) /\ Cardinality(Members(sn, n)) \in Nat
        BY <1>1, FS_Subset, FS_CardinalityType
      <4>2. Cardinality(Members(sn, n)) # 0
        BY <1>1, <4>1, FS_EmptySet
      <4>3. Cardinality(Members(sn, n)) = 1
        <5>1. \A q \in Nat : q # 0 /\ ~(q > 1) => q = 1
          OBVIOUS
        <5>2. ~(Cardinality(Members(sn, n)) > 1)
          BY <2>2 DEF IsMerged
        <5>3. QED
          BY <4>1, <4>2, <5>1, <5>2
      <4>4. PICK x : Members(sn, n) = {x}
        <5>1. \E x : Members(sn, n) = {x}
          BY <4>1, <4>3, FS_Singleton, Zenon
        <5>2. QED
          BY <5>1
      <4>5. QED
        BY <1>1, <4>4
    <3>2. own(n) = {Plain(BalanceOf(used, n, a))}
      BY <2>2, BalanceShape DEF ReduceRow, IsMemberInjection
    <3>3. Plain(BalanceOf(used, n, a)).value = FixedInjection(nodes[n], a, cfg)
      BY BalanceShape DEF Plain
    <3>4. sum = FixedInjection(nodes[n], a, cfg)
      <4> DEFINE f == [k \in {n} |-> FixedInjection(nodes[k], a, cfg)]
      <4>1. DOMAIN f = {n} /\ f[n] = FixedInjection(nodes[n], a, cfg)
        OBVIOUS
      <4>2. f[n] \in Int
        BY <4>1, FixedIsNumber
      <4>3. sum = SumFunction(f)
        BY <3>1
      <4> HIDE DEF f, sum
      <4>4. QED
        BY <4>1, <4>2, <4>3, SumOfOne
    <3> HIDE DEF carriers, own, sum
    <3>5. QED
      BY <1>2, <3>1, <3>2, <3>3, <3>4
  <2>3. QED
    BY <2>1, <2>2
<1>4. Cardinality(carriers) = 1 /\ \A r \in carriers : r.value = sum
  <2> HIDE DEF carriers, sum
  <2>1. QED
    BY <1>3, FS_Singleton
<1>5. QED
  BY <1>4 DEF BalanceAt

-----------------------------------------------------------------------------
(* Through the call                                                           *)

EnterOnce(p, t, ns, c) ==
    /\ \A n \in Buses(ns), a \in Axes : OnceAt(p, t, c, n, a)
    /\ c.alg # "wls" => \A n \in Buses(ns), a \in Axes : BalanceAt(p, ns, c, n, a)

\* The rows and nodes of a problem are those of the call.
EInv ==
    /\ case \in Cases
    /\ TablesAlike(case, m, nodes, branches)
    /\ prob # None =>
          /\ prob.used \subseteq DOMAIN case.rows /\ DOMAIN prob.sn.rep = Buses(case.nodes)
          /\ EnterOnce(prob, case.rows, case.nodes, cfg)

LEMMA EntersOnce ==
    ReadingsEnterOnce <=> prob = None \/ EnterOnce(prob, m, nodes, cfg)
BY Zenon DEF ReadingsEnterOnce, EnterOnce, OnceAt, BalanceAt, ReadingsIn, ReadingsOf, CarriersOf

\* Tables that differ in results enter alike.
LEMMA OnceAlike ==
    ASSUME NEW p, NEW t, NEW u, NEW c, NEW n, NEW a, OnceAt(p, t, c, n, a),
           \A i \in p.used : /\ t[i].kind = u[i].kind /\ t[i].obj = u[i].obj
                             /\ t[i].role = u[i].role /\ t[i].value = u[i].value
    PROVE  OnceAt(p, u, c, n, a)
<1> DEFINE ids(x) == ReadingsIn(p, x, n, a)
           parts(x) == {i \in ids(x) : x[i].role # 0 /\ c.roles /\ c.alg # "wls"}
           sum(x) == SumFunction([i \in parts(x) |-> x[i].role * x[i].value])
           rows(I) == {r \in p.solved : r.id \in I}
           own(I) == {r \in rows(I) : r.block = "part"}
           Once(I, P, s) ==
               /\ \A i \in I : Cardinality({r \in rows(I) : r.id = i}) <= 1
               /\ own(I) # {} => /\ own(I) = rows(I) /\ {r.id : r \in own(I)} = P
                                 /\ \A r \in own(I) : <<n, r.part, a>> \in DOMAIN p.setup.vars
               /\ own(I) = {} /\ rows(I) # {} =>
                     IF P # I THEN {r.id : r \in rows(I)} = I \ P
                     ELSE /\ Cardinality(rows(I)) = 1
                          /\ \A r \in rows(I) : r.value = s
               /\ I # {} /\ rows(I) = {} => IsMerged(p.sn, n) /\ ~HasBox(p.setup.vars, n, a)
<1>1. ids(t) = ids(u) /\ ids(t) \subseteq p.used
  BY DEF ReadingsIn
<1>2. parts(u) = parts(t)
  <2> HIDE DEF ids
  <2>1. QED
    BY <1>1
<1>3. sum(u) = sum(t)
  <2>1. \A i \in parts(t) : t[i].role * t[i].value = u[i].role * u[i].value
    BY <1>1
  <2> HIDE DEF parts
  <2>2. [i \in parts(t) |-> t[i].role * t[i].value] = [i \in parts(u) |-> u[i].role * u[i].value]
    BY <1>2, <2>1
  <2>3. QED
    BY <2>2, Zenon
<1>4. \A x : OnceAt(p, x, c, n, a) <=> Once(ids(x), parts(x), sum(x))
  BY Zenon DEF OnceAt
<1> HIDE DEF Once, ids, parts, sum
<1>5. QED
  BY <1>1, <1>2, <1>3, <1>4

LEMMA BalanceAlike ==
    ASSUME NEW p, NEW ns, NEW nt, NEW c, NEW n, NEW a, BalanceAt(p, ns, c, n, a),
           \A k \in DOMAIN p.sn.rep : ns[k].gen = nt[k].gen /\ ns[k].load = nt[k].load /\ ns[k].input = nt[k].input
    PROVE  BalanceAt(p, nt, c, n, a)
<1> DEFINE given(x) == [k \in Members(p.sn, n) |-> FixedInjection(x[k], a, c)]
<1>1. ASSUME NEW k \in Members(p.sn, n) PROVE FixedInjection(ns[k], a, c) = FixedInjection(nt[k], a, c)
  <2>1. ns[k].gen = nt[k].gen /\ ns[k].load = nt[k].load /\ ns[k].input = nt[k].input
    BY DEF Members
  <2>2. QED
    BY <2>1 DEF FixedInjection
<1>2. given(ns) = given(nt)
  BY <1>1
<1> HIDE DEF given
<1>3. \A x : BalanceAt(p, x, c, n, a) <=>
         LET carriers == {r \in p.solved : r.block = "balance" /\ r.kind = a /\ r.obj \in Members(p.sn, n)}
         IN Cardinality(carriers) = 1 /\ \A r \in carriers : r.value = SumFunction(given(x))
  BY Zenon DEF BalanceAt, given
<1>4. QED
  BY <1>2, <1>3

\* The problem is of tables like those of the call.
LEMMA EnterAlike ==
    ASSUME NEW p, NEW t, NEW u, NEW ns, NEW nt, NEW c, EnterOnce(p, t, ns, c),
           \A i \in p.used : /\ t[i].kind = u[i].kind /\ t[i].obj = u[i].obj
                        /\ t[i].role = u[i].role /\ t[i].value = u[i].value,
           Buses(ns) = Buses(nt), DOMAIN p.sn.rep = Buses(ns),
           \A k \in Buses(ns) : ns[k].gen = nt[k].gen /\ ns[k].load = nt[k].load /\ ns[k].input = nt[k].input
    PROVE  EnterOnce(p, u, nt, c)
<1>1. ASSUME NEW n \in Buses(nt), NEW a \in Axes PROVE OnceAt(p, u, c, n, a)
  <2>1. OnceAt(p, t, c, n, a)
    BY <1>1 DEF EnterOnce
  <2>2. QED
    BY <2>1, OnceAlike
<1>2. ASSUME c.alg # "wls", NEW n \in Buses(nt), NEW a \in Axes PROVE BalanceAt(p, nt, c, n, a)
  <2>1. BalanceAt(p, ns, c, n, a)
    BY <1>2 DEF EnterOnce
  <2>2. QED
    BY <2>1, BalanceAlike
<1>3. QED
  BY <1>1, <1>2 DEF EnterOnce

\* The tables and those of the call, either way.
LEMMA CallAlike ==
    ASSUME TablesAlike(case, m, nodes, branches), NEW p, p.used \subseteq DOMAIN case.rows,
           DOMAIN p.sn.rep = Buses(case.nodes)
    PROVE  EnterOnce(p, m, nodes, cfg) <=> EnterOnce(p, case.rows, case.nodes, cfg)
<1>1. Buses(nodes) = Buses(case.nodes)
  BY SameLines
<1>2. \A i \in p.used : /\ m[i].kind = case.rows[i].kind /\ m[i].obj = case.rows[i].obj
                         /\ m[i].role = case.rows[i].role /\ m[i].value = case.rows[i].value
  BY DEF TablesAlike, RowsLike, RowLike
<1>3. \A k \in Buses(nodes) : /\ nodes[k].gen = case.nodes[k].gen /\ nodes[k].load = case.nodes[k].load
                              /\ nodes[k].input = case.nodes[k].input
  BY <1>1 DEF TablesAlike, NodesLike, NodeLike, Buses
<1>4. ASSUME EnterOnce(p, m, nodes, cfg) PROVE EnterOnce(p, case.rows, case.nodes, cfg)
  <2> DEFINE t == case.rows
             ns == case.nodes
  <2>1. /\ Buses(nodes) = Buses(ns) /\ DOMAIN p.sn.rep = Buses(nodes)
        /\ \A i \in p.used : /\ m[i].kind = t[i].kind /\ m[i].obj = t[i].obj
                             /\ m[i].role = t[i].role /\ m[i].value = t[i].value
        /\ \A k \in Buses(nodes) : /\ nodes[k].gen = ns[k].gen /\ nodes[k].load = ns[k].load
                                   /\ nodes[k].input = ns[k].input
    BY <1>1, <1>2, <1>3
  <2> HIDE DEF t, ns
  <2>2. EnterOnce(p, t, ns, cfg)
    BY <1>4, <2>1, EnterAlike
  <2>3. QED
    BY <2>2 DEF t, ns
<1>5. ASSUME EnterOnce(p, case.rows, case.nodes, cfg) PROVE EnterOnce(p, m, nodes, cfg)
  <2>1. /\ \A i \in p.used : /\ case.rows[i].kind = m[i].kind /\ case.rows[i].obj = m[i].obj
                             /\ case.rows[i].role = m[i].role /\ case.rows[i].value = m[i].value
        /\ \A k \in Buses(case.nodes) :
              /\ case.nodes[k].gen = nodes[k].gen /\ case.nodes[k].load = nodes[k].load
              /\ case.nodes[k].input = nodes[k].input
    BY <1>1, <1>2, <1>3
  <2>2. QED
    BY <1>1, <1>5, <2>1, EnterAlike
<1>6. QED
  BY <1>4, <1>5

(* The assembled problem. *)
LEMMA AssembleEnters == EInv /\ Assemble => EInv'
<1> SUFFICES ASSUME EInv, Assemble PROVE EInv'
  OBVIOUS
<1>1. UNCHANGED <<case, m, nodes, branches>> /\ case \in Cases /\ TablesAlike(case, m, nodes, branches)
  BY DEF Assemble, tables, EInv
<1>2. CASE UNCHANGED prob
  BY <1>1, <1>2 DEF EInv, cfg
<1>3. CASE ~UNCHANGED prob
  <2> DEFINE edges == MergedBranches(nodes, branches, cfg.merge)
             lines == Lines(nodes, branches, edges)
             used == UsedRows(WithoutFlows(m, edges), nodes, lines)
             sn == Supernodes(nodes, branches, edges)
  <2>1. prob' = [lines |-> lines, sn |-> sn, used |-> used, setup |-> Setup(used),
                 solved |-> ReduceRows(Setup(used).rows, Setup(used).vars, sn)]
    BY <1>3 DEF Assemble, Setup
  <2>2. IsCase(case)
    BY <1>1, CasesAssumption
  <2>3. used \subseteq DOMAIN m /\ DOMAIN m = DOMAIN case.rows /\ DOMAIN case.rows \subseteq Nat \ {0}
    BY <1>1, <2>2 DEF UsedRows, WithoutFlows, TablesAlike, RowsLike, IsCase
  <2>4. /\ DOMAIN nodes \subseteq Nat /\ IsFiniteSet(DOMAIN nodes) /\ Buses(nodes) \subseteq DOMAIN nodes
        /\ \A k \in Buses(nodes) : nodes[k].input \in [Parts -> [Axes -> Int]]
    BY <1>1, <2>2 DEF TablesAlike, NodesLike, NodeLike, IsCase, Buses
  <2>5. Joins(nodes, branches, edges)
    BY MergedJoin
  <2> HIDE DEF edges, lines, used
  <2>6. ASSUME NEW n \in Buses(nodes)
        PROVE  /\ DOMAIN sn.rep = Buses(nodes) /\ sn.rep[n] \in Buses(nodes)
               /\ sn.rep[sn.rep[n]] = sn.rep[n]
    BY <2>4, <2>5, Represented
  <2>7. DOMAIN sn.rep = Buses(nodes)
    BY DEF Supernodes
  <2> HIDE DEF sn
  <2>8. /\ prob'.used = used /\ prob'.sn = sn /\ prob'.setup = Setup(used)
        /\ prob'.solved = ReduceRows(Setup(used).rows, Setup(used).vars, sn)
    BY <2>1
  <2>9. ASSUME NEW n \in Buses(nodes), NEW a \in Axes PROVE OnceAt(prob', m, cfg, n, a)
    <3>1. used \subseteq Nat \ {0}
      BY <2>3
    <3>2. QED
      BY <2>8, <3>1, AssembledOnce
  <2>10. ASSUME cfg.alg # "wls", NEW n \in Buses(nodes), NEW a \in Axes PROVE BalanceAt(prob', nodes, cfg, n, a)
    <3>1. IsFiniteSet(Buses(nodes))
      BY <2>4, FS_Subset
    <3>2. QED
      BY <2>4, <2>6, <2>7, <2>8, <2>10, <3>1, AssembledBalance
  <2>11. EnterOnce(prob', m, nodes, cfg)
    BY <2>9, <2>10 DEF EnterOnce
  <2>12. Buses(nodes) = Buses(case.nodes)
    BY <1>1, SameLines
  <2>13. EnterOnce(prob', case.rows, case.nodes, cfg)
    BY <1>1, <2>3, <2>7, <2>8, <2>11, <2>12, CallAlike
  <2>14. QED
    BY <1>1, <2>3, <2>7, <2>8, <2>12, <2>13 DEF EInv, cfg
<1>4. QED
  BY <1>2, <1>3

-----------------------------------------------------------------------------

\* What was assembled stays what the tables say.
LEMMA EntersStill ==
    ASSUME EInv, UNCHANGED <<case, prob>>, TablesAlike(case, m', nodes', branches')
    PROVE  EInv'
BY DEF EInv, cfg

LEMMA InitEnters == Init => EInv
BY TablesLike DEF Init, EstimateInit, EInv, TablesAlike

LEMMA EstimateEnters == EInv /\ EstimateNext => EInv'
<1> SUFFICES ASSUME EInv, EstimateNext PROVE EInv'
  OBVIOUS
<1>1. TablesAlike(case, m, nodes, branches)
  BY DEF EInv
<1>2. CASE Assemble
  BY <1>2, AssembleEnters
<1>3. CASE SolvePd \/ SolveIpm \/ SolveWls \/ Return
  <2>1. UNCHANGED <<case, m, nodes, branches, prob>>
    BY <1>3 DEF SolvePd, SolveIpm, SolveWls, Return, tables
  <2>2. QED
    BY <1>1, <2>1, EntersStill
<1>4. CASE WriteBoxes
  BY <1>1, <1>4, BoxesTables, EntersStill
<1>5. CASE WriteResults
  BY <1>1, <1>5, ResultsTables, EntersStill
<1>6. CASE WriteMeasurements
  BY <1>1, <1>6, MeasurementsTables, EntersStill
<1>7. CASE SplitWls
  BY <1>1, <1>7, SplitTables, EntersStill
<1>8. CASE Reconcile
  BY <1>1, <1>8, ReconcileTables, EntersStill
<1>9. QED
  BY <1>2, <1>3, <1>4, <1>5, <1>6, <1>7, <1>8 DEF EstimateNext

\* A removed reading keeps what it measured.
LEMMA RejectEnters == BInv /\ EInv /\ RejectWorst => EInv'
<1> SUFFICES ASSUME BInv, EInv, RejectWorst PROVE EInv'
  OBVIOUS
<1>1. Cleaning /\ UNCHANGED <<case, nodes, branches, prob>>
  BY DEF RejectWorst
<1>2. PICK bad \in Checked : /\ m' = [m EXCEPT ![bad].status = FALSE, ![bad].quality = Bad]
                             /\ removed' = Append(removed, bad)
  BY DEF RejectWorst
<1>3. TablesAlike(case, m', nodes', branches')
  BY <1>1, <1>2, DropOne
<1>4. QED
  BY <1>1, <1>3, EntersStill

LEMMA StepEnters == Inv /\ EInv /\ [Next]_vars => EInv'
<1> SUFFICES ASSUME Inv, EInv, [Next]_vars PROVE EInv'
  OBVIOUS
<1>1. CASE Solve
  BY <1>1, EstimateEnters DEF Solve
<1>2. CASE RejectWorst
  <2>1. caller = "bad data"
    BY <1>2 DEF RejectWorst, Cleaning
  <2>2. QED
    BY <1>2, <2>1, RejectEnters DEF Inv
<1>3. CASE RunTrials \/ EstimateFailed \/ TestPassed \/ UNCHANGED vars
  <2>1. UNCHANGED <<case, m, nodes, branches, prob>>
    BY <1>3 DEF RunTrials, EstimateFailed, TestPassed, StopCleaning, vars, evars
  <2>2. QED
    BY <2>1, EntersStill DEF EInv
<1>4. QED
  BY <1>1, <1>2, <1>3 DEF Next

(* A reading of an injection enters the estimate once, and so does the balance *)
(* of every bus, for any tables and any options: build_ipm_setup (ipm_setup.py *)
(* 293-400) splits, folds or keeps the readings, the reduction (supernodes.py  *)
(* 347-449) drops and sums rows of merged buses, and between the two nothing   *)
(* is counted twice or lost.                                                   *)
THEOREM ReadingsEnterAtOnce == Spec => []ReadingsEnterOnce
<1>1. Init => Inv /\ EInv
  BY InitInv, InitEnters
<1>2. Inv /\ EInv /\ [Next]_vars => (Inv /\ EInv)'
  BY InvStep, StepEnters
<1>3. EInv => ReadingsEnterOnce
  BY EntersOnce, CallAlike DEF EInv
<1>4. QED
  BY <1>1, <1>2, <1>3, PTL DEF Spec

(* A set of numbers with 0 and every successor of its members has them all.   *)
LEMMA InductiveSet ==
    ASSUME NEW T, 0 \in T, \A n \in Nat : n \in T => n + 1 \in T
    PROVE  Nat \subseteq T
<1> DEFINE U == {n \in Nat : n \notin T}
<1> SUFFICES ASSUME U # {} PROVE FALSE
  OBVIOUS
<1>1. PICK x \in U : \A y \in U : x <= y
  <2> HIDE DEF U
  <2>1. U \subseteq Nat
    BY DEF U
  <2>2. QED
    BY <2>1, LeastNumber
<1>2. x \in Nat /\ x # 0 /\ x - 1 \in Nat /\ x - 1 \notin U
  BY <1>1
<1>3. QED
  BY <1>1, <1>2

\* The voltages of some of the buses.
Scales(ns) == UNION {[D -> Int] : D \in SUBSET Buses(ns)}

\* What one step reaches.
Reached(br, forest, D) ==
    D \cup {br[b].to : b \in {c \in forest : br[c].from \in D /\ br[c].to \notin D}}
      \cup {br[b].from : b \in {c \in forest : br[c].to \in D /\ br[c].from \notin D}}

LEMMA OnwardReaches ==
    ASSUME NEW br, NEW forest, NEW s
    PROVE  DOMAIN Onward(br, forest, s) = Reached(br, forest, DOMAIN s)
BY DEF Onward, Reached

LEMMA OnwardTyped ==
    ASSUME NEW ns, NEW br, NEW forest, Joins(ns, br, forest), \A b \in forest : br[b].ratio \in Int,
           NEW s \in Scales(ns)
    PROVE  Onward(br, forest, s) \in Scales(ns)
<1> DEFINE ahead == {b \in forest : br[b].from \in DOMAIN s /\ br[b].to \notin DOMAIN s}
           back == {b \in forest : br[b].to \in DOMAIN s /\ br[b].from \notin DOMAIN s}
           into(b) == IF b \in ahead THEN br[b].to ELSE br[b].from
           by(n) == CHOOSE b \in ahead \cup back : into(b) = n
           new == DOMAIN s \cup {into(b) : b \in ahead \cup back}
           value(n) == IF n \in DOMAIN s THEN s[n]
                       ELSE IF by(n) \in ahead THEN s[br[by(n)].from] - br[by(n)].ratio
                       ELSE s[br[by(n)].to] + br[by(n)].ratio
<1>1. Onward(br, forest, s) = [n \in new |-> value(n)]
  BY DEF Onward
<1>2. DOMAIN s \subseteq Buses(ns) /\ s \in [DOMAIN s -> Int]
  BY DEF Scales
<1>3. new \subseteq Buses(ns)
  BY <1>2 DEF Joins
<1>4. ASSUME NEW n \in new PROVE value(n) \in Int
  <2>1. CASE n \in DOMAIN s
    BY <1>2, <2>1
  <2>2. CASE n \notin DOMAIN s
    <3>1. by(n) \in ahead \cup back
      <4>1. \E b \in ahead \cup back : into(b) = n
        BY <2>2
      <4> HIDE DEF ahead, back, into
      <4>2. QED
        BY <4>1
    <3> HIDE DEF by
    <3>2. QED
      BY <1>2, <2>2, <3>1
  <2>3. QED
    BY <2>1, <2>2
<1> HIDE DEF new, value
<1>5. QED
  BY <1>1, <1>3, <1>4 DEF Scales

\* w[k] is what k steps of the walk reach.
IsWalk(w, ns, br, forest, a, N) ==
    /\ w \in [0 .. N -> Scales(ns)] /\ w[0] = a
    /\ \A k \in 1 .. N : w[k] = Onward(br, forest, w[k - 1])

LEMMA WalkExists ==
    ASSUME NEW ns, NEW br, NEW forest, Joins(ns, br, forest), \A b \in forest : br[b].ratio \in Int,
           NEW a \in Scales(ns), NEW N \in Nat
    PROVE  \E w : IsWalk(w, ns, br, forest, a, N)
<1> DEFINE U == {n \in Nat : \E w : IsWalk(w, ns, br, forest, a, n)}
<1>1. 0 \in U
  <2>1. IsWalk([k \in 0 .. 0 |-> a], ns, br, forest, a, 0)
    BY DEF IsWalk
  <2>2. QED
    BY <2>1
<1>2. ASSUME NEW n \in Nat, n \in U PROVE n + 1 \in U
  <2>1. PICK w : IsWalk(w, ns, br, forest, a, n)
    BY <1>2
  <2> DEFINE g == [k \in 0 .. (n + 1) |-> IF k = n + 1 THEN Onward(br, forest, w[n]) ELSE w[k]]
  <2>2. w[n] \in Scales(ns)
    BY <2>1 DEF IsWalk
  <2>3. Onward(br, forest, w[n]) \in Scales(ns)
    BY <2>2, OnwardTyped
  <2>4. g \in [0 .. (n + 1) -> Scales(ns)] /\ g[0] = a
    BY <2>1, <2>3 DEF IsWalk
  <2>5. ASSUME NEW k \in 1 .. (n + 1) PROVE g[k] = Onward(br, forest, g[k - 1])
    <3>1. g[k - 1] = w[k - 1]
      OBVIOUS
    <3>2. CASE k = n + 1
      BY <3>1, <3>2
    <3>3. CASE k # n + 1
      <4>1. k \in 1 .. n /\ g[k] = w[k]
        BY <3>3
      <4>2. QED
        BY <2>1, <3>1, <4>1 DEF IsWalk
    <3>4. QED
      BY <3>2, <3>3
  <2> HIDE DEF g
  <2>6. IsWalk(g, ns, br, forest, a, n + 1)
    BY <2>4, <2>5 DEF IsWalk
  <2>7. QED
    BY <2>6
<1>3. Nat \subseteq U
  <2> HIDE DEF U
  <2>1. QED
    BY <1>1, <1>2, InductiveSet
<1>4. QED
  BY <1>3

\* The forest leads out of no more sets than the merged branches.
LEMMA ForestSpans ==
    ASSUME NEW ns, NEW br, NEW edges \in SUBSET Nat, Joins(ns, br, edges), NEW S \in SUBSET Buses(ns),
           Closed(br, Forest(ns, br, edges), S)
    PROVE  Closed(br, edges, S)
<1> DEFINE out(b) == ~(br[b].from \in S <=> br[b].to \in S)
           U == {b \in edges : out(b)}
<1>1. ASSUME U # {} PROVE FALSE
  <2>1. PICK b \in U : \A c \in U : b <= c
    <3> HIDE DEF U
    <3>1. U \subseteq Nat
      BY DEF U
    <3>2. QED
      BY <1>1, <3>1, LeastNumber
  <2> DEFINE before == {c \in edges : c < b}
  <2>2. b \in edges /\ b \in Nat /\ br[b].from \in Buses(ns) /\ br[b].to \in Buses(ns)
    BY <2>1 DEF Joins
  <2>3. \A c \in before : ~out(c)
    <3>1. \A c \in before : c \in edges /\ c \in Nat /\ ~(b <= c)
      BY <2>2
    <3>2. QED
      BY <2>1, <3>1
  <2>4. Joins(ns, br, before)
    BY DEF Joins
  <2>5. Closed(br, before, S)
    BY <2>3 DEF Closed, Neighbours
  <2>6. Closed(br, before, Buses(ns) \ S)
    BY <2>4, <2>5, ClosedComplement
  <2>7. b \notin Forest(ns, br, edges)
    BY <2>1 DEF Closed, Neighbours
  <2>8. br[b].to \in Joined(ns, br, before, br[b].from)
    BY <2>2, <2>7 DEF Forest
  <2> HIDE DEF before
  <2>9. br[b].from \in S => br[b].to \in S
    BY <2>5, <2>8, JoinedBy
  <2>10. br[b].from \in Buses(ns) \ S => br[b].to \in Buses(ns) \ S
    BY <2>6, <2>8, JoinedBy
  <2>11. QED
    BY <2>1, <2>2, <2>9, <2>10
<1>2. \A b \in edges : ~out(b)
  BY <1>1
<1>3. QED
  BY <1>2 DEF Closed, Neighbours

\* The branches of the forest within a set.
Within(br, forest, D) == {b \in forest : br[b].from \in D /\ br[b].to \in D}

LEMMA ClosedStays ==
    ASSUME NEW br, NEW forest, NEW D, Closed(br, forest, D)
    PROVE  Reached(br, forest, D) = D
BY DEF Closed, Neighbours, Reached

LEMMA OpenGrows ==
    ASSUME NEW br, NEW forest, IsFiniteSet(forest), NEW D, ~Closed(br, forest, D)
    PROVE  Cardinality(Within(br, forest, Reached(br, forest, D)))
              >= Cardinality(Within(br, forest, D)) + 1
<1> DEFINE old == Within(br, forest, D)
           new == Within(br, forest, Reached(br, forest, D))
<1>1. PICK b \in forest : ~(br[b].from \in D <=> br[b].to \in D)
  BY DEF Closed, Neighbours
<1>2. b \notin old /\ b \in new
  BY <1>1 DEF Within, Reached
<1>3. old \subseteq new /\ new \subseteq forest
  BY DEF Within, Reached
<1> HIDE DEF old, new
<1>4. IsFiniteSet(old) /\ IsFiniteSet(new)
  BY <1>3, FS_Subset
<1>5. old \cup {b} \subseteq new /\ IsFiniteSet(old \cup {b}) /\ Cardinality(old \cup {b}) = Cardinality(old) + 1
  BY <1>2, <1>3, <1>4, FS_AddElement
<1>6. Cardinality(old \cup {b}) <= Cardinality(new)
  BY <1>4, <1>5, FS_Subset
<1>7. QED
  BY <1>5, <1>6 DEF old, new

\* As many steps as there are branches are enough.
LEMMA WalkCloses ==
    ASSUME NEW ns, NEW br, NEW forest, IsFiniteSet(forest), NEW a, NEW N \in Nat,
           Cardinality(forest) <= N, NEW w, IsWalk(w, ns, br, forest, a, N)
    PROVE  Closed(br, forest, DOMAIN w[N])
<1> DEFINE Grown(k) == Closed(br, forest, DOMAIN w[k]) \/ Cardinality(Within(br, forest, DOMAIN w[k])) >= k
           T == {k \in Nat : k \in 0 .. N => Grown(k)}
<1>1. \A D : Within(br, forest, D) \subseteq forest
  BY DEF Within
<1>2. \A D : IsFiniteSet(Within(br, forest, D)) /\ Cardinality(Within(br, forest, D)) \in Nat
  BY <1>1, FS_Subset, FS_CardinalityType
<1>3. 0 \in T
  BY <1>2
<1>4. ASSUME NEW k \in Nat, k \in T PROVE k + 1 \in T
  <2> SUFFICES ASSUME k + 1 \in 0 .. N PROVE Grown(k + 1)
    OBVIOUS
  <2> DEFINE D == DOMAIN w[k]
  <2>1. k \in 0 .. N /\ k + 1 \in 1 .. N /\ (k + 1) - 1 = k
    OBVIOUS
  <2>2. w[k + 1] = Onward(br, forest, w[k])
    BY <2>1 DEF IsWalk
  <2>3. DOMAIN w[k + 1] = Reached(br, forest, D)
    BY <2>2, OnwardReaches
  <2>4. CASE Closed(br, forest, D)
    BY <2>3, <2>4, ClosedStays
  <2>5. CASE ~Closed(br, forest, D)
    <3>1. Cardinality(Within(br, forest, D)) >= k
      BY <1>4, <2>1, <2>5
    <3>2. Cardinality(Within(br, forest, Reached(br, forest, D))) >= Cardinality(Within(br, forest, D)) + 1
      BY <2>5, OpenGrows
    <3>3. Cardinality(Within(br, forest, D)) \in Nat
          /\ Cardinality(Within(br, forest, Reached(br, forest, D))) \in Nat
      BY <1>2
    <3> HIDE DEF D
    <3>4. Cardinality(Within(br, forest, DOMAIN w[k + 1])) >= k + 1
      BY <2>3, <3>1, <3>2, <3>3
    <3>5. QED
      BY <3>4
  <2>6. QED
    BY <2>4, <2>5
<1>5. N \in T
  <2> HIDE DEF T
  <2>1. Nat \subseteq T
    BY <1>3, <1>4, InductiveSet
  <2>2. QED
    BY <2>1
<1>6. CASE Cardinality(Within(br, forest, DOMAIN w[N])) >= N
  <2> DEFINE E == Within(br, forest, DOMAIN w[N])
  <2>1. E \subseteq forest /\ IsFiniteSet(E) /\ Cardinality(E) \in Nat /\ Cardinality(forest) \in Nat
    BY <1>1, <1>2, FS_CardinalityType
  <2>2. Cardinality(E) >= N
    BY <1>6
  <2>3. E = forest
    <3> HIDE DEF E
    <3>1. Cardinality(E) <= Cardinality(forest) /\ (Cardinality(E) = Cardinality(forest) => E = forest)
      BY <2>1, FS_Subset
    <3>2. QED
      BY <2>1, <2>2, <3>1
  <2>4. QED
    BY <2>3 DEF Within, Closed, Neighbours
<1>7. QED
  BY <1>5, <1>6

LEMMA WalkStarts ==
    ASSUME NEW ns, NEW br, NEW forest, NEW a, NEW N \in Nat, NEW w, IsWalk(w, ns, br, forest, a, N)
    PROVE  DOMAIN a \subseteq DOMAIN w[N]
<1> DEFINE T == {k \in Nat : k \in 0 .. N => DOMAIN a \subseteq DOMAIN w[k]}
<1>1. 0 \in T
  BY DEF IsWalk
<1>2. ASSUME NEW k \in Nat, k \in T PROVE k + 1 \in T
  <2> SUFFICES ASSUME k + 1 \in 0 .. N PROVE DOMAIN a \subseteq DOMAIN w[k + 1]
    OBVIOUS
  <2>1. k \in 0 .. N /\ k + 1 \in 1 .. N /\ (k + 1) - 1 = k
    OBVIOUS
  <2>2. w[k + 1] = Onward(br, forest, w[k])
    BY <2>1 DEF IsWalk
  <2>3. DOMAIN w[k + 1] = Reached(br, forest, DOMAIN w[k])
    BY <2>2, OnwardReaches
  <2>4. QED
    BY <1>2, <2>1, <2>3 DEF Reached
<1>3. N \in T
  <2> HIDE DEF T
  <2>1. Nat \subseteq T
    BY <1>1, <1>2, InductiveSet
  <2>2. QED
    BY <2>1
<1>4. QED
  BY <1>3

(* Every bus has a ratio to its representative: the walk reaches it.          *)
LEMMA ScalesAll ==
    ASSUME NEW ns, DOMAIN ns \subseteq Nat, NEW br, NEW edges \in SUBSET Nat, IsFiniteSet(edges),
           Joins(ns, br, edges), \A b \in edges : br[b].ratio \in Int
    PROVE  Supernodes(ns, br, edges).scale \in [Buses(ns) -> Int]
<1> DEFINE rep == [n \in Buses(ns) |-> Representative(ns, Joined(ns, br, edges, n))]
           forest == Forest(ns, br, edges)
           a == [r \in {rep[n] : n \in Buses(ns)} |-> 0]
           N == Cardinality(edges)
           Body(w) == [k \in 0 .. N |-> IF k = 0 THEN a ELSE Onward(br, forest, w[k - 1])]
           walk == CHOOSE w : w = Body(w)
<1>1. Supernodes(ns, br, edges).scale = walk[N] /\ Supernodes(ns, br, edges).rep = rep
  BY DEF Supernodes
<1>2. \A n \in Buses(ns) : rep[n] \in Buses(ns) /\ rep[n] \in Joined(ns, br, edges, n)
  <2> HIDE DEF rep
  <2>1. QED
    BY <1>1, Represented
<1>3. forest \subseteq edges
  BY DEF Forest
<1> HIDE DEF forest
<1>4. /\ Joins(ns, br, forest) /\ IsFiniteSet(forest) /\ \A b \in forest : br[b].ratio \in Int
      /\ N \in Nat /\ Cardinality(forest) <= N
  BY <1>3, FS_Subset, FS_CardinalityType DEF Joins
<1>5. a \in Scales(ns) /\ DOMAIN a = {rep[n] : n \in Buses(ns)}
  <2>1. {rep[n] : n \in Buses(ns)} \in SUBSET Buses(ns)
    BY <1>2
  <2>2. a \in [{rep[n] : n \in Buses(ns)} -> Int]
    OBVIOUS
  <2> HIDE DEF a, rep
  <2>3. QED
    BY <2>1, <2>2 DEF Scales
<1> HIDE DEF a, rep, N
<1>6. PICK w : IsWalk(w, ns, br, forest, a, N)
  BY <1>4, <1>5, WalkExists
<1>7. w = Body(w)
  BY <1>4, <1>6 DEF IsWalk
<1>8. walk = Body(walk)
  <2> HIDE DEF Body
  <2>1. QED
    BY <1>7
<1> HIDE DEF walk
<1>9. IsWalk(walk, ns, br, forest, a, N)
  <2> DEFINE T == {k \in Nat : k \in 0 .. N => walk[k] = w[k]}
  <2>1. 0 \in T
    BY <1>4, <1>7, <1>8
  <2>2. ASSUME NEW k \in Nat, k \in T PROVE k + 1 \in T
    <3> SUFFICES ASSUME k + 1 \in 0 .. N PROVE walk[k + 1] = w[k + 1]
      OBVIOUS
    <3>1. k \in 0 .. N /\ (k + 1) - 1 = k /\ k + 1 # 0
      BY <1>4
    <3>2. walk[k + 1] = Onward(br, forest, walk[k]) /\ w[k + 1] = Onward(br, forest, w[k])
      BY <1>7, <1>8, <3>1
    <3>3. QED
      BY <2>2, <3>1, <3>2
  <2>3. Nat \subseteq T
    <3> HIDE DEF T
    <3>1. QED
      BY <2>1, <2>2, InductiveSet
  <2>4. walk = w
    <3>1. \A k \in 0 .. N : walk[k] = w[k]
      BY <2>3
    <3>2. walk = [k \in 0 .. N |-> walk[k]] /\ w = [k \in 0 .. N |-> w[k]]
      BY <1>7, <1>8
    <3>3. QED
      BY <3>1, <3>2
  <2>5. QED
    BY <1>6, <2>4
<1> DEFINE D == DOMAIN walk[N]
<1>10. walk[N] \in Scales(ns)
  BY <1>4, <1>9 DEF IsWalk
<1>11. D \subseteq Buses(ns) /\ walk[N] \in [D -> Int]
  BY <1>10 DEF Scales
<1>12. Closed(br, edges, D)
  <2>1. Closed(br, forest, D)
    BY <1>4, <1>9, WalkCloses
  <2> HIDE DEF D
  <2>2. QED
    BY <1>11, <2>1, ForestSpans DEF forest
<1>13. {rep[n] : n \in Buses(ns)} \subseteq D
  BY <1>4, <1>5, <1>9, WalkStarts
<1>14. Buses(ns) \subseteq D
  <2> SUFFICES ASSUME NEW n \in Buses(ns), n \notin D PROVE FALSE
    OBVIOUS
  <2>1. Closed(br, edges, Buses(ns) \ D)
    BY <1>12, ClosedComplement
  <2>2. rep[n] \in D /\ rep[n] \in Joined(ns, br, edges, n)
    BY <1>2, <1>13
  <2> HIDE DEF D
  <2>3. QED
    BY <2>1, <2>2, JoinedBy
<1>15. D = Buses(ns)
  BY <1>11, <1>14
<1>16. QED
  BY <1>1, <1>11, <1>15

-----------------------------------------------------------------------------
(* What the rows of the problem say of the readings.                          *)

PartsOf(p) == {r \in p.setup.rows : r.block = "part"}
ConvertedOf(p) == {q \in p.solved : q.form = "converted"}
LostOf(p) == DroppedIds(p.setup.rows, p.setup.vars, p.sn)
Solves(p, i) == \E q \in p.solved : q.id = i
OfMember(p, r) == r.kind \in InjectionKinds /\ IsMerged(p.sn, r.obj)

\* The rows of the problem by the readings they were made of.
RowsByReading(p, t, c) ==
    /\ \A q \in p.solved : q.id = 0 \/ q.id \in p.used
    /\ \A r \in PartsOf(p) :
          /\ r.id \in p.used /\ t[r.id].kind \in InjectionKinds
          /\ r.obj = t[r.id].obj /\ r.kind = AxisOf(t[r.id].kind) /\ r.part = RolePart(t[r.id])
          /\ \E q \in p.solved : q.id = r.id /\ q.block = "part"
          /\ \A q \in ConvertedOf(p) : q.id # r.id
    /\ \A q \in p.solved : q.block = "part" => \E r \in PartsOf(p) : r.id = q.id
    /\ \A q \in ConvertedOf(p) :
          /\ q.id \in p.used /\ q.kind = t[q.id].kind /\ q.obj = t[q.id].obj /\ OfMember(p, t[q.id])
    /\ \A i \in LostOf(p) : i \in p.used /\ ~Solves(p, i) /\ OfMember(p, t[i])
    /\ \A i \in p.setup.dropped : i \in p.used /\ ~Solves(p, i) /\ t[i].kind \in InjectionKinds
    /\ \A i \in p.used :
          Solves(p, i) /\ OfMember(p, t[i]) => \E r \in PartsOf(p) \cup ConvertedOf(p) : r.id = i
    /\ ~(c.roles /\ c.alg # "wls") =>
          /\ PartsOf(p) = {} /\ p.setup.dropped = {}
          /\ \A i \in p.used : OfMember(p, t[i]) => i \in LostOf(p) \/ \E q \in ConvertedOf(p) : q.id = i
    /\ PartsOf(p) = {} /\ p.setup.dropped = {} =>
          \A i \in p.used : Solves(p, i) \/ OfMember(p, t[i])

LEMMA ReadingRow ==
    ASSUME NEW used, NEW i \in used, NEW r \in RowsOf(used, i)
    PROVE  r.block = "part" => /\ Roles /\ m[i].kind \in InjectionKinds
                               /\ r.kind = AxisOf(m[i].kind) /\ r.part = RolePart(m[i])
<1> DEFINE d == DataRow(m[i], i)
           n == m[i].obj
           a == AxisOf(m[i].kind)
           parts == PartRows(m, used, n, a)
           p == [d EXCEPT !.block = "part", !.kind = a, !.part = RolePart(m[i])]
           v == SumFunction([k \in parts |-> m[k].role * m[k].value])
           w == SumFunction([k \in parts |-> m[k].var])
           f == [d EXCEPT !.value = v, !.var = w]
           rows == InjectionRows(m, used, BoxVars(nodes, cfg), i, a)
<1>1. d.block = "data"
  BY DEF DataRow
<1>2. p.kind = a /\ p.part = RolePart(m[i])
  BY DEF DataRow
<1>3. f.block = "data"
  <2> HIDE DEF v, w
  <2>1. QED
    BY DEF DataRow
<1>4. rows \subseteq {d, p, f}
  <2> HIDE DEF d, p, f
  <2>1. rows = IF m[i].role = 0 THEN IF Splits(m, used, BoxVars(nodes, cfg), n, a) THEN {} ELSE {d}
               ELSE IF Splits(m, used, BoxVars(nodes, cfg), n, a) THEN {p}
               ELSE IF IsFolded(m, used, BoxVars(nodes, cfg), i, n, a) THEN {f} ELSE {}
    BY Zenon DEF InjectionRows, d, p, f
  <2> HIDE DEF rows
  <2>2. QED
    BY <2>1
<1>5. r \in {d, p, f} /\ (r # d => Roles /\ m[i].kind \in InjectionKinds)
  <2> HIDE DEF d, p, f
  <2>1. RowsOf(used, i) = IF Roles /\ m[i].kind \in InjectionKinds THEN rows ELSE {d}
    BY Zenon DEF RowsOf, d
  <2> HIDE DEF rows
  <2>2. QED
    BY <1>4, <2>1
<1> HIDE DEF d, p, f, rows
<1>6. QED
  BY <1>1, <1>2, <1>3, <1>5

\* Rows with an id, or of a reading, are those of a reading.
LEMMA RowOfReading ==
    ASSUME NEW used, NEW r \in Setup(used).rows, r.id # 0 \/ r.block \in {"data", "part"}
    PROVE  r.id \in used /\ r \in RowsOf(used, r.id)
<1>1. \A n, a : BalanceOf(used, n, a).id = 0 /\ BalanceOf(used, n, a).block = "balance"
  BY DEF BalanceOf
<1>2. PICK i \in used : r \in RowsOf(used, i)
  <2>1. \/ \E i \in used : r \in RowsOf(used, i)
        \/ r.id = 0 /\ r.block = "prior"
        \/ \E n \in Buses(nodes), a \in Axes : r = BalanceOf(used, n, a)
    BY SetupRows
  <2>2. QED
    BY <1>1, <2>1
<1>3. r.id = i
  BY <1>2, RowsOfShape
<1>4. QED
  BY <1>2, <1>3

LEMMA ReduceCases ==
    ASSUME NEW rows, NEW boxVars, NEW sn, NEW r
    PROVE  /\ Plain(r).form = "plain"
           /\ r.block \in {"data", "part"} /\ ~IsMemberInjection(sn, r) =>
                 ReduceRow(rows, boxVars, sn, r) = {Plain(r)}
           /\ IsMemberInjection(sn, r) =>
                 \/ HasBox(boxVars, r.obj, AxisOf(r.kind))
                    /\ \E q : ReduceRow(rows, boxVars, sn, r) = {q} /\ q.form = "converted" /\ q.id = r.id
                 \/ ~HasBox(boxVars, r.obj, AxisOf(r.kind)) /\ ReduceRow(rows, boxVars, sn, r) = {}
           /\ \A q \in ReduceRow(rows, boxVars, sn, r) : q.form = "converted" => IsMemberInjection(sn, r)
<1>1. Plain(r).form = "plain"
  BY DEF Plain
<1>2. SuperBalance(rows, sn, r).form = "super"
  BY SMT DEF SuperBalance, Plain
<1> DEFINE c == [Plain(r) EXCEPT !.form = "converted"]
           s == SuperBalance(rows, sn, r)
           o == Plain(r)
<1>3. c.form = "converted" /\ c.id = r.id
  BY DEF Plain
<1>4. ReduceRow(rows, boxVars, sn, r) =
         IF r.block = "balance" /\ IsMerged(sn, r.obj) THEN IF r.obj = sn.rep[r.obj] THEN {s} ELSE {}
         ELSE IF ~IsMemberInjection(sn, r) THEN {o}
         ELSE IF HasBox(boxVars, r.obj, AxisOf(r.kind)) THEN {c} ELSE {}
  BY Zenon DEF ReduceRow
<1>5. s.form = "super" /\ o.form = "plain"
  BY <1>1, <1>2
<1> HIDE DEF c, s, o
<1>6. IsMemberInjection(sn, r) => r.block = "data"
  BY DEF IsMemberInjection
<1>7. /\ r.block \in {"data", "part"} /\ ~IsMemberInjection(sn, r) => ReduceRow(rows, boxVars, sn, r) = {o}
      /\ IsMemberInjection(sn, r) =>
            \/ HasBox(boxVars, r.obj, AxisOf(r.kind))
               /\ \E q : ReduceRow(rows, boxVars, sn, r) = {q} /\ q.form = "converted" /\ q.id = r.id
            \/ ~HasBox(boxVars, r.obj, AxisOf(r.kind)) /\ ReduceRow(rows, boxVars, sn, r) = {}
      /\ \A q \in ReduceRow(rows, boxVars, sn, r) : q.form = "converted" => IsMemberInjection(sn, r)
  BY <1>3, <1>4, <1>5, <1>6
<1>8. QED
  BY <1>1, <1>7 DEF o

LEMMA AssembledRows ==
    ASSUME NEW used, used \subseteq Nat \ {0}, NEW p, p.used = used, p.setup = Setup(used),
           p.solved = ReduceRows(Setup(used).rows, Setup(used).vars, p.sn),
           \A i \in used : m[i].kind \in InjectionKinds => \E a \in Axes : m[i].kind = InjKind[a]
    PROVE  RowsByReading(p, m, cfg)
<1> DEFINE rows == Setup(used).rows
           boxVars == Setup(used).vars
           reduced(r) == ReduceRow(rows, boxVars, p.sn, r)
<1>1. \A q : q \in p.solved <=> \E r \in rows : q \in reduced(r)
  BY DEF ReduceRows
<1>2. ASSUME NEW r \in rows, NEW q \in reduced(r)
      PROVE  q \in p.solved /\ q.id = r.id /\ q.block = r.block /\ q.obj = r.obj /\ q.kind = r.kind
  BY <1>1, ReducedShape
<1>3. \A r \in rows : r.id # 0 \/ r.block \in {"data", "part"} => r.id \in used /\ r \in RowsOf(used, r.id)
  BY RowOfReading
<1>4. \A i \in used : RowsOf(used, i) \subseteq rows /\ \A r \in RowsOf(used, i) : r.id = i /\ RowsOf(used, i) = {r}
  BY SetupRows, RowsOfShape
<1>5. ASSUME NEW i \in used, NEW r \in RowsOf(used, i), NEW q \in p.solved, q.id = i PROVE q \in reduced(r)
  <2>1. PICK s \in rows : q \in reduced(s)
    BY <1>1
  <2>2. s.id = i /\ i # 0
    BY <1>2, <1>5, <2>1
  <2>3. s \in RowsOf(used, i)
    BY <1>3, <2>2
  <2> HIDE DEF reduced
  <2>4. s = r
    BY <1>4, <2>3
  <2>5. QED
    BY <2>1, <2>4
<1>6. \A r \in rows : r.block = "part" => r.id \in used /\ r.kind = AxisOf(m[r.id].kind) /\ r.part = RolePart(m[r.id])
                                         /\ Roles /\ m[r.id].kind \in InjectionKinds /\ r.obj = m[r.id].obj
  <2> SUFFICES ASSUME NEW r \in rows, r.block = "part"
               PROVE  r.id \in used /\ r.kind = AxisOf(m[r.id].kind) /\ r.part = RolePart(m[r.id])
                      /\ Roles /\ m[r.id].kind \in InjectionKinds /\ r.obj = m[r.id].obj
    OBVIOUS
  <2>1. r.id \in used /\ r \in RowsOf(used, r.id)
    BY <1>3
  <2>2. QED
    BY <2>1, ReadingRow, RowsOfShape
<1>7. \A r \in rows : IsMemberInjection(p.sn, r) => /\ r.block = "data" /\ r.id \in used /\ r \in RowsOf(used, r.id)
                                                  /\ r.kind = m[r.id].kind /\ r.obj = m[r.id].obj
                                                  /\ OfMember(p, m[r.id])
  <2> SUFFICES ASSUME NEW r \in rows, IsMemberInjection(p.sn, r)
               PROVE  /\ r.block = "data" /\ r.id \in used /\ r \in RowsOf(used, r.id)
                      /\ r.kind = m[r.id].kind /\ r.obj = m[r.id].obj /\ OfMember(p, m[r.id])
    OBVIOUS
  <2>1. r.block = "data" /\ r.kind \in InjectionKinds /\ IsMerged(p.sn, r.obj)
    BY DEF IsMemberInjection
  <2>2. r.id \in used /\ r \in RowsOf(used, r.id)
    BY <1>3, <2>1
  <2>3. r.kind = m[r.id].kind /\ r.obj = m[r.id].obj
    BY <2>1, <2>2, RowsOfShape
  <2>4. QED
    BY <2>1, <2>2, <2>3 DEF OfMember
<1>8. \A r \in rows : /\ r.block \in {"data", "part"} /\ ~IsMemberInjection(p.sn, r) => reduced(r) = {Plain(r)}
                      /\ IsMemberInjection(p.sn, r) =>
                            \/ HasBox(boxVars, r.obj, AxisOf(r.kind))
                               /\ \E q : reduced(r) = {q} /\ q.form = "converted" /\ q.id = r.id
                            \/ ~HasBox(boxVars, r.obj, AxisOf(r.kind)) /\ reduced(r) = {}
                      /\ \A q \in reduced(r) : q.form = "converted" => IsMemberInjection(p.sn, r)
                      /\ Plain(r).form = "plain"
  BY ReduceCases
<1>9. \A r \in rows : r.block = "part" => ~IsMemberInjection(p.sn, r)
  BY DEF IsMemberInjection
<1>10. /\ PartsOf(p) = {r \in rows : r.block = "part"}
       /\ LostOf(p) = {r.id : r \in {q \in rows : IsMemberInjection(p.sn, q) /\ ~HasBox(boxVars, q.obj, AxisOf(q.kind))}}
  BY DEF PartsOf, LostOf, DroppedIds
<1>11. \A i \in used : RowsOf(used, i) = {} => ~Solves(p, i)
  <2> SUFFICES ASSUME NEW i \in used, RowsOf(used, i) = {}, NEW q \in p.solved, q.id = i PROVE FALSE
    BY DEF Solves
  <2>1. PICK r \in rows : q \in reduced(r)
    BY <1>1
  <2>2. r.id = i /\ i # 0
    BY <1>2, <2>1
  <2>3. QED
    BY <1>3, <2>2
<1>12. \A i \in used : /\ ~Roles => RowsOf(used, i) = {DataRow(m[i], i)}
                       /\ m[i].kind \notin InjectionKinds => RowsOf(used, i) = {DataRow(m[i], i)}
  BY DEF RowsOf
<1>13. \A i \in used : DataRow(m[i], i).block = "data" /\ DataRow(m[i], i).kind = m[i].kind /\ DataRow(m[i], i).obj = m[i].obj
  BY DEF DataRow
<1>14. \A i \in p.setup.dropped : /\ i \in used /\ RowsOf(used, i) = {} /\ m[i].kind \in InjectionKinds /\ Roles
  <2>1. CASE cfg.alg = "wls"
    BY <2>1 DEF Setup, BaseProblem
  <2>2. CASE cfg.alg # "wls"
    <3>1. p.setup.dropped = FoldedIds(m, used, BoxVars(nodes, cfg), cfg)
      BY <2>2 DEF Setup, BuildIpmSetup
    <3>2. QED
      BY <2>2, <3>1, Zenon DEF FoldedIds, RowsOf, Roles
  <2>3. QED
    BY <2>1, <2>2
<1>15. ASSUME NEW i \in used, RowsOf(used, i) = {}, PartsOf(p) = {} PROVE i \in p.setup.dropped
  <2> DEFINE a == AxisOf(m[i].kind)
             n == m[i].obj
             before == BoxVars(nodes, cfg)
  <2>1. Roles /\ m[i].kind \in InjectionKinds
    BY <1>12, <1>15
  <2>2. InjectionRows(m, used, before, i, a) = {}
    BY <1>15, <2>1 DEF RowsOf
  <2>3. ~Splits(m, used, before, n, a)
    <3> SUFFICES ASSUME Splits(m, used, before, n, a) PROVE FALSE
      OBVIOUS
    <3>1. PICK k \in PartRows(m, used, n, a) : TRUE
      BY DEF Splits
    <3>2. k \in used /\ m[k].kind = InjKind[a] /\ m[k].obj = n /\ m[k].role # 0
      BY <3>1 DEF PartRows
    <3>3. PICK x \in Axes : m[i].kind = InjKind[x]
      BY <2>1
    <3>4. a = x /\ AxisOf(InjKind[x]) = x /\ InjKind[x] \in InjectionKinds
      BY <3>3, AxisOfKind
    <3>5. AxisOf(m[k].kind) = a /\ m[k].kind \in InjectionKinds
      BY <3>2, <3>4
    <3> DEFINE d == DataRow(m[k], k)
               q == [d EXCEPT !.block = "part", !.kind = a, !.part = RolePart(m[k])]
    <3>6. InjectionRows(m, used, before, k, a) = {q}
      <4> HIDE DEF a, n, before
      <4>1. m[k].role # 0 /\ Splits(m, used, before, m[k].obj, a)
        BY <3>2
      <4>2. QED
        BY <4>1, Zenon DEF InjectionRows
    <3>7. q.block = "part"
      BY DEF DataRow
    <3> HIDE DEF q
    <3>8. RowsOf(used, k) = {q}
      BY <2>1, <3>5, <3>6 DEF RowsOf
    <3>9. QED
      BY <1>4, <1>10, <1>15, <3>2, <3>7, <3>8
  <2>4. m[i].role # 0
    <3>1. m[i].role = 0 => InjectionRows(m, used, before, i, a) = {DataRow(m[i], i)}
      BY <2>3, Zenon DEF InjectionRows
    <3>2. QED
      BY <2>2, <3>1
  <2>5. p.setup.dropped = FoldedIds(m, used, before, cfg)
    BY <2>1 DEF Setup, BuildIpmSetup, Roles
  <2>6. QED
    BY <2>1, <2>2, <2>4, <2>5 DEF FoldedIds, Roles
<1> HIDE DEF rows, boxVars, reduced
<1>20. \A q \in p.solved : q.id = 0 \/ q.id \in p.used
  BY <1>1, <1>2, <1>3
<1>21. ASSUME NEW r \in PartsOf(p)
       PROVE  /\ r.id \in p.used /\ m[r.id].kind \in InjectionKinds
              /\ r.obj = m[r.id].obj /\ r.kind = AxisOf(m[r.id].kind) /\ r.part = RolePart(m[r.id])
              /\ \E q \in p.solved : q.id = r.id /\ q.block = "part"
              /\ \A q \in ConvertedOf(p) : q.id # r.id
  <2>1. r \in rows /\ r.block = "part"
    BY <1>10
  <2>2. reduced(r) = {Plain(r)} /\ Plain(r).form = "plain"
    BY <1>8, <1>9, <2>1
  <2>3. \E q \in p.solved : q.id = r.id /\ q.block = "part"
    BY <1>2, <2>1, <2>2
  <2>4. ASSUME NEW q \in ConvertedOf(p), q.id = r.id PROVE FALSE
    <3>1. q \in p.solved /\ q.form = "converted"
      BY DEF ConvertedOf
    <3>2. r.id \in used /\ r \in RowsOf(used, r.id)
      BY <1>3, <2>1
    <3>3. q \in reduced(r)
      BY <1>5, <2>4, <3>1, <3>2
    <3>4. QED
      BY <2>2, <3>1, <3>3
  <2>5. QED
    BY <1>6, <2>1, <2>3, <2>4
<1>22. \A q \in p.solved : q.block = "part" => \E r \in PartsOf(p) : r.id = q.id
  BY <1>1, <1>2, <1>10
<1>23. ASSUME NEW q \in ConvertedOf(p)
       PROVE  q.id \in p.used /\ q.kind = m[q.id].kind /\ q.obj = m[q.id].obj /\ OfMember(p, m[q.id])
  <2>1. q \in p.solved /\ q.form = "converted"
    BY DEF ConvertedOf
  <2>2. PICK r \in rows : q \in reduced(r)
    BY <1>1, <2>1
  <2>3. IsMemberInjection(p.sn, r)
    BY <1>8, <2>1, <2>2
  <2>4. QED
    BY <1>2, <1>7, <2>2, <2>3
<1>24. ASSUME NEW i \in LostOf(p) PROVE i \in p.used /\ ~Solves(p, i) /\ OfMember(p, m[i])
  <2>1. PICK r \in rows : /\ i = r.id /\ IsMemberInjection(p.sn, r)
                          /\ ~HasBox(boxVars, r.obj, AxisOf(r.kind))
    BY <1>10
  <2>2. reduced(r) = {} /\ i \in used /\ r \in RowsOf(used, i) /\ OfMember(p, m[i])
    BY <1>7, <1>8, <2>1
  <2>3. QED
    BY <1>5, <2>2 DEF Solves
<1>25. \A i \in p.setup.dropped : i \in p.used /\ ~Solves(p, i) /\ m[i].kind \in InjectionKinds
  BY <1>11, <1>14
<1>26. ASSUME NEW i \in used, NEW r \in RowsOf(used, i), r.block = "data"
       PROVE  /\ OfMember(p, m[i]) => i \in LostOf(p) \/ \E q \in ConvertedOf(p) : q.id = i
              /\ ~OfMember(p, m[i]) => Solves(p, i)
  <2>1. r \in rows /\ r.id = i /\ r.obj = m[i].obj /\ r.kind = m[i].kind
    <3>1. r \in rows
      BY <1>4
    <3>2. r.id = i /\ r.obj = m[i].obj /\ (r.block = "data" => r.kind = m[i].kind)
      BY RowsOfShape
    <3>3. QED
      BY <1>26, <3>1, <3>2
  <2>2. IsMemberInjection(p.sn, r) <=> OfMember(p, m[i])
    BY <1>26, <2>1 DEF IsMemberInjection, OfMember
  <2>3. CASE OfMember(p, m[i])
    <3>1. CASE HasBox(boxVars, r.obj, AxisOf(r.kind))
      <4>1. PICK q : reduced(r) = {q} /\ q.form = "converted" /\ q.id = r.id
        BY <1>8, <2>1, <2>2, <2>3, <3>1
      <4>2. q \in p.solved
        BY <1>1, <2>1, <4>1
      <4>3. QED
        BY <2>1, <2>3, <4>1, <4>2 DEF ConvertedOf
    <3>2. CASE ~HasBox(boxVars, r.obj, AxisOf(r.kind))
      BY <1>10, <2>1, <2>2, <2>3, <3>2
    <3>3. QED
      BY <3>1, <3>2
  <2>4. CASE ~OfMember(p, m[i])
    <3>1. reduced(r) = {Plain(r)}
      BY <1>8, <1>26, <2>1, <2>2, <2>4
    <3>2. QED
      BY <1>2, <2>1, <2>4, <3>1 DEF Solves
  <2>5. QED
    BY <2>3, <2>4
<1>27. \A i \in used : \A r \in RowsOf(used, i) : r.block \in {"data", "part"} /\ (r.block = "part" => r \in PartsOf(p) /\ r.id = i)
  BY <1>4, <1>10, RowsOfShape
<1>28. ASSUME NEW i \in p.used, Solves(p, i), OfMember(p, m[i])
       PROVE  \E r \in PartsOf(p) \cup ConvertedOf(p) : r.id = i
  <2>1. PICK r \in RowsOf(used, i) : TRUE
    BY <1>11, <1>28
  <2>2. CASE r.block = "part"
    BY <1>27, <2>1, <2>2
  <2>3. CASE r.block = "data"
    BY <1>24, <1>26, <1>28, <2>1, <2>3
  <2>4. QED
    BY <1>27, <2>1, <2>2, <2>3
<1>29. ASSUME ~Roles
       PROVE  /\ PartsOf(p) = {} /\ p.setup.dropped = {}
              /\ \A i \in p.used : OfMember(p, m[i]) => i \in LostOf(p) \/ \E q \in ConvertedOf(p) : q.id = i
  <2>1. PartsOf(p) = {}
    BY <1>6, <1>10, <1>29
  <2>2. p.setup.dropped = {}
    BY <1>14, <1>29
  <2>3. \A i \in used : DataRow(m[i], i) \in RowsOf(used, i) /\ DataRow(m[i], i).block = "data"
    BY <1>12, <1>13, <1>29
  <2>4. QED
    BY <1>26, <2>1, <2>2, <2>3
<1>30. ASSUME PartsOf(p) = {}, p.setup.dropped = {}, NEW i \in p.used PROVE Solves(p, i) \/ OfMember(p, m[i])
  <2>1. PICK r \in RowsOf(used, i) : TRUE
    BY <1>15, <1>30
  <2>2. r.block = "data"
    BY <1>27, <1>30, <2>1
  <2>3. QED
    BY <1>26, <2>1, <2>2
<1>31. QED
  BY <1>20, <1>21, <1>22, <1>23, <1>24, <1>25, <1>28, <1>29, <1>30 DEF RowsByReading, Roles

-----------------------------------------------------------------------------
(* The numbers of an answer.                                                  *)

(* A function with finitely many values takes a largest one.                  *)
LEMMA LargestTaken ==
    ASSUME NEW S, IsFiniteSet(S), S # {}, NEW f \in [S -> Int]
    PROVE  \E j \in S : \A i \in S : f[i] <= f[j]
<1> DEFINE Higher(j) == {i \in S : f[i] > f[j]}
           U == {Cardinality(Higher(j)) : j \in S}
<1>1. \A j \in S : IsFiniteSet(Higher(j)) /\ Cardinality(Higher(j)) \in Nat
  BY FS_Subset, FS_CardinalityType
<1>2. U \subseteq Nat /\ U # {}
  BY <1>1
<1>3. PICK u \in U : \A x \in U : u <= x
  <2> HIDE DEF U
  <2>1. QED
    BY <1>2, LeastNumber
<1>4. PICK j \in S : u = Cardinality(Higher(j))
  BY <1>3
<1>5. ASSUME NEW i \in S, f[i] > f[j] PROVE FALSE
  <2>1. Higher(i) \subseteq Higher(j) /\ i \in Higher(j) /\ i \notin Higher(i)
    BY <1>5
  <2>2. Cardinality(Higher(i)) < Cardinality(Higher(j))
    <3> HIDE DEF Higher
    <3>1. Higher(i) # Higher(j)
      BY <2>1
    <3>2. QED
      BY <1>1, <2>1, <3>1, FS_Subset, FS_CardinalityType
  <2>3. Cardinality(Higher(i)) \in U
    OBVIOUS
  <2>4. u <= Cardinality(Higher(i))
    BY <1>3, <2>3
  <2>5. u \in Nat /\ Cardinality(Higher(i)) \in Nat /\ Cardinality(Higher(i)) < u
    BY <1>1, <1>4, <2>2
  <2>6. QED
    BY <2>4, <2>5
<1>6. QED
  BY <1>5

\* The tightest sides of the sensors and of a box.
LEMMA TightestSides ==
    ASSUME NEW S, IsFiniteSet(S), S # {}, NEW f \in [S -> Int], NEW v \in Int
    PROVE  /\ Max({v} \cup {f[i] : i \in S}) \in Int
           /\ Min({v} \cup {f[i] : i \in S}) \in Int
<1> DEFINE T == {v} \cup {f[i] : i \in S}
           g == [i \in S |-> -f[i]]
<1>1. T \subseteq Int
  OBVIOUS
<1>2. PICK j \in S : \A i \in S : f[i] <= f[j]
  BY LargestTaken
<1>3. \E x \in T : \A y \in T : x >= y
  <2>1. CASE f[j] >= v
    BY <1>2, <2>1
  <2>2. CASE ~(f[j] >= v)
    <3>1. \A i \in S : v >= f[i]
      BY <1>2, <2>2
    <3>2. QED
      BY <3>1
  <2>3. QED
    BY <2>1, <2>2
<1>4. PICK k \in S : \A i \in S : g[i] <= g[k]
  <2>1. g \in [S -> Int]
    OBVIOUS
  <2> HIDE DEF g
  <2>2. QED
    BY <2>1, LargestTaken
<1>5. \A i \in S : f[k] <= f[i]
  <2> SUFFICES ASSUME NEW i \in S PROVE f[k] <= f[i]
    OBVIOUS
  <2>1. -f[i] <= -f[k] /\ f[i] \in Int /\ f[k] \in Int
    BY <1>4
  <2>2. QED
    BY <2>1
<1>6. \E x \in T : \A y \in T : x <= y
  <2>1. CASE f[k] <= v
    BY <1>5, <2>1
  <2>2. CASE ~(f[k] <= v)
    <3>1. \A i \in S : v <= f[i]
      BY <1>5, <2>2
    <3>2. QED
      BY <3>1
  <2>3. QED
    BY <2>1, <2>2
<1> HIDE DEF T
<1>7. Max(T) \in T
  BY <1>3 DEF Max
<1>8. Min(T) \in T
  BY <1>6 DEF Min
<1>9. QED
  BY <1>1, <1>7, <1>8 DEF T

\* A box variable with its bounds and its start.
BoxFields == {"lo", "hi", "default", "prior", "init"}
IsBox(b) == DOMAIN b = BoxFields /\ b.lo \in Int /\ b.hi \in Int /\ b.init \in Int

LEMMA StartIsNumber ==
    ASSUME NEW v \in Int, NEW lo \in Int, NEW hi \in Int
    PROVE  StartIn(v, lo, hi) \in Int
<1>1. (hi - lo) \div 100 \in Int
  OBVIOUS
<1> DEFINE q == (hi - lo) \div 100
           margin == Largest(q, 1)
<1> HIDE DEF q
<1>2. margin \in Int
  BY <1>1 DEF Largest, q
<1>3. StartIn(v, lo, hi) = Smallest(Largest(v, lo + margin), hi - margin)
  BY DEF StartIn, Clamp, q
<1> HIDE DEF margin
<1>4. QED
  BY <1>2, <1>3 DEF Largest, Smallest

LEMMA BoundsAreNumbers ==
    ASSUME NEW box \in Int \X Int
    PROVE  BoundPair(box).lo \in Int /\ BoundPair(box).hi \in Int
<1>1. box[1] \in Int /\ box[2] \in Int /\ DefaultHalf \in Int
  BY NumbersAssumption
<1> HIDE DEF Unset
<1>2. CASE Unset(box)
  BY <1>1, <1>2 DEF BoundPair
<1>3. CASE ~Unset(box)
  BY <1>1, <1>3 DEF BoundPair
<1>4. QED
  BY <1>2, <1>3

LEMMA BoxVarIsBox ==
    ASSUME NEW ns, NEW c, NEW v \in DOMAIN BoxVars(ns, c),
           \A n \in Buses(ns) : ns[n].input \in [Parts -> [Axes -> Int]] /\ ns[n].box \in [Parts -> [Axes -> Int \X Int]]
    PROVE  IsBox(BoxVars(ns, c)[v])
<1> DEFINE b == BoundPair(ns[v[1]].box[v[2]][v[3]])
           x == StartIn(ns[v[1]].input[v[2]][v[3]], b.lo, b.hi)
           r == [lo |-> b.lo, hi |-> b.hi, default |-> b.default, prior |-> PriorVar(b, c), init |-> x]
<1>1. BoxVars(ns, c)[v] = r /\ v[1] \in Buses(ns) /\ v[2] \in Parts /\ v[3] \in Axes
  BY DEF BoxVars
<1>2. ns[v[1]].box[v[2]][v[3]] \in Int \X Int /\ ns[v[1]].input[v[2]][v[3]] \in Int
  BY <1>1
<1>3. b.lo \in Int /\ b.hi \in Int
  BY <1>2, BoundsAreNumbers
<1> HIDE DEF b
<1>4. x \in Int
  BY <1>2, <1>3, StartIsNumber
<1> HIDE DEF x
<1>5. IsBox(r)
  BY <1>3, <1>4 DEF IsBox, BoxFields
<1>6. QED
  BY <1>1, <1>5

LEMMA BoxWithPrior ==
    ASSUME NEW b, IsBox(b), NEW x
    PROVE  IsBox([b EXCEPT !.prior = x])
BY DEF IsBox, BoxFields

LEMMA MeasuredIsBox ==
    ASSUME NEW b, IsBox(b), NEW t, NEW own, IsFiniteSet(own), own # {}, \A i \in own : t[i].range \in Int \X Int
    PROVE  IsBox(MeasuredBox(b, {t[i].range : i \in own}))
<1> DEFINE ranges == {t[i].range : i \in own}
           side(k) == [i \in own |-> SensorSide(t[i].range, k)]
           lo == Max({b.lo} \cup {SensorSide(r, 1) : r \in ranges})
           hi == Min({b.hi} \cup {SensorSide(r, 2) : r \in ranges})
<1>1. \A r \in Int \X Int : SensorSide(r, 1) \in Int /\ SensorSide(r, 2) \in Int
  <2>1. Inf \in Int /\ -Inf \in Int
    BY NumbersAssumption
  <2>2. QED
    BY <2>1 DEF SensorSide
<1>2. side(1) \in [own -> Int] /\ side(2) \in [own -> Int]
  BY <1>1
<1>3. /\ {SensorSide(r, 1) : r \in ranges} = {side(1)[i] : i \in own}
      /\ {SensorSide(r, 2) : r \in ranges} = {side(2)[i] : i \in own}
  OBVIOUS
<1> HIDE DEF ranges
<1>4. b.lo \in Int /\ b.hi \in Int /\ b.init \in Int
  BY DEF IsBox
<1>5. lo \in Int /\ hi \in Int
  <2>1. PICK f \in [own -> Int] : f = side(1)
    BY <1>2
  <2>2. PICK g \in [own -> Int] : g = side(2)
    BY <1>2
  <2>3. {SensorSide(r, 1) : r \in ranges} = {f[i] : i \in own} /\ {SensorSide(r, 2) : r \in ranges} = {g[i] : i \in own}
    BY <1>3, <2>1, <2>2, Zenon
  <2> HIDE DEF side
  <2>4. Max({b.lo} \cup {f[i] : i \in own}) \in Int
    BY <1>4, TightestSides
  <2>5. Min({b.hi} \cup {g[i] : i \in own}) \in Int
    BY <1>4, TightestSides
  <2>6. QED
    BY <2>3, <2>4, <2>5, Zenon
<1> HIDE DEF side
<1>6. MeasuredBox(b, ranges) =
         IF hi <= lo THEN [b EXCEPT !.prior = 0]
         ELSE [b EXCEPT !.prior = 0, !.lo = lo, !.hi = hi, !.init = StartIn(b.init, lo, hi)]
  BY Zenon DEF MeasuredBox
<1> HIDE DEF lo, hi
<1>7. StartIn(b.init, lo, hi) \in Int
  BY <1>4, <1>5, StartIsNumber
<1>8. IsBox([b EXCEPT !.prior = 0, !.lo = lo, !.hi = hi, !.init = StartIn(b.init, lo, hi)])
  BY <1>5, <1>7 DEF IsBox, BoxFields
<1>9. IsBox([b EXCEPT !.prior = 0])
  BY BoxWithPrior
<1>10. IsBox(MeasuredBox(b, ranges))
  <2>1. CASE hi <= lo
    BY <1>6, <1>9, <2>1
  <2>2. CASE ~(hi <= lo)
    BY <1>6, <1>8, <2>2
  <2>3. QED
    BY <2>1, <2>2
<1>11. QED
  BY <1>10 DEF ranges

LEMMA PlannedIsBox ==
    ASSUME NEW t, NEW used, IsFiniteSet(used), NEW before, NEW c, NEW v \in DOMAIN before,
           IsBox(before[v]), \A i \in used : t[i].range \in Int \X Int
    PROVE  IsBox(PlannedVars(t, used, before, c)[v])
<1> DEFINE rows == PartRows(t, used, v[1], v[3])
           own == {i \in rows : RolePart(t[i]) = v[2]}
           ranges == {t[i].range : i \in own}
           x == UnmeasuredVar(before[v], v[2], Min({t[i].var : i \in rows}))
<1>1. PlannedVars(t, used, before, c)[v] =
         IF ~Splits(t, used, before, v[1], v[3]) THEN before[v]
         ELSE IF own # {} THEN MeasuredBox(before[v], ranges)
         ELSE IF ~c.partPrior THEN before[v]
         ELSE [before[v] EXCEPT !.prior = x]
  BY DEF PlannedVars
<1>2. own \subseteq used
  BY DEF PartRows
<1> HIDE DEF x, own
<1>3. own # {} => IsBox(MeasuredBox(before[v], ranges))
  <2>1. IsFiniteSet(own)
    BY <1>2, FS_Subset
  <2>2. \A i \in own : t[i].range \in Int \X Int
    BY <1>2
  <2>3. QED
    BY <2>1, <2>2, MeasuredIsBox
<1> HIDE DEF ranges
<1>4. IsBox([before[v] EXCEPT !.prior = x])
  BY BoxWithPrior
<1>5. QED
  BY <1>1, <1>3, <1>4

LEMMA SetupBoxes ==
    ASSUME NEW used, IsFiniteSet(used), NEW v \in DOMAIN Setup(used).vars,
           \A i \in used : m[i].range \in Int \X Int,
           \A n \in Buses(nodes) :
              nodes[n].input \in [Parts -> [Axes -> Int]] /\ nodes[n].box \in [Parts -> [Axes -> Int \X Int]]
    PROVE  IsBox(Setup(used).vars[v])
<1> DEFINE before == BoxVars(nodes, cfg)
<1>1. cfg.alg # "wls" /\ v \in DOMAIN before
  BY SetupVars
<1>2. Setup(used).vars = IF cfg.roles THEN PlannedVars(m, used, before, cfg) ELSE before
  BY <1>1 DEF Setup, BuildIpmSetup
<1>3. IsBox(before[v])
  BY <1>1, BoxVarIsBox
<1> HIDE DEF before
<1>4. IsBox(PlannedVars(m, used, before, cfg)[v])
  BY <1>1, <1>3, PlannedIsBox
<1>5. QED
  BY <1>2, <1>3, <1>4

(* A sum of integers is one: the sum is a fold over a finite set.             *)

(* Over a finite set the sums exist, in any set closed under addition.        *)
LEMMA SumsExist ==
    ASSUME NEW T, 0 \in T, \A a, b \in T : a + b \in T,
           NEW D, IsFiniteSet(D), NEW f \in [D -> T]
    PROVE  \E g \in [SUBSET D -> T] : Sums(f, D, g)
<1> DEFINE Small(n) == {s \in SUBSET D : Cardinality(s) <= n}
           SumsUpTo(n, g) == /\ g \in [SUBSET D -> T]
                             /\ \A s \in Small(n) : g[s] = IF s = {} THEN 0 ELSE f[Some(s)] + g[s \ {Some(s)}]
           U == {n \in Nat : \E g : SumsUpTo(n, g)}
<1>0. \A s \in SUBSET D : IsFiniteSet(s) /\ Cardinality(s) \in Nat /\ Cardinality(s) <= Cardinality(D)
  BY FS_Subset, FS_CardinalityType
<1>1. 0 \in U
  <2> DEFINE g == [s \in SUBSET D |-> 0]
  <2>1. \A s \in Small(0) : s = {}
    <3>1. ASSUME NEW s \in Small(0) PROVE s = {}
      <4>1. Cardinality(s) <= 0 /\ s \in SUBSET D
        OBVIOUS
      <4>2. Cardinality(s) = 0
        BY <1>0, <4>1
      <4>3. QED
        BY <1>0, <4>1, <4>2, FS_EmptySet
    <3>2. QED
      BY <3>1
  <2>2. g \in [SUBSET D -> T]
    OBVIOUS
  <2>3. \A s \in Small(0) : g[s] = 0
    OBVIOUS
  <2> HIDE DEF Small, g
  <2>4. SumsUpTo(0, g)
    BY <2>1, <2>2, <2>3
  <2>5. QED
    BY <2>4
<1>2. ASSUME NEW n \in Nat, n \in U PROVE n + 1 \in U
  <2>1. PICK h : SumsUpTo(n, h)
    BY <1>2
  <2> DEFINE g == [s \in SUBSET D |->
                      IF Cardinality(s) = n + 1 THEN f[Some(s)] + h[s \ {Some(s)}] ELSE h[s]]
  <2>2. ASSUME NEW s \in SUBSET D, s # {}
        PROVE  /\ Some(s) \in D /\ s \ {Some(s)} \in SUBSET D
               /\ Cardinality(s \ {Some(s)}) = Cardinality(s) - 1
    <3>1. Some(s) \in s
      BY <2>2 DEF Some
    <3>2. Cardinality(s \ {Some(s)}) = Cardinality(s) - 1
      BY <1>0, <3>1, FS_RemoveElement
    <3>3. QED
      BY <3>1, <3>2
  <2>3. ASSUME NEW s \in SUBSET D, Cardinality(s) = n + 1 PROVE s # {}
    <3>1. Cardinality({}) = 0
      BY FS_EmptySet
    <3>2. QED
      BY <2>3, <3>1
  <2>4. g \in [SUBSET D -> T]
    <3>1. h \in [SUBSET D -> T]
      BY <2>1
    <3>2. ASSUME NEW s \in SUBSET D, Cardinality(s) = n + 1
          PROVE  f[Some(s)] + h[s \ {Some(s)}] \in T
      <4>1. Some(s) \in D /\ s \ {Some(s)} \in SUBSET D
        BY <2>2, <2>3, <3>2
      <4>2. f[Some(s)] \in T /\ h[s \ {Some(s)}] \in T
        BY <3>1, <4>1
      <4>3. QED
        BY <4>2
    <3>3. QED
      BY <3>1, <3>2
  <2>5. ASSUME NEW s \in Small(n + 1)
        PROVE  g[s] = IF s = {} THEN 0 ELSE f[Some(s)] + g[s \ {Some(s)}]
    <3>0. s \in SUBSET D /\ Cardinality(s) <= n + 1 /\ Cardinality(s) \in Nat
      BY <1>0
    <3>1. CASE Cardinality(s) = n + 1
      <4>1. s # {}
        BY <2>3, <3>0, <3>1
      <4>2. s \ {Some(s)} \in SUBSET D /\ Cardinality(s \ {Some(s)}) = n
        BY <2>2, <3>0, <3>1, <4>1
      <4>3. g[s \ {Some(s)}] = h[s \ {Some(s)}]
        BY <4>2
      <4>4. g[s] = f[Some(s)] + h[s \ {Some(s)}]
        BY <3>0, <3>1
      <4>5. QED
        BY <4>1, <4>3, <4>4
    <3>2. CASE Cardinality(s) # n + 1
      <4>1. s \in Small(n)
        BY <3>0, <3>2
      <4>2. h[s] = IF s = {} THEN 0 ELSE f[Some(s)] + h[s \ {Some(s)}]
        BY <2>1, <4>1
      <4>3. g[s] = h[s]
        BY <3>0, <3>2
      <4>4. ASSUME s # {} PROVE g[s \ {Some(s)}] = h[s \ {Some(s)}]
        <5>1. s \ {Some(s)} \in SUBSET D /\ Cardinality(s \ {Some(s)}) = Cardinality(s) - 1
          BY <2>2, <3>0, <4>4
        <5>2. Cardinality(s \ {Some(s)}) # n + 1
          BY <3>0, <3>2, <5>1
        <5>3. QED
          BY <5>1, <5>2
      <4>5. QED
        BY <4>2, <4>3, <4>4
    <3>3. QED
      BY <3>1, <3>2
  <2>6. SumsUpTo(n + 1, g)
    <3> HIDE DEF g, Small
    <3>1. QED
      BY <2>4, <2>5
  <2>7. n + 1 \in Nat
    OBVIOUS
  <2>8. QED
    <3> HIDE DEF g, SumsUpTo
    <3>1. QED
      BY <2>6, <2>7
<1>3. Cardinality(D) \in U
  <2>1. Nat \subseteq U
    <3> HIDE DEF U
    <3>1. QED
      BY <1>1, <1>2, InductiveSet
  <2>2. D \in SUBSET D
    OBVIOUS
  <2>3. Cardinality(D) \in Nat
    BY <1>0, <2>2
  <2>4. QED
    BY <2>1, <2>3
<1>4. PICK g : SumsUpTo(Cardinality(D), g)
  BY <1>3
<1>5. g \in [SUBSET D -> T]
  BY <1>4
<1>6. \A s \in SUBSET D : g[s] = IF s = {} THEN 0 ELSE f[Some(s)] + g[s \ {Some(s)}]
  <2>1. ASSUME NEW s \in SUBSET D PROVE s \in Small(Cardinality(D))
    BY <1>0
  <2> HIDE DEF Small
  <2>2. QED
    BY <1>4, <2>1
<1>7. g = [s \in SUBSET D |-> IF s = {} THEN 0 ELSE f[Some(s)] + g[s \ {Some(s)}]]
  BY <1>5, <1>6
<1>8. QED
  BY <1>5, <1>7 DEF Sums

(* So a sum of finitely many integers is one.                                *)
LEMMA SumFunctionType ==
    ASSUME NEW T, 0 \in T, \A a, b \in T : a + b \in T,
           NEW D, IsFiniteSet(D), NEW f \in [D -> T]
    PROVE  SumFunction(f) \in T
<1>1. DOMAIN f = D
  OBVIOUS
<1> DEFINE G == CHOOSE g : Sums(f, D, g)
<1>2. Sums(f, D, G)
  <2>1. \E g : Sums(f, D, g)
    BY SumsExist
  <2>2. QED
    BY <2>1
<1> HIDE DEF G
<1> DEFINE U == {n \in Nat : \A s \in SUBSET D : Cardinality(s) = n => G[s] \in T}
<1>5. \A s \in SUBSET D : G[s] = IF s = {} THEN 0 ELSE f[Some(s)] + G[s \ {Some(s)}]
  BY <1>2 DEF Sums
<1>0. \A s \in SUBSET D : IsFiniteSet(s) /\ Cardinality(s) \in Nat
  BY FS_Subset, FS_CardinalityType
<1>6. 0 \in U
  <2>1. ASSUME NEW s \in SUBSET D, Cardinality(s) = 0 PROVE G[s] \in T
    <3>1. s = {}
      BY <1>0, <2>1, FS_EmptySet
    <3>2. QED
      BY <1>5, <3>1
  <2>2. QED
    BY <2>1
<1>7. ASSUME NEW n \in Nat, n \in U PROVE n + 1 \in U
  <2>1. ASSUME NEW s \in SUBSET D, Cardinality(s) = n + 1 PROVE G[s] \in T
    <3>0. \A r \in SUBSET D : Cardinality(r) = n => G[r] \in T
      BY <1>7
    <3> HIDE DEF U
    <3>1. s # {}
      <4>1. Cardinality({}) = 0
        BY FS_EmptySet
      <4>2. QED
        BY <2>1, <4>1
    <3>2. Some(s) \in s
      BY <3>1 DEF Some
    <3>3. Cardinality(s \ {Some(s)}) = n /\ s \ {Some(s)} \in SUBSET D
      BY <1>0, <2>1, <3>2, FS_RemoveElement
    <3>4. G[s \ {Some(s)}] \in T
      BY <3>0, <3>3
    <3>5. f[Some(s)] \in T
      BY <3>2
    <3>6. G[s] = f[Some(s)] + G[s \ {Some(s)}]
      BY <1>5, <3>1
    <3>7. QED
      BY <3>4, <3>5, <3>6
  <2>2. n + 1 \in Nat
    OBVIOUS
  <2>3. QED
    BY <2>1, <2>2
<1>8. Cardinality(D) \in U
  <2>1. Nat \subseteq U
    <3> HIDE DEF U
    <3>1. QED
      BY <1>6, <1>7, InductiveSet
  <2>2. D \in SUBSET D
    OBVIOUS
  <2>3. QED
    BY <1>0, <2>1, <2>2
<1>9. G[D] \in T
  BY <1>8
<1>10. QED
  BY <1>1, <1>9, SumIsSums DEF G

LEMMA SentIsNumber ==
    ASSUME NEW br, NEW lines, IsFiniteSet(lines), NEW flow, NEW a, NEW n, \A b \in lines : flow[b][a] \in Int
    PROVE  Sent(br, lines, flow, a, n) \in Int
<1> DEFINE out == {c \in lines : br[c].from = n}
           in == {c \in lines : br[c].to = n}
           f == [b \in out |-> flow[b][a]]
           g == [b \in in |-> flow[b][a]]
<1>1. IsFiniteSet(out) /\ IsFiniteSet(in)
  BY FS_Subset
<1>2. f \in [out -> Int] /\ g \in [in -> Int]
  OBVIOUS
<1>3. Sent(br, lines, flow, a, n) = SumFunction(f) - SumFunction(g)
  BY DEF Sent
<1> HIDE DEF out, in, f, g
<1>4. 0 \in Int /\ \A x, y \in Int : x + y \in Int
  OBVIOUS
<1>5. SumFunction(f) \in Int
  BY <1>1, <1>2, <1>4, SumFunctionType
<1>6. SumFunction(g) \in Int
  BY <1>1, <1>2, <1>4, SumFunctionType
<1>7. QED
  BY <1>3, <1>5, <1>6

(* A supernode of which no branch is merged is a bus alone.                   *)
LEMMA JoinedAlone ==
    ASSUME NEW ns, NEW br, NEW n \in Buses(ns)
    PROVE  Joined(ns, br, {}, n) = {n}
<1>1. Closed(br, {}, {n})
  BY DEF Closed, Neighbours
<1>2. QED
  BY <1>1, JoinedBy

LEMMA NoneMerged ==
    ASSUME NEW ns, DOMAIN ns \subseteq Nat, NEW br, NEW n
    PROVE  n \in Buses(ns) => ~IsMerged(Supernodes(ns, br, {}), n)
<1> DEFINE rep == Supernodes(ns, br, {}).rep
<1>1. DOMAIN rep = Buses(ns)
  BY DEF Supernodes
<1>2. ASSUME NEW k \in Buses(ns) PROVE rep[k] = k
  <2>1. Joins(ns, br, {})
    BY DEF Joins
  <2>2. rep[k] \in Joined(ns, br, {}, k)
    BY <2>1, Represented
  <2>3. QED
    BY <2>2, JoinedAlone
<1> HIDE DEF rep
<1>3. ASSUME n \in Buses(ns) PROVE ~IsMerged(Supernodes(ns, br, {}), n)
  <2>1. Members(Supernodes(ns, br, {}), n) = {n}
    BY <1>1, <1>2, <1>3 DEF Members, rep
  <2>2. Cardinality({n}) = 1
    BY FS_Singleton
  <2>3. QED
    BY <2>1, <2>2 DEF IsMerged
<1>4. QED
  BY <1>3

-----------------------------------------------------------------------------
(* What is known of one call between its steps, by the tables of the case:     *)
(* what the box variables, the injections and the rows come out at.            *)
InBoxes(s, n, part, a) == IF <<n, part, a>> \in DOMAIN s.box THEN s.box[<<n, part, a>>] ELSE 0

InjectedBy(c, s, n, a) ==
    FixedInjection(c.nodes[n], a, c.cfg) + InBoxes(s, n, "gen", a) - InBoxes(s, n, "load", a)

EvaluatedBy(c, p, s, r) ==
    CASE r.kind \in InjectionKinds -> Sent(c.branches, p.lines, s.flow, AxisOf(r.kind), r.obj)
      [] r.kind = "V" -> s.volt[r.obj]
      [] OTHER -> IF r.side = 0 THEN s.flow[r.obj][r.kind] ELSE -s.flow[r.obj][r.kind]

\* The problem is of rows and buses of the tables.
Posed(p, c) ==
    /\ RowsByReading(p, c.rows, c.cfg)
    /\ p.used \subseteq DOMAIN c.rows
    /\ \A i \in p.used : IF c.rows[i].kind \in FlowKinds
                         THEN c.rows[i].obj \in p.lines /\ c.rows[i].side \in {0, 1}
                         ELSE c.rows[i].obj \in Buses(c.nodes)
    /\ p.lines \subseteq DOMAIN c.branches /\ p.sn.edges \cap p.lines = {}
    /\ p.sn.rep \in [Buses(c.nodes) -> Buses(c.nodes)] /\ p.sn.scale \in [Buses(c.nodes) -> Int]
    /\ \A v \in DOMAIN p.setup.vars : IsBox(p.setup.vars[v])
    /\ p.sn.edges = {} => \A n \in Buses(c.nodes) : ~IsMerged(p.sn, n)
    /\ c.cfg.alg = "wls" => p.sn.edges = {}

\* An answer is numbers, for every branch, bus and box variable.
Answers(s, p, c) ==
    /\ s.flow \in [DOMAIN c.branches -> [FlowKinds -> Int]]
    /\ s.volt \in [Buses(c.nodes) -> Int]
    /\ DOMAIN s.box = DOMAIN p.setup.vars /\ \A v \in DOMAIN s.box : s.box[v] \in Int

\* The role estimates: parts and members by their boxes, none for what was lost.
Overlays(e, s, p, c) ==
    /\ LostOf(p) \cup p.setup.dropped \subseteq DOMAIN e
    /\ \A r \in PartsOf(p) \cup ConvertedOf(p) : r.id \in DOMAIN e
    /\ \A i \in DOMAIN e :
          \/ i \in LostOf(p) \cup p.setup.dropped /\ e[i] = None
          \/ /\ \E r \in PartsOf(p) : r.id = i
             /\ e[i] = InBoxes(s, c.rows[i].obj, RolePart(c.rows[i]), AxisOf(c.rows[i].kind))
          \/ /\ \E q \in ConvertedOf(p) : q.id = i
             /\ e[i] = InjectedBy(c, s, c.rows[i].obj, AxisOf(c.rows[i].kind))

\* The answer as it was written on the nodes and branches.
Placed(ns, bs, s, p, c) ==
    /\ \A n \in Buses(c.nodes) :
          /\ ns[n].vm = s.volt[n]
          /\ ~IsMerged(p.sn, n) =>
                \A a \in Axes : ns[n].calc[a] = Sent(c.branches, p.lines, s.flow, a, n)
    /\ \A b \in p.lines : bs[b].flow = s.flow[b]

\* The estimates as they were written on the rows.
Measures(t, e, s, p, c) ==
    \A i \in DOMAIN c.rows :
        t[i].est = IF i \in DOMAIN e THEN e[i]
                   ELSE IF i \in p.used THEN EvaluatedBy(c, p, s, c.rows[i]) ELSE None

\* What the result says of the rows.
Summed(r, p, c) ==
    /\ r.objective = {i \in p.used : ~OfMember(p, c.rows[i])} \cup {q.id : q \in ConvertedOf(p)}
    /\ r.summary =
          {i \in IF p.sn.edges # {} \/ p.setup.dropped # {} \/ PartsOf(p) # {}
                 THEN {q.id : q \in p.solved} \ {0}
                 ELSE p.used : ~c.rows[i].pseudo}

DInv ==
    /\ pc \notin {"call", "failed"} => Posed(prob, case)
    /\ pc = "wls" => cfg.alg = "wls" /\ roleEst = <<>>
    /\ pc \in {"boxes", "results", "rows", "split", "balance", "return", "done"} => Answers(sol, prob, case)
    /\ pc \in {"results", "rows", "split", "balance", "return", "done"} => Overlays(roleEst, sol, prob, case)
    /\ pc \in {"rows", "split", "balance", "return", "done"} => Placed(nodes, branches, sol, prob, case)
    /\ pc \in {"split", "balance", "return", "done"} => Measures(m, roleEst, sol, prob, case)
    /\ pc \notin {"call", "done"} => result = None
    /\ pc = "done" => Summed(result, prob, case)

LEMMA KindsApart ==
    /\ "V" \notin FlowKinds \cup InjectionKinds /\ FlowKinds \cap InjectionKinds = {}
    /\ \A k \in InjectionKinds : AxisOf(k) \in Axes /\ AxisOf(k) \in FlowKinds
BY DEF FlowKinds, InjectionKinds, AxisOf, Axes

\* The tables of the call speak of the injections as those of the case.
LEMMA InjectedAlike ==
    ASSUME TablesAlike(case, m, nodes, branches), NEW n \in DOMAIN nodes, NEW a
    PROVE  Injected(n, a) = InjectedBy(case, sol, n, a)
<1>1. /\ nodes[n].gen = case.nodes[n].gen /\ nodes[n].load = case.nodes[n].load
      /\ nodes[n].input = case.nodes[n].input
  BY DEF TablesAlike, NodesLike, NodeLike
<1>2. FixedInjection(nodes[n], a, cfg) = FixedInjection(case.nodes[n], a, case.cfg)
  BY <1>1 DEF FixedInjection, cfg
<1>3. \A part : BoxValue(n, part, a) = InBoxes(sol, n, part, a)
  BY DEF BoxValue, InBoxes
<1>4. QED
  BY <1>2, <1>3 DEF Injected, InjectedBy

LEMMA SentAlike ==
    ASSUME TablesAlike(case, m, nodes, branches), NEW lines, lines \subseteq DOMAIN case.branches,
           NEW flow, NEW a, NEW n
    PROVE  Sent(branches, lines, flow, a, n) = Sent(case.branches, lines, flow, a, n)
<1>1. \A b \in lines : branches[b].from = case.branches[b].from /\ branches[b].to = case.branches[b].to
  BY DEF TablesAlike, BranchesLike, BranchLike
<1>2. /\ {b \in lines : branches[b].from = n} = {b \in lines : case.branches[b].from = n}
      /\ {b \in lines : branches[b].to = n} = {b \in lines : case.branches[b].to = n}
  BY <1>1
<1>3. QED
  BY <1>2 DEF Sent

LEMMA EvaluatedAlike ==
    ASSUME TablesAlike(case, m, nodes, branches), Posed(prob, case), NEW i \in DOMAIN m
    PROVE  Evaluated(m[i]) = EvaluatedBy(case, prob, sol, case.rows[i])
<1>1. m[i].kind = case.rows[i].kind /\ m[i].obj = case.rows[i].obj /\ m[i].side = case.rows[i].side
  BY DEF TablesAlike, RowsLike, RowLike
<1>2. \A a, n : Sent(branches, prob.lines, sol.flow, a, n) = Sent(case.branches, prob.lines, sol.flow, a, n)
  BY SentAlike DEF Posed
<1>3. QED
  BY <1>1, <1>2 DEF Evaluated, EvaluatedBy

(* What is not None: an evaluated row, a box value and an injection.           *)
LEMMA EvaluatedIsNumber ==
    ASSUME NEW c \in Cases, NEW p, NEW s, Posed(p, c), Answers(s, p, c), NEW i \in p.used
    PROVE  EvaluatedBy(c, p, s, c.rows[i]) \in Int
<1> DEFINE r == c.rows[i]
<1>1. IsCase(c)
  BY CasesAssumption
<1>2. /\ r.kind \in FlowKinds => r.obj \in p.lines
      /\ r.kind \notin FlowKinds => r.obj \in Buses(c.nodes)
  BY DEF Posed
<1>3. r.kind \in FlowKinds \cup InjectionKinds \cup {"V"}
  BY <1>1 DEF Posed, IsCase
<1>4. IsFiniteSet(p.lines) /\ p.lines \subseteq DOMAIN c.branches
  BY <1>1, FS_Subset DEF Posed, IsCase
<1> HIDE DEF r
<1>5. \A b \in p.lines, k \in FlowKinds : s.flow[b][k] \in Int
  BY <1>4 DEF Answers
<1>6. CASE r.kind \in InjectionKinds
  <2>1. AxisOf(r.kind) \in FlowKinds
    BY <1>6, KindsApart
  <2>2. Sent(c.branches, p.lines, s.flow, AxisOf(r.kind), r.obj) \in Int
    BY <1>4, <1>5, <2>1, SentIsNumber
  <2>3. QED
    BY <1>6, <2>2, KindsApart DEF EvaluatedBy, r
<1>7. CASE r.kind = "V"
  <2>1. s.volt[r.obj] \in Int
    BY <1>2, <1>7, KindsApart DEF Answers
  <2>2. QED
    BY <1>7, <2>1, KindsApart DEF EvaluatedBy, r
<1>8. CASE r.kind \in FlowKinds
  <2>1. s.flow[r.obj][r.kind] \in Int
    BY <1>2, <1>5, <1>8
  <2>2. EvaluatedBy(c, p, s, r) = IF r.side = 0 THEN s.flow[r.obj][r.kind] ELSE -s.flow[r.obj][r.kind]
    BY <1>8, KindsApart DEF EvaluatedBy
  <2>3. QED
    BY <2>1, <2>2 DEF r
<1>9. QED
  BY <1>3, <1>6, <1>7, <1>8

LEMMA BoxIsNumber ==
    ASSUME NEW s, NEW p, NEW c, Answers(s, p, c), NEW n, NEW part, NEW a
    PROVE  InBoxes(s, n, part, a) \in Int
BY DEF Answers, InBoxes

LEMMA InjectedIsNumber ==
    ASSUME NEW c \in Cases, NEW p, NEW s, Answers(s, p, c), NEW n \in DOMAIN c.nodes, NEW a \in Axes
    PROVE  InjectedBy(c, s, n, a) \in Int
<1>1. c.nodes[n].input \in [Parts -> [Axes -> Int]]
  BY CasesAssumption DEF IsCase
<1>2. FixedInjection(c.nodes[n], a, c.cfg) \in Int
  BY <1>1, FixedIsNumber
<1>3. InBoxes(s, n, "gen", a) \in Int /\ InBoxes(s, n, "load", a) \in Int
  BY BoxIsNumber
<1>4. QED
  BY <1>2, <1>3 DEF InjectedBy

-----------------------------------------------------------------------------
(* Tables that differ in results pose the same problem.                        *)
LEMMA RowsAlike ==
    ASSUME NEW p, NEW t, NEW u, NEW c, RowsByReading(p, t, c),
           \A i \in p.used : t[i].kind = u[i].kind /\ t[i].obj = u[i].obj /\ t[i].role = u[i].role
    PROVE  RowsByReading(p, u, c)
<1>1. \A i \in p.used : (OfMember(p, t[i]) <=> OfMember(p, u[i])) /\ RolePart(t[i]) = RolePart(u[i])
  BY DEF OfMember, RolePart
<1>2. \A r \in PartsOf(p) :
          /\ r.id \in p.used /\ u[r.id].kind \in InjectionKinds
          /\ r.obj = u[r.id].obj /\ r.kind = AxisOf(u[r.id].kind) /\ r.part = RolePart(u[r.id])
          /\ \E q \in p.solved : q.id = r.id /\ q.block = "part"
          /\ \A q \in ConvertedOf(p) : q.id # r.id
  <2>1. ASSUME NEW r \in PartsOf(p)
        PROVE  /\ r.id \in p.used /\ u[r.id].kind \in InjectionKinds
               /\ r.obj = u[r.id].obj /\ r.kind = AxisOf(u[r.id].kind) /\ r.part = RolePart(u[r.id])
    <3>1. /\ r.id \in p.used /\ t[r.id].kind \in InjectionKinds
          /\ r.obj = t[r.id].obj /\ r.kind = AxisOf(t[r.id].kind) /\ r.part = RolePart(t[r.id])
      BY DEF RowsByReading
    <3>2. QED
      BY <1>1, <3>1
  <2>2. \A r \in PartsOf(p) : /\ \E q \in p.solved : q.id = r.id /\ q.block = "part"
                              /\ \A q \in ConvertedOf(p) : q.id # r.id
    BY DEF RowsByReading
  <2>3. QED
    BY <2>1, <2>2
<1>3. \A q \in ConvertedOf(p) :
          /\ q.id \in p.used /\ q.kind = u[q.id].kind /\ q.obj = u[q.id].obj /\ OfMember(p, u[q.id])
  <2>1. ASSUME NEW q \in ConvertedOf(p)
        PROVE  q.id \in p.used /\ q.kind = u[q.id].kind /\ q.obj = u[q.id].obj /\ OfMember(p, u[q.id])
    <3>1. q.id \in p.used /\ q.kind = t[q.id].kind /\ q.obj = t[q.id].obj /\ OfMember(p, t[q.id])
      BY DEF RowsByReading
    <3>2. QED
      BY <1>1, <3>1
  <2>2. QED
    BY <2>1
<1>4. /\ \A i \in LostOf(p) : i \in p.used /\ ~Solves(p, i) /\ OfMember(p, u[i])
      /\ \A i \in p.setup.dropped : i \in p.used /\ ~Solves(p, i) /\ u[i].kind \in InjectionKinds
  BY <1>1 DEF RowsByReading
<1>5. \A i \in p.used : Solves(p, i) /\ OfMember(p, u[i]) => \E r \in PartsOf(p) \cup ConvertedOf(p) : r.id = i
  BY <1>1 DEF RowsByReading
<1>6. ~(c.roles /\ c.alg # "wls") =>
          /\ PartsOf(p) = {} /\ p.setup.dropped = {}
          /\ \A i \in p.used : OfMember(p, u[i]) => i \in LostOf(p) \/ \E q \in ConvertedOf(p) : q.id = i
  BY <1>1 DEF RowsByReading
<1>7. PartsOf(p) = {} /\ p.setup.dropped = {} => \A i \in p.used : Solves(p, i) \/ OfMember(p, u[i])
  BY <1>1 DEF RowsByReading
<1>8. /\ \A q \in p.solved : q.id = 0 \/ q.id \in p.used
      /\ \A q \in p.solved : q.block = "part" => \E r \in PartsOf(p) : r.id = q.id
  BY DEF RowsByReading
<1>9. QED
  BY <1>2, <1>3, <1>4, <1>5, <1>6, <1>7, <1>8 DEF RowsByReading

\* The kinds of the injections by axis.
LEMMA KindOfAxis == \A k \in InjectionKinds : \E a \in Axes : k = InjKind[a]
BY DEF InjectionKinds, InjKind, Axes

\* What Assemble finds in the tables, before it builds the rows.
LEMMA AssembledSets ==
    ASSUME case \in Cases, TablesAlike(case, m, nodes, branches), NEW edges, NEW lines, NEW used,
           edges = MergedBranches(nodes, branches, cfg.merge), lines = Lines(nodes, branches, edges),
           used = UsedRows(WithoutFlows(m, edges), nodes, lines)
    PROVE  /\ used \subseteq DOMAIN m /\ used \subseteq Nat \ {0} /\ IsFiniteSet(used)
           /\ \A i \in used : IF m[i].kind \in FlowKinds THEN m[i].obj \in lines /\ m[i].side \in {0, 1}
                              ELSE m[i].obj \in Buses(nodes)
           /\ lines \subseteq DOMAIN branches /\ edges \cap lines = {}
           /\ edges \in SUBSET Nat /\ IsFiniteSet(edges) /\ edges \subseteq DOMAIN branches
           /\ cfg.merge = None => edges = {}
<1>1. IsCase(case)
  BY CasesAssumption
<1>2. DOMAIN m = DOMAIN case.rows /\ DOMAIN nodes = DOMAIN case.nodes /\ DOMAIN branches = DOMAIN case.branches
  BY DEF TablesAlike, RowsLike, NodesLike, BranchesLike
<1>3. IsFiniteSet(DOMAIN m) /\ DOMAIN m \subseteq Nat \ {0} /\ IsFiniteSet(DOMAIN branches) /\ DOMAIN branches \subseteq Nat
  BY <1>1, <1>2 DEF IsCase
<1>4. used \subseteq DOMAIN m
  BY DEF UsedRows, WithoutFlows
<1>5. edges \subseteq DOMAIN branches /\ lines \subseteq DOMAIN branches /\ edges \cap lines = {}
  BY DEF MergedBranches, Lines, ActiveBranches
<1>6. IsFiniteSet(used) /\ IsFiniteSet(edges)
  BY <1>3, <1>4, <1>5, FS_Subset
<1>7. ASSUME NEW i \in used
      PROVE  IF m[i].kind \in FlowKinds THEN m[i].obj \in lines /\ m[i].side \in {0, 1} ELSE m[i].obj \in Buses(nodes)
  <2> DEFINE t == WithoutFlows(m, edges)
  <2>1. IF t[i].kind \in FlowKinds THEN t[i].obj \in lines /\ t[i].side \in {0, 1} ELSE t[i].obj \in Buses(nodes)
    BY DEF UsedRows
  <2>2. RowLike(m[i], case.rows[i])
    BY <1>2, <1>4 DEF TablesAlike, RowsLike
  <2>3. t[i].kind = m[i].kind /\ t[i].obj = m[i].obj /\ t[i].side = m[i].side
    BY <1>4, <2>2 DEF WithoutFlows, RowLike, RowFields
  <2> HIDE DEF t
  <2>4. QED
    BY <2>1, <2>3
<1>8. cfg.merge = None => edges = {}
  BY DEF MergedBranches
<1>9. QED
  BY <1>3, <1>4, <1>5, <1>6, <1>7, <1>8

LEMMA AssemblePoses == EInv /\ Assemble => DInv'
<1> SUFFICES ASSUME EInv, Assemble PROVE DInv'
  OBVIOUS
<1>1. /\ UNCHANGED <<case, m, nodes, branches>> /\ sol' = None /\ roleEst' = <<>> /\ result' = None
      /\ case \in Cases /\ TablesAlike(case, m, nodes, branches)
  BY DEF Assemble, tables, EInv
<1> DEFINE edges == MergedBranches(nodes, branches, cfg.merge)
           lines == Lines(nodes, branches, edges)
           used == UsedRows(WithoutFlows(m, edges), nodes, lines)
           sn == Supernodes(nodes, branches, edges)
<1>2. \/ pc' = "failed"
      \/ /\ pc' = cfg.alg /\ ~Rejected
         /\ prob' = [lines |-> lines, sn |-> sn, used |-> used, setup |-> Setup(used),
                     solved |-> ReduceRows(Setup(used).rows, Setup(used).vars, sn)]
  BY DEF Assemble, Setup
<1>3. CASE pc' = "failed"
  BY <1>1, <1>3 DEF DInv
<1>4. CASE /\ pc' = cfg.alg /\ ~Rejected
           /\ prob' = [lines |-> lines, sn |-> sn, used |-> used, setup |-> Setup(used),
                       solved |-> ReduceRows(Setup(used).rows, Setup(used).vars, sn)]
  <2>1. IsCase(case) /\ cfg.alg \in {"wls", "ipm", "ipm_pd"}
    BY <1>1, CasesAssumption DEF IsCase, cfg
  <2>2. Joins(nodes, branches, edges)
    BY MergedJoin
  <2>3. /\ DOMAIN m = DOMAIN case.rows /\ DOMAIN branches = DOMAIN case.branches
        /\ Buses(nodes) = Buses(case.nodes) /\ Buses(nodes) \subseteq DOMAIN nodes /\ DOMAIN nodes = DOMAIN case.nodes
    BY <1>1, SameLines DEF TablesAlike, RowsLike, BranchesLike, NodesLike, Buses
  <2>4. \A i \in DOMAIN m : RowLike(m[i], case.rows[i])
    BY <1>1, <2>3 DEF TablesAlike, RowsLike
  <2>5. \A n \in DOMAIN nodes : NodeLike(nodes[n], case.nodes[n])
    BY <1>1, <2>3 DEF TablesAlike, NodesLike
  <2>6. \A b \in DOMAIN branches : branches[b].ratio \in Int
    BY <1>1, <2>1, <2>3 DEF TablesAlike, BranchesLike, BranchLike, IsCase
  <2> DEFINE Found ==
           /\ used \subseteq DOMAIN m /\ used \subseteq Nat \ {0} /\ IsFiniteSet(used)
           /\ \A i \in used : IF m[i].kind \in FlowKinds THEN m[i].obj \in lines /\ m[i].side \in {0, 1}
                              ELSE m[i].obj \in Buses(nodes)
           /\ lines \subseteq DOMAIN branches /\ edges \cap lines = {}
           /\ edges \in SUBSET Nat /\ IsFiniteSet(edges) /\ edges \subseteq DOMAIN branches
           /\ cfg.merge = None => edges = {}
  <2>7. Found
    <3> DEFINE e == edges
               l == lines
               u == used
    <3>1. e = MergedBranches(nodes, branches, cfg.merge) /\ l = Lines(nodes, branches, e)
          /\ u = UsedRows(WithoutFlows(m, e), nodes, l)
      OBVIOUS
    <3> HIDE DEF e, l, u
    <3>2. /\ u \subseteq DOMAIN m /\ u \subseteq Nat \ {0} /\ IsFiniteSet(u)
          /\ \A i \in u : IF m[i].kind \in FlowKinds THEN m[i].obj \in l /\ m[i].side \in {0, 1}
                             ELSE m[i].obj \in Buses(nodes)
          /\ l \subseteq DOMAIN branches /\ e \cap l = {}
          /\ e \in SUBSET Nat /\ IsFiniteSet(e) /\ e \subseteq DOMAIN branches
          /\ cfg.merge = None => e = {}
      BY <1>1, <3>1, AssembledSets
    <3>3. QED
      BY <3>2, Zenon DEF e, l, u
  <2>8. sn.edges = edges /\ DOMAIN sn.rep = Buses(nodes)
    BY DEF Supernodes
  <2> HIDE DEF edges, lines, used
  <2>9. DOMAIN nodes \subseteq Nat
    BY <2>1, <2>3 DEF IsCase
  <2>10. sn.rep \in [Buses(nodes) -> Buses(nodes)]
    <3>1. ASSUME NEW n \in Buses(nodes) PROVE sn.rep[n] \in Buses(nodes)
      BY <2>2, <2>9, Represented
    <3>2. sn.rep = [n \in Buses(nodes) |-> Representative(nodes, Joined(nodes, branches, edges, n))]
      BY DEF Supernodes
    <3> HIDE DEF sn
    <3>3. QED
      BY <3>1, <3>2
  <2>11. sn.scale \in [Buses(nodes) -> Int]
    BY <2>2, <2>6, <2>7, <2>9, ScalesAll
  <2>12. sn.edges = {} => \A n \in Buses(nodes) : ~IsMerged(sn, n)
    <3>1. ASSUME edges = {}, NEW n \in Buses(nodes) PROVE ~IsMerged(sn, n)
      BY <2>9, <3>1, NoneMerged
    <3>2. QED
      BY <2>8, <3>1
  <2> HIDE DEF sn
  <2>13. /\ prob'.used = used /\ prob'.sn = sn /\ prob'.setup = Setup(used) /\ prob'.lines = lines
         /\ prob'.solved = ReduceRows(Setup(used).rows, Setup(used).vars, sn)
    BY <1>4
  <2>14. RowsByReading(prob', case.rows, cfg)
    <3>1. \A i \in used : m[i].kind \in InjectionKinds => \E a \in Axes : m[i].kind = InjKind[a]
      BY KindOfAxis
    <3>2. RowsByReading(prob', m, cfg)
      BY <2>7, <2>13, <3>1, AssembledRows
    <3>3. \A i \in prob'.used : /\ m[i].kind = case.rows[i].kind /\ m[i].obj = case.rows[i].obj
                                /\ m[i].role = case.rows[i].role
      BY <2>4, <2>7, <2>13 DEF RowLike
    <3>4. QED
      BY <3>2, <3>3, RowsAlike
  <2>15. \A v \in DOMAIN Setup(used).vars : IsBox(Setup(used).vars[v])
    <3>1. \A i \in used : m[i].range \in Int \X Int
      <4>1. \A i \in DOMAIN case.rows : case.rows[i].range \in Int \X Int
        BY <2>1 DEF IsCase
      <4>2. QED
        BY <2>3, <2>4, <2>7, <4>1 DEF RowLike
    <3>2. \A n \in Buses(nodes) :
              nodes[n].input \in [Parts -> [Axes -> Int]] /\ nodes[n].box \in [Parts -> [Axes -> Int \X Int]]
      <4>1. \A n \in DOMAIN case.nodes :
              case.nodes[n].input \in [Parts -> [Axes -> Int]] /\ case.nodes[n].box \in [Parts -> [Axes -> Int \X Int]]
        BY <2>1 DEF IsCase
      <4>2. QED
        BY <2>3, <2>5, <4>1 DEF NodeLike
    <3>3. QED
      BY <2>7, <3>1, <3>2, SetupBoxes
  <2>16. \A i \in used : IF case.rows[i].kind \in FlowKinds
                         THEN case.rows[i].obj \in lines /\ case.rows[i].side \in {0, 1}
                         ELSE case.rows[i].obj \in Buses(case.nodes)
    BY <2>3, <2>4, <2>7 DEF RowLike
  <2>17. cfg.alg = "wls" => edges = {}
    BY <1>4, <2>7 DEF Rejected
  <2>18. Posed(prob', case)
    BY <2>3, <2>7, <2>8, <2>10, <2>11, <2>12, <2>13, <2>14, <2>15, <2>16, <2>17 DEF Posed, cfg
  <2>19. pc' \in {"wls", "ipm", "ipm_pd"} /\ (pc' = "wls" => cfg.alg = "wls")
    BY <1>4, <2>1
  <2>20. Posed(prob, case)'
    BY <1>1, <2>18
  <2>21. cfg' = cfg
    BY <1>1 DEF cfg
  <2>22. QED
    BY <1>1, <2>19, <2>20, <2>21 DEF DInv
<1>5. QED
  BY <1>2, <1>3, <1>4

-----------------------------------------------------------------------------
(* The solver.                                                                 *)
LEMMA AnswerAnswers ==
    ASSUME case \in Cases, TablesAlike(case, m, nodes, branches), Posed(prob, case),
           NEW point \in case.points, NEW success, NEW status, NEW fallback
    PROVE  Answers(Answer(point, success, status, fallback), prob, case)
<1> DEFINE s == Answer(point, success, status, fallback)
<1>1. IsCase(case)
  BY CasesAssumption
<1>2. /\ point.flow \in [DOMAIN case.branches -> [FlowKinds -> Int]] /\ point.volt \in [DOMAIN case.nodes -> Int]
  BY <1>1 DEF IsCase
<1>3. Buses(nodes) = Buses(case.nodes) /\ Buses(case.nodes) \subseteq DOMAIN case.nodes
  BY SameLines DEF Buses
<1>4. /\ s.flow = point.flow
      /\ s.volt = [n \in Buses(nodes) |-> point.volt[prob.sn.rep[n]] + prob.sn.scale[n]]
      /\ s.box = [v \in DOMAIN prob.setup.vars |-> InBox(prob.setup.vars[v], point[v[2]])]
  BY DEF Answer
<1> HIDE DEF s
<1>5. s.volt \in [Buses(case.nodes) -> Int]
  <2>1. ASSUME NEW n \in Buses(case.nodes) PROVE point.volt[prob.sn.rep[n]] + prob.sn.scale[n] \in Int
    <3>1. prob.sn.rep[n] \in DOMAIN case.nodes /\ prob.sn.scale[n] \in Int
      BY <1>3 DEF Posed
    <3>2. QED
      BY <1>2, <3>1
  <2>2. QED
    BY <1>3, <1>4, <2>1
<1>6. \A v \in DOMAIN prob.setup.vars : InBox(prob.setup.vars[v], point[v[2]]) \in Int
  BY DEF Posed, IsBox, InBox
<1>7. QED
  BY <1>2, <1>4, <1>5, <1>6 DEF Answers, s

\* A least squares problem has readings alone.
LEMMA LeastSquaresBare ==
    ASSUME NEW p, NEW c, Posed(p, c), c.cfg.alg = "wls"
    PROVE  PartsOf(p) = {} /\ p.setup.dropped = {} /\ LostOf(p) = {} /\ ConvertedOf(p) = {}
<1>1. RowsByReading(p, c.rows, c.cfg)
  BY DEF Posed
<1>2. PartsOf(p) = {} /\ p.setup.dropped = {}
  BY <1>1 DEF RowsByReading
<1>3. ASSUME NEW i \in p.used PROVE ~OfMember(p, c.rows[i])
  <2>1. ASSUME c.rows[i].kind \in InjectionKinds PROVE ~IsMerged(p.sn, c.rows[i].obj)
    <3>1. c.rows[i].kind \notin FlowKinds
      BY <2>1, KindsApart
    <3>2. c.rows[i].obj \in Buses(c.nodes)
      BY <3>1 DEF Posed
    <3>3. QED
      BY <3>2 DEF Posed
  <2>2. QED
    BY <2>1 DEF OfMember
<1>4. LostOf(p) = {}
  <2>1. \A i \in LostOf(p) : i \in p.used /\ OfMember(p, c.rows[i])
    BY <1>1 DEF RowsByReading
  <2>2. QED
    BY <1>3, <2>1
<1>5. ConvertedOf(p) = {}
  <2>1. \A q \in ConvertedOf(p) : q.id \in p.used /\ OfMember(p, c.rows[q.id])
    BY <1>1 DEF RowsByReading
  <2>2. QED
    BY <1>3, <2>1
<1>6. QED
  BY <1>2, <1>4, <1>5

LEMMA SolveAnswers ==
    ASSUME EInv, DInv, SolvePd \/ SolveIpm \/ SolveWls
    PROVE  DInv'
<1>1. UNCHANGED <<case, m, nodes, branches, prob, roleEst, result>>
  BY DEF SolvePd, SolveIpm, SolveWls, tables
<1>2. pc \in {"ipm_pd", "ipm", "fallback", "wls"}
  BY DEF SolvePd, SolveIpm, SolveWls
<1>3. Posed(prob, case) /\ result = None
  BY <1>2 DEF DInv
<1>4. Posed(prob, case)' /\ result' = None
  BY <1>1, <1>3
<1>5. case \in Cases /\ TablesAlike(case, m, nodes, branches)
  BY DEF EInv
<1>6. CASE pc' = "fallback"
  BY <1>4, <1>6 DEF DInv
<1>7. CASE pc' # "fallback"
  <2>1. /\ \/ pc = "wls" /\ pc' = "results"
           \/ pc' = "boxes"
        /\ \E point \in case.points : \E success, status, fallback : sol' = Answer(point, success, status, fallback)
    <3>1. CASE SolvePd
      BY <1>7, <3>1 DEF SolvePd
    <3>2. CASE SolveIpm
      BY <3>2 DEF SolveIpm
    <3>3. CASE SolveWls
      BY <3>3 DEF SolveWls
    <3>4. QED
      BY <3>1, <3>2, <3>3
  <2>2. Answers(sol', prob, case)
    BY <1>3, <1>5, <2>1, AnswerAnswers
  <2>3. Answers(sol, prob, case)'
    BY <1>1, <2>2
  <2>4. ASSUME pc = "wls" PROVE Overlays(roleEst', sol', prob', case')
    <3>1. case.cfg.alg = "wls" /\ roleEst' = <<>>
      BY <1>1, <2>4 DEF DInv, cfg
    <3>2. PartsOf(prob) = {} /\ prob.setup.dropped = {} /\ LostOf(prob) = {} /\ ConvertedOf(prob) = {}
      BY <1>3, <3>1, LeastSquaresBare
    <3>3. DOMAIN roleEst' = {}
      BY <3>1
    <3>4. QED
      BY <1>1, <3>2, <3>3 DEF Overlays
  <2>5. pc' = "results" => Overlays(roleEst, sol, prob, case)'
    BY <2>1, <2>4
  <2>6. QED
    BY <1>4, <2>1, <2>3, <2>5 DEF DInv
<1>8. QED
  BY <1>6, <1>7

-----------------------------------------------------------------------------
(* The box variables.                                                          *)
LEMMA PartOverlay ==
    ASSUME Posed(prob, case), NEW i \in DOMAIN PartEstimates
    PROVE  /\ \E r \in PartsOf(prob) : r.id = i
           /\ PartEstimates[i] =
                 InBoxes(sol, case.rows[i].obj, RolePart(case.rows[i]), AxisOf(case.rows[i].kind))
<1> DEFINE parts == PartsOf(prob)
           r == CHOOSE r \in parts : r.id = i
<1>1. /\ DOMAIN PartEstimates = {q.id : q \in parts}
      /\ i \in {q.id : q \in parts} => PartEstimates[i] = BoxValue(r.obj, r.part, r.kind)
  BY DEF PartEstimates, PartsOf
<1>2. \E q \in parts : q.id = i
  BY <1>1
<1>3. r \in parts /\ r.id = i
  BY <1>2
<1> HIDE DEF r, parts
<1>4. r.obj = case.rows[i].obj /\ r.kind = AxisOf(case.rows[i].kind) /\ r.part = RolePart(case.rows[i])
  <2>1. \A q \in PartsOf(prob) : /\ q.obj = case.rows[q.id].obj /\ q.kind = AxisOf(case.rows[q.id].kind)
                                 /\ q.part = RolePart(case.rows[q.id])
    BY DEF Posed, RowsByReading
  <2>2. QED
    BY <1>3, <2>1 DEF parts
<1>5. PartEstimates[i] = BoxValue(r.obj, r.part, r.kind)
  BY <1>1, <1>2
<1>6. \A n, part, a : BoxValue(n, part, a) = InBoxes(sol, n, part, a)
  BY DEF BoxValue, InBoxes
<1>7. QED
  BY <1>2, <1>4, <1>5, <1>6 DEF parts

LEMMA ConvertedOverlay ==
    ASSUME TablesAlike(case, m, nodes, branches), Posed(prob, case), NEW i \in DOMAIN ConvertedEstimates
    PROVE  /\ \E q \in ConvertedOf(prob) : q.id = i
           /\ ConvertedEstimates[i] = InjectedBy(case, sol, case.rows[i].obj, AxisOf(case.rows[i].kind))
<1> DEFINE rows == ConvertedOf(prob)
           r == CHOOSE r \in rows : r.id = i
<1>1. /\ DOMAIN ConvertedEstimates = {q.id : q \in rows}
      /\ i \in {q.id : q \in rows} => ConvertedEstimates[i] = Injected(r.obj, AxisOf(r.kind))
  BY DEF ConvertedEstimates, ConvertedOf
<1>2. \E q \in rows : q.id = i
  BY <1>1
<1>3. r \in rows /\ r.id = i
  BY <1>2
<1> HIDE DEF r, rows
<1>4. r.obj = case.rows[i].obj /\ r.kind = case.rows[i].kind /\ i \in prob.used /\ r.kind \in InjectionKinds
  <2>1. \A q \in ConvertedOf(prob) : /\ q.id \in prob.used /\ q.obj = case.rows[q.id].obj
                                     /\ q.kind = case.rows[q.id].kind /\ OfMember(prob, case.rows[q.id])
    BY DEF Posed, RowsByReading
  <2>2. QED
    BY <1>3, <2>1 DEF rows, OfMember
<1>5. r.obj \in DOMAIN nodes
  <2>1. r.obj \in Buses(case.nodes)
    BY <1>4, KindsApart DEF Posed
  <2>2. QED
    BY <2>1 DEF TablesAlike, NodesLike, Buses
<1>6. Injected(r.obj, AxisOf(r.kind)) = InjectedBy(case, sol, r.obj, AxisOf(r.kind))
  BY <1>5, InjectedAlike
<1>7. QED
  BY <1>1, <1>2, <1>4, <1>6 DEF rows

LEMMA BoxesOverlay ==
    ASSUME EInv, DInv, WriteBoxes
    PROVE  DInv'
<1>1. UNCHANGED <<case, m, branches, prob, sol, result>> /\ pc = "boxes" /\ pc' = "results"
  BY DEF WriteBoxes
<1>2. Posed(prob, case) /\ Answers(sol, prob, case) /\ result = None
  BY <1>1 DEF DInv
<1>3. TablesAlike(case, m, nodes, branches)
  BY DEF EInv
<1> DEFINE keys == LostOf(prob) \cup prob.setup.dropped \cup DOMAIN ConvertedEstimates \cup DOMAIN PartEstimates
<1>4. roleEst' = [i \in keys |->
                     IF i \in LostOf(prob) THEN None
                     ELSE IF i \in DOMAIN ConvertedEstimates THEN ConvertedEstimates[i]
                     ELSE IF i \in prob.setup.dropped THEN None
                     ELSE PartEstimates[i]]
  BY Zenon DEF WriteBoxes, Lost, LostOf
<1>5. /\ DOMAIN ConvertedEstimates = {q.id : q \in ConvertedOf(prob)}
      /\ DOMAIN PartEstimates = {q.id : q \in PartsOf(prob)}
  BY DEF ConvertedEstimates, PartEstimates, ConvertedOf, PartsOf
<1>6. DOMAIN roleEst' = keys
  BY <1>4
<1>7. ASSUME NEW i \in keys
      PROVE  \/ i \in LostOf(prob) \cup prob.setup.dropped /\ roleEst'[i] = None
             \/ /\ \E r \in PartsOf(prob) : r.id = i
                /\ roleEst'[i] = InBoxes(sol, case.rows[i].obj, RolePart(case.rows[i]), AxisOf(case.rows[i].kind))
             \/ /\ \E q \in ConvertedOf(prob) : q.id = i
                /\ roleEst'[i] = InjectedBy(case, sol, case.rows[i].obj, AxisOf(case.rows[i].kind))
  <2>1. CASE i \in LostOf(prob)
    BY <1>4, <2>1
  <2>2. CASE i \notin LostOf(prob) /\ i \in DOMAIN ConvertedEstimates
    <3>1. roleEst'[i] = ConvertedEstimates[i]
      BY <1>4, <2>2
    <3>2. QED
      BY <1>2, <1>3, <2>2, <3>1, ConvertedOverlay
  <2>3. CASE i \notin LostOf(prob) /\ i \notin DOMAIN ConvertedEstimates /\ i \in prob.setup.dropped
    BY <1>4, <2>3
  <2>4. CASE i \notin LostOf(prob) /\ i \notin DOMAIN ConvertedEstimates /\ i \notin prob.setup.dropped
    <3>1. roleEst'[i] = PartEstimates[i] /\ i \in DOMAIN PartEstimates
      BY <1>4, <2>4
    <3>2. QED
      BY <1>2, <3>1, PartOverlay
  <2>5. QED
    BY <2>1, <2>2, <2>3, <2>4
<1>8. \A r \in PartsOf(prob) \cup ConvertedOf(prob) : r.id \in DOMAIN roleEst'
  BY <1>5, <1>6
<1>9. Overlays(roleEst', sol, prob, case)
  BY <1>6, <1>7, <1>8 DEF Overlays
<1>10. Overlays(roleEst, sol, prob, case)' /\ Posed(prob, case)' /\ Answers(sol, prob, case)'
  BY <1>1, <1>2, <1>9
<1>11. QED
  BY <1>1, <1>2, <1>10 DEF DInv

-----------------------------------------------------------------------------
(* The results.                                                                *)
LEMMA NodesPlaced ==
    ASSUME NEW net, NEW br, NEW br2, NEW lines, NEW flow, NEW volt, NEW sn, NEW flows,
           NEW n \in Buses(net), DOMAIN net[n] = NodeFields
    PROVE  /\ MergedNodeResults(NodeResults(net, br, lines, flow, volt), br2, sn, flows)[n].vm = volt[n]
           /\ ~IsMerged(sn, n) =>
                 MergedNodeResults(NodeResults(net, br, lines, flow, volt), br2, sn, flows)[n].calc =
                    [a \in Axes |-> Sent(br, lines, flow, a, n)]
<1> DEFINE mid == NodeResults(net, br, lines, flow, volt)
           calc == [a \in Axes |-> Sent(br, lines, flow, a, n)]
           imb == [a \in Axes |-> calc[a] - (net[n].input["gen"][a] - net[n].input["load"][a])]
           new == MergedNodeResults(mid, br2, sn, flows)
<1>1. mid[n] = [net[n] EXCEPT !.vm = volt[n], !.solved = TRUE, !.calc = calc, !.imb = imb]
  <2>1. n \in DOMAIN net
    BY DEF Buses
  <2>2. QED
    BY <2>1, SMT DEF NodeResults
<1>2. n \in DOMAIN mid
  BY DEF NodeResults, Buses
<1> HIDE DEF calc, imb, mid
<1>3. DOMAIN mid[n] = NodeFields /\ mid[n].vm = volt[n] /\ mid[n].calc = calc
  BY <1>1 DEF NodeFields
<1> DEFINE c2 == [a \in Axes |-> mid[n].calc[a] + Sent(br2, sn.edges, flows, a, n)]
           d2 == [a \in Axes |-> mid[n].imb[a] + Sent(br2, sn.edges, flows, a, n)]
<1>4. \/ new[n] = mid[n]
      \/ IsMerged(sn, n) /\ new[n] = [mid[n] EXCEPT !.calc = c2, !.imb = d2]
  BY <1>2, SMT DEF MergedNodeResults
<1> HIDE DEF c2, d2, new
<1>5. new[n].vm = volt[n]
  <2>1. CASE new[n] = mid[n]
    BY <1>3, <2>1
  <2>2. CASE new[n] = [mid[n] EXCEPT !.calc = c2, !.imb = d2]
    <3>1. [mid[n] EXCEPT !.calc = c2, !.imb = d2].vm = mid[n].vm
      BY <1>3 DEF NodeFields
    <3>2. QED
      BY <1>3, <2>2, <3>1
  <2>3. QED
    BY <1>4, <2>1, <2>2
<1>6. ~IsMerged(sn, n) => new[n].calc = calc
  BY <1>3, <1>4
<1>7. QED
  BY <1>5, <1>6 DEF new, mid, calc

LEMMA BranchesPlaced ==
    ASSUME NEW net, NEW lines, NEW flow, NEW flows, NEW b \in DOMAIN net, b \in lines, b \notin DOMAIN flows,
           DOMAIN net[b] = BranchFields
    PROVE  MergedBranchResults(BranchResults(net, lines, flow), flows)[b].flow = flow[b]
<1>1. BranchResults(net, lines, flow)[b] = [net[b] EXCEPT !.flow = flow[b]] /\ b \in DOMAIN BranchResults(net, lines, flow)
  BY DEF BranchResults
<1>2. MergedBranchResults(BranchResults(net, lines, flow), flows)[b] = BranchResults(net, lines, flow)[b]
  BY <1>1 DEF MergedBranchResults
<1>3. [net[b] EXCEPT !.flow = flow[b]].flow = flow[b]
  BY DEF BranchFields
<1>4. QED
  BY <1>1, <1>2, <1>3

LEMMA ResultsPlace ==
    ASSUME EInv, DInv, WriteResults
    PROVE  DInv'
<1>1. UNCHANGED <<case, m, prob, sol, roleEst, result>> /\ pc = "results" /\ pc' = "rows"
  BY DEF WriteResults
<1>2. Posed(prob, case) /\ Answers(sol, prob, case) /\ Overlays(roleEst, sol, prob, case) /\ result = None
  BY <1>1 DEF DInv
<1>3. TablesAlike(case, m, nodes, branches)
  BY DEF EInv
<1> DEFINE flows == MergedFlows(nodes, branches, prob.sn, Outflow)
<1>4. /\ nodes' = MergedNodeResults(NodeResults(nodes, branches, prob.lines, sol.flow, sol.volt),
                                    branches, prob.sn, flows)
      /\ branches' = MergedBranchResults(BranchResults(branches, prob.lines, sol.flow), flows)
  BY DEF WriteResults
<1>5. DOMAIN flows = prob.sn.edges
  BY DEF MergedFlows
<1> HIDE DEF flows
<1>6. ASSUME NEW n \in Buses(case.nodes)
      PROVE  /\ nodes'[n].vm = sol.volt[n]
             /\ ~IsMerged(prob.sn, n) =>
                   \A a \in Axes : nodes'[n].calc[a] = Sent(case.branches, prob.lines, sol.flow, a, n)
  <2>1. n \in Buses(nodes) /\ DOMAIN nodes[n] = NodeFields
    BY <1>3, SameLines DEF TablesAlike, NodesLike, NodeLike, Buses
  <2>2. /\ nodes'[n].vm = sol.volt[n]
        /\ ~IsMerged(prob.sn, n) =>
              nodes'[n].calc = [a \in Axes |-> Sent(branches, prob.lines, sol.flow, a, n)]
    BY <1>4, <2>1, NodesPlaced
  <2>3. \A a : Sent(branches, prob.lines, sol.flow, a, n) = Sent(case.branches, prob.lines, sol.flow, a, n)
    BY <1>2, <1>3, SentAlike DEF Posed
  <2>4. QED
    BY <2>2, <2>3
<1>7. ASSUME NEW b \in prob.lines PROVE branches'[b].flow = sol.flow[b]
  <2>1. b \in DOMAIN branches /\ DOMAIN branches[b] = BranchFields /\ b \notin DOMAIN flows
    BY <1>2, <1>3, <1>5 DEF Posed, TablesAlike, BranchesLike, BranchLike
  <2>2. QED
    BY <1>4, <2>1, BranchesPlaced
<1>8. Placed(nodes', branches', sol, prob, case)
  BY <1>6, <1>7 DEF Placed
<1>9. Placed(nodes, branches, sol, prob, case)' /\ Posed(prob, case)' /\ Answers(sol, prob, case)'
      /\ Overlays(roleEst, sol, prob, case)'
  BY <1>1, <1>2, <1>8
<1>10. QED
  BY <1>1, <1>2, <1>9 DEF DInv

LEMMA MeasurementsMeasure ==
    ASSUME EInv, DInv, WriteMeasurements
    PROVE  DInv'
<1>1. UNCHANGED <<case, nodes, branches, prob, sol, roleEst, result>> /\ pc = "rows" /\ pc' \in {"split", "balance"}
  BY DEF WriteMeasurements
<1>2. /\ Posed(prob, case) /\ Answers(sol, prob, case) /\ Overlays(roleEst, sol, prob, case) /\ result = None
      /\ Placed(nodes, branches, sol, prob, case)
  BY <1>1 DEF DInv
<1>3. TablesAlike(case, m, nodes, branches)
  BY DEF EInv
<1>4. DOMAIN m = DOMAIN case.rows
  BY <1>3 DEF TablesAlike, RowsLike
<1>5. \A i \in DOMAIN m : m'[i].est = IF i \in DOMAIN roleEst THEN roleEst[i]
                                      ELSE IF i \in prob.used THEN Evaluated(m[i]) ELSE None
  BY <1>3, MeasurementsTables
<1>6. \A i \in DOMAIN m : Evaluated(m[i]) = EvaluatedBy(case, prob, sol, case.rows[i])
  BY <1>2, <1>3, EvaluatedAlike
<1>7. Measures(m', roleEst, sol, prob, case)
  BY <1>4, <1>5, <1>6 DEF Measures
<1>8. Measures(m, roleEst, sol, prob, case)' /\ Posed(prob, case)' /\ Answers(sol, prob, case)'
      /\ Overlays(roleEst, sol, prob, case)' /\ Placed(nodes, branches, sol, prob, case)'
  BY <1>1, <1>2, <1>7
<1>9. QED
  BY <1>1, <1>2, <1>8 DEF DInv

-----------------------------------------------------------------------------
(* Generation and load: the voltages and the injections stay.                  *)
LEMMA StaysPlaced ==
    ASSUME NEW net, NodesLike(net, case.nodes), NEW new, NEW bs, NEW s, NEW p, Placed(net, bs, s, p, case),
           \A n \in DOMAIN net : new[n] = net[n] \/ \E e : new[n] = [net[n] EXCEPT !.est = e]
    PROVE  Placed(new, bs, s, p, case)
<1>1. ASSUME NEW n \in Buses(case.nodes) PROVE new[n].vm = net[n].vm /\ new[n].calc = net[n].calc
  <2>1. n \in DOMAIN net /\ DOMAIN net[n] = NodeFields
    BY DEF NodesLike, NodeLike, Buses
  <2>2. CASE new[n] = net[n]
    BY <2>2
  <2>3. ASSUME NEW e, new[n] = [net[n] EXCEPT !.est = e] PROVE new[n].vm = net[n].vm /\ new[n].calc = net[n].calc
    BY <2>1, <2>3 DEF NodeFields
  <2>4. QED
    BY <2>1, <2>2, <2>3
<1>2. QED
  BY <1>1 DEF Placed

LEMMA SplitPlaced ==
    ASSUME EInv, DInv, SplitWls
    PROVE  DInv'
<1> DEFINE mid == SplitInjections(nodes)
<1>1. UNCHANGED <<case, m, branches, prob, sol, roleEst, result>> /\ pc = "split" /\ pc' = "balance"
      /\ nodes' = ApplyLoadCharacteristic(mid)
  BY DEF SplitWls
<1>2. /\ Posed(prob, case) /\ Answers(sol, prob, case) /\ Overlays(roleEst, sol, prob, case) /\ result = None
      /\ Placed(nodes, branches, sol, prob, case) /\ Measures(m, roleEst, sol, prob, case)
  BY <1>1 DEF DInv
<1>3. NodesLike(nodes, case.nodes)
  BY DEF EInv, TablesAlike
<1>4. /\ DOMAIN mid = DOMAIN nodes
      /\ \A n \in DOMAIN nodes : mid[n] = nodes[n] \/ \E e : mid[n] = [nodes[n] EXCEPT !.est = e]
  BY SplitLike
<1> HIDE DEF mid
<1>5. NodesLike(mid, case.nodes) /\ Placed(mid, branches, sol, prob, case)
  BY <1>2, <1>3, <1>4, EstimatedLike, StaysPlaced
<1>6. \A n \in DOMAIN mid : nodes'[n] = mid[n] \/ \E e : nodes'[n] = [mid[n] EXCEPT !.est = e]
  BY <1>1, CharacteristicLike
<1>7. Placed(nodes', branches, sol, prob, case)
  BY <1>5, <1>6, StaysPlaced
<1>8. Measures(m, roleEst, sol, prob, case)' /\ Posed(prob, case)' /\ Answers(sol, prob, case)'
      /\ Overlays(roleEst, sol, prob, case)' /\ Placed(nodes, branches, sol, prob, case)'
  BY <1>1, <1>2, <1>7
<1>9. QED
  BY <1>1, <1>2, <1>8 DEF DInv

LEMMA ReconcilePlaced ==
    ASSUME EInv, DInv, Reconcile
    PROVE  DInv'
<1>1. UNCHANGED <<case, m, branches, prob, sol, roleEst, result>> /\ pc = "balance" /\ pc' = "return"
      /\ nodes' = IF cfg.reconcile THEN ReconcileNodeBalance(nodes, cfg.respect) ELSE nodes
  BY DEF Reconcile
<1>2. /\ Posed(prob, case) /\ Answers(sol, prob, case) /\ Overlays(roleEst, sol, prob, case) /\ result = None
      /\ Placed(nodes, branches, sol, prob, case) /\ Measures(m, roleEst, sol, prob, case)
  BY <1>1 DEF DInv
<1>3. NodesLike(nodes, case.nodes)
  BY DEF EInv, TablesAlike
<1>4. \A n \in DOMAIN nodes : nodes'[n] = nodes[n] \/ \E e : nodes'[n] = [nodes[n] EXCEPT !.est = e]
  <2> DEFINE new == ReconcileNodeBalance(nodes, cfg.respect)
  <2>1. \A n \in DOMAIN nodes : new[n] = nodes[n] \/ \E e : new[n] = [nodes[n] EXCEPT !.est = e]
    BY ReconcileLike, Zenon
  <2>2. nodes' = new \/ nodes' = nodes
    BY <1>1
  <2> HIDE DEF new
  <2>3. QED
    BY <2>1, <2>2
<1>5. Placed(nodes', branches, sol, prob, case)
  BY <1>2, <1>3, <1>4, StaysPlaced
<1>6. Measures(m, roleEst, sol, prob, case)' /\ Posed(prob, case)' /\ Answers(sol, prob, case)'
      /\ Overlays(roleEst, sol, prob, case)' /\ Placed(nodes, branches, sol, prob, case)'
  BY <1>1, <1>2, <1>5
<1>7. QED
  BY <1>1, <1>2, <1>6 DEF DInv

LEMMA ReturnSums ==
    ASSUME EInv, DInv, Return
    PROVE  DInv'
<1>1. /\ UNCHANGED <<case, m, nodes, branches, prob, sol, roleEst>> /\ pc = "return" /\ pc' = "done"
      /\ result'.objective = Objective /\ result'.summary = SummaryIds
  BY DEF Return, tables
<1>2. /\ Posed(prob, case) /\ Answers(sol, prob, case) /\ Overlays(roleEst, sol, prob, case)
      /\ Placed(nodes, branches, sol, prob, case) /\ Measures(m, roleEst, sol, prob, case)
  BY <1>1 DEF DInv
<1>3. ASSUME NEW i \in prob.used
      PROVE  m[i].kind = case.rows[i].kind /\ m[i].obj = case.rows[i].obj /\ m[i].pseudo = case.rows[i].pseudo
  BY <1>2 DEF EInv, TablesAlike, RowsLike, RowLike, Posed
<1>4. BaseIds(m, prob.used, prob.sn) = {i \in prob.used : ~OfMember(prob, case.rows[i])}
  BY <1>3 DEF BaseIds, OfMember
<1>5. {r.id : r \in {q \in prob.solved : q.form = "converted"}} = {q.id : q \in ConvertedOf(prob)}
  BY DEF ConvertedOf
<1>6. (\E r \in prob.setup.rows : r.block = "part") <=> PartsOf(prob) # {}
  BY DEF PartsOf
<1> DEFINE ids == IF prob.sn.edges # {} \/ prob.setup.dropped # {} \/ PartsOf(prob) # {}
                  THEN {q.id : q \in prob.solved} \ {0} ELSE prob.used
<1>7. ids \subseteq prob.used
  BY <1>2 DEF Posed, RowsByReading
<1>8. SummaryIds = {i \in ids : ~m[i].pseudo}
  BY <1>6 DEF SummaryIds
<1> HIDE DEF ids
<1>9. SummaryIds = {i \in ids : ~case.rows[i].pseudo}
  BY <1>3, <1>7, <1>8
<1>10. Summed(result', prob, case)
  BY <1>1, <1>4, <1>5, <1>9 DEF Summed, Objective, ids
<1>11. Measures(m, roleEst, sol, prob, case)' /\ Posed(prob, case)' /\ Answers(sol, prob, case)'
      /\ Overlays(roleEst, sol, prob, case)' /\ Placed(nodes, branches, sol, prob, case)'
      /\ Summed(result, prob, case)'
  BY <1>1, <1>2, <1>10
<1>12. QED
  BY <1>1, <1>11 DEF DInv

-----------------------------------------------------------------------------
(* What the invariant says of the rows.                                        *)
LEMMA RowDescribed ==
    ASSUME EInv, Posed(prob, case), Answers(sol, prob, case), Overlays(roleEst, sol, prob, case),
           Placed(nodes, branches, sol, prob, case), Measures(m, roleEst, sol, prob, case),
           NEW i \in DOMAIN m, m[i].est # None
    PROVE  i \in prob.used /\ Described(i)
<1> DEFINE t == case.rows[i]
           a == AxisOf(t.kind)
           part == \E q \in prob.solved : q.id = i /\ q.block = "part"
           fitted == \E q \in prob.solved : q.id = i
<1>1. case \in Cases /\ TablesAlike(case, m, nodes, branches) /\ RowsByReading(prob, case.rows, case.cfg)
  BY DEF EInv, Posed
<1>2. i \in DOMAIN case.rows /\ m[i].kind = t.kind /\ m[i].obj = t.obj /\ m[i].side = t.side /\ m[i].role = t.role
  BY <1>1 DEF TablesAlike, RowsLike, RowLike
<1>3. RolePart(m[i]) = RolePart(t)
  BY <1>2 DEF RolePart
<1>4. m[i].est = IF i \in DOMAIN roleEst THEN roleEst[i]
                 ELSE IF i \in prob.used THEN EvaluatedBy(case, prob, sol, t) ELSE None
  BY <1>2 DEF Measures
<1>5. part => \E r \in PartsOf(prob) : r.id = i
  BY <1>1 DEF RowsByReading
<1>6. \A n, x : BoxValue(n, RolePart(t), x) = InBoxes(sol, n, RolePart(t), x)
  BY DEF BoxValue, InBoxes
<1>7. CASE i \in DOMAIN roleEst /\ \E r \in PartsOf(prob) : r.id = i
  <2>1. i \in prob.used /\ t.kind \in InjectionKinds /\ part /\ i \notin LostOf(prob) \cup prob.setup.dropped
        /\ ~\E q \in ConvertedOf(prob) : q.id = i
    BY <1>1, <1>7 DEF RowsByReading, Solves
  <2>2. m[i].est = InBoxes(sol, t.obj, RolePart(t), a)
    BY <1>4, <1>7, <2>1 DEF Overlays
  <2>3. t.kind # "V" /\ t.kind \notin FlowKinds
    BY <2>1, KindsApart
  <2> HIDE DEF part
  <2>4. QED
    BY <1>2, <1>3, <1>6, <2>1, <2>2, <2>3 DEF Described, part
<1>8. CASE i \in DOMAIN roleEst /\ ~\E r \in PartsOf(prob) : r.id = i
  <2>1. (\E q \in ConvertedOf(prob) : q.id = i) /\ m[i].est = InjectedBy(case, sol, t.obj, a)
    BY <1>4, <1>8 DEF Overlays
  <2>2. i \in prob.used /\ t.kind \in InjectionKinds /\ IsMerged(prob.sn, t.obj)
    BY <1>1, <2>1 DEF RowsByReading, OfMember
  <2>3. t.kind # "V" /\ t.kind \notin FlowKinds
    BY <2>2, KindsApart
  <2>4. t.obj \in DOMAIN nodes
    <3>1. t.obj \in Buses(case.nodes)
      BY <2>2, <2>3 DEF Posed
    <3>2. QED
      BY <1>1, <3>1 DEF TablesAlike, NodesLike, Buses
  <2>5. Injected(t.obj, a) = InjectedBy(case, sol, t.obj, a)
    BY <1>1, <2>4, InjectedAlike
  <2>6. ~part
    BY <1>5, <1>8
  <2> HIDE DEF part
  <2>7. QED
    BY <1>2, <2>1, <2>2, <2>3, <2>5, <2>6 DEF Described, part
<1>9. CASE i \notin DOMAIN roleEst
  <2>1. i \in prob.used /\ m[i].est = EvaluatedBy(case, prob, sol, t)
    BY <1>4, <1>9
  <2>2. ~part
    BY <1>5, <1>9 DEF Overlays
  <2>3. CASE t.kind \in FlowKinds
    <3>1. t.obj \in prob.lines /\ t.side \in {0, 1}
      BY <2>1, <2>3 DEF Posed
    <3>2. branches[t.obj].flow[t.kind] = sol.flow[t.obj][t.kind]
      BY <3>1 DEF Placed
    <3>3. sol.flow[t.obj][t.kind] \in Int
      BY <2>3, <3>1 DEF Posed, Answers
    <3>4. m[i].est = IF t.side = 0 THEN sol.flow[t.obj][t.kind] ELSE -sol.flow[t.obj][t.kind]
      BY <2>1, <2>3, KindsApart DEF EvaluatedBy
    <3>5. m[i].est = (IF t.side = 0 THEN 1 ELSE -1) * branches[t.obj].flow[t.kind]
      BY <3>2, <3>3, <3>4
    <3>6. t.kind # "V" /\ t.kind \notin InjectionKinds
      BY <2>3, KindsApart
    <3> HIDE DEF part
    <3>7. QED
      BY <1>2, <2>1, <2>2, <2>3, <3>5, <3>6 DEF Described, part
  <2>4. CASE t.kind \notin FlowKinds
    <3>1. t.obj \in Buses(case.nodes)
      BY <2>1, <2>4 DEF Posed
    <3>2. t.kind = "V" => m[i].est = nodes[t.obj].vm
      BY <2>1, <3>1, KindsApart DEF EvaluatedBy, Placed
    <3>3. ASSUME t.kind \in InjectionKinds, IsMerged(prob.sn, t.obj) PROVE ~fitted
      <4>1. OfMember(prob, t)
        BY <3>3 DEF OfMember
      <4>2. ASSUME fitted PROVE FALSE
        <5>1. \E r \in PartsOf(prob) \cup ConvertedOf(prob) : r.id = i
          BY <1>1, <2>1, <4>1, <4>2 DEF RowsByReading, Solves
        <5>2. QED
          BY <1>9, <5>1 DEF Overlays
      <4>3. QED
        BY <4>2
    <3>4. ASSUME t.kind \in InjectionKinds, ~IsMerged(prob.sn, t.obj) PROVE m[i].est = nodes[t.obj].calc[a]
      <4>1. a \in Axes
        BY <3>4, KindsApart
      <4>2. m[i].est = Sent(case.branches, prob.lines, sol.flow, a, t.obj)
        BY <2>1, <3>4, KindsApart DEF EvaluatedBy
      <4>3. QED
        BY <3>1, <3>4, <4>1, <4>2 DEF Placed
    <3> HIDE DEF part, fitted
    <3>5. QED
      BY <1>2, <2>1, <2>2, <2>4, <3>2, <3>3, <3>4 DEF Described, part, fitted
  <2>5. QED
    BY <2>3, <2>4
<1>10. QED
  BY <1>7, <1>8, <1>9

\* A row has an estimate unless it was lost to the reduction or to its parts.
LEMMA RowEstimated ==
    ASSUME EInv, Posed(prob, case), Answers(sol, prob, case), Overlays(roleEst, sol, prob, case),
           Measures(m, roleEst, sol, prob, case), NEW i \in prob.used
    PROVE  /\ i \in DOMAIN m
           /\ m[i].est # None <=> i \notin LostOf(prob) \cup prob.setup.dropped
<1>1. case \in Cases /\ TablesAlike(case, m, nodes, branches) /\ RowsByReading(prob, case.rows, case.cfg)
  BY DEF EInv, Posed
<1>2. i \in DOMAIN m /\ i \in DOMAIN case.rows
  BY <1>1 DEF TablesAlike, RowsLike, Posed
<1>3. m[i].est = IF i \in DOMAIN roleEst THEN roleEst[i] ELSE EvaluatedBy(case, prob, sol, case.rows[i])
  BY <1>2 DEF Measures
<1>4. None \notin Int
  BY NumbersAssumption
<1>5. ASSUME i \in LostOf(prob) \cup prob.setup.dropped PROVE m[i].est = None
  <2>1. i \in DOMAIN roleEst
    BY <1>5 DEF Overlays
  <2>2. (~\E r \in PartsOf(prob) : r.id = i) /\ ~\E q \in ConvertedOf(prob) : q.id = i
    BY <1>1, <1>5 DEF RowsByReading, Solves, ConvertedOf
  <2>3. QED
    BY <1>3, <2>1, <2>2 DEF Overlays
<1>6. ASSUME i \notin LostOf(prob) \cup prob.setup.dropped PROVE m[i].est \in Int
  <2>1. CASE i \notin DOMAIN roleEst
    BY <1>1, <1>3, <2>1, EvaluatedIsNumber
  <2>2. CASE i \in DOMAIN roleEst
    <3>1. \/ roleEst[i] = InBoxes(sol, case.rows[i].obj, RolePart(case.rows[i]), AxisOf(case.rows[i].kind))
          \/ /\ \E q \in ConvertedOf(prob) : q.id = i
             /\ roleEst[i] = InjectedBy(case, sol, case.rows[i].obj, AxisOf(case.rows[i].kind))
      BY <1>6, <2>2 DEF Overlays
    <3>2. CASE roleEst[i] = InBoxes(sol, case.rows[i].obj, RolePart(case.rows[i]), AxisOf(case.rows[i].kind))
      BY <1>3, <2>2, <3>2, BoxIsNumber
    <3>3. CASE /\ \E q \in ConvertedOf(prob) : q.id = i
               /\ roleEst[i] = InjectedBy(case, sol, case.rows[i].obj, AxisOf(case.rows[i].kind))
      <4>1. case.rows[i].kind \in InjectionKinds
        BY <1>1, <3>3 DEF RowsByReading, OfMember
      <4>2. AxisOf(case.rows[i].kind) \in Axes /\ case.rows[i].kind \notin FlowKinds
        BY <4>1, KindsApart
      <4>3. case.rows[i].obj \in DOMAIN case.nodes
        BY <4>2 DEF Posed, Buses
      <4>4. InjectedBy(case, sol, case.rows[i].obj, AxisOf(case.rows[i].kind)) \in Int
        BY <1>1, <4>2, <4>3, InjectedIsNumber
      <4>5. QED
        BY <1>3, <2>2, <3>3, <4>4
    <3>4. QED
      BY <3>1, <3>2, <3>3
  <2>3. QED
    BY <2>1, <2>2
<1>7. QED
  BY <1>2, <1>4, <1>5, <1>6

LEMMA RowsDescribed ==
    ASSUME EInv, DInv
    PROVE  EstimatesDescribeRows
<1> SUFFICES ASSUME pc \in {"split", "balance", "return", "done"}
             PROVE  /\ \A i \in DOMAIN m : m[i].est # None => i \in prob.used /\ Described(i)
                    /\ {r.id : r \in prob.solved} \ {0} \subseteq {i \in DOMAIN m : m[i].est # None}
                    /\ result # None =>
                        /\ cfg.roles \/ result.objective = {i \in DOMAIN m : m[i].est # None}
                        /\ result.summary = {r.id : r \in {q \in prob.solved : q.id # 0 /\ ~m[q.id].pseudo}}
  BY DEF EstimatesDescribeRows
<1> DEFINE estimated == {i \in DOMAIN m : m[i].est # None}
           solvedIds == {r.id : r \in prob.solved} \ {0}
<1>1. /\ Posed(prob, case) /\ Answers(sol, prob, case) /\ Overlays(roleEst, sol, prob, case)
      /\ Placed(nodes, branches, sol, prob, case) /\ Measures(m, roleEst, sol, prob, case)
  BY DEF DInv
<1>2. RowsByReading(prob, case.rows, case.cfg) /\ case \in Cases /\ TablesAlike(case, m, nodes, branches)
  BY <1>1 DEF Posed, EInv
<1>3. \A i \in DOMAIN m : m[i].est # None => i \in prob.used /\ Described(i)
  BY <1>1, RowDescribed
<1>4. \A i \in prob.used : i \in estimated <=> i \notin LostOf(prob) \cup prob.setup.dropped
  BY <1>1, RowEstimated
<1>5. estimated \subseteq prob.used
  BY <1>3
<1> HIDE DEF estimated
<1>6. \A i \in solvedIds : i \in prob.used /\ Solves(prob, i)
  BY <1>2 DEF RowsByReading, Solves
<1>7. solvedIds \subseteq estimated
  <2>1. \A i \in LostOf(prob) \cup prob.setup.dropped : ~Solves(prob, i)
    BY <1>2 DEF RowsByReading
  <2>2. QED
    BY <1>4, <1>6, <2>1
<1>8. ASSUME result # None PROVE Summed(result, prob, case)
  BY <1>8 DEF DInv
<1>9. ASSUME result # None, ~cfg.roles PROVE result.objective = estimated
  <2>1. result.objective = {i \in prob.used : ~OfMember(prob, case.rows[i])} \cup {q.id : q \in ConvertedOf(prob)}
    BY <1>8, <1>9 DEF Summed
  <2>2. /\ prob.setup.dropped = {}
        /\ \A i \in prob.used : OfMember(prob, case.rows[i]) => i \in LostOf(prob) \/ \E q \in ConvertedOf(prob) : q.id = i
    BY <1>2, <1>9 DEF RowsByReading, cfg
  <2>3. \A i \in LostOf(prob) : ~Solves(prob, i) /\ OfMember(prob, case.rows[i])
    BY <1>2 DEF RowsByReading
  <2>4. \A q \in ConvertedOf(prob) : q.id \in prob.used /\ Solves(prob, q.id)
    BY <1>2 DEF RowsByReading, ConvertedOf, Solves
  <2>5. ASSUME NEW i \in prob.used PROVE i \in result.objective <=> i \in estimated
    <3>1. CASE OfMember(prob, case.rows[i]) /\ i \in LostOf(prob)
      BY <1>4, <2>1, <2>3, <2>4, <3>1
    <3>2. CASE OfMember(prob, case.rows[i]) /\ i \notin LostOf(prob)
      BY <1>4, <2>1, <2>2, <3>2
    <3>3. CASE ~OfMember(prob, case.rows[i])
      BY <1>4, <2>1, <2>2, <2>3, <3>3
    <3>4. QED
      BY <3>1, <3>2, <3>3
  <2>6. result.objective \subseteq prob.used
    BY <2>1, <2>4
  <2>7. QED
    BY <1>5, <2>5, <2>6
<1>10. ASSUME result # None
       PROVE  result.summary = {r.id : r \in {q \in prob.solved : q.id # 0 /\ ~m[q.id].pseudo}}
  <2>1. \A i \in prob.used : m[i].pseudo = case.rows[i].pseudo
    BY <1>1, <1>2 DEF Posed, TablesAlike, RowsLike, RowLike
  <2> DEFINE ids == IF prob.sn.edges # {} \/ prob.setup.dropped # {} \/ PartsOf(prob) # {}
                    THEN solvedIds ELSE prob.used
  <2>2. result.summary = {i \in ids : ~case.rows[i].pseudo}
    BY <1>8, <1>10 DEF Summed
  <2>3. ids = solvedIds
    <3>1. ASSUME prob.sn.edges = {}, prob.setup.dropped = {}, PartsOf(prob) = {}, NEW i \in prob.used
          PROVE  i \in solvedIds
      <4>1. Solves(prob, i) \/ OfMember(prob, case.rows[i])
        BY <1>2, <3>1 DEF RowsByReading
      <4>2. ~OfMember(prob, case.rows[i])
        <5>1. case.rows[i].kind \in InjectionKinds => case.rows[i].obj \in Buses(case.nodes)
          BY <1>1, KindsApart DEF Posed
        <5>2. \A n \in Buses(case.nodes) : ~IsMerged(prob.sn, n)
          BY <1>1, <3>1 DEF Posed
        <5>3. QED
          BY <5>1, <5>2 DEF OfMember
      <4>3. i # 0
        <5>1. DOMAIN case.rows \subseteq Nat \ {0}
          BY <1>2, CasesAssumption DEF IsCase
        <5>2. QED
          BY <1>1, <5>1 DEF Posed
      <4>4. QED
        BY <4>1, <4>2, <4>3 DEF Solves
    <3>2. CASE prob.sn.edges # {} \/ prob.setup.dropped # {} \/ PartsOf(prob) # {}
      BY <3>2
    <3>3. CASE prob.sn.edges = {} /\ prob.setup.dropped = {} /\ PartsOf(prob) = {}
      <4>1. prob.used = solvedIds
        <5> HIDE DEF solvedIds
        <5>1. QED
          BY <1>6, <3>1, <3>3
      <4>2. QED
        BY <3>3, <4>1
    <3>4. QED
      BY <3>2, <3>3
  <2> HIDE DEF ids
  <2>4. result.summary = {i \in solvedIds : ~m[i].pseudo}
    <3> HIDE DEF solvedIds
    <3>1. QED
      BY <1>6, <2>1, <2>2, <2>3
  <2>5. QED
    BY <2>4
<1>11. QED
  BY <1>3, <1>7, <1>9, <1>10 DEF estimated

-----------------------------------------------------------------------------

\* A removed reading keeps its estimate.
LEMMA RejectDescribes ==
    ASSUME BInv, EInv, DInv, RejectWorst
    PROVE  DInv'
<1>1. /\ Cleaning /\ UNCHANGED <<case, nodes, branches, prob, sol, roleEst, result>>
      /\ pc' \in {"call", "done"} /\ pc = "done"
  BY DEF RejectWorst, Cleaning
<1>2. PICK bad \in Checked : /\ m' = [m EXCEPT ![bad].status = FALSE, ![bad].quality = Bad]
                             /\ removed' = Append(removed, bad)
  BY DEF RejectWorst
<1>3. DOMAIN m' = DOMAIN m /\ \A i \in DOMAIN m : m'[i].est = m[i].est
  BY <1>1, <1>2, DropOne
<1>4. /\ Posed(prob, case) /\ Answers(sol, prob, case) /\ Overlays(roleEst, sol, prob, case)
      /\ Placed(nodes, branches, sol, prob, case) /\ Measures(m, roleEst, sol, prob, case)
      /\ Summed(result, prob, case)
  BY <1>1 DEF DInv
<1>5. DOMAIN m = DOMAIN case.rows
  BY DEF EInv, TablesAlike, RowsLike
<1>6. Measures(m', roleEst, sol, prob, case)
  BY <1>3, <1>4, <1>5 DEF Measures
<1>7. Measures(m, roleEst, sol, prob, case)' /\ Posed(prob, case)' /\ Answers(sol, prob, case)'
      /\ Overlays(roleEst, sol, prob, case)' /\ Placed(nodes, branches, sol, prob, case)'
      /\ Summed(result, prob, case)'
  BY <1>1, <1>4, <1>6
<1>8. QED
  BY <1>1, <1>7 DEF DInv

LEMMA InitDescribes == Init => DInv
BY DEF Init, EstimateInit, DInv

LEMMA DescribesStill == DInv /\ UNCHANGED evars => DInv'
BY DEF DInv, evars, cfg

LEMMA StepDescribes ==
    ASSUME Inv, EInv, DInv, [Next]_vars
    PROVE  DInv'
<1>1. CASE Solve
  <2>1. EstimateNext
    BY <1>1 DEF Solve
  <2>2. CASE Assemble
    BY <2>2, AssemblePoses
  <2>3. CASE SolvePd \/ SolveIpm \/ SolveWls
    BY <2>3, SolveAnswers
  <2>4. CASE WriteBoxes
    BY <2>4, BoxesOverlay
  <2>5. CASE WriteResults
    BY <2>5, ResultsPlace
  <2>6. CASE WriteMeasurements
    BY <2>6, MeasurementsMeasure
  <2>7. CASE SplitWls
    BY <2>7, SplitPlaced
  <2>8. CASE Reconcile
    BY <2>8, ReconcilePlaced
  <2>9. CASE Return
    BY <2>9, ReturnSums
  <2>10. QED
    BY <2>1, <2>2, <2>3, <2>4, <2>5, <2>6, <2>7, <2>8, <2>9 DEF EstimateNext
<1>2. CASE RejectWorst
  <2>1. BInv
    BY <1>2 DEF RejectWorst, Cleaning, Inv
  <2>2. QED
    BY <1>2, <2>1, RejectDescribes
<1>3. CASE RunTrials \/ EstimateFailed \/ TestPassed \/ UNCHANGED vars
  <2>1. UNCHANGED evars
    BY <1>3 DEF RunTrials, EstimateFailed, TestPassed, StopCleaning, vars
  <2>2. QED
    BY <2>1, DescribesStill
<1>4. QED
  BY <1>1, <1>2, <1>3 DEF Next

(* The estimate of every row is of the quantity it measures, rows that are not *)
(* used have none, and the summary and, without injection roles, the objective *)
(* speak of the rows that have one, for any tables, any options and any answer *)
(* of the solver.  The overlay of the role estimates on those of z (api.py     *)
(* 414-456) is right since a part row is never a converted one and a reading   *)
(* the reduction lost is in no solved row (ipm_setup.py 293-400, supernodes.py *)
(* 347-449).                                                                   *)
THEOREM EstimatesAreDescribed == Spec => []EstimatesDescribeRows
<1>1. Init => Inv /\ EInv /\ DInv
  BY InitInv, InitEnters, InitDescribes
<1>2. Inv /\ EInv /\ DInv /\ [Next]_vars => (Inv /\ EInv /\ DInv)'
  BY InvStep, StepEnters, StepDescribes
<1>3. EInv /\ DInv => EstimatesDescribeRows
  BY RowsDescribed
<1>4. QED
  BY <1>1, <1>2, <1>3, PTL DEF Spec
=============================================================================
