------------------------ MODULE InteriorPointProofs ------------------------
(* Proofs about KktSolver and about IpmPdSolver, the two halves of a           *)
(* primal-dual solve: the systems it asks for and the loop that asks them.     *)
(*                                                                            *)
(* The argument for KktSolver, for every set of positions, every mirroring of *)
(* the triangles, every set of Jacobians and every number of systems:         *)
(* whatever representation is current, the matrix has the                     *)
(* layout of the known pattern and the factor the order analysed for its      *)
(* lower triangle (Consistent).  A breakdown keeps that: it spoils values,    *)
(* never a layout.  So a pattern found unchanged is the layout of the matrix, *)
(* and no value can be lost by writing it there.  The same invariant makes    *)
(* the lower triangle of the known pattern the state of the cache.            *)
(*                                                                            *)
(* The argument for IpmPdSolver, for every limit of the call: at the head of  *)
(* the loop points, iterations and                                            *)
(* factorizations are equally many (AtTest); behind the factorization there   *)
(* is one more of these, taken at this point (Linearized); and every end of a *)
(* search, also of an exhausted one, leaves the residual of the point it      *)
(* moved to.                                                                  *)
EXTENDS IpmPdSolver, KktSolver, TLAPS

-----------------------------------------------------------------------------
(* The KKT solver and its cache.                                              *)

Consistent ==
    /\ mode = "matrix" /\ pattern # Unset =>
          A \in Matrices /\ F \in Factors /\ A.pos = pattern /\ F.order = LowerOf(pattern)
    /\ mode = "gram" /\ seen # Unset =>
          A \in Matrices /\ F \in Factors /\ A.pos = seen /\ F.order = seen

(* While a system is being solved, the representation that factorizes it is   *)
(* the one the solver is in.                                                  *)
Solving ==
    attempt # "idle" =>
        /\ handle = Unset
        /\ call > 0
        /\ backend = "cholmod" => via = mode /\ mode # Unset

KktInv == KktTypeOK /\ Consistent /\ Solving /\ HandleSolvesItsSystem

-----------------------------------------------------------------------------
(* Mirroring adds nothing to the lower triangle.                              *)
LEMMA MirrorIsUpper ==
    ASSUME NEW s \in SUBSET Lower
    PROVE  MirrorOf(s) \in SUBSET Upper /\ LowerOf(s \cup MirrorOf(s)) = s
BY PositionsAssumption DEF MirrorOf, Upper, LowerOf

LEMMA LowerOfLower ==
    ASSUME NEW s \in SUBSET Lower
    PROVE  LowerOf(s) = s
BY DEF LowerOf

(* A system factorized in matrix mode: the layout is the pattern with the     *)
(* system in it, the order its lower triangle, the values those of the system *)
(* unless the factorization broke down.                                       *)
LEMMA MatrixFactor ==
    ASSUME KktInv, attempt # "idle", mode = "matrix", NEW ok \in BOOLEAN,
           NEW known, known = Unset \/ known = pattern, FactorMatrix(known, ok)
    PROVE  /\ pattern' = IF known = Unset THEN low \cup up ELSE low \cup up \cup known
           /\ pattern' \in SUBSET (Lower \cup Upper)
           /\ A' = [pos |-> pattern', of |-> call]
           /\ F' = [order |-> LowerOf(pattern'), of |-> IF ok THEN call ELSE Broken]
           /\ UNCHANGED <<mode, gram, seen>>
<1>1. CASE known = Unset
  BY <1>1 DEF FactorMatrix, KktInv, KktTypeOK, Numeric
<1>2. CASE known # Unset /\ low \cup up \cup known = known
  BY <1>2 DEF FactorMatrix, KktInv, KktTypeOK, Consistent, Numeric, SetValues
<1>3. CASE known # Unset /\ low \cup up \cup known # known
  BY <1>3 DEF FactorMatrix, KktInv, KktTypeOK, Numeric
<1>4. QED
  BY <1>1, <1>2, <1>3

(* The same on the mask of seen positions.                                    *)
LEMMA GramFactor ==
    ASSUME KktInv, attempt # "idle", mode = "gram", NEW ok \in BOOLEAN,
           NEW known, known = Unset \/ known = seen, FactorGram(known, ok)
    PROVE  /\ seen' = IF known = Unset THEN low ELSE low \cup known
           /\ seen' \in SUBSET Lower
           /\ A' = [pos |-> seen', of |-> call]
           /\ F' = [order |-> seen', of |-> IF ok THEN call ELSE Broken]
           /\ UNCHANGED <<mode, gram, pattern>>
<1>1. CASE known = Unset
  BY <1>1, LowerOfLower DEF FactorGram, KktInv, KktTypeOK, Numeric
<1>2. CASE known # Unset /\ low \subseteq known
  <2>1. low \cup known = known /\ known \in SUBSET Lower /\ LowerOf(known) = known
    BY <1>2, LowerOfLower DEF KktInv, KktTypeOK
  <2>2. QED
    BY <1>2, <2>1 DEF FactorGram, KktInv, Consistent, Numeric, SetValues
<1>3. CASE known # Unset /\ ~(low \subseteq known)
  <2>1. low \cup known \in SUBSET Lower /\ LowerOf(low \cup known) = low \cup known
    BY <1>3, LowerOfLower DEF KktInv, KktTypeOK
  <2>2. QED
    BY <1>3, <2>1 DEF FactorGram, Numeric
<1>4. QED
  BY <1>1, <1>2, <1>3

-----------------------------------------------------------------------------
(* A factorization in either representation: consistency stays, the known     *)
(* pattern grows by the system (or is the system, after a reset), and the     *)
(* factor is ordered for it.                                                  *)
LEMMA FactorStep ==
    ASSUME KktInv, backend = "cholmod", attempt # "idle",
           NEW fresh \in BOOLEAN, NEW ok \in BOOLEAN, Factor(fresh, ok),
           UNCHANGED <<backend, kernel, system>>
    PROVE  /\ KktTypeOK' <=> attempt' \in {"first", "idle", "retry"}
                          /\ handle' \in {Unset} \cup [by: {"factor", "direct"}, call: 1..MaxCalls]
           /\ Consistent'
           /\ via' = mode' /\ mode' # Unset
           /\ Known' = IF fresh \/ Known = Unset THEN low ELSE Known \cup low
           /\ F'.order = Known'
           /\ F'.of = IF ok THEN call ELSE Broken
           /\ low \subseteq A'.pos
<1>1. via = mode /\ call \in 1..MaxCalls /\ low \in SUBSET Lower /\ up \in SUBSET Upper
  BY DEF KktInv, Solving, KktTypeOK
<1>2. \A s \in SUBSET (Lower \cup Upper) : s # Unset
  BY PositionsAssumption
<1>3. call \in 0..MaxCalls /\ Broken \in 0..MaxCalls
  BY <1>1, PositionsAssumption DEF Broken
<1>4. "matrix" # Unset /\ "gram" # Unset
  BY PositionsAssumption
<1>5. CASE via = "matrix" /\ FactorMatrix(IF fresh THEN Unset ELSE pattern, ok)
  <2> DEFINE known == IF fresh THEN Unset ELSE pattern
  <2>1. known = Unset \/ known \in SUBSET (Lower \cup Upper)
    BY DEF KktInv, KktTypeOK
  <2>2. /\ pattern' = IF known = Unset THEN low \cup up ELSE low \cup up \cup known
        /\ pattern' \in SUBSET (Lower \cup Upper)
        /\ A' = [pos |-> pattern', of |-> call]
        /\ F' = [order |-> LowerOf(pattern'), of |-> IF ok THEN call ELSE Broken]
        /\ UNCHANGED <<mode, gram, seen>>
    BY <1>1, <1>5, MatrixFactor
  <2>3. LowerOf(pattern') = IF known = Unset THEN low ELSE low \cup LowerOf(known)
    BY <1>1, <2>2, PositionsAssumption DEF LowerOf
  <2>4. LowerOf(pattern') \in SUBSET Lower
    BY DEF LowerOf
  <2>5. A' \in Matrices /\ F' \in Factors
    BY <1>3, <2>2, <2>4 DEF Matrices, Factors
  <2>6. pattern' # Unset /\ mode = "matrix" /\ mode' = "matrix"
    BY <1>1, <1>2, <1>5, <2>2
  <2>7. Known' = LowerOf(pattern') /\ Known = (IF pattern = Unset THEN Unset ELSE LowerOf(pattern))
    BY <2>6 DEF Known
  <2>8. Known' = IF fresh \/ Known = Unset THEN low ELSE Known \cup low
    <3>1. CASE fresh
      BY <2>3, <2>7, <3>1
    <3>2. CASE ~fresh /\ pattern = Unset
      BY <2>3, <2>7, <3>2
    <3>3. CASE ~fresh /\ pattern # Unset
      <4>1. LowerOf(pattern) # Unset
        BY <1>2 DEF LowerOf
      <4>2. QED
        BY <2>3, <2>7, <3>3, <4>1
    <3>4. QED
      BY <3>1, <3>2, <3>3
  <2>9. Consistent'
    BY <1>4, <2>2, <2>5, <2>6 DEF Consistent
  <2>10. low \subseteq A'.pos
    BY <2>2
  <2>11. KktTypeOK' <=> attempt' \in {"first", "idle", "retry"}
                     /\ handle' \in {Unset} \cup [by: {"factor", "direct"}, call: 1..MaxCalls]
    BY <1>4, <2>2, <2>5, <2>6 DEF KktInv, KktTypeOK, system
  <2>12. QED
    BY <1>1, <1>4, <2>2, <2>6, <2>7, <2>8, <2>9, <2>10, <2>11 DEF system
<1>6. CASE via = "gram" /\ FactorGram(IF fresh THEN Unset ELSE seen, ok)
  <2> DEFINE known == IF fresh THEN Unset ELSE seen
  <2>1. /\ seen' = IF known = Unset THEN low ELSE low \cup known
        /\ seen' \in SUBSET Lower
        /\ A' = [pos |-> seen', of |-> call]
        /\ F' = [order |-> seen', of |-> IF ok THEN call ELSE Broken]
        /\ UNCHANGED <<mode, gram, pattern>>
    BY <1>1, <1>6, GramFactor
  <2>2. A' \in Matrices /\ F' \in Factors
    BY <1>3, <2>1 DEF Matrices, Factors
  <2>3. mode = "gram" /\ mode' = "gram" /\ Known = seen /\ Known' = seen'
    BY <1>1, <1>6, <2>1 DEF Known
  <2>4. Known' = IF fresh \/ Known = Unset THEN low ELSE Known \cup low
    BY <2>1, <2>3
  <2>5. Consistent'
    BY <1>4, <2>1, <2>2, <2>3 DEF Consistent
  <2>6. KktTypeOK' <=> attempt' \in {"first", "idle", "retry"}
                    /\ handle' \in {Unset} \cup [by: {"factor", "direct"}, call: 1..MaxCalls]
    BY <1>4, <2>1, <2>2, <2>3 DEF KktInv, KktTypeOK, system
  <2>7. QED
    BY <1>1, <1>4, <2>1, <2>3, <2>4, <2>5, <2>6 DEF system
<1>7. QED
  BY <1>5, <1>6 DEF Factor

-----------------------------------------------------------------------------
(* The way into a system: the known pattern survives the choice of a          *)
(* representation, consistent with the matrix and the factor.                 *)
LEMMA ToMatrixPathKeeps ==
    ASSUME KktInv, ToMatrixPath
    PROVE  /\ Consistent'
           /\ Known' = Known
           /\ backend = "cholmod" => via' = mode' /\ mode' # Unset
           /\ via' \in {Unset, "gram", "matrix"} /\ mode' \in {Unset, "gram", "matrix"}
           /\ gram' \in {Unset} \cup Jacobians
           /\ seen' \in {Unset} \cup SUBSET Lower
           /\ pattern' \in {Unset} \cup SUBSET (Lower \cup Upper)
           /\ A' \in {Unset} \cup Matrices /\ F' \in {Unset} \cup Factors
           /\ mode' # "gram" => gram' = Unset /\ seen' = Unset
           /\ mode' # "matrix" => pattern' = Unset
<1>1. "matrix" # Unset /\ "gram" # Unset
  BY PositionsAssumption
<1>2. Broken \in 0..MaxCalls
  BY PositionsAssumption DEF Broken
<1>3. \A s \in SUBSET (Lower \cup Upper) : s # Unset
  BY PositionsAssumption
<1>4. CASE mode = "gram" /\ seen # Unset
  <2>1. seen \in SUBSET Lower
    BY <1>4 DEF KktInv, KktTypeOK
  <2>2. MirrorOf(seen) \in SUBSET Upper /\ LowerOf(seen \cup MirrorOf(seen)) = seen
    BY <2>1, MirrorIsUpper
  <2>3. /\ mode' = "matrix" /\ via' = "matrix" /\ gram' = Unset /\ seen' = Unset
        /\ pattern' = seen \cup MirrorOf(seen)
        /\ A' = [pos |-> pattern', of |-> Broken]
        /\ F' = [order |-> LowerOf(pattern'), of |-> Broken]
    BY <1>4 DEF ToMatrixPath, gram_to_matrix_mode
  <2>4. pattern' \in SUBSET (Lower \cup Upper) /\ pattern' # Unset /\ LowerOf(pattern') = seen
    BY <1>3, <2>1, <2>2, <2>3
  <2>5. A' \in Matrices /\ F' \in Factors
    BY <1>2, <2>1, <2>3, <2>4 DEF Matrices, Factors
  <2>6. Known = seen /\ Known' = seen
    BY <1>4, <2>3, <2>4 DEF Known
  <2>7. Consistent'
    BY <2>3, <2>4, <2>5 DEF Consistent
  <2>8. QED
    BY <1>1, <2>3, <2>4, <2>5, <2>6, <2>7
<1>5. CASE mode = "gram" /\ seen = Unset
  BY <1>1, <1>5 DEF ToMatrixPath, gram_to_matrix_mode, Consistent, Known
<1>6. CASE mode # "gram" /\ backend = "cholmod"
  BY <1>1, <1>6 DEF ToMatrixPath, Consistent, Known, KktInv, KktTypeOK
<1>7. CASE mode # "gram" /\ backend # "cholmod"
  BY <1>7 DEF ToMatrixPath, held, Consistent, Known, KktInv, KktTypeOK
<1>8. QED
  BY <1>4, <1>5, <1>6, <1>7

(* The Gram path starts, or goes on with, the mask.                           *)
LEMMA GramPathKeeps ==
    ASSUME KktInv, NEW J \in Jacobians, NEW numba \in BOOLEAN, GramApplies(J, numba),
           via' = "gram", mode' = "gram", gram' = J, UNCHANGED <<seen, pattern, A, F>>
    PROVE  /\ Consistent'
           /\ Known' = Known
           /\ pattern' = Unset
<1>1. CASE mode = "gram"
  BY <1>1 DEF Consistent, Known, KktInv, KktTypeOK
<1>2. CASE mode = Unset
  BY <1>2, PositionsAssumption DEF Consistent, Known, KktInv, KktTypeOK
<1>3. QED
  BY <1>1, <1>2 DEF GramApplies

-----------------------------------------------------------------------------
(* The steps, one action at a time.                                           *)
LEMMA InitKktInv == KktInit => KktInv
<1> SUFFICES ASSUME KktInit PROVE KktInv
  OBVIOUS
<1>1. backend \in {"cholmod", "scipy"} /\ kernel \in BOOLEAN
  BY DEF KktInit, ResolvedBackends, KernelLoaded
<1>2. 0 \in 0..MaxCalls
  BY PositionsAssumption
<1>3. QED
  BY <1>1, <1>2, PositionsAssumption
     DEF KktInit, KktInv, KktTypeOK, Consistent, Solving, HandleSolvesItsSystem

LEMMA AskMatrixStep == KktInv /\ AskMatrix => KktInv' /\ Known' = Known
<1> SUFFICES ASSUME KktInv, AskMatrix PROVE KktInv' /\ Known' = Known
  OBVIOUS
<1>1. ToMatrixPath
  BY DEF AskMatrix
<1>2. call' \in 0..MaxCalls /\ call' > 0
  BY PositionsAssumption DEF AskMatrix, Ask, KktInv, KktTypeOK
<1>3. KktTypeOK'
  BY <1>1, <1>2, ToMatrixPathKeeps DEF AskMatrix, Ask, KktInv, KktTypeOK
<1>4. Solving' /\ HandleSolvesItsSystem'
  BY <1>1, <1>2, ToMatrixPathKeeps DEF AskMatrix, Ask, Solving, HandleSolvesItsSystem
<1>5. QED
  BY <1>1, <1>3, <1>4, ToMatrixPathKeeps DEF KktInv

LEMMA AskNormalStep == KktInv /\ AskNormal => KktInv' /\ Known' = Known /\ low' \in SUBSET Lower
<1> SUFFICES ASSUME KktInv, AskNormal
             PROVE  KktInv' /\ Known' = Known /\ low' \in SUBSET Lower
  OBVIOUS
<1>1. PICK J \in Jacobians, numba \in BOOLEAN :
          /\ low' \in SUBSET (J.low \cup Diagonal)
          /\ up' \in SUBSET MirrorOf(J.low)
          /\ IF GramApplies(J, numba)
             THEN via' = "gram" /\ mode' = "gram" /\ gram' = J /\ UNCHANGED <<seen, pattern, A, F>>
             ELSE ToMatrixPath
  BY DEF AskNormal
<1>2. J.low \in SUBSET Lower
  BY PositionsAssumption
<1>3. low' \in SUBSET Lower /\ up' \in SUBSET Upper
  BY <1>1, <1>2, MirrorIsUpper, PositionsAssumption
<1>4. call' \in 0..MaxCalls /\ call' > 0 /\ handle' = Unset /\ attempt' = "first"
  BY PositionsAssumption DEF AskNormal, Ask, KktInv, KktTypeOK
<1>5. "gram" # Unset
  BY PositionsAssumption
<1>6. UNCHANGED <<backend, kernel>>
  BY DEF AskNormal, Ask
<1>7. CASE GramApplies(J, numba)
  <2>1. Consistent' /\ Known' = Known /\ pattern' = Unset
    BY <1>1, <1>7, GramPathKeeps
  <2>2. KktTypeOK'
    BY <1>1, <1>3, <1>4, <1>6, <1>7, <2>1 DEF KktInv, KktTypeOK
  <2>3. Solving' /\ HandleSolvesItsSystem'
    BY <1>1, <1>4, <1>5, <1>7 DEF Solving, HandleSolvesItsSystem
  <2>4. QED
    BY <1>3, <2>1, <2>2, <2>3 DEF KktInv
<1>8. CASE ~GramApplies(J, numba)
  <2>1. ToMatrixPath
    BY <1>1, <1>8
  <2>2. KktTypeOK'
    BY <1>3, <1>4, <1>6, <2>1, ToMatrixPathKeeps DEF KktInv, KktTypeOK
  <2>3. Solving' /\ HandleSolvesItsSystem'
    BY <1>4, <1>6, <2>1, ToMatrixPathKeeps DEF Solving, HandleSolvesItsSystem
  <2>4. QED
    BY <1>3, <2>1, <2>2, <2>3, ToMatrixPathKeeps DEF KktInv
<1>9. QED
  BY <1>7, <1>8

LEMMA FactorizedStep == KktInv /\ Factorized => KktInv'
<1> SUFFICES ASSUME KktInv, Factorized PROVE KktInv'
  OBVIOUS
<1> DEFINE fresh == attempt = "retry"
<1>1. /\ backend = "cholmod" /\ attempt # "idle"
      /\ Factor(fresh, TRUE)
      /\ UNCHANGED <<backend, kernel, system>>
  BY DEF Factorized
<1>2. handle' = [by |-> "factor", call |-> call] /\ attempt' = "idle" /\ call \in 1..MaxCalls
  BY DEF Factorized, Answered, KktInv, KktTypeOK, Solving
<1>3. /\ KktTypeOK' <=> attempt' \in {"first", "idle", "retry"}
                     /\ handle' \in {Unset} \cup [by: {"factor", "direct"}, call: 1..MaxCalls]
      /\ Consistent'
      /\ F'.of = call
      /\ low \subseteq A'.pos
  BY <1>1, FactorStep
<1>4. KktTypeOK'
  BY <1>2, <1>3
<1>5. Solving' /\ HandleSolvesItsSystem'
  BY <1>1, <1>2, <1>3 DEF Solving, HandleSolvesItsSystem, system
<1>6. QED
  BY <1>3, <1>4, <1>5 DEF KktInv

LEMMA NotPositiveDefiniteStep == KktInv /\ NotPositiveDefinite => KktInv'
<1> SUFFICES ASSUME KktInv, NotPositiveDefinite PROVE KktInv'
  OBVIOUS
<1>1. /\ backend = "cholmod" /\ attempt # "idle"
      /\ Factor(FALSE, FALSE)
      /\ UNCHANGED <<backend, kernel, system>>
  BY DEF NotPositiveDefinite
<1>2. handle' = Unset /\ attempt' = "retry" /\ call > 0
  BY DEF NotPositiveDefinite, KktInv, Solving
<1>3. /\ KktTypeOK' <=> attempt' \in {"first", "idle", "retry"}
                     /\ handle' \in {Unset} \cup [by: {"factor", "direct"}, call: 1..MaxCalls]
      /\ Consistent'
      /\ via' = mode' /\ mode' # Unset
  BY <1>1, FactorStep
<1>4. KktTypeOK'
  BY <1>2, <1>3
<1>5. Solving' /\ HandleSolvesItsSystem'
  BY <1>1, <1>2, <1>3 DEF Solving, HandleSolvesItsSystem, system
<1>6. QED
  BY <1>3, <1>4, <1>5 DEF KktInv

LEMMA FallBackStep == KktInv /\ FallBack => KktInv'
<1> SUFFICES ASSUME KktInv, FallBack PROVE KktInv'
  OBVIOUS
<1>1. /\ backend = "cholmod" /\ attempt # "idle"
      /\ Factor(TRUE, FALSE)
      /\ UNCHANGED <<backend, kernel, system>>
  BY DEF FallBack
<1>2. handle' = [by |-> "direct", call |-> call] /\ attempt' = "idle" /\ call \in 1..MaxCalls
  BY DEF FallBack, Answered, KktInv, KktTypeOK, Solving
<1>3. /\ KktTypeOK' <=> attempt' \in {"first", "idle", "retry"}
                     /\ handle' \in {Unset} \cup [by: {"factor", "direct"}, call: 1..MaxCalls]
      /\ Consistent'
  BY <1>1, FactorStep
<1>4. KktTypeOK'
  BY <1>2, <1>3
<1>5. Solving' /\ HandleSolvesItsSystem'
  BY <1>2 DEF Solving, HandleSolvesItsSystem
<1>6. QED
  BY <1>3, <1>4, <1>5 DEF KktInv

LEMMA DirectStep == KktInv /\ Direct => KktInv' /\ Known' = Known
<1> SUFFICES ASSUME KktInv, Direct PROVE KktInv' /\ Known' = Known
  OBVIOUS
<1>1. handle' = [by |-> "direct", call |-> call] /\ attempt' = "idle" /\ call \in 1..MaxCalls
  BY DEF Direct, Answered, KktInv, KktTypeOK, Solving
<1>2. UNCHANGED <<backend, kernel, mode, gram, seen, pattern, A, F, call, low, up, via>>
  BY DEF Direct, held, system
<1>3. KktTypeOK'
  BY <1>1, <1>2 DEF KktInv, KktTypeOK
<1>4. Consistent' /\ Known' = Known
  BY <1>2 DEF KktInv, Consistent, Known
<1>5. Solving' /\ HandleSolvesItsSystem'
  BY <1>1 DEF Solving, HandleSolvesItsSystem
<1>6. QED
  BY <1>3, <1>4, <1>5 DEF KktInv

LEMMA KktStutterStep == KktInv /\ UNCHANGED kktVars => KktInv'
BY DEF kktVars, held, system, KktInv, KktTypeOK, Consistent, Solving, HandleSolvesItsSystem

LEMMA KktInvInductive == KktInv /\ [KktNext]_kktVars => KktInv'
BY AskMatrixStep, AskNormalStep, FactorizedStep, NotPositiveDefiniteStep, FallBackStep,
   DirectStep, KktStutterStep
   DEF KktNext, Dropped

LEMMA KktInvAlways == KktSpec => []KktInv
BY InitKktInv, KktInvInductive, PTL DEF KktSpec

(* The callable that is handed out solves the system that was asked for, for  *)
(* every set of positions and any number of systems, breakdowns and changes   *)
(* of representation.                                                         *)
THEOREM HandleIsRight == KktSpec => []HandleSolvesItsSystem
<1>1. KktInv => HandleSolvesItsSystem
  BY DEF KktInv
<1>2. QED
  BY <1>1, KktInvAlways, PTL

(* Every field of the solver keeps its type: one representation at a time,    *)
(* and matrix mode is never left.                                             *)
THEOREM KktTypeCorrect == KktSpec => []KktTypeOK
<1>1. KktInv => KktTypeOK
  BY DEF KktInv
<1>2. QED
  BY <1>1, KktInvAlways, PTL

-----------------------------------------------------------------------------
(* The refinement: each action is the step of the cache it stands for.        *)
LEMMA SolvingHasCall ==
    ASSUME KktInv, attempt # "idle"
    PROVE  /\ call # 0
           /\ \A by \in {"factor", "direct"} : [by |-> by, call |-> call] # Unset
BY PositionsAssumption DEF KktInv, KktTypeOK, Solving

LEMMA AskIsAsk == KktInv /\ (AskMatrix \/ AskNormal) => Cache!Ask
<1> SUFFICES ASSUME KktInv, AskMatrix \/ AskNormal PROVE Cache!Ask
  OBVIOUS
<1>1. Known' = Known /\ low' \in SUBSET Lower
  BY AskMatrixStep, AskNormalStep DEF AskMatrix
<1>2. /\ attempt = "idle" /\ attempt' = "first" /\ handle' = Unset
      /\ call' # 0
      /\ UNCHANGED backend
  BY PositionsAssumption DEF AskMatrix, AskNormal, Ask, KktInv, KktTypeOK
<1>3. QED
  BY <1>1, <1>2 DEF Cache!Ask

LEMMA FactorizedIsAnswer == KktInv /\ Factorized => Cache!First \/ Cache!Retry
<1> SUFFICES ASSUME KktInv, Factorized PROVE Cache!First \/ Cache!Retry
  OBVIOUS
<1>1. /\ backend = "cholmod" /\ attempt \in {"first", "retry"}
      /\ Factor(attempt = "retry", TRUE)
      /\ UNCHANGED <<backend, kernel, system>>
  BY DEF Factorized
<1>2. handle' = [by |-> "factor", call |-> call] /\ attempt' = "idle" /\ handle' # Unset
  BY <1>1, SolvingHasCall DEF Factorized, Answered
<1>3. /\ Known' = IF attempt = "retry" \/ Known = Unset THEN low ELSE Known \cup low
      /\ F'.order = Known'
  BY <1>1, FactorStep
<1>4. UNCHANGED <<call, low>> /\ call # 0
  BY <1>1, SolvingHasCall DEF system
<1>5. CASE attempt = "first"
  BY <1>1, <1>2, <1>3, <1>4, <1>5 DEF Cache!First, Cache!Factorize, Cache!Superset
<1>6. CASE attempt = "retry"
  BY <1>1, <1>2, <1>3, <1>4, <1>6 DEF Cache!Retry, Cache!Factorize
<1>7. QED
  BY <1>1, <1>5, <1>6

LEMMA BreakdownIsFirst == KktInv /\ NotPositiveDefinite => Cache!First
<1> SUFFICES ASSUME KktInv, NotPositiveDefinite PROVE Cache!First
  OBVIOUS
<1>1. /\ backend = "cholmod" /\ attempt = "first" /\ attempt' = "retry" /\ handle' = Unset
      /\ Factor(FALSE, FALSE)
      /\ UNCHANGED <<backend, kernel, system>>
  BY DEF NotPositiveDefinite, KktInv, Solving
<1>2. Known' = IF Known = Unset THEN low ELSE Known \cup low
  BY <1>1, FactorStep
<1>3. UNCHANGED <<call, low>> /\ call # 0
  BY <1>1, SolvingHasCall DEF system
<1>4. QED
  BY <1>1, <1>2, <1>3 DEF Cache!First, Cache!Factorize, Cache!Superset

LEMMA FallBackIsRetry == KktInv /\ FallBack => Cache!Retry
<1> SUFFICES ASSUME KktInv, FallBack PROVE Cache!Retry
  OBVIOUS
<1>1. /\ backend = "cholmod" /\ attempt = "retry" /\ attempt' = "idle"
      /\ handle' = [by |-> "direct", call |-> call]
      /\ Factor(TRUE, FALSE)
      /\ UNCHANGED <<backend, kernel, system>>
  BY DEF FallBack, Answered
<1>2. Known' = low
  BY <1>1, FactorStep
<1>3. UNCHANGED <<call, low>> /\ call # 0
  BY <1>1, SolvingHasCall DEF system
<1>4. handle' # Unset
  BY <1>1, SolvingHasCall
<1>5. QED
  BY <1>1, <1>2, <1>3, <1>4 DEF Cache!Retry, Cache!Factorize

LEMMA DirectIsUncached == KktInv /\ Direct => Cache!Uncached
<1> SUFFICES ASSUME KktInv, Direct PROVE Cache!Uncached
  OBVIOUS
<1>1. /\ backend = "scipy" /\ attempt = "first" /\ attempt' = "idle"
      /\ handle' = [by |-> "direct", call |-> call] /\ call > 0 /\ call \in Nat
      /\ UNCHANGED <<backend, call, low>>
  BY PositionsAssumption DEF Direct, Answered, KktInv, KktTypeOK, Solving, system
<1>2. Known' = Known /\ handle' # Unset
  BY <1>1, DirectStep, PositionsAssumption
<1>3. QED
  BY <1>1, <1>2 DEF Cache!Uncached

LEMMA StutterIsStutter == UNCHANGED kktVars => UNCHANGED Cache!vars
BY DEF kktVars, held, system, Cache!vars, Known

(* The Gram path, the matrix path and every change between them implement the *)
(* one cache of KktCache.                                                     *)
THEOREM CacheImplemented == KktSpec => ImplementsCache
<1>1. KktInit => Cache!Init
  BY PositionsAssumption DEF KktInit, ResolvedBackends, Cache!Init, Known
<1>2. KktInv /\ [KktNext]_kktVars => [Cache!Next]_Cache!vars
  BY AskIsAsk, FactorizedIsAnswer, BreakdownIsFirst, FallBackIsRetry, DirectIsUncached,
     StutterIsStutter
     DEF KktNext, Dropped, Cache!Next
<1>3. QED
  BY <1>1, <1>2, KktInvAlways, PTL DEF KktSpec, ImplementsCache, Cache!Spec

-----------------------------------------------------------------------------
(* The primal-dual loop.                                                      *)

AtTest == pc = "test" => factor = it /\ x = it /\ r = x /\ dir = None

Linearized ==
    pc \in {"direction", "search"} =>
        /\ it < MaxIter
        /\ factor = it + 1 /\ x = it /\ r = x
        /\ lin = [x |-> x, r |-> r, w |-> w, factor |-> factor]
        /\ dir # None => dir.x = x /\ dir.factor = factor

SearchHasDirection == pc = "search" => dir # None

IInv ==
    /\ TypeOK
    /\ AtTest
    /\ Linearized
    /\ SearchHasDirection
    /\ ResultIsDescribed

-----------------------------------------------------------------------------
(* A direction is one of this point.                                          *)
LEMMA DirectionIsHere ==
    ASSUME IInv, pc = "direction", NEW descends \in BOOLEAN,
           NEW kind \in {"predictor", "corrector", "centering"}
    PROVE  /\ Direction(kind, descends) \in
                 [kind : {"predictor", "corrector", "centering"},
                  x : Nat, factor : Nat, descends : BOOLEAN]
           /\ Direction(kind, descends).x = x
           /\ Direction(kind, descends).factor = factor
BY LimitsAssumption DEF Direction, IInv, TypeOK, Linearized

(* However a search ends, the residual is that of the point it moved to.      *)
LEMMA ResidualMoves ==
    ASSUME NEW o \in Outcomes
    PROVE  ResidualAfter(o) = x + 1
BY DEF Outcomes, Found, Exhausted, Unsearched, ResidualAfter

LEMMA InitIInv == Init => IInv
<1> SUFFICES ASSUME Init PROVE IInv
  OBVIOUS
<1>1. mu \in Levels
  BY DEF Init, Levels
<1>2. 0 \in 0..MaxIter /\ 0 \in 0..MaxIter + 1 /\ 0 \in 0..MaxSearchFailures
      /\ 0 \in 0..ProxSteps /\ -1 \in -1..MaxIter /\ 0 < MaxSearchFailures
  BY LimitsAssumption
<1>3. TypeOK
  BY <1>1, <1>2 DEF Init, TypeOK
<1>4. QED
  BY <1>3 DEF Init, IInv, AtTest, Linearized, SearchHasDirection, ResultIsDescribed

-----------------------------------------------------------------------------
(* The steps, one action at a time.                                           *)

USE DEF IInv, TypeOK, AtTest, Linearized, SearchHasDirection, ResultIsDescribed, Levels

(* The weights stay the base weights, or are of a residual that was there.    *)
LEMMA ReweightedType == ASSUME IInv PROVE Reweighted \in 0..MaxIter + 1
BY LimitsAssumption DEF Reweighted

LEMMA ConvergedStep == IInv /\ Converged => IInv'
BY ReweightedType, LimitsAssumption DEF Converged, Settled, Finish, Iterations

LEMMA IterationLimitStep == IInv /\ IterationLimit => IInv'
BY LimitsAssumption DEF IterationLimit, Finish, Iterations

LEMMA FactorizeStep == IInv /\ Factorize => IInv'
<1> SUFFICES ASSUME IInv, Factorize PROVE IInv'
  OBVIOUS
<1>1. factor' = it + 1 /\ factor' \in 0..MaxIter /\ w' \in 0..MaxIter + 1 /\ w' \in Nat
      /\ it \in Nat /\ it < MaxIter
  BY ReweightedType, LimitsAssumption DEF Factorize
<1>2. CASE pc' = "direction" /\ UNCHANGED result
           /\ lin' = [x |-> x, r |-> r, w |-> w', factor |-> factor']
  BY <1>1, <1>2, LimitsAssumption DEF Factorize
<1>3. CASE Finish("error", "ERROR") /\ UNCHANGED lin
  BY <1>1, <1>3, LimitsAssumption DEF Factorize, Finish, Iterations
<1>4. QED
  BY <1>2, <1>3 DEF Factorize

LEMMA NewtonStep ==
    ASSUME IInv, ChooseDirection, Newton
    PROVE  IInv'
<1>1. PICK descends \in BOOLEAN :
          dir' = Direction(IF pairs THEN "corrector" ELSE "predictor", descends)
  BY DEF Newton
<1>2. /\ dir' \in [kind : {"predictor", "corrector", "centering"},
                   x : Nat, factor : Nat, descends : BOOLEAN]
      /\ dir'.x = x /\ dir'.factor = factor
  BY <1>1, DirectionIsHere DEF Newton
<1>3. QED
  BY <1>2 DEF ChooseDirection, Newton

LEMMA NonFiniteStep ==
    ASSUME IInv, ChooseDirection, NonFinite
    PROVE  IInv'
BY LimitsAssumption DEF ChooseDirection, NonFinite, Finish, Iterations

LEMMA CenteringStep ==
    ASSUME IInv, ChooseDirection, Centering
    PROVE  IInv'
<1>1. CASE dir' = dir
  BY <1>1 DEF ChooseDirection, Centering
<1>2. CASE dir' = Direction("centering", TRUE)
  <2>1. /\ dir' \in [kind : {"predictor", "corrector", "centering"},
                     x : Nat, factor : Nat, descends : BOOLEAN]
        /\ dir'.x = x /\ dir'.factor = factor
    BY <1>2, DirectionIsHere DEF Centering
  <2>2. dir' # None
    BY <2>1, LimitsAssumption
  <2>3. QED
    BY <2>1, <2>2 DEF ChooseDirection, Centering
<1>3. QED
  BY <1>1, <1>2 DEF Centering

LEMMA KeepDirectionStep ==
    ASSUME IInv, ChooseDirection, KeepDirection
    PROVE  IInv'
BY DEF ChooseDirection, KeepDirection

LEMMA SearchStep == IInv /\ Search => IInv'
<1> SUFFICES ASSUME IInv, Search PROVE IInv'
  OBVIOUS
<1>1. PICK o \in Outcomes :
          /\ Step(o)
          /\ fails' = fails + IF o.exhausted THEN 1 ELSE 0
          /\ IF StopSearch(o)
             THEN Finish("stalled", "STALLED") /\ UNCHANGED it
             ELSE it' = it + 1 /\ pc' = "test" /\ UNCHANGED result
  BY DEF Search
<1>2. x' = it + 1 /\ r' = it + 1 /\ factor' = it + 1 /\ dir' = None /\ it \in Nat
      /\ x' \in 0..MaxIter /\ it < MaxIter /\ lin'.x = it
  BY <1>1, ResidualMoves, LimitsAssumption DEF Search, Step
<1>3. box_scale' \in 0..ProxSteps
  BY <1>1, LimitsAssumption DEF Step, Damped
<1>4. CASE StopSearch(o)
  <2>1. fails' = MaxSearchFailures
    BY <1>1, <1>4, LimitsAssumption DEF StopSearch, Search
  <2>2. QED
    BY <1>1, <1>2, <1>3, <1>4, <2>1, LimitsAssumption DEF Search, Step, Finish, Iterations
<1>5. CASE ~StopSearch(o)
  <2>1. fails' \in 0..MaxSearchFailures /\ fails' < MaxSearchFailures
    BY <1>1, <1>5, LimitsAssumption DEF StopSearch, Search
  <2>2. it' \in 0..MaxIter /\ it' = it + 1 /\ pc' = "test" /\ UNCHANGED result
    BY <1>1, <1>2, <1>5, LimitsAssumption
  <2>3. QED
    BY <1>1, <1>2, <1>3, <2>1, <2>2 DEF Search, Step
<1>6. QED
  BY <1>4, <1>5

LEMMA StutterStep == IInv /\ UNCHANGED vars => IInv'
BY DEF vars

LEMMA IInvInductive == IInv /\ [Next]_vars => IInv'
BY ConvergedStep, IterationLimitStep, FactorizeStep, NewtonStep, NonFiniteStep,
   CenteringStep, KeepDirectionStep, SearchStep, StutterStep, LimitsAssumption
   DEF Next, ChooseDirection

LEMMA IInvAlways == Spec => []IInv
BY InitIInv, IInvInductive, PTL DEF Spec

-----------------------------------------------------------------------------
HIDE DEF IInv, TypeOK, AtTest, Linearized, SearchHasDirection, ResultIsDescribed, Levels

(* The counters of solve_ipm_pd stay within the limits of the call and its    *)
(* damping between its bounds.                                                *)
THEOREM TypeCorrect == Spec => []TypeOK
<1>1. IInv => TypeOK
  BY DEF IInv
<1>2. QED
  BY <1>1, IInvAlways, PTL

(* What a search follows was computed at this point, with these weights, on   *)
(* the factor the solver still holds, for any limits of the call.             *)
THEOREM DirectionIsNeverStale == Spec => []DirectionIsOfThisPoint
<1>1. IInv => DirectionIsOfThisPoint
  BY DEF IInv, AtTest, Linearized, SearchHasDirection, DirectionIsOfThisPoint
<1>2. QED
  BY <1>1, IInvAlways, PTL

(* Every status says what the loop did, for any limits of the call.           *)
THEOREM ResultIsTrue == Spec => []ResultIsDescribed
<1>1. IInv => ResultIsDescribed
  BY DEF IInv
<1>2. QED
  BY <1>1, IInvAlways, PTL
=============================================================================
