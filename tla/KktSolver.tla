----------------------------- MODULE KktSolver -----------------------------
(* algorithms/kkt_solver.py, KKTSolver: the superset pattern in its two        *)
(* representations, the factorization kept with it and the stability cascade. *)
(*                                                                            *)
(* A position of the matrix is a model value; Lower holds the lower triangle, *)
(* Mirror takes an off-diagonal position to the upper one.  Numbers are known *)
(* by the call they come from: of = n means "the values of the n-th system".  *)
(* Whether CHOLMOD finds a matrix positive definite is open.                  *)
EXTENDS Naturals

CONSTANTS
    Lower,      \* positions of the lower triangle, the diagonal included
    Diagonal,
    Mirror,     \* the upper position of each off-diagonal lower one
    Jacobians,  \* patterns of H'H: [low: lower positions, canonical: _canonical_csr]
    MaxCalls,   \* systems asked of one solver
    Unset

Upper == {Mirror[p] : p \in DOMAIN Mirror}
LowerOf(s) == s \cap Lower

ASSUME PositionsAssumption ==
    /\ Diagonal \subseteq Lower
    /\ DOMAIN Mirror = Lower \ Diagonal
    /\ Lower \cap Upper = {}
    /\ Jacobians \subseteq [low: SUBSET Lower, canonical: BOOLEAN]
    /\ MaxCalls \in Nat
    /\ \A s \in SUBSET (Lower \cup Upper) : s # Unset
    /\ Unset \notin {"gram", "matrix"}
    /\ Unset \notin [by: {"factor", "direct"}, call: Nat]

VARIABLES
    backend,    \* "cholmod" or "scipy"
    kernel,     \* _load_gram_kernel() gave a kernel
    mode,       \* _mode: Unset, "gram" or "matrix"
    gram,       \* _gram: the Jacobian pattern it was built for
    seen,       \* _seen: lower positions
    pattern,    \* _pattern: positions of both triangles
    A,          \* _A: [pos, of]
    F,          \* _F: [order, of]
    call,       \* number of the system
    low,        \* its non-zero lower positions, as both paths compute them
    up,         \* its non-zero upper ones, as scipy rounds and prunes them
    via,        \* representation that factorizes it: "gram" or "matrix"
    attempt,    \* "idle", "first" or "retry"
    handle      \* the callable returned last: [by, call]

held == <<mode, gram, seen, pattern, A, F>>
system == <<call, low, up, via>>
kktVars == <<backend, kernel, held, system, attempt, handle>>

Broken == 0     \* the values of no system: a failed or mismatched factorization

\* A factor is used with the matrix whose pattern was analysed for it.
Numeric(M, order, ok) ==
    [order |-> order,
     of |-> IF ok /\ LowerOf(M.pos) = order THEN M.of ELSE Broken]

\* _A.V = data: the values are laid out for pos, whatever pattern A has.
SetValues(pos) == [pos |-> A.pos, of |-> IF A.pos = pos THEN call ELSE Broken]

(* resolve_backend: "cholmod" asked for in vain raises, and there is no solver. *)
ResolvedBackends(cvxopt) ==
    {b \in {"cholmod", "scipy"} : b = "cholmod" => cvxopt}

(* The kernel is missing without numba, or when it fails to compile or        *)
(* disagrees with scipy; the answer is kept for the life of the process.      *)
KernelLoaded(numba, agrees) == numba /\ agrees

KktInit ==
    /\ \E cvxopt \in BOOLEAN : backend \in ResolvedBackends(cvxopt)
    /\ \E numba, agrees \in BOOLEAN : kernel = KernelLoaded(numba, agrees)
    /\ mode = Unset /\ gram = Unset /\ seen = Unset
    /\ pattern = Unset /\ A = Unset /\ F = Unset
    /\ call = 0
    /\ low = {} /\ up = {}
    /\ via = Unset
    /\ attempt = "idle"
    /\ handle = Unset

-----------------------------------------------------------------------------
(* Entry: which representation factorizes the system.                         *)

Ask ==
    /\ attempt = "idle"
    /\ call < MaxCalls
    /\ call' = call + 1
    /\ attempt' = "first"
    /\ handle' = Unset
    /\ UNCHANGED <<backend, kernel>>

MirrorOf(s) == {Mirror[p] : p \in s \cap DOMAIN Mirror}

\* Mutant: the pattern is not handed over.
ForgetToMatrixMode ==
    /\ mode' = "matrix"
    /\ gram' = Unset /\ seen' = Unset
    /\ pattern' = Unset /\ A' = Unset /\ F' = Unset

(* The seen positions are mirrored to both triangles and analysed at once,    *)
(* with PATTERN_EPS for values.                                               *)
gram_to_matrix_mode ==
    /\ mode' = "matrix"
    /\ gram' = Unset /\ seen' = Unset
    /\ IF seen = Unset
       THEN pattern' = Unset /\ A' = Unset /\ F' = Unset
       ELSE /\ pattern' = seen \cup MirrorOf(seen)
            /\ A' = [pos |-> pattern', of |-> Broken]
            /\ F' = [order |-> LowerOf(pattern'), of |-> Broken]

ToMatrixPath ==
    /\ via' = "matrix"
    /\ IF mode = "gram" THEN gram_to_matrix_mode
       ELSE IF backend = "cholmod"
            THEN mode' = "matrix" /\ UNCHANGED <<gram, seen, pattern, A, F>>
            ELSE UNCHANGED held

(* solve: the caller brings the matrix.                                       *)
AskMatrix ==
    /\ Ask
    /\ low' \in SUBSET Lower
    /\ up' \in SUBSET Upper
    /\ ToMatrixPath

GramApplies(J, numba) ==
    /\ backend = "cholmod"
    /\ \/ mode = "gram" /\ J = gram
       \/ mode = Unset /\ numba /\ J.canonical /\ kernel

(* solve_normal, factor_normal: the caller brings H, w and a diagonal; values *)
(* may vanish anywhere, and scipy may round the two triangles differently.    *)
AskNormal ==
    /\ Ask
    /\ \E J \in Jacobians, numba \in BOOLEAN :
          /\ low' \in SUBSET (J.low \cup Diagonal)
          /\ up' \in SUBSET MirrorOf(J.low)
          /\ IF GramApplies(J, numba)
             THEN /\ via' = "gram"
                  /\ mode' = "gram" /\ gram' = J
                  /\ UNCHANGED <<seen, pattern, A, F>>
             ELSE ToMatrixPath

-----------------------------------------------------------------------------
(* Factorization.                                                             *)

Answered(by) ==
    /\ handle' = [by |-> by, call |-> call]
    /\ attempt' = "idle"

\* Mutant: an enlarged pattern is only noticed by its lower triangle.
FactorMatrixByLower(known, ok) ==
    LET P == IF known = Unset THEN low \cup up ELSE low \cup up \cup known
        changed == known = Unset \/ LowerOf(P) # LowerOf(known)
    IN  /\ pattern' = P
        /\ A' = IF changed THEN [pos |-> P, of |-> call] ELSE SetValues(P)
        /\ F' = Numeric(A', IF changed THEN LowerOf(P) ELSE F.order, ok)
        /\ UNCHANGED <<mode, gram, seen>>

(* _factor_cholmod on the pattern known so far.                               *)
FactorMatrix(known, ok) ==
    LET P == IF known = Unset THEN low \cup up ELSE low \cup up \cup known
        changed == known = Unset \/ P # known
    IN  /\ pattern' = P
        /\ A' = IF changed THEN [pos |-> P, of |-> call] ELSE SetValues(P)
        /\ F' = Numeric(A', IF changed THEN LowerOf(P) ELSE F.order, ok)
        /\ UNCHANGED <<mode, gram, seen>>

(* _factor_gram_cholmod: the same on the mask of seen positions.              *)
FactorGram(known, ok) ==
    LET changed == known = Unset \/ ~(low \subseteq known)
        mask == IF known = Unset THEN low ELSE low \cup known
    IN  /\ seen' = mask
        /\ A' = IF changed THEN [pos |-> mask, of |-> call] ELSE SetValues(mask)
        /\ F' = Numeric(A', IF changed THEN mask ELSE F.order, ok)
        /\ UNCHANGED <<mode, gram, pattern>>

Factor(fresh, ok) ==
    \/ via = "gram" /\ FactorGram(IF fresh THEN Unset ELSE seen, ok)
    \/ via = "matrix" /\ FactorMatrix(IF fresh THEN Unset ELSE pattern, ok)

Factorized ==
    /\ backend = "cholmod" /\ attempt \in {"first", "retry"}
    /\ Factor(attempt = "retry", TRUE)
    /\ Answered("factor")
    /\ UNCHANGED <<backend, kernel, system>>

NotPositiveDefinite ==
    /\ backend = "cholmod" /\ attempt = "first"
    /\ Factor(FALSE, FALSE)
    /\ attempt' = "retry"
    /\ UNCHANGED <<backend, kernel, system, handle>>

(* A second breakdown: spsolve of the matrix, outside the cache.              *)
FallBack ==
    /\ backend = "cholmod" /\ attempt = "retry"
    /\ Factor(TRUE, FALSE)
    /\ Answered("direct")
    /\ UNCHANGED <<backend, kernel, system>>

(* Backend "scipy": spsolve or SuperLU of each matrix.                        *)
Direct ==
    /\ backend = "scipy" /\ attempt = "first"
    /\ Answered("direct")
    /\ UNCHANGED <<backend, kernel, held, system>>

Dropped == attempt = "idle" /\ call = MaxCalls /\ UNCHANGED kktVars

KktNext ==
    \/ AskMatrix \/ AskNormal
    \/ Factorized \/ NotPositiveDefinite \/ FallBack \/ Direct
    \/ Dropped

KktSpec == KktInit /\ [][KktNext]_kktVars

-----------------------------------------------------------------------------
Matrices == [pos: SUBSET (Lower \cup Upper), of: 0..MaxCalls]
Factors == [order: SUBSET Lower, of: 0..MaxCalls]

(* Every field has its type; a solver holds one representation at a time, and *)
(* matrix mode is never left.                                                 *)
KktTypeOK ==
    /\ backend \in {"cholmod", "scipy"} /\ kernel \in BOOLEAN
    /\ mode \in {Unset, "gram", "matrix"}
    /\ gram \in {Unset} \cup Jacobians
    /\ seen \in {Unset} \cup SUBSET Lower
    /\ pattern \in {Unset} \cup SUBSET (Lower \cup Upper)
    /\ A \in {Unset} \cup Matrices /\ F \in {Unset} \cup Factors
    /\ call \in 0..MaxCalls
    /\ low \in SUBSET Lower /\ up \in SUBSET Upper
    /\ via \in {Unset, "gram", "matrix"}
    /\ attempt \in {"idle", "first", "retry"}
    /\ handle \in {Unset} \cup [by: {"factor", "direct"}, call: 1..MaxCalls]
    /\ mode # "gram" => gram = Unset /\ seen = Unset
    /\ mode # "matrix" => pattern = Unset

(* The callable handed out solves the system that was asked for: its values   *)
(* were put where the analysed pattern has them, none was dropped and none is *)
(* left of an earlier system, also after breakdowns and after a change of     *)
(* representation (solve, solve_normal, factor_normal).                       *)
HandleSolvesItsSystem ==
    handle # Unset /\ handle.by = "factor" =>
        /\ F.of = handle.call
        /\ handle.call = call
        /\ low \subseteq A.pos

Known == IF mode = "matrix" THEN (IF pattern = Unset THEN Unset ELSE LowerOf(pattern)) ELSE seen

Cache == INSTANCE KktCache WITH
    cached <- backend = "cholmod",
    asked <- IF call = 0 THEN Unset ELSE low,
    seen <- Known,
    answer <- IF handle = Unset THEN Unset
              ELSE IF handle.by = "factor" THEN [by |-> "factor", order |-> F.order]
              ELSE [by |-> "direct", order |-> Unset]

(* Both representations, and any change between them, implement one cache:    *)
(* which pattern is analysed, when it is reset and which factorization or     *)
(* fallback answers do not depend on the path ("the pattern growth and        *)
(* therefore every symbolic/numeric factorization are bit-identical").        *)
ImplementsCache == Cache!Spec
=============================================================================
