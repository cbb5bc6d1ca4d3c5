------------------------------ MODULE MCPipeline ------------------------------
(* Values of the constants of Pipeline for TLC. *)
EXTENDS Pipeline

CONSTANTS n1, n2, n3

MCNodes == {n1, n2, n3}

\* Toggles of the preparation steps.
PrepToggles == {STEPS[i].toggle : i \in 1..25} \ {NoToggle}
PostToggles == {"bad_data", "v_refine", "v_mirror", "v_mirror_chain",
                "refine_merge", "anti_overshoot"}

\* Every choice of post-solve passes; the preparation steps all on, and once
\* all off, and the plans of a run with measured injection parts.
MCConfigs ==
  {PrepToggles \cup p : p \in SUBSET PostToggles}
    \cup {{}, PostToggles, PrepToggles \cup {"injection_roles"}}

\* An out-of-range state has no meaningful ratio, and may overshoot as well.  In range: no overshoot, an
\* overshoot on nodes with a real V reading only, and on free nodes: a solve may
\* find new ones twice before MaxIters, and once more after it.
MCOutcomes ==
  [success : BOOLEAN, inRange : {FALSE}, ratio : {0}, high : {{}, {n1}}]
    \cup [success : BOOLEAN, inRange : {TRUE}, ratio : {1, 2}, high : {{n1}, {n2}, {n2, n3}}]
    \cup [success : BOOLEAN, inRange : {TRUE}, ratio : {0, 2}, high : {{}}]
===============================================================================
