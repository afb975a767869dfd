------------------------- MODULE MC_IsolationProxy -------------------------
(* Model-checking instance of IsolationProxy: two concurrent creation      *)
(* attempts, as model values, and enough handle ids for both to run the    *)
(* whole pipeline (seven handles each).                                    *)
EXTENDS IsolationProxy, TLC

CONSTANTS a1, a2

MCAttempts == {a1, a2}

MCMaxHandles == 14

\* Attempts are interchangeable: handle ids are issued in call order, which
\* a permutation of the attempts maps to another reachable order.
MCSymmetry == Permutations(MCAttempts)

=============================================================================
