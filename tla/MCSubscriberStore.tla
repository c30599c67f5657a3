------------------------- MODULE MCSubscriberStore -------------------------
(* Model-checking instance of SubscriberStore: two IMSIs and two TMSIs so   *)
(* that stable identifiers can conflict, two MME ids so that an S1AP id can *)
(* be reassigned, one IMEISV, one eNB id and one TEID.                    *)
EXTENDS SubscriberStore, TLC

CONSTANTS i1, i2, t1, t2, e1, m1, m2, n1, x1, x2

MCImsis   == {i1, i2}
MCTmsis   == {t1, t2}
MCImeisvs == {e1}
MCMmeIds  == {m1, m2}
MCEnbIds  == {n1}
MCTeids   == {x1}

\* Identifier values are only compared for equality.
Symmetry == Permutations(MCImsis) \cup Permutations(MCTmsis)
            \cup Permutations(MCMmeIds) \cup Permutations(MCTeids)
=============================================================================
