--------------------------- MODULE MCControlPlane ---------------------------
(***************************************************************************)
(* Small instances of ControlPlane for TLC.                                *)
(***************************************************************************)
EXTENDS ControlPlane, TLC

CONSTANTS m1, m2, m3   \* render modes

MCSupportedModes == {m1, m2}

\* Two offers that lead to different modes, one of them by its second choice, and
\* one that the server cannot serve.
MCOffers == {<<m1>>, <<m3, m2>>, <<m3>>}

\* Enough when a run is not about modes: one acceptable and one unacceptable.
MCTwoOffers == {<<m1>>, <<m3>>}

\* For liveness: the version check still turns connections away.
MCOneOffer == {<<m1>>}

\* Client ids are only compared with each other.
Symmetry == Permutations(ClientIds)
=============================================================================
