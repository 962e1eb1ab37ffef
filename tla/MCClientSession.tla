--------------------------- MODULE MCClientSession ---------------------------
(***************************************************************************)
(* Small instances of ClientSession for TLC.                               *)
(***************************************************************************)
EXTENDS ClientSession

CONSTANTS m1, m2

\* An offer the server can serve, and one it cannot.
MCOffers == {<<m1>>, <<m2>>}

\* For liveness: the version check still turns connections away.
MCOneOffer == {<<m1>>}
=============================================================================
