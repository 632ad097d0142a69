--------------------------- MODULE MCOrchestrator ---------------------------
(***************************************************************************)
(* Small instances of Orchestrator for TLC.                                *)
(***************************************************************************)
EXTENDS Orchestrator, TLC

CONSTANTS a1, a2, u1

\* Two tonies: a serial that loads two stories of its library at a time, and
\* an album whose library does not fit, so that only one story of it does.
TwoTonies == {a1, a2}
MixedMode == (a1 :> "serial") @@ (a2 :> "album")
MixedFit  == (a1 :> 2) @@ (a2 :> 1)

\* A tonie of the account that no library is assigned to.
OneUnmanaged == {u1}

\* The album's stories cannot be fetched on some nights.
OneBroken == {a2}

\* One tonie that loads two stories at a time.
OneTonie   == {a1}
SerialMode == a1 :> "serial"
FitTwo     == a1 :> 2

=============================================================================
