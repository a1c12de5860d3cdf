--------------------------- MODULE MC_DynsecCommand ---------------------------
(***************************************************************************)
(* Small instances of DynsecCommand for TLC.  Two calls are enough for a   *)
(* call to see the response of another one; a second connection retransmits*)
(* and publishes once more, a third one does so with two messages unacknow-*)
(* ledged.                                                                 *)
(***************************************************************************)
EXTENDS DynsecCommand, TLC

CONSTANTS c1, c2

TwoCallsOrThreeConnections ==
    {(c1 :> 1) @@ (c2 :> 1), (c1 :> 3) @@ (c2 :> 0)}

===============================================================================
