------------------------- MODULE MCSocketOwnership -------------------------
(* Three daemon processes over one path. *)
EXTENDS SocketOwnership

CONSTANTS d1, d2, d3

\* Started by a service manager, or by hand.
ManagedOrShell == {{}, {"starts", "stops"}}
OnlyStarts     == {{"starts"}}
OnlyStops      == {{"stops"}}
=============================================================================
