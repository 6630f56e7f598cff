----------------------------- MODULE MCCallout -----------------------------
(* Three calls with delays that coincide and that do not.                  *)
EXTENDS Callout

MCDelay == 1 .. 3
=============================================================================
