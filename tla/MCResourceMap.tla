--------------------------- MODULE MCResourceMap ---------------------------
(* Core with two holes in it, as on a PC: the kernel and the video memory. *)
EXTENDS ResourceMap

HoledCore == (1 .. 2) \cup (4 .. 7) \cup (9 .. 10)
=============================================================================
