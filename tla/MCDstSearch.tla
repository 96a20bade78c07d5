---------------------------- MODULE MCDstSearch ----------------------------
(* Changes at both ends of the window, around its middle, and behind it. *)
EXTENDS DstSearch

MCChanges == (1..600) \cup (604500..605100) \cup (1209000..1209700)
=============================================================================
