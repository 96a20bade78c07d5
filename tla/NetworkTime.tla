---------------------------- MODULE NetworkTime ----------------------------
(***************************************************************************)
(* What clockd promises about the clock, without how it keeps the network's *)
(* time: the clock runs, and jumps only where a client asks it to or to     *)
(* the time the network would show by now.                                  *)
(***************************************************************************)
EXTENDS Integers

CONSTANTS
  Requests,   \* times clients ask for
  Stamps      \* times the network's messages carry

VARIABLES
  wall,       \* the system clock
  mono,       \* seconds since boot
  offset      \* {o} if network time is mono + o, {} if it is not known

vars == <<wall, mono, offset>>

Init == mono = 0 /\ offset = {}

Pass == wall' = wall + 1 /\ mono' = mono + 1 /\ UNCHANGED offset

Request == wall' \in Requests /\ UNCHANGED <<mono, offset>>

\* A message is heard, and followed or not. One without a usable date stands
\* for the time the clock shows.
Hear ==
  /\ \E t \in Stamps \cup {wall} : offset' = {t - mono} /\ wall' \in {wall, t}
  /\ UNCHANGED mono

Adopt == \E o \in offset : wall' = mono + o /\ UNCHANGED <<mono, offset>>

Forget == offset' = {} /\ UNCHANGED <<wall, mono>>

Next == Pass \/ Request \/ Hear \/ Adopt \/ Forget

Spec == Init /\ [][Next]_vars
=============================================================================
