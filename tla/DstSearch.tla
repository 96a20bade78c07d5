----------------------------- MODULE DstSearch -----------------------------
(***************************************************************************)
(* The search of next_dst_change (server.c) for the second in which the    *)
(* daylight saving flag changes, with the numbers of the code.  Seconds    *)
(* count from the function's argument tick.  A zone changes its flag at    *)
(* most once in as far as the search looks, `change' seconds ahead, so the *)
(* flag of a second differs from the present one exactly from there on.    *)
(*                                                                         *)
(* ClockServer takes the result of the search from TzNames!DstDelay.       *)
(***************************************************************************)
EXTENDS Integers

CONSTANT Changes   \* how far ahead the next change may be

ASSUME ChangesAssumption == Changes \subseteq Nat \ {0}

two_weeks == 14 * 24 * 60 * 60
Rounds == 21

VARIABLES
  change,        \* the second that is looked for
  timeout,       \* a second known to be before it
  max_timeout,   \* how far behind timeout it may be
  i,             \* rounds done
  next           \* the result

vars == <<change, timeout, max_timeout, i, next>>

\* internal_get_dst(k) # is_dst_now
Differs(k) == k >= change

\* Wrong variant: rounded down.
HalfDown(m) == m \div 2

Half(m) == (m + 1) \div 2

Init ==
  /\ change \in Changes
  /\ timeout = 0 /\ max_timeout = two_weeks /\ i = 0
  /\ next = two_weeks

\* One round of the loop, with the assignment to next after the last.
Round ==
  /\ Differs(two_weeks) /\ i < Rounds
  /\ max_timeout' = Half(max_timeout)
  /\ timeout' = IF Differs(timeout + max_timeout') THEN timeout
                ELSE timeout + max_timeout'
  /\ i' = i + 1
  /\ next' = IF i' = Rounds THEN timeout' + max_timeout' ELSE next
  /\ UNCHANGED change

Next == Round

Spec == Init /\ [][Next]_vars

\* The alarm is due in the very second of the change, or in two weeks if
\* there is none until then: 21 roundings of two weeks leave one second
\* (next_dst_change's loop).
AlarmAtChange ==
  i = Rounds \/ ~Differs(two_weeks) =>
    next = IF change <= two_weeks THEN change ELSE two_weeks
=============================================================================
