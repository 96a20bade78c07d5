--------------------------- MODULE HelperPromise ---------------------------
(***************************************************************************)
(* What clockd may expect of one run of rclockd, which it starts with      *)
(* system() and waits for: the outcomes that ClockServer takes for         *)
(* granted, each in one step.                                              *)
(***************************************************************************)
EXTENDS HelperOutcomes

CONSTANTS
  Zones,      \* zones it is asked to link to
  Installed,  \* those that stat finds
  NoZone,     \* no link
  Times       \* times it is asked to set

VARIABLES
  link,       \* /etc/localtime
  save,       \* /etc/localtime.save
  wall, rtc,  \* the two clocks
  answer      \* what system() returns, "none" while it waits

vars == <<link, save, wall, rtc, answer>>

Init == answer = "none" /\ link \in Zones

Ask == answer' = "none" /\ UNCHANGED <<link, save, wall, rtc>>

\* Success is reported when the zone was linked. An installed zone is refused.
TzRun ==
  /\ answer = "none"
  /\ \E z \in Zones, o \in TzOutcomes :
       /\ z \in Installed => o = "refused"
       /\ [link |-> link', save |-> save']
            = LinksAfter(o, z, [link |-> link, save |-> save], NoZone)
       /\ answer' \in CASE o = "linked" -> {"ok"}
                        [] o = "link_lost" -> {"failed", "killed"}
                        [] OTHER -> {"failed"}
  /\ UNCHANGED <<wall, rtc>>

\* Success is reported when the RTC was set, not when the system clock was.
TimeRun ==
  /\ answer = "none"
  /\ \E t \in Times, o \in TimeOutcomes :
       /\ wall' = IF o = "set" THEN t ELSE wall
       /\ rtc' = IF o = "rtc_only" THEN t ELSE rtc
       /\ answer' = IF o = "rtc_only" THEN "ok" ELSE "failed"
  /\ UNCHANGED <<link, save>>

\* The run is killed before or after its work.
Killed == answer' = "killed" /\ UNCHANGED <<link, save, wall, rtc>>

Next == Ask \/ TzRun \/ TimeRun \/ Killed

Spec == Init /\ [][Next]_vars
=============================================================================
