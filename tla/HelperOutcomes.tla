--------------------------- MODULE HelperOutcomes ---------------------------
(***************************************************************************)
(* What one run of the privileged helper rclockd may have done, seen from  *)
(* its caller.  ClockServer uses these operators for the whole helper;     *)
(* HelperPromise states them as a specification, and Rclockd, which has    *)
(* the helper's system calls one by one, implements that.                  *)
(***************************************************************************)

\* A run for a zone that is not installed: it was linked; the symlink failed
\* and the old link came back; neither could be done, or the run was killed
\* halfway; the old link could not be set aside, and was replaced by the one
\* before it; nothing could be done.
TzOutcomes == {"linked", "failed", "link_lost", "stale", "refused"}

\* A run for a time: the system clock moved; only the RTC did; neither did.
TimeOutcomes == {"set", "rtc_only", "refused"}

\* A pair l has what /etc/localtime and /etc/localtime.save point to. What
\* rename leaves in the second is the old link, or else what was there before.
SetAside(l, none) == IF l.link = none THEN l.save ELSE l.link

\* The two links after an outcome for a zone.
LinksAfter(outcome, zone, l, none) ==
  CASE outcome = "linked" -> [link |-> zone, save |-> SetAside(l, none)]
    [] outcome = "failed" -> [link |-> SetAside(l, none), save |-> none]
    [] outcome = "link_lost" -> [link |-> none, save |-> SetAside(l, none)]
    [] outcome = "stale" /\ l.save # none -> [link |-> l.save, save |-> none]
    [] OTHER -> l
=============================================================================
