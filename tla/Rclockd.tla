------------------------------ MODULE Rclockd ------------------------------
(***************************************************************************)
(* The privileged helper rclockd (rclockd.c), system call by system call.  *)
(* clockd runs one helper at a time and waits for it, but a helper         *)
(* outlives a clockd that is killed while it waits, and the next clockd    *)
(* may run another one for the restore_tz line of its file.  Any number    *)
(* of them may therefore be at work, and each may be killed at any point.  *)
(***************************************************************************)
EXTENDS Integers, HelperOutcomes

CONSTANTS
  Helpers,    \* processes, each run again and again
  Zones,      \* zones asked for, or linked to
  Installed,  \* zones with a file
  NoZone,     \* no link
  Times       \* seconds asked for

ASSUME RclockdAssumption == Installed \subseteq Zones /\ NoZone \notin Zones

VARIABLES
  pc,         \* the next system call of each helper, "exit", or "none"
  arg,        \* the zone or time it was given
  root,       \* setuid(0) succeeded
  rv,         \* the result of set_time or set_tz, "none" until there is one
  link,       \* what /etc/localtime points to
  save,       \* what /etc/localtime.save points to
  wall, rtc,  \* the system clock and the RTC, at the epoch at first
  \* histories, read by no action
  before,     \* the links as each helper found them, and whether it is alone
  givenUp     \* the link was left missing: by a helper that was killed between
              \* its two renames, or whose rename back failed

vars == <<pc, arg, root, rv, link, save, wall, rtc, before, givenUp>>

Init ==
  /\ pc = [h \in Helpers |-> "none"]
  /\ arg \in [Helpers -> Zones]
  /\ root = [h \in Helpers |-> FALSE]
  /\ rv = [h \in Helpers |-> "none"]
  /\ link \in Zones /\ save = NoZone
  /\ wall = 0 /\ rtc = 0
  /\ before = [h \in Helpers |-> [link |-> link, save |-> save, alone |-> TRUE]]
  /\ givenUp = FALSE

\* h goes on to the system call `to'.
GoesTo(h, to) == pc' = [pc EXCEPT ![h] = to]

\* h is done, with the result r.
Returns(h, r) == GoesTo(h, "exit") /\ rv' = [rv EXCEPT ![h] = r]

-----------------------------------------------------------------------------
(* Start and end *)

\* h found the links as they are, and disturbs those that are at work.
Found(h) ==
  LET busy == { g \in Helpers \ {h} : pc[g] \notin {"none", "exit"} } IN
  [g \in Helpers |->
     CASE g = h -> [link |-> link, save |-> save, alone |-> busy = {}]
       [] g \in busy -> [before[g] EXCEPT !.alone = FALSE]
       [] OTHER -> before[g]]

\* Wrong variant: the test for a digit is the wrong way round.
RunSwapped(h) ==
  /\ pc[h] \in {"none", "exit"}
  /\ \/ GoesTo(h, "settimeofday") /\ \E z \in Zones : arg' = [arg EXCEPT ![h] = z]
     \/ GoesTo(h, "stat") /\ \E t \in Times : arg' = [arg EXCEPT ![h] = t]
  /\ \E ok \in BOOLEAN : root' = [root EXCEPT ![h] = ok]
  /\ rv' = [rv EXCEPT ![h] = "none"]
  /\ before' = Found(h)
  /\ UNCHANGED <<link, save, wall, rtc, givenUp>>

\* main: a digit means a time. set_uid fails if the binary has lost its
\* set-user-id bit; the helper carries on without the rights.
Run(h) ==
  /\ pc[h] \in {"none", "exit"}
  /\ \/ GoesTo(h, "stat") /\ \E z \in Zones : arg' = [arg EXCEPT ![h] = z]
     \/ GoesTo(h, "settimeofday") /\ \E t \in Times : arg' = [arg EXCEPT ![h] = t]
  /\ \E ok \in BOOLEAN : root' = [root EXCEPT ![h] = ok]
  /\ rv' = [rv EXCEPT ![h] = "none"]
  /\ before' = Found(h)
  /\ UNCHANGED <<link, save, wall, rtc, givenUp>>

\* Between its first rename and its end a helper owes the link.
Between(h) == pc[h] \in {"symlink", "recover"} /\ root[h]

\* The link would stay missing if h ended here.
Abandons(h) == Between(h) /\ link = NoZone

\* A kill, at any point up to the exit.
Kill(h) ==
  /\ pc[h] # "none"
  /\ GoesTo(h, "none")
  /\ rv' = [rv EXCEPT ![h] = "killed"]
  /\ givenUp' = (givenUp \/ Abandons(h))
  /\ UNCHANGED <<arg, root, link, save, wall, rtc, before>>

-----------------------------------------------------------------------------
(* set_tz *)

\* The test is the wrong way round: a path that stat finds is refused.
Stat(h) ==
  /\ pc[h] = "stat"
  /\ IF arg[h] \in Installed THEN Returns(h, "failed")
     ELSE GoesTo(h, "rename") /\ UNCHANGED rv
  /\ UNCHANGED <<arg, root, link, save, wall, rtc, before, givenUp>>

\* rename(localtime, localtime.save), its result ignored.
Rename(h) ==
  /\ pc[h] = "rename"
  /\ GoesTo(h, "symlink")
  /\ \/ root[h] /\ link # NoZone /\ link' = NoZone /\ save' = link
     \/ UNCHANGED <<link, save>>
  /\ UNCHANGED <<arg, root, rv, wall, rtc, before, givenUp>>

\* Wrong variant: the result of symlink is not looked at.
SymlinkUnchecked(h) ==
  /\ pc[h] = "symlink"
  /\ \/ root[h] /\ link = NoZone /\ link' = arg[h]
     \/ UNCHANGED link
  /\ Returns(h, "ok")
  /\ UNCHANGED <<arg, root, save, wall, rtc, before, givenUp>>

\* symlink(path, localtime) fails without the rights, where the old link is
\* still there or something else has put one, and on a full disk.
Symlink(h) ==
  /\ pc[h] = "symlink"
  /\ \/ /\ root[h] /\ link = NoZone
        /\ link' = arg[h] /\ Returns(h, "ok")
     \/ /\ GoesTo(h, "recover") /\ UNCHANGED <<link, rv>>
  /\ UNCHANGED <<arg, root, save, wall, rtc, before, givenUp>>

\* Wrong variant: the old link is not put back.
RecoverNothing(h) ==
  /\ pc[h] = "recover"
  /\ Returns(h, "failed")
  /\ UNCHANGED <<arg, root, link, save, wall, rtc, before, givenUp>>

\* Wrong variant: the link is tried again, for as long as it takes.
RecoverByRetrying(h) ==
  /\ pc[h] = "recover"
  /\ GoesTo(h, "symlink")
  /\ UNCHANGED <<arg, root, rv, link, save, wall, rtc, before, givenUp>>

\* rename(localtime.save, localtime): recovered, or "not recovered". If the
\* first rename had failed, it is the live link that is replaced.
Recover(h) ==
  /\ pc[h] = "recover"
  /\ \/ /\ root[h] /\ save # NoZone
        /\ link' = save /\ save' = NoZone /\ UNCHANGED givenUp
     \/ /\ givenUp' = (givenUp \/ Abandons(h))
        /\ UNCHANGED <<link, save>>
  /\ Returns(h, "failed")
  /\ UNCHANGED <<arg, root, wall, rtc, before>>

-----------------------------------------------------------------------------
(* set_time *)

\* settimeofday, refused without the rights or for a time the kernel does not
\* take. The test is the wrong way round: success is an error.
Settimeofday(h) ==
  /\ pc[h] = "settimeofday"
  /\ \/ root[h] /\ wall' = arg[h] /\ Returns(h, "failed")
     \/ GoesTo(h, "rtc") /\ UNCHANGED <<wall, rv>>
  /\ UNCHANGED <<arg, root, link, save, rtc, before, givenUp>>

\* open(/dev/rtc) and RTC_SET_TIME.
SetRtc(h) ==
  /\ pc[h] = "rtc"
  /\ \/ root[h] /\ rtc' = arg[h] /\ Returns(h, "ok")
     \/ Returns(h, "failed") /\ UNCHANGED rtc
  /\ UNCHANGED <<arg, root, link, save, wall, before, givenUp>>

-----------------------------------------------------------------------------
(* The specification *)

Work(h) ==
  \/ Stat(h) \/ Rename(h) \/ Symlink(h) \/ Recover(h)
  \/ Settimeofday(h) \/ SetRtc(h)

Next == \E h \in Helpers : Run(h) \/ Work(h) \/ Kill(h)

\* A helper that is neither killed nor done is scheduled by the kernel.
Spec == Init /\ [][Next]_vars /\ \A h \in Helpers : WF_vars(Work(h))

-----------------------------------------------------------------------------
(* Properties *)

\* Every variable has its type.
TypeOK ==
  /\ pc \in [Helpers -> {"none", "stat", "rename", "symlink", "recover",
                         "settimeofday", "rtc", "exit"}]
  /\ arg \in [Helpers -> Zones \cup Times]
  /\ root \in [Helpers -> BOOLEAN]
  /\ rv \in [Helpers -> {"none", "ok", "failed", "killed"}]
  /\ link \in Zones \cup {NoZone} /\ save \in Zones \cup {NoZone}
  /\ wall \in Times \cup {0} /\ rtc \in Times \cup {0}
  /\ before \in [Helpers -> [link : Zones \cup {NoZone},
                             save : Zones \cup {NoZone}, alone : BOOLEAN]]
  /\ givenUp \in BOOLEAN

\* However helpers overlap and wherever they are killed, a zone of the phone
\* survives: /etc/localtime is missing only while a helper is at work, or after
\* one was killed at it or could not rename it back, and then a zone is in
\* /etc/localtime.save (set_tz).
LinkSurvives ==
  link = NoZone =>
    /\ save # NoZone
    /\ givenUp \/ \E h \in Helpers : Between(h)

\* A missing link comes back by itself unless a helper was killed at it or
\* could not rename it back.
LinkReturns == link = NoZone ~> (link # NoZone \/ givenUp)

-----------------------------------------------------------------------------
(* What clockd relies on *)

\* Halfway through set_tz the caller still waits, and sees nothing done.
Halfway(h) == pc[h] \in {"symlink", "recover"}

Promise(h) == INSTANCE HelperPromise WITH
  link <- IF Halfway(h) THEN before[h].link ELSE link,
  save <- IF Halfway(h) THEN before[h].save ELSE save,
  answer <- rv[h]

\* A helper that nobody disturbs has one of the outcomes that ClockServer takes
\* for granted, whichever of its system calls fails and wherever it is killed:
\* each of its steps is one of HelperPromise, or cannot be seen.
KeepsPromise ==
  /\ \A h \in Helpers : Promise(h)!Init
  /\ [][\A h \in Helpers :
          before'[h].alone /\ pc'[h] # pc[h] =>
            Promise(h)!Next \/ UNCHANGED Promise(h)!vars]_vars
=============================================================================
