--------------------------- MODULE MCClockServer ---------------------------
(***************************************************************************)
(* Small worlds for ClockServer, shared by its configurations.  `rome' is  *)
(* installed, observes daylight saving where a configuration says so, and  *)
(* is one hour ahead of `utc'; `ghost' is a zone without a file, the only  *)
(* kind that rclockd links to; `etc1' stands for every Etc/GMT zone.       *)
(***************************************************************************)
EXTENDS ClockServer

CONSTANTS utc, rome, ghost, etc1, nozone, lost, f24, nofmt

MCZones == {utc, rome, ghost, etc1}
MCInstalled == {utc, rome, etc1}
MCEtcZone == [q \in -63..63 |-> etc1]
MCAbbr == [z \in MCZones |-> CASE z = rome -> <<"CET", "CEST", "CET">>
                               [] z = etc1 -> <<"+01", "+01", "+01">>
                               [] OTHER -> <<"UTC", "UTC", "UTC">>]
MCStdOffset == [z \in MCZones |-> IF z \in {rome, etc1} THEN 4 ELSE 0]
RomeSummer == [z \in MCZones |-> IF z = rome THEN {3, 4, 8, 9} ELSE {}]
NoSummer == [z \in MCZones |-> {}]

\* Nothing fails, and the worlds in which one thing does.
Fine == [time |-> "set", tz |-> "linked", save |-> "written", match |-> TRUE]
Mishaps == {[Fine EXCEPT !.time = "rtc_only"], [Fine EXCEPT !.time = "not_run"],
            [Fine EXCEPT !.tz = "failed"], [Fine EXCEPT !.tz = "link_lost"],
            [Fine EXCEPT !.tz = "stale"], [Fine EXCEPT !.tz = "refused"],
            [Fine EXCEPT !.match = FALSE], [Fine EXCEPT !.save = "open_failed"],
            [Fine EXCEPT !.save = "close_failed"]}
OneMishap == {Fine} \cup Mishaps

JustFine == {Fine}
NetworkWorlds == {Fine, [Fine EXCEPT !.time = "rtc_only"]}
TimeMishaps == {Fine} \cup { w \in Mishaps : w.time # "set" }

AllUserTz == {Name(":", rome), Name(":", ghost), Name("/", rome),
              Name("bare", rome), Name("bad", rome)}

RomeOrRefused == {Name("/", rome), Name("bad", rome)}

Message(t, dated, tz, dst) ==
  [wellTyped |-> TRUE, dated |-> dated, time |-> t, tz |-> tz, dst |-> dst]
OneMsg == {Message(1, TRUE, 4, 0)}
FewMsgs == {Message(2, TRUE, 4, 0), Message(1, FALSE, 100, 100)}
AlarmMsgs == {Message(3, TRUE, 4, 0)}
TwoCountries == [m \in {1, 2} |-> IF m = 1 THEN <<rome, rome>> ELSE <<ghost, rome>>]
NoCountry == [m \in {} |-> << >>]
Earlier == {[time_format |-> f24, autosync |-> TRUE, net_tz |-> Name("/", rome),
             system_tz |-> ghost, restore_tz |-> nozone]}
RomeBackup == {[time_format |-> nofmt, autosync |-> FALSE, net_tz |-> Empty,
                system_tz |-> rome, restore_tz |-> nozone]}

\* In these worlds a flag that is the same at both ends of the window is so all
\* through it, which next_dst_change takes for granted.
ASSUME SeasonsAreLong ==
  \A zone \in Installed, tick \in 0 .. 10 :
    DstAt(zone, tick) = DstAt(zone, tick + Window) =>
      \A j \in 1 .. Window : DstAt(zone, tick + j) = DstAt(zone, tick)
=============================================================================
