----------------------- MODULE ClockServerStepProofs -----------------------
(***************************************************************************)
(* What the handlers of ClockServer do to the clock, the zone and the      *)
(* file: that the file keeps the settings, that TZ is the server's, what   *)
(* the network may move, that the implementation of the network's time is  *)
(* one of NetworkTime.                                                     *)
(*                                                                         *)
(* The arguments rest on one fact per C function: which fields of the      *)
(* state it touches.  What it puts there is only looked at where a         *)
(* property speaks of the field.                                           *)
(***************************************************************************)
EXTENDS ClockServerProofs

Fields ==
  {"running", "autosync", "time_format", "server_tz", "saved_tz", "was_dst",
   "net_time", "net_ticks", "alarm_timer_id", "mcc_cache", "tz_list",
   "handler_installed", "tzEnv", "timers", "pendingReg", "pendingInfo",
   "netEnv", "wall", "mono", "links", "conf", "restoring", "reply", "signals"}

IsState(r) == DOMAIN r = Fields

\* From r to s nothing changes but the fields F.
Changes(r, s, F) ==
  IsState(r) /\ IsState(s) /\ \A f \in Fields \ F : s[f] = r[f]

LEMMA HereIsState == IsState(Here)
BY DEF IsState, Here, Fields

LEMMA NoChange == \A r : IsState(r) => \A F : Changes(r, r, F)
BY DEF Changes

LEMMA Compose ==
  ASSUME NEW r, NEW s, NEW t, NEW F, NEW G, NEW H,
         Changes(r, s, F), Changes(s, t, G), F \cup G \subseteq H
  PROVE  Changes(r, t, H)
BY DEF Changes

LEMMA Weaken ==
  ASSUME NEW r, NEW s, NEW F, NEW G, Changes(r, s, F), F \subseteq G
  PROVE  Changes(r, s, G)
BY DEF Changes

-----------------------------------------------------------------------------
(* What each function touches *)

\* The functions that touch a field or two.
LEMMA SetEnvChanges ==
  ASSUME NEW r, IsState(r), NEW n
  PROVE  /\ Changes(r, SetEnv(r, n), {"tzEnv"})
         /\ SetEnv(r, n).tzEnv = EnvTz(n)
BY DEF SetEnv, IsState, Changes, Fields

LEMMA ClobberEnvChanges ==
  ASSUME NEW r, IsState(r)
  PROVE  /\ Changes(r, ClobberEnv(r), {"tzEnv"})
         /\ ClobberEnv(r).tzEnv = UTC
BY RestoredTzIsUTC DEF ClobberEnv, IsState, Changes, Fields

LEMMA InternalSetTimeChanges ==
  ASSUME NEW r, IsState(r), NEW t, NEW w
  PROVE  /\ Changes(r, InternalSetTime(r, t, w), {"wall"})
         /\ InternalSetTime(r, t, w).wall \in {r.wall, t}
BY DEF InternalSetTime, IsState, Changes, Fields

LEMMA InternalSetTzChanges ==
  ASSUME NEW r, IsState(r), NEW n, NEW w
  PROVE  Changes(r, InternalSetTz(r, n, w), {"links"})
BY DEF InternalSetTz, IsState, Changes, Fields

LEMMA SaveConfChanges ==
  ASSUME NEW r, IsState(r), NEW w
  PROVE  /\ Changes(r, SaveConf(r, w), {"conf"})
         /\ SaveConf(r, w).conf \in {Settings(r), Lost}
         /\ ~SaveSucceeds(w) => SaveConf(r, w).conf = Lost
BY DEF SaveConf, SaveSucceeds, IsState, Changes, Fields

LEMMA RepliesChanges ==
  ASSUME NEW r, IsState(r), NEW ok
  PROVE  Changes(r, Replies(r, ok), {"reply"})
BY DEF Replies, IsState, Changes, Fields

Alarm == {"timers", "alarm_timer_id"}

LEMMA NextDstChangeChanges ==
  ASSUME NEW r, IsState(r), NEW tick, NEW keep \in BOOLEAN
  PROVE  Changes(r, NextDstChange(r, tick, keep), Alarm)
BY DEF NextDstChange, Alarm, IsState, Changes, Fields

\* What was sent is a sequence, of whatever it is.
HasSent(r) == \E S : r.signals \in Seq(S)

\* A broadcast is one that the step can be seen to have sent.
LEMMA SendIndicationChanges ==
  ASSUME NEW r, IsState(r), NEW t
  PROVE  /\ Changes(r, SendIndication(r, t), {"was_dst", "signals"})
         /\ HasSent(r) => /\ HasSent(SendIndication(r, t))
                          /\ SendIndication(r, t).signals # << >>
<1> DEFINE s == SendIndication(r, t)
<1>1. Changes(r, s, {"was_dst", "signals"}) /\ s.signals = Append(r.signals, t)
  BY DEF SendIndication, IsState, Changes, Fields
<1>2. ASSUME NEW S, r.signals \in Seq(S)
      PROVE  s.signals \in Seq(S \cup {t}) /\ s.signals # << >>
  <2>1. r.signals \in Seq(S \cup {t})
    BY <1>2
  <2> QED
    BY <1>1, <2>1
<1> QED
  BY <1>1, <1>2 DEF HasSent

\* The functions that call them, as long as only the fields matter.
LEMMA ServerSetTimeChanges ==
  ASSUME NEW r, IsState(r), NEW tick, NEW w
  PROVE  /\ Changes(r, ServerSetTime(r, tick, w), {"wall"} \cup Alarm)
         /\ ServerSetTime(r, tick, w).wall \in {r.wall, tick}
<1> DEFINE moved == InternalSetTime(r, tick, w)
           s == NextDstChange(moved, tick, FALSE)
<1>1. Changes(r, moved, {"wall"}) /\ moved.wall \in {r.wall, tick}
  BY InternalSetTimeChanges
<1> HIDE DEF moved
<1>2. Changes(moved, s, Alarm)
  BY <1>1, NextDstChangeChanges DEF Changes
<1>3. Changes(r, s, {"wall"} \cup Alarm)
  BY <1>1, <1>2, Compose
<1>4. s.wall = moved.wall
  BY <1>2 DEF Changes, Fields, Alarm
<1> QED
  BY <1>1, <1>3, <1>4 DEF ServerSetTime, moved

LEMMA SetNetTimezoneChanges ==
  ASSUME NEW r, IsState(r), NEW n, NEW w
  PROVE  Changes(r, SetNetTimezone(r, n, w), {"links"} \cup Alarm)
<1> DEFINE linked == InternalSetTz(r, n, w)
           s == NextDstChange(linked, r.wall, FALSE)
<1>1. Changes(r, linked, {"links"})
  BY InternalSetTzChanges
<1> HIDE DEF linked
<1>2. Changes(linked, s, Alarm)
  BY <1>1, NextDstChangeChanges DEF Changes
<1>3. Changes(r, s, {"links"} \cup Alarm)
  BY <1>1, <1>2, Compose
<1>4. Changes(r, r, {"links"} \cup Alarm) /\ Changes(r, linked, {"links"} \cup Alarm)
  BY <1>1, NoChange, Weaken
<1>5. SetNetTimezone(r, n, w) \in {r, linked, s}
  BY DEF SetNetTimezone, linked
<1> QED
  BY <1>3, <1>4, <1>5

Zone == {"server_tz", "tzEnv", "links"}

LEMMA AdoptOperatorTzChanges ==
  ASSUME NEW r, IsState(r), NEW w
  PROVE  LET s == AdoptOperatorTz(r, w) IN
         /\ Changes(r, s, Zone \cup Alarm)
         /\ s.server_tz = Name("/", r.saved_tz.zone)
         /\ s.tzEnv = EnvTz(s.server_tz)
<1> DEFINE n == Name("/", r.saved_tz.zone)
           named == [r EXCEPT !.server_tz = n]
           zoned == SetNetTimezone(named, n, w)
           s == SetEnv(zoned, n)
<1> HIDE DEF n
<1>1. Changes(r, named, {"server_tz"}) /\ named.server_tz = n
  BY DEF IsState, Changes, Fields
<1> HIDE DEF named
<1>2. Changes(named, zoned, {"links"} \cup Alarm)
  BY <1>1, SetNetTimezoneChanges DEF Changes
<1> HIDE DEF zoned
<1>3. Changes(zoned, s, {"tzEnv"}) /\ s.tzEnv = EnvTz(n)
  BY <1>2, SetEnvChanges DEF Changes
<1> HIDE DEF s
<1>4. Changes(r, zoned, {"server_tz", "links"} \cup Alarm)
  BY <1>1, <1>2, Compose
<1>5. Changes(r, s, Zone \cup Alarm)
  BY <1>3, <1>4, Compose DEF Zone
<1>6. s.server_tz = n
  BY <1>1, <1>2, <1>3 DEF Changes, Fields, Alarm
<1> QED
  BY <1>3, <1>5, <1>6 DEF AdoptOperatorTz, s, zoned, named, n

-----------------------------------------------------------------------------
(* The settings, the file, the links and TZ belong together *)

\* TZ stands for the server's zone or UTC.
EnvFits(r) == r.tzEnv \in {UTC, EnvTz(r.server_tz)}

\* A zone with a colon is the one that was linked, unless a helper has lost the
\* link, or has put the saved one in its place.
LinkFits(r) ==
  r.server_tz.form = ":" =>
    \/ r.links.link = r.server_tz.zone
    \/ NoZone \in {r.links.link, r.links.save}

ZoneFits(r) == EnvFits(r) /\ LinkFits(r)

\* A file that no script has put there has the settings.
FileFits(r) ==
  r.conf # Lost /\ ~r.restoring =>
    /\ r.conf.time_format = r.time_format
    /\ r.conf.autosync = r.autosync \/ r.netEnv = "disabled"
    /\ r.conf.net_tz = IF r.server_tz.form = ":" THEN Empty ELSE r.server_tz

\* No file names a zone with a colon.
FilePlain(r) == r.conf # Lost => r.conf.net_tz.form # ":"

\* What holds between the handlers.
Fits(r) ==
  /\ FilePlain(r)
  /\ IF r.running THEN ZoneFits(r) /\ FileFits(r) ELSE ~r.restoring

FileFields == {"conf", "restoring", "time_format", "autosync", "netEnv", "server_tz"}

\* What is not touched fits as before.
LEMMA Untouched ==
  ASSUME NEW r, NEW s, NEW F, Changes(r, s, F)
  PROVE  /\ F \cap Zone = {} => (ZoneFits(r) <=> ZoneFits(s))
         /\ F \cap FileFields = {} => (FileFits(r) <=> FileFits(s))
         /\ "conf" \notin F => (FilePlain(r) <=> FilePlain(s))
<1>1. ASSUME F \cap Zone = {} PROVE ZoneFits(r) <=> ZoneFits(s)
  <2>1. s.server_tz = r.server_tz /\ s.tzEnv = r.tzEnv /\ s.links = r.links
    BY <1>1 DEF Changes, Fields, Zone
  <2> QED
    BY <2>1 DEF ZoneFits, EnvFits, LinkFits
<1>2. ASSUME F \cap FileFields = {} PROVE FileFits(r) <=> FileFits(s)
  <2>1. /\ s.conf = r.conf /\ s.restoring = r.restoring
        /\ s.time_format = r.time_format /\ s.autosync = r.autosync
        /\ s.netEnv = r.netEnv /\ s.server_tz = r.server_tz
    BY <1>2 DEF Changes, Fields, FileFields
  <2> QED
    BY <2>1 DEF FileFits
<1>3. ASSUME "conf" \notin F PROVE FilePlain(r) <=> FilePlain(s)
  BY <1>3 DEF Changes, Fields, FilePlain
<1> QED
  BY <1>1, <1>2, <1>3

\* save_conf makes the file fit, whatever it was (and close and open fail how
\* they may).
LEMMA SaveConfFits ==
  ASSUME NEW r, IsState(r), NEW w
  PROVE  FileFits(SaveConf(r, w)) /\ FilePlain(SaveConf(r, w))
<1> DEFINE s == SaveConf(r, w)
<1>1. Changes(r, s, {"conf"}) /\ s.conf \in {Settings(r), Lost}
  BY SaveConfChanges
<1>2. /\ s.time_format = r.time_format /\ s.autosync = r.autosync
      /\ s.server_tz = r.server_tz
  BY <1>1 DEF Changes, Fields
<1>3. Empty.form # ":"
  BY Zenon DEF Empty, Name
<1> QED
  BY <1>1, <1>2, <1>3 DEF Settings, FileFits, FilePlain

\* The operator's zone is spelled so that TZ can take it.
LEMMA AdoptOperatorTzFits ==
  ASSUME NEW r, IsState(r), NEW w
  PROVE  ZoneFits(AdoptOperatorTz(r, w))
<1>1. Name("/", r.saved_tz.zone).form # ":"
  BY DEF Name
<1> QED
  BY <1>1, AdoptOperatorTzChanges DEF ZoneFits, EnvFits, LinkFits

Sent == {"was_dst", "signals"}

\* set_network_time: only the two times move the clock, a new zone comes with
\* its link and its TZ, and is saved and broadcast if the caller asks for it.
LEMMA SetNetworkTimeDoes ==
  ASSUME NEW r, IsState(r), NEW saving \in BOOLEAN, NEW w
  PROVE  LET s == SetNetworkTime(r, saving, w) IN
         /\ Changes(r, s, {"wall", "conf"} \cup Sent \cup Zone \cup Alarm)
         /\ s.wall \in {r.wall, NetTimeNow(r)}
         /\ ZoneFits(r) => ZoneFits(s)
         /\ FilePlain(r) => FilePlain(s)
         /\ saving /\ FileFits(r) => FileFits(s)
         /\ HasSent(r) => HasSent(s)
         /\ saving /\ HasSent(r) /\ s.server_tz # r.server_tz => s.signals # << >>
<1> DEFINE t == NetTimeNow(r)
           s == ServerSetTime(r, t, w)
           here == Tail1(s.server_tz)
           oper == Tail1(s.saved_tz)
           clobbered == [s EXCEPT !.tzEnv = EnvAfterCmp(@, here, oper)]
           compared == IF s.saved_tz = Empty THEN s ELSE clobbered
           moved == IF s.saved_tz # Empty /\ TzDiffer(here, oper)
                    THEN AdoptOperatorTz(compared, w) ELSE compared
           saved == SaveConf(moved, w)
           told == SendIndication(saved, t)
           All == {"wall", "conf"} \cup Sent \cup Zone \cup Alarm
           Moves == {"wall"} \cup Zone \cup Alarm
<1> HIDE DEF t
<1>1. Changes(r, s, {"wall"} \cup Alarm) /\ s.wall \in {r.wall, t}
  BY ServerSetTimeChanges
<1>2. /\ ZoneFits(r) <=> ZoneFits(s)
      /\ FileFits(r) <=> FileFits(s)
      /\ FilePlain(r) <=> FilePlain(s)
  <2>1. ({"wall"} \cup Alarm) \cap Zone = {} /\ ({"wall"} \cup Alarm) \cap FileFields = {}
        /\ "conf" \notin {"wall"} \cup Alarm
    BY DEF Alarm, Zone, FileFields
  <2> QED
    BY <1>1, <2>1, Untouched
<1>3. s.server_tz = r.server_tz
  BY <1>1 DEF Changes, Fields, Alarm
<1> HIDE DEF s
<1> HIDE DEF here, oper
<1>4. Changes(s, clobbered, {"tzEnv"}) /\ clobbered.tzEnv \in {s.tzEnv, UTC}
  BY <1>1, RestoredTzIsUTC DEF EnvAfterCmp, Changes, IsState, Fields
<1> HIDE DEF clobbered
<1>5. Changes(s, compared, {"tzEnv"}) /\ compared.tzEnv \in {s.tzEnv, UTC}
  BY <1>1, <1>4, NoChange DEF Changes
<1> HIDE DEF compared
<1>6. ZoneFits(s) => ZoneFits(compared)
  <2>1. compared.server_tz = s.server_tz /\ compared.links = s.links
    BY <1>5 DEF Changes, Fields
  <2> QED
    BY <1>5, <2>1 DEF ZoneFits, EnvFits, LinkFits
<1>7. /\ Changes(s, moved, Zone \cup Alarm)
      /\ ZoneFits(s) => ZoneFits(moved)
  <2>1. CASE moved = compared
    BY <1>5, <1>6, <2>1, Weaken DEF Zone
  <2>2. CASE moved = AdoptOperatorTz(compared, w)
    <3>1. IsState(compared)
      BY <1>5 DEF Changes
    <3>2. ZoneFits(moved) /\ Changes(compared, moved, Zone \cup Alarm)
      BY <2>2, <3>1, AdoptOperatorTzFits, AdoptOperatorTzChanges
    <3> QED
      BY <1>5, <3>2, Compose DEF Zone
  <2> QED
    BY <2>1, <2>2
<1> HIDE DEF moved
<1>8. Changes(r, moved, Moves) /\ moved.wall = s.wall
  <2>1. moved.wall = s.wall
    BY <1>7 DEF Changes, Fields, Zone, Alarm
  <2> QED
    BY <1>1, <1>7, <2>1, Compose
<1>9. "conf" \notin Moves /\ "conf" \notin Zone \cup Alarm /\ "signals" \notin Moves
  BY DEF Zone, Alarm
<1>10. FilePlain(r) <=> FilePlain(moved)
  BY <1>8, <1>9, Untouched
<1>11. /\ Changes(moved, saved, {"conf"}) /\ FileFits(saved) /\ FilePlain(saved)
       /\ Changes(saved, told, Sent)
       /\ HasSent(saved) => HasSent(told) /\ told.signals # << >>
  <2>1. Changes(moved, saved, {"conf"}) /\ FileFits(saved) /\ FilePlain(saved)
    BY <1>8, SaveConfChanges, SaveConfFits DEF Changes
  <2> HIDE DEF saved
  <2>2. IsState(saved)
    BY <2>1 DEF Changes
  <2> QED
    BY <2>1, <2>2, SendIndicationChanges DEF Sent
<1> HIDE DEF saved, told
<1>12. /\ ZoneFits(moved) <=> ZoneFits(told)
       /\ FileFits(told) /\ FilePlain(told)
  <2>1. {"conf"} \cap Zone = {} /\ Sent \cap Zone = {} /\ Sent \cap FileFields = {}
        /\ "conf" \notin Sent
    BY DEF Sent, Zone, FileFields
  <2>2. ZoneFits(moved) <=> ZoneFits(saved)
    BY <1>11, <2>1, Untouched
  <2> QED
    BY <1>11, <2>1, <2>2, Untouched
<1>13. Changes(r, told, All) /\ told.wall = s.wall
  <2>1. Changes(r, saved, {"conf"} \cup Moves)
    BY <1>8, <1>11, Compose
  <2>2. told.wall = moved.wall
    BY <1>11 DEF Changes, Fields, Sent
  <2>3. ({"conf"} \cup Moves) \cup Sent \subseteq All
    OBVIOUS
  <2> QED
    BY <1>8, <1>11, <2>1, <2>2, <2>3, Compose
<1>14. HasSent(r) => /\ HasSent(s) /\ HasSent(moved)
                     /\ HasSent(told) /\ told.signals # << >>
  <2>1. saved.signals = r.signals /\ moved.signals = r.signals /\ s.signals = r.signals
    BY <1>1, <1>8, <1>9, <1>11 DEF Changes, Fields, Alarm
  <2> QED
    BY <1>11, <2>1 DEF HasSent
<1>15. Changes(r, s, All) /\ Changes(r, moved, All)
  <2>1. {"wall"} \cup Alarm \subseteq All /\ Moves \subseteq All
    OBVIOUS
  <2> QED
    BY <1>1, <1>8, <2>1, Weaken
<1>16. SetNetworkTime(r, saving, w)
         \in IF saving THEN {s, told} ELSE {s, moved}
  BY DEF SetNetworkTime, told, saved, moved, compared, clobbered, here, oper, s, t
<1> HIDE DEF All, Moves
<1>17. CASE SetNetworkTime(r, saving, w) = s
  BY <1>1, <1>2, <1>3, <1>14, <1>15, <1>17 DEF All, t
<1>18. CASE ~saving /\ SetNetworkTime(r, saving, w) = moved
  BY <1>1, <1>2, <1>7, <1>8, <1>10, <1>14, <1>15, <1>18 DEF All, t
<1>19. CASE saving /\ SetNetworkTime(r, saving, w) = told
  BY <1>1, <1>2, <1>7, <1>12, <1>13, <1>14, <1>19 DEF All, t
<1> QED
  BY <1>16, <1>17, <1>18, <1>19

\* server_set_operator_tz_cb: everything that belongs to a zone follows it.
LEMMA SetOperatorTzDoes ==
  ASSUME NEW r, IsState(r), NEW zone, NEW w
  PROVE  LET s == SetOperatorTz(r, zone, w) IN
         /\ Changes(r, s, {"saved_tz", "conf"} \cup Sent \cup Zone \cup Alarm)
         /\ ZoneFits(s) /\ FileFits(s) /\ FilePlain(s)
         /\ HasSent(r) => s.signals # << >>
<1> DEFINE n == Name("/", zone)
           named == [r EXCEPT !.saved_tz = Name(":", zone), !.server_tz = n]
           linked == InternalSetTz(named, n, w)
           taken == SetEnv(linked, n)
           saved == SaveConf(taken, w)
           alarmed == NextDstChange(saved, saved.wall, FALSE)
           told == SendIndication(alarmed, 0)
           All == {"saved_tz", "conf"} \cup Sent \cup Zone \cup Alarm
<1>0. n.form # ":"
  BY DEF Name
<1> HIDE DEF n
<1>1. Changes(r, named, {"saved_tz", "server_tz"}) /\ named.server_tz = n
  BY DEF IsState, Changes, Fields
<1> HIDE DEF named
<1>2. Changes(named, linked, {"links"})
  BY <1>1, InternalSetTzChanges DEF Changes
<1> HIDE DEF linked
<1>3. Changes(linked, taken, {"tzEnv"}) /\ taken.tzEnv = EnvTz(n)
  BY <1>2, SetEnvChanges DEF Changes
<1> HIDE DEF taken
<1>4. ZoneFits(taken)
  <2>1. taken.server_tz = n
    BY <1>1, <1>2, <1>3 DEF Changes, Fields
  <2> QED
    BY <1>0, <1>3, <2>1 DEF ZoneFits, EnvFits, LinkFits
<1>5. Changes(r, taken, {"saved_tz"} \cup Zone)
  <2>1. Changes(r, linked, {"saved_tz", "server_tz", "links"})
    BY <1>1, <1>2, Compose
  <2> QED
    BY <1>3, <2>1, Compose DEF Zone
<1>6. Changes(taken, saved, {"conf"}) /\ FileFits(saved) /\ FilePlain(saved)
  BY <1>5, SaveConfChanges, SaveConfFits DEF Changes
<1> HIDE DEF saved
<1>7. Changes(saved, alarmed, Alarm)
  BY <1>6, NextDstChangeChanges DEF Changes
<1> HIDE DEF alarmed
<1>8. Changes(alarmed, told, Sent) /\ (HasSent(alarmed) => told.signals # << >>)
  BY <1>7, SendIndicationChanges DEF Changes, Sent
<1> HIDE DEF told
<1>9. ZoneFits(told) /\ FileFits(told) /\ FilePlain(told)
  <2>1. {"conf"} \cap Zone = {} /\ Sent \cap Zone = {} /\ Alarm \cap Zone = {}
        /\ Sent \cap FileFields = {} /\ Alarm \cap FileFields = {}
        /\ "conf" \notin Sent /\ "conf" \notin Alarm
    BY DEF Sent, Alarm, Zone, FileFields
  <2>2. ZoneFits(alarmed) /\ FileFits(alarmed) /\ FilePlain(alarmed)
    BY <1>4, <1>6, <1>7, <2>1, Untouched
  <2> QED
    BY <1>8, <2>1, <2>2, Untouched
<1>10. Changes(r, told, All)
  <2>1. Changes(r, saved, {"saved_tz", "conf"} \cup Zone)
    BY <1>5, <1>6, Compose
  <2>2. Changes(r, alarmed, {"saved_tz", "conf"} \cup Zone \cup Alarm)
    BY <1>7, <2>1, Compose
  <2> QED
    BY <1>8, <2>2, Compose
<1>11. HasSent(r) => told.signals # << >>
  <2>1. alarmed.signals = r.signals
    BY <1>5, <1>6, <1>7 DEF Changes, Fields, Zone, Alarm
  <2> QED
    BY <1>8, <2>1 DEF HasSent
<1> QED
  BY <1>9, <1>10, <1>11
  DEF SetOperatorTz, told, alarmed, saved, taken, linked, named, n

\* handle_csd_net_time_change remembers when it heard of which time.
LEMMA RememberNetTimeChanges ==
  ASSUME NEW r, IsState(r), NEW d
  PROVE  LET s == RememberNetTime(r, d) IN
         /\ Changes(r, s, {"net_time", "net_ticks", "saved_tz", "tzEnv"})
         /\ s.net_time = d.time /\ s.net_ticks = r.mono /\ s.tzEnv = UTC
<1> DEFINE n == IF KeepsSavedTz(r, d, FoundTz(r, d)) THEN r.saved_tz
                ELSE Name(":", FoundTz(r, d).zone)
<1>1. RememberNetTime(r, d) =
        [r EXCEPT !.net_time = d.time, !.net_ticks = r.mono,
                  !.saved_tz = n, !.tzEnv = UTC]
  BY RestoredTzIsUTC DEF RememberNetTime
<1> HIDE DEF n
<1> QED
  BY <1>1 DEF IsState, Changes, Fields

Noted == {"net_time", "net_ticks", "saved_tz", "tzEnv"}

\* What every way out of handle_csd_net_time_change keeps.
CsdKeeps(r, s) ==
  /\ Changes(r, s, Noted \cup {"wall", "conf"} \cup Sent \cup Zone \cup Alarm)
  /\ ~r.autosync => Changes(r, s, Noted \cup {"conf"} \cup Sent)
  /\ ZoneFits(r) => ZoneFits(s)
  /\ FilePlain(r) => FilePlain(s)
  /\ FileFits(r) => FileFits(s)
  /\ HasSent(r) => HasSent(s) /\ (s.server_tz # r.server_tz => s.signals # << >>)

\* A message that is not thrown away is the network's time from now on, and
\* the clock is left alone or set to it.
CsdHears(r, s, d) ==
  /\ d.ok /\ d.time # -1
  /\ s.net_time = d.time /\ s.net_ticks = r.mono
  /\ s.wall \in {r.wall, d.time}

LEMMA HandleCsdDoes ==
  ASSUME NEW r, IsState(r), NEW d, NEW w
  PROVE  LET s == HandleCsd(r, d, w).state IN
         /\ CsdKeeps(r, s)
         /\ s \in {r, ClobberEnv(r)} \/ CsdHears(r, s, d)
<1> DEFINE clear == ClobberEnv(r)
           heard == RememberNetTime(clear, d)
           time_changed == r.wall # d.time
           tz_changed == /\ heard.saved_tz # Empty
                         /\ \/ TzDiffer(heard.server_tz, heard.saved_tz)
                            \/ ~InCountry(heard.server_tz, heard.tz_list)
           timed == IF time_changed /\ r.autosync
                    THEN ServerSetTime(heard, d.time, w) ELSE heard
           zoned == IF tz_changed /\ r.autosync
                    THEN AdoptOperatorTz(timed, w) ELSE timed
           told == IF time_changed \/ tz_changed
                   THEN SendIndication(zoned, IF time_changed THEN zoned.wall ELSE 0)
                   ELSE zoned
           saved == SaveConf(told, w)
           All == Noted \cup {"wall", "conf"} \cup Sent \cup Zone \cup Alarm
           Few == Noted \cup {"conf"} \cup Sent
<1>1. Changes(r, clear, {"tzEnv"}) /\ clear.tzEnv = UTC
  BY ClobberEnvChanges
<1>2. ASSUME NEW s, Changes(r, s, {"tzEnv"}), s.tzEnv \in {r.tzEnv, UTC}
      PROVE  CsdKeeps(r, s)
  <2>1. /\ s.server_tz = r.server_tz /\ s.links = r.links /\ s.signals = r.signals
        /\ FileFits(r) <=> FileFits(s)
        /\ FilePlain(r) <=> FilePlain(s)
    <3>1. {"tzEnv"} \cap FileFields = {} /\ "conf" \notin {"tzEnv"}
      BY DEF FileFields
    <3> QED
      BY <1>2, <3>1, Untouched DEF Changes, Fields
  <2>2. ZoneFits(r) => ZoneFits(s)
    BY <1>2, <2>1 DEF ZoneFits, EnvFits, LinkFits
  <2>3. Changes(r, s, All) /\ Changes(r, s, Few)
    BY <1>2, Weaken DEF Noted
  <2> QED
    BY <2>1, <2>2, <2>3 DEF CsdKeeps, HasSent
<1>3. CsdKeeps(r, r) /\ CsdKeeps(r, clear)
  BY <1>1, <1>2, NoChange
<1> HIDE DEF clear
<1>4. /\ Changes(r, heard, Noted) /\ heard.tzEnv = UTC
      /\ heard.net_time = d.time /\ heard.net_ticks = r.mono
  <2>1. /\ Changes(clear, heard, Noted) /\ heard.tzEnv = UTC
        /\ heard.net_time = d.time /\ heard.net_ticks = clear.mono
    BY <1>1, RememberNetTimeChanges DEF Changes, Noted
  <2>2. clear.mono = r.mono
    BY <1>1 DEF Changes, Fields
  <2> QED
    BY <1>1, <2>1, <2>2, Compose DEF Noted
<1> HIDE DEF heard
<1>5. /\ Changes(heard, timed, {"wall"} \cup Alarm)
      /\ timed.wall \in {heard.wall, d.time}
      /\ ~r.autosync => timed = heard
  BY <1>4, ServerSetTimeChanges, NoChange DEF Changes
<1> HIDE DEF timed
<1>6. /\ Changes(timed, zoned, Zone \cup Alarm)
      /\ ZoneFits(timed) => ZoneFits(zoned)
      /\ ~r.autosync => zoned = timed
      /\ zoned.server_tz # timed.server_tz => tz_changed
  BY <1>5, AdoptOperatorTzChanges, AdoptOperatorTzFits, NoChange DEF Changes
<1> HIDE DEF zoned, tz_changed, time_changed
<1>7. /\ Changes(zoned, told, Sent)
      /\ HasSent(zoned) => HasSent(told) /\ (tz_changed => told.signals # << >>)
  <2>1. CASE time_changed \/ tz_changed
    <3>1. IsState(zoned)
      BY <1>6 DEF Changes
    <3> QED
      BY <2>1, <3>1, SendIndicationChanges DEF Sent
  <2>2. CASE ~(time_changed \/ tz_changed)
    BY <1>6, <2>2, NoChange DEF Changes
  <2> QED
    BY <2>1, <2>2
<1> HIDE DEF told
<1>8. Changes(told, saved, {"conf"}) /\ FileFits(saved) /\ FilePlain(saved)
  BY <1>7, SaveConfChanges, SaveConfFits DEF Changes
<1> HIDE DEF saved
<1>9. ZoneFits(r) => ZoneFits(timed) /\ ZoneFits(saved)
  <2>1. {"conf"} \cap Zone = {} /\ Sent \cap Zone = {}
        /\ ({"wall"} \cup Alarm) \cap Zone = {}
    BY DEF Sent, Zone, Alarm
  <2>2. heard.server_tz = r.server_tz /\ heard.links = r.links
    BY <1>4 DEF Changes, Fields, Noted
  <2>3. ZoneFits(r) => ZoneFits(heard)
    BY <1>4, <2>2 DEF ZoneFits, EnvFits, LinkFits
  <2>4. ZoneFits(heard) => ZoneFits(timed)
    BY <1>5, <2>1, Untouched
  <2>5. ZoneFits(zoned) => ZoneFits(told)
    BY <1>7, <2>1, Untouched
  <2> QED
    BY <1>6, <1>8, <2>1, <2>3, <2>4, <2>5, Untouched
<1>10. Changes(r, timed, Noted \cup {"wall"} \cup Alarm)
  BY <1>4, <1>5, Compose
<1>11. (FileFits(r) => FileFits(timed)) /\ (FilePlain(r) => FilePlain(timed))
  <2>1. (Noted \cup {"wall"} \cup Alarm) \cap FileFields = {}
        /\ "conf" \notin Noted \cup {"wall"} \cup Alarm
    BY DEF Noted, Alarm, FileFields
  <2> QED
    BY <1>10, <2>1, Untouched
<1>12. Changes(r, told, Noted \cup {"wall"} \cup Sent \cup Zone \cup Alarm)
  <2>1. Changes(r, zoned, Noted \cup {"wall"} \cup Zone \cup Alarm)
    BY <1>6, <1>10, Compose
  <2> QED
    BY <1>7, <2>1, Compose
<1>13. Changes(r, saved, All) /\ Changes(r, timed, All)
  BY <1>8, <1>10, <1>12, Compose, Weaken
<1>14. ASSUME ~r.autosync PROVE Changes(r, saved, Few) /\ Changes(r, timed, Few)
  <2>1. Changes(heard, told, Sent)
    BY <1>5, <1>6, <1>7, <1>14
  <2>2. Changes(r, told, Noted \cup Sent)
    BY <1>4, <2>1, Compose
  <2>3. Changes(r, saved, Few)
    BY <1>8, <2>2, Compose
  <2>4. Changes(r, timed, Few)
    BY <1>4, <1>5, <1>14, Weaken
  <2> QED
    BY <2>3, <2>4
<1>15. /\ timed.net_time = d.time /\ timed.net_ticks = r.mono
       /\ saved.net_time = d.time /\ saved.net_ticks = r.mono
  BY <1>4, <1>5, <1>6, <1>7, <1>8 DEF Changes, Fields, Sent, Zone, Alarm
<1>16. timed.wall \in {r.wall, d.time} /\ saved.wall = timed.wall
  <2>1. heard.wall = r.wall
    BY <1>4 DEF Changes, Fields, Noted
  <2>2. saved.wall = timed.wall
    BY <1>6, <1>7, <1>8 DEF Changes, Fields, Sent, Zone, Alarm
  <2> QED
    BY <1>5, <2>1, <2>2
<1>17. ASSUME HasSent(r)
       PROVE  /\ HasSent(timed) /\ timed.server_tz = r.server_tz
              /\ HasSent(saved)
              /\ saved.server_tz # r.server_tz => saved.signals # << >>
  <2>1. timed.signals = r.signals /\ timed.server_tz = r.server_tz
    BY <1>10 DEF Changes, Fields, Noted, Alarm
  <2>2. zoned.signals = timed.signals
    BY <1>6 DEF Changes, Fields, Zone, Alarm
  <2>3. saved.signals = told.signals /\ saved.server_tz = zoned.server_tz
    BY <1>7, <1>8 DEF Changes, Fields, Sent
  <2> QED
    BY <1>6, <1>7, <1>17, <2>1, <2>2, <2>3 DEF HasSent
<1> HIDE DEF All, Few
<1>18. CsdKeeps(r, timed) /\ CsdKeeps(r, saved)
  BY <1>8, <1>9, <1>11, <1>13, <1>14, <1>17 DEF CsdKeeps, All, Few
<1>19. CASE ~d.ok \/ d.time = -1
  <2>1. HandleCsd(r, d, w).state \in {r, clear}
    BY <1>19 DEF HandleCsd, clear
  <2> QED
    BY <1>3, <2>1 DEF clear
<1>20. CASE d.ok /\ d.time # -1
  <2>1. HandleCsd(r, d, w).state \in {timed, saved}
    BY <1>20 DEF HandleCsd, saved, told, zoned, timed, tz_changed, time_changed,
                 heard, clear
  <2> QED
    BY <1>15, <1>16, <1>18, <1>20, <2>1 DEF CsdHears
<1> QED
  BY <1>19, <1>20

-----------------------------------------------------------------------------
(* The country, and the start *)

\* mcc_tz_set_tz_from_mcc does nothing, or all that a new zone takes.
LEMMA SetTzFromMccDoes ==
  ASSUME NEW r, IsState(r), NEW w
  PROVE  LET s == SetTzFromMcc(r, w) IN
         /\ Changes(r, s, {"saved_tz", "conf"} \cup Sent \cup Zone \cup Alarm)
         /\ ZoneFits(r) => ZoneFits(s)
         /\ FileFits(r) => FileFits(s)
         /\ FilePlain(r) => FilePlain(s)
         /\ s = r \/ (HasSent(r) => s.signals # << >>)
<1> DEFINE zone == CHOOSE z \in r.tz_list : TRUE
<1>1. SetTzFromMcc(r, w) \in {r, SetOperatorTz(r, zone, w)}
  BY DEF SetTzFromMcc
<1> HIDE DEF zone
<1> QED
  BY <1>1, SetOperatorTzDoes, NoChange

\* mcc_tz_handle_registration_status_reply touches no setting.
LEMMA HandleRegistrationDoes ==
  ASSUME NEW r, IsState(r), NEW registered \in BOOLEAN, NEW mcc,
         NEW found \in BOOLEAN
  PROVE  LET s == HandleRegistration(r, registered, mcc, found) IN
         /\ Changes(r, s, {"mcc_cache", "tz_list", "tzEnv", "pendingInfo"})
         /\ s.tzEnv \in {r.tzEnv, UTC}
<1> DEFINE F == {"mcc_cache", "tz_list", "tzEnv", "pendingInfo"}
           emptied == [r EXCEPT !.mcc_cache = mcc, !.tz_list = {}]
           listed == [emptied EXCEPT !.tz_list = CountryZones(CityZones[mcc])]
           updated == UpdateTzList(r, mcc, found)
           forgot == [r EXCEPT !.mcc_cache = 0]
           asked == [updated EXCEPT !.pendingInfo = @ + 1]
<1>1. \A x \in {emptied, listed} :
        Changes(r, x, {"mcc_cache", "tz_list"}) /\ x.tzEnv = r.tzEnv
  BY DEF IsState, Changes, Fields
<1>2. updated \in {emptied, listed, ClobberEnv(listed)}
  BY Zenon DEF UpdateTzList
<1> HIDE DEF emptied, listed, updated
<1>3. Changes(r, updated, {"mcc_cache", "tz_list", "tzEnv"})
      /\ updated.tzEnv \in {r.tzEnv, UTC}
  <2>1. CASE updated \in {emptied, listed}
    BY <1>1, <2>1, Weaken
  <2>2. CASE updated = ClobberEnv(listed)
    <3>1. Changes(listed, updated, {"tzEnv"}) /\ updated.tzEnv = UTC
      BY <1>1, <2>2, ClobberEnvChanges DEF Changes
    <3> QED
      BY <1>1, <3>1, Compose
  <2> QED
    BY <1>2, <2>1, <2>2
<1>4. Changes(updated, asked, {"pendingInfo"}) /\ asked.tzEnv = updated.tzEnv
  BY <1>3 DEF IsState, Changes, Fields
<1>5. Changes(r, forgot, {"mcc_cache"}) /\ forgot.tzEnv = r.tzEnv
  BY DEF IsState, Changes, Fields
<1> HIDE DEF asked, forgot
<1>6. Changes(r, updated, F) /\ Changes(r, asked, F) /\ Changes(r, forgot, F)
      /\ Changes(r, r, F)
  BY <1>3, <1>4, <1>5, Weaken, Compose, NoChange
<1>7. HandleRegistration(r, registered, mcc, found)
        \in {r, forgot, updated, asked}
  BY DEF HandleRegistration, forgot, updated, asked
<1> QED
  BY <1>3, <1>4, <1>5, <1>6, <1>7

LEMMA SetupTzFromMccChanges ==
  ASSUME NEW r, IsState(r), NEW w
  PROVE  Changes(r, SetupTzFromMcc(r, w), {"pendingReg", "handler_installed"})
BY DEF SetupTzFromMcc, IsState, Changes, Fields

Memory ==
  {"running", "autosync", "time_format", "server_tz", "saved_tz", "was_dst",
   "net_time", "net_ticks", "alarm_timer_id", "mcc_cache", "tz_list",
   "handler_installed", "tzEnv", "timers", "pendingReg", "pendingInfo"}

\* A process that is gone leaves its memory empty.
LEMMA BootDoes ==
  ASSUME NEW r, IsState(r)
  PROVE  LET s == Boot(r) IN
         /\ Changes(r, s, Memory)
         /\ s.running = FALSE /\ s.server_tz = Empty /\ s.net_time = 0
BY DEF Boot, IsState, Changes, Fields, Memory

Settled == {"autosync", "time_format", "server_tz"}

\* read_conf takes the settings of the file, if there is one.
LEMMA ReadSettingsDoes ==
  ASSUME NEW r, IsState(r)
  PROVE  LET s == ReadSettings(r) IN
         /\ Changes(r, s, Settled)
         /\ r.conf = Lost => s.server_tz = r.server_tz
         /\ r.conf # Lost =>
              /\ s.time_format = r.conf.time_format
              /\ s.server_tz = r.conf.net_tz
              /\ r.netEnv # "disabled" => s.autosync = r.conf.autosync
              /\ r.netEnv = "disabled" => s.autosync = FALSE
BY DEF ReadSettings, IsState, Changes, Fields, Settled

LEMMA RestoreTzDoes ==
  ASSUME NEW r, IsState(r), NEW w
  PROVE  LET s == RestoreTz(r, w) IN
         /\ Changes(r, s, {"links", "conf"})
         /\ FileFits(r) => FileFits(s)
         /\ FilePlain(r) => FilePlain(s)
<1> DEFINE linked == InternalSetTz(r, Name(":", r.conf.restore_tz), w)
           saved == SaveConf(linked, w)
<1>1. Changes(r, linked, {"links"})
  BY InternalSetTzChanges
<1> HIDE DEF linked
<1>2. Changes(linked, saved, {"conf"}) /\ FileFits(saved) /\ FilePlain(saved)
  BY <1>1, SaveConfChanges, SaveConfFits DEF Changes
<1> HIDE DEF saved
<1>3. Changes(r, saved, {"links", "conf"}) /\ Changes(r, r, {"links", "conf"})
  BY <1>1, <1>2, Compose, NoChange
<1>4. RestoreTz(r, w) \in {r, saved}
  BY DEF RestoreTz, saved, linked
<1> QED
  BY <1>2, <1>3, <1>4

\* server_init's zone is its own, or the one of /etc/localtime with a colon.
LEMMA TakeTzDoes ==
  ASSUME NEW r, IsState(r)
  PROVE  LET s == TakeTz(r) IN
         /\ Changes(r, s, {"server_tz", "tzEnv"})
         /\ s.server_tz = IF r.server_tz # Empty THEN r.server_tz
                          ELSE IF r.links.link = NoZone THEN Empty
                          ELSE Name(":", r.links.link)
         /\ EnvFits(s)
<1>1. CASE r.server_tz # Empty
  <2>1. TakeTz(r) = SetEnv(r, r.server_tz)
    BY <1>1 DEF TakeTz
  <2> DEFINE s == SetEnv(r, r.server_tz)
  <2>2. Changes(r, s, {"tzEnv"}) /\ s.tzEnv = EnvTz(r.server_tz)
    BY SetEnvChanges
  <2> HIDE DEF s
  <2>3. s.server_tz = r.server_tz /\ Changes(r, s, {"server_tz", "tzEnv"})
    BY <2>2, Weaken DEF Changes, Fields
  <2> QED
    BY <1>1, <2>1, <2>2, <2>3 DEF EnvFits, s
<1>2. CASE r.server_tz = Empty
  <2> DEFINE n == IF r.links.link = NoZone THEN Empty ELSE Name(":", r.links.link)
             named == [r EXCEPT !.server_tz = n]
             s == SetEnv(named, Name(":", UTC))
  <2> HIDE DEF n
  <2>1. Changes(r, named, {"server_tz"}) /\ named.server_tz = n
    BY DEF IsState, Changes, Fields
  <2> HIDE DEF named
  <2>2. Changes(named, s, {"tzEnv"}) /\ s.tzEnv = EnvTz(Name(":", UTC))
    BY <2>1, SetEnvChanges DEF Changes
  <2> HIDE DEF s
  <2>3. s.server_tz = n /\ Changes(r, s, {"server_tz", "tzEnv"})
    <3>1. s.server_tz = n
      BY <2>1, <2>2 DEF Changes, Fields
    <3> QED
      BY <2>1, <2>2, <3>1, Compose
  <2>4. s.tzEnv = UTC
    BY <2>2 DEF EnvTz, Name
  <2>5. TakeTz(r) = s
    BY <1>2 DEF TakeTz, s, named, n
  <2> QED
    BY <1>2, <2>3, <2>4, <2>5 DEF EnvFits, n
<1> QED
  BY <1>1, <1>2

\* After server_init everything fits, whichever boot or backup left the file.
LEMMA SettleDoes ==
  ASSUME NEW r, IsState(r), FilePlain(r), r.server_tz = Empty, NEW w
  PROVE  LET s == Settle(r, w) IN
         /\ Changes(r, s, Settled \cup {"tzEnv", "links", "conf", "was_dst"})
         /\ ZoneFits(s) /\ FileFits(s) /\ FilePlain(s)
<1> DEFINE a == ReadSettings(r)
           b == RestoreTz(a, w)
           c == TakeTz(b)
           s == [c EXCEPT !.was_dst = DstAt(c.tzEnv, c.wall)]
<1>0. Empty.form # ":" /\ \A z : Name(":", z).form = ":" /\ Name(":", z).zone = z
  BY Zenon DEF Empty, Name
<1>1. Changes(r, a, Settled) /\ a.server_tz.form # ":" /\ FileFits(a) /\ FilePlain(a)
  <2>1. Changes(r, a, Settled)
    BY ReadSettingsDoes
  <2>2. a.conf = r.conf /\ a.netEnv = r.netEnv
    BY <2>1 DEF Changes, Fields, Settled
  <2>3. CASE r.conf = Lost
    BY <1>0, <2>1, <2>2, <2>3, ReadSettingsDoes DEF FileFits, FilePlain
  <2>4. CASE r.conf # Lost
    BY <2>1, <2>2, <2>4, ReadSettingsDoes DEF FileFits, FilePlain
  <2> QED
    BY <2>3, <2>4
<1> HIDE DEF a
<1>2. Changes(a, b, {"links", "conf"}) /\ FileFits(b) /\ FilePlain(b)
  BY <1>1, RestoreTzDoes DEF Changes
<1>3. b.server_tz = a.server_tz
  BY <1>2 DEF Changes, Fields
<1> HIDE DEF b
<1>4. Changes(b, c, {"server_tz", "tzEnv"}) /\ EnvFits(c)
      /\ c.server_tz = IF b.server_tz # Empty THEN b.server_tz
                       ELSE IF b.links.link = NoZone THEN Empty
                       ELSE Name(":", b.links.link)
  BY <1>2, TakeTzDoes DEF Changes
<1> HIDE DEF c
<1>5. /\ c.conf = b.conf /\ c.restoring = b.restoring /\ c.links = b.links
      /\ c.time_format = b.time_format /\ c.autosync = b.autosync
      /\ c.netEnv = b.netEnv
  BY <1>4 DEF Changes, Fields
<1>6. LinkFits(c)
  BY <1>0, <1>1, <1>3, <1>4, <1>5 DEF LinkFits
<1>7. FileFits(c) /\ FilePlain(c)
  BY <1>0, <1>1, <1>2, <1>3, <1>4, <1>5 DEF FileFits, FilePlain
<1>8. Changes(c, s, {"was_dst"})
  BY <1>4 DEF Changes, IsState, Fields
<1> HIDE DEF s
<1>9. ZoneFits(s) /\ FileFits(s) /\ FilePlain(s)
  <2>1. {"was_dst"} \cap Zone = {} /\ {"was_dst"} \cap FileFields = {}
        /\ "conf" \notin {"was_dst"}
    BY DEF Zone, FileFields
  <2> QED
    BY <1>4, <1>6, <1>7, <1>8, <2>1, Untouched DEF ZoneFits
<1>10. Changes(r, s, Settled \cup {"tzEnv", "links", "conf", "was_dst"})
  <2>1. Changes(r, b, Settled \cup {"links", "conf"})
    BY <1>1, <1>2, Compose
  <2>2. Changes(r, c, Settled \cup {"tzEnv", "links", "conf"})
    BY <1>4, <2>1, Compose DEF Settled
  <2> QED
    BY <1>8, <2>2, Compose
<1> QED
  BY <1>9, <1>10 DEF Settle, s, c, b, a

-----------------------------------------------------------------------------
(* What each handler does *)

\* What holds when a handler begins: the invariant of ClockServerProofs, and
\* that everything fits. A process that is gone has no zone in memory.
FInv ==
  /\ IInv
  /\ Fits(Here)
  /\ ~running => server_tz = Empty

\* A handler that ends in r, from which only reply and signals are cleared.
LEMMA BecomesFits ==
  ASSUME NEW r, Becomes(r), Fits(r)
  PROVE  Fits(Here)'
<1>1. /\ (Here.conf)' = r.conf /\ (Here.running)' = r.running
      /\ (Here.restoring)' = r.restoring /\ (Here.tzEnv)' = r.tzEnv
      /\ (Here.server_tz)' = r.server_tz /\ (Here.time_format)' = r.time_format
      /\ (Here.autosync)' = r.autosync /\ (Here.netEnv)' = r.netEnv
      /\ (Here.links.link)' = r.links.link /\ (Here.links.save)' = r.links.save
  BY DEF Becomes, Here
<1> QED
  BY <1>1 DEF Fits, FilePlain, ZoneFits, EnvFits, LinkFits, FileFits

\* The present state, as the handlers see it.
LEMMA HereFields ==
  /\ IsState(Here) /\ HasSent(Here)
  /\ Here.running = running /\ Here.autosync = autosync
  /\ Here.server_tz = server_tz /\ Here.net_time = net_time_changed_time
  /\ Here.net_ticks = net_time_last_changed_ticks /\ Here.wall = wall
  /\ Here.mono = mono /\ Here.netEnv = netEnv /\ Here.conf = conf
  /\ Here.restoring = restoring /\ Here.signals = << >>
<1>1. << >> \in Seq({})
  OBVIOUS
<1> QED
  BY <1>1, HereIsState DEF Here, HasSent

\* A zone that is not the old one is broadcast, or the file is lost.
Announced(r) == r.server_tz # server_tz => r.signals # << >> \/ r.conf = Lost

\* r comes of a handler of the running process that touches the fields F.
Comes(r, F) ==
  /\ Becomes(r) /\ Changes(Here, r, F) /\ Fits(r) /\ Announced(r)

\* A running process still runs, unless F says otherwise.
LEMMA FitsRunning ==
  ASSUME running, NEW r, NEW F, Changes(Here, r, F), "running" \notin F,
         ZoneFits(r), FileFits(r), FilePlain(r)
  PROVE  Fits(r)
<1>1. r.running = running
  BY HereFields DEF Changes, Fields
<1> QED
  BY <1>1 DEF Fits

\* What a handler of the running process may rely on.
LEMMA FitsHere ==
  ASSUME FInv, running
  PROVE  ZoneFits(Here) /\ FileFits(Here) /\ FilePlain(Here)
BY HereFields DEF FInv, Fits

\* A handler that ends with save_conf and a broadcast, or with save_conf and an
\* error, and then replies.
LEMMA SavedReply ==
  ASSUME NEW r, IsState(r), HasSent(r), NEW w, NEW t, NEW ok
  PROVE  LET s == SaveConf(r, w)
             told == Replies(SendIndication(s, t), ok)
             quiet == Replies(s, ok)
         IN /\ Changes(r, told, {"conf", "reply"} \cup Sent)
            /\ Changes(r, quiet, {"conf", "reply"})
            /\ ZoneFits(r) => ZoneFits(told) /\ ZoneFits(quiet)
            /\ FileFits(told) /\ FilePlain(told) /\ told.signals # << >>
            /\ FileFits(quiet) /\ FilePlain(quiet)
            /\ ~SaveSucceeds(w) => quiet.conf = Lost
<1> DEFINE s == SaveConf(r, w)
           sent == SendIndication(s, t)
           told == Replies(sent, ok)
           quiet == Replies(s, ok)
<1>1. Changes(r, s, {"conf"}) /\ FileFits(s) /\ FilePlain(s)
      /\ (~SaveSucceeds(w) => s.conf = Lost)
  BY SaveConfChanges, SaveConfFits
<1>2. IsState(s) /\ HasSent(s)
  BY <1>1 DEF Changes, Fields, HasSent
<1> HIDE DEF s
<1>3. Changes(s, sent, Sent) /\ sent.signals # << >>
  BY <1>2, SendIndicationChanges DEF Sent
<1> HIDE DEF sent
<1>4. Changes(sent, told, {"reply"}) /\ Changes(s, quiet, {"reply"})
  BY <1>2, <1>3, RepliesChanges DEF Changes
<1> HIDE DEF told, quiet
<1>5. told.signals = sent.signals /\ quiet.conf = s.conf
  BY <1>4 DEF Changes, Fields
<1>6. Changes(s, told, {"reply"} \cup Sent)
  BY <1>3, <1>4, Compose
<1>7. Changes(r, told, {"conf", "reply"} \cup Sent) /\ Changes(r, quiet, {"conf", "reply"})
  BY <1>1, <1>4, <1>6, Compose
<1>8. /\ ({"reply"} \cup Sent) \cap FileFields = {} /\ {"reply"} \cap FileFields = {}
      /\ "conf" \notin {"reply"} \cup Sent /\ "conf" \notin {"reply"}
      /\ ({"conf", "reply"} \cup Sent) \cap Zone = {} /\ {"conf", "reply"} \cap Zone = {}
  BY DEF Sent, Zone, FileFields
<1>9. /\ FileFits(told) /\ FilePlain(told) /\ FileFits(quiet) /\ FilePlain(quiet)
      /\ ZoneFits(r) => ZoneFits(told) /\ ZoneFits(quiet)
  BY <1>1, <1>4, <1>6, <1>7, <1>8, Untouched
<1> QED
  BY <1>1, <1>3, <1>5, <1>7, <1>9 DEF told, quiet, sent, s

\* server_set_time_cb
LEMMA SetTimeDoes ==
  ASSUME FInv, NEW t \in Times, SetTime(t)
  PROVE  \E r : /\ Comes(r, {"wall", "conf", "reply"} \cup Sent \cup Alarm)
                /\ r.wall \in {wall, t}
<1>1. PICK w \in Worlds :
        LET s == ServerSetTime(Here, t, w) IN
        Becomes(IF TimeStatus(w) = 0
                THEN Replies(SendIndication(SaveConf(s, w), t), TRUE)
                ELSE Replies(s, FALSE))
  BY DEF SetTime
<1> DEFINE s == ServerSetTime(Here, t, w)
           told == Replies(SendIndication(SaveConf(s, w), t), TRUE)
           quiet == Replies(s, FALSE)
           F == {"wall", "conf", "reply"} \cup Sent \cup Alarm
<1>2. running /\ ZoneFits(Here) /\ FileFits(Here) /\ FilePlain(Here)
  BY FitsHere DEF SetTime
<1>3. Changes(Here, s, {"wall"} \cup Alarm) /\ s.wall \in {wall, t}
  BY HereFields, ServerSetTimeChanges
<1>4. Becomes(told) \/ Becomes(quiet)
  BY <1>1
<1> HIDE DEF s
<1>5. /\ ({"wall"} \cup Alarm) \cap Zone = {} /\ {"reply"} \cap Zone = {}
      /\ ({"wall"} \cup Alarm) \cap FileFields = {} /\ {"reply"} \cap FileFields = {}
      /\ "conf" \notin {"wall"} \cup Alarm /\ "conf" \notin {"reply"}
      /\ "running" \notin F /\ "server_tz" \notin F
  BY DEF Sent, Alarm, Zone, FileFields
<1>6. ZoneFits(s) /\ FileFits(s) /\ FilePlain(s) /\ IsState(s) /\ HasSent(s)
  <2>1. ZoneFits(s) /\ FileFits(s) /\ FilePlain(s)
    BY <1>2, <1>3, <1>5, Untouched
  <2> QED
    BY <1>3, <2>1, HereFields DEF Changes, Fields, HasSent, Alarm
<1>7. /\ Changes(Here, told, F) /\ told.wall = s.wall
      /\ ZoneFits(told) /\ FileFits(told) /\ FilePlain(told)
  <2>1. /\ Changes(s, told, {"conf", "reply"} \cup Sent)
        /\ ZoneFits(told) /\ FileFits(told) /\ FilePlain(told)
    BY <1>6, SavedReply
  <2> HIDE DEF told
  <2> QED
    BY <1>3, <2>1, Compose DEF Changes, Fields, Sent
<1>8. /\ Changes(Here, quiet, F) /\ quiet.wall = s.wall
      /\ ZoneFits(quiet) /\ FileFits(quiet) /\ FilePlain(quiet)
  <2>1. Changes(s, quiet, {"reply"})
    BY <1>6, RepliesChanges
  <2> HIDE DEF quiet
  <2>2. quiet.wall = s.wall /\ Changes(Here, quiet, F)
    BY <1>3, <2>1, Compose DEF Changes, Fields
  <2> QED
    BY <1>5, <1>6, <2>1, <2>2, Untouched
<1> HIDE DEF told, quiet, F
<1>9. Fits(told) /\ Fits(quiet)
  BY <1>2, <1>5, <1>7, <1>8, FitsRunning
<1>10. Announced(told) /\ Announced(quiet)
  BY <1>5, <1>7, <1>8, HereFields DEF Changes, Fields, Announced
<1> QED
  BY <1>3, <1>4, <1>7, <1>8, <1>9, <1>10 DEF Comes, F

\* The alarm is the one for the present second and the present TZ.
AlarmSet(r) == \A x \in r.timers : x.due = r.mono + DstDelay(r.tzEnv, r.wall)

AlarmFields == {"timers", "mono", "tzEnv", "wall"}

\* next_dst_change, called for the present second while the server knows its alarm.
LEMMA NextDstChangeSets ==
  ASSUME NEW r, IsState(r), \A x \in r.timers : x.id = r.alarm_timer_id
  PROVE  AlarmSet(NextDstChange(r, r.wall, FALSE))
<1> DEFINE s == NextDstChange(r, r.wall, FALSE)
           id == (r.alarm_timer_id + 1) % AlarmIds
           others == { x \in r.timers : x.id # r.alarm_timer_id }
           alarm == [id |-> id, due |-> r.mono + DstDelay(r.tzEnv, r.wall)]
<1>1. others = {}
  OBVIOUS
<1>2. s = [r EXCEPT !.timers = others \cup {alarm}, !.alarm_timer_id = id]
  BY DEF NextDstChange
<1>3. alarm.due = r.mono + DstDelay(r.tzEnv, r.wall)
  OBVIOUS
<1> HIDE DEF others, alarm, id, s
<1>4. s.timers = {alarm} /\ s.mono = r.mono /\ s.tzEnv = r.tzEnv /\ s.wall = r.wall
  BY <1>1, <1>2 DEF IsState, Fields
<1> QED
  BY <1>3, <1>4 DEF AlarmSet, s

LEMMA AlarmStays ==
  ASSUME NEW r, NEW s, NEW F, Changes(r, s, F), F \cap AlarmFields = {}, AlarmSet(r)
  PROVE  AlarmSet(s)
<1>1. s.timers = r.timers /\ s.mono = r.mono /\ s.tzEnv = r.tzEnv /\ s.wall = r.wall
  BY DEF Changes, Fields, AlarmFields
<1> QED
  BY <1>1 DEF AlarmSet

\* The server knows its alarm.
LEMMA HereAlarm ==
  ASSUME FInv, running
  PROVE  \A x \in timers : x.id = alarm_timer_id
BY DEF FInv, IInv, HasAlarm, Here

\* A zone that the helper was asked to link, and did not, leaves the server's.
LEMMA InternalSetTzFits ==
  ASSUME FInv, running, NEW n, NEW w \in Worlds, ~TzHelperSucceeds(n, w)
  PROVE  ZoneFits(InternalSetTz(Here, n, w))
<1> DEFINE s == InternalSetTz(Here, n, w)
           outcome == IF n.zone \in Installed THEN "refused" ELSE w.tz
<1>1. Changes(Here, s, {"links"})
  BY HereFields, InternalSetTzChanges
<1>2. s.tzEnv = Here.tzEnv /\ s.server_tz = Here.server_tz
  BY <1>1 DEF Changes, Fields
<1>3. outcome \in {"failed", "link_lost", "stale", "refused"}
  BY WorldAssumption DEF TzHelperSucceeds, TzOutcomes
<1>4. s.links = LinksAfter(outcome, n.zone, Here.links, NoZone)
  BY HereFields DEF InternalSetTz, IsState, Fields
<1>5. Here.server_tz.form = ":" => Here.server_tz.zone # NoZone
  <2>1. server_tz \in Names
    BY HereType DEF FInv, Here, States
  <2>2. Empty.form # ":"
    BY Zenon DEF Empty, Name
  <2>3. server_tz.form = ":" => server_tz.zone \in Zones
    BY <2>1, <2>2, NameTypes
  <2> QED
    BY <2>3, ZonesAssumption, HereFields
<1> HIDE DEF s, outcome
<1>6. LinkFits(Here) => LinkFits(s)
  BY <1>2, <1>3, <1>4, <1>5 DEF LinkFits, LinksAfter, SetAside
<1> QED
  BY <1>2, <1>6, FitsHere DEF ZoneFits, EnvFits, s

\* server_set_tz_cb: a zone that is refused changes nothing but the links, and
\* one that is accepted comes with its TZ, its link, its alarm and a broadcast.
LEMMA SetTzDoes ==
  ASSUME FInv, NEW n \in UserTz, SetTz(n)
  PROVE  \E r : /\ Comes(r, {"conf", "reply"} \cup Sent \cup Zone \cup Alarm)
                /\ r.reply = "failed" \/ AlarmSet(r)
<1> DEFINE colon == n # Empty /\ n.form = ":"
           F == {"conf", "reply"} \cup Sent \cup Zone \cup Alarm
<1>1. PICK w \in Worlds :
       LET accepted == IF colon THEN TzHelperSucceeds(n, w)
                       ELSE CheckTimezone(n)
           linked == IF colon THEN InternalSetTz(Here, n, w) ELSE Here
           taken == SetEnv([linked EXCEPT !.server_tz = n], n)
           alarmed == NextDstChange(SaveConf(taken, w), taken.wall, FALSE)
       IN Becomes(IF accepted THEN Replies(SendIndication(alarmed, 0), TRUE)
                  ELSE Replies(SaveConf(linked, w), FALSE))
  BY DEF SetTz
<1> DEFINE accepted == IF colon THEN TzHelperSucceeds(n, w)
                       ELSE CheckTimezone(n)
           linked == IF colon THEN InternalSetTz(Here, n, w) ELSE Here
           named == [linked EXCEPT !.server_tz = n]
           taken == SetEnv(named, n)
           saved == SaveConf(taken, w)
           alarmed == NextDstChange(saved, taken.wall, FALSE)
           sent == SendIndication(alarmed, 0)
           told == Replies(sent, TRUE)
           quiet == Replies(SaveConf(linked, w), FALSE)
<1>2. running /\ ZoneFits(Here)
  BY FitsHere DEF SetTz
<1>3. IF accepted THEN Becomes(told) ELSE Becomes(quiet)
  BY <1>1
<1>4. Empty.form # ":"
  BY Zenon DEF Empty, Name
<1>5. /\ Changes(Here, linked, {"links"})
      /\ ~accepted => ZoneFits(linked)
      /\ accepted /\ colon => linked.links.link = n.zone
  <2>1. CASE colon
    <3>1. Changes(Here, linked, {"links"})
      BY <2>1, HereFields, InternalSetTzChanges
    <3>2. ~accepted => ZoneFits(linked)
      BY <1>2, <2>1, InternalSetTzFits
    <3>3. ASSUME accepted PROVE linked.links.link = n.zone
      <4>1. linked.links = LinksAfter("linked", n.zone, Here.links, NoZone)
        BY <2>1, <3>3, HereFields DEF TzHelperSucceeds, InternalSetTz, IsState, Fields
      <4> QED
        BY <4>1 DEF LinksAfter
    <3> QED
      BY <3>1, <3>2, <3>3
  <2>2. CASE ~colon
    BY <1>2, <2>2, HereFields, NoChange
  <2> QED
    BY <2>1, <2>2
<1> HIDE DEF linked, accepted
<1>6. Changes(linked, named, {"server_tz"}) /\ named.server_tz = n
  BY <1>5 DEF Changes, IsState, Fields
<1> HIDE DEF named
<1>7. Changes(named, taken, {"tzEnv"}) /\ taken.tzEnv = EnvTz(n)
  BY <1>6, SetEnvChanges DEF Changes
<1> HIDE DEF taken
<1>8. Changes(Here, taken, Zone)
  <2>1. Changes(Here, named, {"links", "server_tz"})
    BY <1>5, <1>6, Compose
  <2> QED
    BY <1>7, <2>1, Compose DEF Zone
<1>9. accepted => ZoneFits(taken)
  <2>1. taken.server_tz = n /\ taken.links = linked.links
    BY <1>6, <1>7 DEF Changes, Fields
  <2> QED
    BY <1>4, <1>5, <1>7, <2>1 DEF ZoneFits, EnvFits, LinkFits
<1>10. Changes(taken, saved, {"conf"}) /\ FileFits(saved) /\ FilePlain(saved)
  BY <1>8, SaveConfChanges, SaveConfFits DEF Changes
<1> HIDE DEF saved
<1>11. Changes(saved, alarmed, Alarm) /\ AlarmSet(alarmed)
  <2>1. /\ saved.wall = taken.wall /\ saved.timers = Here.timers
        /\ saved.alarm_timer_id = Here.alarm_timer_id
    BY <1>8, <1>10 DEF Changes, Fields, Zone
  <2>2. \A x \in saved.timers : x.id = saved.alarm_timer_id
    BY <1>2, <2>1, HereAlarm DEF Here
  <2> QED
    BY <1>10, <2>1, <2>2, NextDstChangeChanges, NextDstChangeSets DEF Changes
<1> HIDE DEF alarmed
<1>12. /\ Changes(alarmed, sent, Sent)
       /\ HasSent(alarmed) => sent.signals # << >>
  BY <1>11, SendIndicationChanges DEF Changes, Sent
<1> HIDE DEF sent
<1>13. Changes(sent, told, {"reply"})
  BY <1>12, RepliesChanges DEF Changes
<1> HIDE DEF told
<1>14. Changes(alarmed, told, {"reply"} \cup Sent) /\ told.signals = sent.signals
  <2>1. told.signals = sent.signals
    BY <1>13 DEF Changes, Fields
  <2> QED
    BY <1>12, <1>13, <2>1, Compose
<1>15. /\ ({"reply"} \cup Sent) \cap Zone = {} /\ Alarm \cap Zone = {} /\ {"conf"} \cap Zone = {}
       /\ ({"reply"} \cup Sent) \cap FileFields = {} /\ Alarm \cap FileFields = {}
       /\ "conf" \notin {"reply"} \cup Sent /\ "conf" \notin Alarm
       /\ ({"reply"} \cup Sent) \cap AlarmFields = {}
       /\ "running" \notin F
  BY DEF Sent, Alarm, Zone, FileFields, AlarmFields
<1>16. ASSUME accepted
       PROVE  Comes(told, F) /\ AlarmSet(told)
  <2>1. ZoneFits(alarmed) /\ FileFits(alarmed) /\ FilePlain(alarmed)
    BY <1>9, <1>10, <1>11, <1>15, <1>16, Untouched
  <2>2. ZoneFits(told) /\ FileFits(told) /\ FilePlain(told) /\ AlarmSet(told)
    BY <1>11, <1>14, <1>15, <2>1, Untouched, AlarmStays
  <2>3. Changes(Here, told, F)
    <3>1. Changes(Here, saved, {"conf"} \cup Zone)
      BY <1>8, <1>10, Compose
    <3>2. Changes(Here, alarmed, {"conf"} \cup Zone \cup Alarm)
      BY <1>11, <3>1, Compose
    <3> QED
      BY <1>14, <3>2, Compose
  <2>4. told.signals # << >>
    <3>1. alarmed.signals = Here.signals
      BY <1>8, <1>10, <1>11 DEF Changes, Fields, Zone, Alarm
    <3> QED
      BY <1>12, <1>14, <3>1, HereFields DEF HasSent
  <2> HIDE DEF F
  <2>5. Fits(told)
    BY <1>2, <1>15, <2>2, <2>3, FitsRunning
  <2> QED
    BY <1>3, <1>16, <2>2, <2>3, <2>4, <2>5 DEF Comes, Announced
<1>17. ASSUME ~accepted
       PROVE  Comes(quiet, F) /\ quiet.reply = "failed"
  <2> DEFINE kept == SaveConf(linked, w)
  <2>1. IsState(linked) /\ HasSent(linked) /\ linked.server_tz = server_tz
    BY <1>5, HereFields DEF Changes, Fields, HasSent
  <2>2. /\ Changes(linked, quiet, {"conf", "reply"})
        /\ ZoneFits(quiet) /\ FileFits(quiet) /\ FilePlain(quiet)
    BY <1>5, <1>17, <2>1, SavedReply
  <2>3. Changes(linked, kept, {"conf"})
    BY <2>1, SaveConfChanges
  <2> HIDE DEF kept
  <2>4. quiet.reply = "failed"
    <3>1. quiet = Replies(kept, FALSE)
      BY DEF kept
    <3> QED
      BY <2>3, <3>1 DEF Replies, Changes, IsState, Fields
  <2> HIDE DEF quiet
  <2>5. quiet.server_tz = server_tz
    BY <2>1, <2>2 DEF Changes, Fields
  <2>6. Changes(Here, quiet, F)
    BY <1>5, <2>2, Compose DEF Zone
  <2> HIDE DEF F
  <2>7. Fits(quiet)
    BY <1>2, <1>15, <2>2, <2>6, FitsRunning
  <2> QED
    BY <1>3, <1>17, <2>4, <2>5, <2>6, <2>7 DEF Comes, Announced
<1> QED
  BY <1>16, <1>17

\* The clock is left alone, or shows the network's time by now.
ClockAdopts(r) ==
  r.wall = wall \/ (net_time_changed_time # 0 /\ r.wall = NetTimeNow(Here))

\* server_set_autosync_cb: a zone that is adopted on the way is saved with the
\* setting, and broadcast unless the file is lost.
LEMMA SetAutosyncDoes ==
  ASSUME FInv, NEW enabled \in BOOLEAN, SetAutosync(enabled)
  PROVE  \E r : /\ Comes(r, {"autosync", "pendingReg", "handler_installed",
                             "wall", "conf", "reply"} \cup Sent \cup Zone \cup Alarm)
                /\ ClockAdopts(r)
<1> DEFINE F == {"autosync", "pendingReg", "handler_installed",
                 "wall", "conf", "reply"} \cup Sent \cup Zone \cup Alarm
           M == {"wall", "conf"} \cup Sent \cup Zone \cup Alarm
<1>1. PICK w \in Worlds :
       LET switched == [Here EXCEPT !.autosync = enabled]
           timed == IF enabled /\ net_time_changed_time # 0
                    THEN SetNetworkTime(switched, FALSE, w) ELSE switched
           saved == SaveConf(SetupTzFromMcc(timed, w), w)
       IN Becomes(CASE enabled /\ netEnv = "disabled" -> Replies(Here, FALSE)
                    [] ~(enabled /\ netEnv = "disabled") /\ SaveSucceeds(w) ->
                         Replies(SendIndication(saved, 0), TRUE)
                    [] OTHER -> Replies(saved, FALSE))
  BY DEF SetAutosync
<1> DEFINE switched == [Here EXCEPT !.autosync = enabled]
           timed == IF enabled /\ net_time_changed_time # 0
                    THEN SetNetworkTime(switched, FALSE, w) ELSE switched
           asked == SetupTzFromMcc(timed, w)
           saved == SaveConf(asked, w)
           told == Replies(SendIndication(saved, 0), TRUE)
           quiet == Replies(saved, FALSE)
           refused == Replies(Here, FALSE)
<1>2. running /\ ZoneFits(Here) /\ FileFits(Here) /\ FilePlain(Here)
  BY FitsHere DEF SetAutosync
<1>3. \/ Becomes(refused)
      \/ Becomes(told)
      \/ Becomes(quiet) /\ ~SaveSucceeds(w)
  BY <1>1
<1>4. Changes(Here, switched, {"autosync"})
  BY HereFields DEF Changes, IsState, Fields
<1> HIDE DEF switched
<1>5. /\ switched.net_time = net_time_changed_time /\ switched.wall = wall
      /\ NetTimeNow(switched) = NetTimeNow(Here) /\ HasSent(switched)
      /\ IsState(switched)
  BY <1>4, HereFields DEF Changes, Fields, NetTimeNow, HasSent
<1>6. /\ {"autosync"} \cap Zone = {} /\ {"pendingReg", "handler_installed"} \cap Zone = {}
      /\ {"reply"} \cap Zone = {} /\ {"reply"} \cap FileFields = {} /\ "conf" \notin {"reply"}
      /\ "running" \notin F
  BY DEF Sent, Alarm, Zone, FileFields
<1>7. ZoneFits(switched)
  BY <1>2, <1>4, <1>6, Untouched
<1>8. /\ Changes(switched, timed, M) /\ ZoneFits(timed) /\ HasSent(timed)
      /\ timed.wall = wall \/ (net_time_changed_time # 0 /\ timed.wall = NetTimeNow(Here))
  <2>1. CASE timed = switched
    BY <1>5, <1>7, <2>1, NoChange
  <2>2. CASE net_time_changed_time # 0 /\ timed = SetNetworkTime(switched, FALSE, w)
    BY <1>5, <1>7, <2>2, SetNetworkTimeDoes
  <2> QED
    BY <2>1, <2>2
<1> HIDE DEF timed
<1>9. Changes(timed, asked, {"pendingReg", "handler_installed"})
  BY <1>8, SetupTzFromMccChanges DEF Changes
<1> HIDE DEF asked
<1>10. ZoneFits(asked) /\ IsState(asked) /\ HasSent(asked) /\ asked.wall = timed.wall
  <2>1. ZoneFits(asked)
    BY <1>6, <1>8, <1>9, Untouched
  <2> QED
    BY <1>8, <1>9, <2>1 DEF Changes, Fields, HasSent
<1>11. Changes(Here, asked, {"autosync", "pendingReg", "handler_installed"} \cup M)
  <2>1. Changes(Here, timed, {"autosync"} \cup M)
    BY <1>4, <1>8, Compose
  <2> QED
    BY <1>9, <2>1, Compose
<1>12. /\ Changes(asked, told, {"conf", "reply"} \cup Sent)
       /\ Changes(asked, quiet, {"conf", "reply"})
       /\ ZoneFits(told) /\ FileFits(told) /\ FilePlain(told) /\ told.signals # << >>
       /\ ZoneFits(quiet) /\ FileFits(quiet) /\ FilePlain(quiet)
       /\ ~SaveSucceeds(w) => quiet.conf = Lost
  BY <1>10, SavedReply
<1>13. Changes(Here, refused, {"reply"})
  BY HereFields, RepliesChanges
<1> HIDE DEF told, quiet, refused
<1>14. Changes(Here, told, F) /\ Changes(Here, quiet, F) /\ Changes(Here, refused, F)
  BY <1>11, <1>12, <1>13, Compose, Weaken
<1>15. ZoneFits(refused) /\ FileFits(refused) /\ FilePlain(refused)
  BY <1>2, <1>6, <1>13, Untouched
<1>16. told.wall = timed.wall /\ quiet.wall = timed.wall
       /\ refused.wall = wall /\ refused.server_tz = server_tz
  BY <1>10, <1>12, <1>13, HereFields DEF Changes, Fields, Sent
<1> HIDE DEF F, M
<1>17. Fits(told) /\ Fits(quiet) /\ Fits(refused)
  BY <1>2, <1>6, <1>12, <1>14, <1>15, FitsRunning
<1> QED
  BY <1>3, <1>8, <1>12, <1>14, <1>16, <1>17 DEF Comes, Announced, ClockAdopts, F

\* server_set_time_format_cb
LEMMA SetTimeFormatDoes ==
  ASSUME FInv, NEW f \in Formats \cup {NoFormat}, SetTimeFormat(f)
  PROVE  \E r : Comes(r, {"time_format", "conf", "reply"} \cup Sent)
<1> DEFINE F == {"time_format", "conf", "reply"} \cup Sent
<1>1. PICK w \in Worlds :
       LET saved == SaveConf([Here EXCEPT !.time_format = f], w) IN
       Becomes(CASE f = NoFormat -> Replies(Here, FALSE)
                 [] f # NoFormat /\ SaveSucceeds(w) ->
                      Replies(SendIndication(saved, 0), TRUE)
                 [] OTHER -> Replies(saved, FALSE))
  BY DEF SetTimeFormat
<1> DEFINE formatted == [Here EXCEPT !.time_format = f]
           saved == SaveConf(formatted, w)
           told == Replies(SendIndication(saved, 0), TRUE)
           quiet == Replies(saved, FALSE)
           refused == Replies(Here, FALSE)
<1>2. running /\ ZoneFits(Here) /\ FileFits(Here) /\ FilePlain(Here)
  BY FitsHere DEF SetTimeFormat
<1>3. Becomes(refused) \/ Becomes(told) \/ Becomes(quiet)
  BY <1>1
<1>4. Changes(Here, formatted, {"time_format"})
  BY HereFields DEF Changes, IsState, Fields
<1> HIDE DEF formatted
<1>5. /\ {"time_format"} \cap Zone = {} /\ {"reply"} \cap Zone = {}
      /\ {"reply"} \cap FileFields = {} /\ "conf" \notin {"reply"}
      /\ "running" \notin F /\ "server_tz" \notin F
  BY DEF Sent, Zone, FileFields
<1>6. ZoneFits(formatted) /\ IsState(formatted) /\ HasSent(formatted)
  <2>1. ZoneFits(formatted)
    BY <1>2, <1>4, <1>5, Untouched
  <2> QED
    BY <1>4, <2>1, HereFields DEF Changes, Fields, HasSent
<1>7. /\ Changes(formatted, told, {"conf", "reply"} \cup Sent)
      /\ Changes(formatted, quiet, {"conf", "reply"})
      /\ ZoneFits(told) /\ FileFits(told) /\ FilePlain(told)
      /\ ZoneFits(quiet) /\ FileFits(quiet) /\ FilePlain(quiet)
  BY <1>6, SavedReply
<1>8. Changes(Here, refused, {"reply"})
  BY HereFields, RepliesChanges
<1> HIDE DEF told, quiet, refused
<1>9. Changes(Here, told, F) /\ Changes(Here, quiet, F) /\ Changes(Here, refused, F)
  BY <1>4, <1>7, <1>8, Compose, Weaken
<1>10. ZoneFits(refused) /\ FileFits(refused) /\ FilePlain(refused)
  BY <1>2, <1>5, <1>8, Untouched
<1>11. /\ told.server_tz = server_tz /\ quiet.server_tz = server_tz
       /\ refused.server_tz = server_tz
  BY <1>5, <1>9, HereFields DEF Changes, Fields
<1> HIDE DEF F
<1>12. Fits(told) /\ Fits(quiet) /\ Fits(refused)
  BY <1>2, <1>5, <1>7, <1>9, <1>10, FitsRunning
<1> QED
  BY <1>3, <1>9, <1>11, <1>12 DEF Comes, Announced, F

\* server_activate_net_time_cb
LEMMA ActivateNetTimeDoes ==
  ASSUME FInv, ActivateNetTime
  PROVE  \E r : /\ Comes(r, {"wall", "conf", "reply"} \cup Sent \cup Zone \cup Alarm)
                /\ ClockAdopts(r)
<1> DEFINE M == {"wall", "conf"} \cup Sent \cup Zone \cup Alarm
           F == {"wall", "conf", "reply"} \cup Sent \cup Zone \cup Alarm
<1>1. PICK w \in Worlds :
        Becomes(IF net_time_changed_time = 0 THEN Replies(Here, FALSE)
                ELSE Replies(SetNetworkTime(Here, TRUE, w), TimeStatus(w) = 0))
  BY DEF ActivateNetTime
<1> DEFINE s == IF net_time_changed_time = 0 THEN Here ELSE SetNetworkTime(Here, TRUE, w)
           ok == IF net_time_changed_time = 0 THEN FALSE ELSE TimeStatus(w) = 0
           r == Replies(s, ok)
<1>2. Becomes(r)
  BY <1>1
<1>3. running /\ ZoneFits(Here) /\ FileFits(Here) /\ FilePlain(Here)
  BY FitsHere DEF ActivateNetTime
<1>4. /\ Changes(Here, s, M) /\ ZoneFits(s) /\ FileFits(s) /\ FilePlain(s)
      /\ s.wall = wall \/ (net_time_changed_time # 0 /\ s.wall = NetTimeNow(Here))
      /\ s.server_tz # server_tz => s.signals # << >>
  <2>1. CASE net_time_changed_time = 0
    BY <1>3, <2>1, HereFields, NoChange
  <2>2. CASE net_time_changed_time # 0
    BY <1>3, <2>2, HereFields, SetNetworkTimeDoes
  <2> QED
    BY <2>1, <2>2
<1> HIDE DEF s, ok
<1>5. Changes(s, r, {"reply"})
  BY <1>4, RepliesChanges DEF Changes
<1> HIDE DEF r
<1>6. /\ {"reply"} \cap Zone = {} /\ {"reply"} \cap FileFields = {}
      /\ "conf" \notin {"reply"} /\ "running" \notin F
  BY DEF Sent, Alarm, Zone, FileFields
<1>7. Changes(Here, r, F) /\ ZoneFits(r) /\ FileFits(r) /\ FilePlain(r)
  BY <1>4, <1>5, <1>6, Compose, Untouched
<1>8. r.wall = s.wall /\ r.server_tz = s.server_tz /\ r.signals = s.signals
  BY <1>5 DEF Changes, Fields
<1> HIDE DEF F
<1>9. Fits(r)
  BY <1>3, <1>6, <1>7, FitsRunning
<1> QED
  BY <1>2, <1>4, <1>7, <1>8, <1>9 DEF Comes, Announced, ClockAdopts, F

-----------------------------------------------------------------------------
(* What the network's handlers do *)

\* What the network may touch, and what with autosync off.
Followed == {"pendingInfo"} \cup Noted \cup {"wall", "conf"} \cup Sent \cup Zone \cup Alarm
Heard == {"pendingInfo"} \cup Noted \cup {"conf"} \cup Sent

\* With autosync off the clock, the links and the zone stay; the network's
\* time is the one remembered, or a message that is heard now.
Follows(r, m) ==
  /\ ~autosync => Changes(Here, r, Heard)
  /\ \/ /\ r.wall = wall /\ r.net_time = net_time_changed_time
        /\ r.net_ticks = net_time_last_changed_ticks
     \/ \E d \in Decode(m, wall) :
          /\ d.ok /\ d.time # -1
          /\ r.net_time = d.time /\ r.net_ticks = mono
          /\ r.wall \in {wall, d.time}

\* handle_csd_net_time_change from a state that a handler has just begun with.
LEMMA CsdFollows ==
  ASSUME FInv, running, NEW m, NEW got, Changes(Here, got, {"pendingInfo"}),
         NEW d \in Decode(m, wall), NEW w
  PROVE  LET s == HandleCsd(got, d, w).state IN
         /\ Changes(Here, s, Followed) /\ Follows(s, m)
         /\ ZoneFits(s) /\ FileFits(s) /\ FilePlain(s) /\ HasSent(s)
         /\ s.server_tz # server_tz => s.signals # << >>
<1> DEFINE s == HandleCsd(got, d, w).state
           All == Noted \cup {"wall", "conf"} \cup Sent \cup Zone \cup Alarm
           Few == Noted \cup {"conf"} \cup Sent
<1>1. /\ got.autosync = autosync /\ got.wall = wall /\ got.mono = mono
      /\ got.server_tz = server_tz /\ got.signals = << >>
      /\ got.net_time = net_time_changed_time
      /\ got.net_ticks = net_time_last_changed_ticks
      /\ HasSent(got) /\ IsState(got)
  BY HereFields DEF Changes, Fields, HasSent
<1>2. ZoneFits(got) /\ FileFits(got) /\ FilePlain(got)
  <2>1. {"pendingInfo"} \cap Zone = {} /\ {"pendingInfo"} \cap FileFields = {}
        /\ "conf" \notin {"pendingInfo"}
    BY DEF Zone, FileFields
  <2> QED
    BY <2>1, FitsHere, Untouched
<1>3. CsdKeeps(got, s) /\ (s \in {got, ClobberEnv(got)} \/ CsdHears(got, s, d))
  BY <1>1, HandleCsdDoes
<1>4. Changes(got, s, All) /\ (~autosync => Changes(got, s, Few))
  BY <1>1, <1>3 DEF CsdKeeps
<1>5. /\ ZoneFits(s) /\ FileFits(s) /\ FilePlain(s) /\ HasSent(s)
      /\ s.server_tz # server_tz => s.signals # << >>
  BY <1>1, <1>2, <1>3 DEF CsdKeeps
<1> HIDE DEF s
<1>6. Changes(Here, s, Followed)
  BY <1>4, Compose DEF Followed
<1>7. ~autosync => Changes(Here, s, Heard)
  BY <1>4, Compose DEF Heard
<1>8. CASE s \in {got, ClobberEnv(got)}
  <2>1. Changes(got, ClobberEnv(got), {"tzEnv"})
    BY <1>1, ClobberEnvChanges
  <2>2. /\ s.wall = wall /\ s.net_time = net_time_changed_time
        /\ s.net_ticks = net_time_last_changed_ticks
    BY <1>1, <1>8, <2>1 DEF Changes, Fields
  <2> QED
    BY <1>5, <1>6, <1>7, <2>2 DEF Follows, s
<1>9. CASE CsdHears(got, s, d)
  BY <1>1, <1>5, <1>6, <1>7, <1>9 DEF Follows, CsdHears, s
<1> QED
  BY <1>3, <1>8, <1>9

\* The network_timeinfo_change signal.
LEMMA NetTimeSignalDoes ==
  ASSUME FInv, NEW m \in NetMsgs, NetTimeSignal(m)
  PROVE  \E r : Comes(r, Followed) /\ Follows(r, m)
<1>1. PICK w \in Worlds, d \in Decode(m, wall) : Becomes(HandleCsd(Here, d, w).state)
  BY DEF NetTimeSignal
<1> DEFINE s == HandleCsd(Here, d, w).state
<1>2. running /\ Changes(Here, Here, {"pendingInfo"})
  BY HereFields, NoChange DEF NetTimeSignal
<1>3. /\ Changes(Here, s, Followed) /\ Follows(s, m)
      /\ ZoneFits(s) /\ FileFits(s) /\ FilePlain(s)
      /\ s.server_tz # server_tz => s.signals # << >>
  BY <1>2, CsdFollows
<1> HIDE DEF s
<1>4. Fits(s)
  <2>1. "running" \notin Followed
    BY DEF Followed, Noted, Sent, Zone, Alarm
  <2> QED
    BY <1>2, <1>3, <2>1, FitsRunning
<1> QED
  BY <1>1, <1>3, <1>4 DEF Comes, Announced, s

\* The reply to get_network_time_info: autosync is looked at again, and when
\* the message does not settle things the country's zone follows it.
LEMMA TimeInfoReplyDoes ==
  ASSUME FInv, NEW m \in NetMsgs, TimeInfoReply(m)
  PROVE  \E r : Comes(r, Followed) /\ Follows(r, m)
<1> DEFINE got == [Here EXCEPT !.pendingInfo = @ - 1]
<1>1. PICK w \in Worlds, u \in Worlds, d \in Decode(m, wall) :
        LET csd == HandleCsd(got, d, w) IN
        Becomes(CASE ~autosync -> got
                  [] autosync /\ csd.rv = -1 -> SetTzFromMcc(csd.state, u)
                  [] OTHER -> csd.state)
  BY DEF TimeInfoReply
<1> DEFINE heard == HandleCsd(got, d, w).state
           zoned == SetTzFromMcc(heard, u)
<1>2. running /\ ZoneFits(Here) /\ FileFits(Here) /\ FilePlain(Here)
  BY FitsHere DEF TimeInfoReply
<1>3. \/ ~autosync /\ Becomes(got)
      \/ autosync /\ Becomes(heard)
      \/ autosync /\ Becomes(zoned)
  BY <1>1
<1>4. Changes(Here, got, {"pendingInfo"})
  BY HereFields DEF Changes, IsState, Fields
<1>5. /\ Changes(Here, heard, Followed) /\ Follows(heard, m)
      /\ ZoneFits(heard) /\ FileFits(heard) /\ FilePlain(heard) /\ HasSent(heard)
      /\ heard.server_tz # server_tz => heard.signals # << >>
  BY <1>2, <1>4, CsdFollows
<1> HIDE DEF got, heard
<1>6. /\ Changes(heard, zoned, {"saved_tz", "conf"} \cup Sent \cup Zone \cup Alarm)
      /\ ZoneFits(zoned) /\ FileFits(zoned) /\ FilePlain(zoned)
      /\ zoned = heard \/ zoned.signals # << >>
  BY <1>5, SetTzFromMccDoes DEF Changes
<1> HIDE DEF zoned
<1>7. Changes(Here, zoned, Followed)
  BY <1>5, <1>6, Compose DEF Followed, Noted
<1>8. "running" \notin Followed /\ {"pendingInfo"} \cap Zone = {}
      /\ {"pendingInfo"} \cap FileFields = {} /\ "conf" \notin {"pendingInfo"}
  BY DEF Followed, Noted, Sent, Zone, Alarm, FileFields
<1>9. CASE ~autosync /\ Becomes(got)
  <2>1. Changes(Here, got, Followed) /\ Changes(Here, got, Heard)
    BY <1>4, Weaken DEF Followed, Heard
  <2>2. /\ got.wall = wall /\ got.net_time = net_time_changed_time
        /\ got.net_ticks = net_time_last_changed_ticks /\ got.server_tz = server_tz
    BY <1>4, HereFields DEF Changes, Fields
  <2>3. ZoneFits(got) /\ FileFits(got) /\ FilePlain(got)
    BY <1>2, <1>4, <1>8, Untouched
  <2>4. Fits(got)
    BY <1>2, <1>8, <2>1, <2>3, FitsRunning
  <2> QED
    BY <1>9, <2>1, <2>2, <2>4 DEF Comes, Announced, Follows
<1>10. CASE autosync /\ Becomes(heard)
  <2>1. Fits(heard)
    BY <1>2, <1>5, <1>8, FitsRunning
  <2> QED
    BY <1>5, <1>10, <2>1 DEF Comes, Announced
<1>11. CASE autosync /\ Becomes(zoned)
  <2>1. Fits(zoned)
    BY <1>2, <1>6, <1>7, <1>8, FitsRunning
  <2>2. /\ zoned.wall = heard.wall /\ zoned.net_time = heard.net_time
        /\ zoned.net_ticks = heard.net_ticks
    BY <1>6 DEF Changes, Fields, Sent, Zone, Alarm
  <2>3. Follows(zoned, m)
    BY <1>5, <1>11, <2>2 DEF Follows
  <2> QED
    BY <1>5, <1>6, <1>7, <1>11, <2>1, <2>3 DEF Comes, Announced
<1> QED
  BY <1>3, <1>9, <1>10, <1>11

\* A handler of the running process that touches no setting and no link, and
\* TZ only to clear it.
Registered == {"mcc_cache", "tz_list", "tzEnv", "pendingInfo", "pendingReg", "net_time"}

LEMMA RegisteredComes ==
  ASSUME FInv, running, NEW r, Becomes(r), Changes(Here, r, Registered),
         r.tzEnv \in {tzEnv, UTC}
  PROVE  Comes(r, Registered)
<1>1. /\ r.server_tz = server_tz /\ Here.tzEnv = tzEnv
      /\ r.links = Here.links /\ Here.server_tz = server_tz
  BY DEF Changes, Fields, Registered, Here
<1>2. FileFits(r) /\ FilePlain(r)
  <2>1. Registered \cap FileFields = {} /\ "conf" \notin Registered
    BY DEF Registered, FileFields
  <2> QED
    BY <2>1, FitsHere, Untouched
<1>3. ZoneFits(r)
  BY <1>1, FitsHere DEF ZoneFits, EnvFits, LinkFits
<1>4. Fits(r)
  <2>1. "running" \notin Registered
    BY DEF Registered
  <2> QED
    BY <1>2, <1>3, <2>1, FitsRunning
<1> QED
  BY <1>1, <1>4 DEF Comes, Announced

\* The registration_status_change signal, and the reply to the question.
LEMMA RegistrationDoes ==
  ASSUME FInv, NEW registered \in BOOLEAN, NEW mcc \in Mccs,
         RegistrationSignal(registered, mcc) \/ RegistrationReply(registered, mcc)
  PROVE  \E r : Comes(r, Registered \ {"net_time"})
<1>0. PICK found \in BOOLEAN :
        \/ Becomes(HandleRegistration(Here, registered, mcc, found))
        \/ Becomes(HandleRegistration([Here EXCEPT !.pendingReg = @ - 1],
                                      registered, mcc, found))
  BY Zenon DEF RegistrationSignal, RegistrationReply
<1> DEFINE answered == [Here EXCEPT !.pendingReg = @ - 1]
           s == HandleRegistration(Here, registered, mcc, found)
           t == HandleRegistration(answered, registered, mcc, found)
           F == {"mcc_cache", "tz_list", "tzEnv", "pendingInfo"}
<1>1. running /\ (Becomes(s) \/ Becomes(t))
  BY <1>0 DEF RegistrationSignal, RegistrationReply
<1>2. Changes(Here, answered, {"pendingReg"}) /\ answered.tzEnv = tzEnv
  BY HereFields DEF Changes, IsState, Fields, Here
<1> HIDE DEF answered
<1>3. Changes(Here, s, F) /\ s.tzEnv \in {tzEnv, UTC}
  <2>1. Here.tzEnv = tzEnv
    BY DEF Here
  <2> QED
    BY <2>1, HereFields, HandleRegistrationDoes
<1>4. Changes(answered, t, F) /\ t.tzEnv \in {tzEnv, UTC}
  BY <1>2, HandleRegistrationDoes DEF Changes
<1> HIDE DEF s, t
<1>5. /\ Changes(Here, s, Registered) /\ Changes(Here, t, Registered)
      /\ Changes(Here, s, Registered \ {"net_time"})
      /\ Changes(Here, t, Registered \ {"net_time"})
  BY <1>2, <1>3, <1>4, Weaken, Compose DEF Registered
<1>6. Becomes(s) => Comes(s, Registered)
  BY <1>1, <1>3, <1>5, RegisteredComes
<1>7. Becomes(t) => Comes(t, Registered)
  BY <1>1, <1>4, <1>5, RegisteredComes
<1> QED
  BY <1>1, <1>5, <1>6, <1>7 DEF Comes

LEMMA ReplyLostDoes ==
  ASSUME FInv, ReplyLost
  PROVE  \E r : Comes(r, Registered \ {"net_time"})
<1> DEFINE r == [Here EXCEPT !.pendingReg = @ - 1]
           s == [Here EXCEPT !.pendingInfo = @ - 1]
<1>1. running /\ (Becomes(r) \/ Becomes(s))
  BY DEF ReplyLost
<1>2. /\ Changes(Here, r, {"pendingReg"}) /\ Changes(Here, s, {"pendingInfo"})
      /\ r.tzEnv = tzEnv /\ s.tzEnv = tzEnv
  BY HereFields DEF Changes, IsState, Fields, Here
<1> HIDE DEF r, s
<1>3. /\ Changes(Here, r, Registered) /\ Changes(Here, s, Registered)
      /\ Changes(Here, r, Registered \ {"net_time"})
      /\ Changes(Here, s, Registered \ {"net_time"})
  BY <1>2, Weaken DEF Registered
<1>4. (Becomes(r) => Comes(r, Registered)) /\ (Becomes(s) => Comes(s, Registered))
  BY <1>1, <1>2, <1>3, RegisteredComes
<1> QED
  BY <1>1, <1>3, <1>4 DEF Comes

\* MCE's mode change signal.
LEMMA ModeChangeDoes ==
  ASSUME FInv, ModeChange
  PROVE  \E r : Comes(r, {"net_time"}) /\ r.net_time = 0
<1> DEFINE r == [Here EXCEPT !.net_time = 0]
<1>1. running /\ Becomes(r)
  BY DEF ModeChange
<1>2. Changes(Here, r, {"net_time"}) /\ r.tzEnv = tzEnv /\ r.net_time = 0
  BY HereFields DEF Changes, IsState, Fields, Here
<1> HIDE DEF r
<1>3. Changes(Here, r, Registered)
  BY <1>2, Weaken DEF Registered
<1>4. Comes(r, Registered)
  BY <1>1, <1>2, <1>3, RegisteredComes
<1> QED
  BY <1>2, <1>4 DEF Comes

-----------------------------------------------------------------------------
(* What the alarm, the second, the scripts, the start and the stop do *)

\* handle_alarm leaves one alarm, for the present second and the present TZ.
LEMMA HandleAlarmDoes ==
  ASSUME FInv, HandleAlarm
  PROVE  \E r : Comes(r, Sent \cup Alarm) /\ AlarmSet(r)
<1>1. PICK x \in timers :
        LET told == IF was_dst # DstAt(tzEnv, wall)
                    THEN SendIndication(Here, wall) ELSE Here
            next == NextDstChange(told, wall, FALSE)
        IN Becomes([next EXCEPT !.timers = @ \ {x}])
  BY DEF HandleAlarm
<1> DEFINE told == IF was_dst # DstAt(tzEnv, wall)
                   THEN SendIndication(Here, wall) ELSE Here
           next == NextDstChange(told, wall, FALSE)
           r == [next EXCEPT !.timers = @ \ {x}]
<1>2. running /\ ZoneFits(Here) /\ FileFits(Here) /\ FilePlain(Here) /\ Becomes(r)
  BY <1>1, FitsHere DEF HandleAlarm
<1>3. Changes(Here, told, Sent)
  BY HereFields, SendIndicationChanges, NoChange DEF Sent
<1> HIDE DEF told
<1>4. IsState(told) /\ told.wall = wall /\ \A y \in told.timers : y.id = told.alarm_timer_id
  <2>1. /\ IsState(told) /\ told.wall = wall
        /\ told.timers = timers /\ told.alarm_timer_id = alarm_timer_id
    BY <1>3 DEF Changes, Fields, Sent, Here
  <2> QED
    BY <1>2, <2>1, HereAlarm
<1>5. Changes(told, next, Alarm) /\ AlarmSet(next)
  <2>1. next = NextDstChange(told, told.wall, FALSE)
    BY <1>4
  <2> QED
    BY <1>4, <2>1, NextDstChangeChanges, NextDstChangeSets
<1> HIDE DEF next
<1>6. Changes(next, r, Alarm) /\ AlarmSet(r)
  <2>1. /\ Changes(next, r, {"timers"}) /\ r.timers \subseteq next.timers
        /\ r.mono = next.mono /\ r.tzEnv = next.tzEnv /\ r.wall = next.wall
    BY <1>5 DEF Changes, IsState, Fields
  <2> HIDE DEF r
  <2> QED
    BY <1>5, <2>1, Weaken DEF AlarmSet, Alarm
<1> HIDE DEF r
<1>7. Changes(Here, r, Sent \cup Alarm)
  <2>1. Changes(told, r, Alarm)
    BY <1>5, <1>6, Compose
  <2> QED
    BY <1>3, <2>1, Compose
<1>8. /\ (Sent \cup Alarm) \cap Zone = {} /\ (Sent \cup Alarm) \cap FileFields = {}
      /\ "conf" \notin Sent \cup Alarm /\ "running" \notin Sent \cup Alarm
      /\ "server_tz" \notin Sent \cup Alarm
  BY DEF Sent, Alarm, Zone, FileFields
<1>9. ZoneFits(r) /\ FileFits(r) /\ FilePlain(r)
  BY <1>2, <1>7, <1>8, Untouched
<1>10. Fits(r)
  BY <1>2, <1>7, <1>8, <1>9, FitsRunning
<1>11. r.server_tz = server_tz
  BY <1>7, <1>8, HereFields DEF Changes, Fields
<1> QED
  BY <1>2, <1>6, <1>7, <1>10, <1>11 DEF Comes, Announced

\* A handler that touches neither the process nor its files but for times.
LEMMA TickDoes ==
  ASSUME FInv, Tick
  PROVE  \E r : /\ Comes(r, {"mono", "wall"})
                /\ r.mono = mono + 1 /\ r.wall = wall + 1
<1> DEFINE r == [Here EXCEPT !.mono = @ + 1, !.wall = @ + 1]
           F == {"mono", "wall"}
<1>1. Becomes(r)
  BY DEF Tick
<1>2. Changes(Here, r, F) /\ r.mono = mono + 1 /\ r.wall = wall + 1
  BY HereFields DEF Changes, IsState, Fields
<1> HIDE DEF r
<1>3. r.running = running /\ r.restoring = restoring /\ r.server_tz = server_tz
  BY <1>2, HereFields DEF Changes, Fields
<1>4. F \cap Zone = {} /\ F \cap FileFields = {} /\ "conf" \notin F
  BY DEF Zone, FileFields
<1>5. Fits(r)
  BY <1>2, <1>3, <1>4, HereFields, Untouched DEF FInv, Fits
<1> QED
  BY <1>1, <1>2, <1>3, <1>5 DEF Comes, Announced

\* The scripts leave a running clockd to be killed, and a file without a colon.
LEMMA ScriptDoes ==
  ASSUME FInv, Script
  PROVE  \E r : Comes(r, {"conf", "restoring"})
<1>1. ASSUME NEW c, Becomes([Here EXCEPT !.conf = c, !.restoring = running]),
             c = Lost \/ c.net_tz.form # ":"
      PROVE  \E r : Comes(r, {"conf", "restoring"})
  <2> DEFINE r == [Here EXCEPT !.conf = c, !.restoring = running]
  <2>1. /\ Changes(Here, r, {"conf", "restoring"})
        /\ r.conf = c /\ r.restoring = running
    BY HereFields DEF Changes, IsState, Fields
  <2> HIDE DEF r
  <2>2. r.running = running /\ r.server_tz = server_tz
    BY <2>1, HereFields DEF Changes, Fields
  <2>3. {"conf", "restoring"} \cap Zone = {}
    BY DEF Zone
  <2>4. ZoneFits(Here) => ZoneFits(r)
    BY <2>1, <2>3, Untouched
  <2>5. FilePlain(r)
    BY <1>1, <2>1 DEF FilePlain
  <2>6. running => FileFits(r)
    BY <2>1 DEF FileFits
  <2>7. Fits(r)
    BY <2>1, <2>2, <2>4, <2>5, <2>6, HereFields DEF FInv, Fits
  <2> QED
    BY <1>1, <2>1, <2>2, <2>7 DEF Comes, Announced, r
<1>2. CASE \E c \in Confs : RestoreBackup(c)
  <2>1. PICK c \in Confs : RestoreBackup(c)
    BY <1>2
  <2> DEFINE asked == [c EXCEPT !.restore_tz = c.system_tz]
  <2>2. asked.net_tz.form # ":"
    BY InputAssumption DEF AllConfs
  <2>3. Becomes([Here EXCEPT !.conf = asked, !.restoring = running])
    BY <2>1 DEF RestoreBackup
  <2> HIDE DEF asked
  <2> QED
    BY <1>1, <2>2, <2>3
<1>3. CASE FactoryReset
  BY <1>1, <1>3 DEF FactoryReset
<1> QED
  BY <1>2, <1>3 DEF Script

\* The end of a process, which the helper may outlive.
LEMMA StopDoes ==
  ASSUME FInv, Stop
  PROVE  \E r : /\ Becomes(r) /\ Fits(r)
                /\ Changes(Here, r, Memory \cup {"links", "restoring"})
                /\ r.running = FALSE /\ r.server_tz = Empty /\ r.net_time = 0
<1>1. ASSUME NEW s, Changes(Here, s, {"links"}),
             Becomes([Boot(s) EXCEPT !.restoring = FALSE])
      PROVE  \E r : /\ Becomes(r) /\ Fits(r)
                    /\ Changes(Here, r, Memory \cup {"links", "restoring"})
                    /\ r.running = FALSE /\ r.server_tz = Empty /\ r.net_time = 0
  <2> DEFINE b == Boot(s)
             r == [b EXCEPT !.restoring = FALSE]
  <2>1. /\ Changes(s, b, Memory)
        /\ b.running = FALSE /\ b.server_tz = Empty /\ b.net_time = 0
    BY <1>1, BootDoes DEF Changes
  <2> HIDE DEF b
  <2>2. Changes(b, r, {"restoring"}) /\ r.restoring = FALSE
    BY <2>1 DEF Changes, IsState, Fields
  <2>3. Becomes(r)
    BY <1>1 DEF b
  <2> HIDE DEF r
  <2>4. Changes(Here, r, Memory \cup {"links", "restoring"})
    <3>1. Changes(Here, b, Memory \cup {"links"})
      BY <1>1, <2>1, Compose
    <3> QED
      BY <2>2, <3>1, Compose
  <2>5. r.running = FALSE /\ r.server_tz = Empty /\ r.net_time = 0
    BY <2>1, <2>2 DEF Changes, Fields
  <2>6. FilePlain(r)
    <3>1. "conf" \notin Memory \cup {"links", "restoring"}
      BY DEF Memory
    <3> QED
      BY <2>4, <3>1, Untouched DEF FInv, Fits
  <2> QED
    BY <2>2, <2>3, <2>4, <2>5, <2>6 DEF Fits
<1>2. Changes(Here, Here, {"links"})
  BY HereFields, NoChange
<1>3. \A n, w : Changes(Here, InternalSetTz(Here, n, w), {"links"})
  BY HereFields, InternalSetTzChanges
<1> QED
  BY <1>1, <1>2, <1>3 DEF Stop

\* server_init, whichever file and links it finds.
LEMMA StartDoes ==
  ASSUME FInv, Start
  PROVE  \E r : /\ Becomes(r) /\ Fits(r)
                /\ Changes(Here, r, Memory \cup {"links", "conf"})
                /\ \/ /\ r.running = TRUE /\ r.net_time = net_time_changed_time
                      /\ r.net_ticks = net_time_last_changed_ticks
                   \/ r.running = FALSE /\ r.server_tz = Empty /\ r.net_time = 0
<1>1. PICK w \in Worlds, busUp \in BOOLEAN :
        LET s == Settle(Here, w) IN
        Becomes(IF busUp
                THEN SetupTzFromMcc([NextDstChange(s, s.wall, TRUE)
                                       EXCEPT !.running = TRUE], w)
                ELSE Boot(s))
  BY DEF Start
<1> DEFINE s == Settle(Here, w)
           alarmed == NextDstChange(s, s.wall, TRUE)
           up == [alarmed EXCEPT !.running = TRUE]
           r == SetupTzFromMcc(up, w)
           b == Boot(s)
           F == Memory \cup {"links", "conf"}
<1>2. Becomes(r) \/ Becomes(b)
  BY <1>1
<1>3. FilePlain(Here) /\ server_tz = Empty
  BY DEF FInv, Fits, Start
<1>4. /\ Changes(Here, s, Settled \cup {"tzEnv", "links", "conf", "was_dst"})
      /\ ZoneFits(s) /\ FileFits(s) /\ FilePlain(s)
  BY <1>3, HereFields, SettleDoes
<1> HIDE DEF s
<1>5. Changes(s, alarmed, Alarm)
  BY <1>4, NextDstChangeChanges DEF Changes
<1> HIDE DEF alarmed
<1>6. Changes(alarmed, up, {"running"}) /\ up.running = TRUE
  BY <1>5 DEF Changes, IsState, Fields
<1> HIDE DEF up
<1>7. Changes(up, r, {"pendingReg", "handler_installed"})
  BY <1>6, SetupTzFromMccChanges DEF Changes
<1> HIDE DEF r
<1>8. Changes(s, r, Alarm \cup {"running", "pendingReg", "handler_installed"})
  <2>1. Changes(s, up, Alarm \cup {"running"})
    BY <1>5, <1>6, Compose
  <2> QED
    BY <1>7, <2>1, Compose
<1>9. ZoneFits(r) /\ FileFits(r) /\ FilePlain(r)
  <2> DEFINE G == Alarm \cup {"running", "pendingReg", "handler_installed"}
  <2>1. G \cap Zone = {} /\ G \cap FileFields = {} /\ "conf" \notin G
    BY DEF Alarm, Zone, FileFields
  <2> QED
    BY <1>4, <1>8, <2>1, Untouched
<1>10. Changes(Here, s, F) /\ Changes(Here, r, F)
  BY <1>4, <1>8, Compose, Weaken DEF Settled, Alarm, Memory
<1>11. /\ s.net_time = net_time_changed_time /\ s.net_ticks = net_time_last_changed_ticks
       /\ r.net_time = s.net_time /\ r.net_ticks = s.net_ticks /\ r.running = TRUE
       /\ s.restoring = restoring
  BY <1>4, <1>6, <1>7, <1>8, HereFields DEF Changes, Fields, Settled, Alarm
<1>12. Changes(s, b, Memory) /\ b.running = FALSE /\ b.server_tz = Empty /\ b.net_time = 0
  BY <1>4, BootDoes DEF Changes
<1> HIDE DEF b
<1>13. Changes(Here, b, F) /\ FilePlain(b) /\ ~b.restoring
  <2>1. Changes(Here, b, F)
    BY <1>10, <1>12, Compose
  <2>2. FilePlain(b) /\ b.restoring = restoring
    <3>1. "conf" \notin Memory /\ "restoring" \notin Memory
      BY DEF Memory
    <3>2. FilePlain(b)
      BY <1>4, <1>12, <3>1, Untouched
    <3> QED
      BY <1>11, <1>12, <3>1, <3>2 DEF Changes, Fields
  <2>3. ~restoring
    BY HereFields DEF FInv, Fits, Start
  <2> QED
    BY <2>1, <2>2, <2>3
<1>14. Fits(r) /\ Fits(b)
  BY <1>9, <1>11, <1>12, <1>13 DEF Fits
<1> QED
  BY <1>2, <1>10, <1>11, <1>12, <1>13, <1>14

-----------------------------------------------------------------------------
(* The invariant *)

LEMMA InitFits == Init => FInv
<1> SUFFICES ASSUME Init PROVE FInv
  OBVIOUS
<1>1. IInv
  BY InitIInv
<1>2. ~running /\ server_tz = Empty /\ ~restoring
  BY DEF Init
<1>3. conf # Lost => conf.net_tz.form # ":"
  BY InputAssumption DEF Init
<1> QED
  BY <1>1, <1>2, <1>3, HereFields DEF FInv, Fits, FilePlain

\* Each handler of the running process ends in a state that fits.
LEMMA HandlersCome ==
  ASSUME FInv, Client \/ Network \/ HandleAlarm \/ Tick \/ Script
  PROVE  \E r, F : Comes(r, F) /\ "running" \notin F
<1> DEFINE C == {"conf", "reply"} \cup Sent \cup Zone \cup Alarm
           All == Fields \ {"running"}
<1>0. \A r, F : Comes(r, F) /\ F \subseteq All => Comes(r, All)
  BY Weaken DEF Comes
<1>1. CASE Client
  <2>1. ASSUME NEW t \in Times, SetTime(t) PROVE \E r : Comes(r, All)
    BY <1>0, <2>1, SetTimeDoes DEF Fields, Sent, Alarm
  <2>2. ASSUME NEW n \in UserTz, SetTz(n) PROVE \E r : Comes(r, All)
    BY <1>0, <2>2, SetTzDoes DEF Fields, Sent, Zone, Alarm
  <2>3. ASSUME NEW enabled \in BOOLEAN, SetAutosync(enabled) PROVE \E r : Comes(r, All)
    BY <1>0, <2>3, SetAutosyncDoes DEF Fields, Sent, Zone, Alarm
  <2>4. ASSUME NEW f \in Formats \cup {NoFormat}, SetTimeFormat(f)
        PROVE  \E r : Comes(r, All)
    BY <1>0, <2>4, SetTimeFormatDoes DEF Fields, Sent
  <2>5. CASE ActivateNetTime
    BY <1>0, <2>5, ActivateNetTimeDoes DEF Fields, Sent, Zone, Alarm
  <2> QED
    BY <1>1, <2>1, <2>2, <2>3, <2>4, <2>5 DEF Client
<1>2. CASE Network
  <2>0. Followed \subseteq All /\ Registered \subseteq All
    BY DEF Followed, Noted, Registered, Sent, Zone, Alarm, Fields
  <2>1. ASSUME NEW m \in NetMsgs, NetTimeSignal(m) \/ TimeInfoReply(m)
        PROVE  \E r : Comes(r, All)
    BY <1>0, <2>0, <2>1, NetTimeSignalDoes, TimeInfoReplyDoes
  <2>2. ASSUME NEW registered \in BOOLEAN, NEW mcc \in Mccs,
               RegistrationSignal(registered, mcc) \/ RegistrationReply(registered, mcc)
        PROVE  \E r : Comes(r, All)
    BY <1>0, <2>0, <2>2, RegistrationDoes
  <2>3. CASE ReplyLost
    BY <1>0, <2>0, <2>3, ReplyLostDoes
  <2>4. CASE ModeChange
    BY <1>0, <2>4, ModeChangeDoes DEF Fields
  <2> QED
    BY <1>2, <2>1, <2>2, <2>3, <2>4 DEF Network
<1>3. CASE HandleAlarm
  BY <1>0, <1>3, HandleAlarmDoes DEF Fields, Sent, Alarm
<1>4. CASE Tick
  BY <1>0, <1>4, TickDoes DEF Fields
<1>5. CASE Script
  BY <1>0, <1>5, ScriptDoes DEF Fields
<1> QED
  BY <1>1, <1>2, <1>3, <1>4, <1>5

LEMMA NextFits == FInv /\ [Next]_vars => FInv'
<1> SUFFICES ASSUME FInv, [Next]_vars PROVE FInv'
  OBVIOUS
<1>1. IInv'
  BY NextIInv DEF FInv
<1>2. CASE Client \/ Network \/ HandleAlarm \/ Tick \/ Script
  <2>1. PICK r, F : Comes(r, F) /\ "running" \notin F
    BY <1>2, HandlersCome
  <2>2. Fits(Here)'
    BY <2>1, BecomesFits DEF Comes
  <2>3. running' = running
    BY <2>1, HereFields DEF Comes, Becomes, Changes, Fields
  <2>4. ~running => server_tz' = Empty
    <3>1. CASE Tick
      BY <3>1 DEF Tick, Becomes, Here, FInv
    <3>2. CASE Script
      BY <3>2 DEF Script, RestoreBackup, FactoryReset, Becomes, Here, FInv
    <3>3. CASE Client \/ Network \/ HandleAlarm
      BY <3>3 DEF Client, SetTime, SetTz, SetAutosync, SetTimeFormat, ActivateNetTime,
                  Network, NetTimeSignal, TimeInfoReply, RegistrationSignal,
                  RegistrationReply, ReplyLost, ModeChange, HandleAlarm
    <3> QED
      BY <1>2, <3>1, <3>2, <3>3
  <2> QED
    BY <1>1, <2>2, <2>3, <2>4 DEF FInv
<1>3. CASE Start
  <2>1. PICK r : Becomes(r) /\ Fits(r) /\ (r.running = TRUE \/ r.server_tz = Empty)
    BY <1>3, StartDoes
  <2>2. Fits(Here)'
    BY <2>1, BecomesFits
  <2> QED
    BY <1>1, <2>1, <2>2 DEF FInv, Becomes
<1>4. CASE Stop
  <2>1. PICK r : Becomes(r) /\ Fits(r) /\ r.server_tz = Empty
    BY <1>4, StopDoes
  <2>2. Fits(Here)'
    BY <2>1, BecomesFits
  <2> QED
    BY <1>1, <2>1, <2>2 DEF FInv, Becomes
<1>5. CASE UNCHANGED vars
  <2>1. Here' = Here /\ running' = running /\ server_tz' = server_tz
    BY <1>5 DEF vars, Here
  <2> QED
    BY <1>1, <2>1 DEF FInv, Fits, FilePlain, ZoneFits, EnvFits, LinkFits, FileFits
<1> QED
  BY <1>2, <1>3, <1>4, <1>5 DEF Next

\* Between the handlers the settings, the file, the links and TZ fit.
THEOREM EverythingFits == Spec => []FInv
BY InitFits, NextFits, PTL DEF Spec

\* TZ is the server's zone or UTC, whichever handlers have borrowed it.
THEOREM EnvIsOwn == Spec => []EnvNeverForeign
<1>1. FInv => EnvNeverForeign
  <2> SUFFICES ASSUME FInv, running PROVE tzEnv \in {UTC, EnvTz(server_tz)}
    BY DEF EnvNeverForeign
  <2>1. EnvFits(Here) /\ Here.tzEnv = tzEnv
    BY FitsHere DEF ZoneFits, Here
  <2> QED
    BY <2>1, HereFields DEF EnvFits
<1> QED
  BY <1>1, EverythingFits, PTL

\* A restart reads the settings that the daemon has.
THEOREM RestartKeeps == Spec => []RestartKeepsSettings
<1>1. FInv => RestartKeepsSettings
  <2> DEFINE gone == Boot(Here)
             read == ReadSettings(gone)
             again == TakeTz(read)
  <2> SUFFICES ASSUME FInv, running, ~restoring, conf # Lost
               PROVE  /\ again.autosync = autosync
                      /\ again.time_format = time_format
                      /\ \/ again.server_tz = server_tz
                         \/ server_tz.form = ":" /\ NoZone \in {link, link_save}
                         \/ server_tz = Empty /\ link # NoZone
    BY Zenon DEF RestartKeepsSettings
  <2>1. FileFits(Here) /\ LinkFits(Here) /\ Here.links.link = link
        /\ Here.links.save = link_save /\ Here.time_format = time_format
    BY FitsHere DEF ZoneFits, Here
  <2>2. /\ conf.time_format = time_format
        /\ conf.autosync = autosync \/ netEnv = "disabled"
        /\ conf.net_tz = IF server_tz.form = ":" THEN Empty ELSE server_tz
    BY <2>1, HereFields DEF FileFits
  <2>3. (netEnv = "disabled" => ~autosync) /\ autosync \in BOOLEAN /\ server_tz \in Names
    BY HereFields, HereType DEF FInv, IInv, Sound, States
  <2>0. Changes(Here, gone, Memory)
    BY HereFields, BootDoes
  <2> HIDE DEF gone
  <2>4. IsState(gone) /\ gone.conf = conf /\ gone.netEnv = netEnv /\ gone.links = Here.links
    BY <2>0, HereFields DEF Changes, Fields, Memory
  <2>5. /\ Changes(gone, read, Settled)
        /\ read.time_format = conf.time_format /\ read.server_tz = conf.net_tz
        /\ netEnv # "disabled" => read.autosync = conf.autosync
        /\ netEnv = "disabled" => read.autosync = FALSE
    BY <2>4, ReadSettingsDoes
  <2> HIDE DEF read
  <2>6. IsState(read) /\ read.links = Here.links
    BY <2>4, <2>5 DEF Changes, Fields, Settled
  <2>7. /\ Changes(read, again, {"server_tz", "tzEnv"})
        /\ again.server_tz = IF read.server_tz # Empty THEN read.server_tz
                             ELSE IF link = NoZone THEN Empty
                             ELSE Name(":", link)
    BY <2>1, <2>6, TakeTzDoes
  <2> HIDE DEF again
  <2>8. again.autosync = read.autosync /\ again.time_format = read.time_format
    BY <2>7 DEF Changes, Fields
  <2>9. server_tz.form = ":" /\ NoZone \notin {link, link_save}
          => again.server_tz = server_tz
    <3> SUFFICES ASSUME server_tz.form = ":", NoZone \notin {link, link_save}
                 PROVE  again.server_tz = server_tz
      OBVIOUS
    <3>1. server_tz.zone = link
      BY <2>1, HereFields DEF LinkFits
    <3>2. server_tz = Name(":", link)
      <4>1. Empty.form # ":"
        BY Zenon DEF Empty, Name
      <4> QED
        BY <2>3, <3>1, <4>1 DEF Names, Name
    <3> QED
      BY <2>2, <2>5, <2>7, <3>2
  <2>10. server_tz.form # ":" => \/ again.server_tz = server_tz
                                 \/ server_tz = Empty /\ link # NoZone
    BY <2>2, <2>5, <2>7
  <2> QED
    BY <2>2, <2>3, <2>5, <2>8, <2>9, <2>10
<1> QED
  BY <1>1, EverythingFits, PTL

-----------------------------------------------------------------------------
(* What a step may never do *)

\* With autosync off a running daemon moves neither the clock nor the zone nor
\* its link but for a client: not for a signal of the network, nor for a reply
\* that was asked for earlier (handle_csd_net_time_change and the callbacks of
\* mcc_tz_utils.c), nor in the alarm.
THEOREM NetworkIsPassive == Spec => AutosyncOffIsPassive
<1> DEFINE Quiet == /\ running /\ running' /\ ~autosync
                    /\ <<wall, link, server_tz>>' # <<wall, link, server_tz>>
                    => Client \/ Tick
<1>1. FInv /\ [Next]_vars => [Quiet]_vars
  <2> SUFFICES ASSUME FInv, Network \/ HandleAlarm \/ Script, ~autosync
               PROVE  <<wall, link, server_tz>>' = <<wall, link, server_tz>>
    <3>1. running => ~Start
      BY DEF Start
    <3>2. FInv /\ Stop => running' = FALSE
      BY StopDoes DEF Becomes
    <3> QED
      BY <3>1, <3>2 DEF Next
  <2> DEFINE Still == {"pendingInfo", "pendingReg", "mcc_cache", "tz_list"}
                        \cup Noted \cup {"conf", "restoring"} \cup Sent \cup Alarm
  <2>1. \E r : Becomes(r) /\ Changes(Here, r, Still)
    <3>1. ASSUME NEW m \in NetMsgs, NetTimeSignal(m) \/ TimeInfoReply(m)
          PROVE  \E r : Becomes(r) /\ Changes(Here, r, Still)
      <4>1. PICK r : Comes(r, Followed) /\ Follows(r, m)
        BY <3>1, NetTimeSignalDoes, TimeInfoReplyDoes
      <4>2. Becomes(r) /\ Changes(Here, r, Heard)
        BY <4>1 DEF Comes, Follows
      <4> QED
        BY <4>2, Weaken DEF Heard
    <3>2. ASSUME NEW r, Comes(r, Registered)
          PROVE  Becomes(r) /\ Changes(Here, r, Still)
      BY <3>2, Weaken DEF Comes, Registered, Noted
    <3>3. ASSUME NEW r, Comes(r, Registered \ {"net_time"}) \/ Comes(r, {"net_time"})
          PROVE  Comes(r, Registered)
      BY <3>3, Weaken DEF Comes, Registered
    <3>4. Network => \E r : Becomes(r) /\ Changes(Here, r, Still)
      <4> HIDE DEF Still
      <4> QED
        BY <3>1, <3>2, <3>3, RegistrationDoes, ReplyLostDoes, ModeChangeDoes DEF Network
    <3>5. ASSUME NEW r, Comes(r, Sent \cup Alarm) \/ Comes(r, {"conf", "restoring"})
          PROVE  Becomes(r) /\ Changes(Here, r, Still)
      BY <3>5, Weaken DEF Comes
    <3>6. HandleAlarm \/ Script => \E r : Becomes(r) /\ Changes(Here, r, Still)
      <4> HIDE DEF Still
      <4> QED
        BY <3>5, HandleAlarmDoes, ScriptDoes
    <3> QED
      BY <3>4, <3>6
  <2>2. PICK r : Becomes(r) /\ Changes(Here, r, Still)
    BY <2>1
  <2>3. r.wall = Here.wall /\ r.links = Here.links /\ r.server_tz = Here.server_tz
    BY <2>2 DEF Changes, Fields, Noted, Sent, Alarm
  <2> QED
    BY <2>2, <2>3 DEF Becomes, Here
<1> QED
  BY <1>1, EverythingFits, PTL DEF Spec, AutosyncOffIsPassive

\* No handler gives the server another zone without a broadcast, unless the
\* file is lost (the callers of server_send_time_change_indication).
THEOREM ZoneIsAnnounced == Spec => TzChangeAnnounced
<1> DEFINE Told == running /\ running' /\ server_tz' # server_tz
                     => signals' # << >> \/ conf' = Lost
<1>1. FInv /\ [Next]_vars => [Told]_vars
  <2> SUFFICES ASSUME FInv, Next, running, running', server_tz' # server_tz
               PROVE  signals' # << >> \/ conf' = Lost
    OBVIOUS
  <2>1. ~Start
    BY DEF Start
  <2>2. ~Stop
    <3>1. Stop => running' = FALSE
      BY StopDoes DEF Becomes
    <3> QED
      BY <3>1
  <2>3. PICK r, F : Comes(r, F)
    BY <2>1, <2>2, HandlersCome DEF Next
  <2> QED
    BY <2>3 DEF Comes, Announced, Becomes
<1> QED
  BY <1>1, EverythingFits, PTL DEF Spec, TzChangeAnnounced

\* Once it is set for the present second, the alarm sleeps over no change.
LEMMA SetAlarmWakes ==
  ASSUME SeasonsOutlastWindow, IInv', NEW r, Becomes(r), AlarmSet(r)
  PROVE  ~SleepsOverChange'
<1>1. tzEnv' \in Installed /\ wall' \in Nat /\ mono' \in Nat
  <2>1. (Here \in States)'
    BY DEF IInv, Sound
  <2> QED
    BY <2>1 DEF Here, States
<1>2. \A x \in timers' : x.due = mono' + DstDelay(tzEnv', wall')
  BY DEF AlarmSet, Becomes
<1>3. ASSUME NEW x \in timers', NEW k \in 1..(x.due - mono' - 1)
      PROVE  DstAt(tzEnv', wall' + k) = DstAt(tzEnv', wall')
  <2> DEFINE delay == DstDelay(tzEnv', wall')
  <2>1. delay \in Int
    BY <1>1, Constants, DstDelayBounds
  <2> HIDE DEF delay
  <2>2. x.due = mono' + delay
    BY <1>2 DEF delay
  <2>3. k \in 1..(delay - 1)
    <3>1. \A due : \A m \in Nat : due = m + delay => due - m - 1 = delay - 1
      BY <2>1
    <3>2. x.due - mono' - 1 = delay - 1
      BY <1>1, <2>2, <3>1
    <3> QED
      BY <3>2
  <2>4. \A zone \in Installed, tick \in Nat :
          \A j \in 1..(DstDelay(zone, tick) - 1) :
            DstAt(zone, tick + j) = DstAt(zone, tick)
    BY NothingBeforeDelay
  <2>5. \A j \in 1..(delay - 1) : DstAt(tzEnv', wall' + j) = DstAt(tzEnv', wall')
    BY <1>1, <2>4 DEF delay
  <2> QED
    BY <2>3, <2>5
<1>4. SleepsOverChange' <=>
        \E x \in timers' : \E k \in 1..(x.due - mono' - 1) :
          DstAt(tzEnv', wall' + k) # DstAt(tzEnv', wall')
  BY DEF SleepsOverChange, DstAt
<1> QED
  BY <1>3, <1>4

\* After an alarm, or a zone that a client sets, no change is slept over,
\* where seasons last as long as next_dst_change looks ahead: it compares only
\* the ends of the two weeks.
THEOREM AlarmFollows ==
  ASSUME SeasonsOutlastWindow
  PROVE  Spec => AlarmFollowsZone
<1> DEFINE Wakes == SleepsOverChange' /\ reply' # "failed"
                      => ~HandleAlarm /\ \A n \in UserTz : ~SetTz(n)
<1>1. FInv /\ [Next]_vars => [Wakes]_vars
  <2> SUFFICES ASSUME FInv, Next, reply' # "failed",
                      HandleAlarm \/ \E n \in UserTz : SetTz(n)
               PROVE  ~SleepsOverChange'
    OBVIOUS
  <2>1. IInv'
    BY NextIInv DEF FInv
  <2>2. ASSUME HandleAlarm PROVE \E r : Becomes(r) /\ AlarmSet(r)
    BY <2>2, HandleAlarmDoes DEF Comes
  <2>3. ASSUME NEW n \in UserTz, SetTz(n) PROVE \E r : Becomes(r) /\ AlarmSet(r)
    <3>1. PICK r : Becomes(r) /\ (r.reply = "failed" \/ AlarmSet(r))
      BY <2>3, SetTzDoes DEF Comes
    <3>2. r.reply # "failed"
      BY <3>1 DEF Becomes
    <3> QED
      BY <3>1, <3>2
  <2> QED
    BY <2>1, <2>2, <2>3, SetAlarmWakes
<1> QED
  BY <1>1, EverythingFits, PTL DEF Spec, AlarmFollowsZone

-----------------------------------------------------------------------------
(* The network's time, step by step *)

ClockFields == {"wall", "mono", "net_time", "net_ticks"}

\* The time a message stands for is its own, or what the clock shows.
LEMMA DecodedTime ==
  ASSUME IInv, NEW m \in NetMsgs, NEW d \in Decode(m, wall), d.ok, d.time # -1
  PROVE  /\ d.time \in Nat \ {0}
         /\ d.time \in ({ n.time : n \in NetMsgs } \ {-1}) \cup {wall}
<1>1. d # DecodeFailed
  BY DEF DecodeFailed
<1>2. d.time = wall \/ d.time = m.time
  <2>1. m.wellTyped
    BY <1>1 DEF Decode
  <2>2. PICK invalid \in (IF m.dated THEN BOOLEAN ELSE {TRUE}) :
          d = IF invalid /\ m.tz = 100 /\ m.dst = 100 THEN DecodeFailed
              ELSE [ok |-> TRUE, time |-> IF invalid THEN wall ELSE m.time,
                    tz |-> DecodeTz(m.tz), dst |-> DecodeDst(m.dst)]
    BY <2>1 DEF Decode
  <2> QED
    BY <1>1, <2>2
<1>3. wall \in Nat \ {0}
  BY HereType
<1>4. m.time \in (Nat \ {0}) \cup {-1}
  BY InputAssumption
<1> QED
  BY <1>2, <1>3, <1>4

\* The clock, its ticks and the network's time, before and after.
LEMMA ClockTypes ==
  ASSUME IInv
  PROVE  /\ wall \in Nat \ {0} /\ mono \in Nat
         /\ net_time_changed_time \in Nat /\ net_time_last_changed_ticks \in Nat
BY HereType DEF Here, States

\* A step that only leaves the network's time forgotten.
LEMMA StepForgets ==
  ASSUME NEW r, Becomes(r), r.wall = wall, r.mono = mono, r.net_time = 0
  PROVE  NetClock!Next
BY DEF Becomes, NetClock!Next, NetClock!Forget

\* Every step of the daemon, of the network and of time is one of NetworkTime
\* or changes nothing that it speaks of.
LEMMA ClockStep ==
  ASSUME FInv, [Next]_vars
  PROVE  NetClock!Next \/ UNCHANGED NetClock!vars
<1> DEFINE Goal == NetClock!Next \/ UNCHANGED NetClock!vars
<1>0. IInv
  BY DEF FInv
<1>1. ASSUME NEW r, Becomes(r), r.wall = wall, r.mono = mono,
             r.net_time = net_time_changed_time,
             r.net_ticks = net_time_last_changed_ticks
      PROVE  Goal
  BY <1>1 DEF Becomes, NetClock!vars
<1>2. ASSUME NEW r, NEW F, Comes(r, F), F \cap ClockFields = {}
      PROVE  Goal
  <2>1. /\ r.wall = wall /\ r.mono = mono /\ r.net_time = net_time_changed_time
        /\ r.net_ticks = net_time_last_changed_ticks
    BY <1>2, HereFields DEF Comes, Changes, Fields, ClockFields
  <2> QED
    BY <1>1, <1>2, <2>1 DEF Comes
<1>3. CASE Client
  <2>1. ASSUME NEW t \in Times, SetTime(t) PROVE Goal
    <3>1. PICK r : /\ Comes(r, {"wall", "conf", "reply"} \cup Sent \cup Alarm)
                   /\ r.wall \in {wall, t}
      BY <2>1, SetTimeDoes
    <3>2. /\ Becomes(r) /\ r.mono = mono /\ r.net_time = net_time_changed_time
          /\ r.net_ticks = net_time_last_changed_ticks
      BY <3>1, HereFields DEF Comes, Changes, Fields, Sent, Alarm
    <3>3. CASE r.wall = wall
      BY <1>1, <3>2, <3>3
    <3>4. CASE r.wall = t
      BY <3>2, <3>4 DEF Becomes, NetClock!Next, NetClock!Request
    <3> QED
      BY <3>1, <3>3, <3>4
  <2>2. ASSUME NEW n \in UserTz, SetTz(n) PROVE Goal
    BY <1>2, <2>2, SetTzDoes DEF ClockFields, Sent, Zone, Alarm
  <2>3. ASSUME NEW r, Becomes(r), ClockAdopts(r), r.mono = mono,
               r.net_time = net_time_changed_time,
               r.net_ticks = net_time_last_changed_ticks
        PROVE  Goal
    <3>1. CASE r.wall = wall
      BY <1>1, <2>3, <3>1
    <3>2. CASE net_time_changed_time # 0 /\ r.wall = NetTimeNow(Here)
      <4> DEFINE o == net_time_changed_time - net_time_last_changed_ticks
      <4>1. r.wall = mono + o
        BY <1>0, <3>2, ClockTypes, HereFields DEF NetTimeNow
      <4> HIDE DEF o
      <4>2. /\ wall' = mono + o /\ mono' = mono
            /\ net_time_changed_time' = net_time_changed_time
            /\ net_time_last_changed_ticks' = net_time_last_changed_ticks
        BY <2>3, <4>1 DEF Becomes
      <4>3. NetClock!Adopt
        BY <3>2, <4>2 DEF NetClock!Adopt, o
      <4> QED
        BY <4>3 DEF NetClock!Next
    <3> QED
      BY <2>3, <3>1, <3>2 DEF ClockAdopts
  <2>4. ASSUME NEW enabled \in BOOLEAN, SetAutosync(enabled) PROVE Goal
    <3> DEFINE F == {"autosync", "pendingReg", "handler_installed",
                     "wall", "conf", "reply"} \cup Sent \cup Zone \cup Alarm
    <3>1. PICK r : Comes(r, F) /\ ClockAdopts(r)
      BY <2>4, SetAutosyncDoes
    <3>2. /\ Becomes(r) /\ r.mono = mono /\ r.net_time = net_time_changed_time
          /\ r.net_ticks = net_time_last_changed_ticks
      BY <3>1, HereFields DEF Comes, Changes, Fields, Sent, Zone, Alarm
    <3> QED
      BY <2>3, <3>1, <3>2
  <2>5. ASSUME NEW f \in Formats \cup {NoFormat}, SetTimeFormat(f) PROVE Goal
    BY <1>2, <2>5, SetTimeFormatDoes DEF ClockFields, Sent
  <2>6. CASE ActivateNetTime
    <3>1. PICK r : /\ Comes(r, {"wall", "conf", "reply"} \cup Sent \cup Zone \cup Alarm)
                   /\ ClockAdopts(r)
      BY <2>6, ActivateNetTimeDoes
    <3>2. /\ Becomes(r) /\ r.mono = mono /\ r.net_time = net_time_changed_time
          /\ r.net_ticks = net_time_last_changed_ticks
      BY <3>1, HereFields DEF Comes, Changes, Fields, Sent, Zone, Alarm
    <3> QED
      BY <2>3, <3>1, <3>2
  <2> QED
    BY <1>3, <2>1, <2>2, <2>4, <2>5, <2>6 DEF Client
<1>4. CASE Network
  <2>1. ASSUME NEW m \in NetMsgs, NetTimeSignal(m) \/ TimeInfoReply(m)
        PROVE  Goal
    <3>1. PICK r : Comes(r, Followed) /\ Follows(r, m)
      BY <2>1, NetTimeSignalDoes, TimeInfoReplyDoes
    <3>2. Becomes(r) /\ r.mono = mono
      BY <3>1, HereFields DEF Comes, Changes, Fields, Followed, Noted, Sent, Zone, Alarm
    <3>3. CASE /\ r.wall = wall /\ r.net_time = net_time_changed_time
               /\ r.net_ticks = net_time_last_changed_ticks
      BY <1>1, <3>2, <3>3
    <3>4. ASSUME NEW d \in Decode(m, wall), d.ok, d.time # -1,
                 r.net_time = d.time, r.net_ticks = mono, r.wall \in {wall, d.time}
          PROVE  Goal
      <4>1. /\ d.time # 0
            /\ d.time \in ({ n.time : n \in NetMsgs } \ {-1}) \cup {wall}
        BY <1>0, <3>4, DecodedTime
      <4>2. /\ wall' \in {wall, d.time} /\ mono' = mono
            /\ net_time_changed_time' = d.time /\ net_time_last_changed_ticks' = mono
        BY <3>2, <3>4 DEF Becomes
      <4>3. NetClock!Hear
        BY <4>1, <4>2 DEF NetClock!Hear
      <4> QED
        BY <4>3 DEF NetClock!Next
    <3> QED
      BY <3>1, <3>3, <3>4 DEF Follows
  <2>2. (Registered \ {"net_time"}) \cap ClockFields = {}
    BY DEF Registered, ClockFields
  <2>3. ASSUME NEW registered \in BOOLEAN, NEW mcc \in Mccs,
               RegistrationSignal(registered, mcc) \/ RegistrationReply(registered, mcc)
        PROVE  Goal
    BY <1>2, <2>2, <2>3, RegistrationDoes
  <2>4. CASE ReplyLost
    BY <1>2, <2>2, <2>4, ReplyLostDoes
  <2>5. CASE ModeChange
    <3>1. PICK r : Comes(r, {"net_time"}) /\ r.net_time = 0
      BY <2>5, ModeChangeDoes
    <3>2. Becomes(r) /\ r.wall = wall /\ r.mono = mono
      BY <3>1, HereFields DEF Comes, Changes, Fields
    <3> QED
      BY <3>1, <3>2, StepForgets
  <2> QED
    BY <1>4, <2>1, <2>3, <2>4, <2>5 DEF Network
<1>5. CASE HandleAlarm
  <2>1. (Sent \cup Alarm) \cap ClockFields = {}
    BY DEF Sent, Alarm, ClockFields
  <2> QED
    BY <1>2, <1>5, <2>1, HandleAlarmDoes
<1>6. CASE Tick
  <2>1. PICK r : /\ Comes(r, {"mono", "wall"})
                 /\ r.mono = mono + 1 /\ r.wall = wall + 1
    BY <1>6, TickDoes
  <2>2. /\ Becomes(r) /\ r.net_time = net_time_changed_time
        /\ r.net_ticks = net_time_last_changed_ticks
    BY <2>1, HereFields DEF Comes, Changes, Fields
  <2> QED
    BY <2>1, <2>2 DEF Becomes, NetClock!Next, NetClock!Pass
<1>7. CASE Script
  BY <1>2, <1>7, ScriptDoes DEF ClockFields
<1>8. CASE Start
  <2>1. PICK r : /\ Becomes(r) /\ Changes(Here, r, Memory \cup {"links", "conf"})
                 /\ \/ /\ r.net_time = net_time_changed_time
                       /\ r.net_ticks = net_time_last_changed_ticks
                    \/ r.net_time = 0
    BY <1>8, StartDoes
  <2>2. r.wall = wall /\ r.mono = mono
    BY <2>1, HereFields DEF Changes, Fields, Memory
  <2> QED
    BY <1>1, <2>1, <2>2, StepForgets
<1>9. CASE Stop
  <2>1. PICK r : /\ Becomes(r) /\ Changes(Here, r, Memory \cup {"links", "restoring"})
                 /\ r.net_time = 0
    BY <1>9, StopDoes
  <2>2. r.wall = wall /\ r.mono = mono
    BY <2>1, HereFields DEF Changes, Fields, Memory
  <2> QED
    BY <2>1, <2>2, StepForgets
<1>10. CASE UNCHANGED vars
  BY <1>10 DEF vars, NetClock!vars
<1> QED
  BY <1>3, <1>4, <1>5, <1>6, <1>7, <1>8, <1>9, <1>10 DEF Next

\* The daemon, with everything it runs among, keeps what NetworkTime promises
\* of the clock (handle_csd_net_time_change, set_network_time, server_filter).
THEOREM ClockKeepsTime == Spec => KeepsNetworkTime
<1>1. Init => NetClock!Init
  BY DEF Init, NetClock!Init
<1>2. FInv /\ [Next]_vars => [NetClock!Next]_(NetClock!vars)
  BY ClockStep
<1> QED
  BY <1>1, <1>2, EverythingFits, PTL DEF Spec, KeepsNetworkTime, NetClock!Spec

=============================================================================
