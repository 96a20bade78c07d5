---------------------------- MODULE ClockServer ----------------------------
(***************************************************************************)
(* The clock daemon: server.c and the handlers of mcc_tz_utils.c, which    *)
(* share one process, one main loop and one TZ environment variable.       *)
(*                                                                         *)
(* The daemon is single-threaded, so a handler of the D-Bus filter, of a   *)
(* pending call or of the alarm timer is one step.  What the handlers of   *)
(* one process interleave with is modelled: clients, the network           *)
(* daemon's signals and late replies, the alarm, the passing of time,      *)
(* crashes and restarts, and the scripts that replace the configuration    *)
(* file under the running daemon.                                          *)
(*                                                                         *)
(* A handler is the composition of the C functions it calls.  Each is an   *)
(* operator of the same name on a record that holds the whole state:       *)
(* `Here' is the record of the current values, and `Becomes(r)' makes r    *)
(* the next state.  What the system calls of a handler return (the helper  *)
(* rclockd, the file, the bus) is its "world" w.                           *)
(***************************************************************************)
EXTENDS TzNames, HelperOutcomes, Sequences

CONSTANTS
  Times,         \* seconds that clients may send
  UserTz,        \* zone names clients send
  Formats,       \* time formats
  NoFormat,      \* the empty time format
  FormatEnv,     \* CLOCKD_TIME_FORMAT
  NetEnvs,       \* values CLOCKD_NET_TIME may have
  NetMsgs,       \* network time messages
  Mccs,          \* mobile country codes
  CityZones,     \* the zones of a code's cities, in database order
  Confs,         \* configuration files a backup or an earlier boot leaves
  Links,         \* zones /etc/localtime may point to at first
  Lost,          \* no configuration file, or one that is empty
  Worlds,        \* what the system calls of one handler may do
  AlarmIds,      \* GLib source ids, taken in turn
  MaxPending,    \* bound on the calls in flight of one kind
  MaxTime,       \* bound on the wall clock
  MaxMono        \* bound on the seconds since boot

AllConfs == [time_format : Formats \cup {NoFormat}, autosync : BOOLEAN,
             net_tz : Names, system_tz : Zones \cup {NoZone},
             restore_tz : Zones \cup {NoZone}]

ASSUME InputAssumption ==
  /\ Times \subseteq Nat \ {0}
  /\ UserTz \subseteq Names
  /\ FormatEnv \in Formats \cup {NoFormat}
  /\ NetEnvs \subseteq {"disabled", "yes", "no", "unset"}
  /\ \A m \in NetMsgs : /\ {m.wellTyped, m.dated} \subseteq BOOLEAN
                        /\ m.time \in (Nat \ {0}) \cup {-1}
                        /\ m.tz \in 0..255
  /\ Mccs \subseteq Nat
  /\ \A m \in Mccs : CityZones[m] \in Seq(Zones)
  /\ Confs \subseteq AllConfs
  /\ \A c \in Confs : c.net_tz.form # ":"
  /\ Links \subseteq Zones \cup {NoZone}
  /\ Lost \notin AllConfs

\* The outcomes of rclockd for a time, of rclockd for a zone that is not
\* installed, of writing the file, and of adding or removing a bus match.
ASSUME WorldAssumption ==
  Worlds \subseteq [time  : TimeOutcomes \cup {"not_run"},
                   tz    : TzOutcomes,
                   save  : {"written", "open_failed", "close_failed"},
                   match : BOOLEAN]

ASSUME BoundAssumption ==
  /\ AlarmIds \in Nat \ {0, 1}
  /\ {MaxPending, MaxTime, MaxMono} \subseteq Nat

VARIABLES
  \* statics of server.c
  running, autosync, time_format, server_tz, saved_tz, was_dst,
  net_time_changed_time, net_time_last_changed_ticks, alarm_timer_id,
  \* statics of mcc_tz_utils.c
  mcc_cache, country_tz_name_list, handler_installed,
  \* what the process holds in its libraries
  tzEnv,         \* the zone that TZ stands for
  timers,        \* live GLib timeouts, each with the second it is due
  pendingReg,    \* get_registration_status calls in flight
  pendingInfo,   \* get_network_time_info calls in flight
  \* what outlives the process
  netEnv,        \* CLOCKD_NET_TIME
  wall,          \* the system clock
  mono,          \* seconds since boot, as times() and GLib count them
  link,          \* the zone /etc/localtime points to
  link_save,     \* the one /etc/localtime.save points to
  conf,          \* .clockd.conf
  restoring,     \* a script has replaced conf and has yet to kill clockd
  \* what the last handler sent
  reply, signals

vars == <<running, autosync, time_format, server_tz, saved_tz, was_dst,
          net_time_changed_time, net_time_last_changed_ticks, alarm_timer_id,
          mcc_cache, country_tz_name_list, handler_installed, tzEnv, timers,
          pendingReg, pendingInfo, netEnv, wall, mono, link, link_save, conf,
          restoring, reply, signals>>

\* The state as a record, with nothing sent yet.
Here ==
  [running |-> running, autosync |-> autosync, time_format |-> time_format,
   server_tz |-> server_tz, saved_tz |-> saved_tz, was_dst |-> was_dst,
   net_time |-> net_time_changed_time, net_ticks |-> net_time_last_changed_ticks,
   alarm_timer_id |-> alarm_timer_id, mcc_cache |-> mcc_cache,
   tz_list |-> country_tz_name_list, handler_installed |-> handler_installed,
   tzEnv |-> tzEnv, timers |-> timers, pendingReg |-> pendingReg,
   pendingInfo |-> pendingInfo, netEnv |-> netEnv, wall |-> wall,
   mono |-> mono, links |-> [link |-> link, save |-> link_save],
   conf |-> conf, restoring |-> restoring, reply |-> "none", signals |-> << >>]

Becomes(r) ==
  /\ running' = r.running
  /\ autosync' = r.autosync
  /\ time_format' = r.time_format
  /\ server_tz' = r.server_tz
  /\ saved_tz' = r.saved_tz
  /\ was_dst' = r.was_dst
  /\ net_time_changed_time' = r.net_time
  /\ net_time_last_changed_ticks' = r.net_ticks
  /\ alarm_timer_id' = r.alarm_timer_id
  /\ mcc_cache' = r.mcc_cache
  /\ country_tz_name_list' = r.tz_list
  /\ handler_installed' = r.handler_installed
  /\ tzEnv' = r.tzEnv
  /\ timers' = r.timers
  /\ pendingReg' = r.pendingReg
  /\ pendingInfo' = r.pendingInfo
  /\ netEnv' = r.netEnv
  /\ wall' = r.wall
  /\ mono' = r.mono
  /\ link' = r.links.link
  /\ link_save' = r.links.save
  /\ conf' = r.conf
  /\ restoring' = r.restoring
  /\ reply' = r.reply
  /\ signals' = r.signals

Replies(r, ok) == [r EXCEPT !.reply = IF ok THEN "ok" ELSE "failed"]

-----------------------------------------------------------------------------
(* The helper rclockd, as system() reports it *)

\* internal_set_time's result. set_time of rclockd reports failure when
\* settimeofday succeeds, and success when it is refused but the RTC accepts.
TimeStatus(w) ==
  CASE w.time = "rtc_only" -> 0
    [] w.time = "not_run" -> -1
    [] OTHER -> 256

InternalSetTime(r, t, w) ==
  IF w.time = "set" THEN [r EXCEPT !.wall = t] ELSE r

\* internal_set_tz = 0. set_tz of rclockd links /etc/localtime only to a path
\* that stat does not find.
TzHelperSucceeds(n, w) == n.zone \notin Installed /\ w.tz = "linked"

InternalSetTz(r, n, w) ==
  LET outcome == IF n.zone \in Installed THEN "refused" ELSE w.tz
  IN [r EXCEPT !.links = LinksAfter(outcome, n.zone, @, NoZone)]

-----------------------------------------------------------------------------
(* Functions of server.c that the handlers share *)

\* Wrong variant: a name that TZ cannot take leaves TZ alone.
SetEnvIfTaken(r, n) ==
  [r EXCEPT !.tzEnv = IF n.form = "/" THEN EnvTz(n) ELSE @]

\* internal_setenv_tz(n) and tzset.
SetEnv(r, n) == [r EXCEPT !.tzEnv = EnvTz(n)]

ClobberEnv(r) == [r EXCEPT !.tzEnv = RestoredTz(@)]

\* server_send_time_change_indication(t), both signals counted as one.
SendIndication(r, t) ==
  [r EXCEPT !.was_dst = DstAt(r.tzEnv, IF t = 0 THEN r.wall ELSE t),
            !.signals = Append(@, t)]

\* save_conf: the old file is unlinked first. A write error shows up in the
\* unchecked fclose only, so the result is failure just for "open_failed".
SaveSucceeds(w) == w.save # "open_failed"

Settings(r) ==
  [time_format |-> r.time_format, autosync |-> r.autosync,
   net_tz |-> IF r.server_tz.form = ":" THEN Empty ELSE r.server_tz,
   system_tz |-> r.links.link, restore_tz |-> NoZone]

\* Wrong variant: the old file stays when the new one cannot be opened.
SaveConfInPlace(r, w) ==
  [r EXCEPT !.conf = CASE w.save = "written" -> Settings(r)
                       [] w.save = "open_failed" -> @
                       [] OTHER -> Lost]

SaveConf(r, w) ==
  [r EXCEPT !.conf = IF w.save = "written" THEN Settings(r) ELSE Lost]

\* Wrong variant: the old alarm is never removed.
NextDstChangeKeeping(r, tick, keep) ==
  LET id == (r.alarm_timer_id + 1) % AlarmIds
  IN [r EXCEPT !.timers = @ \cup
                   {[id |-> id, due |-> r.mono + DstDelay(r.tzEnv, tick)]},
               !.alarm_timer_id = id]

\* next_dst_change(tick, keep_alarm_timer)
NextDstChange(r, tick, keep) ==
  LET others == IF keep THEN r.timers
                ELSE { x \in r.timers : x.id # r.alarm_timer_id }
      id == (r.alarm_timer_id + 1) % AlarmIds
  IN [r EXCEPT !.timers = others \cup
                   {[id |-> id, due |-> r.mono + DstDelay(r.tzEnv, tick)]},
               !.alarm_timer_id = id]

\* server_set_time(tick); its result is TimeStatus(w).
ServerSetTime(r, tick, w) ==
  NextDstChange(InternalSetTime(r, tick, w), tick, FALSE)

\* set_net_timezone(n) = 0
NetTimezoneSet(n, w) == n.zone \in Installed /\ TzHelperSucceeds(n, w)

\* set_net_timezone(n): the alarm is set in the environment of the caller.
SetNetTimezone(r, n, w) ==
  CASE n.zone \notin Installed -> r
    [] NetTimezoneSet(n, w) ->
         NextDstChange(InternalSetTz(r, n, w), r.wall, FALSE)
    [] OTHER -> InternalSetTz(r, n, w)

\* server_tz becomes the operator's zone, with what follows in both callers.
AdoptOperatorTz(r, w) ==
  LET n == Name("/", r.saved_tz.zone)
  IN SetEnv(SetNetTimezone([r EXCEPT !.server_tz = n], n, w), n)

\* The network's time by now.
NetTimeNow(r) == r.net_time + (r.mono - r.net_ticks)

\* set_network_time(save_config); its result is 0 if TimeStatus(w) is.
SetNetworkTime(r, saving, w) ==
  LET t == NetTimeNow(r)
      s == ServerSetTime(r, t, w)
      here == Tail1(s.server_tz)
      oper == Tail1(s.saved_tz)
      compared == IF s.saved_tz = Empty THEN s
                  ELSE [s EXCEPT !.tzEnv = EnvAfterCmp(@, here, oper)]
      moved == IF s.saved_tz # Empty /\ TzDiffer(here, oper)
               THEN AdoptOperatorTz(compared, w) ELSE compared
  IN CASE TimeStatus(w) # 0 -> s
       [] TimeStatus(w) = 0 /\ saving -> SendIndication(SaveConf(moved, w), t)
       [] OTHER -> moved

\* Wrong variant: nothing is broadcast.
SetOperatorTzSilently(r, zone, w) ==
  LET n == Name("/", zone)
      named == [r EXCEPT !.saved_tz = Name(":", zone), !.server_tz = n]
      saved == SaveConf(SetEnv(InternalSetTz(named, n, w), n), w)
  IN NextDstChange(saved, saved.wall, FALSE)

\* server_set_operator_tz_cb(zone)
SetOperatorTz(r, zone, w) ==
  LET n == Name("/", zone)
      named == [r EXCEPT !.saved_tz = Name(":", zone), !.server_tz = n]
      saved == SaveConf(SetEnv(InternalSetTz(named, n, w), n), w)
  IN SendIndication(NextDstChange(saved, saved.wall, FALSE), 0)

-----------------------------------------------------------------------------
(* handle_csd_net_time_change: its result rv and the state it leaves *)

\* The zone found for a decoded message d: the saved one when the network
\* sends none, the guess for the country, or else an Etc/GMT zone.
FoundTz(r, d) ==
  LET guess == GuessTz(r.tz_list, d.time, d.dst, d.tz) IN
  CASE d.tz = 100 -> r.saved_tz
    [] d.tz # 100 /\ guess # NoZone -> Name("bare", guess)
    [] OTHER -> Name(":", EtcZone[d.tz])

\* The corner case in which saved_server_opertime_tz is kept unchanged.
KeepsSavedTz(r, d, tz) ==
  \/ d.tz = 100
  \/ /\ \/ r.saved_tz # Empty /\ r.saved_tz.zone \notin EtcZones
        \/ tz.zone \in EtcZones
     /\ GmtOffset(r.tzEnv, d.time) = GmtOffset(EnvTz(tz), d.time)
     /\ InCountry(r.saved_tz, r.tz_list)

\* Wrong variant: the zone is stored as it was found, without a colon.
RememberZoneAsFound(r, d) ==
  LET tz == FoundTz(r, d)
  IN [r EXCEPT
        !.net_time = d.time, !.net_ticks = r.mono,
        !.saved_tz = IF KeepsSavedTz(r, d, tz) THEN @ ELSE tz,
        !.tzEnv = RestoredTz(@)]

\* Wrong variant: the ticks of the first message are kept for all.
RememberFirstTicks(r, d) ==
  LET tz == FoundTz(r, d)
  IN [r EXCEPT
        !.net_time = d.time, !.net_ticks = IF r.net_time = 0 THEN r.mono ELSE @,
        !.saved_tz = IF KeepsSavedTz(r, d, tz) THEN @ ELSE Name(":", tz.zone),
        !.tzEnv = RestoredTz(@)]

\* The time and the zone of the message are remembered, whatever autosync is.
RememberNetTime(r, d) ==
  LET tz == FoundTz(r, d)
  IN [r EXCEPT
        !.net_time = d.time, !.net_ticks = r.mono,
        !.saved_tz = IF KeepsSavedTz(r, d, tz) THEN @ ELSE Name(":", tz.zone),
        !.tzEnv = RestoredTz(@)]

HandleCsd(r, d, w) ==
  LET heard == RememberNetTime(ClobberEnv(r), d)
      time_changed == r.wall # d.time
      tz_changed == /\ heard.saved_tz # Empty
                    /\ \/ TzDiffer(heard.server_tz, heard.saved_tz)
                       \/ ~InCountry(heard.server_tz, heard.tz_list)
      timed == IF time_changed /\ r.autosync
               THEN ServerSetTime(heard, d.time, w) ELSE heard
      zoned == IF tz_changed /\ r.autosync
               THEN AdoptOperatorTz(timed, w) ELSE timed
      told == IF time_changed \/ tz_changed
              THEN SendIndication(zoned, IF time_changed THEN zoned.wall ELSE 0)
              ELSE zoned
      tzFails == /\ tz_changed /\ r.autosync
                 /\ ~NetTimezoneSet(Name("/", heard.saved_tz.zone), w)
  IN CASE ~d.ok -> [rv |-> -1, state |-> r]
       [] d.ok /\ d.time = -1 -> [rv |-> -1, state |-> ClobberEnv(r)]
       [] d.ok /\ d.time # -1 /\ time_changed /\ r.autosync
            /\ TimeStatus(w) = -1 -> [rv |-> -1, state |-> timed]
       [] OTHER -> [rv |-> IF tzFails THEN -1 ELSE 0,
                    state |-> SaveConf(told, w)]

-----------------------------------------------------------------------------
(* Functions of mcc_tz_utils.c *)

\* mcc_tz_set_tz_from_mcc: only when the country has one zone.
SetTzFromMcc(r, w) ==
  IF \E z \in r.tz_list : r.tz_list = {z}
  THEN SetOperatorTz(r, CHOOSE z \in r.tz_list : TRUE, w) ELSE r

\* Wrong variant: the zones of the last country stay in the list.
UpdateTzListWithoutDestroy(r, mcc, found) ==
  [r EXCEPT !.mcc_cache = mcc,
            !.tz_list = IF found THEN CountryZones(CityZones[mcc]) ELSE @]

\* mcc_tz_update_country_tz_name_list for the new code. The list is emptied
\* first, and stays so if the file of the codes cannot be opened or lacks this
\* one. Comparing two of the country's zones goes through the environment.
UpdateTzList(r, mcc, found) ==
  LET named == { CityZones[mcc][i] : i \in DOMAIN CityZones[mcc] }
      emptied == [r EXCEPT !.mcc_cache = mcc, !.tz_list = {}]
      listed == [emptied EXCEPT !.tz_list = CountryZones(CityZones[mcc])]
  IN CASE ~found -> emptied
       [] found /\ (\E a, b \in named : a # b) -> ClobberEnv(listed)
       [] OTHER -> listed

\* mcc_tz_handle_registration_status_reply: registered is status <= 2.
HandleRegistration(r, registered, mcc, found) ==
  LET listed == UpdateTzList(r, mcc, found)
  IN CASE ~registered -> [r EXCEPT !.mcc_cache = 0]
       [] registered /\ r.mcc_cache = mcc -> r
       [] OTHER -> IF r.autosync
                   THEN [listed EXCEPT !.pendingInfo = @ + 1] ELSE listed

\* mcc_tz_setup_timezone_from_mcc_if_required
SetupTzFromMcc(r, w) ==
  IF r.autosync
  THEN [r EXCEPT !.pendingReg = @ + 1,
                 !.handler_installed = @ \/ w.match]
  ELSE [r EXCEPT !.handler_installed = @ /\ ~w.match]

-----------------------------------------------------------------------------
(* Starting and stopping *)

\* The process' memory before main().
Boot(r) ==
  [r EXCEPT !.running = FALSE, !.autosync = FALSE, !.time_format = NoFormat,
            !.server_tz = Empty, !.saved_tz = Empty, !.was_dst = FALSE,
            !.net_time = 0, !.net_ticks = 0, !.alarm_timer_id = 0,
            !.mcc_cache = 0, !.tz_list = {}, !.handler_installed = FALSE,
            !.tzEnv = UTC, !.timers = {}, !.pendingReg = 0, !.pendingInfo = 0]

\* Wrong variant: the file overrides CLOCKD_NET_TIME=disabled.
ReadSettingsUnguarded(r) ==
  IF r.conf = Lost
  THEN [r EXCEPT !.autosync = (r.netEnv = "yes"), !.time_format = FormatEnv]
  ELSE [r EXCEPT !.autosync = r.conf.autosync, !.server_tz = r.conf.net_tz,
                 !.time_format = r.conf.time_format]

\* server_init_autosync, server_init_time_format and read_conf.
ReadSettings(r) ==
  LET env == [r EXCEPT !.autosync = (r.netEnv = "yes"),
                       !.time_format = FormatEnv]
  IN IF r.conf = Lost THEN env
     ELSE [env EXCEPT
             !.time_format = r.conf.time_format,
             !.autosync = IF r.netEnv = "disabled" THEN @ ELSE r.conf.autosync,
             !.server_tz = r.conf.net_tz]

\* The restore_tz line of the file: the zone is set and the file saved again.
RestoreTz(r, w) ==
  IF r.conf = Lost THEN r
  ELSE IF r.conf.restore_tz = NoZone THEN r
  ELSE SaveConf(InternalSetTz(r, Name(":", r.conf.restore_tz), w), w)

\* Without a zone of its own the server takes the one of /etc/localtime, and
\* asks for TZ=":/etc/localtime".
TakeTz(r) ==
  IF r.server_tz # Empty THEN SetEnv(r, r.server_tz)
  ELSE LET named == IF r.links.link = NoZone THEN Empty
                    ELSE Name(":", r.links.link)
       IN SetEnv([r EXCEPT !.server_tz = named], Name(":", UTC))

\* server_init, up to where it needs the bus.
Settle(r, w) ==
  LET s == TakeTz(RestoreTz(ReadSettings(r), w))
  IN [s EXCEPT !.was_dst = DstAt(s.tzEnv, s.wall)]

\* server_init: without the bus or the name the process ends.
Start ==
  /\ ~running
  /\ \E w \in Worlds, busUp \in BOOLEAN :
       LET s == Settle(Here, w) IN
       Becomes(IF busUp
               THEN SetupTzFromMcc([NextDstChange(s, s.wall, TRUE)
                                      EXCEPT !.running = TRUE], w)
               ELSE Boot(s))

\* The zones that a running handler may have asked the helper to link.
Asked == { n.zone : n \in { m \in UserTz : m.form = ":" } }
           \cup country_tz_name_list

\* A crash, a signal or the kill of a script: nothing is saved on the way out,
\* also when it comes while a handler waits for the helper, which does its work
\* all the same. (Any other interrupted handler equals one that fails at the
\* next system call, and a Stop.)
Stop ==
  /\ running
  /\ \/ Becomes([Boot(Here) EXCEPT !.restoring = FALSE])
     \/ \E z \in Asked, w \in Worlds :
          Becomes([Boot(InternalSetTz(Here, Name(":", z), w))
                     EXCEPT !.restoring = FALSE])

-----------------------------------------------------------------------------
(* Requests of clients *)

\* server_set_time_cb
SetTime(t) ==
  /\ running
  /\ \E w \in Worlds :
       LET s == ServerSetTime(Here, t, w) IN
       Becomes(IF TimeStatus(w) = 0
               THEN Replies(SendIndication(SaveConf(s, w), t), TRUE)
               ELSE Replies(s, FALSE))

\* server_set_tz_cb: the file is saved whether or not the name is accepted.
SetTz(n) ==
  /\ running
  /\ \E w \in Worlds :
       LET colon == n # Empty /\ n.form = ":"
           accepted == IF colon THEN TzHelperSucceeds(n, w)
                       ELSE CheckTimezone(n)
           linked == IF colon THEN InternalSetTz(Here, n, w) ELSE Here
           taken == SetEnv([linked EXCEPT !.server_tz = n], n)
           alarmed == NextDstChange(SaveConf(taken, w), taken.wall, FALSE)
       IN Becomes(IF accepted THEN Replies(SendIndication(alarmed, 0), TRUE)
                  ELSE Replies(SaveConf(linked, w), FALSE))

\* server_set_autosync_cb
SetAutosync(enabled) ==
  /\ running
  /\ enabled => pendingReg < MaxPending
  /\ \E w \in Worlds :
       LET switched == [Here EXCEPT !.autosync = enabled]
           timed == IF enabled /\ net_time_changed_time # 0
                    THEN SetNetworkTime(switched, FALSE, w) ELSE switched
           saved == SaveConf(SetupTzFromMcc(timed, w), w)
       IN Becomes(CASE enabled /\ netEnv = "disabled" -> Replies(Here, FALSE)
                    [] ~(enabled /\ netEnv = "disabled") /\ SaveSucceeds(w) ->
                         Replies(SendIndication(saved, 0), TRUE)
                    [] OTHER -> Replies(saved, FALSE))

\* server_set_time_format_cb
SetTimeFormat(f) ==
  /\ running
  /\ \E w \in Worlds :
       LET saved == SaveConf([Here EXCEPT !.time_format = f], w) IN
       Becomes(CASE f = NoFormat -> Replies(Here, FALSE)
                 [] f # NoFormat /\ SaveSucceeds(w) ->
                      Replies(SendIndication(saved, 0), TRUE)
                 [] OTHER -> Replies(saved, FALSE))

\* server_activate_net_time_cb
ActivateNetTime ==
  /\ running
  /\ \E w \in Worlds :
       Becomes(IF net_time_changed_time = 0 THEN Replies(Here, FALSE)
               ELSE Replies(SetNetworkTime(Here, TRUE, w), TimeStatus(w) = 0))

-----------------------------------------------------------------------------
(* The network daemon *)

\* The network_timeinfo_change signal.
NetTimeSignal(m) ==
  /\ running
  /\ \E w \in Worlds, d \in Decode(m, wall) :
       Becomes(HandleCsd(Here, d, w).state)

\* The registration_status_change signal. It may have been queued before its
\* match was removed; server_filter does not look.
RegistrationSignal(registered, mcc) ==
  /\ running
  /\ autosync => pendingInfo < MaxPending
  /\ \E found \in BOOLEAN :
       Becomes(HandleRegistration(Here, registered, mcc, found))

\* The reply to get_registration_status. Autosync may have changed since.
RegistrationReply(registered, mcc) ==
  /\ running /\ pendingReg > 0
  /\ autosync => pendingInfo < MaxPending
  /\ \E found \in BOOLEAN :
       Becomes(HandleRegistration([Here EXCEPT !.pendingReg = @ - 1],
                                  registered, mcc, found))

\* Wrong variant: autosync is not looked at again when the reply comes.
TimeInfoReplyUnchecked(m) ==
  /\ running /\ pendingInfo > 0
  /\ \E w \in Worlds, d \in Decode(m, wall) :
       LET got == [Here EXCEPT !.pendingInfo = @ - 1]
           csd == HandleCsd(got, d, w)
       IN Becomes(IF csd.rv = -1 THEN SetTzFromMcc(csd.state, w) ELSE csd.state)

\* The reply to get_network_time_info: if it does not settle the time and the
\* zone, the zone of the country is taken. w and u are the worlds of the two.
TimeInfoReply(m) ==
  /\ running /\ pendingInfo > 0
  /\ \E w, u \in Worlds, d \in Decode(m, wall) :
       LET got == [Here EXCEPT !.pendingInfo = @ - 1]
           csd == HandleCsd(got, d, w)
       IN /\ u.time = w.time /\ u.match = w.match
          /\ Becomes(CASE ~autosync -> got
                       [] autosync /\ csd.rv = -1 -> SetTzFromMcc(csd.state, u)
                       [] OTHER -> csd.state)

\* An error or a timeout in place of a reply is logged and dropped.
ReplyLost ==
  /\ running
  /\ \/ /\ pendingReg > 0
        /\ Becomes([Here EXCEPT !.pendingReg = @ - 1])
     \/ /\ pendingInfo > 0
        /\ Becomes([Here EXCEPT !.pendingInfo = @ - 1])

\* MCE's mode change signal makes the server forget the network's time.
ModeChange ==
  /\ running
  /\ net_time_changed_time # 0
  /\ Becomes([Here EXCEPT !.net_time = 0])

-----------------------------------------------------------------------------
(* Time *)

\* handle_alarm, on a timer that is due.
HandleAlarm ==
  /\ running
  /\ \E x \in timers :
       /\ x.due <= mono
       /\ LET told == IF was_dst # DstAt(tzEnv, wall)
                      THEN SendIndication(Here, wall) ELSE Here
              next == NextDstChange(told, wall, FALSE)
          IN Becomes([next EXCEPT !.timers = @ \ {x}])

\* A second passes, for the process or without it.
Tick ==
  /\ mono < MaxMono /\ wall < MaxTime
  /\ Becomes([Here EXCEPT !.mono = @ + 1, !.wall = @ + 1])

-----------------------------------------------------------------------------
(* Scripts *)

\* clockd_restart.sh after a backup is restored: the zone of the restored file
\* is asked for with a restore_tz line, and clockd is about to be killed.
RestoreBackup(c) ==
  Becomes([Here EXCEPT !.conf = [c EXCEPT !.restore_tz = c.system_tz],
                       !.restoring = running])

\* clockd-rfs.sh: the file is removed and clockd is about to be killed.
FactoryReset ==
  Becomes([Here EXCEPT !.conf = Lost, !.restoring = running])

-----------------------------------------------------------------------------
(* The specification *)

Init ==
  /\ running = FALSE /\ autosync = FALSE /\ time_format = NoFormat
  /\ server_tz = Empty /\ saved_tz = Empty /\ was_dst = FALSE
  /\ net_time_changed_time = 0 /\ net_time_last_changed_ticks = 0
  /\ alarm_timer_id = 0 /\ mcc_cache = 0 /\ country_tz_name_list = {}
  /\ handler_installed = FALSE /\ tzEnv = UTC /\ timers = {}
  /\ pendingReg = 0 /\ pendingInfo = 0
  /\ netEnv \in NetEnvs
  /\ wall \in Times /\ mono = 0
  /\ link \in Links /\ link_save = NoZone
  /\ conf \in Confs \cup {Lost}
  /\ restoring = FALSE
  /\ reply = "none" /\ signals = << >>

Client ==
  \/ \E t \in Times : SetTime(t)
  \/ \E n \in UserTz : SetTz(n)
  \/ \E enabled \in BOOLEAN : SetAutosync(enabled)
  \/ \E f \in Formats \cup {NoFormat} : SetTimeFormat(f)
  \/ ActivateNetTime

Network ==
  \/ \E m \in NetMsgs : NetTimeSignal(m)
  \/ \E m \in NetMsgs : TimeInfoReply(m)
  \/ \E registered \in BOOLEAN, mcc \in Mccs :
       RegistrationSignal(registered, mcc)
  \/ \E registered \in BOOLEAN, mcc \in Mccs :
       RegistrationReply(registered, mcc)
  \/ ReplyLost
  \/ ModeChange

Script ==
  \/ \E c \in Confs : RestoreBackup(c)
  \/ FactoryReset

Next == Start \/ Stop \/ Client \/ Network \/ HandleAlarm \/ Tick \/ Script

Spec == Init /\ [][Next]_vars
-----------------------------------------------------------------------------
(* Invariants *)

Timers == [id : 0..(AlarmIds - 1), due : Nat]

\* Every variable has its type.  A zone the network chose is kept with a
\* colon, and what the daemon sends is 0 or a time.
TypeOK ==
  /\ {running, autosync, was_dst, handler_installed, restoring} \subseteq BOOLEAN
  /\ time_format \in Formats \cup {NoFormat}
  /\ server_tz \in Names
  /\ saved_tz = Empty \/ \E z \in Zones : saved_tz = Name(":", z)
  /\ {net_time_changed_time, net_time_last_changed_ticks} \subseteq Nat
  /\ alarm_timer_id \in 0..(AlarmIds - 1)
  /\ mcc_cache \in Nat
  /\ country_tz_name_list \subseteq Zones
  /\ tzEnv \in Installed
  /\ timers \subseteq Timers
  /\ {pendingReg, pendingInfo} \subseteq Nat
  /\ netEnv \in NetEnvs
  /\ {wall, mono} \subseteq Nat
  /\ {link, link_save} \subseteq Zones \cup {NoZone}
  /\ conf \in AllConfs \cup {Lost}
  /\ reply \in {"none", "ok", "failed"}
  /\ signals \in Seq(Nat)

\* CLOCKD_NET_TIME=disabled keeps autosync off, whatever clients ask for and
\* whatever a file left by another boot or brought by a backup says
\* (server_init_autosync, read_conf, server_set_autosync_cb).
DisabledStaysOff == netEnv = "disabled" => ~autosync

\* A crash at any moment loses no setting: unless the file was lost or a
\* script has replaced it, a restart reads the settings the daemon now has.
\* The file never names a ":" zone, so that zone has to be the one that
\* /etc/localtime points to (save_conf against read_conf and server_init),
\* unless a helper has lost it or put the link back that was saved; and a
\* server without a zone may find one there that a helper has brought back.
RestartKeepsSettings ==
  running /\ ~restoring /\ conf # Lost =>
    LET again == TakeTz(ReadSettings(Boot(Here)))
    IN /\ again.autosync = autosync
       /\ again.time_format = time_format
       /\ \/ again.server_tz = server_tz
          \/ server_tz.form = ":" /\ NoZone \in {link, link_save}
          \/ server_tz = Empty /\ link # NoZone

\* There is always exactly one alarm, the one the server knows, and it is due
\* within two weeks: no DST change goes unnoticed for longer, and alarms do
\* not pile up however handlers reset them (next_dst_change, handle_alarm).
SingleAlarm ==
  IF running
  THEN \E x \in timers : /\ timers = {x} /\ x.id = alarm_timer_id
                         /\ x.due <= mono + Window
  ELSE timers = {}

\* The process-wide TZ, which every handler sets and several borrow, is never
\* left at a zone other than the server's own or UTC.
EnvNeverForeign == running => tzEnv \in {UTC, EnvTz(server_tz)}

\* While a country code is cached the zone list is that country's, or empty
\* because its look-up has failed, and never the last country's: a code that is
\* reported again is ignored, so a stale list would stay
\* (mcc_tz_handle_registration_status_reply).
CountryListFresh ==
  mcc_cache # 0 =>
    country_tz_name_list \in {{}, CountryZones(CityZones[mcc_cache])}

-----------------------------------------------------------------------------
(* What a step may never do *)

\* With autosync off a running daemon moves the clock and the zone only when a
\* client asks: no signal of the network does, and no reply to a call made
\* before autosync was turned off. (Time passes besides.)
AutosyncOffIsPassive ==
  [][/\ running /\ running' /\ ~autosync
     /\ <<wall, link, server_tz>>' # <<wall, link, server_tz>>
     => Client \/ Tick]_vars

\* The server's zone changes under a running daemon only with a broadcast,
\* unless the file could not be written.
TzChangeAnnounced ==
  [][running /\ running' /\ server_tz' # server_tz =>
       signals' # << >> \/ conf' = Lost]_vars

\* Some second before the alarm is due has another DST flag than now.
SleepsOverChange ==
  \E x \in timers : \E k \in 1..(x.due - mono - 1) :
    DstAt(tzEnv, wall + k) # DstAt(tzEnv, wall)

\* The alarm never sleeps over a DST change of the zone it was set for: after
\* an alarm, or a client's new zone, it is due no later than the next change.
AlarmFollowsZone ==
  [][SleepsOverChange' /\ reply' # "failed" =>
       ~HandleAlarm /\ \A n \in UserTz : ~SetTz(n)]_vars

-----------------------------------------------------------------------------
(* The network's time, as promised *)

NetClock == INSTANCE NetworkTime WITH
  Requests <- Times,
  Stamps <- { m.time : m \in NetMsgs } \ {-1},
  offset <- IF net_time_changed_time = 0 THEN {}
            ELSE {net_time_changed_time - net_time_last_changed_ticks}

\* The clock jumps only where a client asks, or to the network's time as it
\* has run on since the message was heard, however long ago that was
\* (handle_csd_net_time_change, set_network_time, server_filter's MCE case).
KeepsNetworkTime == NetClock!Spec

-----------------------------------------------------------------------------
(* What the documentation says *)

\* libtime.h: time_set_time returns "0 if OK, -1 if fails", so a request to
\* move the clock succeeds exactly when the clock has moved.
SetTimeReplyTruthful ==
  [][\A t \in Times :
       wall # t /\ (reply' = "ok") # (wall' = t) => ~SetTime(t)]_vars

\* libtime.h: a time_changed argument of 0 "means that time itself has not
\* been changed".
ZeroMeansTimeUnchanged ==
  [][\A i \in DOMAIN signals' : signals'[i] = 0 => wall' = wall]_vars

\* libtime.h: the indication is broadcast when the "automatic network time
\* setting is changed".
AutosyncChangeAnnounced ==
  [][running /\ running' /\ autosync' # autosync => signals' # << >>]_vars

\* libtime.h: the recommended form of a zone is ":Europe/Rome", so with no
\* system call failing an installed zone in that form is accepted.
RecommendedTzAccepted ==
  [][\A n \in UserTz :
       n.form = ":" /\ n.zone \in Installed /\ reply' # "ok" => ~SetTz(n)]_vars
=============================================================================
