------------------------- MODULE ClockServerProofs -------------------------
(***************************************************************************)
(* The invariants of ClockServer, for every set of zones, messages, codes  *)
(* and bounds.  A handler is a composition of operators on the record of   *)
(* the state, and so is the proof: one predicate Good on the record holds  *)
(* between any two calls, there is one lemma per C function which says     *)
(* that it keeps Good, and one step per handler that puts them together.   *)
(***************************************************************************)
EXTENDS ClockServer, TzNamesProofs

SavedNames == {Empty} \cup { Name(":", z) : z \in Zones }

LinkPairs == [link : Zones \cup {NoZone}, save : Zones \cup {NoZone}]

\* The type of the record of the state.
States ==
  [running : BOOLEAN, autosync : BOOLEAN,
   time_format : Formats \cup {NoFormat}, server_tz : Names,
   saved_tz : SavedNames, was_dst : BOOLEAN, net_time : Nat, net_ticks : Nat,
   alarm_timer_id : 0..(AlarmIds - 1), mcc_cache : Nat, tz_list : SUBSET Zones,
   handler_installed : BOOLEAN, tzEnv : Installed, timers : SUBSET Timers,
   pendingReg : Nat, pendingInfo : Nat, netEnv : NetEnvs, wall : Nat \ {0},
   mono : Nat, links : LinkPairs, conf : AllConfs \cup {Lost},
   restoring : BOOLEAN, reply : {"none", "ok", "failed"}, signals : Seq(Nat)]

\* The server's one alarm.
HasAlarm(r) ==
  \E x \in r.timers : /\ r.timers = {x} /\ x.id = r.alarm_timer_id
                      /\ x.due <= r.mono + Window

\* What holds whether or not the alarm is set: the types, and that
\*   - the network's time was heard in the past, so it only runs forward;
\*   - CLOCKD_NET_TIME=disabled keeps autosync off;
\*   - the zone list belongs to the code that is cached, or is empty.
Sound(r) ==
  /\ r \in States
  /\ r.net_ticks <= r.mono
  /\ r.netEnv = "disabled" => ~r.autosync
  /\ r.mcc_cache # 0 => /\ r.mcc_cache \in Mccs
                        /\ r.tz_list \in {{}, CountryZones(CityZones[r.mcc_cache])}

\* What holds between any two calls of a handler.
Good(r) == Sound(r) /\ HasAlarm(r) /\ r.running

\* The constants, as the proofs use them.
LEMMA Constants ==
  /\ UTC \in Installed /\ Installed \subseteq Zones /\ NoZone \notin Zones
  /\ Window \in Nat \ {0}
  /\ AlarmIds \in Nat /\ AlarmIds > 1
BY ZonesAssumption, OffsetAssumption, BoundAssumption

\* Names, and the names that saved_server_opertime_tz may hold.
LEMMA NameTypes ==
  /\ Empty \in Names
  /\ \A f \in Spellings, z \in Zones : Name(f, z) \in Names /\ Name(f, z).zone = z
  /\ \A z \in Zones : Name(":", z) \in SavedNames
  /\ \A n \in Names : n # Empty => n.zone \in Zones
  /\ \A n \in SavedNames : n # Empty => n.zone \in Zones
<1>1. Empty \in Names
  BY DEF Names
<1>2. ASSUME NEW f \in Spellings, NEW z \in Zones
      PROVE  Name(f, z) \in Names /\ Name(f, z).zone = z
  BY DEF Names, Name
<1>3. ASSUME NEW z \in Zones PROVE Name(":", z) \in SavedNames
  BY DEF SavedNames
<1>4. ASSUME NEW n \in Names, n # Empty PROVE n.zone \in Zones
  BY <1>4 DEF Names
<1>5. ASSUME NEW n \in SavedNames, n # Empty PROVE n.zone \in Zones
  BY <1>5 DEF SavedNames, Name
<1> QED
  BY <1>1, <1>2, <1>3, <1>4, <1>5

\* The fields that Sound and HasAlarm speak of are the same in r and s, and so
\* are the two that the handlers read after a call.
Agree(r, s) ==
  /\ s.net_ticks = r.net_ticks /\ s.mono = r.mono
  /\ s.netEnv = r.netEnv /\ s.autosync = r.autosync
  /\ s.mcc_cache = r.mcc_cache /\ s.tz_list = r.tz_list
  /\ s.running = r.running
  /\ s.timers = r.timers /\ s.alarm_timer_id = r.alarm_timer_id
  /\ s.saved_tz = r.saved_tz

LEMMA AgreeGood ==
  ASSUME NEW r, NEW s \in States, Agree(r, s)
  PROVE  /\ Sound(r) => Sound(s)
         /\ HasAlarm(r) => HasAlarm(s)
         /\ Good(r) => Good(s)
<1>1. Sound(r) => Sound(s)
  BY DEF Agree, Sound
<1>2. HasAlarm(r) => HasAlarm(s)
  BY DEF Agree, HasAlarm
<1> QED
  BY <1>1, <1>2 DEF Agree, Good

-----------------------------------------------------------------------------
(* Functions that keep what the invariant speaks of *)

\* internal_setenv_tz changes TZ only.
LEMMA SetEnvAgrees ==
  ASSUME NEW r \in States, NEW n
  PROVE  SetEnv(r, n) \in States /\ Agree(r, SetEnv(r, n))
<1>1. EnvTz(n) \in Installed
  BY EnvTzInstalled
<1>2. SetEnv(r, n) \in States
  BY <1>1 DEF SetEnv, States
<1> QED
  BY <1>2 DEF SetEnv, States, Agree

\* internal_tz_set and internal_tz_res leave TZ at UTC.
LEMMA ClobberEnvAgrees ==
  ASSUME NEW r \in States
  PROVE  /\ ClobberEnv(r) \in States /\ Agree(r, ClobberEnv(r))
         /\ ClobberEnv(r).wall = r.wall
<1>1. RestoredTz(r.tzEnv) \in Installed
  BY EnvTzInstalled DEF RestoredTz
<1>2. ClobberEnv(r) \in States
  BY <1>1 DEF ClobberEnv, States
<1> QED
  BY <1>2 DEF ClobberEnv, States, Agree

\* rclockd moves the system clock, or does not.
LEMMA InternalSetTimeAgrees ==
  ASSUME NEW r \in States, NEW t \in Nat \ {0}, NEW w
  PROVE  /\ InternalSetTime(r, t, w) \in States
         /\ Agree(r, InternalSetTime(r, t, w))
<1>1. CASE w.time = "set"
  BY <1>1 DEF InternalSetTime, States, Agree
<1>2. CASE w.time # "set"
  BY <1>2 DEF InternalSetTime, Agree
<1> QED
  BY <1>1, <1>2

\* rclockd moves the two links, or does not.
LEMMA InternalSetTzAgrees ==
  ASSUME NEW r \in States, NEW n, n.zone \in Zones, NEW w
  PROVE  /\ InternalSetTz(r, n, w) \in States
         /\ Agree(r, InternalSetTz(r, n, w))
         /\ InternalSetTz(r, n, w).wall = r.wall
<1> DEFINE outcome == IF n.zone \in Installed THEN "refused" ELSE w.tz
           l == LinksAfter(outcome, n.zone, r.links, NoZone)
<1>1. r.links \in LinkPairs
  BY DEF States
<1>2. l \in LinkPairs
  BY <1>1 DEF LinksAfter, SetAside, LinkPairs
<1>3. InternalSetTz(r, n, w) = [r EXCEPT !.links = l]
  BY DEF InternalSetTz
<1> HIDE DEF l
<1> QED
  BY <1>2, <1>3 DEF States, Agree

\* The file is written with the settings, or lost.
LEMMA SaveConfAgrees ==
  ASSUME NEW r \in States, NEW w
  PROVE  /\ SaveConf(r, w) \in States /\ Agree(r, SaveConf(r, w))
         /\ SaveConf(r, w).wall = r.wall
<1>1. Settings(r) \in AllConfs
  BY NameTypes DEF Settings, AllConfs, States, LinkPairs
<1>2. SaveConf(r, w) \in States
  BY <1>1 DEF SaveConf, States
<1> QED
  BY <1>2 DEF SaveConf, States, Agree

\* A broadcast notes the DST flag and is counted.
LEMMA SendIndicationAgrees ==
  ASSUME NEW r \in States, NEW t \in Nat
  PROVE  /\ SendIndication(r, t) \in States /\ Agree(r, SendIndication(r, t))
<1>1. DstAt(r.tzEnv, IF t = 0 THEN r.wall ELSE t) \in BOOLEAN
  BY DEF DstAt
<1>2. Append(r.signals, t) \in Seq(Nat)
  BY DEF States
<1>3. SendIndication(r, t) \in States
  BY <1>1, <1>2 DEF SendIndication, States
<1> QED
  BY <1>3 DEF SendIndication, States, Agree

\* A reply is noted.
LEMMA RepliesAgrees ==
  ASSUME NEW r \in States, NEW ok
  PROVE  Replies(r, ok) \in States /\ Agree(r, Replies(r, ok))
BY DEF Replies, States, Agree

-----------------------------------------------------------------------------
(* The alarm *)

\* The alarm that next_dst_change sets is new, and due within two weeks.
NewId(r) == (r.alarm_timer_id + 1) % AlarmIds
NewAlarm(r, tick) == [id |-> NewId(r), due |-> r.mono + DstDelay(r.tzEnv, tick)]

LEMMA NewAlarmType ==
  ASSUME NEW r \in States, NEW tick \in Nat
  PROVE  /\ NewId(r) \in 0..(AlarmIds - 1) /\ NewId(r) # r.alarm_timer_id
         /\ NewAlarm(r, tick) \in Timers /\ NewAlarm(r, tick).id = NewId(r)
         /\ NewAlarm(r, tick).due <= r.mono + Window
<1>1. r.tzEnv \in Zones /\ r.mono \in Nat /\ r.alarm_timer_id \in 0..(AlarmIds - 1)
  BY Constants DEF States
<1>2. DstDelay(r.tzEnv, tick) \in 1..Window
  BY <1>1, DstDelayBounds
<1>3. NewId(r) \in 0..(AlarmIds - 1) /\ NewId(r) # r.alarm_timer_id
  BY <1>1, Constants DEF NewId
<1>4. r.mono + DstDelay(r.tzEnv, tick) \in Nat
  BY <1>1, <1>2
<1>5. r.mono + DstDelay(r.tzEnv, tick) <= r.mono + Window
  BY <1>1, <1>2, Constants
<1> QED
  BY <1>3, <1>4, <1>5 DEF NewAlarm, Timers

\* next_dst_change leaves exactly one alarm, if it starts from none that is to
\* be kept and none that it does not know.
LEMMA NextDstChangeSound ==
  ASSUME NEW r \in States, Sound(r), NEW tick \in Nat, NEW keep \in BOOLEAN,
         \A x \in r.timers : ~keep /\ x.id = r.alarm_timer_id
  PROVE  LET s == NextDstChange(r, tick, keep) IN
         /\ Sound(s) /\ HasAlarm(s) /\ s.running = r.running
         /\ s.wall = r.wall /\ s.saved_tz = r.saved_tz
         /\ s.alarm_timer_id # r.alarm_timer_id /\ s.autosync = r.autosync
<1> DEFINE s == NextDstChange(r, tick, keep)
           left == IF keep THEN r.timers
                   ELSE { y \in r.timers : y.id # r.alarm_timer_id }
<1>1. left = {}
  OBVIOUS
<1>2. s = [r EXCEPT !.timers = left \cup {NewAlarm(r, tick)},
                    !.alarm_timer_id = NewId(r)]
  BY DEF NextDstChange, NewAlarm, NewId
<1> HIDE DEF left, s
<1>3. left \cup {NewAlarm(r, tick)} = {NewAlarm(r, tick)}
  BY <1>1
<1>4. s = [r EXCEPT !.timers = {NewAlarm(r, tick)}, !.alarm_timer_id = NewId(r)]
  BY <1>2, <1>3
<1>5. s \in States
  <2>1. {NewAlarm(r, tick)} \in SUBSET Timers /\ NewId(r) \in 0..(AlarmIds - 1)
    BY NewAlarmType
  <2> DEFINE armed == [r EXCEPT !.timers = {NewAlarm(r, tick)}]
  <2>2. armed \in States
    BY <2>1 DEF States
  <2>3. s = [armed EXCEPT !.alarm_timer_id = NewId(r)]
    BY <1>4
  <2> HIDE DEF armed
  <2> QED
    BY <2>1, <2>2, <2>3 DEF States
<1>6. /\ s.timers = {NewAlarm(r, tick)} /\ s.alarm_timer_id = NewId(r)
      /\ s.mono = r.mono
      /\ s.net_ticks = r.net_ticks /\ s.netEnv = r.netEnv
      /\ s.autosync = r.autosync /\ s.mcc_cache = r.mcc_cache
      /\ s.tz_list = r.tz_list /\ s.running = r.running
      /\ s.wall = r.wall /\ s.saved_tz = r.saved_tz
  BY <1>4 DEF States
<1>7. Sound(s)
  BY <1>5, <1>6 DEF Sound
<1>8. HasAlarm(s)
  BY <1>6, NewAlarmType DEF HasAlarm
<1> QED
  BY <1>6, <1>7, <1>8, NewAlarmType DEF s

\* Resetting the alarm of a running server.
LEMMA NextDstChangeGood ==
  ASSUME NEW r, Good(r), NEW tick \in Nat
  PROVE  LET s == NextDstChange(r, tick, FALSE) IN
         /\ Good(s) /\ s.wall = r.wall /\ s.saved_tz = r.saved_tz
         /\ s.alarm_timer_id # r.alarm_timer_id /\ s.autosync = r.autosync
<1>1. \A x \in r.timers : ~FALSE /\ x.id = r.alarm_timer_id
  BY DEF Good, HasAlarm
<1>2. r \in States /\ Sound(r) /\ r.running
  BY DEF Good, Sound
<1> QED
  BY <1>1, <1>2, NextDstChangeSound DEF Good

\* server_set_time keeps the invariant whether or not the clock was moved.
LEMMA ServerSetTimeGood ==
  ASSUME NEW r, Good(r), NEW tick \in Nat \ {0}, NEW w
  PROVE  LET s == ServerSetTime(r, tick, w) IN
         Good(s) /\ s.saved_tz = r.saved_tz /\ s.autosync = r.autosync
<1> DEFINE moved == InternalSetTime(r, tick, w)
<1>1. r \in States
  BY DEF Good, Sound
<1>2. moved \in States /\ Agree(r, moved)
  BY <1>1, InternalSetTimeAgrees
<1>3. Good(moved) /\ moved.saved_tz = r.saved_tz /\ moved.autosync = r.autosync
  BY <1>2, AgreeGood DEF Agree
<1> HIDE DEF moved
<1>4. LET s == NextDstChange(moved, tick, FALSE) IN
      Good(s) /\ s.saved_tz = moved.saved_tz /\ s.autosync = moved.autosync
  BY <1>3, NextDstChangeGood
<1> QED
  BY <1>3, <1>4 DEF ServerSetTime, moved

\* A state of a running server has a time of its own.
LEMMA GoodStates ==
  ASSUME NEW r, Good(r)
  PROVE  /\ r \in States /\ Sound(r) /\ r.wall \in Nat \ {0}
         /\ r.saved_tz \in SavedNames
BY DEF Good, Sound, States

\* set_net_timezone, in its three outcomes.
LEMMA SetNetTimezoneGood ==
  ASSUME NEW r, Good(r), NEW n, n.zone \in Zones, NEW w
  PROVE  Good(SetNetTimezone(r, n, w))
<1> DEFINE linked == InternalSetTz(r, n, w)
<1>1. r \in States /\ r.wall \in Nat
  BY GoodStates
<1>2. linked \in States /\ Agree(r, linked)
  BY <1>1, InternalSetTzAgrees
<1>3. Good(linked)
  BY <1>2, AgreeGood
<1> HIDE DEF linked
<1>4. Good(NextDstChange(linked, r.wall, FALSE))
  BY <1>1, <1>3, NextDstChangeGood
<1>5. SetNetTimezone(r, n, w)
        \in {r, linked, NextDstChange(linked, r.wall, FALSE)}
  BY DEF SetNetTimezone, linked
<1> QED
  BY <1>3, <1>4, <1>5

\* The operator's zone is adopted.
LEMMA AdoptOperatorTzGood ==
  ASSUME NEW r, Good(r), r.saved_tz # Empty, NEW w
  PROVE  Good(AdoptOperatorTz(r, w))
<1> DEFINE n == Name("/", r.saved_tz.zone)
           named == [r EXCEPT !.server_tz = n]
           zoned == SetNetTimezone(named, n, w)
<1>1. r \in States /\ r.saved_tz.zone \in Zones
  BY GoodStates, NameTypes
<1>2. n \in Names /\ n.zone \in Zones
  BY <1>1, NameTypes DEF Spellings
<1> HIDE DEF n
<1>3. named \in States
  BY <1>1, <1>2 DEF States
<1>4. Agree(r, named)
  BY <1>1 DEF States, Agree
<1>5. Good(named)
  BY <1>3, <1>4, AgreeGood
<1> HIDE DEF named
<1>6. Good(zoned)
  BY <1>2, <1>5, SetNetTimezoneGood
<1> HIDE DEF zoned
<1>7. Good(SetEnv(zoned, n))
  BY <1>6, GoodStates, SetEnvAgrees, AgreeGood
<1> QED
  BY <1>7 DEF AdoptOperatorTz, zoned, named, n

\* The calls that neither set the alarm nor move the clock, in any order.
LEMMA CallsGood ==
  ASSUME NEW r, Good(r)
  PROVE  /\ \A n : /\ Good(SetEnv(r, n)) /\ SetEnv(r, n).saved_tz = r.saved_tz
         /\ \A w : Good(SaveConf(r, w)) /\ SaveConf(r, w).wall = r.wall
         /\ \A t \in Nat : Good(SendIndication(r, t))
         /\ \A ok : Good(Replies(r, ok))
         /\ Good(ClobberEnv(r)) /\ ClobberEnv(r).saved_tz = r.saved_tz
         /\ ClobberEnv(r).autosync = r.autosync
<1>0. r \in States
  BY GoodStates
<1>1. \A n : /\ Good(SetEnv(r, n)) /\ SetEnv(r, n).saved_tz = r.saved_tz
  BY <1>0, SetEnvAgrees, AgreeGood DEF Agree
<1>2. \A w : Good(SaveConf(r, w)) /\ SaveConf(r, w).wall = r.wall
  BY <1>0, SaveConfAgrees, AgreeGood
<1>3. \A t \in Nat : Good(SendIndication(r, t))
  BY <1>0, SendIndicationAgrees, AgreeGood
<1>4. \A ok : Good(Replies(r, ok))
  BY <1>0, RepliesAgrees, AgreeGood
<1>5. /\ Good(ClobberEnv(r)) /\ ClobberEnv(r).saved_tz = r.saved_tz
      /\ ClobberEnv(r).autosync = r.autosync
  BY <1>0, ClobberEnvAgrees, AgreeGood DEF Agree
<1> QED
  BY <1>1, <1>2, <1>3, <1>4, <1>5

\* Network time that was heard only runs forward.
LEMMA NetTimeNowType ==
  ASSUME NEW r, Good(r), r.net_time # 0
  PROVE  NetTimeNow(r) \in Nat \ {0}
<1>1. /\ r.net_time \in Nat /\ r.net_ticks \in Nat /\ r.mono \in Nat
      /\ r.net_ticks <= r.mono
  BY DEF Good, Sound, States
<1> QED
  BY <1>1 DEF NetTimeNow

\* set_network_time, once a network time is known.
LEMMA SetNetworkTimeGood ==
  ASSUME NEW r, Good(r), r.net_time # 0, NEW saving \in BOOLEAN, NEW w
  PROVE  Good(SetNetworkTime(r, saving, w))
<1> DEFINE t == NetTimeNow(r)
           s == ServerSetTime(r, t, w)
           here == Tail1(s.server_tz)
           oper == Tail1(s.saved_tz)
           clobbered == [s EXCEPT !.tzEnv = EnvAfterCmp(@, here, oper)]
           compared == IF s.saved_tz = Empty THEN s ELSE clobbered
           moved == IF s.saved_tz # Empty /\ TzDiffer(here, oper)
                    THEN AdoptOperatorTz(compared, w) ELSE compared
<1>1. t \in Nat \ {0}
  BY NetTimeNowType
<1> HIDE DEF t
<1>2. Good(s)
  BY <1>1, ServerSetTimeGood
<1> HIDE DEF s
<1>3. s \in States
  BY <1>2, GoodStates
<1>4. EnvAfterCmp(s.tzEnv, here, oper) \in Installed
  BY <1>3, EnvAfterCmpInstalled DEF States
<1> HIDE DEF here, oper
<1>5. clobbered \in States
  BY <1>3, <1>4 DEF States
<1>6. Agree(s, clobbered)
  BY <1>3 DEF States, Agree
<1>7. Good(clobbered) /\ clobbered.saved_tz = s.saved_tz
  BY <1>2, <1>5, <1>6, AgreeGood DEF Agree
<1> HIDE DEF clobbered
<1>8. Good(compared) /\ compared.saved_tz = s.saved_tz
  BY <1>2, <1>7
<1> HIDE DEF compared
<1>9. Good(moved)
  BY <1>8, AdoptOperatorTzGood
<1> HIDE DEF moved
<1>10. Good(SendIndication(SaveConf(moved, w), t))
  BY <1>1, <1>9, CallsGood
<1>11. SetNetworkTime(r, saving, w)
         \in {s, moved, SendIndication(SaveConf(moved, w), t)}
  BY DEF SetNetworkTime, moved, compared, clobbered, here, oper, s, t
<1> QED
  BY <1>2, <1>9, <1>10, <1>11

\* server_set_operator_tz_cb.
LEMMA SetOperatorTzGood ==
  ASSUME NEW r, Good(r), NEW zone \in Zones, NEW w
  PROVE  Good(SetOperatorTz(r, zone, w))
<1> DEFINE n == Name("/", zone)
           saving == [r EXCEPT !.saved_tz = Name(":", zone)]
           named == [r EXCEPT !.saved_tz = Name(":", zone), !.server_tz = n]
           linked == InternalSetTz(named, n, w)
           saved == SaveConf(SetEnv(linked, n), w)
           alarmed == NextDstChange(saved, saved.wall, FALSE)
<1>1. r \in States /\ n \in Names /\ n.zone \in Zones
      /\ Name(":", zone) \in SavedNames
  BY GoodStates, NameTypes DEF Spellings
<1> HIDE DEF n
<1>2. saving \in States
  BY <1>1 DEF States
<1>3. named = [saving EXCEPT !.server_tz = n]
  OBVIOUS
<1>4. named \in States
  BY <1>1, <1>2, <1>3 DEF States
<1>5. Sound(named) /\ HasAlarm(named) /\ named.running
  <2>1. /\ named.net_ticks = r.net_ticks /\ named.mono = r.mono
        /\ named.netEnv = r.netEnv /\ named.autosync = r.autosync
        /\ named.mcc_cache = r.mcc_cache /\ named.tz_list = r.tz_list
        /\ named.running = r.running
        /\ named.timers = r.timers /\ named.alarm_timer_id = r.alarm_timer_id
    BY <1>1 DEF States
  <2> HIDE DEF named
  <2> QED
    BY <1>4, <2>1 DEF Good, Sound, HasAlarm
<1> HIDE DEF named, saving
<1>6. linked \in States /\ Agree(named, linked)
  BY <1>1, <1>4, InternalSetTzAgrees
<1>7. Good(linked)
  BY <1>5, <1>6, AgreeGood DEF Good
<1> HIDE DEF linked
<1>8. Good(saved)
  BY <1>7, CallsGood
<1> HIDE DEF saved
<1>9. Good(alarmed)
  BY <1>8, GoodStates, NextDstChangeGood
<1> HIDE DEF alarmed
<1>10. Good(SendIndication(alarmed, 0))
  BY <1>9, CallsGood
<1> QED
  BY <1>10 DEF SetOperatorTz, alarmed, saved, linked, named, n

-----------------------------------------------------------------------------
(* The network's messages *)

\* A decoded message, unless it is thrown away, has a time after 1970 and an
\* offset that an Etc/GMT zone is spelled for, or none.
LEMMA DecodeType ==
  ASSUME NEW m \in NetMsgs, NEW now \in Nat \ {0}, NEW d \in Decode(m, now), d.ok
  PROVE  /\ d.time \in (Nat \ {0}) \cup {-1}
         /\ d.tz \in -63..63 \cup {100}
<1>1. m.time \in (Nat \ {0}) \cup {-1} /\ m.tz \in 0..255
  BY InputAssumption
<1>2. DecodeTz(m.tz) \in -63..63 \cup {100}
  <2>1. m.tz % 64 \in 0..63
    BY <1>1
  <2> QED
    BY <2>1 DEF DecodeTz
<1> DEFINE Decoded(invalid) ==
             [ok |-> TRUE, time |-> IF invalid THEN now ELSE m.time,
              tz |-> DecodeTz(m.tz), dst |-> DecodeDst(m.dst)]
<1>3. d # DecodeFailed
  BY DEF DecodeFailed
<1>4. PICK invalid \in {TRUE, FALSE} : d = Decoded(invalid)
  <2>1. m.wellTyped
    BY <1>3 DEF Decode
  <2>2. PICK invalid \in (IF m.dated THEN BOOLEAN ELSE {TRUE}) :
          d = IF invalid /\ m.tz = 100 /\ m.dst = 100 THEN DecodeFailed
              ELSE Decoded(invalid)
    BY <2>1 DEF Decode
  <2>3. invalid \in {TRUE, FALSE}
    OBVIOUS
  <2> QED
    BY <1>3, <2>2, <2>3
<1> QED
  BY <1>1, <1>2, <1>4

\* The zone a message is remembered with has a colon.
LEMMA FoundTzType ==
  ASSUME NEW r, Good(r), NEW d, d.tz \in -63..63 \cup {100}, d.tz # 100
  PROVE  FoundTz(r, d).zone \in Zones
<1> DEFINE guess == GuessTz(r.tz_list, d.time, d.dst, d.tz)
<1>1. r.tz_list \subseteq Zones
  BY DEF Good, Sound, States
<1>2. guess # NoZone => guess \in Zones
  BY <1>1, GuessTzType
<1>3. EtcZone[d.tz] \in Zones
  BY OffsetAssumption, ZonesAssumption
<1> HIDE DEF guess
<1>4. FoundTz(r, d) = IF guess # NoZone THEN Name("bare", guess)
                      ELSE Name(":", EtcZone[d.tz])
  BY DEF FoundTz, guess
<1> QED
  BY <1>2, <1>3, <1>4 DEF Name

\* handle_csd_net_time_change remembers the time and the zone.
LEMMA RememberNetTimeGood ==
  ASSUME NEW r, Good(r), NEW d, d.time \in Nat \ {0},
         d.tz \in -63..63 \cup {100}
  PROVE  /\ Good(RememberNetTime(r, d))
         /\ RememberNetTime(r, d).autosync = r.autosync
<1> DEFINE tz == FoundTz(r, d)
           kept == KeepsSavedTz(r, d, tz)
           n == IF kept THEN r.saved_tz ELSE Name(":", tz.zone)
           timed == [r EXCEPT !.net_time = d.time]
           ticked == [timed EXCEPT !.net_ticks = r.mono]
           zoned == [ticked EXCEPT !.saved_tz = n]
           s == [zoned EXCEPT !.tzEnv = RestoredTz(r.tzEnv)]
<1>1. r \in States /\ r.mono \in Nat
  BY GoodStates DEF States
<1>2. n \in SavedNames
  <2>1. CASE kept
    BY <2>1, GoodStates
  <2>2. CASE ~kept
    <3>1. d.tz # 100
      BY <2>2 DEF KeepsSavedTz
    <3>2. tz.zone \in Zones
      BY <3>1, FoundTzType
    <3> QED
      BY <2>2, <3>2, NameTypes
  <2> QED
    BY <2>1, <2>2
<1>3. RememberNetTime(r, d) = s
  BY DEF RememberNetTime
<1>4. RestoredTz(r.tzEnv) \in Installed
  BY EnvTzInstalled DEF RestoredTz
<1> HIDE DEF n
<1>5. timed \in States
  BY <1>1 DEF States
<1>6. ticked \in States
  BY <1>1, <1>5 DEF States
<1>7. zoned \in States
  BY <1>2, <1>6 DEF States
<1>8. s \in States
  BY <1>4, <1>7 DEF States
<1>9. /\ s.net_ticks = r.mono /\ s.mono = r.mono
      /\ s.netEnv = r.netEnv /\ s.autosync = r.autosync
      /\ s.mcc_cache = r.mcc_cache /\ s.tz_list = r.tz_list
      /\ s.running = r.running
      /\ s.timers = r.timers /\ s.alarm_timer_id = r.alarm_timer_id
  BY <1>1 DEF States
<1> HIDE DEF s
<1>10. Good(s)
  BY <1>1, <1>8, <1>9 DEF Good, Sound, HasAlarm
<1> QED
  BY <1>3, <1>9, <1>10

\* handle_csd_net_time_change, on every way out.
LEMMA HandleCsdGood ==
  ASSUME NEW r, Good(r), NEW m \in NetMsgs, NEW d \in Decode(m, r.wall), NEW w
  PROVE  Good(HandleCsd(r, d, w).state)
<1> DEFINE heard == RememberNetTime(ClobberEnv(r), d)
           time_changed == r.wall # d.time
           tz_changed == /\ heard.saved_tz # Empty
                         /\ \/ TzDiffer(heard.server_tz, heard.saved_tz)
                            \/ ~InCountry(heard.server_tz, heard.tz_list)
           timed == IF time_changed /\ r.autosync
                    THEN ServerSetTime(heard, d.time, w) ELSE heard
           zoned == IF tz_changed /\ r.autosync
                    THEN AdoptOperatorTz(timed, w) ELSE timed
           told == IF time_changed \/ tz_changed
                   THEN SendIndication(zoned, IF time_changed THEN zoned.wall ELSE 0)
                   ELSE zoned
<1>1. Good(ClobberEnv(r))
  BY CallsGood
<1>2. CASE ~d.ok \/ d.time = -1
  <2>1. HandleCsd(r, d, w).state \in {r, ClobberEnv(r)}
    BY <1>2 DEF HandleCsd
  <2> QED
    BY <1>1, <2>1
<1>3. CASE d.ok /\ d.time # -1
  <2>1. d.time \in Nat \ {0} /\ d.tz \in -63..63 \cup {100}
    BY <1>3, GoodStates, DecodeType
  <2>2. Good(heard)
    BY <1>1, <2>1, RememberNetTimeGood
  <2> HIDE DEF heard
  <2>3. Good(timed) /\ timed.saved_tz = heard.saved_tz
    BY <2>1, <2>2, ServerSetTimeGood
  <2> HIDE DEF timed
  <2>4. Good(zoned)
    BY <2>3, AdoptOperatorTzGood
  <2> HIDE DEF zoned, tz_changed, time_changed
  <2>5. Good(told)
    BY <2>4, CallsGood, GoodStates
  <2> HIDE DEF told
  <2>6. Good(SaveConf(told, w))
    BY <2>5, CallsGood
  <2>7. HandleCsd(r, d, w).state \in {timed, SaveConf(told, w)}
    BY <1>3 DEF HandleCsd, told, zoned, timed, tz_changed, time_changed, heard
  <2> QED
    BY <2>3, <2>6, <2>7
<1> QED
  BY <1>2, <1>3

-----------------------------------------------------------------------------
(* The country *)

\* mcc_tz_set_tz_from_mcc: the zone it sets is one of the list.
LEMMA SetTzFromMccGood ==
  ASSUME NEW r, Good(r), NEW w
  PROVE  Good(SetTzFromMcc(r, w))
<1>1. CASE \E z \in r.tz_list : r.tz_list = {z}
  <2> DEFINE zone == CHOOSE z \in r.tz_list : TRUE
  <2>1. zone \in Zones
    BY <1>1 DEF Good, Sound, States
  <2> HIDE DEF zone
  <2>2. Good(SetOperatorTz(r, zone, w))
    BY <2>1, SetOperatorTzGood
  <2> QED
    BY <1>1, <2>2 DEF SetTzFromMcc, zone
<1>2. CASE ~\E z \in r.tz_list : r.tz_list = {z}
  BY <1>2 DEF SetTzFromMcc
<1> QED
  BY <1>1, <1>2

\* The list is rebuilt, or left empty, for the code that is cached with it.
LEMMA UpdateTzListGood ==
  ASSUME NEW r, Good(r), NEW mcc \in Mccs, NEW found \in BOOLEAN
  PROVE  Good(UpdateTzList(r, mcc, found))
<1> DEFINE country == CountryZones(CityZones[mcc])
           cached == [r EXCEPT !.mcc_cache = mcc]
           With(list) == [cached EXCEPT !.tz_list = list]
<1>1. r \in States /\ mcc \in Nat
  BY GoodStates, InputAssumption
<1>2. country \subseteq Zones
  BY InputAssumption, CountryZonesType
<1> HIDE DEF country
<1>3. cached \in States
  BY <1>1 DEF States
<1>4. /\ cached.net_ticks = r.net_ticks /\ cached.mono = r.mono
      /\ cached.netEnv = r.netEnv /\ cached.autosync = r.autosync
      /\ cached.mcc_cache = mcc /\ cached.running = r.running
      /\ cached.timers = r.timers /\ cached.alarm_timer_id = r.alarm_timer_id
  BY <1>1 DEF States
<1> HIDE DEF cached
<1>5. ASSUME NEW list \in {{}, country} PROVE Good(With(list))
  <2>1. With(list) \in States
    BY <1>2, <1>3 DEF States
  <2>2. /\ With(list).net_ticks = r.net_ticks /\ With(list).mono = r.mono
        /\ With(list).netEnv = r.netEnv /\ With(list).autosync = r.autosync
        /\ With(list).mcc_cache = mcc /\ With(list).running = r.running
        /\ With(list).timers = r.timers
        /\ With(list).alarm_timer_id = r.alarm_timer_id
    BY <1>3, <1>4 DEF States
  <2>3. With(list).tz_list = list
    BY <1>3 DEF States
  <2> HIDE DEF With
  <2> QED
    BY <1>5, <2>1, <2>2, <2>3 DEF Good, Sound, HasAlarm, country
<1>6. Good(With({})) /\ Good(With(country)) /\ Good(ClobberEnv(With(country)))
  BY <1>5, CallsGood
<1>7. UpdateTzList(r, mcc, found)
        \in {With({}), With(country), ClobberEnv(With(country))}
  BY Zenon DEF UpdateTzList, With, cached, country
<1> QED
  BY <1>6, <1>7

\* One more or one less call in flight changes nothing else.
LEMMA PendingGood ==
  ASSUME NEW r, Good(r)
  PROVE  /\ Good([r EXCEPT !.pendingInfo = @ + 1])
         /\ Good([r EXCEPT !.pendingReg = @ + 1])
         /\ r.pendingInfo > 0 => Good([r EXCEPT !.pendingInfo = @ - 1])
         /\ r.pendingReg > 0 => Good([r EXCEPT !.pendingReg = @ - 1])
<1> DEFINE Info(n) == [r EXCEPT !.pendingInfo = n]
           Reg(n) == [r EXCEPT !.pendingReg = n]
<1>1. r \in States /\ r.pendingInfo \in Nat /\ r.pendingReg \in Nat
  BY GoodStates DEF States
<1>2. ASSUME NEW n \in Nat PROVE Good(Info(n)) /\ Good(Reg(n))
  <2>1. Info(n) \in States /\ Reg(n) \in States
    BY <1>1 DEF States
  <2>2. Agree(r, Info(n)) /\ Agree(r, Reg(n))
    BY <1>1 DEF States, Agree
  <2> QED
    BY <2>1, <2>2, AgreeGood
<1> HIDE DEF Info, Reg
<1>3. /\ Good(Info(r.pendingInfo + 1)) /\ Good(Reg(r.pendingReg + 1))
      /\ r.pendingInfo > 0 => Good(Info(r.pendingInfo - 1))
      /\ r.pendingReg > 0 => Good(Reg(r.pendingReg - 1))
  BY <1>1, <1>2
<1> QED
  BY <1>3 DEF Info, Reg

\* mcc_tz_handle_registration_status_reply.
LEMMA HandleRegistrationGood ==
  ASSUME NEW r, Good(r), NEW registered \in BOOLEAN, NEW mcc \in Mccs,
         NEW found \in BOOLEAN
  PROVE  Good(HandleRegistration(r, registered, mcc, found))
<1> DEFINE listed == UpdateTzList(r, mcc, found)
           forgot == [r EXCEPT !.mcc_cache = 0]
<1>1. Good(listed)
  BY UpdateTzListGood
<1> HIDE DEF listed
<1>2. Good([listed EXCEPT !.pendingInfo = @ + 1])
  BY <1>1, PendingGood
<1>3. Good(forgot)
  <2>1. r \in States
    BY GoodStates
  <2>2. forgot \in States
    BY <2>1 DEF States
  <2>3. /\ forgot.net_ticks = r.net_ticks /\ forgot.mono = r.mono
        /\ forgot.netEnv = r.netEnv /\ forgot.autosync = r.autosync
        /\ forgot.mcc_cache = 0 /\ forgot.tz_list = r.tz_list
        /\ forgot.running = r.running
        /\ forgot.timers = r.timers /\ forgot.alarm_timer_id = r.alarm_timer_id
    BY <2>1 DEF States
  <2> HIDE DEF forgot
  <2> QED
    BY <2>2, <2>3 DEF Good, Sound, HasAlarm
<1>4. HandleRegistration(r, registered, mcc, found)
        \in {r, forgot, listed, [listed EXCEPT !.pendingInfo = @ + 1]}
  BY DEF HandleRegistration, listed
<1> QED
  BY <1>1, <1>2, <1>3, <1>4

\* mcc_tz_setup_timezone_from_mcc_if_required.
LEMMA SetupTzFromMccGood ==
  ASSUME NEW r, Good(r), NEW w
  PROVE  Good(SetupTzFromMcc(r, w))
<1> DEFINE asked == [r EXCEPT !.pendingReg = @ + 1]
           Matched(s, b) == [s EXCEPT !.handler_installed = b]
<1>1. r \in States /\ r.pendingReg \in Nat /\ r.handler_installed \in BOOLEAN
  BY GoodStates DEF States
<1>2. asked.handler_installed = r.handler_installed
  BY <1>1, Zenon DEF States
<1>3. Good(asked)
  BY PendingGood
<1>4. ASSUME NEW s, Good(s), NEW b \in BOOLEAN PROVE Good(Matched(s, b))
  <2>1. s \in States
    BY <1>4, GoodStates
  <2>2. Matched(s, b) \in States
    BY <2>1 DEF States
  <2>3. Agree(s, Matched(s, b))
    BY <2>1 DEF States, Agree
  <2> QED
    BY <1>4, <2>2, <2>3, AgreeGood
<1>5. SetupTzFromMcc(r, w) =
        IF r.autosync THEN Matched(asked, r.handler_installed \/ w.match)
        ELSE Matched(r, r.handler_installed /\ ~w.match)
  BY <1>2 DEF SetupTzFromMcc
<1> HIDE DEF Matched, asked
<1>6. Good(Matched(asked, r.handler_installed \/ w.match))
  BY <1>3, <1>4
<1>7. Good(Matched(r, r.handler_installed /\ ~w.match))
  BY <1>4
<1> QED
  BY <1>5, <1>6, <1>7

-----------------------------------------------------------------------------
(* Starting and stopping *)

\* What holds while there is no process, and until the first alarm is set.
Idle(r) == Sound(r) /\ r.timers = {} /\ r.running = FALSE

LEMMA AgreeIdle ==
  ASSUME NEW r, Idle(r), NEW s \in States, Agree(r, s)
  PROVE  Idle(s)
<1>1. Sound(s)
  BY AgreeGood DEF Idle
<1> QED
  BY <1>1 DEF Idle, Agree

\* Whatever the process had in memory is gone.
LEMMA BootIdle ==
  ASSUME NEW r \in States
  PROVE  Idle(Boot(r))
<1> DEFINE a == [r EXCEPT !.running = FALSE, !.autosync = FALSE,
                          !.time_format = NoFormat, !.server_tz = Empty]
           b == [a EXCEPT !.saved_tz = Empty, !.was_dst = FALSE,
                          !.net_time = 0, !.net_ticks = 0]
           c == [b EXCEPT !.alarm_timer_id = 0, !.mcc_cache = 0,
                          !.tz_list = {}, !.handler_installed = FALSE]
           s == [c EXCEPT !.tzEnv = UTC, !.timers = {}, !.pendingReg = 0,
                          !.pendingInfo = 0]
<1>1. Boot(r) = s
  BY DEF Boot
<1>2. /\ Empty \in Names /\ Empty \in SavedNames /\ UTC \in Installed
      /\ 0 \in 0..(AlarmIds - 1)
  BY Constants, NameTypes DEF SavedNames
<1>3. a \in States
  BY <1>2 DEF States
<1>4. a.running = FALSE /\ a.autosync = FALSE
  BY DEF States
<1> HIDE DEF a
<1>5. b \in States
  BY <1>2, <1>3 DEF States
<1>6. b.running = FALSE /\ b.autosync = FALSE /\ b.net_ticks = 0
  BY <1>3, <1>4 DEF States
<1> HIDE DEF b
<1>7. c \in States
  BY <1>2, <1>5 DEF States
<1>8. /\ c.running = FALSE /\ c.autosync = FALSE /\ c.net_ticks = 0
      /\ c.mcc_cache = 0 /\ c.tz_list = {}
  BY <1>5, <1>6 DEF States
<1> HIDE DEF c
<1>9. s \in States
  BY <1>2, <1>7 DEF States
<1>10. /\ s.running = FALSE /\ s.autosync = FALSE /\ s.net_ticks = 0
       /\ s.mcc_cache = 0 /\ s.tz_list = {} /\ s.timers = {}
  BY <1>7, <1>8 DEF States
<1> HIDE DEF s
<1>11. s.mono \in Nat
  BY <1>9 DEF States
<1> QED
  BY <1>1, <1>9, <1>10, <1>11 DEF Idle, Sound

\* server_init_autosync, server_init_time_format and read_conf.
LEMMA ReadSettingsIdle ==
  ASSUME NEW r, Idle(r)
  PROVE  Idle(ReadSettings(r))
<1> DEFINE on == IF r.conf = Lost THEN r.netEnv = "yes"
                 ELSE IF r.netEnv = "disabled" THEN r.netEnv = "yes"
                 ELSE r.conf.autosync
           fmt == IF r.conf = Lost THEN FormatEnv ELSE r.conf.time_format
           tz == IF r.conf = Lost THEN r.server_tz ELSE r.conf.net_tz
           a == [r EXCEPT !.autosync = on]
           b == [a EXCEPT !.time_format = fmt]
           s == [b EXCEPT !.server_tz = tz]
<1>1. r \in States
  BY DEF Idle, Sound
<1>2. r.conf \in AllConfs \cup {Lost} /\ r.server_tz \in Names
  BY <1>1 DEF States
<1>3. /\ on \in BOOLEAN /\ fmt \in Formats \cup {NoFormat} /\ tz \in Names
      /\ r.netEnv = "disabled" => ~on
  BY <1>2, InputAssumption DEF AllConfs
<1>4. ReadSettings(r) = s
  BY <1>1 DEF ReadSettings, States
<1> HIDE DEF on, fmt, tz
<1>5. a \in States
  BY <1>1, <1>3 DEF States
<1>6. b \in States
  BY <1>3, <1>5 DEF States
<1>7. s \in States
  BY <1>3, <1>6 DEF States
<1>8. /\ s.net_ticks = r.net_ticks /\ s.mono = r.mono /\ s.netEnv = r.netEnv
      /\ s.mcc_cache = r.mcc_cache /\ s.tz_list = r.tz_list
      /\ s.running = r.running /\ s.timers = r.timers
  BY <1>1 DEF States
<1>9. s.autosync = on
  BY <1>1, <1>3 DEF States
<1> HIDE DEF s
<1>10. Idle(s)
  BY <1>3, <1>7, <1>8, <1>9 DEF Idle, Sound
<1> QED
  BY <1>4, <1>10

\* The restore_tz line of the file.
LEMMA RestoreTzIdle ==
  ASSUME NEW r, Idle(r), NEW w
  PROVE  Idle(RestoreTz(r, w))
<1> DEFINE n == Name(":", r.conf.restore_tz)
           linked == InternalSetTz(r, n, w)
<1>1. r \in States /\ r.conf \in AllConfs \cup {Lost}
  BY DEF Idle, Sound, States
<1>2. CASE r.conf = Lost \/ r.conf.restore_tz = NoZone
  BY <1>2 DEF RestoreTz
<1>3. CASE r.conf # Lost /\ r.conf.restore_tz # NoZone
  <2>1. n.zone \in Zones
    BY <1>1, <1>3, NameTypes DEF AllConfs, Spellings
  <2> HIDE DEF n
  <2>2. linked \in States /\ Agree(r, linked)
    BY <1>1, <2>1, InternalSetTzAgrees
  <2>3. Idle(linked)
    BY <2>2, AgreeIdle
  <2> HIDE DEF linked
  <2>4. Idle(SaveConf(linked, w))
    BY <2>2, <2>3, SaveConfAgrees, AgreeIdle
  <2> QED
    BY <1>3, <2>4 DEF RestoreTz, linked, n
<1> QED
  BY <1>2, <1>3

\* The server takes its first zone.
LEMMA TakeTzIdle ==
  ASSUME NEW r, Idle(r)
  PROVE  Idle(TakeTz(r))
<1>1. r \in States /\ r.links.link \in Zones \cup {NoZone}
  BY DEF Idle, Sound, States, LinkPairs
<1>2. \A n : Idle(SetEnv(r, n))
  BY <1>1, SetEnvAgrees, AgreeIdle
<1>3. CASE r.server_tz # Empty
  BY <1>2, <1>3 DEF TakeTz
<1>4. CASE r.server_tz = Empty
  <2> DEFINE n == IF r.links.link = NoZone THEN Empty ELSE Name(":", r.links.link)
             named == [r EXCEPT !.server_tz = n]
  <2>1. n \in Names
    BY <1>1, NameTypes DEF Spellings
  <2> HIDE DEF n
  <2>2. named \in States
    BY <1>1, <2>1 DEF States
  <2>3. Agree(r, named)
    BY <1>1 DEF States, Agree
  <2>4. Idle(named)
    BY <2>2, <2>3, AgreeIdle
  <2> HIDE DEF named
  <2>5. Idle(SetEnv(named, Name(":", UTC)))
    BY <2>2, <2>4, SetEnvAgrees, AgreeIdle
  <2> QED
    BY <1>4, <2>5 DEF TakeTz, named, n
<1> QED
  BY <1>3, <1>4

\* server_init, up to the bus.
LEMMA SettleIdle ==
  ASSUME NEW r, Idle(r), NEW w
  PROVE  Idle(Settle(r, w))
<1> DEFINE s == TakeTz(RestoreTz(ReadSettings(r), w))
           t == [s EXCEPT !.was_dst = DstAt(s.tzEnv, s.wall)]
<1>1. Idle(s)
  BY ReadSettingsIdle, RestoreTzIdle, TakeTzIdle
<1> HIDE DEF s
<1>2. s \in States /\ DstAt(s.tzEnv, s.wall) \in BOOLEAN
  BY <1>1 DEF Idle, Sound, DstAt
<1>3. t \in States
  BY <1>2 DEF States
<1>4. Agree(s, t)
  BY <1>2 DEF States, Agree
<1>5. Idle(t)
  BY <1>1, <1>3, <1>4, AgreeIdle
<1> QED
  BY <1>5 DEF Settle, s

-----------------------------------------------------------------------------
(* The inductive invariant *)

IInv ==
  /\ Sound(Here)
  /\ IF running THEN HasAlarm(Here) ELSE timers = {}
  /\ reply \in {"none", "ok", "failed"}
  /\ signals \in Seq(Nat)

\* What a handler starts from.
LEMMA HereType ==
  ASSUME IInv
  PROVE  /\ Here \in States
         /\ running => Good(Here)
         /\ ~running => Idle(Here)
         /\ wall \in Nat \ {0} /\ mono \in Nat /\ running \in BOOLEAN
<1>1. Here \in States
  BY DEF IInv, Sound
<1>2. wall \in Nat \ {0} /\ mono \in Nat /\ running \in BOOLEAN
  BY <1>1 DEF Here, States
<1>3. Here.running = running /\ Here.timers = timers
  BY DEF Here
<1> QED
  BY <1>1, <1>2, <1>3, Zenon DEF IInv, Good, Idle

\* A handler that ends in a good state keeps the invariant, and so does one
\* after which there is no process.
LEMMA BecomesKeeps ==
  ASSUME NEW r, Becomes(r), Good(r) \/ Idle(r)
  PROVE  IInv'
<1>1. r \in States /\ Sound(r)
  BY DEF Good, Idle, Sound
<1>2. (Here \in States)'
  BY <1>1 DEF Becomes, Here, States, LinkPairs
<1>3. Agree(r, Here')
  BY <1>1 DEF Becomes, Here, Agree, States
<1>4. (reply \in {"none", "ok", "failed"} /\ signals \in Seq(Nat))'
  BY <1>1 DEF Becomes, States
<1>5. Sound(Here')
  BY <1>1, <1>2, <1>3, AgreeGood
<1>6. IF running' THEN HasAlarm(Here') ELSE timers' = {}
  <2>1. running' = r.running /\ timers' = r.timers
    BY DEF Becomes
  <2>2. CASE Good(r)
    <3>1. HasAlarm(Here') /\ running'
      BY <1>2, <1>3, <2>1, <2>2, AgreeGood DEF Good
    <3> QED
      BY <3>1
  <2>3. CASE Idle(r)
    BY <2>1, <2>3 DEF Idle
  <2> QED
    BY <2>2, <2>3
<1> QED
  BY <1>4, <1>5, <1>6 DEF IInv

\* The same for a state that agrees with the present one.
LEMMA AgreesKeeps ==
  ASSUME IInv, NEW r \in States, Agree(Here, r), Becomes(r)
  PROVE  IInv'
<1>1. CASE running
  BY <1>1, HereType, AgreeGood, BecomesKeeps
<1>2. CASE ~running
  BY <1>2, HereType, AgreeIdle, BecomesKeeps
<1> QED
  BY <1>1, <1>2

-----------------------------------------------------------------------------
(* Every handler keeps it *)

LEMMA StartKeeps == ASSUME IInv, Start PROVE IInv'
<1>1. Idle(Here)
  BY HereType DEF Start
<1>2. PICK w \in Worlds, busUp \in BOOLEAN :
        LET s == Settle(Here, w) IN
        Becomes(IF busUp
                THEN SetupTzFromMcc([NextDstChange(s, s.wall, TRUE)
                                       EXCEPT !.running = TRUE], w)
                ELSE Boot(s))
  BY DEF Start
<1> DEFINE s == Settle(Here, w)
           alarmed == NextDstChange(s, s.wall, TRUE)
           up == [alarmed EXCEPT !.running = TRUE]
<1>3. Idle(s)
  BY <1>1, SettleIdle
<1>4. Becomes(IF busUp THEN SetupTzFromMcc(up, w) ELSE Boot(s))
  BY <1>2
<1> HIDE DEF s
<1>5. s \in States /\ Sound(s) /\ s.wall \in Nat /\ s.timers = {}
  BY <1>3 DEF Idle, Sound, States
<1>6. Idle(Boot(s))
  BY <1>5, BootIdle
<1>7. Sound(alarmed) /\ HasAlarm(alarmed)
  BY <1>5, NextDstChangeSound
<1> HIDE DEF alarmed
<1>8. Good(up)
  <2>1. alarmed \in States
    BY <1>7 DEF Sound
  <2>2. up \in States /\ up.running
    BY <2>1 DEF States
  <2>3. /\ up.net_ticks = alarmed.net_ticks /\ up.mono = alarmed.mono
        /\ up.netEnv = alarmed.netEnv /\ up.autosync = alarmed.autosync
        /\ up.mcc_cache = alarmed.mcc_cache /\ up.tz_list = alarmed.tz_list
        /\ up.timers = alarmed.timers
        /\ up.alarm_timer_id = alarmed.alarm_timer_id
    BY <2>1 DEF States
  <2> HIDE DEF up
  <2> QED
    BY <1>7, <2>2, <2>3 DEF Good, Sound, HasAlarm
<1> HIDE DEF up
<1>9. Good(SetupTzFromMcc(up, w))
  BY <1>8, SetupTzFromMccGood
<1> QED
  BY <1>4, <1>6, <1>9, BecomesKeeps

LEMMA AskedZones == ASSUME IInv PROVE Asked \subseteq Zones
<1>1. ASSUME NEW n \in UserTz, n.form = ":" PROVE n.zone \in Zones
  <2>1. n \in Names
    BY InputAssumption
  <2>2. n # Empty
    <3>1. Empty.form = ""
      BY DEF Empty, Name
    <3>2. "" # ":"
      BY Zenon
    <3> QED
      BY <1>1, <3>1, <3>2
  <2> QED
    BY <2>1, <2>2, NameTypes
<1>2. country_tz_name_list \subseteq Zones
  BY HereType DEF Here, States
<1> QED
  BY <1>1, <1>2 DEF Asked

LEMMA StopKeeps == ASSUME IInv, Stop PROVE IInv'
<1>1. ASSUME NEW r \in States, Becomes([Boot(r) EXCEPT !.restoring = FALSE])
      PROVE  IInv'
  <2> DEFINE b == Boot(r)
             s == [b EXCEPT !.restoring = FALSE]
  <2>1. Idle(b)
    BY BootIdle
  <2>2. Becomes(s)
    BY <1>1
  <2> HIDE DEF b
  <2>3. b \in States
    BY <2>1 DEF Idle, Sound
  <2>4. s \in States
    BY <2>3 DEF States
  <2>5. Agree(b, s)
    BY <2>3 DEF States, Agree
  <2>6. Idle(s)
    BY <2>1, <2>4, <2>5, AgreeIdle
  <2> QED
    BY <2>2, <2>6, BecomesKeeps
<1>2. Here \in States
  BY HereType
<1>3. ASSUME NEW z \in Asked, NEW w \in Worlds
      PROVE  InternalSetTz(Here, Name(":", z), w) \in States
  <2>1. z \in Zones /\ Name(":", z).zone = z
    BY AskedZones DEF Name
  <2> QED
    BY <1>2, <2>1, InternalSetTzAgrees
<1> QED
  BY <1>1, <1>2, <1>3 DEF Stop

LEMMA SetTimeKeeps ==
  ASSUME IInv, NEW t \in Times, SetTime(t)
  PROVE  IInv'
<1>1. Good(Here) /\ t \in Nat \ {0}
  BY HereType, InputAssumption DEF SetTime
<1>2. PICK w \in Worlds :
        LET s == ServerSetTime(Here, t, w) IN
        Becomes(IF TimeStatus(w) = 0
                THEN Replies(SendIndication(SaveConf(s, w), t), TRUE)
                ELSE Replies(s, FALSE))
  BY DEF SetTime
<1> DEFINE s == ServerSetTime(Here, t, w)
<1>3. Good(s)
  BY <1>1, ServerSetTimeGood
<1>4. Becomes(IF TimeStatus(w) = 0
              THEN Replies(SendIndication(SaveConf(s, w), t), TRUE)
              ELSE Replies(s, FALSE))
  BY <1>2
<1> HIDE DEF s
<1>5. Good(SaveConf(s, w))
  BY <1>3, CallsGood
<1>6. Good(SendIndication(SaveConf(s, w), t))
  BY <1>1, <1>5, CallsGood
<1>7. Good(Replies(SendIndication(SaveConf(s, w), t), TRUE)) /\ Good(Replies(s, FALSE))
  BY <1>3, <1>6, CallsGood
<1> QED
  BY <1>4, <1>7, BecomesKeeps

LEMMA SetTzKeeps ==
  ASSUME IInv, NEW n \in UserTz, SetTz(n)
  PROVE  IInv'
<1>1. Good(Here) /\ n \in Names
  BY HereType, InputAssumption DEF SetTz
<1>2. PICK w \in Worlds :
       LET colon == n # Empty /\ n.form = ":"
           accepted == IF colon THEN TzHelperSucceeds(n, w)
                       ELSE CheckTimezone(n)
           linked == IF colon THEN InternalSetTz(Here, n, w) ELSE Here
           taken == SetEnv([linked EXCEPT !.server_tz = n], n)
           alarmed == NextDstChange(SaveConf(taken, w), taken.wall, FALSE)
       IN Becomes(IF accepted THEN Replies(SendIndication(alarmed, 0), TRUE)
                  ELSE Replies(SaveConf(linked, w), FALSE))
  BY DEF SetTz
<1> DEFINE colon == n # Empty /\ n.form = ":"
           accepted == IF colon THEN TzHelperSucceeds(n, w)
                       ELSE CheckTimezone(n)
           linked == IF colon THEN InternalSetTz(Here, n, w) ELSE Here
           named == [linked EXCEPT !.server_tz = n]
           taken == SetEnv(named, n)
           alarmed == NextDstChange(SaveConf(taken, w), taken.wall, FALSE)
<1>3. Becomes(IF accepted THEN Replies(SendIndication(alarmed, 0), TRUE)
              ELSE Replies(SaveConf(linked, w), FALSE))
  BY <1>2
<1> HIDE DEF accepted
<1>4. Good(linked)
  <2>1. CASE colon
    <3>1. n.zone \in Zones
      BY <1>1, <2>1, NameTypes
    <3>2. Good(InternalSetTz(Here, n, w))
      BY <1>1, <3>1, GoodStates, InternalSetTzAgrees, AgreeGood
    <3> QED
      BY <2>1, <3>2
  <2> QED
    BY <1>1, <2>1
<1> HIDE DEF linked
<1>5. Good(named)
  <2>1. linked \in States
    BY <1>4, GoodStates
  <2>2. named \in States
    BY <1>1, <2>1 DEF States
  <2>3. Agree(linked, named)
    BY <2>1 DEF States, Agree
  <2> QED
    BY <1>4, <2>2, <2>3, AgreeGood
<1> HIDE DEF named
<1>6. Good(taken)
  BY <1>5, CallsGood
<1> HIDE DEF taken
<1>7. Good(SaveConf(taken, w)) /\ taken.wall \in Nat
  BY <1>6, CallsGood, GoodStates
<1>8. Good(alarmed)
  BY <1>7, NextDstChangeGood
<1> HIDE DEF alarmed
<1>9. Good(SendIndication(alarmed, 0)) /\ Good(SaveConf(linked, w))
  BY <1>4, <1>8, CallsGood
<1>10. /\ Good(Replies(SendIndication(alarmed, 0), TRUE))
       /\ Good(Replies(SaveConf(linked, w), FALSE))
  BY <1>9, CallsGood
<1> QED
  BY <1>3, <1>10, BecomesKeeps

LEMMA SetAutosyncKeeps ==
  ASSUME IInv, NEW enabled \in BOOLEAN, SetAutosync(enabled)
  PROVE  IInv'
<1>1. Good(Here)
  BY HereType DEF SetAutosync
<1>2. PICK w \in Worlds :
       LET switched == [Here EXCEPT !.autosync = enabled]
           timed == IF enabled /\ net_time_changed_time # 0
                    THEN SetNetworkTime(switched, FALSE, w) ELSE switched
           saved == SaveConf(SetupTzFromMcc(timed, w), w)
       IN Becomes(CASE enabled /\ netEnv = "disabled" -> Replies(Here, FALSE)
                    [] ~(enabled /\ netEnv = "disabled") /\ SaveSucceeds(w) ->
                         Replies(SendIndication(saved, 0), TRUE)
                    [] OTHER -> Replies(saved, FALSE))
  BY DEF SetAutosync
<1> DEFINE switched == [Here EXCEPT !.autosync = enabled]
           timed == IF enabled /\ net_time_changed_time # 0
                    THEN SetNetworkTime(switched, FALSE, w) ELSE switched
           saved == SaveConf(SetupTzFromMcc(timed, w), w)
<1>3. CASE enabled /\ netEnv = "disabled"
  <2>1. Becomes(Replies(Here, FALSE))
    BY <1>2, <1>3
  <2> QED
    BY <1>1, <2>1, CallsGood, BecomesKeeps
<1>4. CASE ~(enabled /\ netEnv = "disabled")
  <2>1. \/ Becomes(Replies(SendIndication(saved, 0), TRUE))
        \/ Becomes(Replies(saved, FALSE))
    BY <1>2, <1>4
  <2>2. Good(switched)
    <3>1. Here \in States
      BY <1>1, GoodStates
    <3>2. switched \in States
      BY <3>1 DEF States
    <3>3. /\ switched.net_ticks = Here.net_ticks /\ switched.mono = Here.mono
          /\ switched.netEnv = Here.netEnv /\ switched.autosync = enabled
          /\ switched.mcc_cache = Here.mcc_cache
          /\ switched.tz_list = Here.tz_list
          /\ switched.running = Here.running /\ switched.timers = Here.timers
          /\ switched.alarm_timer_id = Here.alarm_timer_id
      BY <3>1 DEF States
    <3>4. Here.netEnv = netEnv
      BY DEF Here
    <3> HIDE DEF switched
    <3> QED
      BY <1>1, <1>4, <3>2, <3>3, <3>4 DEF Good, Sound, HasAlarm
  <2>3. switched.net_time = net_time_changed_time
    BY DEF Here
  <2> HIDE DEF switched
  <2>4. Good(timed)
    BY <2>2, <2>3, SetNetworkTimeGood
  <2> HIDE DEF timed
  <2>5. Good(SetupTzFromMcc(timed, w))
    BY <2>4, SetupTzFromMccGood
  <2>6. Good(saved)
    BY <2>5, CallsGood
  <2> HIDE DEF saved
  <2>7. Good(SendIndication(saved, 0))
    BY <2>6, CallsGood
  <2>8. Good(Replies(SendIndication(saved, 0), TRUE)) /\ Good(Replies(saved, FALSE))
    BY <2>6, <2>7, CallsGood
  <2> QED
    BY <2>1, <2>8, BecomesKeeps
<1> QED
  BY <1>3, <1>4

LEMMA SetTimeFormatKeeps ==
  ASSUME IInv, NEW f \in Formats \cup {NoFormat}, SetTimeFormat(f)
  PROVE  IInv'
<1>1. Good(Here)
  BY HereType DEF SetTimeFormat
<1>2. PICK w \in Worlds :
       LET saved == SaveConf([Here EXCEPT !.time_format = f], w) IN
       Becomes(CASE f = NoFormat -> Replies(Here, FALSE)
                 [] f # NoFormat /\ SaveSucceeds(w) ->
                      Replies(SendIndication(saved, 0), TRUE)
                 [] OTHER -> Replies(saved, FALSE))
  BY DEF SetTimeFormat
<1> DEFINE formatted == [Here EXCEPT !.time_format = f]
           saved == SaveConf(formatted, w)
<1>3. \/ Becomes(Replies(Here, FALSE))
      \/ Becomes(Replies(SendIndication(saved, 0), TRUE))
      \/ Becomes(Replies(saved, FALSE))
  BY <1>2
<1>4. Good(formatted)
  <2>1. Here \in States
    BY <1>1, GoodStates
  <2>2. formatted \in States /\ Agree(Here, formatted)
    BY <2>1 DEF States, Agree
  <2> QED
    BY <1>1, <2>2, AgreeGood
<1> HIDE DEF formatted
<1>5. Good(saved)
  BY <1>4, CallsGood
<1> HIDE DEF saved
<1>6. Good(SendIndication(saved, 0))
  BY <1>5, CallsGood
<1>7. /\ Good(Replies(Here, FALSE)) /\ Good(Replies(saved, FALSE))
      /\ Good(Replies(SendIndication(saved, 0), TRUE))
  BY <1>1, <1>5, <1>6, CallsGood
<1> QED
  BY <1>3, <1>7, BecomesKeeps

LEMMA ActivateNetTimeKeeps == ASSUME IInv, ActivateNetTime PROVE IInv'
<1>1. Good(Here) /\ Here.net_time = net_time_changed_time
  BY HereType DEF ActivateNetTime, Here
<1>2. PICK w \in Worlds :
       Becomes(IF net_time_changed_time = 0 THEN Replies(Here, FALSE)
               ELSE Replies(SetNetworkTime(Here, TRUE, w), TimeStatus(w) = 0))
  BY DEF ActivateNetTime
<1>3. Good(Replies(Here, FALSE))
  BY <1>1, CallsGood
<1>4. ASSUME net_time_changed_time # 0
      PROVE  Good(Replies(SetNetworkTime(Here, TRUE, w), TimeStatus(w) = 0))
  BY <1>1, <1>4, SetNetworkTimeGood, CallsGood
<1> QED
  BY <1>2, <1>3, <1>4, BecomesKeeps

LEMMA NetTimeSignalKeeps ==
  ASSUME IInv, NEW m \in NetMsgs, NetTimeSignal(m)
  PROVE  IInv'
<1>1. Good(Here) /\ Here.wall = wall
  BY HereType DEF NetTimeSignal, Here
<1>2. PICK w \in Worlds, d \in Decode(m, wall) : Becomes(HandleCsd(Here, d, w).state)
  BY DEF NetTimeSignal
<1>3. Good(HandleCsd(Here, d, w).state)
  BY <1>1, HandleCsdGood
<1> QED
  BY <1>2, <1>3, BecomesKeeps

LEMMA RegistrationSignalKeeps ==
  ASSUME IInv, NEW registered \in BOOLEAN, NEW mcc \in Mccs,
         RegistrationSignal(registered, mcc)
  PROVE  IInv'
<1>1. PICK found \in BOOLEAN :
        Becomes(HandleRegistration(Here, registered, mcc, found))
  BY DEF RegistrationSignal
<1>2. Good(HandleRegistration(Here, registered, mcc, found))
  BY HereType, HandleRegistrationGood DEF RegistrationSignal
<1> QED
  BY <1>1, <1>2, BecomesKeeps

LEMMA RegistrationReplyKeeps ==
  ASSUME IInv, NEW registered \in BOOLEAN, NEW mcc \in Mccs,
         RegistrationReply(registered, mcc)
  PROVE  IInv'
<1> DEFINE got == [Here EXCEPT !.pendingReg = @ - 1]
<1>1. Good(Here) /\ Here.pendingReg > 0
  BY HereType DEF RegistrationReply, Here
<1>2. Good(got)
  BY <1>1, PendingGood
<1>3. PICK found \in BOOLEAN :
        Becomes(HandleRegistration(got, registered, mcc, found))
  BY DEF RegistrationReply
<1> HIDE DEF got
<1> QED
  BY <1>2, <1>3, HandleRegistrationGood, BecomesKeeps

LEMMA TimeInfoReplyKeeps ==
  ASSUME IInv, NEW m \in NetMsgs, TimeInfoReply(m)
  PROVE  IInv'
<1> DEFINE got == [Here EXCEPT !.pendingInfo = @ - 1]
<1>1. Good(Here) /\ Here.pendingInfo > 0
  BY HereType DEF TimeInfoReply, Here
<1>2. PICK w \in Worlds, u \in Worlds, d \in Decode(m, wall) :
        LET csd == HandleCsd(got, d, w) IN
        Becomes(CASE ~autosync -> got
                  [] autosync /\ csd.rv = -1 -> SetTzFromMcc(csd.state, u)
                  [] OTHER -> csd.state)
  BY DEF TimeInfoReply
<1>3. Good(got)
  BY <1>1, PendingGood
<1>4. got.wall = wall
  BY DEF Here
<1> HIDE DEF got
<1> DEFINE state == HandleCsd(got, d, w).state
<1>5. Good(state)
  BY <1>3, <1>4, HandleCsdGood
<1>6. Becomes(got) \/ Becomes(SetTzFromMcc(state, u)) \/ Becomes(state)
  BY <1>2
<1> HIDE DEF state
<1>7. Good(SetTzFromMcc(state, u))
  BY <1>5, SetTzFromMccGood
<1> QED
  BY <1>3, <1>5, <1>6, <1>7, BecomesKeeps

LEMMA ReplyLostKeeps == ASSUME IInv, ReplyLost PROVE IInv'
<1>1. Good(Here) /\ Here.pendingReg = pendingReg /\ Here.pendingInfo = pendingInfo
  BY HereType DEF ReplyLost, Here
<1>2. CASE pendingReg > 0 /\ Becomes([Here EXCEPT !.pendingReg = @ - 1])
  BY <1>1, <1>2, PendingGood, BecomesKeeps
<1>3. CASE pendingInfo > 0 /\ Becomes([Here EXCEPT !.pendingInfo = @ - 1])
  BY <1>1, <1>3, PendingGood, BecomesKeeps
<1> QED
  BY <1>2, <1>3 DEF ReplyLost

LEMMA ModeChangeKeeps == ASSUME IInv, ModeChange PROVE IInv'
<1> DEFINE s == [Here EXCEPT !.net_time = 0]
<1>1. Here \in States
  BY HereType
<1>2. s \in States
  BY <1>1 DEF States
<1>3. Agree(Here, s)
  BY <1>1 DEF States, Agree
<1>4. Becomes(s)
  BY DEF ModeChange
<1> HIDE DEF s
<1> QED
  BY <1>2, <1>3, <1>4, AgreesKeeps

LEMMA HandleAlarmKeeps == ASSUME IInv, HandleAlarm PROVE IInv'
<1>1. Good(Here) /\ wall \in Nat
  BY HereType DEF HandleAlarm
<1>2. PICK x \in timers :
       LET told == IF was_dst # DstAt(tzEnv, wall)
                   THEN SendIndication(Here, wall) ELSE Here
           next == NextDstChange(told, wall, FALSE)
       IN Becomes([next EXCEPT !.timers = @ \ {x}])
  BY DEF HandleAlarm
<1> DEFINE told == IF was_dst # DstAt(tzEnv, wall)
                   THEN SendIndication(Here, wall) ELSE Here
           next == NextDstChange(told, wall, FALSE)
           s == [next EXCEPT !.timers = @ \ {x}]
<1>3. Becomes(s)
  BY <1>2
<1>4. Good(told) /\ Agree(Here, told)
  <2>1. Good(SendIndication(Here, wall)) /\ Agree(Here, SendIndication(Here, wall))
    BY <1>1, GoodStates, CallsGood, SendIndicationAgrees
  <2>2. Agree(Here, Here)
    BY DEF Agree
  <2> QED
    BY <1>1, <2>1, <2>2
<1> HIDE DEF told
<1>5. Good(next) /\ next.alarm_timer_id # told.alarm_timer_id
  BY <1>1, <1>4, NextDstChangeGood
<1> HIDE DEF next
<1>6. x.id = told.alarm_timer_id
  <2>1. x \in told.timers
    BY <1>4 DEF Agree, Here
  <2> QED
    BY <1>4, <2>1 DEF Good, HasAlarm
<1>7. next.timers \ {x} = next.timers
  BY <1>5, <1>6 DEF Good, HasAlarm
<1>8. s \in States /\ Agree(next, s)
  <2>1. next \in States
    BY <1>5, GoodStates
  <2>2. s = [next EXCEPT !.timers = next.timers]
    BY <1>7
  <2> QED
    BY <2>1, <2>2 DEF States, Agree
<1> HIDE DEF s
<1>9. Good(s)
  BY <1>5, <1>8, AgreeGood
<1> QED
  BY <1>3, <1>9, BecomesKeeps

LEMMA TickKeeps == ASSUME IInv, Tick PROVE IInv'
<1> DEFINE later == [Here EXCEPT !.mono = Here.mono + 1]
           s == [later EXCEPT !.wall = Here.wall + 1]
<1>1. Here \in States
  BY HereType
<1>2. Here.mono + 1 \in Nat /\ Here.wall + 1 \in Nat \ {0}
  BY <1>1 DEF States
<1>3. later \in States
  BY <1>1, <1>2 DEF States
<1>4. s \in States
  BY <1>2, <1>3 DEF States
<1>5. /\ s.net_ticks = Here.net_ticks /\ s.mono = Here.mono + 1
      /\ s.netEnv = Here.netEnv /\ s.autosync = Here.autosync
      /\ s.mcc_cache = Here.mcc_cache /\ s.tz_list = Here.tz_list
      /\ s.running = Here.running /\ s.timers = Here.timers
      /\ s.alarm_timer_id = Here.alarm_timer_id
  BY <1>1 DEF States
<1>6. Becomes(s)
  BY DEF Tick
<1> HIDE DEF s, later
<1>7. /\ Here.net_ticks \in Nat /\ Here.mono \in Nat /\ Window \in Nat
      /\ \A x \in Here.timers : x.due \in Nat
  BY <1>1, Constants DEF States, Timers
<1>8. Sound(Here) => Sound(s)
  BY <1>4, <1>5, <1>7 DEF Sound
<1>9. HasAlarm(Here) => HasAlarm(s)
  BY <1>5, <1>7 DEF HasAlarm
<1>10. Good(Here) => Good(s)
  BY <1>5, <1>8, <1>9 DEF Good
<1>11. Idle(Here) => Idle(s)
  BY <1>5, <1>8 DEF Idle
<1> QED
  BY <1>6, <1>10, <1>11, HereType, BecomesKeeps

\* The scripts touch the file only.
LEMMA ScriptKeeps == ASSUME IInv, Script PROVE IInv'
<1> DEFINE Replaced(c) == [Here EXCEPT !.conf = c, !.restoring = running]
<1>1. Here \in States /\ running \in BOOLEAN
  BY HereType
<1>2. ASSUME NEW c \in AllConfs \cup {Lost}, Becomes(Replaced(c)) PROVE IInv'
  <2> DEFINE swapped == [Here EXCEPT !.conf = c]
  <2>1. swapped \in States
    BY <1>1 DEF States
  <2>2. Replaced(c) = [swapped EXCEPT !.restoring = running]
    OBVIOUS
  <2>3. Agree(Here, Replaced(c))
    BY <1>1 DEF States, Agree
  <2> HIDE DEF swapped, Replaced
  <2>4. Replaced(c) \in States
    BY <1>1, <2>1, <2>2 DEF States
  <2> QED
    BY <1>2, <2>3, <2>4, AgreesKeeps
<1>3. ASSUME NEW c \in Confs, RestoreBackup(c) PROVE IInv'
  <2>1. [c EXCEPT !.restore_tz = c.system_tz] \in AllConfs
    BY InputAssumption DEF AllConfs
  <2> QED
    BY <1>2, <1>3, <2>1 DEF RestoreBackup
<1>4. ASSUME FactoryReset PROVE IInv'
  BY <1>2, <1>4 DEF FactoryReset
<1> QED
  BY <1>3, <1>4 DEF Script

-----------------------------------------------------------------------------
(* The inductive invariant is one *)

LEMMA InitIInv == Init => IInv
<1> SUFFICES ASSUME Init PROVE IInv
  OBVIOUS
<1>1. Here \in States
  <2>1. /\ Empty \in Names /\ Empty \in SavedNames /\ UTC \in Installed
        /\ 0 \in 0..(AlarmIds - 1)
    BY Constants, NameTypes DEF SavedNames
  <2>2. /\ wall \in Nat \ {0} /\ link \in Zones \cup {NoZone}
        /\ link_save \in Zones \cup {NoZone}
        /\ conf \in AllConfs \cup {Lost}
    BY InputAssumption DEF Init
  <2>3. /\ running \in BOOLEAN /\ autosync \in BOOLEAN /\ was_dst \in BOOLEAN
        /\ handler_installed \in BOOLEAN /\ restoring \in BOOLEAN
    BY DEF Init
  <2>4. /\ time_format \in Formats \cup {NoFormat} /\ server_tz \in Names
        /\ saved_tz \in SavedNames /\ tzEnv \in Installed
        /\ alarm_timer_id \in 0..(AlarmIds - 1) /\ netEnv \in NetEnvs
    BY <2>1 DEF Init
  <2>5. /\ net_time_changed_time \in Nat /\ net_time_last_changed_ticks \in Nat
        /\ mcc_cache \in Nat /\ pendingReg \in Nat /\ pendingInfo \in Nat
        /\ mono \in Nat
        /\ country_tz_name_list \in SUBSET Zones /\ timers \in SUBSET Timers
    BY DEF Init
  <2>6. << >> \in Seq(Nat)
    OBVIOUS
  <2> QED
    BY <2>2, <2>3, <2>4, <2>5, <2>6 DEF Here, States, LinkPairs
<1>2. Sound(Here)
  BY <1>1 DEF Init, Here, Sound
<1> QED
  BY <1>2 DEF Init, IInv

\* A step of a client, of the network, or of anything else.
LEMMA NextIInv == IInv /\ [Next]_vars => IInv'
<1> SUFFICES ASSUME IInv, [Next]_vars PROVE IInv'
  OBVIOUS
<1>1. CASE Client
  BY <1>1, SetTimeKeeps, SetTzKeeps, SetAutosyncKeeps, SetTimeFormatKeeps,
     ActivateNetTimeKeeps DEF Client
<1>2. CASE Network
  BY <1>2, NetTimeSignalKeeps, TimeInfoReplyKeeps, RegistrationSignalKeeps,
     RegistrationReplyKeeps, ReplyLostKeeps, ModeChangeKeeps DEF Network
<1>3. CASE UNCHANGED vars
  BY <1>3 DEF vars, IInv, Here
<1> QED
  BY <1>1, <1>2, <1>3, StartKeeps, StopKeeps, HandleAlarmKeeps, TickKeeps,
     ScriptKeeps DEF Next

THEOREM Invariance == Spec => []IInv
<1>1. Init => IInv
  BY InitIInv
<1>2. IInv /\ [Next]_vars => IInv'
  BY NextIInv
<1> QED
  BY <1>1, <1>2, PTL DEF Spec

-----------------------------------------------------------------------------
(* What it implies *)

\* Every variable has its type, whatever clients, the network, the helper, the
\* file system and the scripts do.
THEOREM TypeCorrect == Spec => []TypeOK
<1>1. IInv => TypeOK
  <2> SUFFICES ASSUME IInv PROVE TypeOK
    OBVIOUS
  <2>1. Here \in States
    BY HereType
  <2>2. \A n \in SavedNames : n = Empty \/ \E z \in Zones : n = Name(":", z)
    BY DEF SavedNames
  <2> QED
    BY <2>1, <2>2 DEF IInv, TypeOK, Here, States, LinkPairs
<1> QED
  BY <1>1, Invariance, PTL

\* The running daemon has exactly one alarm, due within two weeks, and a
\* process that is gone has left none (next_dst_change, handle_alarm).
THEOREM OneAlarm == Spec => []SingleAlarm
<1>1. IInv => SingleAlarm
  BY HereType DEF IInv, SingleAlarm, HasAlarm, Here
<1> QED
  BY <1>1, Invariance, PTL

\* CLOCKD_NET_TIME=disabled keeps autosync off, whatever the file or a client
\* says (server_init_autosync, read_conf, server_set_autosync_cb).
THEOREM Disabled == Spec => []DisabledStaysOff
<1>1. IInv => DisabledStaysOff
  BY DEF IInv, Sound, DisabledStaysOff, Here
<1> QED
  BY <1>1, Invariance, PTL

\* The zone list is the one of the country whose code is cached, or empty since
\* its look-up failed (mcc_tz_update_country_tz_name_list).
THEOREM FreshList == Spec => []CountryListFresh
<1>1. IInv => CountryListFresh
  BY DEF IInv, Sound, CountryListFresh, Here
<1> QED
  BY <1>1, Invariance, PTL
=============================================================================
