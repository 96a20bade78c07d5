------------------------------ MODULE TzNames ------------------------------
(***************************************************************************)
(* Time zone names and the C library's view of them, as clockd uses them   *)
(* (internal_time_utils.c, codec.c and the pure part of mcc_tz_utils.c).   *)
(*                                                                         *)
(* A name is a zone of the zoneinfo tree together with the way it is       *)
(* spelled, because the spelling decides what the code does with it:       *)
(*   ":"    ":Europe/Rome", the spelling clients use                       *)
(*   "/"    "/Europe/Rome", the spelling clockd gives operator zones       *)
(*   "bare" "Europe/Rome", the spelling of the city database               *)
(*   "cut"  "urope/Rome", what is left of a bare name one character on     *)
(*   "bad"  empty, too long, or a digit, sign or comma among the first     *)
(*          three characters: every spelling that the server refuses       *)
(***************************************************************************)
EXTENDS Integers

CONSTANTS
  Zones,       \* zones that names can spell
  UTC,         \* the zone the C library falls back to
  NoZone,      \* "no zone at all"
  Installed,   \* zones that have a file under /usr/share/zoneinfo
  EtcZones,    \* zones whose text contains "Etc/GMT"
  EtcZone,     \* the Etc/GMT zone spelled for an offset in quarters
  Abbr,        \* the abbreviations of a zone on the three sampled dates
  StdOffset,   \* the standard offset of a zone, in quarters of an hour
  Summer,      \* the seconds at which a zone observes daylight saving
  Window       \* two_weeks: how far ahead the DST search looks

ASSUME ZonesAssumption ==
  /\ UTC \in Installed
  /\ Installed \subseteq Zones
  /\ EtcZones \subseteq Zones
  /\ NoZone \notin Zones

ASSUME OffsetAssumption ==
  /\ EtcZone \in [-63..63 -> EtcZones]
  /\ StdOffset \in [Zones -> Int]
  /\ Summer \in [Zones -> SUBSET Nat]
  /\ Window \in Nat \ {0}

-----------------------------------------------------------------------------
(* Names *)

Spellings == {":", "/", "bare", "cut", "bad"}

Name(form, zone) == [form |-> form, zone |-> zone]

\* The empty string.
Empty == Name("", NoZone)

Names == [form : Spellings, zone : Zones] \cup {Empty}

\* &name[1]: the name without its first character.
Tail1(n) ==
  CASE n = Empty -> Empty
    [] n.form \in {":", "/"} -> Name("bare", n.zone)
    [] OTHER -> Name("cut", n.zone)

-----------------------------------------------------------------------------
(* The TZ environment variable *)

\* The zone in effect after internal_setenv_tz(n). Only a name that starts
\* with neither ':' nor a letter reaches the environment (as ":" and the rest);
\* every other one is replaced by "UTC". A zone without a file reads as UTC.
EnvTz(n) == IF n.form = "/" /\ n.zone \in Installed THEN n.zone ELSE UTC

\* The zone in effect after internal_tz_res: the saved value of TZ goes back
\* through internal_setenv_tz, which sees its leading ':' (or "UTC").
RestoredTz(env) == EnvTz(Name(":", env))

\* internal_get_dst for a second that is not 0.
DstAt(zone, t) == t \in Summer[zone]

\* tm_gmtoff, in quarters of an hour.
GmtOffset(zone, t) == StdOffset[zone] + (IF DstAt(zone, t) THEN 4 ELSE 0)

\* Wrong variant: the change within the window is not searched for.
DstDelayUnsearched(zone, tick) == Window

\* next_dst_change: the seconds from tick to the next look at DST, the first
\* second with another DST flag if the flag at the end of the window differs.
\* DstSearch is the loop that finds it, for zones which change their flag at
\* most once in as far as it looks.
DstDelay(zone, tick) ==
  IF DstAt(zone, tick) = DstAt(zone, tick + Window)
  THEN Window
  ELSE CHOOSE k \in 1..Window :
         /\ DstAt(zone, tick + k) # DstAt(zone, tick)
         /\ \A j \in 1..(k - 1) : DstAt(zone, tick + j) = DstAt(zone, tick)

-----------------------------------------------------------------------------
(* Comparing names *)

\* internal_tz_cmp # 0: the texts differ and either one is empty or the two
\* zones, read through the environment, disagree on a sampled abbreviation.
TzDiffer(a, b) ==
  /\ a # b
  /\ \/ Empty \in {a, b}
     \/ Abbr[EnvTz(a)] # Abbr[EnvTz(b)]

\* What internal_tz_cmp leaves in TZ: it goes through the environment, and
\* so clobbers it, when the texts differ and neither is empty.
EnvAfterCmp(env, a, b) ==
  IF a # b /\ Empty \notin {a, b} THEN RestoredTz(env) ELSE env

\* internal_check_timezone = 0: no digit, sign or comma, at least 3 characters.
CheckTimezone(n) == n # Empty /\ n.form # "bad"

-----------------------------------------------------------------------------
(* The zones of a country *)

\* mcc_tz_prepend_tz_name_if_not_dup for each city of the country, in the
\* order of the database: a zone is kept unless it compares equal to one that
\* is kept already. Not to differ is transitive for non-empty names, so this
\* is to differ from every earlier one. The list is kept as a set: as bare
\* names never differ it has one entry at most (CountryZonesSingle of
\* TzNamesProofs), hence no order.
CountryZones(cities) ==
  { cities[i] : i \in { k \in DOMAIN cities :
      \A j \in 1..(k - 1) :
        TzDiffer(Name("bare", cities[j]), Name("bare", cities[k])) } }

\* mcc_tz_is_tz_name_in_country_tz_list: the text from its first letter on,
\* which of a cut name is not the zone's.
InCountry(n, list) == n.form \in {":", "/", "bare"} /\ n.zone \in list

\* mcc_tz_find_tz_in_country_tz_list: the zones of the list that have this
\* offset, and this DST flag unless the network gave none (100).
Fitting(list, t, dst, q) ==
  { z \in list :
      LET here == EnvTz(Name("bare", z)) IN
      /\ GmtOffset(here, t) = q
      /\ dst = 100 \/ DstAt(here, t) = (dst # 0) }

\* mcc_tz_guess_tz_for_country_by_dst_and_offset with
\* mcc_tz_correct_tz_choice, NoZone for NULL.
GuessTz(list, t, dst, q) ==
  LET found == Fitting(list, t, dst, q)
      only  == \E z \in list : list = {z}
  IN CASE found # {} -> CHOOSE z \in found : TRUE
       [] found = {} /\ only -> CHOOSE z \in list : TRUE
       [] OTHER -> NoZone

-----------------------------------------------------------------------------
(* Decoding the network's time message *)

\* The raw time zone field: six bits of quarters and a sign in bit 7, or 100
\* when the network does not send it.
DecodeTz(raw) ==
  LET quarters == raw % 64
  IN IF raw = 100 THEN 100
     ELSE IF (raw \div 128) % 2 = 1 THEN -quarters ELSE quarters

DecodeDst(raw) == IF raw \in 0..2 THEN raw ELSE 100

DecodeFailed == [ok |-> FALSE, time |-> 0, tz |-> 100, dst |-> 100]

\* decode_ctm. A message m has wellTyped (its eight integers are there), dated
\* (none of the date fields is 100), time (the second the date stands for, -1
\* if mktime refuses it), tz and dst (raw). The local `invalid` is set only for
\* an undated message and read for all: uninitialised, it is either value.
Decode(m, now) ==
  IF ~m.wellTyped THEN {DecodeFailed}
  ELSE { IF invalid /\ m.tz = 100 /\ m.dst = 100 THEN DecodeFailed
         ELSE [ok   |-> TRUE,
               time |-> IF invalid THEN now ELSE m.time,
               tz   |-> DecodeTz(m.tz),
               dst  |-> DecodeDst(m.dst)]
         : invalid \in IF m.dated THEN BOOLEAN ELSE {TRUE} }
=============================================================================
