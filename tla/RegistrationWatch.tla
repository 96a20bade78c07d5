-------------------------- MODULE RegistrationWatch --------------------------
(***************************************************************************)
(* How mcc_tz_utils.c follows the country that the phone is registered in: *)
(* it asks the network daemon (csd) for the registration status, then has  *)
(* the bus match its signal, and takes answers and signals as they come.   *)
(*                                                                         *)
(* Between clockd, the bus and csd messages travel in order. The bus hands *)
(* a signal to clockd if it has the match when the signal passes. Adding   *)
(* and removing the match blocks clockd; asking does not.                  *)
(***************************************************************************)
EXTENDS Integers, Sequences, FiniteSets

CONSTANTS
  Codes,      \* country codes
  NoCode,     \* mcc_cache while the phone is not registered
  MaxCalls,   \* bound on the questions whose answer clockd has not handled
  MaxSignals  \* bound on the signals that have neither been handled nor lost

ASSUME WatchAssumption ==
  /\ NoCode \notin Codes
  /\ MaxCalls \in Nat \ {0} /\ MaxSignals \in Nat \ {0}

VARIABLES
  \* clockd
  autosync,   \* get_autosync_enabled
  installed,  \* registration_status_change_dbus_handler_installed
  mcc_cache,
  pc,         \* "loop", or the blocking call it is in: "add", "remove"
  \* the bus
  out,        \* from clockd: "status?", "add", "remove"
  matches,    \* how often it has the match
  in,         \* to clockd: messages, and answers of the bus
  \* csd
  reg,        \* where the phone is registered
  asked,      \* questions that have reached csd
  csd,        \* from csd to the bus
  \* history, read by no action: the last change passed the bus without a match,
  \* "gap" while clockd waited for it, "off" at another time, "error" if the
  \* question that was to make up for it has failed; "no" if it came through
  behind

clockd == <<autosync, installed, mcc_cache, pc>>
bus == <<out, matches, in>>
network == <<reg, asked, csd>>
vars == <<clockd, bus, network, behind>>

Init ==
  /\ autosync = FALSE /\ installed = FALSE /\ mcc_cache = NoCode /\ pc = "loop"
  /\ out = << >> /\ matches = 0 /\ in = << >>
  /\ reg \in Codes \cup {NoCode} /\ asked = 0 /\ csd = << >>
  /\ behind = "off"

Message(kind, code) == [kind |-> kind, code |-> code]

\* Where s has messages of one of these kinds, and how many.
At(kinds, s) == { i \in DOMAIN s : s[i].kind \in kinds }

Count(kinds, s) == Cardinality(At(kinds, s))

Calls ==
  Cardinality({ i \in DOMAIN out : out[i] = "status?" }) + asked
    + Count({"reply", "error"}, csd) + Count({"reply", "error"}, in)

-----------------------------------------------------------------------------
(* clockd *)

\* Wrong variant: the match is added without a look at the flag.
SetupAgain(on) ==
  /\ pc = "loop"
  /\ Calls < MaxCalls
  /\ autosync' = on
  /\ out' = out \o (IF on THEN <<"status?", "add">> ELSE << >>)
                \o (IF ~on /\ installed THEN <<"remove">> ELSE << >>)
  /\ pc' = CASE on -> "add" [] ~on /\ installed -> "remove" [] OTHER -> "loop"
  /\ UNCHANGED <<installed, mcc_cache, matches, in, network, behind>>

\* Wrong variant: a country that is known already is not asked for.
SetupFromCache(on) ==
  /\ pc = "loop"
  /\ Calls < MaxCalls
  /\ autosync' = on
  /\ out' = out \o (IF on /\ mcc_cache = NoCode THEN <<"status?">> ELSE << >>)
                \o (IF on /\ ~installed THEN <<"add">> ELSE << >>)
                \o (IF ~on /\ installed THEN <<"remove">> ELSE << >>)
  /\ pc' = CASE on /\ ~installed -> "add"
             [] ~on /\ installed -> "remove"
             [] OTHER -> "loop"
  /\ UNCHANGED <<installed, mcc_cache, matches, in, network, behind>>

\* server_set_autosync_cb, and the call at the start: with autosync on, ask, and
\* add the match unless it is there; with autosync off, remove it if it is.
Setup(on) ==
  /\ pc = "loop"
  /\ Calls < MaxCalls
  /\ autosync' = on
  /\ out' = out \o (IF on THEN <<"status?">> ELSE << >>)
                \o (IF on /\ ~installed THEN <<"add">> ELSE << >>)
                \o (IF ~on /\ installed THEN <<"remove">> ELSE << >>)
  /\ pc' = CASE on /\ ~installed -> "add"
             [] ~on /\ installed -> "remove"
             [] OTHER -> "loop"
  /\ UNCHANGED <<installed, mcc_cache, matches, in, network, behind>>

\* What stands in the queue before the answer of the bus waits for the loop.
Without(i) == SubSeq(in, 1, i - 1) \o SubSeq(in, i + 1, Len(in))

\* dbus_bus_remove_match returns.
Removed ==
  /\ pc = "remove"
  /\ \E i \in At({"done", "refused"}, in) :
       /\ in' = Without(i)
       /\ installed' = (in[i].kind = "refused")
  /\ pc' = "loop"
  /\ UNCHANGED <<autosync, mcc_cache, out, matches, network, behind>>

\* Wrong variant: a match that was refused counts as added.
AddedAnyway ==
  /\ pc = "add"
  /\ \E i \in At({"done", "refused"}, in) : in' = Without(i)
  /\ installed' = TRUE
  /\ pc' = "loop"
  /\ UNCHANGED <<autosync, mcc_cache, out, matches, network, behind>>

\* dbus_bus_add_match returns.
Added ==
  /\ pc = "add"
  /\ \E i \in At({"done", "refused"}, in) :
       /\ in' = Without(i)
       /\ installed' = (in[i].kind = "done")
  /\ pc' = "loop"
  /\ UNCHANGED <<autosync, mcc_cache, out, matches, network, behind>>

\* server_filter for a signal, mcc_tz_registration_status_reply_dbus_cb for a
\* reply; an error reply changes nothing.
Handle ==
  /\ pc = "loop" /\ in # << >>
  /\ mcc_cache' = IF Head(in).kind = "error" THEN mcc_cache ELSE Head(in).code
  /\ in' = Tail(in)
  /\ UNCHANGED <<autosync, installed, pc, out, matches, network, behind>>

-----------------------------------------------------------------------------
(* The bus *)

\* A question goes on to csd; the match is added or removed, or refused for
\* want of memory or of room for another rule.
FromClockd ==
  /\ out # << >>
  /\ out' = Tail(out)
  /\ \/ Head(out) = "status?" /\ asked' = asked + 1 /\ UNCHANGED <<matches, in>>
     \/ /\ Head(out) \in {"add", "remove"}
        /\ \/ /\ in' = Append(in, Message("done", NoCode))
              /\ matches' = IF Head(out) = "add" THEN matches + 1 ELSE matches - 1
           \/ in' = Append(in, Message("refused", NoCode)) /\ UNCHANGED matches
        /\ UNCHANGED asked
  /\ UNCHANGED <<clockd, reg, csd, behind>>

\* A reply goes to clockd, a signal if there is a match.
FromCsd ==
  /\ csd # << >>
  /\ csd' = Tail(csd)
  /\ IF Head(csd).kind = "signal" /\ matches = 0
     THEN /\ behind' = IF pc = "add" THEN "gap" ELSE "off"
          /\ UNCHANGED in
     ELSE /\ behind' = IF Head(csd).kind # "error" THEN "no"
                       ELSE IF behind = "no" THEN "no" ELSE "error"
          /\ in' = Append(in, Head(csd))
  /\ UNCHANGED <<clockd, out, matches, reg, asked>>

-----------------------------------------------------------------------------
(* csd *)

\* The phone registers in another country, or loses the network.
Register(code) ==
  /\ code # reg /\ Count({"signal"}, csd) + Count({"signal"}, in) < MaxSignals
  /\ reg' = code
  /\ csd' = Append(csd, Message("signal", code))
  /\ UNCHANGED <<clockd, bus, asked, behind>>

\* csd answers, or clockd's question times out.
Answer ==
  /\ asked > 0
  /\ asked' = asked - 1
  /\ \/ csd' = Append(csd, Message("reply", reg))
     \/ csd' = Append(csd, Message("error", NoCode))
  /\ UNCHANGED <<clockd, bus, reg, behind>>

-----------------------------------------------------------------------------
(* The specification *)

Next ==
  \/ \E on \in BOOLEAN : Setup(on)
  \/ \E code \in Codes \cup {NoCode} : Register(code)
  \/ Removed \/ Added \/ Handle \/ FromClockd \/ FromCsd \/ Answer

Spec == Init /\ [][Next]_vars

-----------------------------------------------------------------------------
(* Properties *)

Messages ==
  [kind : {"signal", "reply", "error", "done", "refused"}, code : Codes \cup {NoCode}]

\* Every variable has its type; clockd never has the match twice, and waits for
\* one answer of the bus at most.
TypeOK ==
  /\ autosync \in BOOLEAN /\ installed \in BOOLEAN
  /\ mcc_cache \in Codes \cup {NoCode} /\ pc \in {"loop", "add", "remove"}
  /\ out \in Seq({"status?", "add", "remove"}) /\ matches \in {0, 1}
  /\ in \in Seq(Messages) /\ reg \in Codes \cup {NoCode}
  /\ asked \in 0 .. MaxCalls /\ csd \in Seq(Messages)
  /\ behind \in {"no", "gap", "off", "error"}
  /\ Count({"done", "refused"}, in) <= (IF pc = "loop" THEN 0 ELSE 1)

\* What clockd believes of its match is true: a match that was refused, or could
\* not be removed, is tried again the next time (handler_installed).
MatchAsBelieved == pc = "loop" => (installed <=> matches = 1)

\* Nothing is under way.
Quiet == pc = "loop" /\ out = << >> /\ in = << >> /\ asked = 0 /\ csd = << >>

\* While autosync is on and the match is there, the cached country is the one
\* the phone is registered in, however answers and signals cross, with two
\* exceptions: a change after csd has answered and before the bus has the match
\* (mcc_tz_utils.c asks before it adds the match), and a question that failed.
UpToDate ==
  Quiet /\ autosync /\ installed /\ behind \notin {"gap", "error"} => mcc_cache = reg
=============================================================================
