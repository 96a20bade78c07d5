------------------------------- MODULE LibTime -------------------------------
(***************************************************************************)
(* The client library libtime.c in one process: the threads that call it,  *)
(* the semaphore they share, the settings it caches, the TZ variable it    *)
(* keeps and borrows, and its requests to clockd.                          *)
(*                                                                         *)
(* clockd is reduced to what a client can tell: a queue of requests, which *)
(* it answers in order or loses, the settings, which others change too,    *)
(* and the time_changed signal that follows a change.  ClockServer says    *)
(* which changes it announces.                                             *)
(***************************************************************************)
EXTENDS Integers, Sequences

CONSTANTS
  Threads,     \* threads of the application
  Calls,       \* what they call, see CallType
  Others,      \* changes that other clients and the network make
  Settings0,   \* the server's settings at first
  NoZone,      \* the zone of a name without one
  NoFormat,    \* the empty time format
  DstZones,    \* zones in daylight saving
  Lossy,       \* keys whose requests may be lost, or not answered in time
  MaxQueue     \* bound on the requests at the server

\* A zone name as the library sees it: a zone, and the character before it.
NoTz == [form |-> "", zone |-> NoZone]

\* TZ when nobody has set it: the C library reads /etc/localtime.
Unset == [form |-> "unset", zone |-> NoZone]

\* The settings, in the order in which get_synced fetches them.
Order == <<"tz", "time_format", "operator_time", "autosync", "default_tz">>

Keys == { Order[i] : i \in DOMAIN Order }

\* A call of the interface is one of: time_get_synced; a set request; a request
\* that is not cached (time_get_net_time); a read of a cached setting; a use of
\* local time; and one that borrows TZ for another zone, which without a zone
\* (NULL) is a use of local time.
CallType(c) ==
  \/ c.kind \in {"sync", "ask", "local"}
  \/ c.kind = "set" /\ c.key \in {"tz", "time_format", "autosync", "time"}
  \/ c.kind = "read" /\ c.key \in Keys
  \/ c.kind = "dst" /\ c.tz.form # "unset"

\* Settings that are a boolean on the bus and a bool here (s_autosync_enabled,
\* s_operator_time_available), and its values.
Flags == {"autosync", "operator_time"}
Bits == {"0", "1"}

ASSUME LibTimeAssumption ==
  /\ \A c \in Calls : CallType(c)
  /\ \A c \in Calls : c.kind = "set" /\ c.key \in Flags => c.val \in Bits
  /\ \A c \in Others : c.key \in Keys /\ (c.key \in Flags => c.val \in Bits)
  /\ Keys \cup {"time", "net_time"} = DOMAIN Settings0
  /\ \A k \in Flags : Settings0[k] \in Bits
  /\ Lossy \subseteq DOMAIN Settings0 /\ MaxQueue \in Nat

VARIABLES
  \* statics of libtime.c, and TZ
  sem_time, s_inited,
  cache,        \* s_tz, s_time_format, s_operator_time_available, ...
  env,
  \* each thread
  pc,           \* "idle", or the point it has reached in a call
  call,         \* the call it makes, or made last
  at,           \* the setting it fetches next, or behind the last one
  tries,        \* how often client_get_rsp may still send
  answer,       \* what the blocking call has received
  tzOk,         \* client_get_tz succeeded
  result,       \* what the call returned
  \* the server and the bus
  server,       \* its settings
  queue,        \* requests under way to it
  told,         \* a time_changed signal has not been handled yet
  \* histories, read by no action
  missed,       \* settings whose last fetch failed
  silent        \* settings changed without a signal since they were fetched

lib == <<sem_time, s_inited, cache, env>>
threads == <<pc, call, at, tries, answer, tzOk, result>>
outside == <<server, queue, told>>
histories == <<missed, silent>>
vars == <<lib, threads, outside, histories>>

Nothing == [state |-> "none", value |-> NoZone]
Error == [state |-> "error", value |-> NoZone]
Value(v) == [state |-> "value", value |-> v]

Init ==
  /\ sem_time = 1 /\ s_inited = FALSE /\ env = Unset
  /\ cache = [k \in Keys |-> CASE k \in {"tz", "default_tz"} -> NoTz
                               [] k = "time_format" -> NoFormat
                               [] OTHER -> "0"]
  /\ pc = [t \in Threads |-> "idle"]
  /\ call = [t \in Threads |-> [kind |-> "local"]]
  /\ at = [t \in Threads |-> 1]
  /\ tries = [t \in Threads |-> 0]
  /\ answer = [t \in Threads |-> Nothing]
  /\ tzOk = [t \in Threads |-> FALSE]
  /\ result = [t \in Threads |-> "none"]
  /\ server = Settings0 /\ queue = << >> /\ told = FALSE
  /\ missed = {} /\ silent = {}

GoesTo(t, p) == pc' = [pc EXCEPT ![t] = p]

\* t gives the semaphore back and returns r; its locals are gone.
Returns(t, r) ==
  /\ sem_time' = sem_time + 1
  /\ GoesTo(t, "idle")
  /\ result' = [result EXCEPT ![t] = r]
  /\ at' = [at EXCEPT ![t] = 1]
  /\ tries' = [tries EXCEPT ![t] = 0]

-----------------------------------------------------------------------------
(* Calling the library *)

\* The application calls time_get_synced when it handles time_changed, and
\* whatever it likes at other times.
Call(t, c) ==
  /\ pc[t] = "idle"
  /\ GoesTo(t, "enter")
  /\ call' = [call EXCEPT ![t] = c]
  /\ result' = [result EXCEPT ![t] = "none"]
  /\ told' = (told /\ c.kind # "sync")
  /\ UNCHANGED <<lib, at, tries, answer, tzOk, server, queue, histories>>

\* Wrong variant: time_get_synced does not wait for the semaphore.
EnterSyncAlways(t) ==
  /\ pc[t] = "enter"
  /\ sem_time > 0 \/ call[t].kind = "sync"
  /\ sem_time' = sem_time - 1
  /\ IF call[t].kind = "sync" \/ ~s_inited
     THEN GoesTo(t, "sync") /\ at' = [at EXCEPT ![t] = 1]
     ELSE GoesTo(t, "body") /\ at' = [at EXCEPT ![t] = Len(Order) + 1]
  /\ UNCHANGED <<s_inited, cache, env, call, tries, answer, tzOk, result,
                 outside, histories>>

\* sem_wait, and the choice of TIME_TRY_INIT_SYNC.
Enter(t) ==
  /\ pc[t] = "enter"
  /\ sem_time > 0
  /\ sem_time' = sem_time - 1
  /\ IF call[t].kind = "sync" \/ ~s_inited
     THEN GoesTo(t, "sync") /\ at' = [at EXCEPT ![t] = 1]
     ELSE GoesTo(t, "body") /\ at' = [at EXCEPT ![t] = Len(Order) + 1]
  /\ UNCHANGED <<s_inited, cache, env, call, tries, answer, tzOk, result,
                 outside, histories>>

-----------------------------------------------------------------------------
(* client_get_rsp: a blocking request, sent at most twice *)

Request(t) ==
  IF at[t] <= Len(Order) THEN [kind |-> "get", key |-> Order[at[t]]]
  ELSE IF call[t].kind = "ask" THEN [kind |-> "get", key |-> "net_time"]
  ELSE call[t]

\* No reply to an earlier request of t can reach it any more: replies go to
\* the connection the request came from, and that is closed.
Hangup(t) ==
  [i \in DOMAIN queue |->
     IF queue[i].by = t THEN [queue[i] EXCEPT !.live = FALSE] ELSE queue[i]]

\* Wrong variant: the connection is kept for the second attempt of a set.
PostAgain(t) ==
  LET before == IF Request(t).kind = "set" THEN queue ELSE Hangup(t) IN
  \/ /\ Len(queue) < MaxQueue
     /\ queue' = Append(before, [by |-> t, live |-> TRUE, req |-> Request(t)])
     /\ answer' = [answer EXCEPT ![t] = Nothing]
  \/ /\ Request(t).key \in Lossy /\ queue' = before
     /\ answer' = [answer EXCEPT ![t] = Error]

\* The request is sent on an open connection, or no connection can be had.
Post(t) ==
  \/ /\ Len(queue) < MaxQueue
     /\ queue' = Append(Hangup(t), [by |-> t, live |-> TRUE, req |-> Request(t)])
     /\ answer' = [answer EXCEPT ![t] = Nothing]
  \/ /\ Request(t).key \in Lossy /\ queue' = Hangup(t)
     /\ answer' = [answer EXCEPT ![t] = Error]

Send(t) ==
  /\ \/ pc[t] = "sync" /\ at[t] <= Len(Order)
     \/ pc[t] = "body" /\ call[t].kind \in {"set", "ask"}
  /\ GoesTo(t, "wait")
  /\ tries' = [tries EXCEPT ![t] = 1]
  /\ Post(t)
  /\ UNCHANGED <<lib, call, at, tzOk, result, server, told, histories>>

\* An error in place of a reply, or none within the timeout of the bus.
NoReply(t) ==
  /\ pc[t] = "wait"
  /\ \/ answer[t] = Error
     \/ answer[t] = Nothing /\ Request(t).key \in Lossy

\* The connection is closed, and the request sent again on a new one.
Resend(t) ==
  /\ NoReply(t) /\ tries[t] > 0
  /\ tries' = [tries EXCEPT ![t] = @ - 1]
  /\ Post(t)
  /\ UNCHANGED <<lib, pc, call, at, tzOk, result, server, told, histories>>

-----------------------------------------------------------------------------
(* get_synced *)

\* client_get_tz: the name is cached with a colon for a slash, and TZ set to it
\* if the server has a zone.
Colon(n) == IF n.form = "/" THEN [n EXCEPT !.form = ":"] ELSE n

\* A setting as the client_get_ functions cache it; an empty format or default
\* zone leaves what there was.
Seen(key, v) ==
  CASE key = "tz" -> Colon(v)
    [] key = "time_format" /\ v = NoFormat -> cache[key]
    [] key = "default_tz" /\ v = NoTz -> cache[key]
    [] OTHER -> v

\* A client_get_ function waits.
Fetches(t) == pc[t] = "wait" /\ at[t] <= Len(Order)

Fetch(t) ==
  /\ Fetches(t) /\ answer[t].state = "value"
  /\ LET key == Order[at[t]]
         v == Seen(key, answer[t].value)
     IN /\ cache' = [cache EXCEPT ![key] = v]
        /\ env' = IF key = "tz" /\ v # NoTz THEN v ELSE env
        /\ tzOk' = [tzOk EXCEPT ![t] = @ \/ key = "tz"]
        /\ missed' = missed \ {key}
  /\ at' = [at EXCEPT ![t] = @ + 1]
  /\ tries' = [tries EXCEPT ![t] = 0]
  /\ GoesTo(t, "sync")
  /\ answer' = [answer EXCEPT ![t] = Nothing]
  /\ UNCHANGED <<sem_time, s_inited, call, result, outside, silent>>

\* Neither sending was answered: the cache keeps what it has.
Miss(t) ==
  /\ Fetches(t) /\ NoReply(t) /\ tries[t] = 0
  /\ queue' = Hangup(t)
  /\ tzOk' = [tzOk EXCEPT ![t] = @ /\ Order[at[t]] # "tz"]
  /\ missed' = missed \cup {Order[at[t]]}
  /\ at' = [at EXCEPT ![t] = @ + 1]
  /\ GoesTo(t, "sync")
  /\ answer' = [answer EXCEPT ![t] = Nothing]
  /\ UNCHANGED <<lib, call, tries, result, server, told, silent>>

\* What a call returns if it cannot be initialised.
InitFailure(c) == IF c.kind = "sync" THEN "1" ELSE "-1"

\* Wrong variant: the semaphore is kept when the initialisation fails.
SyncedKeeping(t) ==
  /\ pc[t] = "sync" /\ at[t] > Len(Order)
  /\ \/ /\ ~tzOk[t]
        /\ GoesTo(t, "idle")
        /\ result' = [result EXCEPT ![t] = InitFailure(call[t])]
        /\ UNCHANGED <<sem_time, s_inited, at, tries>>
     \/ /\ tzOk[t] /\ call[t].kind = "sync"
        /\ GoesTo(t, "mark") /\ sem_time' = sem_time + 1
        /\ UNCHANGED <<s_inited, result, at, tries>>
     \/ /\ tzOk[t] /\ call[t].kind # "sync"
        /\ GoesTo(t, "body") /\ s_inited' = TRUE
        /\ UNCHANGED <<sem_time, result, at, tries>>
  /\ tzOk' = [tzOk EXCEPT ![t] = FALSE]
  /\ UNCHANGED <<cache, env, call, answer, outside, histories>>

\* get_synced is done, and the zone decides whether it has failed.
Synced(t) ==
  /\ pc[t] = "sync" /\ at[t] > Len(Order)
  /\ \/ /\ ~tzOk[t]
        /\ Returns(t, InitFailure(call[t])) /\ UNCHANGED s_inited
     \/ /\ tzOk[t] /\ call[t].kind = "sync"
        /\ GoesTo(t, "mark") /\ sem_time' = sem_time + 1
        /\ UNCHANGED <<s_inited, result, at, tries>>
     \/ /\ tzOk[t] /\ call[t].kind # "sync"
        /\ GoesTo(t, "body") /\ s_inited' = TRUE
        /\ UNCHANGED <<sem_time, result, at, tries>>
  /\ tzOk' = [tzOk EXCEPT ![t] = FALSE]
  /\ UNCHANGED <<cache, env, call, answer, outside, histories>>

\* time_get_synced sets s_inited when it has left the semaphore.
Mark(t) ==
  /\ pc[t] = "mark"
  /\ s_inited' = TRUE
  /\ GoesTo(t, "idle")
  /\ result' = [result EXCEPT ![t] = "0"]
  /\ at' = [at EXCEPT ![t] = 1]
  /\ UNCHANGED <<sem_time, cache, env, call, tries, answer, tzOk, outside,
                 histories>>

-----------------------------------------------------------------------------
(* The bodies *)

\* client_set_time_format, client_set_autosync and client_set_tz cache a value
\* that the server accepted, a zone as the caller spelled it; the time and the
\* request to activate the network's time are not cached.
Stored(c) ==
  IF c.key \in Keys THEN [cache EXCEPT ![c.key] = c.val] ELSE cache

\* client_set_tz sets TZ as well.
StoredTz(c) == IF c.key = "tz" THEN c.val ELSE env

\* Wrong variant: the cache takes the value that was asked for.
AnsweredOptimistically(t) ==
  /\ pc[t] = "wait" /\ at[t] > Len(Order) /\ call[t].kind = "set"
  /\ \/ answer[t].state = "value"
     \/ NoReply(t) /\ tries[t] = 0
  /\ queue' = Hangup(t)
  /\ cache' = Stored(call[t]) /\ env' = StoredTz(call[t])
  /\ Returns(t, IF answer[t] = Value(TRUE) THEN "0" ELSE "-1")
  /\ answer' = [answer EXCEPT ![t] = Nothing]
  /\ UNCHANGED <<s_inited, call, tzOk, server, told, histories>>

\* The caller is told what the server said, or that it said nothing.
Answered(t) ==
  /\ pc[t] = "wait" /\ at[t] > Len(Order) /\ call[t].kind = "set"
  /\ \/ answer[t].state = "value"
     \/ NoReply(t) /\ tries[t] = 0
  /\ queue' = Hangup(t)
  /\ LET ok == answer[t] = Value(TRUE)
     IN /\ cache' = IF ok THEN Stored(call[t]) ELSE cache
        /\ env' = IF ok THEN StoredTz(call[t]) ELSE env
        /\ Returns(t, IF ok THEN "0" ELSE "-1")
  /\ answer' = [answer EXCEPT ![t] = Nothing]
  /\ UNCHANGED <<s_inited, call, tzOk, server, told, histories>>

\* time_get_net_time hands on what the server says.
Asked(t) ==
  /\ pc[t] = "wait" /\ at[t] > Len(Order) /\ call[t].kind = "ask"
  /\ \/ answer[t].state = "value" /\ Returns(t, "0")
     \/ NoReply(t) /\ tries[t] = 0 /\ Returns(t, "-1")
  /\ queue' = Hangup(t)
  /\ answer' = [answer EXCEPT ![t] = Nothing]
  /\ UNCHANGED <<s_inited, cache, env, call, tzOk, server, told,
                 histories>>

\* time_get_timezone, time_get_time_format, time_get_autosync and the like.
Read(t) ==
  /\ pc[t] = "body" /\ call[t].kind = "read"
  /\ Returns(t, IF call[t].key \in {"autosync", "operator_time"}
                THEN cache[call[t].key] ELSE "0")
  /\ UNCHANGED <<s_inited, cache, env, call, answer, tzOk, outside,
                 histories>>

\* time_get_local, time_get_tzname, time_format_time and the like use TZ.
Local(t) ==
  /\ pc[t] = "body" /\ call[t].kind = "local"
  /\ Returns(t, "0")
  /\ UNCHANGED <<s_inited, cache, env, call, answer, tzOk, outside,
                 histories>>

\* time_mktime, time_get_remote, time_get_utc_offset, time_get_dst_usage and
\* time_get_time_diff set TZ to another zone ...
Borrow(t) ==
  /\ pc[t] = "body" /\ call[t].kind = "dst"
  /\ env' = call[t].tz
  /\ GoesTo(t, "abroad")
  /\ UNCHANGED <<sem_time, s_inited, cache, call, at, tries, answer, tzOk,
                 result, outside, histories>>

\* Wrong variant: TZ is not put back.
GiveBackNothing(t) ==
  /\ pc[t] = "abroad"
  /\ Returns(t, IF env.zone \in DstZones THEN "1" ELSE "-1")
  /\ UNCHANGED <<s_inited, cache, env, call, answer, tzOk, outside,
                 histories>>

\* ... and then to the cached one. The result is time_get_dst_usage's, which
\* is 1 if the zone is in daylight saving, and else what it started from.
GiveBack(t) ==
  /\ pc[t] = "abroad"
  /\ env' = cache["tz"]
  /\ Returns(t, IF env.zone \in DstZones THEN "1" ELSE "-1")
  /\ UNCHANGED <<s_inited, cache, call, answer, tzOk, outside,
                 histories>>

-----------------------------------------------------------------------------
(* The server and everybody else *)

\* What can become of a request to set k: the value is taken and announced; it
\* is refused; or it is taken, but the reply says failure and nothing is
\* announced (the clock, or settings whose file could not be written).
Outcomes(k) ==
  IF k = "tz" THEN {"taken", "refused"} ELSE {"taken", "refused", "silent"}

\* The reply reaches the thread if it still waits on the same connection.
Replies(q, v) ==
  answer' = IF q.live THEN [answer EXCEPT ![q.by] = Value(v)] ELSE answer

ServeGet ==
  /\ queue # << >> /\ Head(queue).req.kind = "get"
  /\ LET q == Head(queue) IN
     /\ Replies(q, server[q.req.key])
     /\ silent' = IF q.live THEN silent \ {q.req.key} ELSE silent
  /\ queue' = Tail(queue)
  /\ UNCHANGED <<lib, pc, call, at, tries, tzOk, result, server, told, missed>>

ServeSet ==
  /\ queue # << >> /\ Head(queue).req.kind = "set"
  /\ LET q == Head(queue) IN
     \E o \in Outcomes(q.req.key) :
       /\ Replies(q, o = "taken")
       /\ server' = IF o = "refused" THEN server
                    ELSE [server EXCEPT ![q.req.key] = q.req.val]
       /\ told' = (told \/ o = "taken")
       /\ silent' = IF o = "silent" THEN silent \cup {q.req.key} ELSE silent
  /\ queue' = Tail(queue)
  /\ UNCHANGED <<lib, pc, call, at, tries, tzOk, result, missed>>

\* The server dies with a request, and the bus says so.
LoseRequest ==
  /\ queue # << >> /\ Head(queue).req.key \in Lossy
  /\ LET q == Head(queue) IN
     answer' = IF q.live THEN [answer EXCEPT ![q.by] = Error] ELSE answer
  /\ queue' = Tail(queue)
  /\ UNCHANGED <<lib, pc, call, at, tries, tzOk, result, server, told, histories>>

\* Another client or the network changes a setting.
Change(c) ==
  /\ server[c.key] # c.val
  /\ server' = [server EXCEPT ![c.key] = c.val]
  /\ told' = TRUE
  /\ UNCHANGED <<lib, threads, queue, histories>>

-----------------------------------------------------------------------------
(* The specification *)

\* What t does by itself once it has the semaphore.
Step(t) ==
  \/ Send(t) \/ Resend(t) \/ Fetch(t) \/ Miss(t) \/ Synced(t) \/ Mark(t)
  \/ Answered(t) \/ Asked(t) \/ Read(t) \/ Local(t) \/ Borrow(t) \/ GiveBack(t)

Next ==
  \/ \E t \in Threads : (\E c \in Calls : Call(t, c)) \/ Enter(t) \/ Step(t)
  \/ ServeGet \/ ServeSet \/ LoseRequest
  \/ \E c \in Others : Change(c)

Spec == Init /\ [][Next]_vars

-----------------------------------------------------------------------------
(* Properties *)

\* Every variable has its type; the semaphore is a binary one (sem_init).
TypeOK ==
  /\ sem_time \in {0, 1} /\ s_inited \in BOOLEAN
  /\ DOMAIN cache = Keys
  /\ pc \in [Threads -> {"idle", "enter", "sync", "wait", "mark", "body",
                          "abroad"}]
  /\ \A t \in Threads :
       /\ CallType(call[t])
       /\ at[t] \in 1 .. Len(Order) + 1 /\ tries[t] \in 0 .. 1
       /\ answer[t].state \in {"none", "error", "value"}
       /\ tzOk[t] \in BOOLEAN /\ result[t] \in {"none", "0", "1", "-1"}
  /\ DOMAIN server = DOMAIN Settings0 /\ told \in BOOLEAN
  /\ \A i \in DOMAIN queue : queue[i].by \in Threads /\ queue[i].live \in BOOLEAN
  /\ missed \subseteq Keys /\ silent \subseteq DOMAIN Settings0

\* An application that calls time_get_synced for every time_changed has the
\* server's settings whenever no thread is inside: neither a lost or repeated
\* request, nor a set that others overtake, nor the late s_inited of
\* time_get_synced can make the cache differ for good. Exempt are what a fetch
\* failed to bring, and what the server changed without announcing it.
Coherent ==
  (/\ sem_time = 1 /\ s_inited /\ ~told
   /\ \A t \in Threads : ~(pc[t] = "enter" /\ call[t].kind = "sync"))
  => \A k \in Keys \ (missed \cup silent) : cache[k] = Seen(k, server[k])

\* TZ is abroad only for the thread that borrowed it (time_mktime,
\* time_get_remote and the like), and at the cached zone for everybody else.
TzAtHome ==
  /\ \A t \in Threads : pc[t] = "abroad" => env = call[t].tz
  /\ (\A t \in Threads : pc[t] # "abroad") => cache["tz"] \in {NoTz, env}

\* A set that has returned 0 is over: no second copy of it, sent by the retry
\* of client_get_rsp, is still on its way to undo what comes later.
NoLateCopy ==
  \A t \in Threads :
    call[t].kind = "set" /\ result[t] = "0" =>
      \A i \in DOMAIN queue : queue[i].by # t

\* Whatever is lost, the semaphore is held by exactly one thread or by none: an
\* early return that kept it would stop every thread for good.
SemaphoreHeld ==
  LET holders == { t \in Threads : pc[t] \in {"sync", "wait", "body", "abroad"} }
  IN IF sem_time = 1 THEN holders = {} ELSE \E t \in Threads : holders = {t}
=============================================================================
