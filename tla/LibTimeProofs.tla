--------------------------- MODULE LibTimeProofs ---------------------------
(***************************************************************************)
(* The semaphore of the library excludes, and whoever has borrowed TZ has  *)
(* it for himself, for any number of threads, calls, losses and servers;   *)
(* and what the library caches agrees with the server.                     *)
(***************************************************************************)
EXTENDS LibTime, SequenceTheorems, TLAPS

\* The points at which a thread is inside.
Inside == {"sync", "wait", "body", "abroad"}

Points == {"idle", "enter", "mark"} \cup Inside

\* Two threads are never inside, and none is when the semaphore is free.
Excluded ==
  /\ sem_time \in {0, 1}
  /\ \A t \in Threads : pc[t] \in Inside => sem_time = 0
  /\ sem_time = 0 => \E t \in Threads : pc[t] \in Inside
  /\ \A t, u \in Threads : pc[t] \in Inside /\ pc[u] \in Inside => t = u

Typed ==
  /\ pc \in [Threads -> Points] /\ DOMAIN cache = Keys
  /\ DOMAIN call = Threads

IInv == Typed /\ Excluded /\ TzAtHome

\* A thread goes on to another point.
Moved(t, to) == pc' = [pc EXCEPT ![t] = to]

LEMMA TzIsAKey == "tz" \in Keys
BY DEF Keys, Order

LEMMA InitIInv == Init => IInv
<1>1. SUFFICES ASSUME Init PROVE IInv
  OBVIOUS
<1>2. Typed
  BY <1>1 DEF Init, Typed, Points, Inside
<1>3. Excluded
  BY <1>1 DEF Init, Excluded, Inside
<1>4. cache["tz"] = NoTz
  BY <1>1, TzIsAKey DEF Init
<1>5. TzAtHome
  BY <1>1, <1>4 DEF Init, TzAtHome
<1> QED
  BY <1>2, <1>3, <1>5 DEF IInv

-----------------------------------------------------------------------------
(* The semaphore *)

\* A thread that is inside moves on, or leaves.
LEMMA StaysInside ==
  ASSUME Typed, Excluded, NEW t \in Threads, NEW to \in Points,
         pc[t] \in Inside, Moved(t, to),
         \/ to \in Inside /\ sem_time' = sem_time
         \/ to \notin Inside /\ sem_time' = sem_time + 1
  PROVE  Excluded' /\ pc' \in [Threads -> Points]
BY DEF Typed, Excluded, Moved

\* A thread that is outside moves without entering.
LEMMA StaysOutside ==
  ASSUME Typed, Excluded, NEW t \in Threads, NEW to \in Points,
         pc[t] \notin Inside, to \notin Inside, Moved(t, to), sem_time' = sem_time
  PROVE  Excluded' /\ pc' \in [Threads -> Points]
BY DEF Typed, Excluded, Moved

\* A thread enters when the semaphore is free.
LEMMA Enters ==
  ASSUME Typed, Excluded, NEW t \in Threads, NEW to \in Inside,
         sem_time > 0, sem_time' = sem_time - 1, Moved(t, to)
  PROVE  Excluded' /\ pc' \in [Threads -> Points]
BY DEF Typed, Excluded, Moved, Points

\* The steps of a thread, with what they do to the semaphore.
LEMMA ExclusionStep ==
  ASSUME IInv, NEW t \in Threads,
         (\E c \in Calls : Call(t, c)) \/ Enter(t) \/ Step(t)
  PROVE  Excluded' /\ Typed'
<1>0. Typed /\ Excluded
  BY DEF IInv
<1>1. CASE \E c \in Calls : Call(t, c)
  <2>1. Moved(t, "enter") /\ pc[t] = "idle" /\ sem_time' = sem_time
    BY <1>1 DEF Call, GoesTo, Moved, lib
  <2>2. Excluded' /\ pc' \in [Threads -> Points]
    BY <1>0, <2>1, StaysOutside DEF Points, Inside
  <2> QED
    BY <1>0, <1>1, <2>2 DEF Call, Typed, lib
<1>2. CASE Enter(t)
  <2>1. \E to \in {"sync", "body"} : Moved(t, to)
    BY <1>2 DEF Enter, GoesTo, Moved
  <2>2. Excluded' /\ pc' \in [Threads -> Points]
    BY <1>0, <1>2, <2>1, Enters DEF Enter, Inside
  <2> QED
    BY <1>0, <1>2, <2>2 DEF Enter, Typed, Order
<1>3. CASE Send(t)
  <2>1. Moved(t, "wait") /\ pc[t] \in Inside /\ sem_time' = sem_time
    BY <1>3 DEF Send, GoesTo, Moved, lib, Inside
  <2>2. Excluded' /\ pc' \in [Threads -> Points]
    BY <1>0, <2>1, StaysInside DEF Points, Inside
  <2> QED
    BY <1>0, <1>3, <2>2 DEF Send, Typed, lib
<1>4. CASE Resend(t)
  BY <1>0, <1>4 DEF Resend, Typed, Excluded, lib
<1>5. CASE Fetch(t)
  <2>1. Moved(t, "sync") /\ pc[t] \in Inside /\ sem_time' = sem_time
    BY <1>5 DEF Fetch, Fetches, GoesTo, Moved, Inside
  <2>2. Excluded' /\ pc' \in [Threads -> Points]
    BY <1>0, <2>1, StaysInside DEF Points, Inside
  <2>3. DOMAIN cache' = DOMAIN cache
    BY <1>5 DEF Fetch
  <2> QED
    BY <1>0, <1>5, <2>2, <2>3 DEF Fetch, Typed
<1>6. CASE Miss(t)
  <2>1. Moved(t, "sync") /\ pc[t] \in Inside /\ sem_time' = sem_time
    BY <1>6 DEF Miss, Fetches, GoesTo, Moved, Inside, lib
  <2>2. Excluded' /\ pc' \in [Threads -> Points]
    BY <1>0, <2>1, StaysInside DEF Points, Inside
  <2> QED
    BY <1>0, <1>6, <2>2 DEF Miss, Typed, lib
<1>7. CASE Synced(t)
  <2>1. \E to \in Points :
          /\ Moved(t, to)
          /\ \/ to \in Inside /\ sem_time' = sem_time
             \/ to \notin Inside /\ sem_time' = sem_time + 1
    BY <1>7 DEF Synced, Returns, GoesTo, Moved, Points, Inside
  <2>2. Excluded' /\ pc' \in [Threads -> Points]
    BY <1>0, <1>7, <2>1, StaysInside DEF Synced, Inside
  <2> QED
    BY <1>0, <1>7, <2>2 DEF Synced, Returns, Typed
<1>8. CASE Mark(t)
  <2>1. Moved(t, "idle") /\ pc[t] = "mark" /\ sem_time' = sem_time
    BY <1>8 DEF Mark, GoesTo, Moved
  <2>2. Excluded' /\ pc' \in [Threads -> Points]
    BY <1>0, <2>1, StaysOutside DEF Points, Inside
  <2> QED
    BY <1>0, <1>8, <2>2 DEF Mark, Typed
<1>9. CASE Borrow(t)
  <2>1. Moved(t, "abroad") /\ pc[t] \in Inside /\ sem_time' = sem_time
    BY <1>9 DEF Borrow, GoesTo, Moved, Inside
  <2>2. Excluded' /\ pc' \in [Threads -> Points]
    BY <1>0, <2>1, StaysInside DEF Points, Inside
  <2> QED
    BY <1>0, <1>9, <2>2 DEF Borrow, Typed
<1>10. CASE Answered(t) \/ Asked(t) \/ Read(t) \/ Local(t) \/ GiveBack(t)
  <2>1. /\ Moved(t, "idle") /\ pc[t] \in Inside /\ sem_time' = sem_time + 1
        /\ call' = call
    BY <1>10 DEF Answered, Asked, Read, Local, GiveBack, Returns, GoesTo, Moved,
                 Inside
  <2>2. Excluded' /\ pc' \in [Threads -> Points]
    BY <1>0, <2>1, StaysInside DEF Points, Inside
  <2>3. DOMAIN cache' = DOMAIN cache
    BY <1>10 DEF Answered, Stored, Asked, Read, Local, GiveBack
  <2> QED
    BY <1>0, <2>1, <2>2, <2>3 DEF Typed
<1> QED
  BY <1>1, <1>2, <1>3, <1>4, <1>5, <1>6, <1>7, <1>8, <1>9, <1>10 DEF Step

-----------------------------------------------------------------------------
(* TZ *)

\* A step that leaves TZ and the cached zone, and sends nobody abroad or home.
LEMMA TzUntouched ==
  ASSUME IInv, NEW t \in Threads, NEW to \in Points \ {"abroad"},
         pc[t] # "abroad", pc' = [pc EXCEPT ![t] = to],
         env' = env, cache' = cache,
         \A u \in Threads : pc[u] = "abroad" => call'[u] = call[u]
  PROVE  TzAtHome'
BY DEF IInv, Typed, TzAtHome

LEMMA TzStep ==
  ASSUME IInv, NEW t \in Threads,
         (\E c \in Calls : Call(t, c)) \/ Enter(t) \/ Step(t)
  PROVE  TzAtHome'
<1>1. CASE \E c \in Calls : Call(t, c)
  <2>1. \A u \in Threads : pc[u] = "abroad" => call'[u] = call[u]
    BY <1>1 DEF Call, IInv, Typed
  <2> QED
    BY <1>1, <2>1, TzUntouched DEF Call, GoesTo, lib, Points
<1>2. CASE Enter(t) \/ Send(t) \/ Miss(t) \/ Synced(t) \/ Mark(t)
  <2>1. /\ pc[t] # "abroad" /\ env' = env /\ cache' = cache /\ call' = call
        /\ \E to \in Points \ {"abroad"} : pc' = [pc EXCEPT ![t] = to]
    BY <1>2 DEF Enter, Send, Miss, Fetches, Synced, Mark, Returns, GoesTo, lib,
                Points, Inside
  <2> QED
    BY <2>1, TzUntouched
<1>3. CASE Resend(t)
  BY <1>3 DEF Resend, IInv, TzAtHome, lib
<1>4. CASE Asked(t) \/ Read(t) \/ Local(t)
  <2>1. /\ pc[t] # "abroad" /\ env' = env /\ cache' = cache /\ call' = call
        /\ pc' = [pc EXCEPT ![t] = "idle"]
    BY <1>4 DEF Asked, Read, Local, Returns, GoesTo
  <2> QED
    BY <2>1, TzUntouched DEF Points
<1>5. CASE Fetch(t)
  <2> DEFINE v == Seen(Order[at[t]], answer[t].value)
  <2>1. /\ pc[t] = "wait" /\ pc' = [pc EXCEPT ![t] = "sync"]
        /\ cache' = [cache EXCEPT ![Order[at[t]]] = v]
        /\ env' = IF Order[at[t]] = "tz" /\ v # NoTz THEN v ELSE env
    BY <1>5 DEF Fetch, Fetches, GoesTo
  <2>2. \A u \in Threads : pc[u] # "abroad" /\ pc'[u] # "abroad"
    BY <2>1 DEF IInv, Typed, Excluded, Inside
  <2>3. CASE Order[at[t]] = "tz"
    <3>1. cache'["tz"] = v
      BY <2>1, <2>3, TzIsAKey DEF IInv, Typed
    <3>2. v # NoTz => env' = v
      BY <2>1, <2>3
    <3> HIDE DEF v
    <3> QED
      BY <2>2, <3>1, <3>2 DEF TzAtHome
  <2>4. CASE Order[at[t]] # "tz"
    <3>1. cache'["tz"] = cache["tz"] /\ env' = env
      BY <2>1, <2>4, TzIsAKey DEF IInv, Typed
    <3> QED
      BY <2>2, <3>1 DEF IInv, TzAtHome
  <2> QED
    BY <2>3, <2>4
<1>6. CASE Answered(t)
  <2>1. pc[t] = "wait" /\ pc' = [pc EXCEPT ![t] = "idle"]
    BY <1>6 DEF Answered, Returns, GoesTo
  <2>2. \A u \in Threads : pc[u] # "abroad" /\ pc'[u] # "abroad"
    BY <2>1 DEF IInv, Typed, Excluded, Inside
  <2>3. \/ cache' = cache /\ env' = env
        \/ cache' = Stored(call[t]) /\ env' = StoredTz(call[t])
    BY <1>6 DEF Answered
  <2>4. \/ cache'["tz"] = cache["tz"] /\ env' = env
        \/ cache'["tz"] = env'
    BY <2>3, TzIsAKey DEF Stored, StoredTz, IInv, Typed
  <2> QED
    BY <2>2, <2>4 DEF IInv, TzAtHome
<1>7. CASE Borrow(t)
  <2>1. /\ pc[t] = "body" /\ pc' = [pc EXCEPT ![t] = "abroad"]
        /\ env' = call[t].tz /\ call' = call
    BY <1>7 DEF Borrow, GoesTo
  <2>2. \A u \in Threads : pc'[u] = "abroad" => u = t
    BY <2>1 DEF IInv, Typed, Excluded, Inside
  <2>3. pc'[t] = "abroad"
    BY <2>1 DEF IInv, Typed
  <2> QED
    BY <2>1, <2>2, <2>3 DEF TzAtHome
<1>8. CASE GiveBack(t)
  <2>1. /\ pc[t] = "abroad" /\ pc' = [pc EXCEPT ![t] = "idle"]
        /\ env' = cache["tz"] /\ cache' = cache
    BY <1>8 DEF GiveBack, Returns, GoesTo
  <2>2. \A u \in Threads : pc'[u] # "abroad"
    BY <2>1 DEF IInv, Typed, Excluded, Inside
  <2> QED
    BY <2>1, <2>2 DEF TzAtHome
<1> QED
  BY <1>1, <1>2, <1>3, <1>4, <1>5, <1>6, <1>7, <1>8 DEF Step

-----------------------------------------------------------------------------
(* The invariant *)

\* What the server and the bus do touches neither pc, the cache nor TZ.
LEMMA OthersStep ==
  ASSUME IInv,
         ServeGet \/ ServeSet \/ LoseRequest \/ (\E c \in Others : Change(c))
  PROVE  IInv'
<1>1. UNCHANGED <<lib, pc, call>>
  BY DEF ServeGet, ServeSet, LoseRequest, Change, threads
<1> QED
  BY <1>1 DEF IInv, Typed, Excluded, TzAtHome, lib

LEMMA NextIInv == IInv /\ [Next]_vars => IInv'
<1>1. SUFFICES ASSUME IInv, [Next]_vars PROVE IInv'
  OBVIOUS
<1>2. ASSUME NEW t \in Threads,
             (\E c \in Calls : Call(t, c)) \/ Enter(t) \/ Step(t)
      PROVE  IInv'
  BY <1>1, <1>2, ExclusionStep, TzStep DEF IInv
<1>3. CASE UNCHANGED vars
  BY <1>1, <1>3 DEF IInv, Typed, Excluded, TzAtHome, vars, lib, threads
<1> QED
  BY <1>1, <1>2, <1>3, OthersStep DEF Next

\* The inductive invariant of the library.
THEOREM Invariance == Spec => []IInv
BY InitIInv, NextIInv, PTL DEF Spec

\* Every early return of libtime.c gives the semaphore back, and no thread is
\* inside without it, for any number of threads and whatever is lost.
THEOREM Exclusion == Spec => []SemaphoreHeld
<1>1. IInv => SemaphoreHeld
  <2>1. SUFFICES ASSUME IInv PROVE SemaphoreHeld
    OBVIOUS
  <2> DEFINE holders == { t \in Threads : pc[t] \in Inside }
  <2>2. CASE sem_time = 1
    BY <2>1, <2>2 DEF IInv, Excluded, SemaphoreHeld, Inside
  <2>3. CASE sem_time = 0
    <3>1. PICK t \in Threads : pc[t] \in Inside
      BY <2>1, <2>3 DEF IInv, Excluded
    <3>2. holders = {t}
      BY <2>1, <3>1 DEF IInv, Excluded
    <3> QED
      BY <2>3, <3>2 DEF SemaphoreHeld, Inside
  <2> QED
    BY <2>1, <2>2, <2>3 DEF IInv, Excluded
<1> QED
  BY <1>1, Invariance, PTL

\* Who has set TZ to another zone finds that zone there until he is done with
\* it, and everybody else finds the cached one (time_mktime, time_get_remote).
THEOREM TzReturned == Spec => []TzAtHome
<1>1. IInv => TzAtHome
  BY DEF IInv
<1> QED
  BY <1>1, Invariance, PTL
-----------------------------------------------------------------------------
(* The settings, the requests and the queue *)

LEMMA OrderFacts ==
  /\ Len(Order) = 5 /\ DOMAIN Order = 1 .. 5
  /\ Order[1] = "tz" /\ Order[2] = "time_format" /\ Order[3] = "operator_time"
  /\ Order[4] = "autosync" /\ Order[5] = "default_tz"
  /\ Keys = {"tz", "time_format", "operator_time", "autosync", "default_tz"}
<1>1. /\ Len(Order) = 5 /\ DOMAIN Order = 1 .. 5
      /\ Order[1] = "tz" /\ Order[2] = "time_format"
      /\ Order[3] = "operator_time" /\ Order[4] = "autosync"
      /\ Order[5] = "default_tz"
  BY DEF Order
<1>2. Keys = { Order[i] : i \in 1 .. 5 }
  BY <1>1 DEF Keys
<1> QED
  BY <1>1, <1>2

\* No setting is fetched twice.
LEMMA OrderInjective ==
  \A i, j \in 1 .. 5 : /\ Order[i] \in Keys
                       /\ Order[i] = Order[j] => i = j
BY OrderFacts

\* What threads send.
Requests ==
  { [kind |-> "get", key |-> k] : k \in Keys \cup {"net_time"} }
    \cup { c \in Calls : c.kind = "set" }

Entries == [by : Threads, live : BOOLEAN, req : Requests]

Shaped ==
  /\ s_inited \in BOOLEAN /\ told \in BOOLEAN
  /\ call \in [Threads -> Calls \cup {[kind |-> "local"]}]
  /\ at \in [Threads -> 1 .. 6] /\ tries \in [Threads -> 0 .. 1]
  /\ DOMAIN answer = Threads
  /\ \A t \in Threads : answer[t].state \in {"none", "error", "value"}
  /\ tzOk \in [Threads -> BOOLEAN]
  /\ result \in [Threads -> {"none", "0", "1", "-1"}]
  /\ DOMAIN server = DOMAIN Settings0 /\ queue \in Seq(Entries)
  /\ missed \subseteq Keys /\ silent \subseteq DOMAIN Settings0

\* Behind the last setting a thread waits for a set or a request that is not
\* cached; it is behind them in the body; it has an answer only while it waits,
\* and a result only when it is idle.
Staged ==
  \A t \in Threads :
    /\ pc[t] \in {"body", "abroad"} => at[t] = 6
    /\ pc[t] = "mark" => call[t].kind = "sync"
    /\ pc[t] = "wait" /\ at[t] = 6 => call[t].kind \in {"set", "ask"}
    /\ result[t] # "none" => pc[t] = "idle"
    /\ answer[t] # Nothing => pc[t] = "wait"

LEMMA CallKinds ==
  \A c \in Calls \cup {[kind |-> "local"]} :
    CallType(c) /\ (c.kind \in {"set", "read"} => c \in Calls)
BY LibTimeAssumption DEF CallType

LEMMA RequestsAreKeyed ==
  \A r \in Requests : /\ r.kind \in {"get", "set"} /\ r.key \in DOMAIN Settings0
                      /\ r.kind = "get" => r.key \in Keys \cup {"net_time"}
                      /\ r.kind = "set" => r \in Calls
<1>1. \A c \in Calls : c.kind = "set" => c.key \in DOMAIN Settings0
  BY LibTimeAssumption, OrderFacts DEF CallType
<1> QED
  BY <1>1, LibTimeAssumption DEF Requests

\* A request of a thread that fetches a setting, or is behind them.
LEMMA RequestFacts ==
  ASSUME Shaped, NEW t \in Threads,
         at[t] <= Len(Order) \/ call[t].kind \in {"set", "ask"}
  PROVE  /\ Request(t) \in Requests
         /\ at[t] <= 5 => /\ Request(t).kind = "get" /\ Order[at[t]] \in Keys
                          /\ Request(t).key = Order[at[t]]
         /\ at[t] = 6 /\ call[t].kind = "ask" =>
              Request(t).kind = "get" /\ Request(t).key = "net_time"
         /\ at[t] = 6 /\ call[t].kind = "set" => Request(t) = call[t]
<1>1. at[t] \in 1 .. 6 /\ call[t] \in Calls \cup {[kind |-> "local"]}
  BY DEF Shaped
<1>2. CASE at[t] <= 5
  BY <1>1, <1>2, OrderFacts, OrderInjective DEF Request, Requests
<1>3. CASE at[t] = 6 /\ call[t].kind = "ask"
  BY <1>1, <1>3, OrderFacts DEF Request, Requests
<1>4. CASE at[t] = 6 /\ call[t].kind = "set"
  BY <1>1, <1>4, OrderFacts, CallKinds DEF Request, Requests
<1> QED
  BY <1>1, <1>2, <1>3, <1>4, OrderFacts

\* A connection that is closed leaves the requests in the queue.
LEMMA HangupFacts ==
  ASSUME queue \in Seq(Entries), NEW t \in Threads
  PROVE  /\ Hangup(t) \in Seq(Entries) /\ Len(Hangup(t)) = Len(queue)
         /\ \A i \in 1 .. Len(queue) :
              /\ Hangup(t)[i].by = queue[i].by /\ Hangup(t)[i].req = queue[i].req
              /\ Hangup(t)[i].live => queue[i].live /\ queue[i].by # t
<1>1. \A i \in 1 .. Len(queue) : queue[i] \in Entries
  OBVIOUS
<1>2. \A e \in Entries : [e EXCEPT !.live = FALSE] \in Entries
  BY DEF Entries
<1>3. \A i \in 1 .. Len(queue) : Hangup(t)[i] \in Entries
  BY <1>1, <1>2 DEF Hangup
<1>4. DOMAIN Hangup(t) = 1 .. Len(queue)
  BY DEF Hangup
<1>5. Hangup(t) \in Seq(Entries) /\ Len(Hangup(t)) = Len(queue)
  <2>1. Len(queue) \in Nat
    OBVIOUS
  <2>2. Hangup(t) \in [1 .. Len(queue) -> Entries]
    BY <1>3, <1>4 DEF Hangup
  <2> QED
    BY <2>1, <2>2, SeqDef, LenProperties
<1>6. ASSUME NEW i \in 1 .. Len(queue)
      PROVE  /\ Hangup(t)[i].by = queue[i].by /\ Hangup(t)[i].req = queue[i].req
             /\ Hangup(t)[i].live => queue[i].live /\ queue[i].by # t
  <2>1. queue[i] \in Entries /\ i \in DOMAIN queue
    BY <1>1
  <2>2. Hangup(t)[i] = IF queue[i].by = t THEN [queue[i] EXCEPT !.live = FALSE]
                       ELSE queue[i]
    BY <2>1 DEF Hangup
  <2>3. CASE queue[i].by = t
    BY <2>1, <2>2, <2>3 DEF Entries
  <2>4. CASE queue[i].by # t
    <3>1. queue[i].live \in BOOLEAN /\ Hangup(t)[i] = queue[i]
      BY <2>1, <2>2, <2>4 DEF Entries
    <3> QED
      BY <2>4, <3>1
  <2> QED
    BY <2>3, <2>4
<1> QED
  BY <1>5, <1>6

\* The queue after something was posted, or could not be.
Posted(t) ==
  /\ queue' \in Seq(Entries) /\ Len(queue') \in {Len(queue), Len(queue) + 1}
  /\ \A i \in 1 .. Len(queue) :
       /\ queue'[i].by = queue[i].by /\ queue'[i].req = queue[i].req
       /\ queue'[i].live => queue[i].live /\ queue[i].by # t
  /\ Len(queue') = Len(queue) + 1 =>
       /\ queue'[Len(queue')].by = t /\ queue'[Len(queue')].live
       /\ queue'[Len(queue')].req = Request(t)
       /\ answer' = [answer EXCEPT ![t] = Nothing]
  /\ Len(queue') = Len(queue) => answer' = [answer EXCEPT ![t] = Error]

LEMMA PostFacts ==
  ASSUME Shaped, NEW t \in Threads, Request(t) \in Requests, Post(t)
  PROVE  Posted(t)
<1>1. queue \in Seq(Entries)
  BY DEF Shaped
<1>2. CASE /\ queue' = Append(Hangup(t), [by |-> t, live |-> TRUE, req |-> Request(t)])
           /\ answer' = [answer EXCEPT ![t] = Nothing]
  <2> DEFINE e == [by |-> t, live |-> TRUE, req |-> Request(t)]
  <2>1. e \in Entries /\ e.by = t /\ e.live /\ e.req = Request(t)
    BY DEF Entries
  <2> HIDE DEF e
  <2>2. queue' = Append(Hangup(t), e)
    BY <1>2 DEF e
  <2>3. /\ queue' \in Seq(Entries) /\ Len(queue') = Len(queue) + 1
        /\ queue'[Len(queue')] = e
        /\ \A i \in 1 .. Len(queue) : queue'[i] = Hangup(t)[i]
    <3>1. Hangup(t) \in Seq(Entries) /\ Len(Hangup(t)) = Len(queue)
      BY <1>1, HangupFacts
    <3>2. /\ Append(Hangup(t), e) \in Seq(Entries)
          /\ Len(Append(Hangup(t), e)) = Len(Hangup(t)) + 1
          /\ \A i \in 1 .. Len(Hangup(t)) : Append(Hangup(t), e)[i] = Hangup(t)[i]
          /\ Append(Hangup(t), e)[Len(Hangup(t)) + 1] = e
      BY <2>1, <3>1, AppendProperties
    <3> QED
      BY <2>2, <3>1, <3>2
  <2>4. \A i \in 1 .. Len(queue) :
          /\ queue'[i].by = queue[i].by /\ queue'[i].req = queue[i].req
          /\ queue'[i].live => queue[i].live /\ queue[i].by # t
    BY <1>1, <2>3, HangupFacts
  <2>5. Len(queue) \in Nat
    BY <1>1
  <2> QED
    BY <1>2, <2>1, <2>3, <2>4, <2>5 DEF Posted
<1>3. CASE queue' = Hangup(t) /\ answer' = [answer EXCEPT ![t] = Error]
  BY <1>1, <1>3, HangupFacts DEF Posted
<1> QED
  BY <1>2, <1>3 DEF Post

\* The queue without its head.
LEMMA PopFacts ==
  ASSUME queue \in Seq(Entries), queue # << >>, queue' = Tail(queue)
  PROVE  /\ Head(queue) = queue[1] /\ queue[1] \in Entries /\ Len(queue) >= 1
         /\ queue' \in Seq(Entries) /\ Len(queue') = Len(queue) - 1
         /\ \A i \in 1 .. Len(queue') : queue'[i] = queue[i + 1]
OBVIOUS

\* Flags are bits, in the server, in the cache and on their way to it.
Flagged ==
  /\ \A k \in Flags : server[k] \in Bits /\ cache[k] \in Bits
  /\ \A t \in Threads :
       answer[t].state = "value" /\ at[t] <= 5 /\ Order[at[t]] \in Flags =>
         answer[t].value \in Bits

LEMMA FlagFacts == Flags \subseteq Keys /\ Keys \subseteq DOMAIN Settings0
BY OrderFacts, LibTimeAssumption DEF Flags

LEMMA SeenFacts ==
  ASSUME NEW v
  PROVE  /\ Seen("tz", v) = Colon(v)
         /\ Seen("time_format", v) = IF v = NoFormat THEN cache["time_format"] ELSE v
         /\ Seen("default_tz", v) = IF v = NoTz THEN cache["default_tz"] ELSE v
         /\ Seen("operator_time", v) = v /\ Seen("autosync", v) = v
BY Zenon DEF Seen

\* Whoever waits or is about to send has a request.
LEMMA Requesting ==
  ASSUME Shaped, Staged, NEW t \in Threads,
         pc[t] = "wait" \/ Send(t)
  PROVE  Request(t) \in Requests
<1>1. at[t] \in 1 .. 6
  BY DEF Shaped
<1> QED
  BY <1>1, RequestFacts, OrderFacts DEF Send, Staged

\* A thread has sent something, once or again.
LEMMA SentFacts ==
  ASSUME Shaped, Staged, NEW t \in Threads, Send(t) \/ Resend(t)
  PROVE  Posted(t)
<1>1. Post(t) /\ (Send(t) \/ pc[t] = "wait")
  BY DEF Send, Resend, NoReply
<1> QED
  BY <1>1, Requesting, PostFacts

LEMMA AnswerStates ==
  /\ Nothing.state = "none" /\ Error.state = "error"
  /\ \A v : Value(v).state = "value" /\ Value(v).value = v
BY DEF Nothing, Error, Value

-----------------------------------------------------------------------------
(* The shapes *)

\* A call that is over.
LEMMA ShapedReturns ==
  ASSUME Shaped, NEW t \in Threads, NEW r \in {"none", "0", "1", "-1"}, Returns(t, r)
  PROVE  /\ at' \in [Threads -> 1 .. 6] /\ tries' \in [Threads -> 0 .. 1]
         /\ result' \in [Threads -> {"none", "0", "1", "-1"}]
BY DEF Shaped, Returns

LEMMA ShapedStep ==
  ASSUME IInv, Shaped, Staged, Flagged, NEW t \in Threads,
         (\E c \in Calls : Call(t, c)) \/ Enter(t) \/ Step(t)
  PROVE  Shaped'
<1>1. CASE \E c \in Calls : Call(t, c)
  BY <1>1 DEF Call, Shaped, lib, histories
<1>2. CASE Enter(t)
  <2>1. at' \in [Threads -> 1 .. 6]
    BY <1>2, OrderFacts DEF Enter, Shaped
  <2> QED
    BY <1>2, <2>1 DEF Enter, Shaped, outside, histories
<1>3. CASE Send(t) \/ Resend(t)
  <2>1. Posted(t)
    BY <1>3, SentFacts
  <2>2. /\ DOMAIN answer' = Threads /\ queue' \in Seq(Entries)
        /\ \A u \in Threads : answer'[u].state \in {"none", "error", "value"}
    BY <2>1, AnswerStates DEF Posted, Shaped
  <2>3. tries' \in [Threads -> 0 .. 1]
    BY <1>3 DEF Send, Resend, Shaped
  <2> QED
    BY <1>3, <2>2, <2>3 DEF Send, Resend, Shaped, lib, histories
<1>4. CASE Fetch(t)
  <2>1. at' \in [Threads -> 1 .. 6] /\ tries' \in [Threads -> 0 .. 1]
    BY <1>4, OrderFacts DEF Fetch, Fetches, Shaped
  <2>2. DOMAIN answer' = Threads
        /\ \A u \in Threads : answer'[u].state \in {"none", "error", "value"}
    BY <1>4, AnswerStates DEF Fetch, Shaped
  <2>3. /\ tzOk' \in [Threads -> BOOLEAN] /\ missed' \subseteq Keys
        /\ UNCHANGED <<s_inited, call, result, server, told, queue, silent>>
    BY <1>4 DEF Fetch, Shaped, outside
  <2> QED
    BY <2>1, <2>2, <2>3 DEF Shaped
<1>5. CASE Miss(t)
  <2>1. at' \in [Threads -> 1 .. 6] /\ queue' \in Seq(Entries)
    BY <1>5, OrderFacts, HangupFacts DEF Miss, Fetches, Shaped
  <2>2. DOMAIN answer' = Threads
        /\ \A u \in Threads : answer'[u].state \in {"none", "error", "value"}
    BY <1>5, AnswerStates DEF Miss, Shaped
  <2>3. at[t] \in 1 .. 5
    BY <1>5, OrderFacts DEF Miss, Fetches, Shaped
  <2>4. /\ tzOk' \in [Threads -> BOOLEAN] /\ missed' \subseteq Keys
        /\ UNCHANGED <<s_inited, call, tries, result, server, told, silent>>
    BY <1>5, <2>3, OrderInjective DEF Miss, Shaped, lib
  <2> QED
    BY <2>1, <2>2, <2>4 DEF Shaped
<1>6. CASE Synced(t)
  <2>1. /\ at' \in [Threads -> 1 .. 6] /\ tries' \in [Threads -> 0 .. 1]
        /\ result' \in [Threads -> {"none", "0", "1", "-1"}]
    BY <1>6, ShapedReturns DEF Synced, InitFailure, Shaped
  <2> QED
    BY <1>6, <2>1 DEF Synced, Shaped, outside, histories
<1>7. CASE Mark(t)
  BY <1>7 DEF Mark, Shaped, outside, histories
<1>8. CASE Answered(t) \/ Asked(t)
  <2>1. /\ at' \in [Threads -> 1 .. 6] /\ tries' \in [Threads -> 0 .. 1]
        /\ result' \in [Threads -> {"none", "0", "1", "-1"}]
    BY <1>8, ShapedReturns DEF Answered, Asked
  <2>2. queue' \in Seq(Entries)
    <3>1. queue' = Hangup(t) /\ queue \in Seq(Entries)
      BY <1>8 DEF Answered, Asked, Shaped
    <3> QED
      BY <3>1, HangupFacts
  <2>3. DOMAIN answer' = Threads
        /\ \A u \in Threads : answer'[u].state \in {"none", "error", "value"}
    BY <1>8, AnswerStates DEF Answered, Asked, Shaped
  <2>4. UNCHANGED <<s_inited, call, tzOk, server, told, missed, silent>>
    BY <1>8 DEF Answered, Asked, histories
  <2> QED
    BY <2>1, <2>2, <2>3, <2>4 DEF Shaped
<1>9. CASE Read(t) \/ Local(t) \/ GiveBack(t)
  <2>1. PICK r \in {"none", "0", "1", "-1"} : Returns(t, r)
    BY <1>9 DEF Read, Local, GiveBack, Flagged, Flags, Bits
  <2>2. UNCHANGED <<s_inited, call, answer, tzOk, outside, histories>>
    BY <1>9 DEF Read, Local, GiveBack
  <2> QED
    BY <2>1, <2>2, ShapedReturns DEF Shaped, outside, histories
<1>10. CASE Borrow(t)
  BY <1>10 DEF Borrow, Shaped, outside, histories
<1> QED
  BY <1>1, <1>2, <1>3, <1>4, <1>5, <1>6, <1>7, <1>8, <1>9, <1>10 DEF Step

\* What arrives at the server, and what it answers.
LEMMA ServedFacts ==
  ASSUME Shaped, ServeGet \/ ServeSet \/ LoseRequest
  PROVE  /\ Head(queue) = queue[1] /\ queue[1] \in Entries /\ Len(queue) >= 1
         /\ queue' \in Seq(Entries) /\ Len(queue') = Len(queue) - 1
         /\ \A i \in 1 .. Len(queue') : queue'[i] = queue[i + 1]
<1>1. queue # << >> /\ queue' = Tail(queue)
  BY DEF ServeGet, ServeSet, LoseRequest
<1> QED
  BY <1>1, PopFacts DEF Shaped

LEMMA ShapedServed ==
  ASSUME Shaped,
         ServeGet \/ ServeSet \/ LoseRequest \/ (\E c \in Others : Change(c))
  PROVE  Shaped'
<1>1. CASE ServeGet \/ ServeSet \/ LoseRequest
  <2>1. /\ Head(queue) = queue[1] /\ queue[1] \in Entries
        /\ queue' \in Seq(Entries)
    BY <1>1, ServedFacts
  <2>2. queue[1].by \in Threads /\ queue[1].req \in Requests
    BY <2>1 DEF Entries
  <2>3. answer' = answer \/ \E a : answer' = [answer EXCEPT ![queue[1].by] = a]
                                   /\ a.state \in {"error", "value"}
    BY <1>1, <2>1, AnswerStates DEF ServeGet, ServeSet, LoseRequest, Replies
  <2>4. DOMAIN answer' = Threads
        /\ \A u \in Threads : answer'[u].state \in {"none", "error", "value"}
    BY <2>2, <2>3 DEF Shaped
  <2>5. /\ DOMAIN server' = DOMAIN server /\ silent' \subseteq DOMAIN Settings0
        /\ told' \in BOOLEAN /\ missed' = missed
    BY <1>1, <2>1, <2>2, RequestsAreKeyed
       DEF ServeGet, ServeSet, LoseRequest, Shaped, histories
  <2>6. UNCHANGED <<lib, pc, call, at, tries, tzOk, result>>
    BY <1>1 DEF ServeGet, ServeSet, LoseRequest
  <2> QED
    BY <2>1, <2>4, <2>5, <2>6 DEF Shaped, lib
<1>2. CASE \E c \in Others : Change(c)
  BY <1>2 DEF Change, Shaped, lib, threads, histories
<1> QED
  BY <1>1, <1>2

-----------------------------------------------------------------------------
(* The stages *)

LEMMA StagedStep ==
  ASSUME IInv, Shaped, Staged, NEW t \in Threads,
         (\E c \in Calls : Call(t, c)) \/ Enter(t) \/ Step(t)
  PROVE  Staged'
<1>0. /\ pc \in [Threads -> Points] /\ DOMAIN call = Threads
      /\ DOMAIN answer = Threads
      /\ at \in [Threads -> 1 .. 6]
      /\ result \in [Threads -> {"none", "0", "1", "-1"}]
  BY DEF IInv, Typed, Shaped
<1>1. CASE \E c \in Calls : Call(t, c)
  BY <1>0, <1>1 DEF Call, Staged, GoesTo
<1>2. CASE Enter(t)
  BY <1>0, <1>2, OrderFacts DEF Enter, Staged, GoesTo
<1>3. CASE Send(t) \/ Resend(t)
  <2>1. /\ pc' = [pc EXCEPT ![t] = "wait"] /\ call' = call /\ at' = at
        /\ result' = result
    BY <1>0, <1>3 DEF Send, Resend, NoReply, GoesTo
  <2>2. answer' = [answer EXCEPT ![t] = Nothing] \/ answer' = [answer EXCEPT ![t] = Error]
    BY <1>3 DEF Send, Resend, Post
  <2>3. at[t] = 6 => call[t].kind \in {"set", "ask"}
    BY <1>0, <1>3, OrderFacts DEF Send, Resend, NoReply, Staged
  <2>4. result[t] = "none"
    BY <1>0, <1>3 DEF Send, Resend, NoReply, Staged
  <2> QED
    BY <1>0, <2>1, <2>2, <2>3, <2>4 DEF Staged
<1>4. CASE Fetch(t) \/ Miss(t)
  <2>1. /\ pc[t] = "wait" /\ pc' = [pc EXCEPT ![t] = "sync"] /\ call' = call
        /\ at' = [at EXCEPT ![t] = @ + 1] /\ result' = result
        /\ answer' = [answer EXCEPT ![t] = Nothing]
    BY <1>4 DEF Fetch, Miss, Fetches, GoesTo
  <2> QED
    BY <1>0, <2>1 DEF Staged
<1>5. CASE Synced(t)
  <2>1. /\ pc[t] = "sync" /\ at[t] = 6 /\ call' = call /\ answer' = answer
    BY <1>0, <1>5, OrderFacts DEF Synced
  <2>2. CASE Returns(t, InitFailure(call[t]))
    BY <1>0, <2>1, <2>2 DEF Staged, Returns, GoesTo
  <2>3. CASE /\ call[t].kind = "sync" => GoesTo(t, "mark")
             /\ call[t].kind # "sync" => GoesTo(t, "body")
             /\ UNCHANGED <<result, at>>
    BY <1>0, <2>1, <2>3 DEF Staged, GoesTo
  <2> QED
    BY <1>5, <2>2, <2>3 DEF Synced
<1>6. CASE Mark(t)
  BY <1>0, <1>6 DEF Mark, Staged, GoesTo
<1>7. CASE Answered(t) \/ Asked(t)
  <2>1. /\ pc[t] = "wait" /\ call' = call
        /\ answer' = [answer EXCEPT ![t] = Nothing]
        /\ \E r : Returns(t, r)
    BY <1>7 DEF Answered, Asked
  <2> QED
    BY <1>0, <2>1 DEF Staged, Returns, GoesTo
<1>8. CASE Read(t) \/ Local(t) \/ GiveBack(t)
  <2>1. /\ pc[t] # "wait" /\ call' = call /\ answer' = answer
        /\ \E r : Returns(t, r)
    BY <1>8 DEF Read, Local, GiveBack
  <2> QED
    BY <1>0, <2>1 DEF Staged, Returns, GoesTo
<1>9. CASE Borrow(t)
  BY <1>0, <1>9 DEF Borrow, Staged, GoesTo
<1> QED
  BY <1>1, <1>2, <1>3, <1>4, <1>5, <1>6, <1>7, <1>8, <1>9 DEF Step

\* A live request is what its thread waits for; it has no answer yet, nothing
\* else is live, and nothing of that thread is behind it.
OneAlive ==
  \A t \in Threads : \A i \in 1 .. Len(queue) :
    queue[i].live /\ queue[i].by = t =>
      /\ pc[t] = "wait" /\ answer[t] = Nothing /\ queue[i].req = Request(t)
      /\ \A j \in 1 .. Len(queue) :
           /\ j # i => ~queue[j].live
           /\ j > i => queue[j].by # t

LEMMA QueueTyped ==
  ASSUME Shaped
  PROVE  /\ Len(queue) \in Nat
         /\ \A i \in 1 .. Len(queue) :
              /\ queue[i].by \in Threads /\ queue[i].live \in BOOLEAN
              /\ queue[i].req \in Requests
<1>1. queue \in Seq(Entries)
  BY DEF Shaped
<1>2. Len(queue) \in Nat /\ \A i \in 1 .. Len(queue) : queue[i] \in Entries
  BY <1>1
<1> QED
  BY <1>2 DEF Entries

\* The thread of the request that is answered still waits for it, or nobody does.
LEMMA StagedServed ==
  ASSUME IInv, Shaped, Staged, OneAlive,
         ServeGet \/ ServeSet \/ LoseRequest \/ (\E c \in Others : Change(c))
  PROVE  Staged'
<1>1. CASE ServeGet \/ ServeSet \/ LoseRequest
  <2>1. /\ Head(queue) = queue[1] /\ queue[1] \in Entries /\ 1 \in 1 .. Len(queue)
    BY <1>1, ServedFacts
  <2>2. \/ answer' = answer
        \/ queue[1].live /\ \E a : answer' = [answer EXCEPT ![queue[1].by] = a]
    BY <1>1, <2>1 DEF ServeGet, ServeSet, LoseRequest, Replies
  <2>3. \A u \in Threads : answer'[u] # answer[u] => pc[u] = "wait"
    BY <2>1, <2>2 DEF OneAlive, Shaped, Entries
  <2>4. UNCHANGED <<pc, call, at, result>>
    BY <1>1 DEF ServeGet, ServeSet, LoseRequest
  <2> QED
    BY <2>3, <2>4 DEF Staged
<1>2. CASE \E c \in Others : Change(c)
  BY <1>2 DEF Change, Staged, threads
<1> QED
  BY <1>1, <1>2

-----------------------------------------------------------------------------
(* The queue: one live request, and nothing left of a request with an answer *)

\* Requests depend on what the thread calls and fetches only.
LEMMA SameRequest ==
  ASSUME NEW u \in Threads, call'[u] = call[u], at'[u] = at[u]
  PROVE  Request(u)' = Request(u)
BY DEF Request

\* The thread that moves has no live request, or hangs up on it.
LEMMA OneAliveUntouched ==
  ASSUME Shaped, OneAlive, NEW t \in Threads,
         queue' \in Seq(Entries), Len(queue') = Len(queue),
         \A i \in 1 .. Len(queue) :
           /\ queue'[i].by = queue[i].by /\ queue'[i].req = queue[i].req
           /\ queue'[i].live => queue[i].live /\ queue[i].by # t,
         \A u \in Threads \ {t} :
           pc'[u] = pc[u] /\ call'[u] = call[u] /\ at'[u] = at[u] /\ answer'[u] = answer[u]
  PROVE  OneAlive'
<1>1. SUFFICES ASSUME NEW u \in Threads, NEW i \in 1 .. Len(queue),
                      queue'[i].live, queue'[i].by = u
               PROVE  /\ pc'[u] = "wait" /\ answer'[u] = Nothing
                      /\ queue'[i].req = Request(u)'
                      /\ \A j \in 1 .. Len(queue) :
                           /\ j # i => ~queue'[j].live
                           /\ j > i => queue'[j].by # u
  BY DEF OneAlive
<1>2. u \in Threads \ {t} /\ queue[i].live /\ queue[i].by = u
  BY <1>1
<1>3. Request(u)' = Request(u)
  BY <1>2, SameRequest
<1>4. pc[u] = "wait" /\ answer[u] = Nothing /\ queue[i].req = Request(u)
  BY <1>2 DEF OneAlive
<1>5. \A j \in 1 .. Len(queue) :
        /\ j # i => ~queue'[j].live
        /\ j > i => queue'[j].by # u
  BY <1>2 DEF OneAlive
<1> QED
  BY <1>2, <1>3, <1>4, <1>5

LEMMA OneAlivePosted ==
  ASSUME IInv, Shaped, Staged, OneAlive, NEW t \in Threads, Send(t) \/ Resend(t)
  PROVE  OneAlive'
<1>1. Posted(t)
  BY SentFacts
<1>2. /\ pc' = [pc EXCEPT ![t] = "wait"] /\ call' = call /\ at' = at
  BY DEF Send, Resend, NoReply, GoesTo, IInv, Typed
<1>3. \A u \in Threads \ {t} :
           pc'[u] = pc[u] /\ call'[u] = call[u] /\ at'[u] = at[u] /\ answer'[u] = answer[u]
  BY <1>1, <1>2 DEF Posted, Shaped, IInv, Typed
<1>4. CASE Len(queue') = Len(queue)
  BY <1>1, <1>3, <1>4, OneAliveUntouched DEF Posted
<1>5. CASE Len(queue') = Len(queue) + 1
  <2>1. pc[t] \in Inside
    BY DEF Send, Resend, NoReply, Inside
  <2>2. \A i \in 1 .. Len(queue) : ~queue'[i].live
    <3>1. SUFFICES ASSUME NEW i \in 1 .. Len(queue), queue'[i].live PROVE FALSE
      OBVIOUS
    <3>2. queue[i].live /\ queue[i].by \in Threads \ {t}
      BY <1>1, <3>1, QueueTyped DEF Posted
    <3>3. pc[queue[i].by] = "wait"
      BY <3>2 DEF OneAlive
    <3> QED
      BY <2>1, <3>2, <3>3 DEF IInv, Excluded, Inside
  <2>3. Request(t)' = Request(t)
    BY <1>2, SameRequest
  <2>4. Len(queue) \in Nat
    BY DEF Shaped
  <2>5. /\ queue'[Len(queue')].by = t /\ queue'[Len(queue')].live
        /\ queue'[Len(queue')].req = Request(t)'
        /\ pc'[t] = "wait" /\ answer'[t] = Nothing
    BY <1>1, <1>2, <1>5, <2>3 DEF Posted, IInv, Typed, Shaped
  <2>6. \A i \in 1 .. Len(queue') : queue'[i].live => i = Len(queue')
    BY <1>5, <2>2, <2>4
  <2>7. SUFFICES ASSUME NEW u \in Threads, NEW i \in 1 .. Len(queue'),
                        queue'[i].live, queue'[i].by = u
                 PROVE  /\ pc'[u] = "wait" /\ answer'[u] = Nothing
                        /\ queue'[i].req = Request(u)'
                        /\ \A j \in 1 .. Len(queue') :
                             /\ j # i => ~queue'[j].live
                             /\ j > i => queue'[j].by # u
    BY DEF OneAlive
  <2>8. i = Len(queue') /\ u = t
    BY <2>5, <2>6, <2>7
  <2>9. \A j \in 1 .. Len(queue') : (j # i => ~queue'[j].live) /\ ~(j > i)
    BY <1>5, <2>4, <2>6, <2>8
  <2> QED
    BY <2>5, <2>8, <2>9
<1> QED
  BY <1>1, <1>4, <1>5 DEF Posted

\* A thread with a live request waits, and cannot be another one than t if t
\* is inside.
LEMMA OneAliveStep ==
  ASSUME IInv, Shaped, Staged, OneAlive, NEW t \in Threads,
         (\E c \in Calls : Call(t, c)) \/ Enter(t) \/ Step(t)
  PROVE  OneAlive'
<1>0. /\ pc \in [Threads -> Points] /\ DOMAIN call = Threads
      /\ DOMAIN answer = Threads /\ DOMAIN at = Threads
  BY DEF IInv, Typed, Shaped
<1>1. CASE Send(t) \/ Resend(t)
  BY <1>1, OneAlivePosted
<1>2. CASE Miss(t) \/ Answered(t) \/ Asked(t)
  <2>1. \A u \in Threads \ {t} :
           pc'[u] = pc[u] /\ call'[u] = call[u] /\ at'[u] = at[u] /\ answer'[u] = answer[u]
    BY <1>0, <1>2 DEF Miss, Answered, Asked, Returns, GoesTo, lib
  <2>2. queue \in Seq(Entries) /\ queue' = Hangup(t)
    BY <1>2 DEF Shaped, Miss, Answered, Asked
  <2>3. /\ queue' \in Seq(Entries) /\ Len(queue') = Len(queue)
        /\ \A i \in 1 .. Len(queue) :
             /\ queue'[i].by = queue[i].by /\ queue'[i].req = queue[i].req
             /\ queue'[i].live => queue[i].live /\ queue[i].by # t
    BY <2>2, HangupFacts
  <2> QED
    BY <2>1, <2>3, OneAliveUntouched
<1>3. ASSUME queue' = queue, pc[t] # "wait" \/ answer[t] # Nothing,
             \A u \in Threads \ {t} :
               pc'[u] = pc[u] /\ call'[u] = call[u] /\ at'[u] = at[u] /\ answer'[u] = answer[u]
      PROVE  OneAlive'
  <2>1. \A i \in 1 .. Len(queue) : queue[i].live => queue[i].by # t
    BY <1>3 DEF OneAlive
  <2>2. queue \in Seq(Entries)
    BY DEF Shaped
  <2> QED
    BY <1>3, <2>1, <2>2, OneAliveUntouched
<1>4. CASE (\E c \in Calls : Call(t, c)) \/ Enter(t)
  <2>1. queue' = queue /\ pc[t] # "wait"
    BY <1>4 DEF Call, Enter, outside
  <2>2. \A u \in Threads \ {t} :
          pc'[u] = pc[u] /\ call'[u] = call[u] /\ at'[u] = at[u] /\ answer'[u] = answer[u]
    BY <1>0, <1>4 DEF Call, Enter, GoesTo
  <2> QED
    BY <1>3, <2>1, <2>2
<1>5. CASE Fetch(t)
  <2>1. queue' = queue /\ answer[t] # Nothing
    BY <1>5, AnswerStates DEF Fetch, outside
  <2>2. \A u \in Threads \ {t} :
          pc'[u] = pc[u] /\ call'[u] = call[u] /\ at'[u] = at[u] /\ answer'[u] = answer[u]
    BY <1>0, <1>5 DEF Fetch, GoesTo
  <2> QED
    BY <1>3, <2>1, <2>2
<1>6. CASE Synced(t) \/ Mark(t)
  <2>1. queue' = queue /\ pc[t] # "wait"
    BY <1>6 DEF Synced, Mark, outside
  <2>2. \A u \in Threads \ {t} :
          pc'[u] = pc[u] /\ call'[u] = call[u] /\ at'[u] = at[u] /\ answer'[u] = answer[u]
    BY <1>0, <1>6 DEF Synced, Mark, Returns, GoesTo
  <2> QED
    BY <1>3, <2>1, <2>2
<1>7. CASE Read(t) \/ Local(t) \/ GiveBack(t) \/ Borrow(t)
  <2>1. queue' = queue /\ pc[t] # "wait"
    BY <1>7 DEF Read, Local, GiveBack, Borrow, outside
  <2>2. \A u \in Threads \ {t} :
          pc'[u] = pc[u] /\ call'[u] = call[u] /\ at'[u] = at[u] /\ answer'[u] = answer[u]
    BY <1>0, <1>7 DEF Read, Local, GiveBack, Borrow, Returns, GoesTo
  <2> QED
    BY <1>3, <2>1, <2>2
<1> QED
  BY <1>1, <1>2, <1>4, <1>5, <1>6, <1>7 DEF Step

LEMMA OneAliveServed ==
  ASSUME IInv, Shaped, OneAlive,
         ServeGet \/ ServeSet \/ LoseRequest \/ (\E c \in Others : Change(c))
  PROVE  OneAlive'
<1>1. CASE ServeGet \/ ServeSet \/ LoseRequest
  <2>1. /\ Head(queue) = queue[1] /\ queue[1] \in Entries /\ Len(queue) >= 1
        /\ queue' \in Seq(Entries) /\ Len(queue') = Len(queue) - 1
        /\ \A i \in 1 .. Len(queue') : queue'[i] = queue[i + 1]
    BY <1>1, ServedFacts
  <2>2. Len(queue) \in Nat
    BY DEF Shaped
  <2>3. UNCHANGED <<pc, call, at>> /\ (~queue[1].live => answer' = answer)
    BY <1>1, <2>1 DEF ServeGet, ServeSet, LoseRequest, Replies
  <2>4. SUFFICES ASSUME NEW u \in Threads, NEW i \in 1 .. Len(queue'),
                        queue'[i].live, queue'[i].by = u
                 PROVE  /\ pc'[u] = "wait" /\ answer'[u] = Nothing
                        /\ queue'[i].req = Request(u)'
                        /\ \A j \in 1 .. Len(queue') :
                             /\ j # i => ~queue'[j].live
                             /\ j > i => queue'[j].by # u
    BY DEF OneAlive
  <2>5. /\ i + 1 \in 1 .. Len(queue) /\ 1 \in 1 .. Len(queue) /\ i + 1 # 1
        /\ queue[i + 1].live /\ queue[i + 1].by = u
        /\ queue'[i].req = queue[i + 1].req
    BY <2>1, <2>2, <2>4
  <2>6. ~queue[1].live
    BY <2>5 DEF OneAlive
  <2>7. Request(u)' = Request(u)
    BY <2>3, SameRequest
  <2>8. pc'[u] = "wait" /\ answer'[u] = Nothing /\ queue'[i].req = Request(u)
    BY <2>3, <2>5, <2>6 DEF OneAlive
  <2>9. ASSUME NEW j \in 1 .. Len(queue')
        PROVE  /\ j # i => ~queue'[j].live
               /\ j > i => queue'[j].by # u
    <3>1. j + 1 \in 1 .. Len(queue) /\ queue'[j] = queue[j + 1]
      BY <2>1, <2>2
    <3>2. (j # i => j + 1 # i + 1) /\ (j > i => j + 1 > i + 1)
      BY <2>1, <2>2
    <3> QED
      BY <2>5, <3>1, <3>2 DEF OneAlive
  <2> QED
    BY <2>7, <2>8, <2>9
<1>2. CASE \E c \in Others : Change(c)
  <2>1. UNCHANGED <<pc, call, at, answer, queue>>
    BY <1>2 DEF Change, threads
  <2> QED
    BY <2>1 DEF OneAlive, Request
<1> QED
  BY <1>1, <1>2

\* Of a request that was answered, and of a set that returned 0, no copy is left
\* in the queue.
Clean ==
  \A t \in Threads :
    answer[t].state = "value" \/ (call[t].kind = "set" /\ result[t] = "0") =>
      \A i \in 1 .. Len(queue) : queue[i].by # t

\* A step after which t has no answer, and no result that counts unless it had
\* an answer before.
LEMMA CleanUntouched ==
  ASSUME Shaped, Clean, NEW t \in Threads,
         Len(queue') \in Nat,
         \A i \in 1 .. Len(queue') :
           \/ i \in 1 .. Len(queue) /\ queue'[i].by = queue[i].by
           \/ queue'[i].by = t /\ answer[t].state # "value",
         answer'[t].state # "value",
         \/ call'[t].kind # "set" \/ result'[t] # "0"
         \/ answer[t].state = "value",
         \A u \in Threads \ {t} :
           /\ answer'[u] = answer[u] /\ call'[u] = call[u] /\ result'[u] = result[u]
  PROVE  Clean'
BY DEF Clean

LEMMA CleanStep ==
  ASSUME IInv, Shaped, Staged, Clean, NEW t \in Threads,
         (\E c \in Calls : Call(t, c)) \/ Enter(t) \/ Step(t)
  PROVE  Clean'
<1>0. /\ pc \in [Threads -> Points] /\ DOMAIN call = Threads
      /\ DOMAIN answer = Threads /\ Len(queue) \in Nat
      /\ result \in [Threads -> {"none", "0", "1", "-1"}]
  BY QueueTyped DEF IInv, Typed, Shaped
<1>1. ASSUME Len(queue') = Len(queue),
             \A i \in 1 .. Len(queue) : queue'[i].by = queue[i].by,
             answer'[t].state # "value",
             \/ call'[t].kind # "set" \/ result'[t] # "0"
             \/ answer[t].state = "value",
             \A u \in Threads \ {t} :
               /\ answer'[u] = answer[u] /\ call'[u] = call[u] /\ result'[u] = result[u]
      PROVE  Clean'
  BY <1>0, <1>1, CleanUntouched
<1>2. pc[t] # "idle" => result[t] = "none"
  BY <1>0 DEF Staged
<1>3. pc[t] # "wait" => answer[t].state # "value"
  BY AnswerStates DEF Staged
<1>4. CASE (\E c \in Calls : Call(t, c)) \/ Enter(t)
  <2>1. queue' = queue /\ answer' = answer /\ pc[t] # "wait"
    BY <1>4 DEF Call, Enter, outside
  <2>2. /\ result'[t] = "none"
        /\ \A u \in Threads \ {t} : call'[u] = call[u] /\ result'[u] = result[u]
    BY <1>0, <1>2, <1>4 DEF Call, Enter
  <2> QED
    BY <1>1, <1>3, <2>1, <2>2
<1>5. CASE Send(t) \/ Resend(t)
  <2>1. Posted(t)
    BY <1>5, SentFacts
  <2>2. call' = call /\ result' = result /\ pc[t] # "idle"
    BY <1>5 DEF Send, Resend, NoReply
  <2>3. answer[t].state # "value"
    BY <1>3, <1>5, AnswerStates DEF Send, Resend, NoReply
  <2>4. /\ answer'[t].state # "value"
        /\ \A u \in Threads \ {t} : answer'[u] = answer[u]
    BY <1>0, <2>1, AnswerStates DEF Posted
  <2>5. /\ Len(queue') \in Nat
        /\ \A i \in 1 .. Len(queue') :
             \/ i \in 1 .. Len(queue) /\ queue'[i].by = queue[i].by
             \/ queue'[i].by = t
    BY <1>0, <2>1 DEF Posted
  <2> QED
    BY <1>2, <2>2, <2>3, <2>4, <2>5, CleanUntouched
<1>6. CASE Fetch(t) \/ Miss(t)
  <2>1. /\ pc[t] = "wait" /\ call' = call /\ result' = result
        /\ answer' = [answer EXCEPT ![t] = Nothing]
        /\ queue' \in {queue, Hangup(t)}
    BY <1>6 DEF Fetch, Miss, Fetches, outside
  <2>2. /\ Len(queue') = Len(queue)
        /\ \A i \in 1 .. Len(queue) : queue'[i].by = queue[i].by
    BY <2>1, HangupFacts DEF Shaped
  <2> QED
    BY <1>0, <1>1, <1>2, <2>1, <2>2, AnswerStates
<1>7. CASE Synced(t) \/ Mark(t)
  <2>1. /\ pc[t] # "wait" /\ call' = call /\ answer' = answer /\ queue' = queue
        /\ \A u \in Threads \ {t} : result'[u] = result[u]
    BY <1>0, <1>7 DEF Synced, Mark, Returns, outside
  <2>2. call[t].kind # "set" \/ result'[t] # "0"
    BY <1>0, <1>2, <1>7 DEF Synced, Mark, Returns, InitFailure, Staged
  <2> QED
    BY <1>1, <1>3, <2>1, <2>2
<1>8. CASE Answered(t) \/ Asked(t)
  <2>1. /\ call' = call /\ answer' = [answer EXCEPT ![t] = Nothing]
        /\ queue' = Hangup(t)
        /\ \A u \in Threads \ {t} : result'[u] = result[u]
    BY <1>0, <1>8 DEF Answered, Asked, Returns
  <2>2. call[t].kind # "set" \/ result'[t] # "0" \/ answer[t].state = "value"
    <3>1. CASE Answered(t)
      <4>1. /\ answer[t].state = "value" \/ answer[t] # Value(TRUE)
            /\ Returns(t, IF answer[t] = Value(TRUE) THEN "0" ELSE "-1")
        BY <3>1, AnswerStates DEF Answered
      <4> QED
        BY <1>0, <4>1 DEF Returns
    <3>2. CASE Asked(t)
      BY <3>2 DEF Asked
    <3> QED
      BY <1>8, <3>1, <3>2
  <2>3. /\ Len(queue') = Len(queue)
        /\ \A i \in 1 .. Len(queue) : queue'[i].by = queue[i].by
    BY <2>1, HangupFacts DEF Shaped
  <2> QED
    BY <1>0, <1>1, <2>1, <2>2, <2>3, AnswerStates
<1>9. CASE Read(t) \/ Local(t) \/ GiveBack(t) \/ Borrow(t)
  <2>1. /\ pc[t] # "wait" /\ call' = call /\ answer' = answer /\ queue' = queue
        /\ \A u \in Threads \ {t} : result'[u] = result[u]
    BY <1>0, <1>9 DEF Read, Local, GiveBack, Borrow, Returns, outside
  <2>2. call[t].kind # "set" \/ result'[t] # "0"
    BY <1>0, <1>2, <1>9 DEF Read, Local, GiveBack, Borrow, Returns
  <2> QED
    BY <1>1, <1>3, <2>1, <2>2
<1> QED
  BY <1>4, <1>5, <1>6, <1>7, <1>8, <1>9 DEF Step

\* The only request of a thread that is alive is the last one of that thread.
LEMMA CleanServed ==
  ASSUME Shaped, OneAlive, Clean,
         ServeGet \/ ServeSet \/ LoseRequest \/ (\E c \in Others : Change(c))
  PROVE  Clean'
<1>1. CASE ServeGet \/ ServeSet \/ LoseRequest
  <2>1. /\ Head(queue) = queue[1] /\ Len(queue) >= 1
        /\ Len(queue') = Len(queue) - 1
        /\ \A i \in 1 .. Len(queue') : queue'[i] = queue[i + 1]
    BY <1>1, ServedFacts
  <2>2. Len(queue) \in Nat /\ queue[1].by \in Threads /\ DOMAIN answer = Threads
    BY <2>1, QueueTyped DEF Shaped
  <2>3. \/ answer' = answer
        \/ queue[1].live /\ \E a : answer' = [answer EXCEPT ![queue[1].by] = a]
    BY <1>1, <2>1 DEF ServeGet, ServeSet, LoseRequest, Replies
  <2>4. UNCHANGED <<call, result>>
    BY <1>1 DEF ServeGet, ServeSet, LoseRequest
  <2>5. ASSUME NEW t \in Threads, NEW i \in 1 .. Len(queue'),
               answer'[t].state = "value" \/ (call[t].kind = "set" /\ result[t] = "0")
        PROVE  queue'[i].by # t
    <3>1. i + 1 \in 1 .. Len(queue) /\ i + 1 > 1 /\ queue'[i] = queue[i + 1]
      BY <2>1, <2>2
    <3>2. CASE answer'[t] = answer[t]
      BY <2>5, <3>1, <3>2 DEF Clean
    <3>3. CASE queue[1].live /\ queue[1].by = t
      BY <2>1, <2>2, <3>1, <3>3 DEF OneAlive
    <3> QED
      BY <2>2, <2>3, <3>2, <3>3
  <2> QED
    BY <2>4, <2>5 DEF Clean
<1>2. CASE \E c \in Others : Change(c)
  <2>1. UNCHANGED <<call, answer, result, queue>>
    BY <1>2 DEF Change, threads
  <2> QED
    BY <2>1 DEF Clean
<1> QED
  BY <1>1, <1>2

-----------------------------------------------------------------------------
(* The flags *)

LEMMA FlaggedStep ==
  ASSUME IInv, Shaped, Staged, Flagged, NEW t \in Threads,
         (\E c \in Calls : Call(t, c)) \/ Enter(t) \/ Step(t)
  PROVE  Flagged'
<1>0. /\ pc \in [Threads -> Points] /\ DOMAIN cache = Keys
      /\ DOMAIN answer = Threads /\ at \in [Threads -> 1 .. 6]
  BY DEF IInv, Typed, Shaped
<1>1. ASSUME UNCHANGED <<server, cache>>,
             answer'[t].state # "value",
             \A u \in Threads \ {t} : answer'[u] = answer[u] /\ at'[u] = at[u]
      PROVE  Flagged'
  BY <1>1 DEF Flagged
<1>2. pc[t] # "wait" => answer[t].state # "value"
  BY AnswerStates DEF Staged
<1>3. CASE (\E c \in Calls : Call(t, c)) \/ Enter(t)
  <2>1. UNCHANGED <<server, cache, answer>> /\ pc[t] # "wait"
    BY <1>3 DEF Call, Enter, lib, outside
  <2>2. \A u \in Threads \ {t} : at'[u] = at[u]
    BY <1>0, <1>3 DEF Call, Enter
  <2> QED
    BY <1>1, <1>2, <2>1, <2>2
<1>4. CASE Send(t) \/ Resend(t)
  <2>1. Posted(t)
    BY <1>4, SentFacts
  <2>2. UNCHANGED <<server, cache, at>>
    BY <1>4 DEF Send, Resend, lib
  <2> QED
    BY <1>0, <1>1, <2>1, <2>2, AnswerStates DEF Posted
<1>5. CASE Miss(t) \/ Asked(t)
  <2>1. /\ UNCHANGED <<server, cache>> /\ answer' = [answer EXCEPT ![t] = Nothing]
        /\ \A u \in Threads \ {t} : at'[u] = at[u]
    BY <1>0, <1>5 DEF Miss, Asked, Returns, lib
  <2> QED
    BY <1>0, <1>1, <2>1, AnswerStates
<1>6. CASE Synced(t) \/ Mark(t)
  <2>1. UNCHANGED <<server, cache, answer>> /\ pc[t] # "wait"
    BY <1>6 DEF Synced, Mark, outside
  <2>2. \A u \in Threads \ {t} : at'[u] = at[u]
    BY <1>0, <1>6 DEF Synced, Mark, Returns
  <2> QED
    BY <1>1, <1>2, <2>1, <2>2
<1>7. CASE Read(t) \/ Local(t) \/ GiveBack(t) \/ Borrow(t)
  <2>1. UNCHANGED <<server, cache, answer>> /\ pc[t] # "wait"
    BY <1>7 DEF Read, Local, GiveBack, Borrow, outside
  <2>2. \A u \in Threads \ {t} : at'[u] = at[u]
    BY <1>0, <1>7 DEF Read, Local, GiveBack, Borrow, Returns
  <2> QED
    BY <1>1, <1>2, <2>1, <2>2
<1>8. CASE Fetch(t)
  <2> DEFINE key == Order[at[t]]
             v == Seen(key, answer[t].value)
  <2>1. /\ at[t] <= 5 /\ answer[t].state = "value" /\ server' = server
        /\ cache' = [cache EXCEPT ![key] = v]
        /\ answer' = [answer EXCEPT ![t] = Nothing]
        /\ at' = [at EXCEPT ![t] = @ + 1]
    BY <1>8, OrderFacts DEF Fetch, Fetches, outside
  <2>2. key \in Keys
    BY <1>0, <2>1, OrderInjective
  <2>3. key \in Flags => v \in Bits
    BY <2>1, SeenFacts DEF Flagged, Flags
  <2> HIDE DEF key, v
  <2>4. \A k \in Flags : cache'[k] \in Bits
    BY <1>0, <2>1, <2>3, FlagFacts DEF Flagged
  <2>5. answer'[t].state # "value"
        /\ \A u \in Threads \ {t} : answer'[u] = answer[u] /\ at'[u] = at[u]
    BY <1>0, <2>1, AnswerStates
  <2> QED
    BY <2>1, <2>4, <2>5 DEF Flagged
<1>9. CASE Answered(t)
  <2>1. /\ server' = server /\ answer' = [answer EXCEPT ![t] = Nothing]
        /\ cache' = cache \/ cache' = Stored(call[t])
        /\ call[t].kind = "set"
        /\ \A u \in Threads \ {t} : at'[u] = at[u]
    BY <1>0, <1>9 DEF Answered, Returns
  <2>2. call[t] \in Calls
    BY <2>1, CallKinds DEF Shaped
  <2>3. \A k \in Flags : cache'[k] \in Bits
    BY <1>0, <2>1, <2>2, FlagFacts, LibTimeAssumption DEF Flagged, Stored
  <2>4. answer'[t].state # "value"
        /\ \A u \in Threads \ {t} : answer'[u] = answer[u]
    BY <1>0, <2>1, AnswerStates
  <2> QED
    BY <2>1, <2>3, <2>4 DEF Flagged
<1> QED
  BY <1>3, <1>4, <1>5, <1>6, <1>7, <1>8, <1>9 DEF Step

\* What a thread that fetches is sent is the setting it asked for.
LEMMA FetchedKey ==
  ASSUME IInv, Shaped, Staged, OneAlive, queue # << >>, queue[1].live,
         1 \in 1 .. Len(queue)
  PROVE  LET t == queue[1].by IN
         /\ t \in Threads /\ pc[t] = "wait" /\ queue[1].req = Request(t)
         /\ at[t] <= 5 => /\ queue[1].req.kind = "get" /\ Order[at[t]] \in Keys
                          /\ queue[1].req.key = Order[at[t]]
         /\ at[t] = 6 /\ call[t].kind = "ask" =>
              queue[1].req.kind = "get" /\ queue[1].req.key = "net_time"
         /\ at[t] = 6 /\ call[t].kind = "set" =>
              queue[1].req = call[t] /\ queue[1].req.kind = "set"
         /\ at[t] = 6 => call[t].kind \in {"ask", "set"}
<1> DEFINE t == queue[1].by
<1>1. t \in Threads
  BY QueueTyped
<1>2. pc[t] = "wait" /\ queue[1].req = Request(t)
  BY <1>1 DEF OneAlive
<1>3. at[t] \in 1 .. 6
  BY <1>1 DEF Shaped
<1>4. at[t] = 6 => call[t].kind \in {"ask", "set"}
  BY <1>1, <1>2 DEF Staged
<1>5. at[t] <= Len(Order) \/ call[t].kind \in {"set", "ask"}
  BY <1>3, <1>4, OrderFacts
<1> QED
  BY <1>1, <1>2, <1>3, <1>4, <1>5, RequestFacts

LEMMA FlaggedServed ==
  ASSUME IInv, Shaped, Staged, OneAlive, Flagged,
         ServeGet \/ ServeSet \/ LoseRequest \/ (\E c \in Others : Change(c))
  PROVE  Flagged'
<1>0. DOMAIN answer = Threads /\ DOMAIN server = DOMAIN Settings0
  BY DEF Shaped
<1>1. ASSUME ServeGet \/ ServeSet \/ LoseRequest
      PROVE  /\ Head(queue) = queue[1] /\ queue # << >> /\ 1 \in 1 .. Len(queue)
             /\ queue[1].by \in Threads /\ queue[1].req \in Requests
             /\ UNCHANGED <<cache, at>>
  <2>1. Head(queue) = queue[1] /\ 1 \in 1 .. Len(queue) /\ queue # << >>
    BY <1>1, ServedFacts, QueueTyped DEF ServeGet, ServeSet, LoseRequest
  <2> QED
    BY <1>1, <2>1, QueueTyped DEF ServeGet, ServeSet, LoseRequest, lib
<1>2. CASE ServeGet
  <2>1. server' = server /\ answer' = IF queue[1].live
          THEN [answer EXCEPT ![queue[1].by] = Value(server[queue[1].req.key])]
          ELSE answer
    BY <1>1, <1>2 DEF ServeGet, Replies
  <2>2. CASE queue[1].live
    <3>1. at[queue[1].by] <= 5 => queue[1].req.key = Order[at[queue[1].by]]
      BY <1>1, <1>2, <2>2, FetchedKey
    <3> QED
      BY <1>0, <1>1, <1>2, <2>1, <2>2, <3>1, AnswerStates DEF Flagged
  <2> QED
    BY <1>1, <1>2, <2>1, <2>2 DEF Flagged
<1>3. CASE ServeSet
  <2>1. /\ queue[1].req.kind = "set"
        /\ server' = server \/ server' = [server EXCEPT ![queue[1].req.key] = queue[1].req.val]
        /\ \/ answer' = answer
           \/ queue[1].live /\ \E v : answer' = [answer EXCEPT ![queue[1].by] = v]
    BY <1>1, <1>3 DEF ServeSet, Replies
  <2>2. queue[1].req \in Calls /\ queue[1].req.key \in DOMAIN server
    BY <1>0, <1>1, <1>3, <2>1, RequestsAreKeyed
  <2>3. \A k \in Flags : server'[k] \in Bits
    BY <1>0, <2>1, <2>2, FlagFacts, LibTimeAssumption DEF Flagged
  <2>4. queue[1].live => ~(at[queue[1].by] <= 5)
    BY <1>1, <1>3, <2>1, FetchedKey
  <2> QED
    BY <1>0, <1>1, <1>3, <2>1, <2>3, <2>4 DEF Flagged
<1>4. CASE LoseRequest
  <2>1. /\ server' = server
        /\ answer' = answer \/ answer' = [answer EXCEPT ![queue[1].by] = Error]
    BY <1>1, <1>4 DEF LoseRequest
  <2> QED
    BY <1>0, <1>1, <1>4, <2>1, AnswerStates DEF Flagged
<1>5. CASE \E c \in Others : Change(c)
  <2>1. PICK c \in Others : Change(c)
    BY <1>5
  <2>2. /\ server' = [server EXCEPT ![c.key] = c.val]
        /\ UNCHANGED <<cache, answer, at>>
    BY <2>1 DEF Change, lib, threads
  <2>3. \A k \in Flags : server'[k] \in Bits
    BY <1>0, <2>2, FlagFacts, LibTimeAssumption DEF Flagged
  <2> QED
    BY <2>2, <2>3 DEF Flagged
<1> QED
  BY <1>2, <1>3, <1>4, <1>5

-----------------------------------------------------------------------------
(* The cache *)

\* Someone is going to fetch the settings: the application has time_changed
\* still to handle, or a thread is about to enter time_get_synced.
Awaited == told \/ \E t \in Threads : pc[t] = "enter" /\ call[t].kind = "sync"

\* The cached value c is what a fetch of v leaves.
Agrees(k, c, v) ==
  \/ k = "tz" /\ c = Colon(v)
  \/ k # "tz" /\ c = v
  \/ k = "time_format" /\ v = NoFormat
  \/ k = "default_tz" /\ v = NoTz

Fresh(k) ==
  Awaited \/ k \in missed \cup silent \/ Agrees(k, cache[k], server[k])

\* What the thread inside has fetched is fresh; everything is when nobody is
\* inside; and so is an answer that is still to be read.
FetchedFresh ==
  \A t \in Threads : pc[t] \in Inside =>
    \A i \in 1 .. (at[t] - 1) : Fresh(Order[i])

FreeFresh ==
  sem_time = 1 /\ (s_inited \/ \E t \in Threads : pc[t] = "mark") =>
    \A k \in Keys : Fresh(k)

AnswersFresh ==
  \A t \in Threads : answer[t].state = "value" =>
    /\ at[t] <= 5 => \/ Awaited \/ Order[at[t]] \in silent
                     \/ answer[t].value = server[Order[at[t]]]
    /\ at[t] = 6 /\ call[t].kind = "set" /\ answer[t] = Value(TRUE) => Awaited

Kept == FetchedFresh /\ FreeFresh /\ AnswersFresh

LEMMA SeenAgrees ==
  \A k \in Keys : \A v :
    /\ Agrees(k, Seen(k, v), v)
    /\ Agrees(k, cache[k], v) => cache[k] = Seen(k, v)
BY SeenFacts, OrderFacts DEF Agrees

LEMMA KeptAwaited == ASSUME Awaited' PROVE Kept'
BY DEF Kept, FetchedFresh, FreeFresh, AnswersFresh, Fresh

\* A thread behind the last setting has fetched them all.
LEMMA AllFetched ==
  ASSUME Shaped, Kept, NEW t \in Threads, pc[t] \in Inside, at[t] = 6
  PROVE  \A k \in Keys : Fresh(k)
<1>1. \A i \in 1 .. 5 : Fresh(Order[i])
  BY DEF Kept, FetchedFresh
<1>2. \A k \in Keys : \E i \in 1 .. 5 : k = Order[i]
  BY OrderFacts
<1> QED
  BY <1>1, <1>2

LEMMA KeptMoved ==
  ASSUME Shaped, Kept, NEW t \in Threads,
         \A k \in Keys : Fresh(k) => Fresh(k)',
         pc'[t] \in Inside => \A i \in 1 .. (at'[t] - 1) : Fresh(Order[i])',
         sem_time' = 1 /\ (s_inited' \/ \E u \in Threads : pc'[u] = "mark") =>
           \A k \in Keys : Fresh(k)',
         answer'[t].state # "value",
         Awaited => Awaited', server' = server, silent' = silent,
         \A u \in Threads \ {t} :
           /\ pc'[u] = pc[u] /\ at'[u] = at[u]
           /\ call'[u] = call[u] /\ answer'[u] = answer[u]
  PROVE  Kept'
<1>1. FetchedFresh'
  <2>1. SUFFICES ASSUME NEW u \in Threads, pc'[u] \in Inside,
                        NEW i \in 1 .. (at'[u] - 1)
                 PROVE  Fresh(Order[i])'
    BY DEF FetchedFresh
  <2>2. CASE u = t
    BY <2>1, <2>2
  <2>3. CASE u # t
    <3>1. /\ Fresh(Order[i]) /\ at[u] \in 1 .. 6 /\ at'[u] = at[u]
      BY <2>1, <2>3 DEF Kept, FetchedFresh, Shaped
    <3>2. i \in 1 .. 5
      BY <3>1
    <3>3. Order[i] \in Keys
      BY <3>2, OrderInjective
    <3> QED
      BY <3>1, <3>3
  <2> QED
    BY <2>2, <2>3
<1>2. FreeFresh'
  BY DEF FreeFresh
<1>3. AnswersFresh'
  <2>1. SUFFICES ASSUME NEW u \in Threads, answer'[u].state = "value"
                 PROVE  /\ at'[u] <= 5 => \/ Awaited' \/ Order[at'[u]] \in silent'
                                          \/ answer'[u].value = server'[Order[at'[u]]]
                        /\ at'[u] = 6 /\ call'[u].kind = "set"
                             /\ answer'[u] = Value(TRUE) => Awaited'
    BY DEF AnswersFresh, Value
  <2>2. u # t
    BY <2>1
  <2> QED
    BY <2>1, <2>2 DEF Kept, AnswersFresh
<1> QED
  BY <1>1, <1>2, <1>3 DEF Kept

\* What a step of t leaves of the wait for a fetch, if it is not Enter.
LEMMA AwaitedStays ==
  ASSUME IInv, Shaped, NEW t \in Threads, pc[t] # "enter",
         told' = told, Awaited,
         \A u \in Threads \ {t} : pc'[u] = pc[u] /\ call'[u] = call[u]
  PROVE  Awaited'
BY DEF Awaited

LEMMA KeptStep ==
  ASSUME IInv, Shaped, Staged, Kept, NEW t \in Threads,
         (\E c \in Calls : Call(t, c)) \/ Enter(t) \/ Step(t)
  PROVE  Kept'
<1>0. /\ pc \in [Threads -> Points] /\ DOMAIN call = Threads
      /\ DOMAIN cache = Keys /\ DOMAIN answer = Threads /\ sem_time \in {0, 1}
      /\ at \in [Threads -> 1 .. 6] /\ s_inited \in BOOLEAN
  BY DEF IInv, Typed, Excluded, Shaped
<1>1. pc[t] \in Inside => sem_time = 0
  BY DEF IInv, Excluded
<1>2. pc[t] # "wait" => answer[t].state # "value"
  BY AnswerStates DEF Staged
\* Steps that leave the cache, the server and the wait.
<1>3. ASSUME UNCHANGED <<cache, server, silent>>, missed \subseteq missed',
             Awaited => Awaited', answer'[t].state # "value",
             pc'[t] \in Inside => \A i \in 1 .. (at'[t] - 1) : Fresh(Order[i])',
             sem_time' = 1 /\ (s_inited' \/ \E u \in Threads : pc'[u] = "mark") =>
               \A k \in Keys : Fresh(k),
             \A u \in Threads \ {t} :
               /\ pc'[u] = pc[u] /\ at'[u] = at[u]
               /\ call'[u] = call[u] /\ answer'[u] = answer[u]
      PROVE  Kept'
  <2>1. \A k : Fresh(k) => Fresh(k)'
    BY <1>3 DEF Fresh
  <2>2. sem_time' = 1 /\ (s_inited' \/ \E u \in Threads : pc'[u] = "mark") =>
               \A k \in Keys : Fresh(k)'
    BY <1>3, <2>1
  <2> QED
    BY <1>3, <2>1, <2>2, KeptMoved
<1>4. ASSUME NEW c \in Calls, Call(t, c) PROVE Kept'
  <2>1. /\ UNCHANGED <<cache, server, silent, missed, answer, at, sem_time, s_inited>>
        /\ pc[t] = "idle" /\ pc' = [pc EXCEPT ![t] = "enter"]
        /\ call' = [call EXCEPT ![t] = c]
        /\ told' = (told /\ c.kind # "sync")
    BY <1>4 DEF Call, lib, histories, GoesTo
  <2>2. /\ pc'[t] = "enter" /\ call'[t] = c
        /\ \A u \in Threads \ {t} : pc'[u] = pc[u] /\ call'[u] = call[u]
    BY <1>0, <2>1
  <2>3. Awaited => Awaited'
    BY <2>1, <2>2 DEF Awaited
  <2>4. sem_time' = 1 /\ (s_inited' \/ \E u \in Threads : pc'[u] = "mark") =>
               \A k \in Keys : Fresh(k)
    BY <2>1, <2>2 DEF Kept, FreeFresh
  <2> QED
    BY <1>2, <1>3, <2>1, <2>2, <2>3, <2>4 DEF Inside
<1>5. CASE Enter(t)
  <2>1. /\ UNCHANGED <<cache, server, silent, missed, answer, call, s_inited, told>>
        /\ pc[t] = "enter" /\ sem_time = 1 /\ sem_time' = 0
        /\ \/ /\ call[t].kind = "sync" \/ ~s_inited
              /\ pc' = [pc EXCEPT ![t] = "sync"] /\ at' = [at EXCEPT ![t] = 1]
           \/ /\ call[t].kind # "sync" /\ s_inited
              /\ pc' = [pc EXCEPT ![t] = "body"] /\ at' = [at EXCEPT ![t] = 6]
    BY <1>0, <1>5, OrderFacts DEF Enter, outside, histories, GoesTo
  <2>2. \A u \in Threads \ {t} : pc'[u] = pc[u] /\ at'[u] = at[u]
    BY <1>0, <2>1
  <2>3. CASE call[t].kind = "sync"
    <3>1. \A u \in Threads : pc[u] \notin Inside
      BY <2>1 DEF IInv, Excluded
    <3>2. \A u \in Threads : answer'[u].state # "value"
      BY <2>1, <3>1, AnswerStates DEF Staged, Inside
    <3>3. at'[t] = 1
      BY <1>0, <2>1, <2>3
    <3>4. \A u \in Threads : pc'[u] \in Inside => at'[u] = 1
      BY <2>2, <3>1, <3>3
    <3>5. FetchedFresh'
      BY <3>4 DEF FetchedFresh
    <3>6. AnswersFresh'
      BY <3>2 DEF AnswersFresh
    <3>7. FreeFresh'
      BY <2>1 DEF FreeFresh
    <3> QED
      BY <3>5, <3>6, <3>7 DEF Kept
  <2>4. CASE call[t].kind # "sync"
    <3>1. Awaited => Awaited'
      BY <2>1, <2>2, <2>4 DEF Awaited
    <3>2. \A k : Fresh(k) => Fresh(k)'
      BY <2>1, <3>1 DEF Fresh
    <3>3. pc'[t] \in Inside => \A i \in 1 .. (at'[t] - 1) : Fresh(Order[i])'
      <4>1. CASE s_inited
        <5>1. at'[t] = 6 /\ \A k \in Keys : Fresh(k)'
          BY <1>0, <2>1, <2>4, <3>2, <4>1 DEF Kept, FreeFresh
        <5> QED
          BY <5>1, OrderInjective
      <4>2. CASE ~s_inited
        BY <1>0, <2>1, <4>2
      <4> QED
        BY <4>1, <4>2
    <3> QED
      BY <1>2, <1>3, <2>1, <2>2, <3>1, <3>3
  <2> QED
    BY <2>3, <2>4
<1>6. CASE Send(t) \/ Resend(t)
  <2>1. Posted(t)
    BY <1>6, SentFacts
  <2>2. /\ UNCHANGED <<cache, server, silent, missed, call, s_inited, told, at, sem_time>>
        /\ pc[t] \in Inside /\ pc' = [pc EXCEPT ![t] = "wait"]
    BY <1>0, <1>6 DEF Send, Resend, NoReply, GoesTo, Inside, lib, histories
  <2>3. answer'[t].state # "value" /\ \A u \in Threads \ {t} : answer'[u] = answer[u]
    BY <1>0, <2>1, AnswerStates DEF Posted
  <2>4. \A u \in Threads \ {t} : pc'[u] = pc[u]
    BY <1>0, <2>2
  <2>5. Awaited => Awaited'
    BY <2>2, <2>4, AwaitedStays DEF Inside
  <2>6. \A k : Fresh(k) => Fresh(k)'
    BY <2>2, <2>5 DEF Fresh
  <2>7. \A i \in 1 .. (at'[t] - 1) : Fresh(Order[i])'
    BY <2>2, <2>6 DEF Kept, FetchedFresh
  <2> QED
    BY <1>1, <1>3, <2>2, <2>3, <2>4, <2>5, <2>7
<1>7. CASE Fetch(t)
  <2> DEFINE key == Order[at[t]]
             v == answer[t].value
  <2>1. /\ UNCHANGED <<server, silent, call, s_inited, told, sem_time>>
        /\ pc[t] = "wait" /\ pc' = [pc EXCEPT ![t] = "sync"]
        /\ at[t] \in 1 .. 5 /\ answer[t].state = "value"
        /\ cache' = [cache EXCEPT ![key] = Seen(key, v)]
        /\ missed' = missed \ {key}
        /\ at' = [at EXCEPT ![t] = @ + 1]
        /\ answer' = [answer EXCEPT ![t] = Nothing]
    BY <1>0, <1>7, OrderFacts DEF Fetch, Fetches, GoesTo, outside
  <2>2. key \in Keys
    BY <2>1, OrderInjective
  <2>3. \A u \in Threads \ {t} :
               /\ pc'[u] = pc[u] /\ at'[u] = at[u]
               /\ call'[u] = call[u] /\ answer'[u] = answer[u]
    BY <1>0, <2>1
  <2>4. Awaited => Awaited'
    BY <2>1, <2>3, AwaitedStays
  <2>5. \A k \in Keys \ {key} : Fresh(k) => Fresh(k)'
    BY <1>0, <2>1, <2>2, <2>4 DEF Fresh
  <2>6. ASSUME NEW k \in Keys, k = key PROVE Fresh(k)'
    <3>1. Awaited \/ k \in silent \/ v = server[k]
      <4>1. AnswersFresh /\ at[t] <= 5 /\ answer[t].state = "value"
        BY <2>1 DEF Kept
      <4>2. \/ Awaited \/ Order[at[t]] \in silent
            \/ answer[t].value = server[Order[at[t]]]
        BY <4>1 DEF AnswersFresh
      <4> QED
        BY <2>6, <4>2
    <3>2. cache'[k] = Seen(k, v)
      BY <1>0, <2>1, <2>6
    <3>3. Agrees(k, Seen(k, v), v)
      BY SeenAgrees
    <3> HIDE DEF key, v
    <3> QED
      BY <2>1, <2>4, <3>1, <3>2, <3>3 DEF Fresh
  <2>7. \A k \in Keys : Fresh(k) => Fresh(k)'
    BY <2>5, <2>6
  <2>8. \A i \in 1 .. (at'[t] - 1) : Fresh(Order[i])'
    <3>1. at'[t] = at[t] + 1
      BY <1>0, <2>1
    <3>2. \A i \in 1 .. (at[t] - 1) : Fresh(Order[i])
      BY <2>1 DEF Kept, FetchedFresh, Inside
    <3>3. \A i \in 1 .. (at[t] - 1) : Order[i] \in Keys
      BY <2>1, OrderInjective
    <3>4. \A i \in 1 .. (at[t] - 1) : Fresh(Order[i])'
      BY <2>7, <3>2, <3>3
    <3>5. \A i \in 1 .. (at'[t] - 1) : i \in 1 .. (at[t] - 1) \/ i = at[t]
      BY <2>1, <3>1
    <3> QED
      BY <2>2, <2>6, <3>4, <3>5
  <2>9. sem_time' = 0 /\ answer'[t].state # "value"
    BY <1>0, <1>1, <2>1, AnswerStates DEF Inside
  <2> HIDE DEF key, v
  <2> QED
    BY <2>1, <2>3, <2>4, <2>7, <2>8, <2>9, KeptMoved
<1>8. CASE Miss(t)
  <2>1. /\ UNCHANGED <<cache, server, silent, call, s_inited, told, sem_time>>
        /\ pc[t] = "wait" /\ pc' = [pc EXCEPT ![t] = "sync"]
        /\ missed' = missed \cup {Order[at[t]]}
        /\ at' = [at EXCEPT ![t] = @ + 1]
        /\ answer' = [answer EXCEPT ![t] = Nothing]
    BY <1>8 DEF Miss, Fetches, GoesTo, lib
  <2>2. /\ answer'[t].state # "value" /\ at'[t] = at[t] + 1 /\ at[t] \in 1 .. 6
        /\ \A u \in Threads \ {t} :
               /\ pc'[u] = pc[u] /\ at'[u] = at[u]
               /\ call'[u] = call[u] /\ answer'[u] = answer[u]
    BY <1>0, <2>1, AnswerStates
  <2>3. Awaited => Awaited'
    BY <2>1, <2>2, AwaitedStays
  <2>4. \A k : Fresh(k) => Fresh(k)'
    BY <2>1, <2>3 DEF Fresh
  <2>5. \A k : k = Order[at[t]] => Fresh(k)'
    BY <2>1 DEF Fresh
  <2>6. \A i \in 1 .. (at'[t] - 1) : Fresh(Order[i])'
    <3>1. \A i \in 1 .. (at[t] - 1) : Fresh(Order[i])'
      BY <2>1, <2>4 DEF Kept, FetchedFresh, Inside
    <3>2. \A i \in 1 .. (at'[t] - 1) : i \in 1 .. (at[t] - 1) \/ i = at[t]
      BY <2>2
    <3> QED
      BY <2>5, <3>1, <3>2
  <2> QED
    BY <1>1, <1>3, <2>1, <2>2, <2>3, <2>6 DEF Inside
\* A thread behind the last setting, which leaves the cache.
<1>9. ASSUME pc[t] \in Inside, at[t] = 6,
             UNCHANGED <<cache, server, silent, missed, told, call>>,
             at'[t] \in 1 .. 6, answer'[t].state # "value",
             \A u \in Threads \ {t} :
               pc'[u] = pc[u] /\ at'[u] = at[u] /\ answer'[u] = answer[u]
      PROVE  Kept'
  <2>1. \A k \in Keys : Fresh(k)
    BY <1>9, AllFetched
  <2>2. Awaited => Awaited'
    BY <1>9, AwaitedStays DEF Inside
  <2>3. \A k \in Keys : Fresh(k)'
    BY <1>9, <2>1, <2>2 DEF Fresh
  <2>4. \A i \in 1 .. (at'[t] - 1) : i \in 1 .. 5
    BY <1>9
  <2>5. \A i \in 1 .. (at'[t] - 1) : Fresh(Order[i])'
    BY <2>3, <2>4, OrderInjective
  <2> QED
    BY <1>3, <1>9, <2>1, <2>2, <2>5
<1>10. CASE Synced(t)
  <2>1. /\ pc[t] = "sync" /\ at[t] = 6
        /\ UNCHANGED <<cache, server, silent, missed, told, call, answer>>
    BY <1>0, <1>10, OrderFacts DEF Synced, outside, histories
  <2>2. at'[t] \in 1 .. 6 /\ \A u \in Threads \ {t} : pc'[u] = pc[u] /\ at'[u] = at[u]
    BY <1>0, <1>10 DEF Synced, Returns, GoesTo
  <2> QED
    BY <1>2, <1>9, <2>1, <2>2 DEF Inside
<1>11. CASE Mark(t)
  <2>1. /\ pc[t] = "mark" /\ pc' = [pc EXCEPT ![t] = "idle"]
        /\ at' = [at EXCEPT ![t] = 1]
        /\ UNCHANGED <<cache, server, silent, missed, told, call, answer, sem_time>>
    BY <1>11 DEF Mark, GoesTo, outside, histories
  <2>2. /\ pc'[t] = "idle" /\ answer'[t].state # "value"
        /\ \A u \in Threads \ {t} : pc'[u] = pc[u] /\ at'[u] = at[u]
    BY <1>0, <1>2, <2>1
  <2>3. Awaited => Awaited'
    BY <2>1, <2>2, AwaitedStays
  <2>4. sem_time' = 1 => \A k \in Keys : Fresh(k)
    BY <2>1 DEF Kept, FreeFresh
  <2> QED
    BY <1>3, <2>1, <2>2, <2>3, <2>4 DEF Inside
<1>12. CASE Read(t) \/ Local(t) \/ GiveBack(t)
  <2>1. /\ pc[t] \in {"body", "abroad"} /\ \E r : Returns(t, r)
        /\ UNCHANGED <<cache, server, silent, missed, told, call, answer>>
    BY <1>12 DEF Read, Local, GiveBack, outside, histories
  <2>2. /\ at'[t] = 1
        /\ \A u \in Threads \ {t} : pc'[u] = pc[u] /\ at'[u] = at[u]
    BY <1>0, <2>1 DEF Returns, GoesTo
  <2>3. pc[t] \in Inside /\ at[t] = 6 /\ answer'[t].state # "value"
    BY <1>2, <2>1 DEF Staged, Inside
  <2> QED
    BY <1>9, <2>1, <2>2, <2>3
<1>13. CASE Borrow(t)
  <2>1. /\ pc[t] = "body" /\ pc' = [pc EXCEPT ![t] = "abroad"]
        /\ UNCHANGED <<cache, server, silent, missed, told, call, answer, at>>
    BY <1>13 DEF Borrow, GoesTo, outside, histories
  <2>2. \A u \in Threads \ {t} : pc'[u] = pc[u] /\ at'[u] = at[u]
    BY <1>0, <2>1
  <2>3. pc[t] \in Inside /\ at[t] = 6 /\ answer'[t].state # "value" /\ at'[t] \in 1 .. 6
    BY <1>2, <2>1 DEF Staged, Inside
  <2> QED
    BY <1>9, <2>1, <2>2, <2>3
<1>14. CASE Asked(t)
  <2>1. /\ pc[t] = "wait" /\ at[t] = 6 /\ \E r : Returns(t, r)
        /\ UNCHANGED <<cache, server, silent, missed, told, call>>
        /\ answer' = [answer EXCEPT ![t] = Nothing]
    BY <1>0, <1>14, OrderFacts DEF Asked, histories
  <2>2. /\ at'[t] = 1
        /\ \A u \in Threads \ {t} : pc'[u] = pc[u] /\ at'[u] = at[u]
    BY <1>0, <2>1 DEF Returns, GoesTo
  <2>3. answer'[t].state # "value" /\ \A u \in Threads \ {t} : answer'[u] = answer[u]
    BY <1>0, <2>1, AnswerStates
  <2> QED
    BY <1>9, <2>1, <2>2, <2>3 DEF Inside
<1>15. CASE Answered(t)
  <2>1. /\ pc[t] = "wait" /\ at[t] = 6 /\ \E r : Returns(t, r)
        /\ UNCHANGED <<server, silent, missed, told, call>>
        /\ answer' = [answer EXCEPT ![t] = Nothing]
        /\ call[t].kind = "set"
        /\ cache' = cache \/ answer[t] = Value(TRUE)
    <3>1. /\ pc[t] = "wait" /\ at[t] = 6
          /\ UNCHANGED <<server, silent, missed, told, call>>
          /\ answer' = [answer EXCEPT ![t] = Nothing]
          /\ call[t].kind = "set"
      BY <1>0, <1>15, OrderFacts DEF Answered, histories
    <3>2. /\ \E r : Returns(t, r)
          /\ cache' = cache \/ answer[t] = Value(TRUE)
      BY <1>15 DEF Answered
    <3> QED
      BY <3>1, <3>2
  <2>2. /\ at'[t] = 1
        /\ \A u \in Threads \ {t} : pc'[u] = pc[u] /\ at'[u] = at[u]
    BY <1>0, <2>1 DEF Returns, GoesTo
  <2>3. answer'[t].state # "value" /\ \A u \in Threads \ {t} : answer'[u] = answer[u]
    BY <1>0, <2>1, AnswerStates
  <2>4. CASE cache' = cache
    BY <1>9, <2>1, <2>2, <2>3, <2>4 DEF Inside
  <2>5. CASE answer[t] = Value(TRUE)
    <3>1. Awaited
      BY <2>1, <2>5, AnswerStates DEF Kept, AnswersFresh
    <3>2. Awaited'
      BY <2>1, <2>2, <3>1, AwaitedStays
    <3> QED
      BY <3>2, KeptAwaited
  <2> QED
    BY <2>1, <2>4, <2>5
<1> QED
  BY <1>4, <1>5, <1>6, <1>7, <1>8, <1>10, <1>11, <1>12, <1>13, <1>14, <1>15 DEF Step

\* Nobody but the waiting thread is inside, and no other answer is under way.
LEMMA OthersOutside ==
  ASSUME IInv, Staged, NEW t \in Threads, pc[t] = "wait", NEW u \in Threads, u # t
  PROVE  sem_time = 0 /\ pc[u] \notin Inside /\ answer[u].state # "value"
<1>1. sem_time = 0 /\ pc[u] \notin Inside
  BY DEF IInv, Excluded, Inside
<1> QED
  BY <1>1, AnswerStates DEF Staged, Inside

LEMMA KeptServed ==
  ASSUME IInv, Shaped, Staged, OneAlive, Kept,
         ServeGet \/ ServeSet \/ LoseRequest \/ (\E c \in Others : Change(c))
  PROVE  Kept'
<1>0. /\ DOMAIN answer = Threads /\ DOMAIN server = DOMAIN Settings0
      /\ at \in [Threads -> 1 .. 6]
  BY DEF Shaped
<1>1. ASSUME ServeGet \/ ServeSet \/ LoseRequest
      PROVE  /\ Head(queue) = queue[1] /\ queue # << >> /\ 1 \in 1 .. Len(queue)
             /\ queue[1].by \in Threads /\ queue[1].req \in Requests
             /\ UNCHANGED <<cache, pc, at, call, sem_time, s_inited, missed>>
  <2>1. Head(queue) = queue[1] /\ 1 \in 1 .. Len(queue) /\ queue # << >>
    BY <1>1, ServedFacts, QueueTyped DEF ServeGet, ServeSet, LoseRequest
  <2>2. UNCHANGED <<cache, pc, at, call, sem_time, s_inited, missed>>
    BY <1>1 DEF ServeGet, ServeSet, LoseRequest, lib, histories
  <2> QED
    BY <2>1, <2>2, QueueTyped
\* Nothing fresh goes stale, and one thread at most gets an answer.
<1>2. ASSUME ServeGet \/ ServeSet \/ LoseRequest,
             \A k \in Keys : Fresh(k) => Fresh(k)', AnswersFresh'
      PROVE  Kept'
  <2>1. FetchedFresh'
    <3>1. SUFFICES ASSUME NEW u \in Threads, pc'[u] \in Inside,
                          NEW i \in 1 .. (at'[u] - 1)
                   PROVE  Fresh(Order[i])'
      BY DEF FetchedFresh
    <3>2. Fresh(Order[i]) /\ i \in 1 .. 5
      BY <1>0, <1>1, <1>2, <3>1 DEF Kept, FetchedFresh
    <3> QED
      BY <1>2, <3>2, OrderInjective
  <2>2. FreeFresh'
    BY <1>1, <1>2 DEF Kept, FreeFresh
  <2> QED
    BY <1>2, <2>1, <2>2 DEF Kept
<1>3. CASE ServeGet
  <2>1. /\ server' = server /\ told' = told
        /\ queue[1].live =>
             /\ answer' = [answer EXCEPT ![queue[1].by] = Value(server[queue[1].req.key])]
             /\ silent' = silent \ {queue[1].req.key}
        /\ ~queue[1].live => answer' = answer /\ silent' = silent
    BY <1>1, <1>3 DEF ServeGet, Replies
  <2>2. Awaited' <=> Awaited
    BY <1>1, <1>3, <2>1 DEF Awaited
  <2>3. CASE ~queue[1].live
    <3>1. \A k : Fresh(k) => Fresh(k)'
      BY <1>1, <1>3, <2>1, <2>2, <2>3 DEF Fresh
    <3>2. AnswersFresh'
      <4>1. UNCHANGED <<answer, at, call, server, silent>>
        BY <1>1, <1>3, <2>1, <2>3
      <4> QED
        BY <2>2, <4>1 DEF Kept, AnswersFresh, Value
    <3> QED
      BY <1>2, <1>3, <3>1, <3>2
  <2>4. CASE queue[1].live
    <3>1. PICK t \in Threads : t = queue[1].by
      BY <1>1, <1>3
    <3>2. /\ pc[t] = "wait"
          /\ at[t] <= 5 => Order[at[t]] = queue[1].req.key
          /\ at[t] = 6 => call[t].kind = "ask" /\ queue[1].req.key = "net_time"
      <4>1. queue[1].req.kind = "get"
        BY <1>1, <1>3 DEF ServeGet
      <4> QED
        BY <1>1, <1>3, <2>4, <3>1, <4>1, FetchedKey
    <3>3. sem_time = 0
      BY <3>2 DEF IInv, Excluded, Inside
    <3>4. \A u \in Threads \ {t} : pc[u] \notin Inside /\ answer[u].state # "value"
      BY <3>2, OthersOutside
    <3>5. \A k : k # queue[1].req.key /\ Fresh(k) => Fresh(k)'
      BY <1>1, <1>3, <2>1, <2>2, <2>4 DEF Fresh
    <3>6. \A i \in 1 .. (at[t] - 1) : i \in 1 .. 5 /\ Order[i] # queue[1].req.key
      <4>1. at[t] \in 1 .. 6
        BY <1>0
      <4>2. CASE at[t] <= 5
        BY <3>2, <4>1, <4>2, OrderInjective
      <4>3. CASE at[t] = 6
        BY <3>2, <4>3, OrderFacts
      <4> QED
        BY <4>1, <4>2, <4>3
    <3>7. FetchedFresh'
      <4>1. SUFFICES ASSUME NEW u \in Threads, pc'[u] \in Inside,
                            NEW i \in 1 .. (at'[u] - 1)
                     PROVE  Fresh(Order[i])'
        BY DEF FetchedFresh
      <4>2. u = t /\ i \in 1 .. (at[t] - 1)
        BY <1>1, <1>3, <3>4, <4>1
      <4>3. Fresh(Order[i])
        BY <3>2, <4>2 DEF Kept, FetchedFresh, Inside
      <4> QED
        BY <3>5, <3>6, <4>2, <4>3
    <3>8. FreeFresh'
      BY <1>1, <1>3, <3>3 DEF FreeFresh
    <3>9. AnswersFresh'
      <4>1. SUFFICES ASSUME NEW u \in Threads, answer'[u].state = "value"
                     PROVE  /\ at'[u] <= 5 => \/ Awaited' \/ Order[at'[u]] \in silent'
                                              \/ answer'[u].value = server'[Order[at'[u]]]
                            /\ at'[u] = 6 /\ call'[u].kind = "set"
                                 /\ answer'[u] = Value(TRUE) => Awaited'
        BY DEF AnswersFresh, Value
      <4>2. u = t
        BY <1>0, <2>1, <2>4, <3>1, <3>4, <4>1
      <4>3. answer'[t].value = server[queue[1].req.key]
        BY <1>0, <2>1, <2>4, <3>1, AnswerStates
      <4> QED
        BY <1>1, <1>3, <2>1, <3>2, <4>2, <4>3
    <3> QED
      BY <3>7, <3>8, <3>9 DEF Kept
  <2> QED
    BY <2>3, <2>4
<1>4. CASE ServeSet
  <2>1. PICK o \in {"taken", "refused", "silent"} :
          /\ answer' = IF queue[1].live
                       THEN [answer EXCEPT ![queue[1].by] = Value(o = "taken")]
                       ELSE answer
          /\ server' = IF o = "refused" THEN server
                       ELSE [server EXCEPT ![queue[1].req.key] = queue[1].req.val]
          /\ told' = (told \/ o = "taken")
          /\ silent' = IF o = "silent" THEN silent \cup {queue[1].req.key} ELSE silent
    BY <1>1, <1>4 DEF ServeSet, Replies, Outcomes
  <2>2. CASE o = "taken"
    BY <2>1, <2>2, KeptAwaited DEF Awaited
  <2>3. CASE o # "taken"
    <3>1. Awaited' <=> Awaited
      BY <1>1, <1>4, <2>1, <2>3 DEF Awaited, Shaped
    <3>3. \A k \in DOMAIN Settings0 : k \in silent' \/ server'[k] = server[k]
      BY <1>0, <2>1, <2>3
    <3>4. silent \subseteq silent'
      BY <2>1
    <3>5. \A k \in Keys : Fresh(k) => Fresh(k)'
      BY <1>1, <1>4, <3>1, <3>3, <3>4, FlagFacts DEF Fresh
    <3>6. AnswersFresh'
      <4>1. SUFFICES ASSUME NEW u \in Threads, answer'[u].state = "value"
                     PROVE  /\ at'[u] <= 5 => \/ Awaited' \/ Order[at'[u]] \in silent'
                                              \/ answer'[u].value = server'[Order[at'[u]]]
                            /\ at'[u] = 6 /\ call'[u].kind = "set"
                                 /\ answer'[u] = Value(TRUE) => Awaited'
        BY DEF AnswersFresh, Value
      <4>2. CASE queue[1].live /\ u = queue[1].by
        <5>1. answer'[u] = Value(FALSE)
          BY <1>0, <2>1, <2>3, <4>2
        <5>2. answer'[u] # Value(TRUE)
          BY <5>1, AnswerStates
        <5>3. queue[1].req.kind = "set"
          BY <1>1, <1>4 DEF ServeSet
        <5>4. ~(at[u] <= 5)
          BY <1>1, <1>4, <4>2, <5>3, FetchedKey
        <5> QED
          BY <1>1, <1>4, <5>2, <5>4
      <4>3. CASE ~queue[1].live \/ u # queue[1].by
        <5>1. answer'[u] = answer[u] /\ at'[u] = at[u] /\ call'[u] = call[u]
          BY <1>0, <1>1, <1>4, <2>1, <4>3
        <5>2. at[u] <= 5 => Order[at[u]] \in DOMAIN Settings0
          BY <1>0, OrderInjective, FlagFacts
        <5> QED
          BY <3>1, <3>3, <3>4, <4>1, <5>1, <5>2 DEF Kept, AnswersFresh
      <4> QED
        BY <4>2, <4>3
    <3> QED
      BY <1>2, <1>4, <3>5, <3>6
  <2> QED
    BY <2>2, <2>3
<1>5. CASE LoseRequest
  <2>1. /\ UNCHANGED <<server, told, silent>>
        /\ answer' = answer \/ answer' = [answer EXCEPT ![queue[1].by] = Error]
    BY <1>1, <1>5 DEF LoseRequest, histories
  <2>2. Awaited' <=> Awaited
    BY <1>1, <1>5, <2>1 DEF Awaited
  <2>3. \A k : Fresh(k) => Fresh(k)'
    BY <1>1, <1>5, <2>1, <2>2 DEF Fresh
  <2>4. AnswersFresh'
    <3>1. SUFFICES ASSUME NEW u \in Threads, answer'[u].state = "value"
                   PROVE  /\ at'[u] <= 5 => \/ Awaited' \/ Order[at'[u]] \in silent'
                                            \/ answer'[u].value = server'[Order[at'[u]]]
                          /\ at'[u] = 6 /\ call'[u].kind = "set"
                               /\ answer'[u] = Value(TRUE) => Awaited'
      BY DEF AnswersFresh, Value
    <3>2. answer'[u] = answer[u]
      BY <1>0, <1>1, <1>5, <2>1, <3>1, AnswerStates
    <3> QED
      BY <1>1, <1>5, <2>1, <2>2, <3>1, <3>2 DEF Kept, AnswersFresh
  <2> QED
    BY <1>2, <1>5, <2>3, <2>4
<1>6. CASE \E c \in Others : Change(c)
  BY <1>6, KeptAwaited DEF Change, Awaited
<1> QED
  BY <1>3, <1>4, <1>5, <1>6

-----------------------------------------------------------------------------
(* The library and its server *)

LInv == IInv /\ Shaped /\ Staged /\ OneAlive /\ Clean /\ Flagged /\ Kept

LEMMA InitLInv == Init => LInv
<1>1. SUFFICES ASSUME Init PROVE LInv
  OBVIOUS
<1>2. /\ sem_time = 1 /\ s_inited = FALSE /\ told = FALSE /\ server = Settings0
      /\ pc = [t \in Threads |-> "idle"]
      /\ call = [t \in Threads |-> [kind |-> "local"]]
      /\ at = [t \in Threads |-> 1] /\ tries = [t \in Threads |-> 0]
      /\ answer = [t \in Threads |-> Nothing]
      /\ tzOk = [t \in Threads |-> FALSE]
      /\ result = [t \in Threads |-> "none"]
      /\ queue = << >> /\ missed = {} /\ silent = {}
  BY <1>1, Zenon DEF Init
<1>3. IInv
  BY <1>1, InitIInv
<1>4. Shaped
  <2>1. << >> \in Seq(Entries)
    OBVIOUS
  <2>2. call \in [Threads -> Calls \cup {[kind |-> "local"]}]
    BY <1>2
  <2>3. DOMAIN answer = Threads /\ \A t \in Threads : answer[t].state = "none"
    BY <1>2, AnswerStates
  <2>4. at \in [Threads -> 1 .. 6] /\ tries \in [Threads -> 0 .. 1]
    BY <1>2
  <2>5. /\ tzOk \in [Threads -> BOOLEAN]
        /\ result \in [Threads -> {"none", "0", "1", "-1"}]
    BY <1>2
  <2>6. s_inited \in BOOLEAN /\ told \in BOOLEAN /\ queue \in Seq(Entries)
    BY <1>2, <2>1
  <2>7. /\ DOMAIN server = DOMAIN Settings0
        /\ missed \subseteq Keys /\ silent \subseteq DOMAIN Settings0
    BY <1>2
  <2>8. \A t \in Threads : answer[t].state \in {"none", "error", "value"}
    BY <2>3
  <2> QED
    BY <2>2, <2>3, <2>4, <2>5, <2>6, <2>7, <2>8 DEF Shaped
<1>5. Staged
  BY <1>2 DEF Staged
<1>6. OneAlive /\ Clean
  BY <1>2, AnswerStates DEF OneAlive, Clean
<1>7. Flagged
  <2>1. cache["autosync"] = "0" /\ cache["operator_time"] = "0"
    <3>1. "autosync" \in Keys /\ "operator_time" \in Keys
      BY OrderFacts
    <3> QED
      BY <1>1, <3>1, Zenon DEF Init
  <2>2. \A t \in Threads : answer[t].state # "value"
    BY <1>2, AnswerStates
  <2> QED
    BY <1>2, <2>1, <2>2, LibTimeAssumption DEF Flagged, Flags, Bits
<1>8. Kept
  BY <1>2, AnswerStates DEF Kept, FetchedFresh, FreeFresh, AnswersFresh, Inside
<1> QED
  BY <1>3, <1>4, <1>5, <1>6, <1>7, <1>8 DEF LInv

LEMMA NextLInv == LInv /\ [Next]_vars => LInv'
<1>1. SUFFICES ASSUME LInv, [Next]_vars PROVE LInv'
  OBVIOUS
<1>2. /\ IInv /\ Shaped /\ Staged /\ OneAlive /\ Clean /\ Flagged /\ Kept
      /\ IInv'
  BY <1>1, NextIInv DEF LInv
<1>3. ASSUME NEW t \in Threads,
             (\E c \in Calls : Call(t, c)) \/ Enter(t) \/ Step(t)
      PROVE  LInv'
  BY <1>2, <1>3, ShapedStep, StagedStep, OneAliveStep, CleanStep, FlaggedStep,
     KeptStep DEF LInv
<1>4. CASE ServeGet \/ ServeSet \/ LoseRequest \/ (\E c \in Others : Change(c))
  BY <1>2, <1>4, ShapedServed, StagedServed, OneAliveServed, CleanServed,
     FlaggedServed, KeptServed DEF LInv
<1>5. CASE UNCHANGED vars
  <2>1. /\ UNCHANGED <<sem_time, s_inited, cache, pc, call, at, tries, answer>>
        /\ UNCHANGED <<tzOk, result, server, queue, told, missed, silent>>
    BY <1>5 DEF vars, lib, threads, outside, histories
  <2>2. Shaped' /\ Staged' /\ Clean' /\ Flagged'
    BY <1>2, <2>1 DEF Shaped, Staged, Clean, Flagged, Nothing
  <2>3. OneAlive'
    BY <1>2, <2>1 DEF OneAlive, Request, Nothing
  <2>4. FetchedFresh' /\ FreeFresh'
    BY <1>2, <2>1 DEF Kept, FetchedFresh, FreeFresh, Fresh, Awaited
  <2>5. AnswersFresh'
    BY <1>2, <2>1 DEF Kept, AnswersFresh, Awaited, Value
  <2> QED
    BY <1>2, <2>2, <2>3, <2>4, <2>5 DEF LInv, Kept
<1> QED
  BY <1>1, <1>3, <1>4, <1>5 DEF Next

\* The inductive invariant of the library together with its server.
THEOREM ServedInvariance == Spec => []LInv
BY InitLInv, NextLInv, PTL DEF Spec

\* Every static, local and result of libtime.c keeps its type, and so does what
\* travels on the bus.
THEOREM TypeCorrect == Spec => []TypeOK
<1>1. LInv => TypeOK
  <2>1. SUFFICES ASSUME LInv PROVE TypeOK
    OBVIOUS
  <2>2. Typed /\ Excluded /\ Shaped
    BY <2>1 DEF LInv, IInv
  <2>3. \A t \in Threads :
          /\ CallType(call[t]) /\ at[t] \in 1 .. Len(Order) + 1
          /\ tries[t] \in 0 .. 1 /\ tzOk[t] \in BOOLEAN
          /\ answer[t].state \in {"none", "error", "value"}
          /\ result[t] \in {"none", "0", "1", "-1"}
    <3>1. ASSUME NEW t \in Threads PROVE CallType(call[t])
      <4>1. call[t] \in Calls \cup {[kind |-> "local"]}
        BY <2>2 DEF Shaped
      <4> QED
        BY <4>1, CallKinds
    <3>2. \A t \in Threads :
            /\ at[t] \in 1 .. 6 /\ tries[t] \in 0 .. 1 /\ tzOk[t] \in BOOLEAN
            /\ result[t] \in {"none", "0", "1", "-1"}
      BY <2>2 DEF Shaped
    <3>3. \A t \in Threads : answer[t].state \in {"none", "error", "value"}
      BY <2>2 DEF Shaped
    <3>4. Len(Order) + 1 = 6
      BY OrderFacts
    <3> QED
      BY <3>1, <3>2, <3>3, <3>4
  <2>4. \A i \in DOMAIN queue : queue[i].by \in Threads /\ queue[i].live \in BOOLEAN
    <3>1. DOMAIN queue = 1 .. Len(queue)
      BY <2>2 DEF Shaped
    <3> QED
      BY <2>2, <3>1, QueueTyped
  <2> QED
    BY <2>2, <2>3, <2>4 DEF TypeOK, Typed, Excluded, Shaped, Points, Inside
<1> QED
  BY <1>1, ServedInvariance, PTL

\* When a set has returned 0 no request of its thread is on the way any more: a
\* request that client_get_rsp sent twice cannot undo what comes later.
THEOREM NoCopyIsLate == Spec => []NoLateCopy
<1>1. LInv => NoLateCopy
  <2>1. SUFFICES ASSUME LInv PROVE NoLateCopy
    OBVIOUS
  <2>2. Shaped /\ Clean
    BY <2>1 DEF LInv
  <2>3. DOMAIN queue = 1 .. Len(queue)
    BY <2>2 DEF Shaped
  <2> QED
    BY <2>2, <2>3 DEF NoLateCopy, Clean
<1> QED
  BY <1>1, ServedInvariance, PTL

\* Whoever calls time_get_synced for every time_changed has the server's
\* settings whenever no thread is inside, but for those a fetch failed to bring
\* and those the server changed without announcing it.
THEOREM CacheIsCoherent == Spec => []Coherent
<1>1. LInv => Coherent
  <2>1. SUFFICES ASSUME LInv, sem_time = 1, s_inited, ~told,
                        \A t \in Threads : ~(pc[t] = "enter" /\ call[t].kind = "sync"),
                        NEW k \in Keys \ (missed \cup silent)
                 PROVE  cache[k] = Seen(k, server[k])
    BY DEF Coherent
  <2>2. Fresh(k) /\ ~Awaited
    BY <2>1 DEF LInv, Kept, FreeFresh, Awaited
  <2>3. Agrees(k, cache[k], server[k])
    BY <2>1, <2>2 DEF Fresh
  <2> QED
    BY <2>3, SeenAgrees
<1> QED
  BY <1>1, ServedInvariance, PTL

=============================================================================
