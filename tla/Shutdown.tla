------------------------------ MODULE Shutdown ------------------------------
(***************************************************************************)
(* The life of the clockd process: main, mainloop_run and the signal       *)
(* handler of sighnd.c, which runs in the only thread, between any two of  *)
(* its steps, and stops the loop from there.                               *)
(*                                                                         *)
(* GLib's loop is what mainloop.c uses of it: running is set when the loop *)
(* is entered, not when it is made, and quitting needs the lock that an    *)
(* iteration holds for part of its time.  Of the log (DO_LOG) only the     *)
(* lock of syslog is kept, which is not recursive, and with it that of the *)
(* heap, from which syslog allocates: the handler logs too, and waits for  *)
(* ever if it has interrupted code that holds them.                        *)
(***************************************************************************)
EXTENDS Integers, Sequences, FiniteSets

CONSTANTS
  Terminators,  \* SIGHUP, SIGINT, SIGQUIT, SIGTERM, or some of them
  Usr1          \* SIGUSR1

ASSUME SignalsAssumption == IsFiniteSet(Terminators) /\ Usr1 \notin Terminators

VARIABLES
  pc,           \* where the thread is, see TypeOK
  inLog,        \* it is inside syslog, or an allocation
  mainloop,     \* the static of mainloop.c: "null", "live", or "freed"
  running,      \* the loop's flag
  terminating,  \* the counter of sighnd.c
  handlers,     \* signal handlers at work, the innermost first: where each is,
                \* whether it is inside syslog there, and the value of
                \* terminating that it has seen
  debug,        \* clockd_debug_mode
  rv,           \* the local of mainloop_run
  status,       \* how the process ended, "none" before
  \* histories, read by no action
  lost          \* the loop was quit before it was entered

vars == <<pc, inLog, mainloop, running, terminating, handlers, debug, rv, status,
          lost>>

Init ==
  /\ pc = "start" /\ inLog = FALSE /\ mainloop = "null" /\ running = FALSE
  /\ terminating = 0 /\ handlers = << >> /\ debug \in BOOLEAN
  /\ rv = -1 /\ status = "none" /\ lost = FALSE

GoesTo(p) == pc' = p

\* The process ends.
Exits(s) == pc' = "exited" /\ handlers' = << >> /\ status' = s

-----------------------------------------------------------------------------
(* mainloop_run; a handler suspends it *)

Main(from) == pc = from /\ handlers = << >> /\ ~inLog

\* sighnd_setup
Setup ==
  /\ Main("start") /\ GoesTo("init")
  /\ UNCHANGED <<inLog, mainloop, running, terminating, handlers, debug, rv, status,
                 lost>>

\* server_init succeeds, or there is no bus, no name or no match.
ServerInit ==
  /\ Main("init")
  /\ \/ GoesTo("enter") /\ mainloop' = "live"
     \/ GoesTo("quit") /\ UNCHANGED mainloop
  /\ UNCHANGED <<inLog, running, terminating, handlers, debug, rv, status, lost>>

\* g_main_loop_run marks the loop as running ...
EnterLoop ==
  /\ Main("enter") /\ GoesTo("check")
  /\ running' = TRUE
  /\ UNCHANGED <<inLog, mainloop, terminating, handlers, debug, rv, status, lost>>

\* ... and iterates as long as it is: the lock is held while sources are
\* prepared, and not while it polls and while handlers of the server run.
Iterate ==
  /\ \/ Main("check") /\ running /\ GoesTo("locked")
     \/ Main("locked") /\ GoesTo("poll")
     \/ Main("poll") /\ GoesTo("check")
  /\ UNCHANGED <<inLog, mainloop, running, terminating, handlers, debug, rv, status,
                 lost>>

LeaveLoop ==
  /\ Main("check") /\ ~running /\ GoesTo("left")
  /\ rv' = 0
  /\ UNCHANGED <<inLog, mainloop, running, terminating, handlers, debug, status, lost>>

\* g_main_loop_unref; mainloop is cleared afterwards.
Unref ==
  /\ Main("left") /\ GoesTo("unref")
  /\ mainloop' = "freed"
  /\ UNCHANGED <<inLog, running, terminating, handlers, debug, rv, status, lost>>

Clear ==
  /\ Main("unref") /\ GoesTo("quit")
  /\ mainloop' = "null"
  /\ UNCHANGED <<inLog, running, terminating, handlers, debug, rv, status, lost>>

\* server_quit, and the return from main.
ServerQuit ==
  /\ Main("quit")
  /\ Exits(IF rv = 0 THEN "done" ELSE "failed")
  /\ UNCHANGED <<inLog, mainloop, running, terminating, debug, rv, lost>>

\* DO_LOG of the code that is interrupted: all of it logs or allocates.
Log ==
  /\ pc \notin {"start", "exited"} /\ handlers = << >>
  /\ inLog' = ~inLog
  /\ UNCHANGED <<pc, mainloop, running, terminating, handlers, debug, rv, status, lost>>

-----------------------------------------------------------------------------
(* sighnd_handler *)

\* Wrong variant: a handler may interrupt itself.
MaskedNever(sig) == FALSE

\* A signal is kept back while its own handler is at work.
Masked(sig) == \E i \in DOMAIN handlers : handlers[i].sig = sig

\* A signal comes. Before sighnd_setup it kills.
Signal(sig) ==
  /\ pc # "exited" /\ ~Masked(sig)
  /\ IF pc = "start" THEN Exits("killed")
     ELSE /\ handlers' = <<[sig |-> sig, at |-> "entered", logs |-> FALSE,
                            seen |-> 0]>> \o handlers
          /\ UNCHANGED <<pc, status>>
  /\ UNCHANGED <<inLog, mainloop, running, terminating, debug, rv, lost>>

\* The innermost handler is at this point.
Handler(point) == handlers # << >> /\ Head(handlers).at = point

\* It goes on to that one, out of syslog.
HandlerGoesTo(point) ==
  handlers' = [handlers EXCEPT ![1] =
                 [sig |-> @.sig, at |-> point, logs |-> FALSE, seen |-> @.seen]]

\* The locks are held by code that the innermost handler has interrupted.
LogHeld == inLog \/ \E i \in DOMAIN handlers : handlers[i].logs

\* It has something to log first: the signal and sighnd_terminate (LOG_DEBUG),
\* or the new debug mode, that there is no loop, or the end.
ToLog ==
  /\ handlers # << >> /\ ~Head(handlers).logs
  /\ \/ Head(handlers).at \in {"entered", "called"} /\ debug
     \/ Head(handlers).at \in {"switched", "ending"}

\* syslog in the handler.
HandlerLog ==
  /\ ToLog /\ ~LogHeld
  /\ handlers' = [handlers EXCEPT ![1].logs = TRUE]
  /\ UNCHANGED <<pc, inLog, mainloop, running, terminating, debug, rv, status, lost>>

\* The switch: SIGUSR1 toggles the debug mode, the others go to sighnd_terminate.
Dispatch ==
  /\ Handler("entered") /\ ~ToLog
  /\ IF Head(handlers).sig = Usr1
     THEN debug' = ~debug /\ HandlerGoesTo("switched")
     ELSE HandlerGoesTo("called") /\ UNCHANGED debug
  /\ UNCHANGED <<pc, inLog, mainloop, running, terminating, rv, status, lost>>

\* SIGUSR1 is done.
Switched ==
  /\ Handler("switched") /\ ~ToLog
  /\ handlers' = Tail(handlers)
  /\ UNCHANGED <<pc, inLog, mainloop, running, terminating, debug, rv, status, lost>>

\* ++terminating is a load and a store, and another signal may come in between.
Load ==
  /\ Handler("called") /\ ~ToLog
  /\ handlers' = [handlers EXCEPT ![1] =
                    [sig |-> @.sig, at |-> "loaded", logs |-> FALSE,
                     seen |-> terminating]]
  /\ UNCHANGED <<pc, inLog, mainloop, running, terminating, debug, rv, status, lost>>

\* Wrong variant: terminating is a flag, and every signal stops the loop.
StoreFlag ==
  /\ Handler("loaded")
  /\ terminating' = 1
  /\ HandlerGoesTo("counted")
  /\ UNCHANGED <<pc, inLog, mainloop, running, debug, rv, status, lost>>

\* The second signal forces the end.
Store ==
  /\ Handler("loaded")
  /\ terminating' = Head(handlers).seen + 1
  /\ HandlerGoesTo(IF Head(handlers).seen > 0 THEN "ending" ELSE "counted")
  /\ UNCHANGED <<pc, inLog, mainloop, running, debug, rv, status, lost>>

\* Wrong variant: without a loop there is nothing to do.
MainloopStopGivesUp ==
  /\ Handler("counted")
  /\ mainloop = "null" \/ pc # "locked"
  /\ running' = (running /\ mainloop = "null")
  /\ lost' = (lost \/ (mainloop # "null" /\ pc = "enter"))
  /\ handlers' = Tail(handlers)
  /\ UNCHANGED <<pc, inLog, mainloop, terminating, debug, rv, status>>

\* mainloop_stop(0), which waits for ever for a lock that its own thread holds;
\* without a loop the handler ends the process.
MainloopStop ==
  /\ Handler("counted")
  /\ IF mainloop = "null"
     THEN HandlerGoesTo("ending") /\ UNCHANGED <<running, lost>>
     ELSE /\ pc # "locked"
          /\ running' = FALSE
          /\ lost' = (lost \/ pc = "enter")
          /\ handlers' = Tail(handlers)
  /\ UNCHANGED <<pc, inLog, mainloop, terminating, debug, rv, status>>

\* exit(1)
Exit ==
  /\ Handler("ending") /\ ~ToLog
  /\ Exits("forced")
  /\ UNCHANGED <<inLog, mainloop, running, terminating, debug, rv, lost>>

-----------------------------------------------------------------------------
(* The specification *)

Advance ==
  \/ Setup \/ ServerInit \/ EnterLoop \/ Iterate \/ LeaveLoop \/ Unref \/ Clear
  \/ ServerQuit

HandlerStep ==
  \/ HandlerLog \/ Dispatch \/ Switched \/ Load \/ Store \/ MainloopStop \/ Exit

\* A handler of Terminators is at work, perhaps interrupted by others.
Terminating == \E i \in DOMAIN handlers : handlers[i].sig # Usr1

\* A step of such a handler, when it is the innermost.
Terminate == handlers # << >> /\ Head(handlers).sig # Usr1 /\ HandlerStep

Next ==
  \/ Advance \/ Log \/ HandlerStep
  \/ \E sig \in Terminators \cup {Usr1} : Signal(sig)

\* The process is scheduled, nothing logs for ever, and signals do not come so
\* fast that what they interrupt never goes on.
Spec ==
  /\ Init /\ [][Next]_vars
  /\ WF_vars(HandlerStep) /\ SF_vars(Terminate)
  /\ SF_vars(Log /\ inLog) /\ SF_vars(Advance)

-----------------------------------------------------------------------------
(* Properties *)

\* Every variable has its type, and handlers do not pile up.
TypeOK ==
  /\ pc \in {"start", "init", "enter", "check", "locked", "poll", "left",
             "unref", "quit", "exited"}
  /\ mainloop \in {"null", "live", "freed"} /\ running \in BOOLEAN
  /\ inLog \in BOOLEAN /\ debug \in BOOLEAN /\ lost \in BOOLEAN
  /\ terminating \in Nat
  /\ handlers \in Seq([sig : Terminators \cup {Usr1},
                       at : {"entered", "switched", "called", "loaded", "counted",
                             "ending"},
                       logs : BOOLEAN, seen : Nat])
  /\ Len(handlers) <= Cardinality(Terminators) + 1
  /\ rv \in {0, -1} /\ status \in {"none", "done", "failed", "forced", "killed"}

\* The handler never quits a loop that has been freed, although mainloop_run
\* clears the pointer only afterwards: the loop is left only when a signal has
\* been counted, and the next one forces the end instead.
NoQuitAfterFree == Handler("counted") => mainloop # "freed"

\* The innermost handler waits for ever for what its own thread holds: GLib's
\* lock, when it has interrupted an iteration, or syslog's, when it has
\* interrupted a log of the daemon or of another handler.
Stuck == (Handler("counted") /\ pc = "locked") \/ (ToLog /\ LogHeld)

\* One signal ends the process, except in three windows: between g_main_loop_new
\* and g_main_loop_run it is forgotten; while an iteration holds GLib's lock the
\* handler waits for itself; and so does a handler that has to log, this one or
\* that of a SIGUSR1, when it has interrupted a log.
SignalEnds ==
  Terminating \/ terminating > 0 ~> (status # "none" \/ lost \/ Stuck)
=============================================================================
