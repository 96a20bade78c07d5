--------------------------- MODULE ShutdownProofs ---------------------------
(***************************************************************************)
(* The loop is never quit after it was freed, and handlers never pile up,  *)
(* for any set of signals.                                                 *)
(***************************************************************************)
EXTENDS Shutdown, FiniteSetTheorems, TLAPS

Signals == Terminators \cup {Usr1}

Stages == {"entered", "switched", "called", "loaded", "counted", "ending"}

Frames == [sig : Signals, at : Stages, logs : BOOLEAN, seen : Nat]

Typed ==
  /\ handlers \in Seq(Frames) /\ terminating \in Nat /\ running \in BOOLEAN
  /\ pc = "exited" => handlers = << >>

\* A loop is quit, and left, only when a signal has been counted.
Counted ==
  /\ (\E i \in 1 .. Len(handlers) : handlers[i].at = "counted") => terminating > 0
  /\ pc \in {"check", "locked", "poll"} /\ ~running => terminating > 0
  /\ pc \in {"left", "unref"} => terminating > 0

\* Every handler that began after the loop was freed finds the count raised.
Forced ==
  mainloop = "freed" =>
    /\ pc \in {"unref", "exited"}
    /\ \A i \in 1 .. Len(handlers) :
         \/ handlers[i].at \in {"entered", "switched", "called", "ending"}
         \/ handlers[i].at = "loaded" /\ handlers[i].seen > 0

\* A signal is handled once at a time.
Distinct ==
  \A i, j \in 1 .. Len(handlers) : i # j => handlers[i].sig # handlers[j].sig

IInv == Typed /\ Counted /\ Forced /\ Distinct

-----------------------------------------------------------------------------
(* The stack of handlers *)

\* The innermost handler is replaced by one of another state.
LEMMA HeadReplaced ==
  ASSUME NEW S, NEW s \in Seq(S), s # << >>, NEW e \in S
  PROVE  LET t == [s EXCEPT ![1] = e]
         IN /\ t \in Seq(S) /\ Len(t) = Len(s) /\ t[1] = e
            /\ \A i \in 2 .. Len(t) : t[i] = s[i]
            /\ s[1] \in S /\ Head(s) = s[1]
<1> DEFINE t == [s EXCEPT ![1] = e]
<1>1. PICK n \in Nat : s \in [1 .. n -> S]
  BY DEF Seq
<1>2. Len(s) = n /\ n > 0
  BY <1>1
<1>3. t \in [1 .. n -> S]
  BY <1>1, <1>2
<1>4. t \in Seq(S) /\ Len(t) = n
  BY <1>3, <1>2
<1> QED
  BY <1>1, <1>2, <1>3, <1>4

\* The innermost handler becomes e.
Replaces(e) ==
  /\ handlers # << >> /\ e \in Frames /\ e.sig = handlers[1].sig
  /\ handlers' \in Seq(Frames) /\ Len(handlers') = Len(handlers)
  /\ handlers'[1] = e
  /\ \A i \in 2 .. Len(handlers') : handlers'[i] = handlers[i]

\* The handler that is at work is the first of the stack.
LEMMA Innermost ==
  ASSUME IInv, handlers # << >>
  PROVE  /\ handlers \in Seq(Frames) /\ Head(handlers) = handlers[1]
         /\ handlers[1] \in Frames /\ 1 \in 1 .. Len(handlers)
         /\ pc # "exited"
<1>1. handlers \in Seq(Frames) /\ pc # "exited"
  BY DEF IInv, Typed
<1> QED
  BY <1>1

\* A handler that goes on to another point replaces itself.
LEMMA GoesOn ==
  ASSUME IInv, NEW p \in Stages, handlers # << >>, HandlerGoesTo(p)
  PROVE  Replaces([sig |-> handlers[1].sig, at |-> p, logs |-> FALSE,
                   seen |-> handlers[1].seen])
<1> DEFINE e == [sig |-> handlers[1].sig, at |-> p, logs |-> FALSE,
                 seen |-> handlers[1].seen]
<1>1. handlers \in Seq(Frames) /\ handlers[1] \in Frames /\ 1 \in 1 .. Len(handlers)
  BY Innermost
<1>2. e \in Frames /\ e.sig = handlers[1].sig
  BY <1>1 DEF Frames
<1>3. handlers' = [handlers EXCEPT ![1] = e]
  BY <1>1 DEF HandlerGoesTo
<1> HIDE DEF e
<1>4. Replaces(e)
  BY <1>1, <1>2, <1>3, HeadReplaced DEF Replaces
<1> QED
  BY <1>4 DEF e

\* A handler that goes on keeps the invariant if it does not quit the loop.
LEMMA ReplacedKeeps ==
  ASSUME IInv, NEW e, Replaces(e), UNCHANGED <<pc, mainloop, running>>,
         terminating' \in Nat, terminating' >= terminating \/ terminating' > 0,
         e.at = "counted" => terminating' > 0 /\ mainloop # "freed",
         mainloop = "freed" /\ e.at = "loaded" => e.seen > 0
  PROVE  IInv'
<1>1. \A i \in 1 .. Len(handlers') : i = 1 \/ i \in 2 .. Len(handlers')
  BY Innermost DEF Replaces
<1>2. \A i \in 1 .. Len(handlers') : handlers'[i].sig = handlers[i].sig
  BY <1>1 DEF Replaces
<1>3. Typed'
  BY Innermost DEF Replaces, IInv, Typed
<1>4. Counted'
  BY <1>1 DEF Replaces, IInv, Typed, Counted
<1>5. Forced'
  <2> SUFFICES ASSUME mainloop = "freed", NEW i \in 1 .. Len(handlers')
               PROVE  \/ handlers'[i].at \in {"entered", "switched", "called", "ending"}
                      \/ handlers'[i].at = "loaded" /\ handlers'[i].seen > 0
    BY Innermost DEF IInv, Forced
  <2>1. CASE i = 1
    BY <2>1 DEF Replaces, Frames, Stages
  <2>2. CASE i # 1
    BY <1>1, <2>2 DEF Replaces, IInv, Forced
  <2> QED
    BY <2>1, <2>2
<1>6. Distinct'
  BY <1>2 DEF Replaces, IInv, Distinct
<1> QED
  BY <1>3, <1>4, <1>5, <1>6 DEF IInv

\* The innermost handler returns.
LEMMA ReturnKeeps ==
  ASSUME IInv, handlers # << >>, handlers' = Tail(handlers),
         UNCHANGED <<pc, mainloop, terminating>>, running' \in BOOLEAN,
         running' = running \/ terminating > 0
  PROVE  IInv'
<1>1. /\ handlers' \in Seq(Frames) /\ Len(handlers') = Len(handlers) - 1
      /\ \A i \in 1 .. Len(handlers') :
           i + 1 \in 1 .. Len(handlers) /\ handlers'[i] = handlers[i + 1]
  BY Innermost
<1>2. Typed'
  BY <1>1, Innermost DEF IInv, Typed
<1>3. Counted'
  BY <1>1 DEF IInv, Counted
<1>4. Forced'
  BY <1>1 DEF IInv, Forced
<1>5. Distinct'
  <2> SUFFICES ASSUME NEW i \in 1 .. Len(handlers'), NEW j \in 1 .. Len(handlers'),
                      i # j
               PROVE  handlers'[i].sig # handlers'[j].sig
    BY DEF Distinct
  <2>1. i + 1 # j + 1
    OBVIOUS
  <2> QED
    BY <1>1, <2>1 DEF IInv, Distinct
<1> QED
  BY <1>2, <1>3, <1>4, <1>5 DEF IInv

\* Whatever ends the process leaves nothing to break.
LEMMA ExitKeeps ==
  ASSUME IInv, NEW s, Exits(s), mainloop' = mainloop, running' = running,
         terminating' \in Nat
  PROVE  IInv'
<1>1. /\ handlers' = << >> /\ pc' = "exited"
      /\ << >> \in Seq(Frames) /\ 1 .. Len(<< >>) = {}
  BY DEF Exits
<1> QED
  BY <1>1 DEF IInv, Typed, Counted, Forced, Distinct

-----------------------------------------------------------------------------
(* The steps *)

LEMMA InitIInv == Init => IInv
<1>1. SUFFICES ASSUME Init PROVE IInv
  OBVIOUS
<1>2. handlers = << >> /\ << >> \in Seq(Frames) /\ 1 .. Len(<< >>) = {}
  BY <1>1 DEF Init
<1>3. Typed
  BY <1>1, <1>2 DEF Init, Typed
<1>4. Counted
  BY <1>1, <1>2 DEF Init, Counted
<1>5. Forced /\ Distinct
  BY <1>1, <1>2 DEF Init, Forced, Distinct
<1> QED
  BY <1>3, <1>4, <1>5 DEF IInv

\* The steps of the thread outside of handlers.
LEMMA MainStep == ASSUME IInv, Advance \/ Log PROVE IInv'
<1> USE DEF IInv, Typed, Counted, Forced, Distinct
<1>1. CASE Setup
  BY <1>1 DEF Setup, Main, GoesTo
<1>2. CASE ServerInit
  BY <1>2 DEF ServerInit, Main, GoesTo
<1>3. CASE EnterLoop
  BY <1>3 DEF EnterLoop, Main, GoesTo
<1>4. CASE Iterate
  BY <1>4 DEF Iterate, Main, GoesTo
<1>5. CASE LeaveLoop
  BY <1>5 DEF LeaveLoop, Main, GoesTo
<1>6. CASE Unref
  BY <1>6 DEF Unref, Main, GoesTo
<1>7. CASE Clear
  BY <1>7 DEF Clear, Main, GoesTo
<1>8. CASE ServerQuit
  BY <1>8, ExitKeeps DEF ServerQuit
<1>9. CASE Log
  BY <1>9 DEF Log
<1> QED
  BY <1>1, <1>2, <1>3, <1>4, <1>5, <1>6, <1>7, <1>8, <1>9 DEF Advance

\* A signal that comes is not at work yet.
LEMMA SignalKeeps ==
  ASSUME IInv, NEW sig \in Signals, Signal(sig)
  PROVE  IInv'
<1>1. CASE pc = "start"
  BY <1>1, ExitKeeps DEF Signal, IInv, Typed
<1>2. CASE pc # "start"
  <2> DEFINE new == [sig |-> sig, at |-> "entered", logs |-> FALSE, seen |-> 0]
  <2>1. /\ handlers' = <<new>> \o handlers /\ new \in Frames
        /\ handlers \in Seq(Frames) /\ pc # "exited"
        /\ UNCHANGED <<pc, mainloop, running, terminating>>
        /\ \A i \in 1 .. Len(handlers) : handlers[i].sig # sig
    <3>1. new \in Frames
      BY DEF Frames, Stages
    <3>2. handlers \in Seq(Frames) /\ DOMAIN handlers = 1 .. Len(handlers)
      BY DEF IInv, Typed
    <3>3. \A i \in 1 .. Len(handlers) : handlers[i].sig # sig
      BY <3>2 DEF Signal, Masked
    <3> QED
      BY <1>2, <3>1, <3>2, <3>3 DEF Signal
  <2>2. new.sig = sig /\ new.at = "entered"
    OBVIOUS
  <2> HIDE DEF new
  <2>3. /\ handlers' \in Seq(Frames) /\ Len(handlers') = Len(handlers) + 1
        /\ handlers'[1] = new
        /\ \A i \in 2 .. Len(handlers') :
             i - 1 \in 1 .. Len(handlers) /\ handlers'[i] = handlers[i - 1]
    BY <2>1
  <2>4. \A i \in 1 .. Len(handlers') : i = 1 \/ i \in 2 .. Len(handlers')
    BY <2>1, <2>3
  <2>5. Typed'
    BY <2>1, <2>3 DEF IInv, Typed
  <2>6. Counted'
    BY <2>1, <2>2, <2>3, <2>4 DEF IInv, Counted
  <2>7. Forced'
    BY <2>1, <2>2, <2>3, <2>4 DEF IInv, Forced
  <2>8. Distinct'
    <3>1. \A i \in 2 .. Len(handlers') : handlers'[i].sig # sig
      BY <2>1, <2>3
    <3>2. ASSUME NEW i \in 2 .. Len(handlers'), NEW j \in 2 .. Len(handlers'), i # j
          PROVE  handlers'[i].sig # handlers'[j].sig
      <4>1. i - 1 # j - 1
        BY <3>2
      <4> QED
        BY <2>3, <4>1 DEF IInv, Distinct
    <3> QED
      BY <2>2, <2>3, <2>4, <3>1, <3>2 DEF Distinct
  <2> QED
    BY <2>5, <2>6, <2>7, <2>8 DEF IInv
<1> QED
  BY <1>1, <1>2

\* The steps that neither count nor quit.
LEMMA TellKeeps ==
  ASSUME IInv, HandlerLog \/ Dispatch \/ Switched \/ Exit
  PROVE  IInv'
<1>1. handlers # << >> /\ terminating' = terminating /\ terminating \in Nat
  BY DEF HandlerLog, Dispatch, Switched, Exit, ToLog, Handler, IInv, Typed
<1>2. /\ handlers \in Seq(Frames) /\ Head(handlers) = handlers[1]
      /\ handlers[1] \in Frames /\ 1 \in 1 .. Len(handlers)
  BY <1>1, Innermost
<1>3. CASE HandlerLog
  <2> DEFINE e == [handlers[1] EXCEPT !.logs = TRUE]
  <2>1. /\ e \in Frames /\ e.sig = handlers[1].sig
        /\ e.at = handlers[1].at /\ e.at # "counted" /\ e.at # "loaded"
    BY <1>2, <1>3 DEF HandlerLog, ToLog, Frames
  <2>2. /\ handlers' = [handlers EXCEPT ![1] = e]
        /\ UNCHANGED <<pc, mainloop, running>>
    BY <1>2, <1>3 DEF HandlerLog
  <2> HIDE DEF e
  <2>3. Replaces(e)
    BY <1>1, <1>2, <2>1, <2>2, HeadReplaced DEF Replaces
  <2> QED
    BY <1>1, <2>1, <2>2, <2>3, ReplacedKeeps
<1>4. CASE Dispatch
  <2>1. PICK p \in {"switched", "called"} : HandlerGoesTo(p)
    BY <1>4 DEF Dispatch
  <2>2. UNCHANGED <<pc, mainloop, running>>
    BY <1>4 DEF Dispatch
  <2> DEFINE e == [sig |-> handlers[1].sig, at |-> p, logs |-> FALSE,
                   seen |-> handlers[1].seen]
  <2>3. Replaces(e) /\ e.at = p
    BY <1>1, <2>1, GoesOn DEF Stages
  <2> HIDE DEF e
  <2> QED
    BY <1>1, <2>1, <2>2, <2>3, ReplacedKeeps
<1>5. CASE Switched
  BY <1>1, <1>5, ReturnKeeps DEF Switched, IInv, Typed
<1>6. CASE Exit
  BY <1>1, <1>6, ExitKeeps DEF Exit
<1> QED
  BY <1>3, <1>4, <1>5, <1>6

LEMMA LoadKeeps == ASSUME IInv, Load PROVE IInv'
<1>1. /\ handlers # << >> /\ terminating \in Nat
      /\ UNCHANGED <<pc, mainloop, running, terminating>>
  BY DEF Load, Handler, IInv, Typed
<1>2. /\ handlers \in Seq(Frames) /\ handlers[1] \in Frames
      /\ 1 \in 1 .. Len(handlers) /\ pc # "exited"
  BY <1>1, Innermost
<1> DEFINE e == [sig |-> handlers[1].sig, at |-> "loaded", logs |-> FALSE,
                 seen |-> terminating]
<1>3. e \in Frames /\ e.sig = handlers[1].sig /\ e.at = "loaded" /\ e.seen = terminating
  BY <1>1, <1>2 DEF Frames, Stages
<1>4. handlers' = [handlers EXCEPT ![1] = e]
  BY <1>2 DEF Load
<1> HIDE DEF e
<1>5. Replaces(e)
  BY <1>1, <1>2, <1>3, <1>4, HeadReplaced DEF Replaces
<1>6. mainloop = "freed" => terminating > 0
  BY <1>2 DEF IInv, Counted, Forced
<1> QED
  BY <1>1, <1>3, <1>5, <1>6, ReplacedKeeps

LEMMA StoreKeeps == ASSUME IInv, Store PROVE IInv'
<1>1. /\ handlers # << >> /\ handlers[1] \in Frames /\ Head(handlers) = handlers[1]
      /\ 1 \in 1 .. Len(handlers)
  BY Innermost DEF Store, Handler
<1>2. /\ handlers[1].at = "loaded" /\ handlers[1].seen \in Nat
      /\ terminating' = handlers[1].seen + 1
      /\ UNCHANGED <<pc, mainloop, running>>
  BY <1>1 DEF Store, Handler, Frames
<1>3. PICK p \in {"ending", "counted"} :
        HandlerGoesTo(p) /\ (p = "counted" => ~(handlers[1].seen > 0))
  BY <1>1 DEF Store
<1> DEFINE e == [sig |-> handlers[1].sig, at |-> p, logs |-> FALSE,
                 seen |-> handlers[1].seen]
<1>4. Replaces(e) /\ e.at = p
  BY <1>1, <1>3, GoesOn DEF Stages
<1> HIDE DEF e
<1>5. p = "counted" => mainloop # "freed"
  BY <1>1, <1>2, <1>3 DEF IInv, Forced
<1>6. terminating' \in Nat /\ terminating' > 0
  BY <1>2
<1> QED
  BY <1>2, <1>3, <1>4, <1>5, <1>6, ReplacedKeeps

LEMMA StopKeeps == ASSUME IInv, MainloopStop PROVE IInv'
<1>1. /\ handlers # << >> /\ handlers[1].at = "counted" /\ 1 \in 1 .. Len(handlers)
      /\ UNCHANGED <<pc, mainloop, terminating>>
  BY Innermost DEF MainloopStop, Handler
<1>2. terminating > 0 /\ mainloop # "freed" /\ terminating \in Nat
  BY <1>1 DEF IInv, Counted, Forced, Typed
<1>3. CASE mainloop = "null"
  <2>1. HandlerGoesTo("ending") /\ running' = running
    BY <1>3 DEF MainloopStop
  <2> DEFINE e == [sig |-> handlers[1].sig, at |-> "ending", logs |-> FALSE,
                   seen |-> handlers[1].seen]
  <2>2. Replaces(e) /\ e.at = "ending"
    BY <1>1, <2>1, GoesOn DEF Stages
  <2> HIDE DEF e
  <2> QED
    BY <1>1, <1>2, <2>1, <2>2, ReplacedKeeps
<1>4. CASE mainloop # "null"
  <2>1. handlers' = Tail(handlers) /\ running' = FALSE
    BY <1>4 DEF MainloopStop
  <2> QED
    BY <1>1, <1>2, <2>1, ReturnKeeps
<1> QED
  BY <1>3, <1>4

LEMMA StepIInv == ASSUME IInv, [Next]_vars PROVE IInv'
<1>1. CASE Advance \/ Log
  BY <1>1, MainStep
<1>2. CASE HandlerStep
  BY <1>2, TellKeeps, LoadKeeps, StoreKeeps, StopKeeps DEF HandlerStep
<1>3. ASSUME NEW sig \in Signals, Signal(sig) PROVE IInv'
  BY <1>3, SignalKeeps
<1>4. CASE UNCHANGED vars
  BY <1>4 DEF vars, IInv, Typed, Counted, Forced, Distinct
<1> QED
  BY <1>1, <1>2, <1>3, <1>4 DEF Next, Signals

\* No handler ever quits a loop that mainloop_run has freed and not yet cleared
\* (mainloop.c, sighnd.c), for any signals and however they nest.
THEOREM FreedLoopUntouched == Spec => []NoQuitAfterFree
<1>1. IInv => NoQuitAfterFree
  <2> SUFFICES ASSUME IInv, Handler("counted"), mainloop = "freed" PROVE FALSE
    BY DEF NoQuitAfterFree
  <2>1. handlers[1].at = "counted" /\ 1 \in 1 .. Len(handlers)
    BY Innermost DEF Handler
  <2> QED
    BY <2>1 DEF IInv, Forced
<1> QED
  BY <1>1, InitIInv, StepIInv, PTL DEF Spec

-----------------------------------------------------------------------------
(* Types *)

Points ==
  {"start", "init", "enter", "check", "locked", "poll", "left", "unref", "quit",
   "exited"}

\* The variables that hold a flag or a name.
Plain ==
  /\ pc \in Points /\ mainloop \in {"null", "live", "freed"}
  /\ inLog \in BOOLEAN /\ debug \in BOOLEAN /\ lost \in BOOLEAN
  /\ rv \in {0, -1} /\ status \in {"none", "done", "failed", "forced", "killed"}

\* Handlers of different signals are at most as many as there are signals.
LEMMA OneEach ==
  ASSUME NEW s \in Seq(Frames),
         \A i, j \in 1 .. Len(s) : i # j => s[i].sig # s[j].sig
  PROVE  Len(s) <= Cardinality(Terminators) + 1
<1> DEFINE f == [i \in 1 .. Len(s) |-> s[i].sig]
<1>1. Len(s) \in Nat /\ \A i \in 1 .. Len(s) : s[i].sig \in Signals
  <2>1. \A i \in 1 .. Len(s) : s[i] \in Frames
    OBVIOUS
  <2> QED
    BY <2>1 DEF Frames
<1>2. f \in [1 .. Len(s) -> Signals]
  BY <1>1
<1>3. \A i, j \in 1 .. Len(s) : f[i] = f[j] => i = j
  OBVIOUS
<1>4. f \in Injection(1 .. Len(s), Signals)
  BY <1>2, <1>3 DEF Injection, IsInjective
<1> HIDE DEF f
<1>5. IsFiniteSet(Signals) /\ Cardinality(Signals) = Cardinality(Terminators) + 1
  BY SignalsAssumption, FS_AddElement DEF Signals
<1>6. Cardinality(1 .. Len(s)) <= Cardinality(Signals)
  BY <1>4, <1>5, FS_Injection
<1>7. Cardinality(1 .. Len(s)) = Len(s)
  <2>1. Cardinality(1 .. Len(s)) = IF 1 > Len(s) THEN 0 ELSE Len(s) - 1 + 1
    BY <1>1, FS_Interval
  <2> QED
    BY <1>1, <2>1
<1> QED
  BY <1>5, <1>6, <1>7

\* The variables that hold a flag or a name are only given those.
LEMMA PlainStep == ASSUME Plain, [Next]_vars PROVE Plain'
<1>1. CASE Advance
  BY <1>1 DEF Advance, Setup, ServerInit, EnterLoop, Iterate, LeaveLoop, Unref, Clear,
              ServerQuit, GoesTo, Exits, Plain, Points
<1>2. CASE Log
  BY <1>2 DEF Log, Plain
<1>3. CASE HandlerLog \/ Dispatch \/ Switched \/ Load
  BY <1>3 DEF HandlerLog, Dispatch, Switched, Load, Plain
<1>4. CASE Store \/ MainloopStop \/ Exit
  BY <1>4 DEF Store, MainloopStop, Exit, Exits, Plain, Points
<1>5. ASSUME NEW sig, Signal(sig) PROVE Plain'
  BY <1>5 DEF Signal, Exits, Plain, Points
<1>6. CASE UNCHANGED vars
  BY <1>6 DEF vars, Plain
<1> QED
  BY <1>1, <1>2, <1>3, <1>4, <1>5, <1>6 DEF Next, HandlerStep

\* Every variable has its type, and at most one handler of each signal is at
\* work, which sigaction's mask sees to, so the stack never grows beyond the
\* number of signals (sighnd_setup, sighnd_handler).
THEOREM TypeCorrect == Spec => []TypeOK
<1>1. Init => Plain
  BY DEF Init, Plain, Points
<1>2. IInv /\ Plain => TypeOK
  <2> SUFFICES ASSUME IInv, Plain PROVE TypeOK
    OBVIOUS
  <2>1. Len(handlers) <= Cardinality(Terminators) + 1
    BY OneEach DEF IInv, Typed, Distinct
  <2> QED
    BY <2>1 DEF TypeOK, IInv, Typed, Plain, Points, Frames, Signals, Stages
<1> QED
  BY <1>1, <1>2, InitIInv, StepIInv, PlainStep, PTL DEF Spec
=============================================================================
