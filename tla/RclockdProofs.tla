--------------------------- MODULE RclockdProofs ---------------------------
(***************************************************************************)
(* /etc/localtime survives any number of helpers at work at once, for any  *)
(* zones, with any of their system calls failing and kills anywhere.       *)
(* A helper that nobody disturbs implements HelperPromise, of which        *)
(* ClockServer takes each run of it to be one step.                        *)
(***************************************************************************)
EXTENDS Rclockd, TLAPS

\* A helper was given what its system calls take.
GivenWhatItTakes ==
  \A h \in Helpers :
    /\ pc[h] \in {"stat", "rename", "symlink", "recover"} => arg[h] \in Zones
    /\ pc[h] \in {"settimeofday", "rtc"} => arg[h] \in Times

Typed == TypeOK /\ GivenWhatItTakes

IInv == Typed /\ LinkSurvives

LEMMA InitIInv == Init => IInv
<1> SUFFICES ASSUME Init PROVE IInv
  OBVIOUS
<1>1. TypeOK
  BY DEF Init, TypeOK
<1> QED
  BY <1>1, RclockdAssumption DEF Init, IInv, Typed, GivenWhatItTakes, LinkSurvives

\* What a helper finds when it starts has its type.
LEMMA FoundType ==
  ASSUME TypeOK, NEW h \in Helpers
  PROVE  Found(h) \in [Helpers -> [link : Zones \cup {NoZone},
                                  save : Zones \cup {NoZone}, alone : BOOLEAN]]
BY DEF TypeOK, Found

\* A helper that starts, works or is killed keeps the types.
LEMMA TypedStep ==
  ASSUME IInv, [Next]_vars
  PROVE  Typed'
<1> USE DEF IInv, Typed, TypeOK, GivenWhatItTakes
<1>1. ASSUME NEW h \in Helpers, Run(h) PROVE Typed'
  <2>1. before' \in [Helpers -> [link : Zones \cup {NoZone},
                                 save : Zones \cup {NoZone}, alone : BOOLEAN]]
    BY <1>1, FoundType DEF Run
  <2>2. /\ pc' \in [Helpers -> {"none", "stat", "rename", "symlink", "recover",
                                "settimeofday", "rtc", "exit"}]
        /\ arg' \in [Helpers -> Zones \cup Times]
    <3>1. CASE GoesTo(h, "stat") /\ \E z \in Zones : arg' = [arg EXCEPT ![h] = z]
      BY <3>1 DEF GoesTo
    <3>2. CASE GoesTo(h, "settimeofday")
               /\ \E t \in Times : arg' = [arg EXCEPT ![h] = t]
      BY <3>2 DEF GoesTo
    <3> QED
      BY <1>1, <3>1, <3>2 DEF Run
  <2>3. \/ pc'[h] = "stat" /\ arg'[h] \in Zones
        \/ pc'[h] = "settimeofday" /\ arg'[h] \in Times
    BY <1>1 DEF Run, GoesTo
  <2>4. \A g \in Helpers \ {h} : pc'[g] = pc[g] /\ arg'[g] = arg[g]
    BY <1>1 DEF Run, GoesTo
  <2> QED
    BY <1>1, <2>1, <2>2, <2>3, <2>4 DEF Run
<1>2. ASSUME NEW h \in Helpers, Kill(h) PROVE Typed'
  <2>1. givenUp' \in BOOLEAN
    BY <1>2 DEF Kill, Abandons, Between
  <2> QED
    BY <1>2, <2>1 DEF Kill, GoesTo
<1>3. ASSUME NEW h \in Helpers, Work(h) PROVE Typed'
  <2>1. CASE Stat(h)
    BY <2>1 DEF Stat, Returns, GoesTo
  <2>2. CASE Rename(h)
    BY <2>2 DEF Rename, GoesTo
  <2>3. CASE Symlink(h)
    BY <2>3 DEF Symlink, Returns, GoesTo
  <2>4. CASE Recover(h)
    <3>1. givenUp' \in BOOLEAN
      BY <2>4 DEF Recover, Abandons, Between
    <3> QED
      BY <2>4, <3>1 DEF Recover, Returns, GoesTo
  <2>5. CASE Settimeofday(h)
    BY <2>5 DEF Settimeofday, Returns, GoesTo
  <2>6. CASE SetRtc(h)
    BY <2>6 DEF SetRtc, Returns, GoesTo
  <2> QED
    BY <1>3, <2>1, <2>2, <2>3, <2>4, <2>5, <2>6 DEF Work
<1>4. CASE UNCHANGED vars
  BY <1>4 DEF vars
<1> QED
  BY <1>1, <1>2, <1>3, <1>4 DEF Next

\* A helper that moves from one system call to the next without touching the
\* links, and is not between the renames, or stays there, leaves things as
\* they are.
LEMMA LinksUntouched ==
  ASSUME IInv, NEW h \in Helpers,
         link' = link, save' = save, givenUp' = givenUp,
         \A g \in Helpers \ {h} : pc'[g] = pc[g] /\ root'[g] = root[g],
         Between(h) => Between(h)'
  PROVE  LinkSurvives'
<1>1. \A g \in Helpers : Between(g) => Between(g)'
  BY DEF Between
<1> QED
  BY <1>1 DEF IInv, LinkSurvives

\* One step per action: only a helper with rights touches the links, and it
\* either owes the link afterwards or has put one there.
LEMMA SurvivesStep ==
  ASSUME IInv, [Next]_vars
  PROVE  LinkSurvives'
<1>0. Typed /\ LinkSurvives
  BY DEF IInv
<1>1. ASSUME NEW h \in Helpers, Run(h) PROVE LinkSurvives'
  <2>1. ~Between(h)
    BY <1>1 DEF Run, Between
  <2> QED
    BY <1>0, <1>1, <2>1, LinksUntouched DEF Run, GoesTo, Typed, TypeOK
<1>2. ASSUME NEW h \in Helpers, Kill(h) PROVE LinkSurvives'
  <2>1. CASE link # NoZone
    BY <1>2, <2>1 DEF Kill, LinkSurvives
  <2>2. CASE Abandons(h)
    BY <1>0, <1>2, <2>2 DEF Kill, Abandons, LinkSurvives
  <2>3. CASE ~Between(h)
    <3>1. givenUp' = givenUp
      BY <1>0, <1>2, <2>3 DEF Kill, Abandons, Typed, TypeOK
    <3> QED
      BY <1>0, <1>2, <2>3, <3>1, LinksUntouched DEF Kill, GoesTo, Typed, TypeOK
  <2> QED
    BY <2>1, <2>2, <2>3 DEF Abandons
<1>3. ASSUME NEW h \in Helpers, Work(h) PROVE LinkSurvives'
  <2>1. CASE Stat(h)
    <3>1. ~Between(h)
      BY <2>1 DEF Stat, Between
    <3> QED
      BY <1>0, <2>1, <3>1, LinksUntouched DEF Stat, Returns, GoesTo, Typed, TypeOK
  <2>2. CASE Rename(h)
    <3>1. CASE root[h] /\ link # NoZone /\ link' = NoZone /\ save' = link
      <4>1. save' # NoZone
        BY <2>2, <3>1 DEF Rename
      <4>2. Between(h)'
        BY <1>0, <2>2, <3>1 DEF Rename, Between, GoesTo, Typed, TypeOK
      <4> QED
        BY <4>1, <4>2 DEF LinkSurvives
    <3>2. CASE UNCHANGED <<link, save>>
      <4>1. ~Between(h)
        BY <2>2 DEF Rename, Between
      <4> QED
        BY <1>0, <2>2, <3>2, <4>1, LinksUntouched DEF Rename, GoesTo, Typed, TypeOK
    <3> QED
      BY <2>2, <3>1, <3>2 DEF Rename
  <2>3. CASE Symlink(h)
    <3>1. CASE link' = arg[h]
      BY <1>0, <2>3, <3>1, RclockdAssumption DEF Symlink, Typed, TypeOK, GivenWhatItTakes, LinkSurvives
    <3>2. CASE GoesTo(h, "recover") /\ UNCHANGED link
      <4>1. Between(h) => Between(h)'
        BY <1>0, <2>3, <3>2 DEF Symlink, Between, GoesTo, Typed, TypeOK
      <4> QED
        BY <1>0, <2>3, <3>2, <4>1, LinksUntouched DEF Symlink, GoesTo, Typed, TypeOK
    <3> QED
      BY <2>3, <3>1, <3>2 DEF Symlink
  <2>4. CASE Recover(h)
    <3>1. CASE link' # NoZone
      BY <3>1 DEF LinkSurvives
    <3>2. CASE UNCHANGED <<link, save>> /\ givenUp' = (givenUp \/ Abandons(h))
      <4>1. CASE Abandons(h)
        BY <1>0, <3>2, <4>1 DEF Abandons, LinkSurvives
      <4>2. CASE link # NoZone
        BY <3>2, <4>2 DEF LinkSurvives
      <4>3. CASE ~Between(h)
        <5>1. givenUp' = givenUp
          BY <1>0, <3>2, <4>3 DEF Abandons, Typed, TypeOK
        <5> QED
          BY <1>0, <2>4, <3>2, <4>3, <5>1, LinksUntouched
          DEF Recover, Returns, GoesTo, Typed, TypeOK
      <4> QED
        BY <4>1, <4>2, <4>3 DEF Abandons
    <3> QED
      BY <2>4, <3>1, <3>2 DEF Recover
  <2>5. CASE Settimeofday(h)
    <3>1. ~Between(h)
      BY <2>5 DEF Settimeofday, Between
    <3> QED
      BY <1>0, <2>5, <3>1, LinksUntouched
      DEF Settimeofday, Returns, GoesTo, Typed, TypeOK
  <2>6. CASE SetRtc(h)
    <3>1. ~Between(h)
      BY <2>6 DEF SetRtc, Between
    <3> QED
      BY <1>0, <2>6, <3>1, LinksUntouched DEF SetRtc, Returns, GoesTo, Typed, TypeOK
  <2> QED
    BY <1>3, <2>1, <2>2, <2>3, <2>4, <2>5, <2>6 DEF Work
<1>4. CASE UNCHANGED vars
  BY <1>0, <1>4 DEF vars, LinkSurvives, Between
<1> QED
  BY <1>1, <1>2, <1>3, <1>4 DEF Next

\* However many helpers overlap, whichever of their system calls fail and
\* wherever they are killed, a zone of the phone survives (set_tz of rclockd).
THEOREM ZoneSurvives == Spec => []LinkSurvives
<1>1. Init => IInv
  BY InitIInv
<1>2. IInv /\ [Next]_vars => IInv'
  BY TypedStep, SurvivesStep DEF IInv
<1>3. IInv => LinkSurvives
  BY DEF IInv
<1> QED
  BY <1>1, <1>2, <1>3, PTL DEF Spec

\* Every variable keeps its type, whichever system calls fail.
THEOREM TypeCorrect == Spec => []TypeOK
<1>1. IInv /\ [Next]_vars => IInv'
  BY TypedStep, SurvivesStep DEF IInv
<1>2. IInv => TypeOK
  BY DEF IInv, Typed
<1> QED
  BY InitIInv, <1>1, <1>2, PTL DEF Spec

-----------------------------------------------------------------------------
(***************************************************************************)
(* Rclockd implements HelperPromise. While a helper that nobody disturbs   *)
(* is at work, the links are as it found them, or as its first rename left *)
(* them if that one succeeded; so what it does to them in two steps is     *)
(* what the promise does in one.                                           *)
(***************************************************************************)

Busy(h) == pc[h] \notin {"none", "exit"}

Untouched(h) == link = before[h].link /\ save = before[h].save

Moved(h) == link = NoZone /\ save = SetAside(before[h], NoZone)

LinksAsFound(h) == Untouched(h) \/ (Halfway(h) /\ Moved(h))

AtWork(h) ==
  Busy(h) =>
    /\ rv[h] = "none"
    /\ pc[h] \in {"rename", "symlink", "recover"} => arg[h] \notin Installed
    /\ before[h].alone =>
         LinksAsFound(h) /\ \A g \in Helpers \ {h} : ~Busy(g)

PromiseInv == \A h \in Helpers : AtWork(h)

\* A helper that starts finds nobody at work, or is not alone; and it disturbs
\* those that are.
LEMMA RunKeepsPromiseInv ==
  ASSUME TypeOK, PromiseInv, NEW h \in Helpers, Run(h)
  PROVE  PromiseInv'
<1> SUFFICES ASSUME NEW g \in Helpers, Busy(g)' PROVE AtWork(g)'
  BY DEF PromiseInv, AtWork
<1>1. CASE g = h
  <2>1. before'[h] = [link |-> link, save |-> save,
                      alone |-> { k \in Helpers \ {h} : Busy(k) } = {}]
    BY DEF Run, Found, Busy
  <2>2. pc'[h] \in {"stat", "settimeofday"} /\ rv'[h] = "none"
        /\ \A k \in Helpers \ {h} : pc'[k] = pc[k]
    BY DEF Run, GoesTo, TypeOK
  <2>3. LinksAsFound(h)'
    BY <2>1, <2>2 DEF Run, LinksAsFound, Untouched, Moved, Halfway
  <2>4. before'[h].alone => \A k \in Helpers \ {h} : ~Busy(k)'
    <3>1. before'[h].alone = ({ k \in Helpers \ {h} : Busy(k) } = {})
      BY <2>1
    <3>2. \A k \in Helpers \ {h} : Busy(k)' = Busy(k)
      BY <2>2 DEF Busy
    <3> QED
      BY <3>1, <3>2
  <2> QED
    BY <1>1, <2>2, <2>3, <2>4 DEF AtWork
<1>2. CASE g # h
  <2>1. pc'[g] = pc[g] /\ rv'[g] = rv[g] /\ arg'[g] = arg[g]
    BY <1>2 DEF Run, GoesTo, TypeOK
  <2>2. before'[g] = [before[g] EXCEPT !.alone = FALSE]
    BY <1>2, <2>1 DEF Run, Found, Busy
  <2>3. ~before'[g].alone
    BY <2>2 DEF TypeOK
  <2>4. AtWork(g) /\ Busy(g)
    BY <2>1 DEF PromiseInv, Busy
  <2> QED
    BY <2>1, <2>3, <2>4 DEF AtWork
<1> QED
  BY <1>1, <1>2

\* A helper that is killed is at work no longer, and leaves the links.
LEMMA KillKeepsPromiseInv ==
  ASSUME TypeOK, PromiseInv, NEW h \in Helpers, Kill(h)
  PROVE  PromiseInv'
<1> SUFFICES ASSUME NEW g \in Helpers, Busy(g)' PROVE AtWork(g)'
  BY DEF PromiseInv, AtWork
<1>1. ~Busy(h)' /\ \A k \in Helpers \ {h} : pc'[k] = pc[k] /\ rv'[k] = rv[k]
  BY DEF Kill, GoesTo, TypeOK, Busy
<1>2. g # h
  BY <1>1
<1>3. AtWork(g) /\ Busy(g)
  BY <1>1, <1>2 DEF PromiseInv, Busy
<1>4. LinksAsFound(g)' = LinksAsFound(g)
  BY <1>1, <1>2 DEF Kill, LinksAsFound, Untouched, Moved, Halfway
<1> QED
  BY <1>1, <1>2, <1>3, <1>4 DEF Kill, AtWork, Busy

\* While one helper works, no other one is alone; what it does is its own.
LEMMA OthersAtWork ==
  ASSUME TypeOK, PromiseInv, NEW h \in Helpers, Work(h), NEW g \in Helpers \ {h}
  PROVE  AtWork(g)'
<1>1. Busy(h)
  BY DEF Work, Stat, Rename, Symlink, Recover, Settimeofday, SetRtc, Busy
<1>2. UNCHANGED <<pc[g], arg[g], rv[g], before[g]>>
  BY DEF Work, Stat, Rename, Symlink, Recover, Settimeofday, SetRtc,
         Returns, GoesTo, TypeOK
<1>3. AtWork(g)
  BY DEF PromiseInv
<1> QED
  BY <1>1, <1>2, <1>3 DEF AtWork, Busy

\* A helper at work keeps to what it found, one step per system call.
LEMMA WorkKeepsAtWork ==
  ASSUME TypeOK, PromiseInv, NEW h \in Helpers, Work(h), Busy(h)'
  PROVE  AtWork(h)'
<1>1. AtWork(h) /\ Busy(h)
  BY DEF PromiseInv, Work, Stat, Rename, Symlink, Recover,
         Settimeofday, SetRtc, Busy
<1>2. UNCHANGED <<arg, root, before>> /\ \A k \in Helpers \ {h} : pc'[k] = pc[k]
  BY DEF Work, Stat, Rename, Symlink, Recover, Settimeofday, SetRtc,
         Returns, GoesTo, TypeOK
<1>3. before'[h].alone => \A k \in Helpers \ {h} : ~Busy(k)'
  BY <1>1, <1>2 DEF AtWork, Busy
<1>4. /\ rv'[h] = "none"
      /\ pc'[h] \in {"rename", "symlink", "recover"} => arg'[h] \notin Installed
      /\ before'[h].alone => LinksAsFound(h)'
  <2>1. CASE Stat(h)
    BY <1>1, <2>1 DEF Stat, Returns, GoesTo, TypeOK, AtWork, Busy,
                      LinksAsFound, Untouched, Moved, Halfway
  <2>2. CASE Rename(h)
    BY <1>1, <2>2 DEF Rename, Returns, GoesTo, TypeOK, AtWork, Busy,
                      LinksAsFound, Untouched, Moved, Halfway, SetAside
  <2>3. CASE Symlink(h)
    BY <1>1, <2>3 DEF Symlink, Returns, GoesTo, TypeOK, AtWork, Busy,
                      LinksAsFound, Untouched, Moved, Halfway
  <2>4. CASE Recover(h)
    BY <1>1, <2>4 DEF Recover, Returns, GoesTo, TypeOK, Busy
  <2>5. CASE Settimeofday(h)
    BY <1>1, <2>5 DEF Settimeofday, Returns, GoesTo, TypeOK, AtWork, Busy,
                      LinksAsFound, Untouched, Moved, Halfway
  <2>6. CASE SetRtc(h)
    BY <1>1, <2>6 DEF SetRtc, Returns, GoesTo, TypeOK, Busy
  <2> QED
    BY <2>1, <2>2, <2>3, <2>4, <2>5, <2>6 DEF Work
<1> QED
  BY <1>3, <1>4 DEF AtWork

LEMMA PromiseInvStep ==
  ASSUME TypeOK, PromiseInv, [Next]_vars
  PROVE  PromiseInv'
<1>1. ASSUME NEW h \in Helpers, Run(h) PROVE PromiseInv'
  BY <1>1, RunKeepsPromiseInv
<1>2. ASSUME NEW h \in Helpers, Kill(h) PROVE PromiseInv'
  BY <1>2, KillKeepsPromiseInv
<1>3. ASSUME NEW h \in Helpers, Work(h) PROVE PromiseInv'
  <2>1. AtWork(h)'
    BY <1>3, WorkKeepsAtWork DEF AtWork
  <2>2. \A g \in Helpers \ {h} : AtWork(g)'
    BY <1>3, OthersAtWork
  <2> QED
    BY <2>1, <2>2 DEF PromiseInv
<1>4. CASE UNCHANGED vars
  BY <1>4 DEF vars, PromiseInv, AtWork, LinksAsFound, Untouched, Moved, Halfway, Busy
<1> QED
  BY <1>1, <1>2, <1>3, <1>4 DEF Next

-----------------------------------------------------------------------------
\* A start is the promise's Ask.
LEMMA RunIsAsk ==
  ASSUME TypeOK, NEW h \in Helpers, Run(h)
  PROVE  Promise(h)!Ask
<1>1. pc[h] \in {"none", "exit"} /\ pc'[h] \in {"stat", "settimeofday"}
  BY DEF Run, GoesTo, TypeOK
<1>2. ~Halfway(h) /\ ~Halfway(h)'
  BY <1>1 DEF Halfway
<1> QED
  BY <1>2 DEF Run, TypeOK, Promise!Ask

\* What a run for a zone amounts to, seen from the caller.
LEMMA TzRunByOutcome ==
  ASSUME NEW h \in Helpers, NEW z \in Zones, NEW o \in TzOutcomes,
         z \in Installed => o = "refused", rv[h] = "none",
         NEW l, NEW s, NEW l2, NEW s2,
         l = IF Halfway(h) THEN before[h].link ELSE link,
         s = IF Halfway(h) THEN before[h].save ELSE save,
         l2 = (IF Halfway(h) THEN before[h].link ELSE link)',
         s2 = (IF Halfway(h) THEN before[h].save ELSE save)',
         [link |-> l2, save |-> s2]
           = LinksAfter(o, z, [link |-> l, save |-> s], NoZone),
         rv'[h] \in CASE o = "linked" -> {"ok"}
                      [] o = "link_lost" -> {"failed", "killed"}
                      [] OTHER -> {"failed"},
         UNCHANGED <<wall, rtc>>
  PROVE  Promise(h)!TzRun
BY DEF Promise!TzRun, TzOutcomes, LinksAfter, SetAside,
       Promise!TzOutcomes, Promise!LinksAfter, Promise!SetAside

\* A kill takes effect halfway through set_tz, or cannot be told from one
\* before the start or after the end.
LEMMA KillIsKept ==
  ASSUME Typed, PromiseInv, NEW h \in Helpers, Kill(h), before'[h].alone
  PROVE  Promise(h)!TzRun \/ Promise(h)!Killed
<1>1. /\ pc[h] # "none" /\ ~Halfway(h)'
      /\ UNCHANGED <<link, save, wall, rtc, before>> /\ rv'[h] = "killed"
  BY DEF Kill, GoesTo, Typed, TypeOK, Halfway
<1>2. AtWork(h)
  BY DEF PromiseInv
<1>3. before[h].alone
  BY <1>1
<1>4. CASE Halfway(h) /\ Moved(h)
  <2>1. rv[h] = "none" /\ arg[h] \notin Installed
    BY <1>2, <1>4 DEF AtWork, Busy, Halfway
  <2>2. pc[h] \in {"symlink", "recover"}
    BY <1>4 DEF Halfway
  <2>3. arg[h] \in Zones
    BY <2>2 DEF Typed, GivenWhatItTakes
  <2>4. [link |-> link, save |-> save]
          = LinksAfter("link_lost", arg[h],
                       [link |-> before[h].link, save |-> before[h].save], NoZone)
    BY <1>4 DEF Moved, LinksAfter, SetAside
  <2> QED
    BY <1>1, <1>4, <2>1, <2>3, <2>4, TzRunByOutcome DEF TzOutcomes
<1>5. CASE Halfway(h) /\ ~Moved(h)
  <2>1. link = before[h].link /\ save = before[h].save
    BY <1>2, <1>3, <1>5 DEF AtWork, Busy, Halfway, LinksAsFound, Untouched
  <2> QED
    BY <1>1, <1>5, <2>1 DEF Promise!Killed
<1>6. CASE ~Halfway(h)
  BY <1>1, <1>6 DEF Promise!Killed
<1> QED
  BY <1>4, <1>5, <1>6

\* stat answers for an installed zone, and the caller sees nothing of it
\* otherwise; the first rename cannot be seen.
LEMMA StatIsKept ==
  ASSUME Typed, PromiseInv, NEW h \in Helpers, Stat(h)
  PROVE  Promise(h)!TzRun \/ UNCHANGED Promise(h)!vars
<1>1. AtWork(h) /\ pc[h] = "stat" /\ ~Halfway(h) /\ ~Halfway(h)' /\ arg[h] \in Zones
  BY DEF PromiseInv, Stat, Halfway, GoesTo, Returns, Typed, TypeOK, GivenWhatItTakes
<1>2. CASE Returns(h, "failed")
  <2>1. [link |-> link, save |-> save]
          = LinksAfter("refused", arg[h], [link |-> link, save |-> save], NoZone)
    BY DEF LinksAfter
  <2>2. rv[h] = "none" /\ rv'[h] = "failed" /\ UNCHANGED <<link, save, wall, rtc>>
    BY <1>1, <1>2 DEF Stat, AtWork, Busy, Returns, Typed, TypeOK
  <2> QED
    BY <1>1, <2>1, <2>2, TzRunByOutcome DEF TzOutcomes
<1>3. CASE UNCHANGED rv
  BY <1>1, <1>3 DEF Stat, Promise!vars
<1> QED
  BY <1>2, <1>3 DEF Stat

LEMMA RenameIsKept ==
  ASSUME Typed, PromiseInv, NEW h \in Helpers, Rename(h), before[h].alone
  PROVE  UNCHANGED Promise(h)!vars
<1>1. ~Halfway(h) /\ Halfway(h)' /\ UNCHANGED <<rv, wall, rtc, before>>
  BY DEF Rename, Halfway, GoesTo, Typed, TypeOK
<1>2. link = before[h].link /\ save = before[h].save
  BY <1>1 DEF PromiseInv, AtWork, Rename, Busy, LinksAsFound, Untouched
<1> QED
  BY <1>1, <1>2 DEF Promise!vars

\* The symlink is what the caller sees, and its failure is not.
LEMMA SymlinkIsKept ==
  ASSUME Typed, PromiseInv, NEW h \in Helpers, Symlink(h), before[h].alone
  PROVE  Promise(h)!TzRun \/ UNCHANGED Promise(h)!vars
<1>1. /\ pc[h] = "symlink" /\ Halfway(h) /\ arg[h] \in Zones
      /\ rv[h] = "none" /\ arg[h] \notin Installed
      /\ LinksAsFound(h) /\ UNCHANGED <<save, wall, rtc, before>>
  BY DEF PromiseInv, AtWork, Busy, Symlink, Halfway, Typed, GivenWhatItTakes
<1>2. CASE link = NoZone /\ link' = arg[h] /\ Returns(h, "ok")
  <2>1. save' = SetAside([link |-> before[h].link, save |-> before[h].save], NoZone)
    BY <1>1, <1>2 DEF Symlink, LinksAsFound, Untouched, Moved, SetAside
  <2>2. [link |-> link', save |-> save']
          = LinksAfter("linked", arg[h],
                       [link |-> before[h].link, save |-> before[h].save], NoZone)
    BY <1>2, <2>1 DEF LinksAfter
  <2>3. rv'[h] = "ok" /\ ~Halfway(h)'
    BY <1>2 DEF Returns, GoesTo, Halfway, Typed, TypeOK
  <2> QED
    BY <1>1, <2>2, <2>3, TzRunByOutcome DEF TzOutcomes
<1>3. CASE GoesTo(h, "recover") /\ UNCHANGED <<link, rv>>
  <2>1. Halfway(h)'
    BY <1>3 DEF GoesTo, Halfway, Typed, TypeOK
  <2> QED
    BY <1>1, <1>3, <2>1 DEF Promise!vars
<1> QED
  BY <1>2, <1>3 DEF Symlink

\* The last rename puts back what the first one took, or the link that was
\* saved before if that one failed, or fails itself.
LEMMA RecoverIsKept ==
  ASSUME Typed, PromiseInv, NEW h \in Helpers, Recover(h), before[h].alone
  PROVE  Promise(h)!TzRun
<1>1. /\ pc[h] = "recover" /\ Halfway(h) /\ arg[h] \in Zones
      /\ rv[h] = "none" /\ arg[h] \notin Installed
      /\ LinksAsFound(h) /\ UNCHANGED <<wall, rtc, before>>
      /\ rv'[h] = "failed" /\ ~Halfway(h)'
  BY DEF PromiseInv, AtWork, Busy, Recover, Halfway, Typed, TypeOK,
         GivenWhatItTakes, Returns, GoesTo
<1> DEFINE found == [link |-> before[h].link, save |-> before[h].save]
           Amounts(o) == [link |-> link', save |-> save']
                           = LinksAfter(o, arg[h], found, NoZone)
<1>2. \/ save # NoZone /\ link' = save /\ save' = NoZone
      \/ UNCHANGED <<link, save>>
  BY DEF Recover
<1>3. \E o \in {"failed", "link_lost", "stale", "refused"} : Amounts(o)
  <2>1. CASE save # NoZone /\ link' = save /\ save' = NoZone
    <3>1. CASE Moved(h)
      <4>1. Amounts("failed")
        BY <2>1, <3>1 DEF Moved, LinksAfter, SetAside
      <4> QED
        BY <4>1
    <3>2. CASE Untouched(h)
      <4>1. Amounts("stale")
        BY <2>1, <3>2 DEF Untouched, LinksAfter
      <4> QED
        BY <4>1
    <3> QED
      BY <1>1, <3>1, <3>2 DEF LinksAsFound
  <2>2. CASE UNCHANGED <<link, save>>
    <3>1. CASE Moved(h)
      <4>1. Amounts("link_lost")
        BY <2>2, <3>1 DEF Moved, LinksAfter, SetAside
      <4> QED
        BY <4>1
    <3>2. CASE Untouched(h)
      <4>1. Amounts("refused")
        BY <2>2, <3>2 DEF Untouched, LinksAfter
      <4> QED
        BY <4>1
    <3> QED
      BY <1>1, <3>1, <3>2 DEF LinksAsFound
  <2> QED
    BY <1>2, <2>1, <2>2
<1>4. PICK o \in {"failed", "link_lost", "stale", "refused"} : Amounts(o)
  BY <1>3
<1>5. /\ o \in TzOutcomes
      /\ rv'[h] \in CASE o = "linked" -> {"ok"}
                      [] o = "link_lost" -> {"failed", "killed"}
                      [] OTHER -> {"failed"}
  BY <1>1 DEF TzOutcomes
<1> QED
  BY <1>1, <1>4, <1>5, TzRunByOutcome

\* What a run for a time amounts to. Without the rights, or for a time the
\* kernel does not take, it goes on to the RTC; with them it is done.
LEMMA TimeIsKept ==
  ASSUME Typed, PromiseInv, NEW h \in Helpers, Settimeofday(h) \/ SetRtc(h)
  PROVE  Promise(h)!TimeRun \/ UNCHANGED Promise(h)!vars
<1>1. /\ pc[h] \in {"settimeofday", "rtc"} /\ ~Halfway(h) /\ ~Halfway(h)'
      /\ rv[h] = "none" /\ arg[h] \in Times /\ UNCHANGED <<link, save>>
  BY DEF PromiseInv, AtWork, Busy, Settimeofday, SetRtc, Halfway, Typed, TypeOK,
         GivenWhatItTakes, Returns, GoesTo
<1>2. CASE wall' = arg[h] /\ rtc' = rtc /\ Returns(h, "failed")
  <2>1. rv'[h] = "failed"
    BY <1>2 DEF Returns, Typed, TypeOK
  <2> QED
    BY <1>1, <1>2, <2>1 DEF Promise!TimeRun, Promise!TimeOutcomes
<1>3. CASE wall' = wall /\ rtc' = rtc /\ rv' = rv
  BY <1>1, <1>3 DEF Promise!vars
<1>4. CASE wall' = wall /\ rtc' = arg[h] /\ Returns(h, "ok")
  <2>1. rv'[h] = "ok"
    BY <1>4 DEF Returns, Typed, TypeOK
  <2> QED
    BY <1>1, <1>4, <2>1 DEF Promise!TimeRun, Promise!TimeOutcomes
<1>5. CASE wall' = wall /\ rtc' = rtc /\ Returns(h, "failed")
  <2>1. rv'[h] = "failed"
    BY <1>5 DEF Returns, Typed, TypeOK
  <2> QED
    BY <1>1, <1>5, <2>1 DEF Promise!TimeRun, Promise!TimeOutcomes
<1> QED
  BY <1>2, <1>3, <1>4, <1>5 DEF Settimeofday, SetRtc

\* Every step of a helper that is alone is one of its promise or cannot be seen.
LEMMA StepIsKept ==
  ASSUME Typed, PromiseInv, [Next]_vars,
         NEW h \in Helpers, before'[h].alone, pc'[h] # pc[h]
  PROVE  Promise(h)!Next \/ UNCHANGED Promise(h)!vars
<1>1. CASE Run(h)
  BY <1>1, RunIsAsk DEF Typed, Promise!Next
<1>2. CASE Kill(h)
  BY <1>2, KillIsKept DEF Promise!Next
<1>3. CASE Work(h)
  <2>1. before' = before
    BY <1>3 DEF Work, Stat, Rename, Symlink, Recover, Settimeofday, SetRtc
  <2> QED
    BY <1>3, <2>1, StatIsKept, RenameIsKept, SymlinkIsKept, RecoverIsKept,
       TimeIsKept DEF Work, Promise!Next
<1>4. ASSUME NEW g \in Helpers, g # h, Run(g) \/ Kill(g) \/ Work(g) PROVE FALSE
  BY <1>4 DEF Typed, TypeOK, Run, Kill, Work, Stat, Rename, Symlink, Recover,
              Settimeofday, SetRtc, Returns, GoesTo
<1>5. ~UNCHANGED vars
  BY DEF vars
<1> QED
  BY <1>1, <1>2, <1>3, <1>4, <1>5 DEF Next

LEMMA InitPromise ==
  ASSUME Init PROVE PromiseInv /\ \A h \in Helpers : Promise(h)!Init
BY DEF Init, PromiseInv, AtWork, Busy, Halfway, Promise!Init

\* A helper that nobody disturbs does to the links and the clocks what
\* ClockServer takes one run of it to do, in one step, for any zones and times
\* and whichever system calls fail (main, set_tz and set_time of rclockd).
THEOREM Implements == Spec => KeepsPromise
<1> DEFINE Step == \A h \in Helpers :
                     before'[h].alone /\ pc'[h] # pc[h] =>
                       Promise(h)!Next \/ UNCHANGED Promise(h)!vars
<1>1. Init => IInv /\ PromiseInv /\ \A h \in Helpers : Promise(h)!Init
  BY InitIInv, InitPromise
<1>2. IInv /\ PromiseInv /\ [Next]_vars => (IInv /\ PromiseInv)'
  BY TypedStep, SurvivesStep, PromiseInvStep DEF IInv, Typed
<1>3. IInv /\ PromiseInv /\ [Next]_vars => [Step]_vars
  BY StepIsKept DEF IInv
<1>4. Spec => (\A h \in Helpers : Promise(h)!Init) /\ [][Step]_vars
  BY <1>1, <1>2, <1>3, PTL DEF Spec
<1> QED
  BY <1>4 DEF KeepsPromise
=============================================================================
