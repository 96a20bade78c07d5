--------------------------- MODULE TzNamesProofs ---------------------------
(***************************************************************************)
(* Facts about the operators of TzNames, for every set of zones.           *)
(***************************************************************************)
EXTENDS TzNames, Sequences, WellFoundedInduction, TLAPS

Less == { p \in Nat \X Nat : p[1] < p[2] }

\* The order of the natural numbers is well-founded.
LEMMA LessWellFounded == IsWellFoundedOn(Less, Nat)
<1>1. Less = OpToRel(<, Nat)
  BY DEF Less, OpToRel
<1> QED
  BY <1>1, NatLessThanWellFounded

\* Every non-empty set of natural numbers has a least element.
LEMMA LeastElement ==
  ASSUME NEW T \in SUBSET Nat, T # {}
  PROVE  \E x \in T : \A y \in T : x <= y
<1>1. PICK x \in T : \A y \in T : <<y, x>> \notin Less
  BY LessWellFounded, WFMin
<1>2. ASSUME NEW y \in T PROVE x <= y
  <2>1. ~(y < x)
    BY <1>1 DEF Less
  <2> QED
    BY <2>1
<1> QED
  BY <1>2

\* If the flag differs two weeks on, there is a first second at which it does.
LEMMA FirstChange ==
  ASSUME NEW zone, NEW tick \in Nat, DstAt(zone, tick) # DstAt(zone, tick + Window)
  PROVE  \E k \in 1..Window :
           /\ DstAt(zone, tick + k) # DstAt(zone, tick)
           /\ \A j \in 1..(k - 1) : DstAt(zone, tick + j) = DstAt(zone, tick)
<1> DEFINE T == { k \in 1..Window : DstAt(zone, tick + k) # DstAt(zone, tick) }
<1>0. Window \in Nat \ {0}
  BY OffsetAssumption
<1>1. Window \in T /\ T \in SUBSET Nat
  BY <1>0
<1>2. PICK x \in T : \A y \in T : x <= y
  BY <1>1, LeastElement
<1>3. ASSUME NEW j \in 1..(x - 1)
      PROVE  DstAt(zone, tick + j) = DstAt(zone, tick)
  BY <1>0, <1>2
<1> QED
  BY <1>2, <1>3

\* The next look at DST is at least a second and at most two weeks ahead
\* (next_dst_change): the CHOOSE of DstDelay has something to choose.
LEMMA DstDelayBounds ==
  ASSUME NEW zone \in Zones, NEW tick \in Nat
  PROVE  DstDelay(zone, tick) \in 1..Window
<1>0. Window \in Nat \ {0}
  BY OffsetAssumption
<1>1. CASE DstAt(zone, tick) = DstAt(zone, tick + Window)
  BY <1>0, <1>1 DEF DstDelay
<1>2. CASE DstAt(zone, tick) # DstAt(zone, tick + Window)
  <2> DEFINE First(k) == /\ DstAt(zone, tick + k) # DstAt(zone, tick)
                         /\ \A j \in 1..(k - 1) :
                              DstAt(zone, tick + j) = DstAt(zone, tick)
  <2>1. \E k \in 1..Window : First(k)
    BY <1>2, FirstChange
  <2>2. DstDelay(zone, tick) = CHOOSE k \in 1..Window : First(k)
    BY <1>2 DEF DstDelay
  <2> HIDE DEF First
  <2> QED
    BY <2>1, <2>2
<1> QED
  BY <1>1, <1>2

\* Where the flag is the same two weeks on, it has not changed and changed back
\* in between: no season is shorter than the window.
SeasonsOutlastWindow ==
  \A zone \in Installed, tick \in Nat :
    DstAt(zone, tick) = DstAt(zone, tick + Window) =>
      \A j \in 1..Window : DstAt(zone, tick + j) = DstAt(zone, tick)

\* Nothing changes before the next look at DST (next_dst_change).
LEMMA NothingBeforeDelay ==
  ASSUME SeasonsOutlastWindow, NEW zone \in Installed, NEW tick \in Nat,
         NEW j \in 1..(DstDelay(zone, tick) - 1)
  PROVE  DstAt(zone, tick + j) = DstAt(zone, tick)
<1>0. Window \in Nat \ {0} /\ DstDelay(zone, tick) \in 1..Window
  BY OffsetAssumption, ZonesAssumption, DstDelayBounds
<1>1. CASE DstAt(zone, tick) = DstAt(zone, tick + Window)
  <2>1. j \in 1..Window
    BY <1>0
  <2> QED
    BY <1>1, <2>1 DEF SeasonsOutlastWindow
<1>2. CASE DstAt(zone, tick) # DstAt(zone, tick + Window)
  <2> DEFINE First(k) == /\ DstAt(zone, tick + k) # DstAt(zone, tick)
                         /\ \A i \in 1..(k - 1) :
                              DstAt(zone, tick + i) = DstAt(zone, tick)
  <2>1. PICK x \in 1..Window : First(x)
    BY <1>0, <1>2, FirstChange
  <2>2. DstDelay(zone, tick) = CHOOSE k \in 1..Window : First(k)
    BY <1>2 DEF DstDelay
  <2>3. First(DstDelay(zone, tick))
    <3> HIDE DEF First
    <3> QED
      BY <2>1, <2>2
  <2> QED
    BY <2>3
<1> QED
  BY <1>1, <1>2

\* DstDelay is what DstSearch computes: the second of the change if the flag
\* changes once within the window of next_dst_change, whatever it does behind
\* the window, and the window if the flag does not change in it.
THEOREM DelayIsChange ==
  ASSUME NEW zone \in Zones, NEW tick \in Nat, NEW c \in Nat \ {0},
         \A k \in 1..Window : (DstAt(zone, tick + k) # DstAt(zone, tick)) <=> k >= c
  PROVE  DstDelay(zone, tick) = IF c <= Window THEN c ELSE Window
<1> DEFINE First(k) == /\ DstAt(zone, tick + k) # DstAt(zone, tick)
                       /\ \A j \in 1..(k - 1) :
                            DstAt(zone, tick + j) = DstAt(zone, tick)
<1>0. Window \in Nat \ {0}
  BY OffsetAssumption
<1>1. CASE c > Window
  <2>1. DstAt(zone, tick + Window) = DstAt(zone, tick)
    BY <1>0, <1>1
  <2> QED
    BY <1>0, <1>1, <2>1 DEF DstDelay
<1>2. CASE c <= Window
  <2>1. DstAt(zone, tick) # DstAt(zone, tick + Window)
    BY <1>0, <1>2
  <2>2. DstDelay(zone, tick) = CHOOSE k \in 1..Window : First(k)
    BY <2>1 DEF DstDelay
  <2>3. First(c)
    <3>0. c \in 1..Window
      BY <1>0, <1>2
    <3>1. DstAt(zone, tick + c) # DstAt(zone, tick)
      BY <3>0
    <3>2. ASSUME NEW j \in 1..(c - 1)
          PROVE  DstAt(zone, tick + j) = DstAt(zone, tick)
      <4>1. j \in 1..Window /\ ~(j >= c)
        BY <1>0, <1>2
      <4> QED
        BY <4>1
    <3> QED
      BY <3>1, <3>2
  <2>4. ASSUME NEW k \in 1..Window, First(k) PROVE k = c
    <3>1. k \in Nat /\ k >= c
      BY <1>0, <2>4
    <3>2. ~(c < k)
      <4>1. ASSUME c < k PROVE FALSE
        <5>1. c \in 1..(k - 1)
          BY <3>1, <4>1
        <5>2. DstAt(zone, tick + c) = DstAt(zone, tick)
          BY <2>4, <5>1
        <5> QED
          BY <2>3, <5>2
      <4> QED
        BY <4>1
    <3> QED
      BY <3>1, <3>2
  <2>5. c \in 1..Window
    BY <1>0, <1>2
  <2> HIDE DEF First
  <2>6. (CHOOSE k \in 1..Window : First(k)) = c
    BY <2>3, <2>4, <2>5
  <2> QED
    BY <1>2, <2>2, <2>6
<1> QED
  BY <1>0, <1>1, <1>2

\* TZ always stands for a zone that has a file.
LEMMA EnvTzInstalled == \A n : EnvTz(n) \in Installed
BY ZonesAssumption DEF EnvTz

\* A borrowed TZ is given back as UTC, whatever it was.
LEMMA RestoredTzIsUTC == \A env : RestoredTz(env) = UTC
BY DEF RestoredTz, EnvTz, Name

\* Comparing two names leaves TZ at a zone that has a file.
LEMMA EnvAfterCmpInstalled ==
  \A env \in Installed : \A a, b : EnvAfterCmp(env, a, b) \in Installed
BY EnvTzInstalled DEF EnvAfterCmp, RestoredTz

\* Two bare names never differ for internal_tz_cmp.
LEMMA BareNamesAgree ==
  ASSUME NEW y \in Zones, NEW z \in Zones
  PROVE  ~TzDiffer(Name("bare", y), Name("bare", z))
BY DEF TzDiffer, EnvTz, Name, Empty

\* The zones of a country are zones.
LEMMA CountryZonesType ==
  ASSUME NEW cities \in Seq(Zones)
  PROVE  CountryZones(cities) \subseteq Zones
BY DEF CountryZones

\* A country has at most one zone for clockd, however many its cities have.
LEMMA CountryZonesSingle ==
  ASSUME NEW cities \in Seq(Zones),
         NEW a \in CountryZones(cities), NEW b \in CountryZones(cities)
  PROVE  a = b
<1> DEFINE Kept(k) == \A j \in 1..(k - 1) :
                        TzDiffer(Name("bare", cities[j]), Name("bare", cities[k]))
<1>1. PICK i \in DOMAIN cities : Kept(i) /\ a = cities[i]
  BY DEF CountryZones
<1>2. PICK k \in DOMAIN cities : Kept(k) /\ b = cities[k]
  BY DEF CountryZones
<1>3. ASSUME NEW m \in DOMAIN cities, Kept(m) PROVE m = 1
  <2>1. m \in Nat /\ m >= 1 /\ 1 \in DOMAIN cities
    OBVIOUS
  <2>2. ~TzDiffer(Name("bare", cities[1]), Name("bare", cities[m]))
    BY <2>1, BareNamesAgree
  <2>3. ~(1 \in 1..(m - 1))
    BY <1>3, <2>2
  <2> QED
    BY <2>1, <2>3
<1> QED
  BY <1>1, <1>2, <1>3

\* The guess is a zone of the list, or none.
LEMMA GuessTzType ==
  ASSUME NEW list, NEW t, NEW dst, NEW q
  PROVE  GuessTz(list, t, dst, q) \in list \cup {NoZone}
BY DEF GuessTz, Fitting
=============================================================================
