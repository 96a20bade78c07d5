------------------------ MODULE RegistrationWatchProofs ------------------------
(***************************************************************************)
(* The match that clockd believes in is the one the bus has, and the       *)
(* cached country is the one the phone is registered in, for any countries *)
(* and any number of messages under way.                                   *)
(***************************************************************************)
EXTENDS RegistrationWatch, FiniteSetTheorems, SequenceTheorems, TLAPS

-----------------------------------------------------------------------------
(* Positions in a queue *)

LEMMA Indices ==
  ASSUME NEW n \in Nat, NEW I \in SUBSET (1 .. n)
  PROVE  IsFiniteSet(I) /\ Cardinality(I) \in Nat
<1>1. IsFiniteSet(1 .. n)
  BY FS_Interval
<1>2. IsFiniteSet(I)
  BY <1>1, FS_Subset
<1> QED
  BY <1>2, FS_CardinalityType

\* Positions that map one to one to others are not more.
LEMMA FewerIndices ==
  ASSUME NEW n \in Nat, NEW I \in SUBSET (1 .. n), NEW J, NEW f \in [J -> I],
         \A j, k \in J : f[j] = f[k] => j = k
  PROVE  Cardinality(J) <= Cardinality(I)
<1>1. IsFiniteSet(I)
  BY Indices
<1>2. f \in Injection(J, I)
  BY DEF Injection, IsInjective
<1> QED
  BY <1>1, <1>2, FS_Injection

LEMMA AddedIndex ==
  ASSUME NEW n \in Nat, NEW I \in SUBSET (1 .. n), NEW J,
         J = I \/ J = I \cup {n + 1}
  PROVE  /\ J = I => Cardinality(J) = Cardinality(I)
         /\ Cardinality(J) <= Cardinality(I) + 1
<1>1. IsFiniteSet(I) /\ Cardinality(I) \in Nat
  BY Indices
<1>2. Cardinality(I \cup {n + 1}) = Cardinality(I) + 1
  <2>1. n + 1 \notin I
    OBVIOUS
  <2> QED
    BY <1>1, <2>1, FS_AddElement
<1>3. J = I => Cardinality(J) = Cardinality(I)
  BY Zenon
<1>4. J = I \cup {n + 1} => Cardinality(J) = Cardinality(I) + 1
  BY <1>2, Zenon
<1> QED
  BY <1>1, <1>3, <1>4

LEMMA FirstIndex ==
  ASSUME NEW n \in Nat, NEW I \in SUBSET (1 .. n), 1 \in I
  PROVE  Cardinality(I \ {1}) = Cardinality(I) - 1 /\ Cardinality(I) >= 1
<1>1. IsFiniteSet(I) /\ Cardinality(I) \in Nat
  BY Indices
<1>2. Cardinality(I \ {1}) = Cardinality(I) - 1
  BY <1>1, FS_RemoveElement
<1>3. Cardinality(I \ {1}) \in Nat
  BY Indices
<1> QED
  BY <1>1, <1>2, <1>3

\* The positions of a queue that has lost its head.
LEMMA ShiftedIndices ==
  ASSUME NEW n \in Nat, NEW I \in SUBSET (1 .. n), NEW J,
         J = { i \in 1 .. (n - 1) : i + 1 \in I }
  PROVE  /\ Cardinality(J) \in Nat /\ Cardinality(J) <= Cardinality(I)
         /\ 1 \in I => Cardinality(J) <= Cardinality(I) - 1
<1>1. Cardinality(I) \in Nat
  BY Indices
<1>2. Cardinality(J) \in Nat
  <2>1. J \in SUBSET (1 .. n)
    OBVIOUS
  <2> QED
    BY <2>1, Indices
<1>3. Cardinality(J) <= Cardinality(I \ {1})
  <2> DEFINE f == [i \in J |-> i + 1]
  <2>1. f \in [J -> I \ {1}]
    OBVIOUS
  <2>2. \A j, k \in J : f[j] = f[k] => j = k
    OBVIOUS
  <2>3. I \ {1} \in SUBSET (1 .. n)
    OBVIOUS
  <2> HIDE DEF f
  <2> QED
    BY <2>1, <2>2, <2>3, FewerIndices
<1>4. CASE 1 \in I
  <2>1. Cardinality(I \ {1}) = Cardinality(I) - 1
    BY <1>4, FirstIndex
  <2> QED
    BY <1>1, <1>2, <1>3, <2>1
<1>5. CASE 1 \notin I
  <2>1. I \ {1} = I
    BY <1>5
  <2> QED
    BY <1>2, <1>3, <1>5, <2>1
<1> QED
  BY <1>4, <1>5

-----------------------------------------------------------------------------
(* Counting messages *)

LEMMA AtIndices ==
  ASSUME NEW S, NEW s \in Seq(S), NEW K
  PROVE  /\ Len(s) \in Nat /\ At(K, s) \in SUBSET (1 .. Len(s))
         /\ Count(K, s) \in Nat
<1>1. Len(s) \in Nat /\ At(K, s) \in SUBSET (1 .. Len(s))
  BY DEF At
<1> QED
  BY <1>1, Indices DEF Count

LEMMA CountAppended ==
  ASSUME NEW S, NEW s \in Seq(S), NEW e \in S, NEW K
  PROVE  /\ At(K, Append(s, e)) =
              IF e.kind \in K THEN At(K, s) \cup {Len(s) + 1} ELSE At(K, s)
         /\ Count(K, Append(s, e)) <= Count(K, s) + 1
         /\ e.kind \notin K => Count(K, Append(s, e)) = Count(K, s)
<1>1. /\ DOMAIN Append(s, e) = 1 .. (Len(s) + 1) /\ DOMAIN s = 1 .. Len(s)
      /\ Len(s) \in Nat /\ Append(s, e)[Len(s) + 1] = e
      /\ \A i \in 1 .. Len(s) : Append(s, e)[i] = s[i]
  BY AppendProperties
<1>2. At(K, Append(s, e)) =
        IF e.kind \in K THEN At(K, s) \cup {Len(s) + 1} ELSE At(K, s)
  <2> DEFINE t == Append(s, e)
  <2> HIDE DEF t
  <2> QED
    BY <1>1 DEF At, t
<1>3. At(K, s) \in SUBSET (1 .. Len(s))
  BY AtIndices
<1> QED
  BY <1>1, <1>2, <1>3, AddedIndex DEF Count

LEMMA CountTail ==
  ASSUME NEW S, NEW s \in Seq(S), s # << >>, NEW K
  PROVE  /\ At(K, Tail(s)) = { i \in 1 .. (Len(s) - 1) : i + 1 \in At(K, s) }
         /\ Count(K, Tail(s)) \in Nat /\ Count(K, Tail(s)) <= Count(K, s)
         /\ Head(s).kind \in K => Count(K, Tail(s)) <= Count(K, s) - 1
         /\ Head(s).kind \in K <=> 1 \in At(K, s)
<1>1. /\ Len(s) \in Nat /\ Len(s) >= 1 /\ DOMAIN s = 1 .. Len(s)
      /\ Tail(s) \in Seq(S) /\ Len(Tail(s)) = Len(s) - 1 /\ Head(s) = s[1]
      /\ DOMAIN Tail(s) = 1 .. (Len(s) - 1)
      /\ \A i \in 1 .. (Len(s) - 1) : Tail(s)[i] = s[i + 1]
  OBVIOUS
<1>2. At(K, Tail(s)) = { i \in 1 .. (Len(s) - 1) : i + 1 \in At(K, s) }
  <2> DEFINE t == Tail(s)
  <2> HIDE DEF t
  <2> QED
    BY <1>1 DEF At, t
<1>3. At(K, s) \in SUBSET (1 .. Len(s)) /\ (Head(s).kind \in K <=> 1 \in At(K, s))
  BY <1>1 DEF At
<1> QED
  BY <1>1, <1>2, <1>3, ShiftedIndices DEF Count

\* The answer that a blocking call takes out of the middle of the queue.
LEMMA WithoutFacts ==
  ASSUME NEW S, in \in Seq(S), NEW p \in DOMAIN in
  PROVE  /\ Without(p) \in Seq(S) /\ Len(Without(p)) = Len(in) - 1
         /\ DOMAIN Without(p) = 1 .. (Len(in) - 1) /\ Len(in) \in Nat
         /\ \A i \in 1 .. (Len(in) - 1) :
              Without(p)[i] = IF i < p THEN in[i] ELSE in[i + 1]
<1>1. Len(in) \in Nat /\ p \in 1 .. Len(in) /\ DOMAIN in = 1 .. Len(in)
  OBVIOUS
<1> DEFINE a == SubSeq(in, 1, p - 1)
           b == SubSeq(in, p + 1, Len(in))
<1>2. a \in Seq(S) /\ Len(a) = p - 1 /\ \A i \in 1 .. (p - 1) : a[i] = in[i]
  <2>1. \A i \in 1 .. (p - 1) : i \in 1 .. Len(in)
    BY <1>1
  <2> QED
    BY <1>1, <2>1, SubSeqProperties
<1>3. /\ b \in Seq(S) /\ Len(b) = Len(in) - p
      /\ \A i \in 1 .. (Len(in) - p) : b[i] = in[p + i]
  <2>1. \A i \in (p + 1) .. Len(in) : i \in 1 .. Len(in)
    BY <1>1
  <2> QED
    BY <1>1, <2>1, SubSeqProperties
<1> HIDE DEF a, b
<1> DEFINE c == a \o b
<1>4. /\ c \in Seq(S) /\ Len(c) = Len(a) + Len(b)
      /\ \A i \in 1 .. Len(a) + Len(b) :
           c[i] = IF i <= Len(a) THEN a[i] ELSE b[i - Len(a)]
  BY <1>2, <1>3, ConcatProperties, Zenon
<1>5. Without(p) = c
  BY Zenon DEF Without, a, b
<1> HIDE DEF c
<1>6. Len(c) = Len(in) - 1 /\ DOMAIN c = 1 .. (Len(in) - 1)
  BY <1>1, <1>2, <1>3, <1>4
<1>7. ASSUME NEW i \in 1 .. (Len(in) - 1)
      PROVE  c[i] = IF i < p THEN in[i] ELSE in[i + 1]
  <2>1. c[i] = IF i <= p - 1 THEN a[i] ELSE b[i - (p - 1)]
    BY <1>1, <1>2, <1>3, <1>4
  <2>2. CASE i < p
    BY <1>1, <1>2, <2>1, <2>2
  <2>3. CASE ~(i < p)
    <3>1. i - (p - 1) \in 1 .. (Len(in) - p) /\ p + (i - (p - 1)) = i + 1
      BY <1>1, <2>3
    <3>2. c[i] = b[i - (p - 1)]
      BY <1>1, <2>1, <2>3
    <3> QED
      BY <1>3, <2>3, <3>1, <3>2
  <2> QED
    BY <2>2, <2>3
<1> QED
  BY <1>1, <1>4, <1>5, <1>6, <1>7

LEMMA CountWithout ==
  ASSUME NEW S, in \in Seq(S), NEW p \in DOMAIN in, NEW K
  PROVE  /\ At(K, Without(p)) =
              { i \in 1 .. (Len(in) - 1) :
                  (IF i < p THEN i ELSE i + 1) \in At(K, in) }
         /\ Count(K, Without(p)) <= Count(K, in) /\ Count(K, Without(p)) \in Nat
<1>1. /\ DOMAIN Without(p) = 1 .. (Len(in) - 1) /\ Len(in) \in Nat
      /\ DOMAIN in = 1 .. Len(in) /\ p \in 1 .. Len(in)
      /\ \A i \in 1 .. (Len(in) - 1) :
           Without(p)[i] = IF i < p THEN in[i] ELSE in[i + 1]
  <2>1. /\ DOMAIN Without(p) = 1 .. (Len(in) - 1)
        /\ \A i \in 1 .. (Len(in) - 1) :
             Without(p)[i] = IF i < p THEN in[i] ELSE in[i + 1]
    BY WithoutFacts, Zenon
  <2>2. Len(in) \in Nat /\ DOMAIN in = 1 .. Len(in)
    OBVIOUS
  <2> QED
    BY <2>1, <2>2
<1> DEFINE J == { i \in 1 .. (Len(in) - 1) :
                    (IF i < p THEN i ELSE i + 1) \in At(K, in) }
<1>2. At(K, Without(p)) = J
  BY <1>1 DEF At
<1>3. At(K, in) \in SUBSET (1 .. Len(in)) /\ J \in SUBSET (1 .. Len(in))
  BY <1>1 DEF At
<1>4. Cardinality(J) <= Cardinality(At(K, in))
  <2> DEFINE f == [i \in J |-> IF i < p THEN i ELSE i + 1]
  <2>1. f \in [J -> At(K, in)]
    OBVIOUS
  <2>2. \A j, k \in J : f[j] = f[k] => j = k
    <3>1. \A j \in J : j \in Int
      BY <1>1
    <3> QED
      BY <1>1, <3>1
  <2> HIDE DEF f, J
  <2> QED
    BY <1>1, <1>3, <2>1, <2>2, FewerIndices
<1> HIDE DEF J
<1>5. Cardinality(J) \in Nat
  BY <1>1, <1>3, Indices
<1> QED
  BY <1>2, <1>4, <1>5 DEF Count, J

-----------------------------------------------------------------------------
(* The invariant *)

Sent == {"status?", "add", "remove"}

Heard == [kind : {"signal", "reply", "error"}, code : Codes \cup {NoCode}]

Answers == {"done", "refused"}

\* What tells where the phone is registered.
Country == {"signal", "reply"}

Typed ==
  /\ autosync \in BOOLEAN /\ installed \in BOOLEAN
  /\ mcc_cache \in Codes \cup {NoCode} /\ pc \in {"loop", "add", "remove"}
  /\ out \in Seq(Sent) /\ matches \in {0, 1} /\ in \in Seq(Messages)
  /\ reg \in Codes \cup {NoCode} /\ asked \in Nat /\ csd \in Seq(Heard)
  /\ behind \in {"no", "gap", "off", "error"}

\* A request to the bus is the last that clockd has sent, and the one it waits for.
Ordered ==
  \A i \in 1 .. Len(out) : out[i] = "status?" \/ (i = Len(out) /\ out[i] = pc)

\* The matches before the request that clockd waits for.
Before == IF pc = "add" THEN 0 ELSE 1

\* clockd waits for a request that is still to reach the bus, or for the one
\* answer in the queue, which says what has become of the match.
Waiting ==
  /\ pc = "add" => autosync /\ ~installed
  /\ pc = "remove" => ~autosync /\ installed
  /\ pc = "loop" => At(Answers, in) = {} /\ (installed <=> matches = 1)
  /\ pc # "loop" =>
       \/ /\ Len(out) > 0 /\ out[Len(out)] = pc /\ At(Answers, in) = {}
          /\ matches = Before
       \/ /\ \A i \in 1 .. Len(out) : out[i] = "status?"
          /\ \E i \in DOMAIN in :
               /\ At(Answers, in) = {i}
               /\ matches = IF in[i].kind = "done" THEN 1 - Before ELSE Before

\* The last country that s tells is r.
LastIs(s, r) ==
  \A i \in At(Country, s) :
    (\A j \in At(Country, s) : j <= i) => s[i].code = r

\* So it is with what csd has sent; when that has come through, with what clockd
\* is still to handle; and when that is handled too, with the cache.
Current ==
  /\ LastIs(csd, reg)
  /\ behind = "no" /\ At(Country, csd) = {} =>
       LastIs(in, reg) /\ (At(Country, in) = {} => mcc_cache = reg)

\* A change that passed while autosync was off is made up for by a question.
Asking ==
  autosync /\ (installed \/ pc = "add") /\ behind = "off" =>
    \/ \E i \in 1 .. Len(out) : out[i] = "status?"
    \/ asked > 0
    \/ At({"reply", "error"}, csd) # {}

IInv == Typed /\ Ordered /\ Waiting /\ Current /\ Asking

-----------------------------------------------------------------------------
(* What the actions do to the queues *)

\* s' is s with e behind it.
Longer(s, t, e) ==
  /\ Len(t) = Len(s) + 1 /\ t[Len(s) + 1] = e
  /\ \A i \in 1 .. Len(s) : t[i] = s[i]

\* t is s without its head.
Shorter(s, t) ==
  /\ Len(s) >= 1 /\ Len(t) = Len(s) - 1 /\ Head(s) = s[1]
  /\ \A i \in 1 .. Len(t) : t[i] = s[i + 1]

LEMMA Lengthened ==
  ASSUME NEW S, NEW s \in Seq(S), NEW e \in S
  PROVE  Append(s, e) \in Seq(S) /\ Longer(s, Append(s, e), e) /\ Len(s) \in Nat
BY AppendProperties DEF Longer

LEMMA Shortened ==
  ASSUME NEW S, NEW s \in Seq(S), s # << >>
  PROVE  /\ Tail(s) \in Seq(S) /\ Shorter(s, Tail(s)) /\ Len(s) \in Nat
         /\ s[1] \in S
BY DEF Shorter

\* What mcc_tz_setup_timezone_from_mcc_if_required sends, and waits for.
LEMMA SetupFacts ==
  ASSUME Typed, NEW on \in BOOLEAN, Setup(on)
  PROVE  /\ pc = "loop" /\ autosync' = on /\ out' \in Seq(Sent)
         /\ UNCHANGED <<installed, mcc_cache, matches, in, network, behind>>
         /\ \/ on /\ installed /\ pc' = "loop" /\ Longer(out, out', "status?")
            \/ /\ on /\ ~installed /\ pc' = "add" /\ Len(out') = Len(out) + 2
               /\ out'[Len(out) + 1] = "status?" /\ out'[Len(out) + 2] = "add"
               /\ \A i \in 1 .. Len(out) : out'[i] = out[i]
            \/ ~on /\ installed /\ pc' = "remove" /\ Longer(out, out', "remove")
            \/ ~on /\ ~installed /\ pc' = "loop" /\ out' = out
<1>0. out \in Seq(Sent) /\ Len(out) \in Nat /\ installed \in BOOLEAN
  BY DEF Typed
<1>1. /\ pc = "loop" /\ autosync' = on
      /\ UNCHANGED <<installed, mcc_cache, matches, in, network, behind>>
      /\ out' = out \o (IF on THEN <<"status?">> ELSE << >>)
                    \o (IF on /\ ~installed THEN <<"add">> ELSE << >>)
                    \o (IF ~on /\ installed THEN <<"remove">> ELSE << >>)
  BY DEF Setup
<1>2. /\ on /\ ~installed => pc' = "add"
      /\ ~on /\ installed => pc' = "remove"
      /\ (on <=> installed) => pc' = "loop"
  BY <1>0, Zenon DEF Setup
<1>3. \A s \in Seq(Sent) : \A e \in Sent : s \o <<e>> = Append(s, e) /\ s \o << >> = s
  BY AppendIsConcat, ConcatEmptySeq
<1>4. Append(out, "status?") \in Seq(Sent)
  BY <1>0 DEF Sent
<1>5. CASE on /\ installed
  <2>1. out' = Append(out, "status?")
    BY <1>0, <1>1, <1>3, <1>4, <1>5 DEF Sent
  <2> QED
    BY <1>0, <1>1, <1>2, <1>5, <2>1, Lengthened DEF Sent
<1>6. CASE on /\ ~installed
  <2>1. out' = Append(Append(out, "status?"), "add")
    BY <1>0, <1>1, <1>3, <1>4, <1>6 DEF Sent
  <2>2. Longer(out, Append(out, "status?"), "status?")
    BY <1>0, Lengthened DEF Sent
  <2>3. /\ Longer(Append(out, "status?"), out', "add")
        /\ out' \in Seq(Sent)
    BY <1>4, <2>1, Lengthened DEF Sent
  <2> QED
    BY <1>0, <1>1, <1>2, <1>6, <2>2, <2>3 DEF Longer
<1>7. CASE ~on /\ installed
  <2>1. out' = Append(out, "remove")
    BY <1>0, <1>1, <1>3, <1>7 DEF Sent
  <2> QED
    BY <1>0, <1>1, <1>2, <1>7, <2>1, Lengthened DEF Sent
<1>8. CASE ~on /\ ~installed
  <2>1. out' = out
    BY <1>0, <1>1, <1>3, <1>8 DEF Sent
  <2> QED
    BY <1>0, <1>1, <1>2, <1>8, <2>1
<1> QED
  BY <1>0, <1>5, <1>6, <1>7, <1>8

-----------------------------------------------------------------------------
(* The last country that a queue tells *)

LEMMA LastAppended ==
  ASSUME NEW S, NEW s \in Seq(S), NEW e \in S, NEW r,
         e.kind \in Country => e.code = r,
         e.kind \notin Country => LastIs(s, r)
  PROVE  LastIs(Append(s, e), r)
<1>1. At(Country, Append(s, e)) =
        IF e.kind \in Country THEN At(Country, s) \cup {Len(s) + 1}
        ELSE At(Country, s)
  BY CountAppended
<1>2. Longer(s, Append(s, e), e) /\ Len(s) \in Nat
  BY Lengthened
<1>3. At(Country, s) \in SUBSET (1 .. Len(s))
  BY AtIndices
<1> DEFINE t == Append(s, e)
<1> HIDE DEF t
<1>4. CASE e.kind \in Country
  <2>1. At(Country, t) = At(Country, s) \cup {Len(s) + 1} /\ t[Len(s) + 1].code = r
    BY <1>1, <1>2, <1>4 DEF Longer, t
  <2>2. \A i \in At(Country, t) :
          (\A j \in At(Country, t) : j <= i) => i = Len(s) + 1
    <3>1. SUFFICES ASSUME NEW i \in At(Country, t),
                          \A j \in At(Country, t) : j <= i
                   PROVE  i = Len(s) + 1
      OBVIOUS
    <3>2. Len(s) + 1 \in At(Country, t)
      BY <2>1
    <3>3. Len(s) + 1 <= i
      BY <3>1, <3>2
    <3>4. i \in 1 .. (Len(s) + 1)
      BY <1>2, <1>3, <2>1
    <3> QED
      BY <1>2, <3>3, <3>4
  <2> QED
    BY <2>1, <2>2 DEF LastIs, t
<1>5. CASE e.kind \notin Country
  <2>1. At(Country, t) = At(Country, s)
    BY <1>1, <1>5 DEF t
  <2>2. \A i \in At(Country, s) : t[i] = s[i]
    BY <1>2, <1>3 DEF Longer, t
  <2> QED
    BY <1>5, <2>1, <2>2 DEF LastIs, t
<1> QED
  BY <1>4, <1>5

LEMMA LastTail ==
  ASSUME NEW S, NEW s \in Seq(S), s # << >>, NEW r, LastIs(s, r)
  PROVE  /\ LastIs(Tail(s), r)
         /\ At(Country, Tail(s)) = {} =>
              IF Head(s).kind \in Country THEN Head(s).code = r
              ELSE At(Country, s) = {}
<1> DEFINE t == Tail(s)
<1>1. /\ At(Country, t) = { i \in 1 .. (Len(s) - 1) : i + 1 \in At(Country, s) }
      /\ Head(s).kind \in Country <=> 1 \in At(Country, s)
  BY CountTail
<1>2. Shorter(s, t) /\ Len(s) \in Nat
  BY Shortened
<1>3. At(Country, s) \in SUBSET (1 .. Len(s))
  BY AtIndices
<1> HIDE DEF t
<1>4. ASSUME NEW i \in At(Country, t), \A j \in At(Country, t) : j <= i
      PROVE  t[i].code = r
  <2>1. i + 1 \in At(Country, s) /\ t[i] = s[i + 1] /\ i \in 1 .. (Len(s) - 1)
    BY <1>1, <1>2 DEF Shorter
  <2>2. ASSUME NEW j \in At(Country, s) PROVE j <= i + 1
    <3>1. CASE j = 1
      BY <1>2, <2>1, <3>1
    <3>2. CASE j # 1
      <4>1. j - 1 \in 1 .. (Len(s) - 1) /\ (j - 1) + 1 = j
        BY <1>2, <1>3, <3>2
      <4>2. j - 1 \in At(Country, t)
        BY <1>1, <4>1
      <4> QED
        BY <1>2, <1>3, <1>4, <2>1, <4>1, <4>2
    <3> QED
      BY <3>1, <3>2
  <2> QED
    BY <2>1, <2>2 DEF LastIs
<1>5. ASSUME At(Country, t) = {} PROVE At(Country, s) \subseteq {1}
  <2>1. SUFFICES ASSUME NEW j \in At(Country, s), j # 1 PROVE FALSE
    OBVIOUS
  <2>2. j - 1 \in 1 .. (Len(s) - 1) /\ (j - 1) + 1 = j
    BY <1>2, <1>3, <2>1
  <2>3. j - 1 \in At(Country, t)
    BY <1>1, <2>2
  <2> QED
    BY <1>5, <2>3
<1>6. At(Country, t) = {} =>
              IF Head(s).kind \in Country THEN Head(s).code = r
              ELSE At(Country, s) = {}
  BY <1>1, <1>2, <1>5 DEF LastIs, Shorter
<1> QED
  BY <1>4, <1>6 DEF LastIs, t

LEMMA LastWithout ==
  ASSUME NEW S, in \in Seq(S), NEW p \in DOMAIN in, p \notin At(Country, in), NEW r
  PROVE  /\ LastIs(in, r) => LastIs(Without(p), r)
         /\ At(Country, Without(p)) = {} => At(Country, in) = {}
<1> DEFINE t == Without(p)
<1>1. /\ Len(in) \in Nat /\ p \in 1 .. Len(in)
      /\ \A i \in 1 .. (Len(in) - 1) : t[i] = IF i < p THEN in[i] ELSE in[i + 1]
  <2>1. \A i \in 1 .. (Len(in) - 1) : t[i] = IF i < p THEN in[i] ELSE in[i + 1]
    BY WithoutFacts
  <2> QED
    BY <2>1
<1>2. At(Country, t) =
        { i \in 1 .. (Len(in) - 1) : (IF i < p THEN i ELSE i + 1) \in At(Country, in) }
  BY CountWithout
<1>3. At(Country, in) \in SUBSET (1 .. Len(in))
  BY AtIndices
<1> HIDE DEF t
<1> DEFINE g(j) == IF j < p THEN j ELSE j - 1
<1>4. ASSUME NEW j \in At(Country, in)
      PROVE  /\ g(j) \in At(Country, t) /\ j \in Int /\ g(j) \in Int
             /\ t[g(j)] = in[j]
  <2>1. j \in 1 .. Len(in) /\ j # p
    BY <1>3
  <2>2. CASE j < p
    BY <1>1, <1>2, <2>1, <2>2
  <2>3. CASE j > p
    <3>1. /\ j - 1 \in 1 .. (Len(in) - 1) /\ ~(j - 1 < p) /\ (j - 1) + 1 = j
          /\ g(j) = j - 1
      BY <1>1, <2>1, <2>3
    <3>2. j - 1 \in At(Country, t)
      BY <1>2, <3>1
    <3> QED
      BY <1>1, <2>1, <3>1, <3>2
  <2> QED
    BY <1>1, <2>1, <2>2, <2>3
<1>5. ASSUME LastIs(in, r),
             NEW i \in At(Country, t), \A j \in At(Country, t) : j <= i
      PROVE  t[i].code = r
  <2> DEFINE h == IF i < p THEN i ELSE i + 1
  <2>1. h \in At(Country, in) /\ t[i] = in[h] /\ i \in 1 .. (Len(in) - 1)
    BY <1>1, <1>2
  <2>2. ASSUME NEW j \in At(Country, in) PROVE j <= h
    <3>1. g(j) <= i
      BY <1>4, <1>5
    <3>2. j \in 1 .. Len(in) /\ j # p
      BY <1>3
    <3> QED
      BY <1>1, <2>1, <3>1, <3>2
  <2> QED
    BY <1>5, <2>1, <2>2 DEF LastIs
<1>6. At(Country, t) = {} => At(Country, in) = {}
  BY <1>4
<1> QED
  BY <1>5, <1>6 DEF LastIs, t

-----------------------------------------------------------------------------
(* The steps *)

LEMMA InitIInv == Init => IInv
<1>1. SUFFICES ASSUME Init PROVE IInv
  OBVIOUS
<1>2. Len(<< >>) = 0 /\ \A S : << >> \in Seq(S)
  OBVIOUS
<1>3. \A K : At(K, << >>) = {}
  BY DEF At
<1>4. Typed
  BY <1>1, <1>2 DEF Init, Typed
<1>5. Ordered /\ Waiting
  BY <1>1, <1>2, <1>3 DEF Init, Ordered, Waiting
<1>6. Current /\ Asking
  BY <1>1, <1>3 DEF Init, Current, LastIs, Asking
<1> QED
  BY <1>4, <1>5, <1>6 DEF IInv

\* The answer that ends a blocking call: clockd learns what has become of the
\* match, and nothing of its is under way any more.
LEMMA AnswerTaken ==
  ASSUME IInv, pc # "loop", NEW p \in At(Answers, in)
  PROVE  /\ p \in DOMAIN in /\ in[p].kind \in Answers
         /\ \A i \in 1 .. Len(out) : out[i] = "status?"
         /\ matches = IF in[p].kind = "done" THEN 1 - Before ELSE Before
         /\ At(Answers, Without(p)) = {}
         /\ LastIs(in, reg) => LastIs(Without(p), reg)
         /\ At(Country, Without(p)) = {} => At(Country, in) = {}
         /\ Without(p) \in Seq(Messages)
<1>1. in \in Seq(Messages) /\ p \in DOMAIN in /\ in[p].kind \in Answers
  BY DEF IInv, Typed, At
<1>2. /\ \A i \in 1 .. Len(out) : out[i] = "status?"
      /\ At(Answers, in) = {p}
      /\ matches = IF in[p].kind = "done" THEN 1 - Before ELSE Before
  BY DEF IInv, Waiting
<1>3. /\ At(Answers, Without(p)) =
           { i \in 1 .. (Len(in) - 1) :
               (IF i < p THEN i ELSE i + 1) \in At(Answers, in) }
  BY <1>1, CountWithout
<1>4. At(Answers, Without(p)) = {}
  <2>1. p \in Nat /\ Len(in) \in Nat
    BY <1>1
  <2>2. \A i \in 1 .. (Len(in) - 1) : (IF i < p THEN i ELSE i + 1) # p
    BY <2>1
  <2> QED
    BY <1>2, <1>3, <2>2
<1>5. p \notin At(Country, in)
  BY <1>1 DEF At, Answers, Country
<1>6. /\ LastIs(in, reg) => LastIs(Without(p), reg)
      /\ At(Country, Without(p)) = {} => At(Country, in) = {}
  BY <1>1, <1>5, LastWithout
<1>7. Without(p) \in Seq(Messages)
  BY <1>1, WithoutFacts
<1> QED
  BY <1>1, <1>2, <1>4, <1>6, <1>7

LEMMA SetupStep ==
  ASSUME IInv, NEW on \in BOOLEAN, Setup(on)
  PROVE  IInv'
<1>0. /\ Typed /\ Ordered /\ Waiting /\ Current /\ Asking
      /\ out \in Seq(Sent) /\ Len(out) \in Nat
  BY DEF IInv, Typed
<1>1. /\ pc = "loop" /\ autosync' = on /\ out' \in Seq(Sent)
      /\ UNCHANGED <<installed, mcc_cache, matches, in, reg, asked, csd, behind>>
      /\ \/ on /\ installed /\ pc' = "loop" /\ Longer(out, out', "status?")
         \/ /\ on /\ ~installed /\ pc' = "add" /\ Len(out') = Len(out) + 2
            /\ out'[Len(out) + 1] = "status?" /\ out'[Len(out) + 2] = "add"
            /\ \A i \in 1 .. Len(out) : out'[i] = out[i]
         \/ ~on /\ installed /\ pc' = "remove" /\ Longer(out, out', "remove")
         \/ ~on /\ ~installed /\ pc' = "loop" /\ out' = out
  BY <1>0, SetupFacts DEF network
<1>2. \A i \in 1 .. Len(out) : out[i] = "status?"
  BY <1>0, <1>1 DEF Ordered, Sent
<1>3. Typed'
  BY <1>0, <1>1 DEF Typed
<1>4. Ordered'
  BY <1>0, <1>1, <1>2 DEF Ordered, Longer
<1>5. At(Answers, in') = {} /\ (installed' <=> matches' = 1) /\ matches' \in {0, 1}
  BY <1>0, <1>1 DEF Waiting, Typed
<1>6. Waiting'
  BY <1>0, <1>1, <1>5 DEF Waiting, Longer, Before, Answers
<1>7. Current'
  BY <1>0, <1>1 DEF Current, Country
<1>8. Asking'
  BY <1>0, <1>1 DEF Asking, Longer
<1> QED
  BY <1>3, <1>4, <1>6, <1>7, <1>8 DEF IInv

LEMMA AnsweredStep ==
  ASSUME IInv, Added \/ Removed
  PROVE  IInv'
<1>0. Typed /\ Ordered /\ Waiting /\ Current /\ Asking
  BY DEF IInv
<1>1. /\ pc \in {"add", "remove"} /\ pc' = "loop"
      /\ UNCHANGED <<autosync, mcc_cache, out, matches, reg, asked, csd, behind>>
  BY DEF Added, Removed, network
<1>2. PICK p \in At(Answers, in) :
        /\ in' = Without(p)
        /\ installed' = (in[p].kind = IF pc = "add" THEN "done" ELSE "refused")
  BY DEF Added, Removed, Answers
<1>3. /\ in[p].kind \in Answers
      /\ \A i \in 1 .. Len(out) : out[i] = "status?"
      /\ matches = IF in[p].kind = "done" THEN 1 - Before ELSE Before
      /\ At(Answers, in') = {} /\ in' \in Seq(Messages)
      /\ LastIs(in, reg) => LastIs(in', reg)
      /\ At(Country, in') = {} => At(Country, in) = {}
  BY <1>1, <1>2, AnswerTaken
<1>4. installed' <=> matches' = 1
  <2>1. matches' = IF in[p].kind = "done" THEN 1 - Before ELSE Before
    BY <1>1, <1>3
  <2>2. in[p].kind = "done" \/ in[p].kind = "refused"
    BY <1>3 DEF Answers
  <2>3. CASE pc = "add"
    <3>1. (installed' <=> in[p].kind = "done") /\ Before = 0
      BY <1>2, <2>3 DEF Before
    <3> QED
      BY <2>1, <3>1
  <2>4. CASE pc = "remove"
    <3>1. (installed' <=> in[p].kind = "refused") /\ Before = 1
      BY <1>2, <2>4 DEF Before
    <3> QED
      BY <2>1, <2>2, <3>1
  <2> QED
    BY <1>1, <2>3, <2>4
<1>5. Typed'
  BY <1>0, <1>1, <1>2, <1>3 DEF Typed
<1>6. Ordered'
  BY <1>1, <1>3 DEF Ordered
<1>7. Waiting'
  BY <1>1, <1>3, <1>4 DEF Waiting, Answers
<1>8. Current'
  BY <1>0, <1>1, <1>3 DEF Current, Country
<1>9. Asking'
  BY <1>0, <1>1 DEF Asking, Waiting
<1> QED
  BY <1>5, <1>6, <1>7, <1>8, <1>9 DEF IInv

LEMMA HandleStep ==
  ASSUME IInv, Handle
  PROVE  IInv'
<1>0. Typed /\ Ordered /\ Waiting /\ Current /\ Asking /\ in \in Seq(Messages)
  BY DEF IInv, Typed
<1>1. /\ pc = "loop" /\ in # << >> /\ in' = Tail(in)
      /\ mcc_cache' = IF Head(in).kind = "error" THEN mcc_cache ELSE Head(in).code
      /\ UNCHANGED <<autosync, installed, pc, out, matches, reg, asked, csd, behind>>
  BY DEF Handle, network
<1>2. in' \in Seq(Messages) /\ Head(in) \in Messages
  BY <1>0, <1>1
<1>3. /\ At(Answers, in') = { i \in 1 .. (Len(in) - 1) : i + 1 \in At(Answers, in) }
      /\ Head(in).kind \in Answers <=> 1 \in At(Answers, in)
  BY <1>0, <1>1, CountTail
<1>4. At(Answers, in') = {} /\ Head(in).kind \notin Answers
  BY <1>0, <1>1, <1>3 DEF Waiting
<1>5. Head(in).kind \in Country \/ Head(in).kind = "error"
  BY <1>2, <1>4 DEF Messages, Answers, Country
<1>6. Typed'
  BY <1>0, <1>1, <1>2 DEF Typed, Messages
<1>7. Ordered' /\ Asking'
  BY <1>0, <1>1 DEF Ordered, Asking
<1>8. Waiting'
  BY <1>0, <1>1, <1>4 DEF Waiting, Answers
<1>9. Current'
  <2>1. SUFFICES ASSUME behind = "no", At(Country, csd) = {}
                 PROVE  LastIs(in', reg) /\ (At(Country, in') = {} => mcc_cache' = reg)
    BY <1>0, <1>1 DEF Current, Country
  <2>2. LastIs(in, reg) /\ (At(Country, in) = {} => mcc_cache = reg)
    BY <1>0, <2>1 DEF Current
  <2>3. /\ LastIs(in', reg)
        /\ At(Country, in') = {} =>
              IF Head(in).kind \in Country THEN Head(in).code = reg
              ELSE At(Country, in) = {}
    BY <1>0, <1>1, <2>2, LastTail
  <2> QED
    BY <1>1, <1>5, <2>2, <2>3 DEF Country
<1> QED
  BY <1>6, <1>7, <1>8, <1>9 DEF IInv

\* What the bus does with a message of clockd.
LEMMA FromClockdStep ==
  ASSUME IInv, FromClockd
  PROVE  IInv'
<1>0. /\ Typed /\ Ordered /\ Waiting /\ Current /\ Asking
      /\ out \in Seq(Sent) /\ in \in Seq(Messages)
  BY DEF IInv, Typed
<1>1. /\ out # << >> /\ out' = Tail(out)
      /\ UNCHANGED <<autosync, installed, mcc_cache, pc, reg, csd, behind>>
  BY DEF FromClockd, clockd
<1>2. out' \in Seq(Sent) /\ Shorter(out, out') /\ Len(out) \in Nat
  BY <1>0, <1>1, Shortened
<1>3. CASE Head(out) = "status?"
  <2>1. asked' = asked + 1 /\ UNCHANGED <<matches, in>>
    BY <1>3 DEF FromClockd
  <2>2. Typed'
    BY <1>0, <1>1, <1>2, <2>1 DEF Typed
  <2>3. Ordered'
    <3>1. SUFFICES ASSUME NEW i \in 1 .. Len(out')
                   PROVE  out'[i] = "status?" \/ (i = Len(out') /\ out'[i] = pc)
      BY <1>1 DEF Ordered
    <3>2. i + 1 \in 1 .. Len(out) /\ out'[i] = out[i + 1] /\ i \in Int
          /\ Len(out') = Len(out) - 1
      BY <1>2, <3>1 DEF Shorter
    <3>3. out[i + 1] = "status?" \/ (i + 1 = Len(out) /\ out[i + 1] = pc)
      BY <1>0, <3>2 DEF Ordered
    <3> QED
      BY <1>2, <3>2, <3>3
  <2>4. Waiting'
    <3>1. pc = "loop" \/ pc \in {"add", "remove"}
      BY <1>0 DEF Typed
    <3>2. CASE pc = "loop"
      BY <1>0, <1>1, <2>1, <3>2 DEF Waiting, Answers
    <3>3. CASE /\ pc # "loop" /\ Len(out) > 0 /\ out[Len(out)] = pc
               /\ At(Answers, in) = {} /\ matches = Before
      <4>1. out[1] = "status?" /\ pc # "status?"
        BY <1>2, <1>3, <3>1 DEF Shorter
      <4>2. Len(out) # 1
        BY <3>3, <4>1
      <4>3. Len(out') > 0 /\ out'[Len(out')] = pc
        BY <1>2, <3>3, <4>2 DEF Shorter
      <4> QED
        BY <1>0, <1>1, <2>1, <3>3, <4>3 DEF Waiting, Answers, Before
    <3>4. CASE /\ pc # "loop"
               /\ \A i \in 1 .. Len(out) : out[i] = "status?"
               /\ \E i \in DOMAIN in :
                    /\ At(Answers, in) = {i}
                    /\ matches = IF in[i].kind = "done" THEN 1 - Before ELSE Before
      <4>1. \A i \in 1 .. Len(out') : out'[i] = "status?"
        BY <1>2, <3>4 DEF Shorter
      <4> QED
        BY <1>0, <1>1, <2>1, <3>4, <4>1 DEF Waiting, Answers, Before
    <3> QED
      BY <1>0, <3>1, <3>2, <3>3, <3>4 DEF Waiting
  <2>5. Current'
    BY <1>0, <1>1, <2>1 DEF Current, Country
  <2>6. Asking'
    BY <1>0, <2>1 DEF Asking, Typed
  <2> QED
    BY <2>2, <2>3, <2>4, <2>5, <2>6 DEF IInv
<1>4. CASE Head(out) # "status?"
  <2>1. /\ Len(out) = 1 /\ out[1] = pc /\ pc \in {"add", "remove"}
    BY <1>0, <1>2, <1>4 DEF Ordered, Shorter, Sent
  <2>2. Head(out) = pc
    BY <1>2, <2>1 DEF Shorter
  <2>3. PICK k \in Answers :
          /\ in' = Append(in, Message(k, NoCode)) /\ asked' = asked
          /\ matches' = IF k = "refused" THEN matches
                        ELSE IF pc = "add" THEN matches + 1 ELSE matches - 1
    BY <1>4, <2>1, <2>2 DEF FromClockd, Answers
  <2> DEFINE m == Message(k, NoCode)
  <2>4. m \in Messages /\ m.kind = k
    BY <2>3 DEF Message, Messages, Answers
  <2> HIDE DEF m
  <2>5. in' = Append(in, m)
    BY <2>3 DEF m
  <2>6. in' \in Seq(Messages) /\ Longer(in, in', m) /\ Len(in) \in Nat
    BY <1>0, <2>4, <2>5, Lengthened
  <2>7. Len(out) > 0 /\ At(Answers, in) = {} /\ matches = Before
    BY <1>0, <2>1, <2>3 DEF Waiting
  <2>8. At(Answers, in') = {Len(in) + 1}
    <3>1. At(Answers, in') = At(Answers, in) \cup {Len(in) + 1}
      BY <1>0, <2>3, <2>4, <2>5, CountAppended
    <3> QED
      BY <2>7, <3>1
  <2>9. Len(out') = 0
    BY <1>2, <2>1 DEF Shorter
  <2>10. Typed'
    BY <1>0, <1>1, <1>2, <2>1, <2>3, <2>6, <2>7 DEF Typed, Before, Answers
  <2>11. Ordered' /\ Asking'
    <3>1. \A i \in 1 .. Len(out) : out[i] # "status?"
      BY <1>2, <2>1
    <3>2. Asking'
      BY <1>0, <1>1, <2>3, <3>1 DEF Asking
    <3> QED
      BY <2>9, <3>2 DEF Ordered
  <2>12. Waiting'
    <3>1. Len(in) + 1 \in DOMAIN in' /\ in'[Len(in) + 1].kind = k
      BY <2>4, <2>6 DEF Longer
    <3>2. matches' = IF k = "done" THEN 1 - Before ELSE Before
      BY <2>1, <2>3, <2>7 DEF Before, Answers
    <3>3. Before' = Before
      BY <1>1 DEF Before
    <3>4. \E i \in DOMAIN in' :
            /\ At(Answers, in') = {i}
            /\ matches' = IF in'[i].kind = "done" THEN 1 - Before' ELSE Before'
      BY <2>8, <3>1, <3>2, <3>3
    <3>5. \A i \in 1 .. Len(out') : out'[i] = "status?"
      BY <2>9
    <3> QED
      BY <1>0, <1>1, <2>1, <3>4, <3>5 DEF Waiting, Answers
  <2>13. Current'
    <3>1. k \notin Country
      BY <2>3 DEF Answers, Country
    <3>2. At(Country, in') = At(Country, in)
      BY <1>0, <2>4, <2>5, <3>1, CountAppended
    <3>3. LastIs(in, reg) => LastIs(in', reg)
      BY <1>0, <2>4, <2>5, <3>1, LastAppended
    <3> QED
      BY <1>0, <1>1, <3>2, <3>3 DEF Current, Country
  <2> QED
    BY <2>10, <2>11, <2>12, <2>13 DEF IInv
<1> QED
  BY <1>3, <1>4

\* What the bus does with a message of csd.
LEMMA FromCsdStep ==
  ASSUME IInv, FromCsd
  PROVE  IInv'
<1> DEFINE h == Head(csd)
<1>0. /\ Typed /\ Ordered /\ Waiting /\ Current /\ Asking
      /\ csd \in Seq(Heard) /\ in \in Seq(Messages)
  BY DEF IInv, Typed
<1>1. /\ csd # << >> /\ csd' = Tail(csd)
      /\ UNCHANGED <<autosync, installed, mcc_cache, pc, out, matches, reg, asked>>
  BY DEF FromCsd, clockd
<1>2. csd' \in Seq(Heard) /\ h \in Heard
  BY <1>0, <1>1
<1>3. LastIs(csd, reg)
  BY <1>0 DEF Current
<1>4. /\ LastIs(csd', reg)
      /\ At(Country, csd') = {} =>
           IF h.kind \in Country THEN h.code = reg ELSE At(Country, csd) = {}
  BY <1>0, <1>1, <1>3, LastTail
<1>5. Ordered'
  BY <1>0, <1>1 DEF Ordered
<1>6. CASE h.kind = "signal" /\ matches = 0
  <2>1. in' = in /\ behind' = IF pc = "add" THEN "gap" ELSE "off"
    BY <1>6 DEF FromCsd
  <2>2. Typed'
    BY <1>0, <1>1, <1>2, <2>1 DEF Typed
  <2>3. Waiting'
    BY <1>0, <1>1, <2>1 DEF Waiting, Before, Answers
  <2>4. Current'
    BY <1>1, <1>4, <2>1 DEF Current, Country
  <2>5. ~(autosync /\ installed /\ pc # "add")
    BY <1>0, <1>6 DEF Waiting, Typed
  <2>6. Asking'
    BY <1>1, <2>1, <2>5 DEF Asking
  <2> QED
    BY <1>5, <2>2, <2>3, <2>4, <2>6 DEF IInv
<1>7. CASE ~(h.kind = "signal" /\ matches = 0)
  <2>1. /\ in' = Append(in, h)
        /\ behind' = IF h.kind # "error" THEN "no"
                     ELSE IF behind = "no" THEN "no" ELSE "error"
    BY <1>7 DEF FromCsd
  <2>2. h \in Messages /\ h.kind \in {"signal", "reply", "error"}
    BY <1>2 DEF Heard, Messages
  <2> HIDE DEF h
  <2>3. in' \in Seq(Messages) /\ Longer(in, in', h) /\ Len(in) \in Nat
    BY <1>0, <2>1, <2>2, Lengthened
  <2>4. Typed'
    BY <1>0, <1>1, <1>2, <2>1, <2>3 DEF Typed
  <2>5. At(Answers, in') = At(Answers, in)
    <3>1. h.kind \notin Answers
      BY <2>2 DEF Answers
    <3> QED
      BY <1>0, <2>1, <2>2, <3>1, CountAppended
  <2>6. Waiting'
    <3>1. \A i \in DOMAIN in : i \in DOMAIN in' /\ in'[i] = in[i]
      BY <1>0, <2>3 DEF Longer
    <3>2. Before' = Before
      BY <1>1 DEF Before
    <3>3. ASSUME NEW i \in DOMAIN in, At(Answers, in) = {i},
                 matches = IF in[i].kind = "done" THEN 1 - Before ELSE Before
          PROVE  \E j \in DOMAIN in' :
                   /\ At(Answers, in') = {j}
                   /\ matches' = IF in'[j].kind = "done" THEN 1 - Before' ELSE Before'
      BY <1>1, <2>5, <3>1, <3>2, <3>3
    <3>4. pc # "loop" =>
            \/ /\ Len(out') > 0 /\ out'[Len(out')] = pc' /\ At(Answers, in') = {}
               /\ matches' = Before'
            \/ /\ \A i \in 1 .. Len(out') : out'[i] = "status?"
               /\ \E j \in DOMAIN in' :
                    /\ At(Answers, in') = {j}
                    /\ matches' = IF in'[j].kind = "done" THEN 1 - Before' ELSE Before'
      BY <1>0, <1>1, <2>5, <3>2, <3>3 DEF Waiting
    <3> QED
      BY <1>0, <1>1, <2>5, <3>4 DEF Waiting, Answers
  <2>7. Current'
    <3>1. SUFFICES ASSUME behind' = "no", At(Country, csd') = {}
                   PROVE  LastIs(in', reg) /\ (At(Country, in') = {} => mcc_cache = reg)
      BY <1>1, <1>4 DEF Current, Country
    <3>2. CASE h.kind \in Country
      <4>1. h.code = reg
        BY <1>4, <3>1, <3>2 DEF h
      <4>2. LastIs(in', reg)
        BY <1>0, <2>1, <2>2, <3>2, <4>1, LastAppended
      <4>3. At(Country, in') = At(Country, in) \cup {Len(in) + 1}
        BY <1>0, <2>1, <2>2, <3>2, CountAppended
      <4> QED
        BY <4>2, <4>3
    <3>3. CASE h.kind \notin Country
      <4>1. behind = "no" /\ At(Country, csd) = {}
        BY <1>4, <2>1, <2>2, <3>1, <3>3 DEF h, Country
      <4>2. LastIs(in, reg) /\ (At(Country, in) = {} => mcc_cache = reg)
        BY <1>0, <4>1 DEF Current
      <4>3. LastIs(in', reg)
        BY <1>0, <2>1, <2>2, <3>3, <4>2, LastAppended
      <4>4. At(Country, in') = At(Country, in)
        BY <1>0, <2>1, <2>2, <3>3, CountAppended
      <4> QED
        BY <4>2, <4>3, <4>4
    <3> QED
      BY <3>2, <3>3
  <2>8. Asking'
    BY <2>1 DEF Asking
  <2> QED
    BY <1>5, <2>4, <2>6, <2>7, <2>8 DEF IInv
<1> QED
  BY <1>6, <1>7

\* The phone moves, or csd answers.
LEMMA CsdStep ==
  ASSUME IInv, (\E code \in Codes \cup {NoCode} : Register(code)) \/ Answer
  PROVE  IInv'
<1>0. /\ Typed /\ Ordered /\ Waiting /\ Current /\ Asking
      /\ csd \in Seq(Heard) /\ asked \in Nat /\ reg \in Codes \cup {NoCode}
  BY DEF IInv, Typed
<1>1. UNCHANGED <<autosync, installed, mcc_cache, pc, out, matches, in, behind>>
  BY DEF Register, Answer, clockd, bus
<1>2. Ordered' /\ Waiting'
  BY <1>0, <1>1 DEF Ordered, Waiting, Before, Answers
<1>3. ASSUME NEW m \in Heard, csd' = Append(csd, m), LastIs(csd', reg'),
             reg' \in Codes \cup {NoCode}, asked' \in Nat,
             m.kind = "error" => reg' = reg,
             m.kind = "signal" => asked' = asked
      PROVE  IInv'
  <2>1. csd' \in Seq(Heard)
    BY <1>0, <1>3, Lengthened
  <2>2. Typed'
    BY <1>0, <1>1, <1>3, <2>1 DEF Typed
  <2>3. Current'
    <3>1. CASE m.kind \in Country
      <4>1. At(Country, csd') = At(Country, csd) \cup {Len(csd) + 1}
        BY <1>0, <1>3, <3>1, CountAppended
      <4>2. At(Country, csd') # {}
        BY <4>1
      <4> QED
        BY <1>3, <4>2 DEF Current, Country
    <3>2. CASE m.kind \notin Country
      <4>1. At(Country, csd') = At(Country, csd)
        BY <1>0, <1>3, <3>2, CountAppended
      <4>2. reg' = reg
        BY <1>3, <3>2 DEF Heard, Country
      <4> QED
        BY <1>0, <1>1, <1>3, <4>1, <4>2 DEF Current, Country
    <3> QED
      BY <3>1, <3>2
  <2>4. Asking'
    <3>1. At({"reply", "error"}, csd') =
            IF m.kind \in {"reply", "error"}
            THEN At({"reply", "error"}, csd) \cup {Len(csd) + 1}
            ELSE At({"reply", "error"}, csd)
      BY <1>0, <1>3, CountAppended
    <3>2. m.kind \in {"reply", "error"} => At({"reply", "error"}, csd') # {}
      BY <3>1
    <3>3. m.kind = "signal" =>
            asked' = asked /\ At({"reply", "error"}, csd') = At({"reply", "error"}, csd)
      BY <1>3, <3>1
    <3>4. m.kind \in {"reply", "error"} \/ m.kind = "signal"
      BY <1>3 DEF Heard
    <3> QED
      BY <1>0, <1>1, <3>2, <3>3, <3>4 DEF Asking
  <2> QED
    BY <1>2, <2>2, <2>3, <2>4 DEF IInv
<1>4. ASSUME NEW code \in Codes \cup {NoCode}, Register(code) PROVE IInv'
  <2> DEFINE m == Message("signal", code)
  <2>1. csd' = Append(csd, m) /\ reg' = code /\ asked' = asked
    BY <1>4 DEF Register
  <2>2. m \in Heard /\ m.kind = "signal" /\ m.code = code
    BY DEF Message, Heard
  <2> HIDE DEF m
  <2>3. LastIs(csd', reg')
    BY <1>0, <2>1, <2>2, LastAppended DEF Country
  <2> QED
    BY <1>0, <1>3, <2>1, <2>2, <2>3
<1>5. ASSUME Answer PROVE IInv'
  <2>1. asked' = asked - 1 /\ asked > 0 /\ reg' = reg
    BY <1>5 DEF Answer
  <2>2. PICK m \in {Message("reply", reg), Message("error", NoCode)} :
          csd' = Append(csd, m)
    BY <1>5 DEF Answer
  <2>3. /\ m \in Heard /\ m.kind \in {"reply", "error"}
        /\ m.kind = "reply" => m.code = reg
    BY <1>0, <2>2 DEF Message, Heard
  <2>4. LastIs(csd, reg)
    BY <1>0 DEF Current
  <2>5. LastIs(csd', reg')
    <3>1. m.kind \in Country => m.code = reg
      BY <2>3 DEF Country
    <3>2. LastIs(csd', reg)
      BY <1>0, <2>2, <2>3, <2>4, <3>1, LastAppended
    <3> QED
      BY <2>1, <3>2
  <2>6. asked' \in Nat /\ reg' \in Codes \cup {NoCode}
    BY <1>0, <2>1
  <2> QED
    BY <1>3, <2>1, <2>2, <2>3, <2>5, <2>6
<1> QED
  BY <1>4, <1>5

LEMMA NextIInv == IInv /\ [Next]_vars => IInv'
<1>1. SUFFICES ASSUME IInv, [Next]_vars PROVE IInv'
  OBVIOUS
<1>2. ASSUME NEW on \in BOOLEAN, Setup(on) PROVE IInv'
  BY <1>1, <1>2, SetupStep
<1>3. ASSUME (\E code \in Codes \cup {NoCode} : Register(code)) \/ Answer PROVE IInv'
  BY <1>1, <1>3, CsdStep
<1>4. ASSUME Added \/ Removed PROVE IInv'
  BY <1>1, <1>4, AnsweredStep
<1>5. ASSUME Handle PROVE IInv'
  BY <1>1, <1>5, HandleStep
<1>6. ASSUME FromClockd PROVE IInv'
  BY <1>1, <1>6, FromClockdStep
<1>7. ASSUME FromCsd PROVE IInv'
  BY <1>1, <1>7, FromCsdStep
<1>8. ASSUME UNCHANGED vars PROVE IInv'
  BY <1>1, <1>8 DEF IInv, Typed, Ordered, Waiting, Before, Current, Asking, Answers,
     Country, vars, clockd, bus, network
<1> QED
  BY <1>1, <1>2, <1>3, <1>4, <1>5, <1>6, <1>7, <1>8, Zenon DEF Next

-----------------------------------------------------------------------------
(* The questions under way *)

Asks(s) == { i \in DOMAIN s : s[i] = "status?" }

Replies == {"reply", "error"}

CallsBounded == Calls <= MaxCalls

\* The four places a question can be in.
LEMMA CallsSum ==
  ASSUME Typed
  PROVE  /\ Calls = Cardinality(Asks(out)) + asked + Count(Replies, csd)
                      + Count(Replies, in)
         /\ Cardinality(Asks(out)) \in Nat /\ asked \in Nat
         /\ Count(Replies, csd) \in Nat /\ Count(Replies, in) \in Nat
         /\ MaxCalls \in Nat
<1>1. /\ out \in Seq(Sent) /\ asked \in Nat /\ in \in Seq(Messages)
      /\ csd \in Seq(Heard)
  BY DEF Typed
<1>2. Cardinality(Asks(out)) \in Nat
  <2>1. Len(out) \in Nat /\ Asks(out) \in SUBSET (1 .. Len(out))
    BY <1>1 DEF Asks
  <2> QED
    BY <2>1, Indices
<1>3. Count(Replies, csd) \in Nat /\ Count(Replies, in) \in Nat
  BY <1>1, AtIndices
<1>4. Calls = Cardinality(Asks(out)) + asked + Count(Replies, csd)
                      + Count(Replies, in)
  BY Zenon DEF Calls, Asks, Replies
<1> QED
  BY <1>1, <1>2, <1>3, <1>4, WatchAssumption

LEMMA AsksShorter ==
  ASSUME NEW s \in Seq(Sent), s # << >>
  PROVE  /\ Cardinality(Asks(Tail(s))) <= Cardinality(Asks(s))
         /\ Head(s) = "status?" =>
              Cardinality(Asks(Tail(s))) <= Cardinality(Asks(s)) - 1
<1>1. /\ Len(s) \in Nat /\ Asks(s) \in SUBSET (1 .. Len(s))
      /\ Asks(Tail(s)) = { i \in 1 .. (Len(s) - 1) : i + 1 \in Asks(s) }
      /\ Head(s) = "status?" => 1 \in Asks(s)
  <2> DEFINE t == Tail(s)
  <2>1. Shorter(s, t) /\ t \in Seq(Sent) /\ Len(s) \in Nat
    BY Shortened
  <2> HIDE DEF t
  <2> QED
    BY <2>1 DEF Asks, Shorter, t
<1> QED
  BY <1>1, ShiftedIndices

\* The same in the next state.
LEMMA CallsSumNext ==
  Typed' =>
    (/\ Calls = Cardinality(Asks(out)) + asked + Count(Replies, csd)
                  + Count(Replies, in)
     /\ Cardinality(Asks(out)) \in Nat /\ asked \in Nat
     /\ Count(Replies, csd) \in Nat /\ Count(Replies, in) \in Nat)'
<1>1. Typed =>
        /\ Calls = Cardinality(Asks(out)) + asked + Count(Replies, csd)
                     + Count(Replies, in)
        /\ Cardinality(Asks(out)) \in Nat /\ asked \in Nat
        /\ Count(Replies, csd) \in Nat /\ Count(Replies, in) \in Nat
  BY CallsSum
<1> QED
  BY <1>1, PTL

LEMMA CallsStep ==
  ASSUME IInv, CallsBounded, [Next]_vars
  PROVE  CallsBounded'
<1>0. /\ Typed /\ Typed' /\ out \in Seq(Sent) /\ in \in Seq(Messages)
      /\ csd \in Seq(Heard) /\ Len(out) \in Nat
  BY NextIInv DEF IInv, Typed
<1>1. PICK a0 \in Nat, q0 \in Nat, c0 \in Nat, n0 \in Nat :
        /\ a0 = Cardinality(Asks(out)) /\ q0 = asked
        /\ c0 = Count(Replies, csd) /\ n0 = Count(Replies, in)
  BY <1>0, CallsSum
<1>2. PICK a1 \in Nat, q1 \in Nat, c1 \in Nat, n1 \in Nat :
        /\ a1 = Cardinality(Asks(out))' /\ q1 = asked'
        /\ c1 = Count(Replies, csd)' /\ n1 = Count(Replies, in)'
  BY <1>0, CallsSumNext
<1>3. Calls = a0 + q0 + c0 + n0 /\ a0 + q0 + c0 + n0 <= MaxCalls /\ MaxCalls \in Nat
  BY <1>0, <1>1, CallsSum DEF CallsBounded
<1> SUFFICES a1 + q1 + c1 + n1 <= MaxCalls
  BY <1>0, <1>2, CallsSumNext DEF CallsBounded
<1>4. /\ out' = out => a1 = a0
      /\ asked' = asked => q1 = q0
      /\ csd' = csd => c1 = c0
      /\ in' = in => n1 = n0
  BY <1>1, <1>2 DEF Asks, Count, At
<1>5. ASSUME NEW on \in BOOLEAN, Setup(on) PROVE a1 + q1 + c1 + n1 <= MaxCalls
  <2>1. /\ out' \in Seq(Sent) /\ in' = in /\ asked' = asked /\ csd' = csd
        /\ \/ Longer(out, out', "status?")
           \/ /\ Len(out') = Len(out) + 2
              /\ out'[Len(out) + 1] = "status?" /\ out'[Len(out) + 2] = "add"
              /\ \A i \in 1 .. Len(out) : out'[i] = out[i]
           \/ Longer(out, out', "remove")
           \/ out' = out
    BY <1>0, <1>5, SetupFacts DEF network
  <2>2. Asks(out') = Asks(out) \/ Asks(out') = Asks(out) \cup {Len(out) + 1}
    <3>1. DOMAIN out' = 1 .. Len(out') /\ DOMAIN out = 1 .. Len(out)
      BY <1>0, <2>1
    <3>2. CASE Longer(out, out', "status?")
      BY <1>0, <3>1, <3>2 DEF Asks, Longer
    <3>3. CASE /\ Len(out') = Len(out) + 2
               /\ out'[Len(out) + 1] = "status?" /\ out'[Len(out) + 2] = "add"
               /\ \A i \in 1 .. Len(out) : out'[i] = out[i]
      BY <1>0, <3>1, <3>3 DEF Asks
    <3>4. CASE Longer(out, out', "remove")
      BY <1>0, <3>1, <3>4 DEF Asks, Longer
    <3>5. CASE out' = out
      BY <3>5
    <3> QED
      BY <2>1, <3>2, <3>3, <3>4, <3>5
  <2>3. Asks(out) \in SUBSET (1 .. Len(out))
    BY <1>0 DEF Asks
  <2>4. Cardinality(Asks(out')) <= Cardinality(Asks(out)) + 1
    BY <1>0, <2>2, <2>3, AddedIndex
  <2>5. a1 <= a0 + 1
    BY <1>1, <1>2, <2>4
  <2>6. a0 + q0 + c0 + n0 < MaxCalls
    BY <1>3, <1>5 DEF Setup
  <2>7. q1 = q0 /\ c1 = c0 /\ n1 = n0
    BY <1>4, <2>1
  <2> QED
    BY <1>3, <2>5, <2>6, <2>7
<1>6. ASSUME NEW code \in Codes \cup {NoCode}, Register(code)
      PROVE  a1 + q1 + c1 + n1 <= MaxCalls
  <2>1. /\ csd' = Append(csd, Message("signal", code))
        /\ UNCHANGED <<out, in, asked>>
    BY <1>6 DEF Register, bus
  <2>2. Message("signal", code) \in Heard /\ Message("signal", code).kind \notin Replies
    BY DEF Message, Heard, Replies
  <2>3. c1 = c0
    BY <1>0, <1>1, <1>2, <2>1, <2>2, CountAppended
  <2> QED
    BY <1>3, <1>4, <2>1, <2>3
<1>7. ASSUME Added \/ Removed PROVE a1 + q1 + c1 + n1 <= MaxCalls
  <2>1. PICK p \in DOMAIN in : in' = Without(p)
    BY <1>7 DEF Added, Removed, At
  <2>2. UNCHANGED <<out, asked, csd>>
    BY <1>7 DEF Added, Removed, network
  <2>3. n1 <= n0
    BY <1>0, <1>1, <1>2, <2>1, CountWithout
  <2>4. a1 = a0 /\ q1 = q0 /\ c1 = c0
    BY <1>4, <2>2
  <2> QED
    BY <1>3, <2>3, <2>4
<1>8. ASSUME Handle PROVE a1 + q1 + c1 + n1 <= MaxCalls
  <2>1. in # << >> /\ in' = Tail(in) /\ UNCHANGED <<out, asked, csd>>
    BY <1>8 DEF Handle, network
  <2>2. n1 <= n0
    BY <1>0, <1>1, <1>2, <2>1, CountTail
  <2>3. a1 = a0 /\ q1 = q0 /\ c1 = c0
    BY <1>4, <2>1
  <2> QED
    BY <1>3, <2>2, <2>3
<1>9. ASSUME FromClockd PROVE a1 + q1 + c1 + n1 <= MaxCalls
  <2>1. out # << >> /\ out' = Tail(out) /\ csd' = csd
    BY <1>9 DEF FromClockd
  <2>2. a1 <= a0 /\ (Head(out) = "status?" => a1 <= a0 - 1)
    BY <1>0, <1>1, <1>2, <2>1, AsksShorter
  <2>3. CASE Head(out) = "status?"
    <3>1. asked' = asked + 1 /\ in' = in
      BY <1>9, <2>3 DEF FromClockd
    <3>2. q1 = q0 + 1 /\ c1 = c0 /\ n1 = n0
      BY <1>1, <1>2, <1>4, <2>1, <3>1
    <3> QED
      BY <1>3, <2>2, <2>3, <3>2
  <2>4. CASE Head(out) # "status?"
    <3>1. asked' = asked
          /\ \E k \in Answers : in' = Append(in, Message(k, NoCode))
      BY <1>9, <2>4 DEF FromClockd, Answers
    <3>2. PICK k \in Answers : in' = Append(in, Message(k, NoCode))
      BY <3>1
    <3>3. Message(k, NoCode) \in Messages /\ Message(k, NoCode).kind \notin Replies
      BY <3>2 DEF Message, Messages, Answers, Replies
    <3>4. n1 = n0
      BY <1>0, <1>1, <1>2, <3>2, <3>3, CountAppended
    <3>5. q1 = q0 /\ c1 = c0
      BY <1>4, <2>1, <3>1
    <3> QED
      BY <1>3, <2>2, <3>4, <3>5
  <2> QED
    BY <2>3, <2>4
<1>10. ASSUME FromCsd PROVE a1 + q1 + c1 + n1 <= MaxCalls
  <2>1. csd # << >> /\ csd' = Tail(csd) /\ UNCHANGED <<out, asked>>
    BY <1>10 DEF FromCsd
  <2>2. c1 <= c0 /\ (Head(csd).kind \in Replies => c1 <= c0 - 1)
    BY <1>0, <1>1, <1>2, <2>1, CountTail
  <2>3. a1 = a0 /\ q1 = q0
    BY <1>4, <2>1
  <2>4. n1 = n0 \/ (n1 <= n0 + 1 /\ (Head(csd).kind \notin Replies => n1 = n0))
    <3>1. CASE in' = in
      BY <1>4, <3>1
    <3>2. CASE in' = Append(in, Head(csd))
      <4>1. Head(csd) \in Heard
        BY <1>0, <2>1
      <4>2. Head(csd) \in Messages
        BY <4>1 DEF Heard, Messages
      <4> QED
        BY <1>0, <1>1, <1>2, <3>2, <4>2, CountAppended
    <3> QED
      BY <1>10, <3>1, <3>2 DEF FromCsd
  <2>5. c1 + n1 <= c0 + n0
    BY <2>2, <2>4
  <2> QED
    BY <1>3, <2>3, <2>5
<1>11. ASSUME Answer PROVE a1 + q1 + c1 + n1 <= MaxCalls
  <2>1. asked' = asked - 1 /\ UNCHANGED <<out, in>>
    BY <1>11 DEF Answer, bus
  <2>2. PICK m \in {Message("reply", reg), Message("error", NoCode)} :
          csd' = Append(csd, m)
    BY <1>11 DEF Answer
  <2>3. m \in Heard
    BY <1>0, <2>2 DEF Message, Heard, Typed
  <2>4. c1 <= c0 + 1
    BY <1>0, <1>1, <1>2, <2>2, <2>3, CountAppended
  <2>5. a1 = a0 /\ n1 = n0 /\ q1 = q0 - 1
    BY <1>1, <1>2, <1>4, <2>1
  <2> QED
    BY <1>3, <2>4, <2>5
<1>12. ASSUME UNCHANGED vars PROVE a1 + q1 + c1 + n1 <= MaxCalls
  BY <1>3, <1>4, <1>12 DEF vars, bus, network
<1> QED
  BY <1>5, <1>6, <1>7, <1>8, <1>9, <1>10, <1>11, <1>12, Zenon DEF Next

-----------------------------------------------------------------------------
(* The theorems *)

LEMMA AlwaysIInv == Spec => [](IInv /\ CallsBounded)
<1>1. Init => IInv /\ CallsBounded
  <2>1. ASSUME Init PROVE CallsBounded
    <3>1. \A K : At(K, << >>) = {} /\ Count(K, << >>) = 0
      BY FS_EmptySet DEF At, Count
    <3>2. Cardinality(Asks(out)) = 0
      BY <2>1, FS_EmptySet DEF Init, Asks
    <3>3. asked = 0 /\ Count(Replies, csd) = 0 /\ Count(Replies, in) = 0
      BY <2>1, <3>1 DEF Init
    <3>4. Typed
      BY <2>1, InitIInv DEF IInv
    <3> QED
      BY <3>2, <3>3, <3>4, CallsSum DEF CallsBounded
  <2> QED
    BY <2>1, InitIInv
<1>2. IInv /\ CallsBounded /\ [Next]_vars => (IInv /\ CallsBounded)'
  BY NextIInv, CallsStep
<1> QED
  BY <1>1, <1>2, PTL DEF Spec

\* What clockd believes of its match is true: whenever it is not waiting for the
\* bus, registration_status_change_dbus_handler_installed says whether the bus
\* has the match, be it that an add or a remove was refused.
THEOREM MatchIsBelieved == Spec => []MatchAsBelieved
<1>1. IInv => MatchAsBelieved
  BY DEF IInv, Waiting, MatchAsBelieved
<1> QED
  BY <1>1, AlwaysIInv, PTL

\* While autosync is on and the match is there, mcc_cache is the country that
\* the phone is registered in once nothing is under way, but for a change in the
\* gap between question and match, or a question that failed.
THEOREM CountryIsUpToDate == Spec => []UpToDate
<1>1. ASSUME IInv, Quiet, autosync, installed, behind \notin {"gap", "error"}
      PROVE  mcc_cache = reg
  <2>1. /\ pc = "loop" /\ out = << >> /\ in = << >> /\ asked = 0 /\ csd = << >>
        /\ behind \in {"no", "off"}
    BY <1>1 DEF Quiet, IInv, Typed
  <2>2. \A K : At(K, << >>) = {}
    BY DEF At
  <2>3. behind = "no"
    BY <1>1, <2>1, <2>2 DEF IInv, Asking
  <2> QED
    BY <1>1, <2>1, <2>2, <2>3 DEF IInv, Current
<1>2. IInv => UpToDate
  BY <1>1 DEF UpToDate
<1> QED
  BY <1>2, AlwaysIInv, PTL

\* Every variable keeps its type: clockd never has its match twice and never
\* waits for more than one answer of the bus, and the questions under way stay
\* within their bound.
THEOREM TypeCorrect == Spec => []TypeOK
<1>1. ASSUME IInv, CallsBounded PROVE TypeOK
  <2>1. asked \in 0 .. MaxCalls
    BY <1>1, CallsSum DEF IInv, CallsBounded
  <2>2. csd \in Seq(Messages)
    <3>1. csd \in Seq(Heard) /\ Heard \subseteq Messages
      BY <1>1 DEF IInv, Typed, Heard, Messages
    <3>2. Len(csd) \in Nat /\ csd \in [1 .. Len(csd) -> Messages]
      BY <3>1
    <3> QED
      BY <3>2, SeqDef
  <2>3. Count(Answers, in) <= (IF pc = "loop" THEN 0 ELSE 1)
    <3>1. Cardinality({}) = 0 /\ \A i : Cardinality({i}) = 1
      BY FS_EmptySet, FS_Singleton
    <3>2. /\ pc = "loop" => At(Answers, in) = {}
          /\ pc # "loop" =>
               At(Answers, in) = {} \/ \E i \in DOMAIN in : At(Answers, in) = {i}
      BY <1>1 DEF IInv, Waiting
    <3> QED
      BY <3>1, <3>2 DEF Count
  <2> QED
    BY <1>1, <2>1, <2>2, <2>3 DEF IInv, Typed, TypeOK, Sent, Answers
<1> QED
  BY <1>1, AlwaysIInv, PTL

=============================================================================
