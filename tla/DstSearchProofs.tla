-------------------------- MODULE DstSearchProofs --------------------------
(***************************************************************************)
(* The search of next_dst_change finds every change, and what it finds is  *)
(* what ClockServer takes it to find.                                      *)
(***************************************************************************)
EXTENDS DstSearch, TLAPS

\* What the roundings leave of two weeks, from no round to all of them.
Left ==
  <<1209600, 604800, 302400, 151200, 75600, 37800, 18900, 9450, 4725, 2363,
    1182, 591, 296, 148, 74, 37, 19, 10, 5, 3, 2, 1>>

\* The change is after timeout and at most max_timeout later.
Bracket == timeout < change /\ change <= timeout + max_timeout

IInv ==
  /\ change \in Nat \ {0} /\ timeout \in Nat /\ i \in 0..Rounds
  /\ max_timeout = Left[i + 1]
  /\ change <= two_weeks => Bracket
  /\ AlarmAtChange

LEMMA LeftHalves ==
  ASSUME NEW k \in 0..(Rounds - 1)
  PROVE  Left[k + 1] \in Nat \ {0} /\ Half(Left[k + 1]) = Left[k + 2]
<1>1. k \in {0, 1, 2, 3, 4, 5, 6, 7, 8, 9, 10, 11, 12, 13, 14, 15, 16, 17, 18, 19, 20}
  BY DEF Rounds
<1> QED
  BY <1>1 DEF Left, Half

LEMMA HalfType ==
  ASSUME NEW m \in Nat \ {0}
  PROVE  Half(m) \in Nat \ {0} /\ m <= 2 * Half(m)
BY DEF Half

LEMMA Squeezed == \A a, c \in Nat : a < c /\ c <= a + 1 => c = a + 1
OBVIOUS

\* The change is never lost from between the two bounds.
LEMMA RoundKeeps == ASSUME IInv, Round PROVE IInv'
<1>1. i \in 0..(Rounds - 1) /\ i' = i + 1 /\ change' = change
      /\ max_timeout' = Half(max_timeout)
  BY DEF IInv, Round, Rounds
<1>2. max_timeout \in Nat \ {0} /\ max_timeout' = Left[i' + 1]
  <2>1. Half(Left[i + 1]) = Left[i + 2] /\ Left[i + 1] \in Nat \ {0}
    BY <1>1, LeftHalves
  <2>2. i' + 1 = i + 2
    BY <1>1 DEF Rounds
  <2> QED
    BY <1>1, <2>1, <2>2 DEF IInv
<1>3. max_timeout' \in Nat \ {0} /\ max_timeout <= 2 * max_timeout'
  BY <1>1, <1>2, HalfType
<1>4. Bracket /\ change <= two_weeks /\ change \in Nat \ {0} /\ timeout \in Nat
  BY DEF IInv, Round, Differs, two_weeks
<1>5. Bracket' /\ timeout' \in Nat
  BY <1>1, <1>2, <1>3, <1>4 DEF Round, Bracket, Differs
<1>6. AlarmAtChange'
  <2>1. ASSUME i' = Rounds PROVE next' = change
    <3>1. max_timeout' = 1
      <4>1. i' + 1 = 22
        BY <2>1 DEF Rounds
      <4>2. max_timeout' = Left[22]
        BY <1>2, <4>1
      <4> QED
        BY <4>2 DEF Left
    <3>2. next' = timeout' + 1
      BY <2>1, <3>1 DEF Round
    <3>3. timeout' < change /\ change <= timeout' + 1 /\ timeout' \in Nat
      BY <1>1, <1>5, <3>1 DEF Bracket
    <3>4. change = timeout' + 1
      BY <1>4, <3>3, Squeezed
    <3> QED
      BY <1>1, <3>2, <3>4
  <2>2. Differs(two_weeks)'
    BY <1>1 DEF Round, Differs
  <2> QED
    BY <1>1, <1>4, <2>1, <2>2 DEF AlarmAtChange
<1>7. i' \in 0..Rounds
  BY <1>1 DEF Rounds
<1> QED
  BY <1>1, <1>2, <1>4, <1>5, <1>6, <1>7 DEF IInv

\* For every change, near or far: the loop's 21 rounds end on the second of
\* the change, no earlier and no later (next_dst_change).
THEOREM SearchIsExact == Spec => []AlarmAtChange
<1>1. Init => IInv
  BY ChangesAssumption
  DEF Init, IInv, Bracket, AlarmAtChange, Differs, Left, Rounds, two_weeks
<1>2. IInv /\ [Next]_vars => IInv'
  <2>1. ASSUME IInv, UNCHANGED vars PROVE IInv'
    BY <2>1 DEF vars, IInv, Bracket, AlarmAtChange, Differs
  <2> QED
    BY <2>1, RoundKeeps DEF Next
<1>3. IInv => AlarmAtChange
  BY DEF IInv
<1> QED
  BY <1>1, <1>2, <1>3, PTL DEF Spec
=============================================================================
