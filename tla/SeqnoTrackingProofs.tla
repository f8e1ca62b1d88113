------------------------ MODULE SeqnoTrackingProofs ------------------------
(***************************************************************************)
(* A number that is less than half the sequence space away from the        *)
(* checkpoint is read back, for every size of the space (ReceiverLemmas).  *)
(***************************************************************************)
EXTENDS SeqnoTracking, ReceiverLemmas

LEMMA AlwaysTyped == Spec => []TypeOK
<1>1. Init => TypeOK
  BY OffsetRecovered, MaxAbsAssumption DEF Init, TypeOK
<1>2. TypeOK /\ [Next]_vars => TypeOK'
  <2> SUFFICES ASSUME TypeOK, [Next]_vars PROVE TypeOK'
    OBVIOUS
  <2>1. CASE Accept
    <3>1. Absolute \in Nat
      BY UnwrapNat, MaxAbsAssumption, FactorAssumption DEF Absolute, TypeOK, Wrapping
    <3> QED
      BY <2>1, <3>1, MaxAbsAssumption DEF Accept, TypeOK
  <2>2. ASSUME NEW n \in 0 .. MaxAbs + Reach, Arrive(n) PROVE TypeOK'
    <3>1. n \in Nat
      BY MaxAbsAssumption, ReachAssumption
    <3> QED
      BY <2>2, <3>1, OffsetRecovered DEF Arrive, TypeOK
  <2>3. CASE UNCHANGED vars
    BY <2>3 DEF vars, TypeOK
  <2> QED
    BY <2>1, <2>2, <2>3 DEF Next
<1> QED
  BY <1>1, <1>2, PTL DEF Spec

(* TCPReceiver and TCPSender read every sequence number that is less than
   half the space from their checkpoint as the absolute number it was made
   from, for every width of the number and every initial sequence number. *)
THEOREM RoundTripAlways == Spec => []RoundTrip
<1>1. TypeOK => RoundTrip
  <2> SUFFICES ASSUME TypeOK, NEW n \in 0 .. MaxAbs + Reach, Near(n)
               PROVE  unwrap(wrap(n, isn), isn, checkpoint) = n
    BY DEF RoundTrip
  <2>1. n \in Nat /\ checkpoint \in Nat /\ checkpoint + FACTOR < FACTOR * FACTOR
    BY MaxAbsAssumption, ReachAssumption, FactorAssumption DEF TypeOK
  <2>2. n <= checkpoint + Reach /\ checkpoint <= n + Reach
    BY DEF Near
  <2> QED
    BY <2>1, <2>2, UnwrapWrap, ReachAssumption DEF TypeOK
<1> QED
  BY <1>1, AlwaysTyped, PTL

(* Whatever 32-bit number arrives, and wherever the checkpoint is, unwrap()
   returns a number that wraps to it, and no other such number is closer. *)
THEOREM UnwrapAlwaysClosest == Spec => []UnwrapIsClosest
<1>1. TypeOK => UnwrapIsClosest
  <2> SUFFICES ASSUME TypeOK, NEW n \in Wrapping
               PROVE  LET x == unwrap(n, isn, checkpoint)
                      IN  /\ wrap(x, isn) = n
                          /\ \A y \in 0 .. MaxAbs + FACTOR :
                               wrap(y, isn) = n => Distance(x) <= Distance(y)
    BY DEF UnwrapIsClosest
  <2> DEFINE x == unwrap(n, isn, checkpoint)
             D(z) == IF z > checkpoint THEN z - checkpoint ELSE checkpoint - z
  <2>1. isn \in Wrapping /\ checkpoint \in Nat /\ checkpoint + FACTOR < FACTOR * FACTOR
    BY MaxAbsAssumption, FactorAssumption DEF TypeOK
  <2>2. wrap(x, isn) = n /\ \A y \in Nat : wrap(y, isn) = n => D(x) <= D(y)
    BY <2>1, UnwrapClosest
  <2>3. \A y \in 0 .. MaxAbs + FACTOR : y \in Nat
    BY MaxAbsAssumption, FactorAssumption
  <2> QED BY <2>2, <2>3, Zenon DEF Distance
<1> QED
  BY <1>1, AlwaysTyped, PTL
=============================================================================
