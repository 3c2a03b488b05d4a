----------------------------- MODULE RoundsProofs -----------------------------
(***************************************************************************)
(* A round keeps its interval and never oversleeps, for every width of the *)
(* words and every interval: the arithmetic of Rounds, proved.             *)
(***************************************************************************)
EXTENDS Rounds, TLAPS

-----------------------------------------------------------------------------
(* The unsigned difference of two words, read as a signed one, is the
   difference, as long as interval and clock fit a long
   (monitorThread.c:283). *)
LEMMA ToSleepIsTheRest ==
  ASSUME NEW i \in Intervals, NEW start \in 0..MAX_TIME, NEW end \in 0..MAX_TIME
  PROVE  ToSleep(i, start, end) = i - (end - start)
<1> DEFINE x == end - start
<1>1. /\ LONG \in Nat /\ MAX_TIME \in Nat /\ i \in Int /\ x \in Int
      /\ 1 <= i /\ i + MAX_TIME < LONG
      /\ -MAX_TIME <= x /\ x <= MAX_TIME
  BY WordsAssumption, TimesAssumption
<1>2. CASE x >= 0
  <2>1. ToSleep(i, start, end) = Signed(Minus(i, x))
    BY <1>2 DEF ToSleep, Unsigned
  <2> HIDE DEF x
  <2>2. Signed(Minus(i, x)) = i - x
    BY <1>1, <1>2 DEF Minus, Signed
  <2> QED
    BY <2>1, <2>2 DEF x
<1>3. CASE x < 0
  <2>1. ToSleep(i, start, end) = Signed(Minus(i, x + 2 * LONG))
    BY <1>1, <1>3 DEF ToSleep, Unsigned
  <2> HIDE DEF x
  <2>2. Signed(Minus(i, x + 2 * LONG)) = i - x
    BY <1>1, <1>3 DEF Minus, Signed
  <2> QED
    BY <2>1, <2>2 DEF x
<1> QED
  BY <1>1, <1>2, <1>3

(* longSleep sleeps not at all when nothing is left, never longer than it is
   asked to, and as long when the seconds fit an unsigned int
   (logLibrary.c:110-133). *)
LEMMA LongSleepSleeps ==
  ASSUME NEW t \in Int
  PROVE  /\ LongSleep(t) \in Nat
         /\ t <= 0 => LongSleep(t) = 0
         /\ t > 0 => LongSleep(t) <= t
         /\ t > 0 /\ t < UINT * MAX_USEC_SLEEP => LongSleep(t) = t
<1>1. UINT \in Nat \ {0} /\ MAX_USEC_SLEEP \in Nat \ {0}
  BY WordsAssumption
<1>2. CASE t < MAX_USEC_SLEEP
  BY <1>1, <1>2 DEF LongSleep
<1>3. CASE t >= MAX_USEC_SLEEP
  <2> DEFINE s == t \div MAX_USEC_SLEEP
             r == t % MAX_USEC_SLEEP
  <2>1. /\ s \in Nat /\ r \in Nat
        /\ t = MAX_USEC_SLEEP * s + r
    BY <1>1, <1>3
  <2>2. LongSleep(t) = MAX_USEC_SLEEP * (s % UINT) + r
    BY <1>1, <1>3 DEF LongSleep
  <2> HIDE DEF s, r
  <2>3. s % UINT \in Nat /\ s % UINT <= s
    BY <1>1, <2>1
  <2>4. MAX_USEC_SLEEP * (s % UINT) \in Nat
        /\ MAX_USEC_SLEEP * (s % UINT) <= MAX_USEC_SLEEP * s
    BY <1>1, <2>1, <2>3
  <2>5. t < UINT * MAX_USEC_SLEEP => s % UINT = s
    <3>1. ASSUME t < UINT * MAX_USEC_SLEEP PROVE s < UINT
      BY <1>1, <2>1, <3>1
    <3> QED
      BY <1>1, <2>1, <3>1
  <2> QED
    BY <1>1, <1>3, <2>1, <2>2, <2>3, <2>4, <2>5
<1> QED
  BY <1>1, <1>2, <1>3

-----------------------------------------------------------------------------
(* The clock, within a round, is what it was at its start, and the time passed,
   less what it was set back, and more what it was set ahead. *)
Clock ==
  /\ pc \in {"top", "working", "sleeping"}
  /\ interval \in Intervals
  /\ day \in 0..MAX_TIME /\ startTime \in 0..MAX_TIME
  /\ passed \in Nat /\ back \in Nat /\ ahead \in Nat
  /\ asked \in Nat /\ round \in Int /\ work \in Nat
  /\ pc # "top" => day = startTime + passed - back + ahead

(* The sleep is asked for with the interval's rest. *)
Asked ==
  pc = "sleeping" =>
    /\ work = passed
    /\ asked = LongSleep(interval - passed + back - ahead)

Inv == Clock /\ Asked /\ KeepsTheInterval

(* The invariant holds at the start. *)
LEMMA InitInv == Init => Inv
<1> SUFFICES ASSUME Init PROVE Inv
  OBVIOUS
<1> QED
  BY TimesAssumption DEF Init, Inv, Clock, Asked, KeepsTheInterval

(* Every step of a round keeps the invariant. *)
LEMMA StepInv == Inv /\ [Next]_vars => Inv'
<1> SUFFICES ASSUME Inv, [Next]_vars PROVE Inv'
  OBVIOUS
<1> USE DEF Inv
<1>0. MAX_TIME \in Nat /\ \A i \in Intervals : i \in Nat
  BY TimesAssumption
<1>1. CASE RoundStarts
  BY <1>0, <1>1 DEF RoundStarts, Clock, Asked, KeepsTheInterval
<1>2. CASE Works
  BY <1>0, <1>2 DEF Works, Clock, Asked, KeepsTheInterval
<1>3. ASSUME NEW d \in 0..MAX_TIME, DaySet(d) PROVE Inv'
  <2>1. /\ pc = "working" /\ d \in Nat /\ day \in Nat
        /\ UNCHANGED <<pc, interval, passed, startTime, asked, round, work>>
        /\ day' = d
    BY <1>0, <1>3 DEF DaySet, Clock
  <2>2. /\ startTime \in Nat /\ passed \in Nat /\ back \in Nat /\ ahead \in Nat
        /\ day = startTime + passed - back + ahead
    BY <1>0, <2>1 DEF Clock
  <2>3. back' \in Nat /\ ahead' \in Nat /\ d = startTime + passed - back' + ahead'
    <3>1. CASE d < day
      <4>1. back' = back + (day - d) /\ ahead' = ahead
        BY <1>3, <3>1 DEF DaySet
      <4> QED
        BY <2>1, <2>2, <3>1, <4>1
    <3>2. CASE ~(d < day)
      <4>1. ahead' = ahead + (d - day) /\ back' = back
        BY <1>3, <3>2 DEF DaySet
      <4> QED
        BY <2>1, <2>2, <3>2, <4>1
    <3> QED
      BY <3>1, <3>2
  <2> QED
    BY <2>1, <2>2, <2>3 DEF Clock, Asked, KeepsTheInterval
<1>4. CASE WorkEnds
  <2>1. ToSleep(interval, startTime, day) = interval - passed + back - ahead
    <3>1. ToSleep(interval, startTime, day) = interval - (day - startTime)
      BY ToSleepIsTheRest DEF Clock
    <3> QED
      BY <1>0, <1>4, <3>1 DEF Clock, WorkEnds
  <2>2. interval - passed + back - ahead \in Int
    BY <1>0 DEF Clock
  <2>3. LongSleep(interval - passed + back - ahead) \in Nat
    BY <2>2, LongSleepSleeps
  <2> QED
    BY <1>4, <2>1, <2>3 DEF WorkEnds, Clock, Asked, KeepsTheInterval
<1>5. ASSUME NEW slept \in 0..asked, SleepEnds(slept) PROVE Inv'
  <2>1. Clock' /\ Asked'
    BY <1>0, <1>5 DEF SleepEnds, Clock, Asked
  <2>2. KeepsTheInterval'
    <3>0. /\ pc = "sleeping" /\ work = passed /\ round' = passed + slept
          /\ UNCHANGED <<interval, work, back, ahead>>
          /\ ~signalled' => slept = asked
      <4>1. asked \in Nat /\ slept \in Nat /\ slept <= asked
        BY DEF Clock
      <4>2. signalled' = (slept < asked)
        BY <1>5 DEF SleepEnds
      <4>3. ~signalled' => slept = asked
        <5>1. signalled' = TRUE \/ signalled' = FALSE
          BY <4>2
        <5>2. CASE slept < asked
          BY <4>2, <5>2
        <5>3. CASE ~(slept < asked)
          BY <4>1, <5>3
        <5> QED
          BY <5>2, <5>3
      <4> QED
        BY <1>5, <4>3 DEF SleepEnds, Asked
    <3>1. SUFFICES ASSUME back = 0, ahead = 0
                   PROVE  passed + asked = Longer(interval, passed)
      BY <3>0 DEF KeepsTheInterval, Longer
    <3>2. asked = LongSleep(interval - passed)
      <4>1. interval - passed + back - ahead = interval - passed
        BY <1>0, <3>1 DEF Clock
      <4> QED
        BY <1>5, <4>1 DEF SleepEnds, Asked
    <3>3. interval - passed \in Int /\ interval - passed < UINT * MAX_USEC_SLEEP
      <4>1. interval < UINT * MAX_USEC_SLEEP /\ UINT * MAX_USEC_SLEEP \in Nat
        BY TimesAssumption, WordsAssumption DEF Clock
      <4> QED
        BY <1>0, <4>1 DEF Clock
    <3> QED
      BY <1>0, <3>2, <3>3, LongSleepSleeps DEF Longer, Clock
  <2> QED
    BY <2>1, <2>2
<1>6. CASE UNCHANGED vars
  BY <1>6 DEF vars, Clock, Asked, KeepsTheInterval
<1> QED
  BY <1>1, <1>2, <1>3, <1>4, <1>5, <1>6 DEF Next

-----------------------------------------------------------------------------
(* A round that the clock and signals leave alone takes its interval, or as
   long as its work when that is longer (monitorThread.c:101-102), for every
   interval that fits an int and whatever the words' widths. *)
THEOREM IntervalIsKept == Spec => []KeepsTheInterval
<1>1. Inv => KeepsTheInterval
  BY DEF Inv
<1> QED
  BY <1>1, InitInv, StepInv, PTL DEF Spec

(* No round sleeps once its interval is over, nor longer than the clock was set
   back: the unsigned difference never reaches longSleep as a large one
   (monitorThread.c:279-283). *)
THEOREM NothingIsOverslept == Spec => []NeverOversleeps
<1>1. Inv => NeverOversleeps
  <2> SUFFICES ASSUME Inv, pc = "sleeping"
               PROVE  /\ asked >= 0
                      /\ passed >= interval + back => asked = 0
                      /\ passed + asked <= Longer(interval, work) + back
    BY DEF NeverOversleeps
  <2> DEFINE rest == interval - passed + back - ahead
  <2>1. /\ interval \in Nat /\ passed \in Nat /\ back \in Nat /\ ahead \in Nat
        /\ work = passed /\ asked = LongSleep(rest) /\ rest \in Int
    BY TimesAssumption DEF Inv, Clock, Asked
  <2>2. /\ asked \in Nat
        /\ rest <= 0 => asked = 0
        /\ rest > 0 => asked <= rest
    BY <2>1, LongSleepSleeps
  <2> QED
    BY <2>1, <2>2 DEF Longer
<1> QED
  BY <1>1, InitInv, StepInv, PTL DEF Spec
===============================================================================
