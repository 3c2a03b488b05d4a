-------------------------------- MODULE Rounds --------------------------------
(***************************************************************************)
(* How a monitor or the system thread keeps its interval: a round takes    *)
(* the time of day at its start and at its end and sleeps for what is left *)
(* of the interval (monitorThread.c, systemThread.c, longSleep).  The      *)
(* difference is of unsigned words and is read back as a signed one.       *)
(*                                                                         *)
(* The time of day is not the time that passes: it can be set, and a       *)
(* signal can cut a sleep short.                                           *)
(***************************************************************************)
EXTENDS Integers

CONSTANTS
  LONG,             \* a long is -LONG..LONG-1 (2^63), an unsigned long 0..2*LONG-1
  UINT,             \* an unsigned int, as sleep(3) takes it, is 0..UINT-1 (2^32)
  MAX_USEC_SLEEP,   \* microseconds in a second (1000000)
  Intervals,        \* the intervals a user gives, in microseconds
  MAX_WORK,         \* bound: what a round takes at most
  MAX_TIME          \* bound: the time of day, and how long the run is

ASSUME WordsAssumption ==
  /\ LONG \in Nat \ {0} /\ UINT \in Nat \ {0}
  /\ MAX_USEC_SLEEP \in Nat \ {0} /\ MAX_USEC_SLEEP < UINT

(* add keeps an interval in an int before the row has it as an unsigned long:
   its seconds fit an unsigned int. *)
ASSUME TimesAssumption ==
  /\ MAX_WORK \in Nat /\ MAX_TIME \in Nat
  /\ Intervals \subseteq 1..(LONG - 1)
  /\ \A i \in Intervals : i + MAX_TIME < LONG /\ i < UINT * MAX_USEC_SLEEP

VARIABLES
  pc,         \* "top", "working", "sleeping"
  interval,   \* of the thread's row
  day,        \* the time of day
  passed,     \* the time since the start of the round
  startTime,  \* the time of day at the start of the round
  asked,      \* what the thread sleeps at most, once it does
  round,      \* how long the last round was; -1 before the first has ended
  work,       \* how long it worked in that round
  back, ahead,   \* how far the time of day was set back and ahead in the round
  signalled   \* a signal cut the sleep of the last round short

vars == <<pc, interval, day, passed, startTime, asked, round, work, back, ahead,
          signalled>>

-----------------------------------------------------------------------------
(* Unsigned subtraction wraps around; *)
Minus(a, b) == IF a >= b THEN a - b ELSE a - b + 2 * LONG

(* a signed value as an unsigned word, and back. *)
Unsigned(x) == IF x >= 0 THEN x ELSE x + 2 * LONG
Signed(u)   == IF u < LONG THEN u ELSE u - 2 * LONG

(* Mutation of ToSleep: the difference is not read as a signed value. *)
ToSleepUnsigned(sleepTime, start, end) == Minus(sleepTime, Unsigned(end - start))

(* longSleep(sleepTime - offsetTime) *)
ToSleep(sleepTime, start, end) == Signed(Minus(sleepTime, Unsigned(end - start)))

(* Mutation of LongSleep: the rest of a long sleep is left out. *)
LongSleepSeconds(t) ==
  IF t <= 0 THEN 0
  ELSE IF t < MAX_USEC_SLEEP THEN t
  ELSE MAX_USEC_SLEEP * ((t \div MAX_USEC_SLEEP) % UINT)

(* What longSleep sleeps: nothing, or with usleep, or whole seconds with sleep
   and the rest with usleep. *)
LongSleep(t) ==
  IF t <= 0 THEN 0
  ELSE IF t < MAX_USEC_SLEEP THEN t
  ELSE MAX_USEC_SLEEP * ((t \div MAX_USEC_SLEEP) % UINT) + (t % MAX_USEC_SLEEP)

-----------------------------------------------------------------------------
Init ==
  /\ pc = "top"
  /\ interval \in Intervals
  /\ day \in 0..MAX_TIME
  /\ passed = 0 /\ startTime = 0 /\ asked = 0
  /\ round = -1 /\ work = 0
  /\ back = 0 /\ ahead = 0
  /\ signalled = FALSE

(* The round starts. *)
RoundStarts ==
  /\ pc = "top"
  /\ pc' = "working"
  /\ startTime' = day
  /\ passed' = 0 /\ back' = 0 /\ ahead' = 0
  /\ UNCHANGED <<interval, day, asked, round, work, signalled>>

(* Time passes in the round's work: locks, open, print, waitpid. *)
Works ==
  /\ pc = "working"
  /\ passed < MAX_WORK /\ day < MAX_TIME
  /\ passed' = passed + 1 /\ day' = day + 1
  /\ UNCHANGED <<pc, interval, startTime, asked, round, work, back, ahead, signalled>>

(* The time of day is set, back or ahead. *)
DaySet(d) ==
  /\ pc = "working"
  /\ day' = d
  /\ IF d < day THEN back' = back + (day - d) /\ UNCHANGED ahead
                ELSE ahead' = ahead + (d - day) /\ UNCHANGED back
  /\ d # day /\ back' <= MAX_TIME /\ ahead' <= MAX_TIME
  /\ UNCHANGED <<pc, interval, passed, startTime, asked, round, work, signalled>>

(* The round's work is done: how long to sleep? *)
WorkEnds ==
  /\ pc = "working"
  /\ asked' = LongSleep(ToSleep(interval, startTime, day))
  /\ work' = passed
  /\ pc' = "sleeping"
  /\ UNCHANGED <<interval, day, passed, startTime, round, back, ahead, signalled>>

(* The sleep ends, with a signal before its time (EINTR).  No one looks at the
   time of day before the next round, which may find any. *)
SleepEnds(slept) ==
  /\ pc = "sleeping"
  /\ slept <= asked
  /\ round' = passed + slept
  /\ signalled' = (slept < asked)
  /\ day' \in 0..MAX_TIME
  /\ pc' = "top"
  /\ UNCHANGED <<interval, passed, startTime, asked, work, back, ahead>>

Next ==
  \/ RoundStarts \/ Works \/ WorkEnds
  \/ \E d \in 0..MAX_TIME : DaySet(d)
  \/ \E slept \in 0..asked : SleepEnds(slept)

Spec == Init /\ [][Next]_vars

-----------------------------------------------------------------------------
Longer(a, b) == IF a >= b THEN a ELSE b

(* A round whose clock was not set and whose sleep was not cut short takes the
   interval, or as long as its work takes when that is longer: the time for the
   locks is not added to the interval (monitorThread.c:101-102). *)
KeepsTheInterval ==
  pc = "top" /\ round >= 0 /\ back = 0 /\ ahead = 0 /\ ~signalled
    => round = Longer(interval, work)

(* A round that is longer than its interval sleeps not at all, and not for the
   half of for ever that an unsigned difference would be; a clock that is set
   back adds to the sleep what it was set back, and no more
   (monitorThread.c:279-283, logLibrary.c:111-113). *)
NeverOversleeps ==
  pc = "sleeping" =>
    /\ asked >= 0
    /\ passed >= interval + back => asked = 0
    /\ passed + asked <= Longer(interval, work) + back
=============================================================================
