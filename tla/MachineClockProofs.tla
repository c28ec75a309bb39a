------------------------- MODULE MachineClockProofs -------------------------
(***************************************************************************)
(* Proofs about the machine's clock, for every length of its seconds,      *)
(* minutes, hours and days and every set of interrupts.                    *)
(***************************************************************************)
EXTENDS MachineClock, TLAPS

(* A reset is only asked for while the clock is off, and nothing switches  *)
(* it on before the reset: the inductive invariant behind ResetOnlyAsleep. *)
ResetMeansAsleep == do_warm_reset = TRUE => clk_off = TRUE /\ pc # "cpu"

(* It survives every step. *)
LEMMA StepResetMeansAsleep ==
  ResetMeansAsleep /\ [Next]_vars => ResetMeansAsleep'
<1> SUFFICES ASSUME ResetMeansAsleep, [Next]_vars PROVE ResetMeansAsleep'
  OBVIOUS
<1> USE DEF ResetMeansAsleep
<1>1. CASE WakingKey
  BY <1>1 DEF WakingKey, WarmResetIfClkOff
<1>2. CASE WarmReset
  BY <1>2 DEF WarmReset
<1>3. CASE SyncTime \/ Idle
  BY <1>3 DEF SyncTime, Idle, irq
<1>4. CASE Resume
  BY <1>4 DEF Resume
<1>5. CASE TakeIrq \/ Firmware
  BY <1>5 DEF TakeIrq, Firmware, Running, SetMask, SetClock, WriteTime, WriteAlarm,
              write_rcr0, write_rcr1, irq
<1>6. CASE EndBatch \/ NoTick
  BY <1>6 DEF EndBatch, NoTick
<1>7. CASE Tick
  BY <1>7 DEF Tick, WarmResetIfClkOff
<1>8. CASE UNCHANGED vars
  BY <1>8 DEF vars
<1> QED
  BY <1>1, <1>2, <1>3, <1>4, <1>5, <1>6, <1>7, <1>8 DEF Next

(* No firmware that runs is ever reset: a warm reset finds the clock off. *)
THEOREM RunningIsNeverReset == Spec => ResetOnlyAsleep
<1>1. Init => ResetMeansAsleep
  BY DEF Init, ResetMeansAsleep
<1>2. ResetMeansAsleep /\ [Next]_vars => [WarmReset => clk_off]_vars
  BY DEF ResetMeansAsleep, WarmReset
<1> QED
  BY <1>1, <1>2, StepResetMeansAsleep, PTL DEF Spec, ResetOnlyAsleep

------------------------------------------------------------------------------
(* A bumped clock is a clock. *)
LEMMA BumpedType == ASSUME TR \in Time PROVE Bumped \in Time
<1> USE ClockAssumption DEF Time, Limit
<1>1. \A r \in {"ms", "s", "m", "h"} : Bumped[r] \in 0..Limit[r]-1
  BY DEF Bumped, Wraps
<1>2. Bumped = [ms |-> Bumped.ms, s |-> Bumped.s, m |-> Bumped.m, h |-> Bumped.h]
  BY DEF Bumped
<1> QED BY <1>1, <1>2

LEMMA TypeStep == TypeOK /\ [Next]_vars => TypeOK'
<1> USE ClockAssumption DEF TypeOK, irq, cpu, rtc
<1> SUFFICES ASSUME TypeOK, [Next]_vars PROVE TypeOK'
  OBVIOUS
<1>1. CASE WakingKey
  BY <1>1 DEF WakingKey, WarmResetIfClkOff
<1>2. CASE WarmReset
  BY <1>2 DEF WarmReset, AfterReset
<1>3. CASE SyncTime
  BY <1>3 DEF SyncTime, Time
<1>4. CASE Idle
  BY <1>4 DEF Idle
<1>5. CASE Resume
  BY <1>5 DEF Resume
<1>6. CASE TakeIrq
  BY <1>6 DEF TakeIrq
<1>7. CASE SetMask
  BY <1>7 DEF SetMask, Running
<1>8. CASE SetClock
  BY <1>8 DEF SetClock, Running
<1>9. CASE WriteTime
  BY <1>9 DEF WriteTime, Running, Time, Alarm, Limit
<1>10. CASE WriteAlarm
  BY <1>10 DEF WriteAlarm, Running, Time, Alarm, Limit
<1>11. CASE write_rcr0
  BY <1>11 DEF write_rcr0, Running
<1>12. CASE write_rcr1
  BY <1>12 DEF write_rcr1, Running
<1>13. CASE EndBatch
  BY <1>13 DEF EndBatch
<1>14. CASE Tick
  <2>1. TR' \in Time /\ iv_set' \subseteq Sources
    BY <1>14, BumpedType DEF Tick, Put
  <2>2. g_irq' \in BOOLEAN /\ do_warm_reset' \in BOOLEAN
    BY <1>14, Zenon DEF Tick, Pending, WarmResetIfClkOff
  <2> QED BY <1>14, <2>1, <2>2 DEF Tick
<1>15. CASE NoTick
  BY <1>15 DEF NoTick
<1>16. CASE UNCHANGED vars
  BY <1>16 DEF vars
<1> QED
  BY <1>1, <1>2, <1>3, <1>4, <1>5, <1>6, <1>7, <1>8, <1>9, <1>10, <1>11, <1>12, <1>13, <1>14, <1>15, <1>16 DEF Next, Firmware

(* Every variable keeps its type: the clock shows a legal time at every    *)
(* moment, whatever legal one the firmware or the host writes.             *)
THEOREM TypeCorrect == Spec => []TypeOK
<1>1. Init => TypeOK
  <2> SUFFICES ASSUME Init PROVE TypeOK
    OBVIOUS
  <2>1. 0 \in 0..Ticks-1 /\ 0 \in 0..Seconds-1 /\ 0 \in 0..Minutes-1 /\ 0 \in 0..Hours-1
    BY ClockAssumption
  <2>2. TR \in Time
    BY <2>1 DEF Init, Time
  <2>3. AR \in Alarm
    BY DEF Init, Alarm, Off
  <2>4. synced \in 0..MaxSyncs
    BY ClockAssumption DEF Init
  <2> QED BY <2>2, <2>3, <2>4, Zenon DEF Init, TypeOK
<1> QED
  BY <1>1, TypeStep, PTL DEF Spec

------------------------------------------------------------------------------
(* Counting with two digits, x below a and y below b: the next number has  *)
(* the next x, and the next y when x comes round.                          *)
Two(x, a, y) == x + a * y
Size(a, b)   == a * b
Up(x, a)     == IF x + 1 = a THEN 0 ELSE x + 1
Over(x, a, y, b) == IF x + 1 = a THEN (y + 1) % b ELSE y

LEMMA Digits ==
  ASSUME NEW a \in Nat \ {0}, NEW b \in Nat \ {0}, NEW x \in 0..a-1, NEW y \in 0..b-1
  PROVE  Two(x, a, y) \in 0..Size(a, b)-1 /\ Size(a, b) \in Nat \ {0}
<1>1. a * y \in Nat /\ a * b \in Nat
  OBVIOUS
<1>2. a * y <= a * (b - 1)
  OBVIOUS
<1>3. a * (b - 1) = a * b - a
  OBVIOUS
<1> QED BY <1>1, <1>2, <1>3 DEF Two, Size

LEMMA Count ==
  ASSUME NEW a \in Nat \ {0}, NEW b \in Nat \ {0}, NEW x \in 0..a-1, NEW y \in 0..b-1
  PROVE  Two(Up(x, a), a, Over(x, a, y, b)) = (Two(x, a, y) + 1) % Size(a, b)
<1> USE DEF Two, Size, Up, Over
<1> DEFINE nx == Up(x, a)
           ny == Over(x, a, y, b)
           n == x + a * y + 1
           m == a * b
<1>1. a * y \in Nat /\ m \in Nat \ {0}
  OBVIOUS
<1>2. n \in 1..m
  BY Digits, <1>1
<1>3. n < m => n % m = n
  BY <1>1, <1>2
<1>4. m % m = 0
  BY <1>1
<1>5. CASE x + 1 < a
  <2>1. nx = x + 1 /\ ny = y
    BY <1>5
  <2>2. a * y <= a * (b - 1)
    OBVIOUS
  <2>3. a * (b - 1) = m - a
    OBVIOUS
  <2>4. n < m
    BY <1>1, <1>5, <2>2, <2>3
  <2> QED BY <1>3, <2>1, <2>4, <1>1
<1>6. CASE x + 1 = a /\ y + 1 < b
  <2>1. (y + 1) % b = y + 1
    BY <1>6
  <2>2. a * (y + 1) = a * y + a
    OBVIOUS
  <2>3. a * (y + 1) <= a * (b - 1)
    BY <1>6
  <2>4. a * (b - 1) = m - a
    OBVIOUS
  <2>5. n = a * (y + 1) /\ n < m
    BY <1>1, <1>6, <2>2, <2>3, <2>4
  <2>6. nx + a * ny = n
    BY <1>6, <2>1, <2>5
  <2> QED BY <1>3, <2>5, <2>6
<1>7. CASE x + 1 = a /\ y + 1 = b
  <2>1. (y + 1) % b = 0
    BY <1>7
  <2>2. nx + a * ny = 0
    BY <1>7, <2>1
  <2>3. a * (y + 1) = a * y + a
    OBVIOUS
  <2>4. n = m
    BY <1>1, <1>7, <2>3
  <2> QED BY <1>4, <2>2, <2>4
<1> QED BY <1>5, <1>6, <1>7

(* A tick counts the whole clock up by one. *)
LEMMA TickCounts ==
  ASSUME TR \in Time, TR' = Bumped
  PROVE  Total(TR') = (Total(TR) + 1) % (Ticks * Seconds * Minutes * Hours)
<1> DEFINE y1  == Two(TR.m, Minutes, TR.h)
           ny1 == Two(TR'.m, Minutes, TR'.h)
           b1  == Size(Minutes, Hours)
           y0  == Two(TR.s, Seconds, y1)
           ny0 == Two(TR'.s, Seconds, ny1)
           b0  == Size(Seconds, b1)
           c1  == TR.ms + 1 = Ticks
           c2  == c1 /\ TR.s + 1 = Seconds
           c3  == c2 /\ TR.m + 1 = Minutes
<1>1. /\ Ticks \in Nat \ {0} /\ Seconds \in Nat \ {0}
      /\ Minutes \in Nat \ {0} /\ Hours \in Nat \ {0}
  BY ClockAssumption
<1>2. /\ TR.ms \in 0..Ticks-1 /\ TR.s \in 0..Seconds-1
      /\ TR.m \in 0..Minutes-1 /\ TR.h \in 0..Hours-1
  BY DEF Time
<1>3. /\ TR'.ms = IF c1 THEN 0 ELSE TR.ms + 1
      /\ TR'.s = IF c1 THEN (IF c2 THEN 0 ELSE TR.s + 1) ELSE TR.s
      /\ TR'.m = IF c2 THEN (IF c3 THEN 0 ELSE TR.m + 1) ELSE TR.m
      /\ TR'.h = IF c3 THEN (IF TR.h + 1 = Hours THEN 0 ELSE TR.h + 1) ELSE TR.h
  BY <1>1, <1>2 DEF Bumped, Carries, Wraps, Limit
<1>4. \A n \in 0..Hours-1 : (IF n + 1 = Hours THEN 0 ELSE n + 1) = (n + 1) % Hours
  BY <1>1
<1>5. y1 \in 0..b1-1 /\ b1 \in Nat \ {0}
  BY <1>1, <1>2, Digits
<1>6. ny1 = IF c2 THEN (y1 + 1) % b1 ELSE y1
  <2>1. CASE c2
    <3>1. TR'.m = Up(TR.m, Minutes)
      BY <1>3, <2>1 DEF Up
    <3>2. TR'.h = Over(TR.m, Minutes, TR.h, Hours)
      BY <1>2, <1>3, <1>4, <2>1 DEF Over
    <3>3. Two(Up(TR.m, Minutes), Minutes, Over(TR.m, Minutes, TR.h, Hours))
            = (Two(TR.m, Minutes, TR.h) + 1) % Size(Minutes, Hours)
      BY <1>1, <1>2, Count
    <3> QED BY <2>1, <3>1, <3>2, <3>3
  <2>2. CASE ~c2
    BY <1>3, <2>2
  <2> QED BY <2>1, <2>2
<1>7. y0 \in 0..b0-1 /\ b0 \in Nat \ {0}
  <2> HIDE DEF y1, b1
  <2> QED BY <1>1, <1>2, <1>5, Digits
<1>8. ny0 = IF c1 THEN (y0 + 1) % b0 ELSE y0
  <2> HIDE DEF y1, ny1, b1
  <2>1. CASE c1
    <3>1. TR'.s = Up(TR.s, Seconds)
      BY <1>3, <2>1 DEF Up
    <3>2. ny1 = Over(TR.s, Seconds, y1, b1)
      BY <1>6, <2>1 DEF Over
    <3>3. Two(Up(TR.s, Seconds), Seconds, Over(TR.s, Seconds, y1, b1))
            = (Two(TR.s, Seconds, y1) + 1) % Size(Seconds, b1)
      BY <1>1, <1>2, <1>5, Count
    <3> QED BY <2>1, <3>1, <3>2, <3>3
  <2>2. CASE ~c1
    BY <1>3, <1>6, <2>2
  <2> QED BY <2>1, <2>2
<1>9. Two(TR'.ms, Ticks, ny0) = (Two(TR.ms, Ticks, y0) + 1) % Size(Ticks, b0)
  <2> HIDE DEF y0, ny0, b0
  <2>1. TR'.ms = Up(TR.ms, Ticks)
    BY <1>3 DEF Up
  <2>2. ny0 = Over(TR.ms, Ticks, y0, b0)
    BY <1>8 DEF Over
  <2>3. Two(Up(TR.ms, Ticks), Ticks, Over(TR.ms, Ticks, y0, b0))
          = (Two(TR.ms, Ticks, y0) + 1) % Size(Ticks, b0)
    BY <1>1, <1>2, <1>7, Count
  <2> QED BY <2>1, <2>2, <2>3
<1>10. Size(Ticks, b0) = Ticks * Seconds * Minutes * Hours
  BY <1>1 DEF Size
<1>11. Total(TR) = Two(TR.ms, Ticks, y0) /\ Total(TR') = Two(TR'.ms, Ticks, ny0)
  BY DEF Total, Two
<1> QED BY <1>9, <1>10, <1>11, Zenon

(* Through every carry a tick adds one to the time of the day, and nothing *)
(* else but a write of the firmware or the host's time touches it.         *)
THEOREM TimeCounts == Spec => TimeGoesOn
<1> DEFINE Step == ~WriteTime /\ ~SyncTime =>
              Total(TR') = IF Tick THEN (Total(TR) + 1) % (Ticks * Seconds * Minutes * Hours)
                           ELSE Total(TR)
<1>1. TypeOK /\ [Next]_vars => [Step]_vars
  <2> SUFFICES ASSUME TypeOK, Next, ~WriteTime, ~SyncTime PROVE Step
    OBVIOUS
  <2>1. CASE Tick
    BY <2>1, TickCounts DEF Tick, TypeOK
  <2>2. ASSUME ~Tick PROVE TR' = TR
    BY <2>2 DEF Next, Firmware, WakingKey, WarmReset, Idle, Resume, TakeIrq, SetMask, SetClock,
       WriteAlarm, write_rcr0, write_rcr1, EndBatch, NoTick, rtc
  <2> QED BY <2>1, <2>2
<1> QED BY TypeCorrect, <1>1, PTL DEF Spec, TimeGoesOn
==============================================================================
