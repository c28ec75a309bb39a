----------------------------- MODULE MachineClock -----------------------------
(***************************************************************************)
(* The emulated machine's clock, sleep and wake-up: the real-time clock    *)
(* with its alarm and interrupt vectors, the switching off of the CPU's    *)
(* clock, and the warm reset that wakes it.  (cpu_run3 in                  *)
(* components/nc2000/cpu_loop_new.cpp, iv_uart.cpp, the I/O writes of      *)
(* io_new.cpp they depend on, execute in cpu.cpp, and the waking keys of   *)
(* key_new.cpp; nc1020mode, nc2000mode and nc3000mode.)                    *)
(*                                                                         *)
(* cpu_run3 goes round in batches: a due warm reset, then some cycles of   *)
(* the CPU, or as many idle ones while its clock is off, then whatever     *)
(* timers came due.  The firmware may do anything its instructions allow   *)
(* while it runs; keys come between two batches.                           *)
(***************************************************************************)
EXTENDS Integers

CONSTANTS
  Ticks, Seconds, Minutes, Hours,  \* 256, 60, 60, 24
  Sources,   \* the interrupts in use: "alarm", "2hz", "sample"
  MaxSyncs   \* how often the host's time is taken over: 2 on the NC1020, else 1

ASSUME ClockAssumption ==
  /\ Ticks \in Nat \ {0} /\ Seconds \in Nat \ {0}
  /\ Minutes \in Nat \ {0} /\ Hours \in Nat \ {0}
  /\ Ticks % 2 = 0 /\ MaxSyncs \in Nat
  /\ Sources \subseteq {"alarm", "2hz", "sample"}

VARIABLES
  pc,       \* where cpu_run3 is: "begin", "cpu", "timers"
  TR,       \* the clock: TR_ms, TR_s, TR_m, TR_h
  AR,       \* the alarm: AR_s, AR_m, AR_h, Off where its bit 7 is clear
  RCR0,     \* the interrupts enabled
  locked,   \* bit 7 of RCR1
  iv_set,   \* the interrupt vectors put and not deleted
  clk_off,  \* is_clk_off
  do_warm_reset,
  g_irq,    \* an interrupt is pending
  mI,       \* the CPU masks interrupts
  synced    \* how often the host's time was taken over

vars == <<pc, TR, AR, RCR0, locked, iv_set, clk_off, do_warm_reset, g_irq, mI, synced>>
cpu == <<g_irq, mI>>
irq == <<cpu, synced>>   \* what a step mostly leaves alone beside the clock
rtc == <<TR, AR, RCR0, locked>>

Off == -1
Limit == [ms |-> Ticks, s |-> Seconds, m |-> Minutes, h |-> Hours]
Time  == [ms : 0..Ticks-1, s : 0..Seconds-1, m : 0..Minutes-1, h : 0..Hours-1]
Alarm == [s : {Off} \cup 0..Seconds-1, m : {Off} \cup 0..Minutes-1,
          h : {Off} \cup 0..Hours-1]

TypeOK ==
  /\ pc \in {"begin", "cpu", "timers"}
  /\ TR \in Time /\ AR \in Alarm
  /\ RCR0 \subseteq Sources /\ locked \in BOOLEAN
  /\ iv_set \subseteq Sources
  /\ clk_off \in BOOLEAN
  /\ do_warm_reset \in BOOLEAN
  /\ pc = "cpu" => ~do_warm_reset
  /\ g_irq \in BOOLEAN /\ mI \in BOOLEAN
  /\ synced \in 0..MaxSyncs

Init ==
  /\ pc = "begin"
  /\ TR = [ms |-> 0, s |-> 0, m |-> 0, h |-> 0]
  /\ AR = [s |-> Off, m |-> Off, h |-> Off]
  /\ RCR0 = {} /\ locked = FALSE /\ iv_set = {}
  /\ clk_off = FALSE /\ do_warm_reset = FALSE
  /\ g_irq = FALSE /\ mI = TRUE /\ synced = 0

------------------------------------------------------------------------------
(* Mutant: warm_reset_if_clkoff does not look at the clock. *)
WarmResetAlways == TRUE
(* warm_reset_if_clkoff: whether it asks for a reset, or one is due. *)
WarmResetIfClkOff == do_warm_reset \/ clk_off

(* A key of the two first columns, or the NC1020's power key, goes down. *)
WakingKey ==
  /\ pc = "begin"
  /\ do_warm_reset' = WarmResetIfClkOff
  /\ UNCHANGED <<pc, rtc, iv_set, clk_off, irq>>

(* Mutant: the warm reset clears the vectors as the cold one does. *)
AfterResetCleared == {}
(* nc2k_state_warm_reset leaves the vectors and the clock as they are. *)
AfterReset == iv_set

(* The warm reset that is due: the clock is on, the CPU starts anew. *)
WarmReset ==
  /\ pc = "begin" /\ do_warm_reset
  /\ do_warm_reset' = FALSE /\ clk_off' = FALSE
  /\ iv_set' = AfterReset
  /\ g_irq' = FALSE /\ mI' = TRUE
  /\ pc' = "cpu"
  /\ UNCHANGED <<rtc, synced>>

(* sync_time_2000, sync_time_1020: when the firmware's own memory says it  *)
(* has set up its calendar, the host's time is taken over.                 *)
SyncTime ==
  /\ pc = "begin" /\ ~do_warm_reset /\ synced < MaxSyncs
  /\ synced' = synced + 1
  /\ TR' \in [ms : {TR.ms}, s : 0..Seconds-1, m : 0..Minutes-1, h : 0..Hours-1]
  /\ UNCHANGED <<pc, AR, RCR0, locked, iv_set, clk_off, do_warm_reset, cpu>>

(* The clock is off: the cycles pass, nothing is executed. *)
Idle ==
  /\ pc = "begin" /\ ~do_warm_reset /\ clk_off
  /\ pc' = "timers"
  /\ UNCHANGED <<rtc, iv_set, clk_off, do_warm_reset, irq>>

(* The CPU goes on, with a pending interrupt first. *)
Resume ==
  /\ pc = "begin" /\ ~do_warm_reset /\ ~clk_off
  /\ pc' = "cpu"
  /\ IF g_irq /\ ~mI THEN g_irq' = FALSE /\ mI' = TRUE ELSE UNCHANGED cpu
  /\ UNCHANGED <<rtc, iv_set, clk_off, do_warm_reset, synced>>

------------------------------------------------------------------------------
(* What the firmware may do in a batch.  It goes on to the end of the      *)
(* batch even when it switched its clock off.                              *)
Running == pc = "cpu" /\ ~(g_irq /\ ~mI)

TakeIrq ==
  /\ pc = "cpu" /\ g_irq /\ ~mI
  /\ g_irq' = FALSE /\ mI' = TRUE
  /\ UNCHANGED <<pc, rtc, iv_set, clk_off, do_warm_reset, synced>>

(* SEI, CLI, RTI *)
SetMask ==
  /\ Running
  /\ mI' = ~mI
  /\ UNCHANGED <<pc, rtc, iv_set, clk_off, do_warm_reset, g_irq, synced>>

(* 0x05: the bits of cks are all set, or not. *)
SetClock ==
  /\ Running
  /\ clk_off' = ~clk_off
  /\ UNCHANGED <<pc, rtc, iv_set, do_warm_reset, irq>>

(* Writes of 0x3f.  While bit 7 of RCR1 is set those of the registers      *)
(* below 7 are dropped; AR_h is 7.                                         *)
WriteTime ==
  /\ Running /\ ~locked
  /\ \E r \in {"ms", "s", "m", "h"} : TR' \in {[TR EXCEPT ![r] = v] : v \in 0..Limit[r]-1}
  /\ UNCHANGED <<pc, AR, RCR0, locked, iv_set, clk_off, do_warm_reset, irq>>

WriteAlarm ==
  /\ Running
  /\ \E r \in {"s", "m", "h"} :
       /\ locked => r = "h"
       /\ AR' \in {[AR EXCEPT ![r] = v] : v \in {Off} \cup 0..Limit[r]-1}
  /\ UNCHANGED <<pc, TR, RCR0, locked, iv_set, clk_off, do_warm_reset, irq>>

write_rcr0 ==
  /\ Running
  /\ RCR0' \in SUBSET Sources
  /\ UNCHANGED <<pc, TR, AR, locked, iv_set, clk_off, do_warm_reset, irq>>

(* The vectors of the bits set are deleted. *)
write_rcr1 ==
  /\ Running
  /\ iv_set' \in SUBSET iv_set
  /\ locked' \in BOOLEAN
  /\ UNCHANGED <<pc, TR, AR, RCR0, clk_off, do_warm_reset, irq>>

(* The batch's cycles are used up. *)
EndBatch ==
  /\ pc = "cpu"
  /\ pc' = "timers"
  /\ UNCHANGED <<rtc, iv_set, clk_off, do_warm_reset, irq>>

------------------------------------------------------------------------------
(* Mutant: the hour does not wrap into the day. *)
WrapsButHours(r, n) == n = Limit[r] /\ r # "h"
Wraps(r, n) == n = Limit[r]

(* Mutant: the hour is bumped when a minute ends. *)
CarriesEarly(r) ==
  CASE r = "s" -> Wraps("ms", TR.ms + 1)
    [] r = "m" -> Wraps("ms", TR.ms + 1) /\ Wraps("s", TR.s + 1)
    [] r = "h" -> Wraps("ms", TR.ms + 1) /\ Wraps("s", TR.s + 1)
    [] OTHER   -> TRUE
(* bumpRTC: what is bumped when the sub-second counter is.  TR_d, which    *)
(* only counts the days, is left out.                                      *)
Carries(r) ==
  CASE r = "s" -> Wraps("ms", TR.ms + 1)
    [] r = "m" -> Wraps("ms", TR.ms + 1) /\ Wraps("s", TR.s + 1)
    [] r = "h" -> Wraps("ms", TR.ms + 1) /\ Wraps("s", TR.s + 1) /\ Wraps("m", TR.m + 1)
    [] OTHER   -> TRUE
Bumped ==
  [r \in {"ms", "s", "m", "h"} |->
     IF ~Carries(r) THEN TR[r] ELSE IF Wraps(r, TR[r] + 1) THEN 0 ELSE TR[r] + 1]

(* chk_ar: the registers enabled, one at least, match the time. *)
chk_ar(t) ==
  /\ \E r \in {"s", "m", "h"} : AR[r] # Off
  /\ \A r \in {"s", "m", "h"} : AR[r] \in {Off, t[r]}

(* Mutant: the alarm is left out. *)
PutButAlarm(t) == {"2hz"} \cap RCR0
(* The vectors put at time t, the samples apart. *)
Put(t) ==
  {i \in RCR0 : \/ i = "alarm" /\ t.ms = 0 /\ chk_ar(t)
                \/ i = "2hz" /\ t.ms % (Ticks \div 2) = 0}

(* Mutant: only a new vector makes an interrupt pending. *)
PendingNew(old, new) == new \ old # {}
Pending(old, new) == new # {}

(* One of the 256 ticks of a second: the samples come at a rate of their   *)
(* own; while there is a vector an interrupt is made pending again, and a  *)
(* machine whose clock is off is to be reset.  Other timers make           *)
(* interrupts pending too.                                                 *)
Tick ==
  /\ pc = "timers" /\ pc' = "begin"
  /\ TR' = Bumped
  /\ \E sample \in SUBSET (RCR0 \cap {"sample"}) :
       iv_set' = iv_set \cup Put(TR') \cup sample
  /\ g_irq' \in {TRUE, g_irq \/ Pending(iv_set, iv_set')}
  /\ do_warm_reset' = IF iv_set' = {} THEN do_warm_reset ELSE WarmResetIfClkOff
  /\ UNCHANGED <<AR, RCR0, locked, clk_off, mI, synced>>

(* The batch ends before the next tick. *)
NoTick ==
  /\ pc = "timers" /\ pc' = "begin"
  /\ g_irq' \in {TRUE, g_irq}
  /\ UNCHANGED <<rtc, iv_set, clk_off, do_warm_reset, mI, synced>>

Firmware ==
  \/ SetMask \/ SetClock \/ WriteTime \/ WriteAlarm \/ write_rcr0 \/ write_rcr1

Next ==
  \/ WakingKey \/ WarmReset \/ SyncTime \/ Idle \/ Resume \/ TakeIrq \/ Firmware
  \/ EndBatch \/ Tick \/ NoTick

(* RunTimeSlice calls cpu_run3 again and again, a batch has a limit, and   *)
(* the cycles that pass make a tick due every few batches.                 *)
Fairness ==
  /\ WF_vars(WarmReset \/ Idle \/ Resume) /\ WF_vars(EndBatch)
  /\ WF_vars(Tick \/ NoTick) /\ SF_vars(Tick)

Spec == Init /\ [][Next]_vars /\ Fairness

------------------------------------------------------------------------------
(* Properties *)

(* Only a machine whose clock is off is reset: neither a key nor a vector  *)
(* put in a batch restarts a firmware that runs, and none runs between the *)
(* asking for the reset and the reset.                                     *)
(* (cpu_loop_new.cpp:181-186, 248-254)                                     *)
ResetOnlyAsleep == [][WarmReset => clk_off]_vars

(* An alarm that goes off in a sleeping machine makes the firmware run     *)
(* again and is still to be read then: no vector is lost between two runs  *)
(* of the firmware, which could not know of it otherwise: "if this is put  *)
(* into warm_reset, alarm wakeup will not work".                           *)
(* (nc2000.cpp:198-205, 269, cpu_loop_new.cpp:448-492)                     *)
AlarmIsSeen ==
  /\ [][pc # "cpu" => iv_set \subseteq iv_set']_vars
  /\ (clk_off /\ pc = "begin" /\ "alarm" \in iv_set) ~> (pc = "cpu" /\ ~clk_off)

(* A sleeping machine wakes: for the alarm that is set, at the latest when *)
(* its time comes round, for the half-second interrupt, for a vector that  *)
(* was left over.  (cpu_loop_new.cpp:448-492)                              *)
Due == \/ "alarm" \in RCR0 /\ \E r \in {"s", "m", "h"} : AR[r] # Off
       \/ "2hz" \in RCR0
       \/ iv_set # {}
SleeperWakes == (clk_off /\ pc = "begin" /\ Due) ~> ~clk_off

(* The time goes on by one tick at each tick, through the ends of seconds, *)
(* minutes, hours and the day, asleep or awake, and never otherwise but by *)
(* the firmware's writes and the host's time.                              *)
(* (bumpRTC, cpu_loop_new.cpp:121-135)                                     *)
Total(t) == t.ms + Ticks * (t.s + Seconds * (t.m + Minutes * t.h))
TimeGoesOn ==
  [][~WriteTime /\ ~SyncTime =>
       Total(TR') = IF Tick THEN (Total(TR) + 1) % (Ticks * Seconds * Minutes * Hours)
                    ELSE Total(TR)]_vars

(* While a vector is left and the firmware lets interrupts through again   *)
(* and again, it gets them again and again: an interrupt whose vector was  *)
(* not the one the handler looked at is not lost.                          *)
(* (cpu_loop_new.cpp:488-492, cpu.cpp:63-69)                               *)
IrqTaken == g_irq /\ ~mI /\ ~g_irq' /\ mI'
LeftVectorsInterrupt ==
  <>[](iv_set # {} /\ ~clk_off) /\ []<><<EndBatch /\ ~mI>>_vars => []<><<IrqTaken>>_vars
==============================================================================
