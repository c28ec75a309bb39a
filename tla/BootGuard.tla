------------------------------ MODULE BootGuard ------------------------------
(***************************************************************************)
(* The crash guard: a boot counter in NVS that is to take the device out   *)
(* of a crash loop (components/app_common/app_common.c), with the life of  *)
(* the application around it (main/main.c).                                *)
(*                                                                         *)
(* Every start of the application counts itself in; CRASH_GUARD_MAX starts *)
(* that were not counted out roll back to the factory partition.  A timer  *)
(* of five seconds, started when the initialisation succeeded, counts out. *)
(* Meanwhile app_main mounts the card, browses it and runs the emulator.   *)
(* The application leaves by returning to the launcher, which is the       *)
(* factory partition again, or by a crash or a power loss.  The timer      *)
(* runs in another task: it may fire between any two steps.                *)
(***************************************************************************)
EXTENDS Integers

CONSTANTS
  CRASH_GUARD_MAX,
  GRACE,          \* the grace period, in ticks of whatever length
  MAX_ATTEMPTS,   \* max_attempts of odroid_sdcard_open
  Factories,      \* what may be in the factory partition: "app", which is
                  \* this application (partitions_ota.csv), or a "launcher"
  Faults,         \* what may fail: "nvs" (opening the namespace, reading it or
                  \* writing to it), "full" (NVS has no free page and is erased),
                  \* "timer" (its creation), "boot" (naming the boot partition)
  MaxCuts         \* bound: rollbacks in a row that are cut short

ASSUME GuardAssumption ==
  /\ CRASH_GUARD_MAX \in Nat \ {0} /\ GRACE \in Nat \ {0}
  /\ MAX_ATTEMPTS \in Nat \ {0}
  /\ Factories \subseteq {"app", "launcher"}
  /\ Faults \subseteq {"nvs", "full", "timer", "boot"}
  /\ MaxCuts \in Nat

VARIABLES
  phase,     \* "off", "nvs", "guard", "return" (the counter is cleared, the
             \* boot partition not yet named), "init", "sd", "browse", "run",
             \* "launcher"
  factory,   \* what is in the factory partition
  boot,      \* the partition the next reset starts: "app" or "factory"
  boot_cnt,  \* CRASH_GUARD_NVS_KEY
  timer,     \* what crash_clr has left to run, 0 when it does not run
  attempt,   \* the loop of odroid_sdcard_open
  starts,    \* history: starts since the last that was counted out or rolled back
  cuts,      \* history: rollbacks cut short since then, the counter cleared
  faulted    \* history: "no", "yes" when something failed since then, "kept" when
             \* the last attempt to clear the counter for a rollback failed

vars == <<phase, factory, boot, boot_cnt, timer, attempt, starts, cuts, faulted>>

(* After app_init: the initialisation succeeded. *)
Up == {"sd", "browse", "run"}

(* Histories are cut off past the limit. *)
Cap == CRASH_GUARD_MAX * (MaxCuts + 1) + 1
Inc(n) == IF n < Cap THEN n + 1 ELSE n

Faulty == IF faulted = "kept" THEN "kept" ELSE "yes"

TypeOK ==
  /\ phase \in Up \cup {"off", "nvs", "guard", "return", "init", "launcher"}
  /\ factory \in Factories /\ boot \in {"app", "factory"}
  /\ boot_cnt \in 0..CRASH_GUARD_MAX
  /\ timer \in 0..GRACE
  /\ attempt \in 1..MAX_ATTEMPTS
  /\ starts \in 0..Cap /\ cuts \in 0..MaxCuts
  /\ faulted \in {"no", "yes", "kept"}

Init ==
  /\ phase = "off" /\ factory \in Factories /\ boot = "app" /\ boot_cnt = 0
  /\ timer = 0 /\ attempt = 1 /\ starts = 0 /\ cuts = 0 /\ faulted = "no"

------------------------------------------------------------------------------
(* A reset: the bootloader starts what boot names. *)
StartsApp == boot = "app" \/ factory = "app"

PowerOn ==
  /\ phase = "off"
  /\ phase' = IF StartsApp THEN "nvs" ELSE "launcher"
  /\ UNCHANGED <<factory, boot, boot_cnt, timer, attempt, starts, cuts, faulted>>

(* The launcher, which is not in this repository, starts the application. *)
Launch ==
  /\ phase = "launcher"
  /\ phase' = "off" /\ boot' = "app"
  /\ UNCHANGED <<factory, boot_cnt, timer, attempt, starts, cuts, faulted>>

(* nvs_flash_init: NVS that is full or too new is erased, counter and all. *)
InitNvs ==
  /\ phase = "nvs"
  /\ phase' = "guard"
  /\ \/ UNCHANGED <<boot_cnt, faulted>>
     \/ "full" \in Faults /\ boot_cnt' = 0 /\ faulted' = "yes"
  /\ UNCHANGED <<factory, boot, timer, attempt, starts, cuts>>

(* Mutant: the limit is missed by one. *)
TooManyOffByOne == boot_cnt > CRASH_GUARD_MAX
TooMany == boot_cnt >= CRASH_GUARD_MAX

(* Mutant: the counter is left as it is. *)
CountInForgotten == boot_cnt' = boot_cnt
CountIn == boot_cnt' = boot_cnt + 1

(* crash_guard_check: below the limit, one more start is counted in.  The  *)
(* check is skipped when the namespace cannot be opened; a counter that    *)
(* cannot be read counts as 0, one that cannot be written stays, and       *)
(* neither result is looked at.                                            *)
GuardPass ==
  /\ phase = "guard"
  /\ \/ ~TooMany /\ CountIn /\ UNCHANGED faulted
     \/ "nvs" \in Faults /\ UNCHANGED boot_cnt /\ faulted' = Faulty
     \/ "nvs" \in Faults /\ boot_cnt' = 1 /\ faulted' = "yes"
  /\ phase' = "init"
  /\ starts' = Inc(starts)
  /\ UNCHANGED <<factory, boot, timer, attempt, cuts>>

(* Mutant: the counter survives a rollback. *)
ResetOnRollbackForgotten == boot_cnt
ResetOnRollback == 0

(* crash_guard_check at the limit: the counter is reset and committed,     *)
(* which may fail unnoticed.                                               *)
ClearCount ==
  /\ phase = "guard" /\ TooMany
  /\ phase' = "return"
  /\ \/ boot_cnt' = ResetOnRollback /\ faulted' = IF faulted = "kept" THEN "yes" ELSE faulted
     \/ "nvs" \in Faults /\ UNCHANGED boot_cnt /\ faulted' = "kept"
  /\ UNCHANGED <<factory, boot, timer, attempt, starts, cuts>>

(* Then app_return_to_launcher names the factory partition, which may fail *)
(* or find none, and restarts all the same.                                *)
Rollback ==
  /\ phase = "return"
  /\ phase' = "off"
  /\ \/ /\ boot' = "factory" /\ starts' = 0 /\ cuts' = 0
        /\ faulted' = IF faulted = "kept" THEN "kept" ELSE "no"
     \/ "boot" \in Faults /\ UNCHANGED <<boot, starts, cuts>> /\ faulted' = Faulty
  /\ UNCHANGED <<factory, boot_cnt, timer, attempt>>

(* The rest of app_init succeeded: the timer that counts out is started. *)
InitDone ==
  /\ phase = "init"
  /\ phase' = "sd" /\ attempt' = 1
  /\ \/ timer' = GRACE /\ UNCHANGED faulted
     \/ "timer" \in Faults /\ timer' = 0 /\ faulted' = Faulty
  /\ UNCHANGED <<factory, boot, boot_cnt, starts, cuts>>

(* Mutant: the timer deletes itself without clearing the counter. *)
CountOutForgotten == boot_cnt' = boot_cnt
CountOut == boot_cnt' = 0

(* Time passes. *)
Tick ==
  /\ phase \in Up /\ timer > 1
  /\ timer' = timer - 1
  /\ UNCHANGED <<phase, factory, boot, boot_cnt, attempt, starts, cuts, faulted>>

(* crash_guard_timer_cb *)
TimerFires ==
  /\ phase \in Up /\ timer = 1
  /\ timer' = 0
  /\ \/ CountOut /\ starts' = 0 /\ cuts' = 0 /\ faulted' = "no"
     \/ "nvs" \in Faults /\ UNCHANGED <<boot_cnt, starts, cuts>> /\ faulted' = Faulty
  /\ UNCHANGED <<phase, factory, boot, attempt>>

------------------------------------------------------------------------------
(* app_main *)

(* An attempt to mount the card succeeds, and the loop's counter is gone,  *)
(* or fails with another to come.                                          *)
MountCard ==
  /\ phase = "sd"
  /\ \/ phase' = "browse" /\ attempt' = 1
     \/ attempt < MAX_ATTEMPTS /\ attempt' = attempt + 1 /\ UNCHANGED phase
  /\ UNCHANGED <<factory, boot, boot_cnt, timer, starts, cuts, faulted>>

(* A file of a known suffix was selected. *)
Select ==
  /\ phase = "browse"
  /\ phase' = "run"
  /\ UNCHANGED <<factory, boot, boot_cnt, timer, attempt, starts, cuts, faulted>>

(* app_main returns to the launcher: the card did not mount (its last      *)
(* attempt failed or its supply did not come back), nothing was selected   *)
(* or the suffix is unknown, the data files are missing or the user left.  *)
Return ==
  /\ phase \in Up
  /\ phase' = "off"
  /\ boot' = "factory" \/ ("boot" \in Faults /\ boot' = boot)
  /\ timer' = 0
  /\ UNCHANGED <<factory, boot_cnt, attempt, starts, cuts, faulted>>

(* A panic, an ESP_ERROR_CHECK that aborts, a watchdog or a power loss.    *)
(* One that comes between the two writes of a rollback cuts it short.      *)
Crash ==
  /\ phase \in Up \cup {"nvs", "guard", "return", "init"}
  /\ phase = "return" => cuts < MaxCuts
  /\ phase' = "off"
  /\ timer' = 0
  /\ cuts' = IF phase = "return" THEN cuts + 1 ELSE cuts
  /\ UNCHANGED <<factory, boot, boot_cnt, attempt, starts, faulted>>

Next ==
  \/ PowerOn \/ Launch \/ InitNvs \/ GuardPass \/ ClearCount \/ Rollback
  \/ InitDone \/ Tick \/ TimerFires \/ MountCard \/ Select \/ Return \/ Crash

(* The timer service runs, the boot code proceeds, the bootloader boots. *)
Fairness == /\ WF_vars(PowerOn) /\ WF_vars(InitNvs)
            /\ WF_vars(GuardPass \/ ClearCount) /\ WF_vars(Rollback)
            /\ WF_vars(InitDone) /\ WF_vars(Tick \/ TimerFires)

Spec == Init /\ [][Next]_vars /\ Fairness

------------------------------------------------------------------------------
(* Properties *)

(* The application never starts more than CRASH_GUARD_MAX times in a row   *)
(* without having stayed up for the grace period or been rolled back, as   *)
(* long as NVS, the timer and the boot partition's record work, but for    *)
(* this: the code clears the counter before it names the boot partition,   *)
(* and each power loss between the two allows CRASH_GUARD_MAX more.        *)
(* (crash_guard_check, app_common.c:46-70, 182-188)                        *)
CrashLoopIsBroken == faulted = "no" => starts <= CRASH_GUARD_MAX * (1 + cuts)

(* The starts held against the application when a rollback cleared the     *)
(* counter and has not (yet) come to its end.                              *)
Forgotten == CRASH_GUARD_MAX * (cuts + IF phase = "return" THEN 1 ELSE 0)

(* The stored counter is the number of starts not yet counted out, but for *)
(* those forgotten by a rollback that was cut short: no other power loss   *)
(* forgets a start or counts it twice.  After a fault it is so again from  *)
(* the next time it is cleared.  And whatever fails it is never more than  *)
(* the starts there were, so that no device is rolled back that did not    *)
(* start CRASH_GUARD_MAX times in a row; unless a rollback could not clear *)
(* it, which is told by nobody and rolls back the next start as well.      *)
(* (app_common.c:56-70, 72-87, app_init's erase of NVS)                    *)
CounterKeepsCount ==
  /\ faulted # "kept" => boot_cnt <= starts
  /\ faulted = "no" => starts = boot_cnt + Forgotten

(* A start that survives the grace period is forgiven: the application is  *)
(* never up for ever with a counter that still holds it against later      *)
(* starts.  (app_common.c:138-143)                                         *)
HealthyStartIsForgiven == <>[](phase \in Up /\ faulted = "no") => <>[](boot_cnt = 0)

(* A crash before the start was counted out, again and again, while no     *)
(* rollback is cut short and nothing fails any more.                       *)
EarlyCrash == Crash /\ phase \in Up \cup {"init"} /\ starts > 0
CutShort == Crash /\ phase = "return"
CrashLoop == []<><<EarlyCrash>>_vars /\ <>[][~CutShort]_vars /\ <>[](faulted = "no")

(* "rolling back!" (app_common.c:60) and "Returning to launcher..."        *)
(* (app_common.c:180): a crash loop ends in the launcher, from where the   *)
(* application is only started again by the user, or in a healthy start.   *)
CrashLoopEnds ==
  CrashLoop => []<>(phase = "launcher" \/ (phase \in Up /\ timer = 0))

(* A start cannot for ever crash early without being rolled back, or       *)
(* surviving the grace period, again and again; and where a launcher is in *)
(* the factory partition the loop ends.  (app_common.c:59-70)              *)
CrashLoopRollsBack ==
  CrashLoop => /\ []<><<starts > 0 /\ starts' = 0>>_vars
               /\ factory = "launcher" => CrashLoopEnds
==============================================================================
