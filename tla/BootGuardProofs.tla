--------------------------- MODULE BootGuardProofs ---------------------------
(***************************************************************************)
(* Proofs about the crash guard, for every limit, grace period and number  *)
(* of mount attempts, and about the file browser, for every card, screen   *)
(* and length of the list.                                                 *)
(***************************************************************************)
EXTENDS AppLife, FiniteSetTheorems, SequenceTheorems, TLAPS

(* The products with the limit that the histories are bounded by. *)
LEMMA Products ==
  ASSUME NEW k \in 0..MaxCuts
  PROVE  /\ CRASH_GUARD_MAX * k \in Nat
         /\ CRASH_GUARD_MAX * (k + 1) = CRASH_GUARD_MAX * k + CRASH_GUARD_MAX
         /\ CRASH_GUARD_MAX * (k + 1) < Cap
         /\ CRASH_GUARD_MAX < Cap /\ Cap \in Nat
<1> DEFINE c == CRASH_GUARD_MAX
<1>1. c \in Nat /\ k \in Nat /\ MaxCuts \in Nat
  BY GuardAssumption
<1>2. PICK d \in Nat : MaxCuts = k + d
  <2>1. MaxCuts - k \in Nat /\ MaxCuts = k + (MaxCuts - k)
    BY <1>1
  <2> QED BY <2>1
<1>3. c * k \in Nat /\ c * d \in Nat
  BY <1>1, <1>2
<1>4. c * (k + 1) = c * k + c /\ c * (MaxCuts + 1) = c * k + c * d + c
  BY <1>1, <1>2
<1> QED BY <1>1, <1>3, <1>4 DEF Cap

(* The counter, the histories and the rest keep their types. *)
THEOREM TypeCorrect == Spec => []TypeOK
<1>1. Cap \in Nat /\ 0 \in 0..MaxCuts
  BY GuardAssumption, Products
<1>2. Init => TypeOK
  BY <1>1, GuardAssumption DEF Init, TypeOK, Up
<1>3. TypeOK /\ [Next]_vars => TypeOK'
  <2> SUFFICES ASSUME TypeOK, [Next]_vars PROVE TypeOK'
    OBVIOUS
  <2> USE <1>1, GuardAssumption DEF TypeOK, Up
  <2>1. CASE PowerOn
    BY <2>1 DEF PowerOn, StartsApp
  <2>2. CASE Launch
    BY <2>2 DEF Launch
  <2>3. CASE InitNvs
    BY <2>3 DEF InitNvs
  <2>4. CASE GuardPass
    BY <2>4 DEF GuardPass, CountIn, TooMany, Inc, Faulty
  <2>5. CASE ClearCount
    BY <2>5 DEF ClearCount, ResetOnRollback
  <2>6. CASE Rollback
    BY <2>6 DEF Rollback, Faulty
  <2>7. CASE InitDone
    BY <2>7 DEF InitDone, Faulty
  <2>8. CASE Tick
    BY <2>8 DEF Tick
  <2>9. CASE TimerFires
    BY <2>9 DEF TimerFires, CountOut, Faulty
  <2>10. CASE MountCard
    BY <2>10 DEF MountCard
  <2>11. CASE Select
    BY <2>11 DEF Select
  <2>12. CASE Return
    BY <2>12 DEF Return
  <2>13. CASE Crash
    BY <2>13 DEF Crash
  <2>14. CASE UNCHANGED vars
    BY <2>14 DEF vars
  <2> QED
    BY <2>1, <2>2, <2>3, <2>4, <2>5, <2>6, <2>7, <2>8, <2>9, <2>10, <2>11,
       <2>12, <2>13, <2>14 DEF Next
<1> QED
  BY <1>2, <1>3, PTL DEF Spec

(* On the way back to the launcher the counter is cleared, unless clearing *)
(* it failed: without this a rollback could end with a counter that holds  *)
(* starts nobody made.                                                     *)
ClearedOnReturn == phase = "return" /\ faulted # "kept" => boot_cnt = 0

GuardInv == TypeOK /\ CounterKeepsCount /\ ClearedOnReturn

(* What a step does to the starts that cleared counters no longer hold. *)
LEMMA ForgottenMoves ==
  ASSUME TypeOK
  PROVE  /\ Forgotten \in Nat
         /\ phase # "return" => Forgotten = CRASH_GUARD_MAX * cuts
         /\ phase = "return" => Forgotten = CRASH_GUARD_MAX * cuts + CRASH_GUARD_MAX
         /\ phase # "return" => Forgotten + CRASH_GUARD_MAX < Cap
         /\ phase' = "return" /\ cuts' = cuts => Forgotten' = CRASH_GUARD_MAX * cuts + CRASH_GUARD_MAX
         /\ phase' # "return" /\ cuts' = cuts => Forgotten' = CRASH_GUARD_MAX * cuts
         /\ phase' # "return" /\ cuts' = cuts + 1 => Forgotten' = CRASH_GUARD_MAX * cuts + CRASH_GUARD_MAX
         /\ phase' # "return" /\ cuts' = 0 => Forgotten' = 0
<1> DEFINE m == CRASH_GUARD_MAX * cuts  n == CRASH_GUARD_MAX * (cuts + 1)
<1>1. cuts \in 0..MaxCuts /\ cuts \in Nat /\ CRASH_GUARD_MAX \in Nat
  BY GuardAssumption DEF TypeOK
<1>2. m \in Nat /\ n = m + CRASH_GUARD_MAX /\ n < Cap
  BY <1>1, Products
<1>3. CRASH_GUARD_MAX * (cuts + 0) = m /\ CRASH_GUARD_MAX * (0 + 0) = 0
      /\ CRASH_GUARD_MAX * ((cuts + 1) + 0) = n
  BY <1>1
<1>4. Forgotten = IF phase = "return" THEN n ELSE m
  BY <1>3 DEF Forgotten
<1>5. /\ phase' = "return" /\ cuts' = cuts => Forgotten' = n
      /\ phase' # "return" /\ cuts' = cuts => Forgotten' = m
      /\ phase' # "return" /\ cuts' = cuts + 1 => Forgotten' = n
      /\ phase' # "return" /\ cuts' = 0 => Forgotten' = 0
  BY <1>3 DEF Forgotten
<1> HIDE DEF m, n
<1>6. n \in Nat /\ m + CRASH_GUARD_MAX < Cap
  BY <1>1, <1>2
<1> QED BY <1>1, <1>2, <1>4, <1>5, <1>6 DEF m

(* A step that touches neither the counter nor the histories, and does not *)
(* enter or leave a rollback, keeps the count.                             *)
LEMMA RestKeepsCount ==
  ASSUME GuardInv, UNCHANGED <<boot_cnt, starts, cuts>>, faulted' \in {faulted, Faulty},
         phase # "return", phase' # "return"
  PROVE  CounterKeepsCount' /\ ClearedOnReturn'
<1>1. Forgotten' = Forgotten
  BY ForgottenMoves DEF GuardInv
<1>2. faulted' = "no" => faulted = "no"
  BY DEF Faulty
<1>3. faulted' # "kept" => faulted # "kept"
  BY DEF Faulty
<1> QED BY <1>1, <1>2, <1>3 DEF GuardInv, CounterKeepsCount, ClearedOnReturn

LEMMA PassKeepsCount == GuardInv /\ GuardPass => CounterKeepsCount' /\ ClearedOnReturn'
<1> SUFFICES ASSUME GuardInv, GuardPass PROVE CounterKeepsCount' /\ ClearedOnReturn'
  OBVIOUS
<1>1. /\ phase # "return" /\ phase' # "return" /\ Forgotten' = Forgotten
      /\ Forgotten \in Nat /\ Forgotten + CRASH_GUARD_MAX < Cap
  BY ForgottenMoves DEF GuardInv, GuardPass
<1>2. /\ boot_cnt \in 0..CRASH_GUARD_MAX /\ starts \in 0..Cap
      /\ CRASH_GUARD_MAX \in Nat \ {0} /\ CRASH_GUARD_MAX < Cap /\ Cap \in Nat
  BY GuardAssumption, Products DEF GuardInv, TypeOK
<1>3. /\ starts' \in Nat /\ starts <= starts' /\ 1 <= starts'
      /\ starts < Cap => starts' = starts + 1
      /\ ~(starts < Cap) => starts' = Cap
  BY <1>2 DEF GuardPass, Inc
<1>4. CASE ~TooMany /\ CountIn /\ UNCHANGED faulted
  <2>1. boot_cnt' = boot_cnt + 1 /\ boot_cnt + 1 <= CRASH_GUARD_MAX
    BY <1>2, <1>4 DEF TooMany, CountIn
  <2>2. faulted # "kept" => boot_cnt' <= starts'
    BY <1>2, <1>3, <2>1 DEF GuardInv, CounterKeepsCount
  <2>3. faulted = "no" => starts' = boot_cnt' + Forgotten
    <3> SUFFICES ASSUME faulted = "no" PROVE starts' = boot_cnt' + Forgotten
      OBVIOUS
    <3>1. starts = boot_cnt + Forgotten
      BY DEF GuardInv, CounterKeepsCount
    <3>2. starts < Cap
      BY <1>1, <1>2, <2>1, <3>1
    <3> QED BY <1>1, <1>2, <1>3, <2>1, <3>1, <3>2
  <2> QED BY <1>1, <1>4, <2>2, <2>3 DEF CounterKeepsCount, ClearedOnReturn
<1>5. CASE boot_cnt' = boot_cnt /\ faulted' = Faulty
  <2>1. faulted' # "no" /\ (faulted' # "kept" => faulted # "kept")
    BY <1>5 DEF Faulty
  <2>2. faulted # "kept" => boot_cnt <= starts'
    BY <1>2, <1>3 DEF GuardInv, CounterKeepsCount
  <2> QED BY <1>1, <1>5, <2>1, <2>2 DEF CounterKeepsCount, ClearedOnReturn
<1>6. CASE boot_cnt' = 1 /\ faulted' = "yes"
  BY <1>1, <1>3, <1>6 DEF CounterKeepsCount, ClearedOnReturn
<1> QED BY <1>4, <1>5, <1>6 DEF GuardPass

LEMMA ClearKeepsCount == GuardInv /\ ClearCount => CounterKeepsCount' /\ ClearedOnReturn'
<1> SUFFICES ASSUME GuardInv, ClearCount PROVE CounterKeepsCount' /\ ClearedOnReturn'
  OBVIOUS
<1>1. /\ Forgotten \in Nat /\ Forgotten' = Forgotten + CRASH_GUARD_MAX
      /\ starts' = starts /\ starts \in Nat
  <2>1. phase # "return" /\ phase' = "return" /\ cuts' = cuts /\ starts' = starts
    BY DEF ClearCount
  <2>2. Cap \in Nat
    BY GuardAssumption, Products DEF GuardInv, TypeOK
  <2> QED BY <2>1, <2>2, ForgottenMoves DEF GuardInv, TypeOK
<1>2. boot_cnt = CRASH_GUARD_MAX /\ CRASH_GUARD_MAX \in Nat
  BY GuardAssumption DEF GuardInv, TypeOK, ClearCount, TooMany
<1>3. CASE boot_cnt' = 0 /\ faulted' = IF faulted = "kept" THEN "yes" ELSE faulted
  BY <1>1, <1>2, <1>3 DEF GuardInv, CounterKeepsCount, ClearedOnReturn
<1>4. CASE faulted' = "kept"
  BY <1>4 DEF CounterKeepsCount, ClearedOnReturn
<1> QED BY <1>3, <1>4 DEF ClearCount, ResetOnRollback

LEMMA RollbackKeepsCount == GuardInv /\ Rollback => CounterKeepsCount' /\ ClearedOnReturn'
<1> SUFFICES ASSUME GuardInv, Rollback PROVE CounterKeepsCount' /\ ClearedOnReturn'
  OBVIOUS
<1>1. /\ phase = "return" /\ phase' = "off" /\ boot_cnt' = boot_cnt
      /\ faulted # "kept" => boot_cnt = 0
  BY DEF Rollback, GuardInv, ClearedOnReturn
<1>2. CASE starts' = 0 /\ cuts' = 0 /\ faulted' = IF faulted = "kept" THEN "kept" ELSE "no"
  <2>1. Forgotten' = 0
    BY <1>1, <1>2, ForgottenMoves DEF GuardInv
  <2> QED BY <1>1, <1>2, <2>1 DEF CounterKeepsCount, ClearedOnReturn
<1>3. CASE UNCHANGED starts /\ faulted' = Faulty
  <2>1. faulted' # "no" /\ (faulted' # "kept" => faulted # "kept")
    BY <1>3 DEF Faulty
  <2> QED BY <1>1, <1>3, <2>1 DEF GuardInv, CounterKeepsCount, ClearedOnReturn
<1> QED BY <1>2, <1>3 DEF Rollback

LEMMA CrashKeepsCount == GuardInv /\ Crash => CounterKeepsCount' /\ ClearedOnReturn'
<1> SUFFICES ASSUME GuardInv, Crash PROVE CounterKeepsCount' /\ ClearedOnReturn'
  OBVIOUS
<1>1. phase' = "off" /\ UNCHANGED <<boot_cnt, starts, faulted>>
  BY DEF Crash
<1>2. Forgotten' = Forgotten
  <2>1. CASE phase = "return"
    BY <1>1, <2>1, ForgottenMoves DEF GuardInv, Crash
  <2>2. CASE phase # "return"
    BY <1>1, <2>2, ForgottenMoves DEF GuardInv, Crash
  <2> QED BY <2>1, <2>2
<1> QED BY <1>1, <1>2 DEF GuardInv, CounterKeepsCount, ClearedOnReturn

(* A counter that is cleared with the histories keeps the count; so does   *)
(* one that is erased, which is a fault.                                   *)
LEMMA ClearingKeepsCount ==
  ASSUME GuardInv, boot_cnt' = 0, phase' # "return",
         \/ starts' = 0 /\ cuts' = 0 /\ faulted' = "no"
         \/ starts' = starts /\ faulted' = "yes"
  PROVE  CounterKeepsCount' /\ ClearedOnReturn'
<1>1. CASE starts' = 0 /\ cuts' = 0
  <2>1. Forgotten' = 0
    BY <1>1, ForgottenMoves DEF GuardInv
  <2> QED BY <1>1, <2>1 DEF CounterKeepsCount, ClearedOnReturn
<1>2. CASE starts' = starts /\ faulted' = "yes"
  <2>1. starts \in Nat
    BY GuardAssumption, Products DEF GuardInv, TypeOK
  <2> QED BY <1>2, <2>1 DEF CounterKeepsCount, ClearedOnReturn
<1> QED BY <1>1, <1>2

LEMMA StepKeepsCount == GuardInv /\ [Next]_vars => CounterKeepsCount' /\ ClearedOnReturn'
<1> SUFFICES ASSUME GuardInv, [Next]_vars PROVE CounterKeepsCount' /\ ClearedOnReturn'
  OBVIOUS
<1>1. CASE InitNvs
  <2>1. CASE UNCHANGED <<boot_cnt, faulted>>
    BY <1>1, <2>1, RestKeepsCount DEF InitNvs
  <2>2. CASE boot_cnt' = 0 /\ faulted' = "yes"
    BY <1>1, <2>2, ClearingKeepsCount DEF InitNvs
  <2> QED BY <1>1, <2>1, <2>2 DEF InitNvs
<1>2. CASE GuardPass
  BY <1>2, PassKeepsCount
<1>3. CASE ClearCount
  BY <1>3, ClearKeepsCount
<1>4. CASE Rollback
  BY <1>4, RollbackKeepsCount
<1>5. CASE Crash
  BY <1>5, CrashKeepsCount
<1>6. CASE TimerFires
  <2>1. phase # "return" /\ phase' # "return"
    BY <1>6 DEF TimerFires, Up
  <2>2. CASE CountOut /\ starts' = 0 /\ cuts' = 0 /\ faulted' = "no"
    BY <2>1, <2>2, ClearingKeepsCount DEF CountOut
  <2>3. CASE UNCHANGED <<boot_cnt, starts, cuts>> /\ faulted' = Faulty
    BY <2>1, <2>3, RestKeepsCount
  <2> QED BY <1>6, <2>2, <2>3 DEF TimerFires
<1>7. CASE InitDone
  BY <1>7, RestKeepsCount DEF InitDone
<1>8. CASE PowerOn \/ Launch
  BY <1>8, RestKeepsCount DEF PowerOn, Launch
<1>9. CASE Tick \/ MountCard \/ Select \/ Return
  BY <1>9, RestKeepsCount DEF Tick, MountCard, Select, Return, Up
<1>10. CASE UNCHANGED vars
  BY <1>10 DEF vars, GuardInv, CounterKeepsCount, ClearedOnReturn, Forgotten
<1> QED
  BY <1>1, <1>2, <1>3, <1>4, <1>5, <1>6, <1>7, <1>8, <1>9, <1>10 DEF Next

LEMMA AlwaysCounts == Spec => []GuardInv
<1>1. Init => CounterKeepsCount /\ ClearedOnReturn
  <2> SUFFICES ASSUME Init PROVE CounterKeepsCount /\ ClearedOnReturn
    OBVIOUS
  <2>1. Forgotten = 0
    BY GuardAssumption DEF Init, Forgotten
  <2> QED BY <2>1 DEF Init, CounterKeepsCount, ClearedOnReturn
<1> QED
  BY <1>1, TypeCorrect, StepKeepsCount, PTL DEF Spec, GuardInv

(* The stored counter is exactly the number of starts held against the     *)
(* application, but for those that a rollback cut short by a power loss    *)
(* forgot, unless something failed since it was last cleared; and only a   *)
(* rollback that failed to clear it makes it more.                         *)
THEOREM KeepsCount == Spec => []CounterKeepsCount
  BY AlwaysCounts, PTL DEF GuardInv

(* And then no crash loop is longer than the limit, and the limit again    *)
(* for every rollback that was cut short.                                  *)
THEOREM CrashLoopsAreBroken == Spec => []CrashLoopIsBroken
<1>1. GuardInv => CrashLoopIsBroken
  <2> SUFFICES ASSUME GuardInv, faulted = "no"
               PROVE  starts <= CRASH_GUARD_MAX * (1 + cuts)
    BY DEF CrashLoopIsBroken
  <2> DEFINE m == CRASH_GUARD_MAX * cuts
  <2>1. cuts \in 0..MaxCuts /\ boot_cnt \in 0..CRASH_GUARD_MAX
    BY DEF GuardInv, TypeOK
  <2>2. m \in Nat /\ CRASH_GUARD_MAX * (1 + cuts) = m + CRASH_GUARD_MAX
    <3>1. 1 + cuts = cuts + 1
      BY <2>1, GuardAssumption
    <3> QED BY <2>1, <3>1, Products
  <2>3. starts = boot_cnt + Forgotten
    BY DEF GuardInv, CounterKeepsCount
  <2>4. /\ phase = "return" => boot_cnt = 0 /\ Forgotten = m + CRASH_GUARD_MAX
        /\ phase # "return" => Forgotten = m
    BY ForgottenMoves DEF GuardInv, ClearedOnReturn
  <2> HIDE DEF m
  <2>5. starts <= m + CRASH_GUARD_MAX
    BY <2>1, <2>2, <2>3, <2>4, GuardAssumption
  <2> QED BY <2>2, <2>5
<1> QED
  BY <1>1, AlwaysCounts, PTL

------------------------------------------------------------------------------
(* The life with the browser *)

(* A step of the life is one of the guard, or none. *)
LEMMA LifeStep == [LifeNext]_lifeVars => [Next]_vars
<1> SUFFICES ASSUME [LifeNext]_lifeVars PROVE [Next]_vars
  OBVIOUS
<1>1. CASE Mount
  BY <1>1 DEF Mount, Next
<1>2. CASE Browse
  BY <1>2 DEF Browse, Next
<1>3. CASE Leave
  BY <1>3 DEF Leave, Next
<1>4. CASE Elsewhere
  BY <1>4 DEF Elsewhere, Next
<1>5. CASE UNCHANGED lifeVars
  BY <1>5 DEF lifeVars
<1> QED
  BY <1>1, <1>2, <1>3, <1>4, <1>5 DEF LifeNext

(* The application with its browser implements the crash guard's life,     *)
(* whatever the card, the panel and the user do.                           *)
THEOREM LifeImplementsGuard == LifeSpec => Spec
<1>1. LifeInit => Init
  BY DEF LifeInit
<1> QED
  BY <1>1, LifeStep, PTL DEF LifeSpec, Spec

(* So a crash loop is broken in it too. *)
THEOREM LifeBreaksCrashLoops == LifeSpec => []CrashLoopIsBroken
  BY LifeImplementsGuard, CrashLoopsAreBroken, PTL

------------------------------------------------------------------------------
(* The browser's invariant *)

(* A touch under way began where the finger was put down, and dragged if   *)
(* the finger strayed; until then the list is drawn as it was then.  While *)
(* the loop runs nothing has been selected.                                *)
Touches == [touching : {TRUE}, uy : 0..SCREEN_H-1, scroll : 0..MaxOff, dragged : BOOLEAN]
TouchIsTracked ==
  /\ s_press # NoTouch =>
       /\ s_press \in Touches
       /\ finger = [at |-> s_press.uy, on |-> finger.on, strayed |-> s_press.dragged]
       /\ ~s_press.dragged => s_press.scroll = s_scroll_offset /\ finger.on = Drawn(s_press.uy)
  /\ s_running => s_selected = NotYet

BrowserInv == BrowserTypeOK /\ TouchIsTracked

------------------------------------------------------------------------------
(* What is listed *)

(* What scan_directory gives are the way up and entries of the directory;  *)
(* the subdirectories among them are on the card.                          *)
Lists(path, files) ==
  /\ files \in Seq(Entries \cup {UpEntry})
  /\ \A i \in DOMAIN files :
       /\ files[i].kind # "other"
       /\ files[i].kind = "dir" => Append(path, files[i].name) \in DOMAIN Card

LEMMA ListedIsFinite ==
  ASSUME NEW path \in DOMAIN Card
  PROVE  /\ Cardinality(Listed(path)) \in Nat
         /\ Listed(path) \subseteq DOMAIN Card[path]
         /\ \A i \in Listed(path) : Card[path][i].kind # "other"
<1>1. DOMAIN Card[path] = 1..Len(Card[path]) /\ Len(Card[path]) \in Nat
  BY BrowserAssumption
<1>2. IsFiniteSet(DOMAIN Card[path])
  BY <1>1, FS_Interval
<1>3. Listed(path) \subseteq DOMAIN Card[path]
  BY DEF Listed, Worth
<1>4. \A i \in Listed(path) : Card[path][i].kind # "other"
  BY DEF Listed, Worth
<1> QED
  BY <1>2, <1>3, <1>4, FS_Subset, FS_CardinalityType

LEMMA ScanLists ==
  ASSUME NEW path \in DOMAIN Card, NEW files \in Scanned(path) \cup {<<>>}
  PROVE  Lists(path, files)
<1>1. CASE files = <<>>
  BY <1>1 DEF Lists
<1>2. CASE files # <<>>
  <2>1. PICK o \in Sorted(path) : files = WithUp(path, [i \in DOMAIN o |-> Card[path][o[i]]])
    BY <1>2 DEF Scanned
  <2> DEFINE plain == [i \in DOMAIN o |-> Card[path][o[i]]]
  <2>2. o \in [1..Cardinality(Listed(path)) -> Listed(path)]
    BY DEF Sorted, SetToSeqs
  <2>3. \A i \in DOMAIN plain : plain[i] \in Entries
    BY <2>2, ListedIsFinite, BrowserAssumption
  <2>4. \A i \in DOMAIN plain :
          /\ plain[i].kind # "other"
          /\ plain[i].kind = "dir" => Append(path, plain[i].name) \in DOMAIN Card
    BY <2>2, ListedIsFinite, BrowserAssumption
  <2>5. plain \in Seq(Entries \cup {UpEntry})
    BY <2>2, <2>3, ListedIsFinite
  <2> HIDE DEF plain
  <2>6. CASE files = plain
    BY <2>4, <2>5, <2>6 DEF Lists
  <2>7. CASE files = <<UpEntry>> \o plain
    <3>1. <<UpEntry>> \in Seq(Entries \cup {UpEntry}) /\ Len(<<UpEntry>>) = 1
      OBVIOUS
    <3>2. /\ files \in Seq(Entries \cup {UpEntry})
          /\ Len(files) = 1 + Len(plain)
          /\ \A i \in 1..1 + Len(plain) :
               files[i] = IF i <= 1 THEN <<UpEntry>>[i] ELSE plain[i - 1]
      BY <2>5, <2>7, <3>1, ConcatProperties
    <3>3. ASSUME NEW i \in DOMAIN files
          PROVE  /\ files[i].kind # "other"
                 /\ files[i].kind = "dir" => Append(path, files[i].name) \in DOMAIN Card
      <4>1. Len(plain) \in Nat /\ DOMAIN plain = 1..Len(plain) /\ i \in 1..1 + Len(plain)
        BY <2>5, <3>2
      <4>2. CASE i = 1
        <5>1. files[i] = UpEntry
          BY <3>2, <4>1, <4>2
        <5> QED BY <5>1 DEF UpEntry
      <4>3. CASE i # 1
        <5>1. i - 1 \in DOMAIN plain /\ files[i] = plain[i - 1]
          BY <3>2, <4>1, <4>3
        <5> QED BY <2>4, <5>1
      <4> QED BY <4>2, <4>3
    <3> QED BY <3>2, <3>3 DEF Lists
  <2> QED BY <2>1, <2>6, <2>7 DEF WithUp, plain
<1> QED BY <1>1, <1>2

(* An entry is the way up, or of a directory and determined by its kind    *)
(* and name.                                                               *)
LEMMA EntryKinds ==
  ASSUME NEW e \in Entries \cup {UpEntry}
  PROVE  /\ e.kind = "up" <=> e = UpEntry
         /\ e.kind # "up" => e.name \in Nat /\ e = [kind |-> e.kind, name |-> e.name]
  BY DEF Entries, UpEntry

LEMMA MonotoneRows ==
  ASSUME NEW a \in Nat, NEW b \in Nat, NEW c \in Nat, a < c
  PROVE  a * b + b <= c * b
<1>1. PICK k \in Nat : c = a + 1 + k
  <2>1. c - a - 1 \in Nat /\ c = a + 1 + (c - a - 1)
    OBVIOUS
  <2> QED BY <2>1
<1>2. c * b = a * b + b + k * b /\ k * b \in Nat /\ a * b \in Nat
  BY <1>1
<1> QED BY <1>2

LEMMA Quotient ==
  ASSUME NEW d \in Nat
  PROVE  /\ d \div ROW_HEIGHT \in Nat
         /\ (d \div ROW_HEIGHT) * ROW_HEIGHT <= d
         /\ d < (d \div ROW_HEIGHT) * ROW_HEIGHT + ROW_HEIGHT
<1> DEFINE q == d \div ROW_HEIGHT  r == d % ROW_HEIGHT
<1>1. q \in Nat /\ r \in Nat /\ r < ROW_HEIGHT /\ d = q * ROW_HEIGHT + r
  BY BrowserAssumption
<1> HIDE DEF q, r
<1>2. q * ROW_HEIGHT \in Nat
  BY <1>1, BrowserAssumption
<1> QED BY <1>1, <1>2, BrowserAssumption DEF q

(* The rows fill the screen below the title but for a strip that is lower  *)
(* than a row.                                                             *)
RowAt(y) == (y - TITLE_H) \div ROW_HEIGHT

LEMMA RowsOfTheScreen ==
  ASSUME NEW y \in 0..SCREEN_H-1, ~(y < TITLE_H)
  PROVE  /\ RowAt(y) \in Nat /\ VisibleRows \in Nat
         /\ RowAt(y) < VisibleRows \/ RowAt(y) = VisibleRows
         /\ RowAt(y) < VisibleRows <=> y < TITLE_H + VisibleRows * ROW_HEIGHT
<1> DEFINE d == y - TITLE_H  row == RowAt(y)
           s == SCREEN_H - TITLE_H  v == VisibleRows
<1>1. d \in Nat /\ s \in Nat /\ d < s /\ y = d + TITLE_H /\ TITLE_H \in Nat /\ ROW_HEIGHT \in Nat
  BY BrowserAssumption
<1>2. row \in Nat /\ row * ROW_HEIGHT <= d /\ d < row * ROW_HEIGHT + ROW_HEIGHT
  BY <1>1, Quotient DEF RowAt
<1>3. v \in Nat /\ v * ROW_HEIGHT <= s /\ s < v * ROW_HEIGHT + ROW_HEIGHT
  BY <1>1, Quotient DEF VisibleRows
<1> HIDE DEF d, row, s, v
<1>4. row * ROW_HEIGHT \in Nat /\ v * ROW_HEIGHT \in Nat
  BY <1>1, <1>2, <1>3
<1> DEFINE Bounded == (row < v \/ row = v) /\ (row < v <=> y < TITLE_H + v * ROW_HEIGHT)
<1>5. row < v => Bounded
  <2> SUFFICES ASSUME row < v PROVE Bounded
    OBVIOUS
  <2>1. row * ROW_HEIGHT + ROW_HEIGHT <= v * ROW_HEIGHT
    BY <1>1, <1>2, <1>3, MonotoneRows
  <2> QED BY <1>1, <1>2, <1>3, <1>4, <2>1
<1>6. row = v => Bounded
  BY <1>1, <1>2, <1>3, <1>4
<1>7. v < row => Bounded
  <2> SUFFICES ASSUME v < row PROVE Bounded
    OBVIOUS
  <2>1. v * ROW_HEIGHT + ROW_HEIGHT <= row * ROW_HEIGHT
    BY <1>1, <1>2, <1>3, MonotoneRows
  <2> QED BY <1>1, <1>2, <1>3, <1>4, <2>1
<1>8. Bounded
  BY <1>2, <1>3, <1>5, <1>6, <1>7
<1> QED BY <1>2, <1>3, <1>8 DEF row, v

------------------------------------------------------------------------------
(* The touch *)

LEMMA ScrollBounds ==
  ASSUME NEW path, NEW files, Lists(path, files)
  PROVE  Len(files) \in Nat /\ MaxOf(0, Len(files) - VisibleRows) \in Nat
<1>1. VisibleRows \in Nat
  <2>1. SCREEN_H - TITLE_H \in Nat
    BY BrowserAssumption
  <2> QED BY <2>1, Quotient DEF VisibleRows
<1>2. Len(files) \in Nat
  BY DEF Lists
<1> QED BY <1>1, <1>2 DEF MaxOf

LEMMA BrowserStarts == BrowserInit => BrowserInv
<1> SUFFICES ASSUME BrowserInit PROVE BrowserInv
  OBVIOUS
<1>1. s_current_path \in DOMAIN Card /\ s_scroll_offset \in 0..MaxOff
  <2>1. Lists(<<>>, s_files)
    BY DEF BrowserInit, Lists
  <2> QED BY <2>1, BrowserAssumption, ScrollBounds DEF BrowserInit, MaxOff
<1> QED BY <1>1 DEF BrowserInit, BrowserInv, BrowserTypeOK, TouchIsTracked, NoTouch

(* Another list is shown from its beginning, with no finger on it. *)
LEMMA ShowKeeps ==
  ASSUME NEW path \in DOMAIN Card, s_current_path' = path, s_files' \in Scanned(path),
         s_scroll_offset' = 0, s_press' = NoTouch, s_running' \in BOOLEAN,
         s_running' => s_selected' = NotYet
  PROVE  BrowserInv'
<1>1. Lists(path, s_files')
  BY ScanLists
<1>2. s_scroll_offset' \in 0..MaxOff'
  BY <1>1, ScrollBounds DEF MaxOff
<1> QED BY <1>2 DEF BrowserInv, BrowserTypeOK, TouchIsTracked, NoTouch

LEMMA StayKeeps ==
  ASSUME BrowserInv, Stay, s_press' = NoTouch
  PROVE  BrowserInv'
<1>1. Lists(s_current_path, s_files)
  BY ScanLists DEF BrowserInv, BrowserTypeOK
<1>2. MaxOff' = MaxOff
  BY DEF Stay, MaxOff
<1> QED BY <1>2 DEF BrowserInv, BrowserTypeOK, TouchIsTracked, NoTouch, Stay

LEMMA UpKeeps ==
  ASSUME BrowserInv, s_running, go_up, s_press' = NoTouch
  PROVE  BrowserInv'
<1>1. CASE s_current_path = <<>>
  BY <1>1, StayKeeps DEF go_up
<1>2. CASE s_current_path # <<>>
  <2>1. Front(s_current_path) \in DOMAIN Card
    BY <1>2, BrowserAssumption DEF BrowserInv, BrowserTypeOK
  <2>2. Show(Front(s_current_path))
    BY <1>2 DEF go_up
  <2> HIDE DEF BrowserInv
  <2>3. s_running' \in BOOLEAN /\ (s_running' => s_selected' = NotYet)
    BY <2>2 DEF Show, BrowserInv, BrowserTypeOK, TouchIsTracked
  <2> QED BY <2>1, <2>2, <2>3, ShowKeeps DEF Show
<1> QED BY <1>1, <1>2

LEMMA ActivateKeeps ==
  ASSUME BrowserInv, s_running, NEW i, Activate(i), s_press' = NoTouch
  PROVE  BrowserInv'
<1>1. CASE i \notin DOMAIN s_files
  BY <1>1, StayKeeps DEF Activate
<1>2. CASE i \in DOMAIN s_files
  <2> DEFINE e == s_files[i]
  <2>1. Lists(s_current_path, s_files) /\ s_current_path \in DOMAIN Card
    BY ScanLists DEF BrowserInv, BrowserTypeOK
  <2>2. e \in Entries \cup {UpEntry}
    BY <1>2, <2>1 DEF Lists
  <2>3. e.kind \in {"up", "dir", "rom"}
    BY <1>2, <2>1, <2>2 DEF Entries, UpEntry, Lists
  <2>4. CASE e.kind = "up"
    <3>1. go_up
      BY <1>2, <2>4 DEF Activate
    <3> QED BY <3>1, UpKeeps
  <2>5. CASE e.kind = "dir"
    <3>1. Append(s_current_path, e.name) \in DOMAIN Card
      BY <1>2, <2>1, <2>5 DEF Lists
    <3>2. Show(Append(s_current_path, e.name))
      BY <1>2, <2>5 DEF Activate
    <3>3. s_running' \in BOOLEAN /\ (s_running' => s_selected' = NotYet)
      BY <3>2 DEF Show, BrowserInv, BrowserTypeOK, TouchIsTracked
    <3> QED BY <3>1, <3>2, <3>3, ShowKeeps DEF Show
  <2>6. CASE e.kind = "rom"
    <3>1. UNCHANGED <<s_current_path, s_files, s_scroll_offset>> /\ s_running' = FALSE
      BY <1>2, <2>6 DEF Activate
    <3>2. MaxOff' = MaxOff
      BY <3>1 DEF MaxOff
    <3> QED BY <3>1, <3>2 DEF BrowserInv, BrowserTypeOK, TouchIsTracked, NoTouch
  <2> QED BY <2>3, <2>4, <2>5, <2>6
<1> QED BY <1>1, <1>2

LEMMA PressKeeps ==
  ASSUME BrowserInv, s_running, NEW y \in 0..SCREEN_H-1, Press(y)
  PROVE  BrowserInv'
<1>1. MaxOff' = MaxOff /\ Drawn(y)' = Drawn(y)
  BY DEF Press, Stay, MaxOff, Drawn
<1>2. s_press' \in Touches'
  BY <1>1 DEF Press, Touches, BrowserInv, BrowserTypeOK
<1>3. /\ finger' = [at |-> s_press'.uy, on |-> finger'.on, strayed |-> s_press'.dragged]
      /\ s_press'.uy = y /\ s_press'.scroll = s_scroll_offset' /\ finger'.on = Drawn(y)'
  BY <1>1 DEF Press, Stay
<1>4. s_press'.touching => s_press'.uy \in 0..SCREEN_H-1 /\ s_press'.scroll \in (0..MaxOff)'
  BY <1>1 DEF Press, BrowserInv, BrowserTypeOK
<1>5. TouchIsTracked'
  BY <1>2, <1>3 DEF Press, Stay, TouchIsTracked, BrowserInv
<1>6. BrowserTypeOK'
  BY <1>1, <1>4 DEF Press, Stay, BrowserTypeOK, BrowserInv
<1> QED BY <1>5, <1>6 DEF BrowserInv

(* The clamping of handle_touch. *)
LEMMA Clamped ==
  ASSUME NEW m \in Nat, NEW off \in Int
  PROVE  MinOf(MaxOf(off, 0), m) \in 0..m
  BY DEF MinOf, MaxOf

LEMMA RowsAreNumbers ==
  ASSUME NEW dy \in Int
  PROVE  Rows(dy) \in Int
<1>1. CASE dy < 0
  <2>1. -dy \in Nat
    BY <1>1
  <2>2. ((-dy) \div ROW_HEIGHT) \in Nat
    BY <2>1, Quotient
  <2> QED BY <1>1, <2>2 DEF Rows
<1>2. CASE ~(dy < 0)
  <2>1. dy \in Nat
    BY <1>2
  <2>2. (dy \div ROW_HEIGHT) \in Nat
    BY <2>1, Quotient
  <2> QED BY <1>2, <2>2 DEF Rows
<1> QED BY <1>1, <1>2

LEMMA HoldKeeps ==
  ASSUME BrowserInv, s_running, s_press # NoTouch, NEW y \in 0..SCREEN_H-1, Hold(y)
  PROVE  BrowserInv'
<1>1. /\ s_press \in Touches /\ s_press.uy \in 0..SCREEN_H-1 /\ s_press.scroll \in 0..MaxOff
      /\ s_press.dragged \in BOOLEAN
  BY DEF BrowserInv, TouchIsTracked, Touches
<1>2. MaxOff' = MaxOff
  BY DEF Hold, MaxOff
<1>3. MaxOff \in Nat
  BY ScanLists, ScrollBounds DEF BrowserInv, BrowserTypeOK, MaxOff
<1>4. s_press' = [s_press EXCEPT !.dragged = @ \/ Far(y - s_press.uy)]
  BY DEF Hold
<1>5. /\ s_press' \in Touches' /\ s_press'.uy = s_press.uy /\ s_press'.scroll = s_press.scroll
      /\ s_press'.dragged = (s_press.dragged \/ Far(y - s_press.uy))
  <2>1. (s_press.dragged \/ Far(y - s_press.uy)) \in BOOLEAN
    BY DEF Far
  <2> QED BY <1>1, <1>2, <1>4, <2>1 DEF Touches
<1>6. y - s_press.uy \in Int /\ s_press.scroll \in Int
  BY <1>1, <1>3, BrowserAssumption
<1>7. s_scroll_offset' \in 0..MaxOff
  <2>1. CASE s_press'.dragged
    <3>1. s_press.scroll - Rows(y - s_press.uy) \in Int
      BY <1>6, RowsAreNumbers
    <3> QED BY <1>3, <2>1, <3>1, Clamped DEF Hold
  <2>2. CASE ~s_press'.dragged
    BY <2>2 DEF Hold, BrowserInv, BrowserTypeOK
  <2> QED BY <2>1, <2>2
<1>8. BrowserTypeOK'
  <2>1. s_press'.uy \in 0..SCREEN_H-1 /\ s_press'.scroll \in (0..MaxOff)'
    BY <1>1, <1>2, <1>5
  <2> QED BY <1>2, <1>7, <2>1 DEF Hold, BrowserTypeOK, BrowserInv
<1>9. finger' = [at |-> s_press'.uy, on |-> finger'.on, strayed |-> s_press'.dragged]
  <2>1. finger = [at |-> s_press.uy, on |-> finger.on, strayed |-> s_press.dragged]
    BY DEF BrowserInv, TouchIsTracked
  <2>2. finger' = [finger EXCEPT !.strayed = @ \/ y \notin finger.at-SLOP..finger.at+SLOP]
    BY DEF Hold
  <2>3. y \notin s_press.uy-SLOP..s_press.uy+SLOP <=> Far(y - s_press.uy)
    BY <1>1, BrowserAssumption DEF Far
  <2>4. finger.at = s_press.uy /\ finger.strayed = s_press.dragged
    BY <2>1
  <2>5. finger' = [at |-> finger.at, on |-> finger.on,
                   strayed |-> finger.strayed \/ y \notin finger.at-SLOP..finger.at+SLOP]
    BY <2>1, <2>2
  <2>6. (finger.strayed \/ y \notin finger.at-SLOP..finger.at+SLOP) = s_press'.dragged
    BY <1>1, <1>5, <2>3, <2>4
  <2>7. finger' = [at |-> s_press'.uy, on |-> finger.on, strayed |-> s_press'.dragged]
    BY <1>5, <2>4, <2>5, <2>6
  <2> QED BY <2>7
<1>10. finger'.on = finger.on
  BY <1>9 DEF Hold, BrowserInv, TouchIsTracked
<1>11. ~s_press'.dragged =>
         s_press'.scroll = s_scroll_offset' /\ finger'.on = Drawn(s_press.uy)'
  <2> SUFFICES ASSUME ~s_press'.dragged
               PROVE  s_press'.scroll = s_scroll_offset' /\ finger'.on = Drawn(s_press.uy)'
    OBVIOUS
  <2>1. ~s_press.dragged /\ s_scroll_offset' = s_scroll_offset /\ s_files' = s_files
    BY <1>5 DEF Hold
  <2>2. s_press.scroll = s_scroll_offset /\ finger.on = Drawn(s_press.uy)
    BY <2>1 DEF BrowserInv, TouchIsTracked
  <2>3. Drawn(s_press.uy)' = Drawn(s_press.uy)
    BY <1>4, <1>5, <2>1 DEF Drawn, Hold
  <2> QED BY <1>5, <1>10, <2>1, <2>2, <2>3
<1>12. s_running' => s_selected' = NotYet
  BY DEF Hold, BrowserInv, TouchIsTracked
<1> QED BY <1>5, <1>8, <1>9, <1>11, <1>12 DEF BrowserInv, TouchIsTracked

LEMMA ReleaseKeeps ==
  ASSUME BrowserInv, s_running, Release
  PROVE  BrowserInv'
<1>1. s_press' = NoTouch
  BY DEF Release
<1>2. Stay \/ go_up \/ Activate(Tapped)
  BY DEF Release
<1>3. CASE Stay
  BY <1>1, <1>3, StayKeeps
<1>4. CASE go_up
  BY <1>1, <1>4, UpKeeps
<1>5. CASE Activate(Tapped)
  BY <1>1, <1>5, ActivateKeeps
<1> QED BY <1>2, <1>3, <1>4, <1>5

LEMMA RoundKeeps ==
  ASSUME BrowserInv, handle_touch
  PROVE  BrowserInv'
<1>1. s_running
  BY DEF handle_touch
<1>2. CASE \E y \in 0..SCREEN_H-1 : Press(y)
  BY <1>1, <1>2, PressKeeps
<1>3. CASE \E y \in 0..SCREEN_H-1 : Hold(y)
  <2>1. PICK y \in 0..SCREEN_H-1 : Hold(y)
    BY <1>3
  <2>2. s_press # NoTouch
    BY <2>1 DEF Hold, NoTouch
  <2> QED BY <1>1, <2>1, <2>2, HoldKeeps
<1>4. CASE Release
  BY <1>1, <1>4, ReleaseKeeps
<1> QED BY <1>2, <1>3, <1>4 DEF handle_touch

LEMMA InitKeeps ==
  ASSUME file_browser_init
  PROVE  BrowserInv'
<1>1. <<>> \in DOMAIN Card
  BY BrowserAssumption
<1> QED BY <1>1, ShowKeeps DEF file_browser_init

LEMMA LeaveKeeps ==
  ASSUME Leave
  PROVE  BrowserInv'
<1>1. Lists(<<>>, s_files')
  BY DEF Leave, Lists
<1>2. s_scroll_offset' \in 0..MaxOff'
  BY <1>1, ScrollBounds DEF Leave, MaxOff
<1> QED
  BY <1>2, BrowserAssumption
  DEF Leave, BrowserInv, BrowserTypeOK, TouchIsTracked, NoTouch

LEMMA RestKeeps ==
  ASSUME BrowserInv, UNCHANGED browser
  PROVE  BrowserInv'
<1>1. MaxOff' = MaxOff /\ Drawn(s_press.uy)' = Drawn(s_press.uy)
  BY DEF browser, MaxOff, Drawn
<1> QED BY <1>1 DEF browser, BrowserInv, BrowserTypeOK, TouchIsTracked, Touches

LEMMA BrowserStep == BrowserInv /\ [LifeNext]_lifeVars => BrowserInv'
<1> SUFFICES ASSUME BrowserInv, [LifeNext]_lifeVars PROVE BrowserInv'
  OBVIOUS
<1>1. CASE Mount
  BY <1>1, InitKeeps, RestKeeps DEF Mount
<1>2. CASE Browse
  BY <1>2, RoundKeeps DEF Browse
<1>3. CASE Leave
  BY <1>3, LeaveKeeps
<1>4. CASE Elsewhere
  BY <1>4, RestKeeps DEF Elsewhere
<1>5. CASE UNCHANGED lifeVars
  BY <1>5, RestKeeps DEF lifeVars
<1> QED
  BY <1>1, <1>2, <1>3, <1>4, <1>5 DEF LifeNext

LEMMA AlwaysTracked == LifeSpec => []BrowserInv
<1>1. LifeInit => BrowserInv
  BY BrowserStarts DEF LifeInit
<1> QED
  BY <1>1, BrowserStep, PTL DEF LifeSpec

(* Whatever is tapped, the list is that of the directory it says, the      *)
(* scroll stays on it, and the guard's state keeps its type.               *)
THEOREM LifeTypeCorrect == LifeSpec => []LifeTypeOK
<1>1. BrowserInv /\ TypeOK => LifeTypeOK
  BY DEF BrowserInv, LifeTypeOK
<1> QED
  BY <1>1, AlwaysTracked, TypeCorrect, LifeImplementsGuard, PTL

------------------------------------------------------------------------------
(* What a tap opens *)

(* The last name of a longer path, and the path before it. *)
LEMMA Longer ==
  ASSUME NEW path \in Seq(Nat), NEW name \in Nat
  PROVE  /\ Len(Append(path, name)) > Len(path) /\ Append(path, name) # <<>>
         /\ Last(Append(path, name)) = name
  BY AppendProperties DEF Last

LEMMA Shorter ==
  ASSUME NEW path \in Seq(Nat), path # <<>>
  PROVE  Front(path) \in Seq(Nat) /\ Len(Front(path)) < Len(path)
<1>1. Len(path) \in Nat \ {0} /\ \A i \in 1..Len(path)-1 : path[i] \in Nat
  BY EmptySeq
<1>2. Len(path) - 1 \in Nat
  BY <1>1
<1> QED BY <1>1, <1>2, SubSeqProperties DEF Front

LEMMA NothingOpens ==
  ASSUME s_current_path' = s_current_path, s_selected' = s_selected,
         s_current_path \in Seq(Nat)
  PROVE  Opened = Nothing
<1>1. Len(s_current_path) \in Nat
  OBVIOUS
<1> QED BY <1>1 DEF Opened

LEMMA UpOpens ==
  ASSUME go_up, s_current_path \in Seq(Nat)
  PROVE  Opened \in {Nothing, UpEntry}
<1>1. CASE s_current_path = <<>>
  BY <1>1, NothingOpens DEF go_up, Stay
<1>2. CASE s_current_path # <<>>
  <2>1. /\ s_current_path' \in Seq(Nat) /\ Len(s_current_path') < Len(s_current_path)
        /\ s_selected' = s_selected
    BY <1>2, Shorter DEF go_up, Show
  <2>2. Len(s_current_path') \in Nat /\ Len(s_current_path) \in Nat
    BY <2>1
  <2> QED BY <2>1, <2>2 DEF Opened
<1> QED BY <1>1, <1>2

(* An entry that is activated opens itself, if anything. *)
LEMMA ActivateOpens ==
  ASSUME BrowserInv, s_running, NEW i, Activate(i)
  PROVE  Opened = Nothing \/ (i \in DOMAIN s_files /\ Opened = s_files[i])
<1>1. s_current_path \in Seq(Nat) /\ Lists(s_current_path, s_files)
  BY BrowserAssumption, ScanLists DEF BrowserInv, BrowserTypeOK
<1>2. CASE i \notin DOMAIN s_files
  BY <1>1, <1>2, NothingOpens DEF Activate, Stay
<1>3. CASE i \in DOMAIN s_files
  <2> DEFINE e == s_files[i]
  <2>1. e \in Entries \cup {UpEntry}
    BY <1>1, <1>3 DEF Lists
  <2>2. /\ e.kind = "up" <=> e = UpEntry
        /\ e.kind # "up" => e.name \in Nat /\ e = [kind |-> e.kind, name |-> e.name]
    BY <2>1, EntryKinds
  <2>3. e.kind \in {"up", "dir", "rom"}
    BY <1>1, <1>3, <2>1 DEF Entries, UpEntry, Lists
  <2>4. CASE e.kind = "up"
    <3>1. go_up
      BY <1>3, <2>4 DEF Activate
    <3> QED BY <1>1, <1>3, <2>2, <2>4, <3>1, UpOpens
  <2>5. CASE e.kind = "dir"
    <3>1. s_current_path' = Append(s_current_path, e.name) /\ s_selected' = s_selected
      BY <1>3, <2>5 DEF Activate, Show
    <3>2. Len(s_current_path') > Len(s_current_path) /\ Last(s_current_path') = e.name
      BY <1>1, <2>2, <2>5, <3>1, Longer
    <3>3. Opened = [kind |-> "dir", name |-> e.name]
      BY <3>1, <3>2 DEF Opened
    <3> QED BY <1>3, <2>2, <2>5, <3>3
  <2>6. CASE e.kind = "rom"
    <3>1. s_selected' = Append(s_current_path, e.name) /\ s_current_path' = s_current_path
      BY <1>3, <2>6 DEF Activate
    <3>2. s_selected' # s_selected /\ Last(s_selected') = e.name
      BY <1>1, <2>2, <2>6, <3>1, Longer DEF BrowserInv, TouchIsTracked, NotYet
    <3>3. Opened = [kind |-> "rom", name |-> e.name]
      <4>1. Len(s_current_path) \in Nat
        BY <1>1
      <4> QED BY <3>1, <3>2, <4>1 DEF Opened
    <3> QED BY <1>3, <2>2, <2>6, <3>3
  <2> QED BY <2>3, <2>4, <2>5, <2>6
<1> QED BY <1>2, <1>3

(* An entry that the tap meant and that is listed is offered. *)
LEMMA TappedIsOffered ==
  ASSUME BrowserInv, s_press # NoTouch, ~s_press.dragged, ~(s_press.uy < TITLE_H),
         Tapped \in DOMAIN s_files
  PROVE  Offered = s_files[Tapped]
<1>1. /\ s_press \in Touches /\ s_press.scroll = s_scroll_offset
      /\ finger.at = s_press.uy /\ finger.on = Drawn(s_press.uy)
  BY DEF BrowserInv, TouchIsTracked
<1>2. s_press.uy \in 0..SCREEN_H-1 /\ s_scroll_offset \in Nat
  <2>1. MaxOff \in Nat
    BY ScanLists, ScrollBounds DEF BrowserInv, BrowserTypeOK, MaxOff
  <2> QED BY <1>1, <2>1 DEF Touches, BrowserInv, BrowserTypeOK
<1> DEFINE row == RowAt(s_press.uy)
<1>3. /\ row \in Nat /\ VisibleRows \in Nat
      /\ row < VisibleRows \/ row = VisibleRows
      /\ row < VisibleRows <=> s_press.uy < TITLE_H + VisibleRows * ROW_HEIGHT
  BY <1>2, RowsOfTheScreen
<1>4. Tapped = s_scroll_offset + row + 1
  BY <1>1 DEF Tapped, RowAt
<1>5. CASE row < VisibleRows
  <2>1. s_press.uy >= TITLE_H
    BY <1>2, BrowserAssumption
  <2>2. Drawn(s_press.uy) = s_files[Tapped]
    BY <1>4, <1>5, <2>1 DEF Drawn, RowAt
  <2> QED BY <1>1, <1>3, <1>5, <2>2 DEF Offered
<1>6. CASE row = VisibleRows
  <2>1. ~(row < VisibleRows)
    BY <1>3, <1>6
  <2>2. NextBelow = s_files[Tapped]
    BY <1>4, <1>6 DEF NextBelow
  <2> QED BY <1>1, <1>3, <2>1, <2>2 DEF Offered
<1> QED BY <1>3, <1>5, <1>6

LEMMA RoundOpens ==
  ASSUME BrowserInv, handle_touch, Opened # Nothing
  PROVE  ~finger.strayed /\ Opened = Offered
<1>1. s_running /\ s_current_path \in Seq(Nat)
  BY BrowserAssumption DEF handle_touch, BrowserInv, BrowserTypeOK
<1>2. ~(s_current_path' = s_current_path /\ s_selected' = s_selected)
  BY <1>1, NothingOpens
<1>3. Release
  BY <1>2 DEF handle_touch, Press, Hold, Stay
<1>4. s_press # NoTouch /\ ~s_press.dragged
  BY <1>2, <1>3 DEF Release, Stay, NoTouch
<1>5. ~finger.strayed /\ finger.at = s_press.uy
  BY <1>4 DEF BrowserInv, TouchIsTracked
<1>6. CASE s_press.uy < TITLE_H
  <2>1. go_up
    BY <1>3, <1>4, <1>6 DEF Release
  <2>2. Opened = UpEntry
    BY <1>1, <2>1, UpOpens
  <2> QED BY <1>5, <1>6, <2>2 DEF Offered
<1>7. CASE ~(s_press.uy < TITLE_H)
  <2>1. Activate(Tapped)
    BY <1>3, <1>4, <1>7 DEF Release
  <2>2. Tapped \in DOMAIN s_files /\ Opened = s_files[Tapped]
    BY <1>1, <2>1, ActivateOpens
  <2> QED BY <1>4, <1>5, <1>7, <2>2, TappedIsOffered
<1> QED BY <1>6, <1>7

(* On every card and every screen, what a touch opens is what was drawn    *)
(* under it when it began, and a finger that strayed opens nothing.        *)
THEOREM TapOpensShown == LifeSpec => TapOpensWhatIsShown
<1>1. BrowserInv => [handle_touch /\ Opened # Nothing => ~finger.strayed /\ Opened = Offered]_browser
  BY RoundOpens
<1> QED
  BY <1>1, AlwaysTracked, PTL DEF TapOpensWhatIsShown
==============================================================================
