-------------------------- MODULE PersistenceProofs --------------------------
(***************************************************************************)
(* Theorems about Persistence, for every set of blocks, number of writes   *)
(* and set of failures: types, and that a save is complete, that the filed *)
(* state is never ahead of the flash, and that nothing saved is lost.      *)
(***************************************************************************)
EXTENDS Persistence, TLAPS

(* What is being written is a file the save still has to write, and the    *)
(* state only when all the flash is on the card; between saves it is a     *)
(* block on its way out of the cache.                                      *)
Writing ==
  writing # Nothing =>
    /\ phase = "save" => writing \in left /\ (writing = "state" => left = {"state"})
    /\ phase = "run"  => writing \in Blocks /\ HasNand

(* Contents are never newer than the last write. *)
Bounded ==
  \A f \in Flash : card[f] <= now /\ mem[f] <= now /\ snap[f] <= now /\ saved[f] <= now

(* What a save is through with is on the card: the blocks whatever fails,  *)
(* the rest if nothing did; and the state filed is that of this flash.     *)
Filed ==
  phase = "save" =>
    /\ HasNand => \A b \in Blocks \ left : card[b] = mem[b]
    /\ faulted # "yes" => /\ \A f \in Files \ left : card[f] = mem[f]
                          /\ "state" \notin left => \A f \in Flash : snap[f] = mem[f]

(* Unless something failed, neither the files nor, while it runs, the      *)
(* machine ever go back behind the last filed state or the last save, and  *)
(* the files are never ahead of the machine.                               *)
NotBehind(now_in, past) == \A f \in Flash : now_in[f] >= past[f] \/ now_in[f] = Torn
Ordered ==
  faulted = "no" =>
    /\ NotBehind(card, snap) /\ NotBehind(card, saved)
    /\ phase # "off" => /\ NotBehind(mem, snap) /\ NotBehind(mem, saved)
                        /\ \A f \in Flash : card[f] <= mem[f]

Inv == TypeOK /\ Writing /\ Bounded /\ Filed /\ Ordered
------------------------------------------------------------------------------
LEMMA InitInv == Init => Inv
<1> USE PersistenceAssumption
<1> SUFFICES ASSUME Init PROVE Inv
  OBVIOUS
<1>1. TypeOK
  BY DEF Init, TypeOK, Version, Torn
<1>2. Writing /\ Filed
  BY DEF Init, Writing, Filed
<1>3. Bounded /\ Ordered
  BY DEF Init, Bounded, Ordered, NotBehind, Files
<1> QED BY <1>1, <1>2, <1>3 DEF Inv

LEMMA TypeStep == TypeOK /\ [Next]_vars => TypeOK'
<1> USE PersistenceAssumption DEF TypeOK, Version, Torn
<1> SUFFICES ASSUME TypeOK, [Next]_vars PROVE TypeOK'
  OBVIOUS
<1>1. CASE Load
  BY <1>1 DEF Load, Loaded, LoadFails
<1>2. ASSUME NEW f \in Flash, MachineWrites(f) PROVE TypeOK'
  BY <1>2 DEF MachineWrites, Files
<1>3. ASSUME NEW b \in Blocks, Evict(b) PROVE TypeOK'
  BY <1>3 DEF Evict, Files, Flash
<1>4. CASE SaveBegin
  BY <1>4 DEF SaveBegin
<1>5. ASSUME NEW f \in Files, StartFile(f) PROVE TypeOK'
  BY <1>5 DEF StartFile
<1>6. ASSUME NEW f \in Files, SkipFile(f) PROVE TypeOK'
  BY <1>6 DEF SkipFile
<1>7. ASSUME NEW f \in Files, FailFile(f) PROVE TypeOK'
  BY <1>7 DEF FailFile
<1>8. CASE WriteEnds
  BY <1>8 DEF WriteEnds, Files
<1>9. CASE SaveEnds
  BY <1>9 DEF SaveEnds, Files
<1>10. CASE Crash
  BY <1>10 DEF Crash
<1>11. CASE UNCHANGED vars
  BY <1>11 DEF vars
<1> QED BY <1>1, <1>2, <1>3, <1>4, <1>5, <1>6, <1>7, <1>8, <1>9, <1>10, <1>11 DEF Next

LEMMA WritingStep == TypeOK /\ Writing /\ [Next]_vars => Writing'
<1> USE PersistenceAssumption DEF TypeOK, Writing
<1> SUFFICES ASSUME TypeOK /\ Writing, [Next]_vars PROVE Writing'
  OBVIOUS
<1>1. CASE Load
  BY <1>1 DEF Load
<1>2. ASSUME NEW f \in Flash, MachineWrites(f) PROVE Writing'
  BY <1>2 DEF MachineWrites
<1>3. ASSUME NEW b \in Blocks, Evict(b) PROVE Writing'
  BY <1>3 DEF Evict, Files, Flash
<1>4. CASE SaveBegin
  BY <1>4 DEF SaveBegin
<1>5. ASSUME NEW f \in Files, StartFile(f) PROVE Writing'
  BY <1>5 DEF StartFile, Due
<1>6. ASSUME NEW f \in Files, SkipFile(f) PROVE Writing'
  BY <1>6 DEF SkipFile
<1>7. ASSUME NEW f \in Files, FailFile(f) PROVE Writing'
  BY <1>7 DEF FailFile
<1>8. CASE WriteEnds
  BY <1>8 DEF WriteEnds
<1>9. CASE SaveEnds
  BY <1>9 DEF SaveEnds
<1>10. CASE Crash
  BY <1>10 DEF Crash
<1>11. CASE UNCHANGED vars
  BY <1>11 DEF vars
<1> QED BY <1>1, <1>2, <1>3, <1>4, <1>5, <1>6, <1>7, <1>8, <1>9, <1>10, <1>11 DEF Next

LEMMA BoundedStep == TypeOK /\ Bounded /\ [Next]_vars => Bounded'
<1> USE PersistenceAssumption DEF TypeOK, Bounded, Version, Torn, Files
<1> SUFFICES ASSUME TypeOK /\ Bounded, [Next]_vars PROVE Bounded'
  OBVIOUS
<1>1. CASE Load
  BY <1>1 DEF Load, Loaded
<1>2. ASSUME NEW f \in Flash, MachineWrites(f) PROVE Bounded'
  BY <1>2 DEF MachineWrites
<1>3. ASSUME NEW b \in Blocks, Evict(b) PROVE Bounded'
  BY <1>3 DEF Evict
<1>4. CASE SaveBegin
  BY <1>4 DEF SaveBegin
<1>5. ASSUME NEW f \in Files, StartFile(f) PROVE Bounded'
  BY <1>5 DEF StartFile
<1>6. ASSUME NEW f \in Files, SkipFile(f) PROVE Bounded'
  BY <1>6 DEF SkipFile
<1>7. ASSUME NEW f \in Files, FailFile(f) PROVE Bounded'
  BY <1>7 DEF FailFile
<1>8. CASE WriteEnds
  BY <1>8 DEF WriteEnds
<1>9. CASE SaveEnds
  BY <1>9 DEF SaveEnds
<1>10. CASE Crash
  BY <1>10 DEF Crash
<1>11. CASE UNCHANGED vars
  BY <1>11 DEF vars
<1> QED BY <1>1, <1>2, <1>3, <1>4, <1>5, <1>6, <1>7, <1>8, <1>9, <1>10, <1>11 DEF Next

LEMMA FiledStep == TypeOK /\ Writing /\ Filed /\ [Next]_vars => Filed'
<1> USE PersistenceAssumption DEF TypeOK, Filed, Writing
<1> SUFFICES ASSUME TypeOK /\ Writing /\ Filed, [Next]_vars PROVE Filed'
  OBVIOUS
<1>1. CASE Load
  BY <1>1 DEF Load
<1>2. ASSUME NEW f \in Flash, MachineWrites(f) PROVE Filed'
  BY <1>2 DEF MachineWrites
<1>3. ASSUME NEW b \in Blocks, Evict(b) PROVE Filed'
  BY <1>3 DEF Evict
<1>4. CASE SaveBegin
  BY <1>4 DEF SaveBegin, Files, Flash
<1>5. ASSUME NEW f \in Files, StartFile(f) PROVE Filed'
  BY <1>5 DEF StartFile, Due
<1>6. ASSUME NEW f \in Files, SkipFile(f) PROVE Filed'
  BY <1>6 DEF SkipFile, Needless, MustWrite, Due, Files
<1>7. ASSUME NEW f \in Files, FailFile(f) PROVE Filed'
  BY <1>7 DEF FailFile, Due
<1>8. CASE WriteEnds
  <2> SUFFICES ASSUME phase = "save" PROVE Filed'
    BY <1>8 DEF WriteEnds
  <2>1. writing \in left /\ left' = left \ {writing} /\ mem' = mem
    BY <1>8 DEF WriteEnds
  <2>2. HasNand => \A b \in Blocks \ left' : card'[b] = mem'[b]
    BY <1>8, <2>1 DEF WriteEnds, Files, Flash
  <2>3. ASSUME faulted' # "yes" PROVE \A f \in Files \ left' : card'[f] = mem'[f]
    BY <1>8, <2>1, <2>3 DEF WriteEnds
  <2>4. ASSUME faulted' # "yes", "state" \notin left'
        PROVE \A f \in Flash : snap'[f] = mem'[f]
    BY <1>8, <2>1, <2>4 DEF WriteEnds
  <2> QED BY <2>2, <2>3, <2>4
<1>9. CASE SaveEnds
  BY <1>9 DEF SaveEnds
<1>10. CASE Crash
  BY <1>10 DEF Crash
<1>11. CASE UNCHANGED vars
  BY <1>11 DEF vars
<1> QED BY <1>1, <1>2, <1>3, <1>4, <1>5, <1>6, <1>7, <1>8, <1>9, <1>10, <1>11 DEF Next

LEMMA OrderedStep == Inv /\ [Next]_vars => Ordered'
<1> USE PersistenceAssumption DEF Inv, TypeOK, Ordered, NotBehind, Version, Torn
<1> SUFFICES ASSUME Inv, [Next]_vars PROVE Ordered'
  OBVIOUS
<1>1. CASE Load
  <2> SUFFICES ASSUME faulted' = "no" PROVE Ordered'
    OBVIOUS
  <2>1. faulted = "no" /\ \A f \in Flash : mem'[f] = card[f]
    BY <1>1 DEF Load, Loaded, Files, Flash
  <2> QED BY <1>1, <2>1 DEF Load, Files
<1>2. ASSUME NEW f \in Flash, MachineWrites(f) PROVE Ordered'
  BY <1>2 DEF MachineWrites, Bounded, Files
<1>3. ASSUME NEW b \in Blocks, Evict(b) PROVE Ordered'
  BY <1>3 DEF Evict, Files, Flash
<1>4. CASE SaveBegin
  BY <1>4 DEF SaveBegin
<1>5. ASSUME NEW f \in Files, StartFile(f) PROVE Ordered'
  BY <1>5 DEF StartFile
<1>6. ASSUME NEW f \in Files, SkipFile(f) PROVE Ordered'
  BY <1>6 DEF SkipFile
<1>7. ASSUME NEW f \in Files, FailFile(f) PROVE Ordered'
  BY <1>7 DEF FailFile
<1>8. CASE WriteEnds
  BY <1>8 DEF WriteEnds, Filed, Writing, Files
<1>9. CASE SaveEnds
  BY <1>9 DEF SaveEnds, Filed, Files
<1>10. CASE Crash
  BY <1>10 DEF Crash
<1>11. CASE UNCHANGED vars
  BY <1>11 DEF vars
<1> QED BY <1>1, <1>2, <1>3, <1>4, <1>5, <1>6, <1>7, <1>8, <1>9, <1>10, <1>11 DEF Next

LEMMA Invariance == Spec => []Inv
<1>1. Inv /\ [Next]_vars => Inv'
  BY TypeStep, WritingStep, BoundedStep, FiledStep, OrderedStep DEF Inv
<1> QED BY InitInv, <1>1, PTL DEF Spec
------------------------------------------------------------------------------
(* Every variable keeps its type, whatever fails and whenever the power    *)
(* goes: nothing is being written while the application is off, and        *)
(* nothing is left of a save that ended.                                   *)
THEOREM TypeCorrect == Spec => []TypeOK
BY Invariance, PTL DEF Inv

(* nc2k_save files the flash before the state: the state on the card never *)
(* refers to flash that is not there.                                      *)
THEOREM StateIsBehindFlash == Spec => []StateNeverAheadOfFlash
<1>1. Inv => StateNeverAheadOfFlash
  BY DEF Inv, Ordered, NotBehind, StateNeverAheadOfFlash
<1> QED BY Invariance, <1>1, PTL

(* What a save put on the card is not rolled back by restarts, write-backs *)
(* or later saves.                                                         *)
THEOREM NothingIsLost == Spec => []NothingSavedIsLost
<1>1. Inv => NothingSavedIsLost
  BY DEF Inv, Ordered, NotBehind, NothingSavedIsLost
<1> QED BY Invariance, <1>1, PTL

(* A save in which nothing failed is complete, and no failure in another   *)
(* file keeps the NAND blocks from theirs.                                 *)
THEOREM SavesAreComplete == Spec => SavesReachCard
<1> DEFINE Complete == /\ faulted # "yes" => card = mem
                       /\ HasNand => \A b \in Blocks : card[b] = mem[b]
<1>1. Inv => [SaveEnds => Complete]_vars
  BY DEF Inv, TypeOK, Filed, SaveEnds
<1> QED BY Invariance, <1>1, PTL DEF SavesReachCard
==============================================================================
