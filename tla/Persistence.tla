----------------------------- MODULE Persistence -----------------------------
(***************************************************************************)
(* What the emulated machine stores and what of it is on the card: loading *)
(* at the start of the application, the save of nc2k_save (save_flash,     *)
(* then save_state), the write-back of evicted NAND blocks in between, and *)
(* power losses anywhere.  (components/nc2000/nc2000.cpp, nand.cpp,        *)
(* nor.cpp, components/nc2000_run/nc2000_api.cpp and nc2000_run.c)         *)
(*                                                                         *)
(* Contents are version numbers: every write of the machine makes a new    *)
(* one, and the state of the machine itself (its RAM and registers)        *)
(* changes with it.  NAND blocks are files of their own here; how they are *)
(* cached is NandCache's subject.                                          *)
(***************************************************************************)
EXTENDS Integers, Sequences

CONSTANTS
  Blocks,      \* blocks of the .nand file
  HasNand,     \* nc2000mode or nc3000mode
  MaxVersion,  \* bound: writes of the machine
  Faults       \* "open" (an fopen for writing fails), "alloc" (SaveNor's
               \* or LoadNor's buffer is refused), "write" (a write of
               \* nand0, the NOR or the state stops short; that of a NAND
               \* block, and a .nand that does not open, are NandCache's)

ASSUME PersistenceAssumption ==
  /\ HasNand \in BOOLEAN /\ MaxVersion \in Nat
  /\ Blocks \cap {"nand0", "nor", "state"} = {}
  /\ Faults \subseteq {"open", "alloc", "write"}

Flash == (IF HasNand THEN {"nand0"} \cup Blocks ELSE {}) \cup {"nor"}
Files == Flash \cup {"state"}

Torn == -1    \* contents cut short, and what the machine reads of them
Version == Torn..MaxVersion

VARIABLES
  mem,     \* what the machine holds: flash images and its state
  card,    \* what the files hold
  now,     \* the version last made
  phase,   \* "off", "run", "save"
  left,    \* in a save, the files still to be written
  writing, \* the file being written, or Nothing
  snap,    \* history: the flash images when the state was last filed
  saved,   \* history: the flash images when a save last ended
  faulted  \* history: whether something failed since a save last ended in
           \* which nothing did: "no", "yes", or "before" the save going on

vars == <<mem, card, now, phase, left, writing, snap, saved, faulted>>
Nothing == "nothing"

TypeOK ==
  /\ mem \in [Files -> Version]
  /\ card \in [Files -> Version]
  /\ now \in 0..MaxVersion
  /\ phase \in {"off", "run", "save"}
  /\ left \subseteq Files /\ (left # {} => phase = "save")
  /\ writing \in Files \cup {Nothing}
  /\ writing # Nothing => phase # "off"
  /\ snap \in [Flash -> Version]
  /\ saved \in [Flash -> Version]
  /\ faulted \in {"no", "yes", "before"}

Init ==
  /\ mem = [f \in Files |-> 0] /\ card = [f \in Files |-> 0]
  /\ now = 0 /\ phase = "off" /\ left = {} /\ writing = Nothing
  /\ snap = [f \in Flash |-> 0] /\ saved = snap /\ faulted = "no"

------------------------------------------------------------------------------
(* The machine *)

(* Mutant: the NOR is not read again. *)
LoadedButNor(f) == IF f \in {"state", "nor"} THEN 0 ELSE card[f]
(* LoadNC2k: the flash images come from their files, the state does not:   *)
(* enable_load_state is off, the machine starts anew.                      *)
Loaded(f) == IF f = "state" THEN 0 ELSE card[f]

(* A file that does not open, and a NOR whose buffer is refused, leave the *)
(* image blank; the machine runs on with that.                             *)
LoadFails(f) ==
  \/ "open" \in Faults /\ f \in {"nand0", "nor"}
  \/ "alloc" \in Faults /\ f = "nor"

Load ==
  /\ phase = "off"
  /\ \E failed \in SUBSET {f \in Flash : LoadFails(f)} :
       /\ mem' = [f \in Files |-> IF f \in failed THEN 0 ELSE Loaded(f)]
       /\ faulted' = IF failed = {} THEN faulted ELSE "yes"
  /\ phase' = "run"
  /\ UNCHANGED <<card, now, left, writing, snap, saved>>

(* The machine writes flash f: a slice of nc2k_run_slice. *)
MachineWrites(f) ==
  /\ phase = "run" /\ writing = Nothing /\ now < MaxVersion
  /\ now' = now + 1
  /\ mem' = [mem EXCEPT ![f] = now + 1, !["state"] = now + 1]
  /\ UNCHANGED <<card, phase, left, writing, snap, saved, faulted>>

(* nand_get_block evicts block b, dirty, and starts to write it back. *)
Evict(b) ==
  /\ phase = "run" /\ writing = Nothing /\ HasNand
  /\ card[b] # mem[b]
  /\ writing' = b
  /\ card' = [card EXCEPT ![b] = Torn]
  /\ UNCHANGED <<mem, now, phase, left, snap, saved, faulted>>

------------------------------------------------------------------------------
(* The save *)

(* nc2k_save, between two slices: the user asked for it or leaves. *)
SaveBegin ==
  /\ phase = "run" /\ writing = Nothing
  /\ phase' = "save" /\ left' = Files
  /\ faulted' = IF faulted = "no" THEN "no" ELSE "before"
  /\ UNCHANGED <<mem, card, now, writing, snap, saved>>

(* Mutant: save_state before save_flash. *)
DueStateFirst(f) ==
  /\ f # "state"  => "state" \notin left
  /\ f \in Blocks => "nand0" \notin left
  /\ f = "nor"    => left \cap (Blocks \cup {"nand0"}) = {}
(* save_flash writes nand0, then the blocks, then the NOR; save_state comes *)
(* last.                                                                   *)
Due(f) ==
  /\ f \in Blocks => "nand0" \notin left
  /\ f = "nor"   => left \cap (Blocks \cup {"nand0"}) = {}
  /\ f = "state" => left = {"state"}

(* A clean block is not written at all. *)
Needless(f) == f \in Blocks /\ card[f] = mem[f]

(* Mutants: SaveNor or write_nand_file left out of save_flash. *)
MustWriteButNor(f) == ~Needless(f) /\ f # "nor"
MustWriteButNand(f) == f \notin Blocks
MustWrite(f) == ~Needless(f)

(* fopen truncates the file, or a block is overwritten in place: until it  *)
(* is closed the file holds neither the old nor the new contents.          *)
StartFile(f) ==
  /\ phase = "save" /\ writing = Nothing /\ f \in left /\ Due(f)
  /\ MustWrite(f)
  /\ writing' = f
  /\ card' = [card EXCEPT ![f] = Torn]
  /\ UNCHANGED <<mem, now, phase, left, snap, saved, faulted>>

(* A clean block is left as it is. *)
SkipFile(f) ==
  /\ phase = "save" /\ writing = Nothing /\ f \in left /\ Due(f)
  /\ ~MustWrite(f)
  /\ left' = left \ {f}
  /\ UNCHANGED <<mem, card, now, phase, writing, snap, saved, faulted>>

(* So is a file whose fopen fails, which nand0 and the state take silently, *)
(* and a NOR whose buffer is refused; the save goes on.                     *)
FailFile(f) ==
  /\ phase = "save" /\ writing = Nothing /\ f \in left /\ Due(f)
  /\ \/ "open" \in Faults /\ f \in {"nand0", "state"}
     \/ "alloc" \in Faults /\ f = "nor"
  /\ left' = left \ {f} /\ faulted' = "yes"
  /\ UNCHANGED <<mem, card, now, phase, writing, snap, saved>>

(* The write ends: in full, or short, which nobody looks at. *)
WriteEnds ==
  /\ writing # Nothing
  /\ \/ card' = [card EXCEPT ![writing] = mem[writing]] /\ UNCHANGED faulted
     \/ "write" \in Faults /\ writing \notin Blocks /\ faulted' = "yes" /\ UNCHANGED card
  /\ snap' = IF writing = "state" THEN [f \in Flash |-> mem[f]] ELSE snap
  /\ writing' = Nothing
  /\ left' = left \ {writing}
  /\ UNCHANGED <<mem, now, phase, saved>>

(* Mutant: nc2k_save returns after save_flash. *)
SaveEndsAfterFlash ==
  /\ phase = "save" /\ left \subseteq {"state"} /\ writing = Nothing
  /\ phase' = "run"
  /\ saved' = [f \in Flash |-> mem[f]]
  /\ faulted' = IF faulted = "before" THEN "no" ELSE faulted
  /\ UNCHANGED <<mem, card, now, left, writing, snap>>
SaveEnds ==
  /\ phase = "save" /\ left = {}
  /\ phase' = "run"
  /\ saved' = [f \in Flash |-> mem[f]]
  /\ faulted' = IF faulted = "before" THEN "no" ELSE faulted
  /\ UNCHANGED <<mem, card, now, left, writing, snap>>

(* Power is lost, the application leaves, or SaveNor writes through the    *)
(* null FILE of an fopen that failed.                                      *)
Crash ==
  /\ phase # "off"
  /\ phase' = "off" /\ left' = {} /\ writing' = Nothing
  /\ UNCHANGED <<mem, card, now, snap, saved, faulted>>

Next ==
  \/ Load
  \/ \E f \in Flash : MachineWrites(f)
  \/ \E b \in Blocks : Evict(b)
  \/ SaveBegin
  \/ \E f \in Files : StartFile(f) \/ SkipFile(f) \/ FailFile(f)
  \/ WriteEnds \/ SaveEnds \/ Crash

Spec == Init /\ [][Next]_vars

------------------------------------------------------------------------------
(* Properties *)

(* Once a save ended in which nothing failed, what the machine holds is on *)
(* the card, all of it, whatever power losses, torn files, write-backs and *)
(* failures came before; and whatever fails in the other files, the NAND   *)
(* blocks are in theirs.                                                   *)
(* (nc2k_save, nc2000_api.cpp:153-157, save_flash, nc2000.cpp:191-196)     *)
SavesReachCard ==
  [][SaveEnds => /\ faulted # "yes" => card = mem
                 /\ HasNand => \A b \in Blocks : card[b] = mem[b]]_vars

(* The state on the card never refers to flash that is not there: each     *)
(* flash file is at least as new as it was when the state was filed, or    *)
(* was cut short by a power loss, unless something failed.  A power loss   *)
(* between two files of a save would break this if the state were written  *)
(* before the flash.  (nc2k_save, nc2000_api.cpp:153-157)                  *)
StateNeverAheadOfFlash ==
  (faulted = "no" /\ card["state"] # Torn /\ writing # "state") =>
    \A f \in Flash : card[f] >= snap[f] \/ card[f] = Torn

(* What a finished save put on the card is not rolled back by what comes   *)
(* later, restarts and further saves included; a file cut short by a power *)
(* loss is the only one whose saved contents are lost, unless something    *)
(* failed.  (LoadNC2k, nc2000.cpp:68-122, save_flash, nc2000.cpp:191-196)  *)
NothingSavedIsLost ==
  faulted = "no" =>
    \A f \in Flash : card[f] >= saved[f] \/ card[f] = Torn \/ mem[f] = Torn

(* What was saved on leaving continues after a restart (PORTING.md:163).   *)
RestartContinues ==
  [][Load /\ card["state"] # Torn => mem'["state"] = card["state"]]_vars
==============================================================================
