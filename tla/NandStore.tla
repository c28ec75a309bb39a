------------------------------ MODULE NandStore ------------------------------
(***************************************************************************)
(* What the paged NAND promises to the emulated machine and to the card.   *)
(*                                                                         *)
(* The emulated machine sees one array of blocks, store.  The .nand file   *)
(* is disk.  A write changes store at once; disk catches up one block at a *)
(* time, whenever the cache likes, and always with the block's current     *)
(* contents.  A crash throws store away and restarts from disk, where at   *)
(* most one block may be caught half written.                              *)
(*                                                                         *)
(* NandCache implements this module; its slots, LRU clock and fast path    *)
(* are invisible here.                                                     *)
(***************************************************************************)
CONSTANTS
  Blocks,     \* indices of the erase blocks of the main array
  Cells,      \* places within a block
  Values      \* what a cell can hold

VARIABLES
  store,      \* what the emulated machine reads
  disk        \* what the .nand file holds

vars == <<store, disk>>

Content == [Cells -> Values]

Init ==
  /\ disk \in [Blocks -> Content]
  /\ store = disk

(***************************************************************************)
(* The machine writes or erases block b; on the way the cache may have to  *)
(* write back one other block v.                                           *)
(***************************************************************************)
Update(b) ==
  /\ \E x \in Content : store' = [store EXCEPT ![b] = x]
  /\ \/ disk' = disk
     \/ \E v \in Blocks : disk' = [disk EXCEPT ![v] = store[v]]

(***************************************************************************)
(* One block reaches the file: an eviction caused by a read, or a step of  *)
(* a save.                                                                 *)
(***************************************************************************)
WriteBack(b) ==
  /\ disk' = [disk EXCEPT ![b] = store[b]]
  /\ UNCHANGED store

(***************************************************************************)
(* Power is lost or the application restarts.  The block being written, if *)
(* any, is left with the new contents in the cells of K only.              *)
(***************************************************************************)
Crash ==
  /\ \/ disk' = disk
     \/ \E b \in Blocks, K \in SUBSET Cells :
          disk' = [disk EXCEPT ![b] =
                     [c \in Cells |-> IF c \in K THEN store[b][c] ELSE disk[b][c]]]
  /\ store' = disk'

Next ==
  \/ \E b \in Blocks : Update(b) \/ WriteBack(b)
  \/ Crash

Spec == Init /\ [][Next]_vars
==============================================================================
