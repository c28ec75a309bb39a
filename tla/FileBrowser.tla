----------------------------- MODULE FileBrowser -----------------------------
(***************************************************************************)
(* The file browser (components/file_browser/file_browser.c): a list of a  *)
(* directory's subdirectories and ROMs, scrolled by dragging, opened by    *)
(* tapping.  The loop of file_browser_run draws the list and then looks at *)
(* the panel once; a read of the panel that fails is no touch.  A path is  *)
(* the names below "/sd".                                                  *)
(***************************************************************************)
EXTENDS Integers, FiniteSets, SequencesExt

CONSTANTS
  Card,        \* what readdir and stat give: entries by path, in readdir's order
  MAX_FILES,
  SCREEN_H, TITLE_H, ROW_HEIGHT,
  SLOP,        \* 6: a finger that moved farther drags
  CardFails    \* whether a directory may fail to open

(* Names are numbers in the order of strcasecmp. *)
Entries == [kind : {"dir", "rom", "other"}, name : Nat]

ASSUME BrowserAssumption ==
  /\ DOMAIN Card \subseteq Seq(Nat) /\ <<>> \in DOMAIN Card
  /\ \A p \in DOMAIN Card : Card[p] \in Seq(Entries)
  /\ \A p \in DOMAIN Card \ {<<>>} : Front(p) \in DOMAIN Card
  /\ \A p \in DOMAIN Card : \A i \in DOMAIN Card[p] :
       Card[p][i].kind = "dir" => Append(p, Card[p][i].name) \in DOMAIN Card
  /\ MAX_FILES \in Nat \ {0} /\ ROW_HEIGHT \in Nat \ {0} /\ SLOP \in Nat
  /\ TITLE_H \in Nat /\ SCREEN_H \in Nat /\ SCREEN_H >= TITLE_H + ROW_HEIGHT
  /\ CardFails \in BOOLEAN

VARIABLES
  s_current_path,
  s_files,         \* with s_file_count its length; counted from 1 here
  s_scroll_offset,
  s_running,
  s_press,         \* the touch: where it began, the scroll then, whether it dragged
  s_selected,      \* what was opened: a path of a ROM, or NotYet
  finger           \* history: where the touch began, what was drawn there then,
                   \* and whether it strayed

browser == <<s_current_path, s_files, s_scroll_offset, s_running, s_press, s_selected, finger>>

NoTouch == [touching |-> FALSE]
NotYet  == <<>>
Nothing == [kind |-> "nothing"]
NoFinger == [at |-> 0, on |-> Nothing, strayed |-> FALSE]
UpEntry == [kind |-> "up"]

VisibleRows == (SCREEN_H - TITLE_H) \div ROW_HEIGHT
MaxOf(a, b) == IF a > b THEN a ELSE b
MinOf(a, b) == IF a < b THEN a ELSE b

------------------------------------------------------------------------------
(* compare_entries: directories first, then by name. *)
Before(e, f) ==
  \/ e.kind = "dir" /\ f.kind # "dir"
  \/ (e.kind = "dir") = (f.kind = "dir") /\ e.name < f.name

(* scan_directory: what is worth showing of a directory, at most the first *)
(* MAX_FILES of it,                                                        *)
Worth(path) == {i \in DOMAIN Card[path] : Card[path][i].kind \in {"dir", "rom"}}
Listed(path) == {i \in Worth(path) : Cardinality({j \in Worth(path) : j < i}) < MAX_FILES}

(* sorted, after a way up unless it is the root or there is no room;       *)
(* nothing, not even that, when the directory does not open.  qsort leaves *)
(* the order of equal names open.                                          *)
Sorted(path) ==
  {o \in SetToSeqs(Listed(path)) :
     \A i, j \in DOMAIN o : i < j => ~Before(Card[path][o[j]], Card[path][o[i]])}
WithUp(path, files) ==
  IF path # <<>> /\ Len(files) < MAX_FILES THEN <<UpEntry>> \o files ELSE files
Scanned(path) ==
  {WithUp(path, [i \in DOMAIN o |-> Card[path][o[i]]]) : o \in Sorted(path)}
  \cup (IF CardFails THEN {<<>>} ELSE {})

(* rescan, and file_browser_init with the root. *)
Show(path) ==
  /\ s_current_path' = path
  /\ s_files' \in Scanned(path)
  /\ s_scroll_offset' = 0
  /\ UNCHANGED <<s_running, s_selected>>

file_browser_init ==
  /\ s_current_path' = <<>> /\ s_files' \in Scanned(<<>>)
  /\ s_scroll_offset' = 0 /\ s_running' = TRUE
  /\ s_press' = NoTouch /\ s_selected' = NotYet /\ finger' = NoFinger

Stay == UNCHANGED <<s_current_path, s_files, s_scroll_offset, s_running, s_selected>>

(* go_up: at the root nothing is done, the list is not even read again. *)
go_up == IF s_current_path = <<>> THEN Stay ELSE Show(Front(s_current_path))

(* activate_index *)
Activate(i) ==
  IF i \notin DOMAIN s_files THEN Stay
  ELSE CASE s_files[i].kind = "up"  -> go_up
         [] s_files[i].kind = "dir" -> Show(Append(s_current_path, s_files[i].name))
         [] s_files[i].kind = "rom" ->
              /\ s_selected' = Append(s_current_path, s_files[i].name)
              /\ s_running' = FALSE
              /\ UNCHANGED <<s_current_path, s_files, s_scroll_offset>>

------------------------------------------------------------------------------
(* draw_ui: the entry drawn at height y of the screen. *)
Drawn(y) ==
  LET row == (y - TITLE_H) \div ROW_HEIGHT
      i   == s_scroll_offset + row + 1
  IN  IF y >= TITLE_H /\ row < VisibleRows /\ i \in DOMAIN s_files THEN s_files[i] ELSE Nothing

MaxOff == MaxOf(0, Len(s_files) - VisibleRows)

(* C divides towards zero. *)
Rows(dy) == IF dy < 0 THEN -((-dy) \div ROW_HEIGHT) ELSE dy \div ROW_HEIGHT

(* Mutant: a finger that moves up is not seen to drag. *)
FarDown(dy) == dy > SLOP
Far(dy) == dy > SLOP \/ dy < -SLOP

(* handle_touch with a finger at height y: it begins a touch, or drags. *)
Press(y) ==
  /\ ~s_press.touching
  /\ s_press' = [touching |-> TRUE, uy |-> y, scroll |-> s_scroll_offset, dragged |-> FALSE]
  /\ finger' = [at |-> y, on |-> Drawn(y), strayed |-> FALSE]
  /\ Stay

Hold(y) ==
  /\ s_press.touching
  /\ LET dy == y - s_press.uy
     IN  /\ s_press' = [s_press EXCEPT !.dragged = @ \/ Far(dy)]
         /\ s_scroll_offset' =
              IF s_press'.dragged THEN MinOf(MaxOf(s_press.scroll - Rows(dy), 0), MaxOff)
              ELSE s_scroll_offset
  /\ finger' = [finger EXCEPT !.strayed = @ \/ y \notin finger.at-SLOP..finger.at+SLOP]
  /\ UNCHANGED <<s_current_path, s_files, s_running, s_selected>>

(* The entry a tap means. *)
Tapped == s_press.scroll + (s_press.uy - TITLE_H) \div ROW_HEIGHT + 1

(* No finger, or none that could be read: a touch that did not drag taps. *)
Release ==
  /\ s_press.touching
  /\ s_press' = NoTouch /\ finger' = NoFinger
  /\ IF s_press.dragged THEN Stay
     ELSE IF s_press.uy < TITLE_H THEN go_up ELSE Activate(Tapped)

(* A round of file_browser_run's loop. *)
handle_touch ==
  /\ s_running
  /\ (\E y \in 0..SCREEN_H-1 : Press(y) \/ Hold(y)) \/ Release

BrowserInit ==
  /\ s_current_path = <<>> /\ s_files = <<>> /\ s_scroll_offset = 0 /\ s_running = FALSE
  /\ s_press = NoTouch /\ s_selected = NotYet /\ finger = NoFinger

------------------------------------------------------------------------------
(* Properties *)

BrowserTypeOK ==
  /\ s_current_path \in DOMAIN Card
  /\ s_files \in Scanned(s_current_path) \cup {<<>>}
  /\ s_scroll_offset \in 0..MaxOff
  /\ s_running \in BOOLEAN
  /\ s_press.touching => s_press.uy \in 0..SCREEN_H-1 /\ s_press.scroll \in 0..MaxOff

(* What a touch opens is what was drawn under it when it began; a finger   *)
(* that strayed farther than it slips opens nothing, even when it came     *)
(* back; and the strip below the last row opens nothing but the entry that *)
(* would be drawn next.  "drag=scroll  tap=open  top=up"                   *)
(* (draw_ui and handle_touch, file_browser.c:362, 471-514)                 *)
Opened ==
  CASE s_selected' # s_selected -> [kind |-> "rom", name |-> Last(s_selected')]
    [] Len(s_current_path') > Len(s_current_path) ->
         [kind |-> "dir", name |-> Last(s_current_path')]
    [] Len(s_current_path') < Len(s_current_path) -> UpEntry
    [] OTHER -> Nothing
NextBelow ==
  LET i == s_scroll_offset + VisibleRows + 1
  IN  IF i \in DOMAIN s_files THEN s_files[i] ELSE Nothing
Offered ==
  IF finger.at < TITLE_H THEN UpEntry
  ELSE IF finger.at < TITLE_H + VisibleRows * ROW_HEIGHT THEN finger.on ELSE NextBelow
TapOpensWhatIsShown ==
  [][handle_touch /\ Opened # Nothing => ~finger.strayed /\ Opened = Offered]_browser
==============================================================================
