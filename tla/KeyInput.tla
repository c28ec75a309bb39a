------------------------------ MODULE KeyInput ------------------------------
(***************************************************************************)
(* How the user reaches the machine: nc2k_poll_input and the main loop of  *)
(* components/nc2000_run/nc2000_run.c, the hardware keyboard's queue       *)
(* (components/kbd_hw/kbd_hw.c), and the key matrix behind nc2k_set_key.   *)
(*                                                                         *)
(* The keyboard queues events and the touch panel tells where the fingers  *)
(* are; both are looked at once a frame, and between two frames the user   *)
(* may do anything.  A place on the panel is a spot; what it stands for    *)
(* depends on the layout: the key strip below the big screen ("hw") or the *)
(* whole keyboard around a small one ("virt").  The gamepad is a stub that *)
(* reports nothing.                                                        *)
(***************************************************************************)
EXTENDS Integers, SequencesExt

CONSTANTS
  HwKeys,      \* keys of the hardware keyboard
  CodeOf,      \* HWMAP: their codes, NoCode for none; some share a code
  Spots,       \* places on the panel
  Face,        \* FN and KB: what each layout has at each spot: a code,
               \* "screen", "none", "exit", "save", "toggle", "ffon", "ffoff"
  Height,      \* the height of a spot, in swipe thresholds
  MaxPoll,     \* events read at once: 16
  MaxQueue,    \* bound: events in the keyboard's queue
  MaxFingers,  \* bound: fingers on the panel
  Brightest,   \* s_brightness goes from 1 to this, in steps
  MaxStarts,   \* bound: how often the application starts
  Faults       \* "detached" (no keyboard at the start), "i2c" (reading it
               \* fails), "touch" (reading the panel fails), "file" (.kbmode
               \* does not open, for reading or writing, or is not written)

NoCode == "no code"
Marks  == {"screen", "none", "exit", "save", "toggle", "ffon", "ffoff"}
Layouts == {"hw", "virt"}

ASSUME KeyAssumption ==
  /\ NoCode \notin Marks
  /\ \A m \in Layouts : \A p \in Spots : Face[m][p] # NoCode
  /\ \A k \in HwKeys : CodeOf[k] \notin Marks
  /\ IsFiniteSet(HwKeys)
  /\ MaxPoll \in Nat \ {0} /\ MaxQueue \in Nat /\ MaxFingers \in Nat
  /\ Brightest \in Nat \ {0} /\ MaxStarts \in Nat
  /\ Faults \subseteq {"detached", "i2c", "touch", "file"}

VARIABLES
  pressed,     \* hardware keys the user holds down
  queue,       \* the keyboard's events
  fingers,     \* spots the user touches
  phase,       \* "off", "poll", "serve"
  attached,    \* s_ok: the keyboard was there at the start
  hw_down,     \* codes the hardware keyboard holds down
  kb_state,    \* codes last pushed
  matrix,      \* codes the machine finds pressed
  mode,        \* s_ui_mode
  prev,        \* the marks touched at the last poll: exit_prev, save_prev, tgl_prev
  fast,        \* s_fast
  request,     \* s_save_req, s_kbd_exit
  swipe,       \* s_swipe_origin_y, s_brightness, and the backlight
  kbmode,      \* the .kbmode file: a layout, "none" if missing or empty
  starts,      \* how often the application started
  still,       \* history: marks acted on since a finger last moved
  chosen,      \* history: the layout the user last chose, "none" if none or if
               \* it did not reach the file
  unread       \* history: this start, not yet at its first poll, could not open
               \* the file

user == <<pressed, queue, fingers>>
vars == <<user, phase, attached, hw_down, kb_state, matrix, mode, prev, fast, request,
          swipe, kbmode, starts, still, chosen, unread>>

Buttons == {"exit", "save", "toggle"}
NoSwipe == -1
Codes == ({CodeOf[k] : k \in HwKeys}
            \cup {Face[m][p] : m \in Layouts, p \in Spots}) \ (Marks \cup {NoCode})

TypeOK ==
  /\ pressed \subseteq HwKeys /\ fingers \subseteq Spots
  /\ \A i \in DOMAIN queue : queue[i].key \in HwKeys /\ queue[i].down \in BOOLEAN
  /\ phase \in {"off", "poll", "serve"}
  /\ hw_down \subseteq Codes /\ kb_state \subseteq Codes /\ matrix \subseteq Codes
  /\ attached \in BOOLEAN
  /\ mode \in Layouts
  /\ prev \subseteq Buttons /\ still \subseteq Buttons
  /\ request \subseteq {"save", "exit"}
  /\ fast \in BOOLEAN
  /\ swipe.origin \in {NoSwipe} \cup {Height[p] : p \in Spots}
  /\ swipe.brightness \in 1..Brightest /\ swipe.backlight \in 1..Brightest
  /\ kbmode \in Layouts \cup {"none"}
  /\ chosen \in Layouts \cup {"none"} /\ unread \in BOOLEAN

Init ==
  /\ pressed = {} /\ queue = <<>> /\ fingers = {}
  /\ phase = "off" /\ attached = FALSE /\ hw_down = {} /\ kb_state = {} /\ matrix = {}
  /\ mode = "hw" /\ prev = {} /\ fast = FALSE /\ request = {}
  /\ swipe = [origin |-> NoSwipe, brightness |-> Brightest, backlight |-> Brightest]
  /\ kbmode = "none" /\ starts = 0 /\ still = {} /\ chosen = "none" /\ unread = FALSE

------------------------------------------------------------------------------
(* The user *)

Key(k) ==
  /\ Len(queue) < MaxQueue
  /\ pressed' = IF k \in pressed THEN pressed \ {k} ELSE pressed \cup {k}
  /\ queue' = Append(queue, [key |-> k, down |-> k \notin pressed])
  /\ UNCHANGED fingers

Touch(p) ==
  /\ p \notin fingers => Cardinality(fingers) < MaxFingers
  /\ fingers' = IF p \in fingers THEN fingers \ {p} ELSE fingers \cup {p}
  /\ UNCHANGED <<pressed, queue>>

User ==
  /\ (\E k \in HwKeys : Key(k)) \/ (\E p \in Spots : Touch(p))
  /\ still' = IF fingers' = fingers THEN still ELSE {}
  /\ UNCHANGED <<phase, attached, hw_down, kb_state, matrix, mode, prev, fast, request,
                 swipe, kbmode, starts, chosen, unread>>

------------------------------------------------------------------------------
(* nc2000_run up to its loop: everything it holds starts anew; the layout  *)
(* is what .kbmode says, else, or when it does not open, that of the       *)
(* keyboard found.                                                         *)
Start ==
  /\ phase = "off" /\ starts < MaxStarts
  /\ phase' = "poll" /\ starts' = starts + 1
  /\ hw_down' = {} /\ kb_state' = {} /\ matrix' = {}
  /\ attached' \in {TRUE} \cup (IF "detached" \in Faults THEN {FALSE} ELSE {})
  /\ unread' \in {FALSE} \cup (IF "file" \in Faults THEN {TRUE} ELSE {})
  /\ mode' = IF kbmode \in Layouts /\ ~unread' THEN kbmode
             ELSE IF attached' THEN "hw" ELSE "virt"
  /\ prev' = {} /\ fast' = FALSE /\ request' = {}
  /\ swipe' = [origin |-> NoSwipe, brightness |-> Brightest, backlight |-> Brightest]
  /\ still' = {}
  /\ UNCHANGED <<user, kbmode, chosen>>

------------------------------------------------------------------------------
(* nc2k_poll_input *)

(* kbd_hw_poll reads the first n events; a failing read ends it, and the   *)
(* event it was to fetch is gone or still there.                           *)
Taken ==
  LET all == IF ~attached THEN 0
             ELSE IF Len(queue) < MaxPoll THEN Len(queue) ELSE MaxPoll
  IN  {[n |-> all, gone |-> all]} \cup
        (IF "i2c" \in Faults
         THEN {[n |-> i, gone |-> j] : i \in 0..all, j \in 0..all} ELSE {})
Reading == {t \in Taken : t.gone - t.n \in 0..1}

(* Mutant: a release does not clear the code. *)
HeldPressesOnly(held, e) ==
  IF CodeOf[e.key] = NoCode \/ ~e.down THEN held ELSE held \cup {CodeOf[e.key]}
(* hw_down after one event. *)
Held(held, e) ==
  IF CodeOf[e.key] = NoCode THEN held
  ELSE IF e.down THEN held \cup {CodeOf[e.key]} ELSE held \ {CodeOf[e.key]}

(* The points the panel reports, in whatever order; none if it fails. *)
Points ==
  {s \in [1..Cardinality(fingers) -> fingers] : IsInjective(s)}
    \cup (IF "touch" \in Faults THEN {<<>>} ELSE {})

On(p) == Face[mode][p]

(* Mutant: the brightness has no upper limit. *)
BrighterUnbounded(s, delta) ==
  [s EXCEPT !.brightness = @ + delta, !.backlight = s.brightness + delta]
(* apply_brightness_delta and the swipe that leads to it. *)
Brighter(s, delta) ==
  LET b == IF s.brightness + delta \in 1..Brightest THEN s.brightness + delta
           ELSE s.brightness
  IN  IF b = s.brightness THEN s ELSE [s EXCEPT !.brightness = b, !.backlight = b]

Swiped(s, p) ==
  IF On(p) # "screen" THEN s
  ELSE IF s.origin = NoSwipe THEN [s EXCEPT !.origin = Height[p]]
  ELSE IF s.origin > Height[p] + 1 THEN [Brighter(s, 1) EXCEPT !.origin = Height[p]]
  ELSE IF s.origin < Height[p] - 1 THEN [Brighter(s, -1) EXCEPT !.origin = Height[p]]
  ELSE s

Sped(f, p) == IF On(p) = "ffon" THEN TRUE ELSE IF On(p) = "ffoff" THEN FALSE ELSE f

(* Mutant: a button acts as long as it is touched. *)
NewlyLevel(marks) == marks
(* The buttons that act: those not touched at the last poll. *)
Newly(marks) == marks \ prev

(* Mutant: a key that is no longer wanted is not taken back. *)
PushedDownsOnly(want) == matrix \cup (want \ kb_state)
(* nc2k_set_key for every code whose level changed; that it may also wake  *)
(* the machine up is MachineClock's subject.                               *)
Pushed(want) == (matrix \cup (want \ kb_state)) \ (kb_state \ want)

Other(m) == IF m = "hw" THEN "virt" ELSE "hw"
(* Mutant: kbmode_save before the layout is changed. *)
FiledBefore == mode
(* What kbmode_save writes. *)
Filed == Other(mode)

(* .kbmode afterwards: unchanged when it did not open; fopen with "wb"     *)
(* empties it.                                                             *)
Written(failed) ==
  IF failed = "no" THEN Filed ELSE IF failed = "open" THEN kbmode ELSE "none"
Failures == {"no"} \cup (IF "file" \in Faults THEN {"open", "write"} ELSE {})

(* Everything a poll does, with what may happen to the file when the       *)
(* layout changes, which nobody looks at.                                  *)
Polled(reading, points, failures) ==
  LET touched == {On(points[i]) : i \in DOMAIN points}
      acting  == Newly(touched \cap Buttons)
      held    == FoldLeft(Held, hw_down, SubSeq(queue, 1, reading.n))
      want    == held \cup (touched \ Marks)
  IN  /\ queue' = SubSeq(queue, reading.gone + 1, Len(queue))
      /\ hw_down' = held
      /\ swipe' = IF points = <<>> THEN [swipe EXCEPT !.origin = NoSwipe]
                  ELSE FoldLeft(Swiped, swipe, points)
      /\ fast' = FoldLeft(Sped, fast, points)
      /\ request' = request \cup (acting \cap {"save", "exit"})
      /\ IF "toggle" \in acting
         THEN /\ mode' = Other(mode)
              /\ \E failed \in failures :
                   /\ kbmode' = Written(failed)
                   /\ chosen' = IF failed = "no" THEN mode' ELSE "none"
         ELSE UNCHANGED <<mode, kbmode, chosen>>
      /\ unread' = FALSE
      /\ prev' = touched \cap Buttons
      /\ matrix' = Pushed(want) /\ kb_state' = want
      /\ still' = still \cup acting
      /\ UNCHANGED <<pressed, fingers, attached, starts>>

Poll ==
  /\ phase = "poll" /\ phase' = "serve"
  /\ \E reading \in Reading, points \in Points : Polled(reading, points, Failures)

(* Power is lost while .kbmode is open. *)
CrashWriting ==
  /\ phase = "poll" /\ phase' = "off"
  /\ \E reading \in Reading, points \in Points :
       /\ "toggle" \in Newly({On(points[i]) : i \in DOMAIN points})
       /\ Polled(reading, points, {"write"})

------------------------------------------------------------------------------
(* The rest of the loop: a save that was asked for blanks the screen and   *)
(* lights it up again; leaving saves and ends it.                          *)
Serve ==
  /\ phase = "serve"
  /\ phase' = IF "exit" \in request THEN "off" ELSE "poll"
  /\ request' = {}
  /\ swipe' = IF "save" \in request THEN [swipe EXCEPT !.backlight = Brightest]
              ELSE swipe
  /\ UNCHANGED <<user, attached, hw_down, kb_state, matrix, mode, prev, fast, kbmode,
                 starts, still, chosen, unread>>

Crash ==
  /\ phase # "off" /\ phase' = "off"
  /\ UNCHANGED <<user, attached, hw_down, kb_state, matrix, mode, prev, fast, request,
                 swipe, kbmode, starts, still, chosen, unread>>

Next == User \/ Start \/ Poll \/ CrashWriting \/ Serve \/ Crash

(* The loop goes round as long as the application runs: nothing but a poll *)
(* leads from "poll" to "serve".                                           *)
Turn == (phase = "poll" /\ phase' = "serve") \/ Serve

Spec == Init /\ [][Next]_vars /\ WF_phase(Turn)

------------------------------------------------------------------------------
(* Properties *)

(* What the fingers rest on is told from the panel, what the keys are is   *)
(* told from the events since the start.                                   *)
Touched == {On(p) : p \in fingers} \ Marks
KeysOf(c) == {k \in HwKeys : CodeOf[k] = c}

(* After a poll that left no event behind, the machine finds pressed       *)
(* exactly the keys the user holds or touches in the layout in force at    *)
(* the poll, of those codes that no two hardware keys share: no key is     *)
(* lost, stuck or invented however presses, releases, touches and changes  *)
(* of the layout mix.  Keys held across a restart are left out: the        *)
(* program does not learn of them until they are pressed again.            *)
(* (nc2k_poll_input, nc2000_run.c:477-577)                                 *)
MachineSeesWhatIsHeld ==
  [][attached /\ starts = 1 /\ queue' = <<>> /\ Poll =>
       \A c \in Codes : Cardinality(KeysOf(c)) <= 1 =>
         (c \in matrix' <=> KeysOf(c) \cap pressed # {} \/ c \in Touched)]_vars

(* No key is stuck, codes that several keys share and restarts included:   *)
(* after a poll that left no event behind, the machine finds only such     *)
(* codes pressed as some key held or some finger makes.                    *)
(* (nc2000_run.c:483-493, 572-576)                                         *)
NoKeyIsStuck ==
  [][queue' = <<>> /\ Poll =>
       matrix' \subseteq {CodeOf[k] : k \in pressed} \cup Touched]_vars

(* When the user lets go of everything, the machine soon finds nothing     *)
(* pressed, however many events were waiting.  (kbd_hw.c:90-108)           *)
LettingGoIsSeen ==
  <>[](pressed = {} /\ fingers = {} /\ phase # "off") => <>[](matrix = {})

(* A button acts once per touch: while no finger moves, neither the change *)
(* of the layout under them nor the polls that follow make one act again.  *)
(* (nc2000_run.c:555-558)                                                  *)
ButtonsActOnce ==
  [][\A b \in Buttons : b \in still /\ ~User =>
       /\ b = "toggle" => mode' = mode \/ phase = "off"
       /\ b \in request' => b \in request]_vars

(* The layout at a start is the one last chosen, over starts, exits and    *)
(* power losses, unless the choice did not reach the file (power was lost  *)
(* while it was being written, or it did not open or take the byte, of     *)
(* which the program takes no notice), or this start cannot open the file. *)
(* (nc2000_run.c:469-475, 625-636)                                         *)
LayoutIsRemembered ==
  [][chosen # "none" /\ ~unread' /\ Start => mode' = chosen]_vars

(* "leave the emulator" (nc2000_run.c:105): who touches every place on the *)
(* panel again and again, in every layout, leaves the emulator.            *)
UserCanLeave ==
  (\A p \in Spots, m \in Layouts : []<><<Poll /\ mode = m /\ fingers = {p}>>_vars)
    => <>("exit" \in request)
==============================================================================
