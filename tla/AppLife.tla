------------------------------- MODULE AppLife -------------------------------
(***************************************************************************)
(* The life of the application with its file browser: BootGuard's steps,   *)
(* and while it browses (app_main between the mounting of the card and the *)
(* running of a ROM) the browser's.  A reset forgets the browser's static  *)
(* variables; the timer of the crash guard and a crash come at any moment  *)
(* of the browsing.                                                        *)
(***************************************************************************)
EXTENDS BootGuard, FileBrowser

lifeVars == <<vars, browser>>

LifeInit == Init /\ BrowserInit

(* The card is mounted: the browser reads the root and starts its loop. *)
Mount ==
  /\ MountCard
  /\ IF phase' = "browse" THEN file_browser_init ELSE UNCHANGED browser

(* A round of the loop: when a ROM was opened, it is the last one, and the *)
(* machine is started with that ROM: its name has one of the suffixes that *)
(* app_main knows.                                                         *)
Browse ==
  /\ phase = "browse"
  /\ handle_touch
  /\ IF s_running' THEN UNCHANGED vars ELSE Select

(* app_main leaves, or everything ends: the next start finds nothing of    *)
(* the browser.                                                            *)
Leave ==
  /\ Return \/ Crash
  /\ s_current_path' = <<>> /\ s_files' = <<>> /\ s_scroll_offset' = 0 /\ s_running' = FALSE
  /\ s_press' = NoTouch /\ s_selected' = NotYet /\ finger' = NoFinger

Elsewhere ==
  /\ \/ PowerOn \/ Launch \/ InitNvs \/ GuardPass \/ ClearCount \/ Rollback
     \/ InitDone \/ Tick \/ TimerFires
  /\ UNCHANGED browser

LifeNext == Mount \/ Browse \/ Leave \/ Elsewhere

LifeSpec == LifeInit /\ [][LifeNext]_lifeVars /\ Fairness

LifeTypeOK == TypeOK /\ BrowserTypeOK
==============================================================================
