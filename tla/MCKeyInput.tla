----------------------------- MODULE MCKeyInput -----------------------------
(* Places of the panel that matter: where one layout's toggle and save are *)
(* the other has a key or the screen.  Two hardware keys share the code of *)
(* "T" and "7" (0x24), as on the keyboard.                                 *)
EXTENDS KeyInput, TLC

MCHwKeys == {"Tab", "T", "7"}
MCCodeOf == [k \in MCHwKeys |-> CASE k = "Tab" -> "38" [] OTHER -> "24"]
MCFace ==
  [hw   |-> ("corner" :> "toggle") @@ ("app" :> "0b") @@ ("top" :> "screen")
              @@ ("low" :> "screen") @@ ("save" :> "screen")
              @@ ("on" :> "screen") @@ ("off" :> "screen"),
   virt |-> ("corner" :> "1f") @@ ("app" :> "38") @@ ("top" :> "toggle")
              @@ ("low" :> "24") @@ ("save" :> "save")
              @@ ("on" :> "ffon") @@ ("off" :> "ffoff")]
MCHeight == ("corner" :> 4) @@ ("app" :> 4) @@ ("top" :> 0) @@ ("low" :> 2)
              @@ ("save" :> 0) @@ ("on" :> 1) @@ ("off" :> 1)
==============================================================================
