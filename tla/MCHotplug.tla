----------------------------- MODULE MCHotplug -----------------------------
(***************************************************************************)
(* Small instances of Hotplug.                                             *)
(***************************************************************************)
EXTENDS Hotplug

CONSTANTS mouse, mouse2, keyboard

\* Two mice, one of them with keys, and a keyboard.
SomeCapabilities ==
    [d \in Device |->
        CASE d = mouse    -> {"REL_X", "REL_Y", "BTN_MOUSE"}
          [] d = mouse2   -> {"REL_X", "REL_Y", "BTN_MOUSE", "TYPING_KEY"}
          [] d = keyboard -> {"TYPING_KEY"}]
=============================================================================
