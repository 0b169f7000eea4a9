-------------------------- MODULE MCHotplugDaemon ---------------------------
(***************************************************************************)
(* Small instances of HotplugDaemon: one event node, on which devices of   *)
(* two classes come and go, and one name for each class.                   *)
(***************************************************************************)
EXTENDS HotplugDaemon

CONSTANTS mouse, mouse2, keyboard

SomeCapabilities ==
    [d \in Device |->
        IF d = keyboard THEN {"TYPING_KEY"} ELSE {"REL_X", "REL_Y", "BTN_MOUSE"}]

Names == [class : {"Mouse", "Keyboard"}, index : {0}]
Mouse0 == {[class |-> "Mouse", index |-> 0]}
AllFairQueue == [r \in Resource |-> "FairQueue"]
EveryList == SUBSET Names
=============================================================================
