------------------------------ MODULE HostKeys ------------------------------
(***************************************************************************)
(* What the host (the CNC controller) may ever see of the keyboard: at     *)
(* most one key combination held at a time, and all keys up between two    *)
(* different ones, so that no transition looks like two keys together.     *)
(***************************************************************************)
CONSTANTS KeyboardReports, NoKeys

VARIABLE held     \* the report the host acts on

HostInit == held = NoKeys

KeyDown == held = NoKeys /\ held' \in KeyboardReports
KeysUp == held' = NoKeys

HostNext == KeyDown \/ KeysUp

HostSpec == HostInit /\ [][HostNext]_held
=============================================================================
