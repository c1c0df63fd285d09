--------------------------- MODULE MCControlStream ---------------------------
(***************************************************************************)
(* Instances of ControlStream for TLC.  Two of the three instructions have *)
(* the same text, one of these is of an earlier attempt, and the stream    *)
(* remembers two controls.                                                 *)
(***************************************************************************)
EXTENDS ControlStream

MCControls == {"steer", "old", "other", "remove", "removeOld", "pause", "resume", "stop", "decide"}
MCKind == [c \in MCControls |-> CASE c \in {"steer", "old", "other"} -> "steer"
                                  [] c = "removeOld" -> "remove"
                                  [] OTHER -> c]
MCText == [c \in {"steer", "old", "other"} |-> IF c = "other" THEN "other" ELSE "again"]
MCTarget == [c \in {"remove", "removeOld", "decide"} |->
               CASE c = "remove" -> "steer" [] c = "removeOld" -> "old" [] c = "decide" -> "shell"]
MCInitialSteering == {"old"}
=============================================================================
