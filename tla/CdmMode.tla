------------------------------ MODULE CdmMode ------------------------------
(***************************************************************************)
(* What the agent promises about Customer Device Mode (CDM), without the   *)
(* clock, the file format or the sessions' deadlines: the mode jobs are    *)
(* gated by, and the mode the state file would restore.  CDM is off, on    *)
(* with jobs held, or on with a session.  The user's decisions and the     *)
(* expiry of a session move along Moves only; a decision whose write fails *)
(* still governs the running agent; a restart returns to the saved mode.   *)
(***************************************************************************)

VARIABLES
    mode,   \* what the running agent enforces
    saved   \* what the state file holds, or "lost" when it cannot be read

vars == <<mode, saved>>

Modes == {"off", "hold", "session"}

Moves == {<<"off", "hold">>, <<"hold", "session">>, <<"session", "hold">>,
          <<"hold", "off">>, <<"session", "off">>}

Init == mode = "off" /\ saved = "off"

\* A decision, or an expiry: the mode changes at once, the file may not.
Decide(m) ==
    /\ <<mode, m>> \in Moves
    /\ mode' = m
    /\ saved' \in {m, saved, "lost"}

\* The mode is written again unchanged, or a write of a refused decision or a
\* crash spoils the file.
Write == mode' = mode /\ saved' \in {mode, "lost"}

\* A file that cannot be read keeps the agent down; an expired session is
\* restored as held.
Restart ==
    /\ saved # "lost"
    /\ mode' \in {saved} \cup (IF saved = "session" THEN {"hold"} ELSE {})
    /\ saved' \in IF mode' = saved THEN {saved} ELSE {saved, mode', "lost"}

Next == Write \/ Restart \/ \E m \in Modes : Decide(m)

Spec == Init /\ [][Next]_vars
=============================================================================
