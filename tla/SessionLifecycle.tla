-------------------------- MODULE SessionLifecycle --------------------------
(***************************************************************************)
(* What a stateful CAMARA resource with notifications promises, whatever   *)
(* races behind it: it is created once, lives, is ended once by whoever    *)
(* comes first, and - if its creator asked to be told - is announced to    *)
(* the sink once, after the end.  An id is never used again.               *)
(***************************************************************************)
CONSTANT Session

VARIABLES phase,   \* where each session is in its life
          notices  \* the notices handed to a delivery: <<number, session>>

vars == <<phase, notices>>

Phase == {"absent", "live", "ending", "silent", "announced"}

Init == phase = [i \in Session |-> "absent"] /\ notices = {}

Begin(i) ==
    /\ phase[i] = "absent"
    /\ phase' = [phase EXCEPT ![i] = "live"]
    /\ UNCHANGED notices

\* Ended, with a notice still owed ("ending") or nobody to tell ("silent").
End(i) ==
    /\ phase[i] = "live"
    /\ \E p \in {"ending", "silent"} : phase' = [phase EXCEPT ![i] = p]
    /\ UNCHANGED notices

Announce(i) ==
    /\ phase[i] = "ending"
    /\ phase' = [phase EXCEPT ![i] = "announced"]
    /\ \E n \in notices' \ notices :
          n[2] = i /\ notices' = notices \cup {n}

Next == \E i \in Session : Begin(i) \/ End(i) \/ Announce(i)

Spec == Init /\ [][Next]_vars

=============================================================================
