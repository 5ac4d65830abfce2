----------------------------- MODULE Quiescence -----------------------------
(***************************************************************************)
(* What a manager's Shutdown promises to its caller, without any of the    *)
(* machinery: once closing has begun nobody is admitted, and "drained" is  *)
(* announced only when nobody is inside.  Drain implements it with an      *)
(* atomic flag, an atomic counter, a mutex and a condition variable.       *)
(***************************************************************************)
CONSTANT Execs          \* the calls of Execute* that may be in progress

VARIABLES closing,      \* Shutdown has been called
          active,       \* the calls that were admitted and have not left
          drained       \* some Shutdown call has returned nil

vars == <<closing, active, drained>>

Init == /\ closing = FALSE
        /\ active = {}
        /\ drained = FALSE

Close == /\ ~closing
         /\ closing' = TRUE
         /\ UNCHANGED <<active, drained>>

Admit(e) == /\ ~closing
            /\ e \notin active
            /\ active' = active \cup {e}
            /\ UNCHANGED <<closing, drained>>

Leave(e) == /\ e \in active
            /\ active' = active \ {e}
            /\ UNCHANGED <<closing, drained>>

Announce == /\ closing
            /\ active = {}
            /\ drained' = TRUE
            /\ UNCHANGED <<closing, active>>

Next == Close \/ Announce \/ \E e \in Execs : Admit(e) \/ Leave(e)

Spec == Init /\ [][Next]_vars
=============================================================================
