---------------------------- MODULE TimerService -----------------------------
(* What a timer wheel promises its callers: every registration gets an     *)
(* identity of its own, an armed timer is reported at most once and never  *)
(* before its deadline, and nothing is armed once the service is closing.  *)
EXTENDS Integers

CONSTANT Times   \* the values of the clock

VARIABLES
    armed,    \* the live timers, as records of identity and deadline
    fired,    \* identities that have been reported as expired
    issued,   \* number of identities given out
    now,      \* latest time the service has been advanced to
    open      \* whether timers may still be armed

serviceVars == <<armed, fired, issued, now, open>>

Timer(i, d) == [id |-> i, deadline |-> d]

ServiceInit ==
    /\ armed = {} /\ fired = {}
    /\ issued = 0 /\ now \in Times
    /\ open = TRUE

Arm(d) ==
    /\ open
    /\ issued' = issued + 1
    /\ armed' = armed \cup {Timer(issued + 1, d)}
    /\ UNCHANGED <<fired, now, open>>

Move(t, d) ==
    /\ open /\ t \in armed
    /\ armed' = (armed \ {t}) \cup {Timer(t.id, d)}
    /\ UNCHANGED <<fired, issued, now, open>>

Disarm(t) ==
    /\ t \in armed
    /\ armed' = armed \ {t}
    /\ UNCHANGED <<fired, issued, now, open>>

Fire(t) ==
    /\ t \in armed /\ t.deadline <= now
    /\ armed' = armed \ {t}
    /\ fired' = fired \cup {t.id}
    /\ UNCHANGED <<issued, now, open>>

PassTime ==
    /\ open /\ now' \in Times /\ now' >= now
    /\ UNCHANGED <<armed, fired, issued, open>>

CloseService ==
    /\ open' = FALSE
    /\ UNCHANGED <<armed, fired, issued, now>>

ServiceNext ==
    \/ \E d \in Times : Arm(d)
    \/ \E t \in armed : Disarm(t) \/ Fire(t) \/ \E d \in Times : Move(t, d)
    \/ PassTime
    \/ CloseService

Service == ServiceInit /\ [][ServiceNext]_serviceVars
==============================================================================
