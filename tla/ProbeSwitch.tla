----------------------------- MODULE ProbeSwitch -----------------------------
(***************************************************************************)
(* What a probe promises the one who starts and stops it, whatever sweeps, *)
(* workers, exits and rests are behind it: there is one run at a time, an  *)
(* account is worked on once at a time and only within a run, at most      *)
(* MaxInFlight accounts at a time, no request is fired before a run was    *)
(* started or after its stop was asked for, and a run is over only when    *)
(* nothing of it is left.                                                  *)
(***************************************************************************)
EXTENDS Naturals, FiniteSets

CONSTANTS
    Accounts,       \* accounts a probe may work on
    MaxInFlight     \* how many of them at a time

VARIABLES
    stage,          \* no run, a run, or a run that was asked to stop
    working,        \* the accounts that are worked on
    flying          \* those of them that have a request in flight

probe == <<stage, working, flying>>

Init == stage = "idle" /\ working = {} /\ flying = {}

Start ==
    /\ stage = "idle"
    /\ stage' = "running"
    /\ UNCHANGED <<working, flying>>

AskToStop ==
    /\ stage = "running"
    /\ stage' = "stopping"
    /\ UNCHANGED <<working, flying>>

\* Only a run that was not asked to stop takes up accounts, and fires.
TakeUp(a) ==
    /\ stage = "running"
    /\ a \notin working
    /\ Cardinality(working) < MaxInFlight
    /\ working' = working \cup {a}
    /\ UNCHANGED <<stage, flying>>

Fire(a) ==
    /\ stage = "running"
    /\ a \in working \ flying
    /\ flying' = flying \cup {a}
    /\ UNCHANGED <<stage, working>>

\* The answer of a request, after which the account may be left.
Answer(a) ==
    /\ a \in flying
    /\ flying' = flying \ {a}
    /\ working' \in {working, working \ {a}}
    /\ UNCHANGED stage

Leave(a) ==
    /\ a \in working \ flying
    /\ working' = working \ {a}
    /\ UNCHANGED <<stage, flying>>

End ==
    /\ stage # "idle"
    /\ working = {}
    /\ stage' = "idle"
    /\ UNCHANGED <<working, flying>>

\* The process ends, and what it has fired ends with it.
Vanish == stage' = "idle" /\ working' = {} /\ flying' = {}

Next ==
    \/ Start \/ AskToStop \/ End \/ Vanish
    \/ \E a \in Accounts : TakeUp(a) \/ Fire(a) \/ Answer(a) \/ Leave(a)

Spec == Init /\ [][Next]_probe
==============================================================================
