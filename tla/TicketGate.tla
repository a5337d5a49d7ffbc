------------------------------ MODULE TicketGate ------------------------------
(***************************************************************************)
(* What the cloud mint promises a request that needs a ticket, whatever    *)
(* caches, workers and restarts are behind it: it is answered, and with a  *)
(* ticket that a mint of exactly its own work produced and that still has  *)
(* more than a second to live, or without any; without one it is forwarded *)
(* only when its configuration is not fail_closed.                         *)
(***************************************************************************)
EXTENDS Naturals

CONSTANTS
    Requests,       \* requests
    Works,          \* what a cache key identifies: settings, credential, seed
    NoWork,
    FailClosed,     \* the works whose configuration is fail_closed
    Margin          \* the second a ticket must outlive its injection

VARIABLES
    now,            \* the wall clock
    asking,         \* the work a request is asking a ticket for, or NoWork
    out,            \* how a request left
    minted          \* the tickets that mints have produced

gate == <<now, asking, out, minted>>

\* A ticket: the work it was minted for and the end of its life.
Ticket == [work: Works, until: Nat]

\* How a request leaves: refused, bare, or with a ticket.
Plain(kind) == [kind |-> kind, work |-> NoWork, until |-> 0]
With(t)     == [kind |-> "ticket", work |-> t.work, until |-> t.until]

Init ==
    /\ now \in Nat
    /\ asking = [r \in Requests |-> NoWork]
    /\ out = [r \in Requests |-> Plain("nothing")]
    /\ minted = {}

Ask(r, w) ==
    /\ asking[r] = NoWork
    /\ out[r].kind = "nothing"
    /\ asking' = [asking EXCEPT ![r] = w]
    /\ UNCHANGED <<now, out, minted>>

Mint ==
    /\ \E t \in minted' : t \in Ticket /\ minted' = minted \cup {t}
    /\ UNCHANGED <<now, asking, out>>

Fresh(w) == {t \in minted : t.work = w /\ t.until > now + Margin}

Answers(w) ==
    {Plain("refused")} \cup {Plain("bare") : v \in {w} \ FailClosed}
                       \cup {With(t) : t \in Fresh(w)}

Answer(r) ==
    /\ asking[r] # NoWork
    /\ asking' = [asking EXCEPT ![r] = NoWork]
    /\ \E a \in Answers(asking[r]) : out' = [out EXCEPT ![r] = a]
    /\ UNCHANGED <<now, minted>>

Tick == now' = now + 1 /\ UNCHANGED <<asking, out, minted>>

Next ==
    \/ \E r \in Requests : (\E w \in Works : Ask(r, w)) \/ Answer(r)
    \/ Mint
    \/ Tick

Safe == Init /\ [][Next]_gate

\* A request never waits for ever.
Spec == Safe /\ \A r \in Requests : WF_gate(Answer(r))

=============================================================================
