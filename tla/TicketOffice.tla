----------------------------- MODULE TicketOffice -----------------------------
(***************************************************************************)
(* What the relay's mint promises its callers, with no word of caches,     *)
(* shots, rounds or cooldowns: a visitor states what it wants and leaves   *)
(* once - with nothing when it has gone away, with a refusal, or with      *)
(* tickets that are its own and good as asked, and a live pair on its      *)
(* target to use them with.                                                *)
(***************************************************************************)
EXTENDS Naturals

CONSTANTS Visitors, Models, AnyNode, Target, Verify, MaxTime

VARIABLES
    today,      \* the clock
    visit       \* of each visitor: where it is, what it wants, what it got

vars == <<today, visit>>

Nothing == [none |-> TRUE]
Out == [at |-> "out", want |-> Nothing, answer |-> Nothing]

OnTarget(w, gw) == Target[w.lane] = AnyNode \/ gw = Target[w.lane]

GoodPair(w, p) == p.exp > today /\ OnTarget(w, p.gw)

(* A ticket of the visitor's own lane and the model it stands for, of the  *)
(* length and on the node asked for, at full strength where that is        *)
(* verified, and still within the life the visitor allows.                 *)
GoodTicket(w, m, h) ==
    /\ h.ticket.lane = w.lane /\ h.ticket.model = m
    /\ w.len = 0 \/ h.ticket.len = w.len
    /\ OnTarget(w, h.ticket.node)
    /\ Verify => h.ticket.full
    /\ w.ttl > 0 => h.exp > today /\ h.exp <= h.ticket.issued + w.ttl

GoodAnswer(w, a) ==
    /\ a.at = today
    /\ GoodPair(w, a.pair)
    /\ \E m \in Models : a.tickets[m] # Nothing
    /\ \A m \in Models : a.tickets[m] # Nothing => GoodTicket(w, m, a.tickets[m]) /\ m \notin a.errors

Init == today = 0 /\ visit = [v \in Visitors |-> Out]

(* Only v moves. *)
Moves(v, from, to) ==
    /\ visit[v].at = from /\ visit'[v].at = to
    /\ visit' = [visit EXCEPT ![v] = visit'[v]]
    /\ UNCHANGED today

Arrive(v) == Moves(v, "out", "in") /\ visit'[v].answer = Nothing

TurnAway(v) == Moves(v, "out", "left") /\ visit'[v].answer = [kind |-> "invalid"]

Leave(v) ==
    /\ Moves(v, "in", "left")
    /\ visit'[v].want = visit[v].want
    /\ \/ visit'[v].answer \in {Nothing, [kind |-> "rejected"], [kind |-> "exhausted"]}
       \/ visit'[v].answer.kind = "ok" /\ GoodAnswer(visit[v].want, visit'[v].answer)

Pass == today < MaxTime /\ today' = today + 1 /\ UNCHANGED visit

Next == Pass \/ \E v \in Visitors : Arrive(v) \/ TurnAway(v) \/ Leave(v)

(* Nobody is kept for ever. *)
Served == \A v \in Visitors : visit[v].at = "in" ~> visit[v].at = "left"

Safe == Init /\ [][Next]_vars
==============================================================================
