----------------------------- MODULE MessagePipe -----------------------------
(***************************************************************************)
(* What the websocket bridge of the relay promises the client, with no     *)
(* word of tickets, rounds or connections: a pipe in both directions.      *)
(* What the client sends comes out at the far end in the order it was      *)
(* sent, nothing twice and nothing left out in between; what the far end   *)
(* says comes back in its order; and the pipe ends once, with a last word  *)
(* after which nothing comes, a diagnosis only if nothing came before.     *)
(***************************************************************************)
EXTENDS Naturals, Sequences

CONSTANT MaxMessages

VARIABLES
    sent,       \* how many messages the client has sent
    arrived,    \* the messages that came out at the far end
    shown,      \* the far end's messages that came back
    over,       \* the pipe has ended
    farewell    \* the last word: none, a close, or a diagnosis and a close

vars == <<sent, arrived, shown, over, farewell>>

UpTo(n) == [i \in 1 .. n |-> i]

Init ==
    /\ sent = 0 /\ arrived = <<>> /\ shown = <<>>
    /\ over = FALSE /\ farewell = "none"

Forward ==
    /\ ~over
    /\ sent' \in {sent, sent + 1}
    /\ \E n \in Len(arrived) .. sent' : arrived' = UpTo(n)
    /\ UNCHANGED <<shown, over, farewell>>

Show ==
    /\ ~over
    /\ shown' = Append(shown, Len(shown) + 1)
    /\ UNCHANGED <<sent, arrived, over, farewell>>

End ==
    /\ ~over
    /\ over' = TRUE
    /\ farewell' \in {"none", "close", "diagnosis"}
    /\ farewell' = "diagnosis" => shown = <<>>
    /\ UNCHANGED <<sent, arrived, shown>>

Next == Forward \/ Show \/ End

Safe == Init /\ [][Next]_vars

(* No message is kept back for ever: it comes out, or the client learns    *)
(* that the pipe has ended.                                                *)
Served == \A n \in 1 .. MaxMessages : sent >= n ~> Len(arrived) >= n \/ over
==============================================================================
