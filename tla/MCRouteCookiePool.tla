-------------------------- MODULE MCRouteCookiePool --------------------------
(* Instances of RouteCookiePool for TLC. *)
EXTENDS RouteCookiePool

CONSTANTS d1, d2, p1

Settings(dir, dryRun, probe) == [dir |-> dir, dryRun |-> dryRun, probe |-> probe]

\* The store directory moves or goes away; the probe role in the second one.
\* Without a directory dry_run is switched while requests run.
Moving == {Settings(d1, FALSE, FALSE), Settings(d2, FALSE, TRUE),
           Settings(NoDir, FALSE, FALSE), Settings(NoDir, TRUE, FALSE)}

\* Business in one directory, from start to end.
Business == {Settings(d1, FALSE, FALSE)}

\* One pair against the files and a clear; without a directory, and before
\* there is one, two pairs and dry_run.  A clear together with a restart or a
\* reconfiguration meets requests only between their handlers; a clear alone,
\* or a restart alone, meets the handlers at every step.
OnlyPair == \A k \in Pairs \ {p1} : ~InPool(pool', k) /\ \A r \in Requests : att'[r].carried # k
BetweenHandlers == \A r \in Requests : att'[r].pc \in {"idle", "sent"}
SmallCases ==
    \/ OnlyPair /\ ~cfg'.dryRun /\ (reloads' = 0 \/ clears' = 0 \/ BetweenHandlers)
    \/ cfg'.dir = NoDir /\ reloads' = 0 /\ clears' = 0
=============================================================================
