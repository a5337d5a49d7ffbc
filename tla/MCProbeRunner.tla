---------------------------- MODULE MCProbeRunner ----------------------------
(* An instance of ProbeRunner for TLC, cut where its parts only multiply: the
   settings that matter to no probe are changed before the first one.          *)
EXTENDS ProbeRunner

CONSTANTS alice, bob, d1, e1

Scope(accounts, exits, rotating) == [accounts |-> accounts, exits |-> exits, rotating |-> rotating]

\* One account, through an exit and the rotating list or through the direct exit;
\* or no directory, and so no probe.
Yaml(dir, exits) ==
    [dir |-> dir, role |-> "business", dry |-> FALSE, scope |-> Scope({alice}, exits, exits # {})]
ThreeYamls == {Yaml(d1, {e1}), Yaml(d1, {}), Yaml(NoDir, {})}

\* A save that adds an account and empties the rotating list.
OneSave == {[fields |-> {"accounts", "rotating"}, scope |-> Scope({alice, bob}, {}, FALSE)]}

\* Requests and reconfigurations come one at a time.
OneAtATime ==
    Cardinality({r \in Requests : handler'[r] # Idle}) + (IF reload' = Idle THEN 0 ELSE 1) <= 1

\* config.yaml changes its directory and its lists while the plugin is down.
SameYaml == reload' # Idle => /\ reload'.yaml.dir = config.dir
                              /\ reload'.yaml.scope.exits = config.scope.exits

\* Settings change between batches: what a batch works on was copied before.
BetweenBatches ==
    sweep'.pc \notin {"off", "renew"} => (\A r \in Requests : handler'[r] = Idle) /\ reload' = Idle

\* role and dry_run are changed only in a process that probes nothing: no probe reads them.
RolesApart ==
    \/ starter' = Idle /\ sweep' = Off /\ restUntil' = [a \in Accounts |-> [x \in Keys |-> 0]]
    \/ /\ \A d \in Stores : override'[d] = NoFile
       /\ \A r \in Requests : handler'[r].pc # "override"
       /\ \E y \in Yamls : config'.role = y.role /\ config'.dry = y.dry /\ config'.dir = y.dir
==============================================================================
