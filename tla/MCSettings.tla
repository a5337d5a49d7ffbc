------------------------------ MODULE MCSettings ------------------------------
(* Settings alone, and an instance for TLC.  *)
EXTENDS Settings

CONSTANTS alice, bob, d1

OneYaml == {[dir |-> d1, role |-> "business", dry |-> FALSE,
             scope |-> [accounts |-> {alice}, exits |-> {}, rotating |-> FALSE]]}

\* One save names the accounts, the other the rotating list.
TwoSaves ==
    {[fields |-> {"accounts"}, scope |-> [accounts |-> {bob}, exits |-> {}, rotating |-> FALSE]],
     [fields |-> {"rotating"}, scope |-> [accounts |-> {}, exits |-> {}, rotating |-> TRUE]]}

\* Requests that are under way together name different settings.
DifferentSettings ==
    \A q, r \in Requests : q # r /\ handler'[q] # Idle /\ handler'[r] # Idle
                           => handler'[q].fields \cap handler'[r].fields = {}

MCNext == SettingsStep \/ Restart

MCSpec == SettingsInit /\ [][MCNext]_settingsVars
===============================================================================
