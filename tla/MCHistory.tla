---------------------------------- MODULE MCHistory ----------------------------------
(* An instance of History for TLC: every tier is pruned within its time, and the box's *)
(* own readings, which are often missing, are there in a few buckets only.            *)
EXTENDS History

Widths  == <<1, 2, 4>>
Retains == <<5, 7, 0>>

HostTimes == {1, 4}

MCNext == Next /\ \A r \in stored' : r[1] = "host" => r[2] \in HostTimes

MCSpec == Init /\ [][MCNext]_vars

=======================================================================================
