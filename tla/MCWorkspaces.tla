----------------------------- MODULE MCWorkspaces -----------------------------
(* A behaviour drives the workspaces alone, on a rail of three, or with the  *)
(* hook that follows them, on a rail of two with one schema and two pushes,  *)
(* without data files and kept children (the rail's own instance has them).  *)
EXTENDS ReadOnlySync, TLC
CONSTANTS h1, h2, s1, s2, c1, c2

VARIABLE driven

\* Bounds of the instance with the hook.
MaxSyncRail == 2
MaxSyncDepth == 2
SyncScopes == {s1}
SmallRail ==
  /\ Len(rail') <= MaxSyncRail
  /\ \A i \in 1..Len(rail') : rail'[i].scope \in SyncScopes \cup {NoScope}
  /\ \A i \in 1..Len(rail') : Len(rail'[i].id) <= MaxSyncDepth
DatabasesOnly ==
  \A i \in DOMAIN rail' : ~rail'[i].file /\ (rail'[i].parent = NoId \/ rail'[i].temp)

MCInit == driven \in {"rail", "hook"} /\ SyncInit

MCNext ==
  \/ driven = "rail" /\ StoreNext /\ UNCHANGED <<hook, driven>>
  \/ driven = "hook" /\ SyncNext /\ SmallRail /\ DatabasesOnly /\ UNCHANGED driven

MCSpec == MCInit /\ [][MCNext]_<<vars, driven>>
Symmetry == Permutations(Handle) \cup Permutations(Call)
===============================================================================
