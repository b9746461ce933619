----------------------------- MODULE MCConnections -----------------------------
(* The backend's connections: a behaviour drives the table of open handles,  *)
(* the registry they are opened from, or a generation of rows on one.       *)
EXTENDS MCConnectionManager, Registry, Generate
CONSTANTS k1, k2, j1, j2, pw1, pw2

VARIABLE driven
connectionsVars == <<vars, registryVars, generateVars, driven>>

\* An entry of another machine for each id, the second without its secrets.
MCBundle ==
  << [conn |-> k1, row |-> {"db", "ssh"}, given |-> [r \in Role |-> pw2]],
     [conn |-> k2, row |-> {"db"}, given |-> [r \in Role |-> NoSecret]] >>

\* What the modal can send along: nothing, a password, or both secrets.
MCTyped == { [r \in Role |-> IF r \in typed THEN pw2 ELSE NoSecret] : typed \in Row }

\* Three tables, at most three foreign keys between them and at most two in a table; the
\* first has no primary key, the second has rows of the user's.
MCSchemas ==
  {s \in [1..TableCount -> UNION {[1..n -> 1..TableCount] : n \in 0..2}] : Len(s[1]) + Len(s[2]) + Len(s[3]) <= 3}

\* A component that is not driven has one initial state.
RegistryPinned == registry[k1] = {}
GeneratePinned == fks = [t \in GenTable |-> <<>>]

ConnectionsInit ==
  /\ driven \in {"manager", "registry", "generate"}
  /\ Init /\ RegistryInit /\ GenerateInit
  /\ keyed = GenTable \ {1} /\ original = {2}
  /\ \A a \in Account : keychain[a] # pw2
  /\ driven = "registry" \/ RegistryPinned
  /\ driven = "generate" \/ GeneratePinned

ConnectionsNext ==
  \/ driven = "manager" /\ Next /\ UNCHANGED <<registryVars, generateVars, driven>>
  \/ driven = "registry" /\ RegistryNext /\ UNCHANGED <<vars, generateVars, driven>>
  \/ driven = "generate" /\ GenerateNext /\ UNCHANGED <<vars, registryVars, driven>>
  \/ driven = "generate" /\ stage = "done" /\ generates = MaxGenerates /\ UNCHANGED connectionsVars

\* The fairness of the table's own specification, where it is driven.
ConnectionsFairness ==
  /\ \A t \in Task : WF_vars(driven = "manager" /\ Continue(t)) /\ WF_vars(driven = "manager" /\ Connect(t))
  /\ WF_vars(driven = "manager" /\ Exiting)

ConnectionsSpec ==
  ConnectionsInit /\ [][ConnectionsNext]_connectionsVars /\ ConnectionsFairness

\* What the three keep of their own state: types, and a plan that has every table once
\* and after those it takes keys from (planner.rs).
WellFormed == TypeOK /\ RegistryTypeOK /\ GenerateTypeOK /\ OrderIsWhole
===============================================================================
