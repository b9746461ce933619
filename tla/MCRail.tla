-------------------------------- MODULE MCRail --------------------------------
(* The workspaces and their hook, or the form of a saved connection: two     *)
(* changes of a form, new or of an entry of any engine, and one test.        *)
EXTENDS MCWorkspaces, ConnectionForm

MCEdits ==
  [n \in {"file", "region", "ddbEndpoint", "awsProfile", "awsAccessKeyId", "datacenter", "tsNodes", "password",
           "host", "user", "sshHost", "sshUser", "sshKey", "sshPassword"} |-> {"", "x"}]
  @@ [n \in {"mongoUri", "port", "sshPort"} |-> {"", "bad", "1"}]
  @@ [db |-> {"", "bad", "1"}, useSsh |-> BOOLEAN, tls |-> {"disable", "require"},
      ddbMode |-> {"aws", "local"}, awsAuth |-> {"profile", "keys"}, mongoConnMode |-> {"fields", "uri"},
      protocol |-> {"http", "https"}, sshAuth |-> {"key", "password", "agent"}]

\* A URL of each kind, with and without the parts that may be missing.
MCUrl == {
  [engine |-> "sqlite", file |-> "f"],
  [engine |-> "postgres", host |-> "x", port |-> "5432", db |-> "1", user |-> "x", secret |-> "pw"],
  [engine |-> "redis", host |-> "x", port |-> "6379", tls |-> "require"],
  [engine |-> "mongodb", host |-> "x", port |-> "27017", uri |-> "1", secret |-> "pw"],
  [engine |-> "cassandra", host |-> "x", port |-> "9042", datacenter |-> "x"],
  [engine |-> "typesense", host |-> "x", port |-> "8108", scheme |-> "https", tls |-> "require"]}

\* An entry of each engine, with a tunnel where there can be one.
MCEntry ==
  {Params([host |-> "x", port |-> "1", db |-> "1", file |-> "x", ddbMode |-> "local", awsAuth |-> "keys",
           awsAccessKeyId |-> "x", mongoConnMode |-> "uri", mongoUri |-> "1", protocol |-> "https",
           useSsh |-> TRUE, sshHost |-> "x", sshUser |-> "x", sshAuth |-> "password"]
          @@ PickEngine(NewForm, e)) : e \in Engine}

\* The form has one initial state where it is not driven.
FormPinned == entry = NoParams

RailInit ==
  /\ driven \in {"rail", "hook", "form"} /\ SyncInit /\ FormInit
  /\ driven = "form" \/ FormPinned

RailNext ==
  \/ MCNext /\ UNCHANGED formVars
  \/ driven = "form" /\ FormNext /\ UNCHANGED <<vars, driven>>

RailSpec == RailInit /\ [][RailNext]_<<vars, formVars, driven>>

\* Types, a focus that is on the rail, children next to their parents (state.ts), and that
\* importing the same URL twice is importing it once (NewConnectionModal.tsx).
WellFormed == SyncTypeOK /\ ActiveExists /\ RailGrouped /\ FormTypeOK /\ ImportTwiceIsOnce
===============================================================================
