----------------------------- MODULE ConnectionForm -----------------------------
(***************************************************************************)
(* The form a saved connection is made and edited with, NewConnectionModal. *)
(* One flat state holds the fields of every engine; what is saved is built  *)
(* from those the engine uses, a saved entry is edited by filling the form  *)
(* from it again, and a pasted URL fills what it carries.  Texts are told   *)
(* apart as blank, "bad" (a port or an index that is no number, a URI of    *)
(* no MongoDB scheme) and otherwise; trimming and what is no parameter, the *)
(* environment and the read-only flag among it, are left out but for the    *)
(* name an import gives.  A save is one step, from the click to its answer. *)
(***************************************************************************)
EXTENDS Naturals

CONSTANTS
  Url,        \* what parseConnUri can return: functions from what the paste carried
  Edits,      \* for each field the texts or choices a user gives it
  Entry,      \* the parameters of the entries that are edited
  NoParams,   \* no entry is saved, a form does not validate, nothing was tested
  Closed,     \* the modal is not mounted
  MaxEdits,   \* how often the form is changed
  MaxTests    \* how often it is tested

VARIABLES
  form,        \* FormState, while the modal is open
  verdict,     \* FormState.test
  verdictOf,   \* history: what the verdict is of
  inTest,      \* what the tests under way test
  entry,       \* the parameters of the connection saved last
  edits, testsBegun
formVars == <<form, verdict, verdictOf, inTest, entry, edits, testsBegun>>

\* What the first says, and the second where it says nothing (TLC's @@, for the provers).
f ++ g == [x \in DOMAIN f \cup DOMAIN g |-> IF x \in DOMAIN f THEN f[x] ELSE g[x]]

TunnelledEngine == {"postgres", "mysql", "mssql", "clickhouse", "redis", "typesense"}
Engine == TunnelledEngine \cup {"sqlite", "dynamodb", "mongodb", "cassandra"}

DefaultPort == [postgres |-> "5432", mysql |-> "3306", mssql |-> "1433", redis |-> "6379",
                mongodb |-> "27017", cassandra |-> "9042", clickhouse |-> "8123", typesense |-> "8108"]
DefaultUser == [postgres |-> "postgres", mysql |-> "root", mssql |-> "sa", clickhouse |-> "default"]

NewForm == [
  engine |-> "postgres", name |-> "", host |-> "localhost", port |-> "5432", portTouched |-> FALSE,
  db |-> "", user |-> "postgres", userTouched |-> FALSE, file |-> "", tls |-> "disable",
  ddbMode |-> "aws", region |-> "eu-central-1", ddbEndpoint |-> "http://localhost:8000",
  awsAuth |-> "profile", awsProfile |-> "default", awsAccessKeyId |-> "",
  mongoConnMode |-> "fields", mongoUri |-> "mongodb://localhost:27017",
  datacenter |-> "dc1", protocol |-> "http", tsNodes |-> "",
  password |-> "", importedSecret |-> "",
  useSsh |-> FALSE, sshHost |-> "", sshPort |-> "22", sshUser |-> "", sshAuth |-> "key",
  sshKey |-> "~/.ssh/id_ed25519", sshPassword |-> ""]

\* What is no text: the engine, how DynamoDB is signed in to, and the boxes that are ticked.
AwsAuth == {"profile", "keys"}
IsForm(f) ==
  /\ DOMAIN f = DOMAIN NewForm /\ f.engine \in Engine /\ f.awsAuth \in AwsAuth
  /\ {f.portTouched, f.userTouched, f.useSsh} \subseteq BOOLEAN
IsEntry(p) == p.engine \in Engine /\ (p.engine = "dynamodb" => p.mode \in AwsAuth)

\* A paste that can be read has a host and a port (the scheme's, unless it has its
\* own) or is a file; MongoDB keeps the whole text, and Typesense's scheme counts.
ASSUME UrlAssumption ==
  \A u \in Url :
    LET carries == [sqlite |-> {"file"}, mongodb |-> {"host", "port", "uri"}, typesense |-> {"host", "port", "scheme"}]
    IN  /\ u.engine \in Engine
        /\ (IF u.engine \in DOMAIN carries THEN carries[u.engine] ELSE {"host", "port"}) \subseteq DOMAIN u

\* A choice is made among those there are; what is saved was saved by the program.
ASSUME FormAssumption ==
  /\ Edits["awsAuth"] \subseteq AwsAuth /\ Edits["useSsh"] \subseteq BOOLEAN
  /\ \A p \in Entry : IsEntry(p)

-----------------------------------------------------------------------------
(* What the form says: the parameters, and the secrets that travel apart.   *)

IsPort(text) == text \notin {"", "bad"}

\* A number from 0 to 15, a blank standing for 0.
DbIndex(text) == IF text = "" THEN "0" ELSE text

BuildSsh(f) ==
  [host |-> f.sshHost, port |-> f.sshPort, user |-> f.sshUser, method |-> f.sshAuth,
   keyPath |-> IF f.sshAuth = "key" THEN f.sshKey ELSE ""]

SshValid(f) ==
  f.useSsh => /\ f.sshHost # "" /\ IsPort(f.sshPort) /\ f.sshUser # ""
              /\ f.sshAuth = "key" => f.sshKey # ""

\* A field that may be omitted is omitted by being blank.
Server(f) == [engine |-> f.engine, host |-> f.host, port |-> f.port, user |-> f.user, tlsMode |-> f.tls]
Tunnel(f) == [ssh |-> IF f.useSsh THEN <<BuildSsh(f)>> ELSE <<>>]

\* Which of the forms it is: MongoDB has two.
Shape(f) == IF f.engine = "mongodb" /\ f.mongoConnMode = "uri" THEN "mongodb uri" ELSE f.engine

Valid(f) ==
  CASE Shape(f) = "sqlite" -> f.file # ""
    [] Shape(f) = "dynamodb" ->
         /\ f.region # ""
         /\ f.ddbMode = "local" => f.ddbEndpoint # ""
         /\ f.awsAuth = "keys" => f.awsAccessKeyId # ""
    [] Shape(f) = "mongodb uri" -> f.mongoUri \notin {"", "bad"}
    [] Shape(f) \in {"mongodb", "cassandra"} -> f.host # "" /\ IsPort(f.port)
    [] OTHER ->
         /\ f.host # "" /\ IsPort(f.port) /\ SshValid(f)
         /\ f.engine = "redis" => DbIndex(f.db) \in {"0", "1"}
         /\ f.engine \in {"postgres", "mssql"} => f.db # ""

Params(f) ==
  CASE Shape(f) = "sqlite" -> [engine |-> "sqlite", path |-> f.file]
    [] Shape(f) = "dynamodb" ->
         [engine |-> "dynamodb", region |-> f.region,
          endpoint |-> IF f.ddbMode = "local" THEN f.ddbEndpoint ELSE "",
          mode |-> f.awsAuth,
          credential |-> IF f.awsAuth = "keys" THEN f.awsAccessKeyId
                         ELSE IF f.awsProfile = "" THEN "default" ELSE f.awsProfile]
    [] Shape(f) = "mongodb uri" ->
         [engine |-> "mongodb", uri |-> f.mongoUri, tlsMode |-> f.tls, user |-> "", database |-> "",
          host |-> IF f.host = "" THEN "localhost" ELSE f.host,
          port |-> IF IsPort(f.port) THEN f.port ELSE "27017"]
    [] Shape(f) = "mongodb" -> [uri |-> "", database |-> f.db] ++ Server(f)
    [] Shape(f) = "cassandra" -> [keyspace |-> f.db, localDatacenter |-> f.datacenter] ++ Server(f)
    [] Shape(f) = "redis" -> [dbIndex |-> DbIndex(f.db)] ++ Server(f) ++ Tunnel(f)
    [] Shape(f) = "typesense" ->
         [engine |-> "typesense", protocol |-> f.protocol, host |-> f.host, port |-> f.port,
          defaultCollection |-> f.db, nodes |-> f.tsNodes] ++ Tunnel(f)
    [] OTHER -> [database |-> f.db] ++ Server(f) ++ Tunnel(f)

BuildParams(f) == IF Valid(f) THEN Params(f) ELSE NoParams

\* A typed password wins over an imported one; the SSH secret is a password's.
Secrets(f) ==
  [password |-> IF f.password # "" THEN f.password ELSE f.importedSecret,
   sshSecret |-> IF f.useSsh /\ f.sshAuth = "password" THEN f.sshPassword ELSE ""]

-----------------------------------------------------------------------------
(* Filling the form: from a saved entry, by hand, from a URL.               *)

\* Bug variant: the tunnel is taken over, how it is opened is not.
SshFieldsDefaulted(p) ==
  IF p.ssh = <<>> THEN NewForm
  ELSE [useSsh |-> TRUE, sshHost |-> p.ssh[1].host, sshPort |-> p.ssh[1].port, sshUser |-> p.ssh[1].user] ++ NewForm

SshFields(p) ==
  IF p.ssh = <<>> THEN NewForm
  ELSE LET s == p.ssh[1]
       IN  [useSsh |-> TRUE, sshHost |-> s.host, sshPort |-> s.port, sshUser |-> s.user,
            sshAuth |-> s.method, sshKey |-> IF s.method = "key" THEN s.keyPath ELSE NewForm.sshKey] ++ NewForm

\* No secret is filled in: a blank one keeps what the keychain has.
FormOf(p) ==
  LET touched == [engine |-> p.engine, portTouched |-> TRUE, userTouched |-> TRUE]
      base == touched ++ NewForm
  IN  CASE p.engine = "sqlite" -> [file |-> p.path] ++ base
        [] p.engine = "dynamodb" ->
             [ddbMode |-> IF p.endpoint # "" THEN "local" ELSE "aws", region |-> p.region,
              ddbEndpoint |-> IF p.endpoint # "" THEN p.endpoint ELSE NewForm.ddbEndpoint,
              awsAuth |-> p.mode,
              awsProfile |-> IF p.mode = "profile" THEN p.credential ELSE NewForm.awsProfile,
              awsAccessKeyId |-> IF p.mode = "keys" THEN p.credential ELSE ""] ++ base
        [] p.engine = "mongodb" ->
             [mongoConnMode |-> IF p.uri # "" THEN "uri" ELSE "fields",
              mongoUri |-> IF p.uri # "" THEN p.uri ELSE NewForm.mongoUri,
              host |-> p.host, port |-> p.port, db |-> p.database, user |-> p.user,
              tls |-> p.tlsMode] ++ base
        [] p.engine = "cassandra" ->
             [host |-> p.host, port |-> p.port, db |-> p.keyspace, datacenter |-> p.localDatacenter,
              user |-> p.user, tls |-> p.tlsMode] ++ base
        [] p.engine = "typesense" ->
             [protocol |-> p.protocol, host |-> p.host, port |-> p.port, db |-> p.defaultCollection,
              tsNodes |-> p.nodes] ++ touched ++ SshFields(p)
        [] OTHER ->
             [host |-> p.host, port |-> p.port, user |-> p.user, tls |-> p.tlsMode,
              db |-> IF p.engine = "redis" THEN p.dbIndex ELSE p.database] ++ touched ++ SshFields(p)

\* Another engine brings its port and its user, unless the user gave one.
PickEngine(f, engine) ==
  [f EXCEPT !.engine = engine,
            !.port = IF ~f.portTouched /\ engine \in DOMAIN DefaultPort THEN DefaultPort[engine] ELSE @,
            !.user = IF f.userTouched THEN @
                     ELSE IF engine \in DOMAIN DefaultUser THEN DefaultUser[engine] ELSE ""]

\* A password that is typed replaces the imported one.
SetField(f, name, value) ==
  LET set == [f EXCEPT ![name] = value]
  IN  CASE name = "port" -> [set EXCEPT !.portTouched = TRUE]
        [] name = "user" -> [set EXCEPT !.userTouched = TRUE]
        [] name = "password" -> [set EXCEPT !.importedSecret = ""]
        [] OTHER -> set

Carried(u, names) == [n \in names \cap DOMAIN u |-> u[n]]

\* Only what the paste carried is written.
ImportInto(f, u) ==
  LET g == PickEngine(f, u.engine)
      has(n) == n \in DOMAIN u
      target == IF has("db") THEN u.db ELSE IF has("host") THEN u.host ELSE ""
  IN  Carried(u, {"host", "port", "db", "file", "user", "tls", "datacenter"})
      ++ [portTouched |-> g.portTouched \/ has("port"), userTouched |-> g.userTouched \/ has("user"),
          protocol |-> IF u.engine # "typesense" THEN g.protocol ELSE u.scheme,
          mongoUri |-> IF has("uri") THEN u.uri ELSE g.mongoUri,
          mongoConnMode |-> IF has("uri") THEN "uri" ELSE g.mongoConnMode,
          importedSecret |-> IF has("secret") THEN u.secret ELSE g.importedSecret,
          name |-> IF g.name # "" THEN g.name ELSE target]
      ++ g

-----------------------------------------------------------------------------
(* The modal.                                                               *)

\* The fields the form of each engine shows.
ShownFor == [
  sqlite |-> {"file"},
  dynamodb |-> {"ddbMode", "region", "ddbEndpoint", "awsAuth", "awsProfile", "awsAccessKeyId", "password"},
  mongodb |-> {"mongoConnMode", "mongoUri", "tls", "host", "port", "db", "user", "password"},
  cassandra |-> {"tls", "host", "port", "db", "datacenter", "user", "password"},
  typesense |-> {"protocol", "host", "port", "db", "tsNodes", "password"}]
SshShown == {"useSsh", "sshHost", "sshPort", "sshUser", "sshAuth", "sshKey", "sshPassword"}

Shown(engine) ==
  (IF engine \in DOMAIN ShownFor THEN ShownFor[engine] ELSE {"host", "port", "tls", "db", "user", "password"})
    \cup (IF engine \in TunnelledEngine THEN SshShown ELSE {})

FormTypeOK ==
  /\ form # Closed => IsForm(form)
  /\ verdict \in {"idle", "testing", "err", "ok"}
  /\ entry # NoParams => IsEntry(entry)

FormInit ==
  /\ entry \in Entry \cup {NoParams}
  /\ form = Closed
  /\ verdict = "idle"
  /\ inTest = {}
  /\ verdictOf = NoParams
  /\ edits = 0
  /\ testsBegun = 0

\* An edit of a parameter resets the verdict of a test.
Becomes(f) ==
  /\ edits < MaxEdits
  /\ edits' = edits + 1
  /\ form' = f
  /\ verdict' = "idle" /\ verdictOf' = NoParams
  /\ UNCHANGED <<inTest, entry, testsBegun>>

EditField == form # Closed /\ \E n \in Shown(form.engine) : \E v \in Edits[n] : v # form[n] /\ Becomes(SetField(form, n, v))
EditEngine == form # Closed /\ \E e \in Engine : e # form.engine /\ Becomes(PickEngine(form, e))
ImportUrl == form # Closed /\ \E u \in Url : Becomes(ImportInto(form, u))

\* What is tested is what the form says now; only a test under way disables the button.
Test ==
  /\ form # Closed /\ verdict # "testing" /\ testsBegun < MaxTests
  /\ testsBegun' = testsBegun + 1
  /\ IF Valid(form)
     THEN verdict' = "testing" /\ inTest' = inTest \cup {<<Params(form), Secrets(form)>>}
     ELSE verdict' = "err" /\ inTest' = inTest
  /\ UNCHANGED <<form, verdictOf, entry, edits>>

Tested ==
  /\ \E t \in inTest : inTest' = inTest \ {t} /\ verdictOf' = t /\ verdict' \in {"err", "ok"}
  /\ UNCHANGED <<form, entry, edits, testsBegun>>

\* Opened or gone, the modal forgets the form it had and what was tested.
Mounts(f) ==
  /\ form' = f /\ verdict' = "idle" /\ verdictOf' = NoParams /\ inTest' = {}
  /\ UNCHANGED <<edits, testsBegun>>

\* A save the backend takes closes the form; one it does not leaves it as it is.
Save == form # Closed /\ Valid(form) /\ entry' = Params(form) /\ Mounts(Closed)
Dismiss == form # Closed /\ Mounts(Closed) /\ UNCHANGED entry
NewConnection == form = Closed /\ Mounts(NewForm) /\ UNCHANGED entry
EditEntry == form = Closed /\ entry # NoParams /\ Mounts(FormOf(entry)) /\ UNCHANGED entry

FormNext == EditField \/ EditEngine \/ ImportUrl \/ Test \/ Tested \/ Save \/ Dismiss \/ NewConnection \/ EditEntry
FormSpec == FormInit /\ [][FormNext]_formVars

-----------------------------------------------------------------------------
(* Properties.                                                             *)

\* An entry that is opened for editing and saved without a change keeps every
\* parameter and every stored secret ("leaving the password blank keeps the stored
\* secret"), whatever other engines' fields were filled in on the way to it.
EntryReopensAsSaved ==
  (form # Closed /\ Valid(form)) =>
    LET reopened == FormOf(Params(form))
    IN  BuildParams(reopened) = Params(form) /\ Secrets(reopened) = [password |-> "", sshSecret |-> ""]

\* "importing the same string twice is idempotent" (applyImport), on any form.
ImportTwiceIsOnce == form # Closed => \A u \in Url : LET once == ImportInto(form, u) IN ImportInto(once, u) = once

\* Does not hold: "a green OK must describe current values" (the reducer's comment);
\* an answer that comes after an edit is shown for the edited form.
VerdictIsOfTheForm ==
  (form # Closed /\ verdict = "ok") => verdictOf = <<BuildParams(form), Secrets(form)>>
===============================================================================
