-------------------------------- MODULE Registry --------------------------------
(***************************************************************************)
(* Saved connections and their secrets.  The registry is one JSON file, its *)
(* secrets are two accounts per entry in the OS keychain, and the adapter   *)
(* in front of the keychain caches what it resolved for the life of the     *)
(* process.  Every command is an async command of its own: it holds the     *)
(* registry's lock for one read-modify-write, no lock across a keychain     *)
(* call, and the cache's lock for one lookup or one insertion.  A command   *)
(* is the list of those steps, in groups: a step that fails abandons its    *)
(* group.  A save, a copy, a delete or an open is one group; a bundle       *)
(* import has a group per entry and an export a group per account.          *)
(***************************************************************************)
EXTENDS Selections, SequencesExt

CONSTANTS
  Conn,        \* ids, the minted and the imported ones
  Secret,      \* what an account can hold
  NoSecret,    \* the account is missing
  Unread,      \* the cache has no entry for the account
  NoRow,       \* the registry has no entry for the id
  NoFill,      \* a command with nothing to put into the cache
  Job,         \* the commands that can be in flight at once
  Typed,       \* what the modal can send along: functions from roles to secrets
  Bundle,      \* the entries of a bundle file: a sequence of [conn, row, given]
  MaxJobs      \* how many commands are begun

VARIABLES
  registry,    \* connections.json: the accounts the entry's parameters use
  issued,      \* the ids that have been some entry's
  keychain,    \* the OS keychain
  cache,       \* KeyringSecretStore.cache
  todo,        \* the steps left of each command, by group
  held,        \* what a command has just read
  fill,        \* what it still has to put into the cache
  begun,       \* how many commands were begun
  raced,       \* history: the accounts changed while another command was at them
  stranded     \* history: the accounts an entry's removal was kept from erasing

store == <<registry, issued>>
jobs == <<todo, held, fill, begun>>
registryVars == <<store, keychain, cache, jobs, raced, stranded>>

\* The database password and the SSH secret of an entry.
Role == {"db", "ssh"}
Account == Conn \X Role

\* uses_password and ssh: a file uses neither, and only a server is tunnelled to.
Row == {{}, {"db"}, {"db", "ssh"}}

ASSUME RegistryAssumption ==
  /\ {NoSecret, Unread} \cap Secret = {} /\ NoSecret # Unread
  /\ NoRow \notin Conn \cup Row /\ NoFill \notin Account \X (Secret \cup {NoSecret})
  /\ IsFiniteSet(Conn)
  /\ Typed \subseteq [Role -> Secret \cup {NoSecret}]
  /\ Bundle \in Seq([conn : Conn, row : Row, given : [Role -> Secret \cup {NoSecret}]])

RegistryTypeOK ==
  /\ registry \in [Conn -> Row \cup {NoRow}]
  /\ issued \subseteq Conn
  /\ keychain \in [Account -> Secret \cup {NoSecret}]
  /\ cache \in [Account -> Secret \cup {NoSecret, Unread}]
  /\ held \in [Job -> Secret \cup {NoSecret}]
  /\ \A j \in Job : fill[j] = NoFill \/ fill[j][1] \in Account
  /\ raced \subseteq Account
  /\ stranded \subseteq Account

\* A registry with one entry, whose secrets were all, partly or never saved.
RegistryInit ==
  /\ \E k \in Conn, row \in Row :
       /\ issued = {k}
       /\ registry = [c \in Conn |-> IF c = k THEN row ELSE NoRow]
       /\ keychain \in {s \in [Account -> Secret \cup {NoSecret}] :
                          \A a \in Account : s[a] # NoSecret => a[1] = k /\ a[2] \in row}
  /\ cache = [a \in Account |-> Unread]
  /\ todo = [j \in Job |-> <<>>]
  /\ held = [j \in Job |-> NoSecret]
  /\ fill = [j \in Job |-> NoFill]
  /\ begun = 0
  /\ raced = {}
  /\ stranded = {}

-----------------------------------------------------------------------------
(* The steps a command is made of, and the commands.                        *)

Put(k, row) == [op |-> "put", conn |-> k, row |-> row]
Drop(k) == [op |-> "drop", conn |-> k]
Read(k, r) == [op |-> "read", at |-> <<k, r>>]
Paste(k, r) == [op |-> "paste", at |-> <<k, r>>]
Erase(k, r) == [op |-> "erase", at |-> <<k, r>>]
Write(k, r, s) == [op |-> "write", at |-> <<k, r>>, secret |-> s]

\* The database account comes first wherever both are visited.
ForRoles(roles, StepsOf(_)) ==
  (IF "db" \in roles THEN StepsOf("db") ELSE <<>>)
    \o (IF "ssh" \in roles THEN StepsOf("ssh") ELSE <<>>)

\* Absent means keep: only the secrets that were given are written.
Writes(k, given) ==
  ForRoles({r \in Role : given[r] # NoSecret}, LAMBDA r : <<Write(k, r, given[r])>>)

\* The entry first, then its secrets, under the id that is settled by then.
EntrySteps(k, row, given) == <<Put(k, row)>> \o Writes(k, given)

\* Bug variant: only the accounts the entry now uses are erased.
DeleteUsed(k) ==
  <<Drop(k)>> \o ForRoles(IF registry[k] = NoRow THEN {} ELSE registry[k], LAMBDA r : <<Erase(k, r)>>)

DeleteSteps(k) == <<Drop(k)>> \o ForRoles(Role, LAMBDA r : <<Erase(k, r)>>)

\* Only accounts the source uses are read: a read can pop a prompt.
CopySteps(k, new, row) ==
  <<Put(new, row)>> \o ForRoles(row, LAMBDA r : <<Read(k, r), Paste(new, r)>>)

Busy(j) == todo[j] # <<>> \/ fill[j] # NoFill

Start(j, groups, ids) ==
  /\ ~Busy(j) /\ begun < MaxJobs
  /\ begun' = begun + 1
  /\ todo' = [todo EXCEPT ![j] = OnlyIn(groups, ToSet(groups) \ {<<>>})]
  /\ held' = [held EXCEPT ![j] = NoSecret]
  /\ issued' = issued \cup ids
  /\ UNCHANGED <<registry, keychain, cache, fill, raced, stranded>>

Saved(k) == registry[k] # NoRow

\* A new entry, under an id nobody has, or an edit of one that may be gone by now.
SaveConnection(j) ==
  \E k \in Conn, row \in Row, given \in Typed : Start(j, <<EntrySteps(k, row, given)>>, {k})

DuplicateConnection(j) ==
  \E k \in Conn, new \in Conn \ issued :
    Saved(k) /\ Start(j, <<CopySteps(k, new, registry[k])>>, {new})

DeleteConnection(j) == \E k \in issued : Start(j, <<DeleteSteps(k)>>, {})

\* resolve_open_secret, for an open and for the test of an edit: what was typed
\* is not read.
ResolveOpenSecret(j) ==
  \E k \in Conn : Saved(k) /\ \E untyped \in SUBSET registry[k] :
    Start(j, <<ForRoles(untyped, LAMBDA r : <<Read(k, r)>>)>>, {})

\* An account that cannot be read is flagged and the export goes on.
ExportBundle(j) ==
  \E chosen \in SUBSET {k \in Conn : Saved(k)} :
    LET accounts == {a \in chosen \X Role : a[2] \in registry[a[1]]}
        groups == [i \in 1..Cardinality(accounts) |-> <<Read(SetToSeq(accounts)[i][1], SetToSeq(accounts)[i][2])>>]
    IN  Start(j, groups, {})

\* Each entry is skipped, imported or replaced under its own id, or copied under
\* a new one; an entry that fails is reported and the rest still import.
ImportBundle(j) ==
  \E target \in [1..Len(Bundle) -> Conn \cup {NoRow}] :
    LET taken == {i \in 1..Len(Bundle) : target[i] # NoRow}
        copied == {i \in taken : target[i] # Bundle[i].conn}
    IN  /\ \A i \in copied : target[i] \notin issued
        /\ \A i \in copied, n \in taken : target[i] = target[n] => i = n
        /\ Start(j, [i \in 1..Len(Bundle) |->
                       IF i \in taken THEN EntrySteps(target[i], Bundle[i].row, Bundle[i].given) ELSE <<>>],
                 {target[i] : i \in taken})

-----------------------------------------------------------------------------
(* The steps.                                                               *)

Current(j) == Head(Head(todo[j]))
Ready(j, op) == fill[j] = NoFill /\ todo[j] # <<>> /\ Current(j).op = op

\* A group is left with its last step.
Advance(j) ==
  LET rest == Tail(Head(todo[j]))
  IN  todo' = [todo EXCEPT ![j] = IF rest = <<>> THEN Tail(@) ELSE <<rest>> \o Tail(@)]

\* The accounts a group would still erase.
ErasedBy(group) == {group[i].at : i \in {n \in DOMAIN group : group[n].op = "erase"}}

\* save and save_raw: upsert under the file's lock.
PutEntry(j) ==
  /\ Ready(j, "put")
  /\ registry' = [registry EXCEPT ![Current(j).conn] = Current(j).row]
  /\ Advance(j)
  /\ UNCHANGED <<issued, keychain, cache, held, fill, begun, raced, stranded>>

\* An id that is not in the file is an error, and its secrets are not touched.
DropEntry(j) ==
  /\ Ready(j, "drop")
  /\ IF Saved(Current(j).conn)
     THEN registry' = [registry EXCEPT ![Current(j).conn] = NoRow] /\ Advance(j)
     ELSE registry' = registry /\ todo' = [todo EXCEPT ![j] = Tail(@)]
  /\ UNCHANGED <<issued, keychain, cache, held, fill, begun, raced, stranded>>

Racing(j, a) == \E i \in Job \ {j} : fill[i] # NoFill /\ fill[i][1] = a

\* The keychain takes the value, and the cache is to follow.
Change(j, a, value) ==
  /\ keychain' = [keychain EXCEPT ![a] = value]
  /\ fill' = [fill EXCEPT ![j] = <<a, value>>]
  /\ raced' = IF Racing(j, a) THEN raced \cup {a} ELSE raced \ {a}
  /\ stranded' = IF value # NoSecret /\ ~Saved(a[1]) THEN stranded \cup {a} ELSE stranded \ {a}
  /\ Advance(j)
  /\ UNCHANGED <<store, cache, held, begun>>

WriteSecret(j) == Ready(j, "write") /\ Change(j, Current(j).at, Current(j).secret)

\* duplicate_connection: what was read goes under the new id, if anything was.
PasteSecret(j) ==
  /\ Ready(j, "paste")
  /\ IF held[j] # NoSecret
     THEN Change(j, Current(j).at, held[j])
     ELSE Advance(j) /\ UNCHANGED <<store, keychain, cache, held, fill, begun, raced, stranded>>

\* A missing credential is no error.
EraseSecret(j) == Ready(j, "erase") /\ Change(j, Current(j).at, NoSecret)

\* A cached value, or a known miss, is the answer; only an unread account is
\* asked of the keychain.
LookUp(j) ==
  /\ Ready(j, "read")
  /\ LET a == Current(j).at
     IN  IF cache[a] # Unread
         THEN held' = [held EXCEPT ![j] = cache[a]] /\ Advance(j)
         ELSE held' = held /\ todo' = [todo EXCEPT ![j][1][1] = [@ EXCEPT !.op = "fetch"]]
  /\ UNCHANGED <<store, keychain, cache, fill, begun, raced, stranded>>

Fetch(j) ==
  /\ Ready(j, "fetch")
  /\ LET a == Current(j).at
     IN  /\ held' = [held EXCEPT ![j] = keychain[a]]
         /\ fill' = [fill EXCEPT ![j] = <<a, keychain[a]>>]
  /\ Advance(j)
  /\ UNCHANGED <<store, keychain, cache, begun, raced, stranded>>

\* Bug variant: a miss is not remembered, so a value that was erased stays.
FillHits(j) ==
  /\ fill[j] # NoFill
  /\ cache' = IF fill[j][2] = NoSecret THEN cache ELSE [cache EXCEPT ![fill[j][1]] = fill[j][2]]
  /\ fill' = [fill EXCEPT ![j] = NoFill]
  /\ UNCHANGED <<store, keychain, todo, held, begun, raced, stranded>>

\* The second half of every keychain call, under the cache's lock.
Fill(j) ==
  /\ fill[j] # NoFill
  /\ cache' = [cache EXCEPT ![fill[j][1]] = fill[j][2]]
  /\ fill' = [fill EXCEPT ![j] = NoFill]
  /\ UNCHANGED <<store, keychain, todo, held, begun, raced, stranded>>

\* The disk or the keychain refuses. The entry is gone by then, if the step was
\* to erase its secrets.
Refused(j) ==
  /\ fill[j] = NoFill /\ todo[j] # <<>> /\ Current(j).op # "paste"
  /\ todo' = [todo EXCEPT ![j] = Tail(@)]
  /\ stranded' = IF Current(j).op = "drop" THEN stranded ELSE stranded \cup ErasedBy(Head(todo[j]))
  /\ UNCHANGED <<store, keychain, cache, held, fill, begun, raced>>

\* The process ends and is started again: the two files of it that last are the
\* registry and the keychain.
Restart ==
  /\ cache' = [a \in Account |-> Unread]
  /\ todo' = [j \in Job |-> <<>>]
  /\ held' = [j \in Job |-> NoSecret]
  /\ fill' = [j \in Job |-> NoFill]
  /\ raced' = {}
  /\ stranded' = stranded \cup
       UNION {ErasedBy(Head(todo[j])) : j \in {i \in Job : todo[i] # <<>> /\ Current(i).op # "drop"}}
  /\ UNCHANGED <<store, keychain, begun>>

RegistryNext ==
  \/ \E j \in Job :
       \/ SaveConnection(j) \/ DuplicateConnection(j) \/ DeleteConnection(j)
       \/ ResolveOpenSecret(j) \/ ExportBundle(j) \/ ImportBundle(j)
       \/ PutEntry(j) \/ DropEntry(j) \/ WriteSecret(j) \/ PasteSecret(j) \/ EraseSecret(j)
       \/ LookUp(j) \/ Fetch(j) \/ Fill(j) \/ Refused(j)
  \/ Restart

RegistrySpec == RegistryInit /\ [][RegistryNext]_registryVars

-----------------------------------------------------------------------------
(* Properties.                                                             *)

Settled(a) == \A j \in Job : fill[j] = NoFill \/ fill[j][1] # a

\* "Keep the cache coherent with the write so the next read serves it": what
\* the cache says of an account, a known miss included, is what the keychain
\* holds, whatever calls were refused half way. Only a change made while another
\* command stood between its keychain call and its insertion is excepted: the
\* older value then stays in the cache until the account changes or the app ends.
CacheIsTheKeychain ==
  \A a \in Account : Settled(a) /\ a \notin raced => cache[a] \in {Unread, keychain[a]}

Erasing(a) == \E j \in Job : todo[j] # <<>> /\ a \in ErasedBy(Head(todo[j]))

\* No secret is left in the keychain for an entry the registry does not have,
\* whatever was edited, copied, imported or refused before: except where the
\* erase itself was refused or cut off by a crash, or a secret was still being
\* written when its entry was deleted.
SecretsHaveARow ==
  \A a \in Account : keychain[a] # NoSecret => Saved(a[1]) \/ a \in stranded \/ Erasing(a)
===============================================================================
