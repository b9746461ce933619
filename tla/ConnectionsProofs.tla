--------------------------- MODULE ConnectionsProofs ---------------------------
(***************************************************************************)
(* Proofs about the backend's connections: the table of open handles, for  *)
(* any number of handles and tasks, the registry with its secrets, for any *)
(* connections, secrets, bundles and number of commands in flight, and the *)
(* generation of rows, for any schema and whatever its calls answer.       *)
(*                                                                         *)
(* The table's safety properties rest on one inductive invariant, IInv. It *)
(* is preserved conjunct by conjunct, with one lemma per conjunct and one  *)
(* step per action in each. The registry's rest on RegistryInv, preserved  *)
(* action by action: a command is a sequence of groups of steps, and what  *)
(* a delete leaves to erase is read off the group it is at. Generation     *)
(* rests on the planner first: its walk ends, its order has every table    *)
(* once, and what precedes a table or breaks a cycle covers its keys; then *)
(* GenerateInv says what the run has filled by the table it is at.         *)
(***************************************************************************)
EXTENDS MCConnections, SequenceFacts, TLAPS

-----------------------------------------------------------------------------
(* The table of open handles.                                              *)

\* Every step keeps the variables in their types.
LEMMA StepTypeOK == IInv /\ [Next]_vars => TypeOK'
<1> SUFFICES ASSUME IInv, [Next]_vars PROVE TypeOK'
  OBVIOUS
<1> USE HandleAssumption DEF IInv, PC, manager, teardown, task, history, At, Goto, Finish,
                              TypeOK
<1>1. ASSUME NEW t \in Task, StartOpen(t) PROVE TypeOK'
  BY <1>1 DEF StartOpen, SessionMode
<1>2. ASSUME NEW t \in Task, ConnectFails(t) PROVE TypeOK'
  BY <1>2 DEF ConnectFails
<1>3. ASSUME NEW t \in Task, Insert(t) PROVE TypeOK'
  <2>1. PICK h \in Handle \ minted :
          /\ minted' = minted \cup {h} /\ open' = open \cup {h}
          /\ mode' = [mode EXCEPT ![h] = flag[t]]
          /\ known' \in {known, known \cup {h}}
          /\ Goto(t, "insertMode", h, TRUE) \/ Finish(t)
    BY <1>3 DEF Insert
  <2>2. pc' \in [Task -> PC] /\ handle' \in [Task -> Handle \cup {NoHandle}] /\ flag' \in [Task -> BOOLEAN]
    <3>1. CASE Goto(t, "insertMode", h, TRUE)
      BY <3>1
    <3>2. CASE Finish(t)
      BY <3>2
    <3>3. QED
      BY <2>1, <3>1, <3>2
  <2>3. mode' \in [Handle -> BOOLEAN]
    BY <2>1
  <2>4. UNCHANGED <<readOnly, closes, exit, doomed, closing, lockedAtGate>>
    BY <1>3 DEF Insert
  <2>5. minted' \subseteq Handle /\ open' \subseteq Handle /\ known' \subseteq Handle
    BY <2>1
  <2>6. QED
    BY <2>2, <2>3, <2>4, <2>5
<1>4. ASSUME NEW t \in Task, InsertMode(t) PROVE TypeOK'
  BY <1>4 DEF InsertMode, Held, Containment
<1>5. ASSUME NEW t \in Task, CheckOpen(t) PROVE TypeOK'
  BY <1>5 DEF CheckOpen
<1>6. ASSUME NEW t \in Task, SetMode(t) PROVE TypeOK'
  BY <1>6 DEF SetMode, Held, Containment
<1>7. ASSUME NEW t \in Task, Gate(t) PROVE TypeOK'
  BY <1>7 DEF Gate
<1>8. ASSUME NEW t \in Task, Get(t) PROVE TypeOK'
  <2>1. CASE handle[t] \in open
    BY <1>8, <2>1 DEF Get
  <2>2. CASE handle[t] \notin open
    BY <1>8, <2>2 DEF Get
  <2>3. QED
    BY <2>1, <2>2
<1>9. ASSUME NEW t \in Task, Execute(t) PROVE TypeOK'
  BY <1>9 DEF Execute
<1>10. ASSUME NEW t \in Task, ForgetMode(t) PROVE TypeOK'
  BY <1>10 DEF ForgetMode
<1>11. ASSUME NEW t \in Task, RemoveOpen(t) PROVE TypeOK'
  <2>1. CASE handle[t] \in open
    BY <1>11, <2>1 DEF RemoveOpen
  <2>2. CASE handle[t] \notin open
    BY <1>11, <2>2 DEF RemoveOpen
  <2>3. QED
    BY <2>1, <2>2
<1>12. ASSUME NEW t \in Task, CloseConnection(t) PROVE TypeOK'
  BY <1>12 DEF CloseConnection, Held, Containment
<1>13. CASE ExitClear
  BY <1>13 DEF ExitClear
<1>14. CASE ExitDrain
  BY <1>14 DEF ExitDrain
<1>15. CASE ExitClose
  BY <1>15 DEF ExitClose
<1>16. CASE ExitDone
  BY <1>16 DEF ExitDone
<1>17. CASE UNCHANGED vars
  BY <1>17 DEF vars
<1>18. QED
  BY <1>1, <1>2, <1>3, <1>4, <1>5, <1>6, <1>7, <1>8,
     <1>9, <1>10, <1>11, <1>12, <1>13, <1>14, <1>15, <1>16, <1>17
     DEF Next, Begin, Connect, Continue, Exiting, Exited

\* Nothing but minted ids is ever in the table, in the read-only set, on the
\* way to close() or in the renderer's hands, and close_all is the only drainer.
LEMMA StepContainment == IInv /\ [Next]_vars => Containment'
<1> SUFFICES ASSUME IInv, [Next]_vars PROVE Containment'
  OBVIOUS
<1> USE HandleAssumption DEF IInv, PC, manager, teardown, task, history, At, Goto, Finish,
                              TypeOK, Containment
<1>1. ASSUME NEW t \in Task, StartOpen(t) PROVE Containment'
  BY <1>1 DEF StartOpen
<1>2. ASSUME NEW t \in Task, ConnectFails(t) PROVE Containment'
  BY <1>2 DEF ConnectFails
<1>3. ASSUME NEW t \in Task, Insert(t) PROVE Containment'
  BY <1>3 DEF Insert
<1>4. ASSUME NEW t \in Task, InsertMode(t) PROVE Containment'
  BY <1>4 DEF InsertMode, Held
<1>5. ASSUME NEW t \in Task, CheckOpen(t) PROVE Containment'
  BY <1>5 DEF CheckOpen
<1>6. ASSUME NEW t \in Task, SetMode(t) PROVE Containment'
  BY <1>6 DEF SetMode, Held
<1>7. ASSUME NEW t \in Task, Gate(t) PROVE Containment'
  BY <1>7 DEF Gate
<1>8. ASSUME NEW t \in Task, Get(t) PROVE Containment'
  BY <1>8 DEF Get
<1>9. ASSUME NEW t \in Task, Execute(t) PROVE Containment'
  BY <1>9 DEF Execute
<1>10. ASSUME NEW t \in Task, ForgetMode(t) PROVE Containment'
  BY <1>10 DEF ForgetMode
<1>11. ASSUME NEW t \in Task, RemoveOpen(t) PROVE Containment'
  BY <1>11 DEF RemoveOpen
<1>12. ASSUME NEW t \in Task, CloseConnection(t) PROVE Containment'
  BY <1>12 DEF CloseConnection, Held
<1>13. CASE ExitClear
  BY <1>13 DEF ExitClear
<1>14. CASE ExitDrain
  BY <1>14 DEF ExitDrain
<1>15. CASE ExitClose
  BY <1>15 DEF ExitClose
<1>16. CASE ExitDone
  BY <1>16 DEF ExitDone
<1>17. CASE UNCHANGED vars
  BY <1>17 DEF vars
<1>18. QED
  BY <1>1, <1>2, <1>3, <1>4, <1>5, <1>6, <1>7, <1>8,
     <1>9, <1>10, <1>11, <1>12, <1>13, <1>14, <1>15, <1>16, <1>17
     DEF Next, Begin, Connect, Continue, Exiting, Exited

\* A task between two steps holds an id of the table's own making: one nobody
\* else has been told of while its mode is being stored, a published one otherwise.
LEMMA StepHeld == IInv /\ [Next]_vars => Held'
<1> SUFFICES ASSUME IInv, [Next]_vars PROVE Held'
  OBVIOUS
<1> USE HandleAssumption DEF IInv, PC, manager, teardown, task, history, At, Goto, Finish,
                              TypeOK, Containment, Held
<1>1. ASSUME NEW t \in Task, StartOpen(t) PROVE Held'
  BY <1>1 DEF StartOpen
<1>2. ASSUME NEW t \in Task, ConnectFails(t) PROVE Held'
  BY <1>2 DEF ConnectFails
<1>3. ASSUME NEW t \in Task, Insert(t) PROVE Held'
  BY <1>3 DEF Insert
<1>4. ASSUME NEW t \in Task, InsertMode(t) PROVE Held'
  BY <1>4 DEF InsertMode
<1>5. ASSUME NEW t \in Task, CheckOpen(t) PROVE Held'
  BY <1>5 DEF CheckOpen
<1>6. ASSUME NEW t \in Task, SetMode(t) PROVE Held'
  BY <1>6 DEF SetMode
<1>7. ASSUME NEW t \in Task, Gate(t) PROVE Held'
  BY <1>7 DEF Gate
<1>8. ASSUME NEW t \in Task, Get(t) PROVE Held'
  BY <1>8 DEF Get
<1>9. ASSUME NEW t \in Task, Execute(t) PROVE Held'
  BY <1>9 DEF Execute
<1>10. ASSUME NEW t \in Task, ForgetMode(t) PROVE Held'
  BY <1>10 DEF ForgetMode
<1>11. ASSUME NEW t \in Task, RemoveOpen(t) PROVE Held'
  BY <1>11 DEF RemoveOpen
<1>12. ASSUME NEW t \in Task, CloseConnection(t) PROVE Held'
  BY <1>12 DEF CloseConnection
<1>13. CASE ExitClear
  BY <1>13 DEF ExitClear
<1>14. CASE ExitDrain
  BY <1>14 DEF ExitDrain
<1>15. CASE ExitClose
  BY <1>15 DEF ExitClose
<1>16. CASE ExitDone
  BY <1>16 DEF ExitDone
<1>17. CASE UNCHANGED vars
  BY <1>17 DEF vars
<1>18. QED
  BY <1>1, <1>2, <1>3, <1>4, <1>5, <1>6, <1>7, <1>8,
     <1>9, <1>10, <1>11, <1>12, <1>13, <1>14, <1>15, <1>16, <1>17
     DEF Next, Begin, Connect, Continue, Exiting, Exited

\* The read-only set is the last granted mode of every published handle that is
\* not being torn down.
LEMMA StepModeEnforced == IInv /\ [Next]_vars => ModeEnforced'
<1> SUFFICES ASSUME IInv, [Next]_vars PROVE ModeEnforced'
  OBVIOUS
<1> USE HandleAssumption DEF IInv, PC, manager, teardown, task, history, At, Goto, Finish,
                              TypeOK, Containment, Held, ModeEnforced, BeingClosed
<1>1. ASSUME NEW t \in Task, StartOpen(t) PROVE ModeEnforced'
  BY <1>1 DEF StartOpen
<1>2. ASSUME NEW t \in Task, ConnectFails(t) PROVE ModeEnforced'
  BY <1>2 DEF ConnectFails
<1>3. ASSUME NEW t \in Task, Insert(t) PROVE ModeEnforced'
  BY <1>3 DEF Insert
<1>4. ASSUME NEW t \in Task, InsertMode(t) PROVE ModeEnforced'
  BY <1>4 DEF InsertMode
<1>5. ASSUME NEW t \in Task, CheckOpen(t) PROVE ModeEnforced'
  BY <1>5 DEF CheckOpen
<1>6. ASSUME NEW t \in Task, SetMode(t) PROVE ModeEnforced'
  BY <1>6 DEF SetMode
<1>7. ASSUME NEW t \in Task, Gate(t) PROVE ModeEnforced'
  BY <1>7 DEF Gate
<1>8. ASSUME NEW t \in Task, Get(t) PROVE ModeEnforced'
  BY <1>8 DEF Get
<1>9. ASSUME NEW t \in Task, Execute(t) PROVE ModeEnforced'
  BY <1>9 DEF Execute
<1>10. ASSUME NEW t \in Task, ForgetMode(t) PROVE ModeEnforced'
  BY <1>10 DEF ForgetMode
<1>11. ASSUME NEW t \in Task, RemoveOpen(t) PROVE ModeEnforced'
  BY <1>11 DEF RemoveOpen
<1>12. ASSUME NEW t \in Task, CloseConnection(t) PROVE ModeEnforced'
  BY <1>12 DEF CloseConnection
<1>13. CASE ExitClear
  BY <1>13 DEF ExitClear
<1>14. CASE ExitDrain
  BY <1>14 DEF ExitDrain
<1>15. CASE ExitClose
  BY <1>15 DEF ExitClose
<1>16. CASE ExitDone
  BY <1>16 DEF ExitDone
<1>17. CASE UNCHANGED vars
  BY <1>17 DEF vars
<1>18. QED
  BY <1>1, <1>2, <1>3, <1>4, <1>5, <1>6, <1>7, <1>8,
     <1>9, <1>10, <1>11, <1>12, <1>13, <1>14, <1>15, <1>16, <1>17
     DEF Next, Begin, Connect, Continue, Exiting, Exited

\* Each step moves a connection from one owner to the next, and only its last
\* owner closes it.
LEMMA StepConnectionOwnedOnce == IInv /\ [Next]_vars => ConnectionOwnedOnce'
<1> SUFFICES ASSUME IInv, [Next]_vars PROVE ConnectionOwnedOnce'
  OBVIOUS
<1> USE HandleAssumption DEF IInv, PC, manager, teardown, task, history, At, Goto, Finish,
                              TypeOK, Containment, Held, ConnectionOwnedOnce, TearingDown
<1>1. ASSUME NEW t \in Task, StartOpen(t) PROVE ConnectionOwnedOnce'
  BY <1>1 DEF StartOpen
<1>2. ASSUME NEW t \in Task, ConnectFails(t) PROVE ConnectionOwnedOnce'
  BY <1>2 DEF ConnectFails
<1>3. ASSUME NEW t \in Task, Insert(t) PROVE ConnectionOwnedOnce'
  BY <1>3 DEF Insert
<1>4. ASSUME NEW t \in Task, InsertMode(t) PROVE ConnectionOwnedOnce'
  BY <1>4 DEF InsertMode
<1>5. ASSUME NEW t \in Task, CheckOpen(t) PROVE ConnectionOwnedOnce'
  BY <1>5 DEF CheckOpen
<1>6. ASSUME NEW t \in Task, SetMode(t) PROVE ConnectionOwnedOnce'
  BY <1>6 DEF SetMode
<1>7. ASSUME NEW t \in Task, Gate(t) PROVE ConnectionOwnedOnce'
  BY <1>7 DEF Gate
<1>8. ASSUME NEW t \in Task, Get(t) PROVE ConnectionOwnedOnce'
  BY <1>8 DEF Get
<1>9. ASSUME NEW t \in Task, Execute(t) PROVE ConnectionOwnedOnce'
  BY <1>9 DEF Execute
<1>10. ASSUME NEW t \in Task, ForgetMode(t) PROVE ConnectionOwnedOnce'
  BY <1>10 DEF ForgetMode
<1>11. ASSUME NEW t \in Task, RemoveOpen(t) PROVE ConnectionOwnedOnce'
  BY <1>11 DEF RemoveOpen
<1>12. ASSUME NEW t \in Task, CloseConnection(t) PROVE ConnectionOwnedOnce'
  BY <1>12 DEF CloseConnection
<1>13. CASE ExitClear
  BY <1>13 DEF ExitClear
<1>14. CASE ExitDrain
  BY <1>14 DEF ExitDrain
<1>15. CASE ExitClose
  BY <1>15 DEF ExitClose
<1>16. CASE ExitDone
  BY <1>16 DEF ExitDone
<1>17. CASE UNCHANGED vars
  BY <1>17 DEF vars
<1>18. QED
  BY <1>1, <1>2, <1>3, <1>4, <1>5, <1>6, <1>7, <1>8,
     <1>9, <1>10, <1>11, <1>12, <1>13, <1>14, <1>15, <1>16, <1>17
     DEF Next, Begin, Connect, Continue, Exiting, Exited

\* Passing the gate of a locked handle takes a teardown of that handle.
LEMMA StepLockedHandleRefusesWrites == IInv /\ [Next]_vars => LockedHandleRefusesWrites'
<1> SUFFICES ASSUME IInv, [Next]_vars PROVE LockedHandleRefusesWrites'
  OBVIOUS
<1> USE HandleAssumption DEF IInv, PC, manager, teardown, task, history, At, Goto, Finish,
                              TypeOK, Held, LockedHandleRefusesWrites, BeingClosed
<1>1. ASSUME NEW t \in Task, StartOpen(t) PROVE LockedHandleRefusesWrites'
  BY <1>1 DEF StartOpen
<1>2. ASSUME NEW t \in Task, ConnectFails(t) PROVE LockedHandleRefusesWrites'
  BY <1>2 DEF ConnectFails
<1>3. ASSUME NEW t \in Task, Insert(t) PROVE LockedHandleRefusesWrites'
  BY <1>3 DEF Insert
<1>4. ASSUME NEW t \in Task, InsertMode(t) PROVE LockedHandleRefusesWrites'
  BY <1>4 DEF InsertMode
<1>5. ASSUME NEW t \in Task, CheckOpen(t) PROVE LockedHandleRefusesWrites'
  BY <1>5 DEF CheckOpen
<1>6. ASSUME NEW t \in Task, SetMode(t) PROVE LockedHandleRefusesWrites'
  BY <1>6 DEF SetMode
<1>7. ASSUME NEW t \in Task, Gate(t) PROVE LockedHandleRefusesWrites'
  BY <1>7 DEF Gate, Passes, ModeEnforced
<1>8. ASSUME NEW t \in Task, Get(t) PROVE LockedHandleRefusesWrites'
  BY <1>8 DEF Get
<1>9. ASSUME NEW t \in Task, Execute(t) PROVE LockedHandleRefusesWrites'
  BY <1>9 DEF Execute
<1>10. ASSUME NEW t \in Task, ForgetMode(t) PROVE LockedHandleRefusesWrites'
  BY <1>10 DEF ForgetMode
<1>11. ASSUME NEW t \in Task, RemoveOpen(t) PROVE LockedHandleRefusesWrites'
  BY <1>11 DEF RemoveOpen
<1>12. ASSUME NEW t \in Task, CloseConnection(t) PROVE LockedHandleRefusesWrites'
  BY <1>12 DEF CloseConnection
<1>13. CASE ExitClear
  BY <1>13 DEF ExitClear
<1>14. CASE ExitDrain
  BY <1>14 DEF ExitDrain
<1>15. CASE ExitClose
  BY <1>15 DEF ExitClose
<1>16. CASE ExitDone
  BY <1>16 DEF ExitDone
<1>17. CASE UNCHANGED vars
  BY <1>17 DEF vars
<1>18. QED
  BY <1>1, <1>2, <1>3, <1>4, <1>5, <1>6, <1>7, <1>8,
     <1>9, <1>10, <1>11, <1>12, <1>13, <1>14, <1>15, <1>16, <1>17
     DEF Next, Begin, Connect, Continue, Exiting, Exited
-----------------------------------------------------------------------------
\* A fresh table satisfies the invariant.
LEMMA InitInvariant == Init => IInv
BY HandleAssumption
   DEF Init, IInv, TypeOK, PC, Containment, Held, ModeEnforced, ConnectionOwnedOnce,
       TearingDown, LockedHandleRefusesWrites

\* Every step of every command and of the exit hook preserves the invariant.
LEMMA NextInvariant == IInv /\ [Next]_vars => IInv'
BY StepTypeOK, StepContainment, StepHeld, StepModeEnforced, StepConnectionOwnedOnce,
   StepLockedHandleRefusesWrites
   DEF IInv

LEMMA Invariance == Spec => []IInv
<1>1. Init => IInv
  BY InitInvariant
<1>2. IInv /\ [Next]_vars => IInv'
  BY NextInvariant
<1>3. QED
  BY <1>1, <1>2, PTL DEF Spec

-----------------------------------------------------------------------------
\* The variables keep their types, whatever runs concurrently.
THEOREM TypeCorrect == Spec => []TypeOK
<1>1. IInv => TypeOK
  BY DEF IInv
<1>2. QED
  BY <1>1, Invariance, PTL

\* However closes, a close_all and connects interleave, a connection has one
\* owner until it is closed, and close() is called on it at most once.
THEOREM ConnectionsClosedOnce == Spec => []ConnectionOwnedOnce
<1>1. IInv => ConnectionOwnedOnce
  BY DEF IInv
<1>2. QED
  BY <1>1, Invariance, PTL

\* The read-only gate: with any number of concurrent commands, a writing command
\* passes the gate of a read-only session only during that session's teardown.
THEOREM ReadOnlyGate == Spec => []LockedHandleRefusesWrites
<1>1. IInv => LockedHandleRefusesWrites
  BY DEF IInv
<1>2. QED
  BY <1>1, Invariance, PTL

\* A read-only entry that a race left behind never gates another connection:
\* a handle that has left the table does not return to it.
THEOREM StaleEntriesInert == Spec => StaleModeNeverHit
<1>1. IInv /\ [Next]_vars => [\A h \in readOnly : h \notin open => h \notin open']_vars
  <2> SUFFICES ASSUME IInv, [Next]_vars, NEW h \in readOnly, h \notin open
               PROVE  h \notin open'
    OBVIOUS
  <2> USE DEF IInv, TypeOK, Containment, manager, teardown, task, history
  <2>1. ASSUME NEW t \in Task, Begin(t) \/ Connect(t) \/ Continue(t) PROVE h \notin open'
    BY <2>1 DEF Begin, Connect, Continue, StartOpen, ConnectFails, Insert, InsertMode, CheckOpen,
                SetMode, Gate, Get, Execute, ForgetMode, RemoveOpen, CloseConnection
  <2>2. CASE ExitClear \/ Exiting
    BY <2>2 DEF ExitClear, Exiting, ExitDrain, ExitClose, ExitDone
  <2>3. CASE UNCHANGED vars
    BY <2>3 DEF vars
  <2>4. QED
    BY <2>1, <2>2, <2>3 DEF Next, Exited
<1>2. QED
  BY <1>1, Invariance, PTL DEF Spec, StaleModeNeverHit

-----------------------------------------------------------------------------
(* The registry and its secrets.                                           *)

\* What a command does at one lock or one call.
Step ==
  [op : {"put"}, conn : Conn, row : Row] \cup [op : {"drop"}, conn : Conn]
    \cup [op : {"read", "fetch", "paste", "erase"}, at : Account]
    \cup [op : {"write"}, at : Account, secret : Secret]

\* The steps of a group that drops an entry begin with that and erase both of its accounts.
DropsFirst(g) ==
  \A n \in DOMAIN g :
    g[n].op = "drop" => n = 1 /\ \A r \in Role : <<g[n].conn, r>> \in ErasedBy(g)

Group == {g \in Seq(Step) : DropsFirst(g)}
Groups == Seq(Group \ {<<>>})

\* The commands under way: what is left of them, and a fill that has both its halves.
Commands ==
  /\ todo \in [Job -> Groups]
  /\ fill \in [Job -> (Account \X (Secret \cup {NoSecret})) \cup {NoFill}]

\* What is to be put into the cache is what the keychain holds, except where a change raced.
FillsAreCurrent ==
  \A a \in Account \ raced : \A j \in Job :
    fill[j] # NoFill /\ fill[j][1] = a => fill[j][2] = keychain[a]

\* Of an entry that is gone, a secret is left only to a group that has begun to erase.
ErasesNow(j, a) == todo[j] # <<>> /\ Current(j).op # "drop" /\ a \in ErasedBy(Head(todo[j]))
LeftToErase ==
  \A a \in Account : keychain[a] # NoSecret =>
    Saved(a[1]) \/ a \in stranded \/ \E j \in Job : ErasesNow(j, a)

RegistryInv == RegistryTypeOK /\ Commands /\ FillsAreCurrent /\ CacheIsTheKeychain /\ LeftToErase

-----------------------------------------------------------------------------
\* One more element at the front.
LEMMA ConsPlaces ==
  ASSUME NEW S, NEW x \in S, NEW s \in Seq(S)
  PROVE  /\ <<x>> \o s \in Seq(S) /\ Len(<<x>> \o s) = Len(s) + 1 /\ (<<x>> \o s)[1] = x
         /\ \A n \in 1..Len(s) : (<<x>> \o s)[n + 1] = s[n]
<1>1. <<x>> \in Seq(S) /\ Len(<<x>>) = 1 /\ <<x>>[1] = x
  OBVIOUS
<1> QED  BY <1>1

\* What a step carries.
LEMMA StepFacts ==
  ASSUME NEW x \in Step
  PROVE  /\ x.op \in {"put", "drop", "read", "fetch", "paste", "erase", "write"}
         /\ x.op = "put" => x.conn \in Conn /\ x.row \in Row
         /\ x.op = "drop" => x.conn \in Conn
         /\ x.op \in {"read", "fetch", "paste", "erase", "write"} => x.at \in Account
         /\ x.op = "write" => x.secret \in Secret
  BY DEF Step

\* An account is erased by a group that has the step for it.
LEMMA ErasedIff ==
  ASSUME NEW g, NEW a
  PROVE  a \in ErasedBy(g) <=> \E n \in DOMAIN g : g[n].op = "erase" /\ g[n].at = a
  BY DEF ErasedBy

\* What a group still erases after its first step.
LEMMA TailErases ==
  ASSUME NEW g \in Group, g # <<>>
  PROVE  /\ Tail(g) \in Group /\ g[1] \in Step /\ Head(g) = g[1]
         /\ \A n \in DOMAIN Tail(g) : Tail(g)[n].op # "drop"
         /\ \A a \in ErasedBy(g) : a \in ErasedBy(Tail(g)) \/ (g[1].op = "erase" /\ g[1].at = a)
         /\ ErasedBy(Tail(g)) \subseteq ErasedBy(g)
<1> DEFINE t == Tail(g)
<1>1. /\ g \in Seq(Step) /\ Len(g) \in Nat /\ Len(g) > 0 /\ g[1] \in Step /\ Head(g) = g[1]
      /\ t \in Seq(Step) /\ Len(t) = Len(g) - 1
      /\ \A n \in 1..(Len(g) - 1) : t[n] = g[n + 1]
      /\ \A n \in 2..Len(g) : t[n - 1] = g[n]
      /\ DOMAIN g = 1..Len(g) /\ DOMAIN t = 1..(Len(g) - 1)
  BY DEF Group
<1> HIDE DEF t
<1>2. \A n \in DOMAIN t : n + 1 \in DOMAIN g /\ n + 1 # 1 /\ t[n] = g[n + 1]
  BY <1>1
<1>3. \A n \in DOMAIN t : t[n].op # "drop"
  BY <1>2 DEF Group, DropsFirst
<1>4. t \in Group
  BY <1>1, <1>3 DEF Group, DropsFirst
<1>5. ASSUME NEW a \in ErasedBy(g)
      PROVE  a \in ErasedBy(t) \/ (g[1].op = "erase" /\ g[1].at = a)
  <2>1. PICK n \in DOMAIN g : g[n].op = "erase" /\ g[n].at = a
    BY ErasedIff
  <2>2. CASE n = 1
    BY <2>1, <2>2
  <2>3. CASE n # 1
    <3>1. n - 1 \in 1..(Len(g) - 1) /\ n \in 2..Len(g)
      <4>1. n \in 1..Len(g)
        BY <1>1
      <4> QED  BY <1>1, <2>3, <4>1
    <3>2. t[n - 1] = g[n] /\ n - 1 \in DOMAIN t
      BY <1>1, <3>1
    <3> QED  BY <2>1, <3>2, ErasedIff
  <2> QED  BY <2>2, <2>3
<1>6. ASSUME NEW a \in ErasedBy(t)
      PROVE  a \in ErasedBy(g)
  <2>1. PICK n \in DOMAIN t : t[n].op = "erase" /\ t[n].at = a
    BY ErasedIff
  <2> QED  BY <1>2, <2>1, ErasedIff
<1> QED  BY <1>1, <1>3, <1>4, <1>5, <1>6 DEF t

-----------------------------------------------------------------------------
\* The groups that the commands are made of. Only a delete drops, and a group without a drop
\* is one whatever else is in it.
Plain == {g \in Seq(Step) : \A n \in DOMAIN g : g[n].op # "drop"}

\* What a group without a drop can be put together from.
LEMMA PlainGroups ==
  /\ Plain \subseteq Group
  /\ <<>> \in Plain
  /\ \A x \in Step : x.op # "drop" => <<x>> \in Plain
  /\ \A x, y \in Step : x.op # "drop" /\ y.op # "drop" => <<x, y>> \in Plain
  /\ \A g, h \in Plain : g \o h \in Plain
<1>1. Plain \subseteq Group /\ <<>> \in Plain
  BY DEF Plain, Group, DropsFirst
<1>2. ASSUME NEW x \in Step, NEW y \in Step, x.op # "drop"
      PROVE  <<x>> \in Plain /\ (y.op # "drop" => <<x, y>> \in Plain)
  <2>1. <<x>> \in Seq(Step) /\ DOMAIN <<x>> = 1..1 /\ <<x>>[1] = x
    OBVIOUS
  <2>2. <<x, y>> \in Seq(Step) /\ DOMAIN <<x, y>> = 1..2 /\ <<x, y>>[1] = x /\ <<x, y>>[2] = y
    OBVIOUS
  <2>3. \A n \in 1..1 : n = 1
    OBVIOUS
  <2>4. \A n \in 1..2 : n = 1 \/ n = 2
    OBVIOUS
  <2> QED  BY <1>2, <2>1, <2>2, <2>3, <2>4 DEF Plain
<1>3. ASSUME NEW g \in Plain, NEW h \in Plain
      PROVE  g \o h \in Plain
  <2>1. g \in Seq(Step) /\ h \in Seq(Step) /\ Len(g) \in Nat /\ Len(h) \in Nat
        /\ (\A n \in 1..Len(g) : g[n].op # "drop") /\ \A n \in 1..Len(h) : h[n].op # "drop"
    BY DEF Plain
  <2>2. g \o h \in Seq(Step) /\ DOMAIN (g \o h) = 1..(Len(g) + Len(h))
    BY <2>1
  <2>3. ASSUME NEW n \in 1..(Len(g) + Len(h))
        PROVE  (g \o h)[n].op # "drop"
    <3>1. CASE n <= Len(g)
      <4>1. (g \o h)[n] = g[n] /\ n \in 1..Len(g)
        BY <2>1, <3>1
      <4> QED  BY <2>1, <4>1
    <3>2. CASE n > Len(g)
      <4>1. (g \o h)[n] = h[n - Len(g)] /\ n - Len(g) \in 1..Len(h)
        BY <2>1, <3>2
      <4> QED  BY <2>1, <4>1
    <3> QED  BY <2>1, <3>1, <3>2
  <2> QED  BY <2>2, <2>3 DEF Plain
<1> QED  BY <1>1, <1>2, <1>3

\* The steps of reads, writes and copies.
LEMMA StepsTyped ==
  /\ \A k \in Conn, r \in Role :
       /\ <<k, r>> \in Account
       /\ Read(k, r) \in Step /\ Read(k, r).op # "drop"
       /\ Paste(k, r) \in Step /\ Paste(k, r).op # "drop"
       /\ Erase(k, r) \in Step /\ Erase(k, r).op = "erase" /\ Erase(k, r).at = <<k, r>>
       /\ \A x \in Secret : Write(k, r, x) \in Step /\ Write(k, r, x).op # "drop"
  /\ \A k \in Conn, row \in Row : Put(k, row) \in Step /\ Put(k, row).op # "drop"
  /\ \A k \in Conn : Drop(k) \in Step /\ Drop(k).op = "drop" /\ Drop(k).conn = k
  BY DEF Read, Paste, Erase, Write, Put, Drop, Step, Account

\* A saved or imported entry, and its secrets.
LEMMA EntryIsPlain ==
  ASSUME NEW k \in Conn, NEW row \in Row, NEW given \in [Role -> Secret \cup {NoSecret}]
  PROVE  EntrySteps(k, row, given) \in Plain
<1> DEFINE roles == {r \in Role : given[r] # NoSecret}
           db == IF "db" \in roles THEN <<Write(k, "db", given["db"])>> ELSE <<>>
           ssh == IF "ssh" \in roles THEN <<Write(k, "ssh", given["ssh"])>> ELSE <<>>
<1>1. Writes(k, given) = db \o ssh
  BY DEF Writes, ForRoles
<1>2. db \in Plain /\ ssh \in Plain
  BY PlainGroups, StepsTyped DEF Role
<1>3. <<Put(k, row)>> \in Plain
  BY PlainGroups, StepsTyped
<1> HIDE DEF db, ssh
<1> QED  BY <1>1, <1>2, <1>3, PlainGroups DEF EntrySteps

\* A copy, and the secrets read for it.
LEMMA CopyIsPlain ==
  ASSUME NEW k \in Conn, NEW new \in Conn, NEW row \in Row
  PROVE  CopySteps(k, new, row) \in Plain
<1> DEFINE db == IF "db" \in row THEN <<Read(k, "db"), Paste(new, "db")>> ELSE <<>>
           ssh == IF "ssh" \in row THEN <<Read(k, "ssh"), Paste(new, "ssh")>> ELSE <<>>
<1>1. CopySteps(k, new, row) = <<Put(new, row)>> \o (db \o ssh)
  BY DEF CopySteps, ForRoles
<1>2. db \in Plain /\ ssh \in Plain
  BY PlainGroups, StepsTyped DEF Role
<1>3. <<Put(new, row)>> \in Plain
  BY PlainGroups, StepsTyped
<1> HIDE DEF db, ssh
<1> QED  BY <1>1, <1>2, <1>3, PlainGroups

\* The reads of an open.
LEMMA ReadsArePlain ==
  ASSUME NEW k \in Conn, NEW untyped
  PROVE  ForRoles(untyped, LAMBDA r : <<Read(k, r)>>) \in Plain
<1> DEFINE db == IF "db" \in untyped THEN <<Read(k, "db")>> ELSE <<>>
           ssh == IF "ssh" \in untyped THEN <<Read(k, "ssh")>> ELSE <<>>
<1>1. ForRoles(untyped, LAMBDA r : <<Read(k, r)>>) = db \o ssh
  BY DEF ForRoles
<1>2. db \in Plain /\ ssh \in Plain
  BY PlainGroups, StepsTyped DEF Role
<1> HIDE DEF db, ssh
<1> QED  BY <1>1, <1>2, PlainGroups

\* A delete drops the entry and then erases both of its accounts.
LEMMA DeleteIsAGroup ==
  ASSUME NEW k \in Conn
  PROVE  DeleteSteps(k) \in Group
<1> DEFINE g == DeleteSteps(k)
           erases == <<Erase(k, "db")>> \o <<Erase(k, "ssh")>>
<1>1. Drop(k) \in Step /\ Erase(k, "db") \in Step /\ Erase(k, "ssh") \in Step
  BY StepsTyped DEF Role
<1>2. erases \in Seq(Step) /\ Len(erases) = 2 /\ erases[1] = Erase(k, "db") /\ erases[2] = Erase(k, "ssh")
  BY <1>1
<1> HIDE DEF erases
<1>3. g \in Seq(Step) /\ DOMAIN g = 1..3 /\ g[1] = Drop(k)
      /\ g[2] = Erase(k, "db") /\ g[3] = Erase(k, "ssh")
  <2>1. g = <<Drop(k)>> \o erases
    BY DEF DeleteSteps, ForRoles, Role, erases
  <2>2. /\ g \in Seq(Step) /\ Len(g) = Len(erases) + 1 /\ g[1] = Drop(k)
        /\ \A n \in 1..Len(erases) : g[n + 1] = erases[n]
    BY <1>1, <1>2, <2>1, ConsPlaces
  <2>3. 1 \in 1..Len(erases) /\ 2 \in 1..Len(erases) /\ 1 + 1 = 2 /\ 2 + 1 = 3
    BY <1>2
  <2>4. g[1 + 1] = erases[1] /\ g[2 + 1] = erases[2]
    BY <2>2, <2>3
  <2> QED  BY <1>2, <2>2, <2>3, <2>4
<1> HIDE DEF g
<1>4. \A n \in 1..3 : n = 1 \/ n = 2 \/ n = 3
  OBVIOUS
<1>5. \A r \in Role : <<k, r>> \in ErasedBy(g)
  <2>1. 2 \in DOMAIN g /\ 3 \in DOMAIN g
    BY <1>3
  <2>2. g[2].op = "erase" /\ g[2].at = <<k, "db">> /\ g[3].op = "erase" /\ g[3].at = <<k, "ssh">>
    BY <1>3 DEF Erase
  <2>3. <<k, "db">> \in ErasedBy(g) /\ <<k, "ssh">> \in ErasedBy(g)
    BY <2>1, <2>2, ErasedIff
  <2> QED  BY <2>3 DEF Role
<1>6. DropsFirst(g)
  BY <1>3, <1>4, <1>5, StepsTyped DEF DropsFirst, Role
<1> QED  BY <1>3, <1>6 DEF Group, g

-----------------------------------------------------------------------------
\* What is left of a command, and the step it is at.
LEMMA CurrentFacts ==
  ASSUME Commands, NEW j \in Job, todo[j] # <<>>
  PROVE  /\ todo[j] \in Seq(Group \ {<<>>}) /\ Len(todo[j]) \in Nat /\ Len(todo[j]) > 0
         /\ Head(todo[j]) = todo[j][1] /\ Head(todo[j]) \in Group \ {<<>>}
         /\ Current(j) = Head(todo[j])[1] /\ Current(j) \in Step
         /\ Tail(todo[j]) \in Groups
<1>1. todo[j] \in Seq(Group \ {<<>>})
  BY DEF Commands, Groups
<1>2. Head(todo[j]) \in Group \ {<<>>} /\ Tail(todo[j]) \in Seq(Group \ {<<>>})
      /\ Len(todo[j]) \in Nat /\ Len(todo[j]) > 0 /\ Head(todo[j]) = todo[j][1]
  BY <1>1
<1>3. Head(Head(todo[j])) = Head(todo[j])[1] /\ Head(todo[j])[1] \in Step
  BY <1>2, TailErases
<1> QED  BY <1>1, <1>2, <1>3 DEF Current, Groups

\* A command takes its next step. Only an account that was just erased is no longer to be.
LEMMA AdvanceEffect ==
  ASSUME Commands, NEW j \in Job, todo[j] # <<>>, Advance(j)
  PROVE  /\ todo' \in [Job -> Groups]
         /\ \A i \in Job : \A a : ErasesNow(i, a) =>
              ErasesNow(i, a)' \/ (i = j /\ Current(j).op = "erase" /\ Current(j).at = a)
         /\ \A a \in ErasedBy(Head(todo[j])) :
              ErasesNow(j, a)' \/ (Current(j).op = "erase" /\ Current(j).at = a)
<1> DEFINE g == Head(todo[j])
           later == Tail(todo[j])
           rest == Tail(g)
           left == IF rest = <<>> THEN later ELSE <<rest>> \o later
<1>1. g \in Group /\ g # <<>> /\ later \in Groups /\ Current(j) = g[1]
  BY CurrentFacts
<1>2. todo' = [todo EXCEPT ![j] = left] /\ todo \in [Job -> Groups]
  BY DEF Advance, Commands
<1>3. /\ rest \in Group
      /\ \A n \in DOMAIN rest : rest[n].op # "drop"
      /\ \A a \in ErasedBy(g) : a \in ErasedBy(rest) \/ (g[1].op = "erase" /\ g[1].at = a)
  BY <1>1, TailErases
<1> HIDE DEF g, later, rest
<1>4. rest # <<>> => <<rest>> \o later \in Groups /\ (<<rest>> \o later)[1] = rest
                     /\ Len(<<rest>> \o later) = Len(later) + 1
  BY <1>1, <1>3, ConsPlaces DEF Groups
<1>5. todo' \in [Job -> Groups]
  BY <1>1, <1>2, <1>4
<1>6. ASSUME NEW a \in ErasedBy(g)
      PROVE  ErasesNow(j, a)' \/ (g[1].op = "erase" /\ g[1].at = a)
  <2>1. CASE a \in ErasedBy(rest)
    <3>1. rest # <<>>
      BY <2>1, ErasedIff
    <3>2. todo'[j] = <<rest>> \o later /\ Len(todo'[j]) > 0 /\ todo'[j][1] = rest
      BY <1>1, <1>2, <1>4, <3>1 DEF Groups
    <3>3. todo'[j] # <<>> /\ Head(todo'[j]) = rest
      BY <3>2
    <3>4. Head(rest) = rest[1] /\ 1 \in DOMAIN rest
      BY <1>3, <3>1 DEF Group
    <3> QED  BY <1>3, <2>1, <3>3, <3>4 DEF ErasesNow, Current
  <2> QED  BY <1>3, <2>1
<1>7. ASSUME NEW i \in Job, i # j, NEW a, ErasesNow(i, a)
      PROVE  ErasesNow(i, a)'
  BY <1>2, <1>7 DEF ErasesNow, Current
<1>8. \A a : ErasesNow(j, a) => a \in ErasedBy(g)
  BY DEF ErasesNow, g
<1> QED  BY <1>1, <1>5, <1>6, <1>7, <1>8 DEF g

\* A group is given up: what it was to erase it will not.
LEMMA AbandonEffect ==
  ASSUME Commands, NEW j \in Job, todo[j] # <<>>, todo' = [todo EXCEPT ![j] = Tail(@)]
  PROVE  /\ todo' \in [Job -> Groups]
         /\ \A i \in Job : \A a : ErasesNow(i, a) =>
              ErasesNow(i, a)' \/ (i = j /\ Current(j).op # "drop" /\ a \in ErasedBy(Head(todo[j])))
<1>1. Tail(todo[j]) \in Groups /\ todo \in [Job -> Groups]
  BY CurrentFacts DEF Commands
<1>2. todo' \in [Job -> Groups]
  BY <1>1
<1>3. ASSUME NEW i \in Job, i # j, NEW a, ErasesNow(i, a)
      PROVE  ErasesNow(i, a)'
  BY <1>1, <1>3 DEF ErasesNow, Current
<1>4. \A a : ErasesNow(j, a) => Current(j).op # "drop" /\ a \in ErasedBy(Head(todo[j]))
  BY DEF ErasesNow
<1> QED  BY <1>2, <1>3, <1>4

-----------------------------------------------------------------------------
\* A command that begins had nothing left of an earlier one.
LEMMA StartKeeps ==
  ASSUME RegistryInv, NEW j \in Job, NEW groups \in Seq(Group), NEW ids \in SUBSET Conn,
         Start(j, groups, ids)
  PROVE  RegistryInv'
<1> DEFINE left == OnlyIn(groups, ToSet(groups) \ {<<>>})
<1>1. /\ todo[j] = <<>> /\ fill[j] = NoFill
      /\ todo' = [todo EXCEPT ![j] = left] /\ held' = [held EXCEPT ![j] = NoSecret]
      /\ issued' = issued \cup ids
      /\ UNCHANGED <<registry, keychain, cache, fill, raced, stranded>>
  BY DEF Start, Busy
<1>2. left \in Seq(Group \cap (ToSet(groups) \ {<<>>}))
  BY OnlyInPlaces
<1>3. left \in Groups
  BY <1>2 DEF Groups
<1> HIDE DEF left
<1>4. RegistryTypeOK'
  BY <1>1 DEF RegistryInv, RegistryTypeOK
<1>5. Commands'
  BY <1>1, <1>3 DEF RegistryInv, Commands
<1>6. FillsAreCurrent' /\ CacheIsTheKeychain'
  BY <1>1 DEF RegistryInv, FillsAreCurrent, CacheIsTheKeychain, Settled
<1>7. \A i \in Job : \A a : ErasesNow(i, a) => ErasesNow(i, a)'
  BY <1>1 DEF RegistryInv, Commands, ErasesNow, Current
<1>8. LeftToErase'
  BY <1>1, <1>7 DEF RegistryInv, LeftToErase, Saved
<1> QED  BY <1>4, <1>5, <1>6, <1>8 DEF RegistryInv

\* Every command is made of groups.
LEMMA CommandsKeep ==
  ASSUME RegistryInv, NEW j \in Job,
         \/ SaveConnection(j) \/ DuplicateConnection(j) \/ DeleteConnection(j)
         \/ ResolveOpenSecret(j) \/ ExportBundle(j) \/ ImportBundle(j)
  PROVE  RegistryInv'
<1>1. /\ registry \in [Conn -> Row \cup {NoRow}]
      /\ issued \subseteq Conn
      /\ \A k \in Conn : Saved(k) => registry[k] \in Row
  BY DEF RegistryInv, RegistryTypeOK, Saved
<1>2. \A g \in Group : <<g>> \in Seq(Group)
  OBVIOUS
<1>3. CASE SaveConnection(j)
  <2>1. PICK k \in Conn, row \in Row, given \in Typed : Start(j, <<EntrySteps(k, row, given)>>, {k})
    BY <1>3 DEF SaveConnection
  <2>2. <<EntrySteps(k, row, given)>> \in Seq(Group)
    BY <1>2, EntryIsPlain, PlainGroups, RegistryAssumption
  <2>3. {k} \in SUBSET Conn
    OBVIOUS
  <2> QED  BY <2>1, <2>2, <2>3, StartKeeps
<1>4. CASE DuplicateConnection(j)
  <2>1. PICK k \in Conn, new \in Conn \ issued : Saved(k) /\ Start(j, <<CopySteps(k, new, registry[k])>>, {new})
    BY <1>4 DEF DuplicateConnection
  <2>2. <<CopySteps(k, new, registry[k])>> \in Seq(Group)
    BY <1>1, <1>2, <2>1, CopyIsPlain, PlainGroups
  <2>3. {new} \in SUBSET Conn
    OBVIOUS
  <2> QED  BY <2>1, <2>2, <2>3, StartKeeps
<1>5. CASE DeleteConnection(j)
  <2>1. PICK k \in issued : Start(j, <<DeleteSteps(k)>>, {})
    BY <1>5 DEF DeleteConnection
  <2>2. <<DeleteSteps(k)>> \in Seq(Group)
    BY <1>1, <1>2, DeleteIsAGroup
  <2>3. {} \in SUBSET Conn
    OBVIOUS
  <2> QED  BY <2>1, <2>2, <2>3, StartKeeps
<1>6. CASE ResolveOpenSecret(j)
  <2>1. PICK k \in Conn : Saved(k) /\ \E untyped \in SUBSET registry[k] :
          Start(j, <<ForRoles(untyped, LAMBDA r : <<Read(k, r)>>)>>, {})
    BY <1>6 DEF ResolveOpenSecret
  <2>2. PICK untyped \in SUBSET registry[k] : Start(j, <<ForRoles(untyped, LAMBDA r : <<Read(k, r)>>)>>, {})
    BY <2>1
  <2> DEFINE g == ForRoles(untyped, LAMBDA r : <<Read(k, r)>>)
  <2>3. g \in Group
    BY ReadsArePlain, PlainGroups
  <2>4. Start(j, <<g>>, {})
    BY <2>2
  <2> HIDE DEF g
  <2>5. <<g>> \in Seq(Group) /\ {} \in SUBSET Conn
    BY <1>2, <2>3
  <2> QED  BY <2>4, <2>5, StartKeeps
<1>7. CASE ExportBundle(j)
  <2>1. PICK chosen \in SUBSET {k \in Conn : Saved(k)} :
          LET accounts == {a \in chosen \X Role : a[2] \in registry[a[1]]}
              groups == [i \in 1..Cardinality(accounts) |-> <<Read(SetToSeq(accounts)[i][1], SetToSeq(accounts)[i][2])>>]
          IN  Start(j, groups, {})
    BY <1>7 DEF ExportBundle
  <2> DEFINE accounts == {a \in chosen \X Role : a[2] \in registry[a[1]]}
             visited == SetToSeq(accounts)
             groups == [i \in 1..Cardinality(accounts) |-> <<Read(visited[i][1], visited[i][2])>>]
  <2>2. accounts \subseteq Conn \X Role
    OBVIOUS
  <2>3. IsFiniteSet(accounts)
    <3>1. IsFiniteSet(Role)
      <4>1. IsFiniteSet({} \cup {"db"})
        BY FS_EmptySet, FS_AddElement
      <4>2. IsFiniteSet(({} \cup {"db"}) \cup {"ssh"})
        BY <4>1, FS_AddElement
      <4>3. Role = ({} \cup {"db"}) \cup {"ssh"}
        BY DEF Role
      <4> QED  BY <4>2, <4>3
    <3>2. IsFiniteSet(Conn \X Role)
      BY <3>1, RegistryAssumption, FS_Product
    <3> QED  BY <2>2, <3>2, FS_Subset
  <2>4. Start(j, groups, {})
    BY <2>1
  <2> HIDE DEF accounts
  <2>5. visited \in Seq(accounts) /\ Len(visited) = Cardinality(accounts) /\ Cardinality(accounts) \in Nat
    BY <2>3, SetToSeqPlaces, FS_CardinalityType
  <2> HIDE DEF visited
  <2>6. \A i \in 1..Cardinality(accounts) : <<Read(visited[i][1], visited[i][2])>> \in Group
    <3>1. \A i \in 1..Cardinality(accounts) : visited[i] \in Conn \X Role
      BY <2>2, <2>5
    <3>2. \A k \in Conn, r \in Role : <<Read(k, r)>> \in Group
      BY PlainGroups, StepsTyped
    <3> QED  BY <3>1, <3>2
  <2>7. groups \in Seq(Group)
    BY <2>5, <2>6
  <2> HIDE DEF groups
  <2>8. {} \in SUBSET Conn
    OBVIOUS
  <2> QED  BY <2>4, <2>7, <2>8, StartKeeps
<1>8. CASE ImportBundle(j)
  <2>1. PICK target \in [1..Len(Bundle) -> Conn \cup {NoRow}] :
          LET taken == {i \in 1..Len(Bundle) : target[i] # NoRow}
          IN  Start(j, [i \in 1..Len(Bundle) |->
                          IF i \in taken THEN EntrySteps(target[i], Bundle[i].row, Bundle[i].given) ELSE <<>>],
                    {target[i] : i \in taken})
    BY <1>8 DEF ImportBundle
  <2> DEFINE taken == {i \in 1..Len(Bundle) : target[i] # NoRow}
             groups == [i \in 1..Len(Bundle) |->
                          IF i \in taken THEN EntrySteps(target[i], Bundle[i].row, Bundle[i].given) ELSE <<>>]
             ids == {target[i] : i \in taken}
  <2>2. Start(j, groups, ids)
    BY <2>1
  <2>3. Len(Bundle) \in Nat /\ \A i \in 1..Len(Bundle) :
          Bundle[i].row \in Row /\ Bundle[i].given \in [Role -> Secret \cup {NoSecret}]
    <3> DEFINE Entry == [conn : Conn, row : Row, given : [Role -> Secret \cup {NoSecret}]]
    <3>1. Bundle \in Seq(Entry)
      BY RegistryAssumption
    <3>2. \A e \in Entry : e.row \in Row /\ e.given \in [Role -> Secret \cup {NoSecret}]
      OBVIOUS
    <3> HIDE DEF Entry
    <3> QED  BY <3>1, <3>2
  <2>4. \A i \in taken : target[i] \in Conn
    OBVIOUS
  <2>5. ids \in SUBSET Conn
    BY <2>4
  <2>6. \A i \in 1..Len(Bundle) : groups[i] \in Group
    BY <2>3, <2>4, EntryIsPlain, PlainGroups
  <2>7. groups \in Seq(Group)
    BY <2>3, <2>6
  <2> HIDE DEF groups, ids
  <2> QED  BY <2>2, <2>5, <2>7, StartKeeps
<1> QED  BY <1>3, <1>4, <1>5, <1>6, <1>7, <1>8

\* A command whose next step is neither a fill nor behind one.
LEMMA ReadyFacts ==
  ASSUME Commands, NEW j \in Job, NEW op, Ready(j, op)
  PROVE  fill[j] = NoFill /\ todo[j] # <<>> /\ Current(j).op = op /\ Current(j) \in Step
  BY CurrentFacts DEF Ready

\* An entry is written, or dropped by the step its erases follow.
LEMMA EntriesKeep ==
  ASSUME RegistryInv, NEW j \in Job, PutEntry(j) \/ DropEntry(j)
  PROVE  RegistryInv'
<1>1. UNCHANGED <<issued, keychain, cache, held, fill, begun, raced, stranded>>
  BY DEF PutEntry, DropEntry
<1>2. Commands /\ LeftToErase
  BY DEF RegistryInv
<1>3. FillsAreCurrent' /\ CacheIsTheKeychain'
  BY <1>1 DEF RegistryInv, FillsAreCurrent, CacheIsTheKeychain, Settled
<1>4. CASE PutEntry(j)
  <2>1. todo[j] # <<>> /\ Current(j).op = "put" /\ Current(j) \in Step /\ Advance(j)
        /\ registry' = [registry EXCEPT ![Current(j).conn] = Current(j).row]
    BY <1>2, <1>4, ReadyFacts DEF PutEntry
  <2>2. todo' \in [Job -> Groups] /\ \A i \in Job : \A a : ErasesNow(i, a) => ErasesNow(i, a)'
    BY <1>2, <2>1, AdvanceEffect
  <2>3. RegistryTypeOK'
    BY <1>1, <2>1, StepFacts DEF RegistryInv, RegistryTypeOK
  <2>4. \A k \in Conn : Saved(k) => Saved(k)'
    BY <2>1, StepFacts, RegistryAssumption DEF RegistryInv, RegistryTypeOK, Saved
  <2>5. LeftToErase'
    BY <1>1, <1>2, <2>2, <2>4 DEF LeftToErase, Account
  <2> QED  BY <1>1, <1>2, <1>3, <2>2, <2>3, <2>5 DEF RegistryInv, Commands
<1>5. CASE DropEntry(j)
  <2> DEFINE k == Current(j).conn
  <2>1. todo[j] # <<>> /\ Current(j).op = "drop" /\ Current(j) \in Step
    BY <1>2, <1>5, ReadyFacts DEF DropEntry
  <2>2. k \in Conn
    BY <2>1, StepFacts
  <2>3. CASE Saved(k)
    <3>1. registry' = [registry EXCEPT ![k] = NoRow] /\ Advance(j)
      BY <1>5, <2>3 DEF DropEntry
    <3>2. /\ todo' \in [Job -> Groups] /\ \A i \in Job : \A a : ErasesNow(i, a) => ErasesNow(i, a)'
          /\ \A a \in ErasedBy(Head(todo[j])) : ErasesNow(j, a)'
      BY <1>2, <2>1, <3>1, AdvanceEffect
    <3>3. RegistryTypeOK'
      BY <1>1, <3>1 DEF RegistryInv, RegistryTypeOK
    <3>4. \A r \in Role : <<k, r>> \in ErasedBy(Head(todo[j]))
      <4>1. Head(todo[j]) \in Group /\ Head(todo[j]) # <<>> /\ Current(j) = Head(todo[j])[1]
        BY <1>2, <2>1, CurrentFacts
      <4>2. 1 \in DOMAIN Head(todo[j])
        BY <4>1 DEF Group
      <4> QED  BY <2>1, <4>1, <4>2 DEF Group, DropsFirst
    <3>5. ASSUME NEW a \in Account, keychain'[a] # NoSecret
          PROVE  Saved(a[1])' \/ a \in stranded' \/ \E i \in Job : ErasesNow(i, a)'
      <4>1. CASE a[1] = k
        <5>1. a \in ErasedBy(Head(todo[j]))
          BY <3>4, <4>1 DEF Account
        <5> QED  BY <3>2, <5>1
      <4>2. CASE a[1] # k
        <5>1. Saved(a[1]) => Saved(a[1])'
          BY <2>2, <3>1, <4>2 DEF Saved, RegistryInv, RegistryTypeOK, Account
        <5> QED  BY <1>1, <1>2, <3>2, <3>5, <5>1 DEF LeftToErase
      <4> QED  BY <4>1, <4>2
    <3>6. LeftToErase'
      BY <3>5 DEF LeftToErase
    <3> QED  BY <1>1, <1>2, <1>3, <3>2, <3>3, <3>6 DEF RegistryInv, Commands
  <2>4. CASE ~Saved(k)
    <3>1. registry' = registry /\ todo' = [todo EXCEPT ![j] = Tail(@)]
      BY <1>5, <2>4 DEF DropEntry
    <3>2. todo' \in [Job -> Groups] /\ \A i \in Job : \A a : ErasesNow(i, a) => ErasesNow(i, a)'
      BY <1>2, <2>1, <3>1, AbandonEffect
    <3>3. RegistryTypeOK'
      BY <1>1, <3>1 DEF RegistryInv, RegistryTypeOK
    <3>4. LeftToErase'
      BY <1>1, <1>2, <3>1, <3>2 DEF LeftToErase, Saved
    <3> QED  BY <1>1, <1>2, <1>3, <3>2, <3>3, <3>4 DEF RegistryInv, Commands
  <2> QED  BY <2>3, <2>4
<1> QED  BY <1>4, <1>5

\* The keychain takes a value: no older one is put into the cache after it, unless it raced.
LEMMA ChangeKeeps ==
  ASSUME RegistryInv, NEW j \in Job, fill[j] = NoFill, todo[j] # <<>>,
         NEW a \in Account, NEW value \in Secret \cup {NoSecret},
         Current(j).op = "erase" => Current(j).at = a,
         Change(j, a, value)
  PROVE  RegistryInv'
<1>1. /\ keychain' = [keychain EXCEPT ![a] = value]
      /\ fill' = [fill EXCEPT ![j] = <<a, value>>]
      /\ raced' = IF Racing(j, a) THEN raced \cup {a} ELSE raced \ {a}
      /\ stranded' = IF value # NoSecret /\ ~Saved(a[1]) THEN stranded \cup {a} ELSE stranded \ {a}
      /\ Advance(j)
      /\ UNCHANGED <<registry, issued, cache, held, begun>>
  BY DEF Change, store
<1>2. /\ Commands /\ LeftToErase /\ FillsAreCurrent
      /\ keychain \in [Account -> Secret \cup {NoSecret}]
      /\ fill \in [Job -> (Account \X (Secret \cup {NoSecret})) \cup {NoFill}]
  BY DEF RegistryInv, RegistryTypeOK, Commands
<1>3. /\ todo' \in [Job -> Groups]
      /\ \A i \in Job : \A b : ErasesNow(i, b) => ErasesNow(i, b)' \/ b = a
  BY <1>1, <1>2, AdvanceEffect
<1>4. /\ keychain' \in [Account -> Secret \cup {NoSecret}]
      /\ fill' \in [Job -> (Account \X (Secret \cup {NoSecret})) \cup {NoFill}]
  BY <1>1, <1>2
<1>5. Commands'
  BY <1>3, <1>4 DEF Commands
<1>6. RegistryTypeOK'
  <2>1. raced' \subseteq Account /\ stranded' \subseteq Account
    BY <1>1 DEF RegistryInv, RegistryTypeOK
  <2>2. \A i \in Job : fill'[i] = NoFill \/ fill'[i][1] \in Account
    BY <1>4
  <2> QED  BY <1>1, <1>4, <2>1, <2>2 DEF RegistryInv, RegistryTypeOK
<1>7. fill'[j] = <<a, value>> /\ fill'[j] # NoFill
  <2>1. fill'[j] = <<a, value>>
    BY <1>1, <1>2
  <2> QED  BY <2>1, RegistryAssumption
<1>8. FillsAreCurrent'
  <2> SUFFICES ASSUME NEW b \in Account \ raced', NEW i \in Job, fill'[i] # NoFill, fill'[i][1] = b
               PROVE  fill'[i][2] = keychain'[b]
    BY DEF FillsAreCurrent
  <2>1. CASE i = j
    BY <1>1, <1>2, <1>7, <2>1
  <2>2. CASE i # j
    <3>1. fill'[i] = fill[i]
      BY <1>1, <1>2, <2>2
    <3>2. b # a
      BY <1>1, <2>2, <3>1 DEF Racing
    <3>3. b \notin raced
      BY <1>1, <3>2
    <3> QED  BY <1>1, <1>2, <3>1, <3>2, <3>3 DEF FillsAreCurrent
  <2> QED  BY <2>1, <2>2
<1>9. CacheIsTheKeychain'
  <2> SUFFICES ASSUME NEW b \in Account, Settled(b)', b \notin raced'
               PROVE  cache'[b] \in {Unread, keychain'[b]}
    BY DEF CacheIsTheKeychain
  <2>1. b # a
    <3>1. fill'[j][1] = a
      BY <1>7
    <3>2. fill'[j] = NoFill \/ fill'[j][1] # b
      BY DEF Settled
    <3> QED  BY <1>7, <3>1, <3>2
  <2>2. Settled(b) /\ b \notin raced
    BY <1>1, <1>2, <2>1 DEF Settled
  <2> QED  BY <1>1, <1>2, <2>1, <2>2 DEF RegistryInv, CacheIsTheKeychain
<1>10. LeftToErase'
  <2> SUFFICES ASSUME NEW b \in Account, keychain'[b] # NoSecret
               PROVE  Saved(b[1])' \/ b \in stranded' \/ \E i \in Job : ErasesNow(i, b)'
    BY DEF LeftToErase
  <2>1. Saved(b[1])' <=> Saved(b[1])
    BY <1>1 DEF Saved
  <2>2. CASE b = a
    <3>1. value # NoSecret
      BY <1>1, <1>2, <2>2
    <3> QED  BY <1>1, <2>1, <2>2, <3>1
  <2>3. CASE b # a
    <3>1. keychain[b] # NoSecret /\ (b \in stranded => b \in stranded')
      BY <1>1, <1>2, <2>3
    <3> QED  BY <1>2, <1>3, <2>1, <2>3, <3>1 DEF LeftToErase
  <2> QED  BY <2>2, <2>3
<1> QED  BY <1>5, <1>6, <1>8, <1>9, <1>10 DEF RegistryInv

\* A secret is written, pasted or erased.
LEMMA SecretsKeep ==
  ASSUME RegistryInv, NEW j \in Job, WriteSecret(j) \/ PasteSecret(j) \/ EraseSecret(j)
  PROVE  RegistryInv'
<1>1. Commands /\ held[j] \in Secret \cup {NoSecret}
  BY DEF RegistryInv, RegistryTypeOK
<1>2. CASE WriteSecret(j)
  <2>1. /\ fill[j] = NoFill /\ todo[j] # <<>> /\ Current(j).op = "write"
        /\ Current(j).at \in Account /\ Current(j).secret \in Secret
        /\ Change(j, Current(j).at, Current(j).secret)
    BY <1>1, <1>2, ReadyFacts, StepFacts DEF WriteSecret
  <2> QED  BY <2>1, ChangeKeeps
<1>3. CASE EraseSecret(j)
  <2>1. /\ fill[j] = NoFill /\ todo[j] # <<>> /\ Current(j).at \in Account
        /\ Change(j, Current(j).at, NoSecret)
    BY <1>1, <1>3, ReadyFacts, StepFacts DEF EraseSecret
  <2> QED  BY <2>1, ChangeKeeps
<1>4. CASE PasteSecret(j)
  <2>1. fill[j] = NoFill /\ todo[j] # <<>> /\ Current(j).op = "paste" /\ Current(j).at \in Account
    BY <1>1, <1>4, ReadyFacts, StepFacts DEF PasteSecret
  <2>2. CASE held[j] # NoSecret
    <3>1. Change(j, Current(j).at, held[j])
      BY <1>4, <2>2 DEF PasteSecret
    <3> QED  BY <1>1, <2>1, <3>1, ChangeKeeps
  <2>3. CASE held[j] = NoSecret
    <3>1. Advance(j) /\ UNCHANGED <<registry, issued, keychain, cache, held, fill, begun, raced, stranded>>
      BY <1>4, <2>3 DEF PasteSecret, store
    <3>2. todo' \in [Job -> Groups] /\ \A i \in Job : \A a : ErasesNow(i, a) => ErasesNow(i, a)'
      BY <1>1, <2>1, <3>1, AdvanceEffect
    <3>3. RegistryTypeOK' /\ FillsAreCurrent' /\ CacheIsTheKeychain'
      BY <3>1 DEF RegistryInv, RegistryTypeOK, FillsAreCurrent, CacheIsTheKeychain, Settled
    <3>4. LeftToErase'
      BY <3>1, <3>2 DEF RegistryInv, LeftToErase, Saved
    <3> QED  BY <3>1, <3>2, <3>3, <3>4 DEF RegistryInv, Commands
  <2> QED  BY <2>2, <2>3
<1> QED  BY <1>2, <1>3, <1>4

\* A read is answered by the cache, or asks the keychain.
LEMMA LookUpKeeps ==
  ASSUME RegistryInv, NEW j \in Job, LookUp(j)
  PROVE  RegistryInv'
<1> DEFINE a == Current(j).at
           g == Head(todo[j])
<1>1. Commands /\ todo \in [Job -> Groups] /\ cache \in [Account -> Secret \cup {NoSecret, Unread}]
  BY DEF RegistryInv, RegistryTypeOK, Commands
<1>2. /\ todo[j] # <<>> /\ Current(j).op = "read" /\ a \in Account
      /\ UNCHANGED <<registry, issued, keychain, cache, fill, begun, raced, stranded>>
  BY <1>1, ReadyFacts, StepFacts DEF LookUp, store
<1>3. FillsAreCurrent' /\ CacheIsTheKeychain'
  BY <1>2 DEF RegistryInv, FillsAreCurrent, CacheIsTheKeychain, Settled
<1>4. CASE cache[a] # Unread
  <2>1. held' = [held EXCEPT ![j] = cache[a]] /\ Advance(j)
    BY <1>4 DEF LookUp
  <2>2. todo' \in [Job -> Groups] /\ \A i \in Job : \A b : ErasesNow(i, b) => ErasesNow(i, b)'
    BY <1>1, <1>2, <2>1, AdvanceEffect
  <2>3. RegistryTypeOK'
    BY <1>1, <1>2, <1>4, <2>1 DEF RegistryInv, RegistryTypeOK
  <2>4. LeftToErase'
    BY <1>2, <2>2 DEF RegistryInv, LeftToErase, Saved
  <2> QED  BY <1>1, <1>2, <1>3, <2>2, <2>3, <2>4 DEF RegistryInv, Commands
<1>5. CASE cache[a] = Unread
  <2> DEFINE fetch == [todo[j][1][1] EXCEPT !.op = "fetch"]
             new == [todo[j][1] EXCEPT ![1] = fetch]
  <2>1. held' = held /\ todo' = [todo EXCEPT ![j] = [todo[j] EXCEPT ![1] = new]]
    BY <1>5 DEF LookUp
  <2>2. /\ todo[j] \in Seq(Group \ {<<>>}) /\ Len(todo[j]) \in Nat /\ Len(todo[j]) > 0
        /\ g = todo[j][1] /\ g \in Group /\ g # <<>> /\ Current(j) = g[1] /\ g[1] \in Step
    BY <1>1, <1>2, CurrentFacts
  <2>3. g \in Seq(Step) /\ DropsFirst(g) /\ Len(g) \in Nat /\ Len(g) > 0 /\ 1 \in DOMAIN g
    BY <2>2 DEF Group
  <2>4. fetch \in Step /\ fetch.op = "fetch"
    <3>1. g[1] \in [op : {"read", "fetch", "paste", "erase"}, at : Account]
      BY <1>2, <2>2 DEF Step
    <3> QED  BY <2>2, <3>1 DEF Step
  <2>5. /\ new \in Seq(Step) /\ DOMAIN new = DOMAIN g /\ new[1] = fetch /\ Len(new) = Len(g)
        /\ \A n \in DOMAIN g : n # 1 => new[n] = g[n]
    BY <2>2, <2>3, <2>4
  <2> HIDE DEF fetch, new, g
  <2>6. ErasedBy(new) = ErasedBy(g)
    <3>1. \A b : b \in ErasedBy(new) => b \in ErasedBy(g)
      BY <2>4, <2>5, ErasedIff
    <3>2. \A b : b \in ErasedBy(g) => b \in ErasedBy(new)
      BY <1>2, <2>2, <2>5, ErasedIff
    <3> QED  BY <3>1, <3>2
  <2>7. new \in Group \ {<<>>}
    <3>1. \A n \in DOMAIN new : new[n].op # "drop"
      BY <1>2, <2>2, <2>3, <2>4, <2>5 DEF DropsFirst
    <3>2. new # <<>>
      BY <2>3, <2>5
    <3> QED  BY <2>5, <3>1, <3>2 DEF Group, DropsFirst
  <2>8. [todo[j] EXCEPT ![1] = new] \in Groups /\ [todo[j] EXCEPT ![1] = new][1] = new
        /\ Len([todo[j] EXCEPT ![1] = new]) > 0
    BY <2>2, <2>7 DEF Groups
  <2>9. todo' \in [Job -> Groups] /\ todo'[j] # <<>> /\ Head(todo'[j]) = new
    BY <1>1, <2>1, <2>8
  <2>10. ASSUME NEW i \in Job, NEW b, ErasesNow(i, b)
         PROVE  ErasesNow(i, b)'
    <3>1. CASE i = j
      <4>1. b \in ErasedBy(new)
        BY <2>6, <2>10, <3>1 DEF ErasesNow, g
      <4>2. Head(Head(todo'[j])).op = "fetch"
        BY <2>3, <2>4, <2>5, <2>9
      <4> QED  BY <2>9, <3>1, <4>1, <4>2 DEF ErasesNow, Current
    <3>2. CASE i # j
      BY <1>1, <2>1, <2>10, <3>2 DEF ErasesNow, Current
    <3> QED  BY <3>1, <3>2
  <2>11. RegistryTypeOK'
    BY <1>2, <2>1 DEF RegistryInv, RegistryTypeOK
  <2>12. LeftToErase'
    BY <1>2, <2>10 DEF RegistryInv, LeftToErase, Saved
  <2> QED  BY <1>1, <1>2, <1>3, <2>9, <2>11, <2>12 DEF RegistryInv, Commands
<1> QED  BY <1>4, <1>5

\* What is fetched is what the keychain holds.
LEMMA FetchKeeps ==
  ASSUME RegistryInv, NEW j \in Job, Fetch(j)
  PROVE  RegistryInv'
<1> DEFINE a == Current(j).at
<1>1. /\ Commands /\ LeftToErase /\ FillsAreCurrent
      /\ keychain \in [Account -> Secret \cup {NoSecret}]
      /\ fill \in [Job -> (Account \X (Secret \cup {NoSecret})) \cup {NoFill}]
  BY DEF RegistryInv, RegistryTypeOK, Commands
<1>2. /\ fill[j] = NoFill /\ todo[j] # <<>> /\ Current(j).op = "fetch" /\ a \in Account
      /\ held' = [held EXCEPT ![j] = keychain[a]]
      /\ fill' = [fill EXCEPT ![j] = <<a, keychain[a]>>]
      /\ Advance(j)
      /\ UNCHANGED <<registry, issued, keychain, cache, begun, raced, stranded>>
  BY <1>1, ReadyFacts, StepFacts DEF Fetch, store
<1> HIDE DEF a
<1>3. todo' \in [Job -> Groups] /\ \A i \in Job : \A b : ErasesNow(i, b) => ErasesNow(i, b)'
  BY <1>1, <1>2, AdvanceEffect
<1>4. fill' \in [Job -> (Account \X (Secret \cup {NoSecret})) \cup {NoFill}]
      /\ fill'[j] = <<a, keychain[a]>> /\ fill'[j] # NoFill
  <2>1. <<a, keychain[a]>> \in Account \X (Secret \cup {NoSecret})
    BY <1>1, <1>2
  <2> QED  BY <1>1, <1>2, <2>1, RegistryAssumption
<1>5. RegistryTypeOK'
  <2>1. \A i \in Job : fill'[i] = NoFill \/ fill'[i][1] \in Account
    BY <1>4
  <2> QED  BY <1>1, <1>2, <2>1 DEF RegistryInv, RegistryTypeOK
<1>6. FillsAreCurrent'
  <2>1. ASSUME NEW b \in Account \ raced, NEW i \in Job, fill'[i] # NoFill, fill'[i][1] = b
        PROVE  fill'[i][2] = keychain[b]
    <3>1. CASE i = j
      BY <1>4, <2>1, <3>1
    <3>2. CASE i # j
      BY <1>1, <1>2, <2>1, <3>2 DEF FillsAreCurrent
    <3> QED  BY <3>1, <3>2
  <2> QED  BY <1>2, <2>1 DEF FillsAreCurrent
<1>7. CacheIsTheKeychain'
  <2>1. ASSUME NEW b \in Account, Settled(b)' PROVE Settled(b)
    BY <1>1, <1>2, <2>1 DEF Settled
  <2> QED  BY <1>2, <2>1 DEF RegistryInv, CacheIsTheKeychain
<1>8. LeftToErase'
  BY <1>1, <1>2, <1>3 DEF LeftToErase, Saved
<1> QED  BY <1>3, <1>4, <1>5, <1>6, <1>7, <1>8 DEF RegistryInv, Commands

\* The last fill of an account settles it.
LEMMA FillKeeps ==
  ASSUME RegistryInv, NEW j \in Job, Fill(j)
  PROVE  RegistryInv'
<1>1. /\ FillsAreCurrent /\ Commands
      /\ cache \in [Account -> Secret \cup {NoSecret, Unread}]
      /\ fill \in [Job -> (Account \X (Secret \cup {NoSecret})) \cup {NoFill}]
  BY DEF RegistryInv, RegistryTypeOK, Commands
<1>2. /\ fill[j] # NoFill
      /\ cache' = [cache EXCEPT ![fill[j][1]] = fill[j][2]]
      /\ fill' = [fill EXCEPT ![j] = NoFill]
      /\ UNCHANGED <<registry, issued, keychain, todo, held, begun, raced, stranded>>
  BY DEF Fill, store
<1>3. fill[j][1] \in Account /\ fill[j][2] \in Secret \cup {NoSecret}
  BY <1>1, <1>2
<1>4. RegistryTypeOK' /\ Commands'
  BY <1>1, <1>2, <1>3 DEF RegistryInv, RegistryTypeOK, Commands
<1>5. FillsAreCurrent'
  BY <1>1, <1>2 DEF FillsAreCurrent
<1>6. CacheIsTheKeychain'
  <2> SUFFICES ASSUME NEW b \in Account, Settled(b)', b \notin raced
               PROVE  cache'[b] \in {Unread, keychain[b]}
    BY <1>2 DEF CacheIsTheKeychain
  <2>1. CASE b = fill[j][1]
    <3>1. fill[j][2] = keychain[b]
      BY <1>1, <1>2, <2>1 DEF FillsAreCurrent
    <3> QED  BY <1>1, <1>2, <1>3, <2>1, <3>1
  <2>2. CASE b # fill[j][1]
    <3>1. Settled(b)
      BY <1>1, <1>2, <2>2 DEF Settled
    <3> QED  BY <1>1, <1>2, <2>2, <3>1 DEF RegistryInv, CacheIsTheKeychain
  <2> QED  BY <2>1, <2>2
<1>7. LeftToErase'
  BY <1>2 DEF RegistryInv, LeftToErase, Saved, ErasesNow, Current
<1> QED  BY <1>4, <1>5, <1>6, <1>7 DEF RegistryInv

\* A refusal strands what the group had begun to erase.
LEMMA RefusalKeeps ==
  ASSUME RegistryInv, NEW j \in Job, Refused(j)
  PROVE  RegistryInv'
<1>1. /\ todo[j] # <<>> /\ todo' = [todo EXCEPT ![j] = Tail(@)]
      /\ stranded' = IF Current(j).op = "drop" THEN stranded ELSE stranded \cup ErasedBy(Head(todo[j]))
      /\ UNCHANGED <<registry, issued, keychain, cache, held, fill, begun, raced>>
  BY DEF Refused, store
<1>2. Commands /\ LeftToErase
  BY DEF RegistryInv
<1>3. /\ todo' \in [Job -> Groups]
      /\ \A i \in Job : \A a : ErasesNow(i, a) => ErasesNow(i, a)' \/ a \in stranded'
  BY <1>1, <1>2, AbandonEffect
<1>4. ErasedBy(Head(todo[j])) \subseteq Account
  <2>1. Head(todo[j]) \in Seq(Step)
    BY <1>1, <1>2, CurrentFacts DEF Group
  <2>2. \A n \in DOMAIN Head(todo[j]) : Head(todo[j])[n] \in Step
    BY <2>1
  <2> QED  BY <2>2, ErasedIff, StepFacts
<1>5. RegistryTypeOK' /\ FillsAreCurrent' /\ CacheIsTheKeychain'
  BY <1>1, <1>4 DEF RegistryInv, RegistryTypeOK, FillsAreCurrent, CacheIsTheKeychain, Settled
<1>6. stranded \subseteq stranded'
  BY <1>1
<1>7. LeftToErase'
  BY <1>1, <1>2, <1>3, <1>6 DEF LeftToErase, Saved
<1> QED  BY <1>1, <1>2, <1>3, <1>5, <1>7 DEF RegistryInv, Commands

\* The end of the process leaves the accounts it was erasing stranded.
LEMMA RestartKeeps ==
  ASSUME RegistryInv, Restart
  PROVE  RegistryInv'
<1> DEFINE cut == UNION {ErasedBy(Head(todo[j])) : j \in {i \in Job : todo[i] # <<>> /\ Current(i).op # "drop"}}
<1>1. /\ cache' = [a \in Account |-> Unread] /\ todo' = [j \in Job |-> <<>>]
      /\ held' = [j \in Job |-> NoSecret] /\ fill' = [j \in Job |-> NoFill] /\ raced' = {}
      /\ stranded' = stranded \cup cut
      /\ UNCHANGED <<registry, issued, keychain, begun>>
  BY DEF Restart, store
<1>2. Commands
  BY DEF RegistryInv
<1>3. \A j \in Job : \A a : ErasesNow(j, a) => a \in cut
  BY DEF ErasesNow
<1>4. cut \subseteq Account
  <2>1. ASSUME NEW j \in Job, todo[j] # <<>>
        PROVE  ErasedBy(Head(todo[j])) \subseteq Account
    <3>1. Head(todo[j]) \in Seq(Step)
      BY <1>2, <2>1, CurrentFacts DEF Group
    <3>2. \A n \in DOMAIN Head(todo[j]) : Head(todo[j])[n] \in Step
      BY <3>1
    <3> QED  BY <3>2, ErasedIff, StepFacts
  <2> QED  BY <2>1
<1> HIDE DEF cut
<1>5. RegistryTypeOK'
  BY <1>1, <1>4 DEF RegistryInv, RegistryTypeOK
<1>6. <<>> \in Groups
  BY DEF Groups
<1>7. Commands' /\ FillsAreCurrent' /\ CacheIsTheKeychain'
  BY <1>1, <1>6 DEF Commands, FillsAreCurrent, CacheIsTheKeychain
<1>8. LeftToErase'
  BY <1>1, <1>3 DEF RegistryInv, LeftToErase, Saved
<1> QED  BY <1>5, <1>7, <1>8 DEF RegistryInv

-----------------------------------------------------------------------------
\* The registry begins with nothing under way.
LEMMA RegistryStarts == RegistryInit => RegistryInv
<1> SUFFICES ASSUME RegistryInit PROVE RegistryInv
  OBVIOUS
<1>1. PICK k \in Conn, row \in Row :
        /\ issued = {k}
        /\ registry = [c \in Conn |-> IF c = k THEN row ELSE NoRow]
        /\ keychain \in [Account -> Secret \cup {NoSecret}]
        /\ \A a \in Account : keychain[a] # NoSecret => a[1] = k /\ a[2] \in row
  BY DEF RegistryInit
<1>2. RegistryTypeOK
  BY <1>1 DEF RegistryInit, RegistryTypeOK
<1>3. <<>> \in Groups
  BY DEF Groups
<1>4. Commands /\ FillsAreCurrent /\ CacheIsTheKeychain
  BY <1>3 DEF RegistryInit, Commands, FillsAreCurrent, CacheIsTheKeychain
<1>5. LeftToErase
  BY <1>1, RegistryAssumption DEF LeftToErase, Saved
<1> QED  BY <1>2, <1>4, <1>5 DEF RegistryInv

\* Every step keeps the invariant.
LEMMA RegistryStep == RegistryInv /\ [RegistryNext]_registryVars => RegistryInv'
<1> SUFFICES ASSUME RegistryInv, [RegistryNext]_registryVars PROVE RegistryInv'
  OBVIOUS
<1>1. CASE UNCHANGED registryVars
  <2>1. UNCHANGED <<registry, issued, keychain, cache, todo, held, fill, begun, raced, stranded>>
    BY <1>1 DEF registryVars, store, jobs
  <2>2. RegistryTypeOK' /\ Commands' /\ FillsAreCurrent' /\ CacheIsTheKeychain'
    BY <2>1 DEF RegistryInv, RegistryTypeOK, Commands, FillsAreCurrent, CacheIsTheKeychain, Settled
  <2>3. LeftToErase'
    BY <2>1 DEF RegistryInv, LeftToErase, Saved, ErasesNow, Current
  <2> QED  BY <2>2, <2>3 DEF RegistryInv
<1>2. CASE RegistryNext
  BY <1>2, CommandsKeep, EntriesKeep, SecretsKeep, LookUpKeeps, FetchKeeps, FillKeeps,
     RefusalKeeps, RestartKeeps DEF RegistryNext
<1> QED  BY <1>1, <1>2

\* Whatever is saved, copied, deleted, imported and refused at once, the cache, its fills and
\* what is left to erase agree with the keychain.
THEOREM RegistryInvariant == RegistrySpec => []RegistryInv
<1> QED  BY RegistryStarts, RegistryStep, PTL DEF RegistrySpec

\* The cache says what the keychain holds, for every account no two commands raced at
\* (keyring_store.rs: "Keep the cache coherent with the write so the next read serves it").
THEOREM CacheIsCoherent == RegistrySpec => []CacheIsTheKeychain
<1>1. RegistryInv => CacheIsTheKeychain
  BY DEF RegistryInv
<1> QED  BY <1>1, RegistryInvariant, PTL

\* A secret whose entry is gone is being erased, or was kept from it by a refusal, a crash or a
\* write that came after the delete.
THEOREM NoSecretOutlivesItsRow == RegistrySpec => []SecretsHaveARow
<1>1. RegistryInv => SecretsHaveARow
  BY DEF RegistryInv, LeftToErase, SecretsHaveARow, ErasesNow, Erasing
<1> QED  BY <1>1, RegistryInvariant, PTL

-----------------------------------------------------------------------------
(* The planner of a generation.                                              *)

Walk == INSTANCE SequenceFacts WITH FoldStep <- WalkStep
Kahn == INSTANCE SequenceFacts WITH FoldStep <- OrderStep

\* Tables in the order of their names are all of them, each once.
LEMMA AscendingFacts ==
  ASSUME NEW S \in SUBSET GenTable
  PROVE  /\ Ascending(S) \in Seq(S) /\ ToSet(Ascending(S)) = S /\ Len(Ascending(S)) \in 0..TableCount
         /\ \A i, j \in DOMAIN Ascending(S) : Ascending(S)[i] = Ascending(S)[j] => i = j
<1> DEFINE all == [t \in GenTable |-> t]
<1>1. TableCount \in Nat
  BY GenerateAssumption
<1>2. all \in Seq(GenTable) /\ Len(all) = TableCount /\ \A i \in GenTable : all[i] = i
  BY <1>1 DEF GenTable
<1>3. Ascending(S) = OnlyIn(all, S)
  BY DEF Ascending
<1> HIDE DEF all
<1>4. Ascending(S) \in Seq(GenTable \cap S)
  BY <1>2, <1>3, OnlyInPlaces
<1>5. PICK place : SelectedAt(place, all, S)
  BY <1>2, OnlyInPlaces
<1> DEFINE n == Len(Ascending(S))
<1>6. GenTable \cap S = S
  OBVIOUS
<1>7. Ascending(S) \in Seq(S) /\ n \in Nat /\ DOMAIN Ascending(S) = 1..n
  BY <1>4, <1>6
<1>8. /\ place \in [1..n -> GenTable]
      /\ \A k \in 1..n : place[k] \in S /\ Ascending(S)[k] = place[k]
      /\ \A k, l \in 1..n : k < l => place[k] < place[l]
      /\ \A i \in S : \E k \in 1..n : place[k] = i
  BY <1>2, <1>3, <1>5 DEF SelectedAt, GenTable
<1> HIDE DEF n
<1>9. \A k, l \in 1..n : place[k] = place[l] => k = l
  <2> SUFFICES ASSUME NEW k \in 1..n, NEW l \in 1..n, place[k] = place[l] PROVE k = l
    OBVIOUS
  <2>1. place[k] \in Int /\ place[l] \in Int /\ k \in Int /\ l \in Int
    BY <1>7, <1>8 DEF GenTable
  <2>2. ~(k < l) /\ ~(l < k)
    BY <1>8, <2>1
  <2>3. QED
    BY <2>1, <2>2
<1>10. ToSet(Ascending(S)) = S
  BY <1>7, <1>8 DEF ToSet
<1>11. n <= TableCount
  <2>1. place \in Injection(1..n, GenTable)
    BY <1>8, <1>9 DEF Injection, IsInjective
  <2>2. IsFiniteSet(GenTable) /\ Cardinality(GenTable) = TableCount /\ Cardinality(1..n) = n
    BY <1>1, <1>7, FS_Interval DEF GenTable
  <2>3. Cardinality(1..n) <= Cardinality(GenTable)
    BY <2>1, <2>2, FS_Injection
  <2>4. QED
    BY <2>2, <2>3
<1>12. \A i, j \in DOMAIN Ascending(S) : Ascending(S)[i] = Ascending(S)[j] => i = j
  BY <1>7, <1>8, <1>9
<1>13. QED
  BY <1>1, <1>7, <1>10, <1>11, <1>12 DEF n

LEMMA TargetsTyped ==
  ASSUME fks \in Schemas, NEW t \in GenTable
  PROVE  fks[t] \in Seq(GenTable) /\ Targets(t) \in SUBSET GenTable /\ t \notin Targets(t)
<1>1. fks[t] \in Seq(GenTable)
  BY GenerateAssumption DEF GenTable
<1>2. QED
  BY <1>1 DEF Targets, ToSet

ParentsOf(t) == Ascending(Targets(t))

LEMMA ParentsOfFacts ==
  ASSUME fks \in Schemas, NEW t \in GenTable
  PROVE  /\ ParentsOf(t) \in Seq(GenTable) /\ ToSet(ParentsOf(t)) = Targets(t)
         /\ Len(ParentsOf(t)) \in 0..TableCount /\ DOMAIN ParentsOf(t) = 1..Len(ParentsOf(t))
<1>1. Targets(t) \in SUBSET GenTable
  BY TargetsTyped
<1>2. ParentsOf(t) \in Seq(Targets(t)) /\ ToSet(ParentsOf(t)) = Targets(t) /\ Len(ParentsOf(t)) \in 0..TableCount
  BY <1>1, AscendingFacts DEF ParentsOf
<1>3. ParentsOf(t) \in Seq(GenTable)
  BY <1>1, <1>2
<1>4. QED
  BY <1>2, <1>3

WalkState ==
  [white : SUBSET GenTable, path : Seq(GenTable), seen : [GenTable -> Nat],
   back : SUBSET (GenTable \X GenTable)]

\* The tables the walk has left.
Black(w) == GenTable \ (w.white \cup ToSet(w.path))

\* The edge to a parent closes a cycle, or the walk has left the parent.
EdgeDone(w, t, p) == <<t, p>> \in w.back \/ p \in Black(w)

PathOnce(w) ==
  /\ \A i, j \in DOMAIN w.path : w.path[i] = w.path[j] => i = j
  /\ ToSet(w.path) \cap w.white = {}

SeenInReach(w) ==
  \A t \in GenTable : w.seen[t] <= Len(ParentsOf(t)) /\ (t \in w.white => w.seen[t] = 0)

\* What a table on the path has looked at is done, or is the next on the path.
LookedAt(w) ==
  \A k \in DOMAIN w.path : \A i \in 1..w.seen[w.path[k]] :
    \/ EdgeDone(w, w.path[k], ParentsOf(w.path[k])[i])
    \/ k + 1 \in DOMAIN w.path /\ w.path[k + 1] = ParentsOf(w.path[k])[i]

\* Without the edges that close cycles, a table's rank is above those of its parents.
RankedBy(w, r, m) ==
  \A t \in Black(w) :
    r[t] < m /\ \A p \in Targets(t) : <<t, p>> \in w.back \/ (p \in Black(w) /\ r[p] < r[t])
Ranked(w) == \E r \in [GenTable -> Nat], m \in Nat : RankedBy(w, r, m)

WalkSound(w) == w \in WalkState /\ PathOnce(w) /\ SeenInReach(w) /\ LookedAt(w) /\ Ranked(w)

\* The last of a path, and the path without it.
LEMMA PathEnds ==
  ASSUME NEW S, NEW s \in Seq(S), s # <<>>
  PROVE  /\ Len(s) \in Nat /\ Len(s) >= 1 /\ Len(s) \in DOMAIN s /\ Last(s) = s[Len(s)] /\ Last(s) \in S
         /\ Front(s) \in Seq(S) /\ Len(Front(s)) = Len(s) - 1 /\ DOMAIN Front(s) = 1..(Len(s) - 1)
         /\ \A k \in 1..(Len(s) - 1) : Front(s)[k] = s[k]
         /\ ToSet(s) = ToSet(Front(s)) \cup {Last(s)}
<1>1. Len(s) \in Nat /\ Len(s) >= 1 /\ DOMAIN s = 1..Len(s) /\ \A k \in 1..Len(s) : s[k] \in S
  OBVIOUS
<1>2. Front(s) \in Seq(S) /\ Len(Front(s)) = Len(s) - 1 /\ \A k \in 1..(Len(s) - 1) : Front(s)[k] = s[k]
  BY <1>1 DEF Front
<1>3. DOMAIN Front(s) = 1..(Len(s) - 1)
  BY <1>2
<1>4. Last(s) = s[Len(s)]
  BY DEF Last
<1>5. \A x : x \in ToSet(s) <=> x \in ToSet(Front(s)) \cup {Last(s)}
  <2>1. \A k \in 1..Len(s) : k = Len(s) \/ k \in 1..(Len(s) - 1)
    <3>1. Len(s) \in Nat
      BY <1>1
    <3>2. QED
      BY <3>1
  <2>2. \A k \in 1..(Len(s) - 1) : k \in 1..Len(s)
    BY <1>1
  <2>3. Len(s) \in 1..Len(s)
    BY <1>1
  <2>4. QED
    BY <1>1, <1>2, <1>3, <1>4, <2>1, <2>2, <2>3 DEF ToSet
<1>6. QED
  BY <1>1, <1>2, <1>3, <1>4, <1>5

LEMMA AppendedPath ==
  ASSUME NEW S, NEW s \in Seq(S), NEW e \in S
  PROVE  ToSet(Append(s, e)) = ToSet(s) \cup {e} /\ DOMAIN Append(s, e) = 1..(Len(s) + 1)
<1>1. /\ Append(s, e) \in Seq(S) /\ Len(s) \in Nat /\ Len(Append(s, e)) = Len(s) + 1
      /\ \A n \in 1..Len(s) : n \in DOMAIN Append(s, e) /\ Append(s, e)[n] = s[n]
      /\ Len(s) + 1 \in DOMAIN Append(s, e) /\ Append(s, e)[Len(s) + 1] = e
      /\ \A n \in DOMAIN Append(s, e) : n \in Nat /\ (n \in 1..Len(s) \/ n = Len(s) + 1)
  BY AppendPlaces
<1>2. DOMAIN s = 1..Len(s) /\ DOMAIN Append(s, e) = 1..(Len(s) + 1)
  BY <1>1
<1>3. QED
  BY <1>1, <1>2 DEF ToSet

LEMMA EnteredIs ==
  ASSUME NEW w \in WalkState, NEW t \in w.white
  PROVE  /\ Enter(w, t) \in WalkState
         /\ Enter(w, t).white = w.white \ {t} /\ Enter(w, t).path = Append(w.path, t)
         /\ Enter(w, t).seen = w.seen /\ Enter(w, t).back = w.back
<1> DEFINE longer == Append(w.path, t)
<1>1. w.white \in SUBSET GenTable /\ w.path \in Seq(GenTable)
  BY DEF WalkState
<1>2. longer \in Seq(GenTable)
  BY <1>1, AppendPlaces
<1> HIDE DEF longer
<1>3. Enter(w, t) = [w EXCEPT !.white = w.white \ {t}, !.path = longer]
  BY DEF Enter, longer
<1> DEFINE v == [w EXCEPT !.white = w.white \ {t}, !.path = longer]
<1>4. v \in WalkState /\ v.white = w.white \ {t} /\ v.path = longer /\ v.seen = w.seen /\ v.back = w.back
  BY <1>1, <1>2 DEF WalkState
<1> HIDE DEF v
<1>5. QED
  BY <1>3, <1>4 DEF longer, v

\* A table is entered: from white, at the end of the path.
LEMMA EnterKeeps ==
  ASSUME fks \in Schemas, NEW w \in WalkState, NEW t \in w.white,
         PathOnce(w), SeenInReach(w), Ranked(w),
         \A k \in DOMAIN w.path : \A i \in 1..w.seen[w.path[k]] :
           \/ EdgeDone(w, w.path[k], ParentsOf(w.path[k])[i])
           \/ IF k = Len(w.path) THEN t = ParentsOf(w.path[k])[i]
              ELSE k + 1 \in DOMAIN w.path /\ w.path[k + 1] = ParentsOf(w.path[k])[i]
  PROVE  WalkSound(Enter(w, t))
<1> DEFINE v == Enter(w, t)
<1>1. /\ w.white \in SUBSET GenTable /\ w.path \in Seq(GenTable) /\ w.seen \in [GenTable -> Nat]
      /\ w.back \in SUBSET (GenTable \X GenTable)
  BY DEF WalkState
<1>2. t \in GenTable
  BY <1>1
<1>4. /\ v \in WalkState
      /\ v.white = w.white \ {t} /\ v.path = Append(w.path, t) /\ v.seen = w.seen /\ v.back = w.back
  BY EnteredIs
<1> HIDE DEF v
<1> DEFINE n == Len(w.path)
<1>5. /\ v.path \in Seq(GenTable) /\ n \in Nat /\ Len(v.path) = n + 1 /\ DOMAIN w.path = 1..n
      /\ DOMAIN v.path = 1..(n + 1) /\ v.path[n + 1] = t /\ \A k \in 1..n : v.path[k] = w.path[k]
      /\ ToSet(v.path) = ToSet(w.path) \cup {t}
  BY <1>1, <1>2, <1>4, AppendPlaces, AppendedPath
<1> HIDE DEF n
<1>6. v \in WalkState
  BY <1>4
<1>7. Black(v) = Black(w)
  BY <1>4, <1>5 DEF Black
<1>8. PathOnce(v)
  <2>1. \A k \in 1..n : w.path[k] # t
    BY <1>5 DEF PathOnce, ToSet
  <2>2. \A i \in 1..(n + 1) : i \in 1..n \/ i = n + 1
    BY <1>5
  <2>3. \A i, j \in DOMAIN v.path : v.path[i] = v.path[j] => i = j
    BY <1>5, <2>1, <2>2 DEF PathOnce
  <2>4. ToSet(v.path) \cap v.white = {}
    BY <1>4, <1>5 DEF PathOnce
  <2>5. QED
    BY <2>3, <2>4 DEF PathOnce
<1>9. SeenInReach(v)
  BY <1>4 DEF SeenInReach
<1>10. LookedAt(v)
  <2> SUFFICES ASSUME NEW k \in DOMAIN v.path, NEW i \in 1..v.seen[v.path[k]]
               PROVE  \/ EdgeDone(v, v.path[k], ParentsOf(v.path[k])[i])
                      \/ k + 1 \in DOMAIN v.path /\ v.path[k + 1] = ParentsOf(v.path[k])[i]
    BY DEF LookedAt
  <2>1. k \in 1..n
    <3>1. ASSUME k = n + 1 PROVE FALSE
      <4>1. v.path[k] = t /\ w.seen[t] = 0
        BY <1>2, <1>5, <3>1 DEF SeenInReach
      <4>2. i \in 1..0
        BY <1>4, <4>1
      <4>3. QED
        BY <4>2
    <3>2. QED
      BY <1>5, <3>1
  <2>2. v.path[k] = w.path[k] /\ k + 1 \in DOMAIN v.path /\ k \in DOMAIN w.path
    BY <1>5, <2>1
  <2>3. EdgeDone(w, w.path[k], ParentsOf(w.path[k])[i]) => EdgeDone(v, v.path[k], ParentsOf(v.path[k])[i])
    BY <1>4, <1>7, <2>2 DEF EdgeDone
  <2>4. CASE k = n
    BY <1>4, <1>5, <2>2, <2>3, <2>4 DEF n
  <2>5. CASE k # n
    <3>1. k + 1 \in 1..n
      BY <1>5, <2>1, <2>5
    <3>2. v.path[k + 1] = w.path[k + 1]
      BY <1>5, <3>1
    <3>3. QED
      BY <1>4, <2>2, <2>3, <2>5, <3>2 DEF n
  <2>6. QED
    BY <2>4, <2>5
<1>11. Ranked(v)
  BY <1>4, <1>7 DEF Ranked, RankedBy
<1>12. QED
  BY <1>6, <1>8, <1>9, <1>10, <1>11 DEF WalkSound, v

SeenOn(w, t) == [w EXCEPT !.seen[t] = @ + 1]

LEMMA SeenOneMore ==
  ASSUME NEW w \in WalkState, NEW t \in GenTable
  PROVE  /\ SeenOn(w, t) \in WalkState /\ SeenOn(w, t).white = w.white /\ SeenOn(w, t).path = w.path
         /\ SeenOn(w, t).back = w.back /\ SeenOn(w, t).seen = [w.seen EXCEPT ![t] = @ + 1]
<1> DEFINE q == [w.seen EXCEPT ![t] = w.seen[t] + 1]
<1>1. w.seen \in [GenTable -> Nat]
  BY DEF WalkState
<1>2. q \in [GenTable -> Nat]
  BY <1>1
<1>3. SeenOn(w, t) = [w EXCEPT !.seen = q]
  BY DEF SeenOn
<1>4. q = [w.seen EXCEPT ![t] = @ + 1]
  OBVIOUS
<1> HIDE DEF q
<1>5. /\ [w EXCEPT !.seen = q] \in WalkState /\ [w EXCEPT !.seen = q].white = w.white
      /\ [w EXCEPT !.seen = q].path = w.path /\ [w EXCEPT !.seen = q].back = w.back
      /\ [w EXCEPT !.seen = q].seen = q
  BY <1>2 DEF WalkState
<1>6. QED
  BY <1>3, <1>4, <1>5

\* The next parent is looked at.
LEMMA LookAtKeeps ==
  ASSUME fks \in Schemas, NEW w, WalkSound(w), w.path # <<>>,
         w.seen[Last(w.path)] < Len(ParentsOf(Last(w.path)))
  PROVE  WalkSound(LookAt(w, Last(w.path)))
<1> DEFINE n == Len(w.path)
           t == Last(w.path)
           i0 == w.seen[t] + 1
           p == ParentsOf(t)[i0]
           v == SeenOn(w, t)
<1>1. /\ w \in WalkState /\ w.white \in SUBSET GenTable /\ w.path \in Seq(GenTable)
      /\ w.seen \in [GenTable -> Nat] /\ w.back \in SUBSET (GenTable \X GenTable)
  BY DEF WalkSound, WalkState
<1>2. /\ n \in Nat /\ n >= 1 /\ n \in DOMAIN w.path /\ t = w.path[n] /\ t \in GenTable
      /\ DOMAIN w.path = 1..n /\ t \in ToSet(w.path)
  <2>1. n \in Nat /\ n >= 1 /\ n \in DOMAIN w.path /\ t = w.path[n] /\ t \in GenTable
    <3>1. w.path # <<>>
      OBVIOUS
    <3> HIDE DEF v
    <3>2. QED
      BY <1>1, <3>1, PathEnds
  <2>2. DOMAIN w.path = 1..n
    BY <1>1
  <2>3. QED
    BY <2>1, <2>2 DEF ToSet
<1>3. w.seen[t] \in Nat /\ w.seen[t] < Len(ParentsOf(t))
  BY <1>1, <1>2
<1>4. p \in GenTable
  <2>1. ParentsOf(t) \in Seq(GenTable) /\ Len(ParentsOf(t)) \in Nat
    BY <1>2, ParentsOfFacts
  <2>2. i0 \in 1..Len(ParentsOf(t))
    BY <1>3, <2>1
  <2>3. QED
    BY <2>1, <2>2
<1>5. /\ v \in WalkState /\ v.white = w.white /\ v.path = w.path /\ v.back = w.back
      /\ v.seen = [w.seen EXCEPT ![t] = @ + 1]
  <2> HIDE DEF t
  <2>1. QED
    BY <1>1, <1>2, SeenOneMore
<1>6. LookAt(w, t) = IF p \in w.white THEN Enter(v, p)
                     ELSE IF p \in ToSet(w.path) THEN [v EXCEPT !.back = @ \cup {<<t, p>>}] ELSE v
  BY DEF LookAt, ParentsOf, SeenOn
<1> HIDE DEF v, n, t, p
<1>7. v.seen[t] = i0 /\ \A u \in GenTable : u # t => v.seen[u] = w.seen[u]
  BY <1>1, <1>2, <1>5
<1>8. PathOnce(v) /\ Ranked(v) /\ Black(v) = Black(w)
  <2>1. PathOnce(v) /\ Black(v) = Black(w)
    BY <1>5 DEF WalkSound, PathOnce, Black
  <2>2. PICK r \in [GenTable -> Nat], m \in Nat : RankedBy(w, r, m)
    BY DEF WalkSound, Ranked
  <2>3. RankedBy(v, r, m)
    BY <1>5, <2>1, <2>2 DEF RankedBy
  <2>4. QED
    BY <2>1, <2>3 DEF Ranked
<1>9. SeenInReach(v)
  <2> SUFFICES ASSUME NEW u \in GenTable
               PROVE  v.seen[u] <= Len(ParentsOf(u)) /\ (u \in v.white => v.seen[u] = 0)
    BY DEF SeenInReach
  <2>1. CASE u = t
    <3>1. t \notin w.white
      BY <1>2 DEF WalkSound, PathOnce
    <3>2. Len(ParentsOf(t)) \in Nat
      BY <1>2, ParentsOfFacts
    <3>3. QED
      BY <1>3, <1>5, <1>7, <2>1, <3>1, <3>2
  <2>2. CASE u # t
    BY <1>5, <1>7, <2>2 DEF WalkSound, SeenInReach
  <2>3. QED
    BY <2>1, <2>2
<1>10. ASSUME NEW k \in DOMAIN v.path, NEW i \in 1..v.seen[v.path[k]]
       PROVE  \/ EdgeDone(v, v.path[k], ParentsOf(v.path[k])[i])
              \/ k = n /\ i = i0
              \/ k # n /\ k + 1 \in DOMAIN v.path /\ v.path[k + 1] = ParentsOf(v.path[k])[i]
  <2>1. k \in 1..n /\ k \in DOMAIN w.path /\ v.path[k] = w.path[k] /\ w.path[k] \in GenTable
    BY <1>1, <1>2, <1>5, <1>10
  <2>2. ASSUME i \in 1..w.seen[w.path[k]]
        PROVE  \/ EdgeDone(v, v.path[k], ParentsOf(v.path[k])[i])
               \/ k # n /\ k + 1 \in DOMAIN v.path /\ v.path[k + 1] = ParentsOf(v.path[k])[i]
    <3>1. \/ EdgeDone(w, w.path[k], ParentsOf(w.path[k])[i])
          \/ k + 1 \in DOMAIN w.path /\ w.path[k + 1] = ParentsOf(w.path[k])[i]
      BY <2>1, <2>2 DEF WalkSound, LookedAt
    <3>2. EdgeDone(w, w.path[k], ParentsOf(w.path[k])[i]) => EdgeDone(v, v.path[k], ParentsOf(v.path[k])[i])
      BY <1>5, <1>8 DEF EdgeDone
    <3>3. k + 1 \in DOMAIN w.path => k # n
      BY <1>2
    <3>4. QED
      BY <1>5, <3>1, <3>2, <3>3
  <2>3. CASE k = n
    <3>1. i \in 1..i0
      BY <1>2, <1>7, <1>10, <2>1, <2>3
    <3>2. i = i0 \/ i \in 1..w.seen[w.path[k]]
      BY <1>2, <1>3, <2>3, <3>1
    <3>3. QED
      BY <2>2, <2>3, <3>2
  <2>4. CASE k # n
    <3>1. w.path[k] # t
      BY <1>2, <2>1, <2>4 DEF WalkSound, PathOnce
    <3>2. i \in 1..w.seen[w.path[k]]
      BY <1>7, <1>10, <2>1, <3>1
    <3>3. QED
      BY <2>2, <3>2
  <2>5. QED
    BY <2>3, <2>4
<1>11. CASE p \in w.white
  <2>1. ASSUME NEW k \in DOMAIN v.path, NEW i \in 1..v.seen[v.path[k]]
        PROVE  \/ EdgeDone(v, v.path[k], ParentsOf(v.path[k])[i])
               \/ IF k = Len(v.path) THEN p = ParentsOf(v.path[k])[i]
                  ELSE k + 1 \in DOMAIN v.path /\ v.path[k + 1] = ParentsOf(v.path[k])[i]
    <3>1. Len(v.path) = n
      BY <1>5 DEF n
    <3>2. k = n => v.path[k] = t
      BY <1>2, <1>5
    <3>3. p = ParentsOf(t)[i0]
      BY DEF p
    <3>4. QED
      BY <1>10, <3>1, <3>2, <3>3
  <2>2. WalkSound(Enter(v, p))
    BY <1>5, <1>8, <1>9, <1>11, <2>1, EnterKeeps
  <2>3. QED
    BY <1>6, <1>11, <2>2 DEF t
<1>12. ASSUME p \notin w.white, NEW B \in SUBSET (GenTable \X GenTable), p \in Black(w) \/ <<t, p>> \in B
       PROVE  WalkSound([v EXCEPT !.back = @ \cup B])
  <2> DEFINE x == [v EXCEPT !.back = @ \cup B]
  <2>1. /\ x \in WalkState /\ x.white = v.white /\ x.path = v.path /\ x.seen = v.seen
        /\ x.back = v.back \cup B
    BY <1>5 DEF WalkState
  <2> HIDE DEF x
  <2>2. Black(x) = Black(w) /\ \A u, q : EdgeDone(v, u, q) => EdgeDone(x, u, q)
    BY <1>8, <2>1 DEF Black, EdgeDone
  <2>3. PathOnce(x) /\ SeenInReach(x)
    BY <1>8, <1>9, <2>1 DEF PathOnce, SeenInReach
  <2>4. Ranked(x)
    <3>1. PICK r \in [GenTable -> Nat], m \in Nat : RankedBy(v, r, m)
      BY <1>8 DEF Ranked
    <3>2. RankedBy(x, r, m)
      BY <1>8, <2>1, <2>2, <3>1 DEF RankedBy
    <3>3. QED
      BY <3>2 DEF Ranked
  <2>5. LookedAt(x)
    <3> SUFFICES ASSUME NEW k \in DOMAIN x.path, NEW i \in 1..x.seen[x.path[k]]
                 PROVE  \/ EdgeDone(x, x.path[k], ParentsOf(x.path[k])[i])
                        \/ k + 1 \in DOMAIN x.path /\ x.path[k + 1] = ParentsOf(x.path[k])[i]
      BY DEF LookedAt
    <3>1. CASE k = n /\ i = i0
      <4>1. x.path[k] = t /\ ParentsOf(x.path[k])[i] = p
        BY <1>2, <1>5, <2>1, <3>1 DEF p
      <4>2. EdgeDone(x, t, p)
        BY <1>12, <2>1, <2>2 DEF EdgeDone
      <4>3. QED
        BY <4>1, <4>2
    <3>2. CASE ~(k = n /\ i = i0)
      BY <1>10, <2>1, <2>2, <3>2
    <3>3. QED
      BY <3>1, <3>2
  <2>6. QED
    BY <2>1, <2>3, <2>4, <2>5 DEF WalkSound, x
<1>13. CASE p \notin w.white /\ p \in ToSet(w.path)
  <2>1. {<<t, p>>} \in SUBSET (GenTable \X GenTable)
    BY <1>2, <1>4
  <2>2. WalkSound([v EXCEPT !.back = @ \cup {<<t, p>>}])
    BY <1>12, <1>13, <2>1
  <2>3. QED
    BY <1>6, <1>13, <2>2 DEF t
<1>14. CASE p \notin w.white /\ p \notin ToSet(w.path)
  <2>1. p \in Black(w)
    BY <1>4, <1>14 DEF Black
  <2>2. WalkSound([v EXCEPT !.back = @ \cup {}])
    BY <1>12, <1>14, <2>1
  <2>3. [v EXCEPT !.back = @ \cup {}] = v
    BY <1>5 DEF WalkState
  <2>4. QED
    BY <1>6, <1>14, <2>2, <2>3 DEF t
<1>15. QED
  BY <1>11, <1>13, <1>14

LEMMA LeavingIs ==
  ASSUME NEW w \in WalkState, w.path # <<>>
  PROVE  LET v == [w EXCEPT !.path = Front(@)]
         IN  v \in WalkState /\ v.white = w.white /\ v.path = Front(w.path) /\ v.seen = w.seen /\ v.back = w.back
<1> DEFINE q == Front(w.path)
<1>1. w.path \in Seq(GenTable)
  BY DEF WalkState
<1>2. q \in Seq(GenTable)
  BY <1>1, PathEnds
<1> HIDE DEF q
<1>3. /\ [w EXCEPT !.path = q] \in WalkState /\ [w EXCEPT !.path = q].white = w.white
      /\ [w EXCEPT !.path = q].path = q /\ [w EXCEPT !.path = q].seen = w.seen
      /\ [w EXCEPT !.path = q].back = w.back
  BY <1>2 DEF WalkState
<1>4. QED
  BY <1>3 DEF q

\* A table is left when all its parents were looked at: each is done, and gets a lower rank.
LEMMA LeaveKeeps ==
  ASSUME fks \in Schemas, NEW w, WalkSound(w), w.path # <<>>,
         ~(w.seen[Last(w.path)] < Len(ParentsOf(Last(w.path))))
  PROVE  WalkSound([w EXCEPT !.path = Front(@)])
<1> DEFINE n == Len(w.path)
           t == Last(w.path)
           v == [w EXCEPT !.path = Front(@)]
<1>1. /\ w \in WalkState /\ w.white \in SUBSET GenTable /\ w.path \in Seq(GenTable)
      /\ w.seen \in [GenTable -> Nat] /\ w.back \in SUBSET (GenTable \X GenTable)
  BY DEF WalkSound, WalkState
<1>2. v \in WalkState /\ v.white = w.white /\ v.path = Front(w.path) /\ v.seen = w.seen /\ v.back = w.back
  BY <1>1, LeavingIs
<1> HIDE DEF v
<1>3. /\ n \in Nat /\ n >= 1 /\ n \in DOMAIN w.path /\ t = w.path[n] /\ t \in GenTable
      /\ DOMAIN v.path = 1..(n - 1) /\ \A k \in 1..(n - 1) : v.path[k] = w.path[k]
      /\ ToSet(w.path) = ToSet(v.path) \cup {t}
  BY <1>1, <1>2, PathEnds
<1>4. DOMAIN w.path = 1..n
  BY <1>1
<1>5. w.seen[t] = Len(ParentsOf(t))
  <2>1. w.seen[t] \in Nat /\ Len(ParentsOf(t)) \in Nat /\ w.seen[t] <= Len(ParentsOf(t))
    BY <1>1, <1>3, ParentsOfFacts DEF WalkSound, SeenInReach
  <2>2. QED
    BY <2>1
<1> HIDE DEF n, t
<1>6. \A i, j \in 1..n : w.path[i] = w.path[j] => i = j
  BY <1>4 DEF WalkSound, PathOnce
<1>7. t \notin ToSet(v.path) /\ t \notin w.white
  <2>1. ASSUME NEW k \in 1..(n - 1), v.path[k] = t PROVE FALSE
    <3>1. k \in 1..n /\ k # n /\ n \in 1..n
      BY <1>3
    <3>2. w.path[k] = w.path[n]
      BY <1>3, <2>1
    <3>3. QED
      BY <1>6, <3>1, <3>2
  <2>2. t \notin ToSet(v.path)
    BY <1>3, <2>1 DEF ToSet
  <2>3. t \notin w.white
    BY <1>3 DEF WalkSound, PathOnce
  <2>4. QED
    BY <2>2, <2>3
<1>8. Black(v) = Black(w) \cup {t} /\ t \notin Black(w)
  BY <1>2, <1>3, <1>7 DEF Black
<1>9. \A u, p : EdgeDone(w, u, p) => EdgeDone(v, u, p)
  BY <1>2, <1>8 DEF EdgeDone
<1>10. PathOnce(v)
  <2>1. \A i, j \in DOMAIN v.path : v.path[i] = v.path[j] => i = j
    <3>1. \A k \in 1..(n - 1) : k \in 1..n
      BY <1>3
    <3>2. QED
      BY <1>3, <1>6, <3>1
  <2>2. ToSet(v.path) \cap v.white = {}
    BY <1>2, <1>3 DEF WalkSound, PathOnce
  <2>3. QED
    BY <2>1, <2>2 DEF PathOnce
<1>11. SeenInReach(v)
  BY <1>2 DEF WalkSound, SeenInReach
<1>12. LookedAt(v)
  <2> SUFFICES ASSUME NEW k \in DOMAIN v.path, NEW i \in 1..v.seen[v.path[k]]
               PROVE  \/ EdgeDone(v, v.path[k], ParentsOf(v.path[k])[i])
                      \/ k + 1 \in DOMAIN v.path /\ v.path[k + 1] = ParentsOf(v.path[k])[i]
    BY DEF LookedAt
  <2>1. k \in 1..(n - 1) /\ k \in DOMAIN w.path /\ v.path[k] = w.path[k]
    <3>1. k \in 1..(n - 1) /\ n \in Nat
      BY <1>3
    <3>2. k \in 1..n
      BY <3>1
    <3>3. QED
      BY <1>3, <1>4, <3>1, <3>2
  <2>2. \/ EdgeDone(w, w.path[k], ParentsOf(w.path[k])[i])
        \/ k + 1 \in DOMAIN w.path /\ w.path[k + 1] = ParentsOf(w.path[k])[i]
    BY <1>2, <2>1 DEF WalkSound, LookedAt
  <2>3. CASE k + 1 = n /\ w.path[k + 1] = ParentsOf(w.path[k])[i]
    <3>1. ParentsOf(w.path[k])[i] = t
      BY <1>3, <2>3
    <3>2. EdgeDone(v, v.path[k], t)
      BY <1>8 DEF EdgeDone
    <3>3. QED
      BY <2>1, <3>1, <3>2
  <2>4. CASE k + 1 # n
    <3>1. k + 1 \in 1..(n - 1)
      BY <1>3, <2>1, <2>4
    <3>2. QED
      BY <1>3, <1>9, <2>1, <2>2, <3>1
  <2>5. QED
    BY <1>9, <2>1, <2>2, <2>3, <2>4
<1>13. Ranked(v)
  <2>1. PICK r \in [GenTable -> Nat], m \in Nat : RankedBy(w, r, m)
    BY DEF WalkSound, Ranked
  <2> DEFINE s == [r EXCEPT ![t] = m]
  <2>2. s \in [GenTable -> Nat] /\ s[t] = m /\ \A u \in GenTable : u # t => s[u] = r[u]
    BY <1>3
  <2> HIDE DEF s
  <2>3. Black(w) \subseteq GenTable /\ \A u \in Black(w) : u # t /\ r[u] \in Nat /\ s[u] = r[u] /\ r[u] < m
    BY <1>8, <2>1, <2>2 DEF Black, RankedBy
  <2>4. ASSUME NEW u \in Black(v)
        PROVE  s[u] < m + 1 /\ \A p \in Targets(u) : <<u, p>> \in v.back \/ (p \in Black(v) /\ s[p] < s[u])
    <3>1. CASE u = t
      <4>1. s[u] < m + 1
        BY <2>2, <3>1
      <4>2. ASSUME NEW p \in Targets(t) PROVE <<t, p>> \in v.back \/ (p \in Black(v) /\ s[p] < s[t])
        <5>1. ParentsOf(t) \in Seq(GenTable) /\ ToSet(ParentsOf(t)) = Targets(t)
          BY <1>3, ParentsOfFacts
        <5>2. PICK i \in 1..Len(ParentsOf(t)) : ParentsOf(t)[i] = p
          BY <5>1 DEF ToSet
        <5>3. n \in DOMAIN w.path /\ i \in 1..w.seen[w.path[n]] /\ n + 1 \notin DOMAIN w.path
          BY <1>3, <1>4, <1>5
        <5>4. EdgeDone(w, t, p)
          BY <1>3, <5>2, <5>3 DEF WalkSound, LookedAt
        <5>5. <<t, p>> \in v.back \/ p \in Black(w)
          BY <1>2, <5>4 DEF EdgeDone
        <5>6. QED
          BY <1>8, <2>2, <2>3, <5>5
      <4>3. QED
        BY <3>1, <4>1, <4>2
    <3>2. CASE u # t
      <4>1. u \in Black(w) /\ s[u] = r[u] /\ r[u] < m /\ r[u] \in Nat
        BY <1>8, <2>3, <3>2
      <4>2. \A p \in Targets(u) : <<u, p>> \in w.back \/ (p \in Black(w) /\ r[p] < r[u])
        BY <2>1, <4>1 DEF RankedBy
      <4>3. \A p \in Targets(u) : <<u, p>> \in v.back \/ (p \in Black(v) /\ s[p] < s[u])
        BY <1>2, <1>8, <2>3, <4>1, <4>2
      <4>4. s[u] < m + 1
        BY <4>1
      <4>5. QED
        BY <4>3, <4>4
    <3>3. QED
      BY <3>1, <3>2
  <2>5. RankedBy(v, s, m + 1) /\ m + 1 \in Nat
    BY <2>4 DEF RankedBy
  <2>6. QED
    BY <2>2, <2>5 DEF Ranked
<1>14. QED
  BY <1>2, <1>10, <1>11, <1>12, <1>13 DEF WalkSound, v

LEMMA LeastTable ==
  ASSUME NEW S \in SUBSET GenTable, S # {}
  PROVE  Min(S) \in S
<1>1. S \in SUBSET Nat
  BY GenerateAssumption DEF GenTable
<1>2. \E x \in S : \A y \in S : x <= y
  BY <1>1, LeastExists
<1>3. QED
  BY <1>2 DEF Min

\* The step of a walk, by where the walk is.
WalkEnded(w) == w.path = <<>> /\ w.white = {}

LEMMA WalkStepIs ==
  ASSUME NEW w, NEW pass
  PROVE  /\ WalkEnded(w) => WalkStep(w, pass) = w
         /\ (w.path = <<>> /\ w.white # {}) => WalkStep(w, pass) = Enter(w, Min(w.white))
         /\ (w.path # <<>> /\ w.seen[Last(w.path)] < Len(ParentsOf(Last(w.path)))) =>
              WalkStep(w, pass) = LookAt(w, Last(w.path))
         /\ (w.path # <<>> /\ ~(w.seen[Last(w.path)] < Len(ParentsOf(Last(w.path))))) =>
              WalkStep(w, pass) = [w EXCEPT !.path = Front(@)]
BY DEF WalkEnded, WalkStep, ParentsOf

LEMMA WalkStepKeeps ==
  ASSUME fks \in Schemas, NEW w, WalkSound(w), NEW pass
  PROVE  WalkSound(WalkStep(w, pass))
<1>1. w \in WalkState /\ w.white \in SUBSET GenTable /\ w.path \in Seq(GenTable)
  BY DEF WalkSound, WalkState
<1>2. CASE WalkEnded(w)
  BY <1>2, WalkStepIs
<1>3. CASE w.path = <<>> /\ w.white # {}
  <2>1. Min(w.white) \in w.white
    BY <1>1, <1>3, LeastTable
  <2>2. DOMAIN w.path = {}
    BY <1>3
  <2>3. WalkSound(Enter(w, Min(w.white)))
    BY <1>1, <2>1, <2>2, EnterKeeps DEF WalkSound
  <2>4. QED
    BY <1>3, <2>3, WalkStepIs
<1>4. CASE w.path # <<>> /\ w.seen[Last(w.path)] < Len(ParentsOf(Last(w.path)))
  BY <1>4, WalkStepIs, LookAtKeeps
<1>5. CASE w.path # <<>> /\ ~(w.seen[Last(w.path)] < Len(ParentsOf(Last(w.path))))
  BY <1>5, WalkStepIs, LeaveKeeps
<1>6. QED
  BY <1>2, <1>3, <1>4, <1>5 DEF WalkEnded

\* What is left to do for each table: to enter it, to look at its parents, to leave it.
LeftToDo(w) ==
  {e \in GenTable \X (0..(TableCount + 1)) :
     e[1] \in w.white \/ (e[1] \in ToSet(w.path) /\ w.seen[e[1]] < e[2])}

LEMMA EnterShrinks ==
  ASSUME NEW w \in WalkState, NEW t \in w.white, PathOnce(w), SeenInReach(w)
  PROVE  /\ LeftToDo(Enter(w, t)) \subseteq LeftToDo(w)
         /\ <<t, 0>> \in LeftToDo(w) /\ <<t, 0>> \notin LeftToDo(Enter(w, t))
<1> DEFINE v == Enter(w, t)
<1>1. w.white \in SUBSET GenTable /\ w.path \in Seq(GenTable) /\ TableCount \in Nat
  BY GenerateAssumption DEF WalkState
<1>2. v.white = w.white \ {t} /\ v.path = Append(w.path, t) /\ v.seen = w.seen
  BY EnteredIs
<1> HIDE DEF v
<1>3. ToSet(v.path) = ToSet(w.path) \cup {t}
  BY <1>1, <1>2, AppendedPath
<1>4. t \in GenTable /\ w.seen[t] = 0 /\ 0 \in 0..(TableCount + 1)
  BY <1>1 DEF SeenInReach
<1>5. LeftToDo(v) \subseteq LeftToDo(w)
  BY <1>2, <1>3 DEF LeftToDo
<1>6. <<t, 0>> \in LeftToDo(w)
  BY <1>4 DEF LeftToDo
<1>7. <<t, 0>> \notin LeftToDo(v)
  <2>1. t \notin v.white /\ ~(v.seen[t] < 0)
    BY <1>2, <1>4
  <2>2. QED
    BY <2>1 DEF LeftToDo
<1>8. QED
  BY <1>5, <1>6, <1>7 DEF v

LEMMA LookAtShrinks ==
  ASSUME fks \in Schemas, NEW w, WalkSound(w), w.path # <<>>,
         w.seen[Last(w.path)] < Len(ParentsOf(Last(w.path)))
  PROVE  /\ LeftToDo(LookAt(w, Last(w.path))) \subseteq LeftToDo(w)
         /\ \E e \in LeftToDo(w) : e \notin LeftToDo(LookAt(w, Last(w.path)))
<1> DEFINE t == Last(w.path)
           i0 == w.seen[t] + 1
           p == ParentsOf(t)[i0]
           v == SeenOn(w, t)
           x == LookAt(w, t)
<1>1. /\ w \in WalkState /\ w.white \in SUBSET GenTable /\ w.path \in Seq(GenTable)
      /\ w.seen \in [GenTable -> Nat] /\ TableCount \in Nat
  BY GenerateAssumption DEF WalkSound, WalkState
<1>2. t \in GenTable /\ t \in ToSet(w.path)
  <2>1. w.path # <<>>
    OBVIOUS
  <2> HIDE DEF v, x
  <2>2. QED
    BY <1>1, <2>1, PathEnds
<1>3. x = IF p \in w.white THEN Enter(v, p)
          ELSE IF p \in ToSet(w.path) THEN [v EXCEPT !.back = @ \cup {<<t, p>>}] ELSE v
  BY DEF LookAt, ParentsOf, SeenOn
<1>4. w.seen[t] < Len(ParentsOf(t))
  OBVIOUS
<1> HIDE DEF t, p, v, x
<1>5. /\ v \in WalkState /\ v.white = w.white /\ v.path = w.path
      /\ v.seen = [w.seen EXCEPT ![t] = @ + 1]
  BY <1>1, <1>2, SeenOneMore DEF v
<1>6. v.seen[t] = i0 /\ \A u \in GenTable : u # t => v.seen[u] = w.seen[u]
  BY <1>1, <1>2, <1>5
<1>7. i0 \in Nat /\ i0 \in 1..TableCount /\ i0 <= Len(ParentsOf(t)) /\ w.seen[t] \in Nat
  <2>1. Len(ParentsOf(t)) \in 0..TableCount /\ w.seen[t] \in Nat
    BY <1>1, <1>2, ParentsOfFacts
  <2>2. QED
    BY <1>1, <1>4, <2>1
<1>8. t \notin w.white
  BY <1>2 DEF WalkSound, PathOnce
<1>9. LeftToDo(v) \subseteq LeftToDo(w)
  <2> SUFFICES ASSUME NEW e \in LeftToDo(v) PROVE e \in LeftToDo(w)
    OBVIOUS
  <2>1. /\ e \in GenTable \X (0..(TableCount + 1)) /\ e[2] \in Nat /\ e[1] \in GenTable
        /\ e[1] \in v.white \/ (e[1] \in ToSet(v.path) /\ v.seen[e[1]] < e[2])
    BY <1>1 DEF LeftToDo
  <2>2. w.seen[e[1]] \in Nat /\ (v.seen[e[1]] < e[2] => w.seen[e[1]] < e[2])
    BY <1>1, <1>6, <1>7, <2>1
  <2>3. QED
    BY <1>5, <2>1, <2>2 DEF LeftToDo
<1>10. <<t, i0>> \in LeftToDo(w)
  <2>1. i0 \in 0..(TableCount + 1) /\ w.seen[t] < i0
    BY <1>1, <1>7
  <2>2. QED
    BY <1>2, <2>1 DEF LeftToDo
<1>11. <<t, i0>> \notin LeftToDo(v)
  <2>1. t \notin v.white /\ ~(v.seen[t] < i0)
    BY <1>5, <1>6, <1>7, <1>8
  <2>2. QED
    BY <2>1 DEF LeftToDo
<1>12. LeftToDo(x) \subseteq LeftToDo(v)
  <2>1. CASE p \in w.white
    <3>1. PathOnce(v)
      BY <1>5 DEF WalkSound, PathOnce
    <3>2. SeenInReach(v)
      <4> SUFFICES ASSUME NEW u \in GenTable
                   PROVE  v.seen[u] <= Len(ParentsOf(u)) /\ (u \in v.white => v.seen[u] = 0)
        BY DEF SeenInReach
      <4>1. CASE u = t
        BY <1>5, <1>6, <1>7, <1>8, <4>1
      <4>2. CASE u # t
        BY <1>5, <1>6, <4>2 DEF WalkSound, SeenInReach
      <4>3. QED
        BY <4>1, <4>2
    <3>3. QED
      BY <1>3, <1>5, <2>1, <3>1, <3>2, EnterShrinks
  <2>2. CASE p \notin w.white /\ p \in ToSet(w.path)
    <3> DEFINE y == [v EXCEPT !.back = v.back \cup {<<t, p>>}]
    <3>1. y.white = v.white /\ y.path = v.path /\ y.seen = v.seen
      BY <1>5 DEF WalkState
    <3>2. x = y
      BY <1>3, <2>2
    <3> HIDE DEF y
    <3>3. QED
      BY <3>1, <3>2 DEF LeftToDo
  <2>3. CASE p \notin w.white /\ p \notin ToSet(w.path)
    BY <1>3, <2>3
  <2>4. QED
    BY <2>1, <2>2, <2>3
<1>13. QED
  BY <1>9, <1>10, <1>11, <1>12 DEF x, t

LEMMA LeaveShrinks ==
  ASSUME fks \in Schemas, NEW w, WalkSound(w), w.path # <<>>
  PROVE  /\ LeftToDo([w EXCEPT !.path = Front(@)]) \subseteq LeftToDo(w)
         /\ \E e \in LeftToDo(w) : e \notin LeftToDo([w EXCEPT !.path = Front(@)])
<1> DEFINE v == [w EXCEPT !.path = Front(@)]
           t == Last(w.path)
           n == Len(w.path)
<1>1. /\ w \in WalkState /\ w.white \in SUBSET GenTable /\ w.path \in Seq(GenTable)
      /\ w.seen \in [GenTable -> Nat] /\ TableCount \in Nat
  BY GenerateAssumption DEF WalkSound, WalkState
<1>2. v.white = w.white /\ v.path = Front(w.path) /\ v.seen = w.seen
  BY <1>1, LeavingIs
<1> HIDE DEF v
<1>3. /\ n \in Nat /\ n >= 1 /\ n \in DOMAIN w.path /\ t = w.path[n] /\ t \in GenTable
      /\ DOMAIN v.path = 1..(n - 1) /\ \A k \in 1..(n - 1) : v.path[k] = w.path[k]
      /\ ToSet(w.path) = ToSet(v.path) \cup {t}
  BY <1>1, <1>2, PathEnds
<1>4. DOMAIN w.path = 1..n
  BY <1>1
<1> HIDE DEF n, t
<1>5. t \notin ToSet(v.path) /\ t \notin w.white
  <2>1. ASSUME NEW k \in 1..(n - 1), v.path[k] = t PROVE FALSE
    <3>1. k \in 1..n /\ k # n /\ n \in 1..n
      BY <1>3
    <3>2. w.path[k] = w.path[n]
      BY <1>3, <2>1
    <3>3. QED
      BY <1>4, <3>1, <3>2 DEF WalkSound, PathOnce
  <2>2. t \notin ToSet(v.path)
    BY <1>3, <2>1 DEF ToSet
  <2>3. t \notin w.white
    BY <1>3 DEF WalkSound, PathOnce
  <2>4. QED
    BY <2>2, <2>3
<1>6. LeftToDo(v) \subseteq LeftToDo(w)
  BY <1>2, <1>3 DEF LeftToDo
<1>7. <<t, TableCount + 1>> \in LeftToDo(w)
  <2>1. w.seen[t] \in Nat /\ w.seen[t] <= Len(ParentsOf(t)) /\ Len(ParentsOf(t)) \in 0..TableCount
    BY <1>1, <1>3, ParentsOfFacts DEF WalkSound, SeenInReach
  <2>2. w.seen[t] < TableCount + 1 /\ TableCount + 1 \in 0..(TableCount + 1)
    BY <1>1, <2>1
  <2>3. QED
    BY <1>3, <2>2 DEF LeftToDo
<1>8. <<t, TableCount + 1>> \notin LeftToDo(v)
  BY <1>2, <1>5 DEF LeftToDo
<1>9. QED
  BY <1>6, <1>7, <1>8 DEF v

LEMMA WalkStepShrinks ==
  ASSUME fks \in Schemas, NEW w, WalkSound(w), ~WalkEnded(w), NEW pass
  PROVE  /\ LeftToDo(WalkStep(w, pass)) \subseteq LeftToDo(w)
         /\ \E e \in LeftToDo(w) : e \notin LeftToDo(WalkStep(w, pass))
<1>1. w \in WalkState /\ w.white \in SUBSET GenTable
  BY DEF WalkSound, WalkState
<1>2. CASE w.path = <<>> /\ w.white # {}
  <2>1. Min(w.white) \in w.white
    BY <1>1, <1>2, LeastTable
  <2>2. WalkStep(w, pass) = Enter(w, Min(w.white))
    BY <1>2, WalkStepIs
  <2>3. PathOnce(w) /\ SeenInReach(w)
    BY DEF WalkSound
  <2>4. QED
    BY <1>1, <2>1, <2>2, <2>3, EnterShrinks
<1>3. CASE w.path # <<>> /\ w.seen[Last(w.path)] < Len(ParentsOf(Last(w.path)))
  BY <1>3, WalkStepIs, LookAtShrinks
<1>4. CASE w.path # <<>> /\ ~(w.seen[Last(w.path)] < Len(ParentsOf(Last(w.path))))
  BY <1>4, WalkStepIs, LeaveShrinks
<1>5. QED
  BY <1>2, <1>3, <1>4 DEF WalkEnded

LEMMA LeftToDoIsFinite ==
  ASSUME NEW w
  PROVE  /\ IsFiniteSet(LeftToDo(w)) /\ Cardinality(LeftToDo(w)) \in Nat
         /\ Cardinality(LeftToDo(w)) <= WalkPasses /\ WalkPasses \in Nat
<1> DEFINE chores == GenTable \X (0..(TableCount + 1))
<1>1. TableCount \in Nat
  BY GenerateAssumption
<1>2. IsFiniteSet(GenTable) /\ Cardinality(GenTable) = TableCount
  BY <1>1, FS_Interval DEF GenTable
<1>3. IsFiniteSet(0..(TableCount + 1)) /\ Cardinality(0..(TableCount + 1)) = TableCount + 2
  BY <1>1, FS_Interval
<1>4. IsFiniteSet(chores) /\ Cardinality(chores) = WalkPasses
  BY <1>2, <1>3, FS_Product DEF WalkPasses
<1>5. LeftToDo(w) \in SUBSET chores
  BY DEF LeftToDo
<1>6. QED
  BY <1>4, <1>5, FS_Subset, FS_CardinalityType

LEMMA WalkStartSound == fks \in Schemas => WalkSound(WalkStart)
<1> SUFFICES ASSUME fks \in Schemas PROVE WalkSound(WalkStart)
  OBVIOUS
<1>1. /\ WalkStart.white = GenTable /\ WalkStart.path = <<>> /\ WalkStart.seen = [t \in GenTable |-> 0]
      /\ WalkStart.back = {} /\ WalkStart \in WalkState
  BY DEF WalkStart, WalkState
<1>2. PathOnce(WalkStart)
  <2>1. DOMAIN WalkStart.path = {} /\ ToSet(WalkStart.path) = {}
    BY <1>1 DEF ToSet
  <2>2. QED
    BY <2>1 DEF PathOnce
<1>3. SeenInReach(WalkStart)
  <2>1. \A t \in GenTable : WalkStart.seen[t] = 0 /\ Len(ParentsOf(t)) \in Nat
    BY <1>1, ParentsOfFacts
  <2>2. QED
    BY <2>1 DEF SeenInReach
<1>4. LookedAt(WalkStart)
  BY <1>1 DEF LookedAt
<1>5. Ranked(WalkStart)
  <2>1. Black(WalkStart) = {}
    BY <1>1 DEF Black
  <2> DEFINE r == [t \in GenTable |-> 0]
  <2>2. r \in [GenTable -> Nat]
    OBVIOUS
  <2> HIDE DEF r
  <2>3. RankedBy(WalkStart, r, 0)
    BY <2>1 DEF RankedBy
  <2>4. QED
    BY <2>2, <2>3 DEF Ranked
<1>6. QED
  BY <1>1, <1>2, <1>3, <1>4, <1>5 DEF WalkSound

LEMMA WalkedIs ==
  Walked = Walk!Folded(WalkStart, [pass \in 1..WalkPasses |-> pass])
BY DEF Walked, Walk!Folded, Walk!FoldLeft, Walk!MapThenFoldSet, FoldLeft, MapThenFoldSet, Max, Walk!Max

\* The walk comes to its end: it has entered and left every table.
LEMMA WalkEnds ==
  ASSUME fks \in Schemas
  PROVE  WalkSound(Walked) /\ WalkEnded(Walked)
<1> DEFINE passes == [pass \in 1..WalkPasses |-> pass]
<1>1. WalkPasses \in Nat
  BY LeftToDoIsFinite
<1>2. passes \in Seq(Nat) /\ Len(passes) = WalkPasses
  BY <1>1
<1> HIDE DEF passes
<1>3. PICK w : Walk!Runs(w, WalkStart, passes) /\ w[Len(passes)] = Walk!Folded(WalkStart, passes)
  BY <1>2, Walk!FoldRuns
<1>4. w[0] = WalkStart /\ \A k \in 1..WalkPasses : w[k] = WalkStep(w[k - 1], passes[k])
  BY <1>2, <1>3 DEF Walk!Runs
<1> DEFINE G == {k \in 0..WalkPasses :
                   /\ WalkSound(w[k])
                   /\ WalkEnded(w[k]) \/ Cardinality(LeftToDo(w[k])) <= WalkPasses - k}
<1>5. 0 \in G
  BY <1>1, <1>4, WalkStartSound, LeftToDoIsFinite
<1>6. ASSUME NEW k \in 0..(WalkPasses - 1), k \in G PROVE k + 1 \in G
  <2>1. k + 1 \in 1..WalkPasses /\ k + 1 \in 0..WalkPasses /\ (k + 1) - 1 = k
    BY <1>1
  <2>2. w[k + 1] = WalkStep(w[k], passes[k + 1])
    BY <1>4, <2>1
  <2>3. WalkSound(w[k]) /\ (WalkEnded(w[k]) \/ Cardinality(LeftToDo(w[k])) <= WalkPasses - k)
    BY <1>6
  <2>4. WalkSound(w[k + 1])
    BY <2>2, <2>3, WalkStepKeeps
  <2>5. CASE WalkEnded(w[k])
    BY <2>1, <2>2, <2>4, <2>5, WalkStepIs
  <2>6. CASE ~WalkEnded(w[k])
    <3>1. /\ LeftToDo(w[k + 1]) \in SUBSET LeftToDo(w[k])
          /\ LeftToDo(w[k + 1]) # LeftToDo(w[k])
      BY <2>2, <2>3, <2>6, WalkStepShrinks
    <3>2. /\ IsFiniteSet(LeftToDo(w[k])) /\ Cardinality(LeftToDo(w[k])) \in Nat
          /\ Cardinality(LeftToDo(w[k + 1])) \in Nat
      BY LeftToDoIsFinite
    <3>3. /\ Cardinality(LeftToDo(w[k + 1])) <= Cardinality(LeftToDo(w[k]))
          /\ Cardinality(LeftToDo(w[k + 1])) # Cardinality(LeftToDo(w[k]))
      BY <3>1, <3>2, FS_Subset
    <3>4. Cardinality(LeftToDo(w[k + 1])) <= WalkPasses - (k + 1)
      BY <1>1, <2>1, <2>3, <2>6, <3>2, <3>3
    <3>5. QED
      BY <2>1, <2>4, <3>4
  <2>7. QED
    BY <2>5, <2>6
<1>7. 0..WalkPasses \subseteq G
  <2> HIDE DEF G
  <2>1. QED
    BY <1>1, <1>5, <1>6, CountingUp
<1>8. WalkPasses \in G
  BY <1>1, <1>7
<1>9. w[WalkPasses] = Walked
  BY <1>2, <1>3, WalkedIs DEF passes
<1>10. WalkSound(Walked) /\ (WalkEnded(Walked) \/ Cardinality(LeftToDo(Walked)) <= 0)
  BY <1>1, <1>8, <1>9
<1>11. ASSUME Cardinality(LeftToDo(Walked)) <= 0 PROVE WalkEnded(Walked)
  <2>1. LeftToDo(Walked) = {}
    <3>1. Cardinality(LeftToDo(Walked)) = 0 /\ IsFiniteSet(LeftToDo(Walked))
      BY <1>11, LeftToDoIsFinite
    <3>2. QED
      BY <3>1, FS_EmptySet
  <2>2. ASSUME ~WalkEnded(Walked) PROVE FALSE
    BY <1>10, <2>1, <2>2, WalkStepShrinks
  <2>3. QED
    BY <2>2
<1>12. QED
  BY <1>10, <1>11

\* Without the edges that close cycles no table is, by however many steps, its own parent.
LEMMA ParentsRanked ==
  ASSUME fks \in Schemas
  PROVE  \E r \in [GenTable -> Nat] : \A t \in GenTable :
           Parents(t) \in SUBSET GenTable /\ \A p \in Parents(t) : r[p] < r[t]
<1>1. WalkSound(Walked) /\ WalkEnded(Walked)
  BY WalkEnds
<1>2. Black(Walked) = GenTable
  <2>1. ToSet(Walked.path) = {}
    BY <1>1 DEF WalkEnded, ToSet
  <2>2. QED
    BY <1>1, <2>1 DEF Black, WalkEnded
<1>3. PICK r \in [GenTable -> Nat], m \in Nat : RankedBy(Walked, r, m)
  BY <1>1 DEF WalkSound, Ranked
<1>4. \A t \in GenTable : \A p \in Parents(t) : r[p] < r[t]
  BY <1>2, <1>3 DEF RankedBy, Parents, BackEdges
<1>5. \A t \in GenTable : Parents(t) \in SUBSET GenTable
  BY TargetsTyped DEF Parents
<1>6. QED
  BY <1>4, <1>5

EachOnce(s) == \A i, j \in DOMAIN s : s[i] = s[j] => i = j

LEMMA InToSet ==
  ASSUME NEW s, NEW x
  PROVE  x \in ToSet(s) <=> \E k \in DOMAIN s : s[k] = x
BY DEF ToSet

LEMMA HeadAndTail ==
  ASSUME NEW S, NEW s \in Seq(S), s # <<>>, EachOnce(s)
  PROVE  /\ Tail(s) \in Seq(S) /\ EachOnce(Tail(s)) /\ Head(s) \in S
         /\ Head(s) \notin ToSet(Tail(s)) /\ ToSet(s) = ToSet(Tail(s)) \cup {Head(s)}
<1>1. Len(s) \in Nat /\ Len(s) >= 1 /\ DOMAIN s = 1..Len(s) /\ Head(s) = s[1] /\ s[1] \in S
  OBVIOUS
<1>2. Tail(s) \in Seq(S) /\ Len(Tail(s)) = Len(s) - 1 /\ \A k \in 1..(Len(s) - 1) : Tail(s)[k] = s[k + 1]
  OBVIOUS
<1>3. DOMAIN Tail(s) = 1..(Len(s) - 1)
  BY <1>2
<1>4. \A k \in 1..(Len(s) - 1) : k + 1 \in 1..Len(s) /\ k + 1 # 1
  BY <1>1
<1>5. EachOnce(Tail(s))
  <2> SUFFICES ASSUME NEW i \in 1..(Len(s) - 1), NEW j \in 1..(Len(s) - 1), Tail(s)[i] = Tail(s)[j] PROVE i = j
    BY <1>3 DEF EachOnce
  <2>1. s[i + 1] = s[j + 1] /\ i + 1 \in DOMAIN s /\ j + 1 \in DOMAIN s
    BY <1>1, <1>2, <1>4
  <2>2. i + 1 = j + 1
    BY <2>1 DEF EachOnce
  <2>3. QED
    BY <1>1, <2>2
<1>6. Head(s) \notin ToSet(Tail(s))
  <2> SUFFICES ASSUME NEW k \in 1..(Len(s) - 1), Tail(s)[k] = s[1] PROVE FALSE
    BY <1>1, <1>3 DEF ToSet
  <2>1. s[k + 1] = s[1] /\ k + 1 \in DOMAIN s /\ 1 \in DOMAIN s
    BY <1>1, <1>2, <1>4
  <2>2. QED
    BY <1>4, <2>1 DEF EachOnce
<1>7. \A x : x \in ToSet(s) <=> x \in ToSet(Tail(s)) \cup {Head(s)}
  <2>1. \A k \in 1..Len(s) : k = 1 \/ (k - 1 \in 1..(Len(s) - 1) /\ (k - 1) + 1 = k)
    <3>1. Len(s) \in Nat
      BY <1>1
    <3>2. QED
      BY <3>1
  <2>2. 1 \in 1..Len(s)
    BY <1>1
  <2> SUFFICES ASSUME NEW x PROVE x \in ToSet(s) <=> x \in ToSet(Tail(s)) \cup {Head(s)}
    OBVIOUS
  <2>3. ASSUME NEW k \in 1..Len(s), s[k] = x PROVE x \in ToSet(Tail(s)) \cup {Head(s)}
    <3>1. CASE k = 1
      BY <1>1, <2>3, <3>1
    <3>2. CASE k - 1 \in 1..(Len(s) - 1) /\ (k - 1) + 1 = k
      <4>1. Tail(s)[k - 1] = x /\ k - 1 \in DOMAIN Tail(s)
        BY <1>2, <1>3, <2>3, <3>2
      <4>2. QED
        BY <4>1, InToSet
    <3>3. QED
      BY <2>1, <3>1, <3>2
  <2>4. ASSUME NEW k \in 1..(Len(s) - 1), Tail(s)[k] = x PROVE \E j \in 1..Len(s) : s[j] = x
    BY <1>2, <1>4, <2>4
  <2>5. /\ x \in ToSet(s) <=> \E k \in 1..Len(s) : s[k] = x
        /\ x \in ToSet(Tail(s)) <=> \E k \in 1..(Len(s) - 1) : Tail(s)[k] = x
    <3>1. x \in ToSet(s) <=> \E k \in DOMAIN s : s[k] = x
      BY InToSet
    <3>2. x \in ToSet(Tail(s)) <=> \E k \in DOMAIN Tail(s) : Tail(s)[k] = x
      BY InToSet
    <3>3. QED
      BY <1>1, <1>3, <3>1, <3>2
  <2>6. QED
    BY <1>1, <2>2, <2>3, <2>4, <2>5
<1>8. QED
  BY <1>1, <1>2, <1>5, <1>6, <1>7

LEMMA JoinedOnce ==
  ASSUME NEW S, NEW a \in Seq(S), NEW b \in Seq(S), EachOnce(a), EachOnce(b), ToSet(a) \cap ToSet(b) = {}
  PROVE  a \o b \in Seq(S) /\ EachOnce(a \o b) /\ ToSet(a \o b) = ToSet(a) \cup ToSet(b)
<1> DEFINE m == Len(a)
           n == Len(b)
<1>1. /\ m \in Nat /\ n \in Nat /\ DOMAIN a = 1..m /\ DOMAIN b = 1..n
      /\ a \o b \in Seq(S) /\ Len(a \o b) = m + n
  OBVIOUS
<1>2. DOMAIN (a \o b) = 1..(m + n)
  BY <1>1
<1>3. \A k \in 1..m : (a \o b)[k] = a[k]
  OBVIOUS
<1>4. \A k \in 1..(m + n) : k \notin 1..m => k - m \in 1..n /\ (a \o b)[k] = b[k - m]
  OBVIOUS
<1>5. \A k \in 1..n : k + m \in 1..(m + n) /\ k + m \notin 1..m /\ (k + m) - m = k
  BY <1>1
<1>6. \A k \in 1..m : k \in 1..(m + n)
  BY <1>1
<1> DEFINE c == a \o b
<1> HIDE DEF m, n, c
<1>7. \A x : x \in ToSet(c) <=> x \in ToSet(a) \cup ToSet(b)
  <2> SUFFICES ASSUME NEW x PROVE x \in ToSet(c) <=> x \in ToSet(a) \cup ToSet(b)
    OBVIOUS
  <2>1. ASSUME NEW k \in 1..(m + n), c[k] = x PROVE x \in ToSet(a) \cup ToSet(b)
    <3>1. CASE k \in 1..m
      BY <1>1, <1>3, <2>1, <3>1, InToSet DEF c
    <3>2. CASE k \notin 1..m
      <4>1. k - m \in DOMAIN b /\ b[k - m] = x
        BY <1>1, <1>4, <2>1, <3>2 DEF c
      <4>2. QED
        BY <4>1, InToSet
    <3>3. QED
      BY <3>1, <3>2
  <2>2. ASSUME NEW k \in 1..m, a[k] = x PROVE \E j \in 1..(m + n) : c[j] = x
    BY <1>3, <1>6, <2>2 DEF c
  <2>3. ASSUME NEW k \in 1..n, b[k] = x PROVE \E j \in 1..(m + n) : c[j] = x
    <3>1. k + m \in 1..(m + n) /\ c[k + m] = b[(k + m) - m]
      BY <1>4, <1>5 DEF c
    <3>2. QED
      BY <1>5, <2>3, <3>1
  <2>4. /\ x \in ToSet(c) <=> \E k \in DOMAIN c : c[k] = x
        /\ x \in ToSet(a) <=> \E k \in DOMAIN a : a[k] = x
        /\ x \in ToSet(b) <=> \E k \in DOMAIN b : b[k] = x
    BY InToSet
  <2>5. DOMAIN c = 1..(m + n)
    BY <1>2 DEF c
  <2>6. QED
    BY <1>1, <2>1, <2>2, <2>3, <2>4, <2>5
<1>8. ASSUME NEW i \in 1..(m + n), NEW j \in 1..(m + n), c[i] = c[j] PROVE i = j
  <2>1. CASE i \in 1..m /\ j \in 1..m
    BY <1>1, <1>3, <1>8, <2>1 DEF EachOnce, c
  <2>2. CASE i \in 1..m /\ j \notin 1..m
    <3>1. a[i] = b[j - m] /\ i \in DOMAIN a /\ j - m \in DOMAIN b
      BY <1>1, <1>3, <1>4, <1>8, <2>2 DEF c
    <3>2. QED
      BY <3>1, InToSet
  <2>3. CASE i \notin 1..m /\ j \in 1..m
    <3>1. a[j] = b[i - m] /\ j \in DOMAIN a /\ i - m \in DOMAIN b
      BY <1>1, <1>3, <1>4, <1>8, <2>3 DEF c
    <3>2. QED
      BY <3>1, InToSet
  <2>4. CASE i \notin 1..m /\ j \notin 1..m
    <3>1. i - m \in DOMAIN b /\ j - m \in DOMAIN b /\ b[i - m] = b[j - m]
      BY <1>1, <1>4, <1>8, <2>4 DEF c
    <3>2. i - m = j - m
      BY <3>1 DEF EachOnce
    <3>3. QED
      BY <1>1, <3>2
  <2>5. QED
    BY <2>1, <2>2, <2>3, <2>4
<1>9. QED
  BY <1>1, <1>2, <1>7, <1>8 DEF EachOnce, c

\* Every table that is out comes after its parents, and is ready as soon as they are out.
OrderState == [ready : Seq(GenTable), out : Seq(GenTable)]

OrderSound(o) ==
  /\ o \in OrderState
  /\ EachOnce(o.ready) /\ EachOnce(o.out) /\ ToSet(o.ready) \cap ToSet(o.out) = {}
  /\ \A j \in DOMAIN o.out : \A p \in Parents(o.out[j]) : \E i \in 1..(j - 1) : o.out[i] = p
  /\ \A t \in GenTable : Parents(t) \subseteq ToSet(o.out) <=> t \in ToSet(o.ready) \cup ToSet(o.out)

LEMMA OrderStartSound ==
  ASSUME fks \in Schemas
  PROVE  OrderSound(OrderStart) /\ Len(OrderStart.out) = 0
<1> DEFINE S == {t \in GenTable : Parents(t) = {}}
<1>1. /\ Ascending(S) \in Seq(S) /\ ToSet(Ascending(S)) = S /\ EachOnce(Ascending(S))
  BY AscendingFacts DEF EachOnce
<1>2. Ascending(S) \in Seq(GenTable)
  BY <1>1
<1>3. OrderStart = [ready |-> Ascending(S), out |-> <<>>]
  BY DEF OrderStart
<1>4. ToSet(<<>>) = {} /\ DOMAIN <<>> = {} /\ <<>> \in Seq(GenTable)
  BY DEF ToSet
<1>5. EachOnce(<<>>)
  BY <1>4 DEF EachOnce
<1> HIDE DEF S
<1>6. OrderStart \in OrderState /\ OrderStart.ready = Ascending(S) /\ OrderStart.out = <<>>
  BY <1>2, <1>3, <1>4 DEF OrderState
<1>7. \A t \in GenTable : Parents(t) \subseteq {} <=> t \in S
  BY DEF S
<1>8. QED
  BY <1>1, <1>4, <1>5, <1>6, <1>7 DEF OrderSound

LEMMA OrderStepKeeps ==
  ASSUME fks \in Schemas, NEW o, OrderSound(o), o.ready # <<>>, NEW pass
  PROVE  OrderSound(OrderStep(o, pass)) /\ Len(OrderStep(o, pass).out) = Len(o.out) + 1
<1> DEFINE h == Head(o.ready)
           out == Append(o.out, h)
           newly == {c \in GenTable : h \in Parents(c) /\ Parents(c) \subseteq ToSet(out)}
           x == OrderStep(o, pass)
           n == Len(o.out)
<1>1. x = [ready |-> Tail(o.ready) \o Ascending(newly), out |-> out]
  BY DEF OrderStep
<1>2. o.ready \in Seq(GenTable) /\ o.out \in Seq(GenTable) /\ EachOnce(o.ready) /\ EachOnce(o.out)
  BY DEF OrderSound, OrderState
<1>3. /\ Tail(o.ready) \in Seq(GenTable) /\ EachOnce(Tail(o.ready)) /\ h \in GenTable
      /\ h \notin ToSet(Tail(o.ready)) /\ ToSet(o.ready) = ToSet(Tail(o.ready)) \cup {h}
  <2>1. o.ready # <<>>
    OBVIOUS
  <2> HIDE DEF x, out, newly
  <2>2. QED
    BY <1>2, <2>1, HeadAndTail
<1> HIDE DEF h
<1>4. /\ out \in Seq(GenTable) /\ n \in Nat /\ Len(out) = n + 1 /\ DOMAIN o.out = 1..n
      /\ DOMAIN out = 1..(n + 1) /\ out[n + 1] = h /\ \A k \in 1..n : out[k] = o.out[k]
      /\ ToSet(out) = ToSet(o.out) \cup {h}
  BY <1>2, <1>3, AppendPlaces, AppendedPath
<1>5. /\ Ascending(newly) \in Seq(newly) /\ ToSet(Ascending(newly)) = newly /\ EachOnce(Ascending(newly))
  BY AscendingFacts DEF EachOnce
<1>6. Ascending(newly) \in Seq(GenTable)
  BY <1>5
<1> HIDE DEF out, n, x
<1>7. \A t \in GenTable : Parents(t) \subseteq ToSet(o.out) <=> t \in ToSet(o.ready) \cup ToSet(o.out)
  BY DEF OrderSound
<1>8. h \in ToSet(o.ready) /\ h \notin ToSet(o.out)
  BY <1>3 DEF OrderSound
<1>9. newly \cap (ToSet(o.ready) \cup ToSet(o.out)) = {}
  BY <1>7, <1>8
<1>10. /\ Tail(o.ready) \o Ascending(newly) \in Seq(GenTable)
       /\ EachOnce(Tail(o.ready) \o Ascending(newly))
       /\ ToSet(Tail(o.ready) \o Ascending(newly)) = ToSet(Tail(o.ready)) \cup newly
  <2>1. ToSet(Tail(o.ready)) \cap ToSet(Ascending(newly)) = {}
    BY <1>3, <1>5, <1>9
  <2> DEFINE rest == Tail(o.ready)
             more == Ascending(newly)
  <2>2. /\ rest \in Seq(GenTable) /\ more \in Seq(GenTable) /\ EachOnce(rest) /\ EachOnce(more)
        /\ ToSet(rest) \cap ToSet(more) = {} /\ ToSet(more) = newly
    BY <1>3, <1>5, <1>6, <2>1
  <2> HIDE DEF rest, more, newly
  <2>3. rest \o more \in Seq(GenTable) /\ EachOnce(rest \o more) /\ ToSet(rest \o more) = ToSet(rest) \cup newly
    BY <2>2, JoinedOnce
  <2>4. QED
    BY <2>3 DEF rest, more
<1>11. /\ x \in OrderState /\ x.out = out /\ EachOnce(x.ready)
       /\ ToSet(x.ready) = ToSet(Tail(o.ready)) \cup newly
  <2> DEFINE q == Tail(o.ready) \o Ascending(newly)
  <2>1. q \in Seq(GenTable) /\ EachOnce(q) /\ ToSet(q) = ToSet(Tail(o.ready)) \cup newly
    BY <1>10
  <2>2. x = [ready |-> q, out |-> out]
    BY <1>1
  <2> HIDE DEF q, newly
  <2>3. QED
    BY <1>4, <2>1, <2>2 DEF OrderState
<1>12. EachOnce(out)
  <2> SUFFICES ASSUME NEW i \in 1..(n + 1), NEW j \in 1..(n + 1), out[i] = out[j] PROVE i = j
    BY <1>4 DEF EachOnce
  <2>1. \A k \in 1..(n + 1) : k = n + 1 \/ k \in 1..n
    BY <1>4
  <2>2. \A k \in 1..n : out[k] # h
    BY <1>4, <1>8 DEF ToSet
  <2>3. CASE i \in 1..n /\ j \in 1..n
    BY <1>2, <1>4, <2>3 DEF EachOnce
  <2>4. QED
    BY <1>4, <2>1, <2>2, <2>3
<1>13. ToSet(x.ready) \cap ToSet(out) = {}
  <2>1. ToSet(Tail(o.ready)) \cap ToSet(o.out) = {}
    BY <1>3 DEF OrderSound
  <2>2. h \notin newly
    BY <1>8, <1>9
  <2> HIDE DEF newly
  <2>3. QED
    BY <1>3, <1>4, <1>9, <1>11, <2>1, <2>2
<1>14. \A j \in DOMAIN out : \A p \in Parents(out[j]) : \E i \in 1..(j - 1) : out[i] = p
  <2> SUFFICES ASSUME NEW j \in 1..(n + 1), NEW p \in Parents(out[j]) PROVE \E i \in 1..(j - 1) : out[i] = p
    BY <1>4
  <2>1. CASE j \in 1..n
    <3>1. PICK i \in 1..(j - 1) : o.out[i] = p
      BY <1>4, <2>1 DEF OrderSound
    <3>2. i \in 1..n
      BY <1>4, <2>1
    <3>3. QED
      BY <1>4, <3>1, <3>2
  <2>2. CASE j = n + 1
    <3>1. p \in ToSet(o.out)
      BY <1>3, <1>4, <1>7, <1>8, <2>2
    <3>2. PICK i \in 1..n : o.out[i] = p
      BY <1>4, <3>1 DEF ToSet
    <3>3. i \in 1..(j - 1)
      BY <1>4, <2>2
    <3>4. QED
      BY <1>4, <3>2, <3>3
  <2>3. QED
    BY <1>4, <2>1, <2>2
<1>15. ASSUME NEW t \in GenTable PROVE Parents(t) \subseteq ToSet(out) <=> t \in ToSet(x.ready) \cup ToSet(out)
  <2>1. Parents(t) \subseteq ToSet(out) /\ h \in Parents(t) <=> t \in newly
    BY <1>15
  <2>2. Parents(t) \subseteq ToSet(out) /\ h \notin Parents(t) <=> Parents(t) \subseteq ToSet(o.out)
    BY <1>4, <1>8
  <2>3. ToSet(x.ready) \cup ToSet(out) = ToSet(o.ready) \cup ToSet(o.out) \cup newly
    BY <1>3, <1>4, <1>11
  <2> HIDE DEF newly
  <2>4. QED
    BY <1>7, <2>1, <2>2, <2>3
<1> HIDE DEF newly
<1>16. OrderSound(x)
  BY <1>11, <1>12, <1>13, <1>14, <1>15 DEF OrderSound
<1>17. Len(x.out) = Len(o.out) + 1
  BY <1>4, <1>11 DEF n
<1>18. QED
  BY <1>16, <1>17 DEF x

LEMMA OrderedIs ==
  Ordered = Kahn!Folded(OrderStart, [pass \in GenTable |-> pass])
BY DEF Ordered, Kahn!Folded, Kahn!FoldLeft, Kahn!MapThenFoldSet, FoldLeft, MapThenFoldSet, Max, Kahn!Max

\* The order has every table once, after the parents whose edge closes no cycle.
LEMMA OrderIs ==
  ASSUME fks \in Schemas
  PROVE  /\ Order \in Seq(GenTable) /\ EachOnce(Order) /\ ToSet(Order) = GenTable
         /\ \A j \in DOMAIN Order : \A p \in Parents(Order[j]) : \E i \in 1..(j - 1) : Order[i] = p
<1> DEFINE passes == [pass \in GenTable |-> pass]
<1>1. TableCount \in Nat
  BY GenerateAssumption
<1>2. passes \in Seq(GenTable) /\ Len(passes) = TableCount
  BY <1>1 DEF GenTable
<1> HIDE DEF passes
<1>3. PICK o : Kahn!Runs(o, OrderStart, passes) /\ o[Len(passes)] = Kahn!Folded(OrderStart, passes)
  BY <1>2, Kahn!FoldRuns
<1>4. o[0] = OrderStart /\ \A k \in 1..TableCount : o[k] = OrderStep(o[k - 1], passes[k])
  BY <1>2, <1>3 DEF Kahn!Runs
<1> DEFINE G == {k \in 0..TableCount : OrderSound(o[k]) /\ (o[k].ready = <<>> \/ Len(o[k].out) = k)}
<1>5. 0 \in G
  BY <1>1, <1>4, OrderStartSound
<1>6. ASSUME NEW k \in 0..(TableCount - 1), k \in G PROVE k + 1 \in G
  <2>1. k + 1 \in 1..TableCount /\ k + 1 \in 0..TableCount /\ (k + 1) - 1 = k
    BY <1>1
  <2>2. o[k + 1] = OrderStep(o[k], passes[k + 1])
    BY <1>4, <2>1
  <2>3. OrderSound(o[k]) /\ (o[k].ready = <<>> \/ Len(o[k].out) = k)
    BY <1>6
  <2>4. CASE o[k].ready = <<>>
    <3>1. o[k + 1] = o[k]
      BY <2>2, <2>4 DEF OrderStep
    <3>2. QED
      BY <2>1, <2>3, <2>4, <3>1
  <2>5. CASE o[k].ready # <<>>
    <3>1. OrderSound(o[k + 1]) /\ Len(o[k + 1].out) = Len(o[k].out) + 1
      BY <2>2, <2>3, <2>5, OrderStepKeeps
    <3>2. QED
      BY <2>1, <2>3, <2>5, <3>1
  <2>6. QED
    BY <2>4, <2>5
<1>7. 0..TableCount \subseteq G
  <2> HIDE DEF G
  <2>1. QED
    BY <1>1, <1>5, <1>6, CountingUp
<1>8. TableCount \in G
  BY <1>1, <1>7
<1> DEFINE w == o[TableCount]
<1>9. OrderSound(w) /\ (w.ready = <<>> \/ Len(w.out) = TableCount)
  BY <1>8
<1>10. w = Ordered
  BY <1>2, <1>3, OrderedIs DEF passes
<1> HIDE DEF w, G
<1>11. w.out \in Seq(GenTable) /\ EachOnce(w.out)
  BY <1>9 DEF OrderSound, OrderState
<1>12. ToSet(w.out) \subseteq GenTable
  BY <1>11 DEF ToSet
<1>13. ASSUME w.ready = <<>> PROVE ToSet(w.out) = GenTable
  <2> DEFINE rest == GenTable \ ToSet(w.out)
  <2>1. SUFFICES ASSUME rest # {} PROVE FALSE
    BY <1>12
  <2>2. PICK r \in [GenTable -> Nat] : \A t \in GenTable :
          Parents(t) \in SUBSET GenTable /\ \A p \in Parents(t) : r[p] < r[t]
    BY ParentsRanked
  <2> DEFINE ranks == {r[t] : t \in rest}
  <2>3. ranks \in SUBSET Nat /\ ranks # {}
    BY <2>1, <2>2
  <2>4. PICK least \in ranks : \A x \in ranks : least <= x
    BY <2>3, LeastExists
  <2>5. PICK t \in rest : r[t] = least
    BY <2>4
  <2>6. Parents(t) \subseteq ToSet(w.out)
    <3> SUFFICES ASSUME NEW p \in Parents(t), p \in rest PROVE FALSE
      BY <2>2
    <3>1. r[p] < r[t] /\ r[p] \in Nat /\ r[t] \in Nat
      BY <2>2
    <3>2. r[t] <= r[p]
      BY <2>4, <2>5
    <3>3. QED
      BY <3>1, <3>2
  <2>7. ToSet(w.ready) = {}
    BY <1>13 DEF ToSet
  <2>8. t \in ToSet(w.out)
    BY <1>9, <2>6, <2>7 DEF OrderSound
  <2>9. QED
    BY <2>8
<1>14. ASSUME Len(w.out) = TableCount PROVE ToSet(w.out) = GenTable
  <2>1. w.out \in [1..TableCount -> GenTable]
    BY <1>11, <1>14
  <2>2. w.out \in Injection(1..TableCount, GenTable)
    BY <1>11, <2>1 DEF EachOnce, Injection, IsInjective
  <2>3. IsFiniteSet(GenTable) /\ Cardinality(GenTable) = TableCount /\ Cardinality(1..TableCount) = TableCount
    BY <1>1, FS_Interval DEF GenTable
  <2>4. w.out \in Surjection(1..TableCount, GenTable)
    BY <2>2, <2>3, FS_Injection
  <2>5. QED
    <3>1. \A t \in GenTable : \E k \in 1..TableCount : w.out[k] = t
      BY <2>4 DEF Surjection
    <3>2. DOMAIN w.out = 1..TableCount
      BY <2>1
    <3>3. \A t \in GenTable : t \in ToSet(w.out)
      BY <3>1, <3>2, InToSet
    <3>4. QED
      BY <1>12, <3>3
<1>15. ToSet(w.out) = GenTable
  BY <1>9, <1>13, <1>14
<1>16. QED
  BY <1>9, <1>10, <1>11, <1>15 DEF Order, OrderSound

\* The plan in force: every table once, none before a parent that it takes keys from.
PlanSound(order, deferred) ==
  /\ order \in Seq(GenTable) /\ EachOnce(order) /\ ToSet(order) = GenTable
  /\ DOMAIN deferred = GenTable
  /\ \A t \in GenTable :
       /\ deferred[t] \subseteq DOMAIN fks[t]
       /\ \A i \in DOMAIN fks[t] : fks[t][i] = t => i \in deferred[t]
  /\ \A a, b \in DOMAIN order : a < b =>
       \A i \in DOMAIN fks[order[a]] \ deferred[order[a]] : fks[order[a]][i] = order[b] =>
         \E k, l \in DOMAIN fks[order[a]] :
           /\ fks[order[a]][k] = order[b] /\ fks[order[a]][l] = order[b]
           /\ k \in deferred[order[a]] /\ l \notin deferred[order[a]]

LEMMA NewPlanIsSound ==
  ASSUME fks \in Schemas
  PROVE  PlanSound(Order, [t \in GenTable |-> Defer(t)])
<1> DEFINE deferred == [t \in GenTable |-> Defer(t)]
<1>1. /\ Order \in Seq(GenTable) /\ EachOnce(Order) /\ ToSet(Order) = GenTable
      /\ \A j \in DOMAIN Order : \A p \in Parents(Order[j]) : \E i \in 1..(j - 1) : Order[i] = p
  BY OrderIs
<1>2. ASSUME NEW t \in GenTable
      PROVE  /\ deferred[t] \subseteq DOMAIN fks[t]
             /\ \A i \in DOMAIN fks[t] : fks[t][i] = t => i \in deferred[t]
  BY DEF Defer
<1>3. ASSUME NEW a \in DOMAIN Order, NEW b \in DOMAIN Order, a < b,
             NEW i \in DOMAIN fks[Order[a]] \ deferred[Order[a]], fks[Order[a]][i] = Order[b]
      PROVE  \E k, l \in DOMAIN fks[Order[a]] :
               /\ fks[Order[a]][k] = Order[b] /\ fks[Order[a]][l] = Order[b]
               /\ k \in deferred[Order[a]] /\ l \notin deferred[Order[a]]
  <2> DEFINE t == Order[a]
             p == Order[b]
  <2>1. t \in GenTable /\ p \in GenTable /\ a \in Nat /\ b \in Nat
    BY <1>1
  <2>2. fks[t] \in Seq(GenTable)
    BY <2>1, TargetsTyped
  <2>3. deferred[t] = Defer(t)
    BY <2>1
  <2>4. i \in DOMAIN fks[t] /\ fks[t][i] = p /\ i \notin Defer(t)
    BY <1>3, <2>3
  <2> HIDE DEF t, p, deferred
  <2>5. p # t /\ p \in Targets(t)
    BY <2>4 DEF Defer, Targets, ToSet
  <2>6. p \notin Parents(t)
    <3> SUFFICES ASSUME p \in Parents(t) PROVE FALSE
      OBVIOUS
    <3>1. PICK c \in 1..(a - 1) : Order[c] = p
      BY <1>1 DEF t
    <3>2. c \in DOMAIN Order /\ c # b
      <4>1. DOMAIN Order = 1..Len(Order) /\ Len(Order) \in Nat
        BY <1>1
      <4>2. QED
        BY <1>3, <2>1, <4>1
    <3>3. QED
      BY <1>1, <3>1, <3>2 DEF EachOnce, p
  <2>7. <<t, p>> \in BackEdges
    BY <2>5, <2>6 DEF Parents
  <2> DEFINE cols == {j \in DOMAIN fks[t] : fks[t][j] = p}
  <2>8. PICK last \in cols : \A j \in cols : j <= last
    <3>1. cols \in SUBSET Nat /\ cols # {} /\ Len(fks[t]) \in Nat /\ \A j \in cols : j <= Len(fks[t])
      BY <2>2, <2>4
    <3>2. QED
      BY <3>1, GreatestExists
  <2>9. last \in Defer(t)
    BY <2>7, <2>8 DEF Defer
  <2>10. QED
    BY <2>3, <2>4, <2>8, <2>9 DEF t, p
<1>4. DOMAIN deferred = GenTable
  OBVIOUS
<1> HIDE DEF deferred
<1>5. PlanSound(Order, deferred)
  BY <1>1, <1>2, <1>3, <1>4 DEF PlanSound
<1>6. QED
  BY <1>5 DEF deferred

-----------------------------------------------------------------------------
(* The run of a generation.                                                  *)

GenerateTyped ==
  /\ fks \in Schemas /\ keyed \subseteq GenTable /\ original \subseteq GenTable
  /\ stored \in [GenTable -> Nat]
  /\ stage \in {"idle", "table", "chunk", "wire", "done"}
  /\ failedIn \subseteq GenTable \cup {0}
  /\ DOMAIN pools \subseteq GenTable
  /\ \A c \in nullFk : /\ c = <<c[1], c[2]>> /\ c[1] \in GenTable /\ c[2] \in DOMAIN fks[c[1]]
                       /\ stored[c[1]] > 0

\* There is a plan once a run has begun, and it is at one of its tables.
PlanInForce ==
  /\ stage = "idle" => deferredFk = [t \in GenTable |-> {}]
  /\ stage # "idle" => PlanSound(insertOrder, deferredFk)
  /\ stage \in {"table", "chunk", "wire"} => at \in DOMAIN insertOrder
  /\ stage = "chunk" => \A i \in Pointing(Filling) : fks[Filling][i] \in DOMAIN pools

\* While no table has failed the run goes on, and the tables behind it have rows.
FilledSoFar ==
  failedIn = {} =>
    /\ stage \in {"table", "chunk", "wire"} => ~cancelled
    /\ stage \in {"table", "chunk"} => \A b \in 1..(at - 1) : stored[insertOrder[b]] > 0
    /\ stage = "wire" => \A t \in GenTable : stored[t] > 0

\* A table whose keys a run did not find was not read, or is one of two columns' target.
Excused(p) == p \in unread \/ \E t \in GenTable : Twice(t, p)

PoolsFound ==
  (failedIn = {} /\ stage \in {"table", "chunk"}) => \A q \in DOMAIN pools : pools[q] \/ Excused(q)

\* What the last pass has yet to do.
ToWire(t) ==
  \/ stage \in {"table", "chunk"}
  \/ stage = "wire" /\ \E b \in DOMAIN insertOrder : at <= b /\ insertOrder[b] = t

LeftEmpty(c) ==
  \/ Excused(fks[c[1]][c[2]])
  \/ c[2] \in deferredFk[c[1]] /\ (c[1] \notin keyed \/ stored[c[1]] > PoolCap)

EmptiesExcused ==
  (failedIn = {} /\ ~cancelled /\ stage # "idle") =>
    \A c \in nullFk : LeftEmpty(c) \/ (c[2] \in deferredFk[c[1]] /\ ToWire(c[1]))

GenerateInv == GenerateTyped /\ PlanInForce /\ FilledSoFar /\ PoolsFound /\ EmptiesExcused

LEMMA PlanFacts ==
  ASSUME NEW order, NEW deferred, PlanSound(order, deferred)
  PROVE  /\ order \in Seq(GenTable) /\ Len(order) \in Nat /\ Len(order) >= 1 /\ DOMAIN order = 1..Len(order)
         /\ 1 \in DOMAIN order /\ \A t \in GenTable : \E b \in DOMAIN order : order[b] = t
<1>1. order \in Seq(GenTable) /\ ToSet(order) = GenTable
  BY DEF PlanSound
<1>2. \A t \in GenTable : \E b \in DOMAIN order : order[b] = t
  BY <1>1, InToSet
<1>3. Len(order) \in Nat /\ DOMAIN order = 1..Len(order)
  BY <1>1
<1>4. 1 \in GenTable
  BY GenerateAssumption DEF GenTable
<1>5. Len(order) >= 1
  BY <1>2, <1>3, <1>4
<1>6. QED
  BY <1>1, <1>2, <1>3, <1>5

LEMMA FillingFacts ==
  ASSUME GenerateInv, stage \in {"table", "chunk", "wire"}
  PROVE  /\ PlanSound(insertOrder, deferredFk) /\ at \in DOMAIN insertOrder /\ at \in Nat
         /\ Filling \in GenTable /\ deferredFk[Filling] \subseteq DOMAIN fks[Filling]
         /\ fks[Filling] \in Seq(GenTable)
         /\ DOMAIN insertOrder = 1..Len(insertOrder) /\ Len(insertOrder) \in Nat
<1>1. PlanSound(insertOrder, deferredFk) /\ at \in DOMAIN insertOrder
  BY DEF GenerateInv, PlanInForce
<1>2. /\ insertOrder \in Seq(GenTable) /\ DOMAIN insertOrder = 1..Len(insertOrder)
      /\ Len(insertOrder) \in Nat
  BY <1>1, PlanFacts
<1>3. Filling \in GenTable /\ at \in Nat
  BY <1>1, <1>2 DEF Filling
<1>4. deferredFk[Filling] \subseteq DOMAIN fks[Filling]
  BY <1>1, <1>3 DEF PlanSound
<1>5. fks[Filling] \in Seq(GenTable)
  BY <1>3, TargetsTyped DEF GenerateInv, GenerateTyped
<1>6. QED
  BY <1>1, <1>2, <1>3, <1>4, <1>5

\* There are keys of a table that has rows.
LEMMA KeysWhereRows ==
  ASSUME stored \in [GenTable -> Nat], NEW t \in GenTable
  PROVE  Keys(t) > 0 <=> stored[t] > 0
<1>1. stored[t] \in Nat /\ PoolCap \in Nat /\ PoolCap > 0
  BY GenerateAssumption
<1>2. \E x \in {stored[t], PoolCap} : \A y \in {stored[t], PoolCap} : x <= y
  BY <1>1
<1>3. /\ Min({stored[t], PoolCap}) \in {stored[t], PoolCap}
      /\ \A y \in {stored[t], PoolCap} : Min({stored[t], PoolCap}) <= y
  BY <1>2 DEF Min
<1>4. QED
  BY <1>1, <1>3 DEF Keys

\* Nothing but what is excused is excused by what comes.
LEMMA ExcusesStay ==
  ASSUME fks' = fks, deferredFk' = deferredFk, unread \subseteq unread', NEW p
  PROVE  Excused(p) => Excused(p)'
BY DEF Excused, Twice

LEMMA GenerateStarts == GenerateInit => GenerateInv
<1> SUFFICES ASSUME GenerateInit PROVE GenerateInv
  OBVIOUS
<1>1. GenerateTyped
  BY DEF GenerateInit, GenerateTyped
<1>2. PlanInForce /\ FilledSoFar /\ PoolsFound /\ EmptiesExcused
  BY DEF GenerateInit, PlanInForce, FilledSoFar, PoolsFound, EmptiesExcused
<1>3. QED
  BY <1>1, <1>2 DEF GenerateInv

LEMMA RunKeeps == GenerateInv /\ GenerateRun => GenerateInv'
<1> SUFFICES ASSUME GenerateInv, GenerateRun PROVE GenerateInv'
  OBVIOUS
<1>1. /\ UNCHANGED <<fks, keyed, original, stored, unread>>
      /\ insertOrder' = Order /\ deferredFk' = [t \in GenTable |-> Defer(t)]
      /\ stage' = "table" /\ at' = 1 /\ pools' = <<>> /\ cancelled' = FALSE
      /\ failedIn' = {} /\ nullFk' = {}
  BY DEF GenerateRun, schemaVars
<1>2. fks \in Schemas
  BY DEF GenerateInv, GenerateTyped
<1> DEFINE order == Order
           deferred == [t \in GenTable |-> Defer(t)]
<1>3. PlanSound(order, deferred)
  BY <1>2, NewPlanIsSound
<1> HIDE DEF order, deferred
<1>4. insertOrder' = order /\ deferredFk' = deferred
  BY <1>1 DEF order, deferred
<1>5. PlanSound(insertOrder, deferredFk)'
  <2>1. fks' = fks
    BY <1>1
  <2>2. PlanSound(insertOrder', deferredFk')
    BY <1>3, <1>4
  <2>3. QED
    BY <2>1, <2>2 DEF PlanSound, GenTable
<1>6. 1 \in DOMAIN order
  BY <1>3, PlanFacts
<1>7. GenerateTyped'
  BY <1>1 DEF GenerateInv, GenerateTyped, GenTable
<1>8. PlanInForce'
  BY <1>1, <1>4, <1>5, <1>6 DEF PlanInForce
<1>9. FilledSoFar' /\ PoolsFound' /\ EmptiesExcused'
  BY <1>1 DEF FilledSoFar, PoolsFound, EmptiesExcused
<1>10. QED
  BY <1>7, <1>8, <1>9 DEF GenerateInv

LEMMA CancelKeeps == GenerateInv /\ CancelRun => GenerateInv'
<1> SUFFICES ASSUME GenerateInv, CancelRun PROVE GenerateInv'
  OBVIOUS
<1>1. UNCHANGED <<fks, keyed, original, stored, stage, insertOrder, deferredFk, at, pools, cancelled,
                  failedIn, nullFk, unread>>
  BY DEF CancelRun, schemaVars, planVars
<1>2. GenerateTyped' /\ FilledSoFar'
  BY <1>1 DEF GenerateInv, GenerateTyped, FilledSoFar, GenTable
<1>3. PlanInForce'
  <2>1. PlanSound(insertOrder, deferredFk) => PlanSound(insertOrder, deferredFk)'
    BY <1>1 DEF PlanSound, GenTable
  <2>2. Pointing(Filling)' = Pointing(Filling) /\ Filling' = Filling
    BY <1>1 DEF Pointing, Filling
  <2>3. QED
    BY <1>1, <2>1, <2>2 DEF GenerateInv, PlanInForce, GenTable
<1>4. PoolsFound'
  BY <1>1, ExcusesStay DEF GenerateInv, PoolsFound
<1>5. EmptiesExcused'
  <2>1. \A c : LeftEmpty(c) => LeftEmpty(c)'
    BY <1>1, ExcusesStay DEF LeftEmpty
  <2>2. \A t : ToWire(t) <=> ToWire(t)'
    BY <1>1 DEF ToWire
  <2>3. QED
    BY <1>1, <2>1, <2>2 DEF GenerateInv, EmptiesExcused
<1>6. QED
  BY <1>2, <1>3, <1>4, <1>5 DEF GenerateInv

LEMMA BeginKeeps == GenerateInv /\ BeginTable => GenerateInv'
<1> SUFFICES ASSUME GenerateInv, BeginTable PROVE GenerateInv'
  OBVIOUS
<1>1. /\ stage = "table" /\ at <= Len(insertOrder)
      /\ UNCHANGED <<fks, keyed, original, stored, insertOrder, deferredFk, at, failedIn, nullFk>>
  BY DEF BeginTable, schemaVars, planVars
<1>2. /\ PlanSound(insertOrder, deferredFk) /\ at \in DOMAIN insertOrder /\ at \in Nat
      /\ Filling \in GenTable /\ fks[Filling] \in Seq(GenTable)
      /\ DOMAIN insertOrder = 1..Len(insertOrder) /\ Len(insertOrder) \in Nat
  BY <1>1, FillingFacts
<1>3. PlanSound(insertOrder, deferredFk)'
  BY <1>1, <1>2 DEF PlanSound, GenTable
<1>4. CASE cancelFlag
  <2>1. cancelled' = TRUE /\ stage' = "done" /\ UNCHANGED <<pools, unread>>
    BY <1>4 DEF BeginTable
  <2>2. GenerateTyped'
    BY <1>1, <2>1 DEF GenerateInv, GenerateTyped, GenTable
  <2>3. PlanInForce' /\ FilledSoFar' /\ PoolsFound' /\ EmptiesExcused'
    BY <1>1, <1>3, <2>1 DEF PlanInForce, FilledSoFar, PoolsFound, EmptiesExcused
  <2>4. QED
    BY <2>2, <2>3 DEF GenerateInv
<1>5. CASE ~cancelFlag
  <2> DEFINE wanted == {fks[Filling][i] : i \in Pointing(Filling)} \ DOMAIN pools
  <2>1. PICK failed \in SUBSET wanted :
          /\ pools' = [t \in DOMAIN pools \cup wanted |-> IF t \in wanted THEN HasKeys(t, failed) ELSE pools[t]]
          /\ unread' = unread \cup failed
          /\ stage' = "chunk" /\ UNCHANGED cancelled
    BY <1>5 DEF BeginTable
  <2>2. wanted \subseteq GenTable
    BY <1>2 DEF Pointing
  <2>3. GenerateTyped'
    BY <1>1, <2>1, <2>2 DEF GenerateInv, GenerateTyped, GenTable
  <2>4. PlanInForce'
    <3>1. \A i \in Pointing(Filling) : fks[Filling][i] \in DOMAIN pools'
      BY <2>1
    <3>2. Pointing(Filling)' = Pointing(Filling) /\ Filling' = Filling
      BY <1>1 DEF Pointing, Filling
    <3>3. QED
      BY <1>1, <1>2, <1>3, <2>1, <3>1, <3>2 DEF PlanInForce
  <2>5. FilledSoFar'
    BY <1>1, <2>1 DEF GenerateInv, FilledSoFar
  <2>6. PoolsFound'
    <3> SUFFICES ASSUME failedIn = {}, NEW q \in DOMAIN pools' PROVE pools'[q] \/ Excused(q)'
      BY <1>1 DEF PoolsFound
    <3>1. CASE q \in wanted
      <4>1. pools'[q] = HasKeys(q, failed) /\ q \in GenTable
        BY <2>1, <2>2, <3>1
      <4>2. CASE q \in failed
        BY <2>1, <4>2 DEF Excused
      <4>3. CASE q \notin failed /\ stored[q] > 0
        <5>1. HasKeys(q, failed)
          BY <4>1, <4>3, KeysWhereRows DEF HasKeys, GenerateInv, GenerateTyped
        <5>2. QED
          BY <4>1, <5>1
      <4>4. CASE ~(stored[q] > 0)
        <5>1. PICK i \in Pointing(Filling) : fks[Filling][i] = q
          BY <3>1
        <5>2. PICK b \in DOMAIN insertOrder : insertOrder[b] = q
          BY <1>2, <4>1, PlanFacts
        <5>3. ~(b < at)
          <6>1. b < at => b \in 1..(at - 1)
            BY <1>2
          <6>2. \A c \in 1..(at - 1) : stored[insertOrder[c]] > 0
            BY <1>1 DEF GenerateInv, FilledSoFar
          <6>3. QED
            BY <4>4, <5>2, <6>1, <6>2
        <5>4. b # at
          BY <1>2, <5>1, <5>2 DEF PlanSound, Pointing, Filling
        <5>5. at < b
          BY <1>2, <5>3, <5>4
        <5>6. Twice(Filling, q)
          BY <1>2, <5>1, <5>2, <5>5 DEF PlanSound, Pointing, Filling, Twice
        <5>7. Excused(q)
          BY <1>2, <5>6 DEF Excused
        <5>8. QED
          BY <1>1, <2>1, <5>7, ExcusesStay
      <4>5. QED
        BY <4>2, <4>3, <4>4
    <3>2. CASE q \notin wanted
      <4>1. q \in DOMAIN pools /\ pools'[q] = pools[q]
        BY <2>1, <3>2
      <4>2. pools[q] \/ Excused(q)
        BY <1>1, <4>1 DEF GenerateInv, PoolsFound
      <4>3. QED
        BY <1>1, <2>1, <4>1, <4>2, ExcusesStay
    <3>3. QED
      BY <3>1, <3>2
  <2>7. EmptiesExcused'
    <3> SUFFICES ASSUME failedIn = {}, ~cancelled, NEW c \in nullFk
                 PROVE  LeftEmpty(c)' \/ (c[2] \in deferredFk[c[1]] /\ ToWire(c[1])')
      BY <1>1, <2>1 DEF EmptiesExcused
    <3>1. LeftEmpty(c) \/ c[2] \in deferredFk[c[1]]
      BY <1>1 DEF GenerateInv, EmptiesExcused
    <3>2. LeftEmpty(c) => LeftEmpty(c)'
      BY <1>1, <2>1, ExcusesStay DEF LeftEmpty
    <3>3. ToWire(c[1])'
      BY <2>1 DEF ToWire
    <3>4. QED
      BY <3>1, <3>2, <3>3
  <2>8. QED
    BY <2>3, <2>4, <2>5, <2>6, <2>7 DEF GenerateInv
<1>6. QED
  BY <1>4, <1>5

LEMMA LeavingTable ==
  ASSUME NEW stopped, LeaveTable(stopped), GenerateInv, stage = "chunk"
  PROVE  /\ at' \in DOMAIN insertOrder
         /\ \/ stage' = "done" /\ stopped
            \/ stage' = "wire" /\ at' = 1 /\ at = Len(insertOrder)
            \/ stage' = "table" /\ at' = at + 1
<1>1. /\ PlanSound(insertOrder, deferredFk) /\ at \in DOMAIN insertOrder /\ at \in Nat
      /\ DOMAIN insertOrder = 1..Len(insertOrder) /\ Len(insertOrder) \in Nat
  BY FillingFacts
<1>2. 1 \in DOMAIN insertOrder
  BY <1>1, PlanFacts
<1>3. QED
  BY <1>1, <1>2 DEF LeaveTable

LEMMA ChunkKeeps == GenerateInv /\ InsertChunk => GenerateInv'
<1> SUFFICES ASSUME GenerateInv, InsertChunk PROVE GenerateInv'
  OBVIOUS
<1>1. /\ stage = "chunk" /\ cancelled' = (cancelled \/ cancelFlag)
      /\ UNCHANGED <<fks, keyed, original, insertOrder, deferredFk, pools, unread>>
  BY DEF InsertChunk, schemaVars, planVars
<1>2. /\ PlanSound(insertOrder, deferredFk) /\ at \in DOMAIN insertOrder /\ at \in Nat
      /\ Filling \in GenTable /\ fks[Filling] \in Seq(GenTable) /\ Filling = insertOrder[at]
      /\ deferredFk[Filling] \subseteq DOMAIN fks[Filling]
      /\ DOMAIN insertOrder = 1..Len(insertOrder) /\ Len(insertOrder) \in Nat
  BY <1>1, FillingFacts DEF Filling
<1>3. PlanSound(insertOrder, deferredFk)'
  BY <1>1, <1>2 DEF PlanSound, GenTable
<1>4. \A t \in GenTable : \E b \in DOMAIN insertOrder : insertOrder[b] = t
  BY <1>2, PlanFacts
<1>5. GenerateTyped
  BY DEF GenerateInv
<1>6. CASE /\ stored' = [stored EXCEPT ![Filling] = @ + 1]
           /\ nullFk' = nullFk \cup {<<Filling, i>> : i \in deferredFk[Filling]}
                               \cup {<<Filling, i>> : i \in {j \in Pointing(Filling) : ~pools[fks[Filling][j]]}}
           /\ produced' = produced + 1
           /\ IF cancelled' \/ produced' = ChunkCount THEN LeaveTable(cancelled') ELSE UNCHANGED <<stage, at>>
           /\ UNCHANGED failedIn
  <2>1. /\ at' \in DOMAIN insertOrder
        /\ \/ stage' = "done" /\ cancelled'
           \/ stage' = "wire" /\ at' = 1 /\ at = Len(insertOrder)
           \/ stage' = "table" /\ at' = at + 1
           \/ stage' = "chunk" /\ at' = at /\ ~cancelled'
    <3>1. CASE cancelled' \/ produced' = ChunkCount
      <4>1. LeaveTable(cancelled')
        BY <1>6, <3>1
      <4>2. QED
        BY <1>1, <4>1, LeavingTable
    <3>2. CASE ~(cancelled' \/ produced' = ChunkCount)
      BY <1>1, <1>2, <1>6, <3>2
    <3>3. QED
      BY <3>1, <3>2
  <2>2. cancelled' => stage' = "done"
    BY <1>6, <2>1 DEF LeaveTable
  <2>3. /\ stored' \in [GenTable -> Nat] /\ stored'[Filling] > 0
        /\ \A t \in GenTable : stored'[t] >= stored[t] /\ stored[t] \in Nat /\ stored'[t] \in Nat
    <3>1. stored \in [GenTable -> Nat]
      BY <1>5 DEF GenerateTyped
    <3>2. QED
      BY <1>2, <1>6, <3>1
  <2>4. ASSUME NEW c \in nullFk'
        PROVE  \/ c \in nullFk
               \/ \E i \in deferredFk[Filling] : c = <<Filling, i>>
               \/ \E i \in Pointing(Filling) : c = <<Filling, i>> /\ ~pools[fks[Filling][i]]
    BY <1>6
  <2>5. GenerateTyped'
    <3>1. ASSUME NEW c \in nullFk'
          PROVE  /\ c = <<c[1], c[2]>> /\ c[1] \in GenTable /\ c[2] \in DOMAIN fks[c[1]]
                 /\ stored'[c[1]] > 0
      <4>1. CASE c \in nullFk
        <5>1. /\ c = <<c[1], c[2]>> /\ c[1] \in GenTable /\ c[2] \in DOMAIN fks[c[1]]
              /\ stored[c[1]] > 0
          BY <1>5, <4>1 DEF GenerateTyped
        <5>2. QED
          BY <2>3, <5>1
      <4>2. CASE \E i \in deferredFk[Filling] \cup Pointing(Filling) : c = <<Filling, i>>
        BY <1>2, <2>3, <4>2 DEF Pointing
      <4>3. QED
        BY <2>4, <4>1, <4>2
    <3>2. QED
      BY <1>1, <1>5, <1>6, <2>1, <2>3, <3>1 DEF GenerateTyped, GenTable
  <2>6. PlanInForce'
    <3>1. stage' = "chunk" => Filling' = Filling /\ Pointing(Filling)' = Pointing(Filling)
      BY <1>1, <2>1 DEF Filling, Pointing
    <3>2. \A i \in Pointing(Filling) : fks[Filling][i] \in DOMAIN pools
      BY <1>1 DEF GenerateInv, PlanInForce
    <3>3. QED
      BY <1>1, <1>3, <2>1, <3>1, <3>2 DEF PlanInForce
  <2>7. FilledSoFar'
    <3> SUFFICES ASSUME failedIn = {}
                 PROVE  /\ stage' \in {"table", "chunk", "wire"} => ~cancelled'
                        /\ stage' \in {"table", "chunk"} => \A b \in 1..(at' - 1) : stored'[insertOrder[b]] > 0
                        /\ stage' = "wire" => \A t \in GenTable : stored'[t] > 0
      BY <1>1, <1>6 DEF FilledSoFar, GenTable
    <3>1. \A b \in 1..at : stored'[insertOrder[b]] > 0
      <4> SUFFICES ASSUME NEW b \in 1..at PROVE stored'[insertOrder[b]] > 0
        OBVIOUS
      <4>1. CASE b = at
        BY <1>2, <2>3, <4>1
      <4>2. CASE b # at
        <5>1. b \in 1..(at - 1) /\ b \in DOMAIN insertOrder
          BY <1>2, <4>2
        <5>2. stored[insertOrder[b]] > 0
          BY <1>1, <5>1 DEF GenerateInv, FilledSoFar
        <5>3. insertOrder[b] \in GenTable
          BY <1>2, <5>1 DEF PlanSound
        <5>4. QED
          BY <2>3, <5>2, <5>3
      <4>3. QED
        BY <4>1, <4>2
    <3>2. stage' \in {"table", "chunk", "wire"} => ~cancelled'
      BY <2>2
    <3>3. stage' \in {"table", "chunk"} => \A b \in 1..(at' - 1) : stored'[insertOrder[b]] > 0
      <4>1. stage' \in {"table", "chunk"} => \A b \in 1..(at' - 1) : b \in 1..at
        BY <1>2, <2>1
      <4>2. QED
        BY <3>1, <4>1
    <3>4. stage' = "wire" => \A t \in GenTable : stored'[t] > 0
      BY <1>2, <1>4, <2>1, <3>1
    <3>5. QED
      BY <3>2, <3>3, <3>4
  <2>8. PoolsFound'
    BY <1>1, <1>6, ExcusesStay DEF GenerateInv, PoolsFound
  <2>9. EmptiesExcused'
    <3> SUFFICES ASSUME failedIn = {}, ~cancelled', NEW c \in nullFk'
                 PROVE  LeftEmpty(c)' \/ (c[2] \in deferredFk[c[1]] /\ ToWire(c[1])')
      BY <1>1, <1>6 DEF EmptiesExcused
    <3>1. \A t \in GenTable : ToWire(t)'
      <4>1. stage' = "wire" => \A t \in GenTable : \E b \in DOMAIN insertOrder : at' <= b /\ insertOrder[b] = t
        BY <1>2, <1>4, <2>1
      <4>2. QED
        BY <1>1, <2>1, <4>1 DEF ToWire
    <3>2. LeftEmpty(c) => LeftEmpty(c)'
      <4>1. c[1] \in GenTable
        BY <2>5 DEF GenerateTyped, GenTable
      <4>2. PoolCap \in Nat
        BY GenerateAssumption
      <4>3. stored[c[1]] > PoolCap => stored'[c[1]] > PoolCap
        BY <2>3, <4>1, <4>2
      <4>4. Excused(fks[c[1]][c[2]]) => Excused(fks[c[1]][c[2]])'
        BY <1>1, ExcusesStay
      <4>5. QED
        BY <1>1, <4>3, <4>4 DEF LeftEmpty
    <3>3. CASE c \in nullFk
      <4>1. LeftEmpty(c) \/ c[2] \in deferredFk[c[1]]
        BY <1>1, <3>3 DEF GenerateInv, EmptiesExcused
      <4>2. c[1] \in GenTable
        BY <1>5, <3>3 DEF GenerateTyped
      <4>3. QED
        BY <3>1, <3>2, <4>1, <4>2
    <3>4. CASE \E i \in deferredFk[Filling] : c = <<Filling, i>>
      BY <1>2, <3>1, <3>4
    <3>5. CASE \E i \in Pointing(Filling) : c = <<Filling, i>> /\ ~pools[fks[Filling][i]]
      <4>1. PICK i \in Pointing(Filling) : c = <<Filling, i>> /\ ~pools[fks[Filling][i]]
        BY <3>5
      <4>2. fks[Filling][i] \in DOMAIN pools
        BY <1>1, <4>1 DEF GenerateInv, PlanInForce
      <4>3. Excused(fks[Filling][i])
        BY <1>1, <4>1, <4>2 DEF GenerateInv, PoolsFound
      <4>4. LeftEmpty(c)
        BY <4>1, <4>3 DEF LeftEmpty
      <4>5. QED
        BY <3>2, <4>4
    <3>6. QED
      BY <2>4, <3>3, <3>4, <3>5
  <2>10. QED
    BY <2>5, <2>6, <2>7, <2>8, <2>9 DEF GenerateInv
<1>7. CASE /\ failedIn' = failedIn \cup {Filling}
           /\ LeaveTable(cancelled' /\ at = Len(insertOrder))
           /\ UNCHANGED <<stored, nullFk, produced>>
  <2>1. /\ at' \in DOMAIN insertOrder
        /\ stage' \in {"done", "wire", "table"}
    BY <1>1, <1>7, LeavingTable
  <2>2. failedIn' # {} /\ failedIn' \subseteq GenTable \cup {0}
    BY <1>2, <1>5, <1>7 DEF GenerateTyped
  <2>3. GenerateTyped'
    BY <1>1, <1>5, <1>7, <2>1, <2>2 DEF GenerateTyped, GenTable
  <2>4. PlanInForce'
    BY <1>1, <1>3, <2>1 DEF PlanInForce
  <2>5. FilledSoFar' /\ PoolsFound' /\ EmptiesExcused'
    BY <2>2 DEF FilledSoFar, PoolsFound, EmptiesExcused
  <2>6. QED
    BY <2>3, <2>4, <2>5 DEF GenerateInv
<1>8. QED
  BY <1>6, <1>7 DEF InsertChunk

LEMMA WireKeeps == GenerateInv /\ WireTable => GenerateInv'
<1> SUFFICES ASSUME GenerateInv, WireTable PROVE GenerateInv'
  OBVIOUS
<1>1. /\ stage = "wire"
      /\ UNCHANGED <<fks, keyed, original, stored, insertOrder, deferredFk, pools, cancelled>>
  BY DEF WireTable, schemaVars, planVars
<1>2. /\ PlanSound(insertOrder, deferredFk) /\ at \in DOMAIN insertOrder /\ at \in Nat
      /\ Filling \in GenTable /\ fks[Filling] \in Seq(GenTable) /\ Filling = insertOrder[at]
      /\ deferredFk[Filling] \subseteq DOMAIN fks[Filling]
      /\ DOMAIN insertOrder = 1..Len(insertOrder) /\ Len(insertOrder) \in Nat
  BY <1>1, FillingFacts DEF Filling
<1>3. PlanSound(insertOrder, deferredFk)'
  BY <1>1, <1>2 DEF PlanSound, GenTable
<1>4. GenerateTyped
  BY DEF GenerateInv
<1>5. CASE \E failed \in SUBSET {fks[Filling][i] : i \in deferredFk[Filling]} :
             LET wired == {<<Filling, i>> : i \in {j \in deferredFk[Filling] : Wired(Filling, j, failed)}}
             IN  /\ unread' = unread \cup failed
                 /\ nullFk' = IF stored[Filling] <= PoolCap THEN nullFk \ wired ELSE nullFk
                 /\ IF at = Len(insertOrder) THEN stage' = "done" /\ at' = at ELSE stage' = stage /\ at' = at + 1
                 /\ UNCHANGED failedIn
  <2>1. PICK failed \in SUBSET {fks[Filling][i] : i \in deferredFk[Filling]} :
             LET wired == {<<Filling, i>> : i \in {j \in deferredFk[Filling] : Wired(Filling, j, failed)}}
             IN  /\ unread' = unread \cup failed
                 /\ nullFk' = IF stored[Filling] <= PoolCap THEN nullFk \ wired ELSE nullFk
                 /\ IF at = Len(insertOrder) THEN stage' = "done" /\ at' = at ELSE stage' = stage /\ at' = at + 1
                 /\ UNCHANGED failedIn
    BY <1>5
  <2>2. at' \in DOMAIN insertOrder /\ stage' \in {"wire", "done"} /\ (stage' = "done" => at = Len(insertOrder))
    BY <1>1, <1>2, <2>1
  <2>3. nullFk' \subseteq nullFk
    BY <2>1
  <2>4. GenerateTyped'
    BY <1>1, <1>4, <2>1, <2>2, <2>3 DEF GenerateTyped, GenTable
  <2>5. PlanInForce'
    BY <1>3, <1>1, <2>2 DEF PlanInForce
  <2>6. FilledSoFar' /\ PoolsFound'
    BY <1>1, <2>1, <2>2 DEF GenerateInv, FilledSoFar, PoolsFound, GenTable
  <2>7. EmptiesExcused'
    <3> SUFFICES ASSUME failedIn = {}, ~cancelled, NEW c \in nullFk'
                 PROVE  LeftEmpty(c)' \/ (c[2] \in deferredFk[c[1]] /\ ToWire(c[1])')
      BY <1>1, <2>1 DEF EmptiesExcused
    <3> DEFINE p == fks[c[1]][c[2]]
    <3>1. /\ c \in nullFk /\ c = <<c[1], c[2]>> /\ c[1] \in GenTable /\ c[2] \in DOMAIN fks[c[1]]
          /\ stored[c[1]] > 0
      BY <1>4, <2>3 DEF GenerateTyped
    <3>2. LeftEmpty(c) \/ (c[2] \in deferredFk[c[1]] /\ ToWire(c[1]))
      BY <1>1, <3>1 DEF GenerateInv, EmptiesExcused
    <3>3. LeftEmpty(c) => LeftEmpty(c)'
      BY <1>1, <2>1, ExcusesStay DEF LeftEmpty
    <3>4. ASSUME c[2] \in deferredFk[c[1]], ToWire(c[1]), ~ToWire(c[1])' PROVE LeftEmpty(c)'
      <4>1. c[1] = Filling
        <5>1. PICK b \in DOMAIN insertOrder : at <= b /\ insertOrder[b] = c[1]
          BY <1>1, <3>4 DEF ToWire
        <5>2. b = at
          BY <1>1, <1>2, <2>1, <3>4, <5>1 DEF ToWire
        <5>3. QED
          BY <1>2, <5>1, <5>2
      <4>2. CASE c[1] \notin keyed \/ stored[c[1]] > PoolCap
        BY <1>1, <3>4, <4>2 DEF LeftEmpty
      <4>3. CASE c[1] \in keyed /\ ~(stored[c[1]] > PoolCap)
        <5>1. stored[Filling] <= PoolCap
          BY <1>2, <1>4, <4>1, <4>3, GenerateAssumption DEF GenerateTyped
        <5>2. ~Wired(Filling, c[2], failed)
          BY <2>1, <3>1, <3>4, <4>1, <5>1
        <5>3. p \in GenTable
          BY <1>2, <3>1, <4>1
        <5>4. stored[p] > 0
          BY <1>1, <5>3 DEF GenerateInv, FilledSoFar
        <5>5. Keys(Filling) > 0 /\ Keys(p) > 0
          BY <1>2, <1>4, <3>1, <4>1, <5>3, <5>4, KeysWhereRows DEF GenerateTyped
        <5>6. p \in failed
          BY <4>1, <4>3, <5>2, <5>5 DEF Wired, HasKeys
        <5>7. Excused(p)'
          BY <1>1, <2>1, <5>6 DEF Excused
        <5>8. QED
          BY <1>1, <5>7 DEF LeftEmpty, Excused, Twice
      <4>4. QED
        BY <4>2, <4>3
    <3>5. QED
      BY <3>2, <3>3, <3>4
  <2>8. QED
    BY <2>4, <2>5, <2>6, <2>7 DEF GenerateInv
<1>6. CASE failedIn' = failedIn \cup {0} /\ stage' = "done" /\ UNCHANGED <<unread, nullFk, at>>
  <2>1. failedIn' # {} /\ failedIn' \subseteq GenTable \cup {0}
    BY <1>4, <1>6 DEF GenerateTyped
  <2>2. GenerateTyped'
    BY <1>1, <1>4, <1>6, <2>1 DEF GenerateTyped, GenTable
  <2>3. PlanInForce'
    BY <1>3, <1>6 DEF PlanInForce
  <2>4. FilledSoFar' /\ PoolsFound' /\ EmptiesExcused'
    BY <2>1 DEF FilledSoFar, PoolsFound, EmptiesExcused
  <2>5. QED
    BY <2>2, <2>3, <2>4 DEF GenerateInv
<1>7. QED
  BY <1>5, <1>6 DEF WireTable

LEMMA GenerateStep == GenerateInv /\ [GenerateNext]_generateVars => GenerateInv'
<1> SUFFICES ASSUME GenerateInv, [GenerateNext]_generateVars PROVE GenerateInv'
  OBVIOUS
<1>1. CASE UNCHANGED generateVars
  <2>1. UNCHANGED <<fks, keyed, original, stored, stage, insertOrder, deferredFk, at, pools, cancelled,
                    failedIn, nullFk, unread>>
    BY <1>1 DEF generateVars, schemaVars, planVars
  <2>2. GenerateTyped' /\ FilledSoFar'
    BY <2>1 DEF GenerateInv, GenerateTyped, FilledSoFar, GenTable
  <2>3. PlanInForce'
    <3>1. PlanSound(insertOrder, deferredFk) => PlanSound(insertOrder, deferredFk)'
      BY <2>1 DEF PlanSound, GenTable
    <3>2. Pointing(Filling)' = Pointing(Filling) /\ Filling' = Filling
      BY <2>1 DEF Pointing, Filling
    <3>3. QED
      BY <2>1, <3>1, <3>2 DEF GenerateInv, PlanInForce, GenTable
  <2>4. PoolsFound'
    BY <2>1, ExcusesStay DEF GenerateInv, PoolsFound
  <2>5. EmptiesExcused'
    <3>1. \A c : LeftEmpty(c) => LeftEmpty(c)'
      BY <2>1, ExcusesStay DEF LeftEmpty
    <3>2. \A t : ToWire(t) <=> ToWire(t)'
      BY <2>1 DEF ToWire
    <3>3. QED
      BY <2>1, <3>1, <3>2 DEF GenerateInv, EmptiesExcused
  <2>6. QED
    BY <2>2, <2>3, <2>4, <2>5 DEF GenerateInv
<1>2. CASE GenerateNext
  BY <1>2, RunKeeps, CancelKeeps, BeginKeeps, ChunkKeeps, WireKeeps DEF GenerateNext
<1>3. QED
  BY <1>1, <1>2

LEMMA GenerateInvariance == GenerateSpec => []GenerateInv
BY GenerateStarts, GenerateStep, PTL DEF GenerateSpec

LEMMA PlanIsWhole == GenerateInv => OrderIsWhole /\ GenerateTypeOK
<1> SUFFICES ASSUME GenerateInv PROVE OrderIsWhole /\ GenerateTypeOK
  OBVIOUS
<1>1. OrderIsWhole
  BY DEF GenerateInv, PlanInForce, PlanSound, EachOnce, OrderIsWhole, IsInjective, Twice, Pointing
<1>2. \A t \in GenTable : deferredFk[t] \subseteq DOMAIN fks[t]
  BY DEF GenerateInv, PlanInForce, PlanSound
<1>3. GenerateTypeOK
  BY <1>2 DEF GenerateInv, GenerateTyped, GenerateTypeOK
<1>4. QED
  BY <1>1, <1>3

\* A run that reports no error leaves no foreign key of its rows empty, but those it is excused
\* for: "FK columns draw from the parent's key pool; self-ref / cycle FK columns are wired in a
\* final UPDATE pass" (application.rs).
THEOREM EveryForeignKeyFilled == GenerateSpec => []ForeignKeysAreFilled
<1>1. GenerateInv => ForeignKeysAreFilled
  <2> SUFFICES ASSUME GenerateInv, stage = "done", ~cancelled, failedIn = {}, NEW c \in nullFk
               PROVE  LeftEmpty(c)
    BY DEF ForeignKeysAreFilled, LeftEmpty, Excused
  <2>1. ~ToWire(c[1])
    BY DEF ToWire
  <2>2. QED
    BY <2>1 DEF GenerateInv, EmptiesExcused
<1>2. QED
  BY <1>1, GenerateInvariance, PTL

-----------------------------------------------------------------------------
(* The three together.                                                       *)

\* Whichever of the three is driven, each keeps its own state well formed, and a generation's
\* plan has every table once and after those it takes keys from ("all tables ordered",
\* planner.rs), for any schema.
THEOREM ConnectionsRunIsWellFormed == ConnectionsSpec => []WellFormed
<1>1. ConnectionsInit => IInv /\ RegistryInv /\ GenerateInv
  BY InitInvariant, RegistryStarts, GenerateStarts DEF ConnectionsInit
<1>2. IInv /\ RegistryInv /\ GenerateInv /\ [ConnectionsNext]_connectionsVars
        => IInv' /\ RegistryInv' /\ GenerateInv'
  <2> SUFFICES ASSUME IInv, RegistryInv, GenerateInv, [ConnectionsNext]_connectionsVars
               PROVE  IInv' /\ RegistryInv' /\ GenerateInv'
    OBVIOUS
  <2>1. [Next]_vars /\ [RegistryNext]_registryVars /\ [GenerateNext]_generateVars
    BY DEF ConnectionsNext, connectionsVars
  <2>2. QED
    BY <2>1, NextInvariant, RegistryStep, GenerateStep
<1>3. IInv /\ RegistryInv /\ GenerateInv => WellFormed
  BY PlanIsWhole DEF IInv, RegistryInv, WellFormed
<1>4. QED
  BY <1>1, <1>2, <1>3, PTL DEF ConnectionsSpec
================================================================================
