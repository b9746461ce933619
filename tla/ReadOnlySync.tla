---------------------------- MODULE ReadOnlySync ----------------------------
(***************************************************************************)
(* useHandleReadOnlySync, composed with the workspaces it follows.         *)
(*                                                                         *)
(* Read-only is a property of a workspace, but the backend enforces it per *)
(* handle, and workspaces share handles.  This hook is the only writer of  *)
(* the backend's mode: whenever the active workspace, its flag or its      *)
(* handle has changed, an effect pushes the active workspace's mode, unless*)
(* it believes the backend has it already.  A push is an IPC call: the     *)
(* backend may serve calls in any order, and the answer to a call whose    *)
(* effect has been superseded is not recorded.                             *)
(***************************************************************************)
EXTENDS Workspaces

CONSTANTS
  Call,    \* bound: IPC calls of the hook in flight at a time
  NoCall

ASSUME CallAssumption == NoCall \notin Call

VARIABLES
  deps,       \* the handle and flag the effect last ran for
  pushed,     \* what the hook believes each handle's mode to be
  calls,      \* set_read_only calls in flight
  live,       \* the call whose answer will be recorded
  superseded  \* history: handles with a call abandoned since the last one sent alone

hook == <<deps, pushed, calls, live, superseded>>
vars == <<store, hook>>

-----------------------------------------------------------------------------
NoDeps == [handle |-> NoHandle, readOnly |-> FALSE]

\* What the effect depends on: the active workspace's handle and flag.
Deps ==
  IF \E i \in DOMAIN rail : rail[i].id = active
  THEN LET w == rail[CHOOSE i \in DOMAIN rail : rail[i].id = active]
       IN  [handle |-> w.handle, readOnly |-> w.readOnly]
  ELSE NoDeps

Idle == [handle |-> NoHandle, mode |-> "none", stage |-> "idle"]

Sent(d) == [handle |-> d.handle, mode |-> Mode(d.readOnly), stage |-> "sent"]

InFlight(h) == {c \in Call : calls[c].handle = h}

SyncTypeOK ==
  /\ TypeOK
  /\ deps \in [handle : Handle \cup {NoHandle}, readOnly : BOOLEAN]
  /\ pushed \in [Handle -> {"none", "locked", "writable"}]
  /\ calls \in [Call -> {Idle} \cup [handle : Handle, mode : {"locked", "writable"},
                                     stage : {"sent", "applied", "refused"}]]
  /\ live \in Call \cup {NoCall}
  /\ superseded \subseteq Handle

SyncInit ==
  /\ Init
  /\ deps = NoDeps
  /\ pushed = [h \in Handle |-> "none"]
  /\ calls = [c \in Call |-> Idle]
  /\ live = NoCall
  /\ superseded = {}

-----------------------------------------------------------------------------
\* The handle whose call a rerun of the effect abandons.
Abandoned == IF live = NoCall THEN {} ELSE {calls[live].handle}

\* A call with no other one for its handle in flight cannot be reordered.
AloneFor(h) == IF InFlight(h) = {} THEN {h} ELSE {}

\* Bug variant: the effect depends on the flag alone.
FlagChanged == Deps.readOnly # deps.readOnly

\* The effect's dependencies have changed since it last ran.
Changed == Deps # deps

\* The early returns: no workspace, or the hook believes the handle has the mode.
Known(d) == d.handle = NoHandle \/ pushed[d.handle] = Mode(d.readOnly)

\* The effect reruns when its dependencies have changed: the cleanup makes the
\* previous call's answer unwelcome, then the new mode is pushed unless the hook
\* believes the handle has it.
Effect ==
  /\ Changed
  /\ deps' = Deps
  /\ IF Known(Deps)
     THEN /\ live' = NoCall /\ calls' = calls
          /\ superseded' = superseded \cup Abandoned
     ELSE \E c \in Call :
            /\ calls[c] = Idle
            /\ calls' = [calls EXCEPT ![c] = Sent(Deps)]
            /\ live' = c
            /\ superseded' = (superseded \cup Abandoned) \ AloneFor(Deps.handle)
  /\ UNCHANGED <<store, pushed>>

\* connection_set_read_only reaches the backend; a closed handle is refused.
Apply(c) ==
  /\ calls[c].stage = "sent"
  /\ LET h == calls[c].handle
     IN  IF backend[h] = "closed"
         THEN /\ calls' = [calls EXCEPT ![c].stage = "refused"]
              /\ backend' = backend
         ELSE /\ calls' = [calls EXCEPT ![c].stage = "applied"]
              /\ backend' = [backend EXCEPT ![h] = calls[c].mode]
  /\ UNCHANGED <<rail, active, opens, reopens, adopted, deps, pushed, live, superseded>>

\* The answer arrives, and is recorded only for the call of the current effect.
Answer(c) ==
  /\ calls[c].stage \in {"applied", "refused"}
  /\ calls' = [calls EXCEPT ![c] = Idle]
  /\ IF live = c
     THEN /\ live' = NoCall
          /\ pushed' = IF calls[c].stage = "applied"
                       THEN [pushed EXCEPT ![calls[c].handle] = calls[c].mode] ELSE pushed
     ELSE UNCHANGED <<live, pushed>>
  /\ UNCHANGED <<store, deps, superseded>>

-----------------------------------------------------------------------------
SyncNext ==
  \/ StoreNext /\ UNCHANGED hook
  \/ Effect
  \/ \E c \in Call : Apply(c) \/ Answer(c)

SyncSpec == SyncInit /\ [][SyncNext]_vars

-----------------------------------------------------------------------------
(* Properties.                                                             *)

\* The hook has caught up with the store and all its calls are answered.
Quiet == ~Changed /\ \A c \in Call : calls[c] = Idle

\* Once all calls are answered, the active workspace's handle carries its mode, and
\* the hook knows it, however workspaces sharing or switching handles were opened,
\* locked and closed: unless a call for the handle was abandoned in flight and no
\* later one found the line free.
ModeSettles ==
  Quiet /\ Deps.handle # NoHandle /\ Deps.handle \notin superseded =>
    /\ backend[Deps.handle] = Mode(Deps.readOnly)
    /\ pushed[Deps.handle] = Mode(Deps.readOnly)

\* "The handle therefore carries the ACTIVE workspace's mode". Leaving a workspace
\* and coming back while the first push is in flight abandons its answer but not
\* its effect: the hook, believing nothing has changed, pushes nothing.
HandleCarriesActiveMode ==
  Quiet /\ Deps.handle # NoHandle => backend[Deps.handle] = Mode(Deps.readOnly)
=============================================================================
