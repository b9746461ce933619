---------------------------- MODULE SessionPromise ----------------------------
(***************************************************************************)
(* What Settings > Behavior > "Restore tabs" promises, one saved           *)
(* connection at a time: a save keeps what the connection shows at that    *)
(* moment, turning the setting off forgets it, and nothing else touches    *)
(* what is kept. Sessions implements it with a snapshot and a timer.       *)
(***************************************************************************)
CONSTANTS Conn, Nothing, Kept(_)    \* Kept(u): the part of a UI worth keeping

VARIABLES on, shown, kept

vars == <<on, shown, kept>>

Init == on \in BOOLEAN /\ shown = [c \in Conn |-> Nothing] /\ kept = [c \in Conn |-> Nothing]

\* Connections open and close, their tabs change, the application dies.
Show == UNCHANGED <<on, kept>>

\* A connection that shows nothing keeps what it had, or is the oldest and dropped.
Save ==
  /\ on
  /\ kept' \in [Conn -> {Nothing} \cup {kept[c] : c \in Conn} \cup {Kept(shown[c]) : c \in Conn}]
  /\ \A c \in Conn :
       IF shown[c] # Nothing THEN kept'[c] = Kept(shown[c]) ELSE kept'[c] \in {kept[c], Nothing}
  /\ UNCHANGED on

\* A window that closes saves first.
Quit == Save /\ shown' = [c \in Conn |-> Nothing]

TurnOff == on /\ on' = FALSE /\ kept' = [c \in Conn |-> Nothing] /\ UNCHANGED shown

TurnOn == ~on /\ on' = TRUE /\ UNCHANGED <<shown, kept>>

Next == Show \/ (Save /\ UNCHANGED shown) \/ Quit \/ TurnOff \/ TurnOn

Spec == Init /\ [][Next]_vars
=============================================================================
