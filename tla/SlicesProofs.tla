----------------------------- MODULE SlicesProofs -----------------------------
(***************************************************************************)
(* Proofs about the comparison of two schemas, for any connections and     *)
(* schemas and any number of handles and reads, and about the folder that  *)
(* scheduled reports share, for any schedules and files found there.       *)
(*                                                                         *)
(* The pane speaks of the cards, and what will fill it of the reads in     *)
(* flight, so DiffInv ties the two: while the pane is busy every read the  *)
(* run waits for is in flight, and no read counts for a run that is gone.  *)
(* What is released is a set of handles, so each is held once.             *)
(*                                                                         *)
(* A report is pruned for its age, so FilesInv ties the times of files to  *)
(* the order of writing: a report that is gone was followed by as many of  *)
(* its schedule's as are kept, whatever else is in the folder.             *)
(*                                                                         *)
(* A plan is a script of five kinds of statement for each table, between   *)
(* the tables created and those dropped. Each family of statements is run  *)
(* as a fold over names in order, and an instance of SequenceFacts says    *)
(* what is left once those below a name have been run; PlanRun joins the   *)
(* families into what a whole plan makes of a target, and PlanInv says     *)
(* what is known of the target between two comparisons.                    *)
(***************************************************************************)
EXTENDS MCSlices, SequenceFacts

-----------------------------------------------------------------------------
SideCard == [conn : Conn \cup {Nothing}, schema : SchemaName \cup {Nothing}]
ReadOf == [key : Key, mine : BOOLEAN]
RunOf == [pair : Pairs, needs : SUBSET Key]

\* The pane is busy exactly while a run is at work, and the reads that count are those it needs.
AtWork ==
  /\ ~busy => run = NoRun
  /\ busy => /\ run \in RunOf
             /\ run.pair = side
             /\ \A k \in run.needs : [key |-> k, mine |-> TRUE] \in reads
  /\ \A r \in reads : r.mine => busy /\ r.key \in run.needs
  /\ ~mounted => ~busy /\ \A c \in Conn : handles[c] = Nothing

\* No handle is held twice, and what is still opening has none of its own to lose.
HandlesApart ==
  /\ \A c, d \in Conn :
       lent[c] # Nothing /\ lent[d] # Nothing /\ lent[c].id = lent[d].id => c = d
  /\ \A c \in opening : handles[c] # Nothing => ~handles[c].owned
  /\ \A c, d \in Conn :
       handles[c] # Nothing /\ handles[d] # Nothing /\ handles[c].owned /\ handles[d].owned
         /\ handles[c].id = handles[d].id => c = d

DiffInv == DiffTypeOK /\ AtWork /\ HandlesApart /\ HandlesReleased /\ PaneIsOfThePair

-----------------------------------------------------------------------------
\* A pair that can be compared is a pair of keys.
LEMMA ReadyIsAPair ==
  ASSUME NEW s \in [Card -> SideCard], Ready(s)
  PROVE  s \in Pairs
  BY DEF Ready, Pairs

\* The effect of the pair starts a run for it and forgets every other.
LEMMA CompareEffect ==
  ASSUME NEW s \in [Card -> SideCard], reads \subseteq ReadOf, Compare(s)
  PROVE  /\ reads' \subseteq ReadOf
         /\ Ready(s) => /\ busy' = TRUE
                        /\ run' \in RunOf
                        /\ run'.pair = s
                        /\ \A k \in run'.needs : [key |-> k, mine |-> TRUE] \in reads'
         /\ ~Ready(s) => busy' = FALSE /\ run' = NoRun
         /\ \A r \in reads' : r.mine => Ready(s) /\ r.key \in run'.needs
<1> DEFINE missing == {s[x] : x \in Card} \ snapshots
           abandoned == {[r EXCEPT !.mine = FALSE] : r \in reads}
<1>1. \A r \in abandoned : r \in ReadOf /\ ~r.mine
  BY DEF ReadOf
<1>2. CASE Ready(s)
  <2>1. missing \subseteq Key
    BY <1>2 DEF Ready
  <2>2. run' = [pair |-> s, needs |-> missing] /\ busy' = TRUE
        /\ reads' = abandoned \cup {[key |-> k, mine |-> TRUE] : k \in missing}
    BY <1>2 DEF Compare
  <2>3. run' \in RunOf /\ run'.pair = s /\ run'.needs = missing
    BY <2>1, <2>2, <1>2, ReadyIsAPair DEF RunOf
  <2> HIDE DEF missing, abandoned
  <2>4. \A k \in missing : [key |-> k, mine |-> TRUE] \in reads'
    BY <2>2
  <2>5. ASSUME NEW r \in reads'
        PROVE  r \in ReadOf /\ (r.mine => r.key \in missing)
    <3>1. CASE r \in abandoned
      BY <3>1, <1>1
    <3>2. ASSUME NEW k \in missing, r = [key |-> k, mine |-> TRUE]
          PROVE  r \in ReadOf /\ r.key \in missing
      BY <3>2, <2>1 DEF ReadOf
    <3> QED  BY <3>1, <3>2, <2>2
  <2> QED  BY <1>2, <2>2, <2>3, <2>4, <2>5
<1>3. CASE ~Ready(s)
  <2>1. run' = NoRun /\ busy' = FALSE /\ reads' = abandoned
    BY <1>3 DEF Compare
  <2> QED  BY <1>1, <1>3, <2>1
<1> QED  BY <1>2, <1>3

\* What acquiring handles adds is lent, and leaves those that are known alone.
LEMMA AcquiredEffect ==
  ASSUME DiffTypeOK, NEW s \in [Card -> SideCard], NEW rerun \in SUBSET Card
  PROVE  /\ Acquired(s, rerun) \in [Conn -> Handle \cup {Nothing}]
         /\ \A c \in Conn :
              \/ Acquired(s, rerun)[c] = handles[c]
              \/ /\ handles[c] = Nothing
                 /\ Acquired(s, rerun)[c] \in Handle
                 /\ ~Acquired(s, rerun)[c].owned
<1>1. \A c \in Conn : lent[c] # Nothing =>
         Lends(c) \in Handle /\ ~Lends(c).owned
  BY DEF DiffTypeOK, Lends, Handle, Loan
<1> QED  BY <1>1 DEF Acquired, DiffTypeOK

\* The cards stay cards, and a card that is still unresolved has no handle.
LEMMA ResolvedEffect ==
  ASSUME NEW s \in [Card -> SideCard], NEW rerun \in SUBSET Card,
         NEW hs \in [Conn -> Handle \cup {Nothing}]
  PROVE  /\ Resolved(s, rerun, hs) \in [Card -> SideCard]
         /\ \A x \in rerun : Unresolved(Resolved(s, rerun, hs), x) =>
              /\ Resolved(s, rerun, hs)[x].conn \in Conn
              /\ hs[Resolved(s, rerun, hs)[x].conn] = Nothing
<1> DEFINE t == Resolved(s, rerun, hs)
<1>1. ASSUME NEW x \in Card
      PROVE  /\ t[x] \in SideCard
             /\ x \in rerun /\ Unresolved(t, x) => t[x].conn \in Conn /\ hs[t[x].conn] = Nothing
  <2>1. s[x] \in SideCard /\ (s[x].conn # Nothing => s[x].conn \in Conn)
    BY DEF SideCard
  <2>2. CASE x \in rerun /\ Unresolved(s, x) /\ hs[s[x].conn] # Nothing
    <3>1. hs[s[x].conn] \in Handle
      BY <2>1, <2>2 DEF Unresolved
    <3>2. hs[s[x].conn].schema \in SchemaName
      BY <3>1 DEF Handle
    <3>3. t[x] = [s[x] EXCEPT !.schema = hs[s[x].conn].schema]
      BY <2>2 DEF Resolved
    <3>4. t[x] \in SideCard /\ t[x].schema \in SchemaName
      BY <2>1, <3>2, <3>3 DEF SideCard
    <3> QED  BY <3>4, DiffAssumption DEF Unresolved
  <2>3. CASE ~(x \in rerun /\ Unresolved(s, x) /\ hs[s[x].conn] # Nothing)
    <3>1. t[x] = s[x]
      BY <2>3 DEF Resolved
    <3> QED  BY <2>1, <2>3, <3>1 DEF Unresolved
  <2> QED  BY <2>2, <2>3
<1>2. t = [x \in Card |-> t[x]]
  BY DEF Resolved
<1> HIDE DEF t
<1>3. t \in [Card -> SideCard]
  BY <1>1, <1>2
<1> QED  BY <1>1, <1>3 DEF t

-----------------------------------------------------------------------------
\* Every effect of the cards keeps the invariant.
LEMMA EffectsKeep ==
  ASSUME DiffInv, mounted, error' = Nothing, UNCHANGED <<lent, connected, minted, snapshots, mounted>>,
         NEW s \in [Card -> SideCard], NEW rerun \in SUBSET Card,
         rerun = {} => s = side /\ ~Ready(s),
         Effects(s, rerun)
  PROVE  DiffInv'
<1> DEFINE hs == Acquired(s, rerun)
           t == Resolved(s, rerun, hs)
           asks == {x \in rerun : Unresolved(t, x)}
<1>1. /\ hs \in [Conn -> Handle \cup {Nothing}]
      /\ \A c \in Conn : \/ hs[c] = handles[c]
                         \/ handles[c] = Nothing /\ hs[c] \in Handle /\ ~hs[c].owned
  BY AcquiredEffect DEF DiffInv
<1>2. t \in [Card -> SideCard] /\ \A x \in asks : t[x].conn \in Conn /\ hs[t[x].conn] = Nothing
  BY <1>1, ResolvedEffect
<1>3. rerun = {} => t = side
  BY DEF Resolved, DiffInv, DiffTypeOK, SideCard
<1>4. /\ handles' = hs /\ side' = t /\ waiting' = (waiting \ rerun) \cup asks
      /\ opening' = opening \cup {t[x].conn : x \in asks}
      /\ rerun = {} => UNCHANGED <<run, reads, busy, shown>>
      /\ rerun # {} => Compare(t) /\ shown' = IF Ready(s) /\ Ready(t) THEN shown ELSE Nothing
  BY DEF Effects
<1>5. asks \subseteq Card
  OBVIOUS
<1> HIDE DEF hs, t, asks
<1>6. reads \subseteq ReadOf
  BY DEF DiffInv, DiffTypeOK, ReadOf
<1>7. rerun # {} =>
        /\ reads' \subseteq ReadOf
        /\ Ready(t) => /\ busy' = TRUE
                       /\ run' \in RunOf
                       /\ run'.pair = t
                       /\ \A k \in run'.needs : [key |-> k, mine |-> TRUE] \in reads'
        /\ ~Ready(t) => busy' = FALSE /\ run' = NoRun
        /\ \A r \in reads' : r.mine => Ready(t) /\ r.key \in run'.needs
  BY <1>2, <1>4, <1>6, CompareEffect
<1>8. DiffTypeOK'
  <2>1. side' \in [Card -> SideCard] /\ handles' \in [Conn -> Handle \cup {Nothing}]
        /\ waiting' \subseteq Card /\ opening' \subseteq Conn
    BY <1>1, <1>2, <1>4, <1>5 DEF DiffInv, DiffTypeOK
  <2>2. busy' \in BOOLEAN /\ reads' \subseteq ReadOf /\ (run' = NoRun \/ run' \in RunOf)
        /\ shown' \in Pairs \cup {Nothing}
    BY <1>4, <1>6, <1>7 DEF DiffInv, DiffTypeOK, RunOf
  <2> QED  BY <2>1, <2>2 DEF DiffInv, DiffTypeOK, SideCard, ReadOf, RunOf
<1>9. AtWork'
  <2>1. CASE rerun = {}
    BY <2>1, <1>3, <1>4 DEF DiffInv, AtWork
  <2>2. CASE rerun # {}
    BY <2>2, <1>4, <1>7 DEF DiffInv, AtWork
  <2> QED  BY <2>1, <2>2
<1>10. HandlesApart'
  <2>1. \A c \in opening' : hs[c] # Nothing => ~hs[c].owned
    BY <1>1, <1>2, <1>4 DEF DiffInv, HandlesApart, DiffTypeOK
  <2> QED  BY <2>1, <1>1, <1>4 DEF DiffInv, HandlesApart
<1>11. HandlesReleased'
  <2>1. Owned' = Owned
    BY <1>1, <1>4 DEF Owned
  <2> QED  BY <2>1 DEF DiffInv, HandlesReleased, Lent
<1>12. PaneIsOfThePair'
  <2>1. CASE rerun = {}
    BY <2>1, <1>3, <1>4 DEF DiffInv, PaneIsOfThePair
  <2>2. CASE rerun # {}
    BY <2>2, <1>4, <1>7 DEF PaneIsOfThePair
  <2> QED  BY <2>1, <2>2
<1> QED  BY <1>8, <1>9, <1>10, <1>11, <1>12 DEF DiffInv

-----------------------------------------------------------------------------
\* The comparison begins with nothing on its cards.
LEMMA DiffStarts == DiffInit => DiffInv
<1> SUFFICES ASSUME DiffInit PROVE DiffInv
  OBVIOUS
<1>1. DiffTypeOK
  <2>1. side \in [Card -> [conn : Conn \cup {Nothing}, schema : SchemaName \cup {Nothing}]]
    BY DEF DiffInit, Empty
  <2>2. minted \in 0..MaxHandles /\ connected \subseteq 1..minted
    BY DiffAssumption DEF DiffInit
  <2> QED  BY <2>1, <2>2 DEF DiffInit, DiffTypeOK
<1>2. AtWork /\ HandlesApart
  BY DEF DiffInit, AtWork, HandlesApart
<1>3. Lent = {} /\ Owned = {}
  BY DEF DiffInit, Lent, Owned
<1>4. HandlesReleased
  BY <1>3 DEF DiffInit, HandlesReleased
<1>5. PaneIsOfThePair
  BY DiffAssumption DEF DiffInit, PaneIsOfThePair, Ready, Empty, Key, Card
<1> QED  BY <1>1, <1>2, <1>4, <1>5 DEF DiffInv

\* Picking a connection or a schema, swapping and retrying are effects of the cards.
LEMMA CardsKeep ==
  DiffInv /\ (PickConnection \/ PickSchema \/ Swap \/ Retry) => DiffInv'
<1> SUFFICES ASSUME DiffInv, PickConnection \/ PickSchema \/ Swap \/ Retry
             PROVE  DiffInv'
  OBVIOUS
<1>1. side \in [Card -> SideCard]
  BY DEF DiffInv, DiffTypeOK, SideCard
<1>2. CASE PickConnection
  <2>1. PICK x \in Card, c \in Conn :
          /\ mounted /\ error' = Nothing
          /\ Effects([side EXCEPT ![x] = [conn |-> c, schema |-> Nothing]], {x})
          /\ UNCHANGED <<lent, connected, minted, snapshots, mounted>>
    BY <1>2 DEF PickConnection
  <2>2. [side EXCEPT ![x] = [conn |-> c, schema |-> Nothing]] \in [Card -> SideCard]
    BY <1>1 DEF SideCard
  <2>3. {x} \in SUBSET Card /\ {x} # {}
    OBVIOUS
  <2> HIDE DEF DiffInv
  <2> QED  BY <2>1, <2>2, <2>3, EffectsKeep
<1>3. CASE PickSchema
  <2>1. PICK x \in Card, n \in SchemaName :
          /\ mounted /\ error' = Nothing
          /\ Effects([side EXCEPT ![x].schema = n], {x})
          /\ UNCHANGED <<lent, connected, minted, snapshots, mounted>>
    BY <1>3 DEF PickSchema
  <2>2. [side EXCEPT ![x].schema = n] \in [Card -> SideCard]
    BY <1>1 DEF SideCard
  <2>3. {x} \in SUBSET Card /\ {x} # {}
    OBVIOUS
  <2> QED  BY <2>1, <2>2, <2>3, EffectsKeep
<1>4. CASE Swap
  <2> DEFINE s == [x \in Card |-> side[Other(x)]]
             rerun == {x \in Card : s[x] # side[x]}
  <2>1. /\ mounted /\ error' = Nothing /\ Effects(s, rerun)
        /\ UNCHANGED <<lent, connected, minted, snapshots, mounted>>
    BY <1>4 DEF Swap
  <2>2. s \in [Card -> SideCard] /\ rerun \in SUBSET Card
    BY <1>1 DEF Card, Other
  <2>3. rerun = {} => s = side /\ s["src"] = s["tgt"]
    BY <1>1 DEF Card, Other
  <2> HIDE DEF s, rerun
  <2>4. rerun = {} => s = side /\ ~Ready(s)
    BY <2>3 DEF Ready
  <2> QED  BY <2>1, <2>2, <2>4, EffectsKeep
<1>5. CASE Retry
  <2>1. Card \in SUBSET Card /\ Card # {}
    BY DEF Card
  <2> QED  BY <1>1, <1>5, <2>1, EffectsKeep DEF Retry
<1> QED  BY <1>2, <1>3, <1>4, <1>5

-----------------------------------------------------------------------------
\* What the ids that are lent and owned are.
LEMMA IdsOf ==
  /\ \A i : i \in Lent <=> \E c \in Conn : lent[c] # Nothing /\ lent[c].id = i
  /\ \A i : i \in Owned <=> \E c \in Conn : handles[c] # Nothing /\ handles[c].owned /\ handles[c].id = i
  BY DEF Lent, Owned

\* A handle that arrives is new, and is no loss to a connection that was opening.
LEMMA OpenKeeps == DiffInv /\ OpenSucceeds => DiffInv'
<1> SUFFICES ASSUME DiffInv, OpenSucceeds PROVE DiffInv'
  OBVIOUS
<1> DEFINE h == [id |-> minted + 1, owned |-> TRUE, schema |-> HomeSchema]
<1>1. PICK c \in opening :
        LET here == {x \in waiting : side[x].conn = c}
            s == [x \in Card |-> IF x \in here THEN [side[x] EXCEPT !.schema = HomeSchema] ELSE side[x]]
        IN /\ minted < MaxHandles /\ minted' = minted + 1
           /\ opening' = opening \ {c}
           /\ IF mounted
              THEN /\ handles' = [handles EXCEPT ![c] = h] /\ connected' = connected \cup {h.id}
                   /\ side' = s /\ waiting' = waiting \ here
                   /\ IF here = {} THEN UNCHANGED <<run, reads, busy, shown, error>>
                      ELSE /\ Compare(s) /\ shown' = Nothing
                           /\ error' = IF Ready(s) THEN Nothing ELSE error
              ELSE UNCHANGED <<handles, connected, side, waiting, run, reads, busy, shown, error>>
           /\ UNCHANGED <<lent, snapshots, mounted>>
  BY DEF OpenSucceeds
<1> DEFINE here == {x \in waiting : side[x].conn = c}
           s == [x \in Card |-> IF x \in here THEN [side[x] EXCEPT !.schema = HomeSchema] ELSE side[x]]
<1>2. side \in [Card -> SideCard] /\ reads \subseteq ReadOf /\ minted \in 0..MaxHandles
      /\ minted' \in 0..MaxHandles /\ c \in Conn /\ connected \subseteq 1..minted
  BY <1>1, DiffAssumption DEF DiffInv, DiffTypeOK, SideCard, ReadOf
<1>3. CASE ~mounted
  <2>1. UNCHANGED <<handles, connected, side, waiting, run, reads, busy, shown, error, lent, snapshots, mounted>>
        /\ opening' \subseteq opening /\ minted' = minted + 1
    BY <1>1, <1>3
  <2>2. DiffTypeOK'
    <3>1. connected' \subseteq 1..minted'
      BY <1>2, <2>1
    <3> QED  BY <1>2, <2>1, <3>1 DEF DiffInv, DiffTypeOK
  <2>3. AtWork' /\ HandlesApart'
    BY <2>1 DEF DiffInv, AtWork, HandlesApart
  <2>4. HandlesReleased' /\ PaneIsOfThePair'
    BY <2>1 DEF DiffInv, HandlesReleased, Lent, Owned, PaneIsOfThePair
  <2> QED  BY <2>2, <2>3, <2>4 DEF DiffInv
<1>4. CASE mounted
  <2>1. /\ minted < MaxHandles /\ minted' = minted + 1 /\ opening' = opening \ {c}
        /\ handles' = [handles EXCEPT ![c] = h] /\ connected' = connected \cup {minted + 1}
        /\ side' = s /\ waiting' = waiting \ here /\ UNCHANGED <<lent, snapshots, mounted>>
        /\ here = {} => UNCHANGED <<run, reads, busy, shown, error>>
        /\ here # {} => Compare(s) /\ shown' = Nothing /\ error' = IF Ready(s) THEN Nothing ELSE error
    BY <1>1, <1>4
  <2>2. s \in [Card -> SideCard] /\ (here = {} => s = side)
    <3>1. \A x \in Card : s[x] \in SideCard
      BY <1>2, DiffAssumption DEF SideCard
    <3>2. s = [x \in Card |-> s[x]]
      OBVIOUS
    <3>3. here = {} => \A x \in Card : s[x] = side[x]
      OBVIOUS
    <3> HIDE DEF s
    <3> QED  BY <1>2, <3>1, <3>2, <3>3
  <2>3. h \in Handle /\ h # Nothing /\ h.owned /\ h.id = minted + 1
    <3>1. minted + 1 \in 1..MaxHandles
      BY <1>2, <2>1, DiffAssumption
    <3>2. h \in Handle
      BY <3>1, DiffAssumption DEF Handle
    <3>3. h # Nothing
      BY <3>2, DiffAssumption
    <3> QED  BY <3>2, <3>3
  <2> HIDE DEF h, s, here
  <2>4. here # {} =>
        /\ reads' \subseteq ReadOf
        /\ Ready(s) => /\ busy' = TRUE
                       /\ run' \in RunOf
                       /\ run'.pair = s
                       /\ \A k \in run'.needs : [key |-> k, mine |-> TRUE] \in reads'
        /\ ~Ready(s) => busy' = FALSE /\ run' = NoRun
        /\ \A r \in reads' : r.mine => Ready(s) /\ r.key \in run'.needs
    BY <1>2, <2>1, <2>2, CompareEffect
  <2>5. \A d \in Conn : handles'[d] = IF d = c THEN h ELSE handles[d]
    BY <1>2, <2>1 DEF DiffInv, DiffTypeOK
  <2>6. DiffTypeOK'
    <3>1. connected' \subseteq 1..minted'
      BY <1>2, <2>1
    <3>2. handles' \in [Conn -> Handle \cup {Nothing}] /\ opening' \subseteq Conn /\ waiting' \subseteq Card
      BY <2>1, <2>3 DEF DiffInv, DiffTypeOK
    <3>3. busy' \in BOOLEAN /\ reads' \subseteq ReadOf /\ (run' = NoRun \/ run' \in RunOf)
          /\ shown' \in Pairs \cup {Nothing} /\ error' \in {Nothing, "open", "read"}
      BY <1>2, <2>1, <2>4 DEF DiffInv, DiffTypeOK, RunOf
    <3> QED  BY <1>2, <2>1, <2>2, <3>1, <3>2, <3>3 DEF DiffInv, DiffTypeOK, SideCard, ReadOf, RunOf
  <2>7. AtWork'
    <3>1. CASE here = {}
      BY <1>4, <2>1, <2>2, <3>1 DEF DiffInv, AtWork
    <3>2. CASE here # {}
      BY <1>4, <2>1, <2>4, <3>2 DEF AtWork
    <3> QED  BY <3>1, <3>2
  <2>8. \A i \in Owned \cup Lent : i # minted + 1
    <3>1. Owned \cup Lent \subseteq 1..minted
      BY <1>2 DEF DiffInv, HandlesReleased
    <3> QED  BY <1>2, <3>1
  <2>9. \A d \in Conn : handles[d] # Nothing /\ handles[d].owned => handles[d].id # minted + 1 /\ d # c
    <3>1. handles[c] # Nothing => ~handles[c].owned
      BY <1>1 DEF DiffInv, HandlesApart
    <3> QED  BY <2>8, <3>1, IdsOf
  <2>10. HandlesApart'
    BY <2>1, <2>3, <2>5, <2>9 DEF DiffInv, HandlesApart
  <2>11. Lent' = Lent
    BY <2>1 DEF Lent
  <2>12. Owned' = Owned \cup {minted + 1}
    <3>1. \A i : i \in Owned' <=> \E d \in Conn : handles'[d] # Nothing /\ handles'[d].owned /\ handles'[d].id = i
      BY DEF Owned
    <3>2. \A i : i \in Owned' => i \in Owned \/ i = minted + 1
      BY <2>3, <2>5, <3>1, IdsOf
    <3>3. \A i : i \in Owned \/ i = minted + 1 => i \in Owned'
      BY <1>2, <2>3, <2>5, <2>9, <3>1, IdsOf
    <3> QED  BY <3>2, <3>3
  <2>13. HandlesReleased'
    BY <2>1, <2>8, <2>11, <2>12 DEF DiffInv, HandlesReleased
  <2>14. PaneIsOfThePair'
    <3>1. CASE here = {}
      BY <2>1, <2>2, <3>1 DEF DiffInv, PaneIsOfThePair
    <3>2. CASE here # {}
      BY <2>1, <2>4, <3>2 DEF PaneIsOfThePair
    <3> QED  BY <3>1, <3>2
  <2> QED  BY <2>6, <2>7, <2>10, <2>13, <2>14 DEF DiffInv
<1> QED  BY <1>3, <1>4

\* A failed open is an error of the cards that waited for it.
LEMMA OpenFailureKeeps == DiffInv /\ OpenFails => DiffInv'
<1> SUFFICES ASSUME DiffInv, OpenFails PROVE DiffInv'
  OBVIOUS
<1>1. PICK c \in opening :
        /\ opening' = opening \ {c} /\ waiting' \subseteq waiting
        /\ error' \in {error, "open"}
        /\ UNCHANGED <<side, handles, lent, connected, minted, snapshots, reads, run, shown, busy, mounted>>
  BY DEF OpenFails
<1>2. DiffTypeOK' /\ AtWork' /\ HandlesApart'
  BY <1>1 DEF DiffInv, DiffTypeOK, AtWork, HandlesApart
<1>3. HandlesReleased'
  BY <1>1 DEF DiffInv, HandlesReleased, Lent, Owned
<1>4. PaneIsOfThePair'
  BY <1>1, DiffAssumption DEF DiffInv, PaneIsOfThePair
<1> QED  BY <1>2, <1>3, <1>4 DEF DiffInv

\* Two reads that count and have one key are one read.
LEMMA ReadsDiffer ==
  ASSUME NEW q \in ReadOf, NEW r \in ReadOf, q # r, q.mine, r.mine
  PROVE  q.key # r.key
<1>1. q = [key |-> q.key, mine |-> q.mine] /\ r = [key |-> r.key, mine |-> r.mine]
  BY DEF ReadOf
<1>2. q.mine = TRUE /\ r.mine = TRUE
  BY DEF ReadOf
<1> QED  BY <1>1, <1>2

\* A snapshot that arrives serves the run that asked for it and no other.
LEMMA SnapshotsKeep == DiffInv /\ (SnapshotRead \/ SnapshotFails \/ Compared) => DiffInv'
<1> SUFFICES ASSUME DiffInv, SnapshotRead \/ SnapshotFails \/ Compared PROVE DiffInv'
  OBVIOUS
<1>1. UNCHANGED <<side, waiting, handles, opening, lent, connected, minted, mounted>>
  BY DEF SnapshotRead, SnapshotFails, Compared
<1>2. HandlesApart' /\ HandlesReleased'
  BY <1>1 DEF DiffInv, HandlesApart, HandlesReleased, Lent, Owned
<1>3. reads \subseteq ReadOf /\ snapshots \subseteq Key
  BY DEF DiffInv, DiffTypeOK, ReadOf
<1>4. CASE SnapshotRead
  <2>1. PICK r \in reads :
          /\ reads' = reads \ {r} /\ snapshots' = snapshots \cup {r.key}
          /\ run' = IF r.mine THEN [run EXCEPT !.needs = @ \ {r.key}] ELSE run
          /\ UNCHANGED <<shown, busy, error>>
    BY <1>4 DEF SnapshotRead
  <2>2. r \in ReadOf /\ r.key \in Key
    BY <1>3 DEF ReadOf
  <2>3. ~r.mine => run' = run
    BY <2>1
  <2>4. r.mine => /\ busy /\ run \in RunOf
                  /\ run' \in RunOf /\ run'.pair = run.pair /\ run'.needs = run.needs \ {r.key}
    BY <2>1 DEF DiffInv, AtWork, RunOf
  <2>5. AtWork'
    <3>1. ~busy' => run' = NoRun
      BY <2>1, <2>3, <2>4 DEF DiffInv, AtWork
    <3>2. busy' => run' \in RunOf /\ run'.pair = side'
      BY <1>1, <2>1, <2>3, <2>4 DEF DiffInv, AtWork
    <3>3. ASSUME busy', NEW k \in run'.needs
          PROVE  [key |-> k, mine |-> TRUE] \in reads'
      <4>1. k \in run.needs /\ busy /\ (r.mine => k # r.key)
        BY <2>1, <2>3, <2>4, <3>3
      <4>2. [key |-> k, mine |-> TRUE] \in reads
        BY <4>1 DEF DiffInv, AtWork
      <4>3. [key |-> k, mine |-> TRUE] # r
        BY <4>1
      <4> QED  BY <2>1, <4>2, <4>3
    <3>4. ASSUME NEW q \in reads', q.mine
          PROVE  busy' /\ q.key \in run'.needs
      <4>1. q \in reads /\ q # r /\ busy /\ q.key \in run.needs /\ q \in ReadOf
        BY <1>3, <2>1, <3>4 DEF DiffInv, AtWork
      <4>2. r.mine => q.key # r.key
        BY <2>2, <3>4, <4>1, ReadsDiffer
      <4> QED  BY <2>1, <2>3, <2>4, <4>1, <4>2
    <3> QED  BY <1>1, <2>1, <3>1, <3>2, <3>3, <3>4 DEF DiffInv, AtWork
  <2>6. DiffTypeOK'
    <3>1. run' = NoRun \/ run' \in RunOf
      BY <2>3, <2>4 DEF DiffInv, DiffTypeOK, RunOf
    <3> QED  BY <1>1, <1>3, <2>1, <2>2, <3>1 DEF DiffInv, DiffTypeOK, ReadOf, RunOf
  <2>7. PaneIsOfThePair'
    BY <1>1, <2>1, <2>5 DEF DiffInv, PaneIsOfThePair, AtWork
  <2> QED  BY <1>2, <2>5, <2>6, <2>7 DEF DiffInv
<1>5. CASE SnapshotFails
  <2>1. PICK r \in reads :
          /\ IF r.mine
             THEN /\ reads' = {[q EXCEPT !.mine = FALSE] : q \in reads \ {r}}
                  /\ run' = NoRun /\ shown' = Nothing /\ busy' = FALSE /\ error' = "read"
             ELSE reads' = reads \ {r} /\ UNCHANGED <<run, shown, busy, error>>
          /\ UNCHANGED snapshots
    BY <1>5 DEF SnapshotFails
  <2>2. CASE r.mine
    <3>1. \A q \in reads' : q \in ReadOf /\ ~q.mine
      <4>1. \A q \in reads : [q EXCEPT !.mine = FALSE] \in ReadOf /\ ~[q EXCEPT !.mine = FALSE].mine
        BY <1>3 DEF ReadOf
      <4>2. reads' = {[q EXCEPT !.mine = FALSE] : q \in reads \ {r}}
        BY <2>1, <2>2
      <4> QED  BY <4>1, <4>2
    <3>2. DiffTypeOK'
      BY <1>1, <2>1, <2>2, <3>1 DEF DiffInv, DiffTypeOK, ReadOf
    <3>3. AtWork' /\ PaneIsOfThePair'
      BY <1>1, <2>1, <2>2, <3>1, DiffAssumption DEF DiffInv, AtWork, PaneIsOfThePair
    <3> QED  BY <1>2, <3>2, <3>3 DEF DiffInv
  <2>3. CASE ~r.mine
    <3>1. reads' = reads \ {r} /\ UNCHANGED <<run, shown, busy, error, snapshots>>
      BY <2>1, <2>3
    <3>2. DiffTypeOK'
      BY <1>1, <3>1 DEF DiffInv, DiffTypeOK
    <3>3. AtWork'
      <4>1. \A k : [key |-> k, mine |-> TRUE] # r
        BY <2>3
      <4> QED  BY <1>1, <3>1, <4>1 DEF DiffInv, AtWork
    <3>4. PaneIsOfThePair'
      BY <1>1, <3>1, <3>3 DEF DiffInv, AtWork, PaneIsOfThePair
    <3> QED  BY <1>2, <3>2, <3>3, <3>4 DEF DiffInv
  <2> QED  BY <2>2, <2>3
<1>6. CASE Compared
  <2>1. /\ run # NoRun /\ run.needs = {}
        /\ shown' = run.pair /\ run' = NoRun /\ busy' = FALSE
        /\ UNCHANGED <<snapshots, reads, error>>
    BY <1>6 DEF Compared
  <2>2. busy /\ run \in RunOf /\ run.pair = side /\ mounted
    BY <2>1 DEF DiffInv, AtWork
  <2>3. run.pair \in Pairs
    BY <2>2 DEF RunOf
  <2>4. DiffTypeOK'
    BY <1>1, <2>1, <2>3 DEF DiffInv, DiffTypeOK
  <2>5. AtWork' /\ PaneIsOfThePair'
    BY <1>1, <2>1, <2>2 DEF DiffInv, AtWork, PaneIsOfThePair
  <2> QED  BY <1>2, <2>4, <2>5 DEF DiffInv
<1> QED  BY <1>4, <1>5, <1>6

\* Workspaces open and close connections of their own, and lend what is theirs.
LEMMA WorkspacesKeep == DiffInv /\ (WorkspaceOpens \/ WorkspaceCloses) => DiffInv'
<1> SUFFICES ASSUME DiffInv, WorkspaceOpens \/ WorkspaceCloses PROVE DiffInv'
  OBVIOUS
<1>1. UNCHANGED <<side, waiting, handles, opening, snapshots, reads, run, shown, busy, error, mounted>>
  BY DEF WorkspaceOpens, WorkspaceCloses
<1>2. AtWork' /\ PaneIsOfThePair' /\ Owned' = Owned
  BY <1>1 DEF DiffInv, AtWork, PaneIsOfThePair, Owned
<1>3. connected = Lent \cup Owned /\ Lent \cap Owned = {} /\ connected \subseteq 1..minted
      /\ minted \in 0..MaxHandles /\ lent \in [Conn -> Loan \cup {Nothing}]
  BY DEF DiffInv, DiffTypeOK, HandlesReleased
<1>4. \A i : i \in Lent' <=> \E d \in Conn : lent'[d] # Nothing /\ lent'[d].id = i
  BY DEF Lent
<1>5. CASE WorkspaceOpens
  <2>1. PICK c \in Conn, n \in SchemaName :
          /\ lent[c] = Nothing /\ minted < MaxHandles
          /\ minted' = minted + 1 /\ lent' = [lent EXCEPT ![c] = [id |-> minted + 1, schema |-> n]]
          /\ connected' = connected \cup {minted + 1}
    BY <1>5 DEF WorkspaceOpens
  <2> DEFINE new == [id |-> minted + 1, schema |-> n]
  <2>2. new \in Loan /\ new # Nothing /\ new.id = minted + 1 /\ minted' \in 0..MaxHandles
        /\ connected' \subseteq 1..minted'
    BY <1>3, <2>1, DiffAssumption DEF Loan
  <2> HIDE DEF new
  <2>3. lent' \in [Conn -> Loan \cup {Nothing}]
        /\ \A d \in Conn : lent'[d] = IF d = c THEN new ELSE lent[d]
    BY <1>3, <2>1, <2>2 DEF new
  <2>4. \A i \in Owned \cup Lent : i # minted + 1
    <3>1. Owned \cup Lent \subseteq 1..minted
      BY <1>3
    <3> QED  BY <1>3, <3>1
  <2>5. DiffTypeOK'
    BY <1>1, <2>2, <2>3 DEF DiffInv, DiffTypeOK
  <2>6. HandlesApart'
    <3>1. \A d \in Conn : lent[d] # Nothing => lent[d].id # minted + 1
      BY <2>4, IdsOf
    <3> QED  BY <1>1, <2>2, <2>3, <3>1 DEF DiffInv, HandlesApart
  <2>7. Lent' = Lent \cup {minted + 1}
    <3>1. \A i : i \in Lent' => i \in Lent \/ i = minted + 1
      BY <1>4, <2>2, <2>3, IdsOf
    <3>2. \A i : i \in Lent \/ i = minted + 1 => i \in Lent'
      BY <1>4, <2>1, <2>2, <2>3, IdsOf
    <3> QED  BY <3>1, <3>2
  <2>8. HandlesReleased'
    BY <1>2, <1>3, <2>1, <2>4, <2>7 DEF HandlesReleased
  <2> QED  BY <1>2, <2>5, <2>6, <2>8 DEF DiffInv
<1>6. CASE WorkspaceCloses
  <2>1. PICK c \in Conn :
          /\ lent[c] # Nothing /\ connected' = connected \ {lent[c].id}
          /\ lent' = [lent EXCEPT ![c] = Nothing] /\ UNCHANGED minted
    BY <1>6 DEF WorkspaceCloses
  <2>2. lent' \in [Conn -> Loan \cup {Nothing}]
        /\ \A d \in Conn : lent'[d] = IF d = c THEN Nothing ELSE lent[d]
    BY <1>3, <2>1
  <2>3. DiffTypeOK'
    BY <1>1, <1>3, <2>1, <2>2 DEF DiffInv, DiffTypeOK
  <2>4. HandlesApart'
    BY <1>1, <2>2 DEF DiffInv, HandlesApart
  <2>5. Lent' = Lent \ {lent[c].id}
    <3>1. \A d \in Conn : lent[d] # Nothing /\ lent[d].id = lent[c].id => d = c
      BY <2>1 DEF DiffInv, HandlesApart
    <3>2. \A i : i \in Lent' => i \in Lent /\ i # lent[c].id
      BY <1>4, <2>2, <3>1, IdsOf
    <3>3. \A i : i \in Lent /\ i # lent[c].id => i \in Lent'
      BY <1>4, <2>2, IdsOf
    <3> QED  BY <3>2, <3>3
  <2>6. lent[c].id \in Lent
    BY <2>1, IdsOf
  <2>7. HandlesReleased'
    BY <1>2, <1>3, <2>1, <2>5, <2>6 DEF HandlesReleased
  <2> QED  BY <1>2, <2>3, <2>4, <2>7 DEF DiffInv
<1> QED  BY <1>5, <1>6

\* Closing the comparison releases what is its own.
LEMMA UnmountKeeps == DiffInv /\ Unmount => DiffInv'
<1> SUFFICES ASSUME DiffInv, Unmount PROVE DiffInv'
  OBVIOUS
<1>1. /\ mounted' = FALSE /\ connected' = connected \ Owned /\ handles' = [c \in Conn |-> Nothing]
      /\ side' = [x \in Card |-> Empty] /\ waiting' = {} /\ run' = NoRun /\ reads' = {} /\ snapshots' = {}
      /\ shown' = Nothing /\ busy' = FALSE /\ error' = Nothing
      /\ UNCHANGED <<opening, lent, minted>>
  BY DEF Unmount, Owned
<1>2. side' \in [Card -> [conn : Conn \cup {Nothing}, schema : SchemaName \cup {Nothing}]]
  BY <1>1 DEF Empty
<1>3. DiffTypeOK'
  BY <1>1, <1>2 DEF DiffInv, DiffTypeOK
<1>4. \A c \in Conn : handles'[c] = Nothing
  BY <1>1
<1>5. AtWork' /\ PaneIsOfThePair'
  BY <1>1, <1>4 DEF AtWork, PaneIsOfThePair
<1>6. HandlesApart'
  <2>1. opening' \subseteq Conn
    BY <1>3 DEF DiffTypeOK
  <2> QED  BY <1>1, <1>4, <2>1 DEF DiffInv, HandlesApart
<1>7. Owned' = {} /\ Lent' = Lent
  BY <1>1, <1>4 DEF Owned, Lent
<1>8. HandlesReleased'
  BY <1>1, <1>7 DEF DiffInv, HandlesReleased
<1> QED  BY <1>3, <1>5, <1>6, <1>8 DEF DiffInv

\* Nothing else happens to the comparison.
LEMMA DiffStep == DiffInv /\ [DiffNext]_diffVars => DiffInv'
<1> SUFFICES ASSUME DiffInv, [DiffNext]_diffVars PROVE DiffInv'
  OBVIOUS
<1>1. CASE UNCHANGED diffVars
  <2>1. DiffTypeOK' /\ AtWork' /\ HandlesApart' /\ PaneIsOfThePair'
    BY <1>1 DEF DiffInv, DiffTypeOK, AtWork, HandlesApart, PaneIsOfThePair, diffVars
  <2>2. HandlesReleased'
    BY <1>1 DEF DiffInv, HandlesReleased, Lent, Owned, diffVars
  <2> QED  BY <2>1, <2>2 DEF DiffInv
<1>2. CASE DiffNext
  BY <1>2, CardsKeep, OpenKeeps, OpenFailureKeeps, SnapshotsKeep, WorkspacesKeep, UnmountKeeps DEF DiffNext
<1> QED  BY <1>1, <1>2

-----------------------------------------------------------------------------
\* Whatever is picked, opened, answered and closed, the pane, its run and its handles agree.
THEOREM DiffInvariant == DiffSpec => []DiffInv
<1> QED  BY DiffStarts, DiffStep, PTL DEF DiffSpec

\* Every part of the comparison keeps its type.
THEOREM DiffTypeCorrect == DiffSpec => []DiffTypeOK
<1>1. DiffInv => DiffTypeOK
  BY DEF DiffInv
<1> QED  BY <1>1, DiffInvariant, PTL

\* The backend has open what workspaces lend and what the comparison opened, and the comparison
\* gives back all of its own however late an open is answered (handles.ts, SchemaDiff.tsx 423-452).
THEOREM ComparisonReleases == DiffSpec => []HandlesReleased
<1>1. DiffInv => HandlesReleased
  BY DEF DiffInv
<1> QED  BY <1>1, DiffInvariant, PTL

\* A pane at rest shows the comparison of the two schemas on its cards, and a busy one is at work
\* on them (SchemaDiff.tsx 580-624).
THEOREM PaneShowsItsPair == DiffSpec => []PaneIsOfThePair
<1>1. DiffInv => PaneIsOfThePair
  BY DEF DiffInv
<1> QED  BY <1>1, DiffInvariant, PTL
-----------------------------------------------------------------------------
(* Reports in a folder.                                                    *)

FileName == {OutputFilename(d, t) : d \in Definition, t \in Nat}

\* What comes after a name in a list of names.
Later(w, f) == {w[j] : j \in {j \in DOMAIN w : \E i \in DOMAIN w : i < j /\ w[i] = f}}

ListsOnce(w) == w \in Seq(FileName) /\ \A i, j \in DOMAIN w : w[i] = w[j] => i = j

\* A name is in the folder once.
FolderTyped(fs) ==
  /\ IsFiniteSet(fs)
  /\ \A f \in fs : f = [file |-> f.file, time |-> f.time] /\ f.time \in Int
  /\ \A f, g \in fs : f.file = g.file => f = g

FilesShape ==
  /\ defs \in [Report -> Definition] /\ instant \in Nat /\ clockBacks \in Nat
  /\ FolderTyped(files)
  /\ DOMAIN written = Report /\ \A r \in Report : ListsOnce(written[r])

\* A file is of before the first instant or a report's, and a report's is of an instant past.
FilesOfRuns ==
  \A f \in files :
    /\ f.time < instant
    /\ f.time < 0 \/ \E u \in Report : f.file \in ToSet(written[u])
    /\ \A u \in Report : f.file \in ToSet(written[u]) => f.time >= 0

\* A report that is gone was the schedule's own to prune and was followed by as many as are
\* kept, and those of its own that are there are as old as they were written.
InOrder(r) ==
  \A f \in ToSet(written[r]) :
    /\ \/ f \in Names(files)
       \/ /\ OwnsFilename(defs[r], f)
          /\ IsFiniteSet(Later(written[r], f)) /\ Cardinality(Later(written[r], f)) >= defs[r].keep
    /\ OwnsFilename(defs[r], f) =>
         \A x, y \in files :
           x.file = f /\ y.file \in Later(written[r], f) /\ OwnsFilename(defs[r], y.file)
             => x.time < y.time

FilesInv ==
  /\ FilesShape
  /\ clockBacks = 0 => FilesOfRuns /\ \A r \in Report : Separate(r) => InOrder(r)

\* The names of a list, and what comes after each, when one is put last.
LastPut(w, e) == Append(OnlyIn(w, ToSet(w) \ {e}), e)

IsLastIn(v, w, e) ==
  /\ ListsOnce(v) /\ ToSet(v) = ToSet(w) \cup {e}
  /\ Later(v, e) = {}
  /\ \A f \in ToSet(w) \ {e} : Later(v, f) = (Later(w, f) \ {e}) \cup {e}

LEMMA PutLast ==
  ASSUME NEW w, ListsOnce(w), NEW e \in FileName
  PROVE  IsLastIn(LastPut(w, e), w, e)
<1> DEFINE T == ToSet(w) \ {e}
           o == OnlyIn(w, T)
           v == LastPut(w, e)
<1>1. w \in Seq(FileName) /\ \A i, j \in DOMAIN w : w[i] = w[j] => i = j
  BY DEF ListsOnce
<1>2. o \in Seq(FileName \cap T) /\ \E at : SelectedAt(at, w, T)
  BY <1>1, OnlyInPlaces
<1>3. PICK at : SelectedAt(at, w, T)
  BY <1>2
<1> HIDE DEF T
<1>4. /\ Len(o) \in Nat /\ at \in [1..Len(o) -> 1..Len(w)]
      /\ \A n \in 1..Len(o) : w[at[n]] \in T /\ o[n] = w[at[n]]
      /\ \A m, n \in 1..Len(o) : m < n => at[m] < at[n]
      /\ \A i \in 1..Len(w) : w[i] \in T => \E n \in 1..Len(o) : at[n] = i
  BY <1>2, <1>3 DEF SelectedAt
<1> HIDE DEF o
<1>5. ToSet(w) = {w[i] : i \in 1..Len(w)} /\ T = ToSet(w) \ {e} /\ Len(w) \in Nat /\ DOMAIN w = 1..Len(w)
  BY <1>1 DEF ToSet, T
<1>6. v = Append(o, e)
  BY DEF o, T, LastPut
<1> HIDE DEF v
<1>7. o \in Seq(FileName)
  BY <1>2
<1>8. /\ v \in Seq(FileName) /\ Len(o) + 1 \in DOMAIN v /\ v[Len(o) + 1] = e
      /\ \A n \in 1..Len(o) : n \in DOMAIN v /\ v[n] = o[n]
      /\ \A n \in DOMAIN v : n \in Nat /\ (n \in 1..Len(o) \/ n = Len(o) + 1)
  <2>1. ASSUME NEW S, NEW s \in Seq(S), NEW x \in S, NEW z, z = Append(s, x)
        PROVE  /\ z \in Seq(S) /\ Len(s) + 1 \in DOMAIN z /\ z[Len(s) + 1] = x
               /\ \A n \in 1..Len(s) : n \in DOMAIN z /\ z[n] = s[n]
               /\ \A n \in DOMAIN z : n \in Nat /\ (n \in 1..Len(s) \/ n = Len(s) + 1)
    BY <2>1, AppendPlaces
  <2>2. QED
    BY <1>6, <1>7, <2>1
<1>9. \A n \in 1..Len(o) : v[n] = w[at[n]] /\ v[n] # e /\ v[n] \in T
  BY <1>4, <1>5, <1>8
<1>10. ASSUME NEW i \in 1..Len(o), NEW j \in 1..Len(o) PROVE (v[i] = v[j] => i = j) /\ (i < j <=> at[i] < at[j])
  <2>1. at[i] \in 1..Len(w) /\ at[j] \in 1..Len(w)
    BY <1>4
  <2>2. v[i] = v[j] => at[i] = at[j]
    BY <1>1, <1>5, <1>9, <2>1
  <2>3. i < j => at[i] < at[j]
    BY <1>4
  <2>4. j < i => at[j] < at[i]
    BY <1>4
  <2>5. at[i] \in Int /\ at[j] \in Int /\ i \in Int /\ j \in Int
    BY <2>1
  <2>6. i = j => at[i] = at[j]
    OBVIOUS
  <2>7. ASSUME NEW a \in Int, NEW b \in Int PROVE (a < b \/ b < a \/ a = b) /\ ~(a < b /\ b < a) /\ ~(a < a)
    OBVIOUS
  <2>8. (i < j \/ j < i \/ i = j) /\ ~(at[i] < at[j] /\ at[j] < at[i]) /\ ~(at[i] < at[i])
    BY <2>5, <2>7
  <2>9. i < j <=> at[i] < at[j]
    BY <2>3, <2>4, <2>6, <2>8, Zenon
  <2>10. at[i] = at[j] => i = j
    BY <2>3, <2>4, <2>8, Zenon
  <2>11. QED
    BY <2>2, <2>9, <2>10, Zenon
<1>11. \A i \in DOMAIN v : i \in 1..Len(o) \/ (i = Len(o) + 1 /\ v[i] = e)
  BY <1>8
<1>12. ASSUME NEW i \in DOMAIN v, NEW j \in DOMAIN v, v[i] = v[j] PROVE i = j
  BY <1>9, <1>10, <1>11, <1>12
<1>13. ToSet(v) = T \cup {e}
  <2>1. ToSet(v) = {v[i] : i \in DOMAIN v}
    BY DEF ToSet
  <2>2. ASSUME NEW f \in T PROVE f \in ToSet(v)
    <3>1. PICK i \in 1..Len(w) : w[i] = f
      BY <1>5
    <3>2. PICK n \in 1..Len(o) : at[n] = i
      BY <1>4, <3>1
    <3>3. n \in DOMAIN v /\ v[n] = f
      BY <1>8, <1>9, <3>1, <3>2
    <3>4. QED
      BY <2>1, <3>3
  <2>3. e \in ToSet(v)
    BY <1>8, <2>1
  <2>4. ASSUME NEW i \in DOMAIN v PROVE v[i] \in T \cup {e}
    BY <1>9, <1>11
  <2>5. QED
    BY <2>1, <2>2, <2>3, <2>4
<1>14. Later(v, e) = {}
  <2>1. ASSUME NEW i \in DOMAIN v, NEW j \in DOMAIN v, i < j PROVE v[i] # e
    <3>1. i \in Nat /\ j \in Nat /\ (j \in 1..Len(o) \/ j = Len(o) + 1) /\ Len(o) \in Nat
      BY <1>4, <1>8
    <3>2. i \in 1..Len(o)
      BY <1>11, <2>1, <3>1
    <3>3. QED
      BY <1>9, <3>2
  <2>2. QED
    BY <2>1 DEF Later
<1>15. ASSUME NEW f \in T PROVE Later(v, f) = (Later(w, f) \ {e}) \cup {e}
  <2>1. PICK i \in 1..Len(w) : w[i] = f
    BY <1>5
  <2>2. PICK n \in 1..Len(o) : at[n] = i
    BY <1>4, <1>5, <2>1
  <2>3. n \in DOMAIN v /\ v[n] = f /\ n < Len(o) + 1 /\ Len(o) + 1 \in DOMAIN v
    <3>1. n \in Int /\ n <= Len(o) /\ Len(o) \in Nat
      BY <1>4
    <3>2. n < Len(o) + 1
      BY <3>1
    <3>3. n \in DOMAIN v /\ Len(o) + 1 \in DOMAIN v
      BY <1>8
    <3>4. v[n] = w[at[n]]
      BY <1>9
    <3>5. QED
      BY <2>1, <2>2, <3>2, <3>3, <3>4
  <2>4. e \in Later(v, f)
    BY <1>8, <2>3 DEF Later
  <2>5. ASSUME NEW g \in Later(v, f), g # e PROVE g \in Later(w, f)
    <3>1. PICK k \in DOMAIN v, m \in DOMAIN v : m < k /\ v[m] = f /\ v[k] = g
      BY DEF Later
    <3>2. k \in 1..Len(o) /\ m \in 1..Len(o)
      BY <1>5, <1>8, <1>11, <2>5, <3>1
    <3>3. at[m] < at[k] /\ at[m] \in DOMAIN w /\ at[k] \in DOMAIN w /\ w[at[m]] = f /\ w[at[k]] = g
      BY <1>4, <1>5, <1>9, <3>1, <3>2
    <3>4. QED
      BY <3>3 DEF Later
  <2>6. ASSUME NEW g \in Later(w, f), g # e PROVE g \in Later(v, f)
    <3>1. PICK k \in DOMAIN w, m \in DOMAIN w : m < k /\ w[m] = f /\ w[k] = g
      BY DEF Later
    <3>2. m = i /\ g \in T
      BY <1>1, <1>5, <2>1, <2>6, <3>1
    <3>3. PICK p \in 1..Len(o) : at[p] = k
      BY <1>4, <1>5, <3>1, <3>2
    <3>4. n < p /\ p \in DOMAIN v /\ v[p] = g
      <4>1. at[n] < at[p]
        BY <2>2, <3>1, <3>2, <3>3
      <4>2. QED
        BY <1>8, <1>9, <1>10, <3>1, <3>3, <4>1
    <3>5. QED
      BY <2>3, <3>4 DEF Later
  <2>7. QED
    BY <2>4, <2>5, <2>6
<1>16. QED
  BY <1>5, <1>8, <1>12, <1>13, <1>14, <1>15 DEF ListsOnce, IsLastIn, v

\* Of two names of a list one comes later.
LEMMA OneIsLater ==
  ASSUME NEW w, ListsOnce(w), NEW f \in ToSet(w), NEW g \in ToSet(w), f # g
  PROVE  f \in Later(w, g) \/ g \in Later(w, f)
<1>1. PICK i \in DOMAIN w, j \in DOMAIN w : w[i] = f /\ w[j] = g
  BY DEF ToSet
<1>2. i \in Int /\ j \in Int /\ i # j
  BY <1>1 DEF ListsOnce
<1>3. i < j => g \in Later(w, f)
  BY <1>1 DEF Later
<1>4. j < i => f \in Later(w, g)
  BY <1>1 DEF Later
<1>5. QED
  BY <1>2, <1>3, <1>4

\* What comes later is finite, and not more than the places that are left.
LEMMA LaterBounded ==
  ASSUME NEW w, ListsOnce(w), NEW i \in DOMAIN w
  PROVE  IsFiniteSet(Later(w, w[i])) /\ Cardinality(Later(w, w[i])) <= Len(w) - i
<1>1. w \in Seq(FileName) /\ Len(w) \in Nat /\ DOMAIN w = 1..Len(w) /\ i \in 1..Len(w)
  BY DEF ListsOnce
<1> DEFINE at == [j \in (i + 1)..Len(w) |-> w[j]]
<1>2. Later(w, w[i]) = {w[j] : j \in (i + 1)..Len(w)}
  <2>1. ASSUME NEW j \in DOMAIN w, NEW k \in DOMAIN w, k < j, w[k] = w[i] PROVE j \in (i + 1)..Len(w)
    <3>1. k = i
      BY <2>1 DEF ListsOnce
    <3>2. QED
      BY <1>1, <2>1, <3>1
  <2>2. ASSUME NEW j \in (i + 1)..Len(w) PROVE j \in DOMAIN w /\ i < j
    BY <1>1
  <2>3. Later(w, w[i]) \subseteq {w[j] : j \in (i + 1)..Len(w)}
    BY <2>1 DEF Later
  <2>4. {w[j] : j \in (i + 1)..Len(w)} \subseteq Later(w, w[i])
    BY <2>2 DEF Later
  <2>5. QED
    BY <2>3, <2>4
<1>3. at \in Surjection((i + 1)..Len(w), Later(w, w[i]))
  BY <1>2 DEF Surjection
<1>4. /\ IsFiniteSet((i + 1)..Len(w))
      /\ Cardinality((i + 1)..Len(w)) = IF i + 1 > Len(w) THEN 0 ELSE Len(w) - (i + 1) + 1
  <2>1. i + 1 \in Int /\ Len(w) \in Int
    BY <1>1
  <2>2. QED
    BY <2>1, FS_Interval
<1>5. Cardinality((i + 1)..Len(w)) <= Len(w) - i
  BY <1>1, <1>4
<1> HIDE DEF at
<1>6. IsFiniteSet(Later(w, w[i])) /\ Cardinality(Later(w, w[i])) <= Cardinality((i + 1)..Len(w))
  BY <1>3, <1>4, FS_Surjection
<1>7. Cardinality(Later(w, w[i])) \in Int /\ Cardinality((i + 1)..Len(w)) \in Int
  BY <1>4, <1>6, FS_CardinalityType
<1>8. QED
  BY <1>1, <1>5, <1>6, <1>7

\* What a run prunes is the schedule's own, and it leaves as many as it keeps, none of them
\* older.
LEMMA ExcessTakes ==
  ASSUME NEW d \in Definition, NEW fs, FolderTyped(fs), NEW gone \in Excess(d, fs)
  PROVE  /\ \A x \in gone : x \in fs /\ OwnsFilename(d, x.file)
         /\ FolderTyped(fs \ gone)
         /\ gone # {} =>
              LET left == {f \in fs : OwnsFilename(d, f.file)} \ gone
              IN  /\ IsFiniteSet(left) /\ Cardinality(left) = d.keep
                  /\ \A x \in gone, y \in left : x.time <= y.time
<1> DEFINE owned == {f \in fs : OwnsFilename(d, f.file)}
           left == owned \ gone
<1>1. IsFiniteSet(fs) /\ IsFiniteSet(owned)
  BY FS_Subset DEF FolderTyped
<1>2. d.keep \in Nat /\ Cardinality(owned) \in Nat
  BY <1>1, FS_CardinalityType, FilesAssumption
<1>3. \/ gone = {}
      \/ /\ gone \in SUBSET owned /\ Cardinality(gone) = Cardinality(owned) - d.keep
         /\ \A x \in gone : \A y \in left : x.time <= y.time
  BY DEF Excess, kSubset
<1>4. ASSUME gone # {} PROVE IsFiniteSet(left) /\ Cardinality(left) = d.keep
  <2>1. gone \in SUBSET owned /\ Cardinality(gone) = Cardinality(owned) - d.keep
    BY <1>3, <1>4
  <2>2. owned \cap gone = gone
    BY <2>1
  <2>3. IsFiniteSet(left) /\ Cardinality(left) = Cardinality(owned) - Cardinality(gone)
    BY <1>1, <2>2, FS_Difference
  <2>4. QED
    BY <1>2, <2>1, <2>3
<1>5. \A x \in gone : x \in fs /\ OwnsFilename(d, x.file)
  BY <1>3
<1>6. IsFiniteSet(fs \ gone)
  BY <1>1, FS_Subset
<1>7. FolderTyped(fs \ gone)
  BY <1>6 DEF FolderTyped
<1>8. QED
  BY <1>3, <1>4, <1>5, <1>7

\* Nothing that was written is forgotten, so who was apart at the end always was.
LEMMA ApartBefore ==
  ASSUME NEW r \in Report, Separate(r)', defs' = defs,
         \A u \in Report : ToSet(written[u]) \subseteq ToSet(written'[u])
  PROVE  /\ Separate(r)
         /\ \A u \in Report \ {r} :
              /\ \A f \in ToSet(written'[r]) : ~OwnsFilename(defs[u], f)
              /\ \A f \in ToSet(written'[u]) : ~OwnsFilename(defs[r], f)
<1>1. ASSUME NEW u \in Report \ {r}
      PROVE  /\ \A f \in ToSet(written'[r]) : ~OwnsFilename(defs[u], f)
             /\ \A f \in ToSet(written'[u]) : ~OwnsFilename(defs[r], f)
  BY DEF Separate, ToSet
<1>2. Separate(r)
  <2>1. ASSUME NEW u \in Report \ {r}, NEW i \in DOMAIN written[r] PROVE ~OwnsFilename(defs[u], written[r][i])
    <3>1. written[r][i] \in ToSet(written[r])
      BY DEF ToSet
    <3>2. QED
      BY <1>1, <3>1
  <2>2. ASSUME NEW u \in Report \ {r}, NEW i \in DOMAIN written[u] PROVE ~OwnsFilename(defs[r], written[u][i])
    <3>1. written[u][i] \in ToSet(written[u])
      BY DEF ToSet
    <3>2. QED
      BY <1>1, <3>1
  <2>3. QED
    BY <2>1, <2>2 DEF Separate
<1>3. QED
  BY <1>1, <1>2

\* A run: the folder it finds with its report in it, what it prunes, and its list of names.
RunsAs(u, file, fs, gone, v) ==
  /\ file = OutputFilename(defs[u], instant) /\ file \in FileName
  /\ fs = {f \in files : f.file # file} \cup {[file |-> file, time |-> instant]}
  /\ gone \in Excess(defs[u], fs) /\ files' = fs \ gone
  /\ v = LastPut(written[u], file)
  /\ written' = [written EXCEPT ![u] = v]
  /\ instant' = instant + 1 /\ defs' = defs /\ clockBacks' = clockBacks

LEMMA RunFacts ==
  ASSUME FilesShape, NEW u \in Report, NEW file, NEW fs, NEW gone, NEW v, RunsAs(u, file, fs, gone, v)
  PROVE  /\ FilesShape' /\ FolderTyped(fs) /\ defs[u] \in Definition
         /\ IsLastIn(v, written[u], file)
         /\ written'[u] = v /\ \A r \in Report \ {u} : written'[r] = written[r]
         /\ \A r \in Report : ToSet(written[r]) \subseteq ToSet(written'[r])
<1>1. defs[u] \in Definition /\ ListsOnce(written[u]) /\ file \in FileName
  BY DEF FilesShape, RunsAs
<1>2. IsLastIn(v, written[u], file)
  BY <1>1, PutLast DEF RunsAs
<1>3. written'[u] = v /\ (\A r \in Report \ {u} : written'[r] = written[r]) /\ DOMAIN written' = Report
  BY DEF FilesShape, RunsAs
<1>4. \A r \in Report : ToSet(written[r]) \subseteq ToSet(written'[r])
  BY <1>2, <1>3 DEF IsLastIn
<1>5. FolderTyped(fs)
  <2> DEFINE others == {f \in files : f.file # file}
             new == [file |-> file, time |-> instant]
  <2>1. IsFiniteSet(others)
    BY FS_Subset DEF FilesShape, FolderTyped
  <2>2. IsFiniteSet(fs) /\ fs = others \cup {new}
    BY <2>1, FS_AddElement DEF RunsAs
  <2>3. new.file = file /\ new.time = instant /\ instant \in Nat
    BY DEF FilesShape
  <2>4. \A f \in fs : f = [file |-> f.file, time |-> f.time] /\ f.time \in Int
    BY <2>2, <2>3 DEF FilesShape, FolderTyped
  <2>5. \A f, g \in fs : f.file = g.file => f = g
    BY <2>2, <2>3 DEF FilesShape, FolderTyped
  <2>6. QED
    BY <2>2, <2>4, <2>5 DEF FolderTyped
<1>6. FolderTyped(files')
  BY <1>1, <1>5, ExcessTakes DEF RunsAs
<1>7. \A r \in Report : ListsOnce(written'[r])
  BY <1>2, <1>3 DEF FilesShape, IsLastIn
<1>8. FilesShape'
  <2>1. instant \in Nat /\ clockBacks \in Nat /\ defs \in [Report -> Definition]
    BY DEF FilesShape
  <2>2. instant' = instant + 1 /\ UNCHANGED <<defs, clockBacks>>
    BY DEF RunsAs
  <2>3. QED
    BY <1>3, <1>6, <1>7, <2>1, <2>2 DEF FilesShape
<1>9. QED
  BY <1>1, <1>2, <1>3, <1>4, <1>5, <1>8

LEMMA RunIsOfRuns ==
  ASSUME FilesShape, FilesOfRuns, NEW u \in Report,
         NEW file, NEW fs, NEW gone, NEW v, RunsAs(u, file, fs, gone, v)
  PROVE  FilesOfRuns'
<1>1. /\ instant \in Nat /\ instant' = instant + 1
      /\ written'[u] = v /\ ToSet(v) = ToSet(written[u]) \cup {file}
      /\ \A r \in Report \ {u} : written'[r] = written[r]
      /\ \A r \in Report : ToSet(written[r]) \subseteq ToSet(written'[r])
  <2>1. /\ IsLastIn(v, written[u], file)
        /\ written'[u] = v /\ \A r \in Report \ {u} : written'[r] = written[r]
        /\ \A r \in Report : ToSet(written[r]) \subseteq ToSet(written'[r])
    BY RunFacts
  <2>2. QED
    BY <2>1 DEF FilesShape, RunsAs, IsLastIn
<1>2. ASSUME NEW f \in files'
      PROVE  /\ f.time < instant'
             /\ f.time < 0 \/ \E r \in Report : f.file \in ToSet(written'[r])
             /\ \A r \in Report : f.file \in ToSet(written'[r]) => f.time >= 0
  <2>1. CASE f.file # file
    <3>1. f \in files
      BY <2>1 DEF RunsAs
    <3>2. f.time \in Int /\ f.time < instant
      BY <3>1 DEF FilesShape, FolderTyped, FilesOfRuns
    <3>3. f.time < instant'
      BY <1>1, <3>2
    <3>4. f.time < 0 \/ \E r \in Report : f.file \in ToSet(written'[r])
      BY <1>1, <3>1 DEF FilesOfRuns
    <3>5. \A r \in Report : f.file \in ToSet(written'[r]) => f.file \in ToSet(written[r])
      BY <1>1, <2>1
    <3>6. QED
      BY <3>1, <3>3, <3>4, <3>5 DEF FilesOfRuns
  <2>2. CASE f.file = file
    <3>1. f = [file |-> file, time |-> instant]
      BY <2>2 DEF RunsAs
    <3>2. f.time = instant /\ f.file \in ToSet(written'[u])
      BY <1>1, <2>2, <3>1
    <3>3. QED
      BY <1>1, <3>2
  <2>3. QED
    BY <2>1, <2>2
<1>3. QED
  BY <1>2 DEF FilesOfRuns

\* The runs of another keep what is the schedule's.
LEMMA OthersKeepOrder ==
  ASSUME FilesShape, NEW u \in Report, NEW r \in Report \ {u}, InOrder(r), Separate(r)',
         NEW file, NEW fs, NEW gone, NEW v, RunsAs(u, file, fs, gone, v)
  PROVE  InOrder(r)'
<1>1. /\ FolderTyped(fs) /\ defs[u] \in Definition /\ file \in ToSet(written'[u])
      /\ written'[r] = written[r] /\ defs' = defs
      /\ \A q \in Report : ToSet(written[q]) \subseteq ToSet(written'[q])
  <2>1. /\ FolderTyped(fs) /\ defs[u] \in Definition /\ IsLastIn(v, written[u], file) /\ written'[u] = v
        /\ \A q \in Report \ {u} : written'[q] = written[q]
        /\ \A q \in Report : ToSet(written[q]) \subseteq ToSet(written'[q])
    BY RunFacts
  <2>2. QED
    BY <2>1 DEF RunsAs, IsLastIn
<1>2. ~OwnsFilename(defs[r], file) /\ \A f \in ToSet(written[r]) : ~OwnsFilename(defs[u], f)
  BY <1>1, ApartBefore
<1>3. \A x \in gone : OwnsFilename(defs[u], x.file)
  BY <1>1, ExcessTakes, ZenonT(60) DEF RunsAs
<1>4. ASSUME NEW f \in ToSet(written[r]), f \in Names(files) PROVE f \in Names(files')
  <2>1. PICK x \in fs : x.file = f
    <3>1. PICK x \in files : x.file = f
      BY <1>4 DEF Names
    <3>2. [file |-> file, time |-> instant] \in fs /\ [file |-> file, time |-> instant].file = file
      BY DEF RunsAs
    <3>3. x.file # file => x \in fs
      BY DEF RunsAs
    <3>4. QED
      BY <3>1, <3>2, <3>3
  <2>2. x \notin gone
    BY <1>2, <1>3, <2>1
  <2>3. QED
    BY <2>1, <2>2 DEF RunsAs, Names
<1>5. ASSUME NEW x \in files', x.file # file PROVE x \in files
  BY <1>5 DEF RunsAs
<1>6. ASSUME NEW f \in ToSet(written[r]), OwnsFilename(defs[r], f),
             NEW x \in files', NEW y \in files',
             x.file = f, y.file \in Later(written[r], f), OwnsFilename(defs[r], y.file)
      PROVE  x.time < y.time
  <2>1. x \in files /\ y \in files
    BY <1>2, <1>5, <1>6
  <2>2. QED
    BY <1>6, <2>1 DEF InOrder
<1>7. QED
  BY <1>1, <1>4, <1>6 DEF InOrder

\* A schedule's own run puts its report last, and prunes what that many followed.
LEMMA OwnRunKeepsOrder ==
  ASSUME FilesShape, FilesOfRuns, NEW u \in Report, InOrder(u), Separate(u)',
         NEW file, NEW fs, NEW gone, NEW v, RunsAs(u, file, fs, gone, v)
  PROVE  InOrder(u)'
<1> DEFINE w == written[u]
           new == [file |-> file, time |-> instant]
           left == {f \in fs : OwnsFilename(defs[u], f.file)} \ gone
<1>1. /\ FolderTyped(fs) /\ defs[u] \in Definition /\ defs' = defs /\ instant \in Nat
      /\ ListsOnce(v) /\ ToSet(v) = ToSet(w) \cup {file} /\ Later(v, file) = {}
      /\ \A f \in ToSet(w) \ {file} : Later(v, f) = (Later(w, f) \ {file}) \cup {file}
      /\ written'[u] = v
      /\ \A q \in Report : ToSet(written[q]) \subseteq ToSet(written'[q])
  <2>1. /\ FolderTyped(fs) /\ defs[u] \in Definition /\ IsLastIn(v, written[u], file) /\ written'[u] = v
        /\ \A q \in Report : ToSet(written[q]) \subseteq ToSet(written'[q])
    BY RunFacts
  <2>2. QED
    BY <2>1 DEF RunsAs, IsLastIn, FilesShape
<1>2. \A q \in Report \ {u} : \A f \in ToSet(written[q]) : ~OwnsFilename(defs[u], f)
  BY <1>1, ApartBefore
<1>3. /\ files' = fs \ gone /\ new.file = file /\ new.time = instant
      /\ \A x \in fs : (x \in files /\ x.file # file) \/ x = new
      /\ \A x \in files : x.file # file => x \in fs
      /\ new \in fs
  BY DEF RunsAs
<1>4. /\ \A x \in gone : x \in fs /\ OwnsFilename(defs[u], x.file)
      /\ gone # {} => /\ IsFiniteSet(left) /\ Cardinality(left) = defs[u].keep
                      /\ \A x \in gone, y \in left : x.time <= y.time
  <2>1. gone \in Excess(defs[u], fs)
    BY DEF RunsAs
  <2>2. QED
    BY <1>1, <2>1, ExcessTakes
<1> HIDE DEF left, new
<1>5. ASSUME NEW f \in ToSet(v), OwnsFilename(defs[u], f), NEW x \in fs, NEW y \in fs,
             x.file = f, y.file \in Later(v, f), OwnsFilename(defs[u], y.file)
      PROVE  x.time < y.time
  <2>1. f # file /\ f \in ToSet(w)
    BY <1>1, <1>5
  <2>2. x \in files
    BY <1>3, <1>5, <2>1
  <2>3. CASE y = new
    BY <1>3, <2>2, <2>3 DEF FilesOfRuns
  <2>4. CASE y \in files /\ y.file # file
    <3>1. y.file \in Later(w, f)
      BY <1>1, <1>5, <2>1, <2>4
    <3>2. QED
      BY <1>5, <2>1, <2>2, <2>4, <3>1 DEF InOrder
  <2>5. QED
    BY <1>3, <2>3, <2>4
<1>6. ASSUME NEW f \in ToSet(v) PROVE IsFiniteSet(Later(v, f))
  <2>1. PICK i \in DOMAIN v : v[i] = f
    BY DEF ToSet
  <2>2. QED
    BY <1>1, <2>1, LaterBounded
<1>7. ASSUME NEW x \in gone, x.file \in ToSet(v) PROVE Cardinality(Later(v, x.file)) >= defs[u].keep
  <2>1. x.time \in Int /\ x.time >= 0
    <3>1. x \in fs /\ x.time \in Int
      BY <1>1, <1>4 DEF FolderTyped
    <3>2. CASE x = new
      BY <1>1, <1>3, <3>1, <3>2
    <3>3. CASE x \in files /\ x.file # file
      <4>1. x.file \in ToSet(w)
        BY <1>1, <1>7, <3>3
      <4>2. QED
        BY <3>1, <3>3, <4>1 DEF FilesOfRuns
    <3>4. QED
      BY <1>3, <3>1, <3>2, <3>3
  <2>2. ASSUME NEW y \in left PROVE y.file \in Later(v, x.file)
    <3>1. y \in fs /\ y \notin gone /\ OwnsFilename(defs[u], y.file)
      BY DEF left
    <3>2. y.time \in Int /\ y.time >= x.time
      BY <1>1, <1>4, <3>1 DEF FolderTyped
    <3>3. y.file \in ToSet(v)
      <4>1. CASE y = new
        BY <1>1, <1>3, <4>1
      <4>2. CASE y \in files
        <5>1. ~(y.time < 0)
          BY <2>1, <3>2
        <5>2. PICK q \in Report : y.file \in ToSet(written[q])
          BY <4>2, <5>1 DEF FilesOfRuns
        <5>3. q = u
          BY <1>2, <3>1, <5>2
        <5>4. QED
          BY <1>1, <5>2, <5>3
      <4>3. QED
        BY <1>3, <3>1, <4>1, <4>2
    <3>4. y.file # x.file
      BY <1>1, <1>4, <3>1 DEF FolderTyped
    <3>5. x.file \notin Later(v, y.file)
      <4>1. SUFFICES ASSUME x.file \in Later(v, y.file) PROVE FALSE
        OBVIOUS
      <4>2. y.time < x.time
        BY <1>4, <1>5, <3>1, <3>3, <4>1
      <4>3. QED
        BY <2>1, <3>2, <4>2
    <3>6. QED
      BY <1>1, <1>7, <3>3, <3>4, <3>5, OneIsLater
  <2> DEFINE name == [y \in left |-> y.file]
  <2>3. name \in Injection(left, Later(v, x.file))
    <3>1. name \in [left -> Later(v, x.file)]
      BY <2>2
    <3>2. ASSUME NEW y \in left, NEW z \in left, name[y] = name[z] PROVE y = z
      <4>1. y \in fs /\ z \in fs /\ y.file = z.file
        BY <3>2 DEF left
      <4>2. QED
        BY <1>1, <4>1 DEF FolderTyped
    <3>3. QED
      BY <3>1, <3>2 DEF Injection, IsInjective
  <2> HIDE DEF name
  <2>4. Cardinality(left) <= Cardinality(Later(v, x.file)) /\ IsFiniteSet(Later(v, x.file))
    BY <1>6, <1>7, <2>3, FS_Injection
  <2>5. Cardinality(left) = defs[u].keep /\ defs[u].keep \in Nat
    BY <1>1, <1>4, FilesAssumption
  <2>6. Cardinality(Later(v, x.file)) \in Nat
    BY <2>4, FS_CardinalityType
  <2>7. QED
    BY <2>4, <2>5, <2>6
<1>8. ASSUME NEW f \in ToSet(v), f \notin Names(files')
      PROVE  OwnsFilename(defs[u], f) /\ Cardinality(Later(v, f)) >= defs[u].keep
  <2>1. CASE \E x \in fs : x.file = f
    <3>1. PICK x \in fs : x.file = f
      BY <2>1
    <3>2. x \in gone
      BY <1>3, <1>8, <3>1 DEF Names
    <3>3. QED
      BY <1>4, <1>7, <3>1, <3>2
  <2>2. CASE ~\E x \in fs : x.file = f
    <3>1. f # file /\ f \in ToSet(w)
      BY <1>1, <1>3, <2>2
    <3>2. f \notin Names(files)
      BY <1>3, <2>2, <3>1 DEF Names
    <3>3. OwnsFilename(defs[u], f) /\ IsFiniteSet(Later(w, f)) /\ Cardinality(Later(w, f)) >= defs[u].keep
      BY <3>1, <3>2 DEF InOrder
    <3>4. Later(w, f) \in SUBSET Later(v, f)
      BY <1>1, <3>1
    <3>5. Cardinality(Later(w, f)) <= Cardinality(Later(v, f))
      BY <1>6, <3>4, FS_Subset
    <3>6. Cardinality(Later(w, f)) \in Nat /\ Cardinality(Later(v, f)) \in Nat /\ defs[u].keep \in Nat
      BY <1>1, <1>6, <3>3, FS_CardinalityType, FilesAssumption
    <3>7. QED
      BY <3>3, <3>5, <3>6
  <2>3. QED
    BY <2>1, <2>2
<1>9. ASSUME NEW f \in ToSet(v), OwnsFilename(defs[u], f), NEW x \in files', NEW y \in files',
             x.file = f, y.file \in Later(v, f), OwnsFilename(defs[u], y.file)
      PROVE  x.time < y.time
  BY <1>3, <1>5, <1>9
<1>10. QED
  BY <1>1, <1>6, <1>8, <1>9 DEF InOrder

LEMMA FilesStep == FilesInv /\ [FilesNext]_fileVars => FilesInv'
<1> SUFFICES ASSUME FilesInv, [FilesNext]_fileVars PROVE FilesInv'
  OBVIOUS
<1>1. ASSUME NEW u \in Report, RunReport(u) PROVE FilesInv'
  <2> DEFINE file == OutputFilename(defs[u], instant)
             fs == {f \in files : f.file # file} \cup {[file |-> file, time |-> instant]}
             v == LastPut(written[u], file)
  <2>1. defs[u] \in Definition /\ instant \in Nat
    BY DEF FilesInv, FilesShape
  <2>2. file \in FileName
    BY <2>1 DEF FileName
  <2>3. PICK gone \in Excess(defs[u], fs) : files' = fs \ gone
    BY <1>1 DEF RunReport
  <2>4. written' = [written EXCEPT ![u] = v]
    BY <1>1 DEF RunReport, FilesInv, FilesShape, LastPut
  <2>5. RunsAs(u, file, fs, gone, v)
    BY <1>1, <2>2, <2>3, <2>4 DEF RunReport, RunsAs
  <2> HIDE DEF file, fs, v
  <2>6. FilesShape /\ FilesShape'
    BY <2>5, RunFacts DEF FilesInv
  <2>7. ASSUME clockBacks' = 0 PROVE FilesOfRuns' /\ \A r \in Report : Separate(r)' => InOrder(r)'
    <3>1. clockBacks = 0
      BY <2>5, <2>7 DEF RunsAs
    <3>2. FilesOfRuns'
      BY <2>5, <2>6, <3>1, RunIsOfRuns DEF FilesInv
    <3>3. ASSUME NEW r \in Report, Separate(r)' PROVE InOrder(r)'
      <4>1. /\ \A q \in Report : ToSet(written[q]) \subseteq ToSet(written'[q])
            /\ defs' = defs
        BY <2>5, <2>6, RunFacts DEF RunsAs
      <4>2. InOrder(r)
        BY <3>1, <3>3, <4>1, ApartBefore DEF FilesInv
      <4>3. CASE r = u
        BY <2>5, <2>6, <3>1, <3>3, <4>2, <4>3, OwnRunKeepsOrder DEF FilesInv
      <4>4. CASE r # u
        <5>1. r \in Report \ {u}
          BY <4>4
        <5>2. QED
          BY <2>5, <2>6, <3>3, <4>2, <5>1, OthersKeepOrder
      <4>5. QED
        BY <4>3, <4>4
    <3>4. QED
      BY <3>2, <3>3
  <2>8. QED
    BY <2>6, <2>7 DEF FilesInv
<1>2. ASSUME NightPasses PROVE FilesInv'
  <2>1. instant \in Nat /\ instant' = instant + 2 /\ UNCHANGED <<defs, files, clockBacks, written>>
    BY <1>2 DEF NightPasses, FilesInv, FilesShape
  <2>2. FilesShape'
    BY <2>1 DEF FilesInv, FilesShape
  <2>3. \A f \in files : f.time \in Int
    BY DEF FilesInv, FilesShape, FolderTyped
  <2>4. FilesOfRuns => FilesOfRuns'
    BY <2>1, <2>3 DEF FilesOfRuns
  <2>5. \A r \in Report : (Separate(r)' => Separate(r)) /\ (InOrder(r) => InOrder(r)')
    BY <2>1 DEF Separate, InOrder
  <2>6. QED
    BY <2>1, <2>2, <2>4, <2>5 DEF FilesInv
<1>3. ASSUME ClockBack PROVE FilesInv'
  <2>1. /\ clockBacks \in Nat /\ clockBacks' = clockBacks + 1 /\ instant \in Nat
        /\ instant >= 2 /\ instant' = instant - 2 /\ UNCHANGED <<defs, files, written>>
    BY <1>3 DEF ClockBack, FilesInv, FilesShape
  <2>2. instant' \in Nat /\ clockBacks' \in Nat /\ clockBacks' # 0
    BY <2>1
  <2>3. FilesShape'
    BY <2>1, <2>2 DEF FilesInv, FilesShape
  <2>4. QED
    BY <2>2, <2>3 DEF FilesInv
<1>4. ASSUME UNCHANGED fileVars PROVE FilesInv'
  <2>1. UNCHANGED <<defs, files, instant, clockBacks, written>>
    BY <1>4 DEF fileVars
  <2>2. FilesShape' /\ (FilesOfRuns => FilesOfRuns')
    BY <2>1 DEF FilesInv, FilesShape, FilesOfRuns
  <2>3. \A r \in Report : (Separate(r)' => Separate(r)) /\ (InOrder(r) => InOrder(r)')
    BY <2>1 DEF Separate, InOrder
  <2>4. QED
    BY <2>1, <2>2, <2>3 DEF FilesInv
<1>5. QED
  BY <1>1, <1>2, <1>3, <1>4 DEF FilesNext

LEMMA FilesInvInit == FilesInit => FilesInv
<1> SUFFICES ASSUME FilesInit PROVE FilesInv
  OBVIOUS
<1>1. PICK s \in Stray \cup {{}} : files = {[file |-> f, time |-> 0 - 1] : f \in s}
  BY DEF FilesInit
<1>2. IsFiniteSet(s)
  BY FilesAssumption, FS_EmptySet
<1> DEFINE put == [f \in s |-> [file |-> f, time |-> 0 - 1]]
<1>3. put \in Surjection(s, files)
  BY <1>1 DEF Surjection
<1> HIDE DEF put
<1>4. IsFiniteSet(files)
  BY <1>2, <1>3, FS_Surjection
<1>5. \A f \in files : f = [file |-> f.file, time |-> f.time] /\ f.time = 0 - 1
  BY <1>1
<1>6. FolderTyped(files)
  BY <1>4, <1>5 DEF FolderTyped
<1>7. \A r \in Report : written[r] = <<>> /\ ToSet(written[r]) = {} /\ ListsOnce(written[r])
  BY DEF FilesInit, ListsOnce, ToSet
<1>8. FilesShape
  BY <1>6, <1>7 DEF FilesShape, FilesInit
<1>9. FilesOfRuns
  BY <1>5, <1>7 DEF FilesOfRuns, FilesInit
<1>10. \A r \in Report : InOrder(r)
  BY <1>7 DEF InOrder
<1>11. QED
  BY <1>8, <1>9, <1>10 DEF FilesInv

\* What the folder and the lists of what was written hold together, run after run.
THEOREM FilesInvariant == FilesSpec => []FilesInv
<1>1. QED
  BY FilesInvInit, FilesStep, PTL DEF FilesSpec

\* The newest reports of a schedule stay, as many as it keeps, while the clock goes forward
\* and no other schedule takes them for its own.
THEOREM NewestReportsStay == FilesSpec => []LastReportsKept
<1>1. FilesInv => LastReportsKept
  <2> SUFFICES ASSUME FilesInv, clockBacks = 0, NEW r \in Report, Separate(r),
                      NEW n, n = Min({defs[r].keep, Len(written[r])}),
                      NEW i \in (Len(written[r]) - n + 1)..Len(written[r])
               PROVE  written[r][i] \in Names(files)
    BY DEF LastReportsKept
  <2> DEFINE w == written[r]
             k == defs[r].keep
  <2>1. ListsOnce(w) /\ Len(w) \in Nat /\ DOMAIN w = 1..Len(w) /\ k \in Nat
    BY FilesAssumption DEF FilesInv, FilesShape, ListsOnce
  <2>2. n \in {k, Len(w)} /\ n <= k /\ n <= Len(w)
    <3>1. ASSUME NEW a \in Nat, NEW b \in Nat
          PROVE  Min({a, b}) \in {a, b} /\ Min({a, b}) <= a /\ Min({a, b}) <= b
      <4>1. \E x \in {a, b} : \A y \in {a, b} : x <= y
        <5>1. a <= b \/ b <= a
          OBVIOUS
        <5>2. QED
          BY <5>1
      <4>2. QED
        BY <4>1 DEF Min
    <3>2. QED
      BY <2>1, <3>1
  <2>3. i \in DOMAIN w /\ Len(w) - i < k
    BY <2>1, <2>2
  <2>4. IsFiniteSet(Later(w, w[i])) /\ Cardinality(Later(w, w[i])) <= Len(w) - i
    BY <2>1, <2>3, LaterBounded
  <2>5. Cardinality(Later(w, w[i])) \in Nat
    BY <2>4, FS_CardinalityType
  <2>6. ~(Cardinality(Later(w, w[i])) >= k)
    BY <2>1, <2>3, <2>4, <2>5
  <2>7. w[i] \in ToSet(w)
    BY <2>3 DEF ToSet
  <2>8. QED
    BY <2>6, <2>7 DEF FilesInv, InOrder
<1>2. QED
  BY <1>1, FilesInvariant, PTL

-----------------------------------------------------------------------------
(* The names of reports, and the run of the three together.                  *)

\* The least and the greatest of some positions.
LEMMA PositionBounds ==
  ASSUME NEW n \in Nat, NEW kept \in SUBSET (1..n), kept # {}
  PROVE  Min(kept) \in 1..n /\ Max(kept) \in 1..n
<1>1. kept \in SUBSET Nat /\ \A x \in kept : x <= n
  OBVIOUS
<1>2. \E x \in kept : \A y \in kept : x <= y
  BY <1>1, LeastExists
<1>3. Min(kept) \in kept
  BY <1>2 DEF Min
<1>4. Max(kept) \in kept
  BY MaxOfPositions
<1>5. QED
  BY <1>3, <1>4

\* A name is a sequence no longer than names may be.
LEMMA SanitizedIsShort ==
  ASSUME NEW S, NEW s \in Seq(S)
  PROVE  Len(Sanitized(s)) \in Nat /\ Len(Sanitized(s)) <= MaxStem
<1> DEFINE kept == {i \in 1..Len(s) : s[i] # "."}
           inner == IF kept = {} THEN <<>> ELSE SubSeq(s, Min(kept), Max(kept))
           cut == Min({Len(inner), MaxStem})
<1>1. MaxStem \in Nat \ {0}
  BY FilesAssumption
<1>2. inner \in Seq(S)
  <2>1. CASE kept = {}
    BY <2>1
  <2>2. CASE kept # {}
    <3>1. Len(s) \in Nat /\ kept \in SUBSET (1..Len(s))
      OBVIOUS
    <3>2. Min(kept) \in 1..Len(s) /\ Max(kept) \in 1..Len(s)
      BY <2>2, <3>1, PositionBounds
    <3> DEFINE a == Min(kept)
               b == Max(kept)
    <3>3. inner = SubSeq(s, a, b)
      BY <2>2
    <3> HIDE DEF a, b, inner, kept
    <3>4. a \in 1..Len(s) /\ b \in 1..Len(s)
      BY <3>2 DEF a, b
    <3>5. SubSeq(s, a, b) \in Seq(S)
      BY <3>1, <3>4
    <3>6. QED
      BY <3>3, <3>5
  <2>3. QED
    BY <2>1, <2>2
<1>3. Sanitized(s) = IF inner = <<>> THEN <<"export">> ELSE SubSeq(inner, 1, cut)
  BY DEF Sanitized
<1> HIDE DEF inner
<1>4. cut \in Nat /\ cut <= Len(inner) /\ cut <= MaxStem
  <2>1. Len(inner) \in Nat
    BY <1>2
  <2>2. {Len(inner), MaxStem} \in SUBSET Nat /\ {Len(inner), MaxStem} # {}
    BY <1>1, <2>1
  <2>3. \E x \in {Len(inner), MaxStem} : \A y \in {Len(inner), MaxStem} : x <= y
    BY <2>2, LeastExists
  <2>4. cut \in {Len(inner), MaxStem} /\ \A y \in {Len(inner), MaxStem} : cut <= y
    BY <2>3 DEF Min
  <2>5. QED
    BY <2>2, <2>4
<1> HIDE DEF cut
<1>5. SubSeq(inner, 1, cut) \in Seq(S) /\ Len(SubSeq(inner, 1, cut)) = cut
  BY <1>2, <1>4
<1>6. QED
  BY <1>1, <1>3, <1>4, <1>5

LEMMA NameIsShort ==
  ASSUME NEW d \in Definition, NEW t
  PROVE  Len(OutputFilename(d, t).stem) <= MaxStem
<1> DEFINE piece(p) == IF p = "name" THEN d.name ELSE IF p = "date" THEN <<Day[t \div 2 + 1]>> ELSE <<p>>
           S == ToSet(d.name) \cup ToSet(d.pattern) \cup {Day[t \div 2 + 1]}
           q == [i \in DOMAIN d.pattern |-> piece(d.pattern[i])]
<1>1. d.name \in Seq(ToSet(d.name)) /\ d.pattern \in Seq(ToSet(d.pattern))
  BY FilesAssumption
<1>2. d.name \in Seq(S)
  BY <1>1
<1>3. \A i \in DOMAIN d.pattern : piece(d.pattern[i]) \in Seq(S)
  <2> SUFFICES ASSUME NEW i \in DOMAIN d.pattern PROVE piece(d.pattern[i]) \in Seq(S)
    OBVIOUS
  <2>1. d.pattern[i] \in S /\ Day[t \div 2 + 1] \in S
    BY <1>1
  <2>2. <<d.pattern[i]>> \in Seq(S) /\ <<Day[t \div 2 + 1]>> \in Seq(S)
    BY <2>1
  <2>3. QED
    BY <1>2, <2>2
<1>4. DOMAIN d.pattern = 1..Len(d.pattern) /\ Len(d.pattern) \in Nat
  BY <1>1
<1> HIDE DEF piece, S
<1>5. q \in Seq(Seq(S))
  BY <1>3, <1>4
<1>6. FlattenSeq(q) \in Seq(S)
  BY <1>5, FlattenIsSeq
<1>7. OutputFilename(d, t).stem = Sanitized(FlattenSeq(q))
  BY DEF OutputFilename, piece
<1> HIDE DEF q
<1>8. QED
  BY <1>6, <1>7, SanitizedIsShort

\* Files are of instants past or of before the first, and have names of what may be written.
FilesBounded ==
  /\ instant <= LastNow
  /\ \A f \in files : f.time \in (0 - 1)..LastNow /\ Len(f.file.stem) <= MaxStem

LEMMA FilesBoundedInit == FilesInit => FilesBounded
<1> SUFFICES ASSUME FilesInit PROVE FilesBounded
  OBVIOUS
<1>1. PICK s \in Stray \cup {{}} : files = {[file |-> f, time |-> 0 - 1] : f \in s}
  BY DEF FilesInit
<1>2. \A f \in s : Len(f.stem) <= MaxStem
  BY FilesAssumption
<1>3. QED
  BY <1>1, <1>2, FilesAssumption DEF FilesInit, FilesBounded

LEMMA FilesBoundedStep == FilesInv /\ FilesBounded /\ [FilesNext]_fileVars => FilesBounded'
<1> SUFFICES ASSUME FilesInv, FilesBounded, [FilesNext]_fileVars PROVE FilesBounded'
  OBVIOUS
<1>1. instant \in Nat /\ LastNow \in Nat /\ defs \in [Report -> Definition]
  BY FilesAssumption DEF FilesInv, FilesShape
<1>2. ASSUME NEW u \in Report, RunReport(u) PROVE FilesBounded'
  <2> DEFINE file == OutputFilename(defs[u], instant)
             fs == {f \in files : f.file # file} \cup {[file |-> file, time |-> instant]}
  <2>1. PICK gone : files' = fs \ gone
    BY <1>2 DEF RunReport
  <2>2. instant < LastNow /\ instant' = instant + 1
    BY <1>2 DEF RunReport
  <2>3. Len(file.stem) <= MaxStem
    BY <1>1, NameIsShort
  <2> HIDE DEF file
  <2>4. \A f \in fs : f.time \in (0 - 1)..LastNow /\ Len(f.file.stem) <= MaxStem
    BY <1>1, <2>2, <2>3 DEF FilesBounded
  <2> HIDE DEF fs
  <2>5. QED
    BY <1>1, <2>1, <2>2, <2>4 DEF FilesBounded
<1>3. ASSUME NightPasses \/ ClockBack PROVE FilesBounded'
  BY <1>1, <1>3 DEF NightPasses, ClockBack, FilesBounded
<1>4. ASSUME UNCHANGED fileVars PROVE FilesBounded'
  BY <1>4 DEF fileVars, FilesBounded
<1>5. QED
  BY <1>2, <1>3, <1>4 DEF FilesNext

LEMMA FilesTyped == FilesInv /\ FilesBounded => FilesTypeOK
BY DEF FilesInv, FilesShape, FolderTyped, FilesBounded, FilesTypeOK

\* The folder is well typed, and no name in it is longer than names may be
\* (domain/mod.rs sanitize_filename).
THEOREM FilesTypeCorrect == FilesSpec => []FilesTypeOK
<1>1. FilesInit => FilesInv /\ FilesBounded
  BY FilesInvInit, FilesBoundedInit
<1>2. FilesInv /\ FilesBounded /\ [FilesNext]_fileVars => (FilesInv /\ FilesBounded)'
  BY FilesStep, FilesBoundedStep
<1>3. QED
  BY <1>1, <1>2, FilesTyped, PTL DEF FilesSpec

\* Types of the comparison, the plan and the folder, whichever a behaviour drives, and a
\* comparison that releases what it opened.
THEOREM SlicesRunIsWellFormed == SlicesSpec => []WellFormed
<1> DEFINE Inv == DiffInv /\ FilesInv /\ FilesBounded
<1>1. SlicesInit => Inv
  BY DiffStarts, FilesInvInit, FilesBoundedInit DEF SlicesInit
<1>2. Inv /\ [SlicesNext]_<<diffVars, planVars, fileVars, driven>> => Inv'
  <2> SUFFICES ASSUME Inv, [SlicesNext]_<<diffVars, planVars, fileVars, driven>> PROVE Inv'
    OBVIOUS
  <2>1. [DiffNext]_diffVars /\ [FilesNext]_fileVars
    BY DEF SlicesNext
  <2>2. QED
    BY <2>1, DiffStep, FilesStep, FilesBoundedStep
<1>3. Inv => WellFormed
  BY FilesTyped DEF DiffInv, WellFormed
<1>4. QED
  BY <1>1, <1>2, <1>3, PTL DEF SlicesSpec

-----------------------------------------------------------------------------
(* What Postgres makes of a statement.                                       *)

Snap(columns, index) == [columns |-> columns, index |-> index]
WithOne(f, x, v) == [f EXCEPT ![x] = v]
Retyped(cell, ty) == [cell EXCEPT !.type = ty]
WithCell(C, t, c, v) == [C EXCEPT ![t][c] = v]

LEMMA SnapFacts ==
  ASSUME NEW C, NEW I
  PROVE  Snap(C, I).columns = C /\ Snap(C, I).index = I /\ Snap(C, I) # Rejected
<1>1. Snap(C, I).columns = C /\ Snap(C, I).index = I
  BY DEF Snap
<1>2. DOMAIN Snap(C, I) = {"columns", "index"} /\ DOMAIN Rejected = {"rejected"}
  BY DEF Snap, Rejected
<1>3. "index" \notin {"rejected"}
  OBVIOUS
<1>4. QED
  BY <1>1, <1>2, <1>3

LEMMA SnapChanged ==
  ASSUME NEW C, NEW I, NEW s, s = Snap(C, I)
  PROVE  /\ s.columns = C /\ s.index = I /\ s # Rejected
         /\ \A t, v : [s EXCEPT !.columns[t] = v] = Snap(WithOne(C, t, v), I)
         /\ \A t, c, v : [s EXCEPT !.columns[t][c] = v] = Snap(WithCell(C, t, c, v), I)
         /\ \A i, v : [s EXCEPT !.index[i] = v] = Snap(C, WithOne(I, i, v))
<1>1. s.columns = C /\ s.index = I /\ s # Rejected
  BY SnapFacts
<1>2. s = [columns |-> C, index |-> I]
  BY DEF Snap
<1>3. ASSUME NEW t, NEW v PROVE [s EXCEPT !.columns[t] = v] = Snap(WithOne(C, t, v), I)
  BY <1>2 DEF Snap, WithOne
<1>4. ASSUME NEW t, NEW c, NEW v PROVE [s EXCEPT !.columns[t][c] = v] = Snap(WithCell(C, t, c, v), I)
  BY <1>2 DEF Snap, WithCell
<1>5. ASSUME NEW i, NEW v PROVE [s EXCEPT !.index[i] = v] = Snap(C, WithOne(I, i, v))
  BY <1>2 DEF Snap, WithOne
<1>6. QED
  BY <1>1, <1>3, <1>4, <1>5

LEMMA CreateExecuted ==
  ASSUME NEW C, NEW I, NEW q, q.kind = "create"
  PROVE  Execute(Snap(C, I), q)
           = IF \E c, d \in KeyColumns(q.columns) : c # d THEN Rejected
             ELSE Snap(WithOne(C, q.table, q.columns), I)
<1> DEFINE s == Snap(C, I)
<1> HIDE DEF s
<1>1. s = Snap(C, I)
  BY DEF s
<1>2. s # Rejected
  BY <1>1, SnapFacts
<1>3. Rejects(s, q) <=> \E c, d \in KeyColumns(q.columns) : c # d
  BY DEF Rejects
<1>4. [s EXCEPT !.columns[q.table] = q.columns] = Snap(WithOne(C, q.table, q.columns), I)
  <2> DEFINE t == q.table
             v == q.columns
  <2> HIDE DEF t, v
  <2>1. [s EXCEPT !.columns[t] = v] = Snap(WithOne(C, t, v), I)
    BY <1>1, SnapChanged
  <2>2. QED
    BY <2>1 DEF t, v
<1>5. Execute(s, q) = IF Rejects(s, q) THEN Rejected ELSE [s EXCEPT !.columns[q.table] = q.columns]
  BY <1>2 DEF Execute
<1>6. QED
  BY <1>1, <1>3, <1>4, <1>5

LEMMA DropExecuted ==
  ASSUME NEW C, NEW I, NEW q, q.kind = "drop"
  PROVE  Execute(Snap(C, I), q)
           = Snap(WithOne(C, q.table, [c \in ColumnName |-> Absent]),
                  WithoutIndexes(Snap(C, I), IndexesOf(Snap(C, I), q.table)))
<1> DEFINE s == Snap(C, I)
<1>1. s.columns = C /\ s.index = I /\ s # Rejected
  BY SnapFacts
<1> HIDE DEF s
<1>2. ~Rejects(s, q)
  BY DEF Rejects
<1>3. Execute(s, q) = [columns |-> [s.columns EXCEPT ![q.table] = [c \in ColumnName |-> Absent]],
                       index |-> WithoutIndexes(s, IndexesOf(s, q.table))]
  BY <1>1, <1>2 DEF Execute
<1>4. QED
  BY <1>1, <1>3 DEF s, Snap, WithOne

LEMMA ColumnExecuted ==
  ASSUME NEW C, NEW I, NEW q
  PROVE  /\ q.kind = "col-add" =>
              Execute(Snap(C, I), q) = Snap(WithCell(C, q.table, q.column, [type |-> q.type, pk |-> FALSE]), I)
         /\ q.kind = "col-alter" =>
              Execute(Snap(C, I), q)
                = Snap(WithCell(C, q.table, q.column, Retyped(C[q.table][q.column], q.type)), I)
<1> DEFINE s == Snap(C, I)
           t == q.table
           c == q.column
<1> HIDE DEF s
<1>1. s = Snap(C, I)
  BY DEF s
<1>2. s.columns = C /\ s # Rejected
  BY <1>1, SnapFacts
<1>3. ASSUME q.kind = "col-add"
      PROVE  Execute(s, q) = Snap(WithCell(C, t, c, [type |-> q.type, pk |-> FALSE]), I)
  <2> DEFINE v == [type |-> q.type, pk |-> FALSE]
  <2>1. ~Rejects(s, q)
    BY <1>3 DEF Rejects
  <2>2. Execute(s, q) = [s EXCEPT !.columns[t][c] = v]
    BY <1>2, <1>3, <2>1 DEF Execute
  <2> HIDE DEF v, t, c
  <2>3. [s EXCEPT !.columns[t][c] = v] = Snap(WithCell(C, t, c, v), I)
    BY <1>1, SnapChanged
  <2>4. QED
    BY <2>2, <2>3 DEF v
<1>4. ASSUME q.kind = "col-alter"
      PROVE  Execute(s, q) = Snap(WithCell(C, t, c, Retyped(C[t][c], q.type)), I)
  <2> DEFINE v == Retyped(C[t][c], q.type)
  <2>1. ~Rejects(s, q)
    BY <1>4 DEF Rejects
  <2>2. Execute(s, q) = [s EXCEPT !.columns[t][c] = [s.columns[t][c] EXCEPT !.type = q.type]]
    BY <1>2, <1>4, <2>1 DEF Execute
  <2>3. [s.columns[t][c] EXCEPT !.type = q.type] = v
    BY <1>2 DEF Retyped
  <2> HIDE DEF v, t, c
  <2>4. [s EXCEPT !.columns[t][c] = v] = Snap(WithCell(C, t, c, v), I)
    BY <1>1, SnapChanged
  <2>5. QED
    BY <2>2, <2>3, <2>4 DEF v
<1>5. QED
  BY <1>1, <1>3, <1>4

LEMMA ColumnDropExecuted ==
  ASSUME NEW C, NEW I, NEW q, q.kind = "col-drop"
  PROVE  Execute(Snap(C, I), q)
           = Snap(WithCell(C, q.table, q.column, Absent),
                  WithoutIndexes(Snap(C, I), {i \in IndexesOf(Snap(C, I), q.table) : q.column \in I[i].on}))
<1> DEFINE s == Snap(C, I)
<1>1. s.columns = C /\ s.index = I /\ s # Rejected
  BY SnapFacts
<1> HIDE DEF s
<1>2. ~Rejects(s, q)
  BY DEF Rejects
<1>3. Execute(s, q) = [columns |-> [s.columns EXCEPT ![q.table][q.column] = Absent],
                       index |-> WithoutIndexes(s, {i \in IndexesOf(s, q.table) : q.column \in s.index[i].on})]
  BY <1>1, <1>2 DEF Execute
<1>4. QED
  BY <1>1, <1>3 DEF s, Snap, WithCell

LEMMA IndexExecuted ==
  ASSUME NEW C, NEW I, NEW q, q.kind = "index"
  PROVE  Execute(Snap(C, I), q)
           = IF I[q.index] # Absent THEN Rejected
             ELSE Snap(C, WithOne(I, q.index, [table |-> q.table, on |-> q.on]))
<1> DEFINE s == Snap(C, I)
           i == q.index
           v == [table |-> q.table, on |-> q.on]
<1> HIDE DEF s
<1>1. s = Snap(C, I)
  BY DEF s
<1>2. s.index = I /\ s # Rejected
  BY <1>1, SnapFacts
<1>3. Rejects(s, q) <=> I[i] # Absent
  BY <1>2 DEF Rejects
<1>4. Execute(s, q) = IF Rejects(s, q) THEN Rejected ELSE [s EXCEPT !.index[i] = v]
  BY <1>2 DEF Execute
<1> HIDE DEF v, i
<1>5. [s EXCEPT !.index[i] = v] = Snap(C, WithOne(I, i, v))
  BY <1>1, SnapChanged
<1>6. QED
  BY <1>1, <1>3, <1>4, <1>5 DEF v, i

LEMMA IndexDropExecuted ==
  ASSUME NEW C, NEW I, NEW q, q.kind = "index-drop"
  PROVE  Execute(Snap(C, I), q) = IF I[q.index] = Absent THEN Rejected ELSE Snap(C, WithOne(I, q.index, Absent))
<1> DEFINE s == Snap(C, I)
           i == q.index
<1> HIDE DEF s
<1>1. s = Snap(C, I)
  BY DEF s
<1>2. s.index = I /\ s # Rejected
  BY <1>1, SnapFacts
<1>3. Rejects(s, q) <=> I[i] = Absent
  BY <1>2 DEF Rejects
<1>4. Execute(s, q) = IF Rejects(s, q) THEN Rejected ELSE [s EXCEPT !.index[i] = Absent]
  BY <1>2 DEF Execute
<1> HIDE DEF i
<1>5. [s EXCEPT !.index[i] = Absent] = Snap(C, WithOne(I, i, Absent))
  BY <1>1, SnapChanged
<1>6. QED
  BY <1>1, <1>3, <1>4, <1>5 DEF i

\* By counting through an enumeration of the set.
LEMMA FiniteIsBounded ==
  ASSUME NEW S \in SUBSET Nat, IsFiniteSet(S)
  PROVE  \E n \in Nat : \A x \in S : x <= n
<1>1. PICK f : Cardinality(S) \in Nat /\ f \in [1..Cardinality(S) -> S] /\ \A x \in S : \E k \in 1..Cardinality(S) : f[k] = x
  BY FS_CardinalityType DEF ExistsBijection, Bijection, Surjection
<1> DEFINE N == Cardinality(S)
           G == {k \in 0..N : \E n \in Nat : \A j \in 1..k : f[j] <= n}
<1> HIDE DEF N
<1>2. N \in Nat /\ f \in [1..N -> S] /\ \A x \in S : \E k \in 1..N : f[k] = x
  BY <1>1 DEF N
<1>3. 0 \in G
  <2>1. 0 \in 0..N /\ 0 \in Nat /\ 1..0 = {}
    BY <1>2
  <2>2. \A j \in 1..0 : f[j] <= 0
    BY <2>1
  <2>3. QED
    BY <2>1, <2>2
<1>4. ASSUME NEW k \in 0..(N - 1), k \in G PROVE k + 1 \in G
  <2>1. PICK n \in Nat : \A j \in 1..k : f[j] <= n
    BY <1>4
  <2>2. k + 1 \in 0..N /\ k + 1 \in 1..N /\ \A j \in 1..(k + 1) : j \in 1..k \/ j = k + 1
    BY <1>2
  <2>3. f[k + 1] \in Nat /\ \A j \in 1..k : f[j] \in Nat
    <3>1. \A j \in 1..k : j \in 1..N
      BY <1>2
    <3>2. QED
      BY <1>2, <2>2, <3>1
  <2>4. n + f[k + 1] \in Nat /\ \A j \in 1..(k + 1) : f[j] <= n + f[k + 1]
    BY <2>1, <2>2, <2>3
  <2>5. \E m \in Nat : \A j \in 1..(k + 1) : f[j] <= m
    BY <2>4
  <2>6. QED
    BY <2>2, <2>5
<1>5. 0..N \subseteq G
  <2> HIDE DEF G
  <2>1. QED
    BY <1>2, <1>3, <1>4, CountingUp
<1>6. N \in G
  <2> HIDE DEF G
  <2>1. QED
    BY <1>2, <1>5
<1>7. PICK n \in Nat : \A j \in 1..N : f[j] <= n
  BY <1>6
<1>8. \A x \in S : x <= n
  BY <1>2, <1>7
<1>9. QED
  BY <1>8

\* The names, put in their order.
LEMMA SortedAscends ==
  ASSUME NEW S \in SUBSET (Nat \ {0}), IsFiniteSet(S)
  PROVE  Ascends(Sorted(S), S)
<1>1. PICK n \in Nat : \A x \in S : x <= n
  <2>1. S \in SUBSET Nat
    OBVIOUS
  <2>2. QED
    BY <2>1, FiniteIsBounded
<1>2. S \in SUBSET (1..n)
  BY <1>1
<1> DEFINE c == Cardinality(S)
           rank(x) == Cardinality({y \in S : y <= x})
           q == Sorted(S)
           pick(k) == CHOOSE x \in S : rank(x) = k
<1>3. /\ c \in Nat
      /\ \A x \in S : rank(x) \in 1..c
      /\ \A x, z \in S : x < z => rank(x) < rank(z)
      /\ \A k \in 1..c : \E x \in S : rank(x) = k
  BY <1>2, Ranks
<1>4. q = [k \in 1..c |-> pick(k)]
  BY DEF Sorted
<1> HIDE DEF c, rank, q
<1>5. \A k \in 1..c : pick(k) \in S /\ rank(pick(k)) = k
  BY <1>3
<1> HIDE DEF pick
<1>6. /\ DOMAIN q = 1..c /\ \A k \in 1..c : q[k] \in S /\ rank(q[k]) = k
      /\ \A x \in S : x \in Int
  BY <1>4, <1>5
<1>7. q \in Seq(S) /\ Len(q) = c
  BY <1>3, <1>4, <1>6
<1>8. \A i, j \in 1..c : i < j => q[i] < q[j]
  <2> SUFFICES ASSUME NEW i \in 1..c, NEW j \in 1..c, i < j PROVE q[i] < q[j]
    OBVIOUS
  <2>1. /\ q[i] \in S /\ q[j] \in S /\ q[i] \in Int /\ q[j] \in Int
        /\ rank(q[i]) = i /\ rank(q[j]) = j
    BY <1>6
  <2>2. q[j] < q[i] => j < i
    BY <1>3, <2>1
  <2>3. q[i] # q[j]
    BY <1>6
  <2>4. QED
    BY <1>3, <2>1, <2>2, <2>3
<1>9. ASSUME NEW x \in S PROVE \E k \in 1..c : q[k] = x
  <2>1. rank(x) \in 1..c
    BY <1>3
  <2>2. PICK k \in 1..c : k = rank(x)
    BY <2>1
  <2>3. q[k] \in S /\ rank(q[k]) = rank(x)
    BY <1>6, <2>2
  <2>4. q[k] \in Int /\ x \in Int /\ k \in Int
    <3>1. c \in Nat
      BY <1>3
    <3>2. k \in Int
      BY <3>1
    <3>3. QED
      BY <1>6, <2>3, <3>2
  <2>5. ~(q[k] < x) /\ ~(x < q[k])
    <3>1. rank(x) \in Int /\ rank(q[k]) = rank(x)
      BY <2>2, <2>3, <2>4
    <3>2. ~(rank(x) < rank(x))
      BY <3>1
    <3>3. QED
      BY <1>3, <2>3, <3>1, <3>2
  <2>6. QED
    BY <2>4, <2>5
<1>10. ToSet(q) = S
  BY <1>6, <1>9 DEF ToSet
<1>11. QED
  BY <1>6, <1>7, <1>8, <1>10 DEF Ascends, q

-----------------------------------------------------------------------------
(* A script run.                                                             *)

Script == INSTANCE SequenceFacts WITH FoldStep <- Execute

Ran(s, q) == FoldLeft(Execute, s, q)

LEMMA RanIsFolded ==
  ASSUME NEW s, NEW q
  PROVE  Ran(s, q) = Script!Folded(s, q)
BY DEF Ran, Script!Folded, Script!FoldLeft, Script!MapThenFoldSet, FoldLeft, MapThenFoldSet,
       Max, Script!Max

IsScript(q) == \E Q : q \in Seq(Q)

\* One script and then another.
LEMMA RanOfConcat ==
  ASSUME NEW s, NEW p, NEW q, IsScript(p), IsScript(q)
  PROVE  Ran(s, p \o q) = Ran(Ran(s, p), q) /\ IsScript(p \o q)
<1>1. PICK P, Q : p \in Seq(P) /\ q \in Seq(Q)
  BY DEF IsScript
<1>2. p \o q \in Seq(P \cup Q)
  BY <1>1
<1>3. Script!Folded(s, p \o q) = Script!Folded(Script!Folded(s, p), q)
  BY <1>1, Script!FoldOfConcat
<1>4. QED
  BY <1>2, <1>3, RanIsFolded DEF IsScript

\* A transaction that was refused stays so.
LEMMA RejectedStays ==
  ASSUME NEW q, IsScript(q)
  PROVE  Ran(Rejected, q) = Rejected
<1> PICK Q : q \in Seq(Q)
  BY DEF IsScript
<1>1. \A x \in {Rejected} : \A k \in 1..Len(q) : Execute(x, q[k]) \in {Rejected}
  BY DEF Execute
<1>2. Script!Folded(Rejected, q) \in {Rejected}
  BY <1>1, Script!FoldKeeps
<1>3. QED
  BY <1>2, RanIsFolded

LEMMA BelowUpTo ==
  ASSUME NEW S \in SUBSET Nat, NEW x \in S
  PROVE  /\ PlacesBelow(S, x) \in SUBSET S /\ x \notin PlacesBelow(S, x)
         /\ UpTo(S, x) = PlacesBelow(S, x) \cup {x}
         /\ Script!PlacesBelow(S, x) = PlacesBelow(S, x) /\ Script!UpTo(S, x) = UpTo(S, x)
<1>1. \A y \in S : y \in Nat /\ x \in Nat
  OBVIOUS
<1>2. \A y \in S : (y <= x <=> y < x \/ y = x) /\ ~(x < x)
  BY <1>1
<1>3. QED
  BY <1>2 DEF PlacesBelow, UpTo, Script!PlacesBelow, Script!UpTo

LEMMA ScriptAscends ==
  ASSUME NEW S \in SUBSET (Nat \ {0}), IsFiniteSet(S)
  PROVE  Script!Ascends(Sorted(S), S)
BY SortedAscends DEF Ascends, Script!Ascends, ToSet, Script!ToSet

\* Statements of which each changes what it changes whichever were run before.
OneByOne(S, g, X) ==
  DOMAIN g = S /\ \A D \in SUBSET S : \A x \in S \ D : Execute(X[D], g[x]) = X[D \cup {x}]

LEMMA OverRuns ==
  ASSUME NEW S \in SUBSET (Nat \ {0}), IsFiniteSet(S), NEW g, NEW X, OneByOne(S, g, X)
  PROVE  Ran(X[{}], Over(g)) = X[S] /\ IsScript(Over(g))
<1> DEFINE q == Sorted(S)
<1>1. S \in SUBSET Nat /\ Script!Ascends(q, S) /\ Ascends(q, S)
  BY ScriptAscends, SortedAscends
<1>2. Over(g) = [k \in 1..Len(q) |-> g[q[k]]]
  BY DEF Over, OneByOne
<1> HIDE DEF q
<1> DEFINE s == [k \in 1..Len(q) |-> g[q[k]]]
           Q == {g[x] : x \in S}
<1>3. Len(q) \in Nat /\ \A k \in 1..Len(q) : q[k] \in S
  BY <1>1 DEF Ascends
<1>4. s \in Seq(Q) /\ Len(s) = Len(q) /\ \A k \in 1..Len(q) : s[k] = g[q[k]]
  <2>1. \A k \in 1..Len(q) : g[q[k]] \in Q
    BY <1>3
  <2> HIDE DEF Q
  <2>2. QED
    BY <1>3, <2>1
<1> HIDE DEF s, Q
<1>5. ASSUME NEW k \in 1..Len(q)
      PROVE  Execute(X[Script!PlacesBelow(S, q[k])], s[k]) = X[Script!UpTo(S, q[k])]
  <2>1. q[k] \in S /\ s[k] = g[q[k]]
    BY <1>3, <1>4
  <2>2. /\ PlacesBelow(S, q[k]) \in SUBSET S /\ q[k] \notin PlacesBelow(S, q[k])
        /\ Script!PlacesBelow(S, q[k]) = PlacesBelow(S, q[k]) /\ Script!UpTo(S, q[k]) = PlacesBelow(S, q[k]) \cup {q[k]}
    BY <1>1, <2>1, BelowUpTo
  <2>3. Execute(X[PlacesBelow(S, q[k])], g[q[k]]) = X[PlacesBelow(S, q[k]) \cup {q[k]}]
    BY <2>1, <2>2 DEF OneByOne
  <2>4. QED
    BY <2>1, <2>2, <2>3
<1>6. Script!StepByStep(S, q, Q, s, X)
  BY <1>1, <1>4, <1>5 DEF Script!StepByStep
<1>7. Script!Folded(X[{}], s) = X[S]
  BY ONLY <1>6, Script!FoldAscending
<1>8. IsScript(s)
  BY <1>4 DEF IsScript
<1>9. QED
  BY <1>2, <1>7, <1>8, RanIsFolded DEF s

\* Scripts of tables, one table's after another's.
TableByTable(S, g, X) ==
  DOMAIN g = S /\ \A x \in S : IsScript(g[x]) /\ Ran(X[PlacesBelow(S, x)], g[x]) = X[PlacesBelow(S, x) \cup {x}]

LEMMA OverFlattened ==
  ASSUME NEW S \in SUBSET (Nat \ {0}), IsFiniteSet(S), NEW g, NEW X, TableByTable(S, g, X)
  PROVE  Ran(X[{}], FlattenSeq(Over(g))) = X[S] /\ IsScript(FlattenSeq(Over(g)))
<1> DEFINE q == Sorted(S)
           Q == UNION {ToSet(g[x]) : x \in S}
           T == Seq(Q)
<1>1. S \in SUBSET Nat /\ Script!Ascends(q, S)
  BY ScriptAscends
<1>2. Over(g) = [k \in 1..Len(q) |-> g[q[k]]]
  BY DEF Over, TableByTable
<1> HIDE DEF q
<1> DEFINE s == [k \in 1..Len(q) |-> g[q[k]]]
<1>3. Len(q) \in Nat /\ \A k \in 1..Len(q) : q[k] \in S
  BY <1>1 DEF Script!Ascends
<1>4. ASSUME NEW x \in S PROVE g[x] \in Seq(Q)
  <2>1. PICK P : g[x] \in Seq(P)
    BY DEF IsScript, TableByTable
  <2>2. ToSet(g[x]) \subseteq Q
    <3> DEFINE U == ToSet(g[x])
    <3>1. U \in {ToSet(g[y]) : y \in S}
      OBVIOUS
    <3> HIDE DEF U
    <3>2. QED
      BY <3>1 DEF U
  <2>3. Len(g[x]) \in Nat /\ DOMAIN g[x] = 1..Len(g[x]) /\ g[x] = [k \in 1..Len(g[x]) |-> g[x][k]]
    BY <2>1
  <2>4. \A k \in 1..Len(g[x]) : g[x][k] \in ToSet(g[x])
    BY <2>3 DEF ToSet
  <2> HIDE DEF Q
  <2>5. \A k \in 1..Len(g[x]) : g[x][k] \in Q
    BY <2>2, <2>4
  <2>6. QED
    BY <2>3, <2>5
<1> HIDE DEF Q
<1>5. s \in Seq(T) /\ Len(s) = Len(q) /\ \A k \in 1..Len(q) : s[k] = g[q[k]]
  <2>1. \A k \in 1..Len(q) : g[q[k]] \in T
    BY <1>3, <1>4
  <2> HIDE DEF T
  <2>2. QED
    BY <1>3, <2>1
<1> HIDE DEF s
<1>6. s \in Seq(Seq(Q))
  BY <1>5
<1>7. ASSUME NEW k \in 1..Len(q)
      PROVE  Script!Folded(X[Script!PlacesBelow(S, q[k])], s[k]) = X[Script!UpTo(S, q[k])]
  <2>1. q[k] \in S /\ s[k] = g[q[k]]
    BY <1>3, <1>5
  <2>2. Ran(X[PlacesBelow(S, q[k])], s[k]) = X[PlacesBelow(S, q[k]) \cup {q[k]}]
    BY <2>1 DEF TableByTable
  <2>3. Script!PlacesBelow(S, q[k]) = PlacesBelow(S, q[k]) /\ Script!UpTo(S, q[k]) = PlacesBelow(S, q[k]) \cup {q[k]}
    BY <1>1, <2>1, BelowUpTo
  <2>4. QED
    BY <2>2, <2>3, RanIsFolded
<1>8. Script!Folded(X[{}], Script!FlattenSeq(s)) = X[S]
  <2>1. Script!RunByRun(S, q, Q, s, X)
    <3>1. Len(s) = Len(q)
      BY <1>5
    <3>2. QED
      BY <1>1, <1>6, <1>7, <3>1, Zenon DEF Script!RunByRun
  <2>2. QED
    BY ONLY <2>1, Script!FoldFlattened
<1>9. Script!FlattenSeq(s) = FlattenSeq(s)
  BY DEF Script!FlattenSeq, FlattenSeq
<1>10. IsScript(FlattenSeq(s))
  BY <1>6, FlattenIsSeq DEF IsScript
<1>11. QED
  BY <1>2, <1>8, <1>9, <1>10, RanIsFolded DEF s

-----------------------------------------------------------------------------
(* What the statements of a family make of a snapshot, all of them run.      *)

IsFun(f, S) == f = [x \in S |-> f[x]]
Put(f, D, v) == [x \in DOMAIN f |-> IF x \in D THEN v[x] ELSE f[x]]
Blank(S) == [x \in S |-> Absent]

LEMMA PutFacts ==
  ASSUME NEW S, NEW f, IsFun(f, S), NEW D, NEW v
  PROVE  /\ Put(f, {}, v) = f
         /\ IsFun(Put(f, D, v), S)
         /\ \A x \in S : Put(f, D, v)[x] = IF x \in D THEN v[x] ELSE f[x]
         /\ \A x \in S : WithOne(Put(f, D, v), x, v[x]) = Put(f, D \cup {x}, v)
<1>1. DOMAIN f = S
  BY DEF IsFun
<1>2. Put(f, {}, v) = f
  <2>1. Put(f, {}, v) = [x \in S |-> f[x]]
    BY <1>1 DEF Put
  <2>2. QED
    BY <2>1 DEF IsFun
<1>3. \A E : Put(f, E, v) = [x \in S |-> IF x \in E THEN v[x] ELSE f[x]]
  BY <1>1 DEF Put
<1>4. IsFun(Put(f, D, v), S) /\ \A x \in S : Put(f, D, v)[x] = IF x \in D THEN v[x] ELSE f[x]
  <2> DEFINE h == Put(f, D, v)
  <2>1. h = [x \in S |-> IF x \in D THEN v[x] ELSE f[x]]
    BY <1>3
  <2> HIDE DEF h
  <2>2. \A x \in S : h[x] = IF x \in D THEN v[x] ELSE f[x]
    BY <2>1
  <2>3. h = [x \in S |-> h[x]]
    BY <2>1
  <2>4. QED
    BY <2>2, <2>3 DEF IsFun, h
<1>5. ASSUME NEW x \in S PROVE WithOne(Put(f, D, v), x, v[x]) = Put(f, D \cup {x}, v)
  <2>1. Put(f, D, v) = [y \in S |-> IF y \in D THEN v[y] ELSE f[y]]
    BY <1>3
  <2>2. Put(f, D \cup {x}, v) = [y \in S |-> IF y \in D \cup {x} THEN v[y] ELSE f[y]]
    BY <1>3
  <2>3. QED
    BY <2>1, <2>2 DEF WithOne
<1>6. QED
  BY <1>2, <1>4, <1>5

LEMMA RowFacts ==
  ASSUME NEW S, NEW C, IsFun(C, S), NEW t \in S, NEW row
  PROVE  /\ WithOne(C, t, C[t]) = C
         /\ IsFun(WithOne(C, t, row), S) /\ WithOne(C, t, row)[t] = row
         /\ \A u \in S : u # t => WithOne(C, t, row)[u] = C[u]
         /\ \A x, w : WithCell(WithOne(C, t, row), t, x, w) = WithOne(C, t, WithOne(row, x, w))
         /\ \A r : WithOne(WithOne(C, t, row), t, r) = WithOne(C, t, r)
<1>1. DOMAIN C = S
  BY DEF IsFun
<1>2. WithOne(C, t, C[t]) = C
  <2>1. [C EXCEPT ![t] = C[t]] = [x \in S |-> C[x]]
    BY <1>1
  <2>2. QED
    BY <2>1 DEF IsFun, WithOne
<1>3. /\ IsFun(WithOne(C, t, row), S) /\ WithOne(C, t, row)[t] = row
      /\ \A u \in S : u # t => WithOne(C, t, row)[u] = C[u]
  BY <1>1 DEF IsFun, WithOne
<1>4. ASSUME NEW r PROVE WithOne(WithOne(C, t, row), t, r) = WithOne(C, t, r)
  BY <1>1 DEF WithOne
<1>5. ASSUME NEW x, NEW w
      PROVE  WithCell(WithOne(C, t, row), t, x, w) = WithOne(C, t, WithOne(row, x, w))
  <2> DEFINE K == WithOne(C, t, row)
  <2>1. K[t] = row
    BY <1>3
  <2>2. WithOne(K, t, WithOne(row, x, w)) = WithOne(C, t, WithOne(row, x, w))
    BY <1>4
  <2> HIDE DEF K
  <2>3. WithCell(K, t, x, w) = WithOne(K, t, WithOne(K[t], x, w))
    BY DEF WithCell, WithOne
  <2>4. QED
    BY <2>1, <2>2, <2>3 DEF K
<1>6. QED
  BY <1>2, <1>3, <1>4, <1>5

\* A cell of a row put, while others of it may have been.
RowPut(C, t, D, v) == WithOne(C, t, Put(C[t], D, v))

LEMMA CellPut ==
  ASSUME NEW C, IsFun(C, TableName), NEW t \in TableName, IsFun(C[t], ColumnName), NEW D, NEW v,
         NEW x \in ColumnName
  PROVE  WithCell(RowPut(C, t, D, v), t, x, v[x]) = RowPut(C, t, D \cup {x}, v)
<1>1. WithOne(Put(C[t], D, v), x, v[x]) = Put(C[t], D \cup {x}, v)
  BY PutFacts
<1>2. QED
  BY <1>1, RowFacts DEF RowPut

LEMMA RowPutFacts ==
  ASSUME NEW C, IsFun(C, TableName), NEW t \in TableName, IsFun(C[t], ColumnName), NEW D, NEW v
  PROVE  /\ RowPut(C, t, {}, v) = C
         /\ IsFun(RowPut(C, t, D, v), TableName) /\ RowPut(C, t, D, v)[t] = Put(C[t], D, v)
         /\ IsFun(RowPut(C, t, D, v)[t], ColumnName)
<1>1. Put(C[t], {}, v) = C[t] /\ IsFun(Put(C[t], D, v), ColumnName)
  BY PutFacts
<1> DEFINE row == Put(C[t], D, v)
<1>2. IsFun(WithOne(C, t, row), TableName) /\ WithOne(C, t, row)[t] = row
  BY RowFacts
<1>3. WithOne(C, t, C[t]) = C
  BY RowFacts
<1>4. QED
  BY <1>1, <1>2, <1>3 DEF RowPut

LEMMA NamesAreSome ==
  /\ \A D \in SUBSET TableName : D \in SUBSET (Nat \ {0}) /\ IsFiniteSet(D)
  /\ \A D \in SUBSET ColumnName : D \in SUBSET (Nat \ {0}) /\ IsFiniteSet(D)
  /\ \A D \in SUBSET IndexName : D \in SUBSET (Nat \ {0}) /\ IsFiniteSet(D)
<1>1. ASSUME NEW names \in {TableName, ColumnName, IndexName}, NEW D \in SUBSET names
      PROVE  D \in SUBSET (Nat \ {0}) /\ IsFiniteSet(D)
  BY PlanAssumption, FS_Subset
<1>2. QED
  BY <1>1

AddedCells(a, t) == [c \in ColumnName |-> [type |-> a.columns[t][c].type, pk |-> FALSE]]
AlteredCells(a, t, row) == [c \in ColumnName |-> Retyped(row[c], a.columns[t][c].type)]

\* The columns that are added, all of them: and so on for each family.
LEMMA AddsRun ==
  ASSUME NEW a, NEW b, NEW t \in TableName, NEW C, IsFun(C, TableName), IsFun(C[t], ColumnName), NEW I
  PROVE  /\ Ran(Snap(C, I), Over(ColumnsToAdd(a, b, t)))
              = Snap(RowPut(C, t, Added(a, b, t), AddedCells(a, t)), I)
         /\ IsScript(Over(ColumnsToAdd(a, b, t)))
<1> DEFINE S == Added(a, b, t)
           g == ColumnsToAdd(a, b, t)
           v == AddedCells(a, t)
           K(D) == RowPut(C, t, D, v)
           X == [D \in SUBSET S |-> Snap(K(D), I)]
<1>1. S \in SUBSET ColumnName /\ DOMAIN g = S
  BY DEF Added, ColumnsToAdd
<1>2. \A x \in S : /\ g[x].kind = "col-add" /\ g[x].table = t /\ g[x].column = x
                   /\ v[x] = [type |-> g[x].type, pk |-> FALSE]
  <2> SUFFICES ASSUME NEW x \in S
               PROVE  /\ g[x].kind = "col-add" /\ g[x].table = t /\ g[x].column = x
                      /\ v[x] = [type |-> g[x].type, pk |-> FALSE]
    OBVIOUS
  <2>1. g[x] = [kind |-> "col-add", table |-> t, column |-> x, type |-> a.columns[t][x].type]
    BY DEF ColumnsToAdd
  <2>2. v[x] = [type |-> a.columns[t][x].type, pk |-> FALSE]
    BY <1>1 DEF AddedCells
  <2>3. QED
    BY <2>1, <2>2
<1> HIDE DEF S, g, v
<1>3. K({}) = C
  BY RowPutFacts
<1>4. ASSUME NEW D, NEW x \in ColumnName PROVE WithCell(K(D), t, x, v[x]) = K(D \cup {x})
  BY CellPut
<1> HIDE DEF K
<1>5. \A D \in SUBSET S : X[D] = Snap(K(D), I)
  OBVIOUS
<1> HIDE DEF X
<1>6. ASSUME NEW D \in SUBSET S, NEW x \in S \ D PROVE Execute(X[D], g[x]) = X[D \cup {x}]
  <2>1. D \cup {x} \in SUBSET S /\ x \in S /\ x \in ColumnName
    BY <1>1
  <2>2. X[D] = Snap(K(D), I) /\ X[D \cup {x}] = Snap(K(D \cup {x}), I)
    BY <1>5, <2>1
  <2>3. Execute(Snap(K(D), I), g[x]) = Snap(WithCell(K(D), t, x, v[x]), I)
    <3>1. g[x].kind = "col-add" /\ g[x].table = t /\ g[x].column = x /\ v[x] = [type |-> g[x].type, pk |-> FALSE]
      BY <1>2, <2>1
    <3>2. Execute(Snap(K(D), I), g[x])
            = Snap(WithCell(K(D), g[x].table, g[x].column, [type |-> g[x].type, pk |-> FALSE]), I)
      BY <3>1, ColumnExecuted
    <3>3. QED
      BY <3>1, <3>2
  <2>4. QED
    BY <1>4, <2>1, <2>2, <2>3
<1>7. OneByOne(S, g, X)
  BY <1>1, <1>6 DEF OneByOne
<1>8. S \in SUBSET (Nat \ {0}) /\ IsFiniteSet(S)
  BY <1>1, NamesAreSome
<1>9. Ran(X[{}], Over(g)) = X[S] /\ IsScript(Over(g))
  BY <1>7, <1>8, OverRuns
<1>10. X[{}] = Snap(C, I) /\ X[S] = Snap(K(S), I)
  <2>1. {} \in SUBSET S /\ S \in SUBSET S
    OBVIOUS
  <2>2. QED
    BY <1>3, <1>5, <2>1
<1>11. QED
  BY <1>9, <1>10 DEF K, S, g, v

LEMMA AltersRun ==
  ASSUME NEW a, NEW b, NEW t \in TableName, NEW C, IsFun(C, TableName), IsFun(C[t], ColumnName), NEW I
  PROVE  /\ Ran(Snap(C, I), Over(ColumnsToAlter(a, b, t)))
              = Snap(RowPut(C, t, Altered(a, b, t), AlteredCells(a, t, C[t])), I)
         /\ IsScript(Over(ColumnsToAlter(a, b, t)))
<1> DEFINE S == Altered(a, b, t)
           g == ColumnsToAlter(a, b, t)
           v == AlteredCells(a, t, C[t])
           K(D) == RowPut(C, t, D, v)
           X == [D \in SUBSET S |-> Snap(K(D), I)]
<1>1. S \in SUBSET ColumnName /\ DOMAIN g = S
  BY DEF Altered, ColumnsToAlter
<1>2. ASSUME NEW x \in S
      PROVE  /\ g[x].kind = "col-alter" /\ g[x].table = t /\ g[x].column = x
             /\ v[x] = Retyped(C[t][x], g[x].type)
  <2>1. g[x] = [kind |-> "col-alter", table |-> t, column |-> x, type |-> a.columns[t][x].type]
    BY DEF ColumnsToAlter
  <2>2. v[x] = Retyped(C[t][x], a.columns[t][x].type)
    BY <1>1 DEF AlteredCells
  <2>3. QED
    BY <2>1, <2>2
<1> HIDE DEF S, g, v
<1>3. K({}) = C /\ \A D : K(D)[t] = Put(C[t], D, v)
  BY RowPutFacts
<1>4. ASSUME NEW D, NEW x \in ColumnName PROVE WithCell(K(D), t, x, v[x]) = K(D \cup {x})
  BY CellPut
<1> HIDE DEF K
<1>5. \A D \in SUBSET S : X[D] = Snap(K(D), I)
  OBVIOUS
<1> HIDE DEF X
<1>6. ASSUME NEW D \in SUBSET S, NEW x \in S \ D PROVE Execute(X[D], g[x]) = X[D \cup {x}]
  <2>1. D \cup {x} \in SUBSET S /\ x \in S /\ x \in ColumnName /\ x \notin D
    BY <1>1
  <2>2. X[D] = Snap(K(D), I) /\ X[D \cup {x}] = Snap(K(D \cup {x}), I)
    BY <1>5, <2>1
  <2>3. K(D)[t][x] = C[t][x]
    <3>1. Put(C[t], D, v)[x] = C[t][x]
      BY <2>1, PutFacts
    <3>2. QED
      BY <1>3, <3>1
  <2>4. Execute(Snap(K(D), I), g[x]) = Snap(WithCell(K(D), t, x, v[x]), I)
    <3>1. g[x].kind = "col-alter" /\ g[x].table = t /\ g[x].column = x /\ v[x] = Retyped(C[t][x], g[x].type)
      BY <1>2, <2>1
    <3>2. g[x].kind = "col-alter" /\ g[x].table = t /\ g[x].column = x /\ v[x] = Retyped(K(D)[t][x], g[x].type)
      BY <2>3, <3>1
    <3>3. Execute(Snap(K(D), I), g[x])
            = Snap(WithCell(K(D), g[x].table, g[x].column, Retyped(K(D)[g[x].table][g[x].column], g[x].type)), I)
      BY <3>2, ColumnExecuted
    <3>4. QED
      BY <3>2, <3>3
  <2>5. QED
    BY <1>4, <2>1, <2>2, <2>4
<1>7. OneByOne(S, g, X)
  BY <1>1, <1>6 DEF OneByOne
<1>8. S \in SUBSET (Nat \ {0}) /\ IsFiniteSet(S)
  BY <1>1, NamesAreSome
<1>9. Ran(X[{}], Over(g)) = X[S] /\ IsScript(Over(g))
  BY <1>7, <1>8, OverRuns
<1>10. X[{}] = Snap(C, I) /\ X[S] = Snap(K(S), I)
  <2>1. {} \in SUBSET S /\ S \in SUBSET S
    OBVIOUS
  <2>2. QED
    BY <1>3, <1>5, <2>1
<1>11. QED
  BY <1>9, <1>10 DEF K, S, g, v

\* The indexes of a table that are on one of some columns.
OnThese(I, t, D) == {i \in IndexName : I[i] # Absent /\ I[i].table = t /\ I[i].on \cap D # {}}
WithoutThese(I, gone) == Put(I, gone, Blank(IndexName))

LEMMA WithoutFacts ==
  ASSUME NEW I, IsFun(I, IndexName), NEW gone
  PROVE  /\ WithoutThese(I, {}) = I /\ IsFun(WithoutThese(I, gone), IndexName)
         /\ \A i \in IndexName : WithoutThese(I, gone)[i] = IF i \in gone THEN Absent ELSE I[i]
         /\ WithoutThese(I, gone) = [i \in IndexName |-> IF i \in gone THEN Absent ELSE I[i]]
         /\ \A C, more : WithoutIndexes(Snap(C, WithoutThese(I, gone)), more) = WithoutThese(I, gone \cup more)
<1>1. DOMAIN I = IndexName
  BY DEF IsFun
<1>2. \A D : WithoutThese(I, D) = [i \in IndexName |-> IF i \in D THEN Absent ELSE I[i]]
  BY <1>1 DEF WithoutThese, Put, Blank
<1>3. WithoutThese(I, {}) = I
  BY PutFacts DEF WithoutThese
<1>4. IsFun(WithoutThese(I, gone), IndexName)
  BY PutFacts DEF WithoutThese
<1>5. \A i \in IndexName : WithoutThese(I, gone)[i] = IF i \in gone THEN Absent ELSE I[i]
  BY <1>2
<1>6. ASSUME NEW C, NEW more
      PROVE  WithoutIndexes(Snap(C, WithoutThese(I, gone)), more) = WithoutThese(I, gone \cup more)
  <2> DEFINE J == WithoutThese(I, gone)
  <2>1. Snap(C, J).index = J
    BY SnapFacts
  <2>2. \A i \in IndexName : J[i] = IF i \in gone THEN Absent ELSE I[i]
    BY <1>5
  <2> HIDE DEF J
  <2>3. WithoutIndexes(Snap(C, J), more) = [i \in IndexName |-> IF i \in more THEN Absent ELSE J[i]]
    BY <2>1 DEF WithoutIndexes
  <2>4. WithoutThese(I, gone \cup more) = [i \in IndexName |-> IF i \in gone \cup more THEN Absent ELSE I[i]]
    BY <1>2
  <2>5. WithoutIndexes(Snap(C, J), more) = WithoutThese(I, gone \cup more)
    BY <2>2, <2>3, <2>4
  <2>6. QED
    BY <2>5 DEF J
<1>7. QED
  BY <1>2, <1>3, <1>4, <1>5, <1>6

LEMMA ColumnDropsRun ==
  ASSUME NEW a, NEW b, NEW t \in TableName, NEW C, IsFun(C, TableName), IsFun(C[t], ColumnName),
         NEW I, IsFun(I, IndexName)
  PROVE  /\ Ran(Snap(C, I), Over(ColumnsToDrop(a, b, t)))
              = Snap(RowPut(C, t, Added(b, a, t), Blank(ColumnName)),
                     WithoutThese(I, OnThese(I, t, Added(b, a, t))))
         /\ IsScript(Over(ColumnsToDrop(a, b, t)))
<1> DEFINE S == Added(b, a, t)
           g == ColumnsToDrop(a, b, t)
           v == Blank(ColumnName)
           K(D) == RowPut(C, t, D, v)
           J(D) == WithoutThese(I, OnThese(I, t, D))
           X == [D \in SUBSET S |-> Snap(K(D), J(D))]
<1>1. S \in SUBSET ColumnName /\ DOMAIN g = S
  BY DEF Added, ColumnsToDrop
<1>2. ASSUME NEW x \in S
      PROVE  g[x].kind = "col-drop" /\ g[x].table = t /\ g[x].column = x /\ v[x] = Absent
  <2>1. g[x] = [kind |-> "col-drop", table |-> t, column |-> x]
    BY DEF ColumnsToDrop
  <2>2. v[x] = Absent
    BY <1>1 DEF Blank
  <2>3. QED
    BY <2>1, <2>2
<1> HIDE DEF S, g, v
<1>3. K({}) = C
  BY RowPutFacts
<1>4. ASSUME NEW D, NEW x \in ColumnName PROVE WithCell(K(D), t, x, v[x]) = K(D \cup {x})
  BY CellPut
<1> HIDE DEF K
<1>5. J({}) = I
  <2>1. OnThese(I, t, {}) = {}
    BY DEF OnThese
  <2>2. QED
    BY <2>1, WithoutFacts
<1>6. ASSUME NEW D, NEW x
      PROVE  WithoutIndexes(Snap(K(D), J(D)), {i \in IndexesOf(Snap(K(D), J(D)), t) : x \in J(D)[i].on})
               = J(D \cup {x})
  <2> DEFINE gone == OnThese(I, t, D)
             H == J(D)
             more == {i \in IndexesOf(Snap(K(D), H), t) : x \in H[i].on}
  <2>1. \A i \in IndexName : H[i] = IF i \in gone THEN Absent ELSE I[i]
    BY WithoutFacts
  <2>2. Snap(K(D), H).index = H
    BY SnapFacts
  <2> HIDE DEF H, J
  <2>3. more = {i \in IndexName : H[i] # Absent /\ H[i].table = t /\ x \in H[i].on}
    BY <2>2 DEF IndexesOf
  <2> HIDE DEF more
  <2>4. \A i \in IndexName : i \in gone \cup more <=> i \in OnThese(I, t, D \cup {x})
    BY <2>1, <2>3 DEF OnThese
  <2>5. gone \cup more = OnThese(I, t, D \cup {x})
    BY <2>3, <2>4 DEF OnThese
  <2> HIDE DEF gone
  <2>6. WithoutIndexes(Snap(K(D), WithoutThese(I, gone)), more) = WithoutThese(I, gone \cup more)
    BY WithoutFacts
  <2>7. H = WithoutThese(I, gone) /\ J(D \cup {x}) = WithoutThese(I, OnThese(I, t, D \cup {x}))
    BY DEF H, J, gone
  <2>8. WithoutIndexes(Snap(K(D), H), more) = J(D \cup {x})
    BY <2>5, <2>6, <2>7
  <2>9. QED
    BY <2>8 DEF H, more
<1> HIDE DEF J
<1>7. \A D \in SUBSET S : X[D] = Snap(K(D), J(D))
  OBVIOUS
<1> HIDE DEF X
<1>8. ASSUME NEW D \in SUBSET S, NEW x \in S \ D PROVE Execute(X[D], g[x]) = X[D \cup {x}]
  <2>1. D \cup {x} \in SUBSET S /\ x \in S /\ x \in ColumnName
    BY <1>1
  <2>2. X[D] = Snap(K(D), J(D)) /\ X[D \cup {x}] = Snap(K(D \cup {x}), J(D \cup {x}))
    BY <1>7, <2>1
  <2>3. g[x].kind = "col-drop" /\ g[x].table = t /\ g[x].column = x /\ v[x] = Absent
    BY <1>2, <2>1
  <2>4. Execute(Snap(K(D), J(D)), g[x])
          = Snap(WithCell(K(D), g[x].table, g[x].column, Absent),
                 WithoutIndexes(Snap(K(D), J(D)),
                                {i \in IndexesOf(Snap(K(D), J(D)), g[x].table) : g[x].column \in J(D)[i].on}))
    BY <2>3, ColumnDropExecuted
  <2>5. WithCell(K(D), t, x, Absent) = K(D \cup {x})
    BY <1>4, <2>1, <2>3
  <2>6. QED
    BY <1>6, <2>2, <2>3, <2>4, <2>5
<1>9. OneByOne(S, g, X)
  BY <1>1, <1>8 DEF OneByOne
<1>10. S \in SUBSET (Nat \ {0}) /\ IsFiniteSet(S)
  BY <1>1, NamesAreSome
<1>11. Ran(X[{}], Over(g)) = X[S] /\ IsScript(Over(g))
  BY <1>9, <1>10, OverRuns
<1>12. X[{}] = Snap(C, I) /\ X[S] = Snap(K(S), J(S))
  <2>1. {} \in SUBSET S /\ S \in SUBSET S
    OBVIOUS
  <2>2. QED
    BY <1>3, <1>5, <1>7, <2>1
<1>13. QED
  BY <1>11, <1>12 DEF K, J, S, g, v

CreatedEntries(a, t) == [i \in IndexName |-> [table |-> t, on |-> a.index[i].on]]

\* What is left of a transaction of which a statement was refused, or none.
RefusedIf(bad, s) == IF bad THEN Rejected ELSE s

LEMMA RefusedFacts ==
  ASSUME NEW C, NEW I, NEW bad \in BOOLEAN, NEW q
  PROVE  (bad => RefusedIf(bad, Snap(C, I)) = Rejected /\ Execute(RefusedIf(bad, Snap(C, I)), q) = Rejected)
         /\ (~bad => RefusedIf(bad, Snap(C, I)) = Snap(C, I))
BY DEF RefusedIf, Execute

LEMMA IndexCreatesRun ==
  ASSUME NEW a, NEW b, NEW t, NEW C, NEW I, IsFun(I, IndexName)
  PROVE  /\ Ran(Snap(C, I), Over(IndexesToCreate(a, b, t)))
              = RefusedIf(\E i \in IndexesAdded(a, b, t) : I[i] # Absent,
                          Snap(C, Put(I, IndexesAdded(a, b, t), CreatedEntries(a, t))))
         /\ IsScript(Over(IndexesToCreate(a, b, t)))
<1> DEFINE S == IndexesAdded(a, b, t)
           g == IndexesToCreate(a, b, t)
           v == CreatedEntries(a, t)
           J(D) == Put(I, D, v)
           Bad(D) == \E i \in D : I[i] # Absent
           X == [D \in SUBSET S |-> RefusedIf(Bad(D), Snap(C, J(D)))]
<1>1. S \in SUBSET IndexName /\ DOMAIN g = S
  BY DEF IndexesAdded, IndexesOf, IndexesToCreate
<1>2. ASSUME NEW x \in S
      PROVE  /\ g[x].kind = "index" /\ g[x].index = x
             /\ v[x] = [table |-> g[x].table, on |-> g[x].on]
  <2>1. g[x] = [kind |-> "index", index |-> x, table |-> t, on |-> a.index[x].on]
    BY DEF IndexesToCreate
  <2>2. v[x] = [table |-> t, on |-> a.index[x].on]
    BY <1>1 DEF CreatedEntries
  <2>3. QED
    BY <2>1, <2>2
<1> HIDE DEF S, g, v
<1>3. J({}) = I
  BY PutFacts
<1>4. ASSUME NEW D, NEW x \in IndexName, x \notin D
      PROVE  WithOne(J(D), x, v[x]) = J(D \cup {x}) /\ J(D)[x] = I[x]
  BY <1>4, PutFacts
<1> HIDE DEF J
<1>5. \A D \in SUBSET S : X[D] = RefusedIf(Bad(D), Snap(C, J(D)))
  OBVIOUS
<1>6. ~Bad({}) /\ \A D, x : Bad(D \cup {x}) <=> Bad(D) \/ I[x] # Absent
  OBVIOUS
<1>7. \A D : Bad(D) \in BOOLEAN
  OBVIOUS
<1> HIDE DEF X, Bad
<1>8. ASSUME NEW D \in SUBSET S, NEW x \in S \ D PROVE Execute(X[D], g[x]) = X[D \cup {x}]
  <2>1. D \cup {x} \in SUBSET S /\ x \in S /\ x \in IndexName /\ x \notin D
    BY <1>1
  <2>2. X[D] = RefusedIf(Bad(D), Snap(C, J(D))) /\ X[D \cup {x}] = RefusedIf(Bad(D \cup {x}), Snap(C, J(D \cup {x})))
    BY <1>5, <2>1
  <2>3. g[x].kind = "index" /\ g[x].index = x /\ v[x] = [table |-> g[x].table, on |-> g[x].on]
    BY <1>2, <2>1
  <2>4. Execute(Snap(C, J(D)), g[x])
          = IF J(D)[g[x].index] # Absent THEN Rejected
            ELSE Snap(C, WithOne(J(D), g[x].index, [table |-> g[x].table, on |-> g[x].on]))
    BY <2>3, IndexExecuted
  <2>5. Execute(Snap(C, J(D)), g[x]) = IF I[x] # Absent THEN Rejected ELSE Snap(C, J(D \cup {x}))
    BY <1>4, <2>1, <2>3, <2>4
  <2>6. CASE Bad(D)
    <3>1. Bad(D \cup {x})
      BY <1>6, <2>6
    <3>2. X[D \cup {x}] = Rejected /\ Execute(X[D], g[x]) = Rejected
      BY <1>7, <2>2, <2>6, <3>1, RefusedFacts
    <3>3. QED
      BY <3>2
  <2>7. CASE ~Bad(D)
    <3>1. X[D] = Snap(C, J(D))
      BY <1>7, <2>2, <2>7, RefusedFacts
    <3>2. X[D \cup {x}] = IF I[x] # Absent THEN Rejected ELSE Snap(C, J(D \cup {x}))
      BY <1>6, <2>2, <2>7 DEF RefusedIf
    <3>3. QED
      BY <2>5, <3>1, <3>2
  <2>8. QED
    BY <2>6, <2>7
<1>9. OneByOne(S, g, X)
  BY <1>1, <1>8 DEF OneByOne
<1>10. S \in SUBSET (Nat \ {0}) /\ IsFiniteSet(S)
  BY <1>1, NamesAreSome
<1>11. Ran(X[{}], Over(g)) = X[S] /\ IsScript(Over(g))
  BY <1>9, <1>10, OverRuns
<1>12. X[{}] = Snap(C, I) /\ X[S] = RefusedIf(Bad(S), Snap(C, J(S)))
  <2>1. {} \in SUBSET S /\ S \in SUBSET S
    OBVIOUS
  <2>2. X[{}] = RefusedIf(Bad({}), Snap(C, J({}))) /\ X[S] = RefusedIf(Bad(S), Snap(C, J(S)))
    BY <1>5, <2>1
  <2>3. QED
    BY <1>3, <1>6, <2>2 DEF RefusedIf
<1>13. QED
  BY <1>11, <1>12 DEF Bad, J, S, g, v

LEMMA IndexDropsRun ==
  ASSUME NEW a, NEW b, NEW t, NEW C, NEW I, IsFun(I, IndexName)
  PROVE  /\ Ran(Snap(C, I), Over(IndexesToDrop(a, b, t)))
              = RefusedIf(\E i \in IndexesAdded(b, a, t) : I[i] = Absent,
                          Snap(C, WithoutThese(I, IndexesAdded(b, a, t))))
         /\ IsScript(Over(IndexesToDrop(a, b, t)))
<1> DEFINE S == IndexesAdded(b, a, t)
           g == IndexesToDrop(a, b, t)
           v == Blank(IndexName)
           J(D) == Put(I, D, v)
           Bad(D) == \E i \in D : I[i] = Absent
           X == [D \in SUBSET S |-> RefusedIf(Bad(D), Snap(C, J(D)))]
<1>1. S \in SUBSET IndexName /\ DOMAIN g = S
  BY DEF IndexesAdded, IndexesOf, IndexesToDrop
<1>2. ASSUME NEW x \in S
      PROVE  g[x].kind = "index-drop" /\ g[x].index = x /\ v[x] = Absent
  <2>1. g[x] = [kind |-> "index-drop", index |-> x]
    BY DEF IndexesToDrop
  <2>2. v[x] = Absent
    BY <1>1 DEF Blank
  <2>3. QED
    BY <2>1, <2>2
<1> HIDE DEF S, g, v
<1>3. J({}) = I
  BY PutFacts
<1>4. ASSUME NEW D, NEW x \in IndexName, x \notin D
      PROVE  WithOne(J(D), x, v[x]) = J(D \cup {x}) /\ J(D)[x] = I[x]
  BY <1>4, PutFacts
<1> HIDE DEF J
<1>5. \A D \in SUBSET S : X[D] = RefusedIf(Bad(D), Snap(C, J(D)))
  OBVIOUS
<1>6. ~Bad({}) /\ \A D, x : Bad(D \cup {x}) <=> Bad(D) \/ I[x] = Absent
  OBVIOUS
<1>7. \A D : Bad(D) \in BOOLEAN
  OBVIOUS
<1> HIDE DEF X, Bad
<1>8. ASSUME NEW D \in SUBSET S, NEW x \in S \ D PROVE Execute(X[D], g[x]) = X[D \cup {x}]
  <2>1. D \cup {x} \in SUBSET S /\ x \in S /\ x \in IndexName /\ x \notin D
    BY <1>1
  <2>2. X[D] = RefusedIf(Bad(D), Snap(C, J(D))) /\ X[D \cup {x}] = RefusedIf(Bad(D \cup {x}), Snap(C, J(D \cup {x})))
    BY <1>5, <2>1
  <2>3. g[x].kind = "index-drop" /\ g[x].index = x /\ v[x] = Absent
    BY <1>2, <2>1
  <2>4. Execute(Snap(C, J(D)), g[x])
          = IF J(D)[g[x].index] = Absent THEN Rejected ELSE Snap(C, WithOne(J(D), g[x].index, Absent))
    BY <2>3, IndexDropExecuted
  <2>5. Execute(Snap(C, J(D)), g[x]) = IF I[x] = Absent THEN Rejected ELSE Snap(C, J(D \cup {x}))
    BY <1>4, <2>1, <2>3, <2>4
  <2>6. CASE Bad(D)
    <3>1. Bad(D \cup {x})
      BY <1>6, <2>6
    <3>2. X[D \cup {x}] = Rejected /\ Execute(X[D], g[x]) = Rejected
      BY <1>7, <2>2, <2>6, <3>1, RefusedFacts
    <3>3. QED
      BY <3>2
  <2>7. CASE ~Bad(D)
    <3>1. X[D] = Snap(C, J(D))
      BY <1>7, <2>2, <2>7, RefusedFacts
    <3>2. X[D \cup {x}] = IF I[x] = Absent THEN Rejected ELSE Snap(C, J(D \cup {x}))
      BY <1>6, <2>2, <2>7 DEF RefusedIf
    <3>3. QED
      BY <2>5, <3>1, <3>2
  <2>8. QED
    BY <2>6, <2>7
<1>9. OneByOne(S, g, X)
  BY <1>1, <1>8 DEF OneByOne
<1>10. S \in SUBSET (Nat \ {0}) /\ IsFiniteSet(S)
  BY <1>1, NamesAreSome
<1>11. Ran(X[{}], Over(g)) = X[S] /\ IsScript(Over(g))
  BY <1>9, <1>10, OverRuns
<1>12. X[{}] = Snap(C, I) /\ X[S] = RefusedIf(Bad(S), Snap(C, J(S)))
  <2>1. {} \in SUBSET S /\ S \in SUBSET S
    OBVIOUS
  <2>2. X[{}] = RefusedIf(Bad({}), Snap(C, J({}))) /\ X[S] = RefusedIf(Bad(S), Snap(C, J(S)))
    BY <1>5, <2>1
  <2>3. QED
    BY <1>3, <1>6, <2>2 DEF RefusedIf
<1>13. QED
  BY <1>11, <1>12 DEF Bad, J, S, g, v, WithoutThese

\* A primary key of two columns is written twice.
KeyTwice(a, t) == \E c, d \in KeyColumns(a.columns[t]) : c # d

LEMMA TablesCreated ==
  ASSUME NEW a, NEW b, NEW C, IsFun(C, TableName), NEW I
  PROVE  /\ Ran(Snap(C, I), Over(TablesToCreate(a, b)))
              = RefusedIf(\E t \in Having(a, b, "new") : KeyTwice(a, t),
                          Snap(Put(C, Having(a, b, "new"), a.columns), I))
         /\ IsScript(Over(TablesToCreate(a, b)))
<1> DEFINE S == Having(a, b, "new")
           g == TablesToCreate(a, b)
           v == a.columns
           J(D) == Put(C, D, v)
           Bad(D) == \E t \in D : KeyTwice(a, t)
           X == [D \in SUBSET S |-> RefusedIf(Bad(D), Snap(J(D), I))]
<1>1. S \in SUBSET TableName /\ DOMAIN g = S
  BY DEF Having, Tables, TablesToCreate
<1>2. ASSUME NEW x \in S
      PROVE  g[x].kind = "create" /\ g[x].table = x /\ g[x].columns = v[x]
  <2>1. g[x] = [kind |-> "create", table |-> x, columns |-> v[x]]
    BY DEF TablesToCreate
  <2>2. QED
    BY <2>1
<1> HIDE DEF S, g
<1>3. \A x : KeyTwice(a, x) <=> \E c, d \in KeyColumns(v[x]) : c # d
  BY DEF KeyTwice
<1> HIDE DEF v
<1>4. J({}) = C
  BY PutFacts
<1>5. ASSUME NEW D, NEW x \in TableName, x \notin D
      PROVE  WithOne(J(D), x, v[x]) = J(D \cup {x})
  BY <1>5, PutFacts
<1> HIDE DEF J
<1>6. \A D \in SUBSET S : X[D] = RefusedIf(Bad(D), Snap(J(D), I))
  OBVIOUS
<1>7. ~Bad({}) /\ \A D, x : Bad(D \cup {x}) <=> Bad(D) \/ KeyTwice(a, x)
  OBVIOUS
<1>8. \A D : Bad(D) \in BOOLEAN
  OBVIOUS
<1> HIDE DEF X, Bad
<1>9. ASSUME NEW D \in SUBSET S, NEW x \in S \ D PROVE Execute(X[D], g[x]) = X[D \cup {x}]
  <2>1. D \cup {x} \in SUBSET S /\ x \in S /\ x \in TableName /\ x \notin D
    BY <1>1
  <2>2. X[D] = RefusedIf(Bad(D), Snap(J(D), I)) /\ X[D \cup {x}] = RefusedIf(Bad(D \cup {x}), Snap(J(D \cup {x}), I))
    BY <1>6, <2>1
  <2>3. g[x].kind = "create" /\ g[x].table = x /\ g[x].columns = v[x]
    BY <1>2, <2>1
  <2>4. Execute(Snap(J(D), I), g[x])
          = IF \E c, d \in KeyColumns(g[x].columns) : c # d THEN Rejected
            ELSE Snap(WithOne(J(D), g[x].table, g[x].columns), I)
    BY <2>3, CreateExecuted
  <2>5. Execute(Snap(J(D), I), g[x]) = IF KeyTwice(a, x) THEN Rejected ELSE Snap(J(D \cup {x}), I)
    BY <1>3, <1>5, <2>1, <2>3, <2>4
  <2>6. CASE Bad(D)
    <3>1. Bad(D \cup {x})
      BY <1>7, <2>6
    <3>2. X[D \cup {x}] = Rejected /\ Execute(X[D], g[x]) = Rejected
      BY <1>8, <2>2, <2>6, <3>1, RefusedFacts
    <3>3. QED
      BY <3>2
  <2>7. CASE ~Bad(D)
    <3>1. X[D] = Snap(J(D), I)
      BY <1>8, <2>2, <2>7, RefusedFacts
    <3>2. X[D \cup {x}] = IF KeyTwice(a, x) THEN Rejected ELSE Snap(J(D \cup {x}), I)
      BY <1>7, <2>2, <2>7 DEF RefusedIf
    <3>3. QED
      BY <2>5, <3>1, <3>2
  <2>8. QED
    BY <2>6, <2>7
<1>10. OneByOne(S, g, X)
  BY <1>1, <1>9 DEF OneByOne
<1>11. S \in SUBSET (Nat \ {0}) /\ IsFiniteSet(S)
  BY <1>1, NamesAreSome
<1>12. Ran(X[{}], Over(g)) = X[S] /\ IsScript(Over(g))
  BY <1>10, <1>11, OverRuns
<1>13. X[{}] = Snap(C, I) /\ X[S] = RefusedIf(Bad(S), Snap(J(S), I))
  <2>1. {} \in SUBSET S /\ S \in SUBSET S
    OBVIOUS
  <2>2. X[{}] = RefusedIf(Bad({}), Snap(J({}), I)) /\ X[S] = RefusedIf(Bad(S), Snap(J(S), I))
    BY <1>6, <2>1
  <2>3. QED
    BY <1>4, <1>7, <2>2 DEF RefusedIf
<1>14. QED
  BY <1>12, <1>13 DEF Bad, J, S, g, v

\* The indexes of some tables.
AtThese(I, D) == {i \in IndexName : I[i] # Absent /\ I[i].table \in D}

LEMMA TablesDropped ==
  ASSUME NEW a, NEW b, NEW C, IsFun(C, TableName), NEW I, IsFun(I, IndexName)
  PROVE  /\ Ran(Snap(C, I), Over(TablesToDrop(a, b)))
              = Snap(Put(C, Having(a, b, "only-target"), [t \in TableName |-> Blank(ColumnName)]),
                     WithoutThese(I, AtThese(I, Having(a, b, "only-target"))))
         /\ IsScript(Over(TablesToDrop(a, b)))
<1> DEFINE S == Having(a, b, "only-target")
           g == TablesToDrop(a, b)
           v == [t \in TableName |-> Blank(ColumnName)]
           K(D) == Put(C, D, v)
           J(D) == WithoutThese(I, AtThese(I, D))
           X == [D \in SUBSET S |-> Snap(K(D), J(D))]
<1>1. S \in SUBSET TableName /\ DOMAIN g = S
  BY DEF Having, Tables, TablesToDrop
<1>2. ASSUME NEW x \in S
      PROVE  g[x].kind = "drop" /\ g[x].table = x /\ v[x] = [c \in ColumnName |-> Absent]
  <2>1. g[x] = [kind |-> "drop", table |-> x]
    BY DEF TablesToDrop
  <2>2. v[x] = [c \in ColumnName |-> Absent]
    BY <1>1 DEF Blank
  <2>3. QED
    BY <2>1, <2>2
<1> HIDE DEF S, g, v
<1>3. K({}) = C
  BY PutFacts
<1>4. ASSUME NEW D, NEW x \in TableName PROVE WithOne(K(D), x, v[x]) = K(D \cup {x})
  BY PutFacts
<1> HIDE DEF K
<1>5. J({}) = I
  <2>1. AtThese(I, {}) = {}
    BY DEF AtThese
  <2>2. QED
    BY <2>1, WithoutFacts
<1>6. ASSUME NEW D, NEW x
      PROVE  WithoutIndexes(Snap(K(D), J(D)), IndexesOf(Snap(K(D), J(D)), x)) = J(D \cup {x})
  <2> DEFINE gone == AtThese(I, D)
             H == J(D)
             more == IndexesOf(Snap(K(D), H), x)
  <2>1. \A i \in IndexName : H[i] = IF i \in gone THEN Absent ELSE I[i]
    BY WithoutFacts
  <2>2. Snap(K(D), H).index = H
    BY SnapFacts
  <2> HIDE DEF H, J
  <2>3. more = {i \in IndexName : H[i] # Absent /\ H[i].table = x}
    BY <2>2 DEF IndexesOf
  <2> HIDE DEF more
  <2>4. \A i \in IndexName : i \in gone \cup more <=> i \in AtThese(I, D \cup {x})
    BY <2>1, <2>3 DEF AtThese
  <2>5. gone \cup more = AtThese(I, D \cup {x})
    BY <2>3, <2>4 DEF AtThese
  <2> HIDE DEF gone
  <2>6. WithoutIndexes(Snap(K(D), WithoutThese(I, gone)), more) = WithoutThese(I, gone \cup more)
    BY WithoutFacts
  <2>7. H = WithoutThese(I, gone) /\ J(D \cup {x}) = WithoutThese(I, AtThese(I, D \cup {x}))
    BY DEF H, J, gone
  <2>8. WithoutIndexes(Snap(K(D), H), more) = J(D \cup {x})
    BY <2>5, <2>6, <2>7
  <2>9. QED
    BY <2>8 DEF H, more
<1> HIDE DEF J
<1>7. \A D \in SUBSET S : X[D] = Snap(K(D), J(D))
  OBVIOUS
<1> HIDE DEF X
<1>8. ASSUME NEW D \in SUBSET S, NEW x \in S \ D PROVE Execute(X[D], g[x]) = X[D \cup {x}]
  <2>1. D \cup {x} \in SUBSET S /\ x \in S /\ x \in TableName
    BY <1>1
  <2>2. X[D] = Snap(K(D), J(D)) /\ X[D \cup {x}] = Snap(K(D \cup {x}), J(D \cup {x}))
    BY <1>7, <2>1
  <2>3. g[x].kind = "drop" /\ g[x].table = x /\ v[x] = [c \in ColumnName |-> Absent]
    BY <1>2, <2>1
  <2>4. Execute(Snap(K(D), J(D)), g[x])
          = Snap(WithOne(K(D), g[x].table, [c \in ColumnName |-> Absent]),
                 WithoutIndexes(Snap(K(D), J(D)), IndexesOf(Snap(K(D), J(D)), g[x].table)))
    BY <2>3, DropExecuted
  <2>5. WithOne(K(D), x, [c \in ColumnName |-> Absent]) = K(D \cup {x})
    BY <1>4, <2>1, <2>3
  <2>6. QED
    BY <1>6, <2>2, <2>3, <2>4, <2>5
<1>9. OneByOne(S, g, X)
  BY <1>1, <1>8 DEF OneByOne
<1>10. S \in SUBSET (Nat \ {0}) /\ IsFiniteSet(S)
  BY <1>1, NamesAreSome
<1>11. Ran(X[{}], Over(g)) = X[S] /\ IsScript(Over(g))
  BY <1>9, <1>10, OverRuns
<1>12. X[{}] = Snap(C, I) /\ X[S] = Snap(K(S), J(S))
  <2>1. {} \in SUBSET S /\ S \in SUBSET S
    OBVIOUS
  <2>2. QED
    BY <1>3, <1>5, <1>7, <2>1
<1>13. QED
  BY <1>11, <1>12 DEF K, J, S, g, v

LEMMA RefusedRun ==
  ASSUME NEW bad \in BOOLEAN, NEW s, NEW q, IsScript(q)
  PROVE  Ran(RefusedIf(bad, s), q) = RefusedIf(bad, Ran(s, q))
BY RejectedStays DEF RefusedIf

LEMMA RefusedTwice ==
  ASSUME NEW bad \in BOOLEAN, NEW worse \in BOOLEAN, NEW s
  PROVE  RefusedIf(bad, RefusedIf(worse, s)) = RefusedIf(bad \/ worse, s)
BY DEF RefusedIf

\* The columns of a changed table, its plan run.
RowGrown(a, b, t, row) == Put(row, Added(a, b, t), AddedCells(a, t))
RowRetyped(a, b, t, row) == Put(RowGrown(a, b, t, row), Altered(a, b, t), AlteredCells(a, t, RowGrown(a, b, t, row)))
NewRow(a, b, t, row) == Put(RowRetyped(a, b, t, row), Added(b, a, t), Blank(ColumnName))

\* And the indexes of the schema.
IndexesLost(a, b, t, I) == WithoutThese(I, OnThese(I, t, Added(b, a, t)))
IndexesMade(a, b, t, I) == Put(IndexesLost(a, b, t, I), IndexesAdded(a, b, t), CreatedEntries(a, t))
NewIndexes(a, b, t, I) == WithoutThese(IndexesMade(a, b, t, I), IndexesAdded(b, a, t))

PlanRefused(a, b, t, I) ==
  \/ \E i \in IndexesAdded(a, b, t) : IndexesLost(a, b, t, I)[i] # Absent
  \/ \E i \in IndexesAdded(b, a, t) : IndexesMade(a, b, t, I)[i] = Absent

LEMMA RowsChanged ==
  ASSUME NEW a, NEW b, NEW t \in TableName, NEW C, IsFun(C, TableName), IsFun(C[t], ColumnName), NEW I,
         IsFun(I, IndexName)
  PROVE  /\ Ran(Snap(C, I), Over(ColumnsToAdd(a, b, t)) \o Over(ColumnsToAlter(a, b, t)) \o Over(ColumnsToDrop(a, b, t)))
              = Snap(WithOne(C, t, NewRow(a, b, t, C[t])), IndexesLost(a, b, t, I))
         /\ IsScript(Over(ColumnsToAdd(a, b, t)) \o Over(ColumnsToAlter(a, b, t)) \o Over(ColumnsToDrop(a, b, t)))
<1> DEFINE p == Over(ColumnsToAdd(a, b, t))
           q == Over(ColumnsToAlter(a, b, t))
           r == Over(ColumnsToDrop(a, b, t))
           row1 == RowGrown(a, b, t, C[t])
           row2 == RowRetyped(a, b, t, C[t])
           row3 == NewRow(a, b, t, C[t])
           C1 == WithOne(C, t, row1)
           C2 == WithOne(C, t, row2)
           C3 == WithOne(C, t, row3)
           J == IndexesLost(a, b, t, I)
<1> HIDE DEF p, q, r, row1, row2, row3, J
<1>1. IsFun(row1, ColumnName) /\ IsFun(row2, ColumnName)
  <2>1. IsFun(row1, ColumnName)
    BY PutFacts DEF row1, RowGrown
  <2>2. row2 = Put(row1, Altered(a, b, t), AlteredCells(a, t, row1))
    BY DEF row1, row2, RowRetyped
  <2>3. QED
    BY <2>1, <2>2, PutFacts
<1>2. /\ IsFun(C1, TableName) /\ C1[t] = row1 /\ IsFun(C2, TableName) /\ C2[t] = row2
      /\ WithOne(C1, t, row2) = C2 /\ WithOne(C2, t, row3) = C3
  BY RowFacts
<1> HIDE DEF C1, C2, C3
<1>3. Ran(Snap(C, I), p) = Snap(C1, I) /\ IsScript(p)
  BY AddsRun DEF C1, row1, p, RowPut, RowGrown
<1>4. Ran(Snap(C1, I), q) = Snap(C2, I) /\ IsScript(q)
  <2>1. /\ Ran(Snap(C1, I), q) = Snap(RowPut(C1, t, Altered(a, b, t), AlteredCells(a, t, C1[t])), I)
        /\ IsScript(q)
    BY <1>1, <1>2, AltersRun DEF q
  <2>2. RowPut(C1, t, Altered(a, b, t), AlteredCells(a, t, C1[t])) = C2
    BY <1>2 DEF RowPut, row1, row2, RowRetyped
  <2>3. QED
    BY <2>1, <2>2
<1>5. Ran(Snap(C2, I), r) = Snap(C3, J) /\ IsScript(r)
  <2>1. /\ Ran(Snap(C2, I), r) = Snap(RowPut(C2, t, Added(b, a, t), Blank(ColumnName)),
                                      WithoutThese(I, OnThese(I, t, Added(b, a, t))))
        /\ IsScript(r)
    BY <1>1, <1>2, ColumnDropsRun DEF r
  <2>2. RowPut(C2, t, Added(b, a, t), Blank(ColumnName)) = C3
    BY <1>2 DEF RowPut, row2, row3, NewRow
  <2>3. QED
    BY <2>1, <2>2 DEF J, IndexesLost
<1>6. Ran(Snap(C, I), p \o q) = Snap(C2, I) /\ IsScript(p \o q)
  BY <1>3, <1>4, RanOfConcat
<1>7. Ran(Snap(C, I), (p \o q) \o r) = Snap(C3, J) /\ IsScript((p \o q) \o r)
  BY <1>5, <1>6, RanOfConcat
<1>8. QED
  BY <1>7 DEF p, q, r, C3, row3, J

\* The five families of one table.
LEMMA TablePlanRun ==
  ASSUME NEW a, NEW b, NEW t \in TableName, NEW C, IsFun(C, TableName), IsFun(C[t], ColumnName), NEW I,
         IsFun(I, IndexName)
  PROVE  /\ Ran(Snap(C, I), TablePlan(a, b, t))
              = RefusedIf(PlanRefused(a, b, t, I),
                          Snap(WithOne(C, t, NewRow(a, b, t, C[t])), NewIndexes(a, b, t, I)))
         /\ IsScript(TablePlan(a, b, t))
<1> DEFINE p == Over(ColumnsToAdd(a, b, t)) \o Over(ColumnsToAlter(a, b, t)) \o Over(ColumnsToDrop(a, b, t))
           q == Over(IndexesToCreate(a, b, t))
           r == Over(IndexesToDrop(a, b, t))
           C3 == WithOne(C, t, NewRow(a, b, t, C[t]))
           J1 == IndexesLost(a, b, t, I)
           J2 == IndexesMade(a, b, t, I)
           J3 == NewIndexes(a, b, t, I)
           bad == \E i \in IndexesAdded(a, b, t) : J1[i] # Absent
           worse == \E i \in IndexesAdded(b, a, t) : J2[i] = Absent
<1>1. bad \in BOOLEAN /\ worse \in BOOLEAN /\ (PlanRefused(a, b, t, I) <=> bad \/ worse)
  BY DEF PlanRefused
<1>2. TablePlan(a, b, t) = (p \o q) \o r
  BY DEF TablePlan
<1> HIDE DEF p, q, r, C3, J1, J2, J3, bad, worse
<1>3. IsFun(J1, IndexName) /\ IsFun(J2, IndexName)
  <2>1. IsFun(J1, IndexName)
    BY WithoutFacts DEF J1, IndexesLost
  <2>2. J2 = Put(J1, IndexesAdded(a, b, t), CreatedEntries(a, t))
    BY DEF J1, J2, IndexesMade
  <2>3. QED
    BY <2>1, <2>2, PutFacts
<1>4. Ran(Snap(C, I), p) = Snap(C3, J1) /\ IsScript(p)
  BY RowsChanged DEF p, C3, J1
<1>5. Ran(Snap(C3, J1), q) = RefusedIf(bad, Snap(C3, J2)) /\ IsScript(q)
  BY <1>3, IndexCreatesRun DEF q, bad, J1, J2, IndexesMade
<1>6. Ran(Snap(C3, J2), r) = RefusedIf(worse, Snap(C3, J3)) /\ IsScript(r)
  BY <1>3, IndexDropsRun DEF r, worse, J2, J3, NewIndexes
<1>7. Ran(Snap(C, I), p \o q) = RefusedIf(bad, Snap(C3, J2)) /\ IsScript(p \o q)
  BY <1>4, <1>5, RanOfConcat
<1>8. Ran(Snap(C, I), (p \o q) \o r) = Ran(RefusedIf(bad, Snap(C3, J2)), r) /\ IsScript((p \o q) \o r)
  BY <1>6, <1>7, RanOfConcat
<1>9. Ran(RefusedIf(bad, Snap(C3, J2)), r) = RefusedIf(bad, RefusedIf(worse, Snap(C3, J3)))
  BY <1>1, <1>6, RefusedRun
<1>10. RefusedIf(bad, RefusedIf(worse, Snap(C3, J3))) = RefusedIf(bad \/ worse, Snap(C3, J3))
  BY <1>1, RefusedTwice
<1>11. RefusedIf(bad \/ worse, Snap(C3, J3)) = RefusedIf(PlanRefused(a, b, t, I), Snap(C3, J3))
  BY <1>1 DEF RefusedIf
<1>12. QED
  BY <1>2, <1>8, <1>9, <1>10, <1>11 DEF C3, J3

-----------------------------------------------------------------------------
(* The tables both have, changed one after another.                          *)

Changed(a, b) == Having(a, b, "changed")
Lost(a, b, t) ==
  {i \in IndexesOf(b, t) : i \notin IndexesOf(a, t) \/ b.index[i].on \cap Added(b, a, t) # {}}
Moved(a, b, D) == {i \in IndexName : \E t \in D : i \in IndexesAdded(a, b, t)}
LostOf(a, b, D) == {i \in IndexName : \E t \in D : i \in Lost(a, b, t)}
Entry(a, i) == [table |-> a.index[i].table, on |-> a.index[i].on]
IndexAfter(a, b, D) ==
  [i \in IndexName |-> IF i \in Moved(a, b, D) THEN Entry(a, i)
                       ELSE IF i \in LostOf(a, b, D) THEN Absent ELSE b.index[i]]

\* The plan of a table fails: an index of it goes with a column before it is dropped, or one is
\* created whose name is still taken.
Blocked(a, b, t) ==
  \/ \E i \in IndexesAdded(b, a, t) : b.index[i].on \cap Added(b, a, t) # {}
  \/ \E i \in IndexesAdded(a, b, t) :
       b.index[i] # Absent /\ ~(b.index[i].table \in Changed(a, b) /\ b.index[i].table < t)

\* What the tables before one have left of an index.
LEMMA IndexSoFar ==
  ASSUME NEW a, NEW b, NEW t, NEW D, t \notin D,
         \A u \in Changed(a, b) : u \in D <=> u < t,
         \A u \in D : u \in Changed(a, b) /\ u < t /\ ~(t < u) /\ ~Blocked(a, b, u),
         NEW i \in IndexName, NEW v, v = IndexAfter(a, b, D)[i]
  PROVE  /\ i \in IndexesOf(b, t) => v = b.index[i] /\ i \notin Moved(a, b, D) /\ i \notin LostOf(a, b, D)
         /\ i \in IndexesAdded(a, b, t) =>
              /\ v # Absent <=> b.index[i] # Absent /\ b.index[i].table \notin D
              /\ v # Absent => v.table # t
         /\ i \notin IndexesOf(b, t) => ~(v # Absent /\ v.table = t)
         /\ v = IF i \in Moved(a, b, D) THEN Entry(a, i) ELSE IF i \in LostOf(a, b, D) THEN Absent ELSE b.index[i]
<1>1. v = IF i \in Moved(a, b, D) THEN Entry(a, i) ELSE IF i \in LostOf(a, b, D) THEN Absent ELSE b.index[i]
  BY DEF IndexAfter
<1>2. \A u : i \in IndexesOf(a, u) <=> a.index[i] # Absent /\ a.index[i].table = u
  BY DEF IndexesOf
<1>3. \A u : i \in IndexesOf(b, u) <=> b.index[i] # Absent /\ b.index[i].table = u
  BY DEF IndexesOf
<1>4. i \in Moved(a, b, D) <=> \E u \in D : i \in IndexesOf(a, u) /\ i \notin IndexesOf(b, u)
  BY DEF Moved, IndexesAdded
<1>5. i \in LostOf(a, b, D) <=>
        \E u \in D : i \in IndexesOf(b, u) /\ (i \notin IndexesOf(a, u) \/ b.index[i].on \cap Added(b, a, u) # {})
  BY DEF LostOf, Lost
<1>6. ASSUME i \in IndexesOf(b, t)
      PROVE  v = b.index[i] /\ i \notin Moved(a, b, D) /\ i \notin LostOf(a, b, D)
  <2>1. i \notin LostOf(a, b, D)
    BY <1>3, <1>5, <1>6
  <2>2. ASSUME NEW u \in D, i \in IndexesOf(a, u), i \notin IndexesOf(b, u) PROVE FALSE
    <3>1. i \in IndexesAdded(a, b, u) /\ b.index[i] # Absent /\ b.index[i].table = t
      BY <1>3, <1>6, <2>2 DEF IndexesAdded
    <3>2. ~(b.index[i].table < u)
      BY <3>1
    <3>3. Blocked(a, b, u)
      BY <3>1, <3>2 DEF Blocked
    <3>4. QED
      BY <3>3
  <2>3. i \notin Moved(a, b, D)
    BY <1>4, <2>2
  <2>4. QED
    BY <1>1, <2>1, <2>3
<1>7. ASSUME i \in IndexesAdded(a, b, t)
      PROVE  /\ v # Absent <=> b.index[i] # Absent /\ b.index[i].table \notin D
             /\ v # Absent => v.table # t
  <2>1. a.index[i] # Absent /\ a.index[i].table = t /\ i \notin IndexesOf(b, t)
    BY <1>2, <1>7 DEF IndexesAdded
  <2>2. i \notin Moved(a, b, D)
    BY <1>2, <1>4, <2>1
  <2>3. i \in LostOf(a, b, D) <=> b.index[i] # Absent /\ b.index[i].table \in D
    BY <1>2, <1>3, <1>5, <2>1
  <2>4. QED
    BY <1>1, <1>3, <2>1, <2>2, <2>3
<1>8. ASSUME i \notin IndexesOf(b, t), v # Absent, v.table = t PROVE FALSE
  <2>1. CASE i \in Moved(a, b, D)
    <3>1. v.table = a.index[i].table
      BY <1>1, <2>1 DEF Entry
    <3>2. QED
      BY <1>2, <1>4, <1>8, <2>1, <3>1
  <2>2. CASE i \notin Moved(a, b, D)
    BY <1>1, <1>3, <1>8, <2>2
  <2>3. QED
    BY <2>1, <2>2
<1>9. QED
  BY <1>1, <1>6, <1>7, <1>8

\* The plan of one table, after those of the changed tables before it.
LEMMA IndexStep ==
  ASSUME NEW a, NEW b, NEW t, NEW D, t \notin D, t \in Changed(a, b),
         \A u \in Changed(a, b) : u \in D <=> u < t,
         \A u \in D : u \in Changed(a, b) /\ u < t /\ ~(t < u) /\ ~Blocked(a, b, u)
  PROVE  /\ IsFun(IndexAfter(a, b, D), IndexName)
         /\ PlanRefused(a, b, t, IndexAfter(a, b, D)) <=> Blocked(a, b, t)
         /\ NewIndexes(a, b, t, IndexAfter(a, b, D)) = IndexAfter(a, b, D \cup {t})
<1> DEFINE I == IndexAfter(a, b, D)
           J1 == IndexesLost(a, b, t, I)
           J2 == IndexesMade(a, b, t, I)
           J3 == NewIndexes(a, b, t, I)
           R == Added(b, a, t)
<1>1. IsFun(I, IndexName)
  <2>1. \E f : I = [i \in IndexName |-> f[i]]
    <3> DEFINE f == [i \in IndexName |-> IF i \in Moved(a, b, D) THEN Entry(a, i)
                       ELSE IF i \in LostOf(a, b, D) THEN Absent ELSE b.index[i]]
    <3>1. I = f /\ f = [i \in IndexName |-> f[i]]
      BY DEF IndexAfter
    <3>2. QED
      BY <3>1
  <2> HIDE DEF I
  <2>2. QED
    BY <2>1 DEF IsFun
<1>2. \A i \in IndexName :
        /\ i \in IndexesOf(b, t) => I[i] = b.index[i] /\ i \notin Moved(a, b, D) /\ i \notin LostOf(a, b, D)
        /\ i \in IndexesAdded(a, b, t) =>
             /\ I[i] # Absent <=> b.index[i] # Absent /\ b.index[i].table \notin D
             /\ I[i] # Absent => I[i].table # t
        /\ i \notin IndexesOf(b, t) => ~(I[i] # Absent /\ I[i].table = t)
        /\ I[i] = IF i \in Moved(a, b, D) THEN Entry(a, i) ELSE IF i \in LostOf(a, b, D) THEN Absent ELSE b.index[i]
  <2> SUFFICES ASSUME NEW i \in IndexName
               PROVE
        /\ i \in IndexesOf(b, t) => I[i] = b.index[i] /\ i \notin Moved(a, b, D) /\ i \notin LostOf(a, b, D)
        /\ i \in IndexesAdded(a, b, t) =>
             /\ I[i] # Absent <=> b.index[i] # Absent /\ b.index[i].table \notin D
             /\ I[i] # Absent => I[i].table # t
        /\ i \notin IndexesOf(b, t) => ~(I[i] # Absent /\ I[i].table = t)
        /\ I[i] = IF i \in Moved(a, b, D) THEN Entry(a, i) ELSE IF i \in LostOf(a, b, D) THEN Absent ELSE b.index[i]
    OBVIOUS
  <2>1. QED
    BY IndexSoFar
<1> HIDE DEF I
<1>3. /\ IsFun(J1, IndexName)
      /\ \A i \in IndexName : J1[i] = IF i \in OnThese(I, t, R) THEN Absent ELSE I[i]
  BY <1>1, WithoutFacts DEF IndexesLost
<1> HIDE DEF J1
<1>4. /\ IsFun(J2, IndexName)
      /\ \A i \in IndexName : J2[i] = IF i \in IndexesAdded(a, b, t) THEN CreatedEntries(a, t)[i] ELSE J1[i]
  BY <1>3, PutFacts DEF IndexesMade, J1
<1> HIDE DEF J2
<1>5. /\ IsFun(J3, IndexName)
      /\ \A i \in IndexName : J3[i] = IF i \in IndexesAdded(b, a, t) THEN Absent ELSE J2[i]
  BY <1>4, WithoutFacts DEF NewIndexes, J2
<1> HIDE DEF J3
<1>6. \A i : i \in OnThese(I, t, R) <=> i \in IndexName /\ I[i] # Absent /\ I[i].table = t /\ I[i].on \cap R # {}
  BY DEF OnThese
<1>7. /\ \A i : i \in IndexesAdded(a, b, t) <=> i \in IndexName /\ i \in IndexesOf(a, t) /\ i \notin IndexesOf(b, t)
      /\ \A i : i \in IndexesAdded(b, a, t) <=> i \in IndexName /\ i \in IndexesOf(b, t) /\ i \notin IndexesOf(a, t)
  BY DEF IndexesAdded, IndexesOf
<1>8. \A i \in IndexesOf(b, t) : i \in IndexName /\ b.index[i] # Absent /\ b.index[i].table = t
  BY DEF IndexesOf
<1> HIDE DEF R
<1>9. \A i \in IndexesAdded(a, b, t) : J1[i] = I[i]
  BY <1>2, <1>3, <1>6, <1>7
<1>10. \A i \in IndexesAdded(b, a, t) : J2[i] = Absent <=> b.index[i].on \cap R # {}
  <2> SUFFICES ASSUME NEW i \in IndexesAdded(b, a, t) PROVE J2[i] = Absent <=> b.index[i].on \cap R # {}
    OBVIOUS
  <2>1. i \in IndexName /\ i \in IndexesOf(b, t) /\ i \notin IndexesAdded(a, b, t)
    BY <1>7
  <2>2. I[i] = b.index[i] /\ b.index[i] # Absent /\ b.index[i].table = t
    BY <1>2, <1>8, <2>1
  <2>3. J2[i] = J1[i]
    BY <1>4, <2>1
  <2>4. J1[i] = IF b.index[i].on \cap R # {} THEN Absent ELSE b.index[i]
    BY <1>3, <1>6, <2>1, <2>2
  <2>5. QED
    BY <2>2, <2>3, <2>4
<1>11. PlanRefused(a, b, t, I) <=>
         (\E i \in IndexesAdded(a, b, t) : J1[i] # Absent) \/ (\E i \in IndexesAdded(b, a, t) : J2[i] = Absent)
  BY DEF PlanRefused, J1, J2
<1>12. (\E i \in IndexesAdded(a, b, t) : J1[i] # Absent) <=>
         \E i \in IndexesAdded(a, b, t) :
           b.index[i] # Absent /\ ~(b.index[i].table \in Changed(a, b) /\ b.index[i].table < t)
  <2>1. \A i \in IndexesAdded(a, b, t) :
          J1[i] # Absent <=> b.index[i] # Absent /\ ~(b.index[i].table \in Changed(a, b) /\ b.index[i].table < t)
    <3> SUFFICES ASSUME NEW i \in IndexesAdded(a, b, t)
                 PROVE  J1[i] # Absent <=>
                          b.index[i] # Absent /\ ~(b.index[i].table \in Changed(a, b) /\ b.index[i].table < t)
      OBVIOUS
    <3>1. J1[i] = I[i] /\ (I[i] # Absent <=> b.index[i] # Absent /\ b.index[i].table \notin D)
      BY <1>2, <1>7, <1>9
    <3>2. b.index[i].table \in D <=> b.index[i].table \in Changed(a, b) /\ b.index[i].table < t
      OBVIOUS
    <3>3. QED
      BY <3>1, <3>2
  <2>2. QED
    BY <2>1
<1>13. PlanRefused(a, b, t, I) <=> Blocked(a, b, t)
  BY <1>10, <1>11, <1>12 DEF Blocked, R
<1>14. ASSUME NEW i \in IndexName PROVE J3[i] = IndexAfter(a, b, D \cup {t})[i]
  <2>1. IndexAfter(a, b, D \cup {t})[i]
          = IF i \in Moved(a, b, D) \/ i \in IndexesAdded(a, b, t) THEN Entry(a, i)
            ELSE IF i \in LostOf(a, b, D) \/ i \in Lost(a, b, t) THEN Absent ELSE b.index[i]
    <3>1. i \in Moved(a, b, D \cup {t}) <=> i \in Moved(a, b, D) \/ i \in IndexesAdded(a, b, t)
      BY DEF Moved
    <3>2. i \in LostOf(a, b, D \cup {t}) <=> i \in LostOf(a, b, D) \/ i \in Lost(a, b, t)
      BY DEF LostOf
    <3>3. QED
      BY <3>1, <3>2 DEF IndexAfter
  <2>2. CASE i \in IndexesAdded(a, b, t)
    <3>1. J3[i] = CreatedEntries(a, t)[i]
      BY <1>4, <1>5, <1>7, <2>2
    <3>2. a.index[i].table = t
      BY <1>7, <2>2 DEF IndexesOf
    <3>3. CreatedEntries(a, t)[i] = Entry(a, i)
      BY <3>2 DEF CreatedEntries, Entry
    <3>4. QED
      BY <2>1, <2>2, <3>1, <3>3
  <2>3. CASE i \notin IndexesAdded(a, b, t) /\ i \in IndexesOf(b, t)
    <3>1. I[i] = b.index[i] /\ i \notin Moved(a, b, D) /\ i \notin LostOf(a, b, D) /\ b.index[i] # Absent /\ b.index[i].table = t
      BY <1>2, <1>8, <2>3
    <3>2. J2[i] = IF b.index[i].on \cap R # {} THEN Absent ELSE b.index[i]
      BY <1>3, <1>4, <1>6, <2>3, <3>1
    <3>3. i \in Lost(a, b, t) <=> i \notin IndexesOf(a, t) \/ b.index[i].on \cap R # {}
      BY <2>3 DEF Lost, R
    <3>4. QED
      BY <1>5, <1>7, <2>1, <2>3, <3>1, <3>2, <3>3
  <2>4. CASE i \notin IndexesAdded(a, b, t) /\ i \notin IndexesOf(b, t)
    <3>1. i \notin OnThese(I, t, R) /\ i \notin IndexesAdded(b, a, t) /\ i \notin Lost(a, b, t)
      BY <1>2, <1>6, <1>7, <2>4 DEF Lost
    <3>2. J3[i] = I[i]
      BY <1>3, <1>4, <1>5, <2>4, <3>1
    <3>3. QED
      BY <1>2, <2>1, <2>4, <3>1, <3>2
  <2>5. QED
    BY <2>2, <2>3, <2>4
<1>15. J3 = IndexAfter(a, b, D \cup {t})
  <2> DEFINE K == IndexAfter(a, b, D \cup {t})
  <2>1. K = [i \in IndexName |-> K[i]]
    BY DEF IndexAfter
  <2> HIDE DEF K
  <2>2. \A i \in IndexName : J3[i] = K[i]
    BY <1>14 DEF K
  <2>3. J3 = K
    BY <1>5, <2>1, <2>2 DEF IsFun
  <2>4. QED
    BY <2>3 DEF K
<1>16. QED
  BY <1>1, <1>13, <1>15 DEF I, J3

Cell == [type : Type, pk : BOOLEAN] \cup {Absent}
Shape ==
  [columns : [TableName -> [ColumnName -> Cell]],
   index : [IndexName -> [table : TableName, on : SUBSET ColumnName] \cup {Absent}]]

NewRows(a, b) == [t \in TableName |-> NewRow(a, b, t, b.columns[t])]
SomeBlocked(a, b, D) == \E u \in D : Blocked(a, b, u)

\* The schema when the plans of some of the changed tables, the first ones, have been run.
PartChanged(a, b, C, D) ==
  RefusedIf(SomeBlocked(a, b, D), Snap(Put(C, D, NewRows(a, b)), IndexAfter(a, b, D)))

LEMMA TableChanged ==
  ASSUME NEW a, NEW b, NEW t \in Changed(a, b), NEW D \in SUBSET Changed(a, b), t \notin D,
         \A u \in Changed(a, b) : u \in D <=> u < t, \A u \in D : ~(t < u),
         NEW C, IsFun(C, TableName), IsFun(b.columns[t], ColumnName), C[t] = b.columns[t]
  PROVE  /\ Ran(PartChanged(a, b, C, D), TablePlan(a, b, t)) = PartChanged(a, b, C, D \cup {t})
         /\ IsScript(TablePlan(a, b, t))
<1> DEFINE rows == NewRows(a, b)
           K(E) == Put(C, E, rows)
           q == TablePlan(a, b, t)
<1>1. t \in TableName
  BY DEF Changed, Having, Tables
<1>2. /\ IsFun(K(D), TableName) /\ K(D)[t] = b.columns[t] /\ WithOne(K(D), t, rows[t]) = K(D \cup {t})
      /\ rows[t] = NewRow(a, b, t, b.columns[t])
  BY <1>1, PutFacts DEF NewRows
<1>3. PartChanged(a, b, C, D) = RefusedIf(SomeBlocked(a, b, D), Snap(K(D), IndexAfter(a, b, D)))
  BY DEF PartChanged
<1>4. PartChanged(a, b, C, D \cup {t})
        = RefusedIf(SomeBlocked(a, b, D \cup {t}), Snap(K(D \cup {t}), IndexAfter(a, b, D \cup {t})))
  BY DEF PartChanged
<1>5. SomeBlocked(a, b, D \cup {t}) <=> SomeBlocked(a, b, D) \/ Blocked(a, b, t)
  BY DEF SomeBlocked
<1> HIDE DEF K, rows
<1>6. IsFun(IndexAfter(a, b, D), IndexName)
  BY DEF IsFun, IndexAfter
<1>7. IsScript(q)
  BY <1>1, <1>2, <1>6, TablePlanRun
<1>8. CASE SomeBlocked(a, b, D)
  <2>1. PartChanged(a, b, C, D) = Rejected /\ PartChanged(a, b, C, D \cup {t}) = Rejected
    BY <1>3, <1>4, <1>5, <1>8 DEF RefusedIf
  <2>2. QED
    BY <1>7, <2>1, RejectedStays
<1>9. CASE ~SomeBlocked(a, b, D)
  <2> DEFINE I == IndexAfter(a, b, D)
  <2>1. PartChanged(a, b, C, D) = Snap(K(D), I)
    BY <1>3, <1>9 DEF RefusedIf
  <2>2. PartChanged(a, b, C, D \cup {t}) = RefusedIf(Blocked(a, b, t), Snap(K(D \cup {t}), IndexAfter(a, b, D \cup {t})))
    BY <1>4, <1>5, <1>9 DEF RefusedIf
  <2>3. \A u \in D : u \in Changed(a, b) /\ u < t /\ ~(t < u) /\ ~Blocked(a, b, u)
    BY <1>9 DEF SomeBlocked
  <2>4. PlanRefused(a, b, t, I) <=> Blocked(a, b, t)
    BY <2>3, IndexStep
  <2>5. NewIndexes(a, b, t, I) = IndexAfter(a, b, D \cup {t})
    BY <2>3, IndexStep
  <2> HIDE DEF I
  <2>6. Ran(Snap(K(D), I), q)
          = RefusedIf(PlanRefused(a, b, t, I), Snap(WithOne(K(D), t, NewRow(a, b, t, K(D)[t])), NewIndexes(a, b, t, I)))
    BY <1>1, <1>2, <1>6, TablePlanRun DEF I
  <2>7. WithOne(K(D), t, NewRow(a, b, t, K(D)[t])) = K(D \cup {t})
    BY <1>2
  <2>8. Ran(Snap(K(D), I), q) = RefusedIf(Blocked(a, b, t), Snap(K(D \cup {t}), IndexAfter(a, b, D \cup {t})))
    BY <2>4, <2>5, <2>6, <2>7 DEF RefusedIf
  <2>9. QED
    BY <1>7, <2>1, <2>2, <2>8
<1>10. QED
  BY <1>8, <1>9

\* All changed tables: the first one in their order whose plan fails refuses the script.
LEMMA TablesChanged ==
  ASSUME NEW a, NEW b \in Shape, NEW C, IsFun(C, TableName), \A t \in Changed(a, b) : C[t] = b.columns[t]
  PROVE  /\ Ran(Snap(C, b.index), FlattenSeq(Over(TablesToChange(a, b))))
              = RefusedIf(SomeBlocked(a, b, Changed(a, b)),
                          Snap(Put(C, Changed(a, b), NewRows(a, b)), IndexAfter(a, b, Changed(a, b))))
         /\ IsScript(FlattenSeq(Over(TablesToChange(a, b))))
<1> DEFINE S == Changed(a, b)
           g == TablesToChange(a, b)
           X == [D \in SUBSET S |-> PartChanged(a, b, C, D)]
<1>1. S \in SUBSET TableName /\ DOMAIN g = S
  BY DEF Changed, Having, Tables, TablesToChange
<1>2. S \in SUBSET (Nat \ {0}) /\ S \in SUBSET Nat /\ IsFiniteSet(S)
  BY <1>1, NamesAreSome
<1>3. \A t \in S : g[t] = TablePlan(a, b, t)
  BY DEF TablesToChange, Changed
<1>4. \A D \in SUBSET S : X[D] = PartChanged(a, b, C, D)
  OBVIOUS
<1>5. \A t \in S : IsFun(b.columns[t], ColumnName)
  <2> SUFFICES ASSUME NEW t \in S PROVE IsFun(b.columns[t], ColumnName)
    OBVIOUS
  <2>1. b.columns[t] \in [ColumnName -> Cell]
    BY <1>1 DEF Shape
  <2>2. QED
    BY <2>1 DEF IsFun
<1> HIDE DEF S, g, X
<1>6. ASSUME NEW t \in S
      PROVE  IsScript(g[t]) /\ Ran(X[PlacesBelow(S, t)], g[t]) = X[PlacesBelow(S, t) \cup {t}]
  <2> DEFINE D == PlacesBelow(S, t)
  <2>1. D \in SUBSET S /\ t \notin D
    BY <1>2, BelowUpTo
  <2>2. \A u \in S : u \in D <=> u < t
    BY DEF PlacesBelow
  <2>3. \A u \in D : ~(t < u)
    <3>1. \A u \in S : u \in Nat /\ t \in Nat
      BY <1>2
    <3>2. QED
      BY <2>1, <2>2, <3>1
  <2> HIDE DEF D
  <2>4. Ran(PartChanged(a, b, C, D), TablePlan(a, b, t)) = PartChanged(a, b, C, D \cup {t}) /\ IsScript(TablePlan(a, b, t))
    BY <1>5, <2>1, <2>2, <2>3, TableChanged DEF S
  <2>5. D \cup {t} \in SUBSET S
    BY <2>1
  <2>6. X[D] = PartChanged(a, b, C, D) /\ X[D \cup {t}] = PartChanged(a, b, C, D \cup {t})
    BY <1>4, <2>1, <2>5
  <2>7. QED
    BY <1>3, <2>4, <2>6 DEF D
<1>7. TableByTable(S, g, X)
  BY <1>1, <1>6 DEF TableByTable
<1>8. Ran(X[{}], FlattenSeq(Over(g))) = X[S] /\ IsScript(FlattenSeq(Over(g)))
  BY <1>2, <1>7, OverFlattened
<1>9. X[{}] = Snap(C, b.index)
  <2>1. X[{}] = PartChanged(a, b, C, {})
    BY <1>4
  <2>2. ~SomeBlocked(a, b, {})
    BY DEF SomeBlocked
  <2>3. Put(C, {}, NewRows(a, b)) = C
    BY PutFacts
  <2>4. IndexAfter(a, b, {}) = b.index
    <3>1. Moved(a, b, {}) = {} /\ LostOf(a, b, {}) = {}
      BY DEF Moved, LostOf
    <3>2. IndexAfter(a, b, {}) = [i \in IndexName |-> b.index[i]]
      BY <3>1 DEF IndexAfter
    <3>3. b.index \in [IndexName -> [table : TableName, on : SUBSET ColumnName] \cup {Absent}]
      BY DEF Shape
    <3>4. QED
      BY <3>2, <3>3
  <2>5. QED
    BY <2>1, <2>2, <2>3, <2>4 DEF PartChanged, RefusedIf
<1>10. X[S] = PartChanged(a, b, C, S)
  BY <1>4
<1>11. QED
  BY <1>8, <1>9, <1>10 DEF PartChanged, S, g

Blanks == [t \in TableName |-> Blank(ColumnName)]
New(a, b) == Having(a, b, "new")
Gone(a, b) == Having(a, b, "only-target")
FinalColumns(a, b) == Put(Put(Put(b.columns, New(a, b), a.columns), Changed(a, b), NewRows(a, b)), Gone(a, b), Blanks)
FinalIndex(a, b) ==
  WithoutThese(IndexAfter(a, b, Changed(a, b)), AtThese(IndexAfter(a, b, Changed(a, b)), Gone(a, b)))
KeyOfTwo(a, b) == \E t \in New(a, b) : KeyTwice(a, t)

\* The whole plan, run: refused, or the three kinds of table each as the source has it.
LEMMA PlanRun ==
  ASSUME NEW a, NEW b \in Shape
  PROVE  After(a, b) = RefusedIf(KeyOfTwo(a, b) \/ SomeBlocked(a, b, Changed(a, b)),
                                 Snap(FinalColumns(a, b), FinalIndex(a, b)))
<1> DEFINE p == Over(TablesToCreate(a, b))
           q == FlattenSeq(Over(TablesToChange(a, b)))
           r == Over(TablesToDrop(a, b))
           C1 == Put(b.columns, New(a, b), a.columns)
           C2 == Put(C1, Changed(a, b), NewRows(a, b))
           C3 == FinalColumns(a, b)
           I2 == IndexAfter(a, b, Changed(a, b))
           I3 == FinalIndex(a, b)
           bad == KeyOfTwo(a, b)
           worse == SomeBlocked(a, b, Changed(a, b))
<1>1. After(a, b) = Ran(b, (p \o q) \o r)
  BY DEF After, Ran, Plan
<1>2. b = Snap(b.columns, b.index) /\ IsFun(b.columns, TableName)
  BY DEF Shape, Snap, IsFun
<1>3. bad \in BOOLEAN /\ worse \in BOOLEAN
  BY DEF KeyOfTwo, SomeBlocked
<1>4. /\ IsFun(C1, TableName) /\ IsFun(C2, TableName)
      /\ \A t \in TableName : C1[t] = IF t \in New(a, b) THEN a.columns[t] ELSE b.columns[t]
  <2>1. /\ IsFun(C1, TableName)
        /\ \A t \in TableName : C1[t] = IF t \in New(a, b) THEN a.columns[t] ELSE b.columns[t]
    BY <1>2, PutFacts
  <2> HIDE DEF C1
  <2>2. IsFun(C2, TableName)
    BY <2>1, PutFacts
  <2>3. QED
    BY <2>1, <2>2
<1>5. \A t \in Changed(a, b) : C1[t] = b.columns[t]
  <2>1. \A t \in Changed(a, b) : t \in TableName /\ t \notin New(a, b)
    BY DEF Changed, New, Having, Tables
  <2>2. QED
    BY <1>4, <2>1
<1>6. IsFun(I2, IndexName)
  BY DEF IsFun, IndexAfter
<1>7. C3 = Put(C2, Gone(a, b), Blanks) /\ I3 = WithoutThese(I2, AtThese(I2, Gone(a, b)))
  BY DEF FinalColumns, FinalIndex
<1> HIDE DEF p, q, r, C1, C2, C3, I2, I3, bad, worse
<1>8. Ran(b, p) = RefusedIf(bad, Snap(C1, b.index)) /\ IsScript(p)
  BY <1>2, TablesCreated, ZenonT(60) DEF p, C1, bad, KeyOfTwo, New
<1>9. Ran(Snap(C1, b.index), q) = RefusedIf(worse, Snap(C2, I2)) /\ IsScript(q)
  BY <1>4, <1>5, TablesChanged DEF q, C2, I2, worse
<1>10. Ran(Snap(C2, I2), r) = Snap(C3, I3) /\ IsScript(r)
  BY <1>4, <1>6, <1>7, TablesDropped DEF r, Gone, Blanks
<1>11. Ran(b, p \o q) = Ran(RefusedIf(bad, Snap(C1, b.index)), q) /\ IsScript(p \o q)
  BY <1>8, <1>9, RanOfConcat
<1>12. Ran(b, p \o q) = RefusedIf(bad \/ worse, Snap(C2, I2))
  <2>1. Ran(RefusedIf(bad, Snap(C1, b.index)), q) = RefusedIf(bad, Ran(Snap(C1, b.index), q))
    BY <1>3, <1>9, RefusedRun
  <2>2. RefusedIf(bad, RefusedIf(worse, Snap(C2, I2))) = RefusedIf(bad \/ worse, Snap(C2, I2))
    BY <1>3, RefusedTwice
  <2>3. QED
    BY <1>9, <1>11, <2>1, <2>2
<1>13. Ran(b, (p \o q) \o r) = Ran(RefusedIf(bad \/ worse, Snap(C2, I2)), r)
  BY <1>10, <1>11, <1>12, RanOfConcat
<1>14. Ran(RefusedIf(bad \/ worse, Snap(C2, I2)), r) = RefusedIf(bad \/ worse, Snap(C3, I3))
  <2> DEFINE either == bad \/ worse
  <2>1. either \in BOOLEAN
    OBVIOUS
  <2> HIDE DEF either
  <2>2. Ran(RefusedIf(either, Snap(C2, I2)), r) = RefusedIf(either, Ran(Snap(C2, I2), r))
    BY <1>10, <2>1, RefusedRun
  <2>3. QED
    BY <1>10, <2>2 DEF either
<1>15. QED
  BY <1>1, <1>13, <1>14 DEF C3, I3, bad, worse

-----------------------------------------------------------------------------
(* What a whole plan makes of the target.                                    *)

InStep(a, b, t) ==
  Added(a, b, t) \cup Altered(a, b, t) \cup Added(b, a, t) = {} /\ IndexesOf(a, t) = IndexesOf(b, t)

\* Which of the three kinds a table is.
LEMMA Standing ==
  ASSUME NEW a, NEW b, NEW t \in TableName
  PROVE  /\ t \in New(a, b) <=> HasTable(a, t) /\ ~HasTable(b, t)
         /\ t \in Gone(a, b) <=> ~HasTable(a, t) /\ HasTable(b, t)
         /\ t \in Changed(a, b) <=> HasTable(a, t) /\ HasTable(b, t) /\ ~InStep(a, b, t)
<1>1. t \in Tables(a, b) <=> HasTable(a, t) \/ HasTable(b, t)
  BY DEF Tables
<1>2. Status(a, b, t) = IF ~HasTable(b, t) THEN "new" ELSE IF ~HasTable(a, t) THEN "only-target"
                        ELSE IF InStep(a, b, t) THEN "same" ELSE "changed"
  BY DEF Status, InStep
<1>3. \A st : t \in Having(a, b, st) <=> t \in Tables(a, b) /\ Status(a, b, t) = st
  BY DEF Having, Tables
<1>4. t \in New(a, b) <=> HasTable(a, t) /\ ~HasTable(b, t)
  BY <1>1, <1>2, <1>3 DEF New
<1>5. t \in Gone(a, b) <=> ~HasTable(a, t) /\ HasTable(b, t)
  BY <1>1, <1>2, <1>3 DEF Gone
<1>6. t \in Changed(a, b) <=> HasTable(a, t) /\ HasTable(b, t) /\ ~InStep(a, b, t)
  BY <1>1, <1>2, <1>3 DEF Changed
<1>7. QED
  BY <1>4, <1>5, <1>6

LEMMA Cells ==
  ASSUME NEW s \in Shape, NEW t \in TableName, NEW c \in ColumnName
  PROVE  /\ s.columns[t][c] \in Cell
         /\ HasColumn(s, t, c) <=> s.columns[t][c] # Absent
         /\ HasColumn(s, t, c) => /\ s.columns[t][c].type \in Type /\ HasTable(s, t)
                                  /\ s.columns[t][c] \in [type : Type, pk : BOOLEAN]
<1>1. s.columns \in [TableName -> [ColumnName -> Cell]]
  BY DEF Shape
<1>2. s.columns[t][c] \in Cell
  BY <1>1
<1>3. HasColumn(s, t, c) <=> s.columns[t][c] # Absent
  BY DEF HasColumn
<1>4. HasColumn(s, t, c) => HasTable(s, t)
  BY <1>3 DEF HasTable
<1>5. QED
  BY <1>2, <1>3, <1>4 DEF Cell

LEMMA NewCell ==
  /\ \A ty \in Type, k \in BOOLEAN : /\ [type |-> ty, pk |-> k] \in Cell /\ [type |-> ty, pk |-> k] # Absent
                                     /\ [type |-> ty, pk |-> k].type = ty
  /\ \A d \in [type : Type, pk : BOOLEAN], ty \in Type :
       Retyped(d, ty) \in Cell /\ Retyped(d, ty) # Absent /\ Retyped(d, ty).type = ty
<1>1. ASSUME NEW ty \in Type, NEW k \in BOOLEAN
      PROVE  [type |-> ty, pk |-> k] \in Cell /\ [type |-> ty, pk |-> k] # Absent /\ [type |-> ty, pk |-> k].type = ty
  <2>1. [type |-> ty, pk |-> k] \in [type : Type, pk : BOOLEAN]
    OBVIOUS
  <2>2. QED
    BY <2>1, PlanAssumption DEF Cell
<1>2. ASSUME NEW d \in [type : Type, pk : BOOLEAN], NEW ty \in Type
      PROVE  Retyped(d, ty) \in Cell /\ Retyped(d, ty) # Absent /\ Retyped(d, ty).type = ty
  <2>1. Retyped(d, ty) = [type |-> ty, pk |-> d.pk] /\ d.pk \in BOOLEAN
    BY DEF Retyped
  <2>2. QED
    BY <1>1, <2>1
<1>3. QED
  BY <1>1, <1>2

\* A row of a changed table, cell by cell.
LEMMA RowAfter ==
  ASSUME NEW a, NEW b \in Shape, NEW t \in TableName, NEW c \in ColumnName
  PROVE  NewRow(a, b, t, b.columns[t])[c]
           = IF c \in Added(b, a, t) THEN Absent
             ELSE IF c \in Altered(a, b, t) THEN Retyped(b.columns[t][c], a.columns[t][c].type)
             ELSE IF c \in Added(a, b, t) THEN [type |-> a.columns[t][c].type, pk |-> FALSE]
             ELSE b.columns[t][c]
<1> DEFINE row == b.columns[t]
           row1 == RowGrown(a, b, t, row)
           row2 == RowRetyped(a, b, t, row)
           row3 == NewRow(a, b, t, row)
<1>1. IsFun(row, ColumnName)
  <2>1. row \in [ColumnName -> Cell]
    BY DEF Shape
  <2>2. QED
    BY <2>1 DEF IsFun
<1> HIDE DEF row
<1>2. IsFun(row1, ColumnName) /\ row1[c] = IF c \in Added(a, b, t) THEN AddedCells(a, t)[c] ELSE row[c]
  BY <1>1, PutFacts DEF RowGrown
<1>3. row2 = Put(row1, Altered(a, b, t), AlteredCells(a, t, row1))
  BY DEF RowRetyped
<1> HIDE DEF row1, row2
<1>4. /\ IsFun(row2, ColumnName)
      /\ row2[c] = IF c \in Altered(a, b, t) THEN AlteredCells(a, t, row1)[c] ELSE row1[c]
  BY <1>2, <1>3, PutFacts
<1>5. row3[c] = IF c \in Added(b, a, t) THEN Blank(ColumnName)[c] ELSE row2[c]
  BY <1>4, PutFacts DEF NewRow, row2
<1>6. /\ AddedCells(a, t)[c] = [type |-> a.columns[t][c].type, pk |-> FALSE]
      /\ AlteredCells(a, t, row1)[c] = Retyped(row1[c], a.columns[t][c].type)
      /\ Blank(ColumnName)[c] = Absent
  BY DEF AddedCells, AlteredCells, Blank
<1>7. c \in Altered(a, b, t) => c \notin Added(a, b, t)
  BY DEF Altered, Added
<1>8. QED
  BY <1>2, <1>4, <1>5, <1>6, <1>7 DEF row

\* The columns of the target are the source's, with their types.
LEMMA CellAfter ==
  ASSUME NEW a \in Shape, NEW b \in Shape, NEW t \in TableName, NEW c \in ColumnName,
         NEW v, v = FinalColumns(a, b)[t][c]
  PROVE  /\ v \in Cell /\ (v # Absent <=> HasColumn(a, t, c))
         /\ HasColumn(a, t, c) => v.type = a.columns[t][c].type
<1> DEFINE C1 == Put(b.columns, New(a, b), a.columns)
           C2 == Put(C1, Changed(a, b), NewRows(a, b))
           x == a.columns[t][c]
           y == b.columns[t][c]
<1>1. IsFun(b.columns, TableName)
  BY DEF Shape, IsFun
<1>2. IsFun(C1, TableName) /\ C1[t] = IF t \in New(a, b) THEN a.columns[t] ELSE b.columns[t]
  BY <1>1, PutFacts
<1>3. FinalColumns(a, b) = Put(C2, Gone(a, b), Blanks)
  BY DEF FinalColumns
<1> HIDE DEF C1
<1>4. IsFun(C2, TableName) /\ C2[t] = IF t \in Changed(a, b) THEN NewRows(a, b)[t] ELSE C1[t]
  BY <1>2, PutFacts
<1> HIDE DEF C2
<1>5. FinalColumns(a, b)[t] = IF t \in Gone(a, b) THEN Blanks[t] ELSE C2[t]
  BY <1>3, <1>4, PutFacts
<1>6. Blanks[t][c] = Absent /\ NewRows(a, b)[t][c] = NewRow(a, b, t, b.columns[t])[c]
  BY DEF Blanks, Blank, NewRows
<1>7. /\ HasColumn(a, t, c) <=> x # Absent
      /\ HasColumn(b, t, c) <=> y # Absent
      /\ x \in Cell /\ y \in Cell
      /\ x # Absent => HasTable(a, t) /\ x.type \in Type
      /\ y # Absent => HasTable(b, t) /\ y.type \in Type /\ y \in [type : Type, pk : BOOLEAN]
  <2>1. /\ HasColumn(a, t, c) <=> x # Absent
        /\ x \in Cell
        /\ x # Absent => HasTable(a, t) /\ x.type \in Type
    BY Cells
  <2>2. /\ HasColumn(b, t, c) <=> y # Absent
        /\ y \in Cell
        /\ y # Absent => HasTable(b, t) /\ y.type \in Type /\ y \in [type : Type, pk : BOOLEAN]
    BY Cells
  <2>3. QED
    BY <2>1, <2>2
<1>8. /\ c \in Added(a, b, t) <=> HasColumn(a, t, c) /\ ~HasColumn(b, t, c)
      /\ c \in Added(b, a, t) <=> HasColumn(b, t, c) /\ ~HasColumn(a, t, c)
      /\ c \in Altered(a, b, t) <=> HasColumn(a, t, c) /\ HasColumn(b, t, c) /\ x.type # y.type
  BY DEF Added, Altered
<1>9. Absent \in Cell
  BY DEF Cell
<1>10. /\ t \in New(a, b) <=> HasTable(a, t) /\ ~HasTable(b, t)
       /\ t \in Gone(a, b) <=> ~HasTable(a, t) /\ HasTable(b, t)
       /\ t \in Changed(a, b) <=> HasTable(a, t) /\ HasTable(b, t) /\ ~InStep(a, b, t)
  BY Standing
<1>11. CASE t \in New(a, b)
  <2>1. v = x
    BY <1>2, <1>4, <1>5, <1>10, <1>11
  <2>2. QED
    BY <1>7, <2>1
<1>12. CASE t \in Gone(a, b)
  <2>1. v = Absent
    BY <1>5, <1>6, <1>12
  <2>2. QED
    BY <1>7, <1>9, <1>10, <1>12, <2>1
<1>13. CASE t \in Changed(a, b)
  <2>1. v = NewRow(a, b, t, b.columns[t])[c]
    BY <1>4, <1>5, <1>6, <1>10, <1>13
  <2>2. v = IF c \in Added(b, a, t) THEN Absent
            ELSE IF c \in Altered(a, b, t) THEN Retyped(y, x.type)
            ELSE IF c \in Added(a, b, t) THEN [type |-> x.type, pk |-> FALSE] ELSE y
    <3>1. NewRow(a, b, t, b.columns[t])[c]
            = IF c \in Added(b, a, t) THEN Absent
              ELSE IF c \in Altered(a, b, t) THEN Retyped(b.columns[t][c], a.columns[t][c].type)
              ELSE IF c \in Added(a, b, t) THEN [type |-> a.columns[t][c].type, pk |-> FALSE]
              ELSE b.columns[t][c]
      BY RowAfter
    <3>2. QED
      BY <2>1, <3>1
  <2> HIDE DEF x, y
  <2>3. CASE c \in Added(b, a, t)
    BY <1>7, <1>8, <1>9, <2>2, <2>3
  <2>4. CASE c \in Altered(a, b, t)
    <3>1. v = Retyped(y, x.type) /\ HasColumn(a, t, c) /\ x # Absent /\ y # Absent
      BY <1>7, <1>8, <2>2, <2>4
    <3>2. QED
      BY <1>7, <3>1, NewCell DEF x
  <2>5. CASE c \in Added(a, b, t)
    <3>1. v = [type |-> x.type, pk |-> FALSE] /\ HasColumn(a, t, c) /\ x.type \in Type
      BY <1>7, <1>8, <2>2, <2>5
    <3>2. QED
      BY <3>1, NewCell DEF x
  <2>6. CASE c \notin Added(b, a, t) /\ c \notin Altered(a, b, t) /\ c \notin Added(a, b, t)
    <3>1. v = y
      BY <2>2, <2>6
    <3>2. QED
      BY <1>7, <1>8, <2>6, <3>1 DEF x
  <2>7. QED
    BY <2>3, <2>4, <2>5, <2>6
<1>14. CASE t \notin New(a, b) /\ t \notin Gone(a, b) /\ t \notin Changed(a, b)
  <2>1. v = y
    BY <1>2, <1>4, <1>5, <1>14
  <2>2. HasTable(a, t) => InStep(a, b, t)
    BY <1>10, <1>14
  <2>3. HasTable(a, t) \/ (~HasTable(a, t) /\ ~HasTable(b, t))
    BY <1>10, <1>14
  <2>4. InStep(a, b, t) => c \notin Added(a, b, t) /\ c \notin Added(b, a, t) /\ c \notin Altered(a, b, t)
    BY DEF InStep
  <2>5. QED
    BY <1>7, <1>8, <2>1, <2>2, <2>3, <2>4
<1>15. QED
  BY <1>11, <1>12, <1>13, <1>14

\* An index is on a table there is.
Placed(s) == \A i \in IndexName : s.index[i] # Absent => HasTable(s, s.index[i].table)

SameColumns(a, b) ==
  \A t \in TableName, c \in ColumnName :
    /\ HasColumn(a, t, c) <=> HasColumn(b, t, c)
    /\ HasColumn(a, t, c) => a.columns[t][c].type = b.columns[t][c].type

LEMMA Entries ==
  ASSUME NEW s \in Shape, NEW i \in IndexName
  PROVE  /\ s.index[i] \in [table : TableName, on : SUBSET ColumnName] \cup {Absent}
         /\ s.index[i] # Absent => s.index[i].table \in TableName
         /\ \A t : i \in IndexesOf(s, t) <=> s.index[i] # Absent /\ s.index[i].table = t
         /\ Placed(s) /\ s.index[i] # Absent => HasTable(s, s.index[i].table)
<1>1. s.index \in [IndexName -> [table : TableName, on : SUBSET ColumnName] \cup {Absent}]
  BY DEF Shape
<1>2. s.index[i] \in [table : TableName, on : SUBSET ColumnName] \cup {Absent}
  BY <1>1
<1>3. s.index[i] # Absent => s.index[i].table \in TableName
  BY <1>2
<1>4. \A t : i \in IndexesOf(s, t) <=> s.index[i] # Absent /\ s.index[i].table = t
  BY DEF IndexesOf
<1>5. Placed(s) /\ s.index[i] # Absent => HasTable(s, s.index[i].table)
  BY DEF Placed
<1>6. QED
  BY <1>2, <1>3, <1>4, <1>5

\* Where an index is when all plans of tables, and the drops, have been run.
LEMMA IndexFinally ==
  ASSUME NEW a, NEW b, NEW i \in IndexName, NEW v, v = FinalIndex(a, b)[i]
  PROVE  /\ i \in Moved(a, b, Changed(a, b)) /\ a.index[i].table \notin Gone(a, b) => v = Entry(a, i)
         /\ i \notin Moved(a, b, Changed(a, b)) /\ i \in LostOf(a, b, Changed(a, b)) => v = Absent
         /\ i \notin Moved(a, b, Changed(a, b)) /\ i \notin LostOf(a, b, Changed(a, b)) =>
              v = IF b.index[i] # Absent /\ b.index[i].table \in Gone(a, b) THEN Absent ELSE b.index[i]
<1> DEFINE I == IndexAfter(a, b, Changed(a, b))
           gone == AtThese(I, Gone(a, b))
<1>1. IsFun(I, IndexName)
  BY DEF IsFun, IndexAfter
<1>2. FinalIndex(a, b) = WithoutThese(I, gone)
  BY DEF FinalIndex
<1>3. I[i] = IF i \in Moved(a, b, Changed(a, b)) THEN Entry(a, i)
             ELSE IF i \in LostOf(a, b, Changed(a, b)) THEN Absent ELSE b.index[i]
  BY DEF IndexAfter
<1>4. i \in gone <=> I[i] # Absent /\ I[i].table \in Gone(a, b)
  BY DEF AtThese
<1> HIDE DEF I, gone
<1>5. v = IF i \in gone THEN Absent ELSE I[i]
  BY <1>1, <1>2, WithoutFacts
<1>6. Entry(a, i).table = a.index[i].table
  BY DEF Entry
<1>7. QED
  BY <1>3, <1>4, <1>5, <1>6

\* An index the plan leaves is one of the source's, on the same table.
LEMMA IndexAfterPlan ==
  ASSUME NEW a \in Shape, NEW b \in Shape, Placed(a), Placed(b), NEW i \in IndexName,
         NEW v, v = FinalIndex(a, b)[i], v # Absent
  PROVE  v \in [table : TableName, on : SUBSET ColumnName] /\ i \in IndexesOf(a, v.table)
<1> DEFINE x == a.index[i]
           y == b.index[i]
           S == Changed(a, b)
<1>1. /\ x \in [table : TableName, on : SUBSET ColumnName] \cup {Absent}
      /\ x # Absent => x.table \in TableName /\ HasTable(a, x.table)
      /\ \A t : i \in IndexesOf(a, t) <=> x # Absent /\ x.table = t
  BY Entries
<1>2. /\ y \in [table : TableName, on : SUBSET ColumnName] \cup {Absent}
      /\ y # Absent => y.table \in TableName /\ HasTable(b, y.table)
      /\ \A t : i \in IndexesOf(b, t) <=> y # Absent /\ y.table = t
  BY Entries
<1>3. /\ i \in Moved(a, b, S) <=> \E u \in S : i \in IndexesOf(a, u) /\ i \notin IndexesOf(b, u)
      /\ i \in LostOf(a, b, S) <=>
           \E u \in S : i \in IndexesOf(b, u) /\ (i \notin IndexesOf(a, u) \/ y.on \cap Added(b, a, u) # {})
  BY DEF Moved, LostOf, Lost, IndexesAdded
<1>4. /\ i \in Moved(a, b, S) /\ x.table \notin Gone(a, b) => v = Entry(a, i)
      /\ i \notin Moved(a, b, S) /\ i \in LostOf(a, b, S) => v = Absent
      /\ i \notin Moved(a, b, S) /\ i \notin LostOf(a, b, S) => v = IF y # Absent /\ y.table \in Gone(a, b) THEN Absent ELSE y
  <2>1. /\ i \in Moved(a, b, S) /\ a.index[i].table \notin Gone(a, b) => v = Entry(a, i)
        /\ i \notin Moved(a, b, S) /\ i \in LostOf(a, b, S) => v = Absent
        /\ i \notin Moved(a, b, S) /\ i \notin LostOf(a, b, S) =>
             v = IF b.index[i] # Absent /\ b.index[i].table \in Gone(a, b) THEN Absent ELSE b.index[i]
    BY IndexFinally
  <2>2. QED
    BY <2>1
<1>5. CASE i \in Moved(a, b, S)
  <2>1. x # Absent /\ x \in [table : TableName, on : SUBSET ColumnName] /\ x.table \in TableName /\ HasTable(a, x.table)
    BY <1>1, <1>3, <1>5
  <2>2. x.table \notin Gone(a, b)
    BY <2>1, Standing
  <2>3. Entry(a, i) = [table |-> x.table, on |-> x.on]
    BY DEF Entry
  <2>4. v = Entry(a, i)
    BY <1>4, <1>5, <2>2
  <2>5. v \in [table : TableName, on : SUBSET ColumnName] /\ v.table = x.table
    BY <2>1, <2>3, <2>4
  <2>6. QED
    BY <1>1, <2>1, <2>5
<1>6. CASE i \notin Moved(a, b, S)
  <2>1. i \notin LostOf(a, b, S) /\ v = y /\ ~(y # Absent /\ y.table \in Gone(a, b))
    BY <1>4, <1>6
  <2>2. y # Absent /\ y \in [table : TableName, on : SUBSET ColumnName] /\ y.table \in TableName /\ HasTable(b, y.table)
    BY <1>2, <2>1
  <2>3. HasTable(a, y.table)
    BY <2>1, <2>2, Standing
  <2>4. i \in IndexesOf(b, y.table)
    BY <1>2, <2>2
  <2>5. i \in IndexesOf(a, y.table)
    <3>1. CASE y.table \in S
      BY <1>3, <2>1, <2>4, <3>1
    <3>2. CASE y.table \notin S
      <4>1. InStep(a, b, y.table)
        BY <2>2, <2>3, <3>2, Standing DEF S
      <4>2. QED
        BY <2>4, <4>1 DEF InStep
    <3>3. QED
      BY <3>1, <3>2
  <2>6. QED
    BY <2>1, <2>2, <2>5
<1>7. QED
  BY <1>5, <1>6

LEMMA RowsAreRows ==
  ASSUME NEW a \in Shape, NEW b \in Shape
  PROVE  IsFun(FinalColumns(a, b), TableName) /\ \A t \in TableName : IsFun(FinalColumns(a, b)[t], ColumnName)
<1> DEFINE C1 == Put(b.columns, New(a, b), a.columns)
           C2 == Put(C1, Changed(a, b), NewRows(a, b))
           C3 == Put(C2, Gone(a, b), Blanks)
<1>1. IsFun(b.columns, TableName)
  BY DEF Shape, IsFun
<1>2. \A s \in Shape, t \in TableName : IsFun(s.columns[t], ColumnName)
  <2> SUFFICES ASSUME NEW s \in Shape, NEW t \in TableName PROVE IsFun(s.columns[t], ColumnName)
    OBVIOUS
  <2>1. s.columns[t] \in [ColumnName -> Cell]
    BY DEF Shape
  <2>2. QED
    BY <2>1 DEF IsFun
<1>3. IsFun(C1, TableName) /\ \A t \in TableName : C1[t] = IF t \in New(a, b) THEN a.columns[t] ELSE b.columns[t]
  BY <1>1, PutFacts
<1>4. \A t \in TableName : NewRows(a, b)[t] = NewRow(a, b, t, b.columns[t]) /\ Blanks[t] = Blank(ColumnName)
  BY DEF NewRows, Blanks
<1>5. IsFun(Blank(ColumnName), ColumnName)
  BY DEF IsFun, Blank
<1>6. ASSUME NEW t \in TableName PROVE IsFun(NewRow(a, b, t, b.columns[t]), ColumnName)
  <2>1. IsFun(RowGrown(a, b, t, b.columns[t]), ColumnName)
    BY <1>2, PutFacts DEF RowGrown
  <2>2. IsFun(RowRetyped(a, b, t, b.columns[t]), ColumnName)
    BY <2>1, PutFacts DEF RowRetyped
  <2>3. QED
    BY <2>2, PutFacts DEF NewRow
<1> HIDE DEF C1
<1>7. IsFun(C2, TableName) /\ \A t \in TableName : C2[t] = IF t \in Changed(a, b) THEN NewRows(a, b)[t] ELSE C1[t]
  BY <1>3, PutFacts
<1> HIDE DEF C2
<1>8. IsFun(C3, TableName) /\ \A t \in TableName : C3[t] = IF t \in Gone(a, b) THEN Blanks[t] ELSE C2[t]
  BY <1>7, PutFacts
<1> HIDE DEF C3
<1>9. ASSUME NEW t \in TableName PROVE IsFun(C3[t], ColumnName)
  <2>1. IsFun(a.columns[t], ColumnName) /\ IsFun(b.columns[t], ColumnName)
    BY <1>2
  <2>2. C3[t] \in {a.columns[t], b.columns[t], NewRow(a, b, t, b.columns[t]), Blank(ColumnName)}
    BY <1>3, <1>4, <1>7, <1>8
  <2>3. QED
    BY <1>5, <1>6, <2>1, <2>2
<1>10. C3 = FinalColumns(a, b)
  BY DEF FinalColumns, C1, C2, C3
<1>11. QED
  BY <1>8, <1>9, <1>10

\* One plan that was taken.
LEMMA OnePlan ==
  ASSUME NEW a \in Shape, NEW b \in Shape, Placed(a), Placed(b), NEW s,
         s = Snap(FinalColumns(a, b), FinalIndex(a, b))
  PROVE  s \in Shape /\ Placed(s) /\ LacksOnlyIndexes(a, s)
<1> DEFINE C == FinalColumns(a, b)
           I == FinalIndex(a, b)
<1>1. s.columns = C /\ s.index = I /\ s = [columns |-> C, index |-> I]
  BY SnapFacts DEF Snap
<1>2. ASSUME NEW t \in TableName, NEW c \in ColumnName
      PROVE  /\ C[t][c] \in Cell /\ (C[t][c] # Absent <=> HasColumn(a, t, c))
             /\ HasColumn(a, t, c) => C[t][c].type = a.columns[t][c].type
  BY CellAfter
<1>3. ASSUME NEW i \in IndexName, I[i] # Absent
      PROVE  I[i] \in [table : TableName, on : SUBSET ColumnName] /\ i \in IndexesOf(a, I[i].table)
  BY <1>3, IndexAfterPlan
<1>4. IsFun(C, TableName) /\ \A t \in TableName : IsFun(C[t], ColumnName)
  BY RowsAreRows
<1>5. IsFun(I, IndexName)
  <2> DEFINE J == IndexAfter(a, b, Changed(a, b))
  <2>1. IsFun(J, IndexName)
    BY DEF IsFun, IndexAfter
  <2> HIDE DEF J
  <2>2. \A gone : IsFun(WithoutThese(J, gone), IndexName)
    BY <2>1, WithoutFacts
  <2>3. QED
    BY <2>2 DEF FinalIndex, J
<1> HIDE DEF C, I
<1>6. C \in [TableName -> [ColumnName -> Cell]]
  <2>1. ASSUME NEW t \in TableName PROVE C[t] \in [ColumnName -> Cell]
    <3> DEFINE row == C[t]
    <3>1. row = [c \in ColumnName |-> row[c]]
      BY <1>4 DEF IsFun
    <3>2. \A c \in ColumnName : row[c] \in Cell
      BY <1>2
    <3> HIDE DEF row
    <3>3. row \in [ColumnName -> Cell]
      BY <3>1, <3>2
    <3>4. QED
      BY <3>3 DEF row
  <2>2. C = [t \in TableName |-> C[t]]
    BY <1>4 DEF IsFun
  <2>3. QED
    BY <2>1, <2>2
<1>7. I \in [IndexName -> [table : TableName, on : SUBSET ColumnName] \cup {Absent}]
  <2>1. \A i \in IndexName : I[i] \in [table : TableName, on : SUBSET ColumnName] \cup {Absent}
    BY <1>3
  <2>2. QED
    BY <1>5, <2>1 DEF IsFun
<1>8. s \in Shape
  BY <1>1, <1>6, <1>7 DEF Shape
<1>9. SameColumns(a, s)
  BY <1>1, <1>2 DEF SameColumns, HasColumn
<1>10. \A t \in TableName : HasTable(a, t) => HasTable(s, t)
  BY <1>9 DEF SameColumns, HasTable, HasColumn
<1>11. Placed(s)
  <2> SUFFICES ASSUME NEW i \in IndexName, I[i] # Absent PROVE HasTable(s, I[i].table)
    BY <1>1 DEF Placed
  <2>1. i \in IndexesOf(a, I[i].table) /\ I[i].table \in TableName
    BY <1>3
  <2>2. HasTable(a, I[i].table)
    BY <2>1, Entries
  <2>3. QED
    BY <1>10, <2>1, <2>2
<1>12. ASSUME NEW t \in TableName, NEW i \in IndexesOf(s, t) PROVE i \in IndexesOf(a, t)
  <2>1. i \in IndexName /\ I[i] # Absent /\ I[i].table = t
    BY <1>1 DEF IndexesOf
  <2>2. QED
    BY <1>3, <2>1
<1>13. QED
  BY <1>8, <1>9, <1>11, <1>12 DEF LacksOnlyIndexes, SameColumns

\* A plan with only indexes to create meets no name in use, and leaves no index to create.
LEMMA NearPlan ==
  ASSUME NEW a \in Shape, NEW b \in Shape, Placed(a), Placed(b), LacksOnlyIndexes(a, b)
  PROVE  /\ ~(KeyOfTwo(a, b) \/ SomeBlocked(a, b, Changed(a, b)))
         /\ Matches(a, Snap(FinalColumns(a, b), FinalIndex(a, b)))
<1> DEFINE s == Snap(FinalColumns(a, b), FinalIndex(a, b))
           I == FinalIndex(a, b)
           S == Changed(a, b)
<1>1. s.index = I
  BY SnapFacts
<1>2. \A t \in TableName : HasTable(a, t) <=> HasTable(b, t)
  BY DEF LacksOnlyIndexes, SameColumns, HasTable, HasColumn
<1>3. \A t \in TableName : Added(a, b, t) = {} /\ Added(b, a, t) = {}
  BY DEF LacksOnlyIndexes, SameColumns, Added
<1>4. \A t \in TableName : IndexesOf(b, t) \subseteq IndexesOf(a, t)
  BY DEF LacksOnlyIndexes
<1>5. S \subseteq TableName /\ New(a, b) \subseteq TableName
  BY DEF Changed, New, Having, Tables
<1>6. ~KeyOfTwo(a, b)
  BY <1>2, <1>5, Standing DEF KeyOfTwo
<1>7. ASSUME NEW i \in IndexName
      PROVE  /\ \A t : i \in IndexesOf(a, t) <=> a.index[i] # Absent /\ a.index[i].table = t
             /\ \A t : i \in IndexesOf(b, t) <=> b.index[i] # Absent /\ b.index[i].table = t
             /\ a.index[i] # Absent => a.index[i].table \in TableName /\ HasTable(a, a.index[i].table)
             /\ b.index[i] # Absent => b.index[i].table \in TableName /\ i \in IndexesOf(a, b.index[i].table)
  <2>1. /\ \A t : i \in IndexesOf(a, t) <=> a.index[i] # Absent /\ a.index[i].table = t
        /\ a.index[i] # Absent => a.index[i].table \in TableName /\ HasTable(a, a.index[i].table)
    BY Entries
  <2>2. /\ \A t : i \in IndexesOf(b, t) <=> b.index[i] # Absent /\ b.index[i].table = t
        /\ b.index[i] # Absent => b.index[i].table \in TableName
    BY Entries
  <2>3. QED
    BY <1>4, <2>1, <2>2
<1>8. ASSUME NEW t \in S PROVE ~Blocked(a, b, t)
  <2>1. t \in TableName /\ IndexesAdded(b, a, t) = {}
    BY <1>4, <1>5 DEF IndexesAdded
  <2>2. ASSUME NEW i \in IndexesAdded(a, b, t), b.index[i] # Absent PROVE FALSE
    <3>1. i \in IndexName /\ i \in IndexesOf(a, t) /\ i \notin IndexesOf(b, t)
      BY DEF IndexesAdded, IndexesOf
    <3>2. QED
      BY <1>7, <2>2, <3>1
  <2>3. QED
    BY <2>1, <2>2 DEF Blocked
<1>9. ~SomeBlocked(a, b, S)
  BY <1>8 DEF SomeBlocked
<1>10. SameColumns(a, s) /\ \A t \in TableName : IndexesOf(s, t) \subseteq IndexesOf(a, t)
  BY OnePlan DEF LacksOnlyIndexes, SameColumns
<1>11. ASSUME NEW t \in TableName, NEW i \in IndexesOf(a, t) PROVE I[i] # Absent /\ I[i].table = t
  <2>1. i \in IndexName /\ a.index[i] # Absent /\ a.index[i].table = t
    BY DEF IndexesOf
  <2>2. HasTable(a, t) /\ HasTable(b, t) /\ t \notin Gone(a, b)
    BY <1>2, <1>7, <2>1, Standing
  <2>3. \A u : i \in IndexesOf(a, u) => u = t
    BY <1>7, <2>1
  <2>4. i \in Moved(a, b, S) <=> \E u \in S : i \in IndexesOf(a, u) /\ i \notin IndexesOf(b, u)
    BY <2>1 DEF Moved, IndexesAdded
  <2>5. i \in LostOf(a, b, S) <=>
          \E u \in S : i \in IndexesOf(b, u) /\ (i \notin IndexesOf(a, u) \/ b.index[i].on \cap Added(b, a, u) # {})
    BY <2>1 DEF LostOf, Lost
  <2>6. CASE i \in IndexesOf(b, t)
    <3>1. i \notin Moved(a, b, S)
      BY <2>3, <2>4, <2>6
    <3>2. i \notin LostOf(a, b, S)
      BY <1>3, <1>4, <1>5, <2>5
    <3>3. b.index[i] # Absent /\ b.index[i].table = t
      BY <1>7, <2>1, <2>6
    <3>4. I[i] = b.index[i]
      BY <2>1, <2>2, <3>1, <3>2, <3>3, IndexFinally
    <3>5. QED
      BY <3>3, <3>4
  <2>7. CASE i \notin IndexesOf(b, t)
    <3>1. t \in S
      BY <2>2, <2>7, Standing DEF InStep, S
    <3>2. i \in Moved(a, b, S)
      BY <2>4, <2>7, <3>1
    <3>3. I[i] = Entry(a, i)
      BY <2>1, <2>2, <3>2, IndexFinally
    <3>4. Entry(a, i) \in [table : {t}, on : {a.index[i].on}]
      BY <2>1 DEF Entry
    <3>5. Entry(a, i) # Absent /\ Entry(a, i).table = t
      <4>1. a.index[i] \in [table : TableName, on : SUBSET ColumnName]
        BY <2>1, Entries
      <4>2. Entry(a, i) \in [table : TableName, on : SUBSET ColumnName]
        BY <4>1 DEF Entry
      <4>3. QED
        BY <3>4, <4>2, PlanAssumption
    <3>6. QED
      BY <3>3, <3>5
  <2>8. QED
    BY <2>6, <2>7
<1> HIDE DEF s, I
<1>12. ASSUME NEW t \in TableName PROVE IndexesOf(a, t) = IndexesOf(s, t)
  <2>1. ASSUME NEW i \in IndexesOf(a, t) PROVE i \in IndexesOf(s, t)
    <3>1. i \in IndexName
      BY DEF IndexesOf
    <3>2. QED
      BY <1>1, <1>11, <3>1 DEF IndexesOf
  <2>2. QED
    BY <1>10, <2>1
<1>13. Matches(a, s)
  BY <1>10, <1>12 DEF Matches, LacksOnlyIndexes, SameColumns
<1>14. QED
  BY <1>6, <1>9, <1>13 DEF s

\* With nothing else in the way, the plans that fail are those that defeat themselves.
LEMMA RefusedPlans ==
  ASSUME NEW a \in Shape, NEW b \in Shape, Placed(a), Placed(b)
  PROVE  KeyOfTwo(a, b) \/ SomeBlocked(a, b, Changed(a, b)) <=> DefeatsItself(a, b)
<1> DEFINE S == Changed(a, b)
           TwoKeys == \E t \in Tables(a, b) : ~HasTable(b, t) /\ \E c, d \in KeyColumns(a.columns[t]) : c # d
           Early(t) == \E i \in IndexesAdded(b, a, t) : b.index[i].on \cap Added(b, a, t) # {}
           LateAt(t, i) == b.index[i] # Absent /\ ~(b.index[i].table \in S /\ b.index[i].table < t)
           Taken(t, u, i) == HasTable(b, t) /\ t # u /\ (u > t \/ ~HasTable(a, u))
<1>1. KeyOfTwo(a, b) <=> TwoKeys
  <2>1. \A t : t \in Tables(a, b) <=> t \in TableName /\ (HasTable(a, t) \/ HasTable(b, t))
    BY DEF Tables
  <2>2. \A t \in New(a, b) : t \in TableName
    BY DEF New, Having, Tables
  <2>3. QED
    BY <2>1, <2>2, Standing DEF KeyOfTwo, KeyTwice
<1>2. \A t : t \in S => t \in TableName /\ t \in Tables(a, b)
  BY DEF Changed, Having, Tables
<1>3. \A t \in Tables(a, b) : t \in TableName
  BY DEF Tables
<1>4. ASSUME NEW t \in TableName
      PROVE  t \in S <=> HasTable(a, t) /\ HasTable(b, t) /\ ~InStep(a, b, t)
  BY Standing
<1>5. ASSUME NEW i \in IndexName
      PROVE  /\ \A t : i \in IndexesOf(a, t) <=> a.index[i] # Absent /\ a.index[i].table = t
             /\ \A t : i \in IndexesOf(b, t) <=> b.index[i] # Absent /\ b.index[i].table = t
             /\ a.index[i] # Absent => a.index[i].table \in TableName /\ HasTable(a, a.index[i].table)
             /\ b.index[i] # Absent => b.index[i].table \in TableName /\ HasTable(b, b.index[i].table)
  BY Entries
<1>6. /\ \A t, i : i \in IndexesAdded(a, b, t) <=> i \in IndexName /\ i \in IndexesOf(a, t) /\ i \notin IndexesOf(b, t)
      /\ \A t, i : i \in IndexesAdded(b, a, t) <=> i \in IndexName /\ i \in IndexesOf(b, t) /\ i \notin IndexesOf(a, t)
      /\ \A t, i : i \in IndexesOf(a, t) => i \in IndexName
  BY DEF IndexesAdded, IndexesOf
<1>7. ASSUME NEW t \in TableName PROVE t \in S /\ Early(t) <=> HasTable(a, t) /\ Early(t)
  <2>1. ASSUME HasTable(a, t), NEW i \in IndexesAdded(b, a, t), b.index[i].on \cap Added(b, a, t) # {}
        PROVE  t \in S
    <3>1. ~InStep(a, b, t)
      BY <2>1 DEF InStep
    <3>2. HasTable(b, t)
      BY <1>5, <1>6
    <3>3. QED
      BY <1>4, <2>1, <3>1, <3>2
  <2>2. QED
    BY <1>4, <2>1
<1>8. ASSUME NEW t \in S, NEW i \in IndexesAdded(a, b, t), LateAt(t, i)
      PROVE  \E u \in TableName : i \in IndexesOf(a, t) \cap IndexesOf(b, u) /\ Taken(t, u, i)
  <2> DEFINE u == b.index[i].table
  <2>1. i \in IndexName /\ i \in IndexesOf(a, t) /\ i \notin IndexesOf(b, t)
    BY <1>6
  <2>2. u \in TableName /\ i \in IndexesOf(b, u) /\ u # t /\ HasTable(b, u)
    BY <1>5, <1>8, <2>1
  <2>3. i \notin IndexesOf(a, u)
    BY <1>5, <2>1, <2>2
  <2>4. t \in TableName /\ HasTable(b, t)
    BY <1>2, <1>4
  <2>5. u > t \/ ~HasTable(a, u)
    <3>1. HasTable(a, u) => u \in S
      BY <1>4, <2>2, <2>3 DEF InStep
    <3>2. u \in Nat /\ t \in Nat
      BY <2>2, <2>4, PlanAssumption
    <3>3. ~(u \in S /\ u < t)
      BY <1>8
    <3>4. QED
      BY <2>2, <3>1, <3>2, <3>3
  <2>6. QED
    BY <2>1, <2>2, <2>4, <2>5
<1>9. ASSUME NEW t \in TableName, NEW u \in TableName, NEW i \in IndexesOf(a, t) \cap IndexesOf(b, u), Taken(t, u, i)
      PROVE  t \in S /\ i \in IndexesAdded(a, b, t) /\ LateAt(t, i)
  <2>1. i \in IndexName /\ i \in IndexesOf(a, t) /\ b.index[i] # Absent /\ b.index[i].table = u /\ t # u
    BY <1>5, <1>6, <1>9
  <2>2. i \notin IndexesOf(b, t) /\ HasTable(a, t)
    BY <1>5, <2>1
  <2>3. t \in S
    BY <1>4, <1>9, <2>1, <2>2 DEF InStep
  <2>4. ~(u \in S /\ u < t)
    <3>1. u \in S => HasTable(a, u)
      BY <1>4
    <3>2. u \in Nat /\ t \in Nat
      BY PlanAssumption
    <3>3. QED
      BY <1>9, <3>1, <3>2
  <2>5. QED
    BY <1>6, <2>1, <2>2, <2>3, <2>4
<1>10. SomeBlocked(a, b, S) <=> \E t \in S : Early(t) \/ \E i \in IndexesAdded(a, b, t) : LateAt(t, i)
  BY DEF SomeBlocked, Blocked
<1>11. DefeatsItself(a, b) <=>
         \/ TwoKeys
         \/ \E t \in Tables(a, b) : HasTable(a, t) /\ Early(t)
         \/ \E t, u \in TableName : \E i \in IndexesOf(a, t) \cap IndexesOf(b, u) : Taken(t, u, i)
  BY DEF DefeatsItself
<1> HIDE DEF Early, LateAt, Taken, TwoKeys, S
<1>12. (\E t \in S : Early(t)) <=> \E t \in Tables(a, b) : HasTable(a, t) /\ Early(t)
  BY <1>2, <1>3, <1>7
<1>13. (\E t \in S : \E i \in IndexesAdded(a, b, t) : LateAt(t, i)) <=>
         \E t, u \in TableName : \E i \in IndexesOf(a, t) \cap IndexesOf(b, u) : Taken(t, u, i)
  <2>1. ASSUME NEW t \in S, NEW i \in IndexesAdded(a, b, t), LateAt(t, i)
        PROVE  \E x, u \in TableName : \E j \in IndexesOf(a, x) \cap IndexesOf(b, u) : Taken(x, u, j)
    BY <1>2, <1>8, <2>1
  <2>2. ASSUME NEW t \in TableName, NEW u \in TableName, NEW i \in IndexesOf(a, t) \cap IndexesOf(b, u), Taken(t, u, i)
        PROVE  \E x \in S : \E j \in IndexesAdded(a, b, x) : LateAt(x, j)
    BY <1>9, <2>2
  <2>3. QED
    BY <2>1, <2>2
<1>14. QED
  BY <1>1, <1>10, <1>11, <1>12, <1>13 DEF S

-----------------------------------------------------------------------------
(* PlanConverges.                                                            *)

\* Between two comparisons: what is known of the target, whether or not the last plan was refused.
PlanInv ==
  /\ planSource \in Shape /\ Placed(planSource) /\ planTarget \in Shape /\ Placed(planTarget)
  /\ rounds \in 0..2
  /\ rounds > 0 => LacksOnlyIndexes(planSource, planTarget)
  /\ rounds = 2 => Matches(planSource, planTarget)

LEMMA SchemaIsShape == \A s \in Schema : s \in Shape /\ Placed(s)
<1> SUFFICES ASSUME NEW s \in Schema PROVE s \in Shape /\ Placed(s)
  OBVIOUS
<1>1. s \in Shape
  BY DEF Schema, Shape, Cell
<1>2. ASSUME NEW i \in IndexName, s.index[i] # Absent PROVE HasTable(s, s.index[i].table)
  <2>1. /\ s.index[i].on # {} /\ s.index[i] \in [table : TableName, on : SUBSET ColumnName]
        /\ \A c \in s.index[i].on : HasColumn(s, s.index[i].table, c)
    <3>1. s.index[i].on # {} /\ \A c \in s.index[i].on : HasColumn(s, s.index[i].table, c)
      BY <1>2 DEF Schema
    <3>2. QED
      BY <1>1, <1>2, <3>1, Entries
  <2>2. PICK c \in s.index[i].on : TRUE
    BY <2>1
  <2>3. c \in ColumnName /\ HasColumn(s, s.index[i].table, c)
    BY <2>1
  <2>4. QED
    BY <2>3 DEF HasTable, HasColumn
<1>3. QED
  BY <1>1, <1>2 DEF Placed

\* A comparison and its plan, run on the target.
LEMMA PlanStep == PlanInv /\ [Migrate]_planVars => PlanInv'
<1> SUFFICES ASSUME PlanInv, [Migrate]_planVars PROVE PlanInv'
  OBVIOUS
<1>1. CASE Migrate
  <2> DEFINE a == planSource
             b == planTarget
             s == Snap(FinalColumns(a, b), FinalIndex(a, b))
             bad == KeyOfTwo(a, b) \/ SomeBlocked(a, b, Changed(a, b))
  <2>1. a \in Shape /\ Placed(a) /\ b \in Shape /\ Placed(b)
    BY DEF PlanInv
  <2>2. After(a, b) = IF bad THEN Rejected ELSE s
    BY <2>1, PlanRun DEF RefusedIf
  <2>3. s \in Shape /\ Placed(s) /\ LacksOnlyIndexes(a, s) /\ s # Rejected
    BY <2>1, OnePlan, SnapFacts
  <2>4. LacksOnlyIndexes(a, b) => ~bad /\ Matches(a, s)
    BY <2>1, NearPlan
  <2> HIDE DEF s, bad
  <2>5. PICK after \in Outcomes(a, b) :
          /\ rounds < 2 /\ planSource' = a
          /\ IF after = Rejected THEN planTarget' = b /\ rounds' = rounds
             ELSE planTarget' = after /\ rounds' = rounds + 1
    BY <1>1 DEF Migrate
  <2>6. after = Rejected \/ (~bad /\ after = s)
    BY <2>2, <2>5 DEF Outcomes
  <2>7. CASE after = Rejected
    <3>1. planTarget' = b /\ planSource' = a /\ rounds' = rounds
      BY <2>5, <2>7
    <3>2. QED
      BY <3>1 DEF PlanInv
  <2>8. CASE after # Rejected
    <3>1. planTarget' = s /\ planSource' = a /\ rounds' = rounds + 1 /\ rounds < 2
      BY <2>5, <2>6, <2>8
    <3>2. rounds' \in 0..2 /\ (rounds' = 2 => rounds > 0)
      BY <3>1 DEF PlanInv
    <3>3. rounds' = 2 => Matches(a, s)
      BY <2>4, <3>2 DEF PlanInv
    <3>4. QED
      BY <2>1, <2>3, <3>1, <3>2, <3>3 DEF PlanInv
  <2>9. QED
    BY <2>7, <2>8
<1>2. CASE UNCHANGED planVars
  BY <1>2 DEF PlanInv, planVars
<1>3. QED
  BY <1>1, <1>2

LEMMA PlanInvConverges == PlanInv => PlanConverges
<1> SUFFICES ASSUME PlanInv PROVE PlanConverges
  OBVIOUS
<1> DEFINE a == planSource
           b == planTarget
           s == Snap(FinalColumns(a, b), FinalIndex(a, b))
           bad == KeyOfTwo(a, b) \/ SomeBlocked(a, b, Changed(a, b))
<1>1. a \in Shape /\ Placed(a) /\ b \in Shape /\ Placed(b)
  BY DEF PlanInv
<1>2. After(a, b) = (IF bad THEN Rejected ELSE s) /\ s # Rejected
  BY <1>1, PlanRun, SnapFacts DEF RefusedIf
<1>3. bad <=> DefeatsItself(a, b)
  BY <1>1, RefusedPlans
<1>4. LacksOnlyIndexes(a, b) => ~bad
  BY <1>1, NearPlan
<1> HIDE DEF s, bad
<1>5. QED
  BY <1>2, <1>3, <1>4 DEF PlanConverges, PlanInv

\* Every round of comparing and migrating keeps a well-formed target; once a plan was taken it lacks
\* only indexes, and after two it matches the source (domain/mod.rs plan, diff).
THEOREM PlanInvariant == PlanSpec => []PlanInv
<1>1. PlanInit => PlanInv
  BY SchemaIsShape DEF PlanInit, PlanInv
<1>2. QED
  BY <1>1, PlanStep, PTL DEF PlanSpec

\* For any tables, columns, indexes, types and pair of snapshots, and whatever Postgres refuses: it
\* takes no plan that defeats itself; after one it takes only indexes are left to create, under
\* names that are free, and after two nothing (domain/mod.rs 236-520).
THEOREM PlansConverge == PlanSpec => []PlanConverges
BY PlanInvariant, PlanInvConverges, PTL
===============================================================================
