----------------------------- MODULE StructureProofs -----------------------------
(***************************************************************************)
(* Proofs about the structure editor, for any columns, indexes, types,     *)
(* staged operations and batches on their way.                             *)
(*                                                                         *)
(* The cards of a structure are replayed from the staged ops, so StructInv *)
(* says of the ops that each is about an index of its own. The engine gets *)
(* them in another order than they were staged in, so ColumnsInv says that *)
(* they rename and change a column once and give a name once: what they    *)
(* make of the rows then hangs on which ops they are, not on their order.  *)
(***************************************************************************)
EXTENDS StructureEdits, SequenceFacts, FiniteSetTheorems, SequenceTheorems, TLAPS

-----------------------------------------------------------------------------
(* Sequences.                                                                  *)

\* A sequence is one of its own elements, which are the things at its positions.
LEMMA OwnElements ==
  ASSUME NEW S, NEW s \in Seq(S)
  PROVE  /\ s \in Seq(ToSet(s)) /\ ToSet(s) \subseteq S
         /\ Len(s) \in Nat /\ DOMAIN s = 1..Len(s)
         /\ \A i \in 1..Len(s) : s[i] \in ToSet(s)
         /\ \A e \in ToSet(s) : \E i \in 1..Len(s) : s[i] = e
<1>1. Len(s) \in Nat /\ DOMAIN s = 1..Len(s) /\ s \in [1..Len(s) -> S]
  OBVIOUS
<1>2. \A i \in 1..Len(s) : s[i] \in ToSet(s)
  BY <1>1 DEF ToSet
<1>3. s \in [1..Len(s) -> ToSet(s)]
  BY <1>1, <1>2
<1>4. s \in Seq(ToSet(s))
  BY <1>1, <1>3
<1>5. QED
  BY <1>1, <1>2, <1>4 DEF ToSet

\* The least of some positions is one of them.
LEMMA MinOfPositions ==
  ASSUME NEW k \in Nat, NEW p \in SUBSET (1..k), p # {}
  PROVE  Min(p) \in p /\ \A x \in p : Min(p) <= x
<1>1. p \in SUBSET Nat
  OBVIOUS
<1>2. \E x \in p : \A y \in p : x <= y
  BY <1>1, LeastExists
<1>3. QED
  BY <1>2 DEF Min

\* A selection of a sequence is of the same set.
LEMMA SelectionIsOf ==
  ASSUME NEW S, NEW s \in Seq(S), NEW T
  PROVE  OnlyIn(s, T) \in Seq(S)
<1> DEFINE sel == OnlyIn(s, T)
<1>1. sel \in Seq(S \cap T)
  BY OnlyInPlaces
<1> HIDE DEF sel
<1>2. Len(sel) \in Nat /\ sel \in [1..Len(sel) -> S \cap T]
  BY <1>1
<1>3. sel \in Seq(S)
  BY <1>2
<1>4. QED
  BY <1>3 DEF sel

LEMMA OneOf == ASSUME NEW S, NEW e \in S PROVE <<e>> \in Seq(S)
OBVIOUS

-----------------------------------------------------------------------------
(* The preview of the structure editor (StructureView.tsx).                    *)

\* What is asked for and what is shown is the batch of what is staged, and an editor that is
\* not on screen has neither.
PreviewInv ==
  /\ \A batch \in review.asked : batch = toWireBatch(ops)
  /\ PreviewIsOfTheBatch
  /\ where # "view" => review = Closed
  /\ DOMAIN review = {"open", "asked", "shown"}

\* A change of the batch forgets what was asked for and shown of the one before.
LEMMA SetOpsKeeps == ASSUME PreviewInv, NEW staged, SetOps(staged) PROVE PreviewInv'
<1>1. ops' = staged /\ where' = "view" /\ review' = Reviewing(staged)
  BY DEF SetOps
<1>2. /\ review'.shown = <<>> /\ DOMAIN review' = {"open", "asked", "shown"}
      /\ \A batch \in review'.asked : batch = toWireBatch(staged)
  BY <1>1 DEF PreviewInv, Reviewing
<1>3. \A batch \in review'.asked : batch = toWireBatch(ops')
  BY <1>1, <1>2
<1>4. QED
  BY <1>1, <1>2, <1>3 DEF PreviewInv, PreviewIsOfTheBatch

\* Everything the user does to a column or an index is one change of the batch.
StagesColumns ==
  \/ AddColumn \/ CancelNewColumn
  \/ \E i \in DOMAIN Rows, to \in ColumnName : RenameColumn(i, to)
  \/ \E i \in DOMAIN Rows, setting \in Setting : ChangeColumn(i, setting)
  \/ \E i \in DOMAIN Rows : DropColumn(i) \/ UndropColumn(i)
StagesIndexes ==
  \/ \E column \in ColumnName, name \in IndexName : AddIndex(column, name)
  \/ \E card \in ToSet(Cards), column \in ColumnName, name \in IndexName :
       StageIndexEdit(card, column, name)
  \/ \E card \in ToSet(Cards) : StageIndexDrop(card) \/ StageIndexRestore(card)

LEMMA ColumnsAreStaged == StagesColumns => \E staged : SetOps(staged)
<1>1. AddColumn \/ CancelNewColumn => \E staged : SetOps(staged)
  BY DEF AddColumn, CancelNewColumn, Staged
<1>2. ASSUME NEW i, NEW to, RenameColumn(i, to) PROVE \E staged : SetOps(staged)
  BY <1>2 DEF RenameColumn, EditAdded
<1>3. ASSUME NEW i, NEW setting, ChangeColumn(i, setting) PROVE \E staged : SetOps(staged)
  BY <1>3 DEF ChangeColumn, EditAdded
<1>4. ASSUME NEW i, DropColumn(i) \/ UndropColumn(i) PROVE \E staged : SetOps(staged)
  BY <1>4 DEF DropColumn, UndropColumn, Staged
<1>5. QED
  BY <1>1, <1>2, <1>3, <1>4 DEF StagesColumns

LEMMA IndexesAreStaged == StagesIndexes => \E staged : SetOps(staged)
<1>1. ASSUME NEW column, NEW name, AddIndex(column, name) PROVE \E staged : SetOps(staged)
  BY <1>1 DEF AddIndex, Staged
<1>2. ASSUME NEW card, NEW column, NEW name, StageIndexEdit(card, column, name)
      PROVE  \E staged : SetOps(staged)
  BY <1>2 DEF StageIndexEdit
<1>3. ASSUME NEW card, StageIndexDrop(card) \/ StageIndexRestore(card)
      PROVE  \E staged : SetOps(staged)
  BY <1>3 DEF StageIndexDrop, StageIndexRestore
<1>4. QED
  BY <1>1, <1>2, <1>3 DEF StagesIndexes

LEMMA PreviewStep == PreviewInv /\ [StructNext]_structVars => PreviewInv'
<1> SUFFICES ASSUME PreviewInv, [StructNext]_structVars PROVE PreviewInv'
  OBVIOUS
<1>1. CASE StagesColumns \/ StagesIndexes
  BY <1>1, ColumnsAreStaged, IndexesAreStaged, SetOpsKeeps
<1>2. CASE ToggleReview
  <2>1. /\ review' = [review EXCEPT !.open = ~@, !.asked = IF review.open THEN {} ELSE {toWireBatch(ops)}]
        /\ ops' = ops /\ where' = "view"
    BY <1>2 DEF ToggleReview
  <2>2. /\ review'.shown = review.shown /\ DOMAIN review' = {"open", "asked", "shown"}
        /\ \A batch \in review'.asked : batch = toWireBatch(ops)
    BY <2>1 DEF PreviewInv
  <2>3. QED
    BY <2>1, <2>2 DEF PreviewInv, PreviewIsOfTheBatch
<1>3. ASSUME NEW batch \in review.asked, PreviewArrives(batch) PROVE PreviewInv'
  <2>1. /\ review' = [review EXCEPT !.asked = @ \ {batch},
                                    !.shown = IF Valid(dbTable, batch) THEN <<batch>> ELSE <<>>]
        /\ ops' = ops /\ where' = where /\ where = "view"
    BY <1>3 DEF PreviewArrives, PreviewInv, Closed
  <2>2. /\ review'.shown = <<batch>> \/ review'.shown = <<>>
        /\ DOMAIN review' = {"open", "asked", "shown"} /\ review'.asked \subseteq review.asked
    BY <2>1 DEF PreviewInv
  <2>3. <<batch>>[1] = batch /\ batch = toWireBatch(ops)
    BY DEF PreviewInv
  <2>4. QED
    BY <2>1, <2>2, <2>3 DEF PreviewInv, PreviewIsOfTheBatch
<1>4. CASE ApplyPending
  BY <1>4 DEF ApplyPending, PreviewInv, PreviewIsOfTheBatch
<1>5. ASSUME NEW i \in DOMAIN applies, Alter(i) \/ ApplyFailed(i) PROVE PreviewInv'
  BY <1>5 DEF Alter, ApplyFailed, PreviewInv, PreviewIsOfTheBatch
<1>6. ASSUME NEW i \in DOMAIN applies, ApplyAnswered(i) PROVE PreviewInv'
  <2>1. /\ where' = where
        /\ ops' = IF where = "workspace" THEN ops ELSE <<>>
        /\ review' = IF where # "view" \/ applies[i].here THEN Closed ELSE Reviewing(<<>>)
    BY <1>6 DEF ApplyAnswered
  <2>2. review'.shown = <<>> /\ review'.asked = {} /\ DOMAIN review' = {"open", "asked", "shown"}
    BY <2>1 DEF PreviewInv, Reviewing, Closed
  <2>3. where' # "view" => review' = Closed
    BY <2>1
  <2>4. QED
    BY <2>2, <2>3 DEF PreviewInv, PreviewIsOfTheBatch
<1>7. CASE DiscardPending \/ \E to \in {"tab", "workspace"} : LeaveEditor(to)
  <2>1. review' = Closed
    BY <1>7 DEF DiscardPending, LeaveEditor
  <2>2. QED
    BY <2>1 DEF Closed, PreviewInv, PreviewIsOfTheBatch
<1>8. CASE ReturnToEditor
  BY <1>8 DEF ReturnToEditor, PreviewInv, PreviewIsOfTheBatch
<1>9. CASE UNCHANGED structVars
  BY <1>9 DEF structVars, PreviewInv, PreviewIsOfTheBatch
<1>10. QED
  BY <1>1, <1>2, <1>3, <1>4, <1>5, <1>6, <1>7, <1>8, <1>9
  DEF StructNext, StagesColumns, StagesIndexes

\* StructureView.tsx, preview effect: the statements under Review SQL are those of the batch
\* Apply would send, whatever is staged, taken back, applied or left while answers are on
\* their way, for any tables and operations.
THEOREM PreviewOfWhatIsStaged == StructSpec => []PreviewIsOfTheBatch
<1>1. StructInit => PreviewInv
  BY DEF StructInit, Closed, PreviewInv, PreviewIsOfTheBatch
<1>2. PreviewInv => PreviewIsOfTheBatch
  BY DEF PreviewInv
<1>3. QED
  BY <1>1, <1>2, PreviewStep, PTL DEF StructSpec

-----------------------------------------------------------------------------
(* What the structure editor stages, shows and sends (structure/ops.ts).       *)

AddColumns == [op : {"addColumn"}, name : ColumnName, setting : Setting]
Renames == [op : {"renameColumn"}, from : ColumnName, to : ColumnName]
Changes == [op : {"change"}, column : ColumnName, setting : Setting]
ColumnDrops == [op : {"dropColumn"}, name : ColumnName]
IndexAdds == [op : {"addIndex"}, name : IndexName, column : ColumnName]
IndexDrops == [op : {"dropIndex"}, name : IndexName]
Replacements == [op : {"replaceIndex"}, from : IndexName, name : IndexName, column : ColumnName]

WireOp == AddColumns \cup Renames \cup Changes \cup ColumnDrops \cup IndexAdds \cup IndexDrops
StagedOp == WireOp \cup Replacements

ColumnRecord == [name : ColumnName, setting : Setting]
IndexRecord == [name : IndexName, column : ColumnName]
TableRecord == [columns : Seq(ColumnRecord) \ {<<>>}, indexes : Seq(IndexRecord)]
Row == [name : ColumnName, setting : Setting, origin : {<<>>} \cup {<<c>> : c \in ColumnName},
        dropped : BOOLEAN]
IndexCard == [name : IndexName, column : ColumnName, was : {<<>>} \cup {<<n>> : n \in IndexName},
         isNew : BOOLEAN, dropped : BOOLEAN]

\* An op has the fields of its kind.
LEMMA StagedFields ==
  ASSUME NEW op \in StagedOp
  PROVE  /\ op.op \in {"addColumn", "renameColumn", "change", "dropColumn", "addIndex",
                       "dropIndex", "replaceIndex"}
         /\ op.op = "addColumn" => op \in AddColumns /\ op.name \in ColumnName /\ op.setting \in Setting
         /\ op.op = "renameColumn" => op \in Renames /\ op.from \in ColumnName /\ op.to \in ColumnName
         /\ op.op = "change" => op \in Changes /\ op.column \in ColumnName /\ op.setting \in Setting
         /\ op.op = "dropColumn" => op \in ColumnDrops /\ op.name \in ColumnName
         /\ op.op = "addIndex" => op \in IndexAdds /\ op.name \in IndexName /\ op.column \in ColumnName
         /\ op.op = "dropIndex" => op \in IndexDrops /\ op.name \in IndexName
         /\ op.op = "replaceIndex" =>
              op.from \in IndexName /\ op.name \in IndexName /\ op.column \in ColumnName
         /\ op.op # "replaceIndex" => op \in WireOp
BY DEF StagedOp, WireOp, AddColumns, Renames, Changes, ColumnDrops, IndexAdds, IndexDrops, Replacements

\* The card once its index is dropped, or edited.
DroppedCard(x) == [x EXCEPT !.dropped = TRUE]
EditedCard(x, op) == [x EXCEPT !.name = op.name, !.column = op.column, !.was = <<x.name>>]
NewCard(op) ==
  [name |-> op.name, column |-> op.column, was |-> <<>>, isNew |-> TRUE, dropped |-> FALSE]

WithAt(cards, i, x) == [cards EXCEPT ![i] = x]

\* A replayed op adds a card, changes one it is about, or does nothing.
LEMMA CardsAfterOp ==
  ASSUME NEW cards \in Seq(IndexCard), NEW op \in StagedOp
  PROVE  /\ op.op = "addIndex" => ReplayIndex(cards, op) = Append(cards, NewCard(op))
         /\ op.op = "dropIndex" =>
              \/ /\ \A i \in 1..Len(cards) : cards[i].name # op.name
                 /\ ReplayIndex(cards, op) = cards
              \/ \E i \in 1..Len(cards) :
                   /\ cards[i].name = op.name
                   /\ ReplayIndex(cards, op) = WithAt(cards, i, DroppedCard(cards[i]))
         /\ op.op = "replaceIndex" =>
              \/ /\ \A i \in 1..Len(cards) : ~(cards[i].name = op.from /\ ~cards[i].isNew)
                 /\ ReplayIndex(cards, op) = cards
              \/ \E i \in 1..Len(cards) :
                   /\ cards[i].name = op.from /\ ~cards[i].isNew
                   /\ ReplayIndex(cards, op) = WithAt(cards, i, EditedCard(cards[i], op))
         /\ op.op \notin {"addIndex", "dropIndex", "replaceIndex"} => ReplayIndex(cards, op) = cards
<1>1. Len(cards) \in Nat
  OBVIOUS
<1>2. CASE op.op = "dropIndex"
  <2> DEFINE I == {i \in 1..Len(cards) : cards[i].name = op.name}
             i0 == IF I # {} THEN Min(I) ELSE 0
  <2>1. ReplayIndex(cards, op) = IF i0 = 0 THEN cards ELSE WithAt(cards, i0, DroppedCard(cards[i0]))
    BY <1>2 DEF ReplayIndex, AtRow, AtFirst, SelectInSeq, DroppedCard, WithAt
  <2>2. I # {} => i0 \in I
    BY <1>1, MinOfPositions
  <2>3. CASE I = {}
    <3>1. i0 = 0 /\ \A i \in 1..Len(cards) : i \notin I
      BY <2>3
    <3>2. QED
      BY <1>2, <2>1, <3>1
  <2>4. CASE I # {}
    <3>1. i0 \in 1..Len(cards) /\ i0 # 0 /\ i0 \in I
      BY <2>2, <2>4
    <3>2. QED
      BY <1>2, <2>1, <3>1
  <2>5. QED
    BY <2>3, <2>4
<1>3. CASE op.op = "replaceIndex"
  <2> DEFINE I == {i \in 1..Len(cards) : cards[i].name = op.from /\ ~cards[i].isNew}
             i0 == IF I # {} THEN Min(I) ELSE 0
  <2>1. ReplayIndex(cards, op) = IF i0 = 0 THEN cards ELSE WithAt(cards, i0, EditedCard(cards[i0], op))
    BY <1>3 DEF ReplayIndex, AtFirst, SelectInSeq, EditedCard, WithAt
  <2>2. I # {} => i0 \in I
    BY <1>1, MinOfPositions
  <2>3. CASE I = {}
    <3>1. i0 = 0 /\ \A i \in 1..Len(cards) : i \notin I
      BY <2>3
    <3>2. QED
      BY <1>3, <2>1, <3>1
  <2>4. CASE I # {}
    <3>1. i0 \in 1..Len(cards) /\ i0 # 0 /\ i0 \in I
      BY <2>2, <2>4
    <3>2. QED
      BY <1>3, <2>1, <3>1
  <2>5. QED
    BY <2>3, <2>4
<1>4. CASE op.op = "addIndex"
  BY <1>4 DEF ReplayIndex, NewCard
<1>5. CASE op.op \notin {"addIndex", "dropIndex", "replaceIndex"}
  BY <1>5 DEF ReplayIndex
<1>6. QED
  BY <1>2, <1>3, <1>4, <1>5

\* What the changed card keeps.
LEMMA CardFields ==
  ASSUME NEW x \in IndexCard, NEW op \in StagedOp
  PROVE  /\ DroppedCard(x) \in IndexCard /\ DroppedCard(x).name = x.name /\ DroppedCard(x).was = x.was
         /\ DroppedCard(x).isNew = x.isNew /\ DroppedCard(x).dropped
         /\ op.op = "replaceIndex" =>
              /\ EditedCard(x, op) \in IndexCard /\ EditedCard(x, op).name = op.name
              /\ EditedCard(x, op).was = <<x.name>> /\ EditedCard(x, op).isNew = x.isNew
BY StagedFields DEF IndexCard, DroppedCard, EditedCard

LEMMA NewCardFields ==
  ASSUME NEW op \in StagedOp, op.op = "addIndex"
  PROVE  /\ NewCard(op) \in IndexCard /\ NewCard(op).name = op.name /\ NewCard(op).isNew
         /\ NewCard(op).was = <<>>
BY StagedFields DEF IndexCard, NewCard

LEMMA WithAtPlaces ==
  ASSUME NEW S, NEW cards \in Seq(S), NEW i \in 1..Len(cards), NEW x \in S
  PROVE  /\ WithAt(cards, i, x) \in Seq(S) /\ Len(WithAt(cards, i, x)) = Len(cards)
         /\ Len(cards) \in Nat /\ WithAt(cards, i, x)[i] = x
         /\ \A j \in 1..Len(cards) : j # i => WithAt(cards, i, x)[j] = cards[j]
<1>1. Len(cards) \in Nat /\ DOMAIN cards = 1..Len(cards) /\ cards \in [1..Len(cards) -> S]
  OBVIOUS
<1>2. WithAt(cards, i, x) \in [1..Len(cards) -> S]
  BY <1>1 DEF WithAt
<1>3. WithAt(cards, i, x) \in Seq(S) /\ Len(WithAt(cards, i, x)) = Len(cards)
  BY <1>1, <1>2
<1>4. WithAt(cards, i, x)[i] = x
  BY <1>1 DEF WithAt
<1>5. \A j \in 1..Len(cards) : j # i => WithAt(cards, i, x)[j] = cards[j]
  BY <1>1 DEF WithAt
<1>6. QED
  BY <1>1, <1>3, <1>4, <1>5

LEMMA ChangedCard ==
  ASSUME NEW cards \in Seq(IndexCard), NEW i \in 1..Len(cards), NEW x \in IndexCard
  PROVE  /\ Len(WithAt(cards, i, x)) = Len(cards) /\ WithAt(cards, i, x)[i] = x
         /\ \A c \in 1..Len(cards) : c # i => WithAt(cards, i, x)[c] = cards[c]
<1>1. Len(cards) \in Nat /\ DOMAIN cards = 1..Len(cards) /\ cards \in [1..Len(cards) -> IndexCard]
  OBVIOUS
<1>2. WithAt(cards, i, x) \in [1..Len(cards) -> IndexCard]
  BY <1>1 DEF WithAt
<1>3. Len(WithAt(cards, i, x)) = Len(cards)
  BY <1>1, <1>2
<1>4. WithAt(cards, i, x)[i] = x
  BY <1>1 DEF WithAt
<1>5. \A c \in 1..Len(cards) : c # i => WithAt(cards, i, x)[c] = cards[c]
  BY <1>1 DEF WithAt
<1>6. QED
  BY <1>3, <1>4, <1>5

-----------------------------------------------------------------------------
(* The cards of the indexes, replayed (structure/ops.ts applyOpsToIndexes).    *)

Deck == INSTANCE SequenceFacts WITH FoldStep <- ReplayIndex

Dealt(indexes) ==
  [i \in DOMAIN indexes |-> [name |-> indexes[i].name, column |-> indexes[i].column,
                             was |-> <<>>, isNew |-> FALSE, dropped |-> FALSE]]

LEMMA CardsAreFolded ==
  ASSUME NEW indexes, NEW staged
  PROVE  applyOpsToIndexes(indexes, staged) = Deck!Folded(Dealt(indexes), staged)
BY DEF applyOpsToIndexes, Dealt, Deck!Folded, Deck!FoldLeft, Deck!MapThenFoldSet, FoldLeft,
       MapThenFoldSet, Max, Deck!Max

LEMMA DealtCards ==
  ASSUME NEW indexes \in Seq(IndexRecord)
  PROVE  /\ Dealt(indexes) \in Seq(IndexCard) /\ Len(Dealt(indexes)) = Len(indexes)
         /\ Len(indexes) \in Nat
         /\ \A i \in 1..Len(indexes) :
              /\ Dealt(indexes)[i].name = indexes[i].name /\ ~Dealt(indexes)[i].isNew
              /\ Dealt(indexes)[i].was = <<>>
<1>1. Len(indexes) \in Nat /\ DOMAIN indexes = 1..Len(indexes)
      /\ \A i \in 1..Len(indexes) : indexes[i] \in IndexRecord
  OBVIOUS
<1>2. ASSUME NEW i \in 1..Len(indexes)
      PROVE  /\ Dealt(indexes)[i] \in IndexCard /\ Dealt(indexes)[i].name = indexes[i].name
             /\ ~Dealt(indexes)[i].isNew /\ Dealt(indexes)[i].was = <<>>
  BY <1>1 DEF Dealt, IndexCard, IndexRecord
<1>3. Dealt(indexes) \in [1..Len(indexes) -> IndexCard]
  BY <1>1, <1>2 DEF Dealt
<1>4. Dealt(indexes) \in Seq(IndexCard) /\ Len(Dealt(indexes)) = Len(indexes)
  BY <1>1, <1>3
<1>5. QED
  BY <1>1, <1>2, <1>4

\* The cards of indexes known under one of the names.
KnownCards(M) == {x \in IndexCard : ~x.isNew => Identity(x) \in M}

LEMMA KnownCardsStep ==
  ASSUME NEW M, NEW cards \in Seq(KnownCards(M)), NEW op \in StagedOp,
         op.op = "replaceIndex" => op.from \in M
  PROVE  ReplayIndex(cards, op) \in Seq(KnownCards(M))
<1>1. Len(cards) \in Nat /\ cards \in [1..Len(cards) -> KnownCards(M)]
  OBVIOUS
<1>2. \A i \in 1..Len(cards) : cards[i] \in KnownCards(M) /\ cards[i] \in IndexCard
  BY <1>1 DEF KnownCards
<1>3. cards \in Seq(IndexCard)
  BY <1>1, <1>2
<1>4. CASE op.op = "addIndex"
  <2>1. NewCard(op) \in KnownCards(M)
    BY <1>1, <1>3, <1>4, NewCardFields DEF KnownCards
  <2>2. QED
    BY <1>1, <1>3, <1>4, <2>1, CardsAfterOp
<1>5. CASE op.op = "dropIndex"
  <2>1. CASE ReplayIndex(cards, op) = cards
    BY <2>1
  <2>2. ASSUME NEW i \in 1..Len(cards),
               ReplayIndex(cards, op) = WithAt(cards, i, DroppedCard(cards[i]))
        PROVE  ReplayIndex(cards, op) \in Seq(KnownCards(M))
    <3>1. DroppedCard(cards[i]) \in KnownCards(M)
      BY <1>1, <1>2, CardFields DEF KnownCards, Identity
    <3>2. QED
      BY <2>2, <3>1, WithAtPlaces
  <2>3. QED
    BY <1>1, <1>3, <1>5, <2>1, <2>2, CardsAfterOp
<1>6. CASE op.op = "replaceIndex"
  <2>1. CASE ReplayIndex(cards, op) = cards
    BY <2>1
  <2>2. ASSUME NEW i \in 1..Len(cards), cards[i].name = op.from,
               ReplayIndex(cards, op) = WithAt(cards, i, EditedCard(cards[i], op))
        PROVE  ReplayIndex(cards, op) \in Seq(KnownCards(M))
    <3>1. op.from \in M
      BY <1>6
    <3>2. /\ EditedCard(cards[i], op) \in IndexCard
          /\ EditedCard(cards[i], op).was = <<cards[i].name>>
      BY <1>2, <1>6, CardFields
    <3>3. Identity(EditedCard(cards[i], op)) = op.from
      BY <2>2, <3>2 DEF Identity
    <3>4. EditedCard(cards[i], op) \in KnownCards(M)
      BY <3>1, <3>2, <3>3 DEF KnownCards
    <3>5. QED
      BY <2>2, <3>4, WithAtPlaces
  <2>3. QED
    BY <1>1, <1>3, <1>6, <2>1, <2>2, CardsAfterOp
<1>7. CASE op.op \notin {"addIndex", "dropIndex", "replaceIndex"}
  BY <1>1, <1>3, <1>7, CardsAfterOp
<1>8. QED
  BY <1>4, <1>5, <1>6, <1>7

\* A card that is not of an added index is known under the name the database has.
LEMMA CardsAreKnown ==
  ASSUME NEW indexes \in Seq(IndexRecord), NEW staged \in Seq(StagedOp), NEW M,
         NamesOf(indexes) \subseteq M,
         \A i \in 1..Len(staged) : staged[i].op = "replaceIndex" => staged[i].from \in M
  PROVE  applyOpsToIndexes(indexes, staged) \in Seq(KnownCards(M))
<1>1. Dealt(indexes) \in Seq(KnownCards(M))
  <2>1. \A i \in 1..Len(indexes) : indexes[i].name \in M
    BY DEF NamesOf
  <2>2. \A i \in 1..Len(indexes) : Dealt(indexes)[i] \in KnownCards(M)
    BY <2>1, DealtCards DEF KnownCards, Identity
  <2>3. QED
    BY <2>2, DealtCards
<1>2. ASSUME NEW cards \in Seq(KnownCards(M)), NEW k \in 1..Len(staged)
      PROVE  ReplayIndex(cards, staged[k]) \in Seq(KnownCards(M))
  <2>1. staged[k] \in StagedOp
    OBVIOUS
  <2>2. QED
    BY <2>1, KnownCardsStep
<1>3. Deck!Folded(Dealt(indexes), staged) \in Seq(KnownCards(M))
  BY ONLY <1>1, <1>2, staged \in Seq(StagedOp), Deck!FoldKeeps
<1>4. QED
  BY <1>3, CardsAreFolded

\* An op on an index of the table, and the name it is staged under.
OnIndex(op) == op.op \in {"dropIndex", "replaceIndex"}
KnownAs(op) == IF op.op = "dropIndex" THEN op.name ELSE op.from

\* Each is about an index of the table, and no two are about one.
Apart(staged, M) ==
  /\ \A i \in 1..Len(staged) : OnIndex(staged[i]) => KnownAs(staged[i]) \in M
  /\ \A i, j \in 1..Len(staged) :
       i # j /\ OnIndex(staged[i]) /\ OnIndex(staged[j]) => KnownAs(staged[i]) # KnownAs(staged[j])

\* No index is given the name of another one of the table.
NewNames(staged, M) ==
  \A i \in 1..Len(staged) :
    /\ staged[i].op = "addIndex" => staged[i].name \notin M
    /\ staged[i].op = "replaceIndex" =>
         staged[i].name = staged[i].from \/ staged[i].name \notin M

\* The card that says what was staged.
Told(cards, op) ==
  /\ op.op = "dropIndex" =>
       \E c \in 1..Len(cards) : cards[c].dropped /\ cards[c].name = op.name /\ cards[c].was = <<>>
  /\ op.op = "replaceIndex" =>
       \E c \in 1..Len(cards) : cards[c].was = <<op.from>> /\ cards[c].name = op.name

\* After k ops: those of them on an index have their card; an index none is about still has
\* its own; and a name of the table is on the card of its index alone.
AllTold(cards, staged, k) == \A j \in 1..k : Told(cards, staged[j])
AllDealt(cards, staged, k, M) ==
  \A m \in M : (\A j \in 1..k : OnIndex(staged[j]) => KnownAs(staged[j]) # m) =>
    \E c \in 1..Len(cards) : cards[c].name = m /\ ~cards[c].isNew
NamesKept(cards, staged, k, M) ==
  \A c \in 1..Len(cards) :
    /\ cards[c].isNew => cards[c].name \notin M
    /\ cards[c].was # <<>> /\ cards[c].name \in M =>
         \E j \in 1..k : staged[j].op = "replaceIndex" /\ staged[j].from = cards[c].name

LEMMA AllToldNext ==
  ASSUME NEW cards \in Seq(IndexCard), NEW staged \in Seq(StagedOp), NEW M,
         NEW k \in Nat, k < Len(staged), Apart(staged, M), NewNames(staged, M),
         AllTold(cards, staged, k), AllDealt(cards, staged, k, M), NamesKept(cards, staged, k, M)
  PROVE  LET op == staged[k + 1]
             next == ReplayIndex(cards, op)
         IN  AllTold(next, staged, k + 1) /\ AllDealt(next, staged, k + 1, M)
               /\ NamesKept(next, staged, k + 1, M)
<1> DEFINE op == staged[k + 1]
           next == ReplayIndex(cards, op)
<1>1. /\ k + 1 \in 1..Len(staged) /\ op \in StagedOp /\ Len(cards) \in Nat
      /\ \A c \in 1..Len(cards) : cards[c] \in IndexCard
      /\ \A j \in 1..(k + 1) : j \in 1..Len(staged) /\ (j = k + 1 \/ j \in 1..k)
      /\ \A j \in 1..k : j # k + 1 /\ j \in 1..(k + 1)
  OBVIOUS
<1> HIDE DEF op, next
<1>2. \A j \in 1..k : OnIndex(staged[j]) /\ OnIndex(op) => KnownAs(staged[j]) # KnownAs(op)
  BY <1>1 DEF Apart, op
<1>3. OnIndex(op) => KnownAs(op) \in M
  BY <1>1 DEF Apart, op
<1>4. CASE next = cards /\ ~OnIndex(op)
  <2>1. AllTold(next, staged, k + 1)
    BY <1>1, <1>4 DEF AllTold, Told, OnIndex, op
  <2>2. AllDealt(next, staged, k + 1, M)
    BY <1>1, <1>4 DEF AllDealt
  <2>3. NamesKept(next, staged, k + 1, M)
    BY <1>1, <1>4 DEF NamesKept
  <2>4. QED
    BY <2>1, <2>2, <2>3 DEF op, next
<1>5. CASE op.op = "addIndex"
  <2>1. /\ next = Append(cards, NewCard(op)) /\ NewCard(op).name = op.name /\ NewCard(op).isNew
        /\ NewCard(op).was = <<>> /\ op.name \notin M /\ NewCard(op) \in IndexCard
    BY <1>1, <1>5, CardsAfterOp, NewCardFields DEF next, NewNames, op
  <2>2. /\ Len(next) = Len(cards) + 1 /\ next[Len(cards) + 1] = NewCard(op)
        /\ \A c \in 1..Len(cards) : c \in 1..Len(next) /\ next[c] = cards[c]
        /\ \A c \in 1..Len(next) : c \in 1..Len(cards) \/ c = Len(cards) + 1
    BY <1>1, <2>1
  <2>3. AllTold(next, staged, k + 1)
    <3>1. ASSUME NEW j \in 1..k PROVE Told(next, staged[j])
      <4>1. Told(cards, staged[j])
        BY DEF AllTold
      <4>2. QED
        BY <2>2, <4>1 DEF Told
    <3>2. Told(next, op)
      BY <1>5 DEF Told
    <3>3. QED
      BY <1>1, <3>1, <3>2 DEF AllTold, op
  <2>4. AllDealt(next, staged, k + 1, M)
    <3>1. ASSUME NEW m \in M, \A j \in 1..(k + 1) : OnIndex(staged[j]) => KnownAs(staged[j]) # m
          PROVE  \E c \in 1..Len(next) : next[c].name = m /\ ~next[c].isNew
      <4>1. PICK c \in 1..Len(cards) : cards[c].name = m /\ ~cards[c].isNew
        BY <1>1, <3>1 DEF AllDealt
      <4>2. QED
        BY <2>2, <4>1
    <3>2. QED
      BY <3>1 DEF AllDealt
  <2>5. NamesKept(next, staged, k + 1, M)
    <3>1. ASSUME NEW c \in 1..Len(next)
          PROVE  /\ next[c].isNew => next[c].name \notin M
                 /\ next[c].was # <<>> /\ next[c].name \in M =>
                      \E j \in 1..(k + 1) :
                        staged[j].op = "replaceIndex" /\ staged[j].from = next[c].name
      <4>1. CASE c \in 1..Len(cards)
        BY <1>1, <2>2, <4>1 DEF NamesKept
      <4>2. CASE c = Len(cards) + 1
        BY <2>1, <2>2, <4>2
      <4>3. QED
        BY <2>2, <4>1, <4>2
    <3>2. QED
      BY <3>1 DEF NamesKept
  <2>6. QED
    BY <2>3, <2>4, <2>5 DEF op, next
<1>6. CASE op.op = "dropIndex"
  <2>1. op.name \in M /\ \A j \in 1..k : OnIndex(staged[j]) => KnownAs(staged[j]) # op.name
    BY <1>2, <1>3, <1>6 DEF OnIndex, KnownAs
  <2>2. \E c \in 1..Len(cards) : cards[c].name = op.name
    BY <2>1 DEF AllDealt
  <2>3. PICK i \in 1..Len(cards) :
          cards[i].name = op.name /\ next = WithAt(cards, i, DroppedCard(cards[i]))
    BY <1>1, <1>6, <2>2, CardsAfterOp DEF next
  <2>4. /\ Len(next) = Len(cards) /\ next[i] = DroppedCard(cards[i])
        /\ \A c \in 1..Len(cards) : c # i => next[c] = cards[c]
    <3>1. cards[i] \in IndexCard /\ op \in StagedOp
      BY <1>1
    <3>2. DroppedCard(cards[i]) \in IndexCard
      BY <3>1, CardFields
    <3>3. QED
      BY <2>3, <3>2, ChangedCard
  <2>5. /\ \A c \in 1..Len(cards) : next[c].name = cards[c].name /\ next[c].was = cards[c].was
             /\ next[c].isNew = cards[c].isNew /\ (cards[c].dropped => next[c].dropped)
        /\ next[i].dropped
    BY <1>1, <2>4, CardFields
  <2>6. cards[i].was = <<>>
    <3>1. SUFFICES ASSUME cards[i].was # <<>> PROVE FALSE
      OBVIOUS
    <3>2. PICK j \in 1..k : staged[j].op = "replaceIndex" /\ staged[j].from = op.name
      BY <2>1, <2>3, <3>1 DEF NamesKept
    <3>3. OnIndex(staged[j]) /\ KnownAs(staged[j]) = op.name
      BY <3>2 DEF OnIndex, KnownAs
    <3>4. QED
      BY <2>1, <3>3
  <2>7. AllTold(next, staged, k + 1)
    <3>1. ASSUME NEW j \in 1..k PROVE Told(next, staged[j])
      <4>1. Told(cards, staged[j])
        BY DEF AllTold
      <4>2. QED
        BY <2>4, <2>5, <4>1 DEF Told
    <3>2. Told(next, op)
      BY <1>6, <2>3, <2>4, <2>5, <2>6 DEF Told
    <3>3. QED
      BY <1>1, <3>1, <3>2 DEF AllTold, op
  <2>8. AllDealt(next, staged, k + 1, M)
    <3>1. ASSUME NEW m \in M, \A j \in 1..(k + 1) : OnIndex(staged[j]) => KnownAs(staged[j]) # m
          PROVE  \E c \in 1..Len(next) : next[c].name = m /\ ~next[c].isNew
      <4>1. PICK c \in 1..Len(cards) : cards[c].name = m /\ ~cards[c].isNew
        BY <1>1, <3>1 DEF AllDealt
      <4>2. QED
        BY <2>4, <2>5, <4>1
    <3>2. QED
      BY <3>1 DEF AllDealt
  <2>9. NamesKept(next, staged, k + 1, M)
    BY <1>1, <2>4, <2>5 DEF NamesKept
  <2>10. QED
    BY <2>7, <2>8, <2>9 DEF op, next
<1>7. CASE op.op = "replaceIndex"
  <2>1. op.from \in M /\ \A j \in 1..k : OnIndex(staged[j]) => KnownAs(staged[j]) # op.from
    BY <1>2, <1>3, <1>7 DEF OnIndex, KnownAs
  <2>2. \E c \in 1..Len(cards) : cards[c].name = op.from /\ ~cards[c].isNew
    BY <2>1 DEF AllDealt
  <2>3. PICK i \in 1..Len(cards) :
          /\ cards[i].name = op.from /\ ~cards[i].isNew
          /\ next = WithAt(cards, i, EditedCard(cards[i], op))
    BY <1>1, <1>7, <2>2, CardsAfterOp DEF next
  <2>4. /\ Len(next) = Len(cards) /\ next[i] = EditedCard(cards[i], op)
        /\ \A c \in 1..Len(cards) : c # i => next[c] = cards[c]
    <3>1. cards[i] \in IndexCard /\ op \in StagedOp
      BY <1>1
    <3>2. EditedCard(cards[i], op) \in IndexCard
      BY <1>7, <3>1, CardFields
    <3>3. QED
      BY <2>3, <3>2, ChangedCard
  <2>5. next[i].name = op.name /\ next[i].was = <<op.from>> /\ ~next[i].isNew
    <3>1. EditedCard(cards[i], op).was = <<cards[i].name>>
      BY <1>1, <1>7, CardFields
    <3>2. EditedCard(cards[i], op).name = op.name /\ EditedCard(cards[i], op).isNew = cards[i].isNew
      BY <1>1, <1>7, CardFields
    <3>3. QED
      BY <2>3, <2>4, <3>1, <3>2
  <2>6. op.name = op.from \/ op.name \notin M
    BY <1>1, <1>7 DEF NewNames, op
  <2>7. AllTold(next, staged, k + 1)
    <3>1. ASSUME NEW j \in 1..k PROVE Told(next, staged[j])
      <4>1. Told(cards, staged[j]) /\ j \in 1..Len(staged)
        BY <1>1 DEF AllTold
      <4>2. ASSUME staged[j].op = "dropIndex"
            PROVE  \E c \in 1..Len(next) :
                     next[c].dropped /\ next[c].name = staged[j].name /\ next[c].was = <<>>
        <5>1. PICK c \in 1..Len(cards) :
                cards[c].dropped /\ cards[c].name = staged[j].name /\ cards[c].was = <<>>
          BY <4>1, <4>2 DEF Told
        <5>2. staged[j].name # op.from
          BY <2>1, <4>2 DEF OnIndex, KnownAs
        <5>3. c # i
          BY <2>3, <5>1, <5>2
        <5>4. QED
          BY <2>4, <5>1, <5>3
      <4>3. ASSUME staged[j].op = "replaceIndex"
            PROVE  \E c \in 1..Len(next) :
                     next[c].was = <<staged[j].from>> /\ next[c].name = staged[j].name
        <5>1. PICK c \in 1..Len(cards) :
                cards[c].was = <<staged[j].from>> /\ cards[c].name = staged[j].name
          BY <4>1, <4>3 DEF Told
        <5>2. staged[j].from # op.from
          BY <2>1, <4>3 DEF OnIndex, KnownAs
        <5>3. staged[j].name # op.from
          BY <2>1, <4>1, <4>3, <5>2 DEF NewNames
        <5>4. c # i
          BY <2>3, <5>1, <5>3
        <5>5. QED
          BY <2>4, <5>1, <5>4
      <4>4. QED
        BY <4>2, <4>3 DEF Told
    <3>2. Told(next, op)
      BY <1>7, <2>4, <2>5 DEF Told
    <3>3. QED
      BY <1>1, <3>1, <3>2 DEF AllTold, op
  <2>8. AllDealt(next, staged, k + 1, M)
    <3>1. ASSUME NEW m \in M, \A j \in 1..(k + 1) : OnIndex(staged[j]) => KnownAs(staged[j]) # m
          PROVE  \E c \in 1..Len(next) : next[c].name = m /\ ~next[c].isNew
      <4>1. PICK c \in 1..Len(cards) : cards[c].name = m /\ ~cards[c].isNew
        BY <1>1, <3>1 DEF AllDealt
      <4>2. op.from # m
        BY <1>1, <1>7, <3>1 DEF OnIndex, KnownAs, op
      <4>3. c # i
        BY <2>3, <4>1, <4>2
      <4>4. QED
        BY <2>4, <4>1, <4>3
    <3>2. QED
      BY <3>1 DEF AllDealt
  <2>9. NamesKept(next, staged, k + 1, M)
    <3>1. ASSUME NEW c \in 1..Len(next)
          PROVE  /\ next[c].isNew => next[c].name \notin M
                 /\ next[c].was # <<>> /\ next[c].name \in M =>
                      \E j \in 1..(k + 1) :
                        staged[j].op = "replaceIndex" /\ staged[j].from = next[c].name
      <4>1. CASE c # i
        BY <1>1, <2>4, <4>1 DEF NamesKept
      <4>2. CASE c = i
        <5>1. next[c].name \in M => next[c].name = op.from
          BY <2>5, <2>6, <4>2
        <5>2. k + 1 \in 1..(k + 1)
          OBVIOUS
        <5>3. QED
          BY <1>7, <2>5, <4>2, <5>1, <5>2 DEF op
      <4>3. QED
        BY <4>1, <4>2
    <3>2. QED
      BY <3>1 DEF NamesKept
  <2>10. QED
    BY <2>7, <2>8, <2>9 DEF op, next
<1>8. op.op \notin {"addIndex", "dropIndex", "replaceIndex"} => next = cards /\ ~OnIndex(op)
  BY <1>1, CardsAfterOp DEF next, OnIndex
<1>9. QED
  BY <1>4, <1>5, <1>6, <1>7, <1>8
\* Ops on different indexes, none of which takes the name of another one, each have their card.
LEMMA EveryOpIsTold ==
  ASSUME NEW indexes \in Seq(IndexRecord), NEW staged \in Seq(StagedOp),
         Apart(staged, NamesOf(indexes)), NewNames(staged, NamesOf(indexes))
  PROVE  AllTold(applyOpsToIndexes(indexes, staged), staged, Len(staged))
<1> DEFINE M == NamesOf(indexes)
           n == Len(staged)
<1>1. n \in Nat
  OBVIOUS
<1>2. Dealt(indexes) \in Seq(IndexCard)
  BY DealtCards
<1>3. PICK t : Deck!Runs(t, Dealt(indexes), staged) /\ t[n] = Deck!Folded(Dealt(indexes), staged)
  BY Deck!FoldRuns
<1>4. t[0] = Dealt(indexes) /\ \A k \in 1..n : t[k] = ReplayIndex(t[k - 1], staged[k])
  BY <1>3 DEF Deck!Runs
<1> HIDE DEF M, n
<1> DEFINE Good(k) == /\ t[k] \in Seq(IndexCard) /\ AllTold(t[k], staged, k)
                      /\ AllDealt(t[k], staged, k, M) /\ NamesKept(t[k], staged, k, M)
           G == {k \in 0..n : Good(k)}
<1>5. Good(0)
  <2>1. AllTold(t[0], staged, 0)
    BY DEF AllTold
  <2>2. AllDealt(t[0], staged, 0, M)
    <3>1. ASSUME NEW m \in M PROVE \E c \in 1..Len(t[0]) : t[0][c].name = m /\ ~t[0][c].isNew
      <4>1. PICK c \in 1..Len(indexes) : indexes[c].name = m
        BY DEF NamesOf, M
      <4>2. QED
        BY <1>4, <4>1, DealtCards
    <3>2. QED
      BY <3>1 DEF AllDealt
  <2>3. NamesKept(t[0], staged, 0, M)
    BY <1>4, DealtCards DEF NamesKept
  <2>4. QED
    BY <1>2, <1>4, <2>1, <2>2, <2>3
<1>6. ASSUME NEW k \in 0..(n - 1), Good(k) PROVE Good(k + 1)
  <2>1. /\ k \in Nat /\ k < Len(staged) /\ k + 1 \in 1..n /\ (k + 1) - 1 = k
        /\ staged[k + 1] \in StagedOp
    BY <1>1 DEF n
  <2>2. t[k + 1] = ReplayIndex(t[k], staged[k + 1])
    BY <1>4, <2>1
  <2>3. t[k + 1] \in Seq(IndexCard)
    <3>1. \A x \in IndexCard : Identity(x) \in IndexName
      BY DEF IndexCard, Identity
    <3>2. IndexCard = KnownCards(IndexName)
      BY <3>1 DEF KnownCards
    <3>3. staged[k + 1].op = "replaceIndex" => staged[k + 1].from \in IndexName
      BY <2>1, StagedFields
    <3>4. t[k] \in Seq(KnownCards(IndexName))
      BY <1>6, <3>2
    <3>5. QED
      BY <2>1, <2>2, <3>2, <3>3, <3>4, KnownCardsStep
  <2>4. /\ AllTold(t[k + 1], staged, k + 1) /\ AllDealt(t[k + 1], staged, k + 1, M)
        /\ NamesKept(t[k + 1], staged, k + 1, M)
    BY <1>6, <2>1, <2>2, AllToldNext DEF M
  <2>5. QED
    BY <2>3, <2>4
<1>7. 0..n \subseteq G
  <2>1. 0 \in G
    BY <1>1, <1>5
  <2>2. ASSUME NEW k \in 0..(n - 1), k \in G PROVE k + 1 \in G
    BY <1>1, <1>6, <2>2
  <2>3. QED
    BY <1>1, <2>1, <2>2, CountingUp
<1>8. n \in G
  BY <1>1, <1>7
<1>9. QED
  BY <1>3, <1>8, CardsAreFolded DEF n
-----------------------------------------------------------------------------
(* What is staged (StructureView.tsx).                                         *)

\* Ops of their kinds, and as long as none was left behind by a batch that was applied, those
\* on indexes are each about another index of the table.
GoodOps(staged) ==
  staged \in Seq(StagedOp) /\ (~leftover => Apart(staged, NamesOf(meta.indexes)))

LEMMA SelectedIsGood ==
  ASSUME GoodOps(ops), NEW T
  PROVE  /\ GoodOps(OnlyIn(ops, T))
         /\ \A i \in 1..Len(OnlyIn(ops, T)) : OnlyIn(ops, T)[i] \in T
<1>1. ops \in Seq(StagedOp)
  BY DEF GoodOps
<1>2. OnlyIn(ops, T) \in Seq(StagedOp \cap T) /\ \E at : SelectedAt(at, ops, T)
  BY <1>1, OnlyInPlaces
<1>3. PICK at : SelectedAt(at, ops, T)
  BY <1>2
<1> DEFINE sel == OnlyIn(ops, T)
           n == Len(sel)
<1>4. /\ n \in Nat /\ sel \in Seq(StagedOp)
      /\ \A i \in 1..n : at[i] \in 1..Len(ops) /\ sel[i] \in T /\ sel[i] = ops[at[i]]
      /\ \A i, j \in 1..n : i < j => at[i] < at[j]
  <2>1. sel \in Seq(StagedOp) /\ n \in Nat
    <3>1. sel \in Seq(StagedOp \cap T)
      BY <1>2
    <3> HIDE DEF sel
    <3>2. n \in Nat /\ sel \in [1..n -> StagedOp \cap T]
      BY <3>1
    <3>3. QED
      BY <3>2
  <2>2. /\ \A i \in 1..n : at[i] \in 1..Len(ops) /\ sel[i] \in T /\ sel[i] = ops[at[i]]
        /\ \A i, j \in 1..n : i < j => at[i] < at[j]
    BY <1>3 DEF SelectedAt
  <2>3. QED
    BY <2>1, <2>2
<1> HIDE DEF sel, n
<1>5. \A i, j \in 1..n : i # j => at[i] # at[j]
  <2>1. ASSUME NEW i \in 1..n, NEW j \in 1..n, i # j PROVE at[i] # at[j]
    <3>1. i < j \/ j < i
      BY <1>4, <2>1
    <3>2. at[i] < at[j] \/ at[j] < at[i]
      BY <1>4, <3>1
    <3>3. at[i] \in Int /\ at[j] \in Int
      BY <1>4
    <3>4. QED
      BY <3>2, <3>3
  <2>2. QED
    BY <2>1
<1>6. ASSUME NEW M, Apart(ops, M) PROVE Apart(sel, M)
  <2>1. \A i \in 1..n : OnIndex(sel[i]) => KnownAs(sel[i]) \in M
    BY <1>4, <1>6 DEF Apart
  <2>2. ASSUME NEW i \in 1..n, NEW j \in 1..n, i # j, OnIndex(sel[i]), OnIndex(sel[j])
        PROVE  KnownAs(sel[i]) # KnownAs(sel[j])
    <3>1. /\ at[i] \in 1..Len(ops) /\ at[j] \in 1..Len(ops) /\ at[i] # at[j]
          /\ sel[i] = ops[at[i]] /\ sel[j] = ops[at[j]]
      BY <1>4, <1>5, <2>2
    <3>2. QED
      BY <1>6, <2>2, <3>1 DEF Apart
  <2>3. QED
    BY <2>1, <2>2 DEF Apart, n
<1>7. QED
  BY <1>4, <1>6 DEF GoodOps, sel, n

\* One op more, which is about no index the others are about.
LEMMA AppendedIsGood ==
  ASSUME NEW staged, GoodOps(staged), NEW op \in StagedOp,
         OnIndex(op) => \A i \in 1..Len(staged) : OnIndex(staged[i]) => KnownAs(staged[i]) # KnownAs(op),
         OnIndex(op) /\ ~leftover => KnownAs(op) \in NamesOf(meta.indexes)
  PROVE  GoodOps(Append(staged, op))
<1>1. staged \in Seq(StagedOp)
  BY DEF GoodOps
<1> DEFINE list == Append(staged, op)
           n == Len(staged)
<1>2. /\ list \in Seq(StagedOp) /\ Len(list) = n + 1 /\ n \in Nat
      /\ \A i \in 1..n : list[i] = staged[i]
      /\ list[n + 1] = op
      /\ \A i \in 1..(n + 1) : i \in 1..n \/ i = n + 1
  BY <1>1, AppendPlaces
<1> HIDE DEF list, n
<1>3. ASSUME ~leftover PROVE Apart(list, NamesOf(meta.indexes))
  <2>1. Apart(staged, NamesOf(meta.indexes))
    BY <1>3 DEF GoodOps
  <2>2. ASSUME NEW i \in 1..Len(list), OnIndex(list[i])
        PROVE  KnownAs(list[i]) \in NamesOf(meta.indexes)
    BY <1>2, <1>3, <2>1, <2>2 DEF Apart, n
  <2>3. ASSUME NEW i \in 1..Len(list), NEW j \in 1..Len(list), i # j, OnIndex(list[i]), OnIndex(list[j])
        PROVE  KnownAs(list[i]) # KnownAs(list[j])
    <3>1. CASE i \in 1..n /\ j \in 1..n
      BY <1>2, <2>1, <2>3, <3>1 DEF Apart, n
    <3>2. CASE i = n + 1 /\ j \in 1..n
      BY <1>2, <2>3, <3>2 DEF n
    <3>3. CASE i \in 1..n /\ j = n + 1
      BY <1>2, <2>3, <3>3 DEF n
    <3>4. QED
      BY <1>2, <2>3, <3>1, <3>2, <3>3
  <2>4. QED
    BY <2>2, <2>3 DEF Apart
<1>4. QED
  BY <1>2, <1>3 DEF GoodOps, list

\* Ops that add columns are changed in their places.
LEMMA EditedIsGood ==
  ASSUME GoodOps(ops), NEW list \in Seq(StagedOp), Len(list) = Len(ops),
         \A i \in 1..Len(ops) : list[i] = ops[i] \/ ~OnIndex(list[i])
  PROVE  GoodOps(list)
BY DEF GoodOps, Apart

-----------------------------------------------------------------------------
(* The rows on the screen, replayed (structure/ops.ts applyOpsToColumns).      *)

RowDeck == INSTANCE SequenceFacts WITH FoldStep <- ReplayColumn

DrawnRows(columns) ==
  [i \in DOMAIN columns |-> [name |-> columns[i].name, setting |-> columns[i].setting,
                             origin |-> <<columns[i].name>>, dropped |-> FALSE]]

LEMMA RowsAreFolded ==
  ASSUME NEW columns, NEW staged
  PROVE  applyOpsToColumns(columns, staged) = RowDeck!Folded(DrawnRows(columns), staged)
BY DEF applyOpsToColumns, DrawnRows, RowDeck!Folded, RowDeck!FoldLeft, RowDeck!MapThenFoldSet, FoldLeft,
       MapThenFoldSet, Max, RowDeck!Max

\* A changed row is a row.
LEMMA RowFields ==
  ASSUME NEW row \in Row
  PROVE  /\ \A name \in ColumnName : [row EXCEPT !.name = name] \in Row
         /\ \A setting \in Setting : [row EXCEPT !.setting = setting] \in Row
         /\ [row EXCEPT !.dropped = TRUE] \in Row
         /\ row.name \in ColumnName
         /\ row.origin # <<>> => row.origin[1] \in ColumnName
<1>1. \A name \in ColumnName : [row EXCEPT !.name = name] \in Row
  BY DEF Row
<1>2. \A setting \in Setting : [row EXCEPT !.setting = setting] \in Row
  BY DEF Row
<1>3. [row EXCEPT !.dropped = TRUE] \in Row
  BY DEF Row
<1>4. row.name \in ColumnName
  BY DEF Row
<1>5. ASSUME row.origin # <<>> PROVE row.origin[1] \in ColumnName
  <2>1. \E c \in ColumnName : row.origin = <<c>>
    BY <1>5 DEF Row
  <2>2. QED
    BY <2>1
<1>6. QED
  BY <1>1, <1>2, <1>3, <1>4, <1>5

LEMMA RowsStep ==
  ASSUME NEW rows \in Seq(Row), NEW op \in StagedOp
  PROVE  ReplayColumn(rows, op) \in Seq(Row)
<1>1. Len(rows) \in Nat /\ DOMAIN rows = 1..Len(rows) /\ \A i \in 1..Len(rows) : rows[i] \in Row
  OBVIOUS
<1>2. ASSUME NEW i \in 1..Len(rows), NEW row \in Row PROVE [rows EXCEPT ![i] = row] \in Seq(Row)
  OBVIOUS
<1>3. CASE op.op = "addColumn"
  <2>1. [name |-> op.name, setting |-> op.setting, origin |-> <<>>, dropped |-> FALSE] \in Row
    BY <1>3, StagedFields DEF Row
  <2>2. QED
    BY <1>3, <2>1 DEF ReplayColumn
<1>4. CASE op.op = "renameColumn"
  <2> DEFINE I == {i \in 1..Len(rows) : rows[i].name = op.from}
             i0 == IF I # {} THEN Min(I) ELSE 0
  <2>1. ReplayColumn(rows, op)
          = IF i0 = 0 THEN rows ELSE [rows EXCEPT ![i0] = [rows[i0] EXCEPT !.name = op.to]]
    BY <1>4 DEF ReplayColumn, AtRow, AtFirst, SelectInSeq
  <2>2. i0 # 0 => i0 \in 1..Len(rows)
    BY <1>1, MinOfPositions
  <2>3. i0 # 0 => [rows[i0] EXCEPT !.name = op.to] \in Row
    <3>1. op.to \in ColumnName
      BY <1>4, StagedFields
    <3>2. QED
      BY <1>1, <2>2, <3>1, RowFields
  <2>4. QED
    BY <1>2, <2>1, <2>2, <2>3
<1>5. CASE op.op = "change"
  <2> DEFINE I == {i \in 1..Len(rows) : rows[i].name = op.column}
             i0 == IF I # {} THEN Min(I) ELSE 0
  <2>1. ReplayColumn(rows, op)
          = IF i0 = 0 THEN rows ELSE [rows EXCEPT ![i0] = [rows[i0] EXCEPT !.setting = op.setting]]
    BY <1>5 DEF ReplayColumn, AtRow, AtFirst, SelectInSeq
  <2>2. i0 # 0 => i0 \in 1..Len(rows)
    BY <1>1, MinOfPositions
  <2>3. i0 # 0 => [rows[i0] EXCEPT !.setting = op.setting] \in Row
    <3>1. op.setting \in Setting
      BY <1>5, StagedFields
    <3>2. QED
      BY <1>1, <2>2, <3>1, RowFields
  <2>4. QED
    BY <1>2, <2>1, <2>2, <2>3
<1>6. CASE op.op = "dropColumn"
  <2> DEFINE I == {i \in 1..Len(rows) : rows[i].name = op.name}
             i0 == IF I # {} THEN Min(I) ELSE 0
  <2>1. ReplayColumn(rows, op)
          = IF i0 = 0 THEN rows ELSE [rows EXCEPT ![i0] = [rows[i0] EXCEPT !.dropped = TRUE]]
    BY <1>6 DEF ReplayColumn, AtRow, AtFirst, SelectInSeq
  <2>2. i0 # 0 => i0 \in 1..Len(rows)
    BY <1>1, MinOfPositions
  <2>3. i0 # 0 => [rows[i0] EXCEPT !.dropped = TRUE] \in Row
    BY <1>1, <2>2, RowFields
  <2>4. QED
    BY <1>2, <2>1, <2>2, <2>3
<1>7. CASE op.op \notin {"addColumn", "renameColumn", "change", "dropColumn"}
  BY <1>7 DEF ReplayColumn
<1>8. QED
  BY <1>3, <1>4, <1>5, <1>6, <1>7

LEMMA RowsAreRows ==
  ASSUME NEW columns \in Seq(ColumnRecord), NEW staged \in Seq(StagedOp)
  PROVE  applyOpsToColumns(columns, staged) \in Seq(Row)
<1>1. DrawnRows(columns) \in Seq(Row)
  <2>1. Len(columns) \in Nat /\ DOMAIN columns = 1..Len(columns)
        /\ \A i \in 1..Len(columns) : columns[i] \in ColumnRecord
    OBVIOUS
  <2>2. \A i \in 1..Len(columns) :
          [name |-> columns[i].name, setting |-> columns[i].setting,
           origin |-> <<columns[i].name>>, dropped |-> FALSE] \in Row
    BY <2>1 DEF ColumnRecord, Row
  <2>3. DrawnRows(columns) \in [1..Len(columns) -> Row]
    BY <2>1, <2>2 DEF DrawnRows
  <2>4. QED
    BY <2>1, <2>3
<1>2. ASSUME NEW rows \in Seq(Row), NEW k \in 1..Len(staged)
      PROVE  ReplayColumn(rows, staged[k]) \in Seq(Row)
  BY RowsStep
<1>3. RowDeck!Folded(DrawnRows(columns), staged) \in Seq(Row)
  BY ONLY <1>1, <1>2, staged \in Seq(StagedOp), RowDeck!FoldKeeps
<1>4. QED
  BY <1>3, RowsAreFolded
-----------------------------------------------------------------------------
(* Staging (StructureView.tsx).                                                *)

Batch == [batch : Seq(WireOp), status : {"sent", "done", "failed", "answered"}, here : BOOLEAN]

\* An editor that is applying is on screen and waits for a batch of its own.
StructInv ==
  /\ dbTable \in TableRecord /\ meta \in TableRecord
  /\ GoodOps(ops) /\ Len(ops) <= MaxOps
  /\ stagings \in 0..MaxStagings /\ where \in {"view", "tab", "workspace"}
  /\ applies \in Seq(Batch) /\ leftover \in BOOLEAN /\ busy \in BOOLEAN
  /\ busy => /\ where = "view"
             /\ \E i \in DOMAIN applies : applies[i].here /\ applies[i].status # "answered"
  /\ review # Closed => where = "view"

LEMMA RowsAndCards ==
  ASSUME StructInv
  PROVE  /\ Rows \in Seq(Row) /\ \A i \in DOMAIN Rows : Rows[i] \in Row
         /\ \A card \in ToSet(Cards) :
              /\ card \in IndexCard /\ Identity(card) \in IndexName
              /\ ~card.isNew /\ ~leftover => Identity(card) \in NamesOf(meta.indexes)
<1>1. meta.columns \in Seq(ColumnRecord) /\ meta.indexes \in Seq(IndexRecord) /\ ops \in Seq(StagedOp)
  BY DEF StructInv, TableRecord, GoodOps
<1>2. Rows \in Seq(Row)
  BY <1>1, RowsAreRows DEF Rows
<1>3. \A i \in DOMAIN Rows : Rows[i] \in Row
  BY <1>2
<1>4. ASSUME NEW M, Cards \in Seq(KnownCards(M)), NEW card \in ToSet(Cards) PROVE card \in KnownCards(M)
  BY <1>4, OwnElements
<1>5. Cards \in Seq(KnownCards(IndexName))
  <2>1. \A i \in 1..Len(meta.indexes) : meta.indexes[i] \in IndexRecord
    BY <1>1
  <2>2. DOMAIN meta.indexes = 1..Len(meta.indexes)
    BY <1>1
  <2>3. NamesOf(meta.indexes) \subseteq IndexName
    BY <2>1, <2>2 DEF NamesOf, IndexRecord
  <2>4. \A i \in 1..Len(ops) : ops[i].op = "replaceIndex" => ops[i].from \in IndexName
    <3>1. \A i \in 1..Len(ops) : ops[i] \in StagedOp
      BY <1>1
    <3>2. QED
      BY <3>1, StagedFields
  <2>5. QED
    BY <1>1, <2>3, <2>4, CardsAreKnown DEF Cards
<1>6. ASSUME ~leftover PROVE Cards \in Seq(KnownCards(NamesOf(meta.indexes)))
  <2>1. \A i \in 1..Len(ops) : ops[i].op = "replaceIndex" => ops[i].from \in NamesOf(meta.indexes)
    BY <1>6 DEF StructInv, GoodOps, Apart, OnIndex, KnownAs
  <2>2. QED
    BY <1>1, <2>1, CardsAreKnown DEF Cards
<1>7. ASSUME NEW card \in ToSet(Cards)
      PROVE  /\ card \in IndexCard /\ Identity(card) \in IndexName
             /\ ~card.isNew /\ ~leftover => Identity(card) \in NamesOf(meta.indexes)
  <2>1. card \in KnownCards(IndexName)
    BY <1>4, <1>5
  <2>2. card \in IndexCard /\ Identity(card) \in IndexName
    BY <2>1 DEF KnownCards, IndexCard, Identity
  <2>3. ~card.isNew /\ ~leftover => Identity(card) \in NamesOf(meta.indexes)
    BY <1>4, <1>6 DEF KnownCards
  <2>4. QED
    BY <2>2, <2>3
<1>8. QED
  BY <1>2, <1>3, <1>7

\* What an op is about is not one of the table's indexes.
LEMMA ColumnOpIsGood ==
  ASSUME NEW staged, GoodOps(staged), NEW op \in StagedOp, ~OnIndex(op)
  PROVE  GoodOps(Append(staged, op))
BY AppendedIsGood

LEMMA WithoutIsGood ==
  ASSUME GoodOps(ops), NEW T
  PROVE  GoodOps(OnlyIn(ops, T))
BY SelectedIsGood

\* An added column is changed in the op that adds it.
LEMMA EditAddedIsGood ==
  ASSUME GoodOps(ops), NEW list, list = [i \in DOMAIN ops |-> list[i]],
         \A i \in DOMAIN ops : list[i] = ops[i] \/ list[i] \in AddColumns
  PROVE  GoodOps(list)
<1>1. ops \in Seq(StagedOp) /\ DOMAIN ops = 1..Len(ops) /\ Len(ops) \in Nat
      /\ \A i \in 1..Len(ops) : ops[i] \in StagedOp
  BY DEF GoodOps
<1>2. \A i \in 1..Len(ops) : list[i] \in StagedOp
  BY <1>1 DEF StagedOp, WireOp
<1>3. AddColumns \subseteq {op \in StagedOp : ~OnIndex(op)}
  BY DEF AddColumns, StagedOp, WireOp, OnIndex
<1>4. \A i \in 1..Len(ops) : list[i] = ops[i] \/ ~OnIndex(list[i])
  BY <1>1, <1>3
<1>5. list \in Seq(StagedOp) /\ Len(list) = Len(ops)
  BY <1>1, <1>2
<1>6. QED
  BY <1>1, <1>4, <1>5, EditedIsGood

LEMMA StagedColumnsAreGood ==
  ASSUME StructInv, StagesColumns
  PROVE  \E staged : GoodOps(staged) /\ SetOps(staged)
<1>1. GoodOps(ops) /\ \A i \in DOMAIN Rows : Rows[i] \in Row
  BY RowsAndCards DEF StructInv
<1>2. CASE AddColumn
  <2> DEFINE op == [op |-> "addColumn", name |-> NewColumn, setting |-> FirstSetting]
  <2>1. op \in StagedOp /\ ~OnIndex(op)
    BY StructAssumption DEF StagedOp, WireOp, AddColumns, OnIndex
  <2>2. GoodOps(Append(ops, op))
    BY <1>1, <2>1, ColumnOpIsGood
  <2>3. QED
    BY <1>2, <2>2 DEF AddColumn, Staged
<1>3. CASE CancelNewColumn
  BY <1>1, <1>3, WithoutIsGood DEF CancelNewColumn, Without
<1>4. ASSUME NEW i \in DOMAIN Rows, NEW to \in ColumnName, RenameColumn(i, to)
      PROVE  \E staged : GoodOps(staged) /\ SetOps(staged)
  <2> DEFINE row == Rows[i]
             T == {op \in ToSet(ops) : ~(op.op = "renameColumn" /\ op.from = row.origin[1])}
             new == [op |-> "renameColumn", from |-> row.origin[1], to |-> to]
  <2>1. CASE row.origin = <<>>
    <3> DEFINE list == [n \in DOMAIN ops |->
                          IF IsAdd(ops[n], row) THEN [ops[n] EXCEPT !.name = to] ELSE ops[n]]
    <3>1. SetOps(list)
      BY <1>4, <2>1 DEF RenameColumn, EditAdded
    <3>2. ASSUME NEW n \in DOMAIN ops, IsAdd(ops[n], row) PROVE [ops[n] EXCEPT !.name = to] \in AddColumns
      <4>1. ops[n] \in StagedOp /\ ops[n].op = "addColumn"
        BY <1>1, <3>2 DEF GoodOps, IsAdd
      <4>2. ops[n] \in AddColumns
        BY <4>1, StagedFields
      <4>3. QED
        BY <4>2 DEF AddColumns
    <3>3. /\ list = [n \in DOMAIN ops |-> list[n]]
          /\ \A n \in DOMAIN ops : list[n] = ops[n] \/ list[n] \in AddColumns
      BY <3>2
    <3> HIDE DEF list
    <3>4. GoodOps(list)
      BY <1>1, <3>3, EditAddedIsGood
    <3>5. QED
      BY <3>1, <3>4
  <2>2. CASE row.origin # <<>>
    <3>1. new \in StagedOp /\ ~OnIndex(new)
      <4>1. row.origin[1] \in ColumnName
        BY <1>1, <2>2, RowFields
      <4>2. QED
        BY <4>1 DEF StagedOp, WireOp, Renames, OnIndex
    <3>2. GoodOps(OnlyIn(ops, T)) /\ GoodOps(Append(OnlyIn(ops, T), new))
      BY <1>1, <3>1, WithoutIsGood, ColumnOpIsGood
    <3>3. SetOps(OnlyIn(ops, T)) \/ SetOps(Append(OnlyIn(ops, T), new))
      BY <1>4, <2>2 DEF RenameColumn, Without
    <3>4. QED
      BY <3>2, <3>3
  <2>3. QED
    BY <2>1, <2>2
<1>5. ASSUME NEW i \in DOMAIN Rows, NEW setting \in Setting, ChangeColumn(i, setting)
      PROVE  \E staged : GoodOps(staged) /\ SetOps(staged)
  <2> DEFINE row == Rows[i]
             T == {op \in ToSet(ops) : ~(op.op = "change" /\ op.column = row.origin[1])}
             new == [op |-> "change", column |-> row.origin[1], setting |-> setting]
  <2>1. CASE row.origin = <<>>
    <3> DEFINE list == [n \in DOMAIN ops |->
                          IF IsAdd(ops[n], row) THEN [ops[n] EXCEPT !.setting = setting] ELSE ops[n]]
    <3>1. SetOps(list)
      BY <1>5, <2>1 DEF ChangeColumn, EditAdded
    <3>2. ASSUME NEW n \in DOMAIN ops, IsAdd(ops[n], row)
          PROVE  [ops[n] EXCEPT !.setting = setting] \in AddColumns
      <4>1. ops[n] \in StagedOp /\ ops[n].op = "addColumn"
        BY <1>1, <3>2 DEF GoodOps, IsAdd
      <4>2. ops[n] \in AddColumns
        BY <4>1, StagedFields
      <4>3. QED
        BY <4>2 DEF AddColumns
    <3>3. /\ list = [n \in DOMAIN ops |-> list[n]]
          /\ \A n \in DOMAIN ops : list[n] = ops[n] \/ list[n] \in AddColumns
      BY <3>2
    <3> HIDE DEF list
    <3>4. GoodOps(list)
      BY <1>1, <3>3, EditAddedIsGood
    <3>5. QED
      BY <3>1, <3>4
  <2>2. CASE row.origin # <<>>
    <3>1. new \in StagedOp /\ ~OnIndex(new)
      <4>1. row.origin[1] \in ColumnName
        BY <1>1, <2>2, RowFields
      <4>2. QED
        BY <4>1 DEF StagedOp, WireOp, Changes, OnIndex
    <3>2. GoodOps(OnlyIn(ops, T)) /\ GoodOps(Append(OnlyIn(ops, T), new))
      BY <1>1, <3>1, WithoutIsGood, ColumnOpIsGood
    <3>3. SetOps(OnlyIn(ops, T)) \/ SetOps(Append(OnlyIn(ops, T), new))
      BY <1>5, <2>2 DEF ChangeColumn, Without
    <3>4. QED
      BY <3>2, <3>3
  <2>3. QED
    BY <2>1, <2>2
<1>6. ASSUME NEW i \in DOMAIN Rows, DropColumn(i)
      PROVE  \E staged : GoodOps(staged) /\ SetOps(staged)
  <2> DEFINE row == Rows[i]
             T == {op \in ToSet(ops) : ~IsAdd(op, row)}
             new == [op |-> "dropColumn", name |-> row.origin[1]]
  <2>1. CASE row.origin = <<>>
    <3>1. SetOps(OnlyIn(ops, T))
      BY <1>6, <2>1 DEF DropColumn, Without
    <3>2. QED
      BY <1>1, <3>1, WithoutIsGood
  <2>2. CASE row.origin # <<>>
    <3>1. row.origin[1] \in ColumnName
      BY <1>1, <2>2, RowFields
    <3>2. new \in StagedOp /\ ~OnIndex(new)
      BY <3>1 DEF StagedOp, WireOp, ColumnDrops, OnIndex
    <3>3. SetOps(Append(ops, new))
      BY <1>6, <2>2 DEF DropColumn, Staged
    <3>4. QED
      BY <1>1, <3>2, <3>3, ColumnOpIsGood
  <2>3. QED
    BY <2>1, <2>2
<1>7. ASSUME NEW i \in DOMAIN Rows, UndropColumn(i)
      PROVE  \E staged : GoodOps(staged) /\ SetOps(staged)
  BY <1>1, <1>7, WithoutIsGood DEF UndropColumn, Without
<1>8. QED
  BY <1>2, <1>3, <1>4, <1>5, <1>6, <1>7 DEF StagesColumns

LEMMA StagedIndexesAreGood ==
  ASSUME StructInv, StagesIndexes
  PROVE  \E staged : GoodOps(staged) /\ SetOps(staged)
<1>1. GoodOps(ops)
  BY DEF StructInv
<1>2. ASSUME NEW column \in ColumnName, NEW name \in IndexName, AddIndex(column, name)
      PROVE  \E staged : GoodOps(staged) /\ SetOps(staged)
  <2> DEFINE op == [op |-> "addIndex", name |-> name, column |-> column]
  <2>1. op \in StagedOp /\ ~OnIndex(op)
    BY DEF StagedOp, WireOp, IndexAdds, OnIndex
  <2>2. GoodOps(Append(ops, op))
    BY <1>1, <2>1, ColumnOpIsGood
  <2>3. QED
    BY <1>2, <2>2 DEF AddIndex, Staged
<1>3. ASSUME NEW card \in ToSet(Cards), NEW op \in StagedOp,
             OnIndex(op) => KnownAs(op) = Identity(card) /\ ~card.isNew
      PROVE  GoodOps(WithoutIndexOps(card)) /\ GoodOps(Append(WithoutIndexOps(card), op))
  <2> DEFINE T == {o \in ToSet(ops) : ~OfIndex(o, card)}
  <2>1. WithoutIndexOps(card) = OnlyIn(ops, T)
    BY DEF WithoutIndexOps, Without
  <2>2. GoodOps(WithoutIndexOps(card))
        /\ \A i \in 1..Len(WithoutIndexOps(card)) : WithoutIndexOps(card)[i] \in T
    BY <1>1, <2>1, SelectedIsGood
  <2>3. \A o \in T : OnIndex(o) => KnownAs(o) # Identity(card)
    BY DEF OfIndex, OnIndex, KnownAs
  <2>4. OnIndex(op) =>
          \A i \in 1..Len(WithoutIndexOps(card)) :
            OnIndex(WithoutIndexOps(card)[i]) => KnownAs(WithoutIndexOps(card)[i]) # KnownAs(op)
    BY <1>3, <2>2, <2>3
  <2>5. OnIndex(op) /\ ~leftover => KnownAs(op) \in NamesOf(meta.indexes)
    BY <1>3, RowsAndCards
  <2>6. QED
    BY <2>2, <2>4, <2>5, AppendedIsGood
<1>4. ASSUME NEW card \in ToSet(Cards), NEW column \in ColumnName, NEW name \in IndexName,
             StageIndexEdit(card, column, name)
      PROVE  \E staged : GoodOps(staged) /\ SetOps(staged)
  <2> DEFINE rest == WithoutIndexOps(card)
             add == [op |-> "addIndex", name |-> name, column |-> column]
             edit == [op |-> "replaceIndex", from |-> Identity(card), name |-> name, column |-> column]
  <2>1. add \in StagedOp /\ ~OnIndex(add)
    BY DEF StagedOp, WireOp, IndexAdds, OnIndex
  <2>2. edit \in StagedOp /\ KnownAs(edit) = Identity(card)
    BY RowsAndCards DEF StagedOp, Replacements, KnownAs
  <2>3. GoodOps(rest) /\ GoodOps(Append(rest, add))
    BY <1>3, <2>1
  <2>4. ~card.isNew => GoodOps(Append(rest, edit))
    BY <1>3, <2>2
  <2>5. \/ SetOps(rest) \/ SetOps(Append(rest, add))
        \/ ~card.isNew /\ SetOps(Append(rest, edit))
    BY <1>4 DEF StageIndexEdit
  <2>6. QED
    BY <2>3, <2>4, <2>5
<1>5. ASSUME NEW card \in ToSet(Cards), StageIndexDrop(card)
      PROVE  \E staged : GoodOps(staged) /\ SetOps(staged)
  <2> DEFINE rest == WithoutIndexOps(card)
             drop == [op |-> "dropIndex", name |-> Identity(card)]
  <2>1. drop \in StagedOp /\ KnownAs(drop) = Identity(card)
    BY RowsAndCards DEF StagedOp, WireOp, IndexDrops, KnownAs
  <2>2. CASE card.isNew
    <3>1. SetOps(OnlyIn(ops, {o \in ToSet(ops) : ~OfIndex(o, card)}))
      BY <1>5, <2>2 DEF StageIndexDrop, WithoutIndexOps, Without
    <3>2. QED
      BY <1>1, <3>1, WithoutIsGood
  <2>3. CASE ~card.isNew
    <3>1. SetOps(Append(rest, drop))
      BY <1>5, <2>3 DEF StageIndexDrop
    <3>2. GoodOps(Append(rest, drop))
      BY <1>3, <2>1, <2>3
    <3>3. QED
      BY <3>1, <3>2
  <2>4. QED
    BY <2>2, <2>3
<1>6. ASSUME NEW card \in ToSet(Cards), StageIndexRestore(card)
      PROVE  \E staged : GoodOps(staged) /\ SetOps(staged)
  <2>1. SetOps(OnlyIn(ops, {o \in ToSet(ops) : ~OfIndex(o, card)}))
    BY <1>6 DEF StageIndexRestore, WithoutIndexOps, Without
  <2>2. QED
    BY <1>1, <2>1, WithoutIsGood
<1>7. QED
  BY <1>2, <1>4, <1>5, <1>6 DEF StagesIndexes

-----------------------------------------------------------------------------
(* What the engine makes of a batch (sqlite/structure.rs).                     *)

Columnwise == INSTANCE SequenceFacts WITH FoldStep <- TargetColumns
Indexwise == INSTANCE SequenceFacts WITH FoldStep <- TargetIndexes
Native == INSTANCE SequenceFacts WITH FoldStep <- NativeStep

LEMMA WireIsStaged == WireOp \subseteq StagedOp /\ \A op \in WireOp : op.op # "replaceIndex"
BY DEF StagedOp, WireOp, AddColumns, Renames, Changes, ColumnDrops, IndexAdds, IndexDrops

\* The first of the name.
Place(columns, name) ==
  LET I == {i \in 1..Len(columns) : columns[i].name = name}  IN IF I # {} THEN Min(I) ELSE 0

LEMMA TargetColumnsTyped ==
  ASSUME NEW columns \in Seq(ColumnRecord), NEW op \in WireOp
  PROVE  TargetColumns(columns, op) \in Seq(ColumnRecord)
<1> DEFINE n == Len(columns)
           Here(name) == columns[Place(columns, name)]
<1>1. n \in Nat /\ DOMAIN columns = 1..n /\ op \in StagedOp
      /\ \A i \in 1..n : columns[i] \in ColumnRecord
  BY WireIsStaged
<1>2. <<>> \in Seq(ColumnRecord)
  OBVIOUS
<1>3. ASSUME NEW name, HasColumn(columns, name) PROVE Here(name) \in ColumnRecord
  <2> DEFINE I == {i \in 1..Len(columns) : columns[i].name = name}
  <2>1. I # {} /\ I \in SUBSET (1..Len(columns)) /\ Len(columns) \in Nat
    BY <1>1, <1>3 DEF HasColumn
  <2>2. Place(columns, name) = IF I # {} THEN Min(I) ELSE 0
    BY DEF Place
  <2>3. Min(I) \in I
    BY <2>1, MinOfPositions
  <2>4. QED
    BY <1>1, <2>1, <2>2, <2>3
<1>4. ASSUME NEW name, NEW new \in ColumnRecord
      PROVE  [i \in DOMAIN columns |-> IF columns[i].name = name THEN new ELSE columns[i]]
               \in Seq(ColumnRecord)
  BY <1>1
<1>5. CASE op.op = "addColumn"
  <2>1. Column(op.name, op.setting) \in ColumnRecord
    BY <1>1, <1>5, StagedFields DEF Column, ColumnRecord
  <2>2. \/ TargetColumns(columns, op) = <<>>
        \/ TargetColumns(columns, op) = Append(columns, Column(op.name, op.setting))
    BY <1>5 DEF TargetColumns
  <2>3. Append(columns, Column(op.name, op.setting)) \in Seq(ColumnRecord)
    BY <2>1
  <2>4. QED
    BY <1>2, <2>2, <2>3, Zenon
<1>6. CASE op.op = "renameColumn"
  <2> DEFINE new == [Here(op.from) EXCEPT !.name = op.to]
  <2>1. \/ TargetColumns(columns, op) = <<>>
        \/ /\ HasColumn(columns, op.from)
           /\ TargetColumns(columns, op)
                = [i \in DOMAIN columns |-> IF columns[i].name = op.from THEN new ELSE columns[i]]
    BY <1>6 DEF TargetColumns, SelectInSeq, Place
  <2>2. HasColumn(columns, op.from) => Here(op.from) \in ColumnRecord
    BY <1>3
  <2>3. op.to \in ColumnName
    BY <1>1, <1>6, StagedFields
  <2> HIDE DEF Here
  <2>4. HasColumn(columns, op.from) => new \in ColumnRecord
    BY <2>2, <2>3 DEF ColumnRecord
  <2> HIDE DEF new
  <2>5. HasColumn(columns, op.from) =>
          [i \in DOMAIN columns |-> IF columns[i].name = op.from THEN new ELSE columns[i]]
            \in Seq(ColumnRecord)
    BY <1>4, <2>4
  <2>6. QED
    BY <1>2, <2>1, <2>5, Zenon
<1>7. CASE op.op = "change"
  <2> DEFINE new == [Here(op.column) EXCEPT !.setting = op.setting]
  <2>1. \/ TargetColumns(columns, op) = <<>>
        \/ /\ HasColumn(columns, op.column)
           /\ TargetColumns(columns, op)
                = [i \in DOMAIN columns |-> IF columns[i].name = op.column THEN new ELSE columns[i]]
    BY <1>7 DEF TargetColumns, SelectInSeq, Place
  <2>2. HasColumn(columns, op.column) => Here(op.column) \in ColumnRecord
    BY <1>3
  <2>3. op.setting \in Setting
    BY <1>1, <1>7, StagedFields
  <2> HIDE DEF Here
  <2>4. HasColumn(columns, op.column) => new \in ColumnRecord
    BY <2>2, <2>3 DEF ColumnRecord
  <2> HIDE DEF new
  <2>5. HasColumn(columns, op.column) =>
          [i \in DOMAIN columns |-> IF columns[i].name = op.column THEN new ELSE columns[i]]
            \in Seq(ColumnRecord)
    BY <1>4, <2>4
  <2>6. QED
    BY <1>2, <2>1, <2>5, Zenon
<1>8. CASE op.op = "dropColumn"
  <2>1. \/ TargetColumns(columns, op) = <<>>
        \/ TargetColumns(columns, op) = OnlyIn(columns, {c \in ToSet(columns) : c.name # op.name})
    BY <1>8 DEF TargetColumns
  <2>2. OnlyIn(columns, {c \in ToSet(columns) : c.name # op.name}) \in Seq(ColumnRecord)
    BY SelectionIsOf
  <2>3. QED
    BY <1>2, <2>1, <2>2, Zenon
<1>9. CASE op.op \notin {"addColumn", "renameColumn", "change", "dropColumn"}
  BY <1>1, <1>9 DEF TargetColumns, SelectInSeq
<1>10. QED
  BY <1>5, <1>6, <1>7, <1>8, <1>9

LEMMA TargetIndexesTyped ==
  ASSUME NEW indexes \in Seq(IndexRecord), NEW op \in WireOp
  PROVE  TargetIndexes(indexes, op) \in Seq(IndexRecord)
<1>1. op \in StagedOp
  BY WireIsStaged
<1>2. CASE op.op = "addIndex"
  <2>1. [name |-> op.name, column |-> op.column] \in IndexRecord
    BY <1>1, <1>2, StagedFields DEF IndexRecord
  <2>2. QED
    BY <1>2, <2>1 DEF TargetIndexes
<1>3. CASE op.op = "dropIndex"
  BY <1>3, SelectionIsOf DEF TargetIndexes
<1>4. CASE op.op \notin {"addIndex", "dropIndex"}
  BY <1>4 DEF TargetIndexes
<1>5. QED
  BY <1>2, <1>3, <1>4

Outcome == TableRecord \cup {Rejected}

LEMMA NativeStepTyped ==
  ASSUME NEW t \in Outcome, NEW op \in WireOp
  PROVE  NativeStep(t, op) \in Outcome
<1> DEFINE columns == TargetColumns(t.columns, op)
           Follow(x) == IF x.column = op.from THEN [x EXCEPT !.column = op.to] ELSE x
           indexes == IF op.op = "renameColumn"
                        THEN [i \in DOMAIN t.indexes |-> Follow(t.indexes[i])]
                        ELSE TargetIndexes(t.indexes, op)
<1>1. t.columns \in Seq(ColumnRecord) /\ t.indexes \in Seq(IndexRecord) /\ op \in StagedOp
  <2>1. <<>> \in Seq(ColumnRecord) /\ <<>> \in Seq(IndexRecord) /\ op \in StagedOp
    BY WireIsStaged
  <2>2. CASE t = Rejected
    BY <2>1, <2>2 DEF Rejected
  <2>3. CASE t \in TableRecord
    BY <2>1, <2>3 DEF TableRecord
  <2>4. QED
    BY <2>2, <2>3 DEF Outcome
<1>2. \/ NativeStep(t, op) = Rejected
      \/ columns # <<>> /\ NativeStep(t, op) = [columns |-> columns, indexes |-> indexes]
  BY DEF NativeStep
<1>3. columns \in Seq(ColumnRecord)
  BY <1>1, TargetColumnsTyped
<1>4. indexes \in Seq(IndexRecord)
  <2>1. CASE op.op = "renameColumn"
    <3>1. op.to \in ColumnName
      BY <1>1, <2>1, StagedFields
    <3>2. Len(t.indexes) \in Nat /\ DOMAIN t.indexes = 1..Len(t.indexes)
          /\ \A i \in 1..Len(t.indexes) : t.indexes[i] \in IndexRecord
      BY <1>1
    <3>3. \A i \in 1..Len(t.indexes) : Follow(t.indexes[i]) \in IndexRecord
      BY <3>1, <3>2 DEF IndexRecord
    <3> HIDE DEF Follow
    <3>4. [i \in DOMAIN t.indexes |-> Follow(t.indexes[i])] \in [1..Len(t.indexes) -> IndexRecord]
      BY <3>2, <3>3
    <3>5. QED
      BY <2>1, <3>2, <3>4
  <2>2. CASE op.op # "renameColumn"
    BY <1>1, <2>2, TargetIndexesTyped
  <2>3. QED
    BY <2>1, <2>2
<1> HIDE DEF columns, indexes
<1>5. QED
  BY <1>2, <1>3, <1>4 DEF Outcome, TableRecord

\* A batch is refused, or leaves a table with columns behind.
LEMMA AppliedTyped ==
  ASSUME NEW t \in TableRecord, NEW batch \in Seq(WireOp)
  PROVE  Applied(t, batch) \in Outcome
<1>1. t.columns \in Seq(ColumnRecord) /\ t.indexes \in Seq(IndexRecord) /\ t \in Outcome
  BY DEF TableRecord, Outcome
<1>2. FoldLeft(NativeStep, t, batch) \in Outcome
  <2>1. \A x \in Outcome : \A k \in 1..Len(batch) : NativeStep(x, batch[k]) \in Outcome
    BY NativeStepTyped
  <2>2. Native!Folded(t, batch) \in Outcome
    BY ONLY <1>1, <2>1, batch \in Seq(WireOp), Native!FoldKeeps
  <2>3. QED
    BY <2>2 DEF Native!Folded, Native!FoldLeft, Native!MapThenFoldSet, FoldLeft, MapThenFoldSet,
                Max, Native!Max
<1>3. FoldLeft(TargetColumns, t.columns, batch) \in Seq(ColumnRecord)
  <2>1. \A x \in Seq(ColumnRecord) : \A k \in 1..Len(batch) :
          TargetColumns(x, batch[k]) \in Seq(ColumnRecord)
    BY TargetColumnsTyped
  <2>2. Columnwise!Folded(t.columns, batch) \in Seq(ColumnRecord)
    BY ONLY <1>1, <2>1, batch \in Seq(WireOp), Columnwise!FoldKeeps
  <2>3. QED
    BY <2>2 DEF Columnwise!Folded, Columnwise!FoldLeft, Columnwise!MapThenFoldSet, FoldLeft,
                MapThenFoldSet, Max, Columnwise!Max
<1>4. FoldLeft(TargetIndexes, t.indexes, batch) \in Seq(IndexRecord)
  <2>1. \A x \in Seq(IndexRecord) : \A k \in 1..Len(batch) :
          TargetIndexes(x, batch[k]) \in Seq(IndexRecord)
    BY TargetIndexesTyped
  <2>2. Indexwise!Folded(t.indexes, batch) \in Seq(IndexRecord)
    BY ONLY <1>1, <2>1, batch \in Seq(WireOp), Indexwise!FoldKeeps
  <2>3. QED
    BY <2>2 DEF Indexwise!Folded, Indexwise!FoldLeft, Indexwise!MapThenFoldSet, FoldLeft,
                MapThenFoldSet, Max, Indexwise!Max
<1>5. Rebuilt(t, batch) \in Outcome
  <2> DEFINE columns == FoldLeft(TargetColumns, t.columns, batch)
             asked == FoldLeft(TargetIndexes, t.indexes, batch)
             indexes == OnlyIn(asked, {x \in ToSet(asked) : HasColumn(columns, x.column)})
  <2>1. \/ Rebuilt(t, batch) = Rejected
        \/ columns # <<>> /\ Rebuilt(t, batch) = [columns |-> columns, indexes |-> indexes]
    BY DEF Rebuilt
  <2>2. columns \in Seq(ColumnRecord) /\ asked \in Seq(IndexRecord)
    BY <1>3, <1>4
  <2>3. indexes \in Seq(IndexRecord)
    <3> HIDE DEF asked, columns
    <3>1. QED
      BY <2>2, SelectionIsOf
  <2> HIDE DEF columns, asked, indexes
  <2>4. QED
    BY <2>1, <2>2, <2>3 DEF Outcome, TableRecord
<1>6. Rejected \in Outcome
  BY DEF Outcome
<1>7. QED
  BY <1>2, <1>5, <1>6 DEF Applied

\* What is sent is ops the engine knows.
LEMMA WireBatchTyped ==
  ASSUME NEW staged \in Seq(StagedOp)
  PROVE  toWireBatch(staged) \in Seq(WireOp)
<1> DEFINE Of(kinds) == OnlyIn(staged, {op \in ToSet(staged) : op.op \in kinds})
           AsDrop(op) == IF op.op = "dropIndex" THEN op ELSE [op |-> "dropIndex", name |-> op.from]
           AsAdd(op) == [op |-> "addIndex", name |-> op.name, column |-> op.column]
           Drops == Of({"dropIndex", "replaceIndex"})
           Adds == Of({"addIndex", "replaceIndex"})
<1>1. ASSUME NEW kinds
      PROVE  /\ Of(kinds) \in Seq(StagedOp)
             /\ \A i \in 1..Len(Of(kinds)) : Of(kinds)[i] \in StagedOp /\ Of(kinds)[i].op \in kinds
  <2> DEFINE T == {op \in ToSet(staged) : op.op \in kinds}
             sel == OnlyIn(staged, T)
  <2>1. sel \in Seq(StagedOp \cap T)
    BY OnlyInPlaces
  <2> HIDE DEF sel
  <2>2. Len(sel) \in Nat /\ sel \in [1..Len(sel) -> StagedOp \cap T]
    BY <2>1
  <2>3. sel \in Seq(StagedOp) /\ \A i \in 1..Len(sel) : sel[i] \in StagedOp /\ sel[i].op \in kinds
    BY <2>2
  <2>4. QED
    BY <2>3 DEF sel
<1> HIDE DEF Of
<1>2. ASSUME NEW kinds, "replaceIndex" \notin kinds PROVE Of(kinds) \in Seq(WireOp)
  <2>1. \A i \in 1..Len(Of(kinds)) : Of(kinds)[i] \in WireOp
    BY <1>1, <1>2, StagedFields
  <2>2. QED
    BY <1>1, <2>1
<1>3. [i \in DOMAIN Drops |-> AsDrop(Drops[i])] \in Seq(WireOp)
  <2>1. Drops \in Seq(StagedOp)
        /\ \A i \in 1..Len(Drops) : Drops[i] \in StagedOp /\ Drops[i].op \in {"dropIndex", "replaceIndex"}
    BY <1>1
  <2>2. ASSUME NEW i \in 1..Len(Drops) PROVE AsDrop(Drops[i]) \in WireOp
    <3>1. CASE Drops[i].op = "dropIndex"
      BY <2>1, <3>1, StagedFields
    <3>2. CASE Drops[i].op = "replaceIndex"
      <4>1. Drops[i].from \in IndexName
        BY <2>1, <3>2, StagedFields
      <4>2. QED
        BY <3>2, <4>1 DEF WireOp, IndexDrops
    <3>3. QED
      BY <2>1, <3>1, <3>2
  <2> HIDE DEF Drops, AsDrop
  <2>3. QED
    BY <2>1, <2>2
<1>4. [i \in DOMAIN Adds |-> AsAdd(Adds[i])] \in Seq(WireOp)
  <2>1. Adds \in Seq(StagedOp)
        /\ \A i \in 1..Len(Adds) : Adds[i] \in StagedOp /\ Adds[i].op \in {"addIndex", "replaceIndex"}
    BY <1>1
  <2>2. ASSUME NEW i \in 1..Len(Adds) PROVE AsAdd(Adds[i]) \in WireOp
    <3>1. Adds[i].name \in IndexName /\ Adds[i].column \in ColumnName
      BY <2>1, StagedFields
    <3>2. QED
      BY <3>1 DEF WireOp, IndexAdds
  <2> HIDE DEF Adds, AsAdd
  <2>3. QED
    BY <2>1, <2>2
<1>5. /\ Of({"dropColumn"}) \in Seq(WireOp) /\ Of({"addColumn"}) \in Seq(WireOp)
      /\ Of({"change"}) \in Seq(WireOp) /\ Of({"renameColumn"}) \in Seq(WireOp)
  BY <1>2
<1>6. toWireBatch(staged)
        = Of({"dropColumn"}) \o Of({"addColumn"}) \o Of({"change"}) \o Of({"renameColumn"})
            \o [i \in DOMAIN Drops |-> AsDrop(Drops[i])] \o [i \in DOMAIN Adds |-> AsAdd(Adds[i])]
  BY DEF toWireBatch, Of
<1> HIDE DEF Drops, Adds, AsDrop, AsAdd
<1>7. QED
  BY <1>3, <1>4, <1>5, <1>6

-----------------------------------------------------------------------------
(* Every step (StructureView.tsx, sqlite/structure.rs).                        *)

WithStatus(i, status) == [applies EXCEPT ![i].status = status]

LEMMA StatusOfOne ==
  ASSUME applies \in Seq(Batch), NEW i \in DOMAIN applies,
         NEW status \in {"sent", "done", "failed", "answered"}
  PROVE  /\ WithStatus(i, status) \in Seq(Batch) /\ DOMAIN WithStatus(i, status) = DOMAIN applies
         /\ WithStatus(i, status)[i].status = status
         /\ \A j \in DOMAIN applies :
              /\ WithStatus(i, status)[j].here = applies[j].here
              /\ j # i => WithStatus(i, status)[j].status = applies[j].status
<1> DEFINE next == WithStatus(i, status)
<1>1. Len(applies) \in Nat /\ DOMAIN applies = 1..Len(applies)
      /\ \A j \in DOMAIN applies : applies[j] \in Batch
  OBVIOUS
<1>2. /\ DOMAIN next = DOMAIN applies
      /\ next[i] = [applies[i] EXCEPT !.status = status]
      /\ \A j \in DOMAIN applies : j # i => next[j] = applies[j]
  BY DEF WithStatus
<1>3. [applies[i] EXCEPT !.status = status] \in Batch
  BY <1>1 DEF Batch
<1>4. next[i].status = status /\ next[i].here = applies[i].here
  BY <1>1, <1>2 DEF Batch
<1>5. \A j \in 1..Len(applies) : next[j] \in Batch
  BY <1>1, <1>2, <1>3
<1>6. next = [j \in 1..Len(applies) |-> next[j]]
  BY <1>1 DEF WithStatus
<1> HIDE DEF next
<1>7. next \in Seq(Batch)
  BY <1>1, <1>5, <1>6
<1>8. QED
  BY <1>2, <1>4, <1>7 DEF next

\* What the user stages.
LEMMA StagingKeepsInv ==
  ASSUME StructInv, StagesColumns \/ StagesIndexes
  PROVE  StructInv'
<1>1. PICK staged : GoodOps(staged) /\ SetOps(staged)
  BY StagedColumnsAreGood, StagedIndexesAreGood
<1>2. /\ ops' = staged /\ stagings < MaxStagings /\ stagings' = stagings + 1 /\ Len(staged) <= MaxOps
      /\ where = "view" /\ where' = where /\ meta' = meta /\ leftover' = leftover
      /\ dbTable' = dbTable /\ busy' = busy /\ applies' = applies
  BY <1>1 DEF SetOps
<1>3. GoodOps(ops)'
  BY <1>1, <1>2 DEF GoodOps
<1>4. stagings' \in 0..MaxStagings
  BY <1>2, StructAssumption DEF StructInv
<1>5. QED
  BY <1>2, <1>3, <1>4 DEF StructInv

\* No ops are good whatever the table.
LEMMA NoOpsAreGood == <<>> \in Seq(StagedOp) /\ \A M : Apart(<<>>, M)
BY DEF Apart

LEMMA AnswerKeepsInv ==
  ASSUME StructInv, NEW i \in DOMAIN applies, ApplyAnswered(i) \/ ApplyFailed(i)
  PROVE  StructInv'
<1>1. /\ applies' = WithStatus(i, "answered") /\ busy' = (busy /\ ~applies[i].here)
      /\ where' = where /\ dbTable' = dbTable /\ stagings' = stagings
  BY DEF ApplyAnswered, ApplyFailed, WithStatus
<1>2. applies \in Seq(Batch) /\ "answered" \in {"sent", "done", "failed", "answered"}
  BY DEF StructInv
<1>3. /\ applies' \in Seq(Batch) /\ DOMAIN applies' = DOMAIN applies
      /\ \A j \in DOMAIN applies :
           applies'[j].here = applies[j].here /\ (j # i => applies'[j].status = applies[j].status)
  BY <1>1, <1>2, StatusOfOne
<1>4. busy' => \E j \in DOMAIN applies' : applies'[j].here /\ applies'[j].status # "answered"
  <2>1. SUFFICES ASSUME busy' PROVE \E j \in DOMAIN applies' : applies'[j].here /\ applies'[j].status # "answered"
    OBVIOUS
  <2>2. PICK j \in DOMAIN applies : applies[j].here /\ applies[j].status # "answered"
    BY <1>1, <2>1 DEF StructInv
  <2>3. j # i
    BY <1>1, <2>1, <2>2
  <2>4. QED
    BY <1>3, <2>2, <2>3
<1>5. busy' \in BOOLEAN /\ (busy' => where' = "view")
  BY <1>1 DEF StructInv
<1>6. CASE ApplyAnswered(i)
  <2>1. /\ ops' = IF where = "workspace" THEN ops ELSE <<>>
        /\ leftover' = (leftover \/ ops' # <<>>) /\ meta' = dbTable
        /\ review' = IF where # "view" \/ applies[i].here THEN Closed ELSE Reviewing(<<>>)
    BY <1>6 DEF ApplyAnswered
  <2>2. GoodOps(ops)'
    BY <2>1, NoOpsAreGood DEF StructInv, GoodOps
  <2>3. Len(ops') <= MaxOps /\ leftover' \in BOOLEAN
    BY <2>1, StructAssumption DEF StructInv
  <2>4. review' # Closed => where' = "view"
    BY <1>1, <2>1
  <2>5. QED
    BY <1>1, <1>3, <1>4, <1>5, <2>1, <2>2, <2>3, <2>4 DEF StructInv
<1>7. CASE ApplyFailed(i)
  <2>1. UNCHANGED <<meta, ops, leftover, review>>
    BY <1>7 DEF ApplyFailed
  <2>2. GoodOps(ops)'
    BY <2>1 DEF StructInv, GoodOps
  <2>3. QED
    BY <1>1, <1>3, <1>4, <1>5, <2>1, <2>2 DEF StructInv
<1>8. QED
  BY <1>6, <1>7

LEMMA AlterKeepsInv ==
  ASSUME StructInv, NEW i \in DOMAIN applies, Alter(i)
  PROVE  StructInv'
<1> DEFINE altered == Applied(dbTable, applies[i].batch)
           status == IF altered = Rejected THEN "failed" ELSE "done"
<1>1. /\ applies' = WithStatus(i, status)
      /\ dbTable' = IF altered = Rejected THEN dbTable ELSE altered
      /\ UNCHANGED <<meta, ops, stagings, where, busy, leftover, review>>
  BY DEF Alter, WithStatus
<1>2. applies \in Seq(Batch) /\ status \in {"sent", "done", "failed", "answered"} /\ status # "answered"
      /\ applies[i].batch \in Seq(WireOp)
  <2>1. applies \in Seq(Batch)
    BY DEF StructInv
  <2>2. applies[i] \in Batch
    BY <2>1
  <2>3. QED
    BY <2>1, <2>2 DEF Batch
<1>3. altered \in Outcome
  BY <1>2, AppliedTyped DEF StructInv
<1>4. dbTable' \in TableRecord
  BY <1>1, <1>3 DEF Outcome, StructInv
<1> HIDE DEF status
<1>5. /\ applies' \in Seq(Batch) /\ DOMAIN applies' = DOMAIN applies /\ applies'[i].status = status
      /\ \A j \in DOMAIN applies :
           applies'[j].here = applies[j].here /\ (j # i => applies'[j].status = applies[j].status)
  BY <1>1, <1>2, StatusOfOne
<1>6. busy' => \E j \in DOMAIN applies' : applies'[j].here /\ applies'[j].status # "answered"
  BY <1>1, <1>2, <1>5 DEF StructInv
<1>7. GoodOps(ops)'
  BY <1>1 DEF StructInv, GoodOps
<1>8. QED
  BY <1>1, <1>4, <1>5, <1>6, <1>7 DEF StructInv

LEMMA ApplyKeepsInv ==
  ASSUME StructInv, ApplyPending
  PROVE  StructInv'
<1> DEFINE sent == [batch |-> toWireBatch(ops), status |-> "sent", here |-> TRUE]
<1>1. /\ applies' = Append(applies, sent) /\ busy' = TRUE /\ where = "view"
      /\ UNCHANGED <<dbTable, meta, ops, stagings, where, leftover, review>>
  BY DEF ApplyPending
<1>2. sent \in Batch
  BY WireBatchTyped DEF StructInv, GoodOps, Batch
<1>3. sent.here /\ sent.status # "answered"
  OBVIOUS
<1> HIDE DEF sent
<1>4. applies' \in Seq(Batch) /\ Len(applies) + 1 \in DOMAIN applies'
      /\ applies'[Len(applies) + 1] = sent
  BY <1>1, <1>2, AppendPlaces DEF StructInv
<1>5. GoodOps(ops)'
  BY <1>1 DEF StructInv, GoodOps
<1>6. \E j \in DOMAIN applies' : applies'[j].here /\ applies'[j].status # "answered"
  BY <1>3, <1>4
<1>7. QED
  BY <1>1, <1>4, <1>5, <1>6 DEF StructInv

LEMMA StructStep == StructInv /\ [StructNext]_structVars => StructInv'
<1> SUFFICES ASSUME StructInv, [StructNext]_structVars PROVE StructInv'
  OBVIOUS
<1>1. CASE StagesColumns \/ StagesIndexes
  BY <1>1, StagingKeepsInv
<1>2. CASE ToggleReview \/ \E batch \in review.asked : PreviewArrives(batch)
  <2>1. UNCHANGED <<dbTable, meta, ops, stagings, where, busy, applies, leftover>> /\ where = "view"
    <3>1. CASE ToggleReview
      BY <3>1 DEF ToggleReview
    <3>2. ASSUME NEW batch \in review.asked, PreviewArrives(batch)
          PROVE  /\ UNCHANGED <<dbTable, meta, ops, stagings, where, busy, applies, leftover>>
                 /\ where = "view"
      <4>1. Closed.asked = {}
        BY DEF Closed
      <4>2. where = "view"
        BY <3>2, <4>1 DEF StructInv
      <4>3. QED
        BY <3>2, <4>2 DEF PreviewArrives
    <3>3. QED
      BY <1>2, <3>1, <3>2
  <2>2. GoodOps(ops)'
    BY <2>1 DEF StructInv, GoodOps
  <2>3. QED
    BY <2>1, <2>2 DEF StructInv
<1>3. CASE ApplyPending
  BY <1>3, ApplyKeepsInv
<1>4. ASSUME NEW i \in DOMAIN applies, Alter(i) \/ ApplyAnswered(i) \/ ApplyFailed(i)
      PROVE  StructInv'
  BY <1>4, AlterKeepsInv, AnswerKeepsInv
<1>5. CASE DiscardPending
  <2>1. /\ ops' = <<>> /\ review' = Closed
        /\ UNCHANGED <<dbTable, meta, stagings, where, busy, applies, leftover>>
    BY <1>5 DEF DiscardPending
  <2>2. GoodOps(ops)' /\ Len(ops') <= MaxOps
    BY <2>1, NoOpsAreGood, StructAssumption DEF GoodOps
  <2>3. QED
    BY <2>1, <2>2 DEF StructInv
<1>6. ASSUME NEW to \in {"tab", "workspace"}, LeaveEditor(to) PROVE StructInv'
  <2>1. /\ where' = to /\ busy' = FALSE /\ review' = Closed
        /\ applies' = [i \in DOMAIN applies |-> [applies[i] EXCEPT !.here = FALSE]]
        /\ UNCHANGED <<dbTable, meta, ops, stagings, leftover>>
    BY <1>6 DEF LeaveEditor
  <2>2. GoodOps(ops)'
    BY <2>1 DEF StructInv, GoodOps
  <2>3. applies' \in Seq(Batch)
    <3>1. Len(applies) \in Nat /\ DOMAIN applies = 1..Len(applies)
          /\ \A i \in DOMAIN applies : applies[i] \in Batch
      BY DEF StructInv
    <3>2. \A i \in DOMAIN applies : [applies[i] EXCEPT !.here = FALSE] \in Batch
      BY <3>1 DEF Batch
    <3>3. QED
      BY <2>1, <3>1, <3>2
  <2>4. QED
    BY <2>1, <2>2, <2>3 DEF StructInv
<1>7. CASE ReturnToEditor
  <2>1. where # "view" /\ where' = "view"
        /\ UNCHANGED <<dbTable, meta, ops, stagings, busy, applies, leftover, review>>
    BY <1>7 DEF ReturnToEditor
  <2>2. GoodOps(ops)'
    BY <2>1 DEF StructInv, GoodOps
  <2>3. QED
    BY <2>1, <2>2 DEF StructInv
<1>8. CASE UNCHANGED structVars
  <2>1. UNCHANGED <<dbTable, meta, ops, stagings, where, busy, applies, leftover, review>>
    BY <1>8 DEF structVars
  <2>2. GoodOps(ops)'
    BY <2>1 DEF StructInv, GoodOps
  <2>3. QED
    BY <2>1, <2>2 DEF StructInv
<1>9. QED
  BY <1>1, <1>2, <1>3, <1>4, <1>5, <1>6, <1>7, <1>8 DEF StructNext, StagesColumns, StagesIndexes

LEMMA StructBegins == StructInit => StructInv
<1> SUFFICES ASSUME StructInit PROVE StructInv
  OBVIOUS
<1> DEFINE columns == [i \in DOMAIN Columns |-> Column(Columns[i], FirstSetting)]
<1>1. columns \in Seq(ColumnRecord) \ {<<>>}
  <2>1. Len(Columns) \in Nat /\ DOMAIN Columns = 1..Len(Columns) /\ Len(Columns) # 0
        /\ \A i \in 1..Len(Columns) : Columns[i] \in ColumnName
    BY StructAssumption
  <2>2. \A i \in 1..Len(Columns) : Column(Columns[i], FirstSetting) \in ColumnRecord
    BY <2>1, StructAssumption DEF Column, ColumnRecord
  <2>3. columns \in Seq(ColumnRecord) /\ Len(columns) = Len(Columns)
    BY <2>1, <2>2
  <2>4. QED
    BY <2>1, <2>3
<1> HIDE DEF columns
<1>2. /\ dbTable = [columns |-> columns, indexes |-> Indexes] /\ meta = dbTable
      /\ ops = <<>> /\ stagings = 0 /\ where = "view" /\ busy = FALSE /\ applies = <<>>
      /\ review = Closed /\ leftover = FALSE
  BY DEF StructInit, columns
<1>3. dbTable \in TableRecord
  BY <1>1, <1>2, StructAssumption DEF TableRecord, IndexRecord
<1>4. GoodOps(ops) /\ Len(ops) <= MaxOps
  BY <1>2, NoOpsAreGood, StructAssumption DEF GoodOps
<1>5. stagings \in 0..MaxStagings /\ applies \in Seq(Batch)
  BY <1>2, StructAssumption
<1>6. QED
  BY <1>2, <1>3, <1>4, <1>5 DEF StructInv

\* The invariant says that the state is typed, and that each op has its card.
LEMMA StructShown == StructInv => StructTypeOK /\ IndexOpsHaveACard
<1> SUFFICES ASSUME StructInv PROVE StructTypeOK /\ IndexOpsHaveACard
  OBVIOUS
<1>1. StructTypeOK
  <2>1. ASSUME NEW t \in {dbTable, meta}
        PROVE  /\ ToSet(t.columns) \subseteq [name : ColumnName, setting : Setting]
               /\ t.columns # <<>>
               /\ ToSet(t.indexes) \subseteq [name : IndexName, column : ColumnName]
    <3>1. t.columns \in Seq(ColumnRecord) /\ t.columns # <<>> /\ t.indexes \in Seq(IndexRecord)
      BY DEF StructInv, TableRecord
    <3>2. ToSet(t.columns) \subseteq ColumnRecord /\ ToSet(t.indexes) \subseteq IndexRecord
      BY <3>1, OwnElements
    <3>3. QED
      BY <3>1, <3>2 DEF ColumnRecord, IndexRecord
  <2>2. QED
    BY <2>1 DEF StructInv, StructTypeOK
<1>2. ASSUME ~leftover, IndexNamesFresh
      PROVE  \A i \in DOMAIN ops :
               /\ ops[i].op = "dropIndex" =>
                    \E card \in ToSet(Cards) : card.dropped /\ card.name = ops[i].name /\ card.was = <<>>
               /\ ops[i].op = "replaceIndex" =>
                    \E card \in ToSet(Cards) : card.was = <<ops[i].from>> /\ card.name = ops[i].name
  <2>1. ops \in Seq(StagedOp) /\ meta.indexes \in Seq(IndexRecord) /\ Apart(ops, NamesOf(meta.indexes))
    BY <1>2 DEF StructInv, GoodOps, TableRecord
  <2>2. /\ DOMAIN ops = 1..Len(ops) /\ \A i \in 1..Len(ops) : ops[i] \in ToSet(ops)
    BY <2>1, OwnElements
  <2>3. NewNames(ops, NamesOf(meta.indexes))
    BY <1>2, <2>2 DEF IndexNamesFresh, NewNames
  <2>4. AllTold(Cards, ops, Len(ops))
    BY <2>1, <2>3, EveryOpIsTold DEF Cards
  <2>5. Cards \in Seq(IndexCard)
    <3>1. NamesOf(meta.indexes) \subseteq NamesOf(meta.indexes)
          /\ \A i \in 1..Len(ops) : ops[i].op = "replaceIndex" => ops[i].from \in NamesOf(meta.indexes)
      BY <2>1 DEF Apart, OnIndex, KnownAs
    <3>2. Cards \in Seq(KnownCards(NamesOf(meta.indexes)))
      BY <2>1, <3>1, CardsAreKnown DEF Cards
    <3>3. KnownCards(NamesOf(meta.indexes)) \subseteq IndexCard
      BY DEF KnownCards
    <3>4. Len(Cards) \in Nat /\ Cards \in [1..Len(Cards) -> KnownCards(NamesOf(meta.indexes))]
      BY <3>2
    <3>5. QED
      BY <3>3, <3>4
  <2>6. \A c \in 1..Len(Cards) : Cards[c] \in ToSet(Cards)
    BY <2>5, OwnElements
  <2>7. QED
    BY <2>2, <2>4, <2>6 DEF AllTold, Told
<1>3. QED
  BY <1>1, <1>2 DEF IndexOpsHaveACard

\* StructureView.tsx and ops.ts: whatever is staged, applied, discarded or left and come back
\* to, the table has columns and the editor on screen waits for a batch of its own.
THEOREM StructTypeCorrect == StructSpec => []StructTypeOK
<1>1. QED
  BY StructBegins, StructStep, StructShown, PTL DEF StructSpec

\* ops.ts withoutIndexOps: an index of the table has one staged op at most, with a card to take
\* it back on, for any tables and ops.
THEOREM EveryIndexOpHasACard == StructSpec => []IndexOpsHaveACard
<1>1. QED
  BY StructBegins, StructStep, StructShown, PTL DEF StructSpec

-----------------------------------------------------------------------------
(* What a replayed op makes of the rows (structure/ops.ts applyOpsToColumns).*)

\* The row once an op about its column is replayed, and the row of an added column.
RedoneRow(row, op) ==
  CASE op.op = "renameColumn" -> [row EXCEPT !.name = op.to]
    [] op.op = "change" -> [row EXCEPT !.setting = op.setting]
    [] OTHER -> [row EXCEPT !.dropped = TRUE]
NewRow(op) == [name |-> op.name, setting |-> op.setting, origin |-> <<>>, dropped |-> FALSE]

LEMMA RedoneFields ==
  ASSUME NEW row \in Row, NEW op \in StagedOp, op.op \in {"renameColumn", "change", "dropColumn"}
  PROVE  /\ RedoneRow(row, op) \in Row /\ RedoneRow(row, op).origin = row.origin
         /\ RedoneRow(row, op).name = IF op.op = "renameColumn" THEN op.to ELSE row.name
         /\ RedoneRow(row, op).setting = IF op.op = "change" THEN op.setting ELSE row.setting
         /\ RedoneRow(row, op).dropped = (op.op = "dropColumn" \/ row.dropped)
<1>1. CASE op.op = "renameColumn"
  <2>1. op.to \in ColumnName /\ RedoneRow(row, op) = [row EXCEPT !.name = op.to]
    BY <1>1, StagedFields DEF RedoneRow
  <2>2. QED
    BY <1>1, <2>1 DEF Row
<1>2. CASE op.op = "change"
  <2>1. op.setting \in Setting /\ RedoneRow(row, op) = [row EXCEPT !.setting = op.setting]
    BY <1>2, StagedFields DEF RedoneRow
  <2>2. QED
    BY <1>2, <2>1 DEF Row
<1>3. CASE op.op = "dropColumn"
  <2>1. RedoneRow(row, op) = [row EXCEPT !.dropped = TRUE]
    BY <1>3 DEF RedoneRow
  <2>2. QED
    BY <1>3, <2>1 DEF Row
<1>4. QED
  BY <1>1, <1>2, <1>3

LEMMA NewRowFields ==
  ASSUME NEW op \in StagedOp, op.op = "addColumn"
  PROVE  /\ NewRow(op) \in Row /\ NewRow(op).name = op.name /\ NewRow(op).setting = op.setting
         /\ NewRow(op).origin = <<>> /\ NewRow(op).dropped = FALSE
BY StagedFields DEF NewRow, Row

\* A replayed op adds a row, or changes one of the column it is about if there is one.
LEMMA RowsAfterOp ==
  ASSUME NEW rows \in Seq(Row), NEW op \in StagedOp
  PROVE  /\ op.op = "addColumn" => ReplayColumn(rows, op) = Append(rows, NewRow(op))
         /\ op.op # "addColumn" =>
              \/ /\ \A i \in 1..Len(rows) : rows[i].name \notin TargetColumn(op)
                 /\ ReplayColumn(rows, op) = rows
              \/ /\ op.op \in {"renameColumn", "change", "dropColumn"}
                 /\ \E i \in 1..Len(rows) :
                      /\ rows[i].name \in TargetColumn(op)
                      /\ ReplayColumn(rows, op) = WithAt(rows, i, RedoneRow(rows[i], op))
<1>1. Len(rows) \in Nat
  OBVIOUS
<1>2. CASE op.op = "addColumn"
  BY <1>2 DEF ReplayColumn, NewRow
<1> DEFINE Aimed(name) == {i \in 1..Len(rows) : rows[i].name = name}
           First(name) == IF Aimed(name) # {} THEN Min(Aimed(name)) ELSE 0
<1>3. ASSUME NEW name, TargetColumn(op) = {name}, op.op \in {"renameColumn", "change", "dropColumn"},
             ReplayColumn(rows, op)
               = IF First(name) = 0 THEN rows
                 ELSE WithAt(rows, First(name), RedoneRow(rows[First(name)], op))
      PROVE  \/ /\ \A i \in 1..Len(rows) : rows[i].name \notin TargetColumn(op)
                /\ ReplayColumn(rows, op) = rows
             \/ \E i \in 1..Len(rows) :
                  /\ rows[i].name \in TargetColumn(op)
                  /\ ReplayColumn(rows, op) = WithAt(rows, i, RedoneRow(rows[i], op))
  <2>1. Aimed(name) # {} => First(name) \in Aimed(name)
    BY <1>1, MinOfPositions
  <2>2. CASE Aimed(name) = {}
    <3>1. First(name) = 0 /\ \A i \in 1..Len(rows) : i \notin Aimed(name)
      BY <2>2
    <3>2. QED
      BY <1>3, <3>1
  <2>3. CASE Aimed(name) # {}
    <3>1. First(name) \in 1..Len(rows) /\ First(name) # 0 /\ rows[First(name)].name = name
      BY <2>1, <2>3
    <3>2. QED
      BY <1>3, <3>1
  <2>4. QED
    BY <2>2, <2>3
<1>4. CASE op.op = "renameColumn"
  <2>1. TargetColumn(op) = {op.from}
    BY <1>4 DEF TargetColumn
  <2>2. ReplayColumn(rows, op)
          = IF First(op.from) = 0 THEN rows
            ELSE WithAt(rows, First(op.from), RedoneRow(rows[First(op.from)], op))
    BY <1>4 DEF ReplayColumn, AtRow, AtFirst, SelectInSeq, WithAt, RedoneRow
  <2> HIDE DEF First
  <2>3. QED
    BY <1>3, <1>4, <2>1, <2>2
<1>5. CASE op.op = "change"
  <2>1. TargetColumn(op) = {op.column}
    BY <1>5 DEF TargetColumn
  <2>2. ReplayColumn(rows, op)
          = IF First(op.column) = 0 THEN rows
            ELSE WithAt(rows, First(op.column), RedoneRow(rows[First(op.column)], op))
    BY <1>5 DEF ReplayColumn, AtRow, AtFirst, SelectInSeq, WithAt, RedoneRow
  <2> HIDE DEF First
  <2>3. QED
    BY <1>3, <1>5, <2>1, <2>2
<1>6. CASE op.op = "dropColumn"
  <2>1. TargetColumn(op) = {op.name}
    BY <1>6 DEF TargetColumn
  <2>2. ReplayColumn(rows, op)
          = IF First(op.name) = 0 THEN rows
            ELSE WithAt(rows, First(op.name), RedoneRow(rows[First(op.name)], op))
    BY <1>6 DEF ReplayColumn, AtRow, AtFirst, SelectInSeq, WithAt, RedoneRow
  <2> HIDE DEF First
  <2>3. QED
    BY <1>3, <1>6, <2>1, <2>2
<1>7. CASE op.op \notin {"addColumn", "renameColumn", "change", "dropColumn"}
  BY <1>7 DEF ReplayColumn, TargetColumn
<1>8. QED
  BY <1>2, <1>4, <1>5, <1>6, <1>7

\* A row is changed, and the others are as they were.
LEMMA ChangedRow ==
  ASSUME NEW rows \in Seq(Row), NEW i \in 1..Len(rows), NEW x \in Row
  PROVE  /\ WithAt(rows, i, x) \in Seq(Row) /\ Len(WithAt(rows, i, x)) = Len(rows)
         /\ WithAt(rows, i, x)[i] = x
         /\ \A c \in 1..Len(rows) : c # i => WithAt(rows, i, x)[c] = rows[c]
<1>1. Len(rows) \in Nat /\ DOMAIN rows = 1..Len(rows) /\ rows \in [1..Len(rows) -> Row]
  OBVIOUS
<1>2. WithAt(rows, i, x) \in [1..Len(rows) -> Row]
  BY <1>1 DEF WithAt
<1>3. WithAt(rows, i, x) \in Seq(Row) /\ Len(WithAt(rows, i, x)) = Len(rows)
  BY <1>1, <1>2
<1>4. WithAt(rows, i, x)[i] = x
  BY <1>1 DEF WithAt
<1>5. \A c \in 1..Len(rows) : c # i => WithAt(rows, i, x)[c] = rows[c]
  BY <1>1 DEF WithAt
<1>6. QED
  BY <1>3, <1>4, <1>5

LEMMA DrawnRowsAre ==
  ASSUME NEW columns \in Seq(ColumnRecord)
  PROVE  /\ DrawnRows(columns) \in Seq(Row) /\ Len(DrawnRows(columns)) = Len(columns)
         /\ Len(columns) \in Nat /\ DOMAIN columns = 1..Len(columns)
         /\ \A i \in 1..Len(columns) :
              /\ columns[i] \in ColumnRecord
              /\ DrawnRows(columns)[i].name = columns[i].name
              /\ DrawnRows(columns)[i].setting = columns[i].setting
              /\ DrawnRows(columns)[i].origin = <<columns[i].name>>
              /\ DrawnRows(columns)[i].dropped = FALSE
<1>1. Len(columns) \in Nat /\ DOMAIN columns = 1..Len(columns)
      /\ \A i \in 1..Len(columns) : columns[i] \in ColumnRecord
  OBVIOUS
<1>2. ASSUME NEW i \in 1..Len(columns)
      PROVE  /\ DrawnRows(columns)[i] \in Row
             /\ DrawnRows(columns)[i].name = columns[i].name
             /\ DrawnRows(columns)[i].setting = columns[i].setting
             /\ DrawnRows(columns)[i].origin = <<columns[i].name>>
             /\ DrawnRows(columns)[i].dropped = FALSE
  BY <1>1 DEF DrawnRows, ColumnRecord, Row
<1>3. DrawnRows(columns) \in [1..Len(columns) -> Row]
  BY <1>1, <1>2 DEF DrawnRows
<1>4. DrawnRows(columns) \in Seq(Row) /\ Len(DrawnRows(columns)) = Len(columns)
  BY <1>1, <1>3
<1>5. QED
  BY <1>1, <1>2, <1>4

-----------------------------------------------------------------------------
\* Every row is of an added column or of one of the table.
RowOf(B) == {row \in Row : row.origin # <<>> => row.origin[1] \in B}

LEMMA RowsAreOfTheTable ==
  ASSUME NEW columns \in Seq(ColumnRecord), NEW staged \in Seq(StagedOp)
  PROVE  applyOpsToColumns(columns, staged) \in Seq(RowOf(NamesOf(columns)))
<1> DEFINE B == NamesOf(columns)
<1>1. DrawnRows(columns) \in Seq(RowOf(B))
  <2>1. \A i \in 1..Len(columns) : DrawnRows(columns)[i].origin[1] = columns[i].name
    <3>1. \A x : <<x>>[1] = x
      OBVIOUS
    <3>2. QED
      BY <3>1, DrawnRowsAre
  <2>2. \A i \in 1..Len(columns) : columns[i].name \in B
    BY DEF NamesOf
  <2>3. DrawnRows(columns) \in Seq(Row) /\ Len(DrawnRows(columns)) = Len(columns)
    BY DrawnRowsAre
  <2>4. \A i \in 1..Len(DrawnRows(columns)) : DrawnRows(columns)[i] \in Row
    BY <2>3
  <2>5. \A i \in 1..Len(DrawnRows(columns)) : DrawnRows(columns)[i] \in RowOf(B)
    BY <2>1, <2>2, <2>3, <2>4 DEF RowOf
  <2> HIDE DEF B
  <2>6. QED
    BY ONLY <2>3, <2>5
<1> HIDE DEF B
<1>2. ASSUME NEW rows \in Seq(RowOf(B)), NEW k \in 1..Len(staged)
      PROVE  ReplayColumn(rows, staged[k]) \in Seq(RowOf(B))
  <2> DEFINE op == staged[k]
  <2>1. op \in StagedOp
    OBVIOUS
  <2> HIDE DEF op
  <2>2. /\ Len(rows) \in Nat /\ \A i \in 1..Len(rows) : rows[i] \in RowOf(B) /\ rows[i] \in Row
    BY DEF RowOf
  <2>3. rows \in Seq(Row)
    BY <2>2
  <2>4. CASE op.op = "addColumn"
    <3>1. NewRow(op) \in RowOf(B)
      BY <2>1, <2>4, NewRowFields DEF RowOf
    <3>2. ReplayColumn(rows, op) = Append(rows, NewRow(op))
      BY <2>1, <2>3, <2>4, RowsAfterOp
    <3>3. Append(rows, NewRow(op)) \in Seq(RowOf(B))
      BY <3>1, AppendPlaces
    <3>4. QED
      BY <3>2, <3>3 DEF op
  <2>5. CASE ReplayColumn(rows, op) = rows
    BY <2>5 DEF op
  <2>6. ASSUME NEW i \in 1..Len(rows), op.op \in {"renameColumn", "change", "dropColumn"},
               ReplayColumn(rows, op) = WithAt(rows, i, RedoneRow(rows[i], op))
        PROVE  ReplayColumn(rows, op) \in Seq(RowOf(B))
    <3> DEFINE x == RedoneRow(rows[i], op)
    <3>1. x \in Row /\ x.origin = rows[i].origin
      BY <2>1, <2>2, <2>6, RedoneFields
    <3>2. x \in RowOf(B)
      BY <2>2, <3>1 DEF RowOf
    <3> HIDE DEF x
    <3>3. /\ WithAt(rows, i, x) \in Seq(Row) /\ Len(WithAt(rows, i, x)) = Len(rows)
          /\ WithAt(rows, i, x)[i] = x
          /\ \A c \in 1..Len(rows) : c # i => WithAt(rows, i, x)[c] = rows[c]
      BY <2>3, <3>1, ChangedRow
    <3>4. \A c \in 1..Len(WithAt(rows, i, x)) : WithAt(rows, i, x)[c] \in RowOf(B)
      BY <2>2, <3>2, <3>3
    <3>5. QED
      BY <2>6, <3>3, <3>4 DEF x
  <2>7. QED
    BY <2>1, <2>3, <2>4, <2>5, <2>6, RowsAfterOp DEF op
<1>3. RowDeck!Folded(DrawnRows(columns), staged) \in Seq(RowOf(B))
  BY ONLY <1>1, <1>2, staged \in Seq(StagedOp), RowDeck!FoldKeeps
<1>4. QED
  BY <1>3, RowsAreFolded DEF B

-----------------------------------------------------------------------------
(* The names ops give and give up: those kept or given are on the screen.    *)

\* The name an op gives a column, and the column whose name it gives up.
Gives(op) ==
  CASE op.op = "addColumn" -> {op.name}
    [] op.op = "renameColumn" -> {op.to}
    [] OTHER -> {}
Frees(op) == IF op.op = "renameColumn" THEN {op.from} ELSE {}
ChangeOf(op) == IF op.op = "change" THEN {op.column} ELSE {}

IsGiven(staged, k, b) == \E j \in 1..k : b \in Gives(staged[j])
IsFreed(staged, k, b) == \E j \in 1..k : b \in Frees(staged[j])

\* A column is renamed once and changed once at most, and no two are given one name.
Once(staged, B) ==
  /\ \A i \in 1..Len(staged) : Frees(staged[i]) \subseteq B
  /\ \A i, j \in 1..Len(staged) : i # j =>
       /\ Frees(staged[i]) \cap Frees(staged[j]) = {}
       /\ ChangeOf(staged[i]) \cap ChangeOf(staged[j]) = {}
       /\ Gives(staged[i]) \cap Gives(staged[j]) = {}

\* The name of a column is given only once the column has given it up, but for some names.
GivenUp(staged, B, X) ==
  \A i \in 1..Len(staged) : \A b \in Gives(staged[i]) :
    b \in B /\ b \notin X => IsFreed(staged, Len(staged), b)

NamesApart(staged, B) == Once(staged, B) /\ GivenUp(staged, B, {})

\* What a new name must be: of no column as they will be.
Free(staged, B, b) ==
  ~IsGiven(staged, Len(staged), b) /\ (b \in B => IsFreed(staged, Len(staged), b))

\* An op that is not of a kind gives, frees and changes nothing.
LEMMA NamesOfOps ==
  ASSUME NEW op \in StagedOp
  PROVE  /\ op.op = "addColumn" => Gives(op) = {op.name} /\ Frees(op) = {} /\ ChangeOf(op) = {}
         /\ op.op = "renameColumn" =>
              Gives(op) = {op.to} /\ Frees(op) = {op.from} /\ ChangeOf(op) = {}
         /\ op.op = "change" => Gives(op) = {} /\ Frees(op) = {} /\ ChangeOf(op) = {op.column}
         /\ op.op \notin {"addColumn", "renameColumn", "change"} =>
              Gives(op) = {} /\ Frees(op) = {} /\ ChangeOf(op) = {}
BY DEF Gives, Frees, ChangeOf

-----------------------------------------------------------------------------
\* After k ops a name that is kept or given is on a row, and one that is both is on two.
OnRows(rows, staged, k, B) ==
  \A b :
    /\ (b \in B /\ ~IsFreed(staged, k, b)) \/ IsGiven(staged, k, b) =>
         \E i \in 1..Len(rows) : rows[i].name = b
    /\ (b \in B /\ ~IsFreed(staged, k, b)) /\ IsGiven(staged, k, b) =>
         \E i, j \in 1..Len(rows) : i # j /\ rows[i].name = b /\ rows[j].name = b

LEMMA OneMoreOp ==
  ASSUME NEW staged, NEW k \in Nat, NEW b
  PROVE  /\ IsGiven(staged, k + 1, b) <=> IsGiven(staged, k, b) \/ b \in Gives(staged[k + 1])
         /\ IsFreed(staged, k + 1, b) <=> IsFreed(staged, k, b) \/ b \in Frees(staged[k + 1])
<1>1. \A j : j \in 1..(k + 1) <=> j \in 1..k \/ j = k + 1
  OBVIOUS
<1>2. IsGiven(staged, k + 1, b) <=> IsGiven(staged, k, b) \/ b \in Gives(staged[k + 1])
  BY <1>1 DEF IsGiven
<1>3. IsFreed(staged, k + 1, b) <=> IsFreed(staged, k, b) \/ b \in Frees(staged[k + 1])
  BY <1>1 DEF IsFreed
<1>4. QED
  BY <1>2, <1>3

LEMMA OnRowsNext ==
  ASSUME NEW rows \in Seq(Row), NEW staged \in Seq(StagedOp), NEW B,
         NEW k \in Nat, k < Len(staged), Once(staged, B), OnRows(rows, staged, k, B)
  PROVE  OnRows(ReplayColumn(rows, staged[k + 1]), staged, k + 1, B)
<1> DEFINE op == staged[k + 1]
           next == ReplayColumn(rows, op)
<1>1. /\ k + 1 \in 1..Len(staged) /\ op \in StagedOp /\ Len(rows) \in Nat
      /\ \A c \in 1..Len(rows) : rows[c] \in Row
      /\ \A j \in 1..k : j # k + 1 /\ j \in 1..Len(staged)
  OBVIOUS
<1> SUFFICES OnRows(next, staged, k + 1, B)
  OBVIOUS
<1> HIDE DEF op, next
<1>2. \A b : /\ IsGiven(staged, k + 1, b) <=> IsGiven(staged, k, b) \/ b \in Gives(op)
             /\ IsFreed(staged, k + 1, b) <=> IsFreed(staged, k, b) \/ b \in Frees(op)
  BY OneMoreOp DEF op
<1>3. \A b \in Gives(op) : ~IsGiven(staged, k, b)
  BY <1>1 DEF Once, IsGiven, op
<1>4. \A b \in Frees(op) : b \in B /\ ~IsFreed(staged, k, b)
  BY <1>1 DEF Once, IsFreed, op
<1>5. ASSUME Len(next) = Len(rows), \A i \in 1..Len(rows) : next[i].name = rows[i].name,
             Gives(op) = {}, Frees(op) = {}
      PROVE  OnRows(next, staged, k + 1, B)
  BY <1>2, <1>5, SMTT(30) DEF OnRows
<1>6. CASE op.op = "addColumn"
  <2>1. /\ Gives(op) = {op.name} /\ Frees(op) = {} /\ NewRow(op) \in Row /\ NewRow(op).name = op.name
        /\ next = Append(rows, NewRow(op))
    BY <1>1, <1>6, NamesOfOps, NewRowFields, RowsAfterOp DEF next
  <2>2. /\ Len(next) = Len(rows) + 1 /\ next[Len(rows) + 1] = NewRow(op)
        /\ \A i \in 1..Len(rows) : next[i] = rows[i]
    BY <2>1, AppendPlaces
  <2>3. /\ Len(rows) + 1 \in 1..Len(next) /\ next[Len(rows) + 1].name = op.name
        /\ \A i \in 1..Len(rows) : i \in 1..Len(next) /\ i # Len(rows) + 1 /\ next[i].name = rows[i].name
    BY <1>1, <2>1, <2>2
  <2>4. ASSUME NEW b, (b \in B /\ ~IsFreed(staged, k + 1, b)) \/ IsGiven(staged, k + 1, b)
        PROVE  \E i \in 1..Len(next) : next[i].name = b
    <3>1. CASE b = op.name
      BY <2>3, <3>1
    <3>2. CASE b # op.name
      <4>1. PICK i \in 1..Len(rows) : rows[i].name = b
        BY <1>2, <2>1, <2>4, <3>2 DEF OnRows
      <4>2. QED
        BY <2>3, <4>1
    <3>3. QED
      BY <3>1, <3>2
  <2>5. ASSUME NEW b, b \in B, ~IsFreed(staged, k + 1, b), IsGiven(staged, k + 1, b)
        PROVE  \E i, j \in 1..Len(next) : i # j /\ next[i].name = b /\ next[j].name = b
    <3>1. ~IsFreed(staged, k, b)
      BY <1>2, <2>5
    <3>2. CASE b = op.name
      <4>1. PICK i \in 1..Len(rows) : rows[i].name = b
        BY <2>5, <3>1 DEF OnRows
      <4>2. QED
        BY <2>3, <3>2, <4>1
    <3>3. CASE b # op.name
      <4>1. PICK i \in 1..Len(rows), j \in 1..Len(rows) : i # j /\ rows[i].name = b /\ rows[j].name = b
        BY <1>2, <2>1, <2>5, <3>1, <3>3 DEF OnRows
      <4>2. QED
        BY <2>3, <4>1
    <3>4. QED
      BY <3>2, <3>3
  <2>6. QED
    BY <2>4, <2>5 DEF OnRows
<1>7. CASE op.op = "renameColumn"
  <2>1. Gives(op) = {op.to} /\ Frees(op) = {op.from} /\ TargetColumn(op) = {op.from}
    BY <1>1, <1>7, NamesOfOps DEF TargetColumn
  <2>2. \E i \in 1..Len(rows) : rows[i].name = op.from
    BY <1>4, <2>1 DEF OnRows
  <2>3. PICK i0 \in 1..Len(rows) :
          rows[i0].name = op.from /\ next = WithAt(rows, i0, RedoneRow(rows[i0], op))
    BY <1>1, <1>7, <2>1, <2>2, RowsAfterOp DEF next
  <2>4. RedoneRow(rows[i0], op) \in Row /\ RedoneRow(rows[i0], op).name = op.to
    BY <1>1, <1>7, RedoneFields
  <2>5. /\ Len(next) = Len(rows) /\ next[i0].name = op.to
        /\ \A i \in 1..Len(rows) : i # i0 => next[i].name = rows[i].name
    BY <2>3, <2>4, ChangedRow
  <2>6. ASSUME NEW b, (b \in B /\ ~IsFreed(staged, k + 1, b)) \/ IsGiven(staged, k + 1, b)
        PROVE  \E i \in 1..Len(next) : next[i].name = b
    <3>1. CASE b = op.to
      BY <2>5, <3>1
    <3>2. CASE b # op.to /\ b = op.from
      <4>1. b \in B /\ ~IsFreed(staged, k, b) /\ IsGiven(staged, k, b)
        BY <1>2, <1>4, <2>1, <2>6, <3>2
      <4>2. PICK i \in 1..Len(rows), j \in 1..Len(rows) : i # j /\ rows[i].name = b /\ rows[j].name = b
        BY <4>1 DEF OnRows
      <4>3. i # i0 \/ j # i0
        BY <4>2
      <4>4. QED
        BY <2>5, <4>2, <4>3
    <3>3. CASE b # op.to /\ b # op.from
      <4>1. PICK i \in 1..Len(rows) : rows[i].name = b
        BY <1>2, <2>1, <2>6, <3>3 DEF OnRows
      <4>2. i # i0
        BY <2>3, <3>3, <4>1
      <4>3. QED
        BY <2>5, <4>1, <4>2
    <3>4. QED
      BY <3>1, <3>2, <3>3
  <2>7. ASSUME NEW b, b \in B, ~IsFreed(staged, k + 1, b), IsGiven(staged, k + 1, b)
        PROVE  \E i, j \in 1..Len(next) : i # j /\ next[i].name = b /\ next[j].name = b
    <3>1. ~IsFreed(staged, k, b) /\ b # op.from
      BY <1>2, <2>1, <2>7
    <3>2. CASE b = op.to
      <4>1. PICK i \in 1..Len(rows) : rows[i].name = b
        BY <2>7, <3>1 DEF OnRows
      <4>2. i # i0
        BY <2>3, <3>1, <4>1
      <4>3. QED
        BY <2>5, <3>2, <4>1, <4>2
    <3>3. CASE b # op.to
      <4>1. IsGiven(staged, k, b)
        BY <1>2, <2>1, <2>7, <3>3
      <4>2. PICK i \in 1..Len(rows), j \in 1..Len(rows) : i # j /\ rows[i].name = b /\ rows[j].name = b
        BY <2>7, <3>1, <4>1 DEF OnRows
      <4>3. i # i0 /\ j # i0
        BY <2>3, <3>1, <4>2
      <4>4. QED
        BY <2>5, <4>2, <4>3
    <3>4. QED
      BY <3>2, <3>3
  <2>8. QED
    BY <2>6, <2>7 DEF OnRows
<1>8. CASE op.op \notin {"addColumn", "renameColumn"}
  <2>1. Gives(op) = {} /\ Frees(op) = {}
    BY <1>8 DEF Gives, Frees
  <2>2. CASE next = rows
    BY <1>5, <2>1, <2>2
  <2>3. ASSUME NEW i \in 1..Len(rows), op.op \in {"change", "dropColumn"},
               next = WithAt(rows, i, RedoneRow(rows[i], op))
        PROVE  OnRows(next, staged, k + 1, B)
    <3>1. RedoneRow(rows[i], op) \in Row /\ RedoneRow(rows[i], op).name = rows[i].name
      BY <1>1, <2>3, RedoneFields
    <3>2. /\ Len(next) = Len(rows) /\ next[i] = RedoneRow(rows[i], op)
          /\ \A c \in 1..Len(rows) : c # i => next[c] = rows[c]
      BY <2>3, <3>1, ChangedRow
    <3>3. \A c \in 1..Len(rows) : next[c].name = rows[c].name
      BY <3>1, <3>2
    <3>4. QED
      BY <1>5, <2>1, <3>2, <3>3
  <2>4. \/ next = rows
        \/ /\ op.op \in {"renameColumn", "change", "dropColumn"}
           /\ \E i \in 1..Len(rows) : next = WithAt(rows, i, RedoneRow(rows[i], op))
    BY <1>1, <1>8, RowsAfterOp DEF next
  <2>5. QED
    BY <1>8, <2>2, <2>3, <2>4
<1>9. QED
  BY <1>6, <1>7, <1>8

\* A name that is not on the screen is free.
LEMMA NotShownIsFree ==
  ASSUME NEW columns \in Seq(ColumnRecord), NEW staged \in Seq(StagedOp),
         Once(staged, NamesOf(columns)), NEW name,
         name \notin NamesOf(applyOpsToColumns(columns, staged))
  PROVE  Free(staged, NamesOf(columns), name)
<1> DEFINE B == NamesOf(columns)
           n == Len(staged)
<1>1. n \in Nat
  OBVIOUS
<1>2. PICK t : RowDeck!Runs(t, DrawnRows(columns), staged)
               /\ t[n] = RowDeck!Folded(DrawnRows(columns), staged)
  BY RowDeck!FoldRuns
<1>3. t[0] = DrawnRows(columns) /\ \A k \in 1..n : t[k] = ReplayColumn(t[k - 1], staged[k])
  BY <1>2 DEF RowDeck!Runs
<1> HIDE DEF B, n
<1> DEFINE Good(k) == t[k] \in Seq(Row) /\ OnRows(t[k], staged, k, B)
           G == {k \in 0..n : Good(k)}
<1>4. Good(0)
  <2>1. t[0] \in Seq(Row)
    BY <1>3, DrawnRowsAre
  <2>2. \A b : ~IsGiven(staged, 0, b)
    BY DEF IsGiven
  <2>3. ASSUME NEW b \in B PROVE \E i \in 1..Len(t[0]) : t[0][i].name = b
    <3>1. PICK i \in DOMAIN columns : columns[i].name = b
      BY DEF B, NamesOf
    <3>2. i \in 1..Len(columns) /\ Len(t[0]) = Len(columns) /\ t[0][i].name = columns[i].name
      BY <1>3, DrawnRowsAre
    <3>3. QED
      BY <3>1, <3>2
  <2>4. QED
    BY <2>1, <2>2, <2>3 DEF OnRows
<1>5. ASSUME NEW k \in 0..(n - 1), Good(k) PROVE Good(k + 1)
  <2>1. /\ k \in Nat /\ k < Len(staged) /\ k + 1 \in 1..n /\ (k + 1) - 1 = k
        /\ staged[k + 1] \in StagedOp
    BY <1>1 DEF n
  <2>2. t[k + 1] = ReplayColumn(t[k], staged[k + 1])
    BY <1>3, <2>1
  <2>3. t[k + 1] \in Seq(Row)
    BY <1>5, <2>1, <2>2, RowsStep
  <2>4. OnRows(t[k + 1], staged, k + 1, B)
    BY <1>5, <2>1, <2>2, OnRowsNext DEF B
  <2>5. QED
    BY <2>3, <2>4
<1>6. 0..n \subseteq G
  <2>1. 0 \in G
    BY <1>1, <1>4
  <2>2. ASSUME NEW k \in 0..(n - 1), k \in G PROVE k + 1 \in G
    BY <1>1, <1>5, <2>2
  <2>3. QED
    BY <1>1, <2>1, <2>2, CountingUp
<1>7. n \in G
  BY <1>1, <1>6
<1>8. applyOpsToColumns(columns, staged) \in Seq(Row)
      /\ OnRows(applyOpsToColumns(columns, staged), staged, n, B)
  BY <1>2, <1>7, RowsAreFolded
<1>9. \A i \in 1..Len(applyOpsToColumns(columns, staged)) :
        applyOpsToColumns(columns, staged)[i].name # name
  <2>1. DOMAIN applyOpsToColumns(columns, staged) = 1..Len(applyOpsToColumns(columns, staged))
    BY <1>8
  <2>2. QED
    BY <2>1 DEF NamesOf
<1>10. QED
  BY <1>8, <1>9 DEF OnRows, Free, B, n

-----------------------------------------------------------------------------
(* Selections, additions and edits of ops keep the names apart.              *)

\* Ops are taken out; the names the renames among them freed are freed no more.
LEMMA SelectedApart ==
  ASSUME NEW staged \in Seq(StagedOp), NEW B, NEW X, NEW T, NamesApart(staged, B),
         \A j \in 1..Len(staged) : staged[j] \notin T => Frees(staged[j]) \subseteq X
  PROVE  LET sel == OnlyIn(staged, T)
         IN  /\ sel \in Seq(StagedOp) /\ \A i \in 1..Len(sel) : sel[i] \in T
             /\ Once(sel, B) /\ GivenUp(sel, B, X)
             /\ \A b : IsGiven(sel, Len(sel), b) => IsGiven(staged, Len(staged), b)
             /\ \A b : IsFreed(staged, Len(staged), b) => b \in X \/ IsFreed(sel, Len(sel), b)
<1> DEFINE sel == OnlyIn(staged, T)
           n == Len(sel)
<1>1. sel \in Seq(StagedOp) /\ n \in Nat
  <2>1. sel \in Seq(StagedOp)
    BY SelectionIsOf
  <2> HIDE DEF sel
  <2>2. QED
    BY <2>1
<1>2. PICK at : SelectedAt(at, staged, T)
  BY OnlyInPlaces
<1>3. /\ \A i \in 1..n : at[i] \in 1..Len(staged) /\ sel[i] \in T /\ sel[i] = staged[at[i]]
      /\ \A i, j \in 1..n : i < j => at[i] < at[j]
      /\ \A j \in 1..Len(staged) : staged[j] \in T => \E i \in 1..n : at[i] = j
  BY <1>2 DEF SelectedAt
<1> HIDE DEF sel, n
<1>4. ASSUME NEW i \in 1..n, NEW j \in 1..n, i # j PROVE at[i] # at[j]
  <2>1. i < j \/ j < i
    BY <1>1, <1>4
  <2>2. at[i] < at[j] \/ at[j] < at[i]
    BY <1>3, <2>1
  <2>3. at[i] \in Int /\ at[j] \in Int
    BY <1>3
  <2>4. QED
    BY <2>2, <2>3
<1>5. Once(staged, B) /\ GivenUp(staged, B, {})
  BY DEF NamesApart
<1>6. Once(sel, B)
  <2>1. \A i \in 1..n : Frees(sel[i]) \subseteq B
    BY <1>3, <1>5 DEF Once
  <2>2. ASSUME NEW i \in 1..n, NEW j \in 1..n, i # j
        PROVE  /\ Frees(sel[i]) \cap Frees(sel[j]) = {}
               /\ ChangeOf(sel[i]) \cap ChangeOf(sel[j]) = {}
               /\ Gives(sel[i]) \cap Gives(sel[j]) = {}
    <3>1. at[i] \in 1..Len(staged) /\ at[j] \in 1..Len(staged) /\ at[i] # at[j]
          /\ sel[i] = staged[at[i]] /\ sel[j] = staged[at[j]]
      BY <1>3, <1>4, <2>2
    <3>2. QED
      BY <1>5, <3>1 DEF Once
  <2>3. QED
    BY <2>1, <2>2 DEF Once, n
<1>7. ASSUME NEW b, IsFreed(staged, Len(staged), b), b \notin X PROVE IsFreed(sel, n, b)
  <2>1. PICK j \in 1..Len(staged) : b \in Frees(staged[j])
    BY <1>7 DEF IsFreed
  <2>2. staged[j] \in T
    BY <1>7, <2>1
  <2>3. PICK i \in 1..n : at[i] = j
    BY <1>3, <2>2
  <2>4. b \in Frees(sel[i])
    BY <1>3, <2>1, <2>3
  <2>5. QED
    BY <2>4 DEF IsFreed
<1>8. ASSUME NEW b, IsGiven(sel, n, b) PROVE IsGiven(staged, Len(staged), b)
  <2>1. PICK i \in 1..n : b \in Gives(sel[i])
    BY <1>8 DEF IsGiven
  <2>2. at[i] \in 1..Len(staged) /\ sel[i] = staged[at[i]]
    BY <1>3
  <2>3. QED
    BY <2>1, <2>2 DEF IsGiven
<1>9. GivenUp(sel, B, X)
  <2>1. ASSUME NEW i \in 1..n, NEW b \in Gives(sel[i]), b \in B, b \notin X PROVE IsFreed(sel, n, b)
    <3>1. at[i] \in 1..Len(staged) /\ sel[i] = staged[at[i]]
      BY <1>3
    <3>2. IsFreed(staged, Len(staged), b)
      BY <1>5, <2>1, <3>1 DEF GivenUp
    <3>3. QED
      BY <1>7, <2>1, <3>2
  <2>2. QED
    BY <2>1 DEF GivenUp, n
<1>10. QED
  BY <1>1, <1>3, <1>6, <1>7, <1>8, <1>9 DEF sel, n

\* An op is staged that gives no name there is, and frees what the ops taken out had.
Fits(staged, B, op) ==
  /\ Frees(op) \subseteq B
  /\ \A i \in 1..Len(staged) :
       /\ Frees(staged[i]) \cap Frees(op) = {}
       /\ ChangeOf(staged[i]) \cap ChangeOf(op) = {}
       /\ Gives(staged[i]) \cap Gives(op) = {}
  /\ \A b \in Gives(op) : b \in B => b \in Frees(op) \/ IsFreed(staged, Len(staged), b)

LEMMA AppendedApart ==
  ASSUME NEW staged \in Seq(StagedOp), NEW B, NEW X, Once(staged, B), GivenUp(staged, B, X),
         NEW op \in StagedOp, X \subseteq Frees(op), Fits(staged, B, op)
  PROVE  NamesApart(Append(staged, op), B)
<1> DEFINE list == Append(staged, op)
           n == Len(staged)
<1>1. /\ list \in Seq(StagedOp) /\ Len(list) = n + 1 /\ n \in Nat
      /\ \A i \in 1..n : list[i] = staged[i]
      /\ list[n + 1] = op
      /\ \A i : i \in 1..(n + 1) <=> i \in 1..n \/ i = n + 1
      /\ \A i \in 1..n : i # n + 1
  BY AppendPlaces
<1> HIDE DEF list, n
<1>2. /\ Frees(op) \subseteq B
      /\ \A i \in 1..n :
           /\ Frees(staged[i]) \cap Frees(op) = {}
           /\ ChangeOf(staged[i]) \cap ChangeOf(op) = {}
           /\ Gives(staged[i]) \cap Gives(op) = {}
      /\ \A b \in Gives(op) : b \in B => b \in Frees(op) \/ IsFreed(staged, n, b)
  BY DEF Fits, n
<1>3. \A b : (IsFreed(staged, n, b) \/ b \in Frees(op)) => IsFreed(list, n + 1, b)
  BY <1>1 DEF IsFreed
<1>4. Once(list, B)
  <2>1. \A i \in 1..(n + 1) : Frees(list[i]) \subseteq B
    BY <1>1, <1>2 DEF Once, n
  <2>2. ASSUME NEW i \in 1..(n + 1), NEW j \in 1..(n + 1), i # j
        PROVE  /\ Frees(list[i]) \cap Frees(list[j]) = {}
               /\ ChangeOf(list[i]) \cap ChangeOf(list[j]) = {}
               /\ Gives(list[i]) \cap Gives(list[j]) = {}
    <3>1. CASE i \in 1..n /\ j \in 1..n
      BY <1>1, <2>2, <3>1 DEF Once, n
    <3>2. CASE i \in 1..n /\ j = n + 1
      BY <1>1, <1>2, <3>2
    <3>3. CASE i = n + 1 /\ j \in 1..n
      BY <1>1, <1>2, <3>3
    <3>4. QED
      BY <1>1, <2>2, <3>1, <3>2, <3>3
  <2>3. QED
    BY <1>1, <2>1, <2>2 DEF Once
<1>5. GivenUp(list, B, {})
  <2>1. ASSUME NEW i \in 1..(n + 1), NEW b \in Gives(list[i]), b \in B PROVE IsFreed(list, n + 1, b)
    <3>1. CASE i \in 1..n
      <4>1. b \in X \/ IsFreed(staged, n, b)
        BY <1>1, <2>1, <3>1 DEF GivenUp, n
      <4>2. QED
        BY <1>3, <4>1
    <3>2. CASE i = n + 1
      BY <1>1, <1>2, <1>3, <2>1, <3>2
    <3>3. QED
      BY <1>1, <3>1, <3>2
  <2>2. QED
    BY <1>1, <2>1 DEF GivenUp
<1>6. QED
  BY <1>4, <1>5 DEF NamesApart, list

\* Nothing was given the names that are freed no more.
LEMMA NothingTaken ==
  ASSUME NEW staged, NEW B, NEW X, Once(staged, B), GivenUp(staged, B, X),
         \A b \in X : ~IsGiven(staged, Len(staged), b)
  PROVE  NamesApart(staged, B)
BY DEF NamesApart, GivenUp, IsGiven

\* An added column is given another name, one that is free.
LEMMA EditedApart ==
  ASSUME NEW staged, NEW B, NamesApart(staged, B), NEW list, Len(list) = Len(staged), NEW old, NEW to,
         \A i \in 1..Len(staged) :
           /\ Frees(list[i]) = Frees(staged[i]) /\ ChangeOf(list[i]) = ChangeOf(staged[i])
           /\ \/ Gives(list[i]) = Gives(staged[i])
              \/ Gives(staged[i]) = {old} /\ Gives(list[i]) = {to} /\ Free(staged, B, to)
  PROVE  NamesApart(list, B)
<1> DEFINE n == Len(staged)
<1>1. Once(staged, B) /\ GivenUp(staged, B, {}) /\ Len(list) = n
  BY DEF NamesApart
<1> HIDE DEF n
<1>2. /\ \A i \in 1..n :
           /\ Frees(list[i]) = Frees(staged[i]) /\ ChangeOf(list[i]) = ChangeOf(staged[i])
           /\ \/ Gives(list[i]) = Gives(staged[i])
              \/ Gives(staged[i]) = {old} /\ Gives(list[i]) = {to} /\ Free(staged, B, to)
  BY DEF n
<1>3. \A b : IsFreed(staged, n, b) => IsFreed(list, n, b)
  BY <1>2 DEF IsFreed
<1>4. Free(staged, B, to) => /\ \A i \in 1..n : to \notin Gives(staged[i])
                             /\ to \in B => IsFreed(staged, n, to)
  BY DEF Free, IsGiven, n
<1>5. Once(list, B)
  <2>1. \A i \in 1..n : Frees(list[i]) \subseteq B
    BY <1>1, <1>2 DEF Once, n
  <2>2. ASSUME NEW i \in 1..n, NEW j \in 1..n, i # j
        PROVE  /\ Frees(list[i]) \cap Frees(list[j]) = {}
               /\ ChangeOf(list[i]) \cap ChangeOf(list[j]) = {}
               /\ Gives(list[i]) \cap Gives(list[j]) = {}
    <3>1. /\ Frees(staged[i]) \cap Frees(staged[j]) = {}
          /\ ChangeOf(staged[i]) \cap ChangeOf(staged[j]) = {}
          /\ Gives(staged[i]) \cap Gives(staged[j]) = {}
      BY <1>1, <2>2 DEF Once, n
    <3>2. Gives(list[i]) \cap Gives(list[j]) = {}
      <4>1. CASE Gives(list[i]) = Gives(staged[i])
        BY <1>2, <1>4, <3>1, <4>1
      <4>2. CASE Gives(staged[i]) = {old} /\ Gives(list[i]) = {to} /\ Free(staged, B, to)
        BY <1>2, <1>4, <3>1, <4>2
      <4>3. QED
        BY <1>2, <4>1, <4>2
    <3>3. QED
      BY <1>2, <3>1, <3>2
  <2>3. QED
    BY <1>1, <2>1, <2>2 DEF Once
<1>6. GivenUp(list, B, {})
  <2>1. ASSUME NEW i \in 1..n, NEW b \in Gives(list[i]), b \in B PROVE IsFreed(list, n, b)
    <3>1. CASE Gives(list[i]) = Gives(staged[i])
      <4>1. IsFreed(staged, n, b)
        BY <1>1, <2>1, <3>1 DEF GivenUp, n
      <4>2. QED
        BY <1>3, <4>1
    <3>2. CASE Gives(list[i]) = {to} /\ Free(staged, B, to)
      BY <1>3, <1>4, <2>1, <3>2
    <3>3. QED
      BY <1>2, <3>1, <3>2
  <2>2. QED
    BY <1>1, <2>1 DEF GivenUp
<1>7. QED
  BY <1>5, <1>6 DEF NamesApart

-----------------------------------------------------------------------------
(* What the user stages keeps the names apart (StructureView.tsx).           *)

TableNames == NamesOf(meta.columns)

\* An op that gives no column a name and takes none away.
LEMMA QuietOpFits ==
  ASSUME NEW staged \in Seq(StagedOp), NamesApart(staged, TableNames), NEW op \in StagedOp,
         Gives(op) = {}, Frees(op) = {},
         \A i \in 1..Len(staged) : ChangeOf(staged[i]) \cap ChangeOf(op) = {}
  PROVE  NamesApart(Append(staged, op), TableNames)
<1>1. Fits(staged, TableNames, op)
  BY DEF Fits
<1>2. Once(staged, TableNames) /\ GivenUp(staged, TableNames, {})
  BY DEF NamesApart
<1>3. QED
  BY <1>1, <1>2, AppendedApart

\* Ops other than renames are taken out.
LEMMA WithoutKeepsApart ==
  ASSUME ops \in Seq(StagedOp), NamesApart(ops, TableNames), NEW T,
         \A op \in ToSet(ops) : op \notin T => Frees(op) = {}
  PROVE  NamesApart(OnlyIn(ops, T), TableNames)
<1>1. \A j \in 1..Len(ops) : ops[j] \notin T => Frees(ops[j]) \subseteq {}
  BY OwnElements
<1>2. Once(OnlyIn(ops, T), TableNames) /\ GivenUp(OnlyIn(ops, T), TableNames, {})
  BY <1>1, SelectedApart
<1>3. QED
  BY <1>2 DEF NamesApart

LEMMA StagedColumnsApart ==
  ASSUME StructInv, ~leftover, NamesApart(ops, TableNames), StagesColumns
  PROVE  \E staged : NamesApart(staged, TableNames) /\ SetOps(staged)
<1> DEFINE B == TableNames
<1>1. /\ ops \in Seq(StagedOp) /\ meta.columns \in Seq(ColumnRecord)
      /\ Once(ops, B) /\ GivenUp(ops, B, {})
      /\ Len(ops) \in Nat /\ DOMAIN ops = 1..Len(ops) /\ \A i \in 1..Len(ops) : ops[i] \in StagedOp
  <2>1. ops \in Seq(StagedOp) /\ meta.columns \in Seq(ColumnRecord)
    BY DEF StructInv, GoodOps, TableRecord
  <2>2. Len(ops) \in Nat /\ DOMAIN ops = 1..Len(ops) /\ \A i \in 1..Len(ops) : ops[i] \in StagedOp
    BY <2>1
  <2>3. QED
    BY <2>1, <2>2 DEF NamesApart
<1>2. \A i \in DOMAIN Rows : Rows[i] \in RowOf(B)
  <2>1. Rows \in Seq(RowOf(B))
    BY <1>1, RowsAreOfTheTable DEF Rows, TableNames
  <2>2. QED
    BY <2>1
<1>3. \A name : name \notin NamesOf(Rows) => Free(ops, B, name)
  BY <1>1, NotShownIsFree DEF Rows, TableNames
<1>4. \A op \in ToSet(ops) : op \in StagedOp
  BY <1>1, OwnElements
<1> HIDE DEF B
<1>5. CASE AddColumn
  <2> DEFINE op == [op |-> "addColumn", name |-> NewColumn, setting |-> FirstSetting]
  <2>1. op \in StagedOp /\ op.op = "addColumn" /\ op.name = NewColumn
    BY StructAssumption DEF StagedOp, WireOp, AddColumns
  <2>2. SetOps(Append(ops, op)) /\ NewColumn \notin NamesOf(Rows)
    BY <1>5 DEF AddColumn, Staged
  <2> HIDE DEF op
  <2>3. Gives(op) = {NewColumn} /\ Frees(op) = {} /\ ChangeOf(op) = {}
    BY <2>1, NamesOfOps
  <2>4. Free(ops, B, NewColumn)
    BY <1>3, <2>2
  <2>5. Fits(ops, B, op)
    BY <2>3, <2>4 DEF Fits, Free, IsGiven
  <2>6. NamesApart(Append(ops, op), B)
    BY <1>1, <2>1, <2>5, AppendedApart
  <2>7. QED
    BY <2>2, <2>6 DEF B
<1>6. CASE CancelNewColumn
  <2> DEFINE i == SelectLastInSeq(ops, LAMBDA op : op.op = "addColumn")
             T == {op \in ToSet(ops) : ~("name" \in DOMAIN op /\ op.name = ops[i].name)}
  <2>1. SetOps(OnlyIn(ops, T))
    BY <1>6 DEF CancelNewColumn, Without
  <2> HIDE DEF i
  <2>2. ASSUME NEW op \in ToSet(ops), op \notin T PROVE Frees(op) = {}
    <3>1. op \in StagedOp /\ "name" \in DOMAIN op
      BY <1>4, <2>2
    <3>2. op.op # "renameColumn"
      <4>1. op \in Renames => "name" \notin DOMAIN op
        BY DEF Renames
      <4>2. QED
        BY <3>1, <4>1, StagedFields
    <3>3. QED
      BY <3>2 DEF Frees
  <2> HIDE DEF T
  <2>3. NamesApart(OnlyIn(ops, T), TableNames)
    BY <1>1, <2>2, WithoutKeepsApart
  <2>4. QED
    BY <2>1, <2>3
<1>7. ASSUME NEW i \in DOMAIN Rows, NEW to \in ColumnName, RenameColumn(i, to)
      PROVE  \E staged : NamesApart(staged, TableNames) /\ SetOps(staged)
  <2> DEFINE row == Rows[i]
             c == row.origin[1]
             T == {op \in ToSet(ops) : ~(op.op = "renameColumn" /\ op.from = row.origin[1])}
             new == [op |-> "renameColumn", from |-> row.origin[1], to |-> to]
  <2>1. Free(ops, B, to)
    BY <1>3, <1>7 DEF RenameColumn
  <2>2. CASE row.origin = <<>>
    <3> DEFINE list == [n \in DOMAIN ops |->
                          IF IsAdd(ops[n], row) THEN [ops[n] EXCEPT !.name = to] ELSE ops[n]]
    <3>1. SetOps(list)
      BY <1>7, <2>2 DEF RenameColumn, EditAdded
    <3>2. \A n \in 1..Len(ops) :
            list[n] = IF IsAdd(ops[n], row) THEN [ops[n] EXCEPT !.name = to] ELSE ops[n]
      BY <1>1
    <3>3. Len(list) = Len(ops)
      BY <1>1
    <3> HIDE DEF list, row
    <3>4. ASSUME NEW n \in 1..Len(ops), IsAdd(ops[n], row)
          PROVE  /\ Frees(list[n]) = Frees(ops[n]) /\ ChangeOf(list[n]) = ChangeOf(ops[n])
                 /\ Gives(ops[n]) = {row.name} /\ Gives(list[n]) = {to}
      <4>1. ops[n] \in StagedOp /\ ops[n].op = "addColumn" /\ ops[n].name = row.name
        BY <1>1, <3>4 DEF IsAdd
      <4>2. ops[n] \in AddColumns
        BY <4>1, StagedFields
      <4>3. list[n] \in AddColumns /\ list[n].op = "addColumn" /\ list[n].name = to
        BY <3>2, <3>4, <4>2 DEF AddColumns
      <4>4. list[n] \in StagedOp
        BY <4>3 DEF StagedOp, WireOp
      <4>5. QED
        BY <4>1, <4>3, <4>4, NamesOfOps
    <3>5. \A n \in 1..Len(ops) :
            /\ Frees(list[n]) = Frees(ops[n]) /\ ChangeOf(list[n]) = ChangeOf(ops[n])
            /\ \/ Gives(list[n]) = Gives(ops[n])
               \/ Gives(ops[n]) = {row.name} /\ Gives(list[n]) = {to} /\ Free(ops, B, to)
      BY <2>1, <3>2, <3>4
    <3>6. NamesApart(list, B)
      BY <3>3, <3>5, EditedApart DEF B
    <3>7. QED
      BY <3>1, <3>6 DEF B
  <2>3. CASE row.origin # <<>>
    <3>1. c \in B /\ c \in ColumnName
      BY <1>2, <2>3, RowFields DEF RowOf
    <3>2. IF to = c THEN SetOps(OnlyIn(ops, T)) ELSE SetOps(Append(OnlyIn(ops, T), new))
      BY <1>7, <2>3 DEF RenameColumn, Without
    <3>3. new \in StagedOp /\ new.op = "renameColumn" /\ new.from = c /\ new.to = to
      BY <3>1 DEF StagedOp, WireOp, Renames
    <3>4. \A op \in T : op \in ToSet(ops) /\ ~(op.op = "renameColumn" /\ op.from = c)
      OBVIOUS
    <3>5. \A j \in 1..Len(ops) : ops[j] \notin T => ops[j].op = "renameColumn" /\ ops[j].from = c
      BY <1>1, OwnElements
    <3> DEFINE sel == OnlyIn(ops, T)
    <3> HIDE DEF new, c, T
    <3>6. \A j \in 1..Len(ops) : ops[j] \notin T => Frees(ops[j]) \subseteq {c}
      BY <3>5 DEF Frees
    <3>7. /\ sel \in Seq(StagedOp) /\ \A n \in 1..Len(sel) : sel[n] \in T
          /\ Once(sel, B) /\ GivenUp(sel, B, {c})
          /\ \A b : IsGiven(sel, Len(sel), b) => IsGiven(ops, Len(ops), b)
          /\ \A b : IsFreed(ops, Len(ops), b) => b \in {c} \/ IsFreed(sel, Len(sel), b)
      BY <1>1, <3>6, SelectedApart DEF B
    <3> HIDE DEF sel
    <3>8. CASE to = c
      <4>1. \A b \in {c} : ~IsGiven(sel, Len(sel), b)
        BY <2>1, <3>7, <3>8 DEF Free
      <4>2. NamesApart(sel, B)
        BY <3>7, <4>1, NothingTaken
      <4>3. QED
        BY <3>2, <3>8, <4>2 DEF B, sel
    <3>9. CASE to # c
      <4>1. Gives(new) = {to} /\ Frees(new) = {c} /\ ChangeOf(new) = {}
        BY <3>3, NamesOfOps
      <4>2. \A n \in 1..Len(sel) : Frees(sel[n]) \cap {c} = {}
        BY <3>4, <3>7 DEF Frees
      <4>3. \A n \in 1..Len(sel) : Gives(sel[n]) \cap {to} = {}
        <5>1. ~IsGiven(sel, Len(sel), to)
          BY <2>1, <3>7 DEF Free
        <5>2. QED
          BY <5>1 DEF IsGiven
      <4>4. to \in B => IsFreed(sel, Len(sel), to)
        BY <2>1, <3>7, <3>9 DEF Free
      <4>5. Fits(sel, B, new)
        BY <3>1, <4>1, <4>2, <4>3, <4>4 DEF Fits
      <4>6. NamesApart(Append(sel, new), B)
        BY <3>3, <3>7, <4>1, <4>5, AppendedApart
      <4>7. QED
        BY <3>2, <3>9, <4>6 DEF B, sel
    <3>10. QED
      BY <3>8, <3>9
  <2>4. QED
    BY <2>2, <2>3
<1>8. ASSUME NEW i \in DOMAIN Rows, NEW setting \in Setting, ChangeColumn(i, setting)
      PROVE  \E staged : NamesApart(staged, TableNames) /\ SetOps(staged)
  <2> DEFINE row == Rows[i]
             c == row.origin[1]
             T == {op \in ToSet(ops) : ~(op.op = "change" /\ op.column = row.origin[1])}
             new == [op |-> "change", column |-> row.origin[1], setting |-> setting]
  <2>1. CASE row.origin = <<>>
    <3> DEFINE list == [n \in DOMAIN ops |->
                          IF IsAdd(ops[n], row) THEN [ops[n] EXCEPT !.setting = setting] ELSE ops[n]]
    <3>1. SetOps(list)
      BY <1>8, <2>1 DEF ChangeColumn, EditAdded
    <3>2. \A n \in 1..Len(ops) :
            list[n] = IF IsAdd(ops[n], row) THEN [ops[n] EXCEPT !.setting = setting] ELSE ops[n]
      BY <1>1
    <3>3. Len(list) = Len(ops)
      BY <1>1
    <3> HIDE DEF list, row
    <3>4. ASSUME NEW n \in 1..Len(ops), IsAdd(ops[n], row)
          PROVE  /\ Frees(list[n]) = Frees(ops[n]) /\ ChangeOf(list[n]) = ChangeOf(ops[n])
                 /\ Gives(list[n]) = Gives(ops[n])
      <4>1. ops[n] \in StagedOp /\ ops[n].op = "addColumn"
        BY <1>1, <3>4 DEF IsAdd
      <4>2. ops[n] \in AddColumns
        BY <4>1, StagedFields
      <4>3. list[n] \in AddColumns /\ list[n].op = "addColumn" /\ list[n].name = ops[n].name
        BY <3>2, <3>4, <4>2 DEF AddColumns
      <4>4. list[n] \in StagedOp
        BY <4>3 DEF StagedOp, WireOp
      <4>5. QED
        BY <4>1, <4>3, <4>4, NamesOfOps
    <3>5. \A n \in 1..Len(ops) :
            /\ Frees(list[n]) = Frees(ops[n]) /\ ChangeOf(list[n]) = ChangeOf(ops[n])
            /\ Gives(list[n]) = Gives(ops[n])
      BY <3>2, <3>4
    <3>6. NamesApart(list, TableNames)
      BY <3>3, <3>5, EditedApart
    <3>7. QED
      BY <3>1, <3>6
  <2>2. CASE row.origin # <<>>
    <3>1. c \in ColumnName
      BY <1>2, <2>2, RowFields DEF RowOf
    <3>2. SetOps(OnlyIn(ops, T)) \/ SetOps(Append(OnlyIn(ops, T), new))
      BY <1>8, <2>2 DEF ChangeColumn, Without
    <3>3. new \in StagedOp /\ new.op = "change" /\ new.column = c
      BY <3>1 DEF StagedOp, WireOp, Changes
    <3>4. \A op \in T : ~(op.op = "change" /\ op.column = c)
      OBVIOUS
    <3>5. \A op \in ToSet(ops) : op \notin T => op.op = "change"
      OBVIOUS
    <3> DEFINE sel == OnlyIn(ops, T)
    <3> HIDE DEF new, c, T
    <3>6. \A op \in ToSet(ops) : op \notin T => Frees(op) = {}
      BY <3>5 DEF Frees
    <3>7. NamesApart(sel, TableNames)
      BY <1>1, <3>6, WithoutKeepsApart
    <3>8. sel \in Seq(StagedOp) /\ \A n \in 1..Len(sel) : sel[n] \in T
      BY <1>1, SelectedIsGood DEF StructInv, GoodOps
    <3> HIDE DEF sel
    <3>9. Gives(new) = {} /\ Frees(new) = {} /\ ChangeOf(new) = {c}
      BY <3>3, NamesOfOps
    <3>10. \A n \in 1..Len(sel) : ChangeOf(sel[n]) \cap ChangeOf(new) = {}
      BY <3>4, <3>8, <3>9 DEF ChangeOf
    <3>11. NamesApart(Append(sel, new), TableNames)
      BY <3>3, <3>7, <3>8, <3>9, <3>10, QuietOpFits
    <3>12. QED
      BY <3>2, <3>7, <3>11 DEF sel
  <2>3. QED
    BY <2>1, <2>2
<1>9. ASSUME NEW i \in DOMAIN Rows, DropColumn(i)
      PROVE  \E staged : NamesApart(staged, TableNames) /\ SetOps(staged)
  <2> DEFINE row == Rows[i]
             T == {op \in ToSet(ops) : ~IsAdd(op, row)}
             new == [op |-> "dropColumn", name |-> row.origin[1]]
  <2>1. CASE row.origin = <<>>
    <3>1. SetOps(OnlyIn(ops, T))
      BY <1>9, <2>1 DEF DropColumn, Without
    <3>2. \A op \in ToSet(ops) : op \notin T => Frees(op) = {}
      BY DEF IsAdd, Frees
    <3> HIDE DEF T
    <3>3. NamesApart(OnlyIn(ops, T), TableNames)
      BY <1>1, <3>2, WithoutKeepsApart
    <3>4. QED
      BY <3>1, <3>3
  <2>2. CASE row.origin # <<>>
    <3>1. row.origin[1] \in ColumnName
      BY <1>2, <2>2, RowFields DEF RowOf
    <3>2. new \in StagedOp /\ new.op = "dropColumn"
      BY <3>1 DEF StagedOp, WireOp, ColumnDrops
    <3>3. SetOps(Append(ops, new))
      BY <1>9, <2>2 DEF DropColumn, Staged
    <3> HIDE DEF new
    <3>4. Gives(new) = {} /\ Frees(new) = {} /\ ChangeOf(new) = {}
      BY <3>2, NamesOfOps
    <3>5. NamesApart(Append(ops, new), TableNames)
      BY <1>1, <3>2, <3>4, QuietOpFits
    <3>6. QED
      BY <3>3, <3>5
  <2>3. QED
    BY <2>1, <2>2
<1>10. ASSUME NEW i \in DOMAIN Rows, UndropColumn(i)
       PROVE  \E staged : NamesApart(staged, TableNames) /\ SetOps(staged)
  <2> DEFINE T == {op \in ToSet(ops) : ~(op.op = "dropColumn" /\ op.name = Rows[i].origin[1])}
  <2>1. SetOps(OnlyIn(ops, T))
    BY <1>10 DEF UndropColumn, Without
  <2>2. \A op \in ToSet(ops) : op \notin T => Frees(op) = {}
    BY DEF Frees
  <2> HIDE DEF T
  <2>3. NamesApart(OnlyIn(ops, T), TableNames)
    BY <1>1, <2>2, WithoutKeepsApart
  <2>4. QED
    BY <2>1, <2>3
<1>11. QED
  BY <1>5, <1>6, <1>7, <1>8, <1>9, <1>10 DEF StagesColumns

LEMMA StagedIndexesApart ==
  ASSUME StructInv, ~leftover, NamesApart(ops, TableNames), StagesIndexes
  PROVE  \E staged : NamesApart(staged, TableNames) /\ SetOps(staged)
<1>1. ops \in Seq(StagedOp) /\ \A op \in ToSet(ops) : op \in StagedOp
  <2>1. ops \in Seq(StagedOp)
    BY DEF StructInv, GoodOps
  <2>2. QED
    BY <2>1, OwnElements
<1>2. ASSUME NEW op \in StagedOp, op.op \in {"addIndex", "dropIndex", "replaceIndex"},
             NEW staged \in Seq(StagedOp), NamesApart(staged, TableNames)
      PROVE  NamesApart(Append(staged, op), TableNames)
  <2>1. Gives(op) = {} /\ Frees(op) = {} /\ ChangeOf(op) = {}
    BY <1>2, NamesOfOps
  <2>2. QED
    BY <1>2, <2>1, QuietOpFits
<1>3. ASSUME NEW card
      PROVE  WithoutIndexOps(card) \in Seq(StagedOp) /\ NamesApart(WithoutIndexOps(card), TableNames)
  <2> DEFINE T == {op \in ToSet(ops) : ~OfIndex(op, card)}
  <2>1. WithoutIndexOps(card) = OnlyIn(ops, T)
    BY DEF WithoutIndexOps, Without
  <2>2. \A op \in ToSet(ops) : op \notin T => Frees(op) = {}
    BY DEF OfIndex, Frees
  <2> HIDE DEF T
  <2>3. NamesApart(OnlyIn(ops, T), TableNames)
    BY <1>1, <2>2, WithoutKeepsApart
  <2>4. OnlyIn(ops, T) \in Seq(StagedOp)
    BY <1>1, SelectionIsOf
  <2>5. QED
    BY <2>1, <2>3, <2>4
<1>4. ASSUME NEW column \in ColumnName, NEW name \in IndexName, AddIndex(column, name)
      PROVE  \E staged : NamesApart(staged, TableNames) /\ SetOps(staged)
  <2> DEFINE op == [op |-> "addIndex", name |-> name, column |-> column]
  <2>1. op \in StagedOp /\ op.op = "addIndex"
    BY DEF StagedOp, WireOp, IndexAdds
  <2>2. SetOps(Append(ops, op))
    BY <1>4 DEF AddIndex, Staged
  <2> HIDE DEF op
  <2>3. QED
    BY <1>1, <1>2, <2>1, <2>2
<1>5. ASSUME NEW card \in ToSet(Cards), NEW column \in ColumnName, NEW name \in IndexName,
             StageIndexEdit(card, column, name)
      PROVE  \E staged : NamesApart(staged, TableNames) /\ SetOps(staged)
  <2> DEFINE rest == WithoutIndexOps(card)
             add == [op |-> "addIndex", name |-> name, column |-> column]
             edit == [op |-> "replaceIndex", from |-> Identity(card), name |-> name, column |-> column]
  <2>1. add \in StagedOp /\ add.op = "addIndex"
    BY DEF StagedOp, WireOp, IndexAdds
  <2>2. edit \in StagedOp /\ edit.op = "replaceIndex"
    BY RowsAndCards DEF StagedOp, Replacements
  <2>3. SetOps(rest) \/ SetOps(Append(rest, add)) \/ SetOps(Append(rest, edit))
    BY <1>5 DEF StageIndexEdit
  <2> HIDE DEF add, edit
  <2>4. QED
    BY <1>2, <1>3, <2>1, <2>2, <2>3
<1>6. ASSUME NEW card \in ToSet(Cards), StageIndexDrop(card)
      PROVE  \E staged : NamesApart(staged, TableNames) /\ SetOps(staged)
  <2> DEFINE rest == WithoutIndexOps(card)
             drop == [op |-> "dropIndex", name |-> Identity(card)]
  <2>1. drop \in StagedOp /\ drop.op = "dropIndex"
    BY RowsAndCards DEF StagedOp, WireOp, IndexDrops
  <2>2. SetOps(rest) \/ SetOps(Append(rest, drop))
    BY <1>6 DEF StageIndexDrop
  <2> HIDE DEF drop
  <2>3. QED
    BY <1>2, <1>3, <2>1, <2>2
<1>7. ASSUME NEW card \in ToSet(Cards), StageIndexRestore(card)
      PROVE  \E staged : NamesApart(staged, TableNames) /\ SetOps(staged)
  <2>1. SetOps(WithoutIndexOps(card))
    BY <1>7 DEF StageIndexRestore
  <2>2. QED
    BY <1>3, <2>1
<1>8. QED
  BY <1>4, <1>5, <1>6, <1>7 DEF StagesIndexes

-----------------------------------------------------------------------------
(* An op the engine takes (sqlite/structure.rs compute_target_columns).      *)

DistinctNames(columns) ==
  \A i, j \in 1..Len(columns) : columns[i].name = columns[j].name => i = j

\* The column once an op about it is done.
RedoneColumn(column, op) ==
  IF op.op = "renameColumn" THEN Column(op.to, column.setting) ELSE Column(column.name, op.setting)

\* The columns after an op the engine takes.
Took(columns, op, next) ==
  /\ op.op = "addColumn" =>
       /\ \A i \in 1..Len(columns) : columns[i].name # op.name
       /\ next = Append(columns, Column(op.name, op.setting))
  /\ op.op \in {"renameColumn", "change"} =>
       \E i \in 1..Len(columns) :
         /\ columns[i].name \in TargetColumn(op)
         /\ op.op = "renameColumn" => \A j \in 1..Len(columns) : columns[j].name # op.to
         /\ next = WithAt(columns, i, RedoneColumn(columns[i], op))
  /\ op.op = "dropColumn" =>
       /\ \E i \in 1..Len(columns) : columns[i].name = op.name
       /\ next = OnlyIn(columns, {c \in ToSet(columns) : c.name # op.name})
  /\ op.op \in {"addIndex", "dropIndex"} => next = columns

LEMMA ColumnFieldsOf ==
  ASSUME NEW column \in ColumnRecord, NEW op \in StagedOp, op.op \in {"renameColumn", "change"}
  PROVE  /\ RedoneColumn(column, op) \in ColumnRecord
         /\ op.op = "renameColumn" => /\ RedoneColumn(column, op) = [column EXCEPT !.name = op.to]
                                      /\ RedoneColumn(column, op).name = op.to
                                      /\ RedoneColumn(column, op).setting = column.setting
         /\ op.op = "change" => /\ RedoneColumn(column, op) = [column EXCEPT !.setting = op.setting]
                                /\ RedoneColumn(column, op).name = column.name
                                /\ RedoneColumn(column, op).setting = op.setting
BY StagedFields DEF RedoneColumn, Column, ColumnRecord

LEMMA EngineTook ==
  ASSUME NEW columns \in Seq(ColumnRecord), DistinctNames(columns), NEW op \in WireOp,
         TargetColumns(columns, op) # <<>>
  PROVE  columns # <<>> /\ Took(columns, op, TargetColumns(columns, op))
<1> DEFINE n == Len(columns)
           next == TargetColumns(columns, op)
           Here(name) == columns[Place(columns, name)]
<1>1. /\ n \in Nat /\ DOMAIN columns = 1..n /\ op \in StagedOp /\ op.op # "replaceIndex"
      /\ \A i \in 1..n : columns[i] \in ColumnRecord
  BY WireIsStaged
<1>2. columns # <<>>
  BY DEF TargetColumns
<1>3. ASSUME NEW name, HasColumn(columns, name)
      PROVE  Place(columns, name) \in 1..n /\ Here(name).name = name
  <2> DEFINE I == {i \in 1..Len(columns) : columns[i].name = name}
  <2>1. I # {} /\ I \in SUBSET (1..Len(columns)) /\ Len(columns) \in Nat
    BY <1>1, <1>3 DEF HasColumn
  <2>2. Place(columns, name) = IF I # {} THEN Min(I) ELSE 0
    BY DEF Place
  <2>3. Min(I) \in I
    BY <2>1, MinOfPositions
  <2>4. QED
    BY <1>1, <2>1, <2>2, <2>3
<1>4. ASSUME NEW i \in 1..n, NEW x
      PROVE  [c \in DOMAIN columns |-> IF columns[c].name = columns[i].name THEN x ELSE columns[c]]
               = WithAt(columns, i, x)
  <2>1. \A c \in 1..n : columns[c].name = columns[i].name <=> c = i
    BY DEF DistinctNames
  <2>2. QED
    BY <1>1, <2>1 DEF WithAt
<1> HIDE DEF n
<1>5. CASE op.op = "addColumn"
  <2>1. next = Append(columns, Column(op.name, op.setting)) /\ ~HasColumn(columns, op.name)
    BY <1>2, <1>5 DEF TargetColumns
  <2>2. QED
    BY <1>1, <1>2, <1>5, <2>1 DEF Took, HasColumn, n
<1>6. CASE op.op = "renameColumn"
  <2> DEFINE new == [Here(op.from) EXCEPT !.name = op.to]
             i == Place(columns, op.from)
  <2>1. /\ HasColumn(columns, op.from) /\ ~HasColumn(columns, op.to)
        /\ next = [c \in DOMAIN columns |-> IF columns[c].name = op.from THEN new ELSE columns[c]]
    BY <1>2, <1>6 DEF TargetColumns, SelectInSeq, Place
  <2>2. i \in 1..n /\ columns[i].name = op.from
    BY <1>3, <2>1
  <2>3. new = RedoneColumn(columns[i], op)
    BY <1>1, <1>6, <2>2, ColumnFieldsOf
  <2>4. TargetColumn(op) = {op.from}
    BY <1>6 DEF TargetColumn
  <2> HIDE DEF new, i, next
  <2>5. next = WithAt(columns, i, RedoneColumn(columns[i], op))
    BY <1>4, <2>1, <2>2, <2>3
  <2>6. \A j \in 1..n : columns[j].name # op.to
    BY <1>1, <2>1 DEF HasColumn
  <2>7. Took(columns, op, next)
    BY <1>6, <2>2, <2>4, <2>5, <2>6 DEF Took, n
  <2>8. QED
    BY <1>2, <2>7 DEF next
<1>7. CASE op.op = "change"
  <2> DEFINE new == [Here(op.column) EXCEPT !.setting = op.setting]
             i == Place(columns, op.column)
  <2>1. /\ HasColumn(columns, op.column)
        /\ next = [c \in DOMAIN columns |-> IF columns[c].name = op.column THEN new ELSE columns[c]]
    BY <1>2, <1>7 DEF TargetColumns, SelectInSeq, Place
  <2>2. i \in 1..n /\ columns[i].name = op.column
    BY <1>3, <2>1
  <2>3. new = RedoneColumn(columns[i], op)
    BY <1>1, <1>7, <2>2, ColumnFieldsOf
  <2>4. TargetColumn(op) = {op.column}
    BY <1>7 DEF TargetColumn
  <2> HIDE DEF new, i, next
  <2>5. next = WithAt(columns, i, RedoneColumn(columns[i], op))
    BY <1>4, <2>1, <2>2, <2>3
  <2>6. Took(columns, op, next)
    BY <1>7, <2>2, <2>4, <2>5 DEF Took, n
  <2>7. QED
    BY <1>2, <2>6 DEF next
<1>8. CASE op.op = "dropColumn"
  <2>1. /\ HasColumn(columns, op.name)
        /\ next = OnlyIn(columns, {c \in ToSet(columns) : c.name # op.name})
    BY <1>2, <1>8 DEF TargetColumns
  <2>2. \E i \in 1..n : columns[i].name = op.name
    BY <1>1, <2>1 DEF HasColumn
  <2> HIDE DEF next
  <2>3. Took(columns, op, next)
    BY <1>8, <2>1, <2>2 DEF Took, n
  <2>4. QED
    BY <1>2, <2>3 DEF next
<1>9. CASE op.op \in {"addIndex", "dropIndex"}
  <2>1. next = columns
    BY <1>2, <1>9 DEF TargetColumns
  <2> HIDE DEF next
  <2>2. Took(columns, op, next)
    BY <1>9, <2>1 DEF Took
  <2>3. QED
    BY <1>2, <2>2 DEF next
<1>10. QED
  BY <1>1, <1>5, <1>6, <1>7, <1>8, <1>9, StagedFields

LEMMA ChangedColumn ==
  ASSUME NEW columns \in Seq(ColumnRecord), NEW i \in 1..Len(columns), NEW x \in ColumnRecord
  PROVE  /\ WithAt(columns, i, x) \in Seq(ColumnRecord)
         /\ Len(WithAt(columns, i, x)) = Len(columns)
         /\ WithAt(columns, i, x)[i] = x
         /\ \A c \in 1..Len(columns) : c # i => WithAt(columns, i, x)[c] = columns[c]
<1>1. Len(columns) \in Nat /\ DOMAIN columns = 1..Len(columns)
      /\ columns \in [1..Len(columns) -> ColumnRecord]
  OBVIOUS
<1>2. WithAt(columns, i, x) \in [1..Len(columns) -> ColumnRecord]
  BY <1>1 DEF WithAt
<1>3. WithAt(columns, i, x) \in Seq(ColumnRecord) /\ Len(WithAt(columns, i, x)) = Len(columns)
  BY <1>1, <1>2
<1>4. WithAt(columns, i, x)[i] = x
  BY <1>1 DEF WithAt
<1>5. \A c \in 1..Len(columns) : c # i => WithAt(columns, i, x)[c] = columns[c]
  BY <1>1 DEF WithAt
<1>6. QED
  BY <1>3, <1>4, <1>5

\* The engine keeps the names of a table's columns apart.
LEMMA TargetKeepsDistinct ==
  ASSUME NEW columns \in Seq(ColumnRecord), DistinctNames(columns), NEW op \in WireOp
  PROVE  DistinctNames(TargetColumns(columns, op))
<1> DEFINE next == TargetColumns(columns, op)
<1>1. /\ Len(columns) \in Nat /\ op \in StagedOp /\ op.op # "replaceIndex"
      /\ \A i \in 1..Len(columns) : columns[i] \in ColumnRecord
  BY WireIsStaged
<1>2. CASE next = <<>>
  BY <1>2 DEF DistinctNames
<1>3. CASE next # <<>>
  <2>1. Took(columns, op, next)
    BY <1>3, EngineTook
  <2> HIDE DEF next
  <2>2. CASE op.op = "addColumn"
    <3>1. Column(op.name, op.setting) \in ColumnRecord /\ Column(op.name, op.setting).name = op.name
      BY <1>1, <2>2, StagedFields DEF Column, ColumnRecord
    <3>2. /\ \A i \in 1..Len(columns) : columns[i].name # op.name
          /\ next = Append(columns, Column(op.name, op.setting))
      BY <2>1, <2>2 DEF Took
    <3>3. /\ Len(next) = Len(columns) + 1 /\ next[Len(columns) + 1].name = op.name
          /\ \A i \in 1..Len(columns) : next[i] = columns[i]
          /\ \A i \in 1..Len(next) : i \in 1..Len(columns) \/ i = Len(columns) + 1
      BY <1>1, <3>1, <3>2, AppendPlaces
    <3>4. QED
      BY <1>1, <3>2, <3>3 DEF DistinctNames, next
  <2>3. CASE op.op \in {"renameColumn", "change"}
    <3>1. PICK i \in 1..Len(columns) :
            /\ columns[i].name \in TargetColumn(op)
            /\ op.op = "renameColumn" => \A j \in 1..Len(columns) : columns[j].name # op.to
            /\ next = WithAt(columns, i, RedoneColumn(columns[i], op))
      BY <2>1, <2>3 DEF Took
    <3>2. /\ RedoneColumn(columns[i], op) \in ColumnRecord
          /\ RedoneColumn(columns[i], op).name = IF op.op = "renameColumn" THEN op.to ELSE columns[i].name
      BY <1>1, <2>3, ColumnFieldsOf
    <3>3. /\ Len(next) = Len(columns) /\ next[i] = RedoneColumn(columns[i], op)
          /\ \A c \in 1..Len(columns) : c # i => next[c] = columns[c]
      BY <3>1, <3>2, ChangedColumn
    <3>4. CASE op.op = "renameColumn"
      BY <3>1, <3>2, <3>3, <3>4 DEF DistinctNames, next
    <3>5. CASE op.op # "renameColumn"
      <4>1. \A c \in 1..Len(columns) : next[c].name = columns[c].name
        BY <3>2, <3>3, <3>5
      <4>2. QED
        BY <3>3, <4>1 DEF DistinctNames, next
    <3>6. QED
      BY <3>4, <3>5
  <2>4. CASE op.op = "dropColumn"
    <3> DEFINE T == {c \in ToSet(columns) : c.name # op.name}
    <3>1. next = OnlyIn(columns, T)
      BY <2>1, <2>4 DEF Took
    <3>2. PICK a : /\ Enumerates(a, Len(OnlyIn(columns, T)), KeptAt(columns, T))
                   /\ \A i \in 1..Len(OnlyIn(columns, T)) :
                        /\ a[i] \in 1..Len(columns) /\ OnlyIn(columns, T)[i] = columns[a[i]]
                        /\ columns[a[i]] \in T
      BY SelectionEnumerates
    <3>3. Len(next) \in Nat
      BY <3>1, SelectionEnumerates
    <3> HIDE DEF T
    <3>4. /\ \A i \in 1..Len(next) : a[i] \in 1..Len(columns) /\ next[i] = columns[a[i]]
          /\ \A i, j \in 1..Len(next) : i < j => a[i] < a[j]
      BY <3>1, <3>2 DEF Enumerates
    <3>5. ASSUME NEW i \in 1..Len(next), NEW j \in 1..Len(next), next[i].name = next[j].name
          PROVE  i = j
      <4>1. a[i] = a[j] /\ a[i] \in Nat
        BY <3>4, <3>5 DEF DistinctNames
      <4>2. ~(i < j) /\ ~(j < i)
        BY <3>4, <4>1
      <4>3. QED
        BY <3>3, <4>2
    <3>6. QED
      BY <3>5 DEF DistinctNames, next
  <2>5. CASE op.op \in {"addIndex", "dropIndex"}
    BY <2>1, <2>5 DEF Took, next
  <2>6. QED
    BY <1>1, <2>2, <2>3, <2>4, <2>5, StagedFields
<1>4. QED
  BY <1>2, <1>3

\* What a batch leaves behind are the columns of its target, if it is taken.
LEMMA AppliedColumns ==
  ASSUME NEW t \in TableRecord, DistinctNames(t.columns), NEW batch \in Seq(WireOp)
  PROVE  /\ DistinctNames(Columnwise!Folded(t.columns, batch))
         /\ Applied(t, batch) # Rejected =>
              /\ Applied(t, batch).columns = Columnwise!Folded(t.columns, batch)
              /\ Columnwise!Folded(t.columns, batch) # <<>>
              /\ Valid(t, batch)
<1>1. t.columns \in Seq(ColumnRecord) /\ t.columns # <<>> /\ Len(batch) \in Nat
  BY DEF TableRecord
<1> DEFINE D == {x \in Seq(ColumnRecord) : DistinctNames(x)}
<1>2. DistinctNames(Columnwise!Folded(t.columns, batch))
  <2>1. t.columns \in D
    BY <1>1
  <2>2. ASSUME NEW x \in D, NEW k \in 1..Len(batch) PROVE TargetColumns(x, batch[k]) \in D
    BY TargetColumnsTyped, TargetKeepsDistinct
  <2> HIDE DEF D
  <2>3. Columnwise!Folded(t.columns, batch) \in D
    BY ONLY <2>1, <2>2, batch \in Seq(WireOp), Columnwise!FoldKeeps
  <2>4. QED
    BY <2>3 DEF D
<1>3. FoldLeft(TargetColumns, t.columns, batch) = Columnwise!Folded(t.columns, batch)
  BY DEF Columnwise!Folded, Columnwise!FoldLeft, Columnwise!MapThenFoldSet, FoldLeft,
         MapThenFoldSet, Max, Columnwise!Max
<1>4. FoldLeft(NativeStep, t, batch) = Native!Folded(t, batch)
  BY DEF Native!Folded, Native!FoldLeft, Native!MapThenFoldSet, FoldLeft, MapThenFoldSet, Max, Native!Max
<1>5. PICK u : Columnwise!Runs(u, t.columns, batch) /\ u[Len(batch)] = Columnwise!Folded(t.columns, batch)
  BY Columnwise!FoldRuns
<1>6. PICK v : Native!Runs(v, t, batch) /\ v[Len(batch)] = Native!Folded(t, batch)
  BY Native!FoldRuns
<1>7. u[0] = t.columns /\ \A k \in 1..Len(batch) : u[k] = TargetColumns(u[k - 1], batch[k])
  BY <1>5 DEF Columnwise!Runs
<1>8. v[0] = t /\ \A k \in 1..Len(batch) : v[k] = NativeStep(v[k - 1], batch[k])
  BY <1>6 DEF Native!Runs
<1> DEFINE Good(k) == v[k] = Rejected \/ (v[k].columns = u[k] /\ u[k] # <<>>)
           G == {k \in 0..Len(batch) : Good(k)}
<1>9. Good(0)
  BY <1>1, <1>7, <1>8
<1>10. ASSUME NEW x, NEW op
       PROVE  \/ NativeStep(x, op) = Rejected
              \/ /\ NativeStep(x, op).columns = TargetColumns(x.columns, op)
                 /\ TargetColumns(x.columns, op) # <<>>
  BY DEF NativeStep
<1>11. \A op : NativeStep(Rejected, op) = Rejected
  BY DEF NativeStep, TargetColumns, Rejected
<1>12. ASSUME NEW k \in 0..(Len(batch) - 1), Good(k) PROVE Good(k + 1)
  <2>1. k + 1 \in 1..Len(batch) /\ (k + 1) - 1 = k
    BY <1>1
  <2>2. u[k + 1] = TargetColumns(u[k], batch[k + 1]) /\ v[k + 1] = NativeStep(v[k], batch[k + 1])
    BY <1>7, <1>8, <2>1
  <2>3. CASE v[k] = Rejected
    BY <1>11, <2>2, <2>3
  <2>4. CASE v[k].columns = u[k]
    BY <1>10, <2>2, <2>4
  <2>5. QED
    BY <1>12, <2>3, <2>4
<1>13. 0..Len(batch) \subseteq G
  <2>1. 0 \in G
    BY <1>1, <1>9
  <2>2. ASSUME NEW k \in 0..(Len(batch) - 1), k \in G PROVE k + 1 \in G
    BY <1>1, <1>12, <2>2
  <2> HIDE DEF G
  <2>3. QED
    BY <1>1, <2>1, <2>2, CountingUp
<1>14. Good(Len(batch))
  BY <1>1, <1>13
<1>15. FoldLeft(NativeStep, t, batch) # Rejected =>
         /\ FoldLeft(NativeStep, t, batch).columns = Columnwise!Folded(t.columns, batch)
         /\ Columnwise!Folded(t.columns, batch) # <<>>
  BY <1>4, <1>5, <1>6, <1>14
<1>16. Rebuilt(t, batch) # Rejected =>
         /\ Rebuilt(t, batch).columns = FoldLeft(TargetColumns, t.columns, batch)
         /\ FoldLeft(TargetColumns, t.columns, batch) # <<>>
  BY DEF Rebuilt
<1>17. QED
  BY <1>2, <1>3, <1>15, <1>16 DEF Applied

-----------------------------------------------------------------------------
(* The columns of a table have names of their own.                           *)

\* The columns of the table in the database and of the table read have names of their own, and
\* so does what is staged about the table read, as long as it is the one there is.
ColumnsInv ==
  /\ DistinctNames(dbTable.columns) /\ DistinctNames(meta.columns)
  /\ ~leftover => NamesApart(ops, TableNames)

LEMMA NothingIsApart == \A B : NamesApart(<<>>, B)
BY DEF NamesApart, Once, GivenUp

LEMMA ColumnsStep == StructInv /\ ColumnsInv /\ [StructNext]_structVars => ColumnsInv'
<1> SUFFICES ASSUME StructInv, ColumnsInv, [StructNext]_structVars PROVE ColumnsInv'
  OBVIOUS
<1>1. ASSUME UNCHANGED <<dbTable, meta, ops, leftover>> PROVE ColumnsInv'
  BY <1>1 DEF ColumnsInv, TableNames
<1>2. CASE StagesColumns \/ StagesIndexes
  <2>1. CASE leftover
    <3>1. PICK staged : SetOps(staged)
      BY <1>2, ColumnsAreStaged, IndexesAreStaged
    <3>2. QED
      BY <2>1, <3>1 DEF SetOps, ColumnsInv
  <2>2. CASE ~leftover
    <3>1. PICK staged : NamesApart(staged, TableNames) /\ SetOps(staged)
      BY <1>2, <2>2, StagedColumnsApart, StagedIndexesApart DEF ColumnsInv
    <3>2. ops' = staged /\ dbTable' = dbTable /\ meta' = meta /\ leftover' = leftover
      BY <3>1 DEF SetOps
    <3>3. TableNames' = TableNames
      BY <3>2 DEF TableNames
    <3>4. NamesApart(ops', TableNames')
      BY <3>1, <3>2, <3>3
    <3>5. QED
      BY <3>2, <3>4 DEF ColumnsInv
  <2>3. QED
    BY <2>1, <2>2
<1>3. CASE ToggleReview \/ \E batch \in review.asked : PreviewArrives(batch)
  BY <1>1, <1>3 DEF ToggleReview, PreviewArrives
<1>4. CASE ApplyPending
  BY <1>1, <1>4 DEF ApplyPending
<1>5. ASSUME NEW i \in DOMAIN applies, Alter(i) PROVE ColumnsInv'
  <2> DEFINE altered == Applied(dbTable, applies[i].batch)
  <2>1. /\ dbTable' = IF altered = Rejected THEN dbTable ELSE altered
        /\ UNCHANGED <<meta, ops, leftover>>
    BY <1>5 DEF Alter
  <2>2. applies[i].batch \in Seq(WireOp)
    <3>1. applies \in Seq(Batch)
      BY DEF StructInv
    <3>2. applies[i] \in Batch
      BY <3>1
    <3>3. QED
      BY <3>2 DEF Batch
  <2>3. dbTable \in TableRecord /\ DistinctNames(dbTable.columns)
    BY DEF StructInv, ColumnsInv
  <2>4. altered # Rejected => DistinctNames(altered.columns)
    BY <2>2, <2>3, AppliedColumns
  <2> HIDE DEF altered
  <2>5. DistinctNames(dbTable'.columns)
    BY <2>1, <2>3, <2>4
  <2>6. QED
    BY <2>1, <2>5 DEF ColumnsInv, TableNames
<1>6. ASSUME NEW i \in DOMAIN applies, ApplyAnswered(i) PROVE ColumnsInv'
  <2>1. /\ meta' = dbTable /\ dbTable' = dbTable
        /\ leftover' = (leftover \/ ops' # <<>>)
    BY <1>6 DEF ApplyAnswered
  <2>2. ~leftover' => NamesApart(ops', TableNames')
    BY <2>1, NothingIsApart
  <2>3. QED
    BY <2>1, <2>2 DEF ColumnsInv
<1>7. ASSUME NEW i \in DOMAIN applies, ApplyFailed(i) PROVE ColumnsInv'
  BY <1>1, <1>7 DEF ApplyFailed
<1>8. CASE DiscardPending
  <2>1. ops' = <<>> /\ UNCHANGED <<dbTable, meta, leftover>>
    BY <1>8 DEF DiscardPending
  <2>2. NamesApart(ops', TableNames')
    BY <2>1, NothingIsApart
  <2>3. QED
    BY <2>1, <2>2 DEF ColumnsInv
<1>9. CASE ReturnToEditor \/ \E to \in {"tab", "workspace"} : LeaveEditor(to)
  BY <1>1, <1>9 DEF ReturnToEditor, LeaveEditor
<1>10. CASE UNCHANGED structVars
  BY <1>1, <1>10 DEF structVars
<1>11. QED
  BY <1>2, <1>3, <1>4, <1>5, <1>6, <1>7, <1>8, <1>9, <1>10 DEF StructNext, StagesColumns, StagesIndexes

LEMMA ColumnsBegin == StructInit => ColumnsInv
<1> SUFFICES ASSUME StructInit PROVE ColumnsInv
  OBVIOUS
<1> DEFINE columns == [i \in DOMAIN Columns |-> Column(Columns[i], FirstSetting)]
<1>1. DOMAIN Columns = 1..Len(Columns) /\ Len(Columns) \in Nat
      /\ \A i, j \in DOMAIN Columns : Columns[i] = Columns[j] => i = j
  BY StructAssumption DEF IsInjective
<1>2. Len(columns) = Len(Columns) /\ \A i \in 1..Len(Columns) : columns[i].name = Columns[i]
  BY <1>1 DEF Column
<1>3. DistinctNames(columns)
  BY <1>1, <1>2 DEF DistinctNames
<1>4. dbTable.columns = columns /\ meta = dbTable /\ ops = <<>>
  BY DEF StructInit
<1>5. QED
  BY <1>3, <1>4, NothingIsApart DEF ColumnsInv

-----------------------------------------------------------------------------
(* The engine and the screen, when they get the ops in the same order.       *)

\* The rows that are not dropped, and the columns they would be.
StandingAt(rows) == {p \in 1..Len(rows) : ~rows[p].dropped}
Standing(rows) == OnlyIn(rows, {r \in ToSet(rows) : ~r.dropped})
Visible(rows) == [i \in DOMAIN Standing(rows) |-> Column(Standing(rows)[i].name, Standing(rows)[i].setting)]

\* The columns are those of the rows that stand, in order.
Mirrors(rows, columns, a) ==
  /\ Enumerates(a, Len(columns), StandingAt(rows))
  /\ \A i \in 1..Len(columns) :
       columns[i].name = rows[a[i]].name /\ columns[i].setting = rows[a[i]].setting

\* Rows and columns alike; no two rows have one name, and a dropped one keeps that of the table.
Alike(rows, columns, B) ==
  /\ rows \in Seq(Row) /\ columns \in Seq(ColumnRecord)
  /\ DistinctNames(columns) /\ DistinctNames(rows)
  /\ \A p \in 1..Len(rows) : rows[p].dropped => rows[p].name \in B
  /\ \E a : Mirrors(rows, columns, a)

LEMMA AlikeIsVisible ==
  ASSUME NEW rows, NEW columns, NEW B, Alike(rows, columns, B)
  PROVE  columns = Visible(rows)
<1> DEFINE T == {r \in ToSet(rows) : ~r.dropped}
           kept == OnlyIn(rows, T)
<1>1. rows \in Seq(Row) /\ columns \in Seq(ColumnRecord)
  BY DEF Alike
<1>2. PICK a : Mirrors(rows, columns, a)
  BY DEF Alike
<1>3. kept \in Seq(Row \cap T) /\ Len(kept) \in Nat
  BY <1>1, SelectionEnumerates
<1>4. PICK e : /\ Enumerates(e, Len(kept), KeptAt(rows, T))
               /\ \A i \in 1..Len(kept) : e[i] \in 1..Len(rows) /\ kept[i] = rows[e[i]] /\ rows[e[i]] \in T
  BY <1>1, SelectionEnumerates
<1>5. KeptAt(rows, T) = StandingAt(rows)
  <2>1. \A p \in 1..Len(rows) : rows[p] \in ToSet(rows)
    BY <1>1, OwnElements
  <2>2. QED
    BY <2>1 DEF KeptAt, StandingAt
<1>6. Standing(rows) = kept
  BY DEF Standing
<1> HIDE DEF T, kept
<1>7. Len(kept) = Len(columns) /\ \A i \in 1..Len(kept) : e[i] = a[i]
  BY <1>2, <1>4, <1>5, EnumerationsAgree DEF Mirrors
<1>8. ASSUME NEW i \in 1..Len(columns) PROVE columns[i] = Column(kept[i].name, kept[i].setting)
  <2>1. columns[i] \in ColumnRecord
    BY <1>1
  <2>2. columns[i].name = kept[i].name /\ columns[i].setting = kept[i].setting
    BY <1>2, <1>4, <1>7 DEF Mirrors
  <2>3. QED
    BY <2>1, <2>2 DEF Column, ColumnRecord
<1>9. DOMAIN kept = 1..Len(columns) /\ columns = [i \in 1..Len(columns) |-> columns[i]]
  BY <1>1, <1>3, <1>7
<1>10. QED
  BY <1>6, <1>8, <1>9 DEF Visible

\* An op of the engine goes the same way on the screen.
LEMMA AlikeAdded ==
  ASSUME NEW rows, NEW columns, NEW B, Alike(rows, columns, B), NEW op \in WireOp,
         op.op = "addColumn", Gives(op) \cap B = {}, NEW next, Took(columns, op, next)
  PROVE  Alike(ReplayColumn(rows, op), next, B)
<1> DEFINE later == ReplayColumn(rows, op)
           new == Column(op.name, op.setting)
<1>1. /\ rows \in Seq(Row) /\ columns \in Seq(ColumnRecord) /\ op \in StagedOp
      /\ Len(rows) \in Nat /\ Len(columns) \in Nat
  BY WireIsStaged DEF Alike
<1>2. PICK a : Mirrors(rows, columns, a)
  BY DEF Alike
<1>3. /\ \A i \in 1..Len(columns) : columns[i].name # op.name
      /\ next = Append(columns, new)
  BY DEF Took
<1>4. new \in ColumnRecord /\ new.name = op.name /\ new.setting = op.setting
  BY <1>1, StagedFields DEF Column, ColumnRecord
<1>5. /\ next \in Seq(ColumnRecord) /\ Len(next) = Len(columns) + 1 /\ next[Len(columns) + 1] = new
      /\ \A i \in 1..Len(columns) : next[i] = columns[i]
  BY <1>1, <1>3, <1>4, AppendPlaces
<1>6. later = Append(rows, NewRow(op)) /\ NewRow(op) \in Row /\ NewRow(op).name = op.name
      /\ NewRow(op).setting = op.setting /\ NewRow(op).dropped = FALSE
  BY <1>1, RowsAfterOp, NewRowFields
<1> HIDE DEF later, new
<1>7. /\ later \in Seq(Row) /\ Len(later) = Len(rows) + 1 /\ later[Len(rows) + 1] = NewRow(op)
      /\ \A p \in 1..Len(rows) : later[p] = rows[p]
  BY <1>1, <1>6, AppendPlaces
<1>8. /\ \A i \in 1..Len(next) : i \in 1..Len(columns) \/ i = Len(columns) + 1
      /\ \A p \in 1..Len(later) : p \in 1..Len(rows) \/ p = Len(rows) + 1
      /\ Len(columns) + 1 \in 1..Len(next) /\ Len(rows) + 1 \in 1..Len(later)
  BY <1>1, <1>5, <1>7
<1>9. op.name \notin B
  BY <1>1, NamesOfOps
<1>10. ASSUME NEW p \in 1..Len(rows) PROVE rows[p].name # op.name
  <2>1. CASE rows[p].dropped
    BY <1>9, <2>1 DEF Alike
  <2>2. CASE ~rows[p].dropped
    <3>1. p \in StandingAt(rows)
      BY <2>2 DEF StandingAt
    <3>2. PICK i \in 1..Len(columns) : a[i] = p
      BY <1>2, <3>1 DEF Mirrors, Enumerates
    <3>3. QED
      BY <1>2, <1>3, <3>2 DEF Mirrors
  <2>3. QED
    BY <2>1, <2>2
<1>11. DistinctNames(next)
  BY <1>3, <1>4, <1>5, <1>8 DEF DistinctNames, Alike
<1>12. DistinctNames(later)
  BY <1>6, <1>7, <1>8, <1>10 DEF DistinctNames, Alike
<1>13. \A p \in 1..Len(later) : later[p].dropped => later[p].name \in B
  BY <1>6, <1>7, <1>8 DEF Alike
<1>14. StandingAt(later) = StandingAt(rows) \cup {Len(rows) + 1}
  BY <1>1, <1>6, <1>7, <1>8 DEF StandingAt
<1> DEFINE b == [i \in 1..Len(next) |-> IF i = Len(columns) + 1 THEN Len(rows) + 1 ELSE a[i]]
<1>15. b[Len(columns) + 1] = Len(rows) + 1 /\ \A i \in 1..Len(columns) : b[i] = a[i]
  BY <1>1, <1>5, <1>8
<1> HIDE DEF b
<1>16. \A i \in 1..Len(columns) : a[i] \in StandingAt(rows) /\ a[i] \in 1..Len(rows)
  BY <1>2 DEF Mirrors, Enumerates, StandingAt
<1>17. Enumerates(b, Len(next), StandingAt(later))
  <2>1. StandingAt(later) \in SUBSET Nat /\ Len(next) \in Nat
    BY <1>1, <1>5, <1>7 DEF StandingAt
  <2>2. \A i \in 1..Len(next) : b[i] \in StandingAt(later)
    BY <1>8, <1>14, <1>15, <1>16
  <2>3. ASSUME NEW i \in 1..Len(next), NEW j \in 1..Len(next), i < j PROVE b[i] < b[j]
    <3>1. i \in 1..Len(columns)
      BY <1>1, <1>5, <2>3
    <3>2. CASE j \in 1..Len(columns)
      BY <1>2, <1>15, <2>3, <3>1, <3>2 DEF Mirrors, Enumerates
    <3>3. CASE j = Len(columns) + 1
      BY <1>1, <1>15, <1>16, <3>1, <3>3
    <3>4. QED
      BY <1>8, <3>2, <3>3
  <2>4. ASSUME NEW p \in StandingAt(later) PROVE \E i \in 1..Len(next) : b[i] = p
    <3>1. CASE p \in StandingAt(rows)
      <4>1. PICK i \in 1..Len(columns) : a[i] = p
        BY <1>2, <3>1 DEF Mirrors, Enumerates
      <4>2. QED
        BY <1>1, <1>5, <1>15, <4>1
    <3>2. CASE p = Len(rows) + 1
      BY <1>8, <1>15, <3>2
    <3>3. QED
      BY <1>14, <3>1, <3>2
  <2>5. QED
    BY <2>1, <2>2, <2>3, <2>4 DEF Enumerates
<1>18. \A i \in 1..Len(next) : next[i].name = later[b[i]].name /\ next[i].setting = later[b[i]].setting
  BY <1>2, <1>4, <1>5, <1>6, <1>7, <1>8, <1>15, <1>16 DEF Mirrors
<1>19. Mirrors(later, next, b)
  BY <1>17, <1>18 DEF Mirrors
<1>20. Alike(later, next, B)
  BY <1>5, <1>7, <1>11, <1>12, <1>13, <1>19 DEF Alike
<1>21. QED
  BY <1>20 DEF later

\* The row of the column an op is about.
LEMMA SameRow ==
  ASSUME NEW rows, NEW columns, NEW B, Alike(rows, columns, B), NEW op \in WireOp,
         NEW a, Mirrors(rows, columns, a), NEW i \in 1..Len(columns),
         op.op \in {"renameColumn", "change", "dropColumn"}, columns[i].name \in TargetColumn(op)
  PROVE  /\ a[i] \in 1..Len(rows) /\ ~rows[a[i]].dropped /\ rows[a[i]] \in Row
         /\ ReplayColumn(rows, op) = WithAt(rows, a[i], RedoneRow(rows[a[i]], op))
<1>1. rows \in Seq(Row) /\ columns \in Seq(ColumnRecord) /\ op \in StagedOp
  BY WireIsStaged DEF Alike
<1>2. a[i] \in StandingAt(rows) /\ a[i] \in 1..Len(rows) /\ ~rows[a[i]].dropped
  BY DEF Mirrors, Enumerates, StandingAt
<1>3. rows[a[i]].name \in TargetColumn(op)
  BY DEF Mirrors
<1>4. \A x, y \in TargetColumn(op) : x = y
  BY DEF TargetColumn
<1>5. PICK p \in 1..Len(rows) : /\ rows[p].name \in TargetColumn(op)
                                /\ ReplayColumn(rows, op) = WithAt(rows, p, RedoneRow(rows[p], op))
  BY <1>1, <1>2, <1>3, RowsAfterOp
<1>6. p = a[i]
  BY <1>2, <1>3, <1>4, <1>5 DEF Alike, DistinctNames
<1>7. rows[a[i]] \in Row
  BY <1>1, <1>2
<1>8. QED
  BY <1>2, <1>5, <1>6, <1>7

LEMMA AlikeRedone ==
  ASSUME NEW rows, NEW columns, NEW B, Alike(rows, columns, B), NEW op \in WireOp,
         op.op \in {"renameColumn", "change"}, Gives(op) \cap B = {}, NEW next, Took(columns, op, next)
  PROVE  Alike(ReplayColumn(rows, op), next, B)
<1> DEFINE later == ReplayColumn(rows, op)
<1>1. /\ rows \in Seq(Row) /\ columns \in Seq(ColumnRecord) /\ op \in StagedOp
      /\ Len(rows) \in Nat /\ Len(columns) \in Nat
  BY WireIsStaged DEF Alike
<1>2. PICK a : Mirrors(rows, columns, a)
  BY DEF Alike
<1>3. PICK i \in 1..Len(columns) :
         /\ columns[i].name \in TargetColumn(op)
         /\ op.op = "renameColumn" => \A j \in 1..Len(columns) : columns[j].name # op.to
         /\ next = WithAt(columns, i, RedoneColumn(columns[i], op))
  BY DEF Took
<1> DEFINE q == a[i]
<1>4. /\ q \in 1..Len(rows) /\ ~rows[q].dropped /\ rows[q] \in Row
      /\ later = WithAt(rows, q, RedoneRow(rows[q], op))
  BY <1>2, <1>3, SameRow
<1> HIDE DEF later
<1>5. columns[i] \in ColumnRecord /\ columns[i].name = rows[q].name /\ columns[i].setting = rows[q].setting
  BY <1>1, <1>2, <1>3 DEF Mirrors
<1> DEFINE name == IF op.op = "renameColumn" THEN op.to ELSE columns[i].name
           setting == IF op.op = "change" THEN op.setting ELSE columns[i].setting
<1>6. /\ RedoneColumn(columns[i], op) \in ColumnRecord
      /\ RedoneColumn(columns[i], op).name = name /\ RedoneColumn(columns[i], op).setting = setting
  BY <1>1, <1>5, ColumnFieldsOf
<1>7. /\ RedoneRow(rows[q], op) \in Row /\ RedoneRow(rows[q], op).name = name
      /\ RedoneRow(rows[q], op).setting = setting /\ RedoneRow(rows[q], op).dropped = FALSE
  <2>1. rows[q].dropped = FALSE
    BY <1>4 DEF Row
  <2>2. op.op # "dropColumn"
    OBVIOUS
  <2>3. QED
    BY <1>1, <1>4, <1>5, <2>1, <2>2, RedoneFields
<1>8. /\ next \in Seq(ColumnRecord) /\ Len(next) = Len(columns)
      /\ next[i].name = name /\ next[i].setting = setting
      /\ \A c \in 1..Len(columns) : c # i => next[c] = columns[c]
  <2> DEFINE x == RedoneColumn(columns[i], op)
  <2>1. x \in ColumnRecord /\ x.name = name /\ x.setting = setting /\ next = WithAt(columns, i, x)
    BY <1>3, <1>6
  <2> HIDE DEF x, name, setting
  <2>2. /\ WithAt(columns, i, x) \in Seq(ColumnRecord) /\ Len(WithAt(columns, i, x)) = Len(columns)
        /\ WithAt(columns, i, x)[i] = x
        /\ \A c \in 1..Len(columns) : c # i => WithAt(columns, i, x)[c] = columns[c]
    BY <1>1, <2>1, ChangedColumn
  <2>3. QED
    BY <2>1, <2>2
<1>9. /\ later \in Seq(Row) /\ Len(later) = Len(rows)
      /\ later[q].name = name /\ later[q].setting = setting /\ later[q].dropped = FALSE
      /\ \A p \in 1..Len(rows) : p # q => later[p] = rows[p]
  <2> DEFINE x == RedoneRow(rows[q], op)
  <2>1. /\ x \in Row /\ x.name = name /\ x.setting = setting /\ x.dropped = FALSE
        /\ q \in 1..Len(rows) /\ later = WithAt(rows, q, x)
    BY <1>4, <1>7
  <2> HIDE DEF x, name, setting, q
  <2>2. /\ WithAt(rows, q, x) \in Seq(Row) /\ Len(WithAt(rows, q, x)) = Len(rows)
        /\ WithAt(rows, q, x)[q] = x
        /\ \A p \in 1..Len(rows) : p # q => WithAt(rows, q, x)[p] = rows[p]
    BY <1>1, <2>1, ChangedRow
  <2>3. QED
    BY <2>1, <2>2
<1>10. \A c \in 1..Len(columns) :
         a[c] \in 1..Len(rows) /\ (c # i => a[c] # q)
         /\ columns[c].name = rows[a[c]].name /\ columns[c].setting = rows[a[c]].setting
  <2>1. \A c \in 1..Len(columns) :
          /\ a[c] \in 1..Len(rows) /\ columns[c].name = rows[a[c]].name
          /\ columns[c].setting = rows[a[c]].setting
    BY <1>2 DEF Mirrors, Enumerates, StandingAt
  <2>2. \A c \in 1..Len(columns) : c # i => columns[c].name # columns[i].name
    BY <1>3 DEF Alike, DistinctNames
  <2>3. QED
    BY <1>5, <2>1, <2>2
<1>11. ASSUME NEW p \in 1..Len(rows), p # q PROVE rows[p].name # name
  <2>1. CASE op.op # "renameColumn"
    BY <1>4, <1>5, <1>11, <2>1 DEF Alike, DistinctNames
  <2>2. CASE op.op = "renameColumn"
    <3>1. name = op.to /\ op.to \notin B
      BY <1>1, <2>2, NamesOfOps
    <3>2. CASE rows[p].dropped
      BY <3>1, <3>2 DEF Alike
    <3>3. CASE ~rows[p].dropped
      <4>1. PICK c \in 1..Len(columns) : a[c] = p
        BY <1>2, <3>3 DEF Mirrors, Enumerates, StandingAt
      <4>2. QED
        BY <1>3, <1>10, <2>2, <3>1, <4>1
    <3>4. QED
      BY <3>2, <3>3
  <2>3. QED
    BY <2>1, <2>2
<1>12. ASSUME NEW c \in 1..Len(columns), c # i PROVE columns[c].name # name
  BY <1>10, <1>11, <1>12
<1> HIDE DEF name, setting, q
<1>13. DistinctNames(next)
  BY <1>8, <1>12 DEF DistinctNames, Alike
<1>14. DistinctNames(later)
  BY <1>9, <1>11 DEF DistinctNames, Alike
<1>15. \A p \in 1..Len(later) : later[p].dropped => later[p].name \in B
  BY <1>9 DEF Alike
<1>16. StandingAt(later) = StandingAt(rows)
  BY <1>4, <1>9 DEF StandingAt
<1>17. \A c \in 1..Len(next) : next[c].name = later[a[c]].name /\ next[c].setting = later[a[c]].setting
  BY <1>8, <1>9, <1>10 DEF q
<1>18. Mirrors(later, next, a)
  BY <1>2, <1>8, <1>16, <1>17 DEF Mirrors
<1>19. Alike(later, next, B)
  BY <1>8, <1>9, <1>13, <1>14, <1>15, <1>18 DEF Alike
<1>20. QED
  BY <1>19 DEF later

LEMMA AlikeDropped ==
  ASSUME NEW rows, NEW columns, NEW B, Alike(rows, columns, B), NEW op \in WireOp,
         op.op = "dropColumn", TargetColumn(op) \subseteq B, NEW next, Took(columns, op, next)
  PROVE  Alike(ReplayColumn(rows, op), next, B)
<1> DEFINE later == ReplayColumn(rows, op)
           T == {c \in ToSet(columns) : c.name # op.name}
<1>1. /\ rows \in Seq(Row) /\ columns \in Seq(ColumnRecord) /\ op \in StagedOp
      /\ Len(rows) \in Nat /\ Len(columns) \in Nat
  BY WireIsStaged DEF Alike
<1>2. PICK a : Mirrors(rows, columns, a)
  BY DEF Alike
<1>3. TargetColumn(op) = {op.name} /\ op.name \in B
  BY DEF TargetColumn
<1>4. PICK i \in 1..Len(columns) : columns[i].name = op.name
  BY DEF Took
<1>5. next = OnlyIn(columns, T)
  BY DEF Took
<1> DEFINE q == a[i]
<1>6. /\ q \in 1..Len(rows) /\ ~rows[q].dropped /\ rows[q] \in Row
      /\ later = WithAt(rows, q, RedoneRow(rows[q], op))
  BY <1>2, <1>3, <1>4, SameRow
<1> HIDE DEF T
<1>7. PICK e : /\ Enumerates(e, Len(next), KeptAt(columns, T))
               /\ \A c \in 1..Len(next) : e[c] \in 1..Len(columns) /\ next[c] = columns[e[c]]
  <2>1. PICK e : /\ Enumerates(e, Len(OnlyIn(columns, T)), KeptAt(columns, T))
                 /\ \A c \in 1..Len(OnlyIn(columns, T)) :
                      /\ e[c] \in 1..Len(columns) /\ OnlyIn(columns, T)[c] = columns[e[c]]
                      /\ columns[e[c]] \in T
    <3>1. columns \in Seq(ColumnRecord)
      BY <1>1
    <3>2. QED
      BY ONLY <3>1, SelectionEnumerates
  <2>2. QED
    BY <1>5, <2>1
<1>8. next \in Seq(ColumnRecord) /\ Len(next) \in Nat
  BY <1>1, <1>5, SelectionIsOf
<1>9. KeptAt(columns, T) = (1..Len(columns)) \ {i}
  <2>1. \A c \in 1..Len(columns) : columns[c] \in ToSet(columns)
    BY <1>1, OwnElements
  <2>2. \A c \in 1..Len(columns) : columns[c].name = op.name <=> c = i
    BY <1>4 DEF Alike, DistinctNames
  <2>3. QED
    BY <2>1, <2>2 DEF KeptAt, T
<1> HIDE DEF later
<1>10. /\ RedoneRow(rows[q], op) \in Row /\ RedoneRow(rows[q], op).name = rows[q].name
       /\ RedoneRow(rows[q], op).dropped = TRUE
  <2>1. op.op # "renameColumn"
    OBVIOUS
  <2>2. QED
    BY <1>1, <1>6, <2>1, RedoneFields
<1>11. /\ later \in Seq(Row) /\ Len(later) = Len(rows)
       /\ later[q].name = rows[q].name /\ later[q].dropped = TRUE
       /\ \A p \in 1..Len(rows) : p # q => later[p] = rows[p]
  <2> DEFINE x == RedoneRow(rows[q], op)
  <2>1. /\ x \in Row /\ x.name = rows[q].name /\ x.dropped = TRUE
        /\ q \in 1..Len(rows) /\ later = WithAt(rows, q, x)
    BY <1>6, <1>10
  <2> HIDE DEF x, q
  <2>2. /\ WithAt(rows, q, x) \in Seq(Row) /\ Len(WithAt(rows, q, x)) = Len(rows)
        /\ WithAt(rows, q, x)[q] = x
        /\ \A p \in 1..Len(rows) : p # q => WithAt(rows, q, x)[p] = rows[p]
    BY <1>1, <2>1, ChangedRow
  <2>3. QED
    BY <2>1, <2>2
<1>12. \A c \in 1..Len(columns) :
         /\ a[c] \in StandingAt(rows) /\ a[c] \in 1..Len(rows)
         /\ columns[c].name = rows[a[c]].name /\ columns[c].setting = rows[a[c]].setting
  BY <1>2 DEF Mirrors, Enumerates, StandingAt
<1>13. \A c \in 1..Len(columns) : c # i => a[c] # q
  <2>1. \A c \in 1..Len(columns) : c # i => columns[c].name # columns[i].name
    BY <1>4 DEF Alike, DistinctNames
  <2>2. QED
    BY <1>12, <2>1
<1>14. rows[q].name = op.name
  BY <1>4, <1>12
<1> HIDE DEF q
<1>15. DistinctNames(later)
  <2>1. \A p \in 1..Len(rows) : later[p].name = rows[p].name
    BY <1>11
  <2>2. QED
    BY <1>11, <2>1 DEF DistinctNames, Alike
<1>16. \A p \in 1..Len(later) : later[p].dropped => later[p].name \in B
  BY <1>3, <1>11, <1>14 DEF Alike
<1>17. StandingAt(later) = StandingAt(rows) \ {q}
  BY <1>6, <1>11 DEF StandingAt
<1> DEFINE b == [c \in 1..Len(next) |-> a[e[c]]]
<1>18. \A c \in 1..Len(next) : b[c] = a[e[c]]
  OBVIOUS
<1> HIDE DEF b
<1>19. \A c \in 1..Len(next) : e[c] \in 1..Len(columns) /\ e[c] # i
  BY <1>7, <1>9 DEF Enumerates
<1>20. Enumerates(b, Len(next), StandingAt(later))
  <2>1. StandingAt(later) \in SUBSET Nat
    BY <1>1, <1>11 DEF StandingAt
  <2>2. \A c \in 1..Len(next) : b[c] \in StandingAt(later)
    BY <1>12, <1>13, <1>17, <1>18, <1>19
  <2>3. ASSUME NEW c \in 1..Len(next), NEW d \in 1..Len(next), c < d PROVE b[c] < b[d]
    <3>1. e[c] < e[d]
      BY <1>7, <2>3 DEF Enumerates
    <3>2. a[e[c]] < a[e[d]]
      BY <1>2, <1>19, <3>1 DEF Mirrors, Enumerates
    <3>3. QED
      BY <1>18, <3>2
  <2>4. ASSUME NEW p \in StandingAt(later) PROVE \E c \in 1..Len(next) : b[c] = p
    <3>1. p \in StandingAt(rows) /\ p # q
      BY <1>17
    <3>2. PICK d \in 1..Len(columns) : a[d] = p
      BY <1>2, <3>1 DEF Mirrors, Enumerates
    <3>3. d \in KeptAt(columns, T)
      BY <1>9, <3>1, <3>2 DEF q
    <3>4. PICK c \in 1..Len(next) : e[c] = d
      BY <1>7, <3>3 DEF Enumerates
    <3>5. QED
      BY <1>18, <3>2, <3>4
  <2>5. QED
    BY <1>8, <2>1, <2>2, <2>3, <2>4 DEF Enumerates
<1>21. \A c \in 1..Len(next) : next[c].name = later[b[c]].name /\ next[c].setting = later[b[c]].setting
  <2>1. \A c \in 1..Len(next) : later[b[c]] = rows[a[e[c]]]
    BY <1>11, <1>12, <1>13, <1>18, <1>19
  <2>2. \A c \in 1..Len(next) : e[c] \in 1..Len(columns) /\ next[c] = columns[e[c]]
    BY <1>7
  <2>3. ASSUME NEW c \in 1..Len(next)
        PROVE  next[c].name = later[b[c]].name /\ next[c].setting = later[b[c]].setting
    <3>1. later[b[c]] = rows[a[e[c]]] /\ next[c] = columns[e[c]] /\ e[c] \in 1..Len(columns)
      BY <2>1, <2>2
    <3>2. /\ columns[e[c]].name = rows[a[e[c]]].name
          /\ columns[e[c]].setting = rows[a[e[c]]].setting
      BY <1>12, <3>1
    <3>3. QED
      BY <3>1, <3>2
  <2>4. QED
    BY <2>3
<1>22. Mirrors(later, next, b)
  BY <1>20, <1>21 DEF Mirrors
<1>23. DistinctNames(next)
  <2>1. \A c, d \in 1..Len(next) : next[c].name = next[d].name => e[c] = e[d]
    <3>1. \A c \in 1..Len(next) : e[c] \in 1..Len(columns) /\ next[c] = columns[e[c]]
      BY <1>7
    <3>2. \A c, d \in 1..Len(columns) : columns[c].name = columns[d].name => c = d
      BY DEF Alike, DistinctNames
    <3>3. ASSUME NEW c \in 1..Len(next), NEW d \in 1..Len(next), next[c].name = next[d].name
          PROVE  e[c] = e[d]
      <4>1. /\ e[c] \in 1..Len(columns) /\ next[c] = columns[e[c]]
            /\ e[d] \in 1..Len(columns) /\ next[d] = columns[e[d]]
        BY <3>1
      <4>2. columns[e[c]].name = columns[e[d]].name
        BY <3>3, <4>1
      <4>3. QED
        BY <3>2, <4>1, <4>2
    <3>4. QED
      BY <3>3
  <2>2. ASSUME NEW c \in 1..Len(next), NEW d \in 1..Len(next), next[c].name = next[d].name PROVE c = d
    <3>1. ~(c < d) /\ ~(d < c)
      <4>1. e[c] = e[d] /\ e[c] \in Int /\ e[d] \in Int
        BY <1>19, <2>1, <2>2
      <4>2. c < d => e[c] < e[d]
        BY <1>7 DEF Enumerates
      <4>3. d < c => e[d] < e[c]
        BY <1>7 DEF Enumerates
      <4>4. QED
        BY <4>1, <4>2, <4>3
    <3>2. QED
      BY <1>8, <3>1
  <2>3. QED
    BY <2>2 DEF DistinctNames
<1>24. Alike(later, next, B)
  BY <1>8, <1>11, <1>15, <1>16, <1>22, <1>23 DEF Alike
<1>25. QED
  BY <1>24 DEF later

LEMMA AlikeNext ==
  ASSUME NEW rows, NEW columns, NEW B, Alike(rows, columns, B), NEW op \in WireOp,
         TargetColumn(op) \subseteq B, Gives(op) \cap B = {}, TargetColumns(columns, op) # <<>>
  PROVE  columns # <<>> /\ Alike(ReplayColumn(rows, op), TargetColumns(columns, op), B)
<1>1. columns \in Seq(ColumnRecord) /\ DistinctNames(columns) /\ rows \in Seq(Row) /\ op \in StagedOp
  BY WireIsStaged DEF Alike
<1>2. columns # <<>> /\ Took(columns, op, TargetColumns(columns, op))
  BY <1>1, EngineTook
<1>3. CASE op.op \in {"addIndex", "dropIndex"}
  <2>1. TargetColumns(columns, op) = columns
    BY <1>2, <1>3 DEF Took
  <2>2. ReplayColumn(rows, op) = rows
    BY <1>3 DEF ReplayColumn
  <2>3. QED
    BY <1>2, <2>1, <2>2
<1>4. op.op \in {"addColumn", "renameColumn", "change", "dropColumn", "addIndex", "dropIndex"}
  BY WireIsStaged, <1>1, StagedFields
<1>5. QED
  BY <1>2, <1>3, <1>4, AlikeAdded, AlikeRedone, AlikeDropped

\* The engine takes the whole of a batch only if its columns go with the rows all the way.
LEMMA EngineIsAlike ==
  ASSUME NEW columns \in Seq(ColumnRecord), DistinctNames(columns), NEW batch \in Seq(WireOp),
         \A i \in 1..Len(batch) : /\ TargetColumn(batch[i]) \subseteq NamesOf(columns)
                                  /\ Gives(batch[i]) \cap NamesOf(columns) = {},
         Columnwise!Folded(columns, batch) # <<>>
  PROVE  Columnwise!Folded(columns, batch) = Visible(applyOpsToColumns(columns, batch))
<1> DEFINE B == NamesOf(columns)
           n == Len(batch)
<1>1. n \in Nat
  OBVIOUS
<1>2. PICK t : RowDeck!Runs(t, DrawnRows(columns), batch)
               /\ t[n] = RowDeck!Folded(DrawnRows(columns), batch)
  BY RowDeck!FoldRuns
<1>3. PICK u : Columnwise!Runs(u, columns, batch) /\ u[n] = Columnwise!Folded(columns, batch)
  BY Columnwise!FoldRuns
<1>4. t[0] = DrawnRows(columns) /\ \A k \in 1..n : t[k] = ReplayColumn(t[k - 1], batch[k])
  BY <1>2 DEF RowDeck!Runs
<1>5. u[0] = columns /\ \A k \in 1..n : u[k] = TargetColumns(u[k - 1], batch[k])
  BY <1>3 DEF Columnwise!Runs
<1>6. \A k \in 1..n : batch[k] \in WireOp /\ TargetColumn(batch[k]) \subseteq B /\ Gives(batch[k]) \cap B = {}
  OBVIOUS
<1>7. Alike(DrawnRows(columns), columns, B)
  <2> DEFINE rows == DrawnRows(columns)
             a == [i \in 1..Len(columns) |-> i]
  <2>1. /\ rows \in Seq(Row) /\ Len(rows) = Len(columns) /\ Len(columns) \in Nat
        /\ \A i \in 1..Len(columns) : /\ rows[i].name = columns[i].name
                                      /\ rows[i].setting = columns[i].setting
                                      /\ rows[i].dropped = FALSE
    BY DrawnRowsAre
  <2> HIDE DEF rows
  <2>2. StandingAt(rows) = 1..Len(columns)
    BY <2>1 DEF StandingAt
  <2>3. \A i \in 1..Len(columns) : a[i] = i
    OBVIOUS
  <2> HIDE DEF a
  <2>4. Enumerates(a, Len(columns), StandingAt(rows))
    BY <2>1, <2>2, <2>3, SMTT(30) DEF Enumerates
  <2>5. Mirrors(rows, columns, a)
    BY <2>1, <2>3, <2>4 DEF Mirrors
  <2>6. DistinctNames(rows)
    BY <2>1 DEF DistinctNames
  <2> HIDE DEF B
  <2>7. Alike(rows, columns, B)
    BY <2>1, <2>5, <2>6 DEF Alike
  <2>8. QED
    BY <2>7 DEF rows
<1> HIDE DEF B, n
<1> DEFINE Good(k) == u[k] # <<>> => Alike(t[k], u[k], B)
           G == {k \in 0..n : Good(k)}
<1>8. ASSUME NEW op \in WireOp PROVE TargetColumns(<<>>, op) = <<>>
  BY DEF TargetColumns
<1>9. ASSUME NEW k \in 0..(n - 1), Good(k) PROVE Good(k + 1)
  <2>1. k + 1 \in 1..n /\ (k + 1) - 1 = k
    BY <1>1
  <2>2. t[k + 1] = ReplayColumn(t[k], batch[k + 1]) /\ u[k + 1] = TargetColumns(u[k], batch[k + 1])
    BY <1>4, <1>5, <2>1
  <2>3. CASE u[k] = <<>>
    BY <1>6, <1>8, <2>1, <2>2, <2>3
  <2>4. CASE Alike(t[k], u[k], B)
    BY <1>6, <2>1, <2>2, <2>4, AlikeNext
  <2>5. QED
    BY <1>9, <2>3, <2>4
<1>10. 0..n \subseteq G
  <2>1. 0 \in G
    BY <1>1, <1>4, <1>5, <1>7
  <2>2. ASSUME NEW k \in 0..(n - 1), k \in G PROVE k + 1 \in G
    BY <1>1, <1>9, <2>2
  <2> HIDE DEF G
  <2>3. QED
    BY <1>1, <2>1, <2>2, CountingUp
<1>11. Alike(t[n], u[n], B)
  BY <1>1, <1>3, <1>10 DEF n
<1>12. u[n] = Visible(t[n])
  BY <1>11, AlikeIsVisible
<1>13. QED
  BY <1>2, <1>3, <1>12, RowsAreFolded

-----------------------------------------------------------------------------
(* The rows of untangled ops, whatever the order.                            *)

\* What a list of ops about the columns of the table must be for the rows it leaves behind not
\* to depend on its order.
Steady(staged, B) ==
  /\ \A o \in ToSet(staged) : TargetColumn(o) \subseteq B /\ Gives(o) \cap B = {}
  /\ \A o, p \in ToSet(staged) :
       /\ Frees(o) \cap Frees(p) # {} => o = p
       /\ ChangeOf(o) \cap ChangeOf(p) # {} => o = p
       /\ o.op = "renameColumn" /\ p.op \in {"change", "dropColumn"} => o.from \notin TargetColumn(p)

IsRenameOf(op, b) == op.op = "renameColumn" /\ op.from = b
IsChangeOf(op, b) == op.op = "change" /\ op.column = b
IsDropOf(op, b) == op.op = "dropColumn" /\ op.name = b

\* The row of a column, once the ops of a set are replayed in whatever order.
IsRowOf(row, column, A) ==
  /\ row.origin = <<column.name>>
  /\ \A o \in A : IsRenameOf(o, column.name) => row.name = o.to
  /\ (\A o \in A : ~IsRenameOf(o, column.name)) => row.name = column.name
  /\ \A o \in A : IsChangeOf(o, column.name) => row.setting = o.setting
  /\ (\A o \in A : ~IsChangeOf(o, column.name)) => row.setting = column.setting
  /\ row.dropped <=> \E o \in A : IsDropOf(o, column.name)

Upto(staged, k) == {staged[j] : j \in 1..k}
AddsUpto(staged, k) == {j \in 1..k : staged[j].op = "addColumn"}

\* After k ops the rows are those of the columns, and then those of the columns added.
Replayed(rows, columns, staged, k) ==
  /\ rows \in Seq(Row) /\ Len(columns) <= Len(rows)
  /\ \A i \in 1..Len(columns) : IsRowOf(rows[i], columns[i], Upto(staged, k))
  /\ \E a : /\ Enumerates(a, Len(rows) - Len(columns), AddsUpto(staged, k))
            /\ \A i \in 1..(Len(rows) - Len(columns)) :
                 rows[Len(columns) + i] = NewRow(staged[a[i]])

\* A row of the column's name, while none of the staged names is one of the table's.
LEMMA RowsOfTheName ==
  ASSUME NEW columns \in Seq(ColumnRecord), NEW staged \in Seq(StagedOp),
         Steady(staged, NamesOf(columns)), NEW k \in 0..Len(staged),
         NEW rows, Replayed(rows, columns, staged, k), NEW p \in 1..Len(rows),
         rows[p].name \in NamesOf(columns)
  PROVE  p \in 1..Len(columns) /\ columns[p].name = rows[p].name
<1> DEFINE B == NamesOf(columns)
<1>1. /\ Len(columns) \in Nat /\ Len(staged) \in Nat
      /\ \A j \in 1..k : staged[j] \in ToSet(staged) /\ staged[j] \in StagedOp
      /\ \A j \in 1..k : Gives(staged[j]) \cap B = {}
  <2>1. Len(columns) \in Nat /\ Len(staged) \in Nat
    OBVIOUS
  <2>2. \A j \in 1..k : j \in 1..Len(staged)
    BY <2>1
  <2>3. \A j \in 1..Len(staged) : staged[j] \in ToSet(staged) /\ staged[j] \in StagedOp
    BY OwnElements
  <2>4. QED
    BY <2>1, <2>2, <2>3 DEF Steady
<1>2. rows \in Seq(Row) /\ Len(rows) \in Nat
  BY DEF Replayed
<1>3. p \in 1..Len(columns)
  <2>1. SUFFICES ASSUME ~(p \in 1..Len(columns)) PROVE FALSE
    OBVIOUS
  <2>2. PICK a : /\ Enumerates(a, Len(rows) - Len(columns), AddsUpto(staged, k))
                 /\ \A i \in 1..(Len(rows) - Len(columns)) : rows[Len(columns) + i] = NewRow(staged[a[i]])
    BY DEF Replayed
  <2> DEFINE i == p - Len(columns)
  <2>3. i \in 1..(Len(rows) - Len(columns)) /\ Len(columns) + i = p
    BY <1>1, <1>2, <2>1
  <2>4. a[i] \in 1..k /\ staged[a[i]].op = "addColumn" /\ rows[p] = NewRow(staged[a[i]])
    BY <2>2, <2>3 DEF Enumerates, AddsUpto
  <2> DEFINE o == staged[a[i]]
  <2>5. rows[p].name \in Gives(o) /\ Gives(o) \cap B = {}
    <3>1. o \in StagedOp /\ o.op = "addColumn" /\ rows[p] = NewRow(o) /\ Gives(o) \cap B = {}
      BY <1>1, <2>4
    <3> HIDE DEF o
    <3>2. Gives(o) = {o.name} /\ NewRow(o).name = o.name
      BY <3>1, NewRowFields, NamesOfOps
    <3>3. QED
      BY <3>1, <3>2
  <2>6. QED
    BY <2>5
<1>4. CASE \A j \in 1..k : ~IsRenameOf(staged[j], columns[p].name)
  <2>1. \A o \in Upto(staged, k) : ~IsRenameOf(o, columns[p].name)
    BY <1>4 DEF Upto
  <2>2. QED
    BY <1>3, <2>1 DEF Replayed, IsRowOf
<1>5. ASSUME NEW j \in 1..k, IsRenameOf(staged[j], columns[p].name) PROVE FALSE
  <2>1. rows[p].name = staged[j].to /\ staged[j].op = "renameColumn"
    BY <1>3, <1>5 DEF Replayed, IsRowOf, Upto, IsRenameOf
  <2>2. rows[p].name \in Gives(staged[j])
    BY <1>1, <2>1, NamesOfOps
  <2>3. QED
    BY <1>1, <2>2
<1>6. QED
  BY <1>3, <1>4, <1>5

LEMMA ReplayedAdd ==
  ASSUME NEW columns \in Seq(ColumnRecord), NEW staged \in Seq(StagedOp),
         NEW k \in 0..(Len(staged) - 1), NEW rows, Replayed(rows, columns, staged, k),
         staged[k + 1].op = "addColumn"
  PROVE  Replayed(ReplayColumn(rows, staged[k + 1]), columns, staged, k + 1)
<1> DEFINE op == staged[k + 1]
           later == ReplayColumn(rows, op)
           n == Len(columns)
           m == Len(rows) - n
<1>1. /\ n \in Nat /\ Len(staged) \in Nat /\ k + 1 \in 1..Len(staged) /\ op \in StagedOp
      /\ rows \in Seq(Row) /\ Len(rows) \in Nat /\ n <= Len(rows) /\ m \in Nat
      /\ op.op = "addColumn"
  BY DEF Replayed
<1>2. PICK a : /\ Enumerates(a, m, AddsUpto(staged, k))
               /\ \A i \in 1..m : rows[n + i] = NewRow(staged[a[i]])
  BY DEF Replayed
<1>3. \A i \in 1..n : IsRowOf(rows[i], columns[i], Upto(staged, k))
  BY DEF Replayed
<1>4. later = Append(rows, NewRow(op)) /\ NewRow(op) \in Row
  BY <1>1, RowsAfterOp, NewRowFields
<1> HIDE DEF later
<1>5. /\ later \in Seq(Row) /\ Len(later) = Len(rows) + 1 /\ later[Len(rows) + 1] = NewRow(op)
      /\ \A p \in 1..Len(rows) : later[p] = rows[p]
  BY <1>1, <1>4, AppendPlaces
<1>6. AddsUpto(staged, k + 1) = AddsUpto(staged, k) \cup {k + 1}
  BY <1>1 DEF AddsUpto
<1>7. Upto(staged, k + 1) = Upto(staged, k) \cup {op}
  <2>1. \A j : j \in 1..(k + 1) <=> j \in 1..k \/ j = k + 1
    BY <1>1
  <2>2. QED
    BY <2>1 DEF Upto
<1>8. ASSUME NEW i \in 1..n PROVE IsRowOf(later[i], columns[i], Upto(staged, k + 1))
  <2>1. later[i] = rows[i]
    BY <1>1, <1>5
  <2>2. \A b : ~IsRenameOf(op, b) /\ ~IsChangeOf(op, b) /\ ~IsDropOf(op, b)
    BY <1>1 DEF IsRenameOf, IsChangeOf, IsDropOf
  <2> HIDE DEF op
  <2>3. IsRowOf(rows[i], columns[i], Upto(staged, k))
    BY <1>3
  <2>4. QED
    BY <1>7, <2>1, <2>2, <2>3 DEF IsRowOf
<1> DEFINE b == [i \in 1..(m + 1) |-> IF i = m + 1 THEN k + 1 ELSE a[i]]
<1>9. b[m + 1] = k + 1 /\ \A i \in 1..m : b[i] = a[i]
  BY <1>1
<1> HIDE DEF b
<1>10. \A i \in 1..(m + 1) : i \in 1..m \/ i = m + 1
  BY <1>1
<1>11. \A i \in 1..m : a[i] \in AddsUpto(staged, k) /\ a[i] \in 1..k
  BY <1>2 DEF Enumerates, AddsUpto
<1> HIDE DEF n, m
<1>12. Enumerates(b, m + 1, AddsUpto(staged, k + 1))
  <2>1. AddsUpto(staged, k + 1) \in SUBSET Nat /\ m + 1 \in Nat
    BY <1>1 DEF AddsUpto
  <2>2. \A i \in 1..(m + 1) : b[i] \in AddsUpto(staged, k + 1)
    BY <1>6, <1>9, <1>10, <1>11
  <2>3. ASSUME NEW i \in 1..(m + 1), NEW j \in 1..(m + 1), i < j PROVE b[i] < b[j]
    <3>1. i \in 1..m
      BY <1>1, <2>3
    <3>2. CASE j \in 1..m
      BY <1>2, <1>9, <2>3, <3>1, <3>2 DEF Enumerates
    <3>3. CASE j = m + 1
      <4>1. b[i] \in 1..k /\ b[j] = k + 1
        BY <1>9, <1>11, <3>1, <3>3
      <4>2. QED
        BY <1>1, <4>1
    <3>4. QED
      BY <1>10, <3>2, <3>3
  <2>4. ASSUME NEW x \in AddsUpto(staged, k + 1) PROVE \E i \in 1..(m + 1) : b[i] = x
    <3>1. CASE x \in AddsUpto(staged, k)
      <4>1. PICK i \in 1..m : a[i] = x
        BY <1>2, <3>1 DEF Enumerates
      <4>2. QED
        BY <1>1, <1>9, <4>1, SMTT(30)
    <3>2. CASE x = k + 1
      BY <1>1, <1>9, <3>2
    <3>3. QED
      BY <1>6, <3>1, <3>2
  <2>5. QED
    BY <2>1, <2>2, <2>3, <2>4 DEF Enumerates
<1>13. Len(later) - n = m + 1 /\ n <= Len(later)
  BY <1>1, <1>5 DEF m
<1>14. ASSUME NEW i \in 1..(m + 1) PROVE later[n + i] = NewRow(staged[b[i]])
  <2>1. CASE i \in 1..m
    <3>1. n + i \in 1..Len(rows)
      BY <1>1, <2>1 DEF m
    <3>2. QED
      BY <1>2, <1>5, <1>9, <2>1, <3>1
  <2>2. CASE i = m + 1
    <3>1. n + i = Len(rows) + 1
      BY <1>1, <2>2 DEF m
    <3>2. QED
      BY <1>5, <1>9, <2>2, <3>1
  <2>3. QED
    BY <1>10, <2>1, <2>2
<1>15. Replayed(later, columns, staged, k + 1)
  BY <1>5, <1>8, <1>12, <1>13, <1>14 DEF Replayed, n
<1>16. QED
  BY <1>15 DEF later

\* The ops that add nothing leave the added rows alone, and as many rows as there were.
LEMMA ReplayedOther ==
  ASSUME NEW columns \in Seq(ColumnRecord), NEW staged \in Seq(StagedOp),
         Steady(staged, NamesOf(columns)), DistinctNames(columns),
         NEW k \in 0..(Len(staged) - 1), NEW rows, Replayed(rows, columns, staged, k),
         staged[k + 1].op # "addColumn"
  PROVE  Replayed(ReplayColumn(rows, staged[k + 1]), columns, staged, k + 1)
<1> DEFINE op == staged[k + 1]
           later == ReplayColumn(rows, op)
           n == Len(columns)
           A == Upto(staged, k)
           B == NamesOf(columns)
<1>1. /\ n \in Nat /\ Len(staged) \in Nat /\ k + 1 \in 1..Len(staged) /\ op \in StagedOp
      /\ op \in ToSet(staged)
      /\ rows \in Seq(Row) /\ Len(rows) \in Nat /\ n <= Len(rows) /\ Len(rows) - n \in Nat
      /\ op.op # "addColumn" /\ k \in 0..Len(staged)
      /\ \A i \in 1..n : i \in 1..Len(rows) /\ columns[i].name \in B
  <2>1. /\ n \in Nat /\ Len(staged) \in Nat /\ k + 1 \in 1..Len(staged) /\ op \in StagedOp
        /\ rows \in Seq(Row) /\ Len(rows) \in Nat /\ n <= Len(rows) /\ Len(rows) - n \in Nat
        /\ op.op # "addColumn" /\ k \in 0..Len(staged)
    BY DEF Replayed
  <2>2. op \in ToSet(staged)
    BY <2>1, OwnElements
  <2>3. \A i \in 1..n : i \in 1..Len(rows) /\ columns[i].name \in B
    BY <2>1 DEF NamesOf
  <2>4. QED
    BY <2>1, <2>2, <2>3
<1>2. AddsUpto(staged, k + 1) = AddsUpto(staged, k)
  BY <1>1 DEF AddsUpto
<1>3. Upto(staged, k + 1) = A \cup {op}
  <2>1. \A j : j \in 1..(k + 1) <=> j \in 1..k \/ j = k + 1
    BY <1>1
  <2>2. QED
    BY <2>1 DEF Upto
<1>4. A \subseteq ToSet(staged) /\ A \subseteq StagedOp
  <2>1. \A j \in 1..k : j \in 1..Len(staged)
    BY <1>1
  <2>2. \A j \in 1..Len(staged) : staged[j] \in ToSet(staged) /\ staged[j] \in StagedOp
    BY OwnElements
  <2>3. QED
    BY <2>1, <2>2 DEF Upto
<1>5. \A i \in 1..n : IsRowOf(rows[i], columns[i], A)
  BY DEF Replayed
<1>6. PICK a : /\ Enumerates(a, Len(rows) - n, AddsUpto(staged, k))
               /\ \A i \in 1..(Len(rows) - n) : rows[n + i] = NewRow(staged[a[i]])
  BY DEF Replayed
<1>7. \A p \in 1..Len(rows) : rows[p].name \in B => p \in 1..n /\ columns[p].name = rows[p].name
  BY <1>1, RowsOfTheName
<1>8. TargetColumn(op) \subseteq B /\ Gives(op) \cap B = {}
  BY <1>1 DEF Steady
<1>9. \A o \in A : /\ Frees(o) \cap Frees(op) # {} => o = op
                   /\ ChangeOf(o) \cap ChangeOf(op) # {} => o = op
                   /\ o.op = "renameColumn" /\ op.op \in {"change", "dropColumn"} =>
                        o.from \notin TargetColumn(op)
  BY <1>1, <1>4 DEF Steady
<1> SUFFICES Replayed(later, columns, staged, k + 1)
  OBVIOUS
<1> HIDE DEF op, later, n, A, B
\* It is enough that the rows of the columns are as they should be.
<1>10. ASSUME later \in Seq(Row), Len(later) = Len(rows),
              \A p \in 1..Len(rows) : p \notin 1..n => later[p] = rows[p],
              \A i \in 1..n : IsRowOf(later[i], columns[i], A \cup {op})
       PROVE  Replayed(later, columns, staged, k + 1)
  <2>1. \A i \in 1..(Len(rows) - n) : n + i \in 1..Len(rows) /\ n + i \notin 1..n
    BY <1>1
  <2>2. \A i \in 1..(Len(rows) - n) : later[n + i] = NewRow(staged[a[i]])
    BY <1>6, <1>10, <2>1
  <2>3. QED
    BY <1>1, <1>2, <1>3, <1>6, <1>10, <2>2 DEF Replayed, n
\* An op that is not about a column makes no difference to its row.
<1>11. ASSUME NEW i \in 1..n, columns[i].name \notin TargetColumn(op)
       PROVE  IsRowOf(rows[i], columns[i], A \cup {op})
  <2>1. ~IsRenameOf(op, columns[i].name) /\ ~IsChangeOf(op, columns[i].name) /\ ~IsDropOf(op, columns[i].name)
    BY <1>11 DEF TargetColumn, IsRenameOf, IsChangeOf, IsDropOf
  <2>2. QED
    BY <1>5, <2>1 DEF IsRowOf
<1>12. CASE TargetColumn(op) = {}
  <2>1. later = rows
    BY <1>1, <1>12, RowsAfterOp DEF later
  <2>2. QED
    BY <1>1, <1>10, <1>11, <1>12, <2>1
<1>13. CASE op.op \in {"renameColumn", "change", "dropColumn"}
  <2>1. PICK b : TargetColumn(op) = {b}
    BY <1>13 DEF TargetColumn
  <2>2. PICK i \in 1..n : columns[i].name = b
    <3>1. b \in B /\ DOMAIN columns = 1..n
      BY <1>8, <2>1 DEF n
    <3>2. QED
      BY <3>1 DEF B, NamesOf
  <2>3. \A p \in 1..n : p # i => columns[p].name # b
    BY <2>2 DEF DistinctNames, n
  <2>4. rows[i] \in Row /\ i \in 1..Len(rows) /\ IsRowOf(rows[i], columns[i], A)
    BY <1>1, <1>5
  <2>5. CASE \A p \in 1..Len(rows) : rows[p].name \notin TargetColumn(op)
    <3>1. later = rows
      BY <1>1, <2>5, RowsAfterOp DEF later
    <3>2. rows[i].name # b
      BY <2>1, <2>4, <2>5
    <3>3. PICK o \in A : IsRenameOf(o, b)
      BY <2>2, <2>4, <3>2 DEF IsRowOf
    <3>4. op.op = "renameColumn" /\ op.from = b
      BY <1>9, <1>13, <2>1, <3>3 DEF IsRenameOf, TargetColumn
    <3>5. o = op
      BY <1>9, <3>3, <3>4 DEF IsRenameOf, Frees
    <3>6. A \cup {op} = A
      BY <3>5
    <3>7. QED
      BY <1>1, <1>5, <1>10, <3>1, <3>6
  <2>6. ASSUME NEW p \in 1..Len(rows), rows[p].name \in TargetColumn(op),
               later = WithAt(rows, p, RedoneRow(rows[p], op))
        PROVE  Replayed(later, columns, staged, k + 1)
    <3>1. p = i
      BY <1>7, <1>8, <2>1, <2>3, <2>6
    <3> DEFINE x == RedoneRow(rows[i], op)
    <3>2. /\ x \in Row /\ x.origin = rows[i].origin
          /\ x.name = IF op.op = "renameColumn" THEN op.to ELSE rows[i].name
          /\ x.setting = IF op.op = "change" THEN op.setting ELSE rows[i].setting
          /\ x.dropped = (op.op = "dropColumn" \/ rows[i].dropped)
      BY <1>1, <1>13, <2>4, RedoneFields
    <3>3. later = WithAt(rows, i, x)
      BY <2>6, <3>1
    <3> HIDE DEF x
    <3>4. /\ later \in Seq(Row) /\ Len(later) = Len(rows) /\ later[i] = x
          /\ \A q \in 1..Len(rows) : q # i => later[q] = rows[q]
      BY <1>1, <2>4, <3>2, <3>3, ChangedRow, ZenonT(40)
    <3>5. \A q \in 1..n : q # i => IsRowOf(later[q], columns[q], A \cup {op})
      BY <1>1, <1>11, <2>1, <2>3, <3>4
    <3>6. rows[i].name = b
      BY <2>1, <2>6, <3>1
    <3>7. \A o \in A : IsRenameOf(o, b) => o = op
      BY <1>9, <1>13, <2>1 DEF IsRenameOf, Frees, TargetColumn
    <3>8. \A o \in A : IsChangeOf(o, b) /\ op.op = "change" => o = op
      BY <1>9, <2>1 DEF IsChangeOf, ChangeOf, TargetColumn
    <3>9. IsRowOf(x, columns[i], A \cup {op})
      <4>1. CASE op.op = "renameColumn"
        <5>1. op.from = b /\ IsRenameOf(op, b) /\ ~IsChangeOf(op, b) /\ ~IsDropOf(op, b)
          BY <2>1, <4>1 DEF TargetColumn, IsRenameOf, IsChangeOf, IsDropOf
        <5>2. QED
          BY <2>2, <2>4, <3>2, <3>7, <4>1, <5>1 DEF IsRowOf
      <4>2. CASE op.op = "change"
        <5>1. op.column = b /\ ~IsRenameOf(op, b) /\ IsChangeOf(op, b) /\ ~IsDropOf(op, b)
          BY <2>1, <4>2 DEF TargetColumn, IsRenameOf, IsChangeOf, IsDropOf
        <5>2. QED
          BY <2>2, <2>4, <3>2, <3>8, <4>2, <5>1 DEF IsRowOf
      <4>3. CASE op.op = "dropColumn"
        <5>1. op.name = b /\ ~IsRenameOf(op, b) /\ ~IsChangeOf(op, b) /\ IsDropOf(op, b)
          BY <2>1, <4>3 DEF TargetColumn, IsRenameOf, IsChangeOf, IsDropOf
        <5>2. QED
          BY <2>2, <2>4, <3>2, <4>3, <5>1 DEF IsRowOf
      <4>4. QED
        BY <1>13, <4>1, <4>2, <4>3
    <3>10. QED
      BY <1>1, <1>10, <3>4, <3>5, <3>9
  <2>7. QED
    BY <1>1, <2>5, <2>6, RowsAfterOp DEF later
<1>14. TargetColumn(op) = {} \/ op.op \in {"renameColumn", "change", "dropColumn"}
  BY DEF TargetColumn
<1>15. QED
  BY <1>12, <1>13, <1>14

\* Whatever the order of the ops.
LEMMA RowsInTheEnd ==
  ASSUME NEW columns \in Seq(ColumnRecord), DistinctNames(columns), NEW staged \in Seq(StagedOp),
         Steady(staged, NamesOf(columns))
  PROVE  Replayed(applyOpsToColumns(columns, staged), columns, staged, Len(staged))
<1> DEFINE n == Len(staged)
<1>1. n \in Nat
  OBVIOUS
<1>2. PICK t : RowDeck!Runs(t, DrawnRows(columns), staged)
               /\ t[n] = RowDeck!Folded(DrawnRows(columns), staged)
  BY RowDeck!FoldRuns
<1>3. t[0] = DrawnRows(columns) /\ \A k \in 1..n : t[k] = ReplayColumn(t[k - 1], staged[k])
  BY <1>2 DEF RowDeck!Runs
<1> DEFINE G == {k \in 0..n : Replayed(t[k], columns, staged, k)}
<1>4. Replayed(t[0], columns, staged, 0)
  <2> DEFINE rows == DrawnRows(columns)
  <2>1. /\ rows \in Seq(Row) /\ Len(rows) = Len(columns) /\ Len(columns) \in Nat
        /\ \A i \in 1..Len(columns) : /\ rows[i].name = columns[i].name
                                      /\ rows[i].setting = columns[i].setting
                                      /\ rows[i].origin = <<columns[i].name>>
                                      /\ rows[i].dropped = FALSE
    BY DrawnRowsAre
  <2> HIDE DEF rows
  <2>2. Upto(staged, 0) = {} /\ AddsUpto(staged, 0) = {}
    BY DEF Upto, AddsUpto
  <2>3. \A i \in 1..Len(columns) : IsRowOf(rows[i], columns[i], Upto(staged, 0))
    BY <2>1, <2>2 DEF IsRowOf
  <2>4. Enumerates(<<>>, 0, {}) /\ 1..0 = {} /\ Len(rows) - Len(columns) = 0
    BY <2>1 DEF Enumerates
  <2>5. \E a : /\ Enumerates(a, Len(rows) - Len(columns), AddsUpto(staged, 0))
                /\ \A i \in 1..(Len(rows) - Len(columns)) :
                     rows[Len(columns) + i] = NewRow(staged[a[i]])
    BY <2>2, <2>4
  <2>6. Len(columns) <= Len(rows) /\ rows \in Seq(Row)
    BY <2>1
  <2>7. Replayed(rows, columns, staged, 0)
    BY ONLY <2>3, <2>5, <2>6 DEF Replayed
  <2>8. QED
    BY <1>3, <2>7 DEF rows
<1>5. ASSUME NEW k \in 0..(n - 1), Replayed(t[k], columns, staged, k)
      PROVE  Replayed(t[k + 1], columns, staged, k + 1)
  <2>1. k + 1 \in 1..n /\ (k + 1) - 1 = k
    BY <1>1
  <2>2. t[k + 1] = ReplayColumn(t[k], staged[k + 1])
    BY <1>3, <2>1
  <2>3. QED
    BY <1>5, <2>2, ReplayedAdd, ReplayedOther
<1>6. 0..n \subseteq G
  <2>1. 0 \in G
    BY <1>1, <1>4
  <2>2. ASSUME NEW k \in 0..(n - 1), k \in G PROVE k + 1 \in G
    BY <1>1, <1>5, <2>2
  <2> HIDE DEF G, n
  <2>3. QED
    BY <1>1, <2>1, <2>2, CountingUp
<1>7. Replayed(t[n], columns, staged, n)
  BY <1>1, <1>6
<1>8. QED
  BY <1>2, <1>7, RowsAreFolded

-----------------------------------------------------------------------------
(* The order of the batch and the order of staging (structure/ops.ts toWireBatch).*)

ColumnOps == {"renameColumn", "change", "dropColumn"}

\* Lists with the same ops about columns, that add the same columns in the same order.
SameColumnOps(one, two, T) ==
  /\ \A op \in StagedOp : op.op \in ColumnOps => (op \in ToSet(one) <=> op \in ToSet(two))
  /\ \A i \in 1..Len(one) : one[i].op = "addColumn" <=> one[i] \in T
  /\ \A i \in 1..Len(two) : two[i].op = "addColumn" <=> two[i] \in T
  /\ OnlyIn(one, T) = OnlyIn(two, T)

LEMMA UptoTheEnd ==
  ASSUME NEW staged \in Seq(StagedOp)
  PROVE  Upto(staged, Len(staged)) = ToSet(staged)
<1>1. DOMAIN staged = 1..Len(staged)
  OBVIOUS
<1>2. QED
  BY <1>1 DEF Upto, ToSet

LEMMA AddedRows ==
  ASSUME NEW columns \in Seq(ColumnRecord), NEW staged \in Seq(StagedOp), NEW rows,
         Replayed(rows, columns, staged, Len(staged)), NEW T,
         \A i \in 1..Len(staged) : staged[i].op = "addColumn" <=> staged[i] \in T
  PROVE  /\ Len(rows) = Len(columns) + Len(OnlyIn(staged, T))
         /\ \A i \in 1..Len(OnlyIn(staged, T)) :
              rows[Len(columns) + i] = NewRow(OnlyIn(staged, T)[i])
<1> DEFINE sel == OnlyIn(staged, T)
           n == Len(columns)
<1>1. PICK a : /\ Enumerates(a, Len(rows) - n, AddsUpto(staged, Len(staged)))
               /\ \A i \in 1..(Len(rows) - n) : rows[n + i] = NewRow(staged[a[i]])
  BY DEF Replayed
<1>2. PICK e : /\ Enumerates(e, Len(sel), KeptAt(staged, T))
               /\ \A i \in 1..Len(sel) : e[i] \in 1..Len(staged) /\ sel[i] = staged[e[i]] /\ staged[e[i]] \in T
  BY SelectionEnumerates
<1>3. AddsUpto(staged, Len(staged)) = KeptAt(staged, T)
  BY DEF AddsUpto, KeptAt
<1>4. Len(rows) \in Nat /\ n \in Nat /\ n <= Len(rows)
  BY DEF Replayed
<1> HIDE DEF sel, n
<1>5. Len(rows) - n = Len(sel) /\ \A i \in 1..Len(sel) : a[i] = e[i]
  BY <1>1, <1>2, <1>3, EnumerationsAgree
<1>6. Len(rows) = n + Len(sel)
  BY <1>4, <1>5
<1>7. \A i \in 1..Len(sel) : rows[n + i] = NewRow(sel[i])
  BY <1>1, <1>2, <1>5
<1>8. QED
  BY <1>6, <1>7 DEF sel, n

\* A row of a column is what the ops make of it.
LEMMA SameRowOf ==
  ASSUME NEW one \in Row, NEW two \in Row, NEW column, NEW A, NEW C,
         \A op \in A \cup C : op \in StagedOp,
         \A op \in StagedOp : op.op \in ColumnOps => (op \in A <=> op \in C),
         IsRowOf(one, column, A), IsRowOf(two, column, C)
  PROVE  one = two
<1> DEFINE b == column.name
<1>1. \A op \in StagedOp : IsRenameOf(op, b) \/ IsChangeOf(op, b) \/ IsDropOf(op, b) => (op \in A <=> op \in C)
  BY DEF IsRenameOf, IsChangeOf, IsDropOf, ColumnOps
<1>2. one.name = two.name
  <2>1. CASE \E op \in A : IsRenameOf(op, b)
    <3>1. PICK op \in A : IsRenameOf(op, b)
      BY <2>1
    <3>2. op \in C
      BY <1>1, <3>1
    <3>3. QED
      BY <3>1, <3>2 DEF IsRowOf
  <2>2. CASE \A op \in A : ~IsRenameOf(op, b)
    <3>1. \A op \in C : ~IsRenameOf(op, b)
      BY <1>1, <2>2
    <3>2. QED
      BY <2>2, <3>1 DEF IsRowOf
  <2>3. QED
    BY <2>1, <2>2
<1>3. one.setting = two.setting
  <2>1. CASE \E op \in A : IsChangeOf(op, b)
    <3>1. PICK op \in A : IsChangeOf(op, b)
      BY <2>1
    <3>2. op \in C
      BY <1>1, <3>1
    <3>3. QED
      BY <3>1, <3>2 DEF IsRowOf
  <2>2. CASE \A op \in A : ~IsChangeOf(op, b)
    <3>1. \A op \in C : ~IsChangeOf(op, b)
      BY <1>1, <2>2
    <3>2. QED
      BY <2>2, <3>1 DEF IsRowOf
  <2>3. QED
    BY <2>1, <2>2
<1>4. one.dropped <=> two.dropped
  BY <1>1 DEF IsRowOf
<1>5. one.origin = two.origin
  BY DEF IsRowOf
<1>6. QED
  BY <1>2, <1>3, <1>4, <1>5 DEF Row

LEMMA SameRowsInTheEnd ==
  ASSUME NEW columns \in Seq(ColumnRecord), DistinctNames(columns),
         NEW one \in Seq(StagedOp), NEW two \in Seq(StagedOp), NEW T, SameColumnOps(one, two, T),
         Steady(one, NamesOf(columns)), Steady(two, NamesOf(columns))
  PROVE  applyOpsToColumns(columns, one) = applyOpsToColumns(columns, two)
<1> DEFINE r == applyOpsToColumns(columns, one)
           s == applyOpsToColumns(columns, two)
           n == Len(columns)
           adds == OnlyIn(one, T)
<1>1. /\ Replayed(r, columns, one, Len(one)) /\ Replayed(s, columns, two, Len(two))
  BY RowsInTheEnd
<1>2. adds = OnlyIn(two, T)
  BY DEF SameColumnOps
<1> HIDE DEF r, s, adds
<1>3. /\ Len(r) = n + Len(adds) /\ \A i \in 1..Len(adds) : r[n + i] = NewRow(adds[i])
  BY <1>1, AddedRows DEF SameColumnOps, adds
<1>4. /\ Len(s) = n + Len(adds) /\ \A i \in 1..Len(adds) : s[n + i] = NewRow(adds[i])
  BY <1>1, <1>2, AddedRows DEF SameColumnOps
<1>5. /\ r \in Seq(Row) /\ s \in Seq(Row) /\ n <= Len(r) /\ n \in Nat /\ Len(r) \in Nat /\ Len(r) = Len(s)
  BY <1>1, <1>3, <1>4 DEF Replayed
<1>6. ASSUME NEW i \in 1..n PROVE r[i] = s[i]
  <2>1. r[i] \in Row /\ s[i] \in Row
    BY <1>5
  <2>2. IsRowOf(r[i], columns[i], ToSet(one)) /\ IsRowOf(s[i], columns[i], ToSet(two))
    BY <1>1, UptoTheEnd DEF Replayed
  <2>3. \A op \in ToSet(one) \cup ToSet(two) : op \in StagedOp
    BY OwnElements
  <2>4. \A op \in StagedOp : op.op \in ColumnOps => (op \in ToSet(one) <=> op \in ToSet(two))
    BY DEF SameColumnOps
  <2>5. QED
    BY <2>1, <2>2, <2>3, <2>4, SameRowOf
<1>7. ASSUME NEW i \in 1..Len(r) PROVE r[i] = s[i]
  <2>1. CASE i \in 1..n
    BY <1>6, <2>1
  <2>2. CASE i \notin 1..n
    <3>1. i - n \in 1..Len(adds) /\ n + (i - n) = i
      BY <1>3, <1>5, <2>2
    <3>2. QED
      BY <1>3, <1>4, <3>1
  <2>3. QED
    BY <2>1, <2>2
<1>8. r = s
  <2>1. r = [i \in 1..Len(r) |-> r[i]] /\ s = [i \in 1..Len(s) |-> s[i]]
    BY <1>5
  <2>2. QED
    BY <1>5, <1>7, <2>1
<1>9. QED
  BY <1>8 DEF r, s

-----------------------------------------------------------------------------
LEMMA JoinedElements ==
  ASSUME NEW S, NEW p \in Seq(S), NEW q \in Seq(S)
  PROVE  p \o q \in Seq(S) /\ ToSet(p \o q) = ToSet(p) \cup ToSet(q)
<1> DEFINE w == p \o q
<1>1. /\ w \in Seq(S) /\ Len(p) \in Nat /\ Len(q) \in Nat /\ Len(w) = Len(p) + Len(q)
      /\ DOMAIN w = 1..Len(w) /\ DOMAIN p = 1..Len(p) /\ DOMAIN q = 1..Len(q)
      /\ \A i \in 1..Len(p) : w[i] = p[i] /\ i \in 1..Len(w)
      /\ \A i \in 1..Len(q) : w[Len(p) + i] = q[i] /\ Len(p) + i \in 1..Len(w)
      /\ \A i \in 1..Len(w) : i \in 1..Len(p) \/ (i - Len(p) \in 1..Len(q) /\ w[i] = q[i - Len(p)])
  OBVIOUS
<1> HIDE DEF w
<1>2. ToSet(w) \subseteq ToSet(p) \cup ToSet(q)
  BY <1>1 DEF ToSet
<1>3. ToSet(p) \subseteq ToSet(w)
  BY <1>1 DEF ToSet
<1>4. ASSUME NEW x \in ToSet(q) PROVE x \in ToSet(w)
  <2>1. PICK i \in 1..Len(q) : x = q[i]
    BY <1>1 DEF ToSet
  <2>2. x = w[Len(p) + i] /\ Len(p) + i \in DOMAIN w
    BY <1>1, <2>1
  <2>3. QED
    BY <2>2 DEF ToSet
<1>5. QED
  BY <1>1, <1>2, <1>3, <1>4 DEF w

\* The batch has the ops about columns, and the columns added in the order they were staged.
LEMMA BatchHasTheColumnOps ==
  ASSUME NEW staged \in Seq(StagedOp)
  PROVE  \E T : SameColumnOps(staged, toWireBatch(staged), T)
<1> DEFINE Of(kinds) == OnlyIn(staged, {op \in ToSet(staged) : op.op \in kinds})
           AsDrop(op) == IF op.op = "dropIndex" THEN op ELSE [op |-> "dropIndex", name |-> op.from]
           AsAdd(op) == [op |-> "addIndex", name |-> op.name, column |-> op.column]
           Drops == Of({"dropIndex", "replaceIndex"})
           Adds == Of({"addIndex", "replaceIndex"})
           D == Of({"dropColumn"})
           A == Of({"addColumn"})
           C == Of({"change"})
           R == Of({"renameColumn"})
           X == [i \in DOMAIN Drops |-> AsDrop(Drops[i])]
           Y == [i \in DOMAIN Adds |-> AsAdd(Adds[i])]
           T == {op \in ToSet(staged) : op.op \in {"addColumn"}}
           W == toWireBatch(staged)
<1>1. ASSUME NEW kinds
      PROVE  /\ Of(kinds) \in Seq(StagedOp)
             /\ \A op : op \in ToSet(Of(kinds)) <=> op \in ToSet(staged) /\ op.op \in kinds
  <2> DEFINE U == {op \in ToSet(staged) : op.op \in kinds}
             sel == OnlyIn(staged, U)
  <2>1. sel \in Seq(StagedOp)
    BY SelectionIsOf
  <2>2. PICK a : /\ Enumerates(a, Len(sel), KeptAt(staged, U))
                 /\ \A i \in 1..Len(sel) : /\ a[i] \in 1..Len(staged) /\ sel[i] = staged[a[i]]
                                           /\ staged[a[i]] \in U
    <3> HIDE DEF U
    <3>1. QED
      BY SelectionEnumerates
  <2> HIDE DEF sel
  <2>3. DOMAIN sel = 1..Len(sel) /\ DOMAIN staged = 1..Len(staged)
    BY <2>1
  <2>4. ASSUME NEW op \in ToSet(sel) PROVE op \in ToSet(staged) /\ op.op \in kinds
    <3>1. PICK i \in 1..Len(sel) : op = sel[i]
      BY <2>3 DEF ToSet
    <3>2. QED
      BY <2>2, <3>1
  <2>5. ASSUME NEW op \in ToSet(staged), op.op \in kinds PROVE op \in ToSet(sel)
    <3>1. PICK j \in 1..Len(staged) : op = staged[j]
      BY <2>3 DEF ToSet
    <3>2. j \in KeptAt(staged, U)
      BY <2>5, <3>1 DEF KeptAt
    <3>3. PICK i \in 1..Len(sel) : a[i] = j
      BY <2>2, <3>2 DEF Enumerates
    <3>4. QED
      BY <2>2, <2>3, <3>1, <3>3 DEF ToSet
  <2>6. QED
    BY <2>1, <2>4, <2>5 DEF sel
<1>2. W = D \o A \o C \o R \o X \o Y
  BY DEF toWireBatch
<1>3. W \in Seq(StagedOp)
  <2>1. W \in Seq(WireOp)
    BY WireBatchTyped
  <2>2. QED
    BY <2>1, WireIsStaged
<1>4. A = OnlyIn(staged, T)
  OBVIOUS
<1> HIDE DEF Of, W, T
<1>5. /\ D \in Seq(StagedOp) /\ A \in Seq(StagedOp) /\ C \in Seq(StagedOp) /\ R \in Seq(StagedOp)
      /\ \A op \in ToSet(D) : op.op = "dropColumn"
      /\ \A op \in ToSet(A) : op.op = "addColumn"
      /\ \A op \in ToSet(C) : op.op = "change"
      /\ \A op \in ToSet(R) : op.op = "renameColumn"
  BY <1>1
<1>6. X \in Seq(StagedOp) /\ \A i \in 1..Len(X) : X[i].op = "dropIndex"
  <2>1. Drops \in Seq(StagedOp)
        /\ \A i \in 1..Len(Drops) : Drops[i] \in StagedOp /\ Drops[i].op \in {"dropIndex", "replaceIndex"}
    <3>1. Drops \in Seq(StagedOp) /\ \A op \in ToSet(Drops) : op.op \in {"dropIndex", "replaceIndex"}
      BY <1>1
    <3> HIDE DEF Drops
    <3>2. QED
      BY <3>1, OwnElements
  <2>2. ASSUME NEW i \in 1..Len(Drops) PROVE AsDrop(Drops[i]) \in StagedOp /\ AsDrop(Drops[i]).op = "dropIndex"
    <3>1. CASE Drops[i].op = "dropIndex"
      BY <2>1, <3>1
    <3>2. CASE Drops[i].op = "replaceIndex"
      <4>1. Drops[i].from \in IndexName
        BY <2>1, <3>2, StagedFields
      <4>2. [op |-> "dropIndex", name |-> Drops[i].from] \in IndexDrops
        BY <4>1 DEF IndexDrops
      <4>3. QED
        BY <3>2, <4>2 DEF WireOp, StagedOp
    <3>3. QED
      BY <2>1, <3>1, <3>2
  <2> HIDE DEF Drops, AsDrop
  <2>3. DOMAIN Drops = 1..Len(Drops) /\ Len(Drops) \in Nat
    BY <2>1
  <2>4. X \in [1..Len(Drops) -> StagedOp] /\ DOMAIN X = 1..Len(Drops)
    BY <2>2, <2>3
  <2>5. X \in Seq(StagedOp) /\ Len(X) = Len(Drops)
    BY <2>3, <2>4
  <2>6. QED
    BY <2>2, <2>5
<1>7. Y \in Seq(StagedOp) /\ \A i \in 1..Len(Y) : Y[i].op = "addIndex"
  <2>1. Adds \in Seq(StagedOp)
        /\ \A i \in 1..Len(Adds) : Adds[i] \in StagedOp /\ Adds[i].op \in {"addIndex", "replaceIndex"}
    <3>1. Adds \in Seq(StagedOp) /\ \A op \in ToSet(Adds) : op.op \in {"addIndex", "replaceIndex"}
      BY <1>1
    <3> HIDE DEF Adds
    <3>2. QED
      BY <3>1, OwnElements
  <2>2. ASSUME NEW i \in 1..Len(Adds) PROVE AsAdd(Adds[i]) \in StagedOp /\ AsAdd(Adds[i]).op = "addIndex"
    <3>1. Adds[i].name \in IndexName /\ Adds[i].column \in ColumnName
      BY <2>1, StagedFields
    <3>2. AsAdd(Adds[i]) \in IndexAdds
      BY <3>1 DEF IndexAdds
    <3>3. QED
      BY <3>2 DEF WireOp, StagedOp
  <2> HIDE DEF Adds, AsAdd
  <2>3. DOMAIN Adds = 1..Len(Adds) /\ Len(Adds) \in Nat
    BY <2>1
  <2>4. Y \in [1..Len(Adds) -> StagedOp] /\ DOMAIN Y = 1..Len(Adds)
    BY <2>2, <2>3
  <2>5. Y \in Seq(StagedOp) /\ Len(Y) = Len(Adds)
    BY <2>3, <2>4
  <2>6. QED
    BY <2>2, <2>5
<1> HIDE DEF X, Y
<1>8. \A op \in ToSet(X) \cup ToSet(Y) : op.op \in {"dropIndex", "addIndex"}
  <2>1. DOMAIN X = 1..Len(X) /\ DOMAIN Y = 1..Len(Y)
    BY <1>6, <1>7
  <2>2. QED
    BY <1>6, <1>7, <2>1 DEF ToSet
<1>9. \A op : op \in ToSet(D) \cup ToSet(A) \cup ToSet(C) \cup ToSet(R)
                <=> op \in ToSet(staged) /\ op.op \in {"dropColumn", "addColumn", "change", "renameColumn"}
  BY <1>1
<1> HIDE DEF D, A, C, R
<1>10. /\ D \o A \in Seq(StagedOp) /\ D \o A \o C \in Seq(StagedOp) /\ D \o A \o C \o R \in Seq(StagedOp)
       /\ D \o A \o C \o R \o X \in Seq(StagedOp)
  BY <1>5, <1>6
<1>11. ToSet(W) = ToSet(D) \cup ToSet(A) \cup ToSet(C) \cup ToSet(R) \cup ToSet(X) \cup ToSet(Y)
  <2>1. \A p, q \in Seq(StagedOp) : ToSet(p \o q) = ToSet(p) \cup ToSet(q)
    BY JoinedElements
  <2>2. ToSet(D \o A) = ToSet(D) \cup ToSet(A)
    BY <1>5, <2>1
  <2>3. ToSet(D \o A \o C) = ToSet(D \o A) \cup ToSet(C)
    BY <1>5, <1>10, <2>1
  <2>4. ToSet(D \o A \o C \o R) = ToSet(D \o A \o C) \cup ToSet(R)
    BY <1>5, <1>10, <2>1
  <2>5. ToSet(D \o A \o C \o R \o X) = ToSet(D \o A \o C \o R) \cup ToSet(X)
    BY <1>6, <1>10, <2>1
  <2>6. ToSet(W) = ToSet(D \o A \o C \o R \o X) \cup ToSet(Y)
    BY <1>2, <1>7, <1>10, <2>1
  <2>7. QED
    BY <2>2, <2>3, <2>4, <2>5, <2>6
<1>12. \A op : op.op \in {"dropColumn", "addColumn", "change", "renameColumn"} =>
                 (op \in ToSet(staged) <=> op \in ToSet(W))
  BY <1>8, <1>9, <1>11
<1>13. OnlyIn(W, T) = A
  <2>1. \A s \in Seq(StagedOp) : \A i \in 1..Len(s) : s[i] \in ToSet(s)
    BY OwnElements
  <2>2. \A op : op \in T => op.op = "addColumn"
    BY DEF T
  <2>3. /\ \A i \in 1..Len(D) : D[i] \notin T
        /\ \A i \in 1..Len(C) : C[i] \notin T
        /\ \A i \in 1..Len(R) : R[i] \notin T
        /\ \A i \in 1..Len(X) : X[i] \notin T
        /\ \A i \in 1..Len(Y) : Y[i] \notin T
    BY <1>5, <1>6, <1>7, <2>1, <2>2
  <2>4. \A i \in 1..Len(A) : A[i] \in T
    BY <1>5, <1>9, <2>1 DEF T
  <2>5. OnlyIn(D \o A, T) = A
    BY <1>5, <2>3, <2>4, SelectionOfBack
  <2>6. OnlyIn(D \o A \o C, T) = OnlyIn(D \o A, T)
    BY <1>5, <1>10, <2>3, SelectionOfFront
  <2>7. OnlyIn(D \o A \o C \o R, T) = OnlyIn(D \o A \o C, T)
    BY <1>5, <1>10, <2>3, SelectionOfFront
  <2>8. OnlyIn(D \o A \o C \o R \o X, T) = OnlyIn(D \o A \o C \o R, T)
    BY <1>6, <1>10, <2>3, SelectionOfFront
  <2>9. OnlyIn(W, T) = OnlyIn(D \o A \o C \o R \o X, T)
    BY <1>2, <1>7, <1>10, <2>3, SelectionOfFront
  <2>10. QED
    BY <2>5, <2>6, <2>7, <2>8, <2>9
<1>14. /\ \A i \in 1..Len(staged) : staged[i].op = "addColumn" <=> staged[i] \in T
       /\ \A i \in 1..Len(W) : W[i].op = "addColumn" <=> W[i] \in T
  <2>1. /\ \A i \in 1..Len(staged) : staged[i] \in ToSet(staged)
        /\ \A i \in 1..Len(W) : W[i] \in ToSet(W)
    BY <1>3, OwnElements
  <2>2. QED
    BY <1>12, <2>1 DEF T
<1>15. SameColumnOps(staged, W, T)
  BY <1>4, <1>12, <1>13, <1>14 DEF SameColumnOps, ColumnOps
<1>16. QED
  BY <1>15 DEF W

-----------------------------------------------------------------------------
\* Ops that are untangled, about columns there are.
LEMMA UntangledIsSteady ==
  ASSUME NEW B, ops \in Seq(StagedOp), Untangled, NamesApart(ops, B),
         \A op \in ToSet(ops) : TargetColumn(op) \subseteq B
  PROVE  Steady(ops, B)
<1>1. DOMAIN ops = 1..Len(ops) /\ \A i \in 1..Len(ops) : ops[i] \in StagedOp
  OBVIOUS
<1>2. ASSUME NEW o \in ToSet(ops) PROVE \E i \in 1..Len(ops) : o = ops[i]
  BY <1>1 DEF ToSet
<1>3. ASSUME NEW o \in ToSet(ops), NEW b \in B, b \in Gives(o) PROVE FALSE
  <2>1. PICK i \in 1..Len(ops) : o = ops[i]
    BY <1>2
  <2>2. PICK j \in 1..Len(ops) : b \in Frees(ops[j])
    BY <1>3, <2>1 DEF NamesApart, GivenUp, IsFreed
  <2>3. ops[j].op = "renameColumn" /\ ops[j].from = b
    BY <2>2 DEF Frees
  <2>4. b \in Renamed
    BY <1>1, <2>3 DEF Renamed
  <2>5. (o.op = "addColumn" /\ b = o.name) \/ (o.op = "renameColumn" /\ b = o.to)
    BY <1>3 DEF Gives
  <2>6. QED
    BY <1>1, <2>1, <2>4, <2>5 DEF Untangled
<1>4. ASSUME NEW o \in ToSet(ops), NEW p \in ToSet(ops)
      PROVE  /\ Frees(o) \cap Frees(p) # {} => o = p
             /\ ChangeOf(o) \cap ChangeOf(p) # {} => o = p
             /\ o.op = "renameColumn" /\ p.op \in {"change", "dropColumn"} => o.from \notin TargetColumn(p)
  <2>1. PICK i \in 1..Len(ops), j \in 1..Len(ops) : o = ops[i] /\ p = ops[j]
    BY <1>2
  <2>2. i # j => /\ Frees(o) \cap Frees(p) = {} /\ ChangeOf(o) \cap ChangeOf(p) = {}
    BY <2>1 DEF NamesApart, Once
  <2>3. o.op = "renameColumn" /\ p.op \in {"change", "dropColumn"} => i # j
    BY <2>1
  <2>4. i # j /\ ops[i].op = "renameColumn" => ops[i].from \notin TargetColumn(ops[j])
    BY <1>1 DEF Untangled
  <2>5. QED
    BY <2>1, <2>2, <2>3, <2>4
<1>5. QED
  BY <1>3, <1>4 DEF Steady

\* The batch is as steady: its other ops are about no column.
LEMMA BatchIsSteady ==
  ASSUME NEW B, NEW staged \in Seq(StagedOp), NEW batch \in Seq(WireOp), NEW T,
         SameColumnOps(staged, batch, T), Steady(staged, B)
  PROVE  Steady(batch, B)
<1>1. \A o \in ToSet(batch) : o \in StagedOp
  BY OwnElements, WireIsStaged
<1>2. \A o \in ToSet(batch) : o.op = "addColumn" => o \in ToSet(staged)
  <2>1. OnlyIn(batch, T) = OnlyIn(staged, T)
    BY DEF SameColumnOps
  <2>2. ASSUME NEW i \in 1..Len(batch), batch[i].op = "addColumn" PROVE batch[i] \in ToSet(staged)
    <3>1. batch[i] \in T
      BY <2>2 DEF SameColumnOps
    <3>2. PICK a : /\ Enumerates(a, Len(OnlyIn(batch, T)), KeptAt(batch, T))
                   /\ \A c \in 1..Len(OnlyIn(batch, T)) :
                        a[c] \in 1..Len(batch) /\ OnlyIn(batch, T)[c] = batch[a[c]] /\ batch[a[c]] \in T
      BY SelectionEnumerates
    <3>3. i \in KeptAt(batch, T)
      BY <3>1 DEF KeptAt
    <3>4. PICK c \in 1..Len(OnlyIn(batch, T)) : a[c] = i
      BY <3>2, <3>3 DEF Enumerates
    <3>5. PICK e : /\ Enumerates(e, Len(OnlyIn(staged, T)), KeptAt(staged, T))
                   /\ \A d \in 1..Len(OnlyIn(staged, T)) :
                        e[d] \in 1..Len(staged) /\ OnlyIn(staged, T)[d] = staged[e[d]] /\ staged[e[d]] \in T
      BY SelectionEnumerates
    <3>6. batch[i] = staged[e[c]] /\ e[c] \in 1..Len(staged)
      BY <2>1, <3>2, <3>4, <3>5
    <3>7. QED
      BY <3>6, OwnElements
  <2>3. DOMAIN batch = 1..Len(batch)
    OBVIOUS
  <2>4. QED
    BY <2>2, <2>3 DEF ToSet
<1>3. \A o \in ToSet(batch) : o.op \in ColumnOps => o \in ToSet(staged)
  BY <1>1 DEF SameColumnOps
<1>4. \A o \in ToSet(batch) :
        o.op \notin ColumnOps /\ o.op # "addColumn" =>
          TargetColumn(o) = {} /\ Gives(o) = {} /\ Frees(o) = {} /\ ChangeOf(o) = {}
  BY DEF ColumnOps, TargetColumn, Gives, Frees, ChangeOf
<1>5. ASSUME NEW o \in ToSet(batch) PROVE TargetColumn(o) \subseteq B /\ Gives(o) \cap B = {}
  BY <1>2, <1>3, <1>4 DEF Steady
<1>6. ASSUME NEW o \in ToSet(batch), NEW p \in ToSet(batch)
      PROVE  /\ Frees(o) \cap Frees(p) # {} => o = p
             /\ ChangeOf(o) \cap ChangeOf(p) # {} => o = p
             /\ o.op = "renameColumn" /\ p.op \in {"change", "dropColumn"} => o.from \notin TargetColumn(p)
  <2>1. CASE o \in ToSet(staged) /\ p \in ToSet(staged)
    BY <2>1 DEF Steady
  <2>2. CASE o \notin ToSet(staged)
    <3>1. o.op \notin ColumnOps /\ Frees(o) = {} /\ ChangeOf(o) = {}
      BY <1>2, <1>3, <1>4, <2>2
    <3>2. QED
      BY <3>1 DEF ColumnOps
  <2>3. CASE p \notin ToSet(staged)
    <3>1. p.op \notin ColumnOps /\ Frees(p) = {} /\ ChangeOf(p) = {}
      BY <1>2, <1>3, <1>4, <2>3
    <3>2. QED
      BY <3>1 DEF ColumnOps
  <2>4. QED
    BY <2>1, <2>2, <2>3
<1>7. QED
  BY <1>5, <1>6 DEF Steady

LEMMA AcceptedShown == StructInv /\ ColumnsInv => AcceptedIsAsShown
<1> SUFFICES ASSUME StructInv, ColumnsInv, ~leftover, Untangled,
                    Applied(meta, toWireBatch(ops)) # Rejected
             PROVE  Applied(meta, toWireBatch(ops)).columns = Shown
  BY DEF AcceptedIsAsShown
<1> DEFINE W == toWireBatch(ops)
           columns == meta.columns
           B == NamesOf(columns)
<1>1. /\ meta \in TableRecord /\ columns \in Seq(ColumnRecord) /\ DistinctNames(columns)
      /\ ops \in Seq(StagedOp) /\ NamesApart(ops, B)
  BY DEF StructInv, ColumnsInv, TableRecord, GoodOps, TableNames
<1>2. W \in Seq(WireOp)
  BY <1>1, WireBatchTyped
<1> HIDE DEF W
<1>3. Applied(meta, W) # Rejected
  BY DEF W
<1>4. /\ Applied(meta, W).columns = Columnwise!Folded(columns, W)
      /\ Columnwise!Folded(columns, W) # <<>> /\ Valid(meta, W)
  BY <1>1, <1>2, <1>3, AppliedColumns
<1>5. PICK T : SameColumnOps(ops, W, T)
  BY <1>1, BatchHasTheColumnOps DEF W
<1>6. \A op \in ToSet(W) : TargetColumn(op) \subseteq B
  BY <1>4 DEF Valid
<1>7. \A op \in ToSet(ops) : TargetColumn(op) \subseteq B
  <2>1. \A op \in ToSet(ops) : op \in StagedOp
    BY <1>1, OwnElements
  <2>2. \A op \in ToSet(ops) : op.op \notin ColumnOps => TargetColumn(op) = {}
    BY DEF ColumnOps, TargetColumn
  <2>3. \A op \in ToSet(ops) : op.op \in ColumnOps => op \in ToSet(W)
    BY <1>5, <2>1 DEF SameColumnOps
  <2>4. QED
    BY <1>6, <2>2, <2>3
<1> HIDE DEF B, columns
<1>8. Steady(ops, B)
  BY <1>1, <1>7, UntangledIsSteady
<1>9. Steady(W, B)
  BY <1>1, <1>2, <1>5, <1>8, BatchIsSteady
<1>10. W \in Seq(StagedOp)
  BY <1>2, WireIsStaged
<1>11. applyOpsToColumns(columns, ops) = applyOpsToColumns(columns, W)
  BY <1>1, <1>5, <1>8, <1>9, <1>10, SameRowsInTheEnd DEF B
<1>12. \A i \in 1..Len(W) : TargetColumn(W[i]) \subseteq B /\ Gives(W[i]) \cap B = {}
  <2>1. \A i \in 1..Len(W) : W[i] \in ToSet(W)
    BY <1>2, OwnElements
  <2>2. QED
    BY <1>9, <2>1 DEF Steady
<1>13. Columnwise!Folded(columns, W) = Visible(applyOpsToColumns(columns, W))
  BY <1>1, <1>2, <1>4, <1>12, EngineIsAlike DEF B
<1>14. Visible(Rows) = Shown
  BY DEF Visible, Standing, Shown
<1>15. Rows = applyOpsToColumns(columns, ops)
  BY DEF Rows, columns
<1>16. QED
  BY <1>4, <1>11, <1>13, <1>14, <1>15 DEF W

\* structure/ops.ts 7-10 and sqlite/structure.rs compute_target_columns: the columns a batch
\* leaves behind, which the engine gets in the order of phases, are those on the screen, which
\* are replayed in the order of staging, for any table and ops: as long as no renamed column is
\* changed otherwise, no name given up is used again and the table is still the one read.
THEOREM AcceptedIsWhatIsShown == StructSpec => []AcceptedIsAsShown
<1>1. StructInit => StructInv /\ ColumnsInv
  BY StructBegins, ColumnsBegin
<1>2. StructInv /\ ColumnsInv /\ [StructNext]_structVars => (StructInv /\ ColumnsInv)'
  BY StructStep, ColumnsStep
<1>3. QED
  BY <1>1, <1>2, AcceptedShown, PTL DEF StructSpec
===============================================================================
