------------------------------ MODULE DesignProofs ------------------------------
(***************************************************************************)
(* Proofs about what is drawn of schemas: the introspection cache, for any *)
(* schemas, tables, kinds of object and number of fetches in flight, the   *)
(* brainstorm board, for any objects, stored boards and length of the      *)
(* history, and the edit mode of the schema map, for any schemas,          *)
(* statements and replays; and, with StructureProofs, the run that drives  *)
(* these and the structure editor in turn, as MCDesign composes them.      *)
(*                                                                         *)
(* What the cache holds is written by answers, so IntroInv speaks of the   *)
(* fetches: an answer nobody raced is as new as every key it will write.   *)
(* What a board shows an undo can bring back and a return can read, so     *)
(* BoardInv speaks of the documents of both stacks and of the stored one.  *)
(* A replay starts from the objects created tables are, so MapInv says     *)
(* which of them are as new; what a replay makes hangs on no others.       *)
(***************************************************************************)
EXTENDS MCDesign, StructureProofs

-----------------------------------------------------------------------------
\* A fetch in flight, or none.
FetchRecord ==
  [key : Key \cup {<<>>}, force : BOOLEAN, keep : BOOLEAN, ver : Absent..MaxDdl, raced : BOOLEAN]

TypedCalls(calls) ==
  /\ calls \in [Fetch -> FetchRecord]
  /\ \A f \in Fetch :
       /\ calls[f].key = <<>> <=> calls[f] = NoCall
       /\ calls[f].force => Forceable(calls[f].key)
       /\ calls[f].keep => calls[f].force

FetchesTyped == TypedCalls(fetches)

\* A place that loads join belongs to a fetch under way for its key, and where fetches are
\* never forced it is the only one.
PlacesHeld ==
  /\ \A k \in Key : inflight[k] # NoFetch => inflight[k] \in Running(k)
  /\ \A k \in Key : \A f \in Running(k) : ~Forceable(k) => inflight[k] = f

\* No version is from the future.
Known ==
  /\ \A k \in Key : floor[k] <= ddl[k[2]]
  /\ \A f \in Fetch : fetches[f].key # <<>> => fetches[f].ver <= ddl[fetches[f].key[2]]

\* An answer that was not raced is as new as what was dropped of all it will write.
AnswersFresh ==
  \A f \in Fetch :
    fetches[f].key # <<>> /\ Answered(f) /\ ~fetches[f].raced =>
      \A k \in Warms(fetches[f].key) : floor[k] <= fetches[f].ver

IntroInv ==
  IntroTypeOK /\ FetchesTyped /\ PlacesHeld /\ LoadingHasFetch /\ Known /\ AnswersFresh /\ NewerThanDrop

-----------------------------------------------------------------------------
\* A key names its kind and its schema, and the columns a structure warms are a key of
\* the same schema.
LEMMA KeyFacts ==
  ASSUME NEW k \in Key
  PROVE  /\ k # <<>>
         /\ k[1] \in Every
         /\ k[2] \in Schema
         /\ k[1] = "meta" => /\ ColumnsKey(k[2], k[3]) \in Key
                             /\ ColumnsKey(k[2], k[3])[1] = "columns"
                             /\ ColumnsKey(k[2], k[3])[2] = k[2]
  BY DEF Key, Every, TablesKey, ColumnsKey

\* A fetch writes its own key and no key of another schema.
LEMMA WarmsFacts ==
  ASSUME NEW k \in Key
  PROVE  /\ k \in Warms(k)
         /\ Warms(k) \subseteq Key
         /\ \A j \in Warms(k) : j[2] = k[2]
  BY KeyFacts DEF Warms

\* The place of a fetch that is not under way has no key.
LEMMA NoCallTyped == NoCall \in FetchRecord /\ NoCall.key = <<>> /\ ~NoCall.force /\ ~NoCall.keep
                      /\ NoCall.ver = Absent
  BY IntroAssumption DEF NoCall, FetchRecord, Absent

\* Racing fetches marks those that would write a dropped key and changes nothing else.
LEMMA RaceEffect ==
  ASSUME NEW calls, TypedCalls(calls), NEW ks
  PROVE  /\ TypedCalls(Race(calls, ks))
         /\ \A f \in Fetch :
              /\ Race(calls, ks)[f].key = calls[f].key
              /\ Race(calls, ks)[f].ver = calls[f].ver
              /\ calls[f].raced => Race(calls, ks)[f].raced
              /\ calls[f].key # <<>> /\ ~Race(calls, ks)[f].raced =>
                   Warms(calls[f].key) \cap ks = {}
<1> DEFINE new == Race(calls, ks)
<1>1. \A f \in Fetch : new[f] = IF calls[f].key # <<>> /\ Warms(calls[f].key) \cap ks # {}
                                THEN [calls[f] EXCEPT !.raced = TRUE] ELSE calls[f]
  BY DEF Race
<1>2. DOMAIN new = Fetch /\ new = [f \in Fetch |-> new[f]]
  BY DEF Race
<1>3. ASSUME NEW f \in Fetch
      PROVE  /\ new[f] \in FetchRecord
             /\ new[f].key = calls[f].key
             /\ new[f].ver = calls[f].ver
             /\ new[f].force = calls[f].force
             /\ new[f].keep = calls[f].keep
             /\ calls[f].raced => new[f].raced
             /\ calls[f].key # <<>> /\ ~new[f].raced => Warms(calls[f].key) \cap ks = {}
             /\ calls[f].key = <<>> => new[f] = calls[f]
  <2>1. calls[f] \in FetchRecord
    BY DEF TypedCalls
  <2>2. CASE calls[f].key # <<>> /\ Warms(calls[f].key) \cap ks # {}
    <3>1. new[f] = [calls[f] EXCEPT !.raced = TRUE]
      BY <1>1, <2>2
    <3>2. QED
      BY <2>1, <2>2, <3>1 DEF FetchRecord
  <2>3. CASE ~(calls[f].key # <<>> /\ Warms(calls[f].key) \cap ks # {})
    BY <1>1, <2>1, <2>3
  <2>4. QED
    BY <2>2, <2>3
<1> HIDE DEF new
<1>4. new \in [Fetch -> FetchRecord]
  BY <1>2, <1>3
<1>5. \A f \in Fetch : new[f].key = <<>> <=> new[f] = NoCall
  BY <1>3, NoCallTyped DEF TypedCalls
<1>6. TypedCalls(new)
  BY <1>3, <1>4, <1>5 DEF TypedCalls
<1>7. QED
  BY <1>3, <1>6 DEF new

\* A load starts a fetch for its key in an empty place.
LEMMA LoadCalls ==
  ASSUME FetchesTyped, NEW k \in Key, NEW force \in BOOLEAN, NEW keep \in BOOLEAN, Load(k, force, keep)
  PROVE  /\ FetchesTyped'
         /\ \E f \in Fetch :
              /\ fetches[f] = NoCall
              /\ fetches'[f].key = k /\ fetches'[f].ver = Absent
              /\ inflight' = [inflight EXCEPT ![k] = f]
              /\ \A g \in Fetch : g # f => fetches'[g] = fetches[g]
<1>1. PICK f \in Fetch :
        /\ fetches[f] = NoCall
        /\ fetches' = [fetches EXCEPT ![f] =
             [NoCall EXCEPT !.key = k, !.force = force, !.keep = keep]]
        /\ inflight' = [inflight EXCEPT ![k] = f]
  BY DEF Load
<1> DEFINE c == [NoCall EXCEPT !.key = k, !.force = force, !.keep = keep]
<1>2. /\ c \in FetchRecord /\ c.key = k /\ c.force = force /\ c.keep = keep /\ c.ver = Absent
  BY NoCallTyped DEF FetchRecord
<1> HIDE DEF c
<1>3. fetches' = [fetches EXCEPT ![f] = c]
  BY <1>1 DEF c
<1>4. fetches'[f] = c /\ \A g \in Fetch : g # f => fetches'[g] = fetches[g]
  BY <1>3 DEF FetchesTyped, TypedCalls
<1>5. fetches' \in [Fetch -> FetchRecord]
  BY <1>2, <1>3 DEF FetchesTyped, TypedCalls
<1>6. c.key # <<>> /\ c # NoCall
  BY <1>2, KeyFacts, NoCallTyped
<1>7. (force => Forceable(k)) /\ (keep => force)
  BY DEF Load
<1>8. TypedCalls(fetches')
  BY <1>2, <1>4, <1>5, <1>6, <1>7 DEF FetchesTyped, TypedCalls
<1>9. QED
  BY <1>1, <1>2, <1>4, <1>8 DEF FetchesTyped

\* The database's answer is noted in the fetch it answers.
LEMMA ExecuteCalls ==
  ASSUME IntroTypeOK, FetchesTyped, NEW f \in Fetch, Execute(f)
  PROVE  /\ FetchesTyped'
         /\ fetches[f].key \in Key
         /\ fetches'[f].key = fetches[f].key
         /\ fetches'[f].ver = ddl[fetches[f].key[2]]
         /\ \A g \in Fetch : g # f => fetches'[g] = fetches[g]
<1> DEFINE v == ddl[fetches[f].key[2]]
<1>1. fetches[f] \in FetchRecord /\ fetches[f].key \in Key /\ fetches[f] # NoCall
  BY DEF FetchesTyped, TypedCalls, FetchRecord, Execute
<1>2. v \in Absent..MaxDdl
  BY <1>1, KeyFacts DEF IntroTypeOK, Absent
<1>3. fetches' = [fetches EXCEPT ![f].ver = v]
  BY DEF Execute
<1> HIDE DEF v
<1> DEFINE c == [fetches[f] EXCEPT !.ver = v]
<1>4. /\ c \in FetchRecord /\ c.key = fetches[f].key /\ c.ver = v
      /\ c.force = fetches[f].force /\ c.keep = fetches[f].keep
  BY <1>1, <1>2 DEF FetchRecord
<1> HIDE DEF c
<1>5. fetches' = [fetches EXCEPT ![f] = c]
  BY <1>3 DEF c, FetchesTyped, TypedCalls
<1>6. fetches'[f] = c /\ \A g \in Fetch : g # f => fetches'[g] = fetches[g]
  BY <1>5 DEF FetchesTyped, TypedCalls
<1>7. fetches' \in [Fetch -> FetchRecord]
  BY <1>4, <1>5 DEF FetchesTyped, TypedCalls
<1>8. c.key # <<>> /\ c # NoCall
  BY <1>1, <1>4, KeyFacts, NoCallTyped
<1>9. TypedCalls(fetches')
  BY <1>4, <1>6, <1>7, <1>8 DEF FetchesTyped, TypedCalls
<1>10. QED
  BY <1>1, <1>4, <1>6, <1>9 DEF FetchesTyped, v

\* A fetch that ends leaves its place empty and the others as they are.
LEMMA EndedCalls ==
  ASSUME FetchesTyped, NEW f \in Fetch
  PROVE  /\ TypedCalls([fetches EXCEPT ![f] = NoCall])
         /\ [fetches EXCEPT ![f] = NoCall][f] = NoCall
         /\ \A g \in Fetch : g # f => [fetches EXCEPT ![f] = NoCall][g] = fetches[g]
  BY NoCallTyped DEF FetchesTyped, TypedCalls

\* The answers that land leave every other fetch its key and its version, raced or not.
LEMMA LandCalls ==
  ASSUME FetchesTyped, NEW f \in Fetch, Land(f)
  PROVE  /\ FetchesTyped'
         /\ fetches[f] \in FetchRecord /\ fetches[f].key \in Key /\ fetches[f].ver \in 0..MaxDdl
         /\ fetches'[f].key = <<>>
         /\ \A g \in Fetch : g # f =>
              /\ fetches'[g].key = fetches[g].key
              /\ fetches'[g].ver = fetches[g].ver
              /\ fetches[g].raced => fetches'[g].raced
              /\ fetches[g].key # <<>> /\ ~fetches'[g].raced =>
                   Warms(fetches[g].key) \cap Refreshed(fetches[f]) = {}
<1> DEFINE rest == [fetches EXCEPT ![f] = NoCall]
           ks == Refreshed(fetches[f])
<1>1. fetches' = Race(rest, ks)
  BY DEF Land
<1>2. fetches[f] \in FetchRecord
  BY DEF FetchesTyped, TypedCalls
<1>3. fetches[f].ver # Absent
  BY DEF Land, Answered
<1>4. fetches[f] # NoCall
  BY <1>3, NoCallTyped
<1>5. fetches[f].key \in Key /\ fetches[f].ver \in 0..MaxDdl
  BY <1>2, <1>3, <1>4, IntroAssumption DEF FetchRecord, Absent, FetchesTyped, TypedCalls
<1> HIDE DEF ks
<1>6. TypedCalls(rest) /\ rest[f] = NoCall /\ \A g \in Fetch : g # f => rest[g] = fetches[g]
  BY EndedCalls
<1> HIDE DEF rest
<1>7. FetchesTyped'
  BY <1>1, <1>6, RaceEffect DEF FetchesTyped
<1>8. fetches'[f].key = <<>>
  BY <1>1, <1>6, RaceEffect, NoCallTyped
<1>9. ASSUME NEW g \in Fetch, g # f
      PROVE  /\ fetches'[g].key = fetches[g].key
             /\ fetches'[g].ver = fetches[g].ver
             /\ fetches[g].raced => fetches'[g].raced
             /\ fetches[g].key # <<>> /\ ~fetches'[g].raced => Warms(fetches[g].key) \cap ks = {}
  <2>1. rest[g] = fetches[g]
    BY <1>6, <1>9
  <2>2. QED
    BY <1>1, <1>6, <2>1, RaceEffect
<1>10. QED
  BY <1>2, <1>5, <1>7, <1>8, <1>9 DEF ks

\* A fetch that fails ends.
LEMMA FailCalls ==
  ASSUME FetchesTyped, NEW f \in Fetch, Fail(f)
  PROVE  /\ FetchesTyped'
         /\ fetches[f].key \in Key
         /\ fetches'[f].key = <<>>
         /\ \A g \in Fetch : g # f => fetches'[g] = fetches[g]
<1>1. fetches' = [fetches EXCEPT ![f] = NoCall] /\ fetches[f] # NoCall
  BY DEF Fail
<1>2. fetches[f].key \in Key
  BY <1>1 DEF FetchesTyped, TypedCalls, FetchRecord
<1>3. QED
  BY <1>1, <1>2, EndedCalls, NoCallTyped DEF FetchesTyped

\* Every way of dropping keys drops some set of them and touches neither the places nor
\* what is shown as loading.
DropAny ==
  \E ks \in SUBSET Key : Forget(ks) /\ UNCHANGED <<uses, ddl, loading, inflight>>

LEMMA DropsAreAny ==
  ASSUME NEW s \in Schema
  PROVE  /\ \A kinds \in SUBSET ObjKind : InvalidateObjects(s, kinds) => DropAny
         /\ InvalidateObjectLists(s) => DropAny
         /\ \A schemas \in SUBSET Schema : Invalidate(schemas) => DropAny
<1>1. \A what : OfSchema(s, what) \subseteq Key
  BY DEF OfSchema
<1>2. ASSUME NEW kinds \in SUBSET ObjKind, InvalidateObjects(s, kinds) PROVE DropAny
  <2>1. {ObjectsKey(s, o) : o \in kinds} \subseteq Key
    BY DEF ObjectsKey, Key
  <2> DEFINE ks == {ObjectsKey(s, o) : o \in kinds} \cup OfSchema(s, {"def"})
  <2>2. ks \in SUBSET Key
    BY <1>1, <2>1
  <2>3. Forget(ks) /\ UNCHANGED <<uses, ddl, loading, inflight>>
    BY <1>2 DEF InvalidateObjects
  <2> HIDE DEF ks
  <2>4. QED
    BY <2>2, <2>3 DEF DropAny
<1>3. InvalidateObjectLists(s) => DropAny
  BY <1>1 DEF InvalidateObjectLists, DropAny
<1>4. ASSUME NEW schemas \in SUBSET Schema, Invalidate(schemas) PROVE DropAny
  <2> DEFINE ks == UNION {OfSchema(t, Every) : t \in schemas}
  <2>1. ks \in SUBSET Key
    BY DEF OfSchema
  <2>2. Forget(ks) /\ UNCHANGED <<uses, ddl, loading, inflight>>
    BY <1>4 DEF Invalidate
  <2> HIDE DEF ks
  <2>3. QED
    BY <2>1, <2>2 DEF DropAny
<1>5. QED
  BY <1>2, <1>3, <1>4

\* What a step of the cache is, with the ways of dropping keys taken together.
LEMMA StepCases ==
  ASSUME [IntroNext]_introVars
  PROVE  \/ \E k \in Key, force, keep \in BOOLEAN : Load(k, force, keep)
         \/ \E f \in Fetch : Execute(f) \/ Land(f) \/ Fail(f)
         \/ DropAny
         \/ \E s \in Schema : Ddl(s)
         \/ UNCHANGED introVars
<1>1. CASE \E s \in Schema : \E kinds \in {ObjKind} \cup {{o} : o \in ObjKind} : InvalidateObjects(s, kinds)
  BY <1>1, DropsAreAny
<1>2. CASE \E s \in Schema : InvalidateObjectLists(s)
  BY <1>2, DropsAreAny
<1>3. CASE \E schemas \in {Schema} \cup {{s} : s \in Schema} : Invalidate(schemas)
  <2>1. PICK schemas \in {Schema} \cup {{s} : s \in Schema} : Invalidate(schemas)
    BY <1>3
  <2>2. CASE Schema = {}
    <3>1. schemas = {}
      BY <2>1, <2>2
    <3>2. Forget({}) /\ UNCHANGED <<uses, ddl, loading, inflight>>
      <4>1. UNION {OfSchema(t, Every) : t \in schemas} = {}
        BY <3>1
      <4>2. QED
        BY <2>1, <4>1 DEF Invalidate
    <3>3. QED
      BY <3>2 DEF DropAny
  <2>3. CASE Schema # {}
    BY <2>1, <2>3, DropsAreAny
  <2>4. QED
    BY <2>2, <2>3
<1>4. QED
  BY <1>1, <1>2, <1>3 DEF IntroNext

\* Dropping keys empties them, lifts their floor to the present at most, and races the
\* fetches that would write them.
LEMMA DropEffect ==
  ASSUME IntroTypeOK, FetchesTyped, DropAny
  PROVE  /\ FetchesTyped'
         /\ uses' = uses /\ ddl' = ddl /\ loading' = loading /\ inflight' = inflight
         /\ \A f \in Fetch : /\ fetches'[f].key = fetches[f].key
                             /\ fetches'[f].ver = fetches[f].ver
         /\ \E ks \in SUBSET Key :
              /\ entries' = [k \in Key |-> IF k \in ks THEN Absent ELSE entries[k]]
              /\ floor' = [k \in Key |-> IF k \in ks /\ k[1] \in uses THEN ddl[k[2]] ELSE floor[k]]
              /\ \A f \in Fetch : fetches[f].key # <<>> /\ ~fetches'[f].raced =>
                   ~fetches[f].raced /\ Warms(fetches[f].key) \cap ks = {}
<1>1. PICK ks \in SUBSET Key : Forget(ks) /\ UNCHANGED <<uses, ddl, loading, inflight>>
  BY DEF DropAny
<1>2. fetches' = Race(fetches, ks)
  BY <1>1 DEF Forget
<1>3. /\ TypedCalls(fetches')
      /\ \A f \in Fetch :
           /\ fetches'[f].key = fetches[f].key
           /\ fetches'[f].ver = fetches[f].ver
           /\ fetches[f].raced => fetches'[f].raced
           /\ fetches[f].key # <<>> /\ ~fetches'[f].raced => Warms(fetches[f].key) \cap ks = {}
  BY <1>2, RaceEffect DEF FetchesTyped
<1>4. QED
  BY <1>1, <1>3 DEF Forget, FetchesTyped

-----------------------------------------------------------------------------
\* The fetches stay fetches.
LEMMA StepFetchesTyped == IntroTypeOK /\ FetchesTyped /\ [IntroNext]_introVars => FetchesTyped'
<1> SUFFICES ASSUME IntroTypeOK, FetchesTyped, [IntroNext]_introVars PROVE FetchesTyped'
  OBVIOUS
<1>1. ASSUME NEW k \in Key, NEW force \in BOOLEAN, NEW keep \in BOOLEAN, Load(k, force, keep)
      PROVE FetchesTyped'
  BY <1>1, LoadCalls
<1>2. ASSUME NEW f \in Fetch, Execute(f) PROVE FetchesTyped'
  BY <1>2, ExecuteCalls
<1>3. ASSUME NEW f \in Fetch, Land(f) PROVE FetchesTyped'
  BY <1>3, LandCalls
<1>4. ASSUME NEW f \in Fetch, Fail(f) PROVE FetchesTyped'
  BY <1>4, FailCalls
<1>5. ASSUME DropAny PROVE FetchesTyped'
  BY <1>5, DropEffect
<1>6. ASSUME NEW s \in Schema, Ddl(s) PROVE FetchesTyped'
  BY <1>6 DEF Ddl, FetchesTyped
<1>7. ASSUME UNCHANGED introVars PROVE FetchesTyped'
  BY <1>7 DEF introVars, FetchesTyped
<1>8. QED
  BY <1>1, <1>2, <1>3, <1>4, <1>5, <1>6, <1>7, StepCases

\* What IntroTypeOK says of the fetches.
LEMMA TypedFacts ==
  ASSUME NEW calls, TypedCalls(calls), NEW f \in Fetch
  PROVE  /\ calls[f].key \in Key \cup {<<>>}
         /\ calls[f].ver \in Absent..MaxDdl
         /\ calls[f].key = <<>> => calls[f] = NoCall
         /\ calls[f].force => calls[f].key[1] \in {"tables", "objects"}
         /\ calls[f].keep => calls[f].force
  BY DEF TypedCalls, FetchRecord, Forceable

\* Every step keeps the variables in their types.
LEMMA StepTypeOK == IntroTypeOK /\ FetchesTyped /\ [IntroNext]_introVars => IntroTypeOK'
<1> SUFFICES ASSUME IntroTypeOK, FetchesTyped, [IntroNext]_introVars PROVE IntroTypeOK'
  OBVIOUS
<1> DEFINE Rest == /\ uses \in Uses
                   /\ ddl \in [Schema -> 0..MaxDdl]
                   /\ entries \in [Key -> Absent..MaxDdl]
                   /\ loading \subseteq Key
                   /\ inflight \in [Key -> Fetch \cup {NoFetch}]
                   /\ floor \in [Key -> 0..MaxDdl]
<1>1. ASSUME NEW k \in Key, NEW force \in BOOLEAN, NEW keep \in BOOLEAN, Load(k, force, keep)
      PROVE Rest'
  <2>1. PICK f \in Fetch : inflight' = [inflight EXCEPT ![k] = f]
    BY <1>1, LoadCalls
  <2>2. QED
    BY <1>1, <2>1 DEF Load, IntroTypeOK
<1>2. ASSUME NEW f \in Fetch, Execute(f) PROVE Rest'
  BY <1>2 DEF Execute, IntroTypeOK
<1>3. ASSUME NEW f \in Fetch, Land(f) PROVE Rest'
  <2>1. fetches[f].ver \in 0..MaxDdl
    BY <1>3, LandCalls
  <2>2. entries' \in [Key -> Absent..MaxDdl]
    BY <1>3, <2>1, IntroAssumption DEF Land, IntroTypeOK, Absent
  <2>3. floor' \in [Key -> 0..MaxDdl]
    BY <1>3, <2>1, IntroAssumption DEF Land, IntroTypeOK
  <2>4. inflight' \in [Key -> Fetch \cup {NoFetch}]
    BY <1>3 DEF Land, Vacated, IntroTypeOK
  <2>5. QED
    BY <1>3, <2>2, <2>3, <2>4 DEF Land, IntroTypeOK
<1>4. ASSUME NEW f \in Fetch, Fail(f) PROVE Rest'
  BY <1>4 DEF Fail, Vacated, IntroTypeOK
<1>5. ASSUME DropAny PROVE Rest'
  <2>1. PICK ks \in SUBSET Key :
          /\ entries' = [k \in Key |-> IF k \in ks THEN Absent ELSE entries[k]]
          /\ floor' = [k \in Key |-> IF k \in ks /\ k[1] \in uses THEN ddl[k[2]] ELSE floor[k]]
    BY <1>5, DropEffect
  <2>2. entries' \in [Key -> Absent..MaxDdl]
    BY <2>1, IntroAssumption DEF IntroTypeOK, Absent
  <2>3. \A k \in Key : ddl[k[2]] \in 0..MaxDdl
    BY KeyFacts DEF IntroTypeOK
  <2>4. floor' \in [Key -> 0..MaxDdl]
    BY <2>1, <2>3 DEF IntroTypeOK
  <2>5. QED
    BY <1>5, <2>2, <2>4, DropEffect DEF IntroTypeOK
<1>6. ASSUME NEW s \in Schema, Ddl(s) PROVE Rest'
  BY <1>6, IntroAssumption DEF Ddl, IntroTypeOK
<1>7. ASSUME UNCHANGED introVars PROVE Rest'
  BY <1>7 DEF introVars, IntroTypeOK
<1>8. Rest'
  BY <1>1, <1>2, <1>3, <1>4, <1>5, <1>6, <1>7, StepCases
<1>9. TypedCalls(fetches')
  BY StepFetchesTyped DEF FetchesTyped
<1>10. \A f \in Fetch :
         /\ fetches'[f].key \in Key \cup {<<>>}
         /\ fetches'[f].ver \in Absent..MaxDdl
         /\ fetches'[f].key = <<>> => fetches'[f] = NoCall
         /\ fetches'[f].force => fetches'[f].key[1] \in {"tables", "objects"}
         /\ fetches'[f].keep => fetches'[f].force
  BY <1>9, TypedFacts
<1>11. QED
  BY <1>8, <1>10 DEF IntroTypeOK

\* A place that loads join stays with a fetch under way, and a key that is never forced
\* stays with one fetch: a load starts one only where no place is held.
LEMMA StepPlacesHeld ==
  IntroTypeOK /\ FetchesTyped /\ PlacesHeld /\ [IntroNext]_introVars => PlacesHeld'
<1> SUFFICES ASSUME IntroTypeOK, FetchesTyped, PlacesHeld, [IntroNext]_introVars PROVE PlacesHeld'
  OBVIOUS
<1> USE DEF Running
<1>1. ASSUME NEW k \in Key, NEW force \in BOOLEAN, NEW keep \in BOOLEAN, Load(k, force, keep)
      PROVE PlacesHeld'
  <2>1. PICK f \in Fetch :
          /\ fetches[f] = NoCall
          /\ fetches'[f].key = k
          /\ inflight' = [inflight EXCEPT ![k] = f]
          /\ \A g \in Fetch : g # f => fetches'[g] = fetches[g]
    BY <1>1, LoadCalls
  <2>2. fetches[f].key = <<>>
    BY <2>1, NoCallTyped
  <2>3. inflight'[k] = f /\ \A j \in Key : j # k => inflight'[j] = inflight[j]
    BY <2>1 DEF IntroTypeOK
  <2>4. ~Forceable(k) => inflight[k] = NoFetch
    BY <1>1 DEF Load, Served
  <2>5. ASSUME NEW j \in Key, inflight'[j] # NoFetch
        PROVE  inflight'[j] \in Fetch /\ fetches'[inflight'[j]].key = j
    <3>1. CASE j = k
      BY <2>1, <2>3, <3>1
    <3>2. CASE j # k
      <4>1. inflight[j] \in Fetch /\ fetches[inflight[j]].key = j
        BY <2>3, <2>5, <3>2 DEF PlacesHeld
      <4>2. inflight[j] # f
        BY <2>2, <4>1, KeyFacts
      <4>3. QED
        BY <2>1, <2>3, <3>2, <4>1, <4>2
    <3>3. QED
      BY <3>1, <3>2
  <2>6. ASSUME NEW j \in Key, NEW g \in Fetch, fetches'[g].key = j, ~Forceable(j)
        PROVE  inflight'[j] = g
    <3>1. CASE g = f
      BY <2>1, <2>3, <2>6, <3>1
    <3>2. CASE g # f
      <4>1. inflight[j] = g
        BY <2>1, <2>6, <3>2 DEF PlacesHeld
      <4>2. j # k
        BY <2>4, <2>6, <4>1, IntroAssumption
      <4>3. QED
        BY <2>3, <4>1, <4>2
    <3>3. QED
      BY <3>1, <3>2
  <2>7. QED
    BY <2>5, <2>6 DEF PlacesHeld, Forceable
<1>2. ASSUME NEW f \in Fetch, Execute(f) PROVE PlacesHeld'
  <2>1. \A g \in Fetch : fetches'[g].key = fetches[g].key
    BY <1>2, ExecuteCalls
  <2>2. QED
    BY <1>2, <2>1 DEF Execute, PlacesHeld, Forceable
<1>3. ASSUME NEW f \in Fetch, inflight' = Vacated(f), fetches'[f].key = <<>>, fetches[f].key \in Key,
             \A g \in Fetch : g # f => fetches'[g].key = fetches[g].key
      PROVE PlacesHeld'
  <2>1. ASSUME NEW j \in Key, inflight'[j] # NoFetch
        PROVE  inflight'[j] \in Fetch /\ fetches'[inflight'[j]].key = j
    <3>1. inflight'[j] = inflight[j] /\ ~(j = fetches[f].key /\ inflight[j] = f)
      BY <1>3, <2>1 DEF Vacated
    <3>2. inflight[j] \in Fetch /\ fetches[inflight[j]].key = j
      BY <2>1, <3>1 DEF PlacesHeld
    <3>3. inflight[j] # f
      BY <3>1, <3>2
    <3>4. QED
      BY <1>3, <3>1, <3>2, <3>3
  <2>2. ASSUME NEW j \in Key, NEW g \in Fetch, fetches'[g].key = j, ~Forceable(j)
        PROVE  inflight'[j] = g
    <3>1. g # f
      BY <1>3, <2>2, KeyFacts
    <3>2. inflight[j] = g
      BY <1>3, <2>2, <3>1 DEF PlacesHeld
    <3>3. QED
      BY <1>3, <3>1, <3>2 DEF Vacated
  <2>3. QED
    BY <2>1, <2>2 DEF PlacesHeld, Forceable
<1>4. ASSUME NEW f \in Fetch, Land(f) PROVE PlacesHeld'
  BY <1>3, <1>4, LandCalls DEF Land
<1>5. ASSUME NEW f \in Fetch, Fail(f) PROVE PlacesHeld'
  BY <1>3, <1>5, FailCalls DEF Fail
<1>6. ASSUME DropAny PROVE PlacesHeld'
  BY <1>6, DropEffect DEF PlacesHeld, Forceable
<1>7. ASSUME NEW s \in Schema, Ddl(s) PROVE PlacesHeld'
  BY <1>7 DEF Ddl, PlacesHeld, Forceable
<1>8. ASSUME UNCHANGED introVars PROVE PlacesHeld'
  BY <1>8 DEF introVars, PlacesHeld, Forceable
<1>9. QED
  BY <1>1, <1>2, <1>4, <1>5, <1>6, <1>7, <1>8, StepCases

\* A key goes on loading only while one of its fetches is under way: whichever fetch of a
\* key ends takes the key off what is shown as loading.
LEMMA StepLoadingHasFetch ==
  IntroTypeOK /\ FetchesTyped /\ LoadingHasFetch /\ [IntroNext]_introVars => LoadingHasFetch'
<1> SUFFICES ASSUME IntroTypeOK, FetchesTyped, LoadingHasFetch, [IntroNext]_introVars
             PROVE  LoadingHasFetch'
  OBVIOUS
<1> USE DEF LoadingHasFetch, Running
<1>1. ASSUME NEW k \in Key, NEW force \in BOOLEAN, NEW keep \in BOOLEAN, Load(k, force, keep)
      PROVE LoadingHasFetch'
  <2>1. PICK f \in Fetch :
          /\ fetches[f] = NoCall
          /\ fetches'[f].key = k
          /\ \A g \in Fetch : g # f => fetches'[g] = fetches[g]
    BY <1>1, LoadCalls
  <2>2. fetches[f].key = <<>>
    BY <2>1, NoCallTyped
  <2>3. ASSUME NEW j \in loading' PROVE \E g \in Fetch : fetches'[g].key = j
    <3>1. CASE j = k
      BY <2>1, <3>1
    <3>2. CASE j # k
      <4>1. j \in loading /\ j \in Key
        BY <1>1, <2>3, <3>2 DEF Load, IntroTypeOK
      <4>2. PICK g \in Fetch : fetches[g].key = j
        BY <4>1
      <4>3. g # f
        BY <2>2, <4>1, <4>2, KeyFacts
      <4>4. QED
        BY <2>1, <4>2, <4>3
    <3>3. QED
      BY <3>1, <3>2
  <2>4. QED
    BY <2>3
<1>2. ASSUME NEW f \in Fetch, Execute(f) PROVE LoadingHasFetch'
  <2>1. \A g \in Fetch : fetches'[g].key = fetches[g].key
    BY <1>2, ExecuteCalls
  <2>2. QED
    BY <1>2, <2>1 DEF Execute
<1>3. ASSUME NEW f \in Fetch, loading' = loading \ {fetches[f].key},
             \A g \in Fetch : g # f => fetches'[g].key = fetches[g].key
      PROVE LoadingHasFetch'
  BY <1>3
<1>4. ASSUME NEW f \in Fetch, Land(f) PROVE LoadingHasFetch'
  BY <1>3, <1>4, LandCalls DEF Land
<1>5. ASSUME NEW f \in Fetch, Fail(f) PROVE LoadingHasFetch'
  BY <1>3, <1>5, FailCalls DEF Fail
<1>6. ASSUME DropAny PROVE LoadingHasFetch'
  BY <1>6, DropEffect
<1>7. ASSUME NEW s \in Schema, Ddl(s) PROVE LoadingHasFetch'
  BY <1>7 DEF Ddl
<1>8. ASSUME UNCHANGED introVars PROVE LoadingHasFetch'
  BY <1>8 DEF introVars
<1>9. QED
  BY <1>1, <1>2, <1>4, <1>5, <1>6, <1>7, <1>8, StepCases

\* No version is from the future: versions are read from the database, whose only grow, and
\* floors are lifted to a version that was read.
LEMMA StepKnown == IntroTypeOK /\ FetchesTyped /\ Known /\ [IntroNext]_introVars => Known'
<1> SUFFICES ASSUME IntroTypeOK, FetchesTyped, Known, [IntroNext]_introVars PROVE Known'
  OBVIOUS
<1>1. \A k \in Key : k[2] \in Schema /\ ddl[k[2]] \in 0..MaxDdl /\ floor[k] \in 0..MaxDdl
  BY KeyFacts DEF IntroTypeOK
<1>2. ASSUME NEW k \in Key, NEW force \in BOOLEAN, NEW keep \in BOOLEAN, Load(k, force, keep)
      PROVE Known'
  <2>1. PICK f \in Fetch :
          /\ fetches'[f].key = k /\ fetches'[f].ver = Absent
          /\ \A g \in Fetch : g # f => fetches'[g] = fetches[g]
    BY <1>2, LoadCalls
  <2>2. UNCHANGED <<ddl, floor>>
    BY <1>2 DEF Load
  <2>3. fetches'[f].ver <= ddl[fetches'[f].key[2]]
    BY <1>1, <2>1 DEF Absent
  <2>4. QED
    BY <2>1, <2>2, <2>3 DEF Known
<1>3. ASSUME NEW f \in Fetch, Execute(f) PROVE Known'
  <2>1. /\ fetches[f].key \in Key
        /\ fetches'[f].key = fetches[f].key
        /\ fetches'[f].ver = ddl[fetches[f].key[2]]
        /\ \A g \in Fetch : g # f => fetches'[g] = fetches[g]
    BY <1>3, ExecuteCalls
  <2>2. QED
    BY <1>1, <1>3, <2>1 DEF Execute, Known
<1>4. ASSUME NEW f \in Fetch, Land(f) PROVE Known'
  <2>1. /\ fetches[f].key \in Key /\ fetches[f].key # <<>> /\ fetches[f].ver \in 0..MaxDdl
        /\ fetches'[f].key = <<>>
        /\ \A g \in Fetch : g # f => fetches'[g].key = fetches[g].key /\ fetches'[g].ver = fetches[g].ver
    BY <1>4, LandCalls, KeyFacts
  <2>2. fetches[f].ver <= ddl[fetches[f].key[2]]
    BY <2>1 DEF Known
  <2>3. \A k \in Refreshed(fetches[f]) : k[2] = fetches[f].key[2]
    BY DEF Refreshed, OfSchema
  <2>4. ASSUME NEW k \in Key PROVE floor'[k] <= ddl[k[2]]
    BY <1>1, <1>4, <2>1, <2>2, <2>3 DEF Land, Known
  <2>5. ddl' = ddl
    BY <1>4 DEF Land
  <2>6. \A g \in Fetch : fetches'[g].key # <<>> => fetches'[g].ver <= ddl[fetches'[g].key[2]]
    BY <2>1 DEF Known
  <2>7. QED
    BY <2>4, <2>5, <2>6 DEF Known
<1>5. ASSUME NEW f \in Fetch, Fail(f) PROVE Known'
  <2>1. /\ fetches'[f].key = <<>>
        /\ \A g \in Fetch : g # f => fetches'[g] = fetches[g]
    BY <1>5, FailCalls
  <2>2. QED
    BY <1>5, <2>1 DEF Fail, Known
<1>6. ASSUME DropAny PROVE Known'
  <2>1. PICK ks \in SUBSET Key :
          floor' = [k \in Key |-> IF k \in ks /\ k[1] \in uses THEN ddl[k[2]] ELSE floor[k]]
    BY <1>6, DropEffect
  <2>2. \A k \in Key : floor'[k] <= ddl[k[2]]
    BY <1>1, <2>1 DEF Known
  <2>3. ddl' = ddl /\ \A f \in Fetch : fetches'[f].key = fetches[f].key /\ fetches'[f].ver = fetches[f].ver
    BY <1>6, DropEffect
  <2>4. QED
    BY <2>2, <2>3 DEF Known
<1>7. ASSUME NEW s \in Schema, Ddl(s) PROVE Known'
  <2>1. \A t \in Schema : ddl[t] \in Int /\ ddl'[t] \in Int /\ ddl[t] <= ddl'[t]
    BY <1>7 DEF Ddl, IntroTypeOK
  <2>2. floor' = floor /\ fetches' = fetches
    BY <1>7 DEF Ddl
  <2>3. \A k \in Key : floor[k] <= ddl'[k[2]]
    BY <1>1, <2>1 DEF Known
  <2>4. ASSUME NEW f \in Fetch, fetches[f].key # <<>> PROVE fetches[f].ver <= ddl'[fetches[f].key[2]]
    <3>1. fetches[f].key \in Key /\ fetches[f].ver \in Int
      BY <2>4, TypedFacts, IntroAssumption DEF FetchesTyped, Absent
    <3>2. fetches[f].ver <= ddl[fetches[f].key[2]]
      BY <2>4 DEF Known
    <3>3. QED
      BY <1>1, <2>1, <3>1, <3>2
  <2>5. QED
    BY <2>2, <2>3, <2>4 DEF Known
<1>8. ASSUME UNCHANGED introVars PROVE Known'
  BY <1>8 DEF introVars, Known
<1>9. QED
  BY <1>2, <1>3, <1>4, <1>5, <1>6, <1>7, <1>8, StepCases

\* An answer stays as new as all it will write, unless it is raced: it is of the present when
\* it is read, and a drop or a refresh that lifts a floor above it races it.
LEMMA StepAnswersFresh ==
  IntroTypeOK /\ FetchesTyped /\ Known /\ AnswersFresh /\ [IntroNext]_introVars => AnswersFresh'
<1> SUFFICES ASSUME IntroTypeOK, FetchesTyped, Known, AnswersFresh, [IntroNext]_introVars
             PROVE  AnswersFresh'
  OBVIOUS
<1> USE DEF Answered
<1>1. ASSUME NEW k \in Key, NEW force \in BOOLEAN, NEW keep \in BOOLEAN, Load(k, force, keep)
      PROVE AnswersFresh'
  <2>1. PICK f \in Fetch :
          /\ fetches'[f].ver = Absent
          /\ \A g \in Fetch : g # f => fetches'[g] = fetches[g]
    BY <1>1, LoadCalls
  <2>2. floor' = floor
    BY <1>1 DEF Load
  <2>3. QED
    BY <2>1, <2>2 DEF AnswersFresh, Warms, ColumnsKey
<1>2. ASSUME NEW f \in Fetch, Execute(f) PROVE AnswersFresh'
  <2>1. /\ fetches[f].key \in Key
        /\ fetches'[f].key = fetches[f].key
        /\ fetches'[f].ver = ddl[fetches[f].key[2]]
        /\ \A g \in Fetch : g # f => fetches'[g] = fetches[g]
    BY <1>2, ExecuteCalls
  <2>2. floor' = floor
    BY <1>2 DEF Execute
  <2>3. ASSUME NEW k \in Warms(fetches[f].key) PROVE floor[k] <= fetches'[f].ver
    <3>1. k \in Key /\ k[2] = fetches[f].key[2]
      BY <2>1, WarmsFacts
    <3>2. QED
      BY <2>1, <3>1 DEF Known
  <2>4. QED
    BY <2>1, <2>2, <2>3 DEF AnswersFresh, Warms, ColumnsKey
<1>3. ASSUME NEW f \in Fetch, Land(f) PROVE AnswersFresh'
  <2>1. ASSUME NEW g \in Fetch, fetches'[g].key # <<>>, fetches'[g].ver # Absent, ~fetches'[g].raced,
               NEW k \in Warms(fetches'[g].key)
        PROVE  floor'[k] <= fetches'[g].ver
    <3>1. g # f
      BY <1>3, <2>1, LandCalls
    <3>2. /\ fetches'[g].key = fetches[g].key
          /\ fetches'[g].ver = fetches[g].ver
          /\ ~fetches[g].raced
          /\ Warms(fetches[g].key) \cap Refreshed(fetches[f]) = {}
      BY <1>3, <2>1, <3>1, LandCalls
    <3>3. fetches[g].key \in Key /\ fetches[g].ver \in 0..MaxDdl
      BY <2>1, <3>2, TypedFacts, IntroAssumption DEF FetchesTyped, Absent
    <3>4. k \in Key /\ k \notin Refreshed(fetches[f])
      BY <2>1, <3>2, <3>3, WarmsFacts
    <3>5. floor[k] <= fetches[g].ver
      BY <2>1, <3>2 DEF AnswersFresh
    <3>6. floor'[k] = 0 \/ floor'[k] = floor[k]
      BY <1>3, <3>4 DEF Land
    <3>7. QED
      BY <3>2, <3>3, <3>5, <3>6
  <2>2. QED
    BY <2>1 DEF AnswersFresh, Warms, ColumnsKey
<1>4. ASSUME NEW f \in Fetch, Fail(f) PROVE AnswersFresh'
  <2>1. /\ fetches'[f].key = <<>>
        /\ \A g \in Fetch : g # f => fetches'[g] = fetches[g]
    BY <1>4, FailCalls
  <2>2. floor' = floor
    BY <1>4 DEF Fail
  <2>3. QED
    BY <2>1, <2>2 DEF AnswersFresh, Warms, ColumnsKey
<1>5. ASSUME DropAny PROVE AnswersFresh'
  <2>1. PICK ks \in SUBSET Key :
          /\ floor' = [k \in Key |-> IF k \in ks /\ k[1] \in uses THEN ddl[k[2]] ELSE floor[k]]
          /\ \A f \in Fetch : fetches[f].key # <<>> /\ ~fetches'[f].raced =>
               ~fetches[f].raced /\ Warms(fetches[f].key) \cap ks = {}
    BY <1>5, DropEffect
  <2>2. \A f \in Fetch : fetches'[f].key = fetches[f].key /\ fetches'[f].ver = fetches[f].ver
    BY <1>5, DropEffect
  <2>3. ASSUME NEW f \in Fetch, fetches[f].key # <<>>, fetches[f].ver # Absent, ~fetches'[f].raced,
               NEW k \in Warms(fetches[f].key)
        PROVE  floor'[k] <= fetches[f].ver
    <3>1. k \in Key /\ k \notin ks
      BY <2>1, <2>3, TypedFacts, WarmsFacts DEF FetchesTyped
    <3>2. floor'[k] = floor[k]
      BY <2>1, <3>1
    <3>3. QED
      BY <2>1, <2>3, <3>2 DEF AnswersFresh
  <2>4. QED
    BY <2>2, <2>3 DEF AnswersFresh, Warms, ColumnsKey
<1>6. ASSUME NEW s \in Schema, Ddl(s) PROVE AnswersFresh'
  BY <1>6 DEF Ddl, AnswersFresh, Warms, ColumnsKey
<1>7. ASSUME UNCHANGED introVars PROVE AnswersFresh'
  BY <1>7 DEF introVars, AnswersFresh, Warms, ColumnsKey
<1>8. QED
  BY <1>1, <1>2, <1>3, <1>4, <1>5, <1>6, <1>7, StepCases

\* A cached value stays as new as the last drop of its key: what an answer nobody raced
\* writes is, and one that was raced lifts the floor.
LEMMA StepNewerThanDrop ==
  /\ IntroTypeOK /\ FetchesTyped /\ AnswersFresh /\ NewerThanDrop
  /\ [IntroNext]_introVars
  => NewerThanDrop'
<1> SUFFICES ASSUME IntroTypeOK, FetchesTyped, AnswersFresh, NewerThanDrop, [IntroNext]_introVars
             PROVE  NewerThanDrop'
  OBVIOUS
<1> USE DEF NewerThanDrop, Cached
<1>1. ASSUME NEW k \in Key, NEW force \in BOOLEAN, NEW keep \in BOOLEAN, Load(k, force, keep)
      PROVE NewerThanDrop'
  BY <1>1 DEF Load
<1>2. ASSUME NEW f \in Fetch, Execute(f) PROVE NewerThanDrop'
  BY <1>2 DEF Execute
<1>3. ASSUME NEW f \in Fetch, Land(f) PROVE NewerThanDrop'
  <2> DEFINE c == fetches[f]
  <2>1. c.key \in Key /\ c.key # <<>> /\ c.ver \in 0..MaxDdl /\ c.ver # Absent
    BY <1>3, LandCalls, KeyFacts DEF Land, Answered
  <2>2. ~c.raced => \A k \in Warms(c.key) : floor[k] <= c.ver
    BY <2>1 DEF AnswersFresh, Answered
  <2>3. ASSUME NEW k \in Key, entries'[k] # Absent PROVE entries'[k] >= floor'[k]
    <3>1. floor[k] \in Int
      BY DEF IntroTypeOK
    <3>2. CASE k \in Warms(c.key)
      <4>1. entries'[k] = c.ver
        BY <1>3, <3>2 DEF Land
      <4>2. floor'[k] \in {0, c.ver, floor[k]} /\ (~c.raced => floor'[k] <= c.ver \/ floor'[k] = floor[k])
            /\ (c.raced => floor'[k] = 0)
        BY <1>3, <2>1, <3>2 DEF Land
      <4>3. QED
        BY <2>1, <2>2, <3>1, <3>2, <4>1, <4>2
    <3>3. CASE k \notin Warms(c.key)
      <4>1. k \notin Refreshed(c) /\ entries'[k] = entries[k] /\ floor'[k] = floor[k]
        BY <1>3, <2>3, <3>3 DEF Land
      <4>2. QED
        BY <2>3, <4>1
    <3>4. QED
      BY <3>2, <3>3
  <2>4. QED
    BY <2>3
<1>4. ASSUME NEW f \in Fetch, Fail(f) PROVE NewerThanDrop'
  BY <1>4 DEF Fail
<1>5. ASSUME DropAny PROVE NewerThanDrop'
  <2>1. PICK ks \in SUBSET Key :
          /\ entries' = [k \in Key |-> IF k \in ks THEN Absent ELSE entries[k]]
          /\ floor' = [k \in Key |-> IF k \in ks /\ k[1] \in uses THEN ddl[k[2]] ELSE floor[k]]
    BY <1>5, DropEffect
  <2>2. QED
    BY <2>1
<1>6. ASSUME NEW s \in Schema, Ddl(s) PROVE NewerThanDrop'
  BY <1>6 DEF Ddl
<1>7. ASSUME UNCHANGED introVars PROVE NewerThanDrop'
  BY <1>7 DEF introVars
<1>8. QED
  BY <1>1, <1>2, <1>3, <1>4, <1>5, <1>6, <1>7, StepCases

-----------------------------------------------------------------------------
LEMMA IntroStarts == IntroInit => IntroInv
<1> SUFFICES ASSUME IntroInit PROVE IntroInv
  OBVIOUS
<1>1. \A f \in Fetch : fetches[f] = NoCall
  BY DEF IntroInit
<1>2. FetchesTyped
  BY NoCallTyped DEF IntroInit, FetchesTyped, TypedCalls
<1>3. IntroTypeOK
  BY <1>2, TypedFacts, IntroAssumption DEF IntroInit, IntroTypeOK, FetchesTyped, Absent
<1>4. PlacesHeld
  BY <1>1, NoCallTyped, KeyFacts DEF IntroInit, PlacesHeld, Running
<1>5. LoadingHasFetch
  BY DEF IntroInit, LoadingHasFetch
<1>6. Known
  BY <1>1, NoCallTyped, KeyFacts DEF IntroInit, Known
<1>7. AnswersFresh
  BY <1>1, NoCallTyped DEF AnswersFresh
<1>8. NewerThanDrop
  BY DEF IntroInit, NewerThanDrop, Cached
<1>9. QED
  BY <1>2, <1>3, <1>4, <1>5, <1>6, <1>7, <1>8 DEF IntroInv

LEMMA IntroStep == IntroInv /\ [IntroNext]_introVars => IntroInv'
  BY StepTypeOK, StepFetchesTyped, StepPlacesHeld, StepLoadingHasFetch, StepKnown,
     StepAnswersFresh, StepNewerThanDrop DEF IntroInv

LEMMA IntroShown == IntroInv => IntroTypeOK /\ FetchesShared /\ LoadingHasFetch
<1>1. ASSUME PlacesHeld PROVE FetchesShared
  <2>1. ASSUME NEW k \in Key, ~Forceable(k) PROVE Cardinality(Running(k)) <= 1
    <3>1. Running(k) = {} \/ Running(k) = {inflight[k]}
      BY <1>1, <2>1 DEF PlacesHeld
    <3>2. Cardinality({}) = 0 /\ Cardinality({inflight[k]}) = 1
      BY FS_EmptySet, FS_Singleton
    <3>3. QED
      BY <3>1, <3>2
  <2>2. QED
    BY <1>1, <2>1 DEF PlacesHeld, FetchesShared
<1>2. QED
  BY <1>1 DEF IntroInv

\* IntroInv is an inductive invariant of the cache.
THEOREM IntroInvariant == IntroSpec => []IntroInv
  BY IntroStarts, IntroStep, PTL DEF IntroSpec

\* The cache keeps its types.
THEOREM IntroTypeCorrect == IntroSpec => []IntroTypeOK
  BY IntroInvariant, IntroShown, PTL

\* Concurrent readers of a key share one fetch (the inflight maps of introspection/state.ts),
\* and no place is left to a fetch that has ended.
THEOREM FetchesAreShared == IntroSpec => []FetchesShared
  BY IntroInvariant, IntroShown, PTL

\* A key shown as loading has a fetch under way that will stop it.
THEOREM LoadingStops == IntroSpec => []LoadingHasFetch
  BY IntroInvariant, IntroShown, PTL

\* A value cached after its key was dropped is as new as the drop, save for an answer that
\* was already under way then.
THEOREM CachedSinceTheDrop == IntroSpec => []NewerThanDrop
<1>1. IntroInv => NewerThanDrop
  BY DEF IntroInv
<1>2. QED
  BY <1>1, IntroInvariant, PTL

-----------------------------------------------------------------------------
(* The board: every document of a board, on screen, kept for undo and redo, or *)
(* stored, is whole, because every change of one is.                           *)

\* A document the program may hold after so many changes.
Sound(d, changes) == d \in Document /\ d.rev <= changes /\ Whole(d)

\* The documents of a board, wherever they are.
Documents(now, before, after, kept, changes) ==
  /\ changes \in 0..MaxRev
  /\ Sound(now, changes) /\ Sound(kept, changes)
  /\ before \in Seq(Document) /\ after \in Seq(Document)
  /\ Len(before) + Len(after) <= HistoryLimit
  /\ \A i \in DOMAIN before : Sound(before[i], changes)
  /\ \A i \in DOMAIN after : Sound(after[i], changes)

\* Of what is selected, edited in place and dragged.
Attended ==
  /\ selection \in [ids : SUBSET Object, edge : (Object \X Object) \cup {NoObject}]
  /\ selection.ids # {} => selection.edge = NoObject
  /\ inPlace \in Object \cup {NoObject}
  /\ gesture \in SUBSET Object
  /\ timer \in BOOLEAN /\ mounted \in BOOLEAN

BoardInv == Documents(board, past, future, stored, rev) /\ Attended

LEMMA BoardInvIsEnough == BoardInv => BoardTypeOK /\ BoardsAreWhole
  BY DEF BoardInv, Documents, Sound, Attended, BoardTypeOK, BoardsAreWhole, Histories

-----------------------------------------------------------------------------
\* What is sound stays so as more is changed.
LEMMA SoundLater ==
  ASSUME NEW d, NEW m \in 0..MaxRev, NEW n \in 0..MaxRev, m <= n, Sound(d, m)
  PROVE  Sound(d, n)
<1>1. d.rev \in Int
  BY DEF Sound, Document
<1>2. QED
  BY <1>1 DEF Sound

\* The changes of a document.
LEMMA RevisionIsWhole ==
  ASSUME NEW d \in Document, Whole(d), NEW n \in 0..MaxRev
  PROVE  Sound([d EXCEPT !.rev = n], n)
<1>1. [d EXCEPT !.rev = n] \in Document /\ [d EXCEPT !.rev = n].rev = n
  BY DEF Document
<1>2. Whole([d EXCEPT !.rev = n])
  BY DEF Whole, Document
<1>3. QED
  BY <1>1, <1>2 DEF Sound

LEMMA RemovalIsWhole ==
  ASSUME NEW d \in Document, Whole(d), NEW ids \in SUBSET Object
  PROVE  RemoveObjects(d, ids) \in Document /\ Whole(RemoveObjects(d, ids))
<1> DEFINE r == RemoveObjects(d, ids)
<1>1. /\ r.rev = d.rev /\ r.objects = d.objects \ ids
      /\ r.edges = {e \in d.edges : e[1] \notin ids /\ e[2] \notin ids}
      /\ r.groups = {g \ ids : g \in d.groups} \ {{}}
      /\ r.promoted = {p \in d.promoted : p[1] \notin ids /\ p[2] \notin ids}
  BY DEF RemoveObjects, Document
<1>2. r \in Document
  <2>1. /\ d.objects \ ids \in SUBSET Object
        /\ {e \in d.edges : e[1] \notin ids /\ e[2] \notin ids} \in SUBSET (Object \X Object)
        /\ {p \in d.promoted : p[1] \notin ids /\ p[2] \notin ids} \in SUBSET (Object \X Card)
    BY DEF Document
  <2>2. {g \ ids : g \in d.groups} \ {{}} \in SUBSET SUBSET Object
    BY DEF Document
  <2>3. QED
    BY <2>1, <2>2 DEF RemoveObjects, Document
<1> HIDE DEF r
<1>3. \A e \in r.edges : {e[1], e[2]} \subseteq r.objects
  BY <1>1 DEF Whole
<1>4. \A g \in r.groups : g # {} /\ g \subseteq r.objects
  BY <1>1 DEF Whole
<1>5. ASSUME NEW g \in r.groups, NEW h \in r.groups PROVE g = h \/ g \cap h = {}
  <2>1. PICK g1 \in d.groups : g = g1 \ ids
    BY <1>1
  <2>2. PICK h1 \in d.groups : h = h1 \ ids
    BY <1>1
  <2>3. QED
    BY <2>1, <2>2 DEF Whole
<1>6. /\ \A p \in r.promoted : {p[1], p[2]} \subseteq r.objects
      /\ \A p, q \in r.promoted : p[1] = q[1] => p = q
  BY <1>1 DEF Whole
<1>7. QED
  BY <1>2, <1>3, <1>4, <1>5, <1>6 DEF Whole, r

LEMMA GroupingIsWhole ==
  ASSUME NEW d \in Document, Whole(d), NEW ids \in SUBSET d.objects, ids # {}
  PROVE  GroupObjects(d, ids) \in Document /\ Whole(GroupObjects(d, ids))
<1> DEFINE r == GroupObjects(d, ids)
<1>1. /\ r.objects = d.objects /\ r.edges = d.edges /\ r.promoted = d.promoted
      /\ r.groups = ({g \ ids : g \in d.groups} \ {{}}) \cup {ids}
  BY DEF GroupObjects, Document
<1>2. r \in Document
  <2>1. ids \in SUBSET Object
    BY DEF Document
  <2>2. ({g \ ids : g \in d.groups} \ {{}}) \cup {ids} \in SUBSET SUBSET Object
    BY <2>1 DEF Document
  <2>3. QED
    BY <2>2 DEF GroupObjects, Document
<1> HIDE DEF r
<1>3. \A g \in r.groups : g # {} /\ g \subseteq r.objects
  BY <1>1 DEF Whole
<1>4. ASSUME NEW g \in r.groups PROVE g = ids \/ \E g1 \in d.groups : g = g1 \ ids
  BY <1>1
<1>5. ASSUME NEW g \in r.groups, NEW h \in r.groups PROVE g = h \/ g \cap h = {}
  <2>1. CASE g = ids
    BY <1>4, <2>1
  <2>2. CASE h = ids
    BY <1>4, <2>2
  <2>3. CASE g # ids /\ h # ids
    <3>1. PICK g1 \in d.groups : g = g1 \ ids
      BY <1>4, <2>3
    <3>2. PICK h1 \in d.groups : h = h1 \ ids
      BY <1>4, <2>3
    <3>3. QED
      BY <3>1, <3>2 DEF Whole
  <2>4. QED
    BY <2>1, <2>2, <2>3
<1>6. Whole(r)
  <2>1. /\ \A e \in r.edges : {e[1], e[2]} \subseteq r.objects
        /\ \A p \in r.promoted : {p[1], p[2]} \subseteq r.objects
        /\ \A p, q \in r.promoted : p[1] = q[1] => p = q
    BY <1>1 DEF Whole
  <2>2. QED
    BY <1>3, <1>5, <2>1 DEF Whole
<1>7. QED
  BY <1>2, <1>6 DEF r

LEMMA PromotionIsWhole ==
  ASSUME NEW d \in Document, Whole(d), NEW s \in d.objects, NEW c \in Card
  PROVE  Promoted(d, s, c) \in Document /\ Whole(Promoted(d, s, c))
<1> DEFINE r == Promoted(d, s, c)
<1>1. /\ r.objects = d.objects \cup {c} /\ r.edges = d.edges /\ r.groups = d.groups
      /\ r.promoted = {p \in d.promoted : p[1] # s} \cup {<<s, c>>}
  BY DEF Promoted, Document
<1>2. r \in Document
  <2>1. s \in Object /\ c \in Object
    BY DEF Document, Object
  <2>2. /\ d.objects \cup {c} \in SUBSET Object
        /\ {p \in d.promoted : p[1] # s} \cup {<<s, c>>} \in SUBSET (Object \X Card)
    BY <2>1 DEF Document
  <2>3. QED
    BY <2>2 DEF Promoted, Document
<1> HIDE DEF r
<1>3. \A e \in r.edges : {e[1], e[2]} \subseteq r.objects
  BY <1>1 DEF Whole
<1>4. \A g \in r.groups : g # {} /\ g \subseteq r.objects
  BY <1>1 DEF Whole
<1>5. ASSUME NEW p \in r.promoted
      PROVE  \/ p = <<s, c>> /\ p[1] = s /\ p[2] = c
             \/ p \in d.promoted /\ p[1] # s
  BY <1>1
<1>6. \A p \in r.promoted : {p[1], p[2]} \subseteq r.objects
  BY <1>1, <1>5 DEF Whole
<1>7. \A p, q \in r.promoted : p[1] = q[1] => p = q
  BY <1>5 DEF Whole
<1>8. QED
  BY <1>1, <1>2, <1>3, <1>4, <1>6, <1>7 DEF Whole, r

\* Lines and objects that come, and groups that go.
LEMMA EditsAreWhole ==
  ASSUME NEW d \in Document, Whole(d)
  PROVE  /\ \A o \in Object :
              LET r == [d EXCEPT !.objects = @ \cup {o}] IN r \in Document /\ Whole(r)
         /\ \A lines \in SUBSET (d.objects \X d.objects) :
              LET r == [d EXCEPT !.edges = lines] IN r \in Document /\ Whole(r)
         /\ \A groups \in SUBSET d.groups :
              LET r == [d EXCEPT !.groups = groups] IN r \in Document /\ Whole(r)
<1>1. ASSUME NEW o \in Object
      PROVE  LET r == [d EXCEPT !.objects = @ \cup {o}] IN r \in Document /\ Whole(r)
  BY DEF Document, Whole
<1>2. ASSUME NEW lines \in SUBSET (d.objects \X d.objects)
      PROVE  LET r == [d EXCEPT !.edges = lines] IN r \in Document /\ Whole(r)
  BY DEF Document, Whole
<1>3. ASSUME NEW groups \in SUBSET d.groups
      PROVE  LET r == [d EXCEPT !.groups = groups] IN r \in Document /\ Whole(r)
  BY DEF Document, Whole
<1>4. QED
  BY <1>1, <1>2, <1>3

-----------------------------------------------------------------------------
\* A document that goes to the past; the future is given up for it.
LEMMA PushKeepsDocuments ==
  ASSUME BoardInv, PushPast(board), NEW now, NEW changes \in {rev, rev + 1}, changes <= MaxRev,
         Sound(now, changes)
  PROVE  Documents(now, past', future', stored, changes)
<1>1. /\ rev \in 0..MaxRev /\ changes \in 0..MaxRev /\ rev <= changes
      /\ past \in Seq(Document) /\ future \in Seq(Document)
      /\ board \in Document /\ Len(past) + Len(future) <= HistoryLimit
      /\ HistoryLimit \in Nat /\ HistoryLimit >= 1
  BY BoardAssumption DEF BoardInv, Documents, Sound
<1>2. /\ Sound(board, changes) /\ Sound(stored, changes)
      /\ \A i \in DOMAIN past : Sound(past[i], changes)
      /\ \A i \in DOMAIN future : Sound(future[i], changes)
  BY <1>1, SoundLater DEF BoardInv, Documents
<1>3. CASE UNCHANGED <<past, future>>
  BY <1>1, <1>2, <1>3 DEF Documents
<1>4. CASE /\ past' = LET p == Append(past, board) IN IF Len(p) > HistoryLimit THEN Tail(p) ELSE p
           /\ future' = <<>>
  <2> DEFINE p == Append(past, board)
  <2>1. /\ p \in Seq(Document) /\ Len(p) = Len(past) + 1 /\ Len(past) \in Nat /\ p # <<>>
        /\ \A i \in 1..Len(p) : p[i] = board \/ (i \in DOMAIN past /\ p[i] = past[i])
    <3>1. /\ p \in Seq(Document) /\ Len(past) \in Nat /\ Len(p) = Len(past) + 1
          /\ p[Len(past) + 1] = board /\ \A i \in 1..Len(past) : p[i] = past[i]
          /\ \A i \in DOMAIN p : i \in 1..Len(past) \/ i = Len(past) + 1
      BY <1>1, AppendPlaces
    <3> HIDE DEF p
    <3>2. DOMAIN p = 1..Len(p) /\ DOMAIN past = 1..Len(past) /\ p # <<>>
      BY <1>1, <3>1
    <3>3. QED
      BY <3>1, <3>2
  <2>2. \A i \in 1..Len(p) : Sound(p[i], changes)
    BY <1>2, <2>1
  <2>3. Len(p) <= HistoryLimit + 1
    <3>1. Len(future) \in Nat
      BY <1>1
    <3>2. QED
      BY <1>1, <2>1, <3>1
  <2> HIDE DEF p
  <2>4. /\ Tail(p) \in Seq(Document) /\ Len(Tail(p)) = Len(p) - 1
        /\ \A i \in 1..(Len(p) - 1) : Tail(p)[i] = p[i + 1] /\ i + 1 \in 1..Len(p)
    BY <2>1
  <2>5. /\ past' \in Seq(Document) /\ Len(past') <= HistoryLimit
        /\ \A i \in 1..Len(past') : Sound(past'[i], changes)
    <3>1. CASE Len(p) > HistoryLimit
      <4>1. past' = Tail(p)
        BY <1>4, <3>1 DEF p
      <4>2. Len(p) - 1 <= HistoryLimit
        BY <1>1, <2>1, <2>3
      <4>3. \A i \in 1..(Len(p) - 1) : Sound(Tail(p)[i], changes)
        BY <2>2, <2>4
      <4>4. QED
        BY <2>4, <4>1, <4>2, <4>3
    <3>2. CASE ~(Len(p) > HistoryLimit)
      BY <1>1, <1>4, <2>1, <2>2, <3>2 DEF p
    <3>3. QED
      BY <3>1, <3>2
  <2>6. future' \in Seq(Document) /\ Len(future') = 0 /\ DOMAIN future' = {}
    BY <1>4
  <2>7. DOMAIN past' = 1..Len(past') /\ Len(past') \in Nat
    BY <2>5
  <2>8. QED
    BY <1>1, <1>2, <2>5, <2>6, <2>7 DEF Documents
<1>5. QED
  BY <1>3, <1>4 DEF PushPast

\* A change with a step of history of its own, or without one.
LEMMA ApplyKeepsDocuments ==
  ASSUME BoardInv, NEW d \in Document, Whole(d), Apply(d) \/ ApplyWithoutHistory(d)
  PROVE  /\ Documents(board, past, future, stored, rev)'
         /\ timer' = TRUE /\ mounted' = mounted /\ mounted /\ rev' = rev + 1
<1>1. /\ Show(d) /\ rev \in 0..MaxRev /\ MaxRev \in Nat
  BY BoardAssumption DEF Apply, ApplyWithoutHistory, BoardInv, Documents
<1>2. /\ rev' = rev + 1 /\ rev + 1 \in 0..MaxRev /\ stored' = stored
      /\ board' = [d EXCEPT !.rev = rev + 1]
      /\ timer' = TRUE /\ mounted' = mounted /\ mounted
  BY <1>1 DEF Show
<1>3. Sound(board', rev + 1)
  BY <1>2, RevisionIsWhole
<1>4. CASE PushPast(board)
  <2>1. Documents(board', past', future', stored, rev + 1)
    BY <1>2, <1>3, <1>4, PushKeepsDocuments
  <2>2. QED
    BY <1>2, <2>1
<1>5. CASE UNCHANGED <<past, future>>
  <2>1. /\ Sound(stored, rev + 1)
        /\ \A i \in DOMAIN past : Sound(past[i], rev + 1)
        /\ \A i \in DOMAIN future : Sound(future[i], rev + 1)
    BY <1>1, <1>2, SoundLater DEF BoardInv, Documents
  <2>2. Documents(board', past, future, stored, rev + 1)
    BY <1>1, <1>2, <1>3, <2>1 DEF BoardInv, Documents
  <2>3. QED
    BY <1>2, <1>5, <2>2
<1>6. QED
  BY <1>4, <1>5 DEF Apply, ApplyWithoutHistory

\* Undo and redo: a document is taken from one end, and the one left is put on the other.
LEMMA MoveKeepsDocuments ==
  ASSUME NEW changes, NEW now, NEW from, NEW to, NEW kept, Documents(now, from, to, kept, changes), from # <<>>
  PROVE  LET less == SubSeq(from, 1, Len(from) - 1)
             more == Append(to, now)
         IN  /\ Documents(from[Len(from)], less, more, kept, changes)
             /\ less \o <<from[Len(from)]>> = from
<1>1. /\ from \in Seq(Document) /\ to \in Seq(Document) /\ now \in Document
      /\ Len(from) \in Nat /\ Len(to) \in Nat /\ Len(from) > 0
  BY DEF Documents, Sound
<1> DEFINE less == SubSeq(from, 1, Len(from) - 1)
           more == Append(to, now)
<1>2. /\ less \in Seq(Document) /\ Len(less) = Len(from) - 1
      /\ \A i \in 1..(Len(from) - 1) : less[i] = from[i]
  <2>1. /\ Len(from) - 1 \in Nat /\ Len(from) - 1 - 1 + 1 = Len(from) - 1
        /\ \A i \in 1..(Len(from) - 1) : i \in 1..Len(from) /\ from[i] \in Document
    BY <1>1
  <2>2. SubSeq(from, 1, Len(from) - 1) = [i \in 1..(Len(from) - 1) |-> from[i]]
    BY <1>1, <2>1
  <2>3. QED
    BY <2>1, <2>2
<1>3. /\ more \in Seq(Document) /\ Len(more) = Len(to) + 1
      /\ \A i \in 1..Len(to) : more[i] = to[i]
      /\ more[Len(to) + 1] = now
  BY <1>1
<1> HIDE DEF less, more
<1>4. \A i \in DOMAIN less : Sound(less[i], changes)
  BY <1>1, <1>2 DEF Documents
<1>5. \A i \in DOMAIN more : Sound(more[i], changes)
  <2>1. \A i \in 1..(Len(to) + 1) : i \in 1..Len(to) \/ i = Len(to) + 1
    BY <1>1
  <2>2. DOMAIN more = 1..(Len(to) + 1) /\ DOMAIN to = 1..Len(to)
    BY <1>1, <1>3
  <2>3. QED
    BY <1>3, <2>1, <2>2 DEF Documents
<1>6. Len(less) + Len(more) <= HistoryLimit
  BY <1>1, <1>2, <1>3, BoardAssumption DEF Documents
<1>7. Sound(from[Len(from)], changes)
  BY <1>1 DEF Documents
<1>8. Documents(from[Len(from)], less, more, kept, changes)
  BY <1>2, <1>3, <1>4, <1>5, <1>6, <1>7 DEF Documents
<1>9. less \o <<from[Len(from)]>> = from
  <2>1. from[Len(from)] \in Document
    BY <1>1
  <2>2. less \o <<from[Len(from)]>> = Append(less, from[Len(from)])
    BY <1>2, <2>1
  <2>3. /\ Append(less, from[Len(from)]) \in Seq(Document)
        /\ Len(Append(less, from[Len(from)])) = Len(from)
        /\ \A i \in 1..Len(from) : Append(less, from[Len(from)])[i] = from[i]
    BY <1>1, <1>2, <2>1
  <2>4. QED
    BY <1>1, <2>2, <2>3
<1>10. QED
  BY <1>8, <1>9 DEF less, more

-----------------------------------------------------------------------------
LEMMA BoardStarts == BoardInit => BoardInv
<1> SUFFICES ASSUME BoardInit PROVE BoardInv
  OBVIOUS
<1>1. /\ stored \in KnownBoards /\ board = stored /\ past = <<>> /\ future = <<>> /\ rev = 0
      /\ 0 \in 0..MaxRev /\ HistoryLimit >= 0
  BY BoardAssumption DEF BoardInit
<1>2. Sound(stored, 0)
  <2>1. stored \in Document /\ Whole(stored) /\ stored.rev = 0
    BY <1>1, BoardAssumption
  <2>2. QED
    BY <2>1 DEF Sound
<1>3. Documents(board, past, future, stored, rev)
  <2>1. past \in Seq(Document) /\ Len(past) = 0 /\ DOMAIN past = {} /\ future = past
    BY <1>1
  <2>2. QED
    BY <1>1, <1>2, <2>1 DEF Documents
<1>4. Attended
  BY DEF BoardInit, Attended, NothingSelected
<1>5. QED
  BY <1>3, <1>4 DEF BoardInv

LEMMA EmptyIsWhole == EmptyBoard \in Document /\ Whole(EmptyBoard)
  BY BoardAssumption DEF EmptyBoard, Document, Whole

LEMMA BoardStep == BoardInv /\ [BoardNext]_boardVars => BoardInv'
<1> SUFFICES ASSUME BoardInv, [BoardNext]_boardVars PROVE BoardInv'
  OBVIOUS
<1>1. /\ Documents(board, past, future, stored, rev) /\ Attended
      /\ board \in Document /\ Whole(board)
      /\ board.objects \subseteq Object /\ board.edges \subseteq Object \X Object
      /\ \A e \in board.edges : e \in board.objects \X board.objects
  <2>1. /\ Documents(board, past, future, stored, rev) /\ Attended
        /\ board \in Document /\ Whole(board)
        /\ board.objects \subseteq Object /\ board.edges \subseteq Object \X Object
    BY DEF BoardInv, Documents, Sound, Document
  <2>2. \A e \in board.edges : e \in board.objects \X board.objects
    BY <2>1 DEF Whole
  <2>3. QED
    BY <2>1, <2>2
<1>2. ASSUME NEW d \in Document, Whole(d), Apply(d) \/ ApplyWithoutHistory(d), Attended'
      PROVE  BoardInv'
  BY <1>2, ApplyKeepsDocuments DEF BoardInv
<1>3. ASSUME NEW d \in Document, Whole(d), Apply(d) \/ ApplyWithoutHistory(d),
             selection' \in [ids : SUBSET Object, edge : (Object \X Object) \cup {NoObject}],
             selection'.ids # {} => selection'.edge = NoObject,
             inPlace' \in Object \cup {NoObject}, gesture' = gesture
      PROVE  BoardInv'
  <2>1. timer' = TRUE /\ mounted' = mounted
    BY <1>3, ApplyKeepsDocuments
  <2>2. Attended'
    BY <1>1, <1>3, <2>1 DEF Attended
  <2>3. QED
    BY <1>2, <1>3, <2>2
<1>4. ASSUME UNCHANGED <<board, past, future, rev, stored>>, Attended' PROVE BoardInv'
  BY <1>1, <1>4 DEF BoardInv, Documents
<1>5. CASE UNCHANGED boardVars
  BY <1>1, <1>5 DEF boardVars, BoardInv, Documents, Attended
<1>6. ASSUME NEW o \in Object, Create(o) PROVE BoardInv'
  <2>1. [board EXCEPT !.objects = @ \cup {o}] \in Document /\ Whole([board EXCEPT !.objects = @ \cup {o}])
    BY <1>1, EditsAreWhole
  <2>2. QED
    BY <1>3, <1>6, <2>1 DEF Create
<1>7. ASSUME NEW o \in Object, EditInPlace(o) PROVE BoardInv'
  BY <1>1, <1>4, <1>7 DEF EditInPlace, Attended
<1>8. ASSUME NEW ids \in SUBSET Object, Press(ids) PROVE BoardInv'
  <2>1. CASE inPlace \in board.objects
    <3>1. Apply(board)
      BY <1>8, <2>1 DEF Press, Apply
    <3>2. timer' = TRUE /\ mounted' = mounted
      BY <1>1, <3>1, ApplyKeepsDocuments
    <3>3. Attended'
      BY <1>1, <1>8, <3>2 DEF Press, Attended
    <3>4. QED
      BY <1>1, <1>2, <3>1, <3>3
  <2>2. CASE inPlace \notin board.objects
    <3>1. UNCHANGED <<board, rev, timer, stored, mounted>> /\ PushPast(board)
      BY <1>8, <2>2 DEF Press
    <3>2. Documents(board, past', future', stored, rev)
      <4>1. Sound(board, rev) /\ rev <= MaxRev /\ rev \in {rev, rev + 1}
        BY <1>1, BoardAssumption DEF Documents
      <4>2. QED
        BY <3>1, <4>1, PushKeepsDocuments
    <3>3. Attended'
      BY <1>1, <1>8, <3>1 DEF Press, Attended
    <3>4. QED
      BY <3>1, <3>2, <3>3 DEF BoardInv
  <2>3. QED
    BY <2>1, <2>2
<1>9. ASSUME NEW ids \in SUBSET Object, Erase(ids) PROVE BoardInv'
  <2>1. RemoveObjects(board, ids) \in Document /\ Whole(RemoveObjects(board, ids))
    BY <1>1, RemovalIsWhole
  <2>2. /\ selection' \in [ids : SUBSET Object, edge : (Object \X Object) \cup {NoObject}]
        /\ selection'.ids # {} => selection'.edge = NoObject
        /\ inPlace' \in Object \cup {NoObject}
    BY <1>1, <1>9 DEF Erase, Attended
  <2>3. QED
    BY <1>3, <1>9, <2>1, <2>2 DEF Erase
<1>10. ASSUME NEW ids \in SUBSET Object, Select(ids) PROVE BoardInv'
  BY <1>1, <1>4, <1>10 DEF Select, Attended
<1>11. ASSUME NEW from \in Object, NEW to \in Object, Link(from, to) PROVE BoardInv'
  <2>1. CASE {from, to} \subseteq Card
    BY <1>1, <1>3, <1>11, <2>1 DEF Link, Attended
  <2>2. CASE ~({from, to} \subseteq Card)
    <3>1. board.edges \cup {<<from, to>>} \in SUBSET (board.objects \X board.objects)
      BY <1>1, <1>11 DEF Link
    <3>2. LET d == [board EXCEPT !.edges = @ \cup {<<from, to>>}] IN d \in Document /\ Whole(d)
      BY <1>1, <3>1, EditsAreWhole
    <3>3. QED
      BY <1>1, <1>3, <1>11, <2>2, <3>2 DEF Link, Attended
  <2>3. QED
    BY <2>1, <2>2
<1>12. ASSUME NEW e \in Object \X Object, SelectEdge(e) PROVE BoardInv'
  BY <1>1, <1>4, <1>12 DEF SelectEdge, Attended
<1>13. ASSUME NEW e \in Object \X Object, ReverseEdge(e) PROVE BoardInv'
  <2>1. (board.edges \ {e}) \cup {<<e[2], e[1]>>} \in SUBSET (board.objects \X board.objects)
    BY <1>1, <1>13 DEF ReverseEdge
  <2>2. LET d == [board EXCEPT !.edges = (@ \ {e}) \cup {<<e[2], e[1]>>}] IN d \in Document /\ Whole(d)
    BY <1>1, <2>1, EditsAreWhole
  <2>3. QED
    BY <1>1, <1>3, <1>13, <2>2 DEF ReverseEdge, Attended
<1>14. ASSUME NEW s \in Sketch, NEW c \in Card, Promote(s, c) PROVE BoardInv'
  <2>1. Promoted(board, s, c) \in Document /\ Whole(Promoted(board, s, c))
    BY <1>1, <1>14, PromotionIsWhole DEF Promote
  <2>2. c \in Object
    BY DEF Object
  <2>3. QED
    BY <1>1, <1>3, <1>14, <2>1, <2>2 DEF Promote, Attended
<1>15. CASE CommitText
  <2>1. CASE inPlace \in board.objects
    BY <1>1, <1>3, <1>15, <2>1 DEF CommitText, Attended
  <2>2. CASE inPlace \notin board.objects
    BY <1>1, <1>4, <1>15, <2>2 DEF CommitText, Attended
  <2>3. QED
    BY <2>1, <2>2
<1>16. CASE Drag
  BY <1>1, <1>3, <1>16 DEF Drag, Attended
<1>17. CASE Release
  BY <1>1, <1>4, <1>17 DEF Release, Attended
<1>18. CASE LabelEdge
  BY <1>1, <1>3, <1>18 DEF LabelEdge, Attended
<1>19. CASE DeleteSelection
  <2>1. RemoveObjects(board, selection.ids) \in Document /\ Whole(RemoveObjects(board, selection.ids))
    BY <1>1, RemovalIsWhole DEF Attended
  <2>2. LET d == [board EXCEPT !.edges = @ \ {selection.edge}] IN d \in Document /\ Whole(d)
    <3>1. board.edges \ {selection.edge} \in SUBSET (board.objects \X board.objects)
      BY <1>1
    <3>2. QED
      BY <1>1, <3>1, EditsAreWhole
  <2>3. NothingSelected \in [ids : SUBSET Object, edge : (Object \X Object) \cup {NoObject}] /\ NothingSelected.ids = {}
    BY DEF NothingSelected
  <2>4. QED
    BY <1>1, <1>3, <1>19, <2>1, <2>2, <2>3 DEF DeleteSelection, Attended
<1>20. CASE GroupSelection
  <2> DEFINE target == selection.ids \cap board.objects
  <2>1. target \in SUBSET board.objects /\ target # {} /\ target \in SUBSET Object
    <3>1. Cardinality(target) >= 2
      BY <1>20 DEF GroupSelection
    <3>2. target # {}
      BY <3>1, FS_EmptySet
    <3>3. QED
      BY <1>1, <3>2
  <2>2. GroupObjects(board, target) \in Document /\ Whole(GroupObjects(board, target))
    BY <1>1, <2>1, GroupingIsWhole
  <2>3. QED
    BY <1>1, <1>3, <1>20, <2>1, <2>2 DEF GroupSelection, Attended
<1>21. CASE UngroupSelection
  <2> DEFINE touched == {g \in board.groups : g \cap selection.ids # {}}
  <2>1. LET d == [board EXCEPT !.groups = @ \ touched] IN d \in Document /\ Whole(d)
    <3>1. board.groups \ touched \in SUBSET board.groups
      OBVIOUS
    <3>2. QED
      BY <1>1, <3>1, EditsAreWhole
  <2>2. QED
    BY <1>1, <1>3, <1>21, <2>1 DEF UngroupSelection, Attended
<1>22. CASE Clear
  <2>1. NothingSelected \in [ids : SUBSET Object, edge : (Object \X Object) \cup {NoObject}] /\ NothingSelected.ids = {}
    BY DEF NothingSelected
  <2>2. QED
    BY <1>1, <1>3, <1>22, <2>1, EmptyIsWhole DEF Clear, Attended
<1>23. CASE Undo
  <2>1. Documents(board', past', future', stored, rev)
    BY <1>1, <1>23, MoveKeepsDocuments DEF Undo
  <2>2. Attended'
    BY <1>1, <1>23 DEF Undo, Attended
  <2>3. QED
    BY <1>23, <2>1, <2>2 DEF Undo, BoardInv
<1>24. CASE Redo
  <2>1. Documents(board, future, past, stored, rev)
    BY <1>1, BoardAssumption DEF Documents
  <2>2. Documents(board', future', past', stored, rev)
    BY <1>24, <2>1, MoveKeepsDocuments DEF Redo
  <2>3. Documents(board', past', future', stored, rev)
    BY <2>2, BoardAssumption DEF Documents
  <2>4. Attended'
    BY <1>1, <1>24 DEF Redo, Attended
  <2>5. QED
    BY <1>24, <2>3, <2>4 DEF Redo, BoardInv
<1>25. CASE SaveBoard
  <2>1. Attended'
    BY <1>1, <1>25 DEF SaveBoard, Attended
  <2>2. QED
    BY <1>1, <1>25, <2>1 DEF SaveBoard, BoardInv, Documents
<1>26. CASE LeaveBoard
  <2>1. Attended'
    BY <1>1, <1>26 DEF LeaveBoard, Attended
  <2>2. /\ <<>> \in Seq(Document) /\ Len(<<>>) = 0 /\ DOMAIN <<>> = {} /\ 0 <= HistoryLimit
    BY BoardAssumption
  <2>3. QED
    BY <1>1, <1>26, <2>1, <2>2 DEF LeaveBoard, BoardInv, Documents
<1>27. CASE ReturnToBoard
  <2>1. Attended'
    BY <1>1, <1>27 DEF ReturnToBoard, Attended
  <2>2. QED
    BY <1>1, <1>27, <2>1 DEF ReturnToBoard, BoardInv, Documents
<1>28. QED
  BY <1>5, <1>6, <1>7, <1>8, <1>9, <1>10, <1>11, <1>12, <1>13, <1>14, <1>15, <1>16, <1>17, <1>18,
     <1>19, <1>20, <1>21, <1>22, <1>23, <1>24, <1>25, <1>26, <1>27 DEF BoardNext

\* Every document the board holds, on screen, in its history and in storage, is one the
\* program could have made: the inductive invariant.
THEOREM BoardInvariant == BoardSpec => []BoardInv
  BY BoardStarts, BoardStep, PTL DEF BoardSpec

THEOREM BoardTypeCorrect == BoardSpec => []BoardTypeOK
  BY BoardInvariant, BoardInvIsEnough, PTL

\* doc.ts: no line to nowhere, no group of members it no longer has, one group per object,
\* no sketch that claims a table that is gone.
THEOREM BoardsStayWhole == BoardSpec => []BoardsAreWhole
  BY BoardInvariant, BoardInvIsEnough, PTL

-----------------------------------------------------------------------------
\* A stack from its top.
FromTop(s) == [i \in DOMAIN s |-> s[Len(s) + 1 - i]]

LEMMA FromTopOfAppend ==
  ASSUME NEW S, NEW s \in Seq(S), NEW e \in S
  PROVE  FromTop(s) \in Seq(S) /\ FromTop(Append(s, e)) = <<e>> \o FromTop(s)
<1>1. Len(s) \in Nat /\ DOMAIN s = 1..Len(s) /\ \A i \in 1..Len(s) : Len(s) + 1 - i \in 1..Len(s)
  OBVIOUS
<1>2. FromTop(s) \in Seq(S) /\ Len(FromTop(s)) = Len(s)
  <2>1. FromTop(s) = [i \in 1..Len(s) |-> s[Len(s) + 1 - i]]
    BY <1>1 DEF FromTop
  <2>2. \A i \in 1..Len(s) : s[Len(s) + 1 - i] \in S
    BY <1>1
  <2>3. QED
    BY <1>1, <2>1, <2>2
<1> DEFINE more == Append(s, e)
<1>3. /\ more \in Seq(S) /\ Len(more) = Len(s) + 1 /\ DOMAIN more = 1..(Len(s) + 1)
      /\ more[Len(s) + 1] = e /\ \A i \in 1..Len(s) : more[i] = s[i]
  BY <1>1
<1> HIDE DEF more
<1>4. /\ FromTop(more) \in Seq(S) /\ Len(FromTop(more)) = Len(s) + 1
      /\ \A i \in 1..(Len(s) + 1) : FromTop(more)[i] = more[Len(s) + 2 - i]
  <2>1. FromTop(more) = [i \in 1..(Len(s) + 1) |-> more[Len(s) + 1 + 1 - i]]
    BY <1>3 DEF FromTop
  <2>2. \A i \in 1..(Len(s) + 1) : Len(s) + 1 + 1 - i = Len(s) + 2 - i /\ Len(s) + 2 - i \in 1..(Len(s) + 1)
    BY <1>1
  <2>3. \A i \in 1..(Len(s) + 1) : more[Len(s) + 1 + 1 - i] \in S
    BY <1>3, <2>2
  <2>4. QED
    BY <1>1, <2>1, <2>2, <2>3
<1>5. /\ <<e>> \o FromTop(s) \in Seq(S) /\ Len(<<e>> \o FromTop(s)) = Len(s) + 1
      /\ (<<e>> \o FromTop(s))[1] = e
      /\ \A i \in 2..(Len(s) + 1) : (<<e>> \o FromTop(s))[i] = FromTop(s)[i - 1]
  <2>1. <<e>> \in Seq(S) /\ Len(<<e>>) = 1 /\ <<e>>[1] = e
    OBVIOUS
  <2>2. QED
    BY <1>1, <1>2, <2>1, ConcatProperties
<1>6. ASSUME NEW i \in 1..(Len(s) + 1) PROVE FromTop(more)[i] = (<<e>> \o FromTop(s))[i]
  <2>1. CASE i = 1
    BY <1>1, <1>3, <1>4, <1>5, <2>1
  <2>2. CASE i # 1
    <3>1. i \in 2..(Len(s) + 1) /\ i - 1 \in 1..Len(s) /\ Len(s) + 2 - i \in 1..Len(s)
      BY <1>1, <2>2
    <3>2. FromTop(more)[i] = s[Len(s) + 2 - i]
      BY <1>3, <1>4, <3>1
    <3>3. FromTop(s)[i - 1] = s[Len(s) + 1 - (i - 1)] /\ Len(s) + 1 - (i - 1) = Len(s) + 2 - i
      BY <1>1, <3>1 DEF FromTop
    <3>4. QED
      BY <1>5, <3>1, <3>2, <3>3
  <2>3. QED
    BY <2>1, <2>2
<1>7. FromTop(more) = <<e>> \o FromTop(s)
  BY <1>4, <1>5, <1>6, SeqEqual
<1>8. QED
  BY <1>2, <1>7 DEF more

\* One step along the documents: the one on screen goes to one stack, and the top of the
\* other comes on screen.
TopOf(from, less, next) == less \o <<next>> = from
SameAlong(less, next, to, now, from) ==
  less \o <<next>> \o FromTop(Append(to, now)) = from \o <<now>> \o FromTop(to)

LEMMA SameDocumentsInOrder ==
  ASSUME NEW S, NEW from \in Seq(S), NEW to \in Seq(S), NEW now \in S, NEW next \in S,
         NEW less \in Seq(S), TopOf(from, less, next)
  PROVE  SameAlong(less, next, to, now, from)
<1> DEFINE one == <<now>>
           rest == FromTop(to)
<1>1. one \in Seq(S) /\ FromTop(to) \in Seq(S)
  <2>1. one \in Seq(S)
    OBVIOUS
  <2>2. QED
    BY <2>1, FromTopOfAppend
<1>2. FromTop(Append(to, now)) = one \o rest
  BY FromTopOfAppend
<1>3. rest \in Seq(S)
  BY <1>1
<1> HIDE DEF one, rest
<1>4. (from \o one) \o rest = from \o (one \o rest)
  BY <1>1, <1>3, ConcatAssociative
<1>5. from \o FromTop(Append(to, now)) = from \o <<now>> \o FromTop(to)
  BY <1>2, <1>4 DEF one, rest
<1>6. QED
  BY <1>5 DEF TopOf, SameAlong

LEMMA MovesKeepTimeline ==
  BoardInv /\ [BoardNext]_boardVars /\ rev' = rev /\ board' # board /\ mounted => Timeline' = Timeline
<1> SUFFICES ASSUME BoardInv, [BoardNext]_boardVars, rev' = rev, board' # board, mounted PROVE Timeline' = Timeline
  OBVIOUS
<1>1. /\ Documents(board, past, future, stored, rev)
      /\ past \in Seq(Document) /\ future \in Seq(Document) /\ board \in Document
      /\ rev \in Int
  BY DEF BoardInv, Documents, Sound
<1>2. Timeline = past \o <<board>> \o FromTop(future) /\ Timeline' = past' \o <<board'>> \o FromTop(future')
  BY DEF Timeline, FromTop
<1>3. CASE Undo
  <2>1. /\ Documents(board', past', future', stored, rev) /\ past' \o <<board'>> = past
        /\ future' = Append(future, board)
    BY <1>1, <1>3, MoveKeepsDocuments DEF Undo
  <2>2. past' \in Seq(Document) /\ board' \in Document
    BY <2>1 DEF Documents, Sound
  <2>3. TopOf(past, past', board')
    BY <2>1 DEF TopOf
  <2>4. SameAlong(past', board', future, board, past)
    BY <1>1, <2>2, <2>3, SameDocumentsInOrder
  <2>5. QED
    BY <1>2, <2>1, <2>4 DEF SameAlong
<1>4. CASE Redo
  <2>1. Documents(board, future, past, stored, rev)
    BY <1>1, BoardAssumption DEF Documents
  <2>2. /\ Documents(board', future', past', stored, rev) /\ future' \o <<board'>> = future
        /\ past' = Append(past, board)
    BY <1>4, <2>1, MoveKeepsDocuments DEF Redo
  <2>3. future' \in Seq(Document) /\ board' \in Document /\ past' \in Seq(Document)
    BY <2>2 DEF Documents, Sound
  <2>4. future = Append(future', board')
    <3>1. future' \o <<board'>> = Append(future', board')
      BY <2>3
    <3>2. QED
      BY <2>2, <3>1
  <2>5. past' = past \o <<board>>
    BY <1>1, <2>2
  <2>6. TopOf(past', past, board)
    BY <2>5 DEF TopOf
  <2>7. SameAlong(past, board, future', board', past')
    BY <1>1, <2>3, <2>6, SameDocumentsInOrder
  <2>8. QED
    BY <1>2, <2>4, <2>7 DEF SameAlong
<1>5. CASE ReturnToBoard
  BY <1>5 DEF ReturnToBoard
<1>6. ASSUME NEW d, Show(d) PROVE FALSE
  BY <1>1, <1>6 DEF Show
<1>7. CASE ~(Undo \/ Redo \/ ReturnToBoard)
  <2>1. board' = board
    BY <1>6, <1>7 DEF BoardNext, boardVars, Apply, ApplyWithoutHistory, Create, EditInPlace, Press, Erase, Select,
      Link, SelectEdge, ReverseEdge, Promote, CommitText, Drag, Release, LabelEdge, DeleteSelection,
      GroupSelection, UngroupSelection, Clear, SaveBoard, LeaveBoard
  <2>2. QED
    BY <2>1
<1>8. QED
  BY <1>3, <1>4, <1>5, <1>7

\* useBoardDoc.ts undo and redo: moving along the documents loses none of them.
THEOREM NothingIsLostToUndo == BoardSpec => UndoLosesNothing
<1>1. BoardInv /\ [BoardNext]_boardVars =>
        [(rev' = rev /\ board' # board /\ mounted /\ mounted') => Timeline' = Timeline]_boardVars
  BY MovesKeepTimeline
<1>2. QED
  BY <1>1, BoardInvariant, PTL DEF BoardSpec, UndoLosesNothing

-----------------------------------------------------------------------------
(* The edit mode of the schema map (useSchemaEditor.ts).                       *)

\* A mutation sees of a schema its tables, their columns and their links, never which object
\* a table is.
LEMMA MutatedOfClone ==
  ASSUME NEW schema, NEW op, NEW made
  PROVE  Clone(Mutated(Clone(schema), op, made)) = Clone(Mutated(schema, op, made))
<1> DEFINE copy == Clone(schema)
<1>1. DOMAIN copy = DOMAIN schema
  BY DEF Clone
<1>2. \A t \in DOMAIN schema : copy[t] = Held(schema[t], 0)
  BY DEF Clone, AsCell
<1> HIDE DEF copy
<1>3. \A t \in DOMAIN schema : copy[t].columns = schema[t].columns /\ copy[t].fks = schema[t].fks
  <2>1. ASSUME NEW t \in DOMAIN schema
        PROVE  copy[t].columns = schema[t].columns /\ copy[t].fks = schema[t].fks
    <3>1. copy[t] = [columns |-> schema[t].columns, fks |-> schema[t].fks, cell |-> 0]
      BY <1>2 DEF Held
    <3>2. QED
      BY <3>1
  <2>2. QED
    BY <2>1
<1>4. \A t \in DOMAIN schema :
        /\ AsCell(copy[t]) = AsCell(schema[t])
        /\ AsCell(Redrawn(copy[t], op)) = AsCell(Redrawn(schema[t], op))
  <2> SUFFICES ASSUME NEW t \in DOMAIN schema
               PROVE  /\ AsCell(copy[t]) = AsCell(schema[t])
                      /\ AsCell(Redrawn(copy[t], op)) = AsCell(Redrawn(schema[t], op))
    OBVIOUS
  <2>1. copy[t].columns = schema[t].columns /\ copy[t].fks = schema[t].fks
    BY <1>3
  <2>2. AsCell(copy[t]) = AsCell(schema[t])
    BY <2>1 DEF AsCell, Held
  <2>3. /\ Redrawn(copy[t], op).columns = Redrawn(schema[t], op).columns
        /\ Redrawn(copy[t], op).fks = Redrawn(schema[t], op).fks
    BY <2>1 DEF Redrawn
  <2>4. QED
    BY <2>2, <2>3 DEF AsCell, Held
<1>5. CASE op.kind = "addTable"
  <2>1. DOMAIN WithTable(copy, op, made) = DOMAIN WithTable(schema, op, made)
    BY <1>1 DEF WithTable
  <2>2. ASSUME NEW t \in DOMAIN WithTable(schema, op, made)
        PROVE  AsCell(WithTable(copy, op, made)[t]) = AsCell(WithTable(schema, op, made)[t])
    BY <1>1, <1>4 DEF WithTable
  <2>3. Clone(WithTable(copy, op, made)) = Clone(WithTable(schema, op, made))
    BY <2>1, <2>2 DEF Clone
  <2>4. QED
    BY <1>5, <2>3 DEF Mutated, copy
<1>6. CASE op.kind = "renameTable"
  <2>1. DOMAIN WithTableRenamed(copy, op) = DOMAIN WithTableRenamed(schema, op)
    BY <1>1 DEF WithTableRenamed
  <2>2. ASSUME NEW t \in DOMAIN WithTableRenamed(schema, op)
        PROVE  AsCell(WithTableRenamed(copy, op)[t]) = AsCell(WithTableRenamed(schema, op)[t])
    BY <1>1, <1>4 DEF WithTableRenamed
  <2>3. Clone(WithTableRenamed(copy, op)) = Clone(WithTableRenamed(schema, op))
    BY <2>1, <2>2 DEF Clone
  <2>4. QED
    BY <1>6, <2>3 DEF Mutated, copy
<1>7. CASE op.kind = "dropTable"
  <2>1. DOMAIN WithoutTable(copy, op) = DOMAIN WithoutTable(schema, op)
    BY <1>1 DEF WithoutTable
  <2>2. ASSUME NEW t \in DOMAIN WithoutTable(schema, op)
        PROVE  AsCell(WithoutTable(copy, op)[t]) = AsCell(WithoutTable(schema, op)[t])
    BY <1>1, <1>4 DEF WithoutTable
  <2>3. Clone(WithoutTable(copy, op)) = Clone(WithoutTable(schema, op))
    BY <2>1, <2>2 DEF Clone
  <2>4. QED
    BY <1>7, <2>3 DEF Mutated, copy
<1>8. CASE op.kind \notin {"addTable", "renameTable", "dropTable"}
  <2>1. DOMAIN WithTableRedrawn(copy, op) = DOMAIN WithTableRedrawn(schema, op)
    BY <1>1 DEF WithTableRedrawn
  <2>2. ASSUME NEW t \in DOMAIN WithTableRedrawn(schema, op)
        PROVE  AsCell(WithTableRedrawn(copy, op)[t]) = AsCell(WithTableRedrawn(schema, op)[t])
    BY <1>1, <1>4 DEF WithTableRedrawn
  <2>3. Clone(WithTableRedrawn(copy, op)) = Clone(WithTableRedrawn(schema, op))
    BY <2>1, <2>2 DEF Clone
  <2>4. QED
    BY <1>8, <2>3 DEF Mutated, copy
<1>9. QED
  BY <1>5, <1>6, <1>7, <1>8

\* The objects the tables of a schema are.
CellsIn(schema) == {schema[t].cell : t \in DOMAIN schema}

\* A mutation brings in no object but its own statement's.
LEMMA MutatedCells ==
  ASSUME NEW schema, NEW op, NEW made
  PROVE  CellsIn(Mutated(schema, op, made)) \subseteq CellsIn(schema) \cup {op.id}
<1>1. \A t \in DOMAIN schema :
        schema[t].cell \in CellsIn(schema) /\ Redrawn(schema[t], op).cell = schema[t].cell
  BY DEF CellsIn, Redrawn
<1>2. Held(made, op.id).cell = op.id
  BY DEF Held
<1>3. CASE op.kind = "addTable"
  <2>1. CellsIn(WithTable(schema, op, made)) \subseteq CellsIn(schema) \cup {op.id}
    BY <1>1, <1>2 DEF WithTable, CellsIn
  <2>2. QED
    BY <1>3, <2>1 DEF Mutated
<1>4. CASE op.kind = "renameTable"
  <2>1. CellsIn(WithTableRenamed(schema, op)) \subseteq CellsIn(schema)
    BY <1>1 DEF WithTableRenamed, CellsIn
  <2>2. QED
    BY <1>4, <2>1 DEF Mutated
<1>5. CASE op.kind = "dropTable"
  <2>1. CellsIn(WithoutTable(schema, op)) \subseteq CellsIn(schema)
    BY <1>1 DEF WithoutTable, CellsIn
  <2>2. QED
    BY <1>5, <2>1 DEF Mutated
<1>6. CASE op.kind \notin {"addTable", "renameTable", "dropTable"}
  <2>1. CellsIn(WithTableRedrawn(schema, op)) \subseteq CellsIn(schema)
    BY <1>1 DEF WithTableRedrawn, CellsIn
  <2>2. QED
    BY <1>6, <2>1 DEF Mutated
<1>7. QED
  BY <1>3, <1>4, <1>5, <1>6

\* A schema copied is one that is no object of a statement.
LEMMA ClonedCells ==
  ASSUME NEW schema
  PROVE  CellsIn(Clone(schema)) \subseteq {0} /\ Clone(Clone(schema)) = Clone(schema)
<1> DEFINE copy == Clone(schema)
<1>1. DOMAIN copy = DOMAIN schema
  BY DEF Clone
<1>2. \A t \in DOMAIN copy :
        copy[t] = [columns |-> schema[t].columns, fks |-> schema[t].fks, cell |-> 0]
  BY DEF Clone, AsCell, Held
<1> HIDE DEF copy
<1>3. \A t \in DOMAIN copy :
        copy[t].columns = schema[t].columns /\ copy[t].fks = schema[t].fks /\ copy[t].cell = 0
  <2>1. ASSUME NEW t \in DOMAIN copy
        PROVE  /\ copy[t].columns = schema[t].columns /\ copy[t].fks = schema[t].fks
               /\ copy[t].cell = 0
    <3>1. copy[t] = [columns |-> schema[t].columns, fks |-> schema[t].fks, cell |-> 0]
      BY <1>2
    <3>2. QED
      BY <3>1
  <2>2. QED
    BY <2>1
<1>4. CellsIn(copy) \subseteq {0}
  BY <1>3 DEF CellsIn
<1>5. \A t \in DOMAIN copy : AsCell(copy[t]) = AsCell(schema[t])
  BY <1>3 DEF AsCell, Held
<1>6. Clone(copy) = Clone(schema)
  BY <1>1, <1>5 DEF Clone
<1>7. QED
  BY <1>4, <1>6 DEF copy

-----------------------------------------------------------------------------
\* A replay is a fold over its list.
Remake == INSTANCE SequenceFacts WITH FoldStep <- ReplayStep

ReplayRuns(t, schema, list, from) ==
  /\ DOMAIN t = 0..Len(list) /\ t[0] = [schema |-> Clone(schema), cells |-> from]
  /\ \A k \in 1..Len(list) : t[k] = ReplayStep(t[k - 1], list[k])

LEMMA ReplayIsFolded ==
  ASSUME NEW schema, NEW list, NEW from
  PROVE  Replay(schema, list, from) = Remake!Folded([schema |-> Clone(schema), cells |-> from], list)
BY DEF Replay, Remake!Folded, Remake!FoldLeft, Remake!MapThenFoldSet, FoldLeft, MapThenFoldSet,
       Max, Remake!Max

LEMMA ReplayHasRuns ==
  ASSUME NEW S, NEW list \in Seq(S), NEW schema, NEW from
  PROVE  \E t : ReplayRuns(t, schema, list, from) /\ t[Len(list)] = Replay(schema, list, from)
<1> DEFINE base == [schema |-> Clone(schema), cells |-> from]
<1>1. \E t : Remake!Runs(t, base, list) /\ t[Len(list)] = Remake!Folded(base, list)
  BY Remake!FoldRuns
<1>2. QED
  BY <1>1, ReplayIsFolded DEF Remake!Runs, ReplayRuns

LEMMA ReplayOfNone ==
  ASSUME NEW schema, NEW from
  PROVE  Replay(schema, <<>>, from) = [schema |-> Clone(schema), cells |-> from]
BY ReplayIsFolded, Remake!FoldOfNone

LEMMA ReplayOfOneMore ==
  ASSUME NEW S, NEW list \in Seq(S), NEW op \in S, NEW schema, NEW from
  PROVE  Replay(schema, Append(list, op), from) = ReplayStep(Replay(schema, list, from), op)
BY ReplayIsFolded, Remake!FoldOfOneMore

\* A replay shows and writes to the objects of its own statements.
LEMMA ReplayKeepsToItsOwn ==
  ASSUME NEW S, NEW list \in Seq(S), NEW schema, NEW from
  PROVE  LET result == Replay(schema, list, from) IN
         /\ CellsIn(result.schema) \subseteq {0} \cup Ids(list)
         /\ DOMAIN result.cells = DOMAIN from
         /\ \A c \in DOMAIN from : c \notin {0} \cup Ids(list) => result.cells[c] = from[c]
<1>1. PICK t : ReplayRuns(t, schema, list, from) /\ t[Len(list)] = Replay(schema, list, from)
  BY ReplayHasRuns
<1> DEFINE Own(state) ==
             /\ CellsIn(state.schema) \subseteq {0} \cup Ids(list)
             /\ DOMAIN state.cells = DOMAIN from
             /\ \A c \in DOMAIN from : c \notin {0} \cup Ids(list) => state.cells[c] = from[c]
           G == {k \in 0..Len(list) : Own(t[k])}
<1>2. Len(list) \in Nat /\ DOMAIN list = 1..Len(list)
  OBVIOUS
<1>3. 0 \in G
  <2>1. t[0].schema = Clone(schema) /\ t[0].cells = from
    BY <1>1 DEF ReplayRuns
  <2>2. QED
    BY <1>2, <2>1, ClonedCells
<1>4. ASSUME NEW k \in 0..(Len(list) - 1), k \in G PROVE k + 1 \in G
  <2> DEFINE op == list[k + 1]
             next == Mutated(t[k].schema, op, t[k].cells[op.id])
  <2>1. k + 1 \in 1..Len(list) /\ k + 1 - 1 = k /\ k + 1 \in 0..Len(list)
    BY <1>2
  <2>2. t[k + 1] = ReplayStep(t[k], op)
    BY <1>1, <2>1 DEF ReplayRuns
  <2>3. op.id \in Ids(list)
    BY <1>2, <2>1 DEF Ids
  <2>4. CellsIn(next) \subseteq {0} \cup Ids(list)
    BY <1>4, <2>3, MutatedCells
  <2>5. t[k + 1].schema = next
    BY <2>2 DEF ReplayStep
  <2>6. t[k + 1].cells = WrittenTo(t[k].cells, next)
    BY <2>2 DEF ReplayStep
  <2> HIDE DEF next
  <2>7. \A c \in DOMAIN from : c \notin {0} \cup Ids(list) => ~\E u \in DOMAIN next : next[u].cell = c
    BY <2>4 DEF CellsIn
  <2>8. DOMAIN t[k].cells = DOMAIN from
    BY <1>4
  <2>9. DOMAIN t[k + 1].cells = DOMAIN from
    BY <2>6, <2>8 DEF WrittenTo
  <2>10. \A c \in DOMAIN from : c \notin {0} \cup Ids(list) => t[k + 1].cells[c] = t[k].cells[c]
    BY <2>6, <2>7, <2>8 DEF WrittenTo
  <2>11. Own(t[k + 1])
    BY <1>4, <2>4, <2>5, <2>9, <2>10
  <2>12. QED
    BY <2>1, <2>11
<1>5. Len(list) \in G
  <2> HIDE DEF G
  <2>1. 0..Len(list) \subseteq G
    BY <1>2, <1>3, <1>4, CountingUp
  <2>2. QED
    BY <1>2, <2>1
<1>6. QED
  BY <1>1, <1>5

\* What a replay makes of a schema hangs on no object but those of its own statements.
LEMMA ReplaysAgree ==
  ASSUME NEW S, NEW list \in Seq(S), NEW schema, NEW from, NEW other,
         \A c \in Ids(list) : c \in DOMAIN from /\ c \in DOMAIN other /\ from[c] = other[c]
  PROVE  Replay(schema, list, from).schema = Replay(schema, list, other).schema
<1>1. PICK t : ReplayRuns(t, schema, list, from) /\ t[Len(list)] = Replay(schema, list, from)
  BY ReplayHasRuns
<1>2. PICK u : ReplayRuns(u, schema, list, other) /\ u[Len(list)] = Replay(schema, list, other)
  BY ReplayHasRuns
<1> DEFINE Same(one, two) ==
             /\ one.schema = two.schema
             /\ \A c \in Ids(list) :
                  c \in DOMAIN one.cells /\ c \in DOMAIN two.cells /\ one.cells[c] = two.cells[c]
           G == {k \in 0..Len(list) : Same(t[k], u[k])}
<1>3. Len(list) \in Nat /\ DOMAIN list = 1..Len(list)
  OBVIOUS
<1>4. 0 \in G
  <2>1. /\ t[0].schema = Clone(schema) /\ t[0].cells = from
        /\ u[0].schema = Clone(schema) /\ u[0].cells = other
    BY <1>1, <1>2 DEF ReplayRuns
  <2>2. QED
    BY <1>3, <2>1
<1>5. ASSUME NEW k \in 0..(Len(list) - 1), k \in G PROVE k + 1 \in G
  <2> DEFINE op == list[k + 1]
             next == Mutated(t[k].schema, op, t[k].cells[op.id])
  <2>1. k + 1 \in 1..Len(list) /\ k + 1 - 1 = k /\ k + 1 \in 0..Len(list)
    BY <1>3
  <2>2. t[k + 1] = ReplayStep(t[k], op) /\ u[k + 1] = ReplayStep(u[k], op)
    BY <1>1, <1>2, <2>1 DEF ReplayRuns
  <2>3. op.id \in Ids(list)
    BY <1>3, <2>1 DEF Ids
  <2>4. next = Mutated(u[k].schema, op, u[k].cells[op.id])
    BY <1>5, <2>3
  <2>5. t[k + 1].schema = next /\ t[k + 1].cells = WrittenTo(t[k].cells, next)
    BY <2>2 DEF ReplayStep
  <2> HIDE DEF next
  <2>6. u[k + 1].schema = next /\ u[k + 1].cells = WrittenTo(u[k].cells, next)
    BY <2>2, <2>4 DEF ReplayStep
  <2>7. \A c \in Ids(list) :
          /\ c \in DOMAIN t[k].cells /\ c \in DOMAIN u[k].cells
          /\ t[k].cells[c] = u[k].cells[c]
    BY <1>5
  <2>8. \A c \in Ids(list) :
          /\ c \in DOMAIN WrittenTo(t[k].cells, next) /\ c \in DOMAIN WrittenTo(u[k].cells, next)
          /\ WrittenTo(t[k].cells, next)[c] = WrittenTo(u[k].cells, next)[c]
    BY <2>7 DEF WrittenTo
  <2>9. Same(t[k + 1], u[k + 1])
    BY <2>5, <2>6, <2>8
  <2>10. QED
    BY <2>1, <2>9
<1>6. Len(list) \in G
  <2> HIDE DEF G
  <2>1. 0..Len(list) \subseteq G
    BY <1>3, <1>4, <1>5, CountingUp
  <2>2. QED
    BY <1>3, <2>1
<1>7. QED
  BY <1>1, <1>2, <1>6

-----------------------------------------------------------------------------
\* A list of statements that hold an object each.
Numbered(list) ==
  /\ list \in Seq(ToSet(list)) /\ Len(list) <= MaxStaged
  /\ Ids(list) \subseteq 1..MaxStaged

\* The objects of statements that are not in the list are as they were created.
UnlistedFresh ==
  /\ DOMAIN cells = 1..MaxStaged
  /\ \A c \in 1..MaxStaged : c \notin Ids(migration) => cells[c] = FreshCells[c]

\* A session starts from what was read, and the replay from its snapshot is what is shown.
SessionIsOfItsSchema ==
  reloads = 0 =>
    IF introspected = NoSchema THEN snapshot = NoSchema
    ELSE \/ snapshot = introspected /\ (~reused => ShownIs(introspected))
         \/ snapshot = NoSchema /\ migration = <<>> /\ diagram = introspected

MapInv ==
  /\ introspected \in Seeds \cup {NoSchema} /\ reloads \in Nat
  /\ Numbered(migration) /\ (introspected = NoSchema => migration = <<>>)
  /\ UnlistedFresh /\ SessionIsOfItsSchema

\* The numbers of a list, one by one.
LEMMA IdsOf ==
  ASSUME NEW S, NEW list \in Seq(S)
  PROVE  /\ \A c \in Ids(list) : \E op \in ToSet(list) : c = op.id
         /\ \A op \in ToSet(list) : op.id \in Ids(list)
<1>1. DOMAIN list = 1..Len(list)
  OBVIOUS
<1>2. ToSet(list) = {list[i] : i \in 1..Len(list)}
  BY <1>1 DEF ToSet
<1>3. Ids(list) = {list[i].id : i \in 1..Len(list)}
  BY <1>1 DEF Ids
<1>4. ASSUME NEW c \in Ids(list) PROVE \E op \in ToSet(list) : c = op.id
  <2>1. PICK i \in 1..Len(list) : c = list[i].id
    BY <1>3
  <2>2. list[i] \in ToSet(list)
    BY <1>2
  <2>3. QED
    BY <2>1, <2>2
<1>5. ASSUME NEW op \in ToSet(list) PROVE op.id \in Ids(list)
  <2>1. PICK i \in 1..Len(list) : op = list[i]
    BY <1>2
  <2>2. QED
    BY <1>3, <2>1
<1>6. QED
  BY <1>4, <1>5

\* A statement is staged with a number no other has, and its object is new.
LEMMA FreeIdIsFree ==
  ASSUME MaxStaged \in Nat, Numbered(migration), Len(migration) < MaxStaged
  PROVE  FreeId \in 1..MaxStaged /\ FreeId \notin Ids(migration)
<1>1. Len(migration) \in Nat /\ DOMAIN migration = 1..Len(migration)
  BY DEF Numbered
<1>2. IsFiniteSet(1..Len(migration)) /\ Cardinality(1..Len(migration)) = Len(migration)
  <2>1. Len(migration) \in Int /\ 1 \in Int
    BY <1>1
  <2>2. /\ IsFiniteSet(1..Len(migration))
        /\ Cardinality(1..Len(migration))
             = IF 1 > Len(migration) THEN 0 ELSE Len(migration) - 1 + 1
    BY <2>1, FS_Interval
  <2>3. QED
    BY <1>1, <2>2
<1>3. /\ IsFiniteSet({migration[i].id : i \in 1..Len(migration)})
      /\ Cardinality({migration[i].id : i \in 1..Len(migration)}) <= Len(migration)
  <2> DEFINE f == [i \in 1..Len(migration) |-> migration[i].id]
             T == {migration[i].id : i \in 1..Len(migration)}
  <2>1. f \in Surjection(1..Len(migration), T)
    BY DEF Surjection
  <2>2. QED
    BY <1>2, <2>1, FS_Surjection
<1>4. Ids(migration) = {migration[i].id : i \in 1..Len(migration)}
  BY <1>1 DEF Ids
<1>5. IsFiniteSet(1..MaxStaged) /\ Cardinality(1..MaxStaged) = MaxStaged
  BY FS_Interval
<1>6. Cardinality(Ids(migration)) \in Nat
  BY <1>3, <1>4, FS_CardinalityType
<1>7. ~(1..MaxStaged \subseteq Ids(migration))
  <2>1. SUFFICES ASSUME 1..MaxStaged \subseteq Ids(migration) PROVE FALSE
    OBVIOUS
  <2>2. Cardinality(1..MaxStaged) <= Cardinality(Ids(migration))
    BY <2>1, <1>3, <1>4, FS_Subset
  <2>3. QED
    BY <1>1, <1>3, <1>4, <1>5, <1>6, <2>2
<1>8. \E c \in 1..MaxStaged : c \notin Ids(migration)
  BY <1>7
<1>9. QED
  BY <1>8 DEF FreeId

\* No schema that is read is missing, or holds an object of a statement.
LEMMA SeedsAreClean == NoSchema \notin Seeds /\ \A s \in Seeds : Clone(s) = s
<1>1. (\A s \in Seeds : IsDrawing(s, {0})) /\ ~IsDrawing(NoSchema, {0})
  BY SeedsAssumption
<1>2. ASSUME NEW s \in Seeds PROVE Clone(s) = s
  <2>1. PICK D \in SUBSET TableName : s \in [D -> DrawnTable({0})]
    BY <1>1 DEF IsDrawing
  <2>2. DOMAIN s = D /\ \A t \in D : s[t] \in DrawnTable({0})
    BY <2>1
  <2>3. \A t \in D : Held(s[t], 0) = s[t]
    BY <2>2 DEF DrawnTable, Held
  <2>4. Clone(s) = [t \in D |-> s[t]]
    BY <2>2, <2>3 DEF Clone, AsCell
  <2>5. QED
    BY <2>1, <2>4
<1>3. QED
  BY <1>1, <1>2

\* Once nothing is staged no statement holds an object.
LEMMA NothingStaged ==
  ASSUME migration' = <<>>, cells' = FreshCells
  PROVE  Numbered(migration)' /\ UnlistedFresh'
<1>1. MaxStaged \in Nat
  BY MapAssumption
<1>2. <<>> \in Seq(ToSet(<<>>)) /\ Len(<<>>) <= MaxStaged /\ Ids(<<>>) \subseteq 1..MaxStaged
  BY <1>1 DEF Ids
<1>3. FreshCells' = FreshCells /\ DOMAIN FreshCells = 1..MaxStaged
  BY DEF FreshCells
<1>4. QED
  BY <1>2, <1>3 DEF Numbered, UnlistedFresh

\* A step that leaves the session alone.
LEMMA Unheeded ==
  ASSUME MapInv,
         UNCHANGED <<introspected, diagram, snapshot, migration, cells, reused, reloads>>
  PROVE  MapInv'
BY DEF MapInv, Numbered, UnlistedFresh, FreshCells, SessionIsOfItsSchema, ShownIs

LEMMA StageKeepsMap ==
  ASSUME MapInv, introspected # NoSchema,
         NEW kind, NEW table, NEW col, NEW to, NEW ref, Stage(kind, table, col, to, ref)
  PROVE  MapInv'
<1> DEFINE op == [kind |-> kind, table |-> table, col |-> col, to |-> to, ref |-> ref,
                  id |-> FreeId]
<1>1. MaxStaged \in Nat /\ NoSchema \notin Seeds /\ introspected \in Seeds
  BY MapAssumption, SeedsAreClean DEF MapInv
<1>2. /\ Len(migration) < MaxStaged
      /\ snapshot' = IF snapshot = NoSchema THEN diagram ELSE snapshot
      /\ diagram' = Clone(Mutated(diagram, op, cells[op.id]))
      /\ migration' = Append(migration, op)
      /\ introspected' = introspected /\ cells' = cells /\ reused' = reused /\ reloads' = reloads
  BY DEF Stage
<1>3. Numbered(migration) /\ UnlistedFresh /\ SessionIsOfItsSchema /\ reloads \in Nat
  BY DEF MapInv
<1>4. FreeId \in 1..MaxStaged /\ FreeId \notin Ids(migration)
  BY <1>1, <1>2, <1>3, FreeIdIsFree
<1>5. op.id = FreeId
  OBVIOUS
<1> HIDE DEF op
<1> DEFINE S == ToSet(migration) \cup {op}
<1>6. migration \in Seq(S) /\ op \in S
  BY <1>3 DEF Numbered
<1>7. /\ migration' \in Seq(S) /\ Len(migration') = Len(migration) + 1 /\ Len(migration) \in Nat
      /\ DOMAIN migration = 1..Len(migration) /\ DOMAIN migration' = 1..(Len(migration) + 1)
      /\ \A n \in 1..Len(migration) : migration'[n] = migration[n]
      /\ migration'[Len(migration) + 1] = op
  BY <1>2, <1>6, AppendPlaces
<1>8. Ids(migration') = Ids(migration) \cup {op.id}
  <2>1. \A n \in 1..(Len(migration) + 1) : n \in 1..Len(migration) \/ n = Len(migration) + 1
    BY <1>7
  <2>2. 1..Len(migration) \subseteq 1..(Len(migration) + 1)
        /\ Len(migration) + 1 \in 1..(Len(migration) + 1)
    BY <1>7
  <2>3. Ids(migration') = {migration'[n].id : n \in 1..(Len(migration) + 1)}
        /\ Ids(migration) = {migration[n].id : n \in 1..Len(migration)}
    BY <1>7 DEF Ids
  <2>4. QED
    BY <1>7, <2>1, <2>2, <2>3
<1>9. Numbered(migration)'
  <2>1. migration' \in Seq(ToSet(migration'))
    BY <1>7, OwnElements
  <2>2. Len(migration') <= MaxStaged
    BY <1>1, <1>2, <1>7
  <2>3. Ids(migration') \subseteq 1..MaxStaged
    BY <1>3, <1>4, <1>5, <1>8 DEF Numbered
  <2>4. QED
    BY <2>1, <2>2, <2>3 DEF Numbered
<1>10. FreshCells' = FreshCells
  OBVIOUS
<1>11. UnlistedFresh'
  BY <1>2, <1>3, <1>8 DEF UnlistedFresh
<1>12. ASSUME reloads = 0, ~reused PROVE diagram = Clone(Replay(introspected, migration, FreshCells).schema)
  <2>1. CASE snapshot = introspected
    BY <1>1, <1>3, <1>12, <2>1 DEF SessionIsOfItsSchema, ShownIs
  <2>2. CASE snapshot # introspected
    <3>1. migration = <<>> /\ diagram = introspected
      BY <1>1, <1>3, <1>12, <2>2 DEF SessionIsOfItsSchema
    <3>2. Replay(introspected, migration, FreshCells).schema = Clone(introspected)
      BY <3>1, ReplayOfNone
    <3>3. Clone(introspected) = introspected
      BY <1>1, SeedsAreClean
    <3>4. QED
      BY <3>1, <3>2, <3>3
  <2>3. QED
    BY <2>1, <2>2
<1>13. ASSUME reloads = 0, ~reused PROVE ShownIs(introspected)'
  <2> DEFINE before == Replay(introspected, migration, FreshCells)
  <2>1. Replay(introspected, migration', FreshCells) = ReplayStep(before, op)
    BY <1>2, <1>6, ReplayOfOneMore
  <2>2. DOMAIN FreshCells = 1..MaxStaged
    BY DEF FreshCells
  <2>3. FreeId # 0
    BY <1>1, <1>4
  <2>4. before.cells[op.id] = FreshCells[op.id]
    <3>1. \A c \in DOMAIN FreshCells :
            c \notin {0} \cup Ids(migration) => before.cells[c] = FreshCells[c]
      BY <1>6, ReplayKeepsToItsOwn
    <3> HIDE DEF before
    <3>2. QED
      BY <1>4, <1>5, <2>2, <2>3, <3>1
  <2>5. cells[op.id] = FreshCells[op.id]
    BY <1>3, <1>4, <1>5 DEF UnlistedFresh
  <2>6. ReplayStep(before, op).schema = Mutated(before.schema, op, FreshCells[op.id])
    BY <2>4 DEF ReplayStep
  <2>7. diagram = Clone(before.schema)
    BY <1>12, <1>13
  <2> HIDE DEF before
  <2>8. diagram' = Clone(Mutated(before.schema, op, FreshCells[op.id]))
    BY <1>2, <2>5, <2>7, MutatedOfClone
  <2>9. diagram' = Clone(Replay(introspected', migration', FreshCells').schema)
    BY <1>2, <1>10, <2>1, <2>6, <2>8
  <2>10. QED
    BY <2>9 DEF ShownIs
<1>14. reloads = 0 => snapshot' = introspected
  BY <1>1, <1>2, <1>3 DEF SessionIsOfItsSchema
<1>15. SessionIsOfItsSchema'
  BY <1>1, <1>2, <1>13, <1>14 DEF SessionIsOfItsSchema
<1>16. introspected' \in Seeds \cup {NoSchema} /\ reloads' \in Nat /\ introspected' # NoSchema
  BY <1>1, <1>2, <1>3
<1>17. QED
  BY <1>9, <1>11, <1>15, <1>16 DEF MapInv

\* Un-staging and reordering make lists of the same statements.
LEMMA ListsOfTheSame ==
  ASSUME Numbered(migration), MaxStaged \in Nat, NEW i \in DOMAIN migration
  PROVE  /\ Numbered(RemoveAt(migration, i)) /\ migration # <<>>
         /\ \A j \in DOMAIN migration :
              Numbered(InsertAt(RemoveAt(migration, i), j, migration[i]))
<1> DEFINE S == ToSet(migration)
           rest == RemoveAt(migration, i)
<1>1. /\ migration \in Seq(S) /\ Len(migration) \in Nat /\ DOMAIN migration = 1..Len(migration)
      /\ Len(migration) <= MaxStaged /\ migration[i] \in S /\ i \in 1..Len(migration)
  <2>1. migration \in Seq(S) /\ Len(migration) <= MaxStaged
    BY DEF Numbered
  <2>2. QED
    BY <2>1, OwnElements
<1>2. rest \in Seq(S) /\ Len(rest) = Len(migration) - 1
  BY <1>1, RemoveAtPlaces
<1> HIDE DEF S, rest
<1>3. ASSUME NEW list \in Seq(S), Len(list) <= MaxStaged PROVE Numbered(list)
  <2>1. ToSet(list) \subseteq S /\ list \in Seq(ToSet(list))
    BY OwnElements
  <2>2. \A c \in Ids(list) : \E op \in ToSet(list) : c = op.id
    BY IdsOf
  <2>3. \A op \in S : op.id \in Ids(migration)
    BY <1>1, IdsOf DEF S
  <2>4. Ids(list) \subseteq Ids(migration)
    BY <2>1, <2>2, <2>3
  <2>5. Ids(migration) \subseteq 1..MaxStaged
    BY DEF Numbered
  <2>6. QED
    BY <1>3, <2>1, <2>4, <2>5 DEF Numbered
<1>4. Numbered(rest)
  BY <1>1, <1>2, <1>3
<1>5. ASSUME NEW j \in DOMAIN migration PROVE Numbered(InsertAt(rest, j, migration[i]))
  <2>1. j \in 1..(Len(rest) + 1)
    BY <1>1, <1>2
  <2>2. /\ InsertAt(rest, j, migration[i]) \in Seq(S)
        /\ Len(InsertAt(rest, j, migration[i])) = Len(rest) + 1
    BY <1>1, <1>2, <2>1, InsertAtPlaces
  <2>3. Len(InsertAt(rest, j, migration[i])) <= MaxStaged
    BY <1>1, <1>2, <2>2
  <2>4. QED
    BY <1>3, <2>2, <2>3
<1>6. migration # <<>>
  BY <1>1
<1>7. QED
  BY <1>4, <1>5, <1>6 DEF rest

LEMMA RebuildKeepsMap ==
  ASSUME MapInv, introspected # NoSchema, migration # <<>>,
         NEW list, Numbered(list), Rebuild(list)
  PROVE  MapInv'
<1> DEFINE result == Replay(snapshot, list, cells)
<1>1. NoSchema \notin Seeds /\ introspected \in Seeds
  BY SeedsAreClean DEF MapInv
<1>2. /\ diagram' = Clone(result.schema) /\ cells' = CellsOf(list, result.cells)
      /\ migration' = list /\ reused' = (\E c \in Ids(list) : cells[c] # FreshCells[c])
      /\ introspected' = introspected /\ snapshot' = snapshot /\ reloads' = reloads
  BY DEF Rebuild
<1>3. UnlistedFresh /\ SessionIsOfItsSchema /\ reloads \in Nat
  BY DEF MapInv
<1>4. list \in Seq(ToSet(list)) /\ Ids(list) \subseteq 1..MaxStaged
  BY DEF Numbered
<1>5. DOMAIN result.cells = 1..MaxStaged
  BY <1>3, <1>4, ReplayKeepsToItsOwn DEF UnlistedFresh
<1>6. FreshCells' = FreshCells /\ DOMAIN FreshCells = 1..MaxStaged
  BY DEF FreshCells
<1>7. UnlistedFresh'
  <2> HIDE DEF result
  <2>1. DOMAIN cells' = 1..MaxStaged
    BY <1>2, <1>5 DEF CellsOf
  <2>2. \A c \in 1..MaxStaged : c \notin Ids(list) => cells'[c] = FreshCells[c]
    BY <1>2, <1>5 DEF CellsOf
  <2>3. QED
    BY <1>2, <1>6, <2>1, <2>2 DEF UnlistedFresh
<1>8. ASSUME reloads = 0 PROVE snapshot = introspected
  BY <1>1, <1>3, <1>8 DEF SessionIsOfItsSchema
<1>9. ASSUME reloads = 0, ~reused' PROVE ShownIs(introspected)'
  <2>1. \A c \in Ids(list) : cells[c] = FreshCells[c]
    BY <1>2, <1>9
  <2>2. \A c \in Ids(list) : c \in DOMAIN cells /\ c \in DOMAIN FreshCells
    BY <1>3, <1>4, <1>6 DEF UnlistedFresh
  <2>3. result.schema = Replay(snapshot, list, FreshCells).schema
    BY <1>4, <2>1, <2>2, ReplaysAgree
  <2> HIDE DEF result
  <2>4. diagram' = Clone(Replay(introspected', migration', FreshCells').schema)
    BY <1>2, <1>6, <1>8, <1>9, <2>3
  <2>5. QED
    BY <2>4 DEF ShownIs
<1>10. SessionIsOfItsSchema'
  BY <1>1, <1>2, <1>8, <1>9 DEF SessionIsOfItsSchema
<1>11. Numbered(migration)'
  BY <1>2 DEF Numbered
<1>12. introspected' \in Seeds \cup {NoSchema} /\ reloads' \in Nat /\ introspected' # NoSchema
  BY <1>1, <1>2, <1>3
<1>13. QED
  BY <1>7, <1>10, <1>11, <1>12 DEF MapInv

\* Un-staging and reordering.
LEMMA UnstageKeepsMap ==
  ASSUME MapInv, introspected # NoSchema, NEW i \in DOMAIN migration,
         Unstage(i) \/ \E j \in DOMAIN migration : Reorder(i, j)
  PROVE  MapInv'
<1>1. Numbered(migration) /\ MaxStaged \in Nat
  BY MapAssumption DEF MapInv
<1>2. CASE Unstage(i)
  BY <1>1, <1>2, ListsOfTheSame, RebuildKeepsMap DEF Unstage
<1>3. ASSUME NEW j \in DOMAIN migration, Reorder(i, j) PROVE MapInv'
  BY <1>1, <1>3, ListsOfTheSame, RebuildKeepsMap DEF Reorder
<1>4. QED
  BY <1>2, <1>3

\* The statement that added a link is one of the list.
LEMMA RemovingKeepsMap ==
  ASSUME MapInv, introspected # NoSchema, NEW t, NEW k, RemoveForeignKey(t, k)
  PROVE  MapInv'
<1> DEFINE name == diagram[t].fks[k].name
           places == {n \in 1..Len(migration) :
                        /\ migration[n].kind = "addFk" /\ migration[n].table = t
                        /\ name = <<t, migration[n].col>>}
           adds == SelectInSeq(migration,
                     LAMBDA op : op.kind = "addFk" /\ op.table = t /\ name = <<t, op.col>>)
<1>1. Len(migration) \in Nat /\ DOMAIN migration = 1..Len(migration)
  BY DEF MapInv, Numbered
<1>2. adds = IF places # {} THEN Min(places) ELSE 0
  BY DEF SelectInSeq
<1>3. ASSUME places # {} PROVE Min(places) \in places
  <2>1. places \in SUBSET Nat
    BY <1>1
  <2> HIDE DEF places
  <2>2. \E x \in places : \A y \in places : x <= y
    BY <1>3, <2>1, LeastExists
  <2>3. QED
    BY <2>2 DEF Min
<1>4. adds # 0 => adds \in DOMAIN migration
  BY <1>1, <1>2, <1>3
<1>5. \/ adds # 0 /\ Unstage(adds)
      \/ Stage("dropFk", t, name[1], NoName, name[2])
  BY DEF RemoveForeignKey
<1> HIDE DEF adds, name
<1>6. QED
  BY <1>4, <1>5, UnstageKeepsMap, StageKeepsMap

LEMMA EditKeepsMap ==
  ASSUME MapInv, introspected # NoSchema, Edit PROVE MapInv'
<1>1. CASE AddTable
  BY <1>1, StageKeepsMap DEF AddTable
<1>2. ASSUME NEW t \in DOMAIN diagram, AddColumnTo(t) PROVE MapInv'
  BY <1>2, StageKeepsMap DEF AddColumnTo
<1>3. ASSUME NEW t \in DOMAIN diagram, Stage("dropTable", t, NoName, NoName, NoName)
      PROVE  MapInv'
  BY <1>3, StageKeepsMap
<1>4. ASSUME NEW t \in DOMAIN diagram, NEW to \in TableName, RenameATable(t, to) PROVE MapInv'
  BY <1>4, StageKeepsMap DEF RenameATable
<1>5. ASSUME NEW t \in DOMAIN diagram, NEW i \in DOMAIN diagram[t].columns, EditColumn(t, i)
      PROVE  MapInv'
  BY <1>5, StageKeepsMap DEF EditColumn
<1>6. ASSUME NEW t \in DOMAIN diagram, NEW i \in DOMAIN diagram[t].columns,
             NEW to \in DOMAIN diagram, AddForeignKey(t, i, to)
      PROVE  MapInv'
  BY <1>6, StageKeepsMap DEF AddForeignKey
<1>7. ASSUME NEW t \in DOMAIN diagram, NEW k \in DOMAIN diagram[t].fks, RemoveForeignKey(t, k)
      PROVE  MapInv'
  BY <1>7, RemovingKeepsMap
<1>8. ASSUME NEW i \in DOMAIN migration,
             Unstage(i) \/ \E j \in DOMAIN migration : Reorder(i, j)
      PROVE  MapInv'
  BY <1>8, UnstageKeepsMap
<1>9. ASSUME Discard PROVE MapInv'
  <2>1. /\ migration # <<>> /\ migration' = <<>> /\ cells' = FreshCells /\ reused' = FALSE
        /\ diagram' = snapshot /\ snapshot' = NoSchema
        /\ introspected' = introspected /\ reloads' = reloads
    BY <1>9 DEF Discard, Unreplayed
  <2>2. Numbered(migration)' /\ UnlistedFresh'
    BY <2>1, NothingStaged
  <2>3. SessionIsOfItsSchema'
    BY <2>1 DEF MapInv, SessionIsOfItsSchema
  <2>4. QED
    BY <2>1, <2>2, <2>3 DEF MapInv
<1>10. CASE Commit
  BY <1>10, Unheeded DEF Commit
<1>11. QED
  BY <1>1, <1>2, <1>3, <1>4, <1>5, <1>6, <1>7, <1>8, <1>9, <1>10 DEF Edit

\* Every step of the edit mode keeps what its state holds between steps.
LEMMA MapStep == MapInv /\ [MapNext]_mapVars => MapInv'
<1> SUFFICES ASSUME MapInv, [MapNext]_mapVars PROVE MapInv'
  OBVIOUS
<1>1. ASSUME introspected # NoSchema, Edit PROVE MapInv'
  BY <1>1, EditKeepsMap
<1>2. CASE CommitFails
  BY <1>2, Unheeded DEF CommitFails
<1>3. ASSUME Committed PROVE MapInv'
  <2>1. /\ migration' = <<>> /\ cells' = FreshCells /\ introspected' = NoSchema
        /\ snapshot' = NoSchema /\ reloads' = reloads
    BY <1>3 DEF Committed, Unreplayed
  <2>2. Numbered(migration)' /\ UnlistedFresh'
    BY <2>1, NothingStaged
  <2>3. QED
    BY <2>1, <2>2 DEF MapInv, SessionIsOfItsSchema
<1>4. ASSUME Reload PROVE MapInv'
  <2>1. /\ migration' = <<>> /\ cells' = FreshCells /\ introspected' = NoSchema
        /\ reloads' = reloads + 1
    BY <1>4 DEF Reload, Unreplayed
  <2>2. Numbered(migration)' /\ UnlistedFresh'
    BY <2>1, NothingStaged
  <2>3. reloads' \in Nat /\ reloads' # 0
    BY <2>1 DEF MapInv
  <2>4. QED
    BY <2>1, <2>2, <2>3 DEF MapInv, SessionIsOfItsSchema
<1>5. ASSUME Loaded PROVE MapInv'
  <2>1. /\ introspected = NoSchema /\ introspected' \in Seeds /\ diagram' = introspected'
        /\ migration' = <<>> /\ snapshot' = snapshot /\ cells' = cells /\ reloads' = reloads
    BY <1>5 DEF Loaded
  <2>2. migration' = migration
    BY <2>1 DEF MapInv
  <2>3. Numbered(migration)' /\ UnlistedFresh'
    BY <2>1, <2>2 DEF MapInv, Numbered, UnlistedFresh, FreshCells
  <2>4. SessionIsOfItsSchema'
    BY <2>1 DEF MapInv, SessionIsOfItsSchema
  <2>5. introspected' # NoSchema
    BY <2>1, SeedsAreClean
  <2>6. QED
    BY <2>1, <2>3, <2>4, <2>5 DEF MapInv
<1>6. CASE UNCHANGED mapVars
  BY <1>6, Unheeded DEF mapVars
<1>7. QED
  BY <1>1, <1>2, <1>3, <1>4, <1>5, <1>6 DEF MapNext

LEMMA MapBegins == MapInit => MapInv
<1> SUFFICES ASSUME MapInit PROVE MapInv
  OBVIOUS
<1>1. /\ introspected \in Seeds /\ diagram = introspected /\ snapshot = NoSchema
      /\ migration = <<>> /\ cells = FreshCells /\ reloads = 0
  BY DEF MapInit
<1>2. MaxStaged \in Nat /\ NoSchema \notin Seeds
  BY MapAssumption, SeedsAreClean
<1>3. /\ <<>> \in Seq(ToSet(<<>>)) /\ Len(<<>>) <= MaxStaged /\ Ids(<<>>) \subseteq 1..MaxStaged
  BY <1>2 DEF Ids
<1>4. UnlistedFresh
  BY <1>1 DEF UnlistedFresh, FreshCells
<1>5. QED
  BY <1>1, <1>2, <1>3, <1>4 DEF MapInv, Numbered, SessionIsOfItsSchema

LEMMA MapShown ==
  MapInv => DiagramIsTheMigration
<1> SUFFICES ASSUME MapInv, introspected # NoSchema, ~reused, reloads = 0
             PROVE  ShownIs(introspected)
  BY DEF DiagramIsTheMigration
<1>1. CASE snapshot = introspected
  <2>1. snapshot # NoSchema
    BY <1>1
  <2>2. QED
    BY <2>1 DEF MapInv, SessionIsOfItsSchema
<1>2. CASE snapshot # introspected
  <2>1. migration = <<>> /\ diagram = introspected
    BY <1>2 DEF MapInv, SessionIsOfItsSchema
  <2>2. Replay(introspected, migration, FreshCells).schema = Clone(introspected)
    BY <2>1, ReplayOfNone
  <2>3. Clone(introspected) = introspected
    BY SeedsAreClean DEF MapInv
  <2>4. QED
    BY <2>1, <2>2, <2>3 DEF ShownIs
<1>3. QED
  BY <1>1, <1>2

\* useSchemaEditor.ts rebuild, stageOp, discard, commit: the diagram is the schema that was
\* read with the staged statements done in their order, for any schemas, statements and
\* number of replays, unless the last replay began from a created table's object that an
\* earlier one had written to, or the metas were read again without a commit.
THEOREM EditedDiagramIsTheMigration == MapSpec => []DiagramIsTheMigration
<1>1. MapSpec => []MapInv
  BY MapBegins, MapStep, PTL DEF MapSpec
<1>2. QED
  BY <1>1, MapShown, PTL

-----------------------------------------------------------------------------
(* What the edit mode draws (useSchemaEditor.ts): schemas, whatever is edited. *)

\* A staged statement, with a column, type or table where its kind has one.
Mutation ==
  {op \in [kind : {"addTable", "renameTable", "dropTable", "addColumn", "renameColumn", "changeType",
                   "setNullable", "setNotNull", "addPk", "dropPk", "dropColumn", "addFk", "dropFk"},
           table : TableName, col : ColName \cup TableName \cup {NoName},
           to : ColName \cup TableName \cup ColType \cup {NoName}, ref : ColName \cup {NoName},
           id : 1..MaxStaged] :
     /\ op.kind = "addColumn" => op.col \in ColName
     /\ op.kind = "renameColumn" => op.to \in ColName
     /\ op.kind = "changeType" => op.to \in ColType
     /\ op.kind = "renameTable" => op.to \in TableName
     /\ op.kind = "addFk" => op.col \in ColName /\ op.to \in TableName /\ op.ref \in ColName}

LEMMA FindPlace ==
  ASSUME NEW S, NEW s \in Seq(S), NEW name
  PROVE  Has(s, name) => Find(s, name) \in 1..Len(s)
<1> DEFINE I == {i \in 1..Len(s) : s[i].name = name}
<1>1. Len(s) \in Nat
  OBVIOUS
<1>2. Find(s, name) = IF I # {} THEN Min(I) ELSE 0
  BY DEF Find, SelectInSeq
<1>3. I # {} => Min(I) \in I
  BY <1>1, MinOfPositions
<1>4. QED
  BY <1>2, <1>3 DEF Has

\* What is made of a column.
Recolumned(columns, i, c) == [columns EXCEPT ![i] = c]

LEMMA RecolumnedIsDrawn ==
  ASSUME NEW columns \in Seq(DrawnColumn), NEW i \in 1..Len(columns), NEW c \in DrawnColumn
  PROVE  Recolumned(columns, i, c) \in Seq(DrawnColumn)
BY DEF Recolumned

LEMMA ColumnFields ==
  ASSUME NEW c \in DrawnColumn
  PROVE  /\ \A to \in ColName : [c EXCEPT !.name = to] \in DrawnColumn
         /\ \A to \in ColType : [c EXCEPT !.type = to] \in DrawnColumn
         /\ \A b \in BOOLEAN : [c EXCEPT !.nullable = b] \in DrawnColumn
         /\ [c EXCEPT !.pk = FALSE] \in DrawnColumn
         /\ [c EXCEPT !.pk = TRUE, !.nullable = FALSE] \in DrawnColumn
<1>1. \A to \in ColName : [c EXCEPT !.name = to] \in DrawnColumn
  BY DEF DrawnColumn
<1>2. \A to \in ColType : [c EXCEPT !.type = to] \in DrawnColumn
  BY DEF DrawnColumn
<1>3. \A b \in BOOLEAN : [c EXCEPT !.nullable = b] \in DrawnColumn
  BY DEF DrawnColumn
<1>4. [c EXCEPT !.pk = FALSE] \in DrawnColumn
  BY DEF DrawnColumn
<1>5. [c EXCEPT !.pk = TRUE, !.nullable = FALSE] \in DrawnColumn
  BY DEF DrawnColumn
<1>6. QED
  BY <1>1, <1>2, <1>3, <1>4, <1>5

LEMMA ColumnsAreDrawn ==
  ASSUME NEW columns \in Seq(DrawnColumn), NEW op \in Mutation
  PROVE  ColumnsAfter(columns, op) \in Seq(DrawnColumn)
<1> DEFINE i == Find(columns, op.col)
<1>1. /\ Len(columns) \in Nat /\ DOMAIN columns = 1..Len(columns)
      /\ \A n \in 1..Len(columns) : columns[n] \in DrawnColumn
  OBVIOUS
<1>2. Has(columns, op.col) => i \in 1..Len(columns) /\ columns[i] \in DrawnColumn
  BY <1>1, FindPlace
<1> HIDE DEF i
<1>3. ASSUME NEW c, c \in DrawnColumn \/ ~Has(columns, op.col)
      PROVE  (IF Has(columns, op.col) THEN Recolumned(columns, i, c) ELSE columns) \in Seq(DrawnColumn)
  <2>1. CASE Has(columns, op.col)
    <3>1. Recolumned(columns, i, c) \in Seq(DrawnColumn)
      BY <1>2, <1>3, <2>1, RecolumnedIsDrawn
    <3>2. (IF Has(columns, op.col) THEN Recolumned(columns, i, c) ELSE columns) = Recolumned(columns, i, c)
      BY <2>1, Zenon
    <3>3. QED
      BY <3>1, <3>2, Zenon
  <2>2. CASE ~Has(columns, op.col)
    <3>1. (IF Has(columns, op.col) THEN Recolumned(columns, i, c) ELSE columns) = columns
      BY <2>2, Zenon
    <3>2. QED
      BY <3>1, Zenon
  <2>3. QED
    BY <2>1, <2>2
<1>4. CASE op.kind = "addColumn"
  <2>1. Col(op.col, TextType, FALSE, TRUE) \in DrawnColumn
    BY <1>4, MapNames DEF Mutation, Col, DrawnColumn
  <2>2. ColumnsAfter(columns, op) = Append(columns, Col(op.col, TextType, FALSE, TRUE))
    BY <1>4 DEF ColumnsAfter
  <2>3. Append(columns, Col(op.col, TextType, FALSE, TRUE)) \in Seq(DrawnColumn)
    BY <2>1, AppendPlaces
  <2>4. QED
    BY <2>2, <2>3, Zenon
<1>5. CASE op.kind = "renameColumn"
  <2> DEFINE c == [columns[i] EXCEPT !.name = op.to]
  <2>1. ColumnsAfter(columns, op) = IF Has(columns, op.col) THEN Recolumned(columns, i, c) ELSE columns
    BY <1>5 DEF ColumnsAfter, OnColumn, Recolumned, i
  <2>2. op.to \in ColName
    BY <1>5 DEF Mutation
  <2>3. Has(columns, op.col) => c \in DrawnColumn
    BY <1>2, <2>2, ColumnFields
  <2> HIDE DEF c
  <2>4. QED
    BY <1>3, <2>1, <2>3
<1>6. CASE op.kind = "changeType"
  <2> DEFINE c == [columns[i] EXCEPT !.type = op.to]
  <2>1. ColumnsAfter(columns, op) = IF Has(columns, op.col) THEN Recolumned(columns, i, c) ELSE columns
    BY <1>6 DEF ColumnsAfter, OnColumn, Recolumned, i
  <2>2. op.to \in ColType
    BY <1>6 DEF Mutation
  <2>3. Has(columns, op.col) => c \in DrawnColumn
    BY <1>2, <2>2, ColumnFields
  <2> HIDE DEF c
  <2>4. QED
    BY <1>3, <2>1, <2>3
<1>7. CASE op.kind = "setNullable"
  <2> DEFINE c == [columns[i] EXCEPT !.nullable = TRUE]
  <2>1. ColumnsAfter(columns, op) = IF Has(columns, op.col) THEN Recolumned(columns, i, c) ELSE columns
    BY <1>7 DEF ColumnsAfter, OnColumn, Recolumned, i
  <2>2. Has(columns, op.col) => c \in DrawnColumn
    BY <1>2, ColumnFields
  <2> HIDE DEF c
  <2>3. QED
    BY <1>3, <2>1, <2>2
<1>8. CASE op.kind = "setNotNull"
  <2> DEFINE c == [columns[i] EXCEPT !.nullable = FALSE]
  <2>1. ColumnsAfter(columns, op) = IF Has(columns, op.col) THEN Recolumned(columns, i, c) ELSE columns
    BY <1>8 DEF ColumnsAfter, OnColumn, Recolumned, i
  <2>2. Has(columns, op.col) => c \in DrawnColumn
    BY <1>2, ColumnFields
  <2> HIDE DEF c
  <2>3. QED
    BY <1>3, <2>1, <2>2
<1>9. CASE op.kind = "dropPk"
  <2> DEFINE c == [columns[i] EXCEPT !.pk = FALSE]
  <2>1. ColumnsAfter(columns, op) = IF Has(columns, op.col) THEN Recolumned(columns, i, c) ELSE columns
    BY <1>9 DEF ColumnsAfter, OnColumn, Recolumned, i
  <2>2. Has(columns, op.col) => c \in DrawnColumn
    BY <1>2, ColumnFields
  <2> HIDE DEF c
  <2>3. QED
    BY <1>3, <2>1, <2>2
<1>10. CASE op.kind = "addPk"
  <2> DEFINE plain == [n \in DOMAIN columns |-> [columns[n] EXCEPT !.pk = FALSE]]
             k == Find(plain, op.col)
             c == [plain[k] EXCEPT !.pk = TRUE, !.nullable = FALSE]
  <2>1. plain \in Seq(DrawnColumn)
    <3>1. \A n \in 1..Len(columns) : [columns[n] EXCEPT !.pk = FALSE] \in DrawnColumn
      BY <1>1, ColumnFields
    <3>2. QED
      BY <1>1, <3>1
  <2>2. ColumnsAfter(columns, op) = IF Has(plain, op.col) THEN Recolumned(plain, k, c) ELSE plain
    BY <1>10 DEF ColumnsAfter, OnColumn, Recolumned
  <2> HIDE DEF plain, k, c
  <2>3. Has(plain, op.col) => k \in 1..Len(plain)
    BY <2>1, FindPlace DEF k
  <2>4. Has(plain, op.col) => c \in DrawnColumn
    <3>1. Has(plain, op.col) => plain[k] \in DrawnColumn
      BY <2>1, <2>3
    <3>2. \A d \in DrawnColumn : [d EXCEPT !.pk = TRUE, !.nullable = FALSE] \in DrawnColumn
      BY ColumnFields
    <3>3. QED
      BY <3>1, <3>2 DEF c
  <2>5. CASE Has(plain, op.col)
    <3>1. Recolumned(plain, k, c) \in Seq(DrawnColumn)
      BY <2>1, <2>3, <2>4, <2>5, RecolumnedIsDrawn
    <3>2. ColumnsAfter(columns, op) = Recolumned(plain, k, c)
      BY <2>2, <2>5, Zenon
    <3>3. QED
      BY <3>1, <3>2, Zenon
  <2>6. CASE ~Has(plain, op.col)
    BY <2>1, <2>2, <2>6, Zenon
  <2>7. QED
    BY <2>5, <2>6
<1>11. CASE op.kind = "dropColumn"
  BY <1>11, SelectionIsOf DEF ColumnsAfter
<1>12. CASE op.kind \notin {"addColumn", "renameColumn", "changeType", "setNullable", "setNotNull",
                            "addPk", "dropPk", "dropColumn"}
  BY <1>12 DEF ColumnsAfter
<1>13. QED
  BY <1>4, <1>5, <1>6, <1>7, <1>8, <1>9, <1>10, <1>11, <1>12

LEMMA LinksAreDrawn ==
  ASSUME NEW fks \in Seq(DrawnLink), NEW op \in Mutation
  PROVE  FksAfter(fks, op) \in Seq(DrawnLink)
<1>1. /\ Len(fks) \in Nat /\ DOMAIN fks = 1..Len(fks)
      /\ \A n \in 1..Len(fks) : fks[n] \in DrawnLink
  OBVIOUS
<1>2. CASE op.kind = "renameColumn"
  <2> DEFINE Moved(fk) == IF fk.col = op.col THEN [fk EXCEPT !.col = op.to] ELSE fk
  <2>1. op.to \in ColName
    BY <1>2 DEF Mutation
  <2>2. \A fk \in DrawnLink : Moved(fk) \in DrawnLink
    BY <2>1 DEF DrawnLink
  <2>3. FksAfter(fks, op) = [n \in 1..Len(fks) |-> Moved(fks[n])]
    BY <1>1, <1>2 DEF FksAfter
  <2> HIDE DEF Moved
  <2>4. QED
    BY <1>1, <2>2, <2>3
<1>3. CASE op.kind = "renameTable"
  <2> DEFINE Moved(fk) == IF fk.refTable = op.table THEN [fk EXCEPT !.refTable = op.to] ELSE fk
  <2>1. op.to \in TableName
    BY <1>3 DEF Mutation
  <2>2. \A fk \in DrawnLink : Moved(fk) \in DrawnLink
    BY <2>1 DEF DrawnLink
  <2>3. FksAfter(fks, op) = [n \in 1..Len(fks) |-> Moved(fks[n])]
    BY <1>1, <1>3 DEF FksAfter
  <2> HIDE DEF Moved
  <2>4. QED
    BY <1>1, <2>2, <2>3
<1>4. CASE op.kind = "addFk"
  <2>1. [name |-> <<op.table, op.col>>, col |-> op.col, refTable |-> op.to, refCol |-> op.ref]
          \in DrawnLink
    BY <1>4 DEF Mutation, DrawnLink
  <2>2. QED
    BY <1>4, <2>1 DEF FksAfter
<1>5. CASE op.kind = "dropColumn"
  BY <1>5, SelectionIsOf DEF FksAfter
<1>6. CASE op.kind = "dropFk"
  BY <1>6, SelectionIsOf DEF FksAfter
<1>7. CASE op.kind = "dropTable"
  BY <1>7, SelectionIsOf DEF FksAfter
<1>8. CASE op.kind \notin {"renameColumn", "renameTable", "addFk", "dropColumn", "dropFk", "dropTable"}
  BY <1>8 DEF FksAfter
<1>9. QED
  BY <1>2, <1>3, <1>4, <1>5, <1>6, <1>7, <1>8

\* A table stays one, a schema stays one, whatever is done to it.
LEMMA RedrawnIsDrawn ==
  ASSUME NEW O, NEW drawn \in DrawnTable(O), NEW op \in Mutation
  PROVE  Redrawn(drawn, op) \in DrawnTable(O)
<1>1. drawn.columns \in Seq(DrawnColumn) /\ drawn.fks \in Seq(DrawnLink) /\ drawn.cell \in O
  BY DEF DrawnTable
<1>2. ColumnsAfter(drawn.columns, op) \in Seq(DrawnColumn)
  BY <1>1, ColumnsAreDrawn
<1>3. FksAfter(drawn.fks, op) \in Seq(DrawnLink)
  BY <1>1, LinksAreDrawn
<1>4. QED
  BY <1>1, <1>2, <1>3 DEF Redrawn, DrawnTable

LEMMA HeldIsDrawn ==
  ASSUME NEW O, NEW P, NEW made \in DrawnTable(P), NEW cell \in O
  PROVE  Held(made, cell) \in DrawnTable(O)
BY DEF Held, DrawnTable

LEMMA TablesAreDrawn ==
  ASSUME NEW O, NEW schema, IsDrawing(schema, O)
  PROVE  /\ DOMAIN schema \in SUBSET TableName
         /\ \A t \in DOMAIN schema : schema[t] \in DrawnTable(O)
<1>1. PICK names \in SUBSET TableName : schema \in [names -> DrawnTable(O)]
  BY DEF IsDrawing
<1>2. DOMAIN schema = names
  BY <1>1
<1>3. QED
  BY <1>1, <1>2

LEMMA MutatedIsDrawn ==
  ASSUME NEW O, NEW schema, IsDrawing(schema, O), NEW op \in Mutation, op.id \in O,
         NEW P, NEW made \in DrawnTable(P)
  PROVE  IsDrawing(Mutated(schema, op, made), O)
<1>1. /\ DOMAIN schema \in SUBSET TableName
      /\ \A t \in DOMAIN schema : schema[t] \in DrawnTable(O)
  BY TablesAreDrawn
<1>2. \A t \in DOMAIN schema : Redrawn(schema[t], op) \in DrawnTable(O)
  BY <1>1, RedrawnIsDrawn
<1>3. op.table \in TableName
  BY DEF Mutation
<1>4. CASE op.kind = "addTable"
  <2> DEFINE names == DOMAIN schema \cup {op.table}
             At(t) == IF t = op.table THEN Held(made, op.id) ELSE schema[t]
  <2>1. Held(made, op.id) \in DrawnTable(O)
    BY HeldIsDrawn
  <2>2. \A t \in names : At(t) \in DrawnTable(O)
    BY <1>1, <2>1
  <2>3. names \in SUBSET TableName
    BY <1>1, <1>3
  <2>4. Mutated(schema, op, made) = [t \in names |-> At(t)]
    BY <1>4 DEF Mutated, WithTable
  <2> HIDE DEF names, At
  <2>5. IsDrawing([t \in names |-> At(t)], O)
    <3>1. [t \in names |-> At(t)] \in [names -> DrawnTable(O)]
      BY <2>2
    <3>2. QED
      BY <2>3, <3>1 DEF IsDrawing
  <2>6. QED
    BY <2>4, <2>5
<1>5. CASE op.kind = "renameTable" /\ op.table \notin DOMAIN schema
  BY <1>5 DEF Mutated, WithTableRenamed
<1>6. CASE op.kind = "renameTable" /\ op.table \in DOMAIN schema
  <2> DEFINE names == (DOMAIN schema \ {op.table}) \cup {op.to}
             At(t) == Redrawn(schema[IF t = op.to THEN op.table ELSE t], op)
  <2>1. op.to \in TableName
    BY <1>6 DEF Mutation
  <2>2. \A t \in names : At(t) \in DrawnTable(O)
    BY <1>2, <1>6
  <2>3. names \in SUBSET TableName
    BY <1>1, <2>1
  <2>4. Mutated(schema, op, made) = [t \in names |-> At(t)]
    BY <1>6 DEF Mutated, WithTableRenamed
  <2> HIDE DEF names, At
  <2>5. [t \in names |-> At(t)] \in [names -> DrawnTable(O)]
    BY <2>2
  <2>6. QED
    BY <2>3, <2>4, <2>5 DEF IsDrawing
<1>7. CASE op.kind = "dropTable"
  <2> DEFINE names == DOMAIN schema \ {op.table}
             At(t) == Redrawn(schema[t], op)
  <2>1. \A t \in names : At(t) \in DrawnTable(O)
    BY <1>2
  <2>2. names \in SUBSET TableName
    BY <1>1
  <2>3. Mutated(schema, op, made) = [t \in names |-> At(t)]
    BY <1>7 DEF Mutated, WithoutTable
  <2> HIDE DEF names, At
  <2>4. [t \in names |-> At(t)] \in [names -> DrawnTable(O)]
    BY <2>1
  <2>5. QED
    BY <2>2, <2>3, <2>4 DEF IsDrawing
<1>8. CASE op.kind \notin {"addTable", "renameTable", "dropTable"}
  <2> DEFINE names == DOMAIN schema
             At(t) == IF t = op.table THEN Redrawn(schema[t], op) ELSE schema[t]
  <2>1. \A t \in names : At(t) \in DrawnTable(O)
    BY <1>1, <1>2
  <2>2. Mutated(schema, op, made) = [t \in names |-> At(t)]
    BY <1>8 DEF Mutated, WithTableRedrawn
  <2>3. names \in SUBSET TableName
    BY <1>1
  <2> HIDE DEF names, At
  <2>4. [t \in names |-> At(t)] \in [names -> DrawnTable(O)]
    BY <2>1
  <2>5. QED
    BY <2>2, <2>3, <2>4 DEF IsDrawing
<1>9. QED
  BY <1>4, <1>5, <1>6, <1>7, <1>8

\* A copy holds no object.
LEMMA CloneIsDrawn ==
  ASSUME NEW O, NEW schema, IsDrawing(schema, O)
  PROVE  IsDrawing(Clone(schema), {0})
<1>1. /\ DOMAIN schema \in SUBSET TableName
      /\ \A t \in DOMAIN schema : schema[t] \in DrawnTable(O)
  BY TablesAreDrawn
<1>2. \A t \in DOMAIN schema : AsCell(schema[t]) \in DrawnTable({0})
  BY <1>1, HeldIsDrawn DEF AsCell
<1>3. Clone(schema) \in [DOMAIN schema -> DrawnTable({0})]
  BY <1>2 DEF Clone
<1>4. QED
  BY <1>1, <1>3 DEF IsDrawing

Objects == [1..MaxStaged -> DrawnTable({0})]

LEMMA WrittenIsDrawn ==
  ASSUME NEW O, NEW schema, IsDrawing(schema, O), NEW held \in Objects
  PROVE  WrittenTo(held, schema) \in Objects
<1>1. \A t \in DOMAIN schema : AsCell(schema[t]) \in DrawnTable({0})
  BY TablesAreDrawn, HeldIsDrawn DEF AsCell
<1> DEFINE Shows(c) == \E t \in DOMAIN schema : schema[t].cell = c
           At(c) == CHOOSE t \in DOMAIN schema : schema[t].cell = c
           Now(c) == IF Shows(c) THEN AsCell(schema[At(c)]) ELSE held[c]
<1>2. \A c \in 1..MaxStaged : Shows(c) => At(c) \in DOMAIN schema
  OBVIOUS
<1>3. DOMAIN held = 1..MaxStaged /\ \A c \in 1..MaxStaged : held[c] \in DrawnTable({0})
  BY DEF Objects
<1>4. WrittenTo(held, schema) = [c \in 1..MaxStaged |-> Now(c)]
  BY <1>3 DEF WrittenTo
<1> HIDE DEF Shows, At
<1>5. \A c \in 1..MaxStaged : Now(c) \in DrawnTable({0})
  BY <1>1, <1>2, <1>3
<1> HIDE DEF Now
<1>6. QED
  BY <1>4, <1>5 DEF Objects

\* What a replay is at: a schema that may hold objects of statements, and the objects.
ReplayState ==
  [schema : UNION {[names -> DrawnTable(0..MaxStaged)] : names \in SUBSET TableName},
   cells : Objects]

LEMMA DrawnState ==
  ASSUME NEW schema, IsDrawing(schema, 0..MaxStaged), NEW held \in Objects
  PROVE  [schema |-> schema, cells |-> held] \in ReplayState
BY DEF ReplayState, IsDrawing

LEMMA DrawnParts ==
  ASSUME NEW state \in ReplayState
  PROVE  IsDrawing(state.schema, 0..MaxStaged) /\ state.cells \in Objects
BY DEF ReplayState, IsDrawing

LEMMA WiderDrawing ==
  ASSUME NEW schema, IsDrawing(schema, {0})
  PROVE  IsDrawing(schema, 0..MaxStaged)
<1>1. MaxStaged \in Nat
  BY MapAssumption
<1>2. PICK names \in SUBSET TableName : schema \in [names -> DrawnTable({0})]
  BY DEF IsDrawing
<1>3. DrawnTable({0}) \subseteq DrawnTable(0..MaxStaged)
  BY <1>1 DEF DrawnTable
<1>4. schema \in [names -> DrawnTable(0..MaxStaged)]
  BY <1>2, <1>3
<1>5. QED
  BY <1>4 DEF IsDrawing

LEMMA ReplayStepIsDrawn ==
  ASSUME NEW state \in ReplayState, NEW op \in Mutation
  PROVE  ReplayStep(state, op) \in ReplayState
<1> DEFINE next == Mutated(state.schema, op, state.cells[op.id])
<1>1. IsDrawing(state.schema, 0..MaxStaged) /\ state.cells \in Objects
  BY DrawnParts
<1>2. op.id \in 1..MaxStaged /\ MaxStaged \in Nat
  BY MapAssumption DEF Mutation
<1>3. state.cells[op.id] \in DrawnTable({0}) /\ op.id \in 0..MaxStaged
  BY <1>1, <1>2 DEF Objects
<1>4. IsDrawing(next, 0..MaxStaged)
  BY <1>1, <1>3, MutatedIsDrawn
<1>5. ReplayStep(state, op) = [schema |-> next, cells |-> WrittenTo(state.cells, next)]
  BY DEF ReplayStep
<1> HIDE DEF next
<1>6. WrittenTo(state.cells, next) \in Objects
  BY <1>1, <1>4, WrittenIsDrawn
<1>7. QED
  BY <1>4, <1>5, <1>6, DrawnState

LEMMA ReplayIsDrawn ==
  ASSUME NEW schema, IsDrawing(schema, {0}), NEW list \in Seq(Mutation), NEW from \in Objects
  PROVE  /\ IsDrawing(Replay(schema, list, from).schema, 0..MaxStaged)
         /\ Replay(schema, list, from).cells \in Objects
<1> DEFINE base == [schema |-> Clone(schema), cells |-> from]
<1>1. base \in ReplayState
  BY CloneIsDrawn, WiderDrawing, DrawnState
<1>2. \A state \in ReplayState : \A k \in 1..Len(list) : ReplayStep(state, list[k]) \in ReplayState
  BY ReplayStepIsDrawn
<1>3. Remake!Folded(base, list) \in ReplayState
  <2> HIDE DEF base
  <2>1. QED
    BY ONLY <1>1, <1>2, list \in Seq(Mutation), Remake!FoldKeeps
<1>4. Replay(schema, list, from) \in ReplayState
  BY <1>3, ReplayIsFolded
<1>5. QED
  BY <1>4, DrawnParts

LEMMA FreshAreDrawn == FreshCells \in Objects
<1>1. Col(IdCol, IntType, TRUE, FALSE) \in DrawnColumn
  BY MapNames DEF Col, DrawnColumn
<1> DEFINE id == Col(IdCol, IntType, TRUE, FALSE)
<1> HIDE DEF id
<1>2. <<id>> \in Seq(DrawnColumn)
  <2>1. id \in DrawnColumn
    BY <1>1 DEF id
  <2>2. QED
    BY <2>1, OneOf
<1>3. <<Col(IdCol, IntType, TRUE, FALSE)>> \in Seq(DrawnColumn)
  BY <1>2, Zenon DEF id
<1>4. <<>> \in Seq(DrawnLink)
  OBVIOUS
<1>5. AsCell(NewTable) \in DrawnTable({0})
  BY <1>3, <1>4 DEF AsCell, Held, NewTable, DrawnTable
<1>6. QED
  BY <1>5 DEF FreshCells, Objects

\* A map with nothing on it, while the metas load.
LEMMA BlankIsDrawn == IsDrawing(<<>>, {0})
<1>1. <<>> \in [{} -> DrawnTable({0})]
  OBVIOUS
<1>2. {} \in SUBSET TableName
  OBVIOUS
<1>3. QED
  BY <1>1, <1>2 DEF IsDrawing

\* What the edit mode holds, whatever it is doing: schemas, statements and tables.
MapTyped ==
  /\ IsDrawing(diagram, {0}) /\ (snapshot # NoSchema => IsDrawing(snapshot, {0}))
  /\ migration \in Seq(Mutation) /\ (migration # <<>> => snapshot # NoSchema)
  /\ cells \in Objects
  /\ rebuilds \in Nat /\ rebuilds <= MaxRebuilds /\ reloads \in Nat /\ reloads <= MaxReloads

\* A step that leaves what it holds alone.
LEMMA UntouchedIsTyped ==
  ASSUME MapTyped, UNCHANGED <<diagram, snapshot, migration, cells, rebuilds, reloads>>
  PROVE  MapTyped'
BY DEF MapTyped

\* A statement of the kind can be staged.
CanStage(kind, table, col, to, ref) ==
  \A c \in 1..MaxStaged :
    [kind |-> kind, table |-> table, col |-> col, to |-> to, ref |-> ref, id |-> c] \in Mutation

LEMMA StageIsTyped ==
  ASSUME MapInv, MapTyped, NEW kind, NEW table, NEW col, NEW to, NEW ref,
         CanStage(kind, table, col, to, ref), Stage(kind, table, col, to, ref)
  PROVE  MapTyped'
<1> DEFINE op == [kind |-> kind, table |-> table, col |-> col, to |-> to, ref |-> ref,
                  id |-> FreeId]
<1>1. /\ Len(migration) < MaxStaged
      /\ snapshot' = IF snapshot = NoSchema THEN diagram ELSE snapshot
      /\ diagram' = Clone(Mutated(diagram, op, cells[op.id]))
      /\ migration' = Append(migration, op)
      /\ cells' = cells /\ rebuilds' = rebuilds /\ reloads' = reloads
  BY DEF Stage
<1>2. MaxStaged \in Nat /\ Numbered(migration)
  BY MapAssumption DEF MapInv
<1>3. FreeId \in 1..MaxStaged
  BY <1>1, <1>2, FreeIdIsFree
<1>4. op.id = FreeId /\ op \in Mutation
  BY <1>3 DEF CanStage
<1> HIDE DEF op
<1>5. IsDrawing(diagram, {0}) /\ cells \in Objects /\ migration \in Seq(Mutation)
  BY DEF MapTyped
<1>6. IsDrawing(diagram, 0..MaxStaged) /\ op.id \in 0..MaxStaged
  BY <1>2, <1>3, <1>4, <1>5, WiderDrawing
<1>7. cells[op.id] \in DrawnTable({0})
  BY <1>3, <1>4, <1>5 DEF Objects
<1>8. IsDrawing(Mutated(diagram, op, cells[op.id]), 0..MaxStaged)
  BY <1>4, <1>6, <1>7, MutatedIsDrawn
<1>9. IsDrawing(diagram', {0})
  BY <1>1, <1>8, CloneIsDrawn
<1>10. migration' \in Seq(Mutation)
  BY <1>1, <1>4, <1>5, AppendPlaces
<1>11. snapshot' # NoSchema /\ IsDrawing(snapshot', {0})
  <2>1. ~IsDrawing(NoSchema, {0})
    BY SeedsAssumption
  <2>2. CASE snapshot = NoSchema
    BY <1>1, <1>5, <2>1, <2>2
  <2>3. CASE snapshot # NoSchema
    BY <1>1, <2>3 DEF MapTyped
  <2>4. QED
    BY <2>2, <2>3
<1>12. QED
  BY <1>1, <1>9, <1>10, <1>11 DEF MapTyped

LEMMA RebuildIsTyped ==
  ASSUME MapTyped, migration # <<>>, NEW list \in Seq(Mutation), Rebuild(list)
  PROVE  MapTyped'
<1> DEFINE result == Replay(snapshot, list, cells)
<1>1. /\ diagram' = Clone(result.schema) /\ cells' = CellsOf(list, result.cells)
      /\ migration' = list /\ rebuilds < MaxRebuilds /\ rebuilds' = rebuilds + 1
      /\ snapshot' = snapshot /\ reloads' = reloads
  BY DEF Rebuild
<1>2. snapshot # NoSchema /\ IsDrawing(snapshot, {0}) /\ cells \in Objects /\ rebuilds \in Nat
  BY DEF MapTyped
<1>3. IsDrawing(result.schema, 0..MaxStaged) /\ result.cells \in Objects
  BY <1>2, ReplayIsDrawn
<1> HIDE DEF result
<1>4. IsDrawing(diagram', {0})
  BY <1>1, <1>3, CloneIsDrawn
<1>5. CellsOf(list, result.cells) \in Objects
  <2>1. \A c \in 1..MaxStaged :
          result.cells[c] \in DrawnTable({0}) /\ FreshCells[c] \in DrawnTable({0})
    BY <1>3, FreshAreDrawn DEF Objects
  <2>2. DOMAIN result.cells = 1..MaxStaged
    BY <1>3 DEF Objects
  <2>3. CellsOf(list, result.cells)
          = [c \in 1..MaxStaged |-> IF c \in Ids(list) THEN result.cells[c] ELSE FreshCells[c]]
    BY <2>2 DEF CellsOf
  <2>4. QED
    BY <2>1, <2>3 DEF Objects
<1>6. rebuilds' \in Nat /\ rebuilds' <= MaxRebuilds
  BY <1>1, <1>2, MapAssumption
<1>7. QED
  BY <1>1, <1>2, <1>4, <1>5, <1>6 DEF MapTyped

\* Un-staging and reordering.
LEMMA UnstageIsTyped ==
  ASSUME MapTyped, NEW i \in DOMAIN migration,
         Unstage(i) \/ \E j \in DOMAIN migration : Reorder(i, j)
  PROVE  MapTyped'
<1> DEFINE rest == RemoveAt(migration, i)
<1>1. /\ migration \in Seq(Mutation) /\ Len(migration) \in Nat
      /\ DOMAIN migration = 1..Len(migration) /\ i \in 1..Len(migration)
      /\ migration[i] \in Mutation /\ migration # <<>>
  <2>1. migration \in Seq(Mutation)
    BY DEF MapTyped
  <2>2. QED
    BY <2>1
<1>2. rest \in Seq(Mutation) /\ Len(rest) = Len(migration) - 1
  BY <1>1, RemoveAtPlaces
<1>3. CASE Unstage(i)
  BY <1>1, <1>2, <1>3, RebuildIsTyped DEF Unstage
<1> HIDE DEF rest
<1>4. ASSUME NEW j \in DOMAIN migration, Reorder(i, j) PROVE MapTyped'
  <2>1. j \in 1..(Len(rest) + 1)
    BY <1>1, <1>2
  <2>2. InsertAt(rest, j, migration[i]) \in Seq(Mutation)
    BY <1>1, <1>2, <2>1, InsertAtPlaces
  <2>3. Rebuild(InsertAt(rest, j, migration[i]))
    BY <1>4 DEF Reorder, rest
  <2>4. QED
    BY <1>1, <2>2, <2>3, RebuildIsTyped
<1>5. QED
  BY <1>3, <1>4

\* The place SelectInSeq finds is one of the list.
LEMMA FreeNameIsOne ==
  ASSUME NEW S, NEW names \in Seq(S), NEW used
  PROVE  FirstFree(names, used) # 0 => names[FirstFree(names, used)] \in S
<1> DEFINE places == {n \in 1..Len(names) : names[n] \notin used}
<1>1. Len(names) \in Nat /\ \A n \in 1..Len(names) : names[n] \in S
  OBVIOUS
<1>2. FirstFree(names, used) = IF places # {} THEN Min(places) ELSE 0
  BY DEF FirstFree, SelectInSeq
<1>3. places # {} => Min(places) \in places
  BY <1>1, MinOfPositions
<1>4. QED
  BY <1>1, <1>2, <1>3

LEMMA RemovingIsTyped ==
  ASSUME MapInv, MapTyped, NEW t \in DOMAIN diagram, NEW k \in DOMAIN diagram[t].fks,
         RemoveForeignKey(t, k)
  PROVE  MapTyped'
<1> DEFINE name == diagram[t].fks[k].name
           places == {n \in 1..Len(migration) :
                        /\ migration[n].kind = "addFk" /\ migration[n].table = t
                        /\ name = <<t, migration[n].col>>}
           adds == SelectInSeq(migration,
                     LAMBDA op : op.kind = "addFk" /\ op.table = t /\ name = <<t, op.col>>)
<1>1. Len(migration) \in Nat /\ DOMAIN migration = 1..Len(migration)
  BY DEF MapInv, Numbered
<1>2. adds = IF places # {} THEN Min(places) ELSE 0
  BY DEF SelectInSeq
<1>3. places # {} => Min(places) \in places
  BY <1>1, MinOfPositions
<1>4. adds # 0 => adds \in DOMAIN migration
  BY <1>1, <1>2, <1>3
<1>5. \/ adds # 0 /\ Unstage(adds)
      \/ Stage("dropFk", t, name[1], NoName, name[2])
  BY DEF RemoveForeignKey
<1> HIDE DEF adds
<1>6. t \in TableName /\ diagram[t] \in DrawnTable({0})
  BY TablesAreDrawn DEF MapTyped
<1>7. diagram[t].fks \in Seq(DrawnLink)
  BY <1>6 DEF DrawnTable
<1>8. diagram[t].fks[k] \in DrawnLink
  BY <1>7
<1>9. name \in TableName \X ColName
  BY <1>8 DEF DrawnLink
<1> HIDE DEF name
<1>10. name[1] \in TableName /\ name[2] \in ColName
  BY <1>9
<1>11. CanStage("dropFk", t, name[1], NoName, name[2])
  BY <1>6, <1>10 DEF CanStage, Mutation
<1>12. QED
  BY <1>4, <1>5, <1>11, UnstageIsTyped, StageIsTyped

LEMMA EditIsTyped ==
  ASSUME MapInv, MapTyped, Edit PROVE MapTyped'
<1>1. /\ DOMAIN diagram \in SUBSET TableName
      /\ \A t \in DOMAIN diagram : diagram[t] \in DrawnTable({0})
  BY TablesAreDrawn DEF MapTyped
<1>2. \A t \in DOMAIN diagram : \A i \in DOMAIN diagram[t].columns :
        diagram[t].columns[i].name \in ColName
  <2>1. ASSUME NEW t \in DOMAIN diagram PROVE diagram[t].columns \in Seq(DrawnColumn)
    BY <1>1 DEF DrawnTable
  <2>2. ASSUME NEW t \in DOMAIN diagram, NEW i \in DOMAIN diagram[t].columns
        PROVE  diagram[t].columns[i] \in DrawnColumn
    BY <2>1
  <2>3. QED
    BY <2>2 DEF DrawnColumn
<1>3. CASE AddTable
  <2> DEFINE n == FirstFree(NewTables, DOMAIN diagram)
  <2>1. n # 0 /\ Stage("addTable", NewTables[n], NoName, NoName, NoName)
    BY <1>3 DEF AddTable
  <2>2. NewTables[n] \in TableName
    BY <2>1, FreeNameIsOne, MapNames
  <2> HIDE DEF n
  <2>3. CanStage("addTable", NewTables[n], NoName, NoName, NoName)
    BY <2>2 DEF CanStage, Mutation
  <2>4. QED
    BY <2>1, <2>3, StageIsTyped
<1>4. ASSUME NEW t \in DOMAIN diagram, AddColumnTo(t) PROVE MapTyped'
  <2> DEFINE n == FirstFree(NewCols, Names(diagram[t].columns))
  <2>1. n # 0 /\ Stage("addColumn", t, NewCols[n], NoName, NoName)
    BY <1>4 DEF AddColumnTo
  <2>2. NewCols[n] \in ColName
    BY <2>1, FreeNameIsOne, MapNames
  <2> HIDE DEF n
  <2>3. CanStage("addColumn", t, NewCols[n], NoName, NoName)
    BY <1>1, <2>2 DEF CanStage, Mutation
  <2>4. QED
    BY <2>1, <2>3, StageIsTyped
<1>5. ASSUME NEW t \in DOMAIN diagram, Stage("dropTable", t, NoName, NoName, NoName)
      PROVE  MapTyped'
  <2>1. CanStage("dropTable", t, NoName, NoName, NoName)
    BY <1>1 DEF CanStage, Mutation
  <2>2. QED
    BY <1>5, <2>1, StageIsTyped
<1>6. ASSUME NEW t \in DOMAIN diagram, NEW to \in TableName, RenameATable(t, to) PROVE MapTyped'
  <2>1. CanStage("renameTable", t, NoName, to, NoName)
    BY <1>1 DEF CanStage, Mutation
  <2>2. QED
    BY <1>6, <2>1, StageIsTyped DEF RenameATable
<1>7. ASSUME NEW t \in DOMAIN diagram, NEW i \in DOMAIN diagram[t].columns, EditColumn(t, i)
      PROVE  MapTyped'
  <2> DEFINE c == diagram[t].columns[i]
  <2>1. \/ \E to \in ColName \ Names(diagram[t].columns) : Stage("renameColumn", t, c.name, to, NoName)
        \/ \E to \in ColType \ {c.type} : Stage("changeType", t, c.name, to, NoName)
        \/ Stage("setNotNull", t, c.name, NoName, NoName)
        \/ Stage("setNullable", t, c.name, NoName, NoName)
        \/ Stage("dropPk", t, c.name, NoName, NoName)
        \/ Stage("addPk", t, c.name, NoName, NoName)
        \/ Stage("dropColumn", t, c.name, NoName, NoName)
    BY <1>7 DEF EditColumn
  <2>2. c.name \in ColName /\ t \in TableName
    BY <1>1, <1>2, <1>7
  <2> HIDE DEF c
  <2>3. ASSUME NEW to \in ColName PROVE CanStage("renameColumn", t, c.name, to, NoName)
    BY <2>2 DEF CanStage, Mutation
  <2>4. ASSUME NEW to \in ColType PROVE CanStage("changeType", t, c.name, to, NoName)
    BY <2>2 DEF CanStage, Mutation
  <2>5. \A kind \in {"setNotNull", "setNullable", "dropPk", "addPk", "dropColumn"} :
          CanStage(kind, t, c.name, NoName, NoName)
    BY <2>2 DEF CanStage, Mutation
  <2>6. ASSUME NEW to \in ColName, Stage("renameColumn", t, c.name, to, NoName) PROVE MapTyped'
    BY <2>3, <2>6, StageIsTyped
  <2>7. ASSUME NEW to \in ColType, Stage("changeType", t, c.name, to, NoName) PROVE MapTyped'
    BY <2>4, <2>7, StageIsTyped
  <2>8. ASSUME NEW kind \in {"setNotNull", "setNullable", "dropPk", "addPk", "dropColumn"},
               Stage(kind, t, c.name, NoName, NoName)
        PROVE  MapTyped'
    BY <2>5, <2>8, StageIsTyped
  <2>9. QED
    BY <2>1, <2>6, <2>7, <2>8
<1>8. ASSUME NEW t \in DOMAIN diagram, NEW i \in DOMAIN diagram[t].columns,
             NEW to \in DOMAIN diagram, AddForeignKey(t, i, to)
      PROVE  MapTyped'
  <2> DEFINE col == diagram[t].columns[i].name
             keyed == {n \in 1..Len(diagram[to].columns) : diagram[to].columns[n].pk}
             pk == SelectInSeq(diagram[to].columns, LAMBDA c : c.pk)
  <2>1. pk # 0 /\ Stage("addFk", t, col, to, diagram[to].columns[pk].name)
    BY <1>8 DEF AddForeignKey
  <2>2. diagram[to].columns \in Seq(DrawnColumn)
    BY <1>1 DEF DrawnTable
  <2>3. Len(diagram[to].columns) \in Nat /\ DOMAIN diagram[to].columns = 1..Len(diagram[to].columns)
    BY <2>2
  <2>4. pk = IF keyed # {} THEN Min(keyed) ELSE 0
    BY DEF SelectInSeq
  <2>5. keyed # {} => Min(keyed) \in keyed
    BY <2>3, MinOfPositions
  <2>6. pk \in DOMAIN diagram[to].columns
    BY <2>1, <2>3, <2>4, <2>5
  <2> HIDE DEF pk
  <2>7. diagram[to].columns[pk].name \in ColName /\ col \in ColName /\ t \in TableName /\ to \in TableName
    BY <1>1, <1>2, <2>6
  <2> HIDE DEF col
  <2>8. CanStage("addFk", t, col, to, diagram[to].columns[pk].name)
    BY <2>7 DEF CanStage, Mutation
  <2>9. QED
    BY <2>1, <2>8, StageIsTyped
<1>9. ASSUME NEW t \in DOMAIN diagram, NEW k \in DOMAIN diagram[t].fks, RemoveForeignKey(t, k)
      PROVE  MapTyped'
  BY <1>9, RemovingIsTyped
<1>10. ASSUME NEW i \in DOMAIN migration,
              Unstage(i) \/ \E j \in DOMAIN migration : Reorder(i, j)
       PROVE  MapTyped'
  BY <1>10, UnstageIsTyped
<1>11. ASSUME Discard PROVE MapTyped'
  <2>1. /\ migration # <<>> /\ migration' = <<>> /\ cells' = FreshCells /\ rebuilds' = 0
        /\ diagram' = snapshot /\ snapshot' = NoSchema /\ reloads' = reloads
    BY <1>11 DEF Discard, Unreplayed
  <2>2. IsDrawing(snapshot, {0}) /\ reloads \in Nat /\ reloads <= MaxReloads
    BY <2>1 DEF MapTyped
  <2>3. 0 \in Nat /\ 0 <= MaxRebuilds /\ <<>> \in Seq(Mutation)
    BY MapAssumption
  <2>4. QED
    BY <2>1, <2>2, <2>3, FreshAreDrawn DEF MapTyped
<1>12. CASE Commit
  BY <1>12, UntouchedIsTyped DEF Commit
<1>13. QED
  BY <1>3, <1>4, <1>5, <1>6, <1>7, <1>8, <1>9, <1>10, <1>11, <1>12 DEF Edit

\* Every step of the edit mode keeps its schemas schemas.
LEMMA MapTypedStep == MapInv /\ MapTyped /\ [MapNext]_mapVars => MapTyped'
<1> SUFFICES ASSUME MapInv, MapTyped, [MapNext]_mapVars PROVE MapTyped'
  OBVIOUS
<1>1. /\ snapshot # NoSchema => IsDrawing(snapshot, {0})
      /\ reloads \in Nat /\ reloads <= MaxReloads /\ rebuilds \in Nat /\ rebuilds <= MaxRebuilds
      /\ cells \in Objects
  BY DEF MapTyped
<1>2. <<>> \in Seq(Mutation) /\ 0 \in Nat /\ 0 <= MaxRebuilds
  BY MapAssumption
<1>3. CASE CommitFails
  BY <1>3, UntouchedIsTyped DEF CommitFails
<1>4. ASSUME Committed PROVE MapTyped'
  <2>1. /\ migration' = <<>> /\ cells' = FreshCells /\ diagram' = <<>>
        /\ snapshot' = NoSchema /\ reloads' = reloads /\ rebuilds' = 0
    BY <1>4 DEF Committed, Unreplayed
  <2>2. QED
    BY <1>1, <1>2, <2>1, BlankIsDrawn, FreshAreDrawn DEF MapTyped
<1>5. ASSUME Reload PROVE MapTyped'
  <2>1. /\ migration' = <<>> /\ cells' = FreshCells /\ diagram' = <<>>
        /\ snapshot' = snapshot /\ reloads' = reloads + 1 /\ rebuilds' = 0 /\ reloads < MaxReloads
    BY <1>5 DEF Reload, Unreplayed
  <2>2. reloads' \in Nat /\ reloads' <= MaxReloads
    BY <1>1, <2>1, MapAssumption
  <2>3. QED
    BY <1>1, <1>2, <2>1, <2>2, BlankIsDrawn, FreshAreDrawn DEF MapTyped
<1>6. ASSUME Loaded PROVE MapTyped'
  <2>1. /\ introspected' \in Seeds /\ diagram' = introspected' /\ migration' = <<>>
        /\ snapshot' = snapshot /\ cells' = cells /\ reloads' = reloads /\ rebuilds' = rebuilds
    BY <1>6 DEF Loaded
  <2>2. IsDrawing(diagram', {0})
    BY <2>1, SeedsAssumption
  <2>3. QED
    BY <1>1, <1>2, <2>1, <2>2 DEF MapTyped
<1>7. CASE UNCHANGED mapVars
  BY <1>7, UntouchedIsTyped DEF mapVars
<1>8. QED
  BY <1>3, <1>4, <1>5, <1>6, <1>7, EditIsTyped DEF MapNext

LEMMA MapBeginsTyped == MapInit => MapTyped
<1> SUFFICES ASSUME MapInit PROVE MapTyped
  OBVIOUS
<1>1. /\ introspected \in Seeds /\ diagram = introspected /\ snapshot = NoSchema
      /\ migration = <<>> /\ cells = FreshCells /\ reloads = 0 /\ rebuilds = 0
  BY DEF MapInit
<1>2. IsDrawing(diagram, {0})
  BY <1>1, SeedsAssumption
<1>3. <<>> \in Seq(Mutation) /\ 0 \in Nat /\ 0 <= MaxRebuilds /\ 0 <= MaxReloads
  BY MapAssumption
<1>4. QED
  BY <1>1, <1>2, <1>3, FreshAreDrawn DEF MapTyped

LEMMA MapTypedShown == MapInv /\ MapTyped => MapTypeOK
<1> SUFFICES ASSUME MapInv, MapTyped PROVE MapTypeOK
  OBVIOUS
<1>1. Len(migration) <= MaxStaged
  BY DEF MapInv, Numbered
<1>2. \A c \in DOMAIN cells : c \notin Ids(migration) => cells[c] = FreshCells[c]
  BY DEF MapInv, UnlistedFresh
<1>3. QED
  BY <1>1, <1>2 DEF MapInv, MapTyped, MapTypeOK

-----------------------------------------------------------------------------
(* The four together.                                                        *)

\* introspection/state.ts, useBoardDoc.ts, StructureView.tsx and useSchemaEditor.ts, whichever
\* is driven: types; a cache whose fetches are shared and what it shows as loading comes from
\* one; a preview of the batch it is shown for, an index op with a card to undo it on; a map
\* that starts from a snapshot once a statement is staged.
THEOREM DesignRunIsWellFormed == Spec => []WellFormed
<1> DEFINE Inv == IntroInv /\ BoardInv /\ PreviewInv /\ StructInv /\ MapInv /\ MapTyped
<1>1. Init => Inv
  <2>1. StructInit => PreviewInv
    BY DEF StructInit, Closed, PreviewInv, PreviewIsOfTheBatch
  <2>2. QED
    BY <2>1, IntroStarts, BoardStarts, StructBegins, MapBegins, MapBeginsTyped DEF Init
<1>2. Inv /\ [Next]_designVars => Inv'
  <2> SUFFICES ASSUME Inv, [Next]_designVars PROVE Inv'
    OBVIOUS
  <2>1. /\ [IntroNext]_introVars /\ [BoardNext]_boardVars
        /\ [StructNext]_structVars /\ [MapNext]_mapVars
    BY DEF Next, designVars
  <2>2. QED
    BY <2>1, IntroStep, BoardStep, PreviewStep, StructStep, MapStep, MapTypedStep
<1>3. Inv => WellFormed
  <2> SUFFICES ASSUME Inv PROVE WellFormed
    OBVIOUS
  <2>1. IntroTypeOK /\ FetchesShared /\ LoadingHasFetch
    BY IntroShown
  <2>2. BoardTypeOK
    BY BoardInvIsEnough
  <2>3. PreviewIsOfTheBatch
    BY DEF PreviewInv
  <2>4. StructTypeOK /\ IndexOpsHaveACard
    BY StructShown
  <2>5. MapTypeOK
    BY MapTypedShown
  <2>6. QED
    BY <2>1, <2>2, <2>3, <2>4, <2>5 DEF WellFormed
<1>4. QED
  BY <1>1, <1>2, <1>3, PTL DEF Spec
===============================================================================
