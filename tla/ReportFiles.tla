----------------------------- MODULE ReportFiles -----------------------------
(* What scheduled reports leave in a folder they share: the name each run    *)
(* gives its file and the pruning of older ones, features/schedules, domain  *)
(* and application. A name is a sequence of symbols, "." the one that is     *)
(* trimmed at both ends; a pattern is a sequence of "name", "date" and       *)
(* literal symbols ({{env}} is one). A run that fails writes nothing.        *)
EXTENDS Integers, Sequences, SequencesExt, Selections

CONSTANTS Report,      \* the schedules that write to the folder
          Definition,  \* what a schedule may say: name, pattern, format, keep
          Day,         \* the symbols of the days, in order
          Stray,       \* names of files somebody else may have put there
          MaxStem,     \* the longest name, in symbols
          LastNow,     \* bound: instants, two a day
          MaxClockBacks  \* bound: how often the clock is set back

\* At least one report is to be kept (validation_error); a name is a sequence, and a file found
\* in the folder has none that is too long.
ASSUME FilesAssumption ==
  /\ \A d \in Definition :
       d.keep \in Nat \ {0} /\ d.name \in Seq(ToSet(d.name)) /\ d.pattern \in Seq(ToSet(d.pattern))
  /\ \A s \in Stray : IsFiniteSet(s) /\ \A f \in s : Len(f.stem) <= MaxStem
  /\ MaxStem \in Nat \ {0} /\ LastNow \in Nat /\ MaxClockBacks \in Nat

VARIABLES defs,       \* what each schedule says
          files,      \* the folder: names and times of modification
          instant,    \* the clock
          clockBacks,
          written     \* history: what each schedule wrote, the newest last

fileVars == <<defs, files, instant, clockBacks, written>>

(* domain/mod.rs *)

\* Dots go at both ends, then the name is cut, and an empty one is replaced.
Sanitized(s) ==
  LET kept == {i \in 1..Len(s) : s[i] # "."}
      inner == IF kept = {} THEN <<>> ELSE SubSeq(s, Min(kept), Max(kept))
  IN IF inner = <<>> THEN <<"export">> ELSE SubSeq(inner, 1, Min({Len(inner), MaxStem}))

OutputFilename(d, t) ==
  LET piece(p) == IF p = "name" THEN d.name ELSE IF p = "date" THEN <<Day[t \div 2 + 1]>> ELSE <<p>>
  IN [stem |-> Sanitized(FlattenSeq([i \in DOMAIN d.pattern |-> piece(d.pattern[i])])), format |-> d.format]

\* The runs of text between the dates.
FixedFilenameParts(d) ==
  LET grow(parts, p) ==
        IF p = "date" THEN Append(parts, <<>>)
        ELSE [parts EXCEPT ![Len(parts)] = @ \o (IF p = "name" THEN d.name ELSE <<p>>)]
  IN SelectSeq(FoldLeft(grow, << <<>> >>, d.pattern), LAMBDA q : q # <<>>)

\* Where a part first occurs in a text, 0 if nowhere.
Find(part, text) ==
  LET at == {k \in 1..(Len(text) - Len(part) + 1) : SubSeq(text, k, k + Len(part) - 1) = part}
  IN IF at = {} THEN 0 ELSE Min(at)

OwnsFilename(d, f) ==
  LET parts == FixedFilenameParts(d)
      search(left, part) ==
        LET at == Find(part, left.text)
        IN IF at = 0 THEN [ok |-> FALSE, text |-> <<>>]
           ELSE [left EXCEPT !.text = SubSeq(@, at + Len(part), Len(@))]
  IN /\ f.format = d.format /\ parts # <<>>
     /\ FoldLeft(search, [ok |-> TRUE, text |-> f.stem], parts).ok

(* application/mod.rs *)

\* Bug variant of Excess: sorted the other way, the newest go.
ExcessNewest(d, fs) ==
  LET owned == {f \in fs : OwnsFilename(d, f.file)}
      count == Cardinality(owned) - d.keep
  IN IF count <= 0 THEN {{}}
     ELSE {gone \in kSubset(count, owned) : \A g \in gone : \A f \in owned \ gone : g.time >= f.time}

\* What a run prunes of the files fs: the oldest that d owns, beyond the ones to keep. Two of one
\* time are told apart by their names; here either may go.
Excess(d, fs) ==
  LET owned == {f \in fs : OwnsFilename(d, f.file)}
      count == Cardinality(owned) - d.keep
  IN IF count <= 0 THEN {{}}
     ELSE {gone \in kSubset(count, owned) : \A g \in gone : \A f \in owned \ gone : g.time <= f.time}

Names(fs) == {f.file : f \in fs}

\* query_and_write: the report, in place of one of the same name, then the pruning.
RunReport(r) ==
  LET file == OutputFilename(defs[r], instant)
      fs == {f \in files : f.file # file} \cup {[file |-> file, time |-> instant]}
  IN /\ instant < LastNow
     /\ \E gone \in Excess(defs[r], fs) : files' = fs \ gone
     /\ written' = [written EXCEPT ![r] = Append(OnlyIn(@, ToSet(@) \ {file}), file)]
     /\ instant' = instant + 1
     /\ UNCHANGED <<defs, clockBacks>>

NightPasses ==
  /\ instant + 2 <= LastNow /\ instant' = instant + 2
  /\ UNCHANGED <<defs, files, clockBacks, written>>

ClockBack ==
  /\ clockBacks < MaxClockBacks /\ clockBacks' = clockBacks + 1
  /\ instant >= 2 /\ instant' = instant - 2
  /\ UNCHANGED <<defs, files, written>>

\* What somebody else put there is older than any report.
FilesInit ==
  /\ defs \in [Report -> Definition]
  /\ \E s \in Stray \cup {{}} : files = {[file |-> f, time |-> 0 - 1] : f \in s}
  /\ instant = 0 /\ clockBacks = 0 /\ written = [r \in Report |-> <<>>]

FilesNext == (\E r \in Report : RunReport(r)) \/ NightPasses \/ ClockBack

FilesSpec == FilesInit /\ [][FilesNext]_fileVars

(* Properties *)

FilesTypeOK ==
  /\ defs \in [Report -> Definition] /\ instant \in 0..LastNow
  /\ \A f \in files : f.time \in (0 - 1)..LastNow /\ Len(f.file.stem) <= MaxStem
  /\ \A f, g \in files : f.file = g.file => f = g

\* Whether no other schedule owns what r wrote, and r nothing another wrote.
Separate(r) ==
  \A u \in Report \ {r} :
    /\ \A i \in DOMAIN written[r] : ~OwnsFilename(defs[u], written[r][i])
    /\ \A i \in DOMAIN written[u] : ~OwnsFilename(defs[r], written[u][i])

\* As long as the clock goes forward, the newest reports of a schedule are there, as many as it
\* is to keep: later runs of its own prune older ones, and those of schedules whose names it does
\* not share none (domain/mod.rs 337-390, application/mod.rs 340-379).
LastReportsKept ==
  clockBacks = 0 =>
    \A r \in Report :
      LET w == written[r]
          n == Min({defs[r].keep, Len(w)})
      IN Separate(r) => \A i \in (Len(w) - n + 1)..Len(w) : w[i] \in Names(files)

\* NOT a property of the code, although the comment at application/mod.rs 343 says so: pruning
\* deletes nothing that another schedule wrote and its own did not. The fixed text of a name is
\* looked for anywhere in a file's, so a report is taken for that of another by the end of its name.
PrunesOnlyItsOwn ==
  [][\A r \in Report : RunReport(r) =>
       \A u \in Report \ {r} :
         (Names(files) \ Names(files')) \cap Range(written[u]) \subseteq Range(written'[r])]_fileVars

\* NOT a property of the code: a run leaves its report. After the clock was set back the new file
\* is the oldest, and goes with the pruning of its own run.
RunLeavesItsReport ==
  [][\A r \in Report : RunReport(r) => OutputFilename(defs[r], instant) \in Names(files')]_fileVars

\* NOT a property of the code: no more reports stay than are to be kept. A name that was trimmed
\* or cut lacks the text its schedule is known by, and is never pruned.
KeepIsEnforced ==
  \A r \in Report : Cardinality({f \in files : \E i \in DOMAIN written[r] : written[r][i] = f.file}) <= defs[r].keep
=============================================================================
