------------------------------- MODULE MCSlices -------------------------------
(* One of three in each behaviour: the comparison of the schemas of two      *)
(* connections, with its handles and reads; the plan of a comparison, run on *)
(* the target; the folder that two scheduled reports share. The others stay  *)
(* in one state.                                                             *)
EXTENDS SchemaDiff, MigrationPlan, ReportFiles

VARIABLE driven

\* A second table of one plain column is enough for an index to move to and for the order of tables.
MCSchema ==
  {s \in Schema : \A c \in ColumnName : HasColumn(s, 2, c) => c = 1 /\ s.columns[2][c] = [type |-> "int", pk |-> FALSE]}
MCBare == [columns |-> [t \in TableName |-> [c \in ColumnName |-> Absent]], index |-> [i \in IndexName |-> Absent]]

\* Two reports may have one name in the other's, or none; "." is trimmed, the longest name is cut.
\* One of the files found there has the name of an old report.
MCDefinition ==
  [name : {<<"o">>, <<"n", "o">>, <<"n", "n", "o", ".">>}, format : {"csv"}, keep : {1, 2},
   pattern : {<<"name", "_", "date">>, <<"date", "_", "name">>, <<"r">>}]
MCStray ==
  {{[stem |-> <<"x", "_", "1">>, format |-> "csv"], [stem |-> <<"o", "_", "1">>, format |-> "json"],
    [stem |-> <<"o", "_", "0">>, format |-> "csv"]}}
\* A folder that only the two reports write to.
MCNoStray == {}
MCDay == <<"1", "2", "3">>
MCPlain == [name |-> <<"o">>, format |-> "csv", keep |-> 1, pattern |-> <<"r">>]

SlicesInit ==
  /\ driven \in {"compare", "plan", "reports"} /\ DiffInit /\ refused = FALSE
  /\ \/ driven = "plan" /\ planSource \in MCSchema /\ planTarget \in MCSchema /\ rounds = 0
     \/ driven # "plan" /\ planSource = MCBare /\ planTarget = MCBare /\ rounds = 2
  /\ FilesInit /\ (driven = "reports" \/ (defs = [r \in Report |-> MCPlain] /\ files = {}))

SlicesNext ==
  \/ driven = "compare" /\ DiffNext /\ UNCHANGED <<planVars, fileVars, driven>>
  \/ driven = "plan" /\ Migrate /\ UNCHANGED <<diffVars, fileVars, driven>>
  \/ driven = "reports" /\ FilesNext /\ UNCHANGED <<diffVars, planVars, driven>>

SlicesSpec == SlicesInit /\ [][SlicesNext]_<<diffVars, planVars, fileVars, driven>>

\* Types, and that a comparison releases the connections it opened and no other (handles.ts).
WellFormed == DiffTypeOK /\ HandlesReleased /\ FilesTypeOK
===============================================================================
