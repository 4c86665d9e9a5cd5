----------------------------- MODULE TuningFiles -----------------------------
(***************************************************************************)
(* The files of the engine that the web pages show when there is no        *)
(* database: save_tuning_data_file writes one for each tuning line by line *)
(* and moves it when it is complete; transfer_web reads them page by page. *)
(* The threads of the engine interleave between any two accesses.          *)
(***************************************************************************)
EXTENDS Integers, Sequences, FiniteSets, FiniteSetsExt, SequencesExt, Functions

CONSTANTS
    Names,          \* prj_name of the tunings, project and id
    NewName,        \* what a finished tuning may be renamed to
    Iterations,     \* evaluations of the tasks of each tuning, its phases (feature
                    \* selection, then the search)
    AskedFor,       \* what the client asked for (MaxIter of the daemon)
    FilePage,       \* rows of an answer (10 in get_file_data)
    CsvPage,        \* lines of an answer (5 in get_analysis_csv)
    CsvLines        \* lengths of the csv of the analysis shown

ASSUME FilesAssumption ==
    /\ Iterations \in [Names -> Seq(Nat)] /\ AskedFor \in [Names -> Nat]
    /\ FilePage \in Nat \ {0} /\ CsvPage \in Nat \ {0} /\ CsvLines \subseteq Nat

VARIABLES
    files,          \* <<directory, name>> -> lines
    puts,           \* tuning -> the iteration of its next PUT, its phase, and what the
                    \* PUT under way still has to write
    reader,         \* a page, of a tuning or of an analysis
    renaming        \* renames between their test and their effect

fileVars == <<files, puts, reader, renaming>>

\* A file starts with the engine and max_iter, the evaluation of the defaults and
\* the names of the parameters.
HeaderLines == 3
Info(t, phase) == <<"info", t, phase>>
Base == <<"base">>
Params == <<"params">>
End == <<"END">>
Row(t, phase, i) == <<"row", t, phase, i>>

-----------------------------------------------------------------------------
(* Writing                                                                 *)

\* max_iter of the PUTs from iteration 0 on: InitTuned takes it from the client
\* when the search begins, so it is 0 while features are selected, and abtest,
\* gridsearch and traverse may evaluate more or less than that.
MaxIter(t, phase) == IF phase = Len(Iterations[t]) THEN AskedFor[t] ELSE 0

\* save_tuning_data_file: what a PUT writes, in this order.
SaveTuningDataFile(t, i, phase) ==
    (CASE i = -1 -> <<[op |-> "new", line |-> Info(t, phase)]>>
       [] i = 0 -> <<[op |-> "add", line |-> Base], [op |-> "add", line |-> Params]>>
       [] OTHER -> <<[op |-> "add", line |-> Row(t, phase, i)]>>)
    \o IF i = MaxIter(t, phase)
       THEN <<[op |-> "add", line |-> End], [op |-> "move", line |-> End]>>
       ELSE <<>>

\* The daemon may give a tuning up at any point, and then sends no PUT.
PutTuning(t) ==
    /\ puts[t].todo = <<>> /\ puts[t].phase <= Len(Iterations[t])
    /\ LET last == puts[t].next = Iterations[t][puts[t].phase]
       IN  puts' = [puts EXCEPT ![t] =
                      [todo |-> SaveTuningDataFile(t, @.next, @.phase),
                       next |-> IF last THEN -1 ELSE @.next + 1,
                       phase |-> IF last THEN @.phase + 1 ELSE @.phase]]
    /\ UNCHANGED <<files, reader, renaming>>

Write(f, key, lines) == [k \in DOMAIN f \cup {key} |-> IF k = key THEN lines ELSE f[k]]
Without(f, key) == [k \in DOMAIN f \ {key} |-> f[k]]
AddDataToFile(f, name, op, line) ==
    LET key == <<"running", name>>
        old == IF op = "add" /\ key \in DOMAIN f THEN f[key] ELSE <<>>
    IN  Write(f, key, Append(old, line))
\* A file of the same name in the directory is replaced.
ChangeFileName(f, name) ==
    Write(Without(f, <<"running", name>>), <<"finished", name>>, f[<<"running", name>>])

WriteLine(t) ==
    /\ puts[t].todo # <<>>
    /\ LET write == Head(puts[t].todo)
       IN  files' = IF write.op = "move" THEN ChangeFileName(files, t)
                    ELSE AddDataToFile(files, t, write.op, write.line)
    /\ puts' = [puts EXCEPT ![t].todo = Tail(@)]
    /\ UNCHANGED <<reader, renaming>>

-----------------------------------------------------------------------------
(* The page of a tuning                                                    *)

\* from: the first lines of the files that its answers were taken from.
NoReader ==
    [state |-> "closed", dir |-> "", name |-> "", line |-> 0, shown |-> <<>>, from |-> {},
     length |-> 0]

\* A file of the lists (get_type_list) is chosen.
ChooseFile(key) ==
    /\ reader.state = "closed" /\ key \in DOMAIN files
    /\ reader' = [NoReader EXCEPT !.state = "poll", !.dir = key[1], !.name = key[2]]
    /\ UNCHANGED <<files, puts, renaming>>

TuningExist(dir, name) == <<dir, name>> \in DOMAIN files
FindFileDir(name) == IF TuningExist("finished", name) THEN "finished" ELSE "unknown"

\* getTuningData first asks whether there is the file; where it went is asked
\* in another request.
TestFile ==
    /\ reader.state = "poll"
    /\ reader' = [reader EXCEPT !.state =
                    IF TuningExist(reader.dir, reader.name) THEN "open" ELSE "gone"]
    /\ UNCHANGED <<files, puts, renaming>>

GetTuningStatus ==
    /\ reader.state = "gone"
    /\ LET dir == FindFileDir(reader.name)
       IN  reader' = [reader EXCEPT !.dir = dir,
                                    !.state = IF dir = "unknown" THEN "left" ELSE "poll"]
    /\ UNCHANGED <<files, puts, renaming>>

\* A page is the rows from the line on, at most FilePage and none from END on,
\* and the line is -1 if END was seen; a file may be shorter than it was.
\* (mutation) the end of the file is taken for END
LastPage(rows, line) ==
    LET page == SelectSeq(SubSeq(rows, line + 1, Min({line + FilePage, Len(rows)})),
                             LAMBDA l : l # End)
    IN  [page |-> page, line |-> IF Len(page) < FilePage THEN -1 ELSE line + Len(page)]
GetFileData(rows, line) ==
    LET upTo == Min({n - 1 : n \in {m \in DOMAIN rows : m > line /\ rows[m] = End}}
                    \cup {line + FilePage, Max({line, Len(rows)})})
    IN  [page |-> SubSeq(rows, line + 1, upTo),
         line |-> IF upTo < line + FilePage /\ upTo < Len(rows) THEN -1 ELSE upTo]

\* The file may have moved since it was looked for: the request fails.
ReadFile ==
    /\ reader.state = "open"
    /\ IF ~TuningExist(reader.dir, reader.name)
       THEN reader' = [reader EXCEPT !.state = "left"]
       ELSE LET lines == files[<<reader.dir, reader.name>>]
                answer == GetFileData(SubSeq(lines, HeaderLines + 1, Len(lines)), reader.line)
            IN  reader' = [reader EXCEPT !.line = answer.line, !.shown = @ \o answer.page,
                                         !.from = @ \cup {lines[1]},
                                         !.state = IF answer.line = -1 THEN "end" ELSE "poll"]
    /\ UNCHANGED <<files, puts, renaming>>

-----------------------------------------------------------------------------
(* rename_tuning_file: only what is finished, only to a name not taken.    *)

TestRename(old) ==
    /\ TuningExist("finished", old) /\ ~TuningExist("finished", NewName)
    /\ renaming' = renaming \cup {old}
    /\ UNCHANGED <<files, puts, reader>>

RenameFile(old) ==
    /\ old \in renaming
    /\ files' = Write(Without(files, <<"finished", old>>), <<"finished", NewName>>,
                      files[<<"finished", old>>])
    /\ renaming' = renaming \ {old}
    /\ UNCHANGED <<puts, reader>>

-----------------------------------------------------------------------------
(* The page of an analysis: a csv that is complete, with a log beside it.  *)
(* More is asked for as long as the last answer was a full page.           *)

ChooseAnalysis(length) ==
    /\ reader.state = "closed"
    /\ reader' = [NoReader EXCEPT !.state = "sheet", !.length = length]
    /\ UNCHANGED <<files, puts, renaming>>

\* The lines that are left, at most CsvPage.
GetAnalysisCsv(length, line) == Min({CsvPage, length - line})

GetAnalysisDetails ==
    /\ reader.state = "sheet"
    /\ LET count == GetAnalysisCsv(reader.length, reader.line)
       IN  reader' = [reader EXCEPT !.line = @ + count,
                        !.state = IF count = 0 \/ count % CsvPage # 0 THEN "whole" ELSE "sheet"]
    /\ UNCHANGED <<files, puts, renaming>>

-----------------------------------------------------------------------------
FileInit ==
    /\ files = <<>>
    /\ puts = [t \in Names |-> [todo |-> <<>>, next |-> -1, phase |-> 1]]
    /\ reader = NoReader
    /\ renaming = {}

FileNext ==
    \/ \E t \in Names : PutTuning(t) \/ WriteLine(t)
    \/ \E key \in DOMAIN files : ChooseFile(key)
    \/ TestFile \/ GetTuningStatus \/ ReadFile
    \/ (\E old \in Names : TestRename(old) \/ RenameFile(old))
    \/ (\E length \in CsvLines : ChooseAnalysis(length)) \/ GetAnalysisDetails

-----------------------------------------------------------------------------
(* What a page has shown of a tuning, answer after answer, are its first    *)
(* rows, each once and in order, while the engine writes, finishes, moves   *)
(* and renames the file; at the answer -1 they are all of them up to the    *)
(* max_iter of the PUTs: all of a search that evaluates what was asked for, *)
(* and none of a feature selection, whose rows go to a file of their own    *)
(* after the end.  A page whose file was replaced, by those rows, the next  *)
(* phase of the tuning or another tuning renamed at the same time, is left  *)
(* out: it mixes the two, and the END of the second may be its end          *)
(* (get_file_data, find_file_dir, save_tuning_data_file).  The page of an   *)
(* analysis has shown the whole csv when it asks for no more                *)
(* (get_analysis_details).                                                  *)
FileReaderExact ==
    /\ \A t \in Names : \A phase \in DOMAIN Iterations[t] :
          reader.from = {Info(t, phase)} =>
             /\ \A i \in DOMAIN reader.shown : reader.shown[i] = Row(t, phase, i)
             /\ reader.state = "end" => Len(reader.shown) = MaxIter(t, phase)
    /\ reader.state = "whole" => reader.line = reader.length
=============================================================================
