--------------------------- MODULE WorkloadModels ---------------------------
(***************************************************************************)
(* The workload models of the engine: trainings write the parts of a model *)
(* to files of their own, one after another, and classifications read them *)
(* back, one after another, in other threads.                              *)
(*                                                                         *)
(* A data set is a set of rows <<workload type, application>>.  A label is *)
(* the place of a name in the sorted list of the names of a data set, and  *)
(* means nothing without the encoder made of the same data set.            *)
(***************************************************************************)
EXTENDS Integers, Sequences, FiniteSets, FiniteSetsExt, SequencesExt, Functions

CONSTANTS
    Shipped,        \* the data set of the models in the package
    Trainings,      \* the trainings that may be asked for: the model, the directory its
                    \* data set is extracted to, and its rows
    MaxJobs,        \* trainings of a run (a bound)
    Types, Apps,    \* all workload types and applications, sorted
    SampleCounts    \* lengths of the data to classify

VARIABLES
    pickles,        \* <<model, part>> -> the rows it was made of
    dirs,           \* directory -> rows extracted into it
    jobs,           \* the trainings, in the order they were asked for
    sound,          \* models whose last training wrote all parts, alone (history)
    request         \* a classification

modelVars == <<pickles, dirs, jobs, sound, request>>

\* generate_models.py trains the models of the package; a model of a user has
\* a name of its own, and its files are named after it.
BuiltIn == "builtin"

TypesOf(rows) == SelectSeq(Types, LAMBDA t : \E r \in rows : r[1] = t)
AppsOf(rows) == SelectSeq(Apps, LAMBDA a : \E r \in rows : r[2] = a)
Group(rows, type) == {r \in rows : r[1] = type}
HasBothTypes(rows) == Group(rows, "default") # {} /\ Group(rows, "throughput") # {}

\* The package has a classifier for each type that is looked for.
ASSUME ModelsAssumption == HasBothTypes(Shipped) /\ SampleCounts \subseteq Nat \ {0}

-----------------------------------------------------------------------------
(* Training                                                                *)

\* What train and retrain dump, in this order; train only for the types there are.
PartsOfTrain(rows) ==
    <<"tencoder", "aencoder", "scaler", "total">>
    \o (IF Group(rows, "default") # {} THEN <<"default">> ELSE <<>>)
    \o (IF Group(rows, "throughput") # {} THEN <<"throughput">> ELSE <<>>)
PartsOfRetrain == <<"scaler", "encoder", "model">>

\* (mutation) the encoder of the user's models is one file
SharedEncoder(model, part) == <<IF part = "encoder" THEN "" ELSE model, part>>
FileOf(model, part) == <<model, part>>
\* A file is written, or a part is read.
With(f, x, rows) == [y \in DOMAIN f \cup {x} |-> IF y = x THEN rows ELSE f[y]]

\* ProfileServer.Training sends the archive first; generate_models.py has the
\* rows in a directory of its own.
StartTraining(t) ==
    /\ Len(jobs) < MaxJobs
    /\ jobs' = Append(jobs, [pc |-> IF t.model = BuiltIn THEN "parse" ELSE "extract",
                             model |-> t.model, dir |-> t.dir, rows |-> t.rows,
                             todo |-> <<>>, begun |-> FALSE, alone |-> FALSE])
    /\ UNCHANGED <<pickles, dirs, sound, request>>

\* The archive is extracted over what is there: two data sets whose last names
\* are the same share a directory.
Extract(j) ==
    /\ jobs[j].pc = "extract"
    /\ dirs' = [dirs EXCEPT ![jobs[j].dir] = @ \cup jobs[j].rows]
    /\ jobs' = [jobs EXCEPT ![j].pc = "parse"]
    /\ UNCHANGED <<pickles, sound, request>>

\* No csv to read is an error: another training has removed the directory.
Parsing(j) ==
    LET job == jobs[j]
        rows == IF job.model = BuiltIn THEN job.rows ELSE dirs[job.dir]
    IN  /\ job.pc = "parse"
        /\ jobs' = [jobs EXCEPT ![j] =
              IF rows = {} THEN [job EXCEPT !.pc = "failed"]
              ELSE [job EXCEPT !.pc = "dump", !.rows = rows, !.alone = TRUE,
                       !.todo = IF job.model = BuiltIn THEN PartsOfTrain(rows)
                                ELSE PartsOfRetrain]]
        /\ UNCHANGED <<pickles, dirs, sound, request>>

\* Who of the others has begun to write the same model and has not ended.
Writing(j) ==
    {i \in DOMAIN jobs \ {j} : jobs[i].model = jobs[j].model /\ jobs[i].pc = "dump" /\ jobs[i].begun}

\* A support vector machine needs two classes; retrain turns the last label of
\* a single class into a second one.
Fits(job) == Head(job.todo) = "throughput" => Cardinality(Group(job.rows, "throughput")) > 1
\* The classifier of a type that the rows do not have is left as it was.
Whole(job) ==
    job.model = BuiltIn => HasBothTypes(job.rows)
Dump(j) ==
    LET job == jobs[j]
        alone == job.alone /\ Writing(j) = {}
        last == Len(job.todo) = 1
    IN  /\ job.pc = "dump" /\ Fits(job)
        /\ pickles' = With(pickles, FileOf(job.model, Head(job.todo)), job.rows)
        /\ jobs' = [i \in DOMAIN jobs |->
              IF i = j THEN [job EXCEPT !.todo = Tail(@), !.begun = TRUE, !.alone = alone,
                                        !.pc = IF last THEN "remove" ELSE "dump"]
              ELSE IF i \in Writing(j) THEN [jobs[i] EXCEPT !.alone = FALSE] ELSE jobs[i]]
        /\ sound' = [sound EXCEPT ![job.model] = last /\ alone /\ Whole(job)]
        /\ request' = [request EXCEPT !.clean = @ /\ request.model # job.model]
        /\ UNCHANGED dirs

\* The classes may be too few in the part of the rows the machine is fitted to,
\* or the rows too few to be split.
FitFails(j) ==
    /\ jobs[j].pc = "dump" /\ Head(jobs[j].todo) \in {"model", "throughput"}
    /\ jobs' = [jobs EXCEPT ![j].pc = "failed"]
    /\ UNCHANGED <<pickles, dirs, sound, request>>

\* Training.post removes the data set, and fails if it is gone.
RemoveDataSet(j) ==
    LET job == jobs[j]
    IN  /\ job.pc = "remove"
        /\ IF job.model = BuiltIn THEN dirs' = dirs /\ jobs' = [jobs EXCEPT ![j].pc = "done"]
           ELSE /\ dirs' = [dirs EXCEPT ![job.dir] = {}]
                /\ jobs' = [jobs EXCEPT ![j].pc = IF dirs[job.dir] = {} THEN "failed" ELSE "done"]
        /\ UNCHANGED <<pickles, sound, request>>

-----------------------------------------------------------------------------
(* Classification                                                          *)

\* votes: samples to which the classifier gave the answer, by the labels of its
\* own data set, or which it gave a label of no application (history).
NoRequest == [pc |-> "idle", model |-> "", todo |-> <<>>, got |-> <<>>, clean |-> FALSE,
              samples |-> 0, type |-> "", typeVotes |-> 0, answer |-> "", votes |-> 0]

PartsOfIdentify == <<"scaler", "tencoder", "aencoder", "total", "default", "throughput">>
PartsOfReidentify == <<"scaler", "encoder", "model">>

Classify(m) ==
    /\ request.pc \in {"idle", "answered", "error"}
    /\ request' = [NoRequest EXCEPT !.pc = "load", !.model = m, !.clean = sound[m],
                      !.todo = IF m = BuiltIn THEN PartsOfIdentify ELSE PartsOfReidentify]
    /\ UNCHANGED <<pickles, dirs, jobs, sound>>

\* A file that is not there is an error.
Load ==
    /\ request.pc = "load"
    /\ LET part == Head(request.todo)
           file == FileOf(request.model, part)
       IN  request' =
             IF file \notin DOMAIN pickles THEN [request EXCEPT !.pc = "error"]
             ELSE [request EXCEPT !.todo = Tail(@), !.got = With(@, part, pickles[file]),
                                  !.pc = IF Len(request.todo) = 1 THEN "predict" ELSE "load"]
    /\ UNCHANGED <<pickles, dirs, jobs, sound>>

\* Counter(...).most_common(1): the first of the most frequent.
Count(s, x) == Cardinality({i \in DOMAIN s : s[i] = x})
MostCommon(s) == s[Min({i \in DOMAIN s : \A k \in DOMAIN s : Count(s, s[i]) >= Count(s, s[k])})]

\* Labels mean names, each its own; one that the encoder does not have is an error.
Labels(names) == 0..Len(names) - 1
Known(labels, names) == Range(labels) \subseteq Labels(names)
Meaning(label, names) == IF label \in Labels(names) THEN names[label + 1] ELSE "none"
\* The samples whose label means a name.
Meant(labels, names, name) == Cardinality({i \in DOMAIN labels : Meaning(labels[i], names) = name})

\* The type first; too few votes for one are an answer.
IdentifyType ==
    /\ request.pc = "predict" /\ request.model = BuiltIn /\ request.samples = 0
    /\ LET names == TypesOf(request.got["tencoder"])
           own == TypesOf(request.got["total"])
       IN  \E n \in SampleCounts : \E labels \in [1..n -> Labels(own)] :
              LET type == Meaning(MostCommon(labels), names)
                  few == 2 * Count(labels, MostCommon(labels)) < n
              IN  request' =
                    IF ~Known(labels, names) THEN [request EXCEPT !.pc = "error"]
                    ELSE IF few
                    THEN [request EXCEPT !.pc = "answered", !.samples = n, !.answer = "default"]
                    ELSE [request EXCEPT !.samples = n, !.type = type,
                                         !.typeVotes = Meant(labels, own, type)]
    /\ UNCHANGED <<pickles, dirs, jobs, sound>>

\* (mutation) half of the votes is enough
HalfIsEnough(labels, name) ==
    IF 2 * Count(labels, MostCommon(labels)) >= Len(labels) THEN name ELSE "default"
Majority(labels, name) ==
    IF 2 * Count(labels, MostCommon(labels)) > Len(labels) THEN name ELSE "default"
Answer(n, labels, own, names) ==
    LET app == Meaning(MostCommon(labels), names)
    IN  request' =
          IF ~Known(labels, names)
          THEN [request EXCEPT !.pc = "error", !.votes = Meant(labels, own, "none")]
          ELSE [request EXCEPT !.pc = "answered", !.samples = n,
                               !.answer = Majority(labels, app), !.votes = Meant(labels, own, app)]

\* The classifiers of a type know the applications of its group only; every
\* type but throughput_performance is left to that of the default type.
Classifier == IF request.type = "throughput" THEN "throughput" ELSE "default"
AppLabels(rows, type) ==
    {l \in Labels(AppsOf(rows)) : <<type, AppsOf(rows)[l + 1]>> \in rows}
IdentifyApp ==
    /\ request.pc = "predict" /\ request.samples > 0
    /\ LET rows == request.got[Classifier]
       IN  \E labels \in [1..request.samples -> AppLabels(rows, Classifier)] :
              Answer(request.samples, labels, AppsOf(rows), AppsOf(request.got["aencoder"]))
    /\ UNCHANGED <<pickles, dirs, jobs, sound>>

\* A model of a single application has a label that its encoder does not know.
ModelLabels(rows) == 0..Max({1, Len(AppsOf(rows)) - 1})
Reidentify ==
    /\ request.pc = "predict" /\ request.model # BuiltIn
    /\ LET rows == request.got["model"]
       IN  \E n \in SampleCounts : \E labels \in [1..n -> ModelLabels(rows)] :
              Answer(n, labels, AppsOf(rows), AppsOf(request.got["encoder"]))
    /\ UNCHANGED <<pickles, dirs, jobs, sound>>

-----------------------------------------------------------------------------
UserModels == {t.model : t \in Trainings} \ {BuiltIn}

ModelInit ==
    /\ pickles = [f \in {BuiltIn} \X Range(PartsOfTrain(Shipped)) |-> Shipped]
    /\ dirs = [d \in {t.dir : t \in Trainings} |-> {}]
    /\ jobs = <<>>
    /\ sound = [m \in UserModels \cup {BuiltIn} |-> m = BuiltIn]
    /\ request = NoRequest

ModelNext ==
    \/ \E t \in Trainings : StartTraining(t)
    \/ \E j \in DOMAIN jobs : Extract(j) \/ Parsing(j) \/ Dump(j) \/ FitFails(j) \/ RemoveDataSet(j)
    \/ \E m \in UserModels \cup {BuiltIn} : Classify(m)
    \/ Load \/ IdentifyType \/ IdentifyApp \/ Reidentify

-----------------------------------------------------------------------------
(* When the trainings of a model have not failed, have not overlapped, have *)
(* written every part of it, and none wrote while a classification with it  *)
(* read, then that classification                                           *)
(* says an application only if the classifier it read, with the labels of   *)
(* the data set it was trained with, gave that application to more than     *)
(* half of the samples; for the models of the package, one of the type that *)
(* half of the samples have; and it fails only for a label that stands for  *)
(* no application (retrain, reidentify, identify).                          *)
AnswerFounded ==
    request.clean =>
        /\ request.pc = "answered" /\ request.answer # "default" =>
             /\ 2 * request.votes > request.samples
             /\ request.model = BuiltIn =>
                  /\ <<Classifier, request.answer>> \in request.got[Classifier]
                  /\ 2 * request.typeVotes >= request.samples
        /\ request.pc = "error" => request.model # BuiltIn /\ request.votes > 0
=============================================================================
