# Formal models of A-Tune

A-Tune tunes a Linux machine. A daemon (`atuned`, Go) takes commands from a
client (`atune-adm`) over gRPC and uses a Python engine over REST for the
optimisation searches and for reading and setting the parameters of the machine.
This directory models, in TLA+, the two protocols of the system that change a
machine, the recording of what it does in the database of the web UI, and the
tasks of the engine; checks them with TLC on small instances; and proves with
TLAPS, for every value of the constants, every safety property that a passing run
checks but one (`RankInputsExact`), and that a session implements an abstract search.

- **Dynamic tuning**: a long conversation of client, daemon, engine service and
  a worker process that searches for the best parameters by benchmark.
- **Static tuning**: a profile is put in force, recorded in a database so that
  it can be undone, re-activated when the daemon starts, and rolled back.
- **Recording**: the two threads of an analysis, the engine of a tuning and the
  users of the web UI read and write one database at the same time.
- **The engine's tasks**: the searches engine by engine, the files of the tunings
  and the pages that read them, the training of workload models and their use.

Source paths below are relative to the root of the repository.

## 1. Inventory

| Component | State it keeps | Operations | What is hard |
|---|---|---|---|
| Tuning client `modules/client/profile/profile_tuning.go` | the phase of the conversation, the baseline and its goroutine | tuning, restore, answers to each server message, interrupt | baseline measured while the conversation runs; interrupt at any point |
| Tuning handler `modules/server/profile/profile.go` (Tuning), `common/tuning/optimizer.go` | `Optimizer` (Iter, MinEvalSum, FinalEval, ...), `ch`, `stopCh`, the server lock | InitTuned, createOptimizerTask, DynamicTuned, filterParams, RestoreConfigTuned, DeleteTask | a handler and a sender goroutine on one stream, phases that reuse one `Optimizer`, early returns |
| Engine service `analysis/engine/optimizer.py`, `utils/save_data.py`, `utils/task_cache.py` | `TasksCache`, the tuning-data file, the pipes | POST, PUT, DELETE | PUT blocks until the worker proposes |
| Worker `analysis/optimizer/optimizer.py` | the search | propose, learn, finish, fail | a process that may die |
| Project files `common/project/project.go` | objects, skip flags, relations | RunSet, MatchRelations, BenchMark, Threshold | parameters set one script at a time |
| Profile activation `common/profile`, `common/schedule/schedule.go` | one run of Backup/active/Rollback | Profile, ProfileRollback, end of Analysis | crash between any two steps; no lock |
| Monitor `common/service/monitor` | none | re-activate at start | a second crash; names of classes and of profiles |
| `common/sqlstore`, `database/init.sql` | `profile_log`, `class_profile` and lookup tables | insert, read, delete, flags | no transactions; `ProfileLog.ID` is always 0 |
| Profile loader `common/profile/loader.go` | none | include, merge | cycles of includes, order of the merge |
| Analysis `modules/server/profile/profile.go` (Analysis), `analysis/engine/transfer.py` | the pipe, its reader goroutine, the collection id of each of the two | collect, record a sample, classify, activate, log, finish | handler and goroutine both record, and each learns the id by itself; the goroutine may return early |
| Web UI database `analysis/ui/database` | its tables, some made on demand | the triggers of `trigger_*.py` | ids are the largest read plus one; tables are made outside the transaction; roll backs are swallowed |
| Search managers and feature selectors `analysis/optimizer/*_manager.py`, `*_selector.py` | what was tried and what it gave | the plan of each engine, its best, the rank of the knobs | attribution of an evaluation to the right setting; restart from a log; processes joined before their queues are read |
| Workload models `analysis/optimizer/workload_characterization.py`, `analysis/engine/train.py`, `classification.py` | a file for each part of a model, a directory for each data set | train, retrain, identify, reidentify | the parts are replaced one by one while others read them |
| Files of the engine `analysis/engine/utils/save_data.py`, `analysis/engine/transfer_web.py` | a file per tuning, in one of two directories | write, move, rename, read a page | a page reads a file that grows, moves and is replaced |
| Profile definitions (Define, Delete, Update, Upgrade, Info, List) | `.conf` files and four tables | create, read, update, delete | file and rows changed one after the other |
| Scheduling policies `common/schedule`, `common/sched` | singleton manager, running policy | New, Submit, Start, cancel | replacing a running policy |
| Load, topology, cpumask `common/sysload`, `common/topology`, `common/cpumask` | counters | sample, bit operations | word boundaries |
| Cluster tuning (`syncConfigToOthers`, `SyncTunedNode`) | per node | nested Tuning requests | every node's lock is needed |
| Anomaly detection, detection of misclassified data, checkers, tools | - | - | outside the protocols above, or numeric |

`PROJECT.json` lists every component with its status, and every hazard of the
code with the line where it bites and the properties aimed at it.

### How they interact

    atune-adm  <== gRPC stream ==>  atuned  == REST ==>  engine service  == Pipe ==>  worker
                                       |
                                       +-- set / get scripts, configurator REST --> the machine
                                       +-- sqlite: profile_log, class_profile

    atuned: Analysis ==  pipe  ==> reader goroutine == REST ==> engine: transfer
               |                                                   |
               +-- REST: classification, "finished", log --------> |
                                        engine: optimizer (PUT) -> | triggers
                                        web browser == REST =====> |
                                                              web UI database

For a direct search the client sends JobInit, the daemon backs up the parameters,
asks the client for JobCreate (which carries the baseline), creates a task in
the engine (POST, which starts a worker), and then loops: PUT an evaluation, get
the next proposal, set its parameters, ask the client for a benchmark. With
feature selection this is repeated for a number of cycles in which the most
important parameters are kept, before the search proper.

## 2. The modules

| Module | Models | Extends |
|---|---|---|
| `TuningVars` | the constants, variables and messages shared by the processes of a session | - |
| `TuningClient` | `profileTunning`: every message handler, the baseline goroutine, restore, interrupt | `TuningVars` |
| `TuningServer` | the Tuning handler, its sender goroutine, every step of `Optimizer` | `TuningVars` |
| `OptimizerService` | POST, PUT, DELETE of the engine, `save_tuning_data_file`, the worker | `TuningVars` |
| `TuningSession` | their composition, fairness, the properties | the three above |
| `TuningLoop` | what a search promises, without saying how: the abstract specification | - |
| `TuningSessionProofs` | theorems about one moment of a session: types, the turn, the pipe, the parameters | `TuningSession`, TLAPS |
| `TuningLoopProofs` | theorems about its course: the baseline, the restore file, the slice of filterParams, the best, the data file, the refinement of `TuningLoop` | `TuningSessionProofs` |
| `MCTuning` | instances for TLC | `TuningSession` |
| `ProfileActivation` | Profile, ProfileRollback, the activation of Analysis, the monitor, crash and restart | - |
| `ProfileActivationProofs` | theorems about it | `ProfileActivation`, TLAPS |
| `MCProfile` | instances for TLC | `ProfileActivation` |
| `UiTables` | the tables of the web UI database as functions from keys to rows, what `table_*.py` reads and inserts | - |
| `UiTriggers` | the triggers that change it, their constraints and roll backs, the lists | `UiTables` |
| `UiDatabase` | sessions of the engine, the analysis command, the tunings that report, the web users and a viewer | `UiTriggers` |
| `UiDatabaseProofs` | theorems about the tables: types, keys, commands, emails, totals, the log | `UiDatabase`, `SequenceLemmas` |
| `UiRunsProofs` | theorems about what is recorded of a run and listed of it: rows, ends, rounds, pages | `UiDatabaseProofs` |
| `MCUi` | instances for TLC | `UiDatabase` |
| `SearchEngines` | the worker of a search, engine by engine, feature selection, loss and restart | - |
| `TuningFiles` | the files of the tunings and the pages that show them | - |
| `WorkloadModels` | trainings and classifications that overlap | - |
| `EngineTasks` | the three as tasks that share no state | the three above |
| `EngineTasksProofs` | theorems about each of the three: the best of a search, pages, answers | `EngineTasks`, `SequenceLemmas` |
| `SearchPlanProofs` | theorems about what each engine tries and how it ranks | `EngineTasksProofs` |
| `SequenceLemmas` | lemmas about numbers, finite sets, sequences, folds and concatenations that the proofs share | TLAPS |
| `MCEngine` | instances for TLC | `EngineTasks` |

### The tuning session

`hpc`, `cpc`, `wpc` and `http` say where the handler, the client, the worker and
the REST request in progress are. The variables of the handler are the fields of
`Optimizer` (`iter`, `minEval`, `finalEval`, `taskURL`, ...). An action is one
piece of a handler between two points at which another process may act: a
send on `ch` (blocking until the goroutine takes it), a request to the
engine, a receive. So `Evaluate` is `evalParsing` and what DynamicTuned does up
to the PUT, `Answer` what it does with the reply, `Apply` the setting of the
parameters with everything up to the send of BenchMark.

What is abstracted: a knob's value is a model value; what the client measured is
an integer sum; a proposal of the worker is any assignment to the active knobs;
the rank of feature selection is any order, and whether evaluations fluctuated
enough to drop a parameter is left open. Messages that only print (Display,
Detail, the progress of the engine) are left out, except the Display of the
final result. `start`, `results` and `sessions` are history: they read what the
processes do and no process reads them.

Failures (`Faults`): the client is interrupted (`abort`), a benchmark fails, the
project of the request does not match, a set script fails after some knobs were
set, the objective raises, the worker dies without a message.

### Profile activation

Each worker (a command of a user, or the monitor) has a `pc` in its run of
Rollback, Backup and active, and local state for the loop it is in: the row it
read (`todo`), the keys left (`keys`), the buffer (`saved`). One GET or PUT of one
parameter is one step, so a crash or another command may come between any two.
A Go map or an ini section fixes the order of the keys; the model lets it be any.

`profile_log` is one row: `ProfileLog.ID` is tagged `xorm:"id"`, which does not
make it an autoincrement key for xorm, so each row is inserted with ID 0, the
primary key refuses a second row, and a deletion by ID takes whatever row there
is. `active` is set by ProfileRollback only, and cleared again right after.

Failures (`Faults`): a GET of Backup, a PUT of active, a PUT of Resume, a request
to the database, the creation or removal of the backup directory. `Serial` says
that users wait for one command, and for the start of the daemon, before the next
one; nothing in the code enforces it.

After it has activated a profile, Analysis goes on with rule tuning, which is not
modelled. Backup skips the section `[bios]` (profile.go:143), while active hands its
keys to the engine as those of any other section (schedule.go:226-237): if the engine
can set one, no rollback restores it. The keys of the model are those of the other
sections.

### The web UI database

A table is a function from its key to its rows. A trigger (one function of
`trigger_*.py`) is an operator of the database `s` its session has read, the
database `d` it commits to, and its arguments; it returns the database after it,
its answer and whether the request ends with an error. A key already taken, or a
value a constraint refuses, rolls the whole session back, and most triggers then
answer as if nothing had happened. `TableMade` is what a roll back does not undo:
`metadata.create_all` uses a connection of its own.

A client (handler and reader goroutine of an analysis, a tuning, a web session)
has one request under way, a sequence of triggers. Those whose outcome another
session can change between their reads and their commit are two steps,
`OpenSession` and `CommitSession` (the set `Racing`); the others take effect as if
at one moment: they change only rows that no other session changes, or lock the
row they change before they count (`change_collection_status` updates the status
first). Two things of the code are easily missed and are modelled as they are: the
answer to the last line of a log is a roll back, as there is no column
`total_log`; and the command of a tuning or an analysis is found by the id it maps
to.

An analysis has a handler that runs the collector pass after pass and then
classifies, and a goroutine that reads the named pipe and records a row for each
sample. Each learns the id of the collection from its own first answer, so the
handler may have none and make another. The collector closes the pipe (`ClosePipe`)
before it stores the samples and answers, and only after the answer the handler
clears `subProcess` (`Collected`). So the goroutine can see the end of the last pass
while `subProcess` is still set (`PassEnds`): it takes it for the end of an earlier
pass, opens the pipe again (`ReopenPipe`), which blocks for ever or fails, as the
handler removes the pipe in the end, and never sends "finished" itself. The goroutine
never closes a descriptor: after it has returned, or opens the pipe again, the old one
stays open until it is collected, so that the collector may or may not find a reader
(`Unread`), and may write rows of the next pass that nobody reads (`OpenPipe`). The viewer polls collection 1; its rows of samples
are counted, not claimed exact, since the number it is told to go on from is the
length of the page. The route `ui_role` is not registered by AppUI, so that
its triggers (roles, deletion of users) cannot run and are left out.
The viewers of tunings are left out too: `get_tuning_data` reads a table
`tuning_<id>` with a header in round 0 (trigger_tuning.py:282,
table_tuning_data.py), while the rounds are written to `tuning_<project>` with a
header in round -1 (lines 74 and 101), so that the page finds nothing.

### The engine's tasks

`part` picks the task of a behaviour; the tasks share nothing.

*SearchEngines.* A knob has options, items, a range and a default; a setting is a
sequence of values. `Start...` are the beginnings of `Optimizer.run` for each
engine: abtest sweeps one knob after another, gridsearch lists all combinations,
traverse the default and then one knob at a time, lhs draws all its samples, and
the others ask call by call. What skopt, hyperopt, lhsmdu and stable_baselines3
propose is any setting of the space they are given. `Lose` is a worker that stops
with the daemon or the engine and is started again from the log of its
evaluations. The order of a `set` that mixes texts and numbers changes from
process to process, so that a restarted gridsearch may try other combinations:
`CoversSpace` claims nothing for such knobs.

A space that cannot be built is an error that is sent (`Unbuildable`, and for skopt
`Disordered`: a list of two numbers is read as the bounds of a range). What tpe
evaluates of a continuous knob of whole numbers is the whole part of the number drawn,
and what it reports is that number: the fraction is drawn when it first matters, in
`Cuts`. ppo reports its best inside a second "param" (`nested`). The logarithm of a
reward that is not positive makes learning from a rollout of ppo fail, or not
(`RolloutFails`). So neither
reports a setting it evaluated; `BestOfAll` says what is left of that.

The rank of traverse is computed: `Walk` is the walk of the code over the list of
evaluations, and `RankInputsExact` says that it gives each knob the evaluations made
for it (`Lowest`, `Difference`), from which the proofs go on. The rank of the feature
selectors is any order. Their processes put their results on queues and are joined
before the queues are read: a process ends when the pipe has taken what it put
(`Flushed`), one that raises puts nothing (`RegressorFails`), and the worker then
blocks in get. An exception outside the try of run (`SelectionRaises`, and
`NothingDone` for skopt) ends the worker without a message: "crashed". Knobs of dtype
float are left out.

*TuningFiles.* Each PUT writes its lines one after another; a file is moved when
it has its `END`; a page asks where the file is, tests it and reads it in
different requests. A tuning is a sequence of phases, each a task of the engine with
so many evaluations (`Iterations`). When a file gets its `END` is decided by the
`max_iter` of the PUT (`MaxIter`), which the daemon takes from its own `MaxIter` and
not from the task: it is 0 until InitTuned has run, that is during feature selection,
and afterwards what the client asked for, while abtest, gridsearch and traverse
make as many evaluations as they have settings. So the file of a feature
selection is finished after the evaluation of the defaults, and the rows after the
`END` begin a file of their own in the directory `running`, without a title and
never ended; the next phase replaces it. `from` is history: the first lines of the
files the answers of a page were taken from. A page whose file was replaced under it
mixes two files, and the `END` it sees may be that of the second;
`FileReaderExact` speaks of the pages with a single `from`. A restarted search,
whose data file begins at its last iteration, is left out here.

*WorkloadModels.* A part of a model is the rows it was made of (`With` replaces
one); a label means a name only with the encoder of the same rows. A classifier
answers with any labels it has been trained with. `sound`, `clean` and `votes` are
history. The package's models are retrained in place, and rows that lack a type
train no classifier of it: the old one stays beside the new encoder. A training
therefore counts as sound only if it is `Whole`, has replaced every part; without
it `AnswerFounded` is violated by a training and a classification one after
the other.

### Operators only the mutation tests use

Some definitions are a plausible wrong version of the one that follows them
(`SetSkipped`, `Resend`, `NoReset`, `NoWait`, `NeverBackup`, `AfterIteration`,
`OneCallMore`, `EarlyEnd`, `BaselineToo`, `FromTheSecond`, `LargestWins`,
`TooFewIgnored`, `AnswerWithoutSum`, `LoadedName`, `LoadedByClass`, `DropAtOnce`,
`InsertAtOnce`, `AnyRow`, `MaxCidAsRead`, `OffsetOne`, `OnlyIdFree`,
`NoTransaction`, `IdAnyway`, `SetRunning`, `OneRoundEarly`, `SaidNothing`,
`EndsAtPass`, `FromLastLine`, `SweepFromFirst`, `ExpandTogether`,
`ShortVisit`, `BothAscending`, `BestParamsMax`, `OneQueue`, `LastPage`, `SharedEncoder`,
`HalfIsEnough`). Nothing else refers to them. Each property of a
passing run is violated when one of them takes the place of the definition it
imitates (`PROJECT.json`, "mutants"), so no property holds by the shape of the
model alone.

## 3. What the runs check

### Passing

| Run | What it covers | Bounds |
|---|---|---|
| `search` | A direct search and a restore, in any order, two commands. Evaluations stay with their parameters (`MeasuredAsAsked`), the baseline is of the user's configuration (`BaselineUntouched`), one evaluation is under way (`OneTurn`), handler and worker are in step (`PipeInStep`), the best is left in force (`FinalIsBest`), the restore file undoes tuning (`RestoreFileIsInitial`), no search outlives its session (`NoOrphanSearch`), iterations and rows are as asked (`IterationsBounded`, `FinishedDataComplete`), and the session implements `TuningLoop`. | 2 knobs of 2 values, 2 evaluations, 4 iterations asked and 3 allowed, so that the cap of maxiterations works |
| `live` | Two cycles of feature selection, then the search; or a restore. `SessionEnds` under fairness, `FinalIsBest` across phases, `NoPanic`. | 3 knobs, 2 kept per cycle: after one cycle too few are left to select from |
| `faults` | Everything fails, proposals violate a relation, the worker dies, more parameters are to be kept than exist. | 2 knobs, 2 iterations, one cycle |
| `profile_serial` | Commands one after the other, crashes anywhere. What is changed is recorded first (`Undoable`), a completed activation is exact (`ActivationExact`), a profile survives a restart (`BootKeepsProfile`). | 3 commands, 2 crashes: the second may hit the re-activation after the first; two profiles that overlap in one of 3 parameters, from every initial configuration |
| `profile_overlap` | Two clients and the monitor at once with every failure: `RowKept`. | 1 parameter that both profiles set, 2 commands, 1 crash |
| `ui_database` | What is recorded is whole and of one run, whoever else reads and writes: a command for each run (`OneCommandPerRun`), samples and rounds of one run in order (`RowsOfOneRun`), an ended analysis marked finished with its exact count (`EndedIsExact`), never less than before (`TotalGrows`), a tuning finished only with its last round there (`FinishedHasLastRound`), the log shown without gap or repetition (`LogReaderExact`), lists that agree with their counts (`ListsAgree`), one account per email (`UniqueEmail`), and a handler of an analysis that ends (`AnalysisEnds`), whenever the goroutine saw the end of the pipe. | Eight workloads: two analyses of two daemons; an analysis of 2 lines of log with a viewer; one of 2 passes that fails or not; one beside a tuning; one beside a web user; two tunings of one project; a tuning beside two web sessions; two web sessions. 1 sample per pass, 2 rounds, 2 web requests together, pages of 1 line |
| `engine_tasks` | Every engine tries what it should, restarts included (`CoversSpace`), all but traverse and ppo report their best (`BestOfAll`), abtest ends with the best of what it kept (`DescentIsBest`), the walk of traverse gives each knob its own evaluations (`RankInputsExact`) and ranks are fair (`RankSound`), searches end, or wait for a process of the feature selector that put nothing or too much (`SearchEnds`); pages show a tuning's rows once and in order (`FileReaderExact`); an answer of a classification has the votes for it (`AnswerFounded`). | 21 searches of 1 to 3 knobs, among them one with gaps in its range, one without a default, one that mixes texts and numbers, some without a range or a bound; evaluations -1 to 1, 2 evaluations asked, 2 splits, 1 restart. A pipe takes 4 numbers, the feature selection after a gridsearch has 6. A tuning of 3 rows after a feature selection of 1, another that asks for 1 row and makes 2, pages of 2 rows. 2 trainings out of 4, 3 applications, 2 or 3 samples |

The bounds are small because the properties relate two evaluations, two phases,
two profiles or two commands at a time: a third adds no new case of who holds
the turn, which minimum is compared, or which row is replaced. Symmetry is used
in `search` only (permutations of knobs and of values, which no constant or
property of that run tells apart, and no liveness is checked there).

In `ui_database` two sessions race for an id, an email or a table at a time, and
pages of one line make every list longer than its page. In `engine_tasks` three
values of an evaluation tell smaller, equal and larger apart, and two knobs before
or after another are enough to attribute an evaluation to the wrong one; 2 of 3
samples are a majority, 1 of 2 is not.

`CHECK_DEADLOCK FALSE` is in `ui_database` and `engine_tasks` (clients stop when
they have made their requests, a search when it has its result), in `faults` (the daemon panics in filterParams, or
waits for a dead worker) and in the two threshold runs (the session hangs): there
the system really stops. Everywhere else a state without a next step is an error,
and `Terminated` is a step only when the last command is done.

### Violations found

Each is a disagreement between the code and what a comment, the documentation or
the code itself says it does; `PROJECT.json`, "findings", quotes both.

| Run | Property | What happens |
|---|---|---|
| `threshold_hang` | `SessionEnds` | The proposal of iteration 0 violates a relation; the client answers the Threshold with an evaluation that the engine does not give to the worker (iteration 0 only opens the file). Handler and worker wait for each other, and the lock stays taken. |
| `threshold_best` | `FinalIsBest` | The first evaluation is taken as the minimum although it is a Threshold, not a measurement: what is reported as best was never benchmarked. |
| `restore_cycles` | `RestoreFileIsInitial` | From the second cycle of feature selection on, the restore file is overwritten with tuned values. |
| `profile_concurrent` | `NothingLeft` | The rollback in a second Profile command deletes the row while the first still sets parameters; a changed machine has "no profile need to rollback". |
| `profile_boot_class` | `BootKeepsActive` | After Analysis the row has the name of a class, which the monitor loads as the name of a profile: the restart rolls back and activates nothing. |

More of the same kind can be seen by changing one constant of a run, and is for
the most part listed under the hazards: `FilterIters = 0` creates a search with
nothing to do although the client's check says it must be positive; with `"resume"` in `Faults`
`NothingLeft` fails in one serial command after another, for Resume goes on after
a failure and the row is deleted; with `"path"` or `"get"` in `Faults` `Undoable`
fails, for Backup goes on too; a crash inside ProfileRollback leaves a class
marked active that is not in force; and with two clients the deletion by ID 0 can
take a row that an overlapping command has inserted. With feature selection
(`Cycles` positive) `FinishedDataComplete` fails: the data file of the first phase
is moved with no row, for its PUTs carry the `max_iter` 0 (optimizer.go:346,
save_data.py:59). With the rename of running tunings by users beside two tunings
`RowsOfOneRun` fails: a row finds its tuning by name (trigger_tuning.py:100). And
`BestOfAll` without its two exceptions fails in `engine_tasks`: the best that tpe
reports for a continuous knob has a fraction no evaluation had (tpe_optimizer.py:79
and 100, `w.final.cut = {1}` after two evaluations), and that of ppo is a setting
inside a setting (optimizer.py:362, `w.final.nested`).

What `ui_database` does not claim: `EndedIsExact` and `AnalysisEnds` exclude an
analysis one of whose rows could not be stored, although such requests are in the
model; `AnalysisEnds` lets the goroutine stay in OpenFile for ever, as the code may;
`FinishedHasLastRound` ties the last round to its own tuning only where it is the only
one; `ListsAgree` compares pages and counts of one state; and `LogReaderExact` takes
the lines of a page in the order of their insertion, which get_line does not ask for.

### Fairness

`FairSpec` has weak fairness of the client's handlers, the sender goroutine, the
Tuning handler, the engine service and the worker: goroutines, threads and
processes are scheduled by the runtime and the system, benchmark and set scripts
return, and the service answers each request that is not waiting for the worker.
Nothing is assumed of the user: commands and interrupts have no fairness. It is
stated of each process as a whole: when an interrupt takes a receive away, the
end of the stream is there to receive instead, so the process stays enabled.

`UiDatabase` has weak fairness of the sessions of the engine together with the
threads of the daemon, save a handler that opens a pipe whose reader has
returned: whether it ever can is not decided by the code. Tunings, users and
viewers have none. `EngineTasks` has weak fairness of the worker's steps, and
none of its loss, of files or of models. One condition for all these steps is
enough in both: each makes progress towards an end, so that none can go on for
ever while another waits. That a process of the feature selector raises, or the
worker outside its try, is never due (`SelectionFails` has no fairness).

### Refinement

`TuningLoop` has four variables: the phase, the configuration in force, the
budget and the measurements. `ImplementsLoop` instantiates it with a mapping in
which a session searches from the creation of the task to its conclusion, and
measures from the moment the request for a benchmark is put on `ch` until the
client's script is done. The refinement says that a measurement is always of the
configuration then in force, that measurements never exceed the budget, and that
a search which completes has exactly the budget and leaves one of the best in
force, whatever the interleaving and the failures. A search is complete, and no
longer given up, once the handler has set the final parameters (`hpc` is
"conclude").

## 4. What is proved

Every theorem holds for all values of the constants that satisfy the assumptions
named in the modules: `ConstAssumption`, `SearchAssumption`, `FilesAssumption`,
`UiAssumption`, `PageSizeAssumption`, `ModelsAssumption` give the constants their
types (the last also says that the models the package ships are whole);
`MessageAssumption`, `AnswerAssumption` and `BestAssumption` that None is not a
message, an answer or a result. A theorem with more hypotheses states them, and the
table gives the reason; TLC evaluates the assumptions in every run.

| Theorem | Property | When | Why not always |
|---|---|---|---|
| **`TuningSessionProofs`** | | | |
| `TypeCorrect` | `TypeOK` | always | |
| `NoOrphans` | `NoOrphanSearch` | always | |
| `OneTurnAtATime` | `OneTurn` | always | |
| `PipeStaysInStep` | `PipeInStep` | always | |
| `EvaluationsMatch` | `MeasuredAsAsked` | always | |
| `IterationsKept` | `IterationsBounded` | always | |
| **`TuningLoopProofs`** | | | |
| `BaselineMeasured` | `BaselineUntouched` | always | |
| `NeverPanics` | `NoPanic` | no knob of the yaml is skipped, no more are kept per cycle than there are | run `faults` panics with more |
| `RestoreFileInitial` | `RestoreFileIsInitial` | no feature selection | run `restore_cycles` |
| `FinalBest` | `FinalIsBest` | no proposal violates a relation | run `threshold_best` |
| `LoopImplemented` | `ImplementsLoop`, the refinement of `TuningLoop` | the same | the threshold that stands for an evaluation is not a measurement |
| `DataComplete` | `FinishedDataComplete` | the same, no feature selection | `max_iter` is 0 in a selection (section 3) |
| **`ProfileActivationProofs`** | | | |
| `ProfileTypes` | `TypeOK` | always | |
| `ChangesCanBeUndone` | `Undoable` | `Careful` | section 3 |
| `NothingIsLeft` | `NothingLeft` | `Careful` | run `profile_concurrent` |
| `ActivationsAreExact` | `ActivationExact` | `Careful`, no PUT of active fails | a failed PUT is skipped |
| `ProfileSurvives` | `BootKeepsProfile` | `Serial`, neither the database nor the backup directory fails | the monitor gives up then |
| `RowIsKept` | `RowKept` | always | |
| **`UiDatabaseProofs`** | | | |
| `Types` | `TypeOK` | always | |
| `OneCommand` | `OneCommandPerRun` | always | |
| `EmailUnique` | `UniqueEmail` | always | |
| `LogExact` | `LogReaderExact` | always | |
| `TotalsOnlyGrow` | `TotalGrows` | always | |
| **`UiRunsProofs`** | | | |
| `EndedExact` | `EndedIsExact` (of an analysis whose rows could all be stored) | each analysis has a daemon (an address) of its own | the collection is looked up by address |
| `RowsOfOne` | `RowsOfOneRun` | users rename runs only where there is at most one tuning | section 3 |
| `LastRoundThere` | `FinishedHasLastRound` | always | |
| `PagesAgree` | `ListsAgree` | always | |
| **`EngineTasksProofs`** | | | |
| `SearchBestOfAll` | `BestOfAll` (abtest, gridsearch, lhs, skopt; tpe up to the fraction) | always | claimed of all of tpe's report, or of ppo's, it is false (section 3) |
| `ABtestKeepsBest` | `DescentIsBest` | each knob of an abtest has an item (`ABtestsTriable`) | without one abtest fails with an IndexError before its first evaluation, which the model leaves out |
| `FilesConsistent` | `AllFilesInv` | always | |
| `PagesExact` | `FileReaderExact` | always | |
| `ModelsConsistent` | `ModelsInv` | always | |
| `AnswersFounded` | `AnswerFounded` | always | |
| **`SearchPlanProofs`** | | | |
| `RanksSound` | `RankSound` | the knobs of a task and their options are lists (`KnobsListed`) | it is their type in the yaml; no constant has a type in TLA+ |
| `SpacesCovered` | `CoversSpace` | `KnobsListed`, `ABtestsTriable`, and a gridsearch lists no option and no lone item twice (`GridsListed`) | what is listed twice is tried twice: `expand_parameters` removes no duplicates, only `set` of a range does |
| `TraverseRanked`, `SearchCovers` | their inductive invariants | the same | |

The instances of the runs satisfy these hypotheses, save those of the runs named:
`search` has no cycles and no mismatch, `live` keeps at most what there is,
`profile_serial` is `Careful`, no workload of `ui_database` has two tunings beside a
user who renames, nor two analyses of one address, every knob of the abtests in
`engine_tasks` has an item, and no knob of its gridsearches lists one twice. Each
inductive invariant below was first checked by TLC as an invariant of the run of its
module, save the parts of `CoveringInv` that say a list or a function exists, which
TLC cannot enumerate: there TLC checked the property.

`UiAssumption` says that a user has entered finitely many addresses: they are rows of
a table. Numbers of a knob (bounds, step) are integers, as everywhere in the model.

**A moment of the session.** `TypeOK` is inductive once it knows where a REST request
can be (`HttpPhase`), that an answer is there when it is used, and that a worker in
its objective has asked something. The safety properties need more, and need each
other; `SafeInv` is their conjunction:

1. `TaskInv`: a task in the cache is known to the handler by its URL, or by the
   answer it is reading, so that the deferred DeleteTask finds it.
2. `TurnInv`: of the places where a turn can be (stream in either direction, `ch`,
   the goroutine, the client's benchmark, the handler, the stop channel) one at
   most is taken, and each queue has at most one such message.
3. `PhaseInv`: while a phase begins no worker exists and `iter` is 0.
4. `PipeInv`: something is on its way to or from the worker only during a PUT or
   before the first evaluation of a phase.
5. `AskInv`: what the worker waits for, what is in the pipe and what the handler
   works on is the same proposal.
6. `BenchInv`: while a benchmark is requested the machine has that proposal.
7. `CountInv`: the iterations counted and the calls left of the worker add up to
   at most the iterations of the task.

`MeasuredAsAsked` alone is not inductive: that the machine still has the proposal
when the client gets the BenchMark depends on the handler not being able to act,
which is the turn, which depends on the worker not having proposed again, which
is the pipe. Each lemma (`TaskStep`, `TurnStep`, ...) has a step per action.

**The course of the session.** What a whole search leaves needs invariants about its
course. `FreshInv` (nothing is selected, skipped or backed up before the first
phase), `CycleInv` (a phase selects features exactly while cycles are left) and
`ConnInv` (a client that runs is connected to its handler) carry the first three
results of `TuningLoopProofs`, with `BaselineInv` (the parameters are the user's until the
baseline is measured), `RoomInv` (as many parameters are left as a selection takes)
and `RestoreInv` (what is saved is what was found, and stays). The others
follow an evaluation from client to worker: `Out`, `Back`, `Posted`, `Untold` and
`Told` name its stages, and `SearchInv` says for each which evaluations the handler's
minimum (`KeptInv`) and the worker's best (`BestInv`) have taken in, that evaluations
made and calls left are those of the task (`CallsInv`), and that skipped knobs stay
(`SkippedInv`). The two count the same measurement at different moments, so that
neither bound is inductive alone. `FinalInv` carries the best to the end of the
session. `LoopImplemented` maps each action to a step of `TuningLoop` or a stutter
with `TuningInv`, the conjunction of them all; `RowsInv` relates the data file to
`iter`.

**Activation.** `Careful` is `Serial` and no failure of a GET of Backup, of a PUT
of Resume or of the backup directory; the runs show that each is needed.
The database and the PUTs of active may fail. The inductive invariant `UndoInv`
says that one worker at most is busy (`Alone`), that the row holds initial
values (`RowInitial`), and for each phase of the worker what is done
(`Progress`): in Resume the keys done have their initial values; between the
deletion and the insertion there is no row, so by `Undoable` nothing is changed;
in Backup what was read is in the buffer; in active the row has every
key of the profile. `BootInv` follows the monitor alone: it has loaded the
profile, there is no row from the end of Resume to the insertion, and then the row is
this profile's. `RowIsKept` needs no assumption: overlapping commands and
failures included, no row replaces another.

**The web UI database.** `UiInv` is `Good(db)` (keys, constraints, and that ids map to
commands and users), that each request of a client is one of its kind and goes to rows
that are there (`ReqInv`), that what an analysis remembers of its collection exists
(`AnInv`, `TnInv`), and that the viewer has the first lines of the log (`ViewInv`). A
session keeps the database it has read, so a lemma per trigger is about
two databases: the read one satisfies `Read`, the other has only grown since
(`Later`), and the transaction commits or rolls back. That two sessions that read the
same largest id do not both take it is the refusal of the second insert; so
`OneCommand` is a statement about keys. `RowsInv` ties samples to the goroutine that
sends them: what it has an id for is of its address (`HeldOK`), the rows are in
the order of the pipe (`RowsOK`) and never ahead of what was read from it
(`RowsHeld`). `EndInv` says of the goroutine's state what status the one collection
with rows has (`MineOK`), whatever the handler has finished before: when the goroutine
takes the end of the pipe for that of a pass (`PassEnds`), every row is recorded and
the handler's own "finished", which is still to come, counts them all. `TableInv` does
the same for the rounds of tunings.

**The engine.** The search: `LogInv`, `OwnInv` and `FinalInv` say that what the worker
remembers is the end of the log, restarts included, and that its result was computed of
it; the lemma `ArgMinIsSmallest` does the rest. abtest: `DescentInv` says that the knobs
before the current one have their best items, those after their first, and the
setting kept is the best of what was evaluated before the sweep; since a sweep tries
that setting again, with a steady benchmark (`SteadyInv`) its best is the best of all.
Files: `FilesInv` (each file is a beginning of one phase, or in `running` what
followed an end), `PutsInv` (the PUT under way has the lines that its file lacks,
`Underway`, or the row that comes after its end, `Beyond`), `RenamingInv`, `ReaderInv`.
Models: `JobsInv` (a training nobody disturbed has written what it has not left to
write), `SoundInv` (a sound model is of one set of rows), `RequestInv` (what an
undisturbed classification has read is of that set, and it counted votes for what it
answers).

**What the searches try.** `CoveringInv` says of each engine how what it has evaluated,
what is under way and what is planned make up what it announced (`OnPlan`): for
traverse (`RankedInv`, `TraverseInv`) the list of the defaults and the alternatives, for
gridsearch (`GridInv`) one order of the grid, the log of lost workers included, for lhs
(`SamplingInv`) a list of `MaxEval` samples, for abtest (`SweepingInv`) the sweeps made, of
the items of one knob after another, and the part of the present one; for the others
(`CallsInv`) that evaluations made and calls left add up to a total. `StartInv` tells a
worker that has not begun. Two arguments are about data. That every combination is in
the grid exactly once (`ExpandsOnce`): the number of its place, written in the
bases that the lengths of the lists make, has as digits the places of its values, and
a number is written in one way (`WrittenOnce`). That a rank orders knobs by the two
figures `lowest` and `difference` (`RankFields`): the sum of its places in the two
sorted lists decides, and a knob that reached less and changed more than another is
before it in both. Its figures are of the evaluations that changed it alone, known by
their places in the list (`Owner`, `TraverseListOf`).

**Lists and pages.** `ListsAgree` is a property of one state of the database. Its
inductive part (`Listing`) is that the command of a run has the address of the run and
that the addresses entered are finitely many. Then the commands of the runs of a user's
addresses are those with such an address (`CommandsOfRuns`), the counts per address
add up to their number (`CountsAddUp`), and `PagesWhole` that entry number `n` is on page `(n - 1) \div size + 1` and on no other.

**Lemmas about data.** The library's induction theorems take an operator as a
parameter, which the provers cannot instantiate. `SequenceLemmas` does
without: a set of numbers that has 0, and n + 1 with each n, has all (`UpTo`, from the
least element of what is missing), so that induction is over a set given by
comprehension. A recursive definition is a function with a value at 0 and a step
(`RecursionExists`), from which folds (`FoldExists`, `FoldSteps`), the ends of
concatenated lists (`EndsExist`, `Flattened`) and the largest and smallest element of a
finite set have the values one expects.

**Only model-checked.** `SessionEnds`, `AnalysisEnds` and `SearchEnds` are liveness under
fairness, and rest on ENABLED: out of the provers' reach. `BootKeepsActive` and the
properties of the other runs that expect a violation are false where they are checked;
three of them are theorems under the hypotheses of the table; `RankInputsExact`
evaluates the walk of the code, a recursive function over the list of evaluations.

## 5. Not modelled, and the plan

Not modelled in the parts above: cluster tuning, CheckActiveProfile, the
sections `check`, `tip` and `schedule` of a profile, rule tuning, and the lock and
the collection id that an Analysis shares with a Profile command running at the
same time. In the engine: the genetic algorithm (POST does not accept its name),
what the libraries compute (proposals, importances, predictions), and the numeric
detection of anomalies and of misclassified data. In the web UI: the route of
roles, the viewers of tunings and the comparison of two analyses, which only read.
External code (scripts, configurators, the machine) is what the source expects of
it: it returns, and either does what it was asked or fails. When the Tuning handler
panics its deferred DeleteTask would still be tried; the model leaves it out. What a
client sent last before it vanished is always delivered.

Not modelled at all yet: the schedule manager, the definitions of profiles, their
loader, load, topology and cpumask of the daemon (`PROJECT.json`, "components").

Next, in this order:

1. `ScheduleManager`: New, Submit, Start and cancel of a policy, its types and that
   one policy runs at a time as theorems.
2. `ProfileStore`: Define, Delete, Update as files and rows without a transaction,
   with a crash; an abstract store it should implement, the refinement proved; the
   loader as functions.
3. `ClusterTuning`: nested requests and locks of several nodes.
4. Proofs with weaker hypotheses: `FinalIsBest` across phases when only some proposals
   are turned down; `RowsOfOneRun` per table instead of per workload.
