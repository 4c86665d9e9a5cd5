---------------------------- MODULE TuningSession ----------------------------
(***************************************************************************)
(* The dynamic-tuning session: client, Tuning handler, sender goroutine,   *)
(* engine service and worker process together.  A run of the model is a    *)
(* sequence of at most MaxSessions commands of the user, one at a time.    *)
(***************************************************************************)
EXTENDS TuningClient, TuningServer, OptimizerService

Init ==
  /\ sys \in Config /\ restoreFile = None
  /\ cpc = "idle" /\ command = "tune" /\ baseline = "none" /\ baseSum = 0
  /\ shown = None
  /\ up = <<>> /\ down = <<>> /\ conn = "none"
  /\ chan = None /\ sender = None
  /\ hpc = "idle" /\ cycles = 0 /\ stop = 0
  /\ iter = 0 /\ maxIter = 0 /\ filter = FALSE /\ selected = {}
  /\ skip = YamlSkip /\ backedUp = FALSE /\ content = None
  /\ sumEval = 0 /\ evalBase = 0 /\ minEval = 0 /\ finalEval = None
  /\ taskURL = FALSE /\ answer = None
  /\ http = "none" /\ task = FALSE /\ data = "none" /\ rows = 0
  /\ wpc = "none" /\ left = 0 /\ asked = None /\ best = None
  /\ toWorker = <<>> /\ fromWorker = <<>>
  /\ start = sys /\ results = <<>> /\ sessions = 0

Start == StartTuning \/ StartRestore

(* The user has run the last command: nothing is left to do.               *)
Terminated ==
  /\ sessions = MaxSessions /\ cpc = "idle" /\ hpc = "idle"
  /\ UNCHANGED vars

Next == Start \/ ClientStep \/ Abort \/ Sender \/ Handler \/ Engine \/ Worker
        \/ Terminated

(* Every process that can make a step makes one: the goroutines and the    *)
(* threads of the service are scheduled, the benchmark scripts return.     *)
(* Nothing is assumed of the user.                                         *)
Fairness ==
  /\ WF_vars(ClientStep) /\ WF_vars(Sender) /\ WF_vars(Handler)
  /\ WF_vars(Engine) /\ WF_vars(Worker)

Spec     == Init /\ [][Next]_vars
FairSpec == Spec /\ Fairness

-----------------------------------------------------------------------------
TypeOK ==
  /\ sys \in Config /\ restoreFile \in Config \cup {None}
  /\ up \in Seq(UpMessage) /\ down \in Seq(DownMessage)
  /\ conn \in {"none", "open", "closed", "ended"}
  /\ answer \in AnswerMessage \cup {None}
  /\ start \in Config
  /\ results \in Seq([config : Config, eval : Evals])
  /\ sessions \in 0..MaxSessions
  /\ ClientTypeOK /\ ServerTypeOK /\ ServiceTypeOK

-----------------------------------------------------------------------------
(* The agreement between the assignment p and what the machine has.        *)
Has(config, p) == \A k \in DOMAIN p : config[k] = p[k]

(* While a benchmark runs, the machine has exactly the parameters the      *)
(* search is waiting for an evaluation of: an evaluation is never          *)
(* attributed to other parameters than those it was measured with          *)
(* (DynamicTuned sets them before it sends BenchMark; objective waits).    *)
MeasuredAsAsked ==
  cpc = "benchmark" /\ conn = "open" =>
    wpc = "objective" /\ Has(sys, asked)

(* The baseline is benchmarked under the configuration the user had: no    *)
(* parameter is touched before the client has answered JobCreate.          *)
BaselineUntouched == cpc # "idle" /\ baseline = "running" => sys = start

(* The turn to act in the ask/evaluate loop is at one place at a time.     *)
UpTurns   == {i \in DOMAIN up : up[i].kind = "BenchMark"}
DownTurns == {i \in DOMAIN down : down[i].kind \in {"BenchMark", "Threshold"}}
IsTurn(m) == m # None /\ m.kind \in {"BenchMark", "Threshold"}
One(b)    == IF b THEN 1 ELSE 0

Turns == Cardinality(UpTurns) + Cardinality(DownTurns)
         + One(IsTurn(chan)) + One(IsTurn(sender))
         + One(cpc = "benchmark" /\ conn = "open")
         + One(hpc \in {"evaluate", "answer", "apply"})

(* There is never more than one evaluation under way between client,       *)
(* stream, handler and engine, so evaluations cannot be swapped or counted *)
(* twice, whatever the interleaving of the handler and its sender.         *)
OneTurn == Turns <= 1

(* The search and the handler stay in step: what the worker sent and the   *)
(* PUTs did not take yet, and what it was sent and did not take yet, is at *)
(* most one message in all.                                                *)
PipeInStep == Len(toWorker) + Len(fromWorker) <= 1

(* When the final result goes out, the machine has the parameters whose    *)
(* evaluation was the smallest measured for this task, and the value       *)
(* displayed is that evaluation.                                           *)
IsBest(i) == \A j \in DOMAIN results : results[i].eval <= results[j].eval

Concluded(m) == m # None /\ m.kind = "Result"

FinalIsBest ==
  (Concluded(chan) \/ Concluded(sender)) =>
    \E i \in DOMAIN results :
      /\ IsBest(i)
      /\ Has(sys, [k \in Active |-> results[i].config[k]])
      /\ finalEval = results[i].eval

(* Tuning can be undone: whenever the machine differs from what the last   *)
(* tuning found, the restore file holds the configuration it found, during *)
(* the session and after it, however it ended.                             *)
RestoreFileIsInitial == command = "tune" /\ sys # start => restoreFile = start

(* A worker process exists only while a Tuning handler runs: whatever way  *)
(* the session ends, the deferred DeleteTask leaves no search behind.      *)
NoOrphanSearch == hpc = "idle" => ~task /\ wpc = "none"

(* A tuning-data file moves to finished/ with one row per iteration asked.   *)
FinishedDataComplete ==
  [][data' = "finished" /\ data # "finished" => rows' = TaskIters]_vars

(* The search was asked for no more evaluations than the task has.         *)
IterationsBounded == iter <= TaskIters

(* Feature selection never asks for more parameters than are ranked.       *)
NoPanic == hpc # "panic"

(* A session that starts ends, and with it the lock every other Tuning and *)
(* Analysis request needs is free again, whatever the client does.         *)
SessionEnds == hpc # "idle" ~> hpc = "idle"

(* The configuration the search waits for is on its way to be measured.    *)
Awaits(m) == m # None /\ m.kind = "BenchMark"

Measuring ==
  /\ conn = "open"
  /\ \/ Awaits(chan) \/ Awaits(sender) \/ cpc = "benchmark"
     \/ \E i \in DOMAIN down : down[i].kind = "BenchMark"

Searching ==
  task /\ hpc \in {"created", "open", "opened", "evaluate", "answer", "apply",
                   "loop", "receive"}

(* The session implements the promise of TuningLoop.  A search is complete *)
(* with the step of Apply that sets the final answer.                      *)
Loop == INSTANCE TuningLoop WITH
  Configs  <- Config,
  Measures <- Evals,
  phase    <- IF hpc = "conclude" THEN "complete"
              ELSE IF ~Searching THEN "idle"
              ELSE IF Measuring THEN "measure" ELSE "search",
  config   <- sys,
  budget   <- IF Searching THEN TaskIters ELSE 0,
  results  <- results

(* Tuning keeps what TuningLoop promises: whatever the interleaving and    *)
(* the failures, each evaluation is of the configuration then in force and *)
(* a search that completes leaves one of the best measured in force.       *)
ImplementsLoop == Loop!Spec
=============================================================================
