----------------------------- MODULE TuningVars -----------------------------
(***************************************************************************)
(* The shared state of one dynamic-tuning session of A-Tune:               *)
(*                                                                         *)
(*   atune-adm tuning  <== gRPC stream ==>  atuned  == REST ==>  engine    *)
(*   (TuningClient)                      (TuningServer)   (OptimizerService)*)
(*                                                                         *)
(* Every process of the session is a module that EXTENDS this one and      *)
(* contributes its actions; TuningSession composes them.                   *)
(***************************************************************************)
EXTENDS Integers, Sequences, FiniteSets

CONSTANTS
  Knobs,        (* the objects of the server project (YamlPrjSvr.Object)      *)
  Values,       (* the values a knob can take                                 *)
  Evals,        (* the evaluation sums a benchmark can produce                *)
  ThresholdSum, (* the evaluation sum the client sends for a Threshold        *)
  Mismatched,   (* assignments that violate a "less"/"greater" relationship   *)
  YamlSkip,     (* knobs marked skip in the server yaml                       *)
  Iterations,   (* iterations asked for in the client yaml                    *)
  Maxiterations,(* maxiterations of the server yaml                           *)
  Cycles,       (* feature_filter_cycle of the client yaml                    *)
  FilterIters,  (* feature_filter_iters of the client yaml                    *)
  FilterCount,  (* feature_filter_count of the client yaml                    *)
  SessionKinds, (* the commands the user runs: "tune", "restore"              *)
  MaxSessions,  (* bound: number of commands the user runs                    *)
  Faults,       (* which failures of the environment a run includes           *)
  None          (* no value                                                   *)

Config     == [Knobs -> Values]
Assignment == UNION {[S -> Values] : S \in SUBSET Knobs}

FaultKinds == {"abort", "benchmark", "project", "script", "objective", "worker"}

ASSUME ConstAssumption ==
  /\ Knobs # {} /\ IsFiniteSet(Knobs)
  /\ Values # {}
  /\ Evals \subseteq Int /\ Evals # {}
  /\ ThresholdSum \in Int
  /\ Mismatched \subseteq Assignment
  /\ YamlSkip \subseteq Knobs
  /\ Iterations \in Nat
  /\ Maxiterations \in Nat
  /\ Cycles \in Nat
  /\ FilterIters \in Nat
  /\ FilterCount \in Nat
  /\ SessionKinds \subseteq {"tune", "restore"}
  /\ MaxSessions \in Nat
  /\ Faults \subseteq FaultKinds
  /\ None \notin Int \cup Config \cup Assignment

VARIABLES
  (* the tuned machine *)
  sys,          (* the value every knob currently has                         *)
  restoreFile,  (* <project>-tuning-restore.conf, or None                     *)
  (* atune-adm *)
  cpc,          (* where the client is                                        *)
  command,      (* the command it runs                                        *)
  baseline,     (* the goroutine that benchmarks the baseline                 *)
  baseSum,      (* its result                                                 *)
  shown,        (* the evaluation value of the final result it printed        *)
  (* the gRPC stream *)
  up, down,     (* messages in flight to the server and to the client         *)
  conn,         (* who has closed it                                          *)
  (* atuned: the Tuning handler, its sender goroutine, its Optimizer *)
  hpc,          (* where the handler is                                       *)
  chan,         (* the value the handler is blocked on putting into ch        *)
  sender,       (* the value the goroutine has taken from ch, not sent yet    *)
  cycles, stop, (* the handler's cycles and the content of stopCh (0: empty)  *)
  iter, maxIter,(* Optimizer.Iter, Optimizer.MaxIter                          *)
  filter,       (* Optimizer.FeatureFilter                                    *)
  selected,     (* the names in Optimizer.TuningParams                        *)
  skip,         (* the objects whose Info.Skip is set                         *)
  backedUp,     (* Optimizer.BackupFlag                                       *)
  content,      (* Optimizer.Content: an evaluation, or None for nil          *)
  sumEval,      (* Optimizer.Evaluations                                      *)
  evalBase,     (* Optimizer.EvalBase                                         *)
  minEval,      (* Optimizer.MinEvalSum                                       *)
  finalEval,    (* Optimizer.FinalEval                                        *)
  taskURL,      (* Optimizer.OptimizerPutURL is set                           *)
  answer,       (* Optimizer.RespPutIns                                       *)
  (* the engine service *)
  http,         (* the REST request in progress and how it went               *)
  task,         (* the task is in TasksCache                                  *)
  wpc,          (* where the worker process is                                *)
  left,         (* objective calls the worker still has to make               *)
  asked,        (* the assignment it asked to evaluate last                   *)
  best,         (* the best (assignment, evaluation) it was told, or None     *)
  toWorker, fromWorker,   (* the two directions of the Pipe                   *)
  data, rows,   (* tuning-data file: which directory, evaluations recorded    *)
  (* history *)
  start,        (* the configuration when the session began                   *)
  results,      (* what was benchmarked for the current task, in order        *)
  sessions      (* commands run so far                                        *)

sysVars     == <<sys, restoreFile>>
clientVars  == <<cpc, command, baseline, baseSum, shown>>
streamVars  == <<up, down, conn>>
chanVars    == <<chan, sender>>
loopVars    == <<hpc, cycles, stop>>
optVars     == <<iter, maxIter, filter, selected, skip, backedUp, content,
                 sumEval, evalBase, minEval, finalEval, taskURL, answer>>
workerVars  == <<wpc, left, asked, best, toWorker, fromWorker>>
engineVars  == <<http, task, data, rows>>
historyVars == <<start, results, sessions>>

vars == <<sysVars, clientVars, streamVars, chanVars, loopVars, optVars,
          workerVars, engineVars, historyVars>>

(***************************************************************************)
(* Messages.  A Display, a Detail or a progress message only prints: the   *)
(* one that is kept is the Display of the final result ("Result").         *)
(***************************************************************************)
UpKinds   == {"JobInit", "JobCreate", "JobRestart", "BenchMark", "Restore"}
DownKinds == {"JobCreate", "JobInit", "JobRestart", "BenchMark", "Threshold",
              "Result", "Ending"}

(* A BenchMark or a JobCreate of the client carries an evaluation sum.     *)
UpMessage   == [kind : {"JobCreate", "BenchMark"}, val : Int] \cup
               [kind : UpKinds \ {"JobCreate", "BenchMark"}, val : {None}]
DownMessage == [kind : DownKinds, val : Int \cup {None}]

Msg(k)       == [kind |-> k, val |-> None]
MsgVal(k, v) == [kind |-> k, val |-> v]

ASSUME MessageAssumption == None \notin DownMessage

(* The knobs the optimizer may set: RunSet and createOptimizerTask leave   *)
(* out every object whose Skip flag is up.                                 *)
Active == Knobs \ skip

(* The machine after the assignment p was set on the knobs of S.           *)
SetSkipped(p, S) == [k \in Knobs |-> IF k \in DOMAIN p \ S THEN p[k] ELSE sys[k]]
SetOn(p, S) == [k \in Knobs |-> IF k \in S \cap DOMAIN p THEN p[k] ELSE sys[k]]

(* What the sender goroutine or the handler put on the stream reaches the  *)
(* client only while the client has not closed the connection.             *)
Deliver(m) == down' = IF conn = "open" THEN Append(down, m) ELSE down

Send(m) == up' = IF conn = "open" THEN Append(up, m) ELSE up
=============================================================================
