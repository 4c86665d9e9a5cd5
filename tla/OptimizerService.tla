-------------------------- MODULE OptimizerService --------------------------
(***************************************************************************)
(* The engine service of A-Tune, as the Tuning handler uses it: the REST   *)
(* resource Optimizer (analysis/engine/optimizer.py), what it records      *)
(* (save_data.py) and the worker process that searches                     *)
(* (analysis/optimizer/optimizer.py).  The handler calls it synchronously, *)
(* so the arguments of the request in progress are the Optimizer fields of *)
(* the handler.  The searching engines driven by max_eval are modelled     *)
(* (random, forest, gbrt, bayes, extraTrees, lhs, tpe); abtest, gridsearch *)
(* and traverse, which announce their own number of iterations, are not.   *)
(***************************************************************************)
EXTENDS TuningVars

RequestKinds == {"post", "putinit", "put", "delete"}
HttpStates   == {"none", "ok", "fail", "recv"} \cup RequestKinds

(* What the worker sends: the next parameters, the solution (finished =    *)
(* True) or an exception.                                                  *)
AnswerMessage == [kind : {"param", "final"}, param : Assignment]
Proposal(p)   == [kind |-> "param", param |-> p]
Solution(p)   == [kind |-> "final", param |-> p]
Exception     == [kind |-> "exception", param |-> None]
PipeMessage   == AnswerMessage \cup {Exception}

(* What the optimizer keeps as its best.                                   *)
BestRecord == [param : Assignment, eval : Int]

ASSUME AnswerAssumption == None \notin AnswerMessage
ASSUME BestAssumption == None \notin BestRecord

(* max_eval of the POST: FeatureFilterIters or the capped client iterations *)
TaskIters == IF filter THEN FilterIters ELSE maxIter

(* The objective calls the new worker makes (n_calls).                     *)
OneCallMore == TaskIters + 1
Calls == TaskIters

(* Optimizer.post: the worker is started with both ends of a new Pipe and  *)
(* the task is put in the cache.                                           *)
Post ==
  /\ http = "post"
  /\ http' = "ok"
  /\ task' = TRUE
  /\ wpc' = "search" /\ left' = Calls /\ asked' = None /\ best' = None
  /\ toWorker' = <<>> /\ fromWorker' = <<>>
  /\ results' = <<>>
  /\ UNCHANGED <<data, rows, start, sessions>>
  /\ UNCHANGED <<sysVars, clientVars, streamVars, chanVars, loopVars, optVars>>

(* An engine that is not offered for feature selection is refused (400).   *)
PostRefused ==
  /\ "project" \in Faults
  /\ http = "post" /\ filter
  /\ http' = "fail"
  /\ UNCHANGED <<task, data, rows, workerVars, historyVars>>
  /\ UNCHANGED <<sysVars, clientVars, streamVars, chanVars, loopVars, optVars>>

(* Optimizer.put with iterations = -1 opens the tuning-data file ("w").    *)
PutInit ==
  /\ http = "putinit"
  /\ http' = "ok"
  /\ data' = "running" /\ rows' = 0
  /\ UNCHANGED <<task, workerVars, historyVars>>
  /\ UNCHANGED <<sysVars, clientVars, streamVars, chanVars, loopVars, optVars>>

(* save_tuning_data_file of a later PUT: the evaluation is recorded and    *)
(* handed to the worker unless it is the one of iteration 0; the file is   *)
(* moved to finished/ when iterations = max_iter.  Appending to a moved    *)
(* file starts a new one.                                                  *)
EarlyEnd == IF iter + 1 >= maxIter THEN "finished" ELSE "running"
DataDirectory == IF iter = maxIter THEN "finished" ELSE "running"

BaselineToo == TRUE
FromTheSecond == iter > 1
TellWorker == iter # 0

SaveTuningData ==
  /\ toWorker' = IF TellWorker THEN Append(toWorker, sumEval) ELSE toWorker
  /\ rows' = (IF data = "running" THEN rows ELSE 0) + (IF iter # 0 THEN 1 ELSE 0)
  /\ data' = DataDirectory

Put ==
  /\ http = "put"
  /\ SaveTuningData
  /\ http' = "recv"
  /\ UNCHANGED <<task, wpc, left, asked, best, fromWorker, historyVars>>
  /\ UNCHANGED <<sysVars, clientVars, streamVars, chanVars, loopVars, optVars>>

(* The rest of Optimizer.put: out_queue.recv() blocks until the worker has *)
(* sent something; an exception is answered with 404.                      *)
PutReply ==
  /\ http = "recv"
  /\ fromWorker # <<>>
  /\ fromWorker' = Tail(fromWorker)
  /\ IF Head(fromWorker).kind = "exception"
       THEN http' = "fail" /\ answer' = None
       ELSE http' = "ok" /\ answer' = Head(fromWorker)
  /\ UNCHANGED <<task, data, rows, wpc, left, asked, best, toWorker, historyVars>>
  /\ UNCHANGED <<iter, maxIter, filter, selected, skip, backedUp, content,
                 sumEval, evalBase, minEval, finalEval, taskURL>>
  /\ UNCHANGED <<sysVars, clientVars, streamVars, chanVars, loopVars>>

(* Optimizer.delete: stop_process closes the child end and terminates the  *)
(* worker, the parent end is closed, the cache entry removed.  A task that *)
(* is not cached is answered with 404, which deleteTask does not look at.  *)
Delete ==
  /\ http = "delete"
  /\ http' = "ok"
  /\ task' = FALSE
  /\ wpc' = IF task THEN "none" ELSE wpc
  /\ toWorker' = <<>> /\ fromWorker' = <<>>
  /\ UNCHANGED <<left, asked, best, data, rows, historyVars>>
  /\ UNCHANGED <<sysVars, clientVars, streamVars, chanVars, loopVars, optVars>>

-----------------------------------------------------------------------------
(* The worker process.                                                     *)

(* objective: send the next parameters ...                                 *)
WorkerAsk ==
  /\ wpc = "search"
  /\ left > 0
  /\ \E p \in [Active -> Values] : /\ fromWorker' = Append(fromWorker, Proposal(p))
                                  /\ asked' = p
  /\ wpc' = "objective"
  /\ UNCHANGED <<left, best, toWorker, engineVars, historyVars>>
  /\ UNCHANGED <<sysVars, clientVars, streamVars, chanVars, loopVars, optVars>>

(* A smaller evaluation replaces the best one; the first minimum is kept.  *)
LargestWins(e) == best = None \/ e > best.eval
Improves(e) == best = None \/ e < best.eval

(* ... and receive the benchmark result, to be the optimum ret.x or not. *)
WorkerTell ==
  /\ wpc = "objective"
  /\ toWorker # <<>>
  /\ toWorker' = Tail(toWorker)
  /\ left' = left - 1
  /\ wpc' = "search"
  /\ best' = IF Improves(Head(toWorker))
               THEN [param |-> asked, eval |-> Head(toWorker)]
               ELSE best
  /\ UNCHANGED <<asked, fromWorker, engineVars, historyVars>>
  /\ UNCHANGED <<sysVars, clientVars, streamVars, chanVars, loopVars, optVars>>

(* All calls made: the best assignment is sent with finished = True.       *)
WorkerFinish ==
  /\ wpc = "search"
  /\ left = 0
  /\ best # None
  /\ fromWorker' = Append(fromWorker, Solution(best.param))
  /\ wpc' = "done"
  /\ UNCHANGED <<left, asked, best, toWorker, engineVars, historyVars>>
  /\ UNCHANGED <<sysVars, clientVars, streamVars, chanVars, loopVars, optVars>>

(* An error inside run's try: the exception is sent.                       *)
WorkerFail ==
  /\ "objective" \in Faults
  /\ wpc = "search"
  /\ fromWorker' = Append(fromWorker, Exception)
  /\ wpc' = "done"
  /\ UNCHANGED <<left, asked, best, toWorker, engineVars, historyVars>>
  /\ UNCHANGED <<sysVars, clientVars, streamVars, chanVars, loopVars, optVars>>

(* An error after the try (no evaluation was made, so ret is unbound; the  *)
(* feature selector fails) ends the process without a message, and the     *)
(* service, which keeps child_conn open, gets no EOF.                      *)
WorkerDie ==
  /\ wpc = "search"
  /\ left = 0
  /\ best = None \/ "worker" \in Faults
  /\ wpc' = "dead"
  /\ UNCHANGED <<left, asked, best, toWorker, fromWorker, engineVars, historyVars>>
  /\ UNCHANGED <<sysVars, clientVars, streamVars, chanVars, loopVars, optVars>>

Engine == Post \/ PostRefused \/ PutInit \/ Put \/ PutReply \/ Delete
Worker == WorkerAsk \/ WorkerTell \/ WorkerFinish \/ WorkerFail \/ WorkerDie

ServiceTypeOK ==
  /\ http \in HttpStates
  /\ task \in BOOLEAN
  /\ wpc \in {"none", "search", "objective", "done", "dead"}
  /\ left \in Nat
  /\ asked \in Assignment \cup {None}
  /\ best \in BestRecord \cup {None}
  /\ toWorker \in Seq(Int)
  /\ fromWorker \in Seq(PipeMessage)
  /\ data \in {"none", "running", "finished"}
  /\ rows \in Nat
=============================================================================
