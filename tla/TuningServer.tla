---------------------------- MODULE TuningServer ----------------------------
(***************************************************************************)
(* The Tuning handler of atuned (modules/server/profile/profile.go), the   *)
(* goroutine that sends what the handler puts on the unbuffered channel    *)
(* ch, and the Optimizer it drives (common/tuning/optimizer.go,            *)
(* common/project/project.go).  A handler that has put a value on ch is    *)
(* blocked until the goroutine takes it: every handler step has the        *)
(* conjunct chan = None.  Restart, SyncConfig and GetInitialConfig (cluster*)
(* mode) are not modelled here.                                            *)
(***************************************************************************)
EXTENDS TuningVars

HandlerStates ==
  {"idle",      (* no Tuning RPC runs: the lock is free                       *)
   "loop",      (* at the select on stopCh                                    *)
   "receive",   (* in stream.Recv                                             *)
   "backup",    (* InitTuned or InitFeatureSel, before Backup                 *)
   "create", "created",  (* createOptimizerTask: the POST                     *)
   "open", "opened",     (* createOptimizerTask: the PUT of iteration -1      *)
   "evaluate",  (* DynamicTuned, before evalParsing                           *)
   "answer",    (* DynamicTuned, in the PUT                                   *)
   "apply",     (* DynamicTuned, before RunSet and RestartProject             *)
   "conclude",  (* DynamicTuned, after a finished answer was applied          *)
   "delete", "deleted",  (* deleteTask at the end of DynamicTuned             *)
   "return", "returned", (* the deferred DeleteTask, close(ch) and Unlock     *)
   "panic"}     (* index out of range: atuned is gone                         *)

(* The frame of a handler step that touches the loop and the Optimizer     *)
(* only.                                                                   *)
HandlerFrame == UNCHANGED <<clientVars, workerVars, historyVars>>

CanStep(at) == hpc = at /\ chan = None

(* ch <- m: the handler blocks until the goroutine has taken m.            *)
Put_ch(m) == chan' = m

(* The goroutine: receive from ch, stream.Send, receive again.             *)
SenderTake ==
  /\ chan # None /\ sender = None
  /\ sender' = chan /\ chan' = None
  /\ UNCHANGED <<sysVars, streamVars, loopVars, optVars, engineVars>> /\ HandlerFrame

Resend == sender' \in {sender, None}
Sent == sender' = None

SenderSend ==
  /\ sender # None
  /\ Deliver(sender)
  /\ Sent
  /\ UNCHANGED <<chan, up, conn, sysVars, loopVars, optVars, engineVars>>
  /\ HandlerFrame

-----------------------------------------------------------------------------
(* The loop of Tuning.                                                     *)

(* A stop ends a phase: JobRestart when cycles are left (2: make the next  *)
(* one the last), Ending otherwise, sent directly on the stream.           *)
Select ==
  /\ CanStep("loop")
  /\ \/ /\ stop = 0
        /\ hpc' = "receive"
        /\ UNCHANGED <<cycles, stop, down>>
     \/ /\ stop # 0 /\ cycles > 0
        /\ Deliver(Msg("JobRestart"))
        /\ cycles' = (IF stop = 2 THEN 1 ELSE cycles) - 1
        /\ stop' = 0 /\ hpc' = "receive"
     \/ /\ stop # 0 /\ cycles <= 0
        /\ Deliver(Msg("Ending"))
        /\ cycles' = cycles - 1
        /\ stop' = 0 /\ hpc' = "return"
  /\ UNCHANGED <<up, conn, chanVars, sysVars, optVars, engineVars>> /\ HandlerFrame

HandlerReceive(k) ==
  /\ CanStep("receive")
  /\ up # <<>> /\ Head(up).kind = k
  /\ up' = Tail(up)
  /\ UNCHANGED <<down, conn, sender, engineVars>> /\ HandlerFrame

(* io.EOF or an error: the client is gone and nothing it sent is left.  A   *)
(* stream that is reset may lose what the client sent last; here the        *)
(* handler gets that first and then finds the client gone.                  *)
HandlerEOF ==
  /\ CanStep("receive")
  /\ up = <<>> /\ conn # "open"
  /\ hpc' = "return"
  /\ UNCHANGED <<cycles, stop, streamVars, chanVars, sysVars, optVars, engineVars>>
  /\ HandlerFrame

(* JobInit: the project is loaded (or not found), cycles set, JobCreate    *)
(* sent.                                                                   *)
HandleJobInit ==
  /\ HandlerReceive("JobInit")
  /\ \/ /\ cycles' = Cycles
        /\ Put_ch(Msg("JobCreate"))
        /\ hpc' = "loop"
     \/ /\ "project" \in Faults
        /\ hpc' = "return"
        /\ UNCHANGED <<cycles, chan>>
  /\ content' = Iterations
  /\ UNCHANGED <<stop, sysVars, iter, maxIter, filter, selected, skip, backedUp,
                 sumEval, evalBase, minEval, finalEval, taskURL, answer>>

(* The restore file is written by the first phase that needs it.           *)
NeverBackup == FALSE
BackupNeeded == ~backedUp

(* InitTuned up to its backup: the iterations are capped by the server, and *)
(* after feature selection only the selected parameters stay active.       *)
InitTuned(sel) ==
  /\ filter' = FALSE
  /\ IF Maxiterations = 0
       THEN hpc' = "return" /\ UNCHANGED <<maxIter, skip>>
       ELSE /\ maxIter' = IF Iterations > Maxiterations THEN Maxiterations
                                                         ELSE Iterations
            /\ skip' = IF sel = {} THEN skip ELSE Knobs \ sel
            /\ hpc' = IF BackupNeeded THEN "backup" ELSE "create"

(* InitFeatureSel up to its backup, which is taken every time.             *)
InitFeatureSel ==
  /\ filter' = TRUE
  /\ hpc' = "backup"
  /\ UNCHANGED <<maxIter, skip>>

HandleJobCreate ==
  /\ HandlerReceive("JobCreate")
  /\ evalBase' = Head(up).val /\ sumEval' = Head(up).val
  /\ selected' = {}
  /\ IF cycles = 0 THEN InitTuned({}) ELSE InitFeatureSel
  /\ UNCHANGED <<cycles, stop, chan, sysVars, iter, backedUp, content,
                 minEval, finalEval, taskURL, answer>>

HandleJobRestart ==
  /\ HandlerReceive("JobRestart")
  /\ content' = Iterations
  /\ IF cycles > 0 THEN InitFeatureSel ELSE InitTuned(selected)
  /\ UNCHANGED <<cycles, stop, chan, sysVars, iter, selected, backedUp,
                 sumEval, evalBase, minEval, finalEval, taskURL, answer>>

HandleBenchMark ==
  /\ HandlerReceive("BenchMark")
  /\ content' = Head(up).val /\ sumEval' = Head(up).val
  /\ hpc' = "evaluate"
  /\ UNCHANGED <<cycles, stop, chan, sysVars, iter, maxIter, filter, selected,
                 skip, backedUp, evalBase, minEval, finalEval, taskURL, answer>>

(* RestoreConfigTuned: RunSet of the restore file, which may stop halfway, *)
(* then Ending; the handler returns in every case.                         *)
HandleRestore ==
  /\ HandlerReceive("Restore")
  /\ hpc' = "return"
  /\ \/ restoreFile = None /\ UNCHANGED <<sys, chan>>
     \/ "project" \in Faults /\ UNCHANGED <<sys, chan>>
     \/ /\ restoreFile # None
        /\ sys' = SetOn(restoreFile, Active)
        /\ Put_ch(Msg("Ending"))
     \/ /\ restoreFile # None /\ "script" \in Faults
        /\ \E S \in SUBSET Active : sys' = SetOn(restoreFile, S)
        /\ UNCHANGED chan
  /\ UNCHANGED <<cycles, stop, restoreFile, optVars>>

-----------------------------------------------------------------------------
(* InitTuned and InitFeatureSel from Backup to the first DynamicTuned.     *)

OnlyLoop(next) ==
  /\ hpc' = next
  /\ UNCHANGED <<cycles, stop>>

(* Backup: the get scripts of all objects, then the restore file.          *)
Backup ==
  /\ CanStep("backup")
  /\ backedUp' = TRUE
  /\ \/ restoreFile' = sys /\ OnlyLoop("create")
     \/ "script" \in Faults /\ UNCHANGED restoreFile /\ OnlyLoop("return")
  /\ UNCHANGED <<sys, chanVars, streamVars, engineVars, iter, maxIter, filter,
                 selected, skip, content, sumEval, evalBase, minEval, finalEval,
                 taskURL, answer>>
  /\ HandlerFrame

Request(k) == http' = k /\ UNCHANGED <<task, data, rows>>

Create ==
  /\ CanStep("create")
  /\ Request("post") /\ OnlyLoop("created")
  /\ UNCHANGED <<chanVars, streamVars, sysVars, optVars>> /\ HandlerFrame

(* The task exists: JobInit tells the client, OptimizerPutURL is set.      *)
Created ==
  /\ CanStep("created") /\ http = "ok"
  /\ Request("none") /\ OnlyLoop("open")
  /\ Put_ch(Msg("JobInit"))
  /\ taskURL' = TRUE
  /\ UNCHANGED <<sender, streamVars, sysVars, iter, maxIter, filter, selected,
                 skip, backedUp, content, sumEval, evalBase, minEval, finalEval,
                 answer>>
  /\ HandlerFrame

CreateFailed ==
  /\ CanStep("created") /\ http = "fail"
  /\ Request("none") /\ OnlyLoop("return")
  /\ UNCHANGED <<chanVars, streamVars, sysVars, optVars>> /\ HandlerFrame

Open ==
  /\ CanStep("open")
  /\ Request("putinit") /\ OnlyLoop("opened")
  /\ UNCHANGED <<chanVars, streamVars, sysVars, optVars>> /\ HandlerFrame

Opened ==
  /\ CanStep("opened") /\ http = "ok"
  /\ Request("none") /\ OnlyLoop("evaluate")
  /\ content' = None
  /\ UNCHANGED <<chanVars, streamVars, sysVars, iter, maxIter, filter, selected,
                 skip, backedUp, sumEval, evalBase, minEval, finalEval, taskURL,
                 answer>>
  /\ HandlerFrame

-----------------------------------------------------------------------------
(* DynamicTuned.                                                           *)

(* The smallest evaluation since iteration 1 is kept for the final message. *)
NoReset == sumEval < minEval
NewMinimum == iter = 1 \/ sumEval < minEval

(* evalParsing, then the PUT.                                              *)
Evaluate ==
  /\ CanStep("evaluate")
  /\ IF NewMinimum
       THEN /\ minEval' = sumEval
            /\ finalEval' = IF content = None THEN evalBase ELSE content
       ELSE UNCHANGED <<minEval, finalEval>>
  /\ Request("put") /\ OnlyLoop("answer")
  /\ UNCHANGED <<chanVars, streamVars, sysVars, iter, maxIter, filter, selected,
                 skip, backedUp, content, sumEval, evalBase, taskURL, answer>>
  /\ HandlerFrame

(* The answer: parameters that do not match the relations are not applied, *)
(* the client is asked for the threshold and iter stays as it is.          *)
Answer ==
  /\ CanStep("answer")
  /\ http \in {"ok", "fail"}
  /\ Request("none")
  /\ \/ http = "fail" /\ OnlyLoop("return") /\ UNCHANGED chan
     \/ /\ http = "ok"
        /\ answer.kind # "final" /\ answer.param \in Mismatched
        /\ Put_ch(Msg("Threshold")) /\ OnlyLoop("loop")
     \/ /\ http = "ok"
        /\ answer.kind = "final" \/ answer.param \notin Mismatched
        /\ OnlyLoop("apply") /\ UNCHANGED chan
  /\ UNCHANGED <<sender, streamVars, sysVars, optVars>> /\ HandlerFrame

(* RunSet and RestartProject; a script that cannot be started ends the     *)
(* session with part of the parameters set.                                *)
Apply ==
  /\ CanStep("apply")
  /\ \/ /\ sys' = SetOn(answer.param, Active)
        /\ IF answer.kind = "final"
             THEN OnlyLoop("conclude") /\ UNCHANGED <<iter, chan>>
             ELSE /\ iter' = iter + 1
                  /\ Put_ch(Msg("BenchMark")) /\ OnlyLoop("loop")
     \/ /\ "script" \in Faults
        /\ \E S \in SUBSET Active : sys' = SetOn(answer.param, S)
        /\ OnlyLoop("return") /\ UNCHANGED <<iter, chan>>
  /\ UNCHANGED <<restoreFile, sender, streamVars, engineVars, maxIter, filter,
                 selected, skip, backedUp, content, sumEval, evalBase, minEval,
                 finalEval, taskURL, answer>>
  /\ HandlerFrame

(* The lengths the handler compares: "" splits into one field.             *)
Fields(n) == IF n = 0 THEN 1 ELSE n

(* 2 on stopCh asks for one more phase only: too few parameters are left to *)
(* select from, or the selection removed none.  sel is TuningParams, before *)
(* and after are the numbers of parameters that were and remain optional.   *)
TooFewIgnored(sel, before, after) ==
  IF Fields(before) = Fields(after) THEN 2 ELSE 1
StopSignal(sel, before, after) ==
  IF \/ Cardinality(Knobs) - Cardinality(sel) < FilterCount
     \/ Fields(before) = Fields(after) THEN 2 ELSE 1

(* filterParams and what follows a finished answer.  The rank orders the   *)
(* active parameters in a way the model leaves open; whether the evaluations*)
(* fluctuated enough to drop any is open too.  Without feature selection   *)
(* there is no rank (sel_feature is off) and the result is displayed.      *)
Conclude ==
  /\ CanStep("conclude")
  /\ \/ /\ ~filter
        /\ Put_ch(MsgVal("Result", finalEval))
        /\ stop' = StopSignal(selected, Cardinality(Active), 0)
        /\ UNCHANGED <<selected, skip>>
     \/ /\ filter
        /\ \E chosen \in SUBSET Active :
             /\ Cardinality(chosen) \in {0, FilterCount}
             /\ selected' = selected \cup chosen
             /\ skip' = skip \cup chosen
             /\ stop' = StopSignal(selected', Cardinality(Active),
                                   Cardinality(Active \ chosen))
        /\ UNCHANGED chan
  /\ iter' = 0
  /\ hpc' = "delete"
  /\ UNCHANGED <<cycles, sender, streamVars, sysVars, engineVars, maxIter, filter,
                 backedUp, content, sumEval, evalBase, minEval, finalEval,
                 taskURL, answer>>
  /\ HandlerFrame

(* sortedParams[:skipIndex] with fewer than FeatureFilterCount parameters  *)
(* panics, and nothing recovers: the daemon dies with every handler.  The   *)
(* deferred DeleteTask runs while it panics and is left out: it is the      *)
(* harder case that the engine keeps the task of a daemon that died.        *)
Panic ==
  /\ CanStep("conclude")
  /\ filter /\ FilterCount > Cardinality(Active)
  /\ OnlyLoop("panic")
  /\ conn' = IF conn = "open" THEN "ended" ELSE conn
  /\ sender' = None
  /\ UNCHANGED <<chan, up, down, sysVars, optVars, engineVars>> /\ HandlerFrame

DeleteTask ==
  /\ CanStep("delete")
  /\ Request("delete") /\ OnlyLoop("deleted")
  /\ UNCHANGED <<chanVars, streamVars, sysVars, optVars>> /\ HandlerFrame

Deleted ==
  /\ CanStep("deleted") /\ http = "ok"
  /\ Request("none") /\ OnlyLoop("loop")
  /\ UNCHANGED <<chanVars, streamVars, sysVars, optVars>> /\ HandlerFrame

-----------------------------------------------------------------------------
(* The deferred calls of Tuning: DeleteTask when a task was created, then  *)
(* close(ch), Unlock and the end of the stream.                            *)
AfterIteration == taskURL /\ iter # 0
TaskToDelete == taskURL

Return ==
  /\ CanStep("return")
  /\ IF TaskToDelete THEN Request("delete") ELSE UNCHANGED engineVars
  /\ OnlyLoop("returned")
  /\ UNCHANGED <<chanVars, streamVars, sysVars, optVars>> /\ HandlerFrame

Returned ==
  /\ CanStep("returned") /\ http \in {"none", "ok"}
  /\ Request("none") /\ OnlyLoop("idle")
  /\ taskURL' = FALSE
  /\ conn' = IF conn = "open" THEN "ended" ELSE conn
  /\ up' = <<>>
  /\ sender' = None
  /\ UNCHANGED <<chan, down, sysVars, iter, maxIter, filter, selected, skip,
                 backedUp, content, sumEval, evalBase, minEval, finalEval, answer>>
  /\ HandlerFrame

Sender == SenderTake \/ SenderSend

Handler == \/ Select \/ HandlerEOF \/ HandleJobInit \/ HandleJobCreate
           \/ HandleJobRestart \/ HandleBenchMark \/ HandleRestore
           \/ Backup \/ Create \/ Created \/ CreateFailed \/ Open \/ Opened
           \/ Evaluate \/ Answer \/ Apply \/ Conclude \/ Panic
           \/ DeleteTask \/ Deleted \/ Return \/ Returned

ServerTypeOK ==
  /\ hpc \in HandlerStates
  /\ chan \in DownMessage \cup {None}
  /\ sender \in DownMessage \cup {None}
  /\ cycles \in Int
  /\ stop \in 0..2
  /\ iter \in Nat /\ maxIter \in Nat
  /\ filter \in BOOLEAN /\ backedUp \in BOOLEAN /\ taskURL \in BOOLEAN
  /\ selected \subseteq Knobs /\ skip \subseteq Knobs
  /\ content \in Int \cup {None}
  /\ sumEval \in Int /\ evalBase \in Int /\ minEval \in Int
  /\ finalEval \in Int \cup {None}
=============================================================================
