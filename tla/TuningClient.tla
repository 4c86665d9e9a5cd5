---------------------------- MODULE TuningClient ----------------------------
(***************************************************************************)
(* "atune-adm tuning" (modules/client/profile/profile_tuning.go): the loop *)
(* over the messages of the server and the goroutine that benchmarks the   *)
(* baseline at the same time.  Restart (--restart) is not modelled here.   *)
(***************************************************************************)
EXTENDS TuningVars

ClientStates   == {"idle", "receive", "benchmark"}
BaselineStates == {"none", "running", "ok", "failed"}

(* What a client that goes away leaves: its connection is closed, so what  *)
(* was sent to it and not read is lost.                                    *)
Leave ==
  /\ cpc' = "idle"
  /\ conn' = IF conn = "open" THEN "closed" ELSE conn
  /\ down' = <<>>

Running == cpc \in {"receive", "benchmark"}

(* profileTunning, checkTuningPrjYaml and the opening of the stream: the   *)
(* handler starts when TryLock succeeds, that is when no other one runs;   *)
(* its Optimizer is fresh and its project loaded from the yaml.            *)
StartSession(cmd) ==
  /\ cpc = "idle" /\ hpc = "idle"
  /\ sessions < MaxSessions
  /\ cmd \in SessionKinds
  /\ cpc' = "receive" /\ command' = cmd
  /\ shown' = None
  /\ sessions' = sessions + 1 /\ start' = sys
  /\ conn' = "open" /\ down' = <<>>
  /\ hpc' = "loop" /\ cycles' = 0 /\ stop' = 0
  /\ iter' = 0 /\ maxIter' = 0 /\ filter' = FALSE /\ selected' = {}
  /\ skip' = YamlSkip /\ backedUp' = FALSE /\ content' = None
  /\ sumEval' = 0 /\ evalBase' = 0 /\ minEval' = 0 /\ finalEval' = None
  /\ taskURL' = FALSE /\ answer' = None
  /\ UNCHANGED <<sysVars, chanVars, workerVars, engineVars, results>>

StartTuning ==
  /\ StartSession("tune")
  /\ up' = <<Msg("JobInit")>>
  /\ baseline' = "running" /\ baseSum' = 0

StartRestore ==
  /\ StartSession("restore")
  /\ up' = <<Msg("Restore")>>
  /\ baseline' = "none" /\ baseSum' = 0

ClientFrame == UNCHANGED <<sysVars, chanVars, loopVars, optVars, workerVars,
                           engineVars, start, sessions>>

(* The goroutine: BenchMark once under the configuration found.            *)
BaselineDone ==
  /\ Running /\ baseline = "running"
  /\ \/ \E e \in Evals : baseSum' = e /\ baseline' = "ok"
     \/ "benchmark" \in Faults /\ baseline' = "failed" /\ UNCHANGED baseSum
  /\ UNCHANGED <<cpc, command, shown, streamVars, results>> /\ ClientFrame

(* The next message is one of kind k.                                      *)
Receive(k) ==
  /\ cpc = "receive"
  /\ down # <<>> /\ Head(down).kind = k

Consume == down' = Tail(down)

(* The answer to JobCreate carries the sum the baseline evaluated to.      *)
AnswerWithoutSum == Msg("JobCreate")
JobCreateAnswer == MsgVal("JobCreate", baseSum)

(* What the select on the channels finished and errors waits for.          *)
NoWait == baseline # "failed"
BaselineKnown == baseline = "ok"

(* JobCreate waits for the baseline; a failed one ends the command.        *)
RecvJobCreate ==
  /\ Receive("JobCreate")
  /\ \/ /\ BaselineKnown
        /\ Consume
        /\ Send(JobCreateAnswer)
        /\ UNCHANGED <<cpc, conn>>
     \/ /\ baseline = "failed"
        /\ Leave
        /\ UNCHANGED up
  /\ UNCHANGED <<command, baseline, baseSum, shown, results>> /\ ClientFrame

(* JobInit announces the number of iterations, which is only printed.      *)
RecvJobInit ==
  /\ Receive("JobInit")
  /\ Consume
  /\ UNCHANGED <<cpc, command, baseline, baseSum, shown, up, conn, results>>
  /\ ClientFrame

RecvJobRestart ==
  /\ Receive("JobRestart")
  /\ Consume
  /\ Send(Msg("JobRestart"))
  /\ UNCHANGED <<cpc, command, baseline, baseSum, shown, conn, results>>
  /\ ClientFrame

RecvBenchMark ==
  /\ Receive("BenchMark")
  /\ Consume
  /\ cpc' = "benchmark"
  /\ UNCHANGED <<command, baseline, baseSum, shown, up, conn, results>>
  /\ ClientFrame

(* BenchMark runs the benchmark script and evaluates its output; an error  *)
(* of either script ends the command.                                      *)
BenchMark ==
  /\ cpc = "benchmark"
  /\ \/ \E e \in Evals :
          /\ Send(MsgVal("BenchMark", e))
          /\ results' = Append(results, [config |-> sys, eval |-> e])
          /\ cpc' = "receive"
          /\ UNCHANGED <<down, conn>>
     \/ /\ "benchmark" \in Faults
        /\ Leave
        /\ UNCHANGED <<up, results>>
  /\ UNCHANGED <<command, baseline, baseSum, shown>> /\ ClientFrame

(* Threshold answers in place of a benchmark.                              *)
RecvThreshold ==
  /\ Receive("Threshold")
  /\ Consume
  /\ Send(MsgVal("BenchMark", ThresholdSum))
  /\ UNCHANGED <<cpc, command, baseline, baseSum, shown, conn, results>>
  /\ ClientFrame

RecvResult ==
  /\ Receive("Result")
  /\ Consume
  /\ shown' = Head(down).val
  /\ UNCHANGED <<cpc, command, baseline, baseSum, up, conn, results>>
  /\ ClientFrame

(* Ending leaves the loop: CloseSend, then the connection is closed.       *)
RecvEnding ==
  /\ Receive("Ending")
  /\ Leave
  /\ UNCHANGED <<command, baseline, baseSum, shown, up, results>> /\ ClientFrame

(* The handler has returned and everything it sent was read: EOF or error. *)
RecvEOF ==
  /\ cpc = "receive"
  /\ down = <<>> /\ conn = "ended"
  /\ Leave
  /\ UNCHANGED <<command, baseline, baseSum, shown, up, results>> /\ ClientFrame

(* The user interrupts the command.                                        *)
Abort ==
  /\ "abort" \in Faults
  /\ Running
  /\ Leave
  /\ UNCHANGED <<command, baseline, baseSum, shown, up, results>> /\ ClientFrame

ClientStep == BaselineDone \/ RecvJobCreate \/ RecvJobInit \/ RecvJobRestart
              \/ RecvBenchMark \/ BenchMark \/ RecvThreshold \/ RecvResult
              \/ RecvEnding \/ RecvEOF

ClientTypeOK ==
  /\ cpc \in ClientStates
  /\ command \in {"tune", "restore"}
  /\ baseline \in BaselineStates
  /\ baseSum \in Int
  /\ shown \in Int \cup {None}
=============================================================================
