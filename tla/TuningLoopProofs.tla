-------------------------- MODULE TuningLoopProofs --------------------------
(***************************************************************************)
(* What a session of TuningSession measures and leaves behind, for all     *)
(* values of its constants: the baseline, the restore file, the phases of  *)
(* feature selection, the evaluations and the final result; and, when no   *)
(* proposed assignment violates a relationship between parameters, the     *)
(* evaluations of a task and the refinement of TuningLoop.                 *)
(***************************************************************************)
EXTENDS TuningSessionProofs

-----------------------------------------------------------------------------
(* Where a message of one of the kinds K is.                               *)
Below(K)     == Contains(down, K) \/ Carries(chan, K) \/ Carries(sender, K)
Somewhere(K) == Contains(up, K) \/ Below(K)

LEMMA ClientMessages ==
  ASSUME TypeInv, ClientStep \/ Abort, NEW K
  PROVE  /\ Below(K)' => Below(K)
         /\ Contains(up', K) => \/ Contains(up, K)
                                \/ "JobCreate" \in K /\ baseline = "ok" /\ RecvJobCreate
                                \/ "JobRestart" \in K /\ RecvJobRestart
                                \/ "BenchMark" \in K /\ conn = "open" /\ (BenchMark \/ RecvThreshold)
<1> USE DEF TypeInv, SharedTypeOK
<1>1. UNCHANGED <<chan, sender>>
  BY ClientLeaves DEF ClientFrame, chanVars
<1>2. down' \in {down, <<>>} \/ (down # <<>> /\ down' = Tail(down))
  BY DEF ClientStep, Abort, BaselineDone, RecvJobCreate, RecvJobInit, RecvJobRestart,
     RecvBenchMark, BenchMark, RecvThreshold, RecvResult, RecvEnding, RecvEOF, Receive,
     Consume, Leave, streamVars
<1>3. Below(K)' => Below(K)
  BY <1>1, <1>2, ContainsTail, ContainsEmpty DEF Below, Carries
<1>4. ASSUME NEW m \in UpMessage, Send(m), m.kind \notin K
      PROVE  Contains(up', K) => Contains(up, K)
  BY <1>4, ContainsAppend DEF Send
<1>5. CASE RecvJobCreate
  <2>1. JobCreateAnswer \in UpMessage /\ JobCreateAnswer.kind = "JobCreate"
    BY MsgType DEF JobCreateAnswer, MsgVal, ClientTypeOK
  <2>2. (Send(JobCreateAnswer) /\ baseline = "ok") \/ up' = up
    BY <1>5 DEF RecvJobCreate, BaselineKnown
  <2> QED
    BY <1>3, <1>4, <1>5, <2>1, <2>2
<1>6. CASE RecvJobRestart
  <2>1. Msg("JobRestart") \in UpMessage /\ Msg("JobRestart").kind = "JobRestart"
    BY MsgType DEF UpKinds, Msg
  <2> QED
    BY <1>3, <1>4, <1>6, <2>1 DEF RecvJobRestart
<1>7. CASE BenchMark \/ RecvThreshold
  <2>1. up' = up \/ \E e \in Int : Send(MsgVal("BenchMark", e))
    BY <1>7, ConstAssumption DEF BenchMark, RecvThreshold
  <2>2. \A e \in Int : MsgVal("BenchMark", e) \in UpMessage /\ MsgVal("BenchMark", e).kind = "BenchMark"
    BY MsgType DEF MsgVal
  <2> QED
    BY <1>3, <1>4, <1>7, <2>1, <2>2 DEF Send
<1>8. CASE ~RecvJobCreate /\ ~RecvJobRestart /\ ~BenchMark /\ ~RecvThreshold
  <2>1. up' = up
    BY <1>8 DEF ClientStep, Abort, BaselineDone, RecvJobInit, RecvBenchMark, RecvResult,
       RecvEnding, RecvEOF, streamVars
  <2> QED
    BY <1>3, <2>1
<1> QED
  BY <1>5, <1>6, <1>7, <1>8

(* What the client reads was on the stream.                                *)
LEMMA ClientReads ==
  ASSUME TypeInv
  PROVE  /\ RecvJobCreate  => Contains(down, {"JobCreate"})
         /\ RecvJobRestart => Contains(down, {"JobRestart"})
         /\ RecvBenchMark  => Contains(down, {"BenchMark"})
         /\ RecvThreshold  => Contains(down, {"Threshold"})
         /\ RecvResult     => Contains(down, {"Result"})
  BY ContainsTail DEF TypeInv, SharedTypeOK, RecvJobCreate, RecvJobRestart, RecvBenchMark,
     RecvThreshold, RecvResult, Receive

LEMMA SenderMessages ==
  ASSUME TypeInv, Sender, NEW K
  PROVE  Below(K)' => Below(K)
<1> USE DEF TypeInv, SharedTypeOK, ServerTypeOK
<1>1. CASE SenderTake
  BY <1>1 DEF SenderTake, Below, Carries, streamVars
<1>2. CASE SenderSend
  <2>1. sender \in DownMessage /\ sender' = None /\ chan' = chan /\ Deliver(sender) /\ sender # None
    BY <1>2 DEF SenderSend, Sent
  <2>2. Contains(down', K) => Contains(down, K) \/ sender.kind \in K
    BY <2>1, DeliverTurn
  <2> QED
    BY <2>1, <2>2 DEF Below, Carries
<1> QED
  BY <1>1, <1>2 DEF Sender

LEMMA HandlerMessages ==
  ASSUME TypeInv, Handler, NEW K
  PROVE  /\ Contains(up', K) => Contains(up, K)
         /\ Contains(down', K) => \/ Contains(down, K)
                                  \/ "JobRestart" \in K /\ Select /\ stop # 0 /\ cycles > 0
                                  \/ "Ending" \in K /\ Select /\ stop # 0 /\ cycles <= 0
         /\ Carries(sender', K) => Carries(sender, K)
         /\ Carries(chan', K) => \/ "JobCreate" \in K /\ HandleJobInit /\ cycles' = Cycles
                                 \/ "Ending" \in K /\ HandleRestore
                                 \/ "JobInit" \in K /\ Created
                                 \/ "Threshold" \in K /\ Answer /\ answer.kind # "final"
                                      /\ answer.param \in Mismatched
                                 \/ "BenchMark" \in K /\ Apply /\ iter' = iter + 1
                                 \/ "Result" \in K /\ Conclude /\ ~filter
<1> USE DEF TypeInv, SharedTypeOK
<1>1. Contains(up', K) => Contains(up, K)
  <2>1. up' \in {up, <<>>} \/ (up # <<>> /\ up' = Tail(up))
    BY DEF Handler, Select, HandlerEOF, HandlerReceive, HandleJobInit,
       HandleJobCreate, HandleJobRestart, HandleBenchMark, HandleRestore, Backup,
       Create, Created, CreateFailed, Open, Opened, Evaluate, Answer, Apply, Conclude, Panic,
       DeleteTask, Deleted, Return, Returned, streamVars
  <2> QED
    BY <2>1, ContainsTail, ContainsEmpty
<1>2. Contains(down', K) => \/ Contains(down, K)
                            \/ "JobRestart" \in K /\ Select /\ stop # 0 /\ cycles > 0
                            \/ "Ending" \in K /\ Select /\ stop # 0 /\ cycles <= 0
  <2>1. CASE Select /\ stop # 0
    <3>1. /\ Msg("JobRestart") \in DownMessage /\ Msg("JobRestart").kind = "JobRestart"
          /\ Msg("Ending") \in DownMessage /\ Msg("Ending").kind = "Ending"
      BY MsgType DEF DownKinds, Msg
    <3>2. (Deliver(Msg("JobRestart")) /\ cycles > 0) \/ (Deliver(Msg("Ending")) /\ cycles <= 0)
      BY <2>1 DEF Select
    <3> QED
      BY <2>1, <3>1, <3>2, DeliverTurn
  <2>2. CASE ~(Select /\ stop # 0)
    <3>1. down' = down
      BY <2>2 DEF Handler, Select, HandlerEOF, HandlerReceive, HandleJobInit,
         HandleJobCreate, HandleJobRestart, HandleBenchMark, HandleRestore, Backup,
         Create, Created, CreateFailed, Open, Opened, Evaluate, Answer, Apply, Conclude, Panic,
         DeleteTask, Deleted, Return, Returned, streamVars
    <3> QED
      BY <3>1
  <2> QED
    BY <2>1, <2>2
<1>3. Carries(sender', K) => Carries(sender, K)
  <2>1. sender' \in {sender, None}
    BY DEF Handler, Select, HandlerEOF, HandlerReceive, HandleJobInit,
       HandleJobCreate, HandleJobRestart, HandleBenchMark, HandleRestore, Backup,
       Create, Created, CreateFailed, Open, Opened, Evaluate, Answer, Apply, Conclude, Panic,
       DeleteTask, Deleted, Return, Returned, chanVars
  <2> QED
    BY <2>1 DEF Carries
<1>4. ASSUME Carries(chan', K)
      PROVE  \/ "JobCreate" \in K /\ HandleJobInit /\ cycles' = Cycles
             \/ "Ending" \in K /\ HandleRestore
             \/ "JobInit" \in K /\ Created
             \/ "Threshold" \in K /\ Answer /\ answer.kind # "final" /\ answer.param \in Mismatched
             \/ "BenchMark" \in K /\ Apply /\ iter' = iter + 1
             \/ "Result" \in K /\ Conclude /\ ~filter
  <2>1. chan = None /\ chan' # None /\ chan'.kind \in K
    BY <1>4, HandlerLeaves DEF Carries
  <2>2. HandleJobInit \/ HandleRestore \/ Created \/ Answer \/ Apply \/ Conclude
    BY <2>1 DEF Handler, Select, HandlerEOF, HandleJobCreate, HandleJobRestart,
       HandleBenchMark, Backup, Create, CreateFailed, Open, Opened, Evaluate, Panic,
       DeleteTask, Deleted, Return, Returned, chanVars
  <2> QED
    BY <2>1, <2>2 DEF HandleJobInit, HandleRestore, Created, Answer, Apply, Conclude,
       Put_ch, Msg, MsgVal
<1> QED
  BY <1>1, <1>2, <1>3, <1>4

(* What the handler receives was in flight, alone.                         *)
LEMMA HandlerReads ==
  ASSUME TypeInv, TurnInv, NEW k, HandlerReceive(k)
  PROVE  Contains(up, {k}) /\ ~Contains(up', {k}) /\ up' = <<>> /\ hpc = "receive"
<1>1. up' = <<>>
  BY TurnReceived
<1>2. Contains(up, {k})
  BY ContainsTail DEF HandlerReceive, TypeInv, SharedTypeOK
<1> QED
  BY <1>1, <1>2, ContainsEmpty DEF HandlerReceive, CanStep

LEMMA StartMessages ==
  ASSUME TypeInv, TurnInv, Start, NEW K
  PROVE  /\ ~Below(K)'
         /\ Contains(up', K) => \/ "JobInit" \in K /\ command' = "tune"
                                \/ "Restore" \in K /\ command' = "restore" /\ baseline' = "none"
<1>1. chan' = None /\ sender' = None /\ down' = <<>>
  BY StartLeaves DEF TurnInv, chanVars
<1>2. \/ up' = <<Msg("JobInit")>> /\ command' = "tune"
      \/ up' = <<Msg("Restore")>> /\ command' = "restore" /\ baseline' = "none"
  BY DEF Start, StartTuning, StartRestore, StartSession
<1>3. \A m : Contains(<<m>>, K) => m.kind \in K
  <2>1. \A m : DOMAIN <<m>> = 1 .. 1 /\ 1 .. 1 = {1} /\ <<m>>[1] = m
    OBVIOUS
  <2> QED
    BY <2>1 DEF Contains
<1> QED
  BY <1>1, <1>2, <1>3, ContainsEmpty DEF Below, Carries, Msg

(* The other steps leave the messages alone.                               *)
LEMMA OtherMessages ==
  ASSUME Engine \/ Worker \/ Terminated \/ UNCHANGED vars, NEW K
  PROVE  (Below(K)' <=> Below(K)) /\ UNCHANGED <<up, down, chan, sender, conn>>
<1>1. UNCHANGED <<up, down, chan, sender, conn>>
  BY EngineLeaves, WorkerLeaves DEF Terminated, vars, streamVars, chanVars
<1> QED
  BY <1>1 DEF Below, Carries

-----------------------------------------------------------------------------
(* A client that runs while its handler does is connected to it, and the   *)
(* handler stays while a benchmark is asked of the client.                 *)
ConnInv ==
  /\ cpc # "idle" /\ hpc \notin {"idle", "panic"} => conn = "open"
  /\ cpc = "benchmark" \/ Contains(down, {"BenchMark"}) => conn = "open"

LEMMA ConnStep ==
  ASSUME SafeInv, ConnInv, [Next]_vars
  PROVE  ConnInv'
<1> USE DEF SafeInv, ConnInv
<1>1. CASE ClientStep \/ Abort
  <2>1. hpc' = hpc
    BY <1>1, ClientLeaves DEF ClientFrame, loopVars
  <2>2. Contains(down', {"BenchMark"}) => Contains(down, {"BenchMark"})
    BY <1>1, ClientMessages, ContainsTail, ContainsEmpty DEF ClientStep, Abort, BaselineDone, RecvJobCreate, RecvJobInit,
       RecvJobRestart, RecvBenchMark, BenchMark, RecvThreshold, RecvResult, RecvEnding, RecvEOF,
       Receive, Consume, Leave, streamVars, TypeInv, SharedTypeOK
  <2>3. (cpc' = "idle" /\ down' = <<>>) \/ (conn' = conn /\ (cpc' # "idle" => cpc # "idle"))
    BY <1>1 DEF ClientStep, Abort, BaselineDone, RecvJobCreate, RecvJobInit,
       RecvJobRestart, RecvBenchMark, BenchMark, RecvThreshold, RecvResult, RecvEnding, RecvEOF,
       Receive, Leave, streamVars, Running
  <2>4. cpc' = "benchmark" => cpc = "benchmark" \/ RecvBenchMark
    BY <1>1 DEF ClientStep, Abort, BaselineDone, RecvJobCreate, RecvJobInit,
       RecvJobRestart, BenchMark, RecvThreshold, RecvResult, RecvEnding, RecvEOF,
       Receive, Leave
  <2> QED
    BY <2>1, <2>2, <2>3, <2>4, ContainsEmpty, ClientReads
<1>2. CASE Start
  BY <1>2, StartLeaves
<1>3. CASE Sender
  <2>1. UNCHANGED <<hpc, conn, cpc>>
    BY <1>3, SenderLeaves DEF loopVars, clientVars
  <2>2. Contains(down', {"BenchMark"}) => Contains(down, {"BenchMark"}) \/ conn = "open"
    BY <1>3 DEF Sender, SenderTake, SenderSend, Deliver, streamVars
  <2> QED
    BY <2>1, <2>2
<1>4. CASE Engine \/ Worker \/ Terminated \/ UNCHANGED vars
  <2>1. UNCHANGED <<hpc, conn, cpc, down>>
    BY <1>4, EngineLeaves, WorkerLeaves DEF Terminated, vars, loopVars, clientVars, streamVars
  <2> QED
    BY <2>1
<1>5. CASE Handler
  <2>1. cpc' = cpc /\ hpc # "idle"
    BY <1>5, HandlerLeaves DEF HandlerFrame, clientVars, Handler, Select, HandlerEOF,
       HandlerReceive, HandleJobInit, HandleJobCreate, HandleJobRestart, HandleBenchMark,
       HandleRestore, Backup, Create, Created, CreateFailed, Open, Opened, Evaluate, Answer,
       Apply, Conclude, Panic, DeleteTask, Deleted, Return, Returned, CanStep
  <2>2. Contains(down', {"BenchMark"}) => Contains(down, {"BenchMark"})
    BY <1>5, HandlerMessages
  <2>3. CASE Panic \/ Returned
    <3>1. hpc \notin {"loop", "receive"} /\ hpc' \in {"idle", "panic"} /\ down' = down
      BY <2>3 DEF Panic, Returned, CanStep, OnlyLoop
    <3>2. ~(conn = "open" /\ BenchOut)
      BY <3>1 DEF BenchInv
    <3> QED
      BY <2>1, <3>1, <3>2 DEF BenchOut, AtClient
  <2>4. CASE ~Panic /\ ~Returned
    <3>1. conn' = conn /\ hpc # "panic"
      BY <1>5, <2>4 DEF Handler, Select, HandlerEOF, HandlerReceive, HandleJobInit,
         HandleJobCreate, HandleJobRestart, HandleBenchMark, HandleRestore, Backup, Create,
         Created, CreateFailed, Open, Opened, Evaluate, Answer, Apply, Conclude, DeleteTask,
         Deleted, Return, CanStep, streamVars
    <3> QED
      BY <2>1, <2>2, <3>1
  <2> QED
    BY <2>3, <2>4
<1> QED
  BY <1>1, <1>2, <1>3, <1>4, <1>5 DEF Next

-----------------------------------------------------------------------------
(* BaselineUntouched.                                                      *)

(* While the baseline is measured the exchange is not past JobCreate.      *)
BaselineInv ==
  cpc # "idle" /\ baseline = "running" =>
    /\ sys = start /\ cpc = "receive" /\ stop = 0
    /\ hpc \in {"loop", "receive", "return", "returned", "idle"}
    /\ ~Somewhere({"JobRestart", "BenchMark", "Threshold", "Restore"})
    /\ ~Contains(up, {"JobCreate"})

LEMMA BaselineStep ==
  ASSUME SafeInv, BaselineInv, [Next]_vars
  PROVE  BaselineInv'
<1> DEFINE K == {"JobRestart", "BenchMark", "Threshold", "Restore"}
<1>0. TypeInv /\ TurnInv
  BY DEF SafeInv
<1>1. CASE Start
  <2>1. sys' = start' /\ stop' = 0 /\ cpc' = "receive" /\ hpc' = "loop"
    BY <1>1 DEF Start, StartTuning, StartRestore, StartSession, sysVars
  <2> QED
    BY <1>0, <1>1, <2>1, StartMessages DEF BaselineInv, Somewhere
<1>2. SUFFICES ASSUME ~Start, cpc' # "idle", baseline' = "running" PROVE BaselineInv'
  BY <1>1 DEF BaselineInv
<1>3. cpc # "idle" /\ baseline = "running" /\ start' = start
  <2>1. CASE ClientStep \/ Abort
    BY <1>2, <2>1 DEF ClientStep, Abort, BaselineDone, RecvJobCreate, RecvJobInit,
       RecvJobRestart, RecvBenchMark, BenchMark, RecvThreshold, RecvResult, RecvEnding, RecvEOF,
       Receive, Leave, ClientFrame, Running
  <2>2. CASE ~ClientStep /\ ~Abort
    <3>1. UNCHANGED <<clientVars, start>>
      BY <1>2, <2>2, SenderLeaves, HandlerLeaves, EngineLeaves, WorkerLeaves
         DEF Next, HandlerFrame, historyVars, Terminated, vars
    <3> QED
      BY <1>2, <3>1 DEF clientVars
  <2> QED
    BY <2>1, <2>2
<1>4. /\ sys = start /\ cpc = "receive" /\ stop = 0
      /\ hpc \in {"loop", "receive", "return", "returned", "idle"}
      /\ ~Contains(up, K) /\ ~Below(K) /\ ~Contains(up, {"JobCreate"})
  BY <1>3 DEF BaselineInv, Somewhere
<1>5. CASE ClientStep \/ Abort
  <2>1. UNCHANGED <<sys, stop, hpc>>
    BY <1>5, ClientLeaves DEF ClientFrame, sysVars, loopVars
  <2>2. Contains(down, {"JobRestart"}) \/ Contains(down, {"BenchMark"})
           \/ Contains(down, {"Threshold"}) => Below(K)
    BY ContainsMore DEF Below
  <2>3. ~RecvJobRestart /\ ~RecvBenchMark /\ ~RecvThreshold /\ ~BenchMark
    BY <1>0, <1>4, <2>2, ClientReads DEF BenchMark
  <2>4. cpc' = "receive"
    BY <1>2, <1>4, <1>5, <2>3 DEF ClientStep, Abort, BaselineDone, RecvJobCreate, RecvJobInit,
       RecvResult, RecvEnding, RecvEOF, Leave
  <2> QED
    BY <1>0, <1>3, <1>4, <1>5, <2>1, <2>3, <2>4, ClientMessages DEF BaselineInv, Somewhere
<1>6. CASE Sender
  BY <1>0, <1>3, <1>4, <1>6, SenderLeaves, SenderMessages DEF BaselineInv, Somewhere, sysVars, clientVars, loopVars
<1>7. CASE Engine \/ Worker \/ Terminated \/ UNCHANGED vars
  <2>1. UNCHANGED <<sys, cpc, stop, hpc>>
    BY <1>7, EngineLeaves, WorkerLeaves DEF Terminated, vars, sysVars, clientVars, loopVars
  <2> QED
    BY <1>3, <1>4, <1>7, <2>1, OtherMessages DEF BaselineInv, Somewhere
<1>8. CASE Handler
  <2>1. cpc' = cpc
    BY <1>8, HandlerLeaves DEF HandlerFrame, clientVars
  <2>2. ~HandleJobCreate /\ ~HandleJobRestart /\ ~HandleBenchMark /\ ~HandleRestore
    <3>1. Contains(up, {"JobRestart"}) \/ Contains(up, {"BenchMark"})
             \/ Contains(up, {"Restore"}) => Contains(up, K)
      BY ContainsMore
    <3> QED
      BY <1>0, <1>4, <3>1, HandlerReads DEF HandleJobCreate, HandleJobRestart, HandleBenchMark,
         HandleRestore
  <2>3. sys' = sys /\ stop' = 0 /\ hpc' \in {"loop", "receive", "return", "returned", "idle"}
    BY <1>4, <1>8, <2>2 DEF Handler, Select, HandlerEOF, HandleJobInit, Backup, Create,
       Created, CreateFailed, Open, Opened, Evaluate, Answer, Apply, Conclude, Panic,
       DeleteTask, Deleted, Return, Returned, CanStep, OnlyLoop, sysVars
  <2>4. ~Contains(up', K) /\ ~Below(K)' /\ ~Contains(up', {"JobCreate"})
    <3>1. ~Answer /\ ~Apply
      BY <1>4 DEF Answer, Apply, CanStep
    <3> QED
      BY <1>0, <1>4, <1>8, <2>2, <3>1, HandlerMessages DEF Below
  <2> QED
    BY <1>3, <1>4, <2>1, <2>3, <2>4 DEF BaselineInv, Somewhere
<1> QED
  BY <1>2, <1>5, <1>6, <1>7, <1>8 DEF Next

(* The baseline is measured under the configuration the session found: the *)
(* goroutine that benchmarks it has ended before a parameter is set.       *)
THEOREM BaselineMeasured == Spec => []BaselineUntouched
<1>1. Init => BaselineInv
  BY DEF Init, BaselineInv
<1>2. SafeInv /\ BaselineInv /\ [Next]_vars => BaselineInv'
  BY BaselineStep
<1>3. BaselineInv => BaselineUntouched
  BY DEF BaselineInv, BaselineUntouched
<1> QED
  BY <1>1, <1>2, <1>3, SafeAlways, PTL DEF Spec
-----------------------------------------------------------------------------
(* The phases of a session.                                                *)

(* Who has the turn finds no message of the exchange in flight.            *)
LEMMA TurnAlone ==
  ASSUME TypeInv, TurnInv, AtHandler \/ AtStop, NEW K, K \subseteq TurnKinds
  PROVE  ~Below(K) /\ up = <<>> /\ \A L : ~Contains(up, L)
<1>1. Contains(down, K) => AtDown
  BY ContainsMore DEF AtDown
<1>2. Carries(chan, K) => AtChan
  BY DEF Carries, AtChan
<1>3. Carries(sender, K) => AtSender
  BY DEF Carries, AtSender
<1> QED
  BY <1>1, <1>2, <1>3, ContainsEmpty DEF TurnInv, Exclusive, AtUp, Below

LEMMA ReceivedAlone ==
  ASSUME TypeInv, TurnInv, NEW k, HandlerReceive(k), NEW K, K \subseteq TurnKinds
  PROVE  /\ stop = 0 /\ chan = None /\ \A L : ~Contains(up', L)
         /\ ~Contains(down', K) /\ ~Carries(sender', K)
<1>1. /\ up' = <<>> /\ chan = None /\ ~AtDown' /\ ~AtSender' /\ ~AtStop
  BY TurnReceived
<1>2. Contains(down', K) => AtDown'
  BY ContainsMore DEF AtDown
<1>3. Carries(sender', K) => AtSender'
  BY DEF Carries, AtSender
<1> QED
  BY <1>1, <1>2, <1>3, ContainsEmpty DEF AtStop

(* The handler steps that open or close a phase, and the others.           *)
Turning == \/ Select /\ stop # 0
           \/ HandleJobInit \/ HandleJobCreate \/ HandleJobRestart \/ Conclude

AtPhase == hpc \in {"backup", "create", "created"} \/ wpc # "none" \/ stop # 0

LEMMA CalmStep ==
  ASSUME Handler, ~Turning
  PROVE  /\ UNCHANGED <<cycles, stop, filter, selected, skip, maxIter>>
         /\ AtPhase' => AtPhase
<1>1. UNCHANGED <<cycles, stop, filter, selected, skip, maxIter>>
  BY DEF Turning, Handler, Select, HandlerEOF, HandleBenchMark, HandleRestore, Backup,
     Create, Created, CreateFailed, Open, Opened, Evaluate, Answer, Apply, Panic,
     DeleteTask, Deleted, Return, Returned, OnlyLoop, optVars
<1>2. wpc' = wpc
  BY HandlerLeaves DEF HandlerFrame, workerVars
<1>3. hpc' \in {"backup", "create", "created"} => hpc \in {"backup", "create", "created"}
  BY DEF Turning, Handler, Select, HandlerEOF, HandleBenchMark, HandleRestore, Backup,
     Create, Created, CreateFailed, Open, Opened, Evaluate, Answer, Apply, Panic,
     DeleteTask, Deleted, Return, Returned, OnlyLoop, CanStep
<1> QED
  BY <1>1, <1>2, <1>3 DEF AtPhase

(* Nothing is selected, skipped or backed up before the first phase, whose *)
(* cycles are those of the client.                                         *)
FreshInv ==
  /\ cycles <= Cycles
  /\ Contains(up, {"JobInit"}) \/ Somewhere({"JobCreate"}) =>
       selected = {} /\ skip = YamlSkip /\ ~backedUp
  /\ Somewhere({"JobCreate"}) => cycles = Cycles

LEMMA FreshStep ==
  ASSUME SafeInv, FreshInv, [Next]_vars
  PROVE  FreshInv'
<1>0. TypeInv /\ TurnInv /\ Cycles \in Nat /\ cycles \in Int
  BY ConstAssumption DEF SafeInv, TypeInv, ServerTypeOK
<1>1. CASE Start
  <2>1. cycles' = 0 /\ selected' = {} /\ skip' = YamlSkip /\ ~backedUp'
    BY <1>1 DEF Start, StartTuning, StartRestore, StartSession
  <2>2. ~Somewhere({"JobCreate"})'
    BY <1>0, <1>1, StartMessages DEF Somewhere
  <2> QED
    BY <1>0, <2>1, <2>2 DEF FreshInv
<1>2. ASSUME ~Handler, ~Start
      PROVE  /\ UNCHANGED <<cycles, selected, skip, backedUp>>
             /\ Contains(up', {"JobInit"}) => Contains(up, {"JobInit"})
             /\ Somewhere({"JobCreate"})' => Somewhere({"JobCreate"})
  <2>1. UNCHANGED <<cycles, selected, skip, backedUp>>
    BY <1>2, ClientLeaves, SenderLeaves, EngineLeaves, WorkerLeaves
       DEF Next, ClientFrame, Terminated, vars, loopVars, optVars
  <2>2. CASE ClientStep \/ Abort
    BY <1>0, <2>1, <2>2, ClientMessages, ClientReads DEF Somewhere, Below
  <2>3. CASE Sender
    <3>1. up' = up
      BY <2>3, SenderLeaves
    <3> QED
      BY <1>0, <2>1, <2>3, <3>1, SenderMessages DEF Somewhere
  <2>4. CASE Engine \/ Worker \/ Terminated \/ UNCHANGED vars
    BY <2>1, <2>4, OtherMessages DEF Somewhere
  <2> QED
    BY <1>2, <2>2, <2>3, <2>4 DEF Next
<1>3. CASE Handler
  <2>1. CASE AtHandler \/ (Select /\ stop # 0)
    <3>1. ~Contains(up, {"JobInit"}) /\ ~Somewhere({"JobCreate"})
      BY <1>0, <2>1, TurnAlone DEF AtStop, Somewhere, TurnKinds
    <3>2. ~HandleJobInit /\ cycles' <= cycles
      BY <1>0, <1>3, <2>1 DEF HandleJobInit, HandlerReceive, CanStep, AtHandler, Handler,
         Select, HandlerEOF, HandleJobCreate, HandleJobRestart, HandleBenchMark,
         HandleRestore, Backup, Create, Created, CreateFailed, Open, Opened, Evaluate,
         Answer, Apply, Conclude, Panic, DeleteTask, Deleted, Return, Returned, OnlyLoop
    <3>3. ~Contains(up', {"JobInit"}) /\ ~Somewhere({"JobCreate"})'
      BY <1>0, <1>3, <3>1, <3>2, HandlerMessages DEF Somewhere, Below
    <3>4. cycles' \in Int
      BY <1>0, <1>3, <2>1, <3>2 DEF Handler,
         Select, HandlerEOF, HandleJobCreate, HandleJobRestart, HandleBenchMark,
         HandleRestore, Backup, Create, Created, CreateFailed, Open, Opened, Evaluate,
         Answer, Apply, Conclude, Panic, DeleteTask, Deleted, Return, Returned, OnlyLoop
    <3> QED
      BY <1>0, <3>2, <3>3, <3>4 DEF FreshInv
  <2>2. CASE HandleJobInit
    <3>1. Contains(up, {"JobInit"}) /\ ~Contains(up', {"JobInit"})
      BY <1>0, <2>2, HandlerReads DEF HandleJobInit
    <3>2. /\ UNCHANGED <<selected, skip, backedUp>>
          /\ cycles' = Cycles \/ (cycles' = cycles /\ chan' = chan)
      BY <2>2 DEF HandleJobInit
    <3>3. chan' = chan => ~Somewhere({"JobCreate"})'
      BY <1>0, <2>2, <3>1, ReceivedAlone DEF HandleJobInit, Somewhere, Below, Carries, TurnKinds
    <3> QED
      BY <1>0, <3>1, <3>2, <3>3 DEF FreshInv
  <2>3. CASE HandleJobCreate \/ HandleJobRestart
    <3>1. cycles' = cycles /\ chan' = chan
      BY <2>3 DEF HandleJobCreate, HandleJobRestart
    <3>2. ~Contains(up', {"JobInit"}) /\ ~Somewhere({"JobCreate"})'
      BY <1>0, <2>3, <3>1, ReceivedAlone
         DEF HandleJobCreate, HandleJobRestart, Somewhere, Below, Carries, TurnKinds
    <3> QED
      BY <3>1, <3>2 DEF FreshInv
  <2>4. CASE ~AtHandler /\ ~Turning
    <3>1. UNCHANGED <<cycles, selected, skip, backedUp>>
      BY <1>3, <2>4, CalmStep DEF AtHandler, Turning, Handler, Select, HandlerEOF,
         HandleBenchMark, HandleRestore, Backup, Create, Created, CreateFailed, Open, Opened,
         Evaluate, Answer, Apply, Panic, DeleteTask, Deleted, Return, Returned, CanStep, optVars
    <3>2. Contains(up', {"JobInit"}) => Contains(up, {"JobInit"})
      BY <1>0, <1>3, HandlerMessages
    <3>3. Somewhere({"JobCreate"})' => Somewhere({"JobCreate"})
      BY <1>0, <1>3, <2>4, HandlerMessages DEF Somewhere, Below, Turning
    <3> QED
      BY <3>1, <3>2, <3>3 DEF FreshInv
  <2>5. Conclude => AtHandler
    BY DEF Conclude, CanStep, AtHandler
  <2> QED
    BY <2>1, <2>2, <2>3, <2>4, <2>5 DEF Turning
<1> QED
  <2>1. CASE ~Handler /\ ~Start
    BY <1>2, <2>1 DEF FreshInv
  <2> QED
    BY <1>1, <1>3, <2>1
(* A phase selects features exactly while cycles are left.                 *)
CycleInv == AtPhase => IF filter THEN cycles > 0 ELSE cycles <= 0

LEMMA PhaseBegins ==
  ASSUME SafeInv, HandleJobInit \/ HandleJobCreate \/ HandleJobRestart \/ (Select /\ stop # 0)
  PROVE  wpc = "none" /\ wpc' = "none"
<1>0. TypeInv /\ TurnInv /\ PhaseInv
  BY DEF SafeInv
<1>1. CASE Select /\ stop # 0
  BY <1>0, <1>1 DEF Select, CanStep, PhaseInv, Beginning, AtStop, HandlerFrame, workerVars
<1>2. CASE HandleJobInit \/ HandleJobCreate \/ HandleJobRestart
  <2>1. PICK k \in PhaseKinds : HandlerReceive(k)
    BY <1>2 DEF HandleJobInit, HandleJobCreate, HandleJobRestart, PhaseKinds
  <2>2. Contains(up, PhaseKinds)
    <3>1. Contains(up, {k})
      BY <1>0, <2>1, HandlerReads
    <3> QED
      BY <3>1 DEF Contains
  <2> QED
    BY <1>0, <1>2, <2>1, <2>2 DEF PhaseInv, Beginning, HandlerReceive, HandlerFrame, workerVars
<1> QED
  BY <1>1, <1>2

LEMMA CycleStep ==
  ASSUME SafeInv, FreshInv, CycleInv, [Next]_vars
  PROVE  CycleInv'
<1>0. TypeInv /\ TurnInv /\ TaskInv /\ AskInv /\ Control /\ Cycles \in Nat /\ cycles \in Int
  BY ConstAssumption DEF SafeInv, TypeInv, ServerTypeOK
<1>1. CASE Start
  <2>1. ~AtPhase'
    BY <1>0, <1>1, StartLeaves DEF AtPhase, TaskInv, workerVars
  <2> QED
    BY <2>1 DEF CycleInv
<1>2. CASE ~Start /\ ~Handler
  <2>1. UNCHANGED <<filter, cycles, hpc, stop>>
    BY <1>2, ClientLeaves, SenderLeaves, EngineLeaves, WorkerLeaves
       DEF Next, ClientFrame, Terminated, vars, loopVars, optVars
  <2>2. AtPhase' => AtPhase
    <3>1. CASE ~Engine /\ ~Worker
      BY <1>2, <2>1, <3>1, ClientLeaves, SenderLeaves
         DEF Next, ClientFrame, Terminated, vars, workerVars, AtPhase
    <3>2. CASE Worker
      BY <2>1, <3>2 DEF Worker, WorkerAsk, WorkerTell, WorkerFinish, WorkerFail, WorkerDie, AtPhase
    <3>3. CASE Engine
      BY <1>0, <2>1, <3>3 DEF Engine, Post, PostRefused, PutInit, Put, PutReply, Delete,
         workerVars, AtPhase, Control, HttpPhase
    <3> QED
      BY <3>1, <3>2, <3>3
  <2> QED
    BY <2>1, <2>2 DEF CycleInv
<1>3. CASE Handler
  <2>1. CASE ~Turning
    BY <1>3, <2>1, CalmStep DEF CycleInv
  <2>2. CASE (Select /\ stop # 0) \/ HandleJobInit
    <3>1. stop' = 0 /\ hpc' \in {"loop", "receive", "return"}
      BY <1>0, <2>2, ReceivedAlone DEF Select, HandleJobInit
    <3> QED
      BY <2>2, <3>1, PhaseBegins DEF AtPhase, CycleInv
  <2>3. CASE HandleJobCreate
    <3>1. cycles' = cycles /\ IF cycles = 0 THEN filter' = FALSE ELSE filter' = TRUE
      BY <2>3 DEF HandleJobCreate, InitTuned, InitFeatureSel
    <3>2. cycles = Cycles
      BY <1>0, <2>3, HandlerReads DEF HandleJobCreate, FreshInv, Somewhere
    <3> QED
      BY <1>0, <3>1, <3>2 DEF CycleInv
  <2>4. CASE HandleJobRestart
    <3>1. cycles' = cycles /\ IF cycles > 0 THEN filter' = TRUE ELSE filter' = FALSE
      BY <2>4 DEF HandleJobRestart, InitTuned, InitFeatureSel
    <3> QED
      BY <1>0, <3>1 DEF CycleInv
  <2>5. CASE Conclude
    <3>1. AtPhase /\ cycles' = cycles /\ filter' = filter
      BY <1>0, <2>5 DEF Conclude, CanStep, AtPhase, AskInv
    <3> QED
      BY <3>1 DEF CycleInv
  <2> QED
    BY <2>1, <2>2, <2>3, <2>4, <2>5 DEF Turning
<1> QED
  BY <1>1, <1>2, <1>3

LEMMA PhasesInit == Init => FreshInv /\ CycleInv
<1> SUFFICES ASSUME Init PROVE FreshInv /\ CycleInv
  OBVIOUS
<1>1. /\ up = <<>> /\ down = <<>> /\ chan = None /\ sender = None
      /\ cycles = 0 /\ stop = 0 /\ hpc = "idle" /\ wpc = "none"
  BY DEF Init
<1> QED
  BY <1>1, ContainsEmpty, ConstAssumption
     DEF FreshInv, CycleInv, Somewhere, Below, Carries, AtPhase

LEMMA PhasesAlways == Spec => [](SafeInv /\ FreshInv /\ CycleInv)
<1>1. SafeInv /\ FreshInv /\ CycleInv /\ [Next]_vars => (FreshInv /\ CycleInv)'
  BY FreshStep, CycleStep
<1> QED
  BY <1>1, PhasesInit, SafeAlways, PTL DEF Spec

-----------------------------------------------------------------------------
(* NoPanic.                                                                *)

(* There are enough parameters left to select from.                        *)
Room == Cardinality(Knobs) - Cardinality(selected) >= FilterCount

RoomInv ==
  /\ cycles > 0 /\ (Somewhere({"JobRestart"}) \/ stop = 1) => Room /\ skip = selected
  /\ filter /\ stop = 0 /\ AtPhase => Room /\ skip = selected
  /\ hpc # "panic"

LEMMA RoomStep ==
  ASSUME YamlSkip = {}, FilterCount <= Cardinality(Knobs),
         SafeInv, FreshInv, CycleInv, RoomInv, [Next]_vars
  PROVE  RoomInv'
<1> DEFINE Restarting == Somewhere({"JobRestart"})
<1>0. /\ TypeInv /\ TurnInv /\ TaskInv /\ AskInv /\ Control /\ Cycles \in Nat /\ cycles \in Int
      /\ stop \in 0..2 /\ FilterCount \in Nat
  BY ConstAssumption DEF SafeInv, TypeInv, ServerTypeOK
<1>1. CASE Start
  <2>1. ~AtPhase' /\ cycles' = 0 /\ hpc' = "loop"
    BY <1>0, <1>1, StartLeaves
       DEF AtPhase, TaskInv, workerVars, Start, StartTuning, StartRestore, StartSession
  <2> QED
    BY <2>1 DEF RoomInv
<1>2. CASE ~Start /\ ~Handler
  <2>1. UNCHANGED <<filter, cycles, hpc, stop, selected, skip>>
    BY <1>2, ClientLeaves, SenderLeaves, EngineLeaves, WorkerLeaves
       DEF Next, ClientFrame, Terminated, vars, loopVars, optVars
  <2>2. CASE ClientStep \/ Abort
    <3>1. Restarting' => Restarting
      BY <1>0, <2>2, ClientMessages, ClientReads DEF Somewhere, Below
    <3>2. wpc' = wpc
      BY <2>2, ClientLeaves DEF ClientFrame, workerVars
    <3> QED
      BY <2>1, <3>1, <3>2 DEF RoomInv, Room, AtPhase
  <2>3. CASE Sender
    <3>1. Restarting' => Restarting
      BY <1>0, <2>3, SenderMessages, SenderLeaves DEF Somewhere
    <3>2. wpc' = wpc
      BY <2>3, SenderLeaves DEF workerVars
    <3> QED
      BY <2>1, <3>1, <3>2 DEF RoomInv, Room, AtPhase
  <2>4. CASE Engine \/ Worker \/ Terminated \/ UNCHANGED vars
    <3>1. Restarting' => Restarting
      BY <2>4, OtherMessages DEF Somewhere
    <3>2. AtPhase' => AtPhase
      <4>1. CASE Worker
        BY <2>1, <4>1 DEF Worker, WorkerAsk, WorkerTell, WorkerFinish, WorkerFail, WorkerDie, AtPhase
      <4>2. CASE Engine
        BY <1>0, <2>1, <4>2 DEF Engine, Post, PostRefused, PutInit, Put, PutReply, Delete,
           workerVars, AtPhase, Control, HttpPhase
      <4>3. CASE Terminated \/ UNCHANGED vars
        BY <2>1, <4>3 DEF Terminated, vars, workerVars, AtPhase
      <4> QED
        BY <2>4, <4>1, <4>2, <4>3
    <3> QED
      BY <2>1, <3>1, <3>2 DEF RoomInv, Room
  <2> QED
    BY <1>2, <2>2, <2>3, <2>4 DEF Next
<1>3. CASE Handler
  <2>1. CASE Panic
    <3>1. filter /\ stop = 0 /\ AtPhase /\ FilterCount > Cardinality(Active)
      BY <1>0, <2>1 DEF Panic, CanStep, AskInv, AtPhase, TurnInv, Exclusive, AtHandler, AtStop
    <3>2. Room /\ skip = selected /\ selected \subseteq Knobs
      BY <1>0, <3>1 DEF RoomInv, TypeInv, ServerTypeOK
    <3>3. Cardinality(Active) = Cardinality(Knobs) - Cardinality(selected)
      BY <3>2, ConstAssumption, FS_Difference, FS_Subset, Knobs \cap selected = selected DEF Active
    <3>4. Cardinality(Knobs) \in Nat /\ Cardinality(selected) \in Nat
      BY <3>2, ConstAssumption, FS_CardinalityType, FS_Subset
    <3> QED
      BY <1>0, <3>1, <3>2, <3>3, <3>4 DEF Room
  <2>2. CASE ~Turning /\ ~Panic
    <3>1. Restarting' => Restarting
      BY <1>0, <1>3, <2>2, HandlerMessages DEF Somewhere, Below, Turning
    <3>2. hpc' # "panic"
      BY <1>3, <2>2 DEF Turning, Handler, Select, HandlerEOF, HandleBenchMark, HandleRestore,
         Backup, Create, Created, CreateFailed, Open, Opened, Evaluate, Answer, Apply,
         DeleteTask, Deleted, Return, Returned, OnlyLoop
    <3> QED
      BY <1>3, <2>2, <3>1, <3>2, CalmStep DEF RoomInv, Room
  <2>3. CASE Select /\ stop # 0
    <3>1. /\ stop' = 0 /\ hpc' # "panic" /\ UNCHANGED <<selected, skip>>
          /\ cycles' = (IF stop = 2 THEN 1 ELSE cycles) - 1 \/ (cycles <= 0 /\ cycles' = cycles - 1)
      BY <2>3 DEF Select, optVars
    <3>2. ~AtPhase'
      BY <2>3, <3>1, PhaseBegins DEF AtPhase, Select
    <3>3. cycles' > 0 => cycles > 0 /\ stop = 1
      BY <1>0, <2>3, <3>1
    <3> QED
      BY <3>1, <3>2, <3>3 DEF RoomInv, Room
  <2>4. CASE HandleJobInit
    <3>1. stop' = 0 /\ hpc' # "panic"
      BY <1>0, <2>4, ReceivedAlone DEF HandleJobInit
    <3>2. ~AtPhase'
      BY <2>4, <3>1, PhaseBegins DEF AtPhase, HandleJobInit
    <3>3. ~Restarting'
      BY <1>0, <2>4, ReceivedAlone
         DEF HandleJobInit, Put_ch, Msg, Somewhere, Below, Carries, TurnKinds
    <3> QED
      BY <3>1, <3>2, <3>3 DEF RoomInv
  <2>5. CASE HandleJobCreate
    <3>1. /\ selected' = {} /\ stop' = 0 /\ hpc' # "panic" /\ chan' = chan /\ cycles' = cycles
          /\ IF cycles = 0 THEN filter' = FALSE ELSE skip' = skip
      BY <1>0, <2>5, ReceivedAlone DEF HandleJobCreate, InitTuned, InitFeatureSel
    <3>2. skip = {}
      BY <1>0, <2>5, HandlerReads DEF HandleJobCreate, FreshInv, Somewhere
    <3>3. ~Restarting'
      BY <1>0, <2>5, <3>1, ReceivedAlone DEF HandleJobCreate, Somewhere, Below, Carries, TurnKinds
    <3>4. Room'
      <4>1. Cardinality({}) = 0 /\ Cardinality(Knobs) \in Nat
        BY ConstAssumption, FS_EmptySet, FS_CardinalityType
      <4> QED
        BY <3>1, <4>1 DEF Room
    <3> QED
      BY <3>1, <3>2, <3>3, <3>4 DEF RoomInv
  <2>6. CASE HandleJobRestart
    <3>1. /\ UNCHANGED <<selected, chan, cycles>> /\ stop' = 0 /\ hpc' # "panic"
          /\ IF cycles > 0 THEN skip' = skip ELSE filter' = FALSE
      BY <1>0, <2>6, ReceivedAlone DEF HandleJobRestart, InitTuned, InitFeatureSel
    <3>2. ~Restarting'
      BY <1>0, <2>6, <3>1, ReceivedAlone DEF HandleJobRestart, Somewhere, Below, Carries, TurnKinds
    <3>3. Restarting
      BY <1>0, <2>6, HandlerReads DEF HandleJobRestart, Somewhere
    <3> QED
      BY <3>1, <3>2, <3>3 DEF RoomInv, Room
  <2>7. CASE Conclude
    <3>1. AtPhase /\ AtHandler /\ stop = 0
      BY <1>0, <2>7 DEF Conclude, CanStep, AskInv, AtPhase, AtHandler, TurnInv, Exclusive, AtStop
    <3>2. cycles' = cycles /\ hpc' = "delete" /\ filter' = filter /\ down' = down /\ up' = up
      BY <2>7 DEF Conclude, streamVars
    <3>3. ~Restarting'
      BY <1>0, <2>7, <3>1, TurnAlone, <1>3, HandlerMessages DEF Somewhere, Below, TurnKinds,
         Conclude, Select, CanStep
    <3>4. stop' # 0
      <4>1. \A sel, before, after : StopSignal(sel, before, after) # 0
        BY DEF StopSignal
      <4> QED
        BY <2>7, <4>1 DEF Conclude
    <3>5. CASE filter
      <4>1. skip = selected
        BY <3>1, <3>5 DEF RoomInv
      <4>2. PICK chosen \in SUBSET Active :
              /\ selected' = selected \cup chosen
              /\ skip' = skip \cup chosen
              /\ stop' = StopSignal(selected', Cardinality(Active), Cardinality(Active \ chosen))
        BY <2>7, <3>5 DEF Conclude
      <4>3. stop' = 1 => ~(Cardinality(Knobs) - Cardinality(selected') < FilterCount)
        BY <4>2 DEF StopSignal
      <4>4. Cardinality(Knobs) \in Nat /\ Cardinality(selected') \in Nat
        <5>1. selected' \subseteq Knobs
          BY <1>0, <4>2 DEF Active, TypeInv, ServerTypeOK
        <5> QED
          BY <5>1, ConstAssumption, FS_CardinalityType, FS_Subset
      <4>5. stop' = 1 => Room'
        BY <1>0, <4>3, <4>4 DEF Room
      <4> QED
        BY <3>2, <3>3, <3>4, <4>1, <4>2, <4>5 DEF RoomInv
    <3>6. CASE ~filter
      <4>1. cycles <= 0
        BY <3>1, <3>6 DEF CycleInv
      <4> QED
        BY <1>0, <3>2, <3>4, <4>1 DEF RoomInv
    <3> QED
      BY <3>5, <3>6
  <2> QED
    BY <2>1, <2>2, <2>3, <2>4, <2>5, <2>6, <2>7 DEF Turning
<1> QED
  BY <1>1, <1>2, <1>3

(* Feature selection never slices the ranking beyond its end, whatever the *)
(* number of cycles, when no parameter is skipped by the project and the   *)
(* number to select at a time is not above the number of parameters.       *)
THEOREM NeverPanics ==
  ASSUME YamlSkip = {}, FilterCount <= Cardinality(Knobs)
  PROVE  Spec => []NoPanic
<1>1. Init => RoomInv
  <2> SUFFICES ASSUME Init PROVE RoomInv
    OBVIOUS
  <2>1. cycles = 0 /\ stop = 0 /\ hpc = "idle" /\ wpc = "none"
    BY DEF Init
  <2> QED
    BY <2>1 DEF RoomInv, AtPhase
<1>2. SafeInv /\ FreshInv /\ CycleInv /\ RoomInv /\ [Next]_vars => RoomInv'
  BY RoomStep
<1>3. RoomInv => NoPanic
  BY DEF RoomInv, NoPanic
<1> QED
  BY <1>1, <1>2, <1>3, PhasesAlways, PTL DEF Spec
-----------------------------------------------------------------------------
(* RestoreFileIsInitial.                                                   *)

Over == hpc \in {"return", "returned", "idle", "panic"}

(* The parameters are the ones found until they are saved, and what is     *)
(* saved is not replaced while the session goes on.                        *)
RestoreInv ==
  command = "tune" =>
    /\ ~Contains(up, {"Restore"})
    /\ sys # start => restoreFile = start
    /\ ~backedUp => sys = start
    /\ backedUp /\ ~Over => restoreFile = start
    /\ wpc # "none" \/ hpc \in {"create", "created"} => backedUp
    /\ hpc = "backup" => ~backedUp

LEMMA RestoreStep ==
  ASSUME Cycles = 0, SafeInv, FreshInv, RestoreInv, [Next]_vars
  PROVE  RestoreInv'
<1>0. /\ TypeInv /\ TurnInv /\ TaskInv /\ AskInv /\ HttpPhase /\ cycles \in Int /\ cycles <= 0
  BY DEF SafeInv, TypeInv, ServerTypeOK, FreshInv, Control
<1>1. CASE Start
  <2>1. ~Contains(up', {"Restore"}) \/ command' # "tune"
    BY <1>0, <1>1, StartMessages
  <2>2. wpc' = "none" /\ sys' = start' /\ hpc' = "loop" /\ ~backedUp'
    BY <1>0, <1>1, StartLeaves
       DEF TaskInv, workerVars, sysVars, Start, StartTuning, StartRestore, StartSession
  <2> QED
    BY <2>1, <2>2 DEF RestoreInv
<1>2. CASE ~Start /\ ~Handler
  <2>1. UNCHANGED <<sys, restoreFile, start, hpc, backedUp, command>>
    BY <1>2, ClientLeaves, SenderLeaves, EngineLeaves, WorkerLeaves
       DEF Next, ClientFrame, Terminated, vars, loopVars, optVars, sysVars, historyVars,
       clientVars, ClientStep, Abort, BaselineDone, RecvJobCreate, RecvJobInit, RecvJobRestart,
       RecvBenchMark, BenchMark, RecvThreshold, RecvResult, RecvEnding, RecvEOF
  <2>2. Contains(up', {"Restore"}) => Contains(up, {"Restore"})
    <3>1. CASE ClientStep \/ Abort
      BY <1>0, <3>1, ClientMessages
    <3>2. CASE ~ClientStep /\ ~Abort
      BY <1>2, <3>2, SenderLeaves, EngineLeaves, WorkerLeaves
         DEF Next, Terminated, vars, streamVars
    <3> QED
      BY <3>1, <3>2
  <2>3. wpc' # "none" => wpc # "none" \/ hpc = "created"
    <3>1. CASE ~Engine /\ ~Worker
      BY <1>2, <3>1, ClientLeaves, SenderLeaves DEF Next, ClientFrame, Terminated, vars, workerVars
    <3>2. CASE Worker
      BY <3>2 DEF Worker, WorkerAsk, WorkerTell, WorkerFinish, WorkerFail, WorkerDie
    <3>3. CASE Engine
      BY <1>0, <3>3 DEF Engine, Post, PostRefused, PutInit, Put, PutReply, Delete,
         workerVars, HttpPhase
    <3> QED
      BY <3>1, <3>2, <3>3
  <2> QED
    BY <2>1, <2>2, <2>3 DEF RestoreInv, Over
<1>3. CASE Handler
  <2> SUFFICES ASSUME command' = "tune" PROVE RestoreInv'
    BY DEF RestoreInv
  <2>1. UNCHANGED <<wpc, start, command>> /\ command = "tune"
    BY <1>3, HandlerLeaves DEF HandlerFrame, workerVars, historyVars, clientVars
  <2>2. ~Contains(up, {"Restore"}) /\ ~Contains(up', {"Restore"})
    BY <1>0, <1>3, <2>1, HandlerMessages DEF RestoreInv
  <2>3. CASE Apply
    <3>1. backedUp /\ restoreFile = start /\ restoreFile' = restoreFile /\ backedUp' = backedUp
      BY <1>0, <2>1, <2>3 DEF Apply, CanStep, RestoreInv, AskInv, AnswerUsed, Over
    <3>2. hpc' \in {"conclude", "loop", "return"}
      BY <2>3 DEF Apply, OnlyLoop
    <3> QED
      BY <2>1, <2>2, <3>1, <3>2 DEF RestoreInv
  <2>4. CASE Backup
    <3>1. backedUp' = TRUE /\ sys' = sys /\ sys = start
      BY <2>1, <2>4 DEF Backup, CanStep, RestoreInv
    <3>2. (restoreFile' = sys /\ hpc' = "create") \/ hpc' = "return"
      BY <2>4 DEF Backup, OnlyLoop
    <3> QED
      BY <2>1, <2>2, <3>1, <3>2 DEF RestoreInv, Over
  <2>5. CASE HandleJobCreate \/ HandleJobRestart
    <3>1. UNCHANGED <<sys, restoreFile, backedUp>> /\ hpc = "receive"
      BY <2>5 DEF HandleJobCreate, HandleJobRestart, HandlerReceive, CanStep, sysVars
    <3>2. HandleJobCreate => cycles = 0
      BY <1>0, HandlerReads DEF HandleJobCreate, FreshInv, Somewhere
    <3>3. \E sel : InitTuned(sel)
      BY <1>0, <2>5, <3>2 DEF HandleJobCreate, HandleJobRestart
    <3>4. hpc' = "return" \/ (hpc' = "backup" /\ ~backedUp) \/ (hpc' = "create" /\ backedUp)
      BY <3>3 DEF InitTuned, BackupNeeded
    <3> QED
      BY <2>1, <2>2, <3>1, <3>4 DEF RestoreInv, Over
  <2>6. CASE ~Apply /\ ~Backup /\ ~HandleJobCreate /\ ~HandleJobRestart
    <3>1. ~HandleRestore
      BY <1>0, <2>2, HandlerReads DEF HandleRestore
    <3>2. UNCHANGED <<sys, restoreFile, backedUp>>
      BY <1>3, <2>6, <3>1 DEF Handler, Select, HandlerEOF, HandleJobInit, HandleBenchMark,
         Create, Created, CreateFailed, Open, Opened, Evaluate, Answer, Conclude, Panic,
         DeleteTask, Deleted, Return, Returned, sysVars, optVars
    <3>3. /\ Over => Over'
          /\ hpc' \in {"create", "created"} => hpc \in {"create", "created"}
          /\ hpc' # "backup"
      BY <1>3, <2>6, <3>1 DEF Handler, Select, HandlerEOF, HandleJobInit, HandleBenchMark,
         HandlerReceive, Create, Created, CreateFailed, Open, Opened, Evaluate, Answer,
         Conclude, Panic, DeleteTask, Deleted, Return, Returned, CanStep, OnlyLoop, Over
    <3> QED
      BY <2>1, <2>2, <3>2, <3>3 DEF RestoreInv
  <2> QED
    BY <2>3, <2>4, <2>5, <2>6
<1> QED
  BY <1>1, <1>2, <1>3

(* Tuning without feature selection can be undone at any moment and however *)
(* it ends: when the machine differs from what the session found, the      *)
(* restore file holds what it found.                                       *)
THEOREM RestoreFileInitial ==
  ASSUME Cycles = 0
  PROVE  Spec => []RestoreFileIsInitial
<1>1. Init => RestoreInv
  <2> SUFFICES ASSUME Init PROVE RestoreInv
    OBVIOUS
  <2>1. up = <<>> /\ hpc = "idle" /\ wpc = "none" /\ sys = start
    BY DEF Init
  <2> QED
    BY <2>1, ContainsEmpty DEF RestoreInv, Over
<1>2. SafeInv /\ FreshInv /\ RestoreInv /\ [Next]_vars => RestoreInv'
  BY RestoreStep
<1>3. RestoreInv => RestoreFileIsInitial
  BY DEF RestoreInv, RestoreFileIsInitial
<1> QED
  BY <1>1, <1>2, <1>3, PhasesAlways, PTL DEF Spec

-----------------------------------------------------------------------------
(* What is known of a sequence of evaluations.                             *)

(* v is the smallest of the first m evaluations.                           *)
MinOf(rs, v, m) ==
  /\ \E i \in 1 .. m : rs[i].eval = v
  /\ \A i \in 1 .. m : v <= rs[i].eval

(* MinEvalSum and FinalEval after m evaluations.                           *)
Kept(rs, least, final, m) == m > 0 => final = least /\ MinOf(rs, least, m)

(* The worker's best after m evaluations were told.                        *)
Founded(rs, b, m) ==
  IF m <= 0 THEN b = None
  ELSE /\ b # None
       /\ \E i \in 1 .. m : rs[i].eval = b.eval /\ Has(rs[i].config, b.param)
       /\ \A i \in 1 .. m : b.eval <= rs[i].eval

(* The configurations measured agree with c on the knobs of S.             *)
OffSame(rs, c, S) == \A i \in DOMAIN rs : \A k \in S : rs[i].config[k] = c[k]

Result == [config : Config, eval : Evals]

LEMMA ResultEval ==
  ASSUME NEW rs \in Seq(Result), NEW i \in 1 .. Len(rs)
  PROVE  rs[i] \in Result /\ rs[i].eval \in Int /\ rs[i].config \in Config
<1>1. rs[i] \in Result
  OBVIOUS
<1> QED
  BY <1>1, ConstAssumption DEF Result

LEMMA KeptMore ==
  ASSUME NEW rs \in Seq(Result), Len(rs) > 0, NEW least \in Int, NEW final,
         Kept(rs, least, final, Len(rs) - 1)
  PROVE  LET e == rs[Len(rs)].eval
         IN  /\ Len(rs) = 1 \/ e < least => Kept(rs, e, e, Len(rs))
             /\ Len(rs) # 1 /\ ~(e < least) => Kept(rs, least, final, Len(rs))
<1> DEFINE n == Len(rs)
           e == rs[n].eval
<1>1. n \in Nat /\ n > 0 /\ n \in 1 .. n /\ \A i \in 1 .. n : rs[i].eval \in Int
  BY ResultEval
<1>2. \A i \in 1 .. n : i = n \/ i \in 1 .. n - 1
  BY <1>1
<1>3. \A i \in 1 .. n - 1 : i \in 1 .. n
  BY <1>1
<1>4. Kept(rs, least, final, n - 1)
  OBVIOUS
<1> HIDE DEF n
<1>5. ASSUME n = 1 PROVE Kept(rs, e, e, n)
  <2>1. \A i \in 1 .. n : i = n
    BY <1>1, <1>5
  <2> QED
    BY <1>1, <2>1 DEF Kept, MinOf
<1>6. ASSUME n # 1 PROVE final = least /\ MinOf(rs, least, n - 1)
  BY <1>1, <1>4, <1>6 DEF Kept
<1>7. ASSUME n # 1, e < least PROVE Kept(rs, e, e, n)
  <2>1. \A i \in 1 .. n : e <= rs[i].eval
    BY <1>1, <1>2, <1>6, <1>7 DEF MinOf
  <2> QED
    BY <1>1, <2>1 DEF Kept, MinOf
<1>8. ASSUME n # 1, ~(e < least) PROVE Kept(rs, least, final, n)
  <2>1. \A i \in 1 .. n : least <= rs[i].eval
    BY <1>1, <1>2, <1>6, <1>8 DEF MinOf
  <2>2. \E i \in 1 .. n : rs[i].eval = least
    BY <1>3, <1>6, <1>8 DEF MinOf
  <2> QED
    BY <1>6, <1>8, <2>1, <2>2 DEF Kept, MinOf
<1> QED
  BY <1>5, <1>7, <1>8 DEF n

LEMMA FoundedMore ==
  ASSUME NEW rs \in Seq(Result), Len(rs) > 0, NEW b, b = None \/ b.eval \in Int,
         NEW p, Founded(rs, b, Len(rs) - 1), Has(rs[Len(rs)].config, p)
  PROVE  LET e == rs[Len(rs)].eval
         IN  /\ (b = None \/ e < b.eval) /\ [param |-> p, eval |-> e] # None =>
                  Founded(rs, [param |-> p, eval |-> e], Len(rs))
             /\ b # None /\ ~(e < b.eval) => Founded(rs, b, Len(rs))
<1> DEFINE n == Len(rs)
           e == rs[n].eval
           c == [param |-> p, eval |-> e]
<1>1. n \in Nat /\ n > 0 /\ n \in 1 .. n /\ \A i \in 1 .. n : rs[i].eval \in Int
  BY ResultEval
<1>2. \A i \in 1 .. n : i = n \/ i \in 1 .. n - 1
  BY <1>1
<1>3. \A i \in 1 .. n - 1 : i \in 1 .. n
  BY <1>1
<1>4. c.eval = e /\ c.param = p
  OBVIOUS
<1> HIDE DEF n, c
<1>5. ASSUME b = None, c # None PROVE Founded(rs, c, n)
  <2>1. n - 1 <= 0
    BY <1>5 DEF Founded, n
  <2>2. \A i \in 1 .. n : i = n
    BY <1>1, <2>1
  <2> QED
    BY <1>1, <1>4, <1>5, <2>2 DEF Founded, n
<1>6. ASSUME b # None PROVE n - 1 > 0 /\ Founded(rs, b, n - 1)
  BY <1>1, <1>6 DEF Founded, n
<1>7. ASSUME b # None, e < b.eval, c # None PROVE Founded(rs, c, n)
  <2>1. \A i \in 1 .. n - 1 : b.eval <= rs[i].eval
    BY <1>6, <1>7 DEF Founded
  <2>2. \A i \in 1 .. n : e <= rs[i].eval
    BY <1>1, <1>2, <1>3, <1>7, <2>1
  <2>3. rs[n].eval = c.eval /\ Has(rs[n].config, c.param)
    BY <1>4 DEF n
  <2> QED
    BY <1>1, <1>4, <1>7, <2>2, <2>3 DEF Founded
<1>8. ASSUME b # None, ~(e < b.eval) PROVE Founded(rs, b, n)
  <2>1. \A i \in 1 .. n - 1 : b.eval <= rs[i].eval
    BY <1>6, <1>8 DEF Founded
  <2>2. \A i \in 1 .. n : b.eval <= rs[i].eval
    BY <1>1, <1>2, <1>3, <1>8, <2>1, SMTT(30)
  <2>3. PICK i \in 1 .. n - 1 : rs[i].eval = b.eval /\ Has(rs[i].config, b.param)
    BY <1>6, <1>8 DEF Founded
  <2> QED
    BY <1>1, <1>3, <1>8, <2>2, <2>3 DEF Founded
<1> QED
  BY <1>5, <1>7, <1>8 DEF n, c

LEMMA EvaluationsAppend ==
  ASSUME NEW rs \in Seq(Result), NEW r \in Result
  PROVE  LET s == Append(rs, r)
         IN  /\ s \in Seq(Result) /\ Len(s) = Len(rs) + 1 /\ s[Len(s)] = r
             /\ \A least, final : Kept(rs, least, final, Len(rs)) => Kept(s, least, final, Len(rs))
             /\ \A b : Founded(rs, b, Len(rs)) => Founded(s, b, Len(rs))
             /\ \A c, S : OffSame(rs, c, S) /\ r.config = c => OffSame(s, c, S)
<1> DEFINE s == Append(rs, r)
<1>1. s \in Seq(Result) /\ Len(s) = Len(rs) + 1 /\ s[Len(s)] = r /\ Len(rs) \in Nat
  OBVIOUS
<1>2. \A i \in 1 .. Len(rs) : s[i] = rs[i]
  OBVIOUS
<1>3. DOMAIN s = 1 .. Len(rs) + 1 /\ DOMAIN rs = 1 .. Len(rs)
  OBVIOUS
<1>4. \A i \in DOMAIN s : i \in DOMAIN rs \/ i = Len(rs) + 1
  BY <1>1, <1>3
<1> HIDE DEF s
<1>5. \A least, final : Kept(rs, least, final, Len(rs)) => Kept(s, least, final, Len(rs))
  BY <1>2 DEF Kept, MinOf
<1>6. \A b : Founded(rs, b, Len(rs)) => Founded(s, b, Len(rs))
  BY <1>2 DEF Founded
<1>7. \A c, S : OffSame(rs, c, S) /\ r.config = c => OffSame(s, c, S)
  BY <1>1, <1>2, <1>3, <1>4 DEF OffSame
<1> QED
  BY <1>1, <1>5, <1>6, <1>7 DEF s
-----------------------------------------------------------------------------
(* The stages of an evaluation, from the POST to the answer that uses it.  *)
Asked   == {"BenchMark"}
Opening == (hpc = "created" /\ http = "ok") \/ hpc \in {"open", "opened"}
Out     == conn = "open" /\ BenchOut
Waiting == Contains(up, Asked) /\ hpc \in {"loop", "receive"}
Back    == Waiting \/ hpc = "evaluate"
Posted  == hpc = "answer" /\ http = "put"
Telling == hpc = "answer" /\ http = "recv" /\ toWorker # <<>>
Told    == \/ hpc = "answer" /\ http = "recv" /\ toWorker = <<>>
           \/ AnswerUsed \/ hpc = "conclude"
Untold  == Back \/ Posted \/ Telling
Stage   == Opening \/ Out \/ Untold \/ Told

Measured == Len(results)
Last     == results[Len(results)]

(* Nothing is asked of the client but benchmarks.                          *)
NoThreshold == ~Below({"Threshold"})

(* Where the last evaluation is, and how many were made.                   *)
ResultsInv ==
  /\ Out => iter = Measured + 1
  /\ Opening \/ Untold \/ Told => iter = Measured
  /\ Waiting => Measured > 0 /\ Head(up).val = Last.eval
  /\ hpc = "evaluate" /\ Measured > 0 => content = Last.eval /\ sumEval = Last.eval
  /\ Posted /\ Measured > 0 => sumEval = Last.eval
  /\ toWorker # <<>> => Measured > 0 /\ Head(toWorker) = Last.eval

(* The minimum of the handler.                                             *)
KeptInv ==
  /\ Out \/ Posted \/ Telling \/ Told => Kept(results, minEval, finalEval, Measured)
  /\ Back => Kept(results, minEval, finalEval, Measured - 1)

(* The best of the worker, and what becomes of it.                         *)
BestInv ==
  /\ Opening \/ Out \/ Told => Founded(results, best, Measured)
  /\ Untold => Founded(results, best, Measured - 1)
  /\ Untold /\ Measured > 0 => wpc = "objective" /\ Has(Last.config, asked)
  /\ Stage /\ best # None => best.param \in [Active -> Values]
  /\ fromWorker # <<>> /\ Head(fromWorker).kind = "final" =>
       best # None /\ Head(fromWorker).param = best.param
  /\ AnswerUsed /\ answer.kind = "final" => best # None /\ answer.param = best.param
  /\ hpc = "conclude" => best # None /\ Has(sys, best.param)

(* The calls made and the calls left are those of the task.                *)
CallsInv ==
  /\ wpc = "search" => Measured + left = TaskIters
  /\ wpc = "objective" /\ (Out \/ fromWorker # <<>> \/ AnswerUsed) => Measured + left = TaskIters
  /\ wpc = "objective" /\ Untold /\ Measured > 0 => Measured + left = TaskIters + 1
  /\ fromWorker # <<>> /\ Head(fromWorker).kind = "final" => Measured = TaskIters
  /\ AnswerUsed /\ answer.kind = "final" => Measured = TaskIters

(* The search leaves the skipped knobs alone.                              *)
SkippedInv == Stage => OffSame(results, sys, skip)

SearchInv == NoThreshold /\ ResultsInv /\ KeptInv /\ BestInv /\ CallsInv /\ SkippedInv
-----------------------------------------------------------------------------
LEMMA BenchOutBelow == BenchOut <=> AtClient \/ Below(Asked)
  BY DEF BenchOut, Below, Asked

(* A step that moves the stage without an evaluation.                      *)
LEMMA SearchKept ==
  ASSUME SearchInv, NoThreshold', Out' => Out, Opening' => Opening, Posted' => Posted,
         Telling' => Telling, Told' => Told, AnswerUsed' => AnswerUsed,
         Waiting' => Waiting /\ up' = up,
         hpc' = "evaluate" => hpc = "evaluate", hpc' = "conclude" => hpc = "conclude",
         UNCHANGED <<sys, results, iter, maxIter, filter, skip, content, sumEval,
                     minEval, finalEval, answer, wpc, left, asked, best, toWorker, fromWorker>>
  PROVE  SearchInv'
<1>1. Measured' = Measured /\ Last' = Last /\ Active' = Active /\ TaskIters' = TaskIters
  BY DEF Measured, Last, Active, TaskIters
<1>2. (Back' => Back) /\ (Untold' => Untold) /\ (Stage' => Stage)
  BY DEF Untold, Stage, Back
<1>3. ResultsInv'
  BY <1>1, <1>2 DEF SearchInv, ResultsInv
<1>4. KeptInv'
  BY <1>1, <1>2 DEF SearchInv, KeptInv
<1>5. BestInv'
  BY <1>1, <1>2 DEF SearchInv, BestInv, Has
<1>6. CallsInv'
  BY <1>1, <1>2 DEF SearchInv, CallsInv
<1>7. SkippedInv'
  BY <1>2 DEF SearchInv, SkippedInv
<1> QED
  BY <1>3, <1>4, <1>5, <1>6, <1>7 DEF SearchInv

(* Between two evaluations of no task there is nothing to keep.            *)
LEMMA SearchIdle ==
  ASSUME SafeInv', NoThreshold', ~Stage'
  PROVE  SearchInv'
<1>1. ~Inflight'
  BY DEF SafeInv, PipeInv, Window, Stage, Opening, Untold, Back, Posted, Telling, Told
<1>2. /\ ~Waiting' /\ ~Opening' /\ ~Out' /\ ~Back' /\ ~Posted' /\ ~Telling' /\ ~Told' /\ ~Untold'
  BY DEF Stage, Untold, Back
<1>3. /\ ~AnswerUsed' /\ hpc' # "conclude" /\ hpc' # "evaluate"
      /\ wpc' # "search" /\ toWorker' = <<>> /\ fromWorker' = <<>>
  BY <1>1, <1>2 DEF Inflight, Back, Told
<1> QED
  BY <1>2, <1>3 DEF SearchInv, ResultsInv, KeptInv, BestInv, CallsInv, SkippedInv, Stage

LEMMA SearchClient ==
  ASSUME SafeInv, SafeInv', ConnInv, SearchInv, ClientStep \/ Abort
  PROVE  SearchInv'
<1>0. TypeInv /\ TurnInv /\ BenchInv /\ PipeInv
  BY DEF SafeInv
<1>1. NoThreshold' /\ ~RecvThreshold
  <2>1. NoThreshold
    BY DEF SearchInv
  <2> QED
    BY <1>0, <2>1, ClientMessages, ClientReads DEF NoThreshold, Below
<1>2. UNCHANGED <<sys, hpc, http, iter, maxIter, filter, skip, content, sumEval, minEval,
                  finalEval, answer, wpc, left, asked, best, toWorker, fromWorker, chan, sender>>
  BY ClientLeaves DEF ClientFrame, sysVars, chanVars, loopVars, optVars, workerVars, engineVars
<1>3. CASE BenchMark /\ cpc' = "receive"
  <2>1. PICK e \in Evals : /\ Send(MsgVal("BenchMark", e)) /\ conn' = conn /\ down' = down
                           /\ results' = Append(results, [config |-> sys, eval |-> e])
    BY <1>3 DEF BenchMark, Leave
  <2>2. conn = "open" /\ AtClient /\ BenchOut
    BY <1>3 DEF ConnInv, BenchMark, AtClient, BenchOut
  <2>3. hpc \in {"loop", "receive"} /\ wpc = "objective" /\ Has(sys, asked)
    BY <1>0, <2>2 DEF BenchInv
  <2>4. up = <<>> /\ ~Below(Asked)
    <3>1. ~AtUp /\ ~AtDown /\ ~AtChan /\ ~AtSender
      BY <1>0, <2>2 DEF TurnInv, Exclusive
    <3>2. Contains(down, Asked) => AtDown
      BY ContainsMore DEF AtDown, Asked, TurnKinds
    <3> QED
      BY <3>1, <3>2 DEF AtUp, AtChan, AtSender, Below, Carries, Asked, TurnKinds
  <2>5. up' # <<>> /\ Head(up').val = e /\ e \in Int /\ Contains(up', Asked)
    <3>1. MsgVal("BenchMark", e) \in UpMessage /\ e \in Int
      BY MsgType, ConstAssumption
    <3>2. up' = Append(up, MsgVal("BenchMark", e))
      BY <2>1, <2>2 DEF Send
    <3>3. up' # <<>> /\ Head(up') = MsgVal("BenchMark", e)
      BY <2>4, <3>2
    <3> QED
      BY <1>0, <3>1, <3>2, <3>3, ContainsAppend DEF MsgVal, Asked, TypeInv, SharedTypeOK
  <2>6. ~Out'
    BY <1>2, <1>3, <2>1, <2>4, BenchOutBelow DEF Out, BenchOut, Below, AtClient, Asked, Carries
  <2>7. ~Inflight /\ ~AnswerUsed
    BY <1>0, <2>3 DEF PipeInv, Window, AnswerUsed
  <2>8. Stage /\ Out
    BY <2>2 DEF Stage, Out
  <2>9. /\ results' \in Seq(Result) /\ Measured' = Measured + 1 /\ Last' = [config |-> sys, eval |-> e]
        /\ \A least, final : Kept(results, least, final, Measured) => Kept(results', least, final, Measured)
        /\ \A b : Founded(results, b, Measured) => Founded(results', b, Measured)
        /\ \A c, S : OffSame(results, c, S) /\ sys = c => OffSame(results', c, S)
        /\ Measured \in Nat
    <3> DEFINE r == [config |-> sys, eval |-> e]
    <3>1. results \in Seq(Result) /\ r \in Result /\ r.config = sys /\ Len(results) \in Nat
      BY <1>0 DEF TypeInv, SharedTypeOK, Result
    <3>2. results' = Append(results, r)
      BY <2>1
    <3> HIDE DEF r
    <3>3. /\ results' \in Seq(Result) /\ Len(results') = Len(results) + 1
          /\ results'[Len(results')] = r
          /\ \A least, final : Kept(results, least, final, Len(results))
                                => Kept(results', least, final, Len(results))
          /\ \A b : Founded(results, b, Len(results)) => Founded(results', b, Len(results))
          /\ \A c, S : OffSame(results, c, S) /\ r.config = c => OffSame(results', c, S)
      BY <3>1, <3>2, EvaluationsAppend
    <3> QED
      BY <3>1, <3>3 DEF Measured, Last, r
  <2>10. /\ ~Opening' /\ Untold' /\ Back' /\ ~Posted' /\ ~Telling' /\ ~Told' /\ ~AnswerUsed'
         /\ Active' = Active /\ TaskIters' = TaskIters
    BY <1>2, <2>3, <2>5
       DEF Opening, Untold, Back, Waiting, Posted, Telling, Told, AnswerUsed, Active, TaskIters
  <2>11. Measured' - 1 = Measured /\ Measured' > 0
    BY <2>9
  <2>12. ResultsInv'
    BY <1>2, <2>3, <2>5, <2>6, <2>7, <2>8, <2>9, <2>10, <2>11 DEF SearchInv, ResultsInv, Inflight
  <2>13. KeptInv'
    BY <1>2, <2>6, <2>8, <2>9, <2>10, <2>11 DEF SearchInv, KeptInv
  <2>14. BestInv'
    BY <1>2, <2>3, <2>6, <2>7, <2>8, <2>9, <2>10, <2>11 DEF SearchInv, BestInv, Inflight, Has
  <2>15. CallsInv'
    <3>1. left \in Nat /\ TaskIters \in Int
      BY <1>0, ConstAssumption DEF TypeInv, ServiceTypeOK, ServerTypeOK, TaskIters
    <3>2. Measured + left = TaskIters
      BY <2>3, <2>8 DEF SearchInv, CallsInv
    <3> QED
      BY <1>2, <2>3, <2>6, <2>7, <2>9, <2>10, <3>1, <3>2 DEF CallsInv, Inflight
  <2>16. SkippedInv'
    BY <1>2, <2>8, <2>9 DEF SearchInv, SkippedInv
  <2> QED
    BY <1>1, <2>12, <2>13, <2>14, <2>15, <2>16 DEF SearchInv
<1>4. CASE ~(BenchMark /\ cpc' = "receive")
  <2>1. results' = results
    BY <1>4 DEF ClientStep, Abort, BaselineDone, RecvJobCreate, RecvJobInit, RecvJobRestart,
       RecvBenchMark, BenchMark, RecvThreshold, RecvResult, RecvEnding, RecvEOF
  <2>2. Out' => Out
    <3>1. Below(Asked)' => Below(Asked)
      BY <1>0, ClientMessages
    <3>2. conn' = "open" => conn = "open" /\ (cpc' = "benchmark" => cpc = "benchmark" \/ RecvBenchMark)
      BY DEF ClientStep, Abort, BaselineDone, RecvJobCreate, RecvJobInit,
         RecvJobRestart, BenchMark, RecvThreshold, RecvResult, RecvEnding,
         RecvEOF, Receive, Leave, streamVars, RecvBenchMark
    <3>3. RecvBenchMark => Below(Asked)
      BY <1>0, ClientReads DEF Below, Asked
    <3>4. AtClient' => AtClient \/ Below(Asked)
      BY <3>2, <3>3 DEF AtClient
    <3>5. BenchOut' => BenchOut
      BY <3>1, <3>4, BenchOutBelow DEF BenchOut, Below, Asked
    <3> QED
      BY <3>2, <3>5 DEF Out
  <2>3. Contains(up', Asked) => up' = up
    <3>1. CASE RecvJobCreate \/ RecvJobRestart
      <4>1. AtDown
        BY <1>0, <3>1, ClientReads, ContainsMore DEF AtDown, TurnKinds
      <4>2. up = <<>>
        BY <1>0, <4>1 DEF TurnInv, Exclusive, AtUp
      <4> QED
        BY <1>0, <1>1, <1>4, <3>1, <4>2, ClientMessages, ContainsEmpty
           DEF Asked, RecvJobCreate, RecvJobRestart, BenchMark, Receive
    <3>2. CASE ~RecvJobCreate /\ ~RecvJobRestart
      BY <1>1, <1>4, <3>2 DEF ClientStep, Abort, BaselineDone, RecvJobInit,
         RecvBenchMark, BenchMark, RecvResult, RecvEnding, RecvEOF, streamVars
    <3> QED
      BY <3>1, <3>2
  <2>4. (Opening' => Opening) /\ (Posted' => Posted) /\ (Telling' => Telling)
        /\ (Told' => Told) /\ (AnswerUsed' => AnswerUsed) /\ (Waiting' => Waiting /\ up' = up)
    BY <1>2, <2>3 DEF Opening, Posted, Telling, Told, AnswerUsed, Waiting
  <2> QED
    BY <1>1, <1>2, <2>1, <2>2, <2>4, SearchKept
<1> QED
  BY <1>3, <1>4

LEMMA SearchOthers ==
  ASSUME SafeInv, SafeInv', SearchInv, Start \/ Sender \/ Terminated \/ UNCHANGED vars
  PROVE  SearchInv'
<1>0. TypeInv /\ TurnInv /\ NoThreshold
  BY DEF SafeInv, SearchInv
<1>1. CASE Start
  <2>1. ~NoThreshold' => FALSE
    BY <1>0, <1>1, StartMessages DEF NoThreshold
  <2>2. ~Below(Asked)' /\ ~Contains(up', Asked) /\ cpc' = "receive" /\ hpc' = "loop"
    BY <1>0, <1>1, StartMessages, StartLeaves DEF Asked
  <2>3. ~Stage'
    BY <2>2 DEF Stage, Opening, Out, BenchOut, Below, Asked, AtClient, Untold, Back, Waiting,
       Posted, Telling, Told, AnswerUsed
  <2> QED
    BY <2>1, <2>3, SearchIdle
<1>2. CASE Sender
  <2>1. NoThreshold' /\ (Below(Asked)' => Below(Asked))
    BY <1>0, <1>2, SenderMessages DEF NoThreshold
  <2>2. UNCHANGED <<cpc, conn, up, sys, results, hpc, http, iter, maxIter, filter, skip, content, sumEval,
                    minEval, finalEval, answer, wpc, left, asked, best, toWorker, fromWorker>>
    BY <1>2, SenderLeaves DEF clientVars, sysVars, loopVars, optVars, workerVars, engineVars, historyVars
  <2>3. Out' => Out
    BY <2>1, <2>2 DEF Out, BenchOut, AtClient, Below, Asked
  <2>4. /\ (Opening' => Opening) /\ (Posted' => Posted) /\ (Telling' => Telling)
        /\ (Told' => Told) /\ (AnswerUsed' => AnswerUsed) /\ (Waiting' => Waiting /\ up' = up)
    BY <2>2 DEF Opening, Posted, Telling, Told, AnswerUsed, Waiting
  <2> QED
    BY <2>1, <2>2, <2>3, <2>4, SearchKept
<1>3. CASE Terminated \/ UNCHANGED vars
  <2>1. UNCHANGED <<cpc, conn, up, sys, results, hpc, http, iter, maxIter, filter, skip, content, sumEval,
                    minEval, finalEval, answer, wpc, left, asked, best, toWorker, fromWorker>>
    BY <1>3 DEF Terminated, vars, streamVars, clientVars, sysVars, loopVars, optVars, workerVars,
       engineVars, historyVars
  <2>2. NoThreshold' /\ (Below(Asked)' => Below(Asked))
    BY <1>0, <1>3, OtherMessages DEF NoThreshold
  <2>3. Out' => Out
    BY <2>1, <2>2 DEF Out, BenchOut, AtClient, Below, Asked
  <2>4. /\ (Opening' => Opening) /\ (Posted' => Posted) /\ (Telling' => Telling)
        /\ (Told' => Told) /\ (AnswerUsed' => AnswerUsed) /\ (Waiting' => Waiting /\ up' = up)
    BY <2>1 DEF Opening, Posted, Telling, Told, AnswerUsed, Waiting
  <2> QED
    BY <2>1, <2>2, <2>3, <2>4, SearchKept
<1> QED
  BY <1>1, <1>2, <1>3
(* A handler in the middle of a phase: no benchmark is out, nothing is     *)
(* waiting for it.                                                         *)
LEMMA HandlerBusy ==
  ASSUME TypeInv, TurnInv, AtHandler \/ AtStop
  PROVE  ~BenchOut /\ ~AtClient /\ ~Below(Asked) /\ ~Out /\ up = <<>> /\ ~Waiting
<1>1. ~Below(Asked) /\ up = <<>> /\ ~Contains(up, Asked)
  BY TurnAlone DEF Asked, TurnKinds
<1>2. ~AtClient
  BY DEF TurnInv, Exclusive
<1> QED
  BY <1>1, <1>2, BenchOutBelow DEF Out, Waiting

LEMMA SearchEngine ==
  ASSUME SafeInv, SafeInv', SearchInv, Engine
  PROVE  SearchInv'
<1>0. /\ TypeInv /\ TurnInv /\ BenchInv /\ PipeInv /\ PhaseInv /\ HttpPhase /\ NoThreshold
      /\ toWorker \in Seq(Int) /\ fromWorker \in Seq(PipeMessage) /\ sumEval \in Int
  BY DEF SafeInv, SearchInv, TypeInv, Control, ServiceTypeOK, ServerTypeOK
<1>1. UNCHANGED <<sys, cpc, up, conn, chan, sender, hpc, iter, maxIter, filter, skip, content,
                  sumEval, minEval, finalEval>>
  BY EngineLeaves DEF sysVars, clientVars, streamVars, chanVars, loopVars
<1>2. NoThreshold' /\ (Below(Asked)' <=> Below(Asked))
  BY <1>0, OtherMessages DEF NoThreshold
<1>3. (Out' <=> Out) /\ (Waiting' <=> Waiting)
  BY <1>1, <1>2, BenchOutBelow DEF Out, BenchOut, Below, Asked, AtClient, Waiting
<1>4. CASE Post
  <2>1. /\ hpc = "created" /\ results' = <<>> /\ best' = None /\ wpc' = "search"
        /\ left' = TaskIters /\ toWorker' = <<>> /\ fromWorker' = <<>> /\ http' = "ok"
    BY <1>0, <1>4 DEF Post, HttpPhase, Calls
  <2>2. iter = 0
    BY <1>0, <1>4, <2>1 DEF PhaseInv, Beginning, Post
  <2>3. ~Out' /\ ~Waiting'
    BY <1>0, <1>3, <2>1, HandlerBusy DEF AtHandler
  <2>4. ~Back' /\ ~Posted' /\ ~Telling' /\ ~Told' /\ ~Untold' /\ ~AnswerUsed' /\ hpc' # "conclude"
    BY <1>1, <2>1, <2>3 DEF Back, Posted, Telling, Told, Untold, AnswerUsed
  <2>5. Measured' = 0 /\ TaskIters' = TaskIters /\ TaskIters \in Int
    BY <1>0, <1>1, <2>1, ConstAssumption DEF Measured, TaskIters, TypeInv, ServerTypeOK
  <2>6. ResultsInv'
    BY <1>1, <2>1, <2>2, <2>3, <2>4, <2>5 DEF ResultsInv
  <2>7. KeptInv'
    BY <2>3, <2>4 DEF KeptInv
  <2>8. BestInv'
    BY <2>1, <2>4, <2>5 DEF BestInv, Founded
  <2>9. CallsInv'
    BY <2>1, <2>4, <2>5 DEF CallsInv
  <2>10. SkippedInv'
    <3>1. DOMAIN results' = {}
      BY <2>1
    <3> QED
      BY <3>1 DEF SkippedInv, OffSame
  <2> QED
    BY <1>2, <2>6, <2>7, <2>8, <2>9, <2>10 DEF SearchInv
<1>5. CASE PostRefused
  <2>1. hpc = "created" /\ http' = "fail"
    BY <1>0, <1>5 DEF PostRefused, HttpPhase
  <2>2. ~Stage'
    BY <1>0, <1>1, <1>3, <2>1, HandlerBusy
       DEF AtHandler, Stage, Opening, Untold, Back, Posted, Telling, Told, AnswerUsed
  <2> QED
    BY <1>2, <2>2, SearchIdle
<1>6. CASE PutInit
  <2>1. /\ hpc = "opened" /\ UNCHANGED <<results, answer, wpc, left, asked, best, toWorker, fromWorker>>
    BY <1>0, <1>6 DEF PutInit, HttpPhase, workerVars, optVars, historyVars
  <2>2. Opening /\ ~Posted' /\ ~Telling' /\ ~Told' /\ ~AnswerUsed'
    BY <1>1, <2>1 DEF Opening, Posted, Telling, Told, AnswerUsed
  <2> QED
    BY <1>1, <1>2, <1>3, <2>1, <2>2, SearchKept
<1>7. CASE Put
  <2>1. /\ Posted /\ hpc = "answer" /\ http' = "recv"
        /\ UNCHANGED <<results, answer, wpc, left, asked, best, fromWorker>>
        /\ toWorker' = IF iter # 0 THEN Append(toWorker, sumEval) ELSE toWorker
    BY <1>0, <1>7 DEF Put, SaveTuningData, TellWorker, HttpPhase, optVars, historyVars, Posted
  <2>2. Untold /\ Stage /\ Measured' = Measured /\ Last' = Last /\ Active' = Active
        /\ TaskIters' = TaskIters /\ iter = Measured /\ Measured \in Nat
    BY <1>0, <1>1, <2>1 DEF Untold, Stage, Measured, Last, Active, TaskIters, SearchInv, ResultsInv,
       TypeInv, SharedTypeOK
  <2>3. ~Out' /\ ~Waiting' /\ ~Back' /\ ~Opening' /\ ~Posted' /\ ~AnswerUsed' /\ hpc' = "answer"
    BY <1>0, <1>1, <1>3, <2>1, HandlerBusy DEF AtHandler, Back, Opening, Posted, AnswerUsed
  <2>4. CASE iter = 0
    <3>1. toWorker = <<>>
      BY <2>2, <2>4 DEF SearchInv, ResultsInv
    <3>2. Told' /\ ~Telling' /\ ~Untold' /\ toWorker' = <<>> /\ Measured = 0
      BY <2>1, <2>2, <2>3, <2>4, <3>1 DEF Told, Telling, Untold, Posted
    <3>3. ResultsInv'
      BY <1>1, <2>2, <2>3, <2>4, <3>2 DEF ResultsInv
    <3>4. KeptInv'
      BY <1>1, <2>1, <2>2, <2>3, <3>2 DEF KeptInv, Kept
    <3>5. BestInv'
      <4>1. best = None
        BY <2>2, <3>2 DEF SearchInv, BestInv, Founded
      <4> QED
        BY <1>1, <2>1, <2>2, <2>3, <3>2, <4>1 DEF SearchInv, BestInv, Founded
    <3>6. CallsInv'
      BY <2>1, <2>2, <2>3, <3>2 DEF SearchInv, CallsInv
    <3>7. SkippedInv'
      BY <1>1, <2>1, <2>2 DEF SearchInv, SkippedInv
    <3> QED
      BY <1>2, <3>3, <3>4, <3>5, <3>6, <3>7 DEF SearchInv
  <2>5. CASE iter # 0
    <3>1. toWorker = <<>>
      BY <1>0, <2>1, <2>5 DEF PipeInv, Inflight, Window, Posted
    <3>2. toWorker' # <<>> /\ Head(toWorker') = sumEval
      BY <1>0, <2>1, <2>5, <3>1
    <3>3. Telling' /\ Untold' /\ ~Told' /\ Measured > 0
      BY <2>1, <2>2, <2>3, <2>5, <3>2 DEF Told, Telling, Untold
    <3>4. ResultsInv'
      BY <1>1, <2>1, <2>2, <2>3, <3>2, <3>3 DEF SearchInv, ResultsInv
    <3>5. KeptInv'
      BY <1>1, <2>1, <2>2, <2>3, <3>3 DEF SearchInv, KeptInv
    <3>6. BestInv'
      BY <1>1, <2>1, <2>2, <2>3, <3>3 DEF SearchInv, BestInv
    <3>7. CallsInv'
      BY <2>1, <2>2, <2>3, <3>3 DEF SearchInv, CallsInv
    <3>8. SkippedInv'
      BY <1>1, <2>1, <2>2 DEF SearchInv, SkippedInv
    <3> QED
      BY <1>2, <3>4, <3>5, <3>6, <3>7, <3>8 DEF SearchInv
  <2> QED
    BY <2>4, <2>5
<1>8. CASE PutReply
  <2>1. /\ hpc = "answer" /\ http = "recv" /\ fromWorker # <<>> /\ fromWorker' = Tail(fromWorker)
        /\ UNCHANGED <<results, wpc, left, asked, best, toWorker>>
    BY <1>0, <1>8 DEF PutReply, HttpPhase, historyVars
  <2>2. toWorker = <<>> /\ fromWorker' = <<>>
    BY <1>0, <2>1, PipeTail DEF PipeInv, Inflight
  <2>3. Told /\ Stage
    BY <2>1, <2>2 DEF Told, Stage
  <2>4. ~Out' /\ ~Waiting'
    BY <1>0, <1>3, <2>1, HandlerBusy DEF AtHandler
  <2>5. CASE http' = "fail"
    <3>1. ~Stage'
      BY <1>1, <2>1, <2>4, <2>5 DEF Stage, Opening, Untold, Back, Posted, Telling, Told, AnswerUsed
    <3> QED
      BY <1>2, <3>1, SearchIdle
  <2>6. CASE http' = "ok"
    <3>1. answer' = Head(fromWorker)
      BY <1>8, <2>6 DEF PutReply
    <3>2. /\ Told' /\ AnswerUsed' /\ ~Opening' /\ ~Back' /\ ~Posted' /\ ~Telling' /\ ~Untold'
          /\ hpc' = "answer"
      BY <1>1, <2>1, <2>4, <2>6 DEF Told, AnswerUsed, Opening, Back, Posted, Telling, Untold
    <3>3. Measured' = Measured /\ Last' = Last /\ Active' = Active /\ TaskIters' = TaskIters
      BY <1>1, <2>1 DEF Measured, Last, Active, TaskIters
    <3>4. ResultsInv'
      BY <1>1, <2>1, <2>2, <2>3, <2>4, <3>2, <3>3 DEF SearchInv, ResultsInv
    <3>5. KeptInv'
      BY <1>1, <2>1, <2>3, <2>4, <3>2, <3>3 DEF SearchInv, KeptInv
    <3>6. BestInv'
      BY <1>1, <2>1, <2>2, <2>3, <2>4, <3>1, <3>2, <3>3 DEF SearchInv, BestInv
    <3>7. CallsInv'
      BY <2>1, <2>2, <2>3, <2>4, <3>1, <3>2, <3>3 DEF SearchInv, CallsInv
    <3>8. SkippedInv'
      BY <1>1, <2>1, <2>3 DEF SearchInv, SkippedInv
    <3> QED
      BY <1>2, <3>4, <3>5, <3>6, <3>7, <3>8 DEF SearchInv
  <2> QED
    BY <1>8, <2>5, <2>6 DEF PutReply
<1>9. CASE Delete
  <2>1. hpc \in {"deleted", "returned"}
    BY <1>0, <1>9 DEF Delete, HttpPhase
  <2>2. ~Out
    BY <1>0, <2>1 DEF BenchInv, Out
  <2>3. ~Stage'
    BY <1>1, <1>3, <2>1, <2>2
       DEF Stage, Opening, Untold, Back, Waiting, Posted, Telling, Told, AnswerUsed
  <2> QED
    BY <1>2, <2>3, SearchIdle
<1> QED
  BY <1>4, <1>5, <1>6, <1>7, <1>8, <1>9 DEF Engine

(* The worker's own steps: between the answers it was told and the next    *)
(* question.                                                               *)
LEMMA SearchWorker ==
  ASSUME SafeInv, SafeInv', SearchInv, Worker
  PROVE  SearchInv'
<1>0. /\ TypeInv /\ TurnInv /\ BenchInv /\ PipeInv /\ AskInv /\ NoThreshold
      /\ toWorker \in Seq(Int) /\ fromWorker \in Seq(PipeMessage) /\ left \in Nat
      /\ results \in Seq(Result) /\ best \in BestRecord \cup {None}
  BY DEF SafeInv, SearchInv, TypeInv, SharedTypeOK, ServiceTypeOK, Result
<1>1. UNCHANGED <<sys, cpc, up, conn, chan, sender, hpc, http, iter, maxIter, filter, skip, content,
                  sumEval, minEval, finalEval, answer, results>>
  BY WorkerLeaves DEF sysVars, clientVars, streamVars, chanVars, loopVars, optVars, engineVars, historyVars
<1>2. NoThreshold' /\ (Below(Asked)' <=> Below(Asked))
  BY <1>0, OtherMessages DEF NoThreshold
<1>3. /\ (Out' <=> Out) /\ (Waiting' <=> Waiting) /\ (Opening' <=> Opening) /\ (Posted' <=> Posted)
      /\ (Back' <=> Back) /\ (AnswerUsed' <=> AnswerUsed)
  BY <1>1, <1>2, BenchOutBelow DEF Out, BenchOut, Below, Asked, AtClient, Waiting, Opening, Posted,
     Back, AnswerUsed
<1>4. /\ Measured' = Measured /\ Last' = Last /\ Active' = Active /\ TaskIters' = TaskIters
      /\ Measured \in Nat /\ TaskIters \in Int
  BY <1>0, <1>1, ConstAssumption DEF Measured, Last, Active, TaskIters, TypeInv, ServerTypeOK
<1>5. Window /\ ~Out /\ ~AnswerUsed /\ hpc # "conclude" /\ ~Waiting
  <2>1. Inflight
    BY <1>0, PipeAppend DEF Worker, WorkerAsk, WorkerTell, WorkerFinish, WorkerFail, WorkerDie, Inflight
  <2>2. Window
    BY <1>0, <2>1 DEF PipeInv
  <2> QED
    BY <1>0, <2>2, HandlerBusy DEF Window, AtHandler, AnswerUsed
<1>6. CASE WorkerAsk \/ WorkerFinish \/ WorkerFail \/ WorkerDie
  <2>1. /\ wpc = "search" /\ toWorker = <<>> /\ toWorker' = <<>> /\ fromWorker = <<>>
        /\ left' = left /\ best' = best /\ wpc' # "search"
    BY <1>0, <1>6 DEF WorkerAsk, WorkerFinish, WorkerFail, WorkerDie, PipeInv
  <2>2. Untold => Measured = 0
    BY <1>4, <2>1 DEF SearchInv, BestInv
  <2>3. /\ ~Telling /\ ~Telling' /\ (Told' <=> Told) /\ (Untold' <=> Untold) /\ (Stage' <=> Stage)
    BY <1>1, <1>3, <2>1 DEF Telling, Told, Untold, Stage
  <2>4. Measured + left = TaskIters
    BY <2>1 DEF SearchInv, CallsInv
  <2>5. ResultsInv'
    BY <1>1, <1>3, <1>4, <2>1, <2>3 DEF SearchInv, ResultsInv
  <2>6. KeptInv'
    BY <1>1, <1>3, <1>4, <2>3 DEF SearchInv, KeptInv
  <2>7. /\ fromWorker' # <<>> /\ Head(fromWorker').kind = "final" =>
             left = 0 /\ best # None /\ Head(fromWorker').param = best.param
    <3>1. CASE WorkerAsk
      BY <2>1, <3>1, PipeAppend DEF WorkerAsk, Proposal
    <3>2. CASE WorkerFinish
      BY <2>1, <3>2, PipeAppend DEF WorkerFinish, Solution
    <3>3. CASE WorkerFail
      BY <2>1, <3>3, PipeAppend DEF WorkerFail, Exception
    <3>4. CASE WorkerDie
      BY <2>1, <3>4 DEF WorkerDie
    <3> QED
      BY <1>6, <3>1, <3>2, <3>3, <3>4
  <2>8. BestInv'
    BY <1>1, <1>3, <1>4, <1>5, <2>1, <2>2, <2>3, <2>7 DEF SearchInv, BestInv
  <2>9. CallsInv'
    BY <1>0, <1>3, <1>4, <1>5, <2>1, <2>2, <2>3, <2>4, <2>7 DEF CallsInv
  <2>10. SkippedInv'
    BY <1>1, <2>3 DEF SearchInv, SkippedInv
  <2> QED
    BY <1>2, <2>5, <2>6, <2>8, <2>9, <2>10 DEF SearchInv
<1>7. CASE WorkerTell
  <2>1. /\ wpc = "objective" /\ wpc' = "search" /\ toWorker # <<>> /\ toWorker' = <<>>
        /\ fromWorker = <<>> /\ fromWorker' = <<>> /\ left' = left - 1 /\ asked' = asked
        /\ best' = IF best = None \/ Head(toWorker) < best.eval
                     THEN [param |-> asked, eval |-> Head(toWorker)] ELSE best
    BY <1>0, <1>7, PipeTail DEF WorkerTell, PipeInv, Improves
  <2>2. Measured > 0 /\ Head(toWorker) = Last.eval
    BY <2>1 DEF SearchInv, ResultsInv
  <2>3. Telling /\ hpc = "answer" /\ http = "recv"
    <3>1. Window => iter = 0 \/ (hpc = "answer" /\ http = "recv")
      BY DEF Window
    <3>2. Window /\ iter = 0 /\ ~(hpc = "answer" /\ http = "recv") => Opening \/ Untold
      BY DEF Window, Opening, Untold, Back, Posted
    <3>3. Opening \/ Untold => iter = Measured
      BY DEF SearchInv, ResultsInv
    <3> QED
      BY <1>4, <1>5, <2>1, <2>2, <3>1, <3>2, <3>3 DEF Telling
  <2>4. /\ Untold /\ Stage /\ ~Opening /\ ~Back /\ ~Posted
    BY <1>5, <2>3 DEF Untold, Stage, Opening, Back, Posted
  <2>5. Told' /\ ~Telling' /\ ~Untold' /\ Stage'
    BY <1>1, <1>3, <2>1, <2>3, <2>4 DEF Told, Telling, Untold, Stage
  <2>6. Measured + left = TaskIters + 1
    BY <2>1, <2>2, <2>4 DEF SearchInv, CallsInv
  <2>7. ResultsInv'
    BY <1>1, <1>3, <1>4, <1>5, <2>1, <2>4, <2>5 DEF SearchInv, ResultsInv
  <2>8. KeptInv'
    BY <1>1, <1>3, <1>4, <1>5, <2>3, <2>4, <2>5 DEF SearchInv, KeptInv
  <2>9. asked \in [Active -> Values] /\ Last.eval \in Int
    <3>1. Len(results) \in 1 .. Len(results)
      BY <1>0, <1>4, <2>2 DEF Measured
    <3> QED
      BY <1>0, <2>1, <3>1, ResultEval DEF AskInv, Last
  <2>10. [param |-> asked, eval |-> Last.eval] # None
    <3>1. asked \in Assignment
      BY <2>9 DEF Assignment, Active
    <3>2. [param |-> asked, eval |-> Last.eval] \in BestRecord
      BY <2>9, <3>1 DEF BestRecord
    <3> QED
      BY <3>2, BestAssumption
  <2>11. /\ Founded(results, best', Measured) /\ best' # None
    <3>1. Founded(results, best, Len(results) - 1) /\ Has(results[Len(results)].config, asked)
      BY <2>2, <2>4 DEF SearchInv, BestInv, Measured, Last
    <3>2. best = None \/ best.eval \in Int
      BY <1>0 DEF BestRecord
    <3> QED
      BY <1>0, <2>1, <2>2, <2>10, <3>1, <3>2, FoundedMore DEF Measured, Last
  <2>12. best'.param \in [Active -> Values]
    BY <2>1, <2>4, <2>9 DEF SearchInv, BestInv
  <2>13. BestInv'
    BY <1>1, <1>3, <1>4, <1>5, <2>1, <2>3, <2>4, <2>5, <2>11, <2>12 DEF BestInv
  <2>14. CallsInv'
    BY <1>0, <1>3, <1>4, <1>5, <2>1, <2>6 DEF CallsInv
  <2>15. SkippedInv'
    BY <1>1, <2>4 DEF SearchInv, SkippedInv
  <2> QED
    BY <1>2, <2>7, <2>8, <2>13, <2>14, <2>15 DEF SearchInv
<1> QED
  BY <1>6, <1>7 DEF Worker

-----------------------------------------------------------------------------
(* The steps of the handler.                                               *)

(* Only Apply asks for a benchmark.                                        *)
LEMMA HandlerOut ==
  ASSUME TypeInv, Handler
  PROVE  /\ Out' => Out \/ (Apply /\ iter' = iter + 1)
         /\ Waiting' => Contains(up, Asked) /\ hpc' \in {"loop", "receive"}
<1>1. cpc' = cpc /\ (conn' = "open" => conn = "open")
  BY HandlerLeaves DEF HandlerFrame, clientVars, Handler, Select, HandlerEOF, HandlerReceive,
     HandleJobInit, HandleJobCreate, HandleJobRestart, HandleBenchMark, HandleRestore, Backup,
     Create, Created, CreateFailed, Open, Opened, Evaluate, Answer, Apply, Conclude, Panic,
     DeleteTask, Deleted, Return, Returned, streamVars
<1>2. Below(Asked)' => Below(Asked) \/ (Apply /\ iter' = iter + 1)
  BY HandlerMessages DEF Below, Asked
<1>3. Contains(up', Asked) => Contains(up, Asked)
  BY HandlerMessages
<1> QED
  BY <1>1, <1>2, <1>3, BenchOutBelow DEF Out, BenchOut, Below, Asked, AtClient, Waiting

(* A message of the client in flight has the turn.                         *)
LEMMA ReceivedOut ==
  ASSUME TypeInv, TurnInv, NEW k, HandlerReceive(k)
  PROVE  ~BenchOut /\ ~Out /\ ~Contains(up', Asked) /\ hpc = "receive"
<1>1. AtUp /\ hpc = "receive"
  BY DEF HandlerReceive, CanStep, AtUp
<1>2. ~BenchOut
  BY <1>1, BenchTurn DEF TurnInv, Exclusive
<1>3. up' = <<>>
  BY TurnReceived
<1> QED
  BY <1>1, <1>2, <1>3, ContainsEmpty DEF Out

(* The steps of the handler that are outside the evaluations.              *)
Outside ==
  \/ Select /\ stop # 0
  \/ HandlerEOF \/ HandleJobInit \/ HandleJobCreate \/ HandleJobRestart \/ HandleRestore
  \/ Backup \/ Create \/ CreateFailed \/ Conclude \/ Panic
  \/ DeleteTask \/ Deleted \/ Return \/ Returned
  \/ Answer /\ hpc' = "return"
  \/ Apply /\ hpc' = "return"

LEMMA HandlerOutside ==
  ASSUME SafeInv, Handler, Outside
  PROVE  ~Stage'
<1>0. TypeInv /\ TurnInv /\ BenchInv
  BY DEF SafeInv
<1>1. ~(Apply /\ iter' = iter + 1)
  <2>1. ~(Apply /\ hpc' # "return")
    BY DEF Outside, Select, HandlerEOF, HandleJobInit, HandleJobCreate, HandleJobRestart,
       HandleRestore, HandlerReceive, Backup, Create, CreateFailed, Conclude, Panic, DeleteTask,
       Deleted, Return, Returned, Answer, Apply, CanStep
  <2>2. Apply /\ hpc' = "return" => iter' = iter /\ iter \in Nat
    BY <1>0 DEF Apply, OnlyLoop, TypeInv, ServerTypeOK
  <2> QED
    BY <2>1, <2>2
<1>2. ~Out
  <2>1. CASE Select /\ stop # 0
    BY <1>0, <2>1, HandlerBusy DEF AtStop
  <2>2. CASE HandlerEOF
    BY <2>2 DEF HandlerEOF, Out
  <2>3. CASE HandleJobInit \/ HandleJobCreate \/ HandleJobRestart \/ HandleRestore
    BY <1>0, <2>3, ReceivedOut DEF HandleJobInit, HandleJobCreate, HandleJobRestart, HandleRestore
  <2>4. CASE \/ Backup \/ Create \/ CreateFailed \/ Conclude \/ Panic \/ DeleteTask \/ Deleted
             \/ Return \/ Returned \/ Answer \/ Apply
    <3>1. hpc \notin {"loop", "receive"}
      BY <2>4 DEF Backup, Create, CreateFailed, Conclude, Panic, DeleteTask, Deleted, Return,
         Returned, Answer, Apply, CanStep
    <3> QED
      BY <1>0, <3>1 DEF BenchInv, Out
  <2> QED
    BY <2>1, <2>2, <2>3, <2>4 DEF Outside
<1>3. ~Waiting'
  <2>1. CASE HandleJobInit \/ HandleJobCreate \/ HandleJobRestart \/ HandleRestore
    BY <1>0, <2>1, ReceivedOut
       DEF HandleJobInit, HandleJobCreate, HandleJobRestart, HandleRestore, Waiting
  <2>2. CASE (Select /\ stop # 0) \/ Deleted
    <3>1. AtStop
      BY <1>0, <2>2 DEF AtStop, Deleted, CanStep, TurnInv
    <3> QED
      BY <1>0, <3>1, HandlerBusy, HandlerOut, ContainsEmpty
  <2>3. CASE \/ HandlerEOF \/ Backup \/ Create \/ CreateFailed \/ Conclude \/ Panic \/ DeleteTask
             \/ Return \/ Returned \/ (Answer /\ hpc' = "return") \/ (Apply /\ hpc' = "return")
    <3>1. hpc' \notin {"loop", "receive"}
      BY <2>3 DEF HandlerEOF, Backup, Create, CreateFailed, Conclude, Panic, DeleteTask, Return,
         Returned, OnlyLoop
    <3> QED
      BY <3>1 DEF Waiting
  <2> QED
    BY <2>1, <2>2, <2>3 DEF Outside
<1>4. /\ hpc' \notin {"open", "opened", "evaluate", "answer", "apply", "conclude"}
      /\ hpc' = "created" => http' = "post"
  BY DEF Outside, Select, HandlerEOF, HandleJobInit, HandleJobCreate, HandleJobRestart,
     HandleRestore, Backup, Create, CreateFailed, Conclude, Panic, DeleteTask, Deleted, Return,
     Returned, OnlyLoop, InitTuned, InitFeatureSel, Request
<1> QED
  BY <1>0, <1>1, <1>2, <1>3, <1>4, HandlerOut
     DEF Stage, Opening, Untold, Back, Posted, Telling, Told, AnswerUsed

LEMMA NoThresholdAsked ==
  ASSUME Mismatched = {}, TypeInv, NoThreshold, Handler
  PROVE  NoThreshold'
<1>1. ~(Answer /\ answer.kind # "final" /\ answer.param \in Mismatched)
  OBVIOUS
<1> QED
  BY <1>1, HandlerMessages DEF NoThreshold, Below

(* What an evaluation is attributed to stays what it was.                  *)
LEMMA SearchApply ==
  ASSUME Mismatched = {}, SafeInv, SafeInv', SearchInv, Apply, hpc' # "return"
  PROVE  SearchInv'
<1>0. /\ TypeInv /\ TurnInv /\ PipeInv /\ AskInv /\ NoThreshold /\ Handler
      /\ answer \in AnswerMessage /\ hpc = "apply" /\ skip \subseteq Knobs
  BY DEF SafeInv, SearchInv, TypeInv, SharedTypeOK, ServerTypeOK, Control, AnswerKnown, Apply,
     CanStep, Handler
<1>1. /\ UNCHANGED <<maxIter, filter, skip, content, sumEval, minEval, finalEval, answer, http,
                     wpc, left, asked, best, toWorker, fromWorker, results>>
      /\ sys' = SetOn(answer.param, Active)
      /\ IF answer.kind = "final"
           THEN hpc' = "conclude" /\ iter' = iter /\ chan' = chan
           ELSE iter' = iter + 1 /\ hpc' = "loop"
  BY DEF Apply, OnlyLoop, HandlerFrame, workerVars, historyVars, engineVars
<1>2. AnswerUsed /\ Told /\ Stage /\ iter = Measured /\ Measured \in Nat
  BY <1>0 DEF AnswerUsed, Told, Stage, SearchInv, ResultsInv, Measured, TypeInv, SharedTypeOK
<1>3. toWorker = <<>> /\ fromWorker = <<>> /\ wpc # "search"
  BY <1>0 DEF PipeInv, Inflight, Window
<1>4. ~Out /\ up = <<>> /\ ~Waiting'
  BY <1>0, HandlerBusy, HandlerOut, ContainsEmpty DEF AtHandler
<1>5. /\ ~Opening' /\ ~Back' /\ ~Posted' /\ ~Telling' /\ ~Untold' /\ ~AnswerUsed'
      /\ (Told' <=> hpc' = "conclude") /\ hpc' # "evaluate"
  BY <1>1, <1>4 DEF Opening, Back, Posted, Telling, Untold, AnswerUsed, Told
<1>6. Measured' = Measured /\ Last' = Last /\ Active' = Active /\ TaskIters' = TaskIters
  BY <1>1 DEF Measured, Last, Active, TaskIters
<1>7. Out' => iter' = iter + 1 /\ answer.kind # "final"
  BY <1>0, <1>1, <1>2, <1>4, HandlerOut
<1>8. answer.kind \in {"param", "final"}
  BY <1>0 DEF AnswerMessage
<1>9. ResultsInv'
  BY <1>1, <1>2, <1>3, <1>4, <1>5, <1>6, <1>7 DEF ResultsInv
<1>10. KeptInv'
  BY <1>1, <1>2, <1>5, <1>6 DEF SearchInv, KeptInv
<1>11. BestInv'
  <2>1. Founded(results, best, Measured) /\ (best # None => best.param \in [Active -> Values])
    BY <1>2 DEF SearchInv, BestInv
  <2>2. ASSUME hpc' = "conclude" PROVE best # None /\ Has(sys', best.param)
    <3>1. answer.kind = "final" /\ best # None /\ answer.param = best.param
      BY <1>1, <1>2, <2>2 DEF SearchInv, BestInv
    <3>2. best.param \in [Active -> Values] /\ sys' = SetOn(best.param, Active)
      BY <1>1, <2>1, <3>1
    <3>3. \A k \in DOMAIN best.param : sys'[k] = best.param[k]
      BY <3>2 DEF SetOn, Active
    <3> QED
      BY <3>1, <3>3 DEF Has
  <2> QED
    BY <1>1, <1>3, <1>5, <1>6, <2>1, <2>2 DEF BestInv, Has
<1>12. CallsInv'
  <2>1. answer.kind = "param" => wpc = "objective" /\ Measured + left = TaskIters
    BY <1>0, <1>2 DEF AskInv, SearchInv, CallsInv
  <2> QED
    BY <1>1, <1>3, <1>5, <1>6, <1>7, <1>8, <2>1 DEF CallsInv
<1>13. SkippedInv'
  <2>1. \A k \in skip : sys'[k] = sys[k]
    BY <1>0, <1>1 DEF SetOn, Active
  <2> QED
    BY <1>1, <1>2, <2>1 DEF SearchInv, SkippedInv, OffSame
<1> QED
  BY <1>0, <1>9, <1>10, <1>11, <1>12, <1>13, NoThresholdAsked DEF SearchInv

LEMMA SearchHandler ==
  ASSUME Mismatched = {}, SafeInv, SafeInv', SearchInv, Handler
  PROVE  SearchInv'
<1>0. /\ TypeInv /\ TurnInv /\ BenchInv /\ PipeInv /\ PhaseInv /\ AskInv /\ HttpPhase /\ NoThreshold
      /\ results \in Seq(Result) /\ minEval \in Int /\ sumEval \in Int
      /\ NoThreshold' /\ None \notin Int /\ Measured \in Nat
  BY NoThresholdAsked, ConstAssumption, SMTT(30) DEF SafeInv, SearchInv, TypeInv, SharedTypeOK,
     ServerTypeOK, Control, Result, Measured
<1>1. UNCHANGED <<answer, wpc, left, asked, best, toWorker, fromWorker, results>>
  BY HandlerLeaves DEF HandlerFrame, workerVars, historyVars
<1>2. CASE Outside
  BY <1>0, <1>2, HandlerOutside, SearchIdle
<1>3. CASE Select /\ stop = 0
  <2>1. /\ UNCHANGED <<up, sys, iter, maxIter, filter, skip, content, sumEval, minEval, finalEval, http>>
        /\ hpc = "loop" /\ hpc' = "receive"
    BY <1>3 DEF Select, CanStep, sysVars, optVars, engineVars
  <2>2. ~(Apply /\ iter' = iter + 1)
    BY <2>1 DEF Apply, CanStep
  <2>3. /\ (Out' => Out) /\ (Opening' => Opening) /\ (Posted' => Posted) /\ (Telling' => Telling)
        /\ (Told' => Told) /\ (AnswerUsed' => AnswerUsed) /\ (Waiting' => Waiting /\ up' = up)
    BY <1>0, <2>1, <2>2, HandlerOut DEF Opening, Posted, Telling, Told, AnswerUsed, Waiting
  <2> QED
    BY <1>0, <1>1, <2>1, <2>3, SearchKept
<1>4. CASE Created \/ Open
  <2>1. /\ UNCHANGED <<up, sys, iter, maxIter, filter, skip, content, sumEval, minEval, finalEval>>
        /\ hpc \in {"created", "open"} /\ hpc' \in {"open", "opened"} /\ Opening
    BY <1>4 DEF Created, Open, CanStep, OnlyLoop, Opening, sysVars, optVars, streamVars
  <2>2. ~(Apply /\ iter' = iter + 1)
    BY <2>1 DEF Apply, CanStep
  <2>3. /\ (Out' => Out) /\ ~Posted' /\ ~Telling' /\ ~Told' /\ ~AnswerUsed' /\ ~Waiting'
    BY <1>0, <2>1, <2>2, HandlerOut DEF Posted, Telling, Told, AnswerUsed, Waiting
  <2> QED
    BY <1>0, <1>1, <2>1, <2>3, SearchKept
<1>5. CASE Answer /\ hpc' # "return"
  <2>1. /\ UNCHANGED <<up, sys, iter, maxIter, filter, skip, content, sumEval, minEval, finalEval>>
        /\ hpc = "answer" /\ http = "ok" /\ hpc' = "apply" /\ http' = "none"
    BY <1>5 DEF Answer, CanStep, OnlyLoop, Request, sysVars, optVars, streamVars
  <2>2. ~(Apply /\ iter' = iter + 1)
    BY <2>1 DEF Apply, CanStep
  <2>3. /\ (Out' => Out) /\ AnswerUsed /\ Told /\ ~Opening' /\ ~Posted' /\ ~Telling' /\ ~Waiting'
    BY <1>0, <2>1, <2>2, HandlerOut DEF Opening, Posted, Telling, Told, AnswerUsed, Waiting
  <2> QED
    BY <1>0, <1>1, <2>1, <2>3, SearchKept
<1>6. CASE Apply /\ hpc' # "return"
  BY <1>6, SearchApply
<1>7. CASE HandleBenchMark
  <2>1. /\ UNCHANGED <<sys, iter, maxIter, filter, skip, minEval, finalEval, chan, http>>
        /\ content' = Head(up).val /\ sumEval' = Head(up).val /\ hpc' = "evaluate"
    BY <1>7 DEF HandleBenchMark, HandlerReceive, sysVars, engineVars
  <2>2. hpc = "receive" /\ Waiting /\ ~Out /\ ~Waiting'
    BY <1>0, <1>7, ReceivedOut, HandlerReads DEF HandleBenchMark, Waiting, Asked
  <2>3. ~Out'
    BY <1>0, <2>2, HandlerOut DEF Apply, CanStep
  <2>4. Back /\ Untold /\ Stage /\ Measured > 0 /\ Head(up).val = Last.eval /\ iter = Measured
    BY <2>2 DEF Back, Untold, Stage, SearchInv, ResultsInv
  <2>5. /\ ~Opening' /\ Back' /\ ~Posted' /\ ~Telling' /\ Untold' /\ ~Told' /\ ~AnswerUsed'
        /\ Measured' = Measured /\ Last' = Last /\ Active' = Active /\ TaskIters' = TaskIters
        /\ ~AnswerUsed
    BY <1>1, <2>1, <2>2 DEF Opening, Back, Posted, Telling, Untold, Told, AnswerUsed, Measured,
       Last, Active, TaskIters
  <2>6. ResultsInv'
    BY <1>1, <2>1, <2>2, <2>3, <2>4, <2>5 DEF SearchInv, ResultsInv
  <2>7. KeptInv'
    BY <1>1, <2>1, <2>3, <2>4, <2>5 DEF SearchInv, KeptInv
  <2>8. BestInv'
    BY <1>1, <2>1, <2>3, <2>4, <2>5 DEF SearchInv, BestInv
  <2>9. CallsInv'
    BY <1>1, <2>2, <2>3, <2>4, <2>5 DEF SearchInv, CallsInv
  <2>10. SkippedInv'
    BY <1>1, <2>1, <2>4 DEF SearchInv, SkippedInv
  <2> QED
    BY <1>0, <2>6, <2>7, <2>8, <2>9, <2>10 DEF SearchInv
<1>8. CASE Opened
  <2>1. /\ UNCHANGED <<sys, iter, maxIter, filter, skip, minEval, finalEval, sumEval>>
        /\ hpc = "opened" /\ hpc' = "evaluate"
    BY <1>8 DEF Opened, CanStep, OnlyLoop, sysVars
  <2>2. Opening /\ Stage /\ iter = Measured /\ iter = 0
    BY <1>0, <2>1 DEF Opening, Stage, SearchInv, ResultsInv, PhaseInv
  <2>3. ~Out' /\ ~Waiting' /\ ~Out
    BY <1>0, <2>1, HandlerBusy, HandlerOut DEF AtHandler, Apply, CanStep
  <2>4. /\ ~Opening' /\ Back' /\ ~Posted' /\ ~Telling' /\ Untold' /\ ~Told' /\ ~AnswerUsed'
        /\ Measured' = Measured /\ Last' = Last /\ Active' = Active /\ TaskIters' = TaskIters
        /\ ~AnswerUsed
    BY <1>1, <2>1, <2>3 DEF Opening, Back, Posted, Telling, Untold, Told, AnswerUsed, Measured,
       Last, Active, TaskIters
  <2>0. Measured = 0 /\ Measured' = 0
    BY <2>2, <2>4
  <2>5. ResultsInv'
    BY <1>1, <2>0, <2>1, <2>2, <2>3, <2>4 DEF SearchInv, ResultsInv
  <2>6. KeptInv'
    BY <2>0, <2>3, <2>4 DEF KeptInv, Kept
  <2>7. BestInv'
    <3>1. best = None
      BY <2>2 DEF SearchInv, BestInv, Founded
    <3> QED
      BY <1>1, <2>0, <2>1, <2>2, <2>3, <2>4, <3>1 DEF SearchInv, BestInv, Founded
  <2>8. CallsInv'
    BY <1>1, <2>0, <2>2, <2>3, <2>4 DEF SearchInv, CallsInv
  <2>9. SkippedInv'
    BY <1>1, <2>1, <2>2 DEF SearchInv, SkippedInv
  <2> QED
    BY <1>0, <2>5, <2>6, <2>7, <2>8, <2>9 DEF SearchInv
<1>9. CASE Evaluate
  <2>1. /\ UNCHANGED <<sys, iter, maxIter, filter, skip, content, sumEval>>
        /\ hpc = "evaluate" /\ hpc' = "answer" /\ http' = "put"
        /\ IF iter = 1 \/ sumEval < minEval
             THEN minEval' = sumEval /\ finalEval' = IF content = None THEN evalBase ELSE content
             ELSE UNCHANGED <<minEval, finalEval>>
    BY <1>9 DEF Evaluate, CanStep, OnlyLoop, Request, NewMinimum, sysVars
  <2>2. Back /\ Untold /\ Stage /\ iter = Measured
    BY <2>1 DEF Back, Untold, Stage, SearchInv, ResultsInv
  <2>3. ~Out' /\ ~Waiting'
    BY <1>0, <2>1, HandlerBusy, HandlerOut DEF AtHandler, Apply, CanStep
  <2>4. /\ ~Opening' /\ ~Back' /\ Posted' /\ ~Telling' /\ Untold' /\ ~Told' /\ ~AnswerUsed'
        /\ Measured' = Measured /\ Last' = Last /\ Active' = Active /\ TaskIters' = TaskIters
        /\ ~AnswerUsed
    BY <1>1, <2>1, <2>3 DEF Opening, Back, Posted, Telling, Untold, Told, AnswerUsed, Measured,
       Last, Active, TaskIters
  <2>5. ResultsInv'
    BY <1>1, <2>1, <2>2, <2>3, <2>4 DEF SearchInv, ResultsInv
  <2>6. Kept(results, minEval', finalEval', Measured)
    <3>1. CASE Measured = 0
      BY <3>1 DEF Kept
    <3>2. CASE Measured > 0
      <4>1. content = Last.eval /\ sumEval = Last.eval /\ content # None
        BY <1>0, <2>1, <3>2 DEF SearchInv, ResultsInv
      <4>2. Kept(results, minEval, finalEval, Measured - 1)
        BY <2>2 DEF SearchInv, KeptInv
      <4>3. /\ Measured = 1 \/ sumEval < minEval => Kept(results, sumEval, sumEval, Measured)
            /\ Measured # 1 /\ ~(sumEval < minEval) => Kept(results, minEval, finalEval, Measured)
        BY <1>0, <3>2, <4>1, <4>2, KeptMore DEF Measured, Last
      <4> QED
        BY <2>1, <2>2, <4>1, <4>3
    <3> QED
      BY <1>0, <3>1, <3>2
  <2>7. KeptInv'
    BY <1>1, <2>3, <2>4, <2>6 DEF KeptInv
  <2>8. BestInv'
    BY <1>1, <2>1, <2>2, <2>3, <2>4 DEF SearchInv, BestInv
  <2>9. CallsInv'
    BY <1>1, <2>2, <2>3, <2>4 DEF SearchInv, CallsInv
  <2>10. SkippedInv'
    BY <1>1, <2>1, <2>2 DEF SearchInv, SkippedInv
  <2> QED
    BY <1>0, <2>5, <2>7, <2>8, <2>9, <2>10 DEF SearchInv
<1> QED
  BY <1>2, <1>3, <1>4, <1>5, <1>6, <1>7, <1>8, <1>9 DEF Handler, Outside

LEMMA SearchInit == Init => SearchInv
<1> SUFFICES ASSUME Init PROVE SearchInv
  OBVIOUS
<1>1. /\ up = <<>> /\ down = <<>> /\ chan = None /\ sender = None /\ hpc = "idle" /\ cpc = "idle"
      /\ wpc = "none" /\ toWorker = <<>> /\ fromWorker = <<>> /\ conn = "none"
  BY DEF Init
<1>2. NoThreshold
  BY <1>1, ContainsEmpty DEF NoThreshold, Below, Carries
<1>3. ~Opening /\ ~Out /\ ~Waiting /\ ~Back /\ ~Posted /\ ~Telling /\ ~Told /\ ~Untold /\ ~AnswerUsed
      /\ ~Stage
  BY <1>1 DEF Opening, Out, Waiting, Back, Posted, Telling, Told, Untold, AnswerUsed, Stage
<1> QED
  BY <1>1, <1>2, <1>3 DEF SearchInv, ResultsInv, KeptInv, BestInv, CallsInv, SkippedInv

TuningInv == SafeInv /\ FreshInv /\ CycleInv /\ ConnInv /\ SearchInv

LEMMA TuningStep ==
  ASSUME Mismatched = {}, TuningInv, [Next]_vars
  PROVE  TuningInv'
<1> USE DEF TuningInv
<1>1. SafeInv'
  BY SafeStep
<1>2. FreshInv' /\ CycleInv' /\ ConnInv'
  BY FreshStep, CycleStep, ConnStep
<1>3. SearchInv'
  BY <1>1, SearchClient, SearchOthers, SearchWorker, SearchEngine, SearchHandler DEF Next
<1> QED
  BY <1>1, <1>2, <1>3

LEMMA TuningInit == Init => TuningInv
<1>1. Init => ConnInv
  <2> SUFFICES ASSUME Init PROVE ConnInv
    OBVIOUS
  <2>1. cpc = "idle" /\ down = <<>>
    BY DEF Init
  <2> QED
    BY <2>1, ContainsEmpty DEF ConnInv
<1> QED
  BY <1>1, SafeInit, PhasesInit, SearchInit DEF TuningInv

LEMMA TuningAlways ==
  ASSUME Mismatched = {}
  PROVE  Spec => []TuningInv
<1>1. TuningInv /\ [Next]_vars => TuningInv'
  BY TuningStep
<1> QED
  BY <1>1, TuningInit, PTL DEF Spec

-----------------------------------------------------------------------------
(* FinalIsBest.                                                            *)

FinalMade ==
  \E i \in DOMAIN results :
    /\ IsBest(i)
    /\ Has(sys, [k \in Active |-> results[i].config[k]])
    /\ finalEval = results[i].eval

(* Once the result is on its way the session can only end.                 *)
FinalInv ==
  Concluded(chan) \/ Concluded(sender) =>
    /\ FinalMade
    /\ cycles <= 0 /\ hpc \in {"delete", "deleted", "loop", "return", "returned"}
    /\ hpc = "loop" => stop # 0
    /\ cpc # "benchmark" /\ ~Somewhere(Asked)

(* The best of the worker is what the handler announces.                   *)
LEMMA ConcludeFinal ==
  ASSUME SafeInv, SearchInv, hpc = "conclude"
  PROVE  FinalMade
<1>0. /\ results \in Seq(Result) /\ Measured = Len(results) /\ best \in BestRecord \cup {None}
      /\ sys \in Config
  BY DEF SafeInv, TypeInv, SharedTypeOK, ServiceTypeOK, Result, Measured
<1>1. /\ Kept(results, minEval, finalEval, Measured) /\ Founded(results, best, Measured)
      /\ best # None /\ Has(sys, best.param) /\ best.param \in [Active -> Values]
  BY DEF SearchInv, KeptInv, BestInv, Told, Stage
<1>2. Measured > 0 /\ Measured \in Nat /\ DOMAIN results = 1 .. Measured
      /\ \A i \in 1 .. Measured : results[i].eval \in Int
  BY <1>0, <1>1, ResultEval DEF Founded
<1>3. /\ finalEval = minEval
      /\ \E i \in 1 .. Measured : results[i].eval = minEval
      /\ \A i \in 1 .. Measured : minEval <= results[i].eval
  BY <1>1, <1>2 DEF Kept, MinOf
<1>4. PICK i \in 1 .. Measured : results[i].eval = best.eval /\ Has(results[i].config, best.param)
  BY <1>1, <1>2 DEF Founded
<1>5. \A j \in 1 .. Measured : best.eval <= results[j].eval
  BY <1>1, <1>2 DEF Founded
<1>6. finalEval = results[i].eval
  <2>1. PICK j \in 1 .. Measured : results[j].eval = minEval
    BY <1>3
  <2>2. best.eval <= minEval /\ minEval <= results[i].eval
    BY <1>3, <1>5, <2>1
  <2> QED
    BY <1>2, <1>3, <1>4, <2>1, <2>2
<1>7. IsBest(i)
  BY <1>2, <1>4, <1>5 DEF IsBest
<1>8. Has(sys, [k \in Active |-> results[i].config[k]])
  <2>1. \A k \in Active : sys[k] = best.param[k] /\ results[i].config[k] = best.param[k]
    BY <1>1, <1>4 DEF Has
  <2> QED
    BY <2>1 DEF Has
<1> QED
  BY <1>2, <1>6, <1>7, <1>8 DEF FinalMade

LEMMA FinalStep ==
  ASSUME TuningInv, FinalInv, [Next]_vars
  PROVE  FinalInv'
<1>0. /\ TypeInv /\ TurnInv /\ AskInv /\ PhaseInv /\ HttpPhase /\ SafeInv /\ SearchInv
      /\ CycleInv /\ ConnInv /\ NoThreshold
  BY DEF TuningInv, SafeInv, TypeInv, Control, SearchInv
<1>1. SUFFICES ASSUME Concluded(chan') \/ Concluded(sender') PROVE FinalInv'
  BY DEF FinalInv
<1>2. ASSUME Concluded(chan) \/ Concluded(sender),
             UNCHANGED <<sys, results, finalEval, skip>>
      PROVE  FinalMade'
  BY <1>2 DEF FinalInv, FinalMade, IsBest, Has, Active
<1>3. CASE Start
  BY <1>0, <1>1, <1>3, StartLeaves DEF TurnInv, chanVars, Concluded
<1>4. CASE ClientStep \/ Abort
  <2>1. UNCHANGED <<chan, sender, sys, hpc, stop, cycles, finalEval, skip>>
    BY <1>4, ClientLeaves DEF ClientFrame, chanVars, sysVars, loopVars, optVars
  <2>2. cpc # "benchmark" /\ ~Contains(up, Asked) /\ ~Below(Asked)
    BY <1>1, <2>1 DEF FinalInv, Somewhere
  <2>3. ~BenchMark /\ ~RecvBenchMark /\ ~RecvThreshold
    BY <1>0, <2>2, ClientReads DEF BenchMark, Below, Asked, NoThreshold
  <2>4. results' = results /\ cpc' # "benchmark"
    BY <1>4, <2>2, <2>3 DEF ClientStep, Abort, BaselineDone, RecvJobCreate, RecvJobInit,
       RecvJobRestart, RecvResult, RecvEnding, RecvEOF, Leave
  <2>5. ~Contains(up', Asked) /\ ~Below(Asked)'
    BY <1>0, <1>4, <2>2, <2>3, ClientMessages DEF Asked
  <2> QED
    BY <1>1, <1>2, <2>1, <2>4, <2>5 DEF FinalInv, Somewhere
<1>5. CASE Sender
  <2>1. Concluded(chan) \/ Concluded(sender)
    BY <1>1, <1>5 DEF Sender, SenderTake, SenderSend, Sent, Concluded
  <2>2. UNCHANGED <<cpc, up, sys, results, hpc, stop, cycles, finalEval, skip>>
    BY <1>5, SenderLeaves DEF clientVars, sysVars, historyVars, loopVars, optVars
  <2>3. Below(Asked)' => Below(Asked)
    BY <1>0, <1>5, SenderMessages
  <2> QED
    BY <1>2, <2>1, <2>2, <2>3 DEF FinalInv, Somewhere
<1>6. CASE Engine \/ Worker \/ Terminated \/ UNCHANGED vars
  <2>1. UNCHANGED <<cpc, up, chan, sender, sys, hpc, stop, cycles, finalEval, skip>>
        /\ (Below(Asked)' <=> Below(Asked))
    BY <1>6, EngineLeaves, WorkerLeaves, OtherMessages DEF Terminated, vars, clientVars, sysVars,
       loopVars, optVars
  <2>2. results' = results
    <3>1. ~Post
      BY <1>0, <1>1, <2>1 DEF Post, HttpPhase, FinalInv
    <3> QED
      BY <1>6, <3>1, WorkerLeaves DEF Engine, PostRefused, PutInit, Put, PutReply, Delete,
         Terminated, vars, historyVars
  <2> QED
    BY <1>1, <1>2, <2>1, <2>2 DEF FinalInv, Somewhere
<1>7. CASE Handler
  <2>1. cpc' = cpc /\ results' = results /\ chan = None
    BY <1>7, HandlerLeaves DEF HandlerFrame, clientVars, historyVars
  <2>2. CASE Conclude /\ ~filter
    <3>1. /\ hpc = "conclude" /\ hpc' = "delete" /\ stop' # 0
          /\ UNCHANGED <<sys, cycles, finalEval, skip>>
      <4>1. StopSignal(selected, Cardinality(Active), 0) # 0
        BY DEF StopSignal
      <4> QED
        BY <2>2, <4>1 DEF Conclude, CanStep, sysVars
    <3>2. FinalMade'
      <4>1. FinalMade
        BY <1>0, <3>1, ConcludeFinal
      <4> QED
        BY <2>1, <3>1, <4>1 DEF FinalMade, IsBest, Has, Active
    <3>3. cycles <= 0
      BY <1>0, <2>2, <3>1 DEF CycleInv, AtPhase, AskInv
    <3>4. AtHandler /\ cpc # "benchmark"
      BY <1>0, <3>1 DEF AtHandler, TurnInv, Exclusive, AtClient, ConnInv
    <3>5. ~Somewhere(Asked)'
      <4>1. ~Somewhere(Asked) /\ ~Apply
        BY <1>0, <3>1, <3>4, TurnAlone DEF Somewhere, Asked, TurnKinds, Apply, CanStep
      <4> QED
        BY <1>0, <1>7, <4>1, HandlerMessages DEF Somewhere, Below, Asked
    <3> QED
      BY <2>1, <3>1, <3>2, <3>3, <3>4, <3>5 DEF FinalInv
  <2>3. CASE ~(Conclude /\ ~filter)
    <3>1. ~Carries(chan', {"Result"}) /\ (Carries(sender', {"Result"}) => Carries(sender, {"Result"}))
      BY <1>0, <1>7, <2>3, HandlerMessages
    <3>2. Concluded(sender) /\ sender' # None
      BY <1>1, <3>1 DEF Concluded, Carries
    <3>3. /\ hpc \in {"delete", "deleted", "loop", "return", "returned"}
          /\ stop \in 0 .. 2 /\ cycles \in Int /\ cycles <= 0
          /\ hpc \in {"loop", "deleted"} => stop # 0
      BY <1>0, <3>2 DEF FinalInv, TurnInv, AtStop, TypeInv, ServerTypeOK
    <3>4. (Select /\ stop # 0) \/ DeleteTask \/ Deleted \/ Return
      BY <1>7, <3>2, <3>3 DEF Handler, HandlerReceive, Select, HandlerEOF, HandleJobInit, HandleJobCreate,
         HandleJobRestart, HandleBenchMark, HandleRestore, Backup, Create, Created, CreateFailed,
         Open, Opened, Evaluate, Answer, Apply, Conclude, Panic, Returned, CanStep
    <3>5. /\ UNCHANGED <<sys, finalEval, skip>> /\ cycles' <= 0 /\ stop' \in {stop, 0}
          /\ hpc' \in {"deleted", "loop", "return", "returned"}
          /\ hpc' = "loop" => stop' # 0
      BY <3>3, <3>4 DEF Select, DeleteTask, Deleted, Return, OnlyLoop, CanStep, sysVars, optVars
    <3>6. ~Somewhere(Asked)'
      <4>1. ~Somewhere(Asked) /\ ~Apply
        BY <3>2, <3>3 DEF FinalInv, Apply, CanStep
      <4> QED
        BY <1>0, <1>7, <4>1, HandlerMessages DEF Somewhere, Below, Asked
    <3> QED
      BY <1>2, <2>1, <3>2, <3>5, <3>6 DEF FinalInv
  <2> QED
    BY <2>2, <2>3
<1> QED
  BY <1>3, <1>4, <1>5, <1>6, <1>7 DEF Next

(* The result announced is the best measured: when the final message goes  *)
(* out, the machine has the parameters whose evaluation was the smallest   *)
(* measured for the task, and the value displayed is that evaluation, if   *)
(* no proposed assignment violates a relationship between parameters.      *)
THEOREM FinalBest ==
  ASSUME Mismatched = {}
  PROVE  Spec => []FinalIsBest
<1>1. Init => FinalInv
  BY DEF Init, FinalInv, Concluded
<1>2. TuningInv /\ FinalInv /\ [Next]_vars => FinalInv'
  BY FinalStep
<1>3. FinalInv => FinalIsBest
  BY DEF FinalInv, FinalMade, FinalIsBest
<1> QED
  BY <1>1, <1>2, <1>3, TuningAlways, PTL DEF Spec

-----------------------------------------------------------------------------
(* ImplementsLoop: the session seen as a search of TuningLoop.             *)

Phase == IF hpc = "conclude" THEN "complete"
         ELSE IF ~Searching THEN "idle"
         ELSE IF Measuring THEN "measure" ELSE "search"
Budget == IF Searching THEN TaskIters ELSE 0
LoopStep == [Loop!Next]_(Loop!loopVars)

LEMMA MeasuringOut == (Measuring <=> Out) /\ (Measuring' <=> Out')
  BY DEF Measuring, Awaits, Out, BenchOut, AtClient, Contains, Carries

(* The steps of TuningLoop in terms of the session.                        *)
LEMMA LoopSteps ==
  /\ UNCHANGED <<Phase, sys, Budget, results>> => LoopStep
  /\ ( /\ Phase = "idle" /\ Phase' = "search" /\ results' = <<>>
       /\ Budget' \in Nat /\ sys' = sys )
     => LoopStep
  /\ ( /\ Phase = "search" /\ Len(results) < Budget /\ sys' \in Config
       /\ Phase' \in {"search", "measure"} /\ UNCHANGED <<Budget, results>> )
     => LoopStep
  /\ ( /\ Phase = "measure" /\ Phase' = "search" /\ UNCHANGED <<sys, Budget>>
       /\ \E e \in Evals : results' = Append(results, [config |-> sys, eval |-> e]) )
     => LoopStep
  /\ Phase = "measure" /\ Phase' = "search" /\ UNCHANGED <<sys, Budget, results>>
     => LoopStep
  /\ ( /\ Phase = "search" /\ Phase' = "complete" /\ Len(results) = Budget /\ Budget' = 0
       /\ \E i \in DOMAIN results : IsBest(i) /\ sys' = results[i].config
       /\ results' = results )
     => LoopStep
  /\ Phase = "complete" /\ Phase' = "idle" /\ UNCHANGED <<sys, Budget, results>>
     => LoopStep
  /\ ( /\ Phase \in {"search", "measure"} /\ Phase' = "idle" /\ sys' \in Config
       /\ Budget' = 0 /\ results' = results )
     => LoopStep
  /\ Phase = "idle" /\ sys' \in Config /\ UNCHANGED <<Phase, Budget, results>>
     => LoopStep
<1>1. UNCHANGED <<Phase, sys, Budget, results>> => LoopStep
  BY DEF LoopStep, Loop!loopVars, Phase, Budget
<1>2. Loop!Begin <=> /\ Phase = "idle"
                     /\ Phase' = "search" /\ results' = <<>>
                     /\ Budget' \in Nat
                     /\ UNCHANGED sys
  BY Zenon DEF Loop!Begin, Phase, Budget
<1>3. Loop!Try <=> /\ Phase = "search" /\ Len(results) < Budget
                   /\ sys' \in Config
                   /\ Phase' \in {"search", "measure"}
                   /\ UNCHANGED <<Budget, results>>
  BY Zenon DEF Loop!Try, Phase, Budget
<1>4. Loop!Measure <=> /\ Phase = "measure"
                       /\ \E e \in Evals : results' = Append(results, [config |-> sys, eval |-> e])
                       /\ Phase' = "search"
                       /\ UNCHANGED <<sys, Budget>>
  BY Zenon DEF Loop!Measure, Phase, Budget
<1>5. Loop!Forgo <=> Phase = "measure" /\ Phase' = "search" /\ UNCHANGED <<sys, Budget, results>>
  BY Zenon DEF Loop!Forgo, Phase, Budget
<1>6. Loop!Finish <=> /\ Phase = "search" /\ Len(results) = Budget
                      /\ \E i \in DOMAIN results :
                           /\ \A j \in DOMAIN results : results[i].eval <= results[j].eval
                           /\ sys' = results[i].config
                      /\ Phase' = "complete" /\ Budget' = 0
                      /\ UNCHANGED results
  BY Zenon DEF Loop!Finish, Phase, Budget
<1>7. Loop!Close <=> Phase = "complete" /\ Phase' = "idle" /\ UNCHANGED <<sys, Budget, results>>
  BY Zenon DEF Loop!Close, Phase, Budget
<1>8. Loop!GiveUp <=> /\ Phase \in {"search", "measure"}
                      /\ sys' \in Config
                      /\ Phase' = "idle" /\ Budget' = 0
                      /\ UNCHANGED results
  BY Zenon DEF Loop!GiveUp, Phase, Budget
<1>9. Loop!Restore <=> Phase = "idle" /\ sys' \in Config /\ UNCHANGED <<Phase, Budget, results>>
  BY Zenon DEF Loop!Restore, Phase, Budget
<1>10. ( \/ Loop!Begin \/ Loop!Try \/ Loop!Measure \/ Loop!Forgo
         \/ Loop!Finish \/ Loop!Close \/ Loop!GiveUp \/ Loop!Restore ) => LoopStep
  BY DEF LoopStep, Loop!Next
<1>11. ( /\ Phase = "search" /\ Phase' = "complete" /\ Len(results) = Budget /\ Budget' = 0
         /\ \E i \in DOMAIN results : IsBest(i) /\ sys' = results[i].config
         /\ results' = results ) => Loop!Finish
  BY Zenon, <1>6 DEF IsBest
<1> QED
  BY <1>1, <1>2, <1>3, <1>4, <1>5, <1>7, <1>8, <1>9, <1>10, <1>11

(* There is a task exactly while its worker is there.                      *)
TaskEq ==
  /\ task <=> wpc # "none"
  /\ Contains(up, {"Restore"}) => wpc = "none"

LEMMA TaskEqStep ==
  ASSUME SafeInv, TaskEq, [Next]_vars
  PROVE  TaskEq'
<1>0. TypeInv /\ TurnInv /\ TaskInv /\ HttpPhase
  BY DEF SafeInv, TypeInv, Control
<1>1. CASE Start
  BY <1>0, <1>1, StartLeaves DEF TaskEq, TaskInv, workerVars, engineVars
<1>2. CASE Engine
  <2>1. up' = up
    BY <1>2, EngineLeaves DEF streamVars
  <2>2. CASE Post
    <3>1. up = <<>>
      BY <1>0, <2>2, HandlerBusy DEF Post, HttpPhase, AtHandler
    <3> QED
      BY <2>1, <2>2, <3>1, ContainsEmpty DEF Post, TaskEq
  <2>3. CASE Delete
    BY <1>0, <2>1, <2>3 DEF Delete, TaskEq
  <2>4. CASE PostRefused \/ PutInit \/ Put \/ PutReply
    <3>1. UNCHANGED <<task, wpc>>
      BY <2>4 DEF PostRefused, PutInit, Put, PutReply, workerVars
    <3> QED
      BY <2>1, <3>1 DEF TaskEq
  <2> QED
    BY <1>2, <2>2, <2>3, <2>4 DEF Engine
<1>3. CASE Worker
  <2>1. task' = task /\ up' = up /\ wpc # "none" /\ wpc' # "none"
    BY <1>3, WorkerLeaves
       DEF Worker, WorkerAsk, WorkerTell, WorkerFinish, WorkerFail, WorkerDie, engineVars, streamVars
  <2> QED
    BY <2>1 DEF TaskEq
<1>4. CASE ClientStep \/ Abort \/ Sender \/ Handler \/ Terminated \/ UNCHANGED vars
  <2>1. task' = task /\ wpc' = wpc
    BY <1>4, ClientLeaves, SenderLeaves, HandlerLeaves
       DEF ClientFrame, HandlerFrame, Terminated, vars, engineVars, workerVars
  <2>2. Contains(up', {"Restore"}) => Contains(up, {"Restore"})
    <3>1. CASE ClientStep \/ Abort
      BY <1>0, <3>1, ClientMessages
    <3>2. CASE Handler
      BY <1>0, <3>2, HandlerMessages
    <3>3. CASE Sender \/ Terminated \/ UNCHANGED vars
      BY <3>3, SenderLeaves DEF Terminated, vars, streamVars
    <3> QED
      BY <1>4, <3>1, <3>2, <3>3
  <2> QED
    BY <2>1, <2>2 DEF TaskEq
<1> QED
  BY <1>1, <1>2, <1>3, <1>4 DEF Next

(* The client asks for no benchmark.                                       *)
LEMMA ClientOut ==
  ASSUME SafeInv, ClientStep \/ Abort
  PROVE  Out' => Out
<1>0. TypeInv
  BY DEF SafeInv
<1>1. Below(Asked)' => Below(Asked)
  BY <1>0, ClientMessages
<1>2. conn' = "open" => conn = "open" /\ (cpc' = "benchmark" => cpc = "benchmark" \/ RecvBenchMark)
  BY DEF ClientStep, Abort, BaselineDone, RecvJobCreate, RecvJobInit, RecvJobRestart, BenchMark,
     RecvThreshold, RecvResult, RecvEnding, RecvEOF, Receive, Leave, streamVars, RecvBenchMark
<1>3. RecvBenchMark => Below(Asked)
  BY <1>0, ClientReads DEF Below, Asked
<1> QED
  BY <1>1, <1>2, <1>3, BenchOutBelow DEF Out, BenchOut, Below, Asked, AtClient

(* A step that leaves the search where it is, or gives a benchmark up.     *)
LEMMA LoopQuiet ==
  ASSUME UNCHANGED <<sys, results>>, hpc = "conclude" <=> hpc' = "conclude",
         Searching' <=> Searching, Searching => TaskIters' = TaskIters, Out' => Out
  PROVE  LoopStep
<1>1. Budget' = Budget
  BY DEF Budget
<1>2. Phase' = Phase \/ (Phase = "measure" /\ Phase' = "search")
  BY MeasuringOut DEF Phase
<1> QED
  BY <1>1, <1>2, LoopSteps

(* A step that ends a search, or is outside of one.                        *)
LEMMA LoopEnds ==
  ASSUME results' = results, sys' \in Config, sys' = sys \/ Searching,
         hpc # "conclude", hpc' # "conclude", ~Searching'
  PROVE  LoopStep
<1>1. Budget' = 0 /\ Phase' = "idle"
  BY DEF Budget, Phase
<1>2. CASE Searching
  <2>1. Phase \in {"search", "measure"}
    BY <1>2 DEF Phase
  <2> QED
    BY <1>1, <2>1, LoopSteps
<1>3. CASE ~Searching
  <2>1. Budget = 0 /\ Phase = "idle" /\ sys' = sys
    BY <1>3 DEF Budget, Phase
  <2> QED
    BY <1>1, <2>1, LoopSteps
<1> QED
  BY <1>2, <1>3

LEMMA LoopOthers ==
  ASSUME TuningInv, TuningInv', TaskEq,
         ClientStep \/ Abort \/ Start \/ Sender \/ Engine \/ Worker \/ Terminated \/ UNCHANGED vars
  PROVE  LoopStep
<1>0. /\ TypeInv /\ TurnInv /\ TaskInv /\ BenchInv /\ PhaseInv /\ HttpPhase /\ SafeInv /\ ConnInv
      /\ SearchInv
  BY DEF TuningInv, SafeInv, TypeInv, Control
<1>1. CASE ClientStep \/ Abort
  <2>1. UNCHANGED <<sys, hpc, task, filter, maxIter>>
    BY <1>1, ClientLeaves DEF ClientFrame, sysVars, loopVars, engineVars, optVars
  <2>2. /\ Searching' <=> Searching
        /\ TaskIters' = TaskIters /\ (Out' => Out)
    BY <1>0, <1>1, <2>1, ClientOut DEF Searching, TaskIters
  <2>3. CASE BenchMark /\ cpc' = "receive"
    <3>1. \E e \in Evals : results' = Append(results, [config |-> sys, eval |-> e])
      BY <2>3 DEF BenchMark, Leave
    <3>2. Out
      BY <1>0, <2>3 DEF ConnInv, BenchMark, Out, BenchOut, AtClient
    <3>3. Searching /\ hpc # "conclude"
      BY <1>0, <3>2 DEF BenchInv, Out, TaskEq, Searching
    <3>4. ~Out'
      <4>1. ~AtClient'
        BY <2>3 DEF AtClient
      <4>2. ~AtUp /\ ~AtDown /\ ~AtChan /\ ~AtSender
        BY <1>0, <2>3, <3>2 DEF TurnInv, Exclusive, AtClient, BenchMark, Out
      <4>3. ~Below(Asked)
        BY <4>2, ContainsMore DEF AtDown, AtChan, AtSender, Below, Carries, Asked, TurnKinds
      <4>4. ~Below(Asked)'
        BY <1>0, <1>1, <4>3, ClientMessages
      <4> QED
        BY <4>1, <4>4, BenchOutBelow DEF Out, BenchOut, Below, Asked, AtClient
    <3>5. Phase = "measure" /\ Phase' = "search" /\ Budget' = Budget
      BY <2>1, <2>2, <3>2, <3>3, <3>4, MeasuringOut DEF Phase, Budget
    <3> QED
      BY <2>1, <3>1, <3>5, LoopSteps
  <2>4. CASE ~(BenchMark /\ cpc' = "receive")
    <3>1. results' = results
      BY <1>1, <2>4 DEF ClientStep, Abort, BaselineDone, RecvJobCreate, RecvJobInit, RecvJobRestart,
         RecvBenchMark, BenchMark, RecvThreshold, RecvResult, RecvEnding, RecvEOF
    <3> QED
      BY <2>1, <2>2, <3>1, LoopQuiet
  <2> QED
    BY <2>3, <2>4
<1>2. CASE Start
  <2>1. /\ UNCHANGED <<sys, results>> /\ ~task /\ ~task' /\ hpc = "idle" /\ hpc' = "loop"
    BY <1>0, <1>2, StartLeaves DEF TaskInv, sysVars, engineVars
  <2>2. ~Searching /\ ~Searching' /\ sys' \in Config
    BY <1>0, <2>1 DEF Searching, TypeInv, SharedTypeOK
  <2> QED
    BY <2>1, <2>2, LoopEnds
<1>3. CASE Sender \/ Worker \/ Terminated \/ UNCHANGED vars
  <2>1. UNCHANGED <<sys, results, hpc, task, filter, maxIter, cpc, conn>>
    BY <1>3, SenderLeaves, WorkerLeaves DEF Terminated, vars, sysVars, historyVars, loopVars,
       engineVars, optVars, clientVars, streamVars
  <2>2. Below(Asked)' => Below(Asked)
    BY <1>0, <1>3, SenderMessages, OtherMessages
  <2>3. /\ Searching' <=> Searching
        /\ TaskIters' = TaskIters /\ (Out' => Out)
    BY <2>1, <2>2, BenchOutBelow DEF Searching, TaskIters, Out, BenchOut, Below, Asked, AtClient
  <2> QED
    BY <2>1, <2>3, LoopQuiet
<1>4. CASE Engine
  <2>1. UNCHANGED <<sys, hpc, filter, maxIter, cpc, conn>> /\ (Below(Asked)' <=> Below(Asked))
    BY <1>4, EngineLeaves, OtherMessages DEF sysVars, loopVars, clientVars, streamVars
  <2>2. Out' => Out
    BY <2>1, BenchOutBelow DEF Out, BenchOut, Below, Asked, AtClient
  <2>3. CASE Post
    <3>1. /\ hpc = "created" /\ http # "ok" /\ task' /\ results' = <<>>
      BY <1>0, <2>3 DEF Post, HttpPhase
    <3>2. ~Searching /\ Searching' /\ ~Out /\ ~Out'
      BY <1>0, <2>1, <2>2, <3>1, HandlerBusy
         DEF Beginning, PhaseInv, TaskEq, Searching, AtHandler
    <3>3. Budget' \in Nat
      BY <1>0, <2>1, <3>2, ConstAssumption DEF Budget, TaskIters, TypeInv, ServerTypeOK
    <3>4. Phase = "idle" /\ Phase' = "search"
      BY <2>1, <3>1, <3>2, MeasuringOut DEF Phase
    <3> QED
      BY <2>1, <3>1, <3>3, <3>4, LoopSteps
  <2>4. CASE PostRefused \/ PutInit \/ Put \/ PutReply
    <3>1. UNCHANGED <<task, results>>
      BY <2>4 DEF PostRefused, PutInit, Put, PutReply, historyVars
    <3>2. /\ Searching' <=> Searching
          /\ TaskIters' = TaskIters
      BY <2>1, <3>1 DEF Searching, TaskIters
    <3> QED
      BY <2>1, <2>2, <3>1, <3>2, LoopQuiet
  <2>5. CASE Delete
    <3>1. hpc \in {"deleted", "returned"} /\ results' = results
      BY <1>0, <2>5 DEF Delete, HttpPhase, historyVars
    <3>2. ~Searching /\ ~Searching'
      BY <2>1, <3>1 DEF Searching
    <3> QED
      BY <2>1, <2>2, <3>1, <3>2, LoopQuiet
  <2> QED
    BY <1>4, <2>3, <2>4, <2>5 DEF Engine
<1> QED
  BY <1>1, <1>2, <1>3, <1>4

(* Apply tries the configuration asked for, or puts the best in force.     *)
LEMMA LoopApply ==
  ASSUME TuningInv, TuningInv', TaskEq, Apply
  PROVE  LoopStep
<1>0. /\ TypeInv /\ TurnInv /\ TaskInv /\ AskInv /\ SafeInv /\ SearchInv /\ Handler
      /\ hpc = "apply" /\ answer \in AnswerMessage /\ skip \subseteq Knobs
      /\ results \in Seq(Result) /\ sys \in Config /\ sys' \in Config /\ left \in Nat
      /\ Measured \in Nat /\ TaskIters \in Int
  BY ConstAssumption DEF TuningInv, SafeInv, TypeInv, SharedTypeOK, ServerTypeOK, ServiceTypeOK,
     Control, AnswerKnown, Apply, CanStep, Handler, Result, Measured, TaskIters
<1>1. UNCHANGED <<results, task, filter, maxIter, skip, best>>
  BY DEF Apply, HandlerFrame, historyVars, engineVars, workerVars
<1>2. /\ AnswerUsed /\ Told /\ Stage
      /\ IF answer.kind = "param" THEN wpc = "objective" ELSE wpc = "done"
  BY <1>0 DEF AnswerUsed, Told, Stage, AskInv
<1>3. Searching /\ ~Out
  BY <1>0, <1>2, HandlerBusy DEF TaskEq, Searching, AtHandler
<1>4. Phase = "search" /\ Budget = TaskIters
  BY <1>0, <1>3, MeasuringOut DEF Phase, Budget
<1>5. CASE hpc' = "return"
  <2>1. ~Searching'
    BY <1>5 DEF Searching
  <2> QED
    BY <1>0, <1>1, <1>3, <1>5, <2>1, LoopEnds
<1>6. CASE hpc' = "loop"
  <2>1. answer.kind = "param"
    BY <1>0, <1>6 DEF Apply, OnlyLoop, AnswerMessage
  <2>2. Measured + left = TaskIters /\ left > 0
    BY <1>0, <1>2, <2>1 DEF SearchInv, CallsInv, TypeInv, Control, WorkerTyped
  <2>3. Searching' /\ TaskIters' = TaskIters
    BY <1>1, <1>3, <1>6 DEF Searching, TaskIters
  <2>4. Phase' \in {"search", "measure"} /\ Budget' = Budget
    BY <1>4, <1>6, <2>3 DEF Phase, Budget
  <2>5. Len(results) < Budget
    BY <1>0, <1>4, <2>2 DEF Measured
  <2> QED
    BY <1>0, <1>1, <1>4, <2>4, <2>5, LoopSteps
<1>7. CASE hpc' = "conclude"
  <2>1. answer.kind = "final" /\ sys' = SetOn(answer.param, Active)
    BY <1>0, <1>7 DEF Apply, OnlyLoop
  <2>2. /\ Measured = TaskIters /\ best # None /\ answer.param = best.param
        /\ best.param \in [Active -> Values] /\ Founded(results, best, Measured)
        /\ OffSame(results, sys, skip)
    <3>1. Measured = TaskIters
      BY <1>0, <1>2, <2>1 DEF SearchInv, CallsInv
    <3>2. /\ best # None /\ answer.param = best.param /\ best.param \in [Active -> Values]
          /\ Founded(results, best, Measured)
      BY <1>0, <1>2, <2>1 DEF SearchInv, BestInv
    <3>3. OffSame(results, sys, skip)
      BY <1>0, <1>2 DEF SearchInv, SkippedInv
    <3> QED
      BY <3>1, <3>2, <3>3
  <2>3. Measured > 0 /\ DOMAIN results = 1 .. Measured
    BY <1>0, <2>2 DEF Founded, Measured
  <2>4. PICK i \in 1 .. Measured : results[i].eval = best.eval /\ Has(results[i].config, best.param)
    BY <2>2, <2>3 DEF Founded
  <2>5. IsBest(i)
    BY <2>2, <2>3, <2>4 DEF Founded, IsBest
  <2>6. results[i].config \in Config
    BY <1>0, <2>4, ResultEval DEF Measured
  <2>7. ASSUME NEW k \in Knobs PROVE sys'[k] = results[i].config[k]
    <3>1. CASE k \in Active
      <4>1. k \in DOMAIN best.param
        BY <2>2, <3>1
      <4>2. sys'[k] = best.param[k]
        BY <2>1, <2>2, <3>1, <4>1 DEF SetOn
      <4> QED
        BY <2>4, <4>1, <4>2 DEF Has
    <3>2. CASE k \notin Active
      <4>1. k \in skip /\ sys'[k] = sys[k]
        BY <2>1, <3>2 DEF SetOn, Active
      <4> QED
        BY <2>2, <2>3, <2>4, <4>1 DEF OffSame
    <3> QED
      BY <3>1, <3>2
  <2>8. sys' = results[i].config
    BY <1>0, <2>6, <2>7 DEF Config
  <2>9. Phase' = "complete" /\ Budget' = 0 /\ Len(results) = Budget
    BY <1>4, <1>7, <2>2 DEF Phase, Budget, Searching, Measured
  <2> QED
    BY <1>1, <1>4, <2>3, <2>4, <2>5, <2>8, <2>9, LoopSteps
<1> QED
  BY <1>5, <1>6, <1>7 DEF Apply, OnlyLoop

LEMMA LoopHandler ==
  ASSUME TuningInv, TuningInv', TaskEq, Handler
  PROVE  LoopStep
<1>0. /\ TypeInv /\ TurnInv /\ TaskInv /\ PhaseInv /\ HttpPhase /\ SafeInv
      /\ sys' \in Config /\ restoreFile \in Config \cup {None}
  BY DEF TuningInv, SafeInv, TypeInv, SharedTypeOK, Control
<1>1. UNCHANGED <<task, results>>
  BY HandlerLeaves DEF HandlerFrame, historyVars
<1>2. CASE Apply
  BY <1>2, LoopApply
<1>3. CASE Conclude \/ Panic
  <2>1. hpc = "conclude" /\ hpc' \in {"delete", "panic"} /\ sys' = sys
    BY <1>3 DEF Conclude, Panic, CanStep, OnlyLoop, sysVars
  <2>2. ~Searching /\ ~Searching'
    BY <2>1 DEF Searching
  <2>3. Phase = "complete" /\ Phase' = "idle" /\ Budget' = Budget
    BY <2>1, <2>2 DEF Phase, Budget
  <2> QED
    BY <1>1, <2>1, <2>3, LoopSteps
<1>4. CASE HandleRestore
  <2>1. Contains(up, {"Restore"}) /\ hpc = "receive" /\ hpc' = "return"
    BY <1>0, <1>4, HandlerReads DEF HandleRestore
  <2>2. ~Searching /\ ~Searching'
    BY <2>1 DEF TaskEq, Searching
  <2>3. Phase = "idle" /\ Phase' = "idle" /\ Budget' = Budget
    BY <2>1, <2>2 DEF Phase, Budget
  <2> QED
    BY <1>0, <1>1, <2>3, LoopSteps
<1>5. CASE \/ HandlerEOF \/ Return \/ Returned \/ DeleteTask \/ Backup
           \/ Answer /\ hpc' = "return"
  <2>1. sys' = sys /\ hpc # "conclude" /\ hpc' # "conclude"
    BY <1>5 DEF HandlerEOF, Return, Returned, DeleteTask, Backup, Answer, CanStep, OnlyLoop, sysVars
  <2>2. ~Searching'
    BY <1>5 DEF HandlerEOF, Return, Returned, DeleteTask, Backup, Answer, OnlyLoop, Searching
  <2> QED
    BY <1>0, <1>1, <2>1, <2>2, LoopEnds
<1>6. CASE \/ Select /\ stop # 0
           \/ HandleJobInit \/ HandleJobCreate \/ HandleJobRestart
  <2>1. ~task
    BY <1>0, <1>6, PhaseBegins DEF TaskEq
  <2>2. /\ sys' = sys /\ hpc # "conclude" /\ hpc' # "conclude"
    BY <1>6 DEF Select, HandleJobInit, HandleJobCreate, HandleJobRestart, HandlerReceive, CanStep,
       InitTuned, InitFeatureSel, sysVars
  <2>3. ~Searching'
    BY <1>1, <2>1 DEF Searching
  <2> QED
    BY <1>0, <1>1, <2>2, <2>3, LoopEnds
<1>7. CASE Create \/ CreateFailed \/ Deleted
  <2>1. Beginning
    BY <1>0, <1>7 DEF Create, CreateFailed, Deleted, CanStep, Beginning
  <2>2. ~task
    BY <1>0, <2>1 DEF PhaseInv, TaskEq
  <2>3. sys' = sys /\ hpc # "conclude" /\ hpc' # "conclude"
    BY <1>7 DEF Create, CreateFailed, Deleted, CanStep, OnlyLoop, sysVars
  <2>4. ~Searching'
    BY <1>1, <2>2 DEF Searching
  <2> QED
    BY <1>0, <1>1, <2>3, <2>4, LoopEnds
<1>8. CASE \/ Select /\ stop = 0
           \/ HandleBenchMark \/ Created \/ Open \/ Opened \/ Evaluate
           \/ Answer /\ hpc' # "return"
  <2>1. UNCHANGED <<sys, filter, maxIter>>
    BY <1>8 DEF Select, HandleBenchMark, Created, Open, Opened, Evaluate, Answer, sysVars, optVars
  <2>2. /\ hpc \in {"loop", "receive", "created", "open", "opened", "evaluate", "answer"}
        /\ hpc' \in {"receive", "open", "opened", "evaluate", "answer", "loop", "apply"}
    BY <1>8 DEF Select, HandleBenchMark, HandlerReceive, Created, Open, Opened, Evaluate, Answer,
       CanStep, OnlyLoop
  <2>3. /\ Searching' <=> Searching
        /\ TaskIters' = TaskIters
        /\ hpc # "conclude" /\ hpc' # "conclude"
    BY <1>1, <2>1, <2>2 DEF Searching, TaskIters
  <2>4. Out' => Out
    BY <1>0, <2>2, HandlerOut DEF Apply, CanStep
  <2> QED
    BY <1>1, <2>1, <2>3, <2>4, LoopQuiet
<1> QED
  BY <1>2, <1>3, <1>4, <1>5, <1>6, <1>7, <1>8 DEF Handler

(* Tuning keeps what TuningLoop promises, whatever the interleaving of its *)
(* processes and the failures: each evaluation is of the configuration     *)
(* then in force, a search makes no more of them than it announced, and    *)
(* one that completes leaves in force one of the configurations that       *)
(* measured best, if no proposed assignment violates a relationship.       *)
THEOREM LoopImplemented ==
  ASSUME Mismatched = {}
  PROVE  Spec => ImplementsLoop
<1>1. Init => Loop!Init
  <2> SUFFICES ASSUME Init PROVE Loop!Init
    OBVIOUS
  <2>1. hpc = "idle" /\ sys \in Config /\ results = <<>> /\ ~Searching
    BY DEF Init, Searching
  <2> QED
    BY <2>1 DEF Loop!Init
<1>2. Init => TaskEq
  <2> SUFFICES ASSUME Init PROVE TaskEq
    OBVIOUS
  <2>1. task = FALSE /\ wpc = "none"
    BY DEF Init
  <2> QED
    BY <2>1 DEF TaskEq
<1>3. TuningInv /\ TaskEq /\ [Next]_vars => TaskEq'
  BY TaskEqStep DEF TuningInv
<1>4. TuningInv /\ TuningInv' /\ TaskEq /\ [Next]_vars => [Loop!Next]_(Loop!loopVars)
  BY LoopOthers, LoopHandler DEF Next, LoopStep
<1> QED
  BY <1>1, <1>2, <1>3, <1>4, TuningAlways, PTL DEF Spec, ImplementsLoop, Loop!Spec

-----------------------------------------------------------------------------
(* FinishedDataComplete.                                                   *)

(* The rows of the open tuning-data file, before and after the evaluation  *)
(* of the iteration is recorded.                                           *)
Unsaved == Out \/ Back \/ Posted \/ (hpc = "opened" /\ http = "ok")
Saved   == (hpc = "answer" /\ http \in {"recv", "ok"}) \/ hpc = "apply"

RowsInv ==
  /\ ~filter
  /\ Unsaved => data = "running" /\ rows = IF iter = 0 THEN 0 ELSE iter - 1
  /\ Saved => rows = iter /\ data = IF iter = maxIter THEN "finished" ELSE "running"

LEMMA RowsKept ==
  ASSUME RowsInv, ~filter', Unsaved' => Unsaved, Saved' => Saved,
         UNCHANGED <<iter, maxIter, data, rows>>
  PROVE  RowsInv'
  BY DEF RowsInv

LEMMA RowsNone ==
  ASSUME ~filter', ~Unsaved', ~Saved'
  PROVE  RowsInv'
  BY DEF RowsInv

(* Without cycles no phase selects features.                               *)
LEMMA NeverFilter ==
  ASSUME Cycles = 0, SafeInv, FreshInv, ~filter, [Next]_vars
  PROVE  ~filter'
<1>0. TypeInv /\ TurnInv /\ cycles \in Int
  BY DEF SafeInv, TypeInv, ServerTypeOK
<1>1. CASE HandleJobCreate \/ HandleJobRestart
  <2>1. HandleJobCreate => cycles = 0
    BY <1>0, HandlerReads DEF HandleJobCreate, FreshInv, Somewhere
  <2>2. cycles <= 0
    BY DEF FreshInv
  <2>3. \E sel : InitTuned(sel)
    BY <1>0, <1>1, <2>1, <2>2 DEF HandleJobCreate, HandleJobRestart
  <2> QED
    BY <2>3 DEF InitTuned
<1>2. CASE Start
  BY <1>2 DEF Start, StartTuning, StartRestore, StartSession
<1>3. CASE Handler /\ ~HandleJobCreate /\ ~HandleJobRestart
  BY <1>3 DEF Handler, Select, HandlerEOF, HandleJobInit, HandleBenchMark, HandleRestore, Backup,
     Create, Created, CreateFailed, Open, Opened, Evaluate, Answer, Apply, Conclude, Panic,
     DeleteTask, Deleted, Return, Returned, optVars
<1>4. CASE ~Handler /\ ~Start
  <2>1. filter' = filter
    BY <1>4, ClientLeaves, SenderLeaves, EngineLeaves, WorkerLeaves
       DEF Next, ClientFrame, Terminated, vars, optVars
  <2> QED
    BY <2>1
<1> QED
  BY <1>1, <1>2, <1>3, <1>4

LEMMA RowsOthers ==
  ASSUME SafeInv, ConnInv, NoThreshold, RowsInv, ~filter',
         ClientStep \/ Abort \/ Start \/ Sender \/ Worker \/ Terminated \/ UNCHANGED vars
  PROVE  RowsInv'
<1>0. TypeInv /\ TurnInv /\ BenchInv
  BY DEF SafeInv
<1>1. CASE ClientStep \/ Abort
  <2>1. UNCHANGED <<hpc, http, iter, maxIter, data, rows>>
    BY <1>1, ClientLeaves DEF ClientFrame, loopVars, optVars, engineVars
  <2>2. Out' => Out
    BY <1>1, ClientOut
  <2>3. Waiting' => Waiting \/ Out
    <3>1. ~RecvThreshold
      BY <1>0, ClientReads DEF NoThreshold, Below
    <3>2. BenchMark /\ conn = "open" => Out
      BY DEF BenchMark, Out, BenchOut, AtClient
    <3>3. Contains(up', Asked) => Contains(up, Asked) \/ (BenchMark /\ conn = "open")
      BY <1>0, <1>1, <3>1, ClientMessages DEF Asked
    <3> QED
      BY <2>1, <3>2, <3>3 DEF Waiting
  <2> QED
    BY <2>1, <2>2, <2>3, RowsKept DEF Unsaved, Saved, Back, Posted
<1>2. CASE Start
  <2>1. hpc' = "loop" /\ ~Below(Asked)' /\ cpc' = "receive" /\ ~Contains(up', Asked)
    BY <1>0, <1>2, StartLeaves, StartMessages DEF Asked
  <2> QED
    BY <2>1, RowsNone, BenchOutBelow
       DEF Unsaved, Saved, Back, Posted, Waiting, Out, BenchOut, Below, Asked, AtClient
<1>3. CASE Sender \/ Worker \/ Terminated \/ UNCHANGED vars
  <2>1. UNCHANGED <<hpc, http, iter, maxIter, data, rows, cpc, conn, up>>
    BY <1>3, SenderLeaves, WorkerLeaves DEF Terminated, vars, loopVars, optVars, engineVars,
       clientVars, streamVars
  <2>2. Below(Asked)' => Below(Asked)
    BY <1>0, <1>3, SenderMessages, OtherMessages
  <2>3. Out' => Out
    BY <2>1, <2>2, BenchOutBelow DEF Out, BenchOut, Below, Asked, AtClient
  <2> QED
    BY <2>1, <2>3, RowsKept DEF Unsaved, Saved, Back, Posted, Waiting
<1> QED
  BY <1>1, <1>2, <1>3

LEMMA RowsEngine ==
  ASSUME SafeInv, RowsInv, ~filter', Engine
  PROVE  /\ RowsInv'
         /\ data' = "finished" /\ data # "finished" => rows' = TaskIters
<1>0. /\ TypeInv /\ TurnInv /\ BenchInv /\ PhaseInv /\ HttpPhase /\ iter \in Nat /\ maxIter \in Nat
  BY DEF SafeInv, TypeInv, ServerTypeOK, Control
<1>1. UNCHANGED <<hpc, iter, maxIter, cpc, conn, up>> /\ (Below(Asked)' <=> Below(Asked))
  BY EngineLeaves, OtherMessages DEF loopVars, clientVars, streamVars
<1>2. (Out' <=> Out) /\ (Waiting' <=> Waiting)
  BY <1>1, BenchOutBelow DEF Out, BenchOut, Below, Asked, AtClient, Waiting
<1>3. CASE Put
  <2>1. /\ hpc = "answer" /\ http = "put" /\ http' = "recv"
        /\ rows' = (IF data = "running" THEN rows ELSE 0) + (IF iter # 0 THEN 1 ELSE 0)
        /\ data' = IF iter = maxIter THEN "finished" ELSE "running"
    BY <1>0, <1>3 DEF Put, SaveTuningData, DataDirectory, HttpPhase
  <2>2. data = "running" /\ rows = IF iter = 0 THEN 0 ELSE iter - 1
    BY <2>1 DEF RowsInv, Unsaved, Posted
  <2>3. rows' = iter
    BY <1>0, <2>1, <2>2
  <2>4. ~Unsaved'
    BY <1>0, <1>1, <1>2, <2>1, HandlerBusy DEF AtHandler, Unsaved, Back, Posted
  <2> QED
    BY <1>1, <2>1, <2>3, <2>4 DEF RowsInv, TaskIters
<1>4. CASE PutInit
  <2>1. hpc = "opened" /\ data' = "running" /\ rows' = 0 /\ iter = 0
    BY <1>0, <1>4 DEF PutInit, HttpPhase, PhaseInv
  <2> QED
    BY <1>1, <2>1 DEF RowsInv, Saved
<1>5. CASE Post \/ PostRefused \/ PutReply \/ Delete
  <2>1. /\ UNCHANGED <<data, rows>> /\ hpc \in {"created", "answer", "deleted", "returned"}
        /\ http' # "put" /\ (hpc = "answer" => http = "recv")
    BY <1>0, <1>5 DEF Post, PostRefused, PutReply, Delete, HttpPhase
  <2>2. (Unsaved' => Unsaved) /\ (Saved' => Saved)
    BY <1>1, <1>2, <2>1 DEF Unsaved, Saved, Back, Posted
  <2> QED
    BY <1>1, <2>1, <2>2, RowsKept
<1> QED
  BY <1>3, <1>4, <1>5 DEF Engine

LEMMA RowsHandler ==
  ASSUME SafeInv, NoThreshold, RowsInv, ~filter', Handler, Mismatched = {}
  PROVE  RowsInv' /\ data' = data
<1>0. /\ TypeInv /\ TurnInv /\ BenchInv /\ PhaseInv /\ AskInv /\ CountInv /\ HttpPhase
      /\ iter \in Nat /\ maxIter \in Nat /\ left \in Nat
  BY DEF SafeInv, TypeInv, ServerTypeOK, ServiceTypeOK, Control
<1>1. UNCHANGED <<data, rows, wpc, left>>
  BY HandlerLeaves DEF HandlerFrame, workerVars
<1>2. CASE Outside
  <2>1. ~Stage' /\ (hpc' = "answer" => ~(http' \in {"recv", "ok"})) /\ hpc' # "opened"
    <3>1. ~Stage'
      BY <1>2, HandlerOutside
    <3> QED
      BY <3>1 DEF Stage, Opening, Told, Untold, Telling, AnswerUsed
  <2> QED
    BY <1>1, <2>1, RowsNone DEF Stage, Untold, Told, AnswerUsed, Unsaved, Saved
<1>3. CASE \/ Select /\ stop = 0
           \/ HandleBenchMark \/ Created \/ Open \/ Evaluate
           \/ Answer /\ hpc' # "return"
  <2>1. UNCHANGED <<iter, maxIter>> /\ ~Apply
    BY <1>3 DEF Select, HandleBenchMark, HandlerReceive, Created, Open, Evaluate, Answer, Apply,
       CanStep, optVars
  <2>2. Out' => Out
    BY <1>0, <2>1, HandlerOut
  <2>3. CASE HandleBenchMark
    <3>1. Waiting /\ hpc' = "evaluate"
      BY <1>0, <2>3, HandlerReads DEF HandleBenchMark, Waiting, Asked
    <3> QED
      BY <1>1, <2>1, <2>2, <3>1, RowsKept DEF Unsaved, Saved, Back, Posted
  <2>4. CASE Evaluate
    <3>1. hpc = "evaluate" /\ hpc' = "answer" /\ http' = "put"
      BY <2>4 DEF Evaluate, CanStep, OnlyLoop, Request
    <3> QED
      BY <1>1, <2>1, <2>2, <3>1, RowsKept DEF Unsaved, Saved, Back, Posted, Waiting
  <2>5. CASE Select /\ stop = 0
    <3>1. hpc = "loop" /\ hpc' = "receive" /\ up' = up
      BY <2>5 DEF Select, CanStep
    <3> QED
      BY <1>1, <2>1, <2>2, <3>1, RowsKept DEF Unsaved, Saved, Back, Posted, Waiting
  <2>6. CASE Created \/ Open
    <3>1. hpc' \in {"open", "opened"} /\ (hpc' = "opened" => http' = "putinit")
      BY <2>6 DEF Created, Open, OnlyLoop, Request
    <3> QED
      BY <1>1, <2>1, <2>2, <3>1, RowsKept DEF Unsaved, Saved, Back, Posted, Waiting
  <2>7. CASE Answer /\ hpc' # "return"
    <3>1. hpc = "answer" /\ http = "ok" /\ hpc' = "apply"
      BY <2>7 DEF Answer, CanStep, OnlyLoop
    <3> QED
      BY <1>1, <2>1, <2>2, <3>1, RowsKept DEF Unsaved, Saved, Back, Posted, Waiting
  <2> QED
    BY <1>3, <2>3, <2>4, <2>5, <2>6, <2>7
<1>4. CASE Opened
  <2>1. /\ hpc = "opened" /\ http = "ok" /\ hpc' = "evaluate" /\ UNCHANGED <<iter, maxIter>>
    BY <1>4 DEF Opened, CanStep, OnlyLoop
  <2>2. Unsaved /\ ~Saved'
    BY <2>1 DEF Unsaved, Saved
  <2> QED
    BY <1>1, <2>1, <2>2, RowsKept
<1>5. CASE Apply /\ hpc' # "return"
  <2>1. hpc = "apply" /\ Saved /\ maxIter' = maxIter /\ hpc' \in {"loop", "conclude"}
        /\ (hpc' = "loop" => iter' = iter + 1) /\ answer \in AnswerMessage
        /\ (hpc' = "loop" => answer.kind # "final")
    BY <1>0, <1>5 DEF Apply, CanStep, OnlyLoop, Saved, TypeInv, SharedTypeOK, Control, AnswerKnown
  <2>2. ~Out /\ ~Waiting'
    BY <1>0, <2>1, HandlerBusy, HandlerOut, ContainsEmpty DEF AtHandler
  <2>3. ~Saved' /\ (Unsaved' => Out')
    BY <2>1, <2>2 DEF Saved, Unsaved, Back, Posted
  <2>4. CASE hpc' = "conclude"
    <3>1. iter' = iter
      BY <1>5, <2>4 DEF Apply, OnlyLoop
    <3>2. ~Out'
      BY <1>0, <2>2, <3>1, HandlerOut
    <3> QED
      BY <1>1, <2>3, <3>2, RowsNone
  <2>5. CASE hpc' = "loop"
    <3>1. wpc = "objective" /\ left > 0 /\ iter + left <= maxIter
      BY <1>0, <2>1, <2>5 DEF AnswerMessage, AskInv, AnswerUsed, CountInv, TypeInv, Control,
         WorkerTyped, TaskIters, RowsInv
    <3>2. rows = iter /\ data = "running"
      BY <1>0, <2>1, <3>1 DEF RowsInv
    <3> QED
      BY <1>0, <1>1, <2>1, <2>3, <2>5, <3>2 DEF RowsInv
  <2> QED
    BY <2>1, <2>4, <2>5
<1> QED
  BY <1>1, <1>2, <1>3, <1>4, <1>5 DEF Handler, Outside

(* A tuning-data file moves to finished/ with one row per iteration asked, *)
(* when the session selects no features and no proposed assignment         *)
(* violates a relationship between parameters.                             *)
THEOREM DataComplete ==
  ASSUME Mismatched = {}, Cycles = 0
  PROVE  Spec => FinishedDataComplete
<1>1. Init => RowsInv
  <2> SUFFICES ASSUME Init PROVE RowsInv
    OBVIOUS
  <2>1. filter = FALSE /\ hpc = "idle" /\ conn = "none"
    BY DEF Init
  <2> QED
    BY <2>1 DEF RowsInv, Unsaved, Saved, Out, Back, Waiting, Posted
<1>2. ASSUME TuningInv, RowsInv, [Next]_vars
      PROVE  RowsInv' /\ (data' = "finished" /\ data # "finished" => rows' = TaskIters)
  <2>1. SafeInv /\ FreshInv /\ ConnInv /\ NoThreshold /\ ~filter
    BY <1>2 DEF TuningInv, SearchInv, RowsInv
  <2>2. ~filter'
    BY <1>2, <2>1, NeverFilter
  <2>3. CASE ClientStep \/ Abort \/ Start \/ Sender \/ Worker \/ Terminated \/ UNCHANGED vars
    <3>1. data' = data
      BY <2>3, ClientLeaves, SenderLeaves, StartLeaves, WorkerLeaves
         DEF ClientFrame, Terminated, vars, engineVars
    <3> QED
      BY <1>2, <2>1, <2>2, <2>3, <3>1, RowsOthers
  <2>4. CASE Engine
    BY <1>2, <2>1, <2>2, <2>4, RowsEngine
  <2>5. CASE Handler
    BY <1>2, <2>1, <2>2, <2>5, RowsHandler
  <2> QED
    BY <1>2, <2>3, <2>4, <2>5 DEF Next
<1>3. TuningInv /\ RowsInv /\ [Next]_vars
        => [data' = "finished" /\ data # "finished" => rows' = TaskIters]_vars
  BY <1>2
<1>4. TuningInv /\ RowsInv /\ [Next]_vars => RowsInv'
  BY <1>2
<1> QED
  BY <1>1, <1>3, <1>4, TuningAlways, PTL DEF Spec, FinishedDataComplete
=============================================================================
