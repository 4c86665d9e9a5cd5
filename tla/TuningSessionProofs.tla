------------------------ MODULE TuningSessionProofs ------------------------
(***************************************************************************)
(* Theorems about TuningSession, for all values of its constants: its      *)
(* types and control first, then the safety invariants, each from these    *)
(* and from an invariant of its own that is inductive relative to them.    *)
(***************************************************************************)
EXTENDS TuningSession, TLAPS, FiniteSetTheorems

(* Where a REST request can be: the handler makes one at a time and the    *)
(* engine answers each.                                                    *)
HttpPhase ==
  http \in CASE hpc = "created"  -> {"post", "ok", "fail"}
             [] hpc = "opened"   -> {"putinit", "ok"}
             [] hpc = "answer"   -> {"put", "recv", "ok", "fail"}
             [] hpc = "deleted"  -> {"delete", "ok"}
             [] hpc = "returned" -> {"none", "delete", "ok"}
             [] OTHER            -> {"none"}

(* A successful answer is there when the handler uses it.                  *)
AnswerKnown ==
  (hpc = "answer" /\ http = "ok") \/ hpc = "apply" => answer # None

(* A worker in its objective has asked for something and has a call left.  *)
WorkerTyped == wpc = "objective" => asked # None /\ left > 0

Control == HttpPhase /\ AnswerKnown /\ WorkerTyped

SharedTypeOK ==
  /\ sys \in Config /\ restoreFile \in Config \cup {None}
  /\ up \in Seq(UpMessage) /\ down \in Seq(DownMessage)
  /\ conn \in {"none", "open", "closed", "ended"}
  /\ answer \in AnswerMessage \cup {None}
  /\ start \in Config
  /\ results \in Seq([config : Config, eval : Evals])
  /\ sessions \in 0..MaxSessions

TypeInv == SharedTypeOK /\ ClientTypeOK /\ ServerTypeOK /\ ServiceTypeOK /\ Control

-----------------------------------------------------------------------------
(* Sequences, assignments and messages.                                    *)

LEMMA HeadTailType ==
  ASSUME NEW S, NEW s \in Seq(S), s # <<>>
  PROVE  Head(s) \in S /\ Tail(s) \in Seq(S)
  OBVIOUS

LEMMA EmptyType == \A S : <<>> \in Seq(S)
  OBVIOUS

LEMMA AppendType ==
  ASSUME NEW S, NEW s \in Seq(S), NEW x \in S
  PROVE  Append(s, x) \in Seq(S)
  OBVIOUS

(* Setting parameters yields a configuration.                              *)
LEMMA SetOnType ==
  ASSUME NEW p \in Assignment, NEW S, sys \in Config
  PROVE  SetOn(p, S) \in Config
<1>1. PICK T \in SUBSET Knobs : p \in [T -> Values]
  BY DEF Assignment
<1> QED
  BY <1>1 DEF SetOn, Config

LEMMA ConfigAssignment == Config \subseteq Assignment
  BY DEF Config, Assignment

LEMMA SendType ==
  ASSUME up \in Seq(UpMessage), NEW m \in UpMessage, Send(m)
  PROVE  up' \in Seq(UpMessage)
  BY AppendType DEF Send

LEMMA DeliverType ==
  ASSUME down \in Seq(DownMessage), NEW m \in DownMessage, Deliver(m)
  PROVE  down' \in Seq(DownMessage)
  BY AppendType DEF Deliver

LEMMA MsgType ==
  /\ \A k \in DownKinds : Msg(k) \in DownMessage
  /\ \A k \in DownKinds : \A v \in Int \cup {None} : MsgVal(k, v) \in DownMessage
  /\ \A k \in UpKinds \ {"JobCreate", "BenchMark"} : Msg(k) \in UpMessage
  /\ \A k \in {"JobCreate", "BenchMark"} : \A v \in Int : MsgVal(k, v) \in UpMessage
  BY DEF DownMessage, UpMessage, Msg, MsgVal

-----------------------------------------------------------------------------
(* What an action does not touch keeps its type.                           *)

LEMMA ClientKept == ClientTypeOK /\ UNCHANGED clientVars => ClientTypeOK'
  BY DEF ClientTypeOK, clientVars

LEMMA ServerKept ==
  ServerTypeOK /\ UNCHANGED <<chanVars, loopVars, optVars>> => ServerTypeOK'
  BY DEF ServerTypeOK, chanVars, loopVars, optVars

LEMMA ServiceKept ==
  ServiceTypeOK /\ UNCHANGED <<workerVars, engineVars>> => ServiceTypeOK'
  BY DEF ServiceTypeOK, workerVars, engineVars

LEMMA ControlKept ==
  Control /\ UNCHANGED <<workerVars, engineVars, loopVars, optVars>> => Control'
  BY DEF Control, HttpPhase, AnswerKnown, WorkerTyped, workerVars, engineVars,
         loopVars, optVars

-----------------------------------------------------------------------------
LEMMA InitType == Init => TypeInv
<1> SUFFICES ASSUME Init PROVE TypeInv
  OBVIOUS
<1>1. SharedTypeOK
  BY ConstAssumption DEF Init, SharedTypeOK
<1>2. ClientTypeOK
  BY DEF Init, ClientTypeOK, ClientStates, BaselineStates
<1>3. ServerTypeOK
  <2>1. filter \in BOOLEAN /\ backedUp \in BOOLEAN /\ taskURL \in BOOLEAN
    BY Zenon DEF Init
  <2> QED
    BY <2>1, ConstAssumption DEF Init, ServerTypeOK, HandlerStates
<1>4. ServiceTypeOK
  <2>1. task \in BOOLEAN
    BY Zenon DEF Init
  <2> QED
    BY <2>1, EmptyType DEF Init, ServiceTypeOK, HttpStates
<1>5. Control
  BY DEF Init, Control, HttpPhase, AnswerKnown, WorkerTyped
<1> QED
  BY <1>1, <1>2, <1>3, <1>4, <1>5 DEF TypeInv

LEMMA ClientType ==
  ASSUME TypeInv, ClientStep \/ Abort
  PROVE  TypeInv'
<1> USE DEF TypeInv
<1>1. ClientFrame
  BY DEF ClientStep, Abort, BaselineDone, RecvJobCreate, RecvJobInit, RecvJobRestart,
         RecvBenchMark, BenchMark, RecvThreshold, RecvResult, RecvEnding, RecvEOF
<1>2. ServerTypeOK' /\ ServiceTypeOK' /\ Control'
  BY <1>1, ServerKept, ServiceKept, ControlKept DEF ClientFrame
<1>3. down # <<>> => Head(down) \in DownMessage /\ Tail(down) \in Seq(DownMessage)
  BY HeadTailType DEF SharedTypeOK
<1>4. /\ up' \in Seq(UpMessage) /\ down' \in Seq(DownMessage)
      /\ conn' \in {"none", "open", "closed", "ended"}
      /\ results' \in Seq([config : Config, eval : Evals])
      /\ ClientTypeOK'
  <2> USE DEF SharedTypeOK, ClientTypeOK, ClientStates, BaselineStates
  <2>1. CASE BaselineDone
    BY <2>1, ConstAssumption DEF BaselineDone, streamVars
  <2>2. CASE RecvJobCreate
    <3>1. JobCreateAnswer \in UpMessage
      BY MsgType DEF JobCreateAnswer
    <3>2. up' \in Seq(UpMessage)
      BY <2>2, <3>1, SendType DEF RecvJobCreate
    <3> QED
      BY <2>2, <3>2, <1>3, EmptyType DEF RecvJobCreate, Leave, Consume, Receive
  <2>3. CASE RecvJobInit \/ RecvBenchMark \/ RecvResult
    BY <2>3, <1>3 DEF RecvJobInit, RecvBenchMark, RecvResult, Consume, Receive, DownMessage
  <2>4. CASE RecvJobRestart \/ RecvThreshold
    <3>1. Msg("JobRestart") \in UpMessage /\ MsgVal("BenchMark", ThresholdSum) \in UpMessage
      BY MsgType, ConstAssumption DEF UpKinds
    <3>2. up' \in Seq(UpMessage)
      BY <2>4, <3>1, SendType DEF RecvJobRestart, RecvThreshold
    <3> QED
      BY <2>4, <3>2, <1>3 DEF RecvJobRestart, RecvThreshold, Consume, Receive
  <2>5. CASE BenchMark
    <3>1. ASSUME NEW e \in Evals, Send(MsgVal("BenchMark", e)),
                 results' = Append(results, [config |-> sys, eval |-> e]),
                 cpc' = "receive", UNCHANGED <<down, conn>>
          PROVE  /\ up' \in Seq(UpMessage)
                 /\ results' \in Seq([config : Config, eval : Evals])
      <4>1. MsgVal("BenchMark", e) \in UpMessage
        BY MsgType, ConstAssumption
      <4>2. [config |-> sys, eval |-> e] \in [config : Config, eval : Evals]
        OBVIOUS
      <4> QED
        BY <3>1, <4>1, <4>2, SendType, AppendType
    <3> QED
      BY <2>5, <3>1, EmptyType DEF BenchMark, Leave
  <2>6. CASE RecvEnding \/ RecvEOF \/ Abort
    BY <2>6, EmptyType DEF RecvEnding, RecvEOF, Abort, Leave
  <2> QED
    BY <2>1, <2>2, <2>3, <2>4, <2>5, <2>6 DEF ClientStep
<1>5. SharedTypeOK'
  BY <1>1, <1>4 DEF SharedTypeOK, ClientFrame, sysVars, optVars
<1> QED
  BY <1>2, <1>4, <1>5

LEMMA StartType ==
  ASSUME TypeInv, Start
  PROVE  TypeInv'
<1> USE DEF TypeInv
<1>1. PICK cmd \in {"tune", "restore"} : StartSession(cmd)
  BY DEF Start, StartTuning, StartRestore
<1>2. SharedTypeOK'
  <2>1. up' \in Seq(UpMessage)
    <3>1. Msg("JobInit") \in UpMessage /\ Msg("Restore") \in UpMessage
      BY MsgType DEF UpKinds
    <3> QED
      BY <3>1 DEF Start, StartTuning, StartRestore
  <2>2. sessions' \in 0..MaxSessions
    BY <1>1, ConstAssumption DEF StartSession, SharedTypeOK
  <2> QED
    BY <1>1, <2>1, <2>2, EmptyType DEF StartSession, SharedTypeOK, sysVars
<1>3. ClientTypeOK'
  BY <1>1 DEF StartSession, ClientTypeOK, ClientStates, BaselineStates, Start,
              StartTuning, StartRestore
<1>4. ServerTypeOK'
  <2>1. filter' \in BOOLEAN /\ backedUp' \in BOOLEAN /\ taskURL' \in BOOLEAN
    BY <1>1, Zenon DEF StartSession
  <2> QED
    BY <1>1, <2>1, ConstAssumption DEF StartSession, ServerTypeOK, HandlerStates, chanVars
<1>5. ServiceTypeOK'
  BY <1>1, ServiceKept DEF StartSession
<1>6. Control'
  BY <1>1 DEF StartSession, Control, HttpPhase, AnswerKnown, WorkerTyped,
              workerVars, engineVars
<1> QED
  BY <1>2, <1>3, <1>4, <1>5, <1>6

LEMMA SenderType ==
  ASSUME TypeInv, Sender
  PROVE  TypeInv'
<1> USE DEF TypeInv
<1>1. UNCHANGED <<sysVars, clientVars, loopVars, optVars, engineVars, workerVars,
                  historyVars, up, conn>>
  BY DEF Sender, SenderTake, SenderSend, HandlerFrame, streamVars
<1>2. ClientTypeOK' /\ ServiceTypeOK' /\ Control'
  BY <1>1, ClientKept, ServiceKept, ControlKept
<1>3. ServerTypeOK'
  BY <1>1 DEF ServerTypeOK, Sender, SenderTake, SenderSend, Sent, loopVars, optVars
<1>4. down' \in Seq(DownMessage)
  <2>1. CASE SenderTake
    BY <2>1 DEF SenderTake, streamVars, SharedTypeOK
  <2>2. CASE SenderSend
    BY <2>2, DeliverType DEF SenderSend, SharedTypeOK, ServerTypeOK
  <2> QED
    BY <2>1, <2>2 DEF Sender
<1>5. SharedTypeOK'
  BY <1>1, <1>4 DEF SharedTypeOK, sysVars, optVars, historyVars
<1> QED
  BY <1>2, <1>3, <1>5

LEMMA EngineType ==
  ASSUME TypeInv, Engine
  PROVE  TypeInv'
<1> USE DEF TypeInv
<1>1. /\ UNCHANGED <<sysVars, clientVars, streamVars, chanVars, loopVars, start, sessions>>
      /\ UNCHANGED <<iter, maxIter, filter, selected, skip, backedUp, content,
                     sumEval, evalBase, minEval, finalEval, taskURL>>
  BY DEF Engine, Post, PostRefused, PutInit, Put, PutReply, Delete, optVars,
         historyVars
<1>2. ClientTypeOK' /\ ServerTypeOK'
  BY <1>1, ClientKept DEF ServerTypeOK, chanVars, loopVars
<1>3. fromWorker # <<>> =>
        Head(fromWorker) \in PipeMessage /\ Tail(fromWorker) \in Seq(PipeMessage)
  BY HeadTailType DEF ServiceTypeOK
<1>4. SharedTypeOK'
  <2>1. results' \in Seq([config : Config, eval : Evals])
    BY EmptyType DEF SharedTypeOK, Engine, Post, PostRefused, PutInit, Put, PutReply,
       Delete, historyVars
  <2>2. answer' \in AnswerMessage \cup {None}
    BY <1>3 DEF SharedTypeOK, Engine, Post, PostRefused, PutInit, Put, PutReply,
       Delete, optVars, PipeMessage, Exception
  <2> QED
    BY <1>1, <2>1, <2>2 DEF SharedTypeOK, sysVars, streamVars
<1>5. ServiceTypeOK'
  <2> USE DEF ServiceTypeOK, HttpStates, RequestKinds
  <2>1. CASE Post
    <3>1. task' \in BOOLEAN
      BY <2>1, Zenon DEF Post
    <3>2. Calls \in Nat
      BY ConstAssumption DEF Calls, TaskIters, ServerTypeOK
    <3> QED
      BY <2>1, <3>1, <3>2, EmptyType DEF Post
  <2>2. CASE PostRefused
    BY <2>2 DEF PostRefused, workerVars
  <2>3. CASE PutInit
    BY <2>3 DEF PutInit, workerVars
  <2>4. CASE Put
    <3>1. Append(toWorker, sumEval) \in Seq(Int)
      BY AppendType DEF ServerTypeOK
    <3> QED
      BY <2>4, <3>1 DEF Put, SaveTuningData, DataDirectory
  <2>5. CASE PutReply
    BY <2>5, <1>3 DEF PutReply
  <2>6. CASE Delete
    <3>1. task' \in BOOLEAN
      BY <2>6, Zenon DEF Delete
    <3> QED
      BY <2>6, <3>1, EmptyType DEF Delete
  <2> QED
    BY <2>1, <2>2, <2>3, <2>4, <2>5, <2>6 DEF Engine
<1>6. Control'
  <2> USE DEF Control, HttpPhase, AnswerKnown, WorkerTyped, loopVars
  <2>1. CASE Post
    BY <2>1, <1>1 DEF Post, optVars
  <2>2. CASE PostRefused \/ PutInit
    BY <2>2, <1>1 DEF PostRefused, PutInit, workerVars, optVars
  <2>3. CASE Put
    BY <2>3, <1>1 DEF Put, optVars
  <2>4. CASE PutReply
    <3>1. Head(fromWorker) \in PipeMessage
      BY <2>4, <1>3 DEF PutReply
    <3>2. Head(fromWorker).kind # "exception" => Head(fromWorker) \in AnswerMessage
      BY <3>1 DEF PipeMessage, Exception
    <3> QED
      BY <2>4, <1>1, <3>2, AnswerAssumption DEF PutReply
  <2>5. CASE Delete
    BY <2>5, <1>1 DEF Delete, optVars
  <2> QED
    BY <2>1, <2>2, <2>3, <2>4, <2>5 DEF Engine
<1> QED
  BY <1>2, <1>4, <1>5, <1>6

LEMMA WorkerType ==
  ASSUME TypeInv, Worker
  PROVE  TypeInv'
<1> USE DEF TypeInv
<1>1. UNCHANGED <<sysVars, clientVars, streamVars, chanVars, loopVars, optVars,
                  engineVars, historyVars>>
  BY DEF Worker, WorkerAsk, WorkerTell, WorkerFinish, WorkerFail, WorkerDie
<1>2. ClientTypeOK' /\ ServerTypeOK' /\ SharedTypeOK'
  BY <1>1, ClientKept, ServerKept
     DEF SharedTypeOK, sysVars, streamVars, optVars, historyVars
<1>3. ServiceTypeOK' /\ WorkerTyped'
  <2> USE DEF ServiceTypeOK, Control, WorkerTyped, engineVars
  <2>1. CASE WorkerAsk
    <3>1. PICK p \in [Active -> Values] :
            fromWorker' = Append(fromWorker, Proposal(p)) /\ asked' = p
      BY <2>1 DEF WorkerAsk
    <3>2. p \in Assignment
      BY DEF Assignment, Active
    <3>3. Proposal(p) \in PipeMessage
      BY <3>2 DEF Proposal, PipeMessage, AnswerMessage
    <3>4. fromWorker' \in Seq(PipeMessage)
      BY <3>1, <3>3, AppendType
    <3> QED
      BY <2>1, <1>1, <3>1, <3>2, <3>4, ConstAssumption DEF WorkerAsk
  <2>2. CASE WorkerTell
    <3>1. Head(toWorker) \in Int /\ Tail(toWorker) \in Seq(Int)
      BY <2>2, HeadTailType DEF WorkerTell
    <3>2. asked \in Assignment /\ left - 1 \in Nat
      BY <2>2 DEF WorkerTell
    <3>3. best' \in BestRecord \cup {None}
      BY <2>2, <3>1, <3>2 DEF WorkerTell, BestRecord
    <3> QED
      BY <2>2, <1>1, <3>1, <3>2, <3>3 DEF WorkerTell
  <2>3. CASE WorkerFinish
    <3>1. Solution(best.param) \in PipeMessage
      BY <2>3 DEF WorkerFinish, Solution, PipeMessage, AnswerMessage, BestRecord
    <3>2. fromWorker' \in Seq(PipeMessage)
      BY <2>3, <3>1, AppendType DEF WorkerFinish
    <3> QED
      BY <2>3, <1>1, <3>2 DEF WorkerFinish
  <2>4. CASE WorkerFail
    <3>1. fromWorker' \in Seq(PipeMessage)
      BY <2>4, AppendType DEF WorkerFail, PipeMessage
    <3> QED
      BY <2>4, <1>1, <3>1 DEF WorkerFail
  <2>5. CASE WorkerDie
    BY <2>5, <1>1 DEF WorkerDie
  <2> QED
    BY <2>1, <2>2, <2>3, <2>4, <2>5 DEF Worker
<1>4. Control'
  BY <1>1, <1>3 DEF Control, HttpPhase, AnswerKnown, loopVars, optVars, engineVars
<1> QED
  BY <1>2, <1>3, <1>4

LEMMA HandlerServiceType ==
  ASSUME TypeInv, Handler
  PROVE  ServiceTypeOK' /\ WorkerTyped' /\ ClientTypeOK'
<1> USE DEF TypeInv
<1>1. UNCHANGED <<clientVars, workerVars, historyVars>>
  BY DEF Handler, HandlerFrame, Select, HandlerEOF, HandlerReceive, HandleJobInit,
     HandleJobCreate, HandleJobRestart, HandleBenchMark, HandleRestore, Backup,
     Create, Created, CreateFailed, Open, Opened, Evaluate, Answer, Apply, Conclude,
     Panic, DeleteTask, Deleted, Return, Returned
<1>2. http' \in HttpStates /\ UNCHANGED <<task, data, rows>>
  BY DEF Handler, Select, HandlerEOF, HandlerReceive, HandleJobInit,
     HandleJobCreate, HandleJobRestart, HandleBenchMark, HandleRestore, Backup,
     Create, Created, CreateFailed, Open, Opened, Evaluate, Answer, Apply, Conclude,
     Panic, DeleteTask, Deleted, Return, Returned, engineVars, Request,
     ServiceTypeOK, HttpStates, RequestKinds
<1> QED
  BY <1>1, <1>2, ClientKept DEF ServiceTypeOK, Control, WorkerTyped, workerVars

LEMMA HandlerControl ==
  ASSUME TypeInv, Handler
  PROVE  HttpPhase' /\ AnswerKnown'
<1> USE DEF TypeInv, Control, HttpPhase, AnswerKnown, CanStep, OnlyLoop, Request,
            loopVars, optVars, engineVars
<1>1. CASE Select \/ HandlerEOF \/ Panic
  BY <1>1 DEF Select, HandlerEOF, Panic
<1>2. CASE HandleJobInit \/ HandleBenchMark \/ HandleRestore
  BY <1>2 DEF HandleJobInit, HandleBenchMark, HandleRestore, HandlerReceive
<1>3. CASE HandleJobCreate \/ HandleJobRestart
  BY <1>3 DEF HandleJobCreate, HandleJobRestart, HandlerReceive, InitTuned, InitFeatureSel
<1>4. CASE Backup \/ Create \/ Created \/ CreateFailed \/ Open \/ Opened
  BY <1>4 DEF Backup, Create, Created, CreateFailed, Open, Opened
<1>5. CASE Evaluate \/ Answer
  BY <1>5 DEF Evaluate, Answer
<1>6. CASE Apply \/ Conclude
  BY <1>6 DEF Apply, Conclude
<1>7. CASE DeleteTask \/ Deleted \/ Return \/ Returned
  BY <1>7 DEF DeleteTask, Deleted, Return, Returned
<1> QED
  BY <1>1, <1>2, <1>3, <1>4, <1>5, <1>6, <1>7 DEF Handler

LEMMA HandlerReceiveType ==
  ASSUME up \in Seq(UpMessage), NEW k, HandlerReceive(k)
  PROVE  /\ up' \in Seq(UpMessage)
         /\ k \in {"JobCreate", "BenchMark"} => Head(up).val \in Int
<1>1. Head(up) \in UpMessage /\ Tail(up) \in Seq(UpMessage)
  BY HeadTailType DEF HandlerReceive
<1> QED
  BY <1>1 DEF HandlerReceive, UpMessage

LEMMA HandlerSharedType ==
  ASSUME TypeInv, Handler
  PROVE  SharedTypeOK'
<1> USE DEF TypeInv, SharedTypeOK
<1>1. /\ UNCHANGED historyVars /\ answer' = answer
      /\ conn' \in {"none", "open", "closed", "ended"}
  BY DEF Handler, HandlerFrame, Select, HandlerEOF, HandlerReceive, HandleJobInit,
     HandleJobCreate, HandleJobRestart, HandleBenchMark, HandleRestore, Backup,
     Create, Created, CreateFailed, Open, Opened, Evaluate, Answer, Apply, Conclude,
     Panic, DeleteTask, Deleted, Return, Returned, streamVars, optVars
<1>2. up' \in Seq(UpMessage)
  <2>1. CASE \E k \in UpKinds : HandlerReceive(k)
    BY <2>1, HandlerReceiveType
  <2>2. CASE UNCHANGED up \/ up' = <<>>
    BY <2>2, EmptyType
  <2> QED
    BY <2>1, <2>2 DEF Handler, Select, HandlerEOF, HandleJobInit,
       HandleJobCreate, HandleJobRestart, HandleBenchMark, HandleRestore, Backup,
       Create, Created, CreateFailed, Open, Opened, Evaluate, Answer, Apply, Conclude,
       Panic, DeleteTask, Deleted, Return, Returned, streamVars, UpKinds
<1>3. down' \in Seq(DownMessage)
  <2>1. CASE Select
    <3>1. Msg("JobRestart") \in DownMessage /\ Msg("Ending") \in DownMessage
      BY MsgType DEF DownKinds
    <3> QED
      BY <2>1, <3>1, DeliverType DEF Select
  <2>2. CASE ~Select
    BY <2>2 DEF Handler, HandlerReceive, HandlerEOF, HandleJobInit,
       HandleJobCreate, HandleJobRestart, HandleBenchMark, HandleRestore, Backup,
       Create, Created, CreateFailed, Open, Opened, Evaluate, Answer, Apply, Conclude,
       Panic, DeleteTask, Deleted, Return, Returned, streamVars
  <2> QED
    BY <2>1, <2>2
<1>4. sys' \in Config /\ restoreFile' \in Config \cup {None}
  <2>1. CASE HandleRestore
    <3>1. restoreFile # None => restoreFile \in Assignment
      BY ConfigAssignment
    <3>2. restoreFile # None => \A S : SetOn(restoreFile, S) \in Config
      BY <3>1, SetOnType
    <3> QED
      BY <2>1, <3>2 DEF HandleRestore
  <2>2. CASE Apply
    <3>1. answer \in AnswerMessage
      BY <2>2 DEF Apply, CanStep, Control, AnswerKnown
    <3>2. answer.param \in Assignment
      BY <3>1 DEF AnswerMessage
    <3>3. \A S : SetOn(answer.param, S) \in Config
      BY <3>2, SetOnType
    <3> QED
      BY <2>2, <3>3 DEF Apply
  <2>3. CASE Backup
    BY <2>3 DEF Backup
  <2>4. CASE ~HandleRestore /\ ~Apply /\ ~Backup
    BY <2>4 DEF Handler, Select, HandlerReceive, HandlerEOF, HandleJobInit,
       HandleJobCreate, HandleJobRestart, HandleBenchMark,
       Create, Created, CreateFailed, Open, Opened, Evaluate, Answer, Conclude,
       Panic, DeleteTask, Deleted, Return, Returned, sysVars
  <2> QED
    BY <2>1, <2>2, <2>3, <2>4
<1> QED
  BY <1>1, <1>2, <1>3, <1>4 DEF historyVars

LEMMA HandlerServerType ==
  ASSUME TypeInv, Handler
  PROVE  ServerTypeOK'
<1> USE DEF TypeInv, ServerTypeOK, SharedTypeOK, CanStep, OnlyLoop
<1> DEFINE Message == {None} \cup DownMessage
<1>1. \A k \in DownKinds : Msg(k) \in DownMessage
  BY MsgType
<1>2. CASE Select \/ HandlerEOF
  <2>1. cycles' \in Int /\ stop' \in 0..2
    BY <1>2 DEF Select, HandlerEOF
  <2>2. hpc' \in HandlerStates /\ UNCHANGED <<chanVars, optVars>>
    BY <1>2 DEF Select, HandlerEOF, HandlerStates
  <2> QED
    BY <2>1, <2>2 DEF chanVars, optVars
<1>3. CASE HandleJobInit
  BY <1>3, <1>1, ConstAssumption
     DEF HandleJobInit, HandlerReceive, Put_ch, HandlerStates, DownKinds
<1>4. CASE HandleJobCreate
  <2>1. Head(up).val \in Int
    BY <1>4, HandlerReceiveType DEF HandleJobCreate
  <2>2. filter' \in BOOLEAN
    BY <1>4, Zenon DEF HandleJobCreate, InitTuned, InitFeatureSel
  <2>3. UNCHANGED <<chan, sender>>
    BY <1>4 DEF HandleJobCreate, HandlerReceive
  <2> QED
    BY <1>4, <2>1, <2>2, <2>3, ConstAssumption
       DEF HandleJobCreate, InitTuned, InitFeatureSel, HandlerStates
<1>5. CASE HandleJobRestart
  <2>2. filter' \in BOOLEAN
    BY <1>5, Zenon DEF HandleJobRestart, InitTuned, InitFeatureSel
  <2>3. UNCHANGED <<chan, sender>>
    BY <1>5 DEF HandleJobRestart, HandlerReceive
  <2> QED
    BY <1>5, <2>2, <2>3, ConstAssumption
       DEF HandleJobRestart, InitTuned, InitFeatureSel, HandlerStates
<1>6. CASE HandleBenchMark
  <2>1. Head(up).val \in Int
    BY <1>6, HandlerReceiveType DEF HandleBenchMark
  <2> QED
    BY <1>6, <2>1 DEF HandleBenchMark, HandlerReceive, HandlerStates
<1>7. CASE HandleRestore
  BY <1>7, <1>1 DEF HandleRestore, HandlerReceive, HandlerStates, Put_ch, DownKinds, optVars
<1>8. CASE Backup
  <2>1. backedUp' \in BOOLEAN
    BY <1>8, Zenon DEF Backup
  <2> QED
    BY <1>8, <2>1 DEF Backup, HandlerStates, chanVars
<1>9. CASE Created
  <2>1. taskURL' \in BOOLEAN
    BY <1>9, Zenon DEF Created
  <2> QED
    BY <1>9, <2>1, <1>1 DEF Created, HandlerStates, Put_ch, DownKinds
<1>10. CASE Create \/ CreateFailed \/ Open \/ DeleteTask \/ Deleted \/ Return
  BY <1>10 DEF Create, CreateFailed, Open, DeleteTask, Deleted, Return, chanVars, optVars,
     HandlerStates
<1>11. CASE Opened
  BY <1>11 DEF Opened, chanVars, HandlerStates
<1>12. CASE Evaluate
  BY <1>12 DEF Evaluate, chanVars, HandlerStates
<1>13. CASE Answer
  BY <1>13, <1>1 DEF Answer, optVars, HandlerStates, Put_ch, DownKinds
<1>14. CASE Apply
  BY <1>14, <1>1 DEF Apply, HandlerStates, Put_ch, DownKinds
<1>15. CASE Conclude
  <2>1. MsgVal("Result", finalEval) \in DownMessage
    BY MsgType DEF DownKinds
  <2>2. \A sel, before, after : StopSignal(sel, before, after) \in 0..2
    BY DEF StopSignal
  <2>3. selected' \subseteq Knobs /\ skip' \subseteq Knobs /\ stop' \in 0..2
    <3>1. CASE UNCHANGED <<selected, skip>> /\ \E a, b : stop' = StopSignal(selected, a, b)
      BY <3>1, <2>2
    <3>2. CASE \E chosen \in SUBSET Active : \E a, b :
                 /\ selected' = selected \cup chosen /\ skip' = skip \cup chosen
                 /\ stop' = StopSignal(selected', a, b)
      BY <3>2, <2>2 DEF Active
    <3> QED
      BY <1>15, <3>1, <3>2 DEF Conclude
  <2> QED
    BY <1>15, <2>1, <2>3 DEF Conclude, HandlerStates, Put_ch
<1>16. CASE Panic
  BY <1>16 DEF Panic, optVars, HandlerStates
<1>17. CASE Returned
  <2>1. taskURL' \in BOOLEAN
    BY <1>17, Zenon DEF Returned
  <2> QED
    BY <1>17, <2>1 DEF Returned, HandlerStates
<1> QED
  BY <1>2, <1>3, <1>4, <1>5, <1>6, <1>7, <1>8, <1>9, <1>10, <1>11, <1>12, <1>13,
     <1>14, <1>15, <1>16, <1>17 DEF Handler

LEMMA NextType == TypeInv /\ [Next]_vars => TypeInv'
<1> SUFFICES ASSUME TypeInv, [Next]_vars PROVE TypeInv'
  OBVIOUS
<1>1. CASE Handler
  BY <1>1, HandlerServiceType, HandlerControl, HandlerSharedType, HandlerServerType
     DEF TypeInv, Control
<1>2. CASE UNCHANGED vars
  <2>1. UNCHANGED <<sysVars, clientVars, streamVars, chanVars, loopVars, optVars,
                    workerVars, engineVars, historyVars>>
    BY <1>2 DEF vars
  <2> QED
    BY <2>1, ClientKept, ServerKept, ServiceKept, ControlKept
       DEF TypeInv, SharedTypeOK, sysVars, streamVars, optVars, historyVars
<1> QED
  BY <1>1, <1>2, StartType, ClientType, SenderType, EngineType, WorkerType
     DEF Next, Terminated

(* Every variable of the session keeps its type, for any set of knobs, any *)
(* number of iterations and cycles and any combination of failures.        *)
THEOREM TypeCorrect == Spec => []TypeOK
<1>1. Init => TypeInv
  BY InitType
<1>2. TypeInv /\ [Next]_vars => TypeInv'
  BY NextType
<1>3. TypeInv => TypeOK
  BY DEF TypeInv, SharedTypeOK, TypeOK
<1> QED
  BY <1>1, <1>2, <1>3, PTL DEF Spec

-----------------------------------------------------------------------------
(* NoOrphanSearch.                                                         *)

(* A task in the cache is known to the handler that will delete it: by its *)
(* URL, or because the answer to its POST is being read.                   *)
TaskInv ==
  /\ wpc # "none" => task
  /\ task => taskURL \/ (hpc = "created" /\ http = "ok")
  /\ hpc = "returned" /\ task => http = "delete"
  /\ hpc = "idle" => ~task

LEMMA TaskStep ==
  TypeInv /\ TaskInv /\ [Next]_vars => TaskInv'
<1> SUFFICES ASSUME TypeInv, TaskInv, [Next]_vars PROVE TaskInv'
  OBVIOUS
<1> USE DEF TaskInv
<1>0. HttpPhase
  BY DEF TypeInv, Control
<1>1. CASE UNCHANGED vars
  BY <1>1 DEF vars, workerVars, engineVars, optVars, loopVars
<1>2. CASE Start
  BY <1>2 DEF Start, StartTuning, StartRestore, StartSession, workerVars, engineVars
<1>3. CASE ClientStep \/ Abort
  BY <1>3 DEF ClientStep, Abort, BaselineDone, RecvJobCreate, RecvJobInit, RecvJobRestart,
     RecvBenchMark, BenchMark, RecvThreshold, RecvResult, RecvEnding, RecvEOF, ClientFrame,
     workerVars, engineVars, optVars, loopVars
<1>4. CASE Sender
  BY <1>4 DEF Sender, SenderTake, SenderSend, HandlerFrame, workerVars, engineVars,
     optVars, loopVars
<1>5. CASE Worker
  BY <1>5 DEF Worker, WorkerAsk, WorkerTell, WorkerFinish, WorkerFail, WorkerDie,
     engineVars, optVars, loopVars
<1>6. CASE Engine
  BY <1>0, <1>6 DEF Engine, Post, PostRefused, PutInit, Put, PutReply, Delete, HttpPhase,
     workerVars, optVars, loopVars
<1>7. CASE Handler
  <2>1. wpc' = wpc /\ task' = task
    BY <1>7 DEF Handler, HandlerFrame, Select, HandlerEOF, HandlerReceive, HandleJobInit,
       HandleJobCreate, HandleJobRestart, HandleBenchMark, HandleRestore, Backup,
       Create, Created, CreateFailed, Open, Opened, Evaluate, Answer, Apply, Conclude,
       Panic, DeleteTask, Deleted, Return, Returned, engineVars, workerVars, Request
  <2>2. taskURL' = taskURL \/ Created \/ Returned
    BY <1>7 DEF Handler, HandlerFrame, Select, HandlerEOF, HandlerReceive, HandleJobInit,
       HandleJobCreate, HandleJobRestart, HandleBenchMark, HandleRestore, Backup,
       Create, CreateFailed, Open, Opened, Evaluate, Answer, Apply, Conclude,
       Panic, DeleteTask, Deleted, Return, optVars
  <2>3. CASE Return
    BY <1>0, <2>1, <2>3 DEF Return, TaskToDelete, Request, engineVars, optVars, OnlyLoop, CanStep
  <2>4. CASE Returned
    BY <1>0, <2>1, <2>4 DEF Returned, OnlyLoop, CanStep
  <2>5. CASE Created
    BY <1>0, <2>1, <2>5 DEF Created, OnlyLoop, CanStep
  <2>6. CASE CreateFailed
    BY <1>0, <2>1, <2>6 DEF CreateFailed, OnlyLoop, CanStep, optVars
  <2>7. CASE ~Return /\ ~Returned /\ ~Created /\ ~CreateFailed
    <3>1. hpc # "created" /\ hpc' # "idle" /\ hpc' # "returned"
      BY <1>7, <2>7 DEF Handler, Select, HandlerEOF, HandlerReceive, HandleJobInit,
         HandleJobCreate, HandleJobRestart, HandleBenchMark, HandleRestore, Backup,
         Create, Open, Opened, Evaluate, Answer, Apply, Conclude,
         Panic, DeleteTask, Deleted, OnlyLoop, CanStep, InitTuned, InitFeatureSel
    <3> QED
      BY <2>1, <2>2, <2>7, <3>1
  <2> QED
    BY <2>3, <2>4, <2>5, <2>6, <2>7
<1> QED
  BY <1>1, <1>2, <1>3, <1>4, <1>5, <1>6, <1>7 DEF Next, Terminated

(* Whatever way a session ends, no task and no worker process is left.     *)
THEOREM NoOrphans == Spec => []NoOrphanSearch
<1>1. Init => TypeInv /\ TaskInv
  BY InitType DEF Init, TaskInv
<1>2. TypeInv /\ TaskInv /\ [Next]_vars => (TypeInv /\ TaskInv)'
  BY NextType, TaskStep
<1>3. TypeInv /\ TaskInv => NoOrphanSearch
  BY DEF TaskInv, NoOrphanSearch
<1> QED
  BY <1>1, <1>2, <1>3, PTL DEF Spec

-----------------------------------------------------------------------------
(* The turn: at any time one place at most holds what makes the exchange    *)
(* go on.  On the way down it is one of these messages.                    *)
TurnKinds == {"JobCreate", "JobRestart", "BenchMark", "Threshold"}
Carries(m, K)  == m # None /\ m.kind \in K
Contains(s, K) == \E i \in DOMAIN s : s[i].kind \in K
AtMostOne(s, K) ==
  \A i, j \in DOMAIN s : s[i].kind \in K /\ s[j].kind \in K => i = j

AtUp      == up # <<>>
AtDown    == Contains(down, TurnKinds)
AtChan    == Carries(chan, TurnKinds)
AtSender  == Carries(sender, TurnKinds)
AtClient  == cpc = "benchmark" /\ conn = "open"
AtHandler == hpc \in {"backup", "create", "created", "open", "opened", "evaluate",
                      "answer", "apply", "conclude"}
AtStop    == stop # 0

Exclusive ==
  /\ AtUp      => ~AtDown /\ ~AtChan /\ ~AtSender /\ ~AtClient /\ ~AtHandler /\ ~AtStop
  /\ AtDown    => ~AtChan /\ ~AtSender /\ ~AtClient /\ ~AtHandler /\ ~AtStop
  /\ AtChan    => ~AtSender /\ ~AtClient /\ ~AtHandler /\ ~AtStop
  /\ AtSender  => ~AtClient /\ ~AtHandler /\ ~AtStop
  /\ AtClient  => ~AtHandler /\ ~AtStop
  /\ AtHandler => ~AtStop

TurnInv ==
  /\ Exclusive
  /\ Len(up) <= 1
  /\ AtMostOne(down, TurnKinds)
  /\ hpc = "idle" => chan = None /\ sender = None
  /\ hpc \in {"delete", "deleted"} => AtStop

(* A phase is about to begin.                                              *)
PhaseKinds == {"JobInit", "JobCreate", "JobRestart"}

Beginning ==
  \/ hpc \in {"backup", "create"} \/ (hpc = "created" /\ http # "ok")
  \/ Contains(up, PhaseKinds)
  \/ Contains(down, {"JobCreate", "JobRestart"})
  \/ Carries(chan, {"JobCreate", "JobRestart"})
  \/ Carries(sender, {"JobCreate", "JobRestart"})
  \/ AtStop /\ hpc \notin {"delete", "deleted"}
  \/ hpc = "deleted" /\ http = "ok"

PhaseInv ==
  /\ Beginning => wpc = "none"
  /\ Beginning \/ AtStop \/ hpc \in {"created", "open", "opened"} => iter = 0

(* The worker searches, or a message is in its pipe, only during a PUT or  *)
(* before the first evaluation of a phase.                                 *)
Inflight == wpc = "search" \/ toWorker # <<>> \/ fromWorker # <<>>

Window ==
  \/ hpc = "answer" /\ http = "recv"
  \/ /\ iter = 0
     /\ \/ hpc = "created" /\ http = "ok"
        \/ hpc \in {"open", "opened", "evaluate"}
        \/ hpc = "answer" /\ http = "put"

PipeInv ==
  /\ Inflight => Window
  /\ wpc = "search" => toWorker = <<>> /\ fromWorker = <<>>
  /\ toWorker # <<>> => fromWorker = <<>>
  /\ Len(toWorker) <= 1 /\ Len(fromWorker) <= 1

(* What the worker asks, the pipe, the handler and the machine agree on.   *)
AnswerUsed == (hpc = "answer" /\ http = "ok") \/ hpc = "apply"

AskInv ==
  /\ wpc = "objective" => asked \in [Active -> Values]
  /\ fromWorker # <<>> =>
       IF Head(fromWorker).kind = "param"
         THEN wpc = "objective" /\ Head(fromWorker).param = asked
         ELSE wpc = "done"
  /\ AnswerUsed =>
       IF answer.kind = "param"
         THEN wpc = "objective" /\ answer.param = asked
         ELSE wpc = "done"
  /\ hpc = "conclude" => wpc = "done"

(* A benchmark has been asked for and not been made yet.                   *)
BenchOut ==
  AtClient \/ Contains(down, {"BenchMark"}) \/ Carries(chan, {"BenchMark"})
           \/ Carries(sender, {"BenchMark"})

BenchInv ==
  conn = "open" /\ BenchOut =>
    /\ hpc \in {"loop", "receive"}
    /\ wpc = "objective" /\ Has(sys, asked)

(* The evaluations made and those left add up.                             *)
CountInv ==
  /\ iter <= TaskIters
  /\ wpc = "search" => iter + left <= TaskIters
  /\ wpc = "objective" => iter + left <= TaskIters + 1
  /\ wpc = "objective" /\ (fromWorker # <<>> \/ AnswerUsed) => iter + left <= TaskIters

-----------------------------------------------------------------------------
(* Messages in a queue.                                                    *)

LEMMA ContainsTail ==
  ASSUME NEW S, NEW s \in Seq(S), s # <<>>, NEW K
  PROVE  /\ Contains(Tail(s), K) => Contains(s, K)
         /\ AtMostOne(s, K) => AtMostOne(Tail(s), K)
         /\ AtMostOne(s, K) /\ Head(s).kind \in K => ~Contains(Tail(s), K)
         /\ Head(s).kind \in K => Contains(s, K)
<1>1. /\ DOMAIN s = 1 .. Len(s) /\ Len(s) \in Nat \ {0}
      /\ DOMAIN Tail(s) = 1 .. Len(s) - 1
      /\ \A i \in DOMAIN Tail(s) : Tail(s)[i] = s[i + 1]
      /\ Head(s) = s[1]
  OBVIOUS
<1>2. \A i \in DOMAIN Tail(s) : i + 1 \in DOMAIN s /\ i + 1 # 1
  BY <1>1
<1>3. 1 \in DOMAIN s
  BY <1>1
<1>4. \A i, j \in DOMAIN Tail(s) : i + 1 = j + 1 => i = j
  BY <1>1
<1> QED
  BY <1>1, <1>2, <1>3, <1>4 DEF Contains, AtMostOne

LEMMA ContainsAppend ==
  ASSUME NEW S, NEW s \in Seq(S), NEW m \in S, NEW K
  PROVE  /\ Contains(Append(s, m), K) <=> Contains(s, K) \/ m.kind \in K
         /\ AtMostOne(s, K) /\ (m.kind \in K => ~Contains(s, K))
              => AtMostOne(Append(s, m), K)
<1>1. /\ DOMAIN s = 1 .. Len(s) /\ Len(s) \in Nat
      /\ DOMAIN Append(s, m) = 1 .. Len(s) + 1
      /\ \A i \in DOMAIN s : Append(s, m)[i] = s[i]
      /\ Append(s, m)[Len(s) + 1] = m
  OBVIOUS
<1>2. DOMAIN Append(s, m) = DOMAIN s \cup {Len(s) + 1}
  BY <1>1
<1> QED
  BY <1>1, <1>2 DEF Contains, AtMostOne

LEMMA ContainsEmpty == \A K : ~Contains(<<>>, K) /\ AtMostOne(<<>>, K)
  BY DEF Contains, AtMostOne

LEMMA ContainsMore ==
  ASSUME NEW s, NEW K, NEW L, K \subseteq L
  PROVE  Contains(s, K) => Contains(s, L)
  BY DEF Contains

(* A queue of at most one message.                                         *)
LEMMA ShortQueue ==
  ASSUME NEW S, NEW s \in Seq(S), Len(s) <= 1
  PROVE  /\ s # <<>> => Tail(s) = <<>>
         /\ s # <<>> => \A K : Contains(s, K) <=> Head(s).kind \in K
         /\ s = <<>> => \A m \in S : Len(Append(s, m)) = 1 /\ Append(s, m) # <<>>
                                     /\ Head(Append(s, m)) = m
<1>1. s # <<>> => Tail(s) = <<>>
  OBVIOUS
<1>2. s # <<>> => DOMAIN s = {1} /\ Head(s) = s[1]
  <2>1. DOMAIN s = 1 .. Len(s) /\ Len(s) \in Nat /\ (s # <<>> => Head(s) = s[1])
    OBVIOUS
  <2>2. s # <<>> => Len(s) # 0
    OBVIOUS
  <2>3. 1 .. 1 = {1}
    OBVIOUS
  <2> QED
    BY <2>1, <2>2, <2>3
<1>3. s = <<>> => \A m \in S : Len(Append(s, m)) = 1 /\ Append(s, m) # <<>>
                                     /\ Head(Append(s, m)) = m
  OBVIOUS
<1> QED
  BY <1>1, <1>2, <1>3 DEF Contains

-----------------------------------------------------------------------------
(* OneTurn.                                                                *)

LEMMA SendTurn ==
  ASSUME up \in Seq(UpMessage), NEW m \in UpMessage, Send(m), up = <<>>
  PROVE  Len(up') <= 1 /\ (up' # <<>> => Head(up') = m)
  BY ShortQueue DEF Send

LEMMA DeliverTurn ==
  ASSUME down \in Seq(DownMessage), NEW m \in DownMessage, Deliver(m)
  PROVE  /\ \A K : Contains(down', K) => Contains(down, K) \/ m.kind \in K
         /\ \A K : AtMostOne(down, K) /\ (m.kind \in K => ~Contains(down, K))
                    => AtMostOne(down', K)
  BY ContainsAppend DEF Deliver

LEMMA TurnClient ==
  ASSUME TypeInv, TurnInv, ClientStep \/ Abort
  PROVE  TurnInv'
<1> USE DEF TurnInv, TypeInv, SharedTypeOK
<1>1. UNCHANGED <<chan, sender, hpc, stop>>
  BY DEF ClientStep, Abort, BaselineDone, RecvJobCreate, RecvJobInit, RecvJobRestart,
     RecvBenchMark, BenchMark, RecvThreshold, RecvResult, RecvEnding, RecvEOF, ClientFrame,
     chanVars, loopVars
<1> DEFINE Others == AtChan \/ AtSender \/ AtHandler \/ AtStop
<1>2. (AtChan' <=> AtChan) /\ (AtSender' <=> AtSender) /\ (AtHandler' <=> AtHandler)
      /\ (AtStop' <=> AtStop)
  BY <1>1 DEF AtChan, AtSender, AtHandler, AtStop, Carries
<1>3. (hpc = "idle" => chan = None /\ sender = None)' /\ (hpc \in {"delete", "deleted"} => AtStop)'
  BY <1>1, <1>2
<1>4. SUFFICES /\ AtMostOne(down', TurnKinds) /\ Len(up') <= 1
               /\ AtUp' => ~AtDown' /\ ~AtClient' /\ ~Others
               /\ AtDown' => ~AtClient' /\ ~Others
               /\ AtClient' => ~Others
  <2>1. Exclusive'
    BY <1>2, <1>4 DEF Exclusive
  <2> QED
    BY <1>3, <1>4, <2>1
<1>5. \/ Others /\ ~AtUp /\ ~AtDown /\ ~AtClient
      \/ AtUp /\ ~Others /\ ~AtDown /\ ~AtClient
      \/ AtDown /\ ~Others /\ ~AtUp /\ ~AtClient
      \/ AtClient /\ ~Others /\ ~AtUp /\ ~AtDown
      \/ ~Others /\ ~AtUp /\ ~AtDown /\ ~AtClient
  BY DEF Exclusive
<1>6. (AtUp <=> up # <<>>) /\ (AtUp' <=> up' # <<>>)
  BY DEF AtUp
<1>7. (AtDown <=> Contains(down, TurnKinds)) /\ (AtDown' <=> Contains(down', TurnKinds))
  BY DEF AtDown
<1>8. (AtClient <=> cpc = "benchmark" /\ conn = "open")
      /\ (AtClient' <=> cpc' = "benchmark" /\ conn' = "open")
  BY DEF AtClient
<1>9. down # <<>> => /\ Contains(Tail(down), TurnKinds) => AtDown
                     /\ AtMostOne(Tail(down), TurnKinds)
                     /\ Head(down).kind \in TurnKinds => AtDown /\ ~Contains(Tail(down), TurnKinds)
  BY ContainsTail, <1>7
<1>10. CASE BaselineDone
  BY <1>10, <1>5, <1>6, <1>7, <1>8 DEF BaselineDone, streamVars
<1>11. CASE RecvJobInit \/ RecvResult
  BY <1>11, <1>5, <1>6, <1>7, <1>8, <1>9 DEF RecvJobInit, RecvResult, Receive, Consume
<1>12. CASE RecvEnding \/ RecvEOF \/ Abort
  BY <1>12, <1>5, <1>6, <1>7, <1>8, ContainsEmpty DEF RecvEnding, RecvEOF, Abort, Leave
<1>13. ASSUME NEW m \in UpMessage, down # <<>>, Head(down).kind \in TurnKinds,
              down' = Tail(down), Send(m), cpc' # "benchmark"
       PROVE  /\ AtMostOne(down', TurnKinds) /\ Len(up') <= 1
              /\ AtUp' => ~AtDown' /\ ~AtClient' /\ ~Others
              /\ AtDown' => ~AtClient' /\ ~Others
              /\ AtClient' => ~Others
  BY <1>13, <1>5, <1>6, <1>7, <1>8, <1>9, SendTurn
<1>14. CASE RecvJobCreate
  <2>1. JobCreateAnswer \in UpMessage
    BY MsgType DEF JobCreateAnswer, ClientTypeOK
  <2>2. CASE baseline # "failed"
    BY <1>14, <2>1, <2>2, <1>13 DEF RecvJobCreate, Receive, Consume, TurnKinds
  <2>3. CASE baseline = "failed"
    BY <1>14, <2>3, <1>5, <1>6, <1>7, <1>8, ContainsEmpty
       DEF RecvJobCreate, Leave, BaselineKnown
  <2> QED
    BY <2>2, <2>3
<1>15. CASE RecvJobRestart \/ RecvThreshold
  <2>1. Msg("JobRestart") \in UpMessage /\ MsgVal("BenchMark", ThresholdSum) \in UpMessage
    BY MsgType, ConstAssumption DEF UpKinds
  <2> QED
    BY <1>15, <2>1, <1>13 DEF RecvJobRestart, RecvThreshold, Receive, Consume, TurnKinds
<1>16. CASE RecvBenchMark
  BY <1>16, <1>5, <1>6, <1>7, <1>8, <1>9 DEF RecvBenchMark, Receive, Consume, TurnKinds
<1>17. CASE BenchMark
  <2>1. CASE \E e \in Evals : Send(MsgVal("BenchMark", e)) /\ cpc' = "receive"
                              /\ UNCHANGED <<down, conn>>
    <3>1. PICK e \in Evals : Send(MsgVal("BenchMark", e)) /\ cpc' = "receive"
                             /\ UNCHANGED <<down, conn>>
      BY <2>1
    <3>2. MsgVal("BenchMark", e) \in UpMessage
      BY MsgType, ConstAssumption
    <3>3. CASE conn = "open"
      BY <1>17, <3>1, <3>2, <3>3, <1>5, <1>6, <1>7, <1>8, SendTurn DEF BenchMark
    <3>4. CASE conn # "open"
      BY <3>1, <3>4, <1>5, <1>6, <1>7, <1>8 DEF Send
    <3> QED
      BY <3>3, <3>4
  <2>2. CASE Leave /\ up' = up
    BY <2>2, <1>5, <1>6, <1>7, <1>8, ContainsEmpty DEF Leave
  <2> QED
    BY <1>17, <2>1, <2>2 DEF BenchMark
<1> QED
  BY <1>10, <1>11, <1>12, <1>14, <1>15, <1>16, <1>17 DEF ClientStep

LEMMA TurnStart ==
  ASSUME TypeInv, TurnInv, Start
  PROVE  TurnInv'
<1> USE DEF TurnInv
<1>1. PICK cmd \in {"tune", "restore"} : StartSession(cmd)
  BY DEF Start, StartTuning, StartRestore
<1>2. /\ down' = <<>> /\ cpc' = "receive" /\ hpc' = "loop" /\ stop' = 0
      /\ chan' = None /\ sender' = None
  BY <1>1 DEF StartSession, chanVars
<1>3. ~AtDown' /\ ~AtChan' /\ ~AtSender' /\ ~AtClient' /\ ~AtHandler' /\ ~AtStop'
  BY <1>2, ContainsEmpty DEF AtDown, AtChan, AtSender, AtClient, AtHandler, AtStop, Carries
<1>4. Len(up') <= 1
  <2>1. PICK m : up' = <<m>>
    BY DEF Start, StartTuning, StartRestore
  <2> QED
    BY <2>1
<1> QED
  BY <1>2, <1>3, <1>4, ContainsEmpty DEF Exclusive

LEMMA TurnSender ==
  ASSUME TypeInv, TurnInv, Sender
  PROVE  TurnInv'
<1> USE DEF TurnInv, TypeInv, SharedTypeOK, ServerTypeOK
<1>1. UNCHANGED <<up, conn, cpc, hpc, stop>>
  BY DEF Sender, SenderTake, SenderSend, HandlerFrame, streamVars, clientVars, loopVars
<1>2. (AtUp' <=> AtUp) /\ (AtClient' <=> AtClient) /\ (AtHandler' <=> AtHandler)
      /\ (AtStop' <=> AtStop)
  BY <1>1 DEF AtUp, AtClient, AtHandler, AtStop
<1>3. CASE SenderTake
  <2>1. (AtDown' <=> AtDown) /\ (AtSender' <=> AtChan) /\ ~AtChan' /\ ~AtSender /\ down' = down
    BY <1>3 DEF SenderTake, AtDown, AtChan, AtSender, Carries, streamVars
  <2>2. hpc # "idle"
    BY <1>3 DEF SenderTake
  <2> QED
    BY <1>1, <1>2, <2>1, <2>2 DEF Exclusive
<1>4. CASE SenderSend
  <2>1. sender \in DownMessage /\ sender' = None /\ chan' = chan /\ Deliver(sender)
    BY <1>4 DEF SenderSend, Sent
  <2>2. (AtChan' <=> AtChan) /\ ~AtSender' /\ (sender.kind \in TurnKinds <=> AtSender)
    BY <1>4, <2>1 DEF AtChan, AtSender, Carries, SenderSend
  <2>3. (AtDown' => AtDown \/ AtSender) /\ AtMostOne(down', TurnKinds)
    BY <2>1, <2>2, DeliverTurn DEF AtDown, Exclusive
  <2> QED
    BY <1>1, <1>2, <2>1, <2>2, <2>3 DEF Exclusive
<1> QED
  BY <1>3, <1>4 DEF Sender

LEMMA TurnKept ==
  TurnInv /\ UNCHANGED <<cpc, streamVars, chanVars, loopVars>> => TurnInv'
<1> SUFFICES ASSUME TurnInv, UNCHANGED <<cpc, streamVars, chanVars, loopVars>> PROVE TurnInv'
  OBVIOUS
<1>1. UNCHANGED <<cpc, up, down, conn, chan, sender, hpc, stop>>
  BY DEF streamVars, chanVars, loopVars
<1>2. /\ (AtUp' <=> AtUp) /\ (AtDown' <=> AtDown) /\ (AtChan' <=> AtChan)
      /\ (AtSender' <=> AtSender) /\ (AtClient' <=> AtClient)
      /\ (AtHandler' <=> AtHandler) /\ (AtStop' <=> AtStop)
  BY <1>1 DEF AtUp, AtDown, AtChan, AtSender, AtClient, AtHandler, AtStop
<1> QED
  BY <1>1, <1>2 DEF TurnInv, Exclusive

(* A handler that received a message has taken the turn.                   *)
LEMMA TurnReceived ==
  ASSUME TypeInv, TurnInv, NEW k, HandlerReceive(k)
  PROVE  /\ up' = <<>> /\ chan = None /\ UNCHANGED <<down, sender, conn, cpc>>
         /\ ~AtUp' /\ ~AtDown' /\ ~AtSender' /\ ~AtClient' /\ ~AtStop
<1> USE DEF TypeInv, SharedTypeOK
<1>1. up' = <<>> /\ chan = None /\ UNCHANGED <<down, sender, conn, cpc>>
  BY ShortQueue DEF HandlerReceive, CanStep, TurnInv, HandlerFrame, clientVars
<1>2. AtUp
  BY DEF HandlerReceive, AtUp
<1> QED
  BY <1>1, <1>2 DEF TurnInv, Exclusive, AtUp, AtDown, AtSender, AtClient

LEMMA TurnHandler ==
  ASSUME TypeInv, TurnInv, Handler
  PROVE  TurnInv'
<1> USE DEF TypeInv, SharedTypeOK
<1> DEFINE Before == AtUp \/ AtDown \/ AtChan \/ AtSender \/ AtClient
           After  == AtUp' \/ AtDown' \/ AtChan' \/ AtSender' \/ AtClient'
<1>1. CASE Select
  <2>1. UNCHANGED <<up, conn, cpc, sender>> /\ chan = None /\ chan' = None
        /\ hpc = "loop" /\ hpc' \in {"receive", "return"} /\ stop' = 0
    BY <1>1 DEF Select, CanStep, chanVars, HandlerFrame, clientVars
  <2>2. (AtUp' <=> AtUp) /\ (AtClient' <=> AtClient) /\ (AtSender' <=> AtSender)
        /\ ~AtChan' /\ ~AtHandler' /\ ~AtStop'
    BY <2>1 DEF AtUp, AtClient, AtSender, AtChan, AtHandler, AtStop, Carries
  <2>3. Msg("JobRestart") \in DownMessage /\ Msg("Ending") \in DownMessage
        /\ Msg("Ending").kind \notin TurnKinds
    BY MsgType DEF DownKinds, Msg, TurnKinds
  <2>4. CASE stop = 0
    <3>1. down' = down
      BY <1>1, <2>4 DEF Select
    <3> QED
      BY <2>1, <2>2, <3>1 DEF TurnInv, Exclusive, AtDown
  <2>5. CASE stop # 0
    <3>1. Deliver(Msg("JobRestart")) \/ Deliver(Msg("Ending"))
      BY <1>1, <2>5 DEF Select
    <3>2. AtStop /\ ~AtDown
      BY <2>5 DEF AtStop, TurnInv, Exclusive
    <3>3. AtMostOne(down', TurnKinds)
      BY <3>1, <3>2, <2>3, DeliverTurn DEF AtDown, TurnInv
    <3> QED
      BY <2>1, <2>2, <3>2, <3>3 DEF TurnInv, Exclusive
  <2> QED
    BY <2>4, <2>5
<1>2. CASE HandleJobInit \/ HandleJobCreate \/ HandleJobRestart \/ HandleBenchMark
           \/ HandleRestore
  <2>1. PICK k \in UpKinds : HandlerReceive(k)
    BY <1>2 DEF HandleJobInit, HandleJobCreate, HandleJobRestart, HandleBenchMark,
       HandleRestore, UpKinds
  <2>2. stop' = stop /\ hpc' \notin {"idle", "delete", "deleted"}
    BY <1>2 DEF HandleJobInit, HandleJobCreate, HandleJobRestart, HandleBenchMark,
       HandleRestore, InitTuned, InitFeatureSel
  <2>3. ~AtChan' \/ ~AtHandler'
    BY <1>2, <2>1, TurnReceived DEF HandleJobInit, HandleJobCreate, HandleJobRestart,
       HandleBenchMark, HandleRestore, AtHandler, AtChan, Carries
  <2> QED
    BY <2>1, <2>2, <2>3, TurnReceived DEF TurnInv, Exclusive, AtStop
<1>3. CASE HandlerEOF \/ Create \/ CreateFailed \/ Open \/ Opened \/ Evaluate
           \/ DeleteTask \/ Deleted \/ Return \/ Backup
  <2>1. UNCHANGED <<cpc, up, down, conn, chan, sender, stop>>
    BY <1>3 DEF HandlerEOF, Create, CreateFailed, Open, Opened, Evaluate, DeleteTask,
       Deleted, Return, Backup, OnlyLoop, HandlerFrame, clientVars, streamVars, chanVars
  <2>2. (AtHandler' => AtHandler) /\ hpc' # "idle"
        /\ (hpc' \in {"delete", "deleted"} => hpc \in {"delete", "deleted"})
    BY <1>3 DEF HandlerEOF, Create, CreateFailed, Open, Opened, Evaluate, DeleteTask,
       Deleted, Return, Backup, OnlyLoop, CanStep, AtHandler
  <2>3. (AtUp' <=> AtUp) /\ (AtDown' <=> AtDown) /\ (AtChan' <=> AtChan)
        /\ (AtSender' <=> AtSender) /\ (AtClient' <=> AtClient) /\ (AtStop' <=> AtStop)
    BY <2>1 DEF AtUp, AtDown, AtChan, AtSender, AtClient, AtStop
  <2> QED
    BY <2>1, <2>2, <2>3 DEF TurnInv, Exclusive
<1>4. CASE Created \/ Answer \/ Apply \/ Conclude
  <2>1. UNCHANGED <<cpc, up, down, conn, sender>> /\ chan = None /\ AtHandler
    BY <1>4 DEF Created, Answer, Apply, Conclude, HandlerFrame, clientVars, streamVars,
       CanStep, AtHandler
  <2>2. ~AtUp /\ ~AtDown /\ ~AtSender /\ ~AtClient /\ ~AtStop /\ Len(up') <= 1
    BY <2>1 DEF TurnInv, Exclusive
  <2>3. ~AtUp' /\ ~AtDown' /\ ~AtSender' /\ ~AtClient' /\ hpc' # "idle"
    BY <1>4, <2>1, <2>2 DEF AtUp, AtDown, AtSender, AtClient, Created, Answer, Apply,
       Conclude, OnlyLoop
  <2>4. AtChan' => ~AtHandler' /\ ~AtStop'
    BY <1>4, <2>1, <2>2 DEF AtChan, AtHandler, AtStop, Carries, Created, Answer, Apply,
       Conclude, OnlyLoop, Put_ch, Msg, MsgVal, TurnKinds
  <2>5. (AtHandler' => ~AtStop') /\ (hpc' \in {"delete", "deleted"} => AtStop')
    <3>1. CASE Conclude
      <4>1. \A sel, before, after : StopSignal(sel, before, after) # 0
        BY DEF StopSignal
      <4> QED
        BY <3>1, <4>1 DEF AtHandler, AtStop, Conclude
    <3>2. CASE ~Conclude
      <4>1. stop' = stop /\ hpc' \notin {"delete", "deleted"}
        BY <1>4, <3>2 DEF Created, Answer, Apply, OnlyLoop
      <4> QED
        BY <4>1, <2>2 DEF AtStop
    <3> QED
      BY <3>1, <3>2
  <2> QED
    BY <2>1, <2>2, <2>3, <2>4, <2>5 DEF TurnInv, Exclusive
<1>5. CASE Panic \/ Returned
  <2>1. /\ UNCHANGED <<cpc, down, stop>> /\ chan' = chan /\ sender' = None
        /\ up' \in {up, <<>>} /\ (conn' = "open" => conn = "open")
        /\ hpc' \in {"panic", "idle"} /\ chan = None
    BY <1>5 DEF Panic, Returned, OnlyLoop, CanStep, HandlerFrame, clientVars
  <2>2. (AtUp' => AtUp) /\ (AtDown' <=> AtDown) /\ ~AtChan' /\ ~AtSender'
        /\ (AtClient' => AtClient) /\ ~AtHandler' /\ (AtStop' <=> AtStop)
    BY <2>1 DEF AtUp, AtDown, AtChan, AtSender, AtClient, AtHandler, AtStop, Carries
  <2>3. Len(up') <= 1
    BY <2>1 DEF TurnInv
  <2> QED
    BY <2>1, <2>2, <2>3 DEF TurnInv, Exclusive
<1> QED
  BY <1>1, <1>2, <1>3, <1>4, <1>5 DEF Handler

LEMMA TurnStep ==
  TypeInv /\ TurnInv /\ [Next]_vars => TurnInv'
<1> SUFFICES ASSUME TypeInv, TurnInv, [Next]_vars PROVE TurnInv'
  OBVIOUS
<1>1. CASE Engine \/ Worker \/ Terminated \/ UNCHANGED vars
  <2>1. UNCHANGED <<cpc, streamVars, chanVars, loopVars>>
    BY <1>1 DEF Engine, Post, PostRefused, PutInit, Put, PutReply, Delete, Worker,
       WorkerAsk, WorkerTell, WorkerFinish, WorkerFail, WorkerDie, Terminated, vars,
       clientVars
  <2> QED
    BY <2>1, TurnKept
<1> QED
  BY <1>1, TurnStart, TurnClient, TurnSender, TurnHandler DEF Next

LEMMA InitTurn == Init => TurnInv
<1> SUFFICES ASSUME Init PROVE TurnInv
  OBVIOUS
<1>1. /\ up = <<>> /\ down = <<>> /\ chan = None /\ sender = None /\ hpc = "idle"
      /\ stop = 0 /\ cpc = "idle"
  BY DEF Init
<1> QED
  BY <1>1, ContainsEmpty DEF TurnInv, Exclusive, AtUp, AtDown, AtChan, AtSender, AtClient,
     AtHandler, AtStop, Carries

(* The exchange stays a ping-pong: never more than one evaluation is on    *)
(* its way between the search and the benchmark, for any interleaving of   *)
(* the handler, its sender goroutine, the client and the engine.           *)
THEOREM OneTurnAtATime == Spec => []OneTurn
<1>1. Init => TypeInv /\ TurnInv
  BY InitType, InitTurn
<1>2. TypeInv /\ TurnInv /\ [Next]_vars => (TypeInv /\ TurnInv)'
  BY NextType, TurnStep
<1>3. TypeInv /\ TurnInv => OneTurn
  <2> SUFFICES ASSUME TypeInv, TurnInv PROVE Turns <= 1
    BY DEF OneTurn
  <2>1. /\ Cardinality({}) = 0
        /\ \A x : Cardinality({x}) = 1
    BY FS_EmptySet, FS_Singleton
  <2>2. Cardinality(UpTurns) \in {0, 1} /\ (~AtUp => Cardinality(UpTurns) = 0)
    <3>1. DOMAIN up = {} \/ DOMAIN up = {1}
      <4> up \in Seq(UpMessage) /\ Len(up) <= 1
        BY DEF TypeInv, SharedTypeOK, TurnInv
      <4>1. DOMAIN up = 1 .. Len(up) /\ Len(up) \in {0, 1}
        <5>1. DOMAIN up = 1 .. Len(up) /\ Len(up) \in Nat
          OBVIOUS
        <5> QED
          BY <5>1
      <4>2. 1 .. 0 = {} /\ 1 .. 1 = {1}
        OBVIOUS
      <4> QED
        BY <4>1, <4>2
    <3>2. UpTurns = {} \/ UpTurns = {1}
      BY <3>1 DEF UpTurns
    <3>3. ~AtUp => UpTurns = {}
      BY DEF AtUp, UpTurns
    <3> QED
      BY <2>1, <3>2, <3>3
  <2>3. Cardinality(DownTurns) \in {0, 1} /\ (~AtDown => Cardinality(DownTurns) = 0)
    <3>1. \A i, j \in DownTurns : i = j
      BY DEF DownTurns, TurnInv, AtMostOne, TurnKinds
    <3>2. DownTurns = {} \/ \E i : DownTurns = {i}
      BY <3>1
    <3>3. ~AtDown => DownTurns = {}
      BY DEF AtDown, Contains, DownTurns, TurnKinds
    <3> QED
      BY <2>1, <3>2, <3>3
  <2>4. /\ One(IsTurn(chan)) = IF IsTurn(chan) THEN 1 ELSE 0
        /\ One(IsTurn(sender)) = IF IsTurn(sender) THEN 1 ELSE 0
        /\ One(cpc = "benchmark" /\ conn = "open") = IF AtClient THEN 1 ELSE 0
        /\ One(hpc \in {"evaluate", "answer", "apply"})
              = IF hpc \in {"evaluate", "answer", "apply"} THEN 1 ELSE 0
    BY DEF One, AtClient
  <2>5. (IsTurn(chan) => AtChan) /\ (IsTurn(sender) => AtSender)
        /\ (hpc \in {"evaluate", "answer", "apply"} => AtHandler)
    BY DEF IsTurn, AtChan, AtSender, AtHandler, Carries, TurnKinds
  <2>6. Exclusive
    BY DEF TurnInv
  <2> QED
    BY <2>2, <2>3, <2>4, <2>5, <2>6 DEF Turns, Exclusive
<1> QED
  BY <1>1, <1>2, <1>3, PTL DEF Spec

-----------------------------------------------------------------------------
(* What the steps of each process leave alone.                             *)

LEMMA ClientLeaves == ClientStep \/ Abort => ClientFrame
  BY DEF ClientStep, Abort, BaselineDone, RecvJobCreate, RecvJobInit, RecvJobRestart,
     RecvBenchMark, BenchMark, RecvThreshold, RecvResult, RecvEnding, RecvEOF

LEMMA StartLeaves ==
  Start => /\ hpc = "idle" /\ cpc' = "receive" /\ conn' = "open" /\ hpc' = "loop"
           /\ iter' = 0 /\ stop' = 0 /\ down' = <<>> /\ up' \in {<<Msg("JobInit")>>, <<Msg("Restore")>>}
           /\ UNCHANGED <<sysVars, chanVars, workerVars, engineVars, results>>
  BY DEF Start, StartTuning, StartRestore, StartSession

LEMMA SenderLeaves ==
  Sender => UNCHANGED <<sysVars, clientVars, loopVars, optVars, engineVars, workerVars,
                        historyVars, up, conn>>
  BY DEF Sender, SenderTake, SenderSend, HandlerFrame, streamVars

LEMMA HandlerLeaves ==
  Handler => HandlerFrame /\ chan = None /\ answer' = answer /\ UNCHANGED <<task, data, rows>>
  BY DEF Handler, HandlerFrame, Select, HandlerEOF, HandlerReceive, HandleJobInit,
     HandleJobCreate, HandleJobRestart, HandleBenchMark, HandleRestore, Backup, Create,
     Created, CreateFailed, Open, Opened, Evaluate, Answer, Apply, Conclude, Panic,
     DeleteTask, Deleted, Return, Returned, CanStep, optVars, engineVars, Request

LEMMA EngineLeaves ==
  Engine => /\ UNCHANGED <<sysVars, clientVars, streamVars, chanVars, loopVars, start, sessions>>
            /\ UNCHANGED <<iter, maxIter, filter, selected, skip, backedUp, content,
                           sumEval, evalBase, minEval, finalEval, taskURL>>
  BY DEF Engine, Post, PostRefused, PutInit, Put, PutReply, Delete, optVars, historyVars

LEMMA WorkerLeaves ==
  Worker => UNCHANGED <<sysVars, clientVars, streamVars, chanVars, loopVars, optVars,
                        engineVars, historyVars>>
  BY DEF Worker, WorkerAsk, WorkerTell, WorkerFinish, WorkerFail, WorkerDie

-----------------------------------------------------------------------------
(* Between two phases the search is gone and iter is 0.                    *)

MessageBegins ==
  \/ Contains(up, PhaseKinds)
  \/ Contains(down, {"JobCreate", "JobRestart"})
  \/ Carries(chan, {"JobCreate", "JobRestart"})
  \/ Carries(sender, {"JobCreate", "JobRestart"})

HandlerBegins ==
  \/ hpc \in {"backup", "create"} \/ (hpc = "created" /\ http # "ok")
  \/ AtStop /\ hpc \notin {"delete", "deleted"}
  \/ hpc = "deleted" /\ http = "ok"

LEMMA BeginningSplit == Beginning <=> MessageBegins \/ HandlerBegins
  BY DEF Beginning, MessageBegins, HandlerBegins

LEMMA BeginningTurn ==
  ASSUME TypeInv, MessageBegins
  PROVE  AtUp \/ AtDown \/ AtChan \/ AtSender
<1>1. Contains(up, PhaseKinds) => AtUp
  BY DEF Contains, AtUp
<1>2. Contains(down, {"JobCreate", "JobRestart"}) => AtDown
  BY DEF Contains, AtDown, TurnKinds
<1> QED
  BY <1>1, <1>2 DEF MessageBegins, AtChan, AtSender, Carries, TurnKinds

LEMMA PhaseClient ==
  ASSUME TypeInv, TurnInv, PhaseInv, ClientStep \/ Abort
  PROVE  PhaseInv'
<1> USE DEF TypeInv, SharedTypeOK
<1>1. UNCHANGED <<chan, sender, hpc, stop, http, iter, wpc>>
  BY ClientLeaves DEF ClientFrame, chanVars, loopVars, optVars, engineVars, workerVars
<1>2. (HandlerBegins' <=> HandlerBegins) /\ (AtStop' <=> AtStop)
  BY <1>1 DEF HandlerBegins, AtStop
<1>3. SUFFICES MessageBegins' => MessageBegins
  BY <1>1, <1>2, <1>3, BeginningSplit DEF PhaseInv, Beginning, MessageBegins, HandlerBegins
<1> DEFINE D == {"JobCreate", "JobRestart"}
<1>4. SUFFICES ASSUME Contains(up', PhaseKinds) \/ Contains(down', D) PROVE MessageBegins
  BY <1>1 DEF MessageBegins
<1>5. down # <<>> => /\ Contains(Tail(down), D) => Contains(down, D)
                     /\ Head(down).kind \in D => Contains(down, D)
  BY ContainsTail
<1>6. ASSUME NEW m \in UpMessage, Send(m), Contains(up', PhaseKinds), m.kind \notin PhaseKinds
      PROVE  Contains(up, PhaseKinds)
  BY <1>6, ContainsAppend DEF Send
<1>7. CASE BaselineDone
  BY <1>4, <1>7 DEF BaselineDone, streamVars, MessageBegins
<1>8. CASE RecvJobInit \/ RecvResult \/ RecvBenchMark
  BY <1>4, <1>8, <1>5 DEF RecvJobInit, RecvResult, RecvBenchMark, Receive, Consume, MessageBegins
<1>9. CASE RecvEnding \/ RecvEOF \/ Abort
  BY <1>4, <1>9, ContainsEmpty DEF RecvEnding, RecvEOF, Abort, Leave, MessageBegins
<1>10. CASE RecvJobCreate \/ RecvJobRestart
  BY <1>10, <1>5 DEF RecvJobCreate, RecvJobRestart, Receive, MessageBegins
<1>11. CASE RecvThreshold
  <2>1. MsgVal("BenchMark", ThresholdSum) \in UpMessage
        /\ MsgVal("BenchMark", ThresholdSum).kind \notin PhaseKinds
    BY MsgType, ConstAssumption DEF PhaseKinds, MsgVal
  <2> QED
    BY <1>4, <1>11, <2>1, <1>5, <1>6 DEF RecvThreshold, Receive, Consume, MessageBegins
<1>12. CASE BenchMark
  <2>1. \A e \in Evals : MsgVal("BenchMark", e) \in UpMessage
                         /\ MsgVal("BenchMark", e).kind \notin PhaseKinds
    BY MsgType, ConstAssumption DEF PhaseKinds, MsgVal
  <2> QED
    BY <1>4, <1>12, <2>1, <1>6, ContainsEmpty DEF BenchMark, Leave, MessageBegins
<1> QED
  BY <1>7, <1>8, <1>9, <1>10, <1>11, <1>12 DEF ClientStep

LEMMA PhaseSender ==
  ASSUME TypeInv, PhaseInv, Sender
  PROVE  PhaseInv'
<1> USE DEF TypeInv, SharedTypeOK, ServerTypeOK
<1>1. UNCHANGED <<up, hpc, stop, http, iter, wpc>>
  BY SenderLeaves DEF loopVars, optVars, engineVars, workerVars
<1>2. (HandlerBegins' <=> HandlerBegins) /\ (AtStop' <=> AtStop)
  BY <1>1 DEF HandlerBegins, AtStop
<1>3. SUFFICES MessageBegins' => MessageBegins
  BY <1>1, <1>2, <1>3, BeginningSplit DEF PhaseInv, Beginning, MessageBegins, HandlerBegins
<1>4. CASE SenderTake
  BY <1>1, <1>4 DEF SenderTake, MessageBegins, Carries, streamVars
<1>5. CASE SenderSend
  <2>1. sender \in DownMessage /\ sender' = None /\ chan' = chan /\ Deliver(sender) /\ sender # None
    BY <1>5 DEF SenderSend, Sent
  <2>2. \A K : Contains(down', K) => Contains(down, K) \/ sender.kind \in K
    BY <2>1, DeliverTurn
  <2> QED
    BY <1>1, <2>1, <2>2 DEF MessageBegins, Carries
<1> QED
  BY <1>4, <1>5 DEF Sender

LEMMA PhaseEngine ==
  ASSUME TypeInv, TaskInv, TurnInv, PhaseInv, Engine
  PROVE  PhaseInv'
<1> USE DEF PhaseInv
<1>1. UNCHANGED <<up, down, chan, sender, hpc, stop, iter>>
  BY EngineLeaves DEF streamVars, chanVars, loopVars
<1>2. (MessageBegins' <=> MessageBegins) /\ (AtStop' <=> AtStop)
  BY <1>1 DEF MessageBegins, AtStop, Carries
<1>3. HttpPhase
  BY DEF TypeInv, Control
<1>4. CASE Post
  <2>1. hpc = "created" /\ http' = "ok"
    BY <1>3, <1>4 DEF Post, HttpPhase
  <2>2. ~MessageBegins /\ ~AtStop
    BY <2>1, BeginningTurn DEF TurnInv, Exclusive, AtHandler
  <2>3. ~Beginning'
    BY <1>1, <1>2, <2>1, <2>2, BeginningSplit DEF Beginning, MessageBegins, HandlerBegins
  <2> QED
    BY <1>1, <1>2, <2>1, <2>2, <2>3
<1>5. CASE Delete
  <2>1. wpc' = "none"
    BY <1>5 DEF Delete, TaskInv
  <2>2. hpc \in {"deleted", "returned"}
    BY <1>3, <1>5 DEF Delete, HttpPhase
  <2>3. hpc = "deleted" => iter = 0
    BY DEF TurnInv
  <2>4. Beginning' => Beginning \/ hpc = "deleted"
    BY <1>1, <1>2, <2>2 DEF Beginning, MessageBegins
  <2> QED
    BY <1>1, <1>2, <2>1, <2>2, <2>3, <2>4
<1>6. CASE PostRefused \/ PutInit \/ Put \/ PutReply
  <2>1. wpc' = wpc /\ (hpc = "created" => http # "ok") /\ hpc # "deleted"
    BY <1>3, <1>6 DEF PostRefused, PutInit, Put, PutReply, HttpPhase, workerVars
  <2>2. Beginning' => Beginning
    BY <1>1, <1>2, <2>1 DEF Beginning, MessageBegins
  <2> QED
    BY <1>1, <1>2, <2>1, <2>2
<1> QED
  BY <1>4, <1>5, <1>6 DEF Engine

LEMMA PhaseHandler ==
  ASSUME TypeInv, TurnInv, PhaseInv, PipeInv, AskInv, Handler
  PROVE  PhaseInv'
<1> USE DEF PhaseInv
<1>0. wpc' = wpc
  BY HandlerLeaves DEF HandlerFrame, workerVars
<1>1. HttpPhase
  BY DEF TypeInv, Control
<1>2. CASE Select
  <2>1. hpc = "loop" /\ hpc' \in {"receive", "return"} /\ stop' = 0
        /\ UNCHANGED <<up, chan, sender, http, iter>>
    BY <1>2 DEF Select, CanStep, chanVars, engineVars, optVars
  <2>2. CASE stop = 0
    <3>1. down' = down
      BY <1>2, <2>2 DEF Select
    <3>2. MessageBegins' <=> MessageBegins
      BY <2>1, <3>1 DEF MessageBegins, Carries
    <3>3. Beginning' => Beginning
      BY <2>1, <3>2, BeginningSplit DEF Beginning, MessageBegins, AtStop
    <3> QED
      BY <1>0, <2>1, <3>3 DEF AtStop
  <2>3. CASE stop # 0
    <3>1. Beginning
      BY <2>1, <2>3 DEF Beginning, AtStop
    <3> QED
      BY <1>0, <2>1, <3>1
  <2> QED
    BY <2>2, <2>3
<1>3. CASE HandleJobInit \/ HandleJobCreate \/ HandleJobRestart
  <2>1. PICK k \in PhaseKinds : HandlerReceive(k)
    BY <1>3 DEF HandleJobInit, HandleJobCreate, HandleJobRestart, PhaseKinds
  <2>2. Contains(up, PhaseKinds)
    BY <2>1, ContainsTail DEF HandlerReceive, TypeInv, SharedTypeOK
  <2>3. Beginning
    BY <2>2 DEF Beginning
  <2>4. iter' = iter
    BY <1>3 DEF HandleJobInit, HandleJobCreate, HandleJobRestart
  <2> QED
    BY <1>0, <2>3, <2>4
<1>4. CASE HandleBenchMark \/ HandleRestore
  <2>1. PICK k : HandlerReceive(k)
    BY <1>4 DEF HandleBenchMark, HandleRestore
  <2>2. /\ stop' = stop /\ hpc' \in {"evaluate", "return"}
        /\ ~Carries(chan', {"JobCreate", "JobRestart"})
    BY <1>4, <2>1, TurnReceived DEF HandleBenchMark, HandleRestore, Put_ch, Msg, Carries
  <2>3. ~AtUp' /\ ~AtDown' /\ ~AtSender' /\ ~AtStop'
    BY <2>1, <2>2, TurnReceived DEF AtStop
  <2>4. ~MessageBegins'
    <3>1. ~Contains(up', PhaseKinds) /\ ~Contains(down', {"JobCreate", "JobRestart"})
          /\ ~Carries(sender', {"JobCreate", "JobRestart"})
      BY <2>3 DEF AtUp, AtDown, AtSender, Contains, Carries, TurnKinds
    <3> QED
      BY <2>2, <3>1 DEF MessageBegins
  <2> QED
    BY <2>2, <2>3, <2>4 DEF Beginning, MessageBegins
<1>5. CASE HandlerEOF \/ Return \/ Returned \/ Panic \/ DeleteTask \/ Deleted \/ CreateFailed
  <2>1. /\ UNCHANGED <<down, chan, stop, iter>> /\ up' \in {up, <<>>} /\ sender' \in {sender, None}
        /\ hpc' \notin {"backup", "create", "created", "open", "opened"}
        /\ hpc' = "deleted" => hpc = "delete" /\ http' = "delete"
        /\ hpc' # "delete"
        /\ hpc = "deleted" => http = "ok"
        /\ AtStop /\ hpc = "delete" => hpc' = "deleted"
    BY <1>5 DEF HandlerEOF, Return, Returned, Panic, DeleteTask, Deleted, CreateFailed,
       OnlyLoop, CanStep, streamVars, chanVars, optVars, Request
  <2>2. MessageBegins' => MessageBegins
    BY <2>1, ContainsEmpty DEF MessageBegins, Carries
  <2>3. Beginning' => Beginning
    BY <2>1, <2>2, BeginningSplit DEF Beginning, MessageBegins, HandlerBegins, AtStop
  <2> QED
    BY <1>0, <2>1, <2>3 DEF AtStop
<1>6. CASE Backup \/ Create
  <2>1. /\ UNCHANGED <<up, down, chan, sender, stop, iter>> /\ Beginning
    BY <1>6 DEF Backup, Create, CanStep, OnlyLoop, streamVars, chanVars, optVars, Beginning
  <2> QED
    BY <1>0, <2>1
<1>7. CASE Created \/ Open \/ Opened \/ Evaluate \/ Answer \/ Apply \/ Conclude
  <2>1. AtHandler
    BY <1>7 DEF Created, Open, Opened, Evaluate, Answer, Apply, Conclude, CanStep, AtHandler
  <2>2. ~AtUp /\ ~AtDown /\ ~AtSender /\ ~AtStop /\ UNCHANGED <<up, down, sender>>
    BY <1>7, <2>1 DEF TurnInv, Exclusive, Created, Open, Opened, Evaluate, Answer, Apply,
       Conclude, streamVars, chanVars
  <2>3. /\ ~Carries(chan', {"JobCreate", "JobRestart"})
        /\ hpc' \notin {"backup", "create", "created", "deleted"}
        /\ hpc' # "delete" => stop' = stop
        /\ hpc' \in {"open", "opened"} => hpc \in {"created", "open"} /\ iter' = iter
        /\ hpc' = "delete" => iter' = 0
    BY <1>7 DEF Created, Open, Opened, Evaluate, Answer, Apply, Conclude, OnlyLoop, CanStep,
       Put_ch, Msg, MsgVal, Carries, chanVars, optVars
  <2>4. ~MessageBegins'
    <3>1. ~Contains(up, PhaseKinds) /\ ~Contains(down, {"JobCreate", "JobRestart"})
          /\ ~Carries(sender, {"JobCreate", "JobRestart"})
      BY <2>2 DEF AtUp, AtDown, AtSender, Contains, Carries, TurnKinds
    <3> QED
      BY <2>2, <2>3, <3>1 DEF MessageBegins
  <2>5. ~Beginning'
    BY <2>2, <2>3, <2>4 DEF Beginning, MessageBegins, AtStop
  <2> QED
    BY <2>2, <2>3, <2>5 DEF AtStop
<1> QED
  BY <1>2, <1>3, <1>4, <1>5, <1>6, <1>7 DEF Handler

LEMMA PhaseStep ==
  ASSUME TypeInv, TaskInv, TurnInv, PhaseInv, PipeInv, AskInv, [Next]_vars
  PROVE  PhaseInv'
<1>1. CASE Start
  <2>1. wpc' = "none" /\ iter' = 0
    BY <1>1, StartLeaves DEF TaskInv, workerVars
  <2> QED
    BY <2>1 DEF PhaseInv
<1>2. CASE Worker
  <2>1. UNCHANGED <<up, down, chan, sender, stop, hpc, http, iter>> /\ wpc # "none"
    BY <1>2, WorkerLeaves DEF streamVars, chanVars, loopVars, optVars, engineVars, Worker,
       WorkerAsk, WorkerTell, WorkerFinish, WorkerFail, WorkerDie
  <2>2. ~Beginning /\ (Beginning' <=> Beginning)
    BY <2>1 DEF PhaseInv, Beginning, AtStop
  <2> QED
    BY <2>1, <2>2 DEF PhaseInv, AtStop
<1>3. CASE Terminated \/ UNCHANGED vars
  BY <1>3 DEF Terminated, vars, streamVars, chanVars, loopVars, optVars, engineVars,
     workerVars, PhaseInv, Beginning, AtStop, Carries
<1> QED
  BY <1>1, <1>2, <1>3, PhaseClient, PhaseSender, PhaseEngine, PhaseHandler DEF Next

-----------------------------------------------------------------------------
(* PipeInStep.                                                             *)

(* A message leaves a pipe that holds one at most.                         *)
LEMMA PipeTail ==
  ASSUME NEW S, NEW s \in Seq(S), s # <<>>, Len(s) <= 1
  PROVE  Tail(s) = <<>>
  OBVIOUS

LEMMA PipeAppend ==
  ASSUME NEW m
  PROVE  /\ Append(<<>>, m) # <<>> /\ Len(Append(<<>>, m)) = 1
         /\ Head(Append(<<>>, m)) = m
  OBVIOUS

LEMMA EmptyLen == Len(<<>>) = 0
  OBVIOUS

LEMMA PipeStep ==
  ASSUME TypeInv, TaskInv, TurnInv, PhaseInv, PipeInv, [Next]_vars
  PROVE  PipeInv'
<1> USE DEF PipeInv, Inflight, Window
<1>1. HttpPhase /\ toWorker \in Seq(Int) /\ fromWorker \in Seq(PipeMessage)
  BY DEF TypeInv, Control, ServiceTypeOK
<1>2. CASE ClientStep \/ Abort \/ Sender \/ Terminated \/ UNCHANGED vars
  <2>1. UNCHANGED <<wpc, toWorker, fromWorker, hpc, http, iter>>
    BY <1>2, ClientLeaves, SenderLeaves
       DEF ClientFrame, workerVars, loopVars, engineVars, optVars, Terminated, vars
  <2> QED
    BY <2>1
<1>3. CASE Start
  <2>1. ~Inflight /\ UNCHANGED <<wpc, toWorker, fromWorker>>
    BY <1>3, StartLeaves DEF workerVars
  <2> QED
    BY <2>1
<1>4. CASE Handler
  <2>1. UNCHANGED <<wpc, toWorker, fromWorker>>
    BY <1>4, HandlerLeaves DEF HandlerFrame, workerVars
  <2>2. SUFFICES ASSUME Inflight PROVE Window'
    BY <2>1
  <2>3. Window
    BY <2>2
  <2>4. Created \/ Open \/ Opened \/ Evaluate
    BY <1>1, <1>4, <2>3 DEF HttpPhase, Handler, Select, HandlerEOF, HandlerReceive,
       HandleJobInit, HandleJobCreate, HandleJobRestart, HandleBenchMark, HandleRestore,
       Backup, Create, CreateFailed, Answer, Apply, Conclude, Panic, DeleteTask, Deleted,
       Return, Returned, CanStep
  <2> QED
    BY <2>3, <2>4 DEF Created, Open, Opened, Evaluate, OnlyLoop, Request, CanStep, optVars
<1>5. CASE Engine
  <2>0. UNCHANGED <<hpc, iter>>
    BY <1>5, EngineLeaves DEF loopVars
  <2>1. CASE Post
    <3>1. hpc = "created" /\ iter = 0
      BY <1>1, <2>1 DEF Post, HttpPhase, PhaseInv
    <3> QED
      BY <2>0, <2>1, <3>1, EmptyLen DEF Post
  <2>2. CASE PostRefused \/ PutInit
    <3>1. UNCHANGED <<wpc, toWorker, fromWorker>> /\ http \in {"post", "putinit"}
      BY <2>2 DEF PostRefused, PutInit, workerVars
    <3>2. Inflight => hpc = "opened"
      BY <1>1, <3>1 DEF HttpPhase
    <3> QED
      BY <2>0, <3>1, <3>2
  <2>3. CASE Put
    <3>1. hpc = "answer" /\ http = "put" /\ http' = "recv"
          /\ UNCHANGED <<wpc, fromWorker>>
      BY <1>1, <2>3 DEF Put, HttpPhase
    <3>2. CASE iter = 0
      <4>1. toWorker' = toWorker
        BY <2>3, <3>2 DEF Put, SaveTuningData, TellWorker
      <4> QED
        BY <2>0, <3>1, <4>1
    <3>3. CASE iter # 0
      <4>1. ~Inflight /\ toWorker' = Append(toWorker, sumEval)
        BY <2>3, <3>1, <3>3 DEF Put, SaveTuningData, TellWorker
      <4>2. Len(toWorker') = 1 /\ fromWorker' = <<>> /\ wpc' # "search"
        BY <3>1, <4>1, PipeAppend
      <4> QED
        BY <2>0, <3>1, <4>2, EmptyLen
    <3> QED
      BY <3>2, <3>3
  <2>4. CASE PutReply
    <3>1. fromWorker # <<>> /\ fromWorker' = Tail(fromWorker) /\ UNCHANGED <<wpc, toWorker>>
      BY <2>4 DEF PutReply
    <3>2. fromWorker' = <<>> /\ toWorker' = <<>> /\ wpc' # "search"
      BY <1>1, <3>1, PipeTail
    <3> QED
      BY <3>2, EmptyLen
  <2>5. CASE Delete
    <3>1. wpc' = "none" /\ toWorker' = <<>> /\ fromWorker' = <<>>
      BY <2>5 DEF Delete, TaskInv
    <3> QED
      BY <3>1, EmptyLen
  <2> QED
    BY <1>5, <2>1, <2>2, <2>3, <2>4, <2>5 DEF Engine
<1>6. CASE Worker
  <2>0. UNCHANGED <<hpc, iter, http>>
    BY <1>6, WorkerLeaves DEF loopVars, optVars, engineVars
  <2>1. Window => Window'
    BY <2>0
  <2>2. CASE WorkerTell
    <3>1. toWorker # <<>> /\ toWorker' = Tail(toWorker) /\ UNCHANGED fromWorker
      BY <2>2 DEF WorkerTell
    <3>2. toWorker' = <<>> /\ fromWorker' = <<>>
      BY <1>1, <3>1, PipeTail
    <3> QED
      BY <2>1, <3>1, <3>2, EmptyLen
  <2>3. CASE WorkerAsk \/ WorkerFinish \/ WorkerFail
    <3>1. wpc = "search" /\ wpc' # "search" /\ toWorker' = toWorker
          /\ \E m : fromWorker' = Append(fromWorker, m)
      BY <2>3 DEF WorkerAsk, WorkerFinish, WorkerFail
    <3>2. toWorker' = <<>> /\ Len(fromWorker') = 1
      BY <3>1, PipeAppend
    <3> QED
      BY <2>1, <3>1, <3>2, EmptyLen
  <2>4. CASE WorkerDie
    BY <2>1, <2>4 DEF WorkerDie
  <2> QED
    BY <1>6, <2>2, <2>3, <2>4 DEF Worker
<1> QED
  BY <1>2, <1>3, <1>4, <1>5, <1>6 DEF Next

-----------------------------------------------------------------------------
(* What is asked is what is answered.                                      *)

(* The handler uses an answer that has come and no other.                  *)
LEMMA HandlerAnswer ==
  ASSUME Handler
  PROVE  AnswerUsed' => AnswerUsed
<1> USE DEF AnswerUsed
<1>1. CASE Answer
  BY <1>1 DEF Answer, CanStep, OnlyLoop
<1>2. CASE Evaluate
  BY <1>2 DEF Evaluate, OnlyLoop, Request
<1>3. CASE ~Answer /\ ~Evaluate
  BY <1>3 DEF Handler, Select, HandlerEOF, HandleJobInit, HandleJobCreate,
     HandleJobRestart, HandleBenchMark, InitTuned, InitFeatureSel,
     HandleRestore, Backup, Create, Created, CreateFailed, Open, Opened,
     Apply, Conclude, Panic, DeleteTask, Deleted, Return, Returned, OnlyLoop, CanStep
<1> QED
  BY <1>1, <1>2, <1>3

LEMMA AskStep ==
  ASSUME TypeInv, TaskInv, TurnInv, PhaseInv, PipeInv, AskInv, [Next]_vars
  PROVE  AskInv'
<1> USE DEF AskInv, AnswerUsed
<1>1. HttpPhase /\ AnswerKnown /\ toWorker \in Seq(Int) /\ fromWorker \in Seq(PipeMessage)
  BY DEF TypeInv, Control, ServiceTypeOK
<1>2. CASE ClientStep \/ Abort \/ Sender \/ Terminated \/ UNCHANGED vars
  <2>1. UNCHANGED <<wpc, asked, fromWorker, hpc, http, skip, answer>>
    BY <1>2, ClientLeaves, SenderLeaves
       DEF ClientFrame, workerVars, loopVars, engineVars, optVars, Terminated, vars
  <2> QED
    BY <2>1 DEF Active
<1>3. CASE Start
  <2>1. wpc' = "none" /\ UNCHANGED fromWorker /\ hpc' = "loop" /\ wpc = "none"
    BY <1>3, StartLeaves DEF TaskInv, workerVars
  <2> QED
    BY <2>1
<1>4. CASE Handler
  <2>1. UNCHANGED <<wpc, asked, fromWorker, answer>>
    BY <1>4, HandlerLeaves DEF HandlerFrame, workerVars
  <2>2. wpc = "objective" => skip' = skip
    <3>1. CASE HandleJobCreate \/ HandleJobRestart
      <4>1. PICK k \in PhaseKinds : HandlerReceive(k)
        BY <3>1 DEF HandleJobCreate, HandleJobRestart, PhaseKinds
      <4>2. Contains(up, PhaseKinds)
        BY <4>1, ContainsTail DEF HandlerReceive, TypeInv, SharedTypeOK
      <4>3. wpc = "none"
        BY <4>2 DEF Beginning, PhaseInv
      <4> QED
        BY <4>3
    <3>2. CASE Conclude
      BY <3>2 DEF Conclude, CanStep
    <3>3. CASE ~HandleJobCreate /\ ~HandleJobRestart /\ ~Conclude
      BY <1>4, <3>3 DEF Handler, Select, HandlerEOF, HandleJobInit, HandleBenchMark,
         HandleRestore, Backup, Create, Created, CreateFailed, Open, Opened, Evaluate,
         Answer, Apply, Panic, DeleteTask, Deleted, Return, Returned, optVars
    <3> QED
      BY <3>1, <3>2, <3>3
  <2>3. AnswerUsed' => AnswerUsed
    BY <1>4, HandlerAnswer
  <2>4. hpc' = "conclude" => AnswerUsed /\ answer.kind # "param"
    <3>1. hpc' = "conclude" => Apply
      BY <1>4 DEF Handler, Select, HandlerEOF, HandleJobInit, HandleJobCreate,
         HandleJobRestart, HandleBenchMark, InitTuned, InitFeatureSel, Answer, Evaluate,
         HandleRestore, Backup, Create, Created, CreateFailed, Open, Opened,
         Conclude, Panic, DeleteTask, Deleted, Return, Returned, OnlyLoop, CanStep
    <3> QED
      BY <3>1 DEF Apply, CanStep, OnlyLoop
  <2> QED
    BY <2>1, <2>2, <2>3, <2>4 DEF Active
<1>5. CASE Engine
  <2>0. UNCHANGED <<hpc, skip>>
    BY <1>5, EngineLeaves DEF loopVars
  <2>1. CASE Post
    <3>1. hpc = "created"
      BY <1>1, <2>1 DEF Post, HttpPhase
    <3> QED
      BY <2>0, <2>1, <3>1 DEF Post
  <2>2. CASE PostRefused \/ PutInit \/ Put
    <3>1. UNCHANGED <<wpc, asked, fromWorker, answer>> /\ (hpc = "answer" => http' # "ok")
      BY <1>1, <2>2 DEF PostRefused, PutInit, Put, workerVars, optVars, HttpPhase
    <3> QED
      BY <2>0, <3>1 DEF Active
  <2>3. CASE PutReply
    <3>1. /\ fromWorker # <<>> /\ fromWorker' = Tail(fromWorker) /\ UNCHANGED <<wpc, asked>>
          /\ hpc = "answer"
      BY <1>1, <2>3 DEF PutReply, HttpPhase
    <3>2. fromWorker' = <<>>
      BY <1>1, <3>1, PipeTail DEF PipeInv
    <3>3. http' = "ok" => answer' = Head(fromWorker)
      BY <2>3 DEF PutReply
    <3> QED
      BY <2>0, <3>1, <3>2, <3>3 DEF Active
  <2>4. CASE Delete
    <3>1. wpc' = "none" /\ fromWorker' = <<>> /\ hpc \in {"deleted", "returned"}
      BY <1>1, <2>4 DEF Delete, TaskInv, HttpPhase
    <3> QED
      BY <2>0, <3>1
  <2> QED
    BY <1>5, <2>1, <2>2, <2>3, <2>4 DEF Engine
<1>6. CASE Worker
  <2>0. UNCHANGED <<hpc, http, skip, answer>> /\ (wpc = "objective" => asked' = asked \/ WorkerTell)
    BY <1>6, WorkerLeaves DEF loopVars, optVars, engineVars, Worker, WorkerAsk, WorkerFinish,
       WorkerFail, WorkerDie
  <2>1. Inflight /\ ~AnswerUsed /\ hpc # "conclude"
    <3>1. Inflight
      BY <1>6 DEF Worker, WorkerAsk, WorkerTell, WorkerFinish, WorkerFail, WorkerDie, Inflight
    <3> QED
      BY <3>1 DEF PipeInv, Window
  <2>2. CASE WorkerAsk
    <3>1. PICK p \in [Active -> Values] :
            fromWorker' = Append(fromWorker, Proposal(p)) /\ asked' = p
      BY <2>2 DEF WorkerAsk
    <3>2. Head(fromWorker') = Proposal(p)
      BY <2>2, <3>1, PipeAppend DEF WorkerAsk, PipeInv
    <3> QED
      BY <2>0, <2>1, <2>2, <3>1, <3>2 DEF WorkerAsk, Proposal, Active
  <2>3. CASE WorkerTell
    <3>1. toWorker # <<>> /\ wpc' = "search" /\ fromWorker' = fromWorker
      BY <2>3 DEF WorkerTell
    <3> QED
      BY <2>0, <2>1, <3>1 DEF PipeInv
  <2>4. CASE WorkerFinish \/ WorkerFail
    <3>1. /\ wpc = "search" /\ wpc' = "done"
          /\ \E m : fromWorker' = Append(fromWorker, m) /\ m.kind # "param"
      BY <2>4 DEF WorkerFinish, WorkerFail, Solution, Exception
    <3>2. fromWorker = <<>>
      BY <3>1 DEF PipeInv
    <3>3. Head(fromWorker').kind # "param"
      BY <3>1, <3>2, PipeAppend
    <3> QED
      BY <2>0, <2>1, <3>1, <3>3
  <2>5. CASE WorkerDie
    BY <2>0, <2>1, <2>5 DEF WorkerDie, PipeInv
  <2> QED
    BY <1>6, <2>2, <2>3, <2>4, <2>5 DEF Worker
<1> QED
  BY <1>2, <1>3, <1>4, <1>5, <1>6 DEF Next

-----------------------------------------------------------------------------
(* MeasuredAsAsked.                                                        *)

LEMMA BenchTurn ==
  BenchOut => AtClient \/ AtDown \/ AtChan \/ AtSender
  BY DEF BenchOut, AtDown, AtChan, AtSender, Contains, Carries, TurnKinds

(* An assignment of the active knobs that was set is what they have.       *)
LEMMA SetHas ==
  ASSUME asked \in [Active -> Values], sys' = SetOn(asked, Active), asked' = asked
  PROVE  Has(sys, asked)'
<1>1. DOMAIN asked = Active /\ Active \subseteq Knobs
  BY DEF Active
<1>2. ASSUME NEW k \in Active PROVE sys'[k] = asked[k]
  BY <1>1, <1>2 DEF SetOn
<1> QED
  BY <1>1, <1>2 DEF Has

LEMMA BenchStep ==
  ASSUME TypeInv, TurnInv, PipeInv, AskInv, BenchInv, [Next]_vars
  PROVE  BenchInv'
<1>1. CASE ClientStep \/ Abort
  <2>1. UNCHANGED <<sys, wpc, asked, hpc, chan, sender>>
    BY <1>1, ClientLeaves DEF ClientFrame, sysVars, workerVars, loopVars, chanVars
  <2>2. SUFFICES conn' = "open" /\ BenchOut' => conn = "open" /\ BenchOut
    BY <2>1 DEF BenchInv, Has
  <2>3. down # <<>> => /\ Contains(Tail(down), {"BenchMark"}) => Contains(down, {"BenchMark"})
                       /\ Head(down).kind = "BenchMark" => Contains(down, {"BenchMark"})
    BY ContainsTail DEF TypeInv, SharedTypeOK
  <2>4. CASE conn' # "open"
    BY <2>4
  <2>5. CASE conn' = "open"
    <3>1. conn = "open" /\ (cpc' = "benchmark" => cpc = "benchmark" \/ RecvBenchMark)
          /\ (down' = down \/ (down # <<>> /\ down' = Tail(down)))
      BY <1>1, <2>5 DEF ClientStep, Abort, BaselineDone, RecvJobCreate, RecvJobInit,
         RecvJobRestart, BenchMark, RecvThreshold, RecvResult, RecvEnding,
         RecvEOF, Receive, Consume, Leave, streamVars, RecvBenchMark
    <3>2. RecvBenchMark => Contains(down, {"BenchMark"})
      BY <2>3 DEF RecvBenchMark, Receive
    <3> QED
      BY <2>1, <2>3, <3>1, <3>2 DEF BenchOut, AtClient, Carries
  <2> QED
    BY <2>4, <2>5
<1>2. CASE Start
  <2>1. ~BenchOut'
    BY <1>2, StartLeaves, ContainsEmpty DEF TurnInv, BenchOut, AtClient, Carries, chanVars
  <2> QED
    BY <2>1 DEF BenchInv
<1>3. CASE Sender
  <2>1. UNCHANGED <<sys, wpc, asked, hpc, conn, cpc>>
    BY <1>3, SenderLeaves DEF sysVars, workerVars, loopVars, clientVars
  <2>2. SUFFICES BenchOut' => BenchOut
    BY <2>1 DEF BenchInv, Has
  <2>3. CASE SenderTake
    BY <2>1, <2>3 DEF SenderTake, BenchOut, AtClient, Carries, streamVars
  <2>4. CASE SenderSend
    <3>1. sender \in DownMessage /\ sender' = None /\ chan' = chan /\ Deliver(sender) /\ sender # None
      BY <2>4 DEF SenderSend, Sent, TypeInv, ServerTypeOK
    <3>2. Contains(down', {"BenchMark"}) => Contains(down, {"BenchMark"}) \/ sender.kind \in {"BenchMark"}
      BY <3>1, DeliverTurn DEF TypeInv, SharedTypeOK
    <3> QED
      BY <2>1, <3>1, <3>2 DEF BenchOut, AtClient, Carries
  <2> QED
    BY <1>3, <2>3, <2>4 DEF Sender
<1>4. CASE Engine \/ Worker
  <2>1. UNCHANGED <<sys, hpc, conn, cpc, down, chan, sender>>
    BY <1>4, EngineLeaves, WorkerLeaves DEF sysVars, clientVars, streamVars, chanVars, loopVars
  <2>2. (BenchOut' <=> BenchOut)
    BY <2>1 DEF BenchOut, AtClient, Carries
  <2>3. SUFFICES ASSUME conn = "open", BenchOut PROVE FALSE
    BY <2>1, <2>2 DEF BenchInv
  <2>4. hpc \in {"loop", "receive"} /\ wpc = "objective"
    BY <2>3 DEF BenchInv
  <2>5. http = "none" /\ ~Inflight
    BY <2>4 DEF TypeInv, Control, HttpPhase, PipeInv, Window
  <2> QED
    BY <1>4, <2>4, <2>5 DEF Inflight, Engine, Post, PostRefused, PutInit, Put, PutReply,
       Delete, Worker, WorkerAsk, WorkerTell, WorkerFinish, WorkerFail, WorkerDie
<1>5. CASE Handler
  <2>1. UNCHANGED <<wpc, asked, cpc>> /\ chan = None
    BY <1>5, HandlerLeaves DEF HandlerFrame, workerVars, clientVars
  <2>2. CASE Apply
    <3>1. UNCHANGED <<down, sender, conn>> /\ AtHandler
      BY <2>2 DEF Apply, streamVars, CanStep, AtHandler
    <3>2. ~BenchOut
      BY <3>1, BenchTurn DEF TurnInv, Exclusive
    <3>3. CASE chan' = chan
      <4>1. ~BenchOut'
        BY <2>1, <3>1, <3>2, <3>3 DEF BenchOut, AtClient, Carries
      <4> QED
        BY <4>1 DEF BenchInv
    <3>4. CASE chan' # chan
      <4>1. sys' = SetOn(answer.param, Active) /\ answer.kind # "final" /\ hpc' = "loop"
        BY <2>2, <3>4 DEF Apply, OnlyLoop
      <4>2. answer.kind = "param"
        BY <2>2, <4>1 DEF Apply, CanStep, TypeInv, SharedTypeOK, Control, AnswerKnown,
           AnswerMessage
      <4>3. wpc = "objective" /\ answer.param = asked /\ asked \in [Active -> Values]
        BY <2>2, <4>2 DEF Apply, CanStep, AskInv, AnswerUsed
      <4>4. Has(sys, asked)'
        BY <2>1, <4>1, <4>3, SetHas
      <4> QED
        BY <2>1, <4>1, <4>3, <4>4 DEF BenchInv
    <3> QED
      BY <3>3, <3>4
  <2>3. CASE ~Apply
    <3>1. conn' = "open" => conn = "open"
      BY <1>5, <2>3 DEF Handler, Select, HandlerEOF, HandlerReceive, HandleJobInit,
         HandleJobCreate, HandleJobRestart, HandleBenchMark, HandleRestore, Backup,
         Create, Created, CreateFailed, Open, Opened, Evaluate, Answer, Conclude,
         Panic, DeleteTask, Deleted, Return, Returned, streamVars
    <3>2. ~Carries(chan', {"BenchMark"})
      BY <1>5, <2>1, <2>3 DEF Handler, Select, HandlerEOF, HandlerReceive, HandleJobInit,
         HandleJobCreate, HandleJobRestart, HandleBenchMark, HandleRestore, Backup,
         Create, Created, CreateFailed, Open, Opened, Evaluate, Answer, Conclude, Panic,
         DeleteTask, Deleted, Return, Returned, chanVars, Put_ch, Msg, MsgVal, Carries
    <3>3. sender' \in {sender, None} /\ (down' = down \/ Deliver(Msg("JobRestart")) \/ Deliver(Msg("Ending")))
      BY <1>5, <2>3 DEF Handler, Select, HandlerEOF, HandlerReceive, HandleJobInit,
         HandleJobCreate, HandleJobRestart, HandleBenchMark, HandleRestore, Backup,
         Create, Created, CreateFailed, Open, Opened, Evaluate, Answer, Conclude, Panic,
         DeleteTask, Deleted, Return, Returned, chanVars, streamVars
    <3>4. Contains(down', {"BenchMark"}) => Contains(down, {"BenchMark"})
      <4>1. /\ Msg("JobRestart") \in DownMessage /\ Msg("Ending") \in DownMessage
            /\ Msg("JobRestart").kind \notin {"BenchMark"} /\ Msg("Ending").kind \notin {"BenchMark"}
        BY MsgType DEF DownKinds, Msg
      <4> QED
        BY <3>3, <4>1, DeliverTurn DEF TypeInv, SharedTypeOK
    <3>5. conn' = "open" /\ BenchOut' => conn = "open" /\ BenchOut
      BY <2>1, <3>1, <3>2, <3>3, <3>4 DEF BenchOut, AtClient, Carries
    <3>6. SUFFICES ASSUME conn = "open", BenchOut PROVE sys' = sys /\ hpc' \in {"loop", "receive"}
      BY <2>1, <3>5 DEF BenchInv, Has
    <3>7. hpc \in {"loop", "receive"} /\ ~AtUp /\ ~AtStop
      BY <3>6, BenchTurn DEF BenchInv, TurnInv, Exclusive
    <3>8. Select
      BY <1>5, <2>3, <3>6, <3>7 DEF Handler, HandlerEOF, HandlerReceive, HandleJobInit,
         HandleJobCreate, HandleJobRestart, HandleBenchMark, HandleRestore, Backup,
         Create, Created, CreateFailed, Open, Opened, Evaluate, Answer, Conclude, Panic,
         DeleteTask, Deleted, Return, Returned, CanStep, AtUp
    <3> QED
      BY <3>7, <3>8 DEF Select, AtStop, sysVars
  <2> QED
    BY <2>2, <2>3
<1>6. CASE Terminated \/ UNCHANGED vars
  BY <1>6 DEF Terminated, vars, streamVars, chanVars, loopVars, clientVars, workerVars,
     sysVars, BenchInv, BenchOut, AtClient, Carries, Has
<1> QED
  BY <1>1, <1>2, <1>3, <1>4, <1>5, <1>6 DEF Next

-----------------------------------------------------------------------------
(* IterationsBounded.                                                      *)

(* The number of iterations of the task changes between two phases only.   *)
LEMMA ItersKept ==
  ASSUME TypeInv, PhaseInv, Handler
  PROVE  TaskIters' = TaskIters \/ (wpc = "none" /\ iter = 0 /\ iter' = iter)
<1>1. CASE HandleJobCreate \/ HandleJobRestart
  <2>1. PICK k \in PhaseKinds : HandlerReceive(k)
    BY <1>1 DEF HandleJobCreate, HandleJobRestart, PhaseKinds
  <2>2. Contains(up, PhaseKinds)
    BY <2>1, ContainsTail DEF HandlerReceive, TypeInv, SharedTypeOK
  <2> QED
    BY <1>1, <2>2 DEF Beginning, PhaseInv, HandleJobCreate, HandleJobRestart
<1>2. CASE ~HandleJobCreate /\ ~HandleJobRestart
  <2>1. UNCHANGED <<filter, maxIter>>
    BY <1>2 DEF Handler, Select, HandlerEOF, HandleJobInit, HandleBenchMark, HandleRestore,
       Backup, Create, Created, CreateFailed, Open, Opened, Evaluate, Answer, Apply,
       Conclude, Panic, DeleteTask, Deleted, Return, Returned, optVars
  <2> QED
    BY <2>1 DEF TaskIters
<1> QED
  BY <1>1, <1>2

LEMMA CountStep ==
  ASSUME TypeInv, TypeInv', TaskInv, TurnInv, PhaseInv, PipeInv, AskInv, CountInv,
         [Next]_vars
  PROVE  CountInv'
<1> USE DEF CountInv
<1>1. HttpPhase /\ AnswerKnown /\ WorkerTyped /\ iter \in Nat /\ left \in Nat
  BY DEF TypeInv, Control, ServiceTypeOK, ServerTypeOK
<1>2. TaskIters \in Nat /\ TaskIters' \in Nat /\ iter' \in Nat
  BY ConstAssumption DEF TypeInv, ServerTypeOK, TaskIters
<1>3. CASE ClientStep \/ Abort \/ Sender \/ Terminated \/ UNCHANGED vars
  <2>1. UNCHANGED <<iter, filter, maxIter, wpc, left, fromWorker, hpc, http>>
    BY <1>3, ClientLeaves, SenderLeaves
       DEF ClientFrame, workerVars, loopVars, engineVars, optVars, Terminated, vars
  <2> QED
    BY <2>1 DEF AnswerUsed, TaskIters
<1>4. CASE Start
  <2>1. wpc' = "none" /\ iter' = 0
    BY <1>4, StartLeaves DEF TaskInv, workerVars
  <2> QED
    BY <1>2, <2>1
<1>5. CASE Handler
  <2>1. UNCHANGED <<wpc, left, fromWorker>>
    BY <1>5, HandlerLeaves DEF HandlerFrame, workerVars
  <2>2. CASE TaskIters' # TaskIters
    BY <1>2, <1>5, <2>1, <2>2, ItersKept
  <2>3. CASE iter' = iter /\ TaskIters' = TaskIters
    BY <1>5, <2>1, <2>3, HandlerAnswer
  <2>4. CASE Apply /\ iter' = iter + 1 /\ TaskIters' = TaskIters
    <3>1. AnswerUsed /\ hpc = "apply" /\ hpc' = "loop" /\ answer.kind # "final"
      BY <1>1, <2>4 DEF Apply, CanStep, AnswerUsed, OnlyLoop
    <3>2. answer.kind = "param"
      BY <3>1 DEF AnswerKnown, AnswerMessage, TypeInv, SharedTypeOK, Control
    <3>3. wpc = "objective" /\ left > 0
      BY <1>1, <3>1, <3>2 DEF AskInv, WorkerTyped
    <3>4. iter + left <= TaskIters
      BY <3>1, <3>3
    <3>5. fromWorker = <<>> /\ ~AnswerUsed'
      BY <3>1 DEF PipeInv, Inflight, Window, AnswerUsed
    <3> QED
      BY <1>1, <1>2, <2>1, <2>4, <3>3, <3>4, <3>5
  <2>5. CASE Conclude /\ TaskIters' = TaskIters
    <3>1. wpc = "done" /\ iter' = 0
      BY <2>5 DEF Conclude, CanStep, AskInv
    <3> QED
      BY <1>2, <2>1, <3>1
  <2>6. iter' = iter \/ Conclude \/ (Apply /\ iter' = iter + 1)
    BY <1>5 DEF Handler, Select, HandlerEOF, HandleJobInit, HandleJobCreate,
       HandleJobRestart, HandleBenchMark, HandleRestore, Backup, Create, Created,
       CreateFailed, Open, Opened, Evaluate, Answer, Apply, Panic, DeleteTask, Deleted,
       Return, Returned, optVars
  <2> QED
    BY <2>2, <2>3, <2>4, <2>5, <2>6
<1>6. CASE Engine
  <2>1. UNCHANGED <<iter, hpc>> /\ TaskIters' = TaskIters
    BY <1>6, EngineLeaves DEF loopVars, TaskIters
  <2>2. CASE Post
    <3>1. iter = 0 /\ left' = TaskIters /\ wpc' = "search"
      BY <1>1, <2>2 DEF Post, HttpPhase, PhaseInv, Calls
    <3> QED
      BY <1>2, <2>1, <3>1
  <2>3. CASE PostRefused \/ PutInit \/ Put
    <3>1. UNCHANGED <<wpc, left, fromWorker>> /\ (hpc = "answer" => http' # "ok")
      BY <1>1, <2>3 DEF PostRefused, PutInit, Put, workerVars, HttpPhase
    <3> QED
      BY <2>1, <3>1 DEF AnswerUsed
  <2>4. CASE PutReply
    BY <2>1, <2>4 DEF PutReply
  <2>5. CASE Delete
    BY <2>1, <2>5 DEF Delete, TaskInv
  <2> QED
    BY <1>6, <2>2, <2>3, <2>4, <2>5 DEF Engine
<1>7. CASE Worker
  <2>1. UNCHANGED iter /\ TaskIters' = TaskIters
    BY <1>7, WorkerLeaves DEF optVars, TaskIters
  <2>2. CASE WorkerAsk
    BY <1>1, <1>2, <2>1, <2>2 DEF WorkerAsk
  <2>3. CASE WorkerTell
    BY <1>1, <1>2, <2>1, <2>3 DEF WorkerTell
  <2>4. CASE WorkerFinish \/ WorkerFail \/ WorkerDie
    BY <2>1, <2>4 DEF WorkerFinish, WorkerFail, WorkerDie
  <2> QED
    BY <1>7, <2>2, <2>3, <2>4 DEF Worker
<1> QED
  BY <1>3, <1>4, <1>5, <1>6, <1>7 DEF Next

-----------------------------------------------------------------------------
(* The invariants together are inductive.                                  *)
SafeInv == /\ TypeInv /\ TaskInv /\ TurnInv /\ PhaseInv
           /\ PipeInv /\ AskInv /\ BenchInv /\ CountInv

LEMMA SafeInit == Init => SafeInv
<1> SUFFICES ASSUME Init PROVE SafeInv
  OBVIOUS
<1>1. TypeInv /\ TaskInv /\ TurnInv
  BY InitType, InitTurn DEF Init, TaskInv
<1>2. PhaseInv
  BY DEF Init, PhaseInv, AtStop
<1>3. PipeInv /\ AskInv
  BY EmptyLen DEF Init, PipeInv, Inflight, AskInv, AnswerUsed
<1>4. BenchInv
  BY DEF Init, BenchInv
<1>5. CountInv
  BY DEF Init, CountInv, TaskIters
<1> QED
  BY <1>1, <1>2, <1>3, <1>4, <1>5 DEF SafeInv

LEMMA SafeStep == SafeInv /\ [Next]_vars => SafeInv'
<1> SUFFICES ASSUME SafeInv, [Next]_vars PROVE SafeInv'
  OBVIOUS
<1>1. TypeInv'
  BY NextType DEF SafeInv
<1>2. TaskInv'
  BY TaskStep DEF SafeInv
<1>3. TurnInv'
  BY TurnStep DEF SafeInv
<1>4. PhaseInv'
  BY PhaseStep DEF SafeInv
<1>5. PipeInv' /\ AskInv'
  BY PipeStep, AskStep DEF SafeInv
<1>6. BenchInv'
  BY BenchStep DEF SafeInv
<1>7. CountInv'
  BY <1>1, CountStep DEF SafeInv
<1> QED
  BY <1>1, <1>2, <1>3, <1>4, <1>5, <1>6, <1>7 DEF SafeInv

LEMMA SafeAlways == Spec => []SafeInv
  BY SafeInit, SafeStep, PTL DEF Spec

(* The pipe to the worker never holds two messages, in either direction.   *)
THEOREM PipeStaysInStep == Spec => []PipeInStep
<1>1. SafeInv => PipeInStep
  <2>1. PipeInv /\ toWorker \in Seq(Int) /\ fromWorker \in Seq(PipeMessage)
        => Len(toWorker) + Len(fromWorker) <= 1
    <3>1. toWorker \in Seq(Int) => Len(toWorker) \in Nat /\ (toWorker = <<>> => Len(toWorker) = 0)
      OBVIOUS
    <3>2. fromWorker \in Seq(PipeMessage)
          => Len(fromWorker) \in Nat /\ (fromWorker = <<>> => Len(fromWorker) = 0)
      OBVIOUS
    <3> QED
      BY <3>1, <3>2 DEF PipeInv
  <2> QED
    BY <2>1 DEF SafeInv, TypeInv, ServiceTypeOK, PipeInStep
<1> QED
  BY <1>1, SafeAlways, PTL

(* An evaluation is attributed to the parameters it was measured with.     *)
THEOREM EvaluationsMatch == Spec => []MeasuredAsAsked
<1>1. SafeInv => MeasuredAsAsked
  BY DEF SafeInv, BenchInv, BenchOut, AtClient, MeasuredAsAsked
<1> QED
  BY <1>1, SafeAlways, PTL

(* No search is asked for more evaluations than its task has.              *)
THEOREM IterationsKept == Spec => []IterationsBounded
<1>1. SafeInv => IterationsBounded
  BY DEF SafeInv, CountInv, IterationsBounded
<1> QED
  BY <1>1, SafeAlways, PTL
=============================================================================
