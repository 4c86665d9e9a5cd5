-------------------------- MODULE EngineTasksProofs --------------------------
(***************************************************************************)
(* What the tasks of the engine keep, for every value of the constants:    *)
(* the result of a search is the best of its evaluations, a page of a file *)
(* shows its rows exactly, abtest keeps the best of its sweeps, and what a *)
(* classification answers has the votes for it.                            *)
(***************************************************************************)
EXTENDS EngineTasks, SequenceLemmas

-----------------------------------------------------------------------------
(* Sequences and their smallest element                                    *)

\* The minimum of a sequence is in it and below it, and ArgMin is its place.
LEMMA ArgMinIsSmallest ==
  ASSUME NEW s, Sequence(s), s # <<>>, \A n \in 1..Len(s) : s[n] \in Int
  PROVE  /\ ArgMin(s) \in DOMAIN s
         /\ s[ArgMin(s)] = Minimum(s)
         /\ \A n \in DOMAIN s : s[ArgMin(s)] <= s[n]
<1>0. Len(s) \in Nat /\ DOMAIN s = 1..Len(s) /\ Len(s) > 0
  <2>1. Len(s) \in Nat /\ DOMAIN s = 1..Len(s)
    BY AppendSequence
  <2>2. Len(s) # 0
    BY DEF Sequence
  <2> QED
    BY <2>1, <2>2
<1>1. PICK i \in 1..Len(s) : \A j \in 1..Len(s) : s[i] <= s[j]
  BY <1>0, SmallestElement
<1>2. Minimum(s) \in ToSet(s) /\ \A y \in ToSet(s) : Minimum(s) <= y
  <2>1. s[i] \in ToSet(s) /\ \A y \in ToSet(s) : s[i] <= y
    BY <1>0, <1>1 DEF ToSet
  <2> QED
    BY <2>1 DEF Minimum, Min
<1> DEFINE P == {n \in DOMAIN s : s[n] = Minimum(s)}
<1>3. P # {} /\ P \subseteq Nat
  BY <1>0, <1>2 DEF ToSet
<1>4. PICK m \in P : \A n \in P : m <= n
  BY <1>3, LeastNumber
<1>5. ArgMin(s) \in P
  <2> HIDE DEF P
  <2>1. Min(P) \in P
    BY <1>4 DEF Min
  <2> QED
    BY <2>1 DEF ArgMin, P
<1> QED
  BY <1>0, <1>2, <1>5 DEF ToSet

-----------------------------------------------------------------------------
(* The evaluations of a worker                                             *)

SearchFields ==
    {"engine", "knobs", "sel", "steady", "lives", "done", "pc", "announced", "plan",
     "calls", "asked", "options", "perf", "knob", "best", "fitting", "missing",
     "final", "lowest", "difference", "rank"}

LogInv == Sequence(log) /\ \A n \in 1..Len(log) : log[n].value \in Int

\* The settings and evaluations of the worker are the last of the log.
OwnInv ==
    /\ DOMAIN w = SearchFields
    /\ Sequence(w.options) /\ Sequence(w.perf)
    /\ Len(w.options) = Len(w.perf) /\ Len(w.perf) <= Len(log)
    /\ \A n \in 1..Len(w.perf) :
          /\ w.perf[n] \in Int
          /\ log[Len(log) - Len(w.perf) + n].setting = w.options[n]
          /\ log[Len(log) - Len(w.perf) + n].value = w.perf[n]

\* What is reported was computed of all of them.
FinalInv ==
    w.pc \in {"select", "rank", "done"} =>
        /\ w.perf # <<>> \/ w.engine = "ppo"
        /\ \E cut \in Cuts : w.final = Report(cut)

SearchInv == LogInv /\ OwnInv /\ FinalInv

\* What the steps other than an evaluation and the start of a worker leave alone.
SameEvaluations ==
    /\ DOMAIN w' = SearchFields
    /\ log' = log /\ w'.options = w.options /\ w'.perf = w.perf
    /\ w'.engine = w.engine /\ w'.knobs = w.knobs /\ w'.steady = w.steady

\* The steps that do neither.
Fails == RolloutFails \/ NothingDone \/ SelectionFails
OtherStep ==
    \/ StartABtest \/ StartGridsearch \/ StartTraverse \/ StartSampling \/ StartModel
    \/ Ask \/ Finish \/ RankTraversed \/ (\E r \in Regressors : RegressorEnds(r))
    \/ Select \/ Fails

\* A failure ends the worker, or leaves it without what a regressor should put.
LEMMA FailureSteps ==
  ASSUME DOMAIN w = SearchFields, Fails
  PROVE  /\ SameEvaluations /\ w'.best = w.best /\ w'.final = w.final
         /\ w'.announced = w.announced /\ w'.done = w.done /\ w'.rank = w.rank
         /\ \/ w.pc = "search" /\ w.calls = w'.calls /\ w'.pc \in {"error", "crashed"}
            \/ w.pc = "select" /\ w'.pc \in {"select", "crashed"}
<1>1. CASE RolloutFails
  BY <1>1 DEF RolloutFails, SameEvaluations, SearchFields
<1>2. CASE NothingDone
  <2>1. PICK pc \in {"error", "crashed"} : w' = [w EXCEPT !.pc = pc] /\ log' = log
    BY <1>2 DEF NothingDone
  <2>2. w.pc = "search"
    BY <1>2 DEF NothingDone, SearchOver
  <2> QED
    BY <2>1, <2>2 DEF SameEvaluations, SearchFields
<1>3. CASE \E r \in Regressors : RegressorFails(r)
  BY <1>3 DEF RegressorFails, SameEvaluations, SearchFields
<1>4. CASE SelectionRaises
  BY <1>4 DEF SelectionRaises, SameEvaluations, SearchFields
<1> QED
  BY <1>1, <1>2, <1>3, <1>4 DEF Fails, SelectionFails

LEMMA FinishReports ==
  ASSUME DOMAIN w = SearchFields, Finish
  PROVE  /\ DOMAIN w' = SearchFields /\ log' = log
         /\ w'.options = w.options /\ w'.perf = w.perf /\ w'.engine = w.engine
         /\ w'.knobs = w.knobs /\ w'.steady = w.steady /\ w'.best = w.best
         /\ w.pc = "search" /\ w.plan = <<>> /\ w.calls = 0
         /\ w.perf # <<>> \/ w.engine = "ppo"
         /\ w'.pc \in {"rank", "done", "select"} /\ w'.calls = w.calls
         /\ \E cut \in Cuts : w'.final = Report(cut)
<1>1. PICK cut \in Cuts :
         \/ w' = [w EXCEPT !.pc = "rank", !.final = Report(cut),
                           !.lowest = Lowest(w.knobs, w.perf),
                           !.difference = Difference(w.knobs, w.perf)]
         \/ w' = [w EXCEPT !.pc = "done", !.final = Report(cut)]
         \/ w' = [w EXCEPT !.pc = "select", !.final = Report(cut),
                           !.fitting = IF w.sel = "wefs" THEN Regressors ELSE {}]
  BY DEF Finish
<1>2. /\ w.pc = "search" /\ w.plan = <<>> /\ w.calls = 0 /\ log' = log
      /\ w.perf # <<>> \/ w.engine = "ppo"
  BY DEF Finish, SearchOver
<1> DEFINE report == Report(cut)
           lowest == Lowest(w.knobs, w.perf)
           difference == Difference(w.knobs, w.perf)
           fitting == IF w.sel = "wefs" THEN Regressors ELSE {}
<1> HIDE DEF report, lowest, difference, fitting
<1>3. CASE w' = [w EXCEPT !.pc = "rank", !.final = report, !.lowest = lowest,
                          !.difference = difference]
  <2>1. w'.final = report /\ w'.pc = "rank"
    BY <1>3 DEF SearchFields
  <2> QED
    BY <1>2, <1>3, <2>1 DEF SearchFields, report
<1>4. CASE w' = [w EXCEPT !.pc = "done", !.final = report]
  BY <1>2, <1>4 DEF SearchFields, report
<1>5. CASE w' = [w EXCEPT !.pc = "select", !.final = report, !.fitting = fitting]
  BY <1>2, <1>5 DEF SearchFields, report
<1> QED
  BY <1>1, <1>3, <1>4, <1>5 DEF report, lowest, difference, fitting

LEMMA OtherSteps ==
  ASSUME DOMAIN w = SearchFields, OtherStep
  PROVE  SameEvaluations
<1>1. CASE StartABtest
  BY <1>1 DEF StartABtest, SameEvaluations, SearchFields
<1>2. CASE StartGridsearch
  BY <1>2 DEF StartGridsearch, SameEvaluations, SearchFields
<1>3. CASE StartTraverse
  BY <1>3 DEF StartTraverse, SameEvaluations, SearchFields
<1>4. CASE StartSampling
  BY <1>4 DEF StartSampling, SameEvaluations, SearchFields
<1>5. CASE StartModel
  <2>1. CASE w' = [w EXCEPT !.pc = "error"]
    BY <1>5, <2>1 DEF StartModel, SameEvaluations, SearchFields
  <2>2. ASSUME NEW c, w' = [w EXCEPT !.pc = "search", !.calls = c]
        PROVE  SameEvaluations
    BY <1>5, <2>2 DEF StartModel, SameEvaluations, SearchFields
  <2> QED
    BY <1>5, <2>1, <2>2 DEF StartModel
<1>6. CASE Ask
  BY <1>6, ZenonT(60) DEF Ask, SameEvaluations, SearchFields
<1>7. CASE Finish
  BY <1>7, FinishReports DEF SameEvaluations
<1>8. CASE RankTraversed
  <2>1. PICK r : w' = [w EXCEPT !.pc = "done", !.rank = r] /\ log' = log
    BY <1>8 DEF RankTraversed
  <2> QED
    BY <2>1 DEF SameEvaluations, SearchFields
<1>9. CASE \E r \in Regressors : RegressorEnds(r)
  BY <1>9 DEF RegressorEnds, SameEvaluations, SearchFields
<1>10. CASE Select
  BY <1>10 DEF Select, SameEvaluations, SearchFields
<1>11. CASE Fails
  BY <1>11, FailureSteps
<1> QED
  BY <1>1, <1>2, <1>3, <1>4, <1>5, <1>6, <1>7, <1>8, <1>9, <1>10, <1>11 DEF OtherStep

\* A new worker has made no evaluation.
LEMMA NewWorkerFields ==
  ASSUME NEW t, NEW done
  PROVE  /\ DOMAIN NewWorker(t, done) = SearchFields
         /\ NewWorker(t, done).options = <<>> /\ NewWorker(t, done).perf = <<>>
         /\ NewWorker(t, done).pc = "start"
BY DEF NewWorker, SearchFields

LEMMA NewWorkerStep ==
  ASSUME SearchInv, (\E t \in Tasks : CreateTask(t)) \/ Lose
  PROVE  /\ SearchInv'
         /\ log' = log /\ w'.options = <<>> /\ w'.perf = <<>> /\ w'.pc = "start"
         /\ \E t, done : w' = NewWorker(t, done)
<1>1. PICK t, done : w' = NewWorker(t, done) /\ log' = log
  BY DEF CreateTask, Lose
<1>2. /\ DOMAIN w' = SearchFields /\ w'.options = <<>> /\ w'.perf = <<>>
      /\ w'.pc = "start"
  BY <1>1, NewWorkerFields
<1>3. Len(log) \in Nat
  BY AppendSequence DEF SearchInv, LogInv
<1>4. OwnInv'
  BY <1>1, <1>2, <1>3, EmptySequence DEF OwnInv
<1>5. LogInv' /\ FinalInv'
  BY <1>1, <1>2 DEF SearchInv, LogInv, FinalInv
<1> QED
  BY <1>1, <1>2, <1>4, <1>5 DEF SearchInv

\* What an evaluation does to the record of the worker.
LEMMA TellFields ==
  ASSUME SearchInv, NEW v \in Values, Tell(v)
  PROVE  /\ DOMAIN w' = SearchFields
         /\ w'.perf = Append(w.perf, v) /\ w'.options = Append(w.options, w.asked)
         /\ log' = Append(log, [setting |-> w.asked, value |-> v])
         /\ w'.engine = w.engine /\ w'.knobs = w.knobs /\ w'.steady = w.steady
         /\ w'.pc = "search" /\ w'.calls = w.calls
         /\ IF w.engine = "abtest" /\ w.plan = <<>>
            THEN LET next == NextSweep(Append(w.perf, v))
                 IN  w'.best = next.best /\ w'.knob = next.knob /\ w'.plan = next.plan
            ELSE w'.best = w.best /\ w'.knob = w.knob /\ w'.plan = w.plan
<1> DEFINE told == [w EXCEPT !.pc = "search", !.perf = Append(w.perf, v),
                             !.options = Append(w.options, w.asked)]
           next == NextSweep(Append(w.perf, v))
<1>1. /\ log' = Append(log, [setting |-> w.asked, value |-> v])
      /\ w' = IF w.engine = "abtest" /\ w.plan = <<>>
              THEN [told EXCEPT !.best = next.best, !.knob = next.knob, !.plan = next.plan]
              ELSE told
  BY DEF Tell
<1>2. DOMAIN w = SearchFields
  BY DEF SearchInv, OwnInv
<1> HIDE DEF next
<1>3. CASE w.engine = "abtest" /\ w.plan = <<>>
  <2>1. w' = [told EXCEPT !.best = next.best, !.knob = next.knob, !.plan = next.plan]
    BY <1>1, <1>3
  <2> QED
    BY <1>1, <1>2, <1>3, <2>1 DEF SearchFields, next
<1>4. CASE ~(w.engine = "abtest" /\ w.plan = <<>>)
  <2>1. w' = told
    BY <1>1, <1>4
  <2> QED
    BY <1>1, <1>2, <1>4, <2>1 DEF SearchFields
<1> QED
  BY <1>3, <1>4

LEMMA TellStep ==
  ASSUME SearchAssumption, SearchInv, NEW v \in Values, Tell(v)
  PROVE  SearchInv'
<1> DEFINE e == [setting |-> w.asked, value |-> v]
<1>1. /\ DOMAIN w' = SearchFields /\ w'.pc = "search"
      /\ w'.perf = Append(w.perf, v) /\ w'.options = Append(w.options, w.asked)
      /\ log' = Append(log, e)
  BY TellFields
<1>2. v \in Int
  BY DEF SearchAssumption
<1>3. /\ Sequence(log) /\ Sequence(w.options) /\ Sequence(w.perf)
      /\ Len(w.options) = Len(w.perf) /\ Len(w.perf) <= Len(log)
  BY DEF SearchInv, LogInv, OwnInv
<1>4. /\ Sequence(log') /\ Len(log) \in Nat /\ Len(log') = Len(log) + 1
      /\ log'[Len(log) + 1].setting = w.asked /\ log'[Len(log) + 1].value = v
      /\ \A n \in 1..Len(log) : log'[n] = log[n]
  BY <1>1, <1>3, AppendSequence
<1>5. /\ Sequence(w.perf') /\ Len(w.perf) \in Nat /\ Len(w.perf') = Len(w.perf) + 1
      /\ w.perf'[Len(w.perf) + 1] = v
      /\ \A n \in 1..Len(w.perf) : w.perf'[n] = w.perf[n]
  BY <1>1, <1>3, AppendSequence
<1>6. /\ Sequence(w.options') /\ Len(w.options') = Len(w.perf) + 1
      /\ w.options'[Len(w.perf) + 1] = w.asked
      /\ \A n \in 1..Len(w.perf) : w.options'[n] = w.options[n]
  BY <1>1, <1>3, AppendSequence
<1>7. LogInv'
  <2> SUFFICES ASSUME NEW n \in 1..Len(log) + 1 PROVE log'[n].value \in Int
    BY <1>4 DEF LogInv
  <2>1. CASE n = Len(log) + 1
    BY <1>2, <1>4, <2>1
  <2>2. CASE n \in 1..Len(log)
    BY <1>4, <2>2 DEF SearchInv, LogInv
  <2> QED
    BY <1>4, <2>1, <2>2
<1>8. OwnInv'
  <2> DEFINE p == Len(w.perf)
             l == Len(log)
  <2>0. p \in Nat /\ l \in Nat /\ p <= l
    BY <1>3, <1>4, <1>5
  <2>1. ASSUME NEW n \in 1..p + 1
        PROVE  /\ w.perf'[n] \in Int
               /\ log'[l + 1 - (p + 1) + n].setting = w.options'[n]
               /\ log'[l + 1 - (p + 1) + n].value = w.perf'[n]
    <3>1. CASE n = p + 1
      <4>1. l + 1 - (p + 1) + n = l + 1
        BY <2>0, <3>1
      <4> QED
        BY <1>2, <1>4, <1>5, <1>6, <3>1, <4>1
    <3>2. CASE n \in 1..p
      <4>1. l + 1 - (p + 1) + n = l - p + n /\ l - p + n \in 1..l
        BY <2>0, <3>2
      <4>2. /\ w.perf[n] \in Int
            /\ log[l - p + n].setting = w.options[n]
            /\ log[l - p + n].value = w.perf[n]
        BY <3>2 DEF SearchInv, OwnInv
      <4>3. /\ log'[l - p + n] = log[l - p + n] /\ w.perf'[n] = w.perf[n]
            /\ w.options'[n] = w.options[n]
        BY <1>4, <1>5, <1>6, <3>2, <4>1
      <4> QED
        BY <4>1, <4>2, <4>3
    <3> QED
      BY <2>0, <3>1, <3>2
  <2>2. /\ Len(w.options') = Len(w.perf') /\ Len(w.perf') = p + 1
        /\ Len(log') = l + 1 /\ Len(w.perf') <= Len(log')
    BY <1>4, <1>5, <1>6, <2>0
  <2> DEFINE perf == w.perf'
             options == w.options'
             told == log'
  <2> HIDE DEF p, l, perf, options, told
  <2>9. \A n \in 1..Len(perf) :
           /\ perf[n] \in Int
           /\ told[Len(told) - Len(perf) + n].setting = options[n]
           /\ told[Len(told) - Len(perf) + n].value = perf[n]
    <3>1. Len(perf) = p + 1 /\ Len(told) = l + 1
      BY <2>2 DEF perf, told
    <3>2. \A n \in 1..p + 1 :
             /\ perf[n] \in Int
             /\ told[l + 1 - (p + 1) + n].setting = options[n]
             /\ told[l + 1 - (p + 1) + n].value = perf[n]
      BY <2>1 DEF perf, options, told
    <3> QED
      BY <2>0, <3>1, <3>2
  <2>3. \A n \in 1..Len(w.perf') :
           /\ w.perf'[n] \in Int
           /\ log'[Len(log') - Len(w.perf') + n].setting = w.options'[n]
           /\ log'[Len(log') - Len(w.perf') + n].value = w.perf'[n]
    BY <2>9 DEF perf, options, told
  <2> QED
    BY <1>1, <1>5, <1>6, <2>2, <2>3 DEF OwnInv
<1>9. FinalInv'
  BY <1>1 DEF FinalInv
<1> QED
  BY <1>7, <1>8, <1>9 DEF SearchInv

\* The result is computed when the search is over, and nothing it depends on
\* changes afterwards.
LEMMA OtherStepsKeepSearchInv ==
  ASSUME SearchInv, OtherStep
  PROVE  SearchInv'
<1>1. SameEvaluations
  BY OtherSteps DEF SearchInv, OwnInv
<1>2. LogInv' /\ OwnInv'
  BY <1>1 DEF SameEvaluations, SearchInv, LogInv, OwnInv
<1>3. Cuts' = Cuts /\ \A cut : Report(cut)' = Report(cut)
  <2>1. BestParams' = BestParams
    BY <1>1 DEF SameEvaluations, BestParams
  <2> QED
    BY <1>1, <2>1 DEF SameEvaluations, Cuts, Report
<1>4. FinalInv'
  <2>0. DOMAIN w = SearchFields
    BY DEF SearchInv, OwnInv
  <2>1. CASE Finish
    BY <1>1, <1>3, <2>0, <2>1, FinishReports DEF FinalInv, SameEvaluations
  <2>2. CASE w'.pc \in {"search", "error", "objective", "crashed"}
    BY <2>2 DEF FinalInv
  <2>3. CASE w.pc \in {"select", "rank"} /\ w'.final = w.final
    BY <1>1, <1>3, <2>3 DEF FinalInv, SearchInv, SameEvaluations
  <2>4. ASSUME StartABtest \/ StartGridsearch \/ StartTraverse \/ StartSampling
        PROVE  w'.pc \in {"search", "error", "objective"}
    BY <2>0, <2>4 DEF StartABtest, StartGridsearch, StartTraverse, StartSampling, SearchFields
  <2>5. ASSUME StartModel PROVE w'.pc \in {"search", "error", "objective"}
    <3>1. CASE w' = [w EXCEPT !.pc = "error"]
      BY <2>0, <3>1 DEF SearchFields
    <3>2. ASSUME NEW c, w' = [w EXCEPT !.pc = "search", !.calls = c]
          PROVE  w'.pc = "search"
      BY <2>0, <3>2 DEF SearchFields
    <3> QED
      BY <2>5, <3>1, <3>2 DEF StartModel
  <2>6. ASSUME Ask PROVE w'.pc \in {"search", "error", "objective"}
    BY <2>0, <2>6 DEF Ask, SearchFields
  <2>7. ASSUME RankTraversed PROVE w.pc \in {"select", "rank"} /\ w'.final = w.final
    <3>1. PICK r : w' = [w EXCEPT !.pc = "done", !.rank = r] /\ w.pc = "rank"
      BY <2>7 DEF RankTraversed
    <3> QED
      BY <2>0, <3>1 DEF SearchFields
  <2>8. ASSUME NEW r \in Regressors, RegressorEnds(r)
        PROVE  w.pc \in {"select", "rank"} /\ w'.final = w.final
    BY <2>0, <2>8 DEF RegressorEnds, SearchFields
  <2>9. ASSUME Select PROVE w.pc \in {"select", "rank"} /\ w'.final = w.final
    BY <2>0, <2>9 DEF Select, SearchFields
  <2>10. ASSUME Fails
         PROVE  \/ w'.pc \in {"error", "crashed"}
                \/ w.pc \in {"select", "rank"} /\ w'.final = w.final
    BY <2>0, <2>10, FailureSteps
  <2> QED
    BY <2>1, <2>2, <2>3, <2>4, <2>5, <2>6, <2>7, <2>8, <2>9, <2>10 DEF OtherStep
<1> QED
  BY <1>2, <1>4 DEF SearchInv

LEMMA SearchInvInit == ASSUME SearchInit PROVE SearchInv
<1>1. /\ DOMAIN NewWorker(Idle, 0) = SearchFields
      /\ NewWorker(Idle, 0).options = <<>> /\ NewWorker(Idle, 0).perf = <<>>
  BY NewWorkerFields
<1> DEFINE new == NewWorker(Idle, 0)
<1>2. w = [new EXCEPT !.pc = "idle"] /\ log = <<>>
  BY DEF SearchInit
<1> HIDE DEF new
<1>3. DOMAIN w = SearchFields /\ w.options = <<>> /\ w.perf = <<>> /\ w.pc = "idle"
  BY <1>1, <1>2 DEF SearchFields, new
<1> QED
  BY <1>2, <1>3, EmptySequence DEF SearchInv, LogInv, OwnInv, FinalInv

LEMMA SearchInvStep ==
  ASSUME SearchAssumption, SearchInv, [EngineNext]_engineVars
  PROVE  SearchInv'
<1>1. CASE SearchNext
  <2>1. CASE (\E t \in Tasks : CreateTask(t)) \/ Lose
    BY <2>1, NewWorkerStep
  <2>2. CASE \E v \in Values : Tell(v)
    BY <2>2, TellStep
  <2> QED
    BY <1>1, <2>1, <2>2, OtherStepsKeepSearchInv DEF SearchNext, WorkerStep, OtherStep, Fails
<1>2. CASE UNCHANGED searchVars
  BY <1>2 DEF searchVars, SearchInv, LogInv, OwnInv, FinalInv, BestParams, Cuts, Report
<1> QED
  BY <1>1, <1>2 DEF EngineNext, SearchTask, FilesTask, ModelsTask, engineVars

(* The settings and evaluations of a worker are the last of its log, across *)
(* restarts, and what it reports was computed of them (Optimizer.run).      *)
THEOREM SearchRecorded == EngineSpec => []SearchInv
<1>1. EngineInit => SearchInv
  BY SearchInvInit DEF EngineInit
<1>2. SearchInv /\ [EngineNext]_engineVars => SearchInv'
  BY SearchInvStep, SearchAssumption
<1> QED
  BY <1>1, <1>2, PTL DEF EngineSpec

\* A search's result was evaluated, and nothing it knows of is better.
LEMMA SearchInvBest == ASSUME SearchInv PROVE BestOfAll
<1>0. w.pc = "done" /\ w.engine # "ppo" =>
        /\ w.perf # <<>> /\ w.final.setting = BestParams
        /\ w.engine # "tpe" => w.final.cut = {} /\ ~w.final.nested
  <2> SUFFICES ASSUME w.pc = "done", w.engine # "ppo"
               PROVE  /\ w.perf # <<>> /\ w.final.setting = BestParams
                      /\ w.engine # "tpe" => w.final.cut = {} /\ ~w.final.nested
    OBVIOUS
  <2>1. PICK cut \in Cuts : w.final = Report(cut)
    BY DEF SearchInv, FinalInv
  <2>2. w.engine # "tpe" => cut = {}
    BY DEF Cuts
  <2>3. /\ w.final.setting = BestParams /\ w.final.cut = cut
        /\ w.final.nested = (w.engine = "ppo" /\ BestParams # NoSetting)
    BY <2>1 DEF Report
  <2> QED
    BY <2>2, <2>3 DEF SearchInv, FinalInv
<1> SUFFICES ASSUME w.pc = "done", w.engine # "traverse", w.engine # "ppo"
             PROVE  LET known == IF w.engine = "bayes" THEN log ELSE Own
                    IN  \E n \in DOMAIN known :
                           /\ known[n].setting = w.final.setting
                           /\ \A m \in DOMAIN known : known[m].value >= known[n].value
  BY <1>0 DEF BestOfAll
<1>1. w.perf # <<>> /\ w.final.setting = BestParams
  BY <1>0
<1>2. /\ Sequence(log) /\ Sequence(w.perf) /\ Len(w.perf) <= Len(log)
      /\ \A n \in 1..Len(log) : log[n].value \in Int
      /\ \A n \in 1..Len(w.perf) :
            /\ w.perf[n] \in Int
            /\ log[Len(log) - Len(w.perf) + n].setting = w.options[n]
            /\ log[Len(log) - Len(w.perf) + n].value = w.perf[n]
  BY DEF SearchInv, LogInv, OwnInv
<1>3. /\ Len(log) \in Nat /\ DOMAIN log = 1..Len(log)
      /\ Len(w.perf) \in Nat /\ DOMAIN w.perf = 1..Len(w.perf) /\ Len(w.perf) > 0
  <2>1. /\ Len(log) \in Nat /\ DOMAIN log = 1..Len(log)
        /\ Len(w.perf) \in Nat /\ DOMAIN w.perf = 1..Len(w.perf)
    BY <1>2, AppendSequence
  <2>2. Len(w.perf) # 0
    BY <1>1, <1>2 DEF Sequence
  <2> QED
    BY <2>1, <2>2
<1>4. CASE w.engine = "bayes"
  <2> DEFINE vals == [n \in DOMAIN log |-> log[n].value]
  <2>1. /\ Sequence(vals) /\ vals # <<>> /\ \A n \in 1..Len(vals) : vals[n] \in Int
        /\ DOMAIN vals = DOMAIN log
    <3>1. /\ vals = [n \in 1..Len(log) |-> vals[n]] /\ DOMAIN vals = 1..Len(log)
          /\ \A n \in 1..Len(log) : vals[n] = log[n].value
      BY <1>3
    <3> HIDE DEF vals
    <3>2. vals \in Seq({vals[n] : n \in DOMAIN vals})
      <4> DEFINE V == {vals[n] : n \in DOMAIN vals}
      <4>1. \A n \in 1..Len(log) : vals[n] \in V
        BY <3>1
      <4> HIDE DEF V
      <4>2. vals \in [1..Len(log) -> V]
        BY <3>1, <4>1
      <4>3. vals \in Seq(V)
        BY <1>3, <4>2
      <4> QED
        BY <4>3 DEF V
    <3>3. Len(vals) = Len(log) /\ vals # <<>>
      <4>1. Len(vals) \in Nat /\ DOMAIN vals = 1..Len(vals)
        BY <3>2, AppendSequence DEF Sequence
      <4>2. Len(vals) = Len(log)
        BY <1>3, <3>1, <4>1
      <4> QED
        BY <1>2, <1>3, <4>2, EmptySequence
    <3> QED
      BY <1>2, <1>3, <3>1, <3>2, <3>3 DEF Sequence
  <2>2. /\ ArgMin(vals) \in DOMAIN log
        /\ \A n \in DOMAIN log : vals[ArgMin(vals)] <= vals[n]
    <3> HIDE DEF vals
    <3> QED
      BY <2>1, ArgMinIsSmallest
  <2>3. w.final.setting = log[ArgMin(vals)].setting
    BY <1>1, <1>4 DEF BestParams
  <2>4. \A n \in DOMAIN log : vals[n] = log[n].value /\ vals[n] \in Int
    BY <1>2, <1>3
  <2> HIDE DEF vals
  <2>5. \A m \in DOMAIN log : log[m].value >= log[ArgMin(vals)].value
    BY <2>2, <2>4
  <2> QED
    BY <1>4, <2>2, <2>3, <2>5
<1>5. CASE w.engine # "bayes"
  <2> DEFINE i == ArgMin(w.perf)
             d == Len(log) - Len(w.perf)
  <2>1. /\ i \in 1..Len(w.perf)
        /\ \A n \in 1..Len(w.perf) : w.perf[i] <= w.perf[n]
    BY <1>1, <1>2, <1>3, ArgMinIsSmallest
  <2>2. w.final.setting = w.options[i]
    BY <1>1, <1>5 DEF BestParams
  <2>3. DOMAIN Own = 1..Len(w.perf) /\ \A n \in 1..Len(w.perf) : Own[n] = log[d + n]
    <3>1. /\ d \in Nat /\ d + 1 \in Int /\ Len(log) \in Nat
          /\ Len(log) - (d + 1) + 1 = Len(w.perf)
      BY <1>2, <1>3
    <3>2. Own = SubSeq(log, d + 1, Len(log))
      BY DEF Own
    <3>3. log \in Seq({log[n] : n \in DOMAIN log})
      BY <1>2 DEF Sequence
    <3> HIDE DEF d
    <3>4. /\ DOMAIN SubSeq(log, d + 1, Len(log)) = 1..Len(log) - (d + 1) + 1
          /\ \A n \in 1..Len(log) - (d + 1) + 1 :
                SubSeq(log, d + 1, Len(log))[n] = log[(d + 1) + n - 1]
      BY <3>1, <3>3
    <3>5. \A n \in Nat : (d + 1) + n - 1 = d + n
      BY <3>1
    <3> QED
      BY <3>1, <3>2, <3>4, <3>5
  <2>4. /\ Own[i].setting = w.final.setting
        /\ \A m \in 1..Len(w.perf) : Own[m].value = w.perf[m] /\ w.perf[m] \in Int
    BY <1>2, <2>1, <2>2, <2>3
  <2> HIDE DEF i
  <2>5. \A m \in DOMAIN Own : Own[m].value >= Own[i].value
    BY <2>1, <2>3, <2>4
  <2> QED
    BY <1>5, <2>1, <2>3, <2>4, <2>5
<1> QED
  BY <1>4, <1>5

(* What an engine other than traverse and ppo reports is a setting that it  *)
(* evaluated, and no evaluation it knows was better; tpe may have added a   *)
(* fraction to it, the others nothing (get_best_params, run).               *)
THEOREM SearchBestOfAll == EngineSpec => []BestOfAll
BY SearchRecorded, SearchInvBest, PTL

-----------------------------------------------------------------------------
(* The files of the tunings                                                *)

\* Line n of the file of a phase that is complete.
LineOf(t, phase, n) ==
    IF n = 1 THEN Info(t, phase)
    ELSE IF n = 2 THEN Base
    ELSE IF n = 3 THEN Params
    ELSE IF n <= MaxIter(t, phase) + 3 THEN Row(t, phase, n - 3)
    ELSE End

\* The lines of a file, which may not be complete yet.
LinesOf(t, phase, lines) ==
    /\ Sequence(lines)
    /\ Len(lines) \in 1..MaxIter(t, phase) + 4
    /\ \A n \in 1..Len(lines) : lines[n] = LineOf(t, phase, n)

\* All that the PUTs of a phase write, one after another.
WriteOf(t, phase, n) ==
    [op |-> IF n = 1 THEN "new" ELSE IF n <= MaxIter(t, phase) + 4 THEN "add" ELSE "move",
     line |-> IF n <= MaxIter(t, phase) + 4 THEN LineOf(t, phase, n) ELSE End]

\* How much the PUTs up to iteration i have written.
WrittenBy(t, phase, i) ==
    IF i = MaxIter(t, phase) THEN MaxIter(t, phase) + 5 ELSE IF i = -1 THEN 1 ELSE i + 3
WrittenBefore(t, phase, i) == IF i = -1 THEN 0 ELSE WrittenBy(t, phase, i - 1)

\* What follows the END of a phase is written to a file that begins with a row.
Headless(lines) == Sequence(lines) /\ Len(lines) >= 1 /\ lines[1][1] = "row"

Titled(lines) ==
    \E t \in Names : \E phase \in 1..Len(Iterations[t]) : LinesOf(t, phase, lines)

FilesInv ==
    \A key \in DOMAIN files :
        Titled(files[key]) \/ (key[1] = "running" /\ Headless(files[key]))

Between(t) == puts[t].todo = <<>> /\ puts[t].next = -1

\* What PUT follows that of iteration i.
Follows(p, t, phase, i) ==
    /\ i <= Iterations[t][phase]
    /\ p.next = (IF i = Iterations[t][phase] THEN -1 ELSE i + 1)
    /\ p.phase = (IF i = Iterations[t][phase] THEN phase + 1 ELSE phase)

\* The PUT of iteration i is writing, or has written, and m lines are there.
Underway(p, dir, t, phase, i, m) ==
    /\ i <= MaxIter(t, phase)
    /\ Follows(p, t, phase, i)
    /\ Sequence(p.todo)
    /\ m + Len(p.todo) = WrittenBy(t, phase, i)
    /\ m <= MaxIter(t, phase) + 4
    /\ \A j \in 1..Len(p.todo) : p.todo[j] = WriteOf(t, phase, m + j)
    /\ m > 0 => /\ <<"running", t>> \in DOMAIN dir
                /\ LinesOf(t, phase, dir[<<"running", t>>])
                /\ Len(dir[<<"running", t>>]) = m

\* The file of the phase has moved, and the evaluation of iteration i is added
\* to another one, if max_iter is less than their number.
Beyond(p, dir, t, phase, i) ==
    /\ i >= MaxIter(t, phase)
    /\ Follows(p, t, phase, i)
    /\ p.todo = <<>> \/ p.todo = <<[op |-> "add", line |-> Row(t, phase, i)]>>
    /\ <<"running", t>> \in DOMAIN dir => Headless(dir[<<"running", t>>])

TuningInv(t) ==
    /\ puts[t] = [todo |-> puts[t].todo, next |-> puts[t].next, phase |-> puts[t].phase]
    /\ puts[t].phase \in Nat \ {0}
    /\ \/ Between(t)
       \/ \E phase \in 1..Len(Iterations[t]), i \in Nat \cup {-1}, m \in Nat :
             Underway(puts[t], files, t, phase, i, m)
       \/ \E phase \in 1..Len(Iterations[t]), i \in Nat : Beyond(puts[t], files, t, phase, i)

PutsInv == DOMAIN puts = Names /\ \A t \in Names : TuningInv(t)

RenamingInv ==
    renaming \subseteq Names /\ \A old \in renaming : <<"finished", old>> \in DOMAIN files

ReaderFields == {"state", "dir", "name", "line", "shown", "from", "length"}

\* The page has shown the rows of the only file it was taken from.
ReaderInv ==
    /\ DOMAIN reader = ReaderFields
    /\ reader.from = {} => reader.shown = <<>>
                           /\ (reader.state \in {"poll", "gone", "open"} => reader.line = 0)
    /\ \A t \in Names : \A phase \in 1..Len(Iterations[t]) :
          reader.from = {Info(t, phase)} =>
             /\ Sequence(reader.shown)
             /\ \A n \in 1..Len(reader.shown) : reader.shown[n] = Row(t, phase, n)
             /\ Len(reader.shown) <= MaxIter(t, phase)
             /\ reader.state \in {"poll", "gone", "open"} => reader.line = Len(reader.shown)
             /\ reader.state = "end" => Len(reader.shown) = MaxIter(t, phase)
    /\ reader.state \in {"sheet", "whole"} =>
          reader.length \in Nat /\ reader.line \in Nat /\ reader.line <= reader.length
    /\ reader.state = "whole" => reader.line = reader.length

AllFilesInv == FilesInv /\ PutsInv /\ RenamingInv /\ ReaderInv

-----------------------------------------------------------------------------
LEMMA IterationsOf ==
  ASSUME FilesAssumption, NEW t \in Names, NEW phase \in 1..Len(Iterations[t])
  PROVE  /\ MaxIter(t, phase) \in Nat /\ Len(Iterations[t]) \in Nat
         /\ Iterations[t][phase] \in Nat
BY DEF FilesAssumption, MaxIter

LEMMA Joined ==
  ASSUME NEW a, NEW b, NEW c, NEW d
  PROVE  <<a>> \o <<b, c>> = <<a, b, c>> /\ <<a, b>> \o <<c, d>> = <<a, b, c, d>>
<1> DEFINE S == {a, b, c, d}
           x == <<a>> \o <<b, c>>
           y == <<a, b>> \o <<c, d>>
<1>1. <<a>> \in Seq(S) /\ <<a, b>> \in Seq(S) /\ <<b, c>> \in Seq(S) /\ <<c, d>> \in Seq(S)
  OBVIOUS
<1>2. /\ x \in Seq(S) /\ Len(x) = 3 /\ x[1] = a /\ x[2] = b /\ x[3] = c
  BY <1>1
<1>3. /\ y \in Seq(S) /\ Len(y) = 4 /\ y[1] = a /\ y[2] = b /\ y[3] = c /\ y[4] = d
  BY <1>1
<1>4. <<a, b, c>> \in Seq(S) /\ <<a, b, c, d>> \in Seq(S)
  OBVIOUS
<1>5. \A n \in 1..3 : x[n] = <<a, b, c>>[n]
  BY <1>2
<1>6. \A n \in 1..4 : y[n] = <<a, b, c, d>>[n]
  BY <1>3
<1> HIDE DEF x, y, S
<1>7. x = <<a, b, c>>
  BY <1>2, <1>4, <1>5, SameSequence
<1>8. y = <<a, b, c, d>>
  BY <1>3, <1>4, <1>6, SameSequence
<1> QED
  BY <1>7, <1>8 DEF x, y

\* What one PUT writes continues what those before it wrote.
LEMMA SaveContinues ==
  ASSUME FilesAssumption, NEW t \in Names, NEW phase \in 1..Len(Iterations[t]),
         NEW i, i \in Nat \cup {-1}, i <= MaxIter(t, phase)
  PROVE  /\ Sequence(SaveTuningDataFile(t, i, phase))
         /\ WrittenBefore(t, phase, i) + Len(SaveTuningDataFile(t, i, phase))
            = WrittenBy(t, phase, i)
         /\ \A j \in 1..Len(SaveTuningDataFile(t, i, phase)) :
               SaveTuningDataFile(t, i, phase)[j]
               = WriteOf(t, phase, WrittenBefore(t, phase, i) + j)
<1> DEFINE M == MaxIter(t, phase)
           new == [op |-> "new", line |-> Info(t, phase)]
           base == [op |-> "add", line |-> Base]
           params == [op |-> "add", line |-> Params]
           row == [op |-> "add", line |-> Row(t, phase, i)]
           end == [op |-> "add", line |-> End]
           move == [op |-> "move", line |-> End]
           sav == SaveTuningDataFile(t, i, phase)
           m == WrittenBefore(t, phase, i)
           lines == IF i = -1 THEN <<new>> ELSE IF i = 0 THEN <<base, params>> ELSE <<row>>
           ending == IF i = M THEN <<end, move>> ELSE <<>>
<1>0. M \in Nat
  BY IterationsOf
<1>1. sav = lines \o ending
  BY DEF SaveTuningDataFile
<1>2. /\ i = -1 => new = WriteOf(t, phase, 1)
      /\ i = 0 => base = WriteOf(t, phase, 2) /\ params = WriteOf(t, phase, 3)
      /\ i > 0 => row = WriteOf(t, phase, i + 3)
      /\ end = WriteOf(t, phase, M + 4) /\ move = WriteOf(t, phase, M + 5)
  <2>1. new = WriteOf(t, phase, 1)
    BY <1>0 DEF WriteOf, LineOf
  <2>2. base = WriteOf(t, phase, 2) /\ params = WriteOf(t, phase, 3)
    BY <1>0 DEF WriteOf, LineOf
  <2>3. i > 0 => row = WriteOf(t, phase, i + 3)
    <3> HAVE i > 0
    <3>1. i + 3 > 3 /\ i + 3 <= M + 3 /\ i + 3 - 3 = i /\ i + 3 <= M + 4 /\ i + 3 # 1
          /\ i + 3 # 2 /\ i + 3 # 3
      BY <1>0
    <3>2. LineOf(t, phase, i + 3) = Row(t, phase, i)
      BY <3>1 DEF LineOf
    <3> QED
      BY <3>1, <3>2 DEF WriteOf
  <2>4. end = WriteOf(t, phase, M + 4)
    <3>1. M + 4 # 1 /\ M + 4 # 2 /\ M + 4 # 3 /\ ~(M + 4 <= M + 3) /\ M + 4 <= M + 4
      BY <1>0
    <3>2. LineOf(t, phase, M + 4) = End
      BY <3>1 DEF LineOf
    <3> QED
      BY <3>1, <3>2 DEF WriteOf
  <2>5. move = WriteOf(t, phase, M + 5)
    <3>1. M + 5 # 1 /\ ~(M + 5 <= M + 4)
      BY <1>0
    <3> QED
      BY <3>1 DEF WriteOf
  <2> QED
    BY <2>1, <2>2, <2>3, <2>4, <2>5
<1> DEFINE W(n) == WriteOf(t, phase, n)
<1>3. WrittenBy(t, phase, i) = IF i = M THEN M + 5 ELSE IF i = -1 THEN 1 ELSE i + 3
  BY DEF WrittenBy
<1>4. m = IF i = -1 THEN 0 ELSE IF i = 0 THEN 1 ELSE i + 2
  <2>1. CASE i = -1
    BY <2>1 DEF WrittenBefore
  <2>2. CASE i = 0
    BY <1>0, <2>2 DEF WrittenBefore, WrittenBy
  <2>3. CASE i > 0
    <3>1. i - 1 # M /\ i - 1 # -1 /\ i - 1 + 3 = i + 2 /\ i # -1 /\ i # 0
      BY <1>0, <2>3
    <3> QED
      BY <3>1 DEF WrittenBefore, WrittenBy
  <2> QED
    BY <2>1, <2>2, <2>3
<1> HIDE DEF new, base, params, row, end, move, sav, m, W, M
<1>5. CASE i = -1
  <2>1. i # M
    BY <1>0, <1>5
  <2>2. sav = <<new>>
    BY <1>1, <1>5, <2>1
  <2>3. Sequence(sav) /\ Len(sav) = 1 /\ sav[1] = W(1)
    BY <1>2, <1>5, <2>2 DEF Sequence, W
  <2>4. m = 0 /\ WrittenBy(t, phase, i) = 1
    BY <1>3, <1>4, <1>5, <2>1
  <2>5. \A j \in 1..1 : sav[j] = W(m + j)
    BY <2>3, <2>4
  <2> QED
    BY <2>3, <2>4, <2>5 DEF sav, m, W
<1>6. CASE i = 0
  <2>1. CASE i = M
    <3>1. sav = <<base, params, end, move>>
      <4>1. sav = <<base, params>> \o <<end, move>>
        BY <1>1, <1>6, <2>1
      <4> QED
        BY <4>1, Joined, ZenonT(60)
    <3>2. /\ Sequence(sav) /\ Len(sav) = 4
          /\ sav[1] = W(2) /\ sav[2] = W(3) /\ sav[3] = W(4) /\ sav[4] = W(5)
      BY <1>2, <1>6, <2>1, <3>1 DEF Sequence, W
    <3>3. m = 1 /\ WrittenBy(t, phase, i) = 5
      BY <1>3, <1>4, <1>6, <2>1
    <3>4. \A j \in 1..4 : sav[j] = W(m + j)
      BY <3>2, <3>3
    <3> QED
      BY <3>2, <3>3, <3>4 DEF sav, m, W
  <2>2. CASE i # M
    <3>1. sav = <<base, params>>
      BY <1>1, <1>6, <2>2
    <3>2. Sequence(sav) /\ Len(sav) = 2 /\ sav[1] = W(2) /\ sav[2] = W(3)
      BY <1>2, <1>6, <3>1 DEF Sequence, W
    <3>3. m = 1 /\ WrittenBy(t, phase, i) = 3
      BY <1>3, <1>4, <1>6, <2>2
    <3>4. \A j \in 1..2 : sav[j] = W(m + j)
      BY <3>2, <3>3
    <3> QED
      BY <3>2, <3>3, <3>4 DEF sav, m, W
  <2> QED
    BY <2>1, <2>2
<1>7. CASE i > 0
  <2>1. CASE i = M
    <3>1. sav = <<row, end, move>>
      <4>1. lines = <<row>> /\ ending = <<end, move>>
        BY <1>0, <1>7, <2>1
      <4>2. sav = <<row>> \o <<end, move>>
        BY <1>1, <4>1
      <4> QED
        BY <4>2, Joined
    <3>2. /\ Sequence(sav) /\ Len(sav) = 3
          /\ sav[1] = W(i + 3) /\ sav[2] = W(i + 4) /\ sav[3] = W(i + 5)
      BY <1>2, <1>7, <2>1, <3>1 DEF Sequence, W
    <3>3. m = i + 2 /\ WrittenBy(t, phase, i) = i + 5
      BY <1>3, <1>4, <1>7, <2>1
    <3>4. m + 1 = i + 3 /\ m + 2 = i + 4 /\ m + 3 = i + 5
      BY <3>3
    <3>5. \A j \in 1..3 : sav[j] = W(m + j)
      <4>1. \A j \in 1..3 : j = 1 \/ j = 2 \/ j = 3
        OBVIOUS
      <4>2. sav[1] = W(m + 1) /\ sav[2] = W(m + 2) /\ sav[3] = W(m + 3)
        BY <3>2, <3>4
      <4> QED
        BY <4>1, <4>2
    <3> QED
      BY <3>2, <3>3, <3>5 DEF sav, m, W
  <2>2. CASE i # M
    <3>1. sav = <<row>>
      BY <1>1, <1>7, <2>2
    <3>2. Sequence(sav) /\ Len(sav) = 1 /\ sav[1] = W(i + 3)
      BY <1>2, <1>7, <3>1 DEF Sequence, W
    <3>3. m = i + 2 /\ WrittenBy(t, phase, i) = i + 3
      BY <1>3, <1>4, <1>7, <2>2
    <3>4. m + 1 = i + 3
      BY <3>3
    <3>5. \A j \in 1..1 : sav[j] = W(m + j)
      BY <3>2, <3>4
    <3> QED
      BY <3>2, <3>3, <3>5 DEF sav, m, W
  <2> QED
    BY <2>1, <2>2
<1> QED
  BY <1>5, <1>6, <1>7

\* After max_iter a PUT writes its evaluation and nothing else.
LEMMA SaveBeyond ==
  ASSUME FilesAssumption, NEW t \in Names, NEW phase \in 1..Len(Iterations[t]),
         NEW i \in Nat, i > MaxIter(t, phase)
  PROVE  SaveTuningDataFile(t, i, phase) = <<[op |-> "add", line |-> Row(t, phase, i)]>>
<1> DEFINE row == [op |-> "add", line |-> Row(t, phase, i)]
<1>1. i # -1 /\ i # 0 /\ i # MaxIter(t, phase)
  BY IterationsOf
<1>2. SaveTuningDataFile(t, i, phase) = <<row>> \o <<>>
  BY <1>1 DEF SaveTuningDataFile
<1> HIDE DEF row
<1>3. <<row>> \o <<>> = <<row>>
  OBVIOUS
<1> QED
  BY <1>2, <1>3 DEF row

\* What a step does to the files of the other tunings.
SameRunning(t) ==
    /\ puts'[t] = puts[t]
    /\ <<"running", t>> \in DOMAIN files' <=> <<"running", t>> \in DOMAIN files
    /\ <<"running", t>> \in DOMAIN files =>
          files'[<<"running", t>>] = files[<<"running", t>>]

LEMMA OthersKept ==
  ASSUME NEW t \in Names, TuningInv(t), SameRunning(t)
  PROVE  TuningInv(t)'
<1>1. /\ puts'[t] = [todo |-> puts'[t].todo, next |-> puts'[t].next,
                     phase |-> puts'[t].phase]
      /\ puts'[t].phase \in Nat \ {0}
  BY DEF TuningInv, SameRunning
<1>2. CASE Between(t)
  BY <1>1, <1>2 DEF TuningInv, SameRunning, Between
<1>3. ASSUME NEW phase \in 1..Len(Iterations[t]), NEW i \in Nat \cup {-1}, NEW m \in Nat,
             Underway(puts[t], files, t, phase, i, m)
      PROVE  Underway(puts'[t], files', t, phase, i, m)
  BY <1>3 DEF SameRunning, Underway, Follows
<1>4. ASSUME NEW phase \in 1..Len(Iterations[t]), NEW i \in Nat,
             Beyond(puts[t], files, t, phase, i)
      PROVE  Beyond(puts'[t], files', t, phase, i)
  BY <1>4 DEF SameRunning, Beyond, Follows
<1> QED
  BY <1>1, <1>2, <1>3, <1>4 DEF TuningInv

LEMMA WriteKeys ==
  ASSUME NEW f, NEW key, NEW lines
  PROVE  /\ DOMAIN Write(f, key, lines) = DOMAIN f \cup {key}
         /\ Write(f, key, lines)[key] = lines
         /\ \A k \in DOMAIN f : k # key => Write(f, key, lines)[k] = f[k]
         /\ DOMAIN Without(f, key) = DOMAIN f \ {key}
         /\ \A k \in DOMAIN f \ {key} : Without(f, key)[k] = f[k]
BY DEF Write, Without

\* A PUT of a tuning, with nothing left to write of the one before.
LEMMA PutStep ==
  ASSUME FilesAssumption, PutsInv, NEW t \in Names, PutTuning(t)
  PROVE  PutsInv'
<1> DEFINE p == puts[t]
           last == p.next = Iterations[t][p.phase]
           new == [todo |-> SaveTuningDataFile(t, p.next, p.phase),
                   next |-> IF last THEN -1 ELSE p.next + 1,
                   phase |-> IF last THEN p.phase + 1 ELSE p.phase]
<1>1. /\ p.todo = <<>> /\ p.phase <= Len(Iterations[t])
      /\ files' = files
      /\ puts' = [puts EXCEPT ![t] = new]
  BY DEF PutTuning
<1> HIDE DEF new
<1>2. /\ DOMAIN puts' = Names /\ puts'[t] = new
      /\ \A u \in Names : u # t => puts'[u] = puts[u]
  BY <1>1 DEF PutsInv
<1>3. \A u \in Names : u # t => TuningInv(u)'
  <2> SUFFICES ASSUME NEW u \in Names, u # t PROVE TuningInv(u)'
    OBVIOUS
  <2>1. SameRunning(u)
    BY <1>1, <1>2 DEF SameRunning
  <2> QED
    BY <2>1, OthersKept DEF PutsInv
<1>4. ASSUME NEW phase \in 1..Len(Iterations[t]), NEW i \in Nat \cup {-1},
             p.next = i, p.phase = phase, i <= Iterations[t][phase]
      PROVE  /\ new.todo = SaveTuningDataFile(t, i, phase)
             /\ Follows(new, t, phase, i)
             /\ new = [todo |-> new.todo, next |-> new.next, phase |-> new.phase]
             /\ new.phase \in Nat \ {0}
  <2>1. /\ new.todo = SaveTuningDataFile(t, i, phase)
        /\ new.next = (IF i = Iterations[t][phase] THEN -1 ELSE i + 1)
        /\ new.phase = (IF i = Iterations[t][phase] THEN phase + 1 ELSE phase)
        /\ new = [todo |-> new.todo, next |-> new.next, phase |-> new.phase]
    BY <1>4 DEF new
  <2> QED
    BY <1>4, <2>1 DEF Follows
<1>5. ASSUME NEW phase \in 1..Len(Iterations[t]), NEW i \in Nat \cup {-1}, NEW m \in Nat,
             i <= MaxIter(t, phase), p.next = i, p.phase = phase, i <= Iterations[t][phase],
             m = WrittenBefore(t, phase, i),
             m > 0 => /\ <<"running", t>> \in DOMAIN files
                      /\ LinesOf(t, phase, files[<<"running", t>>])
                      /\ Len(files[<<"running", t>>]) = m
      PROVE  TuningInv(t)'
  <2>0. MaxIter(t, phase) \in Nat
    BY IterationsOf
  <2>1. /\ new.todo = SaveTuningDataFile(t, i, phase)
        /\ Follows(new, t, phase, i)
        /\ new = [todo |-> new.todo, next |-> new.next, phase |-> new.phase]
        /\ new.phase \in Nat \ {0}
    BY <1>4, <1>5
  <2>2. /\ Sequence(new.todo)
        /\ m + Len(new.todo) = WrittenBy(t, phase, i)
        /\ \A j \in 1..Len(new.todo) : new.todo[j] = WriteOf(t, phase, m + j)
    BY <1>5, <2>1, SaveContinues, SMTT(30)
  <2>3. m <= MaxIter(t, phase) + 4
    <3>1. CASE i = -1
      BY <1>5, <2>0, <3>1 DEF WrittenBefore
    <3>2. CASE i # -1
      <4>1. i - 1 # MaxIter(t, phase) /\ i \in Nat
        BY <1>5, <2>0, <3>2
      <4>2. m <= i + 2
        BY <1>5, <2>0, <3>2, <4>1 DEF WrittenBefore, WrittenBy
      <4> QED
        BY <1>5, <2>0, <4>1, <4>2
    <3> QED
      BY <3>1, <3>2
  <2>4. Underway(puts'[t], files', t, phase, i, m)
    BY <1>1, <1>2, <1>5, <2>1, <2>2, <2>3 DEF Underway
  <2> QED
    BY <1>2, <2>1, <2>4 DEF TuningInv
<1>6. CASE p.next = -1
  <2>1. p.phase \in 1..Len(Iterations[t])
    BY <1>1 DEF PutsInv, TuningInv, FilesAssumption
  <2>2. MaxIter(t, p.phase) \in Nat /\ Iterations[t][p.phase] \in Nat
    BY <2>1, IterationsOf
  <2>4. /\ 0 = WrittenBefore(t, p.phase, -1) /\ -1 <= MaxIter(t, p.phase)
        /\ -1 <= Iterations[t][p.phase]
    BY <2>2 DEF WrittenBefore
  <2>3. TuningInv(t)'
    <3> DEFINE i == -1
               m == 0
               phase == p.phase
    <3>1. /\ i \in Nat \cup {-1} /\ m \in Nat /\ phase \in 1..Len(Iterations[t])
          /\ p.next = i /\ p.phase = phase /\ i <= MaxIter(t, phase)
          /\ i <= Iterations[t][phase]
          /\ m = WrittenBefore(t, phase, i) /\ ~(m > 0)
      BY <1>6, <2>1, <2>2, <2>4
    <3> HIDE DEF i, m, phase
    <3> QED
      BY <1>5, <3>1
  <2> QED
    BY <1>2, <1>3, <2>3 DEF PutsInv
<1>7. ASSUME p.next # -1,
             NEW phase \in 1..Len(Iterations[t]), NEW i \in Nat \cup {-1}, NEW m \in Nat,
             Underway(p, files, t, phase, i, m)
      PROVE  PutsInv'
  <2>2. MaxIter(t, phase) \in Nat /\ Iterations[t][phase] \in Nat
    BY IterationsOf
  <2>3. m = WrittenBy(t, phase, i)
    <3>1. m + Len(p.todo) = WrittenBy(t, phase, i)
      BY <1>7 DEF Underway
    <3> QED
      BY <1>1, <3>1, EmptySequence
  <2>4. i # MaxIter(t, phase)
    BY <1>7, <2>2, <2>3 DEF Underway, WrittenBy
  <2>5. /\ p.next = i + 1 /\ p.phase = phase /\ i + 1 \in Nat /\ i + 1 <= MaxIter(t, phase)
        /\ i + 1 <= Iterations[t][phase] /\ i + 1 - 1 = i /\ i + 1 # -1
    <3>1. /\ i <= MaxIter(t, phase) /\ i <= Iterations[t][phase]
          /\ p.next = (IF i = Iterations[t][phase] THEN -1 ELSE i + 1)
          /\ p.phase = (IF i = Iterations[t][phase] THEN phase + 1 ELSE phase)
      BY <1>7 DEF Underway, Follows
    <3> HIDE DEF p
    <3>2. i # Iterations[t][phase]
      BY <1>7, <3>1
    <3> QED
      BY <2>2, <2>4, <3>1, <3>2
  <2>6. /\ m > 0 => /\ <<"running", t>> \in DOMAIN files
                    /\ LinesOf(t, phase, files[<<"running", t>>])
                    /\ Len(files[<<"running", t>>]) = m
    BY <1>7 DEF Underway
  <2>7. m = WrittenBefore(t, phase, i + 1)
    BY <2>3, <2>5 DEF WrittenBefore
  <2>8. TuningInv(t)'
    BY <1>5, <2>5, <2>6, <2>7
  <2> QED
    BY <1>2, <1>3, <2>8 DEF PutsInv
<1>8. ASSUME p.next # -1, NEW phase \in 1..Len(Iterations[t]), NEW i \in Nat,
             Beyond(p, files, t, phase, i)
      PROVE  PutsInv'
  <2>1. MaxIter(t, phase) \in Nat /\ Iterations[t][phase] \in Nat
    BY IterationsOf
  <2>2. /\ p.next = i + 1 /\ p.phase = phase /\ i + 1 \in Nat /\ i + 1 > MaxIter(t, phase)
        /\ i + 1 <= Iterations[t][phase]
        /\ <<"running", t>> \in DOMAIN files => Headless(files[<<"running", t>>])
    BY <1>8, <2>1 DEF Beyond, Follows
  <2>3. /\ new.todo = SaveTuningDataFile(t, i + 1, phase)
        /\ Follows(new, t, phase, i + 1)
        /\ new = [todo |-> new.todo, next |-> new.next, phase |-> new.phase]
        /\ new.phase \in Nat \ {0}
    BY <1>4, <2>2
  <2>4. new.todo = <<[op |-> "add", line |-> Row(t, phase, i + 1)]>>
    BY <2>2, <2>3, SaveBeyond
  <2>5. Beyond(puts'[t], files', t, phase, i + 1)
    BY <1>1, <1>2, <2>1, <2>2, <2>3, <2>4, SMTT(30) DEF Beyond
  <2>6. TuningInv(t)'
    BY <1>2, <2>2, <2>3, <2>5 DEF TuningInv
  <2> QED
    BY <1>2, <1>3, <2>6 DEF PutsInv
<1> QED
  <2>1. TuningInv(t)
    BY DEF PutsInv
  <2> QED
    BY <1>6, <1>7, <1>8, <2>1 DEF TuningInv, Between

\* One more line of a file that is not complete.
LEMMA AppendLine ==
  ASSUME NEW t, NEW phase, MaxIter(t, phase) \in Nat, NEW old, NEW m \in Nat,
         m <= MaxIter(t, phase) + 3,
         m = 0 => old = <<>>,
         m > 0 => LinesOf(t, phase, old) /\ Len(old) = m
  PROVE  /\ LinesOf(t, phase, Append(old, LineOf(t, phase, m + 1)))
         /\ Len(Append(old, LineOf(t, phase, m + 1))) = m + 1
<1> DEFINE x == LineOf(t, phase, m + 1)
           new == Append(old, x)
<1>1. /\ Sequence(old) /\ Len(old) = m
      /\ \A n \in 1..m : old[n] = LineOf(t, phase, n)
  <2>1. CASE m = 0
    BY <2>1, EmptySequence
  <2>2. CASE m > 0
    BY <2>2 DEF LinesOf
  <2> QED
    BY <2>1, <2>2
<1> HIDE DEF x
<1>2. /\ Sequence(new) /\ Len(new) = m + 1 /\ new[m + 1] = x
      /\ \A n \in 1..m : new[n] = old[n]
  BY <1>1, AppendSequence
<1> HIDE DEF new
<1>3. \A n \in 1..m + 1 : new[n] = LineOf(t, phase, n)
  BY <1>1, <1>2 DEF x
<1>4. LinesOf(t, phase, new)
  BY <1>2, <1>3 DEF LinesOf
<1> QED
  BY <1>2, <1>4 DEF x, new

LEMMA TodoField ==
  ASSUME NEW r, NEW x, r = [todo |-> r.todo, next |-> r.next, phase |-> r.phase]
  PROVE  /\ [r EXCEPT !.todo = x] = [todo |-> x, next |-> r.next, phase |-> r.phase]
         /\ [r EXCEPT !.todo = x].todo = x /\ [r EXCEPT !.todo = x].next = r.next
         /\ [r EXCEPT !.todo = x].phase = r.phase
OBVIOUS

\* A line of a file that is not complete, or its move when it is.
LEMMA WriteUnderway ==
  ASSUME FilesAssumption, FilesInv, PutsInv, RenamingInv, NEW t \in Names, WriteLine(t),
         NEW phase \in 1..Len(Iterations[t]), NEW i \in Nat \cup {-1}, NEW m \in Nat,
         Underway(puts[t], files, t, phase, i, m)
  PROVE  FilesInv' /\ PutsInv' /\ RenamingInv'
<1> DEFINE p == puts[t]
           key == <<"running", t>>
           write == Head(p.todo)
           new == [p EXCEPT !.todo = Tail(p.todo)]
<1>1. /\ p.todo # <<>> /\ renaming' = renaming
      /\ files' = IF write.op = "move" THEN ChangeFileName(files, t)
                  ELSE AddDataToFile(files, t, write.op, write.line)
      /\ puts' = [puts EXCEPT ![t] = new]
  BY DEF WriteLine
<1> DEFINE M == MaxIter(t, phase)
<1>3. M \in Nat
  BY IterationsOf
<1>4. /\ Sequence(Tail(p.todo)) /\ Len(p.todo) \in Nat \ {0}
      /\ Len(Tail(p.todo)) = Len(p.todo) - 1
      /\ write = WriteOf(t, phase, m + 1)
      /\ \A j \in 1..Len(p.todo) - 1 : Tail(p.todo)[j] = WriteOf(t, phase, m + 1 + j)
  <2>1. /\ Sequence(p.todo)
        /\ \A j \in 1..Len(p.todo) : p.todo[j] = WriteOf(t, phase, m + j)
    BY DEF Underway
  <2>2. /\ Sequence(Tail(p.todo)) /\ Len(p.todo) \in Nat \ {0}
        /\ Len(Tail(p.todo)) = Len(p.todo) - 1 /\ write = p.todo[1]
        /\ \A j \in 1..Len(p.todo) - 1 : Tail(p.todo)[j] = p.todo[j + 1]
    BY <1>1, <2>1, TailSequence
  <2> DEFINE todo == p.todo
             rest == Tail(p.todo)
  <2> HIDE DEF todo, rest, write
  <2>3. todo[1] = WriteOf(t, phase, m + 1)
    BY <2>1, <2>2 DEF todo
  <2>4. \A j \in 1..Len(todo) - 1 : rest[j] = WriteOf(t, phase, m + 1 + j)
    <3> SUFFICES ASSUME NEW j \in 1..Len(todo) - 1
                 PROVE  rest[j] = WriteOf(t, phase, m + 1 + j)
      OBVIOUS
    <3>1. Len(todo) \in Nat /\ j + 1 \in 1..Len(todo) /\ m + (j + 1) = m + 1 + j
      BY <2>2 DEF todo
    <3>2. todo[j + 1] = WriteOf(t, phase, m + (j + 1))
      BY <2>1, <3>1 DEF todo
    <3>3. rest[j] = todo[j + 1]
      BY <2>2 DEF todo, rest
    <3> QED
      BY <3>1, <3>2, <3>3
  <2> QED
    BY <2>2, <2>3, <2>4 DEF todo, rest
<1>5. /\ p = [todo |-> p.todo, next |-> p.next, phase |-> p.phase]
      /\ p.phase \in Nat \ {0}
      /\ DOMAIN puts = Names
  BY DEF PutsInv, TuningInv
<1>6. /\ new = [todo |-> Tail(p.todo), next |-> p.next, phase |-> p.phase]
      /\ new.todo = Tail(p.todo) /\ new.next = p.next /\ new.phase = p.phase
  <2> DEFINE rest == Tail(p.todo)
  <2> HIDE DEF p, rest
  <2>1. new = [p EXCEPT !.todo = rest]
    BY DEF rest
  <2> HIDE DEF new
  <2> QED
    BY <1>5, <2>1, TodoField DEF rest
<1>7. /\ DOMAIN puts' = Names /\ puts'[t] = new
      /\ \A u \in Names : u # t => puts'[u] = puts[u]
  BY <1>1, <1>5
<1>8. /\ i <= M /\ Follows(p, t, phase, i)
      /\ m + Len(p.todo) = WrittenBy(t, phase, i) /\ m <= M + 4
      /\ m > 0 => key \in DOMAIN files /\ LinesOf(t, phase, files[key]) /\ Len(files[key]) = m
  BY DEF Underway
<1>13. Follows(new, t, phase, i)
  BY <1>6, <1>8 DEF Follows
<1>9. \A u \in Names : u # t => key # <<"running", u>> /\ key # <<"finished", u>>
                                /\ <<"finished", t>> # <<"running", u>>
  OBVIOUS
<1>12. WrittenBy(t, phase, i) \in Nat
  BY <1>3 DEF WrittenBy
<1> HIDE DEF p, key, write, new, M
<1>10. CASE m <= M + 3
  <2> DEFINE old == IF m = 0 THEN <<>> ELSE files[key]
             lines == Append(old, LineOf(t, phase, m + 1))
  <2>1. write.op = (IF m = 0 THEN "new" ELSE "add") /\ write.line = LineOf(t, phase, m + 1)
    <3>1. m + 1 <= M + 4 /\ (m + 1 = 1 <=> m = 0)
      BY <1>3, <1>10
    <3> QED
      BY <1>4, <3>1 DEF WriteOf, M
  <2>2. files' = Write(files, key, lines)
    <3>1. files' = AddDataToFile(files, t, write.op, write.line)
      BY <1>1, <2>1
    <3>2. CASE m = 0
      BY <2>1, <3>1, <3>2 DEF AddDataToFile, key
    <3>3. CASE m > 0
      <4>1. key \in DOMAIN files /\ m # 0
        BY <1>8, <3>3
      <4> QED
        BY <2>1, <3>1, <4>1 DEF AddDataToFile, key
    <3> QED
      BY <3>2, <3>3
  <2>3. LinesOf(t, phase, lines) /\ Len(lines) = m + 1
    <3>1. /\ m = 0 => old = <<>>
          /\ m > 0 => LinesOf(t, phase, old) /\ Len(old) = m
      BY <1>8
    <3> HIDE DEF old
    <3> QED
      BY <1>3, <1>10, <3>1, AppendLine DEF M
  <2> HIDE DEF lines, old
  <2>4. /\ DOMAIN files' = DOMAIN files \cup {key} /\ files'[key] = lines
        /\ \A k \in DOMAIN files : k # key => files'[k] = files[k]
    BY <2>2 DEF Write
  <2>5. FilesInv'
    <3> SUFFICES ASSUME NEW k \in DOMAIN files'
                 PROVE  Titled(files'[k]) \/ (k[1] = "running" /\ Headless(files'[k]))
      BY DEF FilesInv, Titled, LinesOf, LineOf, MaxIter, Headless
    <3>1. CASE k = key
      BY <2>3, <2>4, <3>1 DEF Titled
    <3>2. CASE k # key
      BY <2>4, <3>2 DEF FilesInv
    <3> QED
      BY <3>1, <3>2
  <2>6. \A u \in Names : u # t => TuningInv(u)'
    <3> SUFFICES ASSUME NEW u \in Names, u # t PROVE TuningInv(u)'
      OBVIOUS
    <3>1. SameRunning(u)
      BY <1>7, <1>9, <2>4 DEF SameRunning
    <3> QED
      BY <3>1, OthersKept DEF PutsInv
  <2>7. Underway(puts'[t], files', t, phase, i, m + 1)
    <3>1. /\ m + 1 + Len(new.todo) = WrittenBy(t, phase, i) /\ m + 1 <= M + 4 /\ m + 1 > 0
          /\ m + 1 # 0
      <4>1. Len(new.todo) = Len(p.todo) - 1 /\ Len(p.todo) \in Nat \ {0}
        BY <1>4, <1>6
      <4>2. m + Len(p.todo) = WrittenBy(t, phase, i)
        BY <1>8
      <4> DEFINE a == Len(p.todo)
                 b == Len(new.todo)
                 c == WrittenBy(t, phase, i)
      <4>3. a \in Nat /\ b = a - 1 /\ c \in Nat /\ m + a = c
        BY <1>12, <4>1, <4>2
      <4> HIDE DEF a, b, c
      <4>4. m + 1 + b = c
        BY <4>3
      <4>5. m + 1 <= M + 4 /\ m + 1 > 0 /\ m + 1 # 0
        BY <1>3, <1>10
      <4> QED
        BY <4>4, <4>5 DEF b, c
    <3>2. \A j \in 1..Len(new.todo) : new.todo[j] = WriteOf(t, phase, m + 1 + j)
      BY <1>4, <1>6
    <3> QED
      <4>1. /\ puts'[t] = new /\ key \in DOMAIN files' /\ files'[key] = lines
            /\ LinesOf(t, phase, lines) /\ Len(lines) = m + 1
        BY <1>7, <2>3, <2>4
      <4>2. Follows(new, t, phase, i) /\ i <= M /\ Sequence(new.todo)
        BY <1>4, <1>6, <1>8, <1>13
      <4> QED
        BY <3>1, <3>2, <4>1, <4>2 DEF Underway, key, M
  <2>8. TuningInv(t)'
    <3>1. m + 1 \in Nat
      OBVIOUS
    <3> QED
      BY <1>5, <1>6, <1>7, <2>7, <3>1 DEF TuningInv
  <2>9. RenamingInv'
    BY <1>1, <2>4 DEF RenamingInv
  <2> QED
    BY <1>7, <2>5, <2>6, <2>8, <2>9 DEF PutsInv
<1>11. CASE m = M + 4
  <2>1. write.op = "move"
    <3>1. m + 1 # 1 /\ ~(m + 1 <= M + 4)
      BY <1>3, <1>11
    <3> QED
      BY <1>4, <3>1 DEF WriteOf, M
  <2>2. i = M /\ Len(p.todo) = 1 /\ m > 0
    <3>1. WrittenBy(t, phase, i) > M + 4
      <4> DEFINE a == Len(p.todo)
                 c == WrittenBy(t, phase, i)
      <4>1. a \in Nat \ {0} /\ c \in Nat /\ m + a = c
        BY <1>4, <1>8, <1>12
      <4> HIDE DEF a, c
      <4>2. c > M + 4
        BY <1>3, <1>11, <4>1
      <4> QED
        BY <4>2 DEF c
    <3>2. i = M
      BY <1>3, <1>8, <3>1 DEF WrittenBy, M
    <3>3. WrittenBy(t, phase, i) = M + 5
      BY <3>2 DEF WrittenBy, M
    <3> QED
      <4> DEFINE a == Len(p.todo)
      <4>1. a \in Nat /\ m + a = M + 5
        BY <1>4, <1>8, <3>3
      <4> HIDE DEF a
      <4>2. a = 1 /\ m > 0
        BY <1>3, <1>11, <4>1
      <4> QED
        BY <3>2, <4>2 DEF a
  <2>3. Tail(p.todo) = <<>>
    <3>1. Len(Tail(p.todo)) = 0 /\ Sequence(Tail(p.todo))
      BY <1>4, <2>2
    <3> QED
      BY <3>1, TailSequence
  <2> DEFINE dest == <<"finished", t>>
  <2>4. /\ DOMAIN files' = (DOMAIN files \ {key}) \cup {dest} /\ files'[dest] = files[key]
        /\ \A k \in DOMAIN files \ {key} : k # dest => files'[k] = files[k]
    <3>1. files' = Write(Without(files, key), dest, files[key])
      BY <1>1, <2>1 DEF ChangeFileName, key
    <3> HIDE DEF dest
    <3> QED
      BY <3>1 DEF Write, Without
  <2>5. key # dest /\ key \in DOMAIN files /\ LinesOf(t, phase, files[key])
    BY <1>8, <2>2 DEF key
  <2>6. \A u \in Names : u # t => TuningInv(u)'
    <3> SUFFICES ASSUME NEW u \in Names, u # t PROVE TuningInv(u)'
      OBVIOUS
    <3>1. SameRunning(u)
      BY <1>7, <1>9, <2>4 DEF SameRunning
    <3> QED
      BY <3>1, OthersKept DEF PutsInv
  <2>7. RenamingInv'
    <3>1. \A old \in Names : <<"finished", old>> # key
      BY DEF key
    <3> QED
      BY <1>1, <2>4, <3>1 DEF RenamingInv
  <2> HIDE DEF dest
  <2>8. FilesInv'
    <3> SUFFICES ASSUME NEW k \in DOMAIN files'
                 PROVE  Titled(files'[k]) \/ (k[1] = "running" /\ Headless(files'[k]))
      BY DEF FilesInv, Titled, LinesOf, LineOf, MaxIter, Headless
    <3>1. CASE k = dest
      BY <2>4, <2>5, <3>1 DEF Titled
    <3>2. CASE k # dest
      BY <2>4, <3>2 DEF FilesInv
    <3> QED
      BY <3>1, <3>2
  <2>9. Beyond(puts'[t], files', t, phase, i) /\ i \in Nat
    <3>1. i >= MaxIter(t, phase) /\ i \in Nat
      BY <1>3, <2>2 DEF M
    <3>2. new.todo = <<>> /\ <<"running", t>> \notin DOMAIN files'
      BY <1>6, <2>3, <2>4, <2>5 DEF key
    <3> QED
      BY <1>7, <1>13, <3>1, <3>2 DEF Beyond
  <2>10. TuningInv(t)'
    BY <1>5, <1>6, <1>7, <2>9 DEF TuningInv
  <2> QED
    BY <1>7, <2>6, <2>7, <2>8, <2>10 DEF PutsInv
<1> QED
  BY <1>3, <1>8, <1>10, <1>11

\* A line of what follows a file that has moved.
LEMMA WriteBeyond ==
  ASSUME FilesAssumption, FilesInv, PutsInv, RenamingInv, NEW t \in Names, WriteLine(t),
         NEW phase \in 1..Len(Iterations[t]), NEW i \in Nat,
         Beyond(puts[t], files, t, phase, i)
  PROVE  FilesInv' /\ PutsInv' /\ RenamingInv'
<1> DEFINE p == puts[t]
           key == <<"running", t>>
           row == [op |-> "add", line |-> Row(t, phase, i)]
           new == [p EXCEPT !.todo = <<>>]
           old == IF key \in DOMAIN files THEN files[key] ELSE <<>>
           lines == Append(old, Row(t, phase, i))
<1>1. p.todo = <<row>>
  BY DEF Beyond, WriteLine
<1>2. /\ renaming' = renaming
      /\ files' = Write(files, key, lines)
      /\ puts' = [puts EXCEPT ![t] = new]
  <2>1. Head(p.todo) = row /\ Tail(p.todo) = <<>>
    <3> HIDE DEF row
    <3> QED
      BY <1>1
  <2>2. row.op = "add" /\ row.line = Row(t, phase, i)
    OBVIOUS
  <2>3. /\ renaming' = renaming
        /\ files' = AddDataToFile(files, t, "add", Row(t, phase, i))
        /\ puts' = [puts EXCEPT ![t] = [puts[t] EXCEPT !.todo = Tail(p.todo)]]
    <3> HIDE DEF row
    <3> QED
      BY <2>1, <2>2 DEF WriteLine
  <2>4. puts' = [puts EXCEPT ![t] = new]
    BY <2>1, <2>3
  <2> HIDE DEF row, new
  <2> QED
    BY <2>3, <2>4 DEF AddDataToFile
<1>3. /\ p = [todo |-> p.todo, next |-> p.next, phase |-> p.phase]
      /\ p.phase \in Nat \ {0}
      /\ DOMAIN puts = Names
  BY DEF PutsInv, TuningInv
<1>4. /\ new = [todo |-> <<>>, next |-> p.next, phase |-> p.phase]
      /\ new.todo = <<>> /\ new.next = p.next /\ new.phase = p.phase
  <2> HIDE DEF p
  <2> QED
    BY <1>3, TodoField
<1> HIDE DEF new
<1>5. /\ DOMAIN puts' = Names /\ puts'[t] = new
      /\ \A u \in Names : u # t => puts'[u] = puts[u]
  BY <1>2, <1>3
<1>6. Headless(lines)
  <2> DEFINE row1 == Row(t, phase, i)
  <2>1. row1[1] = "row"
    BY DEF Row
  <2>2. Sequence(old) /\ (Len(old) >= 1 => old[1][1] = "row")
    <3>1. CASE key \in DOMAIN files
      BY <3>1 DEF Beyond, Headless
    <3>2. CASE key \notin DOMAIN files
      <4>1. old = <<>>
        BY <3>2
      <4> HIDE DEF old
      <4> QED
        BY <4>1, EmptySequence
    <3> QED
      BY <3>1, <3>2
  <2> HIDE DEF old, row1
  <2>3. /\ Sequence(Append(old, row1)) /\ Len(old) \in Nat
        /\ Len(Append(old, row1)) = Len(old) + 1
        /\ Append(old, row1)[Len(old) + 1] = row1
        /\ \A n \in 1..Len(old) : Append(old, row1)[n] = old[n]
    BY <2>2, AppendSequence
  <2>4. Append(old, row1)[1][1] = "row"
    <3>1. CASE Len(old) = 0
      <4>1. Len(old) + 1 = 1
        BY <3>1
      <4> QED
        BY <2>1, <2>3, <4>1
    <3>2. CASE Len(old) # 0
      BY <2>2, <2>3, <3>2
    <3> QED
      BY <3>1, <3>2
  <2> QED
    BY <2>3, <2>4 DEF Headless, row1
<1> HIDE DEF lines
<1>7. /\ DOMAIN files' = DOMAIN files \cup {key} /\ files'[key] = lines
      /\ \A k \in DOMAIN files : k # key => files'[k] = files[k]
  BY <1>2 DEF Write
<1>8. \A u \in Names : u # t => key # <<"running", u>>
  OBVIOUS
<1>9. FilesInv'
  <2> SUFFICES ASSUME NEW k \in DOMAIN files'
               PROVE  Titled(files'[k]) \/ (k[1] = "running" /\ Headless(files'[k]))
    BY DEF FilesInv, Titled, LinesOf, LineOf, MaxIter, Headless
  <2>1. CASE k = key
    BY <1>6, <1>7, <2>1
  <2>2. CASE k # key
    BY <1>7, <2>2 DEF FilesInv
  <2> QED
    BY <2>1, <2>2
<1>10. \A u \in Names : u # t => TuningInv(u)'
  <2> SUFFICES ASSUME NEW u \in Names, u # t PROVE TuningInv(u)'
    OBVIOUS
  <2>1. SameRunning(u)
    <3> HIDE DEF key
    <3> QED
      BY <1>5, <1>7, <1>8 DEF SameRunning
  <2> QED
    BY <2>1, OthersKept DEF PutsInv
<1>11. Beyond(puts'[t], files', t, phase, i)
  <2>1. i >= MaxIter(t, phase) /\ Follows(p, t, phase, i)
    BY DEF Beyond
  <2>2. Follows(new, t, phase, i)
    BY <1>4, <2>1 DEF Follows
  <2> QED
    BY <1>4, <1>5, <1>6, <1>7, <2>1, <2>2 DEF Beyond
<1>12. TuningInv(t)'
  BY <1>3, <1>4, <1>5, <1>11 DEF TuningInv
<1>13. RenamingInv'
  BY <1>2, <1>7 DEF RenamingInv
<1> QED
  BY <1>5, <1>9, <1>10, <1>12, <1>13 DEF PutsInv

LEMMA WriteLineStep ==
  ASSUME FilesAssumption, FilesInv, PutsInv, RenamingInv, NEW t \in Names, WriteLine(t)
  PROVE  FilesInv' /\ PutsInv' /\ RenamingInv'
<1>1. TuningInv(t) /\ puts[t].todo # <<>>
  BY DEF PutsInv, WriteLine
<1>2. ASSUME NEW phase \in 1..Len(Iterations[t]), NEW i \in Nat \cup {-1}, NEW m \in Nat,
             Underway(puts[t], files, t, phase, i, m)
      PROVE  FilesInv' /\ PutsInv' /\ RenamingInv'
  BY <1>2, WriteUnderway
<1>3. ASSUME NEW phase \in 1..Len(Iterations[t]), NEW i \in Nat,
             Beyond(puts[t], files, t, phase, i)
      PROVE  FilesInv' /\ PutsInv' /\ RenamingInv'
  BY <1>3, WriteBeyond
<1> QED
  BY <1>1, <1>2, <1>3 DEF TuningInv, Between

\* Renaming what is finished leaves alone what is written.
LEMMA RenameStep ==
  ASSUME FilesInv, PutsInv, RenamingInv, NEW old \in Names, RenameFile(old)
  PROVE  FilesInv' /\ PutsInv' /\ RenamingInv'
<1> DEFINE from == <<"finished", old>>
           to == <<"finished", NewName>>
<1>1. /\ files' = Write(Without(files, from), to, files[from])
      /\ old \in renaming /\ renaming' = renaming \ {old} /\ puts' = puts
  BY DEF RenameFile
<1>2. from \in DOMAIN files
  BY <1>1 DEF RenamingInv
<1>3. \A u \in Names : /\ <<"running", u>> # from /\ <<"running", u>> # to
                       /\ u # old => <<"finished", u>> # from
  OBVIOUS
<1> HIDE DEF from, to
<1>4. /\ DOMAIN files' = (DOMAIN files \ {from}) \cup {to} /\ files'[to] = files[from]
      /\ \A k \in DOMAIN files \ {from} : k # to => files'[k] = files[k]
  BY <1>1 DEF Write, Without
<1>5. FilesInv'
  <2> SUFFICES ASSUME NEW k \in DOMAIN files'
               PROVE  Titled(files'[k]) \/ (k[1] = "running" /\ Headless(files'[k]))
    BY DEF FilesInv, Titled, LinesOf, LineOf, MaxIter, Headless
  <2>1. CASE k = to
    <3>1. from[1] # "running"
      BY DEF from
    <3> QED
      BY <1>2, <1>4, <2>1, <3>1 DEF FilesInv
  <2>2. CASE k # to
    BY <1>4, <2>2 DEF FilesInv
  <2> QED
    BY <2>1, <2>2
<1>6. PutsInv'
  <2> SUFFICES ASSUME NEW u \in Names PROVE TuningInv(u)'
    BY <1>1 DEF PutsInv
  <2>1. SameRunning(u)
    BY <1>1, <1>3, <1>4 DEF SameRunning
  <2> QED
    BY <2>1, OthersKept DEF PutsInv
<1>7. RenamingInv'
  BY <1>1, <1>3, <1>4 DEF RenamingInv, to
<1> QED
  BY <1>5, <1>6, <1>7

-----------------------------------------------------------------------------
(* The page                                                                *)

RowsOf(t, phase, rows) ==
    /\ Sequence(rows) /\ Len(rows) \in 0..MaxIter(t, phase) + 1
    /\ \A n \in 1..Len(rows) :
          rows[n] = IF n <= MaxIter(t, phase) THEN Row(t, phase, n) ELSE End

\* The rows of a file follow its first three lines.
LEMMA RowsOfFile ==
  ASSUME NEW t, NEW phase, MaxIter(t, phase) \in Nat, NEW lines, LinesOf(t, phase, lines),
         NEW rows, rows = SubSeq(lines, 4, Len(lines))
  PROVE  RowsOf(t, phase, rows)
<1> DEFINE M == MaxIter(t, phase)
           l == Len(lines)
<1>1. /\ Sequence(lines) /\ l \in 1..M + 4
      /\ \A n \in 1..l : lines[n] = LineOf(t, phase, n)
  BY DEF LinesOf
<1>2. M \in Nat /\ l \in Nat
  BY <1>1
<1> HIDE DEF M, l
<1>3. CASE l < 3
  <2>1. rows = <<>>
    <3>1. /\ lines \in Seq({lines[n] : n \in DOMAIN lines}) /\ l < 4
      BY <1>1, <1>2, <1>3 DEF Sequence
    <3>2. SubSeq(lines, 4, l) = <<>>
      BY <1>2, <3>1
    <3> QED
      BY <3>2 DEF l
  <2>2. Sequence(rows) /\ Len(rows) = 0
    BY <2>1, EmptySequence
  <2>3. DOMAIN rows = 1..0
    BY <2>2, AppendSequence
  <2>4. 0 \in 0..M + 1 /\ \A n \in 1..0 : FALSE
    BY <1>2
  <2> QED
    BY <2>2, <2>3, <2>4 DEF M, RowsOf
<1>4. CASE l >= 3
  <2>1. 4 \in Nat \ {0} /\ 4 <= l + 1 /\ l <= Len(lines) /\ l + 1 - 4 = l - 3
    BY <1>2, <1>4 DEF l
  <2>2. rows = SubSeq(lines, 4, l)
    BY DEF l
  <2>3. /\ Sequence(rows) /\ Len(rows) = l - 3 /\ DOMAIN rows = 1..l - 3
        /\ \A n \in 1..l - 3 : rows[n] = lines[4 + n - 1]
    BY <1>1, <1>2, <2>1, <2>2, SubSequence
  <2>4. l - 3 \in 0..M + 1
    BY <1>1, <1>2, <1>4
  <2>5. ASSUME NEW n \in 1..l - 3
        PROVE  rows[n] = IF n <= M THEN Row(t, phase, n) ELSE End
    <3>1. /\ 4 + n - 1 = n + 3 /\ n + 3 \in 1..l /\ n + 3 - 3 = n
          /\ n + 3 # 1 /\ n + 3 # 2 /\ n + 3 # 3 /\ (n + 3 <= M + 3 <=> n <= M)
      BY <1>2, <1>4
    <3>2. rows[n] = LineOf(t, phase, n + 3)
      BY <1>1, <2>3, <3>1
    <3>3. LineOf(t, phase, n + 3) = IF n + 3 <= M + 3 THEN Row(t, phase, n + 3 - 3) ELSE End
      BY <3>1 DEF LineOf, M
    <3> QED
      BY <3>1, <3>2, <3>3
  <2> QED
    BY <2>3, <2>4, <2>5 DEF M, RowsOf
<1> QED
  BY <1>2, <1>3, <1>4

AnswerFrom(t, phase, line, answer) ==
    /\ Sequence(answer.page)
    /\ line + Len(answer.page) <= MaxIter(t, phase)
    /\ answer.line = -1 => line + Len(answer.page) = MaxIter(t, phase)
    /\ answer.line # -1 => answer.line = line + Len(answer.page)
    /\ \A n \in 1..Len(answer.page) : answer.page[n] = Row(t, phase, line + n)

\* An answer continues at the line that was asked for, and has no line only when
\* it has shown the last row.
LEMMA PageOfFile ==
  ASSUME FilesAssumption, NEW t, NEW phase, NEW rows, NEW line, NEW answer,
         MaxIter(t, phase) \in Nat, line \in 0..MaxIter(t, phase),
         answer = GetFileData(rows, line), RowsOf(t, phase, rows)
  PROVE  AnswerFrom(t, phase, line, answer)
<1> DEFINE M == MaxIter(t, phase)
           R == Len(rows)
           E == {m \in DOMAIN rows : m > line /\ rows[m] = End}
           S == {n - 1 : n \in E} \cup {line + FilePage, Max({line, R})}
           upTo == Min(S)
           page == SubSeq(rows, line + 1, upTo)
<1>1. /\ M \in Nat /\ R \in 0..M + 1 /\ line \in 0..M /\ DOMAIN rows = 1..R
      /\ FilePage \in Nat \ {0}
  BY AppendSequence DEF FilesAssumption, RowsOf
<1>2. \A n \in 1..R : rows[n] = End <=> n = M + 1
  <2>1. \A n : Row(t, phase, n) # End
    <3> SUFFICES ASSUME NEW n PROVE Row(t, phase, n) # End
      OBVIOUS
    <3>1. Row(t, phase, n)[1] = "row" /\ End[1] = "END"
      BY DEF Row, End
    <3> QED
      BY <3>1
  <2> QED
    BY <1>1, <2>1 DEF RowsOf
<1>3. answer = [page |-> page,
                line |-> IF upTo < line + FilePage /\ upTo < R THEN -1 ELSE upTo]
  BY DEF GetFileData
<1>4. Max({line, R}) = IF line <= R THEN R ELSE line
  <2>1. Max({line, R}) \in {line, R} /\ \A y \in {line, R} : Max({line, R}) >= y
    <3>1. \E x \in {line, R} : \A y \in {line, R} : x >= y
      BY <1>1
    <3> QED
      BY <3>1 DEF Max
  <2> QED
    BY <1>1, <2>1
<1>5. E = IF R = M + 1 THEN {M + 1} ELSE {}
  BY <1>1, <1>2
<1> HIDE DEF M, R, E, upTo, page
<1>6. /\ upTo \in line..M /\ (upTo <= R \/ upTo = line)
      /\ upTo < line + FilePage /\ upTo < R => upTo = M
  <2>1. CASE R = M + 1
    <3>1. {n - 1 : n \in E} = {M}
      BY <1>1, <1>5, <2>1
    <3>2. S = {M, line + FilePage, M + 1}
      <4>1. Max({line, R}) = M + 1
        BY <1>1, <1>4, <2>1
      <4>2. S = {M} \cup {line + FilePage, M + 1}
        BY <3>1, <4>1
      <4> HIDE DEF S
      <4> QED
        BY <4>2
    <3> DEFINE x == IF line + FilePage < M THEN line + FilePage ELSE M
    <3> HIDE DEF S
    <3>3. x \in S /\ S \subseteq Int /\ \A y \in S : x <= y
      BY <1>1, <3>2
    <3>4. upTo = x
      <4> HIDE DEF x
      <4> QED
        BY <3>3, MinIs DEF upTo, S
    <3> QED
      BY <1>1, <2>1, <3>4
  <2>2. CASE R # M + 1
    <3>1. {n - 1 : n \in E} = {}
      BY <1>5, <2>2
    <3> DEFINE l == IF line <= R THEN R ELSE line
               x == IF line + FilePage < l THEN line + FilePage ELSE l
    <3>2. S = {line + FilePage, l}
      BY <1>4, <3>1
    <3> HIDE DEF S
    <3>3. x \in S /\ S \subseteq Int /\ \A y \in S : x <= y
      BY <1>1, <3>2
    <3>4. upTo = x
      <4> HIDE DEF x
      <4> QED
        BY <3>3, MinIs DEF upTo, S
    <3> QED
      BY <1>1, <2>2, <3>4
  <2> QED
    BY <2>1, <2>2
<1>7. /\ Sequence(page) /\ Len(page) = upTo - line
      /\ \A n \in 1..upTo - line : page[n] = rows[line + n]
  <2>1. /\ line + 1 \in Nat \ {0} /\ upTo \in Nat /\ line + 1 <= upTo + 1
        /\ (upTo <= R \/ line + 1 = upTo + 1) /\ upTo + 1 - (line + 1) = upTo - line
        /\ \A n \in Int : line + 1 + n - 1 = line + n
    BY <1>1, <1>6
  <2>2. /\ Sequence(page) /\ Len(page) = upTo + 1 - (line + 1)
        /\ \A n \in 1..upTo + 1 - (line + 1) : page[n] = rows[line + 1 + n - 1]
    <3>1. Sequence(rows)
      BY DEF RowsOf
    <3>2. upTo <= Len(rows) \/ line + 1 = upTo + 1
      BY <2>1 DEF R
    <3> DEFINE a == line + 1
    <3>3. a \in Nat \ {0} /\ upTo \in Nat /\ a <= upTo + 1
      BY <2>1
    <3> HIDE DEF a
    <3>4. /\ Sequence(SubSeq(rows, a, upTo)) /\ Len(SubSeq(rows, a, upTo)) = upTo + 1 - a
          /\ \A n \in 1..upTo + 1 - a : SubSeq(rows, a, upTo)[n] = rows[a + n - 1]
      BY <3>1, <3>2, <3>3, SubSequence DEF a
    <3>5. page = SubSeq(rows, a, upTo) /\ a = line + 1
      BY DEF page, a
    <3> HIDE DEF page
    <3> QED
      BY <3>4, <3>5
  <2>3. ASSUME NEW n \in 1..upTo - line PROVE page[n] = rows[line + n]
    <3>1. n \in 1..upTo + 1 - (line + 1) /\ line + 1 + n - 1 = line + n
      BY <1>1, <2>1
    <3> QED
      BY <2>2, <3>1
  <2> QED
    BY <2>1, <2>2, <2>3
<1>8. \A n \in 1..upTo - line : page[n] = Row(t, phase, line + n)
  <2> SUFFICES ASSUME NEW n \in 1..upTo - line PROVE page[n] = Row(t, phase, line + n)
    OBVIOUS
  <2>1. line + n \in 1..R /\ line + n <= M
    BY <1>1, <1>6
  <2>2. rows[line + n] = Row(t, phase, line + n)
    BY <2>1 DEF R, M, RowsOf
  <2> QED
    BY <1>7, <2>2
<1>9. /\ answer.page = page
      /\ answer.line = IF upTo < line + FilePage /\ upTo < R THEN -1 ELSE upTo
  BY <1>3
<1> QED
  BY <1>1, <1>6, <1>7, <1>8, <1>9 DEF M, AnswerFrom

LEMMA ReadStep ==
  ASSUME FilesAssumption, FilesInv, ReaderInv, ReadFile
  PROVE  ReaderInv'
<1> DEFINE lines == files[<<reader.dir, reader.name>>]
           rows == SubSeq(lines, HeaderLines + 1, Len(lines))
           answer == GetFileData(rows, reader.line)
<1>0. reader.state = "open" /\ DOMAIN reader = ReaderFields
  BY DEF ReadFile, ReaderInv
<1>1. CASE ~TuningExist(reader.dir, reader.name)
  <2>1. reader' = [reader EXCEPT !.state = "left"]
    BY <1>1 DEF ReadFile
  <2>2. /\ DOMAIN reader' = ReaderFields /\ reader'.state = "left"
        /\ reader'.from = reader.from /\ reader'.shown = reader.shown
    BY <1>0, <2>1 DEF ReaderFields
  <2> QED
    BY <2>2 DEF ReaderInv
<1>2. CASE TuningExist(reader.dir, reader.name)
  <2> DEFINE state == IF answer.line = -1 THEN "end" ELSE "poll"
             from == reader.from \cup {lines[1]}
  <2>1. reader' = [reader EXCEPT !.line = answer.line, !.shown = reader.shown \o answer.page,
                                 !.from = from, !.state = state]
    BY <1>2 DEF ReadFile
  <2>2. /\ DOMAIN reader' = ReaderFields /\ reader'.state = state
        /\ reader'.from = from /\ reader'.line = answer.line
        /\ reader'.shown = reader.shown \o answer.page
    <3> HIDE DEF answer, state, from
    <3> QED
      BY <1>0, <2>1 DEF ReaderFields
  <2>12. CASE Headless(lines)
    <3>1. \A u, ph : lines[1] # Info(u, ph)
      <4> SUFFICES ASSUME NEW u, NEW ph PROVE lines[1] # Info(u, ph)
        OBVIOUS
      <4>1. lines[1][1] = "row" /\ Info(u, ph)[1] = "info"
        BY <2>12 DEF Headless, Info
      <4> HIDE DEF lines
      <4> QED
        BY <4>1
    <3>2. reader'.from # {} /\ \A u, ph : reader'.from # {Info(u, ph)}
      BY <2>2, <3>1
    <3>3. reader'.state \in {"end", "poll"}
      BY <2>2
    <3> QED
      BY <2>2, <3>2, <3>3 DEF ReaderInv
  <2> SUFFICES ASSUME ~Headless(lines) PROVE ReaderInv'
    BY <2>12
  <2>11. PICK t \in Names : \E phase \in 1..Len(Iterations[t]) : LinesOf(t, phase, lines)
    BY <1>2 DEF TuningExist, FilesInv, Titled
  <2>3. PICK phase \in 1..Len(Iterations[t]) : LinesOf(t, phase, lines)
    BY <2>11
  <2> DEFINE M == MaxIter(t, phase)
  <2>4. M \in Nat
    BY IterationsOf
  <2>5. lines[1] = Info(t, phase)
    <3>1. 1 \in 1..Len(lines)
      BY <2>3, <2>4 DEF LinesOf
    <3>2. LineOf(t, phase, 1) = Info(t, phase)
      BY DEF LineOf
    <3> HIDE DEF lines
    <3> QED
      BY <2>3, <3>1, <3>2 DEF LinesOf
  <2>6. RowsOf(t, phase, rows)
    <3>1. rows = SubSeq(lines, 4, Len(lines))
      BY DEF HeaderLines
    <3> HIDE DEF rows, lines
    <3> QED
      BY <2>3, <2>4, <3>1, RowsOfFile
  <2>7. ASSUME reader.from \subseteq {Info(t, phase)}
        PROVE  /\ Sequence(reader'.shown)
               /\ \A n \in 1..Len(reader'.shown) : reader'.shown[n] = Row(t, phase, n)
               /\ Len(reader'.shown) <= M
               /\ reader'.state \in {"poll", "gone", "open"} =>
                     reader'.line = Len(reader'.shown)
               /\ reader'.state = "end" => Len(reader'.shown) = M
    <3>1. /\ Sequence(reader.shown) /\ reader.line = Len(reader.shown)
          /\ Len(reader.shown) \in 0..M
          /\ \A n \in 1..Len(reader.shown) : reader.shown[n] = Row(t, phase, n)
      <4>1. CASE reader.from = {}
        <5>1. reader.shown = <<>> /\ reader.line = 0
          BY <1>0, <4>1 DEF ReaderInv
        <5> QED
          BY <2>4, <5>1, EmptySequence
      <4>2. CASE reader.from = {Info(t, phase)}
        <5>1. /\ Sequence(reader.shown) /\ reader.line = Len(reader.shown)
              /\ Len(reader.shown) <= M
              /\ \A n \in 1..Len(reader.shown) : reader.shown[n] = Row(t, phase, n)
          BY <1>0, <2>3, <4>2 DEF ReaderInv
        <5>2. Len(reader.shown) \in Nat
          BY <5>1, AppendSequence
        <5> QED
          BY <2>4, <5>1, <5>2
      <4> QED
        BY <2>7, <4>1, <4>2
    <3>2. /\ Sequence(answer.page)
          /\ reader.line + Len(answer.page) <= M
          /\ answer.line = -1 => reader.line + Len(answer.page) = M
          /\ answer.line # -1 => answer.line = reader.line + Len(answer.page)
          /\ \A n \in 1..Len(answer.page) :
                answer.page[n] = Row(t, phase, reader.line + n)
      <4>1. reader.line \in 0..M
        BY <3>1
      <4> DEFINE line == reader.line
      <4>2. answer = GetFileData(rows, line) /\ line \in 0..M
        BY <4>1
      <4> HIDE DEF rows, answer, line
      <4>3. AnswerFrom(t, phase, line, answer)
        BY <2>4, <2>6, <4>2, PageOfFile
      <4> QED
        BY <4>3 DEF line, AnswerFrom
    <3> DEFINE s == reader.shown
               page == answer.page
               new == s \o page
    <3> HIDE DEF page, answer, s
    <3>3. /\ Sequence(new) /\ Len(new) = Len(s) + Len(page)
          /\ Len(s) \in Nat /\ Len(page) \in Nat
          /\ \A n \in 1..Len(s) : new[n] = s[n]
          /\ \A n \in 1..Len(page) : new[Len(s) + n] = page[n]
      <4>1. Sequence(s) /\ Sequence(page)
        BY <3>1, <3>2 DEF s, page
      <4> QED
        BY ONLY <4>1, Concatenated
    <3> HIDE DEF new
    <3>4. ASSUME NEW n \in 1..Len(new) PROVE new[n] = Row(t, phase, n)
      <4>1. CASE n \in 1..Len(s)
        BY <3>1, <3>3, <4>1 DEF s
      <4>2. CASE n \notin 1..Len(s)
        <5>1. n - Len(s) \in 1..Len(page) /\ Len(s) + (n - Len(s)) = n
          BY <3>3, <4>2
        <5>2. new[Len(s) + (n - Len(s))] = page[n - Len(s)]
          BY <3>3, <5>1
        <5>3. page[n - Len(s)] = Row(t, phase, Len(s) + (n - Len(s)))
          BY <3>1, <3>2, <5>1 DEF s, page
        <5> QED
          BY <5>1, <5>2, <5>3
      <4> QED
        BY <4>1, <4>2
    <3>5. reader'.shown = new
      BY <2>2 DEF new, s, page
    <3>6. /\ Len(new) <= M
          /\ answer.line = -1 => Len(new) = M
          /\ answer.line # -1 => answer.line = Len(new)
      BY <3>1, <3>2, <3>3 DEF s, page
    <3> QED
      BY <2>2, <3>3, <3>4, <3>5, <3>6
  <2>8. ASSUME NEW u \in Names, NEW ph \in 1..Len(Iterations[u]), reader'.from = {Info(u, ph)}
        PROVE  u = t /\ ph = phase /\ reader.from \subseteq {Info(t, phase)}
    <3>1. Info(t, phase) \in {Info(u, ph)} /\ reader.from \subseteq {Info(u, ph)}
      BY <2>2, <2>5, <2>8
    <3>2. Info(t, phase) = Info(u, ph)
      BY <3>1
    <3>3. /\ Info(t, phase)[2] = t /\ Info(t, phase)[3] = phase
          /\ Info(u, ph)[2] = u /\ Info(u, ph)[3] = ph
      BY DEF Info
    <3> QED
      BY <3>1, <3>2, <3>3
  <2>9. reader'.from # {} /\ reader'.state \in {"end", "poll"}
    BY <2>2
  <2> HIDE DEF M
  <2>10. \A u \in Names : \A ph \in 1..Len(Iterations[u]) :
           reader'.from = {Info(u, ph)} =>
             /\ Sequence(reader'.shown)
             /\ \A n \in 1..Len(reader'.shown) : reader'.shown[n] = Row(u, ph, n)
             /\ Len(reader'.shown) <= MaxIter(u, ph)
             /\ reader'.state \in {"poll", "gone", "open"} =>
                   reader'.line = Len(reader'.shown)
             /\ reader'.state = "end" => Len(reader'.shown) = MaxIter(u, ph)
    BY <2>7, <2>8 DEF M
  <2> QED
    BY <2>2, <2>9, <2>10 DEF ReaderInv, Sequence, Row, Info, MaxIter
<1> QED
  BY <1>1, <1>2

\* A page is chosen, a file is looked for.
LEMMA OtherReaderSteps ==
  ASSUME ReaderInv,
         \/ \E key \in DOMAIN files : ChooseFile(key)
         \/ TestFile \/ GetTuningStatus
  PROVE  ReaderInv'
<1>0. DOMAIN reader = ReaderFields
  BY DEF ReaderInv
<1>1. ASSUME NEW key \in DOMAIN files, ChooseFile(key) PROVE ReaderInv'
  <2>1. /\ DOMAIN reader' = ReaderFields /\ reader'.from = {} /\ reader'.shown = <<>>
        /\ reader'.line = 0 /\ reader'.state = "poll"
    BY <1>1 DEF ChooseFile, NoReader, ReaderFields
  <2>2. \A x : {} # {x}
    OBVIOUS
  <2> QED
    BY <2>1, <2>2 DEF ReaderInv
<1>2. CASE TestFile \/ GetTuningStatus
  <2>1. /\ DOMAIN reader' = ReaderFields /\ reader'.from = reader.from
        /\ reader'.shown = reader.shown /\ reader'.line = reader.line
        /\ reader.state \in {"poll", "gone"}
        /\ reader'.state \in {"poll", "open", "gone", "left"}
    <3>1. CASE TestFile
      BY <1>0, <3>1 DEF TestFile, ReaderFields
    <3>2. CASE GetTuningStatus
      BY <1>0, <3>2 DEF GetTuningStatus, ReaderFields
    <3> QED
      BY <1>2, <3>1, <3>2
  <2> QED
    BY <2>1 DEF ReaderInv
<1> QED
  BY <1>1, <1>2

\* A page of an analysis asks for more as long as an answer is full.
LEMMA SheetSteps ==
  ASSUME FilesAssumption, ReaderInv,
         (\E length \in CsvLines : ChooseAnalysis(length)) \/ GetAnalysisDetails
  PROVE  ReaderInv'
<1>0. DOMAIN reader = ReaderFields
  BY DEF ReaderInv
<1>1. ASSUME NEW length \in CsvLines, ChooseAnalysis(length) PROVE ReaderInv'
  <2>1. /\ DOMAIN reader' = ReaderFields /\ reader'.from = {} /\ reader'.shown = <<>>
        /\ reader'.line = 0 /\ reader'.state = "sheet" /\ reader'.length = length
    BY <1>1 DEF ChooseAnalysis, NoReader, ReaderFields
  <2>2. length \in Nat /\ \A x : {} # {x}
    BY DEF FilesAssumption
  <2> QED
    BY <2>1, <2>2 DEF ReaderInv
<1>2. CASE GetAnalysisDetails
  <2> DEFINE count == GetAnalysisCsv(reader.length, reader.line)
             line == reader.line
             length == reader.length
  <2>1. /\ reader.state = "sheet"
        /\ reader' = [reader EXCEPT !.line = line + count,
                        !.state = IF count = 0 \/ count % CsvPage # 0 THEN "whole" ELSE "sheet"]
    BY <1>2 DEF GetAnalysisDetails
  <2>2. length \in Nat /\ line \in Nat /\ line <= length /\ CsvPage \in Nat \ {0}
    BY <2>1 DEF ReaderInv, FilesAssumption
  <2>3. count = IF CsvPage <= length - line THEN CsvPage ELSE length - line
    <3> DEFINE S == {CsvPage, length - line}
               x == IF CsvPage <= length - line THEN CsvPage ELSE length - line
    <3> HIDE DEF line, length
    <3>1. S \subseteq Int /\ x \in S /\ \A y \in S : x <= y
      BY <2>2
    <3>2. count = Min(S)
      BY DEF GetAnalysisCsv, line, length
    <3> HIDE DEF S, x, count
    <3>3. count = x
      BY <3>1, <3>2, MinIs
    <3> QED
      BY <3>3 DEF x
  <2> HIDE DEF line, length, count
  <2>4. /\ count \in Nat /\ line + count <= length
        /\ count = 0 \/ count % CsvPage # 0 => line + count = length
    <3>1. CsvPage % CsvPage = 0
      BY <2>2
    <3> QED
      BY <2>2, <2>3, <3>1
  <2>5. /\ DOMAIN reader' = ReaderFields /\ reader'.line = line + count
        /\ reader'.state = (IF count = 0 \/ count % CsvPage # 0 THEN "whole" ELSE "sheet")
        /\ reader'.from = reader.from /\ reader'.shown = reader.shown
        /\ reader'.length = length
    BY <1>0, <2>1 DEF ReaderFields, length
  <2>6. /\ reader'.length \in Nat /\ reader'.line \in Nat /\ reader'.line <= reader'.length
        /\ reader'.state = "whole" => reader'.line = reader'.length
        /\ reader'.state \in {"sheet", "whole"}
    BY <2>2, <2>4, <2>5
  <2>7. /\ reader'.from = {} => reader'.shown = <<>>
        /\ reader'.state \notin {"poll", "gone", "open", "end"}
    BY <2>5, <2>6 DEF ReaderInv
  <2>8. \A t \in Names : \A phase \in 1..Len(Iterations[t]) :
          reader'.from = {Info(t, phase)} =>
             /\ Sequence(reader'.shown)
             /\ \A n \in 1..Len(reader'.shown) : reader'.shown[n] = Row(t, phase, n)
             /\ Len(reader'.shown) <= MaxIter(t, phase)
    BY <2>5 DEF ReaderInv
  <2> QED
    BY <2>5, <2>6, <2>7, <2>8 DEF ReaderInv, Sequence, Row, Info, MaxIter
<1> QED
  BY <1>1, <1>2

LEMMA FilesInvInit == ASSUME FileInit PROVE AllFilesInv
<1>1. DOMAIN files = {} /\ renaming = {} /\ reader = NoReader
  BY DEF FileInit
<1>2. PutsInv
  <2>1. DOMAIN puts = Names
    BY DEF FileInit
  <2>2. ASSUME NEW t \in Names PROVE TuningInv(t)
    <3>1. puts[t] = [todo |-> <<>>, next |-> -1, phase |-> 1]
      BY <2>2 DEF FileInit
    <3> QED
      BY <1>1, <3>1 DEF TuningInv, Between
  <2> QED
    BY <2>1, <2>2 DEF PutsInv
<1>3. ReaderInv
  <2>1. /\ DOMAIN reader = ReaderFields /\ reader.from = {} /\ reader.shown = <<>>
        /\ reader.state = "closed"
    BY <1>1 DEF NoReader, ReaderFields
  <2>2. \A x : {} # {x}
    OBVIOUS
  <2> QED
    BY <2>1, <2>2 DEF ReaderInv
<1> QED
  BY <1>1, <1>2, <1>3 DEF AllFilesInv, FilesInv, RenamingInv

\* What does not touch a file, a PUT or a rename keeps what is said of them.
LEMMA FilesKept == ASSUME FilesInv, UNCHANGED files PROVE FilesInv'
<1> SUFFICES ASSUME NEW key \in DOMAIN files
             PROVE  Titled(files'[key]) \/ (key[1] = "running" /\ Headless(files'[key]))
  BY DEF FilesInv, Titled
<1> QED
  BY DEF FilesInv

LEMMA PutsKept == ASSUME PutsInv, UNCHANGED <<files, puts>> PROVE PutsInv'
<1>1. ASSUME NEW t \in Names PROVE TuningInv(t)'
  <2>1. SameRunning(t)
    BY DEF SameRunning
  <2> QED
    BY <2>1, OthersKept DEF PutsInv
<1> QED
  BY <1>1 DEF PutsInv

LEMMA RenamingKept == ASSUME RenamingInv, UNCHANGED <<files, renaming>> PROVE RenamingInv'
BY DEF RenamingInv

LEMMA FilesInvStep ==
  ASSUME FilesAssumption, AllFilesInv, [EngineNext]_engineVars
  PROVE  AllFilesInv'
<1>0. FilesInv /\ PutsInv /\ RenamingInv /\ ReaderInv
  BY DEF AllFilesInv
<1>1. ASSUME UNCHANGED <<files, puts, renaming>> PROVE FilesInv' /\ PutsInv' /\ RenamingInv'
  BY <1>0, <1>1, FilesKept, PutsKept, RenamingKept
<1>2. ASSUME UNCHANGED reader PROVE ReaderInv'
  BY <1>0, <1>2 DEF ReaderInv
<1>3. ASSUME NEW t \in Names, PutTuning(t) PROVE AllFilesInv'
  <2>1. PutsInv'
    BY <1>0, <1>3, PutStep
  <2>2. UNCHANGED <<files, reader, renaming>>
    BY <1>3 DEF PutTuning
  <2> QED
    BY <1>0, <1>2, <2>1, <2>2, FilesKept, RenamingKept DEF AllFilesInv
<1>4. ASSUME NEW t \in Names, WriteLine(t) PROVE AllFilesInv'
  <2>1. UNCHANGED reader
    BY <1>4 DEF WriteLine
  <2> QED
    BY <1>0, <1>2, <1>4, <2>1, WriteLineStep DEF AllFilesInv
<1>5. ASSUME NEW key \in DOMAIN files, ChooseFile(key) PROVE AllFilesInv'
  <2>1. UNCHANGED <<files, puts, renaming>>
    BY <1>5 DEF ChooseFile
  <2> QED
    BY <1>0, <1>1, <1>5, <2>1, OtherReaderSteps DEF AllFilesInv
<1>6. CASE TestFile \/ GetTuningStatus
  <2>1. UNCHANGED <<files, puts, renaming>>
    BY <1>6 DEF TestFile, GetTuningStatus
  <2> QED
    BY <1>0, <1>1, <1>6, <2>1, OtherReaderSteps DEF AllFilesInv
<1>7. CASE ReadFile
  <2>1. UNCHANGED <<files, puts, renaming>>
    BY <1>7 DEF ReadFile
  <2> QED
    BY <1>0, <1>1, <1>7, <2>1, ReadStep DEF AllFilesInv
<1>8. ASSUME NEW old \in Names, TestRename(old) PROVE AllFilesInv'
  <2>1. /\ UNCHANGED <<files, puts, reader>> /\ renaming' = renaming \cup {old}
        /\ <<"finished", old>> \in DOMAIN files
    BY <1>8 DEF TestRename, TuningExist
  <2>2. RenamingInv'
    BY <1>0, <2>1 DEF RenamingInv
  <2>3. FilesInv' /\ PutsInv'
    BY <1>0, <2>1, FilesKept, PutsKept
  <2> QED
    BY <1>2, <2>1, <2>2, <2>3 DEF AllFilesInv
<1>9. ASSUME NEW old \in Names, RenameFile(old) PROVE AllFilesInv'
  <2>1. UNCHANGED reader
    BY <1>9 DEF RenameFile
  <2> QED
    BY <1>0, <1>2, <1>9, <2>1, RenameStep DEF AllFilesInv
<1>10. CASE (\E length \in CsvLines : ChooseAnalysis(length)) \/ GetAnalysisDetails
  <2>1. UNCHANGED <<files, puts, renaming>>
    BY <1>10 DEF ChooseAnalysis, GetAnalysisDetails
  <2> QED
    BY <1>0, <1>1, <1>10, <2>1, SheetSteps DEF AllFilesInv
<1>11. CASE FileNext
  BY <1>3, <1>4, <1>5, <1>6, <1>7, <1>8, <1>9, <1>10, <1>11 DEF FileNext
<1>12. CASE UNCHANGED fileVars
  <2>1. UNCHANGED <<files, puts, renaming>> /\ UNCHANGED reader
    BY <1>12 DEF fileVars
  <2> QED
    BY <1>1, <1>2, <2>1 DEF AllFilesInv
<1> QED
  BY <1>11, <1>12 DEF EngineNext, SearchTask, FilesTask, ModelsTask, engineVars

(* Every file of a tuning holds the first lines of one phase of one tuning, *)
(* in order, whatever is finished, moved, renamed and read at the same      *)
(* time (TuningFiles).                                                     *)
THEOREM FilesConsistent == EngineSpec => []AllFilesInv
<1>1. EngineInit => AllFilesInv
  BY FilesInvInit DEF EngineInit
<1>2. AllFilesInv /\ [EngineNext]_engineVars => AllFilesInv'
  BY FilesInvStep, FilesAssumption
<1> QED
  BY <1>1, <1>2, PTL DEF EngineSpec

LEMMA FilesInvExact == ASSUME AllFilesInv PROVE FileReaderExact
<1>1. ASSUME NEW t \in Names, NEW phase \in DOMAIN Iterations[t],
             reader.from = {Info(t, phase)}
      PROVE  /\ \A i \in DOMAIN reader.shown : reader.shown[i] = Row(t, phase, i)
             /\ reader.state = "end" => Len(reader.shown) = MaxIter(t, phase)
  <2>1. phase \in 1..Len(Iterations[t])
    BY FilesAssumption DEF FilesAssumption
  <2>2. /\ Sequence(reader.shown)
        /\ \A n \in 1..Len(reader.shown) : reader.shown[n] = Row(t, phase, n)
        /\ reader.state = "end" => Len(reader.shown) = MaxIter(t, phase)
    BY <1>1, <2>1 DEF AllFilesInv, ReaderInv
  <2>3. DOMAIN reader.shown = 1..Len(reader.shown)
    BY <2>2, AppendSequence
  <2> QED
    BY <2>2, <2>3
<1>2. reader.state = "whole" => reader.line = reader.length
  BY DEF AllFilesInv, ReaderInv
<1> QED
  BY <1>1, <1>2 DEF FileReaderExact

(* A page taken from one file has shown its first rows, each once and in    *)
(* order (get_file_tuning_data and its readers).                           *)
THEOREM PagesExact == EngineSpec => []FileReaderExact
BY FilesConsistent, FilesInvExact, PTL

-----------------------------------------------------------------------------
(* abtest, knob after knob                                                 *)

\* Every knob has something to try; an abtest of a knob without an item fails
\* before its first evaluation, and is not modelled.
Triable(knobs) ==
    /\ Sequence(knobs) /\ Len(knobs) > 0
    /\ \A i \in 1..Len(knobs) :
          Sequence(ABtestItems(knobs[i])) /\ Len(ABtestItems(knobs[i])) > 0
ABtestsTriable == \A t \in Tasks : t.engine = "abtest" => Triable(t.knobs)

\* A steady benchmark answers alike.
SteadyLog(lines) ==
    \A m, n \in 1..Len(lines) :
        lines[m].setting = lines[n].setting => lines[m].value = lines[n].value
SteadyInv ==
    /\ w.pc = "idle" => log = <<>>
    /\ w.pc # "idle" /\ w.engine = "abtest" => Triable(w.knobs)
    /\ w.steady => SteadyLog(log)

\* The setting best is one of the first evaluations, and the best of them.
BestOfFirst(options, perf, best, top) ==
    \E n \in 1..top : options[n] = best /\ \A k \in 1..top : perf[n] <= perf[k]

\* m items of knob i have been evaluated, last of all; another one may be under
\* way, and the rest is planned.
SweepAt(v, items, sweep, m, asked) ==
    /\ Sequence(v.plan) /\ m + asked + Len(v.plan) = Len(items)
    /\ asked = 0 => v.plan # <<>>
    /\ \A j \in 1..Len(v.plan) : v.plan[j] = sweep[m + asked + j]
    /\ asked = 1 => v.asked = sweep[m + 1]
    /\ \A j \in 1..m : v.options[Len(v.options) - m + j] = sweep[j]

\* The knobs before that which is tried have their best items, the others their
\* first, and what was kept is the best of what was evaluated before the sweep.
KnobsKept(v) ==
    /\ v.best = [j \in 1..Len(v.knobs) |-> v.best[j]]
    /\ v.knob \in 1..Len(v.knobs) + 1
    /\ \A j \in v.knob..Len(v.knobs) : v.best[j] = ABtestItems(v.knobs[j])[1]
BeforeSweep(v, m) ==
    /\ m <= Len(v.options)
    /\ v.knob = 1 => Len(v.options) = m
    /\ v.knob > 1 /\ v.steady =>
          BestOfFirst(v.options, v.perf, v.best, Len(v.options) - m)
Descending(v, m) ==
    /\ v.calls = 0 /\ KnobsKept(v) /\ BeforeSweep(v, m)
    /\ v.knob <= Len(v.knobs) =>
          SweepAt(v, ABtestItems(v.knobs[v.knob]), Sweep(v.knobs, v.best, v.knob), m,
                  IF v.pc = "objective" THEN 1 ELSE 0)
    /\ v.knob > Len(v.knobs) => v.pc = "search" /\ v.plan = <<>> /\ m = 0

DescentInv ==
    w.engine = "abtest" =>
        /\ w.pc \in {"idle", "start", "search", "objective", "select", "done", "error",
                   "crashed"}
        /\ w.pc = "start" => w.options = <<>> /\ w.perf = <<>> /\ w.calls = 0
        /\ w.pc \in {"search", "objective"} => \E m \in Nat : Descending(w, m)
        /\ w.pc \in {"select", "done"} /\ w.steady =>
              BestOfFirst(w.options, w.perf, w.best, Len(w.options))

ABtestInv == SearchInv /\ SteadyInv /\ DescentInv

LEMMA SweepItems ==
  ASSUME NEW knobs, NEW best, NEW i, Sequence(ABtestItems(knobs[i]))
  PROVE  /\ Sequence(Sweep(knobs, best, i))
         /\ Len(Sweep(knobs, best, i)) = Len(ABtestItems(knobs[i]))
         /\ \A j \in 1..Len(ABtestItems(knobs[i])) :
               Sweep(knobs, best, i)[j] = [best EXCEPT ![i] = ABtestItems(knobs[i])[j]]
<1> DEFINE items == ABtestItems(knobs[i])
           sweep == Sweep(knobs, best, i)
<1>1. Len(items) \in Nat /\ DOMAIN items = 1..Len(items)
  BY AppendSequence
<1>2. sweep = [j \in 1..Len(items) |-> [best EXCEPT ![i] = items[j]]]
  BY <1>1 DEF Sweep
<1> HIDE DEF items, sweep
<1>3. sweep = [j \in 1..Len(items) |-> sweep[j]]
  BY <1>2
<1> QED
  BY <1>1, <1>2, <1>3, MadeSequence DEF items, sweep

\* The sweep of a knob begins.
LEMMA SweepBegins ==
  ASSUME NEW v, NEW items, Sequence(items), Len(items) > 0,
         v.plan = Sweep(v.knobs, v.best, v.knob), items = ABtestItems(v.knobs[v.knob]),
         Sequence(v.options)
  PROVE  SweepAt(v, items, Sweep(v.knobs, v.best, v.knob), 0, 0)
<1>1. Sequence(v.plan) /\ Len(v.plan) = Len(items)
  BY SweepItems
<1>2. Len(items) \in Nat /\ v.plan # <<>>
  BY <1>1, AppendSequence, EmptySequence
<1>3. \A j \in 1..Len(v.plan) : v.plan[j] = Sweep(v.knobs, v.best, v.knob)[0 + 0 + j]
  BY <1>1, <1>2
<1> QED
  BY <1>1, <1>2, <1>3 DEF SweepAt

LEMMA DescentStarts ==
  ASSUME SearchInv, w.engine = "abtest", w.options = <<>>, w.calls = 0,
         Triable(w.knobs), StartABtest
  PROVE  w'.pc = "search" /\ Descending(w', 0)
<1>1. /\ w'.pc = "search" /\ w'.knob = 1 /\ w'.best = FirstItems(w.knobs)
      /\ w'.plan = Sweep(w.knobs, FirstItems(w.knobs), 1)
      /\ w'.knobs = w.knobs /\ w'.calls = 0 /\ w'.options = <<>>
  BY DEF StartABtest, SearchInv, OwnInv, SearchFields
<1>2. Len(w.knobs) \in Nat /\ DOMAIN w.knobs = 1..Len(w.knobs) /\ 1 \in 1..Len(w.knobs)
  BY AppendSequence DEF Triable
<1> DEFINE best == FirstItems(w.knobs)
<1>3. /\ best = [j \in 1..Len(w.knobs) |-> best[j]]
      /\ \A j \in 1..Len(w.knobs) : best[j] = ABtestItems(w.knobs[j])[1]
  BY <1>2 DEF FirstItems
<1> HIDE DEF best
<1>4. KnobsKept(w')
  <2>1. w'.best = best
    BY <1>1 DEF best
  <2>2. w'.best = [j \in 1..Len(w'.knobs) |-> w'.best[j]]
    BY <1>1, <1>3, <2>1
  <2>3. \A j \in w'.knob..Len(w'.knobs) : w'.best[j] = ABtestItems(w'.knobs[j])[1]
    BY <1>1, <1>2, <1>3, <2>1
  <2> QED
    BY <1>1, <1>2, <2>2, <2>3 DEF KnobsKept
<1>5. BeforeSweep(w', 0)
  BY <1>1, EmptySequence DEF BeforeSweep
<1>6. SweepAt(w', ABtestItems(w'.knobs[w'.knob]), Sweep(w'.knobs, w'.best, w'.knob), 0, 0)
  <2>1. Sequence(ABtestItems(w.knobs[1])) /\ Len(ABtestItems(w.knobs[1])) > 0
    BY <1>2 DEF Triable
  <2> QED
    BY <1>1, <2>1, SweepBegins, EmptySequence
<1> QED
  BY <1>1, <1>2, <1>4, <1>5, <1>6 DEF Descending

\* The next item of the sweep is asked for.
LEMMA DescentAsks ==
  ASSUME SearchInv, w.pc = "search", NEW m \in Nat, Descending(w, m), Ask
  PROVE  w'.pc = "objective" /\ Descending(w', m)
<1>1. w.calls = 0
  BY DEF Descending
<1>2. /\ w.plan # <<>> /\ w'.pc = "objective" /\ w'.asked = Head(w.plan)
      /\ w'.plan = Tail(w.plan) /\ w'.calls = 0 /\ w'.knobs = w.knobs /\ w'.knob = w.knob
      /\ w'.best = w.best /\ w'.options = w.options /\ w'.perf = w.perf
      /\ w'.steady = w.steady
  <2>1. w.plan # <<>> /\ w' = [w EXCEPT !.pc = "objective", !.asked = Head(w.plan),
                                        !.plan = Tail(w.plan)]
    BY <1>1 DEF Ask
  <2> QED
    BY <1>1, <2>1 DEF SearchInv, OwnInv, SearchFields
<1>3. KnobsKept(w') /\ BeforeSweep(w', m)
  BY <1>2 DEF Descending, KnobsKept, BeforeSweep
<1>4. ~(w.knob > Len(w.knobs))
  BY <1>2 DEF Descending
<1> DEFINE items == ABtestItems(w.knobs[w.knob])
           sweep == Sweep(w.knobs, w.best, w.knob)
<1>5. ASSUME w.knob <= Len(w.knobs) PROVE SweepAt(w', items, sweep, m, 1)
  <2>1. SweepAt(w, items, sweep, m, 0)
    BY <1>5 DEF Descending
  <2> HIDE DEF items, sweep
  <2>2. /\ Sequence(w.plan) /\ m + 0 + Len(w.plan) = Len(items)
        /\ \A j \in 1..Len(w.plan) : w.plan[j] = sweep[m + 0 + j]
        /\ \A j \in 1..m : w.options[Len(w.options) - m + j] = sweep[j]
    BY <2>1 DEF SweepAt
  <2>3. /\ Sequence(w'.plan) /\ Len(w.plan) \in Nat \ {0}
        /\ Len(w'.plan) = Len(w.plan) - 1 /\ w'.asked = w.plan[1]
        /\ \A j \in 1..Len(w.plan) - 1 : w'.plan[j] = w.plan[j + 1]
    BY <1>2, <2>2, TailSequence
  <2>4. w'.asked = sweep[m + 1]
    BY <2>2, <2>3
  <2>5. \A j \in 1..Len(w'.plan) : w'.plan[j] = sweep[m + 1 + j]
    <3> TAKE j \in 1..Len(w'.plan)
    <3>1. j + 1 \in 1..Len(w.plan) /\ m + 0 + (j + 1) = m + 1 + j
      BY <2>3
    <3> QED
      BY <2>2, <2>3, <3>1
  <2>6. m + 1 + Len(w'.plan) = Len(items)
    <3> DEFINE a == Len(w.plan)
               b == Len(w'.plan)
               c == Len(items)
    <3>1. a \in Nat /\ b = a - 1 /\ m + 0 + a = c
      BY <2>2, <2>3
    <3> HIDE DEF a, b, c
    <3>2. m + 1 + b = c
      BY <3>1
    <3> QED
      BY <3>2 DEF b, c
  <2>7. \A j \in 1..m : w'.options[Len(w'.options) - m + j] = sweep[j]
    BY <1>2, <2>2
  <2> DEFINE v == w'
  <2>8. /\ Sequence(v.plan) /\ m + 1 + Len(v.plan) = Len(items) /\ v.asked = sweep[m + 1]
        /\ \A j \in 1..Len(v.plan) : v.plan[j] = sweep[m + 1 + j]
        /\ \A j \in 1..m : v.options[Len(v.options) - m + j] = sweep[j]
    BY <2>3, <2>4, <2>5, <2>6, <2>7
  <2> HIDE DEF v
  <2>9. SweepAt(v, items, sweep, m, 1)
    BY <2>8 DEF SweepAt
  <2> QED
    BY <2>9 DEF v
<1> QED
  BY <1>2, <1>3, <1>4, <1>5 DEF Descending

\* The evaluations of the worker are steady too.
OwnOf(lines, options, perf) ==
    /\ Len(perf) <= Len(lines)
    /\ \A n \in 1..Len(perf) :
          /\ lines[Len(lines) - Len(perf) + n].setting = options[n]
          /\ lines[Len(lines) - Len(perf) + n].value = perf[n]

LEMMA SteadyOwn ==
  ASSUME NEW lines, NEW options, NEW perf, Len(lines) \in Nat, Len(perf) \in Nat,
         OwnOf(lines, options, perf), SteadyLog(lines)
  PROVE  \A n, k \in 1..Len(perf) : options[n] = options[k] => perf[n] = perf[k]
<1> SUFFICES ASSUME NEW n \in 1..Len(perf), NEW k \in 1..Len(perf), options[n] = options[k]
             PROVE  perf[n] = perf[k]
  OBVIOUS
<1> DEFINE d == Len(lines) - Len(perf)
<1>1. d + n \in 1..Len(lines) /\ d + k \in 1..Len(lines)
  BY DEF OwnOf
<1>2. /\ lines[d + n].setting = options[n] /\ lines[d + n].value = perf[n]
      /\ lines[d + k].setting = options[k] /\ lines[d + k].value = perf[k]
  BY DEF OwnOf
<1> HIDE DEF d
<1> QED
  BY <1>1, <1>2 DEF SteadyLog

LEMMA BestKept ==
  ASSUME NEW options, NEW perf, NEW best, NEW top \in Nat, NEW x, NEW y,
         Sequence(options), Sequence(perf), top <= Len(options), Len(options) = Len(perf),
         BestOfFirst(options, perf, best, top)
  PROVE  BestOfFirst(Append(options, x), Append(perf, y), best, top)
<1>1. /\ Len(options) \in Nat /\ \A n \in 1..Len(options) : Append(options, x)[n] = options[n]
      /\ \A n \in 1..Len(options) : Append(perf, y)[n] = perf[n]
  BY AppendSequence
<1>2. \A n \in 1..top : Append(options, x)[n] = options[n] /\ Append(perf, y)[n] = perf[n]
  BY <1>1
<1> QED
  BY <1>2 DEF BestOfFirst

\* One more item of the sweep has been evaluated.
Swept(v, options, perf, m) ==
    /\ v.knob <= Len(v.knobs)
    /\ m <= Len(options)
    /\ v.knob = 1 => Len(options) = m
    /\ v.knob > 1 /\ v.steady => BestOfFirst(options, perf, v.best, Len(options) - m)
    /\ m + Len(v.plan) = Len(ABtestItems(v.knobs[v.knob]))
    /\ \A j \in 1..m : options[Len(options) - m + j] = Sweep(v.knobs, v.best, v.knob)[j]

LEMMA DescentSwept ==
  ASSUME SearchInv, w.pc = "objective", NEW m \in Nat, Descending(w, m), NEW value
  PROVE  Swept(w, Append(w.options, w.asked), Append(w.perf, value), m + 1)
<1> DEFINE options == Append(w.options, w.asked)
           perf == Append(w.perf, value)
           items == ABtestItems(w.knobs[w.knob])
           sweep == Sweep(w.knobs, w.best, w.knob)
           l == Len(w.options)
<1>1. /\ Sequence(w.options) /\ Sequence(w.perf) /\ l = Len(w.perf)
      /\ l \in Nat
  BY AppendSequence DEF SearchInv, OwnInv
<1>2. /\ Len(options) = l + 1 /\ options[l + 1] = w.asked
      /\ \A n \in 1..l : options[n] = w.options[n]
  BY <1>1, AppendSequence
<1>3. /\ ~(w.knob > Len(w.knobs)) /\ KnobsKept(w) /\ BeforeSweep(w, m)
  BY DEF Descending
<1>4. w.knob <= Len(w.knobs)
  <2>1. CASE w.knob <= Len(w.knobs)
    BY <2>1
  <2>2. CASE ~(w.knob <= Len(w.knobs))
    <3>1. w.knob \in Int /\ Len(w.knobs) \in Int
      BY <1>3, <2>2 DEF KnobsKept
    <3> QED
      BY <1>3, <3>1
  <2> QED
    BY <2>1, <2>2
<1>5. SweepAt(w, items, sweep, m, 1)
  BY <1>4 DEF Descending
<1> HIDE DEF items, sweep, l
<1>6. /\ Sequence(w.plan) /\ m + 1 + Len(w.plan) = Len(items) /\ w.asked = sweep[m + 1]
      /\ \A j \in 1..m : w.options[l - m + j] = sweep[j]
  BY <1>5 DEF SweepAt, l
<1>7. m <= l /\ (w.knob = 1 => l = m)
      /\ (w.knob > 1 /\ w.steady => BestOfFirst(w.options, w.perf, w.best, l - m))
  BY <1>3 DEF BeforeSweep, l
<1>8. w.knob > 1 /\ w.steady => BestOfFirst(options, perf, w.best, Len(options) - (m + 1))
  <2> HAVE w.knob > 1 /\ w.steady
  <2>1. l - m \in Nat /\ l - m <= l
    BY <1>1, <1>7
  <2>2. BestOfFirst(options, perf, w.best, l - m)
    BY <1>1, <1>7, <2>1, BestKept DEF l
  <2>3. Len(options) - (m + 1) = l - m
    BY <1>1, <1>2, <1>7, SMTT(30)
  <2> QED
    BY <2>2, <2>3
<1> HIDE DEF options, perf
<1>9. \A j \in 1..m + 1 : options[Len(options) - (m + 1) + j] = sweep[j]
  <2> TAKE j \in 1..m + 1
  <2>1. Len(options) - (m + 1) + j = l - m + j
    BY <1>1, <1>2, <1>7
  <2>2. CASE j = m + 1
    <3>0. l \in Nat
      BY <1>1
    <3>1. l - m + (m + 1) = l + 1
      BY <3>0
    <3> QED
      BY <1>2, <1>6, <2>1, <2>2, <3>1
  <2>3. CASE j \in 1..m
    <3>1. l - m + j \in 1..l
      BY <1>1, <1>7, <2>3
    <3> QED
      BY <1>2, <1>6, <2>1, <2>3, <3>1
  <2> QED
    BY <2>2, <2>3
<1>10. m + 1 <= Len(options) /\ (w.knob = 1 => Len(options) = m + 1)
  BY <1>1, <1>2, <1>7
<1>11. Swept(w, options, perf, m + 1)
  BY <1>4, <1>6, <1>8, <1>9, <1>10 DEF Swept, items, sweep
<1> QED
  BY <1>11 DEF options, perf

\* The sweep of a knob is over: its best item is kept, and with it the best of
\* all evaluations.
LEMMA SweepBest ==
  ASSUME NEW v, NEW lines, NEW options, NEW perf, NEW items, NEW a,
         Sequence(items), Len(items) \in Nat \ {0}, items = ABtestItems(v.knobs[v.knob]),
         KnobsKept(v), v.knob \in Nat \ {0}, Len(v.knobs) \in Nat,
         Swept(v, options, perf, Len(items)),
         Sequence(perf), Len(options) = Len(perf), \A n \in 1..Len(perf) : perf[n] \in Int,
         Len(lines) \in Nat, OwnOf(lines, options, perf), SteadyLog(lines), v.steady,
         a = ArgMin(SubSeq(perf, Len(perf) - Len(items) + 1, Len(perf)))
  PROVE  /\ a \in 1..Len(items)
         /\ BestOfFirst(options, perf, [v.best EXCEPT ![v.knob] = items[a]], Len(options))
<1> DEFINE size == Len(items)
           l == Len(perf)
           results == SubSeq(perf, l - size + 1, l)
           sweep == Sweep(v.knobs, v.best, v.knob)
           best == [v.best EXCEPT ![v.knob] = items[a]]
<1>1. /\ l \in Nat /\ size \in Nat \ {0} /\ size <= l /\ l - size \in Nat
      /\ Len(options) = l
  <2>1. l \in Nat
    BY AppendSequence
  <2>2. size <= l
    BY DEF Swept
  <2> QED
    BY <2>1, <2>2
<1>2. /\ v.knob <= Len(v.knobs) /\ (v.knob = 1 => l = size)
      /\ (v.knob > 1 => BestOfFirst(options, perf, v.best, l - size))
      /\ \A j \in 1..size : options[l - size + j] = sweep[j]
  BY DEF Swept
<1>3. \A j \in 1..size : sweep[j] = [v.best EXCEPT ![v.knob] = items[j]]
  BY SweepItems
<1>4. v.best[v.knob] = items[1]
  <2>1. v.knob \in v.knob..Len(v.knobs)
    BY <1>2
  <2> QED
    BY <2>1 DEF KnobsKept
<1>5. sweep[1] = v.best
  <2>1. v.best = [j \in 1..Len(v.knobs) |-> v.best[j]]
    BY DEF KnobsKept
  <2>2. sweep[1] = [v.best EXCEPT ![v.knob] = v.best[v.knob]]
    BY <1>1, <1>3, <1>4
  <2> QED
    BY <2>1, <2>2
<1>steady. \A i, k \in 1..Len(perf) : options[i] = options[k] => perf[i] = perf[k]
  BY <1>1, SteadyOwn
<1> HIDE DEF l, size, sweep
<1>6. /\ Sequence(results) /\ Len(results) = size /\ DOMAIN results = 1..size
      /\ \A n \in 1..size : results[n] = perf[l - size + n]
  <2>1. l - size + 1 \in Nat \ {0} /\ l - size + 1 <= l + 1 /\ l + 1 - (l - size + 1) = size
    BY <1>1
  <2>2. l <= Len(perf)
    BY <1>1 DEF l
  <2>3. /\ Sequence(results) /\ Len(results) = l + 1 - (l - size + 1)
        /\ DOMAIN results = 1..l + 1 - (l - size + 1)
        /\ \A n \in 1..l + 1 - (l - size + 1) : results[n] = perf[(l - size + 1) + n - 1]
    <3> DEFINE first == l - size + 1
    <3>1. first \in Nat \ {0} /\ first <= l + 1 /\ results = SubSeq(perf, first, l)
      BY <2>1
    <3> HIDE DEF first, results
    <3>2. /\ Sequence(SubSeq(perf, first, l)) /\ Len(SubSeq(perf, first, l)) = l + 1 - first
          /\ DOMAIN SubSeq(perf, first, l) = 1..l + 1 - first
          /\ \A n \in 1..l + 1 - first : SubSeq(perf, first, l)[n] = perf[first + n - 1]
      <4>1. /\ l \in Nat /\ first \in Nat \ {0} /\ first <= l + 1 /\ Sequence(perf)
            /\ l <= Len(perf) \/ first = l + 1
        BY <1>1, <2>2, <3>1
      <4> QED
        BY <4>1, SubSequence
    <3> QED
      BY <3>1, <3>2 DEF first
  <2>4. \A n \in 1..size : (l - size + 1) + n - 1 = l - size + n
    BY <1>1
  <2> HIDE DEF results
  <2> QED
    BY <2>1, <2>3, <2>4
<1>7. \A n \in 1..l : perf[n] \in Int
  BY DEF l
<1>8. \A n \in 1..size : l - size + n \in 1..l
  BY <1>1
<1>9. a = ArgMin(results)
  BY DEF l, size
<1> HIDE DEF results
<1>10. \A n \in 1..size : results[n] \in Int
  BY <1>6, <1>7, <1>8
<1>11. a \in 1..size /\ \A n \in 1..size : results[a] <= results[n]
  <2>1. results # <<>>
    BY <1>1, <1>6, EmptySequence
  <2> QED
    BY <1>6, <1>9, <1>10, <2>1, ArgMinIsSmallest
<1> DEFINE n == l - size + a
<1>12. /\ n \in 1..l /\ options[n] = best /\ perf[n] = results[a]
  BY <1>2, <1>3, <1>6, <1>8, <1>11, ZenonT(60)
<1> HIDE DEF n, best
<1>13. ASSUME NEW k \in 1..l PROVE perf[n] <= perf[k]
  <2>1. CASE k > l - size
    <3>1. k - (l - size) \in 1..size /\ l - size + (k - (l - size)) = k
      BY <1>1, <2>1
    <3>2. perf[k] = results[k - (l - size)]
      BY <1>6, <3>1
    <3> QED
      BY <1>11, <1>12, <3>1, <3>2
  <2>2. CASE k <= l - size
    <3>1. v.knob > 1
      BY <1>1, <1>2, <2>2
    <3>2. PICK f \in 1..l - size : options[f] = v.best /\ \A i \in 1..l - size : perf[f] <= perf[i]
      BY <1>2, <3>1 DEF BestOfFirst
    <3>3. 1 \in 1..size /\ l - size + 1 \in 1..l /\ f \in 1..l /\ k \in 1..l - size
      BY <1>1, <2>2
    <3>4. options[f] = options[l - size + 1]
      BY <1>2, <1>5, <3>2, <3>3
    <3>5. perf[f] = perf[l - size + 1]
      <4> DEFINE g == l - size + 1
      <4>1. f \in 1..Len(perf) /\ g \in 1..Len(perf) /\ Len(perf) \in Nat
        BY <1>1, <3>3 DEF l
      <4>2. options[f] = options[g]
        BY <3>4
      <4> HIDE DEF g
      <4>3. perf[f] = perf[g]
        BY <4>1, <4>2, <1>steady
      <4> QED
        BY <4>3 DEF g
    <3>6. perf[f] = results[1] /\ results[a] <= results[1]
      BY <1>6, <1>11, <3>3, <3>5
    <3>7. perf[n] <= perf[f] /\ perf[f] <= perf[k]
      BY <1>12, <3>2, <3>3, <3>6
    <3>8. perf[n] \in Int /\ perf[f] \in Int /\ perf[k] \in Int
      BY <1>7, <1>12, <3>3
    <3> QED
      BY <3>7, <3>8
  <2> QED
    BY <1>1, <2>1, <2>2
<1> QED
  BY <1>1, <1>11, <1>12, <1>13 DEF BestOfFirst, best, size

\* A steady benchmark stays steady.
LEMMA SteadyTold ==
  ASSUME SearchInv, NEW value \in Values, Tell(value), w.steady, SteadyLog(log)
  PROVE  SteadyLog(log')
<1> DEFINE l == Len(log)
           e == [setting |-> w.asked, value |-> value]
<1>1. /\ log' = Append(log, e) /\ l \in Nat /\ Len(log') = l + 1 /\ log'[l + 1] = e
      /\ \A n \in 1..l : log'[n] = log[n]
  BY AppendSequence DEF Tell, SearchInv, LogInv
<1>2. \A n \in 1..l : log[n].setting = w.asked => log[n].value = value
  <2>1. DOMAIN log = 1..l
    BY AppendSequence DEF SearchInv, LogInv
  <2> QED
    BY <2>1 DEF Tell
<1>3. \A m, n \in 1..l : log[m].setting = log[n].setting => log[m].value = log[n].value
  BY DEF SteadyLog
<1>4. e.setting = w.asked /\ e.value = value
  OBVIOUS
<1> HIDE DEF l, e
<1>5. ASSUME NEW m \in 1..l + 1, NEW n \in 1..l + 1, log'[m].setting = log'[n].setting
      PROVE  log'[m].value = log'[n].value
  <2>1. (m = l + 1 \/ m \in 1..l) /\ (n = l + 1 \/ n \in 1..l)
    BY <1>1
  <2> QED
    BY <1>1, <1>2, <1>3, <1>4, <1>5, <2>1
<1> QED
  BY <1>1, <1>5 DEF SteadyLog

\* Another item of the knob, or the next knob with the best item of this one.
DescendsTo(m) ==
    IF w.plan # <<>>
    THEN Descending(w', m + 1) /\ w'.best = w.best /\ w'.knob = w.knob
    ELSE /\ Descending(w', 0) /\ m + 1 = Len(ABtestItems(w.knobs[w.knob]))
         /\ w'.knob = w.knob + 1
         /\ \A j \in 1..Len(w.knobs) : j # w.knob => w'.best[j] = w.best[j]

LEMMA DescentTold ==
  ASSUME SearchAssumption, SearchInv, SteadyInv, w.engine = "abtest", w.pc = "objective",
         NEW m \in Nat, Descending(w, m), NEW value \in Values, Tell(value)
  PROVE  w'.pc = "search" /\ DescendsTo(m)
<1> DEFINE options == Append(w.options, w.asked)
           perf == Append(w.perf, value)
           lines == log'
           items == ABtestItems(w.knobs[w.knob])
           i == w.knob
<1>1. /\ w'.pc = "search" /\ w'.perf = perf /\ w'.options = options /\ w'.calls = 0
      /\ w'.knobs = w.knobs /\ w'.steady = w.steady
  BY TellFields DEF Descending
<1>2. Swept(w, options, perf, m + 1)
  BY DescentSwept
<1>3. KnobsKept(w)
  BY DEF Descending
<1>4. /\ Triable(w.knobs) /\ Len(w.knobs) \in Nat /\ i \in 1..Len(w.knobs)
      /\ i \in Nat \ {0} /\ i <= Len(w.knobs)
  <2>1. Triable(w.knobs) /\ Len(w.knobs) \in Nat
    BY AppendSequence DEF SteadyInv, Triable
  <2>2. i \in 1..Len(w.knobs) + 1 /\ i <= Len(w.knobs)
    BY <1>2, <1>3 DEF KnobsKept, Swept
  <2> QED
    BY <2>1, <2>2
<1>5. Sequence(items) /\ Len(items) \in Nat \ {0}
  <2>1. Sequence(items) /\ Len(items) > 0
    BY <1>4 DEF Triable
  <2> QED
    BY <2>1, AppendSequence
<1>6. /\ Sequence(options) /\ Sequence(perf) /\ Len(options) = Len(perf)
      /\ Len(options) \in Nat
      /\ \A n \in 1..Len(perf) : perf[n] \in Int
      /\ Len(lines) \in Nat /\ OwnOf(lines, options, perf)
  <2>1. SearchInv'
    BY TellStep
  <2>2. /\ Sequence(w'.options) /\ Sequence(w'.perf) /\ Len(w'.options) = Len(w'.perf)
        /\ \A n \in 1..Len(w'.perf) : w'.perf[n] \in Int
        /\ OwnOf(log', w'.options, w'.perf) /\ Sequence(log')
    BY <2>1 DEF SearchInv, LogInv, OwnInv, OwnOf
  <2> HIDE DEF options, perf
  <2>3. /\ Sequence(options) /\ Sequence(perf) /\ Len(options) = Len(perf)
        /\ \A n \in 1..Len(perf) : perf[n] \in Int
        /\ OwnOf(lines, options, perf) /\ Sequence(lines)
    BY <1>1, <2>2
  <2> QED
    BY <2>3, AppendSequence
<1>7. w.steady => SteadyLog(lines)
  BY SteadyTold DEF SteadyInv
<1> HIDE DEF options, perf, lines
<1>8. CASE w.plan # <<>>
  <2>1. w'.best = w.best /\ w'.knob = w.knob /\ w'.plan = w.plan
    BY <1>8, TellFields
  <2>2. KnobsKept(w')
    BY <1>1, <1>3, <2>1 DEF KnobsKept
  <2>3. BeforeSweep(w', m + 1)
    BY <1>1, <1>2, <2>1 DEF Swept, BeforeSweep
  <2>4. SweepAt(w', items, Sweep(w.knobs, w.best, w.knob), m + 1, 0)
    <3> DEFINE sweep == Sweep(w.knobs, w.best, w.knob)
    <3>1. SweepAt(w, items, sweep, m, 1)
      BY <1>4 DEF Descending
    <3>2. /\ Sequence(w.plan) /\ m + 1 + Len(w.plan) = Len(items)
          /\ \A j \in 1..Len(w.plan) : w.plan[j] = sweep[m + 1 + j]
      BY <3>1 DEF SweepAt
    <3>3. \A j \in 1..m + 1 : options[Len(options) - (m + 1) + j] = sweep[j]
      BY <1>2 DEF Swept
    <3> DEFINE v == w'
               k == m + 1
    <3>4. /\ Sequence(v.plan) /\ v.plan # <<>> /\ \A j \in 1..k : v.options[Len(v.options) - k + j] = sweep[j]
          /\ k \in Nat
      BY <1>1, <1>8, <2>1, <3>2, <3>3
    <3>5. k + 0 + Len(v.plan) = Len(items)
      <4>1. k + 0 = m + 1
        OBVIOUS
      <4> QED
        BY <2>1, <3>2, <4>1
    <3>6. \A j \in 1..Len(v.plan) : v.plan[j] = sweep[k + 0 + j]
      <4>1. k + 0 = m + 1
        OBVIOUS
      <4> QED
        BY <2>1, <3>2, <4>1
    <3> HIDE DEF v, k, sweep
    <3>7. SweepAt(v, items, sweep, k, 0)
      BY <3>4, <3>5, <3>6 DEF SweepAt
    <3> QED
      BY <3>7 DEF v, k, sweep
  <2>5. Descending(w', m + 1)
    BY <1>1, <1>4, <2>1, <2>2, <2>3, <2>4 DEF Descending
  <2> QED
    BY <1>1, <1>8, <2>1, <2>5 DEF DescendsTo
<1>9. CASE w.plan = <<>>
  <2> DEFINE a == ArgMin(SubSeq(perf, Len(perf) - Len(items) + 1, Len(perf)))
             best == [w.best EXCEPT ![i] = items[a]]
  <2>1. /\ w'.best = best /\ w'.knob = i + 1
        /\ w'.plan = IF i < Len(w.knobs) THEN Sweep(w.knobs, best, i + 1) ELSE <<>>
    BY <1>9, TellFields DEF NextSweep, perf
  <2>2. m + 1 = Len(items)
    <3>1. m + 1 + Len(w.plan) = Len(items)
      BY <1>2 DEF Swept
    <3> QED
      BY <1>9, <3>1, EmptySequence
  <2>3. w.steady => BestOfFirst(options, perf, best, Len(options))
    <3> HAVE w.steady
    <3> HIDE DEF items
    <3>1. Swept(w, options, perf, Len(items)) /\ items = ABtestItems(w.knobs[w.knob])
      BY <1>2, <2>2 DEF items
    <3> HIDE DEF a
    <3>2. a = ArgMin(SubSeq(perf, Len(perf) - Len(items) + 1, Len(perf)))
      BY DEF a
    <3> QED
      BY <1>3, <1>4, <1>5, <1>6, <1>7, <3>1, <3>2, SweepBest
  <2> HIDE DEF a
  <2>4. KnobsKept(w')
    <3>1. best = [j \in 1..Len(w.knobs) |-> best[j]]
      <4>1. w.best = [j \in 1..Len(w.knobs) |-> w.best[j]]
        BY <1>3 DEF KnobsKept
      <4> QED
        BY <4>1
    <3>2. i + 1 \in 1..Len(w.knobs) + 1
      BY <1>4
    <3>3. \A j \in i + 1..Len(w.knobs) : best[j] = ABtestItems(w.knobs[j])[1]
      <4> TAKE j \in i + 1..Len(w.knobs)
      <4>1. j # i /\ j \in i..Len(w.knobs) /\ j \in 1..Len(w.knobs)
        BY <1>4
      <4>2. best[j] = w.best[j]
        <5>1. w.best = [n \in 1..Len(w.knobs) |-> w.best[n]]
          BY <1>3 DEF KnobsKept
        <5> QED
          BY <4>1, <5>1
      <4> QED
        BY <1>3, <4>1, <4>2 DEF KnobsKept
    <3> HIDE DEF best
    <3> QED
      BY <1>1, <2>1, <3>1, <3>2, <3>3 DEF KnobsKept
  <2>8. \A j \in 1..Len(w.knobs) : j # i => best[j] = w.best[j]
    <3>1. w.best = [j \in 1..Len(w.knobs) |-> w.best[j]]
      BY <1>3 DEF KnobsKept
    <3> QED
      BY <3>1
  <2> HIDE DEF best
  <2>5. BeforeSweep(w', 0)
    <3>1. i + 1 # 1 /\ Len(options) - 0 = Len(options) /\ 0 <= Len(options)
      BY <1>4, <1>6
    <3> QED
      BY <1>1, <2>1, <2>3, <3>1 DEF BeforeSweep
  <2>6. CASE i < Len(w.knobs)
    <3>1. w'.plan = Sweep(w'.knobs, w'.best, w'.knob) /\ w'.knob \in 1..Len(w.knobs)
      BY <1>1, <1>4, <2>1, <2>6
    <3>2. Sequence(ABtestItems(w.knobs[w'.knob])) /\ Len(ABtestItems(w.knobs[w'.knob])) > 0
      BY <1>4, <3>1 DEF Triable
    <3>3. SweepAt(w', ABtestItems(w'.knobs[w'.knob]), Sweep(w'.knobs, w'.best, w'.knob), 0, 0)
      BY <1>1, <1>6, <3>1, <3>2, SweepBegins
    <3>4. ~(w'.knob > Len(w'.knobs))
      BY <1>1, <1>4, <3>1
    <3>5. Descending(w', 0)
      BY <1>1, <2>4, <2>5, <3>3, <3>4 DEF Descending
    <3> QED
      BY <1>1, <1>9, <2>1, <2>2, <2>8, <3>5 DEF DescendsTo
  <2>7. CASE ~(i < Len(w.knobs))
    <3>1. w'.plan = <<>> /\ ~(w'.knob <= Len(w'.knobs))
      BY <1>1, <1>4, <2>1, <2>7
    <3>2. Descending(w', 0)
      BY <1>1, <2>4, <2>5, <3>1 DEF Descending
    <3> QED
      BY <1>1, <1>9, <2>1, <2>2, <2>8, <3>2 DEF DescendsTo
  <2> QED
    BY <2>6, <2>7
<1> QED
  BY <1>8, <1>9

LEMMA DescentTells ==
  ASSUME SearchAssumption, SearchInv, SteadyInv, w.engine = "abtest", w.pc = "objective",
         NEW m \in Nat, Descending(w, m), NEW value \in Values, Tell(value)
  PROVE  w'.pc = "search" /\ \E k \in Nat : Descending(w', k)
<1>1. w'.pc = "search" /\ DescendsTo(m)
  BY DescentTold
<1>2. m + 1 \in Nat /\ 0 \in Nat
  OBVIOUS
<1> QED
  BY <1>1, <1>2 DEF DescendsTo

\* The search is over when the last knob is.
LEMMA DescentFinishes ==
  ASSUME SearchInv, SteadyInv, DescentInv, w.engine = "abtest", Finish
  PROVE  DescentInv'
<1>1. /\ w.pc = "search" /\ w.plan = <<>>
      /\ w'.pc \in {"rank", "done", "select"} /\ w'.engine = "abtest"
      /\ w'.options = w.options /\ w'.perf = w.perf /\ w'.best = w.best
      /\ w'.steady = w.steady
  BY FinishReports DEF SearchInv, OwnInv
<1>2. PICK m \in Nat : Descending(w, m)
  BY <1>1 DEF DescentInv
<1>3. w.steady => BestOfFirst(w.options, w.perf, w.best, Len(w.options))
  <2> HAVE w.steady
  <2>1. KnobsKept(w) /\ BeforeSweep(w, m)
    BY <1>2 DEF Descending
  <2>2. w.knob > Len(w.knobs)
    <3>1. CASE w.knob <= Len(w.knobs)
      <4>1. SweepAt(w, ABtestItems(w.knobs[w.knob]), Sweep(w.knobs, w.best, w.knob), m, 0)
        BY <1>1, <1>2, <3>1 DEF Descending
      <4> QED
        BY <1>1, <4>1 DEF SweepAt
    <3>2. CASE ~(w.knob <= Len(w.knobs))
      <4>1. w.knob \in Int /\ Len(w.knobs) \in Int
        BY <2>1, <3>2 DEF KnobsKept
      <4> QED
        BY <3>2, <4>1
    <3> QED
      BY <3>1, <3>2
  <2>3. m = 0
    BY <1>2, <2>2 DEF Descending
  <2>4. w.knob > 1
    <3>1. w.knob \in 1..Len(w.knobs) + 1
      BY <2>1 DEF KnobsKept
    <3>2. Len(w.knobs) \in Nat /\ Len(w.knobs) > 0
      BY <1>1, AppendSequence DEF SteadyInv, Triable
    <3> QED
      BY <2>2, <3>1, <3>2
  <2>5. Len(w.options) \in Nat
    BY AppendSequence DEF SearchInv, OwnInv
  <2>6. Len(w.options) - 0 = Len(w.options)
    BY <2>5
  <2> QED
    BY <2>1, <2>3, <2>4, <2>6 DEF BeforeSweep
<1>4. w'.pc # "rank"
  BY DEF Finish, SearchInv, OwnInv, SearchFields
<1> QED
  BY <1>1, <1>3, <1>4 DEF DescentInv

\* What the steps need and bring about in the state of a worker.
LEMMA WorkerRuns ==
  ASSUME SearchInv, OtherStep
  PROVE  w.pc # "idle" /\ w'.pc # "idle"
<1>0. DOMAIN w = SearchFields
  BY DEF SearchInv, OwnInv
<1>1. CASE StartABtest
  BY <1>0, <1>1 DEF StartABtest, SearchFields
<1>2. CASE StartGridsearch
  BY <1>0, <1>2 DEF StartGridsearch, SearchFields
<1>3. CASE StartTraverse
  BY <1>0, <1>3 DEF StartTraverse, SearchFields
<1>4. CASE StartSampling
  BY <1>0, <1>4 DEF StartSampling, SearchFields
<1>5. CASE StartModel
  <2>1. CASE w' = [w EXCEPT !.pc = "error"]
    BY <1>0, <1>5, <2>1 DEF StartModel, SearchFields
  <2>2. ASSUME NEW c, w' = [w EXCEPT !.pc = "search", !.calls = c]
        PROVE  w.pc # "idle" /\ w'.pc # "idle"
    BY <1>0, <1>5, <2>2 DEF StartModel, SearchFields
  <2> QED
    BY <1>5, <2>1, <2>2 DEF StartModel
<1>6. CASE Ask
  BY <1>0, <1>6 DEF Ask, SearchFields
<1>7. CASE Finish
  BY <1>0, <1>7, FinishReports
<1>8. CASE RankTraversed
  <2>1. PICK r : w' = [w EXCEPT !.pc = "done", !.rank = r] /\ w.pc = "rank"
    BY <1>8 DEF RankTraversed
  <2> QED
    BY <1>0, <2>1 DEF SearchFields
<1>9. CASE \E r \in Regressors : RegressorEnds(r)
  BY <1>0, <1>9 DEF RegressorEnds, SearchFields
<1>10. CASE Select
  <2>1. PICK r : w' = [w EXCEPT !.pc = "done", !.rank = r] /\ w.pc = "select"
    BY <1>10 DEF Select
  <2> QED
    BY <1>0, <2>1 DEF SearchFields
<1>11. CASE Fails
  BY <1>0, <1>11, FailureSteps
<1> QED
  BY <1>1, <1>2, <1>3, <1>4, <1>5, <1>6, <1>7, <1>8, <1>9, <1>10, <1>11 DEF OtherStep

\* A worker is started, by a request or after the last one was lost.
LEMMA WorkerStarts ==
  ASSUME ABtestsTriable, SearchInv, SteadyInv, (\E t \in Tasks : CreateTask(t)) \/ Lose
  PROVE  SteadyInv' /\ DescentInv'
<1>1. log' = log /\ w'.options = <<>> /\ w'.perf = <<>> /\ w'.pc = "start"
  BY NewWorkerStep
<1>2. w'.calls = 0
  <2>1. PICK t, done : w' = NewWorker(t, done)
    BY NewWorkerStep
  <2> QED
    BY <2>1 DEF NewWorker
<1>3. DescentInv'
  BY <1>1, <1>2 DEF DescentInv
<1>4. ASSUME NEW t \in Tasks, CreateTask(t) PROVE SteadyInv'
  <2>1. log = <<>> /\ w'.engine = t.engine /\ w'.knobs = t.knobs
    BY <1>4 DEF CreateTask, NewWorker, SteadyInv
  <2>2. SteadyLog(log')
    BY <1>1, <2>1, EmptySequence DEF SteadyLog
  <2>3. w'.engine = "abtest" => Triable(w'.knobs)
    BY <2>1 DEF ABtestsTriable
  <2> QED
    BY <1>1, <2>2, <2>3 DEF SteadyInv
<1>5. CASE Lose
  <2>1. w.pc # "idle" /\ w' = NewWorker([w EXCEPT !.lives = @ - 1], Len(log))
    BY <1>5 DEF Lose
  <2>2. /\ w'.engine = w.engine /\ w'.knobs = w.knobs /\ w'.steady = w.steady
    BY <2>1 DEF NewWorker, SearchInv, OwnInv, SearchFields
  <2>3. SteadyInv'
    BY <1>1, <2>1, <2>2 DEF SteadyInv
  <2> QED
    BY <1>3, <2>3
<1> QED
  BY <1>3, <1>4, <1>5

\* A knob is tried, and nothing but the end of the worker is left after that.
LEMMA WorkerDescends ==
  ASSUME SearchInv, SteadyInv, DescentInv, OtherStep
  PROVE  SteadyInv' /\ DescentInv'
<1>0. DOMAIN w = SearchFields
  BY DEF SearchInv, OwnInv
<1>1. SameEvaluations /\ w.pc # "idle" /\ w'.pc # "idle"
  BY <1>0, OtherSteps, WorkerRuns
<1>2. SteadyInv'
  BY <1>1 DEF SteadyInv, SameEvaluations
<1>3. DescentInv'
  <2>1. CASE w.engine # "abtest"
    BY <1>1, <2>1 DEF DescentInv, SameEvaluations
  <2>2. ASSUME w.engine = "abtest", StartABtest PROVE DescentInv'
    <3>1. w.pc = "start"
      BY <2>2 DEF StartABtest
    <3>2. w.options = <<>> /\ w.calls = 0 /\ Triable(w.knobs)
      BY <2>2, <3>1 DEF DescentInv, SteadyInv
    <3>3. w'.pc = "search" /\ Descending(w', 0)
      BY <2>2, <3>2, DescentStarts
    <3> QED
      BY <3>3 DEF DescentInv
  <2>3. ASSUME w.engine = "abtest", Ask PROVE DescentInv'
    <3>1. w.pc = "search"
      BY <2>3 DEF Ask
    <3>2. PICK m \in Nat : Descending(w, m)
      BY <2>3, <3>1 DEF DescentInv
    <3>3. w'.pc = "objective" /\ Descending(w', m)
      BY <2>3, <3>1, <3>2, DescentAsks
    <3> QED
      BY <3>3 DEF DescentInv
  <2>4. ASSUME w.engine = "abtest", Finish PROVE DescentInv'
    BY <2>4, DescentFinishes
  <2>5. ASSUME w.engine = "abtest", Select \/ \E r \in Regressors : RegressorEnds(r)
        PROVE  DescentInv'
    <3>1. /\ w.pc = "select" /\ w'.pc \in {"select", "done"} /\ w'.best = w.best
      <4>1. CASE Select
        <5>1. PICK r : w' = [w EXCEPT !.pc = "done", !.rank = r] /\ w.pc = "select"
          BY <4>1 DEF Select
        <5> QED
          BY <1>0, <5>1 DEF SearchFields
      <4>2. CASE \E r \in Regressors : RegressorEnds(r)
        BY <1>0, <4>2 DEF RegressorEnds, SearchFields
      <4> QED
        BY <2>5, <4>1, <4>2
    <3> QED
      BY <1>1, <3>1 DEF DescentInv, SameEvaluations
  <2>6. ASSUME w.engine = "abtest", RankTraversed PROVE DescentInv'
    BY <2>6 DEF RankTraversed, DescentInv
  <2>7. w.engine = "abtest" => ~StartGridsearch /\ ~StartTraverse /\ ~StartSampling /\ ~StartModel
    BY DEF StartGridsearch, StartTraverse, StartSampling, StartModel
  <2>8. ASSUME w.engine = "abtest", Fails PROVE DescentInv'
    BY <1>0, <1>1, <2>8, FailureSteps DEF DescentInv, SameEvaluations
  <2> QED
    BY <2>1, <2>2, <2>3, <2>4, <2>5, <2>6, <2>7, <2>8 DEF OtherStep
<1> QED
  BY <1>2, <1>3

LEMMA ABtestInvStep ==
  ASSUME SearchAssumption, ABtestsTriable, ABtestInv, [EngineNext]_engineVars
  PROVE  ABtestInv'
<1>1. SearchInv /\ SteadyInv /\ DescentInv
  BY DEF ABtestInv
<1>2. SearchInv'
  BY <1>1, SearchInvStep
<1>3. CASE SearchNext
  <2>1. CASE (\E t \in Tasks : CreateTask(t)) \/ Lose
    BY <1>1, <1>2, <2>1, WorkerStarts DEF ABtestInv
  <2>2. ASSUME NEW value \in Values, Tell(value) PROVE SteadyInv' /\ DescentInv'
    <3>1. /\ w'.pc = "search" /\ w'.engine = w.engine /\ w'.knobs = w.knobs
          /\ w'.steady = w.steady /\ w.pc = "objective"
      BY <1>1, <2>2, TellFields DEF Tell
    <3>2. SteadyInv'
      BY <1>1, <2>2, <3>1, SteadyTold DEF SteadyInv
    <3>3. DescentInv'
      <4>1. CASE w.engine # "abtest"
        BY <3>1, <4>1 DEF DescentInv
      <4>2. CASE w.engine = "abtest"
        <5>1. PICK m \in Nat : Descending(w, m)
          BY <1>1, <3>1, <4>2 DEF DescentInv
        <5>2. \E k \in Nat : Descending(w', k)
          BY <1>1, <2>2, <3>1, <4>2, <5>1, DescentTells
        <5> QED
          BY <3>1, <5>2 DEF DescentInv
      <4> QED
        BY <4>1, <4>2
    <3> QED
      BY <3>2, <3>3
  <2> QED
    BY <1>1, <1>2, <1>3, <2>1, <2>2, WorkerDescends
       DEF SearchNext, WorkerStep, OtherStep, Fails, ABtestInv
<1>4. CASE UNCHANGED searchVars
  <2>1. w' = w /\ log' = log
    BY <1>4 DEF searchVars
  <2>2. SteadyInv' /\ DescentInv'
    BY <1>1, <2>1 DEF SteadyInv, DescentInv
  <2> QED
    BY <1>2, <2>2 DEF ABtestInv
<1> QED
  BY <1>3, <1>4 DEF EngineNext, SearchTask, FilesTask, ModelsTask, engineVars

(* With a steady benchmark each sweep of an abtest starts from the best of  *)
(* the sweeps before it (abtest_tuning_manager).                           *)
THEOREM ABtestDescends ==
  ASSUME ABtestsTriable PROVE EngineSpec => []ABtestInv
<1>1. EngineInit => ABtestInv
  <2> SUFFICES ASSUME SearchInit PROVE SteadyInv /\ DescentInv
    BY SearchInvInit DEF EngineInit, ABtestInv
  <2>1. w.pc = "idle" /\ w.engine # "abtest"
    <3>1. w.pc = "idle" /\ w.engine = ""
      BY DEF SearchInit, NewWorker, Idle
    <3> QED
      BY <3>1
  <2>2. log = <<>> /\ SteadyLog(log)
    <3>1. log = <<>>
      BY DEF SearchInit
    <3> QED
      BY <3>1, EmptySequence DEF SteadyLog
  <2>3. SteadyInv
    BY <2>1, <2>2 DEF SteadyInv
  <2> QED
    BY <2>1, <2>3 DEF DescentInv
<1>2. ABtestInv /\ [EngineNext]_engineVars => ABtestInv'
  BY ABtestInvStep, SearchAssumption
<1> QED
  BY <1>1, <1>2, PTL DEF EngineSpec

LEMMA ABtestInvBest == ASSUME ABtestInv PROVE DescentIsBest
<1> SUFFICES ASSUME w.pc = "done", w.engine = "abtest", w.steady
             PROVE  \E n \in DOMAIN Own :
                       Own[n].setting = w.best /\ Own[n].value = Minimum(w.perf)
  BY DEF DescentIsBest
<1>1. BestOfFirst(w.options, w.perf, w.best, Len(w.options))
  BY DEF ABtestInv, DescentInv
<1>2. /\ Sequence(log) /\ Sequence(w.perf) /\ Sequence(w.options)
      /\ Len(w.options) = Len(w.perf) /\ Len(w.perf) <= Len(log)
      /\ Len(log) \in Nat /\ Len(w.perf) \in Nat /\ DOMAIN w.perf = 1..Len(w.perf)
      /\ \A n \in 1..Len(w.perf) :
            /\ w.perf[n] \in Int
            /\ log[Len(log) - Len(w.perf) + n].setting = w.options[n]
            /\ log[Len(log) - Len(w.perf) + n].value = w.perf[n]
  BY AppendSequence DEF ABtestInv, SearchInv, LogInv, OwnInv
<1>3. PICK n \in 1..Len(w.perf) :
         w.options[n] = w.best /\ \A k \in 1..Len(w.perf) : w.perf[n] <= w.perf[k]
  BY <1>1, <1>2 DEF BestOfFirst
<1>4. Minimum(w.perf) = w.perf[n]
  <2>1. ToSet(w.perf) \subseteq Int /\ w.perf[n] \in ToSet(w.perf)
        /\ \A y \in ToSet(w.perf) : w.perf[n] <= y
    BY <1>2, <1>3 DEF ToSet
  <2> QED
    BY <2>1, MinIs DEF Minimum
<1>5. DOMAIN Own = 1..Len(w.perf) /\ Own[n] = log[Len(log) - Len(w.perf) + n]
  <2> DEFINE l == Len(log)
             p == Len(w.perf)
             first == l - p + 1
  <2>1. /\ l \in Nat /\ first \in Nat \ {0} /\ first <= l + 1 /\ l <= Len(log)
        /\ l + 1 - first = p
    <3>1. l \in Nat /\ p \in Nat /\ p <= l
      BY <1>2
    <3>2. l <= Len(log)
      BY <3>1
    <3> HIDE DEF l, p
    <3> QED
      BY <3>1, <3>2
  <2>2. Own = SubSeq(log, first, l)
    BY DEF Own
  <2> HIDE DEF first, l, p
  <2>3. /\ DOMAIN SubSeq(log, first, l) = 1..l + 1 - first
        /\ \A k \in 1..l + 1 - first : SubSeq(log, first, l)[k] = log[first + k - 1]
    BY <1>2, <2>1, SubSequence
  <2>4. first + n - 1 = l - p + n
    BY <1>2, <1>3, <2>1 DEF first, p
  <2> QED
    BY <1>3, <2>1, <2>2, <2>3, <2>4 DEF l, p
<1> QED
  BY <1>2, <1>3, <1>4, <1>5, ZenonT(60)

(* So an abtest that has finished its sweeps reports the best of all its    *)
(* evaluations (abtest_tuning_manager).                                    *)
THEOREM ABtestKeepsBest ==
  ASSUME ABtestsTriable PROVE EngineSpec => []DescentIsBest
BY ABtestDescends, ABtestInvBest, PTL

-----------------------------------------------------------------------------
(* The models of the workload                                              *)

Models == UserModels \cup {BuiltIn}
PartsOf(m) ==
    IF m = BuiltIn
    THEN {"scaler", "tencoder", "aencoder", "total", "default", "throughput"}
    ELSE {"scaler", "encoder", "model"}
\* What a training writes.
PartsWritten(job) ==
    IF job.model = BuiltIn THEN Range(PartsOfTrain(job.rows)) ELSE PartsOf(job.model)

\* The parts of a model were made of the same rows.
MadeOf(dir, m, parts, rows) ==
    \A p \in parts : <<m, p>> \in DOMAIN dir /\ dir[<<m, p>>] = rows

JobFields == {"pc", "model", "dir", "rows", "todo", "begun", "alone"}

\* A training that nobody disturbed has written what it has not left to write.
JobOK(job, dir) ==
    /\ DOMAIN job = JobFields /\ job.model \in Models
    /\ job.pc = "dump" =>
          /\ Sequence(job.todo) /\ job.todo # <<>>
          /\ ~job.begun => PartsWritten(job) \subseteq Range(job.todo)
          /\ job.alone => MadeOf(dir, job.model, PartsWritten(job) \ Range(job.todo), job.rows)
JobsInv == Sequence(jobs) /\ \A j \in 1..Len(jobs) : JobOK(jobs[j], pickles)

\* A sound model is of a single set of rows.
SoundInv ==
    /\ DOMAIN sound = Models
    /\ \A m \in Models : sound[m] => \E rows : MadeOf(pickles, m, PartsOf(m), rows)

RequestFields ==
    {"pc", "model", "todo", "got", "clean", "samples", "type", "typeVotes", "answer", "votes"}

\* What a classification has read of a sound model is all of those rows.
ReadOf(rows) ==
    /\ MadeOf(pickles, request.model, PartsOf(request.model), rows)
    /\ \A p \in DOMAIN request.got : request.got[p] = rows
    /\ request.pc = "load" =>
          /\ Sequence(request.todo) /\ request.todo # <<>>
          /\ Range(request.todo) \subseteq PartsOf(request.model)
          /\ PartsOf(request.model) \subseteq DOMAIN request.got \cup Range(request.todo)
          /\ request.samples = 0
    /\ request.pc = "predict" =>
          /\ PartsOf(request.model) \subseteq DOMAIN request.got
          /\ request.samples \in Nat
          /\ request.samples > 0 => /\ request.model = BuiltIn
                                    /\ 2 * request.typeVotes >= request.samples
RequestInv ==
    /\ DOMAIN request = RequestFields
    /\ request.clean =>
          /\ request.pc \in {"load", "predict", "answered", "error"}
          /\ request.pc \in {"load", "predict"} => \E rows : ReadOf(rows)
          /\ request.pc = "answered" /\ request.answer # "default" =>
                /\ 2 * request.votes > request.samples
                /\ request.model = BuiltIn =>
                     /\ <<Classifier, request.answer>> \in request.got[Classifier]
                     /\ 2 * request.typeVotes >= request.samples
          /\ request.pc = "error" => request.model # BuiltIn /\ request.votes > 0

ModelsInv == JobsInv /\ SoundInv /\ RequestInv

LEMMA PartsRead ==
  /\ Sequence(PartsOfRetrain) /\ PartsOfRetrain # <<>>
  /\ Sequence(PartsOfReidentify) /\ PartsOfReidentify # <<>>
  /\ Sequence(PartsOfIdentify) /\ PartsOfIdentify # <<>>
  /\ \A m : m # BuiltIn => /\ Range(PartsOfRetrain) = PartsOf(m)
                           /\ Range(PartsOfReidentify) = PartsOf(m)
  /\ Range(PartsOfIdentify) = PartsOf(BuiltIn)
<1> DEFINE own == {"scaler", "encoder", "model"}
           all == {"scaler", "tencoder", "aencoder", "total", "default", "throughput"}
<1>1. /\ PartsOfRetrain \in Seq(own) /\ Len(PartsOfRetrain) = 3
      /\ PartsOfReidentify \in Seq(own) /\ Len(PartsOfReidentify) = 3
  BY DEF PartsOfRetrain, PartsOfReidentify
<1>2. PartsOfIdentify \in Seq(all) /\ Len(PartsOfIdentify) = 6
  BY DEF PartsOfIdentify
<1>3. /\ PartsOfRetrain # <<>> /\ PartsOfReidentify # <<>> /\ PartsOfIdentify # <<>>
  <2>1. Len(<<>>) = 0
    BY EmptySequence
  <2>2. PartsOfRetrain # <<>>
    BY <1>1, <2>1
  <2>3. PartsOfReidentify # <<>>
    BY <1>1, <2>1
  <2>4. PartsOfIdentify # <<>>
    BY <1>2, <2>1
  <2> QED
    BY <2>2, <2>3, <2>4
<1>4. Range(PartsOfRetrain) = own
  <2>1. /\ DOMAIN PartsOfRetrain = {1, 2, 3} /\ PartsOfRetrain[1] = "scaler"
        /\ PartsOfRetrain[2] = "encoder" /\ PartsOfRetrain[3] = "model"
    BY DEF PartsOfRetrain
  <2> QED
    BY <2>1 DEF Range
<1>5. PartsOfReidentify = PartsOfRetrain
  BY DEF PartsOfRetrain, PartsOfReidentify
<1>6. \A m : m # BuiltIn => PartsOf(m) = own
  BY DEF PartsOf
<1>7. Range(PartsOfIdentify) = all
  <2>1. /\ DOMAIN PartsOfIdentify = {1, 2, 3, 4, 5, 6} /\ PartsOfIdentify[1] = "scaler"
        /\ PartsOfIdentify[2] = "tencoder" /\ PartsOfIdentify[3] = "aencoder"
        /\ PartsOfIdentify[4] = "total" /\ PartsOfIdentify[5] = "default"
        /\ PartsOfIdentify[6] = "throughput"
    BY DEF PartsOfIdentify
  <2> QED
    BY <2>1 DEF Range
<1>8. PartsOf(BuiltIn) = all
  BY DEF PartsOf
<1> HIDE DEF own, all
<1>9. Sequence(PartsOfRetrain) /\ Sequence(PartsOfReidentify) /\ Sequence(PartsOfIdentify)
  BY <1>1, <1>2, SequenceOf
<1> QED
  BY <1>3, <1>4, <1>5, <1>6, <1>7, <1>8, <1>9

\* What train writes, if the rows have both types.
LEMMA PartsTrained ==
  ASSUME NEW rows
  PROVE  /\ Sequence(PartsOfTrain(rows)) /\ PartsOfTrain(rows) # <<>>
         /\ HasBothTypes(rows) => Range(PartsOfTrain(rows)) = PartsOf(BuiltIn)
<1> DEFINE S == {"scaler", "tencoder", "aencoder", "total", "default", "throughput"}
           four == <<"tencoder", "aencoder", "scaler", "total">>
           x == <<"default">>
           y == <<"throughput">>
           a == IF Group(rows, "default") # {} THEN x ELSE <<>>
           b == IF Group(rows, "throughput") # {} THEN y ELSE <<>>
           c == four \o a
           all == PartsOfTrain(rows)
<1>1. four \in Seq(S) /\ x \in Seq(S) /\ y \in Seq(S)
  OBVIOUS
<1>2. /\ Len(four) = 4 /\ four[1] = "tencoder" /\ four[2] = "aencoder" /\ four[3] = "scaler"
      /\ four[4] = "total" /\ Len(x) = 1 /\ x[1] = "default" /\ Len(y) = 1
      /\ y[1] = "throughput"
  OBVIOUS
<1>3. PartsOf(BuiltIn) = S
  BY DEF PartsOf
<1>4. HasBothTypes(rows) => a = x /\ b = y
  BY DEF HasBothTypes
<1>5. (a = x \/ a = <<>>) /\ (b = y \/ b = <<>>)
  OBVIOUS
<1>6. all = c \o b
  BY DEF PartsOfTrain
<1>7. {four[1], four[2], four[3], four[4], x[1], y[1]} = S
  BY <1>2
<1> HIDE DEF S, four, x, y, a, b
<1>8. Sequence(four) /\ Sequence(x) /\ Sequence(y) /\ Sequence(a) /\ Sequence(b)
  BY <1>1, <1>5, SequenceOf, EmptySequence
<1>9. /\ Sequence(c) /\ Len(c) = 4 + Len(a) /\ Len(a) \in Nat /\ Len(b) \in Nat
      /\ \A n \in 1..4 : c[n] = four[n]
      /\ \A n \in 1..Len(a) : c[4 + n] = a[n]
  <2>1. /\ Sequence(four \o a) /\ Len(four \o a) = Len(four) + Len(a)
        /\ Len(four) \in Nat /\ Len(a) \in Nat
        /\ \A n \in 1..Len(four) : (four \o a)[n] = four[n]
        /\ \A n \in 1..Len(a) : (four \o a)[Len(four) + n] = a[n]
    <3>1. Sequence(four) /\ Sequence(a)
      BY <1>8
    <3> QED
      BY <3>1, Concatenated
  <2>2. Len(b) \in Nat
    BY <1>8, AppendSequence
  <2> HIDE DEF c
  <2>3. c = four \o a
    BY DEF c
  <2> QED
    BY <1>2, <2>1, <2>2, <2>3
<1> HIDE DEF c, all
<1>10. /\ Sequence(all) /\ Len(all) = Len(c) + Len(b)
       /\ \A n \in 1..Len(c) : all[n] = c[n]
       /\ \A n \in 1..Len(b) : all[Len(c) + n] = b[n]
  <2>1. Sequence(c) /\ Sequence(b)
    BY <1>8, <1>9
  <2>2. /\ Sequence(c \o b) /\ Len(c \o b) = Len(c) + Len(b)
        /\ \A n \in 1..Len(c) : (c \o b)[n] = c[n]
        /\ \A n \in 1..Len(b) : (c \o b)[Len(c) + n] = b[n]
    BY <2>1, Concatenated
  <2> QED
    BY <1>6, <2>2
<1>11. all # <<>>
  BY <1>9, <1>10, EmptySequence
<1>12. ASSUME HasBothTypes(rows) PROVE Range(all) = S
  <2>1. Len(c) = 5 /\ c[5] = x[1] /\ \A n \in 1..4 : c[n] = four[n]
    <3>1. Len(a) = 1 /\ a[1] = x[1]
      BY <1>2, <1>4, <1>12
    <3> QED
      BY <1>9, <3>1
  <2>2. /\ Len(all) = 6 /\ all[6] = y[1] /\ all[5] = x[1]
        /\ \A n \in 1..4 : all[n] = four[n]
    <3>1. Len(b) = 1 /\ b[1] = y[1]
      BY <1>2, <1>4, <1>12
    <3> QED
      BY <1>10, <2>1, <3>1
  <2>3. DOMAIN all = 1..6
    BY <1>10, <2>2, AppendSequence
  <2>4. Range(all) = {four[1], four[2], four[3], four[4], x[1], y[1]}
    <3>1. \A n \in 1..6 : n \in {1, 2, 3, 4, 5, 6}
      OBVIOUS
    <3> QED
      BY <2>2, <2>3, <3>1 DEF Range
  <2> QED
    BY <1>7, <2>4
<1> QED
  BY <1>3, <1>10, <1>11, <1>12 DEF all

-----------------------------------------------------------------------------
(* The votes of a classifier                                               *)

LEMMA VotesCounted ==
  ASSUME NEW n \in Nat, NEW S, S \subseteq 1..n, NEW U, U \subseteq S
  PROVE  /\ Cardinality(S) \in Nat /\ Cardinality(S) <= n
         /\ Cardinality(U) \in Nat /\ Cardinality(U) <= Cardinality(S)
         /\ U # {} => Cardinality(U) > 0
<1>1. IsFiniteSet(1..n) /\ Cardinality(1..n) = n
  BY FS_Interval
<1>2. IsFiniteSet(S) /\ Cardinality(S) <= n
  BY <1>1, FS_Subset
<1>3. IsFiniteSet(U) /\ Cardinality(U) <= Cardinality(S)
  BY <1>2, FS_Subset
<1>4. Cardinality(S) \in Nat /\ Cardinality(U) \in Nat
  BY <1>2, <1>3, FS_CardinalityType
<1>5. U # {} => Cardinality(U) # 0
  BY <1>3, FS_EmptySet
<1> QED
  BY <1>2, <1>3, <1>4, <1>5

\* The most common label was given, and none was given more often.
LEMMA MostCommonGiven ==
  ASSUME NEW n \in Nat \ {0}, NEW labels, DOMAIN labels = 1..n
  PROVE  MostCommon(labels) \in Range(labels)
<1> DEFINE C(i) == Count(labels, labels[i])
           Less == {n - C(i) : i \in 1..n}
           Most == {i \in 1..n : \A k \in 1..n : C(i) >= C(k)}
<1>1. \A i \in 1..n : C(i) \in Nat /\ C(i) <= n
  <2> TAKE i \in 1..n
  <2>1. {k \in 1..n : labels[k] = labels[i]} \subseteq 1..n
    OBVIOUS
  <2> QED
    BY <2>1, VotesCounted DEF Count
<1> HIDE DEF C
<1>2. Less \subseteq Nat /\ Less # {}
  <2>1. \A i \in 1..n : n - C(i) \in Nat
    BY <1>1
  <2>2. 1 \in 1..n
    OBVIOUS
  <2> QED
    BY <2>1, <2>2
<1>3. PICK l \in Less : \A k \in Less : l <= k
  <2> HIDE DEF Less
  <2> QED
    BY <1>2, LeastNumber
<1>4. PICK i \in 1..n : l = n - C(i)
  BY <1>3
<1>5. i \in Most
  <2> SUFFICES ASSUME NEW k \in 1..n PROVE C(i) >= C(k)
    OBVIOUS
  <2>1. n - C(i) <= n - C(k)
    BY <1>3, <1>4
  <2> QED
    BY <1>1, <2>1
<1>6. PICK first \in Most : \A k \in Most : first <= k
  <2>1. Most \subseteq Nat /\ Most # {}
    BY <1>5
  <2> HIDE DEF Most
  <2> QED
    BY <2>1, LeastNumber
<1>7. Min(Most) = first
  <2>1. Most \subseteq Int
    OBVIOUS
  <2> HIDE DEF Most
  <2> QED
    BY <1>6, <2>1, MinIs
<1>8. MostCommon(labels) = labels[Min(Most)]
  BY DEF MostCommon, C
<1> QED
  BY <1>6, <1>7, <1>8 DEF Range

\* The name of a label has at least its votes.
LEMMA NameHasVotes ==
  ASSUME NEW n \in Nat \ {0}, NEW labels, DOMAIN labels = 1..n, NEW names, NEW label
  PROVE  /\ Count(labels, label) \in Nat
         /\ Meant(labels, names, Meaning(label, names)) \in Nat
         /\ Count(labels, label) <= Meant(labels, names, Meaning(label, names))
         /\ label \in Range(labels) => Meant(labels, names, Meaning(label, names)) > 0
<1> DEFINE U == {i \in DOMAIN labels : labels[i] = label}
           S == {i \in DOMAIN labels : Meaning(labels[i], names) = Meaning(label, names)}
<1>1. U \subseteq S /\ S \subseteq 1..n /\ (label \in Range(labels) => U # {})
  BY DEF Range
<1>2. Cardinality(U) = Count(labels, label)
  BY DEF Count
<1>3. Cardinality(S) = Meant(labels, names, Meaning(label, names))
  BY DEF Meant
<1> HIDE DEF U, S
<1>4. /\ Cardinality(S) \in Nat /\ Cardinality(U) \in Nat /\ Cardinality(U) <= Cardinality(S)
      /\ U # {} => Cardinality(U) > 0
  BY <1>1, VotesCounted
<1> QED
  BY <1>1, <1>2, <1>3, <1>4
-----------------------------------------------------------------------------
(* The steps of a training                                                 *)

\* A training that changes nothing but itself.
LEMMA JobStep ==
  ASSUME JobsInv, NEW j \in DOMAIN jobs, NEW new, JobOK(new, pickles),
         jobs' = [jobs EXCEPT ![j] = new], pickles' = pickles
  PROVE  JobsInv'
<1>1. Sequence(jobs) /\ DOMAIN jobs = 1..Len(jobs) /\ Len(jobs) \in Nat
  BY AppendSequence DEF JobsInv
<1> DEFINE v == [jobs EXCEPT ![j] = new]
<1>2. v = [i \in 1..Len(jobs) |-> v[i]]
  BY <1>1
<1>3. \A i \in 1..Len(jobs) : v[i] = IF i = j THEN new ELSE jobs[i]
  BY <1>1
<1> HIDE DEF v
<1>4. Sequence(v) /\ Len(v) = Len(jobs)
  BY <1>1, <1>2, MadeSequence
<1>5. \A i \in 1..Len(v) : JobOK(v[i], pickles)
  BY <1>3, <1>4 DEF JobsInv
<1>6. jobs' = v
  BY DEF v
<1> QED
  BY <1>4, <1>5, <1>6 DEF JobsInv

LEMMA StartTrainingStep ==
  ASSUME ModelsInv, NEW t \in Trainings, StartTraining(t)
  PROVE  ModelsInv'
<1> DEFINE new == [pc |-> IF t.model = BuiltIn THEN "parse" ELSE "extract",
                   model |-> t.model, dir |-> t.dir, rows |-> t.rows,
                   todo |-> <<>>, begun |-> FALSE, alone |-> FALSE]
<1>1. jobs' = Append(jobs, new) /\ UNCHANGED <<pickles, sound, request>>
  BY DEF StartTraining
<1>2. DOMAIN new = JobFields /\ new.model \in Models /\ new.pc # "dump"
  BY DEF JobFields, Models, UserModels
<1> HIDE DEF new
<1>3. JobOK(new, pickles)
  BY <1>2 DEF JobOK
<1>4. Sequence(jobs) /\ \A i \in 1..Len(jobs) : JobOK(jobs[i], pickles)
  BY DEF ModelsInv, JobsInv
<1> DEFINE v == Append(jobs, new)
<1>5. /\ Sequence(v) /\ Len(v) = Len(jobs) + 1 /\ Len(jobs) \in Nat
      /\ v[Len(jobs) + 1] = new /\ \A n \in 1..Len(jobs) : v[n] = jobs[n]
  BY <1>4, AppendSequence
<1> HIDE DEF v
<1>6. \A i \in 1..Len(v) : JobOK(v[i], pickles)
  <2> TAKE i \in 1..Len(v)
  <2>1. i = Len(jobs) + 1 \/ i \in 1..Len(jobs)
    BY <1>5
  <2> QED
    BY <1>3, <1>4, <1>5, <2>1
<1>7. jobs' = v
  BY <1>1 DEF v
<1>8. JobsInv'
  BY <1>1, <1>5, <1>6, <1>7 DEF JobsInv
<1> QED
  BY <1>1, <1>8, ZenonT(60) DEF ModelsInv, SoundInv, RequestInv, ReadOf, MadeOf, Classifier

LEMMA ExtractStep ==
  ASSUME ModelsInv, NEW j \in DOMAIN jobs, Extract(j)
  PROVE  ModelsInv'
<1> DEFINE new == [jobs[j] EXCEPT !.pc = "parse"]
<1>1. jobs' = [jobs EXCEPT ![j] = new] /\ UNCHANGED <<pickles, sound, request>>
  BY DEF Extract
<1>2. JobOK(jobs[j], pickles)
  BY AppendSequence DEF ModelsInv, JobsInv
<1>3. DOMAIN new = JobFields /\ new.model \in Models /\ new.pc # "dump"
  BY <1>2 DEF JobOK, JobFields
<1> HIDE DEF new
<1>4. JobsInv'
  BY <1>1, <1>3, JobStep DEF JobOK, ModelsInv
<1> QED
  BY <1>1, <1>4, ZenonT(60) DEF ModelsInv, SoundInv, RequestInv, ReadOf, MadeOf, Classifier

LEMMA FitFailsStep ==
  ASSUME ModelsInv, NEW j \in DOMAIN jobs, FitFails(j)
  PROVE  ModelsInv'
<1> DEFINE new == [jobs[j] EXCEPT !.pc = "failed"]
<1>1. jobs' = [jobs EXCEPT ![j] = new] /\ UNCHANGED <<pickles, sound, request>>
  BY DEF FitFails
<1>2. JobOK(jobs[j], pickles)
  BY AppendSequence DEF ModelsInv, JobsInv
<1>3. DOMAIN new = JobFields /\ new.model \in Models /\ new.pc # "dump"
  BY <1>2 DEF JobOK, JobFields
<1> HIDE DEF new
<1>4. JobsInv'
  BY <1>1, <1>3, JobStep DEF JobOK, ModelsInv
<1> QED
  BY <1>1, <1>4, ZenonT(60) DEF ModelsInv, SoundInv, RequestInv, ReadOf, MadeOf, Classifier

LEMMA RemoveDataSetStep ==
  ASSUME ModelsInv, NEW j \in DOMAIN jobs, RemoveDataSet(j)
  PROVE  ModelsInv'
<1>1. PICK pc \in {"failed", "done"} : jobs' = [jobs EXCEPT ![j].pc = pc]
  BY DEF RemoveDataSet
<1> DEFINE new == [jobs[j] EXCEPT !.pc = pc]
<1>2. jobs' = [jobs EXCEPT ![j] = new] /\ UNCHANGED <<pickles, sound, request>>
  BY <1>1 DEF RemoveDataSet
<1>3. JobOK(jobs[j], pickles)
  BY AppendSequence DEF ModelsInv, JobsInv
<1>4. DOMAIN new = JobFields /\ new.model \in Models /\ new.pc # "dump"
  BY <1>3 DEF JobOK, JobFields
<1> HIDE DEF new
<1>5. JobsInv'
  BY <1>2, <1>4, JobStep DEF JobOK, ModelsInv
<1> QED
  BY <1>2, <1>5, ZenonT(60) DEF ModelsInv, SoundInv, RequestInv, ReadOf, MadeOf, Classifier

\* Nothing of the model is written yet.
LEMMA ParsingStep ==
  ASSUME ModelsInv, NEW j \in DOMAIN jobs, Parsing(j)
  PROVE  ModelsInv'
<1> DEFINE job == jobs[j]
           rows == IF job.model = BuiltIn THEN job.rows ELSE dirs[job.dir]
           parts == IF job.model = BuiltIn THEN PartsOfTrain(rows) ELSE PartsOfRetrain
           failed == [job EXCEPT !.pc = "failed"]
           dumps == [job EXCEPT !.pc = "dump", !.rows = rows, !.alone = TRUE, !.todo = parts]
           new == IF rows = {} THEN failed ELSE dumps
<1>1. /\ jobs' = [jobs EXCEPT ![j] = new] /\ UNCHANGED <<pickles, sound, request>>
      /\ job.pc = "parse"
  BY DEF Parsing
<1>2. JobOK(job, pickles)
  BY AppendSequence DEF ModelsInv, JobsInv
<1>3. JobOK(failed, pickles)
  <2>1. DOMAIN failed = JobFields /\ failed.model \in Models /\ failed.pc # "dump"
    BY <1>2 DEF JobOK, JobFields
  <2> HIDE DEF failed
  <2> QED
    BY <2>1 DEF JobOK
<1>4. JobOK(dumps, pickles)
  <2>1. DOMAIN job = JobFields /\ job.model \in Models
    BY <1>2 DEF JobOK
  <2>2. Sequence(parts) /\ parts # <<>>
    BY PartsTrained, PartsRead
  <2> HIDE DEF parts, rows
  <2>3. /\ DOMAIN dumps = JobFields /\ dumps.model = job.model /\ dumps.rows = rows
        /\ dumps.todo = parts
    BY <2>1 DEF JobFields
  <2>4. PartsWritten(dumps) = Range(parts)
    <3>1. job.model = BuiltIn => PartsWritten(dumps) = Range(parts)
      BY <2>3 DEF PartsWritten, parts
    <3>2. job.model # BuiltIn => PartsWritten(dumps) = Range(parts)
      BY <2>3, PartsRead DEF PartsWritten, parts
    <3> QED
      BY <3>1, <3>2
  <2> HIDE DEF dumps
  <2>5. PartsWritten(dumps) \ Range(dumps.todo) = {}
    BY <2>3, <2>4
  <2> QED
    BY <2>1, <2>2, <2>3, <2>4, <2>5 DEF JobOK, MadeOf
<1>5. JobOK(new, pickles)
  <2> HIDE DEF failed, dumps, rows
  <2> QED
    BY <1>3, <1>4
<1> HIDE DEF new
<1>6. JobsInv'
  BY <1>1, <1>5, JobStep DEF ModelsInv
<1> QED
  BY <1>1, <1>6, ZenonT(60) DEF ModelsInv, SoundInv, RequestInv, ReadOf, MadeOf, Classifier

\* A part is written: it is of the rows of its training.
LEMMA PartWritten ==
  ASSUME NEW dir, NEW m, NEW p, NEW rows, NEW n, NEW parts, NEW old,
         MadeOf(dir, n, parts, old),
         n = m => old = rows \/ p \notin parts
  PROVE  MadeOf(With(dir, FileOf(m, p), rows), n, parts, old)
<1> DEFINE new == With(dir, FileOf(m, p), rows)
<1> SUFFICES ASSUME NEW q \in parts PROVE <<n, q>> \in DOMAIN new /\ new[<<n, q>>] = old
  BY DEF MadeOf
<1>1. <<n, q>> \in DOMAIN dir /\ dir[<<n, q>>] = old
  BY DEF MadeOf
<1>2. /\ DOMAIN new = DOMAIN dir \cup {<<m, p>>} /\ new[<<m, p>>] = rows
      /\ \A y \in DOMAIN dir : y # <<m, p>> => new[y] = dir[y]
  <2> DEFINE f == FileOf(m, p)
  <2>1. f = <<m, p>>
    BY DEF FileOf
  <2> HIDE DEF f
  <2>2. /\ DOMAIN With(dir, f, rows) = DOMAIN dir \cup {f} /\ With(dir, f, rows)[f] = rows
        /\ \A y \in DOMAIN dir : y # f => With(dir, f, rows)[y] = dir[y]
    BY DEF With
  <2>3. new = With(dir, f, rows)
    BY DEF f
  <2> HIDE DEF new
  <2> QED
    BY <2>1, <2>2, <2>3
<1> HIDE DEF new
<1>3. CASE <<n, q>> = <<m, p>>
  <2>1. n = m /\ q = p
    BY <1>3
  <2> QED
    BY <1>2, <2>1
<1>4. CASE <<n, q>> # <<m, p>>
  BY <1>1, <1>2, <1>4
<1> QED
  BY <1>3, <1>4

LEMMA DumpStep ==
  ASSUME ModelsInv, NEW j \in DOMAIN jobs, Dump(j)
  PROVE  ModelsInv'
<1> DEFINE job == jobs[j]
           m == job.model
           part0 == Head(job.todo)
           free == job.alone /\ Writing(j) = {}
           last == Len(job.todo) = 1
           own == [job EXCEPT !.todo = Tail(job.todo), !.begun = TRUE, !.alone = free,
                              !.pc = IF last THEN "remove" ELSE "dump"]
           dir == With(pickles, FileOf(m, part0), job.rows)
           v == [i \in DOMAIN jobs |->
                    IF i = j THEN own
                    ELSE IF i \in Writing(j) THEN [jobs[i] EXCEPT !.alone = FALSE] ELSE jobs[i]]
<1>1. /\ job.pc = "dump" /\ pickles' = dir /\ jobs' = v
      /\ sound' = [sound EXCEPT ![m] = last /\ free /\ Whole(job)]
      /\ request' = [request EXCEPT !.clean = request.clean /\ request.model # m]
  BY DEF Dump
<1>2. /\ Sequence(jobs) /\ DOMAIN jobs = 1..Len(jobs) /\ Len(jobs) \in Nat
      /\ \A i \in DOMAIN jobs : JobOK(jobs[i], pickles)
  BY AppendSequence DEF ModelsInv, JobsInv
<1>3. /\ DOMAIN job = JobFields /\ m \in Models /\ Sequence(job.todo) /\ job.todo # <<>>
      /\ job.alone => MadeOf(pickles, m, PartsWritten(job) \ Range(job.todo), job.rows)
  BY <1>1, <1>2 DEF JobOK
<1>4. /\ Sequence(Tail(job.todo)) /\ part0 \in Range(job.todo)
      /\ Range(job.todo) \subseteq Range(Tail(job.todo)) \cup {part0}
      /\ last => Range(job.todo) = {part0}
      /\ ~last => Tail(job.todo) # <<>>
  BY <1>3, HeadAndTail
<1>5. ASSUME job.alone, NEW parts, parts \subseteq PartsWritten(job),
             parts \cap Range(job.todo) \subseteq {part0}
      PROVE  MadeOf(dir, m, parts, job.rows)
  <2>1. MadeOf(pickles, m, parts \ {part0}, job.rows)
    BY <1>3, <1>5 DEF MadeOf
  <2>2. MadeOf(dir, m, parts \ {part0}, job.rows)
    BY <2>1, PartWritten
  <2>3. <<m, part0>> \in DOMAIN dir /\ dir[<<m, part0>>] = job.rows
    <3> DEFINE f == FileOf(m, part0)
    <3>1. f = <<m, part0>>
      BY DEF FileOf
    <3> HIDE DEF f
    <3>2. f \in DOMAIN With(pickles, f, job.rows) /\ With(pickles, f, job.rows)[f] = job.rows
      BY DEF With
    <3>3. dir = With(pickles, f, job.rows)
      BY DEF f
    <3> HIDE DEF dir, m, part0
    <3> QED
      BY <3>1, <3>2, <3>3
  <2> HIDE DEF dir
  <2> QED
    BY <2>2, <2>3 DEF MadeOf
<1>6. JobOK(own, dir)
  <2>1. /\ DOMAIN own = JobFields /\ own.model = m /\ own.rows = job.rows
        /\ own.todo = Tail(job.todo) /\ own.begun = TRUE /\ own.alone = free
        /\ own.pc = IF last THEN "remove" ELSE "dump"
    BY <1>3 DEF JobFields
  <2>2. PartsWritten(own) = PartsWritten(job)
    <3> HIDE DEF own
    <3> QED
      BY <2>1 DEF PartsWritten
  <2>3. free => MadeOf(dir, m, PartsWritten(job) \ Range(Tail(job.todo)), job.rows)
    <3> HAVE free
    <3>1. job.alone
      OBVIOUS
    <3> DEFINE parts == PartsWritten(job) \ Range(Tail(job.todo))
    <3>2. parts \subseteq PartsWritten(job) /\ parts \cap Range(job.todo) \subseteq {part0}
      BY <1>4
    <3> HIDE DEF parts, dir, part0
    <3>3. MadeOf(dir, m, parts, job.rows)
      BY <1>5, <3>1, <3>2
    <3> QED
      BY <3>3 DEF parts
  <2> HIDE DEF own, dir, free, m, last
  <2>4. CASE last
    BY <1>3, <2>1, <2>4 DEF JobOK
  <2>5. CASE ~last
    BY <1>3, <1>4, <2>1, <2>2, <2>3, <2>5 DEF JobOK
  <2> QED
    BY <2>4, <2>5
<1>7. ASSUME NEW i \in DOMAIN jobs, i # j PROVE JobOK(v[i], dir)
  <2>1. JobOK(jobs[i], pickles)
    BY <1>2
  <2>2. CASE i \in Writing(j)
    <3> DEFINE other == [jobs[i] EXCEPT !.alone = FALSE]
    <3>1. v[i] = other
      BY <1>7, <2>2
    <3>2. DOMAIN jobs[i] = JobFields
      BY <2>1 DEF JobOK
    <3>3. /\ DOMAIN other = JobFields /\ other.model = jobs[i].model /\ other.rows = jobs[i].rows
          /\ other.todo = jobs[i].todo /\ other.begun = jobs[i].begun /\ other.alone = FALSE
          /\ other.pc = jobs[i].pc
      BY <3>2 DEF JobFields
    <3> HIDE DEF other, dir, v
    <3>4. PartsWritten(other) = PartsWritten(jobs[i])
      BY <3>3 DEF PartsWritten
    <3> QED
      BY <2>1, <3>1, <3>3, <3>4 DEF JobOK
  <2>3. CASE i \notin Writing(j)
    <3>1. v[i] = jobs[i]
      BY <1>7, <2>3
    <3> DEFINE left == PartsWritten(jobs[i]) \ Range(jobs[i].todo)
    <3>2. ASSUME jobs[i].pc = "dump", jobs[i].alone
          PROVE  MadeOf(dir, jobs[i].model, left, jobs[i].rows)
      <4>1. MadeOf(pickles, jobs[i].model, left, jobs[i].rows)
        BY <2>1, <3>2 DEF JobOK
      <4>2. jobs[i].model = m => left = {}
        <5>1. jobs[i].model = m => ~jobs[i].begun
          BY <1>7, <2>3, <3>2 DEF Writing
        <5> QED
          BY <2>1, <3>2, <5>1 DEF JobOK
      <4> HIDE DEF left, part0
      <4> QED
        BY <4>1, <4>2, PartWritten
    <3> HIDE DEF dir, v
    <3> QED
      BY <2>1, <3>1, <3>2 DEF JobOK
  <2> QED
    BY <2>2, <2>3
<1>8. JobsInv'
  <2>1. v = [i \in 1..Len(jobs) |-> v[i]] /\ v[j] = own
    BY <1>2
  <2> HIDE DEF v, own
  <2>2. Sequence(v) /\ Len(v) = Len(jobs)
    BY <1>2, <2>1, MadeSequence
  <2>3. \A i \in 1..Len(v) : JobOK(v[i], dir)
    BY <1>2, <1>6, <1>7, <2>1, <2>2
  <2> HIDE DEF dir
  <2> QED
    BY <1>1, <2>2, <2>3 DEF JobsInv
<1>9. SoundInv'
  <2>1. DOMAIN sound = Models /\ \A n \in Models :
           sound[n] => \E rows : MadeOf(pickles, n, PartsOf(n), rows)
    BY DEF ModelsInv, SoundInv
  <2>2. ASSUME NEW n \in Models, sound'[n]
        PROVE  \E rows : MadeOf(dir, n, PartsOf(n), rows)
    <3>1. CASE n = m
      <4>1. last /\ free /\ Whole(job)
        BY <1>1, <2>1, <2>2, <3>1, Zenon
      <4>2. PartsWritten(job) = PartsOf(m)
        BY <4>1, PartsTrained DEF PartsWritten, Whole
      <4>3. Range(job.todo) = {part0} /\ job.alone
        BY <1>4, <4>1
      <4> HIDE DEF dir, part0
      <4>4. MadeOf(dir, m, PartsOf(m), job.rows)
        BY <1>5, <4>2, <4>3
      <4> QED
        BY <3>1, <4>4
    <3>2. CASE n # m
      <4>1. sound[n]
        BY <1>1, <2>1, <2>2, <3>2, Zenon
      <4>2. PICK rows : MadeOf(pickles, n, PartsOf(n), rows)
        BY <2>1, <4>1
      <4>3. MadeOf(dir, n, PartsOf(n), rows)
        BY <3>2, <4>2, PartWritten
      <4> QED
        BY <4>3
    <3> QED
      BY <3>1, <3>2
  <2>3. DOMAIN sound' = Models
    BY <1>1, <2>1
  <2> HIDE DEF dir
  <2> QED
    BY <1>1, <2>2, <2>3 DEF SoundInv
<1>10. RequestInv'
  <2>1. /\ DOMAIN request' = RequestFields
        /\ request'.pc = request.pc /\ request'.model = request.model
        /\ request'.todo = request.todo /\ request'.got = request.got
        /\ request'.samples = request.samples /\ request'.type = request.type
        /\ request'.typeVotes = request.typeVotes /\ request'.answer = request.answer
        /\ request'.votes = request.votes
    BY <1>1 DEF ModelsInv, RequestInv, RequestFields
  <2>2. request'.clean => request.clean /\ request.model # m
    BY <1>1, Zenon DEF ModelsInv, RequestInv, RequestFields
  <2>3. request.model # m => \A rows :
           MadeOf(pickles, request.model, PartsOf(request.model), rows)
              => MadeOf(dir, request.model, PartsOf(request.model), rows)
    BY PartWritten
  <2>4. ASSUME request'.clean
        PROVE  /\ request.pc \in {"load", "predict", "answered", "error"}
               /\ request.pc \in {"load", "predict"} => \E rows : ReadOf(rows)'
               /\ request.pc = "answered" /\ request.answer # "default" =>
                     /\ 2 * request.votes > request.samples
                     /\ request.model = BuiltIn =>
                          /\ <<Classifier, request.answer>> \in request.got[Classifier]
                          /\ 2 * request.typeVotes >= request.samples
               /\ request.pc = "error" => request.model # BuiltIn /\ request.votes > 0
    <3>1. request.clean /\ request.model # m
      BY <2>2, <2>4
    <3> HIDE DEF m, dir
    <3>2. ASSUME NEW rows, ReadOf(rows) PROVE ReadOf(rows)'
      <4>1. MadeOf(dir, request.model, PartsOf(request.model), rows)
        BY <2>3, <3>1, <3>2 DEF ReadOf
      <4> QED
        BY <1>1, <2>1, <3>2, <4>1 DEF ReadOf
    <3> QED
      BY <3>1, <3>2 DEF ModelsInv, RequestInv
  <2>5. Classifier' = Classifier
    BY <2>1 DEF Classifier
  <2> QED
    BY <2>1, <2>4, <2>5 DEF RequestInv
<1> QED
  BY <1>8, <1>9, <1>10 DEF ModelsInv

-----------------------------------------------------------------------------
(* The steps of a classification                                           *)

\* A request that reads or answers changes nothing else.
LEMMA RequestStep ==
  ASSUME ModelsInv, UNCHANGED <<pickles, jobs, sound>>, RequestInv'
  PROVE  ModelsInv'
BY DEF ModelsInv, JobsInv, SoundInv

LEMMA ClassifyStep ==
  ASSUME ModelsInv, NEW m \in Models, Classify(m)
  PROVE  ModelsInv'
<1> DEFINE parts == IF m = BuiltIn THEN PartsOfIdentify ELSE PartsOfReidentify
           new == [NoRequest EXCEPT !.pc = "load", !.model = m, !.clean = sound[m],
                                    !.todo = parts]
<1>1. request' = new /\ UNCHANGED <<pickles, jobs, sound>>
  BY DEF Classify
<1>2. Sequence(parts) /\ parts # <<>> /\ Range(parts) = PartsOf(m)
  BY PartsRead
<1> HIDE DEF parts
<1>3. /\ DOMAIN new = RequestFields /\ new.pc = "load" /\ new.model = m /\ new.todo = parts
      /\ new.samples = 0 /\ DOMAIN new.got = {}
  <2>1. DOMAIN <<>> = {}
    OBVIOUS
  <2> QED
    BY <2>1 DEF NoRequest, RequestFields
<1>4. new.clean => sound[m]
  BY Zenon DEF NoRequest
<1> HIDE DEF new
<1>5. ASSUME new.clean PROVE \E rows : ReadOf(rows)'
  <2>1. PICK rows : MadeOf(pickles, m, PartsOf(m), rows)
    BY <1>4, <1>5 DEF ModelsInv, SoundInv
  <2>2. ReadOf(rows)'
    BY <1>1, <1>2, <1>3, <2>1 DEF ReadOf
  <2> QED
    BY <2>2
<1>6. RequestInv'
  BY <1>1, <1>3, <1>5 DEF RequestInv
<1> QED
  BY <1>1, <1>6, RequestStep

LEMMA LoadStep ==
  ASSUME ModelsInv, Load
  PROVE  ModelsInv'
<1> DEFINE m == request.model
           p == Head(request.todo)
           file == FileOf(m, p)
           last == Len(request.todo) = 1
           stop == [request EXCEPT !.pc = "error"]
           new == [request EXCEPT !.todo = Tail(request.todo),
                                  !.got = With(request.got, p, pickles[file]),
                                  !.pc = IF last THEN "predict" ELSE "load"]
<1>1. /\ request.pc = "load" /\ UNCHANGED <<pickles, jobs, sound>>
      /\ request' = IF file \notin DOMAIN pickles THEN stop ELSE new
  BY DEF Load
<1>2. DOMAIN request = RequestFields
  BY DEF ModelsInv, RequestInv
<1>3. CASE ~request.clean
  <2>1. DOMAIN request' = RequestFields
    BY <1>1, <1>2 DEF RequestFields
  <2>2. ~request'.clean
    BY <1>1, <1>2, <1>3, Zenon DEF RequestFields
  <2>3. RequestInv'
    BY <2>1, <2>2 DEF RequestInv
  <2> QED
    BY <1>1, <2>3, RequestStep
<1>4. CASE request.clean
  <2>1. PICK rows : ReadOf(rows)
    BY <1>1, <1>4 DEF ModelsInv, RequestInv
  <2>2. /\ MadeOf(pickles, m, PartsOf(m), rows)
        /\ \A q \in DOMAIN request.got : request.got[q] = rows
        /\ Sequence(request.todo) /\ request.todo # <<>> /\ Range(request.todo) \subseteq PartsOf(m)
        /\ PartsOf(m) \subseteq DOMAIN request.got \cup Range(request.todo)
        /\ request.samples = 0
    BY <1>1, <2>1 DEF ReadOf
  <2>3. /\ Sequence(Tail(request.todo)) /\ p \in Range(request.todo)
        /\ Range(Tail(request.todo)) \subseteq Range(request.todo)
        /\ Range(request.todo) \subseteq Range(Tail(request.todo)) \cup {p}
        /\ last => Range(request.todo) = {p}
        /\ ~last => Tail(request.todo) # <<>>
    BY <2>2, HeadAndTail
  <2>4. file \in DOMAIN pickles /\ pickles[file] = rows
    <3>1. p \in PartsOf(m)
      BY <2>2, <2>3
    <3> HIDE DEF p, m
    <3> QED
      BY <2>2, <3>1 DEF MadeOf, FileOf
  <2> DEFINE got == With(request.got, p, rows)
  <2>5. /\ DOMAIN got = DOMAIN request.got \cup {p}
        /\ \A q \in DOMAIN got : got[q] = rows
    <3> HIDE DEF p
    <3>1. DOMAIN got = DOMAIN request.got \cup {p}
      BY DEF With
    <3>2. \A q \in DOMAIN request.got \cup {p} : got[q] = IF q = p THEN rows ELSE request.got[q]
      BY DEF With
    <3> HIDE DEF got
    <3> QED
      BY <2>2, <3>1, <3>2
  <2>6. /\ DOMAIN new = RequestFields /\ new.todo = Tail(request.todo)
        /\ new.got = got /\ new.model = m /\ new.samples = 0
        /\ new.pc = IF last THEN "predict" ELSE "load"
    BY <1>2, <2>2, <2>4 DEF RequestFields
  <2>7. request' = new
    BY <1>1, <2>4
  <2> HIDE DEF new, got, p, last, m
  <2>8. ReadOf(rows)'
    <3>1. CASE last
      <4>1. new.pc = "predict" /\ Range(request.todo) = {p}
        BY <2>3, <2>6, <3>1
      <4>2. PartsOf(m) \subseteq DOMAIN got
        BY <2>2, <2>5, <4>1
      <4>3. MadeOf(pickles', m, PartsOf(m), rows)
        BY <1>1, <2>2
      <4> QED
        BY <2>5, <2>6, <2>7, <4>1, <4>2, <4>3 DEF ReadOf
    <3>2. CASE ~last
      BY <1>1, <2>2, <2>3, <2>5, <2>6, <2>7, <3>2 DEF ReadOf
    <3> QED
      BY <3>1, <3>2
  <2>9. RequestInv'
    BY <2>6, <2>7, <2>8 DEF RequestInv
  <2> QED
    BY <1>1, <2>9, RequestStep
<1> QED
  BY <1>3, <1>4

\* What an answer says of the labels, and what it leaves alone.
LEMMA AnswerFields ==
  ASSUME NEW n \in Nat \ {0}, NEW labels, labels = [i \in 1..n |-> labels[i]],
         NEW own, NEW names, DOMAIN request = RequestFields, Answer(n, labels, own, names)
  PROVE  /\ DOMAIN request' = RequestFields
         /\ request'.model = request.model /\ request'.got = request.got
         /\ request'.type = request.type /\ request'.typeVotes = request.typeVotes
         /\ request'.clean => request.clean
         /\ own = names /\ Known(labels, names) =>
               /\ request'.pc = "answered" /\ request'.samples = n
               /\ request'.answer # "default" =>
                     /\ 2 * request'.votes > n
                     /\ request'.answer = Meaning(MostCommon(labels), names)
         /\ own = names /\ ~Known(labels, names) =>
               request'.pc = "error" /\ request'.votes > 0
<1> DEFINE app == Meaning(MostCommon(labels), names)
           wrong == [request EXCEPT !.pc = "error", !.votes = Meant(labels, own, "none")]
           right == [request EXCEPT !.pc = "answered", !.samples = n,
                                    !.answer = Majority(labels, app),
                                    !.votes = Meant(labels, own, app)]
<1>1. request' = IF ~Known(labels, names) THEN wrong ELSE right
  BY DEF Answer
<1>2. DOMAIN labels = 1..n /\ Len(labels) = n
  <2>1. DOMAIN labels = 1..n
    BY Zenon
  <2> QED
    BY <2>1, MadeSequence
<1>3. /\ DOMAIN wrong = RequestFields /\ wrong.model = request.model /\ wrong.got = request.got
      /\ wrong.type = request.type /\ wrong.typeVotes = request.typeVotes
      /\ wrong.pc = "error" /\ wrong.votes = Meant(labels, own, "none")
  BY DEF RequestFields
<1>4. /\ DOMAIN right = RequestFields /\ right.model = request.model /\ right.got = request.got
      /\ right.type = request.type /\ right.typeVotes = request.typeVotes
      /\ right.pc = "answered" /\ right.samples = n
      /\ right.answer = Majority(labels, app) /\ right.votes = Meant(labels, own, app)
  BY DEF RequestFields
<1>5. (wrong.clean => request.clean) /\ (right.clean => request.clean)
  BY Zenon DEF RequestFields
<1> HIDE DEF wrong, right
<1>6. CASE Known(labels, names)
  <2>1. request' = right
    BY <1>1, <1>6
  <2>2. ASSUME own = names, right.answer # "default"
        PROVE  2 * right.votes > n /\ right.answer = app
    <3>1. 2 * Count(labels, MostCommon(labels)) > n /\ right.answer = app
      BY <1>2, <1>4, <2>2 DEF Majority
    <3>2. /\ Count(labels, MostCommon(labels)) \in Nat
          /\ Meant(labels, names, app) \in Nat
          /\ Count(labels, MostCommon(labels)) <= Meant(labels, names, app)
      BY <1>2, NameHasVotes
    <3> QED
      BY <1>4, <2>2, <3>1, <3>2
  <2> HIDE DEF app
  <2>3. own = names => /\ right.pc = "answered" /\ right.samples = n
                       /\ right.answer # "default" =>
                             2 * right.votes > n /\ right.answer = app
    BY <1>4, <2>2
  <2> QED
    BY <1>4, <1>5, <1>6, <2>1, <2>3 DEF app
<1>7. CASE ~Known(labels, names)
  <2>1. request' = wrong
    BY <1>1, <1>7
  <2>2. ASSUME own = names PROVE wrong.votes > 0
    <3>1. PICK i \in 1..n : labels[i] \notin Labels(names)
      BY <1>2, <1>7 DEF Known, Range
    <3>2. Meaning(labels[i], names) = "none" /\ labels[i] \in Range(labels)
      BY <1>2, <3>1 DEF Meaning, Range
    <3>3. Meant(labels, names, Meaning(labels[i], names)) > 0
      BY <1>2, <3>2, NameHasVotes
    <3> QED
      BY <1>3, <2>2, <3>2, <3>3
  <2> QED
    BY <1>3, <1>5, <1>7, <2>1, <2>2
<1> QED
  BY <1>6, <1>7

\* What is not clean says nothing.
LEMMA NotClean ==
  ASSUME ModelsInv, UNCHANGED <<pickles, jobs, sound>>, DOMAIN request' = RequestFields,
         ~request'.clean
  PROVE  ModelsInv'
<1>1. RequestInv'
  BY DEF RequestInv
<1> QED
  BY <1>1, RequestStep

LEMMA IdentifyTypeStep ==
  ASSUME ModelsInv, IdentifyType
  PROVE  ModelsInv'
<1> DEFINE names == TypesOf(request.got["tencoder"])
           own == TypesOf(request.got["total"])
<1>1. /\ request.pc = "predict" /\ request.model = BuiltIn /\ request.samples = 0
      /\ UNCHANGED <<pickles, jobs, sound>>
  BY DEF IdentifyType
<1>2. PICK n \in SampleCounts : \E labels \in [1..n -> Labels(own)] :
         LET type == Meaning(MostCommon(labels), names)
             few == 2 * Count(labels, MostCommon(labels)) < n
         IN  request' =
               IF ~Known(labels, names) THEN [request EXCEPT !.pc = "error"]
               ELSE IF few
               THEN [request EXCEPT !.pc = "answered", !.samples = n, !.answer = "default"]
               ELSE [request EXCEPT !.samples = n, !.type = type,
                                    !.typeVotes = Meant(labels, own, type)]
  BY DEF IdentifyType
<1>0. PICK labels \in [1..n -> Labels(own)] :
         LET type == Meaning(MostCommon(labels), names)
             few == 2 * Count(labels, MostCommon(labels)) < n
         IN  request' =
               IF ~Known(labels, names) THEN [request EXCEPT !.pc = "error"]
               ELSE IF few
               THEN [request EXCEPT !.pc = "answered", !.samples = n, !.answer = "default"]
               ELSE [request EXCEPT !.samples = n, !.type = type,
                                    !.typeVotes = Meant(labels, own, type)]
  BY <1>2
<1> DEFINE type == Meaning(MostCommon(labels), names)
           few == 2 * Count(labels, MostCommon(labels)) < n
           wrong == [request EXCEPT !.pc = "error"]
           none == [request EXCEPT !.pc = "answered", !.samples = n, !.answer = "default"]
           right == [request EXCEPT !.samples = n, !.type = type,
                                    !.typeVotes = Meant(labels, own, type)]
<1>3. request' = IF ~Known(labels, names) THEN wrong ELSE IF few THEN none ELSE right
  BY <1>0
<1>4. DOMAIN request = RequestFields
  BY DEF ModelsInv, RequestInv
<1>5. CASE ~request.clean
  <2>1. /\ DOMAIN wrong = RequestFields /\ DOMAIN none = RequestFields
        /\ DOMAIN right = RequestFields
    BY <1>4 DEF RequestFields
  <2>2. ~wrong.clean /\ ~none.clean /\ ~right.clean
    BY <1>4, <1>5, Zenon DEF RequestFields
  <2> HIDE DEF wrong, none, right, few
  <2> QED
    BY <1>1, <1>3, <2>1, <2>2, NotClean
<1>6. CASE request.clean
  <2>1. PICK rows : ReadOf(rows)
    BY <1>1, <1>6 DEF ModelsInv, RequestInv
  <2>2. /\ MadeOf(pickles, BuiltIn, PartsOf(BuiltIn), rows)
        /\ \A p \in DOMAIN request.got : request.got[p] = rows
        /\ PartsOf(BuiltIn) \subseteq DOMAIN request.got
    BY <1>1, <2>1 DEF ReadOf
  <2>3. own = names
    BY <2>2 DEF PartsOf
  <2>4. n \in Nat \ {0} /\ DOMAIN labels = 1..n /\ labels = [i \in 1..n |-> labels[i]]
    BY ModelsAssumption
  <2>5. Known(labels, names)
    BY <2>3, <2>4 DEF Known, Range
  <2>6. CASE few
    <3>1. request' = none
      BY <1>3, <2>5, <2>6
    <3>2. DOMAIN none = RequestFields /\ none.pc = "answered" /\ none.answer = "default"
      BY <1>4 DEF RequestFields
    <3> HIDE DEF none
    <3>3. RequestInv'
      BY <3>1, <3>2 DEF RequestInv
    <3> QED
      BY <1>1, <3>3, RequestStep
  <2>7. CASE ~few
    <3>1. request' = right
      BY <1>3, <2>5, <2>7
    <3>2. /\ DOMAIN right = RequestFields /\ right.pc = "predict" /\ right.model = BuiltIn
          /\ right.got = request.got /\ right.samples = n
          /\ right.typeVotes = Meant(labels, own, type)
      BY <1>1, <1>4 DEF RequestFields
    <3>3. 2 * Meant(labels, own, type) >= n
      <4>1. /\ Count(labels, MostCommon(labels)) \in Nat /\ Meant(labels, names, type) \in Nat
            /\ Count(labels, MostCommon(labels)) <= Meant(labels, names, type)
        BY <2>4, NameHasVotes
      <4>2. 2 * Count(labels, MostCommon(labels)) >= n
        BY <2>4, <2>7, <4>1
      <4> HIDE DEF names, own, type
      <4> QED
        BY <2>3, <2>4, <4>1, <4>2
    <3> HIDE DEF right, type, own, names
    <3>4. ReadOf(rows)'
      BY <1>1, <2>2, <2>4, <3>1, <3>2, <3>3 DEF ReadOf
    <3>5. RequestInv'
      BY <3>1, <3>2, <3>4 DEF RequestInv
    <3> QED
      BY <1>1, <3>5, RequestStep
  <2> QED
    BY <2>6, <2>7
<1> QED
  BY <1>5, <1>6

LEMMA IdentifyAppStep ==
  ASSUME ModelsInv, IdentifyApp
  PROVE  ModelsInv'
<1> DEFINE c == Classifier
           r == request.got[c]
           own == AppsOf(r)
           names == AppsOf(request.got["aencoder"])
           n == request.samples
<1>1. /\ request.pc = "predict" /\ request.samples > 0 /\ UNCHANGED <<pickles, jobs, sound>>
  BY DEF IdentifyApp
<1>2. PICK labels \in [1..n -> AppLabels(r, c)] : Answer(n, labels, own, names)
  BY DEF IdentifyApp
<1>3. DOMAIN request = RequestFields
  BY DEF ModelsInv, RequestInv
<1>4. CASE ~request.clean
  <2>1. DOMAIN request' = RequestFields /\ ~request'.clean
    BY <1>2, <1>3, <1>4, Zenon DEF Answer, RequestFields
  <2> QED
    BY <1>1, <2>1, NotClean
<1>5. CASE request.clean
  <2>1. PICK rows : ReadOf(rows)
    BY <1>1, <1>5 DEF ModelsInv, RequestInv
  <2>2. /\ \A p \in DOMAIN request.got : request.got[p] = rows
        /\ PartsOf(request.model) \subseteq DOMAIN request.got
        /\ n \in Nat /\ request.model = BuiltIn /\ 2 * request.typeVotes >= n
    BY <1>1, <2>1 DEF ReadOf
  <2>3. c \in DOMAIN request.got /\ "aencoder" \in DOMAIN request.got
    BY <2>2 DEF PartsOf, Classifier
  <2>4. r = rows /\ own = names
    BY <2>2, <2>3
  <2>5. n \in Nat \ {0} /\ DOMAIN labels = 1..n /\ labels = [i \in 1..n |-> labels[i]]
    BY <1>1, <2>2
  <2>6. MostCommon(labels) \in AppLabels(r, c) /\ Range(labels) \subseteq AppLabels(r, c)
    <3>1. Range(labels) \subseteq AppLabels(r, c)
      BY <2>5 DEF Range
    <3>2. MostCommon(labels) \in Range(labels)
      BY <2>5, MostCommonGiven
    <3> QED
      BY <3>1, <3>2
  <2> HIDE DEF c, n, own, names, r
  <2>7. /\ \A l \in AppLabels(r, c) : l \in Labels(own) /\ <<c, Meaning(l, own)>> \in r
    BY DEF AppLabels, Meaning, own
  <2>8. Known(labels, names)
    BY <2>4, <2>6, <2>7 DEF Known
  <2>9. /\ DOMAIN request' = RequestFields
        /\ request'.model = request.model /\ request'.got = request.got
        /\ request'.type = request.type /\ request'.typeVotes = request.typeVotes
        /\ request'.pc = "answered" /\ request'.samples = n
        /\ request'.answer # "default" =>
              2 * request'.votes > n /\ request'.answer = Meaning(MostCommon(labels), names)
    BY <1>2, <1>3, <2>4, <2>5, <2>8, AnswerFields
  <2>10. Classifier' = c
    BY <2>9 DEF Classifier, c
  <2>11. request'.answer # "default" => <<c, request'.answer>> \in request'.got[c]
    BY <2>4, <2>6, <2>7, <2>9 DEF r
  <2>12. RequestInv'
    BY <2>2, <2>9, <2>10, <2>11 DEF RequestInv
  <2> QED
    BY <1>1, <2>12, RequestStep
<1> QED
  BY <1>4, <1>5

LEMMA ReidentifyStep ==
  ASSUME ModelsInv, Reidentify
  PROVE  ModelsInv'
<1> DEFINE r == request.got["model"]
           own == AppsOf(r)
           names == AppsOf(request.got["encoder"])
<1>1. /\ request.pc = "predict" /\ request.model # BuiltIn
      /\ UNCHANGED <<pickles, jobs, sound>>
  BY DEF Reidentify
<1>2. PICK n \in SampleCounts : \E labels \in [1..n -> ModelLabels(r)] :
         Answer(n, labels, own, names)
  BY DEF Reidentify
<1>0. PICK labels \in [1..n -> ModelLabels(r)] : Answer(n, labels, own, names)
  BY <1>2
<1>3. DOMAIN request = RequestFields
  BY DEF ModelsInv, RequestInv
<1>4. CASE ~request.clean
  <2>1. DOMAIN request' = RequestFields /\ ~request'.clean
    BY <1>0, <1>3, <1>4, Zenon DEF Answer, RequestFields
  <2> QED
    BY <1>1, <2>1, NotClean
<1>5. CASE request.clean
  <2>1. PICK rows : ReadOf(rows)
    BY <1>1, <1>5 DEF ModelsInv, RequestInv
  <2>2. /\ \A p \in DOMAIN request.got : request.got[p] = rows
        /\ PartsOf(request.model) \subseteq DOMAIN request.got
    BY <1>1, <2>1 DEF ReadOf
  <2>3. "model" \in DOMAIN request.got /\ "encoder" \in DOMAIN request.got
    BY <1>1, <2>2 DEF PartsOf
  <2>4. own = names
    BY <2>2, <2>3
  <2>5. n \in Nat \ {0} /\ labels = [i \in 1..n |-> labels[i]]
    BY ModelsAssumption
  <2> HIDE DEF own, names
  <2>6. /\ DOMAIN request' = RequestFields /\ request'.model = request.model
        /\ Known(labels, names) =>
              /\ request'.pc = "answered" /\ request'.samples = n
              /\ request'.answer # "default" => 2 * request'.votes > n
        /\ ~Known(labels, names) => request'.pc = "error" /\ request'.votes > 0
    BY <1>0, <1>3, <2>4, <2>5, AnswerFields
  <2>7. RequestInv'
    BY <1>1, <2>6 DEF RequestInv
  <2> QED
    BY <1>1, <2>7, RequestStep
<1> QED
  BY <1>4, <1>5

-----------------------------------------------------------------------------
\* The models of the package are whole to begin with.
LEMMA ModelsInvInit == ASSUME ModelInit PROVE ModelsInv
<1>1. JobsInv
  <2>1. jobs = <<>>
    BY DEF ModelInit
  <2>2. Sequence(jobs) /\ Len(jobs) = 0
    BY <2>1, EmptySequence
  <2> QED
    BY <2>2 DEF JobsInv
<1>2. SoundInv
  <2>1. DOMAIN sound = Models /\ \A m \in Models : sound[m] => m = BuiltIn
    <3>1. sound = [m \in Models |-> m = BuiltIn]
      BY DEF ModelInit, Models
    <3> QED
      BY <3>1, Zenon
  <2>2. MadeOf(pickles, BuiltIn, PartsOf(BuiltIn), Shipped)
    <3>1. Range(PartsOfTrain(Shipped)) = PartsOf(BuiltIn)
      BY ModelsAssumption, PartsTrained
    <3>2. pickles = [f \in {BuiltIn} \X PartsOf(BuiltIn) |-> Shipped]
      BY <3>1 DEF ModelInit
    <3> QED
      BY <3>2 DEF MadeOf
  <2> QED
    BY <2>1, <2>2 DEF SoundInv
<1>3. RequestInv
  <2>1. request = NoRequest
    BY DEF ModelInit
  <2>2. DOMAIN NoRequest = RequestFields
    BY DEF NoRequest, RequestFields
  <2>3. ~NoRequest.clean
    BY DEF NoRequest
  <2> QED
    BY <2>1, <2>2, <2>3 DEF RequestInv
<1> QED
  BY <1>1, <1>2, <1>3 DEF ModelsInv

LEMMA ModelsInvStep ==
  ASSUME ModelsInv, [EngineNext]_engineVars
  PROVE  ModelsInv'
<1>1. CASE ModelsTask
  <2>1. CASE \E t \in Trainings : StartTraining(t)
    BY <2>1, StartTrainingStep
  <2>2. CASE \E j \in DOMAIN jobs : Extract(j)
    BY <2>2, ExtractStep
  <2>3. CASE \E j \in DOMAIN jobs : Parsing(j)
    BY <2>3, ParsingStep
  <2>4. CASE \E j \in DOMAIN jobs : Dump(j)
    BY <2>4, DumpStep
  <2>5. CASE \E j \in DOMAIN jobs : FitFails(j)
    BY <2>5, FitFailsStep
  <2>6. CASE \E j \in DOMAIN jobs : RemoveDataSet(j)
    BY <2>6, RemoveDataSetStep
  <2>7. CASE \E m \in UserModels \cup {BuiltIn} : Classify(m)
    BY <2>7, ClassifyStep DEF Models
  <2>8. CASE Load
    BY <2>8, LoadStep
  <2>9. CASE IdentifyType
    BY <2>9, IdentifyTypeStep
  <2>10. CASE IdentifyApp
    BY <2>10, IdentifyAppStep
  <2>11. CASE Reidentify
    BY <2>11, ReidentifyStep
  <2> QED
    BY <1>1, <2>1, <2>2, <2>3, <2>4, <2>5, <2>6, <2>7, <2>8, <2>9, <2>10, <2>11
       DEF ModelsTask, ModelNext
<1>2. CASE UNCHANGED modelVars
  BY <1>2, ZenonT(60) DEF modelVars, ModelsInv, JobsInv, SoundInv, RequestInv, ReadOf, MadeOf, Classifier
<1> QED
  BY <1>1, <1>2 DEF EngineNext, SearchTask, FilesTask, engineVars

\* A sound model is of one set of rows, and so is what a classification has
\* read of it (train, retrain, reidentify, identify).
THEOREM ModelsConsistent == EngineSpec => []ModelsInv
<1>1. EngineInit => ModelsInv
  BY ModelsInvInit DEF EngineInit
<1>2. ModelsInv /\ [EngineNext]_engineVars => ModelsInv'
  BY ModelsInvStep
<1> QED
  BY <1>1, <1>2, PTL DEF EngineSpec

\* A classification with a model that nobody disturbed is founded on what its
\* classifier said (identify, reidentify).
THEOREM AnswersFounded == EngineSpec => []AnswerFounded
<1>1. ModelsInv => AnswerFounded
  BY DEF ModelsInv, RequestInv, AnswerFounded
<1> QED
  BY <1>1, ModelsConsistent, PTL
=============================================================================
