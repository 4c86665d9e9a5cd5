---------------------------- MODULE SearchEngines ----------------------------
(***************************************************************************)
(* The worker process of a search, engine by engine: which settings        *)
(* Optimizer.run and the managers of src/analysis/optimizer ask to be      *)
(* evaluated, in which order, and what they send when they have finished.  *)
(*                                                                         *)
(* A setting is a sequence of values, one for each knob; a value is a      *)
(* whole number, an option of a knob of text too.  An evaluation is the    *)
(* sum that the engine makes of the values of a result.                    *)
(***************************************************************************)
EXTENDS Integers, Sequences, FiniteSets, FiniteSetsExt, SequencesExt, Functions

CONSTANTS
    Tasks,          \* what may be asked for: the engine (abtest, gridsearch, traverse,
                    \* lhs, tpe, ppo, or "bayes" for those of skopt, which differ only
                    \* in what they propose), the knobs, whether features are selected
                    \* (none, wefs, vrfs), whether the benchmark is steady, and how
                    \* often the search may be lost and started again (a bound)
    Values,         \* evaluations
    MaxEval,        \* max_eval of the request
    SplitCount,     \* split_count of the request
    Regressors,     \* of the feature selector, a process each
    PipeSize        \* numbers that a pipe takes without a reader

ASSUME SearchAssumption ==
    /\ Values \subseteq Int
    /\ MaxEval \in Nat /\ SplitCount \in Nat /\ PipeSize \in Nat

VARIABLES
    w,              \* the worker
    log             \* the evaluations of the search, those of lost workers too

searchVars == <<w, log>>

NoValue == -1       \* the default of a knob the machine does not have
NoSetting == <<>>

IsText(k) == k.dtype = "string"
Minimum(s) == Min(ToSet(s))
\* np.argmin: the first of the smallest.
ArgMin(s) == Min({i \in DOMAIN s : s[i] = Minimum(s)})

-----------------------------------------------------------------------------
(* The values of a knob                                                    *)

\* The bounds of a range come in pairs; a bound without a partner is ignored.
Pairs(k) == {<<k.range[2 * i - 1], k.range[2 * i]>> : i \in 1..Len(k.range) \div 2}
Steps(k, p, last) == {x \in p[1]..p[2] - 1 + last : (x - p[1]) % Max({k.step, 1}) = 0}
Arange(k, last) == UNION {Steps(k, p, last) : p \in Pairs(k)}
\* n values from the lower bound on, a part of the range from each other.
Splits(k, n, parts) ==
    [i \in 1..n |-> k.range[1] + (i - 1) * ((k.range[2] - k.range[1]) \div parts)]
ItemsAndSplits(k, parts) ==
    IF IsText(k) THEN k.options
    ELSE k.items \o (IF k.range = <<>> THEN <<>> ELSE Splits(k, SplitCount, parts))

ABtestItems(k) == ItemsAndSplits(k, SplitCount)
SamplingItems(k) == ItemsAndSplits(k, SplitCount - 1)
\* hyperopt and stable_baselines3 get the first pair of bounds only, and the
\* latter none of the items.
TPEItems(k) ==
    IF IsText(k) THEN ToSet(k.options)
    ELSE IF k.type = "continuous" THEN k.range[1]..k.range[2]
    ELSE ToSet(k.items)
         \cup IF k.range = <<>> THEN {} ELSE Steps(k, SubSeq(k.range, 1, 2), 0)
PPOItems(k) ==
    IF IsText(k) THEN ToSet(k.options) ELSE Steps(k, SubSeq(k.range, 1, 2), 1)

\* list(set(...)) of texts (the items) and numbers (the range): the hashes of
\* texts differ from process to process, and so does the order of the list.
Mixed(k) == ~IsText(k) /\ k.range # <<>> /\ k.items # <<>>
GridItems(k) ==
    IF IsText(k) THEN {k.options}
    ELSE IF k.range = <<>> THEN {k.items}
    ELSE LET all == {[type |-> "text", value |-> x] : x \in ToSet(k.items)}
                    \cup {[type |-> "number", value |-> x] : x \in Arange(k, 1)}
             orders == IF Mixed(k) THEN SetToSeqs(all) ELSE {SetToSeq(all)}
    IN  {[i \in DOMAIN o |-> o[i].value] : o \in orders}

\* build_space.  The reference, if there is just one, becomes an item of its own.
\* skopt takes a list of two numbers for the bounds of a range.
SpaceItems(k, ref) ==
    ref \cup IF IsText(k) THEN ToSet(k.options) ELSE ToSet(k.items) \cup Arange(k, 1)
TwoNumbers(k, ref) ==
    ~IsText(k) /\ k.type # "continuous" /\ Cardinality(SpaceItems(k, ref)) = 2
SpaceOf(k, ref) ==
    IF k.type = "continuous" THEN k.range[1]..k.range[2]
    ELSE IF TwoNumbers(k, ref) THEN Min(SpaceItems(k, ref))..Max(SpaceItems(k, ref))
    ELSE SpaceItems(k, ref)

\* get_traverse_list: what differs from the default.
Alternatives(k) ==
    FoldLeft(LAMBDA list, v : IF v = k.ref THEN list ELSE Append(list, v), <<>>,
             IF k.options # <<>> THEN k.options
             ELSE <<Max(UNION {{p[1], p[2]} : p \in Pairs(k)}),
                    Min(UNION {{p[1], p[2]} : p \in Pairs(k)})>>)

-----------------------------------------------------------------------------
(* The plans of the engines                                                *)

Defaults(knobs) == [i \in DOMAIN knobs |-> knobs[i].ref]
FirstItems(knobs) == [i \in DOMAIN knobs |-> ABtestItems(knobs[i])[1]]

\* construct_set_knob_val_vec for each item of knob i: the best of the knobs
\* before it, the first item of those after it.
\* (mutation) the knobs before it are at their first item again
SweepFromFirst(knobs, best, i) ==
    [j \in DOMAIN ABtestItems(knobs[i]) |->
        [FirstItems(knobs) EXCEPT ![i] = ABtestItems(knobs[i])[j]]]
Sweep(knobs, best, i) ==
    [j \in DOMAIN ABtestItems(knobs[i]) |->
        [best EXCEPT ![i] = ABtestItems(knobs[i])[j]]]

\* expand_parameters: all combinations, the last knob changing fastest.
Combinations(items) == FoldLeft(LAMBDA a, x : a * Len(x), 1, items)
\* (mutation) every knob but the last changes at once
ExpandTogether(items) ==
    [n \in 1..Combinations(items) |->
        [i \in DOMAIN items |-> items[i][((n - 1) % Len(items[i])) + 1]]]
Expand(items) ==
    [n \in 1..Combinations(items) |->
        [i \in DOMAIN items |->
            items[i][(((n - 1) \div Combinations(SubSeq(items, i + 1, Len(items))))
                      % Len(items[i])) + 1]]]

\* The default first, then one knob at a time.
TraverseList(knobs) ==
    <<Defaults(knobs)>>
    \o FlattenSeq([i \in DOMAIN knobs |->
          [j \in DOMAIN Alternatives(knobs[i]) |->
              [Defaults(knobs) EXCEPT ![i] = Alternatives(knobs[i])[j]]]])
Owner(knobs) ==     \* _performIndex_knobsIndex
    <<0>> \o FlattenSeq([i \in DOMAIN knobs |-> [j \in DOMAIN Alternatives(knobs[i]) |-> i]])

-----------------------------------------------------------------------------
(* get_traverse_rank                                                       *)

\* The walk over _performIndex_knobsIndex, from evaluation n on.  The evaluations
\* of an option stand together, and that of the default is added to them; those of
\* a range are one or two, and a single one is compared with that of the default.
NextKnob(owner, n) ==
    Min({m \in n + 1..Len(owner) + 1 : m > Len(owner) \/ owner[m] # owner[n]})
\* (mutation) the second evaluation of a range is taken for that of another knob
ShortVisit(knobs, owner, n) ==
    IF knobs[owner[n]].options # <<>> THEN NextKnob(owner, n) - 1 ELSE n
LastVisited(knobs, owner, n) ==
    IF knobs[owner[n]].options # <<>> THEN NextKnob(owner, n) - 1
    ELSE IF n < Len(owner) /\ owner[n + 1] = owner[n] THEN n + 1 ELSE n
Walk(knobs, perf) ==
    LET owner == Owner(knobs)
        walk[n \in 1..Len(owner) + 1] ==
            IF n > Len(owner) THEN [lowest |-> <<>>, difference |-> <<>>]
            ELSE LET last == LastVisited(knobs, owner, n)
                     own == {perf[m] : m \in n..last}
                     all == own \cup {perf[1]}
                     options == knobs[owner[n]].options # <<>>
                     low == Min(IF options THEN all ELSE own)
                     compared == IF options \/ last = n THEN all ELSE own
                     after == walk[last + 1]
                 IN  [lowest |-> after.lowest @@ (owner[n] :> low),
                      difference |-> after.difference
                                       @@ (owner[n] :> Max(compared) - Min(compared))]
    IN  walk[2]

\* What the walk comes to, knob by knob.
Traversed(knobs) == {i \in DOMAIN knobs : Alternatives(knobs[i]) # <<>>}
Results(knobs, perf, default) ==
    LET owner == Owner(knobs)
    IN  [i \in Traversed(knobs) |->
            {perf[n] : n \in {m \in DOMAIN perf : owner[m] = i}}
            \cup (IF default[i] THEN {perf[1]} ELSE {})]
Lowest(knobs, perf) ==
    LET results == Results(knobs, perf, [i \in DOMAIN knobs |-> knobs[i].options # <<>>])
    IN  [i \in DOMAIN results |-> Min(results[i])]
Difference(knobs, perf) ==
    LET results == Results(knobs, perf, [i \in DOMAIN knobs |->
                       knobs[i].options # <<>> \/ Len(Alternatives(knobs[i])) = 1])
    IN  [i \in DOMAIN results |-> Max(results[i]) - Min(results[i])]

\* The places of knob i in the two sorted lists, added; the names, here the
\* indices, decide between equals.
\* (mutation) both lists are sorted ascending
BothAscending(lowest, difference, i) ==
    Cardinality({j \in DOMAIN lowest : lowest[j] < lowest[i]})
    + Cardinality({j \in DOMAIN lowest : difference[j] < difference[i]})
Places(lowest, difference, i) ==
    Cardinality({j \in DOMAIN lowest :
        lowest[j] < lowest[i] \/ (lowest[j] = lowest[i] /\ j < i)})
    + Cardinality({j \in DOMAIN lowest :
        difference[j] > difference[i] \/ (difference[j] = difference[i] /\ j > i)})

\* rank_list_compare; what it leaves undecided is in the order of a dict.
TraverseRanks(lowest, difference) ==
    {r \in Bijection(DOMAIN lowest, 1..Cardinality(DOMAIN lowest)) :
        \A i, j \in DOMAIN lowest :
            LET a == Places(lowest, difference, i)
                b == Places(lowest, difference, j)
            IN  a < b \/ (a = b /\ lowest[i] < lowest[j]) => r[i] > r[j]}

-----------------------------------------------------------------------------
(* The worker                                                              *)

\* What a worker sends as "param" at the end: a setting, the knobs whose values have
\* a fraction that the evaluation had not, and whether it is inside another "param".
NoReport == [setting |-> NoSetting, cut |-> {}, nested |-> FALSE]

NewWorker(t, done) ==
    [engine |-> t.engine, knobs |-> t.knobs, sel |-> t.sel, steady |-> t.steady,
     lives |-> t.lives, done |-> done, pc |-> "start", announced |-> -1, plan |-> <<>>,
     calls |-> 0, asked |-> NoSetting, options |-> <<>>, perf |-> <<>>, knob |-> 0,
     best |-> NoSetting, fitting |-> {}, missing |-> {}, final |-> NoReport,
     lowest |-> <<>>, difference |-> <<>>, rank |-> <<>>]

\* Optimizer.post starts the worker of a task.
Idle == [engine |-> "", knobs |-> <<>>, sel |-> "none", steady |-> FALSE, lives |-> 0]
CreateTask(t) ==
    /\ w.pc = "idle"
    /\ w' = NewWorker(t, 0)
    /\ UNCHANGED log

Product(sets) == {f \in [DOMAIN sets -> UNION {sets[i] : i \in DOMAIN sets}] :
                    \A i \in DOMAIN f : f[i] \in sets[i]}

\* The number of evaluations is sent first; Optimizer.post waits for it.
StartABtest ==
    /\ w.pc = "start" /\ w.engine = "abtest"
    /\ w' = [w EXCEPT !.pc = "search", !.knob = 1, !.best = FirstItems(w.knobs),
                      !.announced = FoldLeft(LAMBDA a, k : a + Len(ABtestItems(k)), 0, w.knobs),
                      !.plan = Sweep(w.knobs, FirstItems(w.knobs), 1)]
    /\ UNCHANGED log

\* The combinations that have an evaluation already are taken to be the first.
StartGridsearch ==
    /\ w.pc = "start" /\ w.engine = "gridsearch"
    /\ \E items \in Product([i \in DOMAIN w.knobs |-> GridItems(w.knobs[i])]) :
          LET spaces == Expand(items)
          IN  w' = [w EXCEPT !.pc = "search", !.announced = Len(spaces),
                             !.plan = SubSeq(spaces, w.done + 1, Len(spaces))]
    /\ UNCHANGED log

\* A knob with neither options nor a range is a TypeError, which is sent.
StartTraverse ==
    /\ w.pc = "start" /\ w.engine = "traverse"
    /\ IF \E k \in ToSet(w.knobs) : k.options = <<>> /\ k.range = <<>>
       THEN w' = [w EXCEPT !.pc = "error"]
       ELSE w' = [w EXCEPT !.pc = "search", !.announced = Len(TraverseList(w.knobs)),
                           !.plan = TraverseList(w.knobs)]
    /\ UNCHANGED log

\* All samples are drawn at once (lhsmdu); any item of a knob may be drawn.
StartSampling ==
    /\ w.pc = "start" /\ w.engine = "lhs"
    /\ \E draw \in [1..MaxEval ->
                    Product([i \in DOMAIN w.knobs |-> ToSet(SamplingItems(w.knobs[i]))])] :
          w' = [w EXCEPT !.pc = "search", !.plan = draw]
    /\ UNCHANGED log

Reference(i) == IF w.done = 1 THEN {log[1].setting[i]} ELSE {}
ValuesOf(i) ==
    LET k == w.knobs[i]
    IN  CASE w.engine = "bayes" -> SpaceOf(k, Reference(i))
          [] w.engine = "tpe" -> TPEItems(k)
          [] w.engine = "ppo" -> PPOItems(k)

\* The knobs of which no space can be built: bounds are missing or in the wrong
\* order, or there is no value.
BoundMissing(k) ==
    /\ ~IsText(k)
    /\ CASE w.engine = "bayes" ->
              k.type = "continuous" /\ (Len(k.range) # 2 \/ k.range[1] >= k.range[2])
         [] w.engine = "tpe" -> Len(k.range) \in IF k.type = "continuous" THEN {0, 1} ELSE {1}
         [] w.engine = "ppo" -> Len(k.range) < 2
Unbuildable == {i \in DOMAIN w.knobs : BoundMissing(w.knobs[i]) \/ ValuesOf(i) = {}}
\* Two numbers are a ValueError if the larger comes first in the list of a set.
Disordered ==
    {i \in DOMAIN w.knobs : w.engine = "bayes" /\ TwoNumbers(w.knobs[i], Reference(i))}

\* skopt is told the earlier evaluations (transfer); hyperopt is told none, nor
\* is stable_baselines3, which makes whole rollouts of 5 steps.
StartModel ==
    /\ w.pc = "start" /\ w.engine \in {"bayes", "tpe", "ppo"}
    /\ \/ /\ Unbuildable \cup Disordered # {}
          /\ w' = [w EXCEPT !.pc = "error"]
       \/ /\ Unbuildable = {}
          /\ w' = [w EXCEPT !.pc = "search",
                      !.calls = CASE w.engine = "bayes" -> MaxEval - w.done
                                  [] w.engine = "tpe" -> MaxEval
                                  [] w.engine = "ppo" -> 5 * ((MaxEval + 4) \div 5)]
    /\ UNCHANGED log

Ask ==
    /\ w.pc = "search"
    /\ \/ /\ w.plan # <<>>
          /\ w' = [w EXCEPT !.pc = "objective", !.asked = Head(w.plan), !.plan = Tail(w.plan)]
       \/ /\ w.calls > 0
          /\ \E s \in Product([i \in DOMAIN w.knobs |-> ValuesOf(i)]) :
                w' = [w EXCEPT !.pc = "objective", !.asked = s, !.calls = w.calls - 1]
    /\ UNCHANGED log

\* When the items of a knob are all tried, the best of them is kept.
NextSweep(perf) ==
    LET items == ABtestItems(w.knobs[w.knob])
        results == SubSeq(perf, Len(perf) - Len(items) + 1, Len(perf))
        best == [w.best EXCEPT ![w.knob] = items[ArgMin(results)]]
    IN  [best |-> best, knob |-> w.knob + 1,
         plan |-> IF w.knob < Len(w.knobs) THEN Sweep(w.knobs, best, w.knob + 1) ELSE <<>>]

\* A steady benchmark gives a setting the same evaluation each time.
Tell(v) ==
    LET perf == Append(w.perf, v)
        told == [w EXCEPT !.pc = "search", !.perf = perf, !.options = Append(w.options, w.asked)]
        next == NextSweep(perf)
    IN  /\ w.pc = "objective"
        /\ w.steady => \A n \in DOMAIN log : log[n].setting = w.asked => log[n].value = v
        /\ log' = Append(log, [setting |-> w.asked, value |-> v])
        /\ w' = IF w.engine = "abtest" /\ w.plan = <<>>
                THEN [told EXCEPT !.best = next.best, !.knob = next.knob, !.plan = next.plan]
                ELSE told

\* ppo takes the logarithm of its reward, the opposite of an evaluation: when it
\* was not positive, learning from the rollout may be a ValueError.
RolloutFails ==
    /\ w.pc = "search" /\ w.engine = "ppo" /\ w.perf # <<>> /\ Len(w.perf) % 5 = 0
    /\ \E n \in Len(w.perf) - 4..Len(w.perf) : w.perf[n] >= 0
    /\ w' = [w EXCEPT !.pc = "error"]
    /\ UNCHANGED log

\* get_best_params; ret.x of skopt, which knows the earlier evaluations; traverse
\* restores the defaults; the best reward of ppo is 0 at first.
\* (mutation) the first of the largest
BestParamsMax == w.options[CHOOSE n \in DOMAIN w.perf : w.perf[n] = Max(ToSet(w.perf))]
BestParams ==
    CASE w.engine = "bayes" -> log[ArgMin([n \in DOMAIN log |-> log[n].value])].setting
      [] w.engine = "traverse" -> Defaults(w.knobs)
      [] w.engine = "ppo" /\ (w.perf = <<>> \/ Minimum(w.perf) >= 0) -> NoSetting
      [] OTHER -> w.options[ArgMin(w.perf)]

\* hyperopt draws a number, of which an evaluation gets the whole part; the best is
\* sent as it was drawn.  Nothing depends on the fraction before.
Fraction(k, v) ==
    k.dtype = "int" /\ k.type = "continuous" /\ v \in 0..k.range[2] - 1 \cup k.range[1] + 1..0
Cuts == IF w.engine = "tpe" THEN SUBSET {i \in DOMAIN w.knobs : Fraction(w.knobs[i], BestParams[i])}
        ELSE {{}}
\* The best of ppo is {"param": ...} already when it becomes the "param" of the result.
Report(cut) == [setting |-> BestParams, cut |-> cut,
                nested |-> w.engine = "ppo" /\ BestParams # NoSetting]

\* np.argmin of no evaluation is a ValueError, which is sent; skopt is not asked for
\* its best before the worker is out of the try.
SearchOver == w.pc = "search" /\ w.plan = <<>> /\ w.calls = 0
NothingDone ==
    /\ SearchOver /\ w.perf = <<>> /\ w.engine # "ppo"
    /\ w' = [w EXCEPT !.pc = IF w.engine = "bayes" THEN "crashed" ELSE "error"]
    /\ UNCHANGED log
Finish ==
    /\ SearchOver /\ (w.perf # <<>> \/ w.engine = "ppo")
    /\ \E cut \in Cuts :
         IF w.engine = "traverse"
         THEN w' = [w EXCEPT !.pc = "rank", !.final = Report(cut),
                             !.lowest = Lowest(w.knobs, w.perf),
                             !.difference = Difference(w.knobs, w.perf)]
         ELSE IF w.sel = "none" \/ w.engine \in {"tpe", "ppo"}
         THEN w' = [w EXCEPT !.pc = "done", !.final = Report(cut)]
         ELSE w' = [w EXCEPT !.pc = "select", !.final = Report(cut),
                             !.fitting = IF w.sel = "wefs" THEN Regressors ELSE {}]
    /\ UNCHANGED log

RankTraversed ==
    /\ w.pc = "rank"
    /\ \E r \in TraverseRanks(w.lowest, w.difference) : w' = [w EXCEPT !.pc = "done", !.rank = r]
    /\ UNCHANGED log

-----------------------------------------------------------------------------
(* Feature selection, after the try of run.  Each regressor is a process   *)
(* that puts its ranking and its predictions, one for each sample, on two  *)
(* queues of its own and ends when the pipes behind them have taken them:  *)
(* nobody reads before all have ended.                                     *)

\* (mutation) the two queues share a pipe
OneQueue == Len(w.perf) + Len(w.knobs) <= PipeSize
Flushed == Len(w.perf) <= PipeSize /\ Len(w.knobs) <= PipeSize
RegressorEnds(r) ==
    /\ w.pc = "select" /\ r \in w.fitting /\ Flushed
    /\ w' = [w EXCEPT !.fitting = w.fitting \ {r}]
    /\ UNCHANGED log

\* A process that raises or is killed ends too, and its queues stay empty.
RegressorFails(r) ==
    /\ w.pc = "select" /\ r \in w.fitting
    /\ w' = [w EXCEPT !.fitting = w.fitting \ {r}, !.missing = w.missing \cup {r}]
    /\ UNCHANGED log

\* The weighted rankings, or the variances of the vrfs, may give any order.  Reading
\* an empty queue blocks for ever.
Select ==
    /\ w.pc = "select" /\ w.fitting = {} /\ w.missing = {}
    /\ \E r \in Bijection(DOMAIN w.knobs, DOMAIN w.knobs) :
          w' = [w EXCEPT !.pc = "done", !.rank = r]
    /\ UNCHANGED log

\* An exception before the processes start or after they end is caught by nobody:
\* the worker ends and sends nothing.
SelectionRaises ==
    /\ w.pc = "select" /\ w.fitting \in {{}, Regressors} /\ w.missing = {}
    /\ w' = [w EXCEPT !.pc = "crashed"]
    /\ UNCHANGED log

-----------------------------------------------------------------------------
(* The daemon or the engine stops and the search is started again with the *)
(* evaluations of its log as x_ref and y_ref, which only skopt and         *)
(* gridsearch look at; too many of them are refused (createOptimizerTask). *)
Lose ==
    /\ w.lives > 0 /\ w.pc \in {"search", "objective"}
    /\ Len(log) < MaxEval \/ w.engine \in {"gridsearch", "abtest"}
    /\ w' = NewWorker([w EXCEPT !.lives = @ - 1], Len(log))
    /\ UNCHANGED log

SearchInit ==
    /\ w = [NewWorker(Idle, 0) EXCEPT !.pc = "idle"]
    /\ log = <<>>

WorkerStep ==
    \/ StartABtest \/ StartGridsearch \/ StartTraverse \/ StartSampling \/ StartModel
    \/ Ask \/ (\E v \in Values : Tell(v)) \/ RolloutFails \/ NothingDone \/ Finish
    \/ RankTraversed \/ (\E r \in Regressors : RegressorEnds(r)) \/ Select
SelectionFails == (\E r \in Regressors : RegressorFails(r)) \/ SelectionRaises

SearchNext == (\E t \in Tasks : CreateTask(t)) \/ WorkerStep \/ SelectionFails \/ Lose

-----------------------------------------------------------------------------
(* What a search asks for                                                  *)

\* The evaluations this worker made, and those of the search.
Own == SubSeq(log, Len(log) - Len(w.perf) + 1, Len(log))
Times(setting) == Cardinality({n \in DOMAIN log : log[n].setting = setting})

(* A search that has finished has asked for what its engine promises, and   *)
(* for as many evaluations as it announced to the daemon, whatever came     *)
(* back: gridsearch every combination once, across restarts too, unless the *)
(* values of a knob mix texts and numbers; abtest every item of a knob with *)
(* the best of the knobs before it; traverse every value of one knob at a   *)
(* time; the others max_eval settings (do_gridsearch, do_abtest_tuning,     *)
(* get_traverse_list, run).                                                 *)
CoversSpace ==
    w.pc = "done" =>
        CASE w.engine = "gridsearch" ->
                /\ Len(log) = w.announced
                /\ (\A k \in ToSet(w.knobs) : ~Mixed(k)) =>
                     \A s \in Product([i \in DOMAIN w.knobs |->
                                          ToSet(CHOOSE g \in GridItems(w.knobs[i]) : TRUE)]) :
                         Times(s) = 1
          [] w.engine = "abtest" ->
                /\ Len(Own) = w.announced
                /\ \A i \in DOMAIN w.knobs : \A v \in ToSet(ABtestItems(w.knobs[i])) :
                     \E n \in DOMAIN Own : \A j \in DOMAIN w.knobs :
                        Own[n].setting[j] = IF j < i THEN w.best[j] ELSE IF j = i THEN v
                                            ELSE ABtestItems(w.knobs[j])[1]
          [] w.engine = "traverse" ->
                /\ Len(Own) = w.announced
                /\ \A i \in DOMAIN w.knobs : \A v \in ToSet(Alternatives(w.knobs[i])) :
                     \E n \in DOMAIN Own :
                        Own[n].setting = [Defaults(w.knobs) EXCEPT ![i] = v]
          [] w.engine = "bayes" -> Len(log) = MaxEval
          [] w.engine = "ppo" -> Len(Own) >= MaxEval
          [] OTHER -> Len(Own) = MaxEval

(* What a search sends at its end is a setting it evaluated, to which no    *)
(* fraction or wrapping was added, and no evaluation it knows is better:    *)
(* those of this worker, for skopt all.  Of tpe this is claimed up to the   *)
(* fraction its evaluations do not get, and it is claimed neither of ppo    *)
(* nor of traverse, which only ranks (get_best_params, run).                *)
BestOfAll ==
    w.pc = "done" /\ w.engine \notin {"traverse", "ppo"} =>
        LET known == IF w.engine = "bayes" THEN log ELSE Own
        IN  /\ \E n \in DOMAIN known :
                 /\ known[n].setting = w.final.setting
                 /\ \A m \in DOMAIN known : known[m].value >= known[n].value
            /\ w.engine # "tpe" => w.final.cut = {} /\ ~w.final.nested

(* With a steady benchmark the items abtest keeps knob after knob are        *)
(* together as good as the best single evaluation, which is what it reports  *)
(* (do_one_abtest_tuning, get_best_params).                                  *)
DescentIsBest ==
    w.pc = "done" /\ w.engine = "abtest" /\ w.steady =>
        \E n \in DOMAIN Own : Own[n].setting = w.best /\ Own[n].value = Minimum(w.perf)

(* The walk over the evaluations gives each knob what was evaluated for it, *)
(* whatever knobs have one value, two, or no value to try, next to each     *)
(* other and at the end of the list (get_traverse_rank).                    *)
RankInputsExact ==
    w.pc = "rank" =>
        Walk(w.knobs, w.perf) = [lowest |-> w.lowest, difference |-> w.difference]

(* The ranks are 1 to n, one for each knob that was tried, and a knob that   *)
(* reached a smaller evaluation and made a larger difference than another    *)
(* has the higher rank, whatever the other knobs did (get_traverse_rank).    *)
RankSound ==
    w.pc = "done" /\ w.rank # <<>> =>
        /\ w.rank \in Bijection(DOMAIN w.rank, 1..Cardinality(DOMAIN w.rank))
        /\ w.engine = "traverse" =>
             /\ \A n \in 2..Len(w.perf) : \E i \in DOMAIN w.rank :
                   w.options[n][i] # w.knobs[i].ref
             /\ \A n \in 2..Len(w.perf) : \A i \in DOMAIN w.rank :
                   w.options[n][i] # w.knobs[i].ref => w.lowest[i] <= w.perf[n]
             /\ \A i, j \in DOMAIN w.rank :
                   w.lowest[i] < w.lowest[j] /\ w.difference[i] > w.difference[j]
                   => w.rank[i] > w.rank[j]
=============================================================================
