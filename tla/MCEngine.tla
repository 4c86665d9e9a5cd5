------------------------------ MODULE MCEngine ------------------------------
(* Small instances of EngineTasks.  A knob of the machine has a value (ref) *)
(* that is the default, or none.                                            *)
EXTENDS EngineTasks

Text(options, ref) ==
    [dtype |-> "string", type |-> "discrete", options |-> options, items |-> <<>>,
     range |-> <<>>, step |-> 1, ref |-> ref]
Number(items, range, ref) ==
    [dtype |-> "int", type |-> "discrete", options |-> <<>>, items |-> items,
     range |-> range, step |-> 1, ref |-> ref]

Two == <<Text(<<0, 1>>, 0), Number(<<>>, <<0, 2>>, 2)>>
Three == <<Number(<<>>, <<0, 1>>, 0), Text(<<0>>, 0), Number(<<>>, <<3, 4>>, NoValue)>>
Mix == <<Number(<<4>>, <<0, 1>>, 0), Text(<<0, 1>>, 1)>>
Wide == <<[Number(<<>>, <<0, 1>>, 0) EXCEPT !.type = "continuous"],
          [Number(<<5>>, <<0, 1, 3, 4>>, 0) EXCEPT !.step = 0]>>
OneText == <<Text(<<0, 1>>, 0)>>
Ranked == <<Number(<<>>, <<3, 4>>, NoValue), Text(<<0, 1>>, 0), Text(<<0, 1>>, 0)>>
NoRange == <<Number(<<1>>, <<>>, 1)>>
OneBound == <<[Number(<<>>, <<1>>, 1) EXCEPT !.type = "continuous"]>>
TwoItems == <<Number(<<0, 2>>, <<>>, 0)>>

Task(engine, knobs, sel, steady, lives) ==
    [engine |-> engine, knobs |-> knobs, sel |-> sel, steady |-> steady, lives |-> lives]
MCTasks ==
    {Task("abtest", Two, "wefs", TRUE, 1), Task("abtest", Three, "none", FALSE, 0),
     Task("abtest", Mix, "none", TRUE, 0),
     Task("gridsearch", Two, "none", FALSE, 1), Task("gridsearch", Three, "none", FALSE, 1),
     Task("gridsearch", Mix, "none", FALSE, 0),
     Task("traverse", Two, "none", FALSE, 0), Task("traverse", Three, "none", FALSE, 1),
     Task("traverse", Mix, "none", FALSE, 0), Task("traverse", NoRange, "none", FALSE, 0),
     Task("traverse", Ranked, "none", FALSE, 0),
     Task("lhs", Two, "vrfs", FALSE, 0), Task("tpe", Wide, "none", FALSE, 0),
     Task("ppo", OneText, "none", FALSE, 0), Task("gridsearch", Two, "wefs", FALSE, 0),
     Task("tpe", OneBound, "none", FALSE, 0), Task("ppo", OneBound, "none", FALSE, 0),
     Task("bayes", OneBound, "none", FALSE, 0), Task("bayes", TwoItems, "none", FALSE, 0),
     Task("bayes", Wide, "wefs", FALSE, 1), Task("bayes", Two, "none", FALSE, 1)}
MCValues == -1..1

\* A search after a feature selection, and one that evaluates more than asked for.
MCIterations == [t \in Names |-> IF t = "t1" THEN <<1, 3>> ELSE <<2>>]
MCAskedFor == [t \in Names |-> IF t = "t1" THEN 3 ELSE 1]

Tp == "throughput"
Training(model, dir, rows) == [model |-> model, dir |-> dir, rows |-> rows]
MCShipped == {<<"default", "a">>, <<"latency", "a">>, <<Tp, "b">>, <<Tp, "c">>}
MCTrainings ==
    {Training("m1", "d1", {<<"default", "a">>, <<"default", "b">>}),
     Training("m1", "d1", {<<"default", "b">>, <<"default", "c">>}),
     Training("m2", "d2", {<<"default", "c">>}),
     Training(BuiltIn, "", {<<"default", "a">>, <<"default", "c">>, <<Tp, "b">>, <<Tp, "c">>})}
MCTypes == <<"default", "latency", Tp>>
MCApps == <<"a", "b", "c">>
=============================================================================
