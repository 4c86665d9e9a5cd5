----------------------------- MODULE TuningLoop -----------------------------
(***************************************************************************)
(* What dynamic tuning promises, without saying how: a search proposes     *)
(* configurations, each is in force while it is measured, each measurement *)
(* counts once, and a search that completes leaves in force one of the     *)
(* configurations that measured best.  A search may stop at any point.     *)
(***************************************************************************)
EXTENDS Integers, Sequences

CONSTANTS Configs,  (* the configurations of the machine *)
          Measures  (* the evaluations of a benchmark, smaller is better *)

VARIABLES phase,    (* "idle", "search", "measure" or "complete"             *)
          config,   (* the configuration in force                            *)
          budget,   (* the number of measurements of the search              *)
          results   (* what the search measured                              *)

loopVars == <<phase, config, budget, results>>

Init ==
  /\ phase = "idle" /\ config \in Configs
  /\ budget = 0 /\ results = <<>>

Begin ==
  /\ phase = "idle"
  /\ phase' = "search" /\ results' = <<>>
  /\ budget' \in Nat
  /\ UNCHANGED config

(* A proposed configuration is put in force to be measured; it stays in    *)
(* force unmeasured if nobody is there to measure it.                      *)
Try ==
  /\ phase = "search" /\ Len(results) < budget
  /\ config' \in Configs
  /\ phase' \in {"search", "measure"}
  /\ UNCHANGED <<budget, results>>

Measure ==
  /\ phase = "measure"
  /\ \E e \in Measures : results' = Append(results, [config |-> config, eval |-> e])
  /\ phase' = "search"
  /\ UNCHANGED <<config, budget>>

(* Whoever measures is gone.                                               *)
Forgo ==
  /\ phase = "measure"
  /\ phase' = "search"
  /\ UNCHANGED <<config, budget, results>>

(* The search is complete.                                                 *)
Finish ==
  /\ phase = "search" /\ Len(results) = budget
  /\ \E i \in DOMAIN results :
       /\ \A j \in DOMAIN results : results[i].eval <= results[j].eval
       /\ config' = results[i].config
  /\ phase' = "complete" /\ budget' = 0
  /\ UNCHANGED results

(* The result is handed over.                                              *)
Close ==
  /\ phase = "complete"
  /\ phase' = "idle"
  /\ UNCHANGED <<config, budget, results>>

(* The search fails or is given up, possibly with a configuration half set.*)
GiveUp ==
  /\ phase \in {"search", "measure"}
  /\ config' \in Configs
  /\ phase' = "idle" /\ budget' = 0
  /\ UNCHANGED results

(* Outside a search the configuration can be restored.                     *)
Restore ==
  /\ phase = "idle"
  /\ config' \in Configs
  /\ UNCHANGED <<phase, budget, results>>

Next == Begin \/ Try \/ Measure \/ Forgo \/ Finish \/ Close \/ GiveUp \/ Restore

Spec == Init /\ [][Next]_loopVars
=============================================================================
