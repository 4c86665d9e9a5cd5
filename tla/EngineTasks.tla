----------------------------- MODULE EngineTasks -----------------------------
(***************************************************************************)
(* The tasks of the engine that share no state with each other: a worker   *)
(* that searches, the files of the tunings with the pages that show them,  *)
(* and the workload models.  One behaviour is about one of them.           *)
(***************************************************************************)
EXTENDS SearchEngines, TuningFiles, WorkloadModels

VARIABLE part       \* which of them

engineVars == <<part, searchVars, fileVars, modelVars>>

EngineInit ==
    /\ part \in {"search", "files", "models"}
    /\ SearchInit
    /\ FileInit
    /\ ModelInit

SearchTask == part = "search" /\ SearchNext /\ UNCHANGED <<part, fileVars, modelVars>>
FilesTask == part = "files" /\ FileNext /\ UNCHANGED <<part, searchVars, modelVars>>
ModelsTask == part = "models" /\ ModelNext /\ UNCHANGED <<part, searchVars, fileVars>>

EngineNext == SearchTask \/ FilesTask \/ ModelsTask

\* The processes of a worker are scheduled, and the daemon evaluates what it is
\* asked to; that a worker is lost is never due.
SearchFairness ==
    WF_engineVars(part = "search" /\ WorkerStep /\ UNCHANGED <<part, fileVars, modelVars>>)

EngineSpec == EngineInit /\ [][EngineNext]_engineVars /\ SearchFairness

(* A search that was started ends: the worker has sent its result or an     *)
(* error, or has ended without a word, which only an exception outside the  *)
(* try does.  It waits for ever in just two cases, both of the selection of *)
(* features by processes that are joined before their queues are read: one  *)
(* of them has put nothing, or has put more than a queue takes (run,        *)
(* get_ensemble_feature_importance).                                        *)
Blocked == /\ w.pc = "select" /\ w.sel = "wefs"
           /\ w.missing # {} \/ Len(w.perf) > PipeSize \/ Len(w.knobs) > PipeSize
SearchEnds == w.pc = "start" ~> w.pc \in {"done", "error", "crashed"} \/ Blocked
=============================================================================
