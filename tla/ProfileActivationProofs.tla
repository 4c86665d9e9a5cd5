----------------------- MODULE ProfileActivationProofs -----------------------
(***************************************************************************)
(* Theorems about ProfileActivation, for all values of its constants.      *)
(***************************************************************************)
EXTENDS ProfileActivation, TLAPS

(* What a worker relies on where it is.                                    *)
Local(w) ==
  /\ want[w] # None => name[w] # None
  /\ pc[w] \in {"resume", "mark"} => todo[w] \in Log
  /\ pc[w] = "resume" => keys[w] \subseteq DOMAIN todo[w].saved
  /\ pc[w] \in {"backup", "apply"} =>
       want[w] \in Partial /\ keys[w] \subseteq DOMAIN want[w]

TypeInv == TypeOK /\ \A w \in Workers : Local(w)

-----------------------------------------------------------------------------
(* Settings, rows and buffers.                                             *)

LEMMA PartialShape ==
  ASSUME NEW f \in Partial
  PROVE  DOMAIN f \subseteq Params /\ \A k \in DOMAIN f : f[k] \in Values
<1>1. PICK S \in SUBSET Params : f \in [S -> Values]
  BY DEF Partial
<1> QED
  BY <1>1

LEMMA PartialEmpty == Empty \in Partial
<1>1. Empty \in [{} -> Values]
  BY DEF Empty
<1> QED
  BY <1>1 DEF Partial

(* Backup extends its buffer by the value a parameter has.                 *)
LEMMA SavedType ==
  ASSUME NEW f \in Partial, NEW k \in Params, sys \in [Params -> Values]
  PROVE  Saved(f, k) \in Partial
<1> DEFINE S == DOMAIN f \cup {k}
<1>1. S \in SUBSET Params /\ \A j \in DOMAIN f : f[j] \in Values
  BY PartialShape
<1>2. Saved(f, k) \in [S -> Values]
  BY <1>1 DEF Saved
<1> QED
  BY <1>1, <1>2 DEF Partial

LEMMA LogShape ==
  ASSUME NEW r \in Log
  PROVE  r.name \in Names /\ r.saved \in Partial
  BY DEF Log

LEMMA LogIntro ==
  ASSUME NEW n \in Names, NEW f \in Partial
  PROVE  [name |-> n, saved |-> f] \in Log
  BY DEF Log

(* The monitor gets a profile or the empty one.                            *)
LEMMA LoadedType == \A n \in Names : Loaded(n) \in Partial \cup {None}
  BY ConstAssumption DEF Loaded, Names

LEMMA NotNone == None \notin Names /\ None \notin Partial /\ None \notin Log
  BY ConstAssumption

-----------------------------------------------------------------------------
(* Types.                                                                  *)

LEMMA TypeInit == Init => TypeInv
<1> SUFFICES ASSUME Init PROVE TypeInv
  OBVIOUS
<1>1. TypeOK
  BY PartialEmpty, ConstAssumption DEF Init, TypeOK, Steps, Kinds
<1>2. \A w \in Workers : Local(w)
  BY DEF Init, Local
<1> QED
  BY <1>1, <1>2 DEF TypeInv

(* A step of one worker leaves what the others rely on alone.              *)
LEMMA OthersKeep ==
  ASSUME NEW w \in Workers, TypeInv,
         pc' = [pc EXCEPT ![w] = pc'[w]],
         name' = [name EXCEPT ![w] = name'[w]],
         want' = [want EXCEPT ![w] = want'[w]],
         todo' = [todo EXCEPT ![w] = todo'[w]],
         keys' = [keys EXCEPT ![w] = keys'[w]],
         Local(w)'
  PROVE  \A v \in Workers : Local(v)'
<1> SUFFICES ASSUME NEW v \in Workers, v # w PROVE Local(v)'
  OBVIOUS
<1>1. pc'[v] = pc[v] /\ name'[v] = name[v] /\ want'[v] = want[v]
      /\ todo'[v] = todo[v] /\ keys'[v] = keys[v]
  BY DEF TypeInv, TypeOK
<1> QED
  BY <1>1 DEF TypeInv, Local

LEMMA CommandType ==
  ASSUME NEW w \in Workers, TypeInv, Command(w)
  PROVE  TypeInv'
<1>1. PICK k \in {"profile", "analysis", "rollback"}, n \in Names \cup {None},
           p \in Partial \cup {None} :
        Begin(w, k, n, p) /\ (p # None => n # None)
  BY ConstAssumption, NotNone DEF Command, Profile, Analysis, ProfileRollback, Names
<1>2. /\ pc' = [pc EXCEPT ![w] = "read"] /\ kind' = [kind EXCEPT ![w] = k]
      /\ name' = [name EXCEPT ![w] = n] /\ want' = [want EXCEPT ![w] = p]
      /\ commands' = commands + 1
      /\ UNCHANGED <<machineVars, loopVars, initial, crashes>>
  BY <1>1 DEF Begin, Goto
<1>3. TypeOK'
  BY <1>2 DEF TypeInv, TypeOK, machineVars, loopVars, Steps, Kinds
<1>4. Local(w)'
  BY <1>1, <1>2 DEF TypeInv, TypeOK, Local
<1>5. \A v \in Workers : Local(v)'
  BY <1>2, <1>4, OthersKeep DEF TypeInv, TypeOK, loopVars
<1> QED
  BY <1>3, <1>5 DEF TypeInv

LEMMA GoBackupType ==
  ASSUME NEW w \in Workers, TypeInv, GoBackup(w), UNCHANGED workVars
  PROVE  /\ pc' \in [Workers -> Steps] /\ todo' = todo
         /\ keys' \in [Workers -> SUBSET Params] /\ saved' \in [Workers -> Partial]
         /\ \A v \in Workers : Local(v)'
<1>1. CASE want[w] = None
  <2>1. pc' = [pc EXCEPT ![w] = "idle"] /\ UNCHANGED <<loopVars, workVars>>
    BY <1>1 DEF GoBackup, Goto
  <2>2. Local(w)'
    BY <2>1 DEF TypeInv, TypeOK, Local, loopVars, workVars
  <2> QED
    BY <2>1, <2>2, OthersKeep DEF TypeInv, TypeOK, loopVars, workVars, Steps
<1>2. CASE want[w] # None
  <2>1. PICK s \in {"backup", "apply"} : pc' = [pc EXCEPT ![w] = s]
    BY <1>2 DEF GoBackup, Goto
  <2>2. /\ keys' = [keys EXCEPT ![w] = DOMAIN want[w]]
        /\ saved' = [saved EXCEPT ![w] = Empty]
        /\ todo' = todo /\ name' = name /\ want' = want
    BY <1>2 DEF GoBackup, workVars
  <2>3. want[w] \in Partial /\ DOMAIN want[w] \subseteq Params
    BY <1>2, PartialShape DEF TypeInv, TypeOK
  <2>4. Local(w)'
    BY <2>1, <2>2, <2>3 DEF TypeInv, TypeOK, Local
  <2>5. keys' \in [Workers -> SUBSET Params] /\ saved' \in [Workers -> Partial]
    BY <2>2, <2>3, PartialEmpty DEF TypeInv, TypeOK
  <2> QED
    BY <2>1, <2>2, <2>4, <2>5, OthersKeep DEF TypeInv, TypeOK, Steps
<1> QED
  BY <1>1, <1>2

LEMMA WorkType ==
  ASSUME NEW w \in Workers, TypeInv, Work(w)
  PROVE  TypeInv'
<1> USE DEF machineVars, workVars, loopVars, boundVars, Steps, Goto
<1>1. CASE ReadLogs(w)
  <2>1. CASE GoBackup(w) /\ UNCHANGED workVars
    BY <1>1, <2>1, GoBackupType DEF ReadLogs, TypeInv, TypeOK
  <2>2. CASE pc' = [pc EXCEPT ![w] = "idle"] /\ UNCHANGED loopVars
    <3>1. Local(w)'
      BY <1>1, <2>2 DEF ReadLogs, TypeInv, TypeOK, Local
    <3> QED
      BY <1>1, <2>2, <3>1, OthersKeep DEF ReadLogs, TypeInv, TypeOK
  <2>3. CASE /\ log # None /\ pc' = [pc EXCEPT ![w] = "resume"]
             /\ todo' = [todo EXCEPT ![w] = log]
             /\ keys' = [keys EXCEPT ![w] = DOMAIN log.saved]
             /\ UNCHANGED saved
    <3>1. log \in Log /\ DOMAIN log.saved \subseteq Params
      BY <2>3, LogShape, PartialShape DEF TypeInv, TypeOK
    <3>2. Local(w)'
      BY <1>1, <2>3, <3>1 DEF ReadLogs, TypeInv, TypeOK, Local
    <3> QED
      BY <1>1, <2>3, <3>1, <3>2, OthersKeep DEF ReadLogs, TypeInv, TypeOK
  <2> QED
    BY <1>1, <2>1, <2>2, <2>3 DEF ReadLogs
<1>2. CASE ResumeKey(w)
  <2>1. PICK k \in keys[w] :
          /\ keys' = [keys EXCEPT ![w] = @ \ {k}]
          /\ sys' = [sys EXCEPT ![k] = todo[w].saved[k]] \/ UNCHANGED sys
    BY <1>2 DEF ResumeKey
  <2>2. todo[w].saved \in Partial /\ k \in DOMAIN todo[w].saved
    BY <1>2, LogShape DEF ResumeKey, TypeInv, Local
  <2>3. sys' \in [Params -> Values]
    BY <2>1, <2>2, PartialShape DEF TypeInv, TypeOK
  <2>4. Local(w)'
    BY <1>2, <2>1 DEF ResumeKey, TypeInv, TypeOK, Local
  <2> QED
    BY <1>2, <2>1, <2>3, <2>4, OthersKeep DEF ResumeKey, TypeInv, TypeOK
<1>3. CASE DropLog(w)
  <2>1. PICK s \in {"mark", "inactive", "idle"} : pc' = [pc EXCEPT ![w] = s]
    BY <1>3 DEF DropLog
  <2>2. log' = None \/ log' = log
    BY <1>3 DEF DropLog
  <2>3. Local(w)'
    BY <1>3, <2>1 DEF DropLog, TypeInv, TypeOK, Local
  <2> QED
    BY <1>3, <2>1, <2>2, <2>3, OthersKeep DEF DropLog, TypeInv, TypeOK
<1>4. CASE MarkActive(w)
  <2>1. PICK s \in {"inactive", "idle"} : pc' = [pc EXCEPT ![w] = s]
    BY <1>4 DEF MarkActive
  <2>2. active' \in Classes \cup {None}
    BY <1>4 DEF MarkActive, TypeInv, TypeOK
  <2>3. Local(w)'
    BY <1>4, <2>1 DEF MarkActive, TypeInv, TypeOK, Local
  <2> QED
    BY <1>4, <2>1, <2>2, <2>3, OthersKeep DEF MarkActive, TypeInv, TypeOK
<1>5. CASE Inactivate(w)
  <2>1. GoBackup(w) /\ UNCHANGED workVars /\ active' \in Classes \cup {None}
    BY <1>5 DEF Inactivate, TypeInv, TypeOK
  <2> QED
    BY <1>5, <2>1, GoBackupType DEF Inactivate, TypeInv, TypeOK
<1>6. CASE BackupKey(w)
  <2>1. PICK k \in keys[w] :
          /\ keys' = [keys EXCEPT ![w] = @ \ {k}]
          /\ saved' = [saved EXCEPT ![w] = Saved(@, k)] \/ UNCHANGED saved
    BY <1>6 DEF BackupKey
  <2>2. saved' \in [Workers -> Partial]
    BY <2>1, SavedType DEF TypeInv, TypeOK
  <2>3. Local(w)'
    BY <1>6, <2>1 DEF BackupKey, TypeInv, TypeOK, Local
  <2> QED
    BY <1>6, <2>1, <2>2, <2>3, OthersKeep DEF BackupKey, TypeInv, TypeOK
<1>7. CASE InsertLog(w)
  <2>1. want[w] \in Partial /\ name[w] \in Names /\ DOMAIN want[w] \subseteq Params
    BY <1>7, NotNone, PartialShape DEF InsertLog, TypeInv, TypeOK, Local
  <2>2. log' \in Log \cup {None}
    BY <1>7, <2>1, LogIntro DEF InsertLog, TypeInv, TypeOK
  <2>3. PICK s \in {"apply", "idle"} : pc' = [pc EXCEPT ![w] = s]
    BY <1>7 DEF InsertLog
  <2>4. keys' = [keys EXCEPT ![w] = DOMAIN want[w]] \/ keys' = keys
    BY <1>7 DEF InsertLog
  <2>5. Local(w)'
    BY <1>7, <2>1, <2>3, <2>4 DEF InsertLog, TypeInv, TypeOK, Local
  <2> QED
    BY <1>7, <2>1, <2>2, <2>3, <2>4, <2>5, OthersKeep, ZenonT(60) DEF InsertLog, TypeInv, TypeOK
<1>8. CASE ApplyKey(w)
  <2>1. PICK k \in keys[w] :
          /\ keys' = [keys EXCEPT ![w] = @ \ {k}]
          /\ sys' = [sys EXCEPT ![k] = want[w][k]] \/ UNCHANGED sys
    BY <1>8 DEF ApplyKey
  <2>2. want[w] \in Partial /\ k \in DOMAIN want[w]
    BY <1>8 DEF ApplyKey, TypeInv, Local
  <2>3. sys' \in [Params -> Values]
    BY <2>1, <2>2, PartialShape DEF TypeInv, TypeOK
  <2>4. Local(w)'
    BY <1>8, <2>1 DEF ApplyKey, TypeInv, TypeOK, Local
  <2> QED
    BY <1>8, <2>1, <2>3, <2>4, OthersKeep DEF ApplyKey, TypeInv, TypeOK
<1>9. CASE Finish(w)
  <2>1. Local(w)'
    BY <1>9 DEF Finish, TypeInv, TypeOK, Local
  <2> QED
    BY <1>9, <2>1, OthersKeep DEF Finish, TypeInv, TypeOK
<1> QED
  BY <1>1, <1>2, <1>3, <1>4, <1>5, <1>6, <1>7, <1>8, <1>9 DEF Work

LEMMA TypeStep == TypeInv /\ [Next]_vars => TypeInv'
<1> SUFFICES ASSUME TypeInv, [Next]_vars PROVE TypeInv'
  OBVIOUS
<1> USE DEF machineVars, workVars, loopVars, boundVars
<1>1. CASE UNCHANGED vars
  BY <1>1 DEF vars, TypeInv, TypeOK, Local
<1>2. CASE ActiveProfile
  <2>1. PICK s \in {"idle", "read"} : pc' = [pc EXCEPT ![Monitor] = s]
    BY <1>2 DEF ActiveProfile, Goto
  <2>2. \/ UNCHANGED <<name, want>>
        \/ /\ log \in Log
           /\ name' = [name EXCEPT ![Monitor] = log.name]
           /\ want' = [want EXCEPT ![Monitor] = Loaded(log.name)]
    BY <1>2 DEF ActiveProfile, TypeInv, TypeOK
  <2>3. name' \in [Workers -> Names \cup {None}] /\ want' \in [Workers -> Partial \cup {None}]
    BY <2>2, LogShape, LoadedType DEF TypeInv, TypeOK
  <2>4. Monitor \in Workers
    BY DEF Workers
  <2>5. Local(Monitor)'
    BY <1>2, <2>1, <2>2, <2>4, LogShape, NotNone DEF ActiveProfile, TypeInv, TypeOK, Local
  <2> QED
    BY <1>2, <2>1, <2>2, <2>3, <2>4, <2>5, OthersKeep DEF ActiveProfile, TypeInv, TypeOK, Steps
<1>3. CASE Crash
  <2>1. TypeOK'
    <3>1. running' \in BOOLEAN
      BY <1>3 DEF Crash
    <3>2. pc' \in [Workers -> Steps] /\ crashes' \in Nat
      BY <1>3 DEF Crash, TypeInv, TypeOK, Steps
    <3>3. UNCHANGED <<sys, log, active, kind, name, want, todo, keys, saved, initial, commands>>
      BY <1>3 DEF Crash
    <3> QED
      BY <3>1, <3>2, <3>3 DEF TypeInv, TypeOK
  <2>2. ASSUME NEW w \in Workers PROVE Local(w)'
    <3>1. pc'[w] = "idle" /\ want' = want /\ name' = name
      BY <1>3 DEF Crash
    <3>2. want[w] # None => name[w] # None
      BY DEF TypeInv, Local
    <3> QED
      BY <3>1, <3>2 DEF Local
  <2> QED
    BY <2>1, <2>2 DEF TypeInv
<1>4. CASE Restart
  <2>1. Monitor \in Workers
    BY DEF Workers
  <2>2. Local(Monitor)'
    BY <1>4, <2>1 DEF Restart, Goto, TypeInv, TypeOK, Local
  <2> QED
    BY <1>4, <2>1, <2>2, OthersKeep DEF Restart, Goto, TypeInv, TypeOK, Steps
<1>5. CASE Terminated
  BY <1>1, <1>5 DEF Terminated
<1> QED
  BY <1>1, <1>2, <1>3, <1>4, <1>5, CommandType, WorkType DEF Next

(* The variables keep their types, however many commands run at the same   *)
(* time and whatever fails.                                                *)
THEOREM ProfileTypes == Spec => []TypeOK
<1>1. TypeInv => TypeOK
  BY DEF TypeInv
<1> QED
  BY <1>1, TypeInit, TypeStep, PTL DEF Spec

-----------------------------------------------------------------------------
(* What holds of a machine whose users wait for each other and on which    *)
(* the failures that Backup and Resume ignore do not happen.               *)
Careful == Serial /\ Faults \cap {"get", "resume", "path"} = {}

(* One worker at most is busy, none when atuned is down.                   *)
Alone ==
  /\ \A v, w \in Workers : Busy(v) /\ Busy(w) => v = w
  /\ ~running => \A w \in Workers : ~Busy(w)

(* What the row lists is what the machine had.                             *)
RowInitial ==
  log # None => \A k \in DOMAIN log.saved : log.saved[k] = initial[k]

(* How far the worker is: in Resume, what was resumed has its initial      *)
(* value; from there to InsertLog there is no row; in Backup the buffer    *)
(* has what was read; in active the row has what the profile sets.         *)
Resuming(w) ==
  /\ log # None /\ log = todo[w]
  /\ \A k \in DOMAIN log.saved \ keys[w] : sys[k] = initial[k]

BackingUp(w) ==
  /\ \A k \in DOMAIN want[w] \ keys[w] :
       k \in DOMAIN saved[w] /\ saved[w][k] = initial[k]
  /\ DOMAIN saved[w] \subseteq DOMAIN want[w]
  /\ \A k \in DOMAIN saved[w] : saved[w][k] = initial[k]

Applying(w) ==
  /\ log # None /\ DOMAIN log.saved = DOMAIN want[w]
  /\ "apply" \notin Faults =>
       \A k \in DOMAIN want[w] \ keys[w] : sys[k] = want[w][k]

Progress(w) ==
  /\ pc[w] = "resume" => Resuming(w)
  /\ pc[w] \in {"mark", "inactive", "backup"} => log = None
  /\ pc[w] = "backup" => BackingUp(w)
  /\ pc[w] = "apply" => Applying(w)

UndoInv ==
  /\ TypeInv /\ Alone /\ Undoable /\ RowInitial
  /\ \A w \in Workers : Progress(w)

LEMMA UndoInit == Init => UndoInv
<1> SUFFICES ASSUME Init PROVE UndoInv
  OBVIOUS
<1> USE DEF Init
<1>1. Alone
  BY DEF Alone, Busy
<1>2. Undoable /\ RowInitial
  BY DEF Undoable, RowInitial
<1>3. \A w \in Workers : Progress(w)
  BY DEF Progress
<1> QED
  BY <1>1, <1>2, <1>3, TypeInit DEF UndoInv

LEMMA AloneStep ==
  ASSUME Serial, TypeInv, Alone, [Next]_vars
  PROVE  Alone'
<1> USE DEF machineVars, workVars, loopVars, boundVars, Busy, Goto
<1>1. pc \in [Workers -> Steps] /\ Monitor \in Workers
  BY DEF TypeInv, TypeOK, Workers
<1>2. CASE UNCHANGED vars
  BY <1>2 DEF vars, Alone
<1>3. CASE ActiveProfile
  <2>1. running' = running /\ \E s \in {"idle", "read"} : pc' = [pc EXCEPT ![Monitor] = s]
    BY <1>3 DEF ActiveProfile
  <2>2. pc[Monitor] # "idle"
    BY <1>3 DEF ActiveProfile
  <2> QED
    BY <1>1, <2>1, <2>2 DEF Alone
<1>4. CASE Crash
  BY <1>4 DEF Crash, Alone
<1>5. CASE Restart
  BY <1>1, <1>5 DEF Restart, Alone
<1>6. CASE Terminated
  BY <1>2, <1>6 DEF Terminated
<1>7. ASSUME NEW w \in Workers, Command(w) PROVE Alone'
  <2>1. /\ running /\ \A v \in Workers : ~Busy(v)
        /\ running' = running /\ pc' = [pc EXCEPT ![w] = "read"]
    BY <1>7 DEF Command, Profile, Analysis, ProfileRollback, Begin
  <2> QED
    BY <1>1, <2>1 DEF Alone
<1>8. ASSUME NEW w \in Workers, Work(w) PROVE Alone'
  <2>1. Busy(w) /\ running' = running
    BY <1>8 DEF Work, ReadLogs, ResumeKey, DropLog, MarkActive, Inactivate, BackupKey,
       InsertLog, ApplyKey, Finish
  <2>2. pc' = pc \/ \E s \in Steps : pc' = [pc EXCEPT ![w] = s]
    BY <1>8 DEF Work, ReadLogs, ResumeKey, DropLog, MarkActive, Inactivate, BackupKey,
       InsertLog, ApplyKey, Finish, GoBackup, Steps
  <2> QED
    BY <1>1, <2>1, <2>2 DEF Alone
<1> QED
  BY <1>2, <1>3, <1>4, <1>5, <1>6, <1>7, <1>8 DEF Next

(* A step of the only busy worker: the others are idle.                    *)
LEMMA OneProgress ==
  ASSUME NEW w \in Workers, Alone', Progress(w)', Busy(w) \/ Busy(w)',
         \A v \in Workers \ {w} : pc'[v] = pc[v], UndoInv
  PROVE  \A v \in Workers : Progress(v)'
<1> SUFFICES ASSUME NEW v \in Workers, v # w PROVE Progress(v)'
  OBVIOUS
<1>1. CASE ~Busy(v)'
  BY <1>1 DEF Progress, Busy
<1>2. CASE Busy(v)'
  <2>1. Busy(v) /\ ~Busy(w)'
    BY <1>2 DEF Alone, Busy
  <2> QED
    BY <2>1 DEF UndoInv, Alone, Busy
<1> QED
  BY <1>1, <1>2

(* RollbackActive comes to Backup with no row: everything is initial.      *)
LEMMA GoBackupProgress ==
  ASSUME Careful, NEW w \in Workers, UndoInv, GoBackup(w), UNCHANGED workVars,
         UNCHANGED <<sys, log, initial>>, log = None
  PROVE  Progress(w)'
<1>1. CASE want[w] = None
  BY <1>1 DEF GoBackup, Goto, Progress, UndoInv, TypeInv, TypeOK
<1>2. CASE want[w] # None
  <2>1. /\ pc' = [pc EXCEPT ![w] = "backup"] /\ want' = want /\ log' = None
        /\ keys' = [keys EXCEPT ![w] = DOMAIN want[w]]
        /\ saved' = [saved EXCEPT ![w] = Empty]
    BY <1>2 DEF GoBackup, Goto, workVars, Careful
  <2>2. pc'[w] = "backup" /\ keys'[w] = DOMAIN want'[w] /\ saved'[w] = Empty
    BY <2>1 DEF UndoInv, TypeInv, TypeOK
  <2>3. DOMAIN Empty = {}
    BY DEF Empty
  <2>4. BackingUp(w)'
    BY <2>2, <2>3 DEF BackingUp
  <2> QED
    BY <2>1, <2>2, <2>4 DEF Progress
<1> QED
  BY <1>1, <1>2

LEMMA WorkProgress ==
  ASSUME Careful, NEW w \in Workers, UndoInv, Work(w)
  PROVE  Undoable' /\ RowInitial' /\ Progress(w)'
<1> USE DEF machineVars, workVars, loopVars, boundVars, Goto
<1>0. TypeOK /\ Local(w) /\ Progress(w) /\ Undoable /\ RowInitial
  BY DEF UndoInv, TypeInv
<1>1. CASE ReadLogs(w)
  <2>1. Undoable' /\ RowInitial'
    BY <1>0, <1>1 DEF ReadLogs, Undoable, RowInitial
  <2>2. CASE log = None /\ GoBackup(w)
    BY <1>1, <2>1, <2>2, GoBackupProgress DEF ReadLogs
  <2>3. CASE pc' = [pc EXCEPT ![w] = "idle"]
    BY <1>0, <2>1, <2>3 DEF TypeOK, Progress
  <2>4. CASE /\ log # None /\ pc' = [pc EXCEPT ![w] = "resume"]
             /\ todo' = [todo EXCEPT ![w] = log]
             /\ keys' = [keys EXCEPT ![w] = DOMAIN log.saved]
    BY <1>0, <1>1, <2>1, <2>4 DEF ReadLogs, TypeOK, Progress, Resuming
  <2> QED
    BY <1>1, <2>1, <2>2, <2>3, <2>4 DEF ReadLogs
<1>2. CASE ResumeKey(w)
  <2>1. Resuming(w) /\ keys[w] \subseteq DOMAIN log.saved
    BY <1>0, <1>2 DEF ResumeKey, Progress, Local, Resuming
  <2>2. PICK k \in keys[w] :
          /\ keys' = [keys EXCEPT ![w] = @ \ {k}]
          /\ sys' = [sys EXCEPT ![k] = log.saved[k]]
    BY <1>2, <2>1 DEF ResumeKey, Careful, Resuming
  <2>3. log.saved[k] = initial[k]
    BY <1>0, <2>1, <2>2 DEF RowInitial, Resuming
  <2>4. UNCHANGED <<log, initial, pc, todo>>
    BY <1>2 DEF ResumeKey
  <2>5. \A j \in Params : sys'[j] = IF j = k THEN initial[k] ELSE sys[j]
    BY <1>0, <2>2, <2>3 DEF TypeOK
  <2>6. keys'[w] = keys[w] \ {k} /\ k \in Params
    BY <1>0, <2>2 DEF TypeOK
  <2>7. DOMAIN log.saved \subseteq Params
    BY <1>0, <2>1, LogShape, PartialShape DEF TypeOK, Resuming
  <2>8. Undoable'
    BY <1>0, <2>4, <2>5 DEF Undoable
  <2>9. Resuming(w)'
    BY <2>1, <2>4, <2>5, <2>6, <2>7 DEF Resuming
  <2> QED
    BY <1>0, <1>2, <2>4, <2>8, <2>9 DEF ResumeKey, RowInitial, Progress
<1>3. CASE DropLog(w)
  <2>1. CASE log' = None
    <3>1. \A k \in Params : sys[k] = initial[k]
      BY <1>0, <1>3 DEF DropLog, Progress, Resuming, Undoable, Resumed
    <3>2. PICK s \in {"mark", "inactive", "idle"} : pc' = [pc EXCEPT ![w] = s]
      BY <1>3 DEF DropLog
    <3> QED
      BY <1>0, <1>3, <2>1, <3>1, <3>2 DEF DropLog, Undoable, RowInitial, Progress, TypeOK
  <2>2. CASE log' = log /\ pc' = [pc EXCEPT ![w] = "idle"]
    BY <1>0, <1>3, <2>2 DEF DropLog, Undoable, RowInitial, Progress, TypeOK
  <2> QED
    BY <1>3, <2>1, <2>2 DEF DropLog
<1>4. CASE MarkActive(w)
  <2>1. PICK s \in {"inactive", "idle"} : pc' = [pc EXCEPT ![w] = s]
    BY <1>4 DEF MarkActive
  <2> QED
    BY <1>0, <1>4, <2>1 DEF MarkActive, Undoable, RowInitial, Progress, TypeOK
<1>5. CASE Inactivate(w)
  <2>1. log = None
    BY <1>0, <1>5 DEF Inactivate, Progress
  <2> QED
    BY <1>0, <1>5, <2>1, GoBackupProgress DEF Inactivate, Undoable, RowInitial
<1>6. CASE BackupKey(w)
  <2>1. PICK k \in keys[w] :
          /\ keys' = [keys EXCEPT ![w] = @ \ {k}]
          /\ saved' = [saved EXCEPT ![w] = Saved(@, k)]
    BY <1>6 DEF BackupKey, Careful
  <2>2. log = None /\ BackingUp(w) /\ k \in DOMAIN want[w] /\ k \in Params
    BY <1>0, <1>6, <2>1 DEF BackupKey, Progress, Local, TypeOK
  <2>3. sys[k] = initial[k]
    BY <1>0, <2>2 DEF Undoable
  <2>4. keys'[w] = keys[w] \ {k} /\ saved'[w] = Saved(saved[w], k) /\ UNCHANGED <<want, initial>>
    BY <1>0, <1>6, <2>1 DEF BackupKey, TypeOK
  <2>5. /\ DOMAIN Saved(saved[w], k) = DOMAIN saved[w] \cup {k}
        /\ \A j \in DOMAIN saved[w] \cup {k} :
             Saved(saved[w], k)[j] = IF j = k THEN sys[k] ELSE saved[w][j]
    BY DEF Saved
  <2>6. BackingUp(w)'
    BY <2>2, <2>3, <2>4, <2>5 DEF BackingUp
  <2> QED
    BY <1>0, <1>6, <2>2, <2>6 DEF BackupKey, Undoable, RowInitial, Progress
<1>7. CASE InsertLog(w)
  <2>0. log = None /\ BackingUp(w) /\ \A k \in Params : sys[k] = initial[k]
    BY <1>0, <1>7 DEF InsertLog, Progress, Undoable
  <2>1. CASE /\ log' = [name |-> name[w], saved |-> saved[w]]
             /\ pc' = [pc EXCEPT ![w] = "apply"]
             /\ keys' = [keys EXCEPT ![w] = DOMAIN want[w]]
    <3>1. log' # None
      <4>1. want[w] \in Partial /\ name[w] \in Names
        BY <1>0, <1>7, NotNone DEF InsertLog, TypeOK, Local
      <4> QED
        BY <1>0, <2>1, <4>1, LogIntro, NotNone DEF TypeOK
    <3>2. keys[w] = {} /\ UNCHANGED <<sys, want, initial>>
      BY <1>7 DEF InsertLog, BackedUp
    <3>3. log'.saved = saved[w] /\ DOMAIN saved[w] = DOMAIN want[w]
      BY <2>0, <2>1, <3>2 DEF BackingUp
    <3>4. pc'[w] = "apply" /\ keys'[w] = DOMAIN want[w]
      BY <1>0, <2>1 DEF TypeOK
    <3>5. RowInitial' /\ Undoable'
      BY <2>0, <3>2, <3>3 DEF RowInitial, Undoable, BackingUp
    <3> QED
      BY <3>1, <3>2, <3>3, <3>4, <3>5 DEF Progress, Applying
  <2>2. CASE log' = log /\ pc' = [pc EXCEPT ![w] = "idle"]
    BY <1>0, <1>7, <2>2 DEF InsertLog, Undoable, RowInitial, Progress, TypeOK
  <2> QED
    BY <1>7, <2>1, <2>2 DEF InsertLog
<1>8. CASE ApplyKey(w)
  <2>1. PICK k \in keys[w] :
          /\ keys' = [keys EXCEPT ![w] = @ \ {k}]
          /\ \/ sys' = [sys EXCEPT ![k] = want[w][k]]
             \/ "apply" \in Faults /\ UNCHANGED sys
    BY <1>8 DEF ApplyKey
  <2>2. /\ log # None /\ DOMAIN log.saved = DOMAIN want[w] /\ k \in DOMAIN log.saved
        /\ DOMAIN want[w] \subseteq Params
    BY <1>0, <1>8, <2>1, PartialShape DEF ApplyKey, Progress, Applying, Local
  <2>3. UNCHANGED <<log, initial, pc, want>>
    BY <1>8 DEF ApplyKey
  <2>4. keys'[w] = keys[w] \ {k} /\ \A j \in Params : j # k => sys'[j] = sys[j]
    BY <1>0, <2>1 DEF TypeOK
  <2>5. "apply" \notin Faults => sys'[k] = want[w][k]
    BY <1>0, <2>1, <2>2 DEF TypeOK
  <2>6. Undoable' /\ RowInitial'
    BY <1>0, <2>2, <2>3, <2>4 DEF Undoable, RowInitial
  <2>7. Applying(w)
    BY <1>0, <1>8 DEF ApplyKey, Progress
  <2>8. Applying(w)'
    BY <2>2, <2>3, <2>4, <2>5, <2>7 DEF Applying
  <2> QED
    BY <1>8, <2>3, <2>6, <2>8 DEF ApplyKey, Progress
<1>9. CASE Finish(w)
  BY <1>0, <1>9 DEF Finish, Undoable, RowInitial, Progress, TypeOK
<1> QED
  BY <1>1, <1>2, <1>3, <1>4, <1>5, <1>6, <1>7, <1>8, <1>9 DEF Work

LEMMA UndoStep ==
  ASSUME Careful, UndoInv, [Next]_vars
  PROVE  UndoInv'
<1> USE DEF machineVars, workVars, loopVars, boundVars
<1>0. TypeInv' /\ Alone'
  BY TypeStep, AloneStep DEF UndoInv, Careful
<1> SUFFICES Undoable' /\ RowInitial' /\ \A w \in Workers : Progress(w)'
  BY <1>0 DEF UndoInv
<1>1. CASE UNCHANGED vars
  BY <1>1 DEF vars, UndoInv, Undoable, RowInitial, Progress, Resuming, BackingUp, Applying
<1>2. CASE ActiveProfile
  <2>1. Monitor \in Workers /\ Busy(Monitor) /\ UNCHANGED <<sys, log, initial>>
    BY <1>2 DEF ActiveProfile, Busy, Workers
  <2>2. \E s \in {"idle", "read"} : pc' = [pc EXCEPT ![Monitor] = s]
    BY <1>2 DEF ActiveProfile, Goto
  <2>3. Progress(Monitor)'
    BY <2>1, <2>2 DEF Progress, UndoInv, TypeInv, TypeOK
  <2> QED
    BY <1>0, <2>1, <2>2, <2>3, OneProgress DEF UndoInv, Undoable, RowInitial, TypeInv, TypeOK
<1>3. CASE Crash
  <2>1. UNCHANGED <<sys, log, initial>> /\ \A w \in Workers : pc'[w] = "idle"
    BY <1>3 DEF Crash
  <2> QED
    BY <2>1 DEF UndoInv, Undoable, RowInitial, Progress
<1>4. CASE Restart
  <2>1. UNCHANGED <<sys, log, initial>> /\ \A w \in Workers : pc'[w] \in {"idle", "load"}
    BY <1>4 DEF Restart, Goto, UndoInv, Alone, Busy, TypeInv, TypeOK
  <2> QED
    BY <2>1 DEF UndoInv, Undoable, RowInitial, Progress
<1>5. CASE Terminated
  BY <1>1, <1>5 DEF Terminated
<1>6. ASSUME NEW w \in Workers, Command(w)
      PROVE  Undoable' /\ RowInitial' /\ \A v \in Workers : Progress(v)'
  <2>1. UNCHANGED <<sys, log, initial>> /\ pc' = [pc EXCEPT ![w] = "read"]
    BY <1>6 DEF Command, Profile, Analysis, ProfileRollback, Begin, Goto
  <2>2. Progress(w)' /\ Busy(w)'
    BY <2>1 DEF Progress, Busy, UndoInv, TypeInv, TypeOK
  <2> QED
    BY <1>0, <2>1, <2>2, OneProgress DEF UndoInv, Undoable, RowInitial, TypeInv, TypeOK
<1>7. ASSUME NEW w \in Workers, Work(w)
      PROVE  Undoable' /\ RowInitial' /\ \A v \in Workers : Progress(v)'
  <2>1. Busy(w) /\ (pc' = pc \/ \E s \in Steps : pc' = [pc EXCEPT ![w] = s])
    BY <1>7 DEF Work, ReadLogs, ResumeKey, DropLog, MarkActive, Inactivate, BackupKey,
       InsertLog, ApplyKey, Finish, GoBackup, Steps, Busy, Goto
  <2>2. Undoable' /\ RowInitial' /\ Progress(w)'
    BY <1>7, WorkProgress
  <2> QED
    BY <1>0, <2>1, <2>2, OneProgress DEF UndoInv, TypeInv, TypeOK
<1> QED
  BY <1>1, <1>2, <1>3, <1>4, <1>5, <1>6, <1>7 DEF Next

(* When users wait for each other, whatever a command has changed is       *)
(* recorded in the row with its initial value, at every moment and after   *)
(* every crash: Backup records everything before active sets anything.     *)
THEOREM ChangesCanBeUndone ==
  ASSUME Careful PROVE Spec => []Undoable
<1>1. UndoInv /\ [Next]_vars => UndoInv'
  BY UndoStep
<1>2. UndoInv => Undoable
  BY DEF UndoInv
<1> QED
  BY <1>1, <1>2, UndoInit, PTL DEF Spec

(* Then no change is left behind when no profile is recorded: what the     *)
(* answer "no profile need to rollback" means is true, unless commands     *)
(* overlap or Backup and Resume ignore a failure.                          *)
THEOREM NothingIsLeft ==
  ASSUME Careful PROVE Spec => []NothingLeft
<1>1. UndoInv /\ [Next]_vars => UndoInv'
  BY UndoStep
<1>2. UndoInv => NothingLeft
  BY DEF UndoInv, TypeInv, TypeOK, Undoable, NothingLeft
<1> QED
  BY <1>1, <1>2, UndoInit, PTL DEF Spec

(* If moreover every PUT of active succeeds, an activation that completes  *)
(* leaves the profile over the initial configuration, and nothing of the   *)
(* profile that was in force before.                                       *)
THEOREM ActivationsAreExact ==
  ASSUME Careful, "apply" \notin Faults PROVE Spec => []ActivationExact
<1>1. UndoInv /\ [Next]_vars => UndoInv'
  BY UndoStep
<1>2. ASSUME UndoInv, NEW w \in Workers, pc[w] = "apply", keys[w] = {}
      PROVE  Exactly(want[w])
  <2>1. Applying(w) /\ Undoable /\ TypeOK
    BY <1>2 DEF UndoInv, TypeInv, Progress
  <2>2. \A k \in Params : k \in DOMAIN want[w] => sys[k] = want[w][k]
    BY <1>2, <2>1 DEF Applying
  <2>3. \A k \in Params : k \notin DOMAIN want[w] => sys[k] = initial[k]
    BY <2>1 DEF Applying, Undoable
  <2> QED
    BY <2>1, <2>2, <2>3 DEF Exactly, TypeOK
<1>3. UndoInv => ActivationExact
  BY <1>2 DEF ActivationExact
<1> QED
  BY <1>1, <1>3, UndoInit, PTL DEF Spec

(* The row of an activation is never replaced by that of another, however  *)
(* commands run into each other and whatever fails.                        *)
THEOREM RowIsKept == Spec => RowKept
<1>1. [Next]_vars => [log # None => log' \in {log, None}]_vars
  <2> SUFFICES ASSUME [Next]_vars, log # None PROVE log' \in {log, None}
    OBVIOUS
  <2> USE DEF machineVars
  <2>1. CASE UNCHANGED vars
    BY <2>1 DEF vars
  <2>2. CASE ActiveProfile \/ Crash \/ Restart \/ Terminated
    BY <2>2 DEF ActiveProfile, Crash, Restart, Terminated, vars
  <2>3. ASSUME NEW w \in Workers, Command(w) PROVE log' = log
    BY <2>3 DEF Command, Profile, Analysis, ProfileRollback, Begin
  <2>4. ASSUME NEW w \in Workers, Work(w) PROVE log' \in {log, None}
    BY <2>4 DEF Work, ReadLogs, ResumeKey, DropLog, MarkActive, Inactivate, BackupKey,
       InsertLog, RowFree, ApplyKey, Finish
  <2> QED
    BY <2>1, <2>2, <2>3, <2>4 DEF Next
<1> QED
  BY <1>1, PTL DEF Spec, RowKept
-----------------------------------------------------------------------------
(* The monitor on its way to a profile in force: it has loaded one; there  *)
(* is no row once Resume is done, and then the row of this profile.        *)
BootProgress ==
  /\ kind[Monitor] = "boot" /\ pc[Monitor] # "mark"
  /\ pc[Monitor] \notin {"idle", "load"} /\ name[Monitor] \in Profiles =>
       /\ want[Monitor] # None
       /\ pc[Monitor] \in {"inactive", "backup"} => log = None
       /\ pc[Monitor] = "apply" => log # None /\ log.name = name[Monitor]

BootInv == TypeInv /\ Alone /\ BootProgress

LEMMA BootInit == Init => BootInv
<1> SUFFICES ASSUME Init PROVE BootInv
  OBVIOUS
<1>1. Alone
  BY DEF Init, Alone, Busy
<1>2. Monitor \in Workers
  BY DEF Workers
<1>3. BootProgress
  BY <1>2 DEF Init, BootProgress
<1> QED
  BY <1>1, <1>3, TypeInit DEF BootInv

(* A step of the monitor leads on, and ends only with the row in place.    *)
LEMMA MonitorWorks ==
  ASSUME BootInv, Work(Monitor), Faults \cap {"db", "path"} = {}
  PROVE  /\ BootProgress' /\ UNCHANGED <<name, running>>
         /\ name[Monitor] \in Profiles /\ pc'[Monitor] = "idle" => KeptName(name[Monitor])
<1> USE DEF machineVars, workVars, loopVars, boundVars, Goto
<1> DEFINE w == Monitor
<1>0. TypeOK /\ Local(w) /\ w \in Workers /\ BootProgress /\ pc[w] # "mark" /\ kind[w] = "boot"
  BY DEF BootInv, TypeInv, Workers, BootProgress
<1>1. CASE ReadLogs(w)
  <2>1. UNCHANGED <<name, running, kind, want, log>> /\ pc[w] = "read"
    BY <1>1 DEF ReadLogs
  <2>2. CASE log # None /\ pc' = [pc EXCEPT ![w] = "resume"]
    BY <1>0, <2>1, <2>2 DEF TypeOK, BootProgress
  <2>3. CASE log = None /\ GoBackup(w)
    BY <1>0, <2>1, <2>3 DEF GoBackup, TypeOK, BootProgress
  <2> QED
    BY <1>1, <2>1, <2>2, <2>3 DEF ReadLogs
<1>2. CASE ResumeKey(w)
  BY <1>0, <1>2 DEF ResumeKey, BootProgress
<1>3. CASE DropLog(w)
  <2>1. log' = None /\ pc' = [pc EXCEPT ![w] = "inactive"]
    BY <1>0, <1>3 DEF DropLog
  <2> QED
    BY <1>0, <1>3, <2>1 DEF DropLog, TypeOK, BootProgress
<1>4. CASE Inactivate(w)
  BY <1>0, <1>4 DEF Inactivate, GoBackup, TypeOK, BootProgress
<1>5. CASE BackupKey(w)
  BY <1>0, <1>5 DEF BackupKey, BootProgress
<1>6. CASE InsertLog(w)
  <2>1. UNCHANGED <<name, running, kind, want>> /\ pc[w] = "backup"
    BY <1>6 DEF InsertLog
  <2>2. CASE /\ log' = [name |-> name[w], saved |-> saved[w]]
             /\ pc' = [pc EXCEPT ![w] = "apply"]
    <3>1. log'.name = name[w]
      BY <2>2
    <3>2. log' # None
      <4>1. want[w] \in Partial /\ name[w] \in Names
        BY <1>0, <2>1, NotNone DEF TypeOK, Local
      <4> QED
        BY <1>0, <2>2, <4>1, LogIntro, NotNone DEF TypeOK
    <3> QED
      BY <1>0, <2>1, <2>2, <3>1, <3>2 DEF TypeOK, BootProgress
  <2>3. CASE ~RowFree /\ pc' = [pc EXCEPT ![w] = "idle"]
    <3>1. name[w] \notin Profiles
      BY <1>0, <2>1, <2>3 DEF BootProgress, RowFree
    <3> QED
      BY <1>0, <2>1, <2>3, <3>1 DEF TypeOK, BootProgress
  <2> QED
    BY <1>6, <2>2, <2>3 DEF InsertLog
<1>7. CASE ApplyKey(w)
  BY <1>0, <1>7 DEF ApplyKey, BootProgress
<1>8. CASE Finish(w)
  BY <1>0, <1>8 DEF Finish, TypeOK, BootProgress, KeptName
<1>9. ~MarkActive(w)
  BY <1>0 DEF MarkActive
<1> QED
  BY <1>1, <1>2, <1>3, <1>4, <1>5, <1>6, <1>7, <1>8, <1>9 DEF Work

LEMMA BootStep ==
  ASSUME Serial, Faults \cap {"db", "path"} = {}, BootInv, [Next]_vars
  PROVE  /\ BootInv'
         /\ BootEnds /\ name[Monitor] \in Profiles => KeptName(name[Monitor])
<1> USE DEF machineVars, workVars, loopVars, boundVars, Goto
<1>0. TypeInv' /\ Alone' /\ BootProgress /\ TypeOK /\ Monitor \in Workers
  BY TypeStep, AloneStep DEF BootInv, TypeInv, Workers
<1> SUFFICES /\ BootProgress'
             /\ BootEnds /\ name[Monitor] \in Profiles => KeptName(name[Monitor])
  BY <1>0 DEF BootInv
<1>1. CASE UNCHANGED vars
  BY <1>0, <1>1 DEF vars, BootProgress, BootEnds
<1>2. CASE ActiveProfile
  <2>1. pc[Monitor] = "load" /\ UNCHANGED <<kind, log>>
    BY <1>2 DEF ActiveProfile
  <2>2. CASE pc' = [pc EXCEPT ![Monitor] = "idle"]
    BY <1>0, <2>1, <2>2 DEF TypeOK, BootProgress, BootEnds
  <2>3. CASE /\ log # None /\ pc' = [pc EXCEPT ![Monitor] = "read"]
             /\ name' = [name EXCEPT ![Monitor] = log.name]
             /\ want' = [want EXCEPT ![Monitor] = Loaded(log.name)]
    <3>1. pc'[Monitor] = "read" /\ name'[Monitor] = log.name /\ want'[Monitor] = Loaded(log.name)
      BY <1>0, <2>3 DEF TypeOK
    <3>2. log.name \in Profiles => Loaded(log.name) # None
      BY ConstAssumption, NotNone DEF Loaded
    <3> QED
      BY <1>0, <2>1, <3>1, <3>2 DEF BootProgress, BootEnds
  <2> QED
    BY <1>2, <2>2, <2>3 DEF ActiveProfile
<1>3. CASE Crash
  BY <1>0, <1>3 DEF Crash, BootProgress, BootEnds
<1>4. CASE Restart
  BY <1>0, <1>4 DEF Restart, TypeOK, BootProgress, BootEnds
<1>5. CASE Terminated
  BY <1>1, <1>5 DEF Terminated
<1>6. ASSUME NEW w \in Workers, Command(w)
      PROVE  BootProgress' /\ ~BootEnds
  <2>1. /\ w \in Clients /\ \A v \in Workers : ~Busy(v)
        /\ pc' = [pc EXCEPT ![w] = "read"] /\ \E k \in Kinds : kind' = [kind EXCEPT ![w] = k]
    BY <1>6 DEF Command, Profile, Analysis, ProfileRollback, Begin, Kinds
  <2>2. w # Monitor /\ pc[Monitor] = "idle"
    BY <1>0, <2>1, ConstAssumption DEF Busy
  <2>3. pc'[Monitor] = "idle" /\ kind'[Monitor] = "boot"
    BY <1>0, <2>1, <2>2 DEF TypeOK, BootProgress
  <2> QED
    BY <2>2, <2>3 DEF BootProgress, BootEnds
<1>7. ASSUME NEW w \in Workers, Work(w), w # Monitor
      PROVE  BootProgress' /\ ~BootEnds
  <2>1. Busy(w) /\ UNCHANGED kind
    BY <1>7 DEF Work, ReadLogs, ResumeKey, DropLog, MarkActive, Inactivate, BackupKey,
       InsertLog, ApplyKey, Finish, Busy
  <2>2. pc' = pc \/ \E s \in Steps : pc' = [pc EXCEPT ![w] = s]
    BY <1>7 DEF Work, ReadLogs, ResumeKey, DropLog, MarkActive, Inactivate, BackupKey,
       InsertLog, ApplyKey, Finish, GoBackup, Steps
  <2>3. pc[Monitor] = "idle"
    BY <1>0, <1>7, <2>1 DEF BootInv, Alone, Busy
  <2>4. pc'[Monitor] = "idle"
    BY <1>0, <1>7, <2>2, <2>3 DEF TypeOK
  <2> QED
    BY <1>0, <2>1, <2>3, <2>4 DEF BootProgress, BootEnds
<1>8. CASE Work(Monitor)
  BY <1>8, MonitorWorks DEF BootEnds
<1> QED
  BY <1>1, <1>2, <1>3, <1>4, <1>5, <1>6, <1>7, <1>8 DEF Next

(* When users wait for each other and for the start of atuned, and neither *)
(* the database nor the backup directory fails, the monitor that has found *)
(* a profile in force leaves it in force, wherever the crashes before came *)
(* and whatever else fails (ActiveProfile, RollbackActive).                *)
THEOREM ProfileSurvives ==
  ASSUME Serial, Faults \cap {"db", "path"} = {} PROVE Spec => BootKeepsProfile
<1>1. BootInv /\ [Next]_vars => BootInv'
  BY BootStep
<1>2. BootInv /\ [Next]_vars =>
        [BootEnds /\ name[Monitor] \in Profiles => KeptName(name[Monitor])]_vars
  BY BootStep
<1> QED
  BY <1>1, <1>2, BootInit, PTL DEF Spec, BootKeepsProfile
=============================================================================
