-------------------------- MODULE ProfileActivation --------------------------
(***************************************************************************)
(* Static tuning: a profile is put in force and taken back.                *)
(*                                                                         *)
(* Four commands of atuned do it, each in a goroutine of its own: Profile  *)
(* and ProfileRollback (modules/server/profile/profile.go), the last part  *)
(* of Analysis, and the service "monitor" when atuned starts               *)
(* (common/service/monitor/monitors.go).  They call Rollback, Backup and   *)
(* active of common/profile, which read and set one parameter at a time    *)
(* through the REST service and keep two tables of the database:           *)
(* profile_log, what must be restored, and class_profile, which workload   *)
(* type is active.                                                         *)
(*                                                                         *)
(* profile_log holds one row at most.  ProfileLog.ID is not tagged as an   *)
(* autoincrement key, so every row is inserted with id 0, the primary key  *)
(* refuses a second one, and deleting by ID deletes whatever row is there. *)
(***************************************************************************)
EXTENDS Integers, FiniteSets

CONSTANTS
  Params,       (* the parameters of the machine                              *)
  Values,       (* the values they take                                       *)
  Profiles,     (* the names of the .conf files                               *)
  Setting,      (* what each of them sets                                     *)
  Classes,      (* the workload types of class_profile                        *)
  ProfileType,  (* the profile of each workload type                          *)
  Clients,      (* the commands that may run at the same time                 *)
  Monitor,      (* the service that runs when atuned starts                   *)
  Serial,       (* the users wait for a command to end before the next one    *)
  MaxCommands,  (* bound: commands run                                        *)
  MaxCrashes,   (* bound: crashes of atuned                                   *)
  Faults,       (* the failures that happen                                   *)
  None          (* no value                                                   *)

Partial == UNION {[S -> Values] : S \in SUBSET Params}
Names   == Profiles \cup Classes
Workers == Clients \cup {Monitor}
Log     == [name : Names, saved : Partial]

(* A GET of Backup, a PUT of active or of Resume, a request to the         *)
(* database, the creation or the removal of the backup directory.          *)
FaultKinds == {"get", "apply", "resume", "db", "path"}

ASSUME ConstAssumption ==
  /\ Setting \in [Profiles -> Partial]
  /\ ProfileType \in [Classes -> Profiles]
  /\ Monitor \notin Clients
  /\ Serial \in BOOLEAN
  /\ MaxCommands \in Nat /\ MaxCrashes \in Nat
  /\ Faults \subseteq FaultKinds
  /\ None \notin Names \cup Partial \cup Log

VARIABLES
  sys,      (* the value of every parameter                                   *)
  log,      (* the row of profile_log, or None                                *)
  active,   (* the class whose active flag is set, or None                    *)
  running,  (* atuned runs                                                    *)
  pc,       (* where each worker is                                           *)
  kind,     (* the command it executes                                        *)
  name,     (* Profile.name: a profile, or a class when Analysis chose it     *)
  want,     (* what the loaded profile sets; None for the empty Profile{}     *)
  todo,     (* the row it read from profile_log                               *)
  keys,     (* the keys left in the loop it executes                          *)
  saved,    (* the buffer of Backup                                           *)
  initial,  (* the configuration before any profile                           *)
  commands, crashes

machineVars == <<sys, log, active, running>>
boundVars   == <<initial, commands, crashes>>
workVars    == <<kind, name, want>>
loopVars    == <<todo, keys, saved>>
vars == <<machineVars, pc, workVars, loopVars, boundVars>>

Steps == {"idle", "load", "read", "resume", "mark", "inactive", "backup", "apply"}
Kinds == {"profile", "analysis", "rollback", "boot"}

Empty == [k \in {} |-> None]

Init ==
  /\ sys \in [Params -> Values] /\ initial = sys
  /\ log = None /\ active = None /\ running = TRUE
  /\ pc = [w \in Workers |-> "idle"]
  /\ kind = [w \in Workers |-> IF w = Monitor THEN "boot" ELSE "profile"]
  /\ name = [w \in Workers |-> None] /\ want = [w \in Workers |-> None]
  /\ todo = [w \in Workers |-> None] /\ keys = [w \in Workers |-> {}]
  /\ saved = [w \in Workers |-> Empty]
  /\ commands = 0 /\ crashes = 0

Goto(w, step) == pc' = [pc EXCEPT ![w] = step]
Busy(w) == pc[w] # "idle"

-----------------------------------------------------------------------------
(* The commands.                                                           *)

Begin(w, k, n, p) ==
  /\ w \in Clients /\ running /\ ~Busy(w) /\ commands < MaxCommands
  /\ Serial => \A v \in Workers : ~Busy(v)
  /\ Goto(w, "read")
  /\ kind' = [kind EXCEPT ![w] = k]
  /\ name' = [name EXCEPT ![w] = n] /\ want' = [want EXCEPT ![w] = p]
  /\ commands' = commands + 1
  /\ UNCHANGED <<machineVars, loopVars, initial, crashes>>

(* Profile: the profile is loaded, then RollbackActive.  One that cannot   *)
(* be loaded is refused before anything changes.                           *)
Profile(w) == \E p \in Profiles : Begin(w, "profile", p, Setting[p])

(* Analysis: one at a time (TryLock); a class that is not marked active    *)
(* yet has its profile put in force under the name of the class.           *)
Analysis(w) ==
  /\ \A v \in Clients : kind[v] = "analysis" => ~Busy(v)
  /\ \E c \in Classes : c # active /\ Begin(w, "analysis", c, Setting[ProfileType[c]])

ProfileRollback(w) == Begin(w, "rollback", None, None)

(* The monitor reads the name in profile_log and loads that profile.  What *)
(* is not the name of a .conf file gives the empty Profile.                *)
LoadedName(n) == IF n \in Classes THEN ProfileType[n] ELSE Setting[n]
LoadedByClass(n) == IF n \in Classes THEN Setting[ProfileType[n]] ELSE None
Loaded(n) == IF n \in Profiles THEN Setting[n] ELSE None

ActiveProfile ==
  /\ pc[Monitor] = "load"
  /\ \/ /\ log = None \/ "db" \in Faults
        /\ Goto(Monitor, "idle")
        /\ UNCHANGED <<name, want>>
     \/ /\ log # None
        /\ name' = [name EXCEPT ![Monitor] = log.name]
        /\ want' = [want EXCEPT ![Monitor] = Loaded(log.name)]
        /\ Goto(Monitor, "read")
  /\ UNCHANGED <<kind, machineVars, loopVars, boundVars>>

-----------------------------------------------------------------------------
(* Rollback.                                                               *)

(* RollbackActive goes on with Backup; the empty Profile has nothing to    *)
(* back up or to set.  Backup returns nil when the directory cannot be     *)
(* created, and active follows with nothing recorded.                      *)
GoBackup(w) ==
  \/ want[w] = None /\ Goto(w, "idle") /\ UNCHANGED loopVars
  \/ /\ want[w] # None
     /\ Goto(w, "backup") \/ ("path" \in Faults /\ Goto(w, "apply"))
     /\ keys' = [keys EXCEPT ![w] = DOMAIN want[w]]
     /\ saved' = [saved EXCEPT ![w] = Empty]
     /\ UNCHANGED todo

(* GetProfileLogs; an error ends the command.                              *)
ReadLogs(w) ==
  /\ pc[w] = "read"
  /\ \/ /\ log # None
        /\ Goto(w, "resume")
        /\ todo' = [todo EXCEPT ![w] = log]
        /\ keys' = [keys EXCEPT ![w] = DOMAIN log.saved]
        /\ UNCHANGED saved
     \/ log = None /\ GoBackup(w)
     \/ "db" \in Faults /\ Goto(w, "idle") /\ UNCHANGED loopVars
  /\ UNCHANGED <<machineVars, workVars, boundVars>>

(* Resume: the parameters of the row, one PUT each.  A failure is only     *)
(* reported.                                                               *)
ResumeKey(w) ==
  /\ pc[w] = "resume"
  /\ \E k \in keys[w] :
       /\ keys' = [keys EXCEPT ![w] = @ \ {k}]
       /\ \/ sys' = [sys EXCEPT ![k] = todo[w].saved[k]]
          \/ "resume" \in Faults /\ UNCHANGED sys
  /\ UNCHANGED <<log, active, running, pc, workVars, todo, saved, boundVars>>

(* DelProfileLogByID once every parameter was resumed, then the backup     *)
(* directory is removed; an error of either ends the command.              *)
DropAtOnce(w) == TRUE
Resumed(w) == keys[w] = {}

DropLog(w) ==
  /\ pc[w] = "resume" /\ Resumed(w)
  /\ \/ log' = None /\ Goto(w, IF kind[w] = "rollback" THEN "mark" ELSE "inactive")
     \/ "db" \in Faults /\ UNCHANGED log /\ Goto(w, "idle")
     \/ "path" \in Faults /\ log' = None /\ Goto(w, "idle")
  /\ UNCHANGED <<sys, active, running, workVars, loopVars, boundVars>>

(* sqlstore.ActiveProfile of the name in the row, by ProfileRollback only: *)
(* an active class is deactivated, then the class of that name activated.  *)
(* The name of a .conf file is no class: the command returns, with nil, as *)
(* it does when the database fails.                                        *)
MarkActive(w) ==
  /\ pc[w] = "mark"
  /\ \/ todo[w].name \in Classes /\ active' = todo[w].name /\ Goto(w, "inactive")
     \/ todo[w].name \notin Classes /\ active' = None /\ Goto(w, "idle")
     \/ "db" \in Faults /\ active' \in {active, None} /\ Goto(w, "idle")
  /\ UNCHANGED <<sys, log, running, workVars, loopVars, boundVars>>

(* InActiveProfile; its error is not looked at.                            *)
Inactivate(w) ==
  /\ pc[w] = "inactive"
  /\ active' = None \/ ("db" \in Faults /\ UNCHANGED active)
  /\ GoBackup(w)
  /\ UNCHANGED <<sys, log, running, workVars, boundVars>>

-----------------------------------------------------------------------------
(* Backup and active.                                                      *)

(* Backup: the value of every parameter the profile sets, one GET each.    *)
(* One that cannot be read is left out of the row.                         *)
Saved(f, k) == [j \in DOMAIN f \cup {k} |-> IF j = k THEN sys[k] ELSE f[j]]

BackupKey(w) ==
  /\ pc[w] = "backup"
  /\ \E k \in keys[w] :
       /\ keys' = [keys EXCEPT ![w] = @ \ {k}]
       /\ \/ saved' = [saved EXCEPT ![w] = Saved(@, k)]
          \/ "get" \in Faults /\ UNCHANGED saved
  /\ UNCHANGED <<machineVars, pc, workVars, todo, boundVars>>

(* InsertProfileLog, refused when there is a row already; then active.     *)
InsertAtOnce(w) == TRUE
BackedUp(w) == keys[w] = {}

AnyRow  == TRUE
RowFree == log = None

InsertLog(w) ==
  /\ pc[w] = "backup" /\ BackedUp(w)
  /\ \/ /\ RowFree
        /\ log' = [name |-> name[w], saved |-> saved[w]]
        /\ Goto(w, "apply")
        /\ keys' = [keys EXCEPT ![w] = DOMAIN want[w]]
     \/ /\ ~RowFree \/ "db" \in Faults
        /\ Goto(w, "idle")
        /\ UNCHANGED <<log, keys>>
  /\ UNCHANGED <<sys, active, running, workVars, todo, saved, boundVars>>

(* active: the parameters of the profile, one PUT each.                    *)
ApplyKey(w) ==
  /\ pc[w] = "apply"
  /\ \E k \in keys[w] :
       /\ keys' = [keys EXCEPT ![w] = @ \ {k}]
       /\ \/ sys' = [sys EXCEPT ![k] = want[w][k]]
          \/ "apply" \in Faults /\ UNCHANGED sys
  /\ UNCHANGED <<log, active, running, pc, workVars, todo, saved, boundVars>>

Finish(w) ==
  /\ pc[w] = "apply" /\ keys[w] = {}
  /\ Goto(w, "idle")
  /\ UNCHANGED <<machineVars, workVars, loopVars, boundVars>>

-----------------------------------------------------------------------------
(* atuned dies with every command; the machine and the database stay.      *)
Crash ==
  /\ running /\ crashes < MaxCrashes
  /\ running' = FALSE /\ crashes' = crashes + 1
  /\ pc' = [w \in Workers |-> "idle"]
  /\ UNCHANGED <<sys, log, active, workVars, loopVars, initial, commands>>

(* atuned starts: the services are run, the monitor among them.            *)
Restart ==
  /\ ~running
  /\ running' = TRUE
  /\ Goto(Monitor, "load")
  /\ UNCHANGED <<sys, log, active, workVars, loopVars, boundVars>>

(* Everything was asked that the bound allows, and is done.                *)
Terminated ==
  /\ running /\ commands = MaxCommands /\ \A w \in Workers : ~Busy(w)
  /\ UNCHANGED vars

Command(w) == Profile(w) \/ Analysis(w) \/ ProfileRollback(w)

Work(w) == \/ ReadLogs(w) \/ ResumeKey(w) \/ DropLog(w) \/ MarkActive(w)
           \/ Inactivate(w) \/ BackupKey(w) \/ InsertLog(w) \/ ApplyKey(w)
           \/ Finish(w)

Next == \/ \E w \in Workers : Command(w) \/ Work(w)
        \/ ActiveProfile \/ Crash \/ Restart \/ Terminated

Spec == Init /\ [][Next]_vars

-----------------------------------------------------------------------------
TypeOK ==
  /\ sys \in [Params -> Values] /\ initial \in [Params -> Values]
  /\ log \in Log \cup {None}
  /\ active \in Classes \cup {None}
  /\ running \in BOOLEAN
  /\ pc \in [Workers -> Steps] /\ kind \in [Workers -> Kinds]
  /\ name \in [Workers -> Names \cup {None}]
  /\ want \in [Workers -> Partial \cup {None}]
  /\ todo \in [Workers -> Log \cup {None}]
  /\ keys \in [Workers -> SUBSET Params]
  /\ saved \in [Workers -> Partial]
  /\ commands \in Nat /\ crashes \in Nat

(* Whatever was changed can be undone: a parameter that does not have its  *)
(* initial value has it in the row of profile_log, at every moment of      *)
(* every command and after a crash at that moment, so that a rollback      *)
(* brings the machine back ("rollback to the system init state").          *)
Undoable ==
  \A k \in Params : sys[k] # initial[k] =>
    log # None /\ k \in DOMAIN log.saved /\ log.saved[k] = initial[k]

(* A profile p is in force and nothing else is.                            *)
Exactly(p) == sys = [k \in Params |-> IF k \in DOMAIN p THEN p[k] ELSE initial[k]]

(* When the activation of a profile is complete, the machine has what the  *)
(* profile sets over what it had initially: nothing is left of the profile *)
(* that was in force before, and nothing is missing.                       *)
ActivationExact ==
  \A w \in Workers : pc[w] = "apply" /\ keys[w] = {} => Exactly(want[w])

(* However commands run into each other and whatever fails, the row that   *)
(* tells how to undo one activation is not replaced by that of another:    *)
(* the insertion of a second row is refused.                               *)
RowKept == [][log # None => log' \in {log, None}]_vars

(* The monitor is done and atuned did not die meanwhile.                   *)
BootEnds == pc[Monitor] \notin {"idle", "load"} /\ pc'[Monitor] = "idle" /\ running'

KeptName(n) == log' # None /\ log'.name = n

(* A profile in force when atuned goes down is in force again when it is   *)
(* up: the row survives, wherever the crash came, unless the database      *)
(* fails.                                                                  *)
BootKeepsProfile ==
  [][BootEnds /\ name[Monitor] \in Profiles => KeptName(name[Monitor])]_vars

(* The same of whatever is active, a workload type chosen by Analysis too. *)
BootKeepsActive == [][BootEnds => KeptName(name[Monitor])]_vars

(* When no command runs and no profile is recorded, which a rollback       *)
(* answers with "no profile need to rollback", nothing is left to undo.    *)
NothingLeft ==
  (\A w \in Workers : ~Busy(w)) /\ log = None => sys = initial
=============================================================================
