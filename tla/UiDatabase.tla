----------------------------- MODULE UiDatabase -----------------------------
(***************************************************************************)
(* The engine records analyses and tunings in the web UI database, which   *)
(* web users read and change at the same time.                             *)
(*                                                                         *)
(* A client of the engine (the two threads of an Analysis, a Tuning, a web *)
(* session) has one request under way: the triggers it still has to run    *)
(* (calls), the database its open session has read (seen, empty when no    *)
(* session is open), the id it works on and is answered, and whether it    *)
(* ended with status 500.                                                  *)
(***************************************************************************)
EXTENDS UiTriggers

CONSTANTS
    Analyses,           \* runs of the analysis command, each with a daemon of its own
    Tunings,            \* names <<project, time>> of tunings
    Ips, IpOf,          \* addresses, and that of each analysis and tuning
    ColsOf,             \* the columns each analysis samples
    ParamsOf,           \* the parameters each tuning sets
    Samples, Rounds,    \* samples of one pass of an analysis, iterations of a tuning
    Webs,               \* web sessions
    Uids, Emails, Pwds, Descs,  \* what web users may send
    Workloads           \* what is at work in one behaviour: the analyses with their
                        \* passes and lines of log at most and how a classification
                        \* ends ("ok", "fail"), the tunings, the viewer,
                        \* the web sessions with the requests they make together to
                        \* which routes, and the addresses a user may have entered

ASSUME UiAssumption ==
    /\ IpOf \in [Analyses \cup Tunings -> Ips]
    /\ Tunings \subseteq Seq(STRING) /\ \A t \in Tunings : t # <<>>
    /\ Samples \in Nat \ {0} /\ Rounds \in Nat \ {0}
    /\ Uids \subseteq Nat
    /\ \A w \in Workloads :
         /\ w.analyses \subseteq Analyses /\ w.passes \in Nat /\ w.lines \in Nat
         /\ w.tunings \subseteq Tunings /\ IsFiniteSet(w.tunings)
         /\ w.webs \subseteq Webs /\ w.ips \subseteq Ips /\ IsFiniteSet(w.ips)
         /\ w.requests \in Nat /\ w.routes \subseteq {"user", "runs"}

VARIABLES
    db,                 \* the committed database
    req,                \* client -> its request
    work,               \* the workload
    an,                 \* analysis -> handler, pipe and reader goroutine
    tn,                 \* tuning -> next iteration to report
    web,                \* requests the web sessions may still make
    view                \* the viewer of collection 1

vars == <<db, req, work, an, tn, web, view>>

Handler(a) == <<a, "handler">>
Reader(a) == <<a, "reader">>
Tuner(t) == <<t, "tuning">>
Browser(w) == <<w, "web">>
Clients == {Handler(a) : a \in Analyses} \cup {Reader(a) : a \in Analyses}
           \cup {Tuner(t) : t \in Tunings} \cup {Browser(w) : w \in Webs}

NoRequest == [calls |-> <<>>, seen |-> <<>>, id |-> -1, err |-> FALSE]
Idle(c) == req[c].calls = <<>>
Ask(c, calls, id) ==
    req' = [req EXCEPT ![c] = [NoRequest EXCEPT !.calls = calls, !.id = id]]

-----------------------------------------------------------------------------
(* Sessions of the engine                                                  *)

\* The triggers by name; the collection a request works on goes with the call.
Run(q, s, d) ==
    CASE q.op = "add_new_collection" -> AddNewCollection(s, d, q)
      [] q.op = "add_collection_data" -> AddCollectionData(s, d, q)
      [] q.op = "add_analysis_log" -> AddAnalysisLog(s, d, q)
      [] q.op = "change_collection_status" -> ChangeCollectionStatus(s, d, q)
      [] q.op = "change_collection_info" -> ChangeCollectionInfo(s, d, q)
      [] q.op = "rename_collection" -> RenameCollection(s, d, q)
      [] q.op = "update_analysis_description" -> UpdateAnalysisDescription(s, d, q)
      [] q.op = "add_new_tuning" -> AddNewTuning(s, d, q)
      [] q.op = "change_tuning_baseline" -> ChangeTuningBaseline(s, d, q)
      [] q.op = "create_tuning_data_table" -> CreateTuningDataTable(s, d, q)
      [] q.op = "add_tuning_data" -> AddTuningData(s, d, q)
      [] q.op = "change_tuning_status" -> ChangeTuningStatus(s, d, q)
      [] q.op = "rename_tuning" -> RenameTuning(s, d, q)
      [] q.op = "update_tuning_description" -> UpdateTuningDesc(s, d, q)
      [] q.op = "update_command_description" -> UpdateCommandDescription(s, d, q)
      [] q.op = "user_exist" -> UserExist(s, d, q)
      [] q.op = "create_user" -> CreateUser(s, d, q)
      [] q.op = "create_admin" -> CreateAdmin(s, d, q)
      [] q.op = "count_user" -> CountUser(s, d, q)
      [] q.op = "change_user_pwd" -> ChangeUserPwd(s, d, q)
      [] q.op = "change_user_info" -> ChangeUserInfo(s, d, q)
      [] q.op = "add_ip" -> AddIp(s, d, q)
      [] q.op = "update_ip" -> UpdateIp(s, d, q)
      [] q.op = "delete_ip" -> DeleteIp(s, d, q)

Call(c) == IF "cid" \in DOMAIN Head(req[c].calls) THEN Head(req[c].calls)
           ELSE [x \in DOMAIN Head(req[c].calls) \cup {"cid"} |->
                    IF x = "cid" THEN req[c].id ELSE Head(req[c].calls)[x]]

\* metadata.create_all runs on a connection of its own and commits at once, the
\* header row only with the session.
TableMade(q, d) ==
    IF \/ q.op = "add_new_collection" /\ ~FindIp(d.ips, q.ip)
       \/ q.op = "add_collection_data"
    THEN [d EXCEPT !.data.made = TRUE]
    ELSE IF q.op = "create_tuning_data_table" /\ q.project \notin DOMAIN d.tdata
    THEN [d EXCEPT !.tdata = Insert(@, q.project, TuningTable(q.params))]
    ELSE d

\* The triggers whose outcome another session can change between their reads and
\* their commit; every other one takes effect as if at one moment.
Racing == {"add_new_collection", "add_collection_data", "change_collection_info",
           "rename_collection", "add_new_tuning", "create_tuning_data_table",
           "rename_tuning", "create_user", "change_user_pwd", "add_ip"}

OpenSession(c) ==
    /\ ~Idle(c) /\ req[c].seen = <<>>
    /\ Head(req[c].calls).op \in Racing
    /\ req' = [req EXCEPT ![c].seen = <<db>>]
    /\ db' = TableMade(Call(c), db)
    /\ UNCHANGED <<work, an, tn, web, view>>

\* What the caller does with the answer of a trigger before it calls the next one.
Stops(q, r) ==
    \/ r.err
    \/ q.op \in {"add_new_collection", "add_tuning_data"} /\ r.val = -1
    \/ q.op = "count_user" /\ r.val > 0

CommitSession(c) ==
    LET q == Call(c)
        r == Run(q, IF q.op \in Racing THEN req[c].seen[1] ELSE db, db)
    IN  /\ ~Idle(c)
        /\ q.op \in Racing => req[c].seen # <<>>
        /\ db' = r.db
        /\ req' = [req EXCEPT ![c] =
                    [calls |-> IF Stops(q, r) THEN <<>> ELSE Tail(@.calls),
                     seen |-> <<>>, id |-> r.val, err |-> r.err]]
        /\ UNCHANGED <<work, an, tn, web, view>>

-----------------------------------------------------------------------------
(* The analysis command: Transfer.put and save_analysis_data on the side   *)
(* of the engine, the handler and its reader goroutine on that of the      *)
(* daemon.                                                                 *)

TransferPut(c, a, calls, id) ==
    LET new == [op |-> "add_new_collection", ip |-> IpOf[a], time |-> "now"]
    IN  Ask(c, IF id = -1 THEN <<new>> \o calls ELSE calls, id)

CsvRunning(a, n) == <<[op |-> "add_collection_data", cols |-> ColsOf[a],
                       sample |-> <<a, n>>]>>
Finished(type, workload) ==
    <<[op |-> "change_collection_status", status |-> "finished", type |-> type],
      [op |-> "change_collection_info", workload |-> workload]>>
LogRunning(a, n) == <<[op |-> "add_analysis_log", line |-> <<a, n>>]>>

NewAnalysis == [handler |-> "open", pass |-> 1, made |-> 0, writer |-> FALSE,
                reader |-> "open", read |-> 0, sub |-> TRUE, cid |-> -1,
                sid |-> -1, lines |-> 0]
Step(a, changes) ==
    an' = [an EXCEPT ![a] = [x \in DOMAIN @ |-> IF x \in DOMAIN changes THEN changes[x]
                                                                       ELSE @[x]]]
Still == UNCHANGED <<db, work, tn, web, view>>
Quiet == Still /\ UNCHANGED req

\* The collector opens the pipe once there is a reader; the descriptor of a
\* reader that returned or opens the pipe again is closed some time later, and
\* with the last descriptor the rows of a pass that nobody read are gone.
OpenPipe(a) ==
    /\ an[a].handler = "open"
    /\ an[a].reader # "end"
    /\ \E read \in {an[a].read, IF an[a].reader = "open" THEN an[a].made ELSE an[a].read} :
          Step(a, [handler |-> "sample", writer |-> TRUE, read |-> read,
                   reader |-> IF an[a].reader = "open" THEN "read" ELSE an[a].reader])
    /\ Quiet

Sample(a) ==
    /\ an[a].handler = "sample" /\ an[a].made < an[a].pass * Samples
    /\ Step(a, [made |-> an[a].made + 1])
    /\ Quiet

\* The collector closes the pipe before it stores the samples and answers.
ClosePipe(a) ==
    /\ an[a].handler = "sample" /\ an[a].made = an[a].pass * Samples
    /\ Step(a, [handler |-> "collected", writer |-> FALSE])
    /\ Quiet

\* One more pass while the client has not said "end"; else the classification.
Collected(a) ==
    /\ an[a].handler = "collected"
    /\ \/ an[a].pass < work.passes
          /\ Step(a, [handler |-> "open", pass |-> an[a].pass + 1])
       \/ Step(a, [handler |-> "classify", sub |-> FALSE])
    /\ Quiet

\* The samples cannot be stored or classified, or the collector has nobody to
\* write to, and the handler returns.
AnalysisFails(a) ==
    /\ \/ an[a].handler \in {"collected", "classify"} /\ "fail" \in work.ends
       \/ an[a].handler = "sample" /\ an[a].reader \in {"fail", "again"}
    /\ Step(a, [handler |-> "fail", writer |-> FALSE])
    /\ Quiet

Classified(a) ==
    /\ an[a].handler = "classify" /\ "ok" \in work.ends
    /\ TransferPut(Handler(a), a, Finished("csv", "w"), an[a].cid)
    /\ Step(a, [handler |-> "finish"])
    /\ Still

\* The workload type is active already, or its profile is set, a line for each
\* parameter; an error in sending a line is only logged.
FinishAnswered(a) ==
    /\ an[a].handler = "finish" /\ Idle(Handler(a))
    /\ IF req[Handler(a)].err THEN Step(a, [handler |-> "fail"])
       ELSE \/ Step(a, [handler |-> "end"])
            \/ work.lines > 0 /\ Step(a, [handler |-> "log", sid |-> an[a].cid])
    /\ Quiet

SendLine(a) ==
    /\ an[a].handler = "log" /\ Idle(Handler(a)) /\ an[a].lines < work.lines
    /\ TransferPut(Handler(a), a, LogRunning(a, an[a].lines + 1), an[a].sid)
    /\ Step(a, [lines |-> an[a].lines + 1])
    /\ Still

LogFinished(a) ==
    /\ an[a].handler = "log" /\ Idle(Handler(a)) /\ an[a].lines = work.lines
    /\ TransferPut(Handler(a), a, Finished("log", NoText), an[a].sid)
    /\ Step(a, [handler |-> "end"])
    /\ Still

ReadRow(a) ==
    /\ an[a].reader = "read" /\ an[a].read < an[a].made
    /\ TransferPut(Reader(a), a, CsvRunning(a, an[a].read + 1), an[a].cid)
    /\ Step(a, [reader |-> "sent", read |-> an[a].read + 1])
    /\ Still

RowAnswered(a) ==
    /\ an[a].reader = "sent" /\ Idle(Reader(a))
    /\ Step(a, IF req[Reader(a)].err THEN [reader |-> "fail"]
               ELSE [reader |-> "read", cid |-> req[Reader(a)].id])
    /\ Quiet

\* End of file: every writer has closed the pipe and every row is read.
EndOfFile(a) == an[a].reader = "read" /\ ~an[a].writer /\ an[a].read = an[a].made

\* (mutation) the goroutine returns without the last message
SaidNothing(a) ==
    EndOfFile(a) /\ ~an[a].sub /\ Step(a, [reader |-> "end"]) /\ Quiet

\* (mutation) the goroutine ends with the first pass
EndsAtPass(a) ==
    EndOfFile(a) /\ an[a].sub /\ Step(a, [reader |-> "end"]) /\ Quiet

\* The goroutine takes the end of each pass for that of a pass before the last,
\* that of the last too when the handler has not got the answer of the collector.
PassEnds(a) ==
    EndOfFile(a) /\ an[a].sub /\ Step(a, [reader |-> "again"]) /\ Quiet

\* Opening the pipe blocks until the collector has it open.  The handler removes
\* it when it returns: opening it then fails, but not when it has begun before.
ReopenPipe(a) ==
    /\ an[a].reader = "again"
    /\ Step(a, [reader |-> IF an[a].handler \in {"end", "fail"} THEN "gone"
                           ELSE IF an[a].writer THEN "read" ELSE "open"])
    /\ Quiet

SendFinished(a) ==
    /\ EndOfFile(a) /\ ~an[a].sub
    /\ TransferPut(Reader(a), a, Finished("csv", NoText), an[a].cid)
    /\ Step(a, [reader |-> "last"])
    /\ Still

ReaderEnds(a) ==
    /\ an[a].reader = "last" /\ Idle(Reader(a))
    /\ Step(a, [reader |-> IF req[Reader(a)].err THEN "fail" ELSE "end"])
    /\ Quiet

AnalysisStep(a) ==
    \/ OpenPipe(a) \/ Sample(a) \/ ClosePipe(a) \/ Collected(a) \/ Classified(a)
    \/ FinishAnswered(a) \/ SendLine(a) \/ LogFinished(a)
    \/ ReadRow(a) \/ RowAnswered(a) \/ PassEnds(a) \/ ReopenPipe(a)
    \/ SendFinished(a) \/ ReaderEnds(a)

-----------------------------------------------------------------------------
(* A tuning: save_tuning_data_database at each PUT of the optimizer.       *)

TuningCalls(t, i) ==
    CASE i = -1 -> <<[op |-> "add_new_tuning", name |-> t, rounds |-> Rounds,
                      ip |-> IpOf[t]]>>
      [] i = 0 -> <<[op |-> "change_tuning_baseline", name |-> t, base |-> 0],
                    [op |-> "create_tuning_data_table", project |-> Head(t),
                     params |-> ParamsOf[t]]>>
      [] i > 0 -> <<[op |-> "add_tuning_data", name |-> t, project |-> Head(t), round |-> i,
                     params |-> ParamsOf[t], row |-> <<t, i>>],
                    [op |-> "change_tuning_status", name |-> t, project |-> Head(t)]>>

TuningPut(t) ==
    /\ t \in work.tunings /\ Idle(Tuner(t)) /\ tn[t] <= Rounds
    /\ Ask(Tuner(t), TuningCalls(t, tn[t]), -1)
    /\ tn' = [tn EXCEPT ![t] = @ + 1]
    /\ UNCHANGED <<db, work, an, web, view>>

-----------------------------------------------------------------------------
(* Web users: the requests of each route that change the database or need  *)
(* more than one look at it.  AppUI does not register the route of ui_role. *)

UserPost ==
    {<<[op |-> "user_exist", email |-> e, pwd |-> p]>> : e \in Emails, p \in Pwds}
    \cup {<<[op |-> "create_user", email |-> e, pwd |-> p]>> : e \in Emails, p \in Pwds}
    \cup {<<[op |-> "change_user_pwd", uid |-> u, pwd |-> p, newPwd |-> n]>> :
            u \in Uids, p \in Pwds, n \in Pwds}
    \cup {<<[op |-> "change_user_info", uid |-> u, desc |-> x]>> : u \in Uids, x \in Descs}
    \cup {<<[op |-> "count_user"], [op |-> "create_admin", pwd |-> p]>> : p \in Pwds}
    \cup {<<[op |-> o, uid |-> u, ip |-> i, desc |-> x]>> :
            o \in {"add_ip", "update_ip"}, u \in Uids, i \in Ips, x \in Descs}
UserGet == {<<[op |-> "delete_ip", uid |-> u, ip |-> i]>> : u \in Uids, i \in Ips}
AnalysisGet ==
    {<<[op |-> "rename_collection", name |-> db.coll[c].name, new |-> n]>> :
        c \in DOMAIN db.coll, n \in {<<"new">>} \cup {db.coll[x].name : x \in DOMAIN db.coll}}
    \cup {<<[op |-> "update_analysis_description", cid |-> c, desc |-> x]>> :
            c \in DOMAIN db.coll, x \in Descs}
TuningGet ==
    {<<[op |-> "rename_tuning", name |-> db.tune[t].name, new |-> n]>> :
        t \in DOMAIN db.tune, n \in {<<"new">>} \cup {db.tune[x].name : x \in DOMAIN db.tune}}
    \cup {<<[op |-> "update_tuning_description", tid |-> t, desc |-> x]>> :
            t \in DOMAIN db.tune, x \in Descs}
CommandGet ==
    {<<[op |-> "update_command_description", kid |-> k, desc |-> x]>> :
        k \in DOMAIN db.cmd, x \in Descs}

Routes(r) == CASE r = "user" -> UserPost \cup UserGet
               [] r = "runs" -> AnalysisGet \cup TuningGet \cup CommandGet

WebRequest(w) ==
    /\ web > 0 /\ Idle(Browser(w))
    /\ \E r \in work.routes : \E calls \in Routes(r) : Ask(Browser(w), calls, -1)
    /\ web' = web - 1
    /\ UNCHANGED <<db, work, an, tn, view>>

-----------------------------------------------------------------------------
(* The viewer of collection 1 polls get_analysis_data with the lines it    *)
(* was told to ask for next, while it is told that there is more.          *)

GetCollectionDataDirs(d, cid, csv) ==
    LET n == Cardinality(DataRounds(d.data, cid) \cap (csv + 1..csv + PageSize))
    IN  IF n = 0 THEN csv ELSE n        \* the length of the page, not csv + n

\* (mutation) the last line shown is shown again
FromLastLine(d, cid, log) == LogLines(d.alog, cid, Max({log - 1, 0}), log + PageSize)
GetAnalysisLogDirs(d, cid, log) == LogLines(d.alog, cid, log, log + PageSize)

Poll ==
    LET csv == GetCollectionDataDirs(db, 1, view.csv)
        page == GetAnalysisLogDirs(db, 1, view.log)
    IN  /\ view.more /\ 1 \in DOMAIN db.coll /\ db.data.header
        /\ view' = [csv |-> csv, log |-> view.log + Len(page), shown |-> view.shown \o page,
                    more |-> \/ view.csv < csv \/ page # <<>>
                             \/ db.coll[1].status = "running"]
        /\ UNCHANGED <<db, req, work, an, tn, web>>

-----------------------------------------------------------------------------
Init ==
    /\ work \in Workloads
    /\ \E known \in SUBSET work.ips :
          db = [ips |-> [k \in {<<1, i>> : i \in known} |-> [desc |-> NoText]],
                user |-> IF known = {} THEN Empty
                         ELSE InsertNewUser(Empty, 1, "first", "x", "user"),
                coll |-> Empty, cmd |-> Empty, tune |-> Empty, alog |-> Empty,
                data |-> NoData, tdata |-> Empty]
    /\ req = [c \in Clients |-> NoRequest]
    /\ an = [a \in Analyses |-> NewAnalysis]
    /\ tn = [t \in Tunings |-> -1]
    /\ web = work.requests
    /\ view = [csv |-> 0, log |-> 0, shown |-> <<>>, more |-> work.viewer]

Next ==
    \/ \E c \in Clients : OpenSession(c) \/ CommitSession(c)
    \/ \E a \in work.analyses : AnalysisStep(a) \/ AnalysisFails(a)
    \/ \E t \in Tunings : TuningPut(t)
    \/ \E w \in work.webs : WebRequest(w)
    \/ Poll

Spec == Init /\ [][Next]_vars

\* The engine runs the sessions and the daemon its two threads; but whether a
\* pipe whose reader returned can still be opened is not decided.
Unread(a) == an[a].handler = "open" /\ an[a].reader = "fail"
Fairness ==
    WF_vars(\/ \E c \in Clients : OpenSession(c) \/ CommitSession(c)
            \/ \E a \in work.analyses : ~Unread(a) /\ (AnalysisStep(a) \/ AnalysisFails(a)))
FairSpec == Spec /\ Fairness

-----------------------------------------------------------------------------
(* Types: ids are positive but that of the administrator, the rows of      *)
(* analysis_data and analysis_log belong to collections, and an open       *)
(* session is that of a request (tables.py, table_*.py).                   *)
TypeOK ==
    /\ DOMAIN db.coll \cup DOMAIN db.tune \cup DOMAIN db.cmd \subseteq Nat \ {0}
    /\ DOMAIN db.user \subseteq Nat
    /\ \A k \in DOMAIN db.ips : k[1] \in Nat /\ k[2] \in Ips
    /\ \A c \in DOMAIN db.coll :
         /\ db.coll[c].status \in {"running", "finished"}
         /\ db.coll[c].workload \in {Null, NoText, "w"} /\ db.coll[c].total \in Nat \cup {NoNumber}
    /\ \A k \in DOMAIN db.data.rows \cup DOMAIN db.alog :
         k[1] \in DOMAIN db.coll /\ k[2] \in Nat \ {0}
    /\ \A c \in Clients : Idle(c) => req[c].seen = <<>>

-----------------------------------------------------------------------------
(* Each analysis and each tuning recorded has exactly one command, and each *)
(* command its run: the two rows are of one transaction, which of two       *)
(* sessions that took the same id of either table only one may commit       *)
(* (add_new_collection, add_new_tuning).                                    *)
OneCommandPerRun ==
    /\ \A c \in DOMAIN db.coll : Cardinality(CommandOf(db.cmd, c, "analysis")) = 1
    /\ \A t \in DOMAIN db.tune : Cardinality(CommandOf(db.cmd, t, "tuning")) = 1
    /\ Cardinality(DOMAIN db.cmd) = Cardinality(DOMAIN db.coll) + Cardinality(DOMAIN db.tune)

(* The samples of a collection are of one analysis, that of its address, in *)
(* the order of its pipe and numbered from 1 on without a gap, and so are   *)
(* the rounds of a tuning, although ids and rounds are chosen by reading    *)
(* the largest first (add_collection_data, add_tuning_data).  A sample that *)
(* could not be stored is not claimed to be there.                          *)
RowsOfOneRun ==
    /\ \A k \in DOMAIN db.data.rows :
         /\ k[1] \in DOMAIN db.coll /\ db.coll[k[1]].ip = IpOf[db.data.rows[k][1]]
         /\ k[2] > 1 => /\ <<k[1], k[2] - 1>> \in DOMAIN db.data.rows
                        /\ db.data.rows[<<k[1], k[2] - 1>>][2] < db.data.rows[k][2]
    /\ \A p \in DOMAIN db.tdata : \A k, l \in DOMAIN db.tdata[p].rows :
         /\ db.tdata[p].rows[k][2] = k[2]
         /\ k[1] = l[1] => db.tdata[p].rows[k][1] = db.tdata[p].rows[l][1]

Settled(a) ==
    /\ Idle(Handler(a)) /\ Idle(Reader(a))
    /\ an[a].handler \in {"end", "fail"} \/ Unread(a)
    /\ an[a].reader \in {"open", "gone", "end", "fail"}

(* When the handler has ended well and storing a row did not fail, every    *)
(* collection of its samples is finished and its total_round is the number  *)
(* of its rows, whichever of the two sent the last "finished", whichever id *)
(* each of them had, and also when the goroutine never sent one because it  *)
(* saw the end of the pipe before subProcess was cleared (Analysis,         *)
(* change_collection_status).                                               *)
EndedIsExact ==
    \A a \in work.analyses :
        Settled(a) /\ an[a].handler = "end" /\ an[a].reader # "fail" =>
            \A c \in DOMAIN db.coll :
                db.coll[c].ip = IpOf[a] /\ DataRounds(db.data, c) # {} =>
                /\ db.coll[c].status = "finished"
                /\ db.coll[c].total = DataMaxRound(db.data, c)

(* A finished collection stays finished and its total_round never falls,    *)
(* although two threads send "finished" at the same time                    *)
(* (change_collection_status).                                              *)
TotalGrows ==
    [][\A c \in DOMAIN db.coll :
        /\ db'.coll[c].total >= db.coll[c].total
        /\ db.coll[c].status = "finished" => db'.coll[c].status = "finished"]_db

(* The lines of log a viewer is shown, poll after poll, are the log so far: *)
(* none is missed, repeated or out of order while the analysis writes       *)
(* (get_analysis_log_dirs).  get_line does not ask for an order: the model  *)
(* takes that of the insertions, which is that of the primary key too.      *)
LogReaderExact ==
    /\ view.log = Len(view.shown)
    /\ \A i \in 1..view.log : <<1, i>> \in DOMAIN db.alog /\ view.shown[i] = db.alog[<<1, i>>]

(* For every user and size of page, the pages of a list together are the    *)
(* runs of the user's addresses, each once, as many as the count said, and  *)
(* the lists without pages have the same ones (get_*_list, count_*_list).   *)
ListsAgree ==
    \A uid \in Uids \cup {0}, size \in 1..2 :
        LET Whole(ids, count, PageAt(_)) ==
                /\ count = Cardinality(ids)
                /\ \A id \in ids : Cardinality({n \in 1..count : id \in ToSet(PageAt(n))}) = 1
                /\ \A n \in 1..count : ToSet(PageAt(n)) \subseteq ids
            analysis == GetAllAnalysisList(db, uid)
            tuning == GetAllTuningList(db, uid)
            perIp == {IpInfoList(db, ip) : ip \in IpsByUid(db.ips, uid)}
        IN  /\ analysis = UNION {ToSet(i.analysis) : i \in perIp}
            /\ tuning = UNION {ToSet(i.tuning) : i \in perIp}
            /\ Whole(analysis, CountAnalysisList(db, uid),
                     LAMBDA n : GetAnalysisList(db, uid, n, size))
            /\ Whole(tuning, CountTuningList(db, uid),
                     LAMBDA n : GetTuningList(db, uid, n, size))
            /\ Whole(UNION ({CommandOf(db.cmd, c, "analysis") : c \in analysis}
                            \cup {CommandOf(db.cmd, t, "tuning") : t \in tuning}),
                     CountCommandList(db, uid),
                     LAMBDA n : GetCommandList(db, uid, n, size))

(* No two accounts have one email, although two sessions may both find it   *)
(* free, and the administrator is made once (create_user, create_admin).    *)
UniqueEmail ==
    /\ \A u, v \in DOMAIN db.user : db.user[u].email = db.user[v].email => u = v
    /\ \A u \in DOMAIN db.user : db.user[u].role = "admin" => u = 0

(* A tuning is marked finished only when its last round is in the table of  *)
(* its project; that the round is its own holds only for the one tuning of  *)
(* a project, since tunings of a project share the table                    *)
(* (change_tuning_status).                                                  *)
FinishedHasLastRound ==
    \A t \in DOMAIN db.tune : db.tune[t].status = "finished" =>
        \E p \in DOMAIN db.tdata : \E k \in DOMAIN db.tdata[p].rows :
            k[2] = db.tune[t].total /\ (Cardinality(work.tunings) = 1 => k[1] = t)

(* The handler of an analysis never waits for ever, but when its goroutine  *)
(* returned with an error and there is one more pass, and the samples of    *)
(* the first pass, if it is the only one and none failed, are all sent.     *)
(* The goroutine returns too, or stays in OpenFile for ever, which the code *)
(* does not exclude (Analysis).                                             *)
AnalysisEnds ==
    <>(\A a \in work.analyses :
        /\ Settled(a)
        /\ an[a].pass = 1 /\ an[a].reader # "fail" => an[a].read = an[a].made)

=============================================================================
