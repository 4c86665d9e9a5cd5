----------------------------- MODULE UiTriggers -----------------------------
(***************************************************************************)
(* The triggers of the web UI database: each opens a session, reads,       *)
(* writes and commits (src/analysis/ui/database/trigger_*.py).  s is the   *)
(* database the session has read, d the database when it commits: another  *)
(* session may commit in between.  A violated constraint is the            *)
(* SQLAlchemyError at which everything written is rolled back.             *)
(*                                                                         *)
(* A trigger gets the request q and gives the database it leaves, the id   *)
(* or flag it returns (val), and whether it ended with an exception no     *)
(* handler catches (err), which the client sees as HTTP status 500.        *)
(***************************************************************************)
EXTENDS UiTables

Reply(d, val) == [db |-> d, val |-> val, err |-> FALSE]
Raise(d) == [db |-> d, val |-> NoNumber, err |-> TRUE]
\* Rolled back when the condition on the constraints does not hold.
Commit(ok, d, new, val, failed) == IF ok THEN Reply(new, val) ELSE Reply(d, failed)

-----------------------------------------------------------------------------
(* trigger_analysis                                                        *)

\* (mutation) the collection is committed before its command
NoTransaction(s, d, q) ==
    LET cid == CollectionMaxCid(s.coll) + 1
        kid == CommandMaxCid(s.cmd) + 1
        row == InsertNewCollection(d.coll, cid, q.ip, q.time)
    IN  IF cid \in DOMAIN d.coll THEN Reply(d, -1)
        ELSE IF kid \in DOMAIN d.cmd THEN Reply([d EXCEPT !.coll = row], -1)
        ELSE Reply([d EXCEPT !.coll = row, !.data.made = TRUE, !.data.header = TRUE,
                             !.cmd = InsertNewCommand(@, kid, cid, "analysis",
                                                      <<q.time>>, q.ip)], cid)

\* (mutation) a session that was rolled back answers the id it tried
IdAnyway(s, d, q) ==
    LET cid == CollectionMaxCid(s.coll) + 1
        kid == CommandMaxCid(s.cmd) + 1
    IN  Commit(cid \notin DOMAIN d.coll /\ kid \notin DOMAIN d.cmd, d,
               [d EXCEPT !.data.made = TRUE, !.data.header = TRUE,
                         !.coll = InsertNewCollection(@, cid, q.ip, q.time),
                         !.cmd = InsertNewCommand(@, kid, cid, "analysis", <<q.time>>, q.ip)],
               cid, cid)

AddNewCollection(s, d, q) ==
    LET known == FindIp(s.ips, q.ip)
        cid == CollectionMaxCid(s.coll) + 1
        kid == CommandMaxCid(s.cmd) + 1
    IN  Commit(/\ known \/ (<<0, q.ip>> \notin DOMAIN d.ips /\ ~d.data.header)
               /\ cid \notin DOMAIN d.coll
               /\ kid \notin DOMAIN d.cmd,
               d,
               [d EXCEPT !.ips = IF known THEN @ ELSE InsertIpByUser(@, q.ip, 0, NoText),
                         !.data = IF known THEN @ ELSE InitialTable(@),
                         !.coll = InsertNewCollection(@, cid, q.ip, q.time),
                         !.cmd = InsertNewCommand(@, kid, cid, "analysis", <<q.time>>, q.ip)],
               cid, -1)

\* The table, if the session had to make it, has no column of q.cols yet and
\* the session inserts the header row; a table whose header row was rolled back
\* raises IndexError at the first column looked for.
AddCollectionData(s, d, q) ==
    LET fresh == ~s.data.made
        round == DataMaxRound(s.data, q.cid) + 1
        added == q.cols \ s.data.cols
        headed == IF fresh THEN InitialTable(d.data) ELSE d.data
    IN  IF ~fresh /\ ~s.data.header THEN Raise(d)
        ELSE Commit(/\ ~(fresh /\ d.data.header)
                    /\ added \cap d.data.cols = {}
                    /\ <<q.cid, round>> \notin DOMAIN d.data.rows,
                    d,
                    [d EXCEPT !.data = InsertData(InsertNewColumn(headed, added),
                                                  q.cid, round, q.sample)],
                    q.cid, q.cid)

AddAnalysisLog(s, d, q) ==
    LET round == LogMaxRound(s.alog, q.cid) + 1
    IN  Commit(<<q.cid, round>> \notin DOMAIN d.alog, d,
               [d EXCEPT !.alog = InsertLog(@, q.cid, round, q.line)], q.cid, q.cid)

\* (mutation) a finished collection starts again
SetRunning(s, d, q) ==
    Reply([d EXCEPT !.coll = UpdateTotalRound(
                               UpdateCollectionStatus(@, q.cid,
                                 IF Scalar(@, {q.cid} \cap DOMAIN @, "status", Null) = q.status
                                 THEN "running" ELSE q.status),
                               q.cid, DataMaxRound(d.data, q.cid))], q.cid)

\* The rounds are counted after the update of the status has locked the row of
\* the collection, so what a second session counts it counts after this one.
\* For a log the column total_log does not exist: everything is rolled back.
ChangeCollectionStatus(s, d, q) ==
    LET running == Scalar(d.cmd, CommandsMapped(d.cmd, q.cid), "status", Null) # q.status
    IN  Commit(q.type = "csv", d,
               [d EXCEPT !.coll = UpdateTotalRound(
                                    UpdateCollectionStatus(@, q.cid, q.status),
                                    q.cid, DataMaxRound(d.data, q.cid)),
                         !.cmd = IF running THEN UpdateCommandStatus(@, q.cid, q.status)
                                            ELSE @],
               q.cid, q.cid)

ChangeCollectionInfo(s, d, q) ==
    LET name == <<q.workload>> \o Scalar(s.coll, DOMAIN s.coll \cap {q.cid}, "name", <<>>)
    IN  IF q.cid \notin DOMAIN s.coll THEN Raise(d)
        ELSE IF s.coll[q.cid].workload \notin {Null, NoText} THEN Reply(d, q.cid)
        ELSE Reply([d EXCEPT
                !.cmd = UpdateNameById(@, q.cid, name),
                !.coll = LET named == UpdateNameOfCollection(@, q.cid, name)
                         IN  IF q.workload = "csv_convert" THEN named
                             ELSE UpdateWorkload(named, q.cid, q.workload)], q.cid)

RenameCollection(s, d, q) ==
    Commit(/\ CollectionNamed(s.coll, q.name) # {}
           /\ CollectionNamed(s.coll, q.new) = {},
           d, [d EXCEPT !.coll = UpdateCollectionName(@, q.name, q.new)], 1, 0)

UpdateAnalysisDescription(s, d, q) ==
    Reply([d EXCEPT !.coll = UpdateCollectionDescription(@, q.cid, q.desc),
                    !.cmd = UpdateCommandDesc(@, CommandOf(s.cmd, q.cid, "analysis"), q.desc)],
          1)

-----------------------------------------------------------------------------
(* trigger_tuning.  Table tuning_<project> is db.tdata[project].           *)

AddNewTuning(s, d, q) ==
    LET known == FindIp(s.ips, q.ip)
        tid == TuningMaxTid(s.tune) + 1
        kid == CommandMaxCid(s.cmd) + 1
    IN  Commit(/\ known \/ <<0, q.ip>> \notin DOMAIN d.ips
               /\ tid \notin DOMAIN d.tune
               /\ kid \notin DOMAIN d.cmd,
               d,
               [d EXCEPT !.ips = IF known THEN @ ELSE InsertIpByUser(@, q.ip, 0, NoText),
                         !.tune = InsertNewTuning(@, tid, q.name, q.rounds, q.ip),
                         !.cmd = InsertNewCommand(@, kid, tid, "tuning", q.name, q.ip)],
               tid, -1)

ChangeTuningBaseline(s, d, q) ==
    Reply([d EXCEPT !.tune = UpdateBaseline(@, q.name, q.base)], 1)

CreateTuningDataTable(s, d, q) ==
    Commit(q.project \notin DOMAIN s.tdata /\ ~d.tdata[q.project].header, d,
           [d EXCEPT !.tdata[q.project].header = TRUE], 1, 0)

\* Every column is taken to exist (exist_tuning_column), so that the row goes in
\* if its parameters are those of the table; a name that is gone gives tuning
\* 'None', which is no number.
AddTuningData(s, d, q) ==
    LET tid == Scalar([k \in DOMAIN s.tune |-> [id |-> k]],
                      TuningNamed(s.tune, q.name), "id", NoNumber)
    IN  Commit(/\ tid # NoNumber
               /\ q.project \in DOMAIN d.tdata
               /\ q.params = d.tdata[q.project].params
               /\ <<tid, q.round>> \notin DOMAIN d.tdata[q.project].rows,
               d,
               [d EXCEPT !.tdata[q.project] = InsertTuningRow(@, tid, q.round, q.row)],
               1, NoNumber)

\* (mutation) finished one round early
OneRoundEarly(s, d, q) ==
    LET total == Scalar(s.tune, TuningNamed(s.tune, q.name), "total", NoNumber)
    IN  Commit(total <= TableMaxRound(s.tdata[q.project]) + 1, d,
               [d EXCEPT !.tune = UpdateTuningStatus(@, q.name, "finished")], 1, 1)

\* The last round is that of the whole table, which all tunings of a project share.
ChangeTuningStatus(s, d, q) ==
    LET total == Scalar(s.tune, TuningNamed(s.tune, q.name), "total", NoNumber)
    IN  Commit(total # NoNumber /\ total = TableMaxRound(s.tdata[q.project]), d,
               [d EXCEPT !.tune = UpdateTuningStatus(@, q.name, "finished"),
                         !.cmd = UpdateStatusByName(@, q.name, "finished")], 1, 1)

RenameTuning(s, d, q) ==
    Commit(TuningNamed(s.tune, q.name) # {} /\ TuningNamed(s.tune, q.new) = {}, d,
           [d EXCEPT !.tune = UpdateTuningName(@, q.name, q.new)], 1, 0)

UpdateTuningDesc(s, d, q) ==
    Reply([d EXCEPT !.tune = UpdateTuningDescription(@, q.tid, q.desc),
                    !.cmd = UpdateCommandDesc(@, CommandOf(s.cmd, q.tid, "tuning"), q.desc)],
          1)

-----------------------------------------------------------------------------
(* trigger_command.  The test type == 'analysis' is of the builtin type, so  *)
(* the description always goes to the tuning with the id.                    *)

UpdateCommandDescription(s, d, q) ==
    LET mid == Scalar(d.cmd, DOMAIN d.cmd \cap {q.kid}, "mid", NoNumber)
    IN  Reply([d EXCEPT !.cmd = UpdateCommandDesc(@, {q.kid}, q.desc),
                        !.tune = UpdateTuningDescription(@, mid, q.desc)], 1)

-----------------------------------------------------------------------------
(* trigger_user                                                            *)

UserExist(s, d, q) ==
    LET uids == UserWithEmail(s.user, q.email)
    IN  Reply(d, IF Scalar(s.user, uids, "pwd", Null) = q.pwd THEN Min(uids) ELSE -1)

CreateUser(s, d, q) ==
    LET uid == IF s.user = Empty THEN 1 ELSE UserMaxUid(s.user) + 1
    IN  Commit(UserWithEmail(s.user, q.email) = {} /\ UserKeyFree(d.user, uid, q.email), d,
               [d EXCEPT !.user = InsertNewUser(@, uid, q.email, q.pwd, "user")], uid, -1)

CreateAdmin(s, d, q) ==
    Commit(UserKeyFree(d.user, 0, "admin@openeuler.org"), d,
           [d EXCEPT !.user = InsertNewUser(@, 0, "admin@openeuler.org", q.pwd, "admin")], 1, 0)

\* count_user counts by the largest id; createAdmin of ui_user asks it in a
\* session of its own before create_admin.
CountUser(s, d, q) == Reply(d, IF s.user = Empty THEN 0 ELSE UserMaxUid(s.user) + 1)

ChangeUserPwd(s, d, q) ==
    Commit(Scalar(s.user, DOMAIN s.user \cap {q.uid}, "pwd", Null) = q.pwd, d,
           [d EXCEPT !.user = UpdatePassword(@, q.uid, q.newPwd)], 1, 0)

ChangeUserInfo(s, d, q) ==
    Reply([d EXCEPT !.user = UpdateUserBasicInfo(@, q.uid, q.desc)], 1)

AddIp(s, d, q) ==
    Commit(~CheckExistByIp(s.ips, q.ip, q.uid) /\ ~CheckExistByIp(d.ips, q.ip, q.uid), d,
           [d EXCEPT !.ips = InsertIpByUser(@, q.ip, q.uid, q.desc)], 1, 0)
UpdateIp(s, d, q) ==
    Reply([d EXCEPT !.ips = UpdateIpByUser(@, q.ip, q.uid, q.desc)], 1)
DeleteIp(s, d, q) ==
    Commit(CheckExistByIp(s.ips, q.ip, q.uid), d,
           [d EXCEPT !.ips = DeleteIpByUser(@, q.ip, q.uid)], 1, 0)

-----------------------------------------------------------------------------
(* The lists of the pages, which only read: ids, newest first              *)

CountAnalysisList(d, uid) ==
    MapThenSumSet(LAMBDA ip : CountCollections(d.coll, ip), IpsByUid(d.ips, uid))
GetAnalysisList(d, uid, num, size) ==
    CollectionPage(d.coll, IpsByUid(d.ips, uid), num, size)
CountTuningList(d, uid) ==
    MapThenSumSet(LAMBDA ip : CountTunings(d.tune, ip), IpsByUid(d.ips, uid))
GetTuningList(d, uid, num, size) ==
    TuningPage(d.tune, IpsByUid(d.ips, uid), num, size)
CountCommandList(d, uid) ==
    MapThenSumSet(LAMBDA ip : CountCommands(d.cmd, ip), IpsByUid(d.ips, uid))
GetCommandList(d, uid, num, size) ==
    CommandPage(d.cmd, IpsByUid(d.ips, uid), num, size)
IpInfoList(d, ip) == [tuning |-> TuningsOfIp(d.tune, ip),
                      analysis |-> CollectionsOfIp(d.coll, ip)]
GetAllAnalysisList(d, uid) ==
    UNION {ToSet(CollectionsOfIp(d.coll, ip)) : ip \in IpsByUid(d.ips, uid)}
GetAllTuningList(d, uid) ==
    UNION {ToSet(TuningsOfIp(d.tune, ip)) : ip \in IpsByUid(d.ips, uid)}
=============================================================================
