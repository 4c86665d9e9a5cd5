------------------------------ MODULE UiTables ------------------------------
(***************************************************************************)
(* The tables of the web UI database (src/analysis/ui/database/table_*.py) *)
(* and the queries on them.  A table is a function from its primary key to *)
(* a row, so that an insert fails exactly when the key is taken; an update *)
(* changes one column of the rows its WHERE clause selects.                *)
(***************************************************************************)
EXTENDS Integers, Sequences, FiniteSets, FiniteSetsExt, SequencesExt

CONSTANT PageSize       \* lines of one page of a viewer (10 in the code)
ASSUME PageSizeAssumption == PageSize \in Nat \ {0}

Null == "NULL"          \* a column of text without a value
NoText == ""            \* an empty text
NoNumber == -1          \* a column of numbers without a value

Empty == [k \in {} |-> Null]
Insert(t, k, row) == [x \in DOMAIN t \cup {k} |-> IF x = k THEN row ELSE t[x]]
Where(t, P(_)) == {k \in DOMAIN t : P(t[k])}
Update(t, keys, column, value) ==
    [k \in DOMAIN t |-> IF k \in keys THEN [t[k] EXCEPT ![column] = value] ELSE t[k]]
\* scalar(): the column of the first row selected, or the default for None.
Scalar(t, keys, column, none) == IF keys = {} THEN none ELSE t[Min(keys)][column]
MaxOf(ids) == IF ids = {} THEN 0 ELSE Max(ids)
Nth(ids, n) == CHOOSE i \in ids : Cardinality({j \in ids : j < i}) = n - 1
Newest(ids) == [n \in 1..Cardinality(ids) |-> Nth(ids, Cardinality(ids) + 1 - n)]
\* (mutation) the offset of a page is taken for that of its last line
OffsetOne(rows, num, size) ==
    SubSeq(rows, num * size, Min({(num + 1) * size - 1, Len(rows)}))
PageOf(rows, num, size) ==
    SubSeq(rows, (num - 1) * size + 1, Min({num * size, Len(rows)}))

-----------------------------------------------------------------------------
(* ip_addrs: <<user, ip>> -> description                                   *)

FindIp(ips, ip) == \E k \in DOMAIN ips : k[2] = ip
CheckExistByIp(ips, ip, uid) == <<uid, ip>> \in DOMAIN ips
InsertIpByUser(ips, ip, uid, desc) == Insert(ips, <<uid, ip>>, [desc |-> desc])
UpdateIpByUser(ips, ip, uid, desc) == Update(ips, {<<uid, ip>>}, "desc", desc)
DeleteIpByUser(ips, ip, uid) == [k \in DOMAIN ips \ {<<uid, ip>>} |-> ips[k]]
IpsByUid(ips, uid) == {k[2] : k \in {x \in DOMAIN ips : x[1] = uid}}

-----------------------------------------------------------------------------
(* collection_table: id -> row.  A name is the list of the workloads put   *)
(* before the time of the start, "w-1656000000" being <<w, time>>.         *)

InsertNewCollection(coll, cid, ip, time) ==
    Insert(coll, cid, [name |-> <<time>>, status |-> "running", ip |-> ip,
                       workload |-> Null, total |-> NoNumber, desc |-> NoText])
CollectionNamed(coll, name) == Where(coll, LAMBDA r : r.name = name)
\* (mutation) the largest id of an empty table is not taken as 0
MaxCidAsRead(coll) == IF coll = Empty THEN NoNumber ELSE Max(DOMAIN coll)
CollectionMaxCid(coll) == MaxOf(DOMAIN coll)
CollectionsOfIp(coll, ip) == Newest(Where(coll, LAMBDA r : r.ip = ip))
CollectionPage(coll, ips, num, size) ==
    PageOf(Newest(Where(coll, LAMBDA r : r.ip \in ips)), num, size)
CountCollections(coll, ip) == Cardinality(Where(coll, LAMBDA r : r.ip = ip))
UpdateCollectionStatus(coll, cid, status) == Update(coll, {cid}, "status", status)
UpdateTotalRound(coll, cid, rounds) == Update(coll, {cid}, "total", rounds)
UpdateCollectionName(coll, name, new) ==
    Update(coll, CollectionNamed(coll, name), "name", new)
UpdateNameOfCollection(coll, cid, name) == Update(coll, {cid}, "name", name)
UpdateWorkload(coll, cid, workload) == Update(coll, {cid}, "workload", workload)
UpdateCollectionDescription(coll, cid, desc) == Update(coll, {cid}, "desc", desc)

-----------------------------------------------------------------------------
(* command_table: id -> row, one for each analysis and each tuning         *)

InsertNewCommand(cmd, kid, mid, type, name, ip) ==
    Insert(cmd, kid, [mid |-> mid, type |-> type, name |-> name,
                      status |-> "running", ip |-> ip, desc |-> NoText])
CommandMaxCid(cmd) == MaxOf(DOMAIN cmd)
\* update_status and update_name_by_id select by the mapped id alone, so the
\* command of the tuning with the same id is changed too.
CommandsMapped(cmd, mid) == Where(cmd, LAMBDA r : r.mid = mid)
CommandOf(cmd, mid, type) ==
    Where(cmd, LAMBDA r : r.mid = mid /\ r.type = type)
UpdateCommandStatus(cmd, mid, status) ==
    Update(cmd, CommandsMapped(cmd, mid), "status", status)
UpdateStatusByName(cmd, name, status) ==
    Update(cmd, Where(cmd, LAMBDA r : r.name = name), "status", status)
UpdateNameById(cmd, mid, name) == Update(cmd, CommandsMapped(cmd, mid), "name", name)
UpdateCommandDesc(cmd, kids, desc) == Update(cmd, kids, "desc", desc)
CommandPage(cmd, ips, num, size) ==
    PageOf(Newest(Where(cmd, LAMBDA r : r.ip \in ips)), num, size)
CountCommands(cmd, ip) == Cardinality(Where(cmd, LAMBDA r : r.ip = ip))

-----------------------------------------------------------------------------
(* tuning_table: id -> row                                                 *)

InsertNewTuning(tune, tid, name, rounds, ip) ==
    Insert(tune, tid, [name |-> name, status |-> "running", ip |-> ip,
                       total |-> rounds, base |-> NoNumber, desc |-> NoText])
TuningNamed(tune, name) == Where(tune, LAMBDA r : r.name = name)
TuningMaxTid(tune) == MaxOf(DOMAIN tune)
TuningsOfIp(tune, ip) == Newest(Where(tune, LAMBDA r : r.ip = ip))
TuningPage(tune, ips, num, size) ==
    PageOf(Newest(Where(tune, LAMBDA r : r.ip \in ips)), num, size)
CountTunings(tune, ip) == Cardinality(Where(tune, LAMBDA r : r.ip = ip))
UpdateBaseline(tune, name, base) == Update(tune, TuningNamed(tune, name), "base", base)
UpdateTuningStatus(tune, name, status) ==
    Update(tune, TuningNamed(tune, name), "status", status)
UpdateTuningName(tune, name, new) == Update(tune, TuningNamed(tune, name), "name", new)
UpdateTuningDescription(tune, tid, desc) == Update(tune, {tid}, "desc", desc)

-----------------------------------------------------------------------------
(* user_account: id -> row; the email is unique                            *)

UserWithEmail(user, email) == Where(user, LAMBDA r : r.email = email)
UserMaxUid(user) == IF user = Empty THEN NoNumber ELSE Max(DOMAIN user)
\* (mutation) the email is not unique in the table
OnlyIdFree(user, uid, email) == uid \notin DOMAIN user
UserKeyFree(user, uid, email) ==
    uid \notin DOMAIN user /\ UserWithEmail(user, email) = {}
InsertNewUser(user, uid, email, pwd, role) ==
    Insert(user, uid, [email |-> email, pwd |-> pwd, desc |-> Null, role |-> role])
UpdatePassword(user, uid, pwd) == Update(user, {uid}, "pwd", pwd)
UpdateUserBasicInfo(user, uid, desc) == Update(user, {uid}, "desc", desc)

-----------------------------------------------------------------------------
(* analysis_log: <<analysis, round>> -> line                               *)

LogMaxRound(alog, aid) == MaxOf({k[2] : k \in {x \in DOMAIN alog : x[1] = aid}})
InsertLog(alog, aid, round, line) == Insert(alog, <<aid, round>>, line)
LogLines(alog, aid, from, to) ==
    LET rounds == {k[2] : k \in {x \in DOMAIN alog : x[1] = aid /\ x[2] \in from + 1..to}}
    IN  [i \in 1..Cardinality(rounds) |-> alog[<<aid, Nth(rounds, i)>>]]

-----------------------------------------------------------------------------
(* analysis_data, the one table of the samples of all analyses: whether it *)
(* exists, whether its header row (-1, -1) is there, its columns, and      *)
(* <<collection, round>> -> sample.                                        *)

NoData == [made |-> FALSE, header |-> FALSE, cols |-> {}, rows |-> Empty]
InitialTable(data) == [data EXCEPT !.header = TRUE]
DataRounds(data, cid) == {k[2] : k \in {x \in DOMAIN data.rows : x[1] = cid}}
DataMaxRound(data, cid) == MaxOf(DataRounds(data, cid))
InsertNewColumn(data, cols) == [data EXCEPT !.cols = @ \cup cols]
InsertData(data, cid, round, sample) ==
    [data EXCEPT !.rows = Insert(@, <<cid, round>>, sample)]

-----------------------------------------------------------------------------
(* tuning_<project>: the parameters its columns are made for, the header   *)
(* row, and <<tuning, round>> -> evaluation.                               *)

TuningTable(params) == [params |-> params, header |-> FALSE, rows |-> Empty]
TableMaxRound(table) == MaxOf({k[2] : k \in DOMAIN table.rows})
InsertTuningRow(table, tid, round, row) ==
    [table EXCEPT !.rows = Insert(@, <<tid, round>>, row)]
=============================================================================
