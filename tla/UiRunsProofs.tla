---------------------------- MODULE UiRunsProofs ----------------------------
(***************************************************************************)
(* Theorems about the rows of analyses and tunings in the web UI database: *)
(* each run has its own, in order and complete when it has ended, and the  *)
(* lists and their pages show a user's runs, each once.                    *)
(***************************************************************************)
EXTENDS UiDatabaseProofs

-----------------------------------------------------------------------------
(* The rows of an analysis                                                 *)

\* The collections an analysis knows of.
Held(a) == {an[a].cid, an[a].sid, req[Handler(a)].id, req[Reader(a)].id} \ {-1}
HeldOK ==
  /\ \A a \in Analyses : \A id \in Held(a) : db.coll[id].ip = IpOf[a]
  /\ \A a, b \in Analyses : a # b => Held(a) \cap Held(b) = {}

\* A sample under way is the last one the goroutine has read.
CallsOK(a, c) ==
  \A i \in 1 .. Len(req[c].calls) :
    LET q == req[c].calls[i]
    IN  /\ q.op = "add_new_collection" => q.ip = IpOf[a]
        /\ q.op = "add_collection_data" =>
             /\ c = Reader(a) /\ i = Len(req[c].calls)
             /\ q.sample = <<a, an[a].read>> /\ an[a].reader = "sent"
OwnCalls == \A a \in Analyses : CallsOK(a, Handler(a)) /\ CallsOK(a, Reader(a))

\* The rounds of a collection are numbered from 1 on, in the order of the samples.
RowsOK(rows, coll) ==
  \A k \in DOMAIN rows :
    /\ rows[k] \in Lines /\ coll[k[1]].ip = IpOf[rows[k][1]]
    /\ \A i \in 1 .. k[2] : <<k[1], i>> \in DOMAIN rows
    /\ k[2] > 1 => rows[<<k[1], k[2] - 1>>][2] < rows[k][2]

\* The rows of an analysis are those of the samples it has sent.
Adding(a) == \E i \in 1 .. Len(req[Reader(a)].calls) :
               req[Reader(a)].calls[i].op = "add_collection_data"
RowsHeld ==
  \A a \in Analyses : \A k \in DOMAIN db.data.rows : k[1] \in Held(a) =>
    IF Adding(a) THEN db.data.rows[k][2] < an[a].read ELSE db.data.rows[k][2] <= an[a].read

\* What a session has read of the rows is still there.
SeenRows ==
  \A c \in Clients : req[c].seen # <<>> =>
    DOMAIN req[c].seen[1].data.rows \subseteq DOMAIN db.data.rows

RowsInv == HeldOK /\ OwnCalls /\ RowsOK(db.data.rows, db.coll) /\ RowsHeld /\ SeenRows

-----------------------------------------------------------------------------
(* The end of an analysis                                                  *)

\* The collections with samples of an analysis.
Mine(a, c) == /\ c \in DOMAIN db.coll /\ db.coll[c].ip = IpOf[a]
              /\ DataRounds(db.data, c) # {}
Done(c) == /\ db.coll[c].status = "finished"
           /\ db.coll[c].total = DataMaxRound(db.data, c)
\* Client x is about to finish collection c.
Pending(x, c) == /\ req[x].calls # <<>> /\ req[x].id = c
                 /\ Head(req[x].calls).op = "change_collection_status"
                 /\ Head(req[x].calls).type = "csv"
HandlerOK(a, c) ==
  /\ an[a].handler = "finish" => Pending(Handler(a), c) \/ Done(c)
  /\ an[a].handler \in {"log", "end"} => Done(c)

\* The one collection of the samples is the one the goroutine has the id of.  If
\* the goroutine does not send the last message, the handler has that id too.
MineOK(a, c) ==
  \/ an[a].reader = "fail"
  \/ /\ an[a].reader = "sent"
     /\ req[Reader(a)].id = c \/ (req[Reader(a)].err /\ Idle(Reader(a)))
  \/ an[a].reader = "read" /\ an[a].cid = c
  \/ an[a].reader \in {"again", "open", "gone"} /\ an[a].cid = c /\ HandlerOK(a, c)
  \/ an[a].reader = "last" /\ an[a].cid = c /\ (Pending(Reader(a), c) \/ Done(c))
  \/ an[a].reader = "end" /\ Done(c)
\* A goroutine with an id asks for no other.
FreshOK(a) ==
  \A i \in 1 .. Len(req[Reader(a)].calls) :
    req[Reader(a)].calls[i].op = "add_new_collection" => i = 1 /\ req[Reader(a)].id = -1
PipeOK(a) == an[a].handler \in {"classify", "finish", "log", "end"} => ~an[a].sub
EndOK(a) == PipeOK(a) /\ FreshOK(a) /\ \A c : Mine(a, c) => MineOK(a, c)
EndInv == \A a \in Analyses : EndOK(a)

\* Each analysis has a daemon of its own.
Separate == \A a, b \in Analyses : IpOf[a] = IpOf[b] => a = b

-----------------------------------------------------------------------------
(* The rounds of a tuning                                                  *)

Renames == work.webs # {} /\ "runs" \in work.routes

\* The calls of the tunings: a row goes with the name of its tuning, and the
\* status is asked for after a row of the same table.
TuneCallsOK(c) ==
  \A i \in 1 .. Len(req[c].calls) :
    LET q == req[c].calls[i]
    IN  /\ q.op = "rename_tuning" => Renames
        /\ q.op = "add_new_tuning" => /\ \E t \in work.tunings : c = Tuner(t)
                                      /\ Len(req[c].calls) = 1
        /\ q.op = "add_tuning_data" => q.name \in work.tunings /\ q.row = <<q.name, q.round>>
        /\ q.op = "change_tuning_status" =>
             IF i = 1 THEN q.project \in DOMAIN db.tdata
             ELSE /\ i = 2 /\ req[c].calls[1].op = "add_tuning_data"
                  /\ req[c].calls[1].project = q.project

\* The rows of a table are of the tunings they are recorded for.
TableOK(table, tune) ==
  /\ DOMAIN table = {"params", "header", "rows"}
  /\ \E n \in Nat : \A k \in DOMAIN table.rows : k[2] \in Nat /\ k[2] <= n
  /\ \A k \in DOMAIN table.rows :
       /\ table.rows[k] = <<table.rows[k][1], k[2]>> /\ table.rows[k][1] \in work.tunings
       /\ k[1] \in DOMAIN tune
       /\ Renames \/ tune[k[1]].name = table.rows[k][1]
LastRound(d) == \E p \in DOMAIN d.tdata : \E k \in DOMAIN d.tdata[p].rows : k[2] = Rounds
TablesOK(d) ==
  /\ \A p \in DOMAIN d.tdata : TableOK(d.tdata[p], d.tune)
  /\ \A t \in DOMAIN d.tune : d.tune[t].status = "finished" => LastRound(d)

\* A tuning alone is recorded once.
Adds(t) == \E i \in 1 .. Len(req[Tuner(t)].calls) :
             req[Tuner(t)].calls[i].op = "add_new_tuning"
OneTuning ==
  \A t \in work.tunings : work.tunings = {t} =>
    /\ Adds(t) => tn[t] >= 0
    /\ tn[t] = -1 \/ Adds(t) => DOMAIN db.tune = {}
    /\ \A x, y \in DOMAIN db.tune : x = y

TableInv == (\A c \in Clients : TuneCallsOK(c)) /\ TablesOK(db) /\ OneTuning

-----------------------------------------------------------------------------
(* What the triggers leave alone                                           *)

LEMMA Untouched ==
  ASSUME NEW q, Request(q), NEW s, NEW d, DOMAIN d = Fields
  PROVE  LET e == Run(q, s, d).db
         IN  /\ q.op \notin {"add_new_collection", "add_collection_data"} => e.data = d.data
             /\ q.op \notin {"add_new_collection", "change_collection_status",
                             "change_collection_info", "rename_collection",
                             "update_analysis_description"} => e.coll = d.coll
             /\ q.op \notin {"create_tuning_data_table", "add_tuning_data"} =>
                  e.tdata = d.tdata
             /\ q.op \notin {"add_new_tuning", "change_tuning_baseline",
                             "change_tuning_status", "rename_tuning",
                             "update_tuning_description", "update_command_description"} =>
                  e.tune = d.tune
             /\ q.op \notin {"add_new_collection", "change_collection_status",
                             "change_collection_info", "update_analysis_description",
                             "add_new_tuning", "change_tuning_status",
                             "update_tuning_description", "update_command_description"} =>
                  e.cmd = d.cmd
             /\ q.op \notin {"add_new_collection", "add_new_tuning", "add_ip", "update_ip",
                             "delete_ip"} => e.ips = d.ips
<1>1. CASE q.op = "add_new_collection"
  BY <1>1 DEF Run, AddNewCollection, Commit, Reply, Raise, Fields
<1>2. CASE q.op = "add_collection_data"
  BY <1>2 DEF Run, AddCollectionData, Commit, Reply, Raise, Fields
<1>3. CASE q.op = "add_analysis_log"
  BY <1>3 DEF Run, AddAnalysisLog, Commit, Reply, Raise, Fields
<1>4. CASE q.op = "change_collection_status"
  BY <1>4 DEF Run, ChangeCollectionStatus, Commit, Reply, Raise, Fields
<1>5. CASE q.op = "change_collection_info"
  BY <1>5 DEF Run, ChangeCollectionInfo, Commit, Reply, Raise, Fields
<1>6. CASE q.op = "rename_collection"
  BY <1>6 DEF Run, RenameCollection, Commit, Reply, Raise, Fields
<1>7. CASE q.op = "update_analysis_description"
  BY <1>7 DEF Run, UpdateAnalysisDescription, Commit, Reply, Raise, Fields
<1>8. CASE q.op = "add_new_tuning"
  BY <1>8 DEF Run, AddNewTuning, Commit, Reply, Raise, Fields
<1>9. CASE q.op = "change_tuning_baseline"
  BY <1>9 DEF Run, ChangeTuningBaseline, Commit, Reply, Raise, Fields
<1>10. CASE q.op = "create_tuning_data_table"
  BY <1>10 DEF Run, CreateTuningDataTable, Commit, Reply, Raise, Fields
<1>11. CASE q.op = "add_tuning_data"
  BY <1>11 DEF Run, AddTuningData, Commit, Reply, Raise, Fields
<1>12. CASE q.op = "change_tuning_status"
  BY <1>12 DEF Run, ChangeTuningStatus, Commit, Reply, Raise, Fields
<1>13. CASE q.op = "rename_tuning"
  BY <1>13 DEF Run, RenameTuning, Commit, Reply, Raise, Fields
<1>14. CASE q.op = "update_tuning_description"
  BY <1>14 DEF Run, UpdateTuningDesc, Commit, Reply, Raise, Fields
<1>15. CASE q.op = "update_command_description"
  BY <1>15 DEF Run, UpdateCommandDescription, Commit, Reply, Raise, Fields
<1>16. CASE q.op = "user_exist"
  BY <1>16 DEF Run, UserExist, Commit, Reply, Raise, Fields
<1>17. CASE q.op = "create_user"
  BY <1>17 DEF Run, CreateUser, Commit, Reply, Raise, Fields
<1>18. CASE q.op = "create_admin"
  BY <1>18 DEF Run, CreateAdmin, Commit, Reply, Raise, Fields
<1>19. CASE q.op = "count_user"
  BY <1>19 DEF Run, CountUser, Commit, Reply, Raise, Fields
<1>20. CASE q.op = "change_user_pwd"
  BY <1>20 DEF Run, ChangeUserPwd, Commit, Reply, Raise, Fields
<1>21. CASE q.op = "change_user_info"
  BY <1>21 DEF Run, ChangeUserInfo, Commit, Reply, Raise, Fields
<1>22. CASE q.op = "add_ip"
  BY <1>22 DEF Run, AddIp, Commit, Reply, Raise, Fields
<1>23. CASE q.op = "update_ip"
  BY <1>23 DEF Run, UpdateIp, Commit, Reply, Raise, Fields
<1>24. CASE q.op = "delete_ip"
  BY <1>24 DEF Run, DeleteIp, Commit, Reply, Raise, Fields
<1> QED
  BY <1>1, <1>2, <1>3, <1>4, <1>5, <1>6, <1>7, <1>8, <1>9, <1>10, <1>11, <1>12,
     <1>13, <1>14, <1>15, <1>16, <1>17, <1>18, <1>19, <1>20, <1>21, <1>22, <1>23, <1>24 DEF Request

\* A new collection is alone in its id, and has no rows yet.
LEMMA CollectionRows ==
  ASSUME NEW q, q.op = "add_new_collection", Request(q), NEW s, Read(s), NEW d, Good(d)
  PROVE  LET r == Run(q, s, d)
         IN  /\ r.db.data.rows = d.data.rows
             /\ \/ r.db.coll = d.coll /\ r.val = -1
                \/ /\ r.val \notin DOMAIN d.coll /\ DOMAIN r.db.coll = DOMAIN d.coll \cup {r.val}
                   /\ r.db.coll[r.val].ip = q.ip
                   /\ \A c \in DOMAIN d.coll : r.db.coll[c] = d.coll[c]
<1> DEFINE r == Run(q, s, d)
           known == FindIp(s.ips, q.ip)
           cid == CollectionMaxCid(s.coll) + 1
           kid == CommandMaxCid(s.cmd) + 1
           ips == IF known THEN d.ips ELSE InsertIpByUser(d.ips, q.ip, 0, NoText)
           data == IF known THEN d.data ELSE InitialTable(d.data)
           coll == InsertNewCollection(d.coll, cid, q.ip, "now")
           cmd == InsertNewCommand(d.cmd, kid, cid, "analysis", <<"now">>, q.ip)
           new == [d EXCEPT !.ips = ips, !.data = data, !.coll = coll, !.cmd = cmd]
<1>0. DOMAIN d = Fields /\ DOMAIN d.data = DataRow
  BY DEF Good, Read, DataOK
<1>1. \/ r.val = -1 /\ r.db = d
      \/ r.val = cid /\ cid \notin DOMAIN d.coll /\ r.db = new
  <2>1. r = AddNewCollection(s, d, q) /\ q.time = "now"
    BY DEF Run, Request
  <2> HIDE DEF r
  <2> QED
    BY <2>1 DEF AddNewCollection, Commit, Reply
<1>2. data.rows = d.data.rows
  BY <1>0 DEF DataRow, InitialTable
<1>3. cid \notin DOMAIN d.coll =>
        /\ DOMAIN coll = DOMAIN d.coll \cup {cid} /\ coll[cid].ip = q.ip
        /\ \A c \in DOMAIN d.coll : coll[c] = d.coll[c]
  <2> DEFINE row == [name |-> <<"now">>, status |-> "running", ip |-> q.ip,
                     workload |-> Null, total |-> NoNumber, desc |-> NoText]
  <2>1. coll = Insert(d.coll, cid, row) /\ row.ip = q.ip
    BY DEF InsertNewCollection
  <2> HIDE DEF coll, row, cid
  <2> QED
    BY <2>1 DEF Insert
<1> HIDE DEF r, cid, coll, data, cmd, ips
<1>4. CASE r.val = cid /\ cid \notin DOMAIN d.coll /\ r.db = new
  <2>1. r.db.data = data /\ r.db.coll = coll
    BY <1>0, <1>4 DEF Fields
  <2> QED
    BY <1>2, <1>3, <1>4, <2>1 DEF r
<1> QED
  BY <1>1, <1>4 DEF r

\* A sample becomes the row after the last one the session has read, if that is free.
LEMMA SampleRows ==
  ASSUME NEW q, q.op = "add_collection_data", Request(q), NEW s, NEW d, Good(d)
  PROVE  LET r == Run(q, s, d)
             n == DataMaxRound(s.data, q.cid) + 1
         IN  /\ r.db.coll = d.coll /\ (r.err \/ r.val = q.cid)
             /\ \/ r.db.data.rows = d.data.rows
                \/ /\ <<q.cid, n>> \notin DOMAIN d.data.rows
                   /\ r.db.data.rows = Insert(d.data.rows, <<q.cid, n>>, q.sample)
<1> DEFINE r == Run(q, s, d)
           n == DataMaxRound(s.data, q.cid) + 1
           rows == Insert(d.data.rows, <<q.cid, n>>, q.sample)
           headed == IF ~s.data.made THEN InitialTable(d.data) ELSE d.data
           added == q.cols \ s.data.cols
           data == InsertData(InsertNewColumn(headed, added), q.cid, n, q.sample)
<1>0. DOMAIN d = Fields /\ DOMAIN d.data = DataRow
  BY DEF Good, Read, DataOK
<1>1. r.db.coll = d.coll
  BY <1>0, Untouched
<1>2. data.rows = rows
  <2>1. DOMAIN headed = DataRow /\ headed.rows = d.data.rows
    BY <1>0 DEF DataRow, InitialTable
  <2> HIDE DEF headed
  <2>2. DOMAIN InsertNewColumn(headed, added) = DataRow
        /\ InsertNewColumn(headed, added).rows = d.data.rows
    BY <2>1 DEF DataRow, InsertNewColumn
  <2> QED
    BY <2>2 DEF DataRow, InsertData
<1>3. /\ r.err \/ r.val = q.cid
      /\ r.db = d \/ (<<q.cid, n>> \notin DOMAIN d.data.rows /\ r.db = [d EXCEPT !.data = data])
  <2>1. r = AddCollectionData(s, d, q)
    BY DEF Run
  <2> QED
    BY <2>1 DEF AddCollectionData, Commit, Reply, Raise
<1> HIDE DEF r, rows, data, n
<1> QED
  BY <1>0, <1>1, <1>2, <1>3 DEF Fields, r, rows, n

\* Only "finished" changes the number of rounds a collection is said to have.
LEMMA CollectionTotals ==
  ASSUME NEW q, q.op # "add_new_collection", Request(q), NEW s, Read(s), NEW d, Good(d)
  PROVE  LET e == Run(q, s, d).db
         IN  /\ DOMAIN e.coll = DOMAIN d.coll
             /\ \A c \in DOMAIN d.coll :
                  \/ e.coll[c].total = d.coll[c].total
                  \/ e.coll[c].total = DataMaxRound(d.data, c)
             /\ q.op = "change_collection_status" /\ q.type = "csv" /\ q.cid \in DOMAIN d.coll =>
                  /\ e.coll[q.cid].status = "finished"
                  /\ e.coll[q.cid].total = DataMaxRound(d.data, q.cid)
<1> DEFINE e == Run(q, s, d).db
<1>0. DOMAIN d = Fields /\ CollOK(d.coll) /\ CollOK(s.coll)
  BY DEF Good, Read
<1>1. CASE q.op = "change_collection_status"
  <2> DEFINE m == DataMaxRound(d.data, q.cid)
             one == UpdateCollectionStatus(d.coll, q.cid, "finished")
             two == UpdateTotalRound(one, q.cid, m)
  <2>1. q.status = "finished"
    BY <1>1 DEF Request
  <2>2. (e.coll = d.coll /\ q.type # "csv") \/ e.coll = two
    <3>1. \/ e = d /\ q.type # "csv"
          \/ e = [d EXCEPT !.coll = two,
                           !.cmd = UpdateCommandStatus(d.cmd, q.cid, "finished")]
          \/ e = [d EXCEPT !.coll = two]
      BY <1>1, <2>1 DEF Run, ChangeCollectionStatus, Commit, Reply
    <3> HIDE DEF e, two
    <3> QED
      BY <1>0, <3>1 DEF Fields
  <2>3. /\ CollOK(one) /\ DOMAIN one = DOMAIN d.coll
        /\ \A c \in DOMAIN d.coll : one[c].total = d.coll[c].total
        /\ q.cid \in DOMAIN d.coll => one[q.cid].status = "finished"
    <3>1. /\ CollOK(one) /\ DOMAIN one = DOMAIN d.coll
          /\ \A c \in DOMAIN d.coll : one[c].total = d.coll[c].total
      BY <1>0, CollUpdate DEF UpdateCollectionStatus, CollValue
    <3>2. q.cid \in DOMAIN d.coll => one[q.cid].status = "finished"
      BY <1>0, UpdateHas DEF UpdateCollectionStatus, CollOK, CollRow
    <3> QED
      BY <3>1, <3>2
  <2>4. m \in Nat
    <3>1. Bounded(DataRounds(d.data, q.cid))
      BY RoundsBounded DEF Good, Read, DataOK, RoundsOf, DataRounds
    <3> QED
      BY <3>1, MaxOfBounded DEF DataMaxRound
  <2> HIDE DEF one, m
  <2>5. /\ DOMAIN two = DOMAIN d.coll
        /\ \A c \in DOMAIN d.coll :
             /\ c # q.cid => two[c].total = d.coll[c].total
             /\ c = q.cid => two[c].total = m
             /\ one[c].status = "finished" => two[c].status = "finished"
    BY <2>3, <2>4, CollUpdate DEF UpdateTotalRound, CollValue
  <2> HIDE DEF two, e
  <2> QED
    BY <1>0, <1>1, <2>2, <2>3, <2>5 DEF e, m
<1>2. CASE q.op \in {"rename_collection", "update_analysis_description"}
  <2> DEFINE named == UpdateCollectionName(d.coll, q.name, q.new)
             said == UpdateCollectionDescription(d.coll, q.cid, q.desc)
  <2>1. \/ e.coll = d.coll
        \/ q.op = "rename_collection" /\ e.coll = named
        \/ e.coll = said
    <3>1. CASE q.op = "rename_collection"
      BY <1>0, <3>1 DEF Run, RenameCollection, Commit, Reply, Fields
    <3>2. CASE q.op = "update_analysis_description"
      BY <1>0, <3>2 DEF Run, UpdateAnalysisDescription, Reply, Fields
    <3> QED
      BY <1>2, <3>1, <3>2
  <2>2. DOMAIN said = DOMAIN d.coll /\ \A c \in DOMAIN d.coll : said[c].total = d.coll[c].total
    BY <1>0, CollUpdate DEF UpdateCollectionDescription, CollValue
  <2>3. q.op = "rename_collection" =>
          DOMAIN named = DOMAIN d.coll /\ \A c \in DOMAIN d.coll : named[c].total = d.coll[c].total
    BY <1>0, CollUpdate DEF UpdateCollectionName, CollValue, Request
  <2> QED
    BY <1>2, <2>1, <2>2, <2>3
<1>3. CASE q.op = "change_collection_info"
  <2> DEFINE name == <<q.workload>> \o Scalar(s.coll, DOMAIN s.coll \cap {q.cid}, "name", <<>>)
             named == UpdateNameOfCollection(d.coll, q.cid, name)
             put == UpdateWorkload(named, q.cid, q.workload)
  <2>1. e.coll \in {d.coll, named, put}
    BY <1>0, <1>3 DEF Run, ChangeCollectionInfo, Reply, Raise, Fields
  <2>2. \A c \in DOMAIN d.coll : DOMAIN d.coll[c] = CollRow
    BY <1>0 DEF CollOK
  <2>3. DOMAIN named = DOMAIN d.coll /\ \A c \in DOMAIN d.coll :
          DOMAIN named[c] = CollRow /\ named[c].total = d.coll[c].total
    BY <2>2, UpdateHas DEF UpdateNameOfCollection, CollRow
  <2> HIDE DEF named
  <2>4. DOMAIN put = DOMAIN d.coll /\ \A c \in DOMAIN d.coll : put[c].total = d.coll[c].total
    BY <2>3, UpdateHas DEF UpdateWorkload, CollRow
  <2> QED
    BY <1>3, <2>1, <2>3, <2>4
<1>4. CASE q.op \notin {"change_collection_status", "rename_collection",
                        "update_analysis_description", "change_collection_info"}
  <2>1. e.coll = d.coll
    BY <1>0, <1>4, Untouched
  <2> QED
    BY <1>4, <2>1
<1> QED
  BY <1>1, <1>2, <1>3, <1>4

-----------------------------------------------------------------------------
(* What a session does to its request                                      *)

LEMMA Owners ==
  ASSUME NEW c \in Clients
  PROVE  /\ OfAnalysis(c) <=> \E a \in Analyses : c \in {Handler(a), Reader(a)}
         /\ ~OfAnalysis(c) => \A a \in Analyses : c # Handler(a) /\ c # Reader(a)
  BY DEF Clients, OfAnalysis, Handler, Reader, Tuner, Browser

LEMMA TwoClients ==
  ASSUME NEW a \in Analyses, NEW b \in Analyses
  PROVE  /\ Handler(a) \in Clients /\ Reader(a) \in Clients /\ Handler(a) # Reader(b)
         /\ a # b => Handler(a) # Handler(b) /\ Reader(a) # Reader(b)
  BY DEF Clients, Handler, Reader

LEMMA OtherKinds ==
  ASSUME NEW h \in OtherCalls
  PROVE  h.op \notin {"add_new_collection", "add_collection_data", "add_analysis_log",
                      "change_collection_status", "change_collection_info"}
  BY DEF OtherCalls, TuningRequests, UserRequests, RunRequests

LEMMA CommitReq ==
  ASSUME UiInv, NEW c \in Clients, CommitSession(c)
  PROVE  /\ DOMAIN req' = Clients /\ \A x \in Clients : x # c => req'[x] = req[x]
         /\ req'[c].seen = <<>> /\ req'[c].id = Outcome(c).val /\ req'[c].err = Outcome(c).err
         /\ UNCHANGED <<work, an, tn, web, view>>
         /\ req[c].calls # <<>> /\ Len(req[c].calls) \in Nat /\ Len(req[c].calls) > 0
         /\ Head(req[c].calls) = req[c].calls[1]
         /\ IF Stops(Call(c), Outcome(c)) THEN req'[c].calls = <<>>
            ELSE /\ req'[c].calls = Tail(req[c].calls)
                 /\ Len(req'[c].calls) = Len(req[c].calls) - 1
                 /\ \A i \in 1 .. Len(req'[c].calls) : req'[c].calls[i] = req[c].calls[i + 1]
<1> DEFINE q == Call(c)
           r == Outcome(c)
           calls == IF Stops(q, r) THEN <<>> ELSE Tail(req[c].calls)
<1>1. RequestOK(c, req[c], db) /\ req[c].calls # <<>> /\ DOMAIN req = Clients
  BY DEF UiInv, ReqInv, CommitSession, Idle
<1>2. /\ UNCHANGED <<work, an, tn, web, view>>
      /\ req' = [req EXCEPT ![c] = [calls |-> IF Stops(q, r) THEN <<>> ELSE Tail(@.calls),
                                    seen |-> <<>>, id |-> r.val, err |-> r.err]]
  BY DEF CommitSession, Outcome, Reads
<1>3. /\ DOMAIN req' = Clients /\ \A x \in Clients : x # c => req'[x] = req[x]
      /\ req'[c] = [calls |-> calls, seen |-> <<>>, id |-> r.val, err |-> r.err]
  BY <1>1, <1>2
<1>4. req[c].calls \in Seq(AnalysisCalls \cup OtherCalls)
  BY <1>1 DEF RequestOK
<1>5. /\ Len(req[c].calls) \in Nat /\ Len(req[c].calls) > 0
      /\ Head(req[c].calls) = req[c].calls[1]
      /\ Len(Tail(req[c].calls)) = Len(req[c].calls) - 1
      /\ \A i \in 1 .. Len(req[c].calls) - 1 : Tail(req[c].calls)[i] = req[c].calls[i + 1]
  BY <1>1, <1>4, HeadTail
<1> HIDE DEF q, r
<1> QED
  BY <1>1, <1>2, <1>3, <1>5 DEF q, r

\* The owner of a session that changes the rows of analyses.
LEMMA CommitOwner ==
  ASSUME UiInv, NEW c \in Clients, CommitSession(c),
         Call(c).op \in {"add_new_collection", "add_collection_data",
                         "change_collection_status", "change_collection_info"}
  PROVE  /\ OfAnalysis(c) /\ \E a \in Analyses : c \in {Handler(a), Reader(a)}
         /\ Call(c).cid = req[c].id
<1>1. RequestOK(c, req[c], db) /\ req[c].calls # <<>>
  BY DEF UiInv, ReqInv, CommitSession, Idle
<1>2. ~OfAnalysis(c) => Head(req[c].calls) \in OtherCalls
  <2>1. ~OfAnalysis(c) => req[c].calls \in Seq(OtherCalls)
    BY <1>1 DEF RequestOK
  <2> QED
    BY <1>1, <2>1, HeadTail
<1>3. OfAnalysis(c)
  BY <1>2, CommitRuns, OtherKinds
<1> QED
  BY <1>3, Owners, CommitRuns

\* The first call as the trigger gets it.
LEMMA CallHas ==
  ASSUME NEW c, NEW x \in DOMAIN Head(req[c].calls)
  PROVE  Call(c)[x] = Head(req[c].calls)[x]
  BY CallGiven, GivenHas

LEMMA HeadFields ==
  ASSUME UiInv, NEW c \in Clients, req[c].calls # <<>>
  PROVE  LET h == Head(req[c].calls)
         IN  /\ h.op = "add_new_collection" => "ip" \in DOMAIN h
             /\ h.op = "add_collection_data" => "sample" \in DOMAIN h
             /\ h.op = "change_collection_status" => "type" \in DOMAIN h
<1>1. req[c].calls \in Seq(AnalysisCalls \cup OtherCalls)
  BY DEF UiInv, ReqInv, RequestOK
<1>2. Head(req[c].calls) \in AnalysisCalls \cup OtherCalls
  BY <1>1, HeadTail
<1> DEFINE h == Head(req[c].calls)
<1> HIDE DEF h
<1>3. CASE h \in AnalysisCalls
  BY <1>3 DEF AnalysisCalls, h
<1>4. CASE h \in OtherCalls
  BY <1>4, OtherKinds DEF h
<1> QED
  BY <1>2, <1>3, <1>4 DEF h

-----------------------------------------------------------------------------
(* The rows of analyses: no step mixes or loses them                       *)

LEMMA HeldKnown ==
  ASSUME UiInv, NEW a \in Analyses
  PROVE  Held(a) \subseteq DOMAIN db.coll
<1>1. AnalysisOK(an[a], db)
  BY DEF UiInv, AnInv
<1>2. /\ RequestOK(Handler(a), req[Handler(a)], db) /\ OfAnalysis(Handler(a))
      /\ RequestOK(Reader(a), req[Reader(a)], db) /\ OfAnalysis(Reader(a))
  BY TwoClients, Owners DEF UiInv, ReqInv
<1> QED
  BY <1>1, <1>2 DEF Held, Known, AnalysisOK, RequestOK

LEMMA HeldKept ==
  ASSUME UiInv, HeldOK, Later(db, db') \/ db' = db,
         \A a \in Analyses : Held(a)' \subseteq Held(a)
  PROVE  HeldOK'
<1>1. \A a \in Analyses : Held(a) \subseteq DOMAIN db.coll
  BY HeldKnown
<1>2. \A c \in DOMAIN db.coll : db'.coll[c].ip = db.coll[c].ip
  BY DEF Later
<1> QED
  BY <1>1, <1>2 DEF HeldOK

LEMMA HeldMore ==
  ASSUME UiInv, HeldOK, Later(db, db'), NEW a \in Analyses, NEW id, id \notin DOMAIN db.coll,
         db'.coll[id].ip = IpOf[a], Held(a)' \subseteq Held(a) \cup {id},
         \A b \in Analyses : b # a => Held(b)' \subseteq Held(b)
  PROVE  HeldOK'
<1>1. \A b \in Analyses : Held(b) \subseteq DOMAIN db.coll
  BY HeldKnown
<1>2. \A c \in DOMAIN db.coll : db'.coll[c].ip = db.coll[c].ip
  BY DEF Later
<1>3. \A b \in Analyses : \A x \in Held(b)' : db'.coll[x].ip = IpOf[b]
  BY <1>1, <1>2 DEF HeldOK
<1>4. \A b, x \in Analyses : b # x => Held(b)' \cap Held(x)' = {}
  BY <1>1 DEF HeldOK
<1> QED
  BY <1>3, <1>4 DEF HeldOK

\* The next round of a collection.
LEMMA NextRound ==
  ASSUME NEW d, Good(d), RowsOK(d.data.rows, d.coll), NEW s, Read(s),
         DOMAIN s.data.rows \subseteq DOMAIN d.data.rows, NEW c,
         <<c, DataMaxRound(s.data, c) + 1>> \notin DOMAIN d.data.rows
  PROVE  LET n == DataMaxRound(s.data, c) + 1
         IN  /\ n \in Nat \ {0}
             /\ \A i \in 1 .. n - 1 : <<c, i>> \in DOMAIN d.data.rows
             /\ \A i \in Nat : <<c, i>> \in DOMAIN d.data.rows => i < n
<1> DEFINE S == RoundsOf(s.data.rows, c)
           m == DataMaxRound(s.data, c)
           rows == d.data.rows
<1>1. Keyed(s.data.rows, s.coll) /\ Keyed(rows, d.coll)
  BY DEF Good, Read, DataOK
<1>2. m = MaxOf(S)
  BY MaxRoundRows
<1>3. /\ MaxOf(S) \in Nat /\ (S # {} => MaxOf(S) \in S)
      /\ \A n : n \in S <=> <<c, n>> \in DOMAIN s.data.rows
      /\ (S = {} => MaxOf(S) = 0)
  <2>1. S = {} => MaxOf(S) = 0
    BY DEF MaxOf
  <2> QED
    BY <1>1, <2>1, RoundsBounded, MaxOfBounded
<1> HIDE DEF S, m
<1>4. m = 0 \/ <<c, m>> \in DOMAIN rows
  BY <1>2, <1>3
<1>5. \A i \in 1 .. m : <<c, i>> \in DOMAIN rows
  <2> DEFINE k == <<c, m>>
  <2>1. k \in DOMAIN rows => \A i \in 1 .. k[2] : <<k[1], i>> \in DOMAIN rows
    BY DEF RowsOK
  <2>2. k[1] = c /\ k[2] = m
    OBVIOUS
  <2>3. m = 0 => 1 .. m = {}
    OBVIOUS
  <2> QED
    BY <1>4, <2>1, <2>2, <2>3
<1>6. \A i \in Nat : <<c, i>> \in DOMAIN rows => i < m + 1
  <2> SUFFICES ASSUME NEW i \in Nat, <<c, i>> \in DOMAIN rows, m + 1 <= i
               PROVE  FALSE
    BY <1>2, <1>3
  <2>1. \A j \in 1 .. i : <<c, j>> \in DOMAIN rows
    BY DEF RowsOK
  <2>2. m + 1 \in 1 .. i
    BY <1>2, <1>3
  <2> QED
    BY <2>1, <2>2 DEF m
<1> QED
  BY <1>2, <1>3, <1>5, <1>6 DEF m

LEMMA RowsAppend ==
  ASSUME NEW rows, NEW coll, RowsOK(rows, coll), NEW c, NEW n \in Nat \ {0},
         <<c, n>> \notin DOMAIN rows, \A i \in 1 .. n - 1 : <<c, i>> \in DOMAIN rows,
         \A k \in DOMAIN rows : k = <<k[1], k[2]>> /\ k[2] \in Nat \ {0},
         NEW v \in Lines, coll[c].ip = IpOf[v[1]],
         \A k \in DOMAIN rows : k[1] = c => rows[k][2] < v[2]
  PROVE  RowsOK(Insert(rows, <<c, n>>, v), coll)
<1> DEFINE u == Insert(rows, <<c, n>>, v)
<1>1. /\ DOMAIN u = DOMAIN rows \cup {<<c, n>>} /\ u[<<c, n>>] = v
      /\ \A k \in DOMAIN rows : u[k] = rows[k]
  BY DEF Insert
<1> HIDE DEF u
<1>2. ASSUME NEW k \in DOMAIN rows
      PROVE  /\ u[k] \in Lines /\ coll[k[1]].ip = IpOf[u[k][1]]
             /\ \A i \in 1 .. k[2] : <<k[1], i>> \in DOMAIN u
             /\ k[2] > 1 => u[<<k[1], k[2] - 1>>][2] < u[k][2]
  <2>1. k[2] > 1 => k[2] - 1 \in 1 .. k[2]
    OBVIOUS
  <2> QED
    BY <1>1, <2>1 DEF RowsOK
<1>3. /\ \A i \in 1 .. n : <<c, i>> \in DOMAIN u
      /\ n > 1 => u[<<c, n - 1>>][2] < u[<<c, n>>][2]
  <2>1. n > 1 => <<c, n - 1>> \in DOMAIN rows
    OBVIOUS
  <2> QED
    BY <1>1, <2>1
<1>4. ASSUME NEW k \in DOMAIN u
      PROVE  /\ u[k] \in Lines /\ coll[k[1]].ip = IpOf[u[k][1]]
             /\ \A i \in 1 .. k[2] : <<k[1], i>> \in DOMAIN u
             /\ k[2] > 1 => u[<<k[1], k[2] - 1>>][2] < u[k][2]
  <2>1. CASE k = <<c, n>>
    <3>1. k[1] = c /\ k[2] = n /\ u[k] = v
      BY <1>1, <2>1
    <3> QED
      BY <1>3, <2>1, <3>1
  <2> QED
    BY <1>1, <1>2, <2>1
<1>5. RowsOK(u, coll)
  BY <1>4 DEF RowsOK
<1> QED
  BY <1>5 DEF u

LEMMA RowsSame ==
  ASSUME NEW rows, NEW coll, RowsOK(rows, coll), Keyed(rows, coll), NEW coll2,
         \A c \in DOMAIN coll : coll2[c].ip = coll[c].ip
  PROVE  RowsOK(rows, coll2)
  BY DEF RowsOK, Keyed

\* Nothing of the analyses' own calls is lost or changed by a session.
LEMMA OwnCallsCommit ==
  ASSUME UiInv, OwnCalls, NEW c \in Clients, CommitSession(c)
  PROVE  OwnCalls' /\ \A a \in Analyses : Adding(a)' => Adding(a)
<1>1. an' = an /\ \A x \in Clients : x # c => req'[x] = req[x]
  BY CommitReq
<1>2. \/ req'[c].calls = <<>>
      \/ /\ Len(req'[c].calls) = Len(req[c].calls) - 1
         /\ \A i \in 1 .. Len(req'[c].calls) : req'[c].calls[i] = req[c].calls[i + 1]
         /\ Len(req[c].calls) \in Nat
  BY CommitReq
<1>3. ASSUME NEW i \in 1 .. Len(req'[c].calls)
      PROVE  /\ i + 1 \in 1 .. Len(req[c].calls) /\ req'[c].calls[i] = req[c].calls[i + 1]
             /\ (i + 1 = Len(req[c].calls) => i = Len(req'[c].calls))
  BY <1>2
<1>4. \A a \in Analyses : CallsOK(a, c) => CallsOK(a, c)'
  <2> SUFFICES ASSUME NEW a \in Analyses, CallsOK(a, c), NEW i \in 1 .. Len(req'[c].calls)
               PROVE  LET q == req'[c].calls[i]
                      IN  /\ q.op = "add_new_collection" => q.ip = IpOf[a]
                          /\ q.op = "add_collection_data" =>
                               /\ c = Reader(a) /\ i = Len(req'[c].calls)
                               /\ q.sample = <<a, an[a].read>> /\ an[a].reader = "sent"
    BY <1>1 DEF CallsOK
  <2>1. i + 1 \in 1 .. Len(req[c].calls) /\ req'[c].calls[i] = req[c].calls[i + 1]
        /\ (i + 1 = Len(req[c].calls) => i = Len(req'[c].calls))
    BY <1>3
  <2> QED
    BY <2>1 DEF CallsOK
<1>5. \A a \in Analyses, x \in Clients : x # c /\ CallsOK(a, x) => CallsOK(a, x)'
  BY <1>1 DEF CallsOK
<1>6. OwnCalls'
  BY <1>4, <1>5, TwoClients DEF OwnCalls
<1>7. \A a \in Analyses : Adding(a)' => Adding(a)
  BY <1>1, <1>3, TwoClients DEF Adding
<1> QED
  BY <1>6, <1>7

\* The ids of the analyses after a session.
LEMMA HeldCommit ==
  ASSUME UiInv, NEW c \in Clients, CommitSession(c), NEW a \in Analyses
  PROVE  /\ c \notin {Handler(a), Reader(a)} => Held(a)' = Held(a)
         /\ Held(a)' \subseteq Held(a) \cup ({Outcome(c).val} \ {-1})
  BY CommitReq, TwoClients DEF Held

LEMMA SampleCommit ==
  ASSUME UiInv, RowsInv, NEW c \in Clients, CommitSession(c),
         Call(c).op = "add_collection_data"
  PROVE  RowsInv'
<1> DEFINE q == Call(c)
           s == req[c].seen[1]
           n == DataMaxRound(s.data, q.cid) + 1
           v == q.sample
           rows == db.data.rows
<1>0. /\ RowsOK(rows, db.coll) /\ HeldOK /\ OwnCalls /\ RowsHeld /\ SeenRows /\ Good(db)
      /\ Keyed(rows, db.coll)
  BY DEF RowsInv, UiInv, Good, Read, DataOK
<1>1. PICK a \in Analyses : c \in {Handler(a), Reader(a)}
  BY CommitOwner
<1>2. /\ c = Reader(a) /\ Len(req[c].calls) = 1 /\ an[a].reader = "sent"
      /\ Head(req[c].calls).sample = <<a, an[a].read>> /\ Adding(a)
  <2>1. /\ 1 \in 1 .. Len(req[c].calls) /\ req[c].calls[1] = Head(req[c].calls)
        /\ req[c].calls[1].op = "add_collection_data"
    BY CommitReq, CommitRuns
  <2>2. CallsOK(a, c)
    BY <1>0, <1>1 DEF OwnCalls
  <2>3. c = Reader(a) /\ 1 = Len(req[c].calls) /\ an[a].reader = "sent"
        /\ req[c].calls[1].sample = <<a, an[a].read>>
    BY <2>1, <2>2 DEF CallsOK
  <2> QED
    BY <2>1, <2>3 DEF Adding
<1>3. v = <<a, an[a].read>> /\ v \in Lines
  <2>1. Head(req[c].calls).op = "add_collection_data" /\ req[c].calls # <<>>
    BY CommitRuns, CommitReq
  <2>2. an[a].read \in Nat
    BY DEF UiInv, AnInv, AnalysisOK
  <2>3. v = Head(req[c].calls).sample
    BY <2>1, HeadFields, CallHas
  <2> HIDE DEF v
  <2>4. v = <<a, an[a].read>>
    BY <1>2, <2>3
  <2>5. <<a, an[a].read>> \in Lines
    BY <2>2 DEF Lines
  <2> QED
    BY <2>4, <2>5
<1>4. q.cid = req[c].id /\ q.cid \in DOMAIN db.coll /\ q.cid \in Held(a)
      /\ db.coll[q.cid].ip = IpOf[a]
  <2>1. q.cid = req[c].id /\ q.cid \in DOMAIN db.coll
    BY CommitOwner, CommitRuns DEF Rows
  <2>2. q.cid # -1
    BY <1>0, <2>1 DEF Good, Read, CollOK, Ids, Bounded
  <2> QED
    BY <1>0, <1>2, <2>1, <2>2 DEF Held, HeldOK
<1>5. Read(s) /\ DOMAIN s.data.rows \subseteq DOMAIN rows
  <2>1. q.op \in Racing /\ req[c].seen # <<>>
    BY DEF Racing, CommitSession
  <2> QED
    BY <1>0, <2>1, CommitRuns DEF SeenRows, Reads
<1>6. /\ db' = Run(q, s, db).db /\ db'.coll = db.coll
      /\ Outcome(c).err \/ Outcome(c).val = q.cid
      /\ \/ db'.data.rows = rows
         \/ /\ <<q.cid, n>> \notin DOMAIN rows
            /\ db'.data.rows = Insert(rows, <<q.cid, n>>, v)
  <2>1. q.op \in Racing /\ Request(q)
    BY CommitRuns DEF Racing
  <2>2. Outcome(c) = Run(q, s, db) /\ db' = Run(q, s, db).db
    BY <2>1, CommitRuns DEF Outcome, Reads
  <2> QED
    BY <1>0, <2>1, <2>2, SampleRows
<1>7. Outcome(c).val \in {q.cid, -1}
  BY <1>0, <1>4, CommitRuns, Answers DEF Outcome, Rows
<1>8. \A k \in DOMAIN rows : k[1] = q.cid => rows[k][2] < v[2]
  BY <1>0, <1>2, <1>3, <1>4 DEF RowsHeld
<1>9. Later(db, db')
  BY CommitStep
<1> HIDE DEF n, v, rows, q, s
<1>10. RowsOK(db'.data.rows, db'.coll)
  <2>1. CASE db'.data.rows = rows
    BY <1>0, <1>6, <2>1
  <2>2. CASE <<q.cid, n>> \notin DOMAIN rows /\ db'.data.rows = Insert(rows, <<q.cid, n>>, v)
    <3>1. n \in Nat \ {0} /\ \A i \in 1 .. n - 1 : <<q.cid, i>> \in DOMAIN rows
      BY <1>0, <1>5, <2>2, NextRound DEF n, rows
    <3>2. db.coll[q.cid].ip = IpOf[v[1]]
      BY <1>3, <1>4
    <3>3. \A k \in DOMAIN rows : k = <<k[1], k[2]>> /\ k[2] \in Nat \ {0}
      BY <1>0 DEF Keyed
    <3> QED
      BY <1>0, <1>3, <1>6, <1>8, <2>2, <3>1, <3>2, <3>3, RowsAppend
  <2> QED
    BY <1>6, <2>1, <2>2
<1>11. /\ DOMAIN db'.data.rows \subseteq DOMAIN rows \cup {<<q.cid, n>>}
       /\ \A k \in DOMAIN rows : k \in DOMAIN db'.data.rows /\ db'.data.rows[k] = rows[k]
       /\ \A k \in DOMAIN db'.data.rows : k \notin DOMAIN rows =>
            k[1] = q.cid /\ db'.data.rows[k] = v
  BY <1>6 DEF Insert
<1>12. \A b \in Analyses : Held(b)' \subseteq Held(b)
  <2>1. \A b \in Analyses : b # a => c \notin {Handler(b), Reader(b)}
    BY <1>2, TwoClients
  <2>2. Held(a)' \subseteq Held(a)
    BY <1>4, <1>7, HeldCommit
  <2> QED
    BY <2>1, <2>2, HeldCommit
<1>13. HeldOK'
  BY <1>0, <1>9, <1>12, HeldKept
<1>14. OwnCalls' /\ \A b \in Analyses : Adding(b)' => Adding(b)
  BY <1>0, OwnCallsCommit
<1>15. ~Adding(a)'
  <2>1. Len(req'[c].calls) = 0
    <3>1. Len(<<>>) = 0
      OBVIOUS
    <3> QED
      BY <1>2, <3>1, CommitReq
  <2> QED
    BY <1>2, <2>1 DEF Adding
<1>16. RowsHeld'
  <2> SUFFICES ASSUME NEW b \in Analyses, NEW k \in DOMAIN db'.data.rows, k[1] \in Held(b)'
               PROVE  IF Adding(b)' THEN db'.data.rows[k][2] < an'[b].read
                      ELSE db'.data.rows[k][2] <= an'[b].read
    BY DEF RowsHeld
  <2>1. an' = an /\ k[1] \in Held(b) /\ an[b].read \in Nat
    BY <1>12, CommitReq DEF UiInv, AnInv, AnalysisOK
  <2>2. CASE k \in DOMAIN rows
    <3>1. db'.data.rows[k] = rows[k] /\ rows[k][2] \in Nat
      BY <1>0, <1>11, <2>2 DEF RowsOK, Lines
    <3>2. IF Adding(b) THEN rows[k][2] < an[b].read ELSE rows[k][2] <= an[b].read
      BY <1>0, <2>1, <2>2 DEF RowsHeld, rows
    <3> QED
      BY <1>14, <2>1, <3>1, <3>2
  <2>3. CASE k \notin DOMAIN rows
    <3>1. k[1] = q.cid /\ db'.data.rows[k] = v
      BY <1>11, <2>3
    <3>2. b = a
      BY <1>0, <1>4, <2>1, <3>1 DEF HeldOK
    <3> QED
      BY <1>3, <1>15, <2>1, <3>1, <3>2
  <2> QED
    BY <2>2, <2>3
<1>17. SeenRows'
  <2>1. /\ \A x \in Clients : x # c => req'[x] = req[x]
        /\ req'[c].seen = <<>>
    BY CommitReq
  <2> QED
    BY <1>0, <1>11, <2>1 DEF SeenRows, rows
<1> QED
  BY <1>10, <1>13, <1>14, <1>16, <1>17 DEF RowsInv

\* What the rows need of a step that writes none.
LEMMA RowsStill ==
  ASSUME UiInv, RowsInv, db'.data.rows = db.data.rows, Later(db, db') \/ db' = db, HeldOK',
         OwnCalls',
         \A c \in Clients : req'[c].seen # <<>> =>
           req'[c].seen = req[c].seen \/ req'[c].seen[1] = db,
         \A a \in Analyses :
           /\ \A x \in Held(a)' : x \in Held(a) \/ x \notin DOMAIN db.coll
           /\ an'[a].read \in Nat /\ an'[a].read >= an[a].read
           /\ Adding(a)' => Adding(a) \/ an'[a].read > an[a].read
  PROVE  RowsInv'
<1> DEFINE rows == db.data.rows
<1>1. RowsOK(rows, db.coll) /\ RowsHeld /\ SeenRows /\ Keyed(rows, db.coll)
  BY DEF RowsInv, UiInv, Good, Read, DataOK
<1>2. \A c \in DOMAIN db.coll : db'.coll[c].ip = db.coll[c].ip
  BY DEF Later
<1>3. RowsOK(rows, db'.coll)
  BY <1>1, <1>2, RowsSame
<1>4. RowsHeld'
  <2> SUFFICES ASSUME NEW a \in Analyses, NEW k \in DOMAIN rows, k[1] \in Held(a)'
               PROVE  IF Adding(a)' THEN rows[k][2] < an'[a].read
                      ELSE rows[k][2] <= an'[a].read
    BY DEF RowsHeld
  <2>1. k[1] \in DOMAIN db.coll
    BY <1>1 DEF Keyed
  <2>2. IF Adding(a) THEN rows[k][2] < an[a].read ELSE rows[k][2] <= an[a].read
    BY <1>1, <2>1 DEF RowsHeld
  <2>3. rows[k][2] \in Nat /\ an[a].read \in Nat
    <3>1. rows[k][2] \in Nat
      BY <1>1 DEF RowsOK, Lines
    <3>2. an[a].read \in Nat
      BY DEF UiInv, AnInv, AnalysisOK
    <3> QED
      BY <3>1, <3>2
  <2>4. /\ an'[a].read \in Nat /\ an'[a].read >= an[a].read
        /\ Adding(a)' => Adding(a) \/ an'[a].read > an[a].read
    OBVIOUS
  <2> HIDE DEF rows
  <2> QED
    BY <2>2, <2>3, <2>4
<1>5. SeenRows'
  BY <1>1 DEF SeenRows
<1> QED
  BY <1>3, <1>4, <1>5 DEF RowsInv

LEMMA AddingSent ==
  ASSUME OwnCalls, NEW a \in Analyses, Adding(a)
  PROVE  an[a].reader = "sent" /\ ~Idle(Reader(a))
<1>1. an[a].reader = "sent"
  BY DEF OwnCalls, CallsOK, Adding
<1>2. ~Idle(Reader(a))
  <2>1. Len(<<>>) = 0
    OBVIOUS
  <2> QED
    BY <2>1 DEF Adding, Idle
<1> QED
  BY <1>1, <1>2

LEMMA CommitRows ==
  ASSUME UiInv, RowsInv, NEW c \in Clients, CommitSession(c)
  PROVE  RowsInv'
<1> DEFINE q == Call(c)
           r == Outcome(c)
<1>0. /\ HeldOK /\ OwnCalls /\ Good(db) /\ Request(q) /\ Read(Reads(c)) /\ DOMAIN db = Fields
      /\ q.op \in Racing \/ Reads(c) = db
      /\ db' = r.db /\ r = Run(q, Reads(c), db)
  BY CommitRuns DEF RowsInv, UiInv, Outcome, Good, Read
<1>1. CASE q.op = "add_collection_data"
  BY <1>1, SampleCommit
<1>2. CASE q.op # "add_collection_data"
  <2>1. db'.data.rows = db.data.rows
    <3>1. CASE q.op = "add_new_collection"
      BY <1>0, <3>1, CollectionRows
    <3>2. CASE q.op # "add_new_collection"
      BY <1>0, <1>2, <3>2, Untouched
    <3> QED
      BY <3>1, <3>2
  <2>2. Later(db, db') /\ OwnCalls' /\ \A a \in Analyses : Adding(a)' => Adding(a)
    BY <1>0, CommitStep, OwnCallsCommit
  <2>3. /\ an' = an /\ \A x \in Clients : x # c => req'[x] = req[x]
        /\ req'[c].seen = <<>>
        /\ \A a \in Analyses : an[a].read \in Nat
    BY CommitReq DEF UiInv, AnInv, AnalysisOK
  <2>4. HeldOK' /\ \A a \in Analyses : \A x \in Held(a)' : x \in Held(a) \/ x \notin DOMAIN db.coll
    <3>1. CASE ~OfAnalysis(c)
      <4>1. \A a \in Analyses : Held(a)' = Held(a)
        BY <3>1, Owners, HeldCommit
      <4> QED
        BY <1>0, <2>2, <4>1, HeldKept
    <3>2. CASE OfAnalysis(c)
      <4>1. PICK a \in Analyses : c \in {Handler(a), Reader(a)}
        BY <3>2, Owners
      <4>2. \A b \in Analyses : b # a => Held(b)' = Held(b)
        BY <4>1, TwoClients, HeldCommit
      <4>3. q.cid = req[c].id /\ (req[c].id # -1 => req[c].id \in Held(a))
        BY <3>2, <4>1, CommitRuns DEF Held
      <4>4. CASE q.op = "add_new_collection"
        <5>1. \/ r.val = -1
              \/ r.val \notin DOMAIN db.coll /\ db'.coll[r.val].ip = q.ip
          BY <1>0, <4>4, CollectionRows
        <5>2. q.ip = IpOf[a]
          <6>1. /\ 1 \in 1 .. Len(req[c].calls) /\ req[c].calls[1] = Head(req[c].calls)
                /\ req[c].calls[1].op = "add_new_collection" /\ req[c].calls # <<>>
            BY <4>4, CommitReq, CommitRuns
          <6>2. CallsOK(a, c)
            BY <1>0, <4>1 DEF OwnCalls
          <6>3. req[c].calls[1].ip = IpOf[a]
            BY <6>1, <6>2 DEF CallsOK
          <6>4. q.ip = Head(req[c].calls).ip
            BY <6>1, HeadFields, CallHas
          <6> QED
            BY <6>1, <6>3, <6>4
        <5> HIDE DEF r
        <5>3. CASE r.val = -1
          <6>1. \A b \in Analyses : Held(b)' \subseteq Held(b)
            BY <4>2, <5>3, HeldCommit DEF r
          <6> QED
            BY <1>0, <2>2, <6>1, HeldKept
        <5>4. CASE r.val \notin DOMAIN db.coll /\ db'.coll[r.val].ip = q.ip
          <6>1. Held(a)' \subseteq Held(a) \cup {r.val}
            BY HeldCommit DEF r
          <6>2. HeldOK'
            BY <1>0, <2>2, <4>2, <5>2, <5>4, <6>1, HeldMore
          <6> QED
            BY <4>2, <5>4, <6>1, <6>2
        <5> QED
          BY <5>1, <5>3, <5>4
      <4>5. CASE q.op # "add_new_collection"
        <5>1. q.op \in {"add_analysis_log", "change_collection_status",
                        "change_collection_info"}
          <6>1. RequestOK(c, req[c], db) /\ req[c].calls # <<>>
            BY DEF UiInv, ReqInv, CommitSession, Idle
          <6>2. req[c].calls \in Seq(AnalysisCalls)
            BY <3>2, <6>1 DEF RequestOK
          <6>3. Head(req[c].calls) \in AnalysisCalls
            BY <6>1, <6>2, HeadTail
          <6> QED
            BY <1>2, <4>5, <6>3, AnalysisOps, CommitRuns
        <5>2. r.val \in {q.cid, -1}
          <6>1. q.op \in {"add_collection_data", "add_analysis_log"} => q.cid \in DOMAIN db.coll
            BY CommitRuns DEF Rows
          <6> QED
            BY <1>0, <5>1, <6>1, Answers
        <5>3. \A b \in Analyses : Held(b)' \subseteq Held(b)
          <6>1. Held(a)' \subseteq Held(a)
            BY <4>3, <5>2, HeldCommit
          <6> QED
            BY <4>2, <6>1
        <5> QED
          BY <1>0, <2>2, <5>3, HeldKept
      <4> QED
        BY <4>4, <4>5
    <3> QED
      BY <3>1, <3>2
  <2> QED
    BY <2>1, <2>2, <2>3, <2>4, RowsStill
<1> QED
  BY <1>1, <1>2

LEMMA OpenRows ==
  ASSUME UiInv, RowsInv, NEW c \in Clients, OpenSession(c)
  PROVE  RowsInv'
<1>1. /\ DOMAIN req = Clients /\ DOMAIN req[c] = ReqRow /\ Good(db)
      /\ \A a \in Analyses : an[a].read \in Nat
  BY DEF UiInv, ReqInv, RequestOK, AnInv, AnalysisOK
<1>2. /\ req' = [req EXCEPT ![c].seen = <<db>>] /\ an' = an
  BY DEF OpenSession
<1>3. /\ \A x \in Clients : /\ x # c => req'[x] = req[x]
                            /\ req'[x].calls = req[x].calls /\ req'[x].id = req[x].id
      /\ req'[c].seen[1] = db
  BY <1>1, <1>2 DEF ReqRow
<1>4. db'.data.rows = db.data.rows
  <2>1. DOMAIN db = Fields /\ DOMAIN db.data = DataRow
    BY <1>1 DEF Good, Read, DataOK
  <2>2. db' = TableMade(Call(c), db)
    BY DEF OpenSession
  <2> DEFINE made == [db.data EXCEPT !.made = TRUE]
  <2>3. made.rows = db.data.rows
    BY <2>1 DEF DataRow
  <2>4. \/ db' = db \/ db' = [db EXCEPT !.data = made]
        \/ db' = [db EXCEPT !.tdata = Insert(@, Call(c).project, TuningTable(Call(c).params))]
    BY <2>2 DEF TableMade
  <2> HIDE DEF made
  <2> QED
    BY <2>1, <2>3, <2>4 DEF Fields
<1>5. /\ \A a \in Analyses : Held(a)' = Held(a) /\ Adding(a)' = Adding(a)
      /\ OwnCalls => OwnCalls'
  BY <1>2, <1>3, TwoClients DEF Held, Adding, OwnCalls, CallsOK
<1>6. Later(db, db')
  BY OpenStep
<1>7. HeldOK'
  BY <1>5, <1>6, HeldKept DEF RowsInv
<1> QED
  BY <1>1, <1>2, <1>3, <1>4, <1>5, <1>6, <1>7, RowsStill DEF RowsInv

LEMMA CallsSame ==
  ASSUME NEW a, NEW c, CallsOK(a, c), req'[c] = req[c], an'[a] = an[a]
  PROVE  CallsOK(a, c)'
  BY DEF CallsOK

LEMMA RowsUnchanged ==
  ASSUME RowsInv, UNCHANGED <<db, req, an>>
  PROVE  RowsInv'
<1>1. \A a : Held(a)' = Held(a)
  BY DEF Held
<1>2. \A a : Adding(a)' = Adding(a)
  BY DEF Adding
<1>3. OwnCalls'
  BY CallsSame DEF RowsInv, OwnCalls
<1>4. HeldOK'
  BY <1>1 DEF RowsInv, HeldOK
<1>5. RowsHeld'
  BY <1>1, <1>2 DEF RowsInv, RowsHeld
<1>6. SeenRows'
  BY DEF RowsInv, SeenRows
<1> QED
  BY <1>3, <1>4, <1>5, <1>6 DEF RowsInv

\* A step of an analysis that sends nothing.
LEMMA QuietKeeps ==
  ASSUME UiInv, RowsInv, NEW a \in Analyses, NEW changes, Step(a, changes), Quiet,
         "read" \in DOMAIN changes => /\ changes.read \in Nat /\ changes.read >= an[a].read
                                      /\ changes.read = an[a].read \/ ~Adding(a),
         "cid" \in DOMAIN changes => changes.cid \in Held(a) \cup {-1},
         "sid" \in DOMAIN changes => changes.sid \in Held(a) \cup {-1},
         "reader" \in DOMAIN changes => changes.reader = an[a].reader \/ ~Adding(a)
  PROVE  RowsInv'
<1>1. /\ req' = req /\ db' = db
      /\ \A b \in Analyses : an[b].read \in Nat
  BY DEF Quiet, Still, UiInv, AnInv, AnalysisOK
<1>2. /\ \A b \in Analyses : b # a => an'[b] = an[b]
      /\ an'[a].read \in Nat /\ an'[a].read >= an[a].read
      /\ an'[a].read = an[a].read \/ ~Adding(a)
      /\ an'[a].cid \in Held(a) \cup {-1} /\ an'[a].sid \in Held(a) \cup {-1}
      /\ an'[a].reader = an[a].reader \/ ~Adding(a)
  <2>1. an[a].cid \in Held(a) \cup {-1} /\ an[a].sid \in Held(a) \cup {-1}
    BY DEF Held
  <2> QED
    BY <1>1, <2>1, StepHas DEF AnRow
<1>3. \A b \in Analyses : Held(b)' \subseteq Held(b)
  <2>1. \A b \in Analyses : b # a => Held(b)' = Held(b)
    BY <1>1, <1>2 DEF Held
  <2>2. {req[Handler(a)].id, req[Reader(a)].id} \ {-1} \subseteq Held(a)
    BY DEF Held
  <2>3. Held(a)' \subseteq Held(a)
    <3>1. Held(a)' = {an'[a].cid, an'[a].sid, req[Handler(a)].id, req[Reader(a)].id} \ {-1}
      BY <1>1 DEF Held
    <3> QED
      BY <1>2, <2>2, <3>1
  <2> QED
    BY <2>1, <2>3
<1>4. \A b \in Analyses : Adding(b)' = Adding(b)
  BY <1>1 DEF Adding
<1>5. OwnCalls'
  <2>1. OwnCalls
    BY DEF RowsInv
  <2>2. \A b \in Analyses : b # a => CallsOK(b, Handler(b))' /\ CallsOK(b, Reader(b))'
    BY <1>1, <1>2, <2>1 DEF OwnCalls, CallsOK
  <2>3. CallsOK(a, Handler(a))' /\ CallsOK(a, Reader(a))'
    <3>1. CallsOK(a, Handler(a)) /\ CallsOK(a, Reader(a)) /\ Handler(a) # Reader(a)
      BY <2>1, TwoClients DEF OwnCalls
    <3>2. CASE ~Adding(a)
      BY <1>1, <3>1, <3>2 DEF CallsOK, Adding
    <3>3. CASE an'[a].reader = an[a].reader /\ an'[a].read = an[a].read
      BY <1>1, <1>2, <3>1, <3>3 DEF CallsOK
    <3> QED
      BY <1>2, <3>2, <3>3
  <2> QED
    BY <2>2, <2>3 DEF OwnCalls
<1>6. HeldOK'
  BY <1>1, <1>3, HeldKept DEF RowsInv
<1> QED
  BY <1>1, <1>2, <1>3, <1>4, <1>5, <1>6, RowsStill

LEMMA QuietRows ==
  ASSUME UiInv, RowsInv, NEW a \in Analyses,
         \/ OpenPipe(a) \/ Sample(a) \/ ClosePipe(a) \/ Collected(a)
         \/ FinishAnswered(a) \/ PassEnds(a) \/ ReopenPipe(a) \/ ReaderEnds(a)
         \/ AnalysisFails(a) \/ RowAnswered(a)
  PROVE  RowsInv'
<1>1. Quiet
  BY DEF OpenPipe, Sample, ClosePipe, Collected, FinishAnswered, PassEnds, ReopenPipe,
     ReaderEnds, AnalysisFails, RowAnswered
<1>2. Adding(a) => an[a].reader = "sent" /\ ~Idle(Reader(a))
  BY AddingSent DEF RowsInv
<1>3. /\ an[a].cid \in Held(a) \cup {-1} /\ req[Reader(a)].id \in Held(a) \cup {-1}
  BY DEF Held
<1>4. CASE OpenPipe(a)
  <2>1. PICK read \in {an[a].read, IF an[a].reader = "open" THEN an[a].made ELSE an[a].read} :
          Step(a, [handler |-> "sample", writer |-> TRUE, read |-> read,
                   reader |-> IF an[a].reader = "open" THEN "read" ELSE an[a].reader])
    BY <1>4 DEF OpenPipe
  <2>2. read \in Nat /\ read >= an[a].read /\ (read = an[a].read \/ ~Adding(a))
    <3>1. an[a].made \in Nat /\ an[a].read \in 0 .. an[a].made
      BY DEF UiInv, AnInv, AnalysisOK
    <3> QED
      BY <1>2, <3>1
  <2> QED
    BY <1>1, <1>2, <2>1, <2>2, QuietKeeps
<1>5. CASE Sample(a)
  BY <1>1, <1>5, QuietKeeps DEF Sample
<1>6. CASE Collected(a)
  <2>1. \/ Step(a, [handler |-> "open", pass |-> an[a].pass + 1])
        \/ Step(a, [handler |-> "classify", sub |-> FALSE])
    BY <1>6 DEF Collected
  <2> QED
    BY <1>1, <2>1, QuietKeeps
<1>7. CASE FinishAnswered(a)
  <2>1. \/ Step(a, [handler |-> "fail"]) \/ Step(a, [handler |-> "end"])
        \/ Step(a, [handler |-> "log", sid |-> an[a].cid])
    BY <1>7 DEF FinishAnswered
  <2> QED
    BY <1>1, <1>3, <2>1, QuietKeeps
<1>8. CASE ReopenPipe(a)
  <2>1. ~Adding(a)
    BY <1>2, <1>8 DEF ReopenPipe
  <2> QED
    BY <1>1, <1>8, <2>1, QuietKeeps DEF ReopenPipe
<1>9. CASE ReaderEnds(a)
  <2>1. ~Adding(a)
    BY <1>2, <1>9 DEF ReaderEnds
  <2> QED
    BY <1>1, <1>9, <2>1, QuietKeeps DEF ReaderEnds
<1>10. CASE AnalysisFails(a)
  BY <1>1, <1>10, QuietKeeps DEF AnalysisFails
<1>11. CASE RowAnswered(a)
  <2>1. ~Adding(a)
    BY <1>2, <1>11 DEF RowAnswered
  <2>2. \/ Step(a, [reader |-> "fail"])
        \/ Step(a, [reader |-> "read", cid |-> req[Reader(a)].id])
    BY <1>11 DEF RowAnswered
  <2> QED
    BY <1>1, <1>3, <2>1, <2>2, QuietKeeps
<1>12. CASE ClosePipe(a)
  BY <1>1, <1>12, QuietKeeps DEF ClosePipe
<1>13. CASE PassEnds(a)
  <2>1. ~Adding(a)
    BY <1>2, <1>13 DEF PassEnds, EndOfFile
  <2> QED
    BY <1>1, <1>13, <2>1, QuietKeeps DEF PassEnds
<1> QED
  BY <1>4, <1>5, <1>6, <1>7, <1>8, <1>9, <1>10, <1>11, <1>12, <1>13

\* A request as it is made.
LEMMA AskHas ==
  ASSUME UiInv, NEW c \in Clients, NEW calls, NEW id, Ask(c, calls, id)
  PROVE  /\ \A x \in Clients : x # c => req'[x] = req[x]
         /\ req'[c].calls = calls /\ req'[c].seen = <<>> /\ req'[c].id = id /\ ~req'[c].err
<1> DEFINE r == [NoRequest EXCEPT !.calls = calls, !.id = id]
<1>1. DOMAIN req = Clients
  BY DEF UiInv, ReqInv
<1>2. req' = [req EXCEPT ![c] = r]
  BY DEF Ask
<1>3. r.calls = calls /\ r.seen = <<>> /\ r.id = id /\ r.err = FALSE
  BY DEF NoRequest
<1> HIDE DEF r
<1> QED
  BY <1>1, <1>2, <1>3

LEMMA PutHas ==
  ASSUME UiInv, NEW a \in Analyses, NEW c \in Clients, NEW calls \in Seq(AnalysisCalls), NEW id,
         TransferPut(c, a, calls, id)
  PROVE  LET all == req'[c].calls
         IN  /\ \A x \in Clients : x # c => req'[x] = req[x]
             /\ req'[c].seen = <<>> /\ req'[c].id = id /\ ~req'[c].err
             /\ id # -1 => all = calls
             /\ id = -1 => /\ Len(all) = Len(calls) + 1
                           /\ all[1].op = "add_new_collection" /\ all[1].ip = IpOf[a]
                           /\ \A i \in 2 .. Len(all) : all[i] = calls[i - 1]
<1> DEFINE new == [op |-> "add_new_collection", ip |-> IpOf[a], time |-> "now"]
           s == IF id = -1 THEN <<new>> \o calls ELSE calls
<1>1. Ask(c, s, id)
  BY DEF TransferPut
<1>2. new.op = "add_new_collection" /\ new.ip = IpOf[a] /\ new \in AnalysisCalls
  BY UiAssumption DEF AnalysisCalls
<1> HIDE DEF new
<1>3. LET t == <<new>> \o calls
      IN  Len(t) = Len(calls) + 1 /\ t[1] = new /\ \A i \in 2 .. Len(t) : t[i] = calls[i - 1]
  BY <1>2
<1> HIDE DEF s
<1>4. /\ \A x \in Clients : x # c => req'[x] = req[x]
      /\ req'[c].calls = s /\ req'[c].seen = <<>> /\ req'[c].id = id /\ ~req'[c].err
  BY <1>1, AskHas
<1> QED
  BY <1>2, <1>3, <1>4 DEF s

\* A step of an analysis that sends a request.
LEMMA SendKeeps ==
  ASSUME UiInv, RowsInv, NEW a \in Analyses, NEW c \in {Handler(a), Reader(a)},
         NEW calls \in Seq(AnalysisCalls), NEW id \in Held(a) \cup {-1},
         TransferPut(c, a, calls, id), db' = db,
         \A b \in Analyses : b # a => an'[b] = an[b],
         an'[a].cid = an[a].cid, an'[a].sid = an[a].sid,
         an'[a].read \in Nat, an'[a].read >= an[a].read,
         c = Handler(a) => an'[a].reader = an[a].reader /\ an'[a].read = an[a].read,
         \A i \in 1 .. Len(calls) :
           /\ calls[i].op # "add_new_collection"
           /\ calls[i].op = "add_collection_data" =>
                /\ c = Reader(a) /\ i = Len(calls) /\ calls[i].sample = <<a, an'[a].read>>
                /\ an'[a].reader = "sent" /\ an'[a].read > an[a].read
  PROVE  RowsInv'
<1> DEFINE all == req'[c].calls
<1>0. /\ \A x \in Clients : x # c => req'[x] = req[x]
      /\ req'[c].seen = <<>> /\ req'[c].id = id
      /\ id # -1 => all = calls
      /\ id = -1 => /\ Len(all) = Len(calls) + 1
                    /\ all[1].op = "add_new_collection" /\ all[1].ip = IpOf[a]
                    /\ \A i \in 2 .. Len(all) : all[i] = calls[i - 1]
      /\ c \in Clients /\ Len(calls) \in Nat /\ OwnCalls
      /\ \A b \in Analyses : an[b].read \in Nat
  BY PutHas, TwoClients, SMTT(30) DEF UiInv, AnInv, AnalysisOK, RowsInv
<1>1. ASSUME NEW i \in 1 .. Len(all)
      PROVE  \/ all[i].op = "add_new_collection" /\ all[i].ip = IpOf[a]
             \/ \E j \in 1 .. Len(calls) : /\ all[i] = calls[j]
                                           /\ j = Len(calls) <=> i = Len(all)
  <2>1. CASE id # -1
    BY <1>0, <2>1
  <2>2. CASE id = -1 /\ i = 1
    BY <1>0, <2>2
  <2>3. CASE id = -1 /\ i # 1
    <3>1. i - 1 \in 1 .. Len(calls) /\ all[i] = calls[i - 1]
          /\ (i - 1 = Len(calls) <=> i = Len(all))
      BY <1>0, <2>3
    <3> QED
      BY <3>1
  <2> QED
    BY <2>1, <2>2, <2>3
<1> HIDE DEF all
<1>2. ASSUME NEW i \in 1 .. Len(all)
      PROVE  /\ all[i].op = "add_new_collection" => all[i].ip = IpOf[a]
             /\ all[i].op = "add_collection_data" =>
                  /\ c = Reader(a) /\ i = Len(all) /\ all[i].sample = <<a, an'[a].read>>
                  /\ an'[a].reader = "sent" /\ an'[a].read > an[a].read
  BY <1>1
<1>3. OwnCalls'
  <2>1. \A b \in Analyses : b # a => CallsOK(b, Handler(b))' /\ CallsOK(b, Reader(b))'
    <3>1. \A b \in Analyses : b # a =>
            /\ req'[Handler(b)] = req[Handler(b)] /\ req'[Reader(b)] = req[Reader(b)]
            /\ CallsOK(b, Handler(b)) /\ CallsOK(b, Reader(b)) /\ an'[b] = an[b]
      BY <1>0, TwoClients DEF OwnCalls
    <3> QED
      BY <3>1, CallsSame
  <2>2. CallsOK(a, c)'
    BY <1>2 DEF CallsOK, all
  <2>3. CASE c = Handler(a)
    <3>1. req'[Reader(a)] = req[Reader(a)] /\ CallsOK(a, Reader(a))
          /\ an'[a].reader = an[a].reader /\ an'[a].read = an[a].read
      BY <1>0, <2>3, TwoClients DEF OwnCalls
    <3>2. CallsOK(a, Reader(a))'
      BY <3>1 DEF CallsOK
    <3> QED
      BY <2>1, <2>2, <2>3, <3>2 DEF OwnCalls
  <2>4. CASE c = Reader(a)
    <3>1. req'[Handler(a)] = req[Handler(a)] /\ CallsOK(a, Handler(a)) /\ Handler(a) # Reader(a)
      BY <1>0, <2>4, TwoClients DEF OwnCalls
    <3>2. CallsOK(a, Handler(a))'
      BY <3>1 DEF CallsOK
    <3> QED
      BY <2>1, <2>2, <2>4, <3>2 DEF OwnCalls
  <2> QED
    BY <2>3, <2>4
<1>4. \A b \in Analyses : Held(b)' \subseteq Held(b)
  <2>1. \A b \in Analyses : b # a => Held(b)' = Held(b)
    BY <1>0, TwoClients DEF Held
  <2>2. {req'[Handler(a)].id, req'[Reader(a)].id} \subseteq Held(a) \cup {-1}
    <3>1. \A x \in {Handler(a), Reader(a)} : req[x].id \in Held(a) \cup {-1}
      BY DEF Held
    <3>2. \A x \in {Handler(a), Reader(a)} : req'[x].id = req[x].id \/ req'[x].id = id
      BY <1>0, TwoClients
    <3> QED
      BY <3>1, <3>2
  <2>3. {an[a].cid, an[a].sid} \subseteq Held(a) \cup {-1}
    BY DEF Held
  <2>4. Held(a)' = {an'[a].cid, an'[a].sid, req'[Handler(a)].id, req'[Reader(a)].id} \ {-1}
    BY DEF Held
  <2>5. Held(a)' \subseteq Held(a)
    BY <2>2, <2>3, <2>4
  <2> QED
    BY <2>1, <2>5
<1>5. \A b \in Analyses : Adding(b)' => Adding(b) \/ an'[b].read > an[b].read
  <2>1. \A b \in Analyses : c # Reader(b) => Adding(b)' = Adding(b)
    BY <1>0, TwoClients DEF Adding
  <2>2. c = Reader(a) /\ Adding(a)' => an'[a].read > an[a].read
    BY <1>2 DEF Adding, all
  <2>3. \A b \in Analyses : c = Reader(b) => b = a
    BY TwoClients
  <2> QED
    BY <2>1, <2>2, <2>3
<1>6. HeldOK'
  BY <1>4, HeldKept DEF RowsInv
<1>7. \A b \in Analyses : an'[b].read \in Nat /\ an'[b].read >= an[b].read
  BY <1>0
<1> QED
  BY <1>0, <1>3, <1>4, <1>5, <1>6, <1>7, RowsStill

LEMMA SentCalls ==
  ASSUME NEW a \in Analyses, NEW n \in Nat
  PROVE  /\ Len(CsvRunning(a, n)) = 1
         /\ CsvRunning(a, n)[1].op = "add_collection_data"
         /\ CsvRunning(a, n)[1].sample = <<a, n>>
         /\ Len(LogRunning(a, n)) = 1 /\ LogRunning(a, n)[1].op = "add_analysis_log"
         /\ \A type, w : /\ Len(Finished(type, w)) = 2
                         /\ Finished(type, w)[1].op = "change_collection_status"
                         /\ Finished(type, w)[1].type = type
                         /\ Finished(type, w)[2].op = "change_collection_info"
  BY DEF CsvRunning, LogRunning, Finished

LEMMA SendRows ==
  ASSUME UiInv, RowsInv, NEW a \in Analyses,
         \/ Classified(a) \/ SendLine(a) \/ LogFinished(a) \/ ReadRow(a) \/ SendFinished(a)
  PROVE  RowsInv'
<1>0. an[a].read \in Nat /\ an[a].lines \in Nat
  BY DEF UiInv, AnInv, AnalysisOK
<1>1. db' = db
  BY DEF Classified, SendLine, LogFinished, ReadRow, SendFinished, Still
<1>2. an[a].cid \in Held(a) \cup {-1} /\ an[a].sid \in Held(a) \cup {-1}
  BY DEF Held
<1>3. ASSUME NEW type \in {"csv", "log"}, NEW w \in {"w", NoText},
             \/ type = "csv" \/ w = NoText
      PROVE  /\ Finished(type, w) \in Seq(AnalysisCalls)
             /\ \A i \in 1 .. Len(Finished(type, w)) :
                  Finished(type, w)[i].op \notin {"add_new_collection", "add_collection_data"}
  <2>1. Finished(type, w) \in Seq(AnalysisCalls)
    BY <1>0, <1>3, CallsOfAnalysis
  <2>2. /\ Len(Finished(type, w)) = 2
        /\ Finished(type, w)[1].op = "change_collection_status"
        /\ Finished(type, w)[2].op = "change_collection_info"
    BY <1>0, SentCalls
  <2> QED
    BY <2>1, <2>2
<1>4. CASE Classified(a)
  <2>1. TransferPut(Handler(a), a, Finished("csv", "w"), an[a].cid)
        /\ Step(a, [handler |-> "finish"])
    BY <1>4 DEF Classified
  <2>2. /\ \A b \in Analyses : b # a => an'[b] = an[b]
        /\ an'[a].cid = an[a].cid /\ an'[a].sid = an[a].sid
        /\ an'[a].read = an[a].read /\ an'[a].reader = an[a].reader
    BY <2>1, StepHas DEF AnRow
  <2> QED
    BY <1>0, <1>1, <1>2, <1>3, <2>1, <2>2, SendKeeps, SMTT(30)
<1>5. CASE SendLine(a)
  <2> DEFINE n == an[a].lines + 1
  <2>1. TransferPut(Handler(a), a, LogRunning(a, n), an[a].sid)
        /\ Step(a, [lines |-> n])
    BY <1>5 DEF SendLine
  <2>2. /\ \A b \in Analyses : b # a => an'[b] = an[b]
        /\ an'[a].cid = an[a].cid /\ an'[a].sid = an[a].sid
        /\ an'[a].read = an[a].read /\ an'[a].reader = an[a].reader
    BY <2>1, StepHas DEF AnRow
  <2>3. n \in Nat
    BY <1>0
  <2> HIDE DEF n
  <2>4. LogRunning(a, n) \in Seq(AnalysisCalls) /\ Len(LogRunning(a, n)) = 1
        /\ LogRunning(a, n)[1].op = "add_analysis_log"
    BY <2>3, CallsOfAnalysis, SentCalls
  <2> QED
    BY <1>0, <1>1, <1>2, <2>1, <2>2, <2>4, SendKeeps
<1>6. CASE LogFinished(a)
  <2>1. TransferPut(Handler(a), a, Finished("log", NoText), an[a].sid)
        /\ Step(a, [handler |-> "end"])
    BY <1>6 DEF LogFinished
  <2>2. /\ \A b \in Analyses : b # a => an'[b] = an[b]
        /\ an'[a].cid = an[a].cid /\ an'[a].sid = an[a].sid
        /\ an'[a].read = an[a].read /\ an'[a].reader = an[a].reader
    BY <2>1, StepHas DEF AnRow
  <2> QED
    BY <1>0, <1>1, <1>2, <1>3, <2>1, <2>2, SendKeeps, SMTT(30)
<1>7. CASE ReadRow(a)
  <2> DEFINE n == an[a].read + 1
             calls == CsvRunning(a, n)
  <2>1. TransferPut(Reader(a), a, calls, an[a].cid)
        /\ Step(a, [reader |-> "sent", read |-> n])
    BY <1>7 DEF ReadRow
  <2>2. /\ \A b \in Analyses : b # a => an'[b] = an[b]
        /\ an'[a].cid = an[a].cid /\ an'[a].sid = an[a].sid
        /\ an'[a].read = n /\ an'[a].reader = "sent"
    BY <2>1, StepHas DEF AnRow
  <2>3. n \in Nat /\ n > an[a].read
    BY <1>0
  <2> HIDE DEF n
  <2>4. calls \in Seq(AnalysisCalls) /\ Len(calls) = 1
        /\ calls[1].op = "add_collection_data" /\ calls[1].sample = <<a, n>>
    BY <2>3, CallsOfAnalysis, SentCalls
  <2> HIDE DEF calls
  <2>5. Reader(a) # Handler(a) /\ n >= an[a].read
    BY <1>0, <2>3, TwoClients
  <2>6. \A i \in 1 .. Len(calls) :
          /\ calls[i].op # "add_new_collection"
          /\ i = Len(calls) /\ calls[i].sample = <<a, an'[a].read>>
    BY <2>2, <2>4
  <2> QED
    BY <1>1, <1>2, <2>1, <2>2, <2>3, <2>4, <2>5, <2>6, SendKeeps
<1>8. CASE SendFinished(a)
  <2> DEFINE calls == Finished("csv", NoText)
  <2>1. TransferPut(Reader(a), a, calls, an[a].cid)
        /\ Step(a, [reader |-> "last"])
    BY <1>8 DEF SendFinished
  <2>2. /\ \A b \in Analyses : b # a => an'[b] = an[b]
        /\ an'[a].cid = an[a].cid /\ an'[a].sid = an[a].sid
        /\ an'[a].read = an[a].read
    BY <2>1, StepHas DEF AnRow
  <2>3. Reader(a) # Handler(a)
    BY TwoClients
  <2>4. /\ calls \in Seq(AnalysisCalls)
        /\ \A i \in 1 .. Len(calls) :
             calls[i].op \notin {"add_new_collection", "add_collection_data"}
    BY <1>3
  <2> HIDE DEF calls
  <2>5. an'[a].read \in Nat /\ an'[a].read >= an[a].read
    BY <1>0, <2>2
  <2> QED
    BY <1>1, <1>2, <2>1, <2>2, <2>3, <2>4, <2>5, SendKeeps
<1> QED
  BY <1>4, <1>5, <1>6, <1>7, <1>8

\* A request of a tuning or of a web user.
LEMMA OtherRows ==
  ASSUME UiInv, RowsInv, NEW c \in Clients, ~OfAnalysis(c), NEW calls, Ask(c, calls, -1),
         UNCHANGED <<db, an>>
  PROVE  RowsInv'
<1>1. /\ \A x \in Clients : x # c => req'[x] = req[x]
      /\ req'[c].seen = <<>> /\ \A a \in Analyses : c # Handler(a) /\ c # Reader(a)
      /\ \A a \in Analyses : an[a].read \in Nat
  BY AskHas, Owners DEF UiInv, AnInv, AnalysisOK
<1>2. \A a \in Analyses : req'[Handler(a)] = req[Handler(a)] /\ req'[Reader(a)] = req[Reader(a)]
  BY <1>1, TwoClients
<1>3. /\ \A a \in Analyses : Held(a)' = Held(a) /\ Adding(a)' = Adding(a)
      /\ OwnCalls => OwnCalls'
  <2>1. \A a \in Analyses : Held(a)' = Held(a)
    BY <1>2 DEF Held
  <2>2. \A a \in Analyses : Adding(a)' = Adding(a)
    BY <1>2 DEF Adding
  <2>3. OwnCalls => OwnCalls'
    BY <1>2, CallsSame DEF OwnCalls
  <2> QED
    BY <2>1, <2>2, <2>3
<1>4. HeldOK'
  BY <1>3, HeldKept DEF RowsInv
<1> QED
  BY <1>1, <1>3, <1>4, RowsStill DEF RowsInv

LEMMA InitRows == Init => RowsInv
<1> SUFFICES ASSUME Init PROVE RowsInv
  OBVIOUS
<1>1. /\ req = [c \in Clients |-> NoRequest] /\ an = [a \in Analyses |-> NewAnalysis]
      /\ db.data = NoData
  BY DEF Init
<1>2. \A a \in Analyses : Held(a) = {}
  BY <1>1, TwoClients DEF Held, NoRequest, NewAnalysis
<1>3. NoRequest.calls = <<>> /\ Len(<<>>) = 0 /\ NoRequest.seen = <<>>
  BY DEF NoRequest
<1>4. OwnCalls
  BY <1>1, <1>3, TwoClients DEF OwnCalls, CallsOK
<1>5. DOMAIN db.data.rows = {}
  BY <1>1 DEF NoData, Empty
<1> QED
  BY <1>1, <1>2, <1>3, <1>4, <1>5 DEF RowsInv, HeldOK, RowsOK, RowsHeld, SeenRows

LEMMA NextRows == UiInv /\ RowsInv /\ [Next]_vars => RowsInv'
<1> SUFFICES ASSUME UiInv, RowsInv, [Next]_vars PROVE RowsInv'
  OBVIOUS
<1>1. work.analyses \subseteq Analyses /\ work.webs \subseteq Webs
  BY UiAssumption DEF UiInv
<1>2. CASE UNCHANGED vars
  BY <1>2, RowsUnchanged DEF vars
<1>3. ASSUME NEW c \in Clients, OpenSession(c) PROVE RowsInv'
  BY <1>3, OpenRows
<1>4. ASSUME NEW c \in Clients, CommitSession(c) PROVE RowsInv'
  BY <1>4, CommitRows
<1>5. ASSUME NEW a \in work.analyses, AnalysisStep(a) \/ AnalysisFails(a)
      PROVE  RowsInv'
  <2>1. a \in Analyses
    BY <1>1
  <2> QED
    BY <1>5, <2>1, QuietRows, SendRows DEF AnalysisStep
<1>6. ASSUME NEW t \in Tunings, TuningPut(t) PROVE RowsInv'
  <2>1. Tuner(t) \in Clients /\ ~OfAnalysis(Tuner(t))
    BY DEF Clients, Tuner, OfAnalysis
  <2> QED
    BY <1>6, <2>1, OtherRows DEF TuningPut
<1>7. ASSUME NEW w \in work.webs, WebRequest(w) PROVE RowsInv'
  <2>1. Browser(w) \in Clients /\ ~OfAnalysis(Browser(w))
    BY <1>1 DEF Clients, Browser, OfAnalysis
  <2>2. PICK r \in work.routes : \E calls \in Routes(r) : Ask(Browser(w), calls, -1)
    BY <1>7 DEF WebRequest
  <2>3. PICK calls \in Routes(r) : Ask(Browser(w), calls, -1)
    BY <2>2
  <2> QED
    BY <1>7, <2>1, <2>3, OtherRows DEF WebRequest
<1>8. CASE Poll
  BY <1>8, RowsUnchanged DEF Poll
<1> QED
  BY <1>2, <1>3, <1>4, <1>5, <1>6, <1>7, <1>8 DEF Next

LEMMA AlwaysRows == Spec => [](UiInv /\ RowsInv)
<1>1. Init => UiInv /\ RowsInv
  BY InitInv, InitRows
<1>2. UiInv /\ RowsInv /\ [Next]_vars => (UiInv /\ RowsInv)'
  BY NextInv, NextRows
<1> QED
  BY <1>1, <1>2, PTL DEF Spec

-----------------------------------------------------------------------------
(* The end of an analysis: collections finish with the count of their rows *)

\* What a session leaves of a collection to which it adds no row.
LEMMA MineStill ==
  ASSUME UiInv, Later(db, db') \/ db' = db, NEW c,
         DataRounds(db'.data, c) = DataRounds(db.data, c),
         c \in DOMAIN db.coll =>
           db'.coll[c].total \in {db.coll[c].total, DataMaxRound(db.data, c)}
  PROVE  /\ \A a : Mine(a, c)' => Mine(a, c)
         /\ c \in DOMAIN db.coll /\ Done(c) => Done(c)'
<1>1. DataMaxRound(db'.data, c) = DataMaxRound(db.data, c)
  BY DEF DataMaxRound
<1>2. c \in DOMAIN db.coll => db'.coll[c].ip = db.coll[c].ip
                              /\ (db.coll[c].status = "finished" => db'.coll[c].status = "finished")
  BY DEF Later
<1>3. DataRounds(db.data, c) # {} => c \in DOMAIN db.coll
  BY DEF UiInv, Good, Read, DataOK, Keyed, DataRounds
<1>4. ASSUME NEW a, Mine(a, c)' PROVE Mine(a, c)
  BY <1>2, <1>3, <1>4 DEF Mine
<1>5. c \in DOMAIN db.coll /\ Done(c) => Done(c)'
  BY <1>1, <1>2 DEF Done
<1> QED
  BY <1>4, <1>5

LEMMA RoundsSame ==
  ASSUME db'.data.rows = db.data.rows
  PROVE  \A c : DataRounds(db'.data, c) = DataRounds(db.data, c)
  BY DEF DataRounds

\* A session of somebody else than the goroutine and its handler.
LEMMA MineElse ==
  ASSUME UiInv, EndInv, NEW a \in Analyses, Later(db, db') \/ db' = db,
         \A c : Mine(a, c)' =>
           /\ DataRounds(db'.data, c) = DataRounds(db.data, c)
           /\ c \in DOMAIN db.coll =>
                db'.coll[c].total \in {db.coll[c].total, DataMaxRound(db.data, c)},
         an'[a] = an[a], req'[Reader(a)].err = req[Reader(a)].err,
         \A x \in {Reader(a), Handler(a)} : req'[x].calls = req[x].calls /\ req'[x].id = req[x].id
  PROVE  PipeOK(a)' /\ FreshOK(a)' /\ \A c : Mine(a, c)' => MineOK(a, c)'
<1>1. PipeOK(a)' /\ FreshOK(a)'
  BY DEF EndInv, EndOK, PipeOK, FreshOK
<1>2. ASSUME NEW c, Mine(a, c)' PROVE MineOK(a, c)'
  <2>1. Mine(a, c) /\ c \in DOMAIN db.coll /\ (Done(c) => Done(c)')
    BY <1>2, MineStill DEF Mine
  <2>2. MineOK(a, c)
    BY <2>1 DEF EndInv, EndOK
  <2>3. /\ Pending(Reader(a), c)' <=> Pending(Reader(a), c)
        /\ Pending(Handler(a), c)' <=> Pending(Handler(a), c)
    BY DEF Pending
  <2>4. Idle(Reader(a))' <=> Idle(Reader(a))
    BY DEF Idle
  <2>5. HandlerOK(a, c) => HandlerOK(a, c)'
    BY <2>1, <2>3 DEF HandlerOK
  <2> QED
    BY <2>1, <2>2, <2>3, <2>4, <2>5 DEF MineOK
<1> QED
  BY <1>1, <1>2

LEMMA CommitTotals ==
  ASSUME UiInv, NEW c \in Clients, CommitSession(c), NEW x \in DOMAIN db.coll
  PROVE  db'.coll[x].total \in {db.coll[x].total, DataMaxRound(db.data, x)}
<1>1. /\ Good(db) /\ Request(Call(c)) /\ Read(Reads(c))
      /\ db' = Run(Call(c), Reads(c), db).db
  BY CommitRuns DEF UiInv, Outcome
<1>2. CASE Call(c).op = "add_new_collection"
  BY <1>1, <1>2, CollectionRows
<1>3. CASE Call(c).op # "add_new_collection"
  BY <1>1, <1>3, CollectionTotals
<1> QED
  BY <1>2, <1>3

LEMMA CommitRounds ==
  ASSUME UiInv, NEW c \in Clients, CommitSession(c), NEW x,
         Call(c).op # "add_collection_data" \/ x # Call(c).cid
  PROVE  DataRounds(db'.data, x) = DataRounds(db.data, x)
<1> DEFINE q == Call(c)
<1>1. /\ Good(db) /\ DOMAIN db = Fields /\ Request(q) /\ Read(Reads(c))
      /\ db' = Run(q, Reads(c), db).db
  BY CommitRuns DEF UiInv, Outcome, Good, Read
<1>2. CASE q.op = "add_new_collection"
  BY <1>1, <1>2, CollectionRows, RoundsSame
<1>3. CASE q.op \notin {"add_new_collection", "add_collection_data"}
  BY <1>1, <1>3, Untouched, RoundsSame
<1>4. CASE q.op = "add_collection_data"
  <2> DEFINE n == DataMaxRound(Reads(c).data, q.cid) + 1
             k == <<q.cid, n>>
  <2>1. \/ db'.data.rows = db.data.rows
        \/ db'.data.rows = Insert(db.data.rows, k, q.sample)
    BY <1>1, <1>4, SampleRows
  <2> HIDE DEF n
  <2>2. CASE db'.data.rows = Insert(db.data.rows, k, q.sample)
    <3>1. DOMAIN db'.data.rows = DOMAIN db.data.rows \cup {k}
      BY <2>2 DEF Insert
    <3>2. k[1] # x
      BY <1>4
    <3> QED
      BY <3>1, <3>2 DEF DataRounds
  <2> QED
    BY <2>1, <2>2, RoundsSame
<1> QED
  BY <1>2, <1>3, <1>4

\* A row goes to the collection of the goroutine that sends it.
LEMMA SampleOwner ==
  ASSUME UiInv, RowsInv, NEW c \in Clients, CommitSession(c),
         Call(c).op = "add_collection_data"
  PROVE  \E a \in Analyses : /\ c = Reader(a) /\ an[a].reader = "sent"
                             /\ db.coll[Call(c).cid].ip = IpOf[a]
<1>1. PICK a \in Analyses : c \in {Handler(a), Reader(a)}
  BY CommitOwner
<1>2. /\ 1 \in 1 .. Len(req[c].calls) /\ req[c].calls[1].op = "add_collection_data"
  BY CommitReq, CommitRuns
<1>3. CallsOK(a, c) /\ HeldOK
  BY <1>1 DEF RowsInv, OwnCalls
<1>4. c = Reader(a) /\ an[a].reader = "sent"
  BY <1>2, <1>3 DEF CallsOK
<1>5. Call(c).cid = req[c].id /\ Call(c).cid \in DOMAIN db.coll
  BY CommitOwner, CommitRuns DEF Rows
<1>6. Call(c).cid # -1
  BY <1>5 DEF UiInv, Good, Read, CollOK, Ids, Bounded
<1> QED
  BY <1>3, <1>4, <1>5, <1>6 DEF Held, HeldOK

LEMMA SampleAnswer ==
  ASSUME UiInv, NEW c \in Clients, CommitSession(c), Call(c).op = "add_collection_data"
  PROVE  Outcome(c).err \/ Outcome(c).val = Call(c).cid
<1> DEFINE q == Call(c)
<1>1. Request(q) /\ Good(db) /\ q.op = "add_collection_data"
  BY CommitRuns DEF UiInv
<1>2. Outcome(c) = Run(q, Reads(c), db)
  BY DEF Outcome
<1> HIDE DEF q
<1>3. Run(q, Reads(c), db).err \/ Run(q, Reads(c), db).val = q.cid
  BY <1>1, SampleRows, ZenonT(60)
<1> QED
  BY <1>2, <1>3 DEF q

LEMMA ReaderCommit ==
  ASSUME UiInv, RowsInv, EndInv, NEW a \in Analyses, CommitSession(Reader(a))
  PROVE  PipeOK(a)' /\ FreshOK(a)' /\ \A x : Mine(a, x)' => MineOK(a, x)'
<1> DEFINE c == Reader(a)
           q == Call(c)
           r == Outcome(c)
<1>0. /\ c \in Clients /\ Good(db) /\ Request(q) /\ Read(Reads(c)) /\ an' = an
      /\ q.op = Head(req[c].calls).op /\ q.cid = req[c].id
      /\ r = Run(q, Reads(c), db) /\ db' = r.db /\ Later(db, db')
      /\ req[c].calls # <<>> /\ req'[c].id = r.val /\ req'[c].err = r.err
      /\ r.err => req'[c].calls = <<>>
      /\ Head(req[c].calls) = req[c].calls[1] /\ Len(req[c].calls) \in Nat
      /\ Len(req[c].calls) > 0
  <2>1. c \in Clients /\ OfAnalysis(c)
    BY TwoClients DEF OfAnalysis, Reader
  <2>2. r.err => Stops(q, r)
    BY DEF Stops
  <2> QED
    BY <2>1, <2>2, CommitRuns, CommitReq, CommitStep DEF UiInv, Outcome
<1>1. PipeOK(a)'
  BY <1>0 DEF EndInv, EndOK, PipeOK
<1>2. FreshOK(a) /\ 1 \in 1 .. Len(req[c].calls)
  BY <1>0 DEF EndInv, EndOK
<1> HIDE DEF c, q, r
<1>5. ASSUME NEW x, HandlerOK(a, x), Done(x) => Done(x)' PROVE HandlerOK(a, x)'
  <2>1. req'[Handler(a)] = req[Handler(a)]
    BY <1>0, TwoClients, CommitReq DEF c
  <2>2. Pending(Handler(a), x)' = Pending(Handler(a), x)
    BY <2>1 DEF Pending
  <2> QED
    BY <1>0, <1>5, <2>2 DEF HandlerOK
<1>3. FreshOK(a)'
  <2>1. ASSUME NEW i \in 1 .. Len(req'[c].calls)
        PROVE  req'[c].calls[i].op # "add_new_collection"
    <3>1. /\ Len(req'[c].calls) = Len(req[c].calls) - 1
          /\ req'[c].calls[i] = req[c].calls[i + 1]
      <4>1. req'[c].calls # <<>>
        BY <2>1
      <4> QED
        BY <1>0, <2>1, <4>1, CommitReq DEF c
    <3>2. i + 1 \in 1 .. Len(req[c].calls) /\ i + 1 # 1
      BY <1>0, <2>1, <3>1
    <3> QED
      BY <1>2, <3>1, <3>2 DEF FreshOK, c
  <2> QED
    BY <2>1 DEF FreshOK, c
<1>4. ASSUME NEW x, Mine(a, x)' PROVE MineOK(a, x)'
  <2>1. x \in DOMAIN db'.coll
    BY <1>4 DEF Mine
  <2>2. CASE q.op = "add_collection_data"
    <3>1. an[a].reader = "sent"
      <4>1. PICK b \in Analyses : c = Reader(b) /\ an[b].reader = "sent"
        BY <1>0, <2>2, SampleOwner DEF c, q
      <4> QED
        BY <4>1, TwoClients DEF c
    <3>2. r.err \/ r.val = q.cid
      BY <1>0, <2>2, SampleAnswer DEF r, q, c
    <3>3. CASE r.err
      BY <1>0, <3>1, <3>3 DEF MineOK, Idle, c
    <3>4. CASE r.val = q.cid /\ x = q.cid
      BY <1>0, <3>1, <3>4 DEF MineOK, c
    <3>5. CASE x # q.cid
      <4>1. Mine(a, x)
        <5>1. DataRounds(db'.data, x) = DataRounds(db.data, x)
          BY <1>0, <3>5, CommitRounds DEF c, q
        <5> QED
          BY <1>0, <1>4, <5>1, MineStill, CommitTotals DEF c
      <4>2. MineOK(a, x)
        BY <4>1 DEF EndInv, EndOK
      <4> QED
        BY <1>0, <3>1, <3>5, <4>2 DEF MineOK, Idle, c
    <3> QED
      BY <3>2, <3>3, <3>4, <3>5
  <2>3. CASE q.op # "add_collection_data"
    <3>1. Mine(a, x) /\ (Done(x) => Done(x)')
      <4>1. DataRounds(db'.data, x) = DataRounds(db.data, x)
        BY <1>0, <2>3, CommitRounds DEF c, q
      <4>2. x \in DOMAIN db.coll => db'.coll[x].total \in {db.coll[x].total, DataMaxRound(db.data, x)}
        BY <1>0, CommitTotals DEF c
      <4>3. Mine(a, x)
        BY <1>0, <1>4, <4>1, <4>2, MineStill
      <4> QED
        BY <1>0, <4>1, <4>2, <4>3, MineStill DEF Mine
    <3>2. MineOK(a, x) /\ x \in DOMAIN db.coll /\ x # -1
      BY <3>1 DEF EndInv, EndOK, Mine, UiInv, Good, Read, CollOK, Ids, Bounded
    <3>3. CASE q.op = "add_new_collection"
      <4>1. req[c].id = -1
        BY <1>0, <1>2, <3>3 DEF FreshOK, c
      <4> QED
        BY <1>0, <1>5, <3>1, <3>2, <4>1 DEF MineOK, Pending, Idle, c
    <3>4. CASE q.op # "add_new_collection"
      <4>1. r.val = req[c].id \/ r.err
        <5>1. req[c].calls \in Seq(AnalysisCalls)
          BY <1>0 DEF UiInv, ReqInv, RequestOK, OfAnalysis, c, Reader
        <5>2. Head(req[c].calls) \in AnalysisCalls
          BY <1>0, <5>1, HeadTail
        <5>3. q.op \in {"add_analysis_log", "change_collection_status",
                        "change_collection_info"}
          BY <1>0, <2>3, <3>4, <5>2, AnalysisOps
        <5>4. /\ q.op \in {"add_collection_data", "add_analysis_log"} => q.cid \in DOMAIN db.coll
              /\ q.op \in Racing \/ Reads(c) = db
          BY <1>0, CommitRuns DEF Rows, c, q
        <5> QED
          BY <1>0, <5>3, <5>4, Answers DEF r, Outcome, q
      <4>2. CASE an[a].reader = "sent"
        BY <1>0, <3>2, <4>1, <4>2 DEF MineOK, Idle, c
      <4>3. CASE an[a].reader = "last" /\ Pending(c, x)
        <5>1. q.op = "change_collection_status" /\ q.type = "csv" /\ q.cid = x
          <6>1. /\ Head(req[c].calls).op = "change_collection_status"
                /\ Head(req[c].calls).type = "csv" /\ req[c].id = x
            BY <4>3 DEF Pending
          <6>2. "type" \in DOMAIN Head(req[c].calls)
            BY <1>0, <6>1, HeadFields
          <6> QED
            BY <1>0, <6>1, <6>2, CallHas DEF q
        <5>2. /\ db'.coll[x].status = "finished"
              /\ db'.coll[x].total = DataMaxRound(db.data, x)
          BY <1>0, <3>2, <5>1, CollectionTotals
        <5>3. DataMaxRound(db'.data, x) = DataMaxRound(db.data, x)
          BY <1>0, <2>3, CommitRounds DEF c, q, DataMaxRound
        <5>4. Done(x)' /\ an[a].cid = x
          <6>1. an[a].cid = x
            BY <3>2, <4>3 DEF MineOK
          <6> QED
            BY <5>2, <5>3, <6>1 DEF Done
        <5> QED
          BY <1>0, <4>3, <5>4 DEF MineOK
      <4>4. CASE an[a].reader # "sent" /\ ~(an[a].reader = "last" /\ Pending(c, x))
        BY <1>0, <1>5, <3>1, <3>2, <4>4 DEF MineOK, c
      <4> QED
        BY <4>2, <4>3, <4>4
    <3> QED
      BY <3>3, <3>4
  <2> QED
    BY <2>2, <2>3
<1> QED
  BY <1>1, <1>3, <1>4

\* Nothing of an analysis moves when another one does, or a tuning or a user.
LEMMA EndElse ==
  ASSUME UiInv, EndInv, NEW a \in Analyses, db' = db, an'[a] = an[a],
         req'[Reader(a)] = req[Reader(a)], req'[Handler(a)] = req[Handler(a)]
  PROVE  EndOK(a)'
  BY MineElse DEF EndOK

LEMMA QuietEnd ==
  ASSUME UiInv, EndInv, NEW a \in Analyses,
         \/ OpenPipe(a) \/ Sample(a) \/ ClosePipe(a) \/ Collected(a)
         \/ FinishAnswered(a) \/ PassEnds(a) \/ ReopenPipe(a) \/ ReaderEnds(a)
         \/ AnalysisFails(a) \/ RowAnswered(a)
  PROVE  /\ \A b \in Analyses : b # a => an'[b] = an[b]
         /\ EndOK(a)'
<1>0. db' = db /\ req' = req
  BY DEF OpenPipe, Sample, ClosePipe, Collected, FinishAnswered, PassEnds, ReopenPipe,
     ReaderEnds, AnalysisFails, RowAnswered, Quiet, Still
<1>1. PipeOK(a) /\ FreshOK(a) /\ FreshOK(a)'
  BY <1>0 DEF EndInv, EndOK, FreshOK
<1>2. \A c : /\ Mine(a, c)' = Mine(a, c) /\ Done(c)' = Done(c)
             /\ \A x : Pending(x, c)' = Pending(x, c)
  BY <1>0 DEF Mine, Done, Pending
<1>3. Idle(Reader(a))' = Idle(Reader(a))
  BY <1>0 DEF Idle
<1>4. SUFFICES /\ \A b \in Analyses : b # a => an'[b] = an[b]
               /\ PipeOK(a)' /\ \A c : MineOK(a, c) => MineOK(a, c)'
  BY <1>1, <1>2 DEF EndOK, EndInv, EndOK
<1>14. \A c : \/ an'[a].handler = an[a].handler
              \/ an'[a].handler \notin {"finish", "log", "end"}
              => (HandlerOK(a, c) => HandlerOK(a, c)')
  BY <1>2 DEF HandlerOK
<1>5. CASE OpenPipe(a)
  <2>1. PICK read : Step(a, [handler |-> "sample", writer |-> TRUE, read |-> read,
                 reader |-> IF an[a].reader = "open" THEN "read" ELSE an[a].reader])
    BY <1>5 DEF OpenPipe
  <2>2. /\ an'[a].handler = "sample" /\ an'[a].cid = an[a].cid
        /\ an'[a].reader = IF an[a].reader = "open" THEN "read" ELSE an[a].reader
        /\ \A b \in Analyses : b # a => an'[b] = an[b]
    BY <2>1, StepHas DEF AnRow
  <2> QED
    BY <1>0, <1>2, <1>3, <1>14, <2>2 DEF PipeOK, MineOK
<1>6. CASE Sample(a)
  <2>1. Step(a, [made |-> an[a].made + 1])
    BY <1>6 DEF Sample
  <2>2. /\ an'[a].handler = an[a].handler
        /\ an'[a].cid = an[a].cid /\ an'[a].reader = an[a].reader /\ an'[a].sub = an[a].sub
        /\ \A b \in Analyses : b # a => an'[b] = an[b]
    BY <2>1, StepHas DEF AnRow
  <2> QED
    BY <1>0, <1>1, <1>2, <1>3, <1>14, <2>2 DEF PipeOK, MineOK
<1>7. CASE Collected(a)
  <2>1. \/ Step(a, [handler |-> "open", pass |-> an[a].pass + 1])
        \/ Step(a, [handler |-> "classify", sub |-> FALSE])
    BY <1>7 DEF Collected
  <2>2. /\ an'[a].handler = "open" \/ (an'[a].handler = "classify" /\ an'[a].sub = FALSE)
        /\ an'[a].cid = an[a].cid /\ an'[a].reader = an[a].reader
        /\ \A b \in Analyses : b # a => an'[b] = an[b]
    BY <2>1, StepHas DEF AnRow
  <2> QED
    BY <1>0, <1>1, <1>2, <1>3, <1>14, <2>2 DEF PipeOK, MineOK
<1>8. CASE FinishAnswered(a)
  <2>1. \/ Step(a, [handler |-> "fail"]) \/ Step(a, [handler |-> "end"])
        \/ Step(a, [handler |-> "log", sid |-> an[a].cid])
    BY <1>8 DEF FinishAnswered
  <2>2. /\ an'[a].handler \in {"fail", "end", "log"} /\ an'[a].sub = an[a].sub
        /\ an'[a].cid = an[a].cid /\ an'[a].reader = an[a].reader
        /\ \A b \in Analyses : b # a => an'[b] = an[b]
    BY <2>1, StepHas DEF AnRow
  <2>3. an[a].handler = "finish" /\ req[Handler(a)].calls = <<>>
    BY <1>8 DEF FinishAnswered, Idle
  <2>4. \A c : HandlerOK(a, c) => HandlerOK(a, c)'
    BY <1>2, <2>2, <2>3 DEF HandlerOK, Pending
  <2> QED
    BY <1>0, <1>1, <1>2, <1>3, <2>2, <2>3, <2>4 DEF PipeOK, MineOK
<1>9. CASE ReopenPipe(a)
  <2>0. an[a].reader = "again"
    BY <1>9 DEF ReopenPipe
  <2>1. PICK r \in {"gone", "read", "open"} : Step(a, [reader |-> r])
    BY <1>9 DEF ReopenPipe
  <2>2. /\ an'[a].handler = an[a].handler /\ an'[a].sub = an[a].sub
        /\ an'[a].cid = an[a].cid /\ an'[a].reader \in {"gone", "read", "open"}
        /\ \A b \in Analyses : b # a => an'[b] = an[b]
    BY <2>1, StepHas DEF AnRow
  <2> QED
    BY <1>0, <1>1, <1>2, <1>3, <1>14, <2>0, <2>2 DEF PipeOK, MineOK
<1>10. CASE ReaderEnds(a)
  <2>1. /\ Step(a, [reader |-> IF req[Reader(a)].err THEN "fail" ELSE "end"])
        /\ an[a].reader = "last" /\ req[Reader(a)].calls = <<>>
    BY <1>10 DEF ReaderEnds, Idle
  <2>2. /\ an'[a].handler = an[a].handler /\ an'[a].sub = an[a].sub
        /\ an'[a].cid = an[a].cid /\ an'[a].reader \in {"fail", "end"}
        /\ \A b \in Analyses : b # a => an'[b] = an[b]
    BY <2>1, StepHas DEF AnRow
  <2>3. \A c : ~Pending(Reader(a), c)
    BY <2>1 DEF Pending
  <2> QED
    BY <1>0, <1>1, <1>2, <1>3, <2>1, <2>2, <2>3 DEF PipeOK, MineOK
<1>11. CASE AnalysisFails(a)
  <2>1. Step(a, [handler |-> "fail", writer |-> FALSE])
    BY <1>11 DEF AnalysisFails
  <2>2. /\ an'[a].handler = "fail"
        /\ an'[a].cid = an[a].cid /\ an'[a].reader = an[a].reader
        /\ \A b \in Analyses : b # a => an'[b] = an[b]
    BY <2>1, StepHas DEF AnRow
  <2> QED
    BY <1>0, <1>1, <1>2, <1>3, <1>14, <2>2 DEF PipeOK, MineOK
<1>12. CASE RowAnswered(a)
  <2>1. /\ Step(a, IF req[Reader(a)].err THEN [reader |-> "fail"]
                   ELSE [reader |-> "read", cid |-> req[Reader(a)].id])
        /\ an[a].reader = "sent"
    BY <1>12 DEF RowAnswered
  <2>2. CASE req[Reader(a)].err
    <3>1. Step(a, [reader |-> "fail"])
      BY <2>1, <2>2
    <3>2. /\ an'[a].handler = an[a].handler /\ an'[a].sub = an[a].sub
          /\ an'[a].reader = "fail"
          /\ \A b \in Analyses : b # a => an'[b] = an[b]
      BY <3>1, StepHas DEF AnRow
    <3> QED
      BY <1>1, <3>2 DEF PipeOK, MineOK
  <2>3. CASE ~req[Reader(a)].err
    <3>1. Step(a, [reader |-> "read", cid |-> req[Reader(a)].id])
      BY <2>1, <2>3
    <3>2. /\ an'[a].handler = an[a].handler /\ an'[a].sub = an[a].sub
          /\ an'[a].reader = "read"
          /\ an'[a].cid = req[Reader(a)].id
          /\ \A b \in Analyses : b # a => an'[b] = an[b]
      BY <3>1, StepHas DEF AnRow
    <3> QED
      BY <1>1, <2>1, <2>3, <3>2 DEF PipeOK, MineOK
  <2> QED
    BY <2>2, <2>3
<1>13. CASE ClosePipe(a)
  <2>1. Step(a, [handler |-> "collected", writer |-> FALSE])
    BY <1>13 DEF ClosePipe
  <2>2. /\ an'[a].handler = "collected"
        /\ an'[a].cid = an[a].cid /\ an'[a].reader = an[a].reader
        /\ \A b \in Analyses : b # a => an'[b] = an[b]
    BY <2>1, StepHas DEF AnRow
  <2> QED
    BY <1>0, <1>1, <1>2, <1>3, <1>14, <2>2 DEF PipeOK, MineOK
<1>15. CASE PassEnds(a)
  <2>1. Step(a, [reader |-> "again"])
    BY <1>15 DEF PassEnds
  <2>4. an[a].reader = "read" /\ an[a].sub
    BY <1>15 DEF PassEnds, EndOfFile
  <2>2. /\ an'[a].handler = an[a].handler /\ an'[a].sub = an[a].sub
        /\ an'[a].cid = an[a].cid /\ an'[a].reader = "again"
        /\ \A b \in Analyses : b # a => an'[b] = an[b]
    BY <2>1, StepHas DEF AnRow
  <2>3. \A c : HandlerOK(a, c)'
    BY <1>1, <2>2, <2>4 DEF PipeOK, HandlerOK
  <2> QED
    BY <1>1, <2>2, <2>3, <2>4 DEF PipeOK, MineOK
<1> QED
  BY <1>5, <1>6, <1>7, <1>8, <1>9, <1>10, <1>11, <1>12, <1>13, <1>15

LEMMA SendEnd ==
  ASSUME UiInv, EndInv, NEW a \in Analyses,
         \/ Classified(a) \/ SendLine(a) \/ LogFinished(a) \/ ReadRow(a) \/ SendFinished(a)
  PROVE  \A b \in Analyses : EndOK(b)'
<1>0. /\ db' = db /\ an[a].read \in Nat /\ an[a].lines \in Nat
      /\ \A b \in Analyses : Reader(b) \in Clients /\ Handler(b) \in Clients
      /\ \A b \in Analyses : /\ Handler(a) # Reader(b) /\ Handler(b) # Reader(a)
                             /\ b # a => Reader(b) # Reader(a) /\ Handler(b) # Handler(a)
  BY TwoClients DEF UiInv, AnInv, AnalysisOK,
     Classified, SendLine, LogFinished, ReadRow, SendFinished, Still
<1>1. PipeOK(a) /\ FreshOK(a) /\ \A c : Mine(a, c)' => Mine(a, c) /\ MineOK(a, c) /\ c # -1
  <2>1. -1 \notin DOMAIN db.coll
    BY DEF UiInv, Good, Read, CollOK, Ids, Bounded
  <2> QED
    BY <1>0, <2>1 DEF EndInv, EndOK, Mine
<1>2. ASSUME NEW calls \in Seq(AnalysisCalls), NEW id, TransferPut(Handler(a), a, calls, id),
             \A b \in Analyses : b # a => an'[b] = an[b],
             an'[a].cid = an[a].cid, an'[a].reader = an[a].reader, an'[a].sub = an[a].sub,
             \/ /\ an'[a].handler = "finish" /\ an[a].handler = "classify"
                /\ an[a].cid # -1 => Pending(Handler(a), an[a].cid)'
             \/ an'[a].handler \in {"log", "end"} /\ an[a].handler = "log"
      PROVE  \A b \in Analyses : EndOK(b)'
  <2>1. /\ \A b \in Analyses : req'[Reader(b)] = req[Reader(b)]
        /\ \A b \in Analyses : b # a => req'[Handler(b)] = req[Handler(b)]
    BY <1>0, <1>2, PutHas
  <2>2. \A b \in Analyses : b # a => EndOK(b)'
    BY <1>0, <1>2, <2>1, EndElse
  <2>3. PipeOK(a)' /\ FreshOK(a)'
    BY <1>1, <1>2, <2>1 DEF PipeOK, FreshOK
  <2>4. \A c : MineOK(a, c) /\ c # -1 => MineOK(a, c)'
    <3>1. \A c : Pending(Reader(a), c)' = Pending(Reader(a), c) /\ Done(c)' = Done(c)
      BY <1>0, <2>1 DEF Pending, Done
    <3>2. Idle(Reader(a))' = Idle(Reader(a))
      BY <2>1 DEF Idle
    <3>3. \A c : HandlerOK(a, c) /\ c # -1 /\ an[a].cid = c => HandlerOK(a, c)'
      BY <1>2, <3>1 DEF HandlerOK
    <3> QED
      BY <1>2, <2>1, <3>1, <3>2, <3>3 DEF MineOK
  <2> QED
    BY <1>1, <2>2, <2>3, <2>4 DEF EndOK
<1>3. CASE Classified(a)
  <2>1. TransferPut(Handler(a), a, Finished("csv", "w"), an[a].cid)
        /\ Step(a, [handler |-> "finish"]) /\ an[a].handler = "classify"
    BY <1>3 DEF Classified
  <2>2. /\ \A b \in Analyses : b # a => an'[b] = an[b]
        /\ an'[a].cid = an[a].cid /\ an'[a].sub = an[a].sub
        /\ an'[a].handler = "finish" /\ an'[a].reader = an[a].reader
    BY <2>1, StepHas DEF AnRow
  <2> DEFINE calls == Finished("csv", "w")
  <2>3. /\ calls \in Seq(AnalysisCalls) /\ Len(calls) = 2
        /\ calls[1].op = "change_collection_status" /\ calls[1].type = "csv"
    BY <1>0, CallsOfAnalysis, SentCalls
  <2>4. ASSUME an[a].cid # -1 PROVE Pending(Handler(a), an[a].cid)'
    <3>1. TransferPut(Handler(a), a, calls, an[a].cid)
      BY <2>1
    <3> HIDE DEF calls
    <3>2. req'[Handler(a)].calls = calls /\ req'[Handler(a)].id = an[a].cid
      BY <1>0, <2>3, <2>4, <3>1, PutHas
    <3>3. calls # <<>> /\ Head(calls) = calls[1]
      BY <2>3
    <3> QED
      BY <2>2, <2>3, <3>2, <3>3 DEF Pending
  <2> HIDE DEF calls
  <2> QED
    BY <1>2, <2>1, <2>2, <2>3, <2>4 DEF calls
<1>4. CASE SendLine(a)
  <2> DEFINE n == an[a].lines + 1
  <2>1. TransferPut(Handler(a), a, LogRunning(a, n), an[a].sid)
        /\ Step(a, [lines |-> n]) /\ an[a].handler = "log"
    BY <1>4 DEF SendLine
  <2>2. /\ \A b \in Analyses : b # a => an'[b] = an[b]
        /\ an'[a].cid = an[a].cid /\ an'[a].sub = an[a].sub
        /\ an'[a].handler = an[a].handler /\ an'[a].reader = an[a].reader
    BY <2>1, StepHas DEF AnRow
  <2>3. n \in Nat
    BY <1>0
  <2> HIDE DEF n
  <2>4. LogRunning(a, n) \in Seq(AnalysisCalls)
    BY <2>3, CallsOfAnalysis
  <2> QED
    BY <1>2, <2>1, <2>2, <2>4
<1>5. CASE LogFinished(a)
  <2>1. TransferPut(Handler(a), a, Finished("log", NoText), an[a].sid)
        /\ Step(a, [handler |-> "end"]) /\ an[a].handler = "log"
    BY <1>5 DEF LogFinished
  <2>2. /\ \A b \in Analyses : b # a => an'[b] = an[b]
        /\ an'[a].cid = an[a].cid /\ an'[a].sub = an[a].sub
        /\ an'[a].handler = "end" /\ an'[a].reader = an[a].reader
    BY <2>1, StepHas DEF AnRow
  <2>3. Finished("log", NoText) \in Seq(AnalysisCalls)
    BY <1>0, CallsOfAnalysis
  <2> QED
    BY <1>2, <2>1, <2>2, <2>3
<1>6. ASSUME NEW calls \in Seq(AnalysisCalls), calls # <<>>,
             \A i \in 1 .. Len(calls) : calls[i].op # "add_new_collection",
             TransferPut(Reader(a), a, calls, an[a].cid),
             \A b \in Analyses : b # a => an'[b] = an[b],
             an'[a].cid = an[a].cid, an'[a].handler = an[a].handler,
             an'[a].sub = an[a].sub, an[a].reader = "read",
             \/ an'[a].reader = "sent"
             \/ /\ an'[a].reader = "last" /\ calls[1].op = "change_collection_status"
                /\ calls[1].type = "csv"
      PROVE  \A b \in Analyses : EndOK(b)'
  <2> DEFINE c == Reader(a)
  <2>1. /\ \A b \in Analyses : b # a => /\ req'[Reader(b)] = req[Reader(b)]
                                       /\ req'[Handler(b)] = req[Handler(b)]
        /\ req'[c].id = an[a].cid
        /\ an[a].cid # -1 => req'[c].calls = calls
        /\ an[a].cid = -1 => \A i \in 2 .. Len(req'[c].calls) :
             /\ i - 1 \in 1 .. Len(calls) /\ req'[c].calls[i] = calls[i - 1]
    <3>1. Len(calls) \in Nat
      OBVIOUS
    <3>2. /\ \A x \in Clients : x # c => req'[x] = req[x]
          /\ req'[c].id = an[a].cid
          /\ an[a].cid # -1 => req'[c].calls = calls
          /\ an[a].cid = -1 => /\ Len(req'[c].calls) = Len(calls) + 1
                               /\ \A i \in 2 .. Len(req'[c].calls) : req'[c].calls[i] = calls[i - 1]
      BY <1>0, <1>6, PutHas
    <3> QED
      BY <1>0, <3>1, <3>2
  <2>2. \A b \in Analyses : b # a => EndOK(b)'
    BY <1>0, <1>6, <2>1, EndElse
  <2>3. PipeOK(a)'
    BY <1>1, <1>6 DEF PipeOK
  <2>4. FreshOK(a)'
    <3>1. CASE an[a].cid = -1
      BY <1>6, <2>1, <3>1 DEF FreshOK
    <3>2. CASE an[a].cid # -1
      BY <1>6, <2>1, <3>2 DEF FreshOK
    <3> QED
      BY <3>1, <3>2
  <2>5. ASSUME NEW x, MineOK(a, x), x # -1 PROVE MineOK(a, x)'
    <3>1. an[a].cid = x
      BY <1>6, <2>5 DEF MineOK
    <3>2. req'[c].calls = calls /\ req'[c].id = x
      BY <2>1, <2>5, <3>1
    <3>3. CASE an'[a].reader = "sent"
      BY <3>2, <3>3 DEF MineOK
    <3>4. CASE an'[a].reader = "last" /\ calls[1].op = "change_collection_status"
               /\ calls[1].type = "csv"
      <4>1. Head(calls) = calls[1]
        BY <1>6
      <4>2. Pending(Reader(a), x)'
        BY <1>6, <3>2, <3>4, <4>1 DEF Pending
      <4> QED
        BY <1>6, <3>1, <3>4, <4>2 DEF MineOK
    <3> QED
      BY <1>6, <3>3, <3>4
  <2> QED
    BY <1>1, <2>2, <2>3, <2>4, <2>5 DEF EndOK
<1>7. CASE ReadRow(a)
  <2> DEFINE n == an[a].read + 1
  <2>1. TransferPut(Reader(a), a, CsvRunning(a, n), an[a].cid)
        /\ Step(a, [reader |-> "sent", read |-> n]) /\ an[a].reader = "read"
    BY <1>7 DEF ReadRow
  <2>2. /\ \A b \in Analyses : b # a => an'[b] = an[b]
        /\ an'[a].cid = an[a].cid /\ an'[a].sub = an[a].sub
        /\ an'[a].handler = an[a].handler /\ an'[a].reader = "sent"
    BY <2>1, StepHas DEF AnRow
  <2>3. n \in Nat
    BY <1>0
  <2> HIDE DEF n
  <2>4. CsvRunning(a, n) \in Seq(AnalysisCalls) /\ Len(CsvRunning(a, n)) = 1
        /\ CsvRunning(a, n)[1].op = "add_collection_data"
    BY <2>3, CallsOfAnalysis, SentCalls
  <2>5. CsvRunning(a, n) # <<>>
        /\ \A i \in 1 .. Len(CsvRunning(a, n)) : CsvRunning(a, n)[i].op # "add_new_collection"
    <3>1. \A i \in 1 .. Len(CsvRunning(a, n)) : i = 1
      BY <2>4
    <3>2. CsvRunning(a, n) # <<>>
      <4>1. CsvRunning(a, n) = <<>> => Len(CsvRunning(a, n)) = 0
        OBVIOUS
      <4> QED
        BY <2>4, <4>1
    <3>3. \A i \in 1 .. Len(CsvRunning(a, n)) : CsvRunning(a, n)[i].op # "add_new_collection"
      BY <2>4, <3>1
    <3> QED
      BY <3>2, <3>3
  <2> QED
    BY <1>6, <2>1, <2>2, <2>4, <2>5
<1>8. CASE SendFinished(a)
  <2> DEFINE calls == Finished("csv", NoText)
  <2>1. TransferPut(Reader(a), a, calls, an[a].cid)
        /\ Step(a, [reader |-> "last"]) /\ an[a].reader = "read"
    BY <1>8 DEF SendFinished, EndOfFile
  <2>2. /\ \A b \in Analyses : b # a => an'[b] = an[b]
        /\ an'[a].cid = an[a].cid /\ an'[a].sub = an[a].sub
        /\ an'[a].handler = an[a].handler /\ an'[a].reader = "last"
    BY <2>1, StepHas DEF AnRow
  <2>3. calls \in Seq(AnalysisCalls) /\ Len(calls) = 2
        /\ calls[1].op = "change_collection_status" /\ calls[1].type = "csv"
        /\ calls[2].op = "change_collection_info"
    BY <1>0, CallsOfAnalysis, SentCalls
  <2> HIDE DEF calls
  <2>4. calls # <<>> /\ \A i \in 1 .. Len(calls) : calls[i].op # "add_new_collection"
    <3>1. \A i \in 1 .. Len(calls) : i = 1 \/ i = 2
      BY <2>3
    <3>2. calls # <<>>
      <4>1. calls = <<>> => Len(calls) = 0
        OBVIOUS
      <4> QED
        BY <2>3, <4>1
    <3>3. \A i \in 1 .. Len(calls) : calls[i].op # "add_new_collection"
      BY <2>3, <3>1
    <3> QED
      BY <3>2, <3>3
  <2> QED
    BY <1>6, <2>1, <2>2, <2>3, <2>4
<1> QED
  BY <1>3, <1>4, <1>5, <1>7, <1>8

\* The handler finishes the collection it has the id of and adds no row.
LEMMA HandlerCommit ==
  ASSUME UiInv, RowsInv, EndInv, NEW a \in Analyses, CommitSession(Handler(a))
  PROVE  PipeOK(a)' /\ FreshOK(a)' /\ \A x : Mine(a, x)' => MineOK(a, x)'
<1> DEFINE c == Handler(a)
           q == Call(c)
<1>0. /\ c \in Clients /\ Good(db) /\ Request(q) /\ Read(Reads(c)) /\ an' = an
      /\ q.op = Head(req[c].calls).op /\ q.cid = req[c].id
      /\ db' = Run(q, Reads(c), db).db /\ Later(db, db') /\ req[c].calls # <<>>
      /\ req'[Reader(a)] = req[Reader(a)] /\ PipeOK(a) /\ FreshOK(a)
  <2>1. c \in Clients /\ OfAnalysis(c)
    BY TwoClients DEF OfAnalysis, Handler
  <2> QED
    BY <2>1, TwoClients, CommitRuns, CommitReq, CommitStep DEF UiInv, Outcome, EndInv, EndOK
<1>1. q.op # "add_collection_data"
  BY <1>0, SampleOwner, TwoClients
<1> HIDE DEF c, q
<1>2. ASSUME NEW x, Mine(a, x)' PROVE MineOK(a, x)'
  <2>1. DataRounds(db'.data, x) = DataRounds(db.data, x)
    BY <1>0, <1>1, CommitRounds DEF c, q
  <2>2. x \in DOMAIN db.coll => db'.coll[x].total \in {db.coll[x].total, DataMaxRound(db.data, x)}
    BY <1>0, CommitTotals DEF c
  <2>3. Mine(a, x) /\ x \in DOMAIN db.coll /\ (Done(x) => Done(x)')
    BY <1>0, <1>2, <2>1, <2>2, MineStill DEF Mine
  <2>4. MineOK(a, x)
    BY <2>3 DEF EndInv, EndOK
  <2>5. Pending(Reader(a), x)' = Pending(Reader(a), x) /\ Idle(Reader(a))' = Idle(Reader(a))
    BY <1>0 DEF Pending, Idle
  <2>6. ASSUME Pending(c, x) PROVE Done(x)'
    <3>1. q.op = "change_collection_status" /\ q.type = "csv" /\ q.cid = x
      <4>1. /\ Head(req[c].calls).op = "change_collection_status"
            /\ Head(req[c].calls).type = "csv" /\ req[c].id = x
        BY <2>6 DEF Pending
      <4>2. "type" \in DOMAIN Head(req[c].calls)
        BY <1>0, <4>1, HeadFields
      <4> QED
        BY <1>0, <4>1, <4>2, CallHas DEF q
    <3>2. /\ db'.coll[x].status = "finished"
          /\ db'.coll[x].total = DataMaxRound(db.data, x)
      BY <1>0, <2>3, <3>1, CollectionTotals
    <3>3. DataMaxRound(db'.data, x) = DataMaxRound(db.data, x)
      BY <2>1 DEF DataMaxRound
    <3> QED
      BY <3>2, <3>3 DEF Done
  <2>7. HandlerOK(a, x) => HandlerOK(a, x)'
    BY <1>0, <2>3, <2>6 DEF HandlerOK, c
  <2> QED
    BY <1>0, <2>3, <2>4, <2>5, <2>7 DEF MineOK
<1> QED
  BY <1>0, <1>2 DEF PipeOK, FreshOK

LEMMA CommitEnd ==
  ASSUME Separate, UiInv, RowsInv, EndInv, NEW c \in Clients, CommitSession(c),
         NEW a \in Analyses
  PROVE  EndOK(a)'
<1>1. CASE c = Reader(a)
  BY <1>1, ReaderCommit DEF EndOK
<1>3. CASE c = Handler(a)
  BY <1>3, HandlerCommit DEF EndOK
<1>2. CASE c # Reader(a) /\ c # Handler(a)
  <2>1. /\ Later(db, db') /\ an' = an /\ req'[Reader(a)] = req[Reader(a)]
        /\ req'[Handler(a)] = req[Handler(a)]
    BY <1>2, CommitStep, CommitReq, TwoClients
  <2>2. ASSUME NEW x, Mine(a, x)'
        PROVE  DataRounds(db'.data, x) = DataRounds(db.data, x)
    <3>1. CASE Call(c).op # "add_collection_data"
      BY <3>1, CommitRounds
    <3>2. CASE Call(c).op = "add_collection_data"
      <4>1. PICK b \in Analyses : c = Reader(b) /\ db.coll[Call(c).cid].ip = IpOf[b]
        BY <3>2, SampleOwner
      <4>2. b # a /\ IpOf[b] # IpOf[a]
        BY <1>2, <4>1 DEF Separate
      <4>3. Call(c).cid \in DOMAIN db.coll
        BY <3>2, CommitRuns DEF Rows
      <4>4. db'.coll[Call(c).cid].ip = IpOf[b]
        BY <2>1, <4>1, <4>3 DEF Later
      <4>5. x # Call(c).cid
        BY <2>2, <4>2, <4>4 DEF Mine
      <4> QED
        BY <4>5, CommitRounds
    <3> QED
      BY <3>1, <3>2
  <2> QED
    BY <2>1, <2>2, CommitTotals, MineElse DEF EndOK
<1> QED
  BY <1>1, <1>2, <1>3

LEMMA OpenEnd ==
  ASSUME UiInv, EndInv, NEW c \in Clients, OpenSession(c), NEW a \in Analyses
  PROVE  EndOK(a)'
<1>1. /\ DOMAIN req = Clients /\ DOMAIN req[c] = ReqRow /\ Good(db) /\ DOMAIN db = Fields
      /\ DOMAIN db.data = DataRow
  BY DEF UiInv, ReqInv, RequestOK, Good, Read, DataOK
<1>2. /\ req' = [req EXCEPT ![c].seen = <<db>>] /\ an' = an
      /\ db' = TableMade(Call(c), db)
  BY DEF OpenSession
<1>3. \A x \in Clients : /\ req'[x].calls = req[x].calls /\ req'[x].id = req[x].id
                         /\ req'[x].err = req[x].err
  BY <1>1, <1>2 DEF ReqRow
<1>4. db'.data.rows = db.data.rows /\ db'.coll = db.coll
  <2> DEFINE made == [db.data EXCEPT !.made = TRUE]
  <2>1. made.rows = db.data.rows
    BY <1>1 DEF DataRow
  <2>2. \/ db' = db \/ db' = [db EXCEPT !.data = made]
        \/ db' = [db EXCEPT !.tdata = Insert(@, Call(c).project, TuningTable(Call(c).params))]
    BY <1>2 DEF TableMade
  <2> HIDE DEF made
  <2> QED
    BY <1>1, <2>1, <2>2 DEF Fields
<1>5. Later(db, db')
  BY OpenStep
<1> QED
  BY <1>2, <1>3, <1>4, <1>5, MineElse, RoundsSame, TwoClients DEF EndOK

LEMMA InitEnd == Init => EndInv
<1> SUFFICES ASSUME Init PROVE EndInv
  OBVIOUS
<1>1. /\ req = [c \in Clients |-> NoRequest] /\ an = [a \in Analyses |-> NewAnalysis]
      /\ db.coll = Empty
  BY DEF Init
<1>2. \A a \in Analyses : /\ an[a].handler = "open" /\ req[Reader(a)].calls = <<>>
  BY <1>1, TwoClients DEF NoRequest, NewAnalysis
<1>3. Len(<<>>) = 0 /\ DOMAIN db.coll = {}
  BY <1>1 DEF Empty
<1> QED
  BY <1>2, <1>3 DEF EndInv, EndOK, PipeOK, FreshOK, Mine

LEMMA NextEnd == Separate /\ UiInv /\ RowsInv /\ EndInv /\ [Next]_vars => EndInv'
<1> SUFFICES ASSUME Separate, UiInv, RowsInv, EndInv, [Next]_vars, NEW a \in Analyses
             PROVE  EndOK(a)'
  BY DEF EndInv, EndOK
<1>1. work.analyses \subseteq Analyses /\ work.webs \subseteq Webs
  BY UiAssumption DEF UiInv
<1>2. CASE UNCHANGED vars
  BY <1>2, EndElse DEF vars
<1>3. ASSUME NEW c \in Clients, OpenSession(c) PROVE EndOK(a)'
  BY <1>3, OpenEnd
<1>4. ASSUME NEW c \in Clients, CommitSession(c) PROVE EndOK(a)'
  BY <1>4, CommitEnd
<1>5. ASSUME NEW b \in work.analyses, AnalysisStep(b) \/ AnalysisFails(b)
      PROVE  EndOK(a)'
  <2>1. b \in Analyses
    BY <1>1
  <2>2. CASE \/ OpenPipe(b) \/ Sample(b) \/ ClosePipe(b) \/ Collected(b)
             \/ FinishAnswered(b) \/ PassEnds(b) \/ ReopenPipe(b) \/ ReaderEnds(b)
             \/ AnalysisFails(b) \/ RowAnswered(b)
    <3>1. db' = db /\ req' = req
      BY <2>2 DEF OpenPipe, Sample, ClosePipe, Collected, FinishAnswered, PassEnds,
         ReopenPipe, ReaderEnds, AnalysisFails, RowAnswered, Quiet, Still
    <3>2. EndOK(b)' /\ (a # b => an'[a] = an[a])
      BY <2>1, <2>2, QuietEnd
    <3> QED
      BY <3>1, <3>2, EndElse
  <2>3. CASE \/ Classified(b) \/ SendLine(b) \/ LogFinished(b) \/ ReadRow(b)
             \/ SendFinished(b)
    BY <2>1, <2>3, SendEnd
  <2> QED
    BY <1>5, <2>2, <2>3 DEF AnalysisStep
<1>6. ASSUME NEW t \in Tunings, TuningPut(t) PROVE EndOK(a)'
  <2>1. Tuner(t) \in Clients /\ ~OfAnalysis(Tuner(t))
    BY DEF Clients, Tuner, OfAnalysis
  <2>2. /\ Tuner(t) # Reader(a) /\ Reader(a) \in Clients
        /\ Tuner(t) # Handler(a) /\ Handler(a) \in Clients
    BY <2>1, Owners, TwoClients
  <2> QED
    BY <1>6, <2>1, <2>2, AskHas, EndElse DEF TuningPut
<1>7. ASSUME NEW w \in work.webs, WebRequest(w) PROVE EndOK(a)'
  <2>1. Browser(w) \in Clients /\ ~OfAnalysis(Browser(w))
    BY <1>1 DEF Clients, Browser, OfAnalysis
  <2>2. /\ Browser(w) # Reader(a) /\ Reader(a) \in Clients
        /\ Browser(w) # Handler(a) /\ Handler(a) \in Clients
    BY <2>1, Owners, TwoClients
  <2>3. PICK r \in work.routes : \E calls \in Routes(r) : Ask(Browser(w), calls, -1)
    BY <1>7 DEF WebRequest
  <2>4. PICK calls \in Routes(r) : Ask(Browser(w), calls, -1)
    BY <2>3
  <2> QED
    BY <1>7, <2>1, <2>2, <2>4, AskHas, EndElse DEF WebRequest
<1>8. CASE Poll
  BY <1>8, EndElse DEF Poll
<1> QED
  BY <1>2, <1>3, <1>4, <1>5, <1>6, <1>7, <1>8 DEF Next

(* When analyses have addresses of their own and a handler has ended well,  *)
(* its goroutine without an error, every collection of its samples is       *)
(* finished and its total_round is the number of its rows, whatever the     *)
(* order of the two last messages, and also when the goroutine is left in   *)
(* OpenFile and sends none (Analysis, change_collection_status).            *)
THEOREM EndedExact ==
  ASSUME \A a, b \in Analyses : IpOf[a] = IpOf[b] => a = b
  PROVE  Spec => []EndedIsExact
<1>0. Separate
  BY DEF Separate
<1>1. Init => EndInv
  BY InitEnd
<1>2. UiInv /\ RowsInv /\ EndInv /\ [Next]_vars => EndInv'
  BY <1>0, NextEnd
<1>3. UiInv /\ EndInv => EndedIsExact
  <2> SUFFICES ASSUME UiInv, EndInv, NEW a \in work.analyses, Settled(a),
                      an[a].handler = "end", an[a].reader # "fail",
                      NEW c \in DOMAIN db.coll, db.coll[c].ip = IpOf[a],
                      DataRounds(db.data, c) # {}
               PROVE  db.coll[c].status = "finished" /\ db.coll[c].total = DataMaxRound(db.data, c)
    BY DEF EndedIsExact
  <2>1. a \in Analyses
    BY UiAssumption DEF UiInv
  <2>2. PipeOK(a) /\ (Mine(a, c) => MineOK(a, c))
    BY <2>1 DEF EndInv, EndOK
  <2>3. an[a].reader \in {"open", "gone", "end"}
    BY DEF Settled
  <2> QED
    BY <2>2, <2>3 DEF Mine, MineOK, HandlerOK, Done
<1> QED
  BY <1>1, <1>2, <1>3, AlwaysRows, PTL DEF Spec

-----------------------------------------------------------------------------
(* The rounds of a tuning                                                  *)

\* What the triggers write to tuning_table, and what for.
LEMMA TuneWrites ==
  ASSUME NEW q, q.op \in {"change_tuning_baseline", "change_tuning_status", "rename_tuning",
                          "update_tuning_description", "update_command_description"},
         NEW s, NEW d, DOMAIN d = Fields
  PROVE  LET e == Run(q, s, d).db
         IN  \/ e.tune = d.tune
             \/ \E keys, column, value :
                  /\ e.tune = Update(d.tune, keys, column, value)
                  /\ column \in {"base", "desc"}
             \/ /\ q.op = "rename_tuning"
                /\ e.tune = Update(d.tune, TuningNamed(d.tune, q.name), "name", q.new)
             \/ /\ q.op = "change_tuning_status"
                /\ e.tune = Update(d.tune, TuningNamed(d.tune, q.name), "status", "finished")
                /\ Scalar(s.tune, TuningNamed(s.tune, q.name), "total", NoNumber)
                     = TableMaxRound(s.tdata[q.project])
<1> DEFINE e == Run(q, s, d).db
<1>1. CASE q.op = "change_tuning_baseline"
  <2>1. e.tune = Update(d.tune, TuningNamed(d.tune, q.name), "base", q.base)
    BY <1>1 DEF Run, ChangeTuningBaseline, Reply, UpdateBaseline, Fields
  <2> HIDE DEF e
  <2> QED
    BY <2>1 DEF e
<1>2. CASE q.op = "update_tuning_description"
  <2>1. e.tune = Update(d.tune, {q.tid}, "desc", q.desc)
    BY <1>2 DEF Run, UpdateTuningDesc, Reply, UpdateTuningDescription, Fields
  <2> HIDE DEF e
  <2> QED
    BY <2>1 DEF e
<1>3. CASE q.op = "update_command_description"
  <2> DEFINE mid == Scalar(d.cmd, DOMAIN d.cmd \cap {q.kid}, "mid", NoNumber)
  <2>1. e.tune = Update(d.tune, {mid}, "desc", q.desc)
    BY <1>3 DEF Run, UpdateCommandDescription, Reply, UpdateTuningDescription, Fields
  <2> HIDE DEF e, mid
  <2> QED
    BY <2>1 DEF e
<1>4. CASE q.op = "rename_tuning"
  BY <1>4 DEF Run, RenameTuning, Commit, Reply, UpdateTuningName, Fields
<1>5. CASE q.op = "change_tuning_status"
  BY <1>5 DEF Run, ChangeTuningStatus, Commit, Reply, UpdateTuningStatus, Fields
<1> QED
  BY <1>1, <1>2, <1>3, <1>4, <1>5

LEMMA TableKept ==
  ASSUME NEW table, NEW tune, TableOK(table, tune), NEW tune2, DOMAIN tune \subseteq DOMAIN tune2,
         \A t \in DOMAIN tune : Renames \/ tune2[t].name = tune[t].name
  PROVE  TableOK(table, tune2)
  BY DEF TableOK

LEMMA TunesOnly ==
  ASSUME NEW d, TablesOK(d), NEW e, e.tdata = d.tdata, DOMAIN d.tune \subseteq DOMAIN e.tune,
         \A t \in DOMAIN d.tune : Renames \/ e.tune[t].name = d.tune[t].name,
         \A t \in DOMAIN e.tune : e.tune[t].status = "finished" =>
           (t \in DOMAIN d.tune /\ d.tune[t].status = "finished") \/ LastRound(d)
  PROVE  TablesOK(e)
<1>1. \A p \in DOMAIN e.tdata : TableOK(e.tdata[p], e.tune)
  BY TableKept DEF TablesOK
<1>2. LastRound(d) => LastRound(e)
  BY DEF LastRound
<1> QED
  BY <1>1, <1>2 DEF TablesOK

\* A table as long as the tuning has its last round.
LEMMA MaxIsRow ==
  ASSUME NEW table, NEW tune, TableOK(table, tune), TableMaxRound(table) = Rounds
  PROVE  \E k \in DOMAIN table.rows : k[2] = Rounds
<1> DEFINE S == {k[2] : k \in DOMAIN table.rows}
<1>1. Bounded(S)
  BY DEF TableOK, Bounded
<1>2. MaxOf(S) = Rounds /\ Rounds \in Nat \ {0}
  BY UiAssumption DEF TableMaxRound
<1>3. S # {}
  BY <1>2 DEF MaxOf
<1>4. Rounds \in S
  <2> HIDE DEF S
  <2> QED
    BY <1>1, <1>2, <1>3, MaxOfBounded
<1> QED
  BY <1>4

\* What a trigger is asked for by a tuning or by a user.
TuneAsk(q, d) ==
  /\ q.op = "rename_tuning" => Renames
  /\ q.op = "add_tuning_data" => q.name \in work.tunings /\ q.row = <<q.name, q.round>>
  /\ q.op = "change_tuning_status" => q.project \in DOMAIN d.tdata

LEMMA TunesRun ==
  ASSUME NEW q, Request(q), NEW d, Good(d), TablesOK(d), TuneAsk(q, d), NEW s,
         q.op \in {"change_tuning_baseline", "change_tuning_status", "rename_tuning",
                   "update_tuning_description", "update_command_description"},
         q.op = "change_tuning_status" => s = d
  PROVE  LET e == Run(q, s, d).db IN TablesOK(e) /\ DOMAIN e.tune = DOMAIN d.tune
<1> DEFINE e == Run(q, s, d).db
<1>0. DOMAIN d = Fields /\ TuneOK(d.tune)
  BY DEF Good, Read
<1>1. e.tdata = d.tdata
  BY <1>0, Untouched
<1>2. \/ e.tune = d.tune
      \/ \E keys, column, value : /\ e.tune = Update(d.tune, keys, column, value)
                                  /\ column \in {"base", "desc"}
      \/ /\ q.op = "rename_tuning"
         /\ e.tune = Update(d.tune, TuningNamed(d.tune, q.name), "name", q.new)
      \/ /\ q.op = "change_tuning_status"
         /\ e.tune = Update(d.tune, TuningNamed(d.tune, q.name), "status", "finished")
         /\ Scalar(s.tune, TuningNamed(s.tune, q.name), "total", NoNumber)
              = TableMaxRound(s.tdata[q.project])
  BY <1>0, TuneWrites
<1> HIDE DEF e
<1>3. CASE e.tune = d.tune
  BY <1>1, <1>3, TunesOnly DEF TablesOK, e
<1>4. ASSUME NEW keys, NEW column, NEW value, e.tune = Update(d.tune, keys, column, value),
             column \in {"base", "desc"}
      PROVE  TablesOK(e) /\ DOMAIN e.tune = DOMAIN d.tune
  <2>1. DOMAIN e.tune = DOMAIN d.tune
        /\ \A t \in DOMAIN d.tune : /\ e.tune[t].name = d.tune[t].name
                                    /\ e.tune[t].status = d.tune[t].status
    BY <1>0, <1>4, UpdateHas DEF TuneOK, TuneRow
  <2> QED
    BY <1>1, <2>1, TunesOnly
<1>5. CASE /\ q.op = "rename_tuning"
           /\ e.tune = Update(d.tune, TuningNamed(d.tune, q.name), "name", q.new)
  <2>1. DOMAIN e.tune = DOMAIN d.tune
        /\ \A t \in DOMAIN d.tune : e.tune[t].status = d.tune[t].status
    BY <1>0, <1>5, UpdateHas DEF TuneOK, TuneRow
  <2>2. Renames
    BY <1>5 DEF TuneAsk
  <2> QED
    BY <1>1, <2>1, <2>2, TunesOnly DEF e
<1>6. CASE /\ q.op = "change_tuning_status"
           /\ e.tune = Update(d.tune, TuningNamed(d.tune, q.name), "status", "finished")
           /\ Scalar(s.tune, TuningNamed(s.tune, q.name), "total", NoNumber)
                = TableMaxRound(s.tdata[q.project])
  <2> DEFINE named == TuningNamed(d.tune, q.name)
  <2>1. /\ DOMAIN e.tune = DOMAIN d.tune
        /\ \A t \in DOMAIN d.tune : e.tune[t].name = d.tune[t].name
        /\ \A t \in DOMAIN d.tune : t \notin named => e.tune[t] = d.tune[t]
    BY <1>0, <1>6, UpdateHas DEF TuneOK, TuneRow
  <2>2. CASE named = {}
    BY <1>1, <2>1, <2>2, TunesOnly DEF e
  <2>3. CASE named # {}
    <3>1. named \subseteq DOMAIN d.tune /\ DOMAIN d.tune \subseteq Nat
      BY <1>0 DEF TuningNamed, Where, TuneOK, Ids, Bounded
    <3>2. Min(named) \in named
      <4>1. \E m \in named : \A n \in named : m <= n
        <5> HIDE DEF named
        <5> QED
          BY <2>3, <3>1, LeastNumber
      <4> QED
        BY <4>1 DEF Min
    <3>3. TableMaxRound(d.tdata[q.project]) = Rounds
      BY <1>0, <1>6, <2>3, <3>1, <3>2 DEF Scalar, TuneOK
    <3>4. q.project \in DOMAIN d.tdata /\ TableOK(d.tdata[q.project], d.tune)
      BY <1>6 DEF TuneAsk, TablesOK
    <3>5. LastRound(d)
      BY <3>3, <3>4, MaxIsRow DEF LastRound
    <3> HIDE DEF named
    <3> QED
      BY <1>1, <2>1, <3>5, TunesOnly DEF e
  <2> QED
    BY <2>2, <2>3
<1> QED
  BY <1>2, <1>3, <1>4, <1>5, <1>6 DEF e

LEMMA NewTuneRun ==
  ASSUME NEW q, q.op = "add_new_tuning", Request(q), NEW s, Read(s), NEW d, Good(d),
         TablesOK(d)
  PROVE  LET e == Run(q, s, d).db
         IN  /\ TablesOK(e)
             /\ \/ DOMAIN e.tune = DOMAIN d.tune
                \/ \E tid : DOMAIN e.tune = DOMAIN d.tune \cup {tid}
<1> DEFINE e == Run(q, s, d).db
           tid == TuningMaxTid(s.tune) + 1
           row == [name |-> q.name, status |-> "running", ip |-> q.ip,
                   total |-> q.rounds, base |-> NoNumber, desc |-> NoText]
<1>0. DOMAIN d = Fields
  BY DEF Good, Read
<1>1. e.tdata = d.tdata
  BY <1>0, Untouched
<1>2. e.tune = d.tune \/ (tid \notin DOMAIN d.tune /\ e.tune = Insert(d.tune, tid, row))
  BY <1>0 DEF Run, AddNewTuning, Commit, Reply, InsertNewTuning, Fields
<1>3. row.status = "running"
  OBVIOUS
<1> HIDE DEF e, tid, row
<1>4. CASE e.tune = d.tune
  BY <1>1, <1>4, TunesOnly DEF TablesOK, e
<1>5. CASE tid \notin DOMAIN d.tune /\ e.tune = Insert(d.tune, tid, row)
  <2>1. DOMAIN e.tune = DOMAIN d.tune \cup {tid} /\ e.tune[tid] = row
        /\ \A t \in DOMAIN d.tune : e.tune[t] = d.tune[t]
    BY <1>5 DEF Insert
  <2>2. TablesOK(e)
    BY <1>1, <1>3, <2>1, TunesOnly
  <2> QED
    BY <2>1, <2>2 DEF e
<1> QED
  BY <1>2, <1>4, <1>5

\* Tables are made and grow.
LEMMA TablesMore ==
  ASSUME NEW d, TablesOK(d), NEW e, e.tune = d.tune, DOMAIN d.tdata \subseteq DOMAIN e.tdata,
         \A p \in DOMAIN e.tdata : TableOK(e.tdata[p], d.tune),
         \A p \in DOMAIN d.tdata : DOMAIN d.tdata[p].rows \subseteq DOMAIN e.tdata[p].rows
  PROVE  TablesOK(e)
  BY DEF TablesOK, LastRound

LEMMA CreateRun ==
  ASSUME NEW q, q.op = "create_tuning_data_table", NEW s, NEW d, Good(d), TablesOK(d)
  PROVE  LET e == Run(q, s, d).db
         IN  TablesOK(e) /\ e.tune = d.tune /\ DOMAIN e.tdata = DOMAIN d.tdata
<1> DEFINE e == Run(q, s, d).db
           p == q.project
           made == [d.tdata[p] EXCEPT !.header = TRUE]
<1>0. DOMAIN d = Fields
  BY DEF Good, Read
<1>1. e = d \/ e = [d EXCEPT !.tdata[p].header = TRUE]
  BY DEF Run, CreateTuningDataTable, Commit, Reply
<1>2. e.tdata = d.tdata \/ e.tdata = [d.tdata EXCEPT ![p] = made]
  <2> HIDE DEF e
  <2> QED
    BY <1>0, <1>1 DEF Fields
<1>3. e.tune = d.tune
  <2> HIDE DEF e
  <2> QED
    BY <1>0, <1>1 DEF Fields
<1>4. p \in DOMAIN d.tdata => TableOK(made, d.tune) /\ made.rows = d.tdata[p].rows
  BY DEF TablesOK, TableOK
<1> HIDE DEF e, made
<1>5. DOMAIN e.tdata = DOMAIN d.tdata
      /\ \A x \in DOMAIN d.tdata : e.tdata[x] = d.tdata[x] \/ (x = p /\ e.tdata[x] = made)
  BY <1>2
<1>6. TablesOK(e)
  BY <1>3, <1>4, <1>5, TablesMore DEF TablesOK
<1> QED
  BY <1>3, <1>5, <1>6 DEF e

LEMMA RowRun ==
  ASSUME NEW q, q.op = "add_tuning_data", Request(q), NEW d, Good(d), TablesOK(d),
         TuneAsk(q, d)
  PROVE  LET r == Run(q, d, d)
         IN  /\ TablesOK(r.db) /\ r.db.tune = d.tune /\ DOMAIN r.db.tdata = DOMAIN d.tdata
             /\ r.val = -1 \/ q.project \in DOMAIN r.db.tdata
<1> DEFINE r == Run(q, d, d)
           e == r.db
           p == q.project
           named == TuningNamed(d.tune, q.name)
           tid == Scalar([k \in DOMAIN d.tune |-> [id |-> k]], named, "id", NoNumber)
           rows == Insert(d.tdata[p].rows, <<tid, q.round>>, q.row)
           more == [d.tdata[p] EXCEPT !.rows = rows]
<1>0. DOMAIN d = Fields /\ TuneOK(d.tune) /\ q.round \in Nat
  BY DEF Good, Read, Request
<1>1. r = AddTuningData(d, d, q)
  BY DEF Run
<1>2. \/ e = d /\ r.val = -1
      \/ /\ tid # NoNumber /\ p \in DOMAIN d.tdata
         /\ <<tid, q.round>> \notin DOMAIN d.tdata[p].rows
         /\ e = [d EXCEPT !.tdata = [@ EXCEPT ![p] = more]]
  BY <1>1 DEF AddTuningData, Commit, Reply, InsertTuningRow, NoNumber
<1> HIDE DEF r
<1>3. CASE e = d /\ r.val = -1
  BY <1>3 DEF r
<1>4. CASE /\ tid # NoNumber /\ p \in DOMAIN d.tdata
           /\ <<tid, q.round>> \notin DOMAIN d.tdata[p].rows
           /\ e = [d EXCEPT !.tdata = [@ EXCEPT ![p] = more]]
  <2>1. TableOK(d.tdata[p], d.tune)
    BY <1>4 DEF TablesOK
  <2>2. tid \in named /\ tid \in DOMAIN d.tune /\ d.tune[tid].name = q.name
    <3>1. named # {} /\ named \subseteq DOMAIN d.tune
      BY <1>4 DEF Scalar, TuningNamed, Where
    <3>2. DOMAIN d.tune \subseteq Nat
      BY <1>0 DEF TuneOK, Ids, Bounded
    <3>3. Min(named) \in named
      <4>1. \E m \in named : \A n \in named : m <= n
        <5> HIDE DEF named
        <5> QED
          BY <3>1, <3>2, LeastNumber
      <4> QED
        BY <4>1 DEF Min
    <3>4. tid = Min(named)
      BY <3>1, <3>3 DEF Scalar
    <3> HIDE DEF tid
    <3> QED
      BY <3>1, <3>3, <3>4 DEF TuningNamed, Where
  <2>3. q.row = <<q.name, q.round>> /\ q.name \in work.tunings
    BY DEF TuneAsk
  <2> DEFINE key == <<tid, q.round>>
  <2>4. key[1] = tid /\ key[2] = q.round
    OBVIOUS
  <2> HIDE DEF e, tid, named
  <2>5. DOMAIN more = {"params", "header", "rows"} /\ more.rows = rows
    BY <2>1 DEF TableOK
  <2>6. /\ DOMAIN rows = DOMAIN d.tdata[p].rows \cup {key} /\ rows[key] = q.row
        /\ \A k \in DOMAIN d.tdata[p].rows : k # key => rows[k] = d.tdata[p].rows[k]
    BY DEF Insert
  <2> HIDE DEF rows, key
  <2>7. \E n \in Nat : \A k \in DOMAIN rows : k[2] \in Nat /\ k[2] <= n
    <3>1. PICK n \in Nat : \A k \in DOMAIN d.tdata[p].rows : k[2] \in Nat /\ k[2] <= n
      BY <2>1 DEF TableOK
    <3>2. CASE n <= q.round
      <4>1. \A k \in DOMAIN rows : k[2] \in Nat /\ k[2] <= q.round
        BY <1>0, <2>4, <2>6, <3>1, <3>2
      <4> QED
        BY <1>0, <4>1
    <3>3. CASE q.round <= n
      <4>1. \A k \in DOMAIN rows : k[2] \in Nat /\ k[2] <= n
        BY <1>0, <2>4, <2>6, <3>1, <3>3
      <4> QED
        BY <3>1, <4>1
    <3>4. n <= q.round \/ q.round <= n
      BY <1>0, <3>1
    <3> QED
      BY <3>2, <3>3, <3>4
  <2>8. \A k \in DOMAIN rows :
          /\ rows[k] = <<rows[k][1], k[2]>> /\ rows[k][1] \in work.tunings
          /\ k[1] \in DOMAIN d.tune /\ (Renames \/ d.tune[k[1]].name = rows[k][1])
    <3> SUFFICES ASSUME NEW k \in DOMAIN rows
                 PROVE  /\ rows[k] = <<rows[k][1], k[2]>> /\ rows[k][1] \in work.tunings
                        /\ k[1] \in DOMAIN d.tune /\ (Renames \/ d.tune[k[1]].name = rows[k][1])
      OBVIOUS
    <3>1. CASE k = key
      <4>1. rows[k] = <<q.name, q.round>>
        BY <2>3, <2>6, <3>1
      <4> QED
        BY <2>2, <2>3, <2>4, <3>1, <4>1
    <3>2. CASE k # key
      <4>1. k \in DOMAIN d.tdata[p].rows /\ rows[k] = d.tdata[p].rows[k]
        BY <2>6, <3>2
      <4> QED
        BY <2>1, <4>1 DEF TableOK
    <3> QED
      BY <3>1, <3>2
  <2> HIDE DEF more
  <2>9. TableOK(more, d.tune)
    BY <2>5, <2>7, <2>8 DEF TableOK
  <2>10. e.tune = d.tune /\ e.tdata = [d.tdata EXCEPT ![p] = more]
    BY <1>0, <1>4 DEF Fields
  <2>11. DOMAIN e.tdata = DOMAIN d.tdata
         /\ \A x \in DOMAIN d.tdata : e.tdata[x] = IF x = p THEN more ELSE d.tdata[x]
    BY <2>10
  <2>12. TablesOK(e)
    BY <2>5, <2>6, <2>9, <2>10, <2>11, TablesMore DEF TablesOK
  <2> QED
    BY <1>4, <2>10, <2>11, <2>12 DEF e, r
<1> QED
  BY <1>2, <1>3, <1>4

LEMMA TuneHead ==
  ASSUME UiInv, NEW c \in Clients, req[c].calls # <<>>
  PROVE  LET h == Head(req[c].calls)
         IN  /\ h.op = "add_tuning_data" => {"name", "row", "round", "project"} \subseteq DOMAIN h
             /\ h.op = "change_tuning_status" => "project" \in DOMAIN h
<1>1. req[c].calls \in Seq(AnalysisCalls \cup OtherCalls)
  BY DEF UiInv, ReqInv, RequestOK
<1>2. Head(req[c].calls) \in AnalysisCalls \cup OtherCalls
  BY <1>1, HeadTail
<1> DEFINE h == Head(req[c].calls)
<1> HIDE DEF h
<1>3. CASE h \in AnalysisCalls
  BY <1>3, AnalysisOps DEF h
<1>4. CASE h \in OtherCalls
  BY <1>4 DEF OtherCalls, TuningRequests, UserRequests, RunRequests, h
<1> QED
  BY <1>2, <1>3, <1>4 DEF h

LEMMA HeadAsk ==
  ASSUME UiInv, NEW c \in Clients, CommitSession(c), TuneCallsOK(c)
  PROVE  TuneAsk(Call(c), db)
<1> DEFINE h == Head(req[c].calls)
           q == Call(c)
<1>1. /\ req[c].calls # <<>> /\ 1 \in 1 .. Len(req[c].calls) /\ req[c].calls[1] = h
      /\ q.op = h.op
  BY CommitReq, CommitRuns
<1>2. /\ h.op = "rename_tuning" => Renames
      /\ h.op = "add_tuning_data" => h.name \in work.tunings /\ h.row = <<h.name, h.round>>
      /\ h.op = "change_tuning_status" => h.project \in DOMAIN db.tdata
  <2> HIDE DEF h
  <2> QED
    BY <1>1 DEF TuneCallsOK
<1>3. /\ h.op = "add_tuning_data" => q.name = h.name /\ q.row = h.row /\ q.round = h.round
      /\ h.op = "change_tuning_status" => q.project = h.project
  BY <1>1, TuneHead, CallHas
<1> HIDE DEF h, q
<1> QED
  BY <1>1, <1>2, <1>3 DEF TuneAsk, q

LEMMA TablesCommit ==
  ASSUME UiInv, TableInv, NEW c \in Clients, CommitSession(c)
  PROVE  /\ TablesOK(db') /\ DOMAIN db.tdata \subseteq DOMAIN db'.tdata
         /\ Call(c).op = "add_tuning_data" =>
              Outcome(c).val = -1 \/ Call(c).project \in DOMAIN db'.tdata
         /\ DOMAIN db'.tune = DOMAIN db.tune
            \/ /\ Call(c).op = "add_new_tuning"
               /\ \E tid : DOMAIN db'.tune = DOMAIN db.tune \cup {tid}
<1> DEFINE q == Call(c)
           s == Reads(c)
<1>0. /\ Request(q) /\ Good(db) /\ TablesOK(db) /\ TuneAsk(q, db) /\ Read(s)
      /\ q.op \in Racing \/ s = db
      /\ Outcome(c) = Run(q, s, db) /\ db' = Run(q, s, db).db /\ DOMAIN db = Fields
  BY CommitRuns, HeadAsk DEF UiInv, TableInv, Outcome, Good, Read
<1> HIDE DEF q, s
<1>1. CASE q.op \in {"change_tuning_baseline", "change_tuning_status", "rename_tuning",
                     "update_tuning_description", "update_command_description"}
  <2>1. q.op = "change_tuning_status" => s = db
    BY <1>0 DEF Racing
  <2>2. TablesOK(db') /\ DOMAIN db'.tune = DOMAIN db.tune
    BY <1>0, <1>1, <2>1, TunesRun
  <2>3. db'.tdata = db.tdata
    BY <1>0, <1>1, Untouched
  <2> QED
    BY <1>1, <2>2, <2>3 DEF q
<1>2. CASE q.op = "add_new_tuning"
  <2>1. /\ TablesOK(Run(q, s, db).db)
        /\ \/ DOMAIN Run(q, s, db).db.tune = DOMAIN db.tune
           \/ \E tid : DOMAIN Run(q, s, db).db.tune = DOMAIN db.tune \cup {tid}
    <3>1. q.op = "add_new_tuning" /\ Request(q) /\ Read(s) /\ Good(db) /\ TablesOK(db)
      BY <1>0, <1>2
    <3> QED
      BY <3>1, NewTuneRun, ZenonT(60)
  <2>2. db'.tdata = db.tdata
    BY <1>0, <1>2, Untouched
  <2> QED
    BY <1>0, <1>2, <2>1, <2>2 DEF q
<1>3. CASE q.op = "create_tuning_data_table"
  <2>1. TablesOK(db') /\ db'.tune = db.tune /\ DOMAIN db'.tdata = DOMAIN db.tdata
    BY <1>0, <1>3, CreateRun
  <2> QED
    BY <1>3, <2>1 DEF q
<1>4. CASE q.op = "add_tuning_data"
  <2>1. s = db
    BY <1>0, <1>4 DEF Racing
  <2>2. /\ TablesOK(db') /\ db'.tune = db.tune /\ DOMAIN db'.tdata = DOMAIN db.tdata
        /\ Outcome(c).val = -1 \/ q.project \in DOMAIN db'.tdata
    BY <1>0, <1>4, <2>1, RowRun
  <2> QED
    BY <1>4, <2>2 DEF q
<1>5. CASE q.op \notin {"change_tuning_baseline", "change_tuning_status", "rename_tuning",
                        "update_tuning_description", "update_command_description",
                        "add_new_tuning", "create_tuning_data_table", "add_tuning_data"}
  <2>1. db'.tune = db.tune /\ db'.tdata = db.tdata
    BY <1>0, <1>5, Untouched
  <2>2. TablesOK(db')
    BY <1>0, <2>1 DEF TablesOK, LastRound
  <2> QED
    BY <1>5, <2>1, <2>2 DEF q
<1> QED
  BY <1>1, <1>2, <1>3, <1>4, <1>5

LEMMA CallsTail ==
  ASSUME UiInv, TableInv, NEW c \in Clients, CommitSession(c)
  PROVE  /\ TuneCallsOK(c)'
         /\ \A i \in 1 .. Len(req'[c].calls) : req'[c].calls[i].op # "add_new_tuning"
<1>0. /\ req[c].calls # <<>> /\ Len(req[c].calls) \in Nat /\ Len(req[c].calls) > 0
      /\ Head(req[c].calls) = req[c].calls[1] /\ Call(c).op = Head(req[c].calls).op
      /\ work' = work /\ TuneCallsOK(c)
  BY CommitReq, CommitRuns DEF TableInv
<1> SUFFICES ASSUME NEW i \in 1 .. Len(req'[c].calls)
             PROVE  LET q == req'[c].calls[i]
                    IN  /\ q.op = "rename_tuning" => Renames'
                        /\ q.op # "add_new_tuning"
                        /\ q.op = "add_tuning_data" => /\ q.name \in work'.tunings
                                                       /\ q.row = <<q.name, q.round>>
                        /\ q.op = "change_tuning_status" =>
                             i = 1 /\ q.project \in DOMAIN db'.tdata
  BY <1>0 DEF TuneCallsOK
<1> DEFINE q == req'[c].calls[i]
<1>1. /\ ~Stops(Call(c), Outcome(c)) /\ i + 1 \in 1 .. Len(req[c].calls)
      /\ i \in Nat /\ i >= 1 /\ q = req[c].calls[i + 1] /\ 2 \in 1 .. Len(req[c].calls)
  <2>1. req'[c].calls # <<>>
    OBVIOUS
  <2>2. /\ ~Stops(Call(c), Outcome(c)) /\ Len(req'[c].calls) = Len(req[c].calls) - 1
        /\ q = req[c].calls[i + 1]
    BY <2>1, CommitReq
  <2> QED
    BY <1>0, <2>2
<1>2. /\ q.op = "rename_tuning" => Renames
      /\ q.op = "add_new_tuning" => Len(req[c].calls) = 1
      /\ q.op = "add_tuning_data" => q.name \in work.tunings /\ q.row = <<q.name, q.round>>
      /\ q.op = "change_tuning_status" =>
           /\ i + 1 = 2 /\ req[c].calls[1].op = "add_tuning_data"
           /\ req[c].calls[1].project = q.project
  <2>1. i + 1 # 1
    BY <1>1
  <2> HIDE DEF q
  <2> QED
    BY <1>0, <1>1, <2>1 DEF TuneCallsOK
<1>3. Renames' = Renames
  BY <1>0 DEF Renames
<1> HIDE DEF q
<1>4. q.op = "change_tuning_status" => i = 1 /\ q.project \in DOMAIN db'.tdata
  <2> SUFFICES ASSUME q.op = "change_tuning_status" PROVE i = 1 /\ q.project \in DOMAIN db'.tdata
    OBVIOUS
  <2>1. /\ i = 1 /\ Call(c).op = "add_tuning_data"
        /\ Head(req[c].calls).project = q.project
    BY <1>0, <1>1, <1>2
  <2>2. Call(c).project = q.project
    BY <1>0, <2>1, TuneHead, CallHas
  <2>3. Outcome(c).val # -1
    BY <1>1, <2>1 DEF Stops
  <2> QED
    BY <2>1, <2>2, <2>3, TablesCommit
<1> QED
  BY <1>0, <1>1, <1>2, <1>3, <1>4 DEF q

\* A request that stays as it is.
LEMMA TuneCallsSame ==
  ASSUME NEW c, TuneCallsOK(c), req'[c].calls = req[c].calls, work' = work,
         DOMAIN db.tdata \subseteq DOMAIN db'.tdata
  PROVE  TuneCallsOK(c)'
  BY DEF TuneCallsOK, Renames

LEMMA CommitTable ==
  ASSUME UiInv, TableInv, NEW c \in Clients, CommitSession(c)
  PROVE  TableInv'
<1>1. /\ work' = work /\ tn' = tn /\ \A x \in Clients : x # c => req'[x] = req[x]
      /\ req[c].calls # <<>> /\ 1 \in 1 .. Len(req[c].calls)
      /\ req[c].calls[1] = Head(req[c].calls) /\ Call(c).op = req[c].calls[1].op
      /\ \A t \in work.tunings : Tuner(t) \in Clients
  <2>1. work.tunings \subseteq Tunings
    BY UiAssumption DEF UiInv
  <2>2. \A t \in work.tunings : Tuner(t) \in Clients
    BY <2>1 DEF Clients
  <2>3. /\ work' = work /\ tn' = tn /\ \A x \in Clients : x # c => req'[x] = req[x]
        /\ req[c].calls # <<>> /\ Len(req[c].calls) \in Nat /\ Len(req[c].calls) > 0
        /\ req[c].calls[1] = Head(req[c].calls)
    BY CommitReq
  <2>4. Call(c).op = Head(req[c].calls).op
    BY CommitRuns
  <2> QED
    BY <2>2, <2>3, <2>4
<1>2. DOMAIN db.tdata \subseteq DOMAIN db'.tdata /\ TablesOK(db')
  BY TablesCommit
<1>3. TablesOK(db)'
  BY <1>1, <1>2 DEF TablesOK, TableOK, LastRound, Renames
<1>4. \A x \in Clients : TuneCallsOK(x)'
  BY <1>1, <1>2, CallsTail, TuneCallsSame DEF TableInv
<1>5. \A t \in work.tunings : Adds(t)' => Adds(t) /\ Tuner(t) # c
  BY <1>1, CallsTail DEF Adds
<1>6. OneTuning'
  <2> SUFFICES ASSUME NEW t \in work.tunings, work.tunings = {t}
               PROVE  /\ Adds(t)' => tn'[t] >= 0
                      /\ tn'[t] = -1 \/ Adds(t)' => DOMAIN db'.tune = {}
                      /\ \A x, y \in DOMAIN db'.tune : x = y
    BY <1>1 DEF OneTuning
  <2>1. /\ Adds(t) => tn[t] >= 0
        /\ tn[t] = -1 \/ Adds(t) => DOMAIN db.tune = {}
        /\ \A x, y \in DOMAIN db.tune : x = y
    BY DEF TableInv, OneTuning
  <2>2. CASE DOMAIN db'.tune = DOMAIN db.tune
    BY <1>1, <1>5, <2>1, <2>2
  <2>3. CASE /\ Call(c).op = "add_new_tuning"
             /\ \E tid : DOMAIN db'.tune = DOMAIN db.tune \cup {tid}
    <3>1. \E u \in work.tunings : c = Tuner(u)
      <4>1. TuneCallsOK(c)
        BY DEF TableInv
      <4> QED
        BY <1>1, <2>3, <4>1 DEF TuneCallsOK
    <3>2. c = Tuner(t) /\ Adds(t)
      BY <1>1, <2>3, <3>1 DEF Adds
    <3>3. tn'[t] # -1 /\ ~Adds(t)' /\ DOMAIN db.tune = {}
      <4>1. tn[t] >= 0 /\ tn[t] \in Nat \cup {-1}
        BY <2>1, <3>2, UiAssumption DEF UiInv, TnInv
      <4> QED
        BY <1>1, <1>5, <2>1, <3>2, <4>1
    <3> QED
      BY <2>3, <3>3
  <2> QED
    BY <2>2, <2>3, TablesCommit
<1> QED
  BY <1>3, <1>4, <1>6 DEF TableInv

LEMMA TuneFree ==
  ASSUME NEW calls \in Seq(AnalysisCalls), NEW i \in 1 .. Len(calls)
  PROVE  calls[i].op \notin {"rename_tuning", "add_new_tuning", "add_tuning_data",
                             "change_tuning_status"}
<1>1. calls[i] \in AnalysisCalls
  OBVIOUS
<1> QED
  BY <1>1, AnalysisOps

\* What an analysis sends is nothing of a tuning.
LEMMA TuneOthers ==
  ASSUME UiInv', NEW c \in Clients, OfAnalysis(c)
  PROVE  TuneCallsOK(c)'
<1>1. RequestOK(c, req'[c], db')
  BY DEF UiInv, ReqInv
<1>2. req'[c].calls \in Seq(AnalysisCalls)
  BY <1>1 DEF RequestOK
<1> QED
  BY <1>2, TuneFree DEF TuneCallsOK

\* A step that leaves the tables and the requests of tunings and users alone.
LEMMA TableStill ==
  ASSUME UiInv, UiInv', TableInv, UNCHANGED <<db, work, tn>>,
         \A c \in Clients : ~OfAnalysis(c) => req'[c] = req[c]
  PROVE  TableInv'
<1>1. \A t \in work.tunings : Tuner(t) \in Clients /\ ~OfAnalysis(Tuner(t))
  <2>1. work.tunings \subseteq Tunings
    BY UiAssumption DEF UiInv
  <2> QED
    BY <2>1 DEF Clients, Tuner, OfAnalysis
<1>2. \A c \in Clients : TuneCallsOK(c)'
  BY TuneOthers, TuneCallsSame DEF TableInv
<1>3. TablesOK(db)'
  BY DEF TableInv, TablesOK, TableOK, LastRound, Renames
<1>4. OneTuning'
  BY <1>1 DEF TableInv, OneTuning, Adds
<1> QED
  BY <1>2, <1>3, <1>4 DEF TableInv

LEMMA AnalysisTable ==
  ASSUME UiInv, UiInv', TableInv, NEW a \in Analyses, AnalysisStep(a) \/ AnalysisFails(a)
  PROVE  TableInv'
<1>1. /\ Handler(a) \in Clients /\ Reader(a) \in Clients
      /\ OfAnalysis(Handler(a)) /\ OfAnalysis(Reader(a))
  BY DEF Clients, Handler, Reader, OfAnalysis
<1>2. UNCHANGED <<db, work, tn>>
  BY DEF AnalysisStep, AnalysisFails, OpenPipe, Sample, ClosePipe, Collected, Classified,
     FinishAnswered, SendLine, LogFinished, ReadRow, RowAnswered, PassEnds, ReopenPipe,
     SendFinished, ReaderEnds, Quiet,
     Still
<1>3. \/ req' = req
      \/ \E c \in {Handler(a), Reader(a)} : \E calls, id : Ask(c, calls, id)
  BY DEF AnalysisStep, AnalysisFails, OpenPipe, Sample, ClosePipe, Collected, Classified,
     FinishAnswered, SendLine, LogFinished, ReadRow, RowAnswered, PassEnds, ReopenPipe,
     SendFinished, ReaderEnds, Quiet,
     TransferPut
<1>4. \A c \in Clients : ~OfAnalysis(c) => req'[c] = req[c]
  BY <1>1, <1>3, AskHas
<1> QED
  BY <1>2, <1>4, TableStill

LEMMA OpenTable ==
  ASSUME UiInv, TableInv, NEW c \in Clients, OpenSession(c)
  PROVE  TableInv'
<1> DEFINE p == Call(c).project
           table == TuningTable(Call(c).params)
<1>1. /\ DOMAIN req = Clients /\ DOMAIN req[c] = ReqRow /\ DOMAIN db = Fields
      /\ UNCHANGED <<work, tn>> /\ req' = [req EXCEPT ![c].seen = <<db>>]
  BY DEF UiInv, ReqInv, RequestOK, Good, Read, OpenSession
<1>2. \A x \in Clients : req'[x].calls = req[x].calls
  BY <1>1 DEF ReqRow
<1>3. /\ db'.tune = db.tune
      /\ \/ db'.tdata = db.tdata
         \/ p \notin DOMAIN db.tdata /\ db'.tdata = Insert(db.tdata, p, table)
  <2>1. db' = TableMade(Call(c), db)
    BY DEF OpenSession
  <2>2. \/ db' = db \/ db' = [db EXCEPT !.data.made = TRUE]
        \/ /\ p \notin DOMAIN db.tdata
           /\ db' = [db EXCEPT !.tdata = Insert(@, p, table)]
    BY <2>1 DEF TableMade
  <2> HIDE DEF p, table
  <2> QED
    BY <1>1, <2>2 DEF Fields
<1>4. TableOK(table, db.tune)
  BY DEF TableOK, TuningTable, Empty
<1> HIDE DEF p, table
<1>5. DOMAIN db.tdata \subseteq DOMAIN db'.tdata /\ TablesOK(db')
  <2>1. CASE db'.tdata = db.tdata
    BY <1>3, <2>1 DEF TableInv, TablesOK, LastRound
  <2>2. CASE p \notin DOMAIN db.tdata /\ db'.tdata = Insert(db.tdata, p, table)
    <3>1. /\ DOMAIN db'.tdata = DOMAIN db.tdata \cup {p} /\ db'.tdata[p] = table
          /\ \A x \in DOMAIN db.tdata : db'.tdata[x] = db.tdata[x]
      BY <2>2 DEF Insert
    <3>2. \A x \in DOMAIN db'.tdata : TableOK(db'.tdata[x], db.tune)
      BY <1>4, <3>1 DEF TableInv, TablesOK
    <3> QED
      BY <1>3, <3>1, <3>2, TablesMore DEF TableInv
  <2> QED
    BY <1>3, <2>1, <2>2
<1>6. TablesOK(db)'
  BY <1>1, <1>5 DEF TablesOK, TableOK, LastRound, Renames
<1>7. \A x \in Clients : TuneCallsOK(x)'
  BY <1>1, <1>2, <1>5, TuneCallsSame DEF TableInv
<1>8. OneTuning'
  <2>1. \A t \in work.tunings : Tuner(t) \in Clients
    <3>1. work.tunings \subseteq Tunings
      BY UiAssumption DEF UiInv
    <3> QED
      BY <3>1 DEF Clients
  <2>2. \A t \in work.tunings : Adds(t)' = Adds(t)
    BY <1>2, <2>1 DEF Adds
  <2> QED
    BY <1>1, <1>3, <2>2 DEF TableInv, OneTuning
<1> QED
  BY <1>6, <1>7, <1>8 DEF TableInv

\* Another request is made: nothing else changes.
LEMMA AskTable ==
  ASSUME UiInv, TableInv, NEW c \in Clients, NEW calls, NEW id, Ask(c, calls, id),
         UNCHANGED <<db, work>>, TuneCallsOK(c)'
  PROVE  (\A x \in Clients : TuneCallsOK(x)') /\ TablesOK(db)'
<1>1. \A x \in Clients : x # c => TuneCallsOK(x)'
  BY AskHas, TuneCallsSame DEF TableInv
<1>2. TablesOK(db)'
  BY DEF TableInv, TablesOK, TableOK, LastRound, Renames
<1> QED
  BY <1>1, <1>2

LEMMA TuningTables ==
  ASSUME UiInv, TableInv, NEW t \in Tunings, TuningPut(t)
  PROVE  TableInv'
<1> DEFINE i == tn[t]
           calls == TuningCalls(t, i)
<1>1. /\ i \in Nat \cup {-1} /\ tn' = [tn EXCEPT ![t] = @ + 1] /\ DOMAIN tn = Tunings
      /\ UNCHANGED <<db, work>> /\ t \in work.tunings /\ Ask(Tuner(t), calls, -1)
      /\ Tuner(t) \in Clients /\ work.tunings \subseteq Tunings
  <2>1. Tuner(t) \in Clients /\ work.tunings \subseteq Tunings
    BY UiAssumption DEF UiInv, Clients
  <2> QED
    BY <2>1 DEF UiInv, TnInv, TuningPut
<1>2. /\ Len(calls) \in {1, 2}
      /\ calls[1].op = "add_new_tuning" => i = -1 /\ Len(calls) = 1
      /\ calls[1].op \notin {"rename_tuning", "change_tuning_status"}
      /\ calls[1].op = "add_tuning_data" => calls[1].name = t
                                            /\ calls[1].row = <<calls[1].name, calls[1].round>>
      /\ Len(calls) = 2 =>
           /\ calls[2].op \in {"create_tuning_data_table", "change_tuning_status"}
           /\ calls[2].op = "change_tuning_status" =>
                calls[1].op = "add_tuning_data" /\ calls[1].project = calls[2].project
  <2>1. CASE i = -1
    <3> DEFINE h == [op |-> "add_new_tuning", name |-> t, rounds |-> Rounds, ip |-> IpOf[t]]
    <3>1. calls = <<h>> /\ h.op = "add_new_tuning"
      BY <2>1 DEF TuningCalls
    <3> HIDE DEF h, calls
    <3>2. Len(calls) = 1 /\ calls[1].op = "add_new_tuning"
      BY <3>1
    <3> QED
      BY <2>1, <3>2
  <2>2. CASE i = 0
    <3> DEFINE h == [op |-> "change_tuning_baseline", name |-> t, base |-> 0]
               g == [op |-> "create_tuning_data_table", project |-> Head(t),
                     params |-> ParamsOf[t]]
    <3>1. calls = <<h, g>> /\ h.op = "change_tuning_baseline"
          /\ g.op = "create_tuning_data_table"
      BY <2>2 DEF TuningCalls
    <3> HIDE DEF h, g, calls
    <3>2. /\ Len(calls) = 2 /\ calls[1].op = "change_tuning_baseline"
          /\ calls[2].op = "create_tuning_data_table"
      BY <3>1
    <3> QED
      BY <3>2
  <2>3. CASE i > 0 /\ i \in Nat
    <3> DEFINE h == [op |-> "add_tuning_data", name |-> t, project |-> Head(t), round |-> i,
                     params |-> ParamsOf[t], row |-> <<t, i>>]
               g == [op |-> "change_tuning_status", name |-> t, project |-> Head(t)]
    <3>1. /\ calls = <<h, g>> /\ h.op = "add_tuning_data" /\ h.name = t
          /\ h.row = <<h.name, h.round>> /\ h.project = g.project
          /\ g.op = "change_tuning_status"
      BY <2>3 DEF TuningCalls
    <3> HIDE DEF h, g, calls
    <3>2. Len(calls) = 2 /\ calls[1] = h /\ calls[2] = g
      BY <3>1
    <3> QED
      BY <3>1, <3>2
  <2> QED
    BY <1>1, <2>1, <2>2, <2>3
<1> HIDE DEF calls, i
<1>3. req'[Tuner(t)].calls = calls /\ \A x \in Clients : x # Tuner(t) => req'[x] = req[x]
  BY <1>1, AskHas
<1>4. \A n \in 1 .. Len(calls) : n = 1 \/ (n = 2 /\ Len(calls) = 2)
  <2> DEFINE m == Len(calls)
  <2>1. m \in {1, 2}
    BY <1>2
  <2> HIDE DEF m
  <2>2. \A n \in 1 .. m : n = 1 \/ (n = 2 /\ m = 2)
    BY <2>1
  <2> QED
    BY <2>2 DEF m
<1>5. TuneCallsOK(Tuner(t))'
  <2> SUFFICES ASSUME NEW n \in 1 .. Len(calls)
               PROVE  /\ calls[n].op = "rename_tuning" => Renames'
                      /\ calls[n].op = "add_new_tuning" =>
                           /\ \E u \in work'.tunings : Tuner(t) = Tuner(u)
                           /\ Len(calls) = 1
                      /\ calls[n].op = "add_tuning_data" =>
                           /\ calls[n].name \in work'.tunings
                           /\ calls[n].row = <<calls[n].name, calls[n].round>>
                      /\ calls[n].op = "change_tuning_status" =>
                           IF n = 1 THEN calls[n].project \in DOMAIN db'.tdata
                           ELSE /\ n = 2 /\ calls[1].op = "add_tuning_data"
                                /\ calls[1].project = calls[n].project
    BY <1>3 DEF TuneCallsOK
  <2>1. CASE n = 1
    BY <1>1, <1>2, <2>1
  <2>2. CASE n = 2 /\ Len(calls) = 2
    BY <1>2, <2>2
  <2> QED
    BY <1>4, <2>1, <2>2
<1>6. (\A x \in Clients : TuneCallsOK(x)') /\ TablesOK(db)'
  BY <1>1, <1>5, AskTable
<1>7. OneTuning'
  <2> SUFFICES ASSUME NEW u \in work.tunings, work.tunings = {u}
               PROVE  /\ Adds(u)' => tn'[u] >= 0
                      /\ tn'[u] = -1 \/ Adds(u)' => DOMAIN db.tune = {}
                      /\ \A x, y \in DOMAIN db.tune : x = y
    BY <1>1 DEF OneTuning
  <2>1. u = t /\ tn'[u] = i + 1
    BY <1>1 DEF i
  <2>2. Adds(u)' => i = -1
    <3>1. Adds(u)' => \E n \in 1 .. Len(calls) : calls[n].op = "add_new_tuning"
      BY <1>3, <2>1 DEF Adds
    <3> QED
      BY <1>2, <1>4, <3>1
  <2>3. /\ i = -1 => DOMAIN db.tune = {}
        /\ \A x, y \in DOMAIN db.tune : x = y
    BY <1>1, <2>1 DEF TableInv, OneTuning, i
  <2> QED
    BY <1>1, <2>1, <2>2, <2>3
<1> QED
  BY <1>6, <1>7 DEF TableInv

LEMMA WebTables ==
  ASSUME UiInv, TableInv, NEW w \in work.webs, WebRequest(w)
  PROVE  TableInv'
<1>1. work.routes \subseteq {"user", "runs"} /\ w \in Webs /\ UNCHANGED <<db, work, tn>>
      /\ work.tunings \subseteq Tunings
  BY UiAssumption DEF UiInv, WebRequest
<1>2. PICK r \in work.routes : \E calls \in Routes(r) : Ask(Browser(w), calls, -1)
  BY DEF WebRequest
<1>3. PICK calls \in Routes(r) : Ask(Browser(w), calls, -1)
  BY <1>2
<1>4. /\ Browser(w) \in Clients /\ \A t \in work.tunings : /\ Tuner(t) \in Clients
                                                           /\ Tuner(t) # Browser(w)
  BY <1>1 DEF Clients, Browser, Tuner
<1>5. calls \in Seq(IF r = "user" THEN UserRequests ELSE RunRequests)
  BY <1>1, <1>3, RouteKinds
<1>6. ASSUME NEW i \in 1 .. Len(calls)
      PROVE  /\ calls[i].op \notin {"add_new_tuning", "add_tuning_data", "change_tuning_status"}
             /\ calls[i].op = "rename_tuning" => Renames
  <2>1. CASE r = "user"
    <3>1. calls[i] \in UserRequests
      BY <1>5, <2>1
    <3> QED
      BY <3>1 DEF UserRequests
  <2>2. CASE r # "user"
    <3>1. calls[i] \in RunRequests
      BY <1>5, <2>2
    <3>2. Renames
      BY <1>1, <2>2 DEF Renames
    <3> QED
      BY <3>1, <3>2 DEF RunRequests
  <2> QED
    BY <2>1, <2>2
<1>7. req'[Browser(w)].calls = calls /\ \A x \in Clients : x # Browser(w) => req'[x] = req[x]
  BY <1>3, <1>4, AskHas
<1>8. Renames' = Renames
  BY <1>1 DEF Renames
<1>9. TuneCallsOK(Browser(w))'
  BY <1>6, <1>7, <1>8 DEF TuneCallsOK
<1>10. (\A x \in Clients : TuneCallsOK(x)') /\ TablesOK(db)'
  BY <1>1, <1>3, <1>4, <1>9, AskTable
<1>11. OneTuning'
  BY <1>1, <1>4, <1>7 DEF TableInv, OneTuning, Adds
<1> QED
  BY <1>10, <1>11 DEF TableInv

LEMMA InitTable == Init => TableInv
<1> SUFFICES ASSUME Init PROVE TableInv
  OBVIOUS
<1>1. /\ work \in Workloads /\ work.tunings \subseteq Tunings
      /\ req = [c \in Clients |-> NoRequest] /\ tn = [t \in Tunings |-> -1]
      /\ db.tune = Empty /\ db.tdata = Empty
  BY UiAssumption DEF Init
<1>2. NoRequest.calls = <<>> /\ Len(<<>>) = 0
  BY DEF NoRequest
<1>3. DOMAIN db.tune = {} /\ DOMAIN db.tdata = {}
  BY <1>1 DEF Empty
<1>4. \A c \in Clients : TuneCallsOK(c)
  BY <1>1, <1>2 DEF TuneCallsOK
<1>5. \A t \in work.tunings : Tuner(t) \in Clients
  BY <1>1 DEF Clients
<1>6. OneTuning
  BY <1>1, <1>2, <1>3, <1>5 DEF OneTuning, Adds
<1> QED
  BY <1>3, <1>4, <1>6 DEF TableInv, TablesOK

LEMMA NextTable == UiInv /\ TableInv /\ [Next]_vars => TableInv'
<1> SUFFICES ASSUME UiInv, TableInv, [Next]_vars PROVE TableInv'
  OBVIOUS
<1>1. work.analyses \subseteq Analyses /\ UiInv'
  BY UiAssumption, NextInv DEF UiInv
<1>2. CASE UNCHANGED vars
  BY <1>1, <1>2, TableStill DEF vars
<1>3. ASSUME NEW c \in Clients, OpenSession(c) PROVE TableInv'
  BY <1>3, OpenTable
<1>4. ASSUME NEW c \in Clients, CommitSession(c) PROVE TableInv'
  BY <1>4, CommitTable
<1>5. ASSUME NEW a \in work.analyses, AnalysisStep(a) \/ AnalysisFails(a)
      PROVE  TableInv'
  <2>1. a \in Analyses
    BY <1>1
  <2> QED
    BY <1>1, <1>5, <2>1, AnalysisTable
<1>6. ASSUME NEW t \in Tunings, TuningPut(t) PROVE TableInv'
  BY <1>6, TuningTables
<1>7. ASSUME NEW w \in work.webs, WebRequest(w) PROVE TableInv'
  BY <1>7, WebTables
<1>8. CASE Poll
  BY <1>1, <1>8, TableStill DEF Poll
<1> QED
  BY <1>2, <1>3, <1>4, <1>5, <1>6, <1>7, <1>8 DEF Next

LEMMA AlwaysTable == Spec => [](UiInv /\ RowsInv /\ TableInv)
<1>1. Init => UiInv /\ RowsInv /\ TableInv
  BY InitInv, InitRows, InitTable
<1>2. UiInv /\ RowsInv /\ TableInv /\ [Next]_vars => (UiInv /\ RowsInv /\ TableInv)'
  BY NextInv, NextRows, NextTable
<1> QED
  BY <1>1, <1>2, PTL DEF Spec

(* The samples of a collection are of the one analysis of its address, in  *)
(* the order of its pipe and without a gap, and the rounds of a tuning are *)
(* its own, if no two tunings run while users may rename them: a row of a  *)
(* tuning finds the tuning by its name (add_collection_data,               *)
(* add_tuning_data).                                                       *)
THEOREM RowsOfOne ==
  ASSUME \A w \in Workloads : \/ w.webs = {} \/ "runs" \notin w.routes
                              \/ \E t : w.tunings \subseteq {t}
  PROVE  Spec => []RowsOfOneRun
<1>1. UiInv /\ RowsInv /\ TableInv => RowsOfOneRun
  <2> SUFFICES ASSUME UiInv, RowsInv, TableInv PROVE RowsOfOneRun
    OBVIOUS
  <2>1. \A k \in DOMAIN db.data.rows :
          /\ k[1] \in DOMAIN db.coll /\ db.coll[k[1]].ip = IpOf[db.data.rows[k][1]]
          /\ k[2] > 1 => /\ <<k[1], k[2] - 1>> \in DOMAIN db.data.rows
                         /\ db.data.rows[<<k[1], k[2] - 1>>][2] < db.data.rows[k][2]
    <3> DEFINE rows == db.data.rows
    <3>1. RowsOK(rows, db.coll) /\ Keyed(rows, db.coll)
      BY DEF RowsInv, UiInv, Good, Read, DataOK
    <3> HIDE DEF rows
    <3>2. ASSUME NEW k \in DOMAIN rows
          PROVE  /\ k[1] \in DOMAIN db.coll /\ db.coll[k[1]].ip = IpOf[rows[k][1]]
                 /\ k[2] > 1 => /\ <<k[1], k[2] - 1>> \in DOMAIN rows
                                /\ rows[<<k[1], k[2] - 1>>][2] < rows[k][2]
      <4>1. k[2] \in Nat /\ (k[2] > 1 => k[2] - 1 \in 1 .. k[2]) /\ k[1] \in DOMAIN db.coll
        BY <3>1 DEF Keyed
      <4> QED
        BY <3>1, <4>1 DEF RowsOK
    <3> QED
      BY <3>2 DEF rows
  <2>2. ASSUME NEW p \in DOMAIN db.tdata, NEW k \in DOMAIN db.tdata[p].rows,
               NEW l \in DOMAIN db.tdata[p].rows
        PROVE  /\ db.tdata[p].rows[k][2] = k[2]
               /\ k[1] = l[1] => db.tdata[p].rows[k][1] = db.tdata[p].rows[l][1]
    <3> DEFINE rows == db.tdata[p].rows
    <3>1. TableOK(db.tdata[p], db.tune)
      BY DEF TableInv, TablesOK
    <3>2. /\ rows[k] = <<rows[k][1], k[2]>> /\ rows[k][1] \in work.tunings
          /\ rows[l][1] \in work.tunings
          /\ Renames \/ (db.tune[k[1]].name = rows[k][1] /\ db.tune[l[1]].name = rows[l][1])
      BY <3>1 DEF TableOK
    <3>3. ~Renames \/ \E t : work.tunings \subseteq {t}
      BY DEF UiInv, Renames
    <3> HIDE DEF rows
    <3>4. rows[k][2] = k[2]
      BY <3>2
    <3> QED
      BY <3>2, <3>3, <3>4 DEF rows
  <2> QED
    BY <2>1, <2>2 DEF RowsOfOneRun
<1> QED
  BY <1>1, AlwaysTable, PTL

(* A tuning is finished only when the last round is in a table, and, for   *)
(* the one tuning of the workload, when that round is its own              *)
(* (change_tuning_status).                                                 *)
THEOREM LastRoundThere == Spec => []FinishedHasLastRound
<1>1. UiInv /\ RowsInv /\ TableInv => FinishedHasLastRound
  <2> SUFFICES ASSUME UiInv, TableInv, NEW t \in DOMAIN db.tune,
                      db.tune[t].status = "finished"
               PROVE  \E p \in DOMAIN db.tdata : \E k \in DOMAIN db.tdata[p].rows :
                        /\ k[2] = db.tune[t].total
                        /\ Cardinality(work.tunings) = 1 => k[1] = t
    BY DEF FinishedHasLastRound
  <2>1. db.tune[t].total = Rounds
    BY DEF UiInv, Good, Read, TuneOK
  <2>2. PICK p \in DOMAIN db.tdata : \E k \in DOMAIN db.tdata[p].rows : k[2] = Rounds
    BY DEF TableInv, TablesOK, LastRound
  <2>3. PICK k \in DOMAIN db.tdata[p].rows : k[2] = Rounds
    BY <2>2
  <2>4. k[1] \in DOMAIN db.tune
    BY DEF TableInv, TablesOK, TableOK
  <2>5. ASSUME Cardinality(work.tunings) = 1 PROVE k[1] = t
    <3>1. \E u : work.tunings = {u}
      <4>1. IsFiniteSet(work.tunings)
        BY UiAssumption DEF UiInv
      <4> QED
        BY <2>5, <4>1, FS_Singleton
    <3>2. PICK u : work.tunings = {u}
      BY <3>1
    <3> QED
      BY <2>4, <3>2 DEF TableInv, OneTuning
  <2> QED
    BY <2>1, <2>3, <2>5
<1> QED
  BY <1>1, AlwaysTable, PTL


-----------------------------------------------------------------------------
(* Lists and their pages                                                   *)

\* The place of an id among the others, the smallest first.
Place(ids) == [i \in ids |-> Cardinality({j \in ids : j < i}) + 1]

LEMMA Places ==
  ASSUME NEW ids, ids \subseteq Nat, IsFiniteSet(ids)
  PROVE  /\ Cardinality(ids) \in Nat
         /\ Place(ids) \in Injection(ids, 1 .. Cardinality(ids))
         /\ Place(ids) \in Surjection(ids, 1 .. Cardinality(ids))
<1> DEFINE C == Cardinality(ids)
           Below(i) == {j \in ids : j < i}
<1>1. C \in Nat
  BY FS_CardinalityType
<1>2. ASSUME NEW i \in ids
      PROVE  Cardinality(Below(i)) \in Nat /\ Cardinality(Below(i)) < C
  <2>1. Below(i) \subseteq ids /\ i \notin Below(i)
    OBVIOUS
  <2> HIDE DEF Below
  <2> QED
    BY <2>1, FewerElements
<1>3. ASSUME NEW i \in ids, NEW k \in ids, i < k
      PROVE  Cardinality(Below(i)) < Cardinality(Below(k))
  <2>0. \A j \in ids : j \in Nat
    OBVIOUS
  <2>1. Below(i) \subseteq Below(k) /\ i \in Below(k) /\ i \notin Below(i)
    <3>1. \A j \in ids : j < i => j < k
      BY <1>3, <2>0
    <3>2. ~(i < i)
      BY <2>0
    <3> QED
      BY <1>3, <3>1, <3>2
  <2>2. IsFiniteSet(Below(k))
    BY FS_Subset
  <2> HIDE DEF Below
  <2> QED
    BY <2>1, <2>2, FewerElements
<1>4. \A i \in ids : Place(ids)[i] = Cardinality(Below(i)) + 1
  BY DEF Place
<1>5. DOMAIN Place(ids) = ids /\ Place(ids) = [i \in ids |-> Place(ids)[i]]
  BY DEF Place
<1> HIDE DEF Below, C
<1>6. \A i \in ids : Place(ids)[i] \in 1 .. C
  BY <1>1, <1>2, <1>4
<1>7. Place(ids) \in [ids -> 1 .. C]
  BY <1>5, <1>6
<1>8. \A i, k \in ids : Place(ids)[i] = Place(ids)[k] => i = k
  <2> SUFFICES ASSUME NEW i \in ids, NEW k \in ids, i # k
               PROVE  Place(ids)[i] # Place(ids)[k]
    OBVIOUS
  <2>1. Cardinality(Below(i)) \in Nat /\ Cardinality(Below(k)) \in Nat
    BY <1>2
  <2>2. i < k \/ k < i
    OBVIOUS
  <2>3. Cardinality(Below(i)) < Cardinality(Below(k))
        \/ Cardinality(Below(k)) < Cardinality(Below(i))
    BY <1>3, <2>2
  <2> QED
    BY <1>4, <2>1, <2>3
<1>9. Place(ids) \in Injection(ids, 1 .. C)
  BY <1>7, <1>8 DEF Injection, IsInjective
<1>10. IsFiniteSet(1 .. C) /\ Cardinality(1 .. C) = C
  BY <1>1, FS_Interval
<1>11. Place(ids) \in Surjection(ids, 1 .. C)
  BY <1>9, <1>10, FS_Injection DEF C
<1> QED
  BY <1>1, <1>9, <1>11 DEF C

\* The nth id is the one with n - 1 below it.
LEMMA NthPlaced ==
  ASSUME NEW ids, ids \subseteq Nat, IsFiniteSet(ids)
  PROVE  /\ \A n \in 1 .. Cardinality(ids) : Nth(ids, n) \in ids /\ Place(ids)[Nth(ids, n)] = n
         /\ \A i \in ids : Place(ids)[i] \in 1 .. Cardinality(ids)
                           /\ Nth(ids, Place(ids)[i]) = i
<1>1. /\ Cardinality(ids) \in Nat
      /\ \A i \in ids : Place(ids)[i] \in 1 .. Cardinality(ids)
      /\ \A i, k \in ids : Place(ids)[i] = Place(ids)[k] => i = k
      /\ \A n \in 1 .. Cardinality(ids) : \E i \in ids : Place(ids)[i] = n
  <2> DEFINE f == Place(ids)
             C == Cardinality(ids)
  <2>1. C \in Nat /\ f \in Injection(ids, 1 .. C) /\ f \in Surjection(ids, 1 .. C)
    BY Places
  <2> HIDE DEF f, C
  <2>2. f \in [ids -> 1 .. C] /\ \A i, k \in ids : f[i] = f[k] => i = k
    BY <2>1 DEF Injection, IsInjective
  <2>3. \A n \in 1 .. C : \E i \in ids : f[i] = n
    BY <2>1 DEF Surjection
  <2> QED
    BY <2>1, <2>2, <2>3 DEF f, C
<1>2. ASSUME NEW n \in 1 .. Cardinality(ids)
      PROVE  Nth(ids, n) \in ids /\ Place(ids)[Nth(ids, n)] = n
  <2>1. ASSUME NEW i \in ids
        PROVE  Place(ids)[i] = n <=> Cardinality({j \in ids : j < i}) = n - 1
    <3>1. {j \in ids : j < i} \subseteq ids
      OBVIOUS
    <3>2. Cardinality({j \in ids : j < i}) \in Nat
      BY <3>1, FS_Subset, FS_CardinalityType
    <3> QED
      BY <1>1, <3>2 DEF Place
  <2>2. \E i \in ids : Cardinality({j \in ids : j < i}) = n - 1
    BY <1>1, <2>1
  <2>3. Nth(ids, n) \in ids /\ Cardinality({j \in ids : j < Nth(ids, n)}) = n - 1
    BY <2>2 DEF Nth
  <2> QED
    BY <2>1, <2>3
<1> QED
  BY <1>1, <1>2

\* A list has each id at one place.
LEMMA NewestHas ==
  ASSUME NEW ids, ids \subseteq Nat, IsFiniteSet(ids)
  PROVE  LET C == Cardinality(ids)
             list == Newest(ids)
         IN  /\ C \in Nat /\ DOMAIN list = 1 .. C /\ Len(list) = C /\ ToSet(list) = ids
             /\ \A i, k \in 1 .. C : list[i] = list[k] => i = k
<1> DEFINE C == Cardinality(ids)
           list == Newest(ids)
<1>1. /\ C \in Nat
      /\ \A n \in 1 .. C : Nth(ids, n) \in ids /\ Place(ids)[Nth(ids, n)] = n
      /\ \A i \in ids : Place(ids)[i] \in 1 .. C /\ Nth(ids, Place(ids)[i]) = i
  BY NthPlaced, FS_CardinalityType
<1>2. DOMAIN list = 1 .. C /\ \A n \in 1 .. C : list[n] = Nth(ids, C + 1 - n)
  BY DEF Newest
<1>3. Len(list) = C
  BY <1>1 DEF Newest
<1> HIDE DEF C, list
<1>4. \A n \in 1 .. C : C + 1 - n \in 1 .. C /\ C + 1 - (C + 1 - n) = n
  BY <1>1
<1>5. \A n \in 1 .. C : list[n] \in ids /\ Place(ids)[list[n]] = C + 1 - n
  BY <1>1, <1>2, <1>4
<1>6. \A i \in ids : C + 1 - Place(ids)[i] \in 1 .. C /\ list[C + 1 - Place(ids)[i]] = i
  BY <1>1, <1>2, <1>4
<1>7. ToSet(list) = ids
  BY <1>2, <1>5, <1>6 DEF ToSet
<1>8. \A i, k \in 1 .. C : list[i] = list[k] => i = k
  BY <1>1, <1>5
<1> QED
  BY <1>1, <1>2, <1>3, <1>7, <1>8 DEF C, list

\* A page of a list has the places after those of the pages before.
LEMMA PageHas ==
  ASSUME NEW list, NEW C \in Nat, DOMAIN list = 1 .. C, Len(list) = C,
         NEW num \in Nat \ {0}, NEW size \in Nat \ {0}
  PROVE  ToSet(PageOf(list, num, size)) =
           {list[i] : i \in {p \in 1 .. C : size * (num - 1) < p /\ p <= size * num}}
<1> DEFINE from == size * (num - 1)
           to == size * num
           last == Min({to, C})
           page == SubSeq(list, from + 1, last)
<1>1. num - 1 \in Nat
  OBVIOUS
<1>2. from \in Nat /\ to \in Nat
  BY <1>1
<1>3. PageOf(list, num, size) = page
  <2>1. (num - 1) * size = size * (num - 1) /\ num * size = size * num
    BY <1>1
  <2> QED
    BY <2>1 DEF PageOf
<1> HIDE DEF from, to
<1>4. last \in Nat /\ last <= to /\ last <= C /\ (last = to \/ last = C)
  <2>1. \E x \in {to, C} : \A y \in {to, C} : x <= y
    BY <1>2
  <2>2. last \in {to, C} /\ \A y \in {to, C} : last <= y
    BY <2>1 DEF Min
  <2> HIDE DEF last
  <2> QED
    BY <1>2, <2>2
<1> HIDE DEF last
<1>5. /\ DOMAIN page = 1 .. last - from
      /\ \A i \in 1 .. last - from : page[i] = list[from + i]
  BY <1>2, <1>4
<1> HIDE DEF page
<1>6. \A p \in 1 .. C : from < p /\ p <= to <=> \E i \in 1 .. last - from : p = from + i
  <2> TAKE p \in 1 .. C
  <2>1. ASSUME from < p, p <= to PROVE p - from \in 1 .. last - from /\ p = from + (p - from)
    BY <1>2, <1>4, <2>1
  <2>2. ASSUME NEW i \in 1 .. last - from, p = from + i PROVE from < p /\ p <= to
    BY <1>2, <1>4, <2>2
  <2> QED
    BY <2>1, <2>2
<1>7. \A i \in 1 .. last - from : from + i \in 1 .. C
  BY <1>2, <1>4
<1>8. ToSet(page) = {page[i] : i \in 1 .. last - from}
  BY <1>5 DEF ToSet
<1>9. {page[i] : i \in 1 .. last - from} = {list[i] : i \in {p \in 1 .. C : from < p /\ p <= to}}
  BY <1>5, <1>6, <1>7
<1> QED
  BY <1>3, <1>8, <1>9 DEF from, to

\* Each id is on one page of a list, and no other id is on any.
LEMMA PagesWhole ==
  ASSUME NEW ids, ids \subseteq Nat, IsFiniteSet(ids), NEW size \in Nat \ {0}
  PROVE  LET C == Cardinality(ids)
             Page(n) == ToSet(PageOf(Newest(ids), n, size))
         IN  /\ \A id \in ids : Cardinality({n \in 1 .. C : id \in Page(n)}) = 1
             /\ \A n \in 1 .. C : Page(n) \subseteq ids
<1> DEFINE C == Cardinality(ids)
           list == Newest(ids)
           Page(n) == ToSet(PageOf(list, n, size))
<1>1. /\ C \in Nat /\ DOMAIN list = 1 .. C /\ Len(list) = C /\ ToSet(list) = ids
      /\ \A i, k \in 1 .. C : list[i] = list[k] => i = k
  BY NewestHas
<1> HIDE DEF C, list
<1>2. ids = {list[p] : p \in 1 .. C}
  BY <1>1 DEF ToSet
<1>3. ASSUME NEW n \in 1 .. C
      PROVE  Page(n) = {list[p] : p \in {i \in 1 .. C : size * (n - 1) < i /\ i <= size * n}}
  <2>1. n \in Nat \ {0}
    OBVIOUS
  <2> QED
    BY ONLY <1>1, <2>1, size \in Nat \ {0}, PageHas
<1>4. ASSUME NEW n \in 1 .. C PROVE Page(n) \subseteq ids
  BY <1>2, <1>3
<1>5. ASSUME NEW id \in ids
      PROVE  Cardinality({n \in 1 .. C : id \in Page(n)}) = 1
  <2>1. PICK p \in 1 .. C : list[p] = id
    BY <1>2
  <2> DEFINE q == (p - 1) \div size
             r == (p - 1) % size
  <2>2. p - 1 \in Nat
    BY <1>1
  <2>3. q \in Nat /\ r \in 0 .. size - 1 /\ p - 1 = size * q + r
    BY <2>2, Division
  <2> HIDE DEF q, r
  <2>4. size * q \in Nat /\ size * (q + 1) = size * q + size
    BY <2>3
  <2>5. q + 1 \in 1 .. C
    <3>1. q <= size * q
      <4>1. q * 1 <= q * size
        BY <2>3, Larger
      <4>2. q * 1 = q /\ q * size = size * q
        BY <2>3
      <4> QED
        BY <4>1, <4>2
    <3> QED
      BY <1>1, <2>3, <2>4, <3>1
  <2>6. ASSUME NEW n \in 1 .. C PROVE id \in Page(n) <=> n = q + 1
    <3>1. id \in Page(n) <=> size * (n - 1) < p /\ p <= size * n
      <4>1. id \in Page(n) <=> \E i \in 1 .. C : /\ size * (n - 1) < i /\ i <= size * n
                                                /\ list[i] = id
        BY <1>3
      <4> HIDE DEF Page
      <4>2. \A i \in 1 .. C : list[i] = id <=> i = p
        BY <1>1, <2>1
      <4> QED
        BY <4>1, <4>2
    <3> HIDE DEF Page
    <3>2. n - 1 \in Nat /\ size * (n - 1) \in Nat /\ size * n = size * (n - 1) + size
      BY <1>1
    <3>3. ASSUME n = q + 1 PROVE size * (n - 1) < p /\ p <= size * n
      <4>1. size * (n - 1) = size * q
        BY <2>3, <3>3
      <4> QED
        BY <2>3, <2>4, <3>2, <4>1
    <3>4. ASSUME size * (n - 1) < p, p <= size * n PROVE n = q + 1
      <4> DEFINE x == size * (n - 1)
      <4>1. x \in Nat /\ x < p /\ p <= x + size
        BY <3>2, <3>4
      <4>2. x = size * (n - 1)
        OBVIOUS
      <4> HIDE DEF x
      <4>3. p - 1 - x \in 0 .. size - 1 /\ p - 1 = x + (p - 1 - x)
        BY <4>1
      <4>4. p - 1 = size * (n - 1) + (p - 1 - x)
        BY <4>2, <4>3
      <4> DEFINE a == p - 1
                 m == n - 1
                 y == p - 1 - x
      <4>5. a \in Nat /\ m \in Nat /\ y \in 0 .. size - 1 /\ a = size * m + y
        BY <2>2, <3>2, <4>3, <4>4
      <4> HIDE DEF a, m, y
      <4>6. a \div size = m
        BY ONLY <4>5, size \in Nat \ {0}, Quotient
      <4> QED
        BY <4>6, <3>2 DEF a, m, q
    <3> QED
      BY <3>1, <3>3, <3>4
  <2>7. {n \in 1 .. C : id \in Page(n)} = {q + 1}
    <3> HIDE DEF Page
    <3> QED
      BY <2>5, <2>6
  <2> QED
    BY <2>7, FS_Singleton
<1> QED
  BY <1>4, <1>5 DEF C, list

\* The ids of an address, and of addresses.
OfIps(t, ips) == {k \in DOMAIN t : t[k].ip \in ips}

\* What the pages take for the length of a list.
Total(t, ips) == MapThenSumSet(LAMBDA ip : Cardinality(Where(t, LAMBDA r : r.ip = ip)), ips)

\* The counts of the addresses add up to the ids of any of them.
LEMMA CountsAddUp ==
  ASSUME NEW t, IsFiniteSet(DOMAIN t), NEW ips, IsFiniteSet(ips)
  PROVE  Total(t, ips) = Cardinality(OfIps(t, ips))
<1> DEFINE it == CHOOSE f : f = [s \in SUBSET ips |->
                      IF s = {} THEN 0
                      ELSE Cardinality({k \in DOMAIN t : t[k].ip = CHOOSE x \in s : TRUE})
                           + f[s \ {CHOOSE x \in s : TRUE}]]
           g == [s \in SUBSET ips |-> Cardinality(OfIps(t, s))]
           First(s) == CHOOSE x \in s : TRUE
           Added(f, s) == IF s = {} THEN 0
                          ELSE Cardinality({k \in DOMAIN t : t[k].ip = First(s)})
                               + f[s \ {First(s)}]
<1>0. \A ip : {k \in DOMAIN t : t[k].ip = ip} = OfIps(t, {ip})
  BY DEF OfIps
<1>1. Total(t, ips) = it[ips]
  BY DEF Total, Where, MapThenSumSet, MapThenFoldSet
<1>2. \A s \in SUBSET ips : s # {} => First(s) \in s
  OBVIOUS
<1> HIDE DEF First
<1>3. ASSUME NEW s PROVE IsFiniteSet(OfIps(t, s)) /\ Cardinality(OfIps(t, s)) \in Nat
  <2>1. OfIps(t, s) \subseteq DOMAIN t
    BY DEF OfIps
  <2> QED
    BY <2>1, FS_Subset, FS_CardinalityType
<1>4. ASSUME NEW s, NEW x \in s
      PROVE  Cardinality(OfIps(t, s)) = Cardinality(OfIps(t, {x})) + Cardinality(OfIps(t, s \ {x}))
  <2>1. /\ OfIps(t, s) = OfIps(t, {x}) \cup OfIps(t, s \ {x})
        /\ OfIps(t, {x}) \cap OfIps(t, s \ {x}) = {}
    BY DEF OfIps
  <2> DEFINE A == OfIps(t, {x})
             B == OfIps(t, s \ {x})
  <2>2. IsFiniteSet(A) /\ IsFiniteSet(B) /\ Cardinality(A) \in Nat /\ Cardinality(B) \in Nat
    BY <1>3
  <2>3. OfIps(t, s) = A \cup B /\ A \cap B = {}
    BY <2>1
  <2> HIDE DEF A, B
  <2>4. Cardinality(A \cup B) = Cardinality(A) + Cardinality(B) - Cardinality(A \cap B)
    BY <2>2, FS_Union
  <2>5. Cardinality(A \cap B) = 0
    BY <2>3, FS_EmptySet
  <2>6. Cardinality(A \cup B) = Cardinality(A) + Cardinality(B)
    BY <2>2, <2>4, <2>5
  <2> QED
    BY <2>3, <2>6 DEF A, B
<1>5. Cardinality(OfIps(t, {})) = 0
  <2>1. OfIps(t, {}) = {}
    BY DEF OfIps
  <2> QED
    BY <2>1, FS_EmptySet
<1>6. ASSUME NEW s \in SUBSET ips PROVE g[s] = Added(g, s)
  <2>1. CASE s = {}
    BY <1>5, <2>1
  <2>2. CASE s # {}
    <3>1. First(s) \in s /\ s \ {First(s)} \in SUBSET ips
      BY <1>2, <2>2
    <3>2. {k \in DOMAIN t : t[k].ip = First(s)} = OfIps(t, {First(s)})
      BY <1>0
    <3>3. g[s] = Cardinality(OfIps(t, s))
          /\ g[s \ {First(s)}] = Cardinality(OfIps(t, s \ {First(s)}))
      BY <3>1
    <3>4. Cardinality(OfIps(t, s))
            = Cardinality(OfIps(t, {First(s)})) + Cardinality(OfIps(t, s \ {First(s)}))
      BY <1>4, <3>1
    <3> HIDE DEF g
    <3> QED
      BY <2>2, <3>2, <3>3, <3>4
  <2> QED
    BY <2>1, <2>2
<1>7. g = [s \in SUBSET ips |-> Added(g, s)]
  BY <1>6
<1>8. it = [s \in SUBSET ips |-> Added(it, s)]
  BY <1>7 DEF First
<1> HIDE DEF it
<1>9. ASSUME NEW s \in SUBSET ips PROVE it[s] = Added(it, s)
  BY <1>8, Zenon
<1> DEFINE N == Cardinality(ips)
           S == {n \in 0 .. N : \A s \in SUBSET ips : Cardinality(s) = n => it[s] = g[s]}
<1>10. N \in Nat /\ \A s \in SUBSET ips : IsFiniteSet(s) /\ Cardinality(s) \in 0 .. N
  <2>1. N \in Nat
    BY FS_CardinalityType
  <2>2. ASSUME NEW s \in SUBSET ips PROVE IsFiniteSet(s) /\ Cardinality(s) \in 0 .. N
    BY <2>1, FS_Subset, FS_CardinalityType
  <2> QED
    BY <2>1, <2>2
<1> HIDE DEF N, g
<1>11. 0 \in S
  <2>1. \A s \in SUBSET ips : Cardinality(s) = 0 => s = {}
    BY <1>10, FS_EmptySet
  <2>2. {} \in SUBSET ips
    OBVIOUS
  <2>3. it[{}] = 0 /\ g[{}] = 0
    BY <1>6, <1>9, <2>2
  <2>4. 0 \in 0 .. N
    BY <1>10
  <2> QED
    BY <2>1, <2>3, <2>4
<1>12. ASSUME NEW n \in 0 .. N - 1, n \in S PROVE n + 1 \in S
  <2> SUFFICES ASSUME NEW s \in SUBSET ips, Cardinality(s) = n + 1
               PROVE  it[s] = g[s]
    BY <1>10
  <2>1. s # {}
    BY <1>10, FS_EmptySet
  <2>2. First(s) \in s /\ s \ {First(s)} \in SUBSET ips
    BY <1>2, <2>1
  <2>3. Cardinality(s \ {First(s)}) = n
    <3>1. IsFiniteSet(s) /\ n + 1 - 1 = n
      BY <1>10
    <3>2. Cardinality(s \ {First(s)}) = Cardinality(s) - 1
      BY <2>2, <3>1, FS_RemoveElement
    <3> QED
      BY <3>1, <3>2
  <2>4. it[s \ {First(s)}] = g[s \ {First(s)}]
    BY <1>12, <2>2, <2>3
  <2> QED
    BY <1>6, <1>9, <2>1, <2>4
<1> HIDE DEF S
<1>13. N \in S
  <2>1. \A n \in 0 .. N - 1 : n \in S => n + 1 \in S
    BY <1>12
  <2>2. \A n \in 0 .. N : n \in S
    BY ONLY <1>10, <1>11, <2>1, UpTo
  <2> QED
    BY <1>10, <2>2
<1>14. it[ips] = g[ips]
  BY <1>13 DEF S, N
<1> QED
  BY <1>1, <1>14 DEF g

-----------------------------------------------------------------------------
(* Commands are at the addresses of their runs                             *)

\* A command has the address of its run.
Owned(coll, tune, cmd) ==
  \A k \in DOMAIN cmd :
    /\ cmd[k].type = "analysis" => cmd[k].ip = coll[cmd[k].mid].ip
    /\ cmd[k].type = "tuning" => cmd[k].ip = tune[cmd[k].mid].ip

\* The rows a query selects by their address.
LEMMA Selected ==
  ASSUME NEW t, NEW ips, NEW ip
  PROVE  /\ Where(t, LAMBDA r : r.ip \in ips) = OfIps(t, ips)
         /\ Where(t, LAMBDA r : r.ip = ip) = OfIps(t, {ip})
  BY DEF Where, OfIps

\* One list: all of it, its count and its pages.
LEMMA OneList ==
  ASSUME NEW t, Ids(t), NEW ips, IsFiniteSet(ips), NEW size \in Nat \ {0}
  PROVE  LET C == Total(t, ips)
             ids == OfIps(t, ips)
         IN  /\ UNION {ToSet(Newest(OfIps(t, {ip}))) : ip \in ips} = ids
             /\ C = Cardinality(ids)
             /\ \A id \in ids : Cardinality({n \in 1 .. C :
                                id \in ToSet(PageOf(Newest(ids), n, size))}) = 1
             /\ \A n \in 1 .. C : ToSet(PageOf(Newest(ids), n, size)) \subseteq ids
<1> DEFINE ids == OfIps(t, ips)
           C == Total(t, ips)
<1>1. DOMAIN t \subseteq Nat /\ IsFiniteSet(DOMAIN t)
  BY FS_BoundedSetOfNaturals DEF Ids, Bounded
<1>2. ASSUME NEW s PROVE OfIps(t, s) \subseteq Nat /\ IsFiniteSet(OfIps(t, s))
  <2>1. OfIps(t, s) \subseteq DOMAIN t
    BY DEF OfIps
  <2> QED
    BY <1>1, <2>1, FS_Subset
<1>3. \A ip : ToSet(Newest(OfIps(t, {ip}))) = OfIps(t, {ip})
  <2> TAKE ip
  <2> QED
    BY <1>2, NewestHas
<1>4. UNION {OfIps(t, {ip}) : ip \in ips} = ids
  BY DEF OfIps
<1>5. UNION {ToSet(Newest(OfIps(t, {ip}))) : ip \in ips} = ids
  <2> HIDE DEF ids
  <2>1. {ToSet(Newest(OfIps(t, {ip}))) : ip \in ips} = {OfIps(t, {ip}) : ip \in ips}
    BY <1>3
  <2> QED
    BY <1>4, <2>1
<1>6. ids \subseteq Nat /\ IsFiniteSet(ids) /\ C = Cardinality(ids)
  BY <1>1, <1>2, CountsAddUp
<1> HIDE DEF ids, C
<1>7. /\ \A id \in ids : Cardinality({n \in 1 .. Cardinality(ids) :
                                      id \in ToSet(PageOf(Newest(ids), n, size))}) = 1
      /\ \A n \in 1 .. Cardinality(ids) : ToSet(PageOf(Newest(ids), n, size)) \subseteq ids
  BY <1>6, PagesWhole
<1>8. /\ \A id \in ids : Cardinality({n \in 1 .. C :
                                      id \in ToSet(PageOf(Newest(ids), n, size))}) = 1
      /\ \A n \in 1 .. C : ToSet(PageOf(Newest(ids), n, size)) \subseteq ids
  BY ONLY <1>6, <1>7
<1> QED
  BY <1>5, <1>6, <1>8 DEF C, ids

\* The commands of the runs of some addresses.
LEMMA CommandsOfRuns ==
  ASSUME NEW coll, NEW tune, NEW cmd, Linked(coll, tune, cmd), Owned(coll, tune, cmd), NEW ips
  PROVE  UNION ({CommandOf(cmd, c, "analysis") : c \in OfIps(coll, ips)}
                \cup {CommandOf(cmd, t, "tuning") : t \in OfIps(tune, ips)})
           = OfIps(cmd, ips)
<1> DEFINE U == UNION ({CommandOf(cmd, c, "analysis") : c \in OfIps(coll, ips)}
                       \cup {CommandOf(cmd, t, "tuning") : t \in OfIps(tune, ips)})
<1>1. ASSUME NEW k \in U PROVE k \in OfIps(cmd, ips)
  <2>1. \/ \E c \in OfIps(coll, ips) : k \in CommandOf(cmd, c, "analysis")
        \/ \E t \in OfIps(tune, ips) : k \in CommandOf(cmd, t, "tuning")
    OBVIOUS
  <2> QED
    BY <2>1 DEF CommandOf, Where, OfIps, Owned
<1>2. ASSUME NEW k \in OfIps(cmd, ips) PROVE k \in U
  <2>1. k \in DOMAIN cmd /\ cmd[k].ip \in ips
    BY DEF OfIps
  <2>2. CASE cmd[k].type = "analysis" /\ cmd[k].mid \in DOMAIN coll
    <3>1. cmd[k].mid \in OfIps(coll, ips) /\ k \in CommandOf(cmd, cmd[k].mid, "analysis")
      BY <2>1, <2>2 DEF OfIps, Owned, CommandOf, Where
    <3> QED
      BY <3>1
  <2>3. CASE cmd[k].type = "tuning" /\ cmd[k].mid \in DOMAIN tune
    <3>1. cmd[k].mid \in OfIps(tune, ips) /\ k \in CommandOf(cmd, cmd[k].mid, "tuning")
      BY <2>1, <2>3 DEF OfIps, Owned, CommandOf, Where
    <3> QED
      BY <3>1
  <2> QED
    BY <2>1, <2>2, <2>3 DEF Linked
<1> HIDE DEF U
<1> QED
  BY <1>1, <1>2 DEF U

\* The lists agree when the tables do.
LEMMA ListsHold ==
  ASSUME Good(db), Owned(db.coll, db.tune, db.cmd), IsFiniteSet(DOMAIN db.ips)
  PROVE  ListsAgree
<1> SUFFICES ASSUME NEW uid \in Uids \cup {0}, NEW size \in 1 .. 2
             PROVE
        LET Whole(ids, count, PageAt(_)) ==
                /\ count = Cardinality(ids)
                /\ \A id \in ids : Cardinality({n \in 1..count : id \in ToSet(PageAt(n))}) = 1
                /\ \A n \in 1..count : ToSet(PageAt(n)) \subseteq ids
            analysis == GetAllAnalysisList(db, uid)
            tuning == GetAllTuningList(db, uid)
            perIp == {IpInfoList(db, ip) : ip \in IpsByUid(db.ips, uid)}
        IN  /\ analysis = UNION {ToSet(i.analysis) : i \in perIp}
            /\ tuning = UNION {ToSet(i.tuning) : i \in perIp}
            /\ Whole(analysis, CountAnalysisList(db, uid),
                     LAMBDA n : GetAnalysisList(db, uid, n, size))
            /\ Whole(tuning, CountTuningList(db, uid),
                     LAMBDA n : GetTuningList(db, uid, n, size))
            /\ Whole(UNION ({CommandOf(db.cmd, c, "analysis") : c \in analysis}
                            \cup {CommandOf(db.cmd, t, "tuning") : t \in tuning}),
                     CountCommandList(db, uid),
                     LAMBDA n : GetCommandList(db, uid, n, size))
  BY DEF ListsAgree
<1> DEFINE ips == IpsByUid(db.ips, uid)
<1>0. Ids(db.coll) /\ Ids(db.tune) /\ Ids(db.cmd) /\ Linked(db.coll, db.tune, db.cmd)
  BY DEF Good, Read, CollOK, TuneOK, CmdOK
<1>1. IsFiniteSet(ips)
  <2> DEFINE S == {x \in DOMAIN db.ips : x[1] = uid}
             f == [k \in S |-> k[2]]
  <2>1. IsFiniteSet(S) /\ DOMAIN f = S /\ ips = {f[k] : k \in S}
    <3>1. S \subseteq DOMAIN db.ips
      OBVIOUS
    <3> QED
      BY <3>1, FS_Subset DEF IpsByUid
  <2> HIDE DEF S, f
  <2> QED
    BY <2>1, FiniteImage
<1>2. size \in Nat \ {0}
  OBVIOUS
<1> DEFINE analysis == GetAllAnalysisList(db, uid)
           tuning == GetAllTuningList(db, uid)
           perIp == {IpInfoList(db, ip) : ip \in ips}
<1>3. analysis = UNION {ToSet(i.analysis) : i \in perIp}
  <2>1. \A ip : IpInfoList(db, ip).analysis = CollectionsOfIp(db.coll, ip)
    BY DEF IpInfoList
  <2>2. UNION {ToSet(i.analysis) : i \in perIp}
          = UNION {ToSet(CollectionsOfIp(db.coll, ip)) : ip \in ips}
    BY <2>1
  <2> QED
    BY <2>2 DEF GetAllAnalysisList
<1>4. tuning = UNION {ToSet(i.tuning) : i \in perIp}
  <2>1. \A ip : IpInfoList(db, ip).tuning = TuningsOfIp(db.tune, ip)
    BY DEF IpInfoList
  <2>2. UNION {ToSet(i.tuning) : i \in perIp}
          = UNION {ToSet(TuningsOfIp(db.tune, ip)) : ip \in ips}
    BY <2>1
  <2> QED
    BY <2>2 DEF GetAllTuningList
<1> HIDE DEF perIp, ips
<1>5. /\ analysis = OfIps(db.coll, ips)
      /\ CountAnalysisList(db, uid) = Total(db.coll, ips)
      /\ CountTuningList(db, uid) = Total(db.tune, ips)
      /\ CountCommandList(db, uid) = Total(db.cmd, ips)
      /\ tuning = OfIps(db.tune, ips)
  <2>1. analysis = UNION {ToSet(Newest(OfIps(db.coll, {ip}))) : ip \in ips}
    <3>1. \A ip : CollectionsOfIp(db.coll, ip) = Newest(OfIps(db.coll, {ip}))
      BY Selected DEF CollectionsOfIp
    <3> QED
      BY <3>1 DEF GetAllAnalysisList, ips
  <2>2. tuning = UNION {ToSet(Newest(OfIps(db.tune, {ip}))) : ip \in ips}
    <3>1. \A ip : TuningsOfIp(db.tune, ip) = Newest(OfIps(db.tune, {ip}))
      BY Selected DEF TuningsOfIp
    <3> QED
      BY <3>1 DEF GetAllTuningList, ips
  <2>3. CountAnalysisList(db, uid) = Total(db.coll, ips)
    BY DEF CountAnalysisList, CountCollections, Total, ips
  <2>4. CountTuningList(db, uid) = Total(db.tune, ips)
    BY DEF CountTuningList, CountTunings, Total, ips
  <2>5. CountCommandList(db, uid) = Total(db.cmd, ips)
    BY DEF CountCommandList, CountCommands, Total, ips
  <2> HIDE DEF analysis, tuning
  <2> QED
    BY <1>0, <1>1, <1>2, <2>1, <2>2, <2>3, <2>4, <2>5, OneList
<1>6. UNION ({CommandOf(db.cmd, c, "analysis") : c \in analysis}
             \cup {CommandOf(db.cmd, t, "tuning") : t \in tuning}) = OfIps(db.cmd, ips)
  <2> HIDE DEF analysis, tuning
  <2> QED
    BY <1>0, <1>5, CommandsOfRuns
<1>7. /\ \A id \in analysis : Cardinality({n \in 1 .. CountAnalysisList(db, uid) :
                                  id \in ToSet(GetAnalysisList(db, uid, n, size))}) = 1
      /\ \A n \in 1 .. CountAnalysisList(db, uid) :
           ToSet(GetAnalysisList(db, uid, n, size)) \subseteq analysis
      /\ CountAnalysisList(db, uid) = Cardinality(analysis)
  <2> DEFINE P(n) == ToSet(PageOf(Newest(OfIps(db.coll, ips)), n, size))
             Q(n) == ToSet(GetAnalysisList(db, uid, n, size))
             C == CountAnalysisList(db, uid)
  <2>1. \A n : Q(n) = P(n)
    BY Selected DEF GetAnalysisList, CollectionPage, ips
  <2>2. C = Total(db.coll, ips) /\ analysis = OfIps(db.coll, ips)
    BY <1>5
  <2>3. /\ Total(db.coll, ips) = Cardinality(OfIps(db.coll, ips))
        /\ \A id \in OfIps(db.coll, ips) :
             Cardinality({n \in 1 .. Total(db.coll, ips) : id \in P(n)}) = 1
        /\ \A n \in 1 .. Total(db.coll, ips) : P(n) \subseteq OfIps(db.coll, ips)
    BY <1>0, <1>1, <1>2, OneList
  <2> HIDE DEF analysis, tuning, C, P, Q
  <2>4. \A id : {n \in 1 .. C : id \in Q(n)} = {n \in 1 .. C : id \in P(n)}
    BY <2>1
  <2>5. \A id \in analysis : Cardinality({n \in 1 .. C : id \in Q(n)}) = 1
    BY <2>2, <2>3, <2>4
  <2>6. (\A n \in 1 .. C : Q(n) \subseteq analysis) /\ C = Cardinality(analysis)
    BY <2>1, <2>2, <2>3
  <2> QED
    BY <2>5, <2>6 DEF C, Q
<1>8. /\ \A id \in tuning : Cardinality({n \in 1 .. CountTuningList(db, uid) :
                                  id \in ToSet(GetTuningList(db, uid, n, size))}) = 1
      /\ \A n \in 1 .. CountTuningList(db, uid) :
           ToSet(GetTuningList(db, uid, n, size)) \subseteq tuning
      /\ CountTuningList(db, uid) = Cardinality(tuning)
  <2> DEFINE P(n) == ToSet(PageOf(Newest(OfIps(db.tune, ips)), n, size))
             Q(n) == ToSet(GetTuningList(db, uid, n, size))
             C == CountTuningList(db, uid)
  <2>1. \A n : Q(n) = P(n)
    BY Selected DEF GetTuningList, TuningPage, ips
  <2>2. C = Total(db.tune, ips) /\ tuning = OfIps(db.tune, ips)
    BY <1>5
  <2>3. /\ Total(db.tune, ips) = Cardinality(OfIps(db.tune, ips))
        /\ \A id \in OfIps(db.tune, ips) :
             Cardinality({n \in 1 .. Total(db.tune, ips) : id \in P(n)}) = 1
        /\ \A n \in 1 .. Total(db.tune, ips) : P(n) \subseteq OfIps(db.tune, ips)
    BY <1>0, <1>1, <1>2, OneList
  <2> HIDE DEF analysis, tuning, C, P, Q
  <2>4. \A id : {n \in 1 .. C : id \in Q(n)} = {n \in 1 .. C : id \in P(n)}
    BY <2>1
  <2>5. \A id \in tuning : Cardinality({n \in 1 .. C : id \in Q(n)}) = 1
    BY <2>2, <2>3, <2>4
  <2>6. (\A n \in 1 .. C : Q(n) \subseteq tuning) /\ C = Cardinality(tuning)
    BY <2>1, <2>2, <2>3
  <2> QED
    BY <2>5, <2>6 DEF C, Q
<1>9. /\ \A id \in OfIps(db.cmd, ips) : Cardinality({n \in 1 .. CountCommandList(db, uid) :
                                  id \in ToSet(GetCommandList(db, uid, n, size))}) = 1
      /\ \A n \in 1 .. CountCommandList(db, uid) :
           ToSet(GetCommandList(db, uid, n, size)) \subseteq OfIps(db.cmd, ips)
      /\ CountCommandList(db, uid) = Cardinality(OfIps(db.cmd, ips))
  <2> DEFINE P(n) == ToSet(PageOf(Newest(OfIps(db.cmd, ips)), n, size))
             Q(n) == ToSet(GetCommandList(db, uid, n, size))
             C == CountCommandList(db, uid)
  <2>1. \A n : Q(n) = P(n)
    BY Selected DEF GetCommandList, CommandPage, ips
  <2>2. C = Total(db.cmd, ips) /\ OfIps(db.cmd, ips) = OfIps(db.cmd, ips)
    BY <1>5
  <2>3. /\ Total(db.cmd, ips) = Cardinality(OfIps(db.cmd, ips))
        /\ \A id \in OfIps(db.cmd, ips) :
             Cardinality({n \in 1 .. Total(db.cmd, ips) : id \in P(n)}) = 1
        /\ \A n \in 1 .. Total(db.cmd, ips) : P(n) \subseteq OfIps(db.cmd, ips)
    BY <1>0, <1>1, <1>2, OneList
  <2> HIDE DEF analysis, tuning, C, P, Q
  <2>4. \A id : {n \in 1 .. C : id \in Q(n)} = {n \in 1 .. C : id \in P(n)}
    BY <2>1
  <2>5. \A id \in OfIps(db.cmd, ips) : Cardinality({n \in 1 .. C : id \in Q(n)}) = 1
    BY <2>2, <2>3, <2>4
  <2>6. (\A n \in 1 .. C : Q(n) \subseteq OfIps(db.cmd, ips)) /\ C = Cardinality(OfIps(db.cmd, ips))
    BY <2>1, <2>2, <2>3
  <2> QED
    BY <2>5, <2>6 DEF C, Q
<1> QED
  BY <1>3, <1>4, <1>6, <1>7, <1>8, <1>9 DEF perIp, ips

\* What the triggers write to the commands already there.
LEMMA CommandWrites ==
  ASSUME NEW q, q.op \in {"change_collection_status", "change_collection_info",
                          "update_analysis_description", "change_tuning_status",
                          "update_tuning_description", "update_command_description"},
         NEW s, NEW d, DOMAIN d = Fields
  PROVE  LET e == Run(q, s, d).db
         IN  \/ e.cmd = d.cmd
             \/ \E keys, column, value : /\ column \in {"name", "status", "desc"}
                                         /\ e.cmd = Update(d.cmd, keys, column, value)
<1> DEFINE e == Run(q, s, d).db
           Written(cmd) == \E keys, column, value : /\ column \in {"name", "status", "desc"}
                                                    /\ cmd = Update(d.cmd, keys, column, value)
<1>0. \A keys, value : \A column \in {"name", "status", "desc"} :
        Written(Update(d.cmd, keys, column, value))
  OBVIOUS
<1>1. CASE q.op = "change_collection_status"
  <2>1. e.cmd \in {d.cmd, UpdateCommandStatus(d.cmd, q.cid, q.status)}
    BY <1>1 DEF Run, ChangeCollectionStatus, Commit, Reply, Fields
  <2> HIDE DEF e, Written
  <2> QED
    BY <1>0, <2>1 DEF UpdateCommandStatus, e, Written
<1>2. CASE q.op = "change_collection_info"
  <2> DEFINE name == <<q.workload>> \o Scalar(s.coll, DOMAIN s.coll \cap {q.cid}, "name", <<>>)
  <2>1. e.cmd \in {d.cmd, UpdateNameById(d.cmd, q.cid, name)}
    BY <1>2 DEF Run, ChangeCollectionInfo, Reply, Raise, Fields
  <2> HIDE DEF e, Written, name
  <2> QED
    BY <1>0, <2>1 DEF UpdateNameById, e, Written
<1>3. CASE q.op = "update_analysis_description"
  <2>1. e.cmd = UpdateCommandDesc(d.cmd, CommandOf(s.cmd, q.cid, "analysis"), q.desc)
    BY <1>3 DEF Run, UpdateAnalysisDescription, Reply, Fields
  <2> HIDE DEF e, Written
  <2> QED
    BY <1>0, <2>1 DEF UpdateCommandDesc, e, Written
<1>4. CASE q.op = "change_tuning_status"
  <2>1. e.cmd \in {d.cmd, UpdateStatusByName(d.cmd, q.name, "finished")}
    BY <1>4 DEF Run, ChangeTuningStatus, Commit, Reply, Fields
  <2> HIDE DEF e, Written
  <2> QED
    BY <1>0, <2>1 DEF UpdateStatusByName, e, Written
<1>5. CASE q.op = "update_tuning_description"
  <2>1. e.cmd = UpdateCommandDesc(d.cmd, CommandOf(s.cmd, q.tid, "tuning"), q.desc)
    BY <1>5 DEF Run, UpdateTuningDesc, Reply, Fields
  <2> HIDE DEF e, Written
  <2> QED
    BY <1>0, <2>1 DEF UpdateCommandDesc, e, Written
<1>6. CASE q.op = "update_command_description"
  <2>1. e.cmd = UpdateCommandDesc(d.cmd, {q.kid}, q.desc)
    BY <1>6 DEF Run, UpdateCommandDescription, Reply, Fields
  <2> HIDE DEF e, Written
  <2> QED
    BY <1>0, <2>1 DEF UpdateCommandDesc, e, Written
<1> QED
  BY <1>1, <1>2, <1>3, <1>4, <1>5, <1>6

\* The tables the lists are read from.
Listing(d) == Owned(d.coll, d.tune, d.cmd) /\ IsFiniteSet(DOMAIN d.ips)

\* The addresses stay finitely many.
LEMMA IpsFinite ==
  ASSUME NEW q, Request(q), NEW s, NEW d, DOMAIN d = Fields, IsFiniteSet(DOMAIN d.ips)
  PROVE  IsFiniteSet(DOMAIN Run(q, s, d).db.ips)
<1> DEFINE e == Run(q, s, d).db
<1>1. \A k, row : IsFiniteSet(DOMAIN Insert(d.ips, k, row))
  <2> TAKE k, row
  <2>1. DOMAIN Insert(d.ips, k, row) = DOMAIN d.ips \cup {k}
    BY DEF Insert
  <2> QED
    BY <2>1, FS_AddElement
<1>2. CASE q.op \in {"add_new_collection", "add_new_tuning"}
  <2>1. e.ips \in {d.ips, InsertIpByUser(d.ips, q.ip, 0, NoText)}
    <3>1. CASE q.op = "add_new_collection"
      BY <3>1 DEF Run, AddNewCollection, Commit, Reply, Fields
    <3>2. CASE q.op = "add_new_tuning"
      BY <3>2 DEF Run, AddNewTuning, Commit, Reply, Fields
    <3> QED
      BY <1>2, <3>1, <3>2
  <2> HIDE DEF e
  <2> QED
    BY <1>1, <2>1 DEF InsertIpByUser, e
<1>3. CASE q.op = "add_ip"
  <2>1. e.ips \in {d.ips, InsertIpByUser(d.ips, q.ip, q.uid, q.desc)}
    BY <1>3 DEF Run, AddIp, Commit, Reply, Fields
  <2> HIDE DEF e
  <2> QED
    BY <1>1, <2>1 DEF InsertIpByUser, e
<1>4. CASE q.op = "update_ip"
  <2>1. e.ips = UpdateIpByUser(d.ips, q.ip, q.uid, q.desc)
    BY <1>4 DEF Run, UpdateIp, Reply, Fields
  <2>2. DOMAIN UpdateIpByUser(d.ips, q.ip, q.uid, q.desc) = DOMAIN d.ips
    BY DEF UpdateIpByUser, Update
  <2> HIDE DEF e
  <2> QED
    BY <2>1, <2>2 DEF e
<1>5. CASE q.op = "delete_ip"
  <2>1. e.ips \in {d.ips, DeleteIpByUser(d.ips, q.ip, q.uid)}
    BY <1>5 DEF Run, DeleteIp, Commit, Reply, Fields
  <2>2. DOMAIN DeleteIpByUser(d.ips, q.ip, q.uid) = DOMAIN d.ips \ {<<q.uid, q.ip>>}
    BY DEF DeleteIpByUser
  <2>3. IsFiniteSet(DOMAIN d.ips \ {<<q.uid, q.ip>>})
    BY FS_RemoveElement
  <2> HIDE DEF e
  <2> QED
    BY <2>1, <2>2, <2>3 DEF e
<1>6. CASE q.op \notin {"add_new_collection", "add_new_tuning", "add_ip", "update_ip",
                        "delete_ip"}
  BY <1>6, Untouched
<1> QED
  BY <1>2, <1>3, <1>4, <1>5, <1>6

\* No trigger changes the address of a tuning.
LEMMA TuneAddress ==
  ASSUME NEW q, Request(q), NEW s, NEW d, Good(d), NEW t \in DOMAIN d.tune
  PROVE  Run(q, s, d).db.tune[t].ip = d.tune[t].ip
<1> DEFINE e == Run(q, s, d).db
<1>0. DOMAIN d = Fields /\ \A x \in DOMAIN d.tune : DOMAIN d.tune[x] = TuneRow
  BY DEF Good, Read, TuneOK
<1>1. \A keys, column, value : column # "ip" =>
        Update(d.tune, keys, column, value)[t].ip = d.tune[t].ip
  BY <1>0, UpdateHas DEF TuneRow
<1>2. CASE q.op = "add_new_tuning"
  <2> DEFINE tid == TuningMaxTid(s.tune) + 1
             row == [name |-> q.name, status |-> "running", ip |-> q.ip,
                     total |-> q.rounds, base |-> NoNumber, desc |-> NoText]
  <2>1. e.tune = d.tune \/ (tid \notin DOMAIN d.tune /\ e.tune = Insert(d.tune, tid, row))
    BY <1>0, <1>2 DEF Run, AddNewTuning, Commit, Reply, InsertNewTuning, Fields
  <2> HIDE DEF e, tid, row
  <2> QED
    BY <2>1 DEF Insert, e
<1>3. CASE q.op \in {"change_tuning_baseline", "change_tuning_status", "rename_tuning",
                     "update_tuning_description", "update_command_description"}
  <2>1. \/ e.tune = d.tune
        \/ \E keys, column, value : column # "ip" /\ e.tune = Update(d.tune, keys, column, value)
    <3>1. \/ e.tune = d.tune
          \/ \E keys, column, value :
               e.tune = Update(d.tune, keys, column, value) /\ column \in {"base", "desc"}
          \/ e.tune = Update(d.tune, TuningNamed(d.tune, q.name), "name", q.new)
          \/ e.tune = Update(d.tune, TuningNamed(d.tune, q.name), "status", "finished")
      BY <1>0, <1>3, TuneWrites
    <3> HIDE DEF e
    <3> QED
      BY <3>1
  <2> HIDE DEF e
  <2> QED
    BY <1>1, <2>1 DEF e
<1>4. CASE q.op \notin {"add_new_tuning", "change_tuning_baseline", "change_tuning_status",
                        "rename_tuning", "update_tuning_description",
                        "update_command_description"}
  BY <1>0, <1>4, Untouched
<1> QED
  BY <1>2, <1>3, <1>4

\* A command is as it was, or new with the address of its run.
LEMMA CommandAddress ==
  ASSUME NEW q, Request(q), NEW s, NEW d, Good(d), NEW k \in DOMAIN Run(q, s, d).db.cmd
  PROVE  LET e == Run(q, s, d).db
         IN  \/ /\ k \in DOMAIN d.cmd /\ e.cmd[k].type = d.cmd[k].type
                /\ e.cmd[k].mid = d.cmd[k].mid /\ e.cmd[k].ip = d.cmd[k].ip
             \/ e.cmd[k].type = "analysis" /\ e.cmd[k].ip = e.coll[e.cmd[k].mid].ip
             \/ e.cmd[k].type = "tuning" /\ e.cmd[k].ip = e.tune[e.cmd[k].mid].ip
<1> DEFINE e == Run(q, s, d).db
<1>0. DOMAIN d = Fields /\ \A x \in DOMAIN d.cmd : DOMAIN d.cmd[x] = CmdRow
  BY DEF Good, Read, CmdOK
<1>1. \A keys, column, value : column \in {"name", "status", "desc"} =>
        /\ DOMAIN Update(d.cmd, keys, column, value) = DOMAIN d.cmd
        /\ \A x \in DOMAIN d.cmd : LET u == Update(d.cmd, keys, column, value)[x]
                                   IN  /\ u.type = d.cmd[x].type /\ u.mid = d.cmd[x].mid
                                       /\ u.ip = d.cmd[x].ip
  BY <1>0, UpdateHas DEF CmdRow
<1>2. CASE q.op = "add_new_collection"
  <2> DEFINE cid == CollectionMaxCid(s.coll) + 1
             kid == CommandMaxCid(s.cmd) + 1
             row == [name |-> <<q.time>>, status |-> "running", ip |-> q.ip,
                     workload |-> Null, total |-> NoNumber, desc |-> NoText]
             command == [mid |-> cid, type |-> "analysis", name |-> <<q.time>>,
                         status |-> "running", ip |-> q.ip, desc |-> NoText]
  <2>1. \/ e.coll = d.coll /\ e.cmd = d.cmd
        \/ /\ kid \notin DOMAIN d.cmd
           /\ e.coll = Insert(d.coll, cid, row) /\ e.cmd = Insert(d.cmd, kid, command)
    BY <1>0, <1>2 DEF Run, AddNewCollection, Commit, Reply, InsertNewCollection,
       InsertNewCommand, Fields
  <2>2. /\ row.ip = q.ip /\ command.ip = q.ip /\ command.mid = cid
        /\ command.type = "analysis"
    OBVIOUS
  <2> HIDE DEF e, cid, kid, row, command
  <2> QED
    BY <2>1, <2>2 DEF Insert, e
<1>3. CASE q.op = "add_new_tuning"
  <2> DEFINE tid == TuningMaxTid(s.tune) + 1
             kid == CommandMaxCid(s.cmd) + 1
             row == [name |-> q.name, status |-> "running", ip |-> q.ip,
                     total |-> q.rounds, base |-> NoNumber, desc |-> NoText]
             command == [mid |-> tid, type |-> "tuning", name |-> q.name,
                         status |-> "running", ip |-> q.ip, desc |-> NoText]
  <2>1. \/ e.tune = d.tune /\ e.cmd = d.cmd
        \/ /\ kid \notin DOMAIN d.cmd
           /\ e.tune = Insert(d.tune, tid, row) /\ e.cmd = Insert(d.cmd, kid, command)
    BY <1>0, <1>3 DEF Run, AddNewTuning, Commit, Reply, InsertNewTuning,
       InsertNewCommand, Fields
  <2>2. /\ row.ip = q.ip /\ command.ip = q.ip /\ command.mid = tid
        /\ command.type = "tuning"
    OBVIOUS
  <2> HIDE DEF e, tid, kid, row, command
  <2> QED
    BY <2>1, <2>2 DEF Insert, e
<1>4. CASE q.op \in {"change_collection_status", "change_collection_info",
                     "update_analysis_description", "change_tuning_status",
                     "update_tuning_description", "update_command_description"}
  <2>1. \/ e.cmd = d.cmd
        \/ \E keys, column, value : /\ column \in {"name", "status", "desc"}
                                    /\ e.cmd = Update(d.cmd, keys, column, value)
    BY <1>0, <1>4, CommandWrites
  <2> HIDE DEF e
  <2> QED
    BY <1>1, <2>1 DEF e
<1>5. CASE q.op \notin {"add_new_collection", "add_new_tuning", "change_collection_status",
                        "change_collection_info", "update_analysis_description",
                        "change_tuning_status", "update_tuning_description",
                        "update_command_description"}
  BY <1>0, <1>5, Untouched
<1> QED
  BY <1>2, <1>3, <1>4, <1>5

\* Runs keep their addresses and a new command has that of its run, so every
\* trigger keeps the commands at the addresses of their runs.
LEMMA ListingTrigger ==
  ASSUME NEW q, Request(q), NEW s, NEW d, Good(d), Listing(d), Later(d, Run(q, s, d).db)
  PROVE  Listing(Run(q, s, d).db)
<1> DEFINE e == Run(q, s, d).db
<1>1. \A c \in DOMAIN d.coll : e.coll[c].ip = d.coll[c].ip
  BY DEF Later
<1>2. \A t \in DOMAIN d.tune : e.tune[t].ip = d.tune[t].ip
  BY TuneAddress
<1>3. \A k \in DOMAIN e.cmd :
        \/ /\ k \in DOMAIN d.cmd /\ e.cmd[k].type = d.cmd[k].type
           /\ e.cmd[k].mid = d.cmd[k].mid /\ e.cmd[k].ip = d.cmd[k].ip
        \/ e.cmd[k].type = "analysis" /\ e.cmd[k].ip = e.coll[e.cmd[k].mid].ip
        \/ e.cmd[k].type = "tuning" /\ e.cmd[k].ip = e.tune[e.cmd[k].mid].ip
  BY CommandAddress
<1>4. IsFiniteSet(DOMAIN e.ips)
  BY IpsFinite DEF Good, Read, Listing
<1>5. Linked(d.coll, d.tune, d.cmd) /\ Owned(d.coll, d.tune, d.cmd)
  BY DEF Good, Listing
<1> HIDE DEF e
<1>6. Owned(e.coll, e.tune, e.cmd)
  <2> DEFINE coll == e.coll
             tune == e.tune
             cmd == e.cmd
  <2>1. /\ \A c \in DOMAIN d.coll : coll[c].ip = d.coll[c].ip
        /\ \A t \in DOMAIN d.tune : tune[t].ip = d.tune[t].ip
    BY <1>1, <1>2
  <2>2. \A k \in DOMAIN cmd :
          \/ /\ k \in DOMAIN d.cmd /\ cmd[k].type = d.cmd[k].type
             /\ cmd[k].mid = d.cmd[k].mid /\ cmd[k].ip = d.cmd[k].ip
          \/ cmd[k].type = "analysis" /\ cmd[k].ip = coll[cmd[k].mid].ip
          \/ cmd[k].type = "tuning" /\ cmd[k].ip = tune[cmd[k].mid].ip
    BY <1>3
  <2> HIDE DEF coll, tune, cmd
  <2>3. Owned(coll, tune, cmd)
    BY ONLY <1>5, <2>1, <2>2 DEF Owned, Linked
  <2> QED
    BY <2>3 DEF coll, tune, cmd
<1> QED
  BY <1>4, <1>6 DEF Listing, e

LEMMA InitListing ==
  ASSUME Init
  PROVE  Listing(db)
<1>1. PICK known \in SUBSET work.ips :
        db = [ips |-> [k \in {<<1, i>> : i \in known} |-> [desc |-> NoText]],
              user |-> IF known = {} THEN Empty
                       ELSE InsertNewUser(Empty, 1, "first", "x", "user"),
              coll |-> Empty, cmd |-> Empty, tune |-> Empty, alog |-> Empty,
              data |-> NoData, tdata |-> Empty]
  BY DEF Init
<1>2. IsFiniteSet(known)
  <2>1. IsFiniteSet(work.ips)
    BY UiAssumption DEF Init
  <2> QED
    BY <2>1, FS_Subset
<1> DEFINE f == [i \in known |-> <<1, i>>]
           keys == {<<1, i>> : i \in known}
<1>3. DOMAIN db.ips = keys /\ db.cmd = Empty
  BY <1>1
<1>4. IsFiniteSet(keys)
  <2>1. DOMAIN f = known /\ keys = {f[i] : i \in known}
    OBVIOUS
  <2> HIDE DEF f, keys
  <2> QED
    BY <1>2, <2>1, FiniteImage
<1>5. DOMAIN db.cmd = {}
  BY <1>3 DEF Empty
<1> HIDE DEF keys
<1> QED
  BY <1>3, <1>4, <1>5 DEF Listing, Owned

LEMMA NextListing == UiInv /\ Listing(db) /\ [Next]_vars => Listing(db)'
<1> SUFFICES ASSUME UiInv, Listing(db), [Next]_vars PROVE Listing(db')
  OBVIOUS
<1>0. Good(db) /\ DOMAIN db = Fields
  BY DEF UiInv, Good, Read
<1>1. CASE db' = db
  BY <1>1
<1>2. ASSUME NEW c \in Clients, OpenSession(c) PROVE Listing(db')
  <2>1. db' = TableMade(Call(c), db)
    BY <1>2 DEF OpenSession
  <2>2. /\ db'.ips = db.ips /\ db'.coll = db.coll /\ db'.tune = db.tune /\ db'.cmd = db.cmd
    BY <1>0, <2>1 DEF TableMade, Fields
  <2> QED
    BY <2>2 DEF Listing
<1>3. ASSUME NEW c \in Clients, CommitSession(c) PROVE Listing(db')
  <2>1. Request(Call(c)) /\ db' = Run(Call(c), Reads(c), db).db
    BY <1>3, CommitRuns DEF Outcome
  <2>2. Later(db, db')
    BY <1>3, CommitStep
  <2> QED
    BY <1>0, <2>1, <2>2, ListingTrigger
<1>4. db' = db \/ (\E c \in Clients : OpenSession(c) \/ CommitSession(c))
  <2>1. CASE UNCHANGED vars
    BY <2>1 DEF vars
  <2>2. ASSUME NEW a \in work.analyses, AnalysisStep(a) \/ AnalysisFails(a) PROVE db' = db
    BY <2>2 DEF AnalysisStep, AnalysisFails, OpenPipe, Sample, ClosePipe, Collected, Classified,
       FinishAnswered, SendLine, LogFinished, ReadRow, RowAnswered, PassEnds, ReopenPipe,
       SendFinished, ReaderEnds, Quiet, Still
  <2>3. ASSUME NEW t \in Tunings, TuningPut(t) PROVE db' = db
    BY <2>3 DEF TuningPut
  <2>4. ASSUME NEW w \in work.webs, WebRequest(w) PROVE db' = db
    BY <2>4 DEF WebRequest
  <2>5. CASE Poll
    BY <2>5 DEF Poll
  <2> QED
    BY <2>1, <2>2, <2>3, <2>4, <2>5 DEF Next
<1> QED
  BY <1>1, <1>2, <1>3, <1>4

(* For every user and every size of page, the pages of a list together are *)
(* the runs of the user's addresses, each once, as many as the count said, *)
(* and the lists without pages have the same ones, whatever is recorded,   *)
(* renamed, added and deleted before (get_*_list, count_*_list).           *)
THEOREM PagesAgree == Spec => []ListsAgree
<1>1. Init => UiInv /\ Listing(db)
  BY InitInv, InitListing
<1>2. UiInv /\ Listing(db) /\ [Next]_vars => (UiInv /\ Listing(db))'
  BY NextInv, NextListing
<1>3. UiInv /\ Listing(db) => ListsAgree
  BY ListsHold DEF UiInv, Listing
<1> QED
  BY <1>1, <1>2, <1>3, PTL DEF Spec
=============================================================================
