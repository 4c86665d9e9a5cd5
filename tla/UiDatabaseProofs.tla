-------------------------- MODULE UiDatabaseProofs --------------------------
(***************************************************************************)
(* Theorems about the web UI database, for all numbers of analyses,        *)
(* tunings, samples, rounds and web requests.                              *)
(***************************************************************************)
EXTENDS UiDatabase, SequenceLemmas

-----------------------------------------------------------------------------
(* Tables and their ids                                                    *)

Bounded(S) == S \subseteq Nat /\ \E n \in Nat : \A x \in S : x <= n

LEMMA MaxOfBounded ==
  ASSUME NEW S, Bounded(S)
  PROVE  /\ MaxOf(S) \in Nat
         /\ S # {} => MaxOf(S) \in S /\ MaxOf(S) = Max(S)
         /\ \A x \in S : x <= MaxOf(S)
<1>1. CASE S = {}
  BY <1>1 DEF MaxOf
<1>2. CASE S # {}
  <2> DEFINE U == {n \in Nat : \A x \in S : x <= n}
  <2>1. U \subseteq Nat /\ U # {} /\ S \subseteq Nat
    BY DEF Bounded
  <2>2. PICK m \in U : \A n \in U : m <= n
    BY <2>1, LeastNumber
  <2>3. m \in S
    <3> SUFFICES ASSUME m \notin S PROVE FALSE
      OBVIOUS
    <3>1. \A x \in S : x < m
      BY <2>1, <2>2
    <3>2. m - 1 \in U
      <4>1. m > 0
        <5>1. PICK x \in S : x < m /\ x \in Nat /\ m \in Nat
          BY <1>2, <2>1, <2>2, <3>1
        <5> QED
          BY <5>1
      <4> QED
        BY <2>1, <2>2, <3>1, <4>1
    <3> QED
      BY <2>2, <3>2
  <2>4. \E x \in S : \A y \in S : x >= y
    BY <2>1, <2>2, <2>3
  <2>5. Max(S) \in S /\ \A y \in S : Max(S) >= y
    BY <2>4 DEF Max
  <2> QED
    BY <1>2, <2>1, <2>5 DEF MaxOf
<1> QED
  BY <1>1, <1>2

LEMMA BoundedMore ==
  ASSUME NEW S, Bounded(S), NEW n \in Nat
  PROVE  Bounded(S \cup {n}) /\ MaxOf(S \cup {n}) >= MaxOf(S)
<1>1. PICK m \in Nat : \A x \in S : x <= m
  BY DEF Bounded
<1>2. Bounded(S \cup {n})
  <2>1. CASE n <= m
    BY <1>1, <2>1 DEF Bounded
  <2>2. CASE m <= n
    <3>1. \A x \in S : x <= n
      BY <1>1, <2>2 DEF Bounded
    <3> QED
      BY <3>1 DEF Bounded
  <2> QED
    BY <2>1, <2>2
<1>3. S = {} => MaxOf(S) = 0
  BY DEF MaxOf
<1> QED
  BY <1>2, <1>3, MaxOfBounded

LEMMA InsertHas ==
  ASSUME NEW t, NEW k, NEW row
  PROVE  LET u == Insert(t, k, row)
         IN  /\ DOMAIN u = DOMAIN t \cup {k} /\ u[k] = row
             /\ \A x \in DOMAIN t : x # k => u[x] = t[x]
  BY DEF Insert

LEMMA UpdateHas ==
  ASSUME NEW t, NEW keys, NEW column, NEW value
  PROVE  LET u == Update(t, keys, column, value)
         IN  /\ DOMAIN u = DOMAIN t
             /\ \A k \in DOMAIN t :
                  /\ DOMAIN u[k] = DOMAIN t[k]
                  /\ \A x \in DOMAIN t[k] : x # column => u[k][x] = t[k][x]
                  /\ k \notin keys => u[k] = t[k]
                  /\ k \in keys /\ column \in DOMAIN t[k] => u[k][column] = value
  BY DEF Update

-----------------------------------------------------------------------------
(* The calls of a request                                                  *)

Words == {"now", "w", NoText, "new"} \cup UNION {{t[i] : i \in DOMAIN t} : t \in Tunings}
Names == Seq(Words)
Lines == Analyses \X Nat

AnalysisCalls ==
  [op : {"add_new_collection"}, ip : Ips, time : {"now"}]
  \cup [op : {"add_collection_data"}, cols : {ColsOf[a] : a \in Analyses}, sample : Lines]
  \cup [op : {"add_analysis_log"}, line : Lines]
  \cup [op : {"change_collection_status"}, status : {"finished"}, type : {"csv", "log"}]
  \cup [op : {"change_collection_info"}, workload : {"w", NoText}]

Projects == {Head(t) : t \in Tunings}
Parameters == {ParamsOf[t] : t \in Tunings}
TuningRequests ==
  [op : {"add_new_tuning"}, name : Tunings, rounds : {Rounds}, ip : Ips]
  \cup [op : {"change_tuning_baseline"}, name : Tunings, base : {0}]
  \cup [op : {"create_tuning_data_table"}, project : Projects, params : Parameters]
  \cup [op : {"add_tuning_data"}, name : Tunings, project : Projects, round : Nat \ {0},
        params : Parameters, row : Tunings \X Nat]
  \cup [op : {"change_tuning_status"}, name : Tunings, project : Projects]

UserRequests ==
  [op : {"user_exist", "create_user"}, email : Emails, pwd : Pwds]
  \cup [op : {"change_user_pwd"}, uid : Uids, pwd : Pwds, newPwd : Pwds]
  \cup [op : {"change_user_info"}, uid : Uids, desc : Descs]
  \cup [op : {"count_user"}]
  \cup [op : {"create_admin"}, pwd : Pwds]
  \cup [op : {"add_ip", "update_ip"}, uid : Uids, ip : Ips, desc : Descs]
  \cup [op : {"delete_ip"}, uid : Uids, ip : Ips]

RunRequests ==
  [op : {"rename_collection", "rename_tuning"}, name : Names, new : Names]
  \cup [op : {"update_analysis_description"}, cid : Nat, desc : Descs]
  \cup [op : {"update_tuning_description"}, tid : Nat, desc : Descs]
  \cup [op : {"update_command_description"}, kid : Nat, desc : Descs]

OtherCalls == TuningRequests \cup UserRequests \cup RunRequests

\* What Call makes of the first call.
Given(h, id) ==
  IF "cid" \in DOMAIN h THEN h
  ELSE [x \in DOMAIN h \cup {"cid"} |-> IF x = "cid" THEN id ELSE h[x]]

LEMMA CallGiven ==
  ASSUME NEW c
  PROVE  Call(c) = Given(Head(req[c].calls), req[c].id)
  BY DEF Call, Given

LEMMA GivenHas ==
  ASSUME NEW h, NEW id
  PROVE  /\ \A x \in DOMAIN h : Given(h, id)[x] = h[x]
         /\ "cid" \notin DOMAIN h => Given(h, id).cid = id
  BY DEF Given

\* The request as a trigger gets it.
Request(q) ==
  \/ /\ q.op = "add_new_collection" /\ q.ip \in Ips /\ q.time = "now"
  \/ /\ q.op = "add_collection_data" /\ q.sample \in Lines
  \/ /\ q.op = "add_analysis_log" /\ q.line \in Lines
  \/ /\ q.op = "change_collection_status" /\ q.status = "finished"
  \/ /\ q.op = "change_collection_info" /\ q.workload \in {"w", NoText}
  \/ /\ q.op = "add_new_tuning" /\ q.name \in Tunings /\ q.rounds = Rounds /\ q.ip \in Ips
  \/ q.op \in {"change_tuning_baseline", "create_tuning_data_table"}
  \/ /\ q.op = "add_tuning_data" /\ q.round \in Nat \ {0} /\ q.row \in Tunings \X Nat
  \/ q.op \in {"change_tuning_status", "user_exist", "create_user", "change_user_pwd",
               "change_user_info", "count_user", "create_admin", "update_ip", "delete_ip",
               "update_analysis_description", "update_tuning_description",
               "update_command_description"}
  \/ /\ q.op = "add_ip" /\ q.uid \in Nat /\ q.ip \in Ips
  \/ /\ q.op \in {"rename_collection", "rename_tuning"} /\ q.new \in Names

LEMMA Requests ==
  ASSUME NEW h \in AnalysisCalls \cup OtherCalls, NEW id
  PROVE  Request(Given(h, id)) /\ Given(h, id).op = h.op
<1>1. \A x \in DOMAIN h : Given(h, id)[x] = h[x]
  BY GivenHas
<1> DEFINE q == Given(h, id)
<1> HIDE DEF q
<1>2. "op" \in DOMAIN h
  BY DEF AnalysisCalls, OtherCalls, TuningRequests, UserRequests, RunRequests
<1>3. CASE h \in AnalysisCalls
  BY <1>1, <1>3 DEF AnalysisCalls, Request, q
<1>4. CASE h \in TuningRequests
  BY <1>1, <1>4 DEF TuningRequests, Request, q
<1>5. CASE h \in UserRequests
  BY <1>1, <1>5, UiAssumption DEF UserRequests, Request, q
<1>6. CASE h \in RunRequests
  BY <1>1, <1>6 DEF RunRequests, Request, q
<1> QED
  BY <1>1, <1>2, <1>3, <1>4, <1>5, <1>6 DEF OtherCalls, q

-----------------------------------------------------------------------------
(* What is known of each table                                             *)

Ids(t) == Bounded(DOMAIN t) /\ 0 \notin DOMAIN t

CollRow == {"name", "status", "ip", "workload", "total", "desc"}
CollOK(coll) ==
  /\ Ids(coll)
  /\ \A c \in DOMAIN coll :
       /\ DOMAIN coll[c] = CollRow
       /\ coll[c].status \in {"running", "finished"} /\ coll[c].name \in Names
       /\ coll[c].workload \in {Null, NoText, "w"} /\ coll[c].total \in Nat \cup {NoNumber}

CmdRow == {"mid", "type", "name", "status", "ip", "desc"}
CmdOK(cmd) == Ids(cmd) /\ \A k \in DOMAIN cmd : DOMAIN cmd[k] = CmdRow

TuneRow == {"name", "status", "ip", "total", "base", "desc"}
TuneOK(tune) ==
  /\ Ids(tune)
  /\ \A t \in DOMAIN tune :
       /\ DOMAIN tune[t] = TuneRow
       /\ tune[t].name \in Names /\ tune[t].total = Rounds

\* One command for each run, and no other.
Linked(coll, tune, cmd) ==
  /\ \A c \in DOMAIN coll : \E k \in DOMAIN cmd : CommandOf(cmd, c, "analysis") = {k}
  /\ \A t \in DOMAIN tune : \E k \in DOMAIN cmd : CommandOf(cmd, t, "tuning") = {k}
  /\ \A k \in DOMAIN cmd : \/ cmd[k].type = "analysis" /\ cmd[k].mid \in DOMAIN coll
                           \/ cmd[k].type = "tuning" /\ cmd[k].mid \in DOMAIN tune
  /\ Cardinality(DOMAIN cmd) = Cardinality(DOMAIN coll) + Cardinality(DOMAIN tune)

UserRow == {"email", "pwd", "desc", "role"}
UserOK(user) ==
  /\ Bounded(DOMAIN user)
  /\ user = [u \in DOMAIN user |-> user[u]]
  /\ \A u \in DOMAIN user : /\ DOMAIN user[u] = UserRow
                            /\ user[u].role = "admin" => u = 0
  /\ \A u, v \in DOMAIN user : user[u].email = user[v].email => u = v

IpsOK(ips) == \A k \in DOMAIN ips : k[1] \in Nat /\ k[2] \in Ips

DataRow == {"made", "header", "cols", "rows"}
\* The rows of analysis_data and analysis_log are keyed by collections.
Keyed(rows, coll) ==
  /\ \A k \in DOMAIN rows : /\ k = <<k[1], k[2]>> /\ k[2] \in Nat \ {0}
                            /\ k[1] \in DOMAIN coll
  /\ \E n \in Nat : \A k \in DOMAIN rows : k[2] <= n
DataOK(data, coll) == DOMAIN data = DataRow /\ Keyed(data.rows, coll)

\* The log of a collection is numbered from 1 on without a gap.
LogOK(alog, coll) ==
  /\ Keyed(alog, coll)
  /\ \A k \in DOMAIN alog : alog[k] \in Lines /\ \A i \in 1 .. k[2] : <<k[1], i>> \in DOMAIN alog

\* A total is the number of rows at some earlier moment.
TotalsOK(coll, data) ==
  \A c \in DOMAIN coll : coll[c].total <= DataMaxRound(data, c)

Fields == {"ips", "user", "coll", "cmd", "tune", "alog", "data", "tdata"}

\* What a stale copy still has to satisfy, and the database itself.
Read(d) ==
  /\ DOMAIN d = Fields
  /\ CollOK(d.coll) /\ CmdOK(d.cmd) /\ TuneOK(d.tune) /\ UserOK(d.user) /\ IpsOK(d.ips)
  /\ DataOK(d.data, d.coll) /\ LogOK(d.alog, d.coll)
Good(d) == Read(d) /\ Linked(d.coll, d.tune, d.cmd) /\ TotalsOK(d.coll, d.data)

\* What no trigger takes back.
Later(d, e) ==
  /\ \A c \in DOMAIN d.coll :
       /\ c \in DOMAIN e.coll
       /\ e.coll[c].total >= d.coll[c].total /\ e.coll[c].ip = d.coll[c].ip
       /\ d.coll[c].status = "finished" => e.coll[c].status = "finished"
  /\ \A k \in DOMAIN d.alog : k \in DOMAIN e.alog /\ e.alog[k] = d.alog[k]
  /\ \A k \in DOMAIN d.data.rows : k \in DOMAIN e.data.rows
                                   /\ e.data.rows[k] = d.data.rows[k]
  /\ DOMAIN d.tune \subseteq DOMAIN e.tune

-----------------------------------------------------------------------------
(* The operators on one table                                              *)

LEMMA IdsMore ==
  ASSUME NEW t, Ids(t), NEW s, Ids(s), NEW row, MaxOf(DOMAIN s) + 1 \notin DOMAIN t
  PROVE  LET k == MaxOf(DOMAIN s) + 1
         IN  /\ k \in Nat \ {0} /\ Ids(Insert(t, k, row))
             /\ IsFiniteSet(DOMAIN t) /\ Cardinality(DOMAIN t) \in Nat
             /\ Cardinality(DOMAIN Insert(t, k, row)) = Cardinality(DOMAIN t) + 1
<1> DEFINE k == MaxOf(DOMAIN s) + 1
<1>1. k \in Nat \ {0}
  BY MaxOfBounded DEF Ids
<1>2. IsFiniteSet(DOMAIN t)
  BY FS_BoundedSetOfNaturals DEF Ids, Bounded
<1>3. Cardinality(DOMAIN t \cup {k}) = Cardinality(DOMAIN t) + 1 /\ Cardinality(DOMAIN t) \in Nat
  BY <1>2, FS_AddElement, FS_CardinalityType
<1>4. Bounded(DOMAIN t \cup {k})
  BY <1>1, BoundedMore DEF Ids
<1>5. DOMAIN Insert(t, k, row) = DOMAIN t \cup {k}
  BY InsertHas
<1> HIDE DEF k
<1> QED
  BY <1>1, <1>2, <1>3, <1>4, <1>5 DEF Ids, k

\* What the triggers write to collection_table.
CollValue(column, value) ==
  \/ column = "status" /\ value = "finished"
  \/ column = "workload" /\ value \in {NoText, "w"}
  \/ column = "name" /\ value \in Names
  \/ column = "total" /\ value \in Nat
  \/ column = "desc"

LEMMA CollUpdate ==
  ASSUME NEW coll, CollOK(coll), NEW keys, NEW column, NEW value, CollValue(column, value)
  PROVE  LET u == Update(coll, keys, column, value)
         IN  /\ CollOK(u) /\ DOMAIN u = DOMAIN coll
             /\ \A c \in DOMAIN coll :
                  /\ u[c].ip = coll[c].ip
                  /\ coll[c].status = "finished" => u[c].status = "finished"
                  /\ column # "total" \/ c \notin keys => u[c].total = coll[c].total
                  /\ column = "total" /\ c \in keys => u[c].total = value
<1> DEFINE u == Update(coll, keys, column, value)
<1>1. /\ DOMAIN u = DOMAIN coll
      /\ \A c \in DOMAIN coll : /\ DOMAIN u[c] = CollRow /\ DOMAIN coll[c] = CollRow
                                /\ \A x \in CollRow : x # column => u[c][x] = coll[c][x]
                                /\ c \notin keys => u[c] = coll[c]
                                /\ c \in keys /\ column \in CollRow => u[c][column] = value
  <2>1. \A c \in DOMAIN coll : DOMAIN coll[c] = CollRow
    BY DEF CollOK
  <2>2. /\ DOMAIN u = DOMAIN coll
        /\ \A c \in DOMAIN coll :
             /\ DOMAIN u[c] = DOMAIN coll[c]
             /\ \A x \in DOMAIN coll[c] : x # column => u[c][x] = coll[c][x]
             /\ c \notin keys => u[c] = coll[c]
             /\ c \in keys /\ column \in DOMAIN coll[c] => u[c][column] = value
    BY UpdateHas
  <2> HIDE DEF u
  <2> QED
    BY <2>1, <2>2
<1> HIDE DEF u
<1>2. \A c \in DOMAIN coll :
        /\ u[c].ip = coll[c].ip
        /\ u[c].status = coll[c].status \/ u[c].status = "finished"
        /\ u[c].name = coll[c].name \/ u[c].name \in Names
        /\ u[c].workload = coll[c].workload \/ u[c].workload \in {NoText, "w"}
        /\ u[c].total = coll[c].total \/ u[c].total \in Nat
        /\ column # "total" \/ c \notin keys => u[c].total = coll[c].total
        /\ column = "total" /\ c \in keys => u[c].total = value
  BY <1>1 DEF CollRow, CollValue
<1> QED
  BY <1>1, <1>2 DEF CollOK, Ids, u

LEMMA CollInsert ==
  ASSUME NEW coll, CollOK(coll), NEW s, CollOK(s), NEW ip,
         CollectionMaxCid(s) + 1 \notin DOMAIN coll
  PROVE  CollOK(InsertNewCollection(coll, CollectionMaxCid(s) + 1, ip, "now"))
<1> DEFINE c == CollectionMaxCid(s) + 1
           u == InsertNewCollection(coll, c, ip, "now")
<1>1. Ids(u)
  BY IdsMore DEF CollOK, CollectionMaxCid, InsertNewCollection
<1>2. /\ DOMAIN u = DOMAIN coll \cup {c} /\ \A x \in DOMAIN coll : u[x] = coll[x]
      /\ u[c] = [name |-> <<"now">>, status |-> "running", ip |-> ip,
                 workload |-> Null, total |-> NoNumber, desc |-> NoText]
  <2> DEFINE row == [name |-> <<"now">>, status |-> "running", ip |-> ip,
                     workload |-> Null, total |-> NoNumber, desc |-> NoText]
  <2>1. u = Insert(coll, c, row) /\ \A x \in DOMAIN coll : x # c
    BY DEF InsertNewCollection
  <2> HIDE DEF u, c, row
  <2>2. /\ DOMAIN u = DOMAIN coll \cup {c} /\ u[c] = row
        /\ \A x \in DOMAIN coll : u[x] = coll[x]
    BY <2>1 DEF Insert
  <2> QED
    BY <2>2 DEF row
<1> HIDE DEF u, c
<1>3. <<"now">> \in Names
  BY DEF Names, Words
<1> QED
  <2>1. /\ DOMAIN u[c] = CollRow /\ u[c].status = "running" /\ u[c].name \in Names
        /\ u[c].workload = Null /\ u[c].total = NoNumber
    <3>1. DOMAIN u[c] = CollRow
      BY <1>2, Zenon DEF CollRow
    <3> QED
      BY <1>2, <1>3, <3>1
  <2>2. CollOK(u)
    BY <1>1, <1>2, <2>1 DEF CollOK
  <2> QED
    BY <2>2 DEF u, c

LEMMA CmdUpdate ==
  ASSUME NEW cmd, CmdOK(cmd), NEW keys, NEW column, column \in {"name", "status", "desc"},
         NEW value
  PROVE  LET u == Update(cmd, keys, column, value)
         IN  /\ CmdOK(u)
             /\ \A coll, tune : Linked(coll, tune, cmd) => Linked(coll, tune, u)
<1> DEFINE u == Update(cmd, keys, column, value)
<1>1. /\ DOMAIN u = DOMAIN cmd
      /\ \A k \in DOMAIN cmd : /\ DOMAIN u[k] = CmdRow
                               /\ u[k].mid = cmd[k].mid /\ u[k].type = cmd[k].type
  BY UpdateHas DEF CmdOK, CmdRow
<1> HIDE DEF u
<1>2. \A m, t : CommandOf(u, m, t) = CommandOf(cmd, m, t)
  BY <1>1 DEF CommandOf, Where
<1> QED
  BY <1>1, <1>2 DEF CmdOK, Ids, Linked, u

LEMMA TuneUpdate ==
  ASSUME NEW tune, TuneOK(tune), NEW keys, NEW column, NEW value,
         column \in {"status", "base", "desc"} \/ (column = "name" /\ value \in Names)
  PROVE  LET u == Update(tune, keys, column, value)
         IN  TuneOK(u) /\ DOMAIN u = DOMAIN tune
<1> DEFINE u == Update(tune, keys, column, value)
<1>1. /\ DOMAIN u = DOMAIN tune
      /\ \A t \in DOMAIN tune : DOMAIN u[t] = TuneRow /\ u[t].total = Rounds
  BY UpdateHas DEF TuneOK, TuneRow
<1>2. \A t \in DOMAIN tune : u[t].name = tune[t].name \/ u[t].name \in Names
  BY UpdateHas DEF TuneOK, TuneRow
<1> HIDE DEF u
<1> QED
  BY <1>1, <1>2 DEF TuneOK, Ids, u

LEMMA TuneInsert ==
  ASSUME NEW tune, TuneOK(tune), NEW s, TuneOK(s), NEW ip, NEW name \in Tunings,
         TuningMaxTid(s) + 1 \notin DOMAIN tune
  PROVE  TuneOK(InsertNewTuning(tune, TuningMaxTid(s) + 1, name, Rounds, ip))
<1> DEFINE t == TuningMaxTid(s) + 1
           u == InsertNewTuning(tune, t, name, Rounds, ip)
<1>1. Ids(u)
  BY IdsMore DEF TuneOK, TuningMaxTid, InsertNewTuning
<1>2. /\ DOMAIN u = DOMAIN tune \cup {t}
      /\ u[t] = [name |-> name, status |-> "running", ip |-> ip,
                 total |-> Rounds, base |-> NoNumber, desc |-> NoText]
      /\ \A x \in DOMAIN tune : u[x] = tune[x]
  BY DEF InsertNewTuning, Insert
<1>3. name \in Names
  <2>1. name \in Seq(STRING)
    BY UiAssumption
  <2>2. ASSUME NEW i \in DOMAIN name PROVE name[i] \in Words
    <3>1. name[i] \in {name[j] : j \in DOMAIN name}
      OBVIOUS
    <3> QED
      BY <3>1 DEF Words
  <2> QED
    BY <2>1, <2>2 DEF Names
<1> HIDE DEF u, t
<1>4. DOMAIN u[t] = TuneRow /\ u[t].name \in Names /\ u[t].total = Rounds
  <2>1. DOMAIN u[t] = TuneRow
    BY <1>2, Zenon DEF TuneRow
  <2> QED
    BY <1>2, <1>3, <2>1
<1>5. TuneOK(u)
  BY <1>1, <1>2, <1>4 DEF TuneOK
<1> QED
  BY <1>5 DEF u, t

LEMMA FindIpsOK ==
  ASSUME NEW ips, IpsOK(ips), NEW ip \in Ips, NEW uid \in Nat, NEW desc
  PROVE  /\ IpsOK(InsertIpByUser(ips, ip, uid, desc))
         /\ IpsOK(DeleteIpByUser(ips, ip, uid))
  BY DEF IpsOK, InsertIpByUser, DeleteIpByUser, Insert

LEMMA UpdateIpsOK ==
  ASSUME NEW ips, IpsOK(ips), NEW ip, NEW uid, NEW desc
  PROVE  IpsOK(UpdateIpByUser(ips, ip, uid, desc)) /\ IpsOK(DeleteIpByUser(ips, ip, uid))
  BY DEF IpsOK, UpdateIpByUser, DeleteIpByUser, Update

LEMMA UserUpdate ==
  ASSUME NEW user, UserOK(user), NEW keys, NEW column, column \in {"pwd", "desc"}, NEW value
  PROVE  UserOK(Update(user, keys, column, value))
<1> DEFINE u == Update(user, keys, column, value)
<1>1. /\ DOMAIN u = DOMAIN user
      /\ \A k \in DOMAIN user : /\ DOMAIN u[k] = UserRow
                                /\ u[k].email = user[k].email /\ u[k].role = user[k].role
  BY UpdateHas DEF UserOK, UserRow
<1>2. u = [k \in DOMAIN u |-> u[k]]
  BY DEF Update
<1> HIDE DEF u
<1> QED
  BY <1>1, <1>2 DEF UserOK, u

LEMMA UserInsert ==
  ASSUME NEW user, UserOK(user), NEW uid \in Nat, NEW email, NEW pwd, NEW role,
         role = "admin" => uid = 0, UserKeyFree(user, uid, email)
  PROVE  UserOK(InsertNewUser(user, uid, email, pwd, role))
<1> DEFINE u == InsertNewUser(user, uid, email, pwd, role)
<1>1. /\ DOMAIN u = DOMAIN user \cup {uid}
      /\ u[uid] = [email |-> email, pwd |-> pwd, desc |-> Null, role |-> role]
      /\ \A x \in DOMAIN user : u[x] = user[x] /\ user[x].email # email
      /\ u = [k \in DOMAIN u |-> u[k]]
  BY DEF InsertNewUser, Insert, UserKeyFree, UserWithEmail, Where
<1>2. Bounded(DOMAIN u)
  BY <1>1, BoundedMore DEF UserOK
<1> HIDE DEF u
<1>3. DOMAIN u[uid] = UserRow /\ u[uid].email = email /\ (u[uid].role = "admin" => uid = 0)
  BY <1>1 DEF UserRow
<1>4. \A v \in DOMAIN u : DOMAIN u[v] = UserRow /\ (u[v].role = "admin" => v = 0)
  BY <1>1, <1>3 DEF UserOK
<1>5. \A v, w \in DOMAIN u : u[v].email = u[w].email => v = w
  BY <1>1, <1>3 DEF UserOK
<1> QED
  BY <1>1, <1>2, <1>4, <1>5 DEF UserOK, u

LEMMA CmdInsert ==
  ASSUME NEW cmd, CmdOK(cmd), NEW s, CmdOK(s), CommandMaxCid(s) + 1 \notin DOMAIN cmd,
         NEW mid, NEW type, NEW name, NEW ip
  PROVE  LET k == CommandMaxCid(s) + 1
             u == InsertNewCommand(cmd, k, mid, type, name, ip)
         IN  /\ CmdOK(u) /\ DOMAIN u = DOMAIN cmd \cup {k}
             /\ Cardinality(DOMAIN u) = Cardinality(DOMAIN cmd) + 1
             /\ CommandOf(u, mid, type) = CommandOf(cmd, mid, type) \cup {k}
             /\ \A m, t : m # mid \/ t # type => CommandOf(u, m, t) = CommandOf(cmd, m, t)
             /\ u[k].type = type /\ u[k].mid = mid
             /\ \A x \in DOMAIN cmd : u[x] = cmd[x]
<1> DEFINE k == CommandMaxCid(s) + 1
           u == InsertNewCommand(cmd, k, mid, type, name, ip)
<1>1. Ids(u) /\ Cardinality(DOMAIN u) = Cardinality(DOMAIN cmd) + 1
  BY IdsMore DEF CmdOK, CommandMaxCid, InsertNewCommand
<1>2. /\ DOMAIN u = DOMAIN cmd \cup {k}
      /\ u[k] = [mid |-> mid, type |-> type, name |-> name, status |-> "running",
                 ip |-> ip, desc |-> NoText]
      /\ \A x \in DOMAIN cmd : u[x] = cmd[x] /\ x # k
  BY DEF InsertNewCommand, Insert
<1> HIDE DEF u, k
<1>3. DOMAIN u[k] = CmdRow /\ u[k].mid = mid /\ u[k].type = type
  <2>1. DOMAIN u[k] = CmdRow
    BY <1>2, Zenon DEF CmdRow
  <2> QED
    BY <1>2, <2>1
<1>4. CmdOK(u)
  BY <1>1, <1>2, <1>3 DEF CmdOK
<1>5. /\ CommandOf(u, mid, type) = CommandOf(cmd, mid, type) \cup {k}
      /\ \A m, t : m # mid \/ t # type => CommandOf(u, m, t) = CommandOf(cmd, m, t)
  BY <1>2, <1>3 DEF CommandOf, Where
<1> QED
  BY <1>1, <1>2, <1>3, <1>4, <1>5 DEF u, k

LEMMA NoCommandYet ==
  ASSUME NEW coll, NEW tune, NEW cmd, Linked(coll, tune, cmd), NEW m
  PROVE  /\ m \notin DOMAIN coll => CommandOf(cmd, m, "analysis") = {}
         /\ m \notin DOMAIN tune => CommandOf(cmd, m, "tuning") = {}
  BY DEF Linked, CommandOf, Where

LEMMA LinkedColl ==
  ASSUME NEW coll, NEW tune, NEW cmd, Linked(coll, tune, cmd), CollOK(coll), TuneOK(tune),
         NEW coll2, NEW cmd2, NEW mid, NEW k, k \notin DOMAIN cmd,
         mid \notin DOMAIN coll, DOMAIN coll2 = DOMAIN coll \cup {mid},
         DOMAIN cmd2 = DOMAIN cmd \cup {k},
         Cardinality(DOMAIN cmd2) = Cardinality(DOMAIN cmd) + 1,
         CommandOf(cmd2, mid, "analysis") = CommandOf(cmd, mid, "analysis") \cup {k},
         \A m, t : m # mid \/ t # "analysis" => CommandOf(cmd2, m, t) = CommandOf(cmd, m, t),
         cmd2[k].type = "analysis", cmd2[k].mid = mid,
         \A x \in DOMAIN cmd : cmd2[x] = cmd[x]
  PROVE  Linked(coll2, tune, cmd2)
<1>1. /\ IsFiniteSet(DOMAIN coll) /\ IsFiniteSet(DOMAIN tune)
      /\ Cardinality(DOMAIN coll) \in Nat /\ Cardinality(DOMAIN tune) \in Nat
  BY FS_BoundedSetOfNaturals, FS_CardinalityType DEF CollOK, TuneOK, Ids, Bounded
<1>2. CommandOf(cmd2, mid, "analysis") = {k}
  BY NoCommandYet
<1>3. Cardinality(DOMAIN coll2) = Cardinality(DOMAIN coll) + 1
  BY <1>1, FS_AddElement
<1>4. \A m \in DOMAIN coll2 : \E x \in DOMAIN cmd2 : CommandOf(cmd2, m, "analysis") = {x}
  BY <1>2 DEF Linked
<1>5. \A m \in DOMAIN tune : \E x \in DOMAIN cmd2 : CommandOf(cmd2, m, "tuning") = {x}
  BY DEF Linked
<1> QED
  BY <1>1, <1>3, <1>4, <1>5 DEF Linked

LEMMA LinkedTune ==
  ASSUME NEW coll, NEW tune, NEW cmd, Linked(coll, tune, cmd), CollOK(coll), TuneOK(tune),
         NEW tune2, NEW cmd2, NEW mid, NEW k, k \notin DOMAIN cmd,
         mid \notin DOMAIN tune, DOMAIN tune2 = DOMAIN tune \cup {mid},
         DOMAIN cmd2 = DOMAIN cmd \cup {k},
         Cardinality(DOMAIN cmd2) = Cardinality(DOMAIN cmd) + 1,
         CommandOf(cmd2, mid, "tuning") = CommandOf(cmd, mid, "tuning") \cup {k},
         \A m, t : m # mid \/ t # "tuning" => CommandOf(cmd2, m, t) = CommandOf(cmd, m, t),
         cmd2[k].type = "tuning", cmd2[k].mid = mid,
         \A x \in DOMAIN cmd : cmd2[x] = cmd[x]
  PROVE  Linked(coll, tune2, cmd2)
<1>1. /\ IsFiniteSet(DOMAIN coll) /\ IsFiniteSet(DOMAIN tune)
      /\ Cardinality(DOMAIN coll) \in Nat /\ Cardinality(DOMAIN tune) \in Nat
  BY FS_BoundedSetOfNaturals, FS_CardinalityType DEF CollOK, TuneOK, Ids, Bounded
<1>2. CommandOf(cmd2, mid, "tuning") = {k}
  BY NoCommandYet
<1>3. Cardinality(DOMAIN tune2) = Cardinality(DOMAIN tune) + 1
  BY <1>1, FS_AddElement
<1>4. \A m \in DOMAIN tune2 : \E x \in DOMAIN cmd2 : CommandOf(cmd2, m, "tuning") = {x}
  BY <1>2 DEF Linked
<1>5. \A m \in DOMAIN coll : \E x \in DOMAIN cmd2 : CommandOf(cmd2, m, "analysis") = {x}
  BY DEF Linked
<1> QED
  BY <1>1, <1>3, <1>4, <1>5 DEF Linked

LEMMA LinkedSame ==
  ASSUME NEW coll, NEW tune, NEW cmd, Linked(coll, tune, cmd),
         NEW coll2, NEW tune2, DOMAIN coll2 = DOMAIN coll, DOMAIN tune2 = DOMAIN tune
  PROVE  Linked(coll2, tune2, cmd)
  BY DEF Linked

RoundsOf(rows, c) == {k[2] : k \in {x \in DOMAIN rows : x[1] = c}}

LEMMA RoundsBounded ==
  ASSUME NEW rows, NEW coll, Keyed(rows, coll), NEW c
  PROVE  /\ Bounded(RoundsOf(rows, c))
         /\ \A n : n \in RoundsOf(rows, c) <=> <<c, n>> \in DOMAIN rows
  BY DEF Keyed, Bounded, RoundsOf

LEMMA RowsGrow ==
  ASSUME NEW rows, NEW coll, Keyed(rows, coll), NEW more, NEW coll2, Keyed(more, coll2),
         DOMAIN rows \subseteq DOMAIN more, NEW c
  PROVE  MaxOf(RoundsOf(rows, c)) <= MaxOf(RoundsOf(more, c))
<1>1. Bounded(RoundsOf(rows, c)) /\ Bounded(RoundsOf(more, c))
  BY RoundsBounded
<1>2. RoundsOf(rows, c) \subseteq RoundsOf(more, c)
  BY DEF RoundsOf
<1>3. RoundsOf(rows, c) = {} => MaxOf(RoundsOf(rows, c)) = 0
  BY DEF MaxOf
<1> QED
  BY <1>1, <1>2, <1>3, MaxOfBounded

LEMMA KeyedColl ==
  ASSUME NEW rows, NEW coll, Keyed(rows, coll), NEW coll2, DOMAIN coll \subseteq DOMAIN coll2
  PROVE  Keyed(rows, coll2)
  BY DEF Keyed

LEMMA KeyedMore ==
  ASSUME NEW rows, NEW coll, Keyed(rows, coll), NEW c \in DOMAIN coll, NEW n \in Nat \ {0},
         NEW v
  PROVE  /\ Keyed(Insert(rows, <<c, n>>, v), coll)
         /\ DOMAIN rows \subseteq DOMAIN Insert(rows, <<c, n>>, v)
         /\ Insert(rows, <<c, n>>, v)[<<c, n>>] = v
         /\ <<c, n>> \notin DOMAIN rows =>
              \A k \in DOMAIN rows : Insert(rows, <<c, n>>, v)[k] = rows[k]
<1> DEFINE u == Insert(rows, <<c, n>>, v)
<1>1. DOMAIN u = DOMAIN rows \cup {<<c, n>>} /\ u[<<c, n>>] = v
      /\ (<<c, n>> \notin DOMAIN rows => \A k \in DOMAIN rows : u[k] = rows[k])
  BY DEF Insert
<1>2. PICK m \in Nat : \A k \in DOMAIN rows : k[2] <= m
  BY DEF Keyed
<1> HIDE DEF u
<1>3. \A k \in DOMAIN u : k = <<k[1], k[2]>> /\ k[2] \in Nat \ {0} /\ k[1] \in DOMAIN coll
  BY <1>1 DEF Keyed
<1>4. \E b \in Nat : \A k \in DOMAIN u : k[2] <= b
  <2>1. CASE n <= m
    BY <1>1, <1>2, <2>1
  <2>2. CASE m <= n
    <3>1. \A k \in DOMAIN rows : k[2] <= n
      BY <1>2, <2>2 DEF Keyed
    <3> QED
      BY <1>1, <3>1
  <2> QED
    BY <2>1, <2>2
<1> QED
  BY <1>1, <1>3, <1>4 DEF Keyed, u

LEMMA LogMore ==
  ASSUME NEW alog, NEW coll, LogOK(alog, coll), NEW c \in DOMAIN coll, NEW v \in Lines
  PROVE  LET r == LogMaxRound(alog, c) + 1
         IN  /\ LogOK(InsertLog(alog, c, r, v), coll)
             /\ <<c, r>> \notin DOMAIN alog
             /\ \A k \in DOMAIN alog : /\ k \in DOMAIN InsertLog(alog, c, r, v)
                                       /\ InsertLog(alog, c, r, v)[k] = alog[k]
<1> DEFINE r == LogMaxRound(alog, c) + 1
           u == InsertLog(alog, c, r, v)
           S == RoundsOf(alog, c)
<1>1. Keyed(alog, coll) /\ LogMaxRound(alog, c) = MaxOf(S)
  BY DEF LogOK, LogMaxRound, RoundsOf
<1>2. /\ MaxOf(S) \in Nat /\ (S # {} => MaxOf(S) \in S) /\ \A x \in S : x <= MaxOf(S)
      /\ \A n : n \in S <=> <<c, n>> \in DOMAIN alog
      /\ (S = {} => MaxOf(S) = 0)
  <2>1. S = {} => MaxOf(S) = 0
    BY DEF MaxOf
  <2> QED
    BY <1>1, <2>1, RoundsBounded, MaxOfBounded
<1> HIDE DEF S
<1>3. r \in Nat \ {0} /\ <<c, r>> \notin DOMAIN alog
  BY <1>1, <1>2
<1> HIDE DEF r
<1>4. /\ Keyed(u, coll) /\ DOMAIN u = DOMAIN alog \cup {<<c, r>>} /\ u[<<c, r>>] = v
      /\ \A k \in DOMAIN alog : u[k] = alog[k]
  BY <1>1, <1>3, KeyedMore DEF InsertLog, Insert
<1> HIDE DEF u
<1>5. \A i \in 1 .. r : <<c, i>> \in DOMAIN u
  <2>1. \A i \in 1 .. r - 1 : <<c, i>> \in DOMAIN alog
    <3>1. CASE S = {}
      BY <1>1, <1>2, <3>1 DEF r
    <3>2. CASE S # {}
      <4>1. r - 1 = MaxOf(S) /\ <<c, r - 1>> \in DOMAIN alog
        BY <1>1, <1>2, <3>2 DEF r
      <4> QED
        BY <4>1 DEF LogOK
    <3> QED
      BY <3>1, <3>2
  <2> QED
    BY <1>3, <1>4, <2>1
<1>6. \A k \in DOMAIN u : u[k] \in Lines /\ \A i \in 1 .. k[2] : <<k[1], i>> \in DOMAIN u
  BY <1>4, <1>5 DEF LogOK
<1> QED
  BY <1>3, <1>4, <1>6 DEF LogOK, r, u

-----------------------------------------------------------------------------
(* The triggers                                                            *)

LEMMA LaterSame == ASSUME NEW d, CollOK(d.coll) PROVE Later(d, d)
  BY DEF Later, CollOK, NoNumber

LEMMA OnlyUsers ==
  ASSUME NEW d, Good(d), NEW e, DOMAIN e = Fields, UserOK(e.user), IpsOK(e.ips),
         e.coll = d.coll, e.cmd = d.cmd, e.tune = d.tune, e.alog = d.alog, e.data = d.data
  PROVE  Good(e) /\ Later(d, e)
  BY DEF Good, Read, Later, CollOK, NoNumber

UserOps == {"user_exist", "create_user", "count_user", "change_user_pwd", "change_user_info",
            "create_admin", "add_ip", "update_ip", "delete_ip"}

LEMMA UserTriggers ==
  ASSUME NEW q, NEW s, NEW d, Request(q), q.op \in UserOps, Read(s), Good(d)
  PROVE  Good(Run(q, s, d).db) /\ Later(d, Run(q, s, d).db)
<1> DEFINE e == Run(q, s, d).db
<1>0. DOMAIN d = Fields /\ UserOK(d.user) /\ IpsOK(d.ips) /\ UserOK(s.user)
  BY DEF Good, Read
<1>1. CASE q.op \in {"user_exist", "count_user"}
  <2>1. e = d
    BY <1>1 DEF Run, UserExist, CountUser, Reply
  <2> QED
    BY <1>0, <2>1, OnlyUsers
<1>2. CASE q.op = "create_user"
  <2> DEFINE uid == IF s.user = Empty THEN 1 ELSE UserMaxUid(s.user) + 1
             new == InsertNewUser(d.user, uid, q.email, q.pwd, "user")
  <2>1. e = d \/ (UserKeyFree(d.user, uid, q.email) /\ e = [d EXCEPT !.user = new])
    BY <1>2 DEF Run, CreateUser, Commit, Reply
  <2>2. uid \in Nat
    <3>1. CASE s.user = Empty
      BY <3>1
    <3>2. CASE s.user # Empty
      <4>1. DOMAIN s.user # {}
        BY <1>0, <3>2 DEF UserOK, Empty
      <4>2. Max(DOMAIN s.user) \in Nat
        BY <1>0, <4>1, MaxOfBounded DEF UserOK
      <4> QED
        BY <3>2, <4>2 DEF UserMaxUid
    <3> QED
      BY <3>1, <3>2
  <2> HIDE DEF uid
  <2>3. CASE UserKeyFree(d.user, uid, q.email) /\ e = [d EXCEPT !.user = new]
    <3>1. UserOK(new)
      BY <1>0, <2>2, <2>3, UserInsert
    <3> HIDE DEF new, e
    <3>2. Good(e) /\ Later(d, e)
      BY <1>0, <2>3, <3>1, OnlyUsers DEF Fields
    <3> QED
      BY <3>2 DEF e
  <2> QED
    BY <1>0, <2>1, <2>3, OnlyUsers
<1>3. CASE q.op = "create_admin"
  <2> DEFINE new == InsertNewUser(d.user, 0, "admin@openeuler.org", q.pwd, "admin")
  <2>1. \/ e = d
        \/ UserKeyFree(d.user, 0, "admin@openeuler.org") /\ e = [d EXCEPT !.user = new]
    BY <1>3 DEF Run, CreateAdmin, Commit, Reply
  <2>2. CASE UserKeyFree(d.user, 0, "admin@openeuler.org") /\ e = [d EXCEPT !.user = new]
    <3>1. UserOK(new)
      BY <1>0, <2>2, UserInsert
    <3> HIDE DEF new, e
    <3>2. Good(e) /\ Later(d, e)
      BY <1>0, <2>2, <3>1, OnlyUsers DEF Fields
    <3> QED
      BY <3>2 DEF e
  <2> QED
    BY <1>0, <2>1, <2>2, OnlyUsers
<1>4. CASE q.op \in {"change_user_pwd", "change_user_info"}
  <2> DEFINE pwd == Update(d.user, {q.uid}, "pwd", q.newPwd)
             info == Update(d.user, {q.uid}, "desc", q.desc)
  <2>1. e = d \/ e = [d EXCEPT !.user = pwd] \/ e = [d EXCEPT !.user = info]
    BY <1>4 DEF Run, ChangeUserPwd, ChangeUserInfo, Commit, Reply, UpdatePassword,
       UpdateUserBasicInfo
  <2>2. UserOK(pwd) /\ UserOK(info)
    BY <1>0, UserUpdate
  <2> HIDE DEF e, pwd, info
  <2>3. Good(e) /\ Later(d, e)
    BY <1>0, <2>1, <2>2, OnlyUsers DEF Fields
  <2> QED
    BY <2>3 DEF e
<1>5. CASE q.op = "add_ip"
  <2>1. e = d \/ e = [d EXCEPT !.ips = InsertIpByUser(@, q.ip, q.uid, q.desc)]
    BY <1>5 DEF Run, AddIp, Commit, Reply
  <2>2. IpsOK(InsertIpByUser(d.ips, q.ip, q.uid, q.desc))
    BY <1>0, <1>5, FindIpsOK DEF Request
  <2> HIDE DEF e
  <2>3. Good(e) /\ Later(d, e)
    BY <1>0, <2>1, <2>2, OnlyUsers DEF Fields
  <2> QED
    BY <2>3 DEF e
<1>6. CASE q.op \in {"update_ip", "delete_ip"}
  <2>1. \/ e = d \/ e = [d EXCEPT !.ips = UpdateIpByUser(@, q.ip, q.uid, q.desc)]
        \/ e = [d EXCEPT !.ips = DeleteIpByUser(@, q.ip, q.uid)]
    BY <1>6 DEF Run, UpdateIp, DeleteIp, Commit, Reply
  <2>2. /\ IpsOK(UpdateIpByUser(d.ips, q.ip, q.uid, q.desc))
        /\ IpsOK(DeleteIpByUser(d.ips, q.ip, q.uid))
    BY <1>0, UpdateIpsOK
  <2> HIDE DEF e
  <2>3. Good(e) /\ Later(d, e)
    BY <1>0, <2>1, <2>2, OnlyUsers DEF Fields
  <2> QED
    BY <2>3 DEF e
<1> QED
  BY <1>1, <1>2, <1>3, <1>4, <1>5, <1>6 DEF UserOps

\* A trigger that changes rows of runs and commands and inserts none.
LEMMA OnlyRows ==
  ASSUME NEW d, Good(d), NEW e, DOMAIN e = Fields, e.user = d.user, e.ips = d.ips,
         e.data = d.data, e.alog = d.alog,
         CollOK(e.coll), DOMAIN e.coll = DOMAIN d.coll, TotalsOK(e.coll, e.data),
         \A c \in DOMAIN d.coll :
            /\ e.coll[c].total >= d.coll[c].total /\ e.coll[c].ip = d.coll[c].ip
            /\ d.coll[c].status = "finished" => e.coll[c].status = "finished",
         TuneOK(e.tune), DOMAIN e.tune = DOMAIN d.tune,
         CmdOK(e.cmd), Linked(d.coll, d.tune, e.cmd)
  PROVE  Good(e) /\ Later(d, e)
<1>1. DataOK(e.data, e.coll) /\ LogOK(e.alog, e.coll)
  BY KeyedColl DEF Good, Read, DataOK, LogOK
<1>2. Linked(e.coll, e.tune, e.cmd)
  BY LinkedSame
<1> QED
  BY <1>1, <1>2 DEF Good, Read, Later

LEMMA TotalsKept ==
  ASSUME NEW coll, NEW data, TotalsOK(coll, data), NEW coll2, DOMAIN coll2 = DOMAIN coll,
         \A c \in DOMAIN coll : coll2[c].total = coll[c].total
  PROVE  TotalsOK(coll2, data)
  BY DEF TotalsOK

\* Renaming, describing or naming a collection keeps its total.
LEMMA CollKept ==
  ASSUME NEW coll, CollOK(coll), NEW data, TotalsOK(coll, data), NEW keys, NEW column,
         NEW value, CollValue(column, value), column # "total"
  PROVE  LET u == Update(coll, keys, column, value)
         IN  /\ CollOK(u) /\ DOMAIN u = DOMAIN coll /\ TotalsOK(u, data)
             /\ \A c \in DOMAIN coll :
                  /\ u[c].total >= coll[c].total /\ u[c].ip = coll[c].ip
                  /\ coll[c].status = "finished" => u[c].status = "finished"
<1> DEFINE u == Update(coll, keys, column, value)
<1>1. /\ CollOK(u) /\ DOMAIN u = DOMAIN coll
      /\ \A c \in DOMAIN coll :
           /\ u[c].ip = coll[c].ip /\ u[c].total = coll[c].total
           /\ coll[c].status = "finished" => u[c].status = "finished"
  BY CollUpdate
<1> HIDE DEF u
<1>2. \A c \in DOMAIN coll : coll[c].total \in Int
  BY DEF CollOK, NoNumber
<1>3. TotalsOK(u, data)
  BY <1>1, TotalsKept
<1> QED
  BY <1>1, <1>2, <1>3 DEF u

RunOps == {"change_collection_status", "change_collection_info", "rename_collection",
           "update_analysis_description", "change_tuning_baseline", "change_tuning_status",
           "rename_tuning", "update_tuning_description", "update_command_description"}

LEMMA StatusTrigger ==
  ASSUME NEW q, NEW s, NEW d, q.op = "change_collection_status", Request(q), Read(s), Good(d)
  PROVE  Good(Run(q, s, d).db) /\ Later(d, Run(q, s, d).db)
<1> DEFINE e == Run(q, s, d).db
           m == DataMaxRound(d.data, q.cid)
           one == UpdateCollectionStatus(d.coll, q.cid, "finished")
           two == UpdateTotalRound(one, q.cid, m)
           marked == UpdateCommandStatus(d.cmd, q.cid, "finished")
<1>0. /\ DOMAIN d = Fields /\ CollOK(d.coll) /\ CmdOK(d.cmd) /\ Linked(d.coll, d.tune, d.cmd)
      /\ DataOK(d.data, d.coll) /\ TotalsOK(d.coll, d.data) /\ TuneOK(d.tune)
  BY DEF Good, Read
<1>1. e = d \/ e = [d EXCEPT !.coll = two, !.cmd = marked] \/ e = [d EXCEPT !.coll = two]
  BY DEF Run, ChangeCollectionStatus, Commit, Reply, Request
<1>2. m \in Nat /\ \A c \in DOMAIN d.coll : d.coll[c].total \in Int
      /\ (c = q.cid => d.coll[c].total <= m)
  <2>1. Bounded(DataRounds(d.data, q.cid))
    BY <1>0, RoundsBounded DEF DataOK, RoundsOf, DataRounds
  <2>2. m \in Nat
    BY <2>1, MaxOfBounded DEF DataMaxRound
  <2> QED
    BY <1>0, <2>2 DEF CollOK, TotalsOK, NoNumber
<1> HIDE DEF m
<1>3. /\ CollOK(one) /\ DOMAIN one = DOMAIN d.coll
      /\ \A c \in DOMAIN d.coll :
           /\ one[c].ip = d.coll[c].ip /\ one[c].total = d.coll[c].total
           /\ d.coll[c].status = "finished" => one[c].status = "finished"
  BY <1>0, CollUpdate DEF UpdateCollectionStatus, CollValue
<1> HIDE DEF one
<1>4. /\ CollOK(two) /\ DOMAIN two = DOMAIN d.coll
      /\ \A c \in DOMAIN d.coll :
           /\ two[c].ip = d.coll[c].ip
           /\ IF c = q.cid THEN two[c].total = m ELSE two[c].total = d.coll[c].total
           /\ d.coll[c].status = "finished" => two[c].status = "finished"
  BY <1>2, <1>3, CollUpdate DEF UpdateTotalRound, CollValue
<1> HIDE DEF two
<1>5. TotalsOK(two, d.data)
  BY <1>0, <1>2, <1>4 DEF TotalsOK, m
<1>6. CmdOK(marked) /\ Linked(d.coll, d.tune, marked)
  BY <1>0, CmdUpdate DEF UpdateCommandStatus
<1>7. \A c \in DOMAIN d.coll : two[c].total >= d.coll[c].total
  BY <1>2, <1>4
<1> HIDE DEF marked, e
<1>8. CASE e = d
  BY <1>0, <1>8, LaterSame DEF e
<1>9. CASE e = [d EXCEPT !.coll = two, !.cmd = marked] \/ e = [d EXCEPT !.coll = two]
  <2>1. /\ DOMAIN e = Fields /\ e.user = d.user /\ e.ips = d.ips /\ e.data = d.data
        /\ e.alog = d.alog /\ e.coll = two /\ e.tune = d.tune /\ e.cmd \in {marked, d.cmd}
    BY <1>0, <1>9 DEF Fields
  <2>2. Good(e) /\ Later(d, e)
    BY <1>0, <1>4, <1>5, <1>6, <1>7, <2>1, OnlyRows
  <2> QED
    BY <2>2 DEF e
<1> QED
  BY <1>1, <1>8, <1>9 DEF e

LEMMA NamePut ==
  ASSUME NEW word \in Words, NEW name \in Names
  PROVE  <<word>> \o name \in Names
  BY DEF Names

LEMMA InfoTrigger ==
  ASSUME NEW q, NEW s, NEW d, q.op = "change_collection_info", Request(q), Read(s), Good(d)
  PROVE  Good(Run(q, s, d).db) /\ Later(d, Run(q, s, d).db)
<1> DEFINE e == Run(q, s, d).db
           name == <<q.workload>> \o Scalar(s.coll, DOMAIN s.coll \cap {q.cid}, "name", <<>>)
           named == UpdateNameOfCollection(d.coll, q.cid, name)
           two == UpdateWorkload(named, q.cid, q.workload)
           cmd == UpdateNameById(d.cmd, q.cid, name)
<1>0. /\ DOMAIN d = Fields /\ CollOK(d.coll) /\ CmdOK(d.cmd) /\ Linked(d.coll, d.tune, d.cmd)
      /\ TotalsOK(d.coll, d.data) /\ TuneOK(d.tune) /\ CollOK(s.coll)
  BY DEF Good, Read
<1>1. q.workload \in {"w", NoText}
  BY DEF Request
<1>2. e = d \/ (q.cid \in DOMAIN s.coll /\ e = [d EXCEPT !.cmd = cmd, !.coll = two])
      \/ (q.cid \in DOMAIN s.coll /\ e = [d EXCEPT !.cmd = cmd, !.coll = named])
  BY DEF Run, ChangeCollectionInfo, Reply, Raise
<1> HIDE DEF e
<1>3. CASE e = d
  BY <1>0, <1>3, LaterSame DEF e
<1>4. CASE q.cid \in DOMAIN s.coll /\ e \in {[d EXCEPT !.cmd = cmd, !.coll = two],
                                             [d EXCEPT !.cmd = cmd, !.coll = named]}
  <2>1. name \in Names
    <3>1. DOMAIN s.coll \cap {q.cid} = {q.cid} /\ s.coll[q.cid].name \in Seq(Words)
      BY <1>0, <1>4 DEF CollOK, Names
    <3>2. Min({q.cid}) = q.cid
      <4>1. q.cid \in Int
        BY <1>0, <1>4 DEF CollOK, Ids, Bounded
      <4> QED
        BY <4>1 DEF Min
    <3>3. name = <<q.workload>> \o s.coll[q.cid].name
      BY <3>1, <3>2 DEF Scalar
    <3>4. q.workload \in Words
      BY <1>1 DEF Words
    <3> QED
      BY <3>1, <3>3, <3>4, NamePut DEF Names
  <2> HIDE DEF name
  <2>2. /\ CollOK(named) /\ DOMAIN named = DOMAIN d.coll
        /\ \A c \in DOMAIN d.coll :
             /\ named[c].ip = d.coll[c].ip /\ named[c].total = d.coll[c].total
             /\ d.coll[c].status = "finished" => named[c].status = "finished"
    BY <1>0, <2>1, CollUpdate DEF UpdateNameOfCollection, CollValue
  <2> HIDE DEF named
  <2>3. /\ CollOK(two) /\ DOMAIN two = DOMAIN d.coll
        /\ \A c \in DOMAIN d.coll :
             /\ two[c].ip = d.coll[c].ip /\ two[c].total = d.coll[c].total
             /\ d.coll[c].status = "finished" => two[c].status = "finished"
    BY <1>1, <2>2, CollUpdate DEF UpdateWorkload, CollValue
  <2> HIDE DEF two
  <2>4. CmdOK(cmd) /\ Linked(d.coll, d.tune, cmd)
    BY <1>0, CmdUpdate DEF UpdateNameById
  <2> HIDE DEF cmd
  <2>5. /\ DOMAIN e = Fields /\ e.user = d.user /\ e.ips = d.ips /\ e.data = d.data
        /\ e.alog = d.alog /\ e.coll \in {two, named} /\ e.tune = d.tune /\ e.cmd = cmd
    BY <1>0, <1>4 DEF Fields
  <2>6. TotalsOK(e.coll, d.data)
    BY <1>0, <2>2, <2>3, <2>5, TotalsKept
  <2>7. \A c \in DOMAIN d.coll : d.coll[c].total \in Int
    BY <1>0 DEF CollOK, NoNumber
  <2>8. /\ CollOK(e.coll) /\ DOMAIN e.coll = DOMAIN d.coll
        /\ \A c \in DOMAIN d.coll :
             /\ e.coll[c].ip = d.coll[c].ip /\ e.coll[c].total >= d.coll[c].total
             /\ d.coll[c].status = "finished" => e.coll[c].status = "finished"
    BY <2>2, <2>3, <2>5, <2>7
  <2>9. Good(e) /\ Later(d, e)
    BY <1>0, <2>4, <2>5, <2>6, <2>8, OnlyRows
  <2> QED
    BY <2>9 DEF e
<1> QED
  BY <1>2, <1>3, <1>4 DEF e

LEMMA RowTriggers ==
  ASSUME NEW q, NEW s, NEW d, Request(q), Read(s), Good(d),
         q.op \in {"rename_collection", "update_analysis_description",
                   "change_tuning_baseline", "change_tuning_status", "rename_tuning",
                   "update_tuning_description", "update_command_description"}
  PROVE  Good(Run(q, s, d).db) /\ Later(d, Run(q, s, d).db)
<1> DEFINE e == Run(q, s, d).db
           renamed == UpdateCollectionName(d.coll, q.name, q.new)
           described == UpdateCollectionDescription(d.coll, q.cid, q.desc)
           kids == CommandOf(s.cmd, q.cid, "analysis")
           based == UpdateBaseline(d.tune, q.name, q.base)
           finished == UpdateTuningStatus(d.tune, q.name, "finished")
           marked == UpdateStatusByName(d.cmd, q.name, "finished")
           retuned == UpdateTuningName(d.tune, q.name, q.new)
<1>0. /\ DOMAIN d = Fields /\ CollOK(d.coll) /\ CmdOK(d.cmd) /\ Linked(d.coll, d.tune, d.cmd)
      /\ TotalsOK(d.coll, d.data) /\ TuneOK(d.tune)
      /\ \A c \in DOMAIN d.coll : d.coll[c].total \in Int
  BY DEF Good, Read, CollOK, NoNumber
<1>1. CASE q.op = "rename_collection"
  <2>1. e = d \/ e = [d EXCEPT !.coll = renamed]
    BY <1>1 DEF Run, RenameCollection, Commit, Reply
  <2>2. /\ CollOK(renamed) /\ DOMAIN renamed = DOMAIN d.coll /\ TotalsOK(renamed, d.data)
        /\ \A c \in DOMAIN d.coll :
             /\ renamed[c].total >= d.coll[c].total /\ renamed[c].ip = d.coll[c].ip
             /\ d.coll[c].status = "finished" => renamed[c].status = "finished"
    BY <1>0, <1>1, CollKept DEF UpdateCollectionName, CollValue, Request
  <2> HIDE DEF renamed, e
  <2>3. CASE e = [d EXCEPT !.coll = renamed]
    <3>1. /\ DOMAIN e = Fields /\ e.coll = renamed /\ e.user = d.user /\ e.ips = d.ips
          /\ e.data = d.data /\ e.alog = d.alog /\ e.tune = d.tune /\ e.cmd = d.cmd
      BY <1>0, <2>3 DEF Fields
    <3> QED
      BY <1>0, <2>2, <3>1, OnlyRows DEF e
  <2> QED
    BY <1>0, <2>1, <2>3, LaterSame DEF e
<1>2. CASE q.op = "update_analysis_description"
  <2> DEFINE cmd == UpdateCommandDesc(d.cmd, kids, q.desc)
  <2>1. e = [d EXCEPT !.coll = described, !.cmd = cmd]
    BY <1>2 DEF Run, UpdateAnalysisDescription, Reply
  <2>2. /\ CollOK(described) /\ DOMAIN described = DOMAIN d.coll
        /\ TotalsOK(described, d.data)
        /\ \A c \in DOMAIN d.coll :
             /\ described[c].total >= d.coll[c].total /\ described[c].ip = d.coll[c].ip
             /\ d.coll[c].status = "finished" => described[c].status = "finished"
    BY <1>0, CollKept DEF UpdateCollectionDescription, CollValue
  <2>3. CmdOK(cmd) /\ Linked(d.coll, d.tune, cmd)
    BY <1>0, CmdUpdate DEF UpdateCommandDesc
  <2> HIDE DEF described, cmd, e
  <2>4. /\ DOMAIN e = Fields /\ e.coll = described /\ e.user = d.user /\ e.ips = d.ips
        /\ e.data = d.data /\ e.alog = d.alog /\ e.tune = d.tune /\ e.cmd = cmd
    BY <1>0, <2>1 DEF Fields
  <2> QED
    BY <1>0, <2>2, <2>3, <2>4, OnlyRows DEF e
<1>3. ASSUME NEW tune, TuneOK(tune), DOMAIN tune = DOMAIN d.tune,
             NEW cmd, CmdOK(cmd), Linked(d.coll, d.tune, cmd),
             e = [d EXCEPT !.tune = tune] \/ e = [d EXCEPT !.tune = tune, !.cmd = cmd]
      PROVE  Good(e) /\ Later(d, e)
  <2> HIDE DEF e
  <2>1. /\ DOMAIN e = Fields /\ e.coll = d.coll /\ e.user = d.user /\ e.ips = d.ips
        /\ e.data = d.data /\ e.alog = d.alog /\ e.tune = tune /\ e.cmd \in {d.cmd, cmd}
    BY <1>0, <1>3 DEF Fields
  <2>2. \A c \in DOMAIN d.coll : d.coll[c].total >= d.coll[c].total
    BY <1>0
  <2> QED
    BY <1>0, <1>3, <2>1, <2>2, OnlyRows
<1>4. CASE q.op = "change_tuning_baseline"
  <2>1. e = [d EXCEPT !.tune = based]
    BY <1>4 DEF Run, ChangeTuningBaseline, Reply
  <2>2. TuneOK(based) /\ DOMAIN based = DOMAIN d.tune
    BY <1>0, TuneUpdate DEF UpdateBaseline
  <2> HIDE DEF e, based
  <2> QED
    BY <1>0, <1>3, <2>1, <2>2 DEF e
<1>5. CASE q.op = "change_tuning_status"
  <2>1. e = d \/ e = [d EXCEPT !.tune = finished, !.cmd = marked]
    BY <1>5 DEF Run, ChangeTuningStatus, Commit, Reply
  <2>2. TuneOK(finished) /\ DOMAIN finished = DOMAIN d.tune
    BY <1>0, TuneUpdate DEF UpdateTuningStatus
  <2>3. CmdOK(marked) /\ Linked(d.coll, d.tune, marked)
    BY <1>0, CmdUpdate DEF UpdateStatusByName
  <2> HIDE DEF e, finished, marked
  <2> QED
    BY <1>0, <1>3, <2>1, <2>2, <2>3, LaterSame DEF e
<1>6. CASE q.op = "rename_tuning"
  <2>1. e = d \/ e = [d EXCEPT !.tune = retuned]
    BY <1>6 DEF Run, RenameTuning, Commit, Reply
  <2>2. TuneOK(retuned) /\ DOMAIN retuned = DOMAIN d.tune
    BY <1>0, <1>6, TuneUpdate DEF UpdateTuningName, Request
  <2> HIDE DEF e, retuned
  <2> QED
    BY <1>0, <1>3, <2>1, <2>2, LaterSame DEF e
<1>7. CASE q.op = "update_tuning_description"
  <2> DEFINE tune == UpdateTuningDescription(d.tune, q.tid, q.desc)
             cmd == UpdateCommandDesc(d.cmd, CommandOf(s.cmd, q.tid, "tuning"), q.desc)
  <2>1. e = [d EXCEPT !.tune = tune, !.cmd = cmd]
    BY <1>7 DEF Run, UpdateTuningDesc, Reply
  <2>2. TuneOK(tune) /\ DOMAIN tune = DOMAIN d.tune
    BY <1>0, TuneUpdate DEF UpdateTuningDescription
  <2>3. CmdOK(cmd) /\ Linked(d.coll, d.tune, cmd)
    BY <1>0, CmdUpdate DEF UpdateCommandDesc
  <2> HIDE DEF e, tune, cmd
  <2> QED
    BY <1>3, <2>1, <2>2, <2>3 DEF e
<1>8. CASE q.op = "update_command_description"
  <2> DEFINE mid == Scalar(d.cmd, DOMAIN d.cmd \cap {q.kid}, "mid", NoNumber)
             tune == UpdateTuningDescription(d.tune, mid, q.desc)
             cmd == UpdateCommandDesc(d.cmd, {q.kid}, q.desc)
  <2>1. e = [d EXCEPT !.cmd = cmd, !.tune = tune]
    BY <1>8 DEF Run, UpdateCommandDescription, Reply
  <2>2. TuneOK(tune) /\ DOMAIN tune = DOMAIN d.tune
    BY <1>0, TuneUpdate DEF UpdateTuningDescription
  <2>3. CmdOK(cmd) /\ Linked(d.coll, d.tune, cmd)
    BY <1>0, CmdUpdate DEF UpdateCommandDesc
  <2> HIDE DEF e, tune, cmd
  <2>4. e = [d EXCEPT !.tune = tune, !.cmd = cmd]
    BY <2>1
  <2> QED
    BY <1>3, <2>2, <2>3, <2>4 DEF e
<1> QED
  BY <1>1, <1>2, <1>4, <1>5, <1>6, <1>7, <1>8

LEMMA MaxRoundRows ==
  ASSUME NEW data, NEW c
  PROVE  DataMaxRound(data, c) = MaxOf(RoundsOf(data.rows, c))
  BY DEF DataMaxRound, DataRounds, RoundsOf

LEMMA NewCollectionTrigger ==
  ASSUME NEW q, NEW s, NEW d, q.op = "add_new_collection", Request(q), Read(s), Good(d)
  PROVE  LET r == Run(q, s, d)
         IN  /\ Good(r.db) /\ Later(d, r.db)
             /\ r.val = -1 \/ (r.val \in DOMAIN r.db.coll /\ r.val \notin DOMAIN d.coll
                               /\ r.db.coll[r.val].ip = q.ip)
             /\ ~r.err
<1> DEFINE r == Run(q, s, d)
           e == r.db
           known == FindIp(s.ips, q.ip)
           cid == CollectionMaxCid(s.coll) + 1
           kid == CommandMaxCid(s.cmd) + 1
           ips == IF known THEN d.ips ELSE InsertIpByUser(d.ips, q.ip, 0, NoText)
           data == IF known THEN d.data ELSE InitialTable(d.data)
           coll == InsertNewCollection(d.coll, cid, q.ip, "now")
           cmd == InsertNewCommand(d.cmd, kid, cid, "analysis", <<"now">>, q.ip)
           new == [d EXCEPT !.ips = ips, !.data = data, !.coll = coll, !.cmd = cmd]
<1>0. /\ DOMAIN d = Fields /\ CollOK(d.coll) /\ CmdOK(d.cmd) /\ Linked(d.coll, d.tune, d.cmd)
      /\ TotalsOK(d.coll, d.data) /\ TuneOK(d.tune) /\ CollOK(s.coll) /\ CmdOK(s.cmd)
      /\ UserOK(d.user) /\ IpsOK(d.ips) /\ DataOK(d.data, d.coll) /\ LogOK(d.alog, d.coll)
      /\ \A c \in DOMAIN d.coll : d.coll[c].total \in Int
  BY DEF Good, Read, CollOK, NoNumber
<1>1. ~r.err /\ (\/ r.val = -1 /\ e = d
                 \/ r.val = cid /\ cid \notin DOMAIN d.coll /\ kid \notin DOMAIN d.cmd /\ e = new)
  <2>1. q.time = "now" /\ q.ip \in Ips
    BY DEF Request
  <2>2. r = AddNewCollection(s, d, q)
    BY DEF Run
  <2> HIDE DEF r
  <2> QED
    BY <2>1, <2>2 DEF AddNewCollection, Commit, Reply
<1> HIDE DEF r
<1>2. CASE r.val = -1 /\ e = d
  <2>1. Good(d) /\ Later(d, d)
    BY <1>0, LaterSame
  <2> QED
    BY <1>1, <1>2, <2>1 DEF r
<1>3. CASE r.val = cid /\ cid \notin DOMAIN d.coll /\ kid \notin DOMAIN d.cmd /\ e = new
  <2>1. CollOK(coll)
    BY <1>0, <1>3, CollInsert
  <2>2. /\ DOMAIN coll = DOMAIN d.coll \cup {cid} /\ \A x \in DOMAIN d.coll : coll[x] = d.coll[x]
        /\ coll[cid].total = NoNumber /\ coll[cid].ip = q.ip
    <3>1. /\ DOMAIN coll = DOMAIN d.coll \cup {cid}
          /\ coll[cid] = [name |-> <<"now">>, status |-> "running", ip |-> q.ip,
                          workload |-> Null, total |-> NoNumber, desc |-> NoText]
          /\ \A x \in DOMAIN d.coll : coll[x] = d.coll[x]
      BY <1>3 DEF InsertNewCollection, Insert
    <3> HIDE DEF coll, cid
    <3> QED
      BY <3>1
  <2>3. CmdOK(cmd) /\ Linked(coll, d.tune, cmd)
    <3>1. /\ CmdOK(cmd) /\ DOMAIN cmd = DOMAIN d.cmd \cup {kid}
          /\ Cardinality(DOMAIN cmd) = Cardinality(DOMAIN d.cmd) + 1
          /\ CommandOf(cmd, cid, "analysis") = CommandOf(d.cmd, cid, "analysis") \cup {kid}
          /\ \A m, t : m # cid \/ t # "analysis" => CommandOf(cmd, m, t) = CommandOf(d.cmd, m, t)
          /\ cmd[kid].type = "analysis" /\ cmd[kid].mid = cid
          /\ \A x \in DOMAIN d.cmd : cmd[x] = d.cmd[x]
      <4>1. kid \notin DOMAIN d.cmd
        BY <1>3
      <4> HIDE DEF cid
      <4> QED
        BY <1>0, <4>1, CmdInsert, SMTT(30)
    <3> HIDE DEF cmd, cid, kid, coll
    <3>2. cid \notin DOMAIN d.coll /\ kid \notin DOMAIN d.cmd
      BY <1>3
    <3> QED
      BY <1>0, <2>2, <3>1, <3>2, LinkedColl, SMTT(30)
  <2>4. IpsOK(ips)
    BY <1>0, FindIpsOK DEF Request
  <2>5. DataOK(data, coll) /\ data.rows = d.data.rows
    <3>1. data.rows = d.data.rows /\ DOMAIN data = DataRow
      BY <1>0 DEF DataOK, DataRow, InitialTable
    <3>2. Keyed(d.data.rows, coll)
      BY <1>0, <2>2, KeyedColl DEF DataOK
    <3> QED
      BY <3>1, <3>2 DEF DataOK
  <2>6. LogOK(d.alog, coll)
    BY <1>0, <2>2, KeyedColl DEF LogOK
  <2>7. TotalsOK(coll, data)
    <3>1. MaxOf(RoundsOf(d.data.rows, cid)) \in Nat
      BY <1>0, RoundsBounded, MaxOfBounded DEF DataOK
    <3> HIDE DEF coll, cid, data
    <3> QED
      BY <1>0, <2>2, <2>5, <3>1, MaxRoundRows DEF TotalsOK, NoNumber
  <2> HIDE DEF ips, data, coll, cmd, cid, kid
  <2>8. /\ DOMAIN e = Fields /\ e.user = d.user /\ e.ips = ips /\ e.data = data
        /\ e.alog = d.alog /\ e.coll = coll /\ e.tune = d.tune /\ e.cmd = cmd
    BY <1>0, <1>3 DEF Fields
  <2> HIDE DEF e, new
  <2>9. Good(e)
    BY <1>0, <2>1, <2>3, <2>4, <2>5, <2>6, <2>7, <2>8 DEF Good, Read
  <2>10. Later(d, e)
    BY <1>0, <2>2, <2>5, <2>8 DEF Later
  <2>11. r.val \in DOMAIN e.coll /\ r.val \notin DOMAIN d.coll /\ e.coll[r.val].ip = q.ip
    BY <1>3, <2>2, <2>8
  <2> QED
    BY <1>1, <2>9, <2>10, <2>11 DEF e, r
<1> QED
  BY <1>1, <1>2, <1>3

LEMMA SampleTrigger ==
  ASSUME NEW q, NEW s, NEW d, q.op = "add_collection_data", Request(q), Read(s), Good(d),
         q.cid \in DOMAIN d.coll
  PROVE  LET r == Run(q, s, d)
         IN  Good(r.db) /\ Later(d, r.db) /\ (~r.err => r.val = q.cid)
<1> DEFINE r == Run(q, s, d)
           e == r.db
           n == DataMaxRound(s.data, q.cid) + 1
           rows == Insert(d.data.rows, <<q.cid, n>>, q.sample)
<1>0. /\ DOMAIN d = Fields /\ CollOK(d.coll) /\ TotalsOK(d.coll, d.data)
      /\ DataOK(d.data, d.coll) /\ DataOK(s.data, s.coll)
      /\ \A c \in DOMAIN d.coll : d.coll[c].total \in Int
  BY DEF Good, Read, CollOK, NoNumber
<1>1. /\ ~r.err => r.val = q.cid
      /\ \/ e = d
         \/ /\ <<q.cid, n>> \notin DOMAIN d.data.rows
            /\ DOMAIN e = Fields /\ e.user = d.user /\ e.ips = d.ips /\ e.alog = d.alog
            /\ e.coll = d.coll /\ e.tune = d.tune /\ e.cmd = d.cmd
            /\ DOMAIN e.data = DataRow /\ e.data.rows = rows
  <2>1. r = AddCollectionData(s, d, q)
    BY DEF Run
  <2> DEFINE headed == IF ~s.data.made THEN InitialTable(d.data) ELSE d.data
             added == q.cols \ s.data.cols
             data == InsertData(InsertNewColumn(headed, added), q.cid, n, q.sample)
  <2>2. DOMAIN data = DataRow /\ data.rows = rows
    <3>1. DOMAIN headed = DataRow /\ headed.rows = d.data.rows
      BY <1>0 DEF DataOK, DataRow, InitialTable
    <3> HIDE DEF headed
    <3>2. DOMAIN InsertNewColumn(headed, added) = DataRow
          /\ InsertNewColumn(headed, added).rows = d.data.rows
      BY <3>1 DEF DataRow, InsertNewColumn
    <3> QED
      BY <3>2 DEF DataRow, InsertData
  <2>3. /\ ~r.err => r.val = q.cid
        /\ e = d \/ (<<q.cid, n>> \notin DOMAIN d.data.rows /\ e = [d EXCEPT !.data = data])
    BY <2>1 DEF AddCollectionData, Commit, Reply, Raise
  <2> HIDE DEF e, r, data, rows, n
  <2> QED
    BY <1>0, <2>2, <2>3 DEF Fields
<1> HIDE DEF r
<1>2. CASE e = d
  BY <1>0, <1>1, <1>2, LaterSame DEF r
<1>3. CASE e # d
  <2>1. n \in Nat \ {0}
    BY <1>0, MaxRoundRows, RoundsBounded, MaxOfBounded DEF DataOK
  <2> HIDE DEF n
  <2>2. /\ Keyed(rows, d.coll) /\ DOMAIN d.data.rows \subseteq DOMAIN rows
        /\ \A k \in DOMAIN d.data.rows : rows[k] = d.data.rows[k]
    BY <1>0, <1>1, <1>3, <2>1, KeyedMore DEF DataOK
  <2>3. \A c : MaxOf(RoundsOf(d.data.rows, c)) <= MaxOf(RoundsOf(rows, c))
        /\ MaxOf(RoundsOf(d.data.rows, c)) \in Nat /\ MaxOf(RoundsOf(rows, c)) \in Nat
    BY <1>0, <2>2, RowsGrow, RoundsBounded, MaxOfBounded DEF DataOK
  <2> HIDE DEF e, rows
  <2>4. DataOK(e.data, e.coll)
    BY <1>1, <1>3, <2>2 DEF DataOK
  <2>5. TotalsOK(e.coll, e.data)
    <3> SUFFICES ASSUME NEW c \in DOMAIN d.coll
                 PROVE  d.coll[c].total <= DataMaxRound(e.data, c)
      BY <1>1, <1>3 DEF TotalsOK
    <3>1. d.coll[c].total <= MaxOf(RoundsOf(d.data.rows, c))
      BY <1>0, MaxRoundRows DEF TotalsOK
    <3>2. DataMaxRound(e.data, c) = MaxOf(RoundsOf(rows, c))
      BY <1>1, <1>3, MaxRoundRows
    <3> QED
      BY <1>0, <2>3, <3>1, <3>2
  <2>6. Good(e)
    BY <1>1, <1>3, <2>4, <2>5 DEF Good, Read
  <2>7. Later(d, e)
    BY <1>0, <1>1, <1>3, <2>2 DEF Later
  <2> QED
    BY <1>1, <2>6, <2>7 DEF e, r
<1> QED
  BY <1>2, <1>3

LEMMA LogTrigger ==
  ASSUME NEW q, NEW d, q.op = "add_analysis_log", Request(q), Good(d), q.cid \in DOMAIN d.coll
  PROVE  LET r == Run(q, d, d)
         IN  Good(r.db) /\ Later(d, r.db) /\ r.val = q.cid
<1> DEFINE r == Run(q, d, d)
           e == r.db
           n == LogMaxRound(d.alog, q.cid) + 1
           alog == InsertLog(d.alog, q.cid, n, q.line)
<1>0. /\ DOMAIN d = Fields /\ CollOK(d.coll) /\ LogOK(d.alog, d.coll)
      /\ \A c \in DOMAIN d.coll : d.coll[c].total \in Int
  BY DEF Good, Read, CollOK, NoNumber
<1>1. r.val = q.cid /\ (e = d \/ e = [d EXCEPT !.alog = alog])
  BY DEF Run, AddAnalysisLog, Commit, Reply
<1>2. LogOK(alog, d.coll) /\ \A k \in DOMAIN d.alog : k \in DOMAIN alog /\ alog[k] = d.alog[k]
  BY <1>0, LogMore DEF Request
<1> HIDE DEF r, alog
<1>3. CASE e = d
  <2>1. Good(d) /\ Later(d, d)
    BY <1>0, LaterSame
  <2> QED
    BY <1>1, <1>3, <2>1 DEF r
<1>4. CASE e = [d EXCEPT !.alog = alog]
  <2>1. /\ DOMAIN e = Fields /\ e.user = d.user /\ e.ips = d.ips /\ e.data = d.data
        /\ e.alog = alog /\ e.coll = d.coll /\ e.tune = d.tune /\ e.cmd = d.cmd
    BY <1>0, <1>4 DEF Fields
  <2> HIDE DEF e
  <2>2. Good(e)
    BY <1>2, <2>1 DEF Good, Read
  <2>3. Later(d, e)
    BY <1>0, <1>2, <2>1 DEF Later
  <2> QED
    BY <1>1, <2>2, <2>3 DEF e, r
<1> QED
  BY <1>1, <1>3, <1>4

LEMMA NewTuningTrigger ==
  ASSUME NEW q, NEW s, NEW d, q.op = "add_new_tuning", Request(q), Read(s), Good(d)
  PROVE  Good(Run(q, s, d).db) /\ Later(d, Run(q, s, d).db)
<1> DEFINE e == Run(q, s, d).db
           known == FindIp(s.ips, q.ip)
           tid == TuningMaxTid(s.tune) + 1
           kid == CommandMaxCid(s.cmd) + 1
           ips == IF known THEN d.ips ELSE InsertIpByUser(d.ips, q.ip, 0, NoText)
           tune == InsertNewTuning(d.tune, tid, q.name, Rounds, q.ip)
           cmd == InsertNewCommand(d.cmd, kid, tid, "tuning", q.name, q.ip)
           new == [d EXCEPT !.ips = ips, !.tune = tune, !.cmd = cmd]
<1>0. /\ DOMAIN d = Fields /\ CollOK(d.coll) /\ CmdOK(d.cmd) /\ Linked(d.coll, d.tune, d.cmd)
      /\ TuneOK(d.tune) /\ TuneOK(s.tune) /\ CmdOK(s.cmd) /\ IpsOK(d.ips)
      /\ \A c \in DOMAIN d.coll : d.coll[c].total \in Int
  BY DEF Good, Read, CollOK, NoNumber
<1>1. e = d \/ (tid \notin DOMAIN d.tune /\ kid \notin DOMAIN d.cmd /\ e = new)
  <2>1. q.rounds = Rounds
    BY DEF Request
  <2>2. Run(q, s, d) = AddNewTuning(s, d, q)
    BY DEF Run
  <2> QED
    BY <2>1, <2>2 DEF AddNewTuning, Commit, Reply
<1> HIDE DEF e
<1>2. CASE e = d
  BY <1>0, <1>2, LaterSame DEF e
<1>3. CASE tid \notin DOMAIN d.tune /\ kid \notin DOMAIN d.cmd /\ e = new
  <2>1. TuneOK(tune)
    BY <1>0, <1>3, TuneInsert DEF Request
  <2>2. DOMAIN tune = DOMAIN d.tune \cup {tid}
    BY DEF InsertNewTuning, Insert
  <2>3. CmdOK(cmd) /\ Linked(d.coll, tune, cmd)
    <3>1. /\ CmdOK(cmd) /\ DOMAIN cmd = DOMAIN d.cmd \cup {kid}
          /\ Cardinality(DOMAIN cmd) = Cardinality(DOMAIN d.cmd) + 1
          /\ CommandOf(cmd, tid, "tuning") = CommandOf(d.cmd, tid, "tuning") \cup {kid}
          /\ \A m, t : m # tid \/ t # "tuning" => CommandOf(cmd, m, t) = CommandOf(d.cmd, m, t)
          /\ cmd[kid].type = "tuning" /\ cmd[kid].mid = tid
          /\ \A x \in DOMAIN d.cmd : cmd[x] = d.cmd[x]
      <4>1. kid \notin DOMAIN d.cmd
        BY <1>3
      <4> HIDE DEF tid
      <4> QED
        BY <1>0, <4>1, CmdInsert
    <3>2. tid \notin DOMAIN d.tune /\ kid \notin DOMAIN d.cmd
      BY <1>3
    <3> HIDE DEF cmd, tid, kid, tune
    <3>3. Linked(d.coll, d.tune, d.cmd) /\ CollOK(d.coll) /\ TuneOK(d.tune)
      BY <1>0
    <3>4. Linked(d.coll, tune, cmd)
      BY <2>2, <3>1, <3>2, <3>3, LinkedTune, SMTT(60)
    <3> QED
      BY <3>1, <3>4
  <2>4. IpsOK(ips)
    BY <1>0, FindIpsOK DEF Request
  <2> HIDE DEF ips, tune, cmd, tid, kid
  <2>5. /\ DOMAIN e = Fields /\ e.user = d.user /\ e.ips = ips /\ e.data = d.data
        /\ e.alog = d.alog /\ e.coll = d.coll /\ e.tune = tune /\ e.cmd = cmd
    BY <1>0, <1>3 DEF Fields
  <2> HIDE DEF new
  <2>6. Good(e)
    BY <2>1, <2>3, <2>4, <2>5 DEF Good, Read
  <2>7. Later(d, e)
    BY <1>0, <2>2, <2>5 DEF Later
  <2> QED
    BY <2>6, <2>7 DEF e
<1> QED
  BY <1>1, <1>2, <1>3

LEMMA TuningTableTriggers ==
  ASSUME NEW q, NEW s, NEW d, q.op \in {"create_tuning_data_table", "add_tuning_data"},
         Good(d)
  PROVE  Good(Run(q, s, d).db) /\ Later(d, Run(q, s, d).db)
<1> DEFINE e == Run(q, s, d).db
<1>0. DOMAIN d = Fields /\ UserOK(d.user) /\ IpsOK(d.ips)
  BY DEF Good, Read
<1>1. \E tdata : e = d \/ e = [d EXCEPT !.tdata = tdata]
  <2>1. CASE q.op = "create_tuning_data_table"
    <3>1. e = d \/ e = [d EXCEPT !.tdata = [@ EXCEPT ![q.project].header = TRUE]]
      BY <2>1 DEF Run, CreateTuningDataTable, Commit, Reply
    <3> HIDE DEF e
    <3> QED
      BY <3>1
  <2>2. CASE q.op = "add_tuning_data"
    <3> DEFINE tid == Scalar([k \in DOMAIN s.tune |-> [id |-> k]],
                             TuningNamed(s.tune, q.name), "id", NoNumber)
               rows == InsertTuningRow(d.tdata[q.project], tid, q.round, q.row)
    <3>1. e = d \/ e = [d EXCEPT !.tdata = [@ EXCEPT ![q.project] = rows]]
      BY <2>2 DEF Run, AddTuningData, Commit, Reply
    <3> HIDE DEF e, rows
    <3> QED
      BY <3>1
  <2> QED
    BY <2>1, <2>2
<1>2. PICK tdata : e = d \/ e = [d EXCEPT !.tdata = tdata]
  BY <1>1
<1> HIDE DEF e
<1>3. /\ DOMAIN e = Fields /\ e.user = d.user /\ e.ips = d.ips /\ e.data = d.data
      /\ e.alog = d.alog /\ e.coll = d.coll /\ e.tune = d.tune /\ e.cmd = d.cmd
  BY <1>0, <1>2 DEF Fields
<1> QED
  BY <1>0, <1>3, OnlyUsers DEF e

LEMMA TableMadeKeeps ==
  ASSUME NEW q, NEW d, Good(d)
  PROVE  Good(TableMade(q, d)) /\ Later(d, TableMade(q, d))
<1> DEFINE e == TableMade(q, d)
           data == [d.data EXCEPT !.made = TRUE]
<1>0. /\ DOMAIN d = Fields /\ UserOK(d.user) /\ IpsOK(d.ips) /\ CollOK(d.coll)
      /\ DataOK(d.data, d.coll) /\ TotalsOK(d.coll, d.data)
      /\ \A c \in DOMAIN d.coll : d.coll[c].total \in Int
  BY DEF Good, Read, CollOK, NoNumber
<1>1. \/ e = d \/ e = [d EXCEPT !.data = data]
      \/ e = [d EXCEPT !.tdata = Insert(@, q.project, TuningTable(q.params))]
  BY DEF TableMade
<1>2. DOMAIN data = DataRow /\ data.rows = d.data.rows
  BY <1>0 DEF DataOK, DataRow
<1> HIDE DEF e, data
<1>3. /\ DOMAIN e = Fields /\ e.user = d.user /\ e.ips = d.ips /\ e.data \in {d.data, data}
      /\ e.alog = d.alog /\ e.coll = d.coll /\ e.tune = d.tune /\ e.cmd = d.cmd
  BY <1>0, <1>1 DEF Fields
<1>4. e.data.rows = d.data.rows /\ DataOK(e.data, e.coll)
  BY <1>0, <1>2, <1>3 DEF DataOK
<1>5. TotalsOK(e.coll, e.data)
  BY <1>0, <1>3, <1>4, MaxRoundRows DEF TotalsOK
<1>6. Good(e)
  BY <1>3, <1>4, <1>5 DEF Good, Read
<1>7. Later(d, e)
  BY <1>0, <1>3, <1>4 DEF Later
<1> QED
  BY <1>6, <1>7 DEF e

LEMMA Triggers ==
  ASSUME NEW q, NEW s, NEW d, Request(q), Read(s), Good(d), q.op \in Racing \/ s = d,
         q.op \in {"add_collection_data", "add_analysis_log"} => q.cid \in DOMAIN d.coll
  PROVE  Good(Run(q, s, d).db) /\ Later(d, Run(q, s, d).db)
<1>1. CASE q.op \in UserOps
  BY <1>1, UserTriggers
<1>2. CASE q.op = "add_new_collection"
  BY <1>2, NewCollectionTrigger
<1>3. CASE q.op = "add_collection_data"
  BY <1>3, SampleTrigger
<1>4. CASE q.op = "add_analysis_log"
  BY <1>4, LogTrigger DEF Racing
<1>5. CASE q.op = "change_collection_status"
  BY <1>5, StatusTrigger
<1>6. CASE q.op = "change_collection_info"
  BY <1>6, InfoTrigger
<1>7. CASE q.op = "add_new_tuning"
  BY <1>7, NewTuningTrigger
<1>8. CASE q.op \in {"create_tuning_data_table", "add_tuning_data"}
  BY <1>8, TuningTableTriggers
<1>9. CASE q.op \in {"rename_collection", "update_analysis_description",
                     "change_tuning_baseline", "change_tuning_status", "rename_tuning",
                     "update_tuning_description", "update_command_description"}
  BY <1>9, RowTriggers
<1> QED
  BY <1>1, <1>2, <1>3, <1>4, <1>5, <1>6, <1>7, <1>8, <1>9 DEF Request, UserOps

LEMMA Answers ==
  ASSUME NEW q, NEW s, NEW d, Request(q), Read(s), Good(d), q.op \in Racing \/ s = d,
         q.op \in {"add_collection_data", "add_analysis_log"} => q.cid \in DOMAIN d.coll,
         q.op \in {"add_new_collection", "add_collection_data", "add_analysis_log",
                   "change_collection_status", "change_collection_info"}
  PROVE  LET r == Run(q, s, d)
         IN  IF q.op = "add_new_collection"
             THEN r.val = -1 \/ (r.val \in DOMAIN r.db.coll /\ r.val \notin DOMAIN d.coll
                                 /\ r.db.coll[r.val].ip = q.ip)
             ELSE r.val = q.cid \/ (r.val = -1 /\ r.err)
<1>1. CASE q.op = "add_new_collection"
  BY <1>1, NewCollectionTrigger
<1>2. CASE q.op = "add_collection_data"
  BY <1>2 DEF Run, AddCollectionData, Commit, Reply, Raise, NoNumber
<1>3. CASE q.op = "add_analysis_log"
  BY <1>3, LogTrigger DEF Racing
<1>4. CASE q.op = "change_collection_status"
  BY <1>4 DEF Run, ChangeCollectionStatus, Commit, Reply
<1>5. CASE q.op = "change_collection_info"
  BY <1>5 DEF Run, ChangeCollectionInfo, Reply, Raise, NoNumber
<1> QED
  BY <1>1, <1>2, <1>3, <1>4, <1>5

-----------------------------------------------------------------------------
(* The clients                                                             *)

Known(d, id) == id = -1 \/ id \in DOMAIN d.coll
OfAnalysis(c) == c[2] \in {"handler", "reader"}
Rows == {"add_collection_data", "add_analysis_log"}

\* A row goes to a collection that is there, or that the same request adds first.
Placed(calls, id, d) ==
  \A i \in 1 .. Len(calls) : calls[i].op \in Rows =>
    IF i = 1 THEN id \in DOMAIN d.coll ELSE i = 2 /\ calls[1].op = "add_new_collection"

ReqRow == {"calls", "seen", "id", "err"}
RequestOK(c, r, d) ==
  /\ DOMAIN r = ReqRow
  /\ r.calls \in Seq(AnalysisCalls \cup OtherCalls)
  /\ IF OfAnalysis(c) THEN r.calls \in Seq(AnalysisCalls) /\ Known(d, r.id)
                      ELSE r.calls \in Seq(OtherCalls)
  /\ r.seen = <<>> \/ (r.calls # <<>> /\ r.seen = <<r.seen[1]>> /\ Read(r.seen[1]))
  /\ Placed(r.calls, r.id, d)
ReqInv == DOMAIN req = Clients /\ \A c \in Clients : RequestOK(c, req[c], db)

AnRow == {"handler", "pass", "made", "writer", "reader", "read", "sub", "cid", "sid", "lines"}
AnalysisOK(r, d) ==
  /\ DOMAIN r = AnRow
  /\ r.made \in Nat /\ r.read \in 0 .. r.made /\ r.lines \in Nat /\ r.pass \in Nat
  /\ Known(d, r.cid) /\ Known(d, r.sid)
AnInv == DOMAIN an = Analyses /\ \A a \in Analyses : AnalysisOK(an[a], db)

TnInv == tn \in [Tunings -> Nat \cup {-1}]

\* The viewer has seen the first lines of the log of collection 1.
ViewInv ==
  /\ DOMAIN view = {"csv", "log", "shown", "more"}
  /\ view.shown \in Seq(Lines) /\ view.log = Len(view.shown)
  /\ \A i \in 1 .. view.log : <<1, i>> \in DOMAIN db.alog /\ view.shown[i] = db.alog[<<1, i>>]

UiInv == work \in Workloads /\ Good(db) /\ ReqInv /\ AnInv /\ TnInv /\ ViewInv

LEMMA KnownLater ==
  ASSUME NEW d, NEW e, Later(d, e), NEW id, Known(d, id) PROVE Known(e, id)
  BY DEF Later, Known

LEMMA RequestLater ==
  ASSUME NEW d, NEW e, Later(d, e), NEW c, NEW r, RequestOK(c, r, d)
  PROVE  RequestOK(c, r, e)
<1>1. Placed(r.calls, r.id, e)
  BY DEF RequestOK, Placed, Later
<1> QED
  BY <1>1, KnownLater DEF RequestOK

\* What stays true of the rest when a session changes the database.
LEMMA OthersLater ==
  ASSUME UiInv, Later(db, db')
  PROVE  /\ \A c \in Clients : RequestOK(c, req[c], db')
         /\ UNCHANGED an => AnInv'
         /\ UNCHANGED view => ViewInv'
<1>1. \A c \in Clients : RequestOK(c, req[c], db')
  BY RequestLater DEF UiInv, ReqInv
<1>2. UNCHANGED an => AnInv'
  BY KnownLater DEF UiInv, AnInv, AnalysisOK
<1>3. UNCHANGED view => ViewInv'
  BY DEF UiInv, ViewInv, Later
<1> QED
  BY <1>1, <1>2, <1>3

LEMMA HeadTail ==
  ASSUME NEW S, NEW s \in Seq(S), s # <<>>
  PROVE  /\ Head(s) \in S /\ Tail(s) \in Seq(S) /\ Len(Tail(s)) = Len(s) - 1
         /\ \A i \in 1 .. Len(s) - 1 : Tail(s)[i] = s[i + 1]
         /\ Len(s) \in Nat /\ Len(s) > 0 /\ Head(s) = s[1]
  OBVIOUS

LEMMA OpenStep ==
  ASSUME UiInv, NEW c \in Clients, OpenSession(c)
  PROVE  UiInv' /\ Later(db, db')
<1>1. Good(db') /\ Later(db, db')
  BY TableMadeKeeps DEF UiInv, OpenSession
<1>2. /\ req' = [req EXCEPT ![c].seen = <<db>>] /\ req[c].calls # <<>>
      /\ UNCHANGED <<work, an, tn, web, view>>
  BY DEF OpenSession, Idle
<1>3. RequestOK(c, req[c], db') /\ DOMAIN req = Clients
  BY <1>1, OthersLater DEF UiInv, ReqInv
<1>4. /\ DOMAIN req' = Clients /\ \A x \in Clients : x # c => req'[x] = req[x]
      /\ req'[c].seen = <<db>> /\ DOMAIN req'[c] = ReqRow
      /\ req'[c].calls = req[c].calls /\ req'[c].id = req[c].id
  BY <1>2, <1>3 DEF RequestOK, ReqRow
<1>5. RequestOK(c, req'[c], db')
  BY <1>2, <1>3, <1>4 DEF RequestOK, UiInv, Good
<1>6. ReqInv'
  BY <1>1, <1>4, <1>5, OthersLater DEF ReqInv
<1> QED
  BY <1>1, <1>2, <1>6, OthersLater DEF UiInv, TnInv

LEMMA AnalysisOps ==
  ASSUME NEW h \in AnalysisCalls
  PROVE  /\ h.op \in {"add_new_collection", "add_collection_data", "add_analysis_log",
                      "change_collection_status", "change_collection_info"}
         /\ "cid" \notin DOMAIN h
  BY DEF AnalysisCalls

LEMMA OtherOps ==
  ASSUME NEW h \in OtherCalls
  PROVE  h.op \notin Rows
  BY DEF OtherCalls, TuningRequests, UserRequests, RunRequests, Rows

\* The trigger a session runs, on what it has read and what is there.
Reads(c) == IF Call(c).op \in Racing THEN req[c].seen[1] ELSE db
Outcome(c) == Run(Call(c), Reads(c), db)

LEMMA CommitRuns ==
  ASSUME UiInv, NEW c \in Clients, CommitSession(c)
  PROVE  /\ Request(Call(c)) /\ Call(c).op = Head(req[c].calls).op
         /\ Read(Reads(c)) /\ (Call(c).op \in Racing \/ Reads(c) = db)
         /\ Call(c).op \in Rows => Call(c).cid \in DOMAIN db.coll
         /\ OfAnalysis(c) => Call(c).cid = req[c].id
         /\ db' = Outcome(c).db
<1>1. RequestOK(c, req[c], db) /\ req[c].calls # <<>> /\ Good(db)
  BY DEF UiInv, ReqInv, CommitSession, Idle
<1>2. req[c].calls \in Seq(AnalysisCalls \cup OtherCalls)
  BY <1>1 DEF RequestOK
<1>3. Head(req[c].calls) \in AnalysisCalls \cup OtherCalls /\ Len(req[c].calls) > 0
      /\ Head(req[c].calls) = req[c].calls[1] /\ Len(req[c].calls) \in Nat
  BY <1>1, <1>2, HeadTail
<1>4. OfAnalysis(c) => Head(req[c].calls) \in AnalysisCalls
  <2>1. OfAnalysis(c) => req[c].calls \in Seq(AnalysisCalls)
    BY <1>1 DEF RequestOK
  <2> QED
    BY <1>1, <2>1, HeadTail
<1>5. ~OfAnalysis(c) => Head(req[c].calls) \in OtherCalls
  <2>1. ~OfAnalysis(c) => req[c].calls \in Seq(OtherCalls)
    BY <1>1 DEF RequestOK
  <2> QED
    BY <1>1, <2>1, HeadTail
<1>6. Request(Call(c)) /\ Call(c).op = Head(req[c].calls).op
  BY <1>3, CallGiven, Requests
<1>7. OfAnalysis(c) => Call(c).cid = req[c].id
  BY <1>4, CallGiven, AnalysisOps, GivenHas
<1>8. Call(c).op \in Rows => OfAnalysis(c) /\ req[c].id \in DOMAIN db.coll
  <2>1. Call(c).op \in Rows => OfAnalysis(c)
    BY <1>5, <1>6, OtherOps
  <2>2. Call(c).op \in Rows => req[c].id \in DOMAIN db.coll
    BY <1>1, <1>3, <1>6 DEF RequestOK, Placed
  <2> QED
    BY <2>1, <2>2
<1>9. Read(Reads(c)) /\ (Call(c).op \in Racing \/ Reads(c) = db)
  <2>1. CASE Call(c).op \in Racing
    <3>1. req[c].seen # <<>>
      BY <2>1 DEF CommitSession
    <3> QED
      BY <1>1, <2>1, <3>1 DEF RequestOK, Reads
  <2>2. CASE Call(c).op \notin Racing
    BY <1>1, <2>2 DEF Reads, Good
  <2> QED
    BY <2>1, <2>2
<1>10. db' = Outcome(c).db
  BY DEF CommitSession, Outcome, Reads
<1> QED
  BY <1>6, <1>7, <1>8, <1>9, <1>10

LEMMA CommitStep ==
  ASSUME UiInv, NEW c \in Clients, CommitSession(c)
  PROVE  UiInv' /\ Later(db, db')
<1> DEFINE q == Call(c)
           r == Outcome(c)
<1>0. RequestOK(c, req[c], db) /\ req[c].calls # <<>> /\ Good(db) /\ DOMAIN req = Clients
  BY DEF UiInv, ReqInv, CommitSession, Idle
<1>1. Good(db') /\ Later(db, db')
  BY <1>0, CommitRuns, Triggers DEF Outcome, Rows
<1>2. /\ UNCHANGED <<work, an, tn, web, view>>
      /\ req' = [req EXCEPT ![c] = [calls |-> IF Stops(q, r) THEN <<>> ELSE Tail(@.calls),
                                    seen |-> <<>>, id |-> r.val, err |-> r.err]]
  BY DEF CommitSession, Outcome, Reads
<1>3. /\ DOMAIN req' = Clients /\ \A x \in Clients : x # c => req'[x] = req[x]
      /\ req'[c] = [calls |-> IF Stops(q, r) THEN <<>> ELSE Tail(req[c].calls),
                    seen |-> <<>>, id |-> r.val, err |-> r.err]
  BY <1>0, <1>2
<1> DEFINE calls == IF Stops(q, r) THEN <<>> ELSE Tail(req[c].calls)
<1>4. \A S : req[c].calls \in Seq(S) => calls \in Seq(S)
  BY <1>0, HeadTail
<1>5. OfAnalysis(c) =>
        /\ IF q.op = "add_new_collection"
           THEN r.val = -1 \/ r.val \in DOMAIN db'.coll
           ELSE r.val = req[c].id \/ r.val = -1
  <2> SUFFICES ASSUME OfAnalysis(c)
               PROVE  IF q.op = "add_new_collection"
                      THEN r.val = -1 \/ r.val \in DOMAIN db'.coll
                      ELSE r.val = req[c].id \/ r.val = -1
    OBVIOUS
  <2>1. Head(req[c].calls) \in AnalysisCalls
    <3>1. req[c].calls \in Seq(AnalysisCalls)
      BY <1>0 DEF RequestOK
    <3> QED
      BY <1>0, <3>1, HeadTail
  <2>2. q.op \in {"add_new_collection", "add_collection_data", "add_analysis_log",
                  "change_collection_status", "change_collection_info"}
    BY <2>1, CommitRuns, AnalysisOps
  <2> QED
    BY <1>0, <2>2, CommitRuns, Answers DEF Outcome, Rows
<1>6. OfAnalysis(c) => Known(db', r.val)
  BY <1>0, <1>1, <1>5, KnownLater DEF RequestOK, Known
<1>7. Placed(calls, r.val, db')
  <2>1. CASE Stops(q, r)
    BY <2>1 DEF Placed
  <2>2. CASE ~Stops(q, r)
    <3> SUFFICES ASSUME NEW i \in 1 .. Len(Tail(req[c].calls)), Tail(req[c].calls)[i].op \in Rows
                 PROVE  i = 1 /\ r.val \in DOMAIN db'.coll
      BY <2>2 DEF Placed
    <3>1. /\ Len(req[c].calls) \in Nat /\ Len(Tail(req[c].calls)) = Len(req[c].calls) - 1
          /\ Tail(req[c].calls)[i] = req[c].calls[i + 1]
          /\ Head(req[c].calls) = req[c].calls[1]
      <4>1. req[c].calls \in Seq(AnalysisCalls \cup OtherCalls)
        BY <1>0 DEF RequestOK
      <4>2. Len(req[c].calls) \in Nat /\ Len(Tail(req[c].calls)) = Len(req[c].calls) - 1
        BY <1>0, <4>1, HeadTail
      <4> QED
        BY <1>0, <4>1, <4>2, HeadTail
    <3>2. i + 1 \in 1 .. Len(req[c].calls) /\ i + 1 # 1
      BY <3>1
    <3>3. i + 1 = 2 /\ req[c].calls[1].op = "add_new_collection"
      BY <1>0, <3>1, <3>2 DEF RequestOK, Placed
    <3>4. q.op = "add_new_collection"
      BY <3>1, <3>3, CommitRuns
    <3>5. r.val # -1
      BY <2>2, <3>4 DEF Stops
    <3>6. OfAnalysis(c)
      <4>1. ~OfAnalysis(c) => Head(req[c].calls) \in OtherCalls
        <5>1. ~OfAnalysis(c) => req[c].calls \in Seq(OtherCalls)
          BY <1>0 DEF RequestOK
        <5> QED
          BY <1>0, <5>1, HeadTail
      <4>2. Head(req[c].calls).op = "add_new_collection"
        BY <3>1, <3>3
      <4> QED
        BY <4>1, <4>2 DEF OtherCalls, TuningRequests, UserRequests, RunRequests
    <3> QED
      BY <1>5, <3>3, <3>4, <3>5, <3>6
  <2> QED
    BY <2>1, <2>2
<1> HIDE DEF calls, r, q
<1>8. req'[c] = [calls |-> calls, seen |-> <<>>, id |-> r.val, err |-> r.err]
  BY <1>3 DEF calls
<1>9. RequestOK(c, req'[c], db')
  <2>1. DOMAIN req'[c] = ReqRow /\ req'[c].calls = calls /\ req'[c].seen = <<>>
        /\ req'[c].id = r.val
    BY <1>8 DEF ReqRow
  <2> QED
    BY <1>0, <1>4, <1>6, <1>7, <2>1 DEF RequestOK
<1>10. ReqInv'
  BY <1>1, <1>3, <1>9, OthersLater DEF ReqInv
<1> QED
  BY <1>1, <1>2, <1>10, OthersLater DEF UiInv, TnInv

LEMMA AskStep ==
  ASSUME UiInv, NEW c \in Clients, NEW id,
         NEW calls \in Seq(AnalysisCalls \cup OtherCalls),
         IF OfAnalysis(c) THEN calls \in Seq(AnalysisCalls) /\ Known(db, id)
                          ELSE calls \in Seq(OtherCalls),
         Placed(calls, id, db), Ask(c, calls, id), db' = db
  PROVE  ReqInv'
<1>1. DOMAIN req = Clients /\ \A x \in Clients : RequestOK(x, req[x], db)
  BY DEF UiInv, ReqInv
<1>2. req' = [req EXCEPT ![c] = [NoRequest EXCEPT !.calls = calls, !.id = id]]
  BY DEF Ask
<1> DEFINE r == [NoRequest EXCEPT !.calls = calls, !.id = id]
<1>3. DOMAIN r = ReqRow /\ r.calls = calls /\ r.id = id /\ r.seen = <<>>
  BY DEF NoRequest, ReqRow
<1> HIDE DEF r
<1>4. RequestOK(c, r, db)
  BY <1>3 DEF RequestOK
<1>5. req' = [req EXCEPT ![c] = r]
  BY <1>2 DEF r
<1> QED
  BY <1>1, <1>4, <1>5 DEF ReqInv

LEMMA OtherAsk ==
  ASSUME UiInv, NEW c \in Clients, ~OfAnalysis(c), NEW calls \in Seq(OtherCalls),
         Ask(c, calls, -1), db' = db
  PROVE  ReqInv'
<1>1. calls \in Seq(AnalysisCalls \cup OtherCalls)
  OBVIOUS
<1>2. Placed(calls, -1, db)
  <2>1. \A i \in 1 .. Len(calls) : calls[i] \in OtherCalls
    OBVIOUS
  <2> QED
    BY <2>1, OtherOps DEF Placed
<1> QED
  BY <1>1, <1>2, AskStep

LEMMA PutStep ==
  ASSUME UiInv, NEW a \in Analyses, NEW c, c \in {Handler(a), Reader(a)},
         NEW calls \in Seq(AnalysisCalls), \A i \in 1 .. Len(calls) : calls[i].op \in Rows => i = 1,
         NEW id, Known(db, id), TransferPut(c, a, calls, id), db' = db
  PROVE  ReqInv'
<1> DEFINE new == [op |-> "add_new_collection", ip |-> IpOf[a], time |-> "now"]
           all == IF id = -1 THEN <<new>> \o calls ELSE calls
<1>1. c \in Clients /\ OfAnalysis(c)
  BY DEF Clients, Handler, Reader, OfAnalysis
<1>2. new \in AnalysisCalls /\ new.op = "add_new_collection" /\ new.op \notin Rows
  BY UiAssumption DEF AnalysisCalls, Rows
<1>3. Ask(c, all, id)
  BY DEF TransferPut
<1> HIDE DEF new
<1>4. CASE id = -1
  <2> DEFINE s == <<new>> \o calls
  <2>1. s \in Seq(AnalysisCalls) /\ Len(s) = Len(calls) + 1 /\ s[1] = new /\ Len(calls) \in Nat
        /\ \A i \in 2 .. Len(calls) + 1 : s[i] = calls[i - 1]
    BY <1>2
  <2> HIDE DEF s
  <2>2. Placed(s, id, db)
    <3> SUFFICES ASSUME NEW i \in 1 .. Len(s), s[i].op \in Rows
                 PROVE  i = 2
      BY <1>2, <2>1 DEF Placed
    <3>1. i # 1
      BY <1>2, <2>1
    <3>2. i - 1 \in 1 .. Len(calls) /\ s[i] = calls[i - 1]
      BY <2>1, <3>1
    <3> QED
      BY <3>2
  <2>3. s \in Seq(AnalysisCalls \cup OtherCalls)
    BY <2>1
  <2>4. Ask(c, s, id)
    BY <1>3, <1>4 DEF s
  <2> QED
    BY <1>1, <2>1, <2>2, <2>3, <2>4, AskStep
<1>5. CASE id # -1
  <2>1. Placed(calls, id, db)
    BY <1>5 DEF Placed, Known
  <2>2. calls \in Seq(AnalysisCalls \cup OtherCalls)
    OBVIOUS
  <2>3. Ask(c, calls, id)
    BY <1>3, <1>5
  <2> QED
    BY <1>1, <2>1, <2>2, <2>3, AskStep
<1> QED
  BY <1>4, <1>5

LEMMA CallsOfAnalysis ==
  ASSUME NEW a \in Analyses, NEW n \in Nat
  PROVE  /\ \A s \in {CsvRunning(a, n), LogRunning(a, n), Finished("csv", "w"),
                      Finished("csv", NoText), Finished("log", NoText)} :
              s \in Seq(AnalysisCalls) /\ \A i \in 1 .. Len(s) : s[i].op \in Rows => i = 1
<1> DEFINE one == [op |-> "add_collection_data", cols |-> ColsOf[a], sample |-> <<a, n>>]
           two == [op |-> "add_analysis_log", line |-> <<a, n>>]
<1>1. one \in AnalysisCalls /\ two \in AnalysisCalls
  <2>1. <<a, n>> \in Lines
    BY DEF Lines
  <2> QED
    BY <2>1 DEF AnalysisCalls
<1>2. CsvRunning(a, n) = <<one>> /\ LogRunning(a, n) = <<two>>
  BY DEF CsvRunning, LogRunning
<1> HIDE DEF one, two
<1>3. <<one>> \in Seq(AnalysisCalls) /\ <<two>> \in Seq(AnalysisCalls)
      /\ Len(<<one>>) = 1 /\ Len(<<two>>) = 1
  BY <1>1
<1>4. ASSUME NEW type \in {"csv", "log"}, NEW w \in {"w", NoText}
      PROVE  /\ Finished(type, w) \in Seq(AnalysisCalls)
             /\ \A i \in 1 .. Len(Finished(type, w)) : Finished(type, w)[i].op \notin Rows
  <2> DEFINE s == [op |-> "change_collection_status", status |-> "finished", type |-> type]
             t == [op |-> "change_collection_info", workload |-> w]
  <2>1. s \in AnalysisCalls /\ t \in AnalysisCalls /\ s.op \notin Rows /\ t.op \notin Rows
    BY DEF AnalysisCalls, Rows
  <2>2. Finished(type, w) = <<s, t>>
    BY DEF Finished
  <2> HIDE DEF s, t
  <2>3. <<s, t>> \in Seq(AnalysisCalls) /\ Len(<<s, t>>) = 2
        /\ <<s, t>>[1] = s /\ <<s, t>>[2] = t
    BY <2>1
  <2>4. \A i \in 1 .. Len(<<s, t>>) : <<s, t>>[i].op \notin Rows
    BY <2>1, <2>3
  <2> QED
    BY <2>2, <2>3, <2>4
<1> QED
  BY <1>2, <1>3, <1>4

LEMMA StepHas ==
  ASSUME UiInv, NEW a \in Analyses, NEW changes, Step(a, changes)
  PROVE  /\ DOMAIN an' = Analyses /\ \A b \in Analyses : b # a => an'[b] = an[b]
         /\ DOMAIN an'[a] = AnRow
         /\ \A x \in AnRow : an'[a][x] = IF x \in DOMAIN changes THEN changes[x] ELSE an[a][x]
<1>1. DOMAIN an = Analyses /\ DOMAIN an[a] = AnRow
  BY DEF UiInv, AnInv, AnalysisOK
<1> QED
  BY <1>1 DEF Step

\* A step that keeps the numbers and ids of the analysis well formed.
LEMMA StepKeeps ==
  ASSUME UiInv, NEW a \in Analyses, NEW changes, Step(a, changes), db' = db,
         "made" \in DOMAIN changes => changes.made \in Nat /\ changes.made >= an[a].made,
         "read" \in DOMAIN changes => changes.read \in 0 .. an[a].made,
         "lines" \in DOMAIN changes => changes.lines \in Nat,
         "pass" \in DOMAIN changes => changes.pass \in Nat,
         "cid" \in DOMAIN changes => Known(db, changes.cid),
         "sid" \in DOMAIN changes => Known(db, changes.sid)
  PROVE  AnInv'
<1>1. AnalysisOK(an[a], db) /\ \A b \in Analyses : AnalysisOK(an[b], db)
  BY DEF UiInv, AnInv
<1>2. AnalysisOK(an'[a], db)
  BY <1>1, StepHas DEF AnalysisOK, AnRow
<1> QED
  BY <1>1, <1>2, StepHas DEF AnInv

LEMMA StillStep ==
  ASSUME UiInv, Still, ReqInv', AnInv' PROVE UiInv'
  BY DEF UiInv, Still, TnInv, ViewInv

LEMMA QuietStep ==
  ASSUME UiInv, Quiet, AnInv' PROVE UiInv'
<1>1. Still /\ ReqInv'
  BY DEF Quiet, Still, UiInv, ReqInv
<1> QED
  BY <1>1, StillStep

LEMMA QuietSteps ==
  ASSUME UiInv, NEW a \in Analyses,
         \/ OpenPipe(a) \/ Sample(a) \/ ClosePipe(a) \/ Collected(a)
         \/ FinishAnswered(a) \/ PassEnds(a) \/ ReopenPipe(a) \/ ReaderEnds(a)
         \/ AnalysisFails(a) \/ RowAnswered(a)
  PROVE  UiInv' /\ db' = db
<1>0. AnalysisOK(an[a], db) /\ DOMAIN an[a] = AnRow
  BY DEF UiInv, AnInv, AnalysisOK
<1>1. Quiet /\ db' = db
  BY DEF OpenPipe, Sample, ClosePipe, Collected, FinishAnswered, PassEnds, ReopenPipe,
     ReaderEnds, AnalysisFails, RowAnswered, Quiet, Still
<1>2. CASE OpenPipe(a)
  <2>1. PICK read \in {an[a].read, IF an[a].reader = "open" THEN an[a].made ELSE an[a].read} :
          Step(a, [handler |-> "sample", writer |-> TRUE, read |-> read,
                   reader |-> IF an[a].reader = "open" THEN "read" ELSE an[a].reader])
    BY <1>2 DEF OpenPipe
  <2>2. read \in 0 .. an[a].made
    BY <1>0 DEF AnalysisOK
  <2>3. AnInv'
    BY <1>1, <2>1, <2>2, StepKeeps
  <2> QED
    BY <1>1, <2>3, QuietStep
<1>3. CASE Sample(a)
  <2>1. an[a].made + 1 \in Nat /\ an[a].made + 1 >= an[a].made
    BY <1>0 DEF AnalysisOK
  <2> QED
    BY <1>1, <1>3, <2>1, StepKeeps, QuietStep DEF Sample
<1>4. CASE Collected(a)
  <2>1. an[a].pass + 1 \in Nat
    BY <1>0 DEF AnalysisOK
  <2>2. \/ Step(a, [handler |-> "open", pass |-> an[a].pass + 1])
        \/ Step(a, [handler |-> "classify", sub |-> FALSE])
    BY <1>4 DEF Collected
  <2>3. AnInv'
    BY <1>1, <2>1, <2>2, StepKeeps
  <2> QED
    BY <1>1, <2>3, QuietStep
<1>5. CASE FinishAnswered(a)
  <2>1. Known(db, an[a].cid)
    BY <1>0 DEF AnalysisOK
  <2>2. \/ Step(a, [handler |-> "fail"]) \/ Step(a, [handler |-> "end"])
        \/ Step(a, [handler |-> "log", sid |-> an[a].cid])
    BY <1>5 DEF FinishAnswered
  <2>3. AnInv'
    BY <1>1, <2>1, <2>2, StepKeeps
  <2> QED
    BY <1>1, <2>3, QuietStep
<1>6. CASE ReopenPipe(a)
  BY <1>1, <1>6, StepKeeps, QuietStep DEF ReopenPipe
<1>7. CASE ReaderEnds(a)
  BY <1>1, <1>7, StepKeeps, QuietStep DEF ReaderEnds
<1>8. CASE AnalysisFails(a)
  BY <1>1, <1>8, StepKeeps, QuietStep DEF AnalysisFails
<1>9. CASE RowAnswered(a)
  <2>1. Known(db, req[Reader(a)].id)
    <3>1. Reader(a) \in Clients /\ OfAnalysis(Reader(a))
      BY DEF Clients, Reader, OfAnalysis
    <3> QED
      BY <3>1 DEF UiInv, ReqInv, RequestOK
  <2>2. \/ Step(a, [reader |-> "fail"])
        \/ Step(a, [reader |-> "read", cid |-> req[Reader(a)].id])
    BY <1>9 DEF RowAnswered
  <2>3. AnInv'
    BY <1>1, <2>1, <2>2, StepKeeps
  <2> QED
    BY <1>1, <2>3, QuietStep
<1>10. CASE ClosePipe(a)
  BY <1>1, <1>10, StepKeeps, QuietStep DEF ClosePipe
<1>11. CASE PassEnds(a)
  BY <1>1, <1>11, StepKeeps, QuietStep DEF PassEnds
<1> QED
  BY <1>1, <1>2, <1>3, <1>4, <1>5, <1>6, <1>7, <1>8, <1>9, <1>10, <1>11

LEMMA SendSteps ==
  ASSUME UiInv, NEW a \in Analyses,
         \/ Classified(a) \/ SendLine(a) \/ LogFinished(a) \/ ReadRow(a) \/ SendFinished(a)
  PROVE  UiInv' /\ db' = db
<1>0. AnalysisOK(an[a], db) /\ DOMAIN an[a] = AnRow
  BY DEF UiInv, AnInv, AnalysisOK
<1>1. Still /\ db' = db
  BY DEF Classified, SendLine, LogFinished, ReadRow, SendFinished, Still
<1>2. Known(db, an[a].cid) /\ Known(db, an[a].sid) /\ an[a].lines + 1 \in Nat
  BY <1>0 DEF AnalysisOK
<1>3. CASE Classified(a)
  <2>1. ReqInv'
    BY <1>1, <1>2, <1>3, PutStep, CallsOfAnalysis DEF Classified
  <2>2. AnInv'
    BY <1>1, <1>3, StepKeeps DEF Classified
  <2> QED
    BY <1>1, <2>1, <2>2, StillStep
<1>4. CASE SendLine(a)
  <2>1. ReqInv'
    BY <1>1, <1>2, <1>4, PutStep, CallsOfAnalysis DEF SendLine
  <2>2. AnInv'
    BY <1>1, <1>2, <1>4, StepKeeps DEF SendLine
  <2> QED
    BY <1>1, <2>1, <2>2, StillStep
<1>5. CASE LogFinished(a)
  <2>1. ReqInv'
    BY <1>1, <1>2, <1>5, PutStep, CallsOfAnalysis DEF LogFinished
  <2>2. AnInv'
    BY <1>1, <1>5, StepKeeps DEF LogFinished
  <2> QED
    BY <1>1, <2>1, <2>2, StillStep
<1>6. CASE ReadRow(a)
  <2>1. an[a].read + 1 \in 0 .. an[a].made /\ an[a].read + 1 \in Nat
    BY <1>0, <1>6 DEF AnalysisOK, ReadRow
  <2>2. ReqInv'
    BY <1>1, <1>2, <1>6, <2>1, PutStep, CallsOfAnalysis DEF ReadRow
  <2>3. AnInv'
    BY <1>1, <1>6, <2>1, StepKeeps DEF ReadRow
  <2> QED
    BY <1>1, <2>2, <2>3, StillStep
<1>7. CASE SendFinished(a)
  <2>1. ReqInv'
    BY <1>1, <1>2, <1>7, PutStep, CallsOfAnalysis DEF SendFinished
  <2>2. AnInv'
    BY <1>1, <1>7, StepKeeps DEF SendFinished
  <2> QED
    BY <1>1, <2>1, <2>2, StillStep
<1> QED
  BY <1>1, <1>3, <1>4, <1>5, <1>6, <1>7

LEMMA TuningStep ==
  ASSUME UiInv, NEW t \in Tunings, TuningPut(t)
  PROVE  UiInv' /\ db' = db
<1> DEFINE i == tn[t]
<1>1. i \in Nat \cup {-1} /\ tn' = [tn EXCEPT ![t] = @ + 1]
      /\ UNCHANGED <<db, work, an, web, view>>
  BY DEF UiInv, TnInv, TuningPut
<1>2. TnInv'
  BY <1>1 DEF UiInv, TnInv
<1>3. Head(t) \in Projects /\ ParamsOf[t] \in Parameters /\ IpOf[t] \in Ips
  BY UiAssumption DEF Projects, Parameters
<1>4. TuningCalls(t, i) \in Seq(OtherCalls)
  <2>1. CASE i = -1
    <3> DEFINE h == [op |-> "add_new_tuning", name |-> t, rounds |-> Rounds, ip |-> IpOf[t]]
    <3>1. h \in OtherCalls
      BY <1>3 DEF OtherCalls, TuningRequests
    <3>2. TuningCalls(t, i) = <<h>>
      BY <2>1 DEF TuningCalls
    <3> HIDE DEF h
    <3> QED
      BY <3>1, <3>2
  <2>2. CASE i = 0
    <3> DEFINE h == [op |-> "change_tuning_baseline", name |-> t, base |-> 0]
               g == [op |-> "create_tuning_data_table", project |-> Head(t),
                     params |-> ParamsOf[t]]
    <3>1. h \in OtherCalls /\ g \in OtherCalls
      BY <1>3 DEF OtherCalls, TuningRequests
    <3>2. TuningCalls(t, i) = <<h, g>>
      BY <2>2 DEF TuningCalls
    <3> HIDE DEF h, g
    <3> QED
      BY <3>1, <3>2
  <2>3. CASE i > 0 /\ i \in Nat
    <3> DEFINE h == [op |-> "add_tuning_data", name |-> t, project |-> Head(t), round |-> i,
                     params |-> ParamsOf[t], row |-> <<t, i>>]
               g == [op |-> "change_tuning_status", name |-> t, project |-> Head(t)]
    <3>1. h \in TuningRequests
      <4>1. i \in Nat \ {0} /\ <<t, i>> \in Tunings \X Nat
        BY <2>3
      <4> HIDE DEF i
      <4> QED
        BY <1>3, <4>1 DEF TuningRequests
    <3>2. g \in TuningRequests
      BY <1>3 DEF TuningRequests
    <3>3. TuningCalls(t, i) = <<h, g>>
      BY <2>3 DEF TuningCalls
    <3> HIDE DEF h, g
    <3> QED
      BY <3>1, <3>2, <3>3 DEF OtherCalls
  <2> QED
    BY <1>1, <2>1, <2>2, <2>3
<1> DEFINE calls == TuningCalls(t, i)
<1>5. Ask(Tuner(t), calls, -1)
  BY DEF TuningPut
<1>6. Tuner(t) \in Clients /\ ~OfAnalysis(Tuner(t))
  BY DEF Clients, Tuner, OfAnalysis
<1> HIDE DEF calls, i
<1>7. ReqInv'
  BY <1>1, <1>4, <1>5, <1>6, OtherAsk DEF calls
<1> QED
  BY <1>1, <1>2, <1>7 DEF UiInv, AnInv, ViewInv

LEMMA RouteKinds ==
  ASSUME UiInv, NEW r \in {"user", "runs"}, NEW calls \in Routes(r)
  PROVE  calls \in Seq(IF r = "user" THEN UserRequests ELSE RunRequests)
<1>1. ASSUME calls \in UserPost \cup UserGet PROVE calls \in Seq(UserRequests)
  <2>1. ASSUME NEW h \in UserRequests, calls = <<h>>
        PROVE  calls \in Seq(UserRequests)
    BY <2>1
  <2>2. CASE calls \in UserGet
    <3>1. PICK u \in Uids, i \in Ips : calls = <<[op |-> "delete_ip", uid |-> u, ip |-> i]>>
      BY <2>2 DEF UserGet
    <3> DEFINE h == [op |-> "delete_ip", uid |-> u, ip |-> i]
    <3>2. h \in UserRequests /\ calls = <<h>>
      BY <3>1 DEF UserRequests
    <3> HIDE DEF h
    <3> QED
      BY <2>1, <3>2
  <2>3. CASE \E o \in {"user_exist", "create_user"}, e \in Emails, p \in Pwds :
               calls = <<[op |-> o, email |-> e, pwd |-> p]>>
    <3>1. PICK o \in {"user_exist", "create_user"}, e \in Emails, p \in Pwds :
            calls = <<[op |-> o, email |-> e, pwd |-> p]>>
      BY <2>3
    <3> DEFINE h == [op |-> o, email |-> e, pwd |-> p]
    <3>2. h \in UserRequests /\ calls = <<h>>
      BY <3>1 DEF UserRequests
    <3> HIDE DEF h
    <3> QED
      BY <2>1, <3>2
  <2>4. CASE \E u \in Uids, p \in Pwds, n \in Pwds :
               calls = <<[op |-> "change_user_pwd", uid |-> u, pwd |-> p, newPwd |-> n]>>
    <3>1. PICK u \in Uids, p \in Pwds, n \in Pwds :
            calls = <<[op |-> "change_user_pwd", uid |-> u, pwd |-> p, newPwd |-> n]>>
      BY <2>4
    <3> DEFINE h == [op |-> "change_user_pwd", uid |-> u, pwd |-> p, newPwd |-> n]
    <3>2. h \in UserRequests /\ calls = <<h>>
      BY <3>1 DEF UserRequests
    <3> HIDE DEF h
    <3> QED
      BY <2>1, <3>2
  <2>5. CASE \E u \in Uids, x \in Descs :
               calls = <<[op |-> "change_user_info", uid |-> u, desc |-> x]>>
    <3>1. PICK u \in Uids, x \in Descs :
            calls = <<[op |-> "change_user_info", uid |-> u, desc |-> x]>>
      BY <2>5
    <3> DEFINE h == [op |-> "change_user_info", uid |-> u, desc |-> x]
    <3>2. h \in UserRequests /\ calls = <<h>>
      BY <3>1 DEF UserRequests
    <3> HIDE DEF h
    <3> QED
      BY <2>1, <3>2
  <2>6. CASE \E p \in Pwds : calls = <<[op |-> "count_user"], [op |-> "create_admin", pwd |-> p]>>
    <3>1. PICK p \in Pwds : calls = <<[op |-> "count_user"], [op |-> "create_admin", pwd |-> p]>>
      BY <2>6
    <3> DEFINE h == [op |-> "count_user"]
               g == [op |-> "create_admin", pwd |-> p]
    <3>2. h \in UserRequests /\ g \in UserRequests /\ calls = <<h, g>>
      BY <3>1 DEF UserRequests
    <3> HIDE DEF h, g
    <3> QED
      BY <3>2
  <2>7. CASE \E o \in {"add_ip", "update_ip"}, u \in Uids, i \in Ips, x \in Descs :
               calls = <<[op |-> o, uid |-> u, ip |-> i, desc |-> x]>>
    <3>1. PICK o \in {"add_ip", "update_ip"}, u \in Uids, i \in Ips, x \in Descs :
            calls = <<[op |-> o, uid |-> u, ip |-> i, desc |-> x]>>
      BY <2>7
    <3> DEFINE h == [op |-> o, uid |-> u, ip |-> i, desc |-> x]
    <3>2. h \in UserRequests /\ calls = <<h>>
      BY <3>1 DEF UserRequests
    <3> HIDE DEF h
    <3> QED
      BY <2>1, <3>2
  <2> QED
    BY <1>1, <2>2, <2>3, <2>4, <2>5, <2>6, <2>7 DEF UserPost
<1>2. ASSUME calls \in AnalysisGet \cup TuningGet \cup CommandGet
      PROVE  calls \in Seq(RunRequests)
  <2>1. ASSUME NEW h \in RunRequests, calls = <<h>>
        PROVE  calls \in Seq(RunRequests)
    BY <2>1
  <2>2. CollOK(db.coll) /\ TuneOK(db.tune) /\ CmdOK(db.cmd)
    BY DEF UiInv, Good, Read
  <2>3. <<"new">> \in Names
    BY DEF Names, Words
  <2>4. CASE \E c \in DOMAIN db.coll,
               n \in {<<"new">>} \cup {db.coll[x].name : x \in DOMAIN db.coll} :
               calls = <<[op |-> "rename_collection", name |-> db.coll[c].name, new |-> n]>>
    <3>1. PICK c \in DOMAIN db.coll,
               n \in {<<"new">>} \cup {db.coll[x].name : x \in DOMAIN db.coll} :
            calls = <<[op |-> "rename_collection", name |-> db.coll[c].name, new |-> n]>>
      BY <2>4
    <3> DEFINE h == [op |-> "rename_collection", name |-> db.coll[c].name, new |-> n]
    <3>2. n \in Names /\ db.coll[c].name \in Names
      BY <2>2, <2>3 DEF CollOK
    <3>3. h \in RunRequests /\ calls = <<h>>
      BY <3>1, <3>2 DEF RunRequests
    <3> HIDE DEF h
    <3> QED
      BY <2>1, <3>3
  <2>5. CASE \E t \in DOMAIN db.tune,
               n \in {<<"new">>} \cup {db.tune[x].name : x \in DOMAIN db.tune} :
               calls = <<[op |-> "rename_tuning", name |-> db.tune[t].name, new |-> n]>>
    <3>1. PICK t \in DOMAIN db.tune,
               n \in {<<"new">>} \cup {db.tune[x].name : x \in DOMAIN db.tune} :
            calls = <<[op |-> "rename_tuning", name |-> db.tune[t].name, new |-> n]>>
      BY <2>5
    <3> DEFINE h == [op |-> "rename_tuning", name |-> db.tune[t].name, new |-> n]
    <3>2. n \in Names /\ db.tune[t].name \in Names
      BY <2>2, <2>3 DEF TuneOK
    <3>3. h \in RunRequests /\ calls = <<h>>
      BY <3>1, <3>2 DEF RunRequests
    <3> HIDE DEF h
    <3> QED
      BY <2>1, <3>3
  <2>6. CASE \E c \in DOMAIN db.coll, x \in Descs :
               calls = <<[op |-> "update_analysis_description", cid |-> c, desc |-> x]>>
    <3>1. PICK c \in DOMAIN db.coll, x \in Descs :
            calls = <<[op |-> "update_analysis_description", cid |-> c, desc |-> x]>>
      BY <2>6
    <3> DEFINE h == [op |-> "update_analysis_description", cid |-> c, desc |-> x]
    <3>2. h \in RunRequests /\ calls = <<h>>
      BY <2>2, <3>1 DEF RunRequests, CollOK, Ids, Bounded
    <3> HIDE DEF h
    <3> QED
      BY <2>1, <3>2
  <2>7. CASE \E t \in DOMAIN db.tune, x \in Descs :
               calls = <<[op |-> "update_tuning_description", tid |-> t, desc |-> x]>>
    <3>1. PICK t \in DOMAIN db.tune, x \in Descs :
            calls = <<[op |-> "update_tuning_description", tid |-> t, desc |-> x]>>
      BY <2>7
    <3> DEFINE h == [op |-> "update_tuning_description", tid |-> t, desc |-> x]
    <3>2. h \in RunRequests /\ calls = <<h>>
      BY <2>2, <3>1 DEF RunRequests, TuneOK, Ids, Bounded
    <3> HIDE DEF h
    <3> QED
      BY <2>1, <3>2
  <2>8. CASE \E k \in DOMAIN db.cmd, x \in Descs :
               calls = <<[op |-> "update_command_description", kid |-> k, desc |-> x]>>
    <3>1. PICK k \in DOMAIN db.cmd, x \in Descs :
            calls = <<[op |-> "update_command_description", kid |-> k, desc |-> x]>>
      BY <2>8
    <3> DEFINE h == [op |-> "update_command_description", kid |-> k, desc |-> x]
    <3>2. h \in RunRequests /\ calls = <<h>>
      BY <2>2, <3>1 DEF RunRequests, CmdOK, Ids, Bounded
    <3> HIDE DEF h
    <3> QED
      BY <2>1, <3>2
  <2> QED
    BY <1>2, <2>4, <2>5, <2>6, <2>7, <2>8 DEF AnalysisGet, TuningGet, CommandGet
<1> QED
  BY <1>1, <1>2 DEF Routes

LEMMA RouteCalls ==
  ASSUME UiInv, NEW r \in {"user", "runs"}, NEW calls \in Routes(r)
  PROVE  calls \in Seq(OtherCalls)
<1>1. UserRequests \subseteq OtherCalls /\ RunRequests \subseteq OtherCalls
  BY DEF OtherCalls
<1>2. CASE r = "user"
  <2>1. calls \in Seq(UserRequests)
    BY <1>2, RouteKinds
  <2> QED
    BY <1>1, <2>1
<1>3. CASE r # "user"
  <2>1. calls \in Seq(RunRequests)
    BY <1>3, RouteKinds
  <2> QED
    BY <1>1, <2>1
<1> QED
  BY <1>2, <1>3

LEMMA WebStep ==
  ASSUME UiInv, NEW w \in work.webs, WebRequest(w)
  PROVE  UiInv' /\ db' = db
<1>1. work.routes \subseteq {"user", "runs"} /\ w \in Webs
  BY UiAssumption DEF UiInv
<1>2. PICK r \in work.routes : \E calls \in Routes(r) : Ask(Browser(w), calls, -1)
  BY DEF WebRequest
<1>3. PICK calls \in Routes(r) : Ask(Browser(w), calls, -1)
  BY <1>2
<1>4. Browser(w) \in Clients /\ ~OfAnalysis(Browser(w))
  BY <1>1 DEF Clients, Browser, OfAnalysis
<1>5. UNCHANGED <<db, work, an, tn, view>>
  BY DEF WebRequest
<1>6. ReqInv'
  BY <1>1, <1>3, <1>4, <1>5, RouteCalls, OtherAsk
<1> QED
  BY <1>5, <1>6 DEF UiInv, AnInv, TnInv, ViewInv

-----------------------------------------------------------------------------
(* The viewer                                                              *)

LEMMA NthOfInterval ==
  ASSUME NEW from \in Nat, NEW last \in Nat, from <= last, NEW i \in 1 .. last - from
  PROVE  Nth(from + 1 .. last, i) = from + i
<1> DEFINE S == from + 1 .. last
<1>1. ASSUME NEW x \in S
      PROVE  Cardinality({j \in S : j < x}) = x - 1 - from
  <2>1. {j \in S : j < x} = from + 1 .. x - 1
    OBVIOUS
  <2>2. x \in Int /\ from + 1 \in Int /\ x - 1 \in Int /\ from < x
    OBVIOUS
  <2> DEFINE lo == from + 1
             hi == x - 1
  <2>3. Cardinality(lo .. hi) = IF lo > hi THEN 0 ELSE hi - lo + 1
    BY <2>2, FS_Interval
  <2>4. Cardinality({j \in S : j < x}) = Cardinality(lo .. hi)
    BY <2>1
  <2>5. hi - lo + 1 = x - 1 - from /\ (lo > hi => x - 1 - from = 0)
    BY <2>2
  <2> HIDE DEF lo, hi, S
  <2> QED
    BY <2>3, <2>4, <2>5
<1>2. from + i \in S
  OBVIOUS
<1>3. \A x \in S : Cardinality({j \in S : j < x}) = i - 1 <=> x = from + i
  BY <1>1
<1> HIDE DEF S
<1> QED
  BY <1>2, <1>3 DEF Nth, S

\* A page holds the lines after the last one asked for, in their order.
LEMMA PageOfLog ==
  ASSUME NEW alog, NEW coll, LogOK(alog, coll), NEW from \in Nat, NEW to \in Nat, from <= to
  PROVE  LET page == LogLines(alog, 1, from, to)
         IN  /\ page \in Seq(Lines)
             /\ \A i \in 1 .. Len(page) : /\ <<1, from + i>> \in DOMAIN alog
                                          /\ page[i] = alog[<<1, from + i>>]
<1> DEFINE S == RoundsOf(alog, 1)
           R == {k[2] : k \in {x \in DOMAIN alog : x[1] = 1 /\ x[2] \in from + 1 .. to}}
<1>1. Keyed(alog, coll) /\ Bounded(S) /\ \A n : n \in S <=> <<1, n>> \in DOMAIN alog
  BY RoundsBounded DEF LogOK
<1>2. R = S \cap (from + 1 .. to)
  BY DEF RoundsOf
<1>3. MaxOf(S) \in Nat /\ (S # {} => MaxOf(S) \in S) /\ \A x \in S : x <= MaxOf(S)
  BY <1>1, MaxOfBounded
<1>4. \A n \in 1 .. MaxOf(S) : n \in S
  <2>1. S = {} => MaxOf(S) = 0
    BY DEF MaxOf
  <2>2. S # {} => <<1, MaxOf(S)>> \in DOMAIN alog
    BY <1>1, <1>3
  <2> HIDE DEF S
  <2>3. S # {} => \A n \in 1 .. MaxOf(S) : <<1, n>> \in DOMAIN alog
    BY <2>2 DEF LogOK
  <2>4. S # {} => \A n \in 1 .. MaxOf(S) : n \in S
    BY <1>1, <2>3
  <2>5. S = {} => \A n \in 1 .. MaxOf(S) : n \in S
    BY <2>1
  <2> QED
    BY <2>4, <2>5
<1>5. S \subseteq Nat
  BY <1>1 DEF Bounded
<1> HIDE DEF S, R
<1>6. PICK last \in Nat : from <= last /\ R = from + 1 .. last
  <2>1. CASE MaxOf(S) <= from
    <3>1. R = from + 1 .. from
      BY <1>2, <1>3, <1>5, <2>1
    <3> QED
      BY <3>1
  <2>2. CASE from <= MaxOf(S) /\ MaxOf(S) <= to
    <3>1. R = from + 1 .. MaxOf(S)
      BY <1>2, <1>3, <1>4, <1>5, <2>2
    <3> QED
      BY <1>3, <2>2, <3>1
  <2>3. CASE to <= MaxOf(S)
    <3>1. R = from + 1 .. to
      BY <1>2, <1>3, <1>4, <1>5, <2>3
    <3> QED
      BY <3>1
  <2> QED
    BY <1>3, <2>1, <2>2, <2>3
<1>7. Cardinality(R) = last - from
  <2> DEFINE lo == from + 1
  <2>1. Cardinality(lo .. last) = IF lo > last THEN 0 ELSE last - lo + 1
    BY FS_Interval
  <2>2. last - lo + 1 = last - from /\ (lo > last => last - from = 0) /\ R = lo .. last
    BY <1>6
  <2> HIDE DEF lo
  <2> QED
    BY <2>1, <2>2
<1> DEFINE page == LogLines(alog, 1, from, to)
<1>8. page = [i \in 1 .. last - from |-> alog[<<1, from + i>>]]
  <2>1. page = [i \in 1 .. Cardinality(R) |-> alog[<<1, Nth(R, i)>>]]
    BY DEF LogLines, R
  <2>2. \A i \in 1 .. last - from : Nth(R, i) = from + i
    BY <1>6, NthOfInterval
  <2> QED
    BY <1>7, <2>1, <2>2
<1>9. \A i \in 1 .. last - from : <<1, from + i>> \in DOMAIN alog
  <2> SUFFICES ASSUME NEW i \in 1 .. last - from PROVE <<1, from + i>> \in DOMAIN alog
    OBVIOUS
  <2>1. from + i \in R
    BY <1>6
  <2>2. from + i \in S
    BY <1>2, <2>1
  <2> QED
    BY <1>1, <2>2
<1>10. \A i \in 1 .. last - from : alog[<<1, from + i>>] \in Lines
  BY <1>9 DEF LogOK
<1> HIDE DEF page
<1>11. page \in Seq(Lines) /\ Len(page) = last - from
  BY <1>6, <1>8, <1>10
<1> QED
  BY <1>8, <1>9, <1>11 DEF page

LEMMA PollStep ==
  ASSUME UiInv, Poll
  PROVE  UiInv' /\ db' = db
<1> DEFINE page == GetAnalysisLogDirs(db, 1, view.log)
<1>1. UNCHANGED <<db, req, work, an, tn, web>>
  BY DEF Poll
<1>2. /\ view.shown \in Seq(Lines) /\ view.log = Len(view.shown)
      /\ \A i \in 1 .. view.log : <<1, i>> \in DOMAIN db.alog
                                  /\ view.shown[i] = db.alog[<<1, i>>]
      /\ view.log \in Nat
  BY DEF UiInv, ViewInv
<1>3. LogOK(db.alog, db.coll)
  BY DEF UiInv, Good, Read
<1>4. /\ page \in Seq(Lines)
      /\ \A i \in 1 .. Len(page) : /\ <<1, view.log + i>> \in DOMAIN db.alog
                                   /\ page[i] = db.alog[<<1, view.log + i>>]
  <2>1. view.log + PageSize \in Nat /\ view.log <= view.log + PageSize
    BY <1>2, PageSizeAssumption
  <2> QED
    BY <1>2, <1>3, <2>1, PageOfLog DEF GetAnalysisLogDirs
<1>5. /\ DOMAIN view' = {"csv", "log", "shown", "more"}
      /\ view'.log = view.log + Len(page) /\ view'.shown = view.shown \o page
  BY DEF Poll
<1> HIDE DEF page
<1>6. view'.shown \in Seq(Lines) /\ view'.log = Len(view'.shown) /\ Len(page) \in Nat
  BY <1>2, <1>4, <1>5
<1>7. \A i \in 1 .. view'.log : <<1, i>> \in DOMAIN db.alog
                                /\ view'.shown[i] = db.alog[<<1, i>>]
  <2> SUFFICES ASSUME NEW i \in 1 .. view'.log
               PROVE  <<1, i>> \in DOMAIN db.alog /\ view'.shown[i] = db.alog[<<1, i>>]
    OBVIOUS
  <2>1. CASE i <= view.log
    <3>1. view'.shown[i] = view.shown[i]
      BY <1>2, <1>4, <1>5, <2>1
    <3> QED
      BY <1>2, <2>1, <3>1
  <2>2. CASE i > view.log
    <3> DEFINE j == i - view.log
    <3>1. j \in 1 .. Len(page) /\ i = view.log + j
      BY <1>2, <1>5, <1>6, <2>2
    <3>2. view'.shown[i] = page[j]
      BY <1>2, <1>4, <1>5, <3>1
    <3> QED
      BY <1>4, <3>1, <3>2
  <2> QED
    BY <1>2, <2>1, <2>2
<1>8. ViewInv'
  BY <1>1, <1>5, <1>6, <1>7 DEF ViewInv
<1> QED
  BY <1>1, <1>8 DEF UiInv, ReqInv, AnInv, TnInv

-----------------------------------------------------------------------------
(* The invariant                                                           *)

LEMMA InitialTables ==
  ASSUME NEW known \in SUBSET Ips
  PROVE  LET u == IF known = {} THEN Empty ELSE InsertNewUser(Empty, 1, "first", "x", "user")
             d == [ips |-> [k \in {<<1, i>> : i \in known} |-> [desc |-> NoText]],
                   user |-> u, coll |-> Empty, cmd |-> Empty, tune |-> Empty, alog |-> Empty,
                   data |-> NoData, tdata |-> Empty]
         IN  Good(d)
<1> DEFINE u == IF known = {} THEN Empty ELSE InsertNewUser(Empty, 1, "first", "x", "user")
           ips == [k \in {<<1, i>> : i \in known} |-> [desc |-> NoText]]
           d == [ips |-> ips, user |-> u, coll |-> Empty, cmd |-> Empty, tune |-> Empty,
                 alog |-> Empty, data |-> NoData, tdata |-> Empty]
<1>1. DOMAIN Empty = {} /\ Ids(Empty)
  BY DEF Empty, Ids, Bounded
<1>2. IpsOK(ips)
  BY DEF IpsOK
<1>3. UserOK(u)
  <2>1. CASE known = {}
    BY <1>1, <2>1 DEF UserOK, Empty, Bounded
  <2>2. CASE known # {}
    <3> DEFINE row == [email |-> "first", pwd |-> "x", desc |-> Null, role |-> "user"]
    <3>1. DOMAIN row = UserRow /\ row.role # "admin"
      BY DEF UserRow
    <3>2. u = [x \in {1} |-> row]
      BY <1>1, <2>2 DEF InsertNewUser, Insert
    <3> HIDE DEF row, u
    <3>3. Bounded(DOMAIN u) /\ u = [x \in DOMAIN u |-> u[x]]
      BY <3>2 DEF Bounded
    <3> QED
      BY <3>1, <3>2, <3>3 DEF UserOK
  <2> QED
    BY <2>1, <2>2
<1>4. DataOK(NoData, Empty) /\ LogOK(Empty, Empty)
  BY <1>1 DEF DataOK, LogOK, Keyed, NoData, DataRow
<1>5. CollOK(Empty) /\ CmdOK(Empty) /\ TuneOK(Empty)
  BY <1>1 DEF CollOK, CmdOK, TuneOK
<1>6. Linked(Empty, Empty, Empty)
  BY <1>1, FS_EmptySet DEF Linked
<1>7. TotalsOK(Empty, NoData)
  BY <1>1 DEF TotalsOK
<1> HIDE DEF u, ips
<1>8. /\ DOMAIN d = Fields
      /\ d.ips = ips /\ d.user = u /\ d.coll = Empty /\ d.cmd = Empty /\ d.tune = Empty
      /\ d.alog = Empty /\ d.data = NoData
  BY DEF Fields
<1> HIDE DEF d
<1>9. Good(d)
  BY <1>2, <1>3, <1>4, <1>5, <1>6, <1>7, <1>8 DEF Good, Read
<1> QED
  BY <1>9 DEF d, ips, u

LEMMA InitInv == Init => UiInv
<1> SUFFICES ASSUME Init PROVE UiInv
  OBVIOUS
<1>1. work \in Workloads /\ work.ips \subseteq Ips
  BY UiAssumption DEF Init
<1>2. Good(db)
  <2>1. PICK known \in SUBSET work.ips :
          db = [ips |-> [k \in {<<1, i>> : i \in known} |-> [desc |-> NoText]],
                user |-> IF known = {} THEN Empty
                         ELSE InsertNewUser(Empty, 1, "first", "x", "user"),
                coll |-> Empty, cmd |-> Empty, tune |-> Empty, alog |-> Empty,
                data |-> NoData, tdata |-> Empty]
    BY DEF Init
  <2>2. known \in SUBSET Ips
    BY <1>1
  <2> QED
    BY <2>1, <2>2, InitialTables
<1>3. ReqInv
  <2>1. req = [c \in Clients |-> NoRequest]
    BY DEF Init
  <2>2. DOMAIN NoRequest = ReqRow /\ NoRequest.calls = <<>> /\ NoRequest.seen = <<>>
        /\ NoRequest.id = -1
    BY DEF NoRequest, ReqRow
  <2>3. Placed(<<>>, -1, db)
    BY DEF Placed
  <2>4. <<>> \in Seq(AnalysisCalls) /\ <<>> \in Seq(OtherCalls)
        /\ <<>> \in Seq(AnalysisCalls \cup OtherCalls)
    OBVIOUS
  <2>5. \A c : RequestOK(c, NoRequest, db)
    BY <2>2, <2>3, <2>4 DEF RequestOK, Known
  <2> QED
    BY <2>1, <2>5 DEF ReqInv
<1>4. AnInv
  <2>1. an = [a \in Analyses |-> NewAnalysis]
    BY DEF Init
  <2>2. DOMAIN NewAnalysis = AnRow
    BY Zenon DEF NewAnalysis, AnRow
  <2>3. AnalysisOK(NewAnalysis, db)
    BY <2>2 DEF NewAnalysis, AnalysisOK, Known
  <2> QED
    BY <2>1, <2>3 DEF AnInv
<1>5. TnInv
  BY DEF Init, TnInv
<1>6. ViewInv
  BY DEF Init, ViewInv
<1> QED
  BY <1>1, <1>2, <1>3, <1>4, <1>5, <1>6 DEF UiInv

\* Every step keeps the invariant, and takes nothing back.
LEMMA NextInv == UiInv /\ [Next]_vars => UiInv' /\ (db' = db \/ Later(db, db'))
<1> SUFFICES ASSUME UiInv, [Next]_vars PROVE UiInv' /\ (db' = db \/ Later(db, db'))
  OBVIOUS
<1>1. work.analyses \subseteq Analyses
  BY UiAssumption DEF UiInv
<1>2. CASE UNCHANGED vars
  BY <1>2 DEF vars, UiInv, ReqInv, AnInv, TnInv, ViewInv
<1>3. ASSUME NEW c \in Clients, OpenSession(c)
      PROVE  UiInv' /\ Later(db, db')
  BY <1>3, OpenStep
<1>4. ASSUME NEW c \in Clients, CommitSession(c)
      PROVE  UiInv' /\ Later(db, db')
  BY <1>4, CommitStep
<1>5. ASSUME NEW a \in work.analyses, AnalysisStep(a) \/ AnalysisFails(a)
      PROVE  UiInv' /\ db' = db
  <2>1. a \in Analyses
    BY <1>1
  <2> QED
    BY <1>5, <2>1, QuietSteps, SendSteps DEF AnalysisStep
<1>6. ASSUME NEW t \in Tunings, TuningPut(t)
      PROVE  UiInv' /\ db' = db
  BY <1>6, TuningStep
<1>7. ASSUME NEW w \in work.webs, WebRequest(w)
      PROVE  UiInv' /\ db' = db
  BY <1>7, WebStep
<1>8. CASE Poll
  BY <1>8, PollStep
<1> QED
  BY <1>2, <1>3, <1>4, <1>5, <1>6, <1>7, <1>8 DEF Next

LEMMA Always == Spec => []UiInv
<1>1. Init => UiInv
  BY InitInv
<1>2. UiInv /\ [Next]_vars => UiInv'
  BY NextInv
<1> QED
  BY <1>1, <1>2, PTL DEF Spec

-----------------------------------------------------------------------------
(* The theorems                                                            *)

(* The tables always have the types their code gives them: ids are         *)
(* positive, the rows of analysis_data and analysis_log belong to          *)
(* collections, and only a request has a session open (tables.py).         *)
THEOREM Types == Spec => []TypeOK
<1>1. UiInv => TypeOK
  <2> SUFFICES ASSUME UiInv PROVE TypeOK
    OBVIOUS
  <2>1. /\ DOMAIN db.coll \subseteq Nat \ {0} /\ DOMAIN db.tune \subseteq Nat \ {0}
        /\ DOMAIN db.cmd \subseteq Nat \ {0} /\ DOMAIN db.user \subseteq Nat
    BY DEF UiInv, Good, Read, CollOK, TuneOK, CmdOK, UserOK, Ids, Bounded
  <2>2. \A k \in DOMAIN db.ips : k[1] \in Nat /\ k[2] \in Ips
    BY DEF UiInv, Good, Read, IpsOK
  <2>3. \A c \in DOMAIN db.coll :
          /\ db.coll[c].status \in {"running", "finished"}
          /\ db.coll[c].workload \in {Null, NoText, "w"}
          /\ db.coll[c].total \in Nat \cup {NoNumber}
    BY DEF UiInv, Good, Read, CollOK
  <2>4. \A k \in DOMAIN db.data.rows \cup DOMAIN db.alog :
          k[1] \in DOMAIN db.coll /\ k[2] \in Nat \ {0}
    BY DEF UiInv, Good, Read, DataOK, LogOK, Keyed
  <2>5. \A c \in Clients : Idle(c) => req[c].seen = <<>>
    BY DEF UiInv, ReqInv, RequestOK, Idle
  <2> QED
    BY <2>1, <2>2, <2>3, <2>4, <2>5 DEF TypeOK
<1> QED
  BY <1>1, Always, PTL

(* Each analysis and each tuning recorded has exactly one command and each *)
(* command its run, however many sessions took the same id                 *)
(* (add_new_collection, add_new_tuning).                                   *)
THEOREM OneCommand == Spec => []OneCommandPerRun
<1>1. UiInv => OneCommandPerRun
  <2> SUFFICES ASSUME UiInv PROVE OneCommandPerRun
    OBVIOUS
  <2>1. Linked(db.coll, db.tune, db.cmd)
    BY DEF UiInv, Good
  <2>2. \A k : Cardinality({k}) = 1
    BY FS_Singleton
  <2>3. \A c \in DOMAIN db.coll : Cardinality(CommandOf(db.cmd, c, "analysis")) = 1
    <3> SUFFICES ASSUME NEW c \in DOMAIN db.coll
                 PROVE  Cardinality(CommandOf(db.cmd, c, "analysis")) = 1
      OBVIOUS
    <3>1. PICK k \in DOMAIN db.cmd : CommandOf(db.cmd, c, "analysis") = {k}
      BY <2>1 DEF Linked
    <3> QED
      BY <2>2, <3>1
  <2>4. \A t \in DOMAIN db.tune : Cardinality(CommandOf(db.cmd, t, "tuning")) = 1
    <3> SUFFICES ASSUME NEW t \in DOMAIN db.tune
                 PROVE  Cardinality(CommandOf(db.cmd, t, "tuning")) = 1
      OBVIOUS
    <3>1. PICK k \in DOMAIN db.cmd : CommandOf(db.cmd, t, "tuning") = {k}
      BY <2>1 DEF Linked
    <3> QED
      BY <2>2, <3>1
  <2> QED
    BY <2>1, <2>3, <2>4 DEF OneCommandPerRun, Linked
<1> QED
  BY <1>1, Always, PTL

(* No two accounts have one email and the administrator is account 0, for  *)
(* any number of sessions that add accounts (create_user, create_admin).   *)
THEOREM EmailUnique == Spec => []UniqueEmail
<1>1. UiInv => UniqueEmail
  BY DEF UiInv, Good, Read, UserOK, UniqueEmail
<1> QED
  BY <1>1, Always, PTL

(* The lines a viewer is shown are the log so far, whatever the size of a  *)
(* page and however many lines are written between two polls               *)
(* (get_analysis_log_dirs).                                                *)
THEOREM LogExact == Spec => []LogReaderExact
<1>1. UiInv => LogReaderExact
  BY DEF UiInv, ViewInv, LogReaderExact
<1> QED
  BY <1>1, Always, PTL

(* A finished collection stays finished and its total_round never falls,   *)
(* whichever of its two threads and of the web users writes last           *)
(* (change_collection_status).                                             *)
THEOREM TotalsOnlyGrow == Spec => TotalGrows
<1> DEFINE A == \A c \in DOMAIN db.coll :
                  /\ db'.coll[c].total >= db.coll[c].total
                  /\ db.coll[c].status = "finished" => db'.coll[c].status = "finished"
<1>1. UiInv /\ [Next]_vars => [A]_db
  <2> SUFFICES ASSUME UiInv, [Next]_vars, db' # db PROVE A
    OBVIOUS
  <2>1. Later(db, db')
    BY NextInv
  <2> QED
    BY <2>1 DEF Later
<1> QED
  BY <1>1, Always, PTL DEF Spec, TotalGrows
=============================================================================
