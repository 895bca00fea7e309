----------------------------- MODULE Operations -----------------------------
(***************************************************************************)
(* The requests and the replies of the protocol 37 (client/network/       *)
(* protocol37/operations) and those of protocol 33 that differ (transport/ *)
(* binary/protocol33/operations).  An operation is a record: `op', its     *)
(* opCode; `head', whether writeHeader() writes its beginning; `writer',   *)
(* the sequence <<type, value>> of what its writer() writes after it;      *)
(* `answered', whether its reader() calls readStatus(); and `reader', the  *)
(* entries it appends to readOps after those of readStatus().  Values that *)
(* no property tells apart are 0.                                          *)
(***************************************************************************)
EXTENDS Integers, Sequences, SequencesExt, TLC

(* An entry of readOps: a type, the field it fills, the field that counts  *)
(* the items of an array, the entries of one item, and the callback.       *)
Call0 == [n |-> "none"]
RdCb(t, f, c) == [k |-> t, f |-> f, n |-> "", item |-> <<>>, cb |-> c]
Rd(t, f) == RdCb(t, f, Call0)
Arr(f, n, item) == [k |-> "Array", f |-> f, n |-> n, item |-> item, cb |-> Call0]
Fn(c) == RdCb("fn", "", c)

V(t, n) == <<t, <<n>>>>
W(t) == <<t, IF t \in {"Bytes", "String"} THEN <<>> ELSE <<0>>>>
Ws(ts) == [i \in 1..Len(ts) |-> W(ts[i])]
Op(op, writer, reader) ==
    [op |-> op, head |-> TRUE, answered |-> TRUE, writer |-> writer, reader |-> reader]

(* JavaScript's a || b and a != null ? a : b, Unset standing for undefined *)
Unset == -9
Or(a, b) == IF a \in {0, Unset} THEN b ELSE a
IfSet(a, b) == IF a = Unset THEN b ELSE a

Times(n, s) == FlattenSeq([i \in 1..n |-> s])

(* ------------------------------- server -------------------------------- *)
Connect == [op |-> 2, head |-> FALSE, answered |-> TRUE,
            writer |-> <<V("Byte", 2), V("Int", -1), W("Bytes"), W("String"), W("String")>>,
            reader |-> <<Rd("Int", "sessionId"), Rd("Bytes", "token")>>]
ConfigGet == Op(70, Ws(<<"String">>), <<Rd("String", "value")>>)
ConfigSet == Op(71, Ws(<<"String", "String">>), <<Fn([n |-> "success"])>>)
ConfigList == Op(72, <<>>, <<Rd("Short", "total"),
                 Arr("items", "total", <<Rd("String", "key"), Rd("String", "value")>>)>>)

(* ------------------------------- database ------------------------------ *)
DbOpen == [op |-> 3, head |-> FALSE, answered |-> TRUE,
           writer |-> <<V("Byte", 3), V("Int", -1), W("Bytes")>> \o Ws(<<"String", "String", "String">>),
           reader |-> <<Rd("Int", "sessionId"), Rd("Bytes", "token")>>]
DbCreate == Op(4, Ws(<<"String", "String", "String", "String">>), <<>>)
DbClose == [Op(5, <<>>, <<>>) EXCEPT !.answered = FALSE]
DbExists == Op(6, Ws(<<"String", "String">>), <<Rd("Byte", "exists")>>)
DbDelete == Op(7, Ws(<<"String", "String">>), <<>>)
DbSize == Op(8, <<>>, <<Rd("Long", "size")>>)
DbCountRecords == Op(9, <<>>, <<Rd("Long", "count")>>)
DbList == Op(74, <<>>, <<Rd("Bytes", "databases")>>)
DbFreeze == Op(94, Ws(<<"String", "String">>), <<>>)
DbRelease == Op(95, Ws(<<"String", "String">>), <<>>)
DbReload == Op(73, <<>>,
    <<Rd("String", "dateFormat"), Rd("String", "dateTimeFormat"), Rd("String", "name"),
      Rd("Int", "version"), Rd("String", "directory"), Rd("Int", "totalProperties"),
      Arr("properties", "totalProperties", <<Rd("String", "name"), Rd("String", "value")>>),
      Rd("RecordId", "schemaRecordId"), Rd("RecordId", "indexMgrRecordId"),
      Rd("String", "clusterSelection"), Rd("String", "conflictStrategy"),
      Rd("Boolean", "validationEnabled"), Rd("String", "localeLanguage"),
      Rd("Int", "minimumClusters"), Rd("Boolean", "strictSql"), Rd("String", "charset"),
      Rd("String", "timeZone"), Rd("String", "localeCountry"), Rd("String", "recordSerializer"),
      Rd("Int", "recordSerializerVersion"), Rd("Int", "binaryFormatVersion"),
      Rd("Int", "totalClusters"),
      Arr("clusters", "totalClusters", <<Rd("Int", "id"), Rd("String", "name")>>)>>)

(* ------------------------------- clusters ------------------------------ *)
DataClusterAdd(id) == Op(10, <<W("String"), V("Short", Or(id, -1))>>, <<Rd("Short", "id")>>)
DataClusterDrop == Op(11, Ws(<<"Short">>), <<Rd("Byte", "success")>>)
DataClusterCount(ids) == Op(12, <<V("Short", ids)>> \o Times(ids, Ws(<<"Short">>)) \o Ws(<<"Byte">>),
                            <<Rd("Long", "count")>>)
DataClusterDataRange == Op(13, Ws(<<"Short">>), <<Rd("Long", "begin"), Rd("Long", "end")>>)

(* ------------------------------- records ------------------------------- *)
(* d: what the caller gave, [rid, cluster, position, version, recVersion], *)
(* rid being the @rid of the record and recVersion its @version            *)
TargetCluster(d) == IF d.rid = <<>> THEN d.cluster ELSE Or(d.cluster, d.rid[1])
TargetPosition(d) == IF d.rid = <<>> THEN d.position ELSE Or(d.position, d.rid[2])
TargetVersion(d) == IfSet(d.version, IfSet(d.recVersion, -1))
Target(d) == <<V("Short", TargetCluster(d)), V("Long", TargetPosition(d))>>

Changes == <<Rd("Int", "totalChanges"),
             Arr("changes", "totalChanges",
                 <<Rd("Long", "uuidHigh"), Rd("Long", "uuidLow"), Rd("Long", "fileId"),
                   Rd("Long", "pageIndex"), Rd("Int", "pageOffset")>>)>>

RecordCreate(d) == Op(31, <<V("Short", Or(d.cluster, IF d.rid = <<>> THEN -1 ELSE d.rid[1]))>>
                            \o Ws(<<"Bytes", "Byte", "Byte">>),
                      <<Rd("Short", "cluster"), Rd("Long", "position"), Rd("Int", "version")>> \o Changes)
RecordUpdate(d) == Op(32, Target(d) \o Ws(<<"Boolean", "Bytes">>) \o <<V("Int", TargetVersion(d))>>
                            \o Ws(<<"Byte", "Byte">>), <<Rd("Int", "version")>> \o Changes)
RecordDelete(d) == Op(33, Target(d) \o <<V("Int", TargetVersion(d)), W("Byte")>>,
                      <<Rd("Byte", "success")>>)
RecordCleanOut(d) == Op(38, Target(d) \o <<V("Int", Or(d.version, -1)), W("Boolean")>>,
                        <<Rd("Boolean", "success")>>)
RecordMetadata(d) == Op(29, Target(d),
                        <<Rd("Short", "cluster"), Rd("Long", "position"), Rd("Int", "version")>>)
RecordLoad(d) == Op(30, <<V("Short", d.cluster), V("Long", d.position)>> \o Ws(<<"String", "Byte", "Byte">>),
                    <<Fn([n |-> "load.begin"])>>)

(* -------------------------- queries and live ones ---------------------- *)
Query == Op(45, Ws(<<"String", "String", "Byte", "Int", "String", "Bytes", "Boolean">>),
            <<Fn([n |-> "resultset.begin"])>>)
QueryNext == Op(47, Ws(<<"String", "Int">>), <<Fn([n |-> "resultset.begin"])>>)
QueryClose == Op(46, Ws(<<"String">>), <<>>)
SubscribePush == Op(100, <<>>, <<>>)
SubscribeDistributed == Op(100, Ws(<<"Byte">>), <<>>)
SubscribeLive == Op(100, Ws(<<"Byte", "String", "Bytes", "Boolean">>), <<Rd("Int", "monitorId")>>)
UnsubscribeLive == Op(101, Ws(<<"Byte", "Int">>), <<>>)

(* ----------------------------- transactions ---------------------------- *)
(* The entries of a request are the record ids of its creates, updates and *)
(* deletes: each begins with a 1 and the kind, a 0 follows the last.       *)
Entry(kind, rid) == <<V("Byte", 1), V("Byte", kind), V("Short", rid[1]), V("Long", rid[2]), W("Byte")>>
WriteCreate(rid) == Entry(3, rid) \o Ws(<<"Bytes">>)
WriteUpdate(rid) == Entry(1, rid) \o Ws(<<"Int", "Bytes", "Boolean">>)
WriteDelete(rid) == Entry(2, rid) \o Ws(<<"Int">>)

WriteRecords(tx) ==
    FlattenSeq([i \in 1..Len(tx.creates) |-> WriteCreate(tx.creates[i])])
    \o FlattenSeq([i \in 1..Len(tx.updates) |-> WriteUpdate(tx.updates[i])])
    \o FlattenSeq([i \in 1..Len(tx.deletes) |-> WriteDelete(tx.deletes[i])])
    \o <<V("Byte", 0)>>

\* Mutant of CommitWriter: deletes alone are no content.
CommitWriterOfWrites(tx) ==
    LET content == Len(tx.creates) + Len(tx.updates) > 0
    IN  <<W("Int"), V("Byte", IF content THEN 1 ELSE 0), W("Byte")>>
        \o WriteRecords(tx) \o Ws(<<"String">>)
CommitWriter(tx) ==
    LET content == Len(tx.creates) + Len(tx.updates) + Len(tx.deletes) > 0
    IN  <<W("Int"), V("Byte", IF content THEN 1 ELSE 0), W("Byte")>>
        \o WriteRecords(tx) \o Ws(<<"String">>)

ReadRecords ==
    <<Rd("Int", "totalCreated"),
      Arr("created", "totalCreated", <<Rd("Short", "tmpCluster"), Rd("Long", "tmpPosition"),
          Rd("Short", "cluster"), Rd("Long", "position"), Rd("Int", "version")>>),
      Rd("Int", "totalUpdated"),
      Arr("updated", "totalUpdated", <<Rd("Short", "cluster"), Rd("Long", "position"), Rd("Int", "version")>>),
      Rd("Int", "totalDeleted"),
      Arr("deleted", "totalDeleted", <<Rd("Short", "cluster"), Rd("Long", "position")>>)>>

ReadUpdateRids ==
    <<Rd("Int", "totalUpdated"),
      Arr("updated", "totalUpdated", <<Rd("Short", "tmpCluster"), Rd("Long", "tmpPosition"),
          Rd("Short", "cluster"), Rd("Long", "position")>>)>>

TxCommit(tx) == Op(60, CommitWriter(tx), ReadRecords \o Changes)
TxBegin(tx) == Op(61, CommitWriter(tx), <<Rd("Int", "txId")>> \o ReadUpdateRids)
TxRollback == Op(64, Ws(<<"Int">>), <<>>)
RecordBatch(tx) == Op(35, Ws(<<"Int">>) \o WriteRecords(tx), <<Rd("Int", "txId")>> \o ReadRecords)

(* ------------------------------ protocol 33 ---------------------------- *)
Clusters33 == <<Rd("Short", "totalClusters"),
                Arr("clusters", "totalClusters", <<Rd("String", "name"), Rd("Short", "id")>>)>>
Login33 == Ws(<<"String", "String", "Short", "String", "String", "Boolean">>)

Connect33 == [op |-> 2, head |-> FALSE, answered |-> TRUE,
              writer |-> Ws(<<"Byte", "Int">>) \o Login33 \o Ws(<<"String", "String">>),
              reader |-> <<Rd("Int", "sessionId"), Rd("Bytes", "token")>>]
DbOpen33 == [op |-> 3, head |-> FALSE, answered |-> TRUE,
             writer |-> Ws(<<"Byte", "Int">>) \o Login33 \o Ws(<<"String", "String", "String">>),
             reader |-> <<Rd("Int", "sessionId"), Rd("Bytes", "token")>> \o Clusters33
                        \o <<Rd("Bytes", "serverCluster"), Rd("String", "release")>>]
DbReload33 == Op(73, <<>>, Clusters33)
TxCommit33(tx) ==
    Op(60, Ws(<<"Int", "Byte">>) \o WriteRecords(tx) \o Ws(<<"String">>),
       <<Rd("Int", "totalCreated"),
         Arr("created", "totalCreated", <<Rd("Short", "tmpCluster"), Rd("Long", "tmpPosition"),
             Rd("Short", "cluster"), Rd("Long", "position")>>),
         Rd("Int", "totalUpdated"),
         Arr("updated", "totalUpdated", <<Rd("Short", "cluster"), Rd("Long", "position"), Rd("Int", "version")>>)>>
       \o Changes)
Command33 == Op(41, Ws(<<"Char", "Bytes">>), <<Fn([n |-> "command.begin"])>>)
DbCreate33 == Op(4, Ws(<<"String", "String", "String">>), <<>>)

(* transport/binary/protocol33/operations has these files of its own       *)
ConfigGet33 == ConfigGet
ConfigSet33 == ConfigSet
ConfigList33 == ConfigList
DbClose33 == DbClose
DbExists33 == DbExists
DbDelete33 == DbDelete
DbSize33 == DbSize
DbCountRecords33 == DbCountRecords
DbList33 == DbList
DbFreeze33 == DbFreeze
DbRelease33 == DbRelease
DataClusterAdd33(id) == DataClusterAdd(id)
DataClusterDrop33 == DataClusterDrop
DataClusterCount33(ids) == DataClusterCount(ids)
DataClusterDataRange33 == DataClusterDataRange
RecordCreate33(d) == RecordCreate(d)
RecordUpdate33(d) == RecordUpdate(d)
RecordDelete33(d) == RecordDelete(d)
RecordCleanOut33(d) == RecordCleanOut(d)
RecordMetadata33(d) == RecordMetadata(d)
RecordLoad33(d) == RecordLoad(d)

(* ------------------ operations/index.js of both protocols -------------- *)
Operations37(d, tx) ==
    "connect" :> Connect @@ "db-open" :> DbOpen @@ "db-create" :> DbCreate @@ "db-close" :> DbClose
    @@ "db-exists" :> DbExists @@ "db-delete" :> DbDelete @@ "db-size" :> DbSize @@ "db-list" :> DbList
    @@ "db-countrecords" :> DbCountRecords @@ "db-reload" :> DbReload @@ "db-freeze" :> DbFreeze
    @@ "db-release" :> DbRelease @@ "config-get" :> ConfigGet @@ "config-set" :> ConfigSet
    @@ "config-list" :> ConfigList @@ "datacluster-add" :> DataClusterAdd(d.cluster)
    @@ "datacluster-drop" :> DataClusterDrop @@ "datacluster-count" :> DataClusterCount(2)
    @@ "datacluster-datarange" :> DataClusterDataRange @@ "record-create" :> RecordCreate(d)
    @@ "record-update" :> RecordUpdate(d) @@ "record-delete" :> RecordDelete(d)
    @@ "record-clean-out" :> RecordCleanOut(d) @@ "record-metadata" :> RecordMetadata(d)
    @@ "record-load" :> RecordLoad(d) @@ "record-batch" :> RecordBatch(tx)
    @@ "query" :> Query @@ "query-next" :> QueryNext @@ "query-close" :> QueryClose
    @@ "tx-commit" :> TxCommit(tx) @@ "tx-begin" :> TxBegin(tx) @@ "tx-rollback" :> TxRollback
    @@ "subscribe-push" :> SubscribePush @@ "subscribe-push-distributed" :> SubscribeDistributed
    @@ "subscribe-live-query" :> SubscribeLive @@ "unsubscribe-live-query" :> UnsubscribeLive
Operations33(d, tx) ==
    "connect" :> Connect33 @@ "db-open" :> DbOpen33 @@ "db-create" :> DbCreate33 @@ "db-close" :> DbClose33
    @@ "db-exists" :> DbExists33 @@ "db-delete" :> DbDelete33 @@ "db-size" :> DbSize33 @@ "db-list" :> DbList33
    @@ "db-countrecords" :> DbCountRecords33 @@ "db-reload" :> DbReload33 @@ "db-freeze" :> DbFreeze33
    @@ "db-release" :> DbRelease33 @@ "config-get" :> ConfigGet33 @@ "config-set" :> ConfigSet33
    @@ "config-list" :> ConfigList33 @@ "datacluster-add" :> DataClusterAdd33(d.cluster)
    @@ "datacluster-drop" :> DataClusterDrop33 @@ "datacluster-count" :> DataClusterCount33(2)
    @@ "datacluster-datarange" :> DataClusterDataRange33 @@ "record-create" :> RecordCreate33(d)
    @@ "record-update" :> RecordUpdate33(d) @@ "record-delete" :> RecordDelete33(d)
    @@ "record-clean-out" :> RecordCleanOut33(d) @@ "record-metadata" :> RecordMetadata33(d)
    @@ "record-load" :> RecordLoad33(d) @@ "command" :> Command33
    @@ "tx-commit" :> TxCommit33(tx)
=============================================================================
