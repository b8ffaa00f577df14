------------------------------- MODULE Audit -------------------------------
(***************************************************************************)
(* The audit sinks (internal/audit): Fanout.Record passes the event of a   *)
(* request to the JSONL file, to slog, and to an HTTP collector and a SQL  *)
(* database where they are configured, one after the other, and joins the  *)
(* errors.  Handlers record concurrently.  The file survives a crash of    *)
(* the machine as far as it was synced; the flag that the schema exists is *)
(* a plain field of the process.  A request has at most one event.         *)
(***************************************************************************)
EXTENDS HttpRequests, Integers, Sequences, Functions

VARIABLES sinks,      \* the optional sinks: "http", "sql"
          weak,       \* the sinks that may fail in this behaviour
          apc,        \* where the Record of a request is
          failed,     \* the sinks whose error Record has collected
          fmu,        \* JSONLLogger.mu
          file,       \* the pieces of the JSONL file: whole lines and torn ones
          synced,     \* how many of them are on disk for sure
          logged,     \* events emitted by slog
          collected,  \* events that the collector has
          ensured,    \* SQLSink.ensured
          table,      \* warden_audit exists
          rows        \* events in it

sinkVars  == <<fmu, file, synced, logged, collected, ensured, table, rows>>
auditVars == <<sinks, weak, apc, failed, sinkVars>>

Pieces   == [ev : Requests, whole : BOOLEAN]
Line(r)  == [ev |-> r, whole |-> TRUE]
Torn(r)  == [ev |-> r, whole |-> FALSE]

AuditInit(s, w) ==
  /\ sinks = s /\ weak = w
  /\ apc = [r \in Requests |-> "off"]
  /\ failed = [r \in Requests |-> {}]
  /\ fmu = Nobody /\ file = <<>> /\ synced = 0
  /\ logged = {} /\ collected = {} /\ rows = {}
  /\ ensured = FALSE /\ table \in IF "sql" \in s THEN BOOLEAN ELSE {FALSE}

AGoto(r, label) == apc' = [apc EXCEPT ![r] = label]
Fail(r, s) == s \in weak /\ failed' = [failed EXCEPT ![r] = @ \cup {s}]
Pass(r)    == UNCHANGED failed

-----------------------------------------------------------------------------
(* Fanout.Record.                                                          *)

\* Fanout.Record starts with the first sink of buildAudit.
RecordStarts(r) == AGoto(r, "file")

\* Order of buildAudit: file, slog, http, sql.
AfterHttp == IF "sql" \in sinks THEN "sql" ELSE "end"
AfterFile == IF "http" \in sinks THEN "http" ELSE AfterHttp

\* [mutant] the fanout stops at the first error.
FileDoneStops(r, ok) ==
  /\ fmu' = Nobody
  /\ logged' = IF ok THEN logged \cup {r} ELSE logged
  /\ AGoto(r, IF ok THEN AfterFile ELSE "end")

\* The deferred Close and Unlock; slog is next and cannot fail.
FileDone(r, ok) ==
  /\ fmu' = Nobody
  /\ logged' = logged \cup {r}
  /\ AGoto(r, AfterFile)

\* JSONLLogger.Record: lock, open, one write.  It may fail before or in the write.
FileWrite(r) ==
  /\ apc[r] = "file"
  /\ fmu = Nobody
  /\ \/ file' = Append(file, Line(r)) /\ fmu' = r /\ AGoto(r, "sync")
        /\ Pass(r) /\ UNCHANGED logged
     \/ file' \in {file, Append(file, Torn(r))} /\ Fail(r, "file") /\ FileDone(r, FALSE)
  /\ UNCHANGED <<sinks, weak, synced, collected, ensured, table, rows>>

\* [mutant] the line is acknowledged without fsync.
FileSyncSkipped(r) ==
  /\ apc[r] = "sync"
  /\ FileDone(r, TRUE)
  /\ UNCHANGED <<sinks, weak, failed, file, synced, collected, ensured, table, rows>>

\* f.Sync.
FileSync(r) ==
  /\ apc[r] = "sync"
  /\ \/ synced' = Len(file) /\ Pass(r) /\ FileDone(r, TRUE)
     \/ Fail(r, "file") /\ FileDone(r, FALSE) /\ UNCHANGED synced
  /\ UNCHANGED <<sinks, weak, file, collected, ensured, table, rows>>

\* HTTPSink.Record: an error says nothing of whether the collector has the event.
HttpPost(r) ==
  /\ apc[r] = "http"
  /\ \/ collected' = collected \cup {r} /\ Pass(r)
     \/ collected' \in {collected, collected \cup {r}} /\ Fail(r, "http")
  /\ AGoto(r, AfterHttp)
  /\ UNCHANGED <<sinks, weak, fmu, file, synced, logged, ensured, table, rows>>

\* [mutant] the flag is set before the statement has run.
SqlSchemaEarly(r) ==
  /\ apc[r] = "sql"
  /\ \/ ensured /\ AGoto(r, "insert") /\ Pass(r) /\ UNCHANGED <<ensured, table>>
     \/ ~ensured /\ ensured' = TRUE
        /\ \/ table' = TRUE /\ Pass(r) /\ AGoto(r, "insert")
           \/ table' \in {table, TRUE} /\ Fail(r, "sql") /\ AGoto(r, "end")
  /\ UNCHANGED <<sinks, weak, fmu, file, synced, logged, collected, rows>>

\* SQLSink.Record: the test of s.ensured races with its assignment in another
\* handler and may miss it.  CREATE TABLE IF NOT EXISTS may fail, or time out
\* although it took effect.
SqlSchema(r) ==
  /\ apc[r] = "sql"
  /\ \/ ensured /\ AGoto(r, "insert") /\ Pass(r) /\ UNCHANGED <<ensured, table>>
     \/ table' = TRUE /\ ensured' = TRUE /\ Pass(r) /\ AGoto(r, "insert")
     \/ table' \in {table, TRUE} /\ Fail(r, "sql") /\ AGoto(r, "end") /\ UNCHANGED ensured
  /\ UNCHANGED <<sinks, weak, fmu, file, synced, logged, collected, rows>>

\* The INSERT.
SqlInsert(r) ==
  /\ apc[r] = "insert"
  /\ \/ table /\ rows' = rows \cup {r} /\ Pass(r)
     \/ rows' \in {rows} \cup (IF table THEN {rows \cup {r}} ELSE {}) /\ Fail(r, "sql")
  /\ AGoto(r, "end")
  /\ UNCHANGED <<sinks, weak, fmu, file, synced, logged, collected, ensured, table>>

AuditStep(r) ==
  FileWrite(r) \/ FileSync(r) \/ HttpPost(r) \/ SqlSchema(r) \/ SqlInsert(r)

Recorded(r) == apc[r] = "end"

\* What the disk may hold after a crash of the machine: what was synced, and some
\* of the rest, the last piece perhaps torn.
AfterCrash ==
  UNION {{SubSeq(file, 1, n)} \cup
           (IF n > synced THEN {Append(SubSeq(file, 1, n - 1), Torn(file[n].ev))} ELSE {})
         : n \in synced .. Len(file)}

\* The process is gone, with the machine or alone; collector and database are not.
AuditCrash ==
  /\ file' \in AfterCrash /\ synced' = Len(file')
  /\ apc' = [r \in Requests |-> IF Recorded(r) THEN "end" ELSE "off"]
  /\ fmu' = Nobody /\ ensured' = FALSE
  /\ UNCHANGED <<sinks, weak, failed, logged, collected, table, rows>>

\* The sinks alone, with handlers that record at any time.
AuditNext ==
  \/ \E r \in Requests : \/ /\ apc[r] = "off" /\ RecordStarts(r)
                            /\ UNCHANGED <<sinks, weak, failed, sinkVars>>
                         \/ AuditStep(r)
  \/ AuditCrash

AuditStart == \E s \in SUBSET {"http", "sql"}, w \in SUBSET {"file", "http", "sql"} : AuditInit(s, w)
AuditSpec  == AuditStart /\ [][AuditNext]_auditVars

-----------------------------------------------------------------------------
(* Properties.                                                             *)

\* Every variable has its type; no more is synced than was written.
AuditTypeOK ==
  /\ sinks \subseteq {"http", "sql"} /\ weak \subseteq {"file", "http", "sql"}
  /\ apc \in [Requests -> {"off", "file", "sync", "http", "sql", "insert", "end"}]
  /\ failed \in [Requests -> SUBSET weak]
  /\ fmu \in Requests \cup {Nobody}
  /\ file \in Seq(Pieces) /\ synced \in 0 .. Len(file)
  /\ {logged, collected, rows} \subseteq SUBSET Requests
  /\ ensured \in BOOLEAN /\ table \in BOOLEAN

\* "fsyncs so a crash does not lose the last event" (jsonl.go): when Record has
\* returned without an error of the file, the whole line is in the file, whatever
\* crashes come later and whatever other writers do.
AckedIsDurable ==
  \A r \in Requests :
    Recorded(r) /\ "file" \notin failed[r] => Line(r) \in Range(file)

\* "Fanout writes every event to all sinks" (fanout.go): whatever fails, when
\* Record returns slog has emitted the event and every other configured sink has
\* it or has reported an error.
FanoutReachesAll ==
  \A r \in Requests : Recorded(r) =>
    /\ r \in logged
    /\ "http" \in sinks => r \in collected \/ "http" \in failed[r]
    /\ "sql" \in sinks => r \in rows \/ "sql" \in failed[r]

\* The deferred Unlock (jsonl.go): the mutex of the file is held only by a Record
\* that is about to sync, whatever failed before and whoever crashed.
FileLockHeld == fmu # Nobody => apc[fmu] = "sync"

\* The unsynchronised flag is harmless: whoever skips the DDL, or has run it,
\* inserts into a table that exists.
SchemaFirst == \A r \in Requests : apc[r] = "insert" => table
=============================================================================
