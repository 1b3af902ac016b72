------------------------------- MODULE Ingest -------------------------------
(***************************************************************************)
(* How recordings and knowledge-base documents get in and out: the bucket  *)
(* and the tables are written by separate steps of a request, and only the *)
(* table is transactional.  Sources under backend/app: api/calls.py,       *)
(* api/uploads.py, api/kb.py, storage.py.  What happens to a call once it  *)
(* is registered is in JobQueue and CallArtifacts: here its job is open or *)
(* finished.  Left out: the objects clients write themselves, under the    *)
(* keys they are given, and the text extracted from documents.             *)
(***************************************************************************)
EXTENDS Tenants, Sequences

CONSTANTS
  Cap,         \* MAX_INFLIGHT_PER_PORTFOLIO
  MaxFiles,    \* MAX_UPLOAD_FILES
  MaxKeys,     \* bound: object keys issued
  MaxTimes     \* bound: rows registered for one presigned key

ASSUME IngestAssumption ==
  /\ {Cap, MaxFiles, MaxKeys, MaxTimes} \subseteq Nat
  /\ MaxTimes >= 1

VARIABLES
  keys,        \* every key issued: its place, how it was issued, rows registered for it
  bucket,      \* keys with an object the API stored
  calls,       \* calls by <<key, registration>>: whether the job is still open
  docs,        \* documents by <<key, registration>>
  purged       \* rows some request has begun to delete (kept for UploadedKept)

ingestVars == <<keys, bucket, calls, docs, purged>>

Issued == DOMAIN keys
KeyOf(c) == keys[c[1]]
\* recording_key and kb_key: an object lies under its folder, or under its portfolio.
CallsOf(f) == {c \in DOMAIN calls : KeyOf(c).under = f}
DocsOf(p) == {d \in docs : KeyOf(d).under = p}
RegisteredIn(p) == {c \in DOMAIN calls : KeyOf(c).portfolio = p}

IngestTypeOK ==
  /\ Len(keys) <= MaxKeys
  /\ \A k \in Issued : keys[k].via \in {"proxy", "presigned"}
  /\ bucket \subseteq Issued /\ purged \subseteq DOMAIN calls \cup docs
  /\ \A c \in DOMAIN calls : /\ calls[c] \in BOOLEAN /\ c[1] \in Issued
                             /\ home[KeyOf(c).under] = KeyOf(c).portfolio
  /\ \A d \in docs : d[1] \in Issued /\ KeyOf(d).under \in Open

IngestInit == keys = <<>> /\ bucket = {} /\ calls = <<>> /\ docs = {} /\ purged = {}

Key(under, p, via) == [under |-> under, portfolio |-> p, via |-> via, times |-> 0]
KbKey(p, via) == Key(p, p, via)

\* The calls with those of R added, their jobs open.
With(R) == [c \in DOMAIN calls \cup R |-> IF c \in R THEN TRUE ELSE calls[c]]
Without(R) == [c \in DOMAIN calls \ R |-> calls[c]]
\* The next row of each key of K, and the keys once those rows are registered.
RowsFor(K) == {<<k, keys[k].times + 1>> : k \in K}
Counted(K) == [k \in Issued |-> IF k \in K THEN [keys[k] EXCEPT !.times = @ + 1] ELSE keys[k]]

-----------------------------------------------------------------------------
(***************************************************************************)
(* The cap on recordings in flight.                                        *)
(***************************************************************************)

\* _inflight_count.
InFlight(p) == Cardinality({c \in RegisteredIn(p) : calls[c]})

\* Fault: the comparison lets one more in.
OneTooMany(p, n) == n <= Cap - InFlight(p) + 1

\* assert_inflight_quota: n more recordings fit, as the count stands now.
InflightQuota(p, n) == n <= Cap - InFlight(p)

-----------------------------------------------------------------------------
(***************************************************************************)
(* Recordings.                                                             *)
(***************************************************************************)

\* presign_uploads: the client is given a key and writes the object itself.
Presign(f) ==
  /\ Len(keys) < MaxKeys
  /\ keys' = Append(keys, Key(f, home[f], "presigned"))
  /\ UNCHANGED <<tenantVars, desk, bucket, calls, docs, purged>>

\* register_calls up to the cap: keys under the folder, checked by their prefix.
Register(s, f, K) ==
  /\ \A k \in K : keys[k].under = f /\ keys[k].via = "presigned" /\ keys[k].times < MaxTimes
  /\ InflightQuota(home[f], Cardinality(K))
  /\ Take(s, [on |-> "upload", under |-> f, portfolio |-> home[f], left |-> 0, got |-> K])
  /\ UNCHANGED <<tenantVars, ingestVars>>

\* upload_recordings up to the cap.
Upload(s, f, n) ==
  /\ n \in 1 .. MaxFiles
  /\ InflightQuota(home[f], n)
  /\ Take(s, [on |-> "upload", under |-> f, portfolio |-> home[f], left |-> n, got |-> {}])
  /\ UNCHANGED <<tenantVars, ingestVars>>

\* One turn of its loop: the next file is stored under a new key.
StoreRecording(s) ==
  /\ Doing(s, "upload") /\ desk[s].left > 0 /\ Len(keys) < MaxKeys
  /\ keys' = Append(keys, Key(desk[s].under, desk[s].portfolio, "proxy"))
  /\ bucket' = bucket \cup {Len(keys')}
  /\ desk' = [desk EXCEPT ![s].left = @ - 1, ![s].got = @ \cup {Len(keys')}]
  /\ UNCHANGED <<tenantVars, calls, docs, purged>>

\* Fault: the batch is registered while files are still to be stored.
EarlyRegister(s) ==
  /\ Doing(s, "upload") /\ Len(keys) + desk[s].left <= MaxKeys /\ Leave(s)
  /\ LET new == {Len(keys) + i : i \in 1 .. desk[s].left}
     IN  /\ keys' = keys \o [i \in 1 .. desk[s].left |->
                               [Key(desk[s].under, desk[s].portfolio, "proxy") EXCEPT !.times = 1]]
         /\ calls' = With({<<k, 1>> : k \in new})
  /\ UNCHANGED <<tenantVars, bucket, docs, purged>>

\* register_keys: a call and its job for each key, in one transaction.  It fails when the
\* folder has gone: its foreign key.
RegisterKeys(s) ==
  /\ Doing(s, "upload") /\ desk[s].left = 0 /\ Leave(s)
  /\ LET K == IF desk[s].under \in Folders THEN desk[s].got ELSE {}
     IN  keys' = Counted(K) /\ calls' = With(RowsFor(K))
  /\ UNCHANGED <<tenantVars, bucket, docs, purged>>

\* The job of a call is done or has failed (JobQueue).
FinishJob(c) ==
  /\ calls[c]
  /\ calls' = [calls EXCEPT ![c] = FALSE]
  /\ UNCHANGED <<tenantVars, desk, keys, bucket, docs, purged>>

\* delete_call: its recording is deleted first.
DeleteCall(s, c) ==
  /\ Take(s, [on |-> "deleteCall", row |-> c])
  /\ bucket' = bucket \ {c[1]} /\ purged' = purged \cup {c}
  /\ UNCHANGED <<tenantVars, keys, calls, docs>>

\* Then its row; a row already gone fails the request, which changes nothing.
DropCall(s) ==
  /\ Doing(s, "deleteCall") /\ Leave(s)
  /\ calls' = Without({desk[s].row}) /\ purged' = purged \ {desk[s].row}
  /\ UNCHANGED <<tenantVars, keys, bucket, docs>>

\* delete_agent: the calls the folder has now are deleted, one recording after another...
DeleteFolder(s, f) ==
  /\ Take(s, [on |-> "deleteFolder", under |-> f, left |-> CallsOf(f)])
  /\ UNCHANGED <<tenantVars, ingestVars>>

PurgeNext(s, c) ==
  /\ Doing(s, "deleteFolder") /\ c \in desk[s].left
  /\ bucket' = bucket \ {c[1]} /\ purged' = purged \cup ({c} \cap DOMAIN calls)
  /\ desk' = [desk EXCEPT ![s].left = @ \ {c}]
  /\ UNCHANGED <<tenantVars, keys, calls, docs>>

-----------------------------------------------------------------------------
(***************************************************************************)
(* Documents.                                                              *)
(***************************************************************************)

\* presign_kb.
PresignKb(p) ==
  /\ Len(keys) < MaxKeys
  /\ keys' = Append(keys, KbKey(p, "presigned"))
  /\ UNCHANGED <<tenantVars, desk, bucket, calls, docs, purged>>

\* register_kb, which takes whatever the object gives, or nothing.
RegisterKb(k) ==
  /\ keys[k].under \in Open /\ keys[k].via = "presigned" /\ keys[k].times < MaxTimes
  /\ keys' = Counted({k}) /\ docs' = docs \cup RowsFor({k})
  /\ UNCHANGED <<tenantVars, desk, bucket, calls, purged>>

\* upload_kb: each file is stored, and all are registered together.
UploadKb(s, p, n) ==
  /\ n \in 1 .. MaxFiles
  /\ Take(s, [on |-> "uploadKb", under |-> p, left |-> n, got |-> {}])
  /\ UNCHANGED <<tenantVars, ingestVars>>

StoreDocument(s) ==
  /\ Doing(s, "uploadKb") /\ desk[s].left > 0 /\ Len(keys) < MaxKeys
  /\ keys' = Append(keys, KbKey(desk[s].under, "proxy"))
  /\ bucket' = bucket \cup {Len(keys')}
  /\ desk' = [desk EXCEPT ![s].left = @ - 1, ![s].got = @ \cup {Len(keys')}]
  /\ UNCHANGED <<tenantVars, calls, docs, purged>>

RegisterDocuments(s) ==
  /\ Doing(s, "uploadKb") /\ desk[s].left = 0 /\ Leave(s)
  /\ LET K == IF desk[s].under \in Open THEN desk[s].got ELSE {}
     IN  keys' = Counted(K) /\ docs' = docs \cup RowsFor(K)
  /\ UNCHANGED <<tenantVars, bucket, calls, purged>>

\* delete_kb: the object first, if storage answers, then the row.
DeleteKb(s, d, answers) ==
  /\ Take(s, [on |-> "deleteKb", row |-> d])
  /\ bucket' = IF answers THEN bucket \ {d[1]} ELSE bucket
  /\ purged' = purged \cup {d}
  /\ UNCHANGED <<tenantVars, keys, calls, docs>>

DropDocument(s) ==
  /\ Doing(s, "deleteKb") /\ Leave(s)
  /\ docs' = docs \ {desk[s].row} /\ purged' = purged \ {desk[s].row}
  /\ UNCHANGED <<tenantVars, keys, bucket, calls>>

-----------------------------------------------------------------------------
(***************************************************************************)
(* Properties.                                                             *)
(***************************************************************************)

\* Recordings a request that passed the cap has still to register.
Pending(s) == desk[s].left + Cardinality(desk[s].got)
Admitted(p) == {s \in Session : Doing(s, "upload") /\ desk[s].portfolio = p}
\* One element for each such recording: as many as Pending adds up to.
Awaited(p) == UNION {{s} \X (1 .. Pending(s)) : s \in Admitted(p)}

\* The cap is read before the uploads and nothing is held while they run, so requests that
\* overlap may each take the room the other counted on.  That is all they can take: what
\* is in flight or admitted in a portfolio never passes the cap once for each request that
\* is served at a time.
QuotaOvershoot ==
  \A p \in Portfolio :
    InFlight(p) + Cardinality(Awaited(p)) <= Cap * Cardinality(Session)

\* A call or a document whose file went through the API has its file in the bucket, at every
\* moment and wherever a request was cut short, unless some request began to delete it: the
\* rows are written after the files, and files are deleted for no other reason.
UploadedKept ==
  \A c \in DOMAIN calls \cup docs :
    KeyOf(c).via = "proxy" => c[1] \in bucket \/ c \in purged

=============================================================================
