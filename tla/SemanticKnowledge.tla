------------------------- MODULE SemanticKnowledge -------------------------
(***************************************************************************)
(* Records of one branch and the operations that move them between layers:   *)
(* runtime commits, `memory learn`, `memory promote` (semantic/learning.py), *)
(* `semantic prune | replace` (application/semantic_cleanup.py), and the     *)
(* sync of the JSONL files back into the store that learn, promote and       *)
(* `proposals apply` end with (application/branch_state.py).                 *)
(*                                                                         *)
(* A row is the payload of a record: `tag` is the record_stream written in   *)
(* the payload, or Nothing, and decides with `kind` in which stream the row  *)
(* is.  One semantic kind, "fact", stands for facts, decisions and contracts.*)
(***************************************************************************)
EXTENDS Naturals, FiniteSets

CONSTANTS Ids,          \* record ids, each used for one record
          Workers,      \* processes that run a command
          Nothing,      \* no row, no line, no tag, no kind
          MaxCommands   \* bound: commands ever started

ASSUME KnowledgeAssumption == MaxCommands \in Nat

Streams == {"decision_log", "events", "facts"}
Record == [tag : Streams \cup {Nothing}, kind : {"fact", Nothing},
           status : {"validated", "proposed"}]

VARIABLES
  rows,       \* the records table
  files,      \* the JSONL projections: stream -> id -> line
  revision,   \* the branch revision
  worker,     \* what each process is doing
  started,    \* commands started
  used,       \* ids ever given to a record
  gone,       \* history: ids a cleanup has removed
  disturbed   \* history: two commands overlapped, one died or lost its refresh

knowledgeVars == <<rows, files, revision, worker, started, used, gone, disturbed>>

Idle == [at |-> "idle", seen |-> {}, keep |-> {}, loaded |-> Nothing,
         expected |-> Nothing]

KnowledgeInit ==
  /\ rows = [i \in Ids |-> Nothing]
  /\ files = [s \in Streams |-> [i \in Ids |-> Nothing]]
  /\ revision = 0 /\ started = 0
  /\ worker = [w \in Workers |-> Idle]
  /\ used = {} /\ gone = {} /\ disturbed = FALSE

\* _infer_record_stream: the tag, else the semantic kind, else the log.
StreamOf(r) ==
  IF r.tag # Nothing THEN r.tag
  ELSE IF r.kind = "fact" THEN "facts" ELSE "decision_log"

InStream(table, s) == {i \in Ids : table[i] # Nothing /\ StreamOf(table[i]) = s}

Projection(table) ==
  [s \in Streams |-> [i \in Ids |-> IF i \in InStream(table, s) THEN table[i]
                                    ELSE Nothing]]
AddingProjection(table) ==
  [s \in Streams |-> [i \in Ids |-> IF i \in InStream(table, s) THEN table[i]
                                    ELSE files[s][i]]]
Written(table) == Projection(table)

Start(w, next) ==
  /\ worker[w].at = "idle" /\ started < MaxCommands
  /\ started' = started + 1
  /\ worker' = [worker EXCEPT ![w] = next]
  /\ disturbed' = (disturbed \/ \E v \in Workers \ {w} : worker[v].at # "idle")

Go(w, at) == worker' = [worker EXCEPT ![w].at = at]

(***************************************************************************)
(* Runtime commits: capture, checkpoint, register-step and the step commands *)
(***************************************************************************)
CommitRecord(w, i, stream, kind) ==
  /\ i \notin used /\ used' = used \cup {i}
  /\ stream = "facts" => kind = "fact"
  /\ Start(w, [Idle EXCEPT !.at = "refresh"])
  /\ rows' = [rows EXCEPT ![i] = [tag |-> stream, kind |-> kind,
                                  status |-> "validated"]]
  /\ revision' = revision + 1
  /\ UNCHANGED <<files, gone>>

\* refresh_branch_file_projections reads the store, then writes the files.
LoadForFiles(w) ==
  /\ worker[w].at = "refresh"
  /\ worker' = [worker EXCEPT ![w].at = "write", ![w].loaded = rows]
  /\ UNCHANGED <<rows, files, revision, started, used, gone, disturbed>>

WriteFiles(w) ==
  /\ worker[w].at = "write"
  /\ files' = Written(worker[w].loaded)
  /\ worker' = [worker EXCEPT ![w] = Idle]
  /\ UNCHANGED <<rows, revision, started, used, gone, disturbed>>

\* A failed refresh is a warning and a status "stale", not a failure.
RefreshFails(w) ==
  /\ worker[w].at \in {"refresh", "write"}
  /\ worker' = [worker EXCEPT ![w] = Idle]
  /\ disturbed' = TRUE
  /\ UNCHANGED <<rows, files, revision, started, used, gone>>

(***************************************************************************)
(* learn and promote write files and let the sync carry them to the store    *)
(***************************************************************************)
\* The candidate goes to the decision log under the id of its event.
Learn(w, i, kind, status, candidate) ==
  LET line == [tag |-> Nothing, kind |-> kind, status |-> status] IN
  /\ i \notin used /\ used' = used \cup {i}
  /\ Start(w, [Idle EXCEPT !.at = "sync log"])
  /\ files' = [files EXCEPT
       !["events"][i] = line,
       !["decision_log"][i] = IF candidate THEN [line EXCEPT !.kind = "fact"] ELSE @]
  /\ UNCHANGED <<rows, revision, gone>>

Candidates ==
  {i \in Ids : /\ files["facts"][i] = Nothing
               /\ \E s \in {"decision_log", "events"} :
                    /\ files[s][i] # Nothing
                    /\ files[s][i].status = "validated" /\ files[s][i].kind = "fact"}

\* The first file that has the record is the one that counts.
Validated(i) ==
  LET log == files["decision_log"][i]
  IN IF log # Nothing /\ log.status = "validated" /\ log.kind = "fact"
     THEN log ELSE files["events"][i]

\* The line is copied as it is, with the record_stream it has.
Promote(w) ==
  /\ Candidates # {}
  /\ Start(w, [Idle EXCEPT !.at = "sync log"])
  /\ files' = [files EXCEPT !["facts"] =
       [i \in Ids |-> IF i \in Candidates THEN Validated(i) ELSE @[i]]]
  /\ UNCHANGED <<rows, revision, used, gone>>

\* proposals apply ends with refresh_branch_state as well.
SyncOnly(w) ==
  /\ Start(w, [Idle EXCEPT !.at = "sync log"])
  /\ UNCHANGED <<rows, files, revision, used, gone>>

\* sync_branch_memory_to_store: every line of every file, log first; no revision.
SyncFile(w, from, stream, to) ==
  /\ worker[w].at = from
  /\ rows' = [i \in Ids |-> IF files[stream][i] # Nothing THEN files[stream][i]
                            ELSE rows[i]]
  /\ IF to = "idle" THEN worker' = [worker EXCEPT ![w] = Idle] ELSE Go(w, to)
  /\ UNCHANGED <<files, revision, started, used, gone, disturbed>>

Sync(w) == \/ SyncFile(w, "sync log", "decision_log", "sync events")
           \/ SyncFile(w, "sync events", "events", "sync facts")
           \/ SyncFile(w, "sync facts", "facts", "idle")

(***************************************************************************)
(* semantic prune | replace                                                  *)
(***************************************************************************)
\* Selected by kind, whatever the stream; proposed records are left alone.
Semantic == {i \in Ids : rows[i] # Nothing /\ rows[i].kind = "fact"
                         /\ rows[i].status = "validated"}

\* The records are loaded first, and the revision is read after them unless the
\* caller names the one it has seen.
BeginCleanup(w, keep, expected) ==
  /\ keep \subseteq Semantic
  /\ Start(w, [Idle EXCEPT !.at = "loaded", !.seen = Semantic, !.keep = keep,
                           !.loaded = rows, !.expected = expected])
  /\ UNCHANGED <<rows, files, revision, used, gone>>

ReadRevision(w) ==
  /\ worker[w].at = "loaded"
  /\ worker' = [worker EXCEPT ![w].at = "commit",
                 ![w].expected = IF @ = Nothing THEN revision ELSE @]
  /\ UNCHANGED <<rows, files, revision, started, used, gone, disturbed>>

RemovedNow(me) == Semantic \ me.keep
Removed(me) == me.seen \ me.keep

\* Removed rows are deleted, the kept ones written back as they were loaded,
\* all of them now tagged as semantic.  The audit event is not modelled.
CommitCleanup(w) ==
  LET me == worker[w] IN
  /\ me.at = "commit"
  /\ IF revision # me.expected
     THEN /\ worker' = [worker EXCEPT ![w] = Idle]
          /\ UNCHANGED <<rows, revision, gone>>
     ELSE /\ rows' = [i \in Ids |->
               IF i \in Removed(me) THEN Nothing
               ELSE IF i \in me.keep THEN [me.loaded[i] EXCEPT !.tag = "facts"]
               ELSE rows[i]]
          /\ gone' = gone \cup Removed(me)
          /\ revision' = revision + 1
          /\ Go(w, "refresh")
  /\ UNCHANGED <<files, started, used, disturbed>>

Die(w) ==
  /\ worker[w].at # "idle"
  /\ worker' = [worker EXCEPT ![w] = Idle]
  /\ disturbed' = TRUE
  /\ UNCHANGED <<rows, files, revision, started, used, gone>>

KnowledgeNext ==
  \E w \in Workers :
    \/ \E i \in Ids, s \in Streams, k \in {"fact", Nothing} : CommitRecord(w, i, s, k)
    \/ LoadForFiles(w) \/ WriteFiles(w) \/ RefreshFails(w)
    \/ \E i \in Ids, k \in {"fact", Nothing}, st \in {"validated", "proposed"},
         c \in BOOLEAN : Learn(w, i, k, st, c)
    \/ Promote(w) \/ SyncOnly(w) \/ Sync(w)
    \/ \E keep \in SUBSET Ids, expected \in {revision, Nothing} :
         BeginCleanup(w, keep, expected)
    \/ ReadRevision(w) \/ CommitCleanup(w) \/ Die(w)

KnowledgeSpec == KnowledgeInit /\ [][KnowledgeNext]_knowledgeVars

(***************************************************************************)
(* Properties                                                               *)
(***************************************************************************)
\* A record removed by a cleanup never comes back, through any sequence of
\* commits, learning, promotion and syncs - as long as no two commands overlap,
\* none dies and every refresh succeeds: a JSONL file left from before the
\* cleanup is enough for the next sync to restore what it holds
\* (application/branch_state.py:22).
RemovedStaysRemoved ==
  disturbed \/ \A i \in gone : rows[i] = Nothing

\* A cleanup removes only what it has loaded: a record that appeared since then
\* survives, whoever wrote it and without a revision check (semantic_cleanup.py:376).
OnlyLoadedIsRemoved ==
  [][\A i \in Ids : (rows[i] # Nothing /\ rows'[i] = Nothing) =>
       \E w \in Workers : i \in worker[w].seen \ worker[w].keep]_knowledgeVars

KnowledgeTypeOK ==
  /\ rows \in [Ids -> Record \cup {Nothing}]
  /\ files \in [Streams -> [Ids -> Record \cup {Nothing}]]
  /\ used \subseteq Ids /\ gone \subseteq used
  /\ revision \in Nat /\ started \in 0..MaxCommands /\ disturbed \in BOOLEAN
=============================================================================
