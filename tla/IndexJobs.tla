----------------------------- MODULE IndexJobs -----------------------------
(***************************************************************************)
(* The queue of index jobs and the vector index it feeds: shared/           *)
(* system_store/{db,jobs,index_store,vector,layout,sync,retrieval}.py.      *)
(*                                                                         *)
(* Saving a source (a record, a snapshot, an artifact) enqueues one job per *)
(* source and content hash.  An indexer - `memory reindex`, which rebuilds, *)
(* or a search, which drains - takes the lease "indexer", takes at most     *)
(* JobLimit jobs of its scope, and for each of them reads the source,       *)
(* deletes its chunks, adds new ones and marks the job.  The scope is that  *)
(* of one branch, or everything for a `reindex` without --branch.  A        *)
(* content stands for its hash; one chunk stands for all that one call adds *)
(* for a source; `jobs` is the table in the order of updated_at.            *)
(*                                                                         *)
(* `excused` is a history variable: the sources that met one of the         *)
(* circumstances in which the code can lose track of a content, each of     *)
(* which is named at the action that meets it.                              *)
(***************************************************************************)
EXTENDS Naturals, FiniteSets, SequencesExt, RowSequences

CONSTANTS Artifacts,      \* sources whose job carries no hash into the chunk
          Records,        \* records and snapshots: chunks get the job's hash
          Scopes,         \* the sources of each branch
          Contents,       \* contents, named by their hash
          Namespaces,     \* vector namespaces: provider, model, revision
          Indexers,       \* processes that run process_pending_jobs
          None,           \* no content, no chunk, no namespace, no owner
          JobLimit,       \* --limit
          MaxJobs,        \* bound: jobs ever enqueued
          MaxPasses       \* bound: runs of process_pending_jobs

ASSUME IndexAssumption == /\ None \notin Contents /\ None \notin Namespaces
                          /\ JobLimit \in Nat /\ MaxJobs \in Nat

Sources == Artifacts \cup Records

ASSUME ScopesAssumption == Scopes \subseteq SUBSET Sources

VARIABLES content, jobs, lastJob, chunks, active, confirmed, lease, indexer,
          passes, excused

indexVars == <<content, jobs, lastJob, chunks, active, confirmed, lease,
               indexer, passes, excused>>

IdleIndexer == [at |-> "idle", rebuild |-> FALSE, space |-> None, batch |-> <<>>,
                failed |-> FALSE, read |-> None]

IndexInit ==
  /\ content = [s \in Sources |-> None]
  /\ jobs = <<>> /\ lastJob = 0
  /\ chunks = [n \in Namespaces |-> [s \in Sources |-> {}]]
  /\ active \in Namespaces
  /\ confirmed = None
  /\ lease = None
  /\ passes = 0
  /\ indexer = [i \in Indexers |-> IdleIndexer]
  /\ excused = {}

IsJob(j, s, c) == j.source = s /\ j.hash = c
Waiting(j) == j.status \in {"pending", "failed"}
Enqueued(s, c) == \E k \in DOMAIN jobs : IsJob(jobs[k], s, c)

\* A row whose updated_at is now is the last one; a deleted one stays away.
Touch(j, status) ==
  IF \E k \in DOMAIN jobs : jobs[k].id = j.id
  THEN Append(Without(jobs, {k \in Range(jobs) : k.id = j.id}),
              [j EXCEPT !.status = status])
  ELSE jobs

(***************************************************************************)
(* Writers of sources                                                       *)
(***************************************************************************)
EnqueueEach(s, c) ==
  /\ lastJob < MaxJobs /\ lastJob' = lastJob + 1
  /\ jobs' = Append(jobs, [id |-> lastJob + 1, source |-> s, hash |-> c,
                          status |-> "pending"])

\* ON CONFLICT DO NOTHING: a content that was enqueued before, and left, is
\* not enqueued again.
Enqueue(s, c) ==
  IF Enqueued(s, c) THEN UNCHANGED <<jobs, lastJob>> ELSE EnqueueEach(s, c)

Save(s, c) ==
  /\ content[s] # c
  /\ content' = [content EXCEPT ![s] = c]
  /\ Enqueue(s, c)
  /\ excused' = IF Enqueued(s, c) THEN excused \cup {s} ELSE excused
  /\ UNCHANGED <<chunks, active, confirmed, lease, indexer, passes>>

\* Semantic cleanup deletes a record with its jobs, then its chunks of the
\* active namespace.
DeleteRecord(s) ==
  /\ s \in Records /\ content[s] # None
  /\ content' = [content EXCEPT ![s] = None]
  /\ jobs' = Without(jobs, {j \in Range(jobs) : j.source = s})
  /\ chunks' = [chunks EXCEPT ![active][s] = {}]
  /\ UNCHANGED <<lastJob, active, confirmed, lease, indexer, passes, excused>>

\* memory.embeddings names another provider, model or revision.
Configure(n) ==
  /\ n # active
  /\ active' = n
  /\ UNCHANGED <<content, jobs, lastJob, chunks, confirmed,
                 lease, indexer, passes, excused>>

(***************************************************************************)
(* process_pending_jobs                                                     *)
(***************************************************************************)
Working(i) ==
  indexer[i].at \in {"leased", "next", "read", "dropped", "written", "release"}

\* The lease is read ...
LookForLease(i, rebuild) ==
  /\ indexer[i].at = "idle"
  /\ lease = None
  /\ passes < MaxPasses /\ passes' = passes + 1
  /\ indexer' = [indexer EXCEPT ![i] =
                   [IdleIndexer EXCEPT !.at = "free", !.rebuild = rebuild,
                                !.space = active]]
  /\ UNCHANGED <<content, jobs, lastJob, chunks, active,
                 confirmed, lease, excused>>

\* ... and upserted by the next statement, whoever has taken it since.
TakeLease(i) ==
  /\ indexer[i].at = "free"
  /\ lease' = i
  /\ indexer' = [indexer EXCEPT ![i].at = "leased"]
  /\ excused' = IF \E k \in Indexers \ {i} : Working(k) THEN Sources ELSE excused
  /\ UNCHANGED <<content, jobs, lastJob, chunks, active, confirmed, passes>>

\* The lease lives thirty seconds and nobody renews it.
LeaseExpires ==
  /\ lease # None
  /\ lease' = None
  /\ UNCHANGED <<content, jobs, lastJob, chunks, active,
                 confirmed, indexer, passes, excused>>

\* The oldest jobs of the scope, and but for a rebuild those that wait.
Selected(rebuild, scope) ==
  LET out == {j \in Range(jobs) : j.source \notin scope \/ ~(rebuild \/ Waiting(j))}
      rows == Without(jobs, out)
  IN SubSeq(rows, 1, IF Len(rows) < JobLimit THEN Len(rows) ELSE JobLimit)

\* A rebuild empties the whole namespace first, whatever its scope: what was
\* indexed for the jobs it leaves out, beyond its limit or of other branches, is
\* gone, and no drain takes them up.
\* Draining into a namespace other than the confirmed one marks the jobs too.
TakeBatch(i, scope) ==
  LET me == indexer[i]
      batch == Selected(me.rebuild, scope)
      taken == {j.source : j \in Range(batch)}
      left == {j.source : j \in {x \in Range(jobs) \ Range(batch) : ~Waiting(x)}}
  IN /\ me.at = "leased"
     /\ scope \in Scopes \/ (me.rebuild /\ scope = Sources)
     /\ indexer' = [indexer EXCEPT ![i].at = "next", ![i].batch = batch]
     /\ chunks' = IF me.rebuild
                  THEN [chunks EXCEPT ![me.space] = [s \in Sources |-> {}]]
                  ELSE chunks
     /\ excused' = excused \cup (IF me.rebuild THEN left ELSE {})
                            \cup (IF confirmed \in {None, me.space} THEN {} ELSE taken)
     /\ UNCHANGED <<content, jobs, lastJob, active, confirmed, lease, passes>>

\* Each job: the source is read now, not when the job was enqueued.
ReadSource(i) ==
  LET j == Head(indexer[i].batch)
      found == content[j.source] # None
  IN /\ indexer[i].at = "next" /\ indexer[i].batch # <<>>
     /\ indexer' = IF found
                   THEN [indexer EXCEPT ![i].at = "read",
                                        ![i].read = content[j.source]]
                   ELSE [indexer EXCEPT ![i].batch = Tail(@)]
     /\ UNCHANGED <<content, jobs, lastJob, chunks, active,
                    confirmed, lease, passes, excused>>

TagByJob(j, text) == j.hash
TagOf(j, text) == IF j.source \in Artifacts THEN text ELSE j.hash

\* A record's chunk gets the job's hash with the text of today: an older job
\* hides the record, and a record that returns to it shows the wrong text.
DropChunks(i) ==
  LET me == indexer[i]
      j == Head(me.batch)
  IN /\ me.at = "read"
     /\ chunks' = [chunks EXCEPT ![me.space][j.source] = {}]
     /\ excused' = IF TagOf(j, me.read) = me.read THEN excused
                   ELSE excused \cup {j.source}
     /\ indexer' = [indexer EXCEPT ![i].at = "dropped"]
     /\ UNCHANGED <<content, jobs, lastJob, active, confirmed, lease, passes>>

\* The delete and the add are two operations of the table.
WriteChunks(i) ==
  LET me == indexer[i]
      j == Head(me.batch)
      chunk == [hash |-> TagOf(j, me.read), text |-> me.read]
  IN /\ me.at = "dropped"
     /\ chunks' = [chunks EXCEPT ![me.space][j.source] = @ \cup {chunk}]
     /\ indexer' = [indexer EXCEPT ![i].at = "written"]
     /\ UNCHANGED <<content, jobs, lastJob, active, confirmed, lease, passes, excused>>

MarkIndexed(i) ==
  /\ indexer[i].at = "written"
  /\ jobs' = Touch(Head(indexer[i].batch), "indexed")
  /\ indexer' = [indexer EXCEPT ![i].at = "next", ![i].batch = Tail(@),
                                ![i].read = None]
  /\ UNCHANGED <<content, lastJob, chunks, active, confirmed,
                 lease, passes, excused>>

FailedAsDone(j) == Touch(j, "indexed")
Failed(j) == Touch(j, "failed")

\* The embedding provider or the table raises.
JobFails(i) ==
  /\ indexer[i].at \in {"read", "dropped"}
  /\ jobs' = Failed(Head(indexer[i].batch))
  /\ indexer' = [indexer EXCEPT ![i].at = "next", ![i].batch = Tail(@),
                                ![i].read = None, ![i].failed = TRUE]
  /\ UNCHANGED <<content, lastJob, chunks, active, confirmed,
                 lease, passes, excused>>

Release(i) ==
  /\ indexer[i].at = "next" /\ indexer[i].batch = <<>>
  /\ lease' = IF lease = i THEN None ELSE lease
  /\ indexer' = [indexer EXCEPT ![i].at = "release"]
  /\ UNCHANGED <<content, jobs, lastJob, chunks, active,
                 confirmed, passes, excused>>

\* record_successful_reindex, after the lease is gone.
Confirm(i) ==
  LET me == indexer[i] IN
  /\ me.at = "release"
  /\ confirmed' = IF me.rebuild /\ ~me.failed THEN me.space ELSE confirmed
  /\ indexer' = [indexer EXCEPT ![i] = IdleIndexer]
  /\ UNCHANGED <<content, jobs, lastJob, chunks, active,
                 lease, passes, excused>>

\* A rebuild that dies has emptied the tables and left its jobs "indexed".
Crash(i) ==
  /\ Working(i)
  /\ excused' = IF indexer[i].rebuild THEN Sources ELSE excused
  /\ indexer' = [indexer EXCEPT ![i] = IdleIndexer]
  /\ UNCHANGED <<content, jobs, lastJob, chunks, active,
                 confirmed, lease, passes>>

IndexNext ==
  \/ \E s \in Sources, c \in Contents : Save(s, c)
  \/ \E s \in Sources : DeleteRecord(s)
  \/ \E n \in Namespaces : Configure(n)
  \/ LeaseExpires
  \/ \E i \in Indexers :
       \/ \E rebuild \in BOOLEAN : LookForLease(i, rebuild)
       \/ TakeLease(i)
       \/ \E scope \in Scopes \cup {Sources} : TakeBatch(i, scope)
       \/ ReadSource(i) \/ DropChunks(i) \/ WriteChunks(i) \/ MarkIndexed(i)
       \/ JobFails(i) \/ Release(i) \/ Confirm(i) \/ Crash(i)

IndexSpec == IndexInit /\ [][IndexNext]_indexVars

(***************************************************************************)
(* Properties                                                               *)
(***************************************************************************)
Hits(s) == {k \in chunks[active][s] : k.hash = content[s]}

\* The job of an artifact indexes it as it is, that of a record one content.
Serves(j, s) == j.source = s /\ (s \in Artifacts \/ j.hash = content[s])

ToBeIndexed(s) ==
  \/ \E k \in DOMAIN jobs : Serves(jobs[k], s) /\ Waiting(jobs[k])
  \/ \E i \in Indexers, k \in 1..JobLimit :
       /\ Working(i) /\ k \in DOMAIN indexer[i].batch
       /\ indexer[i].space = active /\ indexer[i].batch[k].source = s

\* The index loses a source only in the named circumstances: a content that
\* came back (db.py:365), two indexers at once, a rebuild that leaves out jobs
\* already indexed, beyond its limit or of other branches (jobs.py:121-137), a rebuild
\* that died, an older job of a record, a drain into another namespace.
NothingElseIsForgotten ==
  (confirmed = active) =>
    \A s \in Sources \ excused : content[s] = None \/ Hits(s) # {} \/ ToBeIndexed(s)

\* A semantic hit on an artifact (retrieval.py:348) shows the text the artifact
\* has now, whatever jobs, indexers or crashes wrote the chunks.
ArtifactHitsAreCurrent ==
  \A s \in Artifacts : \A k \in Hits(s) : k.text = content[s]

IndexTypeOK ==
  /\ content \in [Sources -> Contents \cup {None}]
  /\ \A k \in DOMAIN jobs :
       jobs[k] \in [id : 1..MaxJobs, source : Sources, hash : Contents,
                    status : {"pending", "failed", "indexed"}]
  /\ chunks \in [Namespaces -> [Sources -> SUBSET [hash : Contents, text : Contents]]]
  /\ active \in Namespaces /\ confirmed \in Namespaces \cup {None}
  /\ lease \in Indexers \cup {None} /\ excused \subseteq Sources
=============================================================================
