--------------------------- MODULE DirectCommands ---------------------------
(***************************************************************************)
(* The direct runtime commands as the CLI runs them: RuntimeMutation       *)
(* followed by what an accepted command does with the branch's files.      *)
(*                                                                         *)
(*   ProjectRead, ProjectWrite, Projection...   refresh_branch_            *)
(*       projections, the end of commit_runtime_mutation: load the         *)
(*       canonical state, write progress.json and active-session.json.     *)
(*       Any exception is caught, the command is accepted all the same and *)
(*       reports projection_status "stale".                                *)
(*   SyncRead, SyncUpsert, SyncSessionRead, SyncSessionUpsert   the        *)
(*       application layer's refresh_branch_state: read each file back and *)
(*       upsert it into SQLite, each upsert a transaction of its own,      *)
(*       without a lease and without a new revision.                       *)
(*                                                                         *)
(* A rejected, busy or conflicting command touches no file.                *)
(***************************************************************************)
EXTENDS RuntimeMutation

CONSTANT SystemSession      \* the session projected to active-session.json

ASSUME SystemSessionAssumption == SystemSession \in Sessions

VARIABLES files,    \* progress.json and active-session.json of the branch
          stage,    \* where each process is after its commit
          status,   \* projection_status of its response, "synced" or "stale"
          held      \* the document each process has read and not yet written

directVars == <<vars, files, stage, status, held>>

Document == [progress : Progress, step : Steps \cup {NoStep}]
NoDocument == [progress |-> EmptyProgress, step |-> NoStep]
Canonical == [progress |-> progress, step |-> sessionStep[SystemSession]]

\* Where a process can be between its commit and its return.
Stages == {"none", "project", "write", "validate", "sync", "upsert", "sync_session", "upsert_session"}

DirectInit == /\ Init
              /\ files = NoDocument
              /\ stage = [w \in Writers |-> "none"]
              /\ status = [w \in Writers |-> "synced"]
              /\ held = [w \in Writers |-> NoDocument]

At(w, s) == cmd[w].pc = "returning" /\ stage[w] = s

\* The process moves on, holding document d.
Go(w, s, d) == /\ stage' = [stage EXCEPT ![w] = s]
               /\ held' = [held EXCEPT ![w] = d]

(***************************************************************************)
(* The commit layer, seen from here.                                       *)
(***************************************************************************)

DirectAccept(w) == /\ Accept(w)
                   /\ Go(w, "project", NoDocument)
                   /\ status' = [status EXCEPT ![w] = "synced"]
                   /\ UNCHANGED files

\* Every step of the command but its accepted commit and its return.
Underneath(w) == /\ \/ Begin(w) \/ ValidateStep(w) \/ ReadRevision(w) \/ ReadSnapshot(w)
                    \/ ValidateRegistration(w) \/ Reject(w) \/ ScopeBusy(w) \/ Conflict(w)
                    \/ ReleaseLease(w)
                 /\ UNCHANGED <<files, stage, status, held>>

DirectTick == Tick /\ UNCHANGED <<files, stage, status, held>>

DirectCrash(w) == /\ Crash(w)
                  /\ Go(w, "none", NoDocument)
                  /\ status' = [status EXCEPT ![w] = "synced"]
                  /\ UNCHANGED files

DirectReturn(w) == /\ At(w, "none")
                   /\ Return(w)
                   /\ status' = [status EXCEPT ![w] = "synced"]
                   /\ UNCHANGED <<files, stage, held>>

(***************************************************************************)
(* Canonical state to files.                                               *)
(***************************************************************************)

ProjectRead(w) == /\ At(w, "project")
                  /\ Go(w, "write", Canonical)
                  /\ UNCHANGED <<vars, files, status>>

\* Variant: files that exist already are kept.
ProjectKeep(w) == /\ At(w, "write")
                  /\ Go(w, "validate", NoDocument)
                  /\ UNCHANGED <<vars, files, status>>

ProjectWrite(w) == /\ At(w, "write")
                   /\ files' = held[w]
                   /\ Go(w, "validate", NoDocument)
                   /\ UNCHANGED <<vars, status>>

\* The refresh raises while it writes the files: none is written, or
\* progress.json alone, which comes first.
ProjectionFails(w) ==
  /\ \/ At(w, "project") /\ UNCHANGED files
     \/ At(w, "write") /\ files' \in {files, [files EXCEPT !.progress = held[w].progress]}
  /\ Go(w, "sync", NoDocument)
  /\ status' = [status EXCEPT ![w] = "stale"]
  /\ UNCHANGED vars

\* validate_branch_memory reads the files again.
ProjectionValidates(w) == /\ At(w, "validate")
                          /\ ValidateProgress(files.progress)
                          /\ Go(w, "sync", NoDocument)
                          /\ UNCHANGED <<vars, files, status>>

\* A view cannot be rendered, or the validator reports errors.
ProjectionReportsStale(w) == /\ At(w, "validate")
                             /\ Go(w, "sync", NoDocument)
                             /\ status' = [status EXCEPT ![w] = "stale"]
                             /\ UNCHANGED <<vars, files>>

(***************************************************************************)
(* Files to canonical state.                                               *)
(***************************************************************************)

SyncRead(w) == /\ At(w, "sync")
               /\ Go(w, "upsert", [NoDocument EXCEPT !.progress = files.progress])
               /\ UNCHANGED <<vars, files, status>>

SyncUpsert(w) == /\ At(w, "upsert")
                 /\ progress' = held[w].progress
                 /\ Go(w, "sync_session", NoDocument)
                 /\ UNCHANGED <<revision, sessionStep, leases, cmd, files, status>>

SyncSessionRead(w) == /\ At(w, "sync_session")
                      /\ Go(w, "upsert_session", [NoDocument EXCEPT !.step = files.step])
                      /\ UNCHANGED <<vars, files, status>>

\* Variant: the session is not written back.
SyncSessionSkip(w) == /\ At(w, "upsert_session")
                      /\ Go(w, "none", NoDocument)
                      /\ UNCHANGED <<vars, files, status>>

SyncSessionUpsert(w) == /\ At(w, "upsert_session")
                        /\ sessionStep' = [sessionStep EXCEPT ![SystemSession] = held[w].step]
                        /\ Go(w, "none", NoDocument)
                        /\ UNCHANGED <<revision, progress, leases, cmd, files, status>>

DirectNext ==
  \/ \E w \in Writers :
       \/ Underneath(w) \/ DirectAccept(w) \/ DirectCrash(w) \/ DirectReturn(w)
       \/ ProjectRead(w) \/ ProjectWrite(w) \/ ProjectionFails(w)
       \/ ProjectionValidates(w) \/ ProjectionReportsStale(w)
       \/ SyncRead(w) \/ SyncUpsert(w) \/ SyncSessionRead(w) \/ SyncSessionUpsert(w)
  \/ DirectTick

DirectSpec == DirectInit /\ [][DirectNext]_directVars

(***************************************************************************)
(* Properties.                                                             *)
(***************************************************************************)

\* The files and what a process holds are whole documents.
DirectTypeOK == /\ TypeOK
                /\ files \in Document
                /\ stage \in [Writers -> Stages]
                /\ status \in [Writers -> {"synced", "stale"}]
                /\ held \in [Writers -> Document]

\* What the files bring back, stale or torn by a crash, keeps every completion
\* justified: its dependencies are completed and its evidence is recorded.
CompletionStaysJustified == CompletedAfterDependencies /\ CompletedWithEvidence

\* The canonical progress changes only by an accepted write, which moves the
\* runtime revision: what a command does with the files afterwards, even when
\* their refresh has failed, never takes an accepted write back.
AcceptedWriteIsNotRolledBack ==
  [][progress' # progress => revision' = revision + 1]_directVars

\* A command whose files were refreshed ("synced") writes back to SQLite only
\* what SQLite holds already.
SyncedCommandWritesNothingBack ==
  [][\A w \in Writers : stage[w] = "upsert" /\ stage'[w] = "sync_session" /\ status[w] = "synced"
       => progress' = progress]_directVars

\* A command that returns leaves files that show the canonical state, whatever
\* failures and crashes left them behind before it.
ProjectionCaughtUp ==
  [][\A w \in Writers : cmd[w].pc = "returning" /\ cmd'[w].pc = "idle" /\ stage[w] = "none"
       => files = Canonical]_directVars

=============================================================================
