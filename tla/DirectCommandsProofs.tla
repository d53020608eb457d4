------------------------ MODULE DirectCommandsProofs ------------------------
(***************************************************************************)
(* Proofs about DirectCommands.  With any number of processes every file   *)
(* and every document in memory keeps its type.  With one command at a     *)
(* time - crashes, failed and torn refreshes included - the write-back of  *)
(* the files never breaks the progress document: a stale file is an older  *)
(* document the branch really had.  Two concurrent commands are outside    *)
(* these theorems for a reason: their write-backs do roll accepted writes  *)
(* back (SyncBackRace.cfg).                                                *)
(***************************************************************************)
EXTENDS DirectCommands, RuntimeMutationProofs

OneCommandAtATime == \A v, w \in Writers : v = w

\* A progress document the branch may have had.
SoundDocument(p) == /\ DependenciesFirst(p)
                    /\ EvidenceRecorded(p)
                    /\ OneInProgress(p)
                    /\ PlanOrdered(p)

\* A lone command's base is never outdated, so it meets no conflict.
BaseUpToDate(w) ==
  LET c == cmd[w]
  IN  /\ c.expected # NoRevision => c.expected = revision
      /\ ReadsBase(c) => c.baseRev = revision

\* What each stage knows of the files and of the document in hand.
StageKnows(w) ==
  /\ stage[w] # "none" => cmd[w].pc \in {"releasing", "returning"}
  /\ cmd[w].pc = "releasing" => stage[w] = "project"
  /\ stage[w] = "write" => held[w] = Canonical
  /\ stage[w] = "validate" => files = Canonical
  /\ stage[w] \in {"sync", "upsert"} /\ status[w] = "synced" => files = Canonical
  /\ stage[w] = "upsert" => held[w].progress = files.progress
  /\ stage[w] \in {"sync_session", "upsert_session"} => files.progress = progress
  /\ stage[w] = "upsert_session" => held[w].step = files.step
  /\ stage[w] = "none" /\ cmd[w].pc = "returning" => files = Canonical

FilesTypeOK == /\ files \in Document
               /\ stage \in [Writers -> Stages]
               /\ status \in [Writers -> {"synced", "stale"}]
               /\ held \in [Writers -> Document]

FilesInv == /\ FilesTypeOK
            /\ SoundDocument(files.progress)
            /\ \A w \in Writers : /\ SoundDocument(held[w].progress)
                                  /\ BaseUpToDate(w)
                                  /\ StageKnows(w)

DirectInv == IInv /\ FilesInv

USE StepAssumption, WriterAssumption, ScopeAssumption, InputAssumption, BoundAssumption,
    SystemSessionAssumption

-----------------------------------------------------------------------------

LEMMA NoDocumentType == /\ NoDocument \in Document
                        /\ NoDocument.progress = EmptyProgress /\ NoDocument.step = NoStep
                        /\ SoundDocument(EmptyProgress)
<1>1. NoDocument \in Document
  BY EmptyProgressType DEF NoDocument, Document
<1>2. NoDocument.progress = EmptyProgress /\ NoDocument.step = NoStep
  BY DEF NoDocument
<1>3. SoundDocument(EmptyProgress)
  BY DEF EmptyProgress, SoundDocument, DependenciesFirst, EvidenceRecorded, OneInProgress, PlanOrdered
<1> QED
  BY <1>1, <1>2, <1>3

\* What SQLite holds is a document, and a sound one.
LEMMA CanonicalType ==
  ASSUME IInv
  PROVE  /\ Canonical \in Document
         /\ Canonical.progress = progress /\ Canonical.step = sessionStep[SystemSession]
         /\ SoundDocument(progress)
BY DEF Canonical, Document, SoundDocument, IInv, TypeOK

LEMMA DirectInitInvariant == DirectInit => DirectInv
<1> SUFFICES ASSUME DirectInit PROVE DirectInv
  OBVIOUS
<1>1. IInv
  BY InitInvariant DEF DirectInit
<1>2. FilesTypeOK
  BY NoDocumentType DEF DirectInit, FilesTypeOK, Stages
<1>3. SoundDocument(files.progress)
  BY NoDocumentType DEF DirectInit
<1>4. ASSUME NEW w \in Writers
      PROVE  SoundDocument(held[w].progress) /\ BaseUpToDate(w) /\ StageKnows(w)
  <2>1. /\ cmd[w] = Idle /\ stage[w] = "none" /\ held[w] = NoDocument
        /\ Idle.pc = "idle" /\ Idle.expected = NoRevision
    BY <1>4 DEF DirectInit, Init, Idle
  <2> QED
    BY <2>1, NoDocumentType DEF BaseUpToDate, StageKnows, ReadsBase
<1> QED
  BY <1>1, <1>2, <1>3, <1>4 DEF DirectInv, FilesInv

-----------------------------------------------------------------------------

\* A step that changes one process's stage and document keeps the files' part
\* of the invariant, when it keeps what that process knows.
LEMMA OneProcessMoves ==
  ASSUME DirectInv, OneCommandAtATime, IInv', NEW w \in Writers,
         NEW s \in Stages, NEW d \in Document, Go(w, s, d), SoundDocument(d.progress),
         files' \in Document, SoundDocument(files'.progress),
         status' \in [Writers -> {"synced", "stale"}],
         BaseUpToDate(w)', StageKnows(w)'
  PROVE  DirectInv'
<1>1. FilesTypeOK'
  BY DEF DirectInv, FilesInv, FilesTypeOK, Go
<1>2. held'[w] = d
  BY DEF DirectInv, FilesInv, FilesTypeOK, Go
<1>3. \A v \in Writers : v = w
  BY DEF OneCommandAtATime
<1> QED
  BY <1>1, <1>2, <1>3 DEF DirectInv, FilesInv

\* A step of the file layer, which leaves the commit layer where it is.
LEMMA CommitLayerRests ==
  ASSUME DirectInv, UNCHANGED vars
  PROVE  IInv' /\ Canonical' = Canonical /\ \A w \in Writers : BaseUpToDate(w)'
BY StepInvariant DEF DirectInv, FilesInv, BaseUpToDate, Canonical, vars

\* A step of the commit layer that touches no file.
LEMMA UnderneathInvariant ==
  ASSUME DirectInv, OneCommandAtATime, NEW w \in Writers, Underneath(w)
  PROVE  DirectInv'
<1>1. IInv'
  BY StepInvariant DEF DirectInv, Underneath, Next, Step, Commit
<1>2. IInv /\ cmd[w] \in Command /\ BaseUpToDate(w) /\ StageKnows(w)
  BY DEF DirectInv, FilesInv, IInv, TypeOK
<1>3. UNCHANGED <<files, stage, status, held>>
  BY DEF Underneath
<1>4. SUFFICES BaseUpToDate(w)' /\ StageKnows(w)'
  BY <1>1, <1>3 DEF DirectInv, FilesInv, FilesTypeOK, OneCommandAtATime
<1>5. Idle.pc = "idle" /\ Idle.expected = NoRevision
  BY DEF Idle
<1>6. CASE Begin(w)
  <2>1. /\ cmd[w].pc = "idle" /\ UNCHANGED <<revision, progress, sessionStep>>
        /\ cmd'[w].pc = "called" /\ cmd'[w].expected \in {NoRevision, revision}
    <3>1. cmd[w].pc = "idle" /\ UNCHANGED <<revision, progress, sessionStep>>
      BY <1>6 DEF Begin
    <3>2. PICK expected \in {NoRevision, revision} :
            \/ \E s \in Steps : \E deps \in SUBSET (Steps \ {s}) :
                 BeginRegister(w, s, deps, expected)
            \/ \E kind \in ImplementKinds, s \in Steps \cup {NoStep}, input \in Inputs :
                 BeginImplement(w, kind, s, input, expected)
      BY <1>6 DEF Begin
    <3>3. ASSUME NEW s, NEW deps, BeginRegister(w, s, deps, expected)
          PROVE  cmd'[w].pc = "called" /\ cmd'[w].expected = expected
      BY <3>3, <1>2, IdleType DEF BeginRegister, Command, IInv, TypeOK
    <3>4. ASSUME NEW kind, NEW s, NEW input, BeginImplement(w, kind, s, input, expected)
          PROVE  cmd'[w].pc = "called" /\ cmd'[w].expected = expected
      BY <3>4, <1>2, IdleType DEF BeginImplement, Command, IInv, TypeOK
    <3> QED
      BY <3>1, <3>2, <3>3, <3>4
  <2> QED
    BY <2>1, <1>2, <1>3 DEF BaseUpToDate, StageKnows, ReadsBase
<1>7. CASE Reject(w) \/ ScopeBusy(w)
  <2>1. /\ cmd[w].pc \notin {"releasing", "returning"} /\ UNCHANGED <<revision, progress, sessionStep>>
        /\ cmd'[w] = Idle
    BY <1>7, <1>2 DEF Reject, ScopeBusy, IInv, TypeOK
  <2> QED
    BY <2>1, <1>2, <1>3, <1>5 DEF BaseUpToDate, StageKnows, ReadsBase
<1>8. CASE ValidateStep(w) \/ ReadSnapshot(w) \/ ValidateRegistration(w) \/ ReadRevision(w)
  <2>1. /\ cmd[w].pc \notin {"releasing", "returning"} /\ UNCHANGED <<revision, progress, sessionStep>>
        /\ cmd'[w].pc \notin {"releasing", "returning"} /\ cmd'[w].expected = cmd[w].expected
        /\ ReadsBase(cmd'[w]) => \/ cmd'[w].baseRev = revision
                                 \/ ReadsBase(cmd[w]) /\ cmd'[w].baseRev = cmd[w].baseRev
    BY <1>8, <1>2 DEF ValidateStep, ReadSnapshot, ValidateRegistration, ReadRevision,
                      Command, IInv, TypeOK, ReadsBase
  <2> QED
    BY <2>1, <1>2, <1>3 DEF BaseUpToDate, StageKnows
<1>9. CASE Conflict(w)
  <2>1. cmd[w].pc = "ready" /\ revision # Expected(cmd[w])
    BY <1>9 DEF Conflict, HasConflict
  <2> QED
    BY <2>1, <1>2 DEF BaseUpToDate, ReadsBase, Expected
<1>10. CASE ReleaseLease(w)
  <2>1. /\ cmd[w].pc = "releasing" /\ UNCHANGED <<revision, progress, sessionStep>>
        /\ cmd'[w].pc = "returning" /\ cmd'[w].expected = NoRevision
    BY <1>10, <1>2, <1>5, IdleType DEF ReleaseLease, Command, IInv, TypeOK
  <2> QED
    BY <2>1, <1>2, <1>3 DEF BaseUpToDate, StageKnows, ReadsBase
<1> QED
  BY <1>6, <1>7, <1>8, <1>9, <1>10 DEF Underneath

\* The accepted commit, a crash, the return and the clock.
LEMMA DirectAcceptInvariant ==
  ASSUME DirectInv, OneCommandAtATime, NEW w \in Writers, DirectAccept(w)
  PROVE  DirectInv'
<1>1. IInv'
  BY StepInvariant DEF DirectInv, DirectAccept, Next, Step, Commit
<1>2. IInv /\ FilesTypeOK /\ SoundDocument(files.progress)
  BY DEF DirectInv, FilesInv
<1>3. cmd'[w].pc = "releasing" /\ cmd'[w].expected = NoRevision
  BY <1>2, IdleType DEF DirectAccept, Accept, Committed, Idle, Command, IInv, TypeOK
<1>4. /\ stage'[w] = "project" /\ files' = files /\ status' \in [Writers -> {"synced", "stale"}]
      /\ Go(w, "project", NoDocument)
  BY <1>2 DEF DirectAccept, Go, FilesTypeOK
<1>5. BaseUpToDate(w)' /\ StageKnows(w)'
  BY <1>3, <1>4 DEF BaseUpToDate, StageKnows, ReadsBase
<1> QED
  BY <1>1, <1>2, <1>4, <1>5, OneProcessMoves, NoDocumentType DEF Stages, FilesTypeOK

LEMMA DirectCrashInvariant ==
  ASSUME DirectInv, OneCommandAtATime, NEW w \in Writers, DirectCrash(w)
  PROVE  DirectInv'
<1>1. IInv'
  BY StepInvariant DEF DirectInv, DirectCrash, Next
<1>2. IInv /\ FilesTypeOK /\ SoundDocument(files.progress)
  BY DEF DirectInv, FilesInv
<1>3. cmd'[w].pc = "idle" /\ cmd'[w].expected = NoRevision
  BY <1>2, IdleType DEF DirectCrash, Crash, Idle, IInv, TypeOK
<1>4. /\ stage'[w] = "none" /\ files' = files /\ status' \in [Writers -> {"synced", "stale"}]
      /\ Go(w, "none", NoDocument)
  BY <1>2 DEF DirectCrash, Go, FilesTypeOK
<1>5. BaseUpToDate(w)' /\ StageKnows(w)'
  BY <1>3, <1>4 DEF BaseUpToDate, StageKnows, ReadsBase
<1> QED
  BY <1>1, <1>2, <1>4, <1>5, OneProcessMoves, NoDocumentType DEF Stages, FilesTypeOK

LEMMA DirectReturnInvariant ==
  ASSUME DirectInv, OneCommandAtATime, NEW w \in Writers, DirectReturn(w)
  PROVE  DirectInv'
<1>1. IInv'
  BY StepInvariant DEF DirectInv, DirectReturn, Next
<1>2. IInv /\ FilesTypeOK
  BY DEF DirectInv, FilesInv
<1>3. cmd'[w].pc = "idle" /\ cmd'[w].expected = NoRevision
  BY <1>2, IdleType DEF DirectReturn, Return, Idle, IInv, TypeOK
<1>4. /\ stage'[w] = "none" /\ UNCHANGED <<files, stage, held>>
      /\ status' \in [Writers -> {"synced", "stale"}]
  BY <1>2 DEF DirectReturn, At, FilesTypeOK
<1>5. BaseUpToDate(w)' /\ StageKnows(w)'
  BY <1>3, <1>4 DEF BaseUpToDate, StageKnows, ReadsBase
<1> QED
  BY <1>1, <1>4, <1>5 DEF DirectInv, FilesInv, FilesTypeOK, OneCommandAtATime

LEMMA DirectTickInvariant ==
  ASSUME DirectInv, DirectTick
  PROVE  DirectInv'
<1>1. IInv'
  BY StepInvariant DEF DirectInv, DirectTick, Next
<1> QED
  BY <1>1 DEF DirectInv, DirectTick, Tick, FilesInv, FilesTypeOK, BaseUpToDate, StageKnows, Canonical

-----------------------------------------------------------------------------

\* The refresh of the files.
LEMMA ProjectReadInvariant ==
  ASSUME DirectInv, OneCommandAtATime, NEW w \in Writers, ProjectRead(w)
  PROVE  DirectInv'
<1>1. /\ IInv' /\ Canonical' = Canonical /\ BaseUpToDate(w)'
      /\ Canonical \in Document /\ SoundDocument(Canonical.progress)
  BY CommitLayerRests, CanonicalType DEF ProjectRead, DirectInv
<1>2. /\ FilesTypeOK /\ SoundDocument(files.progress) /\ Go(w, "write", Canonical)
      /\ UNCHANGED <<cmd, files, status>> /\ cmd[w].pc = "returning"
  BY DEF DirectInv, FilesInv, ProjectRead, vars, At
<1>3. stage'[w] = "write" /\ held'[w] = Canonical
  BY <1>2 DEF Go, FilesTypeOK
<1>4. StageKnows(w)'
  BY <1>1, <1>2, <1>3 DEF StageKnows
<1> QED
  BY <1>1, <1>2, <1>4, OneProcessMoves DEF Stages, FilesTypeOK

LEMMA ProjectWriteInvariant ==
  ASSUME DirectInv, OneCommandAtATime, NEW w \in Writers, ProjectWrite(w)
  PROVE  DirectInv'
<1>1. IInv' /\ Canonical' = Canonical /\ BaseUpToDate(w)'
  BY CommitLayerRests DEF ProjectWrite
<1>2. /\ FilesTypeOK /\ SoundDocument(held[w].progress) /\ held[w] = Canonical
      /\ Go(w, "validate", NoDocument) /\ UNCHANGED <<cmd, status>> /\ cmd[w].pc = "returning"
      /\ files' = held[w]
  BY DEF DirectInv, FilesInv, ProjectWrite, StageKnows, vars, At
<1>3. stage'[w] = "validate"
  BY <1>2 DEF Go, FilesTypeOK
<1>4. StageKnows(w)'
  BY <1>1, <1>2, <1>3 DEF StageKnows
<1> QED
  BY <1>1, <1>2, <1>4, OneProcessMoves, NoDocumentType DEF Stages, FilesTypeOK

LEMMA ProjectionFailsInvariant ==
  ASSUME DirectInv, OneCommandAtATime, NEW w \in Writers, ProjectionFails(w)
  PROVE  DirectInv'
<1>1. IInv' /\ Canonical' = Canonical /\ BaseUpToDate(w)'
  BY CommitLayerRests DEF ProjectionFails
<1>2. /\ FilesTypeOK /\ SoundDocument(files.progress) /\ SoundDocument(held[w].progress)
      /\ held[w] \in Document
      /\ Go(w, "sync", NoDocument) /\ UNCHANGED cmd /\ cmd[w].pc = "returning"
      /\ status' = [status EXCEPT ![w] = "stale"]
  BY DEF DirectInv, FilesInv, FilesTypeOK, ProjectionFails, vars, At
<1>3. stage'[w] = "sync" /\ status'[w] = "stale" /\ status' \in [Writers -> {"synced", "stale"}]
  BY <1>2 DEF Go, FilesTypeOK
<1>4. files' \in Document /\ SoundDocument(files'.progress)
  <2>1. files' \in {files, [files EXCEPT !.progress = held[w].progress]}
    BY DEF ProjectionFails
  <2> QED
    BY <1>2, <2>1 DEF FilesTypeOK, Document
<1>5. StageKnows(w)'
  BY <1>2, <1>3 DEF StageKnows
<1> QED
  BY <1>1, <1>2, <1>3, <1>4, <1>5, OneProcessMoves, NoDocumentType DEF Stages

LEMMA ProjectionEndsInvariant ==
  ASSUME DirectInv, OneCommandAtATime, NEW w \in Writers,
         ProjectionValidates(w) \/ ProjectionReportsStale(w)
  PROVE  DirectInv'
<1>1. IInv' /\ Canonical' = Canonical /\ BaseUpToDate(w)'
  BY CommitLayerRests DEF ProjectionValidates, ProjectionReportsStale
<1>2. /\ FilesTypeOK /\ SoundDocument(files.progress) /\ files = Canonical
      /\ Go(w, "sync", NoDocument) /\ UNCHANGED <<cmd, files>> /\ cmd[w].pc = "returning"
      /\ status' = status \/ status' = [status EXCEPT ![w] = "stale"]
  BY DEF DirectInv, FilesInv, ProjectionValidates, ProjectionReportsStale, StageKnows, vars, At
<1>3. stage'[w] = "sync" /\ status' \in [Writers -> {"synced", "stale"}]
  BY <1>2 DEF Go, FilesTypeOK
<1>4. StageKnows(w)'
  BY <1>1, <1>2, <1>3 DEF StageKnows
<1> QED
  BY <1>1, <1>2, <1>3, <1>4, OneProcessMoves, NoDocumentType DEF Stages, FilesTypeOK

-----------------------------------------------------------------------------

\* The sync back to SQLite.
LEMMA SyncReadInvariant ==
  ASSUME DirectInv, OneCommandAtATime, NEW w \in Writers, SyncRead(w)
  PROVE  DirectInv'
<1> DEFINE d == [NoDocument EXCEPT !.progress = files.progress]
<1>1. IInv' /\ Canonical' = Canonical /\ BaseUpToDate(w)'
  BY CommitLayerRests DEF SyncRead
<1>2. /\ FilesTypeOK /\ SoundDocument(files.progress) /\ StageKnows(w) /\ stage[w] = "sync"
      /\ Go(w, "upsert", d) /\ UNCHANGED <<cmd, files, status>> /\ cmd[w].pc = "returning"
  BY DEF DirectInv, FilesInv, SyncRead, vars, At
<1>3. d \in Document /\ d.progress = files.progress
  BY <1>2, NoDocumentType DEF FilesTypeOK, Document
<1> HIDE DEF d
<1>4. stage'[w] = "upsert" /\ held'[w] = d
  BY <1>2 DEF Go, FilesTypeOK
<1>5. StageKnows(w)'
  BY <1>1, <1>2, <1>3, <1>4 DEF StageKnows
<1> QED
  BY <1>1, <1>2, <1>3, <1>5, OneProcessMoves DEF Stages, FilesTypeOK

LEMMA SyncSessionReadInvariant ==
  ASSUME DirectInv, OneCommandAtATime, NEW w \in Writers, SyncSessionRead(w)
  PROVE  DirectInv'
<1> DEFINE d == [NoDocument EXCEPT !.step = files.step]
<1>1. IInv' /\ Canonical' = Canonical /\ BaseUpToDate(w)'
  BY CommitLayerRests DEF SyncSessionRead
<1>2. /\ FilesTypeOK /\ SoundDocument(files.progress) /\ files.progress = progress
      /\ Go(w, "upsert_session", d) /\ UNCHANGED <<progress, cmd, files, status>>
      /\ cmd[w].pc = "returning"
  BY DEF DirectInv, FilesInv, SyncSessionRead, StageKnows, vars, At
<1>3. d \in Document /\ d.step = files.step /\ SoundDocument(d.progress)
  BY <1>2, NoDocumentType DEF FilesTypeOK, Document
<1> HIDE DEF d
<1>4. stage'[w] = "upsert_session" /\ held'[w] = d
  BY <1>2 DEF Go, FilesTypeOK
<1>5. StageKnows(w)'
  BY <1>1, <1>2, <1>3, <1>4 DEF StageKnows
<1> QED
  BY <1>1, <1>2, <1>3, <1>5, OneProcessMoves DEF Stages, FilesTypeOK

\* The upsert of progress.json: the document it writes is one the branch had,
\* and the lone process knows nothing of the progress it replaces.
LEMMA SyncUpsertInvariant ==
  ASSUME DirectInv, OneCommandAtATime, NEW w \in Writers, SyncUpsert(w)
  PROVE  DirectInv'
<1>1. /\ IInv /\ FilesTypeOK /\ SoundDocument(files.progress) /\ SoundDocument(held[w].progress)
      /\ held[w] \in Document /\ held[w].progress = files.progress
      /\ BaseUpToDate(w) /\ cmd[w].pc = "returning"
      /\ progress' = held[w].progress /\ Go(w, "sync_session", NoDocument)
      /\ UNCHANGED <<revision, sessionStep, leases, cmd, files, status>>
  BY DEF DirectInv, FilesInv, FilesTypeOK, SyncUpsert, StageKnows, At
<1>2. IInv'
  <2>1. TypeOK'
    BY <1>1 DEF IInv, TypeOK, Document
  <2>2. Known(w)'
    BY <1>1 DEF IInv, Known, ReadsBase, HasBase, PastRules
  <2>3. \A v \in Writers : v = w
    BY DEF OneCommandAtATime
  <2> QED
    BY <1>1, <2>1, <2>2, <2>3 DEF IInv, SoundDocument
<1>3. stage'[w] = "sync_session" /\ BaseUpToDate(w)'
  BY <1>1 DEF Go, FilesTypeOK, BaseUpToDate
<1>4. StageKnows(w)'
  BY <1>1, <1>3 DEF StageKnows
<1> QED
  BY <1>1, <1>2, <1>3, <1>4, OneProcessMoves, NoDocumentType DEF Stages, FilesTypeOK

\* The upsert of active-session.json leaves SQLite as the files show it.
LEMMA SyncSessionUpsertInvariant ==
  ASSUME DirectInv, OneCommandAtATime, NEW w \in Writers, SyncSessionUpsert(w)
  PROVE  DirectInv'
<1>1. /\ IInv /\ FilesTypeOK /\ SoundDocument(files.progress) /\ files \in Document
      /\ held[w] \in Document /\ held[w].step = files.step /\ files.progress = progress
      /\ BaseUpToDate(w) /\ cmd[w].pc = "returning"
      /\ sessionStep' = [sessionStep EXCEPT ![SystemSession] = held[w].step]
      /\ Go(w, "none", NoDocument)
      /\ UNCHANGED <<revision, progress, leases, cmd, files, status>>
  BY DEF DirectInv, FilesInv, FilesTypeOK, SyncSessionUpsert, StageKnows, At
<1>2. IInv'
  <2>1. TypeOK'
    BY <1>1 DEF IInv, TypeOK, Document
  <2> QED
    BY <1>1, <2>1 DEF IInv, Known
<1>3. stage'[w] = "none" /\ BaseUpToDate(w)'
  BY <1>1 DEF Go, FilesTypeOK, BaseUpToDate
<1>4. files' = Canonical'
  <2>1. sessionStep'[SystemSession] = files.step
    BY <1>1 DEF IInv, TypeOK
  <2> QED
    BY <1>1, <2>1 DEF Canonical, Document
<1>5. StageKnows(w)'
  BY <1>1, <1>3, <1>4 DEF StageKnows
<1> QED
  BY <1>1, <1>2, <1>3, <1>5, OneProcessMoves, NoDocumentType DEF Stages, FilesTypeOK

-----------------------------------------------------------------------------

LEMMA DirectStepInvariant ==
  ASSUME DirectInv, OneCommandAtATime, [DirectNext]_directVars
  PROVE  DirectInv'
<1>1. ASSUME NEW w \in Writers,
             \/ Underneath(w) \/ DirectAccept(w) \/ DirectCrash(w) \/ DirectReturn(w)
      PROVE  DirectInv'
  BY <1>1, UnderneathInvariant, DirectAcceptInvariant, DirectCrashInvariant, DirectReturnInvariant
<1>2. ASSUME NEW w \in Writers,
             \/ ProjectRead(w) \/ ProjectWrite(w) \/ ProjectionFails(w)
             \/ ProjectionValidates(w) \/ ProjectionReportsStale(w)
      PROVE  DirectInv'
  BY <1>2, ProjectReadInvariant, ProjectWriteInvariant, ProjectionFailsInvariant,
     ProjectionEndsInvariant
<1>3. ASSUME NEW w \in Writers,
             SyncRead(w) \/ SyncUpsert(w) \/ SyncSessionRead(w) \/ SyncSessionUpsert(w)
      PROVE  DirectInv'
  BY <1>3, SyncReadInvariant, SyncUpsertInvariant, SyncSessionReadInvariant,
     SyncSessionUpsertInvariant
<1>4. CASE DirectTick
  BY <1>4, DirectTickInvariant
<1>5. CASE UNCHANGED directVars
  <2>1. UNCHANGED <<vars, files, stage, status, held>>
    BY <1>5 DEF directVars
  <2>2. IInv' /\ Canonical' = Canonical /\ \A w \in Writers : BaseUpToDate(w)'
    BY <2>1, CommitLayerRests
  <2> QED
    BY <2>1, <2>2 DEF DirectInv, FilesInv, FilesTypeOK, StageKnows, vars
<1> QED
  BY <1>1, <1>2, <1>3, <1>4, <1>5 DEF DirectNext

\* One command at a time: DirectInv is an invariant.
LEMMA DirectInvariance == ASSUME OneCommandAtATime PROVE DirectSpec => []DirectInv
<1>1. DirectInv /\ [DirectNext]_directVars => DirectInv'
  BY DirectStepInvariant
<1> QED
  BY DirectInitInvariant, <1>1, PTL DEF DirectSpec

\* With one command at a time, whatever refreshes fail, tear the files or crash,
\* what the files bring back keeps every completion justified and the plan
\* executable.
THEOREM CompletionStaysJustifiedAlone ==
  ASSUME OneCommandAtATime
  PROVE  DirectSpec => [](CompletionStaysJustified /\ NeverWedged)
<1>1. DirectInv => CompletionStaysJustified /\ NeverWedged
  BY OrderedPlanMoves
     DEF DirectInv, IInv, TypeOK, CompletionStaysJustified, NeverWedged,
         DependenciesFirst, EvidenceRecorded, CompletedAfterDependencies, CompletedWithEvidence
<1> QED
  BY <1>1, DirectInvariance, PTL

\* With one command at a time, a command whose files were refreshed writes back
\* to SQLite only what SQLite holds.
THEOREM SyncedWritesNothingBack ==
  ASSUME OneCommandAtATime
  PROVE  DirectSpec => SyncedCommandWritesNothingBack
<1> DEFINE Quiet == \A w \in Writers :
              stage[w] = "upsert" /\ stage'[w] = "sync_session" /\ status[w] = "synced"
                => progress' = progress
<1>1. DirectInv /\ [DirectNext]_directVars => [Quiet]_directVars
  <2> SUFFICES ASSUME DirectInv, [DirectNext]_directVars, NEW w \in Writers,
                      stage[w] = "upsert", stage'[w] = "sync_session", status[w] = "synced"
               PROVE  progress' = progress
    OBVIOUS
  <2>1. held[w].progress = progress
    BY CanonicalType DEF DirectInv, FilesInv, StageKnows
  <2>2. \A v \in Writers : v = w
    BY DEF OneCommandAtATime
  <2>3. stage \in [Writers -> Stages]
    BY DEF DirectInv, FilesInv, FilesTypeOK
  <2>4. SyncUpsert(w)
    BY <2>2, <2>3
       DEF DirectNext, Underneath, DirectAccept, DirectCrash, DirectReturn, ProjectRead,
           ProjectWrite, ProjectionFails, ProjectionValidates, ProjectionReportsStale,
           SyncRead, SyncSessionRead, SyncSessionUpsert, DirectTick, directVars, Go
  <2> QED
    BY <2>1, <2>4 DEF SyncUpsert
<1> QED
  BY <1>1, DirectInvariance, PTL DEF DirectSpec, SyncedCommandWritesNothingBack

\* With one command at a time, a command that returns leaves files that show
\* the canonical state.
THEOREM ProjectionCatchesUp ==
  ASSUME OneCommandAtATime
  PROVE  DirectSpec => ProjectionCaughtUp
<1> DEFINE Shown == \A w \in Writers :
              cmd[w].pc = "returning" /\ cmd'[w].pc = "idle" /\ stage[w] = "none"
                => files = Canonical
<1>1. DirectInv /\ [DirectNext]_directVars => [Shown]_directVars
  BY DEF DirectInv, FilesInv, StageKnows
<1> QED
  BY <1>1, DirectInvariance, PTL DEF DirectSpec, ProjectionCaughtUp

-----------------------------------------------------------------------------

\* A command that has passed its rules names a step; so types hold whatever the
\* write-backs of other processes have done to the progress it looked at.
StepNamed(c) ==
  /\ c.kind = "register" /\ c.pc \notin {"idle", "returning"} => c.step \in Steps
  /\ c.pc \in {"validated", "revision_read", "loaded", "ready", "releasing"} => c.step \in Steps

DirectTypes == DirectTypeOK /\ \A w \in Writers : StepNamed(cmd[w])

\* A step of one process that keeps the types keeps the invariant.
LEMMA TypedMove ==
  ASSUME DirectTypes, NEW w \in Writers, NEW c \in Command, StepNamed(c),
         cmd' = [cmd EXCEPT ![w] = c],
         revision' \in Nat, progress' \in Progress,
         sessionStep' \in [Sessions -> Steps \cup {NoStep}],
         leases' \in [Scopes -> Lease],
         files' \in Document, stage' \in [Writers -> Stages],
         status' \in [Writers -> {"synced", "stale"}], held' \in [Writers -> Document]
  PROVE  DirectTypes'
<1>1. cmd' \in [Writers -> Command] /\ \A v \in Writers : cmd'[v] = c \/ cmd'[v] = cmd[v]
  BY DEF DirectTypes, DirectTypeOK, TypeOK
<1> QED
  BY <1>1 DEF DirectTypes, DirectTypeOK, TypeOK

\* The steps of a command that change no row of the store.
LEMMA TypedCommandMove ==
  ASSUME DirectTypes, NEW w \in Writers,
         \/ Begin(w) \/ ValidateStep(w) \/ ReadRevision(w) \/ ReadSnapshot(w)
         \/ ValidateRegistration(w) \/ Reject(w) \/ ScopeBusy(w) \/ Return(w)
  PROVE  \E c \in Command : StepNamed(c) /\ cmd' = [cmd EXCEPT ![w] = c]
<1>1. /\ TypeOK /\ cmd[w] \in Command /\ StepNamed(cmd[w]) /\ progress \in Progress
      /\ revision \in Nat
  BY DEF DirectTypes, DirectTypeOK, TypeOK
<1>2. CASE Reject(w) \/ ScopeBusy(w) \/ Return(w)
  <2>1. StepNamed(Idle)
    BY DEF StepNamed, Idle
  <2> QED
    BY <1>2, <2>1, IdleType DEF Reject, ScopeBusy, Return
<1>3. CASE Begin(w)
  <2>1. PICK expected \in {NoRevision, revision} :
          \/ \E s \in Steps : \E deps \in SUBSET (Steps \ {s}) :
               BeginRegister(w, s, deps, expected)
          \/ \E kind \in ImplementKinds, s \in Steps \cup {NoStep}, input \in Inputs :
               BeginImplement(w, kind, s, input, expected)
    BY <1>3 DEF Begin
  <2>2. ASSUME NEW s \in Steps, NEW deps \in SUBSET (Steps \ {s}),
               BeginRegister(w, s, deps, expected)
        PROVE  \E c \in Command : StepNamed(c) /\ cmd' = [cmd EXCEPT ![w] = c]
    <3> DEFINE c == [Idle EXCEPT !.pc = "called", !.kind = "register",
                                 !.step = s, !.deps = deps, !.expected = expected]
    <3>1. c \in Command /\ c.pc = "called" /\ c.step = s
      BY <1>1, IdleType DEF Command, Control, Kinds
    <3>2. cmd' = [cmd EXCEPT ![w] = c]
      BY <2>2 DEF BeginRegister
    <3> HIDE DEF c
    <3> QED
      BY <3>1, <3>2 DEF StepNamed
  <2>3. ASSUME NEW kind \in ImplementKinds, NEW s \in Steps \cup {NoStep}, NEW input \in Inputs,
               BeginImplement(w, kind, s, input, expected)
        PROVE  \E c \in Command : StepNamed(c) /\ cmd' = [cmd EXCEPT ![w] = c]
    <3> DEFINE phase == IF kind = "checkpoint" THEN input.phase ELSE NoPhase
               ev == IF kind = "start" THEN {} ELSE input.ev
               c == [Idle EXCEPT !.pc = "called", !.kind = kind, !.explicit = s,
                                 !.phase = phase, !.ev = ev, !.expected = expected]
    <3>1. phase \in Phases \cup {NoPhase} /\ ev \in SUBSET Evidence
      OBVIOUS
    <3>2. cmd' = [cmd EXCEPT ![w] = c]
      BY <2>3 DEF BeginImplement
    <3> HIDE DEF phase, ev
    <3>3. c \in Command /\ c.pc = "called" /\ c.kind = kind
      <4>1. expected \in Nat \cup {NoRevision} /\ kind \in Kinds /\ "called" \in Control
        BY <1>1 DEF Kinds, Control
      <4> QED
        BY <3>1, <4>1, IdleType DEF Command
    <3> HIDE DEF c
    <3> QED
      BY <3>2, <3>3 DEF StepNamed, ImplementKinds
  <2> QED
    BY <2>1, <2>2, <2>3
<1>4. CASE ValidateStep(w)
  <2> DEFINE s == Resolved(w, progress)
             c == [cmd[w] EXCEPT !.pc = "validated", !.step = s]
  <2>1. s \in Steps /\ cmd' = [cmd EXCEPT ![w] = c]
    BY <1>1, <1>4, ResolvedType DEF ValidateStep, TypeOK
  <2>2. c \in Command /\ StepNamed(c)
    BY <1>1, <2>1 DEF Command, Control, StepNamed
  <2> QED
    BY <2>1, <2>2
<1>5. CASE ReadRevision(w)
  <2> DEFINE c == [cmd[w] EXCEPT !.pc = "revision_read", !.baseRev = revision]
  <2>1. cmd' = [cmd EXCEPT ![w] = c]
    BY <1>1, <1>5 DEF ReadRevision, TypeOK
  <2>2. c \in Command /\ StepNamed(c)
    BY <1>1, <1>5 DEF Command, Control, StepNamed, ReadRevision
  <2> QED
    BY <2>1, <2>2
<1>6. CASE ReadSnapshot(w)
  <2> DEFINE c == [cmd[w] EXCEPT !.pc = IF cmd[w].kind = "register" THEN "loaded" ELSE "ready",
                                 !.base = progress]
  <2>1. cmd' = [cmd EXCEPT ![w] = c]
    BY <1>1, <1>6 DEF ReadSnapshot, TypeOK
  <2>2. c \in Command /\ StepNamed(c)
    BY <1>1, <1>6 DEF Command, Control, StepNamed, ReadSnapshot
  <2> QED
    BY <2>1, <2>2
<1>7. CASE ValidateRegistration(w)
  <2> DEFINE c == [cmd[w] EXCEPT !.pc = "ready"]
  <2>1. cmd' = [cmd EXCEPT ![w] = c]
    BY <1>1, <1>7 DEF ValidateRegistration, TypeOK
  <2>2. c \in Command /\ StepNamed(c)
    BY <1>1, <1>7 DEF Command, Control, StepNamed, ValidateRegistration
  <2> QED
    BY <2>1, <2>2
<1> QED
  BY <1>2, <1>3, <1>4, <1>5, <1>6, <1>7

\* The plan of any command is a progress document.
LEMMA PlanType ==
  ASSUME NEW p \in Progress, NEW c \in Command, c.step \in Steps
  PROVE  Plan(p, c) \in Progress
<1>1. /\ c.kind \in Kinds /\ c.deps \in SUBSET Steps /\ c.ev \in SUBSET Evidence
      /\ c.phase \in Phases \cup {NoPhase}
  BY DEF Command
<1>2. RegisterStep(p, c.step, c.deps) \in Progress
  BY <1>1, RegisterType
<1>3. StartStep(p, c.step) \in Progress
  BY StartKeeps
<1>4. CheckpointStep(p, c.step, c.phase, c.ev) \in Progress
  BY <1>1, CheckpointKeeps
<1>5. CompleteStep(p, c.step, c.ev) \in Progress
  BY <1>1, CompleteType
<1> QED
  BY <1>1, <1>2, <1>3, <1>4, <1>5 DEF Plan, Kinds, ImplementKinds

\* What the commit and the steps after it leave in the tables and in memory.
LEMMA TypedCommit ==
  ASSUME DirectTypes, NEW w \in Writers, Conflict(w) \/ Accept(w)
  PROVE  /\ \E c \in Command : StepNamed(c) /\ cmd' = [cmd EXCEPT ![w] = c]
         /\ revision' \in Nat /\ progress' \in Progress
         /\ sessionStep' \in [Sessions -> Steps \cup {NoStep}]
         /\ leases' \in [Scopes -> Lease]
<1>1. /\ cmd[w] \in Command /\ cmd[w].step \in Steps /\ progress \in Progress
      /\ revision \in Nat /\ leases \in [Scopes -> Lease]
      /\ sessionStep \in [Sessions -> Steps \cup {NoStep}] /\ cmd \in [Writers -> Command]
  BY DEF DirectTypes, DirectTypeOK, TypeOK, StepNamed, Conflict, Accept
<1>2. leases' \in [Scopes -> Lease]
  <2>1. [owner |-> w, ttl |-> TTL] \in Lease
    BY DEF Lease, Owners
  <2> QED
    BY <1>1, <2>1 DEF Conflict, Accept, Acquire
<1>3. \E c \in Command : StepNamed(c) /\ cmd' = [cmd EXCEPT ![w] = c]
  <2> DEFINE c == [Idle EXCEPT !.pc = "releasing", !.kind = cmd[w].kind, !.step = cmd[w].step]
  <2>1. c \in Command /\ c.step = cmd[w].step
    BY <1>1, IdleType DEF Command, Control
  <2>2. cmd' = [cmd EXCEPT ![w] = c]
    BY DEF Conflict, Accept, Committed
  <2> HIDE DEF c
  <2> QED
    BY <1>1, <2>1, <2>2 DEF StepNamed
<1>4. CASE Conflict(w)
  BY <1>1, <1>2, <1>3, <1>4 DEF Conflict
<1>5. CASE Accept(w)
  <2>1. Current(cmd[w]) \in Progress
    BY <1>1 DEF Current, Command
  <2>2. progress' \in Progress
    BY <1>1, <1>5, <2>1, PlanType DEF Accept
  <2>3. SessionStep(progress', cmd[w]) \in Steps \cup {NoStep}
    BY <1>1, <2>2 DEF SessionStep, Progress
  <2>4. sessionStep' \in [Sessions -> Steps \cup {NoStep}] /\ revision' \in Nat
    BY <1>1, <1>5, <2>3 DEF Accept
  <2> QED
    BY <1>2, <1>3, <2>2, <2>4
<1> QED
  BY <1>4, <1>5

LEMMA TypedStep ==
  ASSUME DirectTypes, [DirectNext]_directVars
  PROVE  DirectTypes'
<1>1. /\ TypeOK /\ files \in Document /\ stage \in [Writers -> Stages]
      /\ status \in [Writers -> {"synced", "stale"}] /\ held \in [Writers -> Document]
  BY DEF DirectTypes, DirectTypeOK
<1>2. /\ revision \in Nat /\ progress \in Progress /\ leases \in [Scopes -> Lease]
      /\ sessionStep \in [Sessions -> Steps \cup {NoStep}]
      /\ Canonical \in Document
  BY <1>1 DEF TypeOK, Canonical, Document
<1>3. StepNamed(Idle)
  BY DEF StepNamed, Idle
<1>4. ASSUME NEW w \in Writers, Underneath(w) \/ DirectReturn(w)
      PROVE  DirectTypes'
  <2>0. /\ files' \in Document /\ stage' \in [Writers -> Stages]
        /\ status' \in [Writers -> {"synced", "stale"}] /\ held' \in [Writers -> Document]
    BY <1>1, <1>4 DEF Underneath, DirectReturn
  <2>1. CASE \/ Begin(w) \/ ValidateStep(w) \/ ReadRevision(w) \/ ReadSnapshot(w)
             \/ ValidateRegistration(w) \/ Reject(w) \/ ScopeBusy(w) \/ Return(w)
    <3>1. UNCHANGED <<revision, progress, sessionStep, leases>>
      BY <2>1 DEF Begin, ValidateStep, ReadRevision, ReadSnapshot, ValidateRegistration,
                  Reject, ScopeBusy, Return
    <3> QED
      BY <1>2, <2>0, <2>1, <3>1, TypedCommandMove, TypedMove
  <2>2. CASE Conflict(w)
    BY <2>0, <2>2, TypedCommit, TypedMove
  <2>3. CASE ReleaseLease(w)
    <3> DEFINE c == [Idle EXCEPT !.pc = "returning"]
    <3>1. c \in Command /\ StepNamed(c)
      BY IdleType DEF Command, Control, StepNamed, Idle
    <3>2. cmd' = [cmd EXCEPT ![w] = c] /\ UNCHANGED <<revision, progress, sessionStep>>
      BY <2>3 DEF ReleaseLease
    <3>3. leases' \in [Scopes -> Lease]
      <4>1. NoLease \in Lease
        BY DEF NoLease, Lease, Owners
      <4> QED
        BY <1>2, <2>3, <4>1 DEF ReleaseLease
    <3> HIDE DEF c
    <3> QED
      BY <1>2, <2>0, <3>1, <3>2, <3>3, TypedMove
  <2> QED
    BY <1>4, <2>1, <2>2, <2>3 DEF Underneath, DirectReturn
<1>5. ASSUME NEW w \in Writers, DirectAccept(w)
      PROVE  DirectTypes'
  <2>1. /\ files' \in Document /\ stage' \in [Writers -> Stages]
        /\ status' \in [Writers -> {"synced", "stale"}] /\ held' \in [Writers -> Document]
    BY <1>1, <1>5, NoDocumentType DEF DirectAccept, Go, Stages
  <2> QED
    BY <1>5, <2>1, TypedCommit, TypedMove DEF DirectAccept
<1>6. ASSUME NEW w \in Writers, DirectCrash(w)
      PROVE  DirectTypes'
  <2>1. /\ files' \in Document /\ stage' \in [Writers -> Stages]
        /\ status' \in [Writers -> {"synced", "stale"}] /\ held' \in [Writers -> Document]
    BY <1>1, <1>6, NoDocumentType DEF DirectCrash, Go, Stages
  <2>2. leases' \in [Scopes -> Lease]
    BY <1>2, <1>6 DEF DirectCrash, Crash, Orphaned, Lease, Owners
  <2> QED
    BY <1>2, <1>3, <1>6, <2>1, <2>2, IdleType, TypedMove DEF DirectCrash, Crash
<1>7. ASSUME NEW w \in Writers,
             \/ ProjectRead(w) \/ ProjectWrite(w) \/ ProjectionFails(w)
             \/ ProjectionValidates(w) \/ ProjectionReportsStale(w)
             \/ SyncRead(w) \/ SyncSessionRead(w)
      PROVE  DirectTypes'
  <2>1. UNCHANGED vars
    BY <1>7 DEF ProjectRead, ProjectWrite, ProjectionFails, ProjectionValidates,
                ProjectionReportsStale, SyncRead, SyncSessionRead
  <2>2. \E s \in Stages, d \in Document : Go(w, s, d)
    <3>1. /\ [NoDocument EXCEPT !.progress = files.progress] \in Document
          /\ [NoDocument EXCEPT !.step = files.step] \in Document
      BY <1>1, NoDocumentType DEF Document
    <3> QED
      BY <1>2, <1>7, <3>1, NoDocumentType
         DEF ProjectRead, ProjectWrite, ProjectionFails, ProjectionValidates,
             ProjectionReportsStale, SyncRead, SyncSessionRead, Stages
  <2>3. stage' \in [Writers -> Stages] /\ held' \in [Writers -> Document]
    BY <1>1, <2>2 DEF Go
  <2>4. files' \in Document
    <3>1. [files EXCEPT !.progress = held[w].progress] \in Document
      BY <1>1 DEF Document
    <3> QED
      BY <1>1, <1>7, <3>1
         DEF ProjectRead, ProjectWrite, ProjectionFails, ProjectionValidates,
             ProjectionReportsStale, SyncRead, SyncSessionRead
  <2>5. status' \in [Writers -> {"synced", "stale"}]
    BY <1>1, <1>7
       DEF ProjectRead, ProjectWrite, ProjectionFails, ProjectionValidates,
           ProjectionReportsStale, SyncRead, SyncSessionRead
  <2> QED
    BY <2>1, <2>3, <2>4, <2>5 DEF DirectTypes, DirectTypeOK, TypeOK, vars
<1>8. ASSUME NEW w \in Writers, SyncUpsert(w) \/ SyncSessionUpsert(w)
      PROVE  DirectTypes'
  <2>1. /\ stage' \in [Writers -> Stages] /\ held' \in [Writers -> Document]
        /\ UNCHANGED <<revision, leases, cmd, files, status>>
    BY <1>1, <1>8, NoDocumentType DEF SyncUpsert, SyncSessionUpsert, Go, Stages
  <2>2. progress' \in Progress /\ sessionStep' \in [Sessions -> Steps \cup {NoStep}]
    BY <1>1, <1>2, <1>8 DEF SyncUpsert, SyncSessionUpsert, Document
  <2> QED
    BY <2>1, <2>2 DEF DirectTypes, DirectTypeOK, TypeOK
<1>9. CASE DirectTick
  <2>1. leases' \in [Scopes -> Lease]
    BY <1>2, <1>9 DEF DirectTick, Tick, Lease
  <2> QED
    BY <1>9, <2>1 DEF DirectTick, Tick, DirectTypes, DirectTypeOK, TypeOK
<1>10. CASE UNCHANGED directVars
  BY <1>10 DEF directVars, vars, DirectTypes, DirectTypeOK, TypeOK
<1> QED
  BY <1>4, <1>5, <1>6, <1>7, <1>8, <1>9, <1>10 DEF DirectNext

\* With any number of processes, sessions and steps, and whatever stale files
\* are written back, the store, the files and the processes keep their types.
THEOREM DirectTypesHold == DirectSpec => []DirectTypeOK
<1>1. DirectInit => DirectTypes
  <2> SUFFICES ASSUME DirectInit PROVE DirectTypes
    OBVIOUS
  <2>1. DirectInv
    BY DirectInitInvariant
  <2>2. \A w \in Writers : StepNamed(cmd[w])
    BY DEF DirectInit, Init, Idle, StepNamed
  <2> QED
    BY <2>1, <2>2 DEF DirectInv, FilesInv, FilesTypeOK, IInv, DirectTypes, DirectTypeOK
<1>2. DirectTypes => DirectTypeOK
  BY DEF DirectTypes
<1> QED
  BY <1>1, <1>2, TypedStep, PTL DEF DirectSpec

=============================================================================
