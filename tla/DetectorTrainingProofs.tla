----------------------- MODULE DetectorTrainingProofs -----------------------
(***************************************************************************)
(* What is proved of the export, of the labels and splits made from it, of *)
(* the choice of a detector, and of the model a scoring worker serves: for *)
(* any topics, detectors and scores, and any number of threads, training   *)
(* runs, interrupted exports, interrupted saves and restarts.              *)
(***************************************************************************)
EXTENDS DetectorTraining, FiniteSetTheorems, TLAPS

-----------------------------------------------------------------------------
(* The inductive invariant *)

\* The files and what is loaded from them carry numbers of training runs.
FilesOK ==
    /\ runs \in 0..MaxRuns
    /\ model \in Run /\ metadata \in Run /\ reference \in Run /\ saving \in Run
    /\ loading \in Loaded /\ cache \in Loaded
    /\ got \in [Thread -> Loaded]
    /\ at \in [Thread -> Steps]
    /\ lock \in SUBSET Thread

Inside(t) == at[t] \notin {"idle", "missed"}

\* One thread loads at a time.
LockHeld ==
    /\ \A t \in Thread : Inside(t) <=> t \in lock
    /\ \A t, u \in lock : t = u

\* Whoever is past the second look at the cache has seen it empty, and it
\* stays empty until that thread fills it.
CacheSeenEmpty ==
    \A t \in Thread : at[t] \in {"described", "verified", "unpickled"} => cache = NotLoaded

\* A digest that has been checked holds until the file is replaced.
DigestHolds ==
    \A t \in Thread :
        /\ at[t] = "verified" => loading.metadata = model \/ loading.replaced
        /\ at[t] = "unpickled" => loading.metadata = loading.model \/ loading.replaced

IInv ==
    /\ FilesOK /\ LockHeld /\ CacheSeenEmpty /\ DigestHolds
    /\ OneModelPerProcess /\ ServedModelVerified

-----------------------------------------------------------------------------
(* The steps of the export and the training leave the artefact alone *)

LEMMA ArtifactKept ==
    ASSUME IInv, UNCHANGED artifactVars, runs' \in 0..MaxRuns
    PROVE  IInv'
BY DEF IInv, artifactVars, fileVars, loadVars, FilesOK, LockHeld, Inside, CacheSeenEmpty,
       DigestHolds, OneModelPerProcess, ServedModelVerified

LEMMA ExportKeeps ==
    ASSUME Export PROVE UNCHANGED artifactVars /\ runs' = runs
BY DEF Export, BeginExport, Poll, IdlePoll, EndDrain, ReadLabels, WriteSamples, WriteLabels,
       WriteManifest, CrashExport, unchangedByExport, trainingVars

-----------------------------------------------------------------------------
(* The save *)

LEMMA SaveStep ==
    ASSUME IInv, Save, runs' = runs
    PROVE  IInv'
<1>1. CASE WriteModel
  <2>1. /\ model' = saving /\ loading' = [loading EXCEPT !.replaced = lock # {}]
        /\ UNCHANGED <<metadata, reference, saving, at, lock, cache, got>>
    BY <1>1 DEF WriteModel
  <2>2. loading' \in Loaded
    BY <2>1 DEF IInv, FilesOK, Loaded
  <2>3. FilesOK'
    BY <2>1, <2>2 DEF IInv, FilesOK
  <2>4. ASSUME NEW t \in Thread, Inside(t) PROVE loading'.replaced = TRUE
    <3>1. lock # {}
      BY <2>4 DEF IInv, LockHeld
    <3> QED
      BY <2>1, <3>1 DEF IInv, FilesOK, Loaded
  <2>5. DigestHolds'
    BY <2>1, <2>4 DEF DigestHolds, Inside
  <2> QED
    BY <2>1, <2>3, <2>5
       DEF IInv, LockHeld, Inside, CacheSeenEmpty, OneModelPerProcess, ServedModelVerified
<1>2. CASE WriteMetadata \/ WriteReference \/ CrashSaving
  <2>1. /\ model' = model /\ UNCHANGED loadVars
        /\ metadata' \in {metadata, saving} /\ reference' \in {reference, saving}
        /\ saving' \in {saving, 0}
    BY <1>2 DEF WriteMetadata, WriteReference, CrashSaving, fileVars
  <2>2. FilesOK'
    BY <2>1, ArtifactAssumption DEF IInv, FilesOK, Run, loadVars, ArtifactAssumption
  <2> QED
    BY <2>1, <2>2
       DEF IInv, loadVars, LockHeld, Inside, CacheSeenEmpty, DigestHolds,
           OneModelPerProcess, ServedModelVerified
<1> QED
  BY <1>1, <1>2 DEF Save

-----------------------------------------------------------------------------
(* The load *)

LEMMA NothingIsLoaded == NotLoaded \in Loaded
BY ArtifactAssumption DEF NotLoaded, Loaded, Run, ArtifactAssumption

\* A thread leaves the lock with what is in the cache, or with what it had.
LEMMA ReturnStep ==
    ASSUME IInv, NEW t \in lock, NEW r \in Loaded, Return(t, r),
           UNCHANGED <<fileVars, saving>>, runs' = runs,
           \/ cache' = cache /\ r \in {cache, got[t]}
           \/ /\ cache = NotLoaded /\ cache' = r
              /\ r.model # r.metadata => r.replaced
    PROVE  IInv'
<1>1. /\ t \in Thread /\ at' = [at EXCEPT ![t] = "idle"] /\ lock' = lock \ {t}
      /\ loading' = NotLoaded /\ got' = [got EXCEPT ![t] = r]
      /\ model' = model /\ metadata' = metadata /\ reference' = reference
      /\ saving' = saving
  BY DEF Return, Goto, fileVars, IInv, FilesOK
<1>2. lock' = {} /\ \A u \in Thread : u # t => u \notin lock
  BY <1>1 DEF IInv, LockHeld
<1>3. \A u \in Thread : at'[u] = IF u = t THEN "idle" ELSE at[u]
  BY <1>1 DEF IInv, FilesOK
<1>4. \A u \in Thread : ~Inside(u)'
  BY <1>2, <1>3 DEF IInv, LockHeld, Inside
<1>5. cache' \in Loaded
  BY DEF IInv, FilesOK
<1>6. FilesOK'
  <2>1. at' \in [Thread -> Steps]
    BY <1>1 DEF IInv, FilesOK, Steps
  <2>2. got' \in [Thread -> Loaded] /\ lock' \in SUBSET Thread
    BY <1>1, <1>2 DEF IInv, FilesOK
  <2> QED
    BY <1>1, <1>5, <2>1, <2>2, NothingIsLoaded DEF IInv, FilesOK
<1>7. LockHeld' /\ CacheSeenEmpty' /\ DigestHolds'
  BY <1>2, <1>4 DEF LockHeld, CacheSeenEmpty, DigestHolds, Inside
<1>8. \A u \in Thread : got'[u] = IF u = t THEN r ELSE got[u]
  BY <1>1 DEF IInv, FilesOK
<1>9. OneModelPerProcess'
  <2>1. CASE cache' = cache /\ r \in {cache, got[t]}
    BY <1>1, <1>8, <2>1 DEF IInv, OneModelPerProcess
  <2>2. CASE cache = NotLoaded /\ cache' = r
    BY <1>8, <2>2 DEF IInv, OneModelPerProcess
  <2> QED
    BY <2>1, <2>2
<1>10. ServedModelVerified'
  BY DEF IInv, ServedModelVerified
<1> QED
  BY <1>6, <1>7, <1>9, <1>10 DEF IInv

LEMMA RefuseStep ==
    ASSUME IInv, NEW t \in lock, Refuse(t), UNCHANGED <<fileVars, saving>>, runs' = runs
    PROVE  IInv'
<1>1. got[t] \in Loaded
  BY DEF IInv, FilesOK
<1> QED
  BY <1>1, ReturnStep DEF Refuse

\* A thread goes on in the lock, or up to it.
LEMMA LookUpStep ==
    ASSUME IInv, NEW t \in Thread, LookUp(t), runs' = runs
    PROVE  IInv'
<1>1. /\ at[t] = "idle" /\ lock' = lock /\ loading' = loading /\ cache' = cache
      /\ model' = model /\ metadata' = metadata /\ reference' = reference
      /\ saving' = saving
      /\ \/ got' = [got EXCEPT ![t] = cache] /\ at' = at
         \/ got' = got /\ at' = [at EXCEPT ![t] = "missed"]
  BY DEF LookUp, Goto, fileVars
<1>2. \A u \in Thread : /\ at'[u] = at[u] \/ (u = t /\ at'[u] = "missed")
                        /\ got'[u] \in {got[u], cache}
  BY <1>1 DEF IInv, FilesOK
<1>3. FilesOK'
  <2>1. at' \in [Thread -> Steps] /\ got' \in [Thread -> Loaded]
    BY <1>1 DEF IInv, FilesOK, Steps
  <2> QED
    BY <1>1, <2>1 DEF IInv, FilesOK
<1>4. \A u \in Thread : Inside(u)' <=> Inside(u)
  BY <1>1, <1>2 DEF Inside
<1>5. LockHeld' /\ CacheSeenEmpty' /\ DigestHolds'
  BY <1>1, <1>2, <1>4 DEF IInv, LockHeld, CacheSeenEmpty, DigestHolds
<1>6. OneModelPerProcess' /\ ServedModelVerified'
  BY <1>1, <1>2 DEF IInv, OneModelPerProcess, ServedModelVerified
<1> QED
  BY <1>3, <1>5, <1>6 DEF IInv

LEMMA AcquireStep ==
    ASSUME IInv, NEW t \in Thread, Acquire(t), runs' = runs
    PROVE  IInv'
<1>1. /\ at[t] = "missed" /\ lock = {} /\ lock' = {t} /\ at' = [at EXCEPT ![t] = "locked"]
      /\ loading' = loading /\ cache' = cache /\ got' = got
      /\ model' = model /\ metadata' = metadata /\ reference' = reference
      /\ saving' = saving
  BY DEF Acquire, Goto, fileVars
<1>2. \A u \in Thread : at'[u] = IF u = t THEN "locked" ELSE at[u]
  BY <1>1 DEF IInv, FilesOK
<1>3. FilesOK'
  BY <1>1 DEF IInv, FilesOK, Steps
<1>4. LockHeld'
  BY <1>1, <1>2 DEF IInv, LockHeld, Inside
<1> QED
  BY <1>1, <1>2, <1>3, <1>4
     DEF IInv, CacheSeenEmpty, DigestHolds, OneModelPerProcess, ServedModelVerified

\* The thread that holds the lock goes on.
Advances(t, step) ==
    /\ Goto(t, step)
    /\ UNCHANGED <<fileVars, saving, lock, cache, got>>

LEMMA AdvanceStep ==
    ASSUME IInv, NEW t \in lock, NEW step \in {"described", "verified", "unpickled"},
           Advances(t, step), loading' \in Loaded, runs' = runs, cache = NotLoaded,
           step = "verified" => loading'.metadata = model \/ loading'.replaced,
           step = "unpickled" => loading'.metadata = loading'.model \/ loading'.replaced
    PROVE  IInv'
<1>1. /\ t \in Thread /\ at' = [at EXCEPT ![t] = step] /\ lock' = lock /\ cache' = cache
      /\ got' = got /\ model' = model /\ metadata' = metadata /\ reference' = reference
      /\ saving' = saving
  BY DEF Advances, Goto, fileVars, IInv, FilesOK
<1>2. \A u \in Thread : at'[u] = IF u = t THEN step ELSE at[u]
  BY <1>1 DEF IInv, FilesOK
<1>3. \A u \in Thread : u # t => ~Inside(u)
  BY <1>1 DEF IInv, LockHeld
<1>4. \A u \in Thread : Inside(u)' <=> Inside(u)
  BY <1>1, <1>2 DEF IInv, LockHeld, Inside
<1>5. FilesOK'
  <2>1. at' \in [Thread -> Steps]
    BY <1>1 DEF IInv, FilesOK, Steps
  <2> QED
    BY <1>1, <2>1 DEF IInv, FilesOK
<1>6. LockHeld'
  BY <1>1, <1>4 DEF IInv, LockHeld
<1>7. CacheSeenEmpty' /\ OneModelPerProcess' /\ ServedModelVerified'
  BY <1>1 DEF IInv, CacheSeenEmpty, OneModelPerProcess, ServedModelVerified
<1>8. DigestHolds'
  BY <1>1, <1>2, <1>3 DEF DigestHolds, Inside
<1> QED
  BY <1>5, <1>6, <1>7, <1>8 DEF IInv

LEMMA LoadStep ==
    ASSUME IInv, Load, runs' = runs
    PROVE  IInv'
<1>1. ASSUME NEW t \in Thread, LookUp(t) \/ Acquire(t) PROVE IInv'
  BY <1>1, LookUpStep, AcquireStep
<1>2. ASSUME NEW t \in Thread, ReadMetadata(t) PROVE IInv'
  <2>1. t \in lock /\ UNCHANGED <<fileVars, saving>>
    BY <1>2 DEF ReadMetadata, IInv, LockHeld, Inside
  <2>2. CASE CachedMeanwhile
    <3>1. Return(t, cache) /\ cache' = cache /\ cache \in Loaded
      BY <1>2, <2>2 DEF ReadMetadata, IInv, FilesOK
    <3> QED
      BY <2>1, <3>1, ReturnStep
  <2>3. CASE ~CachedMeanwhile /\ metadata = 0
    <3>1. Refuse(t)
      BY <1>2, <2>3 DEF ReadMetadata
    <3> QED
      BY <2>1, <3>1, RefuseStep
  <2>4. CASE ~CachedMeanwhile /\ metadata # 0
    <3>1. /\ loading' = [NotLoaded EXCEPT !.metadata = metadata]
          /\ Advances(t, "described") /\ cache = NotLoaded
      BY <1>2, <2>1, <2>4 DEF ReadMetadata, Advances, CachedMeanwhile
    <3>2. loading' \in Loaded
      BY <3>1, NothingIsLoaded DEF IInv, FilesOK, Loaded
    <3> QED
      BY <2>1, <3>1, <3>2, AdvanceStep
  <2> QED
    BY <2>2, <2>3, <2>4
<1>3. ASSUME NEW t \in Thread, VerifyDigest(t) PROVE IInv'
  <2>1. /\ t \in lock /\ cache = NotLoaded /\ UNCHANGED <<fileVars, saving>>
        /\ loading \in Loaded
    BY <1>3 DEF VerifyDigest, IInv, FilesOK, LockHeld, Inside, CacheSeenEmpty
  <2>2. CASE ~DigestMatches
    <3>1. Refuse(t)
      BY <1>3, <2>2 DEF VerifyDigest
    <3> QED
      BY <2>1, <3>1, RefuseStep
  <2>3. CASE DigestMatches
    <3>1. /\ loading' = loading /\ loading.metadata = model
          /\ Advances(t, "verified")
      BY <1>3, <2>1, <2>3 DEF VerifyDigest, Advances, DigestMatches
    <3> QED
      BY <2>1, <3>1, AdvanceStep
  <2> QED
    BY <2>2, <2>3
<1>4. ASSUME NEW t \in Thread, Unpickle(t) PROVE IInv'
  <2>1. /\ t \in lock /\ cache = NotLoaded /\ loading \in Loaded /\ model \in Run
        /\ loading.metadata = model \/ loading.replaced
    BY <1>4 DEF Unpickle, IInv, FilesOK, LockHeld, Inside, CacheSeenEmpty, DigestHolds
  <2>2. loading' = [loading EXCEPT !.model = model] /\ Advances(t, "unpickled")
    BY <1>4 DEF Unpickle, Advances
  <2>3. /\ loading' \in Loaded
        /\ loading'.metadata = loading'.model \/ loading'.replaced
    BY <2>1, <2>2 DEF Loaded
  <2> QED
    BY <2>1, <2>2, <2>3, AdvanceStep
<1>5. ASSUME NEW t \in Thread, CacheModel(t) PROVE IInv'
  <2>1. /\ t \in lock /\ cache = NotLoaded /\ loading \in Loaded /\ reference \in Run
        /\ loading.metadata = loading.model \/ loading.replaced
        /\ UNCHANGED <<fileVars, saving>>
    BY <1>5 DEF CacheModel, IInv, FilesOK, LockHeld, Inside, CacheSeenEmpty, DigestHolds
  <2>2. CASE reference = 0
    <3>1. Refuse(t)
      BY <1>5, <2>2 DEF CacheModel
    <3> QED
      BY <2>1, <3>1, RefuseStep
  <2>3. CASE reference # 0
    <3> DEFINE loaded == [loading EXCEPT !.reference = reference]
    <3>1. cache' = loaded /\ Return(t, loaded)
      BY <1>5, <2>3 DEF CacheModel
    <3>2. loaded \in Loaded /\ (loaded.model # loaded.metadata => loaded.replaced)
      BY <2>1 DEF Loaded
    <3> QED
      BY <2>1, <3>1, <3>2, ReturnStep
  <2> QED
    BY <2>2, <2>3
<1> QED
  BY <1>1, <1>2, <1>3, <1>4, <1>5 DEF Load

LEMMA RestartStep ==
    ASSUME IInv, RestartWorker, runs' = runs
    PROVE  IInv'
<1>1. /\ at' = [t \in Thread |-> "idle"] /\ lock' = {} /\ loading' = NotLoaded
      /\ cache' = NotLoaded /\ got' = [t \in Thread |-> NotLoaded]
      /\ model' = model /\ metadata' = metadata /\ reference' = reference
      /\ saving' = saving
  BY DEF RestartWorker, fileVars
<1>2. FilesOK'
  BY <1>1, NothingIsLoaded DEF IInv, FilesOK, Steps
<1> QED
  BY <1>1, <1>2
     DEF IInv, LockHeld, Inside, CacheSeenEmpty, DigestHolds, OneModelPerProcess,
         ServedModelVerified

-----------------------------------------------------------------------------
(* The theorems *)

LEMMA InitOK == Init => IInv
<1> SUFFICES ASSUME Init PROVE IInv
  OBVIOUS
<1>1. /\ model = 0 /\ metadata = 0 /\ reference = 0 /\ saving = 0 /\ runs = 0
      /\ at = [t \in Thread |-> "idle"] /\ lock = {} /\ loading = NotLoaded
      /\ cache = NotLoaded /\ got = [t \in Thread |-> NotLoaded]
  BY DEF Init, ArtifactInit
<1>2. FilesOK
  BY <1>1, NothingIsLoaded, ArtifactAssumption DEF FilesOK, Run, Steps, ArtifactAssumption
<1> QED
  BY <1>1, <1>2
     DEF IInv, LockHeld, Inside, CacheSeenEmpty, DigestHolds, OneModelPerProcess,
         ServedModelVerified

\* The load is exclusive and the digest it has checked holds, whatever is
\* saved, interrupted or restarted between its steps.
THEOREM Invariance == Spec => []IInv
<1>1. IInv /\ [Next]_vars => IInv'
  <2> SUFFICES ASSUME IInv, [Next]_vars PROVE IInv'
    OBVIOUS
  <2>0. runs \in 0..MaxRuns
    BY DEF IInv, FilesOK
  <2>1. CASE Export \/ (\E p \in Partition : Produce(p)) \/ UNCHANGED vars
    <3>1. UNCHANGED artifactVars /\ runs' = runs
      BY <2>1, ExportKeeps DEF Produce, vars, trainingVars
    <3> QED
      BY <2>0, <3>1, ArtifactKept
  <2>2. CASE Train
    <3>1. UNCHANGED artifactVars /\ runs < MaxRuns /\ runs' = runs + 1
      BY <2>2 DEF Train
    <3>2. runs' \in 0..MaxRuns
      BY <2>0, <3>1, ArtifactAssumption DEF ArtifactAssumption
    <3> QED
      BY <3>1, <3>2, ArtifactKept
  <2>3. CASE BeginSave
    <3>1. /\ saving' \in {runs, 0} /\ runs' = runs /\ UNCHANGED <<fileVars, loadVars>>
      BY <2>3 DEF BeginSave
    <3>2. FilesOK'
      BY <2>0, <3>1, ArtifactAssumption
         DEF IInv, FilesOK, Run, fileVars, loadVars, ArtifactAssumption
    <3> QED
      BY <3>1, <3>2
         DEF IInv, fileVars, loadVars, LockHeld, Inside, CacheSeenEmpty, DigestHolds,
             OneModelPerProcess, ServedModelVerified
  <2>4. CASE (Save \/ Serve) /\ runs' = runs
    BY <2>4, SaveStep, LoadStep, RestartStep DEF Serve
  <2> QED
    BY <2>1, <2>2, <2>3, <2>4 DEF Next, trainingVars
<1> QED
  BY InitOK, <1>1, PTL DEF Spec

LEMMA ArtifactTyped ==
    ASSUME IInv
    PROVE  ArtifactTypeOK
<1>1. Cardinality(lock) <= 1
  <2>1. CASE lock = {}
    BY <2>1, FS_EmptySet
  <2>2. ASSUME NEW t \in lock PROVE Cardinality(lock) <= 1
    <3>1. lock = {t}
      BY <2>2 DEF IInv, LockHeld
    <3>2. Cardinality({t}) = 1
      BY FS_Singleton
    <3> QED
      BY <3>1, <3>2
  <2> QED
    BY <2>1, <2>2
<1> QED
  BY <1>1 DEF IInv, FilesOK, LockHeld, Inside, ArtifactTypeOK

\* The files, the locks and the cache keep their types.
THEOREM ArtifactTypeCorrect == Spec => []ArtifactTypeOK
<1>1. IInv => ArtifactTypeOK
  BY ArtifactTyped
<1> QED
  BY <1>1, Invariance, PTL

\* All the threads of a worker process score with one model, however their
\* first batches race for the load.
THEOREM OneModel == Spec => []OneModelPerProcess
<1>1. IInv => OneModelPerProcess
  BY DEF IInv
<1> QED
  BY <1>1, Invariance, PTL

\* A worker serves the model its metadata describe unless a training run has
\* replaced the file during the load.
THEOREM Verified == Spec => []ServedModelVerified
<1>1. IInv => ServedModelVerified
  BY DEF IInv
<1> QED
  BY <1>1, Invariance, PTL

-----------------------------------------------------------------------------
(* The dataset: the inductive invariant *)

Decoded(bound) == {r \in Below(bound) : Decodes(Message(r))}
Anomalous(bound) == {r \in Below(bound) : Message(r).episode # Null}

\* Every decodable message below the bound once.
Complete(rows, bound) ==
    \A r \in Decoded(bound) : Cardinality({x \in rows : Message(x).id = Message(r).id}) = 1

\* Offsets never pass what was produced, nor that the end of the topic.
OffsetsOK ==
    /\ log \in Logs
    /\ high \in [Partition -> Nat] /\ ends \in [Partition -> Nat] /\ next \in [Partition -> Nat]
    /\ \A p \in Partition : high[p] <= Len(log[p]) /\ ends[p] <= high[p] /\ next[p] <= high[p]

Written == phase \in {"samples", "labels"}

\* A partition leaves "remaining" only when its captured end is read.
DrainTold ==
    /\ phase = "draining" => \A p \in Partition : p \in remaining \/ ends[p] <= next[p]
    /\ phase \in {"drained", "read"} \/ Written => cut \/ \A p \in Partition : ends[p] <= next[p]

DatasetTold ==
    /\ Written => samples = Deduplicated(Decoded(next))
    /\ phase = "read" \/ Written => cut \/ ends # Whole \/ labelled = Anomalous(Whole)
    /\ phase = "labels" => labels = Deduplicated(labelled)

ManifestTold == manifest = Null \/ manifest.cut \/ Complete(manifest.samples, manifest.ends)

DataInv == OffsetsOK /\ DrainTold /\ DatasetTold /\ ManifestTold

-----------------------------------------------------------------------------
(* Messages and their copies *)

LEMMA LeastIsMember ==
    ASSUME NEW T \in SUBSET Nat, T # {}
    PROVE  \E n \in T : \A k \in T : n <= k
<1> DEFINE R == StrictSubsetOrdering(Nat)
           F == {0..k : k \in T}
<1>1. IsWellFoundedOn(R, FiniteSubsetsOf(Nat))
  BY FS_StrictSubsetOrderingWellFounded
<1>2. F \subseteq FiniteSubsetsOf(Nat) /\ F # {}
  <2>1. ASSUME NEW k \in T PROVE 0..k \in FiniteSubsetsOf(Nat)
    <3>1. IsFiniteSet(0..k) /\ 0..k \in SUBSET Nat
      BY FS_Interval
    <3> QED
      BY <3>1 DEF FiniteSubsetsOf
  <2> QED
    BY <2>1
<1>3. PICK x \in F : \A y \in F : ~(<<y, x>> \in R)
  <2> HIDE DEF R, F
  <2> QED
    BY <1>1, <1>2, WFMin
<1>4. PICK n \in T : x = 0..n
  OBVIOUS
<1>5. \A k \in T : n <= k
  <2> SUFFICES ASSUME NEW k \in T, k < n PROVE FALSE
    OBVIOUS
  <2>1. 0..k \in F /\ 0..k \subseteq 0..n /\ 0..k # 0..n
    OBVIOUS
  <2>2. <<0..k, 0..n>> \in R
    BY <2>1 DEF StrictSubsetOrdering
  <2> QED
    BY <1>3, <1>4, <2>1, <2>2
<1> QED
  BY <1>5

\* An offset below a bound is a partition and the place of a message in it.
LEMMA Offsets ==
    ASSUME log \in Logs, NEW bound \in [Partition -> Nat],
           \A p \in Partition : bound[p] <= Len(log[p]),
           NEW r \in Below(bound)
    PROVE  /\ r[1] \in Partition /\ r[2] \in 1..bound[r[1]] /\ r = <<r[1], r[2]>>
           /\ r[2] \in DOMAIN log[r[1]] /\ Message(r) \in Range(log[r[1]])
<1>1. PICK p \in Partition : r \in {p} \X (1..bound[p])
  BY DEF Below
<1>2. r = <<p, r[2]>> /\ r[1] = p /\ r[2] \in 1..bound[p]
  BY <1>1
<1>3. DOMAIN log[p] = 1..Len(log[p]) /\ Len(log[p]) \in Nat
  BY LogsAssumption
<1>4. bound[p] \in Nat /\ bound[p] <= Len(log[p])
  OBVIOUS
<1>5. r[2] \in DOMAIN log[p]
  BY <1>2, <1>3, <1>4
<1> QED
  BY <1>2, <1>5 DEF Message, Range

\* Copies of a message are in one partition and say the same.
LEMMA CopiesAgree ==
    ASSUME log \in Logs, NEW bound \in [Partition -> Nat],
           \A p \in Partition : bound[p] <= Len(log[p]),
           NEW r \in Below(bound), NEW x \in Below(bound)
    PROVE  /\ Message(x).machine = Message(r).machine => x[1] = r[1]
           /\ Message(x).id = Message(r).id => Message(x) = Message(r) /\ x[1] = r[1]
<1>1. /\ r[1] \in Partition /\ Message(r) \in Range(log[r[1]])
      /\ x[1] \in Partition /\ Message(x) \in Range(log[x[1]])
  BY Offsets
<1> QED
  BY <1>1, LogsAssumption

LEMMA MessagesTyped ==
    ASSUME log \in Logs, NEW bound \in [Partition -> Nat],
           \A p \in Partition : bound[p] <= Len(log[p]),
           NEW r \in Below(bound)
    PROVE  Message(r).time \in Nat /\ (Message(r).episode # Null => Decodes(Message(r)))
BY Offsets, LogsAssumption

\* Dropping copies keeps exactly one of each.
LEMMA KeptOnce ==
    ASSUME log \in Logs, NEW bound \in [Partition -> Nat],
           \A p \in Partition : bound[p] <= Len(log[p]),
           NEW rows \in SUBSET Below(bound), NEW r \in rows
    PROVE  Cardinality({x \in Deduplicated(rows) : Message(x).id = Message(r).id}) = 1
<1> DEFINE copies == {x \in rows : Message(x).id = Message(r).id}
           T == {x[2] : x \in copies}
<1>1. r \in copies /\ copies \subseteq Below(bound)
  OBVIOUS
<1>2. \A x \in copies : x = <<r[1], x[2]>> /\ x[2] \in Nat
  BY Offsets, CopiesAgree
<1>3. T \in SUBSET Nat /\ T # {}
  BY <1>1, <1>2
<1>4. PICK n \in T : \A k \in T : n <= k
  <2> HIDE DEF T
  <2> QED
    BY <1>3, LeastIsMember
<1>5. PICK y \in copies : y[2] = n
  OBVIOUS
<1>6. y \in Deduplicated(rows)
  BY <1>4, <1>5 DEF Deduplicated
<1>7. ASSUME NEW x \in Deduplicated(rows), Message(x).id = Message(r).id
      PROVE  x = y
  <2>1. x \in copies /\ x[2] <= y[2] /\ y[2] <= x[2]
    BY <1>4, <1>5, <1>7 DEF Deduplicated
  <2>2. x[2] = y[2]
    BY <1>2, <2>1
  <2> QED
    BY <1>2, <2>1, <2>2
<1>8. {x \in Deduplicated(rows) : Message(x).id = Message(r).id} = {y}
  BY <1>5, <1>6, <1>7
<1> QED
  BY <1>8, FS_Singleton

LEMMA DrainedIsComplete ==
    ASSUME log \in Logs, ends \in [Partition -> Nat], next \in [Partition -> Nat],
           \A p \in Partition : ends[p] <= next[p] /\ next[p] <= Len(log[p])
    PROVE  Complete(Deduplicated(Decoded(next)), ends)
<1> SUFFICES ASSUME NEW r \in Decoded(ends)
             PROVE  Cardinality({x \in Deduplicated(Decoded(next)) :
                                    Message(x).id = Message(r).id}) = 1
  BY DEF Complete
<1>1. r \in Below(next)
  BY DEF Decoded, Below
<1>2. r \in Decoded(next) /\ Decoded(next) \in SUBSET Below(next)
  BY <1>1 DEF Decoded
<1> QED
  BY <1>2, KeptOnce

-----------------------------------------------------------------------------
(* The dataset: the steps *)

\* The four variables the offsets are made of stay what they are.
LEMMA TopicKept ==
    ASSUME UNCHANGED log
    PROVE  /\ Whole' = Whole
           /\ \A bound : Decoded(bound)' = Decoded(bound) /\ Anomalous(bound)' = Anomalous(bound)
           /\ \A rows : Deduplicated(rows)' = Deduplicated(rows)
           /\ \A rows, bound : Complete(rows, bound)' = Complete(rows, bound)
BY DEF Whole, Decoded, Anomalous, Below, Message, Deduplicated, Complete

\* An export forgets its drain when it ends, and what it wrote no longer
\* counts.
LEMMA ForgetStep ==
    ASSUME DataInv, Forget, UNCHANGED <<log, high>>, ManifestTold'
    PROVE  DataInv'
<1>1. /\ phase' = "none" /\ ends' = None /\ next' = None /\ log' = log /\ high' = high
  BY DEF Forget
<1>2. \A p \in Partition : high[p] \in Nat /\ high[p] <= Len(log[p])
  BY DEF DataInv, OffsetsOK
<1>3. None \in [Partition -> Nat] /\ \A p \in Partition : None[p] = 0
  BY DEF None
<1>4. OffsetsOK'
  <2>1. \A p \in Partition : None[p] <= high[p]
    BY <1>2, <1>3
  <2> QED
    BY <1>1, <1>2, <1>3, <2>1 DEF DataInv, OffsetsOK
<1> QED
  BY <1>1, <1>4 DEF DataInv, DrainTold, DatasetTold, Written

\* Steps that touch neither the drain nor the dataset.
LEMMA DataKept ==
    ASSUME DataInv, UNCHANGED <<log, high, phase, drainVars, datasetVars>>
    PROVE  DataInv'
<1>1. /\ log' = log /\ high' = high /\ phase' = phase /\ ends' = ends /\ next' = next
      /\ remaining' = remaining /\ labelled' = labelled /\ cut' = cut
      /\ samples' = samples /\ labels' = labels /\ manifest' = manifest
  BY DEF drainVars, datasetVars
<1>2. OffsetsOK' /\ DrainTold'
  BY <1>1 DEF DataInv, OffsetsOK, DrainTold, Written
<1>3. DatasetTold'
  BY <1>1, TopicKept DEF DataInv, DatasetTold, Written
<1>4. ManifestTold'
  BY <1>1, TopicKept DEF DataInv, ManifestTold
<1> QED
  BY <1>2, <1>3, <1>4 DEF DataInv

LEMMA ProduceData ==
    ASSUME DataInv, NEW p \in Partition, Produce(p)
    PROVE  DataInv'
<1>1. /\ high[p] < Len(log[p]) /\ high' = [high EXCEPT ![p] = @ + 1]
      /\ log' = log /\ phase' = phase /\ ends' = ends /\ next' = next
      /\ remaining' = remaining /\ labelled' = labelled /\ cut' = cut
      /\ samples' = samples /\ labels' = labels /\ manifest' = manifest
  BY DEF Produce, drainVars, datasetVars
<1>2. OffsetsOK'
  <2>1. /\ high \in [Partition -> Nat] /\ ends \in [Partition -> Nat]
        /\ next \in [Partition -> Nat] /\ log \in Logs
        /\ \A q \in Partition : high[q] <= Len(log[q]) /\ ends[q] <= high[q] /\ next[q] <= high[q]
    BY DEF DataInv, OffsetsOK
  <2>2. Len(log[p]) \in Nat
    BY <2>1, LogsAssumption
  <2>3. high' \in [Partition -> Nat]
    BY <1>1, <2>1
  <2>4. ASSUME NEW q \in Partition
        PROVE  high'[q] <= Len(log[q]) /\ ends[q] <= high'[q] /\ next[q] <= high'[q]
    <3>1. high'[q] = IF q = p THEN high[q] + 1 ELSE high[q]
      BY <1>1, <2>1
    <3> QED
      BY <1>1, <2>1, <2>2, <3>1
  <2> QED
    BY <1>1, <2>1, <2>3, <2>4 DEF OffsetsOK
<1>3. DrainTold'
  BY <1>1 DEF DataInv, DrainTold, Written
<1>4. DatasetTold' /\ ManifestTold'
  BY <1>1, TopicKept DEF DataInv, DatasetTold, ManifestTold, Written
<1> QED
  BY <1>2, <1>3, <1>4 DEF DataInv

LEMMA BeginData ==
    ASSUME DataInv, BeginExport
    PROVE  DataInv'
<1>1. /\ log' = log /\ high' = high /\ phase' = "draining" /\ ends' = high /\ next' = next
      /\ remaining' = {p \in Partition : high[p] > 0} /\ manifest' = manifest
  BY DEF BeginExport, datasetVars
<1>2. /\ high \in [Partition -> Nat] /\ next \in [Partition -> Nat]
      /\ \A q \in Partition : high[q] <= Len(log[q]) /\ next[q] <= high[q]
  BY DEF DataInv, OffsetsOK
<1>3. OffsetsOK'
  <2>1. \A q \in Partition : high[q] <= high[q]
    BY <1>2
  <2> QED
    BY <1>1, <1>2, <2>1 DEF DataInv, OffsetsOK
<1>4. DrainTold'
  <2>1. ASSUME NEW q \in Partition, ~(high[q] > 0) PROVE high[q] <= next[q]
    <3>1. high[q] \in Nat /\ next[q] \in Nat
      BY <1>2
    <3> QED
      BY <2>1, <3>1
  <2> QED
    BY <1>1, <2>1 DEF DrainTold, Written
<1>5. DatasetTold'
  BY <1>1 DEF DatasetTold, Written
<1>6. ManifestTold'
  BY <1>1, TopicKept DEF DataInv, ManifestTold
<1> QED
  BY <1>3, <1>4, <1>5, <1>6 DEF DataInv

\* The drain's own steps write nothing.
LEMMA DrainData ==
    ASSUME DataInv, UNCHANGED <<log, high, ends, samples, labels, manifest>>,
           ~Written', phase' # "read",
           next' \in [Partition -> Nat], \A p \in Partition : next'[p] <= high[p],
           DrainTold'
    PROVE  DataInv'
<1>1. OffsetsOK'
  BY DEF DataInv, OffsetsOK
<1>2. DatasetTold'
  BY DEF DatasetTold, Written
<1>3. ManifestTold'
  BY TopicKept DEF DataInv, ManifestTold
<1> QED
  BY <1>1, <1>2, <1>3 DEF DataInv

LEMMA PollData ==
    ASSUME DataInv, NEW p \in Partition, Poll(p)
    PROVE  DataInv'
<1>1. /\ phase = "draining" /\ next[p] < high[p] /\ next' = [next EXCEPT ![p] = @ + 1]
      /\ remaining' = IF next[p] + 1 >= ends[p] THEN remaining \ {p} ELSE remaining
      /\ log' = log /\ high' = high /\ phase' = phase /\ ends' = ends
      /\ samples' = samples /\ labels' = labels /\ manifest' = manifest
  BY DEF Poll, Draining, ReachesEnd, unchangedByExport, datasetVars
<1>2. /\ next \in [Partition -> Nat] /\ high \in [Partition -> Nat] /\ ends \in [Partition -> Nat]
      /\ \A q \in Partition : next[q] <= high[q]
  BY DEF DataInv, OffsetsOK
<1>3. next' \in [Partition -> Nat]
  BY <1>1, <1>2
<1>4. \A q \in Partition : next'[q] = IF q = p THEN next[q] + 1 ELSE next[q]
  BY <1>1, <1>2
<1>5. \A q \in Partition : next'[q] <= high[q] /\ next[q] <= next'[q]
  BY <1>1, <1>2, <1>4
<1>6. ASSUME NEW q \in Partition PROVE q \in remaining' \/ ends[q] <= next'[q]
  <2>1. q \in remaining \/ ends[q] <= next[q]
    BY <1>1 DEF DataInv, DrainTold
  <2>2. CASE ends[q] <= next[q]
    BY <1>2, <1>3, <1>5, <2>2
  <2>3. CASE q \in remaining /\ q # p
    BY <1>1, <2>3
  <2>4. CASE q \in remaining /\ q = p
    BY <1>1, <1>2, <1>4, <2>4
  <2> QED
    BY <2>1, <2>2, <2>3, <2>4
<1>7. DrainTold' /\ ~Written' /\ phase' # "read"
  BY <1>1, <1>6 DEF DrainTold, Written
<1> QED
  BY <1>1, <1>3, <1>5, <1>7, DrainData

LEMMA IdlePollData ==
    ASSUME DataInv, IdlePoll
    PROVE  DataInv'
<1>1. /\ phase' = phase /\ ends' = ends /\ next' = next /\ remaining' = remaining
      /\ labelled' = labelled /\ cut' = cut /\ log' = log /\ high' = high
      /\ phase = "draining" /\ samples' = samples /\ labels' = labels /\ manifest' = manifest
  BY DEF IdlePoll, Draining, unchangedByExport, datasetVars
<1>2. DrainTold' /\ ~Written' /\ phase' # "read"
  BY <1>1 DEF DataInv, DrainTold, Written
<1> QED
  BY <1>1, <1>2, DrainData DEF DataInv, OffsetsOK

LEMMA EndDrainData ==
    ASSUME DataInv, EndDrain
    PROVE  DataInv'
<1>1. /\ phase = "draining" /\ phase' = "drained" /\ cut' = (remaining # {})
      /\ ends' = ends /\ next' = next /\ remaining' = remaining /\ log' = log /\ high' = high
      /\ samples' = samples /\ labels' = labels /\ manifest' = manifest
  BY DEF EndDrain, unchangedByExport, datasetVars
<1>2. remaining # {} \/ \A p \in Partition : ends[p] <= next[p]
  BY <1>1 DEF DataInv, DrainTold
<1>3. cut' \/ \A p \in Partition : ends[p] <= next[p]
  BY <1>1, <1>2
<1>4. DrainTold' /\ ~Written' /\ phase' # "read"
  BY <1>1, <1>3 DEF DrainTold, Written
<1> QED
  BY <1>1, <1>4, DrainData DEF DataInv, OffsetsOK

\* The labels are complete when the read of them is not cut and nothing was
\* produced behind the captured ends.
LEMMA ReadLabelsData ==
    ASSUME DataInv, ReadLabels
    PROVE  DataInv'
<1>1. /\ phase = "drained" /\ phase' = "read" /\ ends' = ends /\ next' = next
      /\ log' = log /\ high' = high /\ manifest' = manifest
  BY DEF ReadLabels, unchangedByExport, datasetVars
<1>2. cut' = (cut \/ labelled' # Anomalous(high))
  BY DEF ReadLabels, Anomalous
<1>3. OffsetsOK'
  BY <1>1 DEF DataInv, OffsetsOK
<1>4. DrainTold'
  <2>1. cut \/ \A p \in Partition : ends[p] <= next[p]
    BY <1>1 DEF DataInv, DrainTold
  <2>2. cut' \/ \A p \in Partition : ends[p] <= next[p]
    BY <1>2, <2>1
  <2> QED
    BY <1>1, <2>2 DEF DrainTold, Written
<1>5. DatasetTold'
  <2>1. ASSUME ends = Whole PROVE high = Whole
    <3>1. /\ high \in [Partition -> Nat] /\ log \in Logs
          /\ \A p \in Partition : high[p] <= Len(log[p]) /\ ends[p] <= high[p]
      BY DEF DataInv, OffsetsOK
    <3>2. \A p \in Partition : Len(log[p]) \in Nat /\ ends[p] = Len(log[p])
      BY <2>1, <3>1, LogsAssumption DEF Whole
    <3>3. \A p \in Partition : high[p] = Len(log[p])
      BY <3>1, <3>2
    <3> QED
      BY <3>1, <3>3 DEF Whole
  <2>2. cut' \/ ends # Whole \/ labelled' = Anomalous(Whole)
    BY <1>2, <2>1
  <2> QED
    BY <1>1, <2>2, TopicKept DEF DatasetTold, Written
<1>6. ManifestTold'
  BY <1>1, TopicKept DEF DataInv, ManifestTold
<1> QED
  BY <1>3, <1>4, <1>5, <1>6 DEF DataInv

LEMMA WriteSamplesData ==
    ASSUME DataInv, WriteSamples
    PROVE  DataInv'
<1>1. /\ phase = "read" /\ log' = log /\ high' = high /\ manifest' = manifest
      /\ \/ Forget
         \/ /\ samples' = Deduplicated(Decoded(next)) /\ phase' = "samples"
            /\ ends' = ends /\ next' = next /\ labelled' = labelled /\ cut' = cut
  BY DEF WriteSamples, Decoded, unchangedByExport, drainVars
<1>2. ManifestTold'
  BY <1>1, TopicKept DEF DataInv, ManifestTold
<1>3. CASE Forget
  BY <1>1, <1>2, <1>3, ForgetStep
<1>4. CASE ~Forget
  <2>1. OffsetsOK' /\ DrainTold'
    BY <1>1, <1>4 DEF DataInv, OffsetsOK, DrainTold, Written
  <2>2. DatasetTold'
    BY <1>1, <1>4, TopicKept DEF DataInv, DatasetTold, Written
  <2> QED
    BY <1>2, <2>1, <2>2 DEF DataInv
<1> QED
  BY <1>3, <1>4

LEMMA WriteLabelsData ==
    ASSUME DataInv, WriteLabels
    PROVE  DataInv'
<1>1. /\ phase = "samples" /\ phase' = "labels" /\ labels' = Deduplicated(labelled)
      /\ log' = log /\ high' = high /\ manifest' = manifest /\ ends' = ends /\ next' = next
      /\ labelled' = labelled /\ cut' = cut /\ samples' = samples
  BY DEF WriteLabels, unchangedByExport, drainVars
<1>2. OffsetsOK' /\ DrainTold'
  BY <1>1 DEF DataInv, OffsetsOK, DrainTold, Written
<1>3. DatasetTold'
  BY <1>1, TopicKept DEF DataInv, DatasetTold, Written
<1>4. ManifestTold'
  BY <1>1, TopicKept DEF DataInv, ManifestTold
<1> QED
  BY <1>2, <1>3, <1>4 DEF DataInv

LEMMA WriteManifestData ==
    ASSUME DataInv, WriteManifest
    PROVE  DataInv'
<1>1. /\ phase = "labels" /\ Forget /\ log' = log /\ high' = high
      /\ manifest' = [ends |-> ends, samples |-> samples, labels |-> labels, cut |-> cut]
  BY DEF WriteManifest, unchangedByExport
<1>2. cut \/ Complete(samples, ends)
  <2>1. samples = Deduplicated(Decoded(next)) /\ (cut \/ \A p \in Partition : ends[p] <= next[p])
    BY <1>1 DEF DataInv, DrainTold, DatasetTold, Written
  <2>2. /\ log \in Logs /\ high \in [Partition -> Nat] /\ ends \in [Partition -> Nat]
        /\ next \in [Partition -> Nat]
        /\ \A p \in Partition : next[p] <= high[p] /\ high[p] <= Len(log[p])
    BY DEF DataInv, OffsetsOK
  <2>3. \A p \in Partition : next[p] <= Len(log[p])
    <3>1. \A p \in Partition : Len(log[p]) \in Nat
      BY <2>2, LogsAssumption
    <3> QED
      BY <2>2, <3>1
  <2>4. ASSUME \A p \in Partition : ends[p] <= next[p]
        PROVE  Complete(Deduplicated(Decoded(next)), ends)
    BY <2>2, <2>3, <2>4, DrainedIsComplete
  <2> QED
    BY <2>1, <2>4
<1>3. manifest'.cut = cut /\ manifest'.samples = samples /\ manifest'.ends = ends
  BY <1>1
<1>4. ManifestTold'
  <2>1. manifest'.cut \/ Complete(manifest'.samples, manifest'.ends)
    BY <1>2, <1>3
  <2> QED
    BY <1>1, <2>1, TopicKept DEF ManifestTold
<1> QED
  BY <1>1, <1>4, ForgetStep

LEMMA CrashExportData ==
    ASSUME DataInv, CrashExport
    PROVE  DataInv'
<1>1. Forget /\ log' = log /\ high' = high /\ manifest' = manifest
  BY DEF CrashExport, unchangedByExport, datasetVars
<1>2. ManifestTold'
  BY <1>1, TopicKept DEF DataInv, ManifestTold
<1> QED
  BY <1>1, <1>2, ForgetStep

LEMMA DataInit == Init => DataInv
<1> SUFFICES ASSUME Init PROVE DataInv
  OBVIOUS
<1>1. PICK behind \in SUBSET {p \in Partition : log[p] # <<>>} :
          high = [p \in Partition |-> Len(log[p]) - (IF p \in behind THEN 1 ELSE 0)]
  BY DEF Init
<1>2. /\ log \in Logs /\ phase = "none" /\ ends = None /\ next = None /\ manifest = Null
  BY DEF Init
<1>3. ASSUME NEW p \in Partition PROVE high[p] \in Nat /\ high[p] <= Len(log[p])
  <2>1. Len(log[p]) \in Nat /\ (log[p] # <<>> => Len(log[p]) > 0)
    BY <1>2, LogsAssumption
  <2>2. high[p] = Len(log[p]) \/ (log[p] # <<>> /\ high[p] = Len(log[p]) - 1)
    <3>1. high[p] = Len(log[p]) - (IF p \in behind THEN 1 ELSE 0)
      BY <1>1
    <3>2. CASE p \in behind
      BY <3>1, <3>2
    <3>3. CASE p \notin behind
      BY <2>1, <3>1, <3>3
    <3> QED
      BY <3>2, <3>3
  <2> QED
    BY <2>1, <2>2
<1>4. high \in [Partition -> Nat] /\ None \in [Partition -> Nat] /\ \A p \in Partition : None[p] = 0
  BY <1>1, <1>3 DEF None
<1>5. \A p \in Partition : None[p] <= high[p]
  BY <1>3, <1>4
<1> QED
  BY <1>2, <1>3, <1>4, <1>5 DEF DataInv, OffsetsOK, DrainTold, DatasetTold, Written, ManifestTold

\* Whatever is produced, delivered twice, polled past an end or interrupted
\* meanwhile, the export's files are what its offsets say.
THEOREM DataInvariance == Spec => []DataInv
<1>1. DataInv /\ [Next]_vars => DataInv'
  <2> SUFFICES ASSUME DataInv, [Next]_vars PROVE DataInv'
    OBVIOUS
  <2>1. CASE Export
    BY <2>1, BeginData, PollData, IdlePollData, EndDrainData, ReadLabelsData, WriteSamplesData,
       WriteLabelsData, WriteManifestData, CrashExportData DEF Export
  <2>2. CASE \E p \in Partition : Produce(p)
    BY <2>2, ProduceData
  <2>3. CASE Train
    BY <2>3, DataKept DEF Train
  <2>4. CASE BeginSave
    BY <2>4, DataKept DEF BeginSave, drainVars, datasetVars
  <2>5. CASE UNCHANGED <<log, high, phase, drainVars, datasetVars, trainingVars, exports>>
    BY <2>5, DataKept
  <2>6. CASE UNCHANGED vars
    BY <2>6, DataKept DEF vars
  <2> QED
    BY <2>1, <2>2, <2>3, <2>4, <2>5, <2>6 DEF Next
<1> QED
  BY DataInit, <1>1, PTL DEF Spec

\* A dataset that matches its manifest is complete unless a drain was cut.
THEOREM CompleteSnapshot == Spec => []SnapshotComplete
<1>1. DataInv => SnapshotComplete
  <2> SUFFICES ASSUME DataInv, manifest # Null, manifest.samples = samples, ~manifest.cut,
                      NEW r \in {x \in Below(manifest.ends) : Decodes(Message(x))}
               PROVE  Cardinality({x \in samples : Message(x).id = Message(r).id}) = 1
    BY DEF SnapshotComplete
  <2>1. Complete(manifest.samples, manifest.ends) /\ r \in Decoded(manifest.ends)
    BY DEF DataInv, ManifestTold, Decoded
  <2> QED
    BY <2>1 DEF Complete
<1> QED
  BY <1>1, DataInvariance, PTL


-----------------------------------------------------------------------------
(* Windows of the splits *)

\* A window of a split holds the samples of its machine and its slot in the
\* slice.
LEMMA WindowRows ==
    ASSUME NEW split \in Split, NEW w \in Range(Labelled(split))
    PROVE  \E v : /\ w.rows = {r \in SliceOf(samples, split) : v \in KeysOf(r, split)}
                  /\ w.anomaly <=>
                        100 * Cardinality({r \in SliceOf(labels, split) : v \in KeysOf(r, split)})
                            >= MinFraction * Cardinality(w.rows)
<1> DEFINE windows == WindowsOf(samples, split)
           truth == WindowsOf(labels, split)
           of(v) == IF v \in DOMAIN truth THEN truth[v] ELSE {}
           first(rows) == CHOOSE r \in rows : \A x \in rows : Message(r).time <= Message(x).time
           row(v) == [rows |-> windows[v],
                      anomaly |-> 100 * Cardinality(of(v)) >= MinFraction * Cardinality(windows[v]),
                      episode |-> IF of(v) = {} THEN Null ELSE Message(first(of(v))).episode]
           scorable == {v \in DOMAIN windows : Scorable(windows[v])}
<1>1. Labelled(split) = [v \in scorable |-> row(v)]
  BY DEF Labelled
<1>2. PICK v \in scorable : w = row(v)
  <2> HIDE DEF scorable, row
  <2> QED
    BY <1>1 DEF Range
<1>3. windows[v] = {r \in SliceOf(samples, split) : v \in KeysOf(r, split)}
  BY DEF WindowsOf
<1>4. of(v) = {r \in SliceOf(labels, split) : v \in KeysOf(r, split)}
  <2>1. CASE v \in DOMAIN truth
    BY <2>1 DEF WindowsOf
  <2>2. CASE v \notin DOMAIN truth
    <3>1. \A r \in SliceOf(labels, split) : v \notin KeysOf(r, split)
      BY <2>2 DEF WindowsOf
    <3> QED
      BY <2>2, <3>1
  <2> QED
    BY <2>1, <2>2
<1>5. w.rows = windows[v]
  BY <1>2
<1>6. w.anomaly = (100 * Cardinality(of(v)) >= MinFraction * Cardinality(windows[v]))
  BY <1>2
<1> QED
  BY <1>3, <1>4, <1>5, <1>6

\* The slices follow one another.
LEMMA SlicesApart ==
    ASSUME NEW r \in samples, \A x \in samples : Message(x).time \in Nat,
           NEW a \in Split, NEW b \in Split, a # b,
           r \in SliceOf(samples, a), r \in SliceOf(samples, b)
    PROVE  FALSE
<1> DEFINE T == {Message(x).time : x \in samples}
<1>1. Origin \in Nat
  <2>1. T \in SUBSET Nat /\ T # {}
    OBVIOUS
  <2>2. \E n \in T : \A k \in T : n <= k
    <3> HIDE DEF T
    <3> QED
      BY <2>1, LeastIsMember
  <2>3. Min(T) \in T
    <3> HIDE DEF T
    <3> QED
      BY <2>2 DEF Min
  <2> QED
    BY <2>1, <2>3 DEF Origin
<1>2. TrainEnd \in Nat /\ ValidationEnd \in Nat /\ TrainEnd < ValidationEnd
  BY TrainingAssumption DEF TrainingAssumption
<1>3. /\ From("validation") = Origin + TrainEnd /\ From("test") = Origin + ValidationEnd
      /\ To("train") = Origin + TrainEnd /\ To("validation") = Origin + ValidationEnd
  BY DEF From, To
<1>4. \A s \in Split : r \in SliceOf(samples, s) => From(s) <= Message(r).time /\ Message(r).time < To(s)
  BY DEF SliceOf
<1>5. Message(r).time \in Nat
  OBVIOUS
<1>6. a \in {"train", "validation", "test"} /\ b \in {"train", "validation", "test"}
  BY DEF Split
<1> QED
  BY <1>1, <1>2, <1>3, <1>4, <1>5, <1>6 DEF Split

LEMMA SamplesTyped ==
    ASSUME DataInv, Written
    PROVE  /\ samples = Deduplicated(Decoded(next)) /\ samples \subseteq Decoded(next)
           /\ log \in Logs /\ next \in [Partition -> Nat]
           /\ \A p \in Partition : next[p] <= Len(log[p])
           /\ \A r \in samples : r \in Below(next) /\ Message(r).time \in Nat
<1>1. samples = Deduplicated(Decoded(next)) /\ samples \subseteq Decoded(next)
  BY DEF DataInv, DatasetTold, Deduplicated
<1>2. /\ log \in Logs /\ high \in [Partition -> Nat] /\ next \in [Partition -> Nat]
      /\ \A p \in Partition : next[p] <= high[p] /\ high[p] <= Len(log[p])
  BY DEF DataInv, OffsetsOK
<1>3. \A p \in Partition : next[p] <= Len(log[p])
  <2>1. \A p \in Partition : Len(log[p]) \in Nat
    BY <1>2, LogsAssumption
  <2> QED
    BY <1>2, <2>1
<1>4. \A r \in samples : r \in Below(next)
  BY <1>1 DEF Decoded
<1> QED
  BY <1>1, <1>2, <1>3, <1>4, MessagesTyped

\* Overlapping windows carry no sample from one split into another.
THEOREM SplitsApart == Spec => []NoLeak
<1>1. DataInv => NoLeak
  <2> SUFFICES ASSUME DataInv, phase = "labels", NEW a \in Split, NEW b \in Split, a # b,
                      NEW u \in Range(Labelled(a)), NEW w \in Range(Labelled(b)),
                      NEW r \in u.rows, r \in w.rows
               PROVE  FALSE
    BY DEF NoLeak
  <2>1. r \in SliceOf(samples, a) /\ r \in SliceOf(samples, b)
    BY WindowRows
  <2>2. r \in samples
    BY <2>1 DEF SliceOf
  <2>3. \A x \in samples : Message(x).time \in Nat
    BY SamplesTyped DEF Written
  <2> QED
    BY <2>1, <2>2, <2>3, SlicesApart
<1> QED
  BY <1>1, DataInvariance, PTL

-----------------------------------------------------------------------------
(* Labels of the windows *)

\* The samples kept are distinct messages.
LEMMA SamplesDistinct ==
    ASSUME DataInv, Written, NEW r \in samples, NEW x \in samples, Message(r) = Message(x)
    PROVE  r = x
<1>1. r[2] <= x[2] /\ x[2] <= r[2]
  <2>1. samples = Deduplicated(Decoded(next))
    BY SamplesTyped
  <2> QED
    BY <2>1 DEF Deduplicated
<1>2. r \in Below(next) /\ x \in Below(next)
  BY SamplesTyped
<1>3. r = <<r[1], r[2]>> /\ x = <<x[1], x[2]>> /\ r[2] \in Nat /\ x[2] \in Nat
  BY <1>2, SamplesTyped, Offsets
<1>4. x[1] = r[1]
  BY <1>2, SamplesTyped, CopiesAgree
<1>5. r[2] = x[2]
  BY <1>1, <1>3
<1> QED
  BY <1>3, <1>4, <1>5

\* As many messages as samples, and finitely many of one machine.
LEMMA CountMessages ==
    ASSUME DataInv, Written, NEW rows \in SUBSET samples, NEW m,
           \A r \in rows : Message(r).machine = m
    PROVE  IsFiniteSet(rows) /\ Cardinality({Message(r) : r \in rows}) = Cardinality(rows)
<1> DEFINE events == {Message(r) : r \in rows}
           f == [r \in rows |-> Message(r)]
<1>1. IsFiniteSet(rows)
  <2>1. CASE rows = {}
    BY <2>1, FS_EmptySet
  <2>2. ASSUME NEW r \in rows PROVE IsFiniteSet(rows)
    <3>1. \A x \in rows : /\ x \in Below(next) /\ r \in Below(next)
                          /\ Message(x).machine = Message(r).machine
      BY <2>2, SamplesTyped
    <3>2. \A x \in rows : x[1] = r[1]
      BY <3>1, SamplesTyped, CopiesAgree
    <3>3. \A x \in rows : x = <<x[1], x[2]>> /\ x[2] \in 1..next[x[1]] /\ x[1] \in Partition
      BY <3>1, SamplesTyped, Offsets
    <3>4. rows \subseteq {r[1]} \X (1..next[r[1]])
      BY <3>2, <3>3
    <3>5. next[r[1]] \in Nat
      BY <2>2, <3>3, SamplesTyped
    <3>6. IsFiniteSet({r[1]}) /\ IsFiniteSet(1..next[r[1]])
      <4>1. 1 \in Int /\ next[r[1]] \in Int
        BY <3>5
      <4>2. IsFiniteSet(1..next[r[1]])
        BY <4>1, FS_Interval
      <4> QED
        BY <4>2, FS_Singleton
    <3>7. IsFiniteSet({r[1]} \X (1..next[r[1]]))
      BY <3>6, FS_Product
    <3> QED
      BY <3>4, <3>7, FS_Subset
  <2> QED
    BY <2>1, <2>2
<1>2. \A r, x \in rows : Message(r) = Message(x) => r = x
  BY SamplesDistinct
<1>3. f \in Bijection(rows, events)
  BY <1>2 DEF Bijection, Injection, Surjection, IsInjective
<1> QED
  BY <1>1, <1>3, FS_Bijection DEF ExistsBijection

\* Copies of a label are dropped like those of its sample.
LEMMA LabelsAreTruth ==
    ASSUME DataInv, phase = "labels", ~cut, ends = Whole
    PROVE  labels = {r \in samples : Message(r).episode # Null}
<1>1. /\ labels = Deduplicated(labelled) /\ labelled = Anomalous(Whole)
      /\ samples = Deduplicated(Decoded(next)) /\ \A p \in Partition : ends[p] <= next[p]
  BY DEF DataInv, DatasetTold, DrainTold, Written
<1>2. /\ log \in Logs /\ next \in [Partition -> Nat]
      /\ \A p \in Partition : next[p] <= Len(log[p])
  BY SamplesTyped DEF Written
<1>3. next = Whole
  <2>1. \A p \in Partition : Len(log[p]) \in Nat /\ ends[p] = Len(log[p])
    BY <1>2, LogsAssumption DEF Whole
  <2>2. \A p \in Partition : next[p] = Len(log[p])
    BY <1>1, <1>2, <2>1
  <2> QED
    BY <1>2, <2>2 DEF Whole
<1>4. \A r, x \in Below(next) : Message(x).id = Message(r).id => Message(x) = Message(r)
  BY <1>2, CopiesAgree
<1>5. \A r \in Below(next) : Message(r).episode # Null => Decodes(Message(r))
  BY <1>2, MessagesTyped
<1>6. ASSUME NEW r PROVE r \in labels <=> r \in samples /\ Message(r).episode # Null
  <2>1. r \in labels <=> /\ r \in Below(next) /\ Message(r).episode # Null
                         /\ \A x \in Below(next) : Message(x).episode # Null =>
                               (Message(x).id = Message(r).id => r[2] <= x[2])
    BY <1>1, <1>3 DEF Deduplicated, Anomalous
  <2>2. r \in samples <=> /\ r \in Below(next) /\ Decodes(Message(r))
                          /\ \A x \in Below(next) : Decodes(Message(x)) =>
                                (Message(x).id = Message(r).id => r[2] <= x[2])
    BY <1>1 DEF Deduplicated, Decoded
  <2>3. ASSUME r \in Below(next), Message(r).episode # Null, NEW x \in Below(next),
               Message(x).id = Message(r).id
        PROVE  Message(x).episode # Null /\ Decodes(Message(x)) /\ Decodes(Message(r))
    <3>1. Message(x) = Message(r)
      BY <1>4, <2>3
    <3> QED
      BY <1>5, <2>3, <3>1
  <2> QED
    BY <1>5, <2>1, <2>2, <2>3
<1> QED
  BY <1>6

\* The label of a window is the truth of the distinct samples in it.
THEOREM GroundTruth == Spec => []GroundTruthAligned
<1>1. DataInv => GroundTruthAligned
  <2> SUFFICES ASSUME DataInv, phase = "labels", ~cut, ends = Whole,
                      NEW split \in Split, NEW w \in Range(Labelled(split))
               PROVE  LET events == {Message(r) : r \in w.rows}
                      IN  w.anomaly <=> 100 * Cardinality({m \in events : m.episode # Null})
                                            >= MinFraction * Cardinality(events)
    BY DEF GroundTruthAligned
  <2> DEFINE events == {Message(r) : r \in w.rows}
  <2>1. PICK v : /\ w.rows = {r \in SliceOf(samples, split) : v \in KeysOf(r, split)}
                 /\ w.anomaly <=>
                      100 * Cardinality({r \in SliceOf(labels, split) : v \in KeysOf(r, split)})
                          >= MinFraction * Cardinality(w.rows)
    BY WindowRows
  <2> DEFINE true == {r \in w.rows : Message(r).episode # Null}
  <2>2. {r \in SliceOf(labels, split) : v \in KeysOf(r, split)} = true
    BY <2>1, LabelsAreTruth DEF SliceOf
  <2>3. w.rows \in SUBSET samples /\ true \in SUBSET samples
    BY <2>1 DEF SliceOf
  <2>4. \A r \in w.rows : Message(r).machine = v[1]
    BY <2>1 DEF KeysOf
  <2>5. Cardinality(events) = Cardinality(w.rows)
    BY <2>3, <2>4, CountMessages DEF Written
  <2>6. Cardinality({Message(r) : r \in true}) = Cardinality(true)
    <3>1. \A r \in true : Message(r).machine = v[1]
      BY <2>4
    <3> HIDE DEF true
    <3> QED
      BY <2>3, <3>1, CountMessages DEF Written
  <2>7. {m \in events : m.episode # Null} = {Message(r) : r \in true}
    OBVIOUS
  <2> QED
    BY <2>1, <2>2, <2>5, <2>6, <2>7
<1> QED
  BY <1>1, DataInvariance, PTL

-----------------------------------------------------------------------------
(* The training: the windows it judges candidates on *)

Judged == DOMAIN validation

\* Finitely many windows, which every detector scores.
FitsTold ==
    fits = <<>> \/ /\ DOMAIN fits = Candidate
                   /\ \A c \in Candidate : fits[c] \in Scores \cup {Null}
                   /\ IsFiniteSet(Judged) /\ Judged # {}
                   /\ \A f \in Scores : \A w \in Judged : f[w] \in Nat

TrainInv == samples \subseteq Below(Whole) /\ FitsTold

LEMMA ImageFinite ==
    ASSUME NEW f, IsFiniteSet(DOMAIN f)
    PROVE  IsFiniteSet({f[x] : x \in DOMAIN f})
<1> DEFINE T == {f[x] : x \in DOMAIN f}
           g == [x \in DOMAIN f |-> f[x]]
<1>1. g \in Surjection(DOMAIN f, T)
  BY DEF Surjection
<1> QED
  BY <1>1, FS_Surjection

\* Of a finite set some member has nothing above it.
LEMMA Undominated ==
    ASSUME NEW S, IsFiniteSet(S), S # {}, NEW R,
           \A x \in S : <<x, x>> \notin R,
           \A x, y, z \in S : <<x, y>> \in R /\ <<y, z>> \in R => <<x, z>> \in R
    PROVE  \E x \in S : \A y \in S : <<y, x>> \notin R
<1> DEFINE Over(x) == {y \in S : <<y, x>> \in R}
           Q == StrictSubsetOrdering(S)
           F == {Over(x) : x \in S}
<1>1. IsWellFoundedOn(Q, FiniteSubsetsOf(S))
  BY FS_StrictSubsetOrderingWellFounded
<1>2. F \subseteq FiniteSubsetsOf(S) /\ F # {}
  <2>1. ASSUME NEW x \in S PROVE Over(x) \in FiniteSubsetsOf(S)
    <3>1. Over(x) \subseteq S
      OBVIOUS
    <3> QED
      BY <3>1, FS_Subset DEF FiniteSubsetsOf
  <2>2. PICK x \in S : TRUE
    OBVIOUS
  <2>3. Over(x) \in F
    OBVIOUS
  <2> HIDE DEF Over
  <2> QED
    BY <2>1, <2>3
<1>3. PICK u \in F : \A v \in F : ~(<<v, u>> \in Q)
  <2> HIDE DEF Q, F
  <2> QED
    BY <1>1, <1>2, WFMin
<1>4. PICK x \in S : u = Over(x)
  OBVIOUS
<1>5. ASSUME NEW y \in S, <<y, x>> \in R PROVE FALSE
  <2>1. Over(y) \subseteq Over(x) /\ y \in Over(x) /\ y \notin Over(y)
    BY <1>5
  <2>2. Over(y) \subseteq S /\ Over(x) \subseteq S /\ Over(y) # Over(x)
    BY <2>1
  <2>3. <<Over(y), Over(x)>> \in Q
    BY <2>1, <2>2 DEF StrictSubsetOrdering
  <2> QED
    BY <1>3, <1>4, <2>3
<1> QED
  BY <1>5

\* What is below the ends of the topics is finite.
LEMMA TopicFinite ==
    ASSUME log \in Logs
    PROVE  IsFiniteSet(Below(Whole))
<1> DEFINE f == [p \in Partition |-> {p} \X (1..Whole[p])]
<1>1. ASSUME NEW p \in Partition PROVE IsFiniteSet({p} \X (1..Whole[p]))
  <2>1. Whole[p] \in Int /\ 1 \in Int
    BY LogsAssumption DEF Whole
  <2>2. IsFiniteSet(1..Whole[p])
    BY <2>1, FS_Interval
  <2>3. IsFiniteSet({p})
    BY FS_Singleton
  <2> QED
    BY <2>2, <2>3, FS_Product
<1>2. IsFiniteSet({f[p] : p \in DOMAIN f})
  <2>1. IsFiniteSet(DOMAIN f)
    BY ScoresAssumption
  <2> HIDE DEF f
  <2> QED
    BY <2>1, ImageFinite
<1>3. {f[p] : p \in DOMAIN f} = {{p} \X (1..Whole[p]) : p \in Partition}
  OBVIOUS
<1> QED
  BY <1>1, <1>2, <1>3, FS_UNION DEF Below

LEMMA SlotsFinite ==
    ASSUME NEW time
    PROVE  IsFiniteSet(Assigned(time, WindowLen, Slide))
<1> DEFINE K == 0..((WindowLen \div Slide) - 1)
           f == [k \in K |-> (time \div Slide) * Slide - k * Slide]
<1>1. IsFiniteSet(K)
  <2>1. WindowLen \in Nat /\ Slide \in Nat /\ Slide > 0
    BY ContractAssumption DEF ContractAssumption
  <2>2. (WindowLen \div Slide) - 1 \in Int /\ 0 \in Int
    BY <2>1
  <2> QED
    BY <2>2, FS_Interval
<1>2. IsFiniteSet({f[k] : k \in DOMAIN f})
  <2>1. IsFiniteSet(DOMAIN f)
    BY <1>1
  <2> HIDE DEF f
  <2> QED
    BY <2>1, ImageFinite
<1>3. {f[k] : k \in DOMAIN f} = Assigned(time, WindowLen, Slide)
  BY DEF Assigned
<1> QED
  BY <1>2, <1>3

\* The windows of the validation are finitely many, and those of messages.
LEMMA JudgedTyped ==
    ASSUME log \in Logs, samples \subseteq Below(Whole)
    PROVE  /\ IsFiniteSet(DOMAIN Labelled("validation"))
           /\ \A f \in Scores : \A w \in DOMAIN Labelled("validation") : f[w] \in Nat
<1> DEFINE slice == SliceOf(samples, "validation")
           f == [r \in slice |-> KeysOf(r, "validation")]
           keys == UNION {KeysOf(r, "validation") : r \in slice}
<1>1. slice \subseteq samples
  BY DEF SliceOf
<1>2. DOMAIN Labelled("validation") \subseteq keys
  BY DEF Labelled, WindowsOf
<1>3. \A r : KeysOf(r, "validation") = {Message(r).machine} \X Assigned(Message(r).time, WindowLen, Slide)
  BY DEF KeysOf, SlideOf
<1>4. IsFiniteSet(keys)
  <2>1. IsFiniteSet(slice)
    BY <1>1, TopicFinite, FS_Subset
  <2>2. IsFiniteSet({f[r] : r \in DOMAIN f})
    <3>1. IsFiniteSet(DOMAIN f)
      BY <2>1
    <3> HIDE DEF f
    <3> QED
      BY <3>1, ImageFinite
  <2>3. {f[r] : r \in DOMAIN f} = {KeysOf(r, "validation") : r \in slice}
    OBVIOUS
  <2>4. ASSUME NEW r PROVE IsFiniteSet(KeysOf(r, "validation"))
    <3>1. IsFiniteSet({Message(r).machine}) /\ IsFiniteSet(Assigned(Message(r).time, WindowLen, Slide))
      BY FS_Singleton, SlotsFinite
    <3> QED
      BY <1>3, <3>1, FS_Product
  <2> QED
    BY <2>2, <2>3, <2>4, FS_UNION
<1>5. ASSUME NEW g \in Scores, NEW w \in keys PROVE g[w] \in Nat
  <2>1. PICK r \in slice : w \in KeysOf(r, "validation")
    OBVIOUS
  <2>2. PICK s \in Assigned(Message(r).time, WindowLen, Slide) : w = <<Message(r).machine, s>>
    BY <1>3, <2>1
  <2>3. r[1] \in Partition /\ Message(r) \in Range(log[r[1]])
    <3>1. r \in Below(Whole)
      BY <1>1
    <3>2. Whole \in [Partition -> Nat] /\ \A p \in Partition : Whole[p] <= Len(log[p])
      BY LogsAssumption DEF Whole
    <3> QED
      BY <3>1, <3>2, Offsets
  <2> QED
    BY <2>2, <2>3, ScoresAssumption
<1> QED
  BY <1>2, <1>4, <1>5, FS_Subset

LEMMA TrainInit == Init => TrainInv
BY DEF Init, TrainInv, FitsTold

LEMMA SamplesStay ==
    ASSUME DataInv, samples \subseteq Below(Whole), [Next]_vars
    PROVE  samples' \subseteq Below(Whole)'
<1>1. log' = log
  BY DEF Next, Export, vars, Produce, BeginExport, Poll, IdlePoll, EndDrain, ReadLabels,
         WriteSamples, WriteLabels, WriteManifest, CrashExport, Train, BeginSave,
         unchangedByExport
<1>2. Below(Whole)' = Below(Whole)
  BY <1>1 DEF Below, Whole
<1>3. samples' = samples \/ samples' = Deduplicated(Decoded(next))
  BY DEF Next, Export, vars, datasetVars, Produce, BeginExport, Poll, IdlePoll, EndDrain,
         ReadLabels, WriteSamples, WriteLabels, WriteManifest, CrashExport, Train, BeginSave,
         Decoded
<1>4. Deduplicated(Decoded(next)) \subseteq Below(Whole)
  <2>1. /\ log \in Logs /\ high \in [Partition -> Nat] /\ next \in [Partition -> Nat]
        /\ \A p \in Partition : next[p] <= high[p] /\ high[p] <= Len(log[p])
    BY DEF DataInv, OffsetsOK
  <2>2. \A p \in Partition : Len(log[p]) \in Nat /\ Whole[p] = Len(log[p])
    BY <2>1, LogsAssumption DEF Whole
  <2>3. \A p \in Partition : 1..next[p] \subseteq 1..Whole[p]
    BY <2>1, <2>2
  <2>4. Below(next) \subseteq Below(Whole)
    BY <2>3 DEF Below
  <2> QED
    BY <2>4 DEF Deduplicated, Decoded
<1> QED
  BY <1>2, <1>3, <1>4

LEMMA EmptyFunction ==
    ASSUME NEW f, f = [x \in DOMAIN f |-> f[x]], DOMAIN f = {}
    PROVE  f = <<>>
OBVIOUS

LEMMA FitsStay ==
    ASSUME DataInv, TrainInv, [Next]_vars
    PROVE  FitsTold'
<1>1. CASE Train
  <2>1. validation' = Labelled("validation") /\ Labelled("validation") # <<>>
    BY <1>1 DEF Train, Split
  <2>2. DOMAIN fits' = Candidate /\ \A c \in Candidate : fits'[c] \in Scores \cup {Null}
    BY <1>1 DEF Train, Fitted
  <2>3. DOMAIN Labelled("validation") # {}
    <3> DEFINE f == Labelled("validation")
    <3>1. f = [w \in DOMAIN f |-> f[w]]
      BY DEF Labelled
    <3>2. f # <<>>
      BY <2>1
    <3>3. DOMAIN f # {}
      <4> HIDE DEF f
      <4> QED
        BY <3>1, <3>2, EmptyFunction
    <3> QED
      BY <3>3
  <2> QED
    BY <2>1, <2>2, <2>3, JudgedTyped DEF TrainInv, FitsTold, Judged, DataInv, OffsetsOK
<1>2. CASE BeginSave
  BY <1>2 DEF BeginSave, FitsTold
<1>3. CASE UNCHANGED <<validation, fits>>
  BY <1>3 DEF TrainInv, FitsTold, Judged
<1> QED
  BY <1>1, <1>2, <1>3
     DEF Next, Export, vars, Produce, BeginExport, Poll, IdlePoll, EndDrain, ReadLabels,
         WriteSamples, WriteLabels, WriteManifest, CrashExport, trainingVars,
         unchangedByExport

\* The dataset's samples are messages of the topics, and what candidates are
\* judged on is what they were fitted for.
THEOREM TrainingInvariance == Spec => [](DataInv /\ TrainInv)
<1>1. (DataInv /\ TrainInv) /\ [Next]_vars => TrainInv'
  BY SamplesStay, FitsStay DEF TrainInv
<1>2. Spec => []TrainInv
  <2>1. Init => DataInv /\ TrainInv
    BY DataInit, TrainInit
  <2> QED
    BY <1>1, <2>1, DataInvariance, PTL DEF Spec
<1> QED
  BY <1>2, DataInvariance, PTL

-----------------------------------------------------------------------------
(* The operating point *)

RankOf(q) == ((Cardinality(Judged) - 1) * q + 99) \div 100
AboveRank(f, q) == {v \in Judged : Cardinality({x \in Judged : f[x] <= f[v]}) > RankOf(q)}

\* Scores of finitely many windows.
Judges(f) == IsFiniteSet(Judged) /\ Judged # {} /\ \A w \in Judged : f[w] \in Nat

LEMMA RankBounds ==
    ASSUME IsFiniteSet(Judged), Judged # {}, NEW q \in 0..100, NEW k \in 0..100, k <= q
    PROVE  /\ Cardinality(Judged) \in Nat /\ RankOf(q) \in Nat /\ RankOf(k) \in Nat
           /\ RankOf(k) <= RankOf(q) /\ RankOf(q) < Cardinality(Judged)
<1> DEFINE n == Cardinality(Judged) - 1
<1>1. n \in Nat /\ Cardinality(Judged) = n + 1
  <2>1. Cardinality(Judged) \in Nat /\ Cardinality(Judged) # 0
    BY FS_CardinalityType, FS_EmptySet
  <2> QED
    BY <2>1
<1> HIDE DEF n
<1>2. n * k \in Nat /\ n * q \in Nat /\ n * k <= n * q /\ n * q <= n * 100
  BY <1>1
<1>3. RankOf(q) = (n * q + 99) \div 100 /\ RankOf(k) = (n * k + 99) \div 100
  BY DEF RankOf, n
<1> DEFINE a == n * k
           b == n * q
<1>4. a \in Nat /\ b \in Nat /\ a <= b /\ b <= n * 100
  BY <1>2
<1> HIDE DEF a, b
<1>5. /\ (a + 99) \div 100 \in Nat /\ (b + 99) \div 100 \in Nat
      /\ (a + 99) \div 100 <= (b + 99) \div 100 /\ (b + 99) \div 100 <= n
  BY <1>1, <1>4
<1> QED
  BY <1>1, <1>3, <1>5 DEF a, b

LEMMA TopScore ==
    ASSUME NEW f, Judges(f)
    PROVE  \E v \in Judged : \A x \in Judged : f[x] <= f[v]
<1> DEFINE R == {e \in Judged \X Judged : f[e[1]] > f[e[2]]}
<1>1. \A x, y \in Judged : <<x, y>> \in R <=> f[x] > f[y]
  OBVIOUS
<1>2. \A x \in Judged : f[x] \in Nat
  BY DEF Judges
<1> HIDE DEF R
<1>3. \A x \in Judged : <<x, x>> \notin R
  BY <1>1, <1>2
<1>4. \A x, y, z \in Judged : <<x, y>> \in R /\ <<y, z>> \in R => <<x, z>> \in R
  BY <1>1, <1>2
<1>5. PICK v \in Judged : \A y \in Judged : <<y, v>> \notin R
  BY <1>3, <1>4, Undominated DEF Judges
<1>6. ASSUME NEW x \in Judged PROVE f[x] <= f[v]
  <2>1. ~(f[x] > f[v])
    BY <1>1, <1>5
  <2>2. f[x] \in Nat /\ f[v] \in Nat
    BY <1>2
  <2> QED
    BY <2>1, <2>2
<1> QED
  BY <1>6

LEMMA ThresholdIs ==
    ASSUME NEW f, Judges(f), NEW q \in 0..100
    PROVE  /\ Threshold(f, q) \in {f[w] : w \in AboveRank(f, q)}
           /\ \A w \in AboveRank(f, q) : Threshold(f, q) <= f[w]
<1> DEFINE T == {f[w] : w \in AboveRank(f, q)}
<1>1. AboveRank(f, q) # {}
  <2>1. PICK v \in Judged : \A x \in Judged : f[x] <= f[v]
    BY TopScore
  <2>2. {x \in Judged : f[x] <= f[v]} = Judged
    BY <2>1
  <2>3. RankOf(q) < Cardinality(Judged) /\ RankOf(q) \in Nat /\ Cardinality(Judged) \in Nat
    <3>1. IsFiniteSet(Judged) /\ Judged # {} /\ q <= q
      BY DEF Judges
    <3> QED
      BY <3>1, RankBounds
  <2>4. Cardinality(Judged) > RankOf(q)
    BY <2>3
  <2>5. v \in AboveRank(f, q)
    BY <2>2, <2>4 DEF AboveRank
  <2> QED
    BY <2>5
<1>2. T \in SUBSET Nat /\ T # {}
  BY <1>1 DEF Judges, AboveRank
<1>3. \E n \in T : \A k \in T : n <= k
  <2> HIDE DEF T
  <2> QED
    BY <1>2, LeastIsMember
<1>4. Threshold(f, q) = Min(T)
  BY DEF Threshold, RankOf, AboveRank, Judged
<1>5. Min(T) \in T /\ \A k \in T : Min(T) <= k
  <2> HIDE DEF T
  <2> QED
    BY <1>3 DEF Min
<1> QED
  BY <1>4, <1>5

\* A lower quantile flags no less, so it catches no less.
LEMMA LowerCatchesMore ==
    ASSUME NEW f, Judges(f), NEW q \in 0..100, NEW k \in 0..100, k <= q
    PROVE  /\ IsFiniteSet(Flagged(f, q)) /\ Flagged(f, q) # {} /\ Flagged(f, q) \subseteq Judged
           /\ IsFiniteSet(Detected(f, k))
           /\ Cardinality(Detected(f, q)) \in Nat /\ Cardinality(Detected(f, k)) \in Nat
           /\ Cardinality(Detected(f, q)) <= Cardinality(Detected(f, k))
<1>1. /\ Threshold(f, q) \in Nat /\ Threshold(f, k) \in Nat
      /\ Threshold(f, k) <= Threshold(f, q)
  <2>1. \A v \in Judged : f[v] \in Nat
    BY DEF Judges
  <2>2. RankOf(k) <= RankOf(q) /\ RankOf(q) \in Nat /\ RankOf(k) \in Nat
    BY RankBounds DEF Judges
  <2>3. ASSUME NEW v \in AboveRank(f, q) PROVE v \in AboveRank(f, k)
    <3>1. {x \in Judged : f[x] <= f[v]} \subseteq Judged
      OBVIOUS
    <3>2. Cardinality({x \in Judged : f[x] <= f[v]}) \in Nat
      BY <3>1, FS_Subset, FS_CardinalityType DEF Judges
    <3>3. Cardinality({x \in Judged : f[x] <= f[v]}) > RankOf(q) /\ v \in Judged
      BY <2>3 DEF AboveRank
    <3>4. Cardinality({x \in Judged : f[x] <= f[v]}) > RankOf(k)
      BY <2>2, <3>2, <3>3
    <3> QED
      BY <3>3, <3>4 DEF AboveRank
  <2>4. PICK v \in AboveRank(f, q) : Threshold(f, q) = f[v]
    BY ThresholdIs
  <2>5. Threshold(f, k) <= f[v]
    BY <2>3, ThresholdIs
  <2>6. v \in Judged /\ \E u \in Judged : Threshold(f, k) = f[u]
    BY ThresholdIs DEF AboveRank
  <2> QED
    BY <2>1, <2>4, <2>5, <2>6
<1>2. Flagged(f, q) \subseteq Flagged(f, k)
  BY <1>1 DEF Flagged, Judges, Judged
<1>3. /\ Flagged(f, q) \subseteq Judged /\ Flagged(f, k) \subseteq Judged
      /\ IsFiniteSet(Flagged(f, q)) /\ IsFiniteSet(Flagged(f, k))
  BY FS_Subset DEF Flagged, Judges, Judged
<1>4. Flagged(f, q) # {}
  <2>1. PICK v \in AboveRank(f, q) : Threshold(f, q) = f[v]
    BY ThresholdIs
  <2>2. v \in Flagged(f, q)
    BY <1>1, <2>1 DEF Flagged, AboveRank, Judged
  <2> QED
    BY <2>2
<1>5. IsFiniteSet(Detected(f, k))
  <2> DEFINE told == {v \in Flagged(f, k) : validation[v].episode # Null}
             g == [w \in told |-> validation[w].episode]
  <2>1. IsFiniteSet(DOMAIN g)
    BY <1>3, FS_Subset
  <2>2. {g[w] : w \in DOMAIN g} = Detected(f, k)
    BY DEF Detected
  <2> HIDE DEF g
  <2> QED
    BY <2>1, <2>2, ImageFinite
<1>6. Detected(f, q) \subseteq Detected(f, k)
  BY <1>2 DEF Detected
<1>7. /\ Cardinality(Detected(f, q)) <= Cardinality(Detected(f, k))
      /\ IsFiniteSet(Detected(f, q))
  BY <1>5, <1>6, FS_Subset
<1> QED
  BY <1>3, <1>4, <1>5, <1>7, FS_CardinalityType

-----------------------------------------------------------------------------
(* The selection *)

\* A merit is an integer, and a fraction with a positive denominator.
IsMerit(m) == m[1] \in Nat /\ m[2] \in Nat /\ m[3] \in Nat \ {0}

LEMMA Scaled ==
    ASSUME NEW x \in Nat, NEW y \in Nat, NEW k \in Nat \ {0}
    PROVE  x > y <=> x * k > y * k
OBVIOUS

LEMMA BetterOrders ==
    ASSUME NEW a, NEW b, NEW c, IsMerit(a), IsMerit(b), IsMerit(c)
    PROVE  /\ ~Better(a, a)
           /\ Better(a, b) /\ Better(b, c) => Better(a, c)
           /\ ~Better(a, b) => a[1] <= b[1]
<1>1. /\ a[1] \in Nat /\ a[2] \in Nat /\ a[3] \in Nat \ {0}
      /\ b[1] \in Nat /\ b[2] \in Nat /\ b[3] \in Nat \ {0}
      /\ c[1] \in Nat /\ c[2] \in Nat /\ c[3] \in Nat \ {0}
  BY DEF IsMerit
<1>2. ~Better(a, a)
  <2>1. a[2] * a[3] \in Nat
    BY <1>1
  <2> QED
    BY <1>1, <2>1 DEF Better
<1>3. ASSUME a[2] * b[3] > b[2] * a[3], b[2] * c[3] > c[2] * b[3]
      PROVE  a[2] * c[3] > c[2] * a[3]
  <2> DEFINE ab == a[2] * b[3]
             ba == b[2] * a[3]
             bc == b[2] * c[3]
             cb == c[2] * b[3]
             ac == a[2] * c[3]
             ca == c[2] * a[3]
  <2>1. ab \in Nat /\ ba \in Nat /\ bc \in Nat /\ cb \in Nat /\ ac \in Nat /\ ca \in Nat
    BY <1>1
  <2>2. ab * c[3] = ac * b[3] /\ ba * c[3] = bc * a[3] /\ cb * a[3] = ca * b[3]
    BY <1>1
  <2>3. ab > ba /\ bc > cb
    BY <1>3
  <2> HIDE DEF ab, ba, bc, cb, ac, ca
  <2>4. ab * c[3] > ba * c[3] /\ bc * a[3] > cb * a[3]
    BY <1>1, <2>1, <2>3, Scaled
  <2>5. /\ ab * c[3] \in Nat /\ ba * c[3] \in Nat /\ bc * a[3] \in Nat /\ cb * a[3] \in Nat
        /\ ac * b[3] \in Nat /\ ca * b[3] \in Nat
    BY <1>1, <2>1
  <2>6. ac * b[3] > ca * b[3]
    BY <2>2, <2>4, <2>5
  <2>7. ac > ca
    BY <1>1, <2>1, <2>6, Scaled
  <2> QED
    BY <2>7 DEF ac, ca
<1>4. ASSUME Better(a, b), Better(b, c) PROVE Better(a, c)
  <2>1. CASE a[1] > b[1] \/ b[1] > c[1]
    <3>1. a[1] >= b[1] /\ b[1] >= c[1]
      BY <1>1, <1>4 DEF Better
    <3>2. a[1] > c[1]
      BY <1>1, <2>1, <3>1
    <3> QED
      BY <3>2 DEF Better
  <2>2. CASE ~(a[1] > b[1]) /\ ~(b[1] > c[1])
    BY <1>3, <1>4, <2>2 DEF Better
  <2> QED
    BY <2>1, <2>2
<1>5. ~Better(a, b) => a[1] <= b[1]
  BY <1>1 DEF Better
<1> QED
  BY <1>2, <1>4, <1>5

LEMMA QuantilesBounded ==
    ASSUME NEW Q \in SUBSET Quantiles, Q # {}
    PROVE  /\ Q \subseteq 0..100
           /\ Min(Q) \in Q /\ \A q \in Q : Min(Q) <= q
           /\ Max(Q) \in Q
<1>1. Q \subseteq 0..100
  BY TrainingAssumption DEF TrainingAssumption
<1>2. Q \in SUBSET Nat /\ \A q \in Q : q <= 100
  BY <1>1
<1>3. \E n \in Q : \A k \in Q : n <= k
  BY <1>2, LeastIsMember
<1>4. \E n \in Q : \A k \in Q : n >= k
  <2> DEFINE R == {e \in Q \X Q : e[1] > e[2]}
  <2>1. \A x, y \in Q : <<x, y>> \in R <=> x > y
    OBVIOUS
  <2>2. IsFiniteSet(Q)
    BY <1>2, FS_BoundedSetOfNaturals
  <2> HIDE DEF R
  <2>3. \A x \in Q : <<x, x>> \notin R
    BY <1>2, <2>1
  <2>4. \A x, y, z \in Q : <<x, y>> \in R /\ <<y, z>> \in R => <<x, z>> \in R
    BY <1>2, <2>1
  <2>5. PICK n \in Q : \A k \in Q : <<k, n>> \notin R
    BY <2>2, <2>3, <2>4, Undominated
  <2>6. ASSUME NEW k \in Q PROVE n >= k
    <3>1. ~(k > n) /\ n \in Nat /\ k \in Nat
      BY <1>2, <2>1, <2>5
    <3> QED
      BY <3>1
  <2> QED
    BY <2>6
<1> QED
  BY <1>1, <1>3, <1>4 DEF Min, Max

\* The threshold chosen for a detector is one the budget affords, if any is,
\* and catches what any of those does.
LEMMA ChosenIs ==
    ASSUME NEW f
    PROVE  /\ ChosenQuantile(f) \in Quantiles /\ Quantiles \subseteq 0..100
           /\ \A q \in Quantiles : Affordable(f, q) =>
                  Affordable(f, ChosenQuantile(f)) /\ ChosenQuantile(f) <= q
<1> DEFINE Q == {q \in Quantiles : Affordable(f, q)}
<1>1. Quantiles # {} /\ Quantiles \subseteq 0..100
  BY TrainingAssumption DEF TrainingAssumption
<1>2. CASE Q = {}
  <2>1. ChosenQuantile(f) = Max(Quantiles)
    BY <1>2 DEF ChosenQuantile
  <2>2. Max(Quantiles) \in Quantiles
    BY <1>1, QuantilesBounded
  <2> QED
    BY <1>1, <1>2, <2>1, <2>2
<1>3. CASE Q # {}
  <2>1. ChosenQuantile(f) = Min(Q)
    BY <1>3 DEF ChosenQuantile
  <2>2. Min(Q) \in Q /\ \A q \in Q : Min(Q) <= q
    <3>1. Q \in SUBSET Quantiles
      OBVIOUS
    <3> HIDE DEF Q
    <3> QED
      BY <1>3, <3>1, QuantilesBounded
  <2> QED
    BY <1>1, <2>1, <2>2
<1> QED
  BY <1>2, <1>3

LEMMA MeritIs ==
    ASSUME NEW f, Judges(f)
    PROVE  IsMerit(Merit(f)) /\ Merit(f)[1] = Caught(f)
<1> DEFINE q == ChosenQuantile(f)
           flagged == Flagged(f, q)
           true == {w \in DOMAIN validation : validation[w].anomaly}
<1>1. q \in 0..100 /\ q <= q
  <2>1. q \in 0..100
    BY ChosenIs
  <2> QED
    BY <2>1
<1> HIDE DEF q
<1>2. /\ IsFiniteSet(flagged) /\ flagged # {} /\ Cardinality(Detected(f, q)) \in Nat
  BY <1>1, LowerCatchesMore
<1> HIDE DEF flagged
<1>3. IsFiniteSet(true) /\ IsFiniteSet(flagged \cap true)
  <2>1. true \subseteq Judged /\ flagged \cap true \subseteq flagged
    BY DEF Judged
  <2> HIDE DEF true
  <2> QED
    BY <1>2, <2>1, FS_Subset DEF Judges
<1> HIDE DEF true
<1>4. /\ Cardinality(flagged) \in Nat /\ Cardinality(flagged) # 0 /\ Cardinality(true) \in Nat
      /\ Cardinality(flagged \cap true) \in Nat
  BY <1>2, <1>3, FS_CardinalityType, FS_EmptySet
<1>5. /\ 2 * Cardinality(flagged \cap true) \in Nat
      /\ Cardinality(flagged) + Cardinality(true) \in Nat \ {0}
  BY <1>4
<1>6. Merit(f) = <<Caught(f), 2 * Cardinality(flagged \cap true),
                   Cardinality(flagged) + Cardinality(true)>>
  BY DEF Merit, flagged, q, true
<1>7. Caught(f) \in Nat
  BY <1>2 DEF Caught, q
<1> QED
  BY <1>5, <1>6, <1>7 DEF IsMerit

LEMMA UsableJudges ==
    ASSUME FitsTold, fits # <<>>
    PROVE  /\ Usable \in SUBSET Nat /\ IsFiniteSet(Usable)
           /\ \A c \in Usable : Judges(fits[c])
<1>1. Usable \subseteq 1..Len(Candidates) /\ Len(Candidates) \in Int /\ 1 \in Int
  BY ScoresAssumption DEF Usable, FitsTold, Candidate
<1>2. IsFiniteSet(1..Len(Candidates))
  BY <1>1, FS_Interval
<1>3. IsFiniteSet(Usable)
  BY <1>1, <1>2, FS_Subset
<1>4. \A c \in Usable : Judges(fits[c])
  BY DEF Usable, FitsTold, Judges
<1> QED
  BY <1>1, <1>3, <1>4

\* A selected candidate is usable and none is better.
LEMMA SelectedIs ==
    ASSUME FitsTold, fits # <<>>, Usable # {}
    PROVE  /\ Selected \in Usable
           /\ \A c \in Usable : ~Better(Merit(fits[c]), Merit(fits[Selected]))
<1> DEFINE R == {e \in Usable \X Usable : Better(Merit(fits[e[1]]), Merit(fits[e[2]]))}
           best == {c \in Usable : \A d \in Usable : ~Better(Merit(fits[d]), Merit(fits[c]))}
<1>1. \A c, d \in Usable : <<c, d>> \in R <=> Better(Merit(fits[c]), Merit(fits[d]))
  OBVIOUS
<1>2. \A c \in Usable : IsMerit(Merit(fits[c]))
  BY UsableJudges, MeritIs
<1>3. best # {}
  <2> HIDE DEF R
  <2>1. \A c \in Usable : <<c, c>> \notin R
    BY <1>1, <1>2, BetterOrders
  <2>2. \A c, d, e \in Usable : <<c, d>> \in R /\ <<d, e>> \in R => <<c, e>> \in R
    BY <1>1, <1>2, BetterOrders
  <2>3. PICK c \in Usable : \A d \in Usable : <<d, c>> \notin R
    BY <2>1, <2>2, UsableJudges, Undominated
  <2> QED
    BY <1>1, <2>3
<1>4. Selected = Min(best)
  <2> DEFINE merit == {<<c, Merit(fits[c])>> : c \in Usable}
             top == {x \in merit : \A y \in merit : ~Better(y[2], x[2])}
  <2>1. ASSUME NEW c \in Usable
        PROVE  c \in best <=> <<c, Merit(fits[c])>> \in top
    <3>1. \A d \in Usable : /\ <<d, Merit(fits[d])>> \in merit
                            /\ <<d, Merit(fits[d])>>[2] = Merit(fits[d])
      OBVIOUS
    <3>2. \A y \in merit : \E d \in Usable : y[2] = Merit(fits[d])
      OBVIOUS
    <3> HIDE DEF merit
    <3>3. <<c, Merit(fits[c])>> \in top <=> \A y \in merit : ~Better(y[2], Merit(fits[c]))
      BY <2>1, <3>1
    <3>4. c \in best <=> \A d \in Usable : ~Better(Merit(fits[d]), Merit(fits[c]))
      BY <2>1
    <3> HIDE DEF top, best
    <3> QED
      BY <3>1, <3>2, <3>3, <3>4
  <2>2. {m[1] : m \in top} = best
    <3>1. ASSUME NEW m \in top PROVE m[1] \in best
      <4>1. PICK c \in Usable : m = <<c, Merit(fits[c])>>
        OBVIOUS
      <4> HIDE DEF top, best
      <4> QED
        BY <2>1, <4>1
    <3>2. ASSUME NEW c \in best PROVE \E m \in top : c = m[1]
      <4>1. c \in Usable
        OBVIOUS
      <4>2. <<c, Merit(fits[c])>> \in top
        BY <2>1, <4>1
      <4> HIDE DEF top, best
      <4> QED
        BY <4>2
    <3> HIDE DEF top, best
    <3> QED
      BY <3>1, <3>2
  <2>3. Selected = Min({m[1] : m \in top})
    BY DEF Selected
  <2> HIDE DEF top, best
  <2> QED
    BY <2>2, <2>3
<1>5. Selected \in best
  <2>1. best \in SUBSET Nat
    BY UsableJudges
  <2> HIDE DEF best
  <2>2. \E n \in best : \A k \in best : n <= k
    BY <1>3, <2>1, LeastIsMember
  <2> QED
    BY <1>4, <2>2 DEF Min
<1> QED
  BY <1>5

\* Choosing every candidate's threshold first and the candidate second loses
\* no episode that the budget affords, and keeps to the budget if it can.
THEOREM BestAffordable == Spec => []BestAffordableSelected
<1>1. TrainInv => BestAffordableSelected
  <2> SUFFICES ASSUME FitsTold, fits # <<>>, Usable # {}
               PROVE  LET f == fits[Selected]
                          caught == Caught(f)
                      IN  /\ \A c \in Usable : \A q \in Quantiles :
                                 Affordable(fits[c], q) =>
                                     Cardinality(Detected(fits[c], q)) <= caught
                          /\ (\E q \in Quantiles : Affordable(f, q)) =>
                                 Affordable(f, ChosenQuantile(f))
    BY DEF TrainInv, BestAffordableSelected
  <2>1. ASSUME NEW c \in Usable, NEW q \in Quantiles, Affordable(fits[c], q)
        PROVE  Cardinality(Detected(fits[c], q)) <= Caught(fits[Selected])
    <3> DEFINE f == fits[c]
               k == ChosenQuantile(f)
    <3>1. k \in 0..100 /\ q \in 0..100 /\ k <= q
      BY <2>1, ChosenIs
    <3>2. Judges(f) /\ Judges(fits[Selected]) /\ Selected \in Usable
      BY SelectedIs, UsableJudges
    <3>3. /\ Cardinality(Detected(f, q)) <= Cardinality(Detected(f, k))
          /\ Cardinality(Detected(f, q)) \in Nat
      BY <3>1, <3>2, LowerCatchesMore
    <3>4. /\ IsMerit(Merit(f)) /\ Merit(f)[1] = Caught(f)
          /\ IsMerit(Merit(fits[Selected])) /\ Merit(fits[Selected])[1] = Caught(fits[Selected])
      BY <3>2, MeritIs
    <3>5. ~Better(Merit(f), Merit(fits[Selected]))
      BY SelectedIs
    <3>6. Caught(f) <= Caught(fits[Selected])
      BY <3>4, <3>5, BetterOrders
    <3>7. Caught(f) \in Nat /\ Caught(fits[Selected]) \in Nat
      BY <3>4 DEF IsMerit
    <3>8. Caught(f) = Cardinality(Detected(f, k))
      BY DEF Caught
    <3> QED
      BY <3>3, <3>6, <3>7, <3>8
  <2>2. (\E q \in Quantiles : Affordable(fits[Selected], q)) =>
            Affordable(fits[Selected], ChosenQuantile(fits[Selected]))
    BY ChosenIs
  <2> QED
    BY <2>1, <2>2
<1> QED
  BY <1>1, TrainingInvariance, PTL

-----------------------------------------------------------------------------
(* The types of the export and of the training *)

Phases == {"none", "draining", "drained", "read", "samples", "labels"}

TypeInv ==
    /\ phase \in Phases /\ cut \in BOOLEAN
    /\ remaining \subseteq Partition /\ idle \in 0..IdleLimit
    /\ samples \subseteq Decoded(Whole)
    /\ labels \subseteq Anomalous(Whole) /\ labelled \subseteq Anomalous(Whole)
    /\ manifest = Null \/ \A p \in Partition : manifest.ends[p] \in 0..high[p]
    /\ fits = <<>> \/ fits \in Fitted
    /\ exports \in 0..MaxExports
    /\ saving <= runs

LEMMA BelowTheEnd ==
    ASSUME DataInv, NEW bound \in {high, next, ends}
    PROVE  /\ bound \in [Partition -> Nat] /\ \A p \in Partition : bound[p] \in 0..high[p]
           /\ Decoded(bound) \subseteq Decoded(Whole) /\ Anomalous(bound) \subseteq Anomalous(Whole)
<1>1. /\ log \in Logs /\ high \in [Partition -> Nat] /\ bound \in [Partition -> Nat]
      /\ \A p \in Partition : bound[p] <= high[p] /\ high[p] <= Len(log[p])
  BY DEF DataInv, OffsetsOK
<1>2. \A p \in Partition : Len(log[p]) \in Nat /\ Whole[p] = Len(log[p])
  BY <1>1, LogsAssumption DEF Whole
<1>3. \A p \in Partition : 1..bound[p] \subseteq 1..Whole[p]
  BY <1>1, <1>2
<1>4. Below(bound) \subseteq Below(Whole)
  BY <1>3 DEF Below
<1> QED
  BY <1>1, <1>4 DEF Decoded, Anomalous

LEMMA TopicGrows ==
    ASSUME DataInv, [Next]_vars
    PROVE  /\ log' = log /\ Decoded(Whole)' = Decoded(Whole) /\ Anomalous(Whole)' = Anomalous(Whole)
           /\ \A p \in Partition : 0..high[p] \subseteq 0..high'[p]
<1>1. log' = log
  BY DEF Next, Export, vars, Produce, BeginExport, Poll, IdlePoll, EndDrain, ReadLabels,
         WriteSamples, WriteLabels, WriteManifest, CrashExport, Train, BeginSave,
         unchangedByExport
<1>2. high' = high \/ \E p \in Partition : high' = [high EXCEPT ![p] = @ + 1]
  BY DEF Next, Export, vars, Produce, BeginExport, Poll, IdlePoll, EndDrain, ReadLabels,
         WriteSamples, WriteLabels, WriteManifest, CrashExport, Train, BeginSave,
         unchangedByExport
<1>3. high \in [Partition -> Nat]
  BY DEF DataInv, OffsetsOK
<1>4. \A p \in Partition : high'[p] = high[p] \/ high'[p] = high[p] + 1
  BY <1>2, <1>3
<1>5. \A p \in Partition : 0..high[p] \subseteq 0..high'[p]
  BY <1>3, <1>4
<1> QED
  BY <1>1, <1>5 DEF Decoded, Anomalous, Below, Whole, Message

\* What a step leaves of the dataset stays typed as the topic grows.
LEMMA TypeKept ==
    ASSUME DataInv, TypeInv, [Next]_vars,
           samples' \in {samples, Deduplicated(Decoded(next))},
           labels' \in {labels, Deduplicated(labelled)},
           manifest' = manifest
               \/ manifest' = [ends |-> ends, samples |-> samples, labels |-> labels, cut |-> cut],
           labelled' \subseteq labelled \/ labelled' \subseteq Anomalous(high),
           remaining' \subseteq Partition, idle' \in 0..IdleLimit,
           fits' = <<>> \/ fits' \in Fitted, exports' \in 0..MaxExports, saving' <= runs',
           phase' \in Phases, cut' \in BOOLEAN
    PROVE  TypeInv'
<1>1. samples' \subseteq Decoded(Whole)
  BY BelowTheEnd DEF TypeInv, Deduplicated
<1>2. labels' \subseteq Anomalous(Whole)
  BY DEF TypeInv, Deduplicated
<1>3. labelled' \subseteq Anomalous(Whole)
  BY BelowTheEnd DEF TypeInv
<1>4. manifest' = Null \/ \A p \in Partition : manifest'.ends[p] \in 0..high'[p]
  <2>1. CASE manifest' = manifest
    BY <2>1, TopicGrows DEF TypeInv
  <2>2. CASE manifest' = [ends |-> ends, samples |-> samples, labels |-> labels, cut |-> cut]
    <3>1. manifest'.ends = ends
      BY <2>2
    <3>2. \A p \in Partition : ends[p] \in 0..high[p]
      BY BelowTheEnd
    <3> QED
      BY <3>1, <3>2, TopicGrows
  <2> QED
    BY <2>1, <2>2
<1>5. (fits = <<>> \/ fits \in Fitted)' <=> fits' = <<>> \/ fits' \in Fitted
  BY DEF Fitted
<1> QED
  BY <1>1, <1>2, <1>3, <1>4, <1>5, TopicGrows DEF TypeInv

LEMMA TypeStep ==
    ASSUME DataInv, IInv, TypeInv, [Next]_vars
    PROVE  TypeInv'
<1>0. IdleLimit \in Nat /\ MaxExports \in Nat /\ 0 \in 0..IdleLimit
  BY TrainingAssumption DEF TrainingAssumption
<1>1. /\ remaining \subseteq Partition /\ idle \in 0..IdleLimit /\ exports \in 0..MaxExports
      /\ fits = <<>> \/ fits \in Fitted
      /\ saving <= runs /\ phase \in Phases /\ cut \in BOOLEAN
  BY DEF TypeInv
<1>2. runs \in Nat /\ saving \in Nat
  BY DEF IInv, FilesOK, Run
<1>3. CASE Export
  <2>1. fits' = fits /\ runs' = runs /\ saving' = saving
    BY <1>3 DEF Export, BeginExport, Poll, IdlePoll, EndDrain, ReadLabels, WriteSamples,
                WriteLabels, WriteManifest, CrashExport, unchangedByExport, trainingVars,
                artifactVars, fileVars
  <2>2. /\ samples' \in {samples, Deduplicated(Decoded(next))}
        /\ labels' \in {labels, Deduplicated(labelled)}
        /\ manifest' = manifest
             \/ manifest' = [ends |-> ends, samples |-> samples, labels |-> labels, cut |-> cut]
    BY <1>3 DEF Export, BeginExport, Poll, IdlePoll, EndDrain, ReadLabels, WriteSamples,
                WriteLabels, WriteManifest, CrashExport, datasetVars, Decoded
  <2>3. labelled' \subseteq labelled \/ labelled' \subseteq Anomalous(high)
    BY <1>3 DEF Export, BeginExport, Poll, IdlePoll, EndDrain, ReadLabels, WriteSamples,
                WriteLabels, WriteManifest, CrashExport, Forget, drainVars, Anomalous
  <2>4. remaining' \subseteq Partition
    BY <1>1, <1>3 DEF Export, BeginExport, Poll, IdlePoll, EndDrain, ReadLabels, WriteSamples,
                WriteLabels, WriteManifest, CrashExport, Forget, drainVars
  <2>5. idle' = idle \/ idle' = 0 \/ (idle < IdleLimit /\ idle' = idle + 1)
    BY <1>3 DEF Export, BeginExport, Poll, IdlePoll, EndDrain, ReadLabels, WriteSamples,
                WriteLabels, WriteManifest, CrashExport, Forget, drainVars, Draining
  <2>6. exports' = exports \/ (exports < MaxExports /\ exports' = exports + 1)
    BY <1>3 DEF Export, BeginExport, Poll, IdlePoll, EndDrain, ReadLabels, WriteSamples,
                WriteLabels, WriteManifest, CrashExport, unchangedByExport
  <2>7. idle' \in 0..IdleLimit /\ exports' \in 0..MaxExports
    BY <1>0, <1>1, <2>5, <2>6
  <2>8. phase' \in Phases
    BY <1>1, <1>3 DEF Export, BeginExport, Poll, IdlePoll, EndDrain, ReadLabels, WriteSamples,
                WriteLabels, WriteManifest, CrashExport, Forget, drainVars, Phases
  <2>9. cut' \in BOOLEAN
    <3>1. CASE EndDrain \/ ReadLabels
      BY <3>1 DEF EndDrain, ReadLabels
    <3>2. CASE ~EndDrain /\ ~ReadLabels
      BY <1>1, <1>3, <3>2 DEF Export, BeginExport, Poll, IdlePoll, WriteSamples, WriteLabels,
                              WriteManifest, CrashExport, Forget, drainVars
    <3> QED
      BY <3>1, <3>2
  <2> QED
    BY <1>1, <2>1, <2>2, <2>3, <2>4, <2>7, <2>8, <2>9, TypeKept
<1>4. CASE UNCHANGED <<phase, drainVars, datasetVars, exports>>
  <2>1. /\ remaining' = remaining /\ idle' = idle /\ labelled' = labelled /\ exports' = exports
        /\ samples' = samples /\ labels' = labels /\ manifest' = manifest
        /\ phase' = phase /\ cut' = cut
    BY <1>4 DEF drainVars, datasetVars
  <2>2. ASSUME fits' = <<>> \/ fits' \in Fitted, saving' <= runs'
        PROVE  TypeInv'
    BY <1>1, <2>1, <2>2, TypeKept
  <2>3. CASE Train
    <3>1. fits' \in Fitted /\ runs' = runs + 1 /\ saving' = saving
      BY <2>3 DEF Train, artifactVars, fileVars
    <3> QED
      BY <1>1, <1>2, <2>2, <3>1
  <2>4. CASE BeginSave
    <3>1. fits' = <<>> /\ runs' = runs /\ (saving' = runs \/ saving' = 0)
      BY <2>4 DEF BeginSave
    <3> QED
      BY <1>2, <2>2, <3>1
  <2>5. CASE (\E p \in Partition : Produce(p)) \/ UNCHANGED vars
    <3>1. fits' = fits /\ runs' = runs /\ saving' = saving
      BY <2>5 DEF Produce, vars, trainingVars, artifactVars, fileVars
    <3> QED
      BY <1>1, <2>2, <3>1
  <2>6. CASE (Save \/ Serve) /\ UNCHANGED trainingVars
    <3>1. fits' = fits /\ runs' = runs
      BY <2>6 DEF trainingVars
    <3>2. saving' = saving \/ saving' = 0
      BY <2>6 DEF Save, WriteModel, WriteMetadata, WriteReference, CrashSaving, Serve, Load,
                  LookUp, Acquire, ReadMetadata, VerifyDigest, Unpickle, CacheModel, Refuse,
                  Return, RestartWorker
    <3> QED
      BY <1>1, <1>2, <2>2, <3>1, <3>2
  <2> QED
    BY <1>3, <2>3, <2>4, <2>5, <2>6 DEF Next
<1> QED
  BY <1>3, <1>4 DEF Next, Produce, Train, BeginSave, vars, drainVars, datasetVars

\* The variables keep their types.
THEOREM TypeCorrect == Spec => []TypeOK
<1>1. Init => TypeInv
  <2> SUFFICES ASSUME Init PROVE TypeInv
    OBVIOUS
  <2>1. /\ phase = "none" /\ cut = FALSE
        /\ remaining = {} /\ idle = 0 /\ samples = {} /\ labels = {} /\ labelled = {}
        /\ manifest = Null /\ fits = <<>> /\ exports = 0 /\ saving = 0 /\ runs = 0
    BY DEF Init, ArtifactInit
  <2>2. 0 \in 0..IdleLimit /\ 0 \in 0..MaxExports
    BY TrainingAssumption DEF TrainingAssumption
  <2>3. phase \in Phases /\ cut \in BOOLEAN
    BY <2>1 DEF Phases
  <2>4. saving <= runs
    BY <2>1
  <2> QED
    BY <2>1, <2>2, <2>3, <2>4 DEF TypeInv
<1>2. DataInv /\ IInv /\ TypeInv => TypeOK
  <2> SUFFICES ASSUME DataInv, IInv, TypeInv, ArtifactTypeOK PROVE TypeOK
    BY ArtifactTyped
  <2>1. /\ log \in Logs /\ cut \in BOOLEAN /\ runs \in 0..MaxRuns
        /\ phase \in {"none", "draining", "drained", "read", "samples", "labels"}
    BY DEF DataInv, OffsetsOK, IInv, FilesOK, TypeInv, Phases
  <2>2. ASSUME NEW p \in Partition
        PROVE  high[p] \in 0..Len(log[p]) /\ ends[p] \in 0..high[p] /\ next[p] \in 0..high[p]
    <3>1. Len(log[p]) \in Nat
      BY <2>1, LogsAssumption
    <3> QED
      BY <3>1, BelowTheEnd DEF DataInv, OffsetsOK
  <2>3. /\ \A r \in samples : r \in Below(Whole) /\ Decodes(Message(r))
        /\ \A r \in labels \cup labelled : r \in Below(Whole) /\ Message(r).episode # Null
    BY DEF TypeInv, Decoded, Anomalous
  <2> QED
    BY <2>1, <2>2, <2>3 DEF TypeInv, TypeOK, Fitted
<1> QED
  BY <1>1, <1>2, TypeStep, Invariance, DataInvariance, PTL DEF Spec

=============================================================================
