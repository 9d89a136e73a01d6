--------------------------- MODULE ModelArtifact ---------------------------
(***************************************************************************)
(* The artefact directory the stream processor serves a model from: one    *)
(* training run after another writes its files, and the threads of a       *)
(* scoring worker load them, once per process, behind a double-checked     *)
(* lock.                                                                   *)
(*                                                                         *)
(* A file is the number of the training run it comes from, 0 when absent;  *)
(* the digest in metadata.json is the number of the run whose model it     *)
(* describes.  A file written in part is refused like an absent one.  Left *)
(* out: calibration.json and machine_profiles.json, which are written      *)
(* between metadata and reference profile and read by nobody, and the      *)
(* library, feature set and column checks, which compare metadata with the *)
(* environment as the digest check compares it with the model file.        *)
(***************************************************************************)
EXTENDS Integers, FiniteSets

CONSTANTS
    Thread,       \* threads of a scoring worker
    MaxRuns       \* bound: training runs

ASSUME ArtifactAssumption == MaxRuns \in Nat

VARIABLES
    model,        \* model.joblib
    metadata,     \* metadata.json, its artifact_sha256
    reference,    \* reference_profile.json
    saving,       \* the training run that is writing, 0 for none
    at,           \* [Thread -> where it is in load_model]
    lock,         \* the threads that hold _LOCK
    loading,      \* what the holder has read so far
    cache,        \* _CACHE: the loaded model or NotLoaded
    got           \* [Thread -> what load_model returned last]

fileVars == <<model, metadata, reference>>
loadVars == <<at, lock, loading, cache, got>>
artifactVars == <<fileVars, saving, loadVars>>

Run == 0..MaxRuns

\* "replaced" tells a model file that was written while the load ran.
Loaded == [metadata : Run, model : Run, reference : Run, replaced : BOOLEAN]
NotLoaded == [metadata |-> 0, model |-> 0, reference |-> 0, replaced |-> FALSE]

Steps == {"idle", "missed", "locked", "described", "verified", "unpickled"}

ArtifactTypeOK ==
    /\ {model, metadata, reference, saving} \subseteq Run
    /\ at \in [Thread -> Steps]
    /\ lock \in SUBSET Thread
    /\ Cardinality(lock) <= 1
    /\ \A t \in Thread : at[t] \notin {"idle", "missed"} <=> t \in lock
    /\ loading \in Loaded
    /\ cache \in Loaded
    /\ got \in [Thread -> Loaded]

ArtifactInit ==
    /\ model = 0
    /\ metadata = 0
    /\ reference = 0
    /\ saving = 0
    /\ at = [t \in Thread |-> "idle"]
    /\ lock = {}
    /\ loading = NotLoaded
    /\ cache = NotLoaded
    /\ got = [t \in Thread |-> NotLoaded]

-----------------------------------------------------------------------------
(* save_artifact: the model, its metadata with the digest, the rest *)

WriteModel ==
    /\ saving # 0
    /\ model # saving
    /\ model' = saving
    /\ loading' = [loading EXCEPT !.replaced = lock # {}]
    /\ UNCHANGED <<metadata, reference, saving, at, lock, cache, got>>

WriteMetadata ==
    /\ saving # 0
    /\ model = saving
    /\ metadata # saving
    /\ metadata' = saving
    /\ UNCHANGED <<model, reference, saving, loadVars>>

WriteReference ==
    /\ saving # 0
    /\ metadata = saving
    /\ reference' = saving
    /\ saving' = 0
    /\ UNCHANGED <<model, metadata, loadVars>>

\* The training process dies between two files.
CrashSaving ==
    /\ saving # 0
    /\ saving' = 0
    /\ UNCHANGED <<fileVars, loadVars>>

-----------------------------------------------------------------------------
(* load_model and load_artifact *)

Goto(t, step) == at' = [at EXCEPT ![t] = step]

\* The lock is left by every return and by every exception.
Return(t, result) ==
    /\ Goto(t, "idle")
    /\ lock' = lock \ {t}
    /\ loading' = NotLoaded
    /\ got' = [got EXCEPT ![t] = result]

\* An exception ends the task; the thread serves another one later.
Refuse(t) ==
    /\ Return(t, got[t])
    /\ UNCHANGED cache

\* The first look at the cache, without the lock.
LookUp(t) ==
    /\ at[t] = "idle"
    /\ IF cache # NotLoaded
       THEN got' = [got EXCEPT ![t] = cache] /\ UNCHANGED at
       ELSE Goto(t, "missed") /\ UNCHANGED got
    /\ UNCHANGED <<fileVars, saving, lock, loading, cache>>

Acquire(t) ==
    /\ at[t] = "missed"
    /\ lock = {}
    /\ lock' = {t}
    /\ Goto(t, "locked")
    /\ UNCHANGED <<fileVars, saving, loading, cache, got>>

\* Mutant of CachedMeanwhile: the cache is not looked at again.
CachedUnseen == FALSE

CachedMeanwhile == cache # NotLoaded

\* The second look, with the lock; then the metadata is read.
ReadMetadata(t) ==
    /\ at[t] = "locked"
    /\ IF CachedMeanwhile
       THEN Return(t, cache) /\ UNCHANGED cache
       ELSE IF metadata = 0 THEN Refuse(t)
       ELSE /\ loading' = [NotLoaded EXCEPT !.metadata = metadata]
            /\ Goto(t, "described")
            /\ UNCHANGED <<lock, cache, got>>
    /\ UNCHANGED <<fileVars, saving>>

\* Mutant of DigestMatches: verify is off.
DigestUnchecked == TRUE

DigestMatches == loading.metadata = model

VerifyDigest(t) ==
    /\ at[t] = "described"
    /\ IF ~DigestMatches THEN Refuse(t)
       ELSE Goto(t, "verified") /\ UNCHANGED <<lock, loading, cache, got>>
    /\ UNCHANGED <<fileVars, saving>>

\* joblib.load opens the file again.
Unpickle(t) ==
    /\ at[t] = "verified"
    /\ loading' = [loading EXCEPT !.model = model]
    /\ Goto(t, "unpickled")
    /\ UNCHANGED <<fileVars, saving, lock, cache, got>>

\* _reference_arrays, then the cache entry.
CacheModel(t) ==
    /\ at[t] = "unpickled"
    /\ IF reference = 0 THEN Refuse(t)
       ELSE LET loaded == [loading EXCEPT !.reference = reference]
            IN  cache' = loaded /\ Return(t, loaded)
    /\ UNCHANGED <<fileVars, saving>>

\* The worker process is replaced by a new one.
RestartWorker ==
    /\ cache # NotLoaded \/ lock # {}
    /\ at' = [t \in Thread |-> "idle"]
    /\ lock' = {}
    /\ loading' = NotLoaded
    /\ cache' = NotLoaded
    /\ got' = [t \in Thread |-> NotLoaded]
    /\ UNCHANGED <<fileVars, saving>>

Save == WriteModel \/ WriteMetadata \/ WriteReference \/ CrashSaving

Load ==
    \E t \in Thread :
        LookUp(t) \/ Acquire(t) \/ ReadMetadata(t) \/ VerifyDigest(t) \/ Unpickle(t) \/ CacheModel(t)

-----------------------------------------------------------------------------
(* Properties *)

\* The model a worker serves is the one its metadata describe -- name,
\* version, digest, the identity every scored event and every alert carries
\* -- unless a training run replaced the file in the very middle of the load:
\* a save that was cut short, before or between loads, is refused.
ServedModelVerified ==
    cache # NotLoaded /\ cache.model # cache.metadata => cache.replaced

\* All the threads of a worker score with one model, whatever training runs
\* do to the directory and however their first batches race for the load.
OneModelPerProcess == \A t \in Thread : got[t] # NotLoaded => got[t] = cache
=============================================================================
