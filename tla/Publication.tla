---- MODULE Publication ----
(***************************************************************************)
(* src/src/r2-publication.ts: batches of objects being put into the R2     *)
(* bucket.  A batch puts the objects of one outcome in their order, each   *)
(* of them only if its key is free; a taken key is accepted when the       *)
(* object there has the same hash.  Several handlers may be publishing     *)
(* under one version prefix, and each await of the bucket is a step.       *)
(*                                                                         *)
(* Hashes are taken to tell bytes apart, so an object keeps its bytes.     *)
(***************************************************************************)
EXTENDS Integers, Sequences

CONSTANTS
  Attempts,    \* the handlers that may have a batch open
  KeyPrefixes,    \* the key prefix of a package version
  Outcomes,    \* what a materialization may yield
  Uploads,     \* per outcome, the objects in the order they are put
  MarkerPath   \* the path of the ready marker

ASSUME UploadsAssumption ==
  \A o \in Outcomes :
    /\ Len(Uploads[o]) \in Nat \ {0}
    /\ \A i \in 1..Len(Uploads[o]) :
         Uploads[o][i].path = MarkerPath <=> i = Len(Uploads[o])

VARIABLES
  bucket,    \* the objects stored, with their prefix, path and bytes
  batches    \* per handler, the batch it is publishing

storeVars == <<bucket, batches>>

NoBatch == [stage |-> "none"]

BatchType ==
  [stage : {"put", "head", "published", "conflict", "orphan"},
   prefix : KeyPrefixes, outcome : Outcomes, next : Nat \ {0}]

StoreInit ==
  /\ bucket = {}
  /\ batches = [a \in Attempts |-> NoBatch]

Items(o) == 1..Len(Uploads[o])

\* An upload as it is stored: artifactKey gives back the path it is listed by.
Object(p, o, i) ==
  [prefix |-> p, path |-> Uploads[o][i].path, bytes |-> Uploads[o][i].bytes]

\* An object of some outcome.
Uploadable(s) ==
  /\ s.prefix \in KeyPrefixes
  /\ \E o \in Outcomes : \E i \in Items(o) : s = Object(s.prefix, o, i)

\* Mutant: the objects are put from the last to the first.
CurrentFromTheEnd(a) ==
  Object(batches[a].prefix, batches[a].outcome,
         Len(Uploads[batches[a].outcome]) + 1 - batches[a].next)

\* The object a batch is at, and what the bucket holds under its key.
Current(a) == Object(batches[a].prefix, batches[a].outcome, batches[a].next)
Stored(object) == {s \in bucket : s.prefix = object.prefix /\ s.path = object.path}

SetBatch(a, b) == batches' = [batches EXCEPT ![a] = b]

\* Mutant: the end of the batch is not noticed.
AdvancePastEnd(a) == SetBatch(a, [batches[a] EXCEPT !.stage = "put", !.next = @ + 1])

\* The object is in place: go on to the next one, or answer 204.
Advance(a) ==
  SetBatch(a,
    IF batches[a].next = Len(Uploads[batches[a].outcome])
    THEN [batches[a] EXCEPT !.stage = "published"]
    ELSE [batches[a] EXCEPT !.stage = "put", !.next = @ + 1])

Begin(a, p, o) ==
  /\ batches[a] = NoBatch
  /\ SetBatch(a, [stage |-> "put", prefix |-> p, outcome |-> o, next |-> 1])
  /\ UNCHANGED bucket

\* Mutant: the put has no condition and replaces what is there.
PutAlways(object) == bucket' = (bucket \ Stored(object)) \cup {object}

\* bucket.put with onlyIf etagDoesNotMatch "*" creates the object or does nothing.
PutIfAbsent(object) ==
  bucket' = IF Stored(object) = {} THEN bucket \cup {object} ELSE bucket

\* Mutant: a key that is taken counts as written.
PutObjectBlindly(a) ==
  /\ batches[a].stage = "put"
  /\ PutIfAbsent(Current(a))
  /\ Advance(a)

\* One put of the batch; a key that is taken is looked at next.
PutObject(a) ==
  /\ batches[a].stage = "put"
  /\ PutIfAbsent(Current(a))
  /\ IF Stored(Current(a)) = {}
     THEN Advance(a)
     ELSE SetBatch(a, [batches[a] EXCEPT !.stage = "head"])

\* Mutant: whatever is stored under the key is accepted.
HeadObjectAnyBytes(a) ==
  /\ batches[a].stage = "head"
  /\ Advance(a)
  /\ UNCHANGED bucket

\* bucket.head: the object there has the expected hash, or the batch fails with 409.
HeadObject(a) ==
  /\ batches[a].stage = "head"
  /\ IF Current(a) \in Stored(Current(a))
     THEN Advance(a)
     ELSE SetBatch(a, [batches[a] EXCEPT !.stage = "conflict"])
  /\ UNCHANGED bucket

\* The handler takes the answer of the batch.
Close(a) ==
  /\ batches[a].stage \in {"published", "conflict"}
  /\ SetBatch(a, NoBatch)
  /\ UNCHANGED bucket

\* A handler that is gone leaves a put on the way, which may yet take effect.
Abandoned(b) == IF b.stage = "put" THEN [b EXCEPT !.stage = "orphan"] ELSE NoBatch

\* An operation of the bucket throws, and the exception ends the handler.
Throw(a) ==
  /\ batches[a].stage \in {"put", "head"}
  /\ SetBatch(a, Abandoned(batches[a]))
  /\ UNCHANGED bucket

\* The object is evicted: every handler is gone.
StoreCrash ==
  /\ batches' = [a \in Attempts |->
       IF batches[a].stage = "orphan" THEN batches[a] ELSE Abandoned(batches[a])]
  /\ UNCHANGED bucket

OrphanLands(a) ==
  /\ batches[a].stage = "orphan"
  /\ PutIfAbsent(Current(a))
  /\ SetBatch(a, NoBatch)

OrphanLost(a) ==
  /\ batches[a].stage = "orphan"
  /\ SetBatch(a, NoBatch)
  /\ UNCHANGED bucket

StoreNext ==
  \/ \E a \in Attempts, p \in KeyPrefixes, o \in Outcomes : Begin(a, p, o)
  \/ \E a \in Attempts : PutObject(a)
  \/ \E a \in Attempts : HeadObject(a)
  \/ \E a \in Attempts : Close(a)
  \/ \E a \in Attempts : Throw(a)
  \/ \E a \in Attempts : OrphanLands(a)
  \/ \E a \in Attempts : OrphanLost(a)
  \/ StoreCrash

StoreSpec == StoreInit /\ [][StoreNext]_storeVars

-----------------------------------------------------------------------------
\* Whether every object of an outcome is stored with its bytes.
Complete(p, o) == \A i \in Items(o) : Object(p, o, i) \in bucket

\* The shape of the state.
StoreTypeOK ==
  /\ batches \in [Attempts -> BatchType \cup {NoBatch}]
  /\ \A a \in Attempts :
       batches[a] # NoBatch => batches[a].next \in Items(batches[a].outcome)
  /\ \A s \in bucket : Uploadable(s)

(***************************************************************************)
(* A key is written once: no key ever holds two objects, and nothing       *)
(* stored is removed or replaced, whichever batches, retries and late puts *)
(* meet on it ("immutable" in publishArtifact's comment).                  *)
(***************************************************************************)
WrittenOnce ==
  [][/\ bucket \subseteq bucket'
     /\ \A s, t \in bucket' : s.prefix = t.prefix /\ s.path = t.path => s = t]_storeVars

(***************************************************************************)
(* A ready marker is only ever stored when every object of the outcome it  *)
(* belongs to is stored with exactly the bytes of that outcome, even when  *)
(* batches with different outcomes race on the prefix or were abandoned    *)
(* half way (publish puts the marker last, serveArtifact relies on it).    *)
(***************************************************************************)
MarkerComplete ==
  \A s \in bucket :
    s.path = MarkerPath =>
      \E o \in Outcomes :
        /\ Object(s.prefix, o, Len(Uploads[o])) = s
        /\ Complete(s.prefix, o)

(***************************************************************************)
(* A batch that answered success has all its objects stored, with its own  *)
(* bytes and not those of another outcome (publishArtifactBatch).          *)
(***************************************************************************)
SuccessMeansStored ==
  \A a \in Attempts :
    batches[a].stage = "published" => Complete(batches[a].prefix, batches[a].outcome)
====
