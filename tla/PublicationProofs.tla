---- MODULE PublicationProofs ----
(***************************************************************************)
(* Proofs about Publication, for any number of handlers, any outcomes and  *)
(* any uploads whose marker comes last.  The strengthening is that what a  *)
(* batch has passed is stored: then the marker, the last item, can only be *)
(* put when all the others are there, however many batches race, fail or   *)
(* leave a put behind.  What ArtifactServing's readers get follows from    *)
(* that, because neither a key nor a complete outcome is ever lost.        *)
(***************************************************************************)
EXTENDS ArtifactServing, TLAPS

\* Every item before the one a batch is at is stored with the batch's bytes.
PassedIsStored ==
  \A a \in Attempts :
    batches[a].stage \in {"put", "head", "orphan"} =>
      \A i \in Items(batches[a].outcome) :
        i < batches[a].next => Object(batches[a].prefix, batches[a].outcome, i) \in bucket

KeysUnique ==
  \A s, t \in bucket : s.prefix = t.prefix /\ s.path = t.path => s = t

PInv ==
  /\ StoreTypeOK
  /\ PassedIsStored
  /\ KeysUnique
  /\ SuccessMeansStored
  /\ MarkerComplete

\* An open batch has the fields of one.
LEMMA OpenBatch ==
  ASSUME StoreTypeOK, NEW a \in Attempts, batches[a] # NoBatch
  PROVE  /\ batches[a] \in BatchType
         /\ batches[a].prefix \in KeyPrefixes
         /\ batches[a].outcome \in Outcomes
         /\ batches[a].next \in Nat \ {0}
         /\ batches[a].next \in Items(batches[a].outcome)
         /\ Len(Uploads[batches[a].outcome]) \in Nat \ {0}
BY UploadsAssumption DEF StoreTypeOK, BatchType

\* Putting the object a batch is at into the bucket keeps the bucket's part of
\* the invariant: the key is free when the object is added, and when it is the
\* marker everything before it is stored already.
LEMMA PutKeepsBucket ==
  ASSUME PInv, NEW a \in Attempts, batches[a].stage \in {"put", "orphan"},
         PutIfAbsent(Current(a))
  PROVE  /\ bucket \subseteq bucket'
         /\ Stored(Current(a)) = {} => Current(a) \in bucket'
         /\ KeysUnique'
         /\ MarkerComplete'
         /\ \A s \in bucket' : Uploadable(s)
<1>0. PICK p, o, n : p = batches[a].prefix /\ o = batches[a].outcome /\ n = batches[a].next
  OBVIOUS
<1>1. batches[a] # NoBatch
  BY DEF NoBatch
<1>2. p \in KeyPrefixes /\ o \in Outcomes /\ n \in Items(o) /\ Len(Uploads[o]) \in Nat \ {0}
  BY <1>0, <1>1, OpenBatch DEF PInv
<1>3. Current(a) = Object(p, o, n)
  BY <1>0 DEF Current
<1>4. CASE Stored(Current(a)) # {}
  BY <1>4 DEF PutIfAbsent, PInv, KeysUnique, MarkerComplete, StoreTypeOK, Complete
<1>5. CASE Stored(Current(a)) = {}
  <2>1. bucket' = bucket \cup {Current(a)}
    BY <1>5 DEF PutIfAbsent
  <2>2. KeysUnique'
    BY <1>5, <2>1 DEF PInv, KeysUnique, Stored
  <2>3. \A s \in bucket' : Uploadable(s)
    BY <1>2, <1>3, <2>1 DEF PInv, StoreTypeOK, Uploadable, Object
  <2>4. ASSUME NEW s \in bucket', s.path = MarkerPath
        PROVE  \E e \in Outcomes :
                 /\ Object(s.prefix, e, Len(Uploads[e])) = s
                 /\ Complete(s.prefix, e)'
    <3>1. CASE s \in bucket
      <4>1. PICK e \in Outcomes : /\ Object(s.prefix, e, Len(Uploads[e])) = s
                                  /\ Complete(s.prefix, e)
        BY <2>4, <3>1 DEF PInv, MarkerComplete
      <4>2. Complete(s.prefix, e)'
        BY <4>1, <2>1 DEF Complete
      <4>3. QED
        BY <4>1, <4>2
    <3>2. CASE s = Current(a)
      <4>1. s.prefix = p /\ s.path = Uploads[o][n].path
        BY <3>2, <1>3 DEF Object
      <4>2. n = Len(Uploads[o])
        BY <4>1, <2>4, <1>2, UploadsAssumption DEF Items
      <4>3. \A i \in Items(o) : i < n => Object(p, o, i) \in bucket
        BY <1>0 DEF PInv, PassedIsStored
      <4>4. Complete(p, o)'
        BY <4>2, <4>3, <1>2, <1>3, <2>1 DEF Complete, Items
      <4>5. QED
        BY <4>1, <4>2, <4>4, <3>2, <1>2, <1>3
    <3>3. QED
      BY <2>1, <3>1, <3>2
  <2>5. MarkerComplete'
    BY <2>4 DEF MarkerComplete, Object
  <2>6. QED
    BY <2>1, <2>2, <2>3, <2>5
<1>6. QED
  BY <1>4, <1>5

\* Advancing past a stored object keeps the batches' part of the invariant.
LEMMA AdvanceKeepsBatches ==
  ASSUME PInv, NEW a \in Attempts, batches[a].stage \in {"put", "head"},
         bucket \subseteq bucket', Current(a) \in bucket', Advance(a),
         \A s \in bucket' : Uploadable(s)
  PROVE  StoreTypeOK' /\ PassedIsStored' /\ SuccessMeansStored'
<1>0. PICK p, o, n : p = batches[a].prefix /\ o = batches[a].outcome /\ n = batches[a].next
  OBVIOUS
<1>1. batches[a] # NoBatch
  BY DEF NoBatch
<1>2. /\ batches[a] \in BatchType
      /\ o \in Outcomes /\ n \in Nat \ {0} /\ n \in Items(o)
      /\ Len(Uploads[o]) \in Nat \ {0}
  BY <1>0, <1>1, OpenBatch DEF PInv
<1>3. \A i \in Items(o) : i <= n => Object(p, o, i) \in bucket'
  BY <1>0, <1>2 DEF PInv, PassedIsStored, Current, Items
<1>4. CASE n = Len(Uploads[o])
  <2>1. batches' = [batches EXCEPT ![a] = [batches[a] EXCEPT !.stage = "published"]]
    BY <1>0, <1>4 DEF Advance, SetBatch
  <2>2. [batches[a] EXCEPT !.stage = "published"] \in BatchType
    BY <1>0, <1>2 DEF BatchType
  <2>3. /\ batches'[a] = [batches[a] EXCEPT !.stage = "published"]
        /\ \A b \in Attempts : b # a => batches'[b] = batches[b]
    BY <2>1 DEF PInv, StoreTypeOK
  <2>4. /\ batches'[a].stage = "published"
        /\ batches'[a].prefix = p
        /\ batches'[a].outcome = o
        /\ batches'[a].next = n
    BY <2>3, <1>0, <1>2 DEF BatchType
  <2>5. Complete(p, o)'
    BY <1>3, <1>4, <1>2 DEF Complete, Items
  <2>6. StoreTypeOK'
    BY <2>1, <2>2, <2>3, <2>4, <1>2 DEF PInv, StoreTypeOK
  <2>7. PassedIsStored'
    BY <2>3, <2>4 DEF PInv, PassedIsStored
  <2>8. SuccessMeansStored'
    BY <2>3, <2>4, <2>5 DEF PInv, SuccessMeansStored, Complete
  <2>9. QED
    BY <2>6, <2>7, <2>8
<1>5. CASE n # Len(Uploads[o])
  <2>1. batches' = [batches EXCEPT ![a] = [batches[a] EXCEPT !.stage = "put", !.next = @ + 1]]
    BY <1>0, <1>5 DEF Advance, SetBatch
  <2>2. [batches[a] EXCEPT !.stage = "put", !.next = @ + 1] \in BatchType
    <3>1. batches[a].next + 1 \in Nat \ {0}
      BY <1>0, <1>2
    <3>2. batches[a] \in BatchType
      BY <1>2
    <3>3. QED
      BY <3>1, <3>2 DEF BatchType
  <2>3. /\ batches'[a] = [batches[a] EXCEPT !.stage = "put", !.next = @ + 1]
        /\ \A b \in Attempts : b # a => batches'[b] = batches[b]
    BY <2>1 DEF PInv, StoreTypeOK
  <2>4. /\ batches'[a].stage = "put"
        /\ batches'[a].prefix = p
        /\ batches'[a].outcome = o
        /\ batches'[a].next = n + 1
    BY <2>3, <1>0, <1>2 DEF BatchType
  <2>5. n + 1 \in Items(o)
    BY <1>2, <1>5 DEF Items
  <2>6. StoreTypeOK'
    BY <2>1, <2>2, <2>3, <2>4, <2>5, <1>2 DEF PInv, StoreTypeOK
  <2>7. PassedIsStored'
    <3>1. \A i \in Items(o) : i < n + 1 => Object(p, o, i) \in bucket'
      BY <1>3, <1>2 DEF Items
    <3>2. QED
      BY <2>3, <2>4, <3>1 DEF PInv, PassedIsStored
  <2>8. SuccessMeansStored'
    BY <2>3, <2>4 DEF PInv, SuccessMeansStored, Complete
  <2>9. QED
    BY <2>6, <2>7, <2>8
<1>6. QED
  BY <1>4, <1>5

\* A batch that stays open where it was, or is closed, keeps the batches' part
\* of the invariant while the bucket only grows.
LEMMA OtherStageKeepsBatches ==
  ASSUME PInv, NEW a \in Attempts, NEW b,
         \/ b = NoBatch
         \/ /\ batches[a].stage = "put"
            /\ b \in {[batches[a] EXCEPT !.stage = "head"],
                      [batches[a] EXCEPT !.stage = "orphan"]}
         \/ /\ batches[a].stage = "head"
            /\ b = [batches[a] EXCEPT !.stage = "conflict"],
         SetBatch(a, b), bucket \subseteq bucket',
         \A s \in bucket' : Uploadable(s)
  PROVE  StoreTypeOK' /\ PassedIsStored' /\ SuccessMeansStored'
<1>1. /\ batches' = [batches EXCEPT ![a] = b]
      /\ batches'[a] = b
      /\ \A c \in Attempts : c # a => batches'[c] = batches[c]
  BY DEF SetBatch, PInv, StoreTypeOK
<1>2. CASE b = NoBatch
  <2>1. b.stage = "none"
    BY <1>2 DEF NoBatch
  <2>2. QED
    BY <1>1, <1>2, <2>1
    DEF PInv, StoreTypeOK, PassedIsStored, SuccessMeansStored, Complete
<1>3. CASE b # NoBatch
  <2>1. /\ batches[a] \in BatchType
        /\ batches[a].next \in Items(batches[a].outcome)
    <3>1. batches[a] # NoBatch
      BY <1>3 DEF NoBatch
    <3>2. QED
      BY <3>1, OpenBatch DEF PInv
  <2>2. /\ b \in BatchType
        /\ b.prefix = batches[a].prefix
        /\ b.outcome = batches[a].outcome
        /\ b.next = batches[a].next
        /\ b.stage # "published"
        /\ b.stage \in {"head", "orphan"} => batches[a].stage = "put"
        /\ b.stage # "put"
    BY <1>3, <2>1 DEF BatchType
  <2>3. StoreTypeOK'
    BY <1>1, <2>1, <2>2 DEF PInv, StoreTypeOK
  <2>4. PassedIsStored'
    BY <1>1, <2>2 DEF PInv, PassedIsStored
  <2>5. SuccessMeansStored'
    BY <1>1, <2>2 DEF PInv, SuccessMeansStored, Complete
  <2>6. QED
    BY <2>3, <2>4, <2>5
<1>4. QED
  BY <1>2, <1>3

LEMMA StoreInitInvariant == StoreInit => PInv
BY DEF StoreInit, PInv, StoreTypeOK, NoBatch, PassedIsStored, KeysUnique,
       SuccessMeansStored, MarkerComplete

\* A step that leaves the bucket alone keeps what is said of the bucket only.
LEMMA SameBucket ==
  ASSUME PInv, UNCHANGED bucket
  PROVE  /\ bucket \subseteq bucket'
         /\ KeysUnique'
         /\ MarkerComplete'
         /\ \A s \in bucket' : Uploadable(s)
BY DEF PInv, KeysUnique, MarkerComplete, Complete, StoreTypeOK

LEMMA StoreStepInvariant ==
  ASSUME PInv, [StoreNext]_storeVars
  PROVE  PInv' /\ bucket \subseteq bucket'
<1>1. ASSUME NEW a \in Attempts, NEW p \in KeyPrefixes, NEW o \in Outcomes, Begin(a, p, o)
      PROVE  PInv' /\ bucket \subseteq bucket'
  <2> DEFINE b == [stage |-> "put", prefix |-> p, outcome |-> o, next |-> 1]
  <2>1. /\ batches' = [batches EXCEPT ![a] = b]
        /\ batches'[a] = b
        /\ \A c \in Attempts : c # a => batches'[c] = batches[c]
    BY <1>1 DEF Begin, SetBatch, PInv, StoreTypeOK
  <2>2. b \in BatchType /\ 1 \in Items(o)
    BY UploadsAssumption DEF BatchType, Items
  <2>3. StoreTypeOK'
    BY <1>1, <2>1, <2>2 DEF Begin, PInv, StoreTypeOK
  <2>4. PassedIsStored'
    BY <1>1, <2>1 DEF Begin, PInv, PassedIsStored, Items
  <2>5. SuccessMeansStored'
    BY <1>1, <2>1 DEF Begin, PInv, SuccessMeansStored, Complete
  <2>6. QED
    BY <1>1, <2>3, <2>4, <2>5, SameBucket DEF Begin, PInv
<1>2. ASSUME NEW a \in Attempts, PutObject(a)
      PROVE  PInv' /\ bucket \subseteq bucket'
  <2>1. /\ bucket \subseteq bucket'
        /\ Stored(Current(a)) = {} => Current(a) \in bucket'
        /\ KeysUnique'
        /\ MarkerComplete'
        /\ \A s \in bucket' : Uploadable(s)
    BY <1>2, PutKeepsBucket DEF PutObject
  <2>2. CASE Stored(Current(a)) = {}
    BY <1>2, <2>1, <2>2, AdvanceKeepsBatches DEF PutObject, PInv
  <2>3. CASE Stored(Current(a)) # {}
    BY <1>2, <2>1, <2>3, OtherStageKeepsBatches DEF PutObject, PInv
  <2>4. QED
    BY <2>2, <2>3
<1>3. ASSUME NEW a \in Attempts, HeadObject(a)
      PROVE  PInv' /\ bucket \subseteq bucket'
  <2>1. UNCHANGED bucket
    BY <1>3 DEF HeadObject
  <2>2. CASE Current(a) \in Stored(Current(a))
    <3>1. Current(a) \in bucket'
      BY <2>1, <2>2 DEF Stored
    <3>2. Advance(a) /\ batches[a].stage = "head"
      BY <1>3, <2>2 DEF HeadObject
    <3>3. QED
      BY <2>1, <3>1, <3>2, SameBucket, AdvanceKeepsBatches DEF PInv
  <2>3. CASE Current(a) \notin Stored(Current(a))
    BY <1>3, <2>1, <2>3, SameBucket, OtherStageKeepsBatches DEF HeadObject, PInv
  <2>4. QED
    BY <2>2, <2>3
<1>4. ASSUME NEW a \in Attempts, Close(a) \/ OrphanLost(a)
      PROVE  PInv' /\ bucket \subseteq bucket'
  BY <1>4, SameBucket, OtherStageKeepsBatches DEF Close, OrphanLost, PInv
<1>5. ASSUME NEW a \in Attempts, Throw(a)
      PROVE  PInv' /\ bucket \subseteq bucket'
  BY <1>5, SameBucket, OtherStageKeepsBatches DEF Throw, Abandoned, PInv
<1>6. ASSUME NEW a \in Attempts, OrphanLands(a)
      PROVE  PInv' /\ bucket \subseteq bucket'
  BY <1>6, PutKeepsBucket, OtherStageKeepsBatches DEF OrphanLands, PInv
<1>7. ASSUME StoreCrash
      PROVE  PInv' /\ bucket \subseteq bucket'
  <2>1. ASSUME NEW a \in Attempts
        PROVE  \/ batches'[a] = NoBatch
               \/ /\ batches[a].stage \in {"put", "orphan"}
                  /\ batches'[a] = [batches[a] EXCEPT !.stage = "orphan"]
    <3>1. CASE batches[a].stage = "orphan"
      <4>1. batches[a] \in BatchType
        BY <3>1, OpenBatch DEF PInv, NoBatch
      <4>2. batches[a] = [batches[a] EXCEPT !.stage = "orphan"]
        BY <3>1, <4>1 DEF BatchType
      <4>3. QED
        BY <1>7, <3>1, <4>2 DEF StoreCrash
    <3>2. CASE batches[a].stage # "orphan"
      BY <1>7, <3>2 DEF StoreCrash, Abandoned
    <3>3. QED
      BY <3>1, <3>2
  <2>2. ASSUME NEW a \in Attempts, batches'[a] # NoBatch
        PROVE  /\ batches'[a] \in BatchType
               /\ batches'[a].next \in Items(batches'[a].outcome)
               /\ batches'[a].stage = "orphan"
               /\ \A i \in Items(batches'[a].outcome) : i < batches'[a].next =>
                    Object(batches'[a].prefix, batches'[a].outcome, i) \in bucket
    <3>1. /\ batches[a].stage \in {"put", "orphan"}
          /\ batches'[a] = [batches[a] EXCEPT !.stage = "orphan"]
      BY <2>1, <2>2
    <3>2. /\ batches[a] \in BatchType
          /\ batches[a].next \in Items(batches[a].outcome)
      BY <3>1, OpenBatch DEF PInv, NoBatch
    <3>3. /\ batches'[a] \in BatchType
          /\ batches'[a].stage = "orphan"
          /\ batches'[a].prefix = batches[a].prefix
          /\ batches'[a].outcome = batches[a].outcome
          /\ batches'[a].next = batches[a].next
      BY <3>1, <3>2 DEF BatchType
    <3>4. QED
      BY <3>1, <3>2, <3>3 DEF PInv, PassedIsStored
  <2>3. StoreTypeOK'
    BY <1>7, <2>2, SameBucket DEF StoreCrash, PInv, StoreTypeOK
  <2>4. PassedIsStored'
    <3>1. NoBatch.stage = "none"
      BY DEF NoBatch
    <3>2. QED
      BY <1>7, <2>2, <3>1 DEF StoreCrash, PassedIsStored
  <2>5. SuccessMeansStored'
    <3>1. NoBatch.stage = "none"
      BY DEF NoBatch
    <3>2. QED
      BY <2>2, <3>1 DEF SuccessMeansStored
  <2>6. QED
    BY <1>7, <2>3, <2>4, <2>5, SameBucket DEF StoreCrash, PInv
<1>8. CASE UNCHANGED storeVars
  BY <1>8 DEF storeVars, PInv, StoreTypeOK, PassedIsStored, KeysUnique,
              SuccessMeansStored, MarkerComplete, Complete
<1>9. QED
  BY <1>1, <1>2, <1>3, <1>4, <1>5, <1>6, <1>7, <1>8 DEF StoreNext

LEMMA StoreInvariantHolds == StoreSpec => []PInv
<1>1. PInv /\ [StoreNext]_storeVars => PInv'
  BY StoreStepInvariant
<1>2. QED
  BY <1>1, StoreInitInvariant, PTL DEF StoreSpec

\* Type correctness of the bucket and of the batches in flight.
THEOREM StoreTypeCorrect == StoreSpec => []StoreTypeOK
<1>1. PInv => StoreTypeOK
  BY DEF PInv
<1>2. QED
  BY <1>1, StoreInvariantHolds, PTL

\* Whatever batches race, fail half way or leave late puts behind, a ready
\* marker stands for one outcome that is stored in full.
THEOREM MarkerStandsForOutcome == StoreSpec => []MarkerComplete
<1>1. PInv => MarkerComplete
  BY DEF PInv
<1>2. QED
  BY <1>1, StoreInvariantHolds, PTL

\* A batch that answered success has stored its own outcome, whole and unmixed.
THEOREM SuccessStandsForOutcome == StoreSpec => []SuccessMeansStored
<1>1. PInv => SuccessMeansStored
  BY DEF PInv
<1>2. QED
  BY <1>1, StoreInvariantHolds, PTL

\* No object is ever removed or replaced, and no key holds two.
THEOREM ObjectsAreWrittenOnce == StoreSpec => WrittenOnce
<1>1. PInv /\ [StoreNext]_storeVars =>
        [/\ bucket \subseteq bucket'
         /\ \A s, t \in bucket' : s.prefix = t.prefix /\ s.path = t.path => s = t]_storeVars
  BY StoreStepInvariant DEF PInv, KeysUnique
<1>2. QED
  BY <1>1, StoreInvariantHolds, PTL DEF StoreSpec, WrittenOnce

-----------------------------------------------------------------------------
\* What a reader has: true copies of a complete version, a marker that is stored,
\* and a 404 after a marker only for what no complete outcome of it lists under a
\* name that a URL leaves alone.
ReadOK(x) ==
  /\ \A c \in x.copy : c \in bucket /\ \E o \in Outcomes : Complete(c.prefix, o)
  /\ x.stage = "marker" => x.marker = {}
  /\ x.stage = "object" =>
       /\ x.marker # {}
       /\ \A s \in x.marker : s \in bucket /\ s.prefix = x.prefix /\ s.path = MarkerPath
  /\ x.stage = "missing" => \A s \in x.marker :
       \E o \in Outcomes :
         /\ s = Object(x.prefix, o, Len(Uploads[o]))
         /\ Complete(x.prefix, o)
         /\ \A i \in Items(o) :
              InUrl(Uploads[o][i].path) = x.path => Uploads[o][i].path \in DOMAIN Encoded
ReadsOK ==
  /\ reads = [r \in Readers |-> reads[r]]
  /\ \A r \in Readers : ReadOK(reads[r])

LEMMA ReadFields ==
  ASSUME NEW s, NEW p, NEW f, NEW m, NEW c
  PROVE  LET x == Read(s, p, f, m, c)
         IN  x.stage = s /\ x.prefix = p /\ x.path = f /\ x.marker = m /\ x.copy = c
BY DEF Read

LEMMA SetReadKeeps ==
  ASSUME ReadsOK, UNCHANGED bucket, NEW r \in Readers, NEW x, ReadOK(x), SetRead(r, x)
  PROVE  ReadsOK'
<1>1. reads' = [q \in Readers |-> IF q = r THEN x ELSE reads[q]]
  BY DEF SetRead, ReadsOK
<1>2. \A q \in Readers : ReadOK(IF q = r THEN x ELSE reads[q])
  BY DEF ReadsOK
<1>3. \A q \in Readers : ReadOK(reads'[q])
  BY <1>1, <1>2
<1>4. \A q \in Readers : ReadOK(reads[q])'
  BY <1>3 DEF ReadOK, Complete
<1>5. QED
  BY <1>1, <1>4 DEF ReadsOK

\* What readers have stays true while the bucket grows.
LEMMA GrowthKeepsReads ==
  ASSUME ReadsOK, bucket \subseteq bucket', UNCHANGED reads
  PROVE  ReadsOK'
<1>1. ASSUME NEW p, NEW o, Complete(p, o) PROVE Complete(p, o)'
  BY <1>1 DEF Complete
<1>2. ASSUME NEW r \in Readers PROVE ReadOK(reads[r])'
  <2>1. ReadOK(reads[r])
    BY DEF ReadsOK
  <2>2. QED
    BY <1>1, <2>1 DEF ReadOK
<1>3. QED
  BY <1>2 DEF ReadsOK

LEMMA AskKeeps ==
  ASSUME ReadsOK, NEW r \in Readers, NEW p, NEW f, Ask(r, p, f)
  PROVE  ReadsOK'
<1> DEFINE c == {d \in reads[r].copy : d.prefix = p /\ d.path = InUrl(f)}
<1>1. ReadOK(reads[r])
  BY DEF ReadsOK
<1>2. ReadOK(Read("marker", p, InUrl(f), {}, c))
  BY <1>1, ReadFields DEF ReadOK
<1>3. QED
  BY <1>2, SetReadKeeps DEF Ask, Unpublishing

LEMMA GetMarkerKeeps ==
  ASSUME ReadsOK, NEW r \in Readers, GetMarker(r)
  PROVE  ReadsOK'
<1> DEFINE x == reads[r]
           marker == At(x.prefix, MarkerPath)
           stage == IF marker = {} THEN "missing" ELSE "object"
           y == Read(stage, x.prefix, x.path, marker, x.copy)
<1>1. ReadOK(x)
  BY DEF ReadsOK
<1>2. \A s \in marker : s \in bucket /\ s.prefix = x.prefix /\ s.path = MarkerPath
  BY DEF At
<1>3. y.stage = stage /\ y.prefix = x.prefix /\ y.marker = marker /\ y.copy = x.copy
  BY ReadFields
<1>4. SetRead(r, y) /\ UNCHANGED bucket
  BY DEF GetMarker, Proceed, Unpublishing
<1> HIDE DEF x, marker, y
<1>5. ReadOK(y)
  BY <1>1, <1>2, <1>3 DEF ReadOK
<1>6. QED
  BY <1>4, <1>5, SetReadKeeps

LEMMA GetObjectKeeps ==
  ASSUME PInv, ReadsOK, NEW r \in Readers, GetObject(r)
  PROVE  ReadsOK'
<1> DEFINE x == reads[r]
           object == At(x.prefix, x.path)
<1>1. ReadOK(x) /\ x.stage = "object" /\ UNCHANGED bucket
  BY DEF ReadsOK, GetObject, Unpublishing
<1>2. ASSUME NEW s \in x.marker
      PROVE  \E o \in Outcomes : /\ s = Object(x.prefix, o, Len(Uploads[o]))
                                 /\ Complete(x.prefix, o)
  <2>1. s \in bucket /\ s.prefix = x.prefix /\ s.path = MarkerPath
    BY <1>1, <1>2 DEF ReadOK
  <2>2. QED
    BY <2>1 DEF PInv, MarkerComplete
<1>3. CASE object = {}
  <2> DEFINE y == Read("missing", x.prefix, x.path, x.marker, x.copy)
  <2>1. y.stage = "missing" /\ y.prefix = x.prefix /\ y.path = x.path
        /\ y.marker = x.marker /\ y.copy = x.copy
    BY ReadFields
  <2>2. SetRead(r, y)
    BY <1>3 DEF GetObject, Proceed
  <2>3. ASSUME NEW o \in Outcomes, Complete(x.prefix, o), NEW i \in Items(o),
               InUrl(Uploads[o][i].path) = x.path
        PROVE  Uploads[o][i].path \in DOMAIN Encoded
    <3>1. Object(x.prefix, o, i) \in bucket
      BY <2>3 DEF Complete
    <3>2. Object(x.prefix, o, i).prefix = x.prefix /\ Object(x.prefix, o, i).path = Uploads[o][i].path
      BY DEF Object
    <3>3. Uploads[o][i].path # x.path
      BY <1>3, <3>1, <3>2 DEF At
    <3>4. QED
      BY <2>3, <3>3 DEF InUrl
  <2> HIDE DEF x, y
  <2>4. ReadOK(y)
    BY <1>1, <1>2, <2>1, <2>3 DEF ReadOK
  <2>5. QED
    BY <1>1, <2>2, <2>4, SetReadKeeps
<1>4. CASE object # {}
  <2> DEFINE y == Read("answered", x.prefix, x.path, x.marker, object)
  <2>1. y.stage = "answered" /\ y.copy = object
    BY ReadFields
  <2>2. SetRead(r, y)
    BY <1>4 DEF GetObject, Proceed
  <2>3. \A c \in object : c \in bucket /\ c.prefix = x.prefix
    BY DEF At
  <2>4. \E o \in Outcomes : Complete(x.prefix, o)
    BY <1>1, <1>2 DEF ReadOK
  <2> HIDE DEF x, y, object
  <2>5. ReadOK(y)
    BY <2>1, <2>3, <2>4 DEF ReadOK
  <2>6. QED
    BY <1>1, <2>2, <2>5, SetReadKeeps
<1>5. QED
  BY <1>3, <1>4

LEMMA ReadFailsKeeps ==
  ASSUME ReadsOK, NEW r \in Readers, ReadFails(r)
  PROVE  ReadsOK'
<1> DEFINE y == Read("answered", reads[r].prefix, reads[r].path, {}, reads[r].copy)
<1>1. ReadOK(reads[r])
  BY DEF ReadsOK
<1>2. y.stage = "answered" /\ y.copy = reads[r].copy
  BY ReadFields
<1>3. SetRead(r, y) /\ UNCHANGED bucket
  BY DEF ReadFails, Proceed, Unpublishing
<1> HIDE DEF y
<1>4. ReadOK(y)
  BY <1>1, <1>2 DEF ReadOK
<1>5. QED
  BY <1>3, <1>4, SetReadKeeps

LEMMA ServingInvariantHolds == ServingSpec => [](PInv /\ ReadsOK)
<1>1. ServingInit => PInv /\ ReadsOK
  <2> SUFFICES ASSUME ServingInit PROVE PInv /\ ReadsOK
    OBVIOUS
  <2>1. PInv
    BY StoreInitInvariant DEF ServingInit
  <2>2. ReadOK(Unasked)
    BY DEF Unasked, ReadOK
  <2>3. ReadsOK
    BY <2>2 DEF ServingInit, ReadsOK
  <2>4. QED
    BY <2>1, <2>3
<1>2. PInv /\ ReadsOK /\ [ServingNext]_servingVars => (PInv /\ ReadsOK)'
  <2> SUFFICES ASSUME PInv, ReadsOK, [ServingNext]_servingVars PROVE PInv' /\ ReadsOK'
    OBVIOUS
  <2>1. CASE StoreNext /\ UNCHANGED reads
    BY <2>1, StoreStepInvariant, GrowthKeepsReads
  <2>2. ASSUME NEW r \in Readers,
               \/ \E p \in KeyPrefixes, f \in Asked : Ask(r, p, f)
               \/ GetMarker(r) \/ GetObject(r) \/ ReadFails(r)
        PROVE  PInv' /\ ReadsOK'
    <3>1. UNCHANGED storeVars
      BY <2>2 DEF Ask, GetMarker, GetObject, ReadFails, Unpublishing, storeVars
    <3>2. PInv'
      BY <3>1, StoreStepInvariant
    <3>3. ReadsOK'
      BY <2>2, AskKeeps, GetMarkerKeeps, GetObjectKeeps, ReadFailsKeeps
    <3>4. QED
      BY <3>2, <3>3
  <2>3. CASE UNCHANGED servingVars
    <3>1. UNCHANGED storeVars /\ UNCHANGED reads
      BY <2>3 DEF servingVars, storeVars
    <3>2. QED
      BY <3>1, StoreStepInvariant, GrowthKeepsReads
  <2>4. QED
    BY <2>1, <2>2, <2>3 DEF ServingNext
<1>3. QED
  BY <1>1, <1>2, PTL DEF ServingSpec

\* Every copy in the hands of a client is of a complete version and stays what the
\* bucket has, for any batches and any number of readers.
THEOREM ServedCopiesStayTrue == ServingSpec => []CopiesStayTrue
<1>1. PInv /\ ReadsOK => CopiesStayTrue
  <2> SUFFICES ASSUME PInv, ReadsOK, NEW r \in Readers, NEW c \in reads[r].copy
               PROVE  /\ At(c.prefix, c.path) = {c}
                      /\ \E o \in Outcomes : Complete(c.prefix, o)
    BY DEF CopiesStayTrue
  <2>1. c \in bucket /\ \E o \in Outcomes : Complete(c.prefix, o)
    BY DEF ReadsOK, ReadOK
  <2>2. QED
    BY <2>1 DEF PInv, KeysUnique, At
<1>2. QED
  BY <1>1, ServingInvariantHolds, PTL

\* A reader that saw a ready marker is never answered 404 for anything the
\* marker's outcome lists, unless it lists it under a name that a URL changes;
\* whatever names these are.
THEOREM ListedFilesAreServed == ServingSpec => []ListedIsServed
<1>1. PInv /\ ReadsOK => ListedIsServed
  BY DEF ReadsOK, ReadOK, ListedIsServed
<1>2. QED
  BY <1>1, ServingInvariantHolds, PTL
====
